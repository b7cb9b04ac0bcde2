SPECIFICATION FairSpec
CONSTANTS
  Requests <- MCRequests
  Resources <- MCResources
  FileSize = 2
  BodyLen = 2
  READ_BUFFER_SIZE = 12
  Descriptors = {1, 2, 3, 4}
  cThreads = {w1, w2}
  MAX_FD = 3
  max_requests = 1
  MAX_EVENT_NUMBER = 2
  MaxClients = 4
  tDescriptors = {1, 2, 3}
  tMaxClients = 3
  tMaxUnread = 1
  tSlots = 1
  Producers = {p1, p2}
  Customers = {c1, c2}
  Room = 2
  MaxNodes = 3
  Children = {c1, c2, p1}
  eDescriptors = {2, 3}
  LastIndex = 3
  eMaxClients = 3
  MaxUnread = 2
  sDescriptors = {1, 2, 3}
  max = 2
  MaxLines = 3
  Clients = {c1, c2}
  MaxTyped = 2
  Sellers = {p1, p2}
  kReaders = {c1, c2}
  Tickets = 2
  MaxNum = 4
  Workers = {w1, w2}
  Names = {"n"}
  Passwords = {"p", "q"}
  MaxCalls = 3
INVARIANTS TurnsKept ListSound HandedOver ClientsHeard AccountsKept
PROPERTIES RequestProcessed Answered GoneClosed
CHECK_DEADLOCK FALSE
