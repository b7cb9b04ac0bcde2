---------------------------- MODULE CServer_proofs ----------------------------
(***************************************************************************)
(* Proofs about CServer, for any descriptors, any finite set of workers and *)
(* any limits: an open connection of the C-style server is in one pair of  *)
(* hands.                                                                  *)
(***************************************************************************)
EXTENDS CServer, FiniteSetTheorems, FunctionTheorems, SequenceTheorems,
        WellFoundedInduction, TLAPS

(* Workers can be counted; a descriptor is not that of the listening socket.*)
Sized == IsFiniteSet(Threads) /\ Descriptors \subseteq Nat \ {listenfd}

-----------------------------------------------------------------------------
(* Counting.                                                               *)

(* The events in E that tell of f.                                        *)
Told(E, f) == Cardinality({e \in E : e[1] = f})

LEMMA EventsTaken ==
  ASSUME NEW E, NEW x \in E, NEW f, IsFiniteSet(E)
  PROVE  /\ IsFiniteSet(E \ {x})
         /\ Told(E \ {x}, f) = Told(E, f) - (IF x[1] = f THEN 1 ELSE 0)
         /\ Told(E, f) \in Nat
         /\ x[1] = f => Told(E, f) # 0
  <1> USE DEF Told
  <1> DEFINE S == {e \in E : e[1] = f}
             T == {e \in E \ {x} : e[1] = f}
  <1>1. IsFiniteSet(S) /\ IsFiniteSet(E \ {x})
    BY FS_Subset, FS_RemoveElement
  <1>2. Cardinality(S) \in Nat
    BY <1>1, FS_CardinalityType
  <1>3. CASE x[1] = f
    <2>1. T = S \ {x} /\ x \in S /\ S # {}
      BY <1>3
    <2>2. Cardinality(S \ {x}) = Cardinality(S) - 1
      BY <1>1, <2>1, FS_RemoveElement
    <2>3. Cardinality(S) # 0
      BY <1>1, <2>1, FS_EmptySet
    <2> QED
      BY <1>1, <1>2, <1>3, <2>1, <2>2, <2>3
  <1>4. CASE x[1] # f
    <2>1. T = S
      BY <1>4
    <2> HIDE DEF S, T
    <2>2. Cardinality(T) = Cardinality(S) - 0
      BY <1>2, <2>1
    <2> QED
      BY <1>1, <1>2, <1>4, <2>2 DEF S, T
  <1> QED
    BY <1>3, <1>4

(* The places of f in the queue q.                                         *)
Queued(q, f) == Cardinality({i \in DOMAIN q : q[i] = f})

LEMMA QueueCount ==
  ASSUME NEW D, NEW q \in Seq(D), NEW f
  PROVE  /\ IsFiniteSet({i \in DOMAIN q : q[i] = f})
         /\ Queued(q, f) \in Nat
  <1>1. DOMAIN q = 1..Len(q) /\ Len(q) \in Nat
    BY LenProperties
  <1>2. IsFiniteSet(1..Len(q))
    BY <1>1, FS_Interval, 1 \in Int, Len(q) \in Int
  <1>3. IsFiniteSet({i \in DOMAIN q : q[i] = f})
    BY <1>1, <1>2, FS_Subset
  <1> QED
    BY <1>3, FS_CardinalityType DEF Queued

LEMMA QueueAppended ==
  ASSUME NEW D, NEW q \in Seq(D), NEW x \in D, NEW f
  PROVE  Queued(Append(q, x), f) = Queued(q, f) + (IF x = f THEN 1 ELSE 0)
  <1> USE DEF Queued
  <1> DEFINE p == Append(q, x)
             n == Len(q)
             S == {i \in DOMAIN q : q[i] = f}
             T == {i \in DOMAIN p : p[i] = f}
  <1>1. /\ p \in Seq(D) /\ Len(p) = n + 1 /\ p[n + 1] = x
        /\ \A i \in 1..n : p[i] = q[i]
    BY AppendProperties
  <1>2. DOMAIN q = 1..n /\ n \in Nat /\ DOMAIN p = 1..Len(p)
    BY <1>1, LenProperties
  <1>3. IsFiniteSet(S) /\ Cardinality(S) \in Nat
    BY QueueCount
  <1> HIDE DEF p, n
  <1>4. DOMAIN p = 1..n \cup {n + 1} /\ n + 1 \notin 1..n
    BY <1>1, <1>2
  <1>5. CASE x = f
    <2>1. T = S \cup {n + 1} /\ n + 1 \notin S
      BY <1>1, <1>2, <1>4, <1>5
    <2> HIDE DEF S, T
    <2>2. Cardinality(S \cup {n + 1}) = Cardinality(S) + 1
      BY <1>3, <2>1, FS_AddElement
    <2>3. Cardinality(T) = Cardinality(S) + 1
      BY <2>1, <2>2
    <2> QED
      BY <1>5, <2>3 DEF S, T, p
  <1>6. CASE x # f
    <2>1. T = S
      BY <1>1, <1>2, <1>4, <1>6
    <2> HIDE DEF S, T
    <2>2. Cardinality(T) = Cardinality(S) + 0
      BY <1>3, <2>1
    <2> QED
      BY <1>6, <2>2 DEF S, T, p
  <1> QED
    BY <1>5, <1>6

LEMMA QueueTaken ==
  ASSUME NEW D, NEW q \in Seq(D), NEW f, q # << >>
  PROVE  /\ Queued(Tail(q), f) = Queued(q, f) - (IF Head(q) = f THEN 1 ELSE 0)
         /\ Head(q) = f => Queued(q, f) # 0
  <1> USE DEF Queued
  <1> DEFINE p == Tail(q)
             n == Len(q)
             S == {i \in DOMAIN q : q[i] = f}
             T == {i \in DOMAIN p : p[i] = f}
             U == S \ {1}
             F == [i \in T |-> i + 1]
  <1>1. /\ p \in Seq(D) /\ Len(p) = n - 1
        /\ \A i \in 1..Len(p) : p[i] = q[i + 1]
    BY HeadTailProperties
  <1>2. DOMAIN q = 1..n /\ n \in Nat /\ DOMAIN p = 1..Len(p) /\ n # 0 /\ Head(q) = q[1]
    BY <1>1, LenProperties, EmptySeq
  <1>3. IsFiniteSet(S) /\ Cardinality(S) \in Nat /\ IsFiniteSet(T)
    BY <1>1, QueueCount
  <1> HIDE DEF p, n
  <1>4. \A i \in T : i \in Nat /\ i + 1 \in U
    BY <1>1, <1>2
  <1>5. \A j \in U : j - 1 \in T /\ (j - 1) + 1 = j
    BY <1>1, <1>2
  <1>6. T \subseteq Nat
    BY <1>4
  <1> HIDE DEF S, T, U
  <1>7. F \in [T -> U] /\ \A a, b \in T : F[a] = F[b] => a = b
    BY <1>4, <1>6
  <1>8. \A j \in U : \E i \in T : F[i] = j
    <2> SUFFICES ASSUME NEW j \in U PROVE \E i \in T : F[i] = j
      OBVIOUS
    <2>1. F[j - 1] = (j - 1) + 1
      BY <1>5
    <2> QED
      BY <1>5, <2>1
  <1> HIDE DEF F
  <1>9. F \in Bijection(T, U)
    BY <1>7, <1>8, Fun_IsBij
  <1>10. ExistsBijection(T, U)
    BY <1>9 DEF ExistsBijection
  <1>11. Cardinality(U) = Cardinality(T)
    BY <1>3, <1>10, FS_Bijection
  <1>12. Cardinality(U) = Cardinality(S) - (IF 1 \in S THEN 1 ELSE 0)
    <2>1. IsFiniteSet(S)
      BY <1>3
    <2>2. Cardinality(S \ {1}) = IF 1 \in S THEN Cardinality(S) - 1 ELSE Cardinality(S)
      BY <2>1, FS_RemoveElement
    <2> QED
      BY <1>3, <2>2 DEF U
  <1>13. 1 \in S <=> Head(q) = f
    BY <1>2 DEF S
  <1>14. Head(q) = f => Cardinality(S) # 0
    BY <1>3, <1>13, FS_EmptySet
  <1>15. Cardinality(T) = Cardinality(S) - (IF Head(q) = f THEN 1 ELSE 0)
    BY <1>11, <1>12, <1>13
  <1> QED
    BY <1>14, <1>15 DEF S, T, p

-----------------------------------------------------------------------------
(* Who has a connection.                                                   *)

ByArmed(f) == IF armed[f] # "off" THEN 1 ELSE 0
ByEvents(f) == Told(events, f)
ByMain(f) == IF sockfd = f THEN 1 ELSE 0
ByQueue(f) == Queued(workqueue, f)
ByWorkers(f) == Cardinality({w \in Threads : request[w] = f})
Due(f) == IF f \in open /\ f \notin refused THEN 1 ELSE 0

Events == {<<f, k>> : f \in Descriptors, k \in {"in", "out", "hup"}} \cup {<<listenfd, "in">>}

TypeInv ==
  /\ open \subseteq Descriptors /\ IsFiniteSet(open) /\ refused \subseteq open
  /\ user_count = Cardinality(open)
  /\ armed \in [Descriptors -> {"in", "out", "off"}]
  /\ events \subseteq Events /\ IsFiniteSet(events)
  /\ main \in {"poll", "append", "push", "post"} /\ sockfd \in Descriptors \cup {listenfd}
  /\ main \in {"append", "push"} <=> sockfd # listenfd
  /\ workqueue \in Seq(Descriptors)
  /\ at \in [Threads -> {"wait", "lock", "pop", "process"}]
  /\ request \in [Threads -> Descriptors \cup {listenfd}]
  /\ \A w \in Threads : at[w] = "process" <=> request[w] # listenfd

HandsInv ==
  \A f \in Descriptors :
    ByArmed(f) + ByEvents(f) + ByMain(f) + ByQueue(f) + ByWorkers(f) = Due(f)

LEMMA TurnsAre ==
  ASSUME NEW f
  PROVE  Turns(f) = ByArmed(f) + ByEvents(f) + ByMain(f) + ByQueue(f) + ByWorkers(f)
  BY DEF Turns, ByArmed, ByEvents, ByMain, ByQueue, ByWorkers, Queued, Told

LEMMA Counts ==
  ASSUME Sized, TypeInv, NEW f
  PROVE  /\ ByArmed(f) \in {0, 1} /\ ByMain(f) \in {0, 1} /\ Due(f) \in {0, 1}
         /\ ByEvents(f) \in Nat /\ ByQueue(f) \in Nat /\ ByWorkers(f) \in Nat
  <1>1. ByArmed(f) \in {0, 1} /\ ByMain(f) \in {0, 1} /\ Due(f) \in {0, 1}
    BY DEF ByArmed, ByMain, Due
  <1>2. ByEvents(f) \in Nat
    <2>1. IsFiniteSet({e \in events : e[1] = f})
      BY FS_Subset DEF TypeInv
    <2> QED
      BY <2>1, FS_CardinalityType DEF ByEvents, Told
  <1>3. ByQueue(f) \in Nat
    <2>1. workqueue \in Seq(Descriptors)
      BY DEF TypeInv
    <2>2. Queued(workqueue, f) \in Nat
      BY <2>1, QueueCount
    <2> QED
      BY <2>2 DEF ByQueue
  <1>4. ByWorkers(f) \in Nat
    <2>1. IsFiniteSet({w \in Threads : request[w] = f})
      BY FS_Subset DEF Sized
    <2> QED
      BY <2>1, FS_CardinalityType DEF ByWorkers
  <1> QED
    BY <1>1, <1>2, <1>3, <1>4

(* A worker takes a request, or is done with one.                           *)
LEMMA RequestChanged ==
  ASSUME NEW w \in Threads, NEW v, NEW f, IsFiniteSet(Threads),
         request'[w] = v, \A u \in Threads \ {w} : request'[u] = request[u]
  PROVE  /\ ByWorkers(f)' = ByWorkers(f) - (IF request[w] = f THEN 1 ELSE 0)
                              + (IF v = f THEN 1 ELSE 0)
         /\ ByWorkers(f) \in Nat
         /\ request[w] = f => ByWorkers(f) # 0
  <1> USE DEF ByWorkers
  <1> DEFINE S == {u \in Threads : request[u] = f}
             T == {u \in Threads : request'[u] = f}
  <1>1. IsFiniteSet(S)
    BY FS_Subset
  <1>2. Cardinality(S) \in Nat
    BY <1>1, FS_CardinalityType
  <1>3. request[w] = f => Cardinality(S) # 0
    BY <1>1, FS_EmptySet
  <1>4. CASE request[w] = f /\ v = f
    <2>1. T = S
      BY <1>4
    <2> HIDE DEF S, T
    <2>2. Cardinality(T) = Cardinality(S) - 1 + 1
      BY <1>2, <2>1
    <2> QED
      BY <1>2, <1>3, <1>4, <2>2 DEF S, T
  <1>5. CASE request[w] = f /\ v # f
    <2>1. T = S \ {w} /\ w \in S
      BY <1>5
    <2>2. Cardinality(S \ {w}) = Cardinality(S) - 1
      BY <1>1, <2>1, FS_RemoveElement
    <2> HIDE DEF S, T
    <2>3. Cardinality(T) = Cardinality(S) - 1 + 0
      BY <1>2, <2>1, <2>2
    <2> QED
      BY <1>2, <1>3, <1>5, <2>3 DEF S, T
  <1>6. CASE request[w] # f /\ v = f
    <2>1. T = S \cup {w} /\ w \notin S
      BY <1>6
    <2>2. Cardinality(S \cup {w}) = Cardinality(S) + 1
      BY <1>1, <2>1, FS_AddElement
    <2> HIDE DEF S, T
    <2>3. Cardinality(T) = Cardinality(S) - 0 + 1
      BY <1>2, <2>1, <2>2
    <2> QED
      BY <1>2, <1>3, <1>6, <2>3 DEF S, T
  <1>7. CASE request[w] # f /\ v # f
    <2>1. T = S
      BY <1>7
    <2> HIDE DEF S, T
    <2>2. Cardinality(T) = Cardinality(S) - 0 + 0
      BY <1>2, <2>1
    <2> QED
      BY <1>2, <1>3, <1>7, <2>2 DEF S, T
  <1> QED
    BY <1>4, <1>5, <1>6, <1>7

(* Whoever has a connection has it alone.                                  *)
LEMMA Alone ==
  ASSUME Sized, TypeInv, HandsInv, NEW f \in Descriptors
  PROVE  /\ ByArmed(f) = 1 => /\ ByEvents(f) = 0 /\ ByMain(f) = 0 /\ ByQueue(f) = 0
                              /\ ByWorkers(f) = 0 /\ Due(f) = 1
         /\ ByEvents(f) # 0 => /\ ByEvents(f) = 1 /\ ByArmed(f) = 0 /\ ByMain(f) = 0
                               /\ ByQueue(f) = 0 /\ ByWorkers(f) = 0 /\ Due(f) = 1
         /\ ByMain(f) = 1 => /\ ByArmed(f) = 0 /\ ByEvents(f) = 0 /\ ByQueue(f) = 0
                             /\ ByWorkers(f) = 0 /\ Due(f) = 1
         /\ ByQueue(f) # 0 => /\ ByQueue(f) = 1 /\ ByArmed(f) = 0 /\ ByEvents(f) = 0
                              /\ ByMain(f) = 0 /\ ByWorkers(f) = 0 /\ Due(f) = 1
         /\ ByWorkers(f) # 0 => /\ ByWorkers(f) = 1 /\ ByArmed(f) = 0 /\ ByEvents(f) = 0
                                /\ ByMain(f) = 0 /\ ByQueue(f) = 0 /\ Due(f) = 1
         /\ Due(f) = 0 => /\ ByArmed(f) = 0 /\ ByEvents(f) = 0 /\ ByMain(f) = 0
                          /\ ByQueue(f) = 0 /\ ByWorkers(f) = 0
  <1>1. ByArmed(f) + ByEvents(f) + ByMain(f) + ByQueue(f) + ByWorkers(f) = Due(f)
    BY DEF HandsInv
  <1> QED
    BY <1>1, Counts

LEMMA InvInit == ASSUME Sized, Init PROVE TypeInv /\ HandsInv
  <1>1. TypeInv
    <2>1. IsFiniteSet({}) /\ Cardinality({}) = 0
      BY FS_EmptySet
    <2>2. << >> \in Seq(Descriptors)
      BY EmptySeq
    <2> QED
      BY <2>1, <2>2 DEF Init, TypeInv
  <1>2. ASSUME NEW f \in Descriptors
        PROVE  ByArmed(f) + ByEvents(f) + ByMain(f) + ByQueue(f) + ByWorkers(f) = Due(f)
    <2>1. f # listenfd
      BY DEF Sized
    <2>2. ByArmed(f) = 0 /\ ByMain(f) = 0 /\ Due(f) = 0
      BY <2>1 DEF Init, ByArmed, ByMain, Due
    <2>3. /\ {e \in events : e[1] = f} = {} /\ {i \in DOMAIN workqueue : workqueue[i] = f} = {}
          /\ {w \in Threads : request[w] = f} = {}
      <3>1. workqueue = << >> /\ Len(<< >>) = 0 /\ DOMAIN << >> = 1..Len(<< >>)
        BY EmptySeq DEF Init
      <3> QED
        BY <2>1, <3>1 DEF Init
    <2>4. ByEvents(f) = 0 /\ ByQueue(f) = 0 /\ ByWorkers(f) = 0
      BY <2>3, FS_EmptySet DEF ByEvents, ByQueue, ByWorkers, Queued, Told
    <2> QED
      BY <2>2, <2>4
  <1> QED
    BY <1>1, <1>2 DEF HandsInv

(* A step that moves no connection.                                        *)
LEMMA HandsSame ==
  ASSUME HandsInv, UNCHANGED <<open, refused, armed, events, sockfd, workqueue, request>>
  PROVE  HandsInv'
  BY DEF HandsInv, ByArmed, ByEvents, ByMain, ByQueue, ByWorkers, Due

LEMMA ConnectKeeps == ASSUME TypeInv, HandsInv, Connect PROVE TypeInv' /\ HandsInv'
  <1>1. UNCHANGED <<open, refused, armed, user_count, events, main, sockfd, workqueue, at, request>>
    BY DEF Connect, pool
  <1> QED
    BY <1>1, HandsSame DEF TypeInv

LEMMA WaitKeeps == ASSUME Sized, TypeInv, HandsInv, epoll_wait PROVE TypeInv' /\ HandsInv'
  <1>a. \E fs \in SUBSET Registered, l \in SUBSET {listenfd} :
          /\ \E hup \in SUBSET fs :
               events' = {<<f, IF f \in hup THEN "hup" ELSE armed[f]>> : f \in fs}
                           \cup {<<f, "in">> : f \in l}
          /\ armed' = Reported(fs)
    BY DEF epoll_wait
  <1>b. PICK fs \in SUBSET Registered, l \in SUBSET {listenfd} :
          /\ \E hup \in SUBSET fs :
               events' = {<<f, IF f \in hup THEN "hup" ELSE armed[f]>> : f \in fs}
                           \cup {<<f, "in">> : f \in l}
          /\ armed' = Reported(fs)
    BY <1>a
  <1>c. PICK hup \in SUBSET fs :
          events' = {<<f, IF f \in hup THEN "hup" ELSE armed[f]>> : f \in fs}
                      \cup {<<f, "in">> : f \in l}
    BY <1>b
  <1>1. /\ events' = {<<f, IF f \in hup THEN "hup" ELSE armed[f]>> : f \in fs}
                        \cup {<<f, "in">> : f \in l}
        /\ armed' = Reported(fs)
    BY <1>b, <1>c
  <1>2. events = {} /\ UNCHANGED <<open, refused, user_count, main, sockfd, workqueue, at, request>>
    BY DEF epoll_wait, kernel, pool
  <1>3. fs \subseteq Descriptors /\ \A f \in fs : armed[f] \in {"in", "out"}
    BY <1>1 DEF Registered, TypeInv
  <1>4. fs \subseteq open
    <2> SUFFICES ASSUME NEW f \in fs PROVE f \in open
      OBVIOUS
    <2>1. ByArmed(f) = 1
      BY <1>3 DEF ByArmed
    <2>2. Due(f) = 1
      BY <1>3, <2>1, Alone
    <2> QED
      BY <2>2 DEF Due
  <1>5. events' \subseteq Events
    BY <1>1, <1>3 DEF Events
  <1>6. IsFiniteSet(events')
    <2> DEFINE K == {"in"} \cup {"out"} \cup {"hup"}
    <2>1. IsFiniteSet(open \cup {listenfd})
      BY FS_AddElement DEF TypeInv
    <2>2. IsFiniteSet(K)
      <3>1. IsFiniteSet({"in"})
        BY FS_Singleton
      <3>2. IsFiniteSet({"in"} \cup {"out"})
        BY <3>1, FS_AddElement
      <3> QED
        BY <3>2, FS_AddElement
    <2>3. IsFiniteSet((open \cup {listenfd}) \X K)
      BY <2>1, <2>2, FS_Product
    <2>4. events' \subseteq (open \cup {listenfd}) \X K
      BY <1>1, <1>3, <1>4
    <2> QED
      BY <2>3, <2>4, FS_Subset
  <1>7. armed' \in [Descriptors -> {"in", "out", "off"}]
    BY <1>1 DEF Reported, TypeInv
  <1>8. TypeInv'
    BY <1>2, <1>5, <1>6, <1>7 DEF TypeInv
  <1>9. ASSUME NEW f \in Descriptors
        PROVE  (ByArmed(f) + ByEvents(f) + ByMain(f) + ByQueue(f) + ByWorkers(f) = Due(f))'
    <2>1. /\ ByMain(f)' = ByMain(f) /\ ByQueue(f)' = ByQueue(f) /\ ByWorkers(f)' = ByWorkers(f)
          /\ Due(f)' = Due(f)
      BY <1>2 DEF ByMain, ByQueue, ByWorkers, Due
    <2>2. ByEvents(f) = 0
      BY <1>2, FS_EmptySet DEF ByEvents, Told
    <2>3. f # listenfd
      BY DEF Sized
    <2>4. CASE f \in fs
      <3>1. ByArmed(f) = 1 /\ ByArmed(f)' = 0
        BY <1>1, <1>3, <2>4 DEF ByArmed, Reported
      <3>2. {e \in events' : e[1] = f} = {<<f, IF f \in hup THEN "hup" ELSE armed[f]>>}
        BY <1>1, <2>3, <2>4
      <3>3. ByEvents(f)' = 1
        BY <3>2, FS_Singleton DEF ByEvents, Told
      <3> QED
        BY <2>1, <2>2, <3>1, <3>3, Alone
    <2>5. CASE f \notin fs
      <3>1. ByArmed(f)' = ByArmed(f)
        BY <1>1, <2>5 DEF ByArmed, Reported
      <3>2. {e \in events' : e[1] = f} = {}
        BY <1>1, <2>3, <2>5
      <3>3. ByEvents(f)' = 0
        BY <3>2, FS_EmptySet DEF ByEvents, Told
      <3> QED
        BY <2>1, <2>2, <3>1, <3>3 DEF HandsInv
    <2> QED
      BY <2>4, <2>5
  <1> QED
    BY <1>8, <1>9 DEF HandsInv

-----------------------------------------------------------------------------
(* The main thread's handlers.                                             *)

LEMMA LowestFree ==
  ASSUME NEW free, free \subseteq Nat, free # {}
  PROVE  Lowest(free) \in free
  <1> DEFINE R == {ss \in Nat \X Nat : ss[1] < ss[2]}
  <1>1. IsWellFoundedOn(R, Nat)
    BY NatLessThanWellFounded DEF OpToRel
  <1>2. PICK x \in free : \A y \in free : ~ (<<y, x>> \in R)
    <2> HIDE DEF R
    <2> QED
      BY <1>1, WFMin
  <1>3. \A y \in free : ~ (y < x)
    BY <1>2
  <1>4. \A y \in free : x <= y
    BY <1>3
  <1> QED
    BY <1>4 DEF Lowest

(* A step in which only the connection g changes hands.                    *)
LEMMA OneMoves ==
  ASSUME HandsInv, NEW g \in Descriptors,
         \A f \in Descriptors \ {g} :
           /\ ByArmed(f)' = ByArmed(f) /\ ByEvents(f)' = ByEvents(f) /\ ByMain(f)' = ByMain(f)
           /\ ByQueue(f)' = ByQueue(f) /\ ByWorkers(f)' = ByWorkers(f) /\ Due(f)' = Due(f),
         (ByArmed(g) + ByEvents(g) + ByMain(g) + ByQueue(g) + ByWorkers(g) = Due(g))'
  PROVE  HandsInv'
  <1> SUFFICES ASSUME NEW f \in Descriptors
               PROVE  (ByArmed(f) + ByEvents(f) + ByMain(f) + ByQueue(f) + ByWorkers(f) = Due(f))'
    BY DEF HandsInv
  <1>1. CASE f = g
    BY <1>1
  <1>2. CASE f # g
    BY <1>2 DEF HandsInv
  <1> QED
    BY <1>1, <1>2

(* An event of f that main has taken was the only hand that had f.         *)
LEMMA EventHeld ==
  ASSUME Sized, TypeInv, HandsInv, NEW f \in Descriptors, NEW k, <<f, k>> \in events
  PROVE  /\ ByEvents(f) = 1 /\ ByArmed(f) = 0 /\ ByMain(f) = 0 /\ ByQueue(f) = 0
         /\ ByWorkers(f) = 0 /\ f \in open /\ f \notin refused /\ armed[f] = "off"
  <1>1. <<f, k>>[1] = f
    OBVIOUS
  <1>2. IsFiniteSet(events)
    BY DEF TypeInv
  <1>3. ByEvents(f) # 0
    BY <1>1, <1>2, EventsTaken DEF ByEvents
  <1>4. /\ ByEvents(f) = 1 /\ ByArmed(f) = 0 /\ ByMain(f) = 0 /\ ByQueue(f) = 0
        /\ ByWorkers(f) = 0 /\ Due(f) = 1
    BY <1>3, Alone
  <1> QED
    BY <1>4 DEF Due, ByArmed

LEMMA EventGone ==
  ASSUME Sized, TypeInv, NEW x \in events, events' = events \ {x}, NEW f
  PROVE  /\ events' \subseteq Events /\ IsFiniteSet(events')
         /\ ByEvents(f)' = ByEvents(f) - (IF x[1] = f THEN 1 ELSE 0)
  <1>1. IsFiniteSet(events) /\ events \subseteq Events
    BY DEF TypeInv
  <1>2. /\ IsFiniteSet(events \ {x})
        /\ Told(events \ {x}, f) = Told(events, f) - (IF x[1] = f THEN 1 ELSE 0)
    BY <1>1, EventsTaken
  <1> QED
    BY <1>1, <1>2 DEF ByEvents

(* close_conn() of a connection whose event main has taken.                *)
LEMMA CloseKeeps ==
  ASSUME Sized, TypeInv, HandsInv, NEW f \in Descriptors, NEW k, <<f, k>> \in events,
         events' = events \ {<<f, k>>}, close_conn(f),
         UNCHANGED <<main, sockfd, workqueue, at, request, refused>>
  PROVE  TypeInv' /\ HandsInv'
  <1>1. /\ ByEvents(f) = 1 /\ ByArmed(f) = 0 /\ ByMain(f) = 0 /\ ByQueue(f) = 0
        /\ ByWorkers(f) = 0 /\ f \in open /\ f \notin refused /\ armed[f] = "off"
    BY EventHeld
  <1>2. /\ open' = open \ {f} /\ armed' = [armed EXCEPT ![f] = "off"]
        /\ user_count' = user_count - 1
    BY DEF close_conn
  <1>3. IsFiniteSet(open') /\ Cardinality(open') = Cardinality(open) - 1
    BY <1>1, <1>2, FS_RemoveElement DEF TypeInv
  <1>4. events' \subseteq Events /\ IsFiniteSet(events')
    BY EventGone
  <1>5. open' \subseteq Descriptors /\ refused' \subseteq open' /\ user_count' = Cardinality(open')
    BY <1>1, <1>2, <1>3 DEF TypeInv
  <1>6. armed' \in [Descriptors -> {"in", "out", "off"}]
    BY <1>2 DEF TypeInv
  <1>7. TypeInv'
    BY <1>3, <1>4, <1>5, <1>6 DEF TypeInv
  <1>8. \A g \in Descriptors \ {f} :
          /\ ByArmed(g)' = ByArmed(g) /\ ByEvents(g)' = ByEvents(g) /\ ByMain(g)' = ByMain(g)
          /\ ByQueue(g)' = ByQueue(g) /\ ByWorkers(g)' = ByWorkers(g) /\ Due(g)' = Due(g)
    <2> SUFFICES ASSUME NEW g \in Descriptors \ {f}
                 PROVE  /\ ByArmed(g)' = ByArmed(g) /\ ByEvents(g)' = ByEvents(g)
                        /\ ByMain(g)' = ByMain(g) /\ ByQueue(g)' = ByQueue(g)
                        /\ ByWorkers(g)' = ByWorkers(g) /\ Due(g)' = Due(g)
      OBVIOUS
    <2>1. ByEvents(g)' = ByEvents(g)
      <3>1. <<f, k>>[1] # g
        OBVIOUS
      <3>2. ByEvents(g)' = ByEvents(g) - 0
        BY <3>1, EventGone
      <3> QED
        BY <3>2, Counts
    <2> QED
      BY <1>2, <2>1 DEF ByArmed, ByMain, ByQueue, ByWorkers, Due, TypeInv
  <1>9. (ByArmed(f) + ByEvents(f) + ByMain(f) + ByQueue(f) + ByWorkers(f) = Due(f))'
    <2>1. ByEvents(f)' = 1 - 1
      BY <1>1, EventGone
    <2>2. ByArmed(f)' = 0 /\ Due(f)' = 0
      BY <1>2 DEF ByArmed, Due, TypeInv
    <2>3. ByMain(f)' = 0 /\ ByQueue(f)' = 0 /\ ByWorkers(f)' = 0
      BY <1>1 DEF ByMain, ByQueue, ByWorkers
    <2> QED
      BY <2>1, <2>2, <2>3
  <1> QED
    BY <1>7, <1>8, <1>9, OneMoves

LEMMA HupKeeps ==
  ASSUME Sized, TypeInv, HandsInv, NEW f \in Descriptors, Hup(f)
  PROVE  TypeInv' /\ HandsInv'
  <1>1. /\ <<f, "hup">> \in events /\ events' = events \ {<<f, "hup">>} /\ close_conn(f)
        /\ UNCHANGED <<main, sockfd, workqueue, at, request, refused>>
    BY DEF Hup, pool
  <1> QED
    BY <1>1, CloseKeeps

LEMMA DealReadKeeps ==
  ASSUME Sized, TypeInv, HandsInv, main = "poll", NEW f \in Descriptors, DealRead(f)
  PROVE  TypeInv' /\ HandsInv'
  <1>1. /\ <<f, "in">> \in events /\ events' = events \ {<<f, "in">>}
        /\ UNCHANGED <<workqueue, at, request, refused>>
    BY DEF DealRead, pool
  <1>2. CASE close_conn(f) /\ UNCHANGED <<main, sockfd>>
    BY <1>1, <1>2, CloseKeeps
  <1>3. CASE main' = "append" /\ sockfd' = f /\ UNCHANGED <<kernel, armed, user_count>>
    <2>1. /\ ByEvents(f) = 1 /\ ByArmed(f) = 0 /\ ByMain(f) = 0 /\ ByQueue(f) = 0
          /\ ByWorkers(f) = 0 /\ f \in open /\ f \notin refused
      BY <1>1, EventHeld
    <2>2. UNCHANGED <<open, armed, user_count>>
      BY <1>3 DEF kernel
    <2>3. f # listenfd /\ sockfd = listenfd
      BY DEF Sized, TypeInv
    <2>4. events' \subseteq Events /\ IsFiniteSet(events')
      BY <1>1, EventGone
    <2>5. TypeInv'
      BY <1>1, <1>3, <2>2, <2>3, <2>4 DEF TypeInv
    <2>6. \A g \in Descriptors \ {f} :
            /\ ByArmed(g)' = ByArmed(g) /\ ByEvents(g)' = ByEvents(g) /\ ByMain(g)' = ByMain(g)
            /\ ByQueue(g)' = ByQueue(g) /\ ByWorkers(g)' = ByWorkers(g) /\ Due(g)' = Due(g)
      <3> SUFFICES ASSUME NEW g \in Descriptors \ {f}
                   PROVE  /\ ByArmed(g)' = ByArmed(g) /\ ByEvents(g)' = ByEvents(g)
                          /\ ByMain(g)' = ByMain(g) /\ ByQueue(g)' = ByQueue(g)
                          /\ ByWorkers(g)' = ByWorkers(g) /\ Due(g)' = Due(g)
        OBVIOUS
      <3>1. ByEvents(g)' = ByEvents(g)
        <4>1. <<f, "in">>[1] # g
          OBVIOUS
        <4>2. ByEvents(g)' = ByEvents(g) - 0
          BY <1>1, <4>1, EventGone
        <4> QED
          BY <4>2, Counts
      <3>2. ByMain(g)' = ByMain(g)
        BY <1>3, <2>3 DEF ByMain, Sized
      <3> QED
        BY <1>1, <2>2, <3>1, <3>2 DEF ByArmed, ByQueue, ByWorkers, Due
    <2>7. (ByArmed(f) + ByEvents(f) + ByMain(f) + ByQueue(f) + ByWorkers(f) = Due(f))'
      <3>1. ByEvents(f)' = 1 - 1
        BY <1>1, <2>1, EventGone
      <3>2. ByMain(f)' = 1
        BY <1>3 DEF ByMain
      <3>3. ByArmed(f)' = 0 /\ ByQueue(f)' = 0 /\ ByWorkers(f)' = 0 /\ Due(f)' = 1
        BY <1>1, <2>1, <2>2 DEF ByArmed, ByQueue, ByWorkers, Due
      <3> QED
        BY <3>1, <3>2, <3>3
    <2> QED
      BY <2>5, <2>6, <2>7, OneMoves
  <1> QED
    BY <1>2, <1>3 DEF DealRead

(* modfd() of a connection whose event main has taken.                     *)
LEMMA DealWriteKeeps ==
  ASSUME Sized, TypeInv, HandsInv, NEW f \in Descriptors, DealWrite(f)
  PROVE  TypeInv' /\ HandsInv'
  <1>1. /\ <<f, "out">> \in events /\ events' = events \ {<<f, "out">>}
        /\ UNCHANGED <<main, sockfd, workqueue, at, request, refused>>
    BY DEF DealWrite, pool
  <1>2. CASE close_conn(f)
    BY <1>1, <1>2, CloseKeeps
  <1>3. CASE /\ \E ev \in {"in", "out"} : armed' = modfd(f, ev)
             /\ UNCHANGED <<kernel, user_count>>
    <2>1. /\ ByEvents(f) = 1 /\ ByArmed(f) = 0 /\ ByMain(f) = 0 /\ ByQueue(f) = 0
          /\ ByWorkers(f) = 0 /\ f \in open /\ f \notin refused
      BY <1>1, EventHeld
    <2>2. UNCHANGED <<open, user_count>>
      BY <1>3 DEF kernel
    <2>3. PICK ev \in {"in", "out"} : armed' = [armed EXCEPT ![f] = ev]
      BY <1>3 DEF modfd
    <2>4. events' \subseteq Events /\ IsFiniteSet(events')
      BY <1>1, EventGone
    <2>5. armed' \in [Descriptors -> {"in", "out", "off"}]
      BY <2>3 DEF TypeInv
    <2>6. TypeInv'
      BY <1>1, <2>2, <2>4, <2>5 DEF TypeInv
    <2>7. \A g \in Descriptors \ {f} :
            /\ ByArmed(g)' = ByArmed(g) /\ ByEvents(g)' = ByEvents(g) /\ ByMain(g)' = ByMain(g)
            /\ ByQueue(g)' = ByQueue(g) /\ ByWorkers(g)' = ByWorkers(g) /\ Due(g)' = Due(g)
      <3> SUFFICES ASSUME NEW g \in Descriptors \ {f}
                   PROVE  /\ ByArmed(g)' = ByArmed(g) /\ ByEvents(g)' = ByEvents(g)
                          /\ ByMain(g)' = ByMain(g) /\ ByQueue(g)' = ByQueue(g)
                          /\ ByWorkers(g)' = ByWorkers(g) /\ Due(g)' = Due(g)
        OBVIOUS
      <3>1. ByEvents(g)' = ByEvents(g)
        <4>1. <<f, "out">>[1] # g
          OBVIOUS
        <4>2. ByEvents(g)' = ByEvents(g) - 0
          BY <1>1, <4>1, EventGone
        <4> QED
          BY <4>2, Counts
      <3>2. ByArmed(g)' = ByArmed(g)
        BY <2>3 DEF ByArmed, TypeInv
      <3> QED
        BY <1>1, <2>2, <3>1, <3>2 DEF ByMain, ByQueue, ByWorkers, Due
    <2>8. (ByArmed(f) + ByEvents(f) + ByMain(f) + ByQueue(f) + ByWorkers(f) = Due(f))'
      <3>1. ByEvents(f)' = 1 - 1
        BY <1>1, <2>1, EventGone
      <3>2. ByArmed(f)' = 1
        BY <2>3 DEF ByArmed, TypeInv
      <3>3. ByMain(f)' = 0 /\ ByQueue(f)' = 0 /\ ByWorkers(f)' = 0 /\ Due(f)' = 1
        BY <1>1, <2>1, <2>2 DEF ByMain, ByQueue, ByWorkers, Due
      <3> QED
        BY <3>1, <3>2, <3>3
    <2> QED
      BY <2>6, <2>7, <2>8, OneMoves
  <1> QED
    BY <1>2, <1>3 DEF DealWrite

LEMMA AcceptKeeps == ASSUME Sized, TypeInv, HandsInv, Accept PROVE TypeInv' /\ HandsInv'
  <1> DEFINE free == Descriptors \ open
  <1>1. /\ <<listenfd, "in">> \in events /\ events' = events \ {<<listenfd, "in">>}
        /\ UNCHANGED <<main, sockfd, workqueue, at, request, refused>>
    BY DEF Accept, pool
  <1>2. events' \subseteq Events /\ IsFiniteSet(events')
    BY <1>1, EventGone
  <1>3. \A f \in Descriptors :
          /\ ByEvents(f)' = ByEvents(f) /\ ByMain(f)' = ByMain(f) /\ ByQueue(f)' = ByQueue(f)
          /\ ByWorkers(f)' = ByWorkers(f)
    <2> SUFFICES ASSUME NEW f \in Descriptors
                 PROVE  /\ ByEvents(f)' = ByEvents(f) /\ ByMain(f)' = ByMain(f)
                        /\ ByQueue(f)' = ByQueue(f) /\ ByWorkers(f)' = ByWorkers(f)
      OBVIOUS
    <2>1. <<listenfd, "in">>[1] # f
      BY DEF Sized
    <2>2. ByEvents(f)' = ByEvents(f) - 0
      BY <1>1, <2>1, EventGone
    <2>3. ByEvents(f)' = ByEvents(f)
      BY <2>2, Counts
    <2> QED
      BY <1>1, <2>3 DEF ByMain, ByQueue, ByWorkers
  <1>4. CASE UNCHANGED <<open, armed, user_count>>
    <2>1. TypeInv'
      BY <1>1, <1>2, <1>4 DEF TypeInv
    <2>2. \A f \in Descriptors : ByArmed(f)' = ByArmed(f) /\ Due(f)' = Due(f)
      BY <1>1, <1>4 DEF ByArmed, Due
    <2>3. HandsInv'
      BY <1>3, <2>2 DEF HandsInv
    <2> QED
      BY <2>1, <2>3
  <1>5. CASE \E c \in free : /\ open' = open \cup {c} /\ armed' = [armed EXCEPT ![c] = "in"]
                             /\ user_count' = user_count + 1
    <2>1. PICK connfd \in free :
            /\ open' = open \cup {connfd} /\ armed' = [armed EXCEPT ![connfd] = "in"]
            /\ user_count' = user_count + 1
      BY <1>5
    <2>2. connfd \in Descriptors /\ connfd \notin open /\ connfd \notin refused
      BY DEF TypeInv
    <2>3. IsFiniteSet(open') /\ Cardinality(open') = Cardinality(open) + 1
      BY <2>1, <2>2, FS_AddElement DEF TypeInv
    <2>4. armed' \in [Descriptors -> {"in", "out", "off"}]
      BY <2>1 DEF TypeInv
    <2>5. open' \subseteq Descriptors /\ refused' \subseteq open' /\ user_count' = Cardinality(open')
      BY <1>1, <2>1, <2>2, <2>3 DEF TypeInv
    <2>6. TypeInv'
      BY <1>1, <1>2, <2>3, <2>4, <2>5 DEF TypeInv
    <2>7. \A f \in Descriptors \ {connfd} : ByArmed(f)' = ByArmed(f) /\ Due(f)' = Due(f)
      BY <1>1, <2>1 DEF ByArmed, Due, TypeInv
    <2>8. Due(connfd) = 0
      BY <2>2 DEF Due
    <2>9. /\ ByEvents(connfd) = 0 /\ ByMain(connfd) = 0 /\ ByQueue(connfd) = 0
          /\ ByWorkers(connfd) = 0
      BY <2>2, <2>8, Alone
    <2>10. ByArmed(connfd)' = 1 /\ Due(connfd)' = 1
      BY <1>1, <2>1, <2>2 DEF ByArmed, Due, TypeInv
    <2>11. (ByArmed(connfd) + ByEvents(connfd) + ByMain(connfd) + ByQueue(connfd)
              + ByWorkers(connfd) = Due(connfd))'
      BY <1>3, <2>2, <2>9, <2>10
    <2>12. HandsInv'
      BY <1>3, <2>2, <2>7, <2>11, OneMoves
    <2> QED
      BY <2>6, <2>12
  <1>6. free # {} => Lowest(free) \in free
    BY LowestFree DEF Sized
  <1> QED
    BY <1>4, <1>5, <1>6 DEF Accept, kernel, modfd

(* append(): the lock, the push and the post of the semaphore.             *)

LEMMA LockKeeps == ASSUME TypeInv, HandsInv, AppendLock PROVE TypeInv' /\ HandsInv'
  <1>1. /\ main = "append" /\ main' = "push"
        /\ UNCHANGED <<open, refused, armed, user_count, events, sockfd, workqueue, at, request>>
    BY DEF AppendLock, kernel
  <1> QED
    BY <1>1, HandsSame DEF TypeInv

LEMMA PostKeeps == ASSUME TypeInv, HandsInv, Post PROVE TypeInv' /\ HandsInv'
  <1>1. /\ main = "post" /\ main' = "poll"
        /\ UNCHANGED <<open, refused, armed, user_count, events, sockfd, workqueue, at, request>>
    BY DEF Post, kernel
  <1> QED
    BY <1>1, HandsSame DEF TypeInv

LEMMA PushKeeps == ASSUME Sized, TypeInv, HandsInv, Push PROVE TypeInv' /\ HandsInv'
  <1>1. /\ main = "push" /\ sockfd' = listenfd
        /\ UNCHANGED <<open, armed, user_count, events, at, request>>
    BY DEF Push, kernel
  <1>2. sockfd \in Descriptors /\ sockfd # listenfd
    BY <1>1 DEF TypeInv
  <1>3. ByMain(sockfd) = 1
    BY DEF ByMain
  <1>4. /\ ByArmed(sockfd) = 0 /\ ByEvents(sockfd) = 0 /\ ByQueue(sockfd) = 0
        /\ ByWorkers(sockfd) = 0 /\ Due(sockfd) = 1
    BY <1>2, <1>3, Alone
  <1>5. sockfd \in open /\ sockfd \notin refused
    BY <1>4 DEF Due
  <1>6. \A f \in Descriptors :
          /\ ByArmed(f)' = ByArmed(f) /\ ByEvents(f)' = ByEvents(f) /\ ByWorkers(f)' = ByWorkers(f)
          /\ ByMain(f)' = 0 /\ (f # sockfd => ByMain(f) = 0)
    BY <1>1 DEF ByArmed, ByEvents, ByMain, ByWorkers, Sized
  <1>7. CASE /\ main' = "poll" /\ refused' = refused \cup {sockfd} /\ UNCHANGED workqueue
    <2>1. TypeInv'
      BY <1>1, <1>5, <1>7 DEF TypeInv
    <2>2. \A f \in Descriptors : ByQueue(f)' = ByQueue(f)
      BY <1>7 DEF ByQueue
    <2>3. \A f \in Descriptors : f # sockfd => Due(f)' = Due(f)
      BY <1>1, <1>7 DEF Due
    <2>4. \A f \in Descriptors : f = sockfd => Due(f)' = 0
      BY <1>1, <1>7 DEF Due
    <2>5. HandsInv'
      <3> SUFFICES ASSUME NEW f \in Descriptors
                   PROVE  (ByArmed(f) + ByEvents(f) + ByMain(f) + ByQueue(f) + ByWorkers(f)
                             = Due(f))'
        BY DEF HandsInv
      <3>1. CASE f = sockfd
        BY <1>4, <1>6, <2>2, <2>4, <3>1
      <3>2. CASE f # sockfd
        BY <1>6, <2>2, <2>3, <3>2 DEF HandsInv
      <3> QED
        BY <3>1, <3>2
    <2> QED
      BY <2>1, <2>5
  <1>8. CASE /\ main' = "post" /\ workqueue' = Append(workqueue, sockfd) /\ UNCHANGED refused
    <2>1. workqueue \in Seq(Descriptors)
      BY DEF TypeInv
    <2>2. workqueue' \in Seq(Descriptors)
      BY <1>2, <1>8, <2>1, AppendProperties
    <2>3. TypeInv'
      BY <1>1, <1>8, <2>2 DEF TypeInv
    <2>4. \A f \in Descriptors :
            ByQueue(f)' = ByQueue(f) + (IF sockfd = f THEN 1 ELSE 0)
      <3> SUFFICES ASSUME NEW f \in Descriptors
                   PROVE  ByQueue(f)' = ByQueue(f) + (IF sockfd = f THEN 1 ELSE 0)
        OBVIOUS
      <3>1. Queued(Append(workqueue, sockfd), f)
              = Queued(workqueue, f) + (IF sockfd = f THEN 1 ELSE 0)
        BY <1>2, <2>1, QueueAppended
      <3> QED
        BY <1>8, <3>1 DEF ByQueue
    <2>5. \A f \in Descriptors : Due(f)' = Due(f)
      BY <1>1, <1>8 DEF Due
    <2>6. HandsInv'
      <3> SUFFICES ASSUME NEW f \in Descriptors
                   PROVE  (ByArmed(f) + ByEvents(f) + ByMain(f) + ByQueue(f) + ByWorkers(f)
                             = Due(f))'
        BY DEF HandsInv
      <3>1. CASE f = sockfd
        <4>1. ByQueue(f)' = 0 + 1
          BY <1>4, <2>4, <3>1
        <4> QED
          BY <1>4, <1>6, <2>5, <3>1, <4>1
      <3>2. CASE f # sockfd
        <4>1. ByQueue(f)' = ByQueue(f) + 0
          BY <2>4, <3>2
        <4>2. ByQueue(f)' = ByQueue(f)
          BY <4>1, Counts
        <4> QED
          BY <1>6, <2>5, <3>2, <4>2 DEF HandsInv
      <3> QED
        BY <3>1, <3>2
    <2> QED
      BY <2>3, <2>6
  <1> QED
    BY <1>7, <1>8 DEF Push

-----------------------------------------------------------------------------
(* The workers.                                                            *)

LEMMA WorkerTakes ==
  ASSUME TypeInv, HandsInv, NEW w \in Threads, SemWait(w) \/ WorkerLock(w),
         UNCHANGED <<kernel, user_count, events, main, sockfd, refused>>
  PROVE  TypeInv' /\ HandsInv'
  <1>1. /\ at[w] \in {"wait", "lock"}
        /\ at' \in {[at EXCEPT ![w] = "lock"], [at EXCEPT ![w] = "pop"]}
        /\ UNCHANGED <<open, refused, armed, user_count, events, main, sockfd, workqueue, request>>
    BY DEF SemWait, WorkerLock, kernel
  <1>2. /\ at' \in [Threads -> {"wait", "lock", "pop", "process"}]
        /\ \A u \in Threads : at'[u] = "process" <=> at[u] = "process"
    BY <1>1 DEF TypeInv
  <1> QED
    BY <1>1, <1>2, HandsSame DEF TypeInv

LEMMA PopKeeps ==
  ASSUME Sized, TypeInv, HandsInv, NEW w \in Threads, Pop(w),
         UNCHANGED <<kernel, user_count, events, main, sockfd, refused>>
  PROVE  TypeInv' /\ HandsInv'
  <1>1. /\ at[w] = "pop"
        /\ UNCHANGED <<open, refused, armed, user_count, events, main, sockfd>>
    BY DEF Pop, kernel
  <1>2. CASE workqueue = << >>
    <2>1. at' = [at EXCEPT ![w] = "wait"] /\ UNCHANGED <<workqueue, request>>
      BY <1>2 DEF Pop
    <2>2. /\ at' \in [Threads -> {"wait", "lock", "pop", "process"}]
          /\ \A u \in Threads : at'[u] = "process" <=> at[u] = "process"
      BY <1>1, <2>1 DEF TypeInv
    <2> QED
      BY <1>1, <2>1, <2>2, HandsSame DEF TypeInv
  <1>3. CASE workqueue # << >>
    <2> DEFINE h == Head(workqueue)
    <2>1. /\ request' = [request EXCEPT ![w] = h] /\ workqueue' = Tail(workqueue)
          /\ at' = [at EXCEPT ![w] = "process"] /\ armed' = armed
      BY <1>3 DEF Pop
    <2>2. workqueue \in Seq(Descriptors) /\ request \in [Threads -> Descriptors \cup {listenfd}]
      BY DEF TypeInv
    <2>3. h \in Descriptors /\ workqueue' \in Seq(Descriptors)
      BY <1>3, <2>1, <2>2, HeadTailProperties
    <2> HIDE DEF h
    <2>4. h # listenfd /\ request[w] = listenfd
      BY <1>1, <2>3 DEF Sized, TypeInv
    <2>5. /\ at' \in [Threads -> {"wait", "lock", "pop", "process"}]
          /\ request' \in [Threads -> Descriptors \cup {listenfd}]
          /\ \A u \in Threads : at'[u] = "process" <=> request'[u] # listenfd
      BY <1>1, <2>1, <2>2, <2>3, <2>4 DEF TypeInv
    <2>6. TypeInv'
      BY <1>1, <2>1, <2>3, <2>5 DEF TypeInv
    <2>7. ASSUME NEW f \in Descriptors
          PROVE  (ByArmed(f) + ByEvents(f) + ByMain(f) + ByQueue(f) + ByWorkers(f) = Due(f))'
      <3>1. ByQueue(f)' = ByQueue(f) - (IF h = f THEN 1 ELSE 0)
        <4>1. Queued(Tail(workqueue), f)
                = Queued(workqueue, f) - (IF Head(workqueue) = f THEN 1 ELSE 0)
          BY <1>3, <2>2, QueueTaken
        <4> QED
          BY <2>1, <4>1 DEF ByQueue, h
      <3>2. ByWorkers(f)' = ByWorkers(f) - 0 + (IF h = f THEN 1 ELSE 0)
        <4>1. request[w] # f
          BY <2>4 DEF Sized
        <4>2. IsFiniteSet(Threads)
          BY DEF Sized
        <4>3. ByWorkers(f)' = ByWorkers(f) - (IF request[w] = f THEN 1 ELSE 0)
                               + (IF h = f THEN 1 ELSE 0)
          <5>1. request'[w] = h /\ \A u \in Threads \ {w} : request'[u] = request[u]
            BY <2>1, <2>2
          <5> QED
            BY <4>2, <5>1, RequestChanged
        <4> QED
          BY <4>1, <4>3
      <3>3. /\ ByArmed(f)' = ByArmed(f) /\ ByEvents(f)' = ByEvents(f) /\ ByMain(f)' = ByMain(f)
            /\ Due(f)' = Due(f)
        BY <1>1, <2>1 DEF ByArmed, ByEvents, ByMain, Due
      <3>4. ByArmed(f) + ByEvents(f) + ByMain(f) + ByQueue(f) + ByWorkers(f) = Due(f)
        BY DEF HandsInv
      <3>5. CASE h = f
        BY <3>1, <3>2, <3>3, <3>4, <3>5, Counts
      <3>6. CASE h # f
        BY <3>1, <3>2, <3>3, <3>4, <3>6, Counts
      <3> QED
        BY <3>5, <3>6
    <2> QED
      BY <2>6, <2>7 DEF HandsInv
  <1> QED
    BY <1>2, <1>3

LEMMA ProcessKeeps ==
  ASSUME Sized, TypeInv, HandsInv, NEW w \in Threads, Process(w),
         UNCHANGED <<kernel, user_count, events, main, sockfd, refused>>
  PROVE  TypeInv' /\ HandsInv'
  <1>0. PICK g : g = request[w]
    OBVIOUS
  <1>1. /\ at[w] = "process" /\ at' = [at EXCEPT ![w] = "wait"]
        /\ request' = [request EXCEPT ![w] = listenfd]
        /\ UNCHANGED <<open, refused, user_count, events, main, sockfd, workqueue>>
    BY DEF Process, kernel
  <1>2. PICK ev \in {"in", "out"} : armed' = [armed EXCEPT ![g] = ev]
    BY <1>0 DEF Process, modfd
  <1>3. g \in Descriptors /\ g # listenfd
    BY <1>0, <1>1 DEF TypeInv
  <1>4. request \in [Threads -> Descriptors \cup {listenfd}] /\ IsFiniteSet(Threads)
    BY DEF TypeInv, Sized
  <1>5. \A f : /\ ByWorkers(f)' = ByWorkers(f) - (IF g = f THEN 1 ELSE 0)
                                   + (IF listenfd = f THEN 1 ELSE 0)
               /\ g = f => ByWorkers(f) # 0
    <2> SUFFICES ASSUME NEW f
                 PROVE  /\ ByWorkers(f)' = ByWorkers(f) - (IF g = f THEN 1 ELSE 0)
                                             + (IF listenfd = f THEN 1 ELSE 0)
                        /\ g = f => ByWorkers(f) # 0
      OBVIOUS
    <2>1. request'[w] = listenfd /\ \A u \in Threads \ {w} : request'[u] = request[u]
      BY <1>1, <1>4
    <2>2. /\ ByWorkers(f)' = ByWorkers(f) - (IF request[w] = f THEN 1 ELSE 0)
                               + (IF listenfd = f THEN 1 ELSE 0)
          /\ request[w] = f => ByWorkers(f) # 0
      BY <1>4, <2>1, RequestChanged
    <2> QED
      BY <1>0, <2>2
  <1>6. ByWorkers(g) # 0
    BY <1>5
  <1>7. /\ ByWorkers(g) = 1 /\ ByArmed(g) = 0 /\ ByEvents(g) = 0 /\ ByMain(g) = 0
        /\ ByQueue(g) = 0 /\ Due(g) = 1
    BY <1>3, <1>6, Alone
  <1>8. /\ at' \in [Threads -> {"wait", "lock", "pop", "process"}]
        /\ request' \in [Threads -> Descriptors \cup {listenfd}]
        /\ \A u \in Threads : at'[u] = "process" <=> request'[u] # listenfd
    BY <1>1 DEF TypeInv
  <1>9. armed' \in [Descriptors -> {"in", "out", "off"}]
    BY <1>2 DEF TypeInv
  <1>10. TypeInv'
    BY <1>1, <1>8, <1>9 DEF TypeInv
  <1>11. \A f \in Descriptors \ {g} :
           /\ ByArmed(f)' = ByArmed(f) /\ ByEvents(f)' = ByEvents(f) /\ ByMain(f)' = ByMain(f)
           /\ ByQueue(f)' = ByQueue(f) /\ ByWorkers(f)' = ByWorkers(f) /\ Due(f)' = Due(f)
    <2> SUFFICES ASSUME NEW f \in Descriptors \ {g}
                 PROVE  /\ ByArmed(f)' = ByArmed(f) /\ ByEvents(f)' = ByEvents(f)
                        /\ ByMain(f)' = ByMain(f) /\ ByQueue(f)' = ByQueue(f)
                        /\ ByWorkers(f)' = ByWorkers(f) /\ Due(f)' = Due(f)
      OBVIOUS
    <2>1. f # g /\ f # listenfd
      BY DEF Sized
    <2>2. ByWorkers(f)' = ByWorkers(f) - 0 + 0
      BY <1>5, <2>1
    <2>3. ByWorkers(f)' = ByWorkers(f)
      BY <2>2, Counts
    <2> QED
      BY <1>1, <1>2, <1>3, <2>1, <2>3 DEF ByArmed, ByEvents, ByMain, ByQueue, Due, TypeInv
  <1>12. (ByArmed(g) + ByEvents(g) + ByMain(g) + ByQueue(g) + ByWorkers(g) = Due(g))'
    <2>1. ByWorkers(g)' = 1 - 1 + 0
      BY <1>3, <1>5, <1>7
    <2>2. ByArmed(g)' = 1
      BY <1>2, <1>3 DEF ByArmed, TypeInv
    <2>3. ByEvents(g)' = 0 /\ ByMain(g)' = 0 /\ ByQueue(g)' = 0 /\ Due(g)' = 1
      BY <1>1, <1>7 DEF ByEvents, ByMain, ByQueue, Due
    <2> QED
      BY <2>1, <2>2, <2>3
  <1>13. HandsInv'
    BY <1>3, <1>11, <1>12, OneMoves
  <1> QED
    BY <1>10, <1>13

-----------------------------------------------------------------------------
LEMMA InvNext == ASSUME Sized, TypeInv, HandsInv, [Next]_vars PROVE TypeInv' /\ HandsInv'
  <1>1. CASE Connect
    BY <1>1, ConnectKeeps
  <1>2. CASE epoll_wait
    BY <1>2, WaitKeeps
  <1>3. CASE Handle
    BY <1>3, AcceptKeeps, HupKeeps, DealReadKeeps, DealWriteKeeps DEF Handle
  <1>4. CASE AppendLock
    BY <1>4, LockKeeps
  <1>5. CASE Push
    BY <1>5, PushKeeps
  <1>6. CASE Post
    BY <1>6, PostKeeps
  <1>7. CASE \E w \in Threads : Worker(w)
    <2>1. PICK w \in Threads : Worker(w)
      BY <1>7
    <2> QED
      BY <2>1, WorkerTakes, PopKeeps, ProcessKeeps DEF Worker
  <1>8. CASE UNCHANGED vars
    <2>1. UNCHANGED <<open, refused, armed, user_count, events, main, sockfd, workqueue, at, request>>
      BY <1>8 DEF vars, kernel, pool
    <2> QED
      BY <2>1, HandsSame DEF TypeInv
  <1> QED
    BY <1>1, <1>2, <1>3, <1>4, <1>5, <1>6, <1>7, <1>8 DEF Next, Main

LEMMA InvTurns == ASSUME Sized, TypeInv, HandsInv PROVE TurnsKept
  <1>1. user_count = Cardinality(open)
    BY DEF TypeInv
  <1>2. ASSUME NEW f \in Descriptors
        PROVE  Turns(f) = IF f \in open /\ f \notin refused THEN 1 ELSE 0
    BY TurnsAre DEF HandsInv, Due
  <1> QED
    BY <1>1, <1>2 DEF TurnsKept

(* An open connection is with the registration, main, the queue or one      *)
(* worker, and with nobody only when append() refused it, whatever the      *)
(* number of descriptors and workers and however deep the queue: EPOLLONESHOT *)
(* and the order of read(), append(), process() and modfd() keep main and   *)
(* the workers off one http_conn without a lock on it.                      *)
THEOREM TurnsKeptAlways == ASSUME Sized PROVE Spec => []TurnsKept
  <1>1. Init => TypeInv /\ HandsInv
    BY InvInit
  <1>2. (TypeInv /\ HandsInv) /\ [Next]_vars => (TypeInv /\ HandsInv)'
    BY InvNext
  <1>3. TypeInv /\ HandsInv => TurnsKept
    BY InvTurns
  <1> QED
    BY <1>1, <1>2, <1>3, PTL DEF Spec

=============================================================================
