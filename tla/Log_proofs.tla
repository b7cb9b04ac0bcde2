----------------------------- MODULE Log_proofs -----------------------------
(***************************************************************************)
(* Proofs about Log, for any writers, any capacity of the deque and any    *)
(* number of lines: its types, that no writer waits for room with mtx_, and *)
(* that the queue keeps every line in order.                               *)
(*                                                                         *)
(* LogInv says who holds mtx_, what its holder knows of the deque, what the *)
(* log thread holds, and that ~Log has the deque to itself.                *)
(***************************************************************************)
EXTENDS Log, TLAPS, SequenceTheorems

Holding == {"full", "push_back", "pushing", "waitProducer", "fputs"}

\* A writer holds mtx_ from Lock until its line is in the deque or in the file.
MtxInv == \A w \in Writers : pc[w] \in Holding <=> mtx = w

\* What full() said is still true when the line is pushed.
RoomInv == \A w \in Writers : /\ pc[w] \notin {"pushing", "waitProducer"}
                              /\ pc[w] = "push_back" => Len(deq) < Capacity

\* The log thread holds a line between pop and fputs.
StrInv == pc[LogThread] = "write" <=> str # NoLine

\* A writer that is in LOG_BASE logs one of its lines.
LineInv == \A w \in Writers : pc[w] # "idle" => logged[w] \in 1..MaxLines

\* ~Log runs alone, and closes an empty deque.
OwnerInv == /\ pc[Owner] # "main" => \A w \in Writers : pc[w] = "idle"
            /\ pc[Owner] = "Close" => deq = <<>>

LogInv == TypeOK /\ MtxInv /\ RoomInv /\ StrInv /\ LineInv /\ OwnerInv

-----------------------------------------------------------------------------
LEMMA ThreadFacts ==
  /\ LogThread \in Threads /\ Owner \in Threads /\ LogThread # Owner
  /\ \A w \in Writers : w \in Threads /\ w # LogThread /\ w # Owner /\ w # Nobody
  BY ThreadsAssumption DEF Threads

LEMMA LogInvInit == Init => LogInv
  <1> SUFFICES ASSUME Init PROVE LogInv
    OBVIOUS
  <1>1. /\ \A w \in Writers : pc[w] = "idle"
        /\ pc[LogThread] = "pop" /\ pc[Owner] = "main"
    BY ThreadFacts DEF Init
  <1>2. TypeOK
    <2>1. logged \in [Writers -> 0..MaxLines]
      BY MaxLinesAssumption DEF Init
    <2>2. pc \in [Threads -> WriterPC \cup LogPC \cup OwnerPC]
      BY DEF Init, WriterPC, LogPC, OwnerPC
    <2>3. deq \in Seq(Line) /\ pushed \in Seq(Line) /\ drained \in Seq(Line)
      BY DEF Init
    <2>4. /\ \A w \in Writers : pc[w] \in WriterPC
          /\ pc[LogThread] \in LogPC /\ pc[Owner] \in OwnerPC
      BY <1>1 DEF WriterPC, LogPC, OwnerPC
    <2> QED
      BY <2>1, <2>2, <2>3, <2>4 DEF Init, TypeOK
  <1>3. MtxInv /\ RoomInv /\ LineInv /\ OwnerInv
    BY <1>1, ThreadFacts DEF Init, MtxInv, RoomInv, LineInv, OwnerInv, Holding
  <1>4. StrInv
    BY <1>1 DEF Init, StrInv
  <1> QED
    BY <1>2, <1>3, <1>4 DEF LogInv

LEMMA TypeOKNext == ASSUME LogInv, [Next]_vars PROVE TypeOK'
  <1> USE ThreadFacts, MaxLinesAssumption DEF LogInv
  <1>1. ASSUME NEW w \in Writers, Write(w) PROVE TypeOK'
    BY <1>1 DEF Write, Goto, TypeOK, LineInv, StrInv, Line, Threads, WriterPC,
      LogPC, OwnerPC
  <1>2. ASSUME NEW w \in Writers, Roll(w) PROVE TypeOK'
    BY <1>2 DEF Roll, Notify, TypeOK, LineInv, StrInv, Line, Threads, WriterPC,
      LogPC, OwnerPC
  <1>3. ASSUME NEW w \in Writers, Lock(w) PROVE TypeOK'
    BY <1>3 DEF Lock, Goto, TypeOK, LineInv, StrInv, Line, Threads, WriterPC, LogPC,
      OwnerPC
  <1>4. ASSUME NEW w \in Writers, TestFull(w) PROVE TypeOK'
    BY <1>4 DEF TestFull, Full, Goto, TypeOK, LineInv, StrInv, Line, Threads,
      WriterPC, LogPC, OwnerPC
  <1>5. ASSUME NEW w \in Writers, PushBack(w) PROVE TypeOK'
    <2>1. LineOf(w) \in Line
      BY <1>5 DEF PushBack, LineInv, LineOf, Line
    <2>2. deq' \in Seq(Line) /\ pushed' \in Seq(Line) /\ mtx' \in Writers \cup {Nobody}
      <3> DEFINE l == LineOf(w)
      <3> HIDE DEF l
      <3>1. \/ deq' = Append(deq, l) /\ pushed' = Append(pushed, l) /\ mtx' = Nobody
            \/ UNCHANGED <<deq, pushed, mtx>>
        BY <1>5 DEF PushBack, Pushed, l
      <3>2. l \in Line /\ deq \in Seq(Line) /\ pushed \in Seq(Line)
        BY <2>1 DEF TypeOK, l
      <3> HIDE DEF LogInv
      <3>3. Append(deq, l) \in Seq(Line) /\ Append(pushed, l) \in Seq(Line)
        BY <3>2
      <3> QED
        BY <3>1, <3>2, <3>3 DEF LogInv, TypeOK
    <2>3. /\ pc' \in [Threads -> WriterPC \cup LogPC \cup OwnerPC]
          /\ \A v \in Writers : pc'[v] \in WriterPC
          /\ pc'[LogThread] \in LogPC /\ pc'[Owner] \in OwnerPC
      BY <1>5 DEF PushBack, Notify, Goto, TypeOK, WriterPC, LogPC, OwnerPC
    <2> QED
      BY <1>5, <2>2, <2>3 DEF PushBack, TypeOK
  <1>6. ASSUME NEW w \in Writers, Fputs(w) PROVE TypeOK'
    BY <1>6 DEF Fputs, LineOf, Goto, TypeOK, LineInv, StrInv, Line, Threads,
      WriterPC, LogPC, OwnerPC
  <1>7. ASSUME NEW w \in Writers, Flush(w) PROVE TypeOK'
    BY <1>7 DEF Flush, Notify, TypeOK, LineInv, StrInv, Line, Threads, WriterPC,
      LogPC, OwnerPC
  <1>8. CASE PopClosed
    BY <1>8 DEF PopClosed, Goto, TypeOK, LineInv, StrInv, Line, Threads, WriterPC,
      LogPC, OwnerPC
  <1>9. CASE Pop
    BY <1>9 DEF Pop, Popping, FrontOf, TypeOK, LineInv, StrInv, Line, Threads,
      WriterPC, LogPC, OwnerPC
  <1>10. CASE PopWait
    BY <1>10 DEF PopWait, Popping, Goto, TypeOK, LineInv, StrInv, Line, Threads,
      WriterPC, LogPC, OwnerPC
  <1>11. CASE Wake
    BY <1>11 DEF Wake, Goto, TypeOK, LineInv, StrInv, Line, Threads, WriterPC,
      LogPC, OwnerPC
  <1>12. CASE AsyncWrite
    BY <1>12 DEF AsyncWrite, Goto, TypeOK, LineInv, StrInv, Line, Threads, WriterPC,
      LogPC, OwnerPC
  <1>13. CASE Destroy
    BY <1>13 DEF Destroy, Goto, TypeOK, LineInv, StrInv, Line, Threads, WriterPC,
      LogPC, OwnerPC
  <1>14. CASE Drain
    BY <1>14 DEF Drain, DrainedAll, Notify, Goto, TypeOK, LineInv, StrInv, Line,
      Threads, WriterPC, LogPC, OwnerPC
  <1>15. CASE Close
    BY <1>15 DEF Close, Notify, TypeOK, LineInv, StrInv, Line, Threads, WriterPC,
      LogPC, OwnerPC
  <1>16. CASE Join
    BY <1>16 DEF Join, Goto, TypeOK, LineInv, StrInv, Line, Threads, WriterPC,
      LogPC, OwnerPC
  <1>17. CASE UNCHANGED vars
    BY <1>17 DEF vars, TypeOK, LineInv, StrInv, Line, Threads, WriterPC, LogPC, OwnerPC
  <1> QED
    BY <1>1, <1>2, <1>3, <1>4, <1>5, <1>6, <1>7, <1>8, <1>9,
      <1>10, <1>11, <1>12, <1>13, <1>14, <1>15, <1>16, <1>17
    DEF Next, WriterStep, LogStep, OwnerStep

LEMMA MtxInvNext == ASSUME LogInv, [Next]_vars PROVE MtxInv'
  <1> USE ThreadFacts DEF LogInv
  <1>1. ASSUME NEW w \in Writers, Write(w) PROVE MtxInv'
    BY <1>1 DEF Write, Goto, TypeOK, MtxInv, RoomInv, Holding, Threads, WriterPC,
      LogPC, OwnerPC
  <1>2. ASSUME NEW w \in Writers, Roll(w) PROVE MtxInv'
    BY <1>2 DEF Roll, Notify, TypeOK, MtxInv, RoomInv, Holding, Threads, WriterPC,
      LogPC, OwnerPC
  <1>3. ASSUME NEW w \in Writers, Lock(w) PROVE MtxInv'
    BY <1>3 DEF Lock, Goto, TypeOK, MtxInv, RoomInv, Holding, Threads, WriterPC,
      LogPC, OwnerPC
  <1>4. ASSUME NEW w \in Writers, TestFull(w) PROVE MtxInv'
    BY <1>4 DEF TestFull, Full, Goto, TypeOK, MtxInv, RoomInv, Holding, Threads,
      WriterPC, LogPC, OwnerPC
  <1>5. ASSUME NEW w \in Writers, PushBack(w) PROVE MtxInv'
    BY <1>5 DEF PushBack, Pushed, LineOf, Notify, Goto, TypeOK, MtxInv, RoomInv,
      Holding, Threads, WriterPC, LogPC, OwnerPC
  <1>6. ASSUME NEW w \in Writers, Fputs(w) PROVE MtxInv'
    BY <1>6 DEF Fputs, LineOf, Goto, TypeOK, MtxInv, RoomInv, Holding, Threads,
      WriterPC, LogPC, OwnerPC
  <1>7. ASSUME NEW w \in Writers, Flush(w) PROVE MtxInv'
    BY <1>7 DEF Flush, Notify, TypeOK, MtxInv, RoomInv, Holding, Threads, WriterPC,
      LogPC, OwnerPC
  <1>8. CASE PopClosed
    BY <1>8 DEF PopClosed, Goto, TypeOK, MtxInv, RoomInv, Holding, Threads,
      WriterPC, LogPC, OwnerPC
  <1>9. CASE Pop
    BY <1>9 DEF Pop, Popping, FrontOf, TypeOK, MtxInv, RoomInv, Holding, Threads,
      WriterPC, LogPC, OwnerPC
  <1>10. CASE PopWait
    BY <1>10 DEF PopWait, Popping, Goto, TypeOK, MtxInv, RoomInv, Holding, Threads,
      WriterPC, LogPC, OwnerPC
  <1>11. CASE Wake
    BY <1>11 DEF Wake, Goto, TypeOK, MtxInv, RoomInv, Holding, Threads, WriterPC,
      LogPC, OwnerPC
  <1>12. CASE AsyncWrite
    BY <1>12 DEF AsyncWrite, Goto, TypeOK, MtxInv, RoomInv, Holding, Threads,
      WriterPC, LogPC, OwnerPC
  <1>13. CASE Destroy
    BY <1>13 DEF Destroy, Goto, TypeOK, MtxInv, RoomInv, Holding, Threads, WriterPC,
      LogPC, OwnerPC
  <1>14. CASE Drain
    BY <1>14 DEF Drain, DrainedAll, Notify, Goto, TypeOK, MtxInv, RoomInv, Holding,
      Threads, WriterPC, LogPC, OwnerPC
  <1>15. CASE Close
    BY <1>15 DEF Close, Notify, TypeOK, MtxInv, RoomInv, Holding, Threads, WriterPC,
      LogPC, OwnerPC
  <1>16. CASE Join
    BY <1>16 DEF Join, Goto, TypeOK, MtxInv, RoomInv, Holding, Threads, WriterPC,
      LogPC, OwnerPC
  <1>17. CASE UNCHANGED vars
    BY <1>17 DEF vars, TypeOK, MtxInv, RoomInv, Holding, Threads, WriterPC, LogPC,
      OwnerPC
  <1> QED
    BY <1>1, <1>2, <1>3, <1>4, <1>5, <1>6, <1>7, <1>8, <1>9,
      <1>10, <1>11, <1>12, <1>13, <1>14, <1>15, <1>16, <1>17
    DEF Next, WriterStep, LogStep, OwnerStep

LEMMA RoomInvNext == ASSUME LogInv, [Next]_vars PROVE RoomInv'
  <1> USE ThreadFacts, CapacityAssumption DEF LogInv
  <1>1. ASSUME NEW w \in Writers, Write(w) PROVE RoomInv'
    BY <1>1 DEF Write, Goto, TypeOK, MtxInv, RoomInv, OwnerInv, Holding, Threads,
      WriterPC, LogPC, OwnerPC
  <1>2. ASSUME NEW w \in Writers, Roll(w) PROVE RoomInv'
    BY <1>2 DEF Roll, Notify, TypeOK, MtxInv, RoomInv, OwnerInv, Holding, Threads,
      WriterPC, LogPC, OwnerPC
  <1>3. ASSUME NEW w \in Writers, Lock(w) PROVE RoomInv'
    BY <1>3 DEF Lock, Goto, TypeOK, MtxInv, RoomInv, OwnerInv, Holding, Threads,
      WriterPC, LogPC, OwnerPC
  <1>4. ASSUME NEW w \in Writers, TestFull(w) PROVE RoomInv'
    BY <1>4 DEF TestFull, Full, Goto, TypeOK, MtxInv, RoomInv, OwnerInv, Holding,
      Threads, WriterPC, LogPC, OwnerPC
  <1>5. ASSUME NEW w \in Writers, PushBack(w) PROVE RoomInv'
    BY <1>5 DEF PushBack, Pushed, LineOf, Notify, Goto, TypeOK, MtxInv, RoomInv,
      OwnerInv, Holding, Threads, WriterPC, LogPC, OwnerPC
  <1>6. ASSUME NEW w \in Writers, Fputs(w) PROVE RoomInv'
    BY <1>6 DEF Fputs, LineOf, Goto, TypeOK, MtxInv, RoomInv, OwnerInv, Holding,
      Threads, WriterPC, LogPC, OwnerPC
  <1>7. ASSUME NEW w \in Writers, Flush(w) PROVE RoomInv'
    BY <1>7 DEF Flush, Notify, TypeOK, MtxInv, RoomInv, OwnerInv, Holding, Threads,
      WriterPC, LogPC, OwnerPC
  <1>8. CASE PopClosed
    BY <1>8 DEF PopClosed, Goto, TypeOK, MtxInv, RoomInv, OwnerInv, Holding,
      Threads, WriterPC, LogPC, OwnerPC
  <1>9. CASE Pop
    BY <1>9 DEF Pop, Popping, FrontOf, TypeOK, MtxInv, RoomInv, OwnerInv, Holding,
      Threads, WriterPC, LogPC, OwnerPC
  <1>10. CASE PopWait
    BY <1>10 DEF PopWait, Popping, Goto, TypeOK, MtxInv, RoomInv, OwnerInv, Holding,
      Threads, WriterPC, LogPC, OwnerPC
  <1>11. CASE Wake
    BY <1>11 DEF Wake, Goto, TypeOK, MtxInv, RoomInv, OwnerInv, Holding, Threads,
      WriterPC, LogPC, OwnerPC
  <1>12. CASE AsyncWrite
    BY <1>12 DEF AsyncWrite, Goto, TypeOK, MtxInv, RoomInv, OwnerInv, Holding,
      Threads, WriterPC, LogPC, OwnerPC
  <1>13. CASE Destroy
    BY <1>13 DEF Destroy, Goto, TypeOK, MtxInv, RoomInv, OwnerInv, Holding, Threads,
      WriterPC, LogPC, OwnerPC
  <1>14. CASE Drain
    BY <1>14 DEF Drain, DrainedAll, Notify, Goto, TypeOK, MtxInv, RoomInv, OwnerInv,
      Holding, Threads, WriterPC, LogPC, OwnerPC
  <1>15. CASE Close
    BY <1>15 DEF Close, Notify, TypeOK, MtxInv, RoomInv, OwnerInv, Holding, Threads,
      WriterPC, LogPC, OwnerPC
  <1>16. CASE Join
    BY <1>16 DEF Join, Goto, TypeOK, MtxInv, RoomInv, OwnerInv, Holding, Threads,
      WriterPC, LogPC, OwnerPC
  <1>17. CASE UNCHANGED vars
    BY <1>17 DEF vars, TypeOK, MtxInv, RoomInv, OwnerInv, Holding, Threads,
      WriterPC, LogPC, OwnerPC
  <1> QED
    BY <1>1, <1>2, <1>3, <1>4, <1>5, <1>6, <1>7, <1>8, <1>9,
      <1>10, <1>11, <1>12, <1>13, <1>14, <1>15, <1>16, <1>17
    DEF Next, WriterStep, LogStep, OwnerStep

LEMMA StrInvNext == ASSUME LogInv, [Next]_vars PROVE StrInv'
  <1> USE ThreadFacts, NoLineAssumption DEF LogInv
  <1>1. ASSUME NEW w \in Writers, Write(w) PROVE StrInv'
    BY <1>1 DEF Write, Goto, TypeOK, StrInv, Line, Threads, WriterPC, LogPC, OwnerPC
  <1>2. ASSUME NEW w \in Writers, Roll(w) PROVE StrInv'
    BY <1>2 DEF Roll, Notify, TypeOK, StrInv, Line, Threads, WriterPC, LogPC, OwnerPC
  <1>3. ASSUME NEW w \in Writers, Lock(w) PROVE StrInv'
    BY <1>3 DEF Lock, Goto, TypeOK, StrInv, Line, Threads, WriterPC, LogPC, OwnerPC
  <1>4. ASSUME NEW w \in Writers, TestFull(w) PROVE StrInv'
    BY <1>4 DEF TestFull, Full, Goto, TypeOK, StrInv, Line, Threads, WriterPC,
      LogPC, OwnerPC
  <1>5. ASSUME NEW w \in Writers, PushBack(w) PROVE StrInv'
    BY <1>5 DEF PushBack, Pushed, LineOf, Notify, Goto, TypeOK, StrInv, Line,
      Threads, WriterPC, LogPC, OwnerPC
  <1>6. ASSUME NEW w \in Writers, Fputs(w) PROVE StrInv'
    BY <1>6 DEF Fputs, LineOf, Goto, TypeOK, StrInv, Line, Threads, WriterPC, LogPC,
      OwnerPC
  <1>7. ASSUME NEW w \in Writers, Flush(w) PROVE StrInv'
    BY <1>7 DEF Flush, Notify, TypeOK, StrInv, Line, Threads, WriterPC, LogPC, OwnerPC
  <1>8. CASE PopClosed
    BY <1>8 DEF PopClosed, Goto, TypeOK, StrInv, Line, Threads, WriterPC, LogPC, OwnerPC
  <1>9. CASE Pop
    BY <1>9 DEF Pop, Popping, FrontOf, TypeOK, StrInv, Line, Threads, WriterPC,
      LogPC, OwnerPC
  <1>10. CASE PopWait
    BY <1>10 DEF PopWait, Popping, Goto, TypeOK, StrInv, Line, Threads, WriterPC,
      LogPC, OwnerPC
  <1>11. CASE Wake
    BY <1>11 DEF Wake, Goto, TypeOK, StrInv, Line, Threads, WriterPC, LogPC, OwnerPC
  <1>12. CASE AsyncWrite
    BY <1>12 DEF AsyncWrite, Goto, TypeOK, StrInv, Line, Threads, WriterPC, LogPC,
      OwnerPC
  <1>13. CASE Destroy
    BY <1>13 DEF Destroy, Goto, TypeOK, StrInv, Line, Threads, WriterPC, LogPC, OwnerPC
  <1>14. CASE Drain
    BY <1>14 DEF Drain, DrainedAll, Notify, Goto, TypeOK, StrInv, Line, Threads,
      WriterPC, LogPC, OwnerPC
  <1>15. CASE Close
    BY <1>15 DEF Close, Notify, TypeOK, StrInv, Line, Threads, WriterPC, LogPC, OwnerPC
  <1>16. CASE Join
    BY <1>16 DEF Join, Goto, TypeOK, StrInv, Line, Threads, WriterPC, LogPC, OwnerPC
  <1>17. CASE UNCHANGED vars
    BY <1>17 DEF vars, TypeOK, StrInv, Line, Threads, WriterPC, LogPC, OwnerPC
  <1> QED
    BY <1>1, <1>2, <1>3, <1>4, <1>5, <1>6, <1>7, <1>8, <1>9,
      <1>10, <1>11, <1>12, <1>13, <1>14, <1>15, <1>16, <1>17
    DEF Next, WriterStep, LogStep, OwnerStep

LEMMA LineInvNext == ASSUME LogInv, [Next]_vars PROVE LineInv'
  <1> USE ThreadFacts, MaxLinesAssumption DEF LogInv
  <1>1. ASSUME NEW w \in Writers, Write(w) PROVE LineInv'
    BY <1>1 DEF Write, Goto, TypeOK, LineInv, RoomInv, Threads, WriterPC, LogPC, OwnerPC
  <1>2. ASSUME NEW w \in Writers, Roll(w) PROVE LineInv'
    BY <1>2 DEF Roll, Notify, TypeOK, LineInv, RoomInv, Threads, WriterPC, LogPC,
      OwnerPC
  <1>3. ASSUME NEW w \in Writers, Lock(w) PROVE LineInv'
    BY <1>3 DEF Lock, Goto, TypeOK, LineInv, RoomInv, Threads, WriterPC, LogPC, OwnerPC
  <1>4. ASSUME NEW w \in Writers, TestFull(w) PROVE LineInv'
    BY <1>4 DEF TestFull, Full, Goto, TypeOK, LineInv, RoomInv, Threads, WriterPC,
      LogPC, OwnerPC
  <1>5. ASSUME NEW w \in Writers, PushBack(w) PROVE LineInv'
    BY <1>5 DEF PushBack, Pushed, LineOf, Notify, Goto, TypeOK, LineInv, RoomInv,
      Threads, WriterPC, LogPC, OwnerPC
  <1>6. ASSUME NEW w \in Writers, Fputs(w) PROVE LineInv'
    BY <1>6 DEF Fputs, LineOf, Goto, TypeOK, LineInv, RoomInv, Threads, WriterPC,
      LogPC, OwnerPC
  <1>7. ASSUME NEW w \in Writers, Flush(w) PROVE LineInv'
    BY <1>7 DEF Flush, Notify, TypeOK, LineInv, RoomInv, Threads, WriterPC, LogPC,
      OwnerPC
  <1>8. CASE PopClosed
    BY <1>8 DEF PopClosed, Goto, TypeOK, LineInv, RoomInv, Threads, WriterPC, LogPC,
      OwnerPC
  <1>9. CASE Pop
    BY <1>9 DEF Pop, Popping, FrontOf, TypeOK, LineInv, RoomInv, Threads, WriterPC,
      LogPC, OwnerPC
  <1>10. CASE PopWait
    BY <1>10 DEF PopWait, Popping, Goto, TypeOK, LineInv, RoomInv, Threads,
      WriterPC, LogPC, OwnerPC
  <1>11. CASE Wake
    BY <1>11 DEF Wake, Goto, TypeOK, LineInv, RoomInv, Threads, WriterPC, LogPC, OwnerPC
  <1>12. CASE AsyncWrite
    BY <1>12 DEF AsyncWrite, Goto, TypeOK, LineInv, RoomInv, Threads, WriterPC,
      LogPC, OwnerPC
  <1>13. CASE Destroy
    BY <1>13 DEF Destroy, Goto, TypeOK, LineInv, RoomInv, Threads, WriterPC, LogPC,
      OwnerPC
  <1>14. CASE Drain
    BY <1>14 DEF Drain, DrainedAll, Notify, Goto, TypeOK, LineInv, RoomInv, Threads,
      WriterPC, LogPC, OwnerPC
  <1>15. CASE Close
    BY <1>15 DEF Close, Notify, TypeOK, LineInv, RoomInv, Threads, WriterPC, LogPC,
      OwnerPC
  <1>16. CASE Join
    BY <1>16 DEF Join, Goto, TypeOK, LineInv, RoomInv, Threads, WriterPC, LogPC, OwnerPC
  <1>17. CASE UNCHANGED vars
    BY <1>17 DEF vars, TypeOK, LineInv, RoomInv, Threads, WriterPC, LogPC, OwnerPC
  <1> QED
    BY <1>1, <1>2, <1>3, <1>4, <1>5, <1>6, <1>7, <1>8, <1>9,
      <1>10, <1>11, <1>12, <1>13, <1>14, <1>15, <1>16, <1>17
    DEF Next, WriterStep, LogStep, OwnerStep

LEMMA OwnerInvNext == ASSUME LogInv, [Next]_vars PROVE OwnerInv'
  <1> USE ThreadFacts DEF LogInv
  <1>1. ASSUME NEW w \in Writers, Write(w) PROVE OwnerInv'
    BY <1>1 DEF Write, Goto, TypeOK, OwnerInv, RoomInv, Threads, WriterPC, LogPC,
      OwnerPC
  <1>2. ASSUME NEW w \in Writers, Roll(w) PROVE OwnerInv'
    BY <1>2 DEF Roll, Notify, TypeOK, OwnerInv, RoomInv, Threads, WriterPC, LogPC,
      OwnerPC
  <1>3. ASSUME NEW w \in Writers, Lock(w) PROVE OwnerInv'
    BY <1>3 DEF Lock, Goto, TypeOK, OwnerInv, RoomInv, Threads, WriterPC, LogPC, OwnerPC
  <1>4. ASSUME NEW w \in Writers, TestFull(w) PROVE OwnerInv'
    BY <1>4 DEF TestFull, Full, Goto, TypeOK, OwnerInv, RoomInv, Threads, WriterPC,
      LogPC, OwnerPC
  <1>5. ASSUME NEW w \in Writers, PushBack(w) PROVE OwnerInv'
    BY <1>5 DEF PushBack, Pushed, LineOf, Notify, Goto, TypeOK, OwnerInv, RoomInv,
      Threads, WriterPC, LogPC, OwnerPC
  <1>6. ASSUME NEW w \in Writers, Fputs(w) PROVE OwnerInv'
    BY <1>6 DEF Fputs, LineOf, Goto, TypeOK, OwnerInv, RoomInv, Threads, WriterPC,
      LogPC, OwnerPC
  <1>7. ASSUME NEW w \in Writers, Flush(w) PROVE OwnerInv'
    BY <1>7 DEF Flush, Notify, TypeOK, OwnerInv, RoomInv, Threads, WriterPC, LogPC,
      OwnerPC
  <1>8. CASE PopClosed
    BY <1>8 DEF PopClosed, Goto, TypeOK, OwnerInv, RoomInv, Threads, WriterPC,
      LogPC, OwnerPC
  <1>9. CASE Pop
    BY <1>9 DEF Pop, Popping, FrontOf, TypeOK, OwnerInv, RoomInv, Threads, WriterPC,
      LogPC, OwnerPC
  <1>10. CASE PopWait
    BY <1>10 DEF PopWait, Popping, Goto, TypeOK, OwnerInv, RoomInv, Threads,
      WriterPC, LogPC, OwnerPC
  <1>11. CASE Wake
    BY <1>11 DEF Wake, Goto, TypeOK, OwnerInv, RoomInv, Threads, WriterPC, LogPC,
      OwnerPC
  <1>12. CASE AsyncWrite
    BY <1>12 DEF AsyncWrite, Goto, TypeOK, OwnerInv, RoomInv, Threads, WriterPC,
      LogPC, OwnerPC
  <1>13. CASE Destroy
    BY <1>13 DEF Destroy, Goto, TypeOK, OwnerInv, RoomInv, Threads, WriterPC, LogPC,
      OwnerPC
  <1>14. CASE Drain
    BY <1>14 DEF Drain, DrainedAll, Notify, Goto, TypeOK, OwnerInv, RoomInv,
      Threads, WriterPC, LogPC, OwnerPC
  <1>15. CASE Close
    BY <1>15 DEF Close, Notify, TypeOK, OwnerInv, RoomInv, Threads, WriterPC, LogPC,
      OwnerPC
  <1>16. CASE Join
    BY <1>16 DEF Join, Goto, TypeOK, OwnerInv, RoomInv, Threads, WriterPC, LogPC,
      OwnerPC
  <1>17. CASE UNCHANGED vars
    BY <1>17 DEF vars, TypeOK, OwnerInv, RoomInv, Threads, WriterPC, LogPC, OwnerPC
  <1> QED
    BY <1>1, <1>2, <1>3, <1>4, <1>5, <1>6, <1>7, <1>8, <1>9,
      <1>10, <1>11, <1>12, <1>13, <1>14, <1>15, <1>16, <1>17
    DEF Next, WriterStep, LogStep, OwnerStep

LEMMA LogInvNext == LogInv /\ [Next]_vars => LogInv'
  BY TypeOKNext, MtxInvNext, RoomInvNext, StrInvNext, LineInvNext, OwnerInvNext DEF LogInv

LEMMA LogInvAlways == Spec => []LogInv
  BY LogInvInit, LogInvNext, PTL DEF Spec

(* Every variable of the log keeps its type: what the log thread writes is *)
(* a line that was logged, never what is behind an empty deque.            *)
THEOREM TypeCorrect == Spec => []TypeOK
  <1>1. LogInv => TypeOK
    BY DEF LogInv
  <1> QED
    BY <1>1, LogInvAlways, PTL

(* No writer ever waits in push_back with mtx_ held, so that the log thread *)
(* can always have mtx_.                                                   *)
THEOREM PushNeverWaitsAlways == Spec => []PushNeverWaits
  <1>1. LogInv => PushNeverWaits
    BY DEF LogInv, RoomInv, PushNeverWaits
  <1> QED
    BY <1>1, LogInvAlways, PTL

-----------------------------------------------------------------------------
(* The order of the queue.                                                 *)

LEMMA PushIsConcat ==
  ASSUME NEW S, NEW s \in Seq(S), NEW e \in S
  PROVE  Append(s, e) = s \o <<e>>
  OBVIOUS

LEMMA HeadThenTail ==
  ASSUME NEW S, NEW s \in Seq(S), s # <<>>
  PROVE  <<Head(s)>> \o Tail(s) = s /\ Head(s) \in S /\ Tail(s) \in Seq(S)
  <1>1. Head(s) \in S /\ Tail(s) \in Seq(S)
    BY HeadTailProperties
  <1>2. <<Head(s)>> \o Tail(s) = s
    BY <1>1
  <1> QED
    BY <1>1, <1>2

LEMMA HeldIsSeq == TypeOK => Held \in Seq(Line)
  BY DEF TypeOK, Held

LEMMA QueueOrderNext == LogInv /\ QueueOrder /\ [Next]_vars => QueueOrder'
  <1> SUFFICES ASSUME LogInv, QueueOrder, [Next]_vars PROVE QueueOrder'
    OBVIOUS
  <1> USE DEF LogInv
  <1>1. ASSUME UNCHANGED <<drained, str, deq, pushed>> PROVE QueueOrder'
    BY <1>1 DEF QueueOrder, Held
  <1>2. ASSUME NEW w \in Writers, PushBack(w) PROVE QueueOrder'
    <2>1. LineOf(w) \in Line
      BY <1>2 DEF PushBack, LineInv, LineOf, Line
    <2>2. Held' = Held /\ drained' = drained
      BY <1>2 DEF PushBack, Held
    <2>3. CASE UNCHANGED <<deq, pushed>>
      BY <2>2, <2>3 DEF QueueOrder
    <2>4. CASE deq' = Append(deq, LineOf(w)) /\ pushed' = Append(pushed, LineOf(w))
      <3> DEFINE l == LineOf(w)
                 front == drained \o Held
      <3> HIDE DEF l, front
      <3>1. front \in Seq(Line) /\ deq \in Seq(Line) /\ l \in Line /\ <<l>> \in Seq(Line)
        BY <2>1, HeldIsSeq, ConcatProperties DEF TypeOK, front, l
      <3>2. front \o (deq \o <<l>>) = (front \o deq) \o <<l>>
        BY <3>1, ConcatAssociative
      <3>3. pushed = front \o deq
        BY DEF QueueOrder, front
      <3>4. pushed' = front \o (deq \o <<l>>)
        BY <2>4, <3>1, <3>2, <3>3, PushIsConcat DEF l, TypeOK
      <3> QED
        BY <2>2, <2>4, <3>1, <3>4, PushIsConcat DEF QueueOrder, front, l
    <2> QED
      BY <1>2, <2>3, <2>4 DEF PushBack, Pushed
  <1>3. CASE Pop
    <2>1. Held = <<>> /\ Held' = <<Head(deq)>>
      BY <1>3, NoLineAssumption DEF Pop, Popping, FrontOf, StrInv, Held, TypeOK, Line
    <2>2. /\ deq \in Seq(Line) /\ deq # <<>> /\ drained \in Seq(Line)
          /\ deq' = Tail(deq) /\ drained' = drained /\ pushed' = pushed
      BY <1>3 DEF Pop, TypeOK
    <2>3. Head(deq) \in Line /\ <<Head(deq)>> \in Seq(Line) /\ Tail(deq) \in Seq(Line)
      BY <2>2, HeadThenTail
    <2>4. (drained \o <<Head(deq)>>) \o Tail(deq) = drained \o (<<Head(deq)>> \o Tail(deq))
      BY <2>2, <2>3, ConcatAssociative
    <2>5. (drained \o <<Head(deq)>>) \o Tail(deq) = drained \o deq
      BY <2>2, <2>4, HeadThenTail
    <2>6. drained \o <<>> = drained
      BY <2>2, ConcatEmptySeq
    <2> QED
      BY <2>1, <2>2, <2>5, <2>6 DEF QueueOrder
  <1>4. CASE AsyncWrite
    <2>1. str \in Line /\ Held = <<str>> /\ Held' = <<>>
      BY <1>4 DEF AsyncWrite, StrInv, Held, TypeOK
    <2>2. drained' = Append(drained, str) /\ deq' = deq /\ pushed' = pushed
      BY <1>4 DEF AsyncWrite
    <2>3. drained' = drained \o <<str>> /\ drained' \in Seq(Line)
      BY <2>1, <2>2, PushIsConcat DEF TypeOK
    <2>4. drained' \o <<>> = drained'
      BY <2>3, ConcatEmptySeq
    <2> QED
      BY <2>1, <2>2, <2>3, <2>4 DEF QueueOrder
  <1>5. CASE Close
    BY <1>5, <1>1 DEF Close, OwnerInv
  <1>6. CASE UNCHANGED vars
    BY <1>6, <1>1 DEF vars
  <1> QED
    BY <1>1, <1>2, <1>3, <1>4, <1>5, <1>6
    DEF Next, WriterStep, LogStep, OwnerStep, Write, Roll, Lock, TestFull, Fputs, Flush,
      PopClosed, PopWait, Wake, Destroy, Drain, Join

(* What the log thread has written, what it holds and what is in the deque *)
(* are, in order, the lines that were pushed.                              *)
THEOREM QueueOrderAlways == Spec => []QueueOrder
  <1>1. Init => QueueOrder
    BY DEF Init, QueueOrder, Held
  <1> QED
    BY <1>1, QueueOrderNext, LogInvAlways, PTL DEF Spec
=============================================================================
