---------------------------- MODULE Pools_proofs ----------------------------
(***************************************************************************)
(* Proofs about SqlConnPool, as Pools runs it, for any number of workers,  *)
(* of connections and of calls: its types, that the semaphore counts the   *)
(* queue, and that no connection is lost.  Those about ThreadPool are in   *)
(* ThreadPool_proofs.                                                      *)
(***************************************************************************)
EXTENDS Pools, TLAPS, FiniteSetTheorems

(* A step of Pools is a step of SqlConnPool, or none.                      *)
LEMMA SqlStep == [PoolsNext]_poolsVars => [Sql!Next]_sqlVars
  BY DEF PoolsNext, poolsVars, ThreadsOnly

LEMMA SqlCardinality == \A S : Sql!Cardinality(S) = Cardinality(S)
  BY DEF Cardinality, Sql!Cardinality

LEMMA PoolSize == Cardinality(Conns) \in Nat
  BY ConnsAssumption, FS_CardinalityType

LEMMA InitQueue ==
  ASSUME Sql!InitPool
  PROVE  connQue \in Seq(Conns \cup {NoConn}) /\ Len(connQue) = Cardinality(Conns)
  BY PoolSize, SqlCardinality DEF Sql!InitPool

LEMMA TypeOKInit == Sql!Init => Sql!TypeOK
  <1> SUFFICES ASSUME Sql!Init PROVE Sql!TypeOK
    OBVIOUS
  <1>1. connQue \in Seq(Conns \cup {NoConn})
    BY InitQueue DEF Sql!Init
  <1>2. popped \in Nat /\ semId \in Nat
    BY PoolSize, SqlCardinality DEF Sql!Init, Sql!InitPool
  <1>3. connected \subseteq Conns
    BY DEF Sql!Init, Sql!InitPool
  <1> QED
    BY <1>1, <1>2, <1>3 DEF Sql!Init, Sql!TypeOK, Sql!PC

LEMMA TypeOKNext == Sql!TypeOK /\ [Sql!Next]_sqlVars => Sql!TypeOK'
  <1> SUFFICES ASSUME Sql!TypeOK, [Sql!Next]_sqlVars PROVE Sql!TypeOK'
    OBVIOUS
  <1> USE DEF Sql!TypeOK, Sql!PC, Sql!Goto
  <1>1. ASSUME NEW w \in Workers, Sql!UserVerify(w) PROVE Sql!TypeOK'
    BY <1>1 DEF Sql!UserVerify
  <1>2. ASSUME NEW w \in Workers, Sql!ReadEnd(w) PROVE Sql!TypeOK'
    BY <1>2 DEF Sql!ReadEnd
  <1>3. ASSUME NEW w \in Workers, Sql!ReadBegin(w) PROVE Sql!TypeOK'
    BY <1>3 DEF Sql!ReadBegin
  <1>4. ASSUME NEW w \in Workers, Sql!SemWait(w) PROVE Sql!TypeOK'
    BY <1>4 DEF Sql!SemWait, Sql!SemDown
  <1>5. ASSUME NEW w \in Workers, Sql!Pop(w) PROVE Sql!TypeOK'
    BY <1>5 DEF Sql!Pop
  <1>6. ASSUME NEW w \in Workers, Sql!Destroy(w) PROVE Sql!TypeOK'
    BY <1>6 DEF Sql!Destroy, Sql!Freed, Sql!FreeConn
  <1>7. ASSUME NEW w \in Workers, Sql!AssertFails(w) PROVE Sql!TypeOK'
    BY <1>7 DEF Sql!AssertFails
  <1>8. ASSUME NEW w \in Workers, Sql!SelectError(w) PROVE Sql!TypeOK'
    BY <1>8 DEF Sql!SelectError
  <1>9. ASSUME NEW w \in Workers, Sql!QueryDone(w) PROVE Sql!TypeOK'
    BY <1>9 DEF Sql!QueryDone
  <1>10. ASSUME NEW w \in Workers, Sql!Return(w) PROVE Sql!TypeOK'
    BY <1>10 DEF Sql!Return, Sql!FreeConn
  <1>11. CASE UNCHANGED sqlVars
    BY <1>11 DEF sqlVars
  <1> QED
    BY <1>1, <1>2, <1>3, <1>4, <1>5, <1>6, <1>7, <1>8, <1>9, <1>10, <1>11 DEF Sql!Next, Sql!Step

(* Every variable of the connection pool keeps its type; the semaphore,    *)
(* in particular, never goes below zero.                                   *)
THEOREM TypeCorrect == PoolsSpec => []Sql!TypeOK
  <1>1. PoolsInit => Sql!TypeOK
    BY TypeOKInit DEF PoolsInit
  <1>2. Sql!TypeOK /\ [PoolsNext]_poolsVars => Sql!TypeOK'
    BY TypeOKNext, SqlStep
  <1> QED
    BY <1>1, <1>2, PTL DEF PoolsSpec

-----------------------------------------------------------------------------
(* The semaphore and the queue.                                            *)

LEMMA PoppingCounted ==
  /\ Sql!SemMatches <=> Len(connQue) = semId + Cardinality(Sql!Popping)
  /\ Sql!SemMatches' <=> Len(connQue') = semId' + Cardinality(Sql!Popping')
  /\ IsFiniteSet(Sql!Popping) /\ Cardinality(Sql!Popping) \in Nat
  /\ IsFiniteSet(Sql!Popping') /\ Cardinality(Sql!Popping') \in Nat
  <1>1. IsFiniteSet(Sql!Popping) /\ IsFiniteSet(Sql!Popping')
    BY FiniteAssumption, FS_Subset DEF Sql!Popping
  <1> QED
    BY <1>1, FS_CardinalityType, SqlCardinality DEF Sql!SemMatches

(* A step of a worker that is not at the pop before it nor after it, and   *)
(* that moves the queue and the semaphore together.                        *)
LEMMA NotPopping ==
  ASSUME Sql!TypeOK, Sql!SemMatches, NEW w \in Workers, NEW p \in Sql!PC \ {"pop"},
         sqlPc[w] # "pop", Sql!Goto(w, p) \/ UNCHANGED sqlPc,
         \/ UNCHANGED <<connQue, semId>>
         \/ \E c \in Conns \cup {NoConn} : Sql!FreeConn(c)
  PROVE  Sql!SemMatches'
  <1>1. Sql!Popping' = Sql!Popping
    BY DEF Sql!Goto, Sql!Popping, Sql!TypeOK
  <1>2. Len(connQue') - semId' = Len(connQue) - semId /\ semId' \in Nat
    <2>1. CASE UNCHANGED <<connQue, semId>>
      BY <2>1 DEF Sql!TypeOK
    <2>2. ASSUME NEW c \in Conns \cup {NoConn}, Sql!FreeConn(c)
          PROVE  Len(connQue') - semId' = Len(connQue) - semId /\ semId' \in Nat
      <3>1. Len(connQue') = Len(connQue) + 1 /\ Len(connQue) \in Nat
        BY <2>2 DEF Sql!FreeConn, Sql!TypeOK
      <3> QED
        BY <2>2, <3>1 DEF Sql!FreeConn, Sql!TypeOK
    <2> QED
      BY <2>1, <2>2
  <1>3. Len(connQue') \in Nat /\ Len(connQue) \in Nat
    BY DEF Sql!FreeConn, Sql!TypeOK
  <1> QED
    BY <1>1, <1>2, <1>3, PoppingCounted DEF Sql!TypeOK

LEMMA SemMatchesNext == Sql!TypeOK /\ Sql!SemMatches /\ [Sql!Next]_sqlVars => Sql!SemMatches'
  <1> SUFFICES ASSUME Sql!TypeOK, Sql!SemMatches, [Sql!Next]_sqlVars PROVE Sql!SemMatches'
    OBVIOUS
  <1>1. ASSUME NEW w \in Workers, Sql!UserVerify(w) PROVE Sql!SemMatches'
    BY <1>1, NotPopping DEF Sql!UserVerify, Sql!PC
  <1>2. ASSUME NEW w \in Workers, Sql!ReadEnd(w) PROVE Sql!SemMatches'
    BY <1>2, NotPopping DEF Sql!ReadEnd, Sql!PC
  <1>3. ASSUME NEW w \in Workers, Sql!ReadBegin(w) PROVE Sql!SemMatches'
    BY <1>3, NotPopping DEF Sql!ReadBegin, Sql!PC
  <1>4. ASSUME NEW w \in Workers, Sql!SemWait(w) PROVE Sql!SemMatches'
    <2>1. Sql!Popping' = Sql!Popping \cup {w} /\ w \notin Sql!Popping
      BY <1>4 DEF Sql!SemWait, Sql!Goto, Sql!Popping, Sql!TypeOK
    <2>2. Cardinality(Sql!Popping') = Cardinality(Sql!Popping) + 1
      BY <2>1, PoppingCounted, FS_AddElement
    <2> QED
      BY <1>4, <2>2, PoppingCounted DEF Sql!SemWait, Sql!SemDown, Sql!TypeOK
  <1>5. ASSUME NEW w \in Workers, Sql!Pop(w) PROVE Sql!SemMatches'
    <2>1. Sql!Popping' = Sql!Popping \ {w} /\ w \in Sql!Popping
      BY <1>5 DEF Sql!Pop, Sql!Goto, Sql!Popping, Sql!TypeOK
    <2>2. Cardinality(Sql!Popping') = Cardinality(Sql!Popping) - 1
      BY <2>1, PoppingCounted, FS_RemoveElement
    <2>3. Len(connQue') = Len(connQue) - 1 /\ semId' = semId
      BY <1>5 DEF Sql!Pop, Sql!TypeOK
    <2>4. Len(connQue) \in Nat /\ semId \in Nat
      BY DEF Sql!TypeOK
    <2> QED
      BY <2>2, <2>3, <2>4, PoppingCounted
  <1>6. ASSUME NEW w \in Workers, Sql!Destroy(w) PROVE Sql!SemMatches'
    BY <1>6, NotPopping DEF Sql!Destroy, Sql!Freed, Sql!PC, Sql!TypeOK
  <1>7. ASSUME NEW w \in Workers, Sql!AssertFails(w) PROVE Sql!SemMatches'
    BY <1>7, NotPopping DEF Sql!AssertFails, Sql!PC
  <1>8. ASSUME NEW w \in Workers, Sql!SelectError(w) PROVE Sql!SemMatches'
    BY <1>8, NotPopping DEF Sql!SelectError, Sql!PC
  <1>9. ASSUME NEW w \in Workers, Sql!QueryDone(w) PROVE Sql!SemMatches'
    BY <1>9, NotPopping DEF Sql!QueryDone, Sql!PC
  <1>10. ASSUME NEW w \in Workers, Sql!Return(w) PROVE Sql!SemMatches'
    BY <1>10, NotPopping DEF Sql!Return, Sql!PC, Sql!TypeOK
  <1>11. CASE UNCHANGED sqlVars
    BY <1>11 DEF sqlVars, Sql!SemMatches, Sql!Popping
  <1> QED
    BY <1>1, <1>2, <1>3, <1>4, <1>5, <1>6, <1>7, <1>8, <1>9, <1>10, <1>11 DEF Sql!Next, Sql!Step

LEMMA SemMatchesInit == Sql!Init => Sql!SemMatches
  <1> SUFFICES ASSUME Sql!Init PROVE Sql!SemMatches
    OBVIOUS
  <1>1. Sql!Popping = {}
    BY DEF Sql!Init, Sql!Popping
  <1> QED
    BY <1>1, InitQueue, PoolSize, FS_EmptySet, SqlCardinality DEF Sql!Init, Sql!InitPool, Sql!SemMatches

(* The value of the semaphore is the number of connections in the queue,   *)
(* but for the workers that have passed it and not popped yet: front() is  *)
(* never called on an empty queue.                                         *)
THEOREM SemMatchesAlways == PoolsSpec => []SemMatches
  <1>1. PoolsInit => SemMatches
    BY SemMatchesInit DEF PoolsInit, SemMatches
  <1>2. Sql!TypeOK /\ SemMatches /\ [PoolsNext]_poolsVars => SemMatches'
    BY SemMatchesNext, SqlStep DEF SemMatches
  <1> QED
    BY <1>1, <1>2, TypeCorrect, PTL DEF PoolsSpec

-----------------------------------------------------------------------------
(* No connection is lost.                                                  *)

Releases(w, c) == sqlPc[w] = "~SqlConnRAII" /\ sql[w] = c

(* A worker that is not about to destroy a guard that holds a connection   *)
(* may do anything but pop.                                                *)
LEMMA OthersKeep ==
  ASSUME Sql!TypeOK, Sql!ConnsKept, connected' = connected, NEW w \in Workers, NEW p \in Sql!PC,
         sqlPc[w] # "~SqlConnRAII" \/ sql[w] = NoConn \/ UNCHANGED <<sqlPc, sql>>,
         Sql!Goto(w, p) \/ UNCHANGED sqlPc,
         sql' = [sql EXCEPT ![w] = NoConn] \/ UNCHANGED sql,
         \/ UNCHANGED connQue
         \/ \E c \in Conns \cup {NoConn} : Sql!FreeConn(c)
  PROVE  Sql!ConnsKept'
  <1> SUFFICES ASSUME NEW c \in connected
               PROVE  Sql!InQueue(c)' \/ \E v \in Workers : Releases(v, c)'
    BY DEF Sql!ConnsKept, Releases
  <1>1. CASE Sql!InQueue(c)
    BY <1>1 DEF Sql!InQueue, Sql!FreeConn, Sql!TypeOK
  <1>2. CASE \E v \in Workers : Releases(v, c)
    BY <1>2, ConnsAssumption DEF Releases, Sql!Goto, Sql!TypeOK
  <1> QED
    BY <1>1, <1>2 DEF Sql!ConnsKept, Releases

LEMMA ConnsKeptNext == Sql!TypeOK /\ Sql!ConnsKept /\ [Sql!Next]_sqlVars => Sql!ConnsKept'
  <1> SUFFICES ASSUME Sql!TypeOK, Sql!ConnsKept, [Sql!Next]_sqlVars PROVE Sql!ConnsKept'
    OBVIOUS
  <1>1. ASSUME NEW w \in Workers, Sql!UserVerify(w) PROVE Sql!ConnsKept'
    BY <1>1, OthersKeep DEF Sql!UserVerify, Sql!PC
  <1>2. ASSUME NEW w \in Workers, Sql!ReadEnd(w) PROVE Sql!ConnsKept'
    BY <1>2, OthersKeep DEF Sql!ReadEnd, Sql!PC
  <1>3. ASSUME NEW w \in Workers, Sql!ReadBegin(w) PROVE Sql!ConnsKept'
    BY <1>3, OthersKeep DEF Sql!ReadBegin, Sql!PC
  <1>4. ASSUME NEW w \in Workers, Sql!SemWait(w) PROVE Sql!ConnsKept'
    BY <1>4, OthersKeep DEF Sql!SemWait, Sql!PC
  <1>5. ASSUME NEW w \in Workers, Sql!Pop(w) PROVE Sql!ConnsKept'
    <2> SUFFICES ASSUME NEW c \in connected
                 PROVE  Sql!InQueue(c)' \/ \E v \in Workers : Releases(v, c)'
      BY <1>5 DEF Sql!Pop, Sql!ConnsKept, Releases
    <2>1. CASE c = Head(connQue)
      BY <1>5, <2>1 DEF Sql!Pop, Sql!Goto, Releases, Sql!TypeOK
    <2>2. CASE Sql!InQueue(c) /\ c # Head(connQue)
      <3>1. PICK i \in 1..Len(connQue) : connQue[i] = c
        BY <2>2 DEF Sql!InQueue
      <3>2. i # 1
        BY <2>2, <3>1 DEF Sql!TypeOK
      <3>3. i - 1 \in 1..Len(connQue') /\ connQue'[i - 1] = c
        BY <1>5, <3>1, <3>2 DEF Sql!Pop, Sql!TypeOK
      <3> QED
        BY <3>3 DEF Sql!InQueue
    <2>3. CASE \E v \in Workers : Releases(v, c)
      BY <1>5, <2>3 DEF Sql!Pop, Sql!Goto, Releases, Sql!TypeOK
    <2> QED
      BY <2>1, <2>2, <2>3 DEF Sql!ConnsKept, Releases
  <1>6. ASSUME NEW w \in Workers, Sql!Destroy(w) PROVE Sql!ConnsKept'
    <2> SUFFICES ASSUME NEW c \in connected
                 PROVE  Sql!InQueue(c)' \/ \E v \in Workers : Releases(v, c)'
      BY <1>6 DEF Sql!Destroy, Sql!ConnsKept, Releases
    <2>1. CASE Sql!InQueue(c)
      BY <1>6, <2>1 DEF Sql!Destroy, Sql!Freed, Sql!FreeConn, Sql!InQueue, Sql!TypeOK
    <2>2. CASE sql[w] = c
      <3>1. connQue'[Len(connQue')] = c /\ Len(connQue') \in 1..Len(connQue')
        BY <1>6, <2>2 DEF Sql!Destroy, Sql!Freed, Sql!FreeConn, Sql!TypeOK
      <3> QED
        BY <3>1 DEF Sql!InQueue
    <2>3. CASE sql[w] # c /\ \E v \in Workers : Releases(v, c)
      BY <1>6, <2>3 DEF Sql!Destroy, Sql!Goto, Releases, Sql!TypeOK
    <2> QED
      BY <2>1, <2>2, <2>3 DEF Sql!ConnsKept, Releases
  <1>7. ASSUME NEW w \in Workers, Sql!AssertFails(w) PROVE Sql!ConnsKept'
    BY <1>7, OthersKeep DEF Sql!AssertFails, Sql!PC
  <1>8. ASSUME NEW w \in Workers, Sql!SelectError(w) PROVE Sql!ConnsKept'
    BY <1>8, OthersKeep DEF Sql!SelectError, Sql!PC
  <1>9. ASSUME NEW w \in Workers, Sql!QueryDone(w) PROVE Sql!ConnsKept'
    BY <1>9, OthersKeep DEF Sql!QueryDone, Sql!PC
  <1>10. ASSUME NEW w \in Workers, Sql!Return(w) PROVE Sql!ConnsKept'
    BY <1>10, OthersKeep DEF Sql!Return, Sql!PC, Sql!TypeOK
  <1>11. CASE UNCHANGED sqlVars
    BY <1>11 DEF sqlVars, Sql!ConnsKept, Sql!InQueue
  <1> QED
    BY <1>1, <1>2, <1>3, <1>4, <1>5, <1>6, <1>7, <1>8, <1>9, <1>10, <1>11 DEF Sql!Next, Sql!Step

LEMMA ConnsKeptInit == Sql!Init => Sql!ConnsKept
  BY InitQueue, PoolSize, SqlCardinality DEF Sql!Init, Sql!InitPool, Sql!ConnsKept, Sql!InQueue

(* Every connection that was opened stays in the pool, or with the worker  *)
(* whose guard gives it back next, whatever the queries do.                *)
THEOREM ConnsKeptAlways == PoolsSpec => []ConnsKept
  <1>1. PoolsInit => ConnsKept
    BY ConnsKeptInit DEF PoolsInit, ConnsKept
  <1>2. Sql!TypeOK /\ ConnsKept /\ [PoolsNext]_poolsVars => ConnsKept'
    BY ConnsKeptNext, SqlStep DEF ConnsKept
  <1> QED
    BY <1>1, <1>2, TypeCorrect, PTL DEF PoolsSpec
=============================================================================
