-------------------------- MODULE HeapTimer_proofs --------------------------
(***************************************************************************)
(* Proofs about HeapTimer, for any set of ids, any timeout and any size_t  *)
(* that is large enough: ref_ inverts heap_, the heap is ordered between   *)
(* operations, GetNextTick's timeout is in time, and the heap implements   *)
(* TimerSet.                                                               *)
(***************************************************************************)
EXTENDS HeapTimer, FiniteSetTheorems, WellFoundedInduction, TLAPS

-----------------------------------------------------------------------------
(* The arithmetic of the heap's indices.                                   *)

LEMMA ParentFacts ==
  ASSUME NEW k \in Nat \ {0}
  PROVE  /\ Parent(k) \in Nat /\ Parent(k) < k
         /\ k = Left(Parent(k)) \/ k = Left(Parent(k)) + 1
  BY DEF Parent, Wrapped, Left

LEMMA ChildFacts ==
  ASSUME NEW k \in Nat
  PROVE  /\ Left(k) \in Nat /\ Left(k) > k
         /\ Parent(Left(k)) = k /\ Parent(Left(k) + 1) = k
  BY DEF Parent, Wrapped, Left

(* The root's parent lies outside of the heap, which has a node for an id  *)
(* at most.                                                                *)
LEMMA RootFacts ==
  ASSUME TypeOK, RefInverse
  PROVE  Parent(0) \in Nat /\ Parent(0) >= size
  <1> DEFINE f == [k \in 0..(size - 1) |-> heap[k].id]
  <1>1. f \in Injection(0..(size - 1), Ids)
    <2>1. f \in [0..(size - 1) -> Ids]
      BY DEF TypeOK, Node
    <2>2. \A a, b \in 0..(size - 1) : f[a] = f[b] => a = b
      BY DEF RefInverse
    <2> QED
      BY <2>1, <2>2 DEF Injection, IsInjective
  <1>2. Cardinality(0..(size - 1)) <= Cardinality(Ids)
    BY <1>1, IdsAssumption, FS_Injection
  <1>3. size <= Cardinality(Ids)
    <2>1. size \in Nat
      BY DEF TypeOK
    <2>2. Cardinality(0..(size - 1)) = size
      BY <2>1, FS_Interval, 0 \in Int, size - 1 \in Int
    <2> QED
      BY <1>2, <2>2
  <1>4. Cardinality(Ids) \in Nat
    BY IdsAssumption, FS_CardinalityType
  <1>5. Parent(0) = (SizeMax - 1) \div 2
    BY SizeAssumption DEF Parent, Wrapped
  <1>6. size \in Nat
    BY DEF TypeOK
  <1> QED
    BY <1>3, <1>4, <1>5, <1>6, SizeAssumption

-----------------------------------------------------------------------------
(* A swap exchanges two nodes and keeps types and ref_.                    *)

LEMMA SwapFacts ==
  ASSUME TypeOK, RefInverse, NEW j \in 0..(size - 1), NEW k \in 0..(size - 1),
         SwapNode_(j, k)
  PROVE  /\ heap' \in [0..(size - 1) -> Node]
         /\ heap'[j] = heap[k] /\ heap'[k] = heap[j]
         /\ \A l \in 0..(size - 1) : l # j /\ l # k => heap'[l] = heap[l]
         /\ DOMAIN ref' = DOMAIN ref /\ ref' \in [DOMAIN ref -> 0..(size - 1)]
         /\ \A l \in 0..(size - 1) : heap'[l].id \in DOMAIN ref' /\ ref'[heap'[l].id] = l
         /\ \A id \in DOMAIN ref' : heap'[ref'[id]].id = id
  <1>1. /\ heap' \in [0..(size - 1) -> Node]
        /\ heap'[j] = heap[k] /\ heap'[k] = heap[j]
        /\ \A l \in 0..(size - 1) : l # j /\ l # k => heap'[l] = heap[l]
    BY DEF SwapNode_, Swapped, TypeOK
  <1>2. DOMAIN ref' = DOMAIN ref /\ ref' \in [DOMAIN ref -> 0..(size - 1)]
    BY DEF SwapNode_, TypeOK, RefInverse
  <1>3. /\ ref'[heap[k].id] = j /\ ref'[heap[j].id] = k
        /\ \A id \in DOMAIN ref : id # heap[j].id /\ id # heap[k].id => ref'[id] = ref[id]
    BY DEF SwapNode_, TypeOK, RefInverse
  <1>4. \A l \in 0..(size - 1) : heap[l].id \in DOMAIN ref /\ ref[heap[l].id] = l
    BY DEF RefInverse
  <1>5. ASSUME NEW l \in 0..(size - 1)
        PROVE  heap'[l].id \in DOMAIN ref' /\ ref'[heap'[l].id] = l
    <2>1. CASE l = j \/ l = k
      BY <2>1, <1>1, <1>2, <1>3, <1>4
    <2>2. CASE l # j /\ l # k
      <3>1. heap[l].id # heap[j].id /\ heap[l].id # heap[k].id
        BY <2>2, <1>4
      <3> QED
        BY <2>2, <3>1, <1>1, <1>2, <1>3, <1>4
    <2> QED
      BY <2>1, <2>2
  <1>6. ASSUME NEW id \in DOMAIN ref'
        PROVE  heap'[ref'[id]].id = id
    <2>1. CASE id = heap[j].id \/ id = heap[k].id
      BY <2>1, <1>1, <1>3
    <2>2. CASE id # heap[j].id /\ id # heap[k].id
      <3>1. id \in DOMAIN ref /\ ref[id] \in 0..(size - 1) /\ heap[ref[id]].id = id
        BY <1>2 DEF RefInverse, TypeOK
      <3> QED
        BY <2>2, <3>1, <1>1, <1>3
    <2> QED
      BY <2>1, <2>2
  <1> QED
    BY <1>1, <1>2, <1>5, <1>6

-----------------------------------------------------------------------------
(* Types and ref_.                                                         *)

TypeInv == TypeOK /\ RefInverse

LEMMA TypeInvInit == Init => TypeInv
  BY DEF Init, TypeInv, TypeOK, RefInverse

LEMMA SwapTypes ==
  ASSUME TypeInv, NEW j \in 0..(size - 1), NEW k \in 0..(size - 1),
         SwapNode_(j, k), size' = size
  PROVE  /\ heap' \in [0..(size' - 1) -> Node]
         /\ DOMAIN ref' \subseteq Ids /\ ref' \in [DOMAIN ref' -> 0..(size' - 1)]
         /\ RefInverse'
  BY SwapFacts DEF TypeInv, TypeOK, RefInverse

LEMMA DeleteTypes ==
  ASSUME TypeInv, NEW k \in 0..(size - 1), NEW o \in {"doWork", "pop"}, Delete(k, o)
  PROVE  TypeInv'
  <1>1. size > 0 /\ size' = size /\ now' = now /\ ret' = ret /\ op' = o
    BY DEF TypeInv, TypeOK, Delete
  <1>2. CASE k < size - 1
    <2>1. SwapNode_(k, size - 1) /\ SiftDown(k, size - 1)
      BY <1>2 DEF Delete
    <2>2. size - 1 \in 0..(size - 1)
      BY <1>1 DEF TypeInv, TypeOK
    <2> QED
      BY <1>1, <1>2, <2>1, <2>2, SwapTypes DEF TypeInv, TypeOK, SiftDown
  <1>3. CASE ~(k < size - 1)
    <2>1. pc' = "erase" /\ UNCHANGED <<heap, ref, i, index, n>>
      BY <1>3 DEF Delete
    <2> QED
      BY <1>1, <2>1 DEF TypeInv, TypeOK, RefInverse
  <1> QED
    BY <1>2, <1>3

LEMMA RestartTypes ==
  ASSUME TypeInv, NEW id \in Ids, Restart(id), op' \in {"add", "adjust"}
  PROVE  TypeInv'
  <1> DEFINE k == ref[id]
  <1>1. id \in DOMAIN ref /\ k \in 0..(size - 1)
    BY DEF Restart, TypeInv, TypeOK
  <1>2. now + Timeout \in Nat
    BY TimeAssumption DEF TypeInv, TypeOK
  <1>3. heap' \in [0..(size - 1) -> Node] /\ \A l \in 0..(size - 1) : heap'[l].id = heap[l].id
    BY <1>1, <1>2 DEF Restart, TypeInv, TypeOK, Node
  <1>4. size' = size /\ ref' = ref /\ now' = now /\ ret' = ret
        /\ pc' = "siftdown" /\ i' = k /\ index' = k /\ n' = size
    BY DEF Restart, SiftDown
  <1>5. TypeOK'
    BY <1>1, <1>3, <1>4 DEF TypeInv, TypeOK
  <1>6. RefInverse'
    BY <1>3, <1>4 DEF TypeInv, TypeOK, RefInverse
  <1> QED
    BY <1>5, <1>6 DEF TypeInv

LEMMA AddTypes ==
  ASSUME TypeInv, NEW id \in Ids, AddNew(id)
  PROVE  TypeInv'
  <1>1. now + Timeout \in Nat
    BY TimeAssumption DEF TypeInv, TypeOK
  <1>2. /\ heap' \in [0..size -> Node] /\ heap'[size].id = id
        /\ \A l \in 0..(size - 1) : heap'[l] = heap[l]
    BY <1>1 DEF AddNew, TypeInv, TypeOK, Node
  <1>3. /\ DOMAIN ref' = DOMAIN ref \cup {id} /\ ref'[id] = size
        /\ \A f \in DOMAIN ref : f # id /\ ref'[f] = ref[f]
        /\ ref' \in [DOMAIN ref' -> 0..size]
    BY DEF AddNew, TypeInv, TypeOK
  <1>4. size' = size + 1 /\ now' = now /\ ret' = ret /\ pc' = "siftup" /\ i' = size
        /\ op' = "add" /\ index' = index /\ n' = n
    BY DEF AddNew
  <1>5. TypeOK'
    BY <1>2, <1>3, <1>4 DEF TypeInv, TypeOK
  <1>6. RefInverse'
    <2>1. ASSUME NEW l \in 0..size
          PROVE  heap'[l].id \in DOMAIN ref' /\ ref'[heap'[l].id] = l
      BY <1>2, <1>3 DEF TypeInv, TypeOK, RefInverse
    <2>2. ASSUME NEW f \in DOMAIN ref'
          PROVE  heap'[ref'[f]].id = f
      BY <1>2, <1>3 DEF TypeInv, TypeOK, RefInverse
    <2> QED
      BY <1>4, <2>1, <2>2 DEF RefInverse, TypeInv, TypeOK
  <1> QED
    BY <1>5, <1>6 DEF TypeInv

LEMMA EraseTypes ==
  ASSUME TypeInv, Erase
  PROVE  TypeInv'
  <1>1. size > 0 /\ size' = size - 1 /\ pc' \in {"tick", "idle"}
        /\ UNCHANGED <<now, op, i, index, n, ret>>
    BY DEF Erase, EraseBack, EraseNode, TypeInv, TypeOK
  <1>2. heap' \in [0..(size - 2) -> Node] /\ \A l \in 0..(size - 2) : heap'[l] = heap[l]
    BY <1>1 DEF Erase, EraseBack, EraseNode, TypeInv, TypeOK
  <1>3. /\ DOMAIN ref' = DOMAIN ref \ {heap[size - 1].id}
        /\ \A f \in DOMAIN ref' : ref'[f] = ref[f]
        /\ ref' = [f \in DOMAIN ref' |-> ref[f]]
    BY DEF Erase, EraseBack
  <1>4. ASSUME NEW f \in DOMAIN ref'
        PROVE  f \in DOMAIN ref /\ ref'[f] \in 0..(size - 2) /\ heap[ref[f]].id = f
    BY <1>1, <1>3 DEF TypeInv, TypeOK, RefInverse
  <1>5. TypeOK'
    BY <1>1, <1>2, <1>3, <1>4 DEF TypeInv, TypeOK
  <1>6. ASSUME NEW l \in 0..(size - 2)
        PROVE  heap'[l].id \in DOMAIN ref' /\ ref'[heap'[l].id] = l
    <2>1. l \in 0..(size - 1) /\ size - 1 \in 0..(size - 1) /\ l # size - 1
      BY <1>1 DEF TypeInv, TypeOK
    <2>2. heap[l].id \in DOMAIN ref /\ ref[heap[l].id] = l /\ ref[heap[size - 1].id] = size - 1
      BY <2>1 DEF TypeInv, RefInverse
    <2> QED
      BY <1>2, <1>3, <2>1, <2>2
  <1>7. RefInverse'
    BY <1>1, <1>2, <1>3, <1>4, <1>6 DEF RefInverse, TypeInv, TypeOK
  <1> QED
    BY <1>5, <1>7 DEF TypeInv

(* The steps of the loops stay in the heap. *)
LEMMA LoopTypes ==
  ASSUME TypeInv, SiftUpStop \/ SiftUpSwap \/ SwapAborts \/ SiftDownStop \/ SiftDownSwap
  PROVE  TypeInv'
  <1>1. CASE SiftUpStop \/ SwapAborts \/ SiftDownStop
    <2>1. UNCHANGED <<heap, size, ref, now, op, ret>>
      BY <1>1 DEF SiftUpStop, SwapAborts, SiftDownStop
    <2>2. RefInverse'
      BY <2>1 DEF TypeInv, RefInverse
    <2>3. TypeOK'
      BY <1>1, <2>1 DEF TypeInv, TypeOK, SiftUpStop, SwapAborts, SiftDownStop, Done
    <2> QED
      BY <2>2, <2>3 DEF TypeInv
  <1>2. CASE SiftUpSwap
    <2>1. i # 0
      BY <1>2, RootFacts DEF SiftUpSwap, TypeInv, TypeOK
    <2>2. i \in 0..(size - 1) /\ Parent(i) \in 0..(size - 1)
      BY <1>2, <2>1, ParentFacts DEF SiftUpSwap, TypeInv, TypeOK
    <2>3. SwapNode_(i, Parent(i)) /\ i' = Parent(i)
          /\ UNCHANGED <<size, now, pc, op, index, n, ret>>
      BY <1>2 DEF SiftUpSwap
    <2> QED
      BY <1>2, <2>2, <2>3, SwapTypes DEF TypeInv, TypeOK, SiftUpSwap
  <1>3. CASE SiftDownSwap
    <2>1. i \in 0..(size - 1) /\ Child \in 0..(size - 1) /\ Child > i
      BY <1>3 DEF SiftDownSwap, TypeInv, TypeOK, Child, Left
    <2>2. SwapNode_(i, Child) /\ i' = Child
          /\ UNCHANGED <<size, now, pc, op, index, n, ret>>
      BY <1>3 DEF SiftDownSwap
    <2> QED
      BY <1>3, <2>1, <2>2, SwapTypes DEF TypeInv, TypeOK, SiftDownSwap
  <1> QED
    BY <1>1, <1>2, <1>3

LEMMA TypeInvNext == TypeInv /\ [Next]_vars => TypeInv'
  <1> SUFFICES ASSUME TypeInv, [Next]_vars PROVE TypeInv'
    OBVIOUS
  <1>1. ASSUME NEW id \in Ids, AddNew(id)
        PROVE  TypeInv'
    BY <1>1, AddTypes
  <1>2. ASSUME NEW id \in Ids, AddAgain(id) \/ Adjust(id)
        PROVE  TypeInv'
    BY <1>2, RestartTypes DEF AddAgain, Adjust
  <1>3. ASSUME NEW id \in Ids, DoWork(id)
        PROVE  TypeInv'
    <2>1. ref[id] \in 0..(size - 1) /\ Delete(ref[id], "doWork")
      BY <1>3 DEF DoWork, TypeInv, TypeOK
    <2> QED
      BY <2>1, DeleteTypes
  <1>4. CASE Clear
    BY <1>4 DEF Clear, TypeInv, TypeOK, RefInverse
  <1>5. CASE SiftUpStop \/ SiftUpSwap \/ SwapAborts \/ SiftDownStop \/ SiftDownSwap
    BY <1>5, LoopTypes
  <1>6. CASE Erase
    BY <1>6, EraseTypes
  <1>7. CASE TickExpired
    <2>1. 0 \in 0..(size - 1) /\ Delete(0, "pop")
      BY <1>7 DEF TickExpired, TypeInv, TypeOK
    <2> QED
      BY <2>1, DeleteTypes
  <1>8. CASE GetNextTick \/ TickDone
    BY <1>8 DEF GetNextTick, TickDone, TypeInv, TypeOK, RefInverse
  <1>9. CASE Return
    <2>1. AsInt(IF Res < 0 THEN 0 ELSE Res) \in Int
      <3>1. size > 0 => Remaining(0) \in Int
        BY TimeAssumption DEF Remaining, Millis, TypeInv, TypeOK, Node
      <3> QED
        BY <3>1, SizeAssumption DEF AsInt, Res, Wrapped
    <2> QED
      BY <1>9, <2>1 DEF Return, TypeInv, TypeOK, RefInverse
  <1>10. CASE Advance
    BY <1>10, TimeAssumption DEF Advance, TypeInv, TypeOK, RefInverse
  <1>11. CASE UNCHANGED vars
    BY <1>11 DEF vars, TypeInv, TypeOK, RefInverse
  <1> QED
    BY <1>1, <1>2, <1>3, <1>4, <1>5, <1>6, <1>7, <1>8, <1>9, <1>10, <1>11 DEF Next

LEMMA TypeInvAlways == Spec => []TypeInv
  BY TypeInvInit, TypeInvNext, PTL DEF Spec

(* Every variable has its type, and the loops stay within the heap. *)
THEOREM TypeCorrect == Spec => []TypeOK
  BY TypeInvAlways, PTL DEF TypeInv

(* ref_ finds each node at its place, whatever the order of the operations. *)
THEOREM RefInverseAlways == Spec => []RefInverse
  BY TypeInvAlways, PTL DEF TypeInv

-----------------------------------------------------------------------------
(* The order of the heap.  In a loop it is broken at i at most: towards    *)
(* its parent in siftup_, also towards its children in siftdown_.  The     *)
(* node that del_ moved to the end does not count.                         *)

Top == IF op \in {"doWork", "pop"} THEN size - 1 ELSE size

InOrder(k) == heap[Parent(k)].expires <= heap[k].expires
OrderedTo(m) == \A k \in 1..(m - 1) : InOrder(k)

\* The children of i, if they are left to i's parent, are in order.
Bridged == \A k \in 1..(Top - 1) :
             Parent(k) = i /\ i > 0 => heap[Parent(i)].expires <= heap[k].expires

NoneLater == \A k \in 0..(size - 1) : heap[k].expires <= now + Timeout

UpInv == /\ i < Top /\ Bridged
         /\ \A k \in 1..(Top - 1) : k # i => InOrder(k)

DownInv == /\ i < Top /\ n = Top /\ Bridged
           /\ \A k \in 1..(Top - 1) : k # i /\ Parent(k) # i => InOrder(k)
           /\ Settled /\ i > 0 => InOrder(i)

OrderInv ==
  /\ NoneLater
  /\ pc \in {"idle", "tick", "next"} => OrderedTo(size)
  /\ pc = "erase" => op \in {"doWork", "pop"} /\ OrderedTo(size - 1)
  /\ pc = "siftup" => UpInv
  /\ pc = "siftdown" => DownInv

LEMMA OrderInvInit == Init => OrderInv
  BY DEF Init, OrderInv, NoneLater, OrderedTo

(* Every loop ends with the heap ordered up to the node to delete. *)
LEMMA DoneOrder ==
  ASSUME TypeInv, OrderInv, OrderedTo(Top), Done,
         UNCHANGED <<heap, size, ref, now, op, ret>>
  PROVE  OrderInv'
  <1>1. NoneLater'
    BY DEF OrderInv, NoneLater
  <1>2. CASE op \in {"add", "adjust"}
    <2>1. OrderedTo(size)' /\ pc' = "idle"
      BY <1>2 DEF OrderedTo, Top, InOrder, Done
    <2> QED
      BY <1>1, <2>1 DEF OrderInv
  <1>3. CASE op \in {"doWork", "pop"}
    <2>1. OrderedTo(size - 1)' /\ pc' = "erase" /\ op' \in {"doWork", "pop"}
      BY <1>3 DEF OrderedTo, Top, InOrder, Done
    <2> QED
      BY <1>1, <2>1 DEF OrderInv
  <1> QED
    BY <1>2, <1>3 DEF TypeInv, TypeOK

LEMMA UpStopOrder ==
  ASSUME TypeInv, OrderInv, SiftUpStop
  PROVE  OrderInv'
  <1>1. UpInv /\ i < size /\ i \in Nat
    BY DEF OrderInv, SiftUpStop, TypeInv, TypeOK
  <1>2. ASSUME i > 0
        PROVE  InOrder(i)
    <2>1. Parent(i) \in 0..(size - 1)
      BY <1>1, <1>2, ParentFacts DEF TypeInv, TypeOK
    <2> QED
      BY <1>1, <2>1 DEF SiftUpStop, Less, InOrder, TypeInv, TypeOK, Node
  <1>3. OrderedTo(Top)
    BY <1>1, <1>2 DEF UpInv, OrderedTo, Top, TypeInv, TypeOK
  <1> QED
    BY <1>3, DoneOrder DEF SiftUpStop

LEMMA UpSwapOrder ==
  ASSUME TypeInv, OrderInv, SiftUpSwap
  PROVE  OrderInv'
  <1> DEFINE p == Parent(i)
  <1>1. UpInv /\ Top \in Int /\ Top <= size /\ size \in Nat /\ i \in Nat
    BY DEF OrderInv, SiftUpSwap, TypeInv, TypeOK, Top
  <1>2. i > 0
    BY <1>1, RootFacts DEF SiftUpSwap, TypeInv
  <1>3. p \in Nat /\ p < i /\ i < Top
    BY <1>1, <1>2, ParentFacts DEF UpInv
  <1>4. \A k \in 0..(size - 1) : heap[k].expires \in Nat
    BY DEF TypeInv, TypeOK, Node
  <1>5. heap[i].expires <= heap[p].expires
    BY <1>1, <1>3, <1>4 DEF SiftUpSwap, Less
  <1>6. /\ heap'[i] = heap[p] /\ heap'[p] = heap[i]
        /\ \A l \in 0..(size - 1) : l # i /\ l # p => heap'[l] = heap[l]
    <2>1. i \in 0..(size - 1) /\ p \in 0..(size - 1)
      BY <1>1, <1>3
    <2>2. SwapNode_(i, p) /\ TypeOK /\ RefInverse
      BY DEF SiftUpSwap, TypeInv
    <2> HIDE DEF p
    <2> QED
      BY <2>1, <2>2, SwapFacts
  <1>7. Top' = Top /\ i' = p /\ size' = size /\ now' = now /\ pc' = "siftup"
    BY DEF SiftUpSwap, Top
  <1>8. \A k \in 1..(Top - 1) : Parent(k) \in 0..(size - 1) /\ k \in 0..(size - 1)
                              /\ Parent(k) < k
    BY <1>1, ParentFacts
  <1>9. \A k \in 1..(Top - 1) : k # i => heap[Parent(k)].expires <= heap[k].expires
    BY <1>1 DEF UpInv, InOrder
  <1>10. \A k \in 1..(Top - 1) : Parent(k) = i => heap[p].expires <= heap[k].expires
    BY <1>1, <1>2 DEF UpInv, Bridged
  <1> HIDE DEF p
  <1>11. ASSUME NEW k \in 1..(Top - 1), k # p
         PROVE  heap'[Parent(k)].expires <= heap'[k].expires
    <2>1. CASE k = i
      BY <2>1, <1>5, <1>6 DEF p
    <2>2. CASE k # i /\ Parent(k) = i
      BY <2>2, <1>6, <1>8, <1>10, <1>11
    <2>3. CASE k # i /\ Parent(k) = p
      <3>1. heap[p].expires <= heap[k].expires /\ heap'[k] = heap[k]
        BY <2>3, <1>6, <1>8, <1>9, <1>11
      <3> QED
        BY <2>3, <3>1, <1>1, <1>3, <1>4, <1>5, <1>6, <1>8
    <2>4. CASE k # i /\ Parent(k) # i /\ Parent(k) # p
      BY <2>4, <1>6, <1>8, <1>9, <1>11
    <2> QED
      BY <2>1, <2>2, <2>3, <2>4
  <1>12. ASSUME NEW k \in 1..(Top - 1), Parent(k) = p, p > 0
         PROVE  heap'[Parent(p)].expires <= heap'[k].expires
    <2>1. /\ Parent(p) \in 0..(size - 1) /\ Parent(p) < p
          /\ heap[Parent(p)].expires <= heap[p].expires
      BY <1>1, <1>3, <1>8, <1>9, <1>12
    <2>2. heap'[Parent(p)] = heap[Parent(p)]
      BY <2>1, <1>3, <1>6
    <2>3. CASE k = i
      BY <2>1, <2>2, <2>3, <1>6
    <2>4. CASE k # i
      <3>1. heap[p].expires <= heap[k].expires /\ heap'[k] = heap[k]
        BY <2>4, <1>6, <1>8, <1>9, <1>12
      <3> QED
        BY <3>1, <2>1, <2>2, <1>1, <1>3, <1>4, <1>8
    <2> QED
      BY <2>3, <2>4
  <1>13. UpInv'
    <2>1. i' < Top'
      BY <1>1, <1>3, <1>7
    <2>2. Bridged'
      BY <1>7, <1>12 DEF Bridged
    <2>3. \A k \in 1..(Top' - 1) : k # i' => InOrder(k)'
      BY <1>7, <1>11 DEF InOrder
    <2> QED
      BY <2>1, <2>2, <2>3 DEF UpInv
  <1>14. NoneLater'
    BY <1>1, <1>3, <1>6, <1>7 DEF NoneLater, OrderInv
  <1> QED
    BY <1>7, <1>13, <1>14 DEF OrderInv

(* Child is the child that expires first. *)
LEMMA FirstChild ==
  ASSUME TypeInv, pc = "siftdown", n = Top, i < Top, Left(i) < n
  PROVE  /\ Child \in 1..(Top - 1) /\ Parent(Child) = i
         /\ \A k \in 1..(Top - 1) : Parent(k) = i => heap[Child].expires <= heap[k].expires
  <1>1. Top \in Int /\ Top <= size /\ size \in Nat /\ i \in Nat
    BY DEF TypeInv, TypeOK, Top
  <1>2. Left(i) \in Nat /\ Left(i) > i /\ Parent(Left(i)) = i /\ Parent(Left(i) + 1) = i
    BY <1>1, ChildFacts
  <1>3. \A k \in 0..(size - 1) : heap[k].expires \in Nat
    BY DEF TypeInv, TypeOK, Node
  <1>4. Child \in 1..(Top - 1) /\ Parent(Child) = i
    BY <1>1, <1>2 DEF Child
  <1>5. ASSUME NEW k \in 1..(Top - 1), Parent(k) = i
        PROVE  heap[Child].expires <= heap[k].expires
    <2>1. k = Left(i) \/ k = Left(i) + 1
      BY <1>5, ParentFacts
    <2> QED
      BY <2>1, <1>1, <1>2, <1>3, <1>4 DEF Child, Less
  <1> QED
    BY <1>4, <1>5

LEMMA DownStopOrder ==
  ASSUME TypeInv, OrderInv, SiftDownStop
  PROVE  OrderInv'
  <1>1. DownInv /\ pc = "siftdown" /\ Top \in Int /\ Top <= size /\ size \in Nat /\ i \in Nat
    BY DEF OrderInv, SiftDownStop, TypeInv, TypeOK, Top
  <1>2. \A k \in 0..(size - 1) : heap[k].expires \in Nat
    BY DEF TypeInv, TypeOK, Node
  <1>3. ASSUME NEW k \in 1..(Top - 1), Parent(k) = i
        PROVE  InOrder(k)
    <2>1. Left(i) < n
      <3>1. k = Left(i) \/ k = Left(i) + 1
        BY <1>3, ParentFacts
      <3> QED
        BY <3>1, <1>1, ChildFacts DEF DownInv
    <2>2. Less(i, Child)
      BY <2>1 DEF SiftDownStop
    <2>3. Child \in 1..(Top - 1) /\ heap[Child].expires <= heap[k].expires
      BY <1>1, <1>3, <2>1, FirstChild DEF DownInv
    <2> QED
      BY <2>2, <2>3, <1>1, <1>2, <1>3 DEF Less, InOrder, DownInv
  <1>4. \A k \in 1..(Top - 1) : k # i => InOrder(k)
    BY <1>1, <1>3 DEF DownInv
  <1>5. CASE Settled
    <2>1. OrderedTo(Top)
      BY <1>1, <1>4, <1>5 DEF DownInv, OrderedTo
    <2> QED
      BY <2>1, <1>5, DoneOrder DEF SiftDownStop
  <1>6. CASE ~Settled
    <2>1. pc' = "siftup" /\ UNCHANGED <<heap, size, ref, now, op, i>>
      BY <1>6 DEF SiftDownStop
    <2>2. UpInv'
      BY <1>1, <1>4, <2>1 DEF DownInv, UpInv, Bridged, Top, InOrder
    <2>3. NoneLater'
      BY <2>1 DEF NoneLater, OrderInv
    <2> QED
      BY <2>1, <2>2, <2>3 DEF OrderInv
  <1> QED
    BY <1>5, <1>6

LEMMA DownSwapOrder ==
  ASSUME TypeInv, OrderInv, SiftDownSwap
  PROVE  OrderInv'
  <1> DEFINE c == Child
  <1>1. DownInv /\ pc = "siftdown" /\ Top \in Int /\ Top <= size /\ size \in Nat /\ i \in Nat
    BY DEF OrderInv, SiftDownSwap, TypeInv, TypeOK, Top
  <1>2. /\ c \in 1..(Top - 1) /\ Parent(c) = i
        /\ \A k \in 1..(Top - 1) : Parent(k) = i => heap[c].expires <= heap[k].expires
    BY <1>1, FirstChild DEF SiftDownSwap, DownInv
  <1>3. SwapNode_(i, c) /\ ~Less(i, c) /\ TypeOK /\ RefInverse
    BY DEF SiftDownSwap, TypeInv
  <1>4. Top' = Top /\ i' = c /\ n' = n /\ size' = size /\ now' = now /\ pc' = "siftdown"
    BY <1>1 DEF SiftDownSwap, Top
  <1> HIDE DEF c
  <1>5. \A k \in 0..(size - 1) : heap[k].expires \in Nat
    BY DEF TypeInv, TypeOK, Node
  <1>6. i \in 0..(size - 1) /\ c \in 0..(size - 1) /\ i < c
    BY <1>1, <1>2, ParentFacts DEF DownInv
  <1>7. heap[c].expires <= heap[i].expires
    BY <1>3, <1>5, <1>6 DEF Less
  <1>8. /\ heap'[i] = heap[c] /\ heap'[c] = heap[i]
        /\ \A l \in 0..(size - 1) : l # i /\ l # c => heap'[l] = heap[l]
    BY <1>3, <1>6, SwapFacts
  <1>9. \A k \in 1..(Top - 1) : Parent(k) \in 0..(size - 1) /\ k \in 0..(size - 1)
                             /\ Parent(k) < k
    BY <1>1, ParentFacts
  <1>10. \A k \in 1..(Top - 1) :
           k # i /\ Parent(k) # i => heap[Parent(k)].expires <= heap[k].expires
    BY <1>1 DEF DownInv, InOrder
  <1>11. i > 0 => heap[Parent(i)].expires <= heap[c].expires
    BY <1>1, <1>2 DEF DownInv, Bridged
  <1>12. ASSUME NEW k \in 1..(Top - 1), k # c, Parent(k) # c
         PROVE  heap'[Parent(k)].expires <= heap'[k].expires
    <2>1. CASE k = i
      BY <2>1, <1>8, <1>9, <1>11, <1>12
    <2>2. CASE k # i /\ Parent(k) = i
      BY <2>2, <1>2, <1>8, <1>9, <1>12
    <2>3. CASE k # i /\ Parent(k) # i
      BY <2>3, <1>8, <1>9, <1>10, <1>12
    <2> QED
      BY <2>1, <2>2, <2>3
  <1>13. ASSUME NEW k \in 1..(Top - 1), Parent(k) = c
         PROVE  heap'[i].expires <= heap'[k].expires
    <2>1. k # i /\ k # c /\ Parent(k) # i
      BY <1>6, <1>9, <1>13
    <2> QED
      BY <2>1, <1>8, <1>9, <1>10, <1>13
  <1>14. heap'[Parent(c)].expires <= heap'[c].expires
    BY <1>2, <1>7, <1>8
  <1>15. DownInv'
    <2>1. i' < Top' /\ n' = Top'
      BY <1>1, <1>2, <1>4 DEF DownInv
    <2>2. Bridged'
      BY <1>2, <1>4, <1>13 DEF Bridged
    <2>3. \A k \in 1..(Top' - 1) : k # i' /\ Parent(k) # i' => InOrder(k)'
      BY <1>4, <1>12 DEF InOrder
    <2>4. InOrder(i)'
      BY <1>4, <1>14 DEF InOrder
    <2> QED
      BY <2>1, <2>2, <2>3, <2>4 DEF DownInv
  <1>16. NoneLater'
    BY <1>4, <1>6, <1>8 DEF NoneLater, OrderInv
  <1> QED
    BY <1>4, <1>15, <1>16 DEF OrderInv

LEMMA DeleteOrder ==
  ASSUME TypeInv, OrderInv, OrderedTo(size), NEW k \in 0..(size - 1),
         NEW o \in {"doWork", "pop"}, Delete(k, o)
  PROVE  OrderInv'
  <1>1. size \in Nat /\ size > 0 /\ size' = size /\ now' = now /\ op' = o
    BY DEF Delete, TypeInv, TypeOK
  <1>2. Top' = size - 1
    BY <1>1 DEF Top
  <1>3. CASE ~(k < size - 1)
    <2>1. pc' = "erase" /\ heap' = heap
      BY <1>3 DEF Delete
    <2>2. OrderedTo(size - 1)'
      BY <1>1, <2>1 DEF OrderedTo, InOrder
    <2>3. NoneLater'
      BY <1>1, <2>1 DEF NoneLater, OrderInv
    <2> QED
      BY <1>1, <2>1, <2>2, <2>3 DEF OrderInv
  <1>4. CASE k < size - 1
    <2> DEFINE m == size - 1
    <2>1. /\ SwapNode_(k, m) /\ pc' = "siftdown" /\ i' = k /\ index' = k /\ n' = m
          /\ TypeOK /\ RefInverse /\ m \in 0..(size - 1)
      BY <1>1, <1>4 DEF Delete, SiftDown, TypeInv
    <2>2. /\ heap'[k] = heap[m] /\ heap'[m] = heap[k]
          /\ \A l \in 0..(size - 1) : l # k /\ l # m => heap'[l] = heap[l]
      <3> HIDE DEF m
      <3> QED
        BY <2>1, SwapFacts
    <2>3. \A l \in 0..(size - 1) : heap[l].expires \in Nat
      BY DEF TypeInv, TypeOK, Node
    <2>4. \A l \in 1..(m - 1) : /\ Parent(l) \in 0..(m - 1) /\ Parent(l) < l
                               /\ heap[Parent(l)].expires <= heap[l].expires
      BY <1>1, ParentFacts DEF OrderedTo, InOrder
    <2>5. ASSUME NEW l \in 1..(m - 1), l # k, Parent(l) # k
          PROVE  heap'[Parent(l)].expires <= heap'[l].expires
      BY <1>1, <2>2, <2>4, <2>5
    <2>6. ASSUME NEW l \in 1..(m - 1), Parent(l) = k, k > 0
          PROVE  heap'[Parent(k)].expires <= heap'[l].expires
      <3>1. k \in 1..(m - 1)
        BY <1>1, <1>4, <2>6
      <3>2. /\ heap'[l] = heap[l] /\ heap'[Parent(k)] = heap[Parent(k)]
        BY <1>1, <1>4, <2>2, <2>4, <2>6, <3>1
      <3>3. heap[Parent(k)].expires <= heap[k].expires /\ heap[k].expires <= heap[l].expires
        BY <2>4, <2>6, <3>1
      <3>4. /\ Parent(k) \in 0..(size - 1) /\ k \in 0..(size - 1) /\ l \in 0..(size - 1)
        BY <1>1, <2>4, <3>1
      <3> QED
        BY <2>3, <3>2, <3>3, <3>4
    <2>7. DownInv'
      <3>1. i' < Top' /\ n' = Top' /\ ~Settled'
        BY <1>1, <1>2, <1>4, <2>1 DEF Settled
      <3>2. Bridged'
        BY <1>2, <2>1, <2>6 DEF Bridged
      <3>3. \A l \in 1..(Top' - 1) : l # i' /\ Parent(l) # i' => InOrder(l)'
        BY <1>2, <2>1, <2>5 DEF InOrder
      <3> QED
        BY <3>1, <3>2, <3>3 DEF DownInv
    <2>8. NoneLater'
      BY <1>1, <2>1, <2>2 DEF NoneLater, OrderInv
    <2> QED
      BY <2>1, <2>7, <2>8 DEF OrderInv
  <1> QED
    BY <1>3, <1>4

(* A node that is restarted is due no earlier than it was. *)
LEMMA RestartOrder ==
  ASSUME TypeInv, OrderInv, NEW id \in Ids, Restart(id), op' \in {"add", "adjust"}
  PROVE  OrderInv'
  <1> DEFINE k == ref[id]
             d == now + Timeout
  <1>1. k \in 0..(size - 1) /\ size \in Nat /\ now \in Nat
    BY DEF Restart, TypeInv, TypeOK
  <1>2. /\ pc' = "siftdown" /\ i' = k /\ index' = k /\ n' = size
        /\ size' = size /\ now' = now /\ Top' = size
    BY DEF Restart, SiftDown, Top
  <1>3. /\ heap'[k].expires = d
        /\ \A l \in 0..(size - 1) : l # k => heap'[l] = heap[l]
    BY <1>1 DEF Restart, TypeInv, TypeOK, Node
  <1>4. OrderedTo(size) /\ NoneLater
    BY DEF OrderInv, Restart
  <1>5. \A l \in 0..(size - 1) : heap[l].expires \in Nat /\ heap[l].expires <= d
    BY <1>4 DEF TypeInv, TypeOK, Node, NoneLater
  <1> HIDE DEF k
  <1>6. d \in Nat
    BY <1>1, TimeAssumption
  <1>7. NoneLater'
    BY <1>2, <1>3, <1>5, <1>6 DEF NoneLater
  <1> HIDE DEF d
  <1>8. \A l \in 1..(size - 1) : /\ Parent(l) \in 0..(size - 1) /\ Parent(l) < l
                                /\ heap[Parent(l)].expires <= heap[l].expires
    BY <1>1, <1>4, ParentFacts DEF OrderedTo, InOrder
  <1>9. ASSUME NEW l \in 1..(size - 1), Parent(l) # k
        PROVE  heap'[Parent(l)].expires <= heap'[l].expires
    <2>1. heap'[Parent(l)] = heap[Parent(l)]
      BY <1>3, <1>8, <1>9
    <2>2. CASE l = k
      BY <2>1, <2>2, <1>3, <1>5, <1>8
    <2>3. CASE l # k
      BY <2>1, <2>3, <1>3, <1>8
    <2> QED
      BY <2>2, <2>3
  <1>10. ASSUME NEW l \in 1..(size - 1), Parent(l) = k, k > 0
         PROVE  heap'[Parent(k)].expires <= heap'[l].expires
    <2>1. k \in 1..(size - 1)
      BY <1>1, <1>10
    <2>2. heap'[l] = heap[l] /\ heap'[Parent(k)] = heap[Parent(k)]
      BY <1>3, <1>8, <1>10, <2>1
    <2>3. heap[Parent(k)].expires <= heap[k].expires /\ heap[k].expires <= heap[l].expires
      BY <1>8, <1>10, <2>1
    <2>4. Parent(k) \in 0..(size - 1) /\ l \in 0..(size - 1)
      BY <1>8, <2>1
    <2> QED
      BY <1>1, <1>5, <2>2, <2>3, <2>4
  <1>11. DownInv'
    <2>1. i' < Top' /\ n' = Top'
      BY <1>1, <1>2
    <2>2. Bridged'
      BY <1>2, <1>10 DEF Bridged
    <2>3. \A l \in 1..(Top' - 1) : Parent(l) # i' => InOrder(l)'
      BY <1>2, <1>9 DEF InOrder
    <2>4. i' > 0 => InOrder(i)'
      <3>1. CASE k > 0
        <4>1. k \in 1..(size - 1) /\ Parent(k) # k
          BY <1>1, <1>8, <3>1
        <4> QED
          BY <4>1, <1>2, <1>9 DEF InOrder
      <3> QED
        BY <3>1, <1>2
    <2> QED
      BY <2>1, <2>2, <2>3, <2>4 DEF DownInv
  <1> QED
    BY <1>2, <1>7, <1>11 DEF OrderInv

LEMMA AddOrder ==
  ASSUME TypeInv, OrderInv, NEW id \in Ids, AddNew(id)
  PROVE  OrderInv'
  <1>1. size \in Nat /\ now + Timeout \in Nat /\ OrderedTo(size) /\ NoneLater
    BY TimeAssumption DEF AddNew, TypeInv, TypeOK, OrderInv
  <1>2. /\ heap'[size].expires = now + Timeout
        /\ \A l \in 0..(size - 1) : heap'[l] = heap[l]
    BY <1>1 DEF AddNew
  <1>3. size' = size + 1 /\ now' = now /\ pc' = "siftup" /\ i' = size /\ Top' = size + 1
    BY DEF AddNew, Top
  <1>4. \A l \in 1..size : Parent(l) \in 0..(size - 1) /\ Parent(l) < l
    BY <1>1, ParentFacts
  <1>5. NoneLater'
    BY <1>1, <1>2, <1>3 DEF NoneLater
  <1>6. Bridged'
    BY <1>1, <1>3, <1>4 DEF Bridged
  <1>7. \A l \in 1..(Top' - 1) : l # i' => InOrder(l)'
    BY <1>1, <1>2, <1>3, <1>4 DEF OrderedTo, InOrder
  <1>8. UpInv'
    BY <1>1, <1>3, <1>6, <1>7 DEF UpInv
  <1> QED
    BY <1>3, <1>5, <1>8 DEF OrderInv

LEMMA EraseOrder ==
  ASSUME TypeInv, OrderInv, Erase
  PROVE  OrderInv'
  <1>1. /\ size \in Nat /\ size' = size - 1 /\ now' = now /\ pc' \in {"tick", "idle"}
        /\ OrderedTo(size - 1) /\ NoneLater
        /\ \A l \in 0..(size - 2) : heap'[l] = heap[l]
    BY DEF Erase, EraseBack, EraseNode, OrderInv, TypeInv, TypeOK
  <1>2. NoneLater'
    BY <1>1 DEF NoneLater
  <1>3. \A l \in 1..(size - 2) : Parent(l) \in 0..(size - 2)
    BY <1>1, ParentFacts
  <1>4. OrderedTo(size)'
    BY <1>1, <1>3 DEF OrderedTo, InOrder
  <1> QED
    BY <1>1, <1>2, <1>4 DEF OrderInv

LEMMA OrderInvNext == TypeInv /\ OrderInv /\ [Next]_vars => OrderInv'
  <1> SUFFICES ASSUME TypeInv, OrderInv, [Next]_vars PROVE OrderInv'
    OBVIOUS
  <1>1. ASSUME NEW id \in Ids, AddNew(id)
        PROVE  OrderInv'
    BY <1>1, AddOrder
  <1>2. ASSUME NEW id \in Ids, AddAgain(id) \/ Adjust(id)
        PROVE  OrderInv'
    BY <1>2, RestartOrder DEF AddAgain, Adjust
  <1>3. ASSUME NEW id \in Ids, DoWork(id)
        PROVE  OrderInv'
    <2>1. ref[id] \in 0..(size - 1) /\ Delete(ref[id], "doWork") /\ OrderedTo(size)
      BY <1>3 DEF DoWork, TypeInv, TypeOK, OrderInv
    <2> QED
      BY <2>1, DeleteOrder
  <1>4. CASE Clear
    BY <1>4 DEF Clear, OrderInv, NoneLater, OrderedTo
  <1>5. CASE SiftUpStop
    BY <1>5, UpStopOrder
  <1>6. CASE SiftUpSwap
    BY <1>6, UpSwapOrder
  <1>7. CASE SiftDownStop
    BY <1>7, DownStopOrder
  <1>8. CASE SiftDownSwap
    BY <1>8, DownSwapOrder
  <1>9. CASE SwapAborts
    BY <1>9 DEF SwapAborts, OrderInv, NoneLater
  <1>10. CASE Erase
    BY <1>10, EraseOrder
  <1>11. CASE TickExpired
    <2>1. 0 \in 0..(size - 1) /\ Delete(0, "pop") /\ OrderedTo(size)
      BY <1>11 DEF TickExpired, TypeInv, TypeOK, OrderInv
    <2> QED
      BY <2>1, DeleteOrder
  <1>12. CASE GetNextTick \/ TickDone \/ Return
    BY <1>12 DEF GetNextTick, TickDone, Return, OrderInv, NoneLater, OrderedTo, InOrder
  <1>13. CASE Advance
    <2>1. now' > now /\ now' \in Int /\ now \in Nat
      BY <1>13, TimeAssumption DEF Advance, TypeInv, TypeOK
    <2>2. \A l \in 0..(size - 1) : heap[l].expires \in Nat
      BY DEF TypeInv, TypeOK, Node
    <2>3. NoneLater'
      BY <1>13, <2>1, <2>2, TimeAssumption DEF Advance, OrderInv, NoneLater
    <2> QED
      BY <1>13, <2>3 DEF Advance, OrderInv, OrderedTo, InOrder
  <1>14. CASE UNCHANGED vars
    BY <1>14 DEF vars, OrderInv, NoneLater, OrderedTo, InOrder, UpInv, DownInv, Bridged, Top, Settled
  <1> QED
    BY <1>1, <1>2, <1>3, <1>4, <1>5, <1>6, <1>7, <1>8, <1>9, <1>10, <1>11, <1>12, <1>13, <1>14
       DEF Next

LEMMA OrderInvAlways == Spec => [](TypeInv /\ OrderInv)
  BY TypeInvInit, TypeInvNext, OrderInvInit, OrderInvNext, PTL DEF Spec

(* Between two operations no node expires before its parent. *)
THEOREM HeapOrderedAlways == Spec => []HeapOrdered
  <1>1. TypeInv /\ OrderInv => HeapOrdered
    <2> SUFFICES ASSUME TypeInv, OrderInv, pc \in {"idle", "tick", "next"},
                        NEW k \in 1..(size - 1)
                 PROVE  ~Less(k, Parent(k))
      BY DEF HeapOrdered
    <2>1. heap[Parent(k)].expires <= heap[k].expires
      BY DEF OrderInv, OrderedTo, InOrder
    <2>2. Parent(k) \in 0..(size - 1) /\ k \in 0..(size - 1)
      BY ParentFacts DEF TypeInv, TypeOK
    <2>3. heap[k].expires \in Nat /\ heap[Parent(k)].expires \in Nat
      BY <2>2 DEF TypeInv, TypeOK, Node
    <2> QED
      BY <2>1, <2>3 DEF Less
  <1> QED
    BY <1>1, OrderInvAlways, PTL

-----------------------------------------------------------------------------
(* The root is due first.                                                  *)

LEMMA LeastNat ==
  ASSUME NEW T, T \subseteq Nat, T # {}
  PROVE  \E x \in T : \A y \in T : x <= y
  <1> DEFINE R == {ss \in Nat \X Nat : ss[1] < ss[2]}
  <1>1. IsWellFoundedOn(R, Nat)
    BY NatLessThanWellFounded DEF OpToRel
  <1>2. PICK x \in T : \A y \in T : ~ (<<y, x>> \in R)
    <2> HIDE DEF R
    <2> QED
      BY <1>1, WFMin
  <1>3. \A y \in T : ~(y < x)
    BY <1>2
  <1> QED
    BY <1>3

(* The first node of those due before the root would be due before its     *)
(* parent, which is one that comes earlier.                                *)
LEMMA RootIsFirst ==
  ASSUME TypeInv, OrderedTo(size), NEW k \in 0..(size - 1)
  PROVE  heap[0].expires <= heap[k].expires
  <1> DEFINE T == {l \in 0..(size - 1) : heap[l].expires < heap[0].expires}
  <1>1. size \in Nat /\ \A l \in 0..(size - 1) : heap[l].expires \in Nat
    BY DEF TypeInv, TypeOK, Node
  <1> SUFFICES ASSUME T # {} PROVE FALSE
    BY <1>1
  <1>2. PICK l \in T : \A m \in T : l <= m
    <2>1. T \subseteq Nat
      OBVIOUS
    <2> HIDE DEF T
    <2> QED
      BY <2>1, LeastNat
  <1>3. l \in 1..(size - 1) /\ heap[l].expires < heap[0].expires
    BY <1>1, <1>2
  <1>4. Parent(l) \in 0..(size - 1) /\ Parent(l) < l
    BY <1>1, <1>3, ParentFacts
  <1>5. heap[Parent(l)].expires <= heap[l].expires
    BY <1>3 DEF OrderedTo, InOrder
  <1>6. Parent(l) \in T
    BY <1>1, <1>3, <1>4, <1>5
  <1> QED
    BY <1>2, <1>3, <1>4, <1>6

-----------------------------------------------------------------------------
(* Rounding to milliseconds keeps the order.                               *)

LEMMA DivFacts ==
  ASSUME NEW m \in Nat \ {0}, NEW a \in Nat
  PROVE  a \div m \in Nat /\ m * (a \div m) <= a /\ a < m * ((a \div m) + 1)
  OBVIOUS

LEMMA DivMono ==
  ASSUME NEW m \in Nat \ {0}, NEW a \in Nat, NEW b \in Nat, a <= b
  PROVE  a \div m <= b \div m
  <1> DEFINE p == a \div m
             q == b \div m
  <1>1. p \in Nat /\ q \in Nat /\ m * p <= a /\ b < m * (q + 1)
    BY DivFacts
  <1> HIDE DEF p, q
  <1>2. m * p < m * (q + 1)
    BY <1>1
  <1>3. p < q + 1
    <2> SUFFICES ASSUME p >= q + 1 PROVE FALSE
      BY <1>1
    <2>1. m * p >= m * (q + 1)
      BY <1>1
    <2> QED
      BY <1>1, <1>2, <2>1
  <1>4. p <= q
    BY <1>1, <1>3
  <1> QED
    BY <1>4 DEF p, q

LEMMA DivLess ==
  ASSUME NEW m \in Nat \ {0}, NEW a \in Nat
  PROVE  a \div m <= a
  <1> DEFINE p == a \div m
  <1>1. p \in Nat /\ m * p <= a
    BY DivFacts
  <1> HIDE DEF p
  <1>2. p <= m * p
    BY <1>1
  <1> QED
    BY <1>1, <1>2 DEF p

LEMMA MillisFacts ==
  ASSUME NEW a \in Int, NEW b \in Int, a <= b
  PROVE  /\ Millis(a) \in Int /\ Millis(b) \in Int
         /\ Millis(a) <= Millis(b)
         /\ a <= Millis(a) \/ a > 0
  <1> USE TimeAssumption
  <1>1. CASE a >= 0
    BY <1>1, DivFacts, DivMono DEF Millis
  <1>2. CASE a < 0 /\ b >= 0
    BY <1>2, DivFacts, DivLess DEF Millis
  <1>3. CASE b < 0
    <2>1. -b \in Nat /\ -a \in Nat /\ -b <= -a
      BY <1>3
    <2>2. (-b) \div Milli <= (-a) \div Milli /\ (-a) \div Milli <= -a
      BY <2>1, DivMono, DivLess
    <2>3. (-b) \div Milli \in Nat /\ (-a) \div Milli \in Nat
      BY <2>1, DivFacts
    <2> QED
      BY <1>3, <2>1, <2>2, <2>3 DEF Millis
  <1> QED
    BY <1>1, <1>2, <1>3

-----------------------------------------------------------------------------
(* The node that tick pops is one that has expired, and none is due before *)
(* it: it stays the last of the vector until it is erased.                 *)

PopInv ==
  op = "pop" /\ pc \in {"siftdown", "siftup", "erase"} =>
    /\ size > 0 /\ Remaining(size - 1) <= 0
    /\ \A k \in 0..(size - 1) : heap[size - 1].expires <= heap[k].expires

ClockInv == now <= MaxTime

LEMMA PopInvInit == Init => PopInv /\ ClockInv
  BY TimeAssumption DEF Init, PopInv, ClockInv

LEMMA ClockInvNext == TypeInv /\ ClockInv /\ [Next]_vars => ClockInv'
  <1> SUFFICES ASSUME TypeInv, ClockInv, [Next]_vars PROVE ClockInv'
    OBVIOUS
  <1>1. CASE Advance
    BY <1>1, TimeAssumption DEF Advance, ClockInv, TypeInv, TypeOK
  <1>2. CASE ~Advance
    <2>1. now' = now
      BY <1>2 DEF Next, vars, AddNew, AddAgain, Adjust, Restart, DoWork, Delete, Clear,
                  GetNextTick, SiftUpStop, SiftUpSwap, SwapAborts, SiftDownStop, SiftDownSwap,
                  Erase, TickExpired, TickDone, Return
    <2> QED
      BY <2>1 DEF ClockInv
  <1> QED
    BY <1>1, <1>2

(* A swap before the last node. *)
LEMMA SwapPop ==
  ASSUME TypeInv, PopInv, op = "pop", pc \in {"siftdown", "siftup"},
         NEW j \in 0..(size - 2), NEW k \in 0..(size - 2), SwapNode_(j, k),
         UNCHANGED <<size, now, pc, op>>
  PROVE  PopInv'
  <1>1. size \in Nat /\ size > 0 /\ j \in 0..(size - 1) /\ k \in 0..(size - 1)
    BY DEF PopInv, TypeInv, TypeOK
  <1>2. /\ heap'[j] = heap[k] /\ heap'[k] = heap[j]
        /\ \A l \in 0..(size - 1) : l # j /\ l # k => heap'[l] = heap[l]
    BY <1>1 DEF SwapNode_, Swapped, TypeInv, TypeOK
  <1>3. heap'[size - 1] = heap[size - 1]
    BY <1>1, <1>2
  <1>4. \A l \in 0..(size - 1) : heap[size - 1].expires <= heap'[l].expires
    BY <1>1, <1>2 DEF PopInv
  <1> QED
    BY <1>1, <1>3, <1>4 DEF PopInv, Remaining

LEMMA PopInvNext == TypeInv /\ OrderInv /\ PopInv /\ [Next]_vars => PopInv'
  <1> SUFFICES ASSUME TypeInv, OrderInv, PopInv, [Next]_vars PROVE PopInv'
    OBVIOUS
  <1>1. CASE SiftUpSwap
    <2>1. CASE op = "pop"
      <3>1. UpInv /\ i \in Nat /\ size \in Nat /\ i < size - 1 /\ pc = "siftup"
        BY <1>1, <2>1 DEF SiftUpSwap, OrderInv, UpInv, Top, TypeInv, TypeOK
      <3>2. i # 0
        BY <1>1, <3>1, RootFacts DEF SiftUpSwap, TypeInv
      <3>3. i \in 0..(size - 2) /\ Parent(i) \in 0..(size - 2)
        BY <3>1, <3>2, ParentFacts
      <3>4. SwapNode_(i, Parent(i)) /\ UNCHANGED <<size, now, pc, op>>
        BY <1>1 DEF SiftUpSwap
      <3> QED
        BY <2>1, <3>1, <3>3, <3>4, SwapPop
    <2> QED
      BY <1>1, <2>1 DEF SiftUpSwap, PopInv
  <1>2. CASE SiftDownSwap
    <2>1. CASE op = "pop"
      <3>1. DownInv /\ i \in Nat /\ size \in Nat /\ i < size - 1 /\ pc = "siftdown"
            /\ Top = size - 1
        BY <1>2, <2>1 DEF SiftDownSwap, OrderInv, DownInv, Top, TypeInv, TypeOK
      <3>2. i \in 0..(size - 2) /\ Child \in 0..(size - 2)
        BY <1>2, <3>1, FirstChild DEF SiftDownSwap, DownInv
      <3>3. SwapNode_(i, Child) /\ UNCHANGED <<size, now, pc, op>>
        BY <1>2 DEF SiftDownSwap
      <3> QED
        BY <2>1, <3>1, <3>2, <3>3, SwapPop
    <2> QED
      BY <1>2, <2>1 DEF SiftDownSwap, PopInv
  <1>3. CASE SiftUpStop \/ SiftDownStop \/ SwapAborts
    BY <1>3 DEF SiftUpStop, SiftDownStop, SwapAborts, Done, PopInv, Remaining
  <1>4. CASE TickExpired
    <2> DEFINE m == size - 1
    <2>1. /\ 0 \in 0..(size - 1) /\ size \in Nat /\ m \in 0..(size - 1)
          /\ Delete(0, "pop") /\ OrderedTo(size) /\ Remaining(0) <= 0
      BY <1>4 DEF TickExpired, TypeInv, TypeOK, OrderInv
    <2>2. size' = size /\ now' = now
      BY <2>1 DEF Delete
    <2>3. /\ heap'[m] = heap[0]
          /\ \A l \in 0..(size - 1) : \E q \in 0..(size - 1) : heap'[l] = heap[q]
      <3>1. CASE 0 < m
        <4>1. SwapNode_(0, m) /\ TypeOK /\ RefInverse
          BY <2>1, <3>1 DEF Delete, TypeInv
        <4> HIDE DEF m
        <4> QED
          BY <2>1, <4>1, SwapFacts
      <3>2. CASE ~(0 < m)
        BY <2>1, <3>2 DEF Delete
      <3> QED
        BY <3>1, <3>2
    <2>4. \A q \in 0..(size - 1) : heap[0].expires <= heap[q].expires
      BY <2>1, RootIsFirst
    <2> QED
      BY <2>1, <2>2, <2>3, <2>4 DEF PopInv, Remaining
  <1>5. ASSUME NEW id \in Ids, AddNew(id) \/ AddAgain(id) \/ Adjust(id) \/ DoWork(id)
        PROVE  PopInv'
    BY <1>5 DEF AddNew, AddAgain, Adjust, DoWork, Delete, PopInv
  <1>6. CASE Clear \/ GetNextTick \/ Erase \/ TickDone \/ Return \/ Advance
    BY <1>6 DEF Clear, GetNextTick, Erase, TickDone, Return, Advance, PopInv
  <1>7. CASE UNCHANGED vars
    BY <1>7 DEF vars, PopInv, Remaining
  <1> QED
    BY <1>1, <1>2, <1>3, <1>4, <1>5, <1>6, <1>7 DEF Next

Inv == TypeInv /\ OrderInv /\ PopInv /\ ClockInv

LEMMA InvAlways == Spec => []Inv
  BY TypeInvInit, TypeInvNext, OrderInvInit, OrderInvNext, PopInvInit, PopInvNext, ClockInvNext,
     PTL DEF Spec, Inv

(***************************************************************************)
(* The timeout that GetNextTick returns is no longer than what any timer   *)
(* has left.                                                               *)
(***************************************************************************)
THEOREM NextTickInTimeAlways == Spec => NextTickInTime
  <1>1. ASSUME Inv, [Next]_vars, pc = "next", pc' = "idle", ret' >= 0, NEW k \in 0..(size - 1)
        PROVE  ret' <= Remaining(k)
    <2>1. Return
      BY <1>1 DEF Next, vars, AddNew, AddAgain, Adjust, Restart, DoWork, Clear,
                  GetNextTick, SiftUpStop, SiftUpSwap, SwapAborts, SiftDownStop, SiftDownSwap,
                  Erase, TickExpired, TickDone, Advance
    <2>2. /\ size \in Nat /\ size > 0 /\ now \in Nat /\ now <= MaxTime
          /\ heap[0].expires \in Nat /\ heap[k].expires \in Nat
      BY <1>1 DEF Inv, TypeInv, TypeOK, Node, ClockInv
    <2>3. heap[0].expires <= heap[k].expires
      BY <1>1, RootIsFirst DEF Inv, OrderInv
    <2>4. /\ Remaining(0) \in Int /\ Remaining(k) \in Int
          /\ Remaining(0) <= Remaining(k) /\ Remaining(0) >= -MaxTime
      <3> DEFINE a == heap[0].expires - now
                 b == heap[k].expires - now
      <3>1. a \in Int /\ b \in Int /\ a <= b /\ a >= -MaxTime /\ -MaxTime \in Int
            /\ -MaxTime <= 0
        BY <2>2, <2>3, TimeAssumption
      <3> HIDE DEF a, b
      <3>2. /\ Millis(a) \in Int /\ Millis(b) \in Int /\ Millis(a) <= Millis(b)
            /\ Millis(-MaxTime) <= Millis(a) /\ Millis(-MaxTime) \in Int
            /\ -MaxTime <= Millis(-MaxTime)
        BY <3>1, MillisFacts
      <3> QED
        BY <3>1, <3>2, TimeAssumption DEF Remaining, a, b
    <2>5. ret' = AsInt(IF Res < 0 THEN 0 ELSE Res)
      BY <2>1 DEF Return
    <2>6. CASE Remaining(0) >= 0
      BY <1>1, <2>2, <2>4, <2>5, <2>6, SizeAssumption DEF Res, Wrapped, AsInt
    <2>7. CASE Remaining(0) < 0
      BY <1>1, <2>2, <2>4, <2>5, <2>7, SizeAssumption, TimeAssumption DEF Res, Wrapped, AsInt
    <2> QED
      BY <2>4, <2>6, <2>7
  <1>2. Inv /\ [Next]_vars =>
          [pc = "next" /\ pc' = "idle" /\ ret' >= 0 =>
             \A k \in 0..(size - 1) : ret' <= Remaining(k)]_vars
    BY <1>1
  <1> QED
    BY <1>2, InvAlways, PTL DEF Spec, NextTickInTime

-----------------------------------------------------------------------------
(* The heap implements TimerSet.  The loops and the moves of del_ change   *)
(* no timer.                                                               *)

LEMMA SameDue ==
  ASSUME UNCHANGED <<heap, ref>>
  PROVE  Due' = Due
  BY DEF Due

LEMMA SwapKeepsDue ==
  ASSUME TypeInv, NEW j \in 0..(size - 1), NEW k \in 0..(size - 1), SwapNode_(j, k)
  PROVE  Due' = Due
  <1>1. TypeOK /\ RefInverse
    BY DEF TypeInv
  <1>2. /\ DOMAIN ref' = DOMAIN ref
        /\ \A l \in 0..(size - 1) : ref'[heap'[l].id] = l
        /\ heap'[j] = heap[k] /\ heap'[k] = heap[j]
        /\ \A l \in 0..(size - 1) : l # j /\ l # k => heap'[l] = heap[l]
    BY <1>1, SwapFacts
  <1>3. ASSUME NEW id \in DOMAIN ref
        PROVE  heap'[ref'[id]].expires = heap[ref[id]].expires
    <2> DEFINE l == ref[id]
    <2>1. l \in 0..(size - 1) /\ heap[l].id = id
      BY DEF TypeInv, TypeOK, RefInverse
    <2> HIDE DEF l
    <2>2. CASE l = j
      BY <1>2, <2>1, <2>2 DEF l
    <2>3. CASE l = k
      BY <1>2, <2>1, <2>3 DEF l
    <2>4. CASE l # j /\ l # k
      BY <1>2, <2>1, <2>4 DEF l
    <2> QED
      BY <2>2, <2>3, <2>4
  <1> QED
    BY <1>2, <1>3 DEF Due

LEMMA DeleteKeepsDue ==
  ASSUME TypeInv, NEW k \in 0..(size - 1), NEW o, Delete(k, o)
  PROVE  Due' = Due
  <1>1. size \in Nat /\ size - 1 \in 0..(size - 1)
    BY DEF TypeInv, TypeOK
  <1>2. CASE k < size - 1
    BY <1>1, <1>2, SwapKeepsDue DEF Delete
  <1>3. CASE ~(k < size - 1)
    BY <1>3, SameDue DEF Delete
  <1> QED
    BY <1>2, <1>3

LEMMA RestartSets ==
  ASSUME TypeInv, NEW id \in Ids, Restart(id), op' \in {"add", "adjust"}
  PROVE  TS!Set(id)
  <1>1. id \in DOMAIN ref /\ ref[id] \in 0..(size - 1) /\ ref' = ref /\ now' = now
    BY DEF Restart, TypeInv, TypeOK
  <1>2. /\ heap'[ref[id]].expires = now + Timeout
        /\ \A l \in 0..(size - 1) : l # ref[id] => heap'[l] = heap[l]
    BY <1>1 DEF Restart, TypeInv, TypeOK, Node
  <1>3. ASSUME NEW f \in DOMAIN ref, f # id
        PROVE  heap'[ref[f]] = heap[ref[f]]
    <2>1. ref[f] \in 0..(size - 1) /\ ref[f] # ref[id]
      BY <1>1, <1>3 DEF TypeInv, TypeOK, RefInverse
    <2> QED
      BY <1>2, <2>1
  <1>4. Due' = [f \in DOMAIN Due \cup {id} |-> IF f = id THEN now + Timeout ELSE Due[f]]
    BY <1>1, <1>2, <1>3 DEF Due
  <1>5. Ticking = FALSE /\ Ticking' = FALSE
    BY DEF Restart, SiftDown, Ticking
  <1> QED
    BY <1>1, <1>4, <1>5 DEF TS!Set

LEMMA AddSets ==
  ASSUME TypeInv, NEW id \in Ids, AddNew(id)
  PROVE  TS!Set(id)
  <1>1. /\ id \notin DOMAIN ref /\ DOMAIN ref' = DOMAIN ref \cup {id} /\ ref'[id] = size
        /\ now' = now
        /\ \A f \in DOMAIN ref : f # id /\ ref'[f] = ref[f] /\ ref[f] \in 0..(size - 1)
    BY DEF AddNew, TypeInv, TypeOK
  <1>2. /\ heap'[size].expires = now + Timeout
        /\ \A l \in 0..(size - 1) : heap'[l] = heap[l]
    BY DEF AddNew, TypeInv, TypeOK
  <1>3. Due' = [f \in DOMAIN Due \cup {id} |-> IF f = id THEN now + Timeout ELSE Due[f]]
    BY <1>1, <1>2 DEF Due
  <1>4. Ticking = FALSE /\ Ticking' = FALSE
    BY DEF AddNew, Ticking
  <1> QED
    BY <1>1, <1>3, <1>4 DEF TS!Set

LEMMA EraseRemoves ==
  ASSUME Inv, Erase
  PROVE  \E id \in Ids : TS!Cancel(id) \/ TS!Expire(id)
  <1> DEFINE id == heap[size - 1].id
  <1>1. /\ size \in Nat /\ size - 1 \in 0..(size - 1) /\ id \in Ids
        /\ id \in DOMAIN ref /\ ref[id] = size - 1 /\ now' = now
        /\ op \in {"doWork", "pop"} /\ pc = "erase"
    BY DEF Inv, Erase, TypeInv, TypeOK, RefInverse, Node, OrderInv
  <1>2. /\ ref' = [f \in DOMAIN ref \ {id} |-> ref[f]]
        /\ \A l \in 0..(size - 2) : heap'[l] = heap[l]
    BY DEF Erase, EraseBack, EraseNode
  <1> HIDE DEF id
  <1>3. ASSUME NEW f \in DOMAIN ref \ {id}
        PROVE  heap'[ref'[f]] = heap[ref[f]]
    <2>1. ref[f] \in 0..(size - 1) /\ heap[ref[f]].id = f
      BY DEF Inv, TypeInv, TypeOK, RefInverse
    <2>2. ref[f] # size - 1
      BY <1>3, <2>1 DEF id
    <2> QED
      BY <1>1, <1>2, <2>1, <2>2
  <1>4. DOMAIN ref' = DOMAIN ref \ {id}
    BY <1>2
  <1>5. Due' = TS!Without(id)
    BY <1>3, <1>4 DEF Due, TS!Without
  <1>6. id \in DOMAIN Due /\ Due[id] = heap[size - 1].expires
    BY <1>1 DEF Due
  <1>7. CASE op = "doWork"
    <2>1. Ticking = FALSE /\ Ticking' = FALSE
      BY <1>1, <1>7 DEF Ticking, Erase
    <2>2. TS!Cancel(id)
      BY <1>1, <1>5, <1>6, <2>1 DEF TS!Cancel
    <2> QED
      BY <1>1, <2>2
  <1>8. CASE op = "pop"
    <2>1. Ticking = TRUE /\ Ticking' = TRUE
      BY <1>1, <1>8 DEF Ticking, Erase
    <2>2. /\ Remaining(size - 1) <= 0
          /\ \A l \in 0..(size - 1) : heap[size - 1].expires <= heap[l].expires
      BY <1>1, <1>8 DEF Inv, PopInv
    <2>3. TS!Expired(Due[id])
      BY <1>6, <2>2 DEF TS!Expired, TS!Millis, Remaining, Millis
    <2>4. \A f \in DOMAIN Due : Due[id] <= Due[f]
      BY <1>6, <2>2 DEF Due, Inv, TypeInv, TypeOK
    <2>5. TS!Expire(id)
      BY <1>1, <1>5, <1>6, <2>1, <2>3, <2>4 DEF TS!Expire
    <2> QED
      BY <1>1, <2>5
  <1> QED
    BY <1>1, <1>7, <1>8

(* tick ends when the root has not expired: then nothing has. *)
LEMMA TickDoneEnds ==
  ASSUME Inv, TickDone
  PROVE  TS!EndTick
  <1>1. now \in Nat /\ size \in Nat /\ OrderedTo(size) /\ TypeInv
    BY DEF Inv, TickDone, TypeInv, TypeOK, OrderInv
  <1>2. ASSUME NEW f \in DOMAIN Due
        PROVE  ~TS!Expired(Due[f])
    <2> DEFINE k == ref[f]
               a == heap[0].expires - now
               b == heap[k].expires - now
    <2>1. k \in 0..(size - 1)
      BY <1>1 DEF Due, TypeInv, TypeOK
    <2>2. a \in Int /\ b \in Int /\ a <= b
      <3>1. heap[0].expires \in Nat /\ heap[k].expires \in Nat
        <4>1. 0 \in 0..(size - 1) /\ heap \in [0..(size - 1) -> Node]
          BY <1>1, <2>1 DEF TypeInv, TypeOK
        <4> QED
          BY <2>1, <4>1 DEF Node
      <3>2. heap[0].expires <= heap[k].expires
        BY <1>1, <2>1, RootIsFirst
      <3> QED
        BY <1>1, <3>1, <3>2
    <2>3. Millis(a) > 0
      BY <1>1, <2>1 DEF TickDone, Remaining
    <2> HIDE DEF a, b
    <2>4. Millis(b) > 0
      BY <2>2, <2>3, MillisFacts
    <2> QED
      BY <2>2, <2>4, MillisFacts DEF TS!Expired, TS!Millis, Millis, Due, b
  <1>3. Ticking = TRUE /\ Ticking' = FALSE
    BY DEF TickDone, Ticking
  <1>4. Due' = Due /\ now' = now
    BY SameDue DEF TickDone
  <1> QED
    BY <1>2, <1>3, <1>4 DEF TS!EndTick

LEMMA NextIsTimerStep == Inv /\ [Next]_vars => [TS!Next]_TS!vars
  <1> SUFFICES ASSUME Inv, [Next]_vars
               PROVE  TS!Next \/ (Due' = Due /\ now' = now /\ Ticking' = Ticking)
    BY DEF TS!vars
  <1>1. TypeInv /\ OrderInv
    BY DEF Inv
  <1>2. ASSUME NEW id \in Ids, AddNew(id) \/ AddAgain(id) \/ Adjust(id)
        PROVE  TS!Set(id)
    BY <1>1, <1>2, AddSets, RestartSets DEF AddAgain, Adjust
  <1>3. ASSUME NEW id \in Ids, DoWork(id)
        PROVE  Due' = Due /\ now' = now /\ Ticking' = Ticking
    <2>1. ref[id] \in 0..(size - 1) /\ Delete(ref[id], "doWork") /\ pc = "idle"
      BY <1>1, <1>3 DEF DoWork, TypeInv, TypeOK
    <2>2. now' = now /\ Ticking = FALSE /\ Ticking' = FALSE
      BY <2>1 DEF Delete, SiftDown, Ticking
    <2> QED
      BY <1>1, <2>1, <2>2, DeleteKeepsDue
  <1>4. CASE Clear
    <2>1. Due' = [k \in {} |-> 0] /\ now' = now /\ Ticking = FALSE /\ Ticking' = FALSE
      BY <1>4 DEF Clear, Due, Ticking
    <2> QED
      BY <2>1 DEF TS!Clear, TS!Next
  <1>5. CASE GetNextTick
    <2>1. Due' = Due /\ now' = now /\ Ticking = FALSE /\ Ticking' = TRUE
      BY <1>5, SameDue DEF GetNextTick, Ticking
    <2> QED
      BY <2>1 DEF TS!BeginTick, TS!Next
  <1>6. CASE SiftUpStop \/ SwapAborts \/ SiftDownStop
    BY <1>6, SameDue DEF SiftUpStop, SwapAborts, SiftDownStop, Done, Ticking
  <1>7. CASE SiftUpSwap
    <2>1. i # 0
      BY <1>1, <1>7, RootFacts DEF SiftUpSwap, TypeInv, TypeOK
    <2>2. i \in 0..(size - 1) /\ Parent(i) \in 0..(size - 1) /\ SwapNode_(i, Parent(i))
      BY <1>1, <1>7, <2>1, ParentFacts DEF SiftUpSwap, TypeInv, TypeOK
    <2>3. Due' = Due
      BY <1>1, <2>2, SwapKeepsDue
    <2> QED
      BY <1>7, <2>3 DEF SiftUpSwap, Ticking
  <1>8. CASE SiftDownSwap
    <2>1. i \in 0..(size - 1) /\ Child \in 0..(size - 1) /\ SwapNode_(i, Child)
      BY <1>1, <1>8 DEF SiftDownSwap, TypeInv, TypeOK, Child, Left
    <2>2. Due' = Due
      BY <1>1, <2>1, SwapKeepsDue
    <2> QED
      BY <1>8, <2>2 DEF SiftDownSwap, Ticking
  <1>9. CASE Erase
    BY <1>9, EraseRemoves DEF TS!Next
  <1>10. CASE TickExpired
    <2>1. 0 \in 0..(size - 1) /\ Delete(0, "pop") /\ pc = "tick"
      BY <1>1, <1>10 DEF TickExpired, TypeInv, TypeOK
    <2> QED
      BY <1>1, <2>1, DeleteKeepsDue DEF Delete, SiftDown, Ticking
  <1>11. CASE TickDone
    BY <1>11, TickDoneEnds DEF TS!Next
  <1>12. CASE Return
    BY <1>12, SameDue DEF Return, Ticking
  <1>13. CASE Advance
    <2>1. now' \in Nat /\ now' > now
      BY <1>1, <1>13, TimeAssumption DEF Advance, TypeInv, TypeOK
    <2>2. Due' = Due /\ Ticking' = Ticking
      BY <1>13, SameDue DEF Advance, Ticking
    <2> QED
      BY <2>1, <2>2 DEF TS!Advance, TS!Next
  <1>14. CASE UNCHANGED vars
    BY <1>14, SameDue DEF vars, Ticking
  <1> QED
    BY <1>2, <1>3, <1>4, <1>5, <1>6, <1>7, <1>8, <1>9, <1>10, <1>11, <1>12, <1>13, <1>14
       DEF Next, TS!Next

(***************************************************************************)
(* The heap is a TimerSet: a tick expires the timers in the order in which *)
(* they are due, none early, and leaves none that has expired.             *)
(***************************************************************************)
THEOREM HeapTimerImplements == Spec => ImplementsTimerSet
  <1>1. Init => TS!Init
    BY DEF Init, TS!Init, Due, Ticking
  <1>2. Inv /\ [Next]_vars => [TS!Next]_TS!vars
    BY NextIsTimerStep
  <1> QED
    BY <1>1, <1>2, InvAlways, PTL DEF Spec, ImplementsTimerSet, TS!Spec
=============================================================================
