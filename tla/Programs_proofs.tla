---------------------------- MODULE Programs_proofs ----------------------------
(***************************************************************************)
(* Proofs about Programs: each of the programs run there keeps its part of *)
(* what is checked of them, for every value of the constants that their    *)
(* assumptions admit.  In order: the user accounts; the list of timers and *)
(* its copy; the course programs on children, threads and locks, fifos,    *)
(* and slots; the course servers; the copy of the C-style server; the      *)
(* C-style server itself, whose proof is that of CServer_proofs.           *)
(***************************************************************************)
EXTENDS Programs, FiniteSetTheorems, SequenceTheorems, WellFoundedInduction, TLAPS

(* A set of numbers has a least one.                                       *)
LEMMA LeastOf ==
  ASSUME NEW S, S \subseteq Nat, S # {}
  PROVE  \E x \in S : \A y \in S : x <= y
  <1> DEFINE R == {ss \in Nat \X Nat : ss[1] < ss[2]}
  <1>1. IsWellFoundedOn(R, Nat)
    BY NatLessThanWellFounded DEF OpToRel
  <1>2. PICK x \in S : \A y \in S : ~ (<<y, x>> \in R)
    <2> HIDE DEF R
    <2> QED
      BY <1>1, WFMin
  <1>3. \A y \in S : ~ (y < x)
    BY <1>2
  <1>4. \A y \in S : x <= y
    BY <1>3
  <1> QED
    BY <1>4

-----------------------------------------------------------------------------
(* Accounts: what the table and the answers say agrees.                    *)

(* Where each worker is in UserVerify, with what call and what answer.     *)
AccountsType ==
  /\ uAt \in [Workers -> {"idle", "select", "insert", "return"}]
  /\ call \in [Workers -> [name : Names \cup {""}, pwd : Passwords \cup {""},
                           isLogin : BOOLEAN, owed : BOOLEAN]]
  /\ flag \in [Workers -> BOOLEAN]
  /\ user \subseteq (Names \cup {""}) \X (Passwords \cup {""})

(* A name has one row, or was registered by two workers together.          *)
RowsUnique == \A r, s \in user : r[1] = s[1] => r = s \/ r[1] \in together

(* Who is about to INSERT found no row of the name, and any row or other   *)
(* INSERT of it since makes the two a pair that registers together.        *)
Registers(w) ==
  /\ ~call[w].isLogin
  /\ \A r \in user : r[1] = call[w].name => r[1] \in together
  /\ \A v \in Workers : uAt[v] = "insert" /\ v # w /\ call[v].name = call[w].name
                          => call[w].name \in together

(* What is answered is true of the table.                                  *)
Returns(w) ==
  /\ flag[w] => Users!Row(w) \in user \/ (~call[w].isLogin /\ Users!Row(w) \in lost)
  /\ call[w].isLogin /\ call[w].owed => flag[w] \/ call[w].name \in together
Asks(w) == flag[w] = ~call[w].isLogin

AccountKept(w) ==
  /\ uAt[w] \in {"select", "insert"} => ~call[w].owed
  /\ uAt[w] = "select" => Asks(w)
  /\ uAt[w] = "insert" => Registers(w)
  /\ uAt[w] = "return" => Returns(w)

AccountsInv == AccountsType /\ RowsUnique /\ \A w \in Workers : AccountKept(w)

LEMMA AccountsInit == Users!Init => AccountsInv
  <1> SUFFICES ASSUME Users!Init PROVE AccountsInv OBVIOUS
  <1>1. uAt \in [Workers -> {"idle", "select", "insert", "return"}]
    BY DEF Users!Init
  <1>2. call \in [Workers -> [name : Names \cup {""}, pwd : Passwords \cup {""},
                           isLogin : BOOLEAN, owed : BOOLEAN]]
    BY DEF Users!Init, Users!NoCall
  <1>3. flag \in [Workers -> BOOLEAN] /\ user = {}
    BY DEF Users!Init
  <1>4. AccountsType /\ RowsUnique
    BY <1>1, <1>2, <1>3 DEF AccountsType, RowsUnique
  <1>5. \A w \in Workers : uAt[w] = "idle"
    BY DEF Users!Init
  <1> QED
    BY <1>4, <1>5 DEF AccountsInv, AccountKept

(* A step of w leaves the other workers alone, adds only, and a row or a   *)
(* registration of a name that another worker is to register counts as     *)
(* together.                                                               *)
StepOf(w) ==
  /\ \A v \in Workers \ {w} : uAt'[v] = uAt[v] /\ call'[v] = call[v] /\ flag'[v] = flag[v]
  /\ user \subseteq user' /\ lost \subseteq lost' /\ together \subseteq together'
  /\ \A v \in Workers \ {w} : uAt[v] = "insert" =>
       /\ \A r \in user' \ user : r[1] = call[v].name => r[1] \in together'
       /\ uAt'[w] = "insert" /\ call'[w].name = call[v].name => call[v].name \in together'

(* What is true of a worker stays true when another one takes a step.      *)
LEMMA OthersKeep ==
  ASSUME NEW w \in Workers, NEW v \in Workers, v # w, StepOf(w), AccountKept(v)
  PROVE  AccountKept(v)'
  <1>1. uAt'[v] = uAt[v] /\ call'[v] = call[v] /\ flag'[v] = flag[v]
    BY DEF StepOf
  <1>2. Users!Row(v)' = Users!Row(v)
    BY <1>1 DEF Users!Row
  <1>3. user \subseteq user' /\ lost \subseteq lost' /\ together \subseteq together'
    BY DEF StepOf
  <1>4. Asks(v) => Asks(v)'
    BY <1>1 DEF Asks
  <1>5. Returns(v) => Returns(v)'
    BY <1>1, <1>2, <1>3 DEF Returns
  <1>6. ASSUME uAt[v] = "insert", Registers(v) PROVE Registers(v)'
    <2>1. \A r \in user' : r[1] = call[v].name => r[1] \in together'
      BY <1>3, <1>6 DEF Registers, StepOf
    <2>2. \A u \in Workers : uAt'[u] = "insert" /\ u # v /\ call'[u].name = call[v].name
                               => call[v].name \in together'
      BY <1>3, <1>6 DEF Registers, StepOf
    <2> QED
      BY <1>1, <1>6, <2>1, <2>2 DEF Registers
  <1> QED
    BY <1>1, <1>4, <1>5, <1>6 DEF AccountKept

LEMMA StepKeeps ==
  ASSUME AccountsInv, NEW w \in Workers, StepOf(w), AccountsType', RowsUnique', AccountKept(w)'
  PROVE  AccountsInv'
  <1>1. \A v \in Workers : AccountKept(v)
    BY DEF AccountsInv
  <1>2. \A v \in Workers : AccountKept(v)'
    BY <1>1, OthersKeep
  <1> QED
    BY <1>2 DEF AccountsInv

LEMMA VerifyKeeps ==
  ASSUME AccountsInv, NEW w \in Workers, Users!UserVerify(w)
  PROVE  AccountsInv'
  <1>1. PICK name \in Names \cup {""}, pwd \in Passwords \cup {""}, isLogin \in BOOLEAN :
          /\ call' = [call EXCEPT ![w] = [name |-> name, pwd |-> pwd, isLogin |-> isLogin,
                                          owed |-> FALSE]]
          /\ IF name = "" \/ pwd = ""
             THEN uAt' = [uAt EXCEPT ![w] = "return"] /\ flag' = [flag EXCEPT ![w] = FALSE]
             ELSE uAt' = [uAt EXCEPT ![w] = "select"] /\ flag' = [flag EXCEPT ![w] = ~isLogin]
    BY DEF Users!UserVerify
  <1>2. uAt[w] = "idle" /\ UNCHANGED <<user, together, lost>>
    BY DEF Users!UserVerify
  <1>3. AccountsType'
    BY <1>1, <1>2 DEF AccountsInv, AccountsType
  <1>4. RowsUnique'
    BY <1>2 DEF AccountsInv, RowsUnique
  <1>5. StepOf(w)
    BY <1>1, <1>2 DEF AccountsInv, AccountsType, StepOf
  <1>6. AccountKept(w)'
    BY <1>1 DEF AccountsInv, AccountsType, AccountKept, Asks, Returns
  <1> QED
    BY <1>3, <1>4, <1>5, <1>6, StepKeeps

LEMMA InsertKeeps ==
  ASSUME AccountsInv, NEW w \in Workers, Users!Insert(w)
  PROVE  AccountsInv'
  <1>1. /\ uAt[w] = "insert" /\ uAt' = [uAt EXCEPT ![w] = "return"]
        /\ flag' = [flag EXCEPT ![w] = TRUE]
        /\ \/ user' = user \cup {Users!Row(w)} /\ UNCHANGED lost
           \/ lost' = lost \cup {Users!Row(w)} /\ UNCHANGED user
        /\ UNCHANGED <<call, calls, together>>
    BY DEF Users!Insert
  <1>2. Registers(w)
    BY <1>1 DEF AccountsInv, AccountKept
  <1>3. Users!Row(w) \in (Names \cup {""}) \X (Passwords \cup {""}) /\ Users!Row(w)[1] = call[w].name
    BY DEF AccountsInv, AccountsType, Users!Row
  <1>4. AccountsType'
    BY <1>1, <1>3 DEF AccountsInv, AccountsType
  <1>5. RowsUnique'
    BY <1>1, <1>2, <1>3 DEF AccountsInv, RowsUnique, Registers
  <1>6. StepOf(w)
    <2>1. \A v \in Workers \ {w} : uAt'[v] = uAt[v] /\ call'[v] = call[v] /\ flag'[v] = flag[v]
      BY <1>1 DEF AccountsInv, AccountsType
    <2>2. uAt'[w] = "return"
      BY <1>1 DEF AccountsInv, AccountsType
    <2>3. \A v \in Workers \ {w} : uAt[v] = "insert" /\ call[w].name = call[v].name => call[v].name \in together
      BY <1>2 DEF Registers
    <2> QED
      BY <1>1, <1>3, <2>1, <2>2, <2>3 DEF StepOf
  <1>7. AccountKept(w)'
    <2>1. uAt'[w] = "return" /\ flag'[w] = TRUE
      BY <1>1 DEF AccountsInv, AccountsType
    <2>2. Users!Row(w)' = Users!Row(w)
      BY <1>1 DEF Users!Row
    <2> QED
      BY <1>1, <1>2, <2>1, <2>2 DEF AccountKept, Returns, Registers
  <1> QED
    BY <1>4, <1>5, <1>6, <1>7, StepKeeps

LEMMA ReturnKeeps ==
  ASSUME AccountsInv, NEW w \in Workers, Users!Return(w)
  PROVE  AccountsInv'
  <1>1. /\ uAt' = [uAt EXCEPT ![w] = "idle"]
        /\ call' = [call EXCEPT ![w] = Users!NoCall] /\ flag' = [flag EXCEPT ![w] = FALSE]
        /\ UNCHANGED <<user, together, lost>>
    BY DEF Users!Return
  <1>2. Users!NoCall \in [name : Names \cup {""}, pwd : Passwords \cup {""},
                          isLogin : BOOLEAN, owed : BOOLEAN]
    BY DEF Users!NoCall
  <1>3. AccountsType'
    BY <1>1, <1>2 DEF AccountsInv, AccountsType
  <1>4. RowsUnique'
    BY <1>1 DEF AccountsInv, RowsUnique
  <1>5. StepOf(w)
    BY <1>1 DEF AccountsInv, AccountsType, StepOf
  <1>6. AccountKept(w)'
    BY <1>1 DEF AccountsInv, AccountsType, AccountKept
  <1> QED
    BY <1>3, <1>4, <1>5, <1>6, StepKeeps

(* A row is a name and a password.                                         *)
LEMMA PairIs == ASSUME NEW A, NEW B, NEW r \in A \X B PROVE r = <<r[1], r[2]>>
  OBVIOUS

(* The SELECT of a login compares passwords; that of a registration looks  *)
(* for the name.                                                           *)
LEMMA SelectKeeps ==
  ASSUME AccountsInv, NEW w \in Workers, Users!Select(w)
  PROVE  AccountsInv'
  <1> DEFINE rows == {r \in user : r[1] = call[w].name}
             missing == /\ uAt' = [uAt EXCEPT ![w] = "return"]
                        /\ flag' = [flag EXCEPT ![w] = FALSE]
                        /\ UNCHANGED <<call, together>>
             none == /\ rows = {} /\ UNCHANGED <<flag, call>>
                     /\ uAt' = [uAt EXCEPT ![w] = IF flag[w] THEN "insert" ELSE "return"]
                     /\ together' = IF flag[w] /\ Users!Others(w) # {}
                                    THEN together \cup {call[w].name} ELSE together
             found == /\ uAt' = [uAt EXCEPT ![w] = "return"] /\ UNCHANGED together
                      /\ call' = [call EXCEPT ![w].owed = Users!Row(w) \in user]
                      /\ \E r \in rows :
                           flag' = [flag EXCEPT ![w] = call[w].isLogin /\ call[w].pwd = r[2]]
  <1>1. uAt[w] = "select" /\ UNCHANGED <<user, calls, lost>> /\ (missing \/ none \/ found)
    BY DEF Users!Select
  <1>2. AccountsType /\ RowsUnique /\ Asks(w) /\ ~call[w].owed
    BY <1>1 DEF AccountsInv, AccountKept
  <1>3. CASE missing
    <2>1. AccountsType'
      BY <1>1, <1>2, <1>3 DEF AccountsType
    <2>2. RowsUnique'
      BY <1>1, <1>2, <1>3 DEF RowsUnique
    <2>3. StepOf(w)
      BY <1>1, <1>2, <1>3 DEF AccountsType, StepOf
    <2>4. AccountKept(w)'
      BY <1>1, <1>2, <1>3 DEF AccountsType, AccountKept, Returns
    <2> QED
      BY <2>1, <2>2, <2>3, <2>4, StepKeeps
  <1>4. CASE none
    <2>1. uAt'[w] = IF flag[w] THEN "insert" ELSE "return"
      BY <1>2, <1>4 DEF AccountsType
    <2>2. together \subseteq together'
      BY <1>4
    <2>3. AccountsType'
      BY <1>1, <1>2, <1>4 DEF AccountsType
    <2>4. RowsUnique'
      BY <1>1, <1>2, <2>2 DEF RowsUnique
    <2>5. \A v \in Workers \ {w} :
            uAt[v] = "insert" /\ call[v].name = call[w].name /\ flag[w] => call[w].name \in together'
      BY <1>4 DEF Users!Others
    <2>6. \A v \in Workers \ {w} : uAt'[v] = uAt[v] /\ call'[v] = call[v] /\ flag'[v] = flag[v]
      BY <1>2, <1>4 DEF AccountsType
    <2>7. StepOf(w)
      BY <1>1, <1>4, <2>1, <2>2, <2>5, <2>6 DEF StepOf
    <2>8. AccountKept(w)'
      <3>1. flag'[w] = flag[w] /\ call'[w] = call[w]
        BY <1>4
      <3>2. CASE flag[w]
        <4>1. uAt'[w] = "insert" /\ ~call[w].isLogin
          BY <1>2, <2>1, <3>2 DEF Asks
        <4>2. \A r \in user' : r[1] # call[w].name
          BY <1>1, <1>4
        <4>3. Registers(w)'
          BY <3>1, <3>2, <4>1, <4>2, <2>5, <2>6 DEF Registers
        <4> QED
          BY <1>2, <3>1, <4>1, <4>3 DEF AccountKept
      <3>3. CASE ~flag[w]
        <4>1. uAt'[w] = "return"
          BY <2>1, <3>3
        <4> QED
          BY <1>2, <3>1, <3>3, <4>1 DEF AccountKept, Returns
      <3> QED
        BY <3>2, <3>3
    <2> QED
      BY <2>3, <2>4, <2>7, <2>8, StepKeeps
  <1>5. CASE found
    <2>1. PICK r \in rows : flag' = [flag EXCEPT ![w] = call[w].isLogin /\ call[w].pwd = r[2]]
      BY <1>5
    <2>2. \/ Users!Row(w) \in user /\ call' = [call EXCEPT ![w].owed = TRUE]
          \/ Users!Row(w) \notin user /\ call' = [call EXCEPT ![w].owed = FALSE]
      <3>1. CASE Users!Row(w) \in user
        <4>1. (Users!Row(w) \in user) = TRUE
          BY <3>1
        <4> QED
          BY <1>5, <3>1, <4>1, Zenon
      <3>2. CASE Users!Row(w) \notin user
        <4>1. (Users!Row(w) \in user) = FALSE
          BY <3>2
        <4> QED
          BY <1>5, <3>2, <4>1, Zenon
      <3> QED
        BY <3>1, <3>2
    <2>3. LET match == call[w].isLogin /\ call[w].pwd = r[2] IN
          \/ match /\ flag' = [flag EXCEPT ![w] = TRUE]
          \/ ~match /\ flag' = [flag EXCEPT ![w] = FALSE]
      <3> DEFINE match == call[w].isLogin /\ call[w].pwd = r[2]
      <3>1. CASE match
        <4>1. match = TRUE
          BY <3>1
        <4> QED
          BY <2>1, <3>1, <4>1, Zenon
      <3>2. CASE ~match
        <4>1. match = FALSE
          BY <3>2
        <4> QED
          BY <2>1, <3>2, <4>1, Zenon
      <3> QED
        BY <3>1, <3>2
    <2>6. uAt' = [uAt EXCEPT ![w] = "return"] /\ UNCHANGED together
      BY <1>5
    <2>7. r \in user /\ r[1] = call[w].name
      OBVIOUS
    <2> HIDE DEF rows, found, none, missing
    <2>8. AccountsType'
      <3>1. call' \in [Workers -> [name : Names \cup {""}, pwd : Passwords \cup {""},
                                   isLogin : BOOLEAN, owed : BOOLEAN]]
        <4>1. CASE call' = [call EXCEPT ![w].owed = TRUE]
          BY <1>2, <4>1 DEF AccountsType
        <4>2. CASE call' = [call EXCEPT ![w].owed = FALSE]
          BY <1>2, <4>2 DEF AccountsType
        <4> QED
          BY <2>2, <4>1, <4>2
      <3>2. flag' \in [Workers -> BOOLEAN]
        BY <1>2, <2>3 DEF AccountsType
      <3> QED
        BY <1>1, <1>2, <2>6, <3>1, <3>2 DEF AccountsType
    <2>9. RowsUnique'
      BY <1>1, <1>2, <2>6 DEF RowsUnique
    <2>10. /\ uAt'[w] = "return"
           /\ flag'[w] <=> call[w].isLogin /\ call[w].pwd = r[2]
           /\ call'[w].owed <=> Users!Row(w) \in user
           /\ call'[w].isLogin = call[w].isLogin
           /\ call'[w].name = call[w].name /\ call'[w].pwd = call[w].pwd
      <3>1. uAt'[w] = "return"
        BY <1>2, <2>6 DEF AccountsType
      <3>2. flag'[w] <=> call[w].isLogin /\ call[w].pwd = r[2]
        <4>1. \A x : flag' = [flag EXCEPT ![w] = x] => flag'[w] = x
          BY <1>2 DEF AccountsType
        <4> QED
          BY <2>3, <4>1
      <3>3. \A x : call' = [call EXCEPT ![w].owed = x] =>
              /\ call'[w].owed = x
              /\ call'[w].isLogin = call[w].isLogin
              /\ call'[w].name = call[w].name /\ call'[w].pwd = call[w].pwd
        BY <1>2 DEF AccountsType
      <3>4. /\ call'[w].isLogin = call[w].isLogin
            /\ call'[w].name = call[w].name /\ call'[w].pwd = call[w].pwd
        BY <2>2, <3>3
      <3>5. call'[w].owed <=> Users!Row(w) \in user
        BY <2>2, <3>3
      <3> QED
        BY <3>1, <3>2, <3>4, <3>5
    <2>11. StepOf(w)
      <3>1. \A v \in Workers \ {w} : uAt'[v] = uAt[v] /\ call'[v] = call[v] /\ flag'[v] = flag[v]
        BY <1>2, <2>2, <2>3, <2>6 DEF AccountsType
      <3> QED
        BY <1>1, <2>6, <2>10, <3>1 DEF StepOf
    <2>12. r = <<call[w].name, r[2]>>
      <3>1. r \in (Names \cup {""}) \X (Passwords \cup {""})
        BY <1>2, <2>7 DEF AccountsType
      <3>2. r = <<r[1], r[2]>>
        BY <3>1, PairIs, Zenon
      <3> QED
        BY <2>7, <3>2
    <2>13. Users!Row(w)' = Users!Row(w) /\ Users!Row(w)[1] = call[w].name
      BY <2>10 DEF Users!Row
    <2>14. r[2] = call[w].pwd => r = Users!Row(w)
      BY <2>12 DEF Users!Row
    <2>15. flag'[w] => Users!Row(w) \in user
      BY <2>7, <2>10, <2>14
    <2>16. call'[w].isLogin /\ call'[w].owed => flag'[w] \/ call[w].name \in together
      <3>1. Users!Row(w) \in user => r = Users!Row(w) \/ call[w].name \in together
        BY <1>2, <2>7, <2>13 DEF RowsUnique
      <3>2. r = Users!Row(w) => r[2] = call[w].pwd
        BY DEF Users!Row
      <3> QED
        BY <2>10, <3>1, <3>2
    <2>17. Returns(w)'
      BY <1>1, <2>6, <2>10, <2>13, <2>15, <2>16 DEF Returns
    <2> QED
      BY <2>8, <2>9, <2>10, <2>11, <2>17, StepKeeps DEF AccountKept
  <1> QED
    BY <1>1, <1>3, <1>4, <1>5

(* A step of Programs is a step of this one, or none.                      *)
LEMMA AccountsStep == [Next]_vars => [Users!Next]_accountVars
  BY DEF Next, vars, courseVars, ConnOnly, ServerOnly, TimersOnly, CourseOnly, ReapingOnly,
     LastOnly

LEMMA AccountsNext == AccountsInv /\ [Users!Next]_accountVars => AccountsInv'
  <1> SUFFICES ASSUME AccountsInv, [Users!Next]_accountVars PROVE AccountsInv'
    OBVIOUS
  <1>1. CASE UNCHANGED accountVars
    BY <1>1 DEF accountVars, AccountsInv, AccountsType, RowsUnique, AccountKept, Asks,
       Registers, Returns, Users!Row
  <1> QED
    BY <1>1, VerifyKeeps, SelectKeeps, InsertKeeps, ReturnKeeps DEF Users!Next

(* AccountsKept always holds: a name has one password unless two           *)
(* registrations of it overlapped between SELECT and INSERT, and what      *)
(* UserVerify answers agrees with the table (httprequest.cpp).             *)
THEOREM AccountsKeptAlways == FairSpec => []AccountsKept
  <1>1. Init => AccountsInv
    BY AccountsInit DEF Init
  <1>2. AccountsInv => AccountsKept
    BY DEF AccountsInv, AccountsKept, Users!AccountsKept, RowsUnique, AccountKept, Returns
  <1> QED
    BY <1>1, <1>2, AccountsStep, AccountsNext, PTL DEF FairSpec

-----------------------------------------------------------------------------
(* TimerList and LessonTimers: the list as a sequence of nodes.            *)

(* The instances of TimerList count as FiniteSets does.                    *)
LEMMA TimersCardinality ==
  \A S : /\ Timers!Cardinality(S) = Cardinality(S)
         /\ Lists!Cardinality(S) = Cardinality(S)
         /\ Lists!Site!Cardinality(S) = Cardinality(S)
  BY DEF Cardinality, Timers!Cardinality, Lists!Cardinality, Lists!Site!Cardinality

(* A list has no more nodes than there are descriptors.                    *)
Longest == Cardinality(tDescriptors)

LEMMA LongestIs == Longest \in Nat
  BY TimersAssumption, FS_CardinalityType DEF Longest

(* The nodes that follow one are what w says when w follows the links.     *)
Follows(w, l, node) ==
  w = [m \in 0..Longest |-> IF m = 0 THEN node ELSE IF w[m - 1] = 0 THEN 0 ELSE l.next[w[m - 1]]]

(* There is one such w: the least place at which two of them differed would *)
(* follow a place at which they agree.                                     *)
LEMMA FollowsOnce ==
  ASSUME NEW l, NEW node, NEW v, NEW w, Follows(v, l, node), Follows(w, l, node)
  PROVE  v = w
  <1> DEFINE S == {m \in 0..Longest : v[m] # w[m]}
  <1>0. \A m \in 0..Longest :
          /\ v[m] = IF m = 0 THEN node ELSE IF v[m - 1] = 0 THEN 0 ELSE l.next[v[m - 1]]
          /\ w[m] = IF m = 0 THEN node ELSE IF w[m - 1] = 0 THEN 0 ELSE l.next[w[m - 1]]
    BY DEF Follows
  <1>1. CASE S = {}
    <2>1. \A m \in 0..Longest : v[m] = w[m]
      BY <1>1
    <2> DEFINE F(h) == [m \in 0..Longest |-> h[m]]
    <2>2. v = F(v) /\ w = F(w)
      BY DEF Follows
    <2>3. F(v) = F(w)
      BY <2>1
    <2> QED
      BY <2>2, <2>3
  <1>2. CASE S # {}
    <2>0. S \subseteq Nat
      BY LongestIs
    <2> HIDE DEF S
    <2>1. PICK m \in S : \A k \in S : m <= k
      BY <1>2, <2>0, LeastOf
    <2>2. m \in 0..Longest /\ v[m] # w[m]
      BY DEF S
    <2>3. m # 0
      BY <1>0, <2>2
    <2>4. m - 1 \in 0..Longest /\ m - 1 \notin S
      BY <2>1, <2>2, <2>3, LongestIs
    <2>5. v[m - 1] = w[m - 1]
      BY <2>4 DEF S
    <2> QED
      BY <1>0, <2>2, <2>3, <2>5
  <1> QED
    BY <1>1, <1>2

(* After is it.                                                            *)
LEMMA AfterIs ==
  ASSUME NEW l, NEW node, NEW w, Follows(w, l, node)
  PROVE  Timers!After(l, node) = w /\ Lists!Site!After(l, node) = w
  <1>1. \A v : Follows(v, l, node) => v = w
    BY FollowsOnce
  <1>2. Timers!After(l, node) = CHOOSE v : Follows(v, l, node)
    BY TimersCardinality DEF Timers!After, Follows, Longest, Timers!NULL
  <1>3. Lists!Site!After(l, node) = CHOOSE v : Follows(v, l, node)
    BY TimersCardinality DEF Lists!Site!After, Follows, Longest, Lists!Site!NULL
  <1> QED
    BY <1>1, <1>2, <1>3

(* n different nodes are n.                                                *)
LEMMA ManyAre ==
  ASSUME NEW n \in Nat, NEW s \in [1..n -> tDescriptors], \A a, b \in 1..n : s[a] = s[b] => a = b
  PROVE  IsFiniteSet({s[j] : j \in 1..n}) /\ Cardinality({s[j] : j \in 1..n}) = n
  <1> DEFINE T == {s[j] : j \in 1..n}
  <1>1. s \in Bijection(1..n, T)
    BY DEF Bijection, Injection, Surjection, IsInjective
  <1>2. ExistsBijection(1..n, T)
    BY <1>1 DEF ExistsBijection
  <1>3. IsFiniteSet(1..n) /\ Cardinality(1..n) = n
    BY FS_Interval
  <1> HIDE DEF T
  <1>4. IsFiniteSet(T) /\ Cardinality(T) = n
    BY <1>2, <1>3, FS_Bijection
  <1> QED
    BY <1>4 DEF T

(* The n nodes s follow each other, and none follows the last.             *)
Chain(l, n, s) ==
  /\ \A a \in 1..n - 1 : l.next[s[a]] = s[a + 1]
  /\ n > 0 => l.next[s[n]] = 0

(* The nodes s, and NULL from there on.                                    *)
Along(n, s) == [m \in 0..Longest |-> IF m < n THEN s[m + 1] ELSE 0]

(* Following the links of a chain gives its nodes.                         *)
LEMMA ChainFollows ==
  ASSUME NEW l, NEW n \in Nat, NEW s \in [1..n -> tDescriptors], Chain(l, n, s),
         NEW node, node = IF n = 0 THEN 0 ELSE s[1]
  PROVE  /\ Follows(Along(n, s), l, node)
         /\ Timers!After(l, node) = Along(n, s)
         /\ Lists!Site!After(l, node) = Along(n, s)
  <1> DEFINE w == Along(n, s)
  <1>0. \A m \in 0..Longest : w[m] = IF m < n THEN s[m + 1] ELSE 0
    BY DEF Along
  <1>1. ASSUME NEW m \in 0..Longest
        PROVE  w[m] = IF m = 0 THEN node ELSE IF w[m - 1] = 0 THEN 0 ELSE l.next[w[m - 1]]
    <2>1. CASE m = 0
      BY <1>0, <2>1
    <2>2. CASE m # 0
      <3>1. m \in Nat /\ m - 1 \in 0..Longest
        BY <2>2, LongestIs
      <3>2. CASE m - 1 < n
        <4>1. w[m - 1] = s[m] /\ m \in 1..n /\ s[m] \in tDescriptors
          BY <1>0, <3>1, <3>2, <2>2
        <4>2. s[m] # 0
          BY <4>1, TimersAssumption
        <4>3. CASE m < n
          BY <1>0, <2>2, <3>1, <4>1, <4>2, <4>3 DEF Chain
        <4>4. CASE m = n
          BY <1>0, <2>2, <4>1, <4>2, <4>4 DEF Chain
        <4> QED
          BY <3>1, <3>2, <4>3, <4>4
      <3>3. CASE ~(m - 1 < n)
        BY <1>0, <2>2, <3>1, <3>3
      <3> QED
        BY <3>2, <3>3
    <2> QED
      BY <2>1, <2>2
  <1>2. Follows(w, l, node)
    <2>1. w = [m \in 0..Longest |-> w[m]]
      BY DEF Along
    <2> HIDE DEF w
    <2> QED
      BY <1>1, <2>1 DEF Follows
  <1> QED
    BY <1>2, AfterIs

(* The list l with timer behind the one that was last.                     *)
Last(l, timer, last) ==
  [l EXCEPT !.next = [@ EXCEPT ![last] = timer, ![timer] = 0],
            !.prev = [@ EXCEPT ![timer] = last], !.tail = timer]

(* A timer that expires as late as any goes behind the last one.           *)
LEMMA InsertsLast ==
  ASSUME NEW l, NEW n \in Nat, n > 0, n <= Longest, NEW s \in [1..n -> tDescriptors], Chain(l, n, s),
         NEW timer, l.expire[timer] = tSlots, \A a \in 1..n : l.expire[s[a]] \in 0..tSlots
  PROVE  /\ Timers!insert_timer(l, timer, s[1]) = Last(l, timer, s[n])
         /\ Lists!insert_timer(l, timer, s[1]) = Last(l, timer, s[n])
         /\ ~Lists!Endless(l, timer, s[1])
  <1> DEFINE w == Along(n, s)
             Here(m) == w[m] = 0 \/ l.expire[timer] < l.expire[w[m]]
  <1>0. \A m \in 0..Longest : w[m] = IF m < n THEN s[m + 1] ELSE 0
    BY DEF Along
  <1>1. Timers!After(l, s[1]) = w /\ Lists!Site!After(l, s[1]) = w
    BY ChainFollows
  <1>2. n \in 1..Longest /\ w[n] = 0 /\ w[n - 1] = s[n] /\ Longest \in Nat
    BY <1>0, LongestIs
  <1>3. Here(n)
    BY <1>2
  <1>4. ASSUME NEW m \in 1..n - 1 PROVE ~Here(m)
    <2>1. m \in 0..Longest /\ m + 1 \in 1..n /\ w[m] = s[m + 1]
      BY <1>0, <1>2
    <2>2. s[m + 1] # 0
      BY <2>1, TimersAssumption
    <2>3. l.expire[s[m + 1]] <= tSlots
      BY <2>1, TimersAssumption
    <2> QED
      BY <2>1, <2>2, <2>3, TimersAssumption
  <1> HIDE DEF w
  <1>5. ASSUME NEW m \in 1..Longest, Here(m), \A k \in 1..m - 1 : ~Here(k)
        PROVE  m = n
    <2>1. ~(m < n)
      BY <1>2, <1>4, <1>5
    <2>2. ~(n < m)
      BY <1>2, <1>3, <1>5
    <2> QED
      BY <1>2, <2>1, <2>2
  <1>7. Timers!insert_timer(l, timer, s[1]) = Last(l, timer, s[n])
    <2> DEFINE nth == Timers!After(l, s[1])
               There(m) == nth[m] = Timers!NULL \/ l.expire[timer] < l.expire[nth[m]]
               place == CHOOSE m \in 1..Timers!Cardinality(tDescriptors) :
                          There(m) /\ \A k \in 1..m - 1 : ~There(k)
    <2>1. Timers!insert_timer(l, timer, s[1]) =
            IF nth[place] # Timers!NULL
            THEN [l EXCEPT !.next = [@ EXCEPT ![nth[place - 1]] = timer, ![timer] = nth[place]],
                           !.prev = [@ EXCEPT ![nth[place]] = timer, ![timer] = nth[place - 1]]]
            ELSE [l EXCEPT !.next = [@ EXCEPT ![nth[place - 1]] = timer, ![timer] = Timers!NULL],
                           !.prev = [@ EXCEPT ![timer] = nth[place - 1]], !.tail = timer]
      BY DEF Timers!insert_timer
    <2>2. \A m : There(m) <=> Here(m)
      BY <1>1 DEF Timers!NULL
    <2>3. Timers!Cardinality(tDescriptors) = Longest
      BY TimersCardinality DEF Longest
    <2> HIDE DEF There
    <2>4. place = n
      BY <1>2, <1>3, <1>4, <1>5, <2>2, <2>3
    <2> HIDE DEF place
    <2> QED
      BY <1>1, <1>2, <2>1, <2>4 DEF Timers!NULL, Last
  <1>8. \A m : Lists!Place(l, timer, s[1], m) <=>
                  m \in (DOMAIN w) \ {0} /\ Here(m) /\ \A k \in 1..m - 1 : ~Here(k)
    BY <1>1 DEF Lists!Place, Lists!Site!NULL
  <1>9. DOMAIN w = 0..Longest
    BY DEF w, Along
  <1>10. \A m \in DOMAIN w : Lists!Place(l, timer, s[1], m) <=> m = n
    BY <1>2, <1>3, <1>4, <1>5, <1>8, <1>9
  <1>11. (CHOOSE m \in DOMAIN w : Lists!Place(l, timer, s[1], m)) = n
    BY <1>2, <1>9, <1>10
  <1>12. Lists!insert_timer(l, timer, s[1]) = Last(l, timer, s[n])
    BY <1>1, <1>2, <1>11 DEF Lists!insert_timer, Lists!Site!NULL, Last
  <1>13. ~Lists!Endless(l, timer, s[1])
    BY <1>2, <1>9, <1>10, TimersCardinality DEF Lists!Endless, Longest
  <1> QED
    BY <1>7, <1>12, <1>13

-----------------------------------------------------------------------------
(* The list l holds the n nodes s, in their order.                         *)
ListType(l) ==
  l \in [head : tDescriptors \cup {0}, tail : tDescriptors \cup {0},
         prev : [tDescriptors -> tDescriptors \cup {0}],
         next : [tDescriptors -> tDescriptors \cup {0}], expire : [tDescriptors -> 0..tSlots]]
Held(n, s) == {s[a] : a \in 1..n}
Joined(l, n, s) ==
  /\ n \in Nat /\ s \in [1..n -> tDescriptors]
  /\ \A a, b \in 1..n : s[a] = s[b] => a = b
  /\ l.head = IF n = 0 THEN 0 ELSE s[1]
  /\ n > 0 => l.tail = s[n] /\ l.prev[s[1]] = 0 /\ l.next[s[n]] = 0
  /\ \A a \in 1..n - 1 : l.next[s[a]] = s[a + 1] /\ l.prev[s[a + 1]] = s[a]
Ordered(l, n, s) == \A a \in 1..n - 1 : l.expire[s[a]] <= l.expire[s[a + 1]]
Clean(l, fs) == \A f \in tDescriptors \ fs : l.next[f] = 0 /\ l.prev[f] = 0

Sound(l, n, s) == ListType(l) /\ Joined(l, n, s) /\ Ordered(l, n, s) /\ Clean(l, Held(n, s))

(* A list in order has a chain, and as many nodes as it holds.             *)
LEMMA JoinedIs ==
  ASSUME NEW l, NEW n, NEW s, Joined(l, n, s)
  PROVE  /\ Chain(l, n, s) /\ n \in Nat /\ n <= Longest /\ s \in [1..n -> tDescriptors]
         /\ IsFiniteSet(Held(n, s)) /\ Cardinality(Held(n, s)) = n
  <1>1. Chain(l, n, s) /\ n \in Nat /\ s \in [1..n -> tDescriptors]
    BY DEF Joined, Chain
  <1>2. \A a, b \in 1..n : s[a] = s[b] => a = b
    BY DEF Joined
  <1>3. IsFiniteSet(Held(n, s)) /\ Cardinality(Held(n, s)) = n
    <2>1. IsFiniteSet({s[j] : j \in 1..n}) /\ Cardinality({s[j] : j \in 1..n}) = n
      BY <1>1, <1>2, ManyAre
    <2> QED
      BY <2>1 DEF Held
  <1>4. Held(n, s) \subseteq tDescriptors
    BY <1>1 DEF Held
  <1>5. Cardinality(Held(n, s)) <= Longest
    BY <1>4, FS_Subset, TimersAssumption DEF Longest
  <1> QED
    BY <1>1, <1>3, <1>5

(* The fields of a list.                                                   *)
LEMMA TypeOf ==
  ASSUME NEW l, ListType(l)
  PROVE  /\ l.head \in tDescriptors \cup {0} /\ l.tail \in tDescriptors \cup {0}
         /\ l.prev \in [tDescriptors -> tDescriptors \cup {0}]
         /\ l.next \in [tDescriptors -> tDescriptors \cup {0}]
         /\ l.expire \in [tDescriptors -> 0..tSlots]
  BY DEF ListType

(* The nodes s and timer behind them.                                      *)
With(n, s, timer) == [a \in 1..n + 1 |-> IF a <= n THEN s[a] ELSE timer]

(* A node goes behind the last one.                                        *)
LEMMA LastJoins ==
  ASSUME NEW l, ListType(l), NEW n, NEW s, Joined(l, n, s), Ordered(l, n, s), n > 0,
         NEW timer \in tDescriptors \ Held(n, s), Clean(l, Held(n, s) \cup {timer}),
         l.expire[timer] = tSlots
  PROVE  /\ Sound(Last(l, timer, s[n]), n + 1, With(n, s, timer))
         /\ Held(n + 1, With(n, s, timer)) = Held(n, s) \cup {timer}
  <1> DEFINE t == With(n, s, timer)
             r == Last(l, timer, s[n])
  <1>1. n \in Nat /\ n \in 1..n /\ s \in [1..n -> tDescriptors] /\ s[n] \in tDescriptors
    BY DEF Joined
  <1>2. /\ t \in [1..n + 1 -> tDescriptors] /\ t[n + 1] = timer
        /\ \A a \in 1..n : t[a] = s[a] /\ s[a] # timer
    BY <1>1 DEF With, Held
  <1>3. /\ r.head = l.head /\ r.tail = timer /\ r.expire = l.expire
        /\ r.next = [l.next EXCEPT ![s[n]] = timer, ![timer] = 0]
        /\ r.prev = [l.prev EXCEPT ![timer] = s[n]]
    BY DEF Last, ListType
  <1>4. /\ \A f \in tDescriptors : r.next[f] = IF f = timer THEN 0 ELSE IF f = s[n] THEN timer
                                                                  ELSE l.next[f]
        /\ \A f \in tDescriptors : r.prev[f] = IF f = timer THEN s[n] ELSE l.prev[f]
    BY <1>1, <1>3, TypeOf
  <1>5. ListType(r)
    BY <1>1 DEF ListType, Last
  <1> HIDE DEF t, r
  <1>6. Held(n + 1, t) = Held(n, s) \cup {timer}
    <2>1. \A a \in 1..n + 1 : a \in 1..n \/ a = n + 1
      BY <1>1
    <2> QED
      BY <1>1, <1>2, <2>1 DEF Held
  <1>7. \A a, b \in 1..n + 1 : t[a] = t[b] => a = b
    <2>1. \A a \in 1..n + 1 : a \in 1..n \/ a = n + 1
      BY <1>1
    <2> QED
      BY <1>2, <2>1 DEF Joined
  <1>8. ASSUME NEW a \in 1..n PROVE r.next[t[a]] = t[a + 1] /\ r.prev[t[a + 1]] = t[a]
    <2>1. CASE a = n
      BY <1>1, <1>2, <1>4, <2>1
    <2>2. CASE a # n
      <3>1. a \in 1..n - 1 /\ a + 1 \in 1..n /\ s[a] \in tDescriptors /\ s[a + 1] \in tDescriptors
        BY <1>1, <2>2
      <3>2. s[a] # s[n] /\ l.next[s[a]] = s[a + 1] /\ l.prev[s[a + 1]] = s[a]
        BY <1>1, <2>2, <3>1 DEF Joined
      <3> QED
        BY <1>2, <1>4, <3>1, <3>2
    <2> QED
      BY <2>1, <2>2
  <1>9. Joined(r, n + 1, t)
    <2>1. r.head = t[1] /\ r.prev[t[1]] = 0
      BY <1>1, <1>2, <1>3, <1>4 DEF Joined
    <2>2. r.tail = t[n + 1] /\ r.next[t[n + 1]] = 0
      BY <1>2, <1>3, <1>4
    <2> QED
      BY <1>1, <1>2, <1>7, <1>8, <2>1, <2>2 DEF Joined
  <1>10. Ordered(r, n + 1, t)
    <2> SUFFICES ASSUME NEW a \in 1..n PROVE r.expire[t[a]] <= r.expire[t[a + 1]]
      BY <1>1 DEF Ordered
    <2>1. CASE a = n
      <3>1. l.expire[s[n]] \in 0..tSlots
        BY <1>1, TypeOf
      <3> QED
        BY <1>1, <1>2, <1>3, <2>1, <3>1, TimersAssumption
    <2>2. CASE a # n
      <3>1. a \in 1..n - 1 /\ a + 1 \in 1..n
        BY <1>1, <2>2
      <3> QED
        BY <1>2, <1>3, <3>1 DEF Ordered
    <2> QED
      BY <2>1, <2>2
  <1>11. Clean(r, Held(n + 1, t))
    <2>1. s[n] \in Held(n, s)
      BY <1>1 DEF Held
    <2> QED
      BY <1>4, <1>6, <2>1 DEF Clean
  <1> QED
    BY <1>5, <1>6, <1>9, <1>10, <1>11 DEF Sound, t, r

(* The list l is sound and holds the nodes fs.                             *)
Has(l, fs) == \E n \in Nat : \E s \in [1..n -> tDescriptors] : Sound(l, n, s) /\ Held(n, s) = fs

(* What happens to other nodes does not concern the list.                  *)
LEMMA OthersApart ==
  ASSUME NEW l, NEW n, NEW s, Joined(l, n, s), Ordered(l, n, s),
         NEW r, r.head = l.head, r.tail = l.tail,
         \A f \in Held(n, s) : r.next[f] = l.next[f] /\ r.prev[f] = l.prev[f] /\ r.expire[f] = l.expire[f]
  PROVE  Joined(r, n, s) /\ Ordered(r, n, s)
  <1>1. n \in Nat /\ s \in [1..n -> tDescriptors]
    BY DEF Joined
  <1>2. \A a \in 1..n : s[a] \in Held(n, s)
    BY DEF Held
  <1>3. \A a \in 1..n : /\ r.next[s[a]] = l.next[s[a]] /\ r.prev[s[a]] = l.prev[s[a]]
                        /\ r.expire[s[a]] = l.expire[s[a]]
    BY <1>2
  <1>4. \A a \in 1..n - 1 : a \in 1..n /\ a + 1 \in 1..n
    BY <1>1
  <1>5. n > 0 => 1 \in 1..n /\ n \in 1..n
    BY <1>1
  <1> QED
    BY <1>1, <1>3, <1>4, <1>5 DEF Joined, Ordered

(* expire_ of a node is set to the latest time.                            *)
Renewed(l, f) == [l EXCEPT !.expire = [@ EXCEPT ![f] = tSlots]]

(* Nothing else changes.                                                   *)
LEMMA RenewedIs ==
  ASSUME NEW l, ListType(l), NEW f \in tDescriptors
  PROVE  /\ ListType(Renewed(l, f))
         /\ Renewed(l, f).head = l.head /\ Renewed(l, f).tail = l.tail
         /\ Renewed(l, f).next = l.next /\ Renewed(l, f).prev = l.prev
         /\ Renewed(l, f).expire[f] = tSlots
         /\ \A g \in tDescriptors \ {f} : Renewed(l, f).expire[g] = l.expire[g]
  BY TimersAssumption DEF ListType, Renewed

(* add_timer() of a new connection puts it behind the last one.            *)
LEMMA AddKeeps ==
  ASSUME NEW l, NEW fs, Has(l, fs), NEW timer \in tDescriptors \ fs,
         NEW r, r \in {Timers!add_timer(Renewed(l, timer), timer), Lists!add_timer(Renewed(l, timer), timer)}
  PROVE  Has(r, fs \cup {timer})
  <1>1. PICK n \in Nat : \E t \in [1..n -> tDescriptors] : Sound(l, n, t) /\ Held(n, t) = fs
    BY DEF Has
  <1>2. PICK s \in [1..n -> tDescriptors] : Sound(l, n, s) /\ Held(n, s) = fs
    BY <1>1
  <1> DEFINE k == Renewed(l, timer)
  <1>3. /\ ListType(k) /\ k.head = l.head /\ k.tail = l.tail /\ k.next = l.next /\ k.prev = l.prev
        /\ k.expire[timer] = tSlots
        /\ \A g \in tDescriptors \ {timer} : k.expire[g] = l.expire[g]
    BY <1>2, RenewedIs DEF Sound
  <1>4. r = Timers!add_timer(k, timer) \/ r = Lists!add_timer(k, timer)
    OBVIOUS
  <1> HIDE DEF k
  <1>5. fs \subseteq tDescriptors /\ timer \notin fs /\ timer \in tDescriptors
    BY <1>2 DEF Held
  <1>6. Joined(k, n, s) /\ Ordered(k, n, s)
    BY <1>2, <1>3, <1>5, OthersApart DEF Sound
  <1>7. Clean(k, fs)
    BY <1>2, <1>3 DEF Sound, Clean
  <1>8. CASE n = 0
    <2>1. k.head = 0 /\ fs = {}
      BY <1>2, <1>6, <1>8 DEF Joined, Held
    <2>2. r = [k EXCEPT !.head = timer, !.tail = timer]
      BY <1>4, <2>1 DEF Timers!add_timer, Lists!add_timer, Timers!NULL, Lists!Site!NULL
    <2>3. /\ ListType(r) /\ r.head = timer /\ r.tail = timer
          /\ r.next = k.next /\ r.prev = k.prev /\ r.expire = k.expire
      BY <1>3, <1>5, <2>2 DEF ListType
    <2> DEFINE t == [a \in 1..1 |-> timer]
    <2>4. t \in [1..1 -> tDescriptors] /\ t[1] = timer /\ \A a \in 1..1 : t[a] = timer /\ a = 1
      OBVIOUS
    <2> HIDE DEF t
    <2>5. Held(1, t) = {timer}
      BY <2>4 DEF Held
    <2>6. r.next[timer] = 0 /\ r.prev[timer] = 0
      BY <1>5, <1>7, <2>3 DEF Clean
    <2>7. Joined(r, 1, t) /\ Ordered(r, 1, t)
      BY <2>3, <2>4, <2>6 DEF Joined, Ordered
    <2>8. Clean(r, {timer})
      BY <1>7, <2>1, <2>3 DEF Clean
    <2> QED
      BY <2>1, <2>3, <2>4, <2>5, <2>7, <2>8 DEF Has, Sound
  <1>9. CASE n # 0
    <2>1. n > 0 /\ n \in 1..n /\ n <= Longest /\ Chain(k, n, s) /\ s \in [1..n -> tDescriptors]
      BY <1>6, <1>9, JoinedIs
    <2>2. k.head = s[1] /\ s[1] # 0 /\ s[1] \in tDescriptors
      BY <1>6, <2>1, TimersAssumption DEF Joined
    <2>3. \A a \in 1..n : k.expire[s[a]] \in 0..tSlots
      BY <1>3, <2>1, TypeOf
    <2>4. ~(k.expire[timer] < k.expire[s[1]])
      BY <1>3, <2>1, <2>3, TimersAssumption
    <2>5. r = Timers!insert_timer(k, timer, s[1]) \/ r = Lists!insert_timer(k, timer, s[1])
      BY <1>4, <2>2, <2>4 DEF Timers!add_timer, Lists!add_timer, Timers!NULL, Lists!Site!NULL
    <2>6. r = Last(k, timer, s[n])
      BY <1>3, <2>1, <2>3, <2>5, InsertsLast
    <2>7. Clean(k, Held(n, s) \cup {timer}) /\ timer \in tDescriptors \ Held(n, s)
      BY <1>2, <1>7 DEF Clean
    <2>8. Sound(r, n + 1, With(n, s, timer)) /\ Held(n + 1, With(n, s, timer)) = fs \cup {timer}
      BY <1>2, <1>3, <1>6, <2>1, <2>6, <2>7, LastJoins
    <2>9. n + 1 \in Nat /\ With(n, s, timer) \in [1..n + 1 -> tDescriptors]
      BY <2>8 DEF Sound, Joined
    <2> QED
      BY <2>8, <2>9 DEF Has
  <1> QED
    BY <1>8, <1>9

(* The nodes s without the k-th.                                           *)
Less(n, s, k) == [a \in 1..n - 1 |-> IF a < k THEN s[a] ELSE s[a + 1]]

(* It has the others, in their order.                                      *)
LEMMA LessIs ==
  ASSUME NEW n \in Nat, NEW s \in [1..n -> tDescriptors], \A a, b \in 1..n : s[a] = s[b] => a = b,
         NEW k \in 1..n
  PROVE  /\ Less(n, s, k) \in [1..n - 1 -> tDescriptors]
         /\ \A a \in 1..n - 1 : Less(n, s, k)[a] = IF a < k THEN s[a] ELSE s[a + 1]
         /\ \A a, b \in 1..n - 1 : Less(n, s, k)[a] = Less(n, s, k)[b] => a = b
         /\ Held(n - 1, Less(n, s, k)) = Held(n, s) \ {s[k]}
  <1> DEFINE t == Less(n, s, k)
  <1>1. \A a \in 1..n - 1 : t[a] = IF a < k THEN s[a] ELSE s[a + 1]
    BY DEF Less
  <1>2. \A a \in 1..n - 1 : a \in 1..n /\ a + 1 \in 1..n
    OBVIOUS
  <1>3. t \in [1..n - 1 -> tDescriptors]
    BY <1>2 DEF Less
  <1> HIDE DEF t
  <1>4. \A a, b \in 1..n - 1 : t[a] = t[b] => a = b
    <2> SUFFICES ASSUME NEW a \in 1..n - 1, NEW b \in 1..n - 1, t[a] = t[b]
                 PROVE  a = b
      OBVIOUS
    <2> DEFINE x == IF a < k THEN a ELSE a + 1
               y == IF b < k THEN b ELSE b + 1
    <2>1. x \in 1..n /\ y \in 1..n /\ t[a] = s[x] /\ t[b] = s[y]
      BY <1>1, <1>2
    <2>2. x = y
      BY <2>1
    <2> QED
      BY <2>2
  <1>5. Held(n - 1, t) \subseteq Held(n, s) \ {s[k]}
    <2> SUFFICES ASSUME NEW a \in 1..n - 1 PROVE t[a] \in Held(n, s) \ {s[k]}
      BY DEF Held
    <2> DEFINE x == IF a < k THEN a ELSE a + 1
    <2>1. x \in 1..n /\ t[a] = s[x] /\ x # k
      BY <1>1, <1>2
    <2> QED
      BY <2>1 DEF Held
  <1>6. Held(n, s) \ {s[k]} \subseteq Held(n - 1, t)
    <2> SUFFICES ASSUME NEW x \in 1..n, x # k PROVE s[x] \in Held(n - 1, t)
      BY DEF Held
    <2> DEFINE a == IF x < k THEN x ELSE x - 1
    <2>1. a \in 1..n - 1 /\ t[a] = s[x]
      BY <1>1
    <2> QED
      BY <2>1 DEF Held
  <1> QED
    BY <1>1, <1>3, <1>4, <1>5, <1>6 DEF t

(* r is l with the k-th of its nodes s taken out, whatever that node holds. *)
TakenOut(l, r, n, s, k) ==
  /\ r.head = IF k > 1 THEN l.head ELSE IF n = 1 THEN 0 ELSE s[2]
  /\ n > 1 => r.tail = IF k < n THEN l.tail ELSE s[n - 1]
  /\ \A f \in tDescriptors \ {s[k]} :
       /\ r.next[f] = IF k > 1 /\ f = s[k - 1] THEN IF k < n THEN s[k + 1] ELSE 0 ELSE l.next[f]
       /\ r.prev[f] = IF k < n /\ f = s[k + 1] THEN IF k > 1 THEN s[k - 1] ELSE 0 ELSE l.prev[f]
       /\ r.expire[f] = l.expire[f]

(* What is left is in order, and so are the times.                         *)
LEMMA TakenOutKeeps ==
  ASSUME NEW l, ListType(l), NEW n \in Nat, NEW s, Joined(l, n, s), Ordered(l, n, s),
         Clean(l, Held(n, s)), NEW k \in 1..n, NEW r, TakenOut(l, r, n, s, k)
  PROVE  /\ Joined(r, n - 1, Less(n, s, k)) /\ Ordered(r, n - 1, Less(n, s, k))
         /\ Clean(r, Held(n, s))
  <1> DEFINE t == Less(n, s, k)
  <1>1. s \in [1..n -> tDescriptors] /\ \A a, b \in 1..n : s[a] = s[b] => a = b
    BY DEF Joined
  <1>2. /\ t \in [1..n - 1 -> tDescriptors]
        /\ \A a \in 1..n - 1 : t[a] = IF a < k THEN s[a] ELSE s[a + 1]
        /\ \A a, b \in 1..n - 1 : t[a] = t[b] => a = b
    BY <1>1, LessIs
  <1> HIDE DEF t
  <1>3. \A x \in 1..n : x # k =>
          /\ r.next[s[x]] = IF x = k - 1 THEN IF k < n THEN s[k + 1] ELSE 0 ELSE l.next[s[x]]
          /\ r.prev[s[x]] = IF x = k + 1 THEN IF k > 1 THEN s[k - 1] ELSE 0 ELSE l.prev[s[x]]
          /\ r.expire[s[x]] = l.expire[s[x]]
    <2> SUFFICES ASSUME NEW x \in 1..n, x # k
                 PROVE  /\ r.next[s[x]] = IF x = k - 1 THEN IF k < n THEN s[k + 1] ELSE 0 ELSE l.next[s[x]]
                        /\ r.prev[s[x]] = IF x = k + 1 THEN IF k > 1 THEN s[k - 1] ELSE 0 ELSE l.prev[s[x]]
                        /\ r.expire[s[x]] = l.expire[s[x]]
      OBVIOUS
    <2>1. s[x] \in tDescriptors \ {s[k]}
      BY <1>1
    <2>2. k > 1 => k - 1 \in 1..n
      OBVIOUS
    <2>3. k < n => k + 1 \in 1..n
      OBVIOUS
    <2>4. (k > 1 /\ s[x] = s[k - 1]) <=> x = k - 1
      BY <1>1, <2>2
    <2>5. (k < n /\ s[x] = s[k + 1]) <=> x = k + 1
      BY <1>1, <2>3
    <2> QED
      BY <2>1, <2>4, <2>5 DEF TakenOut
  <1>4. ASSUME NEW a \in 1..n - 2
        PROVE  /\ r.next[t[a]] = t[a + 1] /\ r.prev[t[a + 1]] = t[a]
               /\ r.expire[t[a]] <= r.expire[t[a + 1]]
    <2>0. a \in 1..n - 1 /\ a + 1 \in 1..n - 1 /\ a \in 1..n /\ a + 1 \in 1..n /\ a + 2 \in 1..n
      OBVIOUS
    <2>00. \A x \in 1..n - 1 : /\ l.next[s[x]] = s[x + 1] /\ l.prev[s[x + 1]] = s[x]
                               /\ l.expire[s[x]] <= l.expire[s[x + 1]]
      BY DEF Joined, Ordered
    <2>1. CASE a + 1 < k
      <3>1. t[a] = s[a] /\ t[a + 1] = s[a + 1]
        BY <1>2, <2>0, <2>1
      <3> QED
        BY <1>3, <2>0, <2>00, <2>1, <3>1
    <2>2. CASE a + 1 = k
      <3>1. t[a] = s[k - 1] /\ t[a + 1] = s[k + 1] /\ k - 1 \in 1..n - 1 /\ k \in 1..n - 1 /\ k + 1 \in 1..n
        BY <1>2, <2>0, <2>2
      <3>2. /\ r.next[s[k - 1]] = s[k + 1] /\ r.prev[s[k + 1]] = s[k - 1]
            /\ r.expire[s[k - 1]] = l.expire[s[k - 1]] /\ r.expire[s[k + 1]] = l.expire[s[k + 1]]
        BY <1>3, <2>0, <2>2, <3>1
      <3>3. l.expire[s[k - 1]] <= l.expire[s[k]] /\ l.expire[s[k]] <= l.expire[s[k + 1]]
        BY <2>00, <3>1
      <3>4. /\ l.expire[s[k - 1]] \in 0..tSlots /\ l.expire[s[k]] \in 0..tSlots
            /\ l.expire[s[k + 1]] \in 0..tSlots
        BY <1>1, <3>1, TypeOf
      <3>5. l.expire[s[k - 1]] <= l.expire[s[k + 1]]
        BY <3>3, <3>4, TimersAssumption
      <3> QED
        BY <3>1, <3>2, <3>5
    <2>3. CASE a + 1 > k
      <3>1. t[a] = s[a + 1] /\ t[a + 1] = s[a + 2] /\ a + 1 \in 1..n - 1 /\ a + 2 = (a + 1) + 1
        BY <1>2, <2>0, <2>3
      <3>2. /\ l.next[s[a + 1]] = s[a + 2] /\ l.prev[s[a + 2]] = s[a + 1]
            /\ l.expire[s[a + 1]] <= l.expire[s[a + 2]]
        BY <2>00, <3>1
      <3>3. /\ r.next[s[a + 1]] = l.next[s[a + 1]] /\ r.prev[s[a + 2]] = l.prev[s[a + 2]]
            /\ r.expire[s[a + 1]] = l.expire[s[a + 1]] /\ r.expire[s[a + 2]] = l.expire[s[a + 2]]
        BY <1>3, <2>0, <2>3
      <3> QED
        BY <3>1, <3>2, <3>3
    <2> QED
      BY <2>1, <2>2, <2>3
  <1>5. r.head = IF n - 1 = 0 THEN 0 ELSE t[1]
    BY <1>2 DEF TakenOut, Joined
  <1>6. ASSUME n - 1 > 0
        PROVE  r.tail = t[n - 1] /\ r.prev[t[1]] = 0 /\ r.next[t[n - 1]] = 0
    <2>1. 1 \in 1..n - 1 /\ n - 1 \in 1..n - 1 /\ n \in 1..n /\ 2 \in 1..n /\ n - 1 \in 1..n /\ 1 \in 1..n
      BY <1>6
    <2>2. l.tail = s[n] /\ l.prev[s[1]] = 0 /\ l.next[s[n]] = 0
      BY <2>1 DEF Joined
    <2>3. t[n - 1] = IF k = n THEN s[n - 1] ELSE s[n]
      BY <1>2, <2>1
    <2>4. t[1] = IF k = 1 THEN s[2] ELSE s[1]
      BY <1>2, <2>1
    <2>5. r.tail = t[n - 1]
      BY <1>6, <2>2, <2>3 DEF TakenOut
    <2>6. r.prev[t[1]] = 0
      BY <1>3, <2>1, <2>2, <2>4
    <2>7. r.next[t[n - 1]] = 0
      BY <1>3, <2>1, <2>2, <2>3
    <2> QED
      BY <2>5, <2>6, <2>7
  <1>7. \A a \in 1..(n - 1) - 1 : a \in 1..n - 2
    OBVIOUS
  <1>8. n - 1 \in Nat
    OBVIOUS
  <1>9. Joined(r, n - 1, t)
    BY <1>2, <1>4, <1>5, <1>6, <1>7, <1>8 DEF Joined
  <1>10. Ordered(r, n - 1, t)
    BY <1>4, <1>7 DEF Ordered
  <1>11. Clean(r, Held(n, s))
    <2>1. \A x \in 1..n : s[x] \in Held(n, s)
      BY DEF Held
    <2>2. s[k] \in Held(n, s) /\ (k > 1 => s[k - 1] \in Held(n, s)) /\ (k < n => s[k + 1] \in Held(n, s))
      BY <2>1
    <2> QED
      BY <2>2 DEF Clean, TakenOut
  <1> QED
    BY <1>9, <1>10, <1>11 DEF t

(* Freed nodes that are not in the list are as clean as new ones.          *)
LEMMA FreedKeeps ==
  ASSUME NEW q, ListType(q), NEW n, NEW t, Joined(q, n, t), Ordered(q, n, t),
         NEW freed, freed \subseteq tDescriptors, freed \cap Held(n, t) = {},
         Clean(q, Held(n, t) \cup freed),
         NEW r, r = Timers!Freed(q, freed) \/ r = Lists!Site!Freed(q, freed)
  PROVE  Sound(r, n, t)
  <1>1. /\ r.head = q.head /\ r.tail = q.tail
        /\ r.next = [f \in tDescriptors |-> IF f \in freed THEN 0 ELSE q.next[f]]
        /\ r.prev = [f \in tDescriptors |-> IF f \in freed THEN 0 ELSE q.prev[f]]
        /\ r.expire = [f \in tDescriptors |-> IF f \in freed THEN 0 ELSE q.expire[f]]
    BY DEF Timers!Freed, Lists!Site!Freed, Timers!NULL, Lists!Site!NULL, ListType
  <1>2. r = [head |-> r.head, tail |-> r.tail, prev |-> r.prev, next |-> r.next, expire |-> r.expire]
    BY DEF Timers!Freed, Lists!Site!Freed, Timers!NULL, Lists!Site!NULL, ListType
  <1>3. \A f \in tDescriptors : /\ q.next[f] \in tDescriptors \cup {0} /\ q.prev[f] \in tDescriptors \cup {0}
                                /\ q.expire[f] \in 0..tSlots
    BY TypeOf
  <1>4. /\ r.next \in [tDescriptors -> tDescriptors \cup {0}]
        /\ r.prev \in [tDescriptors -> tDescriptors \cup {0}]
        /\ r.expire \in [tDescriptors -> 0..tSlots]
    BY <1>1, <1>3, TimersAssumption
  <1>5. q.head \in tDescriptors \cup {0} /\ q.tail \in tDescriptors \cup {0}
    BY TypeOf
  <1>6. ListType(r)
    BY <1>1, <1>2, <1>4, <1>5 DEF ListType
  <1>7. Held(n, t) \subseteq tDescriptors
    BY DEF Joined, Held
  <1>8. Joined(r, n, t) /\ Ordered(r, n, t)
    BY <1>1, <1>7, OthersApart
  <1>9. Clean(r, Held(n, t))
    BY <1>1 DEF Clean
  <1> QED
    BY <1>6, <1>8, <1>9 DEF Sound

(* Where a node of the list is.                                            *)
LEMMA PlaceIs ==
  ASSUME NEW l, NEW fs, Has(l, fs), NEW timer \in fs
  PROVE  \E n \in Nat : \E s \in [1..n -> tDescriptors] : \E k \in 1..n :
           /\ Sound(l, n, s) /\ Held(n, s) = fs /\ s[k] = timer
  <1>1. PICK n \in Nat : \E s \in [1..n -> tDescriptors] : Sound(l, n, s) /\ Held(n, s) = fs
    BY DEF Has
  <1>2. PICK s \in [1..n -> tDescriptors] : Sound(l, n, s) /\ Held(n, s) = fs
    BY <1>1
  <1>3. PICK k \in 1..n : s[k] = timer
    BY <1>2 DEF Held
  <1> QED
    BY <1>2, <1>3

(* What the node's own fields, and those of the ends, are.                 *)
LEMMA AtPlace ==
  ASSUME NEW l, NEW n, NEW s, Sound(l, n, s), NEW k \in 1..n, n \in Nat
  PROVE  /\ s[k] \in tDescriptors /\ s[k] # 0
         /\ l.next[s[k]] = (IF k < n THEN s[k + 1] ELSE 0)
         /\ l.prev[s[k]] = (IF k > 1 THEN s[k - 1] ELSE 0)
         /\ (s[k] = l.head <=> k = 1) /\ (s[k] = l.tail <=> k = n)
         /\ (k < n => s[k + 1] \in tDescriptors /\ s[k + 1] # 0 /\ s[k + 1] # s[k])
         /\ (k > 1 => s[k - 1] \in tDescriptors /\ s[k - 1] # 0 /\ s[k - 1] # s[k])
         /\ (1 < k /\ k < n => s[k - 1] # s[k + 1])
  <1>1. Joined(l, n, s)
    BY DEF Sound
  <1>2. s \in [1..n -> tDescriptors] /\ (\A a, b \in 1..n : s[a] = s[b] => a = b)
    BY <1>1 DEF Joined
  <1>3. (k < n => k + 1 \in 1..n /\ k \in 1..n - 1) /\ (k > 1 => k - 1 \in 1..n /\ k - 1 \in 1..n - 1)
        /\ 1 \in 1..n /\ n \in 1..n
    OBVIOUS
  <1>4. 0 \notin tDescriptors
    BY TimersAssumption
  <1>5. l.head = s[1] /\ l.tail = s[n] /\ l.prev[s[1]] = 0 /\ l.next[s[n]] = 0
    BY <1>1, <1>3 DEF Joined
  <1>6. (s[k] = l.head <=> k = 1) /\ (s[k] = l.tail <=> k = n)
    BY <1>2, <1>3, <1>5
  <1>7. k < n => l.next[s[k]] = s[k + 1]
    BY <1>1, <1>3 DEF Joined
  <1>8. k > 1 => l.prev[s[(k - 1) + 1]] = s[k - 1]
    BY <1>1, <1>3 DEF Joined
  <1>9. (k - 1) + 1 = k
    OBVIOUS
  <1>10. /\ s[k] \in tDescriptors
         /\ (k < n => s[k + 1] \in tDescriptors /\ s[k + 1] # s[k])
         /\ (k > 1 => s[k - 1] \in tDescriptors /\ s[k - 1] # s[k])
         /\ (1 < k /\ k < n => s[k - 1] # s[k + 1])
    BY <1>2, <1>3
  <1>11. l.next[s[k]] = (IF k < n THEN s[k + 1] ELSE 0)
    BY <1>5, <1>7
  <1>12. l.prev[s[k]] = (IF k > 1 THEN s[k - 1] ELSE 0)
    BY <1>5, <1>8, <1>9
  <1> QED
    BY <1>4, <1>6, <1>10, <1>11, <1>12

(* del_timer() takes the node out, whichever of its four cases it is.      *)
LEMMA DelKeeps ==
  ASSUME NEW l, NEW fs, Has(l, fs), NEW timer \in fs,
         NEW r, r \in {Timers!del_timer(l, timer), Lists!del_timer(l, timer)}
  PROVE  Has(r, fs \ {timer})
  <1>1. PICK n \in Nat : \E s \in [1..n -> tDescriptors] : \E k \in 1..n :
           Sound(l, n, s) /\ Held(n, s) = fs /\ s[k] = timer
    BY PlaceIs
  <1>2. PICK s \in [1..n -> tDescriptors] : \E k \in 1..n :
           Sound(l, n, s) /\ Held(n, s) = fs /\ s[k] = timer
    BY <1>1
  <1>3. PICK k \in 1..n : Sound(l, n, s) /\ Held(n, s) = fs /\ s[k] = timer
    BY <1>2
  <1> DEFINE next == [l.next EXCEPT ![s[k - 1]] = IF k < n THEN s[k + 1] ELSE 0]
             prev == [l.prev EXCEPT ![s[k + 1]] = IF k > 1 THEN s[k - 1] ELSE 0]
             q == [head |-> IF k > 1 THEN l.head ELSE IF n = 1 THEN 0 ELSE s[2],
                   tail |-> IF k < n THEN l.tail ELSE IF n = 1 THEN 0 ELSE s[n - 1],
                   prev |-> IF k < n THEN prev ELSE l.prev,
                   next |-> IF k > 1 THEN next ELSE l.next,
                   expire |-> l.expire]
  <1>4. /\ timer \in tDescriptors /\ timer # 0
        /\ l.next[timer] = (IF k < n THEN s[k + 1] ELSE 0)
        /\ l.prev[timer] = (IF k > 1 THEN s[k - 1] ELSE 0)
        /\ (timer = l.head <=> k = 1) /\ (timer = l.tail <=> k = n)
        /\ (k < n => s[k + 1] \in tDescriptors /\ s[k + 1] # 0 /\ s[k + 1] # timer)
        /\ (k > 1 => s[k - 1] \in tDescriptors /\ s[k - 1] # 0 /\ s[k - 1] # timer)
    BY <1>3, AtPlace
  <1>5. ListType(l)
    BY <1>3 DEF Sound
  <1>6. ListType(q)
    <2>1. /\ next \in [tDescriptors -> tDescriptors \cup {0}]
          /\ prev \in [tDescriptors -> tDescriptors \cup {0}]
      BY <1>4, <1>5, TypeOf
    <2>2. (k = 1 /\ n # 1 => s[2] \in tDescriptors) /\ (k = n /\ n # 1 => s[n - 1] \in tDescriptors)
      BY <1>4
    <2> HIDE DEF next, prev
    <2>3. (IF k > 1 THEN l.head ELSE IF n = 1 THEN 0 ELSE s[2]) \in tDescriptors \cup {0}
      BY <1>5, <2>2, TypeOf
    <2>4. (IF k < n THEN l.tail ELSE IF n = 1 THEN 0 ELSE s[n - 1]) \in tDescriptors \cup {0}
      BY <1>5, <2>2, TypeOf
    <2> QED
      BY <1>5, <2>1, <2>3, <2>4, TypeOf DEF ListType
  <1>7. /\ q.head = (IF k > 1 THEN l.head ELSE IF n = 1 THEN 0 ELSE s[2])
        /\ q.tail = (IF k < n THEN l.tail ELSE IF n = 1 THEN 0 ELSE s[n - 1])
        /\ q.next = (IF k > 1 THEN next ELSE l.next) /\ q.prev = (IF k < n THEN prev ELSE l.prev)
        /\ q.expire = l.expire
    OBVIOUS
  <1>8. \A f \in tDescriptors :
          /\ next[f] = IF f = s[k - 1] THEN IF k < n THEN s[k + 1] ELSE 0 ELSE l.next[f]
          /\ prev[f] = IF f = s[k + 1] THEN IF k > 1 THEN s[k - 1] ELSE 0 ELSE l.prev[f]
    BY <1>5, TypeOf
  <1>9. r = Timers!Freed(q, {timer}) \/ r = Lists!Site!Freed(q, {timer})
    <2>1. CASE k = 1 /\ n = 1
      <3> DEFINE e == [l EXCEPT !.head = 0, !.tail = 0]
      <3>3. e \in [head : {0}, tail : {0}, prev : {l.prev},
              next : {l.next}, expire : {l.expire}]
        BY <1>5 DEF ListType
      <3>4. q = [head |-> 0, tail |-> 0, prev |-> l.prev,
              next |-> l.next, expire |-> l.expire]
        BY <2>1
      <3> HIDE DEF e, q
      <3>5. e = [head |-> 0, tail |-> 0, prev |-> l.prev,
              next |-> l.next, expire |-> l.expire]
        BY <3>3
      <3>1. q = e
        BY <3>4, <3>5
      <3> USE DEF e
      <3> QED
        BY <1>4, <2>1, <3>1 DEF Timers!del_timer, Lists!del_timer, Lists!Site!del_timer,
           Timers!NULL, Lists!Site!NULL
    <2>2. CASE k = 1 /\ n # 1
      <3> DEFINE e == [l EXCEPT !.head = l.next[timer], !.prev = [@ EXCEPT ![l.next[timer]] = 0]]
      <3>3. e \in [head : {l.next[timer]}, tail : {l.tail}, prev : {[l.prev EXCEPT ![l.next[timer]] = 0]},
              next : {l.next}, expire : {l.expire}]
        BY <1>5 DEF ListType
      <3>4. q = [head |-> l.next[timer], tail |-> l.tail, prev |-> [l.prev EXCEPT ![l.next[timer]] = 0],
              next |-> l.next, expire |-> l.expire]
        BY <1>4, <2>2
      <3> HIDE DEF e, q
      <3>5. e = [head |-> l.next[timer], tail |-> l.tail, prev |-> [l.prev EXCEPT ![l.next[timer]] = 0],
              next |-> l.next, expire |-> l.expire]
        BY <3>3
      <3>1. q = e
        BY <3>4, <3>5
      <3> USE DEF e
      <3>2. timer = l.head /\ timer # l.tail
        BY <1>4, <2>2
      <3> QED
        BY <3>1, <3>2 DEF Timers!del_timer, Lists!del_timer, Lists!Site!del_timer,
           Timers!NULL, Lists!Site!NULL
    <2>3. CASE k # 1 /\ k = n
      <3> DEFINE e == [l EXCEPT !.tail = l.prev[timer], !.next = [@ EXCEPT ![l.prev[timer]] = 0]]
      <3>3. e \in [head : {l.head}, tail : {l.prev[timer]}, prev : {l.prev},
              next : {[l.next EXCEPT ![l.prev[timer]] = 0]}, expire : {l.expire}]
        BY <1>5 DEF ListType
      <3>4. q = [head |-> l.head, tail |-> l.prev[timer], prev |-> l.prev,
              next |-> [l.next EXCEPT ![l.prev[timer]] = 0], expire |-> l.expire]
        BY <1>4, <2>3
      <3> HIDE DEF e, q
      <3>5. e = [head |-> l.head, tail |-> l.prev[timer], prev |-> l.prev,
              next |-> [l.next EXCEPT ![l.prev[timer]] = 0], expire |-> l.expire]
        BY <3>3
      <3>1. q = e
        BY <3>4, <3>5
      <3> USE DEF e
      <3>2. timer # l.head /\ timer = l.tail
        BY <1>4, <2>3
      <3> QED
        BY <3>1, <3>2 DEF Timers!del_timer, Lists!del_timer, Lists!Site!del_timer,
           Timers!NULL, Lists!Site!NULL
    <2>4. CASE k # 1 /\ k # n
      <3> DEFINE e == [l EXCEPT !.next = [@ EXCEPT ![l.prev[timer]] = l.next[timer]],
                               !.prev = [@ EXCEPT ![l.next[timer]] = l.prev[timer]]]
      <3>3. e \in [head : {l.head}, tail : {l.tail}, prev : {[l.prev EXCEPT ![l.next[timer]] = l.prev[timer]]},
              next : {[l.next EXCEPT ![l.prev[timer]] = l.next[timer]]}, expire : {l.expire}]
        BY <1>5 DEF ListType
      <3>4. q = [head |-> l.head, tail |-> l.tail, prev |-> [l.prev EXCEPT ![l.next[timer]] = l.prev[timer]],
              next |-> [l.next EXCEPT ![l.prev[timer]] = l.next[timer]], expire |-> l.expire]
        BY <1>4, <2>4
      <3> HIDE DEF e, q
      <3>5. e = [head |-> l.head, tail |-> l.tail, prev |-> [l.prev EXCEPT ![l.next[timer]] = l.prev[timer]],
              next |-> [l.next EXCEPT ![l.prev[timer]] = l.next[timer]], expire |-> l.expire]
        BY <3>3
      <3>1. q = e
        BY <3>4, <3>5
      <3> USE DEF e
      <3>2. timer # l.head /\ timer # l.tail
        BY <1>4, <2>4
      <3> QED
        BY <3>1, <3>2 DEF Timers!del_timer, Lists!del_timer, Lists!Site!del_timer,
           Timers!NULL, Lists!Site!NULL,
          Timers!unlink, Lists!Site!unlink
    <2> QED
      BY <2>1, <2>2, <2>3, <2>4
  <1> HIDE DEF q, next, prev
  <1>10. TakenOut(l, q, n, s, k)
    BY <1>3, <1>4, <1>7, <1>8 DEF TakenOut
  <1>11. /\ Joined(q, n - 1, Less(n, s, k)) /\ Ordered(q, n - 1, Less(n, s, k))
         /\ Clean(q, fs)
    BY <1>3, <1>10, TakenOutKeeps DEF Sound
  <1>12. Held(n - 1, Less(n, s, k)) = fs \ {timer} /\ Less(n, s, k) \in [1..n - 1 -> tDescriptors]
    <2>1. \A a, b \in 1..n : s[a] = s[b] => a = b
      BY <1>3 DEF Sound, Joined
    <2> QED
      BY <1>3, <2>1, LessIs
  <1>13. (fs \ {timer}) \cup {timer} = fs /\ n - 1 \in Nat /\ {timer} \subseteq tDescriptors
    BY <1>4
  <1>14. Sound(r, n - 1, Less(n, s, k))
    <2> DEFINE t == Less(n, s, k)
    <2>1. Clean(q, Held(n - 1, t) \cup {timer}) /\ {timer} \cap Held(n - 1, t) = {}
      BY <1>11, <1>12, <1>13
    <2>2. Joined(q, n - 1, t) /\ Ordered(q, n - 1, t)
      BY <1>11
    <2> HIDE DEF t
    <2>3. Sound(r, n - 1, t)
      BY <1>6, <1>9, <1>13, <2>1, <2>2, FreedKeeps
    <2> QED
      BY <2>3 DEF t
  <1> QED
    BY <1>12, <1>13, <1>14 DEF Has

(* A timer that was taken out goes behind the last one.                    *)
LEMMA MovedKeeps ==
  ASSUME NEW l, NEW n \in Nat, NEW s, Sound(l, n, s), NEW k \in 1..n, k < n,
         NEW q, ListType(q), TakenOut(l, q, n, s, k), q.expire[s[k]] = tSlots
  PROVE  /\ Has(Timers!insert_timer(q, s[k], s[k + 1]), Held(n, s))
         /\ Has(Lists!insert_timer(q, s[k], s[k + 1]), Held(n, s))
         /\ ~Lists!Endless(q, s[k], s[k + 1])
  <1>1. /\ ListType(l) /\ Joined(l, n, s) /\ Ordered(l, n, s) /\ Clean(l, Held(n, s))
        /\ s \in [1..n -> tDescriptors] /\ \A a, b \in 1..n : s[a] = s[b] => a = b
    BY DEF Sound, Joined
  <1> DEFINE u == Less(n, s, k)
             t == [a \in 1..n - k |-> s[k + a]]
  <1>2. Joined(q, n - 1, u) /\ Ordered(q, n - 1, u) /\ Clean(q, Held(n, s))
    BY <1>1, TakenOutKeeps
  <1>3. /\ u \in [1..n - 1 -> tDescriptors] /\ Held(n - 1, u) = Held(n, s) \ {s[k]}
        /\ \A a \in 1..n - 1 : u[a] = IF a < k THEN s[a] ELSE s[a + 1]
    BY <1>1, LessIs
  <1>4. n - 1 \in 1..n - 1 /\ u[n - 1] = s[n] /\ n - 1 \in Nat /\ n - 1 > 0
    BY <1>3
  <1>5. /\ n - k \in Nat /\ n - k > 0 /\ 1 \in 1..n - k /\ n - k \in 1..n - k /\ k + (n - k) = n
        /\ \A a \in 1..n - k : k + a \in 1..n /\ t[a] = s[k + a] /\ (k + a) - 1 \in 1..n - 1
    OBVIOUS
  <1>6. t \in [1..n - k -> tDescriptors]
    BY <1>1, <1>5
  <1> HIDE DEF t, u
  <1>7. \A a \in 1..n - k : t[a] = u[(k + a) - 1]
    <2> SUFFICES ASSUME NEW a \in 1..n - k PROVE t[a] = u[(k + a) - 1]
      OBVIOUS
    <2>1. (k + a) - 1 \in 1..n - 1 /\ ~((k + a) - 1 < k) /\ ((k + a) - 1) + 1 = k + a
      BY <1>5
    <2> QED
      BY <1>3, <1>5, <2>1
  <1>8. Chain(q, n - k, t)
    <2>1. q.next[t[n - k]] = 0
      BY <1>2, <1>4, <1>5, <1>7 DEF Joined
    <2>2. ASSUME NEW a \in 1..(n - k) - 1 PROVE q.next[t[a]] = t[a + 1]
      <3>1. a \in 1..n - k /\ a + 1 \in 1..n - k
        BY <1>5
      <3>2. (k + a) - 1 \in 1..(n - 1) - 1 /\ ((k + a) - 1) + 1 = (k + (a + 1)) - 1
        BY <1>5
      <3>3. q.next[u[(k + a) - 1]] = u[((k + a) - 1) + 1]
        BY <1>2, <3>2 DEF Joined
      <3> QED
        BY <1>7, <3>1, <3>2, <3>3
    <2> QED
      BY <2>1, <2>2 DEF Chain
  <1>9. \A a \in 1..n - k : q.expire[t[a]] \in 0..tSlots
    BY <1>6, TypeOf
  <1>10. n - k <= Longest
    <2>1. n - 1 <= Longest
      BY <1>2, JoinedIs
    <2> QED
      BY <1>5, <2>1, LongestIs
  <1>11. t[1] = s[k + 1] /\ t[n - k] = s[n]
    BY <1>5
  <1>12. /\ Timers!insert_timer(q, s[k], t[1]) = Last(q, s[k], t[n - k])
         /\ Lists!insert_timer(q, s[k], t[1]) = Last(q, s[k], t[n - k])
         /\ ~Lists!Endless(q, s[k], t[1])
    BY <1>5, <1>6, <1>8, <1>9, <1>10, InsertsLast
  <1>13. s[k] \in Held(n, s) /\ s[k] \in tDescriptors
    BY <1>1 DEF Held
  <1>14. s[k] \in tDescriptors \ Held(n - 1, u) /\ Held(n - 1, u) \cup {s[k]} = Held(n, s)
    BY <1>3, <1>13
  <1>15. Clean(q, Held(n - 1, u) \cup {s[k]})
    BY <1>2, <1>14
  <1>16. /\ Sound(Last(q, s[k], u[n - 1]), (n - 1) + 1, With(n - 1, u, s[k]))
         /\ Held((n - 1) + 1, With(n - 1, u, s[k])) = Held(n - 1, u) \cup {s[k]}
    BY <1>2, <1>4, <1>14, <1>15, LastJoins
  <1>17. Has(Last(q, s[k], s[n]), Held(n, s))
    <2>1. With(n - 1, u, s[k]) \in [1..(n - 1) + 1 -> tDescriptors] /\ (n - 1) + 1 \in Nat
      BY <1>16 DEF Sound, Joined
    <2> QED
      BY <1>4, <1>14, <1>16, <2>1 DEF Has
  <1> QED
    BY <1>11, <1>12, <1>17

(* The last one, renewed, stays where it is.                               *)
LEMMA LastRenewed ==
  ASSUME NEW l, NEW n \in Nat, NEW s, Sound(l, n, s), n > 0
  PROVE  Sound(Renewed(l, s[n]), n, s)
  <1> DEFINE m == Renewed(l, s[n])
  <1>1. /\ ListType(l) /\ Joined(l, n, s) /\ Ordered(l, n, s) /\ Clean(l, Held(n, s))
        /\ s \in [1..n -> tDescriptors] /\ \A a, b \in 1..n : s[a] = s[b] => a = b
    BY DEF Sound, Joined
  <1>2. n \in 1..n /\ s[n] \in tDescriptors
    BY <1>1
  <1>3. /\ ListType(m) /\ m.head = l.head /\ m.tail = l.tail /\ m.next = l.next /\ m.prev = l.prev
        /\ m.expire[s[n]] = tSlots /\ \A g \in tDescriptors \ {s[n]} : m.expire[g] = l.expire[g]
    BY <1>1, <1>2, RenewedIs
  <1> HIDE DEF m
  <1>4. Joined(m, n, s) /\ Clean(m, Held(n, s))
    BY <1>1, <1>3 DEF Joined, Clean
  <1>5. ASSUME NEW a \in 1..n - 1 PROVE m.expire[s[a]] <= m.expire[s[a + 1]]
    <2>1. a \in 1..n /\ a + 1 \in 1..n /\ a # n
      OBVIOUS
    <2>2. s[a] \in tDescriptors \ {s[n]} /\ s[a + 1] \in tDescriptors
      BY <1>1, <1>2, <2>1
    <2>3. l.expire[s[a]] \in 0..tSlots /\ l.expire[s[a]] <= l.expire[s[a + 1]]
      BY <1>1, <2>2, TypeOf DEF Ordered
    <2>4. CASE a + 1 = n
      BY <1>3, <2>2, <2>3, <2>4, TimersAssumption
    <2>5. CASE a + 1 # n
      BY <1>1, <1>2, <1>3, <2>1, <2>2, <2>3, <2>5
    <2> QED
      BY <2>4, <2>5
  <1>6. Ordered(m, n, s)
    BY <1>5 DEF Ordered
  <1> QED
    BY <1>3, <1>4, <1>6 DEF Sound, m

Headless(m, first, second) ==
  [m EXCEPT !.head = second, !.prev = [@ EXCEPT ![second] = 0], !.next = [@ EXCEPT ![first] = 0]]
Bypassed(m, before, behind) ==
  [m EXCEPT !.next = [@ EXCEPT ![before] = behind], !.prev = [@ EXCEPT ![behind] = before]]

(* At the head: the second becomes the head.                               *)
LEMMA HeadTakenOut ==
  ASSUME NEW l, NEW n \in Nat, NEW s, Sound(l, n, s), n > 1,
         NEW q, q = Headless(Renewed(l, s[1]), s[1], s[2])
  PROVE  ListType(q) /\ TakenOut(l, q, n, s, 1) /\ q.expire[s[1]] = tSlots
  <1> DEFINE m == Renewed(l, s[1])
  <1>1. ListType(l) /\ s \in [1..n -> tDescriptors] /\ \A a, b \in 1..n : s[a] = s[b] => a = b
    BY DEF Sound, Joined
  <1>2. 1 \in 1..n /\ 2 \in 1..n /\ s[1] \in tDescriptors /\ s[2] \in tDescriptors /\ s[1] # s[2]
    BY <1>1
  <1>3. /\ ListType(m) /\ m.head = l.head /\ m.tail = l.tail /\ m.next = l.next /\ m.prev = l.prev
        /\ m.expire[s[1]] = tSlots /\ \A g \in tDescriptors \ {s[1]} : m.expire[g] = l.expire[g]
    BY <1>1, <1>2, RenewedIs
  <1>4. q = [m EXCEPT !.head = s[2], !.prev = [@ EXCEPT ![s[2]] = 0], !.next = [@ EXCEPT ![s[1]] = 0]]
    BY DEF Headless
  <1> HIDE DEF m
  <1>5. /\ q.head = s[2] /\ q.tail = m.tail /\ q.prev = [m.prev EXCEPT ![s[2]] = 0]
        /\ q.next = [m.next EXCEPT ![s[1]] = 0] /\ q.expire = m.expire
    BY <1>3, <1>4 DEF ListType
  <1>6. ListType(q)
    <2> DEFINE prev == [m.prev EXCEPT ![s[2]] = 0]
               next == [m.next EXCEPT ![s[1]] = 0]
    <2>1. q \in [head : {s[2]}, tail : {m.tail}, prev : {prev}, next : {next}, expire : {m.expire}]
      BY <1>3, <1>4 DEF ListType
    <2>2. prev \in [tDescriptors -> tDescriptors \cup {0}] /\ next \in [tDescriptors -> tDescriptors \cup {0}]
      BY <1>2, <1>3, TypeOf
    <2> HIDE DEF prev, next
    <2>3. /\ s[2] \in tDescriptors \cup {0} /\ m.tail \in tDescriptors \cup {0}
          /\ m.expire \in [tDescriptors -> 0..tSlots]
      BY <1>2, <1>3, TypeOf
    <2> QED
      BY <2>1, <2>2, <2>3 DEF ListType
  <1>7. \A f \in tDescriptors \ {s[1]} :
          q.next[f] = l.next[f] /\ q.prev[f] = (IF f = s[2] THEN 0 ELSE l.prev[f]) /\ q.expire[f] = l.expire[f]
    BY <1>1, <1>3, <1>5, TypeOf
  <1>8. TakenOut(l, q, n, s, 1)
    BY <1>3, <1>5, <1>7 DEF TakenOut
  <1> QED
    BY <1>3, <1>5, <1>6, <1>8

(* In the middle: its neighbours are linked to each other.                 *)
LEMMA MiddleTakenOut ==
  ASSUME NEW l, NEW n \in Nat, NEW s, Sound(l, n, s), NEW k \in 1..n, 1 < k, k < n,
         NEW q, q = Bypassed(Renewed(l, s[k]), s[k - 1], s[k + 1])
  PROVE  ListType(q) /\ TakenOut(l, q, n, s, k) /\ q.expire[s[k]] = tSlots
  <1> DEFINE m == Renewed(l, s[k])
  <1>1. ListType(l)
    BY DEF Sound
  <1>2. s[k] \in tDescriptors /\ s[k + 1] \in tDescriptors /\ s[k - 1] \in tDescriptors
    BY AtPlace
  <1>3. /\ ListType(m) /\ m.head = l.head /\ m.tail = l.tail /\ m.next = l.next /\ m.prev = l.prev
        /\ m.expire[s[k]] = tSlots /\ \A g \in tDescriptors \ {s[k]} : m.expire[g] = l.expire[g]
    BY <1>1, <1>2, RenewedIs
  <1>4. q = [m EXCEPT !.next = [@ EXCEPT ![s[k - 1]] = s[k + 1]],
                      !.prev = [@ EXCEPT ![s[k + 1]] = s[k - 1]]]
    BY DEF Bypassed
  <1> HIDE DEF m
  <1>5. /\ q.head = m.head /\ q.tail = m.tail /\ q.prev = [m.prev EXCEPT ![s[k + 1]] = s[k - 1]]
        /\ q.next = [m.next EXCEPT ![s[k - 1]] = s[k + 1]] /\ q.expire = m.expire
    BY <1>3, <1>4 DEF ListType
  <1>6. ListType(q)
    <2> DEFINE prev == [m.prev EXCEPT ![s[k + 1]] = s[k - 1]]
               next == [m.next EXCEPT ![s[k - 1]] = s[k + 1]]
    <2>1. q \in [head : {m.head}, tail : {m.tail}, prev : {prev}, next : {next}, expire : {m.expire}]
      BY <1>3, <1>4 DEF ListType
    <2>2. prev \in [tDescriptors -> tDescriptors \cup {0}] /\ next \in [tDescriptors -> tDescriptors \cup {0}]
      BY <1>2, <1>3, TypeOf
    <2> HIDE DEF prev, next
    <2>3. /\ m.head \in tDescriptors \cup {0} /\ m.tail \in tDescriptors \cup {0}
          /\ m.expire \in [tDescriptors -> 0..tSlots]
      BY <1>2, <1>3, TypeOf
    <2> QED
      BY <2>1, <2>2, <2>3 DEF ListType
  <1>7. \A f \in tDescriptors \ {s[k]} :
          /\ q.next[f] = IF f = s[k - 1] THEN s[k + 1] ELSE l.next[f]
          /\ q.prev[f] = IF f = s[k + 1] THEN s[k - 1] ELSE l.prev[f]
          /\ q.expire[f] = l.expire[f]
    BY <1>1, <1>3, <1>5, TypeOf
  <1>8. TakenOut(l, q, n, s, k)
    BY <1>3, <1>5, <1>7 DEF TakenOut
  <1> QED
    BY <1>3, <1>5, <1>6, <1>8

(* adjust_timer() of a connection that was heard keeps the list, wherever  *)
(* the node is in it.                                                      *)
LEMMA AdjustKeeps ==
  ASSUME NEW l, NEW fs, Has(l, fs), NEW timer \in fs
  PROVE  Has(Timers!adjust_timer(Renewed(l, timer), timer), fs)
  <1>1. PICK n \in Nat : \E s \in [1..n -> tDescriptors] : \E k \in 1..n :
           Sound(l, n, s) /\ Held(n, s) = fs /\ s[k] = timer
    BY PlaceIs
  <1>2. PICK s \in [1..n -> tDescriptors] : \E k \in 1..n :
           Sound(l, n, s) /\ Held(n, s) = fs /\ s[k] = timer
    BY <1>1
  <1>3. PICK k \in 1..n : Sound(l, n, s) /\ Held(n, s) = fs /\ s[k] = timer
    BY <1>2
  <1> DEFINE m == Renewed(l, timer)
  <1>4. ListType(l) /\ timer \in tDescriptors
    BY <1>3, AtPlace DEF Sound
  <1>5. /\ ListType(m) /\ m.head = l.head /\ m.next = l.next /\ m.prev = l.prev
        /\ m.expire[timer] = tSlots /\ \A g \in tDescriptors \ {timer} : m.expire[g] = l.expire[g]
    BY <1>4, RenewedIs
  <1> HIDE DEF m
  <1>6. m.next[timer] = (IF k < n THEN s[k + 1] ELSE 0) /\ (timer = m.head <=> k = 1)
    BY <1>3, <1>5, AtPlace
  <1>7. CASE k = n
    <2>1. Timers!adjust_timer(m, timer) = m
      BY <1>6, <1>7 DEF Timers!adjust_timer, Timers!NULL
    <2>2. Sound(m, n, s)
      BY <1>3, <1>7, LastRenewed DEF m
    <2> QED
      BY <1>3, <2>1, <2>2 DEF Has, m
  <1>8. CASE k < n
    <2>1. s[k + 1] # 0 /\ s[k + 1] # timer /\ s[k + 1] \in tDescriptors
      BY <1>3, <1>8, AtPlace
    <2>2. ~(m.expire[timer] < m.expire[s[k + 1]])
      <3>1. m.expire[s[k + 1]] \in 0..tSlots
        BY <1>5, <2>1, TypeOf
      <3> QED
        BY <1>5, <3>1, TimersAssumption
    <2>3. CASE k = 1
      <3> DEFINE q == Headless(m, s[1], s[2])
      <3>1. ListType(q) /\ TakenOut(l, q, n, s, 1) /\ q.expire[s[1]] = tSlots
        BY <1>3, <1>8, <2>3, HeadTakenOut DEF m
      <3>2. m.next[timer] = s[2] /\ timer = s[1] /\ timer = m.head /\ k + 1 = 2
        BY <1>3, <1>6, <1>8, <2>3
      <3>3. Timers!adjust_timer(m, timer) = Timers!insert_timer(q, timer, s[2])
        BY <2>1, <2>2, <3>2 DEF Timers!adjust_timer, Timers!NULL, Headless
      <3> HIDE DEF q
      <3> QED
        BY <1>3, <1>8, <2>3, <3>1, <3>2, <3>3, MovedKeeps DEF m
    <2>4. CASE k # 1
      <3> DEFINE q == Bypassed(m, s[k - 1], s[k + 1])
      <3>1. ListType(q) /\ TakenOut(l, q, n, s, k) /\ q.expire[s[k]] = tSlots
        BY <1>3, <1>8, <2>4, MiddleTakenOut DEF m
      <3>2. m.next[timer] = s[k + 1] /\ m.prev[timer] = s[k - 1] /\ timer # m.head
        BY <1>3, <1>5, <1>6, <1>8, <2>4, AtPlace
      <3>3. Timers!adjust_timer(m, timer) = Timers!insert_timer(q, timer, s[k + 1])
        BY <2>1, <2>2, <3>2 DEF Timers!adjust_timer, Timers!NULL, Timers!unlink, Bypassed
      <3> HIDE DEF q
      <3> QED
        BY <1>3, <1>8, <3>1, <3>3, MovedKeeps DEF m
    <2> QED
      BY <2>3, <2>4
  <1> QED
    BY <1>7, <1>8

(* Two nodes that lead to each other, neither later than timer: no place   *)
(* for timer is found.                                                     *)
LEMMA RingEndless ==
  ASSUME NEW q, NEW a \in tDescriptors, NEW b \in tDescriptors, q.next[a] = b, q.next[b] = a,
         NEW timer, ~(q.expire[timer] < q.expire[a]), ~(q.expire[timer] < q.expire[b])
  PROVE  Lists!Endless(q, timer, a)
  <1> DEFINE w == [m \in 0..Longest |-> IF m % 2 = 0 THEN a ELSE b]
  <1>1. \A m \in 0..Longest : w[m] = IF m % 2 = 0 THEN a ELSE b
    OBVIOUS
  <1>2. a # 0 /\ b # 0
    BY TimersAssumption
  <1>3. Longest \in Nat
    BY LongestIs
  <1>4. ASSUME NEW m \in 0..Longest
        PROVE  w[m] = IF m = 0 THEN a ELSE IF w[m - 1] = 0 THEN 0 ELSE q.next[w[m - 1]]
    <2>1. CASE m = 0
      BY <1>1, <2>1
    <2>2. CASE m # 0
      <3>1. m - 1 \in 0..Longest /\ m \in Nat
        BY <1>3, <2>2
      <3>2. (m % 2 = 0) <=> ~((m - 1) % 2 = 0)
        BY <2>2, <3>1
      <3> QED
        BY <1>1, <1>2, <2>2, <3>1, <3>2
    <2> QED
      BY <2>1, <2>2
  <1>5. Follows(w, q, a)
    <2>1. w = [m \in 0..Longest |-> w[m]]
      BY <1>1
    <2> HIDE DEF w
    <2> QED
      BY <1>4, <2>1 DEF Follows
  <1> HIDE DEF w
  <1>6. Lists!Site!After(q, a) = w
    BY <1>5, AfterIs
  <1>7. \A m \in 1..Longest : w[m] # 0 /\ ~(q.expire[timer] < q.expire[w[m]])
    BY <1>1, <1>2, <1>3
  <1>8. Lists!Cardinality(tDescriptors) = Longest
    BY TimersCardinality DEF Longest
  <1> QED
    BY <1>6, <1>7, <1>8 DEF Lists!Endless, Lists!Place, Lists!Site!NULL

(* The course's copy moves a timer only from the head, and hangs where the *)
(* node has a neighbour on either side.                                    *)
LEMMA ListsAdjustKeeps ==
  ASSUME NEW l, NEW fs, Has(l, fs), NEW timer \in fs, NEW m, m = Renewed(l, timer)
  PROVE  /\ ~Lists!Moves(m, timer) => Has(m, fs)
         /\ Lists!Moves(m, timer) /\ Lists!Endless(Lists!Detached(m, timer), timer, m.next[timer])
              => Cardinality(fs) >= 3
         /\ Lists!Moves(m, timer) /\ ~Lists!Endless(Lists!Detached(m, timer), timer, m.next[timer])
              => Has(Lists!insert_timer(Lists!Detached(m, timer), timer, m.next[timer]), fs)
  <1>1. PICK n \in Nat : \E s \in [1..n -> tDescriptors] : \E k \in 1..n :
           Sound(l, n, s) /\ Held(n, s) = fs /\ s[k] = timer
    BY PlaceIs
  <1>2. PICK s \in [1..n -> tDescriptors] : \E k \in 1..n :
           Sound(l, n, s) /\ Held(n, s) = fs /\ s[k] = timer
    BY <1>1
  <1>3. PICK k \in 1..n : Sound(l, n, s) /\ Held(n, s) = fs /\ s[k] = timer
    BY <1>2
  <1>4. ListType(l) /\ timer \in tDescriptors
    BY <1>3, AtPlace DEF Sound
  <1>5. /\ ListType(m) /\ m.head = l.head /\ m.next = l.next /\ m.prev = l.prev
        /\ m.expire[timer] = tSlots /\ \A g \in tDescriptors \ {timer} : m.expire[g] = l.expire[g]
    BY <1>4, RenewedIs
  <1>6. m.next[timer] = (IF k < n THEN s[k + 1] ELSE 0) /\ (timer = m.head <=> k = 1)
    BY <1>3, <1>5, AtPlace
  <1>7. CASE k = n
    <2>1. ~Lists!Moves(m, timer)
      BY <1>6, <1>7 DEF Lists!Moves, Lists!Site!NULL
    <2>2. Sound(m, n, s)
      BY <1>3, <1>7, LastRenewed
    <2> QED
      BY <1>3, <2>1, <2>2 DEF Has
  <1>8. CASE k < n
    <2>1. s[k + 1] # 0 /\ s[k + 1] # timer /\ s[k + 1] \in tDescriptors
      BY <1>3, <1>8, AtPlace
    <2>2. m.expire[s[k + 1]] \in 0..tSlots /\ m.expire[timer] >= m.expire[s[k + 1]]
      <3>1. m.expire[s[k + 1]] \in 0..tSlots
        BY <1>5, <2>1, TypeOf
      <3> QED
        BY <1>5, <3>1, TimersAssumption
    <2>3. Lists!Moves(m, timer)
      BY <1>6, <1>8, <2>1, <2>2 DEF Lists!Moves, Lists!Site!NULL
    <2>4. CASE k = 1
      <3> DEFINE q == Headless(m, s[1], s[2])
      <3>1. ListType(q) /\ TakenOut(l, q, n, s, 1) /\ q.expire[s[1]] = tSlots
        BY <1>3, <1>8, <2>4, HeadTakenOut
      <3>2. m.next[timer] = s[2] /\ timer = s[1] /\ timer = m.head /\ k + 1 = 2
        BY <1>3, <1>6, <1>8, <2>4
      <3>3. Lists!Detached(m, timer) = q
        BY <3>2 DEF Lists!Detached, Lists!Site!NULL, Headless
      <3> HIDE DEF q
      <3>4. Has(Lists!insert_timer(q, timer, s[2]), fs) /\ ~Lists!Endless(q, timer, s[2])
        BY <1>3, <1>8, <2>4, <3>1, <3>2, MovedKeeps
      <3> QED
        BY <2>3, <3>2, <3>3, <3>4
    <2>5. CASE k # 1
      <3>1. /\ m.next[timer] = s[k + 1] /\ m.prev[timer] = s[k - 1] /\ timer # m.head
            /\ s[k - 1] \in tDescriptors /\ s[k - 1] # timer /\ s[k - 1] # s[k + 1]
        BY <1>3, <1>5, <1>6, <1>8, <2>5, AtPlace
      <3> DEFINE q == Lists!Detached(m, timer)
      <3>2. q = [m EXCEPT !.next = [@ EXCEPT ![s[k - 1]] = s[k + 1], ![s[k + 1]] = s[k - 1]]]
        BY <3>1 DEF Lists!Detached, Lists!unlink
      <3> HIDE DEF q
      <3>3. q.next = [m.next EXCEPT ![s[k - 1]] = s[k + 1], ![s[k + 1]] = s[k - 1]] /\ q.expire = m.expire
        BY <1>5, <3>2 DEF ListType
      <3>4. q.next[s[k + 1]] = s[k - 1] /\ q.next[s[k - 1]] = s[k + 1]
        BY <1>5, <2>1, <3>1, <3>3, TypeOf
      <3>5. m.expire[s[k - 1]] \in 0..tSlots
        BY <1>5, <3>1, TypeOf
      <3>6. ~(q.expire[timer] < q.expire[s[k + 1]]) /\ ~(q.expire[timer] < q.expire[s[k - 1]])
        BY <1>5, <2>2, <3>3, <3>5, TimersAssumption
      <3>7. Lists!Endless(q, timer, s[k + 1])
        BY <2>1, <3>1, <3>4, <3>6, RingEndless
      <3>8. Joined(l, n, s)
        BY <1>3 DEF Sound
      <3>9. Cardinality(fs) = n
        BY <1>3, <3>8, JoinedIs
      <3>10. n >= 3
        BY <1>8, <2>5
      <3> QED
        BY <2>3, <3>1, <3>7, <3>9, <3>10 DEF q
    <2> QED
      BY <2>4, <2>5
  <1> QED
    BY <1>7, <1>8

(* The nodes s from the one behind the d-th on.                            *)
Behind(n, s, d) == [a \in 1..n - d |-> s[d + a]]

(* It has what the first d nodes are not.                                  *)
LEMMA BehindIs ==
  ASSUME NEW n \in Nat, NEW s \in [1..n -> tDescriptors], \A a, b \in 1..n : s[a] = s[b] => a = b,
         NEW d \in 0..n
  PROVE  /\ n - d \in Nat /\ Behind(n, s, d) \in [1..n - d -> tDescriptors]
         /\ \A a \in 1..n - d : d + a \in 1..n /\ Behind(n, s, d)[a] = s[d + a]
         /\ \A a, b \in 1..n - d : Behind(n, s, d)[a] = Behind(n, s, d)[b] => a = b
         /\ Held(n - d, Behind(n, s, d)) = Held(n, s) \ Held(d, s)
  <1> DEFINE t == Behind(n, s, d)
  <1>1. \A a \in 1..n - d : d + a \in 1..n /\ t[a] = s[d + a]
    BY DEF Behind
  <1>2. t \in [1..n - d -> tDescriptors] /\ n - d \in Nat
    BY DEF Behind
  <1> HIDE DEF t
  <1>3. \A a, b \in 1..n - d : t[a] = t[b] => a = b
    <2> SUFFICES ASSUME NEW a \in 1..n - d, NEW b \in 1..n - d, t[a] = t[b] PROVE a = b
      OBVIOUS
    <2>1. d + a = d + b
      BY <1>1
    <2> QED
      BY <2>1
  <1>4. Held(n - d, t) \subseteq Held(n, s) \ Held(d, s)
    <2> SUFFICES ASSUME NEW a \in 1..n - d PROVE t[a] \in Held(n, s) \ Held(d, s)
      BY DEF Held
    <2>1. d + a \in 1..n /\ t[a] = s[d + a] /\ d + a > d
      BY <1>1
    <2>2. \A j \in 1..d : j \in 1..n /\ j # d + a
      BY <2>1
    <2> QED
      BY <2>1, <2>2 DEF Held
  <1>5. Held(n, s) \ Held(d, s) \subseteq Held(n - d, t)
    <2> SUFFICES ASSUME NEW x \in 1..n, x \notin 1..d PROVE s[x] \in Held(n - d, t)
      BY DEF Held
    <2>1. x - d \in 1..n - d /\ d + (x - d) = x
      OBVIOUS
    <2>2. t[x - d] = s[x]
      BY <1>1, <2>1
    <2> QED
      BY <2>1, <2>2 DEF Held
  <1> QED
    BY <1>1, <1>2, <1>3, <1>4, <1>5 DEF t

(* The nodes that tick() takes are the first d, as many as are due.        *)
LEMMA TickedAre ==
  ASSUME NEW l, NEW n \in Nat, NEW s \in [1..n -> tDescriptors], Joined(l, n, s)
  PROVE  \E d \in 0..n :
           /\ Timers!Ticked(l) = Held(d, s)
           /\ Lists!Site!Ticked(l) = Held(d, s)
  <1> DEFINE w == Along(n, s)
             Stays(m) == w[m] = 0 \/ l.expire[w[m]] > 0
             S == {m \in 0..Longest : Stays(m)}
  <1>1. \A m \in 0..Longest : w[m] = IF m < n THEN s[m + 1] ELSE 0
    BY DEF Along
  <1>2. DOMAIN w = 0..Longest
    BY DEF Along
  <1>3. Chain(l, n, s) /\ n <= Longest /\ Longest \in Nat /\ n \in 0..Longest
    BY JoinedIs, LongestIs
  <1>4. l.head = IF n = 0 THEN 0 ELSE s[1]
    BY DEF Joined
  <1>5. Timers!After(l, l.head) = w /\ Lists!Site!After(l, l.head) = w
    BY <1>3, <1>4, ChainFollows
  <1> HIDE DEF w
  <1>6. n \in S /\ S \subseteq Nat /\ S \subseteq 0..Longest
    BY <1>1, <1>3
  <1>7. PICK d \in S : \A m \in S : d <= m
    <2> HIDE DEF S
    <2> QED
      BY <1>6, LeastOf
  <1>8. d \in 0..n /\ d \in 0..Longest /\ Stays(d)
    BY <1>3, <1>6, <1>7
  <1>9. \A m \in 0..d - 1 : m \in 0..Longest /\ ~Stays(m)
    BY <1>3, <1>7, <1>8
  <1> DEFINE Due == {m \in DOMAIN w : \A k \in 0..m : ~Stays(k)}
  <1>10. Due = 0..d - 1
    <2>1. ASSUME NEW m \in Due PROVE m \in 0..d - 1
      <3>1. m \in 0..Longest /\ ~(d \in 0..m)
        BY <1>2, <1>8
      <3> QED
        BY <1>3, <1>8, <3>1
    <2>2. ASSUME NEW m \in 0..d - 1 PROVE m \in Due
      <3>1. \A k \in 0..m : k \in 0..d - 1
        BY <1>3, <1>8
      <3> QED
        BY <1>2, <1>9, <3>1
    <2> QED
      BY <2>1, <2>2
  <1>11. Timers!Ticked(l) = {w[m] : m \in Due} /\ Lists!Site!Ticked(l) = {w[m] : m \in Due}
    BY <1>5 DEF Timers!Ticked, Lists!Site!Ticked, Timers!NULL, Lists!Site!NULL
  <1> HIDE DEF Due, Stays
  <1>12. {w[m] : m \in 0..d - 1} = Held(d, s)
    <2>1. \A m \in 0..d - 1 : m + 1 \in 1..d /\ w[m] = s[m + 1]
      BY <1>1, <1>3, <1>8
    <2>2. \A j \in 1..d : j - 1 \in 0..d - 1 /\ w[j - 1] = s[j]
      BY <1>1, <1>3, <1>8
    <2>3. {w[m] : m \in 0..d - 1} \subseteq Held(d, s)
      BY <2>1 DEF Held
    <2>4. Held(d, s) \subseteq {w[m] : m \in 0..d - 1}
      BY <2>2 DEF Held
    <2> QED
      BY <2>3, <2>4
  <1> QED
    BY <1>8, <1>10, <1>11, <1>12

(* tick() leaves the nodes that are not due, in order.                     *)
LEMMA TickKeeps ==
  ASSUME NEW l, NEW fs, Has(l, fs), NEW due, NEW r,
         \/ due = Timers!Ticked(l) /\ r = Timers!tick(l)
         \/ due = Lists!Site!Ticked(l) /\ r = Lists!Site!tick(l)
  PROVE  due \subseteq fs /\ Has(r, fs \ due)
  <1>1. PICK n \in Nat : \E s \in [1..n -> tDescriptors] : Sound(l, n, s) /\ Held(n, s) = fs
    BY DEF Has
  <1>2. PICK s \in [1..n -> tDescriptors] : Sound(l, n, s) /\ Held(n, s) = fs
    BY <1>1
  <1>3. /\ ListType(l) /\ Joined(l, n, s) /\ Ordered(l, n, s) /\ Clean(l, fs)
        /\ \A a, b \in 1..n : s[a] = s[b] => a = b
    BY <1>2 DEF Sound, Joined
  <1>4. PICK d \in 0..n : Timers!Ticked(l) = Held(d, s) /\ Lists!Site!Ticked(l) = Held(d, s)
    BY <1>3, TickedAre
  <1>5. due = Held(d, s)
    BY <1>4
  <1> DEFINE t == Behind(n, s, d)
             w == Along(n, s)
             head == w[d]
  <1>6. /\ n - d \in Nat /\ t \in [1..n - d -> tDescriptors]
        /\ \A a \in 1..n - d : d + a \in 1..n /\ t[a] = s[d + a]
        /\ \A a, b \in 1..n - d : t[a] = t[b] => a = b
        /\ Held(n - d, t) = fs \ due
    BY <1>2, <1>3, <1>5, BehindIs
  <1>7. Cardinality(due) = d
    <2> DEFINE u == [j \in 1..d |-> s[j]]
    <2>1. u \in [1..d -> tDescriptors] /\ d \in Nat /\ \A a, b \in 1..d : u[a] = u[b] => a = b
      BY <1>3
    <2>2. due = {u[j] : j \in 1..d}
      BY <1>5 DEF Held
    <2> HIDE DEF u
    <2> QED
      BY <2>1, <2>2, ManyAre
  <1>8. Chain(l, n, s) /\ n <= Longest /\ Longest \in Nat /\ d \in 0..Longest
    BY <1>3, JoinedIs, LongestIs
  <1>9. l.head = IF n = 0 THEN 0 ELSE s[1]
    BY <1>3 DEF Joined
  <1>10. Timers!After(l, l.head) = w /\ Lists!Site!After(l, l.head) = w
    BY <1>8, <1>9, ChainFollows
  <1>11. head = IF d < n THEN s[d + 1] ELSE 0
    BY <1>8 DEF Along
  <1> HIDE DEF w, t
  <1> DEFINE q == [l EXCEPT !.head = head, !.prev = IF head = 0 THEN @ ELSE [@ EXCEPT ![head] = 0]]
  <1>12. r = Timers!Freed(q, due) \/ r = Lists!Site!Freed(q, due)
    BY <1>4, <1>5, <1>7, <1>10, TimersCardinality
    DEF Timers!tick, Lists!Site!tick, Timers!NULL, Lists!Site!NULL
  <1>13. (d < n => s[d + 1] \in tDescriptors /\ s[d + 1] # 0) /\ head \in tDescriptors \cup {0}
    BY <1>11, TimersAssumption
  <1>14. /\ q.head = head /\ q.tail = l.tail /\ q.next = l.next /\ q.expire = l.expire
         /\ q.prev = IF head = 0 THEN l.prev ELSE [l.prev EXCEPT ![head] = 0]
    BY <1>3 DEF ListType
  <1>15. ListType(q)
    <2> DEFINE prev == IF head = 0 THEN l.prev ELSE [l.prev EXCEPT ![head] = 0]
    <2>1. q \in [head : {head}, tail : {l.tail}, prev : {prev}, next : {l.next}, expire : {l.expire}]
      BY <1>3 DEF ListType
    <2>2. prev \in [tDescriptors -> tDescriptors \cup {0}]
      BY <1>3, <1>13, TypeOf
    <2> HIDE DEF prev, head
    <2> QED
      BY <1>3, <1>13, <2>1, <2>2, TypeOf DEF ListType
  <1> HIDE DEF q
  <1>16. \A f \in tDescriptors : q.prev[f] = IF f = head THEN 0 ELSE l.prev[f]
    <2>1. head \in tDescriptors => head # 0
      BY TimersAssumption
    <2>2. l.prev \in [tDescriptors -> tDescriptors \cup {0}] /\ 0 \notin tDescriptors
      BY <1>3, TypeOf, TimersAssumption
    <2> HIDE DEF head
    <2> QED
      BY <1>13, <1>14, <2>1, <2>2
  <1> HIDE DEF head
  <1>17. ASSUME NEW a \in 1..(n - d) - 1
         PROVE  /\ q.next[t[a]] = t[a + 1] /\ q.prev[t[a + 1]] = t[a]
                /\ q.expire[t[a]] <= q.expire[t[a + 1]]
    <2>1. a \in 1..n - d /\ a + 1 \in 1..n - d /\ d + a \in 1..n - 1 /\ d + (a + 1) = (d + a) + 1
      BY <1>6
    <2>2. t[a] = s[d + a] /\ t[a + 1] = s[(d + a) + 1]
      BY <1>6, <2>1
    <2>3. /\ l.next[t[a]] = t[a + 1] /\ l.prev[t[a + 1]] = t[a] /\ l.expire[t[a]] <= l.expire[t[a + 1]]
      BY <1>3, <2>1, <2>2 DEF Joined, Ordered
    <2>4. t[a + 1] # head /\ t[a + 1] \in tDescriptors
      <3>1. d < n /\ d + 1 \in 1..n /\ d + 1 # (d + a) + 1 /\ (d + a) + 1 \in 1..n
        BY <2>1
      <3> QED
        BY <1>3, <1>11, <2>2, <3>1
    <2> QED
      BY <1>14, <1>16, <2>3, <2>4
  <1>18. q.head = IF n - d = 0 THEN 0 ELSE t[1]
    BY <1>6, <1>11, <1>14
  <1>19. n - d > 0 => q.tail = t[n - d] /\ q.prev[t[1]] = 0 /\ q.next[t[n - d]] = 0
    <2> SUFFICES ASSUME n - d > 0 PROVE q.tail = t[n - d] /\ q.prev[t[1]] = 0 /\ q.next[t[n - d]] = 0
      OBVIOUS
    <2>1. n - d \in 1..n - d /\ 1 \in 1..n - d /\ d + (n - d) = n /\ n > 0
      BY <1>6
    <2>2. t[n - d] = s[n] /\ l.tail = s[n] /\ l.next[s[n]] = 0
      BY <1>3, <1>6, <2>1 DEF Joined
    <2>3. t[1] = head /\ t[1] \in tDescriptors
      BY <1>6, <1>14, <1>18, <2>1
    <2> QED
      BY <1>14, <1>16, <2>2, <2>3
  <1>20. Joined(q, n - d, t)
    BY <1>6, <1>17, <1>18, <1>19 DEF Joined
  <1>21. Ordered(q, n - d, t)
    BY <1>17 DEF Ordered
  <1>22. due \subseteq fs
    <2>1. \A j \in 1..d : j \in 1..n
      OBVIOUS
    <2> QED
      BY <1>2, <1>5, <2>1 DEF Held
  <1>23. (fs \ due) \cup due = fs /\ due \subseteq tDescriptors /\ due \cap (fs \ due) = {}
    BY <1>2, <1>22 DEF Held
  <1>24. Clean(q, fs)
    <2>1. head \in fs \/ head = 0
      <3>1. d < n => d + 1 \in 1..n
        OBVIOUS
      <3> QED
        BY <1>2, <1>11, <3>1 DEF Held
    <2> QED
      BY <1>3, <1>14, <1>16, <2>1 DEF Clean
  <1>25. Clean(q, Held(n - d, t) \cup due) /\ due \cap Held(n - d, t) = {}
    BY <1>6, <1>23, <1>24
  <1>26. Sound(r, n - d, t)
    <2>1. ListType(q) /\ Joined(q, n - d, t) /\ Ordered(q, n - d, t)
      BY <1>15, <1>20, <1>21
    <2>2. /\ due \subseteq tDescriptors /\ due \cap Held(n - d, t) = {}
          /\ Clean(q, Held(n - d, t) \cup due)
      BY <1>23, <1>25
    <2> DEFINE m == n - d
    <2>3. /\ ListType(q) /\ Joined(q, m, t) /\ Ordered(q, m, t)
          /\ due \subseteq tDescriptors /\ due \cap Held(m, t) = {} /\ Clean(q, Held(m, t) \cup due)
          /\ (r = Timers!Freed(q, due) \/ r = Lists!Site!Freed(q, due))
      BY <1>12, <2>1, <2>2
    <2> HIDE DEF m
    <2>4. Sound(r, m, t)
      BY <2>3, FreedKeeps
    <2> QED
      BY <2>4 DEF m
  <1> QED
    BY <1>6, <1>22, <1>26 DEF Has

(* A slot of time passes for every node.                                   *)
Passed(l) == [l EXCEPT !.expire = [f \in tDescriptors |-> IF @[f] > 0 THEN @[f] - 1 ELSE 0]]

(* Time passes alike for all, so that the order stays.                     *)
LEMMA PassedKeeps ==
  ASSUME NEW l, NEW fs, Has(l, fs)
  PROVE  Has(Passed(l), fs)
  <1>1. PICK n \in Nat : \E s \in [1..n -> tDescriptors] : Sound(l, n, s) /\ Held(n, s) = fs
    BY DEF Has
  <1>2. PICK s \in [1..n -> tDescriptors] : Sound(l, n, s) /\ Held(n, s) = fs
    BY <1>1
  <1> DEFINE r == Passed(l)
             late == [f \in tDescriptors |-> IF l.expire[f] > 0 THEN l.expire[f] - 1 ELSE 0]
  <1>3. ListType(l) /\ Joined(l, n, s) /\ Ordered(l, n, s) /\ Clean(l, fs)
    BY <1>2 DEF Sound
  <1>4. /\ r.head = l.head /\ r.tail = l.tail /\ r.next = l.next /\ r.prev = l.prev
        /\ r.expire = late
        /\ r \in [head : {l.head}, tail : {l.tail}, prev : {l.prev}, next : {l.next}, expire : {late}]
    BY <1>3 DEF Passed, ListType
  <1>5. \A f \in tDescriptors : l.expire[f] \in 0..tSlots
    BY <1>3, TypeOf
  <1>6. late \in [tDescriptors -> 0..tSlots]
    BY <1>5, TimersAssumption
  <1>7. \A f, g \in tDescriptors : l.expire[f] <= l.expire[g] => late[f] <= late[g]
    BY <1>5, TimersAssumption
  <1> HIDE DEF r, late
  <1>8. ListType(r)
    BY <1>3, <1>4, <1>6, TypeOf DEF ListType
  <1>9. Joined(r, n, s) /\ Clean(r, fs)
    BY <1>3, <1>4 DEF Joined, Clean
  <1>10. Ordered(r, n, s)
    <2> SUFFICES ASSUME NEW a \in 1..n - 1 PROVE r.expire[s[a]] <= r.expire[s[a + 1]]
      BY DEF Ordered
    <2>1. a \in 1..n /\ a + 1 \in 1..n
      OBVIOUS
    <2> QED
      BY <1>3, <1>4, <1>7, <2>1 DEF Ordered
  <1> QED
    BY <1>2, <1>8, <1>9, <1>10 DEF Has, Sound, r

(* What Has says is what ListSound asks for.                               *)
LEMMA HasTells == Has(list, tOpen) => Timers!ListSound /\ Lists!Site!ListSound
  <1> SUFFICES ASSUME Has(list, tOpen) PROVE Timers!ListSound /\ Lists!Site!ListSound
    OBVIOUS
  <1>1. PICK n \in Nat : \E s \in [1..n -> tDescriptors] : Sound(list, n, s) /\ Held(n, s) = tOpen
    BY DEF Has
  <1>2. PICK s \in [1..n -> tDescriptors] : Sound(list, n, s) /\ Held(n, s) = tOpen
    BY <1>1
  <1> DEFINE w == Along(n, s)
  <1>3. Joined(list, n, s) /\ Ordered(list, n, s)
    BY <1>2 DEF Sound
  <1>4. Chain(list, n, s) /\ n <= Longest /\ Longest \in Nat /\ n \in 0..Longest
    BY <1>3, JoinedIs, LongestIs
  <1>5. list.head = IF n = 0 THEN 0 ELSE s[1]
    BY <1>3 DEF Joined
  <1>6. Timers!After(list, list.head) = w /\ Lists!Site!After(list, list.head) = w
    BY <1>4, <1>5, ChainFollows
  <1>7. DOMAIN w = 0..Longest /\ \A m \in 0..Longest : w[m] = IF m < n THEN s[m + 1] ELSE 0
    BY DEF Along
  <1> HIDE DEF w
  <1>8. {w[m] : m \in DOMAIN w} \ {0} = tOpen
    <2>1. ASSUME NEW m \in DOMAIN w, w[m] # 0 PROVE w[m] \in tOpen
      <3>1. m + 1 \in 1..n /\ w[m] = s[m + 1]
        BY <1>4, <1>7, <2>1
      <3> QED
        BY <1>2, <3>1 DEF Held
    <2>2. ASSUME NEW x \in 1..n PROVE s[x] \in {w[m] : m \in DOMAIN w} \ {0}
      <3>1. x - 1 \in 0..Longest /\ w[x - 1] = s[x]
        BY <1>4, <1>7
      <3>2. s[x] # 0
        BY TimersAssumption
      <3> QED
        BY <1>7, <3>1, <3>2
    <2>3. tOpen \subseteq {w[m] : m \in DOMAIN w} \ {0}
      BY <1>2, <2>2 DEF Held
    <2>4. {w[m] : m \in DOMAIN w} \ {0} \subseteq tOpen
      BY <2>1
    <2> QED
      BY <2>3, <2>4
  <1>9. Timers!Nodes = tOpen /\ Lists!Site!Nodes = tOpen
    BY <1>6, <1>8 DEF Timers!Nodes, Lists!Site!Nodes, Timers!NULL, Lists!Site!NULL
  <1>10. list.head # 0 => /\ list.prev[list.head] = 0
                          /\ list.tail \in tOpen /\ list.next[list.tail] = 0
    <2> SUFFICES ASSUME list.head # 0 PROVE list.prev[list.head] = 0 /\ list.tail \in tOpen /\ list.next[list.tail] = 0
      OBVIOUS
    <2>1. n > 0 /\ n \in 1..n
      BY <1>5
    <2> QED
      BY <1>2, <1>3, <1>5, <2>1 DEF Joined, Held
  <1>11. ASSUME NEW f \in tOpen, list.next[f] # 0
         PROVE  list.prev[list.next[f]] = f /\ list.expire[f] <= list.expire[list.next[f]]
    <2>1. PICK x \in 1..n : f = s[x]
      BY <1>2 DEF Held
    <2>2. x \in 1..n - 1
      BY <1>3, <1>11, <2>1 DEF Joined
    <2> QED
      BY <1>3, <2>1, <2>2 DEF Joined, Ordered
  <1> QED
    BY <1>9, <1>10, <1>11 DEF Timers!ListSound, Lists!Site!ListSound, Timers!NULL, Lists!Site!NULL

(* Nothing is in the list: no node, no connection.                         *)
LEMMA HasNone ==
  ASSUME NEW l, l = [head |-> 0, tail |-> 0, prev |-> [f \in tDescriptors |-> 0],
                     next |-> [f \in tDescriptors |-> 0], expire |-> [f \in tDescriptors |-> 0]]
  PROVE  Has(l, {})
  <1> DEFINE s == [a \in 1..0 |-> 0]
  <1>0. \A a \in 1..0 : FALSE
    OBVIOUS
  <1>1. s \in [1..0 -> tDescriptors]
    BY <1>0
  <1> HIDE DEF s
  <1>2. ListType(l)
    BY TimersAssumption DEF ListType
  <1>3. Held(0, s) = {}
    BY <1>0 DEF Held
  <1>4. Joined(l, 0, s) /\ Ordered(l, 0, s)
    BY <1>0, <1>1 DEF Joined, Ordered
  <1>5. Clean(l, {})
    BY DEF Clean
  <1> QED
    BY <1>1, <1>2, <1>3, <1>4, <1>5 DEF Has, Sound

(* What the list holds can be counted.                                     *)
LEMMA HasFinite ==
  ASSUME NEW l, NEW fs, Has(l, fs)
  PROVE  fs \subseteq tDescriptors /\ IsFiniteSet(fs) /\ Cardinality(fs) \in Nat
  <1>1. fs \subseteq tDescriptors
    BY DEF Has, Held
  <1> QED
    BY <1>1, TimersAssumption, FS_Subset, FS_CardinalityType

(* An event of the listening socket, or an edge of it, stands for one      *)
(* connection at least that is not accepted yet.                           *)
Awaited == /\ tBacklog \in Nat /\ tClients \in Nat
           /\ tBacklog + Cardinality(tOpen) <= tClients /\ tClients <= tMaxClients
           /\ -1 \in edges \/ -1 \in tEvents => tBacklog >= 1
           /\ -1 \in edges /\ -1 \in tEvents => tBacklog >= 2

(* The list holds the open connections; what is to be reported or handled  *)
(* is of an open connection; main of the copy hangs only with three of them. *)
ListsInv ==
  /\ Has(list, tOpen)
  /\ (edges \cup tEvents) \cap tDescriptors \subseteq tOpen
  /\ Awaited
  /\ pc \in {"poll", "handle", "hung"}
  /\ pc = "poll" => tEvents = {}
  /\ pc = "hung" => Cardinality(tOpen) >= 3
  /\ prog = "timers" => pc # "hung"

(* A step of Programs is a step of the list that runs, or none.            *)
LEMMA ListsStep ==
  [Next]_vars => /\ UNCHANGED prog
                 /\ prog = "timers" => [Timers!Next]_timerVars
                 /\ prog # "timers" => [Lists!Next]_timerVars
  BY DEF Next, vars, courseVars, ConnOnly, ServerOnly, TimersOnly, CourseOnly, ReapingOnly,
     LastOnly

LEMMA ListsInit == Timers!Init => ListsInv
  <1> SUFFICES ASSUME Timers!Init PROVE ListsInv
    OBVIOUS
  <1>1. tBacklog = 0 /\ tClients = 0 /\ tOpen = {} /\ edges = {} /\ tEvents = {} /\ pc = "poll"
    BY DEF Timers!Init
  <1>2. Has(list, tOpen)
    BY <1>1, HasNone DEF Timers!Init, Timers!NULL
  <1>3. Awaited
    BY <1>1, FS_EmptySet, TimersAssumption DEF Awaited
  <1> QED
    BY <1>1, <1>2, <1>3 DEF ListsInv

LEMMA NotDescriptors == -1 \notin tDescriptors /\ -2 \notin tDescriptors
  BY TimersAssumption

(* What clients, signals and the clock do.                                 *)
Arrives == /\ tClients < tMaxClients /\ tClients' = tClients + 1 /\ tBacklog' = tBacklog + 1
           /\ edges' = edges \cup {-1} /\ list' = list
Elsewhere == /\ tBacklog' = tBacklog /\ tClients' = tClients
             /\ edges' \subseteq edges \cup tOpen \cup {-2}
             /\ list' \in {list, Passed(list)}

(* Nothing else changes in the world.                                      *)
LEMMA WorldIs ==
  Timers!World \/ Lists!World =>
    (Arrives \/ Elsewhere) /\ tOpen' = tOpen /\ tEvents' = tEvents /\ pc' = pc
  <1>1. Timers!Connect \/ Lists!Site!Connect => Arrives /\ tOpen' = tOpen
    BY DEF Timers!Connect, Lists!Site!Connect, Timers!listenfd, Lists!Site!listenfd, Arrives
  <1>2. Timers!Terminate \/ Lists!Site!Terminate => Elsewhere /\ tOpen' = tOpen
    BY DEF Timers!Terminate, Lists!Site!Terminate, Timers!Signal, Lists!Site!Signal,
      Timers!pipefd, Lists!Site!pipefd, Elsewhere
  <1>3. Timers!Slot \/ Lists!Site!Slot => Elsewhere /\ tOpen' = tOpen
    <2>1. Timers!Slot \/ Lists!Site!Slot => list' = Passed(list)
      BY DEF Timers!Slot, Lists!Site!Slot, Passed
    <2>2. Timers!Slot \/ Lists!Site!Slot =>
            tBacklog' = tBacklog /\ tClients' = tClients /\ tOpen' = tOpen /\ edges' \subseteq edges \cup {-2}
      BY DEF Timers!Slot, Lists!Site!Slot, Timers!Signal, Lists!Site!Signal, Timers!pipefd,
         Lists!Site!pipefd
    <2> QED
      BY <2>1, <2>2 DEF Elsewhere
  <1>4. ASSUME NEW f \in tDescriptors, Timers!Send(f) \/ Lists!Site!Send(f)
        PROVE  Elsewhere /\ tOpen' = tOpen
    BY <1>4 DEF Timers!Send, Lists!Site!Send, Elsewhere
  <1>5. ASSUME NEW f \in tDescriptors, Timers!Leave(f) \/ Lists!Site!Leave(f)
        PROVE  Elsewhere /\ tOpen' = tOpen
    BY <1>5 DEF Timers!Leave, Lists!Site!Leave, Elsewhere
  <1> QED
    BY <1>1, <1>2, <1>3, <1>4, <1>5 DEF Timers!World, Lists!World, Lists!Site!World

LEMMA WorldKeeps ==
  ASSUME ListsInv, Timers!World \/ Lists!World, prog' = prog
  PROVE  ListsInv'
  <1>1. (Arrives \/ Elsewhere) /\ tOpen' = tOpen /\ tEvents' = tEvents /\ pc' = pc
    BY WorldIs
  <1>2. Cardinality(tOpen)' = Cardinality(tOpen) /\ Cardinality(tOpen) \in Nat /\ tOpen \subseteq tDescriptors
    BY <1>1, HasFinite DEF ListsInv
  <1>3. Has(list', tOpen')
    BY <1>1, PassedKeeps DEF ListsInv, Arrives, Elsewhere
  <1>4. (edges' \cup tEvents') \cap tDescriptors \subseteq tOpen'
    BY <1>1, NotDescriptors DEF ListsInv, Arrives, Elsewhere
  <1>5. Awaited'
    <2> DEFINE count == Cardinality(tOpen)
    <2>1. count' = count /\ count \in Nat
      BY <1>2
    <2>2. tMaxClients \in Nat
      BY TimersAssumption
    <2>3. -1 \notin tOpen
      BY <1>2, NotDescriptors
    <2>4. Awaited
      BY DEF ListsInv
    <2> HIDE DEF count
    <2>5. CASE Arrives
      <3>1. /\ tBacklog' = tBacklog + 1 /\ tClients' = tClients + 1 /\ tClients < tMaxClients
            /\ tEvents' = tEvents /\ tBacklog \in Nat /\ tClients \in Nat
            /\ tBacklog + count <= tClients
            /\ (-1 \in tEvents => tBacklog >= 1)
        BY <1>1, <2>4, <2>5 DEF Awaited, Arrives, count
      <3> QED
        BY <2>1, <2>2, <3>1 DEF Awaited, count
    <2>6. CASE Elsewhere
      <3>1. tBacklog' = tBacklog /\ tClients' = tClients /\ tEvents' = tEvents /\ (-1 \in edges' => -1 \in edges)
        BY <1>1, <2>3, <2>6 DEF Elsewhere
      <3> QED
        BY <2>1, <2>4, <3>1 DEF Awaited, count
    <2> QED
      BY <1>1, <2>5, <2>6
  <1> QED
    BY <1>1, <1>2, <1>3, <1>4, <1>5 DEF ListsInv

(* The loop of main.                                                       *)
LEMMA ListsWaitKeeps ==
  ASSUME ListsInv, Timers!epoll_wait \/ Lists!epoll_wait, prog' = prog
  PROVE  ListsInv'
  <1>1. /\ pc = "poll" /\ pc' = "handle" /\ tEvents' = edges /\ edges' = {}
        /\ tBacklog' = tBacklog /\ tClients' = tClients /\ tOpen' = tOpen /\ list' = list
    BY DEF Timers!epoll_wait, Lists!epoll_wait, Lists!Site!epoll_wait
  <1>2. Awaited'
    BY <1>1 DEF ListsInv, Awaited
  <1> QED
    BY <1>1, <1>2 DEF ListsInv

(* There is a descriptor for a connection that waits.                      *)
LEMMA FreeDescriptor ==
  ASSUME ListsInv, -1 \in tEvents
  PROVE  /\ Timers!Lowest(tDescriptors \ tOpen) \in tDescriptors \ tOpen
         /\ Lists!Site!Lowest(tDescriptors \ tOpen) \in tDescriptors \ tOpen
  <1>1. tOpen \subseteq tDescriptors /\ Cardinality(tOpen) \in Nat
    BY HasFinite DEF ListsInv
  <1>2. Cardinality(tOpen) < Cardinality(tDescriptors)
    <2> DEFINE count == Cardinality(tOpen)
    <2>1. /\ tBacklog >= 1 /\ tBacklog \in Nat /\ tClients \in Nat /\ count \in Nat
          /\ tBacklog + count <= tClients /\ tClients <= tMaxClients
      BY <1>1 DEF ListsInv, Awaited
    <2>2. tMaxClients <= Longest /\ tMaxClients \in Nat /\ Longest \in Nat
      BY TimersAssumption, LongestIs DEF Longest
    <2> HIDE DEF count
    <2>3. count < Longest
      BY <2>1, <2>2
    <2> QED
      BY <2>3 DEF count, Longest
  <1>3. tOpen # tDescriptors
    BY <1>1, <1>2
  <1> DEFINE free == tDescriptors \ tOpen
  <1>4. free # {} /\ free \subseteq Nat
    BY <1>1, <1>3, TimersAssumption
  <1> HIDE DEF free
  <1>5. \E f \in free : \A g \in free : f <= g
    BY <1>4, LeastOf
  <1>6. Timers!Lowest(free) \in free /\ Lists!Site!Lowest(free) \in free
    BY <1>5 DEF Timers!Lowest, Lists!Site!Lowest
  <1> QED
    BY <1>6 DEF free

(* An accept adds a connection and its timer.                              *)
LEMMA ListsAcceptKeeps ==
  ASSUME ListsInv, (Timers!Accept /\ pc' = pc) \/ Lists!Accept, prog' = prog
  PROVE  ListsInv'
  <1>1. /\ -1 \in tEvents /\ tEvents' = tEvents \ {-1}
        /\ tBacklog' = tBacklog - 1
        /\ UNCHANGED tClients /\ UNCHANGED edges /\ UNCHANGED pc
    BY DEF Timers!Accept, Lists!Accept, Timers!listenfd, Lists!Site!listenfd
  <1>2. PICK c \in tDescriptors \ tOpen :
          /\ tOpen' = tOpen \cup {c}
          /\ \/ list' = Timers!add_timer(Renewed(list, c), c)
             \/ list' = Lists!add_timer(Renewed(list, c), c)
    BY <1>1, FreeDescriptor DEF Timers!Accept, Lists!Accept, Renewed
  <1>3. Has(list', tOpen')
    BY <1>2, AddKeeps DEF ListsInv
  <1>4. IsFiniteSet(tOpen) /\ Cardinality(tOpen) \in Nat
    BY HasFinite DEF ListsInv
  <1>5. Cardinality(tOpen)' = Cardinality(tOpen) + 1
    BY <1>2, <1>4, FS_AddElement
  <1>6. Awaited'
    <2> DEFINE count == Cardinality(tOpen)
    <2>1. count' = count + 1 /\ count \in Nat
      BY <1>4, <1>5
    <2>2. Awaited
      BY DEF ListsInv
    <2>3. tBacklog \in Nat /\ tBacklog >= 1 /\ (-1 \in edges => tBacklog >= 2) /\ tBacklog + count <= tClients
          /\ tClients \in Nat /\ tClients <= tMaxClients
      BY <1>1, <2>2 DEF Awaited
    <2>4. tBacklog' \in Nat /\ (-1 \in edges' => tBacklog' >= 1) /\ -1 \notin tEvents'
      BY <1>1, <2>3
    <2> HIDE DEF count
    <2>5. tBacklog' + count' <= tClients' /\ tClients' \in Nat /\ tClients' <= tMaxClients
      BY <1>1, <2>1, <2>3
    <2> QED
      BY <2>4, <2>5 DEF Awaited, count
  <1>7. (edges' \cup tEvents') \cap tDescriptors \subseteq tOpen'
    BY <1>1, <1>2 DEF ListsInv
  <1>8. pc' = "hung" => Cardinality(tOpen)' >= 3
    BY <1>1, <1>4, <1>5 DEF ListsInv
  <1>9. pc' = "poll" => tEvents' = {}
    BY <1>1 DEF ListsInv
  <1> QED
    BY <1>1, <1>3, <1>6, <1>7, <1>8, <1>9 DEF ListsInv

(* Closing connections leaves room.                                        *)
LEMMA StillAwaited ==
  ASSUME ListsInv, tBacklog' = tBacklog, tClients' = tClients, tOpen' \subseteq tOpen,
         edges' \subseteq edges, tEvents' \subseteq tEvents
  PROVE  Awaited'
  <1>1. IsFiniteSet(tOpen) /\ Cardinality(tOpen) \in Nat
    BY HasFinite DEF ListsInv
  <1>2. Cardinality(tOpen') \in Nat /\ Cardinality(tOpen') <= Cardinality(tOpen)
    BY <1>1, FS_Subset, FS_CardinalityType
  <1> DEFINE count == Cardinality(tOpen)
             left == Cardinality(tOpen')
  <1>3. count \in Nat /\ left \in Nat /\ left <= count
    BY <1>1, <1>2
  <1>4. Awaited
    BY DEF ListsInv
  <1>5. tBacklog + count <= tClients /\ tBacklog \in Nat /\ tClients \in Nat
    BY <1>4 DEF Awaited
  <1> HIDE DEF count
  <1> HIDE DEF left
  <1>6. tBacklog' + left <= tClients'
    BY <1>3, <1>5
  <1> QED
    BY <1>4, <1>6 DEF Awaited, left

(* One event is handled and main goes on.                                  *)
LEMMA GoesOn ==
  ASSUME ListsInv, tBacklog' = tBacklog, tClients' = tClients, tOpen' \subseteq tOpen,
         edges' \subseteq edges, tEvents' \subseteq tEvents,
         (edges' \cup tEvents') \cap tDescriptors \subseteq tOpen', Has(list', tOpen'),
         pc = "handle", pc' = "handle" \/ (pc' = "poll" /\ tEvents' = {}), prog' = prog
  PROVE  ListsInv'
  <1>1. Awaited'
    BY StillAwaited
  <1> QED
    BY <1>1 DEF ListsInv

LEMMA SignalsKeeps ==
  ASSUME ListsInv, pc = "handle", Timers!ReadSignals \/ Lists!Site!ReadSignals, pc' = pc, prog' = prog
  PROVE  ListsInv'
  <1>1. /\ UNCHANGED tBacklog /\ UNCHANGED tClients /\ UNCHANGED tOpen /\ UNCHANGED edges
        /\ UNCHANGED list /\ tEvents' \subseteq tEvents
    BY DEF Timers!ReadSignals, Lists!Site!ReadSignals
  <1>2. Has(list', tOpen') /\ (edges' \cup tEvents') \cap tDescriptors \subseteq tOpen'
    BY <1>1 DEF ListsInv
  <1> QED
    BY <1>1, <1>2, GoesOn

(* The descriptor of an event is of a connection.                          *)
LEMMA EventOpen == ASSUME ListsInv, NEW f \in tDescriptors, f \in tEvents PROVE f \in tOpen
  BY DEF ListsInv

(* recv() returns 0: the connection is closed.                             *)
LEMMA EndKeeps ==
  ASSUME ListsInv, pc = "handle", pc' = pc, prog' = prog,
         NEW f \in tDescriptors, f \in tEvents, tEvents' = tEvents \ {f},
         tOpen' = tOpen \ {f}, edges' = edges \ {f}, tBacklog' = tBacklog, tClients' = tClients,
         list' = Timers!del_timer(list, f) \/ list' = Lists!del_timer(list, f)
  PROVE  ListsInv'
  <1>1. Has(list', tOpen')
    BY EventOpen, DelKeeps DEF ListsInv
  <1>2. (edges' \cup tEvents') \cap tDescriptors \subseteq tOpen'
    BY DEF ListsInv
  <1> QED
    BY <1>1, <1>2, GoesOn

(* recv() puts the timer off, closes, or finds nothing.                    *)
LEMMA TimersRecvKeeps ==
  ASSUME ListsInv, pc = "handle", pc' = pc, prog' = prog, NEW f \in tDescriptors, Timers!Recv(f)
  PROVE  ListsInv'
  <1>1. f \in tEvents /\ tEvents' = tEvents \ {f} /\ UNCHANGED tBacklog /\ UNCHANGED tClients
    BY DEF Timers!Recv
  <1>2. CASE UNCHANGED tOpen /\ UNCHANGED edges /\ list' = Timers!adjust_timer(Renewed(list, f), f)
    <2>1. Has(list', tOpen')
      BY <1>1, <1>2, EventOpen, AdjustKeeps DEF ListsInv
    <2>2. (edges' \cup tEvents') \cap tDescriptors \subseteq tOpen'
      BY <1>1, <1>2 DEF ListsInv
    <2> QED
      BY <1>1, <1>2, <2>1, <2>2, GoesOn
  <1>3. CASE Timers!Closed({f}) /\ list' = Timers!del_timer(list, f)
    BY <1>1, <1>3, EndKeeps DEF Timers!Closed
  <1>4. CASE UNCHANGED tOpen /\ UNCHANGED edges /\ UNCHANGED list
    <2>1. Has(list', tOpen') /\ (edges' \cup tEvents') \cap tDescriptors \subseteq tOpen'
      BY <1>1, <1>4 DEF ListsInv
    <2> QED
      BY <1>1, <1>4, <2>1, GoesOn
  <1> QED
    BY <1>2, <1>3, <1>4 DEF Timers!Recv, Renewed

(* In the copy, main may hang instead.                                     *)
LEMMA ListsRecvDataKeeps ==
  ASSUME ListsInv, prog # "timers", prog' = prog, NEW f \in tDescriptors, Lists!RecvData(f)
  PROVE  ListsInv'
  <1> DEFINE m == Renewed(list, f)
  <1>1. /\ pc = "handle" /\ f \in tEvents /\ tEvents' = tEvents \ {f}
        /\ UNCHANGED tBacklog /\ UNCHANGED tClients /\ UNCHANGED tOpen /\ UNCHANGED edges
    BY DEF Lists!RecvData
  <1>2. IF ~Lists!Moves(m, f)
        THEN list' = m /\ pc' = pc
        ELSE IF Lists!Endless(Lists!Detached(m, f), f, m.next[f])
        THEN pc' = "hung" /\ list' = list
        ELSE list' = Lists!insert_timer(Lists!Detached(m, f), f, m.next[f]) /\ pc' = pc
    BY DEF Lists!RecvData, Renewed
  <1>3. Has(list, tOpen) /\ f \in tOpen
    BY <1>1, EventOpen DEF ListsInv
  <1>4. m = Renewed(list, f)
    OBVIOUS
  <1> HIDE DEF m
  <1>5. /\ ~Lists!Moves(m, f) => Has(m, tOpen)
        /\ Lists!Moves(m, f) /\ Lists!Endless(Lists!Detached(m, f), f, m.next[f])
             => Cardinality(tOpen) >= 3
        /\ Lists!Moves(m, f) /\ ~Lists!Endless(Lists!Detached(m, f), f, m.next[f])
             => Has(Lists!insert_timer(Lists!Detached(m, f), f, m.next[f]), tOpen)
    BY <1>3, <1>4, ListsAdjustKeeps
  <1>6. (edges' \cup tEvents') \cap tDescriptors \subseteq tOpen'
    BY <1>1 DEF ListsInv
  <1>7. CASE pc' = pc /\ Has(list', tOpen)
    BY <1>1, <1>6, <1>7, GoesOn
  <1>8. CASE pc' = "hung" /\ list' = list /\ Cardinality(tOpen) >= 3
    <2>1. Awaited'
      BY <1>1, StillAwaited
    <2> QED
      BY <1>1, <1>3, <1>6, <1>8, <2>1 DEF ListsInv
  <1> QED
    BY <1>2, <1>5, <1>7, <1>8

LEMMA ListsRecvEndKeeps ==
  ASSUME ListsInv, prog' = prog, NEW f \in tDescriptors, Lists!RecvEnd(f)
  PROVE  ListsInv'
  <1>1. /\ pc = "handle" /\ pc' = pc /\ f \in tEvents /\ tEvents' = tEvents \ {f}
        /\ UNCHANGED tBacklog /\ UNCHANGED tClients
    BY DEF Lists!RecvEnd
  <1>2. CASE Lists!Site!Closed({f}) /\ list' = Lists!del_timer(list, f)
    BY <1>1, <1>2, EndKeeps DEF Lists!Site!Closed
  <1>3. CASE UNCHANGED tOpen /\ UNCHANGED edges /\ UNCHANGED list
    <2>1. Has(list', tOpen') /\ (edges' \cup tEvents') \cap tDescriptors \subseteq tOpen'
      BY <1>1, <1>3 DEF ListsInv
    <2> QED
      BY <1>1, <1>3, <2>1, GoesOn
  <1> QED
    BY <1>2, <1>3 DEF Lists!RecvEnd

(* timer_handler() closes the connections whose timers are due.            *)
LEMMA TimerHandlerKeeps ==
  ASSUME ListsInv, prog' = prog, Timers!timer_handler \/ Lists!timer_handler
  PROVE  ListsInv'
  <1>1. /\ pc = "handle" /\ pc' = "poll" /\ tEvents = {} /\ UNCHANGED tEvents
        /\ UNCHANGED tBacklog /\ UNCHANGED tClients
    BY DEF Timers!timer_handler, Lists!timer_handler, Lists!Site!timer_handler
  <1>2. PICK due :
          /\ tOpen' = tOpen \ due /\ edges' = edges \ due
          /\ \/ due = Timers!Ticked(list) /\ list' = Timers!tick(list)
             \/ due = Lists!Site!Ticked(list) /\ list' = Lists!Site!tick(list)
    BY DEF Timers!timer_handler, Lists!timer_handler, Lists!Site!timer_handler,
      Timers!Closed, Lists!Site!Closed
  <1>3. Has(list', tOpen \ due)
    BY <1>2, TickKeeps DEF ListsInv
  <1>4. (edges' \cup tEvents') \cap tDescriptors \subseteq tOpen'
    BY <1>1, <1>2 DEF ListsInv
  <1> QED
    BY <1>1, <1>2, <1>3, <1>4, GoesOn

LEMMA NoTimeoutKeeps ==
  ASSUME ListsInv, prog' = prog, Timers!NoTimeout \/ Lists!NoTimeout
  PROVE  ListsInv'
  <1>1. /\ pc = "handle" /\ pc' = "poll" /\ tEvents = {} /\ UNCHANGED tEvents
        /\ UNCHANGED tBacklog /\ UNCHANGED tClients /\ UNCHANGED tOpen /\ UNCHANGED edges
        /\ UNCHANGED list
    BY DEF Timers!NoTimeout, Lists!NoTimeout, Lists!Site!NoTimeout, Timers!kernel,
       Lists!Site!kernel
  <1>2. Has(list', tOpen') /\ (edges' \cup tEvents') \cap tDescriptors \subseteq tOpen'
    BY <1>1 DEF ListsInv
  <1> QED
    BY <1>1, <1>2, GoesOn

LEMMA ListsNext == ListsInv /\ [Next]_vars => ListsInv'
  <1> SUFFICES ASSUME ListsInv, [Next]_vars PROVE ListsInv'
    OBVIOUS
  <1>1. prog' = prog
    BY ListsStep
  <1>2. CASE UNCHANGED timerVars
    BY <1>1, <1>2 DEF timerVars, ListsInv, Awaited
  <1>3. CASE prog = "timers" /\ Timers!Next
    <2>1. ASSUME Timers!Handle PROVE ListsInv'
      <3>1. pc = "handle" /\ pc' = pc
        BY <2>1 DEF Timers!Handle
      <3> QED
        BY <1>1, <2>1, <3>1, ListsAcceptKeeps, SignalsKeeps, TimersRecvKeeps DEF Timers!Handle
    <2> QED
      BY <1>1, <1>3, <2>1, WorldKeeps, ListsWaitKeeps, TimerHandlerKeeps, NoTimeoutKeeps
      DEF Timers!Next, Timers!Main
  <1>4. CASE prog # "timers" /\ Lists!Next
    <2>1. ASSUME Lists!ReadSignals PROVE ListsInv'
      <3>1. pc = "handle" /\ pc' = pc /\ Lists!Site!ReadSignals
        BY <2>1 DEF Lists!ReadSignals
      <3> QED
        BY <1>1, <3>1, SignalsKeeps
    <2> QED
      BY <1>1, <1>4, <2>1, WorldKeeps, ListsWaitKeeps, ListsAcceptKeeps, TimerHandlerKeeps,
         NoTimeoutKeeps, ListsRecvDataKeeps, ListsRecvEndKeeps DEF Lists!Next
  <1> QED
    BY <1>2, <1>3, <1>4, ListsStep

(* Between two steps the list is as ListSound says.                        *)
LEMMA ListsKept == ListsInv => ListSound
  <1>1. ListsInv => Timers!ListSound /\ Lists!Site!ListSound
    BY HasTells DEF ListsInv
  <1>2. ListsInv /\ pc = "hung" => Lists!Cardinality(tOpen) >= 3
    BY TimersCardinality DEF ListsInv
  <1> QED
    BY <1>1, <1>2 DEF ListSound, Lists!SoundUntilHung

(* ListSound always holds: the list of timers is linked both ways, ordered *)
(* by time, and has a node for each open connection and no other; the      *)
(* copy's is too until main hangs in it, which takes three connections     *)
(* (lst_timer.h, nonactive_conn.cpp).                                      *)
THEOREM ListSoundAlways == FairSpec => []ListSound
  <1>1. Init => ListsInv
    BY ListsInit DEF Init
  <1> QED
    BY <1>1, ListsNext, ListsKept, PTL DEF FairSpec

-----------------------------------------------------------------------------
(* CourseProcesses: the handler leaves no ended child.                     *)

(* A step of Programs is a step of this one, or none.                      *)
LEMMA ReapingStep == [Next]_vars => [Reaping!Next]_processVars
  BY DEF Next, vars, ConnOnly, ServerOnly, TimersOnly, CourseOnly, ReapingOnly, LastOnly

ReapingInv == child \in [Children -> {"none", "running", "zombie", "reaped"}] /\ Reaping!ZombiesReaped

LEMMA ReapingInit == Reaping!Init => ReapingInv
  BY DEF Reaping!Init, ReapingInv, Reaping!ZombiesReaped, Reaping!Zombies

LEMMA ReapingNext == ReapingInv /\ [Reaping!Next]_processVars => ReapingInv'
  <1> SUFFICES ASSUME ReapingInv, [Reaping!Next]_processVars PROVE ReapingInv'
    OBVIOUS
  <1> USE DEF ReapingInv, Reaping!ZombiesReaped, Reaping!Zombies
  <1>1. ASSUME NEW c \in Children, Reaping!fork(c) PROVE ReapingInv'
    BY <1>1 DEF Reaping!fork
  <1>2. ASSUME NEW c \in Children, Reaping!exit(c) PROVE ReapingInv'
    BY <1>2 DEF Reaping!exit
  <1>3. CASE Reaping!unblock
    BY <1>3 DEF Reaping!unblock
  <1>4. CASE Reaping!deliver
    BY <1>4 DEF Reaping!deliver
  <1>5. CASE Reaping!recycleChild
    BY <1>5 DEF Reaping!recycleChild
  <1>6. CASE UNCHANGED processVars
    BY <1>6 DEF processVars
  <1> QED
    BY <1>1, <1>2, <1>3, <1>4, <1>5, <1>6 DEF Reaping!Next

-----------------------------------------------------------------------------
(* CourseSlots: one thread for each connection.                            *)

(* A step of Programs is a step of this one, or none.                      *)
LEMMA SlotStep == [Next]_vars => [Slot!Next]_slotVars
  BY DEF Next, vars, courseVars, ConnOnly, ServerOnly, TimersOnly, CourseOnly, ReapingOnly,
     LastOnly

SlotType == /\ sOpen \subseteq sDescriptors /\ working \subseteq Slot!Slots
            /\ sockinfos \in [Slot!Slots -> sDescriptors \cup {-1}]
            /\ sAt \in {"accept", "search", "create", "exited"}
            /\ i \in Slot!Slots

(* Who works in a slot has an open descriptor of its own; main holds the   *)
(* one it has accepted until it creates the thread.                        *)
SlotInv ==
  /\ SlotType
  /\ \A s \in working : sockinfos[s] \in sOpen /\ \A r \in working : sockinfos[r] = sockinfos[s] => r = s
  /\ \A f \in sOpen : (sAt # "accept" /\ sCfd = f) \/ \E s \in working : sockinfos[s] = f
  /\ sAt \in {"search", "create"} => sCfd \in sOpen /\ \A s \in working : sockinfos[s] # sCfd
  /\ sAt = "create" => sockinfos[i] = -1
  /\ sAt = "exited" => sOpen = {} /\ working = {}

LEMMA SlotInit == Slot!Init => SlotInv
  BY SlotAssumption DEF Slot!Init, SlotInv, SlotType, Slot!Slots

LEMMA SlotNext == SlotInv /\ [Slot!Next]_slotVars => SlotInv'
  <1> SUFFICES ASSUME SlotInv, SlotType, [Slot!Next]_slotVars PROVE SlotInv'
    BY DEF SlotInv
  <1>1. ASSUME NEW f \in sDescriptors, Slot!Leave(f) PROVE SlotInv'
    BY <1>1 DEF Slot!Leave, SlotInv, SlotType
  <1>2. CASE Slot!Accept
    BY <1>2, SlotAssumption DEF Slot!Accept, SlotInv, SlotType, Slot!Slots
  <1>3. CASE Slot!Search
    BY <1>3, SlotAssumption DEF Slot!Search, SlotInv, SlotType, Slot!Slots
  <1>4. CASE Slot!Create
    <2>1. i \notin working /\ sCfd \in sDescriptors
      <3>1. sAt = "create" /\ sockinfos[i] = -1
        BY <1>4 DEF Slot!Create, SlotInv
      <3>2. \A s \in working : sockinfos[s] \in Nat
        BY SlotAssumption DEF SlotInv, SlotType
      <3> QED
        BY <3>1, <3>2 DEF SlotInv, SlotType
    <2>2. \A s \in Slot!Slots : sockinfos'[s] = IF s = i THEN sCfd ELSE sockinfos[s]
      BY <1>4 DEF Slot!Create, SlotType
    <2>3. SlotType'
      BY <1>4, <2>1 DEF Slot!Create, SlotType
    <2> QED
      BY <1>4, <2>1, <2>2, <2>3 DEF Slot!Create, SlotInv, SlotType
  <1>5. ASSUME NEW s \in Slot!Slots, Slot!Close(s) PROVE SlotInv'
    BY <1>5 DEF Slot!Close, SlotInv, SlotType
  <1>6. ASSUME NEW s \in Slot!Slots, Slot!Exit(s) PROVE SlotInv'
    BY <1>6 DEF Slot!Exit, SlotInv, SlotType
  <1>7. CASE UNCHANGED slotVars
    BY <1>7 DEF slotVars, SlotInv, SlotType
  <1> QED
    BY <1>1, <1>2, <1>3, <1>4, <1>5, <1>6, <1>7 DEF Slot!Next

LEMMA SlotCardinality == \A S : Slot!Cardinality(S) = Cardinality(S)
  BY DEF Cardinality, Slot!Cardinality

LEMMA SlotCounts == SlotInv => Slot!OneThreadEach
  <1> SUFFICES ASSUME SlotInv, NEW f \in sOpen
               PROVE  Slot!Cardinality({s \in working : sockinfos[s] = f})
                        = IF sAt # "accept" /\ sCfd = f THEN 0 ELSE 1
    BY DEF Slot!OneThreadEach
  <1>1. CASE sAt # "accept" /\ sCfd = f
    <2>1. {s \in working : sockinfos[s] = f} = {}
      BY <1>1 DEF SlotInv, SlotType
    <2> QED
      BY <1>1, <2>1, FS_EmptySet, SlotCardinality
  <1>2. CASE ~(sAt # "accept" /\ sCfd = f)
    <2>1. PICK s \in working : sockinfos[s] = f
      BY <1>2 DEF SlotInv
    <2>2. {r \in working : sockinfos[r] = f} = {s}
      BY <2>1 DEF SlotInv
    <2> QED
      BY <1>2, <2>2, FS_Singleton, SlotCardinality
  <1> QED
    BY <1>1, <1>2

-----------------------------------------------------------------------------
(* CourseTickets: what is sold or counted.                                 *)

(* A step of Programs is a step of this one, or none.                      *)
LEMMA TicketsStep == [Next]_vars => [Selling!Next]_ticketVars
  BY DEF Next, vars, courseVars, ConnOnly, ServerOnly, TimersOnly, CourseOnly, ReapingOnly,
     LastOnly

SellingType ==
  /\ tickets_program \in {"sellticket", "mutex", "rwlock"}
  /\ shared \in Int /\ done \in Nat
  /\ kAt \in [Selling!Threads -> {"test", "lock", "load", "store", "unlock", "last", "end"}]
  /\ kRead \in [Selling!Threads -> Int]
  /\ holders \subseteq Selling!Threads

(* Without a lock, what was read is at least what was not sold since.      *)
Unlocked == /\ shared >= Tickets - done
            /\ \A t \in Selling!Threads : /\ kAt[t] \in {"test", "load", "store", "end"}
                                          /\ kAt[t] = "store" => kRead[t] >= Tickets - done

(* Between lock and unlock a seller is alone, and what it has read is true. *)
Alone ==
  /\ shared = Tickets - done /\ shared >= 0
  /\ \A t \in Selling!Threads :
       /\ kAt[t] # "test"
       /\ kAt[t] \in {"load", "store", "unlock", "last"} => holders = {t}
       /\ kAt[t] \in {"load", "store"} => shared > 0
       /\ kAt[t] = "store" => kRead[t] = shared

(* A writer is alone; a reader is at "unlock" when it has the lock.        *)
Counted ==
  /\ shared = 1 + done
  /\ \A t \in Sellers : kAt[t] \in {"load", "store", "unlock"} => holders = {t}
  /\ \A t \in Sellers : kAt[t] = "store" => kRead[t] = shared
  /\ \A t \in kReaders : /\ kAt[t] \in {"lock", "unlock"}
                         /\ t \in holders => kAt[t] = "unlock" /\ kRead[t] = shared
                         /\ kAt[t] = "unlock" => t \in holders
  /\ \A t \in Selling!Threads : kAt[t] # "test"

SellingInv == /\ SellingType
              /\ tickets_program = "sellticket" => Unlocked
              /\ tickets_program = "mutex" => Alone
              /\ tickets_program = "rwlock" => Counted

LEMMA SellingInit == Selling!Init => SellingInv
  BY TicketsAssumption DEF Selling!Init, SellingInv, SellingType, Unlocked, Alone, Counted,
     Selling!Threads

LEMMA SellingNext == SellingInv /\ [Selling!Next]_ticketVars => SellingInv'
  <1> SUFFICES ASSUME SellingInv, SellingType, [Selling!Next]_ticketVars PROVE SellingInv'
    BY DEF SellingInv
  <1> USE TicketsAssumption
  <1>1. ASSUME NEW t \in Selling!Threads, Selling!Test(t) PROVE SellingInv'
    <2>1. SellingType'
      BY <1>1 DEF Selling!Test, Selling!Goes, SellingType
    <2> QED
      BY <1>1, <2>1 DEF Selling!Test, Selling!Goes, SellingInv, SellingType, Unlocked
  <1>2. ASSUME NEW t \in Selling!Threads, Selling!Load(t) PROVE SellingInv'
    <2>1. SellingType'
      BY <1>2 DEF Selling!Load, Selling!Goes, SellingType
    <2>2. \A u \in Selling!Threads : /\ kAt'[u] = IF u = t THEN "store" ELSE kAt[u]
                                     /\ kRead'[u] = IF u = t THEN shared ELSE kRead[u]
      BY <1>2 DEF Selling!Load, Selling!Goes, SellingType
    <2>3. kAt[t] = "load" /\ UNCHANGED <<tickets_program, shared, holders, done>>
      BY <1>2 DEF Selling!Load
    <2>4. tickets_program = "sellticket" /\ Unlocked => Unlocked'
      BY <2>2, <2>3 DEF Unlocked
    <2>5. tickets_program = "mutex" /\ Alone => Alone'
      BY <2>2, <2>3 DEF Alone
    <2>6. tickets_program = "rwlock" /\ Counted => Counted'
      BY <2>2, <2>3 DEF Counted, Selling!Threads
    <2> QED
      BY <2>1, <2>3, <2>4, <2>5, <2>6 DEF SellingInv
  <1>3. ASSUME NEW t \in Selling!Threads, Selling!Store(t) PROVE SellingInv'
    <2>1. SellingType'
      BY <1>3 DEF Selling!Store, Selling!Goes, SellingType
    <2>2. \A u \in Selling!Threads :
            kAt'[u] = IF u = t THEN IF tickets_program = "sellticket" THEN "test" ELSE "unlock" ELSE kAt[u]
      BY <1>3 DEF Selling!Store, Selling!Goes, SellingType
    <2>3. /\ kAt[t] = "store" /\ UNCHANGED <<tickets_program, kRead, holders>>
          /\ done' = done + 1
          /\ shared' = IF tickets_program = "rwlock" THEN kRead[t] + 1 ELSE kRead[t] - 1
      BY <1>3 DEF Selling!Store
    <2>4. tickets_program = "sellticket" /\ Unlocked => Unlocked'
      BY <2>2, <2>3 DEF Unlocked, SellingType
    <2>5. tickets_program = "mutex" /\ Alone => Alone'
      BY <2>2, <2>3 DEF Alone, SellingType
    <2>6. tickets_program = "rwlock" /\ Counted => Counted'
      BY <2>2, <2>3 DEF Counted, SellingType, Selling!Threads
    <2> QED
      BY <2>1, <2>3, <2>4, <2>5, <2>6 DEF SellingInv
  <1>4. ASSUME NEW t \in Selling!Threads, Selling!MutexLock(t) PROVE SellingInv'
    <2>1. SellingType'
      BY <1>4 DEF Selling!MutexLock, Selling!Goes, SellingType
    <2> QED
      BY <1>4, <2>1 DEF Selling!MutexLock, Selling!Goes, SellingInv, SellingType, Alone
  <1>5. ASSUME NEW t \in Selling!Threads, Selling!MutexUnlock(t) PROVE SellingInv'
    <2>1. SellingType'
      BY <1>5 DEF Selling!MutexUnlock, Selling!Goes, SellingType
    <2> QED
      BY <1>5, <2>1 DEF Selling!MutexUnlock, Selling!Goes, SellingInv, SellingType, Alone
  <1>6. ASSUME NEW t \in Selling!Threads, Selling!writeNum(t) PROVE SellingInv'
    <2>1. SellingType'
      BY <1>6 DEF Selling!writeNum, Selling!Goes, SellingType
    <2> QED
      BY <1>6, <2>1 DEF Selling!writeNum, Selling!Goes, SellingInv, SellingType, Counted,
         Selling!Threads
  <1>7. ASSUME NEW t \in Selling!Threads, Selling!readNum(t) PROVE SellingInv'
    <2>1. SellingType'
      BY <1>7 DEF Selling!readNum, Selling!Goes, SellingType
    <2> QED
      BY <1>7, <2>1 DEF Selling!readNum, Selling!Goes, SellingInv, SellingType, Counted,
         Selling!Threads
  <1>8. ASSUME NEW t \in Selling!Threads, Selling!unlock(t) PROVE SellingInv'
    <2>1. SellingType'
      BY <1>8 DEF Selling!unlock, Selling!Goes, SellingType
    <2> QED
      BY <1>8, <2>1 DEF Selling!unlock, Selling!Goes, SellingInv, SellingType, Counted,
         Selling!Threads
  <1>9. CASE UNCHANGED ticketVars
    BY <1>9 DEF ticketVars, SellingInv, SellingType, Unlocked, Alone, Counted
  <1> QED
    BY <1>1, <1>2, <1>3, <1>4, <1>5, <1>6, <1>7, <1>8, <1>9 DEF Selling!Next

LEMMA SellingCounts == SellingInv => Selling!CountKept
  BY DEF SellingInv, Selling!CountKept, Unlocked, Alone, Counted

-----------------------------------------------------------------------------
(* CourseChat: who reads and who writes.                                   *)

(* A step of Programs is a step of this one, or none.                      *)
LEMMA ChatStep == [Next]_vars => [Chat!Next]_chatVars
  BY DEF Next, vars, courseVars, ConnOnly, ServerOnly, TimersOnly, CourseOnly, ReapingOnly,
     LastOnly

(* Each side has its two processes.                                        *)
LEMMA ChatFacts ==
  /\ \A s \in Chat!Sides : /\ Chat!Parent(s) \in Chat!Processes /\ Chat!Child(s) \in Chat!Processes
                           /\ Chat!Other(s) \in Chat!Sides /\ Chat!Other(s) # s
                           /\ Chat!Other(Chat!Other(s)) = s
  /\ \A s, r \in Chat!Sides : /\ Chat!Parent(s) # Chat!Child(r)
                              /\ s # r => Chat!Parent(s) # Chat!Parent(r) /\ Chat!Child(s) # Chat!Child(r)
                              /\ s = r \/ s = Chat!Other(r)
  /\ \A p \in Chat!Processes : \E s \in Chat!Sides : p = Chat!Parent(s) \/ p = Chat!Child(s)
  /\ Chat!Sides = {"A", "B"}
  BY DEF Chat!Sides, Chat!Parent, Chat!Child, Chat!Processes, Chat!Other

(* A parent is no child.                                                   *)
LEMMA ChatKinds ==
  /\ \A s \in Chat!Sides : /\ Chat!Parent(s)[1] = s /\ Chat!Parent(s)[2] = "parent"
                           /\ Chat!Child(s)[1] = s /\ Chat!Child(s)[2] = "child"
  BY DEF Chat!Sides, Chat!Parent, Chat!Child

Par(s) == fAt[Chat!Parent(s)]
Chi(s) == fAt[Chat!Child(s)]

ChatType ==
  /\ fVersion \in {"char", "chat"}
  /\ fAt \in [Chat!Processes -> {"open1", "open2", "fork", "write", "read", "end", "none"}]
  /\ fifo \in [Chat!Sides -> Nat] /\ fTyped \in [Chat!Sides -> Nat]
  /\ killed \subseteq Chat!Processes

(* A child that sees the end of its fifo has seen the other side go: its   *)
(* child killed, or its parent ended before it forked.                     *)
CharInv ==
  /\ \A p \in killed : fAt[p] = "end"
  /\ \A s \in Chat!Sides :
       /\ Par(s) # "none" /\ Chi(s) \in {"none", "read", "end"}
       /\ Chi(s) # "none" => Par(s) \notin {"open1", "open2", "fork"}
       /\ Chi(s) = "end" /\ Chat!Child(s) \notin killed =>
            \/ Chat!Child(Chat!Other(s)) \in killed
            \/ Chi(Chat!Other(s)) = "none" /\ Par(Chat!Other(s)) = "end"

(* A line on its way, or a side that writes, leaves the other side reading. *)
ChatTurns ==
  \A s \in Chat!Sides :
    /\ Par(s) # "fork"
    /\ Par(s) \in {"open1", "open2"} => fifo[s] = 0 /\ fifo[Chat!Other(s)] = 0
    /\ Par(s) = "write" => /\ fifo[s] = 0 /\ fifo[Chat!Other(s)] = 0
                           /\ Par(Chat!Other(s)) \in {"read", "end"}
    /\ fifo[s] > 0 => /\ fifo[s] = 1 /\ fifo[Chat!Other(s)] = 0
                      /\ Par(s) \in {"read", "end"} /\ Par(Chat!Other(s)) \in {"read", "end"}

ChatInv == ChatType /\ CharInv /\ (fVersion = "chat" => ChatTurns)

LEMMA ChatInit == Chat!Init => ChatInv
  <1> SUFFICES ASSUME Chat!Init PROVE ChatInv
    OBVIOUS
  <1>1. \A s \in Chat!Sides : Par(s) = "open1" /\ Chi(s) = "none" /\ fifo[s] = 0
    BY ChatFacts, ChatKinds DEF Chat!Init, Par, Chi
  <1>2. ChatType
    BY DEF Chat!Init, ChatType
  <1>3. killed = {}
    BY DEF Chat!Init
  <1> QED
    BY <1>1, <1>2, <1>3, ChatFacts DEF ChatInv, CharInv, ChatTurns

(* A step of one process.                                                  *)
LEMMA ParentMoves ==
  ASSUME ChatType, NEW s \in Chat!Sides, NEW p, fAt' = [fAt EXCEPT ![Chat!Parent(s)] = p]
  PROVE  /\ \A r \in Chat!Sides : /\ Par(r)' = IF r = s THEN p ELSE Par(r)
                                 /\ Chi(r)' = Chi(r)
         /\ \A q \in Chat!Processes : fAt'[q] = IF q = Chat!Parent(s) THEN p ELSE fAt[q]
  BY ChatFacts DEF ChatType, Par, Chi

LEMMA ChildMoves ==
  ASSUME ChatType, NEW s \in Chat!Sides, NEW p, fAt' = [fAt EXCEPT ![Chat!Child(s)] = p]
  PROVE  /\ \A r \in Chat!Sides : /\ Chi(r)' = IF r = s THEN p ELSE Chi(r)
                                 /\ Par(r)' = Par(r)
         /\ \A q \in Chat!Processes : fAt'[q] = IF q = Chat!Child(s) THEN p ELSE fAt[q]
  BY ChatFacts DEF ChatType, Par, Chi

LEMMA OpenFirstKeeps == ASSUME ChatInv, Chat!OpenFirst PROVE ChatInv'
  <1>1. /\ \A s \in Chat!Sides : Par(s) = "open1"
        /\ fAt' = [fAt EXCEPT ![Chat!Parent("A")] = "open2", ![Chat!Parent("B")] = "open2"]
        /\ UNCHANGED <<fVersion, fifo, fTyped, killed>>
    BY DEF Chat!OpenFirst, Par
  <1>2. ChatType'
    BY <1>1, ChatFacts DEF ChatInv, ChatType
  <1>3. \A s \in Chat!Sides : Par(s)' = "open2" /\ Chi(s)' = Chi(s)
    BY <1>1, ChatFacts DEF ChatInv, ChatType, Par, Chi
  <1>4. \A q \in killed : fAt'[q] = "end"
    BY <1>1, ChatFacts DEF ChatInv, CharInv, ChatType, Par
  <1>none. \A s \in Chat!Sides : Chi(s) = "none"
    BY <1>1 DEF ChatInv, CharInv
  <1>5. CharInv'
    BY <1>1, <1>3, <1>4, <1>none DEF ChatInv, CharInv
  <1>6. fVersion = "chat" => ChatTurns'
    BY <1>1, <1>3, ChatFacts DEF ChatInv, ChatType, ChatTurns
  <1> QED
    BY <1>1, <1>2, <1>5, <1>6 DEF ChatInv

LEMMA OpenSecondKeeps == ASSUME ChatInv, Chat!OpenSecond PROVE ChatInv'
  <1>1. /\ \A s \in Chat!Sides : Par(s) = "open2"
        /\ fAt' = [p \in Chat!Processes |->
                    IF p[2] = "child" THEN "none"
                    ELSE IF fVersion = "char" THEN "fork"
                    ELSE IF p[1] = "A" THEN "write" ELSE "read"]
        /\ UNCHANGED <<fVersion, fifo, fTyped, killed>>
    BY DEF Chat!OpenSecond, Par
  <1>2. ChatType'
    BY <1>1 DEF ChatInv, ChatType
  <1>3. \A s \in Chat!Sides : /\ Chi(s)' = "none"
                            /\ Par(s)' = IF fVersion = "char" THEN "fork"
                                         ELSE IF s = "A" THEN "write" ELSE "read"
    BY <1>1, ChatFacts, ChatKinds DEF Par, Chi
  <1>4. killed = {}
    <2>1. \A s \in Chat!Sides : Par(s) # "end" /\ Chi(s) # "end"
      BY <1>1, ChatFacts DEF ChatInv, CharInv
    <2> QED
      BY <2>1, ChatFacts DEF ChatInv, ChatType, CharInv, Par, Chi
  <1>5. CharInv'
    BY <1>1, <1>3, <1>4 DEF CharInv
  <1>6. fVersion = "chat" => ChatTurns'
    BY <1>1, <1>3, ChatFacts DEF ChatInv, ChatType, ChatTurns
  <1> QED
    BY <1>1, <1>2, <1>5, <1>6 DEF ChatInv

LEMMA ForkKeeps == ASSUME ChatInv, NEW s \in Chat!Sides, Chat!fork(s) PROVE ChatInv'
  <1>1. /\ Par(s) = "fork" /\ fVersion # "chat"
        /\ fAt' = [fAt EXCEPT ![Chat!Parent(s)] = "write", ![Chat!Child(s)] = "read"]
        /\ UNCHANGED <<fVersion, fifo, fTyped, killed>>
    BY DEF Chat!fork, Par, ChatInv, ChatTurns
  <1>2. ChatType'
    BY <1>1, ChatFacts DEF ChatInv, ChatType
  <1>3. \A r \in Chat!Sides : /\ Par(r)' = IF r = s THEN "write" ELSE Par(r)
                            /\ Chi(r)' = IF r = s THEN "read" ELSE Chi(r)
    BY <1>1, ChatFacts DEF ChatInv, ChatType, Par, Chi
  <1>4. Chi(s) = "none"
    BY <1>1 DEF ChatInv, CharInv
  <1>5. \A q \in killed : fAt'[q] = "end"
    BY <1>1, <1>4, ChatFacts DEF ChatInv, CharInv, ChatType, Par, Chi
  <1>6. ASSUME NEW r \in Chat!Sides, Chi(r)' = "end", Chat!Child(r) \notin killed
        PROVE  \/ Chat!Child(Chat!Other(r)) \in killed
               \/ Chi(Chat!Other(r))' = "none" /\ Par(Chat!Other(r))' = "end"
    <2>1. r # s /\ Chi(r) = "end" /\ Chat!Other(r) = s
      BY <1>3, <1>6, ChatFacts
    <2> QED
      BY <1>1, <1>6, <2>1 DEF ChatInv, CharInv
  <1>7. \A r \in Chat!Sides :
          /\ Par(r)' # "none" /\ Chi(r)' \in {"none", "read", "end"}
          /\ Chi(r)' # "none" => Par(r)' \notin {"open1", "open2", "fork"}
    BY <1>3 DEF ChatInv, CharInv
  <1>8. CharInv'
    BY <1>1, <1>5, <1>6, <1>7 DEF CharInv
  <1> QED
    BY <1>1, <1>2, <1>8 DEF ChatInv

(* A parent that goes on, or that a signal ends.                           *)
LEMMA ParentKeepsChar ==
  ASSUME ChatInv, NEW s \in Chat!Sides, NEW p \in {"write", "read", "end"},
         Par(s) \in {"write", "read"}, fAt' = [fAt EXCEPT ![Chat!Parent(s)] = p],
         killed' = killed \/ (killed' = killed \cup {Chat!Parent(s)} /\ p = "end")
  PROVE  CharInv'
  <1>1. /\ \A r \in Chat!Sides : Par(r)' = (IF r = s THEN p ELSE Par(r)) /\ Chi(r)' = Chi(r)
        /\ \A q \in Chat!Processes : fAt'[q] = IF q = Chat!Parent(s) THEN p ELSE fAt[q]
    BY ParentMoves DEF ChatInv
  <1>2. \A q \in killed' : fAt'[q] = "end"
    BY <1>1 DEF ChatInv, ChatType, CharInv, Par
  <1>3. \A r \in Chat!Sides : Chat!Child(r) \in killed' <=> Chat!Child(r) \in killed
    BY ChatFacts
  <1> QED
    BY <1>1, <1>2, <1>3, ChatFacts DEF ChatInv, CharInv

LEMMA WriteKeeps == ASSUME ChatInv, NEW s \in Chat!Sides, Chat!Write(s) PROVE ChatInv'
  <1>1. fVersion = "char" /\ Par(s) = "write" /\ UNCHANGED fVersion
    BY DEF Chat!Write, Par
  <1>2. CASE Chat!Readers(Chat!Other(s)) = {}
    <2>1. /\ fAt' = [fAt EXCEPT ![Chat!Parent(s)] = "end"] /\ killed' = killed \cup {Chat!Parent(s)}
          /\ UNCHANGED <<fifo, fTyped>>
      BY <1>2 DEF Chat!Write
    <2>2. CharInv'
      BY <1>1, <2>1, ParentKeepsChar
    <2>3. ChatType'
      BY <1>1, <2>1, ChatFacts DEF ChatInv, ChatType
    <2> QED
      BY <1>1, <2>2, <2>3 DEF ChatInv
  <1>3. CASE Chat!Readers(Chat!Other(s)) # {}
    <2>1. /\ fTyped' = [fTyped EXCEPT ![s] = @ + 1]
          /\ fifo' = [fifo EXCEPT ![Chat!Other(s)] = @ + 1]
          /\ UNCHANGED <<fAt, killed>>
      BY <1>3 DEF Chat!Write
    <2>2. ChatType'
      BY <1>1, <2>1, ChatFacts DEF ChatInv, ChatType
    <2> QED
      BY <1>1, <2>1, <2>2 DEF ChatInv, CharInv, Par, Chi
  <1> QED
    BY <1>2, <1>3

LEMMA ReadKeeps == ASSUME ChatInv, NEW s \in Chat!Sides, Chat!Read(s) PROVE ChatInv'
  <1>1. fVersion = "char" /\ Chi(s) = "read" /\ UNCHANGED <<fVersion, fTyped, killed>>
    BY DEF Chat!Read, Chi
  <1>2. CASE fifo' = [fifo EXCEPT ![s] = 0] /\ UNCHANGED fAt
    <2>1. ChatType'
      BY <1>1, <1>2 DEF ChatInv, ChatType
    <2> QED
      BY <1>1, <1>2, <2>1 DEF ChatInv, CharInv, Par, Chi
  <1>3. CASE Chat!Writers(s) = {} /\ fAt' = [fAt EXCEPT ![Chat!Child(s)] = "end"] /\ UNCHANGED fifo
    <2>1. ChatType'
      BY <1>1, <1>3 DEF ChatInv, ChatType
    <2>2. /\ \A r \in Chat!Sides : Chi(r)' = (IF r = s THEN "end" ELSE Chi(r)) /\ Par(r)' = Par(r)
          /\ \A q \in Chat!Processes : fAt'[q] = IF q = Chat!Child(s) THEN "end" ELSE fAt[q]
      BY <1>3, ChildMoves DEF ChatInv
    <2>3. \A q \in killed : fAt'[q] = "end"
      BY <2>2 DEF ChatInv, ChatType, CharInv
    <2>4. Par(Chat!Other(s)) = "end" /\ Chi(Chat!Other(s)) \in {"none", "end"}
      <3>1. Par(Chat!Other(s)) \in {"none", "end"} /\ Chi(Chat!Other(s)) \in {"none", "end"}
        BY <1>3 DEF Chat!Writers, Chat!Alive, Par, Chi
      <3> QED
        BY <3>1, ChatFacts DEF ChatInv, CharInv
    <2>5. Chat!Child(s) \notin killed
      BY <1>1 DEF ChatInv, CharInv, Chi
    <2>6. Chi(Chat!Other(s)) = "end" => Chat!Child(Chat!Other(s)) \in killed
      BY <1>1, <2>5, ChatFacts DEF ChatInv, CharInv
    <2>7. CharInv'
      BY <1>1, <2>2, <2>3, <2>4, <2>5, <2>6, ChatFacts DEF ChatInv, CharInv
    <2> QED
      BY <1>1, <2>1, <2>7 DEF ChatInv
  <1> QED
    BY <1>2, <1>3 DEF Chat!Read

LEMMA ChatWriteKeeps == ASSUME ChatInv, NEW s \in Chat!Sides, Chat!ChatWrite(s) PROVE ChatInv'
  <1>1. fVersion = "chat" /\ Par(s) = "write" /\ UNCHANGED fVersion /\ ChatTurns
    BY DEF Chat!ChatWrite, Par, ChatInv
  <1>2. CASE Chat!Readers(Chat!Other(s)) = {}
    <2>1. /\ fAt' = [fAt EXCEPT ![Chat!Parent(s)] = "end"] /\ killed' = killed \cup {Chat!Parent(s)}
          /\ UNCHANGED <<fifo, fTyped>>
      BY <1>2 DEF Chat!ChatWrite
    <2>2. CharInv'
      BY <1>1, <2>1, ParentKeepsChar
    <2>3. ChatType'
      BY <1>1, <2>1, ChatFacts DEF ChatInv, ChatType
    <2>4. \A r \in Chat!Sides : Par(r)' = IF r = s THEN "end" ELSE Par(r)
      BY <2>1, ParentMoves DEF ChatInv
    <2>5. ChatTurns'
      BY <1>1, <2>1, <2>4, ChatFacts DEF ChatTurns
    <2> QED
      BY <1>1, <2>2, <2>3, <2>5 DEF ChatInv
  <1>3. CASE Chat!Readers(Chat!Other(s)) # {}
    <2>1. /\ fAt' = [fAt EXCEPT ![Chat!Parent(s)] = "read"]
          /\ fTyped' = [fTyped EXCEPT ![s] = @ + 1] /\ UNCHANGED killed
      BY <1>3 DEF Chat!ChatWrite
    <2>2. PICK n \in 0..1 : fifo' = [fifo EXCEPT ![Chat!Other(s)] = @ + n]
      BY <1>3 DEF Chat!ChatWrite
    <2>3. CharInv'
      BY <1>1, <2>1, ParentKeepsChar
    <2>4. ChatType'
      BY <1>1, <2>1, <2>2, ChatFacts DEF ChatInv, ChatType
    <2>5. \A r \in Chat!Sides : Par(r)' = IF r = s THEN "read" ELSE Par(r)
      BY <2>1, ParentMoves DEF ChatInv
    <2>6. fifo'[s] = 0 /\ fifo'[Chat!Other(s)] \in {0, 1}
      BY <1>1, <2>2, ChatFacts DEF ChatInv, ChatType, ChatTurns
    <2>7. ChatTurns'
      BY <1>1, <2>5, <2>6, ChatFacts DEF ChatTurns
    <2> QED
      BY <1>1, <2>3, <2>4, <2>7 DEF ChatInv
  <1> QED
    BY <1>2, <1>3

LEMMA ChatReadKeeps == ASSUME ChatInv, NEW s \in Chat!Sides, Chat!ChatRead(s) PROVE ChatInv'
  <1>1. /\ fVersion = "chat" /\ Par(s) = "read" /\ UNCHANGED <<fVersion, fTyped, killed>>
        /\ ChatTurns
    BY DEF Chat!ChatRead, Par, ChatInv
  <1>2. CASE fifo[s] > 0 /\ fifo' = [fifo EXCEPT ![s] = 0]
             /\ fAt' = [fAt EXCEPT ![Chat!Parent(s)] = "write"]
    <2>1. CharInv'
      BY <1>1, <1>2, ParentKeepsChar
    <2>2. ChatType'
      BY <1>1, <1>2, ChatFacts DEF ChatInv, ChatType
    <2>3. \A r \in Chat!Sides : Par(r)' = IF r = s THEN "write" ELSE Par(r)
      BY <1>2, ParentMoves DEF ChatInv
    <2>4. \A r \in Chat!Sides : fifo'[r] = IF r = s THEN 0 ELSE fifo[r]
      BY <1>2 DEF ChatInv, ChatType
    <2>5. fifo[Chat!Other(s)] = 0 /\ Par(Chat!Other(s)) \in {"read", "end"}
      BY <1>1, <1>2 DEF ChatTurns
    <2>6. ChatTurns'
      BY <1>1, <2>3, <2>4, <2>5, ChatFacts DEF ChatTurns
    <2> QED
      BY <1>1, <2>1, <2>2, <2>6 DEF ChatInv
  <1>3. CASE fAt' = [fAt EXCEPT ![Chat!Parent(s)] = "end"] /\ UNCHANGED fifo
    <2>1. CharInv'
      BY <1>1, <1>3, ParentKeepsChar
    <2>2. ChatType'
      BY <1>1, <1>3, ChatFacts DEF ChatInv, ChatType
    <2>3. \A r \in Chat!Sides : Par(r)' = IF r = s THEN "end" ELSE Par(r)
      BY <1>3, ParentMoves DEF ChatInv
    <2>4. ChatTurns'
      BY <1>1, <1>3, <2>3, ChatFacts DEF ChatTurns
    <2> QED
      BY <1>1, <2>1, <2>2, <2>4 DEF ChatInv
  <1> QED
    BY <1>2, <1>3 DEF Chat!ChatRead

LEMMA KillKeeps == ASSUME ChatInv, Chat!Kill PROVE ChatInv'
  <1>1. PICK s \in Chat!Sides, ps \in SUBSET Chat!Processes :
          /\ \A p \in ps : p[1] = s /\ Chat!Alive(p)
          /\ fAt' = [p \in Chat!Processes |-> IF p \in ps THEN "end" ELSE fAt[p]]
          /\ killed' = killed \cup ps
          /\ UNCHANGED <<fVersion, fifo, fTyped>>
    BY DEF Chat!Kill
  <1>2. ChatType'
    BY <1>1 DEF ChatInv, ChatType
  <1>3. \A r \in Chat!Sides :
          /\ Par(r)' = IF Chat!Parent(r) \in ps THEN "end" ELSE Par(r)
          /\ Chi(r)' = IF Chat!Child(r) \in ps THEN "end" ELSE Chi(r)
    BY <1>1, ChatFacts DEF Par, Chi
  <1>4. \A r \in Chat!Sides : /\ Chat!Parent(r) \in ps => Par(r) # "end"
                            /\ Chat!Child(r) \in ps => Chi(r) \notin {"none", "end"}
    BY <1>1 DEF Chat!Alive, Par, Chi
  <1>5. \A q \in killed' : fAt'[q] = "end"
    BY <1>1 DEF ChatInv, ChatType, CharInv
  <1>6. CharInv'
    BY <1>1, <1>3, <1>4, <1>5, ChatFacts DEF ChatInv, CharInv
  <1>7. fVersion = "chat" => ChatTurns'
    BY <1>1, <1>3, ChatFacts DEF ChatInv, ChatTurns
  <1> QED
    BY <1>1, <1>2, <1>6, <1>7 DEF ChatInv

LEMMA ChatNext == ChatInv /\ [Chat!Next]_chatVars => ChatInv'
  <1> SUFFICES ASSUME ChatInv, [Chat!Next]_chatVars PROVE ChatInv'
    OBVIOUS
  <1>1. CASE UNCHANGED chatVars
    BY <1>1 DEF chatVars, ChatInv, ChatType, CharInv, ChatTurns, Par, Chi
  <1>2. ASSUME NEW s \in Chat!Sides, Chat!charMain(s) \/ Chat!chatMain(s) PROVE ChatInv'
    BY <1>2, ForkKeeps, WriteKeeps, ReadKeeps, ChatWriteKeeps, ChatReadKeeps
    DEF Chat!charMain, Chat!chatMain
  <1> QED
    BY <1>1, <1>2, OpenFirstKeeps, OpenSecondKeeps, KillKeeps DEF Chat!Next

LEMMA ChatKept == ChatInv => Chat!ReadersWait /\ Chat!TurnsTaken
  <1> SUFFICES ASSUME ChatInv PROVE Chat!ReadersWait /\ Chat!TurnsTaken
    OBVIOUS
  <1>1. Chat!ReadersWait
    BY ChatFacts DEF ChatInv, CharInv, Chat!ReadersWait, Par, Chi
  <1>2. ASSUME fVersion = "chat" PROVE Chat!TurnsTaken
    <2>1. ChatTurns /\ fifo["A"] \in Nat /\ fifo["B"] \in Nat
      BY <1>2, ChatFacts DEF ChatInv, ChatType
    <2>2. Chat!Other("A") = "B" /\ Chat!Other("B") = "A"
      BY DEF Chat!Other
    <2>3. fifo["A"] + fifo["B"] <= 1
      <3>1. fifo["A"] > 0 => fifo["A"] = 1 /\ fifo["B"] = 0
        BY <2>1, <2>2, ChatFacts DEF ChatTurns
      <3>2. fifo["B"] > 0 => fifo["B"] = 1 /\ fifo["A"] = 0
        BY <2>1, <2>2, ChatFacts DEF ChatTurns
      <3> QED
        BY <2>1, <3>1, <3>2
    <2> QED
      BY <2>1, <2>3, ChatFacts DEF ChatTurns, Chat!TurnsTaken, Par
  <1> QED
    BY <1>1, <1>2 DEF Chat!TurnsTaken

-----------------------------------------------------------------------------
(* CourseThreads: the nodes and those who wait for them.                   *)

(* A step of Programs is a step of this one, or none.                      *)
LEMMA CourseStep == [Next]_vars => [Course!Next]_threadVars
  BY DEF Next, vars, courseVars, ConnOnly, ServerOnly, TimersOnly, CourseOnly, ReapingOnly,
     LastOnly

Places == {"sem_wait", "lock", "locked", "tell", "wait", "woken", "null"}
CourseType ==
  /\ list_program \in {"prod-cust", "cond", "semaphore"}
  /\ nodes \in Nat /\ psem \in Nat /\ csem \in Nat
  /\ thread \in [Course!Threads -> Places]

(* How many of some threads are in one of some places.                     *)
Standing(S, places) == {t \in S : thread[t] \in places}
HowMany(S, places) == Cardinality(Standing(S, places))
Ready == {"lock", "locked"}
Telling == {"tell"}

(* What psem has given out is held by a producer, lies in the list or is   *)
(* about to be given back; what csem and the producers about to post to it *)
(* promise, with the customers that it has let in, is the list.            *)
SemaphoresCount ==
  /\ psem + HowMany(Producers, Ready) + nodes + HowMany(Customers, Telling) = Room
  /\ csem + HowMany(Producers, Telling) + HowMany(Customers, Ready) = nodes
OnSemaphores == \A t \in Course!Threads : thread[t] \in {"sem_wait", "lock", "locked", "tell"}

(* A node that all customers wait for is about to be told of.              *)
NodeTold ==
  nodes > 0 /\ Course!Waiting = Customers => \E p \in Producers : thread[p] = "tell"

CourseInv ==
  /\ CourseType
  /\ list_program = "cond" => NodeTold
  /\ list_program = "semaphore" => SemaphoresCount /\ OnSemaphores

(* They can be counted.                                                    *)
LEMMA Standers ==
  ASSUME NEW S, S = Producers \/ S = Customers, NEW places
  PROVE  IsFiniteSet(Standing(S, places)) /\ HowMany(S, places) \in Nat
  <1>1. Standing(S, places) \subseteq Producers \cup Customers
    BY DEF Standing
  <1>2. IsFiniteSet(Standing(S, places))
    BY <1>1, FS_Subset, CourseAssumption
  <1> QED
    BY <1>2, FS_CardinalityType DEF HowMany

(* One thread moves: n is how many stood there.                            *)
Moved(n, from, place, places) ==
  IF place \in places THEN IF from \in places THEN n ELSE n + 1
  ELSE IF from \in places THEN n - 1 ELSE n

(* When one thread goes from one place to another, the counts follow.      *)
LEMMA OneMoves ==
  ASSUME CourseType, NEW S, S = Producers \/ S = Customers, NEW places,
         NEW t \in Course!Threads, NEW place, Course!Goes(t, place)
  PROVE  /\ t \notin S => HowMany(S, places)' = HowMany(S, places)
         /\ t \in S => HowMany(S, places)' = Moved(HowMany(S, places), thread[t], place, places)
  <1> DEFINE A == Standing(S, places)
  <1>1. /\ \A u \in S : thread'[u] = IF u = t THEN place ELSE thread[u]
    BY DEF CourseType, Course!Goes, Course!Threads
  <1>2. A' = IF t \in S THEN IF place \in places THEN A \cup {t} ELSE A \ {t} ELSE A
    BY <1>1 DEF Standing
  <1>3. IsFiniteSet(A)
    BY Standers
  <1>4. t \in A <=> t \in S /\ thread[t] \in places
    BY DEF Standing
  <1>5. HowMany(S, places) = Cardinality(A) /\ HowMany(S, places)' = Cardinality(A')
    BY DEF HowMany
  <1> HIDE DEF A
  <1>6. /\ t \in A => A \cup {t} = A
        /\ t \notin A => A \ {t} = A
    OBVIOUS
  <1>7. /\ t \notin A => Cardinality(A \cup {t}) = Cardinality(A) + 1
        /\ t \in A => Cardinality(A \ {t}) = Cardinality(A) - 1
    BY <1>3, FS_AddElement, FS_RemoveElement
  <1> QED
    BY <1>2, <1>4, <1>5, <1>6, <1>7 DEF Moved

LEMMA CourseInit == Course!Init => CourseInv
  <1> SUFFICES ASSUME Course!Init PROVE CourseInv
    OBVIOUS
  <1>1. /\ list_program \in {"prod-cust", "cond", "semaphore"}
        /\ nodes = 0 /\ psem = Room /\ csem = 0
        /\ \A t \in Course!Threads : thread[t] = IF list_program = "semaphore" THEN "sem_wait" ELSE "lock"
    BY DEF Course!Init
  <1>2. CourseType
    BY <1>1, CourseAssumption DEF Course!Init, CourseType, Places
  <1>3. list_program = "cond" => NodeTold
    BY <1>1 DEF NodeTold
  <1>4. ASSUME list_program = "semaphore" PROVE SemaphoresCount /\ OnSemaphores
    <2>1. /\ Standing(Producers, Ready) = {} /\ Standing(Producers, Telling) = {}
          /\ Standing(Customers, Ready) = {} /\ Standing(Customers, Telling) = {}
      BY <1>1, <1>4 DEF Standing, Ready, Telling, Course!Threads
    <2>2. /\ HowMany(Producers, Ready) = 0 /\ HowMany(Producers, Telling) = 0
          /\ HowMany(Customers, Ready) = 0 /\ HowMany(Customers, Telling) = 0
      BY <2>1, FS_EmptySet DEF HowMany
    <2> QED
      BY <1>1, <1>4, <2>2, CourseAssumption DEF SemaphoresCount, OnSemaphores
  <1> QED
    BY <1>2, <1>3, <1>4 DEF CourseInv

(* A producer's step changes the counts of the producers.                  *)
LEMMA ProducerMoves ==
  ASSUME CourseType, NEW p \in Producers, NEW place, Course!Goes(p, place)
  PROVE  /\ HowMany(Producers, Ready)' = Moved(HowMany(Producers, Ready), thread[p], place, Ready)
         /\ HowMany(Producers, Telling)' = Moved(HowMany(Producers, Telling), thread[p], place, Telling)
         /\ HowMany(Customers, Ready)' = HowMany(Customers, Ready)
         /\ HowMany(Customers, Telling)' = HowMany(Customers, Telling)
         /\ \A u \in Course!Threads : thread'[u] = IF u = p THEN place ELSE thread[u]
  <1>1. p \in Course!Threads /\ p \notin Customers
    BY CourseAssumption DEF Course!Threads
  <1>2. /\ HowMany(Producers, Ready)' = Moved(HowMany(Producers, Ready), thread[p], place, Ready)
        /\ HowMany(Producers, Telling)' = Moved(HowMany(Producers, Telling), thread[p], place, Telling)
    BY <1>1, OneMoves
  <1>3. /\ HowMany(Customers, Ready)' = HowMany(Customers, Ready)
        /\ HowMany(Customers, Telling)' = HowMany(Customers, Telling)
    BY <1>1, OneMoves
  <1>4. \A u \in Course!Threads : thread'[u] = IF u = p THEN place ELSE thread[u]
    BY DEF CourseType, Course!Goes
  <1> QED
    BY <1>2, <1>3, <1>4

(* A customer's step changes the counts of the customers.                  *)
LEMMA CustomerMoves ==
  ASSUME CourseType, NEW c \in Customers, NEW place, Course!Goes(c, place)
  PROVE  /\ HowMany(Customers, Ready)' = Moved(HowMany(Customers, Ready), thread[c], place, Ready)
         /\ HowMany(Customers, Telling)' = Moved(HowMany(Customers, Telling), thread[c], place, Telling)
         /\ HowMany(Producers, Ready)' = HowMany(Producers, Ready)
         /\ HowMany(Producers, Telling)' = HowMany(Producers, Telling)
         /\ \A u \in Course!Threads : thread'[u] = IF u = c THEN place ELSE thread[u]
  <1>1. c \in Course!Threads /\ c \notin Producers
    BY CourseAssumption DEF Course!Threads
  <1>2. /\ HowMany(Customers, Ready)' = Moved(HowMany(Customers, Ready), thread[c], place, Ready)
        /\ HowMany(Customers, Telling)' = Moved(HowMany(Customers, Telling), thread[c], place, Telling)
    BY <1>1, OneMoves
  <1>3. /\ HowMany(Producers, Ready)' = HowMany(Producers, Ready)
        /\ HowMany(Producers, Telling)' = HowMany(Producers, Telling)
    BY <1>1, OneMoves
  <1>4. \A u \in Course!Threads : thread'[u] = IF u = c THEN place ELSE thread[u]
    BY DEF CourseType, Course!Goes
  <1> QED
    BY <1>2, <1>3, <1>4

LEMMA CountsAreNumbers ==
  /\ HowMany(Producers, Ready) \in Nat /\ HowMany(Producers, Telling) \in Nat
  /\ HowMany(Customers, Ready) \in Nat /\ HowMany(Customers, Telling) \in Nat
  BY Standers

(* The node that is told of.                                               *)
LEMMA TypeKept ==
  ASSUME CourseType, NEW t \in Course!Threads, NEW place \in Places, Course!Goes(t, place),
         nodes' \in Nat, psem' \in Nat, csem' \in Nat, UNCHANGED list_program
  PROVE  CourseType'
  BY DEF CourseType, Course!Goes

(* One thread moves, and neither adds a node nor goes to wait.             *)
LEMMA NodeToldKept ==
  ASSUME CourseType, NodeTold, NEW t \in Course!Threads, NEW place, Course!Goes(t, place),
         t \in Producers => thread[t] # "tell" \/ place = "tell",
         nodes' <= nodes \/ nodes' = 0, nodes' \in Nat,
         t \in Customers => place # "wait"
  PROVE  NodeTold'
  <1>1. \A u \in Course!Threads : thread'[u] = IF u = t THEN place ELSE thread[u]
    BY DEF CourseType, Course!Goes
  <1>2. Course!Waiting' = Customers => Course!Waiting = Customers
    BY <1>1 DEF Course!Waiting, Course!Threads
  <1>3. ASSUME NEW p \in Producers, thread[p] = "tell" PROVE thread'[p] = "tell"
    BY <1>1, <1>3 DEF Course!Threads
  <1>4. nodes' > 0 => nodes > 0
    BY DEF CourseType
  <1> QED
    BY <1>2, <1>3, <1>4 DEF NodeTold

LEMMA ProducerKeeps ==
  ASSUME CourseInv, NEW p \in Producers,
         \/ Course!producer_wait(p) \/ Course!Lock(p) \/ Course!produce(p)
         \/ Course!producer_signal(p) \/ Course!producer_post(p)
  PROVE  CourseInv'
  <1>0. p \in Course!Threads /\ p \notin Customers /\ CourseType
    BY CourseAssumption DEF Course!Threads, CourseInv
  <1> DEFINE a == HowMany(Producers, Ready)
             b == HowMany(Producers, Telling)
             c == HowMany(Customers, Ready)
             d == HowMany(Customers, Telling)
  <1>n. a \in Nat /\ b \in Nat /\ c \in Nat /\ d \in Nat /\ nodes \in Nat /\ psem \in Nat /\ csem \in Nat
    BY CountsAreNumbers, <1>0 DEF CourseType
  <1>m. ASSUME NEW place, Course!Goes(p, place)
        PROVE  /\ a' = Moved(a, thread[p], place, Ready)
               /\ b' = Moved(b, thread[p], place, Telling)
               /\ c' = c /\ d' = d
               /\ \A u \in Course!Threads : thread'[u] = IF u = p THEN place ELSE thread[u]
    BY <1>0, <1>m, ProducerMoves
  <1>s. SemaphoresCount <=> psem + a + nodes + d = Room /\ csem + b + c = nodes
    BY DEF SemaphoresCount
  <1>t. SemaphoresCount' <=> psem' + a' + nodes' + d' = Room /\ csem' + b' + c' = nodes'
    BY DEF SemaphoresCount
  <1> HIDE DEF a, b, c, d
  <1>1. CASE Course!producer_wait(p)
    <2>1. /\ thread[p] = "sem_wait" /\ psem > 0 /\ psem' = psem - 1 /\ Course!Goes(p, "lock")
          /\ UNCHANGED list_program /\ UNCHANGED nodes /\ UNCHANGED csem
      BY <1>1 DEF Course!producer_wait
    <2>2. CourseType'
      BY <1>0, <1>n, <2>1, TypeKept DEF Places
    <2>3. list_program = "cond" => NodeTold'
      BY <1>0, <1>n, <2>1, NodeToldKept DEF CourseInv
    <2>4. a' = a + 1 /\ b' = b /\ c' = c /\ d' = d
      BY <2>1, <1>m DEF Moved, Ready, Telling
    <2>5. SemaphoresCount => SemaphoresCount'
      BY <1>n, <2>1, <2>4, <1>s, <1>t, CourseAssumption
    <2>6. OnSemaphores => OnSemaphores'
      BY <2>1, <1>m DEF OnSemaphores
    <2> QED
      BY <2>1, <2>2, <2>3, <2>5, <2>6 DEF CourseInv
  <1>2. CASE Course!Lock(p)
    <2>1. /\ thread[p] = "lock" /\ Course!Goes(p, "locked")
          /\ UNCHANGED list_program /\ UNCHANGED nodes /\ UNCHANGED psem /\ UNCHANGED csem
      BY <1>2 DEF Course!Lock
    <2>2. CourseType'
      BY <1>0, <1>n, <2>1, TypeKept DEF Places
    <2>3. list_program = "cond" => NodeTold'
      BY <1>0, <1>n, <2>1, NodeToldKept DEF CourseInv
    <2>4. a' = a /\ b' = b /\ c' = c /\ d' = d
      BY <2>1, <1>m DEF Moved, Ready, Telling
    <2>5. SemaphoresCount => SemaphoresCount'
      BY <2>1, <2>4, <1>s, <1>t
    <2>6. OnSemaphores => OnSemaphores'
      BY <2>1, <1>m DEF OnSemaphores
    <2> QED
      BY <2>1, <2>2, <2>3, <2>5, <2>6 DEF CourseInv
  <1>3. CASE Course!produce(p)
    <2>1. /\ thread[p] = "locked" /\ nodes' = nodes + 1
          /\ UNCHANGED list_program /\ UNCHANGED psem /\ UNCHANGED csem
          /\ IF list_program = "prod-cust" THEN Course!Goes(p, "lock") ELSE Course!Goes(p, "tell")
      BY <1>3 DEF Course!produce, Course!Loops
    <2>2. CourseType'
      BY <1>0, <1>n, <2>1, TypeKept DEF Places
    <2>3. list_program = "cond" => NodeTold'
      BY <1>0, <2>1, <1>m DEF NodeTold
    <2>4. ASSUME list_program = "semaphore" PROVE a' = a - 1 /\ b' = b + 1 /\ c' = c /\ d' = d
      BY <2>1, <2>4, <1>m DEF Moved, Ready, Telling
    <2>5. list_program = "semaphore" /\ SemaphoresCount => SemaphoresCount'
      BY <1>n, <2>1, <2>4, <1>s, <1>t, CourseAssumption
    <2>6. list_program = "semaphore" /\ OnSemaphores => OnSemaphores'
      BY <2>1, <1>m DEF OnSemaphores
    <2> QED
      BY <2>1, <2>2, <2>3, <2>5, <2>6 DEF CourseInv
  <1>4. CASE Course!producer_signal(p)
    <2>1. list_program = "cond" /\ UNCHANGED list_program /\ UNCHANGED nodes /\ UNCHANGED psem /\ UNCHANGED csem
      BY <1>4 DEF Course!producer_signal
    <2>2. CASE Course!Waiting = {} /\ Course!Goes(p, "lock")
      <3>1. CourseType'
        BY <1>0, <1>n, <2>1, <2>2, TypeKept DEF Places
      <3>2. Course!Waiting' = {}
        BY <1>m, <2>2 DEF Course!Waiting, Course!Threads
      <3> QED
        BY <2>1, <3>1, <3>2, CourseAssumption DEF CourseInv, NodeTold
    <2>3. CASE \E w \in Course!Waiting : thread' = [thread EXCEPT ![p] = "lock", ![w] = "woken"]
      <3>1. PICK w \in Course!Waiting : thread' = [thread EXCEPT ![p] = "lock", ![w] = "woken"]
        BY <2>3
      <3>2. w \in Customers /\ w \in Course!Threads
        BY DEF Course!Waiting, Course!Threads
      <3>3. CourseType'
        BY <1>0, <2>1, <3>1, <3>2 DEF CourseType, Places
      <3>4. w \notin Course!Waiting'
        BY <1>0, <3>1, <3>2 DEF Course!Waiting, CourseType
      <3> QED
        BY <2>1, <3>2, <3>3, <3>4 DEF CourseInv, NodeTold
    <2> QED
      BY <1>4, <2>1, <2>2, <2>3 DEF Course!producer_signal, Course!Loops
  <1>5. CASE Course!producer_post(p)
    <2>1. /\ list_program = "semaphore" /\ thread[p] = "tell" /\ csem' = csem + 1
          /\ Course!Goes(p, "sem_wait")
          /\ UNCHANGED list_program /\ UNCHANGED nodes /\ UNCHANGED psem
      BY <1>5 DEF Course!producer_post, Course!Loops
    <2>2. CourseType'
      BY <1>0, <1>n, <2>1, TypeKept DEF Places
    <2>4. a' = a /\ b' = b - 1 /\ c' = c /\ d' = d
      BY <2>1, <1>m DEF Moved, Ready, Telling
    <2>5. SemaphoresCount => SemaphoresCount'
      BY <1>n, <2>1, <2>4, <1>s, <1>t, CourseAssumption
    <2>6. OnSemaphores => OnSemaphores'
      BY <2>1, <1>m DEF OnSemaphores
    <2> QED
      BY <2>1, <2>2, <2>5, <2>6 DEF CourseInv
  <1> QED
    BY <1>1, <1>2, <1>3, <1>4, <1>5

LEMMA CustomerKeeps ==
  ASSUME CourseInv, NEW t \in Customers,
         \/ Course!customer_wait(t) \/ Course!Lock(t) \/ Course!consume(t)
         \/ Course!find_none(t) \/ Course!wake(t) \/ Course!customer_post(t)
  PROVE  CourseInv'
  <1>0. t \in Course!Threads /\ t \notin Producers /\ CourseType
    BY CourseAssumption DEF Course!Threads, CourseInv
  <1> DEFINE a == HowMany(Producers, Ready)
             b == HowMany(Producers, Telling)
             c == HowMany(Customers, Ready)
             d == HowMany(Customers, Telling)
  <1>n. a \in Nat /\ b \in Nat /\ c \in Nat /\ d \in Nat /\ nodes \in Nat /\ psem \in Nat /\ csem \in Nat
    BY CountsAreNumbers, <1>0 DEF CourseType
  <1>m. ASSUME NEW place, Course!Goes(t, place)
        PROVE  /\ c' = Moved(c, thread[t], place, Ready)
               /\ d' = Moved(d, thread[t], place, Telling)
               /\ a' = a /\ b' = b
               /\ \A u \in Course!Threads : thread'[u] = IF u = t THEN place ELSE thread[u]
    BY <1>0, <1>m, CustomerMoves
  <1>s. SemaphoresCount <=> psem + a + nodes + d = Room /\ csem + b + c = nodes
    BY DEF SemaphoresCount
  <1>t. SemaphoresCount' <=> psem' + a' + nodes' + d' = Room /\ csem' + b' + c' = nodes'
    BY DEF SemaphoresCount
  <1>p. thread[t] \in Ready => c > 0
    <2>1. ASSUME thread[t] \in Ready PROVE t \in Standing(Customers, Ready)
      BY <2>1 DEF Standing
    <2>2. IsFiniteSet(Standing(Customers, Ready))
      BY Standers
    <2> QED
      BY <1>n, <2>1, <2>2, FS_EmptySet DEF HowMany
  <1> HIDE DEF a, b, c, d
  <1>1. CASE Course!customer_wait(t)
    <2>1. /\ thread[t] = "sem_wait" /\ csem > 0 /\ csem' = csem - 1 /\ Course!Goes(t, "lock")
          /\ UNCHANGED list_program /\ UNCHANGED nodes /\ UNCHANGED psem
      BY <1>1 DEF Course!customer_wait
    <2>2. CourseType'
      BY <1>0, <1>n, <2>1, TypeKept DEF Places
    <2>3. list_program = "cond" => NodeTold'
      BY <1>0, <1>n, <2>1, NodeToldKept DEF CourseInv
    <2>4. a' = a /\ b' = b /\ c' = c + 1 /\ d' = d
      BY <2>1, <1>m DEF Moved, Ready, Telling
    <2>5. SemaphoresCount => SemaphoresCount'
      BY <1>n, <2>1, <2>4, <1>s, <1>t, CourseAssumption
    <2>6. OnSemaphores => OnSemaphores'
      BY <2>1, <1>m DEF OnSemaphores
    <2> QED
      BY <2>1, <2>2, <2>3, <2>5, <2>6 DEF CourseInv
  <1>2. CASE Course!Lock(t)
    <2>1. /\ thread[t] = "lock" /\ Course!Goes(t, "locked")
          /\ UNCHANGED list_program /\ UNCHANGED nodes /\ UNCHANGED psem /\ UNCHANGED csem
      BY <1>2 DEF Course!Lock
    <2>2. CourseType'
      BY <1>0, <1>n, <2>1, TypeKept DEF Places
    <2>3. list_program = "cond" => NodeTold'
      BY <1>0, <1>n, <2>1, NodeToldKept DEF CourseInv
    <2>4. a' = a /\ b' = b /\ c' = c /\ d' = d
      BY <2>1, <1>m DEF Moved, Ready, Telling
    <2>5. SemaphoresCount => SemaphoresCount'
      BY <2>1, <2>4, <1>s, <1>t
    <2>6. OnSemaphores => OnSemaphores'
      BY <2>1, <1>m DEF OnSemaphores
    <2> QED
      BY <2>1, <2>2, <2>3, <2>5, <2>6 DEF CourseInv
  <1>3. CASE Course!consume(t)
    <2>1. /\ thread[t] = "locked" /\ nodes > 0 /\ nodes' = nodes - 1
          /\ UNCHANGED list_program /\ UNCHANGED psem /\ UNCHANGED csem
          /\ IF list_program = "semaphore" THEN Course!Goes(t, "tell") ELSE Course!Goes(t, "lock")
      BY <1>3 DEF Course!consume, Course!Loops
    <2>2. CourseType'
      BY <1>0, <1>n, <2>1, TypeKept DEF Places
    <2>3. list_program = "cond" => NodeTold'
      BY <1>0, <1>n, <2>1, NodeToldKept DEF CourseInv
    <2>4. ASSUME list_program = "semaphore" PROVE a' = a /\ b' = b /\ c' = c - 1 /\ d' = d + 1
      BY <2>1, <2>4, <1>m DEF Moved, Ready, Telling
    <2>5. list_program = "semaphore" /\ SemaphoresCount => SemaphoresCount'
      BY <1>n, <2>1, <2>4, <1>s, <1>t, CourseAssumption
    <2>6. list_program = "semaphore" /\ OnSemaphores => OnSemaphores'
      BY <2>1, <1>m DEF OnSemaphores
    <2> QED
      BY <2>1, <2>2, <2>3, <2>5, <2>6 DEF CourseInv
  <1>4. CASE Course!find_none(t)
    <2>1. /\ thread[t] = "locked" /\ nodes = 0
          /\ UNCHANGED list_program /\ UNCHANGED nodes /\ UNCHANGED psem /\ UNCHANGED csem
          /\ Course!Goes(t, CASE list_program = "prod-cust" -> "lock"
                             [] list_program = "cond" -> "wait"
                             [] list_program = "semaphore" -> "null")
      BY <1>4 DEF Course!find_none
    <2>2. CourseType'
      <3> DEFINE place == CASE list_program = "prod-cust" -> "lock"
                             [] list_program = "cond" -> "wait"
                             [] list_program = "semaphore" -> "null"
      <3>1. place \in Places
        BY <1>0 DEF CourseType, Places
      <3>2. Course!Goes(t, place)
        BY <2>1
      <3> HIDE DEF place
      <3> QED
        BY <1>0, <1>n, <2>1, <3>1, <3>2, TypeKept
    <2>3. NodeTold'
      BY <2>1 DEF NodeTold
    <2>4. list_program # "semaphore"
      <3>1. ASSUME list_program = "semaphore" PROVE FALSE
        <4>1. csem + b + c = nodes
          BY <1>s, <3>1 DEF CourseInv
        <4>2. c > 0
          BY <1>p, <2>1 DEF Ready
        <4> QED
          BY <1>n, <2>1, <4>1, <4>2
      <3> QED
        BY <3>1
    <2> QED
      BY <2>1, <2>2, <2>3, <2>4 DEF CourseInv
  <1>5. CASE Course!wake(t)
    <2>1. /\ thread[t] \in {"woken", "wait"}
          /\ UNCHANGED list_program /\ UNCHANGED nodes /\ UNCHANGED psem /\ UNCHANGED csem
          /\ IF list_program = "semaphore" THEN Course!Goes(t, "sem_wait") ELSE Course!Goes(t, "lock")
      BY <1>5 DEF Course!wake, Course!Loops
    <2>2. CourseType'
      BY <1>0, <1>n, <2>1, TypeKept DEF Places
    <2>3. list_program = "cond" => NodeTold'
      BY <1>0, <1>n, <2>1, NodeToldKept DEF CourseInv
    <2>4. list_program # "semaphore"
      BY <1>0, <2>1 DEF CourseInv, OnSemaphores
    <2> QED
      BY <2>1, <2>2, <2>3, <2>4 DEF CourseInv
  <1>6. CASE Course!customer_post(t)
    <2>1. /\ thread[t] = "tell" /\ psem' = psem + 1
          /\ UNCHANGED list_program /\ UNCHANGED nodes /\ UNCHANGED csem
          /\ IF list_program = "semaphore" THEN Course!Goes(t, "sem_wait") ELSE Course!Goes(t, "lock")
      BY <1>6 DEF Course!customer_post, Course!Loops
    <2>2. CourseType'
      BY <1>0, <1>n, <2>1, TypeKept DEF Places
    <2>3. list_program = "cond" => NodeTold'
      BY <1>0, <1>n, <2>1, NodeToldKept DEF CourseInv
    <2>4. ASSUME list_program = "semaphore" PROVE a' = a /\ b' = b /\ c' = c /\ d' = d - 1
      BY <2>1, <2>4, <1>m DEF Moved, Ready, Telling
    <2>5. list_program = "semaphore" /\ SemaphoresCount => SemaphoresCount'
      BY <1>n, <2>1, <2>4, <1>s, <1>t, CourseAssumption
    <2>6. list_program = "semaphore" /\ OnSemaphores => OnSemaphores'
      BY <2>1, <1>m DEF OnSemaphores
    <2> QED
      BY <2>1, <2>2, <2>3, <2>5, <2>6 DEF CourseInv
  <1> QED
    BY <1>1, <1>2, <1>3, <1>4, <1>5, <1>6

LEMMA CourseNext == CourseInv /\ [Course!Next]_threadVars => CourseInv'
  <1> SUFFICES ASSUME CourseInv, [Course!Next]_threadVars PROVE CourseInv'
    OBVIOUS
  <1>1. CASE UNCHANGED threadVars
    BY <1>1 DEF threadVars, CourseInv, CourseType, NodeTold, SemaphoresCount, OnSemaphores,
                HowMany, Standing, Course!Waiting
  <1>2. ASSUME NEW p \in Producers, Course!producer(p) PROVE CourseInv'
    BY <1>2, ProducerKeeps DEF Course!producer
  <1>3. ASSUME NEW c \in Customers, Course!customer(c) PROVE CourseInv'
    BY <1>3, CustomerKeeps DEF Course!customer
  <1> QED
    BY <1>1, <1>2, <1>3 DEF Course!Next

(* No list is longer than Room, and no node is left to waiting customers.  *)
LEMMA CourseKept == CourseInv => Course!NodesTaken
  <1> SUFFICES ASSUME CourseInv PROVE Course!NodesTaken
    OBVIOUS
  <1>1. list_program = "cond" => NodeTold
    BY DEF CourseInv
  <1>2. ASSUME list_program = "semaphore" PROVE nodes <= Room
    <2> DEFINE a == HowMany(Producers, Ready)
               d == HowMany(Customers, Telling)
    <2>1. psem + a + nodes + d = Room /\ a \in Nat /\ d \in Nat /\ nodes \in Nat /\ psem \in Nat
      BY <1>2, CountsAreNumbers DEF CourseInv, SemaphoresCount, CourseType
    <2> HIDE DEF a, d
    <2> QED
      BY <2>1, CourseAssumption
  <1>3. list_program = "semaphore" => \A c \in Customers : thread[c] # "null"
    BY DEF CourseInv, OnSemaphores, Course!Threads
  <1> QED
    BY <1>1, <1>2, <1>3 DEF Course!NodesTaken, NodeTold

-----------------------------------------------------------------------------
(* What is handed over.                                                    *)

(* What the course's threads and processes hand over or count.             *)
HandedInv == CourseInv /\ SellingInv /\ ReapingInv /\ SlotInv /\ ChatInv

(* HandedOver always holds: each thread takes the node that was handed to  *)
(* it, no ticket is lost or sold twice under a lock, a child that has      *)
(* ended is reaped while its signal is pending or its handler runs, a      *)
(* connection has one thread, and the two sides of a chat take turns.      *)
THEOREM HandedOverAlways == FairSpec => []HandedOver
  <1>1. Init => HandedInv
    BY CourseInit, SellingInit, ReapingInit, SlotInit, ChatInit DEF Init, HandedInv
  <1>2. HandedInv /\ [Next]_vars => HandedInv'
    <2> SUFFICES ASSUME HandedInv, [Next]_vars PROVE HandedInv'
      OBVIOUS
    <2>1. CourseInv'
      BY CourseStep, CourseNext DEF HandedInv
    <2>2. SellingInv'
      BY TicketsStep, SellingNext DEF HandedInv
    <2>3. ReapingInv'
      BY ReapingStep, ReapingNext DEF HandedInv
    <2>4. SlotInv'
      BY SlotStep, SlotNext DEF HandedInv
    <2>5. ChatInv'
      BY ChatStep, ChatNext DEF HandedInv
    <2> QED
      BY <2>1, <2>2, <2>3, <2>4, <2>5 DEF HandedInv
  <1>3. HandedInv => HandedOver
    BY CourseKept, SellingCounts, SlotCounts, ChatKept DEF HandedInv, ReapingInv, HandedOver
  <1> QED
    BY <1>1, <1>2, <1>3, PTL DEF FairSpec

-----------------------------------------------------------------------------
(* CourseServers: the table of connections and what the wait looks at.     *)

(* A step of Programs is a step of this one, or none.                      *)
LEMMA EchoStep == [Next]_vars => [Echo!Next]_echoVars
  BY DEF Next, vars, courseVars, ConnOnly, ServerOnly, TimersOnly, CourseOnly, ReapingOnly,
     LastOnly

(* The table and what is at hand.                                          *)
EchoType ==
  /\ kind \in {"select", "poll", "epoll", "lt", "et"}
  /\ eOpen \subseteq eDescriptors
  /\ table \in [Echo!Indices -> eDescriptors \cup {0}]
  /\ top \in 0..LastIndex
  /\ revents \subseteq Echo!Indices
  /\ eGone \in [eDescriptors -> {"no", "fin", "rst"}]
  /\ eUnread \in [eDescriptors -> Nat]
  /\ eAt \in {"loop", "send", "exited"}
  /\ cur \in 0..LastIndex

(* The table has every connection once, within what the wait looks at.     *)
TableInv ==
  /\ \A x \in Echo!Indices : table[x] # 0 => table[x] \in eOpen /\ x <= top
  /\ \A x, y \in Echo!Indices : table[x] # 0 /\ table[x] = table[y] => x = y
  /\ \A f \in eOpen : \E x \in Echo!Indices : table[x] = f
  /\ kind # "poll" => \A x \in Echo!Indices : table[x] \in {0, x}
  /\ kind \in {"select", "poll"} => \A f \in eOpen : f <= top
  /\ kind \in {"epoll", "lt", "et"} => top = LastIndex

(* What is being handled is a connection, but for poll; and an edge is      *)
(* reported or being read.                                                 *)
EventsInv ==
  /\ kind # "poll" => \A x \in revents : table[x] # 0
  /\ eAt = "send" => cur # 0 /\ table[cur] # 0
  /\ eAt = "exited" /\ kind # "poll" => \E f \in eOpen : eGone[f] = "rst"
EdgesInv ==
  kind = "et" => \A f \in eOpen : Echo!Ready(f) =>
                   f \in edge \/ \E x \in Echo!Left : table[x] = f

EchoInv == EchoType /\ TableInv /\ EventsInv /\ EdgesInv

LEMMA DescriptorsAre ==
  /\ \A f \in eDescriptors : f \in Echo!Indices /\ f \in Nat /\ f # 0 /\ f <= LastIndex
  /\ \A x \in Echo!Indices : x \in Nat /\ x # 0 /\ x <= LastIndex /\ x \in 0..LastIndex
  /\ LastIndex \in Nat
  BY EchoAssumption DEF Echo!Indices

(* The kernel gives the least free number.                                 *)
LEMMA LeastIs ==
  ASSUME NEW S, S \subseteq Nat, S # {}
  PROVE  Echo!Least(S) \in S /\ \A y \in S : Echo!Least(S) <= y
  BY LeastOf DEF Echo!Least

LEMMA EchoInit == Echo!Init => EchoInv
  <1> SUFFICES ASSUME Echo!Init PROVE EchoInv
    OBVIOUS
  <1>1. /\ eOpen = {} /\ table = [x \in Echo!Indices |-> 0] /\ eAt = "loop" /\ cur = 0
        /\ eUnread = [f \in eDescriptors |-> 0] /\ eGone = [f \in eDescriptors |-> "no"]
    BY DEF Echo!Init, Echo!Waits
  <1>2. /\ kind \in {"select", "poll", "epoll", "lt", "et"}
        /\ top = IF kind \in {"select", "poll"} THEN 0 ELSE LastIndex
        /\ revents \subseteq Echo!Indices /\ (kind # "poll" => revents = {})
    BY DEF Echo!Init, Echo!SelectInit, Echo!PollInit, Echo!EpollInit, Echo!LtInit, Echo!EtInit
  <1>3. EchoType
    BY <1>1, <1>2, DescriptorsAre DEF EchoType
  <1>4. TableInv
    BY <1>1, <1>2 DEF TableInv
  <1>5. EventsInv /\ EdgesInv
    BY <1>1, <1>2 DEF EventsInv, EdgesInv
  <1> QED
    BY <1>3, <1>4, <1>5 DEF EchoInv

-----------------------------------------------------------------------------
(* A client's step.                                                        *)
LEMMA EchoClientKeeps == ASSUME EchoInv, Echo!Client PROVE EchoInv'
  <1> USE DEF EchoInv
  <1>1. CASE Echo!Connect
    <2>1. UNCHANGED <<kind, eGone, eOpen, eUnread, edge, table, top, revents, eAt, cur>>
      BY <1>1 DEF Echo!Connect
    <2> QED
      BY <2>1 DEF EchoType, TableInv, EventsInv, EdgesInv, Echo!Ready, Echo!Left
  <1>2. ASSUME NEW f \in eDescriptors, Echo!ClientReads(f) PROVE EchoInv'
    <2>1. UNCHANGED <<kind, eGone, eOpen, eUnread, edge, table, top, revents, eAt, cur>>
      BY <1>2 DEF Echo!ClientReads
    <2> QED
      BY <2>1 DEF EchoType, TableInv, EventsInv, EdgesInv, Echo!Ready, Echo!Left
  <1>3. ASSUME NEW f \in eDescriptors, Echo!ClientSend(f) PROVE EchoInv'
    <2>1. UNCHANGED <<kind, eGone, eOpen, table, top, revents, eAt, cur>>
      BY <1>3 DEF Echo!ClientSend, Echo!clientVars
    <2>2. eUnread' = [eUnread EXCEPT ![f] = @ + 1] /\ edge' = edge \cup {f}
      BY <1>3 DEF Echo!ClientSend
    <2>3. EchoType'
      BY <2>1, <2>2 DEF EchoType
    <2>4. TableInv' /\ EventsInv'
      BY <2>1 DEF TableInv, EventsInv
    <2>5. \A g \in eOpen \ {f} : Echo!Ready(g)' => Echo!Ready(g)
      BY <2>1, <2>2 DEF EchoType, Echo!Ready
    <2>6. EdgesInv'
      BY <2>1, <2>2, <2>5 DEF EdgesInv, Echo!Left
    <2> QED
      BY <2>3, <2>4, <2>6
  <1>4. ASSUME NEW f \in eDescriptors, Echo!Leave(f) PROVE EchoInv'
    <2>1. UNCHANGED <<kind, eUnread, eOpen, table, top, revents, eAt, cur>>
      BY <1>4 DEF Echo!Leave
    <2>2. eGone[f] = "no" /\ edge' = edge \cup {f}
      BY <1>4 DEF Echo!Leave
    <2>3. PICK how \in {"fin", "rst"} : eGone' = [eGone EXCEPT ![f] = how]
      BY <1>4 DEF Echo!Leave
    <2>4. EchoType'
      BY <2>1, <2>3 DEF EchoType
    <2>5. TableInv'
      BY <2>1 DEF TableInv
    <2>6. \A g \in eOpen : eGone[g] = "rst" => eGone'[g] = "rst"
      BY <2>2, <2>3 DEF EchoType
    <2>7. EventsInv'
      BY <2>1, <2>6 DEF EventsInv
    <2>8. \A g \in eOpen \ {f} : Echo!Ready(g)' => Echo!Ready(g)
      BY <2>1, <2>3 DEF EchoType, Echo!Ready
    <2>9. EdgesInv'
      BY <2>1, <2>2, <2>8 DEF EdgesInv, Echo!Left
    <2> QED
      BY <2>4, <2>5, <2>7, <2>9
  <1> QED
    BY <1>1, <1>2, <1>3, <1>4 DEF Echo!Client

-----------------------------------------------------------------------------

(* select(), poll() or epoll_wait() reports what is ready.                 *)
LEMMA EchoWaitKeeps == ASSUME EchoInv, Echo!Wait PROVE EchoInv'
  <1> USE DEF EchoInv
  <1>1. /\ eAt = "loop" /\ cur = 0 /\ Echo!Left = {}
        /\ UNCHANGED <<kind, eGone, eOpen, eUnread, table, top, eAt, cur>>
    BY DEF Echo!Wait, Echo!SelectWait, Echo!PollWait, Echo!EpollWait, Echo!LtWait, Echo!EtWait,
           Echo!Reports, Echo!clientVars
  <1>2. \/ revents' \subseteq Echo!Watched
        \/ kind = "poll" /\ revents' \subseteq Echo!Watched \cup revents
    BY DEF Echo!Wait, Echo!SelectWait, Echo!PollWait, Echo!EpollWait, Echo!LtWait, Echo!EtWait,
           Echo!Reports
  <1>3. EchoType'
    BY <1>1, <1>2 DEF EchoType, Echo!Watched
  <1>4. TableInv'
    BY <1>1 DEF TableInv
  <1>5. EventsInv'
    BY <1>1, <1>2 DEF EventsInv, Echo!Watched
  <1>6. ASSUME kind = "et" PROVE revents' = {x \in Echo!Watched : table[x] \in edge}
    BY <1>6 DEF Echo!Wait, Echo!SelectWait, Echo!PollWait, Echo!EpollWait, Echo!LtWait,
       Echo!EtWait,
           Echo!Reports
  <1>7. ASSUME kind = "et", NEW f \in eOpen, Echo!Ready(f) PROVE \E x \in Echo!Left' : table[x] = f
    <2>1. PICK x \in Echo!Indices : table[x] = f
      BY DEF TableInv
    <2>2. f \in edge
      BY <1>1, <1>7 DEF EdgesInv
    <2>3. table[x] # 0 /\ x <= top
      BY <2>1, DescriptorsAre DEF EchoType, TableInv
    <2> QED
      BY <1>1, <1>6, <1>7, <2>1, <2>2, <2>3 DEF Echo!Watched, Echo!Left
  <1>8. EdgesInv'
    BY <1>1, <1>7 DEF EdgesInv, Echo!Ready
  <1> QED
    BY <1>3, <1>4, <1>5, <1>8

-----------------------------------------------------------------------------
(* poll's first free entry is within what it looks at once the connection is *)
(* there: the entries before it hold as many connections, and nfds is at     *)
(* least as large as every descriptor in use.                               *)
LEMMA FreeEntry ==
  ASSUME EchoInv, kind = "poll", NEW cfd \in eDescriptors \ eOpen
  PROVE  LET index == Echo!Least({x \in Echo!Indices : table[x] = 0})
         IN  /\ index \in Echo!Indices /\ table[index] = 0
             /\ index <= Echo!Larger(top, cfd)
  <1> DEFINE m == Echo!Larger(top, cfd)
             free == {x \in Echo!Indices : table[x] = 0}
  <1>1. m \in 1..LastIndex /\ top <= m /\ cfd <= m /\ m \in Nat /\ cfd \in 1..m
    BY DescriptorsAre DEF EchoInv, EchoType, Echo!Larger
  <1>2. \A f \in eOpen : f \in 1..m
    BY <1>1, DescriptorsAre DEF EchoInv, EchoType, TableInv
  <1>0. \A x \in 1..m : x \in Echo!Indices
    BY <1>1, DescriptorsAre DEF Echo!Indices
  <1> HIDE DEF m
  <1>3. \E x \in 1..m : table[x] = 0
    <2> SUFFICES ASSUME \A x \in 1..m : table[x] # 0 PROVE FALSE
      OBVIOUS
    <2> DEFINE T == (1..m) \ {cfd}
               h == [x \in 1..m |-> table[x]]
    <2>1. IsFiniteSet(1..m) /\ Cardinality(1..m) = m
      BY <1>1, FS_Interval
    <2>2. IsFiniteSet(T) /\ Cardinality(T) = m - 1
      BY <1>1, <2>1, FS_RemoveElement
    <2>3. \A x \in 1..m : x \in Echo!Indices
      BY <1>0
    <2>4. \A x \in 1..m : table[x] \in T
      BY <1>2, <2>3 DEF EchoInv, TableInv
    <2>5. h \in [1..m -> T]
      BY <2>4
    <2>6. Cardinality(T) < Cardinality(1..m)
      BY <1>1, <2>1, <2>2
    <2>8. \A x \in 1..m : h[x] = table[x]
      OBVIOUS
    <2> HIDE DEF T, h
    <2>7. \E x, y \in 1..m : x # y /\ h[x] = h[y]
      BY <2>1, <2>2, <2>5, <2>6, FS_PigeonHole
    <2> QED
      BY <2>3, <2>7, <2>8 DEF EchoInv, TableInv
  <1>4. PICK x \in 1..m : table[x] = 0
    BY <1>3
  <1>5. x \in free
    BY <1>0, <1>4
  <1>6. free \subseteq Nat
    BY DescriptorsAre
  <1>7. Echo!Least(free) \in free /\ Echo!Least(free) <= x /\ Echo!Least(free) \in Nat
    BY <1>5, <1>6, LeastIs
  <1>8. Echo!Least(free) <= m
    BY <1>1, <1>4, <1>7
  <1> QED
    BY <1>7, <1>8 DEF m

(* A connection gets an entry that is free and looked at.                  *)
LEMMA EntersKeeps ==
  ASSUME EchoInv, NEW cfd \in eDescriptors \ eOpen, NEW index \in Echo!Indices,
         table[index] = 0, kind # "poll" => index = cfd,
         Echo!Enters(cfd, index), top' \in 0..LastIndex, top <= top', index <= top',
         kind \in {"select", "poll"} => cfd <= top',
         kind \in {"epoll", "lt", "et"} => top' = top
  PROVE  EchoInv'
  <1> USE DEF EchoInv
  <1>1. /\ eAt = "loop" /\ cur = 0 /\ eOpen' = eOpen \cup {cfd}
        /\ eGone' = [eGone EXCEPT ![cfd] = "no"]
        /\ table' = [table EXCEPT ![index] = cfd]
        /\ UNCHANGED <<kind, revents, eAt, cur>>
    BY DEF Echo!Enters
  <1>2. PICK n \in 0..1 : /\ eUnread' = [eUnread EXCEPT ![cfd] = n]
                          /\ edge' = IF n > 0 THEN edge \cup {cfd} ELSE edge \ {cfd}
    BY DEF Echo!Enters
  <1>3. \A x \in Echo!Indices : table'[x] = IF x = index THEN cfd ELSE table[x]
    BY <1>1 DEF EchoType
  <1>4. cfd # 0 /\ cfd \in Nat
    BY DescriptorsAre
  <1>5. EchoType'
    <2>1. eUnread' \in [eDescriptors -> Nat]
      BY <1>2 DEF EchoType
    <2>2. table' \in [Echo!Indices -> eDescriptors \cup {0}]
      BY <1>1 DEF EchoType
    <2> QED
      BY <1>1, <2>1, <2>2 DEF EchoType
  <1>6. TableInv'
    <2>1. \A x \in Echo!Indices : table'[x] # 0 => table'[x] \in eOpen' /\ x <= top'
      BY <1>1, <1>3, DescriptorsAre DEF TableInv, EchoType
    <2>2. \A x, y \in Echo!Indices : table'[x] # 0 /\ table'[x] = table'[y] => x = y
      BY <1>3 DEF TableInv
    <2>3. \A f \in eOpen' : \E x \in Echo!Indices : table'[x] = f
      <3>1. ASSUME NEW f \in eOpen PROVE \E x \in Echo!Indices : table'[x] = f
        <4>1. PICK x \in Echo!Indices : table[x] = f
          BY DEF TableInv
        <4>2. x # index
          BY <4>1, DescriptorsAre DEF EchoType
        <4> QED
          BY <1>3, <4>1, <4>2
      <3> QED
        BY <1>1, <1>3, <3>1
    <2>4. kind # "poll" => \A x \in Echo!Indices : table'[x] \in {0, x}
      BY <1>3 DEF TableInv
    <2>5. kind \in {"select", "poll"} => \A f \in eOpen' : f <= top'
      BY <1>1, DescriptorsAre DEF TableInv, EchoType
    <2> QED
      BY <1>1, <2>1, <2>2, <2>3, <2>4, <2>5 DEF TableInv
  <1>7. EventsInv'
    <2>1. \A x \in revents : x \in Echo!Indices
      BY DEF EchoType
    <2> QED
      BY <1>1, <1>3, <1>4, <2>1 DEF EventsInv
  <1>8. EdgesInv'
    <2> SUFFICES ASSUME kind = "et", NEW f \in eOpen', Echo!Ready(f)'
                 PROVE  f \in edge' \/ \E x \in Echo!Left' : table'[x] = f
      BY <1>1 DEF EdgesInv
    <2>1. CASE f = cfd
      BY <1>1, <1>2, <2>1 DEF Echo!Ready, EchoType
    <2>2. CASE f # cfd
      <3>1. f \in eOpen /\ Echo!Ready(f)
        BY <1>1, <1>2, <2>2 DEF Echo!Ready, EchoType
      <3>2. CASE f \in edge
        BY <1>2, <2>2, <3>2
      <3>3. CASE \E x \in Echo!Left : table[x] = f
        <4>1. PICK x \in Echo!Left : table[x] = f
          BY <3>3
        <4>2. f # 0
          BY <3>1, DescriptorsAre DEF EchoType
        <4>3. x \in Echo!Left' /\ table'[x] = f
          BY <1>1, <1>3, <4>1, <4>2 DEF Echo!Left, EchoType, TableInv
        <4> QED
          BY <4>3
      <3> QED
        BY <3>1, <3>2, <3>3 DEF EdgesInv
    <2> QED
      BY <2>1, <2>2
  <1> QED
    BY <1>5, <1>6, <1>7, <1>8

(* The new connection has one entry, and top reaches it.                   *)
LEMMA EchoAcceptKeeps == ASSUME EchoInv, Echo!Accept PROVE EchoInv'
  <1>1. ASSUME NEW cfd \in Echo!NewFd
        PROVE  /\ cfd \in eDescriptors \ eOpen /\ cfd \in Echo!Indices
               /\ kind # "poll" => table[cfd] = 0
    BY DescriptorsAre DEF Echo!NewFd, EchoInv, TableInv
  <1>2. ASSUME NEW cfd \in Echo!NewFd
        PROVE  /\ Echo!Larger(top, cfd) \in 0..LastIndex
               /\ top <= Echo!Larger(top, cfd) /\ cfd <= Echo!Larger(top, cfd)
    BY <1>1, DescriptorsAre DEF Echo!Larger, EchoInv, EchoType
  <1>3. CASE Echo!SelectAccept
    <2>1. PICK cfd \in Echo!NewFd : Echo!Enters(cfd, cfd) /\ top' = Echo!Larger(top, cfd)
      BY <1>3 DEF Echo!SelectAccept
    <2>2. kind = "select"
      BY <1>3 DEF Echo!SelectAccept
    <2> QED
      BY <1>1, <1>2, <2>1, <2>2, EntersKeeps
  <1>4. CASE Echo!PollAccept
    <2> DEFINE index == Echo!Least({x \in Echo!Indices : table[x] = 0})
    <2>1. PICK cfd \in Echo!NewFd : Echo!Enters(cfd, index) /\ top' = Echo!Larger(top, cfd)
      BY <1>4 DEF Echo!PollAccept
    <2>2. kind = "poll"
      BY <1>4 DEF Echo!PollAccept
    <2>3. index \in Echo!Indices /\ table[index] = 0 /\ index <= Echo!Larger(top, cfd)
      BY <1>1, <2>2, FreeEntry
    <2> HIDE DEF index
    <2> QED
      BY <1>1, <1>2, <2>1, <2>2, <2>3, EntersKeeps
  <1>5. CASE Echo!EpollAccept \/ Echo!LtAccept \/ Echo!EtAccept
    <2>1. PICK cfd \in Echo!NewFd : Echo!Enters(cfd, cfd)
      BY <1>5 DEF Echo!EpollAccept, Echo!LtAccept, Echo!EtAccept
    <2>2. kind \in {"epoll", "lt", "et"} /\ top' = top
      BY <1>5 DEF Echo!EpollAccept, Echo!LtAccept, Echo!EtAccept
    <2>3. top = LastIndex /\ cfd <= top' /\ top' \in 0..LastIndex /\ top <= top'
      BY <1>1, <2>2, DescriptorsAre DEF EchoInv, TableInv
    <2> QED
      BY <1>1, <2>1, <2>2, <2>3, EntersKeeps
  <1> QED
    BY <1>3, <1>4, <1>5 DEF Echo!Accept

-----------------------------------------------------------------------------
(* recv() of the connection at an index that is reported.                  *)
LEMMA RecvKeeps ==
  ASSUME EchoInv, NEW x \in Echo!Indices, x \in Echo!Left, eAt = "loop",
         NEW n \in Nat, Echo!Recv(x, n), UNCHANGED <<kind, eGone, top>>
  PROVE  EchoInv'
  <1> USE DEF EchoInv
  <1>0. x \in revents /\ x \in 0..LastIndex /\ x # 0
    BY DescriptorsAre DEF Echo!Left
  <1>1. CASE /\ table[x] = 0 \/ (table[x] # 0 /\ eGone[table[x]] = "rst")
             /\ eAt' = "exited" /\ cur' = 0 /\ UNCHANGED <<eOpen, eUnread, table, revents, edge>>
    <2>1. EchoType'
      BY <1>1, DescriptorsAre DEF EchoType
    <2>2. TableInv' /\ EdgesInv'
      BY <1>1 DEF TableInv, EdgesInv, Echo!Ready, Echo!Left
    <2>3. EventsInv'
      BY <1>0, <1>1 DEF EventsInv, TableInv
    <2> QED
      BY <2>1, <2>2, <2>3
  <1>2. CASE /\ table[x] # 0 /\ eGone[table[x]] # "rst" /\ eUnread[table[x]] > 0
             /\ eUnread' = [eUnread EXCEPT ![table[x]] = IF @ < n THEN 0 ELSE @ - n]
             /\ eAt' = "send" /\ cur' = x /\ UNCHANGED <<eOpen, table, revents, edge>>
    <2>1. table[x] \in eDescriptors /\ eUnread[table[x]] \in Nat
      BY <1>2 DEF EchoType, TableInv
    <2>2. (IF eUnread[table[x]] < n THEN 0 ELSE eUnread[table[x]] - n) \in Nat
      BY <2>1
    <2>3. eUnread' \in [eDescriptors -> Nat]
      BY <1>2, <2>1, <2>2 DEF EchoType
    <2>4. EchoType'
      BY <1>0, <1>2, <2>3 DEF EchoType
    <2>5. TableInv'
      BY <1>2 DEF TableInv
    <2>6. EventsInv'
      BY <1>0, <1>2 DEF EventsInv
    <2>7. \A f \in eOpen : f # table[x] => (Echo!Ready(f)' <=> Echo!Ready(f))
      BY <1>2 DEF Echo!Ready, EchoType
    <2>8. EdgesInv'
      BY <1>2, <2>7 DEF EdgesInv, Echo!Left
    <2> QED
      BY <2>4, <2>5, <2>6, <2>8
  <1>3. CASE /\ table[x] # 0 /\ eGone[table[x]] = "fin" /\ eUnread[table[x]] = 0
             /\ eOpen' = eOpen \ {table[x]} /\ table' = [table EXCEPT ![x] = 0]
             /\ edge' = edge \ {table[x]}
             /\ revents' = revents \ {x} /\ cur' = 0 /\ UNCHANGED <<eAt, eUnread>>
    <2>1. \A y \in Echo!Indices : table'[y] = IF y = x THEN 0 ELSE table[y]
      BY <1>3 DEF EchoType
    <2>2. EchoType'
      <3>1. table' \in [Echo!Indices -> eDescriptors \cup {0}]
        BY <1>3 DEF EchoType
      <3> QED
        BY <1>3, <3>1, DescriptorsAre DEF EchoType
    <2>3. TableInv'
      <3>1. \A y \in Echo!Indices : table'[y] # 0 => table'[y] \in eOpen' /\ y <= top
        BY <1>3, <2>1 DEF TableInv
      <3>2. \A f \in eOpen' : \E y \in Echo!Indices : table'[y] = f
        BY <1>3, <2>1 DEF TableInv
      <3>3. \A y, z \in Echo!Indices : table'[y] # 0 /\ table'[y] = table'[z] => y = z
        BY <2>1 DEF TableInv
      <3>4. kind # "poll" => \A y \in Echo!Indices : table'[y] \in {0, y}
        BY <2>1 DEF TableInv
      <3> QED
        BY <1>3, <3>1, <3>2, <3>3, <3>4 DEF TableInv
    <2>4. EventsInv'
      BY <1>3, <2>1 DEF EventsInv, EchoType
    <2>5. EdgesInv'
      <3> SUFFICES ASSUME kind = "et", NEW f \in eOpen', Echo!Ready(f)'
                   PROVE  f \in edge' \/ \E y \in Echo!Left' : table'[y] = f
        BY DEF EdgesInv
      <3>1. f \in eOpen /\ f # table[x] /\ Echo!Ready(f)
        BY <1>3 DEF Echo!Ready
      <3>2. CASE f \in edge
        BY <1>3, <3>1, <3>2
      <3>3. CASE \E y \in Echo!Left : table[y] = f
        <4>1. PICK y \in Echo!Left : table[y] = f
          BY <3>3
        <4>2. y # x
          BY <3>1, <4>1
        <4>3. y \in Echo!Left' /\ table'[y] = f
          BY <1>3, <2>1, <4>1, <4>2 DEF Echo!Left, EchoType
        <4> QED
          BY <4>3
      <3> QED
        BY <3>1, <3>2, <3>3 DEF EdgesInv
    <2> QED
      BY <2>2, <2>3, <2>4, <2>5
  <1> QED
    BY <1>1, <1>2, <1>3 DEF Echo!Recv

(* The reported index that comes first is one.                             *)
LEMMA AlongIs == ASSUME EchoInv, NEW x, Echo!Along(x) PROVE x \in Echo!Left /\ eAt = "loop"
  <1>1. Echo!Left \subseteq Nat /\ Echo!Left # {}
    BY DescriptorsAre DEF Echo!Along, Echo!Left, EchoInv, EchoType
  <1>2. x = Echo!Least(Echo!Left) /\ eAt = "loop"
    BY DEF Echo!Along
  <1> HIDE DEF Echo!Left
  <1> QED
    BY <1>1, <1>2, LeastIs

(* With edges a connection is read until nothing is left.                  *)
LEMMA EtRecvKeeps == ASSUME EchoInv, NEW x \in Echo!Indices, Echo!EtRecv(x) PROVE EchoInv'
  <1>1. /\ x \in Echo!Left /\ eAt = "loop" /\ kind = "et" /\ UNCHANGED <<kind, eGone, top>>
    BY DEF Echo!EtRecv, Echo!InList, Echo!RecvOnly, Echo!clientVars
  <1>2. CASE Echo!Recv(x, 1)
    BY <1>1, <1>2, RecvKeeps
  <1>3. CASE /\ ~Echo!Ready(table[x]) /\ revents' = revents \ {x} /\ cur' = 0
             /\ UNCHANGED <<eOpen, eUnread, edge, table, eAt>>
    <2> USE DEF EchoInv
    <2>1. EchoType'
      BY <1>1, <1>3, DescriptorsAre DEF EchoType
    <2>2. TableInv' /\ EventsInv'
      BY <1>1, <1>3 DEF TableInv, EventsInv
    <2>3. EdgesInv'
      BY <1>1, <1>3 DEF EdgesInv, Echo!Ready, Echo!Left
    <2> QED
      BY <2>1, <2>2, <2>3
  <1> QED
    BY <1>2, <1>3 DEF Echo!EtRecv

LEMMA SentKeeps ==
  ASSUME EchoInv, Echo!Sent,
         \/ UNCHANGED <<cur, revents>>
         \/ kind # "et" /\ cur' = 0 /\ revents' = revents \ {cur}
  PROVE  EchoInv'
  <1> USE DEF EchoInv
  <1>1. /\ eAt = "send" /\ UNCHANGED <<kind, eOpen, eUnread, edge, table, top>>
    BY DEF Echo!Sent
  <1>2. cur # 0 /\ cur \in Echo!Indices /\ table[cur] # 0 /\ table[cur] \in eOpen
    BY <1>1 DEF EventsInv, TableInv, EchoType, Echo!Indices
  <1>3. \/ eAt' = "loop" /\ UNCHANGED eGone
        \/ /\ eGone[table[cur]] = "fin" /\ eAt' = "loop"
           /\ \E how \in {"fin", "rst"} : eGone' = [eGone EXCEPT ![table[cur]] = how]
        \/ eGone[table[cur]] = "rst" /\ eAt' = "exited" /\ UNCHANGED eGone
    BY DEF Echo!Sent
  <1>4. EchoType'
    <2>1. eGone' \in [eDescriptors -> {"no", "fin", "rst"}]
      BY <1>3 DEF EchoType
    <2>2. cur' \in 0..LastIndex /\ revents' \subseteq Echo!Indices
      BY DescriptorsAre DEF EchoType
    <2> QED
      BY <1>1, <1>3, <2>1, <2>2 DEF EchoType
  <1>5. TableInv'
    BY <1>1 DEF TableInv
  <1>6. EventsInv'
    BY <1>1, <1>2, <1>3 DEF EventsInv
  <1>7. \A f \in eOpen : Echo!Ready(f)' => Echo!Ready(f)
    BY <1>1, <1>3 DEF EchoType, Echo!Ready
  <1>8. EdgesInv'
    BY <1>1, <1>7 DEF EdgesInv, Echo!Left
  <1> QED
    BY <1>4, <1>5, <1>6, <1>8

LEMMA EchoHandleKeeps == ASSUME EchoInv, Echo!Handle PROVE EchoInv'
  <1>1. ASSUME NEW x \in Echo!Indices, Echo!SelectRecv(x) \/ Echo!PollRecv(x) PROVE EchoInv'
    <2>1. /\ Echo!Along(x) /\ Echo!Recv(x, MaxUnread) /\ UNCHANGED <<kind, eGone, top>>
      BY <1>1 DEF Echo!SelectRecv, Echo!PollRecv, Echo!RecvOnly, Echo!clientVars
    <2> QED
      BY <2>1, AlongIs, RecvKeeps, EchoAssumption
  <1>2. ASSUME NEW x \in Echo!Indices, Echo!EpollRecv(x) \/ Echo!LtRecv(x) PROVE EchoInv'
    <2>1. /\ x \in Echo!Left /\ eAt = "loop" /\ UNCHANGED <<kind, eGone, top>>
          /\ Echo!Recv(x, MaxUnread) \/ Echo!Recv(x, 1)
      BY <1>2 DEF Echo!EpollRecv, Echo!LtRecv, Echo!InList, Echo!RecvOnly, Echo!clientVars
    <2> QED
      BY <2>1, RecvKeeps, EchoAssumption
  <1>3. CASE Echo!SelectSend \/ Echo!PollSend \/ Echo!EpollSend \/ Echo!LtSend
    <2>1. Echo!Sent /\ cur' = 0 /\ revents' = revents \ {cur} /\ kind # "et"
      BY <1>3 DEF Echo!SelectSend, Echo!PollSend, Echo!EpollSend, Echo!LtSend, Echo!SentWhole
    <2> QED
      BY <2>1, SentKeeps
  <1>4. CASE Echo!EtSend
    BY <1>4, SentKeeps DEF Echo!EtSend
  <1> QED
    BY <1>1, <1>2, <1>3, <1>4, EtRecvKeeps DEF Echo!Handle

LEMMA EchoNext == EchoInv /\ [Echo!Next]_echoVars => EchoInv'
  <1> SUFFICES ASSUME EchoInv, [Echo!Next]_echoVars PROVE EchoInv'
    OBVIOUS
  <1>1. CASE UNCHANGED echoVars
    BY <1>1 DEF echoVars, EchoInv, EchoType, TableInv, EventsInv, EdgesInv, Echo!Ready, Echo!Left
  <1> QED
    BY <1>1, EchoClientKeeps, EchoWaitKeeps, EchoAcceptKeeps, EchoHandleKeeps DEF Echo!Next

LEMMA EchoCardinality == \A S : Echo!Cardinality(S) = Cardinality(S)
  BY DEF Cardinality, Echo!Cardinality

LEMMA EchoKept == EchoInv => Echo!ClientsWatched /\ Echo!ExitsOnReset
  <1> SUFFICES ASSUME EchoInv PROVE Echo!ClientsWatched /\ Echo!ExitsOnReset
    OBVIOUS
  <1>1. ASSUME NEW f \in eOpen PROVE Echo!Cardinality({x \in Echo!Watched : table[x] = f}) = 1
    <2>1. PICK x \in Echo!Indices : table[x] = f
      BY DEF EchoInv, TableInv
    <2>2. table[x] # 0 /\ x <= top
      BY <2>1, DescriptorsAre DEF EchoInv, EchoType, TableInv
    <2>3. {y \in Echo!Watched : table[y] = f} = {x}
      BY <2>1, <2>2 DEF EchoInv, TableInv, Echo!Watched
    <2> QED
      BY <2>3, FS_Singleton, EchoCardinality
  <1>2. Echo!ClientsWatched
    BY <1>1 DEF EchoInv, EdgesInv, Echo!ClientsWatched
  <1>3. Echo!ExitsOnReset
    BY DEF EchoInv, EventsInv, Echo!ExitsOnReset
  <1> QED
    BY <1>2, <1>3

-----------------------------------------------------------------------------
(* CourseTelnet: whom the server closes.                                   *)

(* A step of Programs is a step of this one, or none.                      *)
LEMMA TelnetStep == [Next]_vars => [Telnet!Next]_telnetVars
  BY DEF Next, vars, courseVars, ConnOnly, ServerOnly, TimersOnly, CourseOnly, ReapingOnly,
     LastOnly

TelnetType ==
  /\ hBacklog \in Seq(Clients)
  /\ srv = "read" => hCfd \in Clients
  /\ client \in [Clients -> {"new", "select", "closed", "cut"} \cup Telnet!Finished]
  /\ wire \in [Clients -> Seq(Telnet!Commands)]

(* The server runs.                                                        *)
Lives == srv \in {"accept", "read"}

(* A session that the server closes while it lives is over, and nothing is *)
(* left of it to read.                                                     *)
SessionsEnd ==
  Lives => /\ \A c \in shut : client[c] \in Telnet!Finished /\ wire[c] = <<>>
           /\ \A c \in Clients : client[c] # "closed"

TelnetInv == TelnetType /\ SessionsEnd

LEMMA TelnetInit == Telnet!Init => TelnetInv
  <1> SUFFICES ASSUME Telnet!Init PROVE TelnetInv
    OBVIOUS
  <1>1. TelnetType
    BY DEF Telnet!Init, TelnetType
  <1>2. SessionsEnd
    BY DEF Telnet!Init, SessionsEnd, Lives
  <1> QED
    BY <1>1, <1>2 DEF TelnetInv

(* A client that is still there goes on or ends, and the server has not    *)
(* closed its session.                                                     *)
LEMMA ClientGoesOn ==
  ASSUME TelnetInv, NEW c \in Clients, client[c] \notin Telnet!Finished \/ c \notin shut,
         NEW how \in {"select", "cut"} \cup Telnet!Finished,
         client' = [client EXCEPT ![c] = how],
         UNCHANGED srv, UNCHANGED hCfd, UNCHANGED shut, UNCHANGED wire,
         hBacklog' \in Seq(Clients)
  PROVE  TelnetInv'
  <1>1. TelnetType'
    BY DEF TelnetInv, TelnetType
  <1>2. SessionsEnd'
    BY DEF TelnetInv, TelnetType, SessionsEnd, Lives, Telnet!Finished
  <1> QED
    BY <1>1, <1>2 DEF TelnetInv

(* A step of a client.                                                     *)
LEMMA ClientKeeps ==
  ASSUME TelnetInv, NEW c \in Clients, Telnet!Client(c)
  PROVE  TelnetInv'
  <1> USE DEF TelnetInv
  <1>1. CASE Telnet!connect(c)
    <2>1. Append(hBacklog, c) \in Seq(Clients)
      BY DEF TelnetType
    <2> QED
      BY <1>1, <2>1, ClientGoesOn DEF Telnet!connect, Telnet!Finished
  <1>2. CASE Telnet!command(c)
    <2>1. PICK cmd \in Telnet!Commands : wire' = [wire EXCEPT ![c] = Append(@, cmd)]
      BY <1>2 DEF Telnet!command
    <2>2. /\ client[c] = "select"
          /\ UNCHANGED client /\ UNCHANGED hBacklog /\ UNCHANGED srv /\ UNCHANGED hCfd /\ UNCHANGED shut
      BY <1>2 DEF Telnet!command
    <2>3. TelnetType'
      BY <2>1, <2>2 DEF TelnetType
    <2>4. SessionsEnd'
      BY <2>1, <2>2 DEF TelnetType, SessionsEnd, Lives, Telnet!Finished
    <2> QED
      BY <2>3, <2>4
  <1>3. CASE Telnet!answer(c)
    <2>1. /\ client[c] = "select" /\ UNCHANGED hBacklog
          /\ UNCHANGED srv /\ UNCHANGED hCfd /\ UNCHANGED shut /\ UNCHANGED wire
          /\ UNCHANGED client \/ (c \in shut /\ client' = [client EXCEPT ![c] = "closed"])
      BY <1>3 DEF Telnet!answer
    <2>2. TelnetType'
      BY <2>1 DEF TelnetType
    <2>3. SessionsEnd'
      BY <2>1 DEF TelnetType, SessionsEnd, Lives, Telnet!Finished
    <2> QED
      BY <2>2, <2>3
  <1>4. CASE Telnet!shutdown(c)
    BY <1>4, ClientGoesOn DEF Telnet!shutdown, Telnet!Finished, TelnetType
  <1>5. CASE Telnet!quit(c)
    <2>1. /\ client[c] = "quit" /\ client' = [client EXCEPT ![c] = "killed"] /\ UNCHANGED hBacklog
          /\ UNCHANGED srv /\ UNCHANGED hCfd /\ UNCHANGED shut /\ UNCHANGED wire
      BY <1>5 DEF Telnet!quit
    <2>2. TelnetType'
      BY <2>1 DEF TelnetType, Telnet!Finished
    <2>3. SessionsEnd'
      BY <2>1 DEF TelnetType, SessionsEnd, Lives, Telnet!Finished
    <2> QED
      BY <2>2, <2>3
  <1>6. CASE Telnet!interrupt(c)
    <2>1. PICK how \in {"cut", "left"} : client' = [client EXCEPT ![c] = how]
      BY <1>6 DEF Telnet!interrupt
    <2> QED
      BY <1>6, <2>1, ClientGoesOn DEF Telnet!interrupt, Telnet!Finished, TelnetType
  <1> QED
    BY <1>1, <1>2, <1>3, <1>4, <1>5, <1>6 DEF Telnet!Client

(* The server reads, and goes on or ends.                                  *)
LEMMA TakeKeeps ==
  ASSUME TelnetInv, NEW n, Telnet!Takes(n),
         (srv' = "read" /\ shut' = shut) \/ srv' \in {"exited", "aborted"}
  PROVE  TelnetInv'
  <1>1. /\ srv = "read" /\ n \in 1..Len(wire[hCfd])
        /\ wire' = [wire EXCEPT ![hCfd] = SubSeq(@, n + 1, Len(@))]
        /\ UNCHANGED hBacklog /\ UNCHANGED hCfd /\ UNCHANGED client
    BY DEF Telnet!Takes
  <1>2. hCfd \in Clients /\ wire[hCfd] \in Seq(Telnet!Commands)
    BY <1>1 DEF TelnetInv, TelnetType
  <1>3. SubSeq(wire[hCfd], n + 1, Len(wire[hCfd])) \in Seq(Telnet!Commands)
    BY <1>1, <1>2
  <1>4. TelnetType'
    BY <1>1, <1>2, <1>3 DEF TelnetInv, TelnetType
  <1>5. wire[hCfd] # <<>>
    BY <1>1, <1>2
  <1>6. SessionsEnd'
    BY <1>1, <1>2, <1>5 DEF TelnetInv, TelnetType, SessionsEnd, Lives
  <1> QED
    BY <1>4, <1>6 DEF TelnetInv

(* A step of the server.                                                   *)
LEMMA TelnetServerKeeps == ASSUME TelnetInv, Telnet!Server PROVE TelnetInv'
  <1>1. CASE Telnet!accept
    <2>1. /\ srv = "accept" /\ hBacklog # <<>> /\ hCfd' = Head(hBacklog) /\ hBacklog' = Tail(hBacklog)
          /\ srv' = "read" /\ UNCHANGED client /\ UNCHANGED wire /\ UNCHANGED shut
      BY <1>1 DEF Telnet!accept
    <2>2. Head(hBacklog) \in Clients /\ Tail(hBacklog) \in Seq(Clients)
      BY <2>1 DEF TelnetInv, TelnetType
    <2> QED
      BY <2>1, <2>2 DEF TelnetInv, TelnetType, SessionsEnd, Lives
  <1>2. CASE Telnet!read_fails
    BY <1>2 DEF Telnet!read_fails, TelnetInv, TelnetType, SessionsEnd, Lives
  <1>3. CASE Telnet!client_closed
    <2>1. /\ srv = "read" /\ client[hCfd] \in Telnet!Finished /\ wire[hCfd] = <<>> /\ srv' = "accept"
          /\ shut' = shut \cup {hCfd}
          /\ UNCHANGED hBacklog /\ UNCHANGED client /\ UNCHANGED wire
      BY <1>3 DEF Telnet!client_closed
    <2> QED
      BY <2>1 DEF TelnetInv, TelnetType, SessionsEnd, Lives
  <1>4. ASSUME NEW n, Telnet!server_command(n) PROVE TelnetInv'
    <2>1. Telnet!Takes(n)
      BY <1>4 DEF Telnet!server_command
    <2>2. Telnet!Send("aborted") \/ Telnet!Send("read") \/ srv' = "aborted"
      BY <1>4 DEF Telnet!server_command
    <2>3. (srv' = "read" /\ shut' = shut) \/ srv' \in {"exited", "aborted"}
      BY <2>2 DEF Telnet!Send
    <2> QED
      BY <2>1, <2>3, TakeKeeps
  <1>5. ASSUME NEW n, Telnet!telnet_command(n) PROVE TelnetInv'
    <2>1. Telnet!Takes(n)
      BY <1>5 DEF Telnet!telnet_command
    <2> srv = "read"
      BY <2>1 DEF Telnet!Takes
    <2>2. Telnet!Send("read") \/ (srv' = srv /\ shut' = shut)
      BY <1>5 DEF Telnet!telnet_command
    <2>3. (srv' = "read" /\ shut' = shut) \/ srv' \in {"exited", "aborted"}
      BY <2>1, <2>2 DEF Telnet!Send
    <2> QED
      BY <2>1, <2>3, TakeKeeps
  <1> QED
    BY <1>1, <1>2, <1>3, <1>4, <1>5 DEF Telnet!Server

LEMMA TelnetNext == TelnetInv /\ [Telnet!Next]_telnetVars => TelnetInv'
  <1> SUFFICES ASSUME TelnetInv, [Telnet!Next]_telnetVars PROVE TelnetInv'
    OBVIOUS
  <1>1. CASE UNCHANGED telnetVars
    BY <1>1 DEF telnetVars, TelnetInv, TelnetType, SessionsEnd, Lives
  <1> QED
    BY <1>1, ClientKeeps, TelnetServerKeeps DEF Telnet!Next

LEMMA TelnetKept == TelnetInv => Telnet!SessionsKept
  BY DEF TelnetInv, SessionsEnd, Lives, Telnet!SessionsKept

-----------------------------------------------------------------------------
(* LessonConn: a client is refused, whatever it sends.                     *)

(* While the copy runs, its steps are the only ones.                       *)
LEMMA LessonStep ==
  [Next]_vars => UNCHANGED prog /\ (prog = "lesson" => [Lesson!Next]_connVars)
  BY DEF Next, vars, courseVars, ConnOnly, ServerOnly, TimersOnly, CourseOnly, ReapingOnly,
     LastOnly

(* All that the copy ever writes.                                          *)
Refusal == Lesson!Site!Response("400", FALSE)

(* The connection would be kept.                                           *)
Lingers(c) == "linger" \notin DOMAIN c \/ c.linger

(* A client that sent nothing has no answer, one whose bytes are read has   *)
(* none yet, and no field of a request is found that keeps a connection.   *)
LessonInv ==
  /\ script.bytes = <<>> => /\ sentN = 0 /\ readN = 0 /\ told = <<>>
                            /\ state \in {"closed", "in"}
  /\ state \in {"closed", "in", "read", "process", "out", "write"}
  /\ state \in {"in", "read", "process"} => told = <<>>
  /\ state = "out" => iov.write_idx = 5
  /\ told \in {<<>>, Refusal}
  /\ ~Lingers(conn)

Bytes == {"400", "length", "close", "blank", "form"}
LEMMA RefusalIs == Refusal \in Seq(Bytes) /\ Len(Refusal) = 5
  <1> DEFINE head == <<"400", "length", "close", "blank">>
             text == <<"form">>
  <1>1. head \in Seq(Bytes) /\ text \in Seq(Bytes)
    BY DEF Bytes
  <1>2. Len(head) = 4 /\ Len(text) = 1
    OBVIOUS
  <1>3. Refusal = head \o text
    BY DEF Refusal, Lesson!Site!Response
  <1> HIDE DEF head, text
  <1>4. head \o text \in Seq(Bytes) /\ Len(head \o text) = Len(head) + Len(text)
    BY <1>1, ConcatProperties
  <1> QED
    BY <1>2, <1>3, <1>4

(* Neither the first line nor a header keeps it.                           *)
LEMMA ParseLine == ASSUME NEW c, ~Lingers(c) PROVE ~Lingers(Lesson!parse_line(c))
  BY DEF Lesson!parse_line, Lesson!Site!parse_line, Lesson!Site!LineAt, Lesson!Site!Ended, Lingers

LEMMA ParseHeaders ==
  ASSUME NEW c, NEW from, ~Lingers(c) PROVE ~Lingers(Lesson!parse_headers(c, from))
  BY DEF Lesson!parse_headers, Lingers

LEMMA LessonInit == Conn!Init => LessonInv
  <1> SUFFICES ASSUME Conn!Init PROVE LessonInv
    OBVIOUS
  <1>1. script.bytes = <<>> /\ sentN = 0 /\ readN = 0 /\ told = <<>> /\ state = "closed"
    BY DEF Conn!Init
  <1>2. ~Lingers(conn)
    BY DEF Conn!Init, Conn!EmptyConn, Lingers
  <1> QED
    BY <1>1, <1>2 DEF LessonInv

(* 400 is written whole.                                                   *)
LEMMA RefusalTold ==
  ASSUME ~Lingers(conn), told = <<>>, Lesson!process_write("400")
  PROVE  told' = Refusal /\ state' = "out" /\ iov'.write_idx = 5
  <1>1. conn.linger = FALSE
    BY DEF Lingers
  <1>2. Lesson!Site!Page("400") = <<>>
    BY DEF Lesson!Site!Page
  <1>3. Lesson!Site!Response("400", conn.linger) = Refusal
    BY <1>1 DEF Refusal
  <1>4. told' = told \o Refusal \o <<>> /\ state' = "out" /\ iov'.write_idx = Len(Refusal)
    BY <1>2, <1>3 DEF Lesson!process_write, Lesson!Site!process_write
  <1> QED
    BY <1>4, RefusalIs

LEMMA LessonNext == LessonInv /\ [Lesson!Next]_connVars => LessonInv'
  <1> SUFFICES ASSUME LessonInv, [Lesson!Next]_connVars PROVE LessonInv'
    OBVIOUS
  <1> USE DEF LessonInv
  <1>1. CASE Lesson!Accept
    <2>1. /\ state = "closed" /\ script.bytes = <<>> /\ state' = "in"
          /\ conn' = Lesson!Site!EmptyConn
          /\ UNCHANGED sentN /\ UNCHANGED readN /\ UNCHANGED told
      BY <1>1 DEF Lesson!Accept, Lesson!Site!Accept
    <2>2. ~Lingers(conn')
      BY <2>1 DEF Lesson!Site!EmptyConn, Lingers
    <2> QED
      BY <2>1, <2>2
  <1>2. CASE Lesson!Site!Send
    <2>1. PICK n \in sentN + 1 .. Len(script.bytes) : sentN' = n
      BY <1>2 DEF Lesson!Site!Send
    <2>2. /\ UNCHANGED script /\ UNCHANGED readN /\ UNCHANGED state /\ UNCHANGED conn
          /\ UNCHANGED iov /\ UNCHANGED told
      BY <1>2 DEF Lesson!Site!Send
    <2>3. script.bytes # <<>>
      BY <2>1
    <2> QED
      BY <2>2, <2>3 DEF Lingers
  <1>3. CASE Lesson!Site!Drain
    BY <1>3 DEF Lesson!Site!Drain, Lingers
  <1>4. CASE Lesson!DealRead
    <2>1. /\ state = "in" /\ readN < sentN /\ state' \in {"closed", "read"}
          /\ UNCHANGED script /\ UNCHANGED sentN /\ UNCHANGED readN /\ UNCHANGED conn
          /\ UNCHANGED iov /\ UNCHANGED told
      BY <1>4 DEF Lesson!DealRead, Lesson!Site!DealRead
    <2>2. script.bytes # <<>>
      BY <2>1
    <2> QED
      BY <2>1, <2>2 DEF Lingers
  <1>5. CASE Lesson!Recv
    <2>1. /\ state = "read" /\ state' \in {"closed", "read", "process"}
          /\ UNCHANGED script /\ UNCHANGED sentN /\ UNCHANGED iov /\ UNCHANGED told
      BY <1>5 DEF Lesson!Recv, Lesson!Site!Recv
    <2>2. conn' = conn \/ (\E b : conn' = [conn EXCEPT !.buf = b]) \/ conn' = [conn EXCEPT !.line = "OK"]
      BY <1>5 DEF Lesson!Recv, Lesson!Site!Recv
    <2>3. ~Lingers(conn')
      BY <2>2 DEF Lingers
    <2> QED
      BY <2>1, <2>3
  <1>6. CASE Lesson!Process
    <2>1. PICK c \in {Lesson!parse_line(conn)} :
            \/ /\ conn' = c /\ state' = "in" /\ UNCHANGED iov /\ UNCHANGED told
            \/ /\ conn' = [[c EXCEPT !.start = c.checked] EXCEPT !.check = "HEADER"]
               /\ UNCHANGED iov /\ UNCHANGED told /\ UNCHANGED state
            \/ conn' = [c EXCEPT !.start = c.checked] /\ Lesson!process_write("400")
            \/ /\ conn' = Lesson!parse_headers([c EXCEPT !.start = c.checked], c.start)
               /\ UNCHANGED iov /\ UNCHANGED told /\ UNCHANGED state
      BY <1>6 DEF Lesson!Process
    <2>2. state = "process" /\ UNCHANGED script /\ UNCHANGED sentN /\ UNCHANGED readN
      BY <1>6 DEF Lesson!Process
    <2>3. ~Lingers(c) /\ ~Lingers([c EXCEPT !.start = c.checked])
          /\ ~Lingers([[c EXCEPT !.start = c.checked] EXCEPT !.check = "HEADER"])
      <3>1. ~Lingers(c)
        BY ParseLine
      <3> QED
        BY <3>1 DEF Lingers
    <2>4. ~Lingers(conn')
      BY <2>1, <2>3, ParseHeaders
    <2> QED
      BY <2>1, <2>2, <2>4, RefusalTold
  <1>7. CASE Lesson!DealWrite
    <2>1. /\ state = "out" /\ (iov.write_idx # 0 => state' = "write" /\ UNCHANGED conn)
          /\ UNCHANGED script /\ UNCHANGED sentN /\ UNCHANGED readN
          /\ UNCHANGED iov /\ UNCHANGED told
      BY <1>7 DEF Lesson!DealWrite, Lesson!Site!DealWrite
    <2> QED
      BY <2>1 DEF Lingers
  <1>8. CASE Lesson!Writev
    <2>1. /\ state = "write" /\ state' = "closed" /\ UNCHANGED conn
          /\ UNCHANGED script /\ UNCHANGED sentN /\ UNCHANGED readN
          /\ UNCHANGED iov /\ UNCHANGED told
      BY <1>8 DEF Lesson!Writev
    <2> QED
      BY <2>1 DEF Lingers
  <1>9. CASE UNCHANGED connVars
    BY <1>9 DEF connVars, Lingers
  <1> QED
    BY <1>1, <1>2, <1>3, <1>4, <1>5, <1>6, <1>7, <1>8, <1>9
    DEF Lesson!Next, Lesson!Client, Lesson!Server

LEMMA LessonKept == LessonInv => Lesson!OnlyRefuses
  BY DEF LessonInv, Lesson!OnlyRefuses, Refusal

-----------------------------------------------------------------------------
(* Clients are heard.                                                      *)

(* The course servers, and the copy of the C-style server while it runs.   *)
HeardInv == EchoInv /\ TelnetInv /\ (prog = "lesson" => LessonInv)

(* ClientsHeard always holds: the wait of an echo server has every open    *)
(* connection once, and no edge is forgotten; but for poll's, only a reset *)
(* ends one of them; a telnet session is not closed while the server lives,*)
(* and telnet-server.c ends on a reset only; the course's copy of the HTTP *)
(* server answers nothing but 400 (lesson04, homework, lesson05).          *)
THEOREM ClientsHeardAlways == FairSpec => []ClientsHeard
  <1>1. Init => HeardInv
    BY EchoInit, TelnetInit, LessonInit DEF Init, HeardInv
  <1>2. HeardInv /\ [Next]_vars => HeardInv'
    <2> SUFFICES ASSUME HeardInv, [Next]_vars PROVE HeardInv'
      OBVIOUS
    <2>1. EchoInv'
      BY EchoStep, EchoNext DEF HeardInv
    <2>2. TelnetInv'
      BY TelnetStep, TelnetNext DEF HeardInv
    <2>3. prog' = "lesson" => LessonInv'
      BY LessonStep, LessonNext DEF HeardInv
    <2> QED
      BY <2>1, <2>2, <2>3 DEF HeardInv
  <1>3. HeardInv => ClientsHeard
    BY EchoKept, TelnetKept, LessonKept DEF HeardInv, ClientsHeard
  <1> QED
    BY <1>1, <1>2, <1>3, PTL DEF FairSpec

-----------------------------------------------------------------------------
(* CServer, through its own proofs.                                        *)

ServerP == INSTANCE CServer_proofs WITH Threads <- cThreads

(* A step of Programs is a step of this one, or none.                      *)
LEMMA ServerStep == [Next]_vars => [Server!Next]_serverVars
  BY DEF Next, vars, courseVars, ConnOnly, ServerOnly, TimersOnly, CourseOnly, ReapingOnly,
     LastOnly

(* The two instances of CServer say the same.                              *)
LEMMA CardinalityIs == \A S : Server!Cardinality(S) = ServerP!Cardinality(S)
  BY Zenon DEF ServerP!Cardinality, Server!Cardinality
LEMMA FiniteIs == \A S : ServerP!IsFiniteSet(S) <=> IsFiniteSet(S)
  BY DEF IsFiniteSet, ServerP!IsFiniteSet

(* The assumption of those proofs is the one of Programs.                  *)
LEMMA ServerSized == ServerP!Sized
  BY ServerAssumption, FiniteIs DEF ServerP!Sized, ServerP!listenfd

LEMMA ServerInit == Server!Init => ServerP!Init
  BY DEF Server!Init, ServerP!Init, Server!Nobody, ServerP!Nobody, Server!listenfd,
     ServerP!listenfd

LEMMA ServerVars == UNCHANGED serverVars => UNCHANGED ServerP!vars
  BY DEF serverVars, ServerP!vars, ServerP!kernel, ServerP!pool

(* Each action of the one is that of the other.                            *)
LEMMA WaitIs == Server!epoll_wait => ServerP!epoll_wait
  BY CardinalityIs DEF Server!epoll_wait, ServerP!epoll_wait, Server!listenfd, ServerP!listenfd,
    Server!Registered, ServerP!Registered, Server!Reported, ServerP!Reported,
    Server!kernel, ServerP!kernel, Server!pool, ServerP!pool

LEMMA HandleIs == Server!Handle => ServerP!Handle
  <1>1. Server!Accept => ServerP!Accept
    BY DEF Server!Accept, ServerP!Accept, Server!listenfd, ServerP!listenfd, Server!Lowest,
       ServerP!Lowest,
      Server!modfd, ServerP!modfd, Server!kernel, ServerP!kernel, Server!pool, ServerP!pool
  <1>2. \A f \in Descriptors : Server!Hup(f) => ServerP!Hup(f)
    BY DEF Server!Hup, ServerP!Hup, Server!close_conn, ServerP!close_conn, Server!pool,
       ServerP!pool
  <1>3. \A f \in Descriptors : Server!DealRead(f) => ServerP!DealRead(f)
    BY DEF Server!DealRead, ServerP!DealRead, Server!close_conn, ServerP!close_conn,
      Server!kernel, ServerP!kernel, Server!pool, ServerP!pool
  <1>4. \A f \in Descriptors : Server!DealWrite(f) => ServerP!DealWrite(f)
    BY DEF Server!DealWrite, ServerP!DealWrite, Server!close_conn, ServerP!close_conn,
      Server!modfd, ServerP!modfd, Server!kernel, ServerP!kernel, Server!pool, ServerP!pool
  <1> QED
    BY <1>1, <1>2, <1>3, <1>4 DEF Server!Handle, ServerP!Handle

LEMMA AppendIs ==
  /\ Server!AppendLock => ServerP!AppendLock
  /\ Server!Push => ServerP!Push
  /\ Server!Post => ServerP!Post
  <1>1. Server!AppendLock => ServerP!AppendLock
    BY DEF Server!AppendLock, ServerP!AppendLock, Server!Nobody, ServerP!Nobody,
      Server!MainThread, ServerP!MainThread, Server!kernel, ServerP!kernel
  <1>2. Server!Push => ServerP!Push
    BY DEF Server!Push, ServerP!Push, Server!Nobody, ServerP!Nobody, Server!listenfd,
       ServerP!listenfd,
      Server!kernel, ServerP!kernel
  <1>3. Server!Post => ServerP!Post
    BY DEF Server!Post, ServerP!Post, Server!kernel, ServerP!kernel
  <1> QED
    BY <1>1, <1>2, <1>3

LEMMA WorkerIs == ASSUME NEW w \in cThreads PROVE Server!Worker(w) => ServerP!Worker(w)
  <1>1. Server!SemWait(w) => ServerP!SemWait(w)
    BY DEF Server!SemWait, ServerP!SemWait
  <1>2. Server!WorkerLock(w) => ServerP!WorkerLock(w)
    BY DEF Server!WorkerLock, ServerP!WorkerLock, Server!Nobody, ServerP!Nobody
  <1>3. Server!Pop(w) => ServerP!Pop(w)
    BY DEF Server!Pop, ServerP!Pop, Server!Nobody, ServerP!Nobody
  <1>4. Server!Process(w) => ServerP!Process(w)
    BY DEF Server!Process, ServerP!Process, Server!modfd, ServerP!modfd, Server!listenfd,
       ServerP!listenfd
  <1> QED
    BY <1>1, <1>2, <1>3, <1>4 DEF Server!Worker, ServerP!Worker, Server!kernel, ServerP!kernel

LEMMA ServerNextIs == [Server!Next]_serverVars => [ServerP!Next]_ServerP!vars
  <1>1. Server!Connect => ServerP!Connect
    BY DEF Server!Connect, ServerP!Connect, Server!pool, ServerP!pool
  <1>2. Server!Main => ServerP!Main
    BY WaitIs, HandleIs, AppendIs DEF Server!Main, ServerP!Main
  <1> QED
    BY <1>1, <1>2, WorkerIs, ServerVars DEF Server!Next, ServerP!Next

LEMMA ServerTurns == ServerP!TurnsKept => Server!TurnsKept
  <1>1. ASSUME NEW f \in Descriptors PROVE Server!Turns(f) = ServerP!Turns(f)
    BY CardinalityIs DEF Server!Turns, ServerP!Turns
  <1> QED
    BY <1>1, CardinalityIs DEF Server!TurnsKept, ServerP!TurnsKept

(* TurnsKept always holds: an open connection of the C-style server is in  *)
(* one pair of hands, and m_user_count counts them (main.cpp,              *)
(* http_conn.cpp, threadpool.h).                                           *)
THEOREM TurnsKeptAlways == FairSpec => []TurnsKept
  <1> DEFINE Inv == ServerP!TypeInv /\ ServerP!HandsInv
  <1>1. Init => Inv
    BY ServerSized, ServerInit, ServerP!InvInit DEF Init
  <1>2. Inv /\ [Next]_vars => Inv'
    BY ServerSized, ServerStep, ServerNextIs, ServerP!InvNext
  <1>3. Inv => TurnsKept
    BY ServerSized, ServerP!InvTurns, ServerTurns DEF TurnsKept
  <1> QED
    BY <1>1, <1>2, <1>3, PTL DEF FairSpec
=============================================================================
