------------------------------- MODULE Accounts -------------------------------
(***************************************************************************)
(* The users of WebServer-master: what HttpRequest::UserVerify asks of the *)
(* table `user` and answers, for calls of several workers.  Which          *)
(* connection it asks through is in module SqlConnPool.  readme.md's table *)
(* has no unique key, and SELECT ... LIMIT 1 gives any row of the name.    *)
(***************************************************************************)
EXTENDS Naturals

CONSTANTS Workers, Names, Passwords,
          MaxCalls     \* bound: calls of UserVerify

VARIABLES
  user,        \* the rows <<username, password>>; equal rows are not told apart
  at,          \* worker -> "idle", "select", "insert" or "return"
  call, flag,  \* worker -> its arguments and (history) whether its row was there; its answer
  calls,       \* calls so far
  together,    \* history: the names whose SELECTs met between SELECT and INSERT
  lost         \* history: the rows whose INSERT failed

vars == <<user, at, call, flag, calls, together, lost>>

NoCall == [name |-> "", pwd |-> "", isLogin |-> FALSE, owed |-> FALSE]

Init ==
  /\ user = {} /\ calls = 0 /\ together = {} /\ lost = {}
  /\ at = [w \in Workers |-> "idle"]
  /\ call = [w \in Workers |-> NoCall] /\ flag = [w \in Workers |-> FALSE]

Row(w) == <<call[w].name, call[w].pwd>>

\* An empty name or password is refused.
UserVerify(w) ==
  /\ at[w] = "idle" /\ calls < MaxCalls /\ calls' = calls + 1
  /\ \E name \in Names \cup {""}, pwd \in Passwords \cup {""}, isLogin \in BOOLEAN :
       /\ call' = [call EXCEPT ![w] = [name |-> name, pwd |-> pwd, isLogin |-> isLogin,
                                       owed |-> FALSE]]
       /\ IF name = "" \/ pwd = ""
          THEN at' = [at EXCEPT ![w] = "return"] /\ flag' = [flag EXCEPT ![w] = FALSE]
          ELSE at' = [at EXCEPT ![w] = "select"] /\ flag' = [flag EXCEPT ![w] = ~isLogin]
  /\ UNCHANGED <<user, together, lost>>

Others(w) == {v \in Workers \ {w} : at[v] = "insert" /\ call[v].name = call[w].name}

\* Mutant: an INSERT for every registration, without a look at the rows.
SelectBlind(w) ==
  /\ at[w] = "select"
  /\ at' = [at EXCEPT ![w] = IF call[w].isLogin THEN "return" ELSE "insert"]
  /\ UNCHANGED <<user, call, flag, calls, together, lost>>

\* The SELECT, and the loop over its row.  When the query fails, FALSE.
Select(w) ==
  /\ at[w] = "select"
  /\ LET rows == {r \in user : r[1] = call[w].name}
     IN  \/ /\ at' = [at EXCEPT ![w] = "return"] /\ flag' = [flag EXCEPT ![w] = FALSE]
            /\ UNCHANGED <<call, together>>
         \/ /\ rows = {} /\ UNCHANGED <<flag, call>>
            /\ at' = [at EXCEPT ![w] = IF flag[w] THEN "insert" ELSE "return"]
            /\ together' = IF flag[w] /\ Others(w) # {} THEN together \cup {call[w].name}
                                                      ELSE together
         \/ /\ at' = [at EXCEPT ![w] = "return"] /\ UNCHANGED together
            /\ call' = [call EXCEPT ![w].owed = Row(w) \in user]
            /\ \E r \in rows :
                 flag' = [flag EXCEPT ![w] = call[w].isLogin /\ call[w].pwd = r[2]]
  /\ UNCHANGED <<user, calls, lost>>

\* The INSERT; flag is true after it, also when it has failed.
Insert(w) ==
  /\ at[w] = "insert" /\ at' = [at EXCEPT ![w] = "return"]
  /\ flag' = [flag EXCEPT ![w] = TRUE]
  /\ \/ user' = user \cup {Row(w)} /\ UNCHANGED lost
     \/ lost' = lost \cup {Row(w)} /\ UNCHANGED user
  /\ UNCHANGED <<call, calls, together>>

Return(w) ==
  /\ at[w] = "return" /\ at' = [at EXCEPT ![w] = "idle"]
  /\ call' = [call EXCEPT ![w] = NoCall] /\ flag' = [flag EXCEPT ![w] = FALSE]
  /\ UNCHANGED <<user, calls, together, lost>>

Next == \E w \in Workers : UserVerify(w) \/ Select(w) \/ Insert(w) \/ Return(w)

-----------------------------------------------------------------------------
\* A name has one password, unless two registrations of it were between their
\* SELECT and their INSERT at once.  Who is welcomed has a row, a new user but
\* for an INSERT that failed; and a login whose row was there for the SELECT is
\* refused only when the name has another row.
AccountsKept ==
  /\ \A r, s \in user : r[1] = s[1] => r = s \/ r[1] \in together
  /\ \A w \in Workers : at[w] = "return" =>
       /\ flag[w] => Row(w) \in user \/ (~call[w].isLogin /\ Row(w) \in lost)
       /\ call[w].isLogin /\ call[w].owed => flag[w] \/ call[w].name \in together
=============================================================================
