------------------------------ MODULE MCTelnet ------------------------------
(* The homework's shell by itself: one client, which types two commands.     *)
EXTENDS CourseTelnet

Spec == Init /\ [][Next]_vars
=============================================================================
