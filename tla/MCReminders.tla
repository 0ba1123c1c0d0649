---------------------------- MODULE MCReminders ----------------------------
(***************************************************************************)
(* Instances of Reminders for TLC: which code the runs may find.           *)
(***************************************************************************)
EXTENDS Reminders

CONSTANTS e1, e2, q, l, x

\* What the examples do when e1 makes q once, or nobody makes anything.
Made(n) == [b \in Others |-> [s \in Scopes |-> IF b = q /\ s = e1 THEN n ELSE 0]]

Suite(written, fate, n) ==
  [written |-> written, fault |-> [e \in Examples |-> IF e = e1 THEN fate ELSE "passed"],
   makes |-> Made(n)]

\* e1 passes, or raises before its query, or is not written.
Working == Suite(Examples, "passed", 1)
Broken == Suite(Examples, x, 0)
Removed == Suite(Examples \ {e1}, "passed", 0)

Changing == {Working, Broken, Removed}

Class == [b \in Others |-> IF b = q THEN "sql" ELSE IF b = l THEN "stderr" ELSE "outside"]
OneFile == [e \in Examples |-> "a_spec.rb"]
=============================================================================
