------------------------------- MODULE Ledger -------------------------------
(***************************************************************************)
(* What the grading flow promises, with no transactions in it: a ledger of *)
(* graded submissions and, beside it, the set of what is solved.  A        *)
(* verdict enters both in one step, a passing one solves its exercise and  *)
(* nothing un-solves it except forgetting the exercise altogether.         *)
(***************************************************************************)
CONSTANTS Users, Exercises, Requests, NoRow

Verdicts == {"passed", "failed", "error", "timeout"}
Keys == Users \X Exercises
Entry == [key : Keys, status : Verdicts]

VARIABLES
  log,     \* request -> the entry it left, or NoRow
  solved   \* the <<user, exercise>> pairs that are solved

vars == <<log, solved>>

Init ==
  /\ log = [r \in Requests |-> NoRow]
  /\ solved = {}

\* A graded submission is recorded.
Record(r, k, s) ==
  /\ log[r] = NoRow
  /\ log' = [log EXCEPT ![r] = [key |-> k, status |-> s]]
  /\ solved' = IF s = "passed" THEN solved \cup {k} ELSE solved

\* A lesson is replaced: its exercises go, and all that was recorded for them.
Forget(gone) ==
  /\ log' = [r \in Requests |->
       IF log[r] # NoRow /\ log[r].key[2] \in gone THEN NoRow ELSE log[r]]
  /\ solved' = {k \in solved : k[2] \notin gone}

Next ==
  \/ \E r \in Requests, k \in Keys, s \in Verdicts : Record(r, k, s)
  \/ \E gone \in SUBSET Exercises : Forget(gone)

Spec == Init /\ [][Next]_vars
=============================================================================
