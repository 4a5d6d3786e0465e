------------------------------ MODULE Registry ------------------------------
(***************************************************************************)
(* What accounts promise, with no transactions, tokens or row ids in it:   *)
(* each person goes one way, from nobody to registered to confirmed, gets  *)
(* mail only on the way in, a session only at the end of it, and is served *)
(* only in a session.                                                      *)
(***************************************************************************)
CONSTANT People

VARIABLES
  standing,  \* person -> "nobody", "registered" or "confirmed"
  mailed,    \* who has ever been sent a link
  sessions,  \* who has a session
  served     \* who has ever been served

vars == <<standing, mailed, sessions, served>>

Init ==
  /\ standing = [p \in People |-> "nobody"]
  /\ mailed = {}
  /\ sessions = {}
  /\ served = {}

\* Links go to people who may still register, and to nobody else.
SendLink(p) ==
  /\ standing[p] = "nobody"
  /\ mailed' = mailed \cup {p}
  /\ UNCHANGED <<standing, sessions, served>>

Register(p) ==
  /\ standing[p] = "nobody" /\ p \in mailed
  /\ standing' = [standing EXCEPT ![p] = "registered"]
  /\ UNCHANGED <<mailed, sessions, served>>

Confirm(p) ==
  /\ standing[p] = "registered"
  /\ standing' = [standing EXCEPT ![p] = "confirmed"]
  /\ UNCHANGED <<mailed, sessions, served>>

Login(p) ==
  /\ standing[p] = "confirmed"
  /\ sessions' = sessions \cup {p}
  /\ UNCHANGED <<standing, mailed, served>>

Expire(p) ==
  /\ sessions' = sessions \ {p}
  /\ UNCHANGED <<standing, mailed, served>>

Serve(p) ==
  /\ p \in sessions
  /\ served' = served \cup {p}
  /\ UNCHANGED <<standing, mailed, sessions>>

Next == \E p \in People :
  SendLink(p) \/ Register(p) \/ Confirm(p) \/ Login(p) \/ Expire(p) \/ Serve(p)

Spec == Init /\ [][Next]_vars
=============================================================================
