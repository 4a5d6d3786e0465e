------------------------------- MODULE MCAuth -------------------------------
(***************************************************************************)
(* Small instances of Auth, for TLC.                                       *)
(***************************************************************************)
EXTENDS Auth, TLC

CONSTANTS r1, r2, r3, r4, ann, Ann, bob

(* Three registrations of one person, two spellings; one of another person. *)
TwoPeople == (r1 :> ann @@ r2 :> Ann @@ r3 :> ann @@ r4 :> bob)
LowerCase == (ann :> ann @@ Ann :> ann @@ bob :> bob)
=============================================================================
