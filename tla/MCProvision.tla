----------------------------- MODULE MCProvision -----------------------------
(***************************************************************************)
(* A small instance of Provision: three fixtures, each in languages of its *)
(* own.                                                                    *)
(***************************************************************************)
EXTENDS Provision, TLC

CONSTANTS f1, f2, f3, u1, u2

ThreeFixtures == <<f1, f2, f3>>
InLanguages == (f1 :> {"en", "ru"} @@ f2 :> {"ru"} @@ f3 :> {"en"})
=============================================================================
