----------------------------- MODULE MCVerdict ------------------------------
(***************************************************************************)
(* Small instances of Verdict, for TLC.                                    *)
(***************************************************************************)
EXTENDS Verdict, TLC

AnyOrder == Permutations(Tests)
=============================================================================
