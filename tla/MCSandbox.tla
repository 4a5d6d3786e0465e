----------------------------- MODULE MCSandbox ------------------------------
(***************************************************************************)
(* Small instances of Sandbox, for TLC.  A calm call beside a troubled     *)
(* one shows both; one is enough for a counterexample.                     *)
(***************************************************************************)
EXTENDS Sandbox
=============================================================================
