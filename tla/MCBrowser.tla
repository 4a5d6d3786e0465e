----------------------------- MODULE MCBrowser ------------------------------
(***************************************************************************)
(* A small instance of Browser.  Accounts, exercises and coroutines are    *)
(* interchangeable.                                                        *)
(***************************************************************************)
EXTENDS Browser, TLC

Interchangeable ==
    Permutations(Accounts) \cup Permutations(Exercises)
        \cup Permutations(Coroutines)
=============================================================================
