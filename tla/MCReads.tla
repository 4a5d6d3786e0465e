------------------------------- MODULE MCReads -------------------------------
(***************************************************************************)
(* A small instance of Reads: two published lessons, the first of two      *)
(* exercises, and a draft; a newer version of the second lesson and a      *)
(* third one, without exercises, may be ingested.  One user submits, and   *)
(* two read.  A reader writes nothing, so that one at a time is enough.    *)
(***************************************************************************)
EXTENDS Reads, TLC

CONSTANTS l1, l2, l3, l4, l5, e1, e2, e3, e4, e5, u1, u2

ReadSlug == (l1 :> "intro" @@ l2 :> "loops" @@ l3 :> "loops" @@ l4 :> "draft" @@ l5 :> "empty")
ReadPosition == (l1 :> 1 @@ l2 :> 2 @@ l3 :> 2 @@ l4 :> 2 @@ l5 :> 3)
ReadLessonOf == (e1 :> l1 @@ e2 :> l1 @@ e3 :> l2 @@ e4 :> l3 @@ e5 :> l4)

ReadTargets == {u1} \X {e1, e2, e3, e4}

ReadWanted ==
  [kind : {"lesson"}, user : {u1}, about : {"intro", "loops", "draft"}]
    \cup [kind : {"solution"}, user : {u1, u2}, about : {e1}]
    \cup [kind : {"solution", "progress", "hint"}, user : {u1}, about : {e3}]
    \cup [kind : {"list", "profile"}, user : {u1}, about : {NoRow}]
    \cup [kind : {"chat"}, user : {u2}, about : {NoRow}]
=============================================================================
