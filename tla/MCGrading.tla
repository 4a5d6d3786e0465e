----------------------------- MODULE MCGrading ------------------------------
(***************************************************************************)
(* Small instances of Grading.  A curriculum is a function from lesson     *)
(* rows; the cfg picks which rows, exercises and targets an instance has.  *)
(***************************************************************************)
EXTENDS Grading, TLC

CONSTANTS l1, l2, l3, l4, e1, e2, e3, e4, u1, u2

(* One lesson, one exercise, two users: the races on a progress row. *)
RaceTargets == {<<u1, e1>>, <<u2, e1>>}
RaceSlug == (l1 :> "intro")
RacePosition == (l1 :> 1)
RaceLessonOf == (e1 :> l1)

(* Three published lessons and a draft that shares its position with the *)
(* third; a second user is at work as well.                              *)
OrderTargets == ({u1} \X {e1, e2, e3, e4}) \cup {<<u2, e1>>}
OrderSlug == (l1 :> "intro" @@ l2 :> "loops" @@ l3 :> "files" @@ l4 :> "draft")
OrderPosition == (l1 :> 1 @@ l2 :> 2 @@ l3 :> 3 @@ l4 :> 3)
OrderLessonOf == (e1 :> l1 @@ e2 :> l2 @@ e3 :> l3 @@ e4 :> l4)

(* One user and one lesson, a newer version of which is ingested at some    *)
(* point: every request competes for one row, and the row may go.           *)
IngestTargets == {<<u1, e1>>}
IngestSlug == (l1 :> "intro" @@ l3 :> "intro")
IngestPosition == (l1 :> 1 @@ l3 :> 1)
IngestLessonOf == (e1 :> l1 @@ e3 :> l3)

SomeRequests == Permutations(Requests)
=============================================================================
