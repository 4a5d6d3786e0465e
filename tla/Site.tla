-------------------------------- MODULE Site --------------------------------
(***************************************************************************)
(* The API with all of its requests at once: the readers of Reads beside   *)
(* the submission handlers of Grading, on one database.  A reader's        *)
(* statement sees what is committed; it writes nothing.                    *)
(*                                                                         *)
(* Readers and handlers share a pool of connections.  Here a reader that   *)
(* finds none fails (Reads!Raise), and so does a handler (Begin and then   *)
(* Raise).                                                                 *)
(***************************************************************************)
EXTENDS Grading

CONSTANTS
  Readers,       \* as in Reads
  Wanted,
  WithSolution,
  TutorEnabled

VARIABLES rpc, rwant, rfound, rloaded, rlisted, rcounted, rstates, rbefore, rsteady

readerVars == <<rpc, rwant, rfound, rloaded, rlisted, rcounted, rstates, rbefore, rsteady>>

Views == INSTANCE Reads WITH
  solved   <- LedgerSolved,
  admitted <- Admitted,
  pc       <- rpc,
  want     <- rwant,
  found    <- rfound,
  loaded   <- rloaded,
  listed   <- rlisted,
  counted  <- rcounted,
  states   <- rstates,
  before   <- rbefore,
  steady   <- rsteady

SiteInit ==
  /\ Init
  /\ rpc = [q \in Readers |-> "idle"]
  /\ rwant \in [Readers -> Wanted]
  /\ rfound = [q \in Readers |-> NoRow]
  /\ rloaded = [q \in Readers |-> {}]
  /\ rlisted = [q \in Readers |-> <<>>]
  /\ rcounted = [q \in Readers |-> {}]
  /\ rstates = [q \in Readers |-> <<>>]
  /\ rbefore = [q \in Readers |-> {}]
  /\ rsteady = [q \in Readers |-> TRUE]

\* A submission handler takes a step, or all of them die with the process; the
\* readers that die with it fail one by one.
HandlersMove ==
  /\ Crash \/ \E r \in Requests : Send(r) \/ Handle(r) \/ Raise(r)
  /\ UNCHANGED readerVars

Reingest(l) ==
  /\ Ingest(l)
  /\ rsteady' = [q \in Readers |-> FALSE]
  /\ UNCHANGED <<rpc, rwant, rfound, rloaded, rlisted, rcounted, rstates, rbefore>>

\* The next statement of a reader sees what the handlers have committed.
ReadersMove ==
  /\ UNCHANGED vars
  /\ \E q \in Readers : Views!Send(q) \/ Views!Handle(q) \/ Views!Raise(q)

AllOver == Finished /\ Views!Finished

SiteNext ==
  \/ HandlersMove
  \/ \E l \in Lessons : Reingest(l)
  \/ ReadersMove
  \/ AllOver

SiteSpec == SiteInit /\ [][SiteNext]_<<vars, readerVars>>

-----------------------------------------------------------------------------
(* Correctness *)

\* Beside the handlers, readers do what they do beside the learners of Reads: all
\* that is shown there of what they are served is so here.
ImplementsReads == Views!Spec
=============================================================================
