------------------------------ MODULE Sandbox -------------------------------
(***************************************************************************)
(* One call of SandboxClient._docker_run (clients/sandbox.py): the         *)
(* coroutine that starts `docker run', waits for it under a wall-clock     *)
(* limit and force-removes the container by name, against two processes it *)
(* does not control: the docker CLI it spawned, and the daemon that        *)
(* creates, starts and removes containers.  Each call has its own          *)
(* container name, so calls only share the machine.                        *)
(***************************************************************************)
CONSTANTS
  Calls,        \* calls of _docker_run
  Slow,         \* those for which the daemon may answer a rm before it has acted on
                \* a create it was asked for earlier
  Interrupted,  \* those with an await that may raise (cancellation, I/O error)
  Unremoved     \* those whose `docker rm' may fail, when spawned or while it runs

ASSUME SandboxAssumption == Slow \cup Interrupted \cup Unremoved \subseteq Calls

Calm == Calls \ (Slow \cup Interrupted \cup Unremoved)

VARIABLES
  pc,         \* call -> where the coroutine stands
  outcome,    \* call -> what it returns, once known
  cli,        \* call -> state of its docker CLI process
  requested,  \* call -> requests the daemon has received and not acted on
  container,  \* call -> state of the container of that name
  printed     \* call -> whether the container's output holds a pair of result markers,
              \* the runner's own or ones the submitted program printed

vars == <<pc, outcome, cli, requested, container, printed>>

Alive == {"run", "creating", "created", "starting", "attached"}
Outcomes == {"verdict", "runner_error", "timeout", "raised"}

Init ==
  /\ pc = [c \in Calls |-> "start"]
  /\ outcome = [c \in Calls |-> "none"]
  /\ cli = [c \in Calls |-> "none"]
  /\ requested = [c \in Calls |-> {}]
  /\ container = [c \in Calls |-> "none"]
  /\ printed = [c \in Calls |-> FALSE]

-----------------------------------------------------------------------------
(* The coroutine *)

\* `docker run' is spawned.
Spawn(c) ==
  /\ pc[c] = "start"
  /\ pc' = [pc EXCEPT ![c] = "waiting"]
  /\ cli' = [cli EXCEPT ![c] = "run"]
  /\ UNCHANGED <<outcome, requested, container, printed>>

\* It cannot be: without a docker binary the call returns a runner error, any
\* other failure is raised.  There is nothing to clean up.
SpawnFails(c) ==
  /\ pc[c] = "start"
  /\ pc' = [pc EXCEPT ![c] = "done"]
  /\ \E o \in {"runner_error", "raised"} : outcome' = [outcome EXCEPT ![c] = o]
  /\ UNCHANGED <<cli, requested, container, printed>>

\* Faulty variants, for showing that the properties notice: any exit is taken for
\* a verdict; `docker rm' without -f; the CLI is not killed; the time-out falls
\* through without a result; no `finally'.
Communicate_AnyExit(c) ==
  /\ pc[c] = "waiting"
  /\ cli[c] = "exited"
  /\ outcome' = [outcome EXCEPT ![c] = "verdict"]
  /\ pc' = [pc EXCEPT ![c] = "cleanup"]
  /\ UNCHANGED <<cli, requested, container, printed>>

ForceRemove_NotForced(c) ==
  /\ c \in Slow \/ "create" \notin requested[c]
  /\ container' = IF container[c] = "created"
                    THEN [container EXCEPT ![c] = "removed"] ELSE container

Kill_Forgotten(c) ==
  /\ pc[c] = "kill"
  /\ pc' = [pc EXCEPT ![c] = "reap"]
  /\ UNCHANGED <<outcome, cli, requested, container, printed>>

Cleanup_NoBackstop(c) ==
  /\ pc[c] = "cleanup"
  /\ pc' = [pc EXCEPT ![c] = "done"]
  /\ UNCHANGED <<outcome, cli, requested, container, printed>>

\* The CLI exits within the limit.  _parse makes of what stands between the markers
\* a verdict, or a runner error, or raises; without markers it is a runner error.
Communicate(c) ==
  /\ pc[c] = "waiting"
  /\ cli[c] = "exited"
  /\ \E o \in {"runner_error"} \cup (IF printed[c] THEN {"verdict", "raised"} ELSE {}) :
       outcome' = [outcome EXCEPT ![c] = o]
  /\ pc' = [pc EXCEPT ![c] = "cleanup"]
  /\ UNCHANGED <<cli, requested, container, printed>>

\* The limit passes, at whatever point the CLI and the daemon have reached.
Timeout(c) ==
  /\ pc[c] = "waiting"
  /\ pc' = [pc EXCEPT ![c] = "timed_out"]
  /\ UNCHANGED <<outcome, cli, requested, container, printed>>

\* `docker rm -f': a container that exists is stopped and removed, one that does
\* not is an error nobody looks at.
ForceRemove(c) ==
  /\ c \in Slow \/ "create" \notin requested[c]
  /\ container' = IF container[c] \in {"created", "running"}
                    THEN [container EXCEPT ![c] = "removed"] ELSE container

RemoveTimedOut(c) ==
  /\ pc[c] = "timed_out"
  /\ ForceRemove(c)
  /\ pc' = [pc EXCEPT ![c] = "kill"]
  /\ UNCHANGED <<outcome, cli, requested, printed>>

\* The CLI may be gone already; what it has asked of the daemon stays asked.
Kill(c) ==
  /\ pc[c] = "kill"
  /\ cli' = [cli EXCEPT ![c] = "exited"]
  /\ pc' = [pc EXCEPT ![c] = "reap"]
  /\ UNCHANGED <<outcome, requested, container, printed>>

Reap(c) ==
  /\ pc[c] = "reap"
  /\ cli[c] = "exited"
  /\ outcome' = [outcome EXCEPT ![c] = "timeout"]
  /\ pc' = [pc EXCEPT ![c] = "cleanup"]
  /\ UNCHANGED <<cli, requested, container, printed>>

\* An await raises: nothing but the `finally' is run.
Interrupt(c) ==
  /\ c \in Interrupted
  /\ pc[c] \in {"waiting", "timed_out", "reap"}
  /\ outcome' = [outcome EXCEPT ![c] = "raised"]
  /\ pc' = [pc EXCEPT ![c] = "cleanup"]
  /\ UNCHANGED <<cli, requested, container, printed>>

\* The `finally' of every path.
Cleanup(c) ==
  /\ pc[c] = "cleanup"
  /\ ForceRemove(c)
  /\ pc' = [pc EXCEPT ![c] = "done"]
  /\ UNCHANGED <<outcome, cli, requested, printed>>

\* `docker rm' cannot be spawned: a warning, and the call goes on.
RemoveFails(c) ==
  /\ c \in Unremoved
  /\ pc[c] \in {"timed_out", "cleanup"}
  /\ pc' = [pc EXCEPT ![c] = IF @ = "cleanup" THEN "done" ELSE "kill"]
  /\ UNCHANGED <<outcome, cli, requested, container, printed>>

\* The `finally' itself is interrupted, before or after the daemon obeyed.
InterruptCleanup(c) ==
  /\ c \in Unremoved
  /\ pc[c] = "cleanup"
  /\ ForceRemove(c) \/ UNCHANGED container
  /\ outcome' = [outcome EXCEPT ![c] = "raised"]
  /\ pc' = [pc EXCEPT ![c] = "done"]
  /\ UNCHANGED <<cli, requested, printed>>

-----------------------------------------------------------------------------
(* The docker CLI *)

AskCreate(c) ==
  /\ cli[c] = "run"
  /\ cli' = [cli EXCEPT ![c] = "creating"]
  /\ requested' = [requested EXCEPT ![c] = @ \cup {"create"}]
  /\ UNCHANGED <<pc, outcome, container, printed>>

AskStart(c) ==
  /\ cli[c] = "created"
  /\ cli' = [cli EXCEPT ![c] = "starting"]
  /\ requested' = [requested EXCEPT ![c] = @ \cup {"start"}]
  /\ UNCHANGED <<pc, outcome, container, printed>>

\* No daemon, no image, ... : the CLI gives up by itself.
GiveUp(c) ==
  /\ cli[c] = "run"
  /\ cli' = [cli EXCEPT ![c] = "exited"]
  /\ UNCHANGED <<pc, outcome, requested, container, printed>>

\* The container it is attached to is gone.
Detach(c) ==
  /\ cli[c] = "attached"
  /\ container[c] = "removed"
  /\ cli' = [cli EXCEPT ![c] = "exited"]
  /\ UNCHANGED <<pc, outcome, requested, container, printed>>

-----------------------------------------------------------------------------
(* The daemon and the container *)

\* A create is carried out even when the client that asked is gone.
Create(c) ==
  /\ "create" \in requested[c]
  /\ requested' = [requested EXCEPT ![c] = @ \ {"create"}]
  /\ container' = [container EXCEPT ![c] = "created"]
  /\ cli' = [cli EXCEPT ![c] = IF @ = "creating" THEN "created" ELSE @]
  /\ UNCHANGED <<pc, outcome, printed>>

Start(c) ==
  /\ "start" \in requested[c]
  /\ requested' = [requested EXCEPT ![c] = @ \ {"start"}]
  /\ container' = [container EXCEPT ![c] = IF @ = "created" THEN "running" ELSE @]
  /\ cli' = [cli EXCEPT ![c] = IF @ # "starting" THEN @
                               ELSE IF container[c] = "created" THEN "attached" ELSE "exited"]
  /\ UNCHANGED <<pc, outcome, printed>>

\* The program in the container ends, after a payload was printed or killed before
\* one was, and --rm removes the container.
Finish(c) ==
  /\ container[c] = "running"
  /\ container' = [container EXCEPT ![c] = "removed"]
  /\ \E p \in BOOLEAN : printed' = [printed EXCEPT ![c] = p]
  /\ UNCHANGED <<pc, outcome, cli, requested>>

-----------------------------------------------------------------------------

\* The steps of a call that end by themselves: spawning, the wait the timer bounds,
\* and the kill and reaping of a process of this host.
OwnSteps(c) ==
  Spawn(c) \/ SpawnFails(c) \/ Communicate(c) \/ Timeout(c) \/ Kill(c) \/ Reap(c)

Coroutine(c) == OwnSteps(c) \/ RemoveTimedOut(c) \/ Cleanup(c)

Docker(c) ==
  \/ AskCreate(c) \/ AskStart(c) \/ GiveUp(c) \/ Detach(c) \/ Create(c) \/ Start(c)

AllReturned ==
  /\ \A c \in Calls : pc[c] = "done"
  /\ UNCHANGED vars

Next ==
  \/ \E c \in Calls : Coroutine(c) \/ Docker(c) \/ Finish(c)
     \/ Interrupt(c) \/ RemoveFails(c) \/ InterruptCleanup(c)
  \/ AllReturned

Spec == Init /\ [][Next]_vars

\* The event loop goes on and the timer fires.  Nothing says that the program in a
\* container ever ends, that the CLI does, or that the daemon answers.
Fairness == \A c \in Calls : WF_vars(OwnSteps(c))
FairSpec == Spec /\ Fairness

-----------------------------------------------------------------------------
(* Correctness *)

\* The types of the variables; a call that is over has a result.
TypeOK ==
  /\ pc \in [Calls -> {"start", "waiting", "timed_out", "kill", "reap", "cleanup", "done"}]
  /\ outcome \in [Calls -> Outcomes \cup {"none"}]
  /\ cli \in [Calls -> Alive \cup {"none", "exited"}]
  /\ requested \in [Calls -> SUBSET {"create", "start"}]
  /\ container \in [Calls -> {"none", "created", "running", "removed"}]
  /\ printed \in [Calls -> BOOLEAN]
  /\ \A c \in Calls : pc[c] = "done" => outcome[c] \in Outcomes

\* Once a call is over there is no container of it, then or later, at whatever
\* point the limit passed: as long as nothing is interrupted or fails to be
\* removed, and the daemon does not answer a rm before an earlier create.
CalmCallsCleanUp == \A c \in Calm :
  pc[c] = "done" => container[c] \notin {"created", "running"}

\* A verdict was read between markers printed in a container that ran to its end (who
\* printed them is Verdict's subject); a call that timed out never reports one,
\* however close the race was.
VerdictsAreReal == \A c \in Calls :
  outcome[c] = "verdict" => printed[c] /\ container[c] = "removed"

\* What the two liveness properties assume of the daemon: it carries out the creates it
\* has accepted and answers every `docker rm'.  The code sets it no limit:
\* _force_remove awaits rm.wait() outside the wait_for.
DaemonAnswers == \A c \in Calls :
  WF_vars(Create(c)) /\ WF_vars(RemoveTimedOut(c) \/ Cleanup(c))

\* Whatever the submitted program and the CLI do, the call ends, if the daemon
\* answers.  (A daemon that never answers a rm holds the call, and the request that
\* waits for it, for good: the wall-clock limit does not cover that wait.)
EveryCallReturns == DaemonAnswers => \A c \in Calls : pc[c] = "waiting" ~> pc[c] = "done"

\* "a `while True: pass' submission cannot survive": if the daemon answers, every
\* container of a calm call that runs is gone some time.
RunawaysAreStopped == DaemonAnswers =>
  \A c \in Calm : container[c] = "running" ~> container[c] = "removed"

-----------------------------------------------------------------------------
(* What a comment says, and the code does not keep *)

\* "`finally' force-removes the container on EVERY exit path (success, failure,
\* timeout, exception) so no container outlives this call".  On the exception
\* path the CLI is not killed: it may create its container after the `finally'.
NoContainerOutlivesTheCall == \A c \in Calls :
  pc[c] = "done" => container[c] \notin {"created", "running"}
=============================================================================
