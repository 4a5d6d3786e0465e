---------------------------- MODULE SandboxProofs ---------------------------
(***************************************************************************)
(* Proofs about Sandbox, for any number of calls.                          *)
(***************************************************************************)
EXTENDS Sandbox, TLAPS

USE SandboxAssumption

\* Where a call can stand.
States == {"start", "waiting", "timed_out", "kill", "reap", "cleanup", "done"}

\* TypeOK without its last conjunct, which needs the history of the outcome.
Typed ==
  /\ pc \in [Calls -> States]
  /\ outcome \in [Calls -> Outcomes \cup {"none"}]
  /\ cli \in [Calls -> Alive \cup {"none", "exited"}]
  /\ requested \in [Calls -> SUBSET {"create", "start"}]
  /\ container \in [Calls -> {"none", "created", "running", "removed"}]
  /\ printed \in [Calls -> BOOLEAN]

\* TypeOK, strengthened: the outcome is known by the time the clean-up begins.
TypeInv ==
  /\ Typed
  /\ \A c \in Calls : pc[c] \in {"cleanup", "done"} => outcome[c] \in Outcomes

\* The strengthened type invariant holds throughout.
LEMMA TypeInvariant == Spec => []TypeInv
<1>1. Init => TypeInv
  BY DEF Init, TypeInv, Typed, States, Alive, Outcomes
<1>2. TypeInv /\ [Next]_vars => TypeInv'
  <2> SUFFICES ASSUME TypeInv, [Next]_vars PROVE TypeInv'
    OBVIOUS
  <2> USE DEF TypeInv, Typed, States, Alive, Outcomes
  <2>1. ASSUME NEW c \in Calls, Coroutine(c) PROVE TypeInv'
    <3>1. CASE Spawn(c)
      BY <3>1 DEF Spawn
    <3>2. CASE SpawnFails(c)
      BY <3>2 DEF SpawnFails
    <3>3. CASE Communicate(c)
      BY <3>3 DEF Communicate
    <3>4. CASE Timeout(c)
      BY <3>4 DEF Timeout
    <3>5. CASE RemoveTimedOut(c)
      BY <3>5 DEF RemoveTimedOut, ForceRemove
    <3>6. CASE Kill(c)
      BY <3>6 DEF Kill
    <3>7. CASE Reap(c)
      BY <3>7 DEF Reap
    <3>8. CASE Cleanup(c)
      BY <3>8 DEF Cleanup, ForceRemove
    <3> QED
      BY <2>1, <3>1, <3>2, <3>3, <3>4, <3>5, <3>6, <3>7, <3>8 DEF Coroutine, OwnSteps
  <2>2. ASSUME NEW c \in Calls, Docker(c) PROVE TypeInv'
    <3>1. CASE AskCreate(c)
      BY <3>1 DEF AskCreate
    <3>2. CASE AskStart(c)
      BY <3>2 DEF AskStart
    <3>3. CASE GiveUp(c)
      BY <3>3 DEF GiveUp
    <3>4. CASE Detach(c)
      BY <3>4 DEF Detach
    <3>5. CASE Create(c)
      BY <3>5 DEF Create
    <3>6. CASE Start(c)
      BY <3>6 DEF Start
    <3> QED
      BY <2>2, <3>1, <3>2, <3>3, <3>4, <3>5, <3>6 DEF Docker
  <2>3. ASSUME NEW c \in Calls, Finish(c) PROVE TypeInv'
    BY <2>3 DEF Finish
  <2>4. ASSUME NEW c \in Calls, Interrupt(c) PROVE TypeInv'
    BY <2>4 DEF Interrupt
  <2>5. ASSUME NEW c \in Calls, RemoveFails(c) PROVE TypeInv'
    BY <2>5 DEF RemoveFails
  <2>6. ASSUME NEW c \in Calls, InterruptCleanup(c) PROVE TypeInv'
    BY <2>6 DEF InterruptCleanup, ForceRemove
  <2>7. CASE AllReturned \/ UNCHANGED vars
    BY <2>7 DEF AllReturned, vars
  <2> QED
    BY <2>1, <2>2, <2>3, <2>4, <2>5, <2>6, <2>7 DEF Next
<1> QED
  BY <1>1, <1>2, PTL DEF Spec

\* Every variable keeps its type and a call that is over has a result.
THEOREM SandboxTypeCorrect == Spec => []TypeOK
<1>1. TypeInv => TypeOK
  BY DEF TypeInv, Typed, TypeOK, States
<1> QED
  BY <1>1, TypeInvariant, PTL
-----------------------------------------------------------------------------
\* A container goes through its life once: nothing is asked of the daemon before
\* the CLI runs, a create is outstanding only while there is no container, and
\* what is printed is printed by a container that ends.
LifeInv == \A c \in Calls :
  /\ pc[c] = "start" => cli[c] = "none"
  /\ cli[c] \in {"none", "run"} => requested[c] = {} /\ container[c] = "none"
  /\ "create" \in requested[c] => container[c] = "none"
  /\ printed[c] => container[c] = "removed"
  /\ outcome[c] = "verdict" => printed[c]

\* LifeInv is inductive.
LEMMA LifeStep == Typed /\ LifeInv /\ [Next]_vars => LifeInv'
<1> SUFFICES ASSUME Typed, LifeInv, [Next]_vars PROVE LifeInv'
  OBVIOUS
<1> USE DEF Typed, States, LifeInv
<1>1. ASSUME NEW c \in Calls, Spawn(c) PROVE LifeInv'
  BY <1>1 DEF Spawn
<1>2. ASSUME NEW c \in Calls, SpawnFails(c) PROVE LifeInv'
  BY <1>2 DEF SpawnFails
<1>3. ASSUME NEW c \in Calls, Communicate(c) PROVE LifeInv'
  BY <1>3 DEF Communicate
<1>4. ASSUME NEW c \in Calls, Timeout(c) PROVE LifeInv'
  BY <1>4 DEF Timeout
<1>5. ASSUME NEW c \in Calls, RemoveTimedOut(c) PROVE LifeInv'
  BY <1>5 DEF RemoveTimedOut, ForceRemove
<1>6. ASSUME NEW c \in Calls, Kill(c) PROVE LifeInv'
  BY <1>6 DEF Kill
<1>7. ASSUME NEW c \in Calls, Reap(c) PROVE LifeInv'
  BY <1>7 DEF Reap
<1>8. ASSUME NEW c \in Calls, Cleanup(c) PROVE LifeInv'
  BY <1>8 DEF Cleanup, ForceRemove
<1>9. ASSUME NEW c \in Calls, AskCreate(c) PROVE LifeInv'
  BY <1>9 DEF AskCreate
<1>10. ASSUME NEW c \in Calls, AskStart(c) PROVE LifeInv'
  BY <1>10 DEF AskStart
<1>11. ASSUME NEW c \in Calls, GiveUp(c) PROVE LifeInv'
  BY <1>11 DEF GiveUp
<1>12. ASSUME NEW c \in Calls, Detach(c) PROVE LifeInv'
  BY <1>12 DEF Detach
<1>13. ASSUME NEW c \in Calls, Create(c) PROVE LifeInv'
  BY <1>13 DEF Create
<1>14. ASSUME NEW c \in Calls, Start(c) PROVE LifeInv'
  BY <1>14 DEF Start
<1>15. ASSUME NEW c \in Calls, Finish(c) PROVE LifeInv'
  BY <1>15 DEF Finish
<1>16. ASSUME NEW c \in Calls, Interrupt(c) PROVE LifeInv'
  BY <1>16 DEF Interrupt
<1>17. ASSUME NEW c \in Calls, RemoveFails(c) PROVE LifeInv'
  BY <1>17 DEF RemoveFails
<1>18. ASSUME NEW c \in Calls, InterruptCleanup(c) PROVE LifeInv'
  BY <1>18 DEF InterruptCleanup, ForceRemove
<1>19. CASE AllReturned \/ UNCHANGED vars
  BY <1>19 DEF AllReturned, vars
<1> QED
  BY <1>1, <1>2, <1>3, <1>4, <1>5, <1>6, <1>7, <1>8, <1>9, <1>10, <1>11,
     <1>12, <1>13, <1>14, <1>15, <1>16, <1>17, <1>18, <1>19 DEF Next,
     Coroutine, OwnSteps, Docker

\* It holds throughout.
LEMMA LifeInvariant == Spec => []LifeInv
<1>1. Init => LifeInv
  BY DEF Init, LifeInv
<1>2. TypeInv => Typed
  BY DEF TypeInv
<1> QED
  BY <1>1, <1>2, LifeStep, TypeInvariant, PTL DEF Spec

\* A verdict was read from the output of a container that ran to its end, however slow the
\* daemon, and whatever raises or fails to be removed.
THEOREM RealVerdicts == Spec => []VerdictsAreReal
<1>1. LifeInv => VerdictsAreReal
  BY DEF LifeInv, VerdictsAreReal
<1> QED
  BY <1>1, LifeInvariant, PTL

-----------------------------------------------------------------------------
\* CalmCallsCleanUp, strengthened: by the time of the final removal the
\* CLI can ask for nothing more, and after it nothing is outstanding.
CleanInv == \A c \in Calm :
  /\ pc[c] \in {"reap", "cleanup", "done"} => cli[c] \in {"none", "exited"}
  /\ pc[c] = "done" => /\ "create" \notin requested[c]
                       /\ container[c] \notin {"created", "running"}

\* CleanInv is inductive.
LEMMA CleanStep == Typed /\ LifeInv /\ CleanInv /\ [Next]_vars => CleanInv'
<1> SUFFICES ASSUME Typed, LifeInv, CleanInv, [Next]_vars PROVE CleanInv'
  OBVIOUS
<1> USE DEF Calm, Typed, States, LifeInv, CleanInv
<1>1. ASSUME NEW c \in Calls, Spawn(c) PROVE CleanInv'
  BY <1>1 DEF Spawn
<1>2. ASSUME NEW c \in Calls, SpawnFails(c) PROVE CleanInv'
  BY <1>2 DEF SpawnFails
<1>3. ASSUME NEW c \in Calls, Communicate(c) PROVE CleanInv'
  BY <1>3 DEF Communicate
<1>4. ASSUME NEW c \in Calls, Timeout(c) PROVE CleanInv'
  BY <1>4 DEF Timeout
<1>5. ASSUME NEW c \in Calls, RemoveTimedOut(c) PROVE CleanInv'
  BY <1>5 DEF RemoveTimedOut, ForceRemove
<1>6. ASSUME NEW c \in Calls, Kill(c) PROVE CleanInv'
  BY <1>6 DEF Kill
<1>7. ASSUME NEW c \in Calls, Reap(c) PROVE CleanInv'
  BY <1>7 DEF Reap
<1>8. ASSUME NEW c \in Calls, Cleanup(c) PROVE CleanInv'
  BY <1>8 DEF Cleanup, ForceRemove
<1>9. ASSUME NEW c \in Calls, AskCreate(c) PROVE CleanInv'
  BY <1>9 DEF AskCreate
<1>10. ASSUME NEW c \in Calls, AskStart(c) PROVE CleanInv'
  BY <1>10 DEF AskStart
<1>11. ASSUME NEW c \in Calls, GiveUp(c) PROVE CleanInv'
  BY <1>11 DEF GiveUp
<1>12. ASSUME NEW c \in Calls, Detach(c) PROVE CleanInv'
  BY <1>12 DEF Detach
<1>13. ASSUME NEW c \in Calls, Create(c) PROVE CleanInv'
  BY <1>13 DEF Create
<1>14. ASSUME NEW c \in Calls, Start(c) PROVE CleanInv'
  BY <1>14 DEF Start
<1>15. ASSUME NEW c \in Calls, Finish(c) PROVE CleanInv'
  BY <1>15 DEF Finish
<1>16. ASSUME NEW c \in Calls, Interrupt(c) PROVE CleanInv'
  BY <1>16 DEF Interrupt
<1>17. ASSUME NEW c \in Calls, RemoveFails(c) PROVE CleanInv'
  BY <1>17 DEF RemoveFails
<1>18. ASSUME NEW c \in Calls, InterruptCleanup(c) PROVE CleanInv'
  BY <1>18 DEF InterruptCleanup, ForceRemove
<1>19. CASE AllReturned \/ UNCHANGED vars
  BY <1>19 DEF AllReturned, vars
<1> QED
  BY <1>1, <1>2, <1>3, <1>4, <1>5, <1>6, <1>7, <1>8, <1>9, <1>10, <1>11,
     <1>12, <1>13, <1>14, <1>15, <1>16, <1>17, <1>18, <1>19 DEF Next,
     Coroutine, OwnSteps, Docker

\* No container outlives a calm call.
THEOREM NoneOutlives == Spec => []CalmCallsCleanUp
<1>1. Init => CleanInv
  BY DEF Init, CleanInv, Calm
<1>2. CleanInv => CalmCallsCleanUp
  BY DEF CleanInv, CalmCallsCleanUp
<1>3. TypeInv => Typed
  BY DEF TypeInv
<1>4. Typed /\ LifeInv /\ CleanInv /\ [Next]_vars => CleanInv'
  BY CleanStep
<1> QED
  BY <1>1, <1>2, <1>3, <1>4, TypeInvariant, LifeInvariant, PTL DEF Spec
=============================================================================
