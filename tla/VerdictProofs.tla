---------------------------- MODULE VerdictProofs ---------------------------
(***************************************************************************)
(* Proofs about Verdict, for any set of tests.                             *)
(***************************************************************************)
EXTENDS Verdict, FiniteSetTheorems, TLAPS

Whens == {"setup", "call", "teardown"}
Reports == [name : Tests, when : Whens, outcome : {"passed", "failed", "skipped"}]

\* What the collector makes of a report it keeps.
Result(r) == [name |-> r.name, when |-> r.when, outcome |-> Shown(r.when, r.outcome)]

AllDone == \A t \in Tests : stage[t] = "done"

\* A report is made for each result, a result for each report that is kept.
Collected ==
  /\ stage \in [Tests -> Whens \cup {"done"}]
  /\ reports \subseteq Reports
  /\ IsFiniteSet(tests)
  /\ \A r \in reports : Kept(r.when, r.outcome) => Result(r) \in tests
  /\ tests # {} => reports # {}

\* While nothing has ended there is nothing printed, and pytest has returned before
\* its payload is.
PrintedAtTheEnd ==
  /\ phase = "collect" => tests = {}
  /\ phase \in {"collect", "run"} => ending = "none"
  /\ phase = "print" \/ output = "payload" => ending \in Returned
  /\ ending = "complete" => AllDone \/ tests = {}
  /\ phase \in {"collect", "run", "print"} => output = "nothing"
  /\ output \in {"nothing", "garbled", "misshapen", "foreign", "payload"}
  /\ ending = "timeout" => output = "nothing"
  /\ ending \in Returned \cup {"none", "killed", "timeout"}

\* The runner's payload says what the session came to, which has not changed since.
PayloadInv == output = "payload" => payload = OwnPayload

\* The result is that of a complete payload, or names what went wrong.
ResultInv ==
  phase \in {"parsed", "graded"} =>
    IF output \in {"payload", "foreign"} THEN result = Parsed ELSE result.runner_error # "none"

\* The status says what the result says.
StatusInv ==
  /\ status = "passed" <=> phase = "graded" /\ result.runner_error = "none" /\ result.passed
  /\ status = "failed" <=> phase = "graded" /\ result.runner_error = "none" /\ ~ result.passed

VerdictInv == Collected /\ PrintedAtTheEnd /\ PayloadInv /\ ResultInv /\ StatusInv

LEMMA VerdictInit == Init => VerdictInv
  BY FS_EmptySet DEF Init, VerdictInv, Collected, PrintedAtTheEnd, PayloadInv, ResultInv, StatusInv,
                     Whens, Returned

\* One phase of a test leaves the collector in agreement with the reports.
LEMMA Collecting == ASSUME VerdictInv, NEW t \in Tests, RunPhase(t)
                    PROVE  Collected'
<1> DEFINE report(outcome) == [name |-> t, when |-> stage[t], outcome |-> outcome]
<1>1. PICK outcome \in {"passed", "failed", "skipped"} :
        /\ stage' = [stage EXCEPT ![t] =
             IF @ = "setup" /\ outcome = "passed" THEN "call"
             ELSE IF @ = "teardown" THEN "done" ELSE "teardown"]
        /\ reports' = reports \cup {report(outcome)}
        /\ tests' = IF Kept(stage[t], outcome)
             THEN tests \cup {[name |-> t, when |-> stage[t], outcome |-> Shown(stage[t], outcome)]}
             ELSE tests
  BY DEF RunPhase
<1>2. stage[t] \in Whens
  BY DEF VerdictInv, Collected, RunPhase
<1>3. stage' \in [Tests -> Whens \cup {"done"}]
  BY <1>1 DEF VerdictInv, Collected, Whens
<1>4. reports' \subseteq Reports
  BY <1>1, <1>2 DEF VerdictInv, Collected, Reports
<1>5. IsFiniteSet(tests')
  BY <1>1, FS_AddElement DEF VerdictInv, Collected
<1>6. /\ report(outcome).when = stage[t] /\ report(outcome).outcome = outcome
      /\ Result(report(outcome)) =
           [name |-> t, when |-> stage[t], outcome |-> Shown(stage[t], outcome)]
  BY DEF Result
<1>7. \A r \in reports' : Kept(r.when, r.outcome) => Result(r) \in tests'
  BY <1>1, <1>6 DEF VerdictInv, Collected
<1>8. reports' # {}
  BY <1>1
<1> QED
  BY <1>3, <1>4, <1>5, <1>7, <1>8 DEF Collected

\* What is printed does not depend on who has parsed it, nor what it is worth.
LEMMA VerdictStep == VerdictInv /\ [Next]_vars => VerdictInv'
<1> SUFFICES ASSUME VerdictInv, [Next]_vars PROVE VerdictInv'
  OBVIOUS
<1> USE DEF VerdictInv, Collected, PrintedAtTheEnd, ResultInv, StatusInv, AllDone, Returned, session
<1>1. CASE CollectFails
  BY <1>1 DEF CollectFails, PayloadInv
<1>2. CASE Collect
  BY <1>2 DEF Collect, PayloadInv
<1>3. ASSUME NEW t \in Tests, RunPhase(t)
      PROVE  VerdictInv'
  <2>1. Collected'
    BY <1>3, Collecting
  <2> QED
    BY <1>3, <2>1 DEF RunPhase, PayloadInv
<1>4. CASE EndSession
  BY <1>4 DEF EndSession, PayloadInv
<1>5. CASE Interrupt
  BY <1>5 DEF Interrupt, PayloadInv
<1>6. CASE PrintPayload
  <2>1. PayloadInv'
    BY <1>6 DEF PrintPayload, PrintsItself, PayloadInv, OwnPayload, Succeeded
  <2> QED
    BY <1>6, <2>1 DEF PrintPayload, PrintsItself
<1>7. CASE Killed
  <2>1. PayloadInv'
    BY <1>7 DEF Killed, PrintsItself, PayloadInv
  <2> QED
    BY <1>7, <2>1 DEF Killed, PrintsItself
<1>8. CASE TimedOut
  BY <1>8 DEF TimedOut, PayloadInv, RunnerError
<1>9. CASE Parse
  <2>1. ResultInv'
    <3>1. UNCHANGED <<output, Parsed>> /\ phase' = "parsed"
      BY <1>9 DEF Parse, Parsed
    <3>2. CASE output \notin {"payload", "foreign"}
      <4>1. PICK message \in {"no result payload", "invalid JSON"} :
              result' = RunnerError(message)
        BY <1>9, <3>2 DEF Parse
      <4>2. result'.runner_error = message
        BY <4>1 DEF RunnerError
      <4> QED
        BY <3>1, <3>2, <4>2
    <3>3. CASE output \in {"payload", "foreign"}
      BY <1>9, <3>1, <3>3 DEF Parse
    <3> QED
      BY <3>2, <3>3
  <2>2. PayloadInv'
    BY <1>9 DEF Parse, PayloadInv, OwnPayload, Succeeded
  <2> QED
    BY <1>9, <2>1, <2>2 DEF Parse
<1>10. CASE ParseRaises
  BY <1>10 DEF ParseRaises, PayloadInv, OwnPayload, Succeeded
<1>11. CASE Grade
  <2>1. ResultInv' /\ PayloadInv'
    BY <1>11 DEF Grade, Parsed, PayloadInv, OwnPayload, Succeeded
  <2>2. StatusInv'
    BY <1>11 DEF Grade
  <2> QED
    BY <1>11, <2>1, <2>2 DEF Grade
<1>12. CASE UNCHANGED vars
  BY <1>12 DEF vars, Parsed, PayloadInv, OwnPayload, Succeeded
<1> QED
  BY <1>1, <1>2, <1>3, <1>4, <1>5, <1>6, <1>7, <1>8, <1>9, <1>10, <1>11, <1>12 DEF Next, Over

LEMMA VerdictInvariant == Spec => []VerdictInv
  BY VerdictInit, VerdictStep, PTL DEF Spec

\* The result of the runner's payload is an error exactly when there was nothing to
\* judge, and else passes exactly when pytest's exit code was 0.
LEMMA ParsedPayload ==
  ASSUME VerdictInv, phase = "graded", output = "payload"
  PROVE  /\ result = Parsed /\ payload = OwnPayload
         /\ result.runner_error = "none" <=> Reported
         /\ result.runner_error = "none" => (result.passed <=> Succeeded)
<1>1. result = Parsed /\ payload = OwnPayload
  BY DEF VerdictInv, ResultInv, PayloadInv
<1>2. OwnPayload.runner_error = "none" <=> Reported
  BY DEF OwnPayload, Reported
<1>3. Parsed.runner_error = payload.runner_error
  BY DEF Parsed, RunnerError
<1>4. payload.runner_error = "none" => Parsed.passed = payload.passed
  BY DEF Parsed
<1>5. OwnPayload.passed <=> Succeeded /\ tests # {} /\ collection_error = "none"
  BY DEF OwnPayload
<1> QED
  BY <1>1, <1>2, <1>3, <1>4, <1>5 DEF Reported

\* What is known once a submission is graded by the runner's payload, or by none:
\* the result carries no error exactly when there was something to judge.
LEMMA Judged == ASSUME VerdictInv, phase = "graded", output # "foreign"
                PROVE  /\ result.runner_error = "none" <=> Reported
                       /\ Reported => ending \in Returned
<1>1. CASE output = "payload"
  BY <1>1, ParsedPayload DEF VerdictInv, PrintedAtTheEnd
<1>2. CASE output # "payload"
  BY <1>2 DEF VerdictInv, ResultInv, Reported
<1> QED
  BY <1>1, <1>2

\* With results collected, pytest's exit code is 0 exactly when the session ended
\* whole and without a failed phase, or was left with that code.
LEMMA ExitCode ==
  ASSUME VerdictInv, Reported
  PROVE  Succeeded <=> (RanToItsEnd /\ Failures = {}) \/ (Reported /\ ending = "exit 0")
<1>1. reports # {}
  BY DEF VerdictInv, Collected, Reported
<1>2. (\A r \in reports : r.outcome # "failed") <=> Failures = {}
  BY DEF Failures
<1>3. ending = "complete" => RanToItsEnd
  BY DEF VerdictInv, PrintedAtTheEnd, AllDone, Reported, RanToItsEnd
<1> QED
  BY <1>1, <1>2, <1>3 DEF Succeeded, RanToItsEnd

\* A run is counted as an attempt exactly when pytest returned, interrupted or not,
\* and there was something to judge; after a time-out it is not, whatever the
\* program has printed.
THEOREM CutOffRunsDoNotCount == Spec => []CutOffRunsAreNotCounted
<1>1. VerdictInv => CutOffRunsAreNotCounted
  <2> SUFFICES ASSUME VerdictInv PROVE CutOffRunsAreNotCounted
    OBVIOUS
  <2>1. ending = "timeout" => status \notin {"passed", "failed"}
    BY DEF VerdictInv, PrintedAtTheEnd, ResultInv, StatusInv
  <2>2. status \in {"passed", "failed"} <=> phase = "graded" /\ result.runner_error = "none"
    BY DEF VerdictInv, StatusInv
  <2> QED
    BY <2>1, <2>2, Judged DEF CutOffRunsAreNotCounted
<1> QED
  BY <1>1, VerdictInvariant, PTL

\* A submission graded by the runner's payload passes exactly on a whole session
\* without a failed phase, or on one left with an exit code of 0.
THEOREM PassesRestOnEvidence == Spec => []PassesAreEarned
<1>1. VerdictInv => PassesAreEarned
  <2> SUFFICES ASSUME VerdictInv, output # "foreign"
               PROVE  status = "passed" <=>
                        /\ phase = "graded"
                        /\ (RanToItsEnd /\ Failures = {}) \/ (Reported /\ ending = "exit 0")
    BY DEF PassesAreEarned
  <2>1. status = "passed" <=> phase = "graded" /\ result.runner_error = "none" /\ result.passed
    BY DEF VerdictInv, StatusInv
  <2>2. phase = "graded" => (result.runner_error = "none" <=> Reported)
    BY Judged
  <2>3. phase = "graded" /\ Reported => (result.passed <=> Succeeded)
    BY <2>2, ParsedPayload DEF Reported
  <2>4. RanToItsEnd => Reported
    BY DEF RanToItsEnd
  <2> QED
    BY <2>1, <2>2, <2>3, <2>4, ExitCode
<1> QED
  BY <1>1, VerdictInvariant, PTL

\* Each failed phase of a test is a result of its own that does not pass.
LEMMA FailuresAmongResults ==
  ASSUME VerdictInv
  PROVE  LET failed == {t \in tests : t.outcome # "passed"}
         IN  IsFiniteSet(failed) /\ IsFiniteSet(Failures)
             /\ Cardinality(Failures) <= Cardinality(failed)
<1> DEFINE failed == {t \in tests : t.outcome # "passed"}
           f == [r \in Failures |-> Result(r)]
<1>1. IsFiniteSet(failed)
  BY FS_Subset DEF VerdictInv, Collected
<1>2. ASSUME NEW r \in Failures
      PROVE  Result(r) \in failed
  <2>1. r \in reports /\ r.outcome = "failed" /\ Result(r) \in tests
    BY DEF Failures, VerdictInv, Collected, Kept
  <2>2. Result(r).outcome # "passed"
    BY <2>1 DEF Result, Shown
  <2> QED
    BY <2>1, <2>2
<1>3. ASSUME NEW r \in Failures, NEW s \in Failures, Result(r) = Result(s)
      PROVE  r = s
  <2>1. r \in Reports /\ s \in Reports /\ r.outcome = s.outcome
    BY DEF Failures, VerdictInv, Collected
  <2>2. r.name = s.name /\ r.when = s.when
    BY <1>3 DEF Result
  <2> QED
    BY <2>1, <2>2 DEF Reports
<1>4. f \in [Failures -> failed]
  BY <1>2
<1>5. f \in Injection(Failures, failed)
  BY <1>3, <1>4 DEF Injection, IsInjective
<1> QED
  BY <1>1, <1>5, FS_Injection

\* A failed verdict has a failed test phase to show for it, or an interruption, and
\* counts all failed phases either way.
THEOREM FailuresHaveReasons == Spec => []FailuresAreShown
<1>1. VerdictInv => FailuresAreShown
  <2> SUFFICES ASSUME VerdictInv, status = "failed", output # "foreign"
               PROVE  /\ Failures # {} \/ ending = "interrupted"
                      /\ result.failed_count >= Cardinality(Failures)
    BY DEF FailuresAreShown
  <2>1. phase = "graded" /\ result.runner_error = "none" /\ ~ result.passed
    BY DEF VerdictInv, StatusInv
  <2>2. Reported /\ ending \in Returned
    BY <2>1, Judged
  <2>3. result = Parsed /\ payload = OwnPayload /\ ~ Succeeded
    BY <2>1, <2>2, ParsedPayload DEF Reported
  <2>4. Failures # {} \/ ending = "interrupted"
    BY <2>2, <2>3 DEF Returned, Succeeded, Failures, VerdictInv, Collected, Reported
  <2> DEFINE passed == {t \in tests : t.outcome = "passed"}
             failed == {t \in tests : t.outcome # "passed"}
  <2>5. result.failed_count = Cardinality(tests \ passed)
    <3>1. payload.tests = tests /\ payload.runner_error = "none"
      BY <2>2, <2>3 DEF OwnPayload, Reported
    <3> QED
      BY <2>3, <3>1 DEF Parsed
  <2>6. tests \ passed = failed
    OBVIOUS
  <2>7. Cardinality(failed) \in Nat /\ Cardinality(Failures) \in Nat
    BY FailuresAmongResults, FS_CardinalityType
  <2>8. Cardinality(Failures) <= Cardinality(failed)
    BY FailuresAmongResults
  <2> QED
    BY <2>4, <2>5, <2>6, <2>7, <2>8
<1> QED
  BY <1>1, VerdictInvariant, PTL
=============================================================================
