------------------------------ MODULE Verdict -------------------------------
(***************************************************************************)
(* How a run of submitted code becomes a verdict: pytest (external) reports*)
(* the phases of each test to the collector of runner/run_tests.py, which  *)
(* prints one payload between two markers; SandboxClient._parse and        *)
(* _status_from_result turn what arrives into the status of a submission.  *)
(* The submitted code runs in the runner's own process: it may end the     *)
(* process or the session, and print what it likes.  The run may be cut    *)
(* off anywhere by the wall-clock limit and the memory limit.              *)
(***************************************************************************)
EXTENDS FiniteSets, Naturals

CONSTANT Tests   \* the test nodes pytest finds when the code can be loaded

VARIABLES
  phase,             \* of the run: "collect", "run", "print", "exited", "parsed", "graded"
                     \* or "raised"
  stage,             \* test -> the phase of it that comes next
  reports,           \* the phase reports pytest has made
  tests,             \* the collector's list of results
  collection_error,  \* what the first failed collect report says
  ending,            \* how the session came to an end: "none" so far, "complete",
                     \* "interrupted", "exit 0", "killed" or "timeout"
  output,            \* what the API gets between the first two markers: "nothing", the
                     \* runner's "payload", JSON of the program's own ("foreign", or
                     \* "misshapen" if it is no payload) or what is no JSON ("garbled")
  payload,           \* what is decoded from it
  result,            \* the TestRunResult; its list of results is that of the payload
  status             \* of the submission

session == <<stage, reports, tests, collection_error>>
vars == <<phase, session, ending, output, payload, result, status>>

-----------------------------------------------------------------------------

\* A collection error quotes the submitted code, so it can hold any words.
LoadErrors == {"traceback", "traceback quoting `wall-clock'"}

\* pytest.main has returned.
Returned == {"complete", "interrupted", "exit 0"}

\* pytest's exit code, as far as the runner asks: 0 when tests were found and
\* none of their phases failed; 2 after an interruption, and after pytest.exit
\* the code the program asked for.
Succeeded ==
  \/ ending = "exit 0"
  \/ ending = "complete" /\ reports # {} /\ \A r \in reports : r.outcome # "failed"

\* What logreport keeps: the report of the test body, and failures around it.
Kept_BodyOnly(when, outcome) == when = "call"
Kept(when, outcome) == when = "call" \/ outcome = "failed"

\* A body that is skipped, or fails as expected, is not `passed'.
Shown(when, outcome) ==
  IF outcome = "passed" THEN "passed"
  ELSE IF when = "call" THEN "failed" ELSE "error"

OwnPayload == [passed |-> Succeeded /\ tests # {} /\ collection_error = "none",
               tests  |-> tests,
               runner_error |-> IF collection_error # "none" THEN collection_error
                                ELSE IF tests = {} THEN "no tests collected" ELSE "none"]

\* What a program may print in its place.
ForeignPayloads ==
  [passed       : BOOLEAN,
   tests        : SUBSET [name : {"foreign"}, when : {"call"}, outcome : {"passed", "failed"}],
   runner_error : LoadErrors \cup {"none"}]

RunnerError(message) ==
  [passed |-> FALSE, passed_count |-> 0, failed_count |-> 0, runner_error |-> message]

Init ==
  /\ phase = "collect"
  /\ stage = [t \in Tests |-> "setup"]
  /\ reports = {}
  /\ tests = {}
  /\ collection_error = "none"
  /\ ending = "none"
  /\ output = "nothing"
  /\ payload = [passed |-> FALSE, tests |-> {}, runner_error |-> "none"]
  /\ result = RunnerError("none")
  /\ status = "pending"

-----------------------------------------------------------------------------
(* In the container *)

\* The code or a test file cannot be imported: pytest stops and runs no test.
CollectFails ==
  /\ phase = "collect"
  /\ phase' = "print"
  /\ \E e \in LoadErrors : collection_error' = e
  /\ ending' = "interrupted"
  /\ UNCHANGED <<stage, reports, tests, output, payload, result, status>>

\* All tests are found, or none when their file is misnamed.
Collect ==
  /\ phase = "collect"
  /\ \/ phase' = "run" /\ UNCHANGED ending
     \/ phase' = "print" /\ ending' = "complete"
  /\ UNCHANGED <<session, output, payload, result, status>>

\* One phase of a test ends and is reported.  The body is run only when the
\* setup passed, the teardown always; tests are run one after the other.
RunPhase(t) ==
  /\ phase = "run"
  /\ stage[t] # "done"
  /\ \A u \in Tests \ {t} : stage[u] \in {"setup", "done"}
  /\ \E outcome \in {"passed", "failed", "skipped"} :
       /\ stage' = [stage EXCEPT ![t] =
            IF @ = "setup" /\ outcome = "passed" THEN "call"
            ELSE IF @ = "teardown" THEN "done" ELSE "teardown"]
       /\ reports' = reports \cup {[name |-> t, when |-> stage[t], outcome |-> outcome]}
       /\ tests' = IF Kept(stage[t], outcome)
            THEN tests \cup {[name |-> t, when |-> stage[t], outcome |-> Shown(stage[t], outcome)]}
            ELSE tests
  /\ UNCHANGED <<phase, collection_error, ending, output, payload, result, status>>

EndSession ==
  /\ phase = "run"
  /\ \A t \in Tests : stage[t] = "done"
  /\ phase' = "print"
  /\ ending' = "complete"
  /\ UNCHANGED <<session, output, payload, result, status>>

\* KeyboardInterrupt, or pytest.exit with or without a code of the program's
\* choice: no more reports are made, and pytest.main returns nevertheless.
Interrupt ==
  /\ phase \in {"collect", "run"}
  /\ phase' = "print"
  /\ ending' \in {"interrupted", "exit 0"}
  /\ UNCHANGED <<session, output, payload, result, status>>

\* The program has printed markers itself, pytest's report quotes some it has
\* printed, or one of its threads prints into the payload.
PrintsItself ==
  \/ output' \in {"nothing", "garbled", "misshapen"} /\ UNCHANGED payload
  \/ output' = "foreign" /\ payload' \in ForeignPayloads

PrintPayload ==
  /\ phase = "print"
  /\ phase' = "exited"
  /\ \/ output' = "payload" /\ payload' = OwnPayload
     \/ PrintsItself
  /\ UNCHANGED <<session, ending, result, status>>

\* Out of memory, or the interpreter is ended, before the runner could print
\* the whole of its payload.
Killed ==
  /\ phase \in {"collect", "run", "print"}
  /\ phase' = "exited"
  /\ ending' = "killed"
  /\ PrintsItself
  /\ UNCHANGED <<session, result, status>>

-----------------------------------------------------------------------------
(* In the API *)

\* The wall-clock limit passes before the CLI has exited; what it has printed is
\* dropped.
TimedOut ==
  /\ phase \in {"collect", "run", "print", "exited"}
  /\ phase' = "parsed"
  /\ ending' = "timeout"
  /\ output' = "nothing"
  /\ result' = RunnerError("wall-clock limit")
  /\ UNCHANGED <<session, payload, status>>

\* Faulty variants, for showing that the properties notice: the pass mark is
\* derived from a single passing test; a missing payload is an empty result.
Parsed_AnyPass ==
  IF payload.runner_error # "none" THEN RunnerError(payload.runner_error)
  ELSE LET passed == {t \in payload.tests : t.outcome = "passed"} IN
       [passed       |-> passed # {},
        passed_count |-> Cardinality(passed),
        failed_count |-> Cardinality(payload.tests \ passed),
        runner_error |-> "none"]

Parse_Lenient ==
  /\ phase = "exited"
  /\ phase' = "parsed"
  /\ result' = [passed |-> FALSE, passed_count |-> 0, failed_count |-> 1, runner_error |-> "none"]
  /\ UNCHANGED <<session, ending, output, payload, status>>

\* What _parse makes of a complete payload.
Parsed ==
  IF payload.runner_error # "none" THEN RunnerError(payload.runner_error)
  ELSE LET passed == {t \in payload.tests : t.outcome = "passed"} IN
       [passed       |-> payload.passed,
        passed_count |-> Cardinality(passed),
        failed_count |-> Cardinality(payload.tests \ passed),
        runner_error |-> "none"]

Parse ==
  /\ phase = "exited"
  /\ output # "misshapen"
  /\ phase' = "parsed"
  /\ result' = CASE output = "nothing" -> RunnerError("no result payload")
                 [] output = "garbled" -> RunnerError("invalid JSON")
                 [] output \in {"payload", "foreign"} -> Parsed
  /\ UNCHANGED <<session, ending, output, payload, status>>

\* JSON of another shape is taken apart without a check: the exception ends the
\* request, and nothing is graded.
ParseRaises ==
  /\ phase = "exited"
  /\ output = "misshapen"
  /\ phase' = "raised"
  /\ UNCHANGED <<session, ending, output, payload, result, status>>

MentionsWallClock(message) ==
  message \in {"wall-clock limit", "traceback quoting `wall-clock'"}

Grade ==
  /\ phase = "parsed"
  /\ phase' = "graded"
  /\ status' = IF result.runner_error # "none"
                 THEN IF MentionsWallClock(result.runner_error) THEN "timeout" ELSE "error"
                 ELSE IF result.passed THEN "passed" ELSE "failed"
  /\ UNCHANGED <<session, ending, output, payload, result>>

Over == phase \in {"graded", "raised"} /\ UNCHANGED vars

Next ==
  \/ CollectFails \/ Collect \/ (\E t \in Tests : RunPhase(t)) \/ EndSession \/ Interrupt
  \/ PrintPayload \/ Killed \/ TimedOut \/ Parse \/ ParseRaises \/ Grade \/ Over

Spec == Init /\ [][Next]_vars

-----------------------------------------------------------------------------
(* Correctness *)

Failures == {r \in reports : r.outcome = "failed"}

\* There is something to judge: the runner's payload has arrived whole, the code
\* could be loaded, and a result was collected.
Reported == output = "payload" /\ collection_error = "none" /\ tests # {}

RanToItsEnd == Reported /\ ending = "complete" /\ \A t \in Tests : stage[t] = "done"

\* Where the payload is the runner's own, a pass is evidence, and evidence is a
\* pass: a submission passes exactly when the session ran to its end and no phase
\* of any test failed, teardown included, although the pass mark and the list of
\* results are computed from different things (pytest's exit code, the reports that
\* were kept) - or when the program has left the session with an exit code of 0,
\* which the runner cannot tell from that.  A test that is skipped does not fail.
PassesAreEarned == output # "foreign" =>
  (status = "passed" <=>
     phase = "graded" /\ ((RanToItsEnd /\ Failures = {}) \/ (Reported /\ ending = "exit 0")))

\* A failed verdict has a reason to show: one of the results the learner is given
\* is a failure, unless the session was interrupted, which has no result of its
\* own; and each failed phase is counted among the failures, even then.
FailuresAreShown == status = "failed" /\ output # "foreign" =>
  /\ Failures # {} \/ ending = "interrupted"
  /\ result.failed_count >= Cardinality(Failures)

\* A run that was killed or timed out is no attempt of the learner, however much of
\* it had passed or failed by then; one in which pytest returned, interrupted or
\* not, is one exactly when there is something to judge.  All that a program can
\* change about this is to print a payload of its own, and not after a time-out.
CutOffRunsAreNotCounted ==
  /\ ending = "timeout" => status \notin {"passed", "failed"}
  /\ output # "foreign" =>
       (status \in {"passed", "failed"} <=>
          phase = "graded" /\ Reported /\ ending \in Returned)
=============================================================================
