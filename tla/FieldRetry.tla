----------------------------- MODULE FieldRetry -----------------------------
(***************************************************************************)
(* Openshift.get_resource_info_by_jsonpath and get_resource_info_by_jq     *)
(* (smoke/features/steps/openshift.py): query one field of a resource; if  *)
(* the exit code is non-zero and wait is set, re-run the query while it    *)
(* fails, at most 5 more times, sleeping 5 s after each re-run; then       *)
(* assert that the exit code is 0 and return the output.  The resource    *)
(* may appear, change or disappear concurrently.                           *)
(***************************************************************************)
EXTENDS Integers, OcQuery

CONSTANTS
  Wait,         \* the wait argument
  Via,          \* "jsonpath": oc get -o jsonpath=...;
                \* "jq": oc get -o json | jq -rc '...'
  Values,       \* values the field can read (token sets)
  None          \* Python None

ASSUME Wait \in BOOLEAN /\ Via \in {"jsonpath", "jq"}

Retries == 5      \* attempts = 5
Pause == 5        \* time.sleep(5)

VARIABLES
  field,        \* cluster: current value of the field, or Absent
  pc,           \* "first", "retry", "sleep", "assert", "returned", "fatal"
  output,       \* local output
  exit_code,    \* local exit_code
  attempts,     \* local attempts
  runs,         \* history: queries run so far
  slept         \* history: seconds slept so far

vars == <<field, pc, output, exit_code, attempts, runs, slept>>

FieldValues == Values \cup {Absent}

\* What one run of the query returns.  The jq form is a shell pipeline
\* without pipefail: its exit code is jq's, which exits 0 on the empty
\* input left by a failing oc, while oc's error text, on the shared
\* stderr, is still captured as the output.
QueryOutcomes(value) ==
  IF Via = "jsonpath"
    THEN QueryResults(value)
    ELSE {Result(r.out, 0) : r \in QueryResults(value)}

Init ==
  /\ field \in FieldValues
  /\ pc = "first"
  /\ output = None
  /\ exit_code = None
  /\ attempts = None
  /\ runs = 0
  /\ slept = 0

\* The first query; with wait set, a failure enters the retry loop.
FirstRun ==
  /\ pc = "first"
  /\ \E r \in QueryOutcomes(field) :
       /\ output' = r.out
       /\ exit_code' = r.code
       /\ IF r.code # 0 /\ Wait
            THEN pc' = "retry" /\ attempts' = Retries
            ELSE pc' = "assert" /\ UNCHANGED attempts
  /\ runs' = runs + 1
  /\ UNCHANGED <<field, slept>>

\* Faults of the while test, for mutation checking.
RetryGuardOffByOne == exit_code # 0 /\ attempts >= 0
RetryGuardNoExitTest == attempts > 0

\* while exit_code != 0 and attempts > 0
RetryGuard == exit_code # 0 /\ attempts > 0

\* A re-run of the query: attempts -= 1, then the sleep.
RetryRun ==
  /\ pc = "retry"
  /\ RetryGuard
  /\ \E r \in QueryOutcomes(field) :
       /\ output' = r.out
       /\ exit_code' = r.code
  /\ attempts' = attempts - 1
  /\ runs' = runs + 1
  /\ pc' = "sleep"
  /\ UNCHANGED <<field, slept>>

\* time.sleep(5) at the end of every pass of the loop.
Sleep ==
  /\ pc = "sleep"
  /\ pc' = "retry"
  /\ slept' = slept + Pause
  /\ UNCHANGED <<field, output, exit_code, attempts, runs>>

\* Fault: the assertion left out, for mutation checking.
AssertPassesAlways == TRUE

\* exit_code | should.be_equal_to(0)
AssertPasses == exit_code = 0

\* The assertion: the scenario fails, or the output (rstripped, for jq)
\* is returned.
Assert ==
  /\ \/ pc = "assert"
     \/ pc = "retry" /\ ~RetryGuard
  /\ pc' = IF AssertPasses THEN "returned" ELSE "fatal"
  /\ UNCHANGED <<field, output, exit_code, attempts, runs, slept>>

\* The cluster moves the field to another value, creates or deletes it.
ClusterChange ==
  /\ field' \in FieldValues \ {field}
  /\ UNCHANGED <<pc, output, exit_code, attempts, runs, slept>>

Query == FirstRun \/ RetryRun \/ Sleep \/ Assert

Next == Query \/ ClusterChange

\* One blocking thread; run and sleep return.
Spec == Init /\ [][Next]_vars /\ WF_vars(Query)

-----------------------------------------------------------------------------
TypeOK ==
  /\ field \in FieldValues
  /\ pc \in {"first", "retry", "sleep", "assert", "returned", "fatal"}
  /\ output \in Values \cup {ErrorOutput, None}
  /\ exit_code \in {0, FailCode, None}
  /\ attempts \in (0..Retries) \cup {None}
  /\ runs \in 0..(Retries + 1)
  /\ slept \in Nat

\* spec.md 4.2: field extraction returns the field's value or fails the
\* scenario.  Checks that what get_resource_info_by_* returns is never the
\* client's error text, whatever the query form.
ReturnsFieldValue == pc = "returned" => output \in Values

\* A query that fails MaxTries times and no more; with wait, the first
\* run and 5 retries (spec.md 4.2, 8).
MaxTries == IF Wait THEN Retries + 1 ELSE 1

\* get_resource_info_by_* implements a bounded poll: it returns at the
\* first successful query, fails the scenario only after MaxTries failed
\* queries, and always finishes.
BP == INSTANCE BoundedPoll WITH
        MaxAttempts <- MaxTries,
        EnvValues <- FieldValues,
        Observable <- QueryOutcomes,
        Hit <- LAMBDA o : o.code = 0,
        Escalates <- LAMBDA o : FALSE,
        env <- field,
        last <- IF output = None THEN None ELSE Result(output, exit_code),
        observed <- runs,
        outcome <- CASE pc = "fatal"                -> "gave_up"
                     [] runs > 0 /\ exit_code = 0   -> "found"
                     [] OTHER                       -> "polling"

ImplementsBoundedPoll == BP!Spec
=============================================================================
