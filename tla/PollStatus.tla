----------------------------- MODULE PollStatus -----------------------------
(***************************************************************************)
(* Command.run_wait_for_status (smoke/features/steps/command.py): run a    *)
(* cluster query, return at once if the status substring is in its output, *)
(* otherwise sleep interval seconds and repeat while                       *)
(* start + interval <= timeout.  The queried field of the cluster changes  *)
(* concurrently with the loop.                                             *)
(***************************************************************************)
EXTENDS Integers, OcQuery

CONSTANTS
  Interval,     \* the interval argument, in seconds
  Timeout,      \* the timeout argument, in seconds
  Status,       \* the status argument: the token waited for
  Values,       \* values the queried field can read (token sets)
  MaxRunSecs,   \* bound on the seconds one blocking oc invocation takes
  None          \* Python None

ASSUME Interval \in Nat \ {0} /\ Timeout \in Nat /\ MaxRunSecs \in Nat

VARIABLES
  field,        \* cluster: current value of the queried field, or Absent
  pc,           \* "loop" (at the while test), "sleep", "done"
  start,        \* local start: the sleeps counted so far
  cmd_output,   \* local cmd_output
  exit_code,    \* local exit_code
  found,        \* the returned success flag
  attempts,     \* history: calls of run so far
  now           \* history: real seconds since the call began

vars == <<field, pc, start, cmd_output, exit_code, found, attempts, now>>

FieldValues == Values \cup {Absent}

\* Fault: exit_code initialised like cmd_output, for mutation checking.
NoExitCodeNone == None

\* exit_code = -1 before the first run.
NoExitCode == -1

Init ==
  /\ field \in FieldValues
  /\ pc = "loop"
  /\ start = 0
  /\ cmd_output = None
  /\ exit_code = NoExitCode
  /\ found = FALSE
  /\ attempts = 0
  /\ now = 0

\* Fault of the while test, for mutation checking.
LoopGuardStrict == start + Interval < Timeout

\* while ((start + interval) <= timeout)
LoopGuard == start + Interval <= Timeout

\* if status in cmd_output  (substring test on the decoded output)
StatusIn(out) == Status \in out

\* The while test holds: run the command (blocking for d seconds) and
\* return if the status is in its output.
Attempt ==
  /\ pc = "loop"
  /\ LoopGuard
  /\ \E r \in QueryResults(field), d \in 0..MaxRunSecs :
       /\ cmd_output' = r.out
       /\ exit_code' = r.code
       /\ now' = now + d
       /\ IF StatusIn(r.out)
            THEN pc' = "done" /\ found' = TRUE
            ELSE pc' = "sleep" /\ found' = FALSE
  /\ attempts' = attempts + 1
  /\ UNCHANGED <<field, start>>

\* time.sleep(interval); start += interval
Sleep ==
  /\ pc = "sleep"
  /\ pc' = "loop"
  /\ start' = start + Interval
  /\ now' = now + Interval
  /\ UNCHANGED <<field, cmd_output, exit_code, found, attempts>>

\* The while test fails: return False with the last output and code.
GiveUp ==
  /\ pc = "loop"
  /\ ~LoopGuard
  /\ pc' = "done"
  /\ found' = FALSE
  /\ UNCHANGED <<field, start, cmd_output, exit_code, attempts, now>>

\* The cluster moves the field to another value (or deletes the resource).
ClusterChange ==
  /\ field' \in FieldValues \ {field}
  /\ UNCHANGED <<pc, start, cmd_output, exit_code, found, attempts, now>>

Poll == Attempt \/ Sleep \/ GiveUp

Next == Poll \/ ClusterChange

\* The loop runs on the scenario's only thread and blocks nowhere but in
\* run and sleep, both of which return: weak fairness of the poller.  The
\* cluster is not obliged to change.
Spec == Init /\ [][Next]_vars /\ WF_vars(Poll)

-----------------------------------------------------------------------------
TypeOK ==
  /\ field \in FieldValues
  /\ pc \in {"loop", "sleep", "done"}
  /\ start \in 0..Timeout
  /\ cmd_output \in Values \cup {ErrorOutput, None}
  /\ exit_code \in {-1, 0, FailCode}
  /\ found \in BOOLEAN
  /\ attempts \in Nat
  /\ now \in Nat

\* spec.md 4.1: "the total elapsed time never exceeds timeout by more than
\* one interval duration".  Checks the time accounting of the loop, which
\* adds only the sleeps to start while every run also blocks.
ElapsedWithinTimeout == pc = "done" => now <= Timeout + Interval

\* The number of attempts spec.md 8 promises: floor(timeout / interval),
\* at least 1.
SpecAttempts == IF Timeout \div Interval = 0 THEN 1 ELSE Timeout \div Interval

\* run_wait_for_status implements a bounded poll: it returns True exactly at
\* the first run whose output holds the status, and returns False only after
\* SpecAttempts runs that all missed; it always returns.
BP == INSTANCE BoundedPoll WITH
        MaxAttempts <- SpecAttempts,
        EnvValues <- FieldValues,
        Observable <- QueryResults,
        Hit <- LAMBDA o : StatusIn(o.out),
        Escalates <- LAMBDA o : FALSE,
        env <- field,
        last <- IF cmd_output = None THEN None ELSE Result(cmd_output, exit_code),
        observed <- attempts,
        outcome <- CASE pc # "done" -> "polling"
                     [] found       -> "found"
                     [] OTHER       -> "gave_up"

ImplementsBoundedPoll == BP!Spec
=============================================================================
