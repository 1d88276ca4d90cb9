--------------------------- MODULE CheckDeployment ---------------------------
(***************************************************************************)
(* Openshift.check_for_deployment_status (smoke/features/steps/           *)
(* openshift.py): poll the statuses of a deployment's conditions with      *)
(* run_wait_for_status(cmd, "True", 5, 300), unpack the result into        *)
(* (deployment_status, exit_code), assert exit_code is 0, return the       *)
(* status.  Composes the poll of PollStatus with its caller.               *)
(***************************************************************************)
EXTENDS PollStatus, Sequences

VARIABLE
  result        \* the caller: None while polling, then "returned" or the
                \* exception it raised

dvars == <<vars, result>>

\* The value run_wait_for_status returns: (found, cmd_output, exit_code).
PollReturn == <<found, cmd_output, exit_code>>

\* a, b = t: unpacking needs exactly two items, else ValueError.
Unpack2(t) == IF Len(t) = 2 THEN "ok" ELSE "ValueError"

DInit == Init /\ result = None

\* The call returns to check_for_deployment_status, which unpacks it and
\* asserts on the exit code.
Return ==
  /\ pc = "done"
  /\ result = None
  /\ result' = CASE Unpack2(PollReturn) # "ok" -> Unpack2(PollReturn)
                 [] PollReturn[3] # 0           -> "AssertionError"
                 [] OTHER                       -> "returned"
  /\ UNCHANGED vars

DNext == (Poll /\ UNCHANGED result) \/ Return \/ (ClusterChange /\ UNCHANGED result)

DSpec == DInit /\ [][DNext]_dvars /\ WF_dvars(Poll \/ Return)

-----------------------------------------------------------------------------
\* spec.md 4.2: status polling "returns whether the target was observed
\* within the timeout".  Checks the call site's handling of the value
\* run_wait_for_status returns, once the deployment is Available.
StatusPollingReturns ==
  result # None /\ found => result = "returned"

=============================================================================
