------------------------------ MODULE OcQuery ------------------------------
(***************************************************************************)
(* The external cluster client as the harness sees it through             *)
(* Command.run: one invocation returns the decoded combined output and the *)
(* exit code, and never raises.  An output is abstracted to the set of its *)
(* whitespace-separated tokens, so that the substring test "s in output"   *)
(* of the code becomes s \in tokens (the token vocabularies of the MC      *)
(* modules are chosen so that no token contains another).                  *)
(***************************************************************************)
EXTENDS Naturals

CONSTANTS
  Absent,        \* the queried resource does not exist
  ErrorOutput,   \* tokens of the client's error text (e.g. NotFound)
  FailCode       \* a non-zero exit status

\* One result of Command.run: decoded output and exit code.
Result(out, code) == [out |-> out, code |-> code]

Failed == Result(ErrorOutput, FailCode)

\* The results a field query (oc get <kind> <name> -o jsonpath=...) may
\* return when the field currently reads value: the value with exit 0, or
\* a transient failure of the control plane; an absent resource always fails.
QueryResults(value) ==
  IF value = Absent THEN {Failed}
                    ELSE {Result(value, 0), Failed}
=============================================================================
