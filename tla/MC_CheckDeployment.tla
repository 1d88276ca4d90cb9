------------------------- MODULE MC_CheckDeployment -------------------------
(* The statuses of a deployment's two conditions (Available, Progressing), *)
(* as the tokens of "{.status.conditions[*].status}".                      *)
EXTENDS CheckDeployment

MC_Values == {{"True"}, {"True", "False"}, {"False"}}
MC_ErrorOutput == {"Error", "NotFound"}
=============================================================================
