--------------------------- MODULE MC_PollStatus ---------------------------
(* Model of Openshift.check_pod_status: the pod phase polled for Running. *)
EXTENDS PollStatus

MC_Values == {{"Pending"}, {"Running"}, {"Succeeded"}, {"Failed"}}
MC_ErrorOutput == {"Error", "NotFound"}
=============================================================================
