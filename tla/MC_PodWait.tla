---------------------------- MODULE MC_PodWait ----------------------------
(* wait_for_pod("build-1", ns): the pattern matches the build pod and its *)
(* deployer pod, not the webhook pod.                                     *)
EXTENDS PodWait

MC_PodNames == {"build-1-abcde", "build-1-deploy", "webhook-1"}
MC_ApiOrder == <<"build-1-abcde", "build-1-deploy", "webhook-1">>
MC_Matching == {"build-1-abcde", "build-1-deploy"}
MC_ErrorOutput == {"Error", "NotFound"}
=============================================================================
