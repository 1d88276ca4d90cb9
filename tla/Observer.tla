------------------------------ MODULE Observer ------------------------------
(***************************************************************************)
(* The single-command operations of Openshift (smoke/features/steps/      *)
(* openshift.py) and run_wait_for (command.py).  Each runs one command     *)
(* (getmasterpod: one Kubernetes API call) and turns its exit code into   *)
(* what the caller sees, by one of the code's policies: assert exit 0,    *)
(* return None, return a boolean, or match the output.  The caller is a   *)
(* test script that may invoke any operation in any order; the cluster    *)
(* (API server, named resources, deployment configs, the jenkins pods)    *)
(* changes between calls.  A returned value is abstracted to "value".     *)
(***************************************************************************)
EXTENDS Naturals, FiniteSets

CONSTANTS
  Names,     \* resource names the caller passes (apps, routes, pods, ...)
  DCs,       \* deployment configs of the namespace, "jenkins" among them
  Ops,       \* the operations the caller may invoke
  MaxPods,   \* bound on replicas and on pods labelled deploymentconfig=jenkins
  None

ASSUME "jenkins" \in DCs /\ MaxPods \in Nat

VARIABLES
  up,         \* the API server answers
  present,    \* the named resources that exist
  available,  \* deployment configs whose condition Available is True
  replicas,   \* desired replicas of the jenkins replication controller
  pods,       \* pods labelled deploymentconfig=jenkins
  last        \* the last call: op, arg, ok (exit code 0), ret (what it returned)

vars == <<up, present, available, replicas, pods, last>>

Exceptions == {"AssertionError", "IndexError", "ApiException"}
Rets == {"value", "None", "True", "False", "tuple"} \cup Exceptions

-----------------------------------------------------------------------------
(* The cluster client: which requests exit 0.                              *)

\* oc new-app, oc create, oc process | oc create and oc expose refuse a
\* name that exists (AlreadyExists); oc apply does not.
Creates == {"new_app", "new_app_with_params", "new_app_from_file",
            "oc_create_from_yaml", "oc_process_template", "expose_service_route"}

\* Listings of a whole namespace need nothing but the API server.
Listings == {"get_configmap", "get_deploymentconfig", "get_service",
             "get_service_account", "get_role_binding", "is_resource_in"}

Succeeds(op, n) ==
  /\ up
  /\ op \in Creates => n \notin present
  /\ op \notin Creates \cup Listings \cup {"oc_apply"} => n \in present

\* The named resources after a successful op.
Effect(op, n) ==
  CASE op \in Creates \cup {"oc_apply"} -> present \cup {n}
    [] op = "delete"                     -> present \ {n}
    [] OTHER                             -> present

-----------------------------------------------------------------------------
(* The harness.                                                            *)

\* output, exit_code = self.cmd.run(cmd), then ret[exit_code == 0].
SingleCall(ops, ret) ==
  \E op \in ops \cap Ops, n \in Names :
    LET ok == Succeeds(op, n) IN
    /\ last' = [op |-> op, arg |-> n, ok |-> ok, ret |-> ret[ok]]
    /\ present' = IF ok THEN Effect(op, n) ELSE present
    /\ UNCHANGED <<up, available, replicas, pods>>

\* exit_code | should.be_equal_to(0); return output
AssertZero == [ok \in BOOLEAN |-> IF ok THEN "value" ELSE "AssertionError"]

\* if exit_status == 0: return output; return None
ZeroOrNone == [ok \in BOOLEAN |-> IF ok THEN "value" ELSE "None"]

\* is_resource_in: return exit_code == 0
IsResourceIn == SingleCall({"is_resource_in"}, [ok \in BOOLEAN |-> IF ok THEN "True" ELSE "False"])

\* get_pod_status: output on exit 0, else None.
GetPodStatus == SingleCall({"get_pod_status"}, ZeroOrNone)

StartOps == {"new_app", "oc_apply", "oc_create_from_yaml", "new_app_with_params",
             "new_app_from_file", "start_build"}

\* new_app, oc_apply, oc_create_from_yaml, new_app_with_params,
\* new_app_from_file, start_build.
Starts == SingleCall(StartOps, ZeroOrNone)

GetterOps == {"get_configmap", "get_deploymentconfig", "get_service",
              "get_service_account", "get_role_binding", "get_route"}

GettersNoAssert == SingleCall(GetterOps, [ok \in BOOLEAN |-> "value"])

\* get_configmap, get_deploymentconfig, get_service, get_service_account,
\* get_role_binding, get_route.
Getters == SingleCall(GetterOps, AssertZero)

\* expose_service_route: re.search(r'.*<name>\sexposed', output) whatever
\* the exit code; oc prints "<kind>/<name> exposed" exactly when it
\* succeeds, and its error text never holds the phrase.
ExposeServiceRoute == SingleCall({"expose_service_route"}, ZeroOrNone)

\* get_route_host
GetRouteHost == SingleCall({"get_route_host"}, AssertZero)

\* run_wait_for(kind, name, condition, 300): one blocking
\* "oc wait --for=condition=Available --timeout=300s dc <name>", which
\* exits 0 once the named deployment config is Available.
RunWaitFor(kind, name) == up /\ name \in available

\* check_for_deployment_config_status(dc_name, ...) waits on dc "jenkins"
\* and returns (output, exit_code) without raising.
CheckForDeploymentConfigStatus ==
  /\ "check_for_deployment_config_status" \in Ops
  /\ \E dc \in DCs :
       last' = [op |-> "check_for_deployment_config_status", arg |-> dc,
                ok |-> RunWaitFor("dc", "jenkins"), ret |-> "tuple"]
  /\ UNCHANGED <<up, present, available, replicas, pods>>

\* set_env_for_deployment_config: oc set env dc/<name>, assert exit 0,
\* sleep 3 s.  The new environment starts a rollout of the dc, which is
\* then not Available until the controller finishes it.
SetEnvForDeploymentConfig ==
  /\ "set_env_for_deployment_config" \in Ops
  /\ \E dc \in DCs :
       /\ last' = [op |-> "set_env_for_deployment_config", arg |-> dc,
                   ok |-> up, ret |-> IF up THEN "tuple" ELSE "AssertionError"]
       /\ available' = IF up THEN available \ {dc} ELSE available
  /\ UNCHANGED <<up, present, replicas, pods>>

\* get_deployment_env_info, get_deployment_envFrom_info
EnvInfo == SingleCall({"get_deployment_env_info", "get_deployment_envFrom_info"}, AssertZero)

\* exec_container_in_pod, exec_in_pod, oc_process_template, delete
ExecOrDelete ==
  SingleCall({"exec_container_in_pod", "exec_in_pod", "oc_process_template", "delete"},
             ZeroOrNone)

\* getmasterpod: list the pods labelled deploymentconfig=jenkins; raise
\* AssertionError if more than one, return items[0].metadata.name
\* (IndexError when there is none).  name is what it returns.
MasterPod(name) ==
  /\ "getmasterpod" \in Ops
  /\ last' = [op |-> "getmasterpod", arg |-> None, ok |-> up,
              ret |-> CASE ~up      -> "ApiException"
                        [] pods > 1 -> "AssertionError"
                        [] pods = 0 -> "IndexError"
                        [] OTHER    -> name]
  /\ UNCHANGED <<up, present, available, replicas, pods>>

GetMasterPodObject == MasterPod("V1Pod")

GetMasterPod == MasterPod("value")

\* scaleReplicas: oc scale --replicas=<r> rc/<rc>; output on exit 0, else None.
ScaleReplicas ==
  /\ "scaleReplicas" \in Ops
  /\ \E r \in 0..MaxPods :
       /\ last' = [op |-> "scaleReplicas", arg |-> None, ok |-> up,
                   ret |-> ZeroOrNone[up]]
       /\ replicas' = IF up THEN r ELSE replicas
  /\ UNCHANGED <<up, present, available, pods>>

-----------------------------------------------------------------------------
(* The cluster between calls.                                              *)

Flap == up' = ~up /\ UNCHANGED <<present, available, replicas, pods, last>>

\* The replication controller moves the jenkins pods one at a time towards
\* the desired count; while jenkins is rolling out, the old and the new
\* pods come and go in any number up to MaxPods.
PodChange ==
  /\ \/ pods' \in {pods - 1, pods + 1} \cap 0..MaxPods /\ "jenkins" \notin available
     \/ pods < replicas /\ pods' = pods + 1
     \/ pods > replicas /\ pods' = pods - 1
  /\ UNCHANGED <<up, present, available, replicas, last>>

\* A rollout finishes: the dc is Available again (for jenkins, with the
\* desired number of pods).
RolloutDone ==
  /\ \E dc \in DCs \ available :
       /\ available' = available \cup {dc}
       /\ dc = "jenkins" => pods = replicas
  /\ UNCHANGED <<up, present, replicas, pods, last>>

Init ==
  /\ up \in BOOLEAN
  /\ present \in SUBSET Names
  /\ available \in SUBSET DCs
  /\ replicas \in 0..MaxPods
  /\ pods = replicas
  /\ last = [op |-> None, arg |-> None, ok |-> TRUE, ret |-> "None"]

Call ==
  \/ IsResourceIn \/ GetPodStatus \/ Starts \/ Getters \/ ExposeServiceRoute
  \/ GetRouteHost \/ CheckForDeploymentConfigStatus \/ SetEnvForDeploymentConfig
  \/ EnvInfo \/ ExecOrDelete \/ GetMasterPod \/ ScaleReplicas

Next == Call \/ Flap \/ PodChange \/ RolloutDone

Spec == Init /\ [][Next]_vars

-----------------------------------------------------------------------------
(* Properties                                                              *)

\* Every call returns a value (getmasterpod: the name of a pod, as its
\* "-> str" annotation says), None, a boolean or a tuple, or raises.
TypeOK ==
  /\ up \in BOOLEAN /\ present \subseteq Names /\ available \subseteq DCs
  /\ replicas \in 0..MaxPods /\ pods \in 0..MaxPods
  /\ last \in [op : Ops \cup {None}, arg : Names \cup DCs \cup {None},
              ok : BOOLEAN, ret : Rets]

\* The categories of spec.md 4.2 and 7.
ReadQueries == GetterOps \cup {"get_route_host", "get_deployment_env_info",
                  "get_deployment_envFrom_info", "get_pod_status", "is_resource_in"}
MutatingOps == StartOps \cup {"exec_container_in_pod", "exec_in_pod", "oc_process_template",
                  "delete", "scaleReplicas", "expose_service_route",
                  "set_env_for_deployment_config"}

\* The operations whose policy is not their category's: is_resource_in
\* returns False and get_pod_status None on failure; set_env_for_
\* deployment_config, a mutating command, asserts (see the hazards).
PolicyExempt == {"is_resource_in", "get_pod_status", "set_env_for_deployment_config"}

\* spec.md 7: a read-only status or listing query raises exactly when its
\* command fails; a mutating command returns None exactly when it fails
\* and never raises.  About the return policy of every single-command
\* operation of Openshift in ReadQueries or MutatingOps but the three of
\* PolicyExempt; getmasterpod and check_for_deployment_config_status are
\* in neither category and have properties of their own.
FollowsErrorPolicy ==
  last.op \notin PolicyExempt =>
    /\ last.op \in ReadQueries => (last.ret \in Exceptions <=> ~last.ok)
    /\ last.op \in MutatingOps => (last.ret = "None" <=> ~last.ok) /\ last.ret \notin Exceptions

\* The docstring of getmasterpod: it returns the jenkins master pod's name,
\* failing only by its own AssertionError when the label selects several
\* pods.
MasterPodFailsOnlyByAssertion ==
  last.op = "getmasterpod" => last.ret # "IndexError"

\* check_for_deployment_config_status(dc_name, ...) reports exit 0 only
\* when the deployment config it is asked about is Available.
WaitsOnNamedDc ==
  last.op = "check_for_deployment_config_status" /\ last.ok => last.arg \in available
=============================================================================
