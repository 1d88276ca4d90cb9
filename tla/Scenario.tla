------------------------------ MODULE Scenario ------------------------------
(***************************************************************************)
(* The install scenario of smoke/features: loading the step module (its  *)
(* Openshift() builds a Command), environment.before_scenario, and      *)
(* the steps of install_steps.py in the order they are defined: check     *)
(* the cluster, use the project, apply the Tekton release, check the two   *)
(* Tekton deployments, apply the Shipwright release, then the steps that   *)
(* raise NotImplementedError.  The project step is Project's, composed by *)
(* INSTANCE.  The cluster runs the deployments' controllers concurrently, *)
(* other clients create and delete namespaces, and the API may be         *)
(* unreachable at any time.                                                *)
(***************************************************************************)
EXTENDS Integers, Sequences

CONSTANTS
  Controller,   \* the deployment tekton-pipelines-controller
  Webhook,      \* the deployment tekton-pipelines-webhook
  Projects,     \* project names the feature files use
  None

VARIABLES
  reachable,    \* cluster: the API server answers
  tekton,       \* cluster: "absent", "partial" or "applied" (the Tekton release)
  deps,         \* cluster: [Deployments -> DepStates]
  shipwright,   \* cluster: "absent", "partial" or "applied" (the Shipwright release)
  step,         \* the running step, or "failed"
  checked,      \* [Deployments -> the state check_tekton_deployments read]
  outputs,      \* [Deployments -> its output: tp_controller_status, ...]
  ns, current, pc, target, used,  \* Project's
  kubeconfig,   \* process: KUBECONFIG is set
  pathvar,      \* process: PATH is set
  env           \* Command.env: the variables set in it (a class attribute)

cfgvars == <<kubeconfig, pathvar, env>>
svars == <<reachable, tekton, deps, shipwright, step, checked, outputs, cfgvars>>
pvars == <<ns, current, pc, target, used>>
vars == <<svars, pvars>>

P == INSTANCE Project

Deployments == {Controller, Webhook}

DepStates == {"unreported", "unavailable", "ready"}

Releases == {"absent", "partial", "applied"}

\* Fault: the field printed whether or not it is set, for mutation
\* checking.
UnavailableOutputRaw(s) == s

\* oc get deployment d -o jsonpath={.status.unavailableReplicas}: the
\* field is omitted until the controller reports and again when all
\* replicas are available, and jsonpath prints nothing for it.
UnavailableOutput(s) == IF s = "unavailable" THEN "1" ELSE ""

\* The steps of the scenario.  behave takes their order from a .feature
\* file, which the repository does not hold; this is the order in which
\* install_steps.py defines them, which their phrases follow.
StepOrder ==
  <<"load_steps", "before_scenario", "project", "login_cluster",
    "install_tekton", "check_controller", "check_webhook",
    "install_shipwright", "unimplemented">>

\* The step after s; a step of check_tekton_deployments per query.
NextStep(s) ==
  LET i == CHOOSE i \in 1..Len(StepOrder) - 1 : StepOrder[i] = s
  IN  StepOrder[i + 1]

Init ==
  /\ reachable \in BOOLEAN
  /\ tekton = "absent"
  /\ deps = [d \in Deployments |-> "unreported"]
  /\ shipwright = "absent"
  /\ step = "load_steps"
  /\ kubeconfig \in BOOLEAN
  /\ pathvar \in BOOLEAN
  /\ env = {}
  /\ checked = [d \in Deployments |-> "none"]
  /\ outputs = [d \in Deployments |-> "none"]
  /\ P!Init

Fail == step' = "failed"

RequiredEnv == {"KUBECONFIG", "PATH"}

\* Command(): assert KUBECONFIG is set, setenv it, assert PATH is set,
\* setenv it (setenv asserts the value is not None).  env is a dict of
\* the class, so every instance writes the same one.  The variables set
\* when the constructor returns or raises:
CommandEnv == {v \in RequiredEnv : kubeconfig /\ (v = "PATH" => pathvar)}

\* Fault: PATH made optional (set only when present), for mutation
\* checking.
CommandConstructsPathOptional == kubeconfig

\* The constructor returns: neither assert fails.
CommandConstructs == kubeconfig /\ pathvar

\* Importing install_steps: config.load_kube_config() (which raises when
\* no kubeconfig can be read), then oc = Openshift(), whose Command()
\* raises on a missing variable; behave stops before any scenario.
LoadSteps ==
  /\ step = "load_steps"
  /\ \E loaded \in BOOLEAN :
       /\ env' = IF loaded THEN CommandEnv ELSE env
       /\ IF loaded /\ CommandConstructs THEN step' = NextStep(step) ELSE Fail
  /\ UNCHANGED <<reachable, tekton, deps, shipwright, checked, outputs,
                 kubeconfig, pathvar, pvars>>

\* before_scenario: oc get project default must exit 0.
BeforeScenario ==
  /\ step = "before_scenario"
  /\ IF reachable THEN step' = NextStep(step) ELSE Fail
  /\ UNCHANGED <<reachable, tekton, deps, shipwright, checked, outputs, pvars, cfgvars>>

\* The step function returns when Project's step is back to idle, and
\* raises when it failed.
Advance ==
  step' = CASE pc' = "idle"   -> NextStep(step)
            [] pc' = "failed" -> "failed"
            [] OTHER          -> step

\* An oc call of Project against the cluster: Command.run returns the exit
\* code of oc instead of raising, so while the API server is unreachable
\* the call still returns, as a failure (is_present reads the namespace
\* absent, new-project and project print an error).
CallOutcome == reachable \/ pc' \in {"create", "failed"}

\* 'Project "<name>" is used' or 'Project [<VAR>] is used', then each oc
\* call of Project; while the API server is unreachable every call fails
\* (is_present reads absent, new-project prints an error).
GivenProject ==
  /\ step = "project"
  /\ \/ pc = "idle" /\ used = None /\ \E p \in Projects : P!UseProject(p)
     \/ pc = "idle" /\ used = None /\ \E v \in Projects \cup {None} : P!UseProjectFromEnv(v)
     \/ P!Step /\ CallOutcome
  /\ Advance
  /\ UNCHANGED <<reachable, tekton, deps, shipwright, checked, outputs, cfgvars>>

\* "we have a openshift cluster" (loginCluster): prints the module-level
\* current_project, which no step assigns, and returns.
LoginCluster ==
  /\ step = "login_cluster"
  /\ step' = NextStep(step)
  /\ UNCHANGED <<reachable, tekton, deps, shipwright, checked, outputs, pvars, cfgvars>>

\* oc apply -f <release>: on exit 0 every object exists; a failure may
\* come after some objects were created.  oc_apply returns None on a
\* non-zero exit and the step raises AssertionError.
Applied == {"applied"}
Partial(rel) == {rel, "partial", "applied"}

InstallTekton ==
  /\ step = "install_tekton"
  /\ \E ok \in {reachable, FALSE} :
       /\ tekton' \in IF ok THEN Applied ELSE Partial(tekton)
       /\ IF ok THEN step' = NextStep(step) ELSE Fail
  /\ UNCHANGED <<reachable, deps, shipwright, checked, outputs, pvars, cfgvars>>

\* get_resource_info_by_jsonpath(deployment, d, tekton-pipelines,
\* {.status.unavailableReplicas}) without wait: one query, whose non-zero
\* exit fails the scenario.
Query(d) ==
  /\ IF reachable /\ tekton = "applied"
       THEN /\ checked' = [checked EXCEPT ![d] = deps[d]]
            /\ outputs' = [outputs EXCEPT ![d] = UnavailableOutput(deps[d])]
            /\ step' = NextStep(step)
       ELSE Fail /\ UNCHANGED <<checked, outputs>>
  /\ UNCHANGED <<reachable, tekton, deps, shipwright, pvars, cfgvars>>

CheckController == step = "check_controller" /\ Query(Controller)

\* The second query, then "if tp_controller_status is not 0 or
\* tp_webhook_status is not 0": both branches only print (the raise is
\* commented out), so the step passes whatever the outputs read.
CheckWebhook == step = "check_webhook" /\ Query(Webhook)

InstallShipwright ==
  /\ step = "install_shipwright"
  /\ \E ok \in {reachable, FALSE} :
       /\ shipwright' \in IF ok THEN Applied ELSE Partial(shipwright)
       /\ IF ok THEN step' = NextStep(step) ELSE Fail
  /\ UNCHANGED <<reachable, tekton, deps, checked, outputs, pvars, cfgvars>>

\* 'namespace/shipwright-build should created' and every later step
\* raise NotImplementedError.
Unimplemented ==
  /\ step = "unimplemented"
  /\ Fail
  /\ UNCHANGED <<reachable, tekton, deps, shipwright, checked, outputs, pvars, cfgvars>>

\* The API server goes away or comes back.
Reach ==
  /\ reachable' = ~reachable
  /\ UNCHANGED <<tekton, deps, shipwright, step, checked, outputs, pvars, cfgvars>>

\* The deployment controller reports, replicas become available, or a
\* pod is lost.
Reconcile(d) ==
  /\ tekton = "applied"
  /\ \E s \in DepStates \ {deps[d], "unreported"} : deps' = [deps EXCEPT ![d] = s]
  /\ UNCHANGED <<reachable, tekton, shipwright, step, checked, outputs, pvars, cfgvars>>

Steps ==
  \/ LoadSteps \/ BeforeScenario \/ LoginCluster \/ InstallTekton \/ CheckController
  \/ CheckWebhook \/ InstallShipwright \/ Unimplemented

\* Other clients create and delete namespaces (Project's cluster).
Namespaces ==
  /\ \E p \in Projects : P!ClusterCreate(p) \/ P!ClusterDelete(p) \/ P!ClusterFinalize(p)
  /\ UNCHANGED svars

Next ==
  \/ Steps \/ GivenProject \/ Reach \/ \E d \in Deployments : Reconcile(d)
  \/ Namespaces

\* behave runs the steps one after another on one thread.
Spec == Init /\ [][Next]_vars /\ WF_vars(Steps \/ GivenProject)

-----------------------------------------------------------------------------
TypeOK ==
  /\ reachable \in BOOLEAN
  /\ tekton \in Releases /\ shipwright \in Releases
  /\ deps \in [Deployments -> DepStates]
  /\ step \in {StepOrder[i] : i \in 1..Len(StepOrder)} \cup {"failed"}
  /\ checked \in [Deployments -> DepStates \cup {"none"}]
  /\ outputs \in [Deployments -> {"", "1", "none"}]
  /\ kubeconfig \in BOOLEAN /\ pathvar \in BOOLEAN
  /\ env \subseteq RequiredEnv
  /\ P!TypeOK

\* spec.md 4.1, 8: a Command lacking a required variable fails at construction,
\* before any command runs.  No step of the scenario starts (the first is
\* before_scenario, whose oc call goes through subprocess, and every
\* later oc call goes through Command.run) unless the import of the step
\* module left both KUBECONFIG and PATH in Command.env.
ConfiguredBeforeCommands ==
  step \notin {"load_steps", "failed"} => env = RequiredEnv

\* The project step, as the scenario runs it (only at its turn, with the
\* API server flapping), implements UseProject: see Project.
ImplementsUseProject == P!ImplementsUseProject

\* The step "check if tekton-pipelines-controller & tekton-pipelines-
\* webhook deployment are in READY state" lets the scenario go on only if
\* both deployments were ready when it read them.
TektonCheckMeansReady ==
  step \in {"install_shipwright", "unimplemented"}
    => \A d \in Deployments : checked[d] = "ready"
=============================================================================
