# TLA+ models of the Shipwright smoke-test harness

The repository's Python code under `src/smoke/features` is a behave (BDD)
acceptance-test harness. It drives the `oc` cluster client to install Tekton
and Shipwright, then checks that the install came up. None of it is
concurrent by itself. Its hard parts come from the cluster, which changes
asynchronously while the harness polls it, fails transiently, and keeps state
(namespaces, the client's current project, half-applied releases) across
steps. The modules below model the harness's control flow faithfully and model
the cluster as a nondeterministic environment.

## 1. Inventory

| Component | Source | State it keeps | Operations |
|---|---|---|---|
| Process Runner (`Command`) | `steps/command.py` | `path`, `env` (a class-level dict shared by all instances) | `__init__` (checks that KUBECONFIG and PATH are set), `setenv`, `run` (blocking subprocess; never raises; returns decoded output and exit code), `run_wait_for_status` (fixed-interval poll), `run_wait_for` (one blocking `oc wait`) |
| Resource Observer (`Openshift`) | `steps/openshift.py` | none (one `Command`) | listing with assertion (`get_resource_lst`, `get_configmap`, ...); `search_item_in_lst`, `search_resource_in_namespace`, `wait_for_pod` (poll with a search); `check_pod_status`, `check_for_deployment_status` (use `run_wait_for_status`); `get_resource_info_by_jsonpath/jq` (optional 5 retries, then assert); mutating commands that return `None` on failure (`oc_apply`, `oc_create_from_yaml`, `new_app*`, `start_build`, `exec*`, `delete`, `scaleReplicas`, ...); `getmasterpod` (Kubernetes Python client) |
| Project | `steps/project.py` | `name` | `is_present` (`oc get ns`), `create` (`oc new-project`, which falls back to `switch_to` on "already exists"), `switch_to` (`oc project`) |
| Install steps | `steps/install_steps.py` | module-level `current_project` (never updated: the step assigns a local), `oc` | project steps; `install_tekton`, `check_tekton_deployments`, `shp_deployment_install`; eleven steps that raise `NotImplementedError` |
| Scenario hooks | `environment.py` | none | `before_scenario`: `oc get project default` must exit 0 |
| Cluster and `oc` (external) | none | namespaces and their phase, the client's current project (in the kubeconfig), resource fields, pods, applied releases, API reachability | answers the harness's commands |

**How they interact.** Steps call `Openshift` and `Project`. Both build
command strings and call `Command.run` or `run_wait_for_status`, which spawn
`oc` synchronously. All interaction with the cluster goes through command
output text and exit codes. The harness's only concurrency is with the
cluster: controllers reconcile deployments, pods appear and disappear,
namespaces are created and deleted by other clients and stay Terminating for a
while, the API server may be unreachable, and `oc apply` can fail part-way.

**Hard behaviours.**
- Polling against a changing system: the loop test, the time accounting, the
  sleep placement, and the first attempt.
- Retries bounded by a count.
- Three different error policies: assert, return `None`, or retry then assert.
- Exit codes lost in a shell pipeline.
- A check-then-act race between `is_present` and `new-project`.
- Shared client state (the current project).
- Ambiguous outputs, such as an empty jsonpath field.

**What makes each component correct.**
- Process Runner: a poll returns True exactly at the first run whose output
  holds the status. It returns False only after floor(timeout/interval) runs
  and at least one, it always returns, and it overruns the timeout by at most
  one interval (spec.md 4.1, 8).
- Observer: the failure policy of each command is the one of its
  category. Field extraction never returns error text as a value; it
  retries up to 5 times and then fails. `wait_for_pod` finds a pod at the
  first listing that holds a match, aborts at a failed listing and
  otherwise gives up after 1 + timeout/interval listings. Status checks
  return.
- Project: the step succeeds only on a project that exists and leaves the
  client on it.
- Install steps: no step runs before the configuration is checked, and a
  readiness check passes only when the deployments are ready.

The hazards these properties aim at are listed, each at its line, under
`hazards` in `PROJECT.json`.

## 2. Modules

| Module | Models | State (VARIABLES) and actions |
|---|---|---|
| `BoundedPoll` | The abstract promise of every poll of the harness (spec.md 4.1, 4.2, 7) | `env`, `last`, `observed`, `outcome`. `Observe` stops at a hit (found) or at an escalated observation (aborted); `GiveUp` comes only after `MaxAttempts` misses; `EnvChange` changes the environment. Weak fairness on the poller. |
| `OcQuery` | `Command.run` as seen by a field query | Operators only. An output is the set of its tokens, so `s in output` becomes `s \in tokens`. |
| `PollStatus` | `Command.run_wait_for_status` | `field` (cluster); the locals `start`, `cmd_output`, `exit_code`; `found`; the history variables `attempts` and `now`. `Attempt` is the loop test holding, `run` and the status test; then `Sleep` and `GiveUp`; `ClusterChange` moves the field. Refines `BoundedPoll` (`ImplementsBoundedPoll`). |
| `CheckDeployment` | `Openshift.check_for_deployment_status` (EXTENDS `PollStatus`) | Adds `result`. `Return` is the unpacking at the call site. |
| `FieldRetry` | `get_resource_info_by_jsonpath` and `_by_jq` (constant `Via`) | `field`; `output`, `exit_code`, `attempts`; history variables `runs` and `slept`. Actions `FirstRun`, `RetryRun`, `Sleep`, `Assert` and `ClusterChange`. For the jq form, `QueryOutcomes` models the pipeline's exit code. Refines `BoundedPoll`. |
| `PodWait` | `wait_for_pod`, `search_pod_in_namespace`, `search_resource_in_namespace`, `get_resource_lst`, `search_item_in_lst` | `pods` (cluster), `start`, `pod`, `listing`, `searches`. `FirstSearch`, `LoopSearch`, `Sleep`, `GiveUp`, `ClusterChange`. `SearchItemInLst` is RECURSIVE. Refines `BoundedPoll`, where a failed listing escalates. |
| `Project` | `given_project_is_used`, `given_namespace_from_env_is_used`, `Project.is_present/create/switch_to` | `ns` (namespace phase), `current` (the client's project); `pc`, `target`, `used`. Actions `UseProject`, `UseProjectFromEnv`, `IsPresent`, `Create`, `SwitchTo`, and `ClusterCreate/Delete/Finalize` for the other clients. Refines `UseProject` under the mapping `Phase` (`present` is checking, `create` and `switch` are entering). |
| `UseProject` | The abstract promise of the project step | `ns`, `current`, `phase`, `target`, `used`. `Start` or `Refuse`; then `Found` (the project is seen and used as it is), or `Missed` followed by `Entered` (the client ends on an existing project, created if it was missing) or `Fail`; `Others` for the other clients. Each oc call of `Project` that decides nothing is a stuttering step. |
| `Observer` | The single-command operations of `Openshift` and `Command.run_wait_for` | `up`, `present` (named resources), `available` (deployment configs), `replicas`, `pods` (labelled `deploymentconfig=jenkins`) for the cluster; `last` (operation, argument, exit code 0 or not, what it returned) for the caller. `SingleCall(ops, ret)` is the common shape "run one command, turn `exit_code == 0` into a result"; one action per block of the source with its result function: `Starts`, `Getters`, `GetRouteHost`, `EnvInfo`, `ExecOrDelete`, `IsResourceIn`, `GetPodStatus`, `ExposeServiceRoute`. `SetEnvForDeploymentConfig`, `CheckForDeploymentConfigStatus` (with `RunWaitFor`), `GetMasterPod` and `ScaleReplicas` have their own actions. `Flap`, `PodChange` and `RolloutDone` are the cluster. No fairness: the caller may stop at any time. |
| `Scenario` | The import of `install_steps` (`load_kube_config`, `Openshift()`, hence `Command.__init__`/`setenv`), `before_scenario` and the install steps in the order they are defined, with `Project` composed by `P == INSTANCE Project` | `reachable`, `tekton`, `deps`, `shipwright` (cluster); `kubeconfig`, `pathvar` (the process environment); `env` (the class-level `Command.env`); `step`, `checked`, `outputs`; and `Project`'s variables. One action per step; `LoadSteps` is the import, which raises when the kubeconfig cannot be loaded or a variable is missing. `GivenProject` starts either project step (`P!UseProject`, `P!UseProjectFromEnv`) or runs one of its oc calls (`P!Step`); no call succeeds while the API is unreachable, but every call returns (`CallOutcome`), and `Advance` moves the scenario on when the project step returns or stops it when it raises. Plus `Reach` (the API server flapping), `Reconcile` (the deployment controller) and `Namespaces` (`Project`'s other clients). |

Each `MC_*` module fixes the model values and small sets for one module.
Numbers are given in the `.cfg` files.

## 3. Runs

| Run | Expect | What it checks |
|---|---|---|
| `poll_status` | pass | `check_pod_status` defaults (20 s / 180 s, 9 attempts), pod phase changing freely, transient failures, calls taking 0–1 s. `run_wait_for_status` refines `BoundedPoll` with `MaxAttempts = floor(timeout/interval)`, termination included. |
| `poll_elapsed` | violation | With 5 s / 300 s (`check_for_deployment_status`) and 1 s per call, the trace returns at 306 s after 52 attempts, past the 305 s that spec.md 4.1 allows (timeout plus one interval). If all 60 attempts miss, it returns at 360 s. |
| `field_retry_jsonpath` | pass | With `wait=True` and a resource that may appear, change or vanish: the output returned is a field value, and the function refines `BoundedPoll` with 6 tries. |
| `field_retry_jq` | violation | The jq form returns `oc`'s error text for a missing resource. |
| `pod_wait` | pass | `wait_for_pod` defaults (5 s / 60 s, 13 searches) with three pod names, two of which match. The wait refines `BoundedPoll`. Which of two matching pods it returns (the first in API order) is not checked: see the hazard at `openshift.py:36`. |
| `project_current` | violation | An already-present project is not switched to (on `Project` alone). |
| `check_deployment` | violation | `check_for_deployment_status` always raises `ValueError`. |
| `scenario` | pass | The whole install scenario, its project step composed from `Project` (two projects, other clients creating and deleting them), against a flapping API server and partial applies. The project step implements `UseProject` (`ImplementsUseProject`): it succeeds only on a project that exists, and after a create or a switch the client is on it; a running step always ends. No step starts unless `Command.env` holds KUBECONFIG and PATH (`ConfiguredBeforeCommands`, spec.md 4.1 and 8). |
| `observer` | pass | Every single-command operation, in any order, against a flapping API server, resources that the calls create and delete, and jenkins pods that follow scaling and rollouts. `FollowsErrorPolicy`: every read query and every mutating command except `is_resource_in`, `get_pod_status` and `set_env_for_deployment_config` follows spec.md 7. `getmasterpod` and `check_for_deployment_config_status` are in neither category; the two violation runs below are about them. |
| `observer_masterpod` | violation | `getmasterpod` raises IndexError with the jenkins replicas at 0 (or between the old and new pod of a rollout). |
| `observer_dcname` | violation | `check_for_deployment_config_status("app", ...)` reports exit 0 while `app` is rolling out, because it waits on `jenkins`. |
| `scenario_ready` | violation | The Tekton readiness step passes while the deployments are unavailable or have not reported yet. |

Every property of every passing run has a mutant in `PROJECT.json`: a
plausible fault in the mapped code that TLC catches under that run's
configuration. Examples are `<` for `<=` in the loop test, a dropped
assertion, "already exists" taken as success, and steps swapped.

**Bounds.**
- The polls use the call sites' own interval and timeout, so the attempt
  counts are the real ones: 9, 13, 6 and 60.
- `Observer`: two resource names (enough for "create a, then b", "delete
  the one that exists"), the `jenkins` dc and one other (enough for the
  wrong-dc wait), and up to 2 jenkins pods (0, 1 and "several" are the
  three cases `getmasterpod` tells apart).
- Cluster values are the few that the code's tests tell apart: pod phases,
  condition-status token sets, an omitted versus a non-zero
  `unavailableReplicas`, and the three namespace phases.
- Two projects are enough for "the client is on another project". Three pod
  names (two matching, in API order) are enough for first-match versus
  last-match.
- A call blocks for one second at most (`MaxRunSecs`). One second already
  breaks the elapsed-time bound at 60 attempts.

**Fairness.** The harness is one blocking thread. `run` returns because the
model assumes `oc` terminates, and `sleep` returns. So each harness module has
weak fairness on its harness actions and none on the cluster's. No run relies
on the cluster making progress: the project step ends even when the API
server stays unreachable forever. `UseProject` has weak fairness on the step's own
actions and none on `Others`, so the refinement holds with the same fairness
that `Project` has. `Observer` has no fairness at all: its
caller is any test script, which may stop after any call, and its
properties are safety properties. Runs check deadlock: every model keeps a
cluster action enabled once the harness has stopped, because a real cluster
never stops changing.

## 4. Not modelled (yet) and why

- `Command.env` is class-level and shared across instances, unlike what
  spec.md 5 describes. Every writer is the constructor, copying the same two
  values from the unchanging process environment, so no run can tell; the
  hazard is recorded at `command.py:7`. `Command.path` (the working
  directory) is not modelled: no property depends on it.
- `oc` calls are taken to return. `check_output` has no timeout, and an
  `oc` that never returns would hang the scenario. The weak fairness of
  the steps states this assumption, so the model has no property that
  every step returns: it would follow from the fairness alone.
- Three disagreements found while modelling have no run of their own; the
  hazards in `PROJECT.json` record them. (1) `run_wait_for_status` makes no
  attempt when timeout < interval (spec.md 4.1 says it always makes one);
  no call site passes such values. (2) It sleeps after its last failed
  attempt (spec.md 8 says it does not); the extra interval stays within the
  overrun spec.md 4.1 allows. (3) `is_resource_in` and `get_pod_status`
  return False/None on failure, and `set_env_for_deployment_config`
  asserts, against spec.md 7's categories; `FollowsErrorPolicy` names the
  three in `PolicyExempt`.
- `check_for_deployment_status`'s substring test over all condition
  statuses (`openshift.py:177`) is unreachable behind its ValueError.
- The `before_feature` in `install_steps.py` is dead code: behave does not
  call hooks defined in step modules. `loginCluster` is a step of
  `Scenario` that changes nothing; the `current_project` it prints is never
  assigned (the project step assigns a local of the same name).
- Several scenarios in one behave run. The client's current project and the
  namespaces carry over from one scenario to the next. `Project`'s `Init`
  already allows any current project and any namespace phases, which
  covers whatever an earlier scenario left. `Scenario` starts from a
  fresh cluster; no property of it is about the releases.
- The order of the steps. behave takes it from a `.feature` file, which the
  repository does not hold; `StepOrder` is the order in which
  `install_steps.py` defines the steps. No property depends on it beyond
  which step comes first.
- Command-string formatting, regex wording and printing are abstracted: each
  output is the phrase or token set the code's tests look for.

## 5. Plan

First sitting, most important behaviour first:
1. `BoundedPoll` and `PollStatus`.
2. `FieldRetry`.
3. `PodWait`.
4. `Project`.
5. `CheckDeployment`.
6. `Scenario`.

Second sitting: `Observer`, covering every single-command operation of
`Openshift` and `run_wait_for`, and `Project` composed into `Scenario` by
`INSTANCE`.

Third sitting: the import of the steps module and `Command.__init__`/`setenv`
as `Scenario`'s first step (`ConfiguredBeforeCommands`), and the liveness
property `StepsReturn`. The mutants that copied a whole action were replaced by
mutants of the one decision they change, which made the modules shorter.

Fourth sitting: the abstract `UseProject` and the refinement
`ImplementsUseProject`, which replaced the invariants `ProjectExistsWhenUsed`
and `SwitchedProjectIsCurrent` and the history variables they needed;
`loginCluster` as a step of `Scenario`.

Fifth sitting: the properties that held by the model's construction were
removed: `SearchMatchesReference` (two definitions of the first match),
`ShipwrightAfterTekton` (the step order plus one raise), `StepsReturn`
(weak fairness alone) and `SuccessMeansDone` (the shape of `SingleCall`).
Their hazards now say why no property covers them. A failed apply may now
leave a release partly applied.

What is left:
1. A property about a project that is Terminating when the step uses it, if
   spec.md or the code's callers come to say what the step should do then.
2. The disagreements above that have no run of their own, if the limit on
   runs ever allows them one.
