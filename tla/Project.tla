------------------------------ MODULE Project ------------------------------
(***************************************************************************)
(* The step 'Project "<name>" is used' (install_steps.given_project_is_used)*)
(* and the Project class it drives (smoke/features/steps/project.py): if   *)
(* oc get ns <name> fails, oc new-project <name>, which on "already        *)
(* exists" falls back to oc project <name>; the step fails unless that     *)
(* returns True.  The client's current project lives in the shared         *)
(* kubeconfig; namespaces are created and deleted by other clients, and a  *)
(* deleted namespace stays Terminating for a while.                        *)
(***************************************************************************)
EXTENDS Naturals

CONSTANTS
  Projects,     \* project names used by the scenarios
  None          \* no project

VARIABLES
  ns,           \* cluster: [Projects -> {"absent", "active", "terminating"}]
  current,      \* cluster: the client's current project, or None
  pc,           \* "idle", "present", "create", "switch", "failed"
  target,       \* the project_name argument of the running step
  used          \* the project the last successful step reported as used

vars == <<ns, current, pc, target, used>>

NsStates == {"absent", "active", "terminating"}

\* Outputs of oc new-project and oc project, by the phrase the code's
\* regular expressions look for; "Other" is any other text (errors).
Outputs == {"NowUsing", "AlreadyOn", "AlreadyExists", "Other"}

\* oc new-project p: creates p and switches to it when p does not exist.
NewProjectOutputs(p) ==
  IF ns[p] = "absent" THEN {"NowUsing", "Other"} ELSE {"AlreadyExists", "Other"}

\* oc project p: switches to p when p exists (terminating included).
ProjectOutputs(p) ==
  CASE ns[p] = "absent" -> {"Other"}
    [] current = p      -> {"AlreadyOn", "Other"}
    [] OTHER            -> {"NowUsing", "Other"}

\* The current project after oc printed out for p.
CurrentAfter(out, p) == IF out = "NowUsing" THEN p ELSE current

Init ==
  /\ ns \in [Projects -> NsStates]
  /\ current \in {p \in Projects : ns[p] # "absent"} \cup {None}
  /\ pc = "idle"
  /\ target = None
  /\ used = None

\* The step begins: Project(project_name); context.current_project = ...
UseProject(p) ==
  /\ pc \in {"idle", "failed"}
  /\ pc' = "present"
  /\ target' = p
  /\ UNCHANGED <<ns, current, used>>

\* The step 'Project [<VAR>] is used' (given_namespace_from_env_is_used):
\* the variable's value v, or None when unset, which fails the assertion.
UseProjectFromEnv(v) ==
  /\ pc \in {"idle", "failed"}
  /\ IF v # None THEN pc' = "present" /\ target' = v
                 ELSE pc' = "failed" /\ UNCHANGED target
  /\ UNCHANGED <<ns, current, used>>

\* The step succeeds: context.project = project.
Succeed ==
  /\ pc' = "idle"
  /\ used' = target

\* project.is_present(): oc get ns <name> exits 0 (or fails transiently).
IsPresent ==
  /\ pc = "present"
  /\ UNCHANGED <<ns, current, target>>
  /\ \E ok \in {ns[target] # "absent", FALSE} :
       IF ok THEN Succeed
             ELSE pc' = "create" /\ UNCHANGED used

\* Fault of the output reading, for mutation checking: "already exists"
\* taken as success.
CreateResultNoSwitch(out) ==
  CASE out \in {"NowUsing", "AlreadyOn", "AlreadyExists"} -> "true"
    [] OTHER                                             -> "false"

\* Project.create's reading of its output: True, switch_to, or False.
CreateResult(out) ==
  CASE out \in {"NowUsing", "AlreadyOn"} -> "true"
    [] out = "AlreadyExists"             -> "switch"
    [] OTHER                             -> "false"

\* project.create() | should.be_truthy
Create ==
  /\ pc = "create"
  /\ \E out \in NewProjectOutputs(target) :
       /\ ns' = IF out = "NowUsing" THEN [ns EXCEPT ![target] = "active"] ELSE ns
       /\ current' = CurrentAfter(out, target)
       /\ CASE CreateResult(out) = "true"   -> Succeed
            [] CreateResult(out) = "switch" -> pc' = "switch" /\ UNCHANGED used
            [] OTHER                        -> pc' = "failed" /\ UNCHANGED used
  /\ UNCHANGED target

\* Project.switch_to(), reached from create.
SwitchTo ==
  /\ pc = "switch"
  /\ UNCHANGED <<ns, target>>
  /\ \E out \in ProjectOutputs(target) :
       /\ current' = CurrentAfter(out, target)
       /\ IF out \in {"NowUsing", "AlreadyOn"}
            THEN Succeed
            ELSE pc' = "failed" /\ UNCHANGED used

\* Other clients: create a namespace, delete one (it turns Terminating),
\* the namespace controller finishes a deletion.
ClusterCreate(p) ==
  /\ ns[p] = "absent"
  /\ ns' = [ns EXCEPT ![p] = "active"]
  /\ UNCHANGED <<current, pc, target, used>>

ClusterDelete(p) ==
  /\ ns[p] = "active"
  /\ ns' = [ns EXCEPT ![p] = "terminating"]
  /\ UNCHANGED <<current, pc, target, used>>

ClusterFinalize(p) ==
  /\ ns[p] = "terminating"
  /\ ns' = [ns EXCEPT ![p] = "absent"]
  /\ UNCHANGED <<current, pc, target, used>>

Step == IsPresent \/ Create \/ SwitchTo

Next ==
  \/ \E p \in Projects : UseProject(p)
  \/ \E v \in Projects \cup {None} : UseProjectFromEnv(v)
  \/ Step
  \/ \E p \in Projects : ClusterCreate(p) \/ ClusterDelete(p) \/ ClusterFinalize(p)

\* The step runs on the scenario's thread and each oc call returns.
Spec == Init /\ [][Next]_vars /\ WF_vars(Step)

-----------------------------------------------------------------------------
TypeOK ==
  /\ ns \in [Projects -> NsStates]
  /\ current \in Projects \cup {None}
  /\ pc \in {"idle", "present", "create", "switch", "failed"}
  /\ target \in Projects \cup {None}
  /\ pc \in {"present", "create", "switch"} => target \in Projects
  /\ used \in Projects \cup {None}

\* The project step implements UseProject: it uses a project it found as
\* it is, and otherwise succeeds only with the client on an existing
\* project; the output readings of is_present, create and switch_to never
\* take an error for success, whatever other clients create or delete
\* between the calls; and a running step always ends.
\* The phase of UseProject each point of the step stands for.
Phase ==
  CASE pc = "present"              -> "checking"
    [] pc \in {"create", "switch"} -> "entering"
    [] OTHER                       -> pc

UP == INSTANCE UseProject WITH phase <- Phase

ImplementsUseProject == UP!Spec

\* The step says the project "is used": after it succeeds, the client's
\* current project is that project (commands without -n act on it).
UsedProjectIsCurrent ==
  pc = "idle" /\ used # None => current = used
=============================================================================
