----------------------------- MODULE UseProject -----------------------------
(***************************************************************************)
(* What the step 'Project "<name>" is used' promises, with each oc call    *)
(* of Project folded into one atomic decision: the step first looks for   *)
(* the project; if it sees it, it uses it as it is; otherwise it puts the  *)
(* client on the project (creating it when it is missing) or fails.  A     *)
(* success never names a project that does not exist.  Namespaces are     *)
(* created and deleted by other clients at any time.                       *)
(***************************************************************************)
CONSTANTS
  Projects,     \* project names used by the scenarios
  None          \* no project

VARIABLES
  ns,           \* [Projects -> {"absent", "active", "terminating"}]
  current,      \* the client's current project, or None
  phase,        \* "idle", "checking", "entering", "failed"
  target,       \* the project the running step is about
  used          \* the project the last successful step used

avars == <<ns, current, phase, target, used>>

NsStates == {"absent", "active", "terminating"}

Exists(p) == ns[p] # "absent"

Init ==
  /\ ns \in [Projects -> NsStates]
  /\ current \in {p \in Projects : Exists(p)} \cup {None}
  /\ phase = "idle"
  /\ target = None
  /\ used = None

\* A step begins on p, or is refused before it looks (no project name).
Start(p) ==
  /\ phase \in {"idle", "failed"}
  /\ phase' = "checking"
  /\ target' = p
  /\ UNCHANGED <<ns, current, used>>

Refuse ==
  /\ phase \in {"idle", "failed"}
  /\ phase' = "failed"
  /\ UNCHANGED <<ns, current, target, used>>

\* The project is seen: it is used as it is.
Found ==
  /\ phase = "checking"
  /\ Exists(target)
  /\ phase' = "idle"
  /\ used' = target
  /\ UNCHANGED <<ns, current, target>>

\* The project is not seen (missing, or the look failed).
Missed ==
  /\ phase = "checking"
  /\ phase' = "entering"
  /\ UNCHANGED <<ns, current, target, used>>

\* The client ends on the project, which is created if it was missing.
Entered ==
  /\ phase = "entering"
  /\ ns' \in {ns, [ns EXCEPT ![target] = "active"]}
  /\ ns'[target] # "absent"
  /\ current' = target
  /\ phase' = "idle"
  /\ used' = target
  /\ UNCHANGED target

Fail ==
  /\ phase \in {"checking", "entering"}
  /\ phase' = "failed"
  /\ UNCHANGED <<ns, current, target, used>>

\* Other clients create a namespace, delete one (it turns Terminating),
\* or the namespace controller finishes a deletion.
Others ==
  /\ \E p \in Projects, s \in NsStates :
       /\ <<ns[p], s>> \in {<<"absent", "active">>, <<"active", "terminating">>,
                            <<"terminating", "absent">>}
       /\ ns' = [ns EXCEPT ![p] = s]
  /\ UNCHANGED <<current, phase, target, used>>

Next ==
  \/ \E p \in Projects : Start(p)
  \/ Refuse \/ Found \/ Missed \/ Entered \/ Fail \/ Others

\* A running step always ends.
Spec == Init /\ [][Next]_avars /\ WF_avars(Found \/ Missed \/ Entered \/ Fail)
=============================================================================
