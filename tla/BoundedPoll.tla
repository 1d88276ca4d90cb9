---------------------------- MODULE BoundedPoll ----------------------------
(***************************************************************************)
(* What every polling operation of the harness promises (spec.md 4.1, 4.2, *)
(* 7): observe the cluster at most MaxAttempts times and at least once;    *)
(* stop with success at the first observation that hits; stop with a fatal *)
(* error at an observation the operation escalates; give up only after     *)
(* MaxAttempts observations that all missed.  The cluster (env) changes    *)
(* freely between observations.                                            *)
(***************************************************************************)
EXTENDS Naturals

CONSTANTS
  MaxAttempts,      \* number of observations before giving up
  EnvValues,        \* states the observed part of the cluster can be in
  Observable(_),    \* what one query may return in a given cluster state
  Hit(_),           \* the observation the poll waits for
  Escalates(_),     \* an observation the operation treats as fatal
  None              \* no observation yet

ASSUME MaxAttempts \in Nat \ {0}

VARIABLES env, last, observed, outcome

vars == <<env, last, observed, outcome>>

Outcomes == {"polling", "found", "gave_up", "aborted"}

Init ==
  /\ env \in EnvValues
  /\ last = None
  /\ observed = 0
  /\ outcome = "polling"

\* One query of the cluster and the decision taken on its result.
Observe ==
  /\ outcome = "polling"
  /\ observed < MaxAttempts
  /\ \E o \in Observable(env) :
       /\ last' = o
       /\ outcome' = CASE Hit(o)       -> "found"
                       [] Escalates(o) -> "aborted"
                       [] OTHER        -> "polling"
  /\ observed' = observed + 1
  /\ UNCHANGED env

GiveUp ==
  /\ outcome = "polling"
  /\ observed = MaxAttempts
  /\ outcome' = "gave_up"
  /\ UNCHANGED <<env, last, observed>>

EnvChange ==
  /\ env' \in EnvValues
  /\ UNCHANGED <<last, observed, outcome>>

Next == Observe \/ GiveUp \/ EnvChange

\* The poller is never starved: it is a blocking loop of one thread.
Spec == Init /\ [][Next]_vars /\ WF_vars(Observe \/ GiveUp)
=============================================================================
