------------------------------ MODULE PodWait ------------------------------
(***************************************************************************)
(* Openshift.wait_for_pod (smoke/features/steps/openshift.py): search the  *)
(* namespace for a pod whose name matches a pattern; if none, search again *)
(* while start + interval <= timeout, sleeping interval seconds after each *)
(* miss.  A search lists the pod names (asserting the listing succeeds)    *)
(* and returns the first that the pattern matches.  Pods are created and   *)
(* deleted concurrently by the cluster.                                    *)
(***************************************************************************)
EXTENDS Integers, Sequences, SequencesExt, OcQuery

CONSTANTS
  Interval,     \* the interval argument, in seconds
  Timeout,      \* the timeout argument, in seconds
  PodNames,     \* names pods in the namespace can have
  ApiOrder,     \* the order in which the API server lists them
  Matching,     \* the names re.match(pattern, name) accepts
  None          \* Python None

ASSUME /\ Interval \in Nat \ {0} /\ Timeout \in Nat
       /\ Matching \subseteq PodNames
       /\ ApiOrder \in Seq(PodNames) /\ ToSet(ApiOrder) = PodNames

VARIABLES
  pods,         \* cluster: names of the pods in the namespace
  pc,           \* "first", "loop", "sleep", "done", "fatal"
  start,        \* local start
  pod,          \* local pod: the result
  listing,      \* the last result of get_resource_lst's query
  searches      \* history: searches so far

vars == <<pods, pc, start, pod, listing, searches>>

\* oc get pods -n <ns> -o jsonpath={.items[*].metadata.name}: the names,
\* space-separated in API order (kept as the sequence that split(" ")
\* gives back, names holding no space), or a failure.
ListResults(ps) ==
  { Result(SelectSeq(ApiOrder, LAMBDA n : n \in ps), 0), Failed }

\* The first item of the list that the pattern matches, else None.
RECURSIVE SearchItemInLst(_)
SearchItemInLst(lst) ==
  IF lst = <<>> THEN None
  ELSE IF Head(lst) \in Matching THEN Head(lst)
  ELSE SearchItemInLst(Tail(lst))

\* An empty listing ("") is not searched.
SearchResourceInNamespace(lst) ==
  IF lst = <<>> THEN None ELSE SearchItemInLst(lst)

\* Fault: a failed listing taken for an empty one, for mutation checking.
ListingFailsNever(r) == FALSE

\* exit_code | should.be_equal_to(0) in get_resource_lst.
ListingFails(r) == r.code # 0

\* One search_pod_in_namespace: a failed listing fails the scenario; a
\* match is returned; a miss continues at missPc.
Search(missPc) ==
  /\ \E r \in ListResults(pods) :
       LET found == IF r.code # 0 THEN None ELSE SearchResourceInNamespace(r.out) IN
       /\ listing' = r
       /\ pod' = found
       /\ pc' = CASE ListingFails(r) -> "fatal"
                   [] found = None    -> missPc
                   [] OTHER           -> "done"
  /\ searches' = searches + 1
  /\ UNCHANGED <<pods, start>>

Init ==
  /\ pods \in SUBSET PodNames
  /\ pc = "first"
  /\ start = 0
  /\ pod = None
  /\ listing = None
  /\ searches = 0

\* The search before the loop; a miss goes straight to the loop test.
FirstSearch == pc = "first" /\ Search("loop")

\* Fault of the while test, for mutation checking.
LoopGuardNoInterval == start <= Timeout

\* while ((start + interval) <= timeout)
LoopGuard == start + Interval <= Timeout

LoopSearch == pc = "loop" /\ LoopGuard /\ Search("sleep")

\* time.sleep(interval); start += interval
Sleep ==
  /\ pc = "sleep"
  /\ pc' = "loop"
  /\ start' = start + Interval
  /\ UNCHANGED <<pods, pod, listing, searches>>

\* The loop test fails: return None.
GiveUp ==
  /\ pc = "loop"
  /\ ~LoopGuard
  /\ pc' = "done"
  /\ UNCHANGED <<pods, start, pod, listing, searches>>

\* A pod is created or deleted.
ClusterChange ==
  /\ \E n \in PodNames : pods' = SymDiff(pods, {n})
  /\ UNCHANGED <<pc, start, pod, listing, searches>>

Wait == FirstSearch \/ LoopSearch \/ Sleep \/ GiveUp

Next == Wait \/ ClusterChange

\* One blocking thread; list and sleep return.
Spec == Init /\ [][Next]_vars /\ WF_vars(Wait)

-----------------------------------------------------------------------------
\* Searches wait_for_pod may make: the first and one per loop pass.
MaxSearches == 1 + Timeout \div Interval

TypeOK ==
  /\ pods \in SUBSET PodNames
  /\ pc \in {"first", "loop", "sleep", "done", "fatal"}
  /\ start \in 0..Timeout
  /\ pod \in PodNames \cup {None}
  /\ listing \in UNION {ListResults(ps) : ps \in SUBSET PodNames} \cup {None}
  /\ searches \in 0..MaxSearches

\* wait_for_pod implements a bounded poll: it returns a matching pod at the
\* first listing that holds one, fails the scenario at a failed listing,
\* returns None only after MaxSearches listings without a match, and always
\* finishes.
BP == INSTANCE BoundedPoll WITH
        MaxAttempts <- MaxSearches,
        EnvValues <- SUBSET PodNames,
        Observable <- ListResults,
        Hit <- LAMBDA o : o.code = 0 /\ SearchResourceInNamespace(o.out) # None,
        Escalates <- LAMBDA o : o.code # 0,
        env <- pods,
        last <- listing,
        observed <- searches,
        outcome <- CASE pc = "fatal"                -> "aborted"
                     [] pc = "done" /\ pod # None   -> "found"
                     [] pc = "done"                 -> "gave_up"
                     [] OTHER                       -> "polling"

ImplementsBoundedPoll == BP!Spec
=============================================================================
