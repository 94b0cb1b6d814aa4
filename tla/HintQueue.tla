----------------------------- MODULE HintQueue ------------------------------
(***************************************************************************)
(* What the hint path of the Agent promises the sources of hints: a hint   *)
(* that is accepted makes its key dirty; one reconcile at a time works on  *)
(* a key; it answers for every hint accepted before it started, and a      *)
(* dirty key gets one in the end.  TriggerBridge implements it with a      *)
(* bounded accumulator, a bounded channel and a workqueue.                 *)
(***************************************************************************)
CONSTANT Keys

VARIABLES
    dirty,   \* keys with a hint no reconcile has started after
    busy     \* keys a reconcile works on

vars == <<dirty, busy>>

Init == dirty = {} /\ busy = {}

Accept(k) == dirty' = dirty \cup {k} /\ UNCHANGED busy

\* A reconcile may also start unasked.
Start(k) ==
    /\ k \notin busy
    /\ busy' = busy \cup {k}
    /\ dirty' = dirty \ {k}

Stop(k) ==
    /\ k \in busy
    /\ busy' = busy \ {k}
    /\ UNCHANGED dirty

Next == \E k \in Keys : Accept(k) \/ Start(k) \/ Stop(k)

Spec == Init /\ [][Next]_vars

\* Nobody waits forever for a reconcile to start or to end.
FairSpec ==
    /\ Spec
    /\ \A k \in Keys : WF_vars(k \in dirty /\ Start(k)) /\ WF_vars(Stop(k))

=============================================================================
