------------------------------ MODULE MCDomain ------------------------------
(* TLC instances of Domain.                                                 *)
EXTENDS Domain

\* A second version of the spec is weighed as two changes of Pods or faults.
Bounded == 2 * domain.gen + changes + faults <= 6

\* A state the Domain comes to: every Pod runs under a key of its own, has its
\* address and is published.  From here few changes let records expire and their
\* addresses pass on.
Running ==
    \E key \in Injections(Pods, Keys), range \in Ranges :
        /\ domain = [exists |-> TRUE, gen |-> 1, cidr |-> range, observed |-> TRUE,
                     alloc |-> [k \in Keys |->
                        IF \E u \in Pods : key[u] = k
                        THEN LET u == CHOOSE v \in Pods : key[v] = k
                             IN [first |-> u, all |-> {u}]
                        ELSE NoRecord]]
        /\ pods = [u \in Pods |-> [phase |-> "running", key |-> key[u]]]
        /\ peers = [n \in Namespaces |->
             IF \E u \in Pods : Cluster(key[u]) = n
             THEN [exists |-> TRUE, routes |-> [u \in Pods |-> [key |-> key[u], ip |-> u]]]
             ELSE NoPeer]
        /\ cache = [domain |-> domain, pods |-> pods, peers |-> peers]
        /\ lastPod = MaxPods
        /\ queued = FALSE /\ pc = "idle" /\ plan = NoPlan
        /\ changes = 0 /\ handed = {} /\ faults = 0

MCSpec == (Init \/ Running) /\ [][Next]_vars /\ Fairness
=============================================================================
