------------------------------- MODULE Domain -------------------------------
(***************************************************************************)
(* The Domain controller of the RLark controller manager: it gives every   *)
(* running Pod of a Domain a virtual address, records the addresses in the *)
(* status of the Domain, and publishes them in one DomainPeer per cluster  *)
(* namespace, from which the clusters route.                               *)
(*                                                                         *)
(* The controller reads from informer caches, each of which lags behind    *)
(* the API server on its own; it writes to the API server, which refuses a *)
(* write that is based on an old version. A step is one such write with    *)
(* the reads and the computation that precede it.                          *)
(***************************************************************************)
EXTENDS Naturals, FiniteSets

CONSTANTS
    Namespaces,  \* clusters, each a namespace of the management API
    Names,       \* local Pod names
    Addrs,       \* addresses
    Ranges,      \* usable addresses of the CIDRs a user may write
    Invalid,     \* a CIDR that does not parse
    Retain,      \* expired address records the controller keeps
    MaxPods,     \* bound: Pod reports
    MaxChanges,  \* bound: changes of the Pod reports
    MaxGen,      \* bound: versions of the Domain spec
    MaxFaults    \* bound: crashes and failed calls

ASSUME DomainAssumption ==
    /\ IsFiniteSet(Namespaces)
    /\ IsFiniteSet(Names)
    /\ Addrs \subseteq Nat \ {0}
    /\ IsFiniteSet(Addrs)
    /\ Ranges \subseteq SUBSET Addrs
    /\ Invalid \notin Ranges
    /\ Retain \in Nat
    /\ MaxPods \in Nat
    /\ MaxChanges \in Nat
    /\ MaxGen \in Nat
    /\ MaxFaults \in Nat

VARIABLES
    domain,   \* the stored Domain
    pods,     \* pods[u]: the stored Pod report u
    peers,    \* peers[n]: the stored DomainPeer of cluster n
    cache,    \* the controller's copies of the three
    queued,   \* whether the Domain waits in the workqueue
    pc,       \* the write the controller does next
    plan,     \* what the running reconcile has computed
    lastPod,  \* the last Pod report created
    changes,  \* changes of the Pod reports so far
    handed,   \* history: addresses whose record was dropped
    faults    \* crashes and failed calls so far

vars == <<domain, pods, peers, cache, queued, pc, plan, lastPod, changes, handed, faults>>

stored == <<domain, pods, peers>>

----------------------------------------------------------------------------
(* Data. 0 stands for no address.                                           *)

\* A Pod keeps its key when it is recreated under the same name, and the report
\* of its predecessor may still be there, running even: an Agent that missed a
\* deletion marks the report stale (Unknown) and deletes it much later. A Pod is
\* "down" while its report lacks a node or an address, or is Succeeded or Failed.
Keys == Namespaces \X Names
Cluster(k) == k[1]

Pods == 1..MaxPods
NoPod == [phase |-> "none", key |-> <<>>]
PodReport == {NoPod} \cup [phase : {"running", "down"}, key : Keys]

\* The records of one key: those after the first are ignored by the next pass.
Record == [first : Addrs \cup {0}, all : SUBSET Addrs]
NoRecord == [first |-> 0, all |-> {}]
NoAlloc == [k \in Keys |-> NoRecord]

\* gen counts the versions of the spec, those of deleted Domains included;
\* observed stands for observedGeneration and the Validated condition.
DomainObject ==
    [exists : BOOLEAN, gen : 0..MaxGen, cidr : Ranges \cup {Invalid},
     observed : BOOLEAN, alloc : [Keys -> Record]]
NoDomain(g) ==
    [exists |-> FALSE, gen |-> g, cidr |-> Invalid, observed |-> FALSE, alloc |-> NoAlloc]

\* A peer routes to Pod u under its key.
Route == [key : Keys, ip : Addrs]
NoRoute == [key |-> <<>>, ip |-> 0]
Routes == [Pods -> Route \cup {NoRoute}]
Peer == [exists : BOOLEAN, routes : Routes]
NoPeer == [exists |-> FALSE, routes |-> [u \in Pods |-> NoRoute]]

PCs == {"idle", "status", "peers", "list", "delete"}
Plan == [copy : DomainObject, alloc : [Keys -> Record], routes : Routes,
         todo : SUBSET Namespaces, known : SUBSET Namespaces]
NoPlan == [copy |-> NoDomain(0), alloc |-> NoAlloc, routes |-> NoPeer.routes,
           todo |-> {}, known |-> {}]

----------------------------------------------------------------------------
(* One pass over the Pods ps with the records old: who keeps which address. *)

\* The Pods that get an address.
Live(ps) == {u \in Pods : ps[u].phase = "running"}

\* The record of the key of Pod u that a pass looks at.
Recorded(old, ps, u) == old[ps[u].key].first

\* Two Pods that cannot both reclaim their record.
Rivals(old, ps, u, v) ==
    \/ ps[u].key = ps[v].key
    \/ Recorded(old, ps, u) = Recorded(old, ps, v)

\* MUTANT of Reclaims: a reclaimed record stays available to the next Pod.
ReclaimsTwice(old, ps) == {{u \in Live(ps) : Recorded(old, ps, u) # 0}}

\* Pods that reclaim their record, in whatever order the list returns them.
Reclaims(old, ps) ==
    LET entitled == {u \in Live(ps) : Recorded(old, ps, u) # 0}
    IN {R \in SUBSET entitled :
            \A u \in entitled :
                (u \in R) <=> (\A v \in R \ {u} : ~Rivals(old, ps, u, v))}

ReclaimedKeys(ps, R) == {ps[u].key : u \in R}

\* Keys with a record that no Pod reclaimed; those whose address another key
\* reclaimed lose it.
Unclaimed(old, ps, R) == {k \in Keys : old[k].first # 0} \ ReclaimedKeys(ps, R)
Conflicting(old, ps, R) ==
    {k \in Unclaimed(old, ps, R) : \E u \in R : Recorded(old, ps, u) = old[k].first}

\* Records that expire: as many as there are unclaimed ones beyond Retain.
Expiries(old, ps, R) ==
    LET unclaimed == Unclaimed(old, ps, R)
        candidates == unclaimed \ Conflicting(old, ps, R)
        count == IF Cardinality(unclaimed) > Retain
                 THEN Cardinality(unclaimed) - Retain ELSE 0
    IN {D \in SUBSET candidates :
            \/ Cardinality(D) = count
            \/ Cardinality(D) < count /\ D = candidates}

Kept(old, ps, R, D) ==
    ReclaimedKeys(ps, R) \cup ((Unclaimed(old, ps, R) \ Conflicting(old, ps, R)) \ D)

\* MUTANT of Free: the pool is not told of the records.
FreeUnmarked(range, old, kept) == range

\* MUTANT of Free: the network address is handed out.
FreeWithNetwork(range, old, kept) == ({0} \cup range) \ {old[k].first : k \in kept}

\* The addresses of a range that no kept record occupies.
Free(range, old, kept) == range \ {old[k].first : k \in kept}

\* The pool hands out the lowest ones.
Lowest(n, S) == {a \in S : Cardinality({b \in S : b < a}) < n}

Injections(S, T) == {f \in [S -> T] : \A x, y \in S : f[x] = f[y] => x = y}

\* The records after the pass. The list is sorted by key, and not stably.
NewAllocs(old, ps, kept, fresh) ==
    LET new(k) == {old[j].first : j \in kept \cap {k}}
                  \cup {fresh[u] : u \in {v \in DOMAIN fresh : ps[v].key = k}}
        firsts == {g \in [Keys -> Addrs \cup {0}] :
                      \A k \in Keys : g[k] \in IF new(k) = {} THEN {0} ELSE new(k)}
    IN {[k \in Keys |-> [first |-> g[k], all |-> new(k)]] : g \in firsts}

NewRoutes(old, ps, R, fresh) ==
    [u \in Pods |->
        IF u \in R THEN [key |-> ps[u].key, ip |-> Recorded(old, ps, u)]
        ELSE IF u \in DOMAIN fresh THEN [key |-> ps[u].key, ip |-> fresh[u]]
        ELSE NoRoute]

----------------------------------------------------------------------------
(* The controller.                                                          *)

Finish ==
    /\ pc' = "idle"
    /\ plan' = NoPlan

\* An error ends the reconcile and queues the Domain again.
Retry ==
    /\ Finish
    /\ queued' = TRUE

\* The peers of the clusters ns are deleted, then the reconcile is over.
GoOnWithDeletes(ns) ==
    IF ns = {} THEN Finish
    ELSE /\ pc' = "delete"
         /\ plan' = [NoPlan EXCEPT !.todo = ns]

\* The peers come after the status; the stale ones are next. What the rest of
\* the reconcile does not read is forgotten.
GoOnWithPeers(p) ==
    IF p.todo = {}
    THEN /\ pc' = "list"
         /\ plan' = [NoPlan EXCEPT !.known = p.known]
    ELSE /\ pc' = "peers"
         /\ plan' = [p EXCEPT !.copy = NoPlan.copy, !.alloc = NoAlloc]

\* The status is written when the records or the condition change.
GoOnWithStatus(p) ==
    IF p.alloc # p.copy.alloc \/ ~p.copy.observed
    THEN pc' = "status" /\ plan' = p
    ELSE GoOnWithPeers(p)

\* What a pass over the Pods ps leaves to be written: the live Pods are published,
\* every Pod makes its cluster known.
PassPlan(d, ps, alloc, routes) ==
    [copy |-> d, alloc |-> alloc, routes |-> routes,
     todo |-> {Cluster(ps[u].key) : u \in Live(ps)},
     known |-> {Cluster(ps[u].key) : u \in {v \in Pods : ps[v] # NoPod}}]

Listed == {n \in Namespaces : cache.peers[n].exists}

\* A Domain that is gone takes all peers with it.
StartDeleted ==
    /\ ~cache.domain.exists
    /\ GoOnWithDeletes(Listed)
    /\ queued' = FALSE

\* A CIDR that does not parse is reported once, and nothing else happens.
StartInvalid ==
    /\ cache.domain.exists
    /\ cache.domain.cidr = Invalid
    /\ IF cache.domain.observed
       THEN Finish
       ELSE /\ pc' = "status"
            /\ plan' = [NoPlan EXCEPT !.copy = cache.domain, !.alloc = cache.domain.alloc]
    /\ queued' = FALSE

\* A pass; with too few addresses it fails as a whole.
StartPass ==
    /\ cache.domain.exists
    /\ cache.domain.cidr # Invalid
    /\ LET d == cache.domain
           old == d.alloc
           ps == cache.pods
       IN \E R \in Reclaims(old, ps) : \E D \in Expiries(old, ps, R) :
            LET kept == Kept(old, ps, R, D)
                free == Free(d.cidr, old, kept)
                new == Live(ps) \ R
            IN \/ /\ Cardinality(new) > Cardinality(free)
                  /\ Retry
               \/ /\ Cardinality(new) <= Cardinality(free)
                  /\ \E fresh \in Injections(new, Lowest(Cardinality(new), free)) :
                     \E alloc \in NewAllocs(old, ps, kept, fresh) :
                        GoOnWithStatus(PassPlan(d, ps, alloc, NewRoutes(old, ps, R, fresh)))
                  /\ queued' = FALSE

Start ==
    /\ pc = "idle"
    /\ queued
    /\ StartDeleted \/ StartInvalid \/ StartPass
    /\ UNCHANGED <<stored, cache, lastPod, changes, handed, faults>>

\* The API server refuses an update of another version than the stored one.
Accepts(current, copy) == current = copy

Dropped(old, new) == UNION {old[k].all \ new[k].all : k \in Keys}

\* MUTANT of UpdateStatus: after a conflict the reconcile goes on.
UpdateStatusIgnoringConflict ==
    /\ pc = "status"
    /\ IF Accepts(domain, plan.copy)
       THEN /\ domain' = [domain EXCEPT !.alloc = plan.alloc, !.observed = TRUE]
            /\ handed' = handed \cup Dropped(domain.alloc, plan.alloc)
            /\ IF plan.copy.cidr = Invalid THEN Finish ELSE GoOnWithPeers(plan)
            /\ UNCHANGED queued
       ELSE /\ GoOnWithPeers(plan)
            /\ UNCHANGED <<domain, handed, queued>>
    /\ UNCHANGED <<pods, peers, cache, lastPod, changes, faults>>

\* MUTANT of UpdateStatus: the status is patched, without the version.
UpdateStatusUnfenced ==
    /\ pc = "status"
    /\ IF domain.exists
       THEN /\ domain' = [domain EXCEPT !.alloc = plan.alloc, !.observed = TRUE]
            /\ handed' = handed \cup Dropped(domain.alloc, plan.alloc)
            /\ IF plan.copy.cidr = Invalid THEN Finish ELSE GoOnWithPeers(plan)
            /\ UNCHANGED queued
       ELSE /\ Retry
            /\ UNCHANGED <<domain, handed>>
    /\ UNCHANGED <<pods, peers, cache, lastPod, changes, faults>>

\* The records of a pass, in one update; after a conflict everything is read
\* and computed again.
UpdateStatus ==
    /\ pc = "status"
    /\ IF Accepts(domain, plan.copy)
       THEN /\ domain' = [domain EXCEPT !.alloc = plan.alloc, !.observed = TRUE]
            /\ handed' = handed \cup Dropped(domain.alloc, plan.alloc)
            /\ IF plan.copy.cidr = Invalid THEN Finish ELSE GoOnWithPeers(plan)
            /\ UNCHANGED queued
       ELSE /\ Retry
            /\ UNCHANGED <<domain, handed>>
    /\ UNCHANGED <<pods, peers, cache, lastPod, changes, faults>>

\* MUTANT of PeerChanged: only the number of Pods is compared.
PeerCountChanged(p, routes) ==
    Cardinality({u \in Pods : p.routes[u] # NoRoute})
        # Cardinality({u \in Pods : routes[u] # NoRoute})

\* Whether an existing peer is written again.
PeerChanged(p, routes) == p.routes # routes

\* createOrUpdateDomainPeer: the cached peer decides between a create, an
\* update and nothing at all.
WritePeer ==
    /\ pc = "peers"
    /\ \E n \in plan.todo :
        LET seen == cache.peers[n]
            write == seen.exists => PeerChanged(seen, plan.routes)
            accepted == IF seen.exists THEN Accepts(peers[n], seen) ELSE ~peers[n].exists
        IN IF write /\ ~accepted
           THEN /\ Retry
                /\ UNCHANGED peers
           ELSE /\ peers' = IF write
                            THEN [peers EXCEPT ![n] = [exists |-> TRUE, routes |-> plan.routes]]
                            ELSE peers
                /\ GoOnWithPeers([plan EXCEPT !.todo = @ \ {n}])
                /\ UNCHANGED queued
    /\ UNCHANGED <<domain, pods, cache, lastPod, changes, handed, faults>>

\* cleanupStaleDomainPeers: the clusters that have no Pod at all.
ListPeers ==
    /\ pc = "list"
    /\ GoOnWithDeletes(Listed \ plan.known)
    /\ UNCHANGED <<stored, cache, queued, lastPod, changes, handed, faults>>

DeletePeer ==
    /\ pc = "delete"
    /\ \E n \in plan.todo :
        /\ peers' = [peers EXCEPT ![n] = NoPeer]
        /\ GoOnWithDeletes(plan.todo \ {n})
    /\ UNCHANGED <<domain, pods, cache, queued, lastPod, changes, handed, faults>>

\* A call fails.
Abort ==
    /\ pc # "idle"
    /\ faults < MaxFaults
    /\ faults' = faults + 1
    /\ Retry
    /\ UNCHANGED <<stored, cache, lastPod, changes, handed>>

\* The manager restarts: it lists everything, and what it lists is an event.
Restart ==
    /\ faults < MaxFaults
    /\ faults' = faults + 1
    /\ Finish
    /\ cache' = [domain |-> domain, pods |-> pods, peers |-> peers]
    /\ queued' = (domain.exists \/ \E u \in Pods : pods[u] # NoPod)
    /\ UNCHANGED <<stored, lastPod, changes, handed>>

----------------------------------------------------------------------------
(* The informers.                                                           *)

\* Only a new version of the spec, a creation or a deletion is an event.
SyncDomain ==
    /\ cache.domain # domain
    /\ cache' = [cache EXCEPT !.domain = domain]
    /\ queued' = (queued \/ domain.gen # cache.domain.gen \/ domain.exists # cache.domain.exists)
    /\ UNCHANGED <<stored, pc, plan, lastPod, changes, handed, faults>>

SyncPods ==
    /\ cache.pods # pods
    /\ cache' = [cache EXCEPT !.pods = pods]
    /\ queued' = TRUE
    /\ UNCHANGED <<stored, pc, plan, lastPod, changes, handed, faults>>

\* Nobody watches the peers.
SyncPeers ==
    /\ cache.peers # peers
    /\ cache' = [cache EXCEPT !.peers = peers]
    /\ UNCHANGED <<stored, queued, pc, plan, lastPod, changes, handed, faults>>

\* The informers repeat their Pods from time to time; a repeated Domain has the
\* old generation and is no event.
Resync ==
    /\ ~queued
    /\ \E u \in Pods : cache.pods[u] # NoPod
    /\ queued' = TRUE
    /\ UNCHANGED <<stored, cache, pc, plan, lastPod, changes, handed, faults>>

----------------------------------------------------------------------------
(* Users and the Agents that report Pods.                                   *)

WriteSpec ==
    /\ domain.gen < MaxGen
    /\ \E c \in Ranges \cup {Invalid} :
          /\ domain.exists => c # domain.cidr
          /\ domain' = [domain EXCEPT !.exists = TRUE, !.gen = @ + 1, !.cidr = c,
                                      !.observed = FALSE]
    /\ UNCHANGED <<pods, peers, cache, queued, pc, plan, lastPod, changes, handed, faults>>

DeleteDomain ==
    /\ domain.exists
    /\ domain' = NoDomain(domain.gen)
    /\ handed' = handed \cup Dropped(domain.alloc, NoAlloc)
    /\ UNCHANGED <<pods, peers, cache, queued, pc, plan, lastPod, changes, faults>>

ChangePod(u, r) ==
    /\ changes < MaxChanges
    /\ changes' = changes + 1
    /\ pods' = [pods EXCEPT ![u] = r]
    /\ UNCHANGED <<domain, peers, cache, queued, pc, plan, handed, faults>>

\* The report is created and then given its status; the two writes count as one
\* change when the second follows at once.
ReportPod ==
    /\ lastPod < MaxPods
    /\ lastPod' = lastPod + 1
    /\ \E r \in PodReport \ {NoPod} : ChangePod(lastPod + 1, r)

RunPod(u) ==
    /\ pods[u].phase = "down"
    /\ ChangePod(u, [pods[u] EXCEPT !.phase = "running"])
    /\ UNCHANGED lastPod

EndPod(u) ==
    /\ pods[u].phase = "running"
    /\ ChangePod(u, [pods[u] EXCEPT !.phase = "down"])
    /\ UNCHANGED lastPod

RemovePod(u) ==
    /\ pods[u] # NoPod
    /\ ChangePod(u, NoPod)
    /\ UNCHANGED lastPod

----------------------------------------------------------------------------
Init ==
    /\ domain = NoDomain(0)
    /\ pods = [u \in Pods |-> NoPod]
    /\ peers = [n \in Namespaces |-> NoPeer]
    /\ cache = [domain |-> domain, pods |-> pods, peers |-> peers]
    /\ queued = FALSE
    /\ pc = "idle"
    /\ plan = NoPlan
    /\ lastPod = 0
    /\ changes = 0
    /\ handed = {}
    /\ faults = 0

Reconcile == Start \/ UpdateStatus \/ WritePeer \/ ListPeers \/ DeletePeer
PodStep == ReportPod \/ \E u \in Pods : RunPod(u) \/ EndPod(u) \/ RemovePod(u)

Next ==
    \/ Reconcile \/ Abort \/ Restart
    \/ SyncDomain \/ SyncPods \/ SyncPeers \/ Resync
    \/ WriteSpec \/ DeleteDomain \/ PodStep

Spec == Init /\ [][Next]_vars

\* The worker, the informers and their resync keep running; nobody is forced
\* to edit, and nothing has to fail.
Fairness ==
    /\ WF_vars(Reconcile)
    /\ WF_vars(SyncDomain) /\ WF_vars(SyncPods) /\ WF_vars(SyncPeers)
    /\ WF_vars(Resync)

FairSpec == Spec /\ Fairness

----------------------------------------------------------------------------
(* Properties.                                                              *)

\* Every variable has the values the code gives it; no record or route has an
\* address outside the ranges.
TypeOK ==
    /\ domain \in DomainObject
    /\ pods \in [Pods -> PodReport]
    /\ peers \in [Namespaces -> Peer]
    /\ cache \in [domain : DomainObject, pods : [Pods -> PodReport], peers : [Namespaces -> Peer]]
    /\ queued \in BOOLEAN
    /\ pc \in PCs
    /\ plan \in Plan
    /\ lastPod \in 0..MaxPods
    /\ changes \in 0..MaxChanges
    /\ handed \subseteq Addrs
    /\ faults \in 0..MaxFaults

\* An address is recorded for one key only, whichever caches were stale when
\* it was given out.
RecordsDistinct ==
    \A j, k \in Keys : j # k => domain.alloc[j].all \cap domain.alloc[k].all = {}

\* No peer routes an address to two Pods.
RoutesDistinct ==
    \A n \in Namespaces : \A u, v \in Pods :
        u # v /\ peers[n].routes[u] # NoRoute =>
            peers[n].routes[u].ip # peers[n].routes[v].ip

\* The clusters never route one address to different keys, unless the record of
\* that address was dropped: the status is written before the peers, so a crash
\* or a conflict in between leaves nothing published that is not recorded.
NoSplitRoute ==
    \A m, n \in Namespaces : \A u, v \in Pods :
        LET r == peers[m].routes[u]
            s == peers[n].routes[v]
        IN r # NoRoute /\ r.ip = s.ip => r.ip \in handed \/ r.key = s.key

\* A key keeps one of its addresses through restarts of its Pod, overlapping
\* reports, crashes and stale caches; a pass takes addresses away only from as
\* many keys as there are records beyond Retain.
StickyStep ==
    domain.exists /\ domain'.exists =>
        LET recorded == {k \in Keys : domain.alloc[k].first # 0}
            lost == {k \in recorded : domain.alloc[k].all \cap domain'.alloc[k].all = {}}
        IN lost = {} \/ Cardinality(lost) + Retain <= Cardinality(recorded)
AddressIsSticky == [][StickyStep]_vars

\* What the peers should be while reports of Pods exist.
PeersUpToDate ==
    \A n \in Namespaces :
        LET reports == {u \in Pods : pods[u] # NoPod /\ Cluster(pods[u].key) = n}
            routes == peers[n].routes
        IN IF ~domain.exists \/ reports = {} THEN ~peers[n].exists
           ELSE reports \cap Live(pods) # {} =>
                    \A u \in Pods :
                        IF u \in Live(pods)
                        THEN /\ routes[u].key = pods[u].key
                             /\ routes[u].ip \in domain.alloc[pods[u].key].all
                        ELSE routes[u] = NoRoute

\* The CIDR has an address for every live Pod and every record kept besides.
Enough == Cardinality(Live(pods)) + Retain <= Cardinality(domain.cidr)

\* As long as a report of a Pod exists, the peers become and stay up to date
\* once the Pods stop changing, whatever was stale or failed before.
PeersConverge ==
    <>[][FALSE]_pods =>
        <>[](\/ \A u \in Pods : pods[u] = NoPod
             \/ domain.exists /\ (domain.cidr = Invalid \/ ~Enough)
             \/ PeersUpToDate)

=============================================================================
