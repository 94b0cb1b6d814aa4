---------------------------- MODULE DomainProofs ----------------------------
(***************************************************************************)
(* Safety of the addresses of one Domain, for all clusters, Pod names,     *)
(* addresses and CIDRs, every number of Pod reports and edits, and every   *)
(* interleaving of the controller with its informers, crashes and users.   *)
(*                                                                         *)
(* CoreInv has three parts besides the types.  Stored: the records give an *)
(* address to one key, a peer gives it to one Pod, and what a peer routes  *)
(* is recorded or was dropped.  Remembered: so is what a stale cache       *)
(* remembers of the records, which is what a pass computes from.  Planned: *)
(* what a pass is about to write keeps the first two true.                 *)
(***************************************************************************)
EXTENDS Domain, TLAPS, FiniteSetTheorems

\* Records alloc of a status: the first record of a key is one of its records,
\* and no address is recorded for two keys.
Sound(alloc) ==
    /\ \A k \in Keys : alloc[k].first # 0 => alloc[k].first \in alloc[k].all
    /\ \A j, k \in Keys : j # k => alloc[j].all \cap alloc[k].all = {}

\* The routes give no address to two Pods.
Injective(routes) ==
    \A u, v \in Pods : u # v /\ routes[u] # NoRoute => routes[u].ip # routes[v].ip

\* Every route is recorded in alloc for its key, or its address is one of dropped.
Backed(routes, alloc, dropped) ==
    \A u \in Pods :
        routes[u] # NoRoute => routes[u].ip \in alloc[routes[u].key].all \cup dropped

\* What AddressIsSticky allows from the records old to the records new.
Sticky(old, new) ==
    LET recorded == {k \in Keys : old[k].first # 0}
        lost == {k \in recorded : old[k].all \cap new[k].all = {}}
    IN lost = {} \/ Cardinality(lost) + Retain <= Cardinality(recorded)

\* What the API server keeps.
Stored ==
    /\ Sound(domain.alloc)
    /\ \A n \in Namespaces :
         Injective(peers[n].routes) /\ Backed(peers[n].routes, domain.alloc, handed)

\* What an informer remembers of the records: each is still there or was dropped.
Remembered ==
    /\ Sound(cache.domain.alloc)
    /\ \A k \in Keys : cache.domain.alloc[k].all \subseteq domain.alloc[k].all \cup handed

\* What a reconcile is about to write.
Planned ==
    /\ pc = "status" =>
         /\ Sound(plan.alloc)
         /\ Sticky(plan.copy.alloc, plan.alloc)
         /\ Injective(plan.routes)
         /\ Backed(plan.routes, plan.alloc, {})
    /\ pc = "peers" =>
         Injective(plan.routes) /\ Backed(plan.routes, domain.alloc, handed)

CoreInv == TypeOK /\ Stored /\ Remembered /\ Planned

----------------------------------------------------------------------------
(* Data.                                                                    *)

\* A Domain that does not exist has the type of one, and no record.
LEMMA NoDomainType ==
    ASSUME NEW g \in 0..MaxGen
    PROVE  /\ NoDomain(g) \in DomainObject
           /\ NoDomain(g).exists = FALSE
           /\ NoDomain(g).gen = g
           /\ NoDomain(g).alloc = NoAlloc
BY DEF NoDomain, DomainObject, NoAlloc, NoRecord, Record

\* A peer that does not exist has the type of one, and no route.
LEMMA NoPeerType ==
    /\ NoPeer \in Peer
    /\ NoPeer.routes \in Routes
    /\ \A u \in Pods : NoPeer.routes[u] = NoRoute
BY DEF NoPeer, Peer, Routes

\* A reconcile that does nothing plans nothing.
LEMMA NoPlanType ==
    /\ NoPlan \in Plan
    /\ NoPlan.copy = NoDomain(0)
    /\ NoPlan.alloc = NoAlloc
    /\ NoPlan.routes = NoPeer.routes
    /\ NoPlan.todo = {} /\ NoPlan.known = {}
<1>1. 0 \in 0..MaxGen
  BY DomainAssumption
<1>2. NoAlloc \in [Keys -> Record]
  BY DEF NoAlloc, NoRecord, Record
<1> QED
  BY <1>1, <1>2, NoDomainType, NoPeerType DEF NoPlan, Plan

\* A route has an address; no route has none.
LEMMA RouteAddress ==
    ASSUME NEW routes \in Routes, NEW u \in Pods
    PROVE  /\ routes[u] # NoRoute => /\ routes[u].key \in Keys
                                     /\ routes[u].ip \in Addrs
                                     /\ routes[u].ip # 0
           /\ routes[u] = NoRoute => routes[u].ip = 0
BY DomainAssumption DEF Routes, Route, NoRoute

\* There are finitely many keys, so that records can be counted.
LEMMA KeysFinite == IsFiniteSet(Keys)
BY DomainAssumption, FS_Product DEF Keys

\* The cluster of a key is one of the clusters.
LEMMA ClusterOfKey == \A k \in Keys : Cluster(k) \in Namespaces
BY DEF Keys, Cluster

\* Having no record is sound.
LEMMA EmptySound ==
    /\ NoAlloc \in [Keys -> Record]
    /\ Sound(NoAlloc)
BY DEF NoAlloc, NoRecord, Sound, Record

\* Having no route is sound.
LEMMA EmptyRoutes ==
    ASSUME NEW alloc, NEW dropped
    PROVE  Injective(NoPeer.routes) /\ Backed(NoPeer.routes, alloc, dropped)
BY NoPeerType DEF Injective, Backed

----------------------------------------------------------------------------
(* One pass.                                                                *)

\* The Pods that reclaim a record have different keys and different addresses.
LEMMA ReclaimFacts ==
    ASSUME NEW old \in [Keys -> Record], NEW ps \in [Pods -> PodReport],
           NEW R \in Reclaims(old, ps)
    PROVE  /\ R \subseteq Live(ps)
           /\ \A u \in R : /\ ps[u].key \in Keys
                           /\ Recorded(old, ps, u) \in Addrs
           /\ \A u, v \in R : u # v => /\ ps[u].key # ps[v].key
                                       /\ Recorded(old, ps, u) # Recorded(old, ps, v)
<1>1. /\ R \subseteq Live(ps)
      /\ \A u \in R : Recorded(old, ps, u) # 0
      /\ \A u \in R : \A v \in R \ {u} : ~Rivals(old, ps, u, v)
  BY DEF Reclaims
<1>2. \A u \in Live(ps) : u \in Pods /\ ps[u].key \in Keys
  BY DEF Live, PodReport, NoPod
<1>3. \A u \in R : Recorded(old, ps, u) \in Addrs
  BY <1>1, <1>2 DEF Recorded, Record
<1> QED
  BY <1>1, <1>2, <1>3 DEF Rivals

\* The kept records have addresses, and different ones; a record that is not
\* kept has expired.
LEMMA KeptFacts ==
    ASSUME NEW old \in [Keys -> Record], NEW ps \in [Pods -> PodReport], Sound(old),
           NEW R \in Reclaims(old, ps), NEW D \in Expiries(old, ps, R),
           NEW kept, kept = Kept(old, ps, R, D)
    PROVE  /\ kept \subseteq Keys
           /\ ReclaimedKeys(ps, R) \subseteq kept
           /\ \A k \in kept : old[k].first \in Addrs
           /\ \A j, k \in kept : j # k => old[j].first # old[k].first
           /\ {k \in Keys : old[k].first # 0} \ kept \subseteq D
<1>1. \A k \in ReclaimedKeys(ps, R) : k \in Keys /\ old[k].first \in Addrs
  BY ReclaimFacts DEF ReclaimedKeys, Recorded
<1>2. \A k \in Unclaimed(old, ps, R) : k \in Keys /\ old[k].first \in Addrs
  BY DEF Unclaimed, Record
<1>3. \A k \in kept : k \in Keys /\ old[k].first \in Addrs
  BY <1>1, <1>2 DEF Kept
<1>4. \A j, k \in Keys :
        j # k /\ old[j].first \in Addrs /\ old[k].first \in Addrs
        => old[j].first # old[k].first
  BY DomainAssumption DEF Sound
<1>5. Conflicting(old, ps, R) = {}
  <2>1. SUFFICES ASSUME NEW k \in Unclaimed(old, ps, R), NEW u \in R,
                        Recorded(old, ps, u) = old[k].first
                 PROVE  FALSE
    BY DEF Conflicting
  <2>2. k \notin ReclaimedKeys(ps, R) /\ ps[u].key \in ReclaimedKeys(ps, R)
    BY DEF Unclaimed, ReclaimedKeys
  <2> QED
    BY <2>1, <2>2, <1>1, <1>2, <1>4 DEF Recorded
<1>6. {k \in Keys : old[k].first # 0} \ kept \subseteq D
  BY <1>5 DEF Kept, Unclaimed
<1> QED
  BY <1>3, <1>4, <1>6 DEF Kept

\* A pass takes the records of no more keys than it may.
LEMMA ExpiryBound ==
    ASSUME NEW old \in [Keys -> Record], NEW ps \in [Pods -> PodReport],
           NEW R \in Reclaims(old, ps), NEW D \in Expiries(old, ps, R)
    PROVE  \/ D = {}
           \/ Cardinality(D) + Retain <= Cardinality({k \in Keys : old[k].first # 0})
<1> DEFINE recorded == {k \in Keys : old[k].first # 0}
           unclaimed == Unclaimed(old, ps, R)
           count == IF Cardinality(unclaimed) > Retain
                    THEN Cardinality(unclaimed) - Retain ELSE 0
<1>1. unclaimed \subseteq recorded /\ IsFiniteSet(recorded)
  BY KeysFinite, FS_Subset DEF Unclaimed
<1>2. /\ IsFiniteSet(unclaimed)
      /\ Cardinality(unclaimed) \in Nat /\ Cardinality(recorded) \in Nat
      /\ Cardinality(unclaimed) <= Cardinality(recorded)
  BY <1>1, FS_Subset, FS_CardinalityType
<1>3. D \subseteq unclaimed /\ (Cardinality(D) = count \/ Cardinality(D) < count)
  BY DEF Expiries
<1>4. IsFiniteSet(D) /\ Cardinality(D) \in Nat
  BY <1>2, <1>3, FS_Subset, FS_CardinalityType
<1>5. ASSUME D # {} PROVE Cardinality(D) # 0
  BY <1>4, <1>5, FS_EmptySet
<1>6. Retain \in Nat
  BY DomainAssumption
<1> HIDE DEF recorded, unclaimed
<1>7. D # {} => Cardinality(D) + Retain <= Cardinality(recorded)
  BY <1>2, <1>3, <1>4, <1>5, <1>6
<1> QED
  BY <1>7 DEF recorded

\* What a pass hands out is in the range and occupied by no kept record.
LEMMA FreshFacts ==
    ASSUME NEW old, NEW kept, NEW range \in SUBSET Addrs, NEW new, NEW n,
           NEW fresh \in Injections(new, Lowest(n, Free(range, old, kept)))
    PROVE  /\ DOMAIN fresh = new
           /\ \A u \in new : /\ fresh[u] \in Addrs
                             /\ \A k \in kept : fresh[u] # old[k].first
           /\ \A u, v \in new : u # v => fresh[u] # fresh[v]
BY DEF Injections, Lowest, Free

\* The outcome of a pass: its records are sound, no Pod shares an address, the
\* routes are those recorded, and no more records than may are gone.
LEMMA PassOutcome ==
    ASSUME NEW old \in [Keys -> Record], NEW ps \in [Pods -> PodReport], Sound(old),
           NEW range \in SUBSET Addrs,
           NEW R \in Reclaims(old, ps), NEW D \in Expiries(old, ps, R),
           NEW kept, kept = Kept(old, ps, R, D), NEW n,
           NEW fresh \in Injections(Live(ps) \ R, Lowest(n, Free(range, old, kept))),
           NEW alloc \in NewAllocs(old, ps, kept, fresh),
           NEW routes, routes = NewRoutes(old, ps, R, fresh)
    PROVE  /\ alloc \in [Keys -> Record] /\ routes \in Routes
           /\ Sound(alloc) /\ Sticky(old, alloc)
           /\ Injective(routes) /\ Backed(routes, alloc, {})
<1> DEFINE mine(k) == {fresh[u] : u \in {v \in DOMAIN fresh : ps[v].key = k}}
           new(k) == {old[j].first : j \in kept \cap {k}} \cup mine(k)
<1>1. /\ R \subseteq Live(ps)
      /\ \A u \in R : ps[u].key \in Keys /\ Recorded(old, ps, u) \in Addrs
      /\ \A u, v \in R : u # v => /\ ps[u].key # ps[v].key
                                  /\ Recorded(old, ps, u) # Recorded(old, ps, v)
  BY ReclaimFacts
<1>2. /\ kept \subseteq Keys
      /\ ReclaimedKeys(ps, R) \subseteq kept
      /\ \A k \in kept : old[k].first \in Addrs
      /\ \A j, k \in kept : j # k => old[j].first # old[k].first
      /\ {k \in Keys : old[k].first # 0} \ kept \subseteq D
  BY KeptFacts
<1>3. /\ DOMAIN fresh = Live(ps) \ R
      /\ \A u \in DOMAIN fresh : /\ fresh[u] \in Addrs
                                 /\ \A k \in kept : fresh[u] # old[k].first
      /\ \A u, v \in DOMAIN fresh : u # v => fresh[u] # fresh[v]
  BY FreshFacts
<1>4. \A u \in Live(ps) : u \in Pods /\ ps[u].key \in Keys
  BY DEF Live, PodReport, NoPod
<1>5. PICK g \in [Keys -> Addrs \cup {0}] :
        /\ \A k \in Keys : g[k] \in IF new(k) = {} THEN {0} ELSE new(k)
        /\ alloc = [k \in Keys |-> [first |-> g[k], all |-> new(k)]]
  BY Zenon DEF NewAllocs
<1>6. \A k \in Keys : \A a \in new(k) :
        \/ k \in kept /\ a = old[k].first
        \/ \E u \in DOMAIN fresh : ps[u].key = k /\ a = fresh[u]
  OBVIOUS
<1>7. \A k \in kept : old[k].first \in new(k)
  OBVIOUS
<1>8. \A u \in DOMAIN fresh : fresh[u] \in new(ps[u].key)
  OBVIOUS
<1> HIDE DEF new, mine
<1>9. \A k \in Keys : new(k) \subseteq Addrs
  BY <1>2, <1>3, <1>6
<1>10. /\ alloc \in [Keys -> Record]
       /\ \A k \in Keys : alloc[k].first = g[k] /\ alloc[k].all = new(k)
  BY <1>5, <1>9 DEF Record
<1>11. Sound(alloc)
  <2>1. \A k \in Keys : alloc[k].first # 0 => alloc[k].first \in alloc[k].all
    BY <1>5, <1>10
  <2>2. ASSUME NEW j \in Keys, NEW k \in Keys, NEW a \in new(j), a \in new(k)
        PROVE  j = k
    <3>1. CASE j \in kept /\ a = old[j].first
      BY <3>1, <2>2, <1>2, <1>3, <1>6
    <3>2. CASE \E u \in DOMAIN fresh : ps[u].key = j /\ a = fresh[u]
      BY <3>2, <2>2, <1>3, <1>6
    <3> QED
      BY <3>1, <3>2, <1>6
  <2>3. \A j, k \in Keys : j # k => alloc[j].all \cap alloc[k].all = {}
    BY <2>2, <1>10
  <2> QED
    BY <2>1, <2>3 DEF Sound
<1>12. Sticky(old, alloc)
  <2>1. \A k \in kept : old[k].first \in old[k].all
    BY <1>2, DomainAssumption DEF Sound
  <2>2. \A k \in kept : old[k].all \cap alloc[k].all # {}
    BY <2>1, <1>2, <1>7, <1>10
  <2> DEFINE recorded == {k \in Keys : old[k].first # 0}
             lost == {k \in recorded : old[k].all \cap alloc[k].all = {}}
  <2>3. lost \subseteq D
    BY <2>2, <1>2
  <2>4. D \subseteq Keys
    BY DEF Expiries, Unclaimed
  <2>5. IsFiniteSet(D) /\ IsFiniteSet(recorded) /\ IsFiniteSet(lost)
    BY <2>3, <2>4, KeysFinite, FS_Subset
  <2>6. /\ Cardinality(lost) <= Cardinality(D)
        /\ Cardinality(lost) \in Nat /\ Cardinality(D) \in Nat
        /\ Cardinality(recorded) \in Nat
    BY <2>3, <2>5, FS_Subset, FS_CardinalityType
  <2>7. D = {} \/ Cardinality(D) + Retain <= Cardinality(recorded)
    BY ExpiryBound
  <2>8. Retain \in Nat
    BY DomainAssumption
  <2>9. D = {} => lost = {}
    BY <2>3
  <2> HIDE DEF lost, recorded
  <2>10. lost = {} \/ Cardinality(lost) + Retain <= Cardinality(recorded)
    BY <2>6, <2>7, <2>8, <2>9
  <2> QED
    BY <2>10 DEF lost, recorded, Sticky
<1>13. \A u \in Pods :
         /\ u \in R =>
              routes[u] = [key |-> ps[u].key, ip |-> Recorded(old, ps, u)]
         /\ u \in DOMAIN fresh => routes[u] = [key |-> ps[u].key, ip |-> fresh[u]]
         /\ u \notin R /\ u \notin DOMAIN fresh => routes[u] = NoRoute
  BY <1>3 DEF NewRoutes
<1> DEFINE Serves(u, a) ==
       /\ routes[u] \in Route
       /\ routes[u].key = ps[u].key /\ routes[u].key \in Keys
       /\ routes[u].ip = a
<1>14. \A k \in Keys, a \in Addrs :
        /\ [key |-> k, ip |-> a] \in Route
        /\ [key |-> k, ip |-> a].key = k
        /\ [key |-> k, ip |-> a].ip = a
  BY DEF Route
<1>15. \A u \in R : u \in Pods /\ Serves(u, Recorded(old, ps, u))
  <2>1. TAKE u \in R
  <2>2. u \in Pods /\ ps[u].key \in Keys /\ Recorded(old, ps, u) \in Addrs
    BY <1>1, <1>4
  <2>3. routes[u] = [key |-> ps[u].key, ip |-> Recorded(old, ps, u)]
    BY <2>2, <1>13
  <2> QED
    BY <2>2, <2>3, <1>14
<1>16. \A u \in DOMAIN fresh : u \in Pods /\ Serves(u, fresh[u])
  <2>1. TAKE u \in DOMAIN fresh
  <2>2. u \in Pods /\ ps[u].key \in Keys /\ fresh[u] \in Addrs
    BY <1>3, <1>4
  <2>3. routes[u] = [key |-> ps[u].key, ip |-> fresh[u]]
    BY <2>2, <1>13
  <2> QED
    BY <2>2, <2>3, <1>14
<1>17. \A u \in Pods : u \in R \/ u \in DOMAIN fresh \/ routes[u] = NoRoute
  BY <1>13
<1>18. routes \in Routes
  <2>1. \A u \in Pods : routes[u] \in Route \cup {NoRoute}
    BY <1>15, <1>16, <1>17
  <2>2. routes = [u \in Pods |-> routes[u]]
    BY DEF NewRoutes
  <2> QED
    BY <2>1, <2>2 DEF Routes
<1>19. \A u \in R : ps[u].key \in kept /\ Recorded(old, ps, u) = old[ps[u].key].first
  BY <1>2 DEF ReclaimedKeys, Recorded
<1>20. Backed(routes, alloc, {})
  <2>1. \A u \in Pods : u \in R => routes[u].ip \in alloc[routes[u].key].all
    BY <1>7, <1>10, <1>19, <1>15
  <2>2. \A u \in Pods : u \in DOMAIN fresh => routes[u].ip \in alloc[routes[u].key].all
    BY <1>8, <1>10, <1>16
  <2> QED
    BY <2>1, <2>2, <1>17 DEF Backed
<1>21. Injective(routes)
  <2>1. SUFFICES ASSUME NEW u \in Pods, NEW v \in Pods, u # v, routes[u] # NoRoute
                 PROVE  routes[u].ip # routes[v].ip
    BY DEF Injective
  <2>2. ASSUME routes[v] = NoRoute PROVE routes[u].ip # routes[v].ip
    BY <2>1, <2>2, <1>18, RouteAddress
  <2>3. ASSUME u \in R, v \in R PROVE routes[u].ip # routes[v].ip
    BY <2>1, <2>3, <1>1, <1>15
  <2>4. ASSUME u \in DOMAIN fresh, v \in DOMAIN fresh PROVE routes[u].ip # routes[v].ip
    BY <2>1, <2>4, <1>3, <1>16
  <2>5. ASSUME u \in DOMAIN fresh, v \in R PROVE routes[u].ip # routes[v].ip
    BY <2>1, <2>5, <1>3, <1>19, <1>15, <1>16
  <2>6. ASSUME u \in R, v \in DOMAIN fresh PROVE routes[u].ip # routes[v].ip
    BY <2>1, <2>6, <1>3, <1>19, <1>15, <1>16
  <2> QED
    BY <2>1, <2>2, <2>3, <2>4, <2>5, <2>6, <1>17
<1> QED
  BY <1>10, <1>11, <1>12, <1>18, <1>20, <1>21

----------------------------------------------------------------------------
(* Records and routes through a step.                                       *)

\* The status of a pass replaces the records and nothing that names the Domain.
LEMMA RecordUpdate ==
    ASSUME NEW d \in DomainObject, NEW alloc \in [Keys -> Record],
           NEW e, e = [d EXCEPT !.alloc = alloc, !.observed = TRUE]
    PROVE  e \in DomainObject /\ e.alloc = alloc
BY DEF DomainObject

\* The fields of a Domain.
LEMMA DomainFields ==
    ASSUME NEW d \in DomainObject
    PROVE  /\ d.exists \in BOOLEAN /\ d.observed \in BOOLEAN
           /\ d.gen \in 0..MaxGen
           /\ d.cidr \in Ranges \cup {Invalid}
           /\ d.alloc \in [Keys -> Record]
BY DEF DomainObject

\* The fields of what a reconcile carries.
LEMMA PlanFields ==
    ASSUME NEW p \in Plan
    PROVE  /\ p.copy \in DomainObject
           /\ p.alloc \in [Keys -> Record]
           /\ p.routes \in Routes
           /\ p.todo \subseteq Namespaces
           /\ p.known \subseteq Namespaces
BY DEF Plan

\* The fields of what the informers remember.
LEMMA CacheFields ==
    ASSUME TypeOK
    PROVE  /\ cache.domain \in DomainObject
           /\ cache.pods \in [Pods -> PodReport]
           /\ cache.peers \in [Namespaces -> Peer]
BY DEF TypeOK

\* Whatever a record loses is dropped.
LEMMA DroppedFacts ==
    ASSUME NEW old \in [Keys -> Record], NEW new \in [Keys -> Record]
    PROVE  /\ Dropped(old, new) \subseteq Addrs
           /\ \A k \in Keys : old[k].all \subseteq new[k].all \cup Dropped(old, new)
<1>1. \A k \in Keys : old[k].all \subseteq Addrs
  BY DEF Record
<1> QED
  BY <1>1 DEF Dropped

\* Routes stay backed by records that lose only what is dropped.
LEMMA BackedKept ==
    ASSUME NEW routes \in Routes, NEW old, NEW new, NEW was, NEW dropped,
           Backed(routes, old, was), was \subseteq dropped,
           \A k \in Keys : old[k].all \subseteq new[k].all \cup dropped
    PROVE  Backed(routes, new, dropped)
<1>1. \A u \in Pods : routes[u] # NoRoute => routes[u].key \in Keys
  BY RouteAddress
<1> QED
  BY <1>1 DEF Backed

----------------------------------------------------------------------------
(* What the parts of CoreInv read.                                          *)

\* What the API server keeps stays sound while nobody writes.
LEMMA SameStored ==
    ASSUME Stored, UNCHANGED <<domain, peers, handed>>
    PROVE  Stored'
BY DEF Stored, Sound, Injective, Backed

\* What is remembered of the records stays sound while nobody writes or syncs
\* them.
LEMMA SameRemembered ==
    ASSUME Remembered, UNCHANGED <<domain, handed>>, cache'.domain = cache.domain
    PROVE  Remembered'
BY DEF Remembered, Sound

\* What is planned stays sound while the reconcile stands still.
LEMMA SamePlanned ==
    ASSUME Planned, UNCHANGED <<domain, handed, pc, plan>>
    PROVE  Planned'
BY DEF Planned, Sound, Sticky, Injective, Backed

\* Before and after its writes a reconcile owes nothing.
LEMMA NothingPlanned ==
    ASSUME pc' \notin {"status", "peers"}
    PROVE  Planned'
BY DEF Planned

----------------------------------------------------------------------------
(* How a reconcile goes on.                                                 *)

\* A reconcile that ends plans no write.
LEMMA FinishStep ==
    ASSUME Finish
    PROVE  plan' \in Plan /\ pc' \in PCs /\ pc' \notin {"status", "peers"}
BY NoPlanType DEF Finish, PCs

\* A reconcile that is retried plans no write.
LEMMA RetryStep ==
    ASSUME Retry
    PROVE  /\ plan' \in Plan /\ pc' \in PCs /\ pc' \notin {"status", "peers"}
           /\ queued' = TRUE
BY FinishStep DEF Retry

\* A reconcile that goes on to delete peers plans no write.
LEMMA DeletesStep ==
    ASSUME NEW ns \in SUBSET Namespaces, GoOnWithDeletes(ns)
    PROVE  plan' \in Plan /\ pc' \in PCs /\ pc' \notin {"status", "peers"}
<1>1. [NoPlan EXCEPT !.todo = ns] \in Plan
  BY NoPlanType DEF Plan
<1> QED
  BY <1>1, FinishStep DEF GoOnWithDeletes, PCs

\* A reconcile that goes on to write peers keeps the routes it planned.
LEMMA PeersStep ==
    ASSUME NEW p \in Plan, GoOnWithPeers(p)
    PROVE  /\ plan' \in Plan /\ pc' \in PCs /\ pc' # "status"
           /\ pc' = "peers" => plan'.routes = p.routes
<1>1. [NoPlan EXCEPT !.known = p.known] \in Plan
  BY NoPlanType DEF Plan
<1>2. [p EXCEPT !.copy = NoPlan.copy, !.alloc = NoAlloc] \in Plan
  BY NoPlanType, EmptySound, PlanFields DEF Plan
<1>3. [p EXCEPT !.copy = NoPlan.copy, !.alloc = NoAlloc].routes = p.routes
  BY DEF Plan
<1> QED
  BY <1>1, <1>2, <1>3 DEF GoOnWithPeers, PCs

\* The peers are written from routes that the stored Domain backs.
LEMMA PeersPlanned ==
    ASSUME NEW p \in Plan, GoOnWithPeers(p), Injective(p.routes),
           Backed(p.routes, domain.alloc, handed)'
    PROVE  Planned'
<1>1. pc' # "status" /\ (pc' = "peers" => plan'.routes = p.routes)
  BY PeersStep
<1>2. p.routes = plan'.routes =>
        Injective(plan'.routes) /\ Backed(plan'.routes, domain'.alloc, handed')
  OBVIOUS
<1> QED
  BY <1>1, <1>2 DEF Planned, Injective, Backed

----------------------------------------------------------------------------
(* The steps of the controller.                                             *)

\* A plan that keeps the records of its copy, and publishes nothing.
LEMMA SameRecordsPlan ==
    ASSUME NEW d \in DomainObject, Sound(d.alloc),
           NEW p, p = [NoPlan EXCEPT !.copy = d, !.alloc = d.alloc]
    PROVE  /\ p \in Plan
           /\ Sound(p.alloc) /\ Sticky(p.copy.alloc, p.alloc)
           /\ Injective(p.routes) /\ Backed(p.routes, p.alloc, {})
<1>1. /\ p \in Plan
      /\ p.copy = d /\ p.alloc = d.alloc /\ p.routes = NoPeer.routes
  BY NoPlanType, DomainFields DEF Plan
<1>2. {k \in {j \in Keys : d.alloc[j].first # 0} : d.alloc[k].all \cap d.alloc[k].all = {}} = {}
  BY DEF Sound
<1> QED
  BY <1>1, <1>2, EmptyRoutes DEF Sticky

\* The plan of a pass has its type, and the records and routes it is made of.
LEMMA PassPlanType ==
    ASSUME NEW d \in DomainObject, NEW ps \in [Pods -> PodReport],
           NEW alloc \in [Keys -> Record], NEW routes \in Routes,
           NEW p, p = PassPlan(d, ps, alloc, routes)
    PROVE  /\ p \in Plan
           /\ p.copy = d /\ p.alloc = alloc /\ p.routes = routes
<1>1. \A u \in Pods : ps[u] # NoPod => Cluster(ps[u].key) \in Namespaces
  BY ClusterOfKey DEF PodReport
<1>2. \A u \in Live(ps) : u \in Pods /\ ps[u] # NoPod
  BY DEF Live, NoPod
<1>3. /\ {Cluster(ps[u].key) : u \in Live(ps)} \subseteq Namespaces
      /\ {Cluster(ps[u].key) : u \in {v \in Pods : ps[v] # NoPod}} \subseteq Namespaces
  BY <1>1, <1>2
<1> QED
  BY <1>3 DEF PassPlan, Plan

\* What a pass computes from its caches is sound, so it may be written.
LEMMA StartStep ==
    ASSUME CoreInv, Start
    PROVE  CoreInv'
<1> USE DEF CoreInv
<1>1. /\ domain \in DomainObject /\ domain' = domain
      /\ cache' = cache /\ UNCHANGED <<stored, lastPod, changes, handed, faults>>
      /\ cache.domain \in DomainObject /\ cache.pods \in [Pods -> PodReport]
  BY CacheFields DEF Start, TypeOK, stored
<1>2. Stored' /\ Remembered'
  BY <1>1, SameStored, SameRemembered DEF stored
<1>3. plan' \in Plan /\ pc' \in PCs /\ queued' \in BOOLEAN => TypeOK'
  BY <1>1 DEF TypeOK, stored
<1>4. CASE StartDeleted
  <2>1. Listed \in SUBSET Namespaces /\ GoOnWithDeletes(Listed) /\ queued' \in BOOLEAN
    BY <1>4 DEF StartDeleted, Listed
  <2>2. plan' \in Plan /\ pc' \in PCs /\ pc' \notin {"status", "peers"}
    BY <2>1, DeletesStep
  <2> QED
    BY <2>1, <2>2, <1>2, <1>3, NothingPlanned
<1>5. CASE StartInvalid
  <2>1. queued' \in BOOLEAN
    BY <1>5 DEF StartInvalid
  <2>2. CASE Finish
    BY <2>1, <2>2, <1>2, <1>3, FinishStep, NothingPlanned
  <2>3. CASE /\ pc' = "status"
             /\ plan' = [NoPlan EXCEPT !.copy = cache.domain, !.alloc = cache.domain.alloc]
    <3>1. PICK p : p = [NoPlan EXCEPT !.copy = cache.domain, !.alloc = cache.domain.alloc]
      OBVIOUS
    <3>2. /\ p \in Plan /\ plan' = p
          /\ Sound(p.alloc) /\ Sticky(p.copy.alloc, p.alloc)
          /\ Injective(p.routes) /\ Backed(p.routes, p.alloc, {})
      BY <2>3, <3>1, <1>1, SameRecordsPlan DEF Remembered
    <3>3. Planned'
      BY <3>2, <2>3 DEF Planned
    <3> QED
      BY <3>2, <3>3, <2>1, <2>3, <1>2, <1>3 DEF PCs
  <2> QED
    BY <1>5, <2>2, <2>3 DEF StartInvalid
<1>6. CASE StartPass
  <2> DEFINE d == cache.domain
             old == d.alloc
             ps == cache.pods
  <2>1. d.cidr \in SUBSET Addrs /\ old \in [Keys -> Record] /\ Sound(old)
    BY <1>1, <1>6, DomainFields, DomainAssumption DEF StartPass, Remembered
  <2>2. PICK R \in Reclaims(old, ps) : \E D \in Expiries(old, ps, R) :
          \/ Retry
          \/ /\ \E fresh \in Injections(Live(ps) \ R, Lowest(Cardinality(Live(ps) \ R),
                                        Free(d.cidr, old, Kept(old, ps, R, D)))) :
                \E alloc \in NewAllocs(old, ps, Kept(old, ps, R, D), fresh) :
                   GoOnWithStatus(PassPlan(d, ps, alloc, NewRoutes(old, ps, R, fresh)))
             /\ queued' = FALSE
    BY <1>6 DEF StartPass
  <2>3. CASE Retry
    BY <2>3, <1>2, <1>3, RetryStep, NothingPlanned
  <2>4. CASE ~Retry
    <3>1. PICK D \in Expiries(old, ps, R) :
            \E fresh \in Injections(Live(ps) \ R, Lowest(Cardinality(Live(ps) \ R),
                                    Free(d.cidr, old, Kept(old, ps, R, D)))) :
               \E alloc \in NewAllocs(old, ps, Kept(old, ps, R, D), fresh) :
                  GoOnWithStatus(PassPlan(d, ps, alloc, NewRoutes(old, ps, R, fresh)))
      BY <2>2, <2>4
    <3>2. PICK fresh \in Injections(Live(ps) \ R, Lowest(Cardinality(Live(ps) \ R),
                                    Free(d.cidr, old, Kept(old, ps, R, D)))) :
            \E alloc \in NewAllocs(old, ps, Kept(old, ps, R, D), fresh) :
               GoOnWithStatus(PassPlan(d, ps, alloc, NewRoutes(old, ps, R, fresh)))
      BY <3>1
    <3>3. PICK alloc \in NewAllocs(old, ps, Kept(old, ps, R, D), fresh) :
            GoOnWithStatus(PassPlan(d, ps, alloc, NewRoutes(old, ps, R, fresh)))
      BY <3>2
    <3>4. PICK routes, p : /\ routes = NewRoutes(old, ps, R, fresh)
                           /\ p = PassPlan(d, ps, alloc, routes)
      OBVIOUS
    <3>5. /\ alloc \in [Keys -> Record] /\ routes \in Routes
          /\ Sound(alloc) /\ Sticky(old, alloc)
          /\ Injective(routes) /\ Backed(routes, alloc, {})
      BY <3>4, <2>1, <1>1, PassOutcome
    <3>6. /\ p \in Plan
          /\ p.copy = cache.domain /\ p.alloc = alloc /\ p.routes = routes
      BY <3>4, <3>5, <1>1, PassPlanType
    <3>7. GoOnWithStatus(p) /\ queued' \in BOOLEAN
      BY <3>3, <3>4, <2>2, <2>4
    <3>8. CASE pc' = "status" /\ plan' = p
      <4>1. Planned'
        BY <3>5, <3>6, <3>8 DEF Planned
      <4> QED
        BY <4>1, <3>6, <3>7, <3>8, <1>2, <1>3 DEF PCs
    <3>9. CASE alloc = old /\ GoOnWithPeers(p)
      <4>1. \A k \in Keys : alloc[k].all \subseteq domain.alloc[k].all \cup handed
        BY <3>9 DEF Remembered
      <4>2. Backed(routes, domain.alloc, handed)
        BY <4>1, <3>5, BackedKept
      <4>3. Backed(p.routes, domain.alloc, handed)'
        BY <4>2, <3>6, <1>1 DEF Backed
      <4>4. Planned'
        BY <4>3, <3>5, <3>6, <3>9, PeersPlanned
      <4> QED
        BY <4>4, <3>6, <3>7, <3>9, <1>2, <1>3, PeersStep
    <3> QED
      BY <3>6, <3>7, <3>8, <3>9 DEF GoOnWithStatus
  <2> QED
    BY <2>3, <2>4
<1> QED
  BY <1>4, <1>5, <1>6 DEF Start

\* The records are written only over the version they were computed from.
LEMMA UpdateStatusStep ==
    ASSUME CoreInv, UpdateStatus
    PROVE  CoreInv'
<1> USE DEF CoreInv
<1>1. /\ pc = "status" /\ UNCHANGED <<pods, peers, cache, lastPod, changes, faults>>
      /\ domain \in DomainObject /\ plan \in Plan /\ handed \subseteq Addrs
      /\ queued \in BOOLEAN
  BY DEF UpdateStatus, TypeOK
<1>2. /\ domain' \in DomainObject /\ queued' \in BOOLEAN /\ handed' \subseteq Addrs
      /\ plan' \in Plan /\ pc' \in PCs
      => TypeOK'
  BY <1>1 DEF TypeOK
<1>3. CASE Accepts(domain, plan.copy)
  <2>1. /\ domain' = [domain EXCEPT !.alloc = plan.alloc, !.observed = TRUE]
        /\ handed' = handed \cup Dropped(domain.alloc, plan.alloc)
        /\ queued' = queued
        /\ Finish \/ GoOnWithPeers(plan)
    BY <1>3 DEF UpdateStatus
  <2>2. /\ plan.alloc \in [Keys -> Record] /\ plan.routes \in Routes
        /\ domain.alloc \in [Keys -> Record]
    BY <1>1, PlanFields, DomainFields
  <2>3. domain' \in DomainObject /\ domain'.alloc = plan.alloc
    BY <2>1, <2>2, <1>1, RecordUpdate
  <2>4. /\ handed' \subseteq Addrs /\ handed \subseteq handed'
        /\ \A k \in Keys : domain.alloc[k].all \subseteq domain'.alloc[k].all \cup handed'
    BY <2>1, <2>2, <2>3, <1>1, DroppedFacts
  <2>5. Stored'
    <3>1. \A n \in Namespaces : peers[n].routes \in Routes
      BY DEF TypeOK, Peer
    <3>2. \A n \in Namespaces : Injective(peers[n].routes)
                                /\ Backed(peers[n].routes, domain'.alloc, handed')
      BY <3>1, <2>4, BackedKept DEF Stored
    <3>3. Sound(domain'.alloc)
      BY <2>3, <1>1 DEF Planned
    <3> QED
      BY <3>2, <3>3, <1>1 DEF Stored, Sound, Injective, Backed
  <2>6. Remembered'
    BY <2>4, <1>1 DEF Remembered, Sound
  <2>7. PICK p \in Plan : p = plan
    BY <1>1
  <2>8. Injective(p.routes) /\ Backed(p.routes, domain'.alloc, handed')
    <3>1. Injective(p.routes) /\ Backed(p.routes, p.alloc, {})
      BY <2>7, <1>1 DEF Planned
    <3>2. /\ \A k \in Keys : p.alloc[k].all \subseteq domain'.alloc[k].all \cup handed'
          /\ {} \subseteq handed' /\ p.routes \in Routes
      BY <2>3, <2>7, PlanFields
    <3> QED
      BY <3>1, <3>2, BackedKept
  <2>9. CASE Finish
    BY <2>1, <2>3, <2>4, <2>5, <2>6, <2>9, <1>1, <1>2, FinishStep, NothingPlanned
  <2>10. CASE GoOnWithPeers(plan)
    <3>1. Backed(p.routes, domain.alloc, handed)'
      BY <2>8 DEF Backed
    <3>2. Planned' /\ plan' \in Plan /\ pc' \in PCs
      BY <3>1, <2>7, <2>8, <2>10, PeersPlanned, PeersStep
    <3> QED
      BY <3>2, <2>1, <2>3, <2>4, <2>5, <2>6, <1>1, <1>2
  <2> QED
    BY <2>1, <2>9, <2>10
<1>4. CASE ~Accepts(domain, plan.copy)
  <2>1. Retry /\ UNCHANGED <<domain, handed>>
    BY <1>4 DEF UpdateStatus
  <2>2. Stored' /\ Remembered'
    BY <2>1, <1>1, SameStored, SameRemembered
  <2> QED
    BY <2>1, <2>2, <1>1, <1>2, RetryStep, NothingPlanned
<1> QED
  BY <1>3, <1>4

\* Peers whose routes the stored Domain backs may be written.
LEMMA PeersWritten ==
    ASSUME Stored, peers \in [Namespaces -> Peer], UNCHANGED <<domain, handed>>,
           NEW n \in Namespaces, NEW r \in Peer,
           Injective(r.routes), Backed(r.routes, domain.alloc, handed),
           peers' = [peers EXCEPT ![n] = r]
    PROVE  peers' \in [Namespaces -> Peer] /\ Stored'
<1>1. /\ peers' \in [Namespaces -> Peer]
      /\ \A m \in Namespaces : peers'[m] = IF m = n THEN r ELSE peers[m]
  OBVIOUS
<1>2. \A m \in Namespaces : Injective(peers'[m].routes)
                            /\ Backed(peers'[m].routes, domain.alloc, handed)
  BY <1>1 DEF Stored
<1> QED
  BY <1>1, <1>2 DEF Stored, Sound, Injective, Backed

\* The routes are written after the records they rest on.
LEMMA WritePeerStep ==
    ASSUME CoreInv, WritePeer
    PROVE  CoreInv'
<1> USE DEF CoreInv
<1>1. /\ pc = "peers" /\ UNCHANGED <<domain, pods, cache, lastPod, changes, handed, faults>>
      /\ plan \in Plan /\ peers \in [Namespaces -> Peer] /\ queued \in BOOLEAN
  BY DEF WritePeer, TypeOK
<1>2. /\ peers' \in [Namespaces -> Peer] /\ queued' \in BOOLEAN
      /\ plan' \in Plan /\ pc' \in PCs
      => TypeOK'
  BY <1>1 DEF TypeOK
<1>3. Remembered'
  BY <1>1, SameRemembered
<1>4. /\ Injective(plan.routes) /\ Backed(plan.routes, domain.alloc, handed)
      /\ plan.routes \in Routes /\ plan.todo \subseteq Namespaces
  BY <1>1, PlanFields DEF Planned
<1>5. CASE Retry /\ UNCHANGED peers
  <2>1. Stored'
    BY <1>1, <1>5, SameStored
  <2> QED
    BY <2>1, <1>1, <1>2, <1>3, <1>5, RetryStep, NothingPlanned
<1>6. CASE ~(Retry /\ UNCHANGED peers)
  <2>1. PICK n \in plan.todo :
          /\ \/ peers' = [peers EXCEPT ![n] = [exists |-> TRUE, routes |-> plan.routes]]
             \/ peers' = peers
          /\ GoOnWithPeers([plan EXCEPT !.todo = @ \ {n}])
          /\ queued' = queued
    BY <1>6 DEF WritePeer
  <2>2. PICK p : p = [plan EXCEPT !.todo = @ \ {n}]
    OBVIOUS
  <2>3. p \in Plan /\ p.routes = plan.routes
    BY <2>2, <1>1, <1>4 DEF Plan
  <2>4. /\ [exists |-> TRUE, routes |-> plan.routes] \in Peer
        /\ [exists |-> TRUE, routes |-> plan.routes].routes = plan.routes
    BY <1>4 DEF Peer
  <2>5. peers' \in [Namespaces -> Peer] /\ Stored'
    <3>1. CASE peers' = peers
      BY <3>1, <1>1, SameStored
    <3>2. CASE peers' = [peers EXCEPT ![n] = [exists |-> TRUE, routes |-> plan.routes]]
      BY <3>2, <2>4, <1>1, <1>4, PeersWritten
    <3> QED
      BY <2>1, <3>1, <3>2
  <2>6. Backed(p.routes, domain.alloc, handed)'
    BY <2>3, <1>1, <1>4 DEF Backed
  <2>7. Planned' /\ plan' \in Plan /\ pc' \in PCs
    BY <2>1, <2>2, <2>3, <2>6, <1>4, PeersPlanned, PeersStep
  <2> QED
    BY <2>1, <2>5, <2>7, <1>1, <1>2, <1>3
<1> QED
  BY <1>5, <1>6

\* Looking for peers to delete writes nothing.
LEMMA ListPeersStep ==
    ASSUME CoreInv, ListPeers
    PROVE  CoreInv'
<1> USE DEF CoreInv
<1>1. /\ UNCHANGED <<domain, pods, peers, cache, queued, lastPod, changes, handed, faults>>
      /\ GoOnWithDeletes(Listed \ plan.known)
  BY DEF ListPeers, stored
<1>2. (Listed \ plan.known) \in SUBSET Namespaces
  BY DEF Listed
<1>3. plan' \in Plan /\ pc' \in PCs /\ Planned'
  BY <1>1, <1>2, DeletesStep, NothingPlanned
<1>4. Stored' /\ Remembered'
  BY <1>1, SameStored, SameRemembered
<1> QED
  BY <1>1, <1>3, <1>4 DEF TypeOK

\* A peer that is deleted routes nothing.
LEMMA DeletePeerStep ==
    ASSUME CoreInv, DeletePeer
    PROVE  CoreInv'
<1> USE DEF CoreInv
<1>1. UNCHANGED <<domain, pods, cache, queued, lastPod, changes, handed, faults>>
  BY DEF DeletePeer
<1>2. PICK n \in plan.todo : /\ peers' = [peers EXCEPT ![n] = NoPeer]
                             /\ GoOnWithDeletes(plan.todo \ {n})
  BY DEF DeletePeer
<1>3. /\ plan.todo \subseteq Namespaces /\ peers \in [Namespaces -> Peer]
  BY PlanFields DEF TypeOK
<1>4. plan' \in Plan /\ pc' \in PCs /\ Planned'
  BY <1>2, <1>3, DeletesStep, NothingPlanned
<1>5. peers' \in [Namespaces -> Peer] /\ Stored'
  BY <1>1, <1>2, <1>3, NoPeerType, EmptyRoutes, PeersWritten
<1>6. Remembered'
  BY <1>1, SameRemembered
<1> QED
  BY <1>1, <1>4, <1>5, <1>6 DEF TypeOK

\* A failed call writes nothing more.
LEMMA AbortStep ==
    ASSUME CoreInv, Abort
    PROVE  CoreInv'
<1> USE DEF CoreInv
<1>1. /\ UNCHANGED <<domain, pods, peers, cache, lastPod, changes, handed>>
      /\ faults' \in 0..MaxFaults
  BY DomainAssumption DEF Abort, stored, TypeOK
<1>2. plan' \in Plan /\ pc' \in PCs /\ queued' = TRUE /\ Planned'
  BY RetryStep, NothingPlanned DEF Abort
<1>3. Stored' /\ Remembered'
  BY <1>1, SameStored, SameRemembered
<1> QED
  BY <1>1, <1>2, <1>3 DEF TypeOK

\* A restart forgets the plan, and remembers what is stored.
LEMMA RestartStep ==
    ASSUME CoreInv, Restart
    PROVE  CoreInv'
<1> USE DEF CoreInv
<1>1. /\ UNCHANGED <<domain, pods, peers, lastPod, changes, handed>>
      /\ faults' \in 0..MaxFaults
      /\ cache' = [domain |-> domain, pods |-> pods, peers |-> peers]
      /\ queued' \in BOOLEAN
  BY DomainAssumption DEF Restart, stored, TypeOK
<1>2. plan' \in Plan /\ pc' \in PCs /\ Planned'
  BY FinishStep, NothingPlanned DEF Restart
<1>3. Stored'
  BY <1>1, SameStored
<1>4. Remembered'
  BY <1>1 DEF Remembered, Stored, Sound
<1> QED
  BY <1>1, <1>2, <1>3, <1>4 DEF TypeOK

----------------------------------------------------------------------------
(* The steps of the informers, the users and the Agents.                    *)

\* An informer that catches up remembers what is stored.
LEMMA SyncDomainStep ==
    ASSUME CoreInv, SyncDomain
    PROVE  CoreInv'
<1> USE DEF CoreInv
<1>1. /\ UNCHANGED <<domain, pods, peers, pc, plan, lastPod, changes, handed, faults>>
      /\ cache' = [cache EXCEPT !.domain = domain]
      /\ queued' \in BOOLEAN
  BY DEF SyncDomain, stored, TypeOK
<1>2. cache'.domain = domain /\ TypeOK'
  BY <1>1 DEF TypeOK
<1>3. Stored' /\ Planned'
  BY <1>1, SameStored, SamePlanned
<1>4. Remembered'
  BY <1>1, <1>2 DEF Remembered, Stored, Sound
<1> QED
  BY <1>2, <1>3, <1>4

\* The other caches say nothing of the records.
LEMMA CachedStep ==
    ASSUME CoreInv, SyncPods \/ SyncPeers \/ Resync
    PROVE  CoreInv'
<1> USE DEF CoreInv
<1>1. /\ UNCHANGED <<domain, pods, peers, pc, plan, lastPod, changes, handed, faults>>
      /\ \/ cache' = [cache EXCEPT !.pods = pods]
         \/ cache' = [cache EXCEPT !.peers = peers]
         \/ cache' = cache
      /\ queued' \in BOOLEAN
  BY DEF SyncPods, SyncPeers, Resync, stored, TypeOK
<1>2. cache'.domain = cache.domain /\ TypeOK'
  BY <1>1 DEF TypeOK
<1> QED
  BY <1>1, <1>2, SameStored, SameRemembered, SamePlanned

\* Creation, deletion and edits of the Domain keep the records or drop all of
\* them.
LEMMA WriteSpecStep ==
    ASSUME CoreInv, WriteSpec
    PROVE  CoreInv'
<1> USE DEF CoreInv
<1>1. /\ UNCHANGED <<pods, peers, cache, queued, pc, plan, lastPod, changes, handed, faults>>
      /\ domain \in DomainObject /\ domain.gen < MaxGen
  BY DEF WriteSpec, TypeOK
<1>2. PICK c \in Ranges \cup {Invalid} :
        domain' = [domain EXCEPT !.exists = TRUE, !.gen = @ + 1, !.cidr = c,
                                 !.observed = FALSE]
  BY DEF WriteSpec
<1>3. domain.gen + 1 \in 0..MaxGen
  BY <1>1, DomainFields, DomainAssumption
<1>4. domain' \in DomainObject /\ domain'.alloc = domain.alloc
  BY <1>1, <1>2, <1>3 DEF DomainObject
<1>5. Stored' /\ Remembered' /\ Planned'
  BY <1>1, <1>4 DEF Stored, Remembered, Planned, Sound, Sticky, Injective, Backed
<1> QED
  BY <1>1, <1>4, <1>5 DEF TypeOK

\* A deletion drops all records, so that what is published stays accounted for.
LEMMA DeleteDomainStep ==
    ASSUME CoreInv, DeleteDomain
    PROVE  CoreInv'
<1> USE DEF CoreInv
<1>1. /\ UNCHANGED <<pods, peers, cache, queued, pc, plan, lastPod, changes, faults>>
      /\ domain' = NoDomain(domain.gen)
      /\ handed' = handed \cup Dropped(domain.alloc, NoAlloc)
      /\ domain \in DomainObject /\ handed \subseteq Addrs /\ plan \in Plan
  BY DEF DeleteDomain, TypeOK
<1>2. domain' \in DomainObject /\ domain'.alloc = NoAlloc
  BY <1>1, DomainFields, NoDomainType
<1>3. /\ handed' \subseteq Addrs /\ handed \subseteq handed'
      /\ \A k \in Keys : domain.alloc[k].all \subseteq domain'.alloc[k].all \cup handed'
  BY <1>1, <1>2, DomainFields, EmptySound, DroppedFacts
<1>4. Stored'
  <2>1. \A n \in Namespaces : peers[n].routes \in Routes
    BY DEF TypeOK, Peer
  <2>2. \A n \in Namespaces : Injective(peers[n].routes)
                              /\ Backed(peers[n].routes, domain'.alloc, handed')
    BY <2>1, <1>3, BackedKept DEF Stored
  <2> QED
    BY <2>2, <1>1, <1>2, EmptySound DEF Stored, Sound, Injective, Backed
<1>5. Remembered'
  BY <1>1, <1>3 DEF Remembered, Sound
<1>6. Planned'
  <2>1. pc = "peers" => Injective(plan.routes) /\ Backed(plan.routes, domain'.alloc, handed')
    BY <1>1, <1>3, PlanFields, BackedKept DEF Planned
  <2> QED
    BY <2>1, <1>1 DEF Planned, Sound, Sticky, Injective, Backed
<1> QED
  BY <1>1, <1>2, <1>3, <1>4, <1>5, <1>6 DEF TypeOK

\* The report of a Pod is no part of the records.
LEMMA ChangePodStep ==
    ASSUME CoreInv, NEW u \in Pods, NEW r \in PodReport, ChangePod(u, r),
           lastPod' \in 0..MaxPods
    PROVE  CoreInv'
<1> USE DEF CoreInv
<1>1. /\ UNCHANGED <<domain, peers, cache, queued, pc, plan, handed, faults>>
      /\ pods' = [pods EXCEPT ![u] = r] /\ changes' \in 0..MaxChanges
  BY DomainAssumption DEF ChangePod, TypeOK
<1>2. TypeOK'
  BY <1>1 DEF TypeOK
<1> QED
  BY <1>1, <1>2, SameStored, SameRemembered, SamePlanned

\* Whatever happens to a Pod keeps records and routes.
LEMMA PodStepStep ==
    ASSUME CoreInv, PodStep
    PROVE  CoreInv'
<1>1. pods \in [Pods -> PodReport] /\ lastPod \in 0..MaxPods
  BY DEF CoreInv, TypeOK
<1>2. CASE ReportPod
  <2>1. lastPod + 1 \in Pods /\ lastPod' \in 0..MaxPods
    BY <1>1, <1>2, DomainAssumption DEF ReportPod, Pods
  <2>2. PICK r \in PodReport : ChangePod(lastPod + 1, r)
    BY <1>2 DEF ReportPod
  <2> QED
    BY <2>1, <2>2, ChangePodStep
<1>3. ASSUME NEW u \in Pods, RunPod(u) \/ EndPod(u) \/ RemovePod(u)
      PROVE  CoreInv'
  <2>1. lastPod' \in 0..MaxPods
    BY <1>1, <1>3 DEF RunPod, EndPod, RemovePod
  <2>2. NoPod \in PodReport
    BY DEF PodReport
  <2>3. pods[u].phase \in {"running", "down"} =>
          /\ [pods[u] EXCEPT !.phase = "running"] \in PodReport
          /\ [pods[u] EXCEPT !.phase = "down"] \in PodReport
    BY <1>1 DEF PodReport, NoPod
  <2> QED
    BY <2>1, <2>2, <2>3, <1>3, ChangePodStep DEF RunPod, EndPod, RemovePod
<1> QED
  BY <1>2, <1>3 DEF PodStep

----------------------------------------------------------------------------
(* The theorems.                                                            *)

\* The invariant holds initially: there is no record.
LEMMA InitCore == Init => CoreInv
<1>1. SUFFICES ASSUME Init PROVE CoreInv
  OBVIOUS
<1>2. /\ domain = NoDomain(0) /\ cache.domain = domain
      /\ cache.pods = pods /\ cache.peers = peers
      /\ pods = [u \in Pods |-> NoPod]
      /\ peers = [n \in Namespaces |-> NoPeer]
      /\ pc = "idle" /\ plan = NoPlan /\ handed = {}
  BY <1>1 DEF Init
<1>3. domain \in DomainObject /\ domain.alloc = NoAlloc
  <2>1. 0 \in 0..MaxGen
    BY DomainAssumption
  <2> QED
    BY <1>2, <2>1, NoDomainType
<1>4. pods \in [Pods -> PodReport] /\ peers \in [Namespaces -> Peer]
  BY <1>2, NoPeerType DEF PodReport
<1>5. TypeOK
  <2>1. cache = [domain |-> domain, pods |-> pods, peers |-> peers]
    BY <1>1 DEF Init
  <2>2. /\ queued = FALSE /\ lastPod = 0 /\ changes = 0 /\ faults = 0
        /\ 0 \in 0..MaxPods /\ 0 \in 0..MaxChanges /\ 0 \in 0..MaxFaults
    BY <1>1, DomainAssumption DEF Init
  <2> QED
    BY <2>1, <2>2, <1>2, <1>3, <1>4, NoPlanType DEF TypeOK, PCs
<1>6. \A n \in Namespaces :
        Injective(peers[n].routes) /\ Backed(peers[n].routes, domain.alloc, handed)
  BY <1>2, EmptyRoutes
<1>7. Stored /\ Remembered /\ Planned
  BY <1>2, <1>3, <1>6, EmptySound DEF Stored, Remembered, Planned
<1> QED
  BY <1>5, <1>7 DEF CoreInv

\* Every step keeps the invariant.
LEMMA NextCore == CoreInv /\ [Next]_vars => CoreInv'
<1>1. SUFFICES ASSUME CoreInv, [Next]_vars PROVE CoreInv'
  OBVIOUS
<1>2. CASE Reconcile
  BY <1>1, <1>2, StartStep, UpdateStatusStep, WritePeerStep, ListPeersStep,
     DeletePeerStep DEF Reconcile
<1>3. CASE Abort \/ Restart
  BY <1>1, <1>3, AbortStep, RestartStep
<1>4. CASE SyncDomain \/ SyncPods \/ SyncPeers \/ Resync
  BY <1>1, <1>4, SyncDomainStep, CachedStep
<1>5. CASE WriteSpec \/ DeleteDomain \/ PodStep
  BY <1>1, <1>5, WriteSpecStep, DeleteDomainStep, PodStepStep
<1>6. CASE UNCHANGED vars
  <2>1. TypeOK'
    BY <1>1, <1>6 DEF vars, CoreInv, TypeOK
  <2> QED
    BY <2>1, <1>1, <1>6, SameStored, SameRemembered, SamePlanned DEF vars, CoreInv
<1> QED
  BY <1>1, <1>2, <1>3, <1>4, <1>5, <1>6 DEF Next

\* The core invariant holds throughout.
THEOREM CoreInvariant == Spec => []CoreInv
BY InitCore, NextCore, PTL DEF Spec

\* Every variable has the values the code gives it (domain_controller.go,
\* ippool.go): no record and no route has an address outside the ranges, whatever
\* the records of the Domain were before.
THEOREM TypeCorrect == Spec => []TypeOK
<1>1. CoreInv => TypeOK
  BY DEF CoreInv
<1> QED
  BY <1>1, CoreInvariant, PTL

\* No address is recorded for two keys, whichever caches were stale when it was
\* given out and whatever crashed (domain_controller.go, Reconcile).
THEOREM OneKeyPerAddress == Spec => []RecordsDistinct
<1>1. CoreInv => RecordsDistinct
  BY DEF CoreInv, Stored, Sound, RecordsDistinct
<1> QED
  BY <1>1, CoreInvariant, PTL

\* No DomainPeer routes an address to two Pods (domain_controller.go, Reconcile
\* and createOrUpdateDomainPeer).
THEOREM OneRoutePerAddress == Spec => []RoutesDistinct
<1>1. CoreInv => RoutesDistinct
  BY DEF CoreInv, Stored, Injective, RoutesDistinct
<1> QED
  BY <1>1, CoreInvariant, PTL

\* Two clusters that route one address route it to the same key, unless its
\* record was dropped in between (domain_controller.go: the status is written
\* before the peers).
THEOREM ClustersAgree == Spec => []NoSplitRoute
<1>1. ASSUME CoreInv PROVE NoSplitRoute
  <2>1. \A n \in Namespaces : peers[n].routes \in Routes
    BY <1>1 DEF CoreInv, TypeOK, Peer
  <2>2. SUFFICES ASSUME NEW m \in Namespaces, NEW n \in Namespaces,
                        NEW u \in Pods, NEW v \in Pods,
                        peers[m].routes[u] # NoRoute,
                        peers[m].routes[u].ip = peers[n].routes[v].ip,
                        peers[m].routes[u].ip \notin handed
                 PROVE  peers[m].routes[u].key = peers[n].routes[v].key
    BY DEF NoSplitRoute
  <2>3. peers[n].routes[v] # NoRoute
    BY <2>1, <2>2, RouteAddress
  <2>4. /\ peers[m].routes[u].ip \in domain.alloc[peers[m].routes[u].key].all
        /\ peers[n].routes[v].ip \in domain.alloc[peers[n].routes[v].key].all
    BY <2>2, <2>3, <1>1 DEF CoreInv, Stored, Backed
  <2>5. peers[m].routes[u].key \in Keys /\ peers[n].routes[v].key \in Keys
    BY <2>1, <2>2, <2>3, RouteAddress
  <2> QED
    BY <2>2, <2>4, <2>5, <1>1 DEF CoreInv, Stored, Sound
<1> QED
  BY <1>1, CoreInvariant, PTL

\* A key keeps an address as long as its Domain exists: a step takes the records
\* of as many keys as there are beyond Retain, and of no more (domain_controller.go,
\* the rebuild of IPAllocations).
THEOREM AddressKept == Spec => AddressIsSticky
<1>1. ASSUME CoreInv, [Next]_vars PROVE StickyStep
  <2>1. ASSUME domain'.alloc = domain.alloc PROVE StickyStep
    <3>1. {k \in {j \in Keys : domain.alloc[j].first # 0} :
             domain.alloc[k].all \cap domain.alloc[k].all = {}} = {}
      BY <1>1 DEF CoreInv, Stored, Sound
    <3> QED
      BY <2>1, <3>1 DEF StickyStep
  <2>2. CASE UpdateStatus
    <3>1. CASE Accepts(domain, plan.copy)
      <4>1. pc = "status" /\ domain = plan.copy
            /\ domain' = [domain EXCEPT !.alloc = plan.alloc, !.observed = TRUE]
        BY <2>2, <3>1 DEF UpdateStatus, Accepts
      <4>2. domain \in DomainObject /\ plan.alloc \in [Keys -> Record]
        BY <1>1, PlanFields DEF CoreInv, TypeOK
      <4>3. domain'.alloc = plan.alloc
        BY <4>1, <4>2, RecordUpdate
      <4>4. Sticky(domain.alloc, domain'.alloc)
        BY <4>1, <4>3, <1>1 DEF CoreInv, Planned
      <4> QED
        BY <4>4 DEF Sticky, StickyStep
    <3>2. CASE ~Accepts(domain, plan.copy)
      BY <2>1, <2>2, <3>2 DEF UpdateStatus
    <3> QED
      BY <3>1, <3>2
  <2>3. CASE WriteSpec
    <3>1. domain'.alloc = domain.alloc
      BY <2>3, <1>1 DEF WriteSpec, CoreInv, TypeOK, DomainObject
    <3> QED
      BY <3>1, <2>1
  <2>4. CASE DeleteDomain
    BY <2>4 DEF DeleteDomain, NoDomain, StickyStep
  <2>5. CASE ~UpdateStatus /\ ~WriteSpec /\ ~DeleteDomain
    <3>1. domain' = domain
      BY <2>5, <1>1 DEF Next, Reconcile, Start, WritePeer, ListPeers, DeletePeer,
         Abort, Restart, SyncDomain, SyncPods, SyncPeers, Resync, PodStep, ReportPod,
         RunPod, EndPod, RemovePod, ChangePod, stored, vars
    <3> QED
      BY <3>1, <2>1
  <2> QED
    BY <2>2, <2>3, <2>4, <2>5
<1> QED
  BY <1>1, CoreInvariant, PTL DEF Spec, AddressIsSticky

=============================================================================
