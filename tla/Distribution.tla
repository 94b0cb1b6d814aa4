---------------------------- MODULE Distribution ----------------------------
(***************************************************************************)
(* The distribution engine behind resource replication (controller         *)
(* manager) and resource delivery (Agent): one declaration, a Secret whose *)
(* data lists objects, is applied object by object to a target cluster,    *)
(* what it no longer lists is pruned, and its deletion cleans up.  What    *)
(* was applied is remembered in an inventory kept twice: in a ConfigMap    *)
(* and in an annotation of the declaration.                                *)
(*                                                                         *)
(* A step of a worker is one API call with the decisions up to the next    *)
(* call.  Replication has one worker and reads the management API through  *)
(* the caches of the manager.  Delivery reads it directly, but has two     *)
(* workers that may reconcile the same declaration at once, its Secret     *)
(* controller and its Namespace controller, because the latter calls       *)
(* Reconcile directly.  Objects of the target are never cached.            *)
(***************************************************************************)
EXTENDS Naturals, FiniteSets, FiniteSetsExt

CONSTANTS
    Workers,      \* the controllers that reconcile the declaration
    Cached,       \* whether declaration, ConfigMap and namespaces are read from caches
    NumObjs,      \* objects a definition may list, in manifest order
    Explicit,     \* objects that name their namespace; a selector places the others
    Slow,         \* objects that terminate for a while after a delete call
    Policies,     \* deletion policies users choose from
    MaxDecl,      \* bound: incarnations of the declaration
    MaxEdits,     \* bound: actions of users on declaration, objects, namespaces
    MaxFaults     \* bound: crashes and failed calls

ASSUME DistributionAssumption ==
    /\ Workers \subseteq {"secret", "namespace"}
    /\ Cached \in BOOLEAN
    /\ Explicit \cup Slow \subseteq 1..NumObjs
    /\ Policies \subseteq {"Delete", "Orphan"}
    /\ {NumObjs, MaxEdits, MaxFaults} \subseteq Nat
    /\ MaxDecl \in Nat \ {0}

Objs == 1..NumObjs

VARIABLES
    decl,    \* the declaration stored by the management API
    cm,      \* the status ConfigMap: owner declaration and inventory
    obj,     \* obj[o]: the object in the target cluster; uid 0 when absent
    ns,      \* ns[o]: the namespace of o
    last,    \* last[o]: the last UID given to an object of that name
    cache,   \* what the caches hold of decl, cm and ns
    born,    \* the last incarnation of the declaration
    wk,      \* wk[w]: the running pass of worker w
    edits,   \* user actions so far
    faults   \* faults so far

vars == <<decl, cm, obj, ns, last, cache, born, wk, edits, faults>>
targets == <<obj, ns, last>>
budget == <<cache, born, edits, faults>>

----------------------------------------------------------------------------
(* Data.                                                                    *)

\* An inventory maps each object to the namespace and object UID recorded for
\* it.  Uid 0: no item.
NoItem == [ns |-> 0, uid |-> 0]
Empty == [o \in Objs |-> NoItem]
Inventories == [Objs -> [ns : Nat, uid : Nat]]
None == [o \in {} |-> NoItem]          \* no annotation, no ConfigMap
Items(inv) == {o \in DOMAIN inv : inv[o].uid # 0}

\* term: a delete call was accepted.  Owner 0: no annotation of the engine.
Objects == [uid : Nat, owner : 0..MaxDecl, term : BOOLEAN]
Absent == [uid |-> 0, owner |-> 0, term |-> FALSE]

\* What an accepted delete call leaves of object o.
Deleted(o) == IF o \in Slow THEN [obj[o] EXCEPT !.term = TRUE] ELSE Absent

Declarations ==
    [uid : 0..MaxDecl, spec : SUBSET Objs, policy : Policies \cup {"Delete"}, fin : BOOLEAN,
     deleting : BOOLEAN, ann : Inventories \cup {None}]

NoDecl(u) == [uid |-> u, spec |-> {}, policy |-> "Delete", fin |-> FALSE,
              deleting |-> FALSE, ann |-> None]
Gone == NoDecl(0)
Present == decl.uid # 0

PCs == {"idle", "load", "expand", "finalizer", "get", "patch", "pruneGet",
        "pruneDelete", "saveMap", "saveAnnotation", "cleanupGet",
        "cleanupDelete", "dropMap", "dropAnnotation", "release"}

\* d: the declaration as read; inv: the inventory loaded; want: namespace UID of
\* the wanted objects; got: items applied, then the inventory to save; todo:
\* objects the current loop has still to visit.
Passes ==
    [pc : PCs, d : Declarations, inv : Inventories, want : [Objs -> Nat],
     got : Inventories, todo : SUBSET Objs]

Idle == [pc |-> "idle", d |-> Gone, inv |-> Empty,
         want |-> [o \in Objs |-> 0], got |-> Empty, todo |-> {}]

Maps == [owner : 0..MaxDecl, inv : Inventories \cup {None}]
NamespaceLists == [Objs -> [uid : Nat, active : BOOLEAN]]

TypeOK ==
    /\ decl \in Declarations
    /\ cm \in Maps
    /\ obj \in [Objs -> Objects]
    /\ ns \in NamespaceLists
    /\ cache \in [decl : Declarations, cm : Maps, ns : NamespaceLists]
    /\ last \in [Objs -> Nat]
    /\ born \in 1..MaxDecl
    /\ wk \in [Workers -> Passes]
    /\ edits \in 0..MaxEdits
    /\ faults \in 0..MaxFaults

Init ==
    /\ \E s \in SUBSET Objs, k \in Policies :
         decl = [NoDecl(1) EXCEPT !.spec = s, !.policy = k]
    /\ born = 1
    /\ cm = [owner |-> 0, inv |-> None]
    /\ obj = [o \in Objs |-> Absent]
    /\ ns = [o \in Objs |-> [uid |-> 1, active |-> TRUE]]
    /\ last = [o \in Objs |-> 0]
    /\ cache = [decl |-> decl, cm |-> cm, ns |-> ns]
    /\ wk = [w \in Workers |-> Idle]
    /\ edits = 0
    /\ faults = 0

----------------------------------------------------------------------------
(* Moves of a pass.                                                         *)

\* What a pass reads of the management API.
Seen == IF Cached THEN cache ELSE [decl |-> decl, cm |-> cm, ns |-> ns]

Step(w, p) == wk' = [wk EXCEPT ![w] = p]
End(w) == Step(w, Idle)

\* MUTANT of Failed: the failed pass saves the items it got to apply.
FailedWithItems(p) == [p EXCEPT !.pc = "saveMap", !.todo = {}]

\* fail: the phase and message are written with the inventory as loaded.
Failed(p) == [p EXCEPT !.pc = "saveMap", !.got = p.inv, !.todo = {}]

Applied(p) == [p EXCEPT !.pc = "saveMap", !.todo = {}]

\* What prune deletes: items of the old inventory with no applied item of the
\* same key, a key being name and namespace UID.
Stale(p) ==
    {o \in Items(p.inv) : p.d.policy = "Delete" /\ ~(p.got[o].uid # 0 /\ p.got[o].ns = p.inv[o].ns)}

Pruning(p) ==
    IF Stale(p) = {} THEN Applied(p)
    ELSE [p EXCEPT !.pc = "pruneGet", !.todo = Stale(p)]

Applying(p) ==
    IF p.todo = {} THEN Pruning(p) ELSE [p EXCEPT !.pc = "get"]

Loaded(p, inv) ==
    IF p.d.deleting
    THEN [p EXCEPT !.inv = inv, !.todo = Items(inv),
                   !.pc = IF Items(inv) = {} THEN "dropMap" ELSE "cleanupGet"]
    ELSE [p EXCEPT !.inv = inv, !.pc = "expand"]

----------------------------------------------------------------------------
(* A pass of worker w.                                                      *)

\* The declaration is read; its annotation is the inventory if it has one.
Begin(w) ==
    /\ wk[w].pc = "idle"
    /\ Seen.decl.uid # 0
    /\ LET d == Seen.decl
           p == [Idle EXCEPT !.d = [d EXCEPT !.ann = None]]
       IN Step(w, IF d.ann = None THEN [p EXCEPT !.pc = "load"] ELSE Loaded(p, d.ann))
    /\ UNCHANGED <<decl, cm, targets, budget>>

\* MUTANT of LoadMap: a ConfigMap that is not found is read all the same.
LoadMapUnchecked(w) ==
    /\ wk[w].pc = "load"
    /\ Step(w, Loaded(wk[w], Seen.cm.inv))
    /\ UNCHANGED <<decl, cm, targets, budget>>

\* Otherwise the ConfigMap is, whatever declaration it belongs to.
LoadMap(w) ==
    /\ wk[w].pc = "load"
    /\ Step(w, Loaded(wk[w], IF Seen.cm.inv = None THEN Empty ELSE Seen.cm.inv))
    /\ UNCHANGED <<decl, cm, targets, budget>>

\* The namespaces are listed and the definition is expanded over them.  A
\* selector skips a namespace that is not active, a name must resolve.
Expand(w) ==
    /\ wk[w].pc = "expand"
    /\ LET d == wk[w].d
           seen == Seen.ns
           want == [o \in Objs |-> IF o \in d.spec /\ seen[o].active THEN seen[o].uid ELSE 0]
           todo == {o \in Objs : want[o] # 0}
           p == [wk[w] EXCEPT !.want = want, !.todo = todo]
       IN Step(w, IF \E o \in d.spec \cap Explicit : ~seen[o].active THEN Failed(wk[w])
                  ELSE IF todo = {} /\ Items(p.inv) = {} THEN Applied(p)
                  ELSE IF ~d.fin THEN [p EXCEPT !.pc = "finalizer", !.todo = {}]
                  ELSE Applying(p))
    /\ UNCHANGED <<decl, cm, targets, budget>>

\* The finalizer is added and the pass starts again.
AddFinalizer(w) ==
    /\ wk[w].pc = "finalizer"
    /\ decl' = IF Present /\ ~decl.deleting THEN [decl EXCEPT !.fin = TRUE] ELSE decl
    /\ End(w)
    /\ UNCHANGED <<cm, targets, budget>>

\* MUTANT of GetObject: any object of that name is a conflict.
GetObjectStrict(w) ==
    /\ wk[w].pc = "get"
    /\ Step(w, IF obj[Min(wk[w].todo)].uid # 0 THEN Failed(wk[w])
               ELSE [wk[w] EXCEPT !.pc = "patch"])
    /\ UNCHANGED <<decl, cm, targets, budget>>

\* apply, first call: an object that is not ours is a conflict.
GetObject(w) ==
    /\ wk[w].pc = "get"
    /\ LET p == wk[w]
           o == Min(p.todo)
       IN Step(w, IF obj[o].uid # 0 /\ obj[o].owner # p.d.uid THEN Failed(p)
                  ELSE [p EXCEPT !.pc = "patch"])
    /\ UNCHANGED <<decl, cm, targets, budget>>

\* apply, second call: a server-side apply without force creates the object,
\* or sets its annotations unless another declaration manages them.
PatchObject(w) ==
    /\ wk[w].pc = "patch"
    /\ LET p == wk[w]
           o == Min(p.todo)
           new == obj[o].uid = 0
           uid == IF new THEN last[o] + 1 ELSE obj[o].uid
       IN IF (new /\ ~ns[o].active) \/ obj[o].owner \notin {0, p.d.uid}
          THEN /\ Step(w, Failed(p))
               /\ UNCHANGED targets
          ELSE /\ obj' = [obj EXCEPT ![o] = [@ EXCEPT !.uid = uid, !.owner = p.d.uid]]
               /\ last' = [last EXCEPT ![o] = IF new THEN uid ELSE @]
               /\ Step(w, Applying([p EXCEPT !.got[o] = [ns |-> p.want[o], uid |-> uid],
                                             !.todo = @ \ {o}]))
               /\ UNCHANGED ns
    /\ UNCHANGED <<decl, cm, budget>>

\* deleteOwned gives up on an object with another UID or owner.
OwnershipLost(p, o) ==
    obj[o].uid # 0 /\ (obj[o].uid # p.inv[o].uid \/ obj[o].owner # p.d.uid)

\* prune, first call.
PruneGet(w) ==
    /\ wk[w].pc = "pruneGet"
    /\ LET p == wk[w]
           o == Min(p.todo)
           rest == [p EXCEPT !.todo = @ \ {o}]
       IN Step(w, IF OwnershipLost(p, o) THEN Failed(p)
                  ELSE IF obj[o].uid # 0 THEN [p EXCEPT !.pc = "pruneDelete"]
                  ELSE IF rest.todo = {} THEN Applied(rest) ELSE rest)
    /\ UNCHANGED <<decl, cm, targets, budget>>

\* MUTANT of SameObject: delete by name.
SameName(w, o) == obj[o].uid # 0

\* The UID precondition of the delete call: w deletes the object it has read.
SameObject(w, o) == obj[o].uid = wk[w].inv[o].uid

\* prune, second call: it is enough that the delete call is accepted.
PruneDelete(w) ==
    /\ wk[w].pc = "pruneDelete"
    /\ LET p == wk[w]
           o == Min(p.todo)
           rest == [p EXCEPT !.todo = @ \ {o}, !.pc = "pruneGet"]
       IN IF SameObject(w, o)
          THEN /\ obj' = [obj EXCEPT ![o] = Deleted(o)]
               /\ Step(w, IF rest.todo = {} THEN Applied(rest) ELSE rest)
          ELSE /\ Step(w, Failed(p))
               /\ UNCHANGED obj
    /\ UNCHANGED <<decl, cm, ns, last, budget>>

\* Save, first half: the ConfigMap is created or updated, which the API refuses
\* when the copy read is not the stored one.
SaveMap(w) ==
    /\ wk[w].pc = "saveMap"
    /\ IF Seen.cm = cm
       THEN /\ cm' = [owner |-> wk[w].d.uid, inv |-> wk[w].got]
            /\ Step(w, [wk[w] EXCEPT !.pc = "saveAnnotation"])
       ELSE /\ End(w)
            /\ UNCHANGED cm
    /\ UNCHANGED <<decl, targets, budget>>

\* The merge patch of the annotation carries no version: it overwrites what is
\* stored, of whatever declaration has the name.
Annotated(inv) == IF Present THEN [decl EXCEPT !.ann = inv] ELSE decl

\* Save, second half: the annotation, if the copy read is of the declaration.  A
\* copy that has the same annotation already makes the patch empty.
SaveAnnotation(w) ==
    /\ wk[w].pc = "saveAnnotation"
    /\ LET p == wk[w]
           copy == Seen.decl
       IN \/ copy.uid = p.d.uid /\ decl' = Annotated(p.got)
          \/ (copy.uid # p.d.uid \/ copy.ann = p.got) /\ UNCHANGED decl
    /\ End(w)
    /\ UNCHANGED <<cm, targets, budget>>

\* MUTANT of CleanupGet: an absent object is an error, as for the delete call.
CleanupGetStrict(w) ==
    /\ wk[w].pc = "cleanupGet"
    /\ LET o == Min(wk[w].todo)
       IN Step(w, IF OwnershipLost(wk[w], o) \/ obj[o].uid = 0 THEN Idle
                  ELSE [wk[w] EXCEPT !.pc = "cleanupDelete"])
    /\ UNCHANGED <<decl, cm, targets, budget>>

\* cleanup, first call per item: an item already absent is done.
CleanupGet(w) ==
    /\ wk[w].pc = "cleanupGet"
    /\ LET p == wk[w]
           o == Min(p.todo)
           rest == [p EXCEPT !.todo = @ \ {o}]
       IN Step(w, IF OwnershipLost(p, o) THEN Idle
                  ELSE IF obj[o].uid # 0 THEN [p EXCEPT !.pc = "cleanupDelete"]
                  ELSE IF rest.todo = {} THEN [rest EXCEPT !.pc = "dropMap"] ELSE rest)
    /\ UNCHANGED <<decl, cm, targets, budget>>

\* cleanup, second call per item: an accepted delete call counts as done.
CleanupDelete(w) ==
    /\ wk[w].pc = "cleanupDelete"
    /\ LET p == wk[w]
           o == Min(p.todo)
           rest == [p EXCEPT !.todo = @ \ {o}]
       IN IF SameObject(w, o)
          THEN /\ obj' = [obj EXCEPT ![o] = Deleted(o)]
               /\ Step(w, [rest EXCEPT !.pc = IF rest.todo = {} THEN "dropMap" ELSE "cleanupGet"])
          ELSE /\ End(w)
               /\ UNCHANGED obj
    /\ UNCHANGED <<decl, cm, ns, last, budget>>

\* The inventory is deleted after the objects: the ConfigMap ...
DropMap(w) ==
    /\ wk[w].pc = "dropMap"
    /\ cm' = [owner |-> 0, inv |-> None]
    /\ Step(w, [wk[w] EXCEPT !.pc = "dropAnnotation"])
    /\ UNCHANGED <<decl, targets, budget>>

\* ... and the annotation, if the copy read has one.  The patch fails when there is
\* no declaration any more.
DropAnnotation(w) ==
    /\ wk[w].pc = "dropAnnotation"
    /\ IF Seen.decl.ann = None
       THEN /\ Step(w, [wk[w] EXCEPT !.pc = "release"])
            /\ UNCHANGED decl
       ELSE /\ decl' = Annotated(None)
            /\ Step(w, IF Present THEN [wk[w] EXCEPT !.pc = "release"] ELSE Idle)
    /\ UNCHANGED <<cm, targets, budget>>

\* The finalizer goes last, if the copy read has it; a declaration being deleted
\* goes with it.
Release(w) ==
    /\ wk[w].pc = "release"
    /\ decl' = IF ~Seen.decl.fin THEN decl
               ELSE IF decl.deleting THEN Gone ELSE [decl EXCEPT !.fin = FALSE]
    /\ End(w)
    /\ UNCHANGED <<cm, targets, budget>>

Pass(w) ==
    \/ Begin(w) \/ LoadMap(w) \/ Expand(w) \/ AddFinalizer(w)
    \/ GetObject(w) \/ PatchObject(w) \/ PruneGet(w) \/ PruneDelete(w)
    \/ SaveMap(w) \/ SaveAnnotation(w)
    \/ CleanupGet(w) \/ CleanupDelete(w) \/ DropMap(w) \/ DropAnnotation(w) \/ Release(w)

----------------------------------------------------------------------------
(* Faults.                                                                  *)

Faulty ==
    /\ faults < MaxFaults
    /\ faults' = faults + 1
    /\ UNCHANGED <<decl, cm, targets, cache, born, edits>>

\* A call of the expansion, of apply or of prune fails, and the pass with it.
CallFails(w) ==
    /\ wk[w].pc \in {"expand", "get", "patch", "pruneGet", "pruneDelete"}
    /\ Step(w, Failed(wk[w]))
    /\ Faulty

\* Any other call fails, or the process restarts: nothing more is written.
Crash ==
    /\ \E w \in Workers : wk[w].pc # "idle"
    /\ wk' = [w \in Workers |-> Idle]
    /\ Faulty

----------------------------------------------------------------------------
(* Users, and the garbage collector.                                        *)

User ==
    /\ edits < MaxEdits
    /\ edits' = edits + 1
    /\ UNCHANGED <<cache, wk, faults>>

CreateDecl ==
    /\ ~Present
    /\ born < MaxDecl
    /\ born' = born + 1
    /\ \E s \in SUBSET Objs, k \in Policies :
         decl' = [NoDecl(born + 1) EXCEPT !.spec = s, !.policy = k]
    /\ UNCHANGED <<cm, targets>>
    /\ User

EditDecl ==
    /\ Present
    /\ \E s \in SUBSET Objs, k \in Policies :
         decl' = [decl EXCEPT !.spec = s, !.policy = k]
    /\ decl' # decl
    /\ UNCHANGED <<cm, targets, born>>
    /\ User

DeleteDecl ==
    /\ Present
    /\ ~decl.deleting
    /\ decl' = IF decl.fin THEN [decl EXCEPT !.deleting = TRUE] ELSE Gone
    /\ UNCHANGED <<cm, targets, born>>
    /\ User

DeleteObject(o) ==
    /\ obj[o].uid # 0
    /\ ~obj[o].term
    /\ obj' = [obj EXCEPT ![o] = Deleted(o)]
    /\ UNCHANGED <<decl, cm, ns, last, born>>
    /\ User

\* Somebody else creates an object of that name.
CreateObject(o) ==
    /\ obj[o].uid = 0
    /\ ns[o].active
    /\ obj' = [obj EXCEPT ![o] = [Absent EXCEPT !.uid = last[o] + 1]]
    /\ last' = [last EXCEPT ![o] = @ + 1]
    /\ UNCHANGED <<decl, cm, ns, born>>
    /\ User

DeleteNamespace(o) ==
    /\ ns[o].active
    /\ ns' = [ns EXCEPT ![o].active = FALSE]
    /\ obj' = [obj EXCEPT ![o] = IF @.uid = 0 THEN Absent ELSE Deleted(o)]
    /\ UNCHANGED <<decl, cm, last, born>>
    /\ User

\* The old namespace goes with the last of its objects.
CreateNamespace(o) ==
    /\ ~ns[o].active
    /\ obj[o].uid = 0
    /\ ns' = [ns EXCEPT ![o] = [uid |-> @.uid + 1, active |-> TRUE]]
    /\ UNCHANGED <<decl, cm, obj, last, born>>
    /\ User

\* The owner reference of the ConfigMap names a declaration that is gone.
CollectMap ==
    /\ cm.inv # None
    /\ cm.owner # decl.uid
    /\ cm' = [owner |-> 0, inv |-> None]
    /\ UNCHANGED <<decl, targets, wk, budget>>

\* An object that was deleted disappears.
Terminate(o) ==
    /\ obj[o].term
    /\ obj' = [obj EXCEPT ![o] = Absent]
    /\ UNCHANGED <<decl, cm, ns, last, wk, budget>>

\* Each informer catches up on its own.  A cache may skip versions, but never goes
\* back.
CatchUp(new) ==
    /\ Cached
    /\ cache # new
    /\ cache' = new
    /\ UNCHANGED <<decl, cm, targets, wk, born, edits, faults>>

SyncDecl == CatchUp([cache EXCEPT !.decl = decl])
SyncMap == CatchUp([cache EXCEPT !.cm = cm])
SyncNamespaces == CatchUp([cache EXCEPT !.ns = ns])

Next ==
    \/ \E w \in Workers : Pass(w) \/ CallFails(w)
    \/ Crash
    \/ CreateDecl \/ EditDecl \/ DeleteDecl
    \/ \E o \in Objs : \/ DeleteObject(o) \/ CreateObject(o)
                       \/ DeleteNamespace(o) \/ CreateNamespace(o) \/ Terminate(o)
    \/ CollectMap
    \/ SyncDecl \/ SyncMap \/ SyncNamespaces

Spec == Init /\ [][Next]_vars

\* A pass that ended is followed by another: after an error with back-off, after
\* success because Save changes the declaration, and every five minutes anyway.
\* Caches catch up; that a deleted object disappears is not counted on.
FairSpec ==
    /\ Spec
    /\ \A w \in Workers : WF_vars(Pass(w))
    /\ WF_vars(SyncDecl) /\ WF_vars(SyncMap) /\ WF_vars(SyncNamespaces)

----------------------------------------------------------------------------
(* Properties.                                                              *)

\* The inventory a pass that starts now would work from.
Recorded ==
    IF ~Present THEN Empty
    ELSE IF decl.ann # None THEN decl.ann
    ELSE IF cm.inv # None THEN cm.inv ELSE Empty

Deletes(o) == obj[o].uid # 0 /\ ~obj[o].term /\ (obj'[o].uid = 0 \/ obj'[o].term)

\* The engine deletes an object only while the object carries the UID of the
\* declaration the pass works for, whoever recreates objects between its read
\* and its delete call (engine.go, deleteOwned).
DeletesOnlyOwned ==
    [][\A o \in Objs, w \in Workers :
         wk'[w] # wk[w] /\ Deletes(o) => obj[o].owner = wk[w].d.uid]_vars

\* An object the inventory records that exists, is not being deleted and is the
\* declaration's.
Standing(o) ==
    /\ Recorded[o].uid # 0
    /\ obj[o] = [uid |-> Recorded[o].uid, owner |-> decl.uid, term |-> FALSE]

\* A pass forgets an object only by writing over an inventory it has not read:
\* as long as what is recorded is what the pass has loaded, no step of it takes a
\* standing object out of the record, unless the policy orphans it.  A new
\* inventory, a failed pass, a pass from an old copy of the declaration, and the
\* end of the declaration all come after the deletion (engine.go Reconcile, prune,
\* fail, cleanup; store.go).
NothingForgotten ==
    [][\A w \in Workers, o \in Objs :
         /\ wk'[w] # wk[w]
         /\ wk[w].inv = Recorded
         /\ wk[w].d.policy = "Delete"
         /\ Standing(o)
         /\ obj'[o] = obj[o]
         => Recorded'[o].uid = Recorded[o].uid]_vars

\* An item whose object is not the one recorded: deleteOwned refuses it.
Lost(o) ==
    /\ Recorded[o].uid # 0
    /\ obj[o].uid # 0
    /\ obj[o].uid # Recorded[o].uid \/ obj[o].owner # decl.uid

Wanted(o) == o \in decl.spec /\ ns[o].active
Unresolved(o) == o \in decl.spec \cap Explicit /\ ~ns[o].active
Conflicting(o) == Wanted(o) /\ obj[o].uid # 0 /\ obj[o].owner # decl.uid

InSync ==
    \A o \in Objs :
        IF Wanted(o)
        THEN obj[o].owner = decl.uid /\ Recorded[o] = [ns |-> ns[o].uid, uid |-> obj[o].uid]
        ELSE Recorded[o].uid = 0

\* Once users and faults stop, what the declaration wants exists, is its own and
\* is recorded, and nothing else is, unless a named namespace is missing or an
\* object of the same name is in the way (engine.go, Reconcile).
Converges ==
    <>[](Present /\ ~decl.deleting
         => InSync \/ \E o \in Objs : Unresolved(o) \/ Conflicting(o) \/ Lost(o))

\* A deleted declaration disappears unless an item was lost (engine.go, cleanup).
DeletionCompletes == <>[](decl.deleting => \E o \in Objs : Lost(o))

\* "Verify that children and external resources are actually gone before
\* completing cleanup": once the declaration is gone and no pass runs, no object
\* carries its UID, if nothing was ever orphaned.
CleanupLeavesNothing ==
    (\A w \in Workers : wk[w].pc = "idle")
    => \A o \in Objs : obj[o].owner \in {0, decl.uid}

=============================================================================
