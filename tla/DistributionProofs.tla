------------------------- MODULE DistributionProofs -------------------------
(***************************************************************************)
(* Safety of the distribution engine, for every number of objects,         *)
(* incarnations, edits and faults.                                         *)
(*                                                                         *)
(* SharedInv holds however many workers reconcile the declaration: UIDs    *)
(* are given in order, so what a pass has read of an object is true of     *)
(* whatever later carries the same UID.  MemoryInv adds what becomes of    *)
(* the inventory, whatever copy of it a pass has read: every copy is of    *)
(* objects there have been (Copies), and a pass answers for the items it   *)
(* has loaded (Careful).  What it saves has each of them whose object is   *)
(* alive, and what it cleans up is deleted.  Both rest on one fact: an     *)
(* item whose object was deleted never comes to life again, because a new  *)
(* object has a new UID.                                                   *)
(***************************************************************************)
EXTENDS Distribution, SetLemmas

\* UIDs are given in order; a living object has the last one of its name, and
\* its owner is a declaration there has been.
Uids ==
    /\ decl.uid <= born /\ cache.decl.uid <= born
    /\ \A o \in Objs : obj[o].uid \in {0, last[o]} /\ obj[o].owner <= born

\* What a pass has read before a delete call stays true of the object with that
\* UID: a later object has a later UID.
Marked(p, o) ==
    /\ p.inv[o].uid <= last[o]
    /\ obj[o].uid # 0 /\ obj[o].uid = p.inv[o].uid => obj[o].owner = p.d.uid

Visiting == {"get", "patch", "pruneGet", "pruneDelete", "cleanupGet", "cleanupDelete"}

\* A pass works for a declaration there has been; a loop of calls has an object.
Fits(p) ==
    /\ p.d.uid <= born
    /\ p.pc # "idle" => p.d.uid # 0
    /\ p.pc \in Visiting => p.todo # {}
    /\ p.pc \in {"pruneDelete", "cleanupDelete"} => Marked(p, Min(p.todo))

SharedInv == TypeOK /\ Uids /\ \A w \in Workers : Fits(wk[w])

\* How an object may change in a step: it disappears, a new one gets the next
\* UID, one is deleted, or one that nobody owns gets an owner.
Evolves ==
    /\ born <= born' /\ born' \in Nat
    /\ \A o \in Objs :
         /\ last[o] \in Nat /\ last'[o] \in Nat /\ last[o] <= last'[o]
         /\ \/ obj'[o] = obj[o]
            \/ obj'[o].uid = 0
            \/ obj'[o].uid = last[o] + 1
            \/ /\ obj'[o].uid = obj[o].uid
               /\ obj'[o].owner = obj[o].owner \/ (obj[o].owner = 0 /\ obj'[o].owner # 0)
               /\ obj[o].term => obj'[o].term

----------------------------------------------------------------------------
(* Data.                                                                    *)

\* Objects are numbered, so that a loop has a first one.
LEMMA ObjsNat == Objs \subseteq Nat
BY DistributionAssumption DEF Objs

\* The empty inventory is one, and has no item.
LEMMA EmptyType == Empty \in Inventories /\ \A o \in Objs : Empty[o].uid = 0
BY DEF Empty, Inventories, NoItem

\* An absent object has the type of an object, and no UID.
LEMMA AbsentType == Absent \in Objects /\ Absent.uid = 0 /\ Absent.owner = 0
BY DistributionAssumption DEF Absent, Objects

\* The fields of a declaration.
LEMMA DeclFields ==
    ASSUME NEW d \in Declarations
    PROVE  /\ d.uid \in 0..MaxDecl /\ d.spec \subseteq Objs
           /\ d.policy \in Policies \cup {"Delete"}
           /\ d.fin \in BOOLEAN /\ d.deleting \in BOOLEAN
           /\ d.ann \in Inventories \cup {None}
           /\ d.uid \in Nat
BY DistributionAssumption DEF Declarations

\* A declaration that is created has its UID, and nothing else yet.
LEMMA NoDeclType ==
    ASSUME NEW u \in 0..MaxDecl
    PROVE  /\ NoDecl(u) \in Declarations
           /\ NoDecl(u).uid = u /\ NoDecl(u).ann = None
           /\ ~NoDecl(u).fin /\ ~NoDecl(u).deleting
BY DEF NoDecl, Declarations

\* The absent declaration has the type of one, and holds nothing.
LEMMA GoneType ==
    /\ Gone \in Declarations
    /\ Gone.uid = 0 /\ Gone.ann = None /\ ~Gone.fin /\ ~Gone.deleting
<1>1. 0 \in 0..MaxDecl
  BY DistributionAssumption
<1> QED
  BY <1>1, NoDeclType DEF Gone

\* The fields of a pass.
LEMMA PassFields ==
    ASSUME NEW p \in Passes
    PROVE  /\ p.pc \in PCs /\ p.d \in Declarations
           /\ p.inv \in Inventories /\ p.got \in Inventories
           /\ p.want \in [Objs -> Nat] /\ p.todo \subseteq Objs
BY DEF Passes

\* A worker without a pass holds nothing.
LEMMA IdleType ==
    /\ Idle \in Passes
    /\ Idle.pc = "idle" /\ Idle.d = Gone
    /\ Idle.inv = Empty /\ Idle.got = Empty /\ Idle.todo = {}
<1>1. [o \in Objs |-> 0] \in [Objs -> Nat]
  OBVIOUS
<1> QED
  BY <1>1, GoneType, EmptyType DEF Idle, Passes, PCs

\* The items of an inventory are the objects with a UID in it.
LEMMA ItemsOf == ASSUME NEW inv \in Inventories
                 PROVE  Items(inv) = {o \in Objs : inv[o].uid # 0}
BY DEF Items, Inventories

\* The fields of an item.
LEMMA InventoryItem ==
    ASSUME NEW inv \in Inventories, NEW o \in Objs
    PROVE  inv[o].uid \in Nat /\ inv[o].ns \in Nat
BY DEF Inventories

\* A loop of calls visits the least object left.
LEMMA MinObject ==
    ASSUME NEW p \in Passes, p.todo # {}
    PROVE  Min(p.todo) \in p.todo /\ Min(p.todo) \in Objs
BY PassFields, ObjsNat, MinMember

----------------------------------------------------------------------------
(* Moves of a pass.                                                         *)

\* A pass that fails saves the inventory it loaded.
LEMMA FailedMove ==
    ASSUME NEW p \in Passes, NEW q, q = Failed(p)
    PROVE  /\ q \in Passes /\ q.pc = "saveMap"
           /\ q.d = p.d /\ q.inv = p.inv /\ q.got = p.inv
BY DEF Failed, Passes, PCs

\* A pass that succeeds saves what it applied.
LEMMA AppliedMove ==
    ASSUME NEW p \in Passes, NEW q, q = Applied(p)
    PROVE  /\ q \in Passes /\ q.pc = "saveMap"
           /\ q.d = p.d /\ q.inv = p.inv /\ q.got = p.got
BY DEF Applied, Passes, PCs

\* After the last object is applied: what is stale is deleted first.
LEMMA PruningMove ==
    ASSUME NEW p \in Passes, NEW q, q = Pruning(p)
    PROVE  \/ q = Applied(p) /\ Stale(p) = {}
           \/ /\ q \in Passes /\ q.pc = "pruneGet"
              /\ q.todo = Stale(p) /\ q.todo # {}
              /\ q.d = p.d /\ q.inv = p.inv /\ q.got = p.got
<1>1. Stale(p) \subseteq Objs
  BY PassFields, ItemsOf DEF Stale
<1>2. [p EXCEPT !.pc = "pruneGet", !.todo = Stale(p)] \in Passes
  BY <1>1 DEF Passes, PCs
<1> QED
  BY <1>2 DEF Pruning, Passes

\* A pass applies its objects one by one, then prunes.
LEMMA ApplyingMove ==
    ASSUME NEW p \in Passes, NEW q, q = Applying(p)
    PROVE  \/ q = Pruning(p) /\ p.todo = {}
           \/ /\ q \in Passes /\ q.pc = "get" /\ q.todo = p.todo /\ q.todo # {}
              /\ q.d = p.d /\ q.inv = p.inv /\ q.got = p.got
BY DEF Applying, Passes, PCs

\* With the inventory, a pass goes on to expand, or to clean up.
LEMMA LoadedMove ==
    ASSUME NEW p \in Passes, NEW inv \in Inventories, NEW q, q = Loaded(p, inv)
    PROVE  /\ q \in Passes /\ q.d = p.d /\ q.inv = inv /\ q.got = p.got
           /\ \/ q.pc = "expand" /\ ~p.d.deleting
              \/ q.pc = "dropMap" /\ p.d.deleting /\ Items(inv) = {}
              \/ q.pc = "cleanupGet" /\ p.d.deleting /\ q.todo = Items(inv) /\ q.todo # {}
<1>1. Items(inv) \subseteq Objs
  BY ItemsOf
<1> QED
  BY <1>1 DEF Loaded, Passes, PCs

\* A pass goes on with what is left.
LEMMA RestMove ==
    ASSUME NEW p \in Passes, NEW todo \in SUBSET Objs, NEW c \in PCs,
           NEW q, q = [p EXCEPT !.todo = todo, !.pc = c]
    PROVE  /\ q \in Passes /\ q.pc = c /\ q.todo = todo
           /\ q.d = p.d /\ q.inv = p.inv /\ q.got = p.got /\ q.want = p.want
BY DEF Passes

\* A step of a worker is one of its pass alone.
LEMMA StepMove ==
    ASSUME wk \in [Workers -> Passes], NEW w \in Workers, NEW q \in Passes, Step(w, q)
    PROVE  /\ wk' \in [Workers -> Passes]
           /\ wk'[w] = q
           /\ \A v \in Workers \ {w} : wk'[v] = wk[v]
BY DEF Step

----------------------------------------------------------------------------
(* How objects change.                                                      *)

\* The types of the parts of the state.
LEMMA TypeFacts ==
    ASSUME TypeOK
    PROVE  /\ born \in Nat /\ decl.uid \in Nat
           /\ cache.decl \in Declarations /\ cache.decl.uid \in Nat /\ cache.cm \in Maps
           /\ cache.ns \in NamespaceLists
           /\ \A o \in Objs : /\ obj[o].uid \in Nat /\ obj[o].owner \in Nat
                              /\ obj[o].owner \in 0..MaxDecl /\ obj[o].term \in BOOLEAN
                              /\ last[o] \in Nat /\ ns[o].uid \in Nat
           /\ \A w \in Workers : wk[w] \in Passes
<1>1. born \in Nat /\ 0..MaxDecl \subseteq Nat
  BY DistributionAssumption DEF TypeOK
<1>2. /\ cache.decl \in Declarations /\ cache.cm \in Maps /\ cache.ns \in NamespaceLists
      /\ decl \in Declarations
  BY DEF TypeOK
<1>3. decl.uid \in Nat /\ cache.decl.uid \in Nat
  BY <1>2, DeclFields
<1> QED
  BY <1>1, <1>2, <1>3 DEF TypeOK, Objects, NamespaceLists

\* Leaving the target alone is a way for objects to change.
LEMMA Still ==
    ASSUME TypeOK, Uids, UNCHANGED <<targets, cache, born>>,
           decl'.uid = decl.uid \/ decl'.uid = 0
    PROVE  Evolves /\ Uids'
BY TypeFacts DEF Evolves, Uids, targets

\* What changes objects one at a time.
LEMMA ObjectChange ==
    ASSUME TypeOK, Uids, UNCHANGED <<decl, cache, born>>, NEW o \in Objs,
           NEW new \in Objects, new.owner <= born,
           obj' = [obj EXCEPT ![o] = new],
           \/ new.uid = 0 /\ UNCHANGED last
           \/ /\ new.uid = obj[o].uid /\ UNCHANGED last
              /\ new.owner = obj[o].owner \/ (obj[o].owner = 0 /\ new.owner # 0)
              /\ obj[o].term => new.term
           \/ new.uid = last[o] + 1 /\ last' = [last EXCEPT ![o] = new.uid]
    PROVE  /\ Evolves /\ Uids'
           /\ obj' \in [Objs -> Objects] /\ last' \in [Objs -> Nat]
           /\ obj'[o] = new
           /\ \A x \in Objs \ {o} : obj'[x] = obj[x] /\ last'[x] = last[x]
<1>1. obj \in [Objs -> Objects] /\ last \in [Objs -> Nat] /\ new.uid \in Nat
  BY DEF TypeOK, Objects
<1>2. /\ obj' \in [Objs -> Objects] /\ last' \in [Objs -> Nat]
      /\ obj'[o] = new
      /\ \A x \in Objs \ {o} : obj'[x] = obj[x] /\ last'[x] = last[x]
  BY <1>1
<1>3. \/ last'[o] = last[o] /\ (new.uid = 0 \/ new.uid = obj[o].uid)
      \/ last'[o] = new.uid /\ new.uid = last[o] + 1
  BY <1>1
<1>4. Evolves
  BY <1>2, <1>3, TypeFacts DEF Evolves
<1>5. new.uid \in {0, last'[o]}
  BY <1>3, TypeFacts DEF Uids
<1>6. Uids'
  BY <1>2, <1>5 DEF Uids
<1> QED
  BY <1>2, <1>4, <1>6

\* What fits goes on to fit: an object with the UID a pass has read keeps its
\* owner.
LEMMA FitsKept ==
    ASSUME TypeOK, Evolves, NEW p \in Passes, Fits(p)
    PROVE  Fits(p)'
<1>1. p.d.uid \in Nat /\ p.d.uid <= born'
  BY PassFields, DeclFields, TypeFacts DEF Fits, Evolves
<1>2. ASSUME p.pc \in {"pruneDelete", "cleanupDelete"}
      PROVE  Marked(p, Min(p.todo))'
  <2>1. PICK o \in Objs : o = Min(p.todo)
    BY <1>2, MinObject DEF Fits, Visiting
  <2>2. Marked(p, o) /\ p.d.uid # 0
    BY <1>2, <2>1, DistributionAssumption DEF Fits
  <2>3. p.inv[o].uid \in Nat
    BY PassFields, InventoryItem
  <2>4. p.inv[o].uid <= last'[o]
    BY <2>2, <2>3 DEF Marked, Evolves
  <2>5. ASSUME obj'[o].uid # 0, obj'[o].uid = p.inv[o].uid
        PROVE  obj'[o].owner = p.d.uid
    <3>1. obj'[o].uid # last[o] + 1
      BY <2>2, <2>3, <2>5 DEF Marked, Evolves
    <3>2. \/ obj'[o] = obj[o]
          \/ /\ obj'[o].uid = obj[o].uid
             /\ obj'[o].owner = obj[o].owner \/ obj[o].owner = 0
      BY <2>5, <3>1 DEF Evolves
    <3> QED
      BY <3>2, <2>2, <2>5 DEF Marked
  <2>6. Marked(p, o)'
    BY <2>4, <2>5 DEF Marked
  <2> QED
    BY <2>1, <2>6 DEF Marked
<1> QED
  BY <1>1, <1>2 DEF Fits, Marked

\* A step of one pass.
SharedPass(w) ==
    /\ TypeOK' /\ Uids' /\ Evolves
    /\ Fits(wk[w])'
    /\ \A v \in Workers \ {w} : wk'[v] = wk[v]

\* A step that only moves the pass and writes the inventory or the declaration.
LEMMA PassOnly ==
    ASSUME SharedInv, NEW w \in Workers, NEW q \in Passes, Step(w, q), Fits(q),
           UNCHANGED <<targets, budget>>,
           decl' \in Declarations, decl'.uid = decl.uid \/ decl'.uid = 0,
           cm' \in Maps
    PROVE  SharedPass(w)
<1>1. wk \in [Workers -> Passes] /\ TypeOK /\ Uids
  BY DEF SharedInv, TypeOK
<1>2. /\ wk' \in [Workers -> Passes] /\ wk'[w] = q
      /\ \A v \in Workers \ {w} : wk'[v] = wk[v]
  BY <1>1, StepMove
<1>3. TypeOK'
  BY <1>1, <1>2 DEF TypeOK, targets, budget
<1>4. Evolves /\ Uids'
  BY <1>1, Still DEF budget
<1>5. Fits(q)'
  BY <1>1, <1>4, FitsKept
<1>6. Fits(wk[w])'
  BY <1>2, <1>5 DEF Fits, Marked
<1> QED
  BY <1>2, <1>3, <1>4, <1>6 DEF SharedPass

\* Where nothing is read of an object, fitting is about the declaration alone.
LEMMA FitsDecl ==
    ASSUME NEW p, Fits(p), NEW q, q.d = p.d, p.pc # "idle",
           q.pc \in Visiting => q.todo # {},
           q.pc \notin {"pruneDelete", "cleanupDelete"}
    PROVE  Fits(q)
BY DEF Fits

\* No pass is a pass that fits.
LEMMA IdleFits == ASSUME TypeOK PROVE Fits(Idle)
BY IdleType, GoneType, TypeFacts DEF Fits, Visiting

----------------------------------------------------------------------------
(* The steps of a pass.                                                     *)

\* What the shared invariant says of one worker.
LEMMA SharedFacts ==
    ASSUME SharedInv, NEW w \in Workers
    PROVE  /\ TypeOK /\ Uids /\ wk[w] \in Passes /\ Fits(wk[w])
           /\ wk \in [Workers -> Passes]
           /\ decl \in Declarations
           /\ cm \in Maps
           /\ obj \in [Objs -> Objects]
BY DEF SharedInv, TypeOK

\* What a pass reads of the management API has its type, and a declaration there
\* has been.
LEMMA SeenFacts ==
    ASSUME TypeOK, Uids
    PROVE  /\ Seen.decl \in Declarations /\ Seen.decl.uid \in Nat /\ Seen.decl.uid <= born
           /\ Seen.cm \in Maps /\ Seen.cm.inv \in Inventories \cup {None}
           /\ Seen.ns \in NamespaceLists
<1>1. Seen.cm \in Maps /\ Seen.decl \in Declarations /\ Seen.ns \in NamespaceLists
  BY TypeFacts DEF TypeOK, Seen
<1>2. Seen.decl.uid \in Nat /\ Seen.decl.uid <= born
  BY TypeFacts DEF Uids, Seen
<1> QED
  BY <1>1, <1>2 DEF Maps

\* The pass a worker begins with, before anything is loaded.
Begun == [Idle EXCEPT !.d = [Seen.decl EXCEPT !.ann = None]]

\* What a pass begins with.
LEMMA BegunType ==
    ASSUME TypeOK, Uids, NEW p, p = Begun
    PROVE  /\ p \in Passes /\ p.pc = "idle" /\ p.d \in Declarations
           /\ p.d.uid = Seen.decl.uid
           /\ p.inv = Empty /\ p.got = Empty
<1>1. PICK d : d = [Seen.decl EXCEPT !.ann = None]
  OBVIOUS
<1>2. d \in Declarations /\ d.uid = Seen.decl.uid
  BY <1>1, SeenFacts DEF Declarations
<1>3. p = [Idle EXCEPT !.d = d]
  BY <1>1 DEF Begun
<1> QED
  BY <1>2, <1>3, IdleType DEF Passes

\* What Begin moves the pass to.
BeginMove(w, p, q) ==
    /\ p = Begun
    /\ Step(w, q)
    /\ \/ q = [p EXCEPT !.pc = "load"]
       \/ Seen.decl.ann # None /\ q = Loaded(p, Seen.decl.ann)

\* What beginning a pass does.
LEMMA BeginEffect ==
    ASSUME SharedInv, NEW w \in Workers, Begin(w)
    PROVE  \E p, q \in Passes : BeginMove(w, p, q)
<1>1. TypeOK /\ Uids /\ Seen.decl \in Declarations
  BY SeenFacts DEF SharedInv
<1>2. PICK p : p = Begun
  OBVIOUS
<1>3. p \in Passes
  BY <1>1, <1>2, BegunType
<1>4. [p EXCEPT !.pc = "load"] \in Passes
  BY <1>3 DEF Passes, PCs
<1>5. Seen.decl.ann # None => Loaded(p, Seen.decl.ann) \in Passes
  BY <1>1, <1>3, LoadedMove, DeclFields
<1> QED
  BY <1>2, <1>3, <1>4, <1>5 DEF Begin, BeginMove, Begun

\* Reading the declaration and the annotation.
LEMMA BeginShared ==
    ASSUME SharedInv, NEW w \in Workers, Begin(w)
    PROVE  SharedPass(w)
<1>1. /\ TypeOK /\ Uids /\ Seen.decl \in Declarations
      /\ Seen.decl.uid <= born /\ Seen.decl.uid # 0
  BY SeenFacts DEF SharedInv, Begin
<1>2. PICK p \in Passes, q \in Passes : BeginMove(w, p, q)
  BY BeginEffect
<1>3. p.d.uid = Seen.decl.uid
  BY <1>1, <1>2, BegunType DEF BeginMove
<1>4. CASE q = [p EXCEPT !.pc = "load"]
  <2>1. q.pc = "load" /\ q.d = p.d
    BY <1>4 DEF Passes
  <2>2. Fits(q)
    BY <2>1, <1>1, <1>3 DEF Fits, Visiting
  <2> QED
    BY <2>2, <1>2, PassOnly, SharedFacts DEF Begin, BeginMove
<1>5. CASE Seen.decl.ann # None /\ q = Loaded(p, Seen.decl.ann)
  <2>1. Seen.decl.ann \in Inventories
    BY <1>1, <1>5, DeclFields
  <2>2. Fits(q)
    BY <2>1, <1>1, <1>3, <1>5, LoadedMove DEF Fits, Visiting
  <2> QED
    BY <2>2, <1>2, PassOnly, SharedFacts DEF Begin, BeginMove
<1> QED
  BY <1>2, <1>4, <1>5 DEF BeginMove

\* Reading the ConfigMap.
LEMMA LoadMapShared ==
    ASSUME SharedInv, NEW w \in Workers, LoadMap(w)
    PROVE  SharedPass(w)
<1>1. PICK p \in Passes : p = wk[w] /\ Fits(p) /\ p.pc = "load"
  BY SharedFacts DEF LoadMap
<1>2. PICK inv \in Inventories : inv = IF Seen.cm.inv = None THEN Empty ELSE Seen.cm.inv
  BY EmptyType, SharedFacts, SeenFacts
<1>3. PICK q : q = Loaded(p, inv) /\ Step(w, q)
  BY <1>1, <1>2 DEF LoadMap
<1>4. q \in Passes /\ Fits(q)
  BY <1>1, <1>3, LoadedMove, FitsDecl DEF Visiting
<1> QED
  BY <1>3, <1>4, PassOnly, SharedFacts DEF LoadMap

\* After the objects: the pass gets its first object, prunes, or saves.
LEMMA ApplyingFits ==
    ASSUME NEW p \in Passes, NEW r, Fits(r), r.pc # "idle", p.d = r.d,
           NEW q, q = Applying(p)
    PROVE  q \in Passes /\ Fits(q)
<1>1. q \in Passes /\ q.d = p.d /\ q.pc \in {"get", "pruneGet", "saveMap"}
      /\ (q.pc # "saveMap" => q.todo # {})
  BY ApplyingMove, PruningMove, AppliedMove
<1> QED
  BY <1>1, FitsDecl DEF Visiting

\* What Expand reads and what it moves the pass to.
ExpandMove(w, p, r, q) ==
    LET d == p.d
        want == [o \in Objs |-> IF o \in d.spec /\ Seen.ns[o].active THEN Seen.ns[o].uid ELSE 0]
        todo == {o \in Objs : want[o] # 0}
    IN /\ p = wk[w]
       /\ r = [p EXCEPT !.want = want, !.todo = todo]
       /\ Step(w, q)
       /\ \/ q = Failed(p)
          \/ q = Applied(r) /\ Items(p.inv) = {}
          \/ q = [r EXCEPT !.pc = "finalizer", !.todo = {}] /\ ~d.fin
          \/ q = Applying(r) /\ d.fin

\* What expanding the declaration does.
LEMMA ExpandEffect ==
    ASSUME SharedInv, NEW w \in Workers, Expand(w)
    PROVE  \E p \in Passes, r \in Passes, q \in Passes :
              /\ ExpandMove(w, p, r, q)
              /\ r.d = p.d /\ r.inv = p.inv /\ r.got = p.got
              /\ Fits(q)
<1>1. PICK p \in Passes : p = wk[w] /\ Fits(p) /\ p.pc = "expand"
  BY SharedFacts DEF Expand
<1>2. PICK want : want = [o \in Objs |-> IF o \in p.d.spec /\ Seen.ns[o].active
                                         THEN Seen.ns[o].uid ELSE 0]
  OBVIOUS
<1>3. PICK todo : todo = {o \in Objs : want[o] # 0}
  OBVIOUS
<1>4. want \in [Objs -> Nat] /\ todo \subseteq Objs
  BY <1>2, <1>3, SeenFacts DEF SharedInv, NamespaceLists
<1>5. PICK r : r = [p EXCEPT !.want = want, !.todo = todo]
  OBVIOUS
<1>6. r \in Passes /\ r.d = p.d /\ r.inv = p.inv /\ r.got = p.got
  BY <1>4, <1>5 DEF Passes
<1>7. PICK q : ExpandMove(w, p, r, q)
  <2>1. PICK q : /\ Step(w, q)
                 /\ q = IF \E o \in p.d.spec \cap Explicit : ~Seen.ns[o].active THEN Failed(p)
                        ELSE IF todo = {} /\ Items(r.inv) = {} THEN Applied(r)
                        ELSE IF ~p.d.fin THEN [r EXCEPT !.pc = "finalizer", !.todo = {}]
                        ELSE Applying(r)
    BY <1>1, <1>2, <1>3, <1>5 DEF Expand
  <2> QED
    BY <2>1, <1>1, <1>2, <1>3, <1>5, <1>6 DEF ExpandMove
<1>8. q \in Passes /\ Fits(q)
  <2>1. CASE q = Failed(p)
    BY <2>1, <1>1, FailedMove, FitsDecl DEF Visiting
  <2>2. CASE q = Applied(r)
    BY <2>2, <1>1, <1>6, AppliedMove, FitsDecl DEF Visiting
  <2>3. CASE q = [r EXCEPT !.pc = "finalizer", !.todo = {}]
    <3>1. q \in Passes /\ q.d = p.d /\ q.pc = "finalizer"
      BY <2>3, <1>6 DEF Passes, PCs
    <3> QED
      BY <3>1, <1>1, FitsDecl DEF Visiting
  <2>4. CASE q = Applying(r)
    BY <2>4, <1>1, <1>6, ApplyingFits
  <2> QED
    BY <1>7, <2>1, <2>2, <2>3, <2>4 DEF ExpandMove
<1> QED
  BY <1>1, <1>6, <1>7, <1>8

\* Expanding the declaration over the namespaces.
LEMMA ExpandShared ==
    ASSUME SharedInv, NEW w \in Workers, Expand(w)
    PROVE  SharedPass(w)
<1>1. PICK p \in Passes, r \in Passes, q \in Passes : Step(w, q) /\ Fits(q)
  BY ExpandEffect DEF ExpandMove
<1> QED
  BY <1>1, PassOnly, SharedFacts DEF Expand

\* A pass that ends.
LEMMA EndShared ==
    ASSUME SharedInv, NEW w \in Workers, End(w), UNCHANGED <<targets, budget>>,
           decl' \in Declarations, decl'.uid = decl.uid \/ decl'.uid = 0,
           cm' \in Maps
    PROVE  SharedPass(w)
BY IdleType, IdleFits, PassOnly DEF End, SharedInv

\* Writing the finalizer.
LEMMA AddFinalizerShared ==
    ASSUME SharedInv, NEW w \in Workers, AddFinalizer(w)
    PROVE  SharedPass(w)
<1>1. [decl EXCEPT !.fin = TRUE] \in Declarations /\ [decl EXCEPT !.fin = TRUE].uid = decl.uid
  BY SharedFacts DEF Declarations
<1> QED
  BY <1>1, EndShared, SharedFacts DEF AddFinalizer

\* Reading an object before it is applied.
LEMMA GetObjectShared ==
    ASSUME SharedInv, NEW w \in Workers, GetObject(w)
    PROVE  SharedPass(w)
<1>1. PICK p \in Passes : p = wk[w] /\ Fits(p) /\ p.pc = "get"
  BY SharedFacts DEF GetObject
<1>2. PICK q : Step(w, q) /\ (q = Failed(p) \/ q = [p EXCEPT !.pc = "patch"])
  BY <1>1 DEF GetObject
<1>3. CASE q = Failed(p)
  <2>1. q \in Passes /\ Fits(q)
    BY <1>1, <1>3, FailedMove, FitsDecl DEF Visiting
  <2> QED
    BY <2>1, <1>2, PassOnly, SharedFacts DEF GetObject
<1>4. CASE q = [p EXCEPT !.pc = "patch"]
  <2>1. q \in Passes /\ q.d = p.d /\ q.pc = "patch" /\ q.todo = p.todo
    BY <1>4 DEF Passes, PCs
  <2>2. Fits(q)
    BY <2>1, <1>1 DEF Fits, Visiting
  <2> QED
    BY <2>1, <2>2, <1>2, PassOnly, SharedFacts DEF GetObject
<1> QED
  BY <1>2, <1>3, <1>4

\* A step that changes one object besides.
LEMMA PassAndObject ==
    ASSUME SharedInv, NEW w \in Workers, NEW q \in Passes, Step(w, q), Fits(q),
           UNCHANGED <<decl, cm, ns, budget>>, Evolves, Uids',
           obj' \in [Objs -> Objects],
           last' \in [Objs -> Nat]
    PROVE  SharedPass(w)
<1>1. wk \in [Workers -> Passes] /\ TypeOK
  BY DEF SharedInv, TypeOK
<1>2. /\ wk' \in [Workers -> Passes] /\ wk'[w] = q
      /\ \A v \in Workers \ {w} : wk'[v] = wk[v]
  BY <1>1, StepMove
<1>3. TypeOK'
  BY <1>1, <1>2 DEF TypeOK, budget
<1>4. Fits(q)'
  BY <1>1, FitsKept
<1>5. Fits(wk[w])'
  BY <1>2, <1>4 DEF Fits, Marked
<1> QED
  BY <1>2, <1>3, <1>5 DEF SharedPass

\* Pass p with object o applied.
WithItem(p, o, uid) ==
    [p EXCEPT !.got[o] = [ns |-> p.want[o], uid |-> uid], !.todo = @ \ {o}]

\* What the patch call does when it succeeds: object o gets UID uid and the owner
\* of pass p, which goes on as q with the item in r.
Patched(w, p, o, uid, r, q) ==
    /\ o = Min(p.todo)
    /\ uid = IF obj[o].uid = 0 THEN last[o] + 1 ELSE obj[o].uid
    /\ obj[o].uid # 0 => obj[o].owner \in {0, p.d.uid}
    /\ obj' = [obj EXCEPT ![o] = [@ EXCEPT !.uid = uid, !.owner = p.d.uid]]
    /\ IF obj[o].uid = 0 THEN last' = [last EXCEPT ![o] = uid] ELSE last' = last
    /\ r = WithItem(p, o, uid)
    /\ Step(w, q) /\ q = Applying(r)

\* An applied object becomes an item of what the pass got.
LEMMA GotMove ==
    ASSUME NEW p \in Passes, NEW o \in Objs, NEW uid \in Nat,
           NEW r, r = WithItem(p, o, uid)
    PROVE  /\ r \in Passes /\ r.d = p.d /\ r.inv = p.inv
           /\ r.got[o].uid = uid
           /\ \A x \in Objs \ {o} : r.got[x] = p.got[x]
<1>1. PICK item : item = [ns |-> p.want[o], uid |-> uid]
  OBVIOUS
<1>2. item \in [ns : Nat, uid : Nat] /\ item.uid = uid
  BY <1>1, PassFields
<1>3. PICK got : got = [p.got EXCEPT ![o] = item]
  OBVIOUS
<1>4. /\ got \in Inventories /\ got[o] = item
      /\ \A x \in Objs \ {o} : got[x] = p.got[x]
  BY <1>2, <1>3, PassFields DEF Inventories
<1>5. r = [p EXCEPT !.got = got, !.todo = p.todo \ {o}]
  BY <1>1, <1>3 DEF WithItem
<1>6. r \in Passes /\ r.d = p.d /\ r.inv = p.inv /\ r.got = got
  BY <1>4, <1>5, PassFields DEF Passes
<1> QED
  BY <1>2, <1>4, <1>6

\* An apply fails without effect, or creates or takes over one object.
LEMMA PatchEffect ==
    ASSUME SharedInv, NEW w \in Workers, PatchObject(w)
    PROVE  \/ UNCHANGED targets /\ Step(w, Failed(wk[w]))
           \/ /\ UNCHANGED ns
              /\ \E o \in Objs, uid \in Nat, r \in Passes, q \in Passes :
                    Patched(w, wk[w], o, uid, r, q)
<1>1. PICK p \in Passes : p = wk[w] /\ Fits(p) /\ p.pc = "patch"
  BY SharedFacts DEF PatchObject
<1>2. PICK o \in Objs : o = Min(p.todo)
  BY <1>1, MinObject DEF Fits, Visiting
<1>3. PICK uid \in Nat : uid = IF obj[o].uid = 0 THEN last[o] + 1 ELSE obj[o].uid
  BY TypeFacts DEF SharedInv
<1>4. PICK r : r = WithItem(p, o, uid)
  OBVIOUS
<1>5. r \in Passes /\ Applying(r) \in Passes
  BY <1>4, GotMove, ApplyingMove, PruningMove, AppliedMove
<1>6. CASE (obj[o].uid = 0 /\ ~ns[o].active) \/ obj[o].owner \notin {0, p.d.uid}
  BY <1>1, <1>2, <1>6 DEF PatchObject
<1>7. CASE ~((obj[o].uid = 0 /\ ~ns[o].active) \/ obj[o].owner \notin {0, p.d.uid})
  <2>1. /\ obj' = [obj EXCEPT ![o] = [@ EXCEPT !.uid = uid, !.owner = p.d.uid]]
        /\ last' = [last EXCEPT ![o] = IF obj[o].uid = 0 THEN uid ELSE @]
        /\ Step(w, Applying(r))
        /\ UNCHANGED ns
    BY <1>1, <1>2, <1>3, <1>4, <1>7 DEF PatchObject, WithItem
  <2>2. last \in [Objs -> Nat]
    BY DEF SharedInv, TypeOK
  <2>3. IF obj[o].uid = 0 THEN last' = [last EXCEPT ![o] = uid] ELSE last' = last
    BY <2>1, <2>2
  <2>4. Patched(w, p, o, uid, r, Applying(r))
    BY <2>1, <2>3, <1>1, <1>2, <1>3, <1>4, <1>7 DEF Patched
  <2> QED
    BY <2>1, <2>4, <1>1, <1>5
<1> QED
  BY <1>6, <1>7

\* An applied object is owned by the declaration of the pass, and has a UID no
\* older object had.
LEMMA PatchedChange ==
    ASSUME SharedInv, NEW w \in Workers, NEW p \in Passes, NEW o \in Objs, NEW uid \in Nat,
           NEW r, NEW q, Patched(w, p, o, uid, r, q), p.pc = "patch", Fits(p),
           UNCHANGED <<decl, cache, born>>
    PROVE  /\ Evolves /\ Uids'
           /\ obj' \in [Objs -> Objects]
           /\ last' \in [Objs -> Nat]
           /\ obj'[o].uid = uid /\ obj'[o].owner = p.d.uid /\ p.d.uid # 0
           /\ \A x \in Objs \ {o} : obj'[x] = obj[x] /\ last'[x] = last[x]
           /\ last[o] <= uid /\ uid = last'[o]
<1>1. TypeOK /\ Uids /\ obj[o].uid \in {0, last[o]} /\ last[o] \in Nat
  BY TypeFacts DEF SharedInv, Uids
<1>2. p.d.uid \in 0..MaxDecl /\ p.d.uid <= born /\ p.d.uid # 0
  BY PassFields, DeclFields DEF Fits
<1>3. PICK new : new = [obj[o] EXCEPT !.uid = uid, !.owner = p.d.uid]
  OBVIOUS
<1>5. /\ new \in Objects /\ new.uid = uid /\ new.owner = p.d.uid /\ new.term = obj[o].term
  BY <1>1, <1>2, <1>3 DEF TypeOK, Objects
<1>6. /\ obj' = [obj EXCEPT ![o] = new]
      /\ \/ uid = obj[o].uid /\ UNCHANGED last
            /\ (p.d.uid = obj[o].owner \/ (obj[o].owner = 0 /\ p.d.uid # 0))
         \/ uid = last[o] + 1 /\ last' = [last EXCEPT ![o] = uid]
  BY <1>1, <1>2, <1>3 DEF Patched, TypeOK
<1>4. last[o] <= uid /\ uid = last'[o]
  <2>1. last \in [Objs -> Nat]
    BY <1>1 DEF TypeOK
  <2>2. CASE obj[o].uid = 0
    BY <2>1, <2>2, <1>1 DEF Patched
  <2>3. CASE obj[o].uid # 0
    BY <2>1, <2>3, <1>1 DEF Patched
  <2> QED
    BY <2>2, <2>3
<1> QED
  BY <1>1, <1>2, <1>4, <1>5, <1>6, ObjectChange

\* Applying an object.
LEMMA PatchObjectShared ==
    ASSUME SharedInv, NEW w \in Workers, PatchObject(w)
    PROVE  SharedPass(w)
<1>1. PICK p \in Passes : p = wk[w] /\ Fits(p) /\ p.pc = "patch"
  BY SharedFacts DEF PatchObject
<1>2. CASE UNCHANGED targets /\ Step(w, Failed(p))
  <2>1. Failed(p) \in Passes /\ Fits(Failed(p))
    BY <1>1, FailedMove, FitsDecl DEF Visiting
  <2> QED
    BY <2>1, <1>2, PassOnly, SharedFacts DEF PatchObject
<1>3. CASE UNCHANGED ns /\ \E o \in Objs, uid \in Nat, r \in Passes, q \in Passes :
                               Patched(w, p, o, uid, r, q)
  <2>1. PICK o \in Objs, uid \in Nat, r \in Passes, q \in Passes :
           Patched(w, p, o, uid, r, q)
    BY <1>3
  <2>2. UNCHANGED <<decl, cm, ns, budget>>
    BY <1>3 DEF PatchObject
  <2>3. Fits(q) /\ Step(w, q)
    BY <2>1, <1>1, GotMove, ApplyingFits DEF Patched
  <2> QED
    BY <2>1, <2>2, <2>3, <1>1, PatchedChange, PassAndObject DEF budget
<1> QED
  BY <1>1, <1>2, <1>3, PatchEffect

\* What the first call for an object permits the second to rely on.
LEMMA OwnedMarked ==
    ASSUME SharedInv, NEW p \in Passes, NEW o \in Objs,
           ~OwnershipLost(p, o), obj[o].uid # 0
    PROVE  Marked(p, o)
BY TypeFacts DEF SharedInv, Uids, OwnershipLost, Marked

\* What a loop of calls leaves to visit.
Rest(p, o) == [p EXCEPT !.todo = @ \ {o}]

\* A loop goes on with the rest of its objects.
LEMMA RestType ==
    ASSUME NEW p \in Passes, NEW o \in Objs, NEW r, r = Rest(p, o)
    PROVE  /\ r \in Passes /\ r.pc = p.pc /\ r.todo = p.todo \ {o}
           /\ r.d = p.d /\ r.inv = p.inv /\ r.got = p.got
BY DEF Rest, Passes

RestIn(p, o, c) == [Rest(p, o) EXCEPT !.pc = c]

\* The same, where the loop is over or at its next object.
LEMMA RestAt ==
    ASSUME NEW p \in Passes, NEW o \in Objs, NEW r,
           r \in {RestIn(p, o, "pruneGet"), RestIn(p, o, "cleanupGet"), RestIn(p, o, "dropMap")}
    PROVE  /\ r \in Passes /\ r.todo = p.todo \ {o}
           /\ r.d = p.d /\ r.inv = p.inv /\ r.got = p.got
           /\ r = RestIn(p, o, "pruneGet") => r.pc = "pruneGet"
           /\ r = RestIn(p, o, "cleanupGet") => r.pc = "cleanupGet"
           /\ r = RestIn(p, o, "dropMap") => r.pc = "dropMap"
<1>1. PICK rest \in Passes :
        /\ rest = Rest(p, o)
        /\ rest.todo = p.todo \ {o}
        /\ rest.d = p.d /\ rest.inv = p.inv /\ rest.got = p.got
  BY RestType
<1>2. /\ RestIn(p, o, "pruneGet") = [rest EXCEPT !.pc = "pruneGet"]
      /\ RestIn(p, o, "cleanupGet") = [rest EXCEPT !.pc = "cleanupGet"]
      /\ RestIn(p, o, "dropMap") = [rest EXCEPT !.pc = "dropMap"]
  BY <1>1 DEF RestIn
<1>3. CASE r = RestIn(p, o, "pruneGet")
  BY <1>1, <1>2, <1>3 DEF Passes, PCs
<1>4. CASE r = RestIn(p, o, "cleanupGet")
  BY <1>1, <1>2, <1>4 DEF Passes, PCs
<1>5. CASE r = RestIn(p, o, "dropMap")
  BY <1>1, <1>2, <1>5 DEF Passes, PCs
<1> QED
  BY <1>3, <1>4, <1>5

PruneGetMove(w, p, o, q) ==
    /\ o = Min(p.todo)
    /\ Step(w, q)
    /\ \/ q = Failed(p)
       \/ q = [p EXCEPT !.pc = "pruneDelete"] /\ ~OwnershipLost(p, o) /\ obj[o].uid # 0
       \/ q = Applied(Rest(p, o)) /\ obj[o].uid = 0 /\ p.todo \ {o} = {}
       \/ q = Rest(p, o) /\ obj[o].uid = 0 /\ p.todo \ {o} # {}

\* What reading an object to prune does: it marks the object, or passes it.
LEMMA PruneGetEffect ==
    ASSUME SharedInv, NEW w \in Workers, PruneGet(w), NEW p \in Passes, p = wk[w]
    PROVE  \E o \in Objs, q \in Passes : PruneGetMove(w, p, o, q) /\ Fits(q)
<1>1. Fits(p) /\ p.pc = "pruneGet"
  BY SharedFacts DEF PruneGet
<1>2. PICK o \in Objs : o = Min(p.todo)
  BY <1>1, MinObject DEF Fits, Visiting
<1>3. PICK q : PruneGetMove(w, p, o, q)
  <2>1. PICK rest : rest = Rest(p, o)
    OBVIOUS
  <2>2. rest.todo = p.todo \ {o}
    BY <2>1, RestType
  <2>3. PICK q : Step(w, q)
                 /\ q = IF OwnershipLost(p, o) THEN Failed(p)
                        ELSE IF obj[o].uid # 0 THEN [p EXCEPT !.pc = "pruneDelete"]
                        ELSE IF rest.todo = {} THEN Applied(rest) ELSE rest
    BY <1>2, <2>1 DEF PruneGet, Rest
  <2> QED
    BY <1>2, <2>1, <2>2, <2>3 DEF PruneGetMove
<1>4. CASE q = Failed(p)
  BY <1>1, <1>2, <1>3, <1>4, FailedMove, FitsDecl DEF Visiting
<1>5. CASE q = [p EXCEPT !.pc = "pruneDelete"] /\ ~OwnershipLost(p, o) /\ obj[o].uid # 0
  <2>1. /\ q \in Passes /\ q.d = p.d /\ q.pc = "pruneDelete" /\ q.todo = p.todo
        /\ q.inv = p.inv
    BY <1>5 DEF Passes, PCs
  <2>2. Marked(p, o)
    BY <1>5, OwnedMarked
  <2>3. Fits(q)
    BY <2>1, <2>2, <1>1, <1>2 DEF Fits, Marked, Visiting
  <2> QED
    BY <2>1, <2>3, <1>2, <1>3
<1>6. CASE q = Applied(Rest(p, o))
  BY <1>1, <1>2, <1>3, <1>6, RestType, AppliedMove, FitsDecl DEF Visiting
<1>7. CASE q = Rest(p, o) /\ p.todo \ {o} # {}
  BY <1>1, <1>2, <1>3, <1>7, RestType, FitsDecl DEF Visiting
<1> QED
  BY <1>3, <1>4, <1>5, <1>6, <1>7 DEF PruneGetMove

\* Reading an object before it is pruned.
LEMMA PruneGetShared ==
    ASSUME SharedInv, NEW w \in Workers, PruneGet(w)
    PROVE  SharedPass(w)
<1>1. PICK p \in Passes : p = wk[w]
  BY SharedFacts
<1>2. PICK o \in Objs, q \in Passes : Step(w, q) /\ Fits(q)
  BY <1>1, PruneGetEffect DEF PruneGetMove
<1> QED
  BY <1>2, PassOnly, SharedFacts DEF PruneGet

\* A delete call that finds the object it was meant for.
DeletedBy(p, o) ==
    /\ obj[o].uid = p.inv[o].uid
    /\ obj' = [obj EXCEPT ![o] = Deleted(o)]
    /\ UNCHANGED <<ns, last>>

\* What an accepted delete call leaves is gone, or the same object on its way.
LEMMA DeletedType ==
    ASSUME TypeOK, Uids, NEW o \in Objs, NEW new, new = Deleted(o)
    PROVE  /\ new \in Objects /\ new.owner <= born
           /\ \/ new.uid = 0 /\ new.owner = 0
              \/ new.uid = obj[o].uid /\ new.owner = obj[o].owner /\ new.term
<1>1. obj[o] \in Objects /\ obj[o].owner <= born /\ 0 <= born
  BY TypeFacts DEF TypeOK, Uids
<1>2. CASE o \in Slow
  BY <1>1, <1>2 DEF Deleted, Objects
<1>3. CASE o \notin Slow
  BY <1>1, <1>3, AbsentType DEF Deleted
<1> QED
  BY <1>2, <1>3

\* A deletion is a way for objects to change.
LEMMA DeletedChange ==
    ASSUME SharedInv, NEW o \in Objs, NEW new \in {Deleted(o), Absent},
           obj' = [obj EXCEPT ![o] = new], UNCHANGED <<decl, cache, born, last>>
    PROVE  /\ Evolves /\ Uids'
           /\ obj' \in [Objs -> Objects] /\ last' \in [Objs -> Nat]
           /\ obj'[o].uid = 0 \/ obj'[o].term
           /\ \A x \in Objs \ {o} : obj'[x] = obj[x]
<1>1. TypeOK /\ Uids /\ born \in Nat
  BY TypeFacts DEF SharedInv
<1>2. /\ new \in Objects /\ new.owner <= born
      /\ \/ new.uid = 0
         \/ new.uid = obj[o].uid /\ new.owner = obj[o].owner /\ new.term
  BY <1>1, DeletedType, AbsentType
<1> QED
  BY <1>1, <1>2, ObjectChange

PruneDeleteMove(w, p, o, q) ==
    /\ o = Min(p.todo)
    /\ Step(w, q)
    /\ \/ q = Failed(p) /\ UNCHANGED targets
       \/ /\ q = Applied(RestIn(p, o, "pruneGet"))
          /\ DeletedBy(p, o) /\ p.todo \ {o} = {}
       \/ q = RestIn(p, o, "pruneGet") /\ DeletedBy(p, o) /\ p.todo \ {o} # {}

\* What a delete call of the pruning does: it deletes the object marked, or
\* none.
LEMMA PruneDeleteEffect ==
    ASSUME SharedInv, NEW w \in Workers, PruneDelete(w), NEW p \in Passes, p = wk[w]
    PROVE  \E o \in Objs, q \in Passes : PruneDeleteMove(w, p, o, q) /\ Fits(q)
<1>1. Fits(p) /\ p.pc = "pruneDelete"
  BY SharedFacts DEF PruneDelete
<1>2. PICK o \in Objs : o = Min(p.todo)
  BY <1>1, MinObject DEF Fits, Visiting
<1>3. PICK rest : rest = RestIn(p, o, "pruneGet")
  OBVIOUS
<1>4. /\ rest \in Passes /\ rest.todo = p.todo \ {o} /\ rest.pc = "pruneGet"
      /\ rest.d = p.d /\ rest.inv = p.inv /\ rest.got = p.got
  BY <1>3, RestAt
<1>5. rest = [p EXCEPT !.todo = @ \ {o}, !.pc = "pruneGet"]
  BY <1>3 DEF Rest, RestIn
<1>6. PICK q : PruneDeleteMove(w, p, o, q)
  <2>1. CASE SameObject(w, o)
    <3>1. DeletedBy(p, o)
      BY <2>1, <1>2 DEF PruneDelete, SameObject, DeletedBy
    <3>2. PICK q : Step(w, q) /\ q = IF rest.todo = {} THEN Applied(rest) ELSE rest
      BY <2>1, <1>2, <1>5 DEF PruneDelete
    <3> QED
      BY <3>1, <3>2, <1>2, <1>3, <1>4 DEF PruneDeleteMove
  <2>2. CASE ~SameObject(w, o)
    BY <2>2, <1>2 DEF PruneDelete, PruneDeleteMove, targets
  <2> QED
    BY <2>1, <2>2
<1>7. CASE q = Failed(p)
  BY <1>1, <1>2, <1>6, <1>7, FailedMove, FitsDecl DEF Visiting
<1>8. CASE q = Applied(rest)
  BY <1>1, <1>2, <1>4, <1>6, <1>8, AppliedMove, FitsDecl DEF Visiting
<1>9. CASE q = rest /\ p.todo \ {o} # {}
  BY <1>1, <1>2, <1>4, <1>6, <1>9, FitsDecl DEF Visiting
<1> QED
  BY <1>3, <1>6, <1>7, <1>8, <1>9 DEF PruneDeleteMove

\* Deleting an object that is no longer declared.
LEMMA PruneDeleteShared ==
    ASSUME SharedInv, NEW w \in Workers, PruneDelete(w)
    PROVE  SharedPass(w)
<1>1. PICK p \in Passes : p = wk[w]
  BY SharedFacts
<1>2. PICK o \in Objs, q \in Passes : PruneDeleteMove(w, p, o, q) /\ Fits(q)
  BY <1>1, PruneDeleteEffect
<1>3. CASE UNCHANGED targets
  BY <1>2, <1>3, PassOnly, SharedFacts DEF PruneDelete, PruneDeleteMove
<1>4. CASE DeletedBy(p, o)
  BY <1>2, <1>4, DeletedChange, PassAndObject DEF PruneDelete, PruneDeleteMove, DeletedBy, budget
<1> QED
  BY <1>2, <1>3, <1>4 DEF PruneDeleteMove

CleanupGetMove(w, p, o, q) ==
    /\ o = Min(p.todo)
    /\ Step(w, q)
    /\ \/ q = Idle
       \/ q = [p EXCEPT !.pc = "cleanupDelete"] /\ ~OwnershipLost(p, o) /\ obj[o].uid # 0
       \/ q = RestIn(p, o, "dropMap") /\ obj[o].uid = 0 /\ p.todo \ {o} = {}
       \/ q = Rest(p, o) /\ obj[o].uid = 0 /\ p.todo \ {o} # {}

\* What reading an object to clean up does: it marks the object, or passes it.
LEMMA CleanupGetEffect ==
    ASSUME SharedInv, NEW w \in Workers, CleanupGet(w), NEW p \in Passes, p = wk[w]
    PROVE  \E o \in Objs, q \in Passes : CleanupGetMove(w, p, o, q) /\ Fits(q)
<1>1. Fits(p) /\ p.pc = "cleanupGet"
  BY SharedFacts DEF CleanupGet
<1>2. PICK o \in Objs : o = Min(p.todo)
  BY <1>1, MinObject DEF Fits, Visiting
<1>3. PICK q : CleanupGetMove(w, p, o, q)
  <2>1. PICK rest : rest = Rest(p, o)
    OBVIOUS
  <2>2. rest.todo = p.todo \ {o}
    BY <2>1, RestType
  <2>3. PICK q : Step(w, q)
                 /\ q = IF OwnershipLost(p, o) THEN Idle
                        ELSE IF obj[o].uid # 0 THEN [p EXCEPT !.pc = "cleanupDelete"]
                        ELSE IF rest.todo = {} THEN [rest EXCEPT !.pc = "dropMap"] ELSE rest
    BY <1>2, <2>1 DEF CleanupGet, Rest
  <2> QED
    BY <1>2, <2>1, <2>2, <2>3 DEF CleanupGetMove, RestIn
<1>4. CASE q = Idle
  BY <1>2, <1>3, <1>4, IdleType, IdleFits DEF SharedInv
<1>5. CASE q = [p EXCEPT !.pc = "cleanupDelete"] /\ ~OwnershipLost(p, o) /\ obj[o].uid # 0
  <2>1. /\ q \in Passes /\ q.d = p.d /\ q.pc = "cleanupDelete" /\ q.todo = p.todo
        /\ q.inv = p.inv
    BY <1>5 DEF Passes, PCs
  <2>2. Marked(p, o)
    BY <1>5, OwnedMarked
  <2>3. Fits(q)
    BY <2>1, <2>2, <1>1, <1>2 DEF Fits, Marked, Visiting
  <2> QED
    BY <2>1, <2>3, <1>2, <1>3
<1>6. CASE q = RestIn(p, o, "dropMap")
  <2>1. q \in Passes /\ q.d = p.d /\ q.pc = "dropMap"
    BY <1>2, <1>6, RestAt
  <2> QED
    BY <2>1, <1>1, <1>2, <1>3, FitsDecl DEF Visiting
<1>7. CASE q = Rest(p, o) /\ p.todo \ {o} # {}
  BY <1>1, <1>2, <1>3, <1>7, RestType, FitsDecl DEF Visiting
<1> QED
  BY <1>3, <1>4, <1>5, <1>6, <1>7 DEF CleanupGetMove

\* Reading an object before it is cleaned up.
LEMMA CleanupGetShared ==
    ASSUME SharedInv, NEW w \in Workers, CleanupGet(w)
    PROVE  SharedPass(w)
<1>1. PICK p \in Passes : p = wk[w]
  BY SharedFacts
<1>2. PICK o \in Objs, q \in Passes : Step(w, q) /\ Fits(q)
  BY <1>1, CleanupGetEffect DEF CleanupGetMove
<1> QED
  BY <1>2, PassOnly, SharedFacts DEF CleanupGet

CleanupDeleteMove(w, p, o, q) ==
    /\ o = Min(p.todo)
    /\ Step(w, q)
    /\ \/ q = Idle /\ UNCHANGED targets
       \/ q = RestIn(p, o, "dropMap") /\ DeletedBy(p, o) /\ p.todo \ {o} = {}
       \/ q = RestIn(p, o, "cleanupGet") /\ DeletedBy(p, o) /\ p.todo \ {o} # {}

\* What a delete call of the cleanup does: it deletes the object marked, or
\* none.
LEMMA CleanupDeleteEffect ==
    ASSUME SharedInv, NEW w \in Workers, CleanupDelete(w), NEW p \in Passes, p = wk[w]
    PROVE  \E o \in Objs, q \in Passes : CleanupDeleteMove(w, p, o, q) /\ Fits(q)
<1>1. Fits(p) /\ p.pc = "cleanupDelete"
  BY SharedFacts DEF CleanupDelete
<1>2. PICK o \in Objs : o = Min(p.todo)
  BY <1>1, MinObject DEF Fits, Visiting
<1>3. PICK rest : rest = Rest(p, o)
  OBVIOUS
<1>4. PICK q : CleanupDeleteMove(w, p, o, q)
  <2>1. CASE SameObject(w, o)
    <3>1. DeletedBy(p, o)
      BY <2>1, <1>2 DEF CleanupDelete, SameObject, DeletedBy
    <3>2. PICK q : Step(w, q) /\ q = [rest EXCEPT !.pc = IF rest.todo = {} THEN "dropMap"
                                                       ELSE "cleanupGet"]
      BY <2>1, <1>2, <1>3 DEF CleanupDelete, Rest
    <3>3. rest.todo = p.todo \ {o}
      BY <1>3, RestType
    <3> QED
      BY <3>1, <3>2, <3>3, <1>2, <1>3 DEF CleanupDeleteMove, RestIn
  <2>2. CASE ~SameObject(w, o)
    BY <2>2, <1>2 DEF CleanupDelete, CleanupDeleteMove, End, targets
  <2> QED
    BY <2>1, <2>2
<1>5. CASE q = Idle
  BY <1>2, <1>4, <1>5, IdleType, IdleFits DEF SharedInv
<1>6. CASE q = RestIn(p, o, "dropMap")
  <2>1. q \in Passes /\ q.d = p.d /\ q.pc = "dropMap"
    BY <1>2, <1>6, RestAt
  <2> QED
    BY <2>1, <1>1, <1>2, <1>4, FitsDecl DEF Visiting
<1>7. CASE q = RestIn(p, o, "cleanupGet") /\ p.todo \ {o} # {}
  <2>1. q \in Passes /\ q.d = p.d /\ q.pc = "cleanupGet" /\ q.todo = p.todo \ {o}
    BY <1>2, <1>7, RestAt
  <2> QED
    BY <2>1, <1>1, <1>2, <1>4, <1>7, FitsDecl DEF Visiting
<1> QED
  BY <1>4, <1>5, <1>6, <1>7 DEF CleanupDeleteMove

\* Deleting an object of a deleted declaration.
LEMMA CleanupDeleteShared ==
    ASSUME SharedInv, NEW w \in Workers, CleanupDelete(w)
    PROVE  SharedPass(w)
<1>1. PICK p \in Passes : p = wk[w]
  BY SharedFacts
<1>2. PICK o \in Objs, q \in Passes : CleanupDeleteMove(w, p, o, q) /\ Fits(q)
  BY <1>1, CleanupDeleteEffect
<1>3. CASE UNCHANGED targets
  BY <1>2, <1>3, PassOnly, SharedFacts DEF CleanupDelete, CleanupDeleteMove
<1>4. CASE DeletedBy(p, o)
  BY <1>2, <1>4, DeletedChange, PassAndObject
     DEF CleanupDelete, CleanupDeleteMove, DeletedBy, budget
<1> QED
  BY <1>2, <1>3, <1>4 DEF CleanupDeleteMove

\* A step that moves the pass from one write to the next.
LEMMA WriteMove ==
    ASSUME SharedInv, NEW w \in Workers, wk[w].pc # "idle", NEW q,
           \/ q = [wk[w] EXCEPT !.pc = "saveAnnotation"]
           \/ q = [wk[w] EXCEPT !.pc = "dropAnnotation"]
           \/ q = [wk[w] EXCEPT !.pc = "release"]
    PROVE  /\ q \in Passes /\ Fits(q)
           /\ q.d = wk[w].d /\ q.inv = wk[w].inv /\ q.got = wk[w].got
           /\ q = [wk[w] EXCEPT !.pc = "saveAnnotation"] => q.pc = "saveAnnotation"
           /\ q = [wk[w] EXCEPT !.pc = "dropAnnotation"] => q.pc = "dropAnnotation"
           /\ q = [wk[w] EXCEPT !.pc = "release"] => q.pc = "release"
<1>1. PICK p \in Passes : p = wk[w] /\ Fits(p)
  BY SharedFacts
<1>2. /\ q \in Passes /\ q.d = p.d /\ q.inv = p.inv /\ q.got = p.got
      /\ q.pc \in {"saveAnnotation", "dropAnnotation", "release"}
  BY <1>1 DEF Passes, PCs
<1>3. /\ q = [p EXCEPT !.pc = "saveAnnotation"] => q.pc = "saveAnnotation"
      /\ q = [p EXCEPT !.pc = "dropAnnotation"] => q.pc = "dropAnnotation"
      /\ q = [p EXCEPT !.pc = "release"] => q.pc = "release"
  BY <1>1 DEF Passes
<1>4. Fits(q)
  BY <1>1, <1>2, FitsDecl DEF Visiting
<1> QED
  BY <1>1, <1>2, <1>3, <1>4

\* Saving the inventory to the ConfigMap.
LEMMA SaveMapShared ==
    ASSUME SharedInv, NEW w \in Workers, SaveMap(w)
    PROVE  SharedPass(w)
<1>1. CASE Seen.cm = cm
  <2>1. PICK q : q = [wk[w] EXCEPT !.pc = "saveAnnotation"] /\ Step(w, q)
    BY <1>1 DEF SaveMap
  <2>2. q \in Passes /\ Fits(q)
    BY <2>1, WriteMove DEF SaveMap
  <2>3. cm' \in Maps
    BY <1>1, SharedFacts, PassFields, DeclFields DEF SaveMap, Maps
  <2> QED
    BY <2>1, <2>2, <2>3, PassOnly, SharedFacts DEF SaveMap
<1>2. CASE Seen.cm # cm
  BY <1>2, EndShared, SharedFacts DEF SaveMap
<1> QED
  BY <1>1, <1>2

\* The declaration may get and lose its annotation.
LEMMA AnnotatedType ==
    ASSUME TypeOK, NEW inv \in Inventories \cup {None}, NEW d, d = Annotated(inv)
    PROVE  /\ d \in Declarations
           /\ d.uid = decl.uid /\ d.fin = decl.fin /\ d.deleting = decl.deleting
           /\ d.policy = decl.policy
           /\ Present => d.ann = inv
           /\ ~Present => d = decl
BY DEF TypeOK, Declarations, Annotated

\* Saving the inventory to the annotation.
LEMMA SaveAnnotationShared ==
    ASSUME SharedInv, NEW w \in Workers, SaveAnnotation(w)
    PROVE  SharedPass(w)
<1>1. wk[w].got \in Inventories /\ TypeOK
  BY SharedFacts, PassFields
<1>2. decl' \in Declarations /\ decl'.uid = decl.uid
  BY <1>1, AnnotatedType, SharedFacts DEF SaveAnnotation
<1> QED
  BY <1>2, EndShared, SharedFacts DEF SaveAnnotation

\* Deleting the ConfigMap.
LEMMA DropMapShared ==
    ASSUME SharedInv, NEW w \in Workers, DropMap(w)
    PROVE  SharedPass(w)
<1>1. PICK q : q = [wk[w] EXCEPT !.pc = "dropAnnotation"] /\ Step(w, q)
  BY DEF DropMap
<1>2. q \in Passes /\ Fits(q)
  BY <1>1, WriteMove DEF DropMap
<1>3. cm' \in Maps
  BY DistributionAssumption DEF DropMap, Maps
<1> QED
  BY <1>1, <1>2, <1>3, PassOnly, SharedFacts DEF DropMap

\* Removing the annotation.
LEMMA DropAnnotationShared ==
    ASSUME SharedInv, NEW w \in Workers, DropAnnotation(w)
    PROVE  SharedPass(w)
<1>1. decl' \in Declarations /\ decl'.uid = decl.uid
  BY AnnotatedType, SharedFacts DEF DropAnnotation
<1>2. CASE End(w)
  BY <1>1, <1>2, EndShared, SharedFacts DEF DropAnnotation
<1>3. CASE ~End(w)
  <2>1. PICK q : q = [wk[w] EXCEPT !.pc = "release"] /\ Step(w, q)
    BY <1>3 DEF DropAnnotation, End
  <2>2. q \in Passes /\ Fits(q)
    BY <2>1, WriteMove DEF DropAnnotation
  <2> QED
    BY <1>1, <2>1, <2>2, PassOnly, SharedFacts DEF DropAnnotation
<1> QED
  BY <1>2, <1>3

\* Removing the finalizer.
LEMMA ReleaseShared ==
    ASSUME SharedInv, NEW w \in Workers, Release(w)
    PROVE  SharedPass(w)
<1>1. [decl EXCEPT !.fin = FALSE] \in Declarations /\ [decl EXCEPT !.fin = FALSE].uid = decl.uid
  BY SharedFacts DEF Declarations
<1>2. decl' \in Declarations /\ (decl'.uid = decl.uid \/ decl'.uid = 0)
  BY <1>1, GoneType, SharedFacts DEF Release
<1> QED
  BY <1>2, EndShared, SharedFacts DEF Release

\* Every step of a pass changes objects as Evolves allows, and keeps the pass
\* fitting.
LEMMA PassShared ==
    ASSUME SharedInv, NEW w \in Workers, Pass(w)
    PROVE  SharedPass(w)
BY BeginShared, LoadMapShared, ExpandShared, AddFinalizerShared, GetObjectShared,
   PatchObjectShared, PruneGetShared, PruneDeleteShared, SaveMapShared,
   SaveAnnotationShared, CleanupGetShared, CleanupDeleteShared, DropMapShared,
   DropAnnotationShared, ReleaseShared DEF Pass

----------------------------------------------------------------------------
(* The other steps.                                                         *)

\* So does a failed call.
LEMMA CallFailsShared ==
    ASSUME SharedInv, NEW w \in Workers, CallFails(w)
    PROVE  SharedPass(w)
<1>1. PICK p \in Passes : p = wk[w] /\ Fits(p)
  BY SharedFacts
<1>2. Failed(p) \in Passes /\ Fits(Failed(p)) /\ Step(w, Failed(p))
  BY <1>1, FailedMove, FitsDecl DEF CallFails, Visiting
<1>3. /\ wk' \in [Workers -> Passes] /\ wk'[w] = Failed(p)
      /\ \A v \in Workers \ {w} : wk'[v] = wk[v]
  BY <1>2, StepMove, SharedFacts
<1>4. Evolves /\ Uids' /\ faults' \in 0..MaxFaults
  BY Still, SharedFacts, DistributionAssumption DEF CallFails, Faulty, TypeOK
<1>5. TypeOK'
  BY <1>3, <1>4, SharedFacts DEF CallFails, Faulty, TypeOK, targets
<1>6. Fits(Failed(p))'
  BY <1>2, <1>4, FitsKept, SharedFacts
<1>7. Fits(wk[w])'
  BY <1>3, <1>6 DEF Fits, Marked
<1> QED
  BY <1>3, <1>4, <1>5, <1>7 DEF SharedPass

\* A step of the others.
SharedOther == TypeOK' /\ Uids' /\ Evolves /\ UNCHANGED wk

\* The types of what users change.
LEMMA SharedTypes ==
    ASSUME SharedInv
    PROVE  /\ TypeOK /\ Uids
           /\ decl \in Declarations /\ born \in 1..MaxDecl /\ born \in Nat
           /\ edits \in 0..MaxEdits /\ faults \in 0..MaxFaults
           /\ ns \in NamespaceLists /\ cm \in Maps
           /\ obj \in [Objs -> Objects] /\ last \in [Objs -> Nat]
BY TypeFacts DEF SharedInv, TypeOK

\* A step of a user is counted.
LEMMA UserBudget ==
    ASSUME SharedInv, User
    PROVE  edits' \in 0..MaxEdits /\ UNCHANGED <<cache, wk, faults>>
<1>1. edits \in 0..MaxEdits /\ MaxEdits \in Nat
  BY SharedTypes, DistributionAssumption
<1> QED
  BY <1>1 DEF User

\* A user writes the spec of a declaration.
Specified(d, s, k) == [d EXCEPT !.spec = s, !.policy = k]

\* An edit of a declaration changes what it lists, and its policy only.
LEMMA SpecifiedType ==
    ASSUME NEW d \in Declarations, NEW s \in SUBSET Objs, NEW k \in Policies,
           NEW e, e = Specified(d, s, k)
    PROVE  /\ e \in Declarations
           /\ e.uid = d.uid /\ e.ann = d.ann /\ e.fin = d.fin /\ e.deleting = d.deleting
BY DEF Specified, Declarations

\* Users create, edit and delete declarations.
LEMMA DeclShared ==
    ASSUME SharedInv, CreateDecl \/ EditDecl \/ DeleteDecl
    PROVE  SharedOther
<1>1. /\ TypeOK /\ Uids /\ UNCHANGED <<cm, targets, cache, wk, faults>>
      /\ edits' \in 0..MaxEdits
  BY SharedTypes, UserBudget DEF CreateDecl, EditDecl, DeleteDecl
<1>2. CASE CreateDecl
  <2>1. born + 1 \in 1..MaxDecl /\ born + 1 \in 0..MaxDecl /\ born' = born + 1 /\ born \in Nat
    <3>1. born < MaxDecl /\ born' = born + 1
      BY <1>2 DEF CreateDecl
    <3>2. born \in Nat /\ MaxDecl \in Nat
      BY SharedTypes, DistributionAssumption
    <3> QED
      BY <3>1, <3>2
  <2>2. PICK s \in SUBSET Objs, k \in Policies :
           decl' = Specified(NoDecl(born + 1), s, k)
    BY <1>2 DEF CreateDecl, Specified
  <2>3. decl' \in Declarations /\ decl'.uid = born + 1
    BY <2>1, <2>2, NoDeclType, SpecifiedType
  <2>4. TypeOK'
    BY <1>1, <2>1, <2>3 DEF TypeOK, targets
  <2>5. Uids'
    BY <1>1, <2>1, <2>3, TypeFacts DEF Uids, targets
  <2>6. Evolves
    BY <1>1, <2>1, TypeFacts DEF Evolves, targets
  <2> QED
    BY <1>1, <2>4, <2>5, <2>6 DEF SharedOther
<1>3. CASE EditDecl \/ DeleteDecl
  <2>1. decl' \in Declarations /\ (decl'.uid = decl.uid \/ decl'.uid = 0) /\ born' = born
    <3>1. CASE EditDecl
      <4>1. PICK s \in SUBSET Objs, k \in Policies : decl' = Specified(decl, s, k)
        BY <3>1 DEF EditDecl, Specified
      <4>2. born' = born
        BY <3>1 DEF EditDecl
      <4> QED
        BY <4>1, <4>2, SharedTypes, SpecifiedType
    <3>2. CASE DeleteDecl
      <4>1. /\ [decl EXCEPT !.deleting = TRUE] \in Declarations
            /\ [decl EXCEPT !.deleting = TRUE].uid = decl.uid
        BY SharedTypes DEF Declarations
      <4> QED
        BY <4>1, <3>2, GoneType DEF DeleteDecl
    <3> QED
      BY <3>1, <3>2, <1>3
  <2>2. TypeOK'
    BY <1>1, <2>1 DEF TypeOK, targets
  <2>3. Evolves /\ Uids'
    BY <1>1, <2>1, Still
  <2> QED
    BY <1>1, <2>2, <2>3 DEF SharedOther
<1> QED
  BY <1>2, <1>3

\* Strangers create and delete objects and namespaces, and deleted objects
\* disappear.
LEMMA ObjectShared ==
    ASSUME SharedInv, NEW o \in Objs,
           \/ DeleteObject(o) \/ CreateObject(o) \/ DeleteNamespace(o) \/ CreateNamespace(o)
           \/ Terminate(o)
    PROVE  SharedOther
<1>1. /\ TypeOK /\ Uids /\ UNCHANGED <<decl, cm, cache, wk, born, faults>>
      /\ edits' \in 0..MaxEdits
  BY SharedTypes, UserBudget
     DEF DeleteObject, CreateObject, DeleteNamespace, CreateNamespace, Terminate, budget
<1>2. ns \in [Objs -> [uid : Nat, active : BOOLEAN]] /\ obj \in [Objs -> Objects]
  BY <1>1 DEF TypeOK, NamespaceLists
<1>3. ns' \in NamespaceLists
  <2>1. CASE CreateNamespace(o)
    <3>1. PICK n : n = [uid |-> ns[o].uid + 1, active |-> TRUE]
      OBVIOUS
    <3>2. n \in [uid : Nat, active : BOOLEAN] /\ ns' = [ns EXCEPT ![o] = n]
      BY <3>1, <2>1, <1>2 DEF CreateNamespace
    <3> QED
      BY <3>2, <1>2 DEF NamespaceLists
  <2>2. CASE DeleteNamespace(o)
    BY <2>2, <1>2 DEF DeleteNamespace, NamespaceLists
  <2>3. CASE DeleteObject(o) \/ CreateObject(o) \/ Terminate(o)
    BY <2>3, <1>2 DEF DeleteObject, CreateObject, Terminate, NamespaceLists, targets
  <2> QED
    BY <2>1, <2>2, <2>3
<1>4. /\ Evolves /\ Uids'
      /\ obj' \in [Objs -> Objects] /\ last' \in [Objs -> Nat]
  <2>1. CASE DeleteObject(o) \/ DeleteNamespace(o) \/ Terminate(o)
    <3>1. PICK new \in {Deleted(o), Absent} : obj' = [obj EXCEPT ![o] = new]
      BY <2>1, <1>2 DEF DeleteObject, DeleteNamespace, Terminate
    <3>2. UNCHANGED last
      BY <2>1 DEF DeleteObject, DeleteNamespace, Terminate
    <3> QED
      BY <3>1, <3>2, <1>1, DeletedChange
  <2>2. CASE CreateObject(o)
    <3>1. PICK new : new = [Absent EXCEPT !.uid = last[o] + 1]
      OBVIOUS
    <3>2. last[o] \in Nat /\ 0 <= born
      BY <1>1, TypeFacts
    <3>3. new \in Objects /\ new.uid = last[o] + 1 /\ new.owner = 0
      BY <3>1, <3>2, AbsentType DEF Objects
    <3>4. obj' = [obj EXCEPT ![o] = new] /\ last' = [last EXCEPT ![o] = new.uid]
      BY <2>2, <3>1, <3>3 DEF CreateObject
    <3> QED
      BY <3>2, <3>3, <3>4, <1>1, ObjectChange
  <2>3. CASE CreateNamespace(o)
    BY <2>3, <1>1, Still DEF CreateNamespace, TypeOK, Evolves, Uids
  <2> QED
    BY <2>1, <2>2, <2>3
<1>5. TypeOK'
  BY <1>1, <1>3, <1>4 DEF TypeOK
<1> QED
  BY <1>1, <1>4, <1>5 DEF SharedOther

\* The garbage collector takes the ConfigMap of a declaration that is gone.
LEMMA CollectMapShared ==
    ASSUME SharedInv, CollectMap
    PROVE  SharedOther
<1>1. TypeOK /\ Uids /\ UNCHANGED <<decl, targets, wk, budget>>
  BY SharedTypes DEF CollectMap
<1>2. Evolves /\ Uids'
  BY <1>1, Still DEF budget
<1>3. cm' \in Maps
  BY DistributionAssumption DEF CollectMap, Maps
<1> QED
  BY <1>1, <1>2, <1>3 DEF SharedOther, TypeOK, targets, budget

\* A cache takes over what is stored.
LEMMA CatchUpShared ==
    ASSUME SharedInv, SyncDecl \/ SyncMap \/ SyncNamespaces
    PROVE  SharedOther
<1>1. /\ TypeOK /\ Uids /\ UNCHANGED <<decl, cm, targets, wk, born, edits, faults>>
      /\ decl \in Declarations /\ cm \in Maps /\ ns \in NamespaceLists
  BY SharedTypes DEF SyncDecl, SyncMap, SyncNamespaces, CatchUp
<1>2. cache \in [decl : Declarations, cm : Maps, ns : NamespaceLists]
  BY <1>1 DEF TypeOK
<1>3. cache' \in [decl : Declarations, cm : Maps, ns : NamespaceLists]
  BY <1>1, <1>2 DEF SyncDecl, SyncMap, SyncNamespaces, CatchUp
<1>4. cache'.decl.uid <= born
  BY <1>1, <1>2 DEF SyncDecl, SyncMap, SyncNamespaces, CatchUp, Uids
<1>5. TypeOK'
  BY <1>1, <1>3 DEF TypeOK, targets
<1>6. Evolves /\ Uids'
  BY <1>1, <1>4, TypeFacts DEF Evolves, Uids, targets
<1> QED
  BY <1>1, <1>5, <1>6 DEF SharedOther

\* A crash leaves every worker idle.
LEMMA CrashShared ==
    ASSUME SharedInv, Crash
    PROVE  TypeOK' /\ Uids' /\ Evolves /\ \A w \in Workers : wk'[w] = Idle
<1>1. /\ TypeOK /\ Uids /\ UNCHANGED <<decl, cm, targets, cache, born, edits>>
      /\ faults' \in 0..MaxFaults /\ wk' = [w \in Workers |-> Idle]
  BY SharedTypes, DistributionAssumption DEF Crash, Faulty
<1>2. Evolves /\ Uids'
  BY <1>1, Still
<1>3. wk' \in [Workers -> Passes]
  BY <1>1, IdleType
<1> QED
  BY <1>1, <1>2, <1>3 DEF TypeOK, targets

----------------------------------------------------------------------------
(* All workers.                                                             *)

\* The shared invariant holds initially: there is nothing.
LEMMA InitShared == Init => SharedInv
<1>1. SUFFICES ASSUME Init PROVE SharedInv
  OBVIOUS
<1>2. /\ 1 \in 0..MaxDecl /\ 1 \in 1..MaxDecl /\ 0 \in 0..MaxDecl
      /\ 0 \in 0..MaxEdits /\ 0 \in 0..MaxFaults
  BY DistributionAssumption
<1>3. PICK s \in SUBSET Objs, k \in Policies :
         decl = Specified(NoDecl(1), s, k)
  BY <1>1 DEF Init, Specified
<1>4. decl \in Declarations /\ decl.uid = 1
  BY <1>2, <1>3, NoDeclType, SpecifiedType
<1>5. TypeOK
  <2>1. cm \in Maps
    BY <1>1, <1>2 DEF Init, Maps
  <2>2. ns \in NamespaceLists
    BY <1>1 DEF Init, NamespaceLists
  <2> QED
    BY <1>1, <1>2, <1>4, <2>1, <2>2, IdleType, AbsentType DEF Init, TypeOK
<1>6. Uids
  <2>1. cache.decl = decl /\ born = 1
    BY <1>1 DEF Init
  <2>2. \A o \in Objs : obj[o].uid \in {0, last[o]} /\ obj[o].owner <= born
    BY <1>1, <2>1, AbsentType DEF Init
  <2> QED
    BY <1>4, <2>1, <2>2 DEF Uids
<1>7. \A w \in Workers : Fits(wk[w])
  BY <1>1, <1>5, IdleFits DEF Init
<1> QED
  BY <1>5, <1>6, <1>7 DEF SharedInv

\* Of several workers, those that stand still keep fitting while one moves.
LEMMA SharedPassInv ==
    ASSUME SharedInv, NEW w \in Workers, SharedPass(w)
    PROVE  SharedInv'
<1>1. ASSUME NEW v \in Workers, v # w PROVE Fits(wk[v])'
  <2>1. Fits(wk[v]) /\ wk[v] \in Passes /\ TypeOK /\ Evolves /\ wk'[v] = wk[v]
    BY <1>1, SharedFacts DEF SharedPass
  <2>2. PICK p \in Passes : p = wk[v]
    BY <2>1
  <2>3. Fits(p)'
    BY <2>1, <2>2, FitsKept
  <2> QED
    BY <2>1, <2>2, <2>3 DEF Fits, Marked
<1> QED
  BY <1>1 DEF SharedPass, SharedInv

\* So do all workers while others act.
LEMMA SharedOtherInv ==
    ASSUME SharedInv, SharedOther
    PROVE  SharedInv'
<1>1. ASSUME NEW v \in Workers PROVE Fits(wk[v])'
  <2>1. Fits(wk[v]) /\ wk[v] \in Passes /\ TypeOK /\ Evolves /\ wk'[v] = wk[v]
    BY <1>1, SharedFacts DEF SharedOther
  <2>2. PICK p \in Passes : p = wk[v]
    BY <2>1
  <2>3. Fits(p)'
    BY <2>1, <2>2, FitsKept
  <2> QED
    BY <2>1, <2>2, <2>3 DEF Fits, Marked
<1> QED
  BY <1>1 DEF SharedOther, SharedInv

\* Every step keeps the shared invariant.
LEMMA NextShared == SharedInv /\ [Next]_vars => SharedInv'
<1>1. SUFFICES ASSUME SharedInv, [Next]_vars PROVE SharedInv'
  OBVIOUS
<1>2. ASSUME NEW w \in Workers, Pass(w) \/ CallFails(w) PROVE SharedInv'
  BY <1>1, <1>2, PassShared, CallFailsShared, SharedPassInv
<1>3. CASE Crash
  <2>1. /\ TypeOK' /\ Uids' /\ \A w \in Workers : wk'[w] = Idle
        /\ born' \in Nat
    BY <1>1, <1>3, CrashShared DEF Evolves
  <2>2. \A w \in Workers : Fits(wk[w])'
    BY <2>1, IdleType, GoneType DEF Fits, Visiting
  <2> QED
    BY <2>1, <2>2 DEF SharedInv
<1>4. CASE CreateDecl \/ EditDecl \/ DeleteDecl
  BY <1>1, <1>4, DeclShared, SharedOtherInv
<1>5. ASSUME NEW o \in Objs,
             \/ DeleteObject(o) \/ CreateObject(o) \/ DeleteNamespace(o)
             \/ CreateNamespace(o) \/ Terminate(o)
      PROVE  SharedInv'
  BY <1>1, <1>5, ObjectShared, SharedOtherInv
<1>6. CASE CollectMap
  BY <1>1, <1>6, CollectMapShared, SharedOtherInv
<1>7. CASE SyncDecl \/ SyncMap \/ SyncNamespaces
  BY <1>1, <1>7, CatchUpShared, SharedOtherInv
<1>8. CASE UNCHANGED vars
  BY <1>1, <1>8 DEF vars, SharedInv, TypeOK, Uids, Fits, Marked
<1> QED
  BY <1>1, <1>2, <1>3, <1>4, <1>5, <1>6, <1>7, <1>8 DEF Next

\* The invariant that holds however many workers reconcile at once.
THEOREM SharedInvariant == Spec => []SharedInv
BY InitShared, NextShared, PTL DEF Spec

\* Every variable has the values the code gives it (engine.go, store.go).
THEOREM TypeCorrect == Spec => []TypeOK
<1>1. SharedInv => TypeOK
  BY DEF SharedInv
<1> QED
  BY <1>1, SharedInvariant, PTL

\* A delete call goes to an object that carries the UID of the declaration.
LEMMA DeletedOwned ==
    ASSUME SharedInv, NEW w \in Workers, NEW p \in Passes, p = wk[w],
           p.pc \in {"pruneDelete", "cleanupDelete"},
           NEW o \in Objs, o = Min(p.todo), DeletedBy(p, o), UNCHANGED <<decl, cache, born>>,
           NEW x \in Objs, Deletes(x)
    PROVE  obj[x].owner = p.d.uid
<1>1. x = o
  BY DeletedChange DEF DeletedBy, Deletes
<1>2. Marked(p, o)
  BY SharedFacts DEF Fits
<1> QED
  BY <1>1, <1>2 DEF Marked, DeletedBy, Deletes

\* The engine deletes an object only while the object carries the UID of the
\* declaration the pass works for, however many workers reconcile and whoever
\* recreates objects between the read and the delete call (engine.go, deleteOwned).
THEOREM OwnedOnly == Spec => DeletesOnlyOwned
<1> DEFINE Owned == \A o \in Objs, w \in Workers :
                       wk'[w] # wk[w] /\ Deletes(o) => obj[o].owner = wk[w].d.uid
<1>1. ASSUME SharedInv, [Next]_vars PROVE Owned
  <2>1. ASSUME UNCHANGED obj \/ UNCHANGED wk PROVE Owned
    BY <2>1 DEF Deletes
  <2>2. ASSUME NEW w \in Workers, Pass(w), NEW x \in Objs, NEW v \in Workers,
               wk'[v] # wk[v], Deletes(x)
        PROVE  obj[x].owner = wk[v].d.uid
    <3>1. v = w
      BY <1>1, <2>2, PassShared DEF SharedPass
    <3>2. PICK p \in Passes : p = wk[w] /\ Fits(p)
      BY <1>1, SharedFacts
    <3>3. CASE UNCHANGED targets
      BY <2>2, <3>3 DEF targets, Deletes
    <3>4. CASE PatchObject(w)
      <4>1. CASE UNCHANGED targets
        BY <2>2, <4>1 DEF targets, Deletes
      <4>2. CASE ~UNCHANGED targets
        <5>1. PICK o \in Objs, uid \in Nat, r \in Passes, q \in Passes :
                 Patched(w, wk[w], o, uid, r, q)
          BY <1>1, <3>4, <4>2, PatchEffect
        <5>2. /\ obj'[o].uid = uid /\ last[o] <= uid
              /\ \A y \in Objs \ {o} : obj'[y] = obj[y]
          <6>1. p.pc = "patch" /\ UNCHANGED <<decl, cache, born>>
            BY <3>2, <3>4 DEF PatchObject, budget
          <6> QED
            BY <1>1, <3>2, <5>1, <6>1, PatchedChange
        <5>3. /\ last[o] \in Nat
              /\ uid = IF obj[o].uid = 0 THEN last[o] + 1 ELSE obj[o].uid
          BY <1>1, <5>1, TypeFacts DEF SharedInv, Patched
        <5>4. obj'[o].term = obj[o].term
          BY <1>1, <5>1, SharedFacts DEF Patched, Objects
        <5> QED
          BY <2>2, <5>2, <5>3, <5>4 DEF Deletes
      <4> QED
        BY <4>1, <4>2
    <3>5. CASE PruneDelete(w)
      <4>1. PICK o \in Objs, q \in Passes : PruneDeleteMove(w, p, o, q)
        BY <1>1, <3>2, <3>5, PruneDeleteEffect
      <4>2. DeletedBy(p, o)
        BY <2>2, <4>1 DEF PruneDeleteMove, targets, Deletes
      <4> QED
        BY <1>1, <2>2, <3>1, <3>2, <3>5, <4>1, <4>2, DeletedOwned
           DEF PruneDelete, PruneDeleteMove, budget
    <3>6. CASE CleanupDelete(w)
      <4>1. PICK o \in Objs, q \in Passes : CleanupDeleteMove(w, p, o, q)
        BY <1>1, <3>2, <3>6, CleanupDeleteEffect
      <4>2. DeletedBy(p, o)
        BY <2>2, <4>1 DEF CleanupDeleteMove, targets, Deletes
      <4> QED
        BY <1>1, <2>2, <3>1, <3>2, <3>6, <4>1, <4>2, DeletedOwned
           DEF CleanupDelete, CleanupDeleteMove, budget
    <3> QED
      BY <2>2, <3>3, <3>4, <3>5, <3>6 DEF Pass, Begin, LoadMap, Expand, AddFinalizer,
         GetObject, PruneGet, SaveMap, SaveAnnotation, CleanupGet, DropMap,
         DropAnnotation, Release, Deletes
  <2>3. CASE \E w \in Workers : Pass(w)
    BY <2>2, <2>3
  <2>4. CASE ~\E w \in Workers : Pass(w)
    <3> DEFINE Apart == UNCHANGED obj \/ UNCHANGED wk
    <3>1. (\E w \in Workers : CallFails(w)) => Apart
      BY DEF CallFails, Faulty, targets
    <3>2. Crash \/ CreateDecl \/ EditDecl \/ DeleteDecl => Apart
      BY DEF Crash, Faulty, CreateDecl, EditDecl, DeleteDecl, User, targets
    <3>3. (\E o \in Objs : \/ DeleteObject(o) \/ CreateObject(o) \/ DeleteNamespace(o)
                           \/ CreateNamespace(o) \/ Terminate(o)) => Apart
      BY DEF DeleteObject, CreateObject, DeleteNamespace, CreateNamespace, Terminate, User
    <3>4. CollectMap \/ SyncDecl \/ SyncMap \/ SyncNamespaces \/ UNCHANGED vars => Apart
      BY DEF CollectMap, SyncDecl, SyncMap, SyncNamespaces, CatchUp, vars
    <3> HIDE DEF Apart
    <3>5. Apart
      BY <1>1, <2>4, <3>1, <3>2, <3>3, <3>4 DEF Next
    <3> QED
      BY <2>1, <3>5 DEF Apart
  <2> QED
    BY <2>3, <2>4
<1> QED
  BY <1>1, SharedInvariant, PTL DEF Spec, DeletesOnlyOwned

----------------------------------------------------------------------------
(* What a pass may take out of the record.                                  *)

\* Object o exists as the item of inv says, and nobody has deleted it.
Alive(inv, o) == inv[o].uid # 0 /\ obj[o].uid = inv[o].uid /\ ~obj[o].term

\* The items of inv have UIDs that were given before.
Known(inv) == \A o \in Objs : inv[o].uid <= last[o]

\* A copy of an inventory, stored or cached.
Holds(inv) == inv = None \/ (inv \in Inventories /\ Known(inv))

Copies ==
    /\ Holds(decl.ann) /\ Holds(cm.inv)
    /\ Holds(cache.decl.ann) /\ Holds(cache.cm.inv)

Applies == {"get", "patch", "pruneGet", "pruneDelete"}
Prunes == {"pruneGet", "pruneDelete"}
Cleans == {"cleanupGet", "cleanupDelete"}
Drops == {"dropMap", "dropAnnotation", "release"}
Writes == {"saveMap", "saveAnnotation"}

\* What a pass applied is no older than what it loaded.
Later(p) == \A o \in Objs : p.got[o].uid # 0 => p.inv[o].uid <= p.got[o].uid

\* What a pass is about to save has every item loaded whose object is alive.
Saves(p) ==
    p.d.policy = "Delete" => \A o \in Objs : Alive(p.inv, o) => p.got[o].uid = p.inv[o].uid

\* A pass answers for the items it has loaded, not for those it has not: what it
\* leaves out of what it saves, and all that it cleans up, was deleted before.
Careful(p) ==
    /\ Known(p.inv) /\ Known(p.got)
    /\ p.pc \in {"load", "expand"} => p.got = Empty
    /\ p.pc \in Applies => Later(p)
    /\ p.pc \in Prunes => \A o \in Stale(p) \ p.todo : ~Alive(p.inv, o)
    /\ p.pc \in Cleans => \A o \in Objs \ p.todo : ~Alive(p.inv, o)
    /\ p.pc \in Drops => \A o \in Objs : ~Alive(p.inv, o)
    /\ p.pc \in Writes => Saves(p)

MemoryInv == SharedInv /\ Copies /\ \A w \in Workers : Careful(wk[w])

\* The UIDs given before stay so.
LEMMA KnownKept ==
    ASSUME Evolves, NEW inv \in Inventories, Known(inv)
    PROVE  Known(inv)'
<1>1. ASSUME NEW o \in Objs PROVE inv[o].uid <= last'[o]
  BY InventoryItem DEF Known, Evolves
<1> QED
  BY <1>1 DEF Known

\* A copy stays a copy.
LEMMA HoldsKept ==
    ASSUME Evolves, NEW inv, Holds(inv)
    PROVE  Holds(inv)'
BY KnownKept DEF Holds

\* Nothing comes alive again: a new object has a new UID, and a deletion is not
\* taken back.
LEMMA AliveKept ==
    ASSUME TypeOK, Evolves, NEW inv \in Inventories, Known(inv), NEW o \in Objs,
           Alive(inv, o)'
    PROVE  Alive(inv, o)
<1>1. inv[o].uid \in Nat /\ inv[o].uid <= last[o] /\ last[o] \in Nat
  BY InventoryItem, TypeFacts DEF Known
<1>2. inv[o].uid # 0 /\ obj'[o].uid = inv[o].uid /\ ~obj'[o].term
  BY DEF Alive
<1>3. obj'[o].uid # last[o] + 1
  BY <1>1, <1>2
<1> QED
  BY <1>2, <1>3 DEF Evolves, Alive

\* What objects do does not make a pass careless.
LEMMA CarefulKept ==
    ASSUME TypeOK, Evolves, NEW p \in Passes, Careful(p)
    PROVE  Careful(p)'
<1>1. Known(p.inv)' /\ Known(p.got)'
  BY PassFields, KnownKept DEF Careful
<1>2. ASSUME NEW o \in Objs, Alive(p.inv, o)' PROVE Alive(p.inv, o)
  BY <1>2, PassFields, AliveKept DEF Careful
<1>3. p.pc \in Prunes => \A o \in Stale(p) \ p.todo : ~Alive(p.inv, o)'
  BY <1>2, PassFields, ItemsOf DEF Careful, Stale
<1>4. /\ p.pc \in Cleans => \A o \in Objs \ p.todo : ~Alive(p.inv, o)'
      /\ p.pc \in Drops => \A o \in Objs : ~Alive(p.inv, o)'
  BY <1>2 DEF Careful
<1>5. p.pc \in Writes =>
        (p.d.policy = "Delete" => \A o \in Objs : Alive(p.inv, o)' => p.got[o].uid = p.inv[o].uid)
  BY <1>2 DEF Careful, Saves
<1> QED
  BY <1>1, <1>3, <1>4, <1>5 DEF Careful, Saves, Later, Stale, Items

----------------------------------------------------------------------------
(* Careful moves.                                                           *)

\* The empty inventory has no UID to be known.
LEMMA EmptyKnown == ASSUME TypeOK PROVE Known(Empty)
BY EmptyType, TypeFacts DEF Known

\* A worker without a pass is careful.
LEMMA IdleCareful == TypeOK => Careful(Idle)
BY IdleType, EmptyKnown DEF Careful, Applies, Prunes, Cleans, Drops, Writes

\* A failed pass saves what it loaded.
LEMMA FailedCareful ==
    \A p \in Passes : Careful(p) => Careful(Failed(p))
<1>1. ASSUME NEW p \in Passes, Careful(p) PROVE Careful(Failed(p))
  <2>1. PICK q : q = Failed(p)
    OBVIOUS
  <2>2. q.pc = "saveMap" /\ q.inv = p.inv /\ q.got = p.inv
    BY <2>1, FailedMove
  <2> QED
    BY <1>1, <2>1, <2>2 DEF Careful, Saves, Applies, Prunes, Cleans, Drops
<1> QED
  BY <1>1

\* What a pass applied has the UID it loaded, if that object is still there; what
\* it did not apply, it has pruned.
LEMMA AppliedCareful ==
    ASSUME TypeOK, Uids, NEW p \in Passes, Known(p.inv), Known(p.got), Later(p),
           \A o \in Stale(p) : ~Alive(p.inv, o)
    PROVE  Careful(Applied(p))
<1>1. PICK q : q = Applied(p)
  OBVIOUS
<1>2. q.pc = "saveMap" /\ q.d = p.d /\ q.inv = p.inv /\ q.got = p.got
  BY <1>1, AppliedMove
<1>3. ASSUME p.d.policy = "Delete", NEW o \in Objs, Alive(p.inv, o)
      PROVE  p.got[o].uid = p.inv[o].uid
  <2>1. /\ p.inv[o].uid \in Nat /\ p.got[o].uid \in Nat /\ last[o] \in Nat
        /\ p.inv[o].uid # 0
    BY <1>3, PassFields, InventoryItem, TypeFacts DEF Alive
  <2>2. o \in Items(p.inv)
    BY <2>1, PassFields, ItemsOf
  <2>3. p.got[o].uid # 0
    BY <1>3, <2>2 DEF Stale
  <2>4. p.inv[o].uid <= p.got[o].uid /\ p.got[o].uid <= last[o]
    BY <2>3 DEF Later, Known
  <2>5. p.inv[o].uid = last[o]
    BY <1>3, <2>1 DEF Alive, Uids
  <2> QED
    BY <2>1, <2>4, <2>5
<1> QED
  BY <1>1, <1>2, <1>3 DEF Careful, Saves, Applies, Prunes, Cleans, Drops

\* After the last object is applied.
LEMMA PruningCareful ==
    ASSUME TypeOK, Uids, NEW p \in Passes, Known(p.inv), Known(p.got), Later(p)
    PROVE  Careful(Pruning(p))
<1>1. PICK q : q = Pruning(p)
  OBVIOUS
<1>2. CASE q = Applied(p) /\ Stale(p) = {}
  BY <1>1, <1>2, AppliedCareful
<1>3. CASE /\ q.pc = "pruneGet" /\ q.todo = Stale(p)
           /\ q.d = p.d /\ q.inv = p.inv /\ q.got = p.got
  <2>1. Stale(q) = Stale(p)
    BY <1>3 DEF Stale
  <2> QED
    BY <1>1, <1>3, <2>1 DEF Careful, Later, Applies, Prunes, Cleans, Drops, Writes
<1> QED
  BY <1>1, <1>2, <1>3, PruningMove

\* While objects are applied.
LEMMA ApplyingCareful ==
    ASSUME TypeOK, Uids, NEW p \in Passes, Known(p.inv), Known(p.got), Later(p)
    PROVE  Careful(Applying(p))
<1>1. PICK q : q = Applying(p)
  OBVIOUS
<1>2. CASE q = Pruning(p)
  BY <1>1, <1>2, PruningCareful
<1>3. CASE q.pc = "get" /\ q.d = p.d /\ q.inv = p.inv /\ q.got = p.got
  BY <1>1, <1>3 DEF Careful, Later, Applies, Prunes, Cleans, Drops, Writes
<1> QED
  BY <1>1, <1>2, <1>3, ApplyingMove

\* An inventory is loaded.
LEMMA LoadedCareful ==
    ASSUME TypeOK, NEW p \in Passes, p.got = Empty, NEW inv \in Inventories, Known(inv)
    PROVE  Careful(Loaded(p, inv))
<1>1. PICK q : q = Loaded(p, inv)
  OBVIOUS
<1>2. /\ q.inv = inv /\ q.got = Empty
      /\ \/ q.pc = "expand"
         \/ q.pc = "dropMap" /\ Items(inv) = {}
         \/ q.pc = "cleanupGet" /\ q.todo = Items(inv)
  BY <1>1, LoadedMove
<1>3. \A o \in Objs \ Items(inv) : ~Alive(inv, o)
  BY ItemsOf DEF Alive
<1> QED
  BY <1>1, <1>2, <1>3, EmptyKnown DEF Careful, Applies, Prunes, Cleans, Drops, Writes

\* A loop of pruning passes an object that is not alive.
LEMMA PrunedCareful ==
    \A p \in Passes, o \in Objs, r \in Passes :
        /\ TypeOK /\ Uids /\ Careful(p) /\ p.pc \in Prunes /\ ~Alive(p.inv, o)
        /\ r.pc = "pruneGet" /\ r.todo = p.todo \ {o}
        /\ r.d = p.d /\ r.inv = p.inv /\ r.got = p.got
        => Careful(r) /\ (r.todo = {} => Careful(Applied(r)))
<1>1. SUFFICES ASSUME NEW p \in Passes, NEW o \in Objs, NEW r \in Passes,
                      TypeOK, Uids, Careful(p), p.pc \in Prunes, ~Alive(p.inv, o),
                      r.pc = "pruneGet", r.todo = p.todo \ {o},
                      r.d = p.d, r.inv = p.inv, r.got = p.got
               PROVE  Careful(r) /\ (r.todo = {} => Careful(Applied(r)))
  OBVIOUS
<1>2. Stale(r) = Stale(p)
  BY <1>1 DEF Stale
<1>3. Later(p) /\ \A x \in Stale(p) \ p.todo : ~Alive(p.inv, x)
  BY <1>1 DEF Careful, Prunes, Applies
<1>4. Known(r.inv) /\ Known(r.got) /\ Later(r)
  BY <1>1, <1>3 DEF Careful, Later
<1>5. \A x \in Stale(r) \ r.todo : ~Alive(r.inv, x)
  BY <1>1, <1>2, <1>3
<1>6. Careful(r)
  BY <1>1, <1>4, <1>5 DEF Careful, Cleans, Drops, Writes
<1> QED
  BY <1>1, <1>4, <1>5, <1>6, AppliedCareful

\* A loop of the cleanup passes an object that is not alive.
LEMMA CleanedCareful ==
    \A p \in Passes, o \in Objs, r \in Passes :
        /\ Careful(p) /\ p.pc \in Cleans /\ ~Alive(p.inv, o)
        /\ r.todo = p.todo \ {o}
        /\ r.pc = "cleanupGet" \/ (r.pc = "dropMap" /\ r.todo = {})
        /\ r.inv = p.inv /\ r.got = p.got
        => Careful(r)
BY DEF Careful, Applies, Prunes, Cleans, Drops, Writes

\* An object is applied.
LEMMA GotCareful ==
    \A p \in Passes, o \in Objs, uid \in Nat, r \in Passes :
        /\ TypeOK /\ Uids /\ Careful(p) /\ p.pc = "patch"
        /\ uid <= last[o] /\ p.inv[o].uid <= uid /\ r = WithItem(p, o, uid)
        => Careful(Applying(r))
<1>1. SUFFICES ASSUME NEW p \in Passes, NEW o \in Objs, NEW uid \in Nat, NEW r \in Passes,
                      TypeOK, Uids, Careful(p), p.pc = "patch",
                      uid <= last[o], p.inv[o].uid <= uid, r = WithItem(p, o, uid)
               PROVE  Careful(Applying(r))
  OBVIOUS
<1>2. /\ r.inv = p.inv /\ r.got[o].uid = uid
      /\ \A x \in Objs \ {o} : r.got[x] = p.got[x]
  BY <1>1, GotMove
<1>3. Known(p.inv) /\ Known(p.got) /\ Later(p)
  BY <1>1 DEF Careful, Applies
<1>4. Known(r.inv) /\ Known(r.got) /\ Later(r)
  BY <1>1, <1>2, <1>3 DEF Known, Later
<1> QED
  BY <1>1, <1>4, ApplyingCareful

\* The same of the state after a step.
LEMMA IdleNext == (TypeOK => Careful(Idle))'
BY IdleCareful, PTL

\* The same of the state after a step.
LEMMA FailedNext == (\A p \in Passes : Careful(p) => Careful(Failed(p)))'
BY FailedCareful, PTL

\* The same of the state after a step.
LEMMA PrunedNext ==
    (\A p \in Passes, o \in Objs, r \in Passes :
        /\ TypeOK /\ Uids /\ Careful(p) /\ p.pc \in Prunes /\ ~Alive(p.inv, o)
        /\ r.pc = "pruneGet" /\ r.todo = p.todo \ {o}
        /\ r.d = p.d /\ r.inv = p.inv /\ r.got = p.got
        => Careful(r) /\ (r.todo = {} => Careful(Applied(r))))'
BY PrunedCareful, PTL

\* The same of the state after a step.
LEMMA CleanedNext ==
    (\A p \in Passes, o \in Objs, r \in Passes :
        /\ Careful(p) /\ p.pc \in Cleans /\ ~Alive(p.inv, o)
        /\ r.todo = p.todo \ {o}
        /\ r.pc = "cleanupGet" \/ (r.pc = "dropMap" /\ r.todo = {})
        /\ r.inv = p.inv /\ r.got = p.got
        => Careful(r))'
BY CleanedCareful, PTL

\* The same of the state after a step.
LEMMA GotNext ==
    (\A p \in Passes, o \in Objs, uid \in Nat, r \in Passes :
        /\ TypeOK /\ Uids /\ Careful(p) /\ p.pc = "patch"
        /\ uid <= last[o] /\ p.inv[o].uid <= uid /\ r = WithItem(p, o, uid)
        => Careful(Applying(r)))'
BY GotCareful, PTL

----------------------------------------------------------------------------
(* The steps of a careful pass.                                             *)

\* What the invariant says of one worker.
LEMMA MemoryFacts ==
    ASSUME MemoryInv, NEW w \in Workers
    PROVE  /\ SharedInv /\ TypeOK /\ Uids /\ Copies
           /\ wk[w] \in Passes /\ Fits(wk[w]) /\ Careful(wk[w])
BY SharedFacts DEF MemoryInv

\* The pass of w moves to q.
LEMMA CarefulStep ==
    ASSUME MemoryInv, NEW w \in Workers, NEW q \in Passes, Step(w, q), Careful(q)',
           SharedPass(w), Copies'
    PROVE  MemoryInv'
<1>1. SharedInv'
  BY SharedPassInv DEF MemoryInv
<1>2. wk'[w] = q /\ \A v \in Workers \ {w} : wk'[v] = wk[v]
  BY StepMove, SharedFacts DEF MemoryInv
<1>3. Careful(wk[w])'
  BY <1>2 DEF Careful, Known, Alive, Later, Saves, Stale, Items
<1>4. ASSUME NEW v \in Workers \ {w} PROVE Careful(wk[v])'
  <2>1. PICK p \in Passes : p = wk[v] /\ Careful(p)
    BY MemoryFacts
  <2>2. Careful(p)'
    BY <2>1, CarefulKept DEF SharedPass, MemoryInv, SharedInv
  <2> QED
    BY <2>1, <2>2, <1>2 DEF Careful, Known, Alive, Later, Saves, Stale, Items
<1> QED
  BY <1>1, <1>3, <1>4 DEF MemoryInv

\* Copies that are not written stay.
LEMMA CopiesKept ==
    ASSUME Evolves, Copies, UNCHANGED cache, Holds(decl'.ann), Holds(cm'.inv)
    PROVE  Copies'
<1>1. PICK a, b, c, d : /\ a = decl'.ann /\ b = cm'.inv
                        /\ c = cache'.decl.ann /\ d = cache'.cm.inv
  OBVIOUS
<1>2. Holds(a) /\ Holds(b) /\ Holds(c) /\ Holds(d)
  BY <1>1 DEF Copies, Holds, Known
<1>3. Holds(a)' /\ Holds(b)' /\ Holds(c)' /\ Holds(d)'
  BY <1>2, HoldsKept
<1> QED
  BY <1>1, <1>3 DEF Copies, Holds, Known

\* A step that changes no copy.
LEMMA QuietStep ==
    ASSUME MemoryInv, NEW w \in Workers, NEW q \in Passes, Step(w, q), Careful(q)',
           SharedPass(w), UNCHANGED <<cache, cm>>, decl'.ann = decl.ann \/ decl'.ann = None
    PROVE  MemoryInv'
<1>1. Evolves /\ Copies
  BY MemoryFacts DEF SharedPass
<1>2. Copies'
  BY <1>1, CopiesKept DEF Copies, Holds, Known
<1> QED
  BY <1>2, CarefulStep

\* A step after which the pass is as careful as it would have been before.
LEMMA ReadStep ==
    ASSUME MemoryInv, NEW w \in Workers, NEW q \in Passes, Step(w, q), Careful(q),
           SharedPass(w), UNCHANGED <<cache, cm>>, decl'.ann = decl.ann \/ decl'.ann = None
    PROVE  MemoryInv'
<1>1. Careful(q)'
  BY MemoryFacts, CarefulKept DEF SharedPass
<1> QED
  BY <1>1, QuietStep

\* What a pass reads of the copies.
LEMMA SeenCopies ==
    ASSUME MemoryInv
    PROVE  Holds(Seen.decl.ann) /\ Holds(Seen.cm.inv)
BY DEF MemoryInv, Copies, Seen, Holds, Known

\* The pass starts from the annotation it sees.
LEMMA BeginMemory ==
    ASSUME MemoryInv, NEW w \in Workers, Begin(w)
    PROVE  MemoryInv'
<1>1. SharedInv /\ TypeOK /\ Uids /\ SharedPass(w)
  BY MemoryFacts, BeginShared
<1>2. PICK p \in Passes, q \in Passes : BeginMove(w, p, q)
  BY <1>1, BeginEffect
<1>3. p.inv = Empty /\ p.got = Empty
  BY <1>1, <1>2, BegunType DEF BeginMove
<1>4. CASE q = [p EXCEPT !.pc = "load"]
  <2>1. q.pc = "load" /\ q.inv = Empty /\ q.got = Empty
    BY <1>3, <1>4 DEF Passes
  <2>2. Careful(q)
    BY <2>1, <1>1, EmptyKnown DEF Careful, Applies, Prunes, Cleans, Drops, Writes
  <2> QED
    BY <2>2, <1>1, <1>2, ReadStep DEF Begin, BeginMove, budget
<1>5. CASE Seen.decl.ann # None /\ q = Loaded(p, Seen.decl.ann)
  <2>1. PICK inv \in Inventories : inv = Seen.decl.ann /\ Known(inv)
    BY <1>5, SeenCopies DEF Holds
  <2>2. Careful(q)
    BY <2>1, <1>1, <1>3, <1>5, LoadedCareful
  <2> QED
    BY <2>2, <1>1, <1>2, ReadStep DEF Begin, BeginMove, budget
<1> QED
  BY <1>2, <1>4, <1>5 DEF BeginMove

\* Or from the ConfigMap it sees.
LEMMA LoadMapMemory ==
    ASSUME MemoryInv, NEW w \in Workers, LoadMap(w)
    PROVE  MemoryInv'
<1>1. SharedInv /\ TypeOK /\ SharedPass(w)
  BY MemoryFacts, LoadMapShared
<1>2. PICK p \in Passes : p = wk[w] /\ Careful(p) /\ p.pc = "load"
  BY MemoryFacts DEF LoadMap
<1>3. PICK inv \in Inventories :
        inv = (IF Seen.cm.inv = None THEN Empty ELSE Seen.cm.inv) /\ Known(inv)
  BY <1>1, EmptyType, EmptyKnown, SeenCopies DEF Holds
<1>4. PICK q \in Passes : q = Loaded(p, inv) /\ Step(w, q)
  BY <1>2, <1>3, LoadedMove DEF LoadMap
<1>5. Careful(q)
  BY <1>1, <1>2, <1>3, <1>4, LoadedCareful DEF Careful
<1> QED
  BY <1>1, <1>4, <1>5, ReadStep DEF LoadMap, budget

\* Expanding leads to saving, to the finalizer or to the first object.
LEMMA ExpandMemory ==
    ASSUME MemoryInv, NEW w \in Workers, Expand(w)
    PROVE  MemoryInv'
<1>1. SharedInv /\ TypeOK /\ Uids /\ SharedPass(w)
  BY MemoryFacts, ExpandShared
<1>2. PICK p \in Passes, r \in Passes, q \in Passes :
        ExpandMove(w, p, r, q) /\ r.d = p.d /\ r.inv = p.inv /\ r.got = p.got
  BY <1>1, ExpandEffect
<1>3. Careful(p) /\ p.got = Empty
  BY <1>2, MemoryFacts DEF ExpandMove, Expand, Careful
<1>4. Known(r.inv) /\ Known(r.got) /\ Later(r)
  BY <1>2, <1>3, EmptyType DEF Careful, Later
<1>5. CASE q = Failed(p)
  BY <1>3, <1>5, FailedCareful, <1>1, <1>2, ReadStep DEF ExpandMove, Expand, budget
<1>6. CASE q = Applied(r) /\ Items(p.inv) = {}
  <2>1. Stale(r) = {}
    BY <1>2, <1>6 DEF Stale
  <2>2. Careful(q)
    BY <2>1, <1>1, <1>4, <1>6, AppliedCareful
  <2> QED
    BY <2>2, <1>1, <1>2, ReadStep DEF ExpandMove, Expand, budget
<1>7. CASE q = [r EXCEPT !.pc = "finalizer", !.todo = {}]
  <2>1. q.pc = "finalizer" /\ q.inv = r.inv /\ q.got = r.got
    BY <1>7 DEF Passes
  <2>2. Careful(q)
    BY <2>1, <1>4 DEF Careful, Applies, Prunes, Cleans, Drops, Writes
  <2> QED
    BY <2>2, <1>1, <1>2, ReadStep DEF ExpandMove, Expand, budget
<1>8. CASE q = Applying(r)
  <2>1. Careful(q)
    BY <1>1, <1>4, <1>8, ApplyingCareful
  <2> QED
    BY <2>1, <1>1, <1>2, ReadStep DEF ExpandMove, Expand, budget
<1> QED
  BY <1>2, <1>5, <1>6, <1>7, <1>8 DEF ExpandMove

\* A pass that ends, leaving the copies as they are or writing none.
LEMMA EndStep ==
    ASSUME MemoryInv, NEW w \in Workers, End(w), SharedPass(w), Copies'
    PROVE  MemoryInv'
BY IdleType, IdleNext, CarefulStep DEF End, SharedPass

\* Adding the finalizer.
LEMMA AddFinalizerMemory ==
    ASSUME MemoryInv, NEW w \in Workers, AddFinalizer(w)
    PROVE  MemoryInv'
<1>1. SharedPass(w) /\ Copies /\ decl \in Declarations
  BY MemoryFacts, AddFinalizerShared, SharedFacts
<1>2. decl'.ann = decl.ann
  BY <1>1 DEF AddFinalizer, Declarations
<1>3. Copies'
  BY <1>1, <1>2, CopiesKept DEF Copies, SharedPass, AddFinalizer, budget
<1> QED
  BY <1>1, <1>3, EndStep DEF AddFinalizer

\* Reading an object before it is applied.
LEMMA GetObjectMemory ==
    ASSUME MemoryInv, NEW w \in Workers, GetObject(w)
    PROVE  MemoryInv'
<1>1. SharedPass(w)
  BY MemoryFacts, GetObjectShared
<1>2. PICK p \in Passes : p = wk[w] /\ Careful(p) /\ p.pc = "get"
  BY MemoryFacts DEF GetObject
<1>3. PICK q : Step(w, q) /\ (q = Failed(p) \/ q = [p EXCEPT !.pc = "patch"])
  BY <1>2 DEF GetObject
<1>4. q \in Passes /\ Careful(q)
  <2>1. CASE q = Failed(p)
    BY <1>2, <2>1, FailedMove, FailedCareful
  <2>2. CASE q = [p EXCEPT !.pc = "patch"]
    <3>1. q \in Passes /\ q.pc = "patch" /\ q.d = p.d /\ q.inv = p.inv /\ q.got = p.got
      BY <2>2 DEF Passes, PCs
    <3> QED
      BY <3>1, <1>2 DEF Careful, Later, Applies, Prunes, Cleans, Drops, Writes
  <2> QED
    BY <1>3, <2>1, <2>2
<1> QED
  BY <1>1, <1>3, <1>4, ReadStep DEF GetObject, budget

\* Applying an object.
LEMMA PatchObjectMemory ==
    ASSUME MemoryInv, NEW w \in Workers, PatchObject(w)
    PROVE  MemoryInv'
<1>1. SharedInv /\ TypeOK /\ SharedPass(w) /\ UNCHANGED <<decl, cm, cache, born>>
  BY MemoryFacts, PatchObjectShared DEF PatchObject, budget
<1>2. PICK p \in Passes : p = wk[w] /\ Careful(p) /\ p.pc = "patch" /\ Fits(p)
  BY MemoryFacts DEF PatchObject
<1>3. CASE Step(w, Failed(p))
  BY <1>1, <1>2, <1>3, FailedMove, FailedCareful, ReadStep
<1>4. CASE \E o \in Objs, uid \in Nat, r \in Passes, q \in Passes :
              Patched(w, p, o, uid, r, q)
  <2>1. PICK o \in Objs, uid \in Nat, r \in Passes, q \in Passes :
           Patched(w, p, o, uid, r, q)
    BY <1>4
  <2>2. last[o] <= uid /\ uid = last'[o]
    BY <1>1, <1>2, <2>1, PatchedChange
  <2>3. /\ p.inv[o].uid <= uid /\ uid <= last'[o]
    <3>1. p.inv[o].uid \in Nat /\ last[o] \in Nat /\ p.inv[o].uid <= last[o]
      BY <1>1, <1>2, PassFields, InventoryItem, TypeFacts DEF Careful, Known
    <3> QED
      BY <3>1, <2>2
  <2>4. Careful(p)' /\ TypeOK' /\ Uids'
    BY <1>1, <1>2, CarefulKept DEF SharedPass
  <2>5. r = WithItem(p, o, uid) /\ q = Applying(r) /\ Step(w, q)
    BY <2>1 DEF Patched
  <2>6. Careful(q)'
    BY <1>2, <2>3, <2>4, <2>5, GotNext
  <2> QED
    BY <1>1, <2>5, <2>6, QuietStep
<1> QED
  BY <1>1, <1>2, <1>3, <1>4, PatchEffect

\* Reading an object before it is pruned.
LEMMA PruneGetMemory ==
    ASSUME MemoryInv, NEW w \in Workers, PruneGet(w)
    PROVE  MemoryInv'
<1>1. SharedInv /\ TypeOK /\ Uids /\ SharedPass(w) /\ UNCHANGED <<decl, cm, cache>>
  BY MemoryFacts, PruneGetShared DEF PruneGet, budget
<1>2. PICK p \in Passes : p = wk[w] /\ Careful(p) /\ p.pc = "pruneGet"
  BY MemoryFacts DEF PruneGet
<1>3. PICK o \in Objs, q \in Passes : PruneGetMove(w, p, o, q)
  BY <1>1, <1>2, PruneGetEffect
<1>4. Careful(q)
  <2>1. CASE q = Failed(p)
    BY <1>2, <2>1, FailedCareful
  <2>2. CASE q = [p EXCEPT !.pc = "pruneDelete"]
    <3>1. /\ q.pc = "pruneDelete" /\ q.d = p.d /\ q.inv = p.inv /\ q.got = p.got
          /\ q.todo = p.todo
      BY <2>2 DEF Passes
    <3>2. Stale(q) = Stale(p)
      BY <3>1 DEF Stale
    <3> QED
      BY <3>1, <3>2, <1>2 DEF Careful, Later, Applies, Prunes, Cleans, Drops, Writes
  <2>3. CASE obj[o].uid = 0 /\ ((q = Applied(Rest(p, o)) /\ p.todo \ {o} = {})
                                \/ q = Rest(p, o))
    <3>1. PICK r \in Passes :
            /\ r = Rest(p, o) /\ r.pc = "pruneGet" /\ r.todo = p.todo \ {o}
            /\ r.d = p.d /\ r.inv = p.inv /\ r.got = p.got
      BY <1>2, RestType
    <3>2. ~Alive(p.inv, o)
      BY <2>3 DEF Alive
    <3>3. Careful(r) /\ (r.todo = {} => Careful(Applied(r)))
      BY <1>1, <1>2, <3>1, <3>2, PrunedCareful DEF Prunes
    <3> QED
      BY <2>3, <3>1, <3>3
  <2> QED
    BY <1>3, <2>1, <2>2, <2>3 DEF PruneGetMove
<1> QED
  BY <1>1, <1>3, <1>4, ReadStep DEF PruneGetMove

\* A deleted object is not alive.
LEMMA DeletedNotAlive ==
    ASSUME SharedInv, NEW p \in Passes, NEW o \in Objs, DeletedBy(p, o),
           UNCHANGED <<decl, cache, born>>
    PROVE  ~Alive(p.inv, o)'
BY DeletedChange DEF DeletedBy, Alive

\* Deleting an object that is no longer declared.
LEMMA PruneDeleteMemory ==
    ASSUME MemoryInv, NEW w \in Workers, PruneDelete(w)
    PROVE  MemoryInv'
<1>1. SharedInv /\ TypeOK /\ SharedPass(w) /\ UNCHANGED <<decl, cm, cache, born>>
  BY MemoryFacts, PruneDeleteShared DEF PruneDelete, budget
<1>2. PICK p \in Passes : p = wk[w] /\ Careful(p) /\ p.pc = "pruneDelete"
  BY MemoryFacts DEF PruneDelete
<1>3. PICK o \in Objs, q \in Passes : PruneDeleteMove(w, p, o, q)
  BY <1>1, <1>2, PruneDeleteEffect
<1>4. CASE q = Failed(p)
  BY <1>1, <1>2, <1>3, <1>4, FailedCareful, ReadStep DEF PruneDeleteMove
<1>5. CASE /\ DeletedBy(p, o)
           /\ \/ q = Applied(RestIn(p, o, "pruneGet")) /\ p.todo \ {o} = {}
              \/ q = RestIn(p, o, "pruneGet")
  <2>1. PICK r \in Passes :
          /\ r = RestIn(p, o, "pruneGet") /\ r.pc = "pruneGet" /\ r.todo = p.todo \ {o}
          /\ r.d = p.d /\ r.inv = p.inv /\ r.got = p.got
    BY RestAt
  <2>2. ~Alive(p.inv, o)'
    BY <1>1, <1>5, DeletedNotAlive
  <2>3. Careful(p)' /\ TypeOK' /\ Uids'
    BY <1>1, <1>2, CarefulKept DEF SharedPass
  <2>4. Careful(r)' /\ (r.todo = {} => Careful(Applied(r))')
    BY <1>2, <2>1, <2>2, <2>3, PrunedNext DEF Prunes
  <2>5. Careful(q)'
    BY <1>5, <2>1, <2>4
  <2> QED
    BY <1>1, <1>3, <2>5, QuietStep DEF PruneDeleteMove
<1> QED
  BY <1>3, <1>4, <1>5 DEF PruneDeleteMove

\* Reading an object before it is cleaned up.
LEMMA CleanupGetMemory ==
    ASSUME MemoryInv, NEW w \in Workers, CleanupGet(w)
    PROVE  MemoryInv'
<1>1. SharedInv /\ TypeOK /\ SharedPass(w) /\ UNCHANGED <<decl, cm, cache>>
  BY MemoryFacts, CleanupGetShared DEF CleanupGet, budget
<1>2. PICK p \in Passes : p = wk[w] /\ Careful(p) /\ p.pc = "cleanupGet"
  BY MemoryFacts DEF CleanupGet
<1>3. PICK o \in Objs, q \in Passes : CleanupGetMove(w, p, o, q)
  BY <1>1, <1>2, CleanupGetEffect
<1>4. Careful(q)
  <2>1. CASE q = Idle
    BY <1>1, <2>1, IdleCareful
  <2>2. CASE q = [p EXCEPT !.pc = "cleanupDelete"]
    <3>1. /\ q.pc = "cleanupDelete" /\ q.inv = p.inv /\ q.got = p.got /\ q.todo = p.todo
      BY <2>2 DEF Passes
    <3> QED
      BY <3>1, <1>2 DEF Careful, Applies, Prunes, Cleans, Drops, Writes
  <2>3. CASE obj[o].uid = 0 /\ ((q = RestIn(p, o, "dropMap") /\ p.todo \ {o} = {})
                                \/ q = Rest(p, o))
    <3>1. ~Alive(p.inv, o)
      BY <2>3 DEF Alive
    <3>2. /\ q.todo = p.todo \ {o} /\ q.inv = p.inv /\ q.got = p.got
          /\ q.pc = "cleanupGet" \/ (q.pc = "dropMap" /\ q.todo = {})
      BY <1>2, <2>3, RestAt, RestType
    <3> QED
      BY <1>2, <3>1, <3>2, CleanedCareful DEF Cleans
  <2> QED
    BY <1>3, <2>1, <2>2, <2>3 DEF CleanupGetMove
<1> QED
  BY <1>1, <1>3, <1>4, ReadStep DEF CleanupGetMove

\* Deleting an object of a deleted declaration.
LEMMA CleanupDeleteMemory ==
    ASSUME MemoryInv, NEW w \in Workers, CleanupDelete(w)
    PROVE  MemoryInv'
<1>1. SharedInv /\ TypeOK /\ SharedPass(w) /\ UNCHANGED <<decl, cm, cache, born>>
  BY MemoryFacts, CleanupDeleteShared DEF CleanupDelete, budget
<1>2. PICK p \in Passes : p = wk[w] /\ Careful(p) /\ p.pc = "cleanupDelete"
  BY MemoryFacts DEF CleanupDelete
<1>3. PICK o \in Objs, q \in Passes : CleanupDeleteMove(w, p, o, q)
  BY <1>1, <1>2, CleanupDeleteEffect
<1>4. CASE q = Idle
  BY <1>1, <1>3, <1>4, IdleCareful, ReadStep DEF CleanupDeleteMove
<1>5. CASE /\ DeletedBy(p, o)
           /\ \/ q = RestIn(p, o, "dropMap") /\ p.todo \ {o} = {}
              \/ q = RestIn(p, o, "cleanupGet")
  <2>1. /\ q.todo = p.todo \ {o} /\ q.inv = p.inv /\ q.got = p.got
        /\ q.pc = "cleanupGet" \/ (q.pc = "dropMap" /\ q.todo = {})
    BY <1>5, RestAt
  <2>2. ~Alive(p.inv, o)'
    BY <1>1, <1>5, DeletedNotAlive
  <2>3. Careful(p)'
    BY <1>1, <1>2, CarefulKept DEF SharedPass
  <2>4. Careful(q)'
    BY <1>2, <2>1, <2>2, <2>3, CleanedNext DEF Cleans
  <2> QED
    BY <1>1, <1>3, <2>4, QuietStep DEF CleanupDeleteMove
<1> QED
  BY <1>3, <1>4, <1>5 DEF CleanupDeleteMove

\* From one write of a pass to the next.
LEMMA WriteCareful ==
    ASSUME MemoryInv, NEW w \in Workers, NEW q,
           \/ wk[w].pc = "saveMap" /\ q = [wk[w] EXCEPT !.pc = "saveAnnotation"]
           \/ wk[w].pc = "dropMap" /\ q = [wk[w] EXCEPT !.pc = "dropAnnotation"]
           \/ wk[w].pc = "dropAnnotation" /\ q = [wk[w] EXCEPT !.pc = "release"]
    PROVE  q \in Passes /\ Careful(q)
<1>1. PICK p \in Passes : p = wk[w] /\ Careful(p)
  BY MemoryFacts
<1>2. /\ q \in Passes /\ q.d = p.d /\ q.inv = p.inv /\ q.got = p.got
      /\ \/ p.pc = "saveMap" /\ q.pc = "saveAnnotation"
         \/ p.pc = "dropMap" /\ q.pc = "dropAnnotation"
         \/ p.pc = "dropAnnotation" /\ q.pc = "release"
  BY <1>1 DEF Passes, PCs
<1> QED
  BY <1>1, <1>2 DEF Careful, Saves, Applies, Prunes, Cleans, Drops, Writes

\* Saving the inventory to the ConfigMap.
LEMMA SaveMapMemory ==
    ASSUME MemoryInv, NEW w \in Workers, SaveMap(w)
    PROVE  MemoryInv'
<1>1. SharedPass(w) /\ Evolves /\ Copies /\ TypeOK
  BY MemoryFacts, SaveMapShared DEF SharedPass
<1>2. PICK p \in Passes : p = wk[w] /\ Careful(p) /\ p.pc = "saveMap"
  BY MemoryFacts DEF SaveMap
<1>3. cm'.inv = p.got \/ cm' = cm
  BY <1>2 DEF SaveMap
<1>4. Holds(cm'.inv)
  BY <1>1, <1>2, <1>3, PassFields DEF Careful, Holds, Known, Copies
<1>5. Copies'
  BY <1>1, <1>4, CopiesKept DEF SaveMap, budget, Copies
<1>6. CASE Seen.cm = cm
  <2>1. PICK q : q = [p EXCEPT !.pc = "saveAnnotation"] /\ Step(w, q)
    BY <1>2, <1>6 DEF SaveMap
  <2>2. q \in Passes /\ Careful(q)
    BY <1>2, <2>1, WriteCareful
  <2>3. Careful(q)'
    BY <1>1, <2>2, CarefulKept
  <2> QED
    BY <1>1, <1>5, <2>1, <2>2, <2>3, CarefulStep
<1>7. CASE Seen.cm # cm
  BY <1>1, <1>5, <1>7, EndStep DEF SaveMap
<1> QED
  BY <1>6, <1>7

\* Saving the inventory to the annotation.
LEMMA SaveAnnotationMemory ==
    ASSUME MemoryInv, NEW w \in Workers, SaveAnnotation(w)
    PROVE  MemoryInv'
<1>1. SharedPass(w) /\ Evolves /\ Copies /\ TypeOK
  BY MemoryFacts, SaveAnnotationShared DEF SharedPass
<1>2. PICK p \in Passes : p = wk[w] /\ Careful(p)
  BY MemoryFacts
<1>3. p.got \in Inventories /\ Known(p.got)
  BY <1>2, PassFields DEF Careful
<1>4. decl'.ann = p.got \/ decl' = decl
  BY <1>1, <1>2, <1>3, AnnotatedType DEF SaveAnnotation
<1>5. Holds(decl'.ann)
  BY <1>1, <1>3, <1>4 DEF Holds, Known, Copies
<1>6. Copies'
  BY <1>1, <1>5, CopiesKept DEF SaveAnnotation, budget, Copies
<1> QED
  BY <1>1, <1>6, EndStep DEF SaveAnnotation

\* Deleting the ConfigMap.
LEMMA DropMapMemory ==
    ASSUME MemoryInv, NEW w \in Workers, DropMap(w)
    PROVE  MemoryInv'
<1>1. SharedPass(w) /\ Evolves /\ Copies /\ TypeOK
  BY MemoryFacts, DropMapShared DEF SharedPass
<1>2. PICK q : q = [wk[w] EXCEPT !.pc = "dropAnnotation"] /\ Step(w, q)
  BY DEF DropMap
<1>3. q \in Passes /\ Careful(q)
  BY <1>2, WriteCareful DEF DropMap
<1>4. Careful(q)'
  BY <1>1, <1>3, CarefulKept
<1>5. Copies'
  BY <1>1, CopiesKept DEF DropMap, budget, Copies, Holds
<1> QED
  BY <1>1, <1>2, <1>3, <1>4, <1>5, CarefulStep

\* Removing the annotation.
LEMMA DropAnnotationMemory ==
    ASSUME MemoryInv, NEW w \in Workers, DropAnnotation(w)
    PROVE  MemoryInv'
<1>1. SharedPass(w) /\ Evolves /\ Copies /\ TypeOK
  BY MemoryFacts, DropAnnotationShared DEF SharedPass
<1>2. decl'.ann = decl.ann \/ decl'.ann = None
  BY <1>1, AnnotatedType DEF DropAnnotation
<1>3. CASE End(w)
  <2>1. Copies'
    BY <1>1, <1>2, CopiesKept DEF DropAnnotation, budget, Copies, Holds, Known
  <2> QED
    BY <1>1, <1>3, <2>1, EndStep
<1>4. CASE ~End(w)
  <2>1. PICK q : q = [wk[w] EXCEPT !.pc = "release"] /\ Step(w, q)
    BY <1>4 DEF DropAnnotation, End
  <2>2. q \in Passes /\ Careful(q)
    BY <2>1, WriteCareful DEF DropAnnotation
  <2> QED
    BY <1>1, <1>2, <2>1, <2>2, ReadStep DEF DropAnnotation, budget
<1> QED
  BY <1>3, <1>4

\* Removing the finalizer.
LEMMA ReleaseMemory ==
    ASSUME MemoryInv, NEW w \in Workers, Release(w)
    PROVE  MemoryInv'
<1>1. SharedPass(w) /\ Evolves /\ Copies /\ decl \in Declarations
  BY MemoryFacts, ReleaseShared, SharedFacts DEF SharedPass
<1>2. decl'.ann = decl.ann \/ decl'.ann = None
  BY <1>1, GoneType DEF Release, Declarations
<1>3. Copies'
  BY <1>1, <1>2, CopiesKept DEF Release, budget, Copies, Holds, Known
<1> QED
  BY <1>1, <1>3, EndStep DEF Release

\* Every step of a pass keeps all passes careful.
LEMMA PassMemory ==
    ASSUME MemoryInv, NEW w \in Workers, Pass(w)
    PROVE  MemoryInv'
BY BeginMemory, LoadMapMemory, ExpandMemory, AddFinalizerMemory, GetObjectMemory,
   PatchObjectMemory, PruneGetMemory, PruneDeleteMemory, SaveMapMemory,
   SaveAnnotationMemory, CleanupGetMemory, CleanupDeleteMemory, DropMapMemory,
   DropAnnotationMemory, ReleaseMemory DEF Pass

\* So does a failed call.
LEMMA CallFailsMemory ==
    ASSUME MemoryInv, NEW w \in Workers, CallFails(w)
    PROVE  MemoryInv'
<1>1. PICK p \in Passes : p = wk[w] /\ Careful(p) /\ SharedPass(w)
  BY MemoryFacts, CallFailsShared
<1>2. Failed(p) \in Passes /\ Careful(Failed(p)) /\ Step(w, Failed(p))
  BY <1>1, FailedMove, FailedCareful DEF CallFails
<1> QED
  BY <1>1, <1>2, ReadStep DEF CallFails, Faulty

----------------------------------------------------------------------------
(* The others, and all steps.                                               *)

\* While others act, passes and copies stay.
LEMMA OtherStep ==
    ASSUME MemoryInv, SharedOther, Copies'
    PROVE  MemoryInv'
<1>1. ASSUME NEW v \in Workers PROVE Careful(wk[v])'
  <2>1. PICK p \in Passes : p = wk[v] /\ Careful(p)
    BY MemoryFacts
  <2>2. Careful(p)' /\ wk'[v] = p
    BY <2>1, CarefulKept DEF SharedOther, MemoryInv, SharedInv
  <2> QED
    BY <2>2 DEF Careful, Known, Alive, Later, Saves, Stale, Items
<1> QED
  BY <1>1, SharedOtherInv DEF MemoryInv

\* Users write declarations, but no annotation.
LEMMA DeclMemory ==
    ASSUME MemoryInv, CreateDecl \/ EditDecl \/ DeleteDecl
    PROVE  MemoryInv'
<1>1. /\ SharedOther /\ Evolves /\ Copies /\ decl \in Declarations
      /\ born + 1 \in 0..MaxDecl \/ ~CreateDecl
  <2>1. born \in 1..MaxDecl /\ MaxDecl \in Nat
    BY SharedTypes, DistributionAssumption DEF MemoryInv
  <2>2. CreateDecl => born < MaxDecl
    BY DEF CreateDecl
  <2>3. born + 1 \in 0..MaxDecl \/ ~CreateDecl
    BY <2>1, <2>2
  <2> QED
    BY <2>3, DeclShared, SharedTypes DEF MemoryInv, SharedOther
<1>2. decl'.ann = decl.ann \/ decl'.ann = None
  <2>1. CASE CreateDecl
    <3>1. PICK s \in SUBSET Objs, k \in Policies :
             decl' = Specified(NoDecl(born + 1), s, k)
      BY <2>1 DEF CreateDecl, Specified
    <3> QED
      BY <1>1, <2>1, <3>1, NoDeclType, SpecifiedType
  <2>2. CASE EditDecl
    <3>1. PICK s \in SUBSET Objs, k \in Policies : decl' = Specified(decl, s, k)
      BY <2>2 DEF EditDecl, Specified
    <3> QED
      BY <1>1, <3>1, SpecifiedType
  <2>3. CASE DeleteDecl
    BY <1>1, <2>3, GoneType DEF DeleteDecl, Declarations
  <2> QED
    BY <2>1, <2>2, <2>3
<1>3. UNCHANGED <<cm, cache>>
  BY DEF CreateDecl, EditDecl, DeleteDecl, User
<1>4. Copies'
  BY <1>1, <1>2, <1>3, CopiesKept DEF Copies, Holds, Known
<1> QED
  BY <1>1, <1>4, OtherStep

\* Nobody else writes a copy but the caches and the garbage collector.
LEMMA ElseMemory ==
    ASSUME MemoryInv, SharedOther, UNCHANGED <<decl, cache>>, cm'.inv = cm.inv \/ cm'.inv = None
    PROVE  MemoryInv'
<1>1. Evolves /\ Copies
  BY DEF SharedOther, MemoryInv
<1>2. Copies'
  BY <1>1, CopiesKept DEF Copies, Holds, Known
<1> QED
  BY <1>2, OtherStep

\* A cache takes over copies.
LEMMA CatchUpMemory ==
    ASSUME MemoryInv, SyncDecl \/ SyncMap \/ SyncNamespaces
    PROVE  MemoryInv'
<1>1. SharedOther /\ Copies /\ TypeOK /\ UNCHANGED <<decl, cm, targets>>
  BY CatchUpShared
     DEF MemoryInv, SharedInv, SyncDecl, SyncMap, SyncNamespaces, CatchUp
<1>2. cache \in [decl : Declarations, cm : Maps, ns : NamespaceLists]
  BY <1>1 DEF TypeOK
<1>3. /\ cache'.decl = decl \/ cache'.decl = cache.decl
      /\ cache'.cm = cm \/ cache'.cm = cache.cm
  BY <1>2 DEF SyncDecl, SyncMap, SyncNamespaces, CatchUp
<1>4. Copies'
  BY <1>1, <1>3 DEF Copies, Holds, Known, targets
<1> QED
  BY <1>1, <1>4, OtherStep

\* A crash ends all passes.
LEMMA CrashMemory ==
    ASSUME MemoryInv, Crash
    PROVE  MemoryInv'
<1>1. TypeOK' /\ Evolves /\ Copies /\ \A w \in Workers : wk'[w] = Idle
  BY CrashShared DEF MemoryInv
<1>2. SharedInv'
  BY NextShared DEF MemoryInv, Next
<1>3. Copies'
  BY <1>1, CopiesKept DEF Crash, Faulty, Copies
<1>4. \A w \in Workers : Careful(wk[w])'
  BY <1>1, IdleNext DEF Careful, Known, Alive, Later, Saves, Stale, Items
<1> QED
  BY <1>2, <1>3, <1>4 DEF MemoryInv

\* Initially there is no copy and no pass.
LEMMA InitMemory == Init => MemoryInv
<1>1. SUFFICES ASSUME Init PROVE MemoryInv
  OBVIOUS
<1>2. SharedInv /\ TypeOK
  BY <1>1, InitShared DEF SharedInv
<1>3. PICK s \in SUBSET Objs, k \in Policies :
         decl = Specified(NoDecl(1), s, k)
  BY <1>1 DEF Init, Specified
<1>4. decl.ann = None
  BY <1>3, NoDeclType, SpecifiedType, DistributionAssumption
<1>5. Copies
  BY <1>1, <1>4 DEF Init, Copies, Holds
<1>6. \A w \in Workers : Careful(wk[w])
  BY <1>1, <1>2, IdleCareful DEF Init
<1> QED
  BY <1>2, <1>5, <1>6 DEF MemoryInv

\* Every step keeps the invariant.
LEMMA NextMemory == MemoryInv /\ [Next]_vars => MemoryInv'
<1>1. SUFFICES ASSUME MemoryInv, [Next]_vars PROVE MemoryInv'
  OBVIOUS
<1>2. ASSUME NEW w \in Workers, Pass(w) \/ CallFails(w) PROVE MemoryInv'
  BY <1>1, <1>2, PassMemory, CallFailsMemory
<1>3. CASE Crash
  BY <1>1, <1>3, CrashMemory
<1>4. CASE CreateDecl \/ EditDecl \/ DeleteDecl
  BY <1>1, <1>4, DeclMemory
<1>5. ASSUME NEW o \in Objs,
             \/ DeleteObject(o) \/ CreateObject(o) \/ DeleteNamespace(o)
             \/ CreateNamespace(o) \/ Terminate(o)
      PROVE  MemoryInv'
  <2>1. UNCHANGED <<decl, cm, cache>>
    BY <1>5 DEF DeleteObject, CreateObject, DeleteNamespace, CreateNamespace, Terminate,
       User, budget
  <2> QED
    BY <1>1, <1>5, <2>1, ObjectShared, ElseMemory DEF MemoryInv
<1>6. CASE CollectMap
  BY <1>1, <1>6, CollectMapShared, ElseMemory DEF CollectMap, budget, MemoryInv
<1>7. CASE SyncDecl \/ SyncMap \/ SyncNamespaces
  BY <1>1, <1>7, CatchUpMemory
<1>8. CASE UNCHANGED vars
  <2>1. SharedInv'
    BY <1>1, NextShared DEF MemoryInv
  <2> QED
    BY <1>1, <1>8, <2>1 DEF vars, MemoryInv, Copies, Holds, Known, Careful, Alive, Later,
       Saves, Stale, Items
<1> QED
  BY <1>1, <1>2, <1>3, <1>4, <1>5, <1>6, <1>7, <1>8 DEF Next

\* All copies of the inventory are of objects there have been, and each pass answers
\* for what it loaded, however many workers reconcile and whatever they read.
THEOREM MemoryInvariant == Spec => []MemoryInv
BY InitMemory, NextMemory, PTL DEF Spec

\* What was given to an object of the record is in what the pass saves, and none of
\* it is left to clean up.
LEMMA StandingSaved ==
    ASSUME MemoryInv, NEW w \in Workers, NEW p \in Passes, p = wk[w],
           p.inv = Recorded, p.d.policy = "Delete", NEW o \in Objs, Standing(o)
    PROVE  /\ Present
           /\ p.pc \in Writes => p.got[o].uid = Recorded[o].uid
           /\ p.pc \notin Drops
<1>1. Careful(p) /\ Alive(p.inv, o)
  BY MemoryFacts DEF Standing, Alive
<1>2. Present
  BY EmptyType DEF Standing, Recorded
<1> QED
  BY <1>1, <1>2 DEF Careful, Saves

\* An inventory that has an item is not None.
LEMMA SomeInventory == ASSUME NEW inv \in Inventories, NEW o \in Objs PROVE inv # None
BY DEF Inventories, None

\* A pass does not take a standing object out of the record it has loaded.
LEMMA PassRemembers ==
    ASSUME MemoryInv, NEW w \in Workers, Pass(w), wk[w].inv = Recorded,
           wk[w].d.policy = "Delete", NEW o \in Objs, Standing(o)
    PROVE  Recorded'[o].uid = Recorded[o].uid
<1>1. PICK p \in Passes : p = wk[w]
  BY MemoryFacts
<1>2. /\ Present
      /\ p.pc \in Writes => p.got[o].uid = Recorded[o].uid
      /\ p.pc \notin Drops
  BY <1>1, StandingSaved
<1>3. TypeOK /\ decl \in Declarations /\ p.got \in Inventories /\ p.got # None
  BY <1>1, PassFields, SomeInventory, SharedFacts DEF MemoryInv
<1>4. CASE UNCHANGED <<decl, cm>>
  BY <1>4 DEF Recorded, Present
<1>5. CASE AddFinalizer(w)
  <2>1. decl'.ann = decl.ann /\ decl'.uid = decl.uid /\ cm' = cm
    BY <1>3, <1>5 DEF AddFinalizer, Declarations
  <2> QED
    BY <2>1 DEF Recorded, Present
<1>6. CASE SaveMap(w)
  <2>1. decl' = decl /\ (cm' = cm \/ cm'.inv = p.got)
    BY <1>1, <1>6 DEF SaveMap
  <2>2. p.got[o].uid = Recorded[o].uid
    BY <1>1, <1>2, <1>6 DEF SaveMap, Writes
  <2> QED
    BY <1>2, <1>3, <2>1, <2>2 DEF Recorded, Present
<1>7. CASE SaveAnnotation(w)
  <2>1. cm' = cm /\ (decl' = decl \/ decl' = Annotated(p.got))
    BY <1>1, <1>7 DEF SaveAnnotation
  <2>2. p.got[o].uid = Recorded[o].uid
    BY <1>1, <1>2, <1>7 DEF SaveAnnotation, Writes
  <2>3. Annotated(p.got).ann = p.got /\ Annotated(p.got).uid = decl.uid
    BY <1>2, <1>3, AnnotatedType
  <2> QED
    BY <1>2, <1>3, <2>1, <2>2, <2>3 DEF Recorded, Present
<1>8. CASE DropMap(w) \/ DropAnnotation(w) \/ Release(w)
  BY <1>1, <1>2, <1>8 DEF DropMap, DropAnnotation, Release, Drops
<1> QED
  BY <1>4, <1>5, <1>6, <1>7, <1>8 DEF Pass, Begin, LoadMap, Expand, GetObject, PatchObject,
     PruneGet, PruneDelete, CleanupGet, CleanupDelete

\* No step of a pass takes an object that stands out of the record the pass has
\* loaded, however many workers reconcile, from whatever copies, and whatever fails
\* between two calls (engine.go Reconcile, prune, fail, cleanup; store.go).
THEOREM Remembered == Spec => NothingForgotten
<1> DEFINE Kept ==
      \A w \in Workers, o \in Objs :
         /\ wk'[w] # wk[w]
         /\ wk[w].inv = Recorded
         /\ wk[w].d.policy = "Delete"
         /\ Standing(o)
         /\ obj'[o] = obj[o]
         => Recorded'[o].uid = Recorded[o].uid
<1>1. ASSUME MemoryInv, [Next]_vars PROVE Kept
  <2>1. SUFFICES ASSUME NEW v \in Workers, NEW o \in Objs, wk'[v] # wk[v],
                        wk[v].inv = Recorded, wk[v].d.policy = "Delete", Standing(o)
                 PROVE  Recorded'[o].uid = Recorded[o].uid
    OBVIOUS
  <2>2. ASSUME NEW w \in Workers, Pass(w) PROVE Recorded'[o].uid = Recorded[o].uid
    <3>1. v = w
      BY <1>1, <2>1, <2>2, PassShared DEF SharedPass, MemoryInv
    <3> QED
      BY <1>1, <2>1, <2>2, <3>1, PassRemembers
  <2>3. ASSUME Crash \/ \E w \in Workers : CallFails(w)
        PROVE  Recorded'[o].uid = Recorded[o].uid
    BY <2>3 DEF Crash, CallFails, Faulty, Recorded, Present
  <2> DEFINE Waiting == UNCHANGED wk
  <2>4. CreateDecl \/ EditDecl \/ DeleteDecl => Waiting
    BY DEF CreateDecl, EditDecl, DeleteDecl, User
  <2>5. (\E x \in Objs : \/ DeleteObject(x) \/ CreateObject(x) \/ DeleteNamespace(x)
                         \/ CreateNamespace(x) \/ Terminate(x)) => Waiting
    BY DEF DeleteObject, CreateObject, DeleteNamespace, CreateNamespace, Terminate, User
  <2>6. CollectMap \/ SyncDecl \/ SyncMap \/ SyncNamespaces \/ UNCHANGED vars => Waiting
    BY DEF CollectMap, SyncDecl, SyncMap, SyncNamespaces, CatchUp, vars
  <2>7. ~Waiting
    BY <2>1
  <2> HIDE DEF Waiting
  <2> QED
    BY <1>1, <2>2, <2>3, <2>4, <2>5, <2>6, <2>7 DEF Next
<1> QED
  BY <1>1, MemoryInvariant, PTL DEF Spec, NothingForgotten

=============================================================================
