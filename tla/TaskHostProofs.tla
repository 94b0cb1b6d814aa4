--------------------------- MODULE TaskHostProofs ---------------------------
(***************************************************************************)
(* Proofs about TaskHost for every value of its constants.  The argument   *)
(* has five layers, each an invariant that uses the ones before it:        *)
(*   TypeInv   the values of the variables;                                *)
(*   FenceInv  what a Host between two calls knows about the stored Task   *)
(*             (the resourceVersion test and the finalizer fence it);      *)
(*   ClaimInv  which Runtime objects can exist, for a Task claimed by this *)
(*             version of the Agent;                                       *)
(*   ReportInv when nothing exists, so that Stopped may be reported;       *)
(*   MountInv  in which order objects come and go.                         *)
(***************************************************************************)
EXTENDS TaskHost, TLAPS

\* Only deletion takes a Task to the last generation.
GenerationBound == ~task.deleting => task.gen <= MaxGen

TypeInv == TypeOK /\ GenerationBound

----------------------------------------------------------------------------
\* Calls made under a claim: nobody else changes who holds the Task.
Holding == PCs \ {"idle", "adopt", "claim"}

\* A stored Task has an incarnation.
TaskExists == task # NoTask => task.uid # 0

\* A copy with the stored resourceVersion is the stored Task.
FreshCopy == \A h \in fresh : pc[h] # "idle" /\ snap[h] = task

\* A Host claims, adopts or freezes only what its copy shows to be missing.
MissingClaim ==
    \A h \in Hosts :
        /\ pc[h] = "claim" => ~snap[h].fin /\ snap[h].uid # 0
        /\ pc[h] = "adopt" => snap[h].fin /\ snap[h].claimant = None
                                  /\ snap[h].uid # 0
        /\ pc[h] = "freeze" => snap[h].frozen = None

\* A Host that works under its claim still holds it, however old its copy is.
HeldClaim ==
    \A h \in Hosts :
        pc[h] \in Holding =>
            /\ snap[h].uid # 0
            /\ task.uid = snap[h].uid
            /\ task.fin
            /\ task.claimant = h
            /\ task.frozen = snap[h].frozen

FenceInv == TaskExists /\ FreshCopy /\ MissingClaim /\ HeldClaim

----------------------------------------------------------------------------
\* This version of the Agent writes finalizer, claimant and frozen selector
\* together.
WholeClaim ==
    /\ task # NoTask => task.carrier # None
    /\ task.fin => task.claimant # None /\ task.frozen # None
    /\ ~task.fin => task.frozen = None

NoRepair == \A h \in Hosts : pc[h] \notin {"adopt", "freeze"}

\* The objects whose kind cleanup is sure to know.
Tracked(k) == k \in Aux \/ ~MutableCarrier

TrackedUnderClaim == \A h \in Hosts, k \in Kinds : Tracked(k) => UnderClaim(h, k)

\* A plan creates objects of the inventory of the copy's carrier.
PlannedKinds ==
    \A h \in Hosts : pc[h] = "apply" => loc[h].todo \subseteq Inventory(snap[h].carrier)

\* Before the finalizer is removed, the frozen inventory is empty and stays so.
ReleaseReady ==
    \A h \in Hosts :
        pc[h] = "release" =>
            \A k \in Kinds :
                k \in Inventory(snap[h].frozen) => rt[h][k].owner # snap[h].uid

\* When users leave the carrier of an existing Task alone, every copy, claim
\* and workload agrees with it.
FixedCarrier ==
    ~MutableCarrier =>
        /\ task.fin => task.frozen = task.carrier
        /\ \A h \in Hosts : pc[h] \in Holding => snap[h].carrier = task.carrier
        /\ \A h \in Hosts, k \in Kinds \ Aux : rt[h][k].owner # 0 => k = task.carrier

ClaimInv ==
    /\ WholeClaim
    /\ NoRepair
    /\ TrackedUnderClaim
    /\ PlannedKinds
    /\ ReleaseReady
    /\ FixedCarrier

----------------------------------------------------------------------------
\* The Runtime of h is empty.
Nothing(h) == \A k \in Kinds : rt[h][k].owner = 0

\* Between a claim and its first plan, and between a complete cleanup and its
\* report, nothing exists. So a Task deleted right after its claim is never
\* planned for deletion, and a Host that realizes a Task still sees it running.
Admission(h) ==
    /\ pc[h] \in {"reget", "stoppedStatus"} => Nothing(h)
    /\ pc[h] = "evaluate" /\ snap[h].deleting => Nothing(h)
    /\ pc[h] = "apply" => ~snap[h].deleting
    /\ pc[h] \in {"evaluate", "apply"} => task.phase # "Stopped"

ReportInv == StoppedMeansGone /\ \A h \in Hosts : Admission(h)

\* What a workload mounts.
Mounts == {"Secret", "ConfigMap"}

\* The order of creation and deletion: an operation on the workload comes after
\* those on its mounts, and cleanup turns to a mount when no workload is left.
\* Objects of fixed kinds are gone at once.
MountOrder(h) ==
    /\ \A k \in Aux : ~rt[h][k].term
    /\ \A k \in Supported :
          rt[h][k].owner # 0 => \A m \in Mounts : rt[h][m].owner = rt[h][k].owner
    /\ pc[h] = "apply" =>
          \A m \in Mounts : m \in loc[h].todo \/ rt[h][m].owner = snap[h].uid
    /\ pc[h] = "cleanDelete" /\ loc[h].todo \cap Mounts # {} =>
          \A k \in Supported : rt[h][k].owner = 0

MountInv == \A h \in Hosts : MountOrder(h)

----------------------------------------------------------------------------
(* Values of the variables.                                                 *)

\* Whatever a Host reads, its next call is one of the calls it knows.
LEMMA CallType ==
    ASSUME NEW h, NEW t
    PROVE  FirstCall(h, t) \in PCs /\ Classify(h, t) \in PCs /\ Admitted(t) \in PCs
<1>1. Admitted(t) \in PCs
  BY DEF Admitted, PCs
<1>2. Classify(h, t) \in PCs
  BY <1>1 DEF Classify, ClaimedCall, PCs
<1>3. QED
  BY <1>1, <1>2 DEF FirstCall, PCs

\* A Task no Host has touched, and the absent Task, are Task records.
LEMMA NoTaskType == NoTask \in TaskRecord
  BY ConstantsAssumption DEF NoTask, TaskRecord, Phases

\* Moving on from a well-typed copy keeps the Host's own state well typed.
LEMMA ContinueType ==
    ASSUME TypeOK, NEW h \in Hosts, NEW t \in TaskRecord, NEW call \in PCs,
           NEW release \in BOOLEAN, Continue(h, t, call, release)
    PROVE  /\ pc' \in [Hosts -> PCs]
           /\ snap' \in [Hosts -> TaskRecord]
           /\ loc' \in [Hosts -> Locals]
<1>1. [NoLocals EXCEPT !.release = release /\ call = "clean"] \in Locals
  BY DEF NoLocals, Locals
<1>2. QED
  BY <1>1, NoTaskType DEF Continue, TypeOK

\* A reconcile that ends leaves well-typed state.
LEMMA FinishType ==
    ASSUME TypeOK, NEW h \in Hosts, Finish(h)
    PROVE  /\ pc' \in [Hosts -> PCs]
           /\ snap' \in [Hosts -> TaskRecord]
           /\ loc' \in [Hosts -> Locals]
<1>1. NoLocals \in Locals /\ "idle" \in PCs
  BY DEF NoLocals, Locals, PCs
<1>2. QED
  BY <1>1, NoTaskType DEF Finish, TypeOK

\* A reconcile that ends in a retry leaves well-typed state, and the Task alone.
LEMMA RetryType ==
    ASSUME TypeInv, NEW h \in Hosts, Retry(h),
           rt' = rt, lastUID' = lastUID, faults' \in 0..MaxFaults, drift' = drift
    PROVE  TypeInv'
  BY FinishType DEF TypeInv, TypeOK, GenerationBound, Retry

\* What the writes of a reconcile and of the users make of a Task record.
LEMMA StatusType ==
    ASSUME TypeInv, NEW h \in Hosts, NEW phase \in Phases, WriteStatus(h, phase)
    PROVE  /\ task' \in TaskRecord
           /\ fresh' \subseteq Hosts
           /\ wake' \subseteq Hosts
           /\ task'.gen = task.gen /\ task'.deleting = task.deleting
<1> DEFINE t == snap[h]
           written == [task EXCEPT !.phase = IF phase = t.phase THEN @ ELSE phase,
                                   !.obs = IF t.gen = t.obs THEN @ ELSE t.gen]
<1>1. t \in TaskRecord
  BY DEF TypeInv, TypeOK
<1>2. /\ written \in TaskRecord
      /\ written.gen = task.gen /\ written.deleting = task.deleting
  BY <1>1 DEF TypeInv, TypeOK, TaskRecord
<1>3. task' \in {task, written}
  BY DEF WriteStatus, ObservedGeneration
<1>4. fresh' \subseteq Hosts /\ wake' \subseteq Hosts
  BY DEF WriteStatus, ObservedGeneration, TypeInv, TypeOK
<1> HIDE DEF written
<1>5. QED
  BY <1>2, <1>3, <1>4 DEF TypeInv, TypeOK

\* A status report that ends a reconcile keeps the type invariant.
LEMMA ReportType ==
    ASSUME TypeInv, NEW h \in Hosts, NEW phase \in Phases, WriteStatus(h, phase), Finish(h),
           UNCHANGED <<lastUID, rt, faults, drift>>
    PROVE  TypeInv'
  BY StatusType, FinishType DEF TypeInv, TypeOK, GenerationBound

\* A patch of the copy that keeps generation and deletion.
LEMMA PatchType ==
    ASSUME TypeInv, FreshCopy, NEW h \in Hosts, NEW t \in TaskRecord, NEW call \in PCs,
           NEW release \in BOOLEAN,
           t.gen = snap[h].gen, t.deleting = snap[h].deleting,
           Patched(h, t), Continue(h, t, call, release), OnlyFresh(h),
           UNCHANGED <<lastUID, rt, faults, drift>>
    PROVE  TypeInv'
<1>1. snap[h] = task
  BY DEF FreshCopy, Patched
<1>2. QED
  BY <1>1, ContinueType DEF TypeInv, TypeOK, GenerationBound, Patched, OnlyFresh

\* The content an object should have is a revision objects can have.
LEMMA DesiredRevType ==
    ASSUME NEW k, NEW t \in TaskRecord
    PROVE  DesiredRev(k, t) \in 0..(MaxGen + 1)
  BY ConstantsAssumption DEF DesiredRev, TaskRecord

\* A new incarnation is a Task record of the first generation.
LEMMA NewTaskType ==
    ASSUME NEW u \in 0..MaxUID, NEW r \in Runtimes, NEW c \in Carriers,
           NEW v \in BOOLEAN, NEW s \in BOOLEAN
    PROVE  NewTask(u, r, c, v, s) \in TaskRecord /\ NewTask(u, r, c, v, s).gen = 1
<1>1. 1 \in 0..(MaxGen + 1)
  BY ConstantsAssumption
<1>2. QED
  BY <1>1, NoTaskType DEF NewTask, TaskRecord

\* The initial states, those of an old claim included, are well typed.
LEMMA InitType == Init => TypeInv
<1> SUFFICES ASSUME Init PROVE TypeInv
  OBVIOUS
<1> USE ConstantsAssumption
<1>1. Absent \in Object
  BY DEF Absent, Object
<1>2. task \in TaskRecord /\ GenerationBound /\ lastUID \in 0..MaxUID
  <2>1. CASE LegacyInit
    <3>1. PICK r \in Runtimes, c \in Supported, cl \in {None} \cup Hosts :
             cl \in {None, r} /\ task = LegacyTask(r, c, cl)
      BY <2>1 DEF LegacyInit
    <3>2. NewTask(1, r, c, TRUE, FALSE) \in TaskRecord /\ NewTask(1, r, c, TRUE, FALSE).gen = 1
      BY <2>1, <3>1, NewTaskType, 1 \in 0..MaxUID DEF LegacyInit
    <3>3. cl \in Hosts \cup {None}
      BY <3>1
    <3>4. task \in TaskRecord /\ task.gen = 1
      BY <3>1, <3>2, <3>3 DEF LegacyTask, TaskRecord
    <3>5. QED
      BY <2>1, <3>4 DEF LegacyInit, GenerationBound
  <2>2. CASE NewInit
    <3>1. task = NoTask /\ lastUID = 0
      BY <2>2 DEF NewInit
    <3>2. NoTask.gen = 0
      BY DEF NoTask
    <3>3. QED
      BY <3>1, <3>2, NoTaskType DEF GenerationBound
  <2>3. QED
    BY <2>1, <2>2 DEF Init
<1>3. rt \in [Hosts -> [Kinds -> Object]]
  <2>1. CASE LegacyInit
    <3>1. PICK ks : rt = LegacyRuntime(task, ks)
      BY <2>1 DEF LegacyInit
    <3>2. \A k \in Kinds :
             [owner |-> 1, rev |-> DesiredRev(k, task), term |-> FALSE] \in Object
      BY <1>2, <2>1, DesiredRevType DEF Object, LegacyInit
    <3>3. QED
      BY <1>1, <3>1, <3>2 DEF LegacyRuntime
  <2>2. CASE NewInit
    BY <1>1, <2>2 DEF NewInit
  <2>3. QED
    BY <2>1, <2>2 DEF Init
<1>4. NoLocals \in Locals /\ "idle" \in PCs
  BY DEF NoLocals, Locals, PCs
<1>5. QED
  BY <1>2, <1>3, <1>4, NoTaskType DEF Init, TypeInv, TypeOK

----------------------------------------------------------------------------
(* What a Host between two calls knows.                                     *)

CoreInv == TypeInv /\ FenceInv

\* A decision about copy t of the stored Task agrees with what it shows.
LEMMA ClassifySound ==
    ASSUME NEW h \in Hosts, NEW t \in TaskRecord
    PROVE  /\ Classify(h, t) \in Holding => t.fin /\ t.claimant = h
           /\ Classify(h, t) = "claim" => ~t.fin
           /\ Classify(h, t) = "freeze" => t.frozen = None
           /\ Classify(h, t) # "adopt"
<1>1. Admitted(t) \in {"clean", "resetStatus", "evaluate"}
  BY DEF Admitted
<1>2. t.deleting \in BOOLEAN
  BY DEF TaskRecord
<1>3. CASE t.deleting
  BY <1>3 DEF Classify, IsClaimant, Holding
<1>4. CASE ~t.deleting /\ ~CanRealize(h, t)
  BY <1>4 DEF Classify, IsClaimant, Holding
<1>5. CASE ~t.deleting /\ CanRealize(h, t)
  BY <1>1, <1>5 DEF Classify, ClaimedCall, Holding
<1>6. QED
  BY <1>2, <1>3, <1>4, <1>5

\* A Host is no absent claimant.
LEMMA HostIsNotNone == \A h \in Hosts : h # None
  BY ConstantsAssumption

\* The other Hosts stand still while h moves.
OthersIdle(h) ==
    \A g \in Hosts \ {h} : pc'[g] = pc[g] /\ snap'[g] = snap[g]

\* Moving Host h leaves the copies and calls of the other Hosts alone.
LEMMA MoveAlone ==
    ASSUME TypeOK, NEW h \in Hosts
    PROVE  /\ Finish(h) => /\ OthersIdle(h)
                           /\ pc'[h] = "idle"
           /\ \A t, call, release :
                 Continue(h, t, call, release) =>
                    /\ OthersIdle(h)
                    /\ pc'[h] = call
                    /\ snap'[h] = IF call = "idle" THEN NoTask ELSE t
  BY DEF Finish, Continue, OthersIdle, TypeOK

\* What task' must keep for the Hosts that hold a claim.
ClaimKept(h) ==
    \A g \in Hosts \ {h} :
        pc[g] \in Holding =>
            /\ task'.uid = task.uid
            /\ task'.fin
            /\ task'.claimant = task.claimant
            /\ task'.frozen = task.frozen

\* What h must know after its own step.
OwnFence(h) ==
    /\ pc'[h] = "claim" => ~snap'[h].fin /\ snap'[h].uid # 0
    /\ pc'[h] = "adopt" => snap'[h].fin /\ snap'[h].claimant = None /\ snap'[h].uid # 0
    /\ pc'[h] = "freeze" => snap'[h].frozen = None
    /\ pc'[h] \in Holding =>
          /\ snap'[h].uid # 0
          /\ task'.uid = snap'[h].uid
          /\ task'.fin
          /\ task'.claimant = h
          /\ task'.frozen = snap'[h].frozen

\* What FenceInv needs of a step in which h moves and the other Hosts do not.
LEMMA FenceStep ==
    ASSUME CoreInv, NEW h \in Hosts, OthersIdle(h), ClaimKept(h), OwnFence(h),
           TaskExists', FreshCopy'
    PROVE  FenceInv'
<1>1. MissingClaim'
  BY DEF CoreInv, FenceInv, MissingClaim, OthersIdle, OwnFence
<1>2. HeldClaim'
  <2> SUFFICES ASSUME NEW g \in Hosts, pc'[g] \in Holding
               PROVE  /\ snap'[g].uid # 0
                      /\ task'.uid = snap'[g].uid
                      /\ task'.fin
                      /\ task'.claimant = g
                      /\ task'.frozen = snap'[g].frozen
    BY DEF HeldClaim
  <2>1. CASE g = h
    BY <2>1 DEF OwnFence
  <2>2. CASE g # h
    BY <2>2 DEF CoreInv, FenceInv, HeldClaim, OthersIdle, ClaimKept
  <2>3. QED
    BY <2>1, <2>2
<1>3. QED
  BY <1>1, <1>2 DEF FenceInv

\* A step that leaves the stored Task alone and ends h's reconcile.
LEMMA EndFence ==
    ASSUME CoreInv, NEW h \in Hosts, Finish(h), task' = task, fresh' = fresh \ {h}
    PROVE  FenceInv'
<1>1. OthersIdle(h) /\ pc'[h] = "idle"
  BY MoveAlone DEF CoreInv, TypeInv
<1>2. ClaimKept(h)
  BY DEF ClaimKept, CoreInv, FenceInv, HeldClaim
<1>3. OwnFence(h)
  BY <1>1 DEF OwnFence, Holding
<1>4. TaskExists' /\ FreshCopy'
  BY <1>1 DEF CoreInv, FenceInv, TaskExists, FreshCopy, OthersIdle, TypeInv, TypeOK
<1>5. QED
  BY <1>1, <1>2, <1>3, <1>4, FenceStep

\* A retry keeps the fence: the Host gives its copy up.
LEMMA RetryFence ==
    ASSUME CoreInv, NEW h \in Hosts, Retry(h)
    PROVE  FenceInv'
  BY EndFence DEF Retry

\* A step under the claim that leaves stored Task and copy alone.
LEMMA WorkFence ==
    ASSUME CoreInv, NEW h \in Hosts, pc[h] \in Holding,
           pc' = [pc EXCEPT ![h] = pc'[h]], pc'[h] \in Holding \ {"freeze"},
           UNCHANGED <<task, snap, fresh>>
    PROVE  FenceInv'
<1>1. OthersIdle(h)
  BY DEF OthersIdle, CoreInv, TypeInv, TypeOK
<1>2. ClaimKept(h)
  BY DEF ClaimKept, CoreInv, FenceInv, HeldClaim
<1>3. OwnFence(h)
  BY DEF OwnFence, Holding, CoreInv, FenceInv, HeldClaim
<1>4. TaskExists' /\ FreshCopy'
  BY <1>1 DEF CoreInv, FenceInv, TaskExists, FreshCopy, OthersIdle, Holding, TypeInv, TypeOK
<1>5. QED
  BY <1>1, <1>2, <1>3, <1>4, FenceStep

\* A read: the copy of h becomes the stored Task.
LEMMA ReadFence ==
    ASSUME CoreInv, NEW h \in Hosts, NEW call \in PCs, NEW release,
           Continue(h, task, call, release), task' = task,
           fresh' = IF call = "idle" THEN fresh \ {h} ELSE fresh \cup {h},
           call # "idle" => task # NoTask,
           call \in Holding => task.fin /\ task.claimant = h,
           call = "claim" => ~task.fin,
           call = "adopt" => task.fin /\ task.claimant = None,
           call = "freeze" => task.frozen = None
    PROVE  FenceInv'
<1>1. /\ OthersIdle(h) /\ pc'[h] = call
      /\ call # "idle" => snap'[h] = task
  BY MoveAlone DEF CoreInv, TypeInv
<1>2. ClaimKept(h)
  BY DEF ClaimKept, CoreInv, FenceInv, HeldClaim
<1>3. OwnFence(h)
  BY <1>1 DEF OwnFence, Holding, CoreInv, FenceInv, TaskExists
<1>4. TaskExists' /\ FreshCopy'
  BY <1>1 DEF CoreInv, FenceInv, TaskExists, FreshCopy, OthersIdle, TypeInv, TypeOK
<1>5. QED
  BY <1>1, <1>2, <1>3, <1>4, FenceStep

\* A claim, adoption or freeze: the copy is fresh, so nobody else held the Task.
LEMMA PatchFence ==
    ASSUME CoreInv, NEW h \in Hosts, NEW t \in TaskRecord, NEW call \in PCs, NEW release,
           Patched(h, t), Continue(h, t, call, release), OnlyFresh(h),
           t.uid = snap[h].uid, snap[h].uid # 0, t.fin, t.claimant = h,
           snap[h].fin => snap[h].claimant \in {None, h},
           call \notin {"claim", "adopt"},
           call = "freeze" => t.frozen = None
    PROVE  FenceInv'
<1>1. /\ OthersIdle(h) /\ pc'[h] = call
      /\ call # "idle" => snap'[h] = t
  BY MoveAlone DEF CoreInv, TypeInv
<1>2. snap[h] = task
  BY DEF Patched, CoreInv, FenceInv, FreshCopy
<1>3. ClaimKept(h)
  BY <1>2, HostIsNotNone DEF ClaimKept, CoreInv, FenceInv, HeldClaim
<1>4. OwnFence(h)
  BY <1>1 DEF OwnFence, Patched, Holding
<1>5. TaskExists' /\ FreshCopy'
  BY <1>1 DEF Patched, OnlyFresh, TaskExists, FreshCopy
<1>6. QED
  BY <1>1, <1>3, <1>4, <1>5, FenceStep

\* A status report or a user's write keeps the claim of the stored Task, or
\* finds it without one.
LEMMA WriteFence ==
    ASSUME CoreInv,
           \A h \in Hosts : pc'[h] = "idle" \/ (pc'[h] = pc[h] /\ snap'[h] = snap[h]),
           TaskExists', FreshCopy',
           \/ ~task.fin
           \/ /\ task'.uid = task.uid
              /\ task'.fin = task.fin
              /\ task'.claimant = task.claimant
              /\ task'.frozen = task.frozen
    PROVE  FenceInv'
<1>1. MissingClaim'
  BY DEF CoreInv, FenceInv, MissingClaim
<1>2. HeldClaim'
  BY DEF CoreInv, FenceInv, HeldClaim, Holding
<1>3. QED
  BY <1>1, <1>2 DEF FenceInv

----------------------------------------------------------------------------
(* CoreInv is inductive: one lemma per action.                              *)

\* A retry keeps the core invariant.
LEMMA RetryCore ==
    ASSUME CoreInv, NEW h \in Hosts, Retry(h),
           rt' = rt, lastUID' = lastUID, faults' \in 0..MaxFaults, drift' = drift
    PROVE  CoreInv'
  BY RetryType, RetryFence DEF CoreInv

\* The first Get keeps the core invariant: the copy is the stored Task.
LEMMA StartCore ==
    ASSUME CoreInv, NEW h \in Hosts, Start(h)
    PROVE  CoreInv'
<1> DEFINE call == IF task = NoTask THEN "idle" ELSE FirstCall(h, task)
<1>1. /\ Continue(h, task, call, task.deleting)
      /\ fresh' = IF call = "idle" THEN fresh \ {h} ELSE fresh \cup {h}
      /\ wake' = wake \ {h}
      /\ UNCHANGED <<task, lastUID, rt, faults, drift>>
  BY DEF Start
<1>2. task \in TaskRecord /\ task.deleting \in BOOLEAN
  BY DEF CoreInv, TypeInv, TypeOK, TaskRecord
<1>3. call \in PCs
  BY CallType DEF PCs
<1>4. /\ call # "idle" => task # NoTask
      /\ call \in Holding => task.fin /\ task.claimant = h
      /\ call = "claim" => ~task.fin
      /\ call = "adopt" => task.fin /\ task.claimant = None
      /\ call = "freeze" => task.frozen = None
  <2>1. CASE call = "idle"
    BY <2>1 DEF Holding
  <2>2. CASE call = "adopt" /\ ClaimantMissing(task)
    BY <2>2 DEF ClaimantMissing, Holding
  <2>3. CASE call = Classify(h, task) /\ task # NoTask
    BY <1>2, <2>3, ClassifySound
  <2>4. QED
    BY <2>1, <2>2, <2>3 DEF FirstCall
<1> HIDE DEF call
<1>5. TypeInv'
  BY <1>1, <1>2, <1>3, ContinueType DEF CoreInv, TypeInv, TypeOK, GenerationBound
<1>6. FenceInv'
  BY <1>1, <1>3, <1>4, ReadFence
<1>7. QED
  BY <1>5, <1>6 DEF CoreInv

\* Adopting a claimant-less finalizer keeps the core invariant.
LEMMA AdoptCore ==
    ASSUME CoreInv, NEW h \in Hosts, Adopt(h)
    PROVE  CoreInv'
<1> DEFINE t == [snap[h] EXCEPT !.claimant = h,
                    !.frozen = IF @ = None /\ Decodes(h, snap[h])
                               THEN snap[h].carrier ELSE @]
<1>1. CASE Patched(h, t) /\ Continue(h, t, Classify(h, t), t.deleting) /\ OnlyFresh(h)
  <2>1. snap[h] \in TaskRecord /\ snap[h].fin /\ snap[h].claimant = None /\ snap[h].uid # 0
    BY DEF Adopt, CoreInv, TypeInv, TypeOK, FenceInv, MissingClaim
  <2>2. /\ t \in TaskRecord /\ t.deleting \in BOOLEAN
        /\ t.gen = snap[h].gen /\ t.deleting = snap[h].deleting /\ t.uid = snap[h].uid
        /\ t.fin = snap[h].fin /\ t.claimant = h
    BY <2>1 DEF TaskRecord
  <2> HIDE DEF t
  <2>3. /\ Classify(h, t) \in PCs
        /\ Classify(h, t) \notin {"claim", "adopt"}
        /\ Classify(h, t) = "freeze" => t.frozen = None
    BY <2>1, <2>2, CallType, ClassifySound
  <2>4. UNCHANGED <<lastUID, rt, faults, drift>>
    BY DEF Adopt
  <2>5. TypeInv'
    BY <1>1, <2>2, <2>3, <2>4, PatchType DEF CoreInv, FenceInv
  <2>6. FenceInv'
    BY <1>1, <2>1, <2>2, <2>3, PatchFence
  <2>7. QED
    BY <2>5, <2>6 DEF CoreInv
<1>2. CASE Retry(h)
  BY <1>2, RetryCore DEF Adopt, CoreInv, TypeInv, TypeOK
<1>3. QED
  BY <1>1, <1>2 DEF Adopt

\* Claiming keeps the core invariant.
LEMMA ClaimCore ==
    ASSUME CoreInv, NEW h \in Hosts, Claim(h)
    PROVE  CoreInv'
<1> DEFINE t == [snap[h] EXCEPT !.fin = TRUE, !.claimant = h,
                                !.frozen = IF @ = None THEN snap[h].carrier ELSE @]
<1>1. CASE Patched(h, t) /\ Continue(h, t, "reget", FALSE) /\ OnlyFresh(h)
  <2>1. snap[h] \in TaskRecord /\ ~snap[h].fin /\ snap[h].uid # 0
    BY DEF Claim, CoreInv, TypeInv, TypeOK, FenceInv, MissingClaim
  <2>2. /\ t \in TaskRecord
        /\ t.gen = snap[h].gen /\ t.deleting = snap[h].deleting /\ t.uid = snap[h].uid
        /\ t.fin /\ t.claimant = h
    BY <2>1 DEF TaskRecord
  <2> HIDE DEF t
  <2>3. "reget" \in PCs
    BY DEF PCs
  <2>4. UNCHANGED <<lastUID, rt, faults, drift>>
    BY DEF Claim
  <2>5. TypeInv'
    BY <1>1, <2>2, <2>3, <2>4, PatchType DEF CoreInv, FenceInv
  <2>6. FenceInv'
    BY <1>1, <2>1, <2>2, <2>3, PatchFence
  <2>7. QED
    BY <2>5, <2>6 DEF CoreInv
<1>2. CASE Retry(h)
  BY <1>2, RetryCore DEF Claim, CoreInv, TypeInv, TypeOK
<1>3. QED
  BY <1>1, <1>2 DEF Claim

\* The Get after a claim keeps the core invariant.
LEMMA RegetCore ==
    ASSUME CoreInv, NEW h \in Hosts, Reget(h)
    PROVE  CoreInv'
<1> DEFINE call == IF task = NoTask THEN "idle" ELSE Admitted(task)
<1>1. /\ Continue(h, task, call, FALSE)
      /\ fresh' = IF call = "idle" THEN fresh \ {h} ELSE fresh \cup {h}
      /\ UNCHANGED <<task, lastUID, rt, wake, faults, drift>>
  BY DEF Reget
<1>2. call \in PCs /\ call \notin {"claim", "adopt", "freeze"}
  BY DEF Admitted, PCs
<1>3. call # "idle" => task # NoTask
  OBVIOUS
<1>4. task.fin /\ task.claimant = h
  BY DEF Reget, CoreInv, FenceInv, HeldClaim, Holding, PCs
<1> HIDE DEF call
<1>5. task \in TaskRecord
  BY DEF CoreInv, TypeInv, TypeOK
<1>6. TypeInv'
  BY <1>1, <1>2, <1>5, ContinueType DEF CoreInv, TypeInv, TypeOK, GenerationBound
<1>7. FenceInv'
  BY <1>1, <1>2, <1>3, <1>4, ReadFence
<1>8. QED
  BY <1>6, <1>7 DEF CoreInv

\* Backfilling the frozen selector keeps the core invariant.
LEMMA FreezeCore ==
    ASSUME CoreInv, NEW h \in Hosts, Freeze(h)
    PROVE  CoreInv'
<1> DEFINE t == [snap[h] EXCEPT !.frozen = snap[h].carrier]
<1>1. CASE Patched(h, t) /\ Continue(h, t, Admitted(t), FALSE) /\ OnlyFresh(h)
  <2>1. snap[h] = task
    BY <1>1 DEF Patched, CoreInv, FenceInv, FreshCopy
  <2>2. snap[h] \in TaskRecord /\ snap[h].uid # 0 /\ snap[h].fin /\ snap[h].claimant = h
    BY <2>1 DEF Freeze, CoreInv, TypeInv, TypeOK, FenceInv, HeldClaim, Holding, PCs
  <2>3. /\ t \in TaskRecord
        /\ t.gen = snap[h].gen /\ t.deleting = snap[h].deleting /\ t.uid = snap[h].uid
        /\ t.fin /\ t.claimant = h
    BY <2>2 DEF TaskRecord
  <2> HIDE DEF t
  <2>4. Admitted(t) \in PCs /\ Admitted(t) \notin {"claim", "adopt", "freeze"}
    BY DEF Admitted, PCs
  <2>5. UNCHANGED <<lastUID, rt, faults, drift>>
    BY DEF Freeze
  <2>6. TypeInv'
    BY <1>1, <2>3, <2>4, <2>5, PatchType DEF CoreInv, FenceInv
  <2>7. FenceInv'
    BY <1>1, <2>2, <2>3, <2>4, PatchFence
  <2>8. QED
    BY <2>6, <2>7 DEF CoreInv
<1>2. CASE Retry(h)
  BY <1>2, RetryCore DEF Freeze, CoreInv, TypeInv, TypeOK
<1>3. QED
  BY <1>1, <1>2 DEF Freeze

\* A status report keeps the claim; its copy keeps an old resourceVersion.
LEMMA ReportCore ==
    ASSUME CoreInv, NEW h \in Hosts, NEW phase \in Phases, WriteStatus(h, phase), Finish(h),
           UNCHANGED <<lastUID, rt, faults, drift>>
    PROVE  CoreInv'
<1> DEFINE written == [task EXCEPT !.phase = IF phase = snap[h].phase THEN @ ELSE phase,
                                   !.obs = IF snap[h].gen = snap[h].obs THEN @ ELSE snap[h].gen]
<1>1. TypeInv'
  BY ReportType DEF CoreInv
<1>2. CASE task' = task /\ fresh' = fresh \ {h}
  BY <1>1, <1>2, EndFence DEF CoreInv
<1>3. CASE task # NoTask /\ task' = written /\ fresh' = {}
  <2>1. task \in TaskRecord
    BY DEF CoreInv, TypeInv, TypeOK
  <2>2. /\ task'.uid = task.uid /\ task'.fin = task.fin
        /\ task'.claimant = task.claimant /\ task'.frozen = task.frozen
    BY <1>3, <2>1 DEF TaskRecord
  <2>3. \A g \in Hosts : pc'[g] = "idle" \/ (pc'[g] = pc[g] /\ snap'[g] = snap[g])
    BY MoveAlone DEF OthersIdle, CoreInv, TypeInv
  <2>4. TaskExists' /\ FreshCopy'
    BY <1>3, <2>2 DEF TaskExists, FreshCopy, CoreInv, FenceInv
  <2>5. QED
    BY <1>1, <2>2, <2>3, <2>4, WriteFence DEF CoreInv
<1>4. QED
  BY <1>2, <1>3 DEF WriteStatus, ObservedGeneration

\* The three status reports keep the core invariant.
LEMMA StatusCore ==
    ASSUME CoreInv, NEW h \in Hosts,
           InvalidStatus(h) \/ StoppedStatus(h) \/ ResetStatus(h)
    PROVE  CoreInv'
<1>1. snap[h].phase \in Phases
  BY DEF CoreInv, TypeInv, TypeOK, TaskRecord
<1>2. "Stopped" \in Phases /\ "Pending" \in Phases
  BY DEF Phases
<1>3. QED
  BY <1>1, <1>2, ReportCore DEF InvalidStatus, StoppedStatus, ResetStatus

\* A reconcile that ends without having touched the Task.
LEMMA EndCore ==
    ASSUME CoreInv, NEW h \in Hosts, Finish(h), fresh' = fresh \ {h}, wake' = wake,
           rt' \in [Hosts -> [Kinds -> Object]],
           UNCHANGED <<task, lastUID, faults, drift>>
    PROVE  CoreInv'
<1>1. TypeInv'
  BY FinishType DEF CoreInv, TypeInv, TypeOK, GenerationBound
<1>2. QED
  BY <1>1, EndFence DEF CoreInv

\* A step of the work under a claim.
LEMMA WorkCore ==
    ASSUME CoreInv, NEW h \in Hosts, pc[h] \in Holding,
           NEW call \in Holding \ {"freeze"}, pc' = [pc EXCEPT ![h] = call],
           NEW l \in Locals, loc' = [loc EXCEPT ![h] = l],
           rt' \in [Hosts -> [Kinds -> Object]],
           UNCHANGED <<task, lastUID, snap, fresh, wake, faults, drift>>
    PROVE  CoreInv'
<1>1. TypeInv'
  BY DEF CoreInv, TypeInv, TypeOK, GenerationBound, Holding
<1>2. pc'[h] = call
  BY DEF CoreInv, TypeInv, TypeOK
<1>3. FenceInv'
  BY <1>2, WorkFence
<1>4. QED
  BY <1>1, <1>3 DEF CoreInv

\* Evaluating keeps the core invariant.
LEMMA EvaluateCore ==
    ASSUME CoreInv, NEW h \in Hosts, Evaluate(h)
    PROVE  CoreInv'
<1> DEFINE t == snap[h]
           owned == Owned(h, Inventory(t.carrier), t.uid)
           todo == IF t.deleting THEN owned
                   ELSE {k \in Inventory(t.carrier) :
                            k \in owned => rt[h][k].rev # DesiredRev(k, t)}
           l == [NoLocals EXCEPT !.todo = todo, !.seen = owned]
<1>1. rt' = rt /\ rt \in [Hosts -> [Kinds -> Object]]
  BY DEF Evaluate, CoreInv, TypeInv, TypeOK
<1>2. CASE Retry(h)
  BY <1>2, RetryCore DEF Evaluate, CoreInv, TypeInv, TypeOK
<1>3. CASE Finish(h) /\ fresh' = fresh \ {h} /\ UNCHANGED <<task, wake>>
  BY <1>1, <1>3, EndCore DEF Evaluate
<1>4. CASE /\ t.carrier \in Supported
           /\ pc' = [pc EXCEPT ![h] = "apply"]
           /\ loc' = [loc EXCEPT ![h] = l]
           /\ UNCHANGED <<task, snap, fresh, wake>>
  <2>1. Inventory(t.carrier) \subseteq Kinds
    BY <1>4 DEF Inventory, Kinds
  <2>2. todo \subseteq Kinds /\ owned \subseteq Kinds
    BY <2>1 DEF Owned
  <2> HIDE DEF todo, owned
  <2>3. l \in Locals
    BY <2>2 DEF Locals, NoLocals
  <2> HIDE DEF l
  <2>4. pc[h] \in Holding /\ "apply" \in Holding \ {"freeze"}
    BY DEF Evaluate, Holding, PCs
  <2>5. QED
    BY <1>1, <1>4, <2>3, <2>4, WorkCore DEF Evaluate
<1>5. QED
  BY <1>2, <1>3, <1>4 DEF Evaluate

\* A delete leaves well-typed Runtime objects.
LEMMA DeleteObjectType ==
    ASSUME TypeOK, NEW h \in Hosts, NEW k \in Kinds, DeleteObject(h, k)
    PROVE  rt' \in [Hosts -> [Kinds -> Object]]
<1>1. Absent \in Object
  BY ConstantsAssumption DEF Absent, Object
<1>2. rt[h][k] \in Object
  BY DEF TypeOK
<1>3. AfterDelete(k, rt[h][k]) \in Object
  BY <1>1, <1>2 DEF AfterDelete, Object
<1>4. QED
  BY <1>3 DEF DeleteObject, TypeOK

\* Applying an operation keeps the core invariant.
LEMMA ApplyCore ==
    ASSUME CoreInv, NEW h \in Hosts, Apply(h)
    PROVE  CoreInv'
<1>1. CASE Retry(h) /\ UNCHANGED rt
  BY <1>1, RetryCore DEF Apply, CoreInv, TypeInv, TypeOK
<1>2. ASSUME NEW k \in Kinds, Operated(h, k), rt' \in [Hosts -> [Kinds -> Object]]
      PROVE  CoreInv'
  <2>1. CASE Finish(h) /\ fresh' = fresh \ {h} /\ UNCHANGED <<task, wake>>
    BY <1>2, <2>1, EndCore DEF Apply
  <2>2. CASE /\ loc' = [loc EXCEPT ![h].todo = @ \ {k}]
             /\ UNCHANGED <<pc, snap, fresh, task, wake>>
    <3>1. [loc[h] EXCEPT !.todo = @ \ {k}] \in Locals
      BY DEF CoreInv, TypeInv, TypeOK, Locals
    <3>2. pc[h] \in Holding /\ "apply" \in Holding \ {"freeze"}
      BY DEF Apply, Holding, PCs
    <3>3. pc' = [pc EXCEPT ![h] = "apply"]
      BY <2>2 DEF Apply, CoreInv, TypeInv, TypeOK
    <3>4. loc' = [loc EXCEPT ![h] = [loc[h] EXCEPT !.todo = @ \ {k}]]
      BY <2>2
    <3>5. QED
      BY <1>2, <2>2, <3>1, <3>2, <3>3, <3>4, WorkCore DEF Apply
  <2>3. QED
    BY <1>2, <2>1, <2>2 DEF Operated
<1>3. ASSUME NEW k \in Kinds, DeleteObject(h, k), Operated(h, k)
      PROVE  CoreInv'
  BY <1>2, <1>3, DeleteObjectType DEF CoreInv, TypeInv
<1>4. ASSUME NEW k \in Kinds, Operated(h, k),
             rt' = [rt EXCEPT ![h][k] = [owner |-> snap[h].uid,
                                         rev |-> DesiredRev(k, snap[h]),
                                         term |-> rt[h][k].term]]
      PROVE  CoreInv'
  <2>1. snap[h] \in TaskRecord /\ rt[h][k] \in Object
    BY DEF CoreInv, TypeInv, TypeOK
  <2>2. [owner |-> snap[h].uid, rev |-> DesiredRev(k, snap[h]), term |-> rt[h][k].term]
           \in Object
    BY <2>1, DesiredRevType DEF Object, TaskRecord
  <2>3. rt' \in [Hosts -> [Kinds -> Object]]
    BY <1>4, <2>2 DEF CoreInv, TypeInv, TypeOK
  <2>4. QED
    BY <1>2, <1>4, <2>3
<1>5. QED
  BY <1>1, <1>3, <1>4 DEF Apply

\* Completing cleanup keeps the core invariant.
LEMMA CompleteCore ==
    ASSUME CoreInv, NEW h \in Hosts, pc[h] \in Holding, CleanupComplete(h),
           UNCHANGED <<lastUID, rt, faults, drift>>
    PROVE  CoreInv'
<1> DEFINE call == IF loc[h].release THEN "release" ELSE "stoppedStatus"
<1>1. call \in Holding \ {"freeze"}
  BY DEF Holding, PCs
<1>2. NoLocals \in Locals
  BY DEF NoLocals, Locals
<1>3. rt' \in [Hosts -> [Kinds -> Object]]
  BY DEF CoreInv, TypeInv, TypeOK
<1>4. QED
  BY <1>1, <1>2, <1>3, WorkCore DEF CleanupComplete

\* Listing for cleanup keeps the core invariant.
LEMMA CleanCore ==
    ASSUME CoreInv, NEW h \in Hosts, Clean(h)
    PROVE  CoreInv'
<1> DEFINE c == CleanupCarrier(h, snap[h])
<1>1. pc[h] \in Holding /\ "cleanDelete" \in Holding \ {"freeze"}
  BY DEF Clean, Holding, PCs
<1>2. CASE Retry(h)
  BY <1>2, RetryCore DEF Clean, CoreInv, TypeInv, TypeOK
<1>3. CASE CleanupComplete(h)
  BY <1>1, <1>3, CompleteCore DEF Clean
<1>4. ASSUME c \in Supported, NEW k \in Owned(h, Inventory(c), snap[h].uid),
             loc' = [loc EXCEPT ![h].todo = {k}],
             pc' = [pc EXCEPT ![h] = "cleanDelete"],
             UNCHANGED <<task, snap, fresh, wake>>
      PROVE  CoreInv'
  <2>1. k \in Kinds
    BY <1>4 DEF Owned, Inventory, Kinds
  <2>2. [loc[h] EXCEPT !.todo = {k}] \in Locals
    BY <2>1 DEF CoreInv, TypeInv, TypeOK, Locals
  <2>3. loc' = [loc EXCEPT ![h] = [loc[h] EXCEPT !.todo = {k}]]
    BY <1>4
  <2>4. rt' \in [Hosts -> [Kinds -> Object]]
    BY DEF Clean, CoreInv, TypeInv, TypeOK
  <2>5. QED
    BY <1>1, <1>4, <2>2, <2>3, <2>4, WorkCore DEF Clean
<1>5. QED
  BY <1>2, <1>3, <1>4 DEF Clean

\* The delete of a cleanup keeps the core invariant.
LEMMA CleanDeleteCore ==
    ASSUME CoreInv, NEW h \in Hosts, CleanDelete(h)
    PROVE  CoreInv'
<1>1. pc[h] \in Holding /\ "cleanVerify" \in Holding \ {"freeze"}
  BY DEF CleanDelete, Holding, PCs
<1>2. PICK k \in loc[h].todo : DeleteObject(h, k)
  BY DEF CleanDelete
<1>3. k \in Kinds
  BY <1>2 DEF CoreInv, TypeInv, TypeOK, Locals
<1>4. rt' \in [Hosts -> [Kinds -> Object]]
  BY <1>2, <1>3, DeleteObjectType DEF CoreInv, TypeInv
<1>5. [loc[h] EXCEPT !.todo = {}] \in Locals
  BY DEF CoreInv, TypeInv, TypeOK, Locals
<1>6. loc' = [loc EXCEPT ![h] = [loc[h] EXCEPT !.todo = {}]]
  BY DEF CleanDelete
<1>7. QED
  BY <1>1, <1>4, <1>5, <1>6, WorkCore DEF CleanDelete

\* Verifying absence keeps the core invariant.
LEMMA CleanVerifyCore ==
    ASSUME CoreInv, NEW h \in Hosts, CleanVerify(h)
    PROVE  CoreInv'
<1>1. pc[h] \in Holding
  BY DEF CleanVerify, Holding, PCs
<1>2. CASE CleanupComplete(h)
  BY <1>1, <1>2, CompleteCore DEF CleanVerify
<1>3. CASE Retry(h)
  BY <1>3, RetryCore DEF CleanVerify, CoreInv, TypeInv, TypeOK
<1>4. QED
  BY <1>2, <1>3 DEF CleanVerify

\* Only the Host that holds the Task releases it.
LEMMA ReleaseCore ==
    ASSUME CoreInv, NEW h \in Hosts, Release(h)
    PROVE  CoreInv'
<1>1. CASE Patched(h, NoTask) /\ Finish(h) /\ fresh' = {}
  <2>1. task.claimant = h /\ task' = NoTask
    BY <1>1 DEF Release, Patched, CoreInv, FenceInv, HeldClaim, Holding, PCs
  <2>2. OthersIdle(h) /\ pc'[h] = "idle"
    BY <1>1, MoveAlone DEF CoreInv, TypeInv
  <2>3. ClaimKept(h)
    BY <2>1 DEF ClaimKept, CoreInv, FenceInv, HeldClaim
  <2>4. OwnFence(h)
    BY <2>2 DEF OwnFence, Holding
  <2>5. TaskExists' /\ FreshCopy'
    BY <1>1, <2>1 DEF TaskExists, FreshCopy
  <2>6. NoTask.gen = 0
    BY DEF NoTask
  <2>7. TypeInv'
    BY <1>1, <2>1, <2>6, NoTaskType, FinishType, ConstantsAssumption
    DEF Release, Patched, CoreInv, TypeInv, TypeOK, GenerationBound
  <2>8. QED
    BY <2>2, <2>3, <2>4, <2>5, <2>7, FenceStep DEF CoreInv
<1>2. CASE Retry(h)
  BY <1>2, RetryCore DEF Release, CoreInv, TypeInv, TypeOK
<1>3. QED
  BY <1>1, <1>2 DEF Release

\* A failed call or a crash keeps the core invariant.
LEMMA AbortCore ==
    ASSUME CoreInv, NEW h \in Hosts, Abort(h)
    PROVE  CoreInv'
<1>1. faults' \in 0..MaxFaults
  BY ConstantsAssumption DEF Abort, CoreInv, TypeInv, TypeOK
<1>2. QED
  BY <1>1, RetryCore DEF Abort

\* A step that moves neither the Task nor a Host.
LEMMA RuntimeCore ==
    ASSUME CoreInv, rt' \in [Hosts -> [Kinds -> Object]], wake' \subseteq Hosts,
           drift' \in 0..MaxDrift,
           UNCHANGED <<task, lastUID, pc, snap, fresh, loc, faults>>
    PROVE  CoreInv'
  BY DEF CoreInv, TypeInv, TypeOK, GenerationBound, FenceInv, TaskExists, FreshCopy,
         MissingClaim, HeldClaim

\* The scan, garbage collection and drift keep the core invariant.
LEMMA EnvironmentCore ==
    ASSUME CoreInv, NEW h \in Hosts, NEW k \in Kinds,
           Resync(h) \/ Collect(h, k) \/ Drift(h, k)
    PROVE  CoreInv'
<1>1. CASE Resync(h)
  BY <1>1, RuntimeCore DEF Resync, CoreInv, TypeInv, TypeOK
<1>2. CASE Collect(h, k)
  <2>1. Absent \in Object
    BY ConstantsAssumption DEF Absent, Object
  <2>2. QED
    BY <1>2, <2>1, RuntimeCore DEF Collect, CoreInv, TypeInv, TypeOK
<1>3. CASE Drift(h, k)
  <2>1. rt[h][k] \in Object
    BY DEF CoreInv, TypeInv, TypeOK
  <2>2. [rt[h][k] EXCEPT !.rev = 0] \in Object
    BY <2>1, ConstantsAssumption DEF Object
  <2>3. rt' = [rt EXCEPT ![h][k].rev = 0] => rt' \in [Hosts -> [Kinds -> Object]]
    BY <2>2 DEF CoreInv, TypeInv, TypeOK
  <2>4. rt' \in [Hosts -> [Kinds -> Object]]
    BY <1>3, <2>3, DeleteObjectType DEF Drift, CoreInv, TypeInv
  <2>5. drift' \in 0..MaxDrift /\ wake' \subseteq Hosts
    BY <1>3, ConstantsAssumption DEF Drift, CoreInv, TypeInv, TypeOK
  <2>6. QED
    BY <1>3, <2>4, <2>5, RuntimeCore DEF Drift
<1>4. QED
  BY <1>1, <1>2, <1>3

\* Users never write the claim, and only an unclaimed Task disappears at once.
LEMMA UserCore ==
    ASSUME CoreInv, NEW t \in TaskRecord, UserWrote(t), lastUID' \in 0..MaxUID,
           t # NoTask => t.uid # 0,
           ~t.deleting => t.gen <= MaxGen,
           \/ ~task.fin
           \/ /\ t.uid = task.uid
              /\ t.fin = task.fin
              /\ t.claimant = task.claimant
              /\ t.frozen = task.frozen
    PROVE  CoreInv'
<1>1. TypeInv'
  BY DEF UserWrote, CoreInv, TypeInv, TypeOK, GenerationBound
<1>2. TaskExists' /\ FreshCopy'
  BY DEF UserWrote, TaskExists, FreshCopy
<1>3. QED
  BY <1>1, <1>2, WriteFence DEF UserWrote, CoreInv

\* Creating a Task keeps the core invariant.
LEMMA CreateTaskCore ==
    ASSUME CoreInv, CreateTask
    PROVE  CoreInv'
<1>1. PICK r \in Runtimes, c \in Carriers, v \in BOOLEAN, s \in BOOLEAN :
         UserWrote(NewTask(lastUID + 1, r, c, v, s))
  BY DEF CreateTask
<1> DEFINE t == NewTask(lastUID + 1, r, c, v, s)
<1>2. lastUID + 1 \in 0..MaxUID
  BY ConstantsAssumption DEF CreateTask, CoreInv, TypeInv, TypeOK
<1>3. t \in TaskRecord /\ t.gen = 1
  BY <1>2, NewTaskType
<1>4. t.uid = lastUID + 1
  BY NoTaskType DEF NewTask, TaskRecord
<1>5. ~task.fin
  BY DEF CreateTask, NoTask
<1> HIDE DEF t
<1>6. t.uid # 0 /\ t.gen <= MaxGen /\ lastUID' \in 0..MaxUID
  BY <1>2, <1>3, <1>4, ConstantsAssumption DEF CreateTask, CoreInv, TypeInv, TypeOK
<1>7. UserWrote(t)
  BY <1>1 DEF t
<1>8. QED
  BY <1>3, <1>5, <1>6, <1>7, UserCore

\* Editing the spec keeps the core invariant.
LEMMA EditSpecCore ==
    ASSUME CoreInv, EditSpec
    PROVE  CoreInv'
<1>1. PICK r \in Runtimes, c \in Carriers, v \in BOOLEAN, s \in BOOLEAN :
         UserWrote([[task EXCEPT !.runtime = r, !.carrier = c, !.valid = v, !.suspended = s]
                       EXCEPT !.gen = @ + 1])
  BY DEF EditSpec
<1> DEFINE t == [[task EXCEPT !.runtime = r, !.carrier = c, !.valid = v, !.suspended = s]
                    EXCEPT !.gen = @ + 1]
<1>2. task \in TaskRecord /\ lastUID \in 0..MaxUID
  BY DEF CoreInv, TypeInv, TypeOK
<1>3. task # NoTask /\ task.gen < MaxGen /\ lastUID' = lastUID /\ task.uid # 0
  BY DEF EditSpec, CoreInv, FenceInv, TaskExists
<1>4. /\ t \in TaskRecord
      /\ t.uid = task.uid /\ t.fin = task.fin
      /\ t.claimant = task.claimant /\ t.frozen = task.frozen
      /\ t.gen = task.gen + 1
  <2>1. task.gen \in Nat /\ task.gen + 1 \in 0..(MaxGen + 1)
    BY <1>2, <1>3, ConstantsAssumption DEF TaskRecord
  <2>2. QED
    BY <1>2, <2>1 DEF TaskRecord
<1>5. t.gen <= MaxGen
  BY <1>2, <1>3, <1>4, ConstantsAssumption DEF TaskRecord
<1> HIDE DEF t
<1>6. UserWrote(t)
  BY <1>1 DEF t
<1>7. QED
  BY <1>2, <1>3, <1>4, <1>5, <1>6, UserCore

\* Deleting the Task keeps the core invariant.
LEMMA DeleteTaskCore ==
    ASSUME CoreInv, DeleteTask
    PROVE  CoreInv'
<1>1. /\ task \in TaskRecord /\ lastUID \in 0..MaxUID /\ lastUID' = lastUID
      /\ task # NoTask /\ ~task.deleting /\ task.uid # 0 /\ task.gen <= MaxGen
  BY DEF DeleteTask, CoreInv, TypeInv, TypeOK, GenerationBound, FenceInv, TaskExists
<1>2. CASE task.fin
  <2> DEFINE t == [task EXCEPT !.deleting = TRUE, !.gen = @ + 1]
  <2>1. /\ t \in TaskRecord /\ t.deleting
        /\ t.uid = task.uid /\ t.fin = task.fin
        /\ t.claimant = task.claimant /\ t.frozen = task.frozen
    <3>1. task.gen + 1 \in 0..(MaxGen + 1)
      BY <1>1, ConstantsAssumption DEF TaskRecord
    <3>2. QED
      BY <1>1, <3>1 DEF TaskRecord
  <2> HIDE DEF t
  <2>2. UserWrote(t)
    BY <1>2 DEF DeleteTask, t
  <2>3. QED
    BY <1>1, <2>1, <2>2, UserCore
<1>3. CASE ~task.fin
  <2>1. UserWrote(NoTask)
    BY <1>3 DEF DeleteTask
  <2>2. NoTask.gen <= MaxGen
    BY ConstantsAssumption DEF NoTask
  <2>3. QED
    BY <1>1, <1>3, <2>1, <2>2, NoTaskType, UserCore
<1>4. QED
  BY <1>2, <1>3

\* CoreInv is inductive.
LEMMA CoreStep == CoreInv /\ [Next]_vars => CoreInv'
<1> SUFFICES ASSUME CoreInv, [Next]_vars PROVE CoreInv'
  OBVIOUS
<1>1. ASSUME NEW h \in Hosts, HostStep(h) PROVE CoreInv'
  BY <1>1, StartCore, AdoptCore, ClaimCore, RegetCore, FreezeCore, StatusCore,
     EvaluateCore, ApplyCore, CleanCore, CleanDeleteCore, CleanVerifyCore, ReleaseCore
  DEF HostStep
<1>2. ASSUME NEW h \in Hosts, Abort(h) \/ Resync(h) PROVE CoreInv'
  BY <1>2, AbortCore, RuntimeCore DEF Resync, CoreInv, TypeInv, TypeOK
<1>3. CASE CreateTask \/ EditSpec \/ DeleteTask
  BY <1>3, CreateTaskCore, EditSpecCore, DeleteTaskCore
<1>4. ASSUME NEW h \in Hosts, NEW k \in Kinds, Collect(h, k) \/ Drift(h, k) PROVE CoreInv'
  BY <1>4, EnvironmentCore
<1>5. CASE UNCHANGED vars
  BY <1>5, RuntimeCore DEF vars, CoreInv, TypeInv, TypeOK
<1>6. QED
  BY <1>1, <1>2, <1>3, <1>4, <1>5 DEF Next

\* CoreInv holds initially.
LEMMA CoreInit == Init => CoreInv
<1> SUFFICES ASSUME Init PROVE CoreInv
  OBVIOUS
<1>1. TypeInv
  BY InitType
<1>2. TaskExists
  <2>1. CASE LegacyInit
    <3>1. PICK r \in Runtimes, c \in Supported, cl \in {None} \cup Hosts :
             task = LegacyTask(r, c, cl)
      BY <2>1 DEF LegacyInit
    <3>2. task.uid = 1
      BY <3>1, NoTaskType DEF LegacyTask, NewTask, TaskRecord
    <3>3. QED
      BY <3>2 DEF TaskExists
  <2>2. CASE NewInit
    BY <2>2 DEF NewInit, TaskExists
  <2>3. QED
    BY <2>1, <2>2 DEF Init
<1>3. FreshCopy /\ MissingClaim /\ HeldClaim
  BY DEF Init, FreshCopy, MissingClaim, HeldClaim, Holding
<1>4. QED
  BY <1>1, <1>2, <1>3 DEF CoreInv, FenceInv

\* Types, generations and the resourceVersion fence hold in every reachable
\* state: a Host that is about to patch with a fresh copy holds the stored Task,
\* and a Host that works under the claim sees the claim the Task carries.
THEOREM CoreInvariant == Spec => []CoreInv
  BY CoreInit, CoreStep, PTL DEF Spec

\* Every reachable state has the values the code gives it, for any number of
\* Hosts, carriers, incarnations, edits, crashes and old claims.
THEOREM TypeCorrect == Spec => []TypeOK
<1>1. CoreInv => TypeOK
  BY DEF CoreInv, TypeInv
<1>2. QED
  BY <1>1, CoreInvariant, PTL

----------------------------------------------------------------------------
(* The claim never changes hands.                                           *)

\* A metadata patch of a fresh copy keeps the claim that is there.
LEMMA ClaimWrites ==
    ASSUME CoreInv, NEW h \in Hosts, Adopt(h) \/ Claim(h) \/ Freeze(h) \/ Release(h)
    PROVE  ClaimStep
<1> USE DEF ClaimStep
<1>1. snap[h] \in TaskRecord /\ task \in TaskRecord
  BY DEF CoreInv, TypeInv, TypeOK
<1>2. h \in fresh => snap[h] = task
  BY DEF CoreInv, FenceInv, FreshCopy
<1>3. CASE Adopt(h)
  <2> DEFINE t == [snap[h] EXCEPT !.claimant = h,
                      !.frozen = IF @ = None /\ Decodes(h, snap[h])
                                 THEN snap[h].carrier ELSE @]
  <2>1. CASE Patched(h, t)
    <3>1. task.claimant = None
      BY <1>2, <1>3, <2>1 DEF Adopt, Patched, CoreInv, FenceInv, MissingClaim
    <3>2. t.fin = snap[h].fin /\ (snap[h].frozen # None => t.frozen = snap[h].frozen)
      BY <1>1 DEF TaskRecord
    <3> HIDE DEF t
    <3>3. QED
      BY <1>2, <2>1, <3>1, <3>2 DEF Patched
  <2>2. CASE Retry(h)
    BY <2>2 DEF Retry
  <2>3. QED
    BY <1>3, <2>1, <2>2 DEF Adopt
<1>4. CASE Claim(h)
  <2>1. CASE h \in fresh
    BY <1>2, <1>4, <2>1 DEF Claim, CoreInv, FenceInv, MissingClaim
  <2>2. CASE h \notin fresh
    BY <1>4, <2>2 DEF Claim, Patched, Retry
  <2>3. QED
    BY <2>1, <2>2
<1>5. CASE Freeze(h)
  <2> DEFINE t == [snap[h] EXCEPT !.frozen = snap[h].carrier]
  <2>1. CASE Patched(h, t)
    <3>1. task.frozen = None
      BY <1>2, <1>5, <2>1 DEF Freeze, Patched, CoreInv, FenceInv, MissingClaim
    <3>2. t.fin = snap[h].fin /\ t.claimant = snap[h].claimant
      BY <1>1 DEF TaskRecord
    <3> HIDE DEF t
    <3>3. QED
      BY <1>2, <2>1, <3>1, <3>2 DEF Patched
  <2>2. CASE Retry(h)
    BY <2>2 DEF Retry
  <2>3. QED
    BY <1>5, <2>1, <2>2 DEF Freeze
<1>6. CASE Release(h)
  BY <1>6 DEF Release, Patched, Retry, NoTask
<1>7. QED
  BY <1>3, <1>4, <1>5, <1>6

\* A status report keeps the claim.
LEMMA StatusWrites ==
    ASSUME CoreInv, NEW h \in Hosts, NEW phase, WriteStatus(h, phase)
    PROVE  ClaimStep
<1> DEFINE written == [task EXCEPT !.phase = IF phase = snap[h].phase THEN @ ELSE phase,
                                   !.obs = IF snap[h].gen = snap[h].obs THEN @ ELSE snap[h].gen]
<1>1. task \in TaskRecord
  BY DEF CoreInv, TypeInv, TypeOK
<1>2. /\ written.fin = task.fin /\ written.claimant = task.claimant
      /\ written.frozen = task.frozen
  BY <1>1 DEF TaskRecord
<1>3. task' \in {task, written}
  BY DEF WriteStatus, ObservedGeneration
<1> HIDE DEF written
<1>4. QED
  BY <1>2, <1>3 DEF ClaimStep

\* Users keep the claim.
LEMMA UserWrites ==
    ASSUME CoreInv, CreateTask \/ EditSpec \/ DeleteTask
    PROVE  ClaimStep
<1>1. task \in TaskRecord
  BY DEF CoreInv, TypeInv, TypeOK
<1>2. CASE CreateTask
  BY <1>2 DEF CreateTask, NoTask, ClaimStep
<1>3. CASE EditSpec
  BY <1>1, <1>3 DEF EditSpec, UserWrote, ClaimStep, TaskRecord
<1>4. CASE DeleteTask
  BY <1>1, <1>4 DEF DeleteTask, UserWrote, ClaimStep, TaskRecord
<1>5. QED
  BY <1>2, <1>3, <1>4

\* While an incarnation lives, its finalizer, claimant and frozen selector are
\* written once: the resourceVersion test of the metadata patches fences every
\* Host whose copy is old, and status patches do not touch them.
THEOREM ClaimExclusive == Spec => ClaimIsExclusive
<1>1. CoreInv /\ [Next]_vars => [ClaimStep]_vars
  <2> SUFFICES ASSUME CoreInv, Next PROVE ClaimStep \/ UNCHANGED vars
    OBVIOUS
  <2>1. CASE task' = task
    BY <2>1 DEF ClaimStep
  <2>2. ASSUME NEW h \in Hosts, HostStep(h), task' # task PROVE ClaimStep
    <3>1. CASE InvalidStatus(h) \/ StoppedStatus(h) \/ ResetStatus(h)
      BY <3>1, StatusWrites DEF InvalidStatus, StoppedStatus, ResetStatus
    <3>2. CASE Adopt(h) \/ Claim(h) \/ Freeze(h) \/ Release(h)
      BY <3>2, ClaimWrites
    <3>3. QED
      BY <2>2, <3>1, <3>2 DEF HostStep, Start, Reget, Evaluate, Apply, Operated, Retry,
         Clean, CleanDelete, CleanVerify, CleanupComplete
  <2>3. CASE CreateTask \/ EditSpec \/ DeleteTask
    BY <2>3, UserWrites
  <2>4. QED
    BY <2>1, <2>2, <2>3 DEF Next, Abort, Retry, Resync, Collect, Drift
<1>2. QED
  BY <1>1, CoreInvariant, PTL DEF Spec, ClaimIsExclusive

----------------------------------------------------------------------------
(* What exists in the Runtimes.                                             *)

\* No step but Apply gives an object an owner.
OnlyShrinks ==
    \A g \in Hosts, k \in Kinds : rt'[g][k].owner \in {0, rt[g][k].owner}

\* A delete makes no object.
LEMMA DeleteShrinks ==
    ASSUME TypeOK, NEW h \in Hosts, NEW k \in Kinds, DeleteObject(h, k)
    PROVE  OnlyShrinks
<1>1. rt[h][k] \in Object
  BY DEF TypeOK
<1>2. AfterDelete(k, rt[h][k]).owner \in {0, rt[h][k].owner}
  BY <1>1 DEF AfterDelete, Absent, Object
<1>3. QED
  BY <1>2 DEF DeleteObject, OnlyShrinks, TypeOK

\* The locals of the other Hosts do not move.
OthersLocal(h) == \A g \in Hosts \ {h} : loc'[g] = loc[g]

\* A step of h that leaves the stored Task alone and creates no object.
LEMMA HostMove ==
    ASSUME CoreInv, CoreInv', ClaimInv, NEW h \in Hosts,
           OthersIdle(h), OthersLocal(h), OnlyShrinks, task' = task,
           pc'[h] \notin {"adopt", "freeze"},
           pc'[h] = "apply" => loc'[h].todo \subseteq Inventory(snap'[h].carrier),
           pc'[h] = "release" =>
              \A k \in Kinds :
                  k \in Inventory(snap'[h].frozen) => rt'[h][k].owner # snap'[h].uid,
           pc'[h] \in Holding => \/ snap'[h] = task
                                 \/ pc[h] \in Holding /\ snap'[h] = snap[h]
    PROVE  ClaimInv'
<1>1. WholeClaim' /\ NoRepair' /\ PlannedKinds'
  BY DEF ClaimInv, WholeClaim, NoRepair, PlannedKinds, OthersIdle, OthersLocal
<1>2. TrackedUnderClaim'
  BY DEF ClaimInv, TrackedUnderClaim, UnderClaim, OnlyShrinks
<1>3. ReleaseReady'
  <2> SUFFICES ASSUME NEW g \in Hosts, pc'[g] = "release",
                      NEW k \in Kinds, k \in Inventory(snap'[g].frozen)
               PROVE  rt'[g][k].owner # snap'[g].uid
    BY DEF ReleaseReady
  <2>1. CASE g = h
    BY <2>1
  <2>2. CASE g # h
    <3>1. pc[g] = "release" /\ snap'[g] = snap[g] /\ rt[g][k].owner # snap[g].uid
      BY <2>2 DEF OthersIdle, ClaimInv, ReleaseReady
    <3>2. snap[g].uid # 0
      BY <3>1 DEF CoreInv, FenceInv, HeldClaim, Holding, PCs
    <3>3. QED
      BY <3>1, <3>2 DEF OnlyShrinks
  <2>3. QED
    BY <2>1, <2>2
<1>4. FixedCarrier'
  BY DEF ClaimInv, FixedCarrier, OthersIdle, OnlyShrinks
<1>5. QED
  BY <1>1, <1>2, <1>3, <1>4 DEF ClaimInv

\* A write of the stored Task that keeps its claim, or finds none and makes none.
LEMMA TaskMove ==
    ASSUME CoreInv, CoreInv', ClaimInv, WholeClaim', rt' = rt,
           \A h \in Hosts : \/ pc'[h] = "idle"
                            \/ pc'[h] = pc[h] /\ snap'[h] = snap[h] /\ loc'[h] = loc[h],
           task'.fin => task.fin,
           task.fin => /\ task'.uid = task.uid
                       /\ task'.fin
                       /\ task'.claimant = task.claimant
                       /\ task'.frozen = task.frozen
                       /\ MutableCarrier \/ task'.carrier = task.carrier
    PROVE  ClaimInv'
<1>1. NoRepair' /\ PlannedKinds' /\ ReleaseReady'
  BY DEF ClaimInv, NoRepair, PlannedKinds, ReleaseReady
<1>2. TrackedUnderClaim'
  BY DEF ClaimInv, TrackedUnderClaim, UnderClaim
<1>3. FixedCarrier'
  <2>1. CASE task.fin
    BY <2>1 DEF ClaimInv, FixedCarrier, Holding
  <2>2. CASE ~task.fin
    <3>1. \A h \in Hosts : pc'[h] \notin Holding
      BY <2>2 DEF CoreInv, FenceInv, HeldClaim, Holding
    <3>2. ~MutableCarrier => \A h \in Hosts, k \in Kinds : rt[h][k].owner = 0
      BY <2>2 DEF ClaimInv, TrackedUnderClaim, Tracked, UnderClaim
    <3>3. QED
      BY <2>2, <3>1, <3>2 DEF FixedCarrier
  <2>3. QED
    BY <2>1, <2>2
<1>4. QED
  BY <1>1, <1>2, <1>3 DEF ClaimInv

\* A reconcile that ends without having touched the Task.
LEMMA EndClaim ==
    ASSUME CoreInv, CoreInv', ClaimInv, NEW h \in Hosts, Finish(h),
           OnlyShrinks, task' = task
    PROVE  ClaimInv'
<1>1. OthersIdle(h) /\ pc'[h] = "idle" /\ OthersLocal(h)
  BY MoveAlone DEF CoreInv, TypeInv, TypeOK, OthersLocal, Finish
<1>2. QED
  BY <1>1, HostMove DEF Holding

\* Runtimes left alone gain no object.
LEMMA SameShrinks == TypeOK /\ rt' = rt => OnlyShrinks
  BY DEF OnlyShrinks

\* A retry keeps the claim invariant.
LEMMA RetryClaim ==
    ASSUME CoreInv, CoreInv', ClaimInv, NEW h \in Hosts, Retry(h), rt' = rt
    PROVE  ClaimInv'
  BY EndClaim, SameShrinks DEF Retry, CoreInv, TypeInv

\* A read: the copy is the stored Task.
LEMMA ReadMove ==
    ASSUME CoreInv, CoreInv', ClaimInv, NEW h \in Hosts, NEW call, NEW release,
           Continue(h, task, call, release), task' = task, rt' = rt,
           call \notin {"adopt", "freeze", "apply", "release"}
    PROVE  ClaimInv'
<1>1. /\ OthersIdle(h) /\ OthersLocal(h) /\ pc'[h] = call
      /\ call # "idle" => snap'[h] = task
  BY DEF Continue, OthersIdle, OthersLocal, CoreInv, TypeInv, TypeOK
<1>2. OnlyShrinks
  BY SameShrinks DEF CoreInv, TypeInv
<1>3. QED
  BY <1>1, <1>2, HostMove DEF Holding

\* The Get after a claim keeps the claim invariant.
LEMMA RegetClaim ==
    ASSUME CoreInv, CoreInv', ClaimInv, NEW h \in Hosts, Reget(h)
    PROVE  ClaimInv'
<1> DEFINE call == IF task = NoTask THEN "idle" ELSE Admitted(task)
<1>1. call \notin {"adopt", "freeze", "apply", "release"}
  BY DEF Admitted
<1>2. Continue(h, task, call, FALSE) /\ task' = task /\ rt' = rt
  BY DEF Reget
<1> HIDE DEF call
<1>3. QED
  BY <1>1, <1>2, ReadMove

\* No copy shows a finalizer without claimant or without frozen selector.
LEMMA StartClaim ==
    ASSUME CoreInv, CoreInv', ClaimInv, NEW h \in Hosts, Start(h)
    PROVE  ClaimInv'
<1> DEFINE call == IF task = NoTask THEN "idle" ELSE FirstCall(h, task)
<1>1. task \in TaskRecord
  BY DEF CoreInv, TypeInv, TypeOK
<1>2. ~ClaimantMissing(task)
  BY <1>1 DEF ClaimInv, WholeClaim, ClaimantMissing, TaskRecord
<1>3. Admitted(task) \notin {"adopt", "freeze", "apply", "release"}
  BY DEF Admitted
<1>4. Classify(h, task) \notin {"adopt", "freeze", "apply", "release"}
  <2>1. CASE task.deleting \/ ~CanRealize(h, task)
    BY <1>1, <2>1 DEF Classify, TaskRecord
  <2>2. CASE ~task.deleting /\ CanRealize(h, task)
    BY <1>1, <1>3, <2>2 DEF Classify, ClaimedCall, ClaimInv, WholeClaim
  <2>3. QED
    BY <2>1, <2>2
<1>5. call \notin {"adopt", "freeze", "apply", "release"}
  BY <1>2, <1>4 DEF FirstCall
<1>6. Continue(h, task, call, task.deleting) /\ task' = task /\ rt' = rt
  BY DEF Start
<1> HIDE DEF call
<1>7. QED
  BY <1>5, <1>6, ReadMove

\* The claim: finalizer, claimant and frozen selector of a fresh copy.
LEMMA ClaimClaim ==
    ASSUME CoreInv, CoreInv', ClaimInv, NEW h \in Hosts, Claim(h)
    PROVE  ClaimInv'
<1> DEFINE t == [snap[h] EXCEPT !.fin = TRUE, !.claimant = h,
                                !.frozen = IF @ = None THEN snap[h].carrier ELSE @]
<1>1. CASE Patched(h, t) /\ Continue(h, t, "reget", FALSE) /\ OnlyFresh(h)
  <2>1. snap[h] = task /\ task' = t
    BY <1>1 DEF Patched, CoreInv, FenceInv, FreshCopy
  <2>2. task \in TaskRecord /\ ~task.fin /\ task.uid # 0 /\ task # NoTask
    BY <2>1 DEF Claim, CoreInv, TypeInv, TypeOK, FenceInv, MissingClaim, NoTask
  <2>3. task.frozen = None /\ task.carrier # None
    BY <2>2 DEF ClaimInv, WholeClaim
  <2>4. t.fin /\ t.claimant = h /\ t.frozen = task.carrier /\ t.carrier = task.carrier
    BY <2>1, <2>2, <2>3 DEF TaskRecord
  <2> HIDE DEF t
  <2>5. OthersIdle(h) /\ pc'[h] = "reget" /\ snap'[h] = t
    BY <1>1 DEF Continue, OthersIdle, CoreInv, TypeInv, TypeOK
  <2>6. OthersLocal(h) /\ rt' = rt
    BY <1>1 DEF Claim, Continue, OthersLocal, CoreInv, TypeInv, TypeOK
  <2>7. \A g \in Hosts : pc[g] \notin Holding
    BY <2>2 DEF CoreInv, FenceInv, HeldClaim
  <2>8. \A g \in Hosts, k \in Kinds : Tracked(k) => rt[g][k].owner = 0
    BY <2>2 DEF ClaimInv, TrackedUnderClaim, UnderClaim
  <2>9. WholeClaim'
    BY <2>1, <2>3, <2>4, HostIsNotNone DEF WholeClaim
  <2>10. TrackedUnderClaim' /\ FixedCarrier'
    BY <2>1, <2>4, <2>5, <2>6, <2>7, <2>8
    DEF TrackedUnderClaim, UnderClaim, FixedCarrier, Tracked, OthersIdle
  <2>11. NoRepair' /\ PlannedKinds' /\ ReleaseReady'
    BY <2>5, <2>6, <2>7
    DEF ClaimInv, NoRepair, PlannedKinds, ReleaseReady, OthersIdle, OthersLocal, Holding, PCs
  <2>12. QED
    BY <2>9, <2>10, <2>11 DEF ClaimInv
<1>2. CASE Retry(h)
  BY <1>2, RetryClaim DEF Claim
<1>3. QED
  BY <1>1, <1>2 DEF Claim

\* A status report keeps the claim invariant.
LEMMA StatusClaim ==
    ASSUME CoreInv, CoreInv', ClaimInv, NEW h \in Hosts,
           InvalidStatus(h) \/ StoppedStatus(h) \/ ResetStatus(h)
    PROVE  ClaimInv'
<1>1. PICK phase : WriteStatus(h, phase)
  BY DEF InvalidStatus, StoppedStatus, ResetStatus
<1> DEFINE written == [task EXCEPT !.phase = IF phase = snap[h].phase THEN @ ELSE phase,
                                   !.obs = IF snap[h].gen = snap[h].obs THEN @ ELSE snap[h].gen]
<1>2. task \in TaskRecord
  BY DEF CoreInv, TypeInv, TypeOK
<1>3. /\ written.uid = task.uid /\ written.fin = task.fin
      /\ written.claimant = task.claimant /\ written.frozen = task.frozen
      /\ written.carrier = task.carrier
  BY <1>2 DEF TaskRecord
<1>4. task' \in {task, written} /\ (task = NoTask => task' = task)
  BY <1>1 DEF WriteStatus, ObservedGeneration
<1> HIDE DEF written
<1>5. /\ task'.uid = task.uid /\ task'.fin = task.fin
      /\ task'.claimant = task.claimant /\ task'.frozen = task.frozen
      /\ task'.carrier = task.carrier
  BY <1>3, <1>4
<1>6. WholeClaim'
  BY <1>4, <1>5 DEF ClaimInv, WholeClaim
<1>7. rt' = rt /\ OthersIdle(h) /\ OthersLocal(h) /\ pc'[h] = "idle"
  BY MoveAlone DEF InvalidStatus, StoppedStatus, ResetStatus, Finish, OthersLocal,
     CoreInv, TypeInv, TypeOK
<1>8. QED
  BY <1>5, <1>6, <1>7, TaskMove DEF OthersIdle, OthersLocal

\* Evaluating keeps the claim invariant: it plans kinds of the inventory only.
LEMMA EvaluateClaim ==
    ASSUME CoreInv, CoreInv', ClaimInv, NEW h \in Hosts, Evaluate(h)
    PROVE  ClaimInv'
<1> DEFINE t == snap[h]
           owned == Owned(h, Inventory(t.carrier), t.uid)
           todo == IF t.deleting THEN owned
                   ELSE {k \in Inventory(t.carrier) :
                            k \in owned => rt[h][k].rev # DesiredRev(k, t)}
<1>1. OnlyShrinks
  BY SameShrinks DEF Evaluate, CoreInv, TypeInv
<1>2. CASE Retry(h)
  BY <1>2, RetryClaim DEF Evaluate
<1>3. CASE Finish(h) /\ task' = task
  BY <1>1, <1>3, EndClaim
<1>4. CASE /\ pc' = [pc EXCEPT ![h] = "apply"]
           /\ loc' = [loc EXCEPT ![h] = [NoLocals EXCEPT !.todo = todo, !.seen = owned]]
           /\ UNCHANGED <<task, snap, fresh, wake>>
  <2>1. todo \subseteq Inventory(t.carrier)
    BY DEF Owned
  <2> HIDE DEF todo, owned
  <2>2. [NoLocals EXCEPT !.todo = todo, !.seen = owned].todo = todo
    BY DEF NoLocals
  <2>3. /\ OthersIdle(h) /\ OthersLocal(h) /\ pc'[h] = "apply"
        /\ loc'[h].todo = todo /\ snap' = snap
    BY <1>4, <2>2 DEF OthersIdle, OthersLocal, CoreInv, TypeInv, TypeOK
  <2>4. pc[h] \in Holding
    BY DEF Evaluate, Holding, PCs
  <2>5. QED
    BY <1>1, <1>4, <2>1, <2>3, <2>4, HostMove
<1>5. QED
  BY <1>2, <1>3, <1>4 DEF Evaluate

\* Apply creates objects for the incarnation the Host holds, of kinds its plan
\* contains.
LEMMA ApplyClaim ==
    ASSUME CoreInv, CoreInv', ClaimInv, NEW h \in Hosts, Apply(h)
    PROVE  ClaimInv'
<1>1. pc[h] \in Holding /\ pc[h] = "apply"
  BY DEF Apply, Holding, PCs
<1>2. CASE Retry(h) /\ rt' = rt
  BY <1>2, RetryClaim
<1>3. ASSUME NEW k \in Kinds, Operated(h, k)
      PROVE  /\ OthersIdle(h) /\ OthersLocal(h) /\ task' = task
             /\ \/ pc'[h] = "idle"
                \/ pc'[h] = "apply" /\ snap'[h] = snap[h] /\ loc'[h].todo \subseteq loc[h].todo
  <2>1. CASE Finish(h)
    BY <1>3, <2>1 DEF Operated, Finish, OthersIdle, OthersLocal, CoreInv, TypeInv, TypeOK
  <2>2. CASE loc' = [loc EXCEPT ![h].todo = @ \ {k}] /\ UNCHANGED <<pc, snap, fresh>>
    <3>1. loc[h] \in Locals
      BY DEF CoreInv, TypeInv, TypeOK
    <3>2. loc'[h].todo = loc[h].todo \ {k} /\ OthersLocal(h)
      BY <2>2, <3>1 DEF OthersLocal, CoreInv, TypeInv, TypeOK, Locals
    <3>3. QED
      BY <1>1, <1>3, <2>2, <3>2 DEF Operated, OthersIdle
  <2>3. QED
    BY <1>3, <2>1, <2>2 DEF Operated
<1>4. ASSUME NEW k \in Kinds, Operated(h, k), DeleteObject(h, k)
      PROVE  ClaimInv'
  <2>1. OnlyShrinks
    BY <1>4, DeleteShrinks DEF CoreInv, TypeInv
  <2>2. pc'[h] = "apply" => loc'[h].todo \subseteq Inventory(snap'[h].carrier)
    BY <1>1, <1>3, <1>4 DEF ClaimInv, PlannedKinds
  <2>3. QED
    BY <1>1, <1>3, <1>4, <2>1, <2>2, HostMove DEF Holding
<1>5. ASSUME NEW k \in Kinds, Operated(h, k), NextOperation(h, k),
             rt' = [rt EXCEPT ![h][k] = [owner |-> snap[h].uid,
                                         rev |-> DesiredRev(k, snap[h]),
                                         term |-> rt[h][k].term]]
      PROVE  ClaimInv'
  <2>1. /\ OthersIdle(h) /\ OthersLocal(h) /\ task' = task
        /\ \/ pc'[h] = "idle"
           \/ /\ pc'[h] = "apply" /\ snap'[h] = snap[h]
              /\ loc'[h].todo \subseteq loc[h].todo
    BY <1>3, <1>5
  <2>2. /\ snap[h].uid # 0 /\ task.uid = snap[h].uid
        /\ task.fin /\ task.claimant = h /\ task.frozen = snap[h].frozen
    BY <1>1 DEF CoreInv, FenceInv, HeldClaim
  <2>3. k \in Inventory(snap[h].carrier)
    BY <1>1, <1>5 DEF NextOperation, ClaimInv, PlannedKinds
  <2>4. \A g \in Hosts, j \in Kinds :
           rt'[g][j].owner = IF g = h /\ j = k THEN snap[h].uid ELSE rt[g][j].owner
    BY <1>5 DEF CoreInv, TypeInv, TypeOK
  <2>5. WholeClaim' /\ NoRepair' /\ PlannedKinds'
    BY <1>1, <2>1
    DEF ClaimInv, WholeClaim, NoRepair, PlannedKinds, OthersIdle, OthersLocal
  <2>6. TrackedUnderClaim'
    BY <2>1, <2>2, <2>4 DEF ClaimInv, TrackedUnderClaim, UnderClaim
  <2>7. ReleaseReady'
    <3> SUFFICES ASSUME NEW g \in Hosts, pc'[g] = "release",
                        NEW j \in Kinds, j \in Inventory(snap'[g].frozen)
                 PROVE  rt'[g][j].owner # snap'[g].uid
      BY DEF ReleaseReady
    <3>1. g # h
      BY <2>1
    <3>2. QED
      BY <2>1, <2>4, <3>1 DEF ClaimInv, ReleaseReady, OthersIdle
  <2>8. FixedCarrier'
    <3>1. ~MutableCarrier => snap[h].carrier = task.carrier
      BY <1>1 DEF ClaimInv, FixedCarrier
    <3>2. k \in Kinds \ Aux => k = snap[h].carrier
      BY <2>3 DEF Inventory
    <3>3. QED
      BY <2>1, <2>4, <3>1, <3>2 DEF ClaimInv, FixedCarrier, OthersIdle, Holding
  <2>9. QED
    BY <2>5, <2>6, <2>7, <2>8 DEF ClaimInv
<1>6. QED
  BY <1>2, <1>4, <1>5 DEF Apply

\* Cleanup completes only on a list without an object of the frozen inventory.
LEMMA CompleteClaim ==
    ASSUME CoreInv, CoreInv', ClaimInv, NEW h \in Hosts, pc[h] \in Holding,
           Owned(h, Inventory(CleanupCarrier(h, snap[h])), snap[h].uid) = {},
           CleanupComplete(h), rt' = rt
    PROVE  ClaimInv'
<1>1. snap[h].frozen # None /\ snap[h].uid # 0
  BY DEF CoreInv, FenceInv, HeldClaim, ClaimInv, WholeClaim
<1>2. \A k \in Kinds : k \in Inventory(snap[h].frozen) => rt[h][k].owner # snap[h].uid
  BY <1>1 DEF Owned, CleanupCarrier
<1>3. /\ OthersIdle(h) /\ OthersLocal(h) /\ snap' = snap /\ task' = task
      /\ pc'[h] \in {"release", "stoppedStatus"}
  BY DEF CleanupComplete, OthersIdle, OthersLocal, CoreInv, TypeInv, TypeOK
<1>4. OnlyShrinks
  BY SameShrinks DEF CoreInv, TypeInv
<1>5. QED
  BY <1>2, <1>3, <1>4, HostMove

\* Listing and verifying keep the claim invariant.
LEMMA CleanClaim ==
    ASSUME CoreInv, CoreInv', ClaimInv, NEW h \in Hosts, Clean(h) \/ CleanVerify(h)
    PROVE  ClaimInv'
<1>1. pc[h] \in Holding /\ rt' = rt
  BY DEF Clean, CleanVerify, Holding, PCs
<1>2. CASE Retry(h)
  BY <1>1, <1>2, RetryClaim
<1>3. CASE CleanupComplete(h) /\
           Owned(h, Inventory(CleanupCarrier(h, snap[h])), snap[h].uid) = {}
  BY <1>1, <1>3, CompleteClaim
<1>4. CASE /\ pc' = [pc EXCEPT ![h] = "cleanDelete"]
           /\ \E k : loc' = [loc EXCEPT ![h].todo = {k}]
           /\ UNCHANGED <<task, snap, fresh, wake>>
  <2>1. OthersIdle(h) /\ OthersLocal(h) /\ pc'[h] = "cleanDelete" /\ snap' = snap
    BY <1>4 DEF OthersIdle, OthersLocal, CoreInv, TypeInv, TypeOK
  <2>2. OnlyShrinks
    BY <1>1, SameShrinks DEF CoreInv, TypeInv
  <2>3. QED
    BY <1>1, <1>4, <2>1, <2>2, HostMove
<1>5. QED
  BY <1>2, <1>3, <1>4 DEF Clean, CleanVerify

\* The delete of a cleanup keeps the claim invariant.
LEMMA CleanDeleteClaim ==
    ASSUME CoreInv, CoreInv', ClaimInv, NEW h \in Hosts, CleanDelete(h)
    PROVE  ClaimInv'
<1>1. PICK k \in loc[h].todo : DeleteObject(h, k)
  BY DEF CleanDelete
<1>2. k \in Kinds
  BY <1>1 DEF CoreInv, TypeInv, TypeOK, Locals
<1>3. OnlyShrinks
  BY <1>1, <1>2, DeleteShrinks DEF CoreInv, TypeInv
<1>4. /\ OthersIdle(h) /\ OthersLocal(h) /\ pc'[h] = "cleanVerify"
      /\ snap' = snap /\ task' = task /\ pc[h] \in Holding
  BY DEF CleanDelete, OthersIdle, OthersLocal, Holding, PCs, CoreInv, TypeInv, TypeOK
<1>5. QED
  BY <1>3, <1>4, HostMove

\* At release no Runtime holds an object cleanup is sure to know.
LEMMA NothingLeft ==
    ASSUME CoreInv, ClaimInv, NEW h \in Hosts, pc[h] = "release",
           NEW g \in Hosts, NEW k \in Kinds, Tracked(k)
    PROVE  rt[g][k].owner = 0
<1>1. /\ snap[h].uid = task.uid /\ task.claimant = h /\ task.frozen = snap[h].frozen
      /\ task.fin
  BY DEF CoreInv, FenceInv, HeldClaim, Holding, PCs
<1>2. SUFFICES ASSUME rt[g][k].owner # 0 PROVE FALSE
  OBVIOUS
<1>3. g = h /\ rt[g][k].owner = snap[h].uid
  BY <1>1, <1>2 DEF ClaimInv, TrackedUnderClaim, UnderClaim
<1>4. k \in Inventory(snap[h].frozen)
  BY <1>1, <1>2 DEF ClaimInv, FixedCarrier, Tracked, Inventory
<1>5. QED
  BY <1>3, <1>4 DEF ClaimInv, ReleaseReady

\* A release keeps the claim invariant.
LEMMA ReleaseClaim ==
    ASSUME CoreInv, CoreInv', ClaimInv, NEW h \in Hosts, Release(h)
    PROVE  ClaimInv'
<1>1. CASE Patched(h, NoTask) /\ Finish(h)
  <2>1. task' = NoTask /\ rt' = rt /\ pc[h] = "release"
    BY <1>1 DEF Release, Patched
  <2>2. ~task'.fin /\ task'.frozen = None
    BY <2>1 DEF NoTask
  <2>3. WholeClaim'
    BY <2>1, <2>2 DEF WholeClaim
  <2>4. OthersIdle(h) /\ OthersLocal(h) /\ pc'[h] = "idle"
    BY <1>1 DEF Finish, OthersIdle, OthersLocal, CoreInv, TypeInv, TypeOK
  <2>5. NoRepair' /\ PlannedKinds' /\ ReleaseReady'
    BY <2>1, <2>4
    DEF ClaimInv, NoRepair, PlannedKinds, ReleaseReady, OthersIdle, OthersLocal
  <2>6. TrackedUnderClaim'
    BY <2>1, NothingLeft DEF TrackedUnderClaim, UnderClaim
  <2>7. FixedCarrier'
    <3>1. \A g \in Hosts : pc'[g] \notin Holding
      BY <2>2 DEF CoreInv, FenceInv, HeldClaim
    <3>2. ~MutableCarrier => \A g \in Hosts, k \in Kinds : rt'[g][k].owner = 0
      BY <2>1, NothingLeft DEF Tracked
    <3>3. QED
      BY <2>2, <3>1, <3>2 DEF FixedCarrier
  <2>8. QED
    BY <2>3, <2>5, <2>6, <2>7 DEF ClaimInv
<1>2. CASE Retry(h)
  BY <1>2, RetryClaim DEF Release
<1>3. QED
  BY <1>1, <1>2 DEF Release

\* A write of a user keeps the claim invariant.
LEMMA UserClaim ==
    ASSUME CoreInv, CoreInv', ClaimInv, CreateTask \/ EditSpec \/ DeleteTask
    PROVE  ClaimInv'
<1>1. rt' = rt /\ pc' = pc /\ snap' = snap /\ loc' = loc /\ task \in TaskRecord
  BY DEF CreateTask, EditSpec, DeleteTask, UserWrote, CoreInv, TypeInv, TypeOK
<1>2. CASE CreateTask
  <2>1. PICK r \in Runtimes, c \in Carriers, v \in BOOLEAN, s \in BOOLEAN :
           task' = NewTask(lastUID + 1, r, c, v, s)
    BY <1>2 DEF CreateTask, UserWrote
  <2>2. task'.carrier = c /\ ~task'.fin /\ task'.frozen = None /\ ~task.fin
    BY <1>2, <2>1 DEF CreateTask, NewTask, NoTask
  <2>3. WholeClaim'
    BY <2>2, ConstantsAssumption DEF WholeClaim
  <2>4. QED
    BY <1>1, <2>2, <2>3, TaskMove
<1>3. CASE EditSpec
  <2>1. PICK r \in Runtimes, c \in Carriers, v \in BOOLEAN, s \in BOOLEAN :
           /\ c = task.carrier \/ MutableCarrier
           /\ task' = [[task EXCEPT !.runtime = r, !.carrier = c, !.valid = v, !.suspended = s]
                          EXCEPT !.gen = @ + 1]
    BY <1>3 DEF EditSpec, UserWrote
  <2>2. /\ task'.uid = task.uid /\ task'.fin = task.fin
        /\ task'.claimant = task.claimant /\ task'.frozen = task.frozen
        /\ task'.carrier = c
    BY <1>1, <2>1 DEF TaskRecord
  <2>3. WholeClaim'
    BY <2>2, ConstantsAssumption DEF ClaimInv, WholeClaim
  <2>4. QED
    BY <1>1, <2>1, <2>2, <2>3, TaskMove
<1>4. CASE DeleteTask
  <2>1. CASE task.fin
    <3>1. task' = [task EXCEPT !.deleting = TRUE, !.gen = @ + 1]
      BY <1>4, <2>1 DEF DeleteTask, UserWrote
    <3>2. /\ task'.uid = task.uid /\ task'.fin = task.fin
          /\ task'.claimant = task.claimant /\ task'.frozen = task.frozen
          /\ task'.carrier = task.carrier
      BY <1>1, <3>1 DEF TaskRecord
    <3>3. WholeClaim'
      BY <1>4, <3>2 DEF DeleteTask, ClaimInv, WholeClaim
    <3>4. QED
      BY <1>1, <3>2, <3>3, TaskMove
  <2>2. CASE ~task.fin
    <3>1. task' = NoTask
      BY <1>4, <2>2 DEF DeleteTask, UserWrote
    <3>2. ~task'.fin /\ task'.frozen = None
      BY <3>1 DEF NoTask
    <3>3. WholeClaim'
      BY <3>1, <3>2 DEF WholeClaim
    <3>4. QED
      BY <1>1, <2>2, <3>2, <3>3, TaskMove
  <2>3. QED
    BY <2>1, <2>2
<1>5. QED
  BY <1>2, <1>3, <1>4

\* Losing objects, or their desired content, breaks no claim.
LEMMA RuntimeClaim ==
    ASSUME CoreInv, CoreInv', ClaimInv, OnlyShrinks, UNCHANGED <<task, pc, snap, loc>>
    PROVE  ClaimInv'
<1>1. WholeClaim' /\ NoRepair' /\ PlannedKinds'
  BY DEF ClaimInv, WholeClaim, NoRepair, PlannedKinds
<1>2. TrackedUnderClaim' /\ FixedCarrier'
  BY DEF ClaimInv, TrackedUnderClaim, UnderClaim, FixedCarrier, OnlyShrinks
<1>3. ReleaseReady'
  BY DEF ClaimInv, ReleaseReady, OnlyShrinks, CoreInv, FenceInv, HeldClaim, Holding, PCs
<1>4. QED
  BY <1>1, <1>2, <1>3 DEF ClaimInv

\* Garbage collection and drift make no object.
LEMMA EnvironmentShrinks ==
    ASSUME CoreInv, NEW h \in Hosts, NEW k \in Kinds, Collect(h, k) \/ Drift(h, k)
    PROVE  OnlyShrinks
<1>1. CASE Collect(h, k)
  BY <1>1 DEF Collect, OnlyShrinks, Absent, CoreInv, TypeInv, TypeOK
<1>2. CASE DeleteObject(h, k)
  BY <1>2, DeleteShrinks DEF CoreInv, TypeInv
<1>3. CASE rt' = [rt EXCEPT ![h][k].rev = 0]
  BY <1>3 DEF OnlyShrinks, CoreInv, TypeInv, TypeOK, Object
<1>4. QED
  BY <1>1, <1>2, <1>3 DEF Drift

\* ClaimInv is inductive relative to CoreInv.
LEMMA ClaimStepInv == CoreInv /\ CoreInv' /\ ClaimInv /\ [Next]_vars => ClaimInv'
<1> SUFFICES ASSUME CoreInv, CoreInv', ClaimInv, [Next]_vars PROVE ClaimInv'
  OBVIOUS
<1>1. ASSUME NEW h \in Hosts, HostStep(h) PROVE ClaimInv'
  <2>1. ~Adopt(h) /\ ~Freeze(h)
    BY DEF Adopt, Freeze, ClaimInv, NoRepair
  <2>2. QED
    BY <1>1, <2>1, StartClaim, ClaimClaim, RegetClaim, StatusClaim, EvaluateClaim,
       ApplyClaim, CleanClaim, CleanDeleteClaim, ReleaseClaim
    DEF HostStep
<1>2. ASSUME NEW h \in Hosts, Abort(h) PROVE ClaimInv'
  BY <1>2, RetryClaim DEF Abort
<1>3. CASE CreateTask \/ EditSpec \/ DeleteTask
  BY <1>3, UserClaim
<1>4. ASSUME NEW h \in Hosts, NEW k \in Kinds, Collect(h, k) \/ Drift(h, k) PROVE ClaimInv'
  BY <1>4, EnvironmentShrinks, RuntimeClaim DEF Collect, Drift
<1>5. CASE UNCHANGED vars \/ \E h \in Hosts : Resync(h)
  BY <1>5, SameShrinks, RuntimeClaim DEF vars, Resync, CoreInv, TypeInv
<1>6. QED
  BY <1>1, <1>2, <1>3, <1>4, <1>5 DEF Next

\* Without an old claim to repair, the initial state is empty.
LEMMA ClaimInit == ~Legacy /\ Init => ClaimInv
<1> SUFFICES ASSUME ~Legacy, Init PROVE ClaimInv
  OBVIOUS
<1>1. task = NoTask /\ rt = [h \in Hosts |-> [k \in Kinds |-> Absent]]
  BY DEF Init, NewInit, LegacyInit
<1>2. WholeClaim
  BY <1>1 DEF WholeClaim, NoTask
<1>3. TrackedUnderClaim /\ FixedCarrier
  BY <1>1 DEF TrackedUnderClaim, UnderClaim, FixedCarrier, Absent, NoTask, Init, Holding
<1>4. NoRepair /\ PlannedKinds /\ ReleaseReady
  BY DEF Init, NoRepair, PlannedKinds, ReleaseReady
<1>5. QED
  BY <1>2, <1>3, <1>4 DEF ClaimInv

\* Core and claim invariant hold in every reachable state without an old claim.
LEMMA ClaimInvariant == ASSUME ~Legacy PROVE Spec => [](CoreInv /\ ClaimInv)
<1>1. Init => CoreInv /\ ClaimInv
  BY CoreInit, ClaimInit
<1>2. CoreInv /\ ClaimInv /\ [Next]_vars => (CoreInv /\ ClaimInv)'
  BY CoreStep, ClaimStepInv
<1>3. QED
  BY <1>1, <1>2, PTL DEF Spec

\* ConfigMap, Secret and Service never outlive the claim, even when users edit
\* the carrier at any moment.
THEOREM NoAuxOrphan == ASSUME ~Legacy PROVE Spec => []AuxUnderClaim
<1>1. ClaimInv => AuxUnderClaim
  BY DEF ClaimInv, TrackedUnderClaim, Tracked, AuxUnderClaim, Kinds
<1>2. QED
  BY <1>1, ClaimInvariant, PTL

\* With a carrier users leave alone, no object at all outlives the claim.
THEOREM NoOrphanEver ==
    ASSUME ~Legacy, ~MutableCarrier
    PROVE  Spec => []NoOrphan
<1>1. ClaimInv => NoOrphan
  BY DEF ClaimInv, TrackedUnderClaim, Tracked, NoOrphan
<1>2. QED
  BY <1>1, ClaimInvariant, PTL

\* Finalizer and claim are given up only by a release, and only when nothing
\* of the incarnation is left in any Runtime.
THEOREM ReleasedWhenAbsent ==
    ASSUME ~Legacy, ~MutableCarrier
    PROVE  Spec => ReleaseAfterAbsence
<1>1. CoreInv /\ ClaimInv /\ [Next]_vars => [ReleaseStep]_vars
  <2> SUFFICES ASSUME CoreInv, ClaimInv, Next PROVE ReleaseStep \/ UNCHANGED vars
    OBVIOUS
  <2> USE DEF ReleaseStep
  <2>1. task \in TaskRecord
    BY DEF CoreInv, TypeInv, TypeOK
  <2>2. CASE task'.uid = task.uid
    BY <2>2
  <2>3. ASSUME NEW h \in Hosts, Release(h) PROVE ReleaseStep
    <3>1. task.fin /\ task.uid # 0
      BY <2>3 DEF Release, CoreInv, FenceInv, HeldClaim, Holding, PCs
    <3>2. \A g \in Hosts, k \in Kinds : rt[g][k].owner = 0
      BY <2>3, NothingLeft DEF Release, Tracked
    <3>3. QED
      BY <3>1, <3>2
  <2>4. ASSUME NEW h \in Hosts, HostStep(h), ~Release(h) PROVE task'.uid = task.uid
    <3>1. CASE InvalidStatus(h) \/ StoppedStatus(h) \/ ResetStatus(h)
      <4>1. PICK phase : WriteStatus(h, phase)
        BY <3>1 DEF InvalidStatus, StoppedStatus, ResetStatus
      <4> DEFINE written ==
              [task EXCEPT !.phase = IF phase = snap[h].phase THEN @ ELSE phase,
                           !.obs = IF snap[h].gen = snap[h].obs THEN @ ELSE snap[h].gen]
      <4>2. written.uid = task.uid
        BY <2>1 DEF TaskRecord
      <4>3. task' \in {task, written}
        BY <4>1 DEF WriteStatus, ObservedGeneration
      <4>4. QED
        BY <4>2, <4>3
    <3>2. CASE Claim(h)
      <4> DEFINE t == [snap[h] EXCEPT !.fin = TRUE, !.claimant = h,
                                      !.frozen = IF @ = None THEN snap[h].carrier ELSE @]
      <4>1. CASE Patched(h, t)
        <5>1. snap[h] = task /\ task' = t
          BY <4>1 DEF Patched, CoreInv, FenceInv, FreshCopy
        <5>2. t.uid = snap[h].uid
          BY <2>1, <5>1 DEF TaskRecord
        <5>3. QED
          BY <5>1, <5>2
      <4>2. CASE Retry(h)
        BY <4>2 DEF Retry
      <4>3. QED
        BY <3>2, <4>1, <4>2 DEF Claim
    <3>3. ~Adopt(h) /\ ~Freeze(h)
      BY DEF Adopt, Freeze, ClaimInv, NoRepair
    <3>4. QED
      BY <2>4, <3>1, <3>2, <3>3 DEF HostStep, Start, Reget, Evaluate, Apply, Operated,
         Retry, Clean, CleanDelete, CleanVerify, CleanupComplete
  <2>5. CASE CreateTask \/ EditSpec \/ DeleteTask
    <3>1. CASE CreateTask
      BY <3>1 DEF CreateTask, NoTask
    <3>2. CASE EditSpec
      BY <2>1, <3>2 DEF EditSpec, UserWrote, TaskRecord
    <3>3. CASE DeleteTask
      BY <2>1, <3>3 DEF DeleteTask, UserWrote, TaskRecord
    <3>4. QED
      BY <2>5, <3>1, <3>2, <3>3
  <2>6. QED
    BY <2>2, <2>3, <2>4, <2>5 DEF Next, Abort, Retry, Resync, Collect, Drift
<1>2. QED
  BY <1>1, ClaimInvariant, PTL DEF Spec, ReleaseAfterAbsence


----------------------------------------------------------------------------
(* Stopped is only reported when nothing exists.                            *)

\* All objects are in the Runtime of the Host that holds the Task, for the
\* incarnation it works on, and of a kind cleanup knows.
LEMMA HeldObject ==
    ASSUME CoreInv, ClaimInv, ~MutableCarrier, NEW h \in Hosts, pc[h] \in Holding,
           NEW g \in Hosts, NEW k \in Kinds, rt[g][k].owner # 0
    PROVE  /\ g = h
           /\ snap[h].uid # 0
           /\ rt[g][k].owner = snap[h].uid
           /\ k \in Inventory(CleanupCarrier(h, snap[h]))
<1>1. /\ snap[h].uid # 0 /\ task.uid = snap[h].uid
      /\ task.fin /\ task.claimant = h /\ task.frozen = snap[h].frozen
  BY DEF CoreInv, FenceInv, HeldClaim
<1>2. g = h /\ rt[g][k].owner = snap[h].uid
  BY <1>1 DEF ClaimInv, TrackedUnderClaim, Tracked, UnderClaim
<1>3. CleanupCarrier(h, snap[h]) = task.carrier
  BY <1>1 DEF CleanupCarrier, ClaimInv, WholeClaim, FixedCarrier
<1>4. k \in Aux \/ k = task.carrier
  BY DEF ClaimInv, FixedCarrier
<1>5. QED
  BY <1>1, <1>2, <1>3, <1>4 DEF Inventory

\* A list of the inventory without a hit means that nothing exists.
LEMMA EmptyList ==
    ASSUME CoreInv, ClaimInv, ~MutableCarrier, NEW h \in Hosts, pc[h] \in Holding,
           Owned(h, Inventory(CleanupCarrier(h, snap[h])), snap[h].uid) = {}
    PROVE  Nothing(h)
  BY HeldObject DEF Owned, Nothing

\* A step of h that creates nothing and leaves the stored Task alone.
LEMMA WorkReport ==
    ASSUME CoreInv, ReportInv, NEW h \in Hosts, OthersIdle(h), OnlyShrinks, task' = task,
           Admission(h)'
    PROVE  ReportInv'
<1>1. StoppedMeansGone'
  BY DEF ReportInv, StoppedMeansGone, OnlyShrinks
<1>2. ASSUME NEW g \in Hosts \ {h} PROVE Admission(g)'
  BY <1>2 DEF ReportInv, Admission, Nothing, OthersIdle, OnlyShrinks
<1>3. QED
  BY <1>1, <1>2 DEF ReportInv

\* A reconcile that ends and leaves the stored Task alone.
LEMMA EndReport ==
    ASSUME CoreInv, ReportInv, NEW h \in Hosts, Finish(h), OnlyShrinks, task' = task
    PROVE  ReportInv'
<1>1. OthersIdle(h) /\ pc'[h] = "idle"
  BY MoveAlone DEF CoreInv, TypeInv
<1>2. Admission(h)'
  BY <1>1 DEF Admission
<1>3. QED
  BY <1>1, <1>2, WorkReport

\* A retry.
LEMMA RetryReport ==
    ASSUME CoreInv, ReportInv, NEW h \in Hosts, Retry(h), rt' = rt
    PROVE  ReportInv'
  BY EndReport, SameShrinks DEF Retry, CoreInv, TypeInv

\* A write of the stored Task that does not report it Stopped.
LEMMA WriteReport ==
    ASSUME CoreInv, ReportInv, rt' = rt,
           \A g \in Hosts : pc'[g] = "idle" \/ (pc'[g] = pc[g] /\ snap'[g] = snap[g]),
           \/ task'.phase # "Stopped"
           \/ task'.phase = task.phase /\ task'.uid = task.uid
    PROVE  ReportInv'
<1>1. StoppedMeansGone'
  BY DEF ReportInv, StoppedMeansGone
<1>2. ASSUME NEW g \in Hosts PROVE Admission(g)'
  BY DEF ReportInv, Admission, Nothing
<1>3. QED
  BY <1>1, <1>2 DEF ReportInv

\* What a read leads to.
LEMMA ReadReport ==
    ASSUME NEW h \in Hosts, NEW t \in TaskRecord
    PROVE  /\ Admitted(t) \notin {"reget", "stoppedStatus", "apply"}
           /\ Admitted(t) = "evaluate" => t.phase # "Stopped"
           /\ FirstCall(h, t) \notin {"reget", "stoppedStatus", "apply"}
           /\ FirstCall(h, t) = "evaluate" => t.phase # "Stopped" /\ ~t.deleting
<1>1. /\ Admitted(t) \notin {"reget", "stoppedStatus", "apply"}
      /\ Admitted(t) = "evaluate" => t.phase # "Stopped"
  BY DEF Admitted
<1>2. t.deleting \in BOOLEAN
  BY DEF TaskRecord
<1>3. /\ Classify(h, t) \notin {"reget", "stoppedStatus", "apply"}
      /\ Classify(h, t) = "evaluate" => t.phase # "Stopped" /\ ~t.deleting
  <2>1. CASE t.deleting
    BY <2>1 DEF Classify
  <2>2. CASE ~t.deleting /\ ~CanRealize(h, t)
    BY <2>2 DEF Classify
  <2>3. CASE ~t.deleting /\ CanRealize(h, t)
    BY <1>1, <2>3 DEF Classify, ClaimedCall
  <2>4. QED
    BY <1>2, <2>1, <2>2, <2>3
<1>4. QED
  BY <1>1, <1>3 DEF FirstCall

\* A Host that starts realizes only a Task it sees running and alive.
LEMMA StartReport ==
    ASSUME CoreInv, ReportInv, NEW h \in Hosts, Start(h)
    PROVE  ReportInv'
<1> DEFINE call == IF task = NoTask THEN "idle" ELSE FirstCall(h, task)
<1>1. /\ call \notin {"reget", "stoppedStatus", "apply"}
      /\ call = "evaluate" => task.phase # "Stopped" /\ ~task.deleting
  BY ReadReport DEF CoreInv, TypeInv, TypeOK
<1>2. Continue(h, task, call, task.deleting) /\ task' = task /\ rt' = rt
  BY DEF Start
<1> HIDE DEF call
<1>3. /\ OthersIdle(h) /\ pc'[h] = call
      /\ snap'[h] = IF call = "idle" THEN NoTask ELSE task
  BY <1>2, MoveAlone DEF CoreInv, TypeInv
<1>4. Admission(h)'
  BY <1>1, <1>2, <1>3 DEF Admission
<1>5. OnlyShrinks
  BY <1>2, SameShrinks DEF CoreInv, TypeInv
<1>6. QED
  BY <1>2, <1>3, <1>4, <1>5, WorkReport

\* The Get after a claim finds nothing realized yet, whatever the Task became.
LEMMA RegetReport ==
    ASSUME CoreInv, ReportInv, NEW h \in Hosts, Reget(h)
    PROVE  ReportInv'
<1> DEFINE call == IF task = NoTask THEN "idle" ELSE Admitted(task)
<1>1. /\ call \notin {"reget", "stoppedStatus", "apply"}
      /\ call = "evaluate" => task.phase # "Stopped"
  BY ReadReport DEF CoreInv, TypeInv, TypeOK
<1>2. Continue(h, task, call, FALSE) /\ task' = task /\ rt' = rt
  BY DEF Reget
<1> HIDE DEF call
<1>3. /\ OthersIdle(h) /\ pc'[h] = call
      /\ snap'[h] = IF call = "idle" THEN NoTask ELSE task
  BY <1>2, MoveAlone DEF CoreInv, TypeInv
<1>4. Nothing(h)
  BY DEF Reget, ReportInv, Admission
<1>5. Admission(h)'
  BY <1>1, <1>2, <1>3, <1>4 DEF Admission, Nothing
<1>6. OnlyShrinks
  BY <1>2, SameShrinks DEF CoreInv, TypeInv
<1>7. QED
  BY <1>2, <1>3, <1>5, <1>6, WorkReport

\* A claim is made of a Task without finalizer, which owns nothing.
LEMMA ClaimReport ==
    ASSUME CoreInv, ClaimInv, ReportInv, ~MutableCarrier, NEW h \in Hosts, Claim(h)
    PROVE  ReportInv'
<1> DEFINE t == [snap[h] EXCEPT !.fin = TRUE, !.claimant = h,
                                !.frozen = IF @ = None THEN snap[h].carrier ELSE @]
<1>1. CASE Patched(h, t) /\ Continue(h, t, "reget", FALSE)
  <2>1. snap[h] = task
    BY <1>1 DEF Patched, CoreInv, FenceInv, FreshCopy
  <2>2. ~task.fin
    BY <2>1 DEF Claim, CoreInv, FenceInv, MissingClaim
  <2>3. \A g \in Hosts : Nothing(g)
    BY <2>2 DEF ClaimInv, TrackedUnderClaim, Tracked, UnderClaim, Nothing
  <2>4. \A g \in Hosts : Nothing(g)'
    BY <2>3 DEF Claim, Nothing
  <2>5. \A g \in Hosts : pc[g] \notin Holding
    BY <2>2 DEF CoreInv, FenceInv, HeldClaim
  <2>6. OthersIdle(h) /\ pc'[h] = "reget"
    BY <1>1, MoveAlone DEF CoreInv, TypeInv
  <2>7. StoppedMeansGone'
    BY <2>4 DEF StoppedMeansGone, Nothing
  <2>8. ASSUME NEW g \in Hosts PROVE Admission(g)'
    <3>1. CASE g = h
      BY <2>4, <2>6, <3>1 DEF Admission
    <3>2. CASE g # h
      BY <2>5, <2>6, <3>2 DEF Admission, OthersIdle, Holding, PCs
    <3>3. QED
      BY <3>1, <3>2
  <2>9. QED
    BY <2>7, <2>8 DEF ReportInv
<1>2. CASE Retry(h)
  BY <1>2, RetryReport DEF Claim
<1>3. QED
  BY <1>1, <1>2 DEF Claim

\* The report Stopped is written when nothing exists, by the only Host that
\* could create something.
LEMMA StatusReport ==
    ASSUME CoreInv, ClaimInv, ReportInv, ~MutableCarrier, NEW h \in Hosts,
           InvalidStatus(h) \/ StoppedStatus(h) \/ ResetStatus(h)
    PROVE  ReportInv'
<1>1. PICK phase : /\ WriteStatus(h, phase)
                   /\ phase = "Stopped" => phase = snap[h].phase \/ StoppedStatus(h)
  BY DEF InvalidStatus, StoppedStatus, ResetStatus
<1> DEFINE written == [task EXCEPT !.phase = IF phase = snap[h].phase THEN @ ELSE phase,
                                   !.obs = IF snap[h].gen = snap[h].obs THEN @ ELSE snap[h].gen]
<1>2. task \in TaskRecord
  BY DEF CoreInv, TypeInv, TypeOK
<1>3. /\ written.uid = task.uid
      /\ written.phase = IF phase = snap[h].phase THEN task.phase ELSE phase
  BY <1>2 DEF TaskRecord
<1>4. task' \in {task, written}
  BY <1>1 DEF WriteStatus, ObservedGeneration
<1> HIDE DEF written
<1>5. /\ task'.uid = task.uid
      /\ task'.phase # "Stopped" \/ task'.phase = task.phase \/ StoppedStatus(h)
  BY <1>1, <1>3, <1>4
<1>6. rt' = rt /\ OthersIdle(h) /\ pc'[h] = "idle" /\ pc[h] \in Holding
  BY MoveAlone DEF InvalidStatus, StoppedStatus, ResetStatus, CoreInv, TypeInv, Holding, PCs
<1>7. CASE task'.phase # "Stopped" \/ task'.phase = task.phase
  <2>1. \A g \in Hosts : pc'[g] = "idle" \/ (pc'[g] = pc[g] /\ snap'[g] = snap[g])
    BY <1>6 DEF OthersIdle
  <2>2. QED
    BY <1>5, <1>6, <1>7, <2>1, WriteReport
<1>8. CASE StoppedStatus(h)
  <2>1. Nothing(h)
    BY <1>8 DEF StoppedStatus, ReportInv, Admission
  <2>2. \A g \in Hosts, k \in Kinds : rt[g][k].owner = 0
    BY <1>6, <2>1, HeldObject DEF Nothing
  <2>3. StoppedMeansGone'
    BY <1>6, <2>2 DEF StoppedMeansGone
  <2>4. ASSUME NEW g \in Hosts PROVE Admission(g)'
    <3>1. CASE g = h
      BY <1>6, <3>1 DEF Admission
    <3>2. CASE g # h
      <4>1. pc[g] \notin Holding
        BY <1>6, <3>2 DEF CoreInv, FenceInv, HeldClaim
      <4>2. QED
        BY <1>6, <3>2, <4>1 DEF Admission, OthersIdle, Holding, PCs
    <3>3. QED
      BY <3>1, <3>2
  <2>5. QED
    BY <2>3, <2>4 DEF ReportInv
<1>9. QED
  BY <1>5, <1>7, <1>8

\* A plan is made of a running Task; one that is being deleted has nothing left
\* to plan.
LEMMA EvaluateReport ==
    ASSUME CoreInv, ReportInv, NEW h \in Hosts, Evaluate(h)
    PROVE  ReportInv'
<1> DEFINE t == snap[h]
           owned == Owned(h, Inventory(t.carrier), t.uid)
           todo == IF t.deleting THEN owned
                   ELSE {k \in Inventory(t.carrier) :
                            k \in owned => rt[h][k].rev # DesiredRev(k, t)}
<1>1. OnlyShrinks
  BY SameShrinks DEF Evaluate, CoreInv, TypeInv
<1>2. CASE Retry(h)
  BY <1>2, RetryReport DEF Evaluate
<1>3. CASE Finish(h) /\ task' = task
  BY <1>1, <1>3, EndReport
<1>4. CASE /\ pc' = [pc EXCEPT ![h] = "apply"] /\ todo # {}
           /\ t.carrier \in Supported
           /\ UNCHANGED <<task, snap>>
  <2>1. pc[h] = "evaluate" /\ task.phase # "Stopped"
    BY DEF Evaluate, ReportInv, Admission
  <2>2. Inventory(t.carrier) \subseteq Kinds
    BY <1>4 DEF Inventory, Kinds
  <2>3. ~t.deleting
    <3>1. SUFFICES ASSUME t.deleting PROVE FALSE
      OBVIOUS
    <3>2. Nothing(h)
      BY <2>1, <3>1 DEF ReportInv, Admission
    <3>3. owned = {}
      BY <2>2, <3>2 DEF Owned, Nothing
    <3>4. QED
      BY <1>4, <3>1, <3>3
  <2>4. OthersIdle(h) /\ pc'[h] = "apply" /\ snap'[h] = t
    BY <1>4 DEF OthersIdle, CoreInv, TypeInv, TypeOK
  <2> HIDE DEF t, todo, owned
  <2>5. Admission(h)'
    BY <1>4, <2>1, <2>3, <2>4 DEF Admission
  <2>6. QED
    BY <1>1, <1>4, <2>4, <2>5, WorkReport
<1>5. QED
  BY <1>2, <1>3, <1>4 DEF Evaluate

\* What an operation of a plan does to the Host's own state.
LEMMA OperatedMove ==
    ASSUME CoreInv, NEW h \in Hosts, pc[h] = "apply", NEW k \in Kinds, Operated(h, k)
    PROVE  /\ OthersIdle(h) /\ OthersLocal(h) /\ task' = task
           /\ \/ pc'[h] = "idle"
              \/ /\ pc'[h] = "apply" /\ snap'[h] = snap[h]
                 /\ loc'[h].todo = loc[h].todo \ {k}
<1>1. CASE Finish(h)
  BY <1>1 DEF Operated, Finish, OthersIdle, OthersLocal, CoreInv, TypeInv, TypeOK
<1>2. CASE loc' = [loc EXCEPT ![h].todo = @ \ {k}] /\ UNCHANGED <<pc, snap, fresh>>
  <2>1. loc[h] \in Locals
    BY DEF CoreInv, TypeInv, TypeOK
  <2>2. loc'[h].todo = loc[h].todo \ {k} /\ OthersLocal(h)
    BY <1>2, <2>1 DEF OthersLocal, CoreInv, TypeInv, TypeOK, Locals
  <2>3. QED
    BY <1>2, <2>2 DEF Operated, OthersIdle
<1>3. QED
  BY <1>1, <1>2 DEF Operated

\* Objects are created for a Task that is not reported Stopped.
LEMMA ApplyReport ==
    ASSUME CoreInv, ReportInv, NEW h \in Hosts, Apply(h)
    PROVE  ReportInv'
<1>1. pc[h] = "apply" /\ task.phase # "Stopped" /\ ~snap[h].deleting
  BY DEF Apply, ReportInv, Admission
<1>2. CASE Retry(h) /\ rt' = rt
  BY <1>2, RetryReport
<1>3. ASSUME NEW k \in Kinds, Operated(h, k), \A g \in Hosts \ {h} : rt'[g] = rt[g]
      PROVE  ReportInv'
  <2>1. /\ OthersIdle(h) /\ task' = task
        /\ pc'[h] = "idle" \/ (pc'[h] = "apply" /\ snap'[h] = snap[h])
    BY <1>1, <1>3, OperatedMove
  <2>2. StoppedMeansGone'
    BY <1>1, <2>1 DEF StoppedMeansGone
  <2>3. ASSUME NEW g \in Hosts PROVE Admission(g)'
    <3>1. CASE g = h
      BY <1>1, <2>1, <3>1 DEF Admission
    <3>2. CASE g # h
      BY <1>3, <2>1, <3>2 DEF ReportInv, Admission, Nothing, OthersIdle
    <3>3. QED
      BY <3>1, <3>2
  <2>4. QED
    BY <2>2, <2>3 DEF ReportInv
<1>4. ASSUME NEW k \in Kinds, DeleteObject(h, k)
      PROVE  \A g \in Hosts \ {h} : rt'[g] = rt[g]
  BY <1>4 DEF DeleteObject, CoreInv, TypeInv, TypeOK
<1>5. ASSUME NEW k \in Kinds, NEW o, rt' = [rt EXCEPT ![h][k] = o]
      PROVE  \A g \in Hosts \ {h} : rt'[g] = rt[g]
  BY <1>5 DEF CoreInv, TypeInv, TypeOK
<1>6. QED
  BY <1>2, <1>3, <1>4, <1>5 DEF Apply

\* Cleanup is complete when its list is empty.
LEMMA CleanReport ==
    ASSUME CoreInv, ClaimInv, ReportInv, ~MutableCarrier, NEW h \in Hosts,
           Clean(h) \/ CleanVerify(h)
    PROVE  ReportInv'
<1>1. pc[h] \in Holding /\ rt' = rt /\ OnlyShrinks
  BY SameShrinks DEF Clean, CleanVerify, Holding, PCs, CoreInv, TypeInv
<1>2. CASE Retry(h)
  BY <1>1, <1>2, RetryReport
<1>3. CASE CleanupComplete(h) /\
           Owned(h, Inventory(CleanupCarrier(h, snap[h])), snap[h].uid) = {}
  <2>1. OthersIdle(h) /\ task' = task /\ pc'[h] \in {"release", "stoppedStatus"}
    BY <1>3 DEF CleanupComplete, OthersIdle, CoreInv, TypeInv, TypeOK
  <2>2. Nothing(h)'
    BY <1>1, <1>3, EmptyList DEF Nothing
  <2>3. Admission(h)'
    BY <2>1, <2>2 DEF Admission
  <2>4. QED
    BY <1>1, <2>1, <2>3, WorkReport
<1>4. CASE pc' = [pc EXCEPT ![h] = "cleanDelete"] /\ UNCHANGED <<task, snap>>
  <2>1. OthersIdle(h) /\ pc'[h] = "cleanDelete"
    BY <1>4 DEF OthersIdle, CoreInv, TypeInv, TypeOK
  <2>2. Admission(h)'
    BY <2>1 DEF Admission
  <2>3. QED
    BY <1>1, <1>4, <2>1, <2>2, WorkReport
<1>5. QED
  BY <1>2, <1>3, <1>4 DEF Clean, CleanVerify

\* The delete of a cleanup creates nothing.
LEMMA CleanDeleteReport ==
    ASSUME CoreInv, ReportInv, NEW h \in Hosts, CleanDelete(h)
    PROVE  ReportInv'
<1>1. PICK k \in loc[h].todo : DeleteObject(h, k)
  BY DEF CleanDelete
<1>2. k \in Kinds
  BY <1>1 DEF CoreInv, TypeInv, TypeOK, Locals
<1>3. OnlyShrinks
  BY <1>1, <1>2, DeleteShrinks DEF CoreInv, TypeInv
<1>4. OthersIdle(h) /\ pc'[h] = "cleanVerify" /\ task' = task
  BY DEF CleanDelete, OthersIdle, CoreInv, TypeInv, TypeOK
<1>5. Admission(h)'
  BY <1>4 DEF Admission
<1>6. QED
  BY <1>3, <1>4, <1>5, WorkReport

\* A released Task is not reported Stopped, nor is a new one.
LEMMA ReleaseReport ==
    ASSUME CoreInv, ReportInv, NEW h \in Hosts, Release(h)
    PROVE  ReportInv'
<1>1. CASE Patched(h, NoTask) /\ Finish(h)
  <2>1. task'.phase # "Stopped" /\ rt' = rt
    BY <1>1 DEF Release, Patched, NoTask
  <2>2. \A g \in Hosts : pc'[g] = "idle" \/ (pc'[g] = pc[g] /\ snap'[g] = snap[g])
    BY <1>1, MoveAlone DEF OthersIdle, CoreInv, TypeInv
  <2>3. QED
    BY <2>1, <2>2, WriteReport
<1>2. CASE Retry(h)
  BY <1>2, RetryReport DEF Release
<1>3. QED
  BY <1>1, <1>2 DEF Release

\* Users do not write the report.
LEMMA UserReport ==
    ASSUME CoreInv, ReportInv, CreateTask \/ EditSpec \/ DeleteTask
    PROVE  ReportInv'
<1>1. rt' = rt /\ pc' = pc /\ snap' = snap /\ task \in TaskRecord
  BY DEF CreateTask, EditSpec, DeleteTask, UserWrote, CoreInv, TypeInv, TypeOK
<1>2. \/ task'.phase # "Stopped"
      \/ task'.phase = task.phase /\ task'.uid = task.uid
  <2>1. CASE CreateTask
    BY <2>1 DEF CreateTask, UserWrote, NewTask, NoTask
  <2>2. CASE EditSpec
    BY <1>1, <2>2 DEF EditSpec, UserWrote, TaskRecord
  <2>3. CASE DeleteTask
    BY <1>1, <2>3 DEF DeleteTask, UserWrote, TaskRecord, NoTask
  <2>4. QED
    BY <2>1, <2>2, <2>3
<1>3. QED
  BY <1>1, <1>2, WriteReport

\* ReportInv is inductive relative to the layers below it.
LEMMA ReportStep ==
    ASSUME ~MutableCarrier
    PROVE  CoreInv /\ ClaimInv /\ ReportInv /\ [Next]_vars => ReportInv'
<1> SUFFICES ASSUME CoreInv, ClaimInv, ReportInv, [Next]_vars PROVE ReportInv'
  OBVIOUS
<1>1. ASSUME NEW h \in Hosts, HostStep(h) PROVE ReportInv'
  <2>1. ~Adopt(h) /\ ~Freeze(h)
    BY DEF Adopt, Freeze, ClaimInv, NoRepair
  <2>2. QED
    BY <1>1, <2>1, StartReport, ClaimReport, RegetReport, StatusReport, EvaluateReport,
       ApplyReport, CleanReport, CleanDeleteReport, ReleaseReport
    DEF HostStep
<1>2. ASSUME NEW h \in Hosts, Abort(h) PROVE ReportInv'
  BY <1>2, RetryReport DEF Abort
<1>3. CASE CreateTask \/ EditSpec \/ DeleteTask
  BY <1>3, UserReport
<1>4. ASSUME OnlyShrinks, UNCHANGED <<task, pc, snap>> PROVE ReportInv'
  BY <1>4 DEF ReportInv, StoppedMeansGone, Admission, Nothing, OnlyShrinks
<1>5. ASSUME NEW h \in Hosts, NEW k \in Kinds, Collect(h, k) \/ Drift(h, k) PROVE ReportInv'
  BY <1>4, <1>5, EnvironmentShrinks DEF Collect, Drift
<1>6. CASE UNCHANGED vars \/ \E h \in Hosts : Resync(h)
  BY <1>4, <1>6, SameShrinks DEF vars, Resync, CoreInv, TypeInv
<1>7. QED
  BY <1>1, <1>2, <1>3, <1>5, <1>6 DEF Next

\* At the start nothing is reported.
LEMMA ReportInit == Init => ReportInv \/ Legacy
<1> SUFFICES ASSUME Init, ~Legacy PROVE ReportInv
  OBVIOUS
<1>1. task = NoTask /\ \A h \in Hosts : pc[h] = "idle"
  BY DEF Init, NewInit, LegacyInit
<1>2. QED
  BY <1>1 DEF ReportInv, StoppedMeansGone, Admission, NoTask

\* The four layers hold in every reachable state.
LEMMA ReportInvariant ==
    ASSUME ~Legacy, ~MutableCarrier
    PROVE  Spec => [](CoreInv /\ ClaimInv /\ ReportInv)
<1>1. Init => ReportInv
  BY ReportInit
<1>2. CoreInv /\ ClaimInv /\ ReportInv /\ [Next]_vars => ReportInv'
  BY ReportStep
<1>3. QED
  BY <1>1, <1>2, ClaimInvariant, PTL DEF Spec

\* A Task reported Stopped has no object left in any Runtime, whatever was
\* edited while its cleanup was running and however old the reporter's copy is.
THEOREM StoppedIsGone ==
    ASSUME ~Legacy, ~MutableCarrier
    PROVE  Spec => []StoppedMeansGone
<1>1. ReportInv => StoppedMeansGone
  BY DEF ReportInv
<1>2. QED
  BY <1>1, ReportInvariant, PTL

----------------------------------------------------------------------------
(* Mounts come before the workload and go after it.                         *)

\* A workload is of no fixed kind, so it is planned last and cleaned up between
\* the Service and its mounts.
LEMMA WorkloadRank ==
    ASSUME NEW k \in Supported, NEW m \in Mounts
    PROVE  /\ k \in Kinds \ Aux /\ m \in Aux /\ m \in Kinds
           /\ ~(ApplyRank(k) <= ApplyRank(m))
           /\ ~(InventoryRank(k) <= InventoryRank(m))
  BY ConstantsAssumption DEF Kinds, Aux, Mounts, ApplyRank, InventoryRank

\* Kinds that are not workloads are fixed.
LEMMA FixedKind == \A k \in Kinds : k \in Aux \/ k \in Supported
  BY DEF Kinds

\* What MountInv needs of a step in which only h and its Runtime move.
LEMMA MountMove ==
    ASSUME MountInv, NEW h \in Hosts, OthersIdle(h), OthersLocal(h),
           \A g \in Hosts \ {h} : rt'[g] = rt[g],
           MountOrder(h)'
    PROVE  MountInv'
<1>1. ASSUME NEW g \in Hosts \ {h} PROVE MountOrder(g)'
  BY <1>1 DEF MountInv, MountOrder, OthersIdle, OthersLocal
<1>2. QED
  BY <1>1 DEF MountInv

\* A step of h that touches no Runtime and leads to no delete or plan.
LEMMA RestMount ==
    ASSUME MountInv, NEW h \in Hosts, OthersIdle(h), OthersLocal(h), rt' = rt,
           pc'[h] \notin {"apply", "cleanDelete"}
    PROVE  MountInv'
<1>1. MountOrder(h)'
  BY DEF MountInv, MountOrder
<1>2. QED
  BY <1>1, MountMove

\* A reconcile that ends without having touched its Runtime.
LEMMA EndMount ==
    ASSUME CoreInv, MountInv, NEW h \in Hosts, Finish(h), rt' = rt
    PROVE  MountInv'
<1>1. OthersIdle(h) /\ pc'[h] = "idle" /\ OthersLocal(h)
  BY MoveAlone DEF CoreInv, TypeInv, TypeOK, OthersLocal, Finish
<1>2. QED
  BY <1>1, RestMount

\* A read, a patch or a report moves to no delete or plan.
LEMMA CallMount ==
    ASSUME CoreInv, MountInv, NEW h \in Hosts, NEW t, NEW call, NEW release,
           Continue(h, t, call, release), rt' = rt, call \notin {"apply", "cleanDelete"}
    PROVE  MountInv'
<1>1. OthersIdle(h) /\ OthersLocal(h) /\ pc'[h] = call
  BY DEF Continue, OthersIdle, OthersLocal, CoreInv, TypeInv, TypeOK
<1>2. QED
  BY <1>1, RestMount

\* Reading a Task leads to no operation on the Runtime without a list first.
LEMMA ReadCall ==
    ASSUME NEW h, NEW t
    PROVE  /\ Admitted(t) \notin {"apply", "cleanDelete"}
           /\ Classify(h, t) \notin {"apply", "cleanDelete"}
           /\ FirstCall(h, t) \notin {"apply", "cleanDelete"}
<1>1. Admitted(t) \notin {"apply", "cleanDelete"}
  BY DEF Admitted
<1>2. Classify(h, t) \notin {"apply", "cleanDelete"}
  BY <1>1 DEF Classify, ClaimedCall
<1>3. QED
  BY <1>1, <1>2 DEF FirstCall

\* The steps that only talk to the management API.
LEMMA PlainMount ==
    ASSUME CoreInv, MountInv, NEW h \in Hosts,
           \/ Start(h) \/ Claim(h) \/ Reget(h) \/ Release(h)
           \/ InvalidStatus(h) \/ StoppedStatus(h) \/ ResetStatus(h)
    PROVE  MountInv'
<1>1. CASE Start(h)
  <2> DEFINE call == IF task = NoTask THEN "idle" ELSE FirstCall(h, task)
  <2>1. Continue(h, task, call, task.deleting) /\ rt' = rt
    BY <1>1 DEF Start
  <2>2. call \notin {"apply", "cleanDelete"}
    BY ReadCall
  <2>3. QED
    BY <2>1, <2>2, CallMount
<1>2. CASE Reget(h)
  <2> DEFINE call == IF task = NoTask THEN "idle" ELSE Admitted(task)
  <2>1. Continue(h, task, call, FALSE) /\ rt' = rt
    BY <1>2 DEF Reget
  <2>2. call \notin {"apply", "cleanDelete"}
    BY ReadCall
  <2>3. QED
    BY <2>1, <2>2, CallMount
<1>3. CASE Claim(h)
  <2>1. rt' = rt /\ (Finish(h) \/ \E t : Continue(h, t, "reget", FALSE))
    BY <1>3 DEF Claim, Retry
  <2>2. QED
    BY <2>1, CallMount, EndMount
<1>4. CASE Release(h)
  BY <1>4, EndMount DEF Release, Retry
<1>5. CASE InvalidStatus(h) \/ StoppedStatus(h) \/ ResetStatus(h)
  BY <1>5, EndMount DEF InvalidStatus, StoppedStatus, ResetStatus
<1>6. QED
  BY <1>1, <1>2, <1>3, <1>4, <1>5

\* A mount that a plan leaves out exists.
LEMMA EvaluateMount ==
    ASSUME CoreInv, ReportInv', MountInv, NEW h \in Hosts, Evaluate(h)
    PROVE  MountInv'
<1> DEFINE t == snap[h]
           owned == Owned(h, Inventory(t.carrier), t.uid)
           todo == IF t.deleting THEN owned
                   ELSE {k \in Inventory(t.carrier) :
                            k \in owned => rt[h][k].rev # DesiredRev(k, t)}
<1>1. rt' = rt
  BY DEF Evaluate
<1>2. CASE Finish(h)
  BY <1>1, <1>2, EndMount
<1>3. CASE /\ pc' = [pc EXCEPT ![h] = "apply"]
           /\ loc' = [loc EXCEPT ![h] = [NoLocals EXCEPT !.todo = todo, !.seen = owned]]
           /\ UNCHANGED snap
  <2>1. /\ OthersIdle(h) /\ OthersLocal(h) /\ pc'[h] = "apply" /\ snap'[h] = t
        /\ loc'[h] = [NoLocals EXCEPT !.todo = todo, !.seen = owned]
    BY <1>3 DEF OthersIdle, OthersLocal, CoreInv, TypeInv, TypeOK
  <2>2. ~t.deleting
    BY <2>1 DEF ReportInv, Admission
  <2>3. \A m \in Mounts : m \in todo \/ rt[h][m].owner = t.uid
    BY <2>2 DEF Owned, Inventory, Mounts, Aux
  <2> HIDE DEF todo, owned
  <2>4. loc'[h].todo = todo
    BY <2>1 DEF NoLocals
  <2> HIDE DEF t
  <2>5. MountOrder(h)'
    BY <1>1, <2>1, <2>3, <2>4 DEF MountInv, MountOrder
  <2>6. QED
    BY <1>1, <2>1, <2>5, MountMove
<1>4. QED
  BY <1>2, <1>3 DEF Evaluate, Retry

\* A Service that is replaced is neither workload nor mount.
LEMMA ReplaceMount ==
    ASSUME CoreInv, MountInv, NEW h \in Hosts, pc[h] = "apply",
           Operated(h, "Service"), DeleteObject(h, "Service")
    PROVE  MountInv'
<1> DEFINE k == "Service"
<1>1. k \in Kinds /\ k \in Aux /\ k \notin Mounts /\ k \notin Supported
  BY ConstantsAssumption DEF Kinds, Aux, Mounts
<1>2. /\ OthersIdle(h) /\ OthersLocal(h)
      /\ \/ pc'[h] = "idle"
         \/ pc'[h] = "apply" /\ snap'[h] = snap[h] /\ loc'[h].todo = loc[h].todo \ {k}
  BY <1>1, OperatedMove
<1>3. /\ \A g \in Hosts \ {h} : rt'[g] = rt[g]
      /\ \A j \in Kinds \ {k} : rt'[h][j] = rt[h][j]
      /\ rt'[h][k] \in {rt[h][k], AfterDelete(k, rt[h][k])}
  BY <1>1 DEF DeleteObject, CoreInv, TypeInv, TypeOK
<1>4. ~AfterDelete(k, rt[h][k]).term
  BY <1>1 DEF AfterDelete, Absent
<1>5. Mounts \subseteq Kinds \ {k} /\ Supported \subseteq Kinds \ {k} /\ Aux \subseteq Kinds
  BY <1>1 DEF Mounts, Kinds, Aux
<1> HIDE DEF k
<1>6. \A j \in Aux : ~rt'[h][j].term
  BY <1>3, <1>4, <1>5 DEF MountInv, MountOrder
<1>7. MountOrder(h)'
  BY <1>1, <1>2, <1>3, <1>5, <1>6 DEF MountInv, MountOrder
<1>8. QED
  BY <1>2, <1>3, <1>7, MountMove

\* When the workload's turn comes, its mounts exist.
LEMMA CreateMount ==
    ASSUME CoreInv, ClaimInv, ReportInv, MountInv, ~MutableCarrier,
           NEW h \in Hosts, pc[h] = "apply", NEW k \in Kinds,
           NextOperation(h, k), Operated(h, k),
           rt' = [rt EXCEPT ![h][k] = [owner |-> snap[h].uid,
                                       rev |-> DesiredRev(k, snap[h]),
                                       term |-> rt[h][k].term]]
    PROVE  MountInv'
<1>1. /\ OthersIdle(h) /\ OthersLocal(h)
      /\ \/ pc'[h] = "idle"
         \/ pc'[h] = "apply" /\ snap'[h] = snap[h] /\ loc'[h].todo = loc[h].todo \ {k}
  BY OperatedMove
<1>2. /\ \A g \in Hosts \ {h} : rt'[g] = rt[g]
      /\ \A j \in Kinds : rt'[h][j].owner = IF j = k THEN snap[h].uid ELSE rt[h][j].owner
      /\ \A j \in Kinds : rt'[h][j].term = rt[h][j].term
  BY DEF CoreInv, TypeInv, TypeOK
<1>3. \A j \in Kinds : rt[h][j].owner # 0 => rt[h][j].owner = snap[h].uid
  BY HeldObject DEF Holding, PCs
<1>4. k \in Supported => \A m \in Mounts : rt[h][m].owner = snap[h].uid
  <2> SUFFICES ASSUME k \in Supported, NEW m \in Mounts, rt[h][m].owner # snap[h].uid
               PROVE  FALSE
    OBVIOUS
  <2>1. m \in loc[h].todo
    BY DEF MountInv, MountOrder
  <2>2. ~snap[h].deleting
    BY DEF ReportInv, Admission
  <2>3. ApplyRank(k) <= ApplyRank(m)
    BY <2>1, <2>2 DEF NextOperation
  <2>4. QED
    BY <2>3, WorkloadRank
<1>5. ASSUME NEW j \in Supported, rt'[h][j].owner # 0, NEW m \in Mounts
      PROVE  rt'[h][m].owner = rt'[h][j].owner
  <2>1. j \in Kinds \ Aux /\ m \in Aux /\ m \in Kinds
    BY WorkloadRank
  <2>2. CASE j = k
    BY <1>2, <1>4, <2>1, <2>2
  <2>3. CASE j # k
    <3>1. rt'[h][j].owner = rt[h][j].owner /\ rt[h][j].owner = snap[h].uid
      BY <1>2, <1>3, <1>5, <2>1, <2>3
    <3>2. rt[h][m].owner = rt[h][j].owner
      BY <1>5, <3>1 DEF MountInv, MountOrder
    <3>3. QED
      BY <1>2, <2>1, <3>1, <3>2
  <2>4. QED
    BY <2>2, <2>3
<1>6. \A j \in Aux : ~rt'[h][j].term
  BY <1>2 DEF MountInv, MountOrder, Kinds
<1>7. pc'[h] = "apply" =>
         \A m \in Mounts : m \in loc'[h].todo \/ rt'[h][m].owner = snap'[h].uid
  BY <1>1, <1>2 DEF MountInv, MountOrder, Mounts, Kinds, Aux
<1>8. MountOrder(h)'
  BY <1>1, <1>5, <1>6, <1>7 DEF MountOrder
<1>9. QED
  BY <1>1, <1>2, <1>8, MountMove

\* The operations of a plan.
LEMMA ApplyMount ==
    ASSUME CoreInv, ClaimInv, ReportInv, MountInv, ~MutableCarrier,
           NEW h \in Hosts, Apply(h)
    PROVE  MountInv'
<1>1. pc[h] = "apply" /\ ~snap[h].deleting
  BY DEF Apply, ReportInv, Admission
<1>2. CASE Retry(h) /\ rt' = rt
  BY <1>2, EndMount DEF Retry
<1>3. CASE DeleteObject(h, "Service") /\ Operated(h, "Service")
  BY <1>1, <1>3, ReplaceMount
<1>4. ASSUME NEW k \in Kinds, NextOperation(h, k), Operated(h, k),
             rt' = [rt EXCEPT ![h][k] = [owner |-> snap[h].uid,
                                         rev |-> DesiredRev(k, snap[h]),
                                         term |-> rt[h][k].term]]
      PROVE  MountInv'
  BY <1>1, <1>4, CreateMount
<1>5. QED
  BY <1>1, <1>2, <1>3, <1>4 DEF Apply

\* Cleanup turns to a mount when no workload is listed, which means there is none.
LEMMA CleanMount ==
    ASSUME CoreInv, ClaimInv, MountInv, ~MutableCarrier, NEW h \in Hosts,
           Clean(h) \/ CleanVerify(h)
    PROVE  MountInv'
<1> DEFINE present == Owned(h, Inventory(CleanupCarrier(h, snap[h])), snap[h].uid)
<1>1. pc[h] \in Holding /\ rt' = rt
  BY DEF Clean, CleanVerify, Holding, PCs
<1>2. CASE Retry(h)
  BY <1>1, <1>2, EndMount DEF Retry
<1>3. CASE CleanupComplete(h)
  <2>1. OthersIdle(h) /\ OthersLocal(h) /\ pc'[h] \in {"release", "stoppedStatus"}
    BY <1>3 DEF CleanupComplete, OthersIdle, OthersLocal, CoreInv, TypeInv, TypeOK
  <2>2. QED
    BY <1>1, <2>1, RestMount
<1>4. ASSUME NEW k \in present, \A j \in present : InventoryRank(j) <= InventoryRank(k),
             loc' = [loc EXCEPT ![h].todo = {k}],
             pc' = [pc EXCEPT ![h] = "cleanDelete"], snap' = snap
      PROVE  MountInv'
  <2>1. loc[h] \in Locals
    BY DEF CoreInv, TypeInv, TypeOK
  <2>2. /\ OthersIdle(h) /\ OthersLocal(h) /\ pc'[h] = "cleanDelete"
        /\ loc'[h].todo = {k}
    BY <1>4, <2>1 DEF OthersIdle, OthersLocal, CoreInv, TypeInv, TypeOK, Locals
  <2>3. ASSUME k \in Mounts, NEW j \in Supported, rt[h][j].owner # 0 PROVE FALSE
    <3>1. j \in Kinds
      BY DEF Kinds
    <3>2. j \in present
      BY <1>1, <2>3, <3>1, HeldObject DEF Owned
    <3>3. QED
      BY <1>4, <2>3, <3>2, WorkloadRank
  <2>4. MountOrder(h)'
    BY <1>1, <2>2, <2>3 DEF MountInv, MountOrder
  <2>5. QED
    BY <1>1, <2>2, <2>4, MountMove
<1>5. QED
  BY <1>2, <1>3, <1>4 DEF Clean, CleanVerify

\* A cleanup deletes the Service, or the workload in the foreground, or a mount
\* without a workload.
LEMMA CleanDeleteMount ==
    ASSUME CoreInv, MountInv, NEW h \in Hosts, CleanDelete(h)
    PROVE  MountInv'
<1>1. PICK k \in loc[h].todo : DeleteObject(h, k)
  BY DEF CleanDelete
<1>2. k \in Kinds
  BY <1>1 DEF CoreInv, TypeInv, TypeOK, Locals
<1>3. OthersIdle(h) /\ OthersLocal(h) /\ pc'[h] = "cleanVerify" /\ pc[h] = "cleanDelete"
  BY DEF CleanDelete, OthersIdle, OthersLocal, CoreInv, TypeInv, TypeOK
<1>4. /\ \A g \in Hosts \ {h} : rt'[g] = rt[g]
      /\ \A j \in Kinds \ {k} : rt'[h][j] = rt[h][j]
      /\ rt'[h][k] \in {rt[h][k], AfterDelete(k, rt[h][k])}
  BY <1>1, <1>2 DEF DeleteObject, CoreInv, TypeInv, TypeOK
<1>5. rt[h][k] \in Object
  BY <1>2 DEF CoreInv, TypeInv, TypeOK
<1>6. /\ k \in Aux => ~AfterDelete(k, rt[h][k]).term
      /\ k \notin Aux => AfterDelete(k, rt[h][k]).owner = rt[h][k].owner
  BY <1>5 DEF AfterDelete, Absent, Object
<1>7. \A j \in Aux : ~rt'[h][j].term
  BY <1>4, <1>6 DEF MountInv, MountOrder, Kinds
<1>8. ASSUME NEW j \in Supported, rt'[h][j].owner # 0, NEW m \in Mounts
      PROVE  rt'[h][m].owner = rt'[h][j].owner
  <2>1. j \in Kinds \ Aux /\ m \in Aux /\ m \in Kinds
    BY WorkloadRank
  <2>2. rt'[h][j].owner = rt[h][j].owner
    BY <1>4, <1>6, <2>1
  <2>3. k # m
    BY <1>1, <1>3, <1>8, <2>2 DEF MountInv, MountOrder
  <2>4. QED
    BY <1>4, <1>8, <2>1, <2>2, <2>3 DEF MountInv, MountOrder
<1>9. MountOrder(h)'
  BY <1>3, <1>7, <1>8 DEF MountOrder
<1>10. QED
  BY <1>3, <1>4, <1>9, MountMove

\* Only a workload terminates, and its mounts outlast it.
LEMMA CollectMount ==
    ASSUME CoreInv, MountInv, NEW h \in Hosts, NEW k \in Kinds, Collect(h, k)
    PROVE  MountInv'
<1>1. OthersIdle(h) /\ OthersLocal(h) /\ UNCHANGED <<pc, snap, loc>>
  BY DEF Collect, OthersIdle, OthersLocal
<1>2. /\ \A g \in Hosts \ {h} : rt'[g] = rt[g]
      /\ \A j \in Kinds \ {k} : rt'[h][j] = rt[h][j]
      /\ rt'[h][k].owner = 0
  BY DEF Collect, Absent, CoreInv, TypeInv, TypeOK
<1>3. k \notin Aux
  BY DEF Collect, MountInv, MountOrder
<1>4. Aux \subseteq Kinds \ {k} /\ Supported \subseteq Kinds /\ Mounts \subseteq Aux
  BY <1>3 DEF Kinds, Aux, Mounts
<1>5. MountOrder(h)'
  BY <1>1, <1>2, <1>4 DEF MountInv, MountOrder
<1>6. QED
  BY <1>1, <1>2, <1>5, MountMove

\* MountInv is inductive relative to the layers below it, as long as nobody
\* changes Runtime objects behind the Agent.
LEMMA MountStep ==
    ASSUME ~MutableCarrier, MaxDrift = 0
    PROVE  CoreInv /\ ClaimInv /\ ReportInv /\ ReportInv' /\ MountInv /\ [Next]_vars
              => MountInv'
<1> SUFFICES ASSUME CoreInv, ClaimInv, ReportInv, ReportInv', MountInv, [Next]_vars
             PROVE  MountInv'
  OBVIOUS
<1>1. ASSUME NEW h \in Hosts, HostStep(h) PROVE MountInv'
  <2>1. ~Adopt(h) /\ ~Freeze(h)
    BY DEF Adopt, Freeze, ClaimInv, NoRepair
  <2>2. QED
    BY <1>1, <2>1, PlainMount, EvaluateMount, ApplyMount, CleanMount, CleanDeleteMount
    DEF HostStep
<1>2. ASSUME NEW h \in Hosts, Abort(h) PROVE MountInv'
  BY <1>2, EndMount DEF Abort, Retry
<1>3. ASSUME UNCHANGED <<pc, snap, loc, rt>> PROVE MountInv'
  BY <1>3 DEF MountInv, MountOrder
<1>4. CASE CreateTask \/ EditSpec \/ DeleteTask
  BY <1>3, <1>4 DEF CreateTask, EditSpec, DeleteTask, UserWrote
<1>5. ASSUME NEW h \in Hosts, NEW k \in Kinds, Collect(h, k) \/ Drift(h, k) PROVE MountInv'
  <2>1. ~Drift(h, k)
    BY DEF Drift, CoreInv, TypeInv, TypeOK
  <2>2. QED
    BY <1>5, <2>1, CollectMount
<1>6. CASE UNCHANGED vars \/ \E h \in Hosts : Resync(h)
  BY <1>3, <1>6 DEF vars, Resync
<1>7. QED
  BY <1>1, <1>2, <1>4, <1>5, <1>6 DEF Next

\* At the start nothing exists.
LEMMA MountInit == Init => MountInv \/ Legacy
<1> SUFFICES ASSUME Init, ~Legacy PROVE MountInv
  OBVIOUS
<1>1. /\ rt = [h \in Hosts |-> [k \in Kinds |-> Absent]]
      /\ \A h \in Hosts : pc[h] = "idle"
  BY DEF Init, NewInit, LegacyInit
<1>2. QED
  BY <1>1 DEF MountInv, MountOrder, Absent, Kinds

\* Secret and ConfigMap are created before the workload that mounts them and
\* deleted only after it is gone, its foreground deletion included.
THEOREM MountsStay ==
    ASSUME ~Legacy, ~MutableCarrier, MaxDrift = 0
    PROVE  Spec => []MountsOutliveWorkload
<1>1. Init => MountInv
  BY MountInit
<1>2. CoreInv /\ ClaimInv /\ ReportInv /\ ReportInv' /\ MountInv /\ [Next]_vars
         => MountInv'
  BY MountStep
<1>3. MountInv => MountsOutliveWorkload
  BY DEF MountInv, MountOrder, MountsOutliveWorkload, Mounts
<1>4. QED
  BY <1>1, <1>2, <1>3, ReportInvariant, PTL DEF Spec

=============================================================================
