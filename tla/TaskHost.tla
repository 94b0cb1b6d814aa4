------------------------------ MODULE TaskHost ------------------------------
(***************************************************************************)
(* The Task Host of the RLark Agent: how a management Task is claimed,     *)
(* realized as Runtime objects, stopped, cleaned up and released.          *)
(*                                                                         *)
(* A step of a Host is one call to the management API or to the Runtime    *)
(* (Get, Patch, Status().Patch, list, apply, delete) together with the     *)
(* local decisions up to the next call, so users, other Hosts, object      *)
(* garbage collection and a crash may act between any two calls.           *)
(***************************************************************************)
EXTENDS Naturals, FiniteSets

CONSTANTS
    Runtimes,        \* values of spec.runtime.kind a user may write
    Hosts,           \* runtime kinds served by an Agent; Host h claims as "namespace/h"
    Carriers,        \* values of spec.workload.carrier a user may write
    Supported,       \* the carriers the Ray adapter knows
    None,            \* an absent annotation
    MutableCarrier,  \* whether users edit the carrier of an existing Task
    Legacy,          \* whether the Task may carry an old claimant-less finalizer
    MaxUID,          \* bound: incarnations of the Task
    MaxGen,          \* bound: generations users create by editing one incarnation
    MaxFaults,       \* bound: crashes and failed calls
    MaxDrift         \* bound: out-of-band changes to Runtime objects

Aux == {"ConfigMap", "Secret", "Service"}
Kinds == Aux \cup Supported

ASSUME ConstantsAssumption ==
    /\ Hosts \subseteq Runtimes
    /\ Supported \subseteq Carriers
    /\ None \notin Runtimes
    /\ None \notin Carriers
    /\ Aux \cap Carriers = {}
    /\ MutableCarrier \in BOOLEAN
    /\ Legacy \in BOOLEAN
    /\ MaxUID \in Nat
    /\ MaxGen \in Nat \ {0}
    /\ MaxFaults \in Nat
    /\ MaxDrift \in Nat

VARIABLES
    task,     \* the Task stored by the management API, or NoTask
    lastUID,  \* the last incarnation created
    rt,       \* rt[h][k]: the Runtime object of kind k in the Runtime of Host h
    pc,       \* pc[h]: the call Host h makes next
    snap,     \* snap[h]: the copy of the Task Host h works from
    fresh,    \* Hosts whose copy has the stored resourceVersion
    loc,      \* loc[h]: locals of the running reconcile
    wake,     \* Hosts with a queued reconcile request
    faults,   \* crashes and failed calls so far
    drift     \* out-of-band changes so far

vars == <<task, lastUID, rt, pc, snap, fresh, loc, wake, faults, drift>>

----------------------------------------------------------------------------
(* Data.                                                                    *)

Phases == {"Pending", "Stopped"}

\* The part of a Task the Host reads and writes. obs is status.observedGeneration,
\* frozen the claimed workload and carrier selector.
TaskRecord ==
    [uid : 0..MaxUID, gen : 0..(MaxGen + 1), runtime : Runtimes \cup {None},
     carrier : Carriers \cup {None}, valid : BOOLEAN, suspended : BOOLEAN,
     deleting : BOOLEAN, fin : BOOLEAN, claimant : Hosts \cup {None},
     frozen : Carriers \cup {None}, phase : Phases, obs : 0..(MaxGen + 1)]

NoTask ==
    [uid |-> 0, gen |-> 0, runtime |-> None, carrier |-> None, valid |-> FALSE,
     suspended |-> FALSE, deleting |-> FALSE, fin |-> FALSE, claimant |-> None,
     frozen |-> None, phase |-> "Pending", obs |-> 0]

NewTask(u, r, c, v, s) ==
    [NoTask EXCEPT !.uid = u, !.gen = 1, !.runtime = r, !.carrier = c,
                   !.valid = v, !.suspended = s]

\* owner is the Task incarnation in the object's identity annotation, rev the
\* rendered content (the Task generation for the primary workload), term a
\* foreground deletion in progress.
Object == [owner : 0..MaxUID, rev : 0..(MaxGen + 1), term : BOOLEAN]
Absent == [owner |-> 0, rev |-> 0, term |-> FALSE]

PCs == {"idle", "adopt", "claim", "reget", "freeze", "invalidStatus", "clean",
        "cleanDelete", "cleanVerify", "release", "stoppedStatus", "resetStatus",
        "evaluate", "apply"}

Locals == [release : BOOLEAN, todo : SUBSET Kinds, seen : SUBSET Kinds]
NoLocals == [release |-> FALSE, todo |-> {}, seen |-> {}]

\* Create order of the bound Plan: the objects without dependencies sorted by
\* logical name, then the workload that depends on all of them.
ApplyRank(k) ==
    CASE k = "ConfigMap" -> 1 [] k = "Secret" -> 2 [] k = "Service" -> 3 [] OTHER -> 4

\* MUTANT of InventoryRank: the workload is declared first, so deleted last.
InventoryRankWorkloadFirst(k) ==
    CASE k = "ConfigMap" -> 1 [] k = "Secret" -> 2 [] k = "Service" -> 4 [] OTHER -> 0

\* Position in the Inventory the Ray adapter declares.
InventoryRank(k) ==
    CASE k = "ConfigMap" -> 1 [] k = "Secret" -> 2 [] k = "Service" -> 4 [] OTHER -> 3

Inventory(c) == Aux \cup {c}

\* MUTANT of Owned: an object that terminates is not listed.
OwnedNotTerminating(h, ks, u) == {k \in ks : rt[h][k].owner = u /\ u # 0 /\ ~rt[h][k].term}

\* What ListCandidates proves to belong to incarnation u.
Owned(h, ks, u) == {k \in ks : rt[h][k].owner = u /\ u # 0}

----------------------------------------------------------------------------
(* The Host's reading of a Task.                                            *)

Matches(h, t) == t.runtime = h
CanRealize(h, t) == Matches(h, t) /\ t.valid
Decodes(h, t) == Matches(h, t) /\ t.valid
ClaimantMissing(t) == t.fin /\ t.claimant = None
IsClaimant(h, t) == t.fin /\ t.claimant = h

\* MUTANT of Admitted: a resumed Task is realized while it is still reported Stopped.
AdmittedWithoutReset(t) == IF t.suspended THEN "clean" ELSE "evaluate"

\* Suspension and lifecycle admission, after every claim check.
Admitted(t) ==
    IF t.suspended THEN "clean"
    ELSE IF t.phase = "Stopped" THEN "resetStatus"
    ELSE "evaluate"

\* MUTANT of ClaimedCall: any finalizer is taken for the Host's own claim.
ClaimedCallByAnyHost(h, t) ==
    IF t.frozen \notin {None, t.carrier} THEN "idle"
    ELSE IF t.frozen = None THEN "freeze"
    ELSE Admitted(t)

\* The checks of a realizable Task that already carries the finalizer.
ClaimedCall(h, t) ==
    IF t.claimant # h \/ t.frozen \notin {None, t.carrier} THEN "idle"
    ELSE IF t.frozen = None THEN "freeze"
    ELSE Admitted(t)

\* Host.Reconcile between adoption and lifecycle admission.
Classify(h, t) ==
    CASE t.deleting ->
            IF IsClaimant(h, t) THEN "clean" ELSE "idle"
      [] ~t.deleting /\ ~CanRealize(h, t) ->
            IF IsClaimant(h, t) /\ ~Matches(h, t) THEN "invalidStatus" ELSE "idle"
      [] ~t.deleting /\ CanRealize(h, t) ->
            IF t.fin THEN ClaimedCall(h, t) ELSE "claim"

\* Host.Reconcile from the first Get.
FirstCall(h, t) ==
    IF ClaimantMissing(t) /\ (t.deleting \/ CanRealize(h, t))
    THEN "adopt" ELSE Classify(h, t)

\* MUTANT of CleanupCarrier: cleanup needs the current spec to decode.
CleanupCarrierFromSpec(h, t) == IF Decodes(h, t) THEN t.carrier ELSE None

\* The selector cleanup works from: the frozen one, or for an old claim the
\* one decoded from the Task; None when neither is available.
CleanupCarrier(h, t) ==
    IF t.frozen # None THEN t.frozen
    ELSE IF Decodes(h, t) THEN t.carrier ELSE None

DesiredRev(k, t) == IF k \in Aux THEN 1 ELSE t.gen

\* MUTANT of ShouldReconcile: the scan leaves claimed Tasks out.
ShouldReconcileUnclaimed(h, t) ==
    /\ t.uid # 0
    /\ \/ ~t.fin /\ Matches(h, t)
       \/ ClaimantMissing(t) /\ (t.deleting \/ CanRealize(h, t))

\* ShouldReconcile: the scheduling hint the periodic scan uses.
ShouldReconcile(h, t) ==
    /\ t.uid # 0
    /\ \/ ~t.fin /\ Matches(h, t)
       \/ IsClaimant(h, t)
       \/ ClaimantMissing(t) /\ (t.deleting \/ CanRealize(h, t))

----------------------------------------------------------------------------
(* How a reconcile moves on.                                                *)

\* The reconcile goes on with its next call from copy t.
Continue(h, t, call, release) ==
    /\ pc' = [pc EXCEPT ![h] = call]
    /\ snap' = [snap EXCEPT ![h] = IF call = "idle" THEN NoTask ELSE t]
    /\ loc' = [loc EXCEPT ![h] = [NoLocals EXCEPT !.release = release /\ call = "clean"]]

\* The reconcile returns and holds nothing.
Finish(h) ==
    /\ pc' = [pc EXCEPT ![h] = "idle"]
    /\ snap' = [snap EXCEPT ![h] = NoTask]
    /\ loc' = [loc EXCEPT ![h] = NoLocals]

\* It returns an error or an in-progress result, and the key is queued again.
Retry(h) ==
    /\ Finish(h)
    /\ fresh' = fresh \ {h}
    /\ wake' = wake \cup {h}
    /\ UNCHANGED task

\* MUTANT of Patched: the patch does not test the resourceVersion.
PatchedUnfenced(h, t) ==
    /\ task' = t
    /\ wake' = Hosts

\* A metadata patch that tests the resourceVersion of the copy. Every Host
\* watches the Task, so a change queues all of them.
Patched(h, t) ==
    /\ h \in fresh
    /\ task' = t
    /\ wake' = Hosts

\* Host h holds a copy of the Task it has just written, or nothing.
OnlyFresh(h) == fresh' = IF pc'[h] = "idle" THEN {} ELSE {h}

\* MUTANT of ObservedGeneration: the generation to come.
ObservedGenerationNext(t) == t.gen + 1

\* The generation of the spec the copy was read with.
ObservedGeneration(t) == t.gen

\* WriteStatus: a merge patch of the fields that differ from the copy, with no
\* resourceVersion test; the copy keeps its old resourceVersion.
WriteStatus(h, phase) ==
    LET t == snap[h]
        written == [task EXCEPT !.phase = IF phase = t.phase THEN @ ELSE phase,
                                !.obs = IF ObservedGeneration(t) = t.obs THEN @
                                        ELSE ObservedGeneration(t)]
    IN IF task = NoTask \/ written = task
       THEN /\ fresh' = fresh \ {h}
            /\ UNCHANGED task
            /\ wake' = IF task = NoTask THEN wake \cup {h} ELSE wake
       ELSE /\ task' = written
            /\ fresh' = {}
            /\ wake' = Hosts

----------------------------------------------------------------------------
(* Steps of Host h.                                                         *)

\* Read the Task; a missing Task ends the reconcile.
Start(h) ==
    /\ pc[h] = "idle"
    /\ h \in wake
    /\ wake' = wake \ {h}
    /\ LET call == IF task = NoTask THEN "idle" ELSE FirstCall(h, task)
       IN /\ Continue(h, task, call, task.deleting)
          /\ fresh' = IF call = "idle" THEN fresh \ {h} ELSE fresh \cup {h}
    /\ UNCHANGED <<task, lastUID, rt, faults, drift>>

\* Adopt a claimant-less finalizer, freezing the selector if it decodes.
Adopt(h) ==
    /\ pc[h] = "adopt"
    /\ LET t == [snap[h] EXCEPT !.claimant = h,
                    !.frozen = IF @ = None /\ Decodes(h, snap[h])
                               THEN snap[h].carrier ELSE @]
       IN \/ /\ Patched(h, t)
             /\ Continue(h, t, Classify(h, t), t.deleting)
             /\ OnlyFresh(h)
          \/ h \notin fresh /\ Retry(h)
    /\ UNCHANGED <<lastUID, rt, faults, drift>>

\* Write finalizer, claimant and frozen selector in one patch.
Claim(h) ==
    /\ pc[h] = "claim"
    /\ LET t == [snap[h] EXCEPT !.fin = TRUE, !.claimant = h,
                                !.frozen = IF @ = None THEN snap[h].carrier ELSE @]
       IN \/ /\ Patched(h, t)
             /\ Continue(h, t, "reget", FALSE)
             /\ OnlyFresh(h)
          \/ h \notin fresh /\ Retry(h)
    /\ UNCHANGED <<lastUID, rt, faults, drift>>

\* Read the Task again after a claim. The copy is not classified again: the
\* reconcile goes on with suspension and lifecycle admission.
Reget(h) ==
    /\ pc[h] = "reget"
    /\ LET call == IF task = NoTask THEN "idle" ELSE Admitted(task)
       IN /\ Continue(h, task, call, FALSE)
          /\ fresh' = IF call = "idle" THEN fresh \ {h} ELSE fresh \cup {h}
    /\ UNCHANGED <<task, lastUID, rt, wake, faults, drift>>

\* Backfill the frozen selector of an old claim.
Freeze(h) ==
    /\ pc[h] = "freeze"
    /\ LET t == [snap[h] EXCEPT !.frozen = snap[h].carrier]
       IN \/ /\ Patched(h, t)
             /\ Continue(h, t, Admitted(t), FALSE)
             /\ OnlyFresh(h)
          \/ h \notin fresh /\ Retry(h)
    /\ UNCHANGED <<lastUID, rt, faults, drift>>

\* The claimed Runtime was edited: report it and leave everything alone.
InvalidStatus(h) ==
    /\ pc[h] = "invalidStatus"
    /\ WriteStatus(h, snap[h].phase)
    /\ Finish(h)
    /\ UNCHANGED <<lastUID, rt, faults, drift>>

\* Cleanup of a suspended Task is complete.
StoppedStatus(h) ==
    /\ pc[h] = "stoppedStatus"
    /\ WriteStatus(h, "Stopped")
    /\ Finish(h)
    /\ UNCHANGED <<lastUID, rt, faults, drift>>

\* A resumed Task is first reported Pending; the next reconcile realizes it.
ResetStatus(h) ==
    /\ pc[h] = "resetStatus"
    /\ WriteStatus(h, "Pending")
    /\ Finish(h)
    /\ UNCHANGED <<lastUID, rt, faults, drift>>

\* Coordinator.Evaluate: compile, list what this incarnation owns and compare.
\* A Task that does not decode or compile is an error.
Evaluate(h) ==
    /\ pc[h] = "evaluate"
    /\ LET t == snap[h]
           owned == Owned(h, Inventory(t.carrier), t.uid)
           todo == IF t.deleting THEN owned
                   ELSE {k \in Inventory(t.carrier) :
                            k \in owned => rt[h][k].rev # DesiredRev(k, t)}
       IN \/ /\ ~Decodes(h, t) \/ t.carrier \notin Supported
             /\ Retry(h)
          \/ /\ Decodes(h, t) /\ t.carrier \in Supported
             /\ IF todo = {}
                THEN Finish(h) /\ fresh' = fresh \ {h}
                ELSE /\ pc' = [pc EXCEPT ![h] = "apply"]
                     /\ loc' = [loc EXCEPT ![h] = [NoLocals EXCEPT !.todo = todo, !.seen = owned]]
                     /\ UNCHANGED <<snap, fresh>>
             /\ UNCHANGED <<task, wake>>
    /\ UNCHANGED <<lastUID, rt, faults, drift>>

\* The kind the next operation is about: dependencies first, dependants first
\* when the Task is being deleted.
NextOperation(h, k) ==
    /\ k \in loc[h].todo
    /\ \A j \in loc[h].todo :
          IF snap[h].deleting THEN ApplyRank(j) <= ApplyRank(k)
                              ELSE ApplyRank(k) <= ApplyRank(j)

\* The operation on k succeeded; without another one the reconcile is done.
Operated(h, k) ==
    /\ IF loc[h].todo = {k}
       THEN Finish(h) /\ fresh' = fresh \ {h}
       ELSE /\ loc' = [loc EXCEPT ![h].todo = @ \ {k}]
            /\ UNCHANGED <<pc, snap, fresh>>
    /\ UNCHANGED <<task, wake>>

\* What an accepted delete leaves: a workload lingers until its Pods are gone.
AfterDelete(k, o) == IF k \in Aux THEN Absent ELSE [o EXCEPT !.term = TRUE]

\* Provider.Delete: of an absent object a success, of another object a conflict.
DeleteObject(h, k) ==
    rt' = IF rt[h][k].owner = 0 THEN rt
          ELSE [rt EXCEPT ![h][k] = AfterDelete(k, @)]

\* Provider.Apply or Delete for the next operation; the first error ends the
\* sequence and keeps what was done.
Apply(h) ==
    /\ pc[h] = "apply"
    /\ \E k \in Kinds :
        LET t == snap[h]
            cur == rt[h][k]
            replaced == t.deleting \/ (k = "Service" /\ k \in loc[h].seen)
            conflict == \/ cur.owner \notin {0, t.uid}
                        \/ cur.owner = 0 /\ k \in loc[h].seen /\ ~replaced
        IN /\ NextOperation(h, k)
           /\ \/ /\ conflict
                 /\ Retry(h)
                 /\ UNCHANGED rt
              \/ /\ ~conflict /\ replaced
                 /\ DeleteObject(h, k)
                 /\ Operated(h, k)
              \/ /\ ~conflict /\ ~replaced
                 /\ rt' = [rt EXCEPT ![h][k] =
                              [owner |-> t.uid, rev |-> DesiredRev(k, t), term |-> cur.term]]
                 /\ Operated(h, k)
    /\ UNCHANGED <<lastUID, faults, drift>>

\* Where cleanup continues once it is complete.
CleanupComplete(h) ==
    /\ pc' = [pc EXCEPT ![h] = IF loc[h].release THEN "release" ELSE "stoppedStatus"]
    /\ loc' = [loc EXCEPT ![h] = NoLocals]
    /\ UNCHANGED <<task, snap, fresh, wake>>

\* Coordinator.CleanupTask: list, and choose the last present candidate.
Clean(h) ==
    /\ pc[h] = "clean"
    /\ LET c == CleanupCarrier(h, snap[h])
           present == Owned(h, Inventory(c), snap[h].uid)
       IN \/ c \notin Supported /\ Retry(h)
          \/ c \in Supported /\ present = {} /\ CleanupComplete(h)
          \/ /\ c \in Supported
             /\ \E k \in present :
                   /\ \A j \in present : InventoryRank(j) <= InventoryRank(k)
                   /\ loc' = [loc EXCEPT ![h].todo = {k}]
             /\ pc' = [pc EXCEPT ![h] = "cleanDelete"]
             /\ UNCHANGED <<task, snap, fresh, wake>>
    /\ UNCHANGED <<lastUID, rt, faults, drift>>

CleanDelete(h) ==
    /\ pc[h] = "cleanDelete"
    /\ \E k \in loc[h].todo : DeleteObject(h, k)
    /\ pc' = [pc EXCEPT ![h] = "cleanVerify"]
    /\ loc' = [loc EXCEPT ![h].todo = {}]
    /\ UNCHANGED <<task, lastUID, snap, fresh, wake, faults, drift>>

\* MUTANT of CleanVerify: an accepted delete is completion.
CleanVerifyAccepted(h) ==
    /\ pc[h] = "cleanVerify"
    /\ CleanupComplete(h)
    /\ UNCHANGED <<lastUID, rt, faults, drift>>

\* An accepted delete is not completion: list again, and come back later
\* unless everything is absent.
CleanVerify(h) ==
    /\ pc[h] = "cleanVerify"
    /\ IF Owned(h, Inventory(CleanupCarrier(h, snap[h])), snap[h].uid) = {}
       THEN CleanupComplete(h)
       ELSE Retry(h)
    /\ UNCHANGED <<lastUID, rt, faults, drift>>

\* Remove finalizer and claim; the API server then drops the deleted Task.
Release(h) ==
    /\ pc[h] = "release"
    /\ \/ /\ Patched(h, NoTask)
          /\ Finish(h)
          /\ fresh' = {}
       \/ h \notin fresh /\ Retry(h)
    /\ UNCHANGED <<lastUID, rt, faults, drift>>

\* A call fails, or the Agent crashes and a new leader starts from its queue.
Abort(h) ==
    /\ pc[h] # "idle"
    /\ faults < MaxFaults
    /\ faults' = faults + 1
    /\ Retry(h)
    /\ UNCHANGED <<lastUID, rt, drift>>

\* The periodic repair scan.
Resync(h) ==
    /\ h \notin wake
    /\ ShouldReconcile(h, task)
    /\ wake' = wake \cup {h}
    /\ UNCHANGED <<task, lastUID, rt, pc, snap, fresh, loc, faults, drift>>

----------------------------------------------------------------------------
(* Users, the management API and the Runtime.                               *)

UserWrote(t) ==
    /\ task' = t
    /\ fresh' = {}
    /\ wake' = Hosts
    /\ UNCHANGED <<rt, pc, snap, loc, faults, drift>>

CreateTask ==
    /\ task = NoTask
    /\ lastUID < MaxUID
    /\ lastUID' = lastUID + 1
    /\ \E r \in Runtimes, c \in Carriers, v, s \in BOOLEAN :
          UserWrote(NewTask(lastUID + 1, r, c, v, s))

EditSpec ==
    /\ task # NoTask
    /\ task.gen < MaxGen
    /\ \E r \in Runtimes, c \in Carriers, v, s \in BOOLEAN :
          LET t == [task EXCEPT !.runtime = r, !.carrier = c, !.valid = v, !.suspended = s]
          IN /\ t # task
             /\ c = task.carrier \/ MutableCarrier
             /\ UserWrote([t EXCEPT !.gen = @ + 1])
    /\ UNCHANGED lastUID

\* A Task with the finalizer only gets its deletion timestamp.
DeleteTask ==
    /\ task # NoTask
    /\ ~task.deleting
    /\ UserWrote(IF task.fin THEN [task EXCEPT !.deleting = TRUE, !.gen = @ + 1] ELSE NoTask)
    /\ UNCHANGED lastUID

\* Foreground deletion ends when the last Pod is gone.
Collect(h, k) ==
    /\ rt[h][k].term
    /\ rt' = [rt EXCEPT ![h][k] = Absent]
    /\ UNCHANGED <<task, lastUID, pc, snap, fresh, loc, wake, faults, drift>>

\* Somebody deletes or edits a Runtime object behind the Agent's back.
Drift(h, k) ==
    /\ drift < MaxDrift
    /\ rt[h][k].owner # 0
    /\ drift' = drift + 1
    /\ \/ DeleteObject(h, k)
       \/ rt' = [rt EXCEPT ![h][k].rev = 0]
    /\ UNCHANGED <<task, lastUID, pc, snap, fresh, loc, wake, faults>>

----------------------------------------------------------------------------
(* An old Agent left a finalizer without frozen selector, with or without a *)
(* claimant, and perhaps its objects.                                       *)
LegacyTask(r, c, cl) ==
    [NewTask(1, r, c, TRUE, FALSE) EXCEPT !.fin = TRUE, !.claimant = cl]

LegacyRuntime(t, ks) ==
    [h \in Hosts |-> [k \in Kinds |->
        IF Matches(h, t) /\ k \in ks
        THEN [owner |-> 1, rev |-> DesiredRev(k, t), term |-> FALSE] ELSE Absent]]

NewInit ==
    /\ lastUID = 0
    /\ task = NoTask
    /\ rt = [h \in Hosts |-> [k \in Kinds |-> Absent]]

LegacyInit ==
    /\ Legacy
    /\ MaxUID > 0
    /\ lastUID = 1
    /\ \E r \in Runtimes, c \in Supported, cl \in {None} \cup Hosts :
          /\ cl \in {None, r}
          /\ task = LegacyTask(r, c, cl)
          /\ \E ks \in {{}, Inventory(c)} : rt = LegacyRuntime(task, ks)

Init ==
    /\ NewInit \/ LegacyInit
    /\ pc = [h \in Hosts |-> "idle"]
    /\ snap = [h \in Hosts |-> NoTask]
    /\ fresh = {}
    /\ loc = [h \in Hosts |-> NoLocals]
    /\ wake = Hosts
    /\ faults = 0
    /\ drift = 0

HostStep(h) ==
    \/ Start(h) \/ Adopt(h) \/ Claim(h) \/ Reget(h) \/ Freeze(h)
    \/ InvalidStatus(h) \/ StoppedStatus(h) \/ ResetStatus(h)
    \/ Evaluate(h) \/ Apply(h)
    \/ Clean(h) \/ CleanDelete(h) \/ CleanVerify(h) \/ Release(h)

Next ==
    \/ \E h \in Hosts : HostStep(h) \/ Abort(h) \/ Resync(h)
    \/ CreateTask \/ EditSpec \/ DeleteTask
    \/ \E h \in Hosts, k \in Kinds : Collect(h, k) \/ Drift(h, k)

Spec == Init /\ [][Next]_vars

\* The workqueue, its requeues and the scan keep running, and Pods end; users
\* and faults are not forced to act.
Fairness ==
    /\ \A h \in Hosts : WF_vars(HostStep(h)) /\ WF_vars(Resync(h))
    /\ \A h \in Hosts, k \in Kinds : WF_vars(Collect(h, k))

FairSpec == Spec /\ Fairness

----------------------------------------------------------------------------
(* Properties.                                                              *)

\* Every variable has the values the code gives it.
TypeOK ==
    /\ task \in TaskRecord
    /\ lastUID \in 0..MaxUID
    /\ rt \in [Hosts -> [Kinds -> Object]]
    /\ pc \in [Hosts -> PCs]
    /\ snap \in [Hosts -> TaskRecord]
    /\ fresh \subseteq Hosts
    /\ loc \in [Hosts -> Locals]
    /\ wake \subseteq Hosts
    /\ faults \in 0..MaxFaults
    /\ drift \in 0..MaxDrift

\* The object of kind k in the Runtime of h belongs to an existing Task that h
\* has claimed and whose finalizer is still there.
UnderClaim(h, k) ==
    rt[h][k].owner # 0 =>
        /\ task.uid = rt[h][k].owner
        /\ task.fin
        /\ task.claimant = h

\* ConfigMap, Secret and Service never outlive the claim: whatever the users
\* edit and wherever the Agent stops, the finalizer is released only after they
\* are absent, and nothing is created for a released incarnation.
AuxUnderClaim == \A h \in Hosts, k \in Aux : UnderClaim(h, k)

\* No Runtime object, the primary workload included, outlives the claim.
NoOrphan == \A h \in Hosts, k \in Kinds : UnderClaim(h, k)

\* The workload of a claimed Task is of the carrier frozen in its claim: a user
\* who edits the selector of a claimed Task changes nothing in the Runtime.
FrozenCarrierOnly ==
    \A h \in Hosts, k \in Supported :
        rt[h][k].owner = task.uid /\ task.uid # 0 /\ task.frozen # None => task.frozen = k

\* A Task reported Stopped has no object left in any Runtime, even when it was
\* resumed or edited while its cleanup was running.
StoppedMeansGone ==
    task.uid # 0 /\ task.phase = "Stopped" =>
        \A h \in Hosts, k \in Kinds : rt[h][k].owner # task.uid

\* The Secret and the ConfigMap a workload mounts exist as long as it does:
\* they are created before it and deleted only after its Pods are gone.
MountsOutliveWorkload ==
    \A h \in Hosts, k \in Supported :
        rt[h][k].owner # 0 =>
            \A m \in {"Secret", "ConfigMap"} : rt[h][m].owner = rt[h][k].owner

\* While one incarnation lives, its finalizer, claimant and frozen selector
\* never change hands: of several Hosts that read it unclaimed one wins.
ClaimStep ==
    task.uid # 0 /\ task'.uid = task.uid /\ task.fin =>
        /\ task'.fin
        /\ task.claimant # None => task'.claimant = task.claimant
        /\ task.frozen # None => task'.frozen = task.frozen
ClaimIsExclusive == [][ClaimStep]_vars

\* Finalizer and claim are given up only when every object of the incarnation,
\* in every Runtime, is absent: an accepted delete is not completion.
ReleaseStep ==
    task.fin /\ task'.uid # task.uid =>
        \A h \in Hosts, k \in Kinds : rt[h][k].owner # task.uid
ReleaseAfterAbsence == [][ReleaseStep]_vars

\* A Host that may clean the Task up knows which workload it was claimed for:
\* only a Task of an old claim whose spec no longer decodes is left alone.
CleanupKnown(t) ==
    t.frozen # None \/ \A h \in Hosts : t.claimant \in {None, h} => Decodes(h, t)

\* No deleted incarnation stays forever: whatever was edited before or after
\* the deletion and wherever the Agent failed, its cleanup ends in a release.
DeletionCompletes == <>[]~(task.deleting /\ CleanupKnown(task))

\* What Host h owes a Task it can realize: all objects at their desired
\* content, or none and the Stopped report.
Realized(h) ==
    IF task.suspended
    THEN /\ task.phase = "Stopped"
         /\ \A k \in Kinds : rt[h][k].owner = 0
    ELSE /\ task.phase # "Stopped"
         /\ \A k \in Inventory(task.carrier) :
               rt[h][k] = [owner |-> task.uid, rev |-> DesiredRev(k, task), term |-> FALSE]

\* Once users, faults and drift stop, every realizable Task whose claimed
\* selector was not edited away converges and stays there.
Converges ==
    \A h \in Hosts :
        <>[]( \/ task = NoTask
              \/ task.deleting \/ ~CanRealize(h, task)
              \/ task.claimant \notin {None, h}
              \/ task.frozen \notin {None, task.carrier}
              \/ Realized(h) )

=============================================================================
