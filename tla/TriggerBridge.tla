--------------------------- MODULE TriggerBridge ---------------------------
(***************************************************************************)
(* How hints about Tasks reach the Task reconciler of the RLark Agent: a   *)
(* bounded accumulator keeps the hints of each Task, a bounded channel and *)
(* a workqueue carry only Task keys, and one reconcile at a time takes the *)
(* hints of a key.                                                         *)
(*                                                                         *)
(* The accumulator is locked per call, the channel send follows outside    *)
(* the lock, and a failed send takes the lock once more; a step is one     *)
(* locked call, one send or one queue operation.                           *)
(***************************************************************************)
EXTENDS Naturals, FiniteSets, Sequences

CONSTANTS
    Keys,          \* management Tasks
    Pushers,       \* goroutines that emit through the bridge
    Persistent,    \* the Pushers that run again after a failed emission
    Lasting,       \* those of them whose workload and Task are still there then
    Watchers,      \* goroutines that deliver management Task events
    UIDs,          \* incarnations hints may name
    Roots,         \* Runtime roots hints may name
    None,          \* no incarnation, no root, no key
    MaxKeys,       \* accumulator capacity in keys
    MaxRoots,      \* roots kept per key
    Capacity,      \* channel capacity
    MaxHints       \* bound: hints that sources produce

Emitters == Pushers \cup Watchers

ASSUME BridgeAssumption ==
    /\ Lasting \subseteq Persistent /\ Persistent \subseteq Pushers
    /\ Pushers \cap Watchers = {}
    /\ None \notin UIDs \cup Roots \cup Keys
    /\ MaxKeys \in Nat \ {0}
    /\ MaxRoots \in Nat \ {0}
    /\ Capacity \in Nat \ {0}
    /\ MaxHints \in Nat

VARIABLES
    pending,     \* pending[k]: the hints retained for k, merged
    entries,     \* keys with an accumulator entry
    queued,      \* entries marked as having a wakeup
    processing,  \* entries whose hints a reconcile has taken
    channel,     \* keys sent across the managers
    queue,       \* keys the workqueue holds for a worker
    worker,      \* worker[k]: where the reconcile of k is
    emitter,     \* emitter[e]: where the emission of e is, and its hint
    hints,       \* history: the hints merged into pending[k]
    owed,        \* history: keys with a hint whose emission returned without an
                 \* error and which no reconcile has started after
    produced     \* hints produced so far

vars == <<pending, entries, queued, processing, channel, queue, worker, emitter,
          hints, owed, produced>>

accumulator == <<pending, entries, queued, processing, hints>>

----------------------------------------------------------------------------
(* Hints.                                                                   *)

\* A management event or a scan asks for a full reconcile; a Runtime event
\* names one root.
FullKinds == {"DesiredState", "Periodic"}
Hint == [kind : FullKinds, uid : UIDs, root : {None}]
          \cup [kind : {"RuntimeState"}, uid : UIDs, root : Roots]

Batch == [kinds : SUBSET (FullKinds \cup {"RuntimeState"}), uid : UIDs \cup {None},
          roots : {rs \in SUBSET Roots : IsFiniteSet(rs) /\ Cardinality(rs) <= MaxRoots},
          full : BOOLEAN]
EmptySet == [kinds |-> {}, uid |-> None, roots |-> {}, full |-> FALSE]

SetEmpty(b) == b = EmptySet

\* MUTANT of MergeSet: hints of two incarnations share one batch.
MergeSetAnyUID(b, v) ==
    LET full == b.full \/ v.kind \in FullKinds
        roots == b.roots \cup (IF v.root = None THEN {} ELSE {v.root})
        over == Cardinality(roots) > MaxRoots
    IN [kinds |-> b.kinds \cup {v.kind},
        uid |-> IF b.uid = None THEN v.uid ELSE b.uid,
        roots |-> IF full \/ over THEN {} ELSE roots,
        full |-> full \/ over]

\* MUTANT of MergeSet: the bound is tested one root too late.
MergeSetLateBound(b, v) ==
    LET full == \/ b.full
                \/ v.kind \in FullKinds
                \/ b.uid \notin {None, v.uid}
        roots == b.roots \cup (IF v.root = None THEN {} ELSE {v.root})
        over == Cardinality(b.roots) > MaxRoots
    IN [kinds |-> b.kinds \cup {v.kind},
        uid |-> IF b.uid = None THEN v.uid ELSE b.uid,
        roots |-> IF full \/ over THEN {} ELSE roots,
        full |-> full \/ over]

\* Nothing is forgotten without asking for a full reconcile.
MergeSet(b, v) ==
    LET full == \/ b.full
                \/ v.kind \in FullKinds
                \/ b.uid \notin {None, v.uid}
        roots == b.roots \cup (IF v.root = None THEN {} ELSE {v.root})
        over == Cardinality(roots) > MaxRoots
    IN [kinds |-> b.kinds \cup {v.kind},
        uid |-> IF b.uid = None THEN v.uid ELSE b.uid,
        roots |-> IF full \/ over THEN {} ELSE roots,
        full |-> full \/ over]

NoEmission == [at |-> "idle", key |-> None, hint |-> None]
Emission ==
    {NoEmission} \cup
    [at : {"send", "fallback", "failed", "retry", "add"}, key : Keys, hint : Hint]

----------------------------------------------------------------------------
(* The accumulator, each operation under its lock.                          *)

Saturated(k) == k \notin entries /\ Cardinality(entries) >= MaxKeys

\* Merge: unless saturated, retain v; a key with a wakeup or a reconcile under
\* way coalesces.
Merge(k, v) ==
    /\ IF Saturated(k)
       THEN UNCHANGED <<pending, entries, queued, hints>>
       ELSE /\ pending' = [pending EXCEPT ![k] = MergeSet(@, v)]
            /\ entries' = entries \cup {k}
            /\ queued' = IF k \in processing THEN queued ELSE queued \cup {k}
            /\ hints' = [hints EXCEPT ![k] = @ \cup {v}]
    /\ UNCHANGED processing

Coalesces(k) == k \in processing \cup queued

\* Take: a key without an entry leaves the caller its full-reconcile default.
Take(k) ==
    IF k \in entries /\ k \notin processing
    THEN /\ queued' = queued \ {k}
         /\ processing' = processing \cup {k}
         /\ pending' = [pending EXCEPT ![k] = EmptySet]
         /\ hints' = [hints EXCEPT ![k] = {}]
         /\ UNCHANGED entries
    ELSE UNCHANGED accumulator

\* Whether Done asks for a wakeup: hints came while the reconcile ran.
MustWake(k) == k \in processing /\ ~SetEmpty(pending[k]) /\ k \notin queued

\* MUTANT of Done: the entry of a finished reconcile stays.
DoneKeepsEntry(k) ==
    /\ processing' = processing \ {k}
    /\ queued' = IF MustWake(k) THEN queued \cup {k} ELSE queued
    /\ UNCHANGED <<pending, entries, hints>>

\* MUTANT of Done: a reconcile with new hints is not marked finished.
DoneStillProcessing(k) ==
    /\ processing' = IF MustWake(k) THEN processing ELSE processing \ {k}
    /\ entries' = IF k \in processing /\ SetEmpty(pending[k]) THEN entries \ {k} ELSE entries
    /\ queued' = IF MustWake(k) THEN queued \cup {k} ELSE queued \cap entries'
    /\ UNCHANGED <<pending, hints>>

\* Done: drop an idle entry, or mark an entry with new hints as queued.
Done(k) ==
    /\ processing' = processing \ {k}
    /\ entries' = IF k \in processing /\ SetEmpty(pending[k]) THEN entries \ {k} ELSE entries
    /\ queued' = IF MustWake(k) THEN queued \cup {k} ELSE queued \cap entries'
    /\ UNCHANGED <<pending, hints>>

\* MUTANT of WakeupFailed: the queued mark stays.
WakeupFailedKeepsMark(k) == UNCHANGED <<queued, pending, entries, processing, hints>>

\* WakeupFailed: the mark goes, so that the next hint asks for a wakeup again.
WakeupFailed(k) ==
    /\ queued' = IF k \in processing THEN queued ELSE queued \ {k}
    /\ UNCHANGED <<pending, entries, processing, hints>>

HasRoom == Len(channel) < Capacity

----------------------------------------------------------------------------
(* Emitting.                                                                *)

EmitterGoes(e, at) ==
    emitter' = [emitter EXCEPT ![e] = IF at = "idle" THEN NoEmission ELSE [@ EXCEPT !.at = at]]

\* emit, up to the end of Merge: a coalesced hint is already taken care of.
MergeFor(e, k, v) ==
    /\ Merge(k, v)
    /\ emitter' = [emitter EXCEPT ![e] =
                      IF Coalesces(k) THEN NoEmission
                      ELSE [at |-> IF Saturated(k) THEN "fallback" ELSE "send",
                            key |-> k, hint |-> v]]
    /\ owed' = IF Coalesces(k) THEN owed \cup {k} ELSE owed
    /\ UNCHANGED <<channel, queue, worker>>

\* A Runtime event or the periodic scan.
Emit(e) ==
    /\ e \in Pushers
    /\ emitter[e] = NoEmission
    /\ produced < MaxHints
    /\ produced' = produced + 1
    /\ \E k \in Keys, v \in Hint : v.kind # "DesiredState" /\ MergeFor(e, k, v)

\* The source runs again from its own queue: it reads its workload and the Task
\* anew, and emits for the incarnation it finds; if one of them is gone, it ends.
Again(e) ==
    /\ emitter[e].at = "retry"
    /\ \/ \E u \in UIDs : MergeFor(e, emitter[e].key, [emitter[e].hint EXCEPT !.uid = u])
       \/ /\ e \notin Lasting
          /\ EmitterGoes(e, "idle")
          /\ UNCHANGED <<accumulator, channel, queue, worker, owed>>
    /\ UNCHANGED produced

\* A Runtime event that failed goes back to the queue of its source; the scan
\* counts the pressure and goes on with the next Task.
AfterError(e) == IF e \in Persistent THEN "retry" ELSE "idle"

\* emit, the send: a full channel is an error to the caller.
Send(e) ==
    /\ emitter[e].at \in {"send", "fallback"}
    /\ IF HasRoom
       THEN /\ channel' = Append(channel, emitter[e].key)
            /\ owed' = owed \cup {emitter[e].key}
            /\ EmitterGoes(e, "idle")
       ELSE /\ UNCHANGED <<channel, owed>>
            /\ EmitterGoes(e, IF emitter[e].at = "send" THEN "failed" ELSE AfterError(e))
    /\ UNCHANGED <<accumulator, queue, worker, produced>>

\* emit, the error: a retained hint gives back its queued mark.
Unqueue(e) ==
    /\ emitter[e].at = "failed"
    /\ WakeupFailed(emitter[e].key)
    /\ EmitterGoes(e, AfterError(e))
    /\ UNCHANGED <<channel, queue, worker, owed, produced>>

\* A management Task event: merge, whatever the result, then add the key.
Desired(e) ==
    /\ e \in Watchers
    /\ emitter[e] = NoEmission
    /\ produced < MaxHints
    /\ produced' = produced + 1
    /\ \E k \in Keys, v \in Hint :
          /\ v.kind = "DesiredState"
          /\ Merge(k, v)
          /\ emitter' = [emitter EXCEPT ![e] = [at |-> "add", key |-> k, hint |-> v]]
    /\ UNCHANGED <<channel, queue, worker, owed>>

Add(e) ==
    /\ emitter[e].at = "add"
    /\ queue' = queue \cup {emitter[e].key}
    /\ owed' = owed \cup {emitter[e].key}
    /\ EmitterGoes(e, "idle")
    /\ UNCHANGED <<accumulator, channel, worker, produced>>

----------------------------------------------------------------------------
(* Queue and reconciles.                                                    *)

\* The channel source hands the next key to the workqueue, which keeps one of
\* each.
Forward ==
    /\ channel # <<>>
    /\ queue' = queue \cup {Head(channel)}
    /\ channel' = Tail(channel)
    /\ UNCHANGED <<accumulator, worker, emitter, owed, produced>>

\* A worker gets a key nobody works on, and takes its hints.
Begin(k) ==
    /\ worker[k] = "none"
    /\ k \in queue
    /\ queue' = queue \ {k}
    /\ Take(k)
    /\ worker' = [worker EXCEPT ![k] = "running"]
    /\ owed' = owed \ {k}
    /\ UNCHANGED <<channel, emitter, produced>>

\* The worker returns the key to the workqueue; a requeue adds it again.
Return(k, requeue) ==
    /\ worker' = [worker EXCEPT ![k] = "none"]
    /\ queue' = IF requeue THEN queue \cup {k} ELSE queue

\* finish, after dispatch: without new hints the reconcile is over, or comes
\* back because the Host asked for it.
Finish(k) ==
    /\ worker[k] = "running"
    /\ Done(k)
    /\ IF MustWake(k)
       THEN worker' = [worker EXCEPT ![k] = "send"] /\ UNCHANGED queue
       ELSE \E requeue \in BOOLEAN : Return(k, requeue)
    /\ UNCHANGED <<channel, emitter, owed, produced>>

\* finish, the send of the wakeup for hints that came during the reconcile.
FinishSend(k) ==
    /\ worker[k] = "send"
    /\ IF HasRoom
       THEN /\ channel' = Append(channel, k)
            /\ \E requeue \in BOOLEAN : Return(k, requeue)
       ELSE /\ worker' = [worker EXCEPT ![k] = "failed"]
            /\ UNCHANGED <<channel, queue>>
    /\ UNCHANGED <<accumulator, emitter, owed, produced>>

\* MUTANT of FinishRequeue: the key is not requeued.
FinishRequeueDropped(k) ==
    /\ worker[k] = "failed"
    /\ WakeupFailed(k)
    /\ Return(k, FALSE)
    /\ UNCHANGED <<channel, emitter, owed, produced>>

\* finish, under channel pressure: the reconcile requeues its own key.
FinishRequeue(k) ==
    /\ worker[k] = "failed"
    /\ WakeupFailed(k)
    /\ Return(k, TRUE)
    /\ UNCHANGED <<channel, emitter, owed, produced>>

----------------------------------------------------------------------------
Init ==
    /\ pending = [k \in Keys |-> EmptySet]
    /\ entries = {}
    /\ queued = {}
    /\ processing = {}
    /\ channel = <<>>
    /\ queue = {}
    /\ worker = [k \in Keys |-> "none"]
    /\ emitter = [e \in Emitters |-> NoEmission]
    /\ hints = [k \in Keys |-> {}]
    /\ owed = {}
    /\ produced = 0

EmitterStep(e) == Again(e) \/ Send(e) \/ Unqueue(e) \/ Add(e)
WorkerStep(k) == Begin(k) \/ Finish(k) \/ FinishSend(k) \/ FinishRequeue(k)

Next ==
    \/ \E e \in Emitters : Emit(e) \/ Desired(e) \/ EmitterStep(e)
    \/ \E k \in Keys : WorkerStep(k)
    \/ Forward

Spec == Init /\ [][Next]_vars

\* Goroutines, the channel source and the workers keep running; sources are not
\* forced to produce hints.
Fairness ==
    /\ \A e \in Emitters : WF_vars(EmitterStep(e))
    /\ \A k \in Keys : WF_vars(WorkerStep(k))
    /\ WF_vars(Forward)

FairSpec == Spec /\ Fairness

----------------------------------------------------------------------------
(* Properties.                                                              *)

\* Every variable has the values the code gives it; no batch keeps more than
\* MaxRoots roots.
TypeOK ==
    /\ pending \in [Keys -> Batch]
    /\ entries \subseteq Keys /\ IsFiniteSet(entries)
    /\ queued \subseteq Keys
    /\ processing \subseteq Keys
    /\ channel \in Seq(Keys)
    /\ queue \subseteq Keys
    /\ worker \in [Keys -> {"none", "running", "send", "failed"}]
    /\ emitter \in [Emitters -> Emission]
    /\ hints \in [Keys -> SUBSET Hint]
    /\ owed \subseteq Keys
    /\ produced \in 0..MaxHints

\* A batch b that does not ask for a full reconcile stands exactly for hints hs.
Covers(b, hs) ==
    ~b.full =>
        /\ b.roots = {v.root : v \in hs}
        /\ \A v \in hs : v.kind = "RuntimeState" /\ v.uid = b.uid

\* A batch that does not ask for a full reconcile stands exactly for the hints
\* merged into it: Runtime events of one incarnation, each with its root. So
\* the single-root gate of dispatch never overlooks another root, another
\* incarnation or a full-reconcile hint.
BatchCoversHints == \A k \in Keys : Covers(pending[k], hints[k])

\* A key on its way to a worker.
Awake(k) ==
    \/ k \in queue
    \/ \E i \in 1..Len(channel) : channel[i] = k
    \/ \E e \in Emitters : emitter[e].key = k
    \/ worker[k] # "none"

\* A hint taken without an error, coalesced ones included, has a wakeup on its
\* way, an emitter of the same key that goes on, or a reconcile that will ask
\* for a wakeup, until a reconcile has started after it: a coalesced hint never
\* relies on a wakeup another emitter failed to deliver.
EveryHintIsAwake == \A k \in owed : Awake(k)

\* Capacity is only held by keys with hints or a reconcile, so an idle Task
\* never keeps another one out.
NoIdleEntry ==
    /\ \A k \in entries : ~SetEmpty(pending[k]) \/ k \in processing
    /\ Cardinality(entries) <= MaxKeys

\* The reconcile that has taken hints of a key is the only one of that key.
ProcessingHasWorker == \A k \in processing : worker[k] = "running"

\* The bridge implements the queue its sources count on, where a key is dirty
\* while it is owed a reconcile: keys are never lost in the channel, in the gap
\* between a merge and its send, or under pressure, so that each owed key gets a
\* reconcile that starts after its hint, and no key gets two at a time.
Queue == INSTANCE HintQueue WITH dirty <- owed, busy <- {k \in Keys : worker[k] # "none"}
ImplementsQueue == Queue!FairSpec

=============================================================================
