------------------------ MODULE TriggerBridgeProofs ------------------------
(***************************************************************************)
(* Safety of the trigger bridge for every number of Tasks, emitters and    *)
(* hints and every capacity.                                               *)
(*                                                                         *)
(* AccumulatorInv is the inductive invariant of the accumulator: an entry  *)
(* exists exactly as long as it has hints or a reconcile, the queued and   *)
(* the processing marks exclude each other, and a batch covers its hints.  *)
(* WakeupInv follows the promise made to an emitter: a queued mark stands  *)
(* for a wakeup somebody delivers, and an owed hint for a wakeup or for a  *)
(* reconcile that will find it.                                            *)
(***************************************************************************)
EXTENDS TriggerBridge, TLAPS, FiniteSetTheorems

\* An entry lives exactly as long as it has hints or a reconcile, and a key is
\* queued or processing, never both.
EntryInv ==
    /\ Cardinality(entries) <= MaxKeys
    /\ \A k \in Keys \ entries : SetEmpty(pending[k]) /\ k \notin queued \cup processing
    /\ \A k \in entries : ~SetEmpty(pending[k]) \/ k \in processing
    /\ queued \cap processing = {}

\* What TypeOK says of the accumulator alone.
AccumulatorType ==
    /\ pending \in [Keys -> Batch]
    /\ entries \subseteq Keys /\ IsFiniteSet(entries)
    /\ queued \subseteq Keys
    /\ processing \subseteq Keys
    /\ hints \in [Keys -> SUBSET Hint]

AccumulatorInv == AccumulatorType /\ EntryInv /\ BatchCoversHints

CoreInv == TypeOK /\ EntryInv /\ BatchCoversHints /\ ProcessingHasWorker

\* The key of a wakeup that has left its sender.
InFlight(k) == k \in queue \/ \E i \in 1..Len(channel) : channel[i] = k

\* Somebody who has marked k queued and has not yet delivered the wakeup.
Delivering(k) ==
    \/ \E e \in Emitters : emitter[e].key = k /\ emitter[e].at \in {"send", "failed", "add"}
    \/ worker[k] \in {"send", "failed"}

\* What a hint taken without an error may rely on.
Promised(k) ==
    \/ InFlight(k)
    \/ k \in queued
    \/ k \in processing /\ ~SetEmpty(pending[k])
    \/ \E e \in Emitters : emitter[e].key = k
    \/ worker[k] \in {"send", "failed"}

WakeupInv ==
    /\ \A e \in Watchers : emitter[e].at \in {"idle", "add"}
    /\ \A k \in queued : InFlight(k) \/ Delivering(k)
    /\ \A k \in owed : Promised(k)

----------------------------------------------------------------------------
\* The empty batch, which Take leaves behind, is a batch.
LEMMA EmptyBatch ==
    ASSUME BridgeAssumption
    PROVE  EmptySet \in Batch /\ SetEmpty(EmptySet)
<1>1. IsFiniteSet({}) /\ Cardinality({}) = 0
  BY FS_EmptySet
<1> QED
  BY <1>1 DEF EmptySet, Batch, SetEmpty, BridgeAssumption

\* mergeSet returns a batch within its bound, and never an empty one.
LEMMA MergedBatch ==
    ASSUME BridgeAssumption, NEW b \in Batch, NEW v \in Hint
    PROVE  MergeSet(b, v) \in Batch /\ ~SetEmpty(MergeSet(b, v))
<1> DEFINE new == IF v.root = None THEN {} ELSE {v.root}
           roots == b.roots \cup new
           full == b.full \/ v.kind \in FullKinds \/ b.uid \notin {None, v.uid}
           over == Cardinality(roots) > MaxRoots
<1>1. /\ v.kind \in FullKinds \cup {"RuntimeState"}
      /\ v.uid \in UIDs
      /\ v.root \in Roots \cup {None}
  BY DEF Hint
<1>2. /\ b.kinds \in SUBSET (FullKinds \cup {"RuntimeState"})
      /\ b.uid \in UIDs \cup {None}
      /\ b.roots \in SUBSET Roots
      /\ IsFiniteSet(b.roots)
      /\ b.full \in BOOLEAN
  BY DEF Batch
<1>3. IsFiniteSet(new)
  BY FS_EmptySet, FS_Singleton
<1>4. roots \in SUBSET Roots /\ IsFiniteSet(roots) /\ Cardinality(roots) \in Nat
  BY <1>1, <1>2, <1>3, FS_Union, FS_CardinalityType
<1>5. full \in BOOLEAN /\ over \in BOOLEAN
  OBVIOUS
<1> DEFINE kept == IF full \/ over THEN {} ELSE roots
<1>6. kept \in {rs \in SUBSET Roots : IsFiniteSet(rs) /\ Cardinality(rs) <= MaxRoots}
  <2>1. CASE full \/ over
    BY <2>1, FS_EmptySet DEF BridgeAssumption
  <2>2. CASE ~(full \/ over)
    <3>1. Cardinality(roots) <= MaxRoots
      BY <2>2, <1>4 DEF BridgeAssumption
    <3> QED
      BY <2>2, <3>1, <1>4
  <2> QED
    BY <2>1, <2>2
<1>7. MergeSet(b, v) = [kinds |-> b.kinds \cup {v.kind},
                        uid |-> IF b.uid = None THEN v.uid ELSE b.uid,
                        roots |-> kept, full |-> full \/ over]
  BY DEF MergeSet
<1>8. MergeSet(b, v) \in Batch
  <2> HIDE DEF kept, full, over
  <2>1. full \/ over \in BOOLEAN
    BY <1>5
  <2> QED
    BY <1>1, <1>2, <1>6, <1>7, <2>1 DEF Batch
<1>9. MergeSet(b, v).kinds # {}
  BY <1>7
<1> QED
  BY <1>8, <1>9 DEF SetEmpty, EmptySet

\* A merged batch that does not ask for a full reconcile covers what it covered
\* before and the new hint.
LEMMA MergedCovers ==
    ASSUME BridgeAssumption, NEW b \in Batch, NEW hs \in SUBSET Hint, NEW v \in Hint,
           Covers(b, hs)
    PROVE  Covers(MergeSet(b, v), hs \cup {v})
<1> SUFFICES ASSUME ~MergeSet(b, v).full
             PROVE  /\ MergeSet(b, v).roots = {w.root : w \in hs \cup {v}}
                    /\ \A w \in hs \cup {v} :
                          w.kind = "RuntimeState" /\ w.uid = MergeSet(b, v).uid
  BY DEF Covers
<1>1. /\ ~b.full
      /\ v.kind \notin FullKinds
      /\ b.uid \in {None, v.uid}
  BY DEF MergeSet
<1>2. v.kind = "RuntimeState" /\ v.root \in Roots /\ v.uid \in UIDs
  BY <1>1 DEF Hint, FullKinds
<1>3. v.root # None /\ v.uid # None
  BY <1>2 DEF BridgeAssumption
<1>4. MergeSet(b, v).roots = b.roots \cup {v.root}
  BY <1>3 DEF MergeSet
<1>5. MergeSet(b, v).uid = v.uid
  BY <1>1, <1>3 DEF MergeSet
<1>6. /\ b.roots = {w.root : w \in hs}
      /\ \A w \in hs : w.kind = "RuntimeState" /\ w.uid = b.uid
  BY <1>1 DEF Covers
<1>7. \A w \in hs : w.uid = v.uid
  <2>1. \A w \in hs : w.uid = b.uid /\ w.uid \in UIDs
    BY <1>6 DEF Hint
  <2> QED
    BY <2>1, <1>1 DEF BridgeAssumption
<1> QED
  BY <1>2, <1>4, <1>5, <1>6, <1>7

----------------------------------------------------------------------------
\* A merge keeps the accumulator in order: a new entry is made only below the
\* capacity, and it is queued unless a reconcile will look at it.
LEMMA MergeKeepsInv ==
    ASSUME BridgeAssumption, AccumulatorInv, NEW k \in Keys, NEW v \in Hint, Merge(k, v)
    PROVE  AccumulatorInv'
<1>1. CASE Saturated(k)
  BY <1>1 DEF AccumulatorInv, AccumulatorType, EntryInv, BatchCoversHints, Merge
<1>2. CASE ~Saturated(k)
  <2>1. /\ pending' = [pending EXCEPT ![k] = MergeSet(@, v)]
        /\ entries' = entries \cup {k}
        /\ queued' = IF k \in processing THEN queued ELSE queued \cup {k}
        /\ hints' = [hints EXCEPT ![k] = @ \cup {v}]
        /\ processing' = processing
    BY <1>2 DEF Merge
  <2>2. /\ pending \in [Keys -> Batch] /\ hints \in [Keys -> SUBSET Hint]
        /\ entries \subseteq Keys /\ IsFiniteSet(entries)
        /\ queued \subseteq Keys /\ processing \subseteq Keys
    BY DEF AccumulatorInv, AccumulatorType
  <2>3. MergeSet(pending[k], v) \in Batch /\ ~SetEmpty(MergeSet(pending[k], v))
    BY <2>2, MergedBatch
  <2>4. IsFiniteSet(entries \cup {k})
    BY <2>2, FS_AddElement
  <2>5. AccumulatorType'
    BY <2>1, <2>2, <2>3, <2>4 DEF AccumulatorType
  <2>6. EntryInv'
    <3>1. Cardinality(entries \cup {k}) <= MaxKeys
      <4>1. CASE k \in entries
        <5>1. entries \cup {k} = entries
          BY <4>1
        <5> QED
          BY <5>1 DEF AccumulatorInv, EntryInv
      <4>2. CASE k \notin entries
        <5>1. Cardinality(entries \cup {k}) = Cardinality(entries) + 1
          BY <4>2, <2>2, FS_AddElement
        <5>2. Cardinality(entries) \in Nat
          BY <2>2, FS_CardinalityType
        <5>3. ~(Cardinality(entries) >= MaxKeys)
          BY <1>2, <4>2 DEF Saturated
        <5> QED
          BY <5>1, <5>2, <5>3 DEF BridgeAssumption
      <4> QED
        BY <4>1, <4>2
    <3>2. \A j \in Keys \ entries' : SetEmpty(pending'[j]) /\ j \notin queued' \cup processing'
      <4>1. \A j \in Keys \ entries' : j # k /\ j \notin entries /\ pending'[j] = pending[j]
        BY <2>1, <2>2
      <4> QED
        BY <4>1, <2>1 DEF AccumulatorInv, EntryInv
    <3>3. \A j \in entries' : ~SetEmpty(pending'[j]) \/ j \in processing'
      <4>1. pending'[k] = MergeSet(pending[k], v)
        BY <2>1, <2>2
      <4>2. \A j \in entries' : j # k => j \in entries /\ pending'[j] = pending[j]
        BY <2>1, <2>2
      <4> QED
        BY <4>1, <4>2, <2>1, <2>3 DEF AccumulatorInv, EntryInv
    <3>4. queued' \cap processing' = {}
      BY <2>1 DEF AccumulatorInv, EntryInv
    <3> QED
      BY <2>1, <3>1, <3>2, <3>3, <3>4 DEF EntryInv
  <2>7. BatchCoversHints'
    <3> SUFFICES ASSUME NEW j \in Keys
                 PROVE  Covers(pending'[j], hints'[j])
      BY DEF BatchCoversHints
    <3>1. CASE j # k
      <4>1. pending'[j] = pending[j] /\ hints'[j] = hints[j]
        BY <3>1, <2>1, <2>2
      <4> QED
        BY <4>1 DEF AccumulatorInv, BatchCoversHints
    <3>2. CASE j = k
      <4>1. pending'[k] = MergeSet(pending[k], v) /\ hints'[k] = hints[k] \cup {v}
        BY <2>1, <2>2
      <4>2. pending[k] \in Batch /\ hints[k] \in SUBSET Hint
        BY <2>2
      <4>3. Covers(MergeSet(pending[k], v), hints[k] \cup {v})
        BY <4>2, MergedCovers DEF AccumulatorInv, BatchCoversHints
      <4> QED
        BY <3>2, <4>1, <4>3
    <3> QED
      BY <3>1, <3>2
  <2> QED
    BY <2>5, <2>6, <2>7 DEF AccumulatorInv
<1> QED
  BY <1>1, <1>2

\* Taking the hints of a key leaves an entry with a reconcile and no hints.
LEMMA TakeKeepsInv ==
    ASSUME BridgeAssumption, AccumulatorInv, NEW k \in Keys, Take(k)
    PROVE  AccumulatorInv'
<1>1. CASE ~(k \in entries /\ k \notin processing)
  BY <1>1 DEF AccumulatorInv, AccumulatorType, EntryInv, BatchCoversHints, Take, accumulator
<1>2. CASE k \in entries /\ k \notin processing
  <2>1. /\ queued' = queued \ {k}
        /\ processing' = processing \cup {k}
        /\ pending' = [pending EXCEPT ![k] = EmptySet]
        /\ hints' = [hints EXCEPT ![k] = {}]
        /\ entries' = entries
    BY <1>2 DEF Take
  <2>2. AccumulatorType'
    BY <2>1, EmptyBatch DEF AccumulatorInv, AccumulatorType
  <2>3. EntryInv'
    <3>1. \A j \in Keys : j # k => pending'[j] = pending[j]
      BY <2>1 DEF AccumulatorInv, AccumulatorType
    <3>2. \A j \in Keys \ entries : SetEmpty(pending'[j]) /\ j \notin queued' \cup processing'
      BY <1>2, <2>1, <3>1 DEF AccumulatorInv, EntryInv
    <3>3. \A j \in entries : ~SetEmpty(pending'[j]) \/ j \in processing'
      BY <2>1, <3>1 DEF AccumulatorInv, AccumulatorType, EntryInv
    <3>4. queued' \cap processing' = {}
      BY <2>1 DEF AccumulatorInv, EntryInv
    <3> QED
      BY <2>1, <3>2, <3>3, <3>4 DEF AccumulatorInv, EntryInv
  <2>4. BatchCoversHints'
    <3> SUFFICES ASSUME NEW j \in Keys
                 PROVE  Covers(pending'[j], hints'[j])
      BY DEF BatchCoversHints
    <3>1. CASE j # k
      <4>1. pending'[j] = pending[j] /\ hints'[j] = hints[j]
        BY <3>1, <2>1 DEF AccumulatorInv, AccumulatorType
      <4> QED
        BY <4>1 DEF AccumulatorInv, BatchCoversHints
    <3>2. CASE j = k
      <4>1. pending'[j] = EmptySet /\ hints'[j] = {}
        BY <3>2, <2>1 DEF AccumulatorInv, AccumulatorType
      <4>2. {w.root : w \in {}} = {}
        OBVIOUS
      <4> QED
        BY <4>1, <4>2 DEF EmptySet, Covers
    <3> QED
      BY <3>1, <3>2
  <2> QED
    BY <2>2, <2>3, <2>4 DEF AccumulatorInv
<1> QED
  BY <1>1, <1>2

\* The end of a reconcile removes an entry without hints and keeps any other.
LEMMA DoneKeepsInv ==
    ASSUME BridgeAssumption, AccumulatorInv, NEW k \in Keys, Done(k)
    PROVE  AccumulatorInv' /\ processing' = processing \ {k}
<1>1. /\ processing' = processing \ {k}
      /\ entries' = IF k \in processing /\ SetEmpty(pending[k]) THEN entries \ {k} ELSE entries
      /\ queued' = IF MustWake(k) THEN queued \cup {k} ELSE queued \cap entries'
      /\ pending' = pending /\ hints' = hints
  BY DEF Done
<1>2. IsFiniteSet(entries) /\ Cardinality(entries) \in Nat
  BY FS_CardinalityType DEF AccumulatorInv, AccumulatorType
<1>3. IsFiniteSet(entries') /\ Cardinality(entries') <= Cardinality(entries)
  <2>1. entries' \subseteq entries
    BY <1>1
  <2>2. IsFiniteSet(entries') /\ Cardinality(entries') <= Cardinality(entries)
    BY <1>2, <2>1, FS_Subset
  <2> QED
    BY <2>2
<1>4. AccumulatorType'
  BY <1>1, <1>3 DEF AccumulatorInv, AccumulatorType
<1>5. EntryInv'
  <2>1. Cardinality(entries') <= MaxKeys
    <3>1. Cardinality(entries') \in Nat /\ Cardinality(entries) <= MaxKeys /\ MaxKeys \in Nat
      BY <1>3, FS_CardinalityType DEF AccumulatorInv, EntryInv, BridgeAssumption
    <3> QED
      BY <1>2, <1>3, <3>1
  <2>2. \A j \in Keys \ entries' : SetEmpty(pending'[j]) /\ j \notin queued' \cup processing'
    BY <1>1 DEF AccumulatorInv, EntryInv, MustWake
  <2>3. \A j \in entries' : ~SetEmpty(pending'[j]) \/ j \in processing'
    BY <1>1 DEF AccumulatorInv, EntryInv
  <2>4. queued' \cap processing' = {}
    BY <1>1 DEF AccumulatorInv, EntryInv
  <2> QED
    BY <2>1, <2>2, <2>3, <2>4 DEF EntryInv
<1>6. BatchCoversHints'
  BY <1>1 DEF AccumulatorInv, BatchCoversHints
<1> QED
  BY <1>1, <1>4, <1>5, <1>6 DEF AccumulatorInv

\* Giving a queued mark back loses no hint.
LEMMA WakeupFailedKeepsInv ==
    ASSUME AccumulatorInv, NEW k \in Keys, WakeupFailed(k)
    PROVE  AccumulatorInv'
BY DEF AccumulatorInv, AccumulatorType, EntryInv, BatchCoversHints, WakeupFailed

----------------------------------------------------------------------------
\* What sending a key does to the channel.
LEMMA Sent ==
    ASSUME NEW S, NEW s \in Seq(S), NEW x \in S
    PROVE  /\ Append(s, x) \in Seq(S)
           /\ Len(Append(s, x)) = Len(s) + 1
           /\ \A i \in 1..Len(s) : Append(s, x)[i] = s[i]
           /\ Append(s, x)[Len(s) + 1] = x
OBVIOUS

\* What receiving a key does to it.
LEMMA Received ==
    ASSUME NEW S, NEW s \in Seq(S), s # <<>>
    PROVE  /\ Head(s) \in S /\ Head(s) = s[1]
           /\ Tail(s) \in Seq(S)
           /\ Len(Tail(s)) = Len(s) - 1
           /\ \A i \in 1..Len(Tail(s)) : Tail(s)[i] = s[i + 1]
OBVIOUS

\* The accumulator part of the invariant, and back.
LEMMA CoreParts ==
    CoreInv <=> TypeOK /\ AccumulatorInv /\ ProcessingHasWorker
BY DEF CoreInv, AccumulatorInv, AccumulatorType, TypeOK

\* An emission that moves on is an emission.
LEMMA EmitterGoesType ==
    ASSUME BridgeAssumption, TypeOK, NEW e \in Emitters, emitter[e] # NoEmission,
           NEW at \in {"idle", "send", "fallback", "failed", "retry", "add"},
           EmitterGoes(e, at)
    PROVE  emitter' \in [Emitters -> Emission]
<1>1. emitter[e] \in [at : {"send", "fallback", "failed", "retry", "add"}, key : Keys, hint : Hint]
  BY DEF TypeOK, Emission
<1>2. (IF at = "idle" THEN NoEmission ELSE [emitter[e] EXCEPT !.at = at]) \in Emission
  BY <1>1 DEF Emission
<1>3. emitter' = [emitter EXCEPT ![e] = IF at = "idle" THEN NoEmission ELSE [emitter[e] EXCEPT !.at = at]]
  BY DEF EmitterGoes, TypeOK
<1> QED
  BY <1>2, <1>3 DEF TypeOK

\* An emitter that is under way knows its key and its hint.
LEMMA EmitterKnows ==
    ASSUME BridgeAssumption, TypeOK, NEW e \in Emitters, emitter[e].at # "idle"
    PROVE  emitter[e] # NoEmission /\ emitter[e].key \in Keys /\ emitter[e].hint \in Hint
BY DEF TypeOK, Emission, NoEmission

\* A source that runs again emits a hint of its key, or ends because its workload or
\* its Task is gone.
LEMMA AgainEmits ==
    ASSUME BridgeAssumption, TypeOK, NEW e \in Emitters, Again(e)
    PROVE  \/ \E v \in Hint : MergeFor(e, emitter[e].key, v)
           \/ /\ e \notin Lasting
              /\ EmitterGoes(e, "idle")
              /\ UNCHANGED <<accumulator, channel, queue, worker, owed>>
<1>1. emitter[e].hint \in Hint
  BY EmitterKnows DEF Again
<1>2. ASSUME NEW u \in UIDs PROVE [emitter[e].hint EXCEPT !.uid = u] \in Hint
  BY <1>1 DEF Hint
<1> QED
  BY <1>2 DEF Again

\* Emitting keeps the invariant, whether the hint is saturated, coalesced or
\* retained.
LEMMA MergeForKeepsCore ==
    ASSUME BridgeAssumption, CoreInv, NEW e \in Emitters, NEW k \in Keys, NEW v \in Hint,
           MergeFor(e, k, v), produced' \in 0..MaxHints
    PROVE  CoreInv'
<1>1. AccumulatorInv'
  <2>1. AccumulatorInv /\ Merge(k, v)
    BY CoreParts DEF MergeFor
  <2> QED
    BY <2>1, MergeKeepsInv
<1>2. TypeOK'
  <2>1. emitter' \in [Emitters -> Emission]
    BY DEF CoreInv, TypeOK, MergeFor, Emission
  <2> QED
    BY <1>1, <2>1 DEF CoreInv, TypeOK, MergeFor, AccumulatorInv, AccumulatorType
<1>3. ProcessingHasWorker'
  BY DEF CoreInv, ProcessingHasWorker, MergeFor, Merge
<1> QED
  BY <1>1, <1>2, <1>3 DEF CoreInv, AccumulatorInv

\* Every step of an emitter keeps the invariant.
LEMMA EmitterKeepsCore ==
    ASSUME BridgeAssumption, CoreInv, NEW e \in Emitters,
           Emit(e) \/ Desired(e) \/ EmitterStep(e)
    PROVE  CoreInv'
<1>1. CASE Emit(e)
  <2>1. PICK k \in Keys, v \in Hint : MergeFor(e, k, v)
    BY <1>1 DEF Emit
  <2>2. produced' \in 0..MaxHints
    BY <1>1 DEF Emit, CoreInv, TypeOK, BridgeAssumption
  <2> QED
    BY <2>1, <2>2, MergeForKeepsCore
<1>2. CASE Again(e)
  <2>1. emitter[e] # NoEmission /\ emitter[e].key \in Keys /\ produced' = produced
    BY <1>2, EmitterKnows DEF Again, CoreInv
  <2>2. CASE \E v \in Hint : MergeFor(e, emitter[e].key, v)
    <3>1. produced' \in 0..MaxHints
      BY <2>1 DEF CoreInv, TypeOK
    <3> QED
      BY <2>1, <2>2, <3>1, MergeForKeepsCore
  <2>3. CASE EmitterGoes(e, "idle") /\ UNCHANGED <<accumulator, channel, queue, worker, owed>>
    <3>1. emitter' \in [Emitters -> Emission]
      BY <2>1, <2>3, EmitterGoesType DEF CoreInv
    <3>2. TypeOK'
      BY <2>1, <2>3, <3>1 DEF CoreInv, TypeOK, accumulator
    <3> QED
      BY <2>3, <3>2 DEF CoreInv, EntryInv, BatchCoversHints, ProcessingHasWorker, accumulator
  <2> QED
    BY <1>2, <2>2, <2>3, AgainEmits DEF CoreInv
<1>3. CASE Send(e)
  <2>1. emitter[e] # NoEmission /\ emitter[e].key \in Keys
    BY <1>3, EmitterKnows DEF Send, CoreInv
  <2>2. emitter' \in [Emitters -> Emission]
    BY <1>3, <2>1, EmitterGoesType DEF Send, AfterError, CoreInv
  <2>3. channel' \in Seq(Keys)
    <3>1. channel \in Seq(Keys)
      BY DEF CoreInv, TypeOK
    <3>2. channel' = channel \/ channel' = Append(channel, emitter[e].key)
      BY <1>3 DEF Send
    <3> QED
      BY <2>1, <3>1, <3>2, Sent
  <2>4. TypeOK'
    BY <1>3, <2>1, <2>2, <2>3 DEF Send, CoreInv, TypeOK, accumulator
  <2> QED
    BY <1>3, <2>4 DEF Send, CoreInv, EntryInv, BatchCoversHints, ProcessingHasWorker, accumulator
<1>4. CASE Unqueue(e)
  <2>1. emitter[e] # NoEmission /\ emitter[e].key \in Keys
    BY <1>4, EmitterKnows DEF Unqueue, CoreInv
  <2>2. emitter' \in [Emitters -> Emission]
    BY <1>4, <2>1, EmitterGoesType DEF Unqueue, AfterError, CoreInv
  <2>3. AccumulatorInv'
    BY <1>4, <2>1, CoreParts, WakeupFailedKeepsInv DEF Unqueue
  <2>4. TypeOK'
    BY <1>4, <2>2, <2>3 DEF Unqueue, CoreInv, TypeOK, AccumulatorInv, AccumulatorType
  <2>5. ProcessingHasWorker'
    BY <1>4 DEF Unqueue, WakeupFailed, CoreInv, ProcessingHasWorker
  <2> QED
    BY <2>3, <2>4, <2>5 DEF CoreInv, AccumulatorInv
<1>6. CASE Desired(e)
  <2>1. PICK k \in Keys, v \in Hint :
           /\ Merge(k, v)
           /\ emitter' = [emitter EXCEPT ![e] = [at |-> "add", key |-> k, hint |-> v]]
    BY <1>6 DEF Desired
  <2>2. AccumulatorInv'
    BY <2>1, CoreParts, MergeKeepsInv
  <2>3. emitter' \in [Emitters -> Emission]
    BY <2>1 DEF CoreInv, TypeOK, Emission
  <2>4. produced' \in 0..MaxHints
    BY <1>6 DEF Desired, CoreInv, TypeOK, BridgeAssumption
  <2>5. TypeOK'
    BY <1>6, <2>2, <2>3, <2>4 DEF Desired, CoreInv, TypeOK, AccumulatorInv, AccumulatorType
  <2>6. ProcessingHasWorker'
    BY <1>6, <2>1 DEF Desired, Merge, CoreInv, ProcessingHasWorker
  <2> QED
    BY <2>2, <2>5, <2>6 DEF CoreInv, AccumulatorInv
<1>7. CASE Add(e)
  <2>1. emitter[e] # NoEmission /\ emitter[e].key \in Keys
    BY <1>7, EmitterKnows DEF Add, CoreInv
  <2>2. emitter' \in [Emitters -> Emission]
    BY <1>7, <2>1, EmitterGoesType DEF Add, CoreInv
  <2>3. TypeOK'
    BY <1>7, <2>1, <2>2 DEF Add, CoreInv, TypeOK, accumulator
  <2> QED
    BY <1>7, <2>3 DEF Add, CoreInv, EntryInv, BatchCoversHints, ProcessingHasWorker, accumulator
<1> QED
  BY <1>1, <1>2, <1>3, <1>4, <1>6, <1>7 DEF EmitterStep

\* The channel source and the workers keep the invariant.
LEMMA WorkerKeepsCore ==
    ASSUME BridgeAssumption, CoreInv, NEW k \in Keys, WorkerStep(k)
    PROVE  CoreInv'
<1>1. CASE Begin(k)
  <2>1. AccumulatorInv'
    BY <1>1, CoreParts, TakeKeepsInv DEF Begin
  <2>2. TypeOK'
    BY <1>1, <2>1 DEF Begin, CoreInv, TypeOK, AccumulatorInv, AccumulatorType
  <2>3. ProcessingHasWorker'
    <3>1. processing' \subseteq processing \cup {k}
      BY <1>1 DEF Begin, Take, accumulator
    <3> QED
      BY <1>1, <3>1 DEF Begin, CoreInv, TypeOK, ProcessingHasWorker
  <2> QED
    BY <2>1, <2>2, <2>3 DEF CoreInv, AccumulatorInv
<1>2. CASE Finish(k)
  <2>1. AccumulatorInv' /\ processing' = processing \ {k}
    BY <1>2, CoreParts, DoneKeepsInv DEF Finish
  <2>2. /\ worker' \in [Keys -> {"none", "running", "send", "failed"}]
        /\ \A j \in Keys : j # k => worker'[j] = worker[j]
        /\ queue' \subseteq Keys
    BY <1>2 DEF Finish, Return, CoreInv, TypeOK
  <2>3. TypeOK'
    BY <1>2, <2>1, <2>2 DEF Finish, CoreInv, TypeOK, AccumulatorInv, AccumulatorType
  <2>4. ProcessingHasWorker'
    BY <2>1, <2>2 DEF CoreInv, TypeOK, ProcessingHasWorker
  <2> QED
    BY <2>1, <2>3, <2>4 DEF CoreInv, AccumulatorInv
<1>3. CASE FinishSend(k)
  <2>1. k \notin processing
    BY <1>3 DEF FinishSend, CoreInv, ProcessingHasWorker
  <2>2. /\ worker' \in [Keys -> {"none", "running", "send", "failed"}]
        /\ \A j \in Keys : j # k => worker'[j] = worker[j]
        /\ queue' \subseteq Keys
    BY <1>3 DEF FinishSend, Return, CoreInv, TypeOK
  <2>3. channel' \in Seq(Keys)
    <3>1. channel \in Seq(Keys) /\ Append(channel, k) \in Seq(Keys)
      BY Sent DEF CoreInv, TypeOK
    <3>2. channel' = channel \/ channel' = Append(channel, k)
      BY <1>3 DEF FinishSend
    <3> QED
      BY <3>1, <3>2
  <2>4. TypeOK'
    BY <1>3, <2>2, <2>3 DEF FinishSend, CoreInv, TypeOK, accumulator
  <2>5. ProcessingHasWorker'
    BY <1>3, <2>1, <2>2 DEF FinishSend, CoreInv, TypeOK, ProcessingHasWorker, accumulator
  <2> QED
    BY <1>3, <2>4, <2>5 DEF FinishSend, CoreInv, EntryInv, BatchCoversHints, accumulator
<1>4. CASE FinishRequeue(k)
  <2>1. k \notin processing /\ processing' = processing
    BY <1>4 DEF FinishRequeue, WakeupFailed, CoreInv, ProcessingHasWorker
  <2>2. /\ worker' \in [Keys -> {"none", "running", "send", "failed"}]
        /\ \A j \in Keys : j # k => worker'[j] = worker[j]
        /\ queue' \subseteq Keys
    BY <1>4 DEF FinishRequeue, Return, CoreInv, TypeOK
  <2>3. AccumulatorInv'
    BY <1>4, CoreParts, WakeupFailedKeepsInv DEF FinishRequeue
  <2>4. TypeOK'
    BY <1>4, <2>2, <2>3 DEF FinishRequeue, CoreInv, TypeOK, AccumulatorInv, AccumulatorType
  <2>5. ProcessingHasWorker'
    BY <2>1, <2>2 DEF CoreInv, TypeOK, ProcessingHasWorker
  <2> QED
    BY <2>3, <2>4, <2>5 DEF CoreInv, AccumulatorInv
<1> QED
  BY <1>1, <1>2, <1>3, <1>4 DEF WorkerStep

\* Forwarding touches neither the accumulator nor a worker.
LEMMA ForwardKeepsCore ==
    ASSUME CoreInv, Forward
    PROVE  CoreInv'
<1>1. channel \in Seq(Keys) /\ channel # <<>> /\ channel' = Tail(channel)
      /\ queue' = queue \cup {Head(channel)}
  BY DEF Forward, CoreInv, TypeOK
<1>2. channel' \in Seq(Keys) /\ queue' \subseteq Keys
  BY <1>1 DEF CoreInv, TypeOK
<1>3. TypeOK'
  BY <1>2 DEF Forward, CoreInv, TypeOK, accumulator
<1> QED
  BY <1>3 DEF Forward, CoreInv, EntryInv, BatchCoversHints, ProcessingHasWorker, accumulator

\* The inductive invariant holds for every number of Tasks, emitters and hints
\* and every capacity: the accumulator's marks, entries and batches agree with
\* each other and with the workers.
THEOREM CoreInvariant == Spec => []CoreInv
<1>1. Init => CoreInv
  <2> SUFFICES ASSUME Init PROVE CoreInv
    OBVIOUS
  <2>1. EmptySet \in Batch /\ SetEmpty(EmptySet)
    BY EmptyBatch, BridgeAssumption
  <2>2. IsFiniteSet({}) /\ Cardinality({}) = 0
    BY FS_EmptySet
  <2>3. TypeOK
    BY <2>1, <2>2, BridgeAssumption DEF Init, TypeOK, Emission, BridgeAssumption
  <2>4. EntryInv
    BY <2>1, <2>2, BridgeAssumption DEF Init, EntryInv, BridgeAssumption
  <2>5. BatchCoversHints
    <3>1. Covers(EmptySet, {})
      BY DEF Covers, EmptySet
    <3> QED
      BY <3>1 DEF Init, BatchCoversHints
  <2>6. ProcessingHasWorker
    BY DEF Init, ProcessingHasWorker
  <2> QED
    BY <2>3, <2>4, <2>5, <2>6 DEF CoreInv
<1>2. CoreInv /\ [Next]_vars => CoreInv'
  <2> SUFFICES ASSUME CoreInv, [Next]_vars PROVE CoreInv'
    OBVIOUS
  <2>1. CASE \E e \in Emitters : Emit(e) \/ Desired(e) \/ EmitterStep(e)
    BY <2>1, EmitterKeepsCore, BridgeAssumption
  <2>2. CASE \E k \in Keys : WorkerStep(k)
    BY <2>2, WorkerKeepsCore, BridgeAssumption
  <2>3. CASE Forward
    BY <2>3, ForwardKeepsCore
  <2>4. CASE UNCHANGED vars
    BY <2>4 DEF CoreInv, TypeOK, EntryInv, BatchCoversHints, ProcessingHasWorker, vars
  <2> QED
    BY <2>1, <2>2, <2>3, <2>4 DEF Next
<1> QED
  BY <1>1, <1>2, PTL DEF Spec

\* Every variable keeps its type: batches and entries stay within their bounds.
THEOREM TypeCorrect == Spec => []TypeOK
<1>1. CoreInv => TypeOK
  BY DEF CoreInv
<1> QED
  BY <1>1, CoreInvariant, PTL

\* No event of another root, of another incarnation and no request for a full
\* reconcile is hidden in a batch that dispatch takes for a single-root update.
THEOREM BatchesCoverHints == Spec => []BatchCoversHints
<1>1. CoreInv => BatchCoversHints
  BY DEF CoreInv
<1> QED
  BY <1>1, CoreInvariant, PTL

\* Idle Tasks hold no capacity, and the capacity is never exceeded.
THEOREM NoCapacityLeak == Spec => []NoIdleEntry
<1>1. CoreInv => NoIdleEntry
  BY DEF CoreInv, EntryInv, NoIdleEntry
<1> QED
  BY <1>1, CoreInvariant, PTL

\* Hints are only ever held by the one reconcile of their key that is running.
THEOREM OneReconcilePerKey == Spec => []ProcessingHasWorker
<1>1. CoreInv => ProcessingHasWorker
  BY DEF CoreInv
<1> QED
  BY <1>1, CoreInvariant, PTL

----------------------------------------------------------------------------
\* A wakeup in flight stays in flight while keys are only added.
LEMMA InFlightStays ==
    ASSUME TypeOK, NEW j \in Keys, InFlight(j), queue \subseteq queue',
           \/ channel' = channel
           \/ \E x \in Keys : channel' = Append(channel, x)
    PROVE  InFlight(j)'
<1>1. CASE channel' = channel
  BY <1>1 DEF InFlight
<1>2. CASE \E x \in Keys : channel' = Append(channel, x)
  <2>1. PICK x \in Keys : channel' = Append(channel, x)
    BY <1>2
  <2>2. channel \in Seq(Keys) /\ Len(channel) \in Nat
    BY DEF TypeOK
  <2>3. /\ Len(channel') = Len(channel) + 1
        /\ \A i \in 1..Len(channel) : channel'[i] = channel[i]
    BY <2>1, <2>2, Sent
  <2>4. ASSUME NEW i \in 1..Len(channel), channel[i] = j
        PROVE  InFlight(j)'
    <3>1. i \in 1..Len(channel')
      BY <2>2, <2>3
    <3> QED
      BY <3>1, <2>3, <2>4 DEF InFlight
  <2> QED
    BY <2>4 DEF InFlight
<1> QED
  BY <1>1, <1>2

\* A key that is sent is in flight.
LEMMA SentInFlight ==
    ASSUME TypeOK, NEW j \in Keys, channel' = Append(channel, j)
    PROVE  InFlight(j)'
<1>1. channel \in Seq(Keys) /\ Len(channel) \in Nat
  BY DEF TypeOK
<1>2. Len(channel') = Len(channel) + 1 /\ channel'[Len(channel) + 1] = j
  BY <1>1, Sent
<1>3. Len(channel) + 1 \in 1..Len(channel')
  BY <1>1, <1>2
<1> QED
  BY <1>2, <1>3 DEF InFlight

\* A merge keeps every promise, and a coalesced hint gets one: its key has a
\* wakeup somebody else delivers, or a reconcile that will find it.
LEMMA MergeForKeepsWakeups ==
    ASSUME BridgeAssumption, CoreInv, WakeupInv,
           NEW e \in Emitters, NEW k \in Keys, NEW v \in Hint, MergeFor(e, k, v),
           e \notin Watchers,
           emitter[e] = NoEmission \/ (emitter[e].at = "retry" /\ emitter[e].key = k)
    PROVE  WakeupInv'
<1>1. /\ Merge(k, v) /\ processing' = processing
      /\ UNCHANGED <<channel, queue, worker>>
      /\ emitter' = [emitter EXCEPT ![e] = IF Coalesces(k) THEN NoEmission
                        ELSE [at |-> IF Saturated(k) THEN "fallback" ELSE "send",
                              key |-> k, hint |-> v]]
      /\ owed' = IF Coalesces(k) THEN owed \cup {k} ELSE owed
  BY DEF MergeFor, Merge
<1>2. /\ \A d \in Emitters : d # e => emitter'[d] = emitter[d]
      /\ Coalesces(k) => emitter'[e] = NoEmission
      /\ ~Coalesces(k) => emitter'[e].key = k
      /\ ~Coalesces(k) /\ ~Saturated(k) => emitter'[e].at = "send"
  BY <1>1 DEF CoreInv, TypeOK
<1>3. /\ emitter[e].at \notin {"send", "failed", "add"}
      /\ \A j \in Keys : emitter[e].key = j => j = k
  BY DEF NoEmission, BridgeAssumption
<1>4. /\ queued \subseteq queued' /\ queued' \subseteq queued \cup {k}
      /\ k \in queued' \ queued => ~Coalesces(k) /\ ~Saturated(k)
      /\ \A j \in Keys : j # k => pending'[j] = pending[j]
  BY <1>1 DEF Merge, Coalesces, CoreInv, TypeOK
<1>5. \A j \in Keys : InFlight(j) => InFlight(j)'
  BY <1>1 DEF InFlight
<1>6. \A j \in queued' : InFlight(j)' \/ Delivering(j)'
  <2> SUFFICES ASSUME NEW j \in queued' PROVE InFlight(j)' \/ Delivering(j)'
    OBVIOUS
  <2>1. CASE j \in queued
    <3>1. j \in Keys /\ (InFlight(j) \/ Delivering(j))
      BY <2>1 DEF WakeupInv, CoreInv, TypeOK
    <3>2. Delivering(j) => Delivering(j)'
      BY <1>1, <1>2, <1>3 DEF Delivering
    <3> QED
      BY <3>1, <3>2, <1>5
  <2>2. CASE j \notin queued
    <3>1. j = k /\ emitter'[e].at = "send" /\ emitter'[e].key = k
      BY <2>2, <1>2, <1>4
    <3> QED
      BY <3>1 DEF Delivering
  <2> QED
    BY <2>1, <2>2
<1>7. \A j \in owed' : Promised(j)'
  <2> SUFFICES ASSUME NEW j \in owed' PROVE Promised(j)'
    OBVIOUS
  <2>1. CASE j # k
    <3>1. j \in Keys /\ Promised(j)
      BY <2>1, <1>1 DEF WakeupInv, CoreInv, TypeOK
    <3>2. (\E d \in Emitters : emitter[d].key = j) => \E d \in Emitters : emitter'[d].key = j
      BY <3>1, <2>1, <1>2, <1>3
    <3> QED
      BY <3>1, <3>2, <2>1, <1>1, <1>4, <1>5 DEF Promised, SetEmpty
  <2>2. CASE j = k /\ Coalesces(k)
    <3>1. CASE k \in queued
      BY <3>1, <2>2, <1>4 DEF Promised
    <3>2. CASE k \in processing
      <4>1. ~Saturated(k)
        BY <3>2 DEF CoreInv, EntryInv, Saturated
      <4>2. pending'[k] = MergeSet(pending[k], v) /\ pending[k] \in Batch
        BY <4>1, <1>1 DEF Merge, CoreInv, TypeOK
      <4>3. ~SetEmpty(pending'[k])
        BY <4>2, MergedBatch
      <4> QED
        BY <4>3, <3>2, <2>2, <1>1 DEF Promised, SetEmpty
    <3> QED
      BY <2>2, <3>1, <3>2 DEF Coalesces
  <2>3. CASE j = k /\ ~Coalesces(k)
    BY <2>3, <1>2 DEF Promised
  <2> QED
    BY <2>1, <2>2, <2>3
<1>8. \A d \in Watchers : emitter'[d].at \in {"idle", "add"}
  BY <1>2 DEF WakeupInv, Emitters
<1> QED
  BY <1>6, <1>7, <1>8 DEF WakeupInv

\* Every step of an emitter keeps every promise if every emitter of the bridge
\* repeats a failed emission.
LEMMA EmitterKeepsWakeups ==
    ASSUME BridgeAssumption, Lasting = Pushers, CoreInv, WakeupInv, NEW e \in Emitters,
           Emit(e) \/ Desired(e) \/ EmitterStep(e)
    PROVE  WakeupInv'
<1>0. PICK k : k = emitter[e].key
  OBVIOUS
<1> USE <1>0 DEF NoEmission
<1>1. CASE Emit(e)
  <2>1. PICK j \in Keys, v \in Hint : MergeFor(e, j, v)
    BY <1>1 DEF Emit
  <2>2. e \notin Watchers /\ emitter[e] = NoEmission
    BY <1>1 DEF Emit, BridgeAssumption
  <2> QED
    BY <2>1, <2>2, MergeForKeepsWakeups
<1>2. CASE Again(e)
  <2>1. k \in Keys /\ emitter[e].at = "retry" /\ e \notin Watchers
    BY <1>2, EmitterKnows DEF Again, CoreInv, WakeupInv
  <2>2. PICK v \in Hint : MergeFor(e, k, v)
    BY <1>2, <2>1, AgainEmits DEF Emitters, CoreInv
  <2> QED
    BY <2>1, <2>2, MergeForKeepsWakeups
<1>3. CASE Send(e)
  <2>1. k \in Keys /\ emitter[e].at \in {"send", "fallback"}
    BY <1>3, EmitterKnows DEF Send, CoreInv
  <2>2. UNCHANGED <<pending, queued, processing, queue, worker>>
    BY <1>3 DEF Send, accumulator
  <2>3. \A d \in Emitters : d # e => emitter'[d] = emitter[d]
    BY <1>3 DEF Send, EmitterGoes, CoreInv, TypeOK
  <2>4. e \notin Watchers
    BY <2>1 DEF WakeupInv
  <2>5. \A j \in Keys : InFlight(j) => InFlight(j)'
    <3>1. channel' = channel \/ channel' = Append(channel, k)
      BY <1>3 DEF Send
    <3> QED
      BY <3>1, <2>1, <2>2, InFlightStays DEF CoreInv
  <2>6. CASE HasRoom
    <3>1. channel' = Append(channel, k) /\ owed' = owed \cup {k} /\ emitter'[e] = NoEmission
      BY <2>6, <1>3 DEF Send, EmitterGoes, CoreInv, TypeOK
    <3>2. InFlight(k)'
      BY <2>1, <3>1, SentInFlight DEF CoreInv
    <3>3. \A j \in queued' : InFlight(j)' \/ Delivering(j)'
      BY <2>2, <2>3, <2>5, <3>2 DEF WakeupInv, Delivering, CoreInv, TypeOK
    <3>4. \A j \in owed' : Promised(j)'
      <4> SUFFICES ASSUME NEW j \in owed' PROVE Promised(j)'
        OBVIOUS
      <4>1. CASE j = k
        BY <4>1, <3>2 DEF Promised
      <4>2. CASE j # k
        <5>1. j \in Keys /\ Promised(j)
          BY <4>2, <3>1 DEF WakeupInv, CoreInv, TypeOK
        <5> QED
          BY <4>2, <5>1, <2>2, <2>3, <2>5 DEF Promised, SetEmpty
      <4> QED
        BY <4>1, <4>2
    <3> QED
      BY <2>3, <2>4, <3>3, <3>4 DEF WakeupInv, Emitters
  <2>7. CASE ~HasRoom
    <3>1. /\ owed' = owed
          /\ emitter'[e].key = k
          /\ emitter[e].at = "send" => emitter'[e].at = "failed"
      BY <2>4, <2>7, <1>3 DEF Send, EmitterGoes, AfterError, BridgeAssumption,
         Emitters, CoreInv, TypeOK, Emission
    <3>2. \A j \in queued' : InFlight(j)' \/ Delivering(j)'
      BY <2>1, <2>2, <2>3, <2>5, <3>1 DEF WakeupInv, Delivering, CoreInv, TypeOK
    <3>3. \A j \in owed' : Promised(j)'
      BY <2>2, <2>3, <2>5, <3>1 DEF WakeupInv, Promised, CoreInv, TypeOK
    <3> QED
      BY <2>3, <2>4, <3>2, <3>3 DEF WakeupInv, Emitters
  <2> QED
    BY <2>6, <2>7
<1>4. CASE Unqueue(e)
  <2>1. k \in Keys /\ emitter[e].at = "failed"
    BY <1>4, EmitterKnows DEF Unqueue, CoreInv
  <2>2. /\ UNCHANGED <<pending, processing, channel, queue, worker, owed>>
        /\ queued' = IF k \in processing THEN queued ELSE queued \ {k}
    BY <1>4 DEF Unqueue, WakeupFailed
  <2>3. e \notin Watchers
    BY <2>1 DEF WakeupInv
  <2>4. /\ \A d \in Emitters : d # e => emitter'[d] = emitter[d]
        /\ emitter'[e].key = k
    BY <1>4, <2>1, <2>3 DEF Unqueue, EmitterGoes, AfterError, BridgeAssumption,
       Emitters, CoreInv, TypeOK, Emission
  <2>5. k \notin queued'
    BY <2>2 DEF CoreInv, EntryInv
  <2>6. \A j \in queued' : InFlight(j)' \/ Delivering(j)'
    BY <2>2, <2>4, <2>5 DEF WakeupInv, Delivering, InFlight
  <2>7. \A j \in owed' : Promised(j)'
    BY <2>2, <2>4 DEF WakeupInv, Promised, InFlight, SetEmpty
  <2> QED
    BY <2>3, <2>4, <2>6, <2>7 DEF WakeupInv, Emitters
<1>6. CASE Desired(e)
  <2>1. PICK j \in Keys, v \in Hint :
           /\ Merge(j, v)
           /\ emitter' = [emitter EXCEPT ![e] = [at |-> "add", key |-> j, hint |-> v]]
    BY <1>6 DEF Desired
  <2>2. emitter[e] = NoEmission /\ UNCHANGED <<channel, queue, worker, owed>>
    BY <1>6 DEF Desired
  <2>3. /\ \A d \in Emitters : d # e => emitter'[d] = emitter[d]
        /\ emitter'[e].key = j /\ emitter'[e].at = "add"
    BY <2>1 DEF CoreInv, TypeOK
  <2>4. /\ queued \subseteq queued' /\ queued' \subseteq queued \cup {j}
        /\ processing' = processing
        /\ \A i \in Keys : i # j => pending'[i] = pending[i]
    BY <2>1 DEF Merge, CoreInv, TypeOK
  <2>5. \A i \in queued' : InFlight(i)' \/ Delivering(i)'
    BY <2>2, <2>3, <2>4 DEF WakeupInv, Delivering, InFlight
  <2>6. \A i \in owed' : Promised(i)'
    BY <2>2, <2>3, <2>4 DEF WakeupInv, Promised, InFlight, SetEmpty, CoreInv, TypeOK, BridgeAssumption
  <2> QED
    BY <2>3, <2>5, <2>6 DEF WakeupInv, Emitters
<1>7. CASE Add(e)
  <2>1. k \in Keys
    BY <1>7, EmitterKnows DEF Add, CoreInv
  <2>2. /\ queue' = queue \cup {k} /\ owed' = owed \cup {k}
        /\ UNCHANGED <<pending, queued, processing, channel, worker>>
    BY <1>7 DEF Add, accumulator
  <2>3. /\ \A d \in Emitters : d # e => emitter'[d] = emitter[d]
        /\ emitter'[e].at = "idle"
    BY <1>7 DEF Add, EmitterGoes, CoreInv, TypeOK
  <2>4. \A j \in queued' : InFlight(j)' \/ Delivering(j)'
    BY <2>2, <2>3 DEF WakeupInv, Delivering, InFlight
  <2>5. \A j \in owed' : Promised(j)'
    BY <2>2, <2>3 DEF WakeupInv, Promised, InFlight, SetEmpty
  <2> QED
    BY <2>3, <2>4, <2>5 DEF WakeupInv, Emitters
<1> QED
  BY <1>1, <1>2, <1>3, <1>4, <1>6, <1>7 DEF EmitterStep

\* A reconcile that ends leaves no owed hint without a wakeup: what came during
\* it is marked, sent, or brought back by its own requeue.
LEMMA WorkerKeepsWakeups ==
    ASSUME BridgeAssumption, CoreInv, WakeupInv, NEW k \in Keys, WorkerStep(k)
    PROVE  WakeupInv'
<1>1. emitter' = emitter
  BY DEF WorkerStep, Begin, Finish, FinishSend, FinishRequeue
<1>2. CASE Begin(k)
  <2>1. /\ k \in queue /\ worker[k] = "none" /\ queue' = queue \ {k} /\ channel' = channel
        /\ Take(k) /\ owed' = owed \ {k}
        /\ \A j \in Keys : j # k => worker'[j] = worker[j]
    BY <1>2 DEF Begin, CoreInv, TypeOK
  <2>2. k \notin processing
    BY <2>1 DEF CoreInv, ProcessingHasWorker
  <2>3. /\ queued' = queued \ {k}
        /\ \A j \in Keys : j # k => pending'[j] = pending[j] /\ (j \in processing => j \in processing')
    BY <2>1, <2>2 DEF Take, accumulator, CoreInv, TypeOK, EntryInv
  <2>4. \A j \in queued' : InFlight(j)' \/ Delivering(j)'
    BY <1>1, <2>1, <2>3 DEF WakeupInv, Delivering, InFlight, CoreInv, TypeOK
  <2>5. \A j \in owed' : Promised(j)'
    BY <1>1, <2>1, <2>3 DEF WakeupInv, Promised, InFlight, SetEmpty, CoreInv, TypeOK
  <2> QED
    BY <1>1, <2>4, <2>5 DEF WakeupInv
<1>3. CASE Finish(k)
  <2>1. /\ worker[k] = "running" /\ Done(k) /\ channel' = channel /\ owed' = owed
        /\ pending' = pending /\ processing' = processing \ {k}
        /\ queue \subseteq queue'
        /\ \A j \in Keys : j # k => worker'[j] = worker[j]
        /\ MustWake(k) => worker'[k] = "send"
    BY <1>3 DEF Finish, Return, Done, CoreInv, TypeOK
  <2>2. \A j \in Keys : InFlight(j) => InFlight(j)'
    BY <2>1 DEF InFlight
  <2>3. /\ \A j \in Keys : j \in queued => j \in queued'
        /\ queued' \subseteq queued \cup {k}
        /\ k \in queued' \ queued => MustWake(k)
    BY <2>1 DEF Done, CoreInv, EntryInv, TypeOK
  <2>4. \A j \in queued' : InFlight(j)' \/ Delivering(j)'
    BY <1>1, <2>1, <2>2, <2>3 DEF WakeupInv, Delivering, CoreInv, TypeOK
  <2>5. \A j \in owed' : Promised(j)'
    <3> SUFFICES ASSUME NEW j \in owed PROVE Promised(j)'
      BY <2>1
    <3>1. j \in Keys /\ Promised(j)
      BY DEF WakeupInv, CoreInv, TypeOK
    <3>2. CASE j = k /\ MustWake(k)
      BY <3>2, <2>1 DEF Promised
    <3>3. CASE ~(j = k /\ MustWake(k))
      <4>1. j = k /\ k \in processing /\ ~SetEmpty(pending[k]) => k \in queued
        BY <3>3 DEF MustWake
      <4> QED
        BY <1>1, <2>1, <2>2, <2>3, <3>1, <4>1 DEF Promised, SetEmpty
    <3> QED
      BY <3>2, <3>3
  <2> QED
    BY <1>1, <2>4, <2>5 DEF WakeupInv
<1>4. CASE FinishSend(k)
  <2>1. /\ UNCHANGED <<pending, queued, processing, owed>>
        /\ queue \subseteq queue'
        /\ \A j \in Keys : j # k => worker'[j] = worker[j]
        /\ \/ channel' = Append(channel, k)
           \/ channel' = channel /\ worker'[k] = "failed"
    BY <1>4 DEF FinishSend, Return, accumulator, CoreInv, TypeOK
  <2>2. \A j \in Keys : InFlight(j) => InFlight(j)'
    BY <2>1, InFlightStays DEF CoreInv
  <2>3. InFlight(k)' \/ worker'[k] = "failed"
    BY <2>1, SentInFlight DEF CoreInv
  <2>4. \A j \in queued' : InFlight(j)' \/ Delivering(j)'
    BY <1>1, <2>1, <2>2, <2>3 DEF WakeupInv, Delivering, CoreInv, TypeOK
  <2>5. \A j \in owed' : Promised(j)'
    BY <1>1, <2>1, <2>2, <2>3 DEF WakeupInv, Promised, SetEmpty, CoreInv, TypeOK
  <2> QED
    BY <1>1, <2>4, <2>5 DEF WakeupInv
<1>5. CASE FinishRequeue(k)
  <2>1. /\ UNCHANGED <<pending, processing, channel, owed>>
        /\ queued' \subseteq queued /\ (\A j \in queued : j # k => j \in queued')
        /\ queue' = queue \cup {k}
        /\ \A j \in Keys : j # k => worker'[j] = worker[j]
    BY <1>5 DEF FinishRequeue, WakeupFailed, Return, CoreInv, TypeOK
  <2>2. \A j \in Keys : InFlight(j) => InFlight(j)'
    BY <2>1 DEF InFlight
  <2>3. InFlight(k)'
    BY <2>1 DEF InFlight
  <2>4. \A j \in queued' : InFlight(j)' \/ Delivering(j)'
    BY <1>1, <2>1, <2>2, <2>3 DEF WakeupInv, Delivering, CoreInv, TypeOK
  <2>5. \A j \in owed' : Promised(j)'
    BY <1>1, <2>1, <2>2, <2>3 DEF WakeupInv, Promised, SetEmpty, CoreInv, TypeOK
  <2> QED
    BY <1>1, <2>4, <2>5 DEF WakeupInv
<1> QED
  BY <1>2, <1>3, <1>4, <1>5 DEF WorkerStep

\* A key the channel source forwards goes to the workqueue.
LEMMA ForwardKeepsWakeups ==
    ASSUME CoreInv, WakeupInv, Forward
    PROVE  WakeupInv'
<1>1. /\ channel \in Seq(Keys) /\ channel # <<>>
      /\ channel' = Tail(channel) /\ queue' = queue \cup {Head(channel)}
      /\ UNCHANGED <<pending, queued, processing, worker, emitter, owed>>
  BY DEF Forward, CoreInv, TypeOK, accumulator
<1>2. ASSUME NEW j \in Keys, InFlight(j)
      PROVE  InFlight(j)'
  <2>1. /\ Head(channel) = channel[1]
        /\ Len(channel') = Len(channel) - 1
        /\ \A i \in 1..Len(channel') : channel'[i] = channel[i + 1]
    BY <1>1, Received
  <2>2. Len(channel) \in Nat
    BY <1>1
  <2>3. ASSUME NEW i \in 1..Len(channel), channel[i] = j
        PROVE  InFlight(j)'
    <3>1. CASE i = 1
      BY <3>1, <2>1, <2>3, <1>1 DEF InFlight
    <3>2. CASE i # 1
      <4>1. i - 1 \in 1..Len(channel') /\ channel'[i - 1] = channel[(i - 1) + 1] /\ (i - 1) + 1 = i
        BY <3>2, <2>1, <2>2
      <4> QED
        BY <4>1, <2>3 DEF InFlight
    <3> QED
      BY <3>1, <3>2
  <2> QED
    BY <1>1, <1>2, <2>3 DEF InFlight
<1>3. \A j \in queued' : InFlight(j)' \/ Delivering(j)'
  BY <1>1, <1>2 DEF WakeupInv, Delivering, CoreInv, TypeOK
<1>4. \A j \in owed' : Promised(j)'
  BY <1>1, <1>2 DEF WakeupInv, Promised, SetEmpty, CoreInv, TypeOK
<1> QED
  BY <1>1, <1>3, <1>4 DEF WakeupInv

\* If every emitter repeats a failed emission, and finds its workload and its Task
\* when it does, no hint taken without an error
\* is stranded: until a reconcile starts after it there is a wakeup on its way,
\* an emitter that goes on, or a reconcile that will find it.
THEOREM HintsStayAwake ==
    ASSUME Lasting = Pushers
    PROVE  Spec => []EveryHintIsAwake
<1>1. Init => WakeupInv
  BY DEF Init, WakeupInv, NoEmission, Emitters
<1>2. CoreInv /\ WakeupInv /\ [Next]_vars => WakeupInv'
  <2> SUFFICES ASSUME CoreInv, WakeupInv, [Next]_vars PROVE WakeupInv'
    OBVIOUS
  <2>1. CASE \E e \in Emitters : Emit(e) \/ Desired(e) \/ EmitterStep(e)
    BY <2>1, EmitterKeepsWakeups, BridgeAssumption
  <2>2. CASE \E k \in Keys : WorkerStep(k)
    BY <2>2, WorkerKeepsWakeups, BridgeAssumption
  <2>3. CASE Forward
    BY <2>3, ForwardKeepsWakeups
  <2>4. CASE UNCHANGED vars
    BY <2>4 DEF WakeupInv, InFlight, Delivering, Promised, SetEmpty, vars
  <2> QED
    BY <2>1, <2>2, <2>3, <2>4 DEF Next
<1>3. CoreInv /\ WakeupInv => EveryHintIsAwake
  <2> SUFFICES ASSUME CoreInv, WakeupInv, NEW k \in owed PROVE Awake(k)
    BY DEF EveryHintIsAwake
  <2>1. k \in Keys /\ Promised(k)
    BY DEF CoreInv, TypeOK, WakeupInv
  <2>2. InFlight(k) => Awake(k)
    BY DEF InFlight, Awake
  <2>3. Delivering(k) => Awake(k)
    BY DEF Delivering, Awake
  <2>4. k \in processing => Awake(k)
    BY <2>1 DEF CoreInv, ProcessingHasWorker, Awake
  <2> QED
    BY <2>1, <2>2, <2>3, <2>4 DEF Promised, WakeupInv, Awake
<1> QED
  BY <1>1, <1>2, <1>3, CoreInvariant, PTL DEF Spec

\* The keys the abstract queue calls busy: those whose reconcile runs.
Busy == {k \in Keys : worker[k] # "none"}

\* What a source of hints does is a hint of the abstract queue, or invisible to
\* it.
LEMMA EmitterImplementsQueue ==
    ASSUME TypeOK, NEW e \in Emitters, Emit(e) \/ Desired(e) \/ EmitterStep(e)
    PROVE  Busy' = Busy /\ (owed' = owed \/ \E k \in Keys : owed' = owed \cup {k})
<1>1. ASSUME NEW k \in Keys, NEW v, MergeFor(e, k, v)
      PROVE  Busy' = Busy /\ (owed' = owed \/ owed' = owed \cup {k})
  BY <1>1 DEF MergeFor, Busy
<1>2. emitter[e].at # "idle" => emitter[e].key \in Keys
  BY DEF TypeOK, Emission, NoEmission
<1>3. CASE Emit(e)
  BY <1>3, <1>1 DEF Emit
<1>4. CASE Desired(e)
  BY <1>4 DEF Desired, Busy
<1>5. CASE Again(e)
  BY <1>5, <1>1, <1>2 DEF Again, EmitterGoes, Busy
<1>6. CASE Send(e)
  BY <1>6, <1>2 DEF Send, Busy
<1>7. CASE Unqueue(e)
  BY <1>7 DEF Unqueue, Busy
<1>8. CASE Add(e)
  BY <1>8, <1>2 DEF Add, Busy
<1> QED
  BY <1>3, <1>4, <1>5, <1>6, <1>7, <1>8 DEF EmitterStep

\* What a worker does is a start, an end, or invisible to the abstract queue.
LEMMA WorkerImplementsQueue ==
    ASSUME TypeOK, NEW k \in Keys, WorkerStep(k)
    PROVE  \/ k \notin Busy /\ Busy' = Busy \cup {k} /\ owed' = owed \ {k}
           \/ k \in Busy /\ Busy' = Busy \ {k} /\ owed' = owed
           \/ Busy' = Busy /\ owed' = owed
<1>1. CASE Begin(k)
  <2>1. k \notin Busy /\ worker' = [worker EXCEPT ![k] = "running"] /\ owed' = owed \ {k}
    BY <1>1 DEF Begin, Busy
  <2>2. Busy' = Busy \cup {k}
    BY <2>1 DEF Busy, TypeOK
  <2> QED
    BY <2>1, <2>2
<1>2. ASSUME NEW r \in BOOLEAN, Return(k, r)
      PROVE  Busy' = Busy \ {k}
  BY <1>2 DEF Return, Busy, TypeOK
<1>3. ASSUME k \in Busy, NEW w, w # "none", worker' = [worker EXCEPT ![k] = w]
      PROVE  Busy' = Busy
  BY <1>3 DEF Busy, TypeOK
<1>4. CASE Finish(k)
  BY <1>4, <1>2, <1>3 DEF Finish, Busy
<1>5. CASE FinishSend(k)
  BY <1>5, <1>2, <1>3 DEF FinishSend, Busy
<1>6. CASE FinishRequeue(k)
  BY <1>6, <1>2 DEF FinishRequeue, Busy
<1> QED
  BY <1>1, <1>4, <1>5, <1>6 DEF WorkerStep

\* The bridge implements the abstract queue: each step accepts a hint, starts or
\* stops the one reconcile of a key, or changes nothing its sources count on.
\* That the reconciles start at all is liveness, which the runs check.
THEOREM QueueImplemented == Spec => Queue!Spec
<1>1. Init => Queue!Init
  BY DEF Init, Queue!Init
<1>2. TypeOK /\ [Next]_vars => [Queue!Next]_Queue!vars
  <2> SUFFICES ASSUME TypeOK, [Next]_vars PROVE [Queue!Next]_Queue!vars
    OBVIOUS
  <2>1. CASE \E e \in Emitters : Emit(e) \/ Desired(e) \/ EmitterStep(e)
    BY <2>1, EmitterImplementsQueue DEF Queue!Next, Queue!Accept, Queue!vars, Busy
  <2>2. CASE \E k \in Keys : WorkerStep(k)
    BY <2>2, WorkerImplementsQueue DEF Queue!Next, Queue!Start, Queue!Stop, Queue!vars, Busy
  <2>3. CASE Forward
    BY <2>3 DEF Forward, Queue!vars
  <2>4. CASE UNCHANGED vars
    BY <2>4 DEF vars, Queue!vars
  <2> QED
    BY <2>1, <2>2, <2>3, <2>4 DEF Next
<1> QED
  BY <1>1, <1>2, TypeCorrect, PTL DEF Spec, Queue!Spec

============================================================================
