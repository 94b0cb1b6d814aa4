--------------------------- MODULE JobTasksProofs ---------------------------
(***************************************************************************)
(* Safety of the Tasks of a Job, for every number of templates,            *)
(* namespaces, edits, restarts and faults.                                 *)
(*                                                                         *)
(* That a restart replaces a Task once rests on Restarts: the cache may be *)
(* behind, but never shows another life of a Task than the one there is,   *)
(* because a Task is only created where the cache shows none; and no Task  *)
(* is ahead of the pass that runs.                                         *)
(***************************************************************************)
EXTENDS JobTasks, SetLemmas

\* There is one way to be absent.
Canonical ==
    /\ \A k \in Keys : task[k].phase = "absent" => task[k] = Absent
    /\ \A k \in Keys : seen[k].phase = "absent" => seen[k] = Absent

\* There is a template left to dispatch.
Busy == wk.pc = "dispatch" => wk.left # {}

\* The finalizer keeps the Job while a pass runs.
Held ==
    /\ job.state = "deleting" => job.fin
    /\ wk.pc # "idle" => job.fin /\ job.state # "gone"

\* A copy in the cache is of the restart of the Task it copies; a pass is not
\* ahead of the Job, nor a Task ahead of the pass.
Restarts ==
    /\ \A k \in Keys : task[k] # Absent /\ seen[k] # Absent => seen[k].restart = task[k].restart
    /\ \A k \in Keys : task[k].restart <= job.restart
    /\ wk.pc \in {"plan", "dispatch"} =>
         /\ wk.j.restart <= job.restart
         /\ \A k \in Keys : task[k].restart <= wk.j.restart

CoreInv == TypeOK /\ Canonical /\ Busy /\ Held /\ Restarts

----------------------------------------------------------------------------
(* Types of what a pass computes.                                           *)

\* The state machine knows its phases only.
LEMMA FireType ==
    ASSUME NEW e, NEW phase \in Phases
    PROVE  Fire(e, phase) \in Phases
<1>1. ASSUME e \in DOMAIN Src PROVE Dst[e] \in Phases
  <2>1. e \in {"init", "running", "pending", "done", "failed", "stopped"}
    BY <1>1 DEF Src
  <2>2. \A p \in {"Pending", "Running", "Succeeded", "Failed", "Stopped"} : p \in Phases
    BY DEF Phases
  <2> QED
    BY <2>1, <2>2 DEF Dst
<1> QED
  BY <1>1 DEF Fire

\* A new Task, an absent one and one asked to go are Tasks; going never raises
\* the restart.
LEMMA TaskTypes ==
    ASSUME JobTasksAssumption
    PROVE  /\ Absent \in Tasks /\ Absent.restart = 0 /\ Absent.marker = FALSE
           /\ \A r \in 0..MaxRestarts : NewTask(r) \in Tasks /\ NewTask(r).restart = r
           /\ \A s \in Tasks : Deleted(s) \in Tasks /\ Deleted(s).restart <= s.restart
                               /\ (Deleted(s) # Absent => Deleted(s).restart = s.restart)
<1>1. 0 \in 0..MaxRestarts /\ MaxRestarts \in Nat
  BY DEF JobTasksAssumption
<1>2. Absent \in Tasks /\ Absent.restart = 0 /\ Absent.marker = FALSE
  BY <1>1 DEF Absent, Tasks, Phases
<1>3. ASSUME NEW r \in 0..MaxRestarts PROVE NewTask(r) \in Tasks /\ NewTask(r).restart = r
  BY <1>2 DEF NewTask, Tasks, Phases
<1>4. ASSUME NEW s \in Tasks
      PROVE  Deleted(s) \in Tasks /\ Deleted(s).restart <= s.restart
             /\ (Deleted(s) # Absent => Deleted(s).restart = s.restart)
  <2> DEFINE d == [s EXCEPT !.deleting = TRUE]
  <2>1. d \in Tasks /\ d.restart = s.restart /\ s.restart \in 0..MaxRestarts
    BY DEF Tasks
  <2>2. Deleted(s) = IF Claimed(s) THEN d ELSE Absent
    BY DEF Deleted
  <2> HIDE DEF d
  <2> QED
    BY <1>1, <1>2, <2>1, <2>2
<1> QED
  BY <1>2, <1>3, <1>4

\* A Job that is created is a live Job without restarts.
LEMMA NewJobType ==
    ASSUME JobTasksAssumption, NEW want \in SUBSET Templates, NEW sel \in SUBSET Templates
    PROVE  /\ NewJob(want, sel) \in Jobs /\ NewJob(want, sel).restart = 0
           /\ NewJob(want, sel).state = "live"
<1>1. 0 \in 0..MaxRestarts
  BY DEF JobTasksAssumption
<1>2. [t \in Templates |-> "none"] \in [Templates -> Phases \cup {"none"}]
  OBVIOUS
<1> QED
  BY <1>1, <1>2 DEF NewJob, Jobs, Phases

\* A worker without a pass has the type of a pass.
LEMMA IdleType ==
    ASSUME JobTasksAssumption
    PROVE  Idle \in Passes /\ Idle.pc = "idle"
<1>1. NewJob({}, {}) \in Jobs
  BY NewJobType
<1>2. Default \in Namespaces
  BY DEF Default, Namespaces, JobTasksAssumption
<1>3. [t \in Templates |-> Default] \in [Templates -> Namespaces]
  BY <1>2
<1> QED
  BY <1>1, <1>3 DEF Idle, Passes

\* The entries change, and the phase; the spec of the Job does not.
LEMMA SnapshotType ==
    ASSUME NEW j \in Jobs
    PROVE  Snapshot(j) \in Jobs /\ Snapshot(j).restart = j.restart
<1> DEFINE st == [t \in Templates |-> IF t \notin j.want THEN "none"
                                      ELSE IF j.st[t] = "none" THEN "" ELSE j.st[t]]
           ph == Fire("init", j.phase)
<1>1. j.st \in [Templates -> Phases \cup {"none"}] /\ j.phase \in Phases
  BY DEF Jobs
<1>2. st \in [Templates -> Phases \cup {"none"}]
  BY <1>1 DEF Phases
<1>3. ph \in Phases
  BY <1>1, FireType
<1>4. Snapshot(j) = [j EXCEPT !.phase = ph, !.st = st]
  BY DEF Snapshot, Jobs
<1> HIDE DEF st, ph
<1> QED
  BY <1>2, <1>3, <1>4 DEF Jobs

\* The state machine keeps the type of a Job and its restart.
LEMMA SyncedType ==
    ASSUME TypeOK, Canonical, NEW j \in Jobs, NEW pick \in Picks
    PROVE  Synced(j, pick) \in Jobs /\ Synced(j, pick).restart = j.restart
<1> DEFINE st == [t \in Templates |->
                    IF t \in j.want /\ j.st[t] \notin {"none", ""} /\ <<pick[t], t>> \in Seen
                    THEN Entry(j.st[t], seen[<<pick[t], t>>].phase) ELSE j.st[t]]
<1>1. j.st \in [Templates -> Phases \cup {"none"}]
  BY DEF Jobs
<1>2. ASSUME NEW k \in Seen PROVE seen[k].phase \in Phases
  <2>1. seen[k] \in Tasks /\ seen[k].phase # "absent"
    BY DEF TypeOK, Seen, Canonical
  <2> QED
    BY <2>1 DEF Tasks
<1>3. ASSUME NEW t \in Templates PROVE st[t] \in Phases \cup {"none"}
  <2>1. CASE <<pick[t], t>> \in Seen
    BY <2>1, <1>1, <1>2 DEF Entry
  <2>2. CASE <<pick[t], t>> \notin Seen
    BY <2>2, <1>1
  <2> QED
    BY <2>1, <2>2
<1>4. st \in [Templates -> Phases \cup {"none"}]
  BY <1>3
<1>5. Synced(j, pick) = [j EXCEPT !.st = st]
  BY DEF Synced, Jobs
<1> HIDE DEF st
<1> QED
  BY <1>4, <1>5 DEF Jobs

\* The status of a stopped Job has its type.
LEMMA HaltedType ==
    ASSUME NEW j \in Jobs
    PROVE  Halted(j) \in Jobs
<1> DEFINE st == [t \in Templates |-> IF j.st[t] \in {"none", "Succeeded", "Failed"}
                                      THEN j.st[t] ELSE "Stopped"]
           ph == Fire("stopped", j.phase)
<1>1. j.st \in [Templates -> Phases \cup {"none"}] /\ j.phase \in Phases
  BY DEF Jobs
<1>2. st \in [Templates -> Phases \cup {"none"}]
  BY <1>1 DEF Phases
<1>3. ph \in Phases
  BY <1>1, FireType
<1>4. Halted(j) = [j EXCEPT !.phase = ph, !.observed = TRUE, !.st = st]
  BY DEF Halted, Jobs
<1> HIDE DEF st, ph
<1> QED
  BY <1>2, <1>3, <1>4 DEF Jobs

\* A template that resolves has a namespace.
LEMMA ResolvedType ==
    ASSUME JobTasksAssumption, NEW t, Resolves(t)
    PROVE  Resolved(t) \in Namespaces
<1>1. CASE t \in job.sel
  <2>1. Open \in SUBSET Nat /\ Open # {} /\ Open \subseteq Namespaces
    BY <1>1 DEF Resolves, Open, Namespaces
  <2> QED
    BY <1>1, <2>1, MinMember DEF Resolved
<1>2. CASE t \notin job.sel
  BY <1>2 DEF Resolved, Default, Namespaces, JobTasksAssumption
<1> QED
  BY <1>1, <1>2

\* While a pass dispatches, its next Task is one of a wanted template.
LEMMA NextKeyType ==
    ASSUME TypeOK, Busy, wk.pc = "dispatch"
    PROVE  NextTemplate \in wk.left /\ NextTemplate \in Templates /\ NextKey \in Keys
<1>1. wk.left # {} /\ wk.left \in SUBSET Templates /\ wk.place \in [Templates -> Namespaces]
  BY DEF Busy, TypeOK, Passes
<1>2. wk.left \in SUBSET Nat
  BY <1>1 DEF Templates
<1>3. NextTemplate \in wk.left
  BY <1>1, <1>2, MinMember DEF NextTemplate
<1> QED
  BY <1>1, <1>3 DEF NextKey, Keys

\* The pass goes on to the next template, or concludes.
LEMMA ConcludedType ==
    ASSUME NEW p \in Passes
    PROVE  /\ Concluded(p) \in Passes /\ Concluded(p).pc \in {"save", "dispatch"}
           /\ Concluded(p).j.restart = p.j.restart
           /\ Concluded(p).pc = "dispatch" => Concluded(p).left # {}
<1> DEFINE j == [p.j EXCEPT !.phase = Fire(Event(p.j), p.j.phase), !.observed = TRUE]
           saves == [p EXCEPT !.pc = "save", !.j = j]
           goes == [p EXCEPT !.pc = "dispatch"]
<1>1. p.j \in Jobs /\ p.j.phase \in Phases
  BY DEF Passes, Jobs
<1>2. Fire(Event(p.j), p.j.phase) \in Phases
  BY <1>1, FireType
<1>3. j \in Jobs /\ j.restart = p.j.restart
  BY <1>1, <1>2 DEF Jobs
<1>4. [p EXCEPT !.pc = "save", !.j.phase = Fire(Event(p.j), @), !.j.observed = TRUE] = saves
  BY <1>1 DEF Passes, Jobs
<1> HIDE DEF j
<1>5. saves \in Passes /\ saves.pc = "save" /\ saves.j = j
  BY <1>3 DEF Passes
<1>6. goes \in Passes /\ goes.pc = "dispatch" /\ goes.j = p.j /\ goes.left = p.left
  BY DEF Passes
<1>7. Concluded(p) = IF p.left = {} THEN saves ELSE goes
  BY <1>4 DEF Concluded
<1> HIDE DEF saves, goes
<1> QED
  BY <1>3, <1>5, <1>6, <1>7

\* After the dispatch of one template.
LEMMA DispatchedType ==
    ASSUME TypeOK, Busy, wk.pc = "dispatch", NEW phase \in Phases
    PROVE  /\ Dispatched(phase) \in Passes /\ Dispatched(phase).pc \in {"save", "dispatch"}
           /\ Dispatched(phase).j.restart = wk.j.restart
           /\ Dispatched(phase).pc = "dispatch" => Dispatched(phase).left # {}
<1> PICK t \in Templates : t = NextTemplate
  BY NextKeyType
<1> DEFINE e == Entry(wk.j.st[t], phase)
           st == [wk.j.st EXCEPT ![t] = e]
           j == [wk.j EXCEPT !.st = st]
           p == [wk EXCEPT !.left = @ \ {t}, !.j = j]
<1>1. wk \in Passes /\ wk.j \in Jobs /\ wk.left \in SUBSET Templates
  BY DEF TypeOK, Passes
<1>2. wk.j.st \in [Templates -> Phases \cup {"none"}]
  BY <1>1 DEF Jobs
<1>3. e \in Phases \cup {"none"}
  BY <1>2 DEF Entry
<1>4. st \in [Templates -> Phases \cup {"none"}]
  BY <1>2, <1>3
<1> HIDE DEF e
<1>5. j \in Jobs /\ j.restart = wk.j.restart
  BY <1>1, <1>4 DEF Jobs
<1>6. [wk EXCEPT !.left = @ \ {t}, !.j.st[t] = Entry(@, phase)] = p
  BY <1>1 DEF e
<1> HIDE DEF st, j
<1>7. p \in Passes /\ p.j = j
  BY <1>1, <1>5 DEF Passes
<1>8. Dispatched(phase) = Concluded(p)
  BY <1>6 DEF Dispatched
<1> HIDE DEF p
<1> QED
  BY <1>5, <1>7, <1>8, ConcludedType

----------------------------------------------------------------------------
(* Steps.                                                                   *)

\* A step that creates no Task: each stays of its restart, or goes.
LEMMA Lives ==
    ASSUME JobTasksAssumption, CoreInv, TypeOK', seen' = seen, job'.restart >= job.restart,
           \/ wk'.pc \notin {"plan", "dispatch"}
           \/ wk.pc \in {"plan", "dispatch"} /\ wk'.j.restart = wk.j.restart,
           \A k \in Keys :
             \/ task'[k] = task[k] \/ task'[k] = Absent
             \/ /\ task[k] # Absent /\ task'[k].restart = task[k].restart
                /\ task'[k].phase # "absent"
    PROVE  Canonical' /\ Restarts'
<1> USE DEF CoreInv
<1>1. Canonical'
  BY DEF Canonical
<1>2. /\ \A k \in Keys : task[k].restart \in Nat /\ task'[k].restart \in Nat
      /\ job.restart \in Nat /\ job'.restart \in Nat
      /\ wk.j.restart \in Nat /\ wk'.j.restart \in Nat
      /\ Absent.restart = 0
  <2>1. 0..MaxRestarts \subseteq Nat
    BY DEF JobTasksAssumption
  <2>2. \A s \in Tasks : s.restart \in Nat
    BY <2>1 DEF Tasks
  <2>3. \A j \in Jobs : j.restart \in Nat
    BY <2>1 DEF Jobs
  <2>4. wk.j \in Jobs /\ wk'.j \in Jobs
    BY DEF TypeOK, Passes
  <2> QED
    BY <2>2, <2>3, <2>4, TaskTypes DEF TypeOK
<1>3. \A k \in Keys : task'[k].restart <= task[k].restart
  BY <1>2
<1>4. \A k \in Keys : task'[k] # Absent => task[k] # Absent /\ task'[k].restart = task[k].restart
  OBVIOUS
<1>5. Restarts'
  BY <1>2, <1>3, <1>4 DEF Restarts
<1> QED
  BY <1>1, <1>5

\* The next record of one Task.
LEMMA OneTask ==
    ASSUME TypeOK, NEW k \in Keys, NEW s \in Tasks, task' = [task EXCEPT ![k] = s]
    PROVE  /\ task' \in [Keys -> Tasks] /\ task'[k] = s
           /\ \A l \in Keys \ {k} : task'[l] = task[l]
BY DEF TypeOK

\* A Task gets a mark, a wish to be suspended, or a phase, and keeps the rest.
LEMMA ChangedTask ==
    ASSUME NEW s \in Tasks
    PROVE  /\ \A b \in BOOLEAN : LET m == [s EXCEPT !.marker = b]
                                  w == [s EXCEPT !.susp = b]
              IN  /\ m \in Tasks /\ m.phase = s.phase /\ m.restart = s.restart
                  /\ m.deleting = s.deleting /\ m.susp = s.susp /\ m.marker = b
                  /\ w \in Tasks /\ w.phase = s.phase /\ w.restart = s.restart
                  /\ w.deleting = s.deleting /\ w.susp = b /\ w.marker = s.marker
           /\ \A p \in Phases : LET m == [s EXCEPT !.phase = p]
              IN  /\ m \in Tasks /\ m.phase = p /\ m.restart = s.restart
                  /\ m.deleting = s.deleting /\ m.susp = s.susp /\ m.marker = s.marker
BY DEF Tasks

\* A step of an Agent, the Cluster controller or the garbage collection on one
\* Task.
LEMMA TaskStep ==
    ASSUME JobTasksAssumption, CoreInv, NEW k \in Keys, NEW s \in Tasks,
           task' = [task EXCEPT ![k] = s], UNCHANGED <<job, seen, cl, wk, due, edits>>,
           faults' \in 0..MaxFaults,
           s = Absent \/ (task[k] # Absent /\ s.restart = task[k].restart /\ s.phase # "absent")
    PROVE  CoreInv'
<1> USE DEF CoreInv
<1>1. /\ task' \in [Keys -> Tasks] /\ task'[k] = s
      /\ \A l \in Keys \ {k} : task'[l] = task[l]
  BY OneTask
<1>2. TypeOK'
  BY <1>1 DEF TypeOK
<1>3. job.restart >= job.restart
  BY DEF TypeOK, Jobs, JobTasksAssumption
<1>4. Canonical' /\ Restarts'
  <2>1. wk.pc \notin {"plan", "dispatch"} \/ wk.pc \in {"plan", "dispatch"}
    OBVIOUS
  <2> QED
    BY <1>1, <1>2, <1>3, <2>1, Lives
<1> QED
  BY <1>2, <1>4 DEF Busy, Held

\* Drain, Agents and workloads keep the invariant: they start no Task.
LEMMA EnvironmentStep ==
    ASSUME JobTasksAssumption, CoreInv, NEW k \in Keys,
           MarkForDrain(k) \/ ClearDrainMarker(k) \/ Report(k) \/ Observe(k) \/ Release(k)
             \/ CollectTask(k)
    PROVE  CoreInv'
<1> USE DEF CoreInv
<1>1. /\ task[k] \in Tasks /\ task[k].phase \in Phases \cup {"absent"}
      /\ task[k].phase = "absent" <=> task[k] = Absent
      /\ faults \in 0..MaxFaults
  BY DEF TypeOK, Tasks, Canonical, Absent
<1>2. Absent.marker = FALSE /\ Absent.deleting = FALSE /\ Absent.phase = "absent" /\ Absent \in Tasks
  BY TaskTypes DEF Absent
<1>3. ASSUME NEW b \in BOOLEAN, task' = [task EXCEPT ![k].marker = b], task[k] # Absent,
             UNCHANGED <<job, seen, cl, wk, due, edits, faults>>
      PROVE  CoreInv'
  <2> DEFINE s == [task[k] EXCEPT !.marker = b]
  <2>1. task' = [task EXCEPT ![k] = s]
    BY <1>3 DEF TypeOK
  <2>2. s \in Tasks /\ s.phase = task[k].phase /\ s.restart = task[k].restart
    BY <1>1 DEF Tasks
  <2> HIDE DEF s
  <2> QED
    BY <1>1, <1>3, <2>1, <2>2, TaskStep
<1>4. ASSUME NEW p \in Phases, task' = [task EXCEPT ![k].phase = p], task[k] # Absent,
             UNCHANGED <<job, seen, cl, wk, due, edits>>, faults' \in 0..MaxFaults
      PROVE  CoreInv'
  <2> DEFINE s == [task[k] EXCEPT !.phase = p]
  <2>1. task' = [task EXCEPT ![k] = s]
    BY <1>4 DEF TypeOK
  <2>2. p # "absent"
    BY DEF Phases
  <2>3. s \in Tasks /\ s.phase = p /\ s.restart = task[k].restart
    BY <1>1, ChangedTask
  <2> HIDE DEF s
  <2> QED
    BY <1>1, <1>4, <2>1, <2>2, <2>3, TaskStep
<1>5. CASE MarkForDrain(k)
  BY <1>3, <1>5 DEF MarkForDrain, budget
<1>6. CASE ClearDrainMarker(k)
  BY <1>2, <1>3, <1>6 DEF ClearDrainMarker, budget
<1>7. CASE Report(k)
  BY <1>1, <1>4, <1>7 DEF Report, budget, Phases
<1>8. CASE Observe(k)
  <2>1. PICK p \in Running : task' = [task EXCEPT ![k].phase = p]
    BY <1>8 DEF Observe
  <2>2. p \in Phases
    BY DEF Phases, JobTasksAssumption
  <2>3. task[k].phase \in Phases
    BY <1>8 DEF Observe, Phases, JobTasksAssumption
  <2>4. task[k] # Absent
    BY <1>2, <2>3 DEF Phases
  <2>5. UNCHANGED <<job, seen, cl, wk, due, edits>> /\ faults' \in 0..MaxFaults
    BY <1>1, <1>8 DEF Observe, JobTasksAssumption
  <2> QED
    BY <1>4, <2>1, <2>2, <2>4, <2>5
<1>9. CASE Release(k)
  BY <1>1, <1>2, <1>9, TaskStep DEF Release, budget
<1>10. CASE CollectTask(k)
  <2>1. task' = [task EXCEPT ![k] = Deleted(task[k])] /\ task[k] # Absent
    BY <1>10 DEF CollectTask, TypeOK
  <2>2. Deleted(task[k]) \in Tasks
        /\ (Deleted(task[k]) # Absent => Deleted(task[k]).restart = task[k].restart)
    BY <1>1, TaskTypes
  <2>3. Deleted(task[k]) # Absent => Deleted(task[k]).phase # "absent"
    BY <1>1 DEF Deleted, Claimed, Tasks
  <2>4. UNCHANGED <<job, seen, cl, wk, due, edits, faults>>
    BY <1>10 DEF CollectTask, budget
  <2> QED
    BY <1>1, <2>1, <2>2, <2>3, <2>4, TaskStep
<1> QED
  BY <1>5, <1>6, <1>7, <1>8, <1>9, <1>10

\* A step that leaves the Tasks alone.
LEMMA QuietStep ==
    ASSUME JobTasksAssumption, CoreInv, TypeOK', Busy', Held', UNCHANGED <<task, seen>>,
           job'.restart >= job.restart,
           \/ wk'.pc \notin {"plan", "dispatch"}
           \/ wk.pc \in {"plan", "dispatch"} /\ wk'.j.restart = wk.j.restart
    PROVE  CoreInv'
BY Lives DEF CoreInv

\* A number that stays is at least as large as it was.
LEMMA RestartStays ==
    ASSUME JobTasksAssumption, TypeOK
    PROVE  /\ job.restart \in 0..MaxRestarts /\ job.restart >= job.restart
           /\ MaxRestarts \in Nat
BY DEF TypeOK, Jobs, JobTasksAssumption

\* The manager starts over with a cache that is current.
LEMMA CacheStep ==
    ASSUME JobTasksAssumption, CoreInv,
           (\E k \in Keys : CacheSync(k)) \/ Resync \/ RestartManager
    PROVE  CoreInv'
<1> USE DEF CoreInv
<1>1. CASE \E k \in Keys : CacheSync(k)
  <2>1. PICK k \in Keys : CacheSync(k)
    BY <1>1
  <2>2. /\ seen' = [seen EXCEPT ![k] = task[k]] /\ due' = TRUE
        /\ UNCHANGED <<job, task, cl, wk, edits, faults>>
    BY <2>1 DEF CacheSync, budget
  <2>3. seen' \in [Keys -> Tasks] /\ seen'[k] = task[k]
        /\ \A l \in Keys \ {k} : seen'[l] = seen[l]
    BY <2>2 DEF TypeOK
  <2>4. TypeOK'
    BY <2>2, <2>3 DEF TypeOK
  <2>5. Canonical' /\ Restarts'
    BY <2>2, <2>3 DEF Canonical, Restarts
  <2> QED
    BY <2>2, <2>4, <2>5 DEF Busy, Held
<1>2. CASE Resync
  BY <1>2, QuietStep, RestartStays DEF Resync, budget, TypeOK, Busy, Held
<1>3. CASE RestartManager
  <2>1. /\ UNCHANGED <<job, task, cl, edits>> /\ wk' = Idle /\ due' = TRUE /\ seen' = task
        /\ faults' \in 0..MaxFaults
    BY <1>3 DEF RestartManager, TypeOK, JobTasksAssumption
  <2>2. TypeOK'
    BY <2>1, IdleType DEF TypeOK
  <2>3. Canonical' /\ Restarts' /\ Busy' /\ Held'
    BY <2>1, IdleType DEF Canonical, Restarts, Busy, Held
  <2> QED
    BY <2>2, <2>3
<1> QED
  BY <1>1, <1>2, <1>3

\* The users change the Job, whatever pass runs.
LEMMA EditStep ==
    ASSUME JobTasksAssumption, CoreInv, NEW j \in Jobs, EditJob(j),
           j.restart >= job.restart, j.fin = job.fin,
           j.state = "live" \/ (j.state = "deleting" /\ job.fin) \/ (j.state = "gone" /\ ~job.fin)
    PROVE  CoreInv'
<1> USE DEF CoreInv
<1>1. /\ job' = j /\ due' = TRUE /\ UNCHANGED <<task, seen, cl, wk, faults>>
      /\ edits' \in 0..MaxEdits
  BY DEF EditJob, TypeOK, JobTasksAssumption
<1>2. TypeOK'
  BY <1>1 DEF TypeOK
<1>3. Busy' /\ Held'
  BY <1>1 DEF Busy, Held
<1> QED
  BY <1>1, <1>2, <1>3, QuietStep

\* Users and administrators keep the invariant: restarts only grow.
LEMMA UsersStep ==
    ASSUME JobTasksAssumption, CoreInv, Users \/ (\E n \in Namespaces : OperateCluster(n))
    PROVE  CoreInv'
<1> USE DEF CoreInv
<1>1. /\ job \in Jobs /\ job.susp \in BOOLEAN /\ job.restart \in 0..MaxRestarts
      /\ job.restart >= job.restart /\ job.fin \in BOOLEAN
  BY RestartStays DEF TypeOK, Jobs
<1>2. ASSUME NEW j, EditJob(j) PROVE job.state = "live"
  BY <1>2 DEF EditJob
<1>3. CASE ToggleSuspended
  <2> DEFINE j == [job EXCEPT !.susp = ~@, !.observed = FALSE]
  <2>1. EditJob(j)
    BY <1>3 DEF ToggleSuspended
  <2>2. j \in Jobs /\ j.restart = job.restart /\ j.fin = job.fin /\ j.state = job.state
    BY <1>1 DEF Jobs
  <2> HIDE DEF j
  <2> QED
    BY <1>1, <1>2, <2>1, <2>2, EditStep
<1>4. CASE RequestRestart
  <2> DEFINE j == [job EXCEPT !.restart = @ + 1]
  <2>1. EditJob(j) /\ job.restart + 1 \in 0..MaxRestarts
    BY <1>1, <1>4 DEF RequestRestart, JobTasksAssumption
  <2>2. j \in Jobs /\ j.restart = job.restart + 1 /\ j.fin = job.fin /\ j.state = job.state
    BY <1>1, <2>1 DEF Jobs
  <2>3. j.restart >= job.restart
    BY <1>1, <2>2
  <2> HIDE DEF j
  <2> QED
    BY <1>2, <2>1, <2>2, <2>3, EditStep
<1>5. CASE EditTemplates
  <2>1. PICK want \in SUBSET Templates : EditJob([job EXCEPT !.want = want, !.observed = FALSE])
    BY <1>5 DEF EditTemplates
  <2> DEFINE j == [job EXCEPT !.want = want, !.observed = FALSE]
  <2>2. EditJob(j)
    BY <2>1
  <2>3. j \in Jobs /\ j.restart = job.restart /\ j.fin = job.fin /\ j.state = job.state
    BY <1>1 DEF Jobs
  <2> HIDE DEF j
  <2> QED
    BY <1>1, <1>2, <2>2, <2>3, EditStep
<1>6. CASE DeleteJob
  <2> DEFINE st == IF job.fin THEN "deleting" ELSE "gone"
             j == [job EXCEPT !.state = st]
  <2>1. EditJob(j) /\ st \in {"deleting", "gone"}
    BY <1>6 DEF DeleteJob
  <2>2. (st = "deleting" /\ job.fin) \/ (st = "gone" /\ ~job.fin)
    OBVIOUS
  <2> HIDE DEF st
  <2>3. j \in Jobs /\ j.restart = job.restart /\ j.fin = job.fin /\ j.state = st
    BY <1>1, <2>1 DEF Jobs
  <2> HIDE DEF j
  <2> QED
    BY <1>1, <2>1, <2>2, <2>3, EditStep
<1>7. CASE \E n \in Namespaces : OperateCluster(n)
  <2>1. /\ cl' \in [Namespaces -> {"Open", "Cordoned", "Draining"}]
        /\ edits' \in 0..MaxEdits /\ UNCHANGED <<job, task, seen, wk, due, faults>>
    BY <1>7 DEF OperateCluster, TypeOK, JobTasksAssumption
  <2>2. TypeOK' /\ Busy' /\ Held'
    BY <2>1 DEF TypeOK, Busy, Held
  <2> QED
    BY <1>1, <2>1, <2>2, QuietStep
<1> QED
  BY <1>3, <1>4, <1>5, <1>6, <1>7 DEF Users

----------------------------------------------------------------------------
(* Steps of a pass.                                                         *)

\* A pass that ends.
LEMMA EndStep ==
    ASSUME JobTasksAssumption, CoreInv, NEW again \in BOOLEAN, End(again),
           job' \in Jobs, task' \in [Keys -> Tasks], UNCHANGED <<seen, cl, edits>>,
           faults' \in 0..MaxFaults, job'.restart >= job.restart,
           job'.state = "deleting" => job'.fin,
           \A k \in Keys :
             \/ task'[k] = task[k] \/ task'[k] = Absent
             \/ /\ task[k] # Absent /\ task'[k].restart = task[k].restart
                /\ task'[k].phase # "absent"
    PROVE  CoreInv'
<1> USE DEF CoreInv
<1>1. wk' = Idle /\ due' \in BOOLEAN /\ Idle \in Passes /\ Idle.pc = "idle"
  BY IdleType DEF End, TypeOK
<1>2. TypeOK'
  BY <1>1 DEF TypeOK
<1>3. Busy' /\ Held'
  BY <1>1 DEF Busy, Held
<1> QED
  BY <1>1, <1>2, <1>3, Lives

\* A pass that goes on, with nothing written but Tasks.
LEMMA GoStep ==
    ASSUME JobTasksAssumption, CoreInv, NEW p \in Passes, Go(p), wk.pc # "idle",
           task' \in [Keys -> Tasks], UNCHANGED <<job, seen, cl, edits>>,
           faults' \in 0..MaxFaults,
           p.pc = "dispatch" => p.left # {},
           \/ p.pc \notin {"plan", "dispatch"}
           \/ wk.pc \in {"plan", "dispatch"} /\ p.j.restart = wk.j.restart,
           \A k \in Keys :
             \/ task'[k] = task[k] \/ task'[k] = Absent
             \/ /\ task[k] # Absent /\ task'[k].restart = task[k].restart
                /\ task'[k].phase # "absent"
    PROVE  CoreInv'
<1> USE DEF CoreInv
<1>1. wk' = p /\ due' = due
  BY DEF Go
<1>2. TypeOK'
  BY <1>1 DEF TypeOK
<1>3. Busy' /\ Held'
  BY <1>1 DEF Busy, Held
<1> QED
  BY <1>1, <1>2, <1>3, RestartStays, Lives

\* Writes to several Tasks, each of which is sound.
LEMMA WritesEffect ==
    ASSUME JobTasksAssumption, CoreInv, NEW todo \in SUBSET Keys, NEW blocked, NEW done,
           NEW new, Writes(todo, blocked, done, new),
           \A k \in todo \ blocked :
             /\ new[k] \in Tasks
             /\ \/ new[k] = task[k] \/ new[k] = Absent
                \/ /\ task[k] # Absent /\ new[k].restart = task[k].restart
                   /\ new[k].phase # "absent"
    PROVE  /\ task' \in [Keys -> Tasks] /\ faults' \in 0..MaxFaults
           /\ \A k \in Keys :
                \/ task'[k] = task[k] \/ task'[k] = Absent
                \/ /\ task[k] # Absent /\ task'[k].restart = task[k].restart
                   /\ task'[k].phase # "absent"
<1> USE DEF CoreInv
<1>1. /\ done \subseteq todo \ blocked
      /\ task' = [k \in Keys |-> IF k \in done THEN new[k] ELSE task[k]]
      /\ faults' = IF done = todo \/ blocked # {} THEN faults ELSE faults + 1
      /\ done = todo \/ blocked # {} \/ faults < MaxFaults
  BY DEF Writes
<1>2. faults' \in 0..MaxFaults
  BY <1>1 DEF TypeOK, JobTasksAssumption
<1>3. ASSUME NEW k \in Keys
      PROVE  /\ task'[k] \in Tasks
             /\ \/ task'[k] = task[k] \/ task'[k] = Absent
                \/ /\ task[k] # Absent /\ task'[k].restart = task[k].restart
                   /\ task'[k].phase # "absent"
  BY <1>1 DEF TypeOK
<1>4. task' \in [Keys -> Tasks]
  BY <1>1, <1>3
<1> QED
  BY <1>2, <1>3, <1>4

\* What a pass does to a Task: it is deleted or, if the copy is current,
\* suspended or resumed.
LEMMA DeletedTask ==
    ASSUME JobTasksAssumption, CoreInv, NEW k \in Keys
    PROVE  /\ Deleted(task[k]) \in Tasks
           /\ \/ Deleted(task[k]) = Absent
              \/ /\ task[k] # Absent /\ Deleted(task[k]).restart = task[k].restart
                 /\ Deleted(task[k]).phase # "absent"
<1>1. task[k] \in Tasks
  BY DEF CoreInv, TypeOK
<1> DEFINE d == [task[k] EXCEPT !.deleting = TRUE]
<1>2. d.phase = task[k].phase /\ Absent.phase = "absent"
  BY <1>1 DEF Tasks, Absent
<1>3. Deleted(task[k]) = IF Claimed(task[k]) THEN d ELSE Absent
  BY DEF Deleted
<1> HIDE DEF d
<1> QED
  BY <1>1, <1>2, <1>3, TaskTypes DEF Claimed

\* Suspending or resuming a Task leaves the rest of it alone.
LEMMA SuspendedTask ==
    ASSUME CoreInv, NEW k \in Keys, task[k] # Absent, NEW b \in BOOLEAN
    PROVE  LET s == [task[k] EXCEPT !.susp = b]
           IN  /\ s \in Tasks /\ s.restart = task[k].restart /\ s.phase # "absent"
<1>1. task[k] \in Tasks /\ task[k].phase # "absent"
  BY DEF CoreInv, TypeOK, Canonical
<1> QED
  BY <1>1 DEF Tasks

\* A pass that begins with a copy of the Job is not ahead of it.
LEMMA BeginStep ==
    ASSUME JobTasksAssumption, CoreInv, Begin
    PROVE  CoreInv'
<1> USE DEF CoreInv
<1>1. /\ wk.pc = "idle" /\ job.state # "gone" /\ UNCHANGED <<task, seen, cl, edits, faults>>
      /\ job \in Jobs /\ job.fin \in BOOLEAN /\ job.state \in {"live", "deleting", "gone"}
      /\ job.restart \in Nat
  BY DEF Begin, budget, TypeOK, Jobs, JobTasksAssumption
<1>2. CASE job.state = "live" /\ ~job.fin
  <2> DEFINE j == [job EXCEPT !.fin = TRUE]
  <2>1. job' = j /\ UNCHANGED <<wk, due>>
    BY <1>2 DEF Begin
  <2>2. j \in Jobs /\ j.fin = TRUE /\ j.restart = job.restart /\ j.state = job.state
    BY <1>1 DEF Jobs
  <2> HIDE DEF j
  <2>3. TypeOK' /\ Busy' /\ Held'
    BY <1>1, <2>1, <2>2 DEF TypeOK, Busy, Held
  <2> QED
    BY <1>1, <2>1, <2>2, <2>3, QuietStep
<1>3. CASE ~(job.state = "live" /\ ~job.fin)
  <2> DEFINE pc == IF job.state = "deleting" THEN "stop" ELSE IF job.susp THEN "halt" ELSE "plan"
             p == [Idle EXCEPT !.j = job, !.was = job, !.pc = pc]
  <2>1. wk' = p /\ due' = FALSE /\ job' = job
    BY <1>3 DEF Begin
  <2>2. pc \in {"stop", "halt", "plan"}
    OBVIOUS
  <2> HIDE DEF pc
  <2>3. p \in Passes /\ p.pc = pc /\ p.j = job
    BY <1>1, <2>2, IdleType DEF Passes
  <2> HIDE DEF p
  <2>4. TypeOK' /\ Busy' /\ Held'
    BY <1>1, <1>3, <2>1, <2>2, <2>3 DEF TypeOK, Busy, Held
  <2>5. Canonical'
    BY <1>1 DEF Canonical
  <2>6. Restarts'
    BY <1>1, <2>1, <2>3 DEF Restarts
  <2> QED
    BY <2>4, <2>5, <2>6
<1> QED
  BY <1>2, <1>3

\* A pass whose templates do not resolve ends.
LEMMA ResolveFailsStep ==
    ASSUME JobTasksAssumption, CoreInv, ResolveFails
    PROVE  CoreInv'
<1>1. End(TRUE) /\ UNCHANGED <<job, task, seen, cl, edits, faults>>
  BY DEF ResolveFails, budget
<1> QED
  BY <1>1, EndStep, RestartStays DEF CoreInv, TypeOK, Held

\* Deleting Tasks that no longer belong keeps the invariant.
LEMMA PruneStep ==
    ASSUME JobTasksAssumption, CoreInv, Prune
    PROVE  CoreInv'
<1> USE DEF CoreInv
<1> DEFINE blocked == {k \in Strays : seen[k].phase # "Stopped" /\ ~Fresh(k)}
           new == [k \in Strays |-> Pruned(k)]
<1>1. PICK done : Writes(Strays, blocked, done, new)
  BY DEF Prune
<1>2. End(TRUE) /\ UNCHANGED <<job, seen, cl, edits>>
  BY DEF Prune
<1>3. Strays \in SUBSET Keys
  BY DEF Strays, Seen
<1>4. ASSUME NEW k \in Strays \ blocked
      PROVE  /\ new[k] \in Tasks
             /\ \/ new[k] = task[k] \/ new[k] = Absent
                \/ /\ task[k] # Absent /\ new[k].restart = task[k].restart
                   /\ new[k].phase # "absent"
  <2>1. k \in Keys /\ seen[k] # Absent /\ task[k] \in Tasks /\ new[k] = Pruned(k)
    BY <1>3 DEF Strays, Seen, TypeOK
  <2>2. CASE seen[k].phase # "Stopped"
    <3>1. task[k] # Absent
      BY <2>1, <2>2 DEF Fresh
    <3>2. new[k] = [task[k] EXCEPT !.susp = TRUE]
      BY <2>1, <2>2 DEF Pruned
    <3> QED
      BY <2>1, <3>1, <3>2, SuspendedTask
  <2>3. CASE seen[k].phase = "Stopped"
    BY <2>1, <2>3, DeletedTask DEF Pruned
  <2> QED
    BY <2>2, <2>3
<1> HIDE DEF blocked, new
<1>5. /\ task' \in [Keys -> Tasks] /\ faults' \in 0..MaxFaults
      /\ \A k \in Keys :
           \/ task'[k] = task[k] \/ task'[k] = Absent
           \/ /\ task[k] # Absent /\ task'[k].restart = task[k].restart
              /\ task'[k].phase # "absent"
  BY <1>1, <1>3, <1>4, WritesEffect
<1> QED
  BY <1>2, <1>5, EndStep, RestartStays DEF TypeOK, Held

\* A pass that begins to dispatch has a template left, or goes on.
LEMMA PlanStep ==
    ASSUME JobTasksAssumption, CoreInv, Plan
    PROVE  CoreInv'
<1> USE DEF CoreInv
<1> DEFINE place == [t \in Templates |-> IF t \in wk.j.want THEN Resolved(t) ELSE Default]
<1>1. PICK pick \in Picks :
        Go(Concluded([wk EXCEPT !.j = Synced(Snapshot(@), pick), !.left = wk.j.want,
                        !.place = place]))
  BY DEF Plan
<1>2. /\ wk.pc = "plan" /\ UNCHANGED <<job, task, seen, cl, edits, faults>>
      /\ \A t \in wk.j.want : Resolves(t)
  BY DEF Plan, budget
<1>3. wk \in Passes /\ wk.j \in Jobs /\ wk.j.want \in SUBSET Templates
  BY DEF TypeOK, Passes, Jobs
<1>4. place \in [Templates -> Namespaces]
  BY <1>2, <1>3, ResolvedType DEF Default, Namespaces, JobTasksAssumption
<1> DEFINE j == Synced(Snapshot(wk.j), pick)
           p == [wk EXCEPT !.j = j, !.left = wk.j.want, !.place = place]
<1>5. j \in Jobs /\ j.restart = wk.j.restart
  BY <1>3, SnapshotType, SyncedType
<1>6. Go(Concluded(p))
  BY <1>1
<1> HIDE DEF j, place
<1>7. p \in Passes /\ p.j = j
  BY <1>3, <1>4, <1>5 DEF Passes
<1> HIDE DEF p
<1>8. /\ Concluded(p) \in Passes /\ Concluded(p).j.restart = wk.j.restart
      /\ Concluded(p).pc = "dispatch" => Concluded(p).left # {}
  BY <1>5, <1>7, ConcludedType
<1> QED
  BY <1>2, <1>6, <1>8, GoStep DEF TypeOK

\* Phases and status are written from the pass's copy of the Job.
LEMMA SaveStatusStep ==
    ASSUME JobTasksAssumption, CoreInv, SaveStatus
    PROVE  CoreInv'
<1> USE DEF CoreInv
<1> DEFINE j == [job EXCEPT !.phase = wk.j.phase, !.st = wk.j.st, !.observed = wk.j.observed]
           again == wk.again \/ (wk.j # wk.was /\ ~Current)
<1>1. /\ End(again) /\ job' \in {j, job} /\ UNCHANGED <<task, seen, cl, edits, faults>>
  BY DEF SaveStatus, budget
<1>2. wk.j \in Jobs /\ job \in Jobs
  BY DEF TypeOK, Passes
<1>3. /\ wk.j.phase \in Phases /\ wk.j.observed \in BOOLEAN
      /\ wk.j.st \in [Templates -> Phases \cup {"none"}]
  BY <1>2 DEF Jobs
<1>4. j \in Jobs /\ j.restart = job.restart /\ j.state = job.state /\ j.fin = job.fin
  BY <1>2, <1>3 DEF Jobs
<1>5. again \in BOOLEAN
  BY DEF TypeOK, Passes
<1> HIDE DEF j, again
<1> QED
  BY <1>1, <1>2, <1>4, <1>5, EndStep, RestartStays DEF TypeOK, Held

\* A Task is only created where neither the API server nor the cache has one.
LEMMA CreateStep ==
    ASSUME JobTasksAssumption, CoreInv, CreateTask \/ CreateExisting
    PROVE  CoreInv'
<1> USE DEF CoreInv
<1>1. wk.pc = "dispatch" /\ UNCHANGED <<job, seen, cl, edits, faults>> /\ "Pending" \in Phases
  BY DEF CreateTask, CreateExisting, budget, Phases
<1> PICK k \in Keys : k = NextKey
  BY <1>1, NextKeyType
<1>2. wk.j \in Jobs /\ wk.j.restart \in 0..MaxRestarts
  BY DEF TypeOK, Passes, Jobs
<1>3. CASE CreateTask
  <2>1. /\ seen[k] = Absent /\ task[k] = Absent
        /\ task' = [task EXCEPT ![k] = NewTask(wk.j.restart)]
        /\ wk' = Dispatched("Pending") /\ due' = due
    BY <1>3 DEF CreateTask, Go
  <2>2. /\ NewTask(wk.j.restart) \in Tasks /\ NewTask(wk.j.restart).restart = wk.j.restart
        /\ NewTask(wk.j.restart).phase # "absent"
    <3>1. NewTask(wk.j.restart).phase # "absent"
      BY TaskTypes DEF NewTask, Tasks
    <3> QED
      BY <1>2, <3>1, TaskTypes
  <2>3. /\ task' \in [Keys -> Tasks] /\ task'[k] = NewTask(wk.j.restart)
        /\ \A l \in Keys \ {k} : task'[l] = task[l]
    BY <2>1, <2>2, OneTask
  <2>4. /\ wk' \in Passes /\ wk'.pc \in {"save", "dispatch"}
        /\ wk'.j.restart = wk.j.restart
    BY <1>1, <2>1, DispatchedType
  <2>5. wk'.pc = "dispatch" => wk'.left # {}
    BY <1>1, <2>1, DispatchedType
  <2>6. TypeOK'
    BY <1>1, <2>1, <2>3, <2>4 DEF TypeOK
  <2>7. Canonical' /\ Busy' /\ Held'
    BY <1>1, <2>2, <2>3, <2>5 DEF Canonical, Busy, Held
  <2>8. Restarts'
    <3>1. /\ wk.j.restart <= job.restart /\ \A l \in Keys : task[l].restart <= wk.j.restart
          /\ \A l \in Keys : task[l].restart <= job.restart
          /\ wk.j.restart <= wk.j.restart
      BY <1>1, <1>2 DEF Restarts, JobTasksAssumption
    <3>2. \A l \in Keys : task'[l].restart <= wk.j.restart /\ task'[l].restart <= job.restart
      BY <3>1, <2>2, <2>3
    <3>3. \A l \in Keys : task'[l] # Absent /\ seen'[l] # Absent
                          => seen'[l].restart = task'[l].restart
      BY <1>1, <2>1, <2>3 DEF Restarts
    <3> QED
      BY <1>1, <2>1, <2>4, <3>1, <3>2, <3>3, DispatchedType DEF Restarts
  <2> QED
    BY <2>6, <2>7, <2>8
<1>4. CASE CreateExisting
  <2>1. /\ task' = task /\ task[k] # Absent
        /\ End(TRUE) \/ Go(Dispatched(task[k].phase))
    BY <1>4 DEF CreateExisting
  <2>2. CASE End(TRUE)
    BY <1>1, <2>1, <2>2, EndStep, RestartStays DEF TypeOK, Held
  <2>3. CASE Go(Dispatched(task[k].phase))
    <3>1. task[k].phase \in Phases
      BY <2>1 DEF TypeOK, Canonical, Tasks
    <3>2. /\ Dispatched(task[k].phase) \in Passes
          /\ Dispatched(task[k].phase).j.restart = wk.j.restart
          /\ Dispatched(task[k].phase).pc = "dispatch" => Dispatched(task[k].phase).left # {}
      BY <1>1, <3>1, DispatchedType
    <3> QED
      BY <1>1, <2>1, <2>3, <3>2, GoStep DEF TypeOK
  <2> QED
    BY <2>1, <2>2, <2>3
<1> QED
  BY <1>3, <1>4

\* A Task of an older restart is only asked to go; what replaces it comes
\* later.
LEMMA ReplaceTaskStep ==
    ASSUME JobTasksAssumption, CoreInv, ReplaceTask
    PROVE  CoreInv'
<1> USE DEF CoreInv
<1>1. /\ wk.pc = "dispatch" /\ End(TRUE) /\ UNCHANGED <<job, seen, cl, edits, faults>>
  BY DEF ReplaceTask, budget
<1> PICK k \in Keys : k = NextKey
  BY <1>1, NextKeyType
<1>2. task' = [task EXCEPT ![k] = IF seen[k].deleting THEN task[k] ELSE Deleted(task[k])]
  BY DEF ReplaceTask, TypeOK
<1>3. /\ task' \in [Keys -> Tasks]
      /\ \A l \in Keys :
           \/ task'[l] = task[l] \/ task'[l] = Absent
           \/ /\ task[l] # Absent /\ task'[l].restart = task[l].restart
              /\ task'[l].phase # "absent"
  BY <1>2, DeletedTask DEF TypeOK
<1> QED
  BY <1>1, <1>3, EndStep, RestartStays DEF TypeOK, Held

\* An update keeps the restart of the Task.
LEMMA UpdateTaskStep ==
    ASSUME JobTasksAssumption, CoreInv, UpdateTask
    PROVE  CoreInv'
<1> USE DEF CoreInv
<1>1. wk.pc = "dispatch" /\ UNCHANGED <<job, seen, cl, edits, faults>>
  BY DEF UpdateTask, budget
<1> PICK k \in Keys : k = NextKey
  BY <1>1, NextKeyType
<1>2. seen[k] # Absent /\ seen[k] \in Tasks /\ seen[k].phase \in Phases
      /\ seen[k].marker \in BOOLEAN
  BY DEF UpdateTask, TypeOK, Canonical, Tasks
<1>3. CASE Differs(seen[k]) /\ ~Fresh(k)
  <2>1. End(TRUE) /\ task' = task
    BY <1>3 DEF UpdateTask
  <2> QED
    BY <1>1, <2>1, EndStep, RestartStays DEF TypeOK, Held
<1>4. CASE ~(Differs(seen[k]) /\ ~Fresh(k))
  <2> DEFINE s == [task[k] EXCEPT !.susp = seen[k].marker]
  <2>1. /\ task' = IF Differs(seen[k]) THEN [task EXCEPT ![k] = s] ELSE task
        /\ Go(Dispatched(seen[k].phase))
    BY <1>4 DEF UpdateTask, TypeOK
  <2>2. Differs(seen[k]) => /\ task[k] # Absent /\ s \in Tasks
                            /\ s.restart = task[k].restart /\ s.phase # "absent"
    BY <1>2, <1>4, SuspendedTask DEF Fresh
  <2> HIDE DEF s
  <2>3. /\ task' \in [Keys -> Tasks]
        /\ \A l \in Keys :
             \/ task'[l] = task[l] \/ task'[l] = Absent
             \/ /\ task[l] # Absent /\ task'[l].restart = task[l].restart
                /\ task'[l].phase # "absent"
    BY <2>1, <2>2 DEF TypeOK
  <2>4. /\ Dispatched(seen[k].phase) \in Passes
        /\ Dispatched(seen[k].phase).j.restart = wk.j.restart
        /\ Dispatched(seen[k].phase).pc = "dispatch" => Dispatched(seen[k].phase).left # {}
    BY <1>1, <1>2, DispatchedType
  <2> QED
    BY <1>1, <2>1, <2>3, <2>4, GoStep DEF TypeOK
<1> QED
  BY <1>3, <1>4

\* deleteOwnedTasks.
LEMMA DeleteAllEffect ==
    ASSUME JobTasksAssumption, CoreInv, NEW done, DeleteAll(done)
    PROVE  /\ task' \in [Keys -> Tasks] /\ faults' \in 0..MaxFaults
           /\ \A k \in Keys :
                \/ task'[k] = task[k] \/ task'[k] = Absent
                \/ /\ task[k] # Absent /\ task'[k].restart = task[k].restart
                   /\ task'[k].phase # "absent"
<1> DEFINE todo == {k \in Seen : ~seen[k].deleting}
           new == [k \in Seen |-> Deleted(task[k])]
<1>1. Writes(todo, {}, done, new)
  BY DEF DeleteAll
<1>2. todo \in SUBSET Keys
  BY DEF Seen
<1>3. ASSUME NEW k \in todo \ {}
      PROVE  /\ new[k] \in Tasks
             /\ \/ new[k] = task[k] \/ new[k] = Absent
                \/ /\ task[k] # Absent /\ new[k].restart = task[k].restart
                   /\ new[k].phase # "absent"
  BY <1>2, DeletedTask
<1> HIDE DEF todo, new
<1> QED
  BY <1>1, <1>2, <1>3, WritesEffect

\* A suspended Job deletes its Tasks: deletions raise no restart.
LEMMA HaltStep ==
    ASSUME JobTasksAssumption, CoreInv, Halt
    PROVE  CoreInv'
<1> USE DEF CoreInv
<1>1. PICK done \in SUBSET Seen, pick \in Picks :
        /\ DeleteAll(done)
        /\ IF done # {k \in Seen : ~seen[k].deleting} THEN End(TRUE)
           ELSE LET j == Synced(Snapshot(wk.j), pick) IN
                Go([wk EXCEPT !.pc = "save", !.again = Seen # {},
                      !.j = IF Seen = {} THEN Halted(j) ELSE j])
  BY DEF Halt
<1>2. wk.pc = "halt" /\ UNCHANGED <<job, seen, cl, edits>>
  BY DEF Halt
<1>3. /\ task' \in [Keys -> Tasks] /\ faults' \in 0..MaxFaults
      /\ \A k \in Keys :
           \/ task'[k] = task[k] \/ task'[k] = Absent
           \/ /\ task[k] # Absent /\ task'[k].restart = task[k].restart
              /\ task'[k].phase # "absent"
  BY <1>1, DeleteAllEffect
<1>4. CASE End(TRUE)
  BY <1>2, <1>3, <1>4, EndStep, RestartStays DEF TypeOK, Held
<1>5. CASE ~End(TRUE)
  <2> DEFINE i == Synced(Snapshot(wk.j), pick)
             j == IF Seen = {} THEN Halted(i) ELSE i
             again == Seen # {}
             p == [wk EXCEPT !.pc = "save", !.again = again, !.j = j]
  <2>1. Go(p)
    BY <1>1, <1>5
  <2>2. i \in Jobs
    BY SnapshotType, SyncedType DEF TypeOK, Passes
  <2> HIDE DEF i
  <2>3. j \in Jobs /\ again \in BOOLEAN
    BY <2>2, HaltedType
  <2> HIDE DEF j, again
  <2>4. p \in Passes /\ p.pc = "save"
    BY <2>3 DEF TypeOK, Passes
  <2> HIDE DEF p
  <2> QED
    BY <1>2, <1>3, <2>1, <2>4, GoStep
<1> QED
  BY <1>4, <1>5

\* A deleted Job first stops its claimed Tasks and deletes the others.
LEMMA StopTasksStep ==
    ASSUME JobTasksAssumption, CoreInv, StopTasks
    PROVE  CoreInv'
<1> USE DEF CoreInv
<1> DEFINE todo == {k \in Seen : ~seen[k].deleting /\ ~(Claimed(seen[k]) /\ seen[k].susp)}
           blocked == {k \in todo : Claimed(seen[k]) /\ ~Fresh(k)}
           new == [k \in todo |-> Stopped(k)]
           p == [wk EXCEPT !.pc = "settle"]
<1>1. PICK done : Writes(todo, blocked, done, new) /\ (Go(p) \/ End(TRUE))
  BY DEF StopTasks
<1>2. wk.pc = "stop" /\ UNCHANGED <<job, seen, cl, edits>>
  BY DEF StopTasks
<1>3. todo \in SUBSET Keys
  BY DEF Seen
<1>4. ASSUME NEW k \in todo \ blocked
      PROVE  /\ new[k] \in Tasks
             /\ \/ new[k] = task[k] \/ new[k] = Absent
                \/ /\ task[k] # Absent /\ new[k].restart = task[k].restart
                   /\ new[k].phase # "absent"
  <2>1. k \in Keys /\ seen[k] # Absent /\ new[k] = Stopped(k)
    BY <1>3 DEF Seen
  <2>2. CASE Claimed(seen[k])
    <3>1. task[k] # Absent /\ new[k] = [task[k] EXCEPT !.susp = TRUE]
      BY <2>1, <2>2 DEF Fresh, Stopped
    <3> QED
      BY <2>1, <3>1, SuspendedTask
  <2>3. CASE ~Claimed(seen[k])
    BY <2>1, <2>3, DeletedTask DEF Stopped
  <2> QED
    BY <2>2, <2>3
<1>5. p \in Passes /\ p.pc = "settle"
  BY DEF TypeOK, Passes
<1> HIDE DEF todo, blocked, new, p
<1>6. /\ task' \in [Keys -> Tasks] /\ faults' \in 0..MaxFaults
      /\ \A k \in Keys :
           \/ task'[k] = task[k] \/ task'[k] = Absent
           \/ /\ task[k] # Absent /\ task'[k].restart = task[k].restart
              /\ task'[k].phase # "absent"
  BY <1>1, <1>3, <1>4, WritesEffect
<1>7. CASE End(TRUE)
  BY <1>2, <1>6, <1>7, EndStep, RestartStays DEF TypeOK, Held
<1>8. CASE Go(p)
  BY <1>2, <1>5, <1>6, <1>8, GoStep
<1> QED
  BY <1>1, <1>7, <1>8

\* Then it keeps their final status.
LEMMA SettleStatusStep ==
    ASSUME JobTasksAssumption, CoreInv, SettleStatus
    PROVE  CoreInv'
<1> USE DEF CoreInv
<1> DEFINE i(pick) == IF EntriesStopped(wk.j) THEN wk.j ELSE Synced(wk.j, pick)
           j(pick) == [i(pick) EXCEPT !.phase = IF @ \in {"Succeeded", "Failed"} THEN @
                                                ELSE "Stopped"]
           p(pick) == IF j(pick) = wk.j THEN [wk EXCEPT !.pc = "drop"]
                      ELSE [wk EXCEPT !.pc = "save", !.j = j(pick), !.again = TRUE]
<1>1. PICK pick \in Picks : Go(p(pick))
  BY DEF SettleStatus
<1>2. wk.pc = "settle" /\ UNCHANGED <<job, task, seen, cl, edits, faults>>
  BY DEF SettleStatus, budget
<1>3. wk \in Passes /\ wk.j \in Jobs
  BY DEF TypeOK, Passes
<1>4. i(pick) \in Jobs
  BY <1>3, SyncedType
<1>5. j(pick) \in Jobs
  BY <1>4 DEF Jobs, Phases
<1> HIDE DEF j
<1>6. p(pick) \in Passes /\ p(pick).pc \in {"save", "drop"}
  BY <1>3, <1>5 DEF Passes
<1> HIDE DEF p
<1> QED
  BY <1>1, <1>2, <1>6, GoStep DEF TypeOK

\* Then it deletes them and gives up the finalizer.
LEMMA DropTasksStep ==
    ASSUME JobTasksAssumption, CoreInv, DropTasks
    PROVE  CoreInv'
<1> USE DEF CoreInv
<1> DEFINE j == [job EXCEPT !.state = "gone", !.fin = FALSE]
<1>1. PICK done : DeleteAll(done)
  BY DEF DropTasks
<1>2. /\ job' \in {job, j} /\ (End(TRUE) \/ End(FALSE))
      /\ UNCHANGED <<seen, cl, edits>>
  BY DEF DropTasks
<1>3. /\ task' \in [Keys -> Tasks] /\ faults' \in 0..MaxFaults
      /\ \A k \in Keys :
           \/ task'[k] = task[k] \/ task'[k] = Absent
           \/ /\ task[k] # Absent /\ task'[k].restart = task[k].restart
              /\ task'[k].phase # "absent"
  BY <1>1, DeleteAllEffect
<1>4. j \in Jobs /\ j.restart = job.restart /\ j.state = "gone"
  BY DEF TypeOK, Jobs
<1> HIDE DEF j
<1>5. job' \in Jobs /\ job'.restart >= job.restart /\ (job'.state = "deleting" => job'.fin)
  BY <1>2, <1>4, RestartStays DEF TypeOK, Held
<1> QED
  BY <1>2, <1>3, <1>5, EndStep

----------------------------------------------------------------------------
(* The invariant.                                                           *)

\* The invariant holds initially: there is no Task.
LEMMA InitCore ==
    ASSUME JobTasksAssumption, Init
    PROVE  CoreInv
<1>1. PICK want \in SUBSET Templates, sel \in SUBSET Templates : job = NewJob(want, sel)
  BY DEF Init
<1>2. job \in Jobs /\ job.restart = 0 /\ job.state = "live"
  BY <1>1, NewJobType
<1>3. 0 \in 0..MaxEdits /\ 0 \in 0..MaxFaults
  BY DEF JobTasksAssumption
<1>4. TypeOK
  BY <1>2, <1>3, TaskTypes, IdleType DEF Init, TypeOK
<1>5. \A k \in Keys : task[k] = Absent /\ seen[k] = Absent
  BY DEF Init
<1>6. Canonical /\ Busy /\ Held /\ Restarts
  BY <1>2, <1>5, TaskTypes, IdleType DEF Init, Canonical, Busy, Held, Restarts
<1> QED
  BY <1>4, <1>6 DEF CoreInv

\* Every step keeps the invariant.
LEMMA NextCore ==
    ASSUME JobTasksAssumption, CoreInv, [Next]_vars
    PROVE  CoreInv'
<1>1. CASE UNCHANGED vars
  BY <1>1 DEF vars, CoreInv, TypeOK, Canonical, Busy, Held, Restarts
<1>2. CASE Pass
  BY <1>2, BeginStep, ResolveFailsStep, PruneStep, PlanStep, CreateStep, ReplaceTaskStep,
     UpdateTaskStep, SaveStatusStep, HaltStep, StopTasksStep, SettleStatusStep, DropTasksStep
     DEF Pass
<1>3. CASE Resync \/ RestartManager
  BY <1>3, CacheStep
<1>4. CASE Users \/ \E n \in Namespaces : OperateCluster(n)
  BY <1>4, UsersStep
<1>5. ASSUME NEW k \in Keys, Environment(k) \/ Observe(k) PROVE CoreInv'
  BY <1>5, CacheStep, EnvironmentStep DEF Environment
<1> QED
  BY <1>1, <1>2, <1>3, <1>4, <1>5 DEF Next

\* The cache shows no other life of a Task, and no Task is ahead of the pass.
THEOREM CoreInvariant == Spec => []CoreInv
<1>1. Init => CoreInv
  BY JobTasksAssumption, InitCore
<1>2. CoreInv /\ [Next]_vars => CoreInv'
  BY JobTasksAssumption, NextCore
<1> QED
  BY <1>1, <1>2, PTL DEF Spec

\* Every variable has its type: the phases of the Job and of its entries are
\* always ones the state machine knows, whatever the Agents report.
THEOREM TypeCorrect == Spec => []TypeOK
<1>1. CoreInv => TypeOK
  BY DEF CoreInv
<1> QED
  BY <1>1, CoreInvariant, PTL

----------------------------------------------------------------------------
(* What a step may do to a Task.                                            *)

\* A deletion resumes nothing, and what is gone carries no mark.
LEMMA DeletionKeeps ==
    ASSUME JobTasksAssumption, TypeOK, NEW k \in Keys
    PROVE  Deleted(task[k]).marker => Deleted(task[k]).susp = task[k].susp
<1> DEFINE d == [task[k] EXCEPT !.deleting = TRUE]
<1>1. d.susp = task[k].susp
  BY DEF TypeOK, Tasks
<1>2. Deleted(task[k]) = IF Claimed(task[k]) THEN d ELSE Absent
  BY DEF Deleted
<1> HIDE DEF d
<1> QED
  BY <1>1, <1>2, TaskTypes

\* What the loops of a pass do to a Task: nothing, deletion or suspension.
LEMMA WritesDo ==
    ASSUME TypeOK, NEW k \in Keys, Prune \/ Halt \/ StopTasks \/ DropTasks
    PROVE  \/ task'[k] = task[k] \/ task'[k] = Deleted(task[k])
           \/ task'[k] = [task[k] EXCEPT !.susp = TRUE]
<1>1. CASE Prune
  <2>1. PICK done \in SUBSET Strays :
          task' = [l \in Keys |-> IF l \in done THEN [m \in Strays |-> Pruned(m)][l] ELSE task[l]]
    BY <1>1 DEF Prune, Writes
  <2>2. k \in done => task'[k] = Pruned(k)
    BY <2>1
  <2>3. k \notin done => task'[k] = task[k]
    BY <2>1
  <2> QED
    BY <2>2, <2>3 DEF Pruned
<1>2. CASE StopTasks
  <2>1. PICK done, todo \in SUBSET Seen :
          /\ done \subseteq todo
          /\ task' = [l \in Keys |-> IF l \in done THEN [m \in todo |-> Stopped(m)][l] ELSE task[l]]
    BY <1>2 DEF StopTasks, Writes
  <2>2. k \in done => task'[k] = Stopped(k)
    BY <2>1
  <2>3. k \notin done => task'[k] = task[k]
    BY <2>1
  <2> QED
    BY <2>2, <2>3 DEF Stopped
<1>3. CASE Halt \/ DropTasks
  <2>1. PICK done : DeleteAll(done)
    BY <1>3 DEF Halt, DropTasks
  <2>2. /\ done \subseteq Seen
        /\ task' = [l \in Keys |-> IF l \in done THEN [m \in Seen |-> Deleted(task[m])][l]
                                  ELSE task[l]]
    BY <2>1 DEF DeleteAll, Writes
  <2>3. k \in done => task'[k] = Deleted(task[k])
    BY <2>2
  <2>4. k \notin done => task'[k] = task[k]
    BY <2>2
  <2> QED
    BY <2>3, <2>4
<1> QED
  BY <1>1, <1>2, <1>3

\* What the others do to it: a mark, a phase, deletion or removal.
LEMMA OthersDo ==
    ASSUME TypeOK, NEW k \in Keys, NEW l \in Keys, Environment(l) \/ Observe(l)
    PROVE  \/ task'[k] = task[k] \/ task'[k] = Deleted(task[k])
           \/ task[k].deleting /\ task'[k] = Absent
           \/ \E b : task'[k] = [task[k] EXCEPT !.marker = b]
           \/ \E p : task'[k] = [task[k] EXCEPT !.phase = p]
<1>1. CASE k # l
  BY <1>1 DEF TypeOK, Environment, Observe, CacheSync, MarkForDrain, ClearDrainMarker, Report,
              Release, CollectTask
<1>2. CASE k = l
  <2>1. CASE CacheSync(l)
    BY <2>1 DEF CacheSync
  <2>2. CASE MarkForDrain(l) \/ ClearDrainMarker(l)
    BY <1>2, <2>2 DEF MarkForDrain, ClearDrainMarker, TypeOK
  <2>3. CASE Report(l) \/ Observe(l)
    BY <1>2, <2>3 DEF Report, Observe, TypeOK
  <2>4. CASE Release(l) \/ CollectTask(l)
    BY <1>2, <2>4 DEF Release, CollectTask, TypeOK
  <2> QED
    BY <2>1, <2>2, <2>3, <2>4 DEF Environment
<1> QED
  BY <1>1, <1>2

\* The rest leaves the Tasks alone.
LEMMA TasksAlone ==
    ASSUME NEW k \in Keys,
           \/ Begin \/ ResolveFails \/ Plan \/ CreateExisting \/ SaveStatus \/ SettleStatus
           \/ Resync \/ RestartManager \/ Users \/ \E n \in Namespaces : OperateCluster(n)
    PROVE  task' = task
BY DEF Begin, ResolveFails, Plan, CreateExisting, SaveStatus, SettleStatus, Resync,
       RestartManager, Users, ToggleSuspended, RequestRestart, EditTemplates, DeleteJob,
       EditJob, OperateCluster

\* A dispatch that would resume a Task with the mark does not get through: the
\* copy it rests on is old.
LEMMA NoResume ==
    ASSUME JobTasksAssumption, CoreInv, Next, NEW k \in Keys,
           task[k].marker, task[k].susp, task'[k].marker
    PROVE  task'[k].susp
<1> USE DEF CoreInv
<1>1. task[k] \in Tasks /\ task[k] # Absent
  BY TaskTypes DEF TypeOK
<1>2. CASE task'[k] = task[k] \/ task'[k] = Deleted(task[k])
  BY <1>2, DeletionKeeps
<1>3. CASE Prune \/ Halt \/ StopTasks \/ DropTasks
  BY <1>1, <1>2, <1>3, WritesDo DEF Tasks
<1>4. ASSUME NEW l \in Keys, Environment(l) \/ Observe(l) PROVE task'[k].susp
  <2>1. CASE \E b : task'[k] = [task[k] EXCEPT !.marker = b]
    BY <1>1, <2>1 DEF Tasks
  <2>2. CASE \E p : task'[k] = [task[k] EXCEPT !.phase = p]
    BY <1>1, <2>2 DEF Tasks
  <2> QED
    BY <1>2, <1>4, <2>1, <2>2, OthersDo, TaskTypes
<1>5. CASE CreateTask
  <2>1. task' = [task EXCEPT ![NextKey] = NewTask(wk.j.restart)] /\ task[NextKey] = Absent
    BY <1>5 DEF CreateTask
  <2> QED
    BY <1>1, <1>2, <2>1 DEF TypeOK
<1>6. CASE ReplaceTask
  BY <1>2, <1>6 DEF ReplaceTask, TypeOK
<1>7. CASE UpdateTask
  <2>1. CASE task' = task
    BY <1>2, <2>1
  <2>2. CASE task' # task
    <3>1. /\ Differs(seen[NextKey]) /\ Fresh(NextKey)
          /\ task' = [task EXCEPT ![NextKey].susp = seen[NextKey].marker]
      BY <1>7, <2>2 DEF UpdateTask
    <3>2. CASE k = NextKey
      <4>1. task'[k] = [task[k] EXCEPT !.susp = task[k].marker]
        BY <3>1, <3>2 DEF Fresh, TypeOK
      <4> QED
        BY <1>1, <4>1 DEF Tasks
    <3>3. CASE k # NextKey
      BY <1>2, <3>1, <3>3 DEF TypeOK
    <3> QED
      BY <3>2, <3>3
  <2> QED
    BY <2>1, <2>2
<1>8. CASE \/ Begin \/ ResolveFails \/ Plan \/ CreateExisting \/ SaveStatus \/ SettleStatus
           \/ Resync \/ RestartManager \/ Users \/ \E n \in Namespaces : OperateCluster(n)
  BY <1>2, <1>8, TasksAlone
<1> QED
  BY <1>3, <1>4, <1>5, <1>6, <1>7, <1>8 DEF Next, Pass

\* A Task the drain has suspended stays suspended as long as it carries the
\* mark: no pass of the Job controller, from whatever copy, resumes it.
THEOREM DrainStops == Spec => MarkedStaysSuspended
<1>1. ASSUME CoreInv, [Next]_vars
      PROVE  \A k \in Keys : task[k].marker /\ task[k].susp /\ task'[k].marker => task'[k].susp
  <2>1. CASE UNCHANGED vars
    BY <2>1 DEF vars
  <2>2. CASE Next
    BY <1>1, <2>2, JobTasksAssumption, NoResume
  <2> QED
    BY <1>1, <2>1, <2>2
<1> QED
  BY <1>1, CoreInvariant, PTL DEF Spec, MarkedStaysSuspended

\* While the Tasks of a Job are dispatched, a Task of the latest restart is
\* neither deleted by the pass nor released or collected behind it.
LEMMA NoLoss ==
    ASSUME JobTasksAssumption, CoreInv, Next, NEW k \in Keys, wk.pc = "dispatch",
           task[k] # Absent, ~task[k].deleting, task[k].restart = job.restart
    PROVE  task'[k] # Absent /\ ~task'[k].deleting
<1> USE DEF CoreInv
<1>1. /\ task[k] \in Tasks /\ task[k].phase # "absent" /\ Absent.phase = "absent"
      /\ job.state # "gone"
  BY DEF TypeOK, Canonical, Held, Absent
<1>2. CASE task'[k] = task[k]
  BY <1>2
<1>4. ASSUME NEW l \in Keys, Environment(l) \/ Observe(l)
      PROVE  task'[k] # Absent /\ ~task'[k].deleting
  <2>1. CASE k # l
    BY <1>2, <1>4, <2>1 DEF TypeOK, Environment, Observe, CacheSync, MarkForDrain,
       ClearDrainMarker, Report, Release, CollectTask
  <2>2. CASE k = l
    <3>1. CASE CacheSync(l) \/ Release(l) \/ CollectTask(l)
      BY <1>1, <1>2, <2>2, <3>1 DEF CacheSync, Release, CollectTask
    <3>2. CASE MarkForDrain(l) \/ ClearDrainMarker(l)
      <4>1. PICK b : task' = [task EXCEPT ![k].marker = b]
        BY <2>2, <3>2 DEF MarkForDrain, ClearDrainMarker
      <4>2. task'[k] = [task[k] EXCEPT !.marker = b]
        BY <4>1 DEF TypeOK
      <4> QED
        BY <1>1, <4>2 DEF Tasks
    <3>3. CASE Report(l) \/ Observe(l)
      <4>1. PICK p \in Phases : task' = [task EXCEPT ![k].phase = p]
        BY <2>2, <3>3 DEF Report, Observe, Phases, JobTasksAssumption
      <4>2. task'[k] = [task[k] EXCEPT !.phase = p] /\ p # "absent"
        BY <4>1 DEF TypeOK, Phases
      <4> QED
        BY <1>1, <4>2 DEF Tasks
    <3> QED
      BY <1>4, <3>1, <3>2, <3>3 DEF Environment
  <2> QED
    BY <2>1, <2>2
<1>5. CASE CreateTask
  <2>1. task' = [task EXCEPT ![NextKey] = NewTask(wk.j.restart)] /\ task[NextKey] = Absent
    BY <1>5 DEF CreateTask
  <2> QED
    BY <1>2, <2>1 DEF TypeOK
<1>6. CASE ReplaceTask
  <2>1. /\ seen[NextKey] # Absent /\ (seen[NextKey].deleting \/ Outdated(seen[NextKey]))
        /\ task' = [task EXCEPT ![NextKey] = IF seen[NextKey].deleting THEN task[NextKey]
                                            ELSE Deleted(task[NextKey])]
    BY <1>6 DEF ReplaceTask, TypeOK
  <2>2. CASE k # NextKey
    BY <1>2, <2>1, <2>2 DEF TypeOK
  <2>3. CASE k = NextKey
    <3>1. seen[k].restart = task[k].restart
      BY <2>1, <2>3 DEF Restarts
    <3>2. task[k].restart = wk.j.restart
      <4>1. task[k].restart <= wk.j.restart /\ wk.j.restart <= job.restart
        BY DEF Restarts
      <4>2. task[k].restart \in 0..MaxRestarts /\ wk.j.restart \in 0..MaxRestarts
        BY DEF TypeOK, Passes, Jobs, Tasks
      <4> QED
        BY <4>1, <4>2 DEF JobTasksAssumption
    <3>3. seen[k].deleting
      BY <2>1, <2>3, <3>1, <3>2 DEF Outdated
    <3> QED
      BY <1>2, <2>1, <2>3, <3>3 DEF TypeOK
  <2> QED
    BY <2>2, <2>3
<1>7. CASE UpdateTask
  <2>1. CASE task' = task
    BY <1>2, <2>1
  <2>2. CASE task' # task
    <3>1. task' = [task EXCEPT ![NextKey].susp = seen[NextKey].marker]
      BY <1>7, <2>2 DEF UpdateTask
    <3>2. CASE k = NextKey
      <4>1. task'[k] = [task[k] EXCEPT !.susp = seen[k].marker]
        BY <3>1, <3>2 DEF TypeOK
      <4> QED
        BY <1>1, <4>1 DEF Tasks
    <3>3. CASE k # NextKey
      BY <1>2, <3>1, <3>3 DEF TypeOK
    <3> QED
      BY <3>2, <3>3
  <2> QED
    BY <2>1, <2>2
<1>8. CASE \/ Begin \/ ResolveFails \/ Plan \/ CreateExisting \/ SaveStatus \/ SettleStatus
           \/ Resync \/ RestartManager \/ Users \/ \E n \in Namespaces : OperateCluster(n)
  BY <1>2, <1>8, TasksAlone
<1>9. CASE Prune \/ Halt \/ StopTasks \/ DropTasks
  BY <1>9 DEF Prune, Halt, StopTasks, DropTasks
<1> QED
  BY <1>4, <1>5, <1>6, <1>7, <1>8, <1>9 DEF Next, Pass

\* A restart replaces a Task once: the deletion that asks for it carries no
\* precondition, yet never hits a Task made for the restart that is current.
THEOREM ReplacedOnce == Spec => RestartsOnce
<1>1. ASSUME CoreInv, [Next]_vars
      PROVE  \A k \in Keys :
               /\ wk.pc = "dispatch"
               /\ task[k] # Absent /\ ~task[k].deleting /\ task[k].restart = job.restart
               => task'[k] # Absent /\ ~task'[k].deleting
  <2>1. CASE UNCHANGED vars
    BY <2>1 DEF vars
  <2>2. CASE Next
    BY <1>1, <2>2, JobTasksAssumption, NoLoss
  <2> QED
    BY <1>1, <2>1, <2>2
<1> QED
  BY <1>1, CoreInvariant, PTL DEF Spec, RestartsOnce

=============================================================================
