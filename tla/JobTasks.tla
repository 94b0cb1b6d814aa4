------------------------------ MODULE JobTasks ------------------------------
(***************************************************************************)
(* The Job controller and the drain of the Cluster controller, both in the *)
(* controller manager, over the Tasks of one Job.  A Job has templates;    *)
(* each becomes a Task in the namespace of a cluster its node selector     *)
(* reaches.  The Job controller creates, moves, restarts, suspends and     *)
(* deletes the Tasks and derives the phase of the Job from theirs; the     *)
(* Cluster controller marks the Tasks of a draining cluster; the Agents of *)
(* the clusters claim them and report.                                     *)
(*                                                                         *)
(* Reads go through a cache that lags behind the API server, Task by Task. *)
(* A step of a pass is one round of API writes with the decisions up to    *)
(* the next.  An update is refused unless the copy it rests on is current; *)
(* a deletion and a merge patch are not.                                   *)
(***************************************************************************)
EXTENDS Naturals, FiniteSets, FiniteSetsExt

CONSTANTS
    NumTemplates,    \* task templates the Job may have
    NumNamespaces,   \* Agent namespaces, one per cluster, in the order of names
    Running,         \* phases the Agents report of a Task that is not suspended
    MaxEdits,        \* bound: changes to the Job, cordons, drains and their reversals
    MaxRestarts,     \* bound: restarts among them
    MaxFaults        \* bound: restarts of the manager, failed calls, failing workloads

ASSUME JobTasksAssumption ==
    /\ {NumTemplates, MaxEdits, MaxRestarts, MaxFaults} \subseteq Nat
    /\ NumNamespaces \in Nat \ {0}
    /\ Running \subseteq {"Pending", "Running", "Succeeded", "Failed"}

Templates == 1..NumTemplates
Namespaces == 1..NumNamespaces
Default == 1               \* the namespace of templates without a selector

VARIABLES
    job,     \* the Job
    task,    \* task[k]: the Task k of the API server
    seen,    \* seen[k]: the copy of it in the cache of the manager
    cl,      \* cl[n]: what its administrators want of the cluster of namespace n
    wk,      \* the running pass of the Job controller
    due,     \* the Job is queued
    edits,   \* changes so far
    faults   \* faults so far

vars == <<job, task, seen, cl, wk, due, edits, faults>>
budget == <<edits, faults>>

----------------------------------------------------------------------------
(* Data.                                                                    *)

\* A Task is known by its namespace and template, which make up its name.
Keys == Namespaces \X Templates

Phases == {"", "Pending", "Running", "Succeeded", "Failed", "Stopped"}

\* marker: the drain has asked for a stop; restart: the restart of the Job it was
\* created for.
Tasks ==
    [phase : Phases \cup {"absent"}, susp : BOOLEAN, deleting : BOOLEAN,
     marker : BOOLEAN, restart : 0..MaxRestarts]

Absent == [phase |-> "absent", susp |-> FALSE, deleting |-> FALSE, marker |-> FALSE,
           restart |-> 0]

\* An Agent has claimed the Task; the claim and the first report are one step.
Claimed(s) == s.phase \notin {"absent", ""}

\* sel: the templates with a node selector, which matches every cluster; st: the
\* entries of the status, "none" where there is none; observed: the status has
\* caught up with the generation.
Jobs ==
    [state : {"live", "deleting", "gone"}, fin : BOOLEAN, susp : BOOLEAN,
     restart : 0..MaxRestarts, want : SUBSET Templates, sel : SUBSET Templates,
     phase : Phases, st : [Templates -> Phases \cup {"none"}], observed : BOOLEAN]

NewJob(want, sel) ==
    [state |-> "live", fin |-> FALSE, susp |-> FALSE, restart |-> 0, want |-> want,
     sel |-> sel, phase |-> "", st |-> [t \in Templates |-> "none"], observed |-> FALSE]

\* j: the Job as read, with the status to save; was: the Job as read; left: the
\* templates still to dispatch; place: where they go; again: requeue at the end.
Passes ==
    [pc : {"idle", "plan", "dispatch", "save", "halt", "stop", "settle", "drop"},
     j : Jobs, was : Jobs, left : SUBSET Templates,
     place : [Templates -> Namespaces], again : BOOLEAN]

Idle == [pc |-> "idle", j |-> NewJob({}, {}), was |-> NewJob({}, {}), left |-> {},
         place |-> [t \in Templates |-> Default], again |-> FALSE]

TypeOK ==
    /\ job \in Jobs
    /\ task \in [Keys -> Tasks]
    /\ seen \in [Keys -> Tasks]
    /\ cl \in [Namespaces -> {"Open", "Cordoned", "Draining"}]
    /\ wk \in Passes
    /\ due \in BOOLEAN
    /\ edits \in 0..MaxEdits
    /\ faults \in 0..MaxFaults

Init ==
    /\ \E want \in SUBSET Templates \ {{}} :
         \E sel \in SUBSET want : job = NewJob(want, sel)
    /\ task = [k \in Keys |-> Absent]
    /\ seen = task
    /\ cl = [n \in Namespaces |-> "Open"]
    /\ wk = Idle
    /\ due = TRUE
    /\ edits = 0
    /\ faults = 0

Seen == {k \in Keys : seen[k] # Absent}

----------------------------------------------------------------------------
(* The phase of the Job.                                                    *)

\* Src, Dst: the state machine, event by event.
Src == [init    |-> {""},
        running |-> {"Pending"},
        pending |-> {"Running", "Stopped", "Succeeded", "Failed"},
        done    |-> {"Pending", "Running"},
        failed  |-> {"Pending", "Running"},
        stopped |-> {"Pending", "Running", "Succeeded", "Failed"}]
Dst == [init |-> "Pending", running |-> "Running", pending |-> "Pending",
        done |-> "Succeeded", failed |-> "Failed", stopped |-> "Stopped"]

\* MUTANT of Fire: the phase is set whether or not the machine has the edge.
FireAlways(e, phase) == IF e \in DOMAIN Dst THEN Dst[e] ELSE e

Fire(e, phase) == IF e \in DOMAIN Src /\ phase \in Src[e] THEN Dst[e] ELSE phase

\* MUTANT of Reopens: a Job that was stopped stays so.
ReopensResultsOnly(j) ==
    \/ j.phase = "Succeeded" /\ \E t \in j.want : j.st[t] # "Succeeded"
    \/ j.phase = "Failed" /\ \A t \in j.want : j.st[t] # "Failed"

\* What reopens a Job whose last result no longer fits its entries.
Reopens(j) ==
    \/ j.phase = "Stopped"
    \/ j.phase = "Succeeded" /\ \E t \in j.want : j.st[t] # "Succeeded"
    \/ j.phase = "Failed" /\ \A t \in j.want : j.st[t] # "Failed"

\* evaluateJobEvent for a Job that is not suspended: the event to fire.
Event(j) ==
    LET all(p) == j.want # {} /\ \A t \in j.want : j.st[t] = p
    IN CASE Reopens(j)                                 -> "pending"
         [] ~Reopens(j) /\ \E t \in j.want : j.st[t] = "Failed" -> "failed"
         [] ~Reopens(j) /\ all("Succeeded")            -> "done"
         [] ~Reopens(j) /\ all("Running")              -> "running"
         [] OTHER -> IF j.want = {} THEN "none" ELSE "pending"

\* SyncStatusEntry: a Task without a phase leaves the entry as it was.
Entry(old, new) == IF new = "" THEN old ELSE new

\* MUTANT of Snapshot: the initial event is not fired.
SnapshotWithoutInit(j) ==
    [j EXCEPT !.st = [t \in Templates |->
                        IF t \notin j.want THEN "none"
                        ELSE IF @[t] = "none" THEN "" ELSE @[t]]]

\* syncTaskStatusSnapshot and the initial event.
Snapshot(j) ==
    [j EXCEPT !.phase = Fire("init", @),
              !.st = [t \in Templates |->
                        IF t \notin j.want THEN "none"
                        ELSE IF @[t] = "none" THEN "" ELSE @[t]]]

\* syncTaskStatuses: the entries that have a phase follow the Task found for the
\* template; where there are several, pick says which.
Synced(j, pick) ==
    [j EXCEPT !.st = [t \in Templates |->
        IF t \in j.want /\ @[t] \notin {"none", ""}
           /\ <<pick[t], t>> \in Seen
        THEN Entry(@[t], seen[<<pick[t], t>>].phase) ELSE @[t]]]

Picks == {f \in [Templates -> Namespaces] :
            \A t \in Templates : (\E n \in Namespaces : <<n, t>> \in Seen)
                                   => <<f[t], t>> \in Seen}

\* markTaskStatusesStopped and the event of it.
Halted(j) ==
    [j EXCEPT !.phase = Fire("stopped", @),
              !.observed = TRUE,
              !.st = [t \in Templates |-> IF @[t] \in {"none", "Succeeded", "Failed"}
                                          THEN @[t] ELSE "Stopped"]]

----------------------------------------------------------------------------
(* Tasks.                                                                   *)

NewTask(r) == [Absent EXCEPT !.phase = "", !.restart = r]

\* The API server removes a Task at once unless an Agent has claimed it.
Deleted(s) == IF Claimed(s) THEN [s EXCEPT !.deleting = TRUE] ELSE Absent

Terminal(s) == s.phase \in {"Succeeded", "Failed"}

\* MUTANT of Fresh: updates are not fenced.
AnyCopy(k) == task[k] # Absent

\* An update of k goes through: the cached copy is current.
Fresh(k) == task[k] = seen[k]

\* Some loop writes to the Tasks of todo, in no particular order, and stops at
\* the first error: a conflict on one of blocked, or a call that fails.  done:
\* the Tasks written; new: the result.
Writes(todo, blocked, done, new) ==
    /\ done \subseteq todo \ blocked
    /\ done = todo \/ blocked # {} \/ faults < MaxFaults
    /\ task' = [k \in Keys |-> IF k \in done THEN new[k] ELSE task[k]]
    /\ faults' = IF done = todo \/ blocked # {} THEN faults ELSE faults + 1

----------------------------------------------------------------------------
(* A pass of the Job controller.                                            *)

\* The pass goes on as p; or ends, with the Job queued again or not.
Go(p) == wk' = p /\ UNCHANGED due
End(again) == wk' = Idle /\ due' = (due \/ again)

\* The Job is read.  The finalizer is added in a pass of its own.
Begin ==
    /\ wk.pc = "idle" /\ due
    /\ job.state # "gone"
    /\ IF job.state = "live" /\ ~job.fin
       THEN /\ job' = [job EXCEPT !.fin = TRUE]
            /\ UNCHANGED <<wk, due>>
       ELSE /\ wk' = [Idle EXCEPT !.j = job, !.was = job,
                        !.pc = IF job.state = "deleting" THEN "stop"
                               ELSE IF job.susp THEN "halt" ELSE "plan"]
            /\ due' = FALSE
            /\ UNCHANGED job
    /\ UNCHANGED <<task, seen, cl, budget>>

\* Only a cluster that its administrators have not closed takes Tasks.
Open == {n \in Namespaces : cl[n] = "Open"}
Resolves(t) == t \notin job.sel \/ Open # {}
Resolved(t) == IF t \in job.sel THEN Min(Open) ELSE Default

\* A template has no eligible cluster: the pass fails, what it observed is lost.
ResolveFails ==
    /\ wk.pc = "plan"
    /\ \E t \in wk.j.want : ~Resolves(t)
    /\ End(TRUE)
    /\ UNCHANGED <<job, task, seen, cl, budget>>

\* The Tasks in the cache that no template wants where they are.
Strays ==
    {k \in Seen : ~(k[2] \in wk.j.want /\ k[1] = Resolved(k[2]))}

\* A stray is suspended until it is Stopped, then deleted.
Pruned(k) ==
    IF seen[k].phase # "Stopped" THEN [task[k] EXCEPT !.susp = TRUE]
    ELSE IF seen[k].deleting THEN task[k] ELSE Deleted(task[k])

\* pruneTasks: while there are strays the pass goes no further.
Prune ==
    /\ wk.pc = "plan"
    /\ \A t \in wk.j.want : Resolves(t)
    /\ Strays # {}
    /\ \E done \in SUBSET Strays :
         Writes(Strays, {k \in Strays : seen[k].phase # "Stopped" /\ ~Fresh(k)}, done,
                [k \in Strays |-> Pruned(k)])
    /\ End(TRUE)
    /\ UNCHANGED <<job, seen, cl, edits>>

\* The status as it will be saved at the end of the pass.
Concluded(p) ==
    IF p.left = {}
    THEN [p EXCEPT !.pc = "save", !.j.phase = Fire(Event(p.j), @), !.j.observed = TRUE]
    ELSE [p EXCEPT !.pc = "dispatch"]

\* No strays: the entries are synchronised and the dispatch begins.
Plan ==
    /\ wk.pc = "plan"
    /\ \A t \in wk.j.want : Resolves(t)
    /\ Strays = {}
    /\ \E pick \in Picks :
         Go(Concluded([wk EXCEPT !.j = Synced(Snapshot(@), pick), !.left = wk.j.want,
                         !.place = [t \in Templates |->
                                      IF t \in wk.j.want THEN Resolved(t) ELSE Default]]))
    /\ UNCHANGED <<job, task, seen, cl, budget>>

\* The next template, its Task, and the pass after its dispatch.
NextTemplate == Min(wk.left)
NextKey == <<wk.place[NextTemplate], NextTemplate>>
Dispatched(phase) ==
    Concluded([wk EXCEPT !.left = @ \ {NextTemplate}, !.j.st[NextTemplate] = Entry(@, phase)])

\* No Task in the cache: one is created.
CreateTask ==
    /\ wk.pc = "dispatch"
    /\ seen[NextKey] = Absent /\ task[NextKey] = Absent
    /\ task' = [task EXCEPT ![NextKey] = NewTask(wk.j.restart)]
    /\ Go(Dispatched("Pending"))
    /\ UNCHANGED <<job, seen, cl, budget>>

\* The cache had not seen it: it is taken as it is, if the cache has by now.
CreateExisting ==
    /\ wk.pc = "dispatch"
    /\ seen[NextKey] = Absent /\ task[NextKey] # Absent
    /\ End(TRUE) \/ Go(Dispatched(task[NextKey].phase))
    /\ UNCHANGED <<job, task, seen, cl, budget>>

\* MUTANT of Outdated: any restart replaces whatever Task there is.
OutdatedIfAsked(s) == wk.j.restart > 0

\* The Task belongs to an earlier restart.
Outdated(s) == s.restart # wk.j.restart

\* It is on its way out, or sent there, and the pass ends.
ReplaceTask ==
    /\ wk.pc = "dispatch"
    /\ seen[NextKey] # Absent
    /\ seen[NextKey].deleting \/ Outdated(seen[NextKey])
    /\ task' = [task EXCEPT ![NextKey] = IF seen[NextKey].deleting THEN @ ELSE Deleted(@)]
    /\ End(TRUE)
    /\ UNCHANGED <<job, seen, cl, budget>>

\* MUTANT of Differs: the mark of a drain suspends nothing.
DiffersUnmarked(s) == ~Terminal(s) /\ ~s.marker /\ s.susp

\* A Task follows the Job, which is not suspended, or the drain; one that ended
\* by itself is left alone.
Differs(s) == (~Terminal(s) \/ (s.susp /\ ~s.marker)) /\ s.susp # s.marker

\* The Task is updated if it differs; a conflict ends the pass.
UpdateTask ==
    /\ wk.pc = "dispatch"
    /\ LET s == seen[NextKey] IN
       /\ s # Absent /\ ~s.deleting /\ ~Outdated(s)
       /\ IF Differs(s) /\ ~Fresh(NextKey)
          THEN End(TRUE) /\ UNCHANGED task
          ELSE /\ task' = IF Differs(s)
                          THEN [task EXCEPT ![NextKey].susp = s.marker] ELSE task
               /\ Go(Dispatched(s.phase))
    /\ UNCHANGED <<job, seen, cl, budget>>

\* A write to the Job goes through: it is as the pass read it.
Current == job = wk.was

\* The status is written if it changed.
SaveStatus ==
    /\ wk.pc = "save"
    /\ IF wk.j # wk.was /\ Current
       THEN job' = [job EXCEPT !.phase = wk.j.phase, !.st = wk.j.st, !.observed = wk.j.observed]
       ELSE UNCHANGED job
    /\ End(wk.again \/ (wk.j # wk.was /\ ~Current))
    /\ UNCHANGED <<task, seen, cl, budget>>

\* deleteOwnedTasks.
DeleteAll(done) ==
    Writes({k \in Seen : ~seen[k].deleting}, {}, done, [k \in Seen |-> Deleted(task[k])])

\* reconcileStoppedJob: the Tasks are deleted; with none left the Job is Stopped.
Halt ==
    /\ wk.pc = "halt"
    /\ \E done \in SUBSET Seen, pick \in Picks :
         /\ DeleteAll(done)
         /\ IF done # {k \in Seen : ~seen[k].deleting} THEN End(TRUE)
            ELSE LET j == Synced(Snapshot(wk.j), pick) IN
                 Go([wk EXCEPT !.pc = "save", !.again = Seen # {},
                       !.j = IF Seen = {} THEN Halted(j) ELSE j])
    /\ UNCHANGED <<job, seen, cl, edits>>

\* MUTANT of Stopped: a claimed Task is left to its Agent.
StoppedIfUnclaimed(k) == IF Claimed(seen[k]) THEN task[k] ELSE Deleted(task[k])

\* stopOwnedTasks: an unclaimed Task is deleted, a claimed one suspended.
Stopped(k) ==
    IF Claimed(seen[k]) THEN [task[k] EXCEPT !.susp = TRUE] ELSE Deleted(task[k])

\* The Job is deleted, first half: wait until all claimed Tasks are Stopped.
StopTasks ==
    /\ wk.pc = "stop"
    /\ LET todo == {k \in Seen : ~seen[k].deleting /\ ~(Claimed(seen[k]) /\ seen[k].susp)}
           blocked == {k \in todo : Claimed(seen[k]) /\ ~Fresh(k)}
           calm == \A k \in Seen : Claimed(seen[k]) => seen[k].phase = "Stopped"
       IN \E done \in SUBSET todo :
            /\ Writes(todo, blocked, done, [k \in todo |-> Stopped(k)])
            /\ IF done = todo /\ calm THEN Go([wk EXCEPT !.pc = "settle"]) ELSE End(TRUE)
    /\ UNCHANGED <<job, seen, cl, edits>>

\* jobTaskStatusesStopped.
EntriesStopped(j) ==
    LET listed == {t \in Templates : j.st[t] # "none"}
    IN Cardinality(listed) = Cardinality(j.want) /\ \A t \in listed : j.st[t] = "Stopped"

\* The final status is saved in a pass of its own.
SettleStatus ==
    /\ wk.pc = "settle"
    /\ \E pick \in Picks :
         LET j == [(IF EntriesStopped(wk.j) THEN wk.j ELSE Synced(wk.j, pick)) EXCEPT
                     !.phase = IF @ \in {"Succeeded", "Failed"} THEN @ ELSE "Stopped"]
         IN Go(IF j = wk.j THEN [wk EXCEPT !.pc = "drop"]
               ELSE [wk EXCEPT !.pc = "save", !.j = j, !.again = TRUE])
    /\ UNCHANGED <<job, task, seen, cl, budget>>

\* Second half: the Tasks are deleted, and with none left the finalizer goes.
DropTasks ==
    /\ wk.pc = "drop"
    /\ \E done \in SUBSET Seen : DeleteAll(done)
    /\ IF Seen = {} /\ Current
       THEN job' = [job EXCEPT !.state = "gone", !.fin = FALSE] /\ End(FALSE)
       ELSE UNCHANGED job /\ End(TRUE)
    /\ UNCHANGED <<seen, cl, edits>>

Pass ==
    \/ Begin \/ ResolveFails \/ Prune \/ Plan \/ CreateTask \/ CreateExisting
    \/ ReplaceTask \/ UpdateTask \/ SaveStatus \/ Halt \/ StopTasks
    \/ SettleStatus \/ DropTasks

----------------------------------------------------------------------------
(* The cache and the queue.                                                 *)

\* A watch event brings the cached copy of k up to date and queues the Job.
CacheSync(k) ==
    /\ seen[k] # task[k]
    /\ seen' = [seen EXCEPT ![k] = task[k]]
    /\ due' = TRUE
    /\ UNCHANGED <<job, task, cl, wk, budget>>

\* Every ten hours each cached Task is delivered again.
Resync ==
    /\ Seen # {} /\ ~due
    /\ due' = TRUE
    /\ UNCHANGED <<job, task, seen, cl, wk, budget>>

\* The manager stops at any point of a pass; it starts with a fresh cache.
RestartManager ==
    /\ faults < MaxFaults
    /\ faults' = faults + 1
    /\ wk' = Idle /\ due' = TRUE /\ seen' = task
    /\ UNCHANGED <<job, task, cl, edits>>

----------------------------------------------------------------------------
(* The Cluster controller.  It reads Tasks from the same cache.             *)

\* drainTasks: a Task of a Job is marked, its suspension left to the Job.
MarkForDrain(k) ==
    /\ cl[k[1]] = "Draining"
    /\ k \in Seen /\ ~seen[k].deleting /\ ~Terminal(seen[k]) /\ ~seen[k].marker
    /\ task[k] # Absent /\ ~task[k].marker
    /\ task' = [task EXCEPT ![k].marker = TRUE]
    /\ UNCHANGED <<job, seen, cl, wk, due, budget>>

\* clearDrainTaskMarkers, for a cluster that is not draining.
ClearDrainMarker(k) ==
    /\ cl[k[1]] # "Draining"
    /\ k \in Seen /\ ~seen[k].deleting /\ seen[k].marker
    /\ task[k].marker
    /\ task' = [task EXCEPT ![k].marker = FALSE]
    /\ UNCHANGED <<job, seen, cl, wk, due, budget>>

----------------------------------------------------------------------------
(* Agents (module TaskHost), users, administrators, garbage collection.     *)

\* What the Agent owes: a first report with its claim, a stop, a fresh start.
Report(k) ==
    /\ task[k] # Absent /\ ~task[k].deleting
    /\ \/ /\ task[k].susp /\ task[k].phase # "Stopped"
          /\ task' = [task EXCEPT ![k].phase = "Stopped"]
       \/ /\ ~task[k].susp /\ task[k].phase \in {"", "Stopped"}
          /\ task' = [task EXCEPT ![k].phase = "Pending"]
    /\ UNCHANGED <<job, seen, cl, wk, due, budget>>

\* The workload of the Task starts, or fails to; later it fails or recovers,
\* a bounded number of times.
Observe(k) ==
    /\ ~task[k].deleting /\ ~task[k].susp
    /\ \/ task[k].phase = "Pending" /\ UNCHANGED faults
       \/ task[k].phase \in Running /\ faults < MaxFaults /\ faults' = faults + 1
    /\ \E p \in Running \ {task[k].phase} : task' = [task EXCEPT ![k].phase = p]
    /\ UNCHANGED <<job, seen, cl, wk, due, edits>>

\* The Agent has cleaned up and removes its finalizer.
Release(k) ==
    /\ task[k].deleting
    /\ task' = [task EXCEPT ![k] = Absent]
    /\ UNCHANGED <<job, seen, cl, wk, due, budget>>

\* What the Job leaves behind goes with it, by its owner reference.
CollectTask(k) ==
    /\ job.state = "gone"
    /\ task[k] # Absent /\ ~task[k].deleting
    /\ task' = [task EXCEPT ![k] = Deleted(@)]
    /\ UNCHANGED <<job, seen, cl, wk, due, budget>>

EditJob(j) ==
    /\ job.state = "live" /\ edits < MaxEdits
    /\ edits' = edits + 1
    /\ job' = j
    /\ due' = TRUE
    /\ UNCHANGED <<task, seen, cl, wk, faults>>

ToggleSuspended == EditJob([job EXCEPT !.susp = ~@, !.observed = FALSE])

RequestRestart ==
    job.restart < MaxRestarts /\ EditJob([job EXCEPT !.restart = @ + 1])

EditTemplates ==
    \E want \in SUBSET Templates \ {job.want} :
      EditJob([job EXCEPT !.want = want, !.observed = FALSE])

DeleteJob == EditJob([job EXCEPT !.state = IF job.fin THEN "deleting" ELSE "gone"])

OperateCluster(n) ==
    /\ edits < MaxEdits
    /\ edits' = edits + 1
    /\ \E c \in {"Open", "Cordoned", "Draining"} \ {cl[n]} : cl' = [cl EXCEPT ![n] = c]
    /\ UNCHANGED <<job, task, seen, wk, due, faults>>

Users == ToggleSuspended \/ RequestRestart \/ EditTemplates \/ DeleteJob

Environment(k) ==
    \/ CacheSync(k) \/ MarkForDrain(k) \/ ClearDrainMarker(k)
    \/ Report(k) \/ Release(k) \/ CollectTask(k)

Next ==
    \/ Pass \/ Resync \/ RestartManager \/ Users
    \/ \E n \in Namespaces : OperateCluster(n)
    \/ \E k \in Keys : Environment(k) \/ Observe(k)

Spec == Init /\ [][Next]_vars

\* A queued Job is processed, watches deliver, the Cluster controller repeats
\* its pass, Agents do what they owe.  Nobody owes a workload that runs.
FairSpec ==
    /\ Spec
    /\ WF_vars(Pass) /\ WF_vars(Resync)
    /\ \A k \in Keys : WF_vars(Environment(k))

----------------------------------------------------------------------------
(* Properties.                                                              *)

\* A Task the drain has suspended stays suspended as long as it carries the
\* mark: no pass of the Job controller, from whatever copy, resumes it.
MarkedStaysSuspended ==
    [][\A k \in Keys :
         task[k].marker /\ task[k].susp /\ task'[k].marker => task'[k].susp]_vars

\* A restart replaces a Task once: the deletion that asks for it carries no
\* precondition, yet never hits a Task made for the restart that is current.
RestartsOnce ==
    [][\A k \in Keys :
         /\ wk.pc = "dispatch"
         /\ task[k] # Absent /\ ~task[k].deleting /\ task[k].restart = job.restart
         => task'[k] # Absent /\ ~task'[k].deleting]_vars

Settled == job.state = "live" /\ ~job.susp /\ \A t \in job.want : Resolves(t)
Wanted == {k \in Keys : k[2] \in job.want /\ Resolves(k[2]) /\ k[1] = Resolved(k[2])}

\* A suspended Job ends up Stopped, without Tasks, and its status up to date.
SuspendedStops ==
    <>[](job.state = "live" /\ job.susp) =>
      <>[](job.phase = "Stopped" /\ job.observed /\ \A k \in Keys : task[k] = Absent)

\* A deleted Job is gone in the end, and no Task is left.
DeletedGoes ==
    job.state = "deleting" ~> job.state = "gone" /\ \A k \in Keys : task[k] = Absent

\* Whatever order edits, restarts, moves and failures came in, a Job that can be
\* placed ends up with exactly its Tasks, of its last restart, running unless
\* the drain of their cluster stops them.
TasksSettle ==
    <>[]Settled =>
      <>[](\A k \in Keys :
             IF k \in Wanted
             THEN /\ task[k] # Absent /\ ~task[k].deleting
                  /\ task[k].restart = job.restart
                  /\ Terminal(task[k]) \/ task[k].susp = task[k].marker
             ELSE task[k] = Absent)

\* Once all its Tasks run for good, the Job is Running.
RunningIsSeen ==
    <>[](Settled /\ job.want # {} /\ \A k \in Wanted : task[k].phase = "Running" /\ ~task[k].susp
                                        /\ ~task[k].deleting /\ task[k].restart = job.restart) =>
      <>[](job.phase = "Running" /\ job.observed)

\* clusters-nodes.md: existing Tasks are not stopped by a cordon.
CordonStopsNothing ==
    [][\A k \in Keys :
         /\ cl[k[1]] = "Cordoned"
         /\ job.state = "live" /\ ~job.susp /\ k[2] \in job.want
         /\ task[k] # Absent /\ ~task[k].susp /\ ~task[k].deleting
         /\ task[k].restart = job.restart
         => task'[k] # Absent /\ ~task'[k].susp /\ ~task'[k].deleting]_vars

=============================================================================
