----------------------------- MODULE DialerPool -----------------------------
(***************************************************************************)
(* The SSH dialer manager of the Agent: per Domain an entry with a pool of *)
(* SSH transports, over which the callers open channels.  Callers share    *)
(* one reconnection at a time; a changed DomainInfo, keepalives, the age   *)
(* of a transport, idleness, RemoveDomain and Close take transports out.   *)
(*                                                                         *)
(* One Domain.  A step is one critical section of the mutex of an entry or *)
(* of the manager, or one blocking call: the goroutines interleave between *)
(* them.  Time is left out: what a timer or a deadline brings may happen   *)
(* at any moment.  Transports are identified as long as anyone uses them.  *)
(***************************************************************************)
EXTENDS Naturals, FiniteSets, FiniteSetsExt

CONSTANTS
    Users,            \* goroutines that dial
    Infos,            \* endpoints and credentials of the Domain
    None,             \* cleared credentials, or nobody and nothing
    MaxConnections,   \* MaxConnectionsPerDomain
    MaxPerConnection, \* MaxChannelsPerConnection
    MaxChannels,      \* MaxChannelsPerDomain
    NumTransports,    \* bound: transports in use at a time
    MaxEntries,       \* bound: entries the Domain gets, one after the other
    MaxEvents         \* bound: changed infos, transports that break, stop answering,
                      \* age or idle, evictions, removals

ASSUME DialerPoolAssumption ==
    /\ None \notin Infos \cup Users \cup Nat
    /\ IsFiniteSet(Users)
    /\ {MaxConnections, MaxPerConnection, MaxChannels} \subseteq Nat \ {0}
    /\ {NumTransports, MaxEntries} \subseteq Nat \ {0}
    /\ MaxEvents \in Nat

Entries == 1..MaxEntries
Transports == 1..NumTransports

VARIABLES
    map,      \* the entry in the map of the manager, or None
    ent,      \* ent[e]: an entry and its reconnection
    tr,       \* tr[c]: a transport
    user,     \* user[u]: where a caller is
    gc,       \* the entry the cleanup loop is about to evict, or None
    rm,       \* the entry RemoveDomain is about to close, or None
    mgr,      \* how far Close has come
    events    \* events so far

vars == <<map, ent, tr, user, gc, rm, mgr, events>>

----------------------------------------------------------------------------
(* Data.                                                                    *)

\* An entry gets a new info MaxEvents times, and once after it was cleared.
Generations == 0..(MaxEvents + 2)

\* err: lastReconnectErr; conn: the reconnection runs ("dialing"), or has dialled
\* the transport new; from, at: the info and the generation it started with;
\* cancelled: its context is.
EntryRecords ==
    [used : BOOLEAN, info : Infos \cup {None}, gen : Generations,
     removed : BOOLEAN, err : BOOLEAN, conn : {"idle", "dialing", "dialed"},
     from : Infos \cup {None}, at : Generations, cancelled : BOOLEAN,
     new : Transports \cup {None}]

Unused == [used |-> FALSE, info |-> None, gen |-> 0, removed |-> FALSE, err |-> FALSE,
           conn |-> "idle", from |-> None, at |-> 0, cancelled |-> FALSE, new |-> None]

\* "fresh": dialled, not in the pool yet; drain: the drain is still to come, or
\* has begun and its grace timer runs.
TransportRecords ==
    [state : {"free", "fresh", "open", "closed"}, e : Entries \cup {None},
     info : Infos \cup {None}, gen : Generations,
     active : 0..Cardinality(Users), draining : BOOLEAN, broken : BOOLEAN,
     drain : {"no", "due", "timer"}]

Free == [state |-> "free", e |-> None, info |-> None, gen |-> 0, active |-> 0,
         draining |-> FALSE, broken |-> FALSE, drain |-> "no"]

\* e: the entry of its Dialer; c: the transport of its channel.  A caller takes a
\* Dialer for every channel, as the container network does.
UserRecords ==
    [pc : {"idle", "binding", "trying", "waiting", "woken", "channel"},
     e : Entries \cup {None}, c : Transports \cup {None}]

NoCall == [pc |-> "idle", e |-> None, c |-> None]

Init ==
    /\ map = None
    /\ ent = [e \in Entries |-> Unused]
    /\ tr = [c \in Transports |-> Free]
    /\ user = [u \in Users |-> NoCall]
    /\ gc = None
    /\ rm = None
    /\ mgr = "running"
    /\ events = 0

\* entry.clients.
Clients(e) == {c \in Transports : tr[c].state = "open" /\ tr[c].e = e}

\* selectLeastLoadedLocked considers these.
Usable(e) == {c \in Clients(e) : ~tr[c].draining /\ tr[c].gen = ent[e].gen}

\* The round-robin index that breaks a tie is left out.
LeastLoaded(e) ==
    {c \in Usable(e) : \A d \in Usable(e) : tr[c].active <= tr[d].active}

Channels(e) == MapThenSumSet(LAMBDA c : tr[c].active, Clients(e))

\* A closed transport is forgotten once its last channel has been released.
Closed(c) ==
    IF tr[c].active = 0 THEN Free
    ELSE [Free EXCEPT !.state = "closed", !.active = tr[c].active]

Event == events < MaxEvents /\ events' = events + 1

Cancelled(e) == [ent[e] EXCEPT !.cancelled = ent[e].conn # "idle"]

----------------------------------------------------------------------------
(* GetDialer.                                                               *)

\* The entry is looked up, or created: the first half of getOrCreate.
Lookup(u) ==
    /\ user[u].pc = "idle"
    /\ \/ /\ map # None
          /\ user' = [user EXCEPT ![u] = [@ EXCEPT !.pc = "binding", !.e = map]]
          /\ UNCHANGED <<map, ent>>
       \/ /\ map = None
          /\ \E e \in Entries, i \in Infos :
               /\ ~ent[e].used /\ \A d \in 1..(e - 1) : ent[d].used
               /\ ent' = [ent EXCEPT ![e] = [Unused EXCEPT !.used = TRUE, !.info = i, !.gen = 1]]
               /\ map' = e
               /\ user' = [user EXCEPT ![u] = [@ EXCEPT !.pc = "binding", !.e = e]]
    /\ UNCHANGED <<tr, gc, rm, mgr, events>>

\* MUTANT of Rebound: the generation stays.
ReboundSameGeneration(e, i) == [Cancelled(e) EXCEPT !.info = i]

\* A new info makes a new generation and cancels the reconnection.
Rebound(e, i) == [Cancelled(e) EXCEPT !.info = i, !.gen = @ + 1]

\* The second half: the transports of the old info are to be drained.  The call
\* of DialContext that follows is refused if the manager is closed.
Bind(u, i) ==
    /\ user[u].pc = "binding"
    /\ LET e == user[u].e IN
       \/ /\ ent[e].info = i
          /\ UNCHANGED <<ent, tr, events>>
       \/ /\ ent[e].info # i
          /\ IF ent[e].info = None THEN UNCHANGED events ELSE Event
          /\ ent' = [ent EXCEPT ![e] = Rebound(e, i)]
          /\ tr' = [c \in Transports |->
                      IF c \in Clients(e) /\ tr[c].drain = "no"
                      THEN [tr[c] EXCEPT !.drain = "due"] ELSE tr[c]]
    /\ user' = [user EXCEPT ![u] = IF mgr = "running" THEN [@ EXCEPT !.pc = "trying"] ELSE NoCall]
    /\ UNCHANGED <<map, gc, rm, mgr>>

----------------------------------------------------------------------------
(* DialContext.                                                             *)

\* startReconnectLocked.
Started(e) ==
    [ent[e] EXCEPT !.conn = "dialing", !.from = ent[e].info, !.at = ent[e].gen]

\* MUTANT of Grows: the limit is checked one too late.
GrowsPastLimit(e, c) ==
    /\ tr[c].active + 1 >= MaxPerConnection
    /\ Cardinality(Clients(e)) <= MaxConnections
    /\ ent[e].conn = "idle"

\* A transport that is full now calls for another.
Grows(e, c) ==
    /\ tr[c].active + 1 >= MaxPerConnection
    /\ Cardinality(Clients(e)) < MaxConnections
    /\ ent[e].conn = "idle"

\* borrow finds a transport; the channel over it is being opened or is open.
Borrow(u) ==
    /\ user[u].pc = "trying"
    /\ LET e == user[u].e IN
       /\ ~ent[e].removed /\ Channels(e) < MaxChannels
       /\ \E c \in LeastLoaded(e) :
            /\ tr' = [tr EXCEPT ![c].active = @ + 1]
            /\ ent' = IF Grows(e, c) THEN [ent EXCEPT ![e] = Started(e)] ELSE ent
            /\ user' = [user EXCEPT ![u] = [@ EXCEPT !.pc = "channel", !.c = c]]
    /\ UNCHANGED <<map, gc, rm, mgr, events>>

\* ErrDomainRemoved or ErrOverloaded.
Refuse(u) ==
    /\ user[u].pc = "trying"
    /\ ent[user[u].e].removed \/ Channels(user[u].e) >= MaxChannels
    /\ user' = [user EXCEPT ![u] = NoCall]
    /\ UNCHANGED <<map, ent, tr, gc, rm, mgr, events>>

\* No transport: the caller starts a reconnection or joins the one there is.
Wait(u) ==
    /\ user[u].pc = "trying"
    /\ LET e == user[u].e IN
       /\ ~ent[e].removed /\ Channels(e) < MaxChannels
       /\ Usable(e) = {}
       /\ ent' = IF ent[e].conn = "idle" THEN [ent EXCEPT ![e] = Started(e)] ELSE ent
    /\ user' = [user EXCEPT ![u].pc = "waiting"]
    /\ UNCHANGED <<map, tr, gc, rm, mgr, events>>

\* The reconnection the caller waited for is over; the error it reads is that of
\* the last one.
Woken(u) ==
    /\ user[u].pc = "woken"
    /\ user' = [user EXCEPT ![u] = IF ent[@.e].err THEN NoCall ELSE [@ EXCEPT !.pc = "trying"]]
    /\ UNCHANGED <<map, ent, tr, gc, rm, mgr, events>>

\* The caller gives up, or the manager is closed.
GiveUp(u) ==
    /\ user[u].pc \in {"waiting", "woken"}
    /\ user' = [user EXCEPT ![u] = NoCall]
    /\ UNCHANGED <<map, ent, tr, gc, rm, mgr, events>>

\* MUTANT of Released: a draining transport is closed without counting down.
ReleasedUncounted(c) == IF tr[c].draining /\ tr[c].active = 1 THEN Free ELSE tr[c]

\* The last channel of a draining transport closes it.
Released(c) ==
    LET t == [tr[c] EXCEPT !.active = @ - 1]
    IN IF t.active = 0 /\ (t.state = "closed" \/ t.draining) THEN Free ELSE t

\* The channel fails to open, ends, or is closed.
Release(u) ==
    /\ user[u].pc = "channel"
    /\ tr' = [tr EXCEPT ![user[u].c] = Released(user[u].c)]
    /\ user' = [user EXCEPT ![u] = NoCall]
    /\ UNCHANGED <<map, ent, gc, rm, mgr, events>>

----------------------------------------------------------------------------
(* The reconnection.                                                        *)

\* The dial succeeds, unless the context is cancelled or the credentials are
\* gone; a cancellation may come too late.
DialOK(e) ==
    /\ ent[e].conn = "dialing"
    /\ ~ent[e].cancelled /\ mgr = "running" /\ ent[e].from # None
    /\ \E c \in Transports :
         /\ tr[c] = Free /\ \A d \in 1..(c - 1) : tr[d] # Free
         /\ tr' = [tr EXCEPT ![c] = [Free EXCEPT !.state = "fresh", !.e = e,
                                       !.info = ent[e].from, !.gen = ent[e].at]]
         /\ ent' = [ent EXCEPT ![e] = [@ EXCEPT !.conn = "dialed", !.new = c]]
    /\ UNCHANGED <<map, user, gc, rm, mgr, events>>

\* MUTANT of Accepted: the generation is not compared.
AcceptedAnyGeneration(e) == mgr = "running"

\* MUTANT of Accepted: a closed manager still takes transports.
AcceptedAfterClose(e) == ent[e].at = ent[e].gen

\* The transport enters the pool: nothing has overtaken the reconnection.
Accepted(e) ==
    /\ ent[e].at = ent[e].gen
    /\ mgr = "running"

\* MUTANT of Awakened: nobody is told.
AwakenedNone(e) == user

\* The channel the callers wait on is closed.
Awakened(e) ==
    [u \in Users |-> IF user[u].pc = "waiting" /\ user[u].e = e
                     THEN [user[u] EXCEPT !.pc = "woken"] ELSE user[u]]

\* A reconnection that was overtaken leaves no error, even if its dial failed.
Ended(e, failed) ==
    /\ ent' = [ent EXCEPT ![e] =
                 [@ EXCEPT !.conn = "idle", !.from = None, !.at = 0, !.cancelled = FALSE,
                           !.new = None, !.err = failed /\ ent[e].at = ent[e].gen]]
    /\ user' = Awakened(e)
    /\ UNCHANGED <<map, gc, rm, mgr, events>>

DialFails(e) ==
    /\ ent[e].conn = "dialing"
    /\ Ended(e, TRUE)
    /\ UNCHANGED tr

\* The transport enters the pool, or is closed again.
Publish(e) ==
    /\ ent[e].conn = "dialed"
    /\ tr' = [tr EXCEPT ![ent[e].new] = IF Accepted(e) THEN [@ EXCEPT !.state = "open"]
                                        ELSE Free]
    /\ Ended(e, FALSE)

----------------------------------------------------------------------------
(* Transports go.                                                           *)

\* drain marks the transport and starts the timer; an idle one is closed at once.
Drained(c) ==
    IF tr[c].draining THEN [tr[c] EXCEPT !.drain = "no"]
    ELSE IF tr[c].active = 0 THEN Free
    ELSE [tr[c] EXCEPT !.draining = TRUE, !.drain = "timer"]

\* GetDialer drains the transports of the old info, one after the other.
DrainOld(c) ==
    /\ tr[c].drain = "due"
    /\ tr' = [tr EXCEPT ![c] = IF @.state = "open" THEN Drained(c) ELSE [@ EXCEPT !.drain = "no"]]
    /\ UNCHANGED <<map, ent, user, gc, rm, mgr, events>>

\* A keepalive is not answered in time.
KeepaliveTimeout(c) ==
    /\ tr[c].state = "open" /\ ~tr[c].draining
    /\ Event
    /\ tr' = [tr EXCEPT ![c] = Drained(c)]
    /\ UNCHANGED <<map, ent, user, gc, rm, mgr>>

GraceOver(c) ==
    /\ tr[c].drain = "timer" /\ tr[c].state = "open"
    /\ tr' = [tr EXCEPT ![c] = Closed(c)]
    /\ UNCHANGED <<map, ent, user, gc, rm, mgr, events>>

\* The connection below breaks.
Break(c) ==
    /\ tr[c].state = "open" /\ ~tr[c].broken
    /\ Event
    /\ tr' = [tr EXCEPT ![c].broken = TRUE]
    /\ UNCHANGED <<map, ent, user, gc, rm, mgr>>

\* A failed keepalive or channel aborts it.
Abort(c) ==
    /\ tr[c].state = "open" /\ tr[c].broken /\ ~tr[c].draining
    /\ tr' = [tr EXCEPT ![c] = Closed(c)]
    /\ UNCHANGED <<map, ent, user, gc, rm, mgr, events>>

----------------------------------------------------------------------------
(* Cleanup.                                                                 *)

\* MUTANT of Swept: a transport is closed for its age whatever it carries.
SweptInUse(c, old, idle) ==
    IF c \in old \/ (c \in idle /\ tr[c].active = 0) THEN Closed(c) ELSE tr[c]

\* old: transports past their age; idle: transports unused for long.
Swept(c, old, idle) ==
    IF c \in old \cup idle /\ tr[c].active = 0 THEN Free
    ELSE IF c \in old THEN [tr[c] EXCEPT !.draining = TRUE]
    ELSE tr[c]

\* Old and idle transports go; the entry may have to go as well.
Sweep ==
    /\ gc = None /\ mgr = "running" /\ map # None
    /\ \E old, idle \in SUBSET Clients(map) :
         /\ tr' = [c \in Transports |->
                     IF c \in Clients(map) THEN Swept(c, old, idle) ELSE tr[c]]
         /\ \/ old \cup idle # {} /\ UNCHANGED gc
            \/ /\ \A c \in Clients(map) : tr'[c] = Free
               /\ ent[map].conn = "idle"
               /\ gc' = map
    /\ Event
    /\ UNCHANGED <<map, ent, user, rm, mgr>>

\* The entry leaves the map and loses its credentials, whatever came in between.
Evict ==
    /\ gc # None
    /\ IF map = gc
       THEN map' = None /\ ent' = [ent EXCEPT ![gc].info = None]
       ELSE UNCHANGED <<map, ent>>
    /\ gc' = None
    /\ UNCHANGED <<tr, user, rm, mgr, events>>

----------------------------------------------------------------------------
(* RemoveDomain and Close.                                                  *)

\* The entry leaves the map, then is marked, then loses its transports.
RemoveDomain ==
    /\ map # None /\ rm = None
    /\ Event
    /\ map' = None
    /\ rm' = map
    /\ UNCHANGED <<ent, tr, user, gc, mgr>>

RemoveMarks ==
    /\ rm # None /\ ~ent[rm].removed
    /\ ent' = [ent EXCEPT ![rm] = [@ EXCEPT !.removed = TRUE, !.info = None]]
    /\ UNCHANGED <<map, tr, user, gc, rm, mgr, events>>

\* entry.close.
CloseEntry(e) ==
    /\ tr' = [c \in Transports |-> IF c \in Clients(e) THEN Closed(c) ELSE tr[c]]
    /\ ent' = [ent EXCEPT ![e] = Cancelled(e)]

RemoveCloses ==
    /\ rm # None /\ ent[rm].removed
    /\ CloseEntry(rm)
    /\ rm' = None
    /\ UNCHANGED <<map, user, gc, mgr, events>>

Close ==
    /\ mgr = "running"
    /\ mgr' = "closing"
    /\ UNCHANGED <<map, ent, tr, user, gc, rm, events>>

CloseCloses ==
    /\ mgr = "closing"
    /\ IF map # None THEN CloseEntry(map) ELSE UNCHANGED <<ent, tr>>
    /\ mgr' = "waiting"
    /\ UNCHANGED <<map, user, gc, rm, events>>

\* Close waits for the reconnections and the cleanup loop.
CloseReturns ==
    /\ mgr = "waiting"
    /\ \A e \in Entries : ent[e].conn = "idle"
    /\ gc = None
    /\ mgr' = "closed"
    /\ UNCHANGED <<map, ent, tr, user, gc, rm, events>>

----------------------------------------------------------------------------

\* What runs by itself.
Reconnection(e) == DialOK(e) \/ DialFails(e) \/ Publish(e)
Caller(u) == (\E i \in Infos : Bind(u, i)) \/ Borrow(u) \/ Refuse(u) \/ Wait(u) \/ Woken(u)
Maintenance(c) == DrainOld(c) \/ GraceOver(c) \/ Abort(c)
Closing == RemoveMarks \/ RemoveCloses \/ CloseCloses \/ CloseReturns

Next ==
    \/ \E u \in Users : Lookup(u) \/ Caller(u) \/ GiveUp(u) \/ Release(u)
    \/ \E e \in Entries : Reconnection(e)
    \/ \E c \in Transports : Maintenance(c) \/ KeepaliveTimeout(c) \/ Break(c)
    \/ Sweep \/ Evict \/ RemoveDomain \/ Close \/ Closing

Spec == Init /\ [][Next]_vars

\* Goroutines run, dials are bounded by a timeout, timers fire.  Nobody owes a
\* new call, the end of a channel, or a fault.
FairSpec ==
    /\ Spec
    /\ \A u \in Users : WF_vars(Caller(u))
    /\ \A e \in Entries : WF_vars(Reconnection(e))
    /\ \A c \in Transports : WF_vars(Maintenance(c))
    /\ WF_vars(Closing) /\ WF_vars(Evict)

----------------------------------------------------------------------------
(* Properties.                                                              *)

\* Types, and each transport counts the channels over it: a count that is lost
\* either closes a transport in use or keeps the Domain overloaded.
TypeOK ==
    /\ map \in Entries \cup {None}
    /\ ent \in [Entries -> EntryRecords]
    /\ tr \in [Transports -> TransportRecords]
    /\ user \in [Users -> UserRecords]
    /\ gc \in Entries \cup {None}
    /\ rm \in Entries \cup {None}
    /\ mgr \in {"running", "closing", "waiting", "closed"}
    /\ events \in 0..MaxEvents
    /\ \A c \in Transports : tr[c].active = Cardinality({u \in Users : user[u].c = c})

\* Growth on load, waiting callers and reconnections that were overtaken never
\* give an entry more transports to choose from than its limit.
UsableWithinLimit == \A e \in Entries : Cardinality(Usable(e)) <= MaxConnections

\* A channel is only opened over a transport dialled with the latest info.
CurrentCredentials ==
    \A e \in Entries : ent[e].info # None => \A c \in Usable(e) : tr[c].info = ent[e].info

\* A transport in use is only closed for being broken, at the end of its grace,
\* or with its entry: cleanup, drains and other channels leave it alone.
UseIsRespected ==
    [][\A u \in Users : LET c == user[u].c IN
         /\ c # None /\ user'[u].c = c
         /\ tr[c].state = "open" /\ tr'[c].state # "open"
         => \/ tr[c].broken \/ tr[c].drain = "timer"
            \/ rm = tr[c].e \/ mgr = "closing"]_vars

\* Once Close has returned, the entry in the map has no transport, and gets none.
ClosedIsEmpty ==
    mgr = "closed" /\ map # None => Clients(map) = {}

\* A caller that waits is answered, whatever overtakes the reconnection.
Answered == \A u \in Users : []<>(user[u].pc \notin {"trying", "waiting"})

\* Transports dialled with an old info go in the end, even if their channels do
\* not, except those their age had already made draining.
OldTransportsGo ==
    []<>(\A c \in Transports :
           tr[c].state = "open" /\ tr[c].gen < ent[tr[c].e].gen
             => tr[c].draining /\ tr[c].drain = "no")

=============================================================================
