--------------------------- MODULE DialerPoolProofs ---------------------------
(***************************************************************************)
(* Safety of the SSH transports of one Domain, for every number of         *)
(* callers, infos, transports, entries and events, and every limit.        *)
(*                                                                         *)
(* CoreInv has three parts.  Books: everybody who names an entry names one *)
(* that is in use, an entry leaves the map once, and a transport counts    *)
(* its channels.  Versions: a transport and a reconnection remember a      *)
(* generation the entry has reached, and those of the latest one have its  *)
(* info.  Reserved: a reconnection that is not overtaken still has room    *)
(* for its transport.                                                      *)
(***************************************************************************)
EXTENDS DialerPool, TLAPS, FiniteSetTheorems

\* TypeOK without the count of channels.
Types ==
    /\ map \in Entries \cup {None}
    /\ ent \in [Entries -> EntryRecords]
    /\ tr \in [Transports -> TransportRecords]
    /\ user \in [Users -> UserRecords]
    /\ gc \in Entries \cup {None}
    /\ rm \in Entries \cup {None}
    /\ mgr \in {"running", "closing", "waiting", "closed"}
    /\ events \in 0..MaxEvents

Over(c) == {u \in Users : user[u].c = c}

\* A transport counts the channels over it.
Counted == \A c \in Transports : tr[c].active = Cardinality(Over(c))

\* A caller has a transport while it has a channel, and an entry while it calls.
Calls ==
    \A u \in Users :
        /\ user[u].c # None <=> user[u].pc = "channel"
        /\ user[u].pc # "idle" => user[u].e # None

\* Entry e has not been cleared yet.
Bound(e) == map = e \/ (rm = e /\ ~ent[e].removed)

\* Whoever names an entry names one in use; an entry that is bound has an info,
\* and one that is not is never bound again, so that it is cleared once.
Named ==
    /\ map # None => ent[map].used /\ ~ent[map].removed
    /\ rm # None => ent[rm].used /\ rm # map
    /\ gc # None => ent[gc].used
    /\ \A u \in Users : user[u].e # None => ent[user[u].e].used
    /\ \A e \in Entries : ~ent[e].used => ent[e] = Unused
    /\ \A e \in Entries : Bound(e) => ent[e].info # None
    /\ \A e \in Entries :
         ent[e].gen <= events + (IF ent[e].info = None \/ Bound(e) THEN 1 ELSE 2)

Books == Types /\ Counted /\ Calls /\ Named

\* A transport that is not published belongs to the reconnection that dialled it.
Fresh ==
    /\ \A c \in Transports :
         /\ tr[c].state \in {"free", "fresh"} => tr[c].active = 0
         /\ tr[c].state \in {"fresh", "open"} => tr[c].e # None
         /\ tr[c].state = "fresh" => ent[tr[c].e].new = c
    /\ \A e \in Entries : ent[e].new # None =>
         /\ ent[e].conn = "dialed"
         /\ tr[ent[e].new].state = "fresh" /\ tr[ent[e].new].e = e
         /\ tr[ent[e].new].info = ent[e].from /\ tr[ent[e].new].gen = ent[e].at
    /\ \A e \in Entries : ent[e].conn = "dialed" => ent[e].new # None

\* What was dialled for the latest generation was dialled with the latest info.
Versions ==
    /\ \A e \in Entries : ent[e].conn # "idle" =>
         /\ ent[e].at <= ent[e].gen
         /\ ent[e].at = ent[e].gen /\ ent[e].info # None => ent[e].from = ent[e].info
    /\ \A c \in Transports : tr[c].state = "open" =>
         LET e == tr[c].e IN
         /\ ent[e].used
         /\ tr[c].gen <= ent[e].gen
         /\ tr[c].gen = ent[e].gen /\ ent[e].info # None => tr[c].info = ent[e].info

\* A reconnection that was not overtaken finds room in the pool.
Reserved ==
    \A e \in Entries :
        ent[e].conn # "idle" /\ ent[e].at = ent[e].gen
            => Cardinality(Usable(e)) < MaxConnections

\* From the moment Close has closed the transports there are none.
Emptied == mgr \in {"waiting", "closed"} /\ map # None => Clients(map) = {}

CoreInv ==
    /\ Books /\ Fresh /\ Versions
    /\ UsableWithinLimit /\ Reserved /\ Emptied

----------------------------------------------------------------------------
(* Lemmas about the pool.                                                   *)

\* Sets of transports are finite, and a smaller one has no more members.
LEMMA PoolSize ==
    ASSUME DialerPoolAssumption, NEW T \in SUBSET Transports, NEW S \in SUBSET T
    PROVE  /\ IsFiniteSet(T) /\ Cardinality(T) \in Nat
           /\ Cardinality(S) \in Nat /\ Cardinality(S) <= Cardinality(T)
<1>1. NumTransports \in Nat
  BY DEF DialerPoolAssumption
<1>2. IsFiniteSet(Transports)
  BY <1>1, FS_Interval DEF Transports
<1>3. IsFiniteSet(T)
  BY <1>2, FS_Subset
<1> QED
  BY <1>3, FS_Subset, FS_CardinalityType

\* A step that adds no transport to choose from and starts no reconnection.
LEMMA NoGrowth ==
    ASSUME DialerPoolAssumption, UsableWithinLimit, Reserved,
           \A e \in Entries : Usable(e)' \subseteq Usable(e),
           \A e \in Entries : ent'[e].conn # "idle" /\ ent'[e].at = ent'[e].gen
                             => ent[e].conn # "idle" /\ ent[e].at = ent[e].gen
    PROVE  UsableWithinLimit' /\ Reserved'
<1> SUFFICES ASSUME NEW e \in Entries
             PROVE  /\ Cardinality(Usable(e)') <= MaxConnections
                    /\ ent'[e].conn # "idle" /\ ent'[e].at = ent'[e].gen
                         => Cardinality(Usable(e)') < MaxConnections
  BY DEF UsableWithinLimit, Reserved
<1>1. Usable(e) \in SUBSET Transports
  BY DEF Usable, Clients
<1>2. /\ Cardinality(Usable(e)) \in Nat /\ Cardinality(Usable(e)') \in Nat
      /\ Cardinality(Usable(e)') <= Cardinality(Usable(e))
  BY <1>1, PoolSize
<1>3. MaxConnections \in Nat
  BY DEF DialerPoolAssumption
<1> QED
  BY <1>2, <1>3 DEF UsableWithinLimit, Reserved

\* A step that moves no caller to or from a transport.
LEMMA CountKept ==
    ASSUME Counted, \A u \in Users : user'[u].c = user[u].c,
           \A c \in Transports : tr'[c].active = tr[c].active
    PROVE  Counted'
<1> SUFFICES ASSUME NEW c \in Transports PROVE tr'[c].active = Cardinality(Over(c)')
  BY DEF Counted
<1>1. Over(c)' = Over(c)
  BY DEF Over
<1> QED
  BY <1>1 DEF Counted

\* A transport with a caller counts at least one channel, with two at least two.
LEMMA InUse ==
    ASSUME DialerPoolAssumption, Books, NEW u \in Users, user[u].c # None
    PROVE  /\ user[u].c \in Transports
           /\ tr[user[u].c].active \in Nat \ {0}
           /\ \A v \in Users \ {u} : user[v].c = user[u].c => tr[user[u].c].active > 1
<1> DEFINE c == user[u].c
<1>1. c \in Transports
  BY DEF Books, Types, UserRecords
<1>2. IsFiniteSet(Users)
  BY DEF DialerPoolAssumption
<1>3. IsFiniteSet(Over(c)) /\ Cardinality(Over(c)) \in Nat
  BY <1>2, FS_Subset, FS_CardinalityType DEF Over
<1>4. u \in Over(c)
  BY DEF Over
<1>5. Cardinality({u}) = 1 /\ Cardinality({u}) <= Cardinality(Over(c))
  BY <1>3, <1>4, FS_Singleton, FS_Subset
<1>6. ASSUME NEW v \in Users \ {u}, user[v].c = user[u].c
      PROVE  Cardinality(Over(c)) > 1
  <2>1. {u} \subseteq Over(c) /\ v \in Over(c) /\ v \notin {u}
    BY <1>4, <1>6 DEF Over
  <2>2. Cardinality({u}) # Cardinality(Over(c))
    BY <2>1, <1>3, FS_Subset
  <2> QED
    BY <2>2, <1>5, <1>3
<1> QED
  BY <1>1, <1>3, <1>5, <1>6 DEF Books, Counted

----------------------------------------------------------------------------
(* Lemmas about transports and entries.                                     *)

\* The number of callers bounds a count of channels.
LEMMA CallersFinite ==
    ASSUME DialerPoolAssumption
    PROVE  Cardinality(Users) \in Nat
BY FS_CardinalityType DEF DialerPoolAssumption

\* A transport that is closed is forgotten or waits for its channels.
LEMMA ClosedTransport ==
    ASSUME DialerPoolAssumption, Types, NEW c \in Transports
    PROVE  /\ Free \in TransportRecords /\ Closed(c) \in TransportRecords
           /\ Free.state = "free" /\ Free.active = 0
           /\ Closed(c).state \in {"free", "closed"}
           /\ Closed(c).active = tr[c].active
           /\ Closed(c).state = "free" => tr[c].active = 0
<1>1. 0 \in 0..Cardinality(Users)
  BY CallersFinite
<1>2. tr[c] \in TransportRecords
  BY DEF Types
<1>3. Free \in TransportRecords
  BY <1>1 DEF Free, TransportRecords, Generations
<1>4. tr[c].active \in 0..Cardinality(Users)
  BY <1>2 DEF TransportRecords
<1> DEFINE waits == [Free EXCEPT !.state = "closed", !.active = tr[c].active]
<1>5. waits \in TransportRecords /\ waits.state = "closed" /\ waits.active = tr[c].active
  BY <1>3, <1>4 DEF TransportRecords
<1>6. Free.state = "free" /\ Free.active = 0
  BY DEF Free
<1>7. Closed(c) = IF tr[c].active = 0 THEN Free ELSE waits
  BY DEF Closed
<1> HIDE DEF waits
<1> QED
  BY <1>3, <1>5, <1>6, <1>7

\* A drain changes nothing else of a transport, or forgets an idle one.
LEMMA DrainedTransport ==
    ASSUME DialerPoolAssumption, Types, NEW c \in Transports
    PROVE  /\ Drained(c) \in TransportRecords
           /\ \/ Drained(c) = Free /\ tr[c].active = 0
              \/ /\ Drained(c).state = tr[c].state /\ Drained(c).e = tr[c].e
                 /\ Drained(c).info = tr[c].info /\ Drained(c).gen = tr[c].gen
                 /\ Drained(c).active = tr[c].active /\ Drained(c).draining
                 /\ Drained(c).broken = tr[c].broken
<1>1. tr[c] \in TransportRecords
  BY DEF Types
<1>2. Free \in TransportRecords
  BY ClosedTransport
<1> DEFINE kept == [tr[c] EXCEPT !.drain = "no"]
           begun == [tr[c] EXCEPT !.draining = TRUE, !.drain = "timer"]
<1>3. /\ kept \in TransportRecords
      /\ kept.state = tr[c].state /\ kept.e = tr[c].e /\ kept.info = tr[c].info
      /\ kept.gen = tr[c].gen /\ kept.active = tr[c].active
      /\ kept.draining = tr[c].draining /\ kept.broken = tr[c].broken
  BY <1>1 DEF TransportRecords
<1>4. /\ begun \in TransportRecords
      /\ begun.state = tr[c].state /\ begun.e = tr[c].e /\ begun.info = tr[c].info
      /\ begun.gen = tr[c].gen /\ begun.active = tr[c].active
      /\ begun.draining /\ begun.broken = tr[c].broken
  BY <1>1 DEF TransportRecords
<1>5. Drained(c) = IF tr[c].draining THEN kept ELSE IF tr[c].active = 0 THEN Free ELSE begun
  BY DEF Drained
<1> HIDE DEF kept, begun
<1> QED
  BY <1>2, <1>3, <1>4, <1>5

\* A transport loses one channel, and is forgotten with its last one if it was
\* closed or is draining.
LEMMA ReleasedTransport ==
    ASSUME DialerPoolAssumption, Types, NEW c \in Transports, tr[c].active # 0
    PROVE  /\ Released(c) \in TransportRecords
           /\ Released(c).active = tr[c].active - 1
           /\ \/ Released(c) = Free /\ tr[c].active = 1
              \/ /\ Released(c).state = tr[c].state /\ Released(c).e = tr[c].e
                 /\ Released(c).info = tr[c].info /\ Released(c).gen = tr[c].gen
                 /\ Released(c).draining = tr[c].draining
<1>1. tr[c] \in TransportRecords /\ Cardinality(Users) \in Nat
  BY CallersFinite DEF Types
<1>2. Free \in TransportRecords /\ Free.active = 0
  BY ClosedTransport
<1> DEFINE t == [tr[c] EXCEPT !.active = @ - 1]
<1>3. tr[c].active \in 0..Cardinality(Users)
  BY <1>1 DEF TransportRecords
<1>4. tr[c].active - 1 \in 0..Cardinality(Users)
  BY <1>1, <1>3
<1>5. t \in TransportRecords /\ t.active = tr[c].active - 1
  BY <1>1, <1>4 DEF TransportRecords
<1>6. t.state = tr[c].state /\ t.e = tr[c].e /\ t.info = tr[c].info /\ t.gen = tr[c].gen
      /\ t.draining = tr[c].draining
  BY <1>1 DEF TransportRecords
<1>7. Released(c) = IF t.active = 0 /\ (t.state = "closed" \/ t.draining) THEN Free ELSE t
  BY DEF Released
<1> HIDE DEF t
<1>8. CASE t.active = 0 /\ (t.state = "closed" \/ t.draining)
  BY <1>8, <1>7, <1>5, <1>2, <1>3
<1>9. CASE ~(t.active = 0 /\ (t.state = "closed" \/ t.draining))
  BY <1>9, <1>7, <1>5, <1>6
<1> QED
  BY <1>8, <1>9

\* The cleanup forgets idle transports and makes old ones drain.
LEMMA SweptTransport ==
    ASSUME DialerPoolAssumption, Types, NEW c \in Transports, NEW old, NEW idle
    PROVE  /\ Swept(c, old, idle) \in TransportRecords
           /\ \/ Swept(c, old, idle) = Free /\ tr[c].active = 0
              \/ Swept(c, old, idle) = tr[c]
              \/ Swept(c, old, idle) = [tr[c] EXCEPT !.draining = TRUE]
<1>1. tr[c] \in TransportRecords
  BY DEF Types
<1>2. Free \in TransportRecords
  BY ClosedTransport
<1>3. [tr[c] EXCEPT !.draining = TRUE] \in TransportRecords
  BY <1>1 DEF TransportRecords
<1> QED
  BY <1>1, <1>2, <1>3 DEF Swept

\* Started, cancelled and new entries.
LEMMA EntryTypes ==
    ASSUME DialerPoolAssumption, Types, NEW e \in Entries
    PROVE  /\ Unused \in EntryRecords
           /\ Cancelled(e) \in EntryRecords
           /\ Cancelled(e) = [ent[e] EXCEPT !.cancelled = (ent[e].conn # "idle")]
           /\ Started(e) \in EntryRecords
           /\ Started(e).used = ent[e].used /\ Started(e).info = ent[e].info
           /\ Started(e).gen = ent[e].gen /\ Started(e).removed = ent[e].removed
           /\ Started(e).conn = "dialing" /\ Started(e).new = ent[e].new
           /\ Started(e).from = ent[e].info /\ Started(e).at = ent[e].gen
<1>1. ent[e] \in EntryRecords
  BY DEF Types
<1>2. 0 \in Generations
  BY DEF Generations, DialerPoolAssumption
<1>3. Unused \in EntryRecords
  BY <1>2 DEF Unused, EntryRecords
<1>4. Cancelled(e) \in EntryRecords
  BY <1>1 DEF Cancelled, EntryRecords
<1>5. Started(e) \in EntryRecords
  BY <1>1 DEF Started, EntryRecords
<1>6. /\ Started(e).used = ent[e].used /\ Started(e).info = ent[e].info
      /\ Started(e).gen = ent[e].gen /\ Started(e).removed = ent[e].removed
      /\ Started(e).conn = "dialing" /\ Started(e).new = ent[e].new
      /\ Started(e).from = ent[e].info /\ Started(e).at = ent[e].gen
  BY <1>1 DEF Started, EntryRecords
<1> QED
  BY <1>3, <1>4, <1>5, <1>6 DEF Cancelled


\* A step that opens no transport, starts no reconnection and binds no entry: a
\* transport stays as it is, begins to drain or goes; an entry stays as it is,
\* is cleared, or ends its dial.
LEMMA Settles ==
    ASSUME DialerPoolAssumption, CoreInv, Types',
           \A c \in Transports :
             \/ /\ tr'[c].state = tr[c].state /\ tr'[c].e = tr[c].e
                /\ tr'[c].info = tr[c].info /\ tr'[c].gen = tr[c].gen
                /\ tr[c].draining => tr'[c].draining
                /\ tr[c].state \in {"free", "fresh"} => tr'[c].active = tr[c].active
             \/ /\ tr[c].state \in {"open", "closed"} /\ tr'[c].state \in {"free", "closed"}
                /\ tr'[c].state = "free" => tr'[c].active = 0,
           \A e \in Entries :
             /\ ent'[e].used = ent[e].used /\ ent'[e].gen = ent[e].gen
             /\ ent'[e].info \in {ent[e].info, None}
             /\ ent'[e].new = ent[e].new
             /\ \/ /\ ent'[e].conn = ent[e].conn /\ ent'[e].from = ent[e].from
                   /\ ent'[e].at = ent[e].at
                \/ ent[e].conn = "dialing" /\ ent'[e].conn = "idle"
    PROVE  /\ Fresh' /\ Versions' /\ UsableWithinLimit' /\ Reserved'
           /\ \A e \in Entries : Clients(e)' \subseteq Clients(e)
<1> USE DEF CoreInv, Books
<1> DEFINE Kept(c) ==
             /\ tr'[c].state = tr[c].state /\ tr'[c].e = tr[c].e
             /\ tr'[c].info = tr[c].info /\ tr'[c].gen = tr[c].gen
             /\ tr[c].draining => tr'[c].draining
             /\ tr[c].state \in {"free", "fresh"} => tr'[c].active = tr[c].active
           Gone(c) ==
             /\ tr[c].state \in {"open", "closed"} /\ tr'[c].state \in {"free", "closed"}
             /\ tr'[c].state = "free" => tr'[c].active = 0
           Same(e) ==
             /\ ent'[e].used = ent[e].used /\ ent'[e].gen = ent[e].gen
             /\ ent'[e].info \in {ent[e].info, None}
             /\ ent'[e].new = ent[e].new
             /\ \/ /\ ent'[e].conn = ent[e].conn /\ ent'[e].from = ent[e].from
                   /\ ent'[e].at = ent[e].at
                \/ ent[e].conn = "dialing" /\ ent'[e].conn = "idle"
<1>1. \A c \in Transports : Kept(c) \/ Gone(c)
  OBVIOUS
<1>2. \A e \in Entries : Same(e)
  OBVIOUS
<1>3. \A e \in Entries : Clients(e)' \subseteq Clients(e) /\ Usable(e)' \subseteq Usable(e)
  BY <1>1, <1>2 DEF Clients, Usable
<1>4. \A c \in Transports : tr[c].e \in Entries \cup {None} /\ tr'[c].e \in Entries \cup {None}
  BY DEF Types, TransportRecords
<1>5. \A e \in Entries : ent[e].new \in Transports \cup {None}
  BY DEF Types, EntryRecords
<1>6. Fresh'
  <2>1. ASSUME NEW c \in Transports
        PROVE  /\ tr'[c].state \in {"free", "fresh"} => tr'[c].active = 0
               /\ tr'[c].state \in {"fresh", "open"} => tr'[c].e # None
               /\ tr'[c].state = "fresh" => ent'[tr'[c].e].new = c
    BY <1>1, <1>2, <1>4 DEF Fresh
  <2>2. ASSUME NEW e \in Entries, ent'[e].new # None
        PROVE  /\ ent'[e].conn = "dialed"
               /\ tr'[ent'[e].new].state = "fresh" /\ tr'[ent'[e].new].e = e
               /\ tr'[ent'[e].new].info = ent'[e].from /\ tr'[ent'[e].new].gen = ent'[e].at
    BY <2>2, <1>1, <1>2, <1>5 DEF Fresh
  <2>3. ASSUME NEW e \in Entries, ent'[e].conn = "dialed" PROVE ent'[e].new # None
    BY <2>3, <1>2 DEF Fresh
  <2> QED
    BY <2>1, <2>2, <2>3 DEF Fresh
<1>7. Versions'
  <2>1. ASSUME NEW e \in Entries, ent'[e].conn # "idle"
        PROVE  /\ ent'[e].at <= ent'[e].gen
               /\ ent'[e].at = ent'[e].gen /\ ent'[e].info # None => ent'[e].from = ent'[e].info
    BY <2>1, <1>2 DEF Versions
  <2>2. ASSUME NEW c \in Transports, tr'[c].state = "open"
        PROVE  LET e == tr'[c].e IN
               /\ ent'[e].used
               /\ tr'[c].gen <= ent'[e].gen
               /\ tr'[c].gen = ent'[e].gen /\ ent'[e].info # None => tr'[c].info = ent'[e].info
    BY <2>2, <1>1, <1>2, <1>4 DEF Versions, Fresh
  <2> QED
    BY <2>1, <2>2 DEF Versions
<1>8. UsableWithinLimit' /\ Reserved'
  BY <1>2, <1>3, NoGrowth
<1> QED
  BY <1>3, <1>6, <1>7, <1>8

\* A step that binds and clears no entry.
LEMMA NamesKept ==
    ASSUME DialerPoolAssumption, Types, Types', Named, map' = map,
           rm' = rm \/ (rm' = None /\ ent[rm].removed),
           gc' \in {gc, map, None}, events' \in {events, events + 1},
           \A u \in Users : user'[u].e \in {user[u].e, map, None},
           \A e \in Entries :
             \/ ent'[e] = ent[e]
             \/ /\ ent[e].used /\ ent'[e].used
                /\ ent'[e].info = ent[e].info /\ ent'[e].gen = ent[e].gen
                /\ ent'[e].removed = ent[e].removed
    PROVE  Named'
<1>1. /\ map \in Entries \cup {None} /\ rm \in Entries \cup {None} /\ gc \in Entries \cup {None}
      /\ \A u \in Users : user[u].e \in Entries \cup {None}
      /\ events \in Nat
      /\ \A e \in Entries : ent[e].gen \in Nat
  <2>1. MaxEvents \in Nat
    BY DEF DialerPoolAssumption
  <2>2. \A e \in Entries : ent[e].gen \in Generations
    BY DEF Types, EntryRecords
  <2>3. \A u \in Users : user[u].e \in Entries \cup {None}
    BY DEF Types, UserRecords
  <2> QED
    BY <2>1, <2>2, <2>3 DEF Types, Generations
<1>2. \A e \in Entries : ent'[e].used = ent[e].used /\ ent'[e].info = ent[e].info
                         /\ ent'[e].gen = ent[e].gen /\ ent'[e].removed = ent[e].removed
  <2>1. \A e \in Entries : ent[e].used \in BOOLEAN /\ ent'[e].used \in BOOLEAN
    BY DEF Types, EntryRecords
  <2> QED
    BY <2>1
<1>3. \A e \in Entries : Bound(e)' <=> Bound(e)
  <2>1. None \notin Entries
    BY DEF Entries, DialerPoolAssumption
  <2> QED
    BY <2>1, <1>1, <1>2 DEF Bound
<1>4. /\ map' # None => ent'[map'].used /\ ~ent'[map'].removed
      /\ rm' # None => ent'[rm'].used /\ rm' # map'
      /\ gc' # None => ent'[gc'].used
  BY <1>1, <1>2 DEF Named
<1>5. \A u \in Users : user'[u].e # None => ent'[user'[u].e].used
  BY <1>1, <1>2 DEF Named
<1>6. \A e \in Entries : ~ent'[e].used => ent'[e] = Unused
  BY <1>2 DEF Named
<1>7. \A e \in Entries : Bound(e)' => ent'[e].info # None
  BY <1>2, <1>3 DEF Named
<1>8. ASSUME NEW e \in Entries
      PROVE  ent'[e].gen <= events' + (IF ent'[e].info = None \/ Bound(e)' THEN 1 ELSE 2)
  BY <1>1, <1>2, <1>3 DEF Named
<1> QED
  BY <1>4, <1>5, <1>6, <1>7, <1>8 DEF Named

\* The pool of a closed manager stays empty.
LEMMA EmptyKept ==
    ASSUME Types, Emptied, map' \in {map, None},
           mgr' \in {"waiting", "closed"} => mgr \in {"waiting", "closed"},
           \A e \in Entries : Clients(e)' \subseteq Clients(e)
    PROVE  Emptied'
BY DEF Types, Emptied

----------------------------------------------------------------------------
(* Steps of the transports.                                                 *)

\* A step that moves no caller, changes no entry and lets transports drain or
\* go, whatever becomes of their channels.
LEMMA TransportsStep ==
    ASSUME DialerPoolAssumption, CoreInv, UNCHANGED <<map, ent, user, rm, mgr>>,
           gc' \in {gc, map, None}, events' \in {events, events + 1}, events' \in 0..MaxEvents,
           tr' \in [Transports -> TransportRecords],
           \A c \in Transports :
             /\ tr'[c].active = tr[c].active
             /\ \/ /\ tr'[c].state = tr[c].state /\ tr'[c].e = tr[c].e
                   /\ tr'[c].info = tr[c].info /\ tr'[c].gen = tr[c].gen
                   /\ tr[c].draining => tr'[c].draining
                \/ /\ tr[c].state \in {"open", "closed"} /\ tr'[c].state \in {"free", "closed"}
                   /\ tr'[c].state = "free" => tr'[c].active = 0
    PROVE  CoreInv'
<1> USE DEF CoreInv, Books
<1>1. Types'
  BY DEF Types
<1>2. \A e \in Entries : ent[e].info \in {ent[e].info, None}
  OBVIOUS
<1>3. /\ Fresh' /\ Versions' /\ UsableWithinLimit' /\ Reserved'
      /\ \A e \in Entries : Clients(e)' \subseteq Clients(e)
  BY <1>1, <1>2, Settles
<1>4. Counted'
  BY CountKept
<1>5. Calls'
  BY DEF Calls
<1>6. Named'
  BY <1>1, NamesKept
<1>7. Emptied'
  BY <1>3, EmptyKept
<1> QED
  BY <1>1, <1>3, <1>4, <1>5, <1>6, <1>7

\* The next record of one transport.
LEMMA OneTransport ==
    ASSUME Types, NEW c \in Transports, NEW t \in TransportRecords,
           tr' = [tr EXCEPT ![c] = t]
    PROVE  /\ tr' \in [Transports -> TransportRecords] /\ tr'[c] = t
           /\ \A d \in Transports \ {c} : tr'[d] = tr[d]
BY DEF Types

\* Draining a transport of an old generation frees a place, and takes none.
LEMMA DrainOldStep ==
    ASSUME DialerPoolAssumption, CoreInv, NEW c \in Transports, DrainOld(c)
    PROVE  CoreInv'
<1> USE DEF CoreInv, Books
<1> DEFINE kept == [tr[c] EXCEPT !.drain = "no"]
           t == IF tr[c].state = "open" THEN Drained(c) ELSE kept
<1>1. tr[c] \in TransportRecords
  BY DEF Types
<1>2. /\ kept \in TransportRecords /\ kept.state = tr[c].state /\ kept.e = tr[c].e
      /\ kept.info = tr[c].info /\ kept.gen = tr[c].gen /\ kept.draining = tr[c].draining
      /\ kept.active = tr[c].active
  BY <1>1 DEF TransportRecords
<1>3. tr' = [tr EXCEPT ![c] = t]
  BY DEF DrainOld, Types
<1> HIDE DEF kept
<1>4. /\ t \in TransportRecords /\ t.active = tr[c].active
      /\ \/ /\ t.state = tr[c].state /\ t.e = tr[c].e /\ t.info = tr[c].info
            /\ t.gen = tr[c].gen
            /\ tr[c].draining => t.draining
         \/ tr[c].state = "open" /\ t.state = "free" /\ t.active = 0
  BY <1>2, DrainedTransport, ClosedTransport
<1> HIDE DEF t
<1>5. /\ tr' \in [Transports -> TransportRecords] /\ tr'[c] = t
      /\ \A d \in Transports \ {c} : tr'[d] = tr[d]
  BY <1>3, <1>4, OneTransport
<1>6. UNCHANGED <<map, ent, user, rm, mgr, gc, events>> /\ events \in 0..MaxEvents
  BY DEF DrainOld, Types
<1> QED
  BY <1>4, <1>5, <1>6, TransportsStep

\* A transport without answer begins to drain, which only frees a place.
LEMMA KeepaliveTimeoutStep ==
    ASSUME DialerPoolAssumption, CoreInv, NEW c \in Transports, KeepaliveTimeout(c)
    PROVE  CoreInv'
<1> USE DEF CoreInv, Books
<1>1. tr' = [tr EXCEPT ![c] = Drained(c)] /\ tr[c].state = "open" /\ ~tr[c].draining
  BY DEF KeepaliveTimeout
<1>2. /\ Drained(c) \in TransportRecords /\ Drained(c).active = tr[c].active
      /\ \/ /\ Drained(c).state = tr[c].state /\ Drained(c).e = tr[c].e
            /\ Drained(c).info = tr[c].info /\ Drained(c).gen = tr[c].gen
         \/ Drained(c).state = "free" /\ Drained(c).active = 0
  BY DrainedTransport, ClosedTransport
<1>3. /\ tr' \in [Transports -> TransportRecords] /\ tr'[c] = Drained(c)
      /\ \A d \in Transports \ {c} : tr'[d] = tr[d]
  BY <1>1, <1>2, OneTransport
<1>4. UNCHANGED <<map, ent, user, rm, mgr, gc>> /\ events' = events + 1 /\ events' \in 0..MaxEvents
  BY DEF KeepaliveTimeout, Types, Event, DialerPoolAssumption
<1> QED
  BY <1>1, <1>2, <1>3, <1>4, TransportsStep

\* A transport that is closed, whatever for.
LEMMA ClosedStep ==
    ASSUME DialerPoolAssumption, CoreInv, NEW c \in Transports, GraceOver(c) \/ Abort(c)
    PROVE  CoreInv'
<1> USE DEF CoreInv, Books
<1>1. tr' = [tr EXCEPT ![c] = Closed(c)] /\ tr[c].state = "open"
  BY DEF GraceOver, Abort
<1>2. /\ tr' \in [Transports -> TransportRecords] /\ tr'[c] = Closed(c)
      /\ \A d \in Transports \ {c} : tr'[d] = tr[d]
  BY <1>1, ClosedTransport, OneTransport
<1>3. UNCHANGED <<map, ent, user, rm, mgr, gc, events>> /\ events \in 0..MaxEvents
  BY DEF GraceOver, Abort, Types
<1> QED
  BY <1>1, <1>2, <1>3, ClosedTransport, TransportsStep

\* A transport that breaks is still counted until somebody aborts it.
LEMMA BreakStep ==
    ASSUME DialerPoolAssumption, CoreInv, NEW c \in Transports, Break(c)
    PROVE  CoreInv'
<1> USE DEF CoreInv, Books
<1> DEFINE t == [tr[c] EXCEPT !.broken = TRUE]
<1>1. tr' = [tr EXCEPT ![c] = t]
  BY DEF Break, Types
<1>2. tr[c] \in TransportRecords
  BY DEF Types
<1>3. /\ t \in TransportRecords /\ t.state = tr[c].state /\ t.e = tr[c].e
      /\ t.info = tr[c].info /\ t.gen = tr[c].gen /\ t.draining = tr[c].draining
      /\ t.active = tr[c].active
  BY <1>2 DEF TransportRecords
<1> HIDE DEF t
<1>4. /\ tr' \in [Transports -> TransportRecords] /\ tr'[c] = t
      /\ \A d \in Transports \ {c} : tr'[d] = tr[d]
  BY <1>1, <1>3, OneTransport
<1>5. UNCHANGED <<map, ent, user, rm, mgr, gc>> /\ events' = events + 1 /\ events' \in 0..MaxEvents
  BY DEF Break, Types, Event, DialerPoolAssumption
<1> QED
  BY <1>3, <1>4, <1>5, TransportsStep

\* A round of the cleanup drains or closes transports and adds none.
LEMMA SweepStep ==
    ASSUME DialerPoolAssumption, CoreInv, Sweep
    PROVE  CoreInv'
<1> USE DEF CoreInv, Books
<1>1. PICK old, idle \in SUBSET Clients(map) :
        tr' = [c \in Transports |-> IF c \in Clients(map) THEN Swept(c, old, idle) ELSE tr[c]]
  BY DEF Sweep
<1>2. ASSUME NEW c \in Transports
      PROVE  /\ tr'[c] \in TransportRecords
             /\ \/ tr'[c] = tr[c]
                \/ tr[c].state = "open" /\ tr'[c] = Free /\ tr[c].active = 0
                \/ tr'[c] = [tr[c] EXCEPT !.draining = TRUE]
  <2>1. tr'[c] = IF c \in Clients(map) THEN Swept(c, old, idle) ELSE tr[c]
    BY <1>1
  <2>2. tr[c] \in TransportRecords
    BY DEF Types
  <2>3. CASE c \in Clients(map)
    <3>1. tr[c].state = "open" /\ tr'[c] = Swept(c, old, idle)
      BY <2>1, <2>3 DEF Clients
    <3> QED
      BY <3>1, SweptTransport
  <2> QED
    BY <2>1, <2>2, <2>3
<1>3. ASSUME NEW c \in Transports
      PROVE  /\ tr'[c].active = tr[c].active
             /\ \/ /\ tr'[c].state = tr[c].state /\ tr'[c].e = tr[c].e
                   /\ tr'[c].info = tr[c].info /\ tr'[c].gen = tr[c].gen
                   /\ tr[c].draining => tr'[c].draining
                \/ tr[c].state = "open" /\ tr'[c].state = "free" /\ tr'[c].active = 0
  <2>1. tr[c] \in TransportRecords
    BY DEF Types
  <2>2. CASE tr'[c] = [tr[c] EXCEPT !.draining = TRUE]
    BY <2>1, <2>2 DEF TransportRecords
  <2>3. CASE tr[c].state = "open" /\ tr'[c] = Free /\ tr[c].active = 0
    BY <2>3, ClosedTransport
  <2> QED
    BY <1>2, <2>2, <2>3
<1>4. tr' \in [Transports -> TransportRecords]
  <2>1. tr' = [c \in Transports |-> tr'[c]]
    BY <1>1
  <2> QED
    BY <2>1, <1>2
<1>5. /\ UNCHANGED <<map, ent, user, rm, mgr>> /\ gc' \in {gc, map}
      /\ events' = events + 1 /\ events' \in 0..MaxEvents
  BY DEF Sweep, Types, Event, DialerPoolAssumption
<1> QED
  BY <1>3, <1>4, <1>5, TransportsStep

----------------------------------------------------------------------------
(* Steps of the callers.                                                    *)

\* A step of a caller with no channel, or of several, that changes nothing else:
\* it stays without one, at its entry or at none.
LEMMA CallersStep ==
    ASSUME DialerPoolAssumption, CoreInv, UNCHANGED <<map, ent, tr, gc, rm, mgr, events>>,
           user' \in [Users -> UserRecords],
           \A u \in Users :
             \/ user'[u] = user[u]
             \/ /\ user[u].c = None /\ user'[u].c = None /\ user'[u].pc # "channel"
                /\ \/ user'[u].pc = "idle" /\ user'[u].e = None
                   \/ user[u].pc # "idle" /\ user'[u].e = user[u].e
                   \/ map # None /\ user'[u].e = map
    PROVE  CoreInv'
<1> USE DEF CoreInv, Books
<1>1. Types'
  BY DEF Types
<1>2. \A e \in Entries : ent[e].info \in {ent[e].info, None}
  OBVIOUS
<1>3. /\ Fresh' /\ Versions' /\ UsableWithinLimit' /\ Reserved'
      /\ \A e \in Entries : Clients(e)' \subseteq Clients(e)
  BY <1>1, <1>2, Settles
<1>4. Counted'
  BY CountKept
<1>5. Calls'
  BY DEF Calls
<1>6. Named'
  BY <1>1, NamesKept DEF Named
<1>7. Emptied'
  BY <1>3, EmptyKept
<1> QED
  BY <1>1, <1>3, <1>4, <1>5, <1>6, <1>7

\* The next record of one caller.
LEMMA OneCaller ==
    ASSUME Types, NEW u \in Users, NEW r \in UserRecords, user' = [user EXCEPT ![u] = r]
    PROVE  /\ user' \in [Users -> UserRecords] /\ user'[u] = r
           /\ \A v \in Users \ {u} : user'[v] = user[v]
BY DEF Types

\* Nothing is no transport, entry or info.
LEMMA NoneIsNothing ==
    ASSUME DialerPoolAssumption
    PROVE  None \notin Transports /\ None \notin Entries /\ None \notin Infos
BY DEF DialerPoolAssumption, Transports, Entries

\* A caller without a call has the type of a caller, and no entry or channel.
LEMMA NoCallRecord ==
    NoCall \in UserRecords /\ NoCall.pc = "idle" /\ NoCall.e = None /\ NoCall.c = None
BY DEF NoCall, UserRecords

\* A caller that goes on at its entry with no channel.
LEMMA CallerGoesOn ==
    ASSUME Types, Calls, NEW u \in Users, user[u].pc # "channel",
           NEW p \in {"trying", "waiting"}
    PROVE  LET r == [user[u] EXCEPT !.pc = p]
           IN  /\ r \in UserRecords /\ r.pc = p /\ r.e = user[u].e
               /\ r.c = None /\ user[u].c = None
<1>1. user[u] \in UserRecords
  BY DEF Types
<1>2. user[u].c = None
  BY DEF Calls
<1> QED
  BY <1>1, <1>2 DEF UserRecords

\* A caller that gets an error, or gives up, has no channel to count.
LEMMA RefuseOrGiveUpStep ==
    ASSUME DialerPoolAssumption, CoreInv, NEW u \in Users, Refuse(u) \/ GiveUp(u)
    PROVE  CoreInv'
<1> USE DEF CoreInv, Books
<1>1. user' = [user EXCEPT ![u] = NoCall] /\ user[u].pc # "channel"
  BY DEF Refuse, GiveUp
<1>2. user[u].c = None
  BY <1>1 DEF Calls
<1>3. UNCHANGED <<map, ent, tr, gc, rm, mgr, events>>
  BY DEF Refuse, GiveUp
<1> QED
  BY <1>1, <1>2, <1>3, OneCaller, NoCallRecord, CallersStep

\* A caller that is woken holds nothing, whether it tries again or not.
LEMMA WokenStep ==
    ASSUME DialerPoolAssumption, CoreInv, NEW u \in Users, Woken(u)
    PROVE  CoreInv'
<1> USE DEF CoreInv, Books
<1> DEFINE r == [user[u] EXCEPT !.pc = "trying"]
           s == IF ent[user[u].e].err THEN NoCall ELSE r
<1>1. user[u].pc = "woken" /\ user' = [user EXCEPT ![u] = s]
  BY DEF Woken, Types
<1>2. user[u].e \in Entries
  BY <1>1 DEF Calls, Types, UserRecords
<1>3. r \in UserRecords /\ r.pc = "trying" /\ r.e = user[u].e /\ r.c = None /\ user[u].c = None
  BY <1>1, <1>2, CallerGoesOn
<1> HIDE DEF r
<1>4. s \in UserRecords /\ s.c = None /\ s.pc # "channel"
      /\ ((s.pc = "idle" /\ s.e = None) \/ s.e = user[u].e)
  BY <1>3, NoCallRecord
<1> HIDE DEF s
<1>5. UNCHANGED <<map, ent, tr, gc, rm, mgr, events>>
  BY DEF Woken
<1> QED
  BY <1>1, <1>3, <1>4, <1>5, OneCaller, CallersStep

\* The last channel may take its transport with it.
LEMMA ReleaseStep ==
    ASSUME DialerPoolAssumption, CoreInv, NEW u \in Users, Release(u)
    PROVE  CoreInv'
<1> USE DEF CoreInv, Books
<1>0. user[u].c # None
  BY DEF Release, Calls
<1> PICK c \in Transports : c = user[u].c
  BY <1>0, InUse
<1>1. /\ user[u].c = c /\ user[u].pc = "channel"
      /\ tr' = [tr EXCEPT ![c] = Released(c)] /\ user' = [user EXCEPT ![u] = NoCall]
      /\ UNCHANGED <<map, ent, gc, rm, mgr, events>>
  BY DEF Release
<1>2. tr[c].active \in Nat \ {0} /\ c # None
  BY <1>0, <1>1, InUse
<1>3. /\ Released(c) \in TransportRecords
      /\ Released(c).active = tr[c].active - 1
      /\ \/ Released(c) = Free /\ tr[c].active = 1
         \/ /\ Released(c).state = tr[c].state /\ Released(c).e = tr[c].e
            /\ Released(c).info = tr[c].info /\ Released(c).gen = tr[c].gen
            /\ Released(c).draining = tr[c].draining
  BY <1>2, ReleasedTransport
<1>4. /\ tr' \in [Transports -> TransportRecords] /\ tr'[c] = Released(c)
      /\ \A d \in Transports \ {c} : tr'[d] = tr[d]
  BY <1>1, <1>2, <1>3, OneTransport
<1>5. /\ user' \in [Users -> UserRecords] /\ user'[u] = NoCall
      /\ \A v \in Users \ {u} : user'[v] = user[v]
  BY <1>1, NoCallRecord, OneCaller
<1>6. Types'
  BY <1>1, <1>4, <1>5 DEF Types
<1>7. tr[c].state \in {"open", "closed"}
  <2>1. tr[c].state \in {"free", "fresh", "open", "closed"}
    BY <1>2 DEF Types, TransportRecords
  <2> QED
    BY <2>1, <1>2 DEF Fresh
<1>8. /\ Fresh' /\ Versions' /\ UsableWithinLimit' /\ Reserved'
      /\ \A e \in Entries : Clients(e)' \subseteq Clients(e)
  <2>1. \A d \in Transports :
          \/ /\ tr'[d].state = tr[d].state /\ tr'[d].e = tr[d].e
             /\ tr'[d].info = tr[d].info /\ tr'[d].gen = tr[d].gen
             /\ tr[d].draining => tr'[d].draining
             /\ tr[d].state \in {"free", "fresh"} => tr'[d].active = tr[d].active
          \/ /\ tr[d].state \in {"open", "closed"} /\ tr'[d].state \in {"free", "closed"}
             /\ tr'[d].state = "free" => tr'[d].active = 0
    BY <1>3, <1>4, <1>7, ClosedTransport, <1>2
  <2>2. \A e \in Entries : ent[e].info \in {ent[e].info, None}
    OBVIOUS
  <2> QED
    BY <2>1, <2>2, <1>1, <1>6, Settles
<1>9. Counted'
  <2> SUFFICES ASSUME NEW d \in Transports PROVE tr'[d].active = Cardinality(Over(d)')
    BY DEF Counted
  <2>1. CASE d = c
    <3>1. Over(c)' = Over(c) \ {u} /\ u \in Over(c)
      BY <1>1, <1>2, <1>5, NoCallRecord DEF Over
    <3>2. IsFiniteSet(Over(c))
      BY FS_Subset DEF Over, DialerPoolAssumption
    <3>3. Cardinality(Over(c) \ {u}) = Cardinality(Over(c)) - 1
      BY <3>1, <3>2, FS_RemoveElement
    <3> QED
      BY <2>1, <3>1, <3>3, <1>3, <1>4, <1>2 DEF Counted
  <2>2. CASE d # c
    <3>1. Over(d)' = Over(d)
      BY <1>1, <1>2, <1>5, <2>2, NoCallRecord, NoneIsNothing DEF Over
    <3> QED
      BY <2>2, <3>1, <1>4 DEF Counted
  <2> QED
    BY <2>1, <2>2
<1>10. Calls'
  BY <1>5, NoCallRecord DEF Calls
<1>11. Named'
  BY <1>1, <1>5, <1>6, NoCallRecord, NamesKept
<1>12. Emptied'
  BY <1>1, <1>8, EmptyKept
<1> QED
  BY <1>6, <1>8, <1>9, <1>10, <1>11, <1>12

\* The next record of one entry.
LEMMA OneEntry ==
    ASSUME Types, NEW e \in Entries, NEW r \in EntryRecords, ent' = [ent EXCEPT ![e] = r]
    PROVE  /\ ent' \in [Entries -> EntryRecords] /\ ent'[e] = r
           /\ \A d \in Entries \ {e} : ent'[d] = ent[d]
BY DEF Types

\* Entry e starts a reconnection if there is room for its transport and none
\* runs; the transports stay as they are, but for their channels.
LEMMA Starts ==
    ASSUME DialerPoolAssumption, CoreInv, Types', NEW e \in Entries,
           ent[e].conn = "idle", Cardinality(Usable(e)) < MaxConnections,
           ent' = [ent EXCEPT ![e] = Started(e)],
           \A c \in Transports :
             /\ tr'[c].state = tr[c].state /\ tr'[c].e = tr[c].e
             /\ tr'[c].info = tr[c].info /\ tr'[c].gen = tr[c].gen
             /\ tr'[c].draining = tr[c].draining
             /\ tr[c].state \in {"free", "fresh"} => tr'[c].active = tr[c].active
    PROVE  /\ Fresh' /\ Versions' /\ UsableWithinLimit' /\ Reserved'
           /\ \A d \in Entries : Clients(d)' = Clients(d)
<1> USE DEF CoreInv, Books
<1> DEFINE s == Started(e)
<1>1. /\ s \in EntryRecords /\ s.used = ent[e].used /\ s.info = ent[e].info
      /\ s.gen = ent[e].gen /\ s.removed = ent[e].removed
      /\ s.conn = "dialing" /\ s.new = ent[e].new
      /\ s.from = ent[e].info /\ s.at = ent[e].gen
  BY EntryTypes
<1>2. ent'[e] = s /\ \A d \in Entries \ {e} : ent'[d] = ent[d]
  BY <1>1, OneEntry
<1> HIDE DEF s
<1>3. /\ \A c \in Transports : tr[c].e \in Entries \cup {None}
      /\ \A d \in Entries : ent[d].new \in Transports \cup {None} /\ ent[d].gen \in Nat
      /\ None \notin Transports
  <2>1. \A d \in Entries : ent[d].gen \in Generations /\ Generations \subseteq Nat
    BY DEF Types, EntryRecords, Generations, DialerPoolAssumption
  <2> QED
    BY <2>1, NoneIsNothing DEF Types, EntryRecords, TransportRecords
<1>4. \A d \in Entries : Clients(d)' = Clients(d) /\ Usable(d)' = Usable(d)
  <2>1. \A d \in Entries : Clients(d)' = Clients(d)
    BY DEF Clients
  <2>2. \A d \in Entries : ent'[d].gen = ent[d].gen
    BY <1>1, <1>2
  <2> QED
    BY <2>1, <2>2 DEF Usable, Clients
<1>5. ent[e].new = None
  BY DEF Fresh
<1>6. Fresh'
  <2>1. ASSUME NEW c \in Transports
        PROVE  /\ tr'[c].state \in {"free", "fresh"} => tr'[c].active = 0
               /\ tr'[c].state \in {"fresh", "open"} => tr'[c].e # None
               /\ tr'[c].state = "fresh" => ent'[tr'[c].e].new = c
    BY <1>1, <1>2, <1>3, <1>5 DEF Fresh
  <2>2. ASSUME NEW d \in Entries, ent'[d].new # None
        PROVE  /\ ent'[d].conn = "dialed"
               /\ tr'[ent'[d].new].state = "fresh" /\ tr'[ent'[d].new].e = d
               /\ tr'[ent'[d].new].info = ent'[d].from /\ tr'[ent'[d].new].gen = ent'[d].at
    BY <2>2, <1>1, <1>2, <1>3, <1>5 DEF Fresh
  <2>3. ASSUME NEW d \in Entries, ent'[d].conn = "dialed" PROVE ent'[d].new # None
    BY <2>3, <1>1, <1>2 DEF Fresh
  <2> QED
    BY <2>1, <2>2, <2>3 DEF Fresh
<1>7. Versions'
  <2>1. ASSUME NEW d \in Entries, ent'[d].conn # "idle"
        PROVE  /\ ent'[d].at <= ent'[d].gen
               /\ ent'[d].at = ent'[d].gen /\ ent'[d].info # None => ent'[d].from = ent'[d].info
    BY <2>1, <1>1, <1>2, <1>3 DEF Versions
  <2>2. ASSUME NEW c \in Transports, tr'[c].state = "open"
        PROVE  LET d == tr'[c].e IN
               /\ ent'[d].used
               /\ tr'[c].gen <= ent'[d].gen
               /\ tr'[c].gen = ent'[d].gen /\ ent'[d].info # None => tr'[c].info = ent'[d].info
    BY <2>2, <1>1, <1>2, <1>3 DEF Versions, Fresh
  <2> QED
    BY <2>1, <2>2 DEF Versions
<1>8. UsableWithinLimit' /\ Reserved'
  BY <1>2, <1>4 DEF UsableWithinLimit, Reserved
<1> QED
  BY <1>4, <1>6, <1>7, <1>8

\* A caller waits only where no transport is usable, so the reconnection it
\* starts finds room.
LEMMA WaitStep ==
    ASSUME DialerPoolAssumption, CoreInv, NEW u \in Users, Wait(u)
    PROVE  CoreInv'
<1> USE DEF CoreInv, Books
<1> DEFINE r == [user[u] EXCEPT !.pc = "waiting"]
<1>0. user[u].pc = "trying" /\ user[u].e \in Entries
  BY DEF Wait, Calls, Types, UserRecords
<1> PICK e \in Entries : e = user[u].e
  BY <1>0
<1>1. /\ user[u].pc = "trying" /\ user' = [user EXCEPT ![u] = r]
      /\ Usable(e) = {} /\ UNCHANGED <<map, tr, gc, rm, mgr, events>>
      /\ ent' = IF ent[e].conn = "idle" THEN [ent EXCEPT ![e] = Started(e)] ELSE ent
  BY DEF Wait, Types
<1>2. r \in UserRecords /\ r.pc = "waiting" /\ r.e = e /\ r.c = None /\ user[u].c = None
  BY <1>1, CallerGoesOn
<1> HIDE DEF r
<1>3. /\ user' \in [Users -> UserRecords] /\ user'[u] = r
      /\ \A v \in Users \ {u} : user'[v] = user[v]
  BY <1>1, <1>2, OneCaller
<1>4. CASE ent[e].conn # "idle"
  <2>1. ent' = ent
    BY <1>1, <1>4
  <2> QED
    BY <2>1, <1>0, <1>1, <1>2, <1>3, CallersStep
<1>5. CASE ent[e].conn = "idle"
  <2>1. ent' = [ent EXCEPT ![e] = Started(e)]
    BY <1>1, <1>5
  <2>2. /\ Started(e) \in EntryRecords /\ Started(e).used = ent[e].used
        /\ Started(e).info = ent[e].info /\ Started(e).gen = ent[e].gen
        /\ Started(e).removed = ent[e].removed
    BY EntryTypes
  <2>3. /\ ent' \in [Entries -> EntryRecords] /\ ent'[e] = Started(e)
        /\ \A d \in Entries \ {e} : ent'[d] = ent[d]
    BY <2>1, <2>2, OneEntry
  <2>4. Types'
    BY <1>1, <1>3, <2>3 DEF Types
  <2>5. Cardinality(Usable(e)) < MaxConnections
    BY <1>1, FS_EmptySet DEF DialerPoolAssumption
  <2>6. /\ Fresh' /\ Versions' /\ UsableWithinLimit' /\ Reserved'
        /\ \A d \in Entries : Clients(d)' = Clients(d)
    BY <1>1, <1>5, <2>1, <2>4, <2>5, Starts
  <2>7. Counted'
    BY <1>1, <1>2, <1>3, CountKept
  <2>8. Calls'
    BY <1>0, <1>1, <1>2, <1>3, NoneIsNothing DEF Calls
  <2>9. ent[e].used
    BY <1>0, <1>1, <1>2, NoneIsNothing DEF Named
  <2>10. Named'
    BY <1>1, <1>2, <1>3, <2>2, <2>3, <2>4, <2>9, NamesKept
  <2>11. Emptied'
    BY <1>1, <2>6, EmptyKept
  <2> QED
    BY <2>4, <2>6, <2>7, <2>8, <2>10, <2>11
<1> QED
  BY <1>4, <1>5

\* A channel more, and perhaps a reconnection for the callers to come.
LEMMA BorrowStep ==
    ASSUME DialerPoolAssumption, CoreInv, NEW u \in Users, Borrow(u)
    PROVE  CoreInv'
<1> USE DEF CoreInv, Books
<1>0. user[u].pc = "trying" /\ user[u].e \in Entries
  BY DEF Borrow, Calls, Types, UserRecords
<1> PICK e \in Entries : e = user[u].e
  BY <1>0
<1>1. PICK c \in LeastLoaded(e) :
        /\ tr' = [tr EXCEPT ![c].active = @ + 1]
        /\ ent' = IF Grows(e, c) THEN [ent EXCEPT ![e] = Started(e)] ELSE ent
        /\ user' = [user EXCEPT ![u] = [@ EXCEPT !.pc = "channel", !.c = c]]
  BY DEF Borrow
<1>2. UNCHANGED <<map, gc, rm, mgr, events>>
  BY DEF Borrow
<1>3. c \in Transports /\ c \in Usable(e) /\ tr[c].state = "open" /\ tr[c].e = e
  BY DEF LeastLoaded, Usable, Clients
<1> DEFINE t == [tr[c] EXCEPT !.active = @ + 1]
           r == [user[u] EXCEPT !.pc = "channel", !.c = c]
<1>4. tr' = [tr EXCEPT ![c] = t] /\ user' = [user EXCEPT ![u] = r]
  BY <1>1, <1>3 DEF Types
<1>5. tr[c] \in TransportRecords /\ user[u] \in UserRecords /\ user[u].c = None
  BY <1>0, <1>3 DEF Types, Calls
<1>6. r \in UserRecords /\ r.pc = "channel" /\ r.e = e /\ r.c = c /\ c # None
  BY <1>3, <1>5, NoneIsNothing DEF UserRecords
<1>7. /\ Cardinality(Over(c) \cup {u}) = tr[c].active + 1
      /\ Cardinality(Over(c) \cup {u}) <= Cardinality(Users) /\ Cardinality(Users) \in Nat
  <2>1. IsFiniteSet(Users) /\ Over(c) \subseteq Users /\ IsFiniteSet(Over(c))
    BY FS_Subset DEF Over, DialerPoolAssumption
  <2>2. u \notin Over(c)
    BY <1>5, <1>6 DEF Over
  <2> QED
    BY <2>1, <2>2, <1>3, FS_AddElement, FS_Subset, FS_CardinalityType DEF Counted
<1>8. tr[c].active \in 0..Cardinality(Users) /\ tr[c].active + 1 \in 0..Cardinality(Users)
  <2>1. tr[c].active \in 0..Cardinality(Users)
    BY <1>5 DEF TransportRecords
  <2> QED
    BY <2>1, <1>7
<1>9. /\ t \in TransportRecords /\ t.state = tr[c].state /\ t.e = tr[c].e
      /\ t.info = tr[c].info /\ t.gen = tr[c].gen /\ t.draining = tr[c].draining
      /\ t.active = tr[c].active + 1
  BY <1>5, <1>8 DEF TransportRecords
<1> HIDE DEF t, r
<1>10. /\ tr' \in [Transports -> TransportRecords] /\ tr'[c] = t
       /\ \A d \in Transports \ {c} : tr'[d] = tr[d]
  BY <1>3, <1>4, <1>9, OneTransport
<1>11. /\ user' \in [Users -> UserRecords] /\ user'[u] = r
       /\ \A v \in Users \ {u} : user'[v] = user[v]
  BY <1>4, <1>6, OneCaller
<1>12. ent[e].used
  BY <1>3 DEF Versions
<1>13. /\ Started(e) \in EntryRecords /\ Started(e).used = ent[e].used
       /\ Started(e).info = ent[e].info /\ Started(e).gen = ent[e].gen
       /\ Started(e).removed = ent[e].removed
  BY EntryTypes
<1>14. /\ ent' \in [Entries -> EntryRecords]
       /\ ent'[e] \in {ent[e], Started(e)}
       /\ \A d \in Entries \ {e} : ent'[d] = ent[d]
  BY <1>1, <1>13, OneEntry DEF Types
<1>15. Types'
  BY <1>2, <1>10, <1>11, <1>14 DEF Types
<1>16. Counted'
  <2> SUFFICES ASSUME NEW d \in Transports PROVE tr'[d].active = Cardinality(Over(d)')
    BY DEF Counted
  <2>1. CASE d = c
    <3>1. Over(d)' = Over(c) \cup {u}
      BY <2>1, <1>6, <1>11 DEF Over
    <3> QED
      BY <2>1, <3>1, <1>7, <1>9, <1>10
  <2>2. CASE d # c
    <3>1. Over(d)' = Over(d)
      BY <2>2, <1>5, <1>6, <1>11, NoneIsNothing DEF Over
    <3> QED
      BY <2>2, <3>1, <1>10 DEF Counted
  <2> QED
    BY <2>1, <2>2
<1>17. Calls'
  BY <1>0, <1>6, <1>11, NoneIsNothing DEF Calls
<1>18. Named'
  BY <1>2, <1>6, <1>11, <1>12, <1>13, <1>14, <1>15, NamesKept
<1>19. /\ Fresh' /\ Versions' /\ UsableWithinLimit' /\ Reserved'
       /\ \A d \in Entries : Clients(d)' \subseteq Clients(d)
  <2>1. \A d \in Transports :
          /\ tr'[d].state = tr[d].state /\ tr'[d].e = tr[d].e
          /\ tr'[d].info = tr[d].info /\ tr'[d].gen = tr[d].gen
          /\ tr'[d].draining = tr[d].draining
          /\ tr[d].state \in {"free", "fresh"} => tr'[d].active = tr[d].active
    BY <1>3, <1>9, <1>10
  <2>2. CASE Grows(e, c)
    <3>1. Usable(e) \subseteq Clients(e) /\ Clients(e) \subseteq Transports
      BY DEF Usable, Clients
    <3>2. /\ Cardinality(Usable(e)) \in Nat /\ Cardinality(Clients(e)) \in Nat
          /\ Cardinality(Usable(e)) <= Cardinality(Clients(e))
      BY <3>1, PoolSize
    <3>3. Cardinality(Clients(e)) < MaxConnections /\ MaxConnections \in Nat
          /\ ent[e].conn = "idle"
      BY <2>2 DEF Grows, DialerPoolAssumption
    <3>4. Cardinality(Usable(e)) < MaxConnections
      BY <3>2, <3>3
    <3>5. ent' = [ent EXCEPT ![e] = Started(e)]
      BY <1>1, <2>2
    <3> QED
      BY <2>1, <3>3, <3>4, <3>5, <1>15, Starts
  <2>3. CASE ~Grows(e, c)
    <3>1. ent' = ent
      BY <1>1, <2>3
    <3>2. \A d \in Entries : ent[d].info \in {ent[d].info, None}
      OBVIOUS
    <3> QED
      BY <2>1, <3>1, <3>2, <1>15, Settles
  <2> QED
    BY <2>2, <2>3
<1>20. Emptied'
  BY <1>2, <1>19, EmptyKept
<1> QED
  BY <1>15, <1>16, <1>17, <1>18, <1>19, <1>20

----------------------------------------------------------------------------
(* Steps of the reconnection.                                               *)

\* An entry with a reconnection is in use.
LEMMA ReconnectionInUse ==
    ASSUME Named, NEW e \in Entries, ent[e].conn # "idle"
    PROVE  ent[e].used
BY DEF Named, Unused

\* A new transport is nobody's to choose.
LEMMA DialOKStep ==
    ASSUME DialerPoolAssumption, CoreInv, NEW e \in Entries, DialOK(e)
    PROVE  CoreInv'
<1> USE DEF CoreInv, Books
<1>1. PICK c \in Transports :
        /\ tr[c] = Free
        /\ tr' = [tr EXCEPT ![c] = [Free EXCEPT !.state = "fresh", !.e = e,
                                      !.info = ent[e].from, !.gen = ent[e].at]]
        /\ ent' = [ent EXCEPT ![e] = [@ EXCEPT !.conn = "dialed", !.new = c]]
  BY DEF DialOK
<1>2. ent[e].conn = "dialing" /\ UNCHANGED <<map, user, gc, rm, mgr, events>>
  BY DEF DialOK
<1> DEFINE t == [Free EXCEPT !.state = "fresh", !.e = e,
                             !.info = ent[e].from, !.gen = ent[e].at]
           r == [ent[e] EXCEPT !.conn = "dialed", !.new = c]
<1>3. ent[e] \in EntryRecords /\ Free \in TransportRecords /\ Free.active = 0 /\ Free.state = "free"
      /\ Free.draining = FALSE
  BY ClosedTransport DEF Types, Free
<1>4. ent[e].from \in Infos \cup {None} /\ ent[e].at \in Generations
  BY <1>3 DEF EntryRecords
<1>5. /\ t \in TransportRecords /\ t.state = "fresh" /\ t.e = e
      /\ t.info = ent[e].from /\ t.gen = ent[e].at /\ t.active = 0
  BY <1>3, <1>4 DEF TransportRecords
<1>6. /\ r \in EntryRecords /\ r.conn = "dialed" /\ r.new = c
      /\ r.used = ent[e].used /\ r.info = ent[e].info /\ r.gen = ent[e].gen
      /\ r.removed = ent[e].removed /\ r.from = ent[e].from /\ r.at = ent[e].at
  BY <1>3 DEF EntryRecords
<1>7. tr' = [tr EXCEPT ![c] = t] /\ ent' = [ent EXCEPT ![e] = r]
  BY <1>1 DEF Types
<1> HIDE DEF t, r
<1>8. /\ tr' \in [Transports -> TransportRecords] /\ tr'[c] = t
      /\ \A d \in Transports \ {c} : tr'[d] = tr[d]
  BY <1>5, <1>7, OneTransport
<1>9. /\ ent' \in [Entries -> EntryRecords] /\ ent'[e] = r
      /\ \A d \in Entries \ {e} : ent'[d] = ent[d]
  BY <1>6, <1>7, OneEntry
<1>10. Types'
  BY <1>2, <1>8, <1>9 DEF Types
<1>11. Counted'
  BY <1>1, <1>2, <1>3, <1>5, <1>8, CountKept
<1>12. Calls'
  BY <1>2 DEF Calls
<1>13. ent[e].used
  BY <1>2, ReconnectionInUse
<1>14. Named'
  BY <1>2, <1>6, <1>9, <1>10, <1>13, NamesKept
<1>15. /\ ent[e].new = None /\ e # None /\ None \notin Transports
       /\ \A d \in Transports : tr[d].e \in Entries \cup {None}
       /\ \A d \in Entries : ent[d].new \in Transports \cup {None}
  BY <1>2, NoneIsNothing DEF Fresh, Types, TransportRecords, EntryRecords
<1>16. Fresh'
  <2>1. ASSUME NEW d \in Transports
        PROVE  /\ tr'[d].state \in {"free", "fresh"} => tr'[d].active = 0
               /\ tr'[d].state \in {"fresh", "open"} => tr'[d].e # None
               /\ tr'[d].state = "fresh" => ent'[tr'[d].e].new = d
    BY <1>5, <1>6, <1>8, <1>9, <1>15 DEF Fresh
  <2>2. ASSUME NEW d \in Entries, ent'[d].new # None
        PROVE  /\ ent'[d].conn = "dialed"
               /\ tr'[ent'[d].new].state = "fresh" /\ tr'[ent'[d].new].e = d
               /\ tr'[ent'[d].new].info = ent'[d].from /\ tr'[ent'[d].new].gen = ent'[d].at
    <3>1. CASE d = e
      BY <3>1, <1>5, <1>6, <1>8, <1>9
    <3>2. CASE d # e
      <4>1. ent'[d] = ent[d] /\ ent[d].new # None /\ ent[d].new \in Transports
        BY <3>2, <2>2, <1>9, <1>15
      <4>2. tr[ent[d].new].state = "fresh"
        BY <4>1 DEF Fresh
      <4>3. ent[d].new # c
        BY <4>2, <1>1, <1>3
      <4> QED
        BY <4>1, <4>3, <1>8 DEF Fresh
    <3> QED
      BY <3>1, <3>2
  <2>3. ASSUME NEW d \in Entries, ent'[d].conn = "dialed" PROVE ent'[d].new # None
    BY <2>3, <1>6, <1>9, <1>15 DEF Fresh
  <2> QED
    BY <2>1, <2>2, <2>3 DEF Fresh
<1>17. Versions'
  <2>1. ASSUME NEW d \in Entries, ent'[d].conn # "idle"
        PROVE  /\ ent'[d].at <= ent'[d].gen
               /\ ent'[d].at = ent'[d].gen /\ ent'[d].info # None => ent'[d].from = ent'[d].info
    BY <2>1, <1>2, <1>6, <1>9 DEF Versions
  <2>2. ASSUME NEW d \in Transports, tr'[d].state = "open"
        PROVE  LET f == tr'[d].e IN
               /\ ent'[f].used
               /\ tr'[d].gen <= ent'[f].gen
               /\ tr'[d].gen = ent'[f].gen /\ ent'[f].info # None => tr'[d].info = ent'[f].info
    <3>1. d # c /\ tr'[d] = tr[d] /\ tr[d].e \in Entries
      BY <2>2, <1>5, <1>8, <1>15 DEF Fresh
    <3> QED
      BY <3>1, <2>2, <1>6, <1>9 DEF Versions
  <2> QED
    BY <2>1, <2>2 DEF Versions
<1>18. \A d \in Entries : Clients(d)' \subseteq Clients(d) /\ Usable(d)' \subseteq Usable(d)
  <2>1. \A d \in Entries : Clients(d)' \subseteq Clients(d)
    BY <1>5, <1>8 DEF Clients
  <2>2. \A d \in Entries : ent'[d].gen = ent[d].gen
    BY <1>6, <1>9
  <2> QED
    BY <2>1, <2>2, <1>5, <1>8 DEF Usable, Clients
<1>19. UsableWithinLimit' /\ Reserved'
  BY <1>2, <1>6, <1>9, <1>18, NoGrowth
<1>20. Emptied'
  BY <1>2, <1>18, EmptyKept
<1> QED
  BY <1>10, <1>11, <1>12, <1>14, <1>16, <1>17, <1>19, <1>20

\* A reconnection that ends leaves its entry idle and its callers awake.
LEMMA EndedEffect ==
    ASSUME DialerPoolAssumption, CoreInv, NEW e \in Entries, ent[e].conn # "idle",
           NEW failed \in BOOLEAN, Ended(e, failed)
    PROVE  /\ UNCHANGED <<map, gc, rm, mgr, events>>
           /\ ent' \in [Entries -> EntryRecords] /\ user' \in [Users -> UserRecords]
           /\ ent'[e].conn = "idle" /\ ent'[e].new = None
           /\ ent'[e].used = ent[e].used /\ ent'[e].info = ent[e].info
           /\ ent'[e].gen = ent[e].gen /\ ent'[e].removed = ent[e].removed
           /\ \A d \in Entries \ {e} : ent'[d] = ent[d]
           /\ \A u \in Users : user'[u].c = user[u].c /\ user'[u].e = user[u].e
           /\ Calls'
           /\ Types /\ Types' => Named'
<1> USE DEF CoreInv, Books
<1> DEFINE b == failed /\ ent[e].at = ent[e].gen
           r == [ent[e] EXCEPT !.conn = "idle", !.from = None, !.at = 0, !.cancelled = FALSE,
                               !.new = None, !.err = b]
<1>1. ent[e] \in EntryRecords /\ 0 \in Generations /\ b \in BOOLEAN
  BY DEF Types, Generations, DialerPoolAssumption
<1>2. ent' = [ent EXCEPT ![e] = r]
  BY DEF Ended, Types
<1> HIDE DEF b
<1>3. /\ r \in EntryRecords /\ r.conn = "idle" /\ r.new = None
      /\ r.used = ent[e].used /\ r.info = ent[e].info
      /\ r.gen = ent[e].gen /\ r.removed = ent[e].removed
  BY <1>1 DEF EntryRecords
<1> HIDE DEF r
<1>4. /\ ent' \in [Entries -> EntryRecords] /\ ent'[e] = r
      /\ \A d \in Entries \ {e} : ent'[d] = ent[d]
  BY <1>2, <1>3, OneEntry
<1>5. UNCHANGED <<map, gc, rm, mgr, events>>
  BY DEF Ended
<1>6. user' = [u \in Users |-> IF user[u].pc = "waiting" /\ user[u].e = e
                               THEN [user[u] EXCEPT !.pc = "woken"] ELSE user[u]]
  BY DEF Ended, Awakened
<1>7. ASSUME NEW u \in Users
      PROVE  /\ user'[u] \in UserRecords
             /\ user'[u].c = user[u].c /\ user'[u].e = user[u].e
             /\ \/ user'[u].pc = user[u].pc
                \/ user'[u].pc = "woken" /\ user[u].pc = "waiting"
  <2>1. user[u] \in UserRecords
    BY DEF Types
  <2> DEFINE w == [user[u] EXCEPT !.pc = "woken"]
  <2>2. w \in UserRecords /\ w.pc = "woken" /\ w.e = user[u].e /\ w.c = user[u].c
    BY <2>1 DEF UserRecords
  <2>3. user'[u] = IF user[u].pc = "waiting" /\ user[u].e = e THEN w ELSE user[u]
    BY <1>6
  <2> HIDE DEF w
  <2> QED
    BY <2>1, <2>2, <2>3
<1>8. user' \in [Users -> UserRecords]
  <2>1. user' = [u \in Users |-> user'[u]]
    BY <1>6
  <2> QED
    BY <2>1, <1>7
<1>9. Calls'
  BY <1>7 DEF Calls
<1>10. Types /\ Types' => Named'
  BY <1>3, <1>4, <1>5, <1>7, ReconnectionInUse, NamesKept
<1> QED
  BY <1>3, <1>4, <1>5, <1>7, <1>8, <1>9, <1>10

\* A failed dial gives its place back.
LEMMA DialFailsStep ==
    ASSUME DialerPoolAssumption, CoreInv, NEW e \in Entries, DialFails(e)
    PROVE  CoreInv'
<1> USE DEF CoreInv, Books
<1>1. ent[e].conn = "dialing" /\ Ended(e, TRUE) /\ tr' = tr
  BY DEF DialFails
<1>2. /\ UNCHANGED <<map, gc, rm, mgr, events>>
      /\ ent' \in [Entries -> EntryRecords] /\ user' \in [Users -> UserRecords]
      /\ ent'[e].conn = "idle" /\ ent'[e].new = None
      /\ ent'[e].used = ent[e].used /\ ent'[e].info = ent[e].info
      /\ ent'[e].gen = ent[e].gen /\ ent'[e].removed = ent[e].removed
      /\ \A d \in Entries \ {e} : ent'[d] = ent[d]
      /\ \A u \in Users : user'[u].c = user[u].c /\ user'[u].e = user[u].e
      /\ Calls'
      /\ Types /\ Types' => Named'
  BY <1>1, EndedEffect
<1>3. Types'
  BY <1>1, <1>2 DEF Types
<1>4. ent[e].new = None
  BY <1>1 DEF Fresh
<1>5. /\ Fresh' /\ Versions' /\ UsableWithinLimit' /\ Reserved'
      /\ \A d \in Entries : Clients(d)' \subseteq Clients(d)
  BY <1>1, <1>2, <1>3, <1>4, Settles
<1>6. Counted'
  BY <1>1, <1>2, CountKept
<1>7. Emptied'
  BY <1>2, <1>5, EmptyKept
<1> QED
  BY <1>2, <1>3, <1>5, <1>6, <1>7

\* The transport of a reconnection that was not overtaken takes the place that
\* was kept for it; any other is closed.
LEMMA PublishStep ==
    ASSUME DialerPoolAssumption, CoreInv, NEW e \in Entries, Publish(e)
    PROVE  CoreInv'
<1> USE DEF CoreInv, Books
<1>1. ent[e].conn = "dialed" /\ Ended(e, FALSE)
  BY DEF Publish
<1>2. /\ ent[e].new \in Transports
      /\ tr[ent[e].new].state = "fresh" /\ tr[ent[e].new].e = e
      /\ tr[ent[e].new].info = ent[e].from /\ tr[ent[e].new].gen = ent[e].at
      /\ tr[ent[e].new].active = 0
  BY <1>1 DEF Fresh, Types, EntryRecords
<1> PICK c \in Transports : c = ent[e].new
  BY <1>2
<1> DEFINE o == [tr[c] EXCEPT !.state = "open"]
           t == IF Accepted(e) THEN o ELSE Free
<1>3. tr' = [tr EXCEPT ![c] = t]
  BY DEF Publish, Types
<1>4. tr[c] \in TransportRecords
  BY DEF Types
<1>5. /\ o \in TransportRecords /\ o.state = "open" /\ o.e = e /\ o.info = ent[e].from
      /\ o.gen = ent[e].at /\ o.active = 0
  BY <1>2, <1>4 DEF TransportRecords
<1> HIDE DEF o
<1>6. /\ t \in TransportRecords /\ t.active = 0
      /\ Accepted(e) => /\ t.state = "open" /\ t.e = e
                        /\ t.info = ent[e].from /\ t.gen = ent[e].at
      /\ ~Accepted(e) => t.state = "free"
  BY <1>5, ClosedTransport
<1> HIDE DEF t
<1>7. /\ tr' \in [Transports -> TransportRecords] /\ tr'[c] = t
      /\ \A d \in Transports \ {c} : tr'[d] = tr[d]
  BY <1>3, <1>6, OneTransport
<1>8. /\ UNCHANGED <<map, gc, rm, mgr, events>>
      /\ ent' \in [Entries -> EntryRecords] /\ user' \in [Users -> UserRecords]
      /\ ent'[e].conn = "idle" /\ ent'[e].new = None
      /\ ent'[e].used = ent[e].used /\ ent'[e].info = ent[e].info
      /\ ent'[e].gen = ent[e].gen /\ ent'[e].removed = ent[e].removed
      /\ \A d \in Entries \ {e} : ent'[d] = ent[d]
      /\ \A u \in Users : user'[u].c = user[u].c /\ user'[u].e = user[u].e
      /\ Calls'
      /\ Types /\ Types' => Named'
  BY <1>1, EndedEffect
<1>9. Types'
  BY <1>7, <1>8 DEF Types
<1>10. Counted'
  BY <1>2, <1>6, <1>7, <1>8, CountKept
<1>11. /\ e # None /\ None \notin Transports
       /\ \A d \in Transports : tr[d].e \in Entries \cup {None}
       /\ \A d \in Entries : ent[d].new \in Transports \cup {None}
  BY NoneIsNothing DEF Types, TransportRecords, EntryRecords
<1>12. \A d \in Entries \ {e} : ent[d].new # c
  BY <1>2, <1>11 DEF Fresh
<1>13. Fresh'
  <2>1. ASSUME NEW d \in Transports
        PROVE  /\ tr'[d].state \in {"free", "fresh"} => tr'[d].active = 0
               /\ tr'[d].state \in {"fresh", "open"} => tr'[d].e # None
               /\ tr'[d].state = "fresh" => ent'[tr'[d].e].new = d
    <3>1. CASE d = c
      BY <3>1, <1>6, <1>7, <1>11
    <3>2. CASE d # c
      <4>1. tr'[d] = tr[d]
        BY <3>2, <1>7
      <4>2. ASSUME tr[d].state = "fresh" PROVE ent'[tr[d].e].new = d
        BY <4>2, <3>2, <1>8, <1>11 DEF Fresh
      <4> QED
        BY <4>1, <4>2 DEF Fresh
    <3> QED
      BY <3>1, <3>2
  <2>2. ASSUME NEW d \in Entries, ent'[d].new # None
        PROVE  /\ ent'[d].conn = "dialed"
               /\ tr'[ent'[d].new].state = "fresh" /\ tr'[ent'[d].new].e = d
               /\ tr'[ent'[d].new].info = ent'[d].from /\ tr'[ent'[d].new].gen = ent'[d].at
    <3>1. d # e /\ ent'[d] = ent[d] /\ ent[d].new \in Transports \ {c}
      BY <2>2, <1>8, <1>11, <1>12
    <3> QED
      BY <3>1, <1>7, <1>11 DEF Fresh
  <2>3. ASSUME NEW d \in Entries, ent'[d].conn = "dialed" PROVE ent'[d].new # None
    BY <2>3, <1>8 DEF Fresh
  <2> QED
    BY <2>1, <2>2, <2>3 DEF Fresh
<1>14. ent[e].used /\ ent[e].at <= ent[e].gen
       /\ (ent[e].at = ent[e].gen /\ ent[e].info # None => ent[e].from = ent[e].info)
  BY <1>1, ReconnectionInUse DEF Versions
<1>15. Versions'
  <2>1. ASSUME NEW d \in Entries, ent'[d].conn # "idle"
        PROVE  /\ ent'[d].at <= ent'[d].gen
               /\ ent'[d].at = ent'[d].gen /\ ent'[d].info # None => ent'[d].from = ent'[d].info
    BY <2>1, <1>8 DEF Versions
  <2>2. ASSUME NEW d \in Transports, tr'[d].state = "open"
        PROVE  LET f == tr'[d].e IN
               /\ ent'[f].used
               /\ tr'[d].gen <= ent'[f].gen
               /\ tr'[d].gen = ent'[f].gen /\ ent'[f].info # None => tr'[d].info = ent'[f].info
    <3>1. CASE d = c
      BY <3>1, <2>2, <1>6, <1>7, <1>8, <1>14
    <3>2. CASE d # c
      <4>1. tr'[d] = tr[d] /\ tr[d].state = "open" /\ tr[d].e \in Entries
        BY <3>2, <2>2, <1>7, <1>11 DEF Fresh
      <4> QED
        BY <4>1, <1>8 DEF Versions
    <3> QED
      BY <3>1, <3>2
  <2> QED
    BY <2>1, <2>2 DEF Versions
<1>16. CASE ~Accepted(e)
  <2>1. \A d \in Entries : Clients(d)' \subseteq Clients(d)
    BY <1>6, <1>7, <1>16 DEF Clients
  <2>2. \A d \in Entries : ent'[d].gen = ent[d].gen
    BY <1>8
  <2>3. \A d \in Entries : Usable(d)' \subseteq Usable(d)
    BY <2>1, <2>2, <1>6, <1>7, <1>16 DEF Usable, Clients
  <2>4. UsableWithinLimit' /\ Reserved'
    BY <2>3, <1>8, NoGrowth
  <2>5. Emptied'
    BY <2>1, <1>8, EmptyKept
  <2> QED
    BY <2>4, <2>5, <1>8, <1>9, <1>10, <1>13, <1>15
<1>17. CASE Accepted(e)
  <2>1. ent[e].at = ent[e].gen /\ mgr = "running"
    BY <1>17 DEF Accepted
  <2>2. Emptied'
    BY <2>1, <1>8 DEF Emptied
  <2>3. \A d \in Entries : ent'[d].gen = ent[d].gen
    BY <1>8
  <2>4. Usable(e)' \subseteq Usable(e) \cup {c}
    BY <2>3, <1>7 DEF Usable, Clients
  <2>5. \A d \in Entries \ {e} : Usable(d)' \subseteq Usable(d)
    BY <2>3, <1>6, <1>7, <1>17 DEF Usable, Clients
  <2>6. c \notin Usable(e)
    BY <1>2 DEF Usable, Clients
  <2>7. /\ IsFiniteSet(Usable(e)) /\ Usable(e) \cup {c} \subseteq Transports
    BY PoolSize DEF Usable, Clients
  <2>8. /\ Cardinality(Usable(e) \cup {c}) = Cardinality(Usable(e)) + 1
        /\ Cardinality(Usable(e)') <= Cardinality(Usable(e) \cup {c})
        /\ Cardinality(Usable(e)') \in Nat /\ Cardinality(Usable(e)) \in Nat
    BY <2>4, <2>6, <2>7, FS_AddElement, PoolSize, FS_CardinalityType
  <2>9. Cardinality(Usable(e)) < MaxConnections /\ MaxConnections \in Nat
    BY <1>1, <2>1 DEF Reserved, DialerPoolAssumption
  <2>10. Cardinality(Usable(e)') <= MaxConnections
    BY <2>8, <2>9
  <2>11. \A d \in Entries \ {e} :
           Cardinality(Usable(d)') \in Nat /\ Cardinality(Usable(d)) \in Nat
           /\ Cardinality(Usable(d)') <= Cardinality(Usable(d))
    <3> TAKE d \in Entries \ {e}
    <3>1. Usable(d) \in SUBSET Transports
      BY DEF Usable, Clients
    <3> QED
      BY <3>1, <2>5, PoolSize
  <2>12. UsableWithinLimit'
    <3> SUFFICES ASSUME NEW d \in Entries PROVE Cardinality(Usable(d)') <= MaxConnections
      BY DEF UsableWithinLimit
    <3>1. CASE d = e
      BY <3>1, <2>10
    <3>2. CASE d # e
      BY <3>2, <2>9, <2>11 DEF UsableWithinLimit
    <3> QED
      BY <3>1, <3>2
  <2>13. Reserved'
    <3> SUFFICES ASSUME NEW d \in Entries, ent'[d].conn # "idle", ent'[d].at = ent'[d].gen
                 PROVE  Cardinality(Usable(d)') < MaxConnections
      BY DEF Reserved
    <3>1. d # e /\ ent'[d] = ent[d]
      BY <1>8
    <3> QED
      BY <3>1, <2>9, <2>11 DEF Reserved
  <2> QED
    BY <2>2, <2>12, <2>13, <1>8, <1>9, <1>10, <1>13, <1>15
<1> QED
  BY <1>16, <1>17

----------------------------------------------------------------------------
(* Steps of GetDialer.                                                      *)

\* A new entry has no transport yet.
LEMMA LookupStep ==
    ASSUME DialerPoolAssumption, CoreInv, NEW u \in Users, Lookup(u)
    PROVE  CoreInv'
<1> USE DEF CoreInv, Books
<1>1. user[u].pc = "idle" /\ user[u].c = None /\ UNCHANGED <<tr, gc, rm, mgr, events>>
  BY DEF Lookup, Calls
<1>2. CASE map # None
  <2>1. map \in Entries
    BY <1>2 DEF Types
  <2> DEFINE r == [user[u] EXCEPT !.pc = "binding", !.e = map]
  <2>2. user' = [user EXCEPT ![u] = r] /\ UNCHANGED <<map, ent>>
    BY <1>2 DEF Lookup, Types
  <2>3. r \in UserRecords /\ r.pc = "binding" /\ r.e = map /\ r.c = None
    BY <1>1, <2>1 DEF Types, UserRecords
  <2> HIDE DEF r
  <2> QED
    BY <1>1, <1>2, <2>2, <2>3, OneCaller, CallersStep
<1>3. CASE map = None
  <2>1. PICK e \in Entries, i \in Infos :
          /\ ~ent[e].used /\ map' = e
          /\ ent' = [ent EXCEPT ![e] = [Unused EXCEPT !.used = TRUE, !.info = i, !.gen = 1]]
          /\ user' = [user EXCEPT ![u] = [@ EXCEPT !.pc = "binding", !.e = e]]
    BY <1>3 DEF Lookup
  <2> DEFINE r == [user[u] EXCEPT !.pc = "binding", !.e = e]
             n == [Unused EXCEPT !.used = TRUE, !.info = i, !.gen = 1]
  <2>2. user' = [user EXCEPT ![u] = r] /\ ent' = [ent EXCEPT ![e] = n]
    BY <2>1 DEF Types
  <2>3. r \in UserRecords /\ r.pc = "binding" /\ r.e = e /\ r.c = None
    BY <1>1 DEF Types, UserRecords
  <2>4. /\ Unused \in EntryRecords /\ Unused.conn = "idle" /\ Unused.new = None
        /\ Unused.removed = FALSE /\ 1 \in Generations
    <3>1. 1 \in Generations
      BY DEF Generations, DialerPoolAssumption
    <3> QED
      BY <3>1, EntryTypes DEF Unused
  <2>5. /\ n \in EntryRecords /\ n.used = TRUE /\ n.info = i /\ n.gen = 1
        /\ n.conn = "idle" /\ n.new = None /\ n.removed = FALSE
    BY <2>4 DEF EntryRecords
  <2> HIDE DEF r, n
  <2>6. /\ user' \in [Users -> UserRecords] /\ user'[u] = r
        /\ \A v \in Users \ {u} : user'[v] = user[v]
    BY <2>2, <2>3, OneCaller
  <2>7. /\ ent' \in [Entries -> EntryRecords] /\ ent'[e] = n
        /\ \A d \in Entries \ {e} : ent'[d] = ent[d]
    BY <2>2, <2>5, OneEntry
  <2>8. Types'
    BY <1>1, <2>1, <2>6, <2>7 DEF Types
  <2>9. Counted'
    BY <1>1, <2>3, <2>6, CountKept
  <2>10. /\ None \notin Entries /\ None \notin Infos /\ None \notin Transports
         /\ \A d \in Transports : tr[d].e \in Entries \cup {None}
         /\ \A d \in Entries : ent[d].new \in Transports \cup {None}
         /\ events \in Nat /\ rm \in Entries \cup {None} /\ gc \in Entries \cup {None}
         /\ \A v \in Users : user[v].e \in Entries \cup {None}
    BY NoneIsNothing DEF Types, TransportRecords, EntryRecords, UserRecords, DialerPoolAssumption
  <2>11. Calls'
    BY <1>1, <2>3, <2>6, <2>10 DEF Calls
  <2>12. ent[e].conn = "idle" /\ ent[e].new = None
    BY <2>1, <2>4 DEF Named
  <2>13. Named'
    <3>1. /\ map' # None => ent'[map'].used /\ ~ent'[map'].removed
          /\ rm' # None => ent'[rm'].used /\ rm' # map'
          /\ gc' # None => ent'[gc'].used
      BY <1>1, <2>1, <2>5, <2>7, <2>10 DEF Named
    <3>2. \A v \in Users : user'[v].e # None => ent'[user'[v].e].used
      BY <2>3, <2>5, <2>6, <2>7, <2>10 DEF Named
    <3>3. \A d \in Entries : ~ent'[d].used => ent'[d] = Unused
      BY <2>5, <2>7 DEF Named
    <3>4. \A d \in Entries : Bound(d)' => d = e \/ Bound(d)
      BY <1>1, <2>1, <2>7 DEF Bound
    <3>5. \A d \in Entries \ {e} : Bound(d) => Bound(d)'
      BY <1>1, <1>3, <2>1, <2>7, <2>10 DEF Bound
    <3>6. \A d \in Entries : Bound(d)' => ent'[d].info # None
      BY <3>4, <2>5, <2>7, <2>10 DEF Named
    <3>7. ASSUME NEW d \in Entries
          PROVE  ent'[d].gen <= events' + (IF ent'[d].info = None \/ Bound(d)' THEN 1 ELSE 2)
      <4>1. CASE d = e
        BY <4>1, <1>1, <2>5, <2>7, <2>10
      <4>2. CASE d # e
        <5>1. ent'[d] = ent[d] /\ (Bound(d)' <=> Bound(d))
          BY <4>2, <2>7, <3>4, <3>5
        <5> QED
          BY <5>1, <1>1 DEF Named
      <4> QED
        BY <4>1, <4>2
    <3> QED
      BY <3>1, <3>2, <3>3, <3>6, <3>7 DEF Named
  <2>14. Fresh'
    <3>1. ASSUME NEW c \in Transports
          PROVE  /\ tr'[c].state \in {"free", "fresh"} => tr'[c].active = 0
                 /\ tr'[c].state \in {"fresh", "open"} => tr'[c].e # None
                 /\ tr'[c].state = "fresh" => ent'[tr'[c].e].new = c
      BY <1>1, <2>7, <2>10, <2>12 DEF Fresh
    <3>2. ASSUME NEW d \in Entries, ent'[d].new # None
          PROVE  /\ ent'[d].conn = "dialed"
                 /\ tr'[ent'[d].new].state = "fresh" /\ tr'[ent'[d].new].e = d
                 /\ tr'[ent'[d].new].info = ent'[d].from /\ tr'[ent'[d].new].gen = ent'[d].at
      BY <3>2, <1>1, <2>5, <2>7, <2>10 DEF Fresh
    <3>3. ASSUME NEW d \in Entries, ent'[d].conn = "dialed" PROVE ent'[d].new # None
      BY <3>3, <2>5, <2>7 DEF Fresh
    <3> QED
      BY <3>1, <3>2, <3>3 DEF Fresh
  <2>15. \A c \in Transports : tr[c].state = "open" => tr[c].e \in Entries \ {e}
    BY <2>1, <2>10 DEF Fresh, Versions
  <2>16. Versions'
    <3>1. ASSUME NEW d \in Entries, ent'[d].conn # "idle"
          PROVE  /\ ent'[d].at <= ent'[d].gen
                 /\ ent'[d].at = ent'[d].gen /\ ent'[d].info # None => ent'[d].from = ent'[d].info
      BY <3>1, <2>5, <2>7 DEF Versions
    <3>2. ASSUME NEW c \in Transports, tr'[c].state = "open"
          PROVE  LET d == tr'[c].e IN
                 /\ ent'[d].used
                 /\ tr'[c].gen <= ent'[d].gen
                 /\ tr'[c].gen = ent'[d].gen /\ ent'[d].info # None => tr'[c].info = ent'[d].info
      BY <3>2, <1>1, <2>7, <2>15 DEF Versions
    <3> QED
      BY <3>1, <3>2 DEF Versions
  <2>17. \A d \in Entries : Clients(d)' \subseteq Clients(d) /\ Usable(d)' \subseteq Usable(d)
    <3>1. \A d \in Entries : Clients(d)' = Clients(d)
      BY <1>1 DEF Clients
    <3> QED
      BY <3>1, <1>1, <2>7, <2>15 DEF Usable, Clients
  <2>18. UsableWithinLimit' /\ Reserved'
    BY <2>5, <2>7, <2>17, NoGrowth
  <2>19. Emptied'
    <3> SUFFICES Clients(map)' = {}
      BY DEF Emptied
    <3> QED
      BY <1>1, <2>1, <2>15 DEF Clients
  <2> QED
    BY <2>8, <2>9, <2>11, <2>13, <2>14, <2>16, <2>18, <2>19
<1> QED
  BY <1>2, <1>3

\* A new generation leaves no transport to choose from, and overtakes the
\* reconnection.
LEMMA BindStep ==
    ASSUME DialerPoolAssumption, CoreInv, NEW u \in Users, NEW i \in Infos, Bind(u, i)
    PROVE  CoreInv'
<1> USE DEF CoreInv, Books
<1>0. user[u].pc = "binding" /\ user[u].e \in Entries
  BY DEF Bind, Calls, Types, UserRecords
<1> PICK e \in Entries : e = user[u].e
  BY <1>0
<1> DEFINE r == [user[u] EXCEPT !.pc = "trying"]
           s == IF mgr = "running" THEN r ELSE NoCall
<1>1. UNCHANGED <<map, gc, rm, mgr>> /\ user' = [user EXCEPT ![u] = s]
  BY DEF Bind, Types
<1>2. r \in UserRecords /\ r.pc = "trying" /\ r.e = e /\ r.c = None /\ user[u].c = None
  BY <1>0, CallerGoesOn
<1> HIDE DEF r
<1>3. s \in UserRecords /\ s.c = None /\ s.pc # "channel"
      /\ ((s.pc = "idle" /\ s.e = None) \/ s.e = e)
  BY <1>2, NoCallRecord
<1> HIDE DEF s
<1>4. /\ user' \in [Users -> UserRecords] /\ user'[u] = s
      /\ \A v \in Users \ {u} : user'[v] = user[v]
  BY <1>1, <1>3, OneCaller
<1>5. CASE ent[e].info = i
  <2>1. UNCHANGED <<ent, tr, events>>
    BY <1>5 DEF Bind
  <2> QED
    BY <2>1, <1>0, <1>1, <1>2, <1>3, <1>4, CallersStep
<1>6. CASE ent[e].info # i
  <2>1. /\ ent' = [ent EXCEPT ![e] = Rebound(e, i)]
        /\ tr' = [c \in Transports |->
                    IF c \in Clients(e) /\ tr[c].drain = "no"
                    THEN [tr[c] EXCEPT !.drain = "due"] ELSE tr[c]]
        /\ IF ent[e].info = None THEN UNCHANGED events ELSE Event
    BY <1>6 DEF Bind
  <2>2. /\ MaxEvents \in Nat /\ events \in 0..MaxEvents
        /\ \A d \in Entries : ent[d].gen \in Nat /\ ent[d].gen \in Generations
    BY DEF Types, EntryRecords, Generations, DialerPoolAssumption
  <2>3. /\ events' \in 0..MaxEvents
        /\ events' = IF ent[e].info = None THEN events ELSE events + 1
    BY <2>1, <2>2 DEF Event
  <2>4. ent[e].gen + 1 <= events' + (IF Bound(e) THEN 1 ELSE 2)
    BY <2>2, <2>3 DEF Named
  <2>5. ent[e].gen + 1 \in Generations
    BY <2>2, <2>3, <2>4 DEF Generations
  <2>6. /\ Rebound(e, i) \in EntryRecords
        /\ Rebound(e, i).gen = ent[e].gen + 1 /\ Rebound(e, i).info = i
        /\ Rebound(e, i).used = ent[e].used /\ Rebound(e, i).removed = ent[e].removed
        /\ Rebound(e, i).conn = ent[e].conn /\ Rebound(e, i).new = ent[e].new
        /\ Rebound(e, i).from = ent[e].from /\ Rebound(e, i).at = ent[e].at
    <3>1. ent[e] \in EntryRecords
      BY DEF Types
    <3>2. /\ Cancelled(e) \in EntryRecords /\ Cancelled(e).gen = ent[e].gen
          /\ Cancelled(e).used = ent[e].used /\ Cancelled(e).removed = ent[e].removed
          /\ Cancelled(e).conn = ent[e].conn /\ Cancelled(e).new = ent[e].new
          /\ Cancelled(e).from = ent[e].from /\ Cancelled(e).at = ent[e].at
      BY <3>1 DEF Cancelled, EntryRecords
    <3> QED
      BY <3>2, <2>5 DEF Rebound, EntryRecords
  <2>7. /\ ent' \in [Entries -> EntryRecords] /\ ent'[e] = Rebound(e, i)
        /\ \A d \in Entries \ {e} : ent'[d] = ent[d]
    BY <2>1, <2>6, OneEntry
  <2>8. ASSUME NEW c \in Transports
        PROVE  /\ tr'[c] \in TransportRecords
               /\ tr'[c].state = tr[c].state /\ tr'[c].e = tr[c].e
               /\ tr'[c].info = tr[c].info /\ tr'[c].gen = tr[c].gen
               /\ tr'[c].draining = tr[c].draining /\ tr'[c].active = tr[c].active
    <3> DEFINE t == [tr[c] EXCEPT !.drain = "due"]
    <3>1. tr[c] \in TransportRecords
      BY DEF Types
    <3>2. /\ t \in TransportRecords /\ t.state = tr[c].state /\ t.e = tr[c].e
          /\ t.info = tr[c].info /\ t.gen = tr[c].gen
          /\ t.draining = tr[c].draining /\ t.active = tr[c].active
      BY <3>1 DEF TransportRecords
    <3>3. tr'[c] = IF c \in Clients(e) /\ tr[c].drain = "no" THEN t ELSE tr[c]
      BY <2>1
    <3> HIDE DEF t
    <3> QED
      BY <3>1, <3>2, <3>3
  <2>9. tr' \in [Transports -> TransportRecords]
    <3>1. tr' = [c \in Transports |-> tr'[c]]
      BY <2>1
    <3> QED
      BY <3>1, <2>8
  <2>10. Types'
    BY <1>1, <1>4, <2>3, <2>7, <2>9 DEF Types
  <2>11. Counted'
    BY <1>2, <1>3, <1>4, <2>8, CountKept
  <2>12. Calls'
    BY <1>0, <1>3, <1>4, NoneIsNothing DEF Calls
  <2>13. /\ None \notin Entries /\ None \notin Infos /\ None \notin Transports /\ ent[e].used
         /\ \A c \in Transports : tr[c].e \in Entries \cup {None} /\ tr[c].gen \in Nat
         /\ \A d \in Entries : ent[d].new \in Transports \cup {None} /\ ent[d].at \in Nat
         /\ map \in Entries \cup {None} /\ rm \in Entries \cup {None}
         /\ gc \in Entries \cup {None}
         /\ \A v \in Users : user[v].e \in Entries \cup {None}
    <3>1. Generations \subseteq Nat
      BY DEF Generations, DialerPoolAssumption
    <3>2. ent[e].used
      BY <1>0, NoneIsNothing DEF Named
    <3> QED
      BY <3>1, <3>2, NoneIsNothing DEF Types, TransportRecords, EntryRecords, UserRecords
  <2>14. Named'
    <3>1. \A d \in Entries : ent'[d].used = ent[d].used /\ ent'[d].removed = ent[d].removed
      BY <2>6, <2>7
    <3>2. /\ map' # None => ent'[map'].used /\ ~ent'[map'].removed
          /\ rm' # None => ent'[rm'].used /\ rm' # map'
          /\ gc' # None => ent'[gc'].used
      BY <1>1, <3>1, <2>13 DEF Named
    <3>3. \A v \in Users : user'[v].e # None => ent'[user'[v].e].used
      BY <1>3, <1>4, <2>13, <3>1 DEF Named
    <3>4. \A d \in Entries : ~ent'[d].used => ent'[d] = Unused
      BY <2>6, <2>7, <2>13 DEF Named
    <3>5. \A d \in Entries : Bound(d)' <=> Bound(d)
      BY <1>1, <3>1, <2>13 DEF Bound
    <3>6. \A d \in Entries : Bound(d)' => ent'[d].info # None
      BY <3>5, <2>6, <2>7, <2>13 DEF Named
    <3>7. ASSUME NEW d \in Entries
          PROVE  ent'[d].gen <= events' + (IF ent'[d].info = None \/ Bound(d)' THEN 1 ELSE 2)
      <4>1. CASE d = e
        BY <4>1, <2>4, <2>6, <2>7, <2>13, <3>5
      <4>2. CASE d # e
        <5>1. ent'[d] = ent[d] /\ events <= events' /\ events' \in Nat
          BY <4>2, <2>2, <2>3, <2>7
        <5> QED
          BY <5>1, <2>2, <3>5 DEF Named
      <4> QED
        BY <4>1, <4>2
    <3> QED
      BY <3>2, <3>3, <3>4, <3>6, <3>7 DEF Named
  <2>15. Fresh'
    <3>1. ASSUME NEW c \in Transports
          PROVE  /\ tr'[c].state \in {"free", "fresh"} => tr'[c].active = 0
                 /\ tr'[c].state \in {"fresh", "open"} => tr'[c].e # None
                 /\ tr'[c].state = "fresh" => ent'[tr'[c].e].new = c
      BY <2>6, <2>7, <2>8, <2>13 DEF Fresh
    <3>2. ASSUME NEW d \in Entries, ent'[d].new # None
          PROVE  /\ ent'[d].conn = "dialed"
                 /\ tr'[ent'[d].new].state = "fresh" /\ tr'[ent'[d].new].e = d
                 /\ tr'[ent'[d].new].info = ent'[d].from /\ tr'[ent'[d].new].gen = ent'[d].at
      BY <3>2, <2>6, <2>7, <2>8, <2>13 DEF Fresh
    <3>3. ASSUME NEW d \in Entries, ent'[d].conn = "dialed" PROVE ent'[d].new # None
      BY <3>3, <2>6, <2>7 DEF Fresh
    <3> QED
      BY <3>1, <3>2, <3>3 DEF Fresh
  <2>16. Versions'
    <3>1. ASSUME NEW d \in Entries, ent'[d].conn # "idle"
          PROVE  /\ ent'[d].at <= ent'[d].gen
                 /\ ent'[d].at = ent'[d].gen /\ ent'[d].info # None => ent'[d].from = ent'[d].info
      BY <3>1, <2>2, <2>6, <2>7, <2>13 DEF Versions
    <3>2. ASSUME NEW c \in Transports, tr'[c].state = "open"
          PROVE  LET d == tr'[c].e IN
                 /\ ent'[d].used
                 /\ tr'[c].gen <= ent'[d].gen
                 /\ tr'[c].gen = ent'[d].gen /\ ent'[d].info # None => tr'[c].info = ent'[d].info
      <4>1. tr[c].state = "open" /\ tr[c].e \in Entries
        BY <3>2, <2>8, <2>13 DEF Fresh
      <4>2. CASE tr[c].e = e
        <5>1. tr[c].gen <= ent[e].gen /\ tr[c].gen \in Nat /\ ent[e].gen \in Nat
          BY <4>1, <4>2, <2>2, <2>13 DEF Versions
        <5>2. tr[c].gen <= ent[e].gen + 1 /\ tr[c].gen # ent[e].gen + 1
          BY <5>1
        <5>3. /\ ent'[e].used /\ ent'[e].gen = ent[e].gen + 1
              /\ tr'[c].gen = tr[c].gen /\ tr'[c].e = e
          BY <4>2, <2>6, <2>7, <2>8, <2>13
        <5> QED
          BY <5>2, <5>3
      <4>3. CASE tr[c].e # e
        BY <4>1, <4>3, <2>7, <2>8 DEF Versions
      <4> QED
        BY <4>2, <4>3
    <3> QED
      BY <3>1, <3>2 DEF Versions
  <2>17. \A d \in Entries : Clients(d)' \subseteq Clients(d)
    BY <2>8 DEF Clients
  <2>18. \A d \in Entries : Usable(d)' \subseteq Usable(d)
    <3> TAKE d \in Entries
    <3>1. CASE d = e
      <4>1. \A c \in Clients(e)' : tr'[c].gen # ent'[e].gen
        BY <2>2, <2>6, <2>7, <2>8, <2>13 DEF Clients, Versions
      <4> QED
        BY <3>1, <4>1 DEF Usable
    <3>2. CASE d # e
      BY <3>2, <2>7, <2>8 DEF Usable, Clients
    <3> QED
      BY <3>1, <3>2
  <2>19. UsableWithinLimit' /\ Reserved'
    <3>1. \A d \in Entries : ent'[d].conn # "idle" /\ ent'[d].at = ent'[d].gen
                             => ent[d].conn # "idle" /\ ent[d].at = ent[d].gen
      BY <2>2, <2>6, <2>7, <2>13 DEF Versions
    <3> QED
      BY <3>1, <2>18, NoGrowth
  <2>20. Emptied'
    BY <1>1, <2>17, EmptyKept
  <2> QED
    BY <2>10, <2>11, <2>12, <2>14, <2>15, <2>16, <2>19, <2>20
<1> QED
  BY <1>5, <1>6

----------------------------------------------------------------------------
(* Steps of the cleanup, RemoveDomain and Close.                            *)

\* Entry e loses its info, and is nobody's any more.
LEMMA ClearedEntry ==
    ASSUME Types, NEW e \in Entries, NEW removed \in BOOLEAN
    PROVE  LET r == [ent[e] EXCEPT !.removed = removed, !.info = None]
               q == [ent[e] EXCEPT !.info = None]
           IN  /\ r \in EntryRecords /\ r.info = None /\ r.removed = removed
               /\ r.used = ent[e].used /\ r.gen = ent[e].gen /\ r.new = ent[e].new
               /\ r.conn = ent[e].conn /\ r.from = ent[e].from /\ r.at = ent[e].at
               /\ q \in EntryRecords /\ q.info = None /\ q.removed = ent[e].removed
               /\ q.used = ent[e].used /\ q.gen = ent[e].gen /\ q.new = ent[e].new
               /\ q.conn = ent[e].conn /\ q.from = ent[e].from /\ q.at = ent[e].at
<1>1. ent[e] \in EntryRecords
  BY DEF Types
<1> QED
  BY <1>1 DEF EntryRecords

\* An entry is cleared once, as it was bound.
LEMMA ClearingStep ==
    ASSUME DialerPoolAssumption, CoreInv, NEW e \in Entries, Bound(e), ~Bound(e)',
           UNCHANGED <<tr, user, mgr, events>>,
           map' \in {map, None}, rm' = rm, gc' \in {gc, None},
           map' # None => map # e,
           \A d \in Entries \ {e} : Bound(d)' <=> Bound(d),
           NEW r \in EntryRecords, ent' = [ent EXCEPT ![e] = r],
           r.info = None, r.used = ent[e].used, r.gen = ent[e].gen, r.new = ent[e].new,
           r.conn = ent[e].conn, r.from = ent[e].from, r.at = ent[e].at
    PROVE  CoreInv'
<1> USE DEF CoreInv, Books
<1>1. ent' \in [Entries -> EntryRecords] /\ ent'[e] = r /\ \A d \in Entries \ {e} : ent'[d] = ent[d]
  BY OneEntry
<1>2. Types'
  BY <1>1 DEF Types
<1>3. /\ Fresh' /\ Versions' /\ UsableWithinLimit' /\ Reserved'
      /\ \A d \in Entries : Clients(d)' \subseteq Clients(d)
  <2>1. \A d \in Entries :
          /\ ent'[d].used = ent[d].used /\ ent'[d].gen = ent[d].gen
          /\ ent'[d].info \in {ent[d].info, None} /\ ent'[d].new = ent[d].new
          /\ ent'[d].conn = ent[d].conn /\ ent'[d].from = ent[d].from
          /\ ent'[d].at = ent[d].at
    BY <1>1
  <2> QED
    BY <2>1, <1>2, Settles
<1>4. Counted'
  BY CountKept
<1>5. Calls'
  BY DEF Calls
<1>6. /\ None \notin Entries /\ map \in Entries \cup {None} /\ rm \in Entries \cup {None}
      /\ gc \in Entries \cup {None} /\ \A u \in Users : user[u].e \in Entries \cup {None}
  BY NoneIsNothing DEF Types, UserRecords
<1>7. ent[e].used
  BY <1>6 DEF Bound, Named
<1>8. Named'
  <2>1. \A d \in Entries : ent'[d].used = ent[d].used
    BY <1>1
  <2>2. /\ map' # None => ent'[map'].used /\ ~ent'[map'].removed
        /\ rm' # None => ent'[rm'].used /\ rm' # map'
        /\ gc' # None => ent'[gc'].used
    BY <1>1, <1>6, <2>1 DEF Named
  <2>3. \A u \in Users : user'[u].e # None => ent'[user'[u].e].used
    BY <1>6, <2>1 DEF Named
  <2>4. \A d \in Entries : ~ent'[d].used => ent'[d] = Unused
    BY <1>1, <1>7 DEF Named
  <2>5. \A d \in Entries : Bound(d)' => ent'[d].info # None
    BY <1>1 DEF Named
  <2>6. ASSUME NEW d \in Entries
        PROVE  ent'[d].gen <= events' + (IF ent'[d].info = None \/ Bound(d)' THEN 1 ELSE 2)
    <3>1. CASE d = e
      BY <3>1, <1>1 DEF Named
    <3>2. CASE d # e
      BY <3>2, <1>1 DEF Named
    <3> QED
      BY <3>1, <3>2
  <2> QED
    BY <2>2, <2>3, <2>4, <2>5, <2>6 DEF Named
<1>9. Emptied'
  BY <1>3, EmptyKept
<1> QED
  BY <1>2, <1>3, <1>4, <1>5, <1>8, <1>9

\* An evicted entry leaves the map for good and loses its info, whatever it got
\* meanwhile.
LEMMA EvictStep ==
    ASSUME DialerPoolAssumption, CoreInv, Evict
    PROVE  CoreInv'
<1> USE DEF CoreInv, Books
<1>1. gc # None /\ gc \in Entries /\ gc' = None /\ UNCHANGED <<tr, user, rm, mgr, events>>
  BY DEF Evict, Types
<1> PICK e \in Entries : e = gc
  BY <1>1
<1>2. CASE map = e
  <2> DEFINE r == [ent[e] EXCEPT !.info = None]
  <2>1. map' = None /\ ent' = [ent EXCEPT ![e] = r]
    BY <1>2 DEF Evict, Types
  <2>2. /\ r \in EntryRecords /\ r.info = None /\ r.removed = ent[e].removed
        /\ r.used = ent[e].used /\ r.gen = ent[e].gen /\ r.new = ent[e].new
        /\ r.conn = ent[e].conn /\ r.from = ent[e].from /\ r.at = ent[e].at
    BY ClearedEntry
  <2> HIDE DEF r
  <2>3. rm # e /\ rm \in Entries \cup {None} /\ None \notin Entries
    BY <1>2, NoneIsNothing DEF Named, Types
  <2>4. /\ ent'[e] = r /\ \A d \in Entries \ {e} : ent'[d] = ent[d]
    BY <2>1, <2>2, OneEntry
  <2>5. Bound(e) /\ ~Bound(e)' /\ \A d \in Entries \ {e} : Bound(d)' <=> Bound(d)
    BY <1>1, <1>2, <2>1, <2>3, <2>4 DEF Bound
  <2> QED
    BY <1>1, <2>1, <2>2, <2>5, ClearingStep
<1>3. CASE map # e
  <2>1. UNCHANGED <<map, ent>> /\ events \in 0..MaxEvents /\ tr \in [Transports -> TransportRecords]
    BY <1>3 DEF Evict, Types
  <2> QED
    BY <1>1, <2>1, TransportsStep
<1> QED
  BY <1>2, <1>3

\* An entry marked as removed is never bound again.
LEMMA RemoveMarksStep ==
    ASSUME DialerPoolAssumption, CoreInv, RemoveMarks
    PROVE  CoreInv'
<1> USE DEF CoreInv, Books
<1>1. rm # None /\ rm \in Entries /\ UNCHANGED <<map, tr, user, gc, rm, mgr, events>>
  BY DEF RemoveMarks, Types
<1> PICK e \in Entries : e = rm
  BY <1>1
<1> DEFINE r == [ent[e] EXCEPT !.removed = TRUE, !.info = None]
<1>2. ~ent[e].removed /\ ent' = [ent EXCEPT ![e] = r]
  BY DEF RemoveMarks, Types
<1>3. /\ r \in EntryRecords /\ r.info = None /\ r.removed = TRUE
      /\ r.used = ent[e].used /\ r.gen = ent[e].gen /\ r.new = ent[e].new
      /\ r.conn = ent[e].conn /\ r.from = ent[e].from /\ r.at = ent[e].at
  BY ClearedEntry
<1> HIDE DEF r
<1>4. map # e
  BY <1>1 DEF Named
<1>5. ent'[e] = r /\ \A d \in Entries \ {e} : ent'[d] = ent[d]
  BY <1>2, <1>3, OneEntry
<1>6. Bound(e) /\ ~Bound(e)' /\ \A d \in Entries \ {e} : Bound(d)' <=> Bound(d)
  BY <1>1, <1>2, <1>3, <1>4, <1>5 DEF Bound
<1> QED
  BY <1>1, <1>2, <1>3, <1>4, <1>6, ClearingStep

\* The entry goes from the map to the one that removes it.
LEMMA RemoveDomainStep ==
    ASSUME DialerPoolAssumption, CoreInv, RemoveDomain
    PROVE  CoreInv'
<1> USE DEF CoreInv, Books
<1>1. /\ map # None /\ rm = None /\ map' = None /\ rm' = map
      /\ UNCHANGED <<ent, tr, user, gc, mgr>>
      /\ events' = events + 1 /\ events' \in 0..MaxEvents /\ events \in Nat
  BY DEF RemoveDomain, Event, Types, DialerPoolAssumption
<1>2. Types'
  BY <1>1 DEF Types
<1>3. \A d \in Entries : ent[d].info \in {ent[d].info, None}
  OBVIOUS
<1>4. /\ Fresh' /\ Versions' /\ UsableWithinLimit' /\ Reserved'
      /\ \A d \in Entries : Clients(d)' \subseteq Clients(d)
  BY <1>1, <1>2, <1>3, Settles
<1>5. Counted'
  BY <1>1, CountKept
<1>6. Calls'
  BY <1>1 DEF Calls
<1>7. Named'
  <2>1. map \in Entries /\ None \notin Entries /\ \A d \in Entries : ent[d].gen \in Nat
    <3>1. Generations \subseteq Nat
      BY DEF Generations, DialerPoolAssumption
    <3> QED
      BY <3>1, <1>1, NoneIsNothing DEF Types, EntryRecords
  <2>2. \A d \in Entries : Bound(d)' <=> Bound(d)
    BY <1>1, <2>1 DEF Bound, Named
  <2>3. ASSUME NEW d \in Entries
        PROVE  ent'[d].gen <= events' + (IF ent'[d].info = None \/ Bound(d)' THEN 1 ELSE 2)
    BY <1>1, <2>1, <2>2 DEF Named
  <2> QED
    BY <1>1, <2>1, <2>2, <2>3 DEF Named
<1>8. Emptied'
  BY <1>1, <1>4, EmptyKept
<1> QED
  BY <1>2, <1>4, <1>5, <1>6, <1>7, <1>8

\* entry.close closes what is in the pool and nothing else.
LEMMA CloseEntryEffect ==
    ASSUME DialerPoolAssumption, CoreInv, NEW e \in Entries, ent[e].used, CloseEntry(e),
           UNCHANGED <<map, user, gc, events>>,
           rm' = rm \/ (rm' = None /\ ent[rm].removed),
           mgr' \in {"running", "closing", "waiting", "closed"}
    PROVE  /\ Books' /\ Fresh' /\ Versions' /\ UsableWithinLimit' /\ Reserved'
           /\ \A d \in Entries : Clients(d)' \subseteq Clients(d)
           /\ Clients(e)' = {}
<1> USE DEF CoreInv, Books
<1>1. /\ tr' = [c \in Transports |-> IF c \in Clients(e) THEN Closed(c) ELSE tr[c]]
      /\ ent' = [ent EXCEPT ![e] = Cancelled(e)]
  BY DEF CloseEntry
<1>2. ASSUME NEW c \in Transports
      PROVE  /\ tr'[c] \in TransportRecords /\ tr'[c].active = tr[c].active
             /\ c \notin Clients(e) => tr'[c] = tr[c]
             /\ c \in Clients(e) => /\ tr[c].state = "open"
                                    /\ tr'[c].state \in {"free", "closed"}
                                    /\ tr'[c].state = "free" => tr'[c].active = 0
  BY <1>1, ClosedTransport DEF Types, Clients
<1>3. tr' \in [Transports -> TransportRecords]
  <2>1. tr' = [c \in Transports |-> tr'[c]]
    BY <1>1
  <2> QED
    BY <2>1, <1>2
<1>4. /\ Cancelled(e) \in EntryRecords /\ Cancelled(e).used = ent[e].used
      /\ Cancelled(e).info = ent[e].info /\ Cancelled(e).gen = ent[e].gen
      /\ Cancelled(e).removed = ent[e].removed /\ Cancelled(e).conn = ent[e].conn
      /\ Cancelled(e).from = ent[e].from /\ Cancelled(e).at = ent[e].at
      /\ Cancelled(e).new = ent[e].new
  <2>1. ent[e] \in EntryRecords
    BY DEF Types
  <2> QED
    BY <2>1 DEF Cancelled, EntryRecords
<1>5. /\ ent' \in [Entries -> EntryRecords] /\ ent'[e] = Cancelled(e)
      /\ \A d \in Entries \ {e} : ent'[d] = ent[d]
  BY <1>1, <1>4, OneEntry
<1>6. Types'
  BY <1>3, <1>5, NoneIsNothing DEF Types
<1>7. Counted'
  BY <1>2, CountKept
<1>8. Calls'
  BY DEF Calls
<1>9. Named'
  BY <1>4, <1>5, <1>6, NamesKept
<1>10. /\ Fresh' /\ Versions' /\ UsableWithinLimit' /\ Reserved'
       /\ \A d \in Entries : Clients(d)' \subseteq Clients(d)
  <2>1. \A d \in Entries :
          /\ ent'[d].used = ent[d].used /\ ent'[d].gen = ent[d].gen
          /\ ent'[d].info \in {ent[d].info, None} /\ ent'[d].new = ent[d].new
          /\ ent'[d].conn = ent[d].conn /\ ent'[d].from = ent[d].from
          /\ ent'[d].at = ent[d].at
    BY <1>4, <1>5
  <2> QED
    BY <1>2, <1>6, <2>1, Settles
<1>11. Clients(e)' = {}
  BY <1>2 DEF Clients
<1> QED
  BY <1>6, <1>7, <1>8, <1>9, <1>10, <1>11

\* A removed entry loses its transports, and its reconnection is cancelled.
LEMMA RemoveClosesStep ==
    ASSUME DialerPoolAssumption, CoreInv, RemoveCloses
    PROVE  CoreInv'
<1> USE DEF CoreInv, Books
<1>1. /\ rm \in Entries /\ ent[rm].removed /\ CloseEntry(rm) /\ rm' = None
      /\ UNCHANGED <<map, user, gc, mgr, events>> /\ ent[rm].used
  BY DEF RemoveCloses, Types, Named
<1>2. mgr' \in {"running", "closing", "waiting", "closed"}
  BY <1>1 DEF Types
<1> PICK e \in Entries : e = rm
  BY <1>1
<1>3. /\ Books' /\ Fresh' /\ Versions' /\ UsableWithinLimit' /\ Reserved'
      /\ \A d \in Entries : Clients(d)' \subseteq Clients(d)
  BY <1>1, <1>2, CloseEntryEffect
<1>4. Emptied'
  BY <1>1, <1>3, EmptyKept
<1> QED
  BY <1>3, <1>4

\* Close empties the pool of the entry in the map.
LEMMA CloseClosesStep ==
    ASSUME DialerPoolAssumption, CoreInv, CloseCloses
    PROVE  CoreInv'
<1> USE DEF CoreInv, Books
<1>1. mgr = "closing" /\ mgr' = "waiting" /\ UNCHANGED <<map, user, gc, rm, events>>
  BY DEF CloseCloses
<1>2. CASE map # None
  <2>1. CloseEntry(map) /\ map \in Entries /\ ent[map].used
    BY <1>2 DEF CloseCloses, Types, Named
  <2> PICK e \in Entries : e = map
    BY <2>1
  <2>2. /\ Books' /\ Fresh' /\ Versions' /\ UsableWithinLimit' /\ Reserved'
        /\ Clients(e)' = {}
    BY <1>1, <2>1, CloseEntryEffect
  <2>3. Emptied'
    BY <1>1, <2>2 DEF Emptied
  <2> QED
    BY <2>2, <2>3
<1>3. CASE map = None
  <2>1. UNCHANGED <<ent, tr>>
    BY <1>3 DEF CloseCloses
  <2>2. Types'
    BY <1>1, <2>1 DEF Types
  <2>3. \A d \in Entries : ent[d].info \in {ent[d].info, None}
    OBVIOUS
  <2>4. Fresh' /\ Versions' /\ UsableWithinLimit' /\ Reserved'
    BY <1>1, <2>1, <2>2, <2>3, Settles
  <2>5. Counted' /\ Calls' /\ Named'
    BY <1>1, <2>1, <2>2, CountKept, NamesKept DEF Calls
  <2>6. Emptied'
    BY <1>1, <1>3 DEF Emptied
  <2> QED
    BY <2>2, <2>4, <2>5, <2>6
<1> QED
  BY <1>2, <1>3

\* That the close of the manager begins or ends moves no transport.
LEMMA CloseStep ==
    ASSUME DialerPoolAssumption, CoreInv, Close \/ CloseReturns
    PROVE  CoreInv'
<1> USE DEF CoreInv, Books
<1>1. /\ UNCHANGED <<map, ent, tr, user, gc, rm, events>>
      /\ \/ mgr = "running" /\ mgr' = "closing"
         \/ mgr = "waiting" /\ mgr' = "closed"
  BY DEF Close, CloseReturns
<1>2. Types'
  BY <1>1 DEF Types
<1>3. \A d \in Entries : ent[d].info \in {ent[d].info, None}
  OBVIOUS
<1>4. /\ Fresh' /\ Versions' /\ UsableWithinLimit' /\ Reserved'
      /\ \A d \in Entries : Clients(d)' \subseteq Clients(d)
  BY <1>1, <1>2, <1>3, Settles
<1>5. Counted' /\ Calls' /\ Named'
  BY <1>1, <1>2, CountKept, NamesKept DEF Calls
<1>6. Emptied'
  BY <1>1, <1>4, EmptyKept
<1> QED
  BY <1>2, <1>4, <1>5, <1>6

----------------------------------------------------------------------------
(* The invariant.                                                           *)

\* The invariant holds initially: there is no entry.
LEMMA InitCore ==
    ASSUME DialerPoolAssumption, Init
    PROVE  CoreInv
<1> USE DEF Init
<1>1. Types
  <2>1. Unused \in EntryRecords /\ Free \in TransportRecords
    <3>1. 0 \in Generations /\ 0 \in 0..Cardinality(Users)
      BY CallersFinite DEF Generations, DialerPoolAssumption
    <3> QED
      BY <3>1 DEF Unused, EntryRecords, Free, TransportRecords
  <2>2. 0 \in 0..MaxEvents
    BY DEF DialerPoolAssumption
  <2> QED
    BY <2>1, <2>2, NoCallRecord DEF Types
<1>2. /\ \A c \in Transports : tr[c].state = "free" /\ tr[c].active = 0
      /\ \A u \in Users : user[u] = NoCall
      /\ \A e \in Entries : ent[e] = Unused /\ ent[e].conn = "idle" /\ ent[e].new = None
                            /\ ent[e].gen = 0
  BY DEF Free, Unused
<1>3. Counted
  <2>1. \A c \in Transports : Over(c) = {}
    BY <1>2, NoCallRecord, NoneIsNothing DEF Over
  <2> QED
    BY <2>1, <1>2, FS_EmptySet DEF Counted
<1>4. Calls
  BY <1>2, NoCallRecord DEF Calls
<1>5. Named
  <2>1. \A e \in Entries : ~Bound(e)
    BY NoneIsNothing DEF Bound
  <2> QED
    BY <2>1, <1>2, NoCallRecord DEF Named
<1>6. Fresh
  BY <1>2 DEF Fresh
<1>7. Versions
  BY <1>2 DEF Versions
<1>8. UsableWithinLimit
  <2>1. \A e \in Entries : Usable(e) = {}
    BY <1>2 DEF Usable, Clients
  <2> QED
    BY <2>1, FS_EmptySet DEF UsableWithinLimit, DialerPoolAssumption
<1>9. Reserved
  BY <1>2 DEF Reserved
<1>10. Emptied
  BY DEF Emptied
<1> QED
  BY <1>1, <1>3, <1>4, <1>5, <1>6, <1>7, <1>8, <1>9, <1>10 DEF CoreInv, Books

\* Every step keeps the invariant.
LEMMA NextCore ==
    ASSUME DialerPoolAssumption, CoreInv, [Next]_vars
    PROVE  CoreInv'
<1>1. CASE UNCHANGED vars
  BY <1>1 DEF vars, CoreInv, Books, Types, Counted, Over, Calls, Named, Bound, Fresh, Versions,
              UsableWithinLimit, Reserved, Usable, Clients, Emptied
<1>2. ASSUME NEW u \in Users, Lookup(u) \/ Caller(u) \/ GiveUp(u) \/ Release(u)
      PROVE  CoreInv'
  BY <1>2, LookupStep, BindStep, BorrowStep, RefuseOrGiveUpStep, WaitStep, WokenStep,
     ReleaseStep DEF Caller
<1>3. ASSUME NEW e \in Entries, Reconnection(e) PROVE CoreInv'
  BY <1>3, DialOKStep, DialFailsStep, PublishStep DEF Reconnection
<1>4. ASSUME NEW c \in Transports, Maintenance(c) \/ KeepaliveTimeout(c) \/ Break(c)
      PROVE  CoreInv'
  BY <1>4, DrainOldStep, ClosedStep, KeepaliveTimeoutStep, BreakStep DEF Maintenance
<1>5. CASE Sweep \/ Evict \/ RemoveDomain \/ Close
  BY <1>5, SweepStep, EvictStep, RemoveDomainStep, CloseStep
<1>6. CASE Closing
  BY <1>6, RemoveMarksStep, RemoveClosesStep, CloseClosesStep, CloseStep DEF Closing
<1> QED
  BY <1>1, <1>2, <1>3, <1>4, <1>5, <1>6 DEF Next

\* The invariant of the pool: books, versions and the reserved place.
THEOREM CoreInvariant == Spec => []CoreInv
<1>1. Init => CoreInv
  BY DialerPoolAssumption, InitCore
<1>2. CoreInv /\ [Next]_vars => CoreInv'
  BY DialerPoolAssumption, NextCore
<1> QED
  BY <1>1, <1>2, PTL DEF Spec

\* Every variable has its type, and a transport counts the channels over it,
\* whatever callers, reconnections and the cleanup do at the same time.
THEOREM TypeCorrect == Spec => []TypeOK
<1>1. CoreInv => TypeOK
  BY DEF CoreInv, Books, Types, Counted, Over, TypeOK
<1> QED
  BY <1>1, CoreInvariant, PTL

\* An entry never has more transports to choose from than its limit, though its
\* callers decide to add one without waiting for it.
THEOREM WithinLimit == Spec => []UsableWithinLimit
<1>1. CoreInv => UsableWithinLimit
  BY DEF CoreInv
<1> QED
  BY <1>1, CoreInvariant, PTL

\* A channel is only opened over a transport dialled with the latest info, also
\* if the info changed while the transport was being dialled.
THEOREM LatestCredentials == Spec => []CurrentCredentials
<1>1. CoreInv => CurrentCredentials
  <2> SUFFICES ASSUME CoreInv, NEW e \in Entries, ent[e].info # None, NEW c \in Usable(e)
               PROVE  tr[c].info = ent[e].info
    BY DEF CurrentCredentials
  <2> QED
    BY DEF CoreInv, Versions, Usable, Clients
<1> QED
  BY <1>1, CoreInvariant, PTL

\* Once Close has returned no transport is left in the pool of the manager, and
\* a call that was under way adds none.
THEOREM EmptyOnceClosed == Spec => []ClosedIsEmpty
<1>1. CoreInv => ClosedIsEmpty
  BY DEF CoreInv, Emptied, ClosedIsEmpty
<1> QED
  BY <1>1, CoreInvariant, PTL

----------------------------------------------------------------------------
(* A transport in use.                                                      *)

\* Why transport c may be closed with channels over it.
Excused(c) == tr[c].broken \/ tr[c].drain = "timer" \/ rm = tr[c].e \/ mgr = "closing"

\* A transport with channels, that a step closes.
ClosesInUse(u, c) ==
    /\ user[u].c = c /\ c # None /\ user'[u].c = c
    /\ tr[c].state = "open" /\ tr'[c].state # "open"

\* Callers close no transport but their own, and that with its last channel.
LEMMA CallersRespect ==
    ASSUME DialerPoolAssumption, CoreInv, NEW u \in Users, NEW c \in Transports,
           ClosesInUse(u, c), NEW v \in Users, Lookup(v) \/ Caller(v) \/ GiveUp(v) \/ Release(v)
    PROVE  FALSE
<1> USE DEF CoreInv, Books
<1>1. /\ user[u].c = c /\ c # None /\ user'[u].c = c
      /\ tr[c].state = "open" /\ tr'[c].state # "open" /\ tr[c] \in TransportRecords
  BY DEF ClosesInUse, Types
<1>2. CASE UNCHANGED tr
  BY <1>1, <1>2
<1>3. ASSUME NEW i \in Infos, Bind(v, i) PROVE FALSE
  <2>1. \/ tr'[c] = tr[c]
        \/ tr'[c] = [tr[c] EXCEPT !.drain = "due"]
    BY <1>3 DEF Bind
  <2> QED
    BY <1>1, <2>1 DEF TransportRecords
<1>4. CASE Borrow(v)
  <2>1. PICK d \in Transports : tr' = [tr EXCEPT ![d].active = @ + 1]
    BY <1>4 DEF Borrow, LeastLoaded, Usable, Clients
  <2> DEFINE t == [tr[d] EXCEPT !.active = @ + 1]
  <2>2. tr' = [tr EXCEPT ![d] = t]
    BY <2>1 DEF Types
  <2>3. t.state = tr[d].state
    BY DEF Types, TransportRecords
  <2> HIDE DEF t
  <2> QED
    BY <1>1, <2>2, <2>3 DEF Types
<1>5. CASE Release(v)
  <2>1. /\ tr' = [tr EXCEPT ![user[v].c] = Released(user[v].c)]
        /\ user' = [user EXCEPT ![v] = NoCall]
    BY <1>5 DEF Release
  <2>2. v # u
    BY <1>1, <2>1, NoCallRecord DEF Types
  <2>3. user[v].c = c
    BY <1>1, <2>1 DEF Types
  <2>4. tr[c].active > 1 /\ tr[c].active \in Nat \ {0}
    BY <1>1, <2>2, <2>3, InUse
  <2>5. Released(c).state = tr[c].state
    BY <2>4, ReleasedTransport
  <2> QED
    BY <1>1, <2>1, <2>3, <2>5 DEF Types
<1>6. CASE Lookup(v) \/ Refuse(v) \/ Wait(v) \/ Woken(v) \/ GiveUp(v)
  BY <1>2, <1>6 DEF Lookup, Refuse, Wait, Woken, GiveUp
<1> QED
  BY <1>3, <1>4, <1>5, <1>6 DEF Caller

\* A reconnection touches no open transport, and a drain no used one.
LEMMA MaintenanceRespects ==
    ASSUME DialerPoolAssumption, CoreInv, NEW u \in Users, NEW c \in Transports,
           ClosesInUse(u, c),
           \/ \E e \in Entries : Reconnection(e)
           \/ \E d \in Transports : Maintenance(d) \/ KeepaliveTimeout(d) \/ Break(d)
    PROVE  Excused(c)
<1> USE DEF CoreInv, Books
<1>1. /\ user[u].c = c /\ c # None /\ user'[u].c = c
      /\ tr[c].state = "open" /\ tr'[c].state # "open" /\ tr[c] \in TransportRecords
  BY DEF ClosesInUse, Types
<1>2. tr[c].active \in Nat \ {0}
  BY <1>1, InUse
<1>3. ASSUME NEW e \in Entries, DialOK(e) PROVE FALSE
  <2>1. PICK d \in Transports, t \in {[Free EXCEPT !.state = "fresh", !.e = e,
                                         !.info = ent[e].from, !.gen = ent[e].at]} :
          tr[d] = Free /\ tr' = [tr EXCEPT ![d] = t]
    BY <1>3 DEF DialOK
  <2>2. d # c
    BY <1>1, <2>1, ClosedTransport
  <2> QED
    BY <1>1, <2>1, <2>2 DEF Types
<1>4. ASSUME NEW e \in Entries, Publish(e) PROVE FALSE
  <2>1. ent[e].new # None /\ tr[ent[e].new].state = "fresh"
    BY <1>4 DEF Publish, Fresh
  <2>2. ent[e].new # c
    BY <1>1, <2>1
  <2> QED
    BY <1>1, <1>4, <2>2 DEF Publish, Types
<1>5. ASSUME NEW e \in Entries, DialFails(e) PROVE FALSE
  BY <1>1, <1>5 DEF DialFails
<1>6. Drained(c).state = "open"
  BY <1>1, <1>2, DrainedTransport
<1>7. ASSUME NEW d \in Transports, DrainOld(d) \/ KeepaliveTimeout(d) PROVE FALSE
  <2>1. CASE d # c
    BY <1>1, <1>7, <2>1 DEF DrainOld, KeepaliveTimeout, Types
  <2>2. CASE d = c
    BY <1>1, <1>6, <1>7, <2>2 DEF DrainOld, KeepaliveTimeout, Types
  <2> QED
    BY <2>1, <2>2
<1>8. ASSUME NEW d \in Transports, GraceOver(d) PROVE tr[c].drain = "timer"
  BY <1>1, <1>8 DEF GraceOver, Types
<1>9. ASSUME NEW d \in Transports, Abort(d) PROVE tr[c].broken
  BY <1>1, <1>9 DEF Abort, Types
<1>10. ASSUME NEW d \in Transports, Break(d) PROVE FALSE
  <2> DEFINE t == [tr[d] EXCEPT !.broken = TRUE]
  <2>1. tr' = [tr EXCEPT ![d] = t]
    BY <1>10 DEF Break, Types
  <2>2. t.state = tr[d].state
    BY DEF Types, TransportRecords
  <2> HIDE DEF t
  <2> QED
    BY <1>1, <2>1, <2>2 DEF Types
<1> QED
  BY <1>3, <1>4, <1>5, <1>7, <1>8, <1>9, <1>10 DEF Reconnection, Maintenance, Excused

\* The cleanup closes idle transports only; an entry goes with its own.
LEMMA CleanupRespects ==
    ASSUME DialerPoolAssumption, CoreInv, NEW u \in Users, NEW c \in Transports,
           ClosesInUse(u, c), Sweep \/ Evict \/ RemoveDomain \/ Close \/ Closing
    PROVE  Excused(c)
<1> USE DEF CoreInv, Books
<1>1. /\ user[u].c = c /\ c # None /\ user'[u].c = c
      /\ tr[c].state = "open" /\ tr'[c].state # "open" /\ tr[c] \in TransportRecords
  BY DEF ClosesInUse, Types
<1>2. tr[c].active \in Nat \ {0}
  BY <1>1, InUse
<1>3. CASE Sweep
  <2>1. PICK old, idle \in SUBSET Clients(map) :
          tr' = [d \in Transports |-> IF d \in Clients(map) THEN Swept(d, old, idle) ELSE tr[d]]
    BY <1>3 DEF Sweep
  <2>2. tr'[c] = Swept(c, old, idle)
    BY <1>1, <2>1
  <2>3. tr'[c] = tr[c] \/ tr'[c] = [tr[c] EXCEPT !.draining = TRUE]
    BY <1>2, <2>2, SweptTransport
  <2> QED
    BY <1>1, <2>3 DEF TransportRecords
<1>4. CASE RemoveCloses
  <2>1. c \in Clients(rm)
    BY <1>1, <1>4 DEF RemoveCloses, CloseEntry
  <2> QED
    BY <2>1 DEF Clients, Excused
<1>5. CASE CloseCloses
  BY <1>5 DEF CloseCloses, Excused
<1>6. CASE Evict \/ RemoveDomain \/ Close \/ RemoveMarks \/ CloseReturns
  BY <1>1, <1>6 DEF Evict, RemoveDomain, Close, RemoveMarks, CloseReturns
<1> QED
  BY <1>3, <1>4, <1>5, <1>6 DEF Closing

\* A transport in use is only closed for being broken, at the end of its grace,
\* or with its entry: cleanup, drains and the channels of others leave it alone.
THEOREM UsedTransportsStay == Spec => UseIsRespected
<1>1. ASSUME CoreInv, [Next]_vars
      PROVE  \A u \in Users : LET c == user[u].c IN
               /\ c # None /\ user'[u].c = c
               /\ tr[c].state = "open" /\ tr'[c].state # "open"
               => \/ tr[c].broken \/ tr[c].drain = "timer"
                  \/ rm = tr[c].e \/ mgr = "closing"
  <2> SUFFICES ASSUME NEW u \in Users, user[u].c # None, user'[u].c = user[u].c,
                      tr[user[u].c].state = "open", tr'[user[u].c].state # "open"
               PROVE  Excused(user[u].c)
    BY DEF Excused
  <2> PICK c \in Transports : c = user[u].c
    BY <1>1, DialerPoolAssumption, InUse DEF CoreInv
  <2>1. ClosesInUse(u, c)
    BY DEF ClosesInUse
  <2>2. CASE UNCHANGED vars
    BY <2>2 DEF vars
  <2>3. ASSUME NEW v \in Users, Lookup(v) \/ Caller(v) \/ GiveUp(v) \/ Release(v)
        PROVE  FALSE
    BY <1>1, <2>1, <2>3, DialerPoolAssumption, CallersRespect
  <2>4. ASSUME \/ \E e \in Entries : Reconnection(e)
               \/ \E d \in Transports : Maintenance(d) \/ KeepaliveTimeout(d) \/ Break(d)
        PROVE  Excused(c)
    BY <1>1, <2>1, <2>4, DialerPoolAssumption, MaintenanceRespects
  <2>5. ASSUME Sweep \/ Evict \/ RemoveDomain \/ Close \/ Closing
        PROVE  Excused(c)
    BY <1>1, <2>1, <2>5, DialerPoolAssumption, CleanupRespects
  <2> QED
    BY <1>1, <2>2, <2>3, <2>4, <2>5 DEF Next
<1> QED
  BY <1>1, CoreInvariant, PTL DEF Spec, UseIsRespected

=============================================================================
