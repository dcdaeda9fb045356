----------------------------- MODULE Backplane -----------------------------
(***************************************************************************)
(* One document in several backends (COLLAB_BUS=redis): the frames they    *)
(* exchange over Redis pub/sub, the lease that elects the one that writes, *)
(* and what each room keeps until its edits are known to be stored.        *)
(*                                                                         *)
(* A document, an update and an encoded state are sets of edits, as in     *)
(* RoomPersistence; here an update can also arrive before one it builds    *)
(* on, and then waits inside the Y.Doc.  Storage is reduced to its rows    *)
(* and the newest snapshot; retention is RoomPersistence's.                *)
(***************************************************************************)
EXTENDS Naturals, FiniteSets, Sequences, SequencesExt, FiniteSetsExt

CONSTANTS
  Instances,     \* backends
  Edits,         \* client edits (one per Yjs update)
  Seed,          \* the content a file is created with
  Needs,         \* the edits an edit builds on: [Edits -> SUBSET Edits]
  CatchUps,      \* how often a new room asks its peers (4 in the code)
  Scenarios,     \* the sets of events that a behaviour may have, see EnvEvents
  Editors,       \* bound: the instances whose sockets edit
  MaxRow,        \* bound: DocumentUpdate ids
  MaxOpen,       \* bound: sockets that join
  MaxInbox,      \* bound: frames under way to one instance
  Nobody

(*   publishFails  a PUBLISH is rejected                                   *)
(*   lostReply     a PUBLISH is carried out but reported as failed         *)
(*   lost          a subscriber misses a frame                             *)
(*   db            an INSERT fails; s3: a compaction fails                 *)
(*   redis         a lease call fails                                      *)
(*   crash         a process dies                                          *)
(*   lapse         a lease runs out between two ticks of its holder        *)
(*   stall         a lease runs out while its holder is inside a tick      *)
(*   shutdown      a process is asked to stop (onModuleDestroy)            *)
(*   busy          a room leaves although frames are under way to or from  *)
(*                 it, or its peers go on opening and editing meanwhile    *)
(*   outage        updates stay unpublished for over a minute              *)
(*   more          more than one edit is made                              *)
EnvEvents == {"publishFails", "lostReply", "lost", "db", "s3", "redis",
              "crash", "lapse", "stall", "shutdown", "busy", "outage", "more"}

ASSUME ScenariosAssumption == Scenarios \subseteq SUBSET EnvEvents
ASSUME NeedsAssumption ==
  /\ Needs \in [Edits -> SUBSET Edits]
  /\ \A e \in Edits : e \notin Needs[e] /\ \A d \in Needs[e] : Needs[d] \subseteq Needs[e]
ASSUME SeedAssumption == Seed \notin Edits
ASSUME BoundAssumption ==
  /\ {CatchUps, MaxRow, MaxOpen, MaxInbox} \subseteq Nat
  /\ CatchUps > 0 /\ MaxRow > 0
ASSUME EditorsAssumption == Editors \subseteq Instances
ASSUME NobodyAssumption == Nobody \notin Instances

VARIABLES
  \* what may happen in this behaviour
  env,
  \* Postgres and S3
  rows, nextRow, snap,
  \* Redis: the lease key and the frames under way to each subscriber
  lease, inbox,
  \* the rooms, one per instance
  room, doc, local, bus, pending, publishing, leader, persistedUpTo, awaiting, asks, conn, opened,
  \* the tick (or shutdown) under way at each instance
  pc, ret, taken, shot,
  \* history: who accepted an edit, and the edits no crash excused
  acceptedBy, owed

store == <<rows, nextRow, snap>>
redis == <<lease, inbox>>
kept == <<local, bus>>
queue == <<pending, publishing>>
room_ == <<room, conn, asks, opened>>
clocks == <<persistedUpTo, awaiting>>
tick == <<pc, ret, taken, shot>>
history == <<acceptedBy, owed>>
vars == <<env, store, redis, doc, kept, queue, leader, room_, clocks, tick, history>>

Content == Edits \cup {Seed}

\* The code runs on to its next await at a RunPC, and awaits a call at a WaitPC.
RunPC == {"flush?", "snapshot?", "evict?", "takeoverFlush", "evict", "persist", "compact?", "rest"}
WaitPC == {"drain", "lease", "create", "record", "takeover", "release", "unsubscribe"}

Frames == [kind : {"doc-update", "sync-step2", "persisted"}, upd : SUBSET Content, from : Instances]
          \cup [kind : {"sync-step1"}, upd : {{}}, from : Instances]

TypeOK ==
  /\ env \in Scenarios
  /\ rows \subseteq [id : 1 .. MaxRow, upd : SUBSET Content]
  /\ nextRow \in 1 .. (MaxRow + 1)
  /\ snap \in [upd : SUBSET Content, upTo : 0 .. MaxRow]
  /\ lease \in Instances \cup {Nobody}
  /\ inbox \in [Instances -> Seq(Frames)]
  /\ room \in [Instances -> {"none", "loading", "warm"}]
  /\ doc \in [Instances -> SUBSET Content]
  /\ local \in [Instances -> Seq(SUBSET Content)]
  /\ bus \in [Instances -> SUBSET Content]
  /\ pending \in [Instances -> Seq(Edits)]
  /\ publishing \in [Instances -> BOOLEAN]
  /\ leader \in [Instances -> BOOLEAN]
  /\ persistedUpTo \in [Instances -> 0 .. MaxRow]
  /\ awaiting \in [Instances -> BOOLEAN]
  /\ asks \in [Instances -> 0 .. CatchUps]
  /\ conn \in [Instances -> BOOLEAN]
  /\ opened \in 0 .. MaxOpen
  /\ pc \in [Instances -> RunPC \cup WaitPC \cup {"idle"}]
  /\ ret \in [Instances -> RunPC \cup {"lease", "capture", "captureLast", "release"}]
  /\ taken \in [Instances -> [local : Seq(SUBSET Content), bus : SUBSET Content]]
  /\ shot \in [Instances -> SUBSET Content]
  /\ acceptedBy \in [Edits -> Instances \cup {Nobody}]
  /\ owed \subseteq Edits
  \* an instance without a room keeps nothing
  /\ \A i \in Instances : room[i] = "none" =>
       /\ doc[i] = {} /\ local[i] = <<>> /\ bus[i] = {} /\ pending[i] = <<>> /\ inbox[i] = <<>>
       /\ ~leader[i] /\ ~conn[i] /\ pc[i] = "idle"

-----------------------------------------------------------------------------
(* What a Y.Doc shows, and what storage holds.                             *)

Visible(S) == {e \in S : e = Seed \/ Needs[e] \subseteq S}
EditsOf(S) == UNION {x.upd : x \in S}
Reconstruct == snap.upd \cup EditsOf({r \in rows : r.id > snap.upTo})
NoEntries == [local |-> <<>>, bus |-> {}]

Live(i) == room[i] # "none"
Buffered(i) == local[i] # <<>> \/ bus[i] # {}
Quiet == \A i \in Instances : pc[i] \notin RunPC
Evicts == {"takeover", "takeoverFlush", "evict", "persist", "compact?", "captureLast", "rest",
           "release", "unsubscribe"}
Stopping(i) == (IF pc[i] \in {"drain", "create", "record"} THEN ret[i] ELSE pc[i]) \in Evicts

\* Bound: with several edits, crashes or stalled ticks a single row is explored.
LastRow == IF {"more", "crash", "stall"} \cap env = {} THEN MaxRow ELSE 1

\* A new room is still to learn what storage did not have when it was read.
CatchingUp(i) == room[i] = "loading" \/ asks[i] > 0
\* A minute of idleness outlasts what is under way, and peers stay quiet meanwhile.
MayLeave(i) == "busy" \in env \/
  /\ pending[i] = <<>>
  /\ \A j \in Instances : ~CatchingUp(j) /\ inbox[j] = <<>> /\ ("outage" \in env \/ pending[j] = <<>>)
Undisturbed(i) == "busy" \in env \/ \A j \in Instances \ {i} : ~Stopping(j)

PublishedToAll(box, i, f) ==   \* mutant: a room that has left stays subscribed
  [j \in Instances |-> IF j # i THEN Append(box[j], f) ELSE box[j]]
\* Redis hands a frame to the subscribers other than its publisher.
Published(box, i, f) ==
  [j \in Instances |-> IF j # i /\ Live(j) THEN Append(box[j], f) ELSE box[j]]
Sent(box, j, f) == IF Live(j) THEN [box EXCEPT ![j] = Append(@, f)] ELSE box

Init ==
  /\ env \in Scenarios
  /\ rows = {} /\ nextRow = 1 /\ snap = [upd |-> {Seed}, upTo |-> 0]
  /\ lease = Nobody /\ inbox = [i \in Instances |-> <<>>]
  /\ room = [i \in Instances |-> "none"] /\ doc = [i \in Instances |-> {}]
  /\ local = [i \in Instances |-> <<>>] /\ bus = [i \in Instances |-> {}]
  /\ pending = [i \in Instances |-> <<>>] /\ publishing = [i \in Instances |-> FALSE]
  /\ leader = [i \in Instances |-> FALSE]
  /\ persistedUpTo = [i \in Instances |-> 0] /\ awaiting = [i \in Instances |-> FALSE]
  /\ asks = [i \in Instances |-> 0] /\ conn = [i \in Instances |-> FALSE] /\ opened = 0
  /\ pc = [i \in Instances |-> "idle"] /\ ret = [i \in Instances |-> "lease"]
  /\ taken = [i \in Instances |-> NoEntries] /\ shot = [i \in Instances |-> {}]
  /\ acceptedBy = [e \in Edits |-> Nobody] /\ owed = {}

-----------------------------------------------------------------------------
(* Clients: a room is opened by its first socket, edited, and left.        *)

\* getOrCreate puts the room in the map and subscribes; loading follows.
Open(i) ==
  /\ Quiet /\ room[i] = "none" /\ opened < MaxOpen /\ Undisturbed(i)
  /\ room' = [room EXCEPT ![i] = "loading"]
  /\ opened' = opened + 1
  /\ UNCHANGED <<env, store, redis, doc, kept, queue, leader, conn, asks, clocks, tick, history>>

\* The room is loaded; replayed rows are not buffered.  The socket joins,
\* and the room will ask its peers for what storage does not have yet.
Load(i) ==
  /\ Quiet /\ room[i] = "loading"
  /\ room' = [room EXCEPT ![i] = "warm"]
  /\ doc' = [doc EXCEPT ![i] = @ \cup Reconstruct]
  /\ persistedUpTo' = [persistedUpTo EXCEPT ![i] = Max({snap.upTo} \cup {r.id : r \in rows})]
  /\ conn' = [conn EXCEPT ![i] = TRUE]
  /\ asks' = [asks EXCEPT ![i] = CatchUps]
  /\ UNCHANGED <<env, store, redis, kept, queue, leader, opened, awaiting, tick, history>>

Connect(i) ==
  /\ Quiet /\ room[i] = "warm" /\ ~conn[i] /\ ~Stopping(i) /\ opened < MaxOpen
  /\ conn' = [conn EXCEPT ![i] = TRUE]
  /\ opened' = opened + 1
  /\ UNCHANGED <<env, store, redis, doc, kept, queue, leader, room, asks, clocks, tick, history>>

Disconnect(i) ==
  /\ Quiet /\ conn[i]
  /\ conn' = [conn EXCEPT ![i] = FALSE]
  /\ UNCHANGED <<env, store, redis, doc, kept, queue, leader, room, asks, opened, clocks, tick, history>>

\* The edits an update makes visible are what the update event carries.
Fresh(i, upd) == Visible(doc[i] \cup upd) \ Visible(doc[i])

\* A browser that sees d types e: applied, buffered, and queued for the peers.
Edit(i, e) ==
  /\ Quiet /\ conn[i] /\ i \in Editors /\ Undisturbed(i)
  /\ "more" \in env \/ \A d \in Edits : acceptedBy[d] = Nobody
  /\ acceptedBy[e] = Nobody /\ Needs[e] \subseteq Visible(doc[i])
  /\ doc' = [doc EXCEPT ![i] = @ \cup {e}]
  /\ local' = [local EXCEPT ![i] = Append(@, Fresh(i, {e}))]
  /\ pending' = [pending EXCEPT ![i] = Append(@, e)]
  /\ publishing' = [publishing EXCEPT ![i] = TRUE]
  /\ acceptedBy' = [acceptedBy EXCEPT ![e] = i]
  /\ owed' = owed \cup {e}
  /\ UNCHANGED <<env, store, redis, bus, leader, room_, clocks, tick>>

-----------------------------------------------------------------------------
(* Publishing: an in-order queue, retried by later edits and by each tick. *)

Goto(i, p) == pc' = [pc EXCEPT ![i] = p]
GoBack(i) == pc' = [pc EXCEPT ![i] = ret[i]] /\ ret' = [ret EXCEPT ![i] = "lease"]

\* The drain of i ends, and whoever awaits it goes on.
DrainEnds(i) ==
  /\ publishing' = [publishing EXCEPT ![i] = FALSE]
  /\ IF pc[i] = "drain" THEN GoBack(i) ELSE UNCHANGED <<pc, ret>>

PublishOk(i) ==
  /\ Quiet /\ publishing[i] /\ Undisturbed(i)
  /\ inbox' = Published(inbox, i, [kind |-> "doc-update", upd |-> {Head(pending[i])}, from |-> i])
  /\ pending' = [pending EXCEPT ![i] = Tail(@)]
  /\ IF Len(pending[i]) = 1 THEN DrainEnds(i) ELSE UNCHANGED <<publishing, pc, ret>>
  /\ UNCHANGED <<env, store, lease, doc, kept, leader, room_, clocks, taken, shot, history>>

PublishFailsDrops(i) ==   \* mutant: what could not be published is not tried again
  /\ "publishFails" \in env /\ Quiet /\ publishing[i]
  /\ pending' = [pending EXCEPT ![i] = <<>>]
  /\ DrainEnds(i)
  /\ UNCHANGED <<env, store, redis, doc, kept, leader, room_, clocks, taken, shot, history>>
\* The rest stays queued, in order; the frame may have gone out all the same.
PublishFails(i) ==
  /\ Quiet /\ publishing[i]
  /\ \/ "publishFails" \in env /\ UNCHANGED inbox
     \/ /\ "lostReply" \in env /\ Undisturbed(i) /\ \A j \in Instances : Len(inbox[j]) < MaxInbox
        /\ inbox' = Published(inbox, i,
                         [kind |-> "doc-update", upd |-> {Head(pending[i])}, from |-> i])
  /\ DrainEnds(i)
  /\ UNCHANGED <<env, store, lease, doc, kept, pending, leader, room_, clocks, taken, shot, history>>

\* A new room asks for the whole state, several times.
CatchUp(i) ==
  /\ Quiet /\ asks[i] > 0 /\ \A j \in Instances : Len(inbox[j]) < MaxInbox
  /\ asks' = [asks EXCEPT ![i] = @ - 1]
  /\ inbox' = Published(inbox, i, [kind |-> "sync-step1", upd |-> {}, from |-> i])
  /\ UNCHANGED <<env, store, lease, doc, kept, queue, leader, room, conn, opened, clocks, tick, history>>

-----------------------------------------------------------------------------
(* Frames from the other instances.                                        *)

Take(i) == [inbox EXCEPT ![i] = Tail(@)]
Next_(i, kinds) == Quiet /\ inbox[i] # <<>> /\ Head(inbox[i]).kind \in kinds

OnUpdateBuffers(i) ==   \* mutant: buffered, but not applied
  /\ Next_(i, {"doc-update", "sync-step2"})
  /\ bus' = [bus EXCEPT ![i] = @ \cup Fresh(i, Head(inbox[i]).upd)]
  /\ inbox' = Take(i)
  /\ UNCHANGED <<env, store, lease, doc, local, queue, leader, room_, clocks, tick, history>>
\* applyBusUpdate, applyBusSyncStep2: what becomes visible is buffered as 'bus'.
OnUpdate(i) ==
  /\ Next_(i, {"doc-update", "sync-step2"})
  /\ LET upd == Head(inbox[i]).upd IN
       /\ doc' = [doc EXCEPT ![i] = @ \cup upd]
       /\ bus' = [bus EXCEPT ![i] = @ \cup Fresh(i, upd)]
  /\ inbox' = Take(i)
  /\ UNCHANGED <<env, store, lease, local, queue, leader, room_, clocks, tick, history>>

OnSyncStep1(i) ==
  /\ Next_(i, {"sync-step1"})
  /\ inbox' = Sent(Take(i), Head(inbox[i]).from, [kind |-> "sync-step2", upd |-> doc[i], from |-> i])
  /\ UNCHANGED <<env, store, lease, doc, kept, queue, leader, room_, clocks, tick, history>>

CoveredBlindly(i, vector) == Len(local[i])   \* mutant: any persisted frame confirms all
\* How many local entries the leader's vector covers: they are replayed into an
\* empty document, in which an edit shows only if what it builds on is there too.
Covered(i, vector) ==
  Max({n \in 0 .. Len(local[i]) :
         \A k \in 1 .. n : Visible(UNION Range(SubSeq(local[i], 1, k))) \subseteq vector})

\* A follower lets go of its bus entries and of the local ones confirmed.
OnPersisted(i) ==
  /\ Next_(i, {"persisted"})
  /\ inbox' = Take(i)
  /\ IF leader[i] THEN UNCHANGED kept
     ELSE LET n == Covered(i, Head(inbox[i]).upd) IN
          /\ local' = [local EXCEPT ![i] = SubSeq(@, n + 1, Len(@))]
          /\ bus' = [bus EXCEPT ![i] = {}]
  /\ UNCHANGED <<env, store, lease, doc, queue, leader, room_, clocks, tick, history>>

\* Redis pub/sub does not keep frames for a subscriber that is away.
LoseFrame(i) ==
  /\ "lost" \in env /\ Quiet /\ inbox[i] # <<>>
  /\ inbox' = Take(i)
  /\ UNCHANGED <<env, store, lease, doc, kept, queue, leader, room_, clocks, tick, history>>

-----------------------------------------------------------------------------
(* The lease.                                                              *)

Free(i) == lease \in {Nobody, i}

\* All that a new leader has will be written.
Checkpoint(i) == bus' = [bus EXCEPT ![i] = @ \cup doc[i]]
Lead(i) ==
  /\ lease' = i
  /\ leader' = [leader EXCEPT ![i] = TRUE]
  /\ Checkpoint(i)

\* tryBecomeLeader, when a socket joins.
TryBecomeLeader(i) ==
  /\ Quiet /\ room[i] = "warm" /\ conn[i] /\ ~leader[i] /\ Free(i)
  /\ Lead(i)
  /\ UNCHANGED <<env, store, inbox, doc, local, queue, room_, clocks, tick, history>>

StartDrain(i, next) ==
  IF pending[i] # <<>> /\ ~publishing[i]
  THEN /\ Goto(i, "drain") /\ ret' = [ret EXCEPT ![i] = next]
       /\ publishing' = [publishing EXCEPT ![i] = TRUE]
  ELSE Goto(i, next) /\ UNCHANGED <<ret, publishing>>

TickStart(i) ==
  /\ Quiet /\ Live(i) /\ pc[i] = "idle"
  /\ StartDrain(i, "lease")
  /\ UNCHANGED <<env, store, redis, doc, kept, pending, leader, room_, clocks, taken, shot, history>>

RenewsAnyway(i) == TRUE   \* mutant: PEXPIRE without comparing the owner
\* The Lua script compares the owner before it extends the lease.
Renews(i) == lease = i

Renew(i) ==
  /\ Quiet /\ pc[i] = "lease" /\ leader[i]
  /\ IF Renews(i) THEN Goto(i, "flush?") /\ UNCHANGED leader
     ELSE leader' = [leader EXCEPT ![i] = FALSE] /\ UNCHANGED pc
  /\ UNCHANGED <<env, store, redis, doc, kept, queue, room_, clocks, ret, taken, shot, history>>

\* A follower campaigns if its document matters here.
Campaign(i) ==
  /\ Quiet /\ pc[i] = "lease" /\ ~leader[i]
  /\ Goto(i, "flush?")
  /\ IF (conn[i] \/ Buffered(i)) /\ Free(i) THEN Lead(i) ELSE UNCHANGED <<lease, leader, bus>>
  /\ UNCHANGED <<env, store, inbox, doc, local, queue, room_, clocks, ret, taken, shot, history>>

\* Redis does not answer: the tick goes on as if nothing had changed.
LeaseCallFails(i) ==
  /\ "redis" \in env /\ Quiet /\ pc[i] = "lease"
  /\ Goto(i, "flush?")
  /\ UNCHANGED <<env, store, redis, doc, kept, queue, leader, room_, clocks, ret, taken, shot, history>>

\* The key expires.  A holder that renews in time loses it only if it is gone.
LeaseExpires ==
  /\ Quiet /\ lease # Nobody
  /\ \/ ~leader[lease]
     \/ "lapse" \in env /\ pc[lease] = "idle"
     \/ "stall" \in env
  /\ lease' = Nobody
  /\ UNCHANGED <<env, store, inbox, doc, kept, queue, leader, room_, clocks, tick, history>>

-----------------------------------------------------------------------------
(* Writing: flushUpdates and writeSnapshot, by the leader only.            *)

\* The tick asks in turn whether a flush, a compaction and an eviction are due;
\* where the clock says no it goes on to the next question.
Decides == {"flush?", "snapshot?", "evict?"}

\* Start to insert the buffer as one row, and come back to "next".
StartFlush(i, next) ==
  /\ taken' = [taken EXCEPT ![i] = [local |-> local[i], bus |-> bus[i]]]
  /\ local' = [local EXCEPT ![i] = <<>>]
  /\ bus' = [bus EXCEPT ![i] = {}]
  /\ Goto(i, "create")
  /\ ret' = [ret EXCEPT ![i] = next]

\* Encode the document now; the snapshot is recorded when S3 has answered.
Capture(i, next) ==
  /\ shot' = [shot EXCEPT ![i] = doc[i]]
  /\ Goto(i, "record")
  /\ ret' = [ret EXCEPT ![i] = next]

TakenEdits(i) == (UNION Range(taken[i].local)) \cup taken[i].bus

FlushDue(i) ==
  /\ pc[i] = "flush?" /\ leader[i] /\ Buffered(i) /\ nextRow <= LastRow
  /\ StartFlush(i, "snapshot?")
  /\ UNCHANGED <<env, store, redis, doc, queue, leader, room_, clocks, shot, history>>

SnapshotDue(i) ==
  /\ pc[i] \in {"flush?", "snapshot?"} /\ room[i] = "warm" /\ leader[i] /\ awaiting[i]
  /\ IF Buffered(i)
     THEN nextRow <= LastRow /\ StartFlush(i, "capture") /\ UNCHANGED shot
     ELSE Capture(i, "evict?") /\ UNCHANGED <<kept, taken>>
  /\ UNCHANGED <<env, store, redis, doc, queue, leader, room_, clocks, history>>

\* The clocks announced as stored are those of the document as it is now.
Announced(i) == Visible(doc[i])

CreateOk(i) ==
  /\ Quiet /\ pc[i] = "create" /\ nextRow <= LastRow
  /\ rows' = rows \cup {[id |-> nextRow, upd |-> TakenEdits(i)]}
  /\ nextRow' = nextRow + 1
  /\ persistedUpTo' = [persistedUpTo EXCEPT ![i] = nextRow]
  /\ awaiting' = [awaiting EXCEPT ![i] = TRUE]
  /\ inbox' = Published(inbox, i, [kind |-> "persisted", upd |-> Announced(i), from |-> i])
  /\ taken' = [taken EXCEPT ![i] = NoEntries]
  /\ CASE ret[i] = "capture" -> Capture(i, "evict?")
       [] ret[i] = "captureLast" -> Capture(i, "rest")
       [] OTHER -> GoBack(i) /\ UNCHANGED shot
  /\ UNCHANGED <<env, snap, lease, doc, kept, queue, leader, room_, history>>

CreateFailsDrops(i) ==   \* mutant: the entries are not put back
  /\ "db" \in env /\ Quiet /\ pc[i] = "create"
  /\ taken' = [taken EXCEPT ![i] = NoEntries]
  /\ Goto(i, "idle")
  /\ UNCHANGED <<env, store, redis, doc, kept, queue, leader, room_, clocks, ret, shot, history>>
\* The entries go back before those buffered meanwhile.  A failing compaction
\* does not stop an eviction; a failing flush does.
CreateFails(i) ==
  /\ "db" \in env /\ Quiet /\ pc[i] = "create"
  /\ local' = [local EXCEPT ![i] = taken[i].local \o @]
  /\ bus' = [bus EXCEPT ![i] = taken[i].bus \cup @]
  /\ taken' = [taken EXCEPT ![i] = NoEntries]
  /\ Goto(i, CASE ret[i] \in {"snapshot?", "capture"} -> "evict?"
                [] ret[i] = "captureLast" -> "rest"
                [] OTHER -> "idle")
  /\ ret' = [ret EXCEPT ![i] = "lease"]
  /\ UNCHANGED <<env, store, redis, doc, queue, leader, room_, clocks, shot, history>>

\* The snapshot is recorded with the last row this instance has written.
RecordOk(i) ==
  /\ Quiet /\ pc[i] = "record"
  /\ snap' = [upd |-> shot[i], upTo |-> persistedUpTo[i]]
  /\ awaiting' = [awaiting EXCEPT ![i] = FALSE]
  /\ shot' = [shot EXCEPT ![i] = {}]
  /\ GoBack(i)
  /\ UNCHANGED <<env, rows, nextRow, redis, doc, kept, queue, leader, room_, persistedUpTo,
                 taken, history>>

RecordFails(i) ==
  /\ "s3" \in env /\ Quiet /\ pc[i] = "record"
  /\ shot' = [shot EXCEPT ![i] = {}]
  /\ GoBack(i)
  /\ UNCHANGED <<env, store, redis, doc, kept, queue, leader, room_, clocks, taken, history>>

-----------------------------------------------------------------------------
(* Leaving memory: eviction of an idle room, or shutdown.                  *)

StayWarm(i) ==
  /\ pc[i] \in Decides
  /\ Goto(i, "idle")
  /\ UNCHANGED <<env, store, redis, doc, kept, queue, leader, room_, clocks, ret, taken, shot, history>>

\* A follower with edits of its own that nobody confirmed must write them itself.
Unconfirmed(i) == ~leader[i] /\ (local[i] # <<>> \/ pending[i] # <<>>)

EvictIdle(i) ==
  /\ pc[i] \in Decides /\ room[i] = "warm" /\ ~conn[i] /\ MayLeave(i)
  /\ Goto(i, IF Unconfirmed(i) THEN "takeover" ELSE "evict")
  /\ UNCHANGED <<env, store, redis, doc, kept, queue, leader, room_, clocks, ret, taken, shot, history>>

Takeover(i) ==
  /\ Quiet /\ pc[i] = "takeover"
  /\ IF Free(i)
     THEN Lead(i) /\ StartDrain(i, "takeoverFlush")
     ELSE Goto(i, "idle") /\ UNCHANGED <<lease, leader, bus, ret, publishing>>
  /\ UNCHANGED <<env, store, inbox, doc, local, pending, room_, clocks, taken, shot, history>>

\* onModuleDestroy evicts every room, idle or not; its sockets are closed.
Shutdown(i) ==
  /\ "shutdown" \in env /\ Quiet /\ room[i] = "warm" /\ pc[i] = "idle" /\ MayLeave(i)
  /\ Goto(i, "evict")
  /\ conn' = [conn EXCEPT ![i] = FALSE]
  /\ UNCHANGED <<env, store, redis, doc, kept, queue, leader, room, asks, opened, clocks,
                 ret, taken, shot, history>>

\* evict, persistAllForEviction: a leader publishes and writes all it has.
Evict(i) ==
  /\ pc[i] = "evict"
  /\ IF leader[i] THEN StartDrain(i, "persist")
     ELSE Goto(i, "unsubscribe") /\ UNCHANGED <<ret, publishing>>
  /\ UNCHANGED <<env, store, redis, doc, kept, pending, leader, room_, clocks, taken, shot, history>>

\* One flushUpdates of the sequence: nothing to do without entries.
FlushStep(i, at, next) ==
  /\ pc[i] = at
  /\ IF Buffered(i) THEN StartFlush(i, next)
     ELSE Goto(i, next) /\ UNCHANGED <<kept, taken, ret>>
  /\ UNCHANGED <<env, store, redis, doc, queue, leader, room_, clocks, shot, history>>

Persist(i) ==
  \/ FlushStep(i, "takeoverFlush", "evict")
  \/ FlushStep(i, "persist", "compact?")
  \/ FlushStep(i, "rest", "release")

Compact(i) ==
  /\ pc[i] = "compact?"
  /\ IF ~awaiting[i] THEN Goto(i, "rest") /\ UNCHANGED <<kept, taken, ret, shot>>
     ELSE IF Buffered(i) THEN StartFlush(i, "captureLast") /\ UNCHANGED shot
     ELSE Capture(i, "rest") /\ UNCHANGED <<kept, taken>>
  /\ UNCHANGED <<env, store, redis, doc, queue, leader, room_, clocks, history>>

\* The key is deleted if it is still this instance's.
Release(i) ==
  /\ Quiet /\ pc[i] = "release"
  /\ lease' = IF lease = i THEN Nobody ELSE lease
  /\ leader' = [leader EXCEPT ![i] = FALSE]
  /\ Goto(i, "unsubscribe")
  /\ UNCHANGED <<env, store, inbox, doc, kept, queue, room_, clocks, ret, taken, shot, history>>

\* What remains of an instance when its room is gone.
Gone(i) ==
  /\ room' = [room EXCEPT ![i] = "none"]
  /\ doc' = [doc EXCEPT ![i] = {}]
  /\ local' = [local EXCEPT ![i] = <<>>]
  /\ bus' = [bus EXCEPT ![i] = {}]
  /\ pending' = [pending EXCEPT ![i] = <<>>]
  /\ publishing' = [publishing EXCEPT ![i] = FALSE]
  /\ leader' = [leader EXCEPT ![i] = FALSE]
  /\ persistedUpTo' = [persistedUpTo EXCEPT ![i] = 0]
  /\ awaiting' = [awaiting EXCEPT ![i] = FALSE]
  /\ asks' = [asks EXCEPT ![i] = 0]
  /\ conn' = [conn EXCEPT ![i] = FALSE]
  /\ inbox' = [inbox EXCEPT ![i] = <<>>]
  /\ taken' = [taken EXCEPT ![i] = NoEntries]
  /\ shot' = [shot EXCEPT ![i] = {}]
  /\ pc' = [pc EXCEPT ![i] = "idle"]
  /\ ret' = [ret EXCEPT ![i] = "lease"]

Unsubscribe(i) ==
  /\ Quiet /\ pc[i] = "unsubscribe"
  /\ Gone(i)
  /\ UNCHANGED <<env, store, lease, opened, history>>

\* Only what the process had accepted and not stored is excused.
Crash(i) ==
  /\ "crash" \in env /\ Quiet /\ Live(i)
  /\ Gone(i)
  /\ owed' = owed \ {e \in Edits : acceptedBy[e] = i /\ e \notin Reconstruct}
  /\ UNCHANGED <<env, store, lease, opened, acceptedBy>>

-----------------------------------------------------------------------------
Internal(i) ==
  \/ Load(i) \/ PublishOk(i) \/ CatchUp(i)
  \/ OnUpdate(i) \/ OnSyncStep1(i) \/ OnPersisted(i)
  \/ TickStart(i) \/ Renew(i) \/ Campaign(i)
  \/ FlushDue(i) \/ SnapshotDue(i)
  \/ CreateOk(i) \/ RecordOk(i)
  \/ StayWarm(i) \/ EvictIdle(i) \/ Takeover(i)
  \/ Evict(i) \/ Persist(i) \/ Compact(i) \/ Release(i) \/ Unsubscribe(i)

Fault(i) ==
  \/ PublishFails(i) \/ LoseFrame(i) \/ LeaseCallFails(i)
  \/ CreateFails(i) \/ RecordFails(i) \/ Crash(i)

Client(i) ==
  \/ Open(i) \/ Connect(i) \/ Disconnect(i) \/ TryBecomeLeader(i) \/ Shutdown(i)
  \/ \E e \in Edits : Edit(i, e)

Next == LeaseExpires \/ \E i \in Instances : Internal(i) \/ Fault(i) \/ Client(i)

Spec == Init /\ [][Next]_vars

\* setInterval runs the ticks, and each of a tick's awaited calls returns.
Ticking(i) ==
  \/ TickStart(i) \/ Renew(i) \/ Campaign(i) \/ StayWarm(i) \/ Takeover(i) \/ Evict(i)
  \/ Persist(i) \/ Compact(i) \/ RecordOk(i) \/ Release(i) \/ Unsubscribe(i)

\* What happens only a bounded number of times: to be fair to all of it together
\* is to be fair to each.  A call that is retried for ever is not rejected for
\* ever, Redis delivers, and drops a lease after its TTL.
Progress ==
  \/ LeaseExpires
  \/ \E i \in Instances : \/ Load(i) \/ CatchUp(i) \/ PublishOk(i) \/ CreateOk(i)
                          \/ OnUpdate(i) \/ OnSyncStep1(i) \/ OnPersisted(i)

\* A flush falls due when the buffer is old enough, whatever else the tick has to
\* do.  (Strong fairness: what runs between two awaits, of either instance, is
\* not interleaved with these.)  Nothing makes a client act or a room go idle.
Fairness ==
  /\ SF_vars(Progress)
  /\ SF_vars(\E i \in Instances : FlushDue(i))
  /\ \A i \in Instances : SF_vars(Ticking(i))

FairSpec == Spec /\ Fairness

-----------------------------------------------------------------------------
(* Properties.                                                             *)

\* What is in the buffers of i, or taken from them to be written; and what is
\* under way to i.
Buffers(i) == (UNION Range(local[i])) \cup bus[i] \cup TakenEdits(i)
Arriving(i) ==
  UNION {f.upd : f \in {g \in Range(inbox[i]) : g.kind \in {"doc-update", "sync-step2"}}}
\* Edits that instance i still intends to have written.
Keeps(i) == Buffers(i) \cup Range(pending[i]) \cup Arriving(i)

\* Frames arrive, and the lease changes hands only when its holder lets go.  With
\* a third backend no update waits long to be published: a room opened meanwhile
\* learns of it from its author alone, writes it, and leaves, and who leads then
\* would not have it (README, section 4).
Settled ==
  /\ {"lost", "crash", "lapse", "stall", "redis", "shutdown", "busy"} \cap env = {}
  /\ "outage" \in env => \E i, j \in Instances : Instances = {i, j}

\* An accepted edit is stored, or some room still holds it for writing, however
\* publishing and writing fail, followers drop confirmed entries, take over and
\* leave memory (onLeaderPersisted, flushUpdates, tick, evict).
StoredOrKept == Settled =>
  \A e \in owed : e \in Reconstruct \/ \E i \in Instances : e \in Keeps(i)

\* The newest snapshot includes every row it makes a load skip: what
\* FileSnapshot.lastUpdateId says of the one writeSnapshot records.
SnapshotStandsForItsRows == \A r \in rows : r.id <= snap.upTo => r.upd \subseteq snap.upd

\* So it is when frames arrive and leases hold, whichever backend wrote the
\* rows and whichever compacts them (setLeader, applyBusUpdate, writeSnapshot).
SnapshotIncludesItsRows == Settled => SnapshotStandsForItsRows

\* The lease outlives the tick it was renewed in, and its calls are answered.
LeaseHolds == {"stall", "redis", "shutdown"} \cap env = {}

\* Two backends never write the same document at a time (flush, compaction).
Writing(i) == pc[i] \in {"create", "record"}
OneWriter == LeaseHolds => \A i, j \in Instances : Writing(i) /\ Writing(j) => i = j

\* What a follower drops is covered by the vector it was sent (onLeaderPersisted),
\* when edits do not build on one another.
DroppedOnlyIfCovered ==
  [][\A i \in Instances : OnPersisted(i) =>
       ((UNION Range(local[i])) \ (UNION Range(local'[i]))) \subseteq Head(inbox[i]).upd]_vars

\* Every accepted edit is in the end stored and shown by every room there is,
\* through retried publishing, catching up, takeovers and evictions.
EventuallyEverywhere == \A e \in Edits :
  (e \in owed) ~> \/ e \notin owed
                  \/ e \in Reconstruct /\ \A i \in Instances : room[i] = "warm" => e \in doc[i]

=============================================================================
