-------------------------- MODULE RoomPersistence --------------------------
(***************************************************************************)
(* The life of one document in one backend: the room that the RoomManager  *)
(* keeps for it, the periodic tick that flushes, compacts and evicts it,   *)
(* and the Postgres rows and S3 objects it leaves behind.  This is the     *)
(* COLLAB_BUS=local deployment, in which a room leads from birth.          *)
(*                                                                         *)
(* Yjs updates commute and are idempotent, so a Y.Doc, a merged update and *)
(* a full encoded state are each the set of client edits they contain.     *)
(*                                                                         *)
(* The backend is one JavaScript thread: code runs until it awaits.  The   *)
(* program counter of a tick names either the call it awaits (WaitPC) or   *)
(* the code it is about to run (RunPC); while some tick is at a RunPC      *)
(* nothing else may run (Quiet).                                           *)
(***************************************************************************)
EXTENDS Naturals, FiniteSets

CONSTANTS
  Edits,         \* client edits (one per Yjs update)
  Clients,       \* websockets
  Rooms,         \* Room objects (incarnations of the document's room)
  Ticks,         \* tick activations that can be under way at once
  HistoryLimit,  \* FILE_HISTORY_LIMIT
  Env,           \* what may go wrong, see EnvEvents
  MaxRow,        \* bound: DocumentUpdate ids
  MaxVersion,    \* bound: snapshot versions
  NoRoom

(* The events outside the normal course that a run can switch on:          *)
(*   crash         the process dies and restarts                           *)
(*   db, s3        a call to Postgres, a write to object storage fails     *)
(*   lostReply     a write to Postgres commits but is reported as failed   *)
(*   loadFails     a read fails while a room loads                         *)
(*   someLost      objects cannot be read while a room loads, but one of   *)
(*                 the HistoryLimit newest can                             *)
(*   objectLoss    objects cannot be read while a room loads, any or all   *)
(*   overlap       setInterval starts a tick while one is under way        *)
(*   joinLoading   a client connects while the room is still loading       *)
(*   joinFailed    a client connects to a room whose load failed           *)
(*   joinEvicting  a client connects while the room is being evicted       *)
(*   closeLoading  a socket closes while it waits for the room to load     *)
EnvEvents == {"crash", "db", "s3", "lostReply", "loadFails", "someLost", "objectLoss",
              "overlap", "joinLoading", "joinFailed", "joinEvicting", "closeLoading"}

ASSUME EnvAssumption == Env \subseteq EnvEvents
ASSUME LimitAssumption == HistoryLimit \in Nat \ {0}
ASSUME BoundAssumption == MaxRow \in Nat /\ MaxVersion \in Nat
ASSUME NoRoomAssumption == NoRoom \notin Rooms

VARIABLES
  \* Postgres and S3
  rows,      \* DocumentUpdate rows: [id, upd]
  nextRow,   \* next autoincrement id
  snaps,     \* FileSnapshot rows: [version, key, upTo]
  objects,   \* S3 objects: [key, upd]
  \* RoomManager.rooms and the Room objects
  current,   \* rooms.get(documentId)
  phase, destroyed, doc, buffer, flushing, awaiting, persistedUpTo, base,
  \* websockets
  conn,      \* the room a socket is registered in
  joining,   \* the room a socket waits for in getOrCreate
  dead,      \* closed sockets whose close event nobody was listening for
  \* tick activations
  pc, on, entries, ret, back, shot,
  \* history: edits applied to a room, and those not excused by a crash
  accepted, owed

store == <<rows, nextRow, snaps, objects>>
room == <<current, phase, destroyed, doc, buffer, flushing, awaiting, persistedUpTo, base>>
sockets == <<conn, joining, dead>>
tick == <<pc, on, entries, ret, back, shot>>
history == <<accepted, owed>>
vars == <<store, room, sockets, tick, history>>

RunPC == {"flush?", "snapshot?", "write", "evict?", "compact?", "rest?", "destroy"}
WaitPC == {"create", "prev", "put", "verify", "record", "prune", "expire"}
Keys == (0 .. MaxVersion) \X Ticks
NoShot == [upd |-> {}, version |-> 0, upTo |-> 0]
NoBase == [upTo |-> 0, found |-> FALSE, listed |-> FALSE]

TypeOK ==
  /\ rows \subseteq [id : 1 .. MaxRow, upd : SUBSET Edits]
  /\ nextRow \in 1 .. (MaxRow + 1)
  /\ snaps \subseteq [version : 0 .. MaxVersion, key : Keys, upTo : 0 .. MaxRow]
  /\ objects \subseteq [key : Keys, upd : SUBSET Edits]
  /\ current \in Rooms \cup {NoRoom}
  /\ phase \in [Rooms -> {"unused", "loading", "tail", "warm", "failed"}]
  /\ destroyed \subseteq Rooms
  /\ doc \in [Rooms -> SUBSET Edits]
  /\ buffer \in [Rooms -> SUBSET Edits]
  /\ flushing \in [Rooms -> BOOLEAN]
  /\ awaiting \in [Rooms -> BOOLEAN]
  /\ persistedUpTo \in [Rooms -> 0 .. MaxRow]
  /\ base \in [Rooms -> [upTo : 0 .. MaxRow, found : BOOLEAN, listed : BOOLEAN]]
  /\ conn \in [Clients -> Rooms \cup {NoRoom}]
  /\ joining \in [Clients -> Rooms \cup {NoRoom}]
  /\ dead \subseteq Clients
  /\ pc \in [Ticks -> RunPC \cup WaitPC \cup {"idle"}]
  /\ on \in [Ticks -> Rooms \cup {NoRoom}]
  /\ \A t \in Ticks : pc[t] # "idle" => on[t] \in Rooms
  /\ entries \in [Ticks -> SUBSET Edits]
  /\ ret \in [Ticks -> {"snapshot?", "write", "compact?", "destroy"}]
  /\ back \in [Ticks -> {"evict?", "rest?"}]
  /\ shot \in [Ticks -> [upd : SUBSET Edits, version : 0 .. MaxVersion, upTo : 0 .. MaxRow]]
  /\ accepted \subseteq Edits
  /\ owed \subseteq accepted

-----------------------------------------------------------------------------
(* What storage holds, and what a load makes of it.                        *)

EditsOf(S) == UNION {x.upd : x \in S}
Content(k) == EditsOf({o \in objects : o.key = k})
TailSkipsOne(upTo) == {r \in rows : r.id > upTo + 1}   \* mutant: off by one
Tail(upTo) == {r \in rows : r.id > upTo}
Rebuild(s) == Content(s.key) \cup EditsOf(Tail(s.upTo))
IsNewest(s, S) == s \in S /\ \A x \in S : x.version <= s.version

\* The versions within the history limit, and those with an object.
Newest == {s \in snaps : \A x \in snaps : x.version < s.version + HistoryLimit}
Readable == {s \in snaps : \E o \in objects : o.key = s.key}

\* The document a load rebuilds when it can read every object.
Reconstruct ==
  IF Readable = {}
  THEN EditsOf(rows)
  ELSE UNION {Rebuild(s) : s \in {x \in Readable : IsNewest(x, Readable)}}

\* Edits that are in memory only, but that a flush will still write.
Leads(r) == r \notin destroyed
Buffered == UNION {buffer[r] : r \in {x \in Rooms : Leads(x)}}
BeingWritten == UNION {entries[t] : t \in Ticks}
Pending == Buffered \cup BeingWritten

Quiet == \A t \in Ticks : pc[t] \notin RunPC
Connected(r) == \E c \in Clients : conn[c] = r

\* t is inside persistAllForEviction or about to destroy its room.
Evicting(t) ==
  \/ pc[t] \in {"compact?", "rest?", "destroy"}
  \/ pc[t] = "create" /\ ret[t] \in {"compact?", "destroy"}
  \/ pc[t] = "create" /\ ret[t] = "write" /\ back[t] = "rest?"
  \/ pc[t] \in ({"write"} \cup WaitPC) \ {"create"} /\ back[t] = "rest?"

Referenced(r) ==
  \/ current = r
  \/ \E c \in Clients : r \in {conn[c], joining[c]}
  \/ \E t \in Ticks : on[t] = r

Init ==
  /\ rows = {} /\ nextRow = 1 /\ snaps = {} /\ objects = {}
  /\ current = NoRoom
  /\ phase = [r \in Rooms |-> "unused"]
  /\ destroyed = {}
  /\ doc = [r \in Rooms |-> {}]
  /\ buffer = [r \in Rooms |-> {}]
  /\ flushing = [r \in Rooms |-> FALSE]
  /\ awaiting = [r \in Rooms |-> FALSE]
  /\ persistedUpTo = [r \in Rooms |-> 0]
  /\ base = [r \in Rooms |-> NoBase]
  /\ conn = [c \in Clients |-> NoRoom]
  /\ joining = [c \in Clients |-> NoRoom]
  /\ dead = {}
  /\ pc = [t \in Ticks |-> "idle"]
  /\ on = [t \in Ticks |-> NoRoom]
  /\ entries = [t \in Ticks |-> {}]
  /\ ret = [t \in Ticks |-> "snapshot?"]
  /\ back = [t \in Ticks |-> "evict?"]
  /\ shot = [t \in Ticks |-> NoShot]
  /\ accepted = {} /\ owed = {}

-----------------------------------------------------------------------------
(* Websockets: RoomManager.getOrCreate, Room.ensureLoaded, the gateway.     *)

\* The room exists: getOrCreate returns it whatever state it is in.
Connect(c) ==
  /\ Quiet /\ conn[c] = NoRoom /\ joining[c] = NoRoom /\ current # NoRoom
  /\ phase[current] \in {"loading", "tail"} => "joinLoading" \in Env
  /\ phase[current] = "failed" => "joinFailed" \in Env
  /\ (\E t \in Ticks : on[t] = current /\ Evicting(t)) => "joinEvicting" \in Env
  /\ conn' = [conn EXCEPT ![c] = current]
  /\ UNCHANGED <<store, room, joining, dead, tick, history>>

\* No room: the first client creates it, puts it in the map and loads it.
CreateRoom(c, r) ==
  /\ Quiet /\ conn[c] = NoRoom /\ joining[c] = NoRoom
  /\ current = NoRoom /\ ~Referenced(r)
  /\ current' = r
  /\ phase' = [phase EXCEPT ![r] = "loading"]
  /\ destroyed' = destroyed \ {r}
  /\ doc' = [doc EXCEPT ![r] = {}]
  /\ buffer' = [buffer EXCEPT ![r] = {}]
  /\ flushing' = [flushing EXCEPT ![r] = FALSE]
  /\ awaiting' = [awaiting EXCEPT ![r] = FALSE]
  /\ persistedUpTo' = [persistedUpTo EXCEPT ![r] = 0]
  /\ base' = [base EXCEPT ![r] = NoBase]
  /\ joining' = [joining EXCEPT ![c] = r]
  /\ UNCHANGED <<store, conn, dead, tick, history>>

\* The objects that the reads of one load may find.
ReadableNow ==
  {Readable}
    \cup (IF "objectLoss" \in Env THEN SUBSET Readable ELSE {})
    \cup (IF "someLost" \in Env THEN {R \in SUBSET Readable : R \cap Newest # {}} ELSE {})

\* The newest snapshot whose object can be read becomes the base.
LoadBase(c) ==
  LET r == joining[c] IN
  /\ Quiet /\ r # NoRoom /\ phase[r] = "loading"
  /\ \E readable \in ReadableNow :
       \/ /\ readable = {}
          /\ base' = [base EXCEPT ![r] = [upTo |-> 0, found |-> FALSE, listed |-> snaps # {}]]
          /\ UNCHANGED doc
       \/ \E s \in readable :
            /\ IsNewest(s, readable)
            /\ base' = [base EXCEPT ![r] = [upTo |-> s.upTo, found |-> TRUE, listed |-> TRUE]]
            /\ doc' = [doc EXCEPT ![r] = @ \cup Content(s.key)]
  /\ phase' = [phase EXCEPT ![r] = "tail"]
  /\ UNCHANGED <<store, current, destroyed, buffer, flushing, awaiting, persistedUpTo, sockets, tick, history>>

\* The tail after the base is replayed; the waiting socket is registered.
Unrecoverable(r) == base[r].listed /\ ~base[r].found /\ rows = {}

\* Mutant: the tail after the newest snapshot, not after the one that was read.
LoadTailOfNewest(c) ==
  LET r == joining[c]
      tail == {x \in rows : \A s \in snaps : x.id > s.upTo} IN
  /\ Quiet /\ r # NoRoom /\ phase[r] = "tail" /\ ~Unrecoverable(r)
  /\ doc' = [doc EXCEPT ![r] = @ \cup EditsOf(tail)]
  /\ phase' = [phase EXCEPT ![r] = "warm"]
  /\ joining' = [joining EXCEPT ![c] = NoRoom]
  /\ conn' = [conn EXCEPT ![c] = r]
  /\ UNCHANGED <<store, current, destroyed, buffer, flushing, awaiting, persistedUpTo, base, dead, tick, history>>

LoadTail(c) ==
  LET r == joining[c]
      tail == Tail(base[r].upTo) IN
  /\ Quiet /\ r # NoRoom /\ phase[r] = "tail" /\ ~Unrecoverable(r)
  /\ doc' = [doc EXCEPT ![r] = @ \cup EditsOf(tail)]
  /\ \E n \in 0 .. MaxRow :
       /\ IF tail = {} THEN n = base[r].upTo
          ELSE (\E x \in tail : x.id = n) /\ \A x \in tail : x.id <= n
       /\ persistedUpTo' = [persistedUpTo EXCEPT ![r] = n]
  /\ phase' = [phase EXCEPT ![r] = "warm"]
  /\ joining' = [joining EXCEPT ![c] = NoRoom]
  /\ conn' = [conn EXCEPT ![c] = r]
  /\ UNCHANGED <<store, current, destroyed, buffer, flushing, awaiting, base, dead, tick, history>>

\* The load throws: the joiner is closed, the room stays in the map.
LoadFails(c) ==
  LET r == joining[c] IN
  /\ Quiet /\ r # NoRoom
  /\ \/ phase[r] \in {"loading", "tail"} /\ "loadFails" \in Env
     \/ phase[r] = "tail" /\ Unrecoverable(r)
  /\ phase' = [phase EXCEPT ![r] = "failed"]
  /\ joining' = [joining EXCEPT ![c] = NoRoom]
  /\ dead' = dead \ {c}
  /\ UNCHANGED <<store, current, destroyed, doc, buffer, flushing, awaiting, persistedUpTo, base, conn, tick, history>>

\* An edit reaches the room a socket is registered in.  doc.destroy() has
\* removed the update listener of a destroyed room, so nothing is buffered.
Edit(c, e) ==
  LET r == conn[c] IN
  /\ Quiet /\ r # NoRoom /\ c \notin dead /\ e \notin accepted
  /\ doc' = [doc EXCEPT ![r] = @ \cup {e}]
  /\ buffer' = [buffer EXCEPT ![r] = IF Leads(r) THEN @ \cup {e} ELSE @]
  /\ accepted' = accepted \cup {e}
  /\ owed' = owed \cup {e}
  /\ UNCHANGED <<store, current, phase, destroyed, flushing, awaiting, persistedUpTo, base, sockets, tick>>

Disconnect(c) ==
  /\ Quiet /\ conn[c] # NoRoom /\ c \notin dead
  /\ conn' = [conn EXCEPT ![c] = NoRoom]
  /\ UNCHANGED <<store, room, joining, dead, tick, history>>

\* The close event fires before onConnection has attached its handler.
CloseWhileLoading(c) ==
  /\ Quiet /\ joining[c] # NoRoom /\ c \notin dead /\ "closeLoading" \in Env
  /\ dead' = dead \cup {c}
  /\ UNCHANGED <<store, room, conn, joining, tick, history>>

-----------------------------------------------------------------------------
(* RoomManager.tick: flush, compact, evict.                                *)

Goto(t, r, p) ==
  /\ pc' = [pc EXCEPT ![t] = p]
  /\ on' = [on EXCEPT ![t] = IF p = "idle" THEN NoRoom ELSE r]

\* Mutant: the buffer is not emptied when its entries are taken.
FlushKeepsBuffer(t, r, next) ==
  \/ /\ Leads(r) /\ ~flushing[r] /\ buffer[r] # {}
     /\ entries' = [entries EXCEPT ![t] = buffer[r]]
     /\ flushing' = [flushing EXCEPT ![r] = TRUE]
     /\ ret' = [ret EXCEPT ![t] = next]
     /\ Goto(t, r, "create") /\ UNCHANGED buffer
  \/ /\ ~Leads(r) \/ flushing[r] \/ buffer[r] = {}
     /\ Goto(t, r, next) /\ UNCHANGED <<entries, buffer, flushing, ret>>

\* flushUpdates up to its await; a call with nothing to do goes on to next.
FlushUpdates(t, r, next) ==
  \/ /\ Leads(r) /\ ~flushing[r] /\ buffer[r] # {}
     /\ entries' = [entries EXCEPT ![t] = buffer[r]]
     /\ buffer' = [buffer EXCEPT ![r] = {}]
     /\ flushing' = [flushing EXCEPT ![r] = TRUE]
     /\ ret' = [ret EXCEPT ![t] = next]
     /\ Goto(t, r, "create")
  \/ /\ ~Leads(r) \/ flushing[r] \/ buffer[r] = {}
     /\ Goto(t, r, next)
     /\ UNCHANGED <<entries, buffer, flushing, ret>>

\* maybeSnapshot past its checks: flush what is buffered, then write.
MaybeSnapshot(t, r, after) ==
  /\ back' = [back EXCEPT ![t] = after]
  /\ FlushUpdates(t, r, "write")

\* Mutant: only a loaded room is ever due.
WarmMayBeDue(r) == phase[r] = "warm"

\* A room under load is younger than every interval: nothing of it is due.
MayBeDue(r) == phase[r] \notin {"loading", "tail"}

\* Mutant: the tick does not look whether the map still holds a room.
TickStartBlind(t) ==
  /\ Quiet /\ pc[t] = "idle" /\ \A u \in Ticks : pc[u] = "idle"
  /\ Goto(t, current, "flush?")
  /\ UNCHANGED <<store, room, sockets, entries, ret, back, shot, history>>

TickStart(t) ==
  /\ Quiet /\ pc[t] = "idle" /\ current # NoRoom
  /\ "overlap" \in Env \/ \A u \in Ticks : pc[u] = "idle"
  /\ Goto(t, current, "flush?")
  /\ UNCHANGED <<store, room, sockets, entries, ret, back, shot, history>>

FlushDue(t) ==
  /\ pc[t] = "flush?" /\ MayBeDue(on[t]) /\ Leads(on[t]) /\ buffer[on[t]] # {}
  /\ FlushUpdates(t, on[t], "snapshot?")
  /\ UNCHANGED <<store, current, phase, destroyed, doc, awaiting, persistedUpTo, base, sockets, back, shot, history>>

FlushNotDue(t) ==
  /\ pc[t] = "flush?"
  /\ Goto(t, on[t], "snapshot?")
  /\ UNCHANGED <<store, room, sockets, entries, ret, back, shot, history>>

SnapshotDue(t) ==
  /\ pc[t] = "snapshot?" /\ MayBeDue(on[t]) /\ Leads(on[t]) /\ awaiting[on[t]]
  /\ MaybeSnapshot(t, on[t], "evict?")
  /\ UNCHANGED <<store, current, phase, destroyed, doc, awaiting, persistedUpTo, base, sockets, shot, history>>

SnapshotNotDue(t) ==
  /\ pc[t] = "snapshot?"
  /\ Goto(t, on[t], "evict?")
  /\ UNCHANGED <<store, room, sockets, entries, ret, back, shot, history>>

\* prisma.documentUpdate.create returned.
CreateOk(t) ==
  LET r == on[t] IN
  /\ Quiet /\ pc[t] = "create" /\ nextRow <= MaxRow
  /\ rows' = rows \cup {[id |-> nextRow, upd |-> entries[t]]}
  /\ nextRow' = nextRow + 1
  /\ persistedUpTo' = [persistedUpTo EXCEPT ![r] = nextRow]
  /\ awaiting' = [awaiting EXCEPT ![r] = TRUE]
  /\ flushing' = [flushing EXCEPT ![r] = FALSE]
  /\ entries' = [entries EXCEPT ![t] = {}]
  /\ Goto(t, r, ret[t])
  /\ UNCHANGED <<snaps, objects, current, phase, destroyed, doc, buffer, base, sockets, ret, back, shot, history>>

\* Mutants: the entries of a failed write are dropped; flushing stays set.
CreateFailsDrops(t) ==
  /\ Quiet /\ pc[t] = "create" /\ "db" \in Env
  /\ flushing' = [flushing EXCEPT ![on[t]] = FALSE]
  /\ entries' = [entries EXCEPT ![t] = {}]
  /\ Goto(t, on[t], "idle")
  /\ UNCHANGED <<store, current, phase, destroyed, doc, buffer, awaiting, persistedUpTo, base, sockets,
                 ret, back, shot, history>>

CreateFailsSticks(t) ==
  /\ Quiet /\ pc[t] = "create" /\ "db" \in Env
  /\ buffer' = [buffer EXCEPT ![on[t]] = entries[t] \cup @]
  /\ entries' = [entries EXCEPT ![t] = {}]
  /\ Goto(t, on[t], "idle")
  /\ UNCHANGED <<store, current, phase, destroyed, doc, flushing, awaiting, persistedUpTo, base, sockets,
                 ret, back, shot, history>>

\* Mutant: an eviction goes on after its flush has failed.
CreateFailsSwallowed(t) ==
  LET r == on[t] IN
  /\ Quiet /\ pc[t] = "create" /\ "db" \in Env
  /\ buffer' = [buffer EXCEPT ![r] = entries[t] \cup @]
  /\ flushing' = [flushing EXCEPT ![r] = FALSE]
  /\ entries' = [entries EXCEPT ![t] = {}]
  /\ Goto(t, r, ret[t])
  /\ UNCHANGED <<store, current, phase, destroyed, doc, awaiting, persistedUpTo, base, sockets,
                 ret, back, shot, history>>

\* It threw: the entries go back, and the exception ends the tick's try
\* block, the snapshot, or the eviction.
CreateFails(t) ==
  LET r == on[t] IN
  /\ Quiet /\ pc[t] = "create" /\ Env \cap {"db", "lostReply"} # {}
  /\ \/ UNCHANGED <<rows, nextRow>> /\ "db" \in Env
     \/ /\ "lostReply" \in Env /\ nextRow < MaxRow
        /\ rows' = rows \cup {[id |-> nextRow, upd |-> entries[t]]}
        /\ nextRow' = nextRow + 1
  /\ buffer' = [buffer EXCEPT ![r] = entries[t] \cup @]
  /\ flushing' = [flushing EXCEPT ![r] = FALSE]
  /\ entries' = [entries EXCEPT ![t] = {}]
  /\ \/ ret[t] = "snapshot?" /\ Goto(t, r, "evict?")
     \/ ret[t] = "write" /\ Goto(t, r, back[t])
     \/ ret[t] \in {"compact?", "destroy"} /\ Goto(t, r, "idle")
  /\ UNCHANGED <<snaps, objects, current, phase, destroyed, doc, awaiting, persistedUpTo, base, sockets,
                 ret, back, shot, history>>

-----------------------------------------------------------------------------
(* maybeSnapshot and writeSnapshot after the flush.                        *)

\* Captures the state, or returns when nothing awaits compaction.
Write(t) ==
  LET r == on[t] IN
  /\ pc[t] = "write"
  /\ IF awaiting[r]
     THEN /\ shot' = [shot EXCEPT ![t].upd = doc[r]]
          /\ Goto(t, r, "prev")
     ELSE /\ Goto(t, r, back[t])
          /\ UNCHANGED shot
  /\ UNCHANGED <<store, room, sockets, entries, ret, back, history>>

\* Mutant: versions are counted, not continued.
PrevCounts(t) ==
  /\ Quiet /\ pc[t] = "prev" /\ Cardinality(snaps) <= MaxVersion
  /\ shot' = [shot EXCEPT ![t].version = Cardinality(snaps)]
  /\ Goto(t, on[t], "put")
  /\ UNCHANGED <<store, room, sockets, entries, ret, back, history>>

\* findFirst: the version after the newest one.
PrevOk(t) ==
  /\ Quiet /\ pc[t] = "prev"
  /\ \E v \in 0 .. MaxVersion :
       /\ \/ snaps = {} /\ v = 0
          \/ \E s \in snaps : IsNewest(s, snaps) /\ v = s.version + 1
       /\ shot' = [shot EXCEPT ![t].version = v]
  /\ Goto(t, on[t], "put")
  /\ UNCHANGED <<store, room, sockets, entries, ret, back, history>>

Key(t) == <<shot[t].version, t>>

PutOk(t) ==
  /\ Quiet /\ pc[t] = "put"
  /\ objects' = {o \in objects : o.key # Key(t)} \cup {[key |-> Key(t), upd |-> shot[t].upd]}
  /\ Goto(t, on[t], "verify")
  /\ UNCHANGED <<rows, nextRow, snaps, room, sockets, entries, ret, back, shot, history>>

\* Mutant: the snapshot claims the row that comes next.
VerifyClaimsNext(t) ==
  /\ Quiet /\ pc[t] = "verify"
  /\ shot' = [shot EXCEPT ![t].upTo = nextRow]
  /\ Goto(t, on[t], "record")
  /\ UNCHANGED <<store, room, sockets, entries, ret, back, history>>

\* The object reads back; the snapshot claims the rows known by now.
VerifyOk(t) ==
  /\ Quiet /\ pc[t] = "verify"
  /\ shot' = [shot EXCEPT ![t].upTo = persistedUpTo[on[t]]]
  /\ Goto(t, on[t], "record")
  /\ UNCHANGED <<store, room, sockets, entries, ret, back, history>>

VersionTaken(t) == \E s \in snaps : s.version = shot[t].version
NewSnapshot(t) == [version |-> shot[t].version, key |-> Key(t), upTo |-> shot[t].upTo]

RecordOk(t) ==
  /\ Quiet /\ pc[t] = "record" /\ ~VersionTaken(t)
  /\ snaps' = snaps \cup {NewSnapshot(t)}
  /\ Goto(t, on[t], IF shot[t].upTo > 0 THEN "prune" ELSE "expire")
  /\ UNCHANGED <<rows, nextRow, objects, room, sockets, entries, ret, back, shot, history>>

\* A call of writeSnapshot threw; the rows still await a snapshot.
WriteFails(t) ==
  /\ Quiet
  /\ \/ pc[t] \in {"prev", "record", "expire"} /\ "db" \in Env
     \/ pc[t] \in {"put", "verify"} /\ "s3" \in Env
     \/ pc[t] = "record" /\ VersionTaken(t)
  /\ Goto(t, on[t], back[t])
  /\ shot' = [shot EXCEPT ![t] = NoShot]
  /\ UNCHANGED <<store, room, sockets, entries, ret, back, history>>

\* A write of it took effect and threw all the same.
WriteLosesReply(t) ==
  /\ Quiet /\ "lostReply" \in Env
  /\ \/ /\ pc[t] = "put"
        /\ objects' = {o \in objects : o.key # Key(t)} \cup {[key |-> Key(t), upd |-> shot[t].upd]}
        /\ UNCHANGED snaps
     \/ /\ pc[t] = "record" /\ ~VersionTaken(t) /\ shot[t].version < MaxVersion
        /\ snaps' = snaps \cup {NewSnapshot(t)}
        /\ UNCHANGED objects
  /\ Goto(t, on[t], back[t])
  /\ shot' = [shot EXCEPT ![t] = NoShot]
  /\ UNCHANGED <<rows, nextRow, room, sockets, entries, ret, back, history>>

\* The HistoryLimit newest snapshots, and where the oldest of them ends.
Newer(s) == {x \in snaps : x.version > s.version}
Kept == {s \in snaps : Cardinality(Newer(s)) < HistoryLimit}
CutoffAtThis(t, n) == n = shot[t].upTo   \* mutant: not where the oldest ends
Cutoff(t, n) ==
  \E s \in Kept :
    /\ \A x \in Kept : s.version <= x.version
    /\ n = IF s.version >= shot[t].version THEN shot[t].upTo ELSE s.upTo

\* A failure here is logged and forgotten.
Prune(t) ==
  /\ Quiet /\ pc[t] = "prune"
  /\ \/ \E n \in 0 .. MaxRow : Cutoff(t, n) /\ rows' = Tail(n)
     \/ {"db", "lostReply"} \cap Env # {} /\ UNCHANGED rows
  /\ Goto(t, on[t], "expire")
  /\ UNCHANGED <<nextRow, snaps, objects, room, sockets, entries, ret, back, shot, history>>

\* pruneOldSnapshots deletes the object, then the row, of each old version;
\* a delete that fails is skipped.
ExpiredLate(t) == {s \in snaps : s.version + HistoryLimit < shot[t].version}   \* mutant
Expired(t) == {s \in snaps : s.version + HistoryLimit < shot[t].version + 1}
HasObject(s) == \E o \in objects : o.key = s.key

DeleteObject(t) ==
  /\ Quiet /\ pc[t] = "expire"
  /\ \E s \in Expired(t) :
       /\ HasObject(s)
       /\ objects' = {o \in objects : o.key # s.key}
  /\ UNCHANGED <<rows, nextRow, snaps, room, sockets, tick, history>>

DeleteSnapshotRow(t) ==
  /\ Quiet /\ pc[t] = "expire"
  /\ \E s \in Expired(t) :
       /\ HasObject(s) => "s3" \in Env
       /\ snaps' = snaps \ {s}
  /\ UNCHANGED <<rows, nextRow, objects, room, sockets, tick, history>>

SnapshotDone(t) ==
  /\ Quiet /\ pc[t] = "expire"
  /\ Expired(t) # {} => "db" \in Env
  /\ awaiting' = [awaiting EXCEPT ![on[t]] = FALSE]
  /\ Goto(t, on[t], back[t])
  /\ shot' = [shot EXCEPT ![t] = NoShot]
  /\ UNCHANGED <<store, current, phase, destroyed, doc, buffer, flushing, persistedUpTo, base, sockets,
                 entries, ret, back, history>>

-----------------------------------------------------------------------------
(* Eviction.                                                               *)

\* Mutant: connected clients do not keep the room.
EvictServing(t) ==
  /\ pc[t] = "evict?" /\ MayBeDue(on[t]) /\ current # NoRoom
  /\ FlushUpdates(t, current, "compact?")
  /\ UNCHANGED <<store, current, phase, destroyed, doc, awaiting, persistedUpTo, base, sockets, back, shot, history>>

\* The room this pass looked at has been idle for the TTL; evict(id) takes
\* whatever room the map holds by now.
EvictIdle(t) ==
  /\ pc[t] = "evict?" /\ MayBeDue(on[t]) /\ ~Connected(on[t])
  /\ \/ /\ current = NoRoom
        /\ Goto(t, on[t], "idle")
        /\ UNCHANGED <<entries, buffer, flushing, ret>>
     \/ /\ current # NoRoom
        /\ FlushUpdates(t, current, "compact?")
  /\ UNCHANGED <<store, current, phase, destroyed, doc, awaiting, persistedUpTo, base, sockets, back, shot, history>>

StayWarm(t) ==
  /\ pc[t] = "evict?"
  /\ Goto(t, on[t], "idle")
  /\ UNCHANGED <<store, room, sockets, entries, ret, back, shot, history>>

EvictCompact(t) ==
  LET r == on[t] IN
  /\ pc[t] = "compact?"
  /\ \/ awaiting[r] /\ Leads(r) /\ MaybeSnapshot(t, r, "rest?")
     \/ /\ ~(awaiting[r] /\ Leads(r))
        /\ Goto(t, r, "rest?") /\ UNCHANGED <<entries, buffer, flushing, ret, back>>
  /\ UNCHANGED <<store, current, phase, destroyed, doc, awaiting, persistedUpTo, base, sockets, shot, history>>

EvictRest(t) ==
  /\ pc[t] = "rest?"
  /\ FlushUpdates(t, on[t], "destroy")
  /\ UNCHANGED <<store, current, phase, destroyed, doc, awaiting, persistedUpTo, base, sockets, back, shot, history>>

\* rooms.delete(id) removes whatever room the map holds.
Destroy(t) ==
  /\ pc[t] = "destroy"
  /\ destroyed' = destroyed \cup {on[t]}
  /\ current' = NoRoom
  /\ Goto(t, on[t], "idle")
  /\ UNCHANGED <<store, phase, doc, buffer, flushing, awaiting, persistedUpTo, base, sockets,
                 entries, ret, back, shot, history>>

-----------------------------------------------------------------------------
\* The process dies.  Edits no flush had written are lost with it, as the
\* documentation of PERSIST_FLUSH_MS says; they are owed no longer.
Crash ==
  /\ Quiet /\ "crash" \in Env
  /\ current' = NoRoom
  /\ phase' = [r \in Rooms |-> "unused"]
  /\ destroyed' = {}
  /\ doc' = [r \in Rooms |-> {}]
  /\ buffer' = [r \in Rooms |-> {}]
  /\ flushing' = [r \in Rooms |-> FALSE]
  /\ awaiting' = [r \in Rooms |-> FALSE]
  /\ persistedUpTo' = [r \in Rooms |-> 0]
  /\ base' = [r \in Rooms |-> NoBase]
  /\ conn' = [c \in Clients |-> NoRoom]
  /\ joining' = [c \in Clients |-> NoRoom]
  /\ dead' = {}
  /\ pc' = [t \in Ticks |-> "idle"]
  /\ on' = [t \in Ticks |-> NoRoom]
  /\ entries' = [t \in Ticks |-> {}]
  /\ ret' = [t \in Ticks |-> "snapshot?"]
  /\ back' = [t \in Ticks |-> "evict?"]
  /\ shot' = [t \in Ticks |-> NoShot]
  /\ owed' = owed \ Pending
  /\ UNCHANGED <<store, accepted>>

ClientNext == \E c \in Clients :
  \/ Connect(c) \/ (\E r \in Rooms : CreateRoom(c, r))
  \/ LoadBase(c) \/ LoadTail(c) \/ LoadFails(c)
  \/ (\E e \in Edits : Edit(c, e)) \/ Disconnect(c) \/ CloseWhileLoading(c)

TickNext == \E t \in Ticks :
  \/ TickStart(t) \/ FlushDue(t) \/ FlushNotDue(t) \/ SnapshotDue(t) \/ SnapshotNotDue(t)
  \/ CreateOk(t) \/ CreateFails(t)
  \/ Write(t) \/ PrevOk(t) \/ PutOk(t) \/ VerifyOk(t) \/ RecordOk(t)
  \/ WriteFails(t) \/ WriteLosesReply(t)
  \/ Prune(t) \/ DeleteObject(t) \/ DeleteSnapshotRow(t) \/ SnapshotDone(t)
  \/ EvictIdle(t) \/ StayWarm(t) \/ EvictCompact(t) \/ EvictRest(t) \/ Destroy(t)

Next == ClientNext \/ TickNext \/ Crash
Spec == Init /\ [][Next]_vars

-----------------------------------------------------------------------------
(* Fairness: clocks advance and ticks recur, so what is due is eventually  *)
(* found due; a call that keeps being retried eventually succeeds.         *)

Fairness ==
  /\ \A c \in Clients : WF_vars(LoadBase(c)) /\ WF_vars(LoadTail(c)) /\ WF_vars(LoadFails(c))
  /\ \A t \in Ticks :
       /\ WF_vars(TickStart(t))
       /\ SF_vars(FlushDue(t)) /\ SF_vars(SnapshotDue(t)) /\ SF_vars(EvictIdle(t))
       /\ WF_vars(FlushNotDue(t)) /\ WF_vars(SnapshotNotDue(t)) /\ WF_vars(StayWarm(t))
       /\ WF_vars(Write(t)) /\ WF_vars(EvictCompact(t)) /\ WF_vars(EvictRest(t)) /\ WF_vars(Destroy(t))
       /\ SF_vars(CreateOk(t))
       /\ WF_vars(PrevOk(t)) /\ WF_vars(PutOk(t)) /\ WF_vars(VerifyOk(t)) /\ WF_vars(RecordOk(t))
       /\ WF_vars(WriteFails(t) \/ Prune(t) \/ DeleteObject(t) \/ DeleteSnapshotRow(t) \/ SnapshotDone(t))

FairSpec == Spec /\ Fairness

-----------------------------------------------------------------------------
(* Properties                                                              *)

\* No edit is ever out of reach: an edit a room accepted is in storage, or in
\* a buffer or a write under way that will still put it there.  Failed and
\* repeated flushes, compaction, retention and eviction all move edits about.
NoEditLost == owed \subseteq Reconstruct \cup Pending

\* The history promise of README 5.2: each of the HistoryLimit newest versions
\* has its object, and together with the rows after it yields the whole
\* document, so a load can fall back to any of them.
RetainedVersionsReconstruct ==
  \A s \in Newest : HasObject(s) /\ owed \ Pending \subseteq Rebuild(s)

\* A room that serves clients shows every edit that was ever accepted and not
\* lost in a crash: nobody who reconnects sees an older document.
WarmRoomShowsAll ==
  current # NoRoom /\ phase[current] = "warm" => owed \subseteq doc[current]

\* Sockets are only registered in the room the map holds, once it is loaded.
ServedFromLoadedRoom ==
  \A c \in Clients : conn[c] # NoRoom => conn[c] = current /\ phase[current] = "warm"

\* "Highest DocumentUpdate.id included in this snapshot": what a snapshot
\* claims to cover it does contain, or pruning those rows would lose them.
SnapshotIncludesItsRows ==
  \A s \in snaps, r \in rows :
    r.id <= s.upTo /\ HasObject(s) => r.upd \subseteq Content(s.key)

\* The single writer writes each edit once: no two rows, and no row and a
\* buffer, hold the same edit.
NoDuplicateRows ==
  /\ \A r1, r2 \in rows : r1 # r2 => r1.upd \cap r2.upd = {}
  /\ EditsOf(rows) \cap Pending = {}

\* Between ticks no more than HistoryLimit versions and no unneeded rows stay.
HistoryBounded ==
  (\A t \in Ticks : pc[t] = "idle") =>
    /\ Cardinality(snaps) <= HistoryLimit
    /\ \A r \in rows : snaps = {} \/ \E s \in snaps : s.upTo < r.id

\* An accepted edit is eventually written, unless a crash excuses it.
EventuallySaved == \A e \in Edits : e \in owed ~> (e \in Reconstruct \/ e \notin owed)

\* Once the last client has left for good, the room leaves memory.
NobodyHere == \A c \in Clients \ dead : conn[c] = NoRoom /\ joining[c] = NoRoom
IdleRoomEvicted == <>[]NobodyHere => <>[](current = NoRoom)

\* The room, its ticks and its storage keep the promise of DurableDocument.
Serving == current # NoRoom /\ phase[current] = "warm"
Doc == INSTANCE DurableDocument WITH
  stored <- Reconstruct,
  open <- Serving,
  shown <- IF Serving THEN doc[current] ELSE {},
  lost <- accepted \ owed
ImplementsDurableDocument == Doc!DocSpec
=============================================================================
