--------------------------- MODULE RoomInvariant ---------------------------
(***************************************************************************)
(* The inductive invariant behind the safety of RoomPersistence, for the   *)
(* environments in which it is safe: crashes, failing calls, lost replies  *)
(* and objects that cannot be read as long as one of the limit can, but no *)
(* overlapping ticks and no client that joins a room while it loads, after *)
(* its load failed, or while it is evicted.                                *)
(***************************************************************************)
EXTENDS RoomPersistence

Ordinary == {"crash", "db", "s3", "lostReply", "loadFails", "closeLoading", "someLost"}

\* One tick is under way at a time, and it works on the room in the map.
TickInv ==
  /\ \A t, u \in Ticks : pc[t] # "idle" /\ pc[u] # "idle" => t = u
  /\ \A t \in Ticks : pc[t] # "idle" => on[t] = current /\ current # NoRoom
  /\ \A t \in Ticks : entries[t] # {} => pc[t] = "create"
  /\ \A t \in Ticks : pc[t] \in WaitPC \cup {"write"} => phase[on[t]] = "warm"
  /\ current # NoRoom /\ flushing[current] => \E t \in Ticks : pc[t] = "create"
  /\ current # NoRoom /\ awaiting[current] => phase[current] = "warm"

\* Sockets wait for or sit in the room in the map, which is not destroyed.
RoomInv ==
  /\ current # NoRoom => current \notin destroyed /\ phase[current] # "unused"
  /\ \A c \in Clients : conn[c] # NoRoom => conn[c] = current /\ phase[current] = "warm"
  /\ \A c \in Clients : joining[c] # NoRoom =>
       joining[c] = current /\ phase[current] \in {"loading", "tail"}
  /\ \A c, d \in Clients : joining[c] # NoRoom /\ joining[d] # NoRoom => c = d
  /\ \A r \in Rooms : buffer[r] # {} => r = current /\ phase[r] = "warm"

\* Nobody is near a room under eviction, and it is destroyed empty.
EvictInv == \A t \in Ticks :
  /\ Evicting(t) => \A c \in Clients : conn[c] = NoRoom /\ joining[c] = NoRoom
  /\ pc[t] = "destroy" \/ (pc[t] = "create" /\ ret[t] = "destroy") => buffer[current] = {}

\* Snapshot versions and the rows they end at grow together.
SnapInv ==
  /\ \A r \in rows : r.id < nextRow
  /\ \A s \in snaps : s.upTo < nextRow /\ s.key[1] = s.version
  /\ \A s, x \in snaps : s.version <= x.version => s.upTo <= x.upTo
  /\ \A s, x \in snaps : s.version = x.version => s = x
  /\ snaps # {} => \E s \in snaps : IsNewest(s, snaps)
  /\ current # NoRoom /\ phase[current] = "tail" => base[current].upTo < nextRow
  /\ current # NoRoom /\ phase[current] = "warm" =>
       persistedUpTo[current] < nextRow /\ \A s \in snaps : s.upTo <= persistedUpTo[current]

\* Rows go when the oldest retained version has them: where a newer one ends, or the
\* room has got to, there is a row still.  So a load from an older object than the
\* newest finds how far the rows had got.
Ends(n) == \E x \in rows : x.id = n
EndsInv ==
  /\ \A s \in snaps, x \in Newest : s.upTo > x.upTo => Ends(s.upTo)
  /\ current # NoRoom /\ phase[current] = "tail" =>
       /\ \A x \in Newest : base[current].upTo > x.upTo => Ends(base[current].upTo)
       /\ \A s \in snaps : s.upTo > base[current].upTo => Ends(s.upTo)
  /\ current # NoRoom /\ phase[current] = "warm" =>
       \A x \in Newest : persistedUpTo[current] > x.upTo => Ends(persistedUpTo[current])

\* A compaction under way: its version is new until it is recorded, its
\* object holds the state it captured, and it claims what the room persisted.
ShotFacts(t) ==
  /\ pc[t] \in {"put", "verify", "record"} => \A s \in snaps : s.version < shot[t].version
  /\ pc[t] \in {"verify", "record"} =>
       /\ \E o \in objects : o.key = Key(t)
       /\ shot[t].upd \subseteq Content(Key(t))
  /\ pc[t] = "record" => shot[t].upTo = persistedUpTo[current]
  /\ pc[t] \in {"prune", "expire"} => NewSnapshot(t) \in snaps /\ IsNewest(NewSnapshot(t), snaps)

ShotInv == \A t \in Ticks : ShotFacts(t)

\* Where every edit is: every retained version and its tail has all flushed
\* edits, the room has all edits, and a compaction has captured the flushed.
Flushed == owed \ Pending

StoreCover ==
  /\ snaps = {} => Flushed \subseteq EditsOf(rows)
  /\ \A s \in Newest : HasObject(s) /\ Flushed \subseteq Rebuild(s)

RoomCover ==
  /\ current # NoRoom /\ phase[current] = "tail" =>
       owed \subseteq doc[current] \cup EditsOf(Tail(base[current].upTo))
  /\ current # NoRoom /\ phase[current] = "warm" => owed \subseteq doc[current]

ShotCover == \A t \in Ticks : pc[t] \in WaitPC \ {"create"} => Flushed \subseteq shot[t].upd

Inv ==
  /\ TypeOK
  /\ TickInv /\ RoomInv /\ EvictInv
  /\ SnapInv /\ EndsInv /\ ShotInv
  /\ StoreCover /\ RoomCover /\ ShotCover

-----------------------------------------------------------------------------
(* What the refinement of DurableDocument needs besides: what exactly a    *)
(* room shows and a compaction holds of what storage yields.               *)

\* Loading ends with exactly what storage yields; a loaded room shows that
\* and the pending edits, and nothing else.
ShownInv == current # NoRoom =>
  /\ phase[current] = "loading" => doc[current] = {}
  /\ phase[current] = "tail" => doc[current] \cup EditsOf(Tail(base[current].upTo)) = Reconstruct
  /\ phase[current] = "warm" => doc[current] = Reconstruct \cup Pending

\* A compaction holds all that storage yields, and nothing its room does not.
CapturedInv == \A t \in Ticks :
  /\ pc[t] \in {"prev", "put", "verify", "record"} =>
       Reconstruct \subseteq shot[t].upd /\ shot[t].upd \subseteq doc[current]
  /\ pc[t] \in {"verify", "record"} => Content(Key(t)) = shot[t].upd

StoredInv ==
  /\ SnapshotIncludesItsRows
  /\ ShownInv
  /\ CapturedInv
  /\ Reconstruct \cup Pending \subseteq accepted

-----------------------------------------------------------------------------
(* What a load from any retained version keeps of that, which is all that  *)
(* SnapshotIncludesItsRows needs: a load from an older object than the     *)
(* newest may miss what a newer version took from a room before a crash,   *)
(* but never a row.                                                        *)

\* A room under load has, or will read, every row; a loaded one shows them and the
\* pending edits.
RoomHasRows ==
  /\ current # NoRoom /\ phase[current] = "tail" =>
       \A x \in rows : x.id <= base[current].upTo => x.upd \subseteq doc[current]
  /\ Serving => EditsOf(rows) \cup Pending \subseteq doc[current]

\* A compaction holds every row until it is recorded.
ShotHasRows == \A t \in Ticks :
  pc[t] \in {"prev", "put", "verify", "record"} => EditsOf(rows) \subseteq shot[t].upd

RowsInv == SnapshotIncludesItsRows /\ RoomHasRows /\ ShotHasRows
=============================================================================
