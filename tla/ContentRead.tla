---------------------------- MODULE ContentRead ----------------------------
(***************************************************************************)
(* A file's content read outside its room: FilesService.loadDocument lists *)
(* the snapshots, then reads an object, then the tail of the update log,   *)
(* in no transaction, while the leader's room goes on writing, compacting  *)
(* and expiring (RoomPersistence has that in detail).  A room that loads   *)
(* on another instance reads in the same order.                            *)
(*                                                                         *)
(* Row n of the log holds edit n.                                          *)
(***************************************************************************)
EXTENDS Naturals, Sequences, FiniteSets

CONSTANTS
  Limit,         \* FILE_HISTORY_LIMIT
  Scenarios,     \* the sets of events that a behaviour may have, see EnvEvents
  MaxRow,        \* bound: rows written
  MaxVersion     \* bound: versions written

(*   first     a file's first compaction runs during a read                *)
(*   loseAll   every object may become unreadable                          *)
EnvEvents == {"first", "loseAll"}

ASSUME LimitAssumption == Limit \in Nat \ {0}
ASSUME BoundAssumption == MaxRow \in Nat /\ MaxVersion \in Nat \ {0}

VARIABLES
  env,           \* what may happen in this behaviour
  last, pruned,  \* DocumentUpdate: the newest row written; those up to pruned are deleted
  origin,        \* the edit that each edit builds on, as Yjs has it (0: none)
  snaps,         \* lastUpdateId of each version that was recorded
  rows, objects, \* versions whose FileSnapshot row, whose object is left
  writer,        \* where the room's compaction is: "idle", "create", "prune" or "expire"
  at,            \* where the read is
  began,         \* rows written when the read began
  list, base, content,  \* versions to try, the one read (0: none), edits read so far
  during         \* compactions recorded since the read began

store == <<last, pruned, origin, snaps, rows, objects>>
read == <<at, began, list, base, content>>
vars == <<env, store, writer, read, during>>

Versions == 1..Len(snaps)
Upto(v) == IF v = 0 THEN 0 ELSE snaps[v]
Log == (pruned + 1)..last
\* What FILE_HISTORY_LIMIT keeps.
Kept == {v \in Versions : v + Limit > Len(snaps)}

(* The types; the log is never pruned beyond the newest version.           *)
TypeOK ==
  /\ env \in Scenarios
  /\ last \in 0..MaxRow /\ pruned \in 0..last
  /\ origin \in Seq(0..last) /\ Len(origin) = last
  /\ snaps \in Seq(0..last) /\ Len(snaps) <= MaxVersion
  /\ rows \subseteq Versions /\ objects \subseteq Versions
  /\ writer \in {"idle", "create", "prune", "expire"}
  /\ at \in {"idle", "list", "get", "tail", "bare", "done", "partial", "refused"}
  /\ began \in 0..last /\ list \subseteq Versions /\ base \in Versions \cup {0}
  /\ content \subseteq 1..last /\ during \in 0..MaxVersion
  /\ pruned <= Upto(Len(snaps))

Init ==
  /\ env \in Scenarios
  /\ last = 0 /\ pruned = 0 /\ origin = <<>> /\ snaps = <<>> /\ rows = {} /\ objects = {}
  /\ writer = "idle"
  /\ at = "idle" /\ began = 0 /\ list = {} /\ base = 0 /\ content = {}
  /\ during = 0

-----------------------------------------------------------------------------
(* The room. *)

Flush ==
  /\ writer = "idle" /\ last < MaxRow
  /\ last' = last + 1
  /\ \E n \in 0..last : origin' = Append(origin, n)
  /\ UNCHANGED <<env, pruned, snaps, rows, objects, writer, read, during>>

\* Objects lost, and compactions during a read: fewer than versions are kept, or
\* (the bound) enough to lose them all.
Trouble == IF "loseAll" \in env THEN Limit + 1 ELSE Limit - 1

Reading == at \in {"list", "get", "tail", "bare"}
Unreadable == Cardinality(Kept \ objects)

(* writeSnapshot: the object is put and verified, under a key of its own;  *)
(* if that fails the compaction has not happened.                          *)
Put ==
  /\ writer = "idle" /\ last > Upto(Len(snaps)) /\ Len(snaps) < MaxVersion
  /\ writer' = "create"
  /\ UNCHANGED <<env, store, read, during>>

(* Then the row that points to it is created; the reply may be lost, and   *)
(* then the compaction stops here.                                         *)
Create ==
  /\ writer = "create"
  /\ Reading => during + Unreadable < Trouble /\ (snaps = <<>> => "first" \in env)
  /\ snaps' = Append(snaps, last)
  /\ rows' = rows \cup {Len(snaps) + 1} /\ objects' = objects \cup {Len(snaps) + 1}
  /\ writer' \in {"prune", "idle"}
  /\ during' = IF Reading THEN during + 1 ELSE during
  /\ UNCHANGED <<env, last, pruned, origin, read>>

(* No row is created: nothing ever names the object that was put.          *)
CreateFails ==
  /\ writer = "create"
  /\ writer' = "idle"
  /\ UNCHANGED <<env, store, read, during>>

NewestOf(S) == {v \in S : Cardinality({w \in S : w > v}) < Limit}
CutoffAtNewest(v) == v = Len(snaps)   \* mutant: the rows of this version
\* The rows the oldest version kept includes are deleted.
OldestKept(v) == v \in NewestOf(rows) /\ \A w \in NewestOf(rows) : v <= w

PruneLog ==   \* mutant: what was written, not what the versions include
  /\ writer = "idle" /\ snaps # <<>>
  /\ pruned' = last /\ writer' = "expire"
  /\ UNCHANGED <<env, last, origin, snaps, rows, objects, read, during>>
\* Deleting the rows may fail; the next compaction does it.
Prune ==
  /\ writer = "prune"
  /\ \E v \in rows :
       /\ OldestKept(v)
       /\ pruned' \in {pruned, IF snaps[v] > pruned THEN snaps[v] ELSE pruned}
  /\ writer' = "expire"
  /\ UNCHANGED <<env, last, origin, snaps, rows, objects, read, during>>

Expired == rows \ Kept

(* pruneOldSnapshots deletes the object, then the row.  Whatever of this   *)
(* fails is logged, and it goes on: an object may outlive its row, which   *)
(* is deleted all the same, and a row its object.                          *)
ExpireObject ==
  /\ writer = "expire"
  /\ \E v \in Expired \cap objects : objects' = objects \ {v}
  /\ UNCHANGED <<env, last, pruned, origin, snaps, rows, writer, read, during>>

ExpireRow ==
  /\ writer = "expire"
  /\ \E v \in Expired : rows' = rows \ {v}
  /\ UNCHANGED <<env, last, pruned, origin, snaps, objects, writer, read, during>>

\* What could not be deleted is left to the next compaction.
Compacted ==
  /\ writer = "expire"
  /\ writer' = "idle"
  /\ UNCHANGED <<env, store, read, during>>

\* An object becomes unreadable: the last one that is left to a read only if all may.
LoseObject ==
  /\ during + Unreadable < Trouble
  /\ \E v \in objects :
       /\ "loseAll" \in env \/ ((IF at = "get" THEN list ELSE rows) \cap objects) \ {v} # {}
       /\ objects' = objects \ {v}
  /\ UNCHANGED <<env, last, pruned, origin, snaps, rows, writer, read, during>>

-----------------------------------------------------------------------------
(* The read. *)

Begin ==
  /\ ~Reading
  /\ at' = "list" /\ began' = last
  /\ list' = {} /\ base' = 0 /\ content' = {} /\ during' = 0
  /\ UNCHANGED <<env, store, writer>>

List ==
  /\ at = "list"
  /\ list' = rows /\ at' = IF rows = {} THEN "tail" ELSE "get"
  /\ UNCHANGED <<env, store, writer, began, base, content, during>>

\* Newest first; one that cannot be read is skipped.
Get ==
  /\ at = "get"
  /\ \E v \in list :
       /\ \A w \in list : w <= v
       /\ IF v \in objects
            THEN base' = v /\ content' = 1..snaps[v] /\ at' = "tail" /\ list' = list
            ELSE list' = list \ {v} /\ UNCHANGED <<base, content, at>>
  /\ UNCHANGED <<env, store, writer, began, during>>

\* None could be read.
NoBase ==
  /\ at = "get" /\ list = {}
  /\ at' = "bare"
  /\ UNCHANGED <<env, store, writer, began, list, base, content, during>>

TailFrom(n) == {r \in Log : r > n}

\* Yjs keeps an edit pending until what it builds on is there.
Shown(S) == UNION {T \in SUBSET S : \A n \in T : origin[n] \in T \cup {0}}

ReadTailAnyway ==   \* mutant: what is left is served, if it is nothing too
  /\ at \in {"tail", "bare"}
  /\ content' = Shown(content \cup TailFrom(Upto(base))) /\ at' = "done"
  /\ UNCHANGED <<env, store, writer, began, list, base, during>>
(* The read is refused if no object could be read and no row is left.  If  *)
(* rows are left, and others pruned, it is done like any other: here it is *)
(* called partial.                                                         *)
ReadTail ==
  /\ at \in {"tail", "bare"}
  /\ content' = Shown(content \cup TailFrom(Upto(base)))
  /\ at' = IF at = "tail" \/ (pruned = 0 /\ Log # {}) THEN "done"
           ELSE IF Log = {} THEN "refused" ELSE "partial"
  /\ UNCHANGED <<env, store, writer, began, list, base, during>>

-----------------------------------------------------------------------------
Next ==
  \/ Flush \/ Put \/ Create \/ CreateFails \/ Prune \/ ExpireObject \/ ExpireRow \/ Compacted \/ LoseObject
  \/ Begin \/ List \/ Get \/ NoBase \/ ReadTail

Spec == Init /\ [][Next]_vars

-----------------------------------------------------------------------------
(* Properties. *)

(* A read shows every edit that was stored when it began, whatever was     *)
(* pruned and expired while it ran, as long as fewer of the versions kept  *)
(* are unreadable, and compactions run meanwhile, than are kept            *)
(* (FilesService.loadDocument, writeSnapshot, pruneOldSnapshots).          *)
ReadIsWhole == env = {} /\ at = "done" => 1..began \subseteq content

(* A file that has content is not read as empty, however objects are lost: *)
(* the read finds a version, or the whole log, or is refused.  Two cases   *)
(* are excepted, in which loadDocument may serve an empty document: the    *)
(* read is partial, with no object and only the end of the log, or the     *)
(* file's very first compaction runs meanwhile.                            *)
NeverEmpty == "first" \notin env /\ at = "done" /\ began > 0 => content # {}
=============================================================================
