------------------------- MODULE RestoreInvariant -------------------------
(***************************************************************************)
(* The inductive invariants behind StoredStaysRestored, EditsReachRooms    *)
(* and SameText, in environments where no room is opened during a restore  *)
(* and whatever is under way ends within the settle time, and so before a  *)
(* lock expires.  Calls may fail, coordinators die and clients type all    *)
(* the time, but for what only rooms show: see Plain.  At the end, the one *)
(* behind the safety part of BarrierEnds, which needs none of this.        *)
(***************************************************************************)
EXTENDS Restore

Calm == {"slow", "join", "expires", "again"} \cap env = {}

\* The lock lets its holder in again, but no instance is asked again while it still
\* carries a restore out.
Serial == \A r, s \in Restores : At[r] = At[s] /\ Holding(r) /\ Holding(s) => r = s

\* The lock is where its restore is, and a dead process serves nothing.
LockInv ==
  /\ phase \in [Restores -> Phases]
  /\ \A r \in Restores : Holding(r) => lock = At[r]
  /\ \A r, s \in Restores :
       phase[r] = "dead" /\ At[s] = At[r] => phase[s] \in {"refused", "done", "failed", "dead"}

\* A room is gone with all it had.
ColdInv ==
  \A i \in Instances : ~warm[i] =>
    /\ buffer[i] = {} /\ pending[i] = <<>> /\ sending[i] = None /\ inbox[i] = <<>>
    /\ barrier[i] = None /\ quarantined[i] = {}

Ordinary(f) == f.kind = "update"
Closes(f) == f.kind \in {"commit", "abort"}
OnlyOrdinary(i) == \A n \in DOMAIN inbox[i] : Ordinary(inbox[i][n])
PrepareOf(r) == [kind |-> "prepare", rid |-> r]
CommitOf(r) == [kind |-> "commit", rid |-> r]

\* What a control frame on its way to room i says of its restore.
FrameSays(i, f) ==
  /\ Ordinary(f) \/ Closes(f) \/ f.kind = "prepare"
  /\ f.kind = "prepare" =>
       /\ i # At[f.rid]
       /\ \/ phase[f.rid] = "settle"
          \/ phase[f.rid] = "dead" /\ lock = At[f.rid]
  /\ f.kind = "commit" => phase[f.rid] = "done"
  /\ f.kind = "abort" => phase[f.rid] \in {"abort", "release", "failed"}
  /\ Closes(f) => barrier[i] = f.rid

\* A frame that ends a barrier is the first control frame its room will receive,
\* and all rooms are told of the same restore.
FrameInv ==
  \A i \in Instances : \A n \in DOMAIN inbox[i] :
    /\ FrameSays(i, inbox[i][n])
    /\ Closes(inbox[i][n]) =>
         /\ \A m \in DOMAIN inbox[i] : m < n => Ordinary(inbox[i][m])
         /\ \A j \in Instances : \A m \in DOMAIN inbox[j] :
              Closes(inbox[j][m]) => inbox[j][m] = inbox[i][n] /\ (i = j => m = n)

\* Once the barriers are published, room j has received that, or will last of all.
Prepared(r, j) ==
  \/ \E n \in DOMAIN inbox[j] :
       /\ inbox[j][n] = PrepareOf(r)
       /\ \A m \in DOMAIN inbox[j] : m > n => Ordinary(inbox[j][m])
  \/ barrier[j] = r /\ OnlyOrdinary(j)

Silent == \A i \in Instances : inbox[i] = <<>> /\ pending[i] = <<>> /\ sending[i] = None
Behind(r, j) == warm[j] /\ j # At[r] => barrier[j] = r

\* What a restore may rely on, by how far it is.
PhaseSays(r) ==
  /\ phase[r] \in {"flush", "prepare", "settle", "row", "snapshot", "commit"} => warm[At[r]]
  /\ phase[r] \in {"prepare", "settle", "row", "snapshot"} => barrier[At[r]] = r
  /\ phase[r] = "commit" => barrier[At[r]] = None
  /\ phase[r] \in {"flush", "prepare", "settle"} =>
       \A n \in DOMAIN inbox[At[r]] : ~Closes(inbox[At[r]][n])
  /\ phase[r] = "settle" => \A j \in Instances : warm[j] /\ j # At[r] => Prepared(r, j)
  /\ phase[r] \in {"row", "snapshot"} => taken = {} /\ Silent
  /\ phase[r] \in {"row", "snapshot", "commit"} =>
       \A j \in Instances : Behind(r, j) /\ OnlyOrdinary(j)
PhaseInv == \A r \in Restores : PhaseSays(r)

ProtocolInv == TypeOK /\ LockInv /\ ColdInv /\ FrameInv /\ PhaseInv

-----------------------------------------------------------------------------
(* What a reset supersedes. *)

\* It is neither queued nor on its way.
NotSent(e) ==
  \A i \in Instances :
    /\ \A n \in DOMAIN pending[i] : pending[i][n] # e
    /\ \A n \in DOMAIN inbox[i] : Ordinary(inbox[i][n]) => inbox[i][n].edit # e

BeforeSays(r) ==
  /\ before[r] \subseteq Typed
  /\ before[r] # {} =>
       phase[r] \in {"row", "snapshot", "commit", "abort", "done", "release", "failed", "dead"}
  /\ \A e \in before[r] : NotSent(e)
BeforeInv == \A r \in Restores : BeforeSays(r)

\* The text a coordinator is to insert is nowhere before.
FreshSays(r) ==
  phase[r] \in {"none", "refused", "read", "flush", "prepare", "settle"} =>
    LET own == <<r, At[r]>> IN
    /\ own \notin snap.has
    /\ \A i \in Instances : own \notin doc[i].has
    /\ \A s \in Restores : own \notin cut[s].doc.has
    /\ \A e \in Edits : own \notin typedOn[e]

\* What a coordinator is storing shows no edit from before its reset.
CutSays(r) ==
  /\ phase[r] = "row" => before[r] \cap Visible(doc[At[r]]) = {}
  /\ phase[r] = "snapshot" => before[r] \cap Visible(cut[r].doc) = {} /\ cut[r].rows = rows
  /\ phase[r] \in {"row", "snapshot", "commit"} => Superseded \subseteq before[r]

\* When a coordinator dies before it publishes its commit, all stays as it is.
StuckSays(r) ==
  phase[r] = "dead" /\ before[r] # {} =>
    /\ \A i \in Instances : (warm[i] => barrier[i] = r) /\ OnlyOrdinary(i)
    /\ \A s \in Restores :
         phase[s] \notin {"flush", "prepare", "settle", "row", "snapshot", "commit"}

ResetInv == \A r \in Restores : FreshSays(r) /\ CutSays(r) /\ StuckSays(r)

\* The leader holds its buffer back until the commit empties it.
Held ==
  \E r \in Restores :
    /\ barrier[Leader] = r
    /\ \/ phase[r] = "commit"
       \/ phase[r] = "dead" /\ before[r] # {}
       \/ \E n \in DOMAIN inbox[Leader] : inbox[Leader][n] = CommitOf(r)

StoredInv ==
  /\ Superseded \cap (Visible(snap) \cup rows \cup taken) = {}
  /\ Superseded \cap (buffer[Leader] \cup quarantined[Leader]) # {} => Held

-----------------------------------------------------------------------------
(* What a published edit reaches. *)

Reached(e, i) ==
  \/ e \in doc[i].has \cup quarantined[i]
  \/ \E n \in DOMAIN inbox[i] : inbox[i][n] = [kind |-> "update", edit |-> e]

\* From its reset until the last room has heard of it, a restore has superseded
\* all that was published, and no room that is open publishes more.
Committing(r) ==
  phase[r] = "commit" \/ \E i \in Instances : \E n \in DOMAIN inbox[i] : inbox[i][n] = CommitOf(r)
CommitSays(r) ==
  /\ phase[r] \in {"row", "snapshot", "commit"} => WasReset(At[r])
  /\ phase[r] \in {"row", "snapshot"} \/ Committing(r) => sent \subseteq before[r]
  /\ Committing(r) =>
       \A i \in Instances : pending[i] = <<>> /\ (warm[i] /\ barrier[i] = None => WasReset(i))

ReachInv ==
  /\ \A i \in Instances : \A n \in DOMAIN pending[i] : pending[i][n] \in doc[i].has \cap Typed
  /\ sent \subseteq Typed
  /\ \A r \in Restores : CommitSays(r)
  /\ \A e \in sent \ Superseded : \A i \in Instances : warm[i] => Reached(e, i)
-----------------------------------------------------------------------------
(* What rooms show, where a reset either commits or leaves its barriers up. *)

Plain == env \subseteq {"versionMissing", "prepareFails", "crash", "more", "third"}

\* A room shows the old text, or that of its last reset and nothing else.
RoomShows(i) ==
  IF warm[i]
  THEN /\ Base \in doc[i].has /\ doc[i].gone \subseteq doc[i].has /\ doc[i].has \cap Edits \subseteq Typed
       /\ IF WasReset(i) THEN \E r \in Restores : Visible(doc[i]) = {<<r, i>>} ELSE doc[i].gone = {}
  ELSE ~WasReset(i)

\* Each reset of a room inserts another copy.
CopySays(r, i) ==
  <<r, i>> \in doc[i].has =>
    (i # At[r] => phase[r] = "done") /\ \A n \in DOMAIN inbox[i] : inbox[i][n] # CommitOf(r)

FrameShows(f) == f.kind # "abort" /\ (Ordinary(f) => f.edit \in Typed)

ShowInv ==
  /\ \A i \in Instances : RoomShows(i) /\ \A n \in DOMAIN inbox[i] : FrameShows(inbox[i][n])
  /\ \A r \in Restores, i \in Instances : CopySays(r, i)
  /\ \A e \in Typed : typedOn[e] = {Base}

\* Some room has been reset, or is told to.
Over == (\E i \in Instances : WasReset(i)) \/ \E r \in Restores : Committing(r)
Blocked ==
  \E i \in Instances : barrier[i] # None \/ \E n \in DOMAIN inbox[i] : inbox[i][n].kind = "prepare"

\* It waits in a queue, and is not the head that is being published.
Waits(e, j) == \E n \in DOMAIN pending[j] : pending[j][n] = e /\ (sending[j] # None => n > 1)

\* From the first reset on nothing that was typed is under way, and each room is
\* reset before its barrier ends.
NoneOnWay ==
  \A i \in Instances :
    /\ pending[i] = <<>> /\ \A n \in DOMAIN inbox[i] : ~Ordinary(inbox[i][n])
    /\ warm[i] /\ barrier[i] = None => WasReset(i)

\* Before, where no barrier is up, every edit gets to every room.
AllOnWay ==
  /\ \A j \in Instances : sending[j] # None => pending[j] # <<>>
  /\ \A e \in Typed, i \in Instances : warm[i] =>
       \/ e \in doc[i].has
       \/ \E n \in DOMAIN inbox[i] : inbox[i][n] = [kind |-> "update", edit |-> e]
       \/ \E j \in Instances : Waits(e, j)

SameInv == IF Over THEN NoneOnWay ELSE ~Blocked => AllOnWay

-----------------------------------------------------------------------------
(* Why a barrier comes down, also where restores overlap, rooms are opened *)
(* and frames are late, since an inbox keeps the order of what was sent.   *)

\* The coordinator has yet to tell room i how its restore ends.
ToTell(r, i) ==
  \/ phase[r] \in {"prepare", "settle", "row", "snapshot"}
  \/ phase[r] = "commit" /\ i # At[r]

\* It has, and room i will receive that after the first n frames.
Told(r, i, n) ==
  \E m \in DOMAIN inbox[i] : m > n /\ Closes(inbox[i][m]) /\ inbox[i][m].rid = r

EndInv ==
  /\ \A r \in Restores : phase[r] = "flush" => warm[At[r]]
  /\ \A i \in Instances : \A r \in Restores :
       barrier[i] = r => warm[i] /\ (ToTell(r, i) \/ Told(r, i, 0))
  /\ \A i \in Instances : \A n \in DOMAIN inbox[i] : \A r \in Restores :
       inbox[i][n] = PrepareOf(r) => warm[i] /\ i # At[r] /\ (ToTell(r, i) \/ Told(r, i, n))

\* While a room is behind a barrier, a commit or an abort of that restore is on its way to
\* it or will be published, unless the restore's prepare is rejected or its coordinator
\* dies (restoreFileVersion, commitRestoreBarrier, abortRestoreBarrier).
BarrierHasEnd ==
  {"prepareFails", "crash"} \cap env = {} =>
    \A i \in Instances : \A r \in Restores : barrier[i] = r => ToTell(r, i) \/ Told(r, i, 0)
=============================================================================
