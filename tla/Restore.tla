------------------------------ MODULE Restore ------------------------------
(***************************************************************************)
(* Online rollback of one document that is open in several backends:       *)
(* restoreFileVersion's lock, its barrier on every room, the reset each     *)
(* room carries out by itself, and commit or abort.                        *)
(*                                                                         *)
(* A document is the set of text pieces it has received and the set of     *)
(* those that were deleted.  A piece is the text of the restored version,  *)
(* a client's edit, or the copy of that text which a room inserts when it  *)
(* resets: every room inserts its own.  An edit is typed into the text its *)
(* browser shows, and shows only where that piece has been received.       *)
(* One instance leads; the lease itself is Backplane's.                    *)
(***************************************************************************)
EXTENDS Naturals, FiniteSets, Sequences, SequencesExt

CONSTANTS
  Instances, Edits,
  Restores,      \* the owners' requests
  At,            \* the instance that serves each: [Restores -> Instances]
  Third,         \* the requests that few behaviours have: a bound, see EnvEvents
  Cold,          \* the instances without a room at the start, if rooms are opened
  Leader,
  Base,          \* the text of the version to restore, still shown at the start
  Scenarios,     \* the sets of events that a behaviour may have, see EnvEvents
  None

(*   versionMissing  the version is gone when its row is read again        *)
(*   rowFails, snapshotFails   the reset cannot be stored                  *)
(*   storedAnyway    it is stored, and then writeSnapshot throws: a reply  *)
(*                   is lost, or the query of pruneOldSnapshots fails      *)
(*   prepareFails, commitFails a PUBLISH is rejected                       *)
(*   crash     the coordinator's process dies                              *)
(*   slow      frames, replies or a flush take longer than the settle time *)
(*   saving    clients type while the reset is being stored                *)
(*   after     clients type after the restore                              *)
(*   join      a room is opened, by a socket or by a restore               *)
(*   expires   a restore outlasts its lock                                 *)
(*   again     a backend is asked for a restore while it carries one out   *)
(*   more      more than one edit is made                                  *)
(*   third     the restores of Third are asked for too                     *)
EnvEvents == {"versionMissing", "rowFails", "snapshotFails", "storedAnyway", "prepareFails",
              "commitFails", "crash", "slow", "saving", "after", "join",
              "expires", "again", "more", "third"}

ASSUME ScenariosAssumption == Scenarios \subseteq SUBSET EnvEvents
ASSUME AtAssumption == At \in [Restores -> Instances]
ASSUME RoomsAssumption == Cold \subseteq Instances /\ Leader \in Instances
ASSUME NoneAssumption == None \notin Instances \cup Edits \cup Restores

VARIABLES
  env,                                     \* what may happen in this behaviour
  lock,                                    \* collab:restore:doc:<fileId>
  snap, rows,                              \* newest snapshot; edits in rows after it
  warm, doc, buffer, taken, inbox,         \* rooms, as in Backplane
  pending, sending,                        \* publish queue, and the edit being published
  barrier, quarantined,
  phase, cut,                              \* the coordinators, and what each is storing
  typedOn, before, sent                    \* history

store == <<snap, rows>>
queue == <<pending, sending>>
gate == <<barrier, quarantined>>
coord == <<phase, cut>>
history == <<typedOn, before, sent>>
vars == <<env, lock, store, warm, doc, buffer, taken, inbox, queue, gate, coord, history>>

Copies == Restores \X Instances
Texts == Copies \cup {Base}
ASSUME TextsAssumption == Texts \cap Edits = {} /\ Base \notin Copies
Pieces == Edits \cup Texts
Docs == [has : SUBSET Pieces, gone : SUBSET Pieces]
Merge(d, e) == [has |-> d.has \cup e.has, gone |-> d.gone \cup e.gone]
Typed == {e \in Edits : typedOn[e] # {}}

Frames == [kind : {"update"}, edit : Edits] \cup [kind : {"state"}, state : Docs]
          \cup [kind : {"ask"}, from : Instances]
          \cup [kind : {"prepare", "commit", "abort"}, rid : Restores]

Phases == {"none", "refused", "read", "flush", "prepare", "settle", "row", "snapshot",
           "commit", "abort", "release", "done", "failed", "dead"}

TypeOK ==
  /\ env \in Scenarios
  /\ lock \in Instances \cup {None}
  /\ snap \in Docs /\ rows \subseteq Edits
  /\ warm \in [Instances -> BOOLEAN] /\ doc \in [Instances -> Docs]
  /\ buffer \in [Instances -> SUBSET Edits] /\ taken \subseteq Edits
  /\ inbox \in [Instances -> Seq(Frames)]
  /\ pending \in [Instances -> Seq(Edits)] /\ sending \in [Instances -> Edits \cup {None}]
  /\ barrier \in [Instances -> Restores \cup {None}]
  /\ quarantined \in [Instances -> SUBSET Edits]
  /\ phase \in [Restores -> Phases]
  /\ cut \in [Restores -> [doc : Docs, rows : SUBSET Edits]]
  /\ typedOn \in [Edits -> SUBSET Texts]
  /\ before \in [Restores -> SUBSET Edits] /\ sent \subseteq Edits
  \* only a barrier keeps edits aside, and behind it none waits to be published
  /\ \A i \in Instances : IF barrier[i] = None THEN quarantined[i] = {} ELSE pending[i] = <<>>

Visible(d) == {p \in d.has \ d.gone : p \in Edits => typedOn[p] \subseteq d.has}
\* What a reader sees: which edits, and how many times the version's text.
Text(d) == [edits |-> Visible(d) \cap Edits, texts |-> Cardinality(Visible(d) \cap Texts)]
Stored == Merge(snap, [has |-> rows, gone |-> {}])
Start == [has |-> {Base}, gone |-> {}]

Init ==
  /\ env \in Scenarios
  /\ lock = None /\ snap = Start /\ rows = {}
  /\ warm = [i \in Instances |-> i \notin Cold \/ "join" \notin env]
  /\ doc = [i \in Instances |-> IF warm[i] THEN Start ELSE [has |-> {}, gone |-> {}]]
  /\ buffer = [i \in Instances |-> {}] /\ taken = {}
  /\ inbox = [i \in Instances |-> <<>>]
  /\ pending = [i \in Instances |-> <<>>] /\ sending = [i \in Instances |-> None]
  /\ barrier = [i \in Instances |-> None] /\ quarantined = [i \in Instances |-> {}]
  /\ phase = [r \in Restores |-> "none"]
  /\ cut = [r \in Restores |-> [doc |-> Start, rows |-> {}]]
  /\ typedOn = [e \in Edits |-> {}] /\ before = [r \in Restores |-> {}] /\ sent = {}

Published(box, i, f) == [j \in Instances |-> IF j # i /\ warm[j] THEN Append(box[j], f) ELSE box[j]]
Goto(r, p) == phase' = [phase EXCEPT ![r] = p]

-----------------------------------------------------------------------------
(* Clients, and the ordinary traffic of a room.                            *)

Saving(i) == \E r \in Restores : At[r] = i /\ phase[r] \in {"row", "snapshot"}
WasReset(i) == doc[i].has \cap Copies # {}
MayType(i) == WasReset(i) => (IF Saving(i) THEN "saving" ELSE "after") \in env

\* applyClientUpdate: behind a barrier the edit shows in this room and goes nowhere.
Type(i, e) ==
  /\ warm[i] /\ typedOn[e] = {} /\ MayType(i)
  /\ "more" \in env \/ Typed = {}
  /\ typedOn' = [typedOn EXCEPT ![e] = Visible(doc[i]) \cap Texts]
  /\ typedOn'[e] # {}
  /\ doc' = [doc EXCEPT ![i].has = @ \cup {e}]
  /\ IF barrier[i] = None
     THEN /\ buffer' = [buffer EXCEPT ![i] = @ \cup {e}]
          /\ pending' = [pending EXCEPT ![i] = Append(@, e)]
     ELSE /\ pending' = [pending EXCEPT ![i] = <<>>]
          /\ UNCHANGED buffer
  /\ UNCHANGED <<env, lock, store, warm, taken, inbox, sending, gate, coord, before, sent>>

\* drainPendingPublishes: the head is published, and leaves the queue when the
\* reply is there: whatever is the head then.
Publish(i) ==
  /\ sending[i] = None /\ pending[i] # <<>> /\ barrier[i] = None
  /\ sending' = [sending EXCEPT ![i] = Head(pending[i])]
  /\ inbox' = Published(inbox, i, [kind |-> "update", edit |-> Head(pending[i])])
  /\ sent' = sent \cup {Head(pending[i])}
  /\ UNCHANGED <<env, lock, store, warm, doc, buffer, taken, pending, gate, coord, typedOn, before>>

PublishReply(i) ==
  /\ sending[i] # None
  /\ sending' = [sending EXCEPT ![i] = None]
  /\ pending' = [pending EXCEPT ![i] = IF @ = <<>> THEN @ ELSE Tail(@)]
  /\ UNCHANGED <<env, lock, store, warm, doc, buffer, taken, inbox, gate, coord, history>>

FlushStart ==
  /\ warm[Leader] /\ taken = {} /\ buffer[Leader] # {} /\ barrier[Leader] = None
  /\ taken' = buffer[Leader]
  /\ buffer' = [buffer EXCEPT ![Leader] = {}]
  /\ UNCHANGED <<env, lock, store, warm, doc, inbox, queue, gate, coord, history>>

FlushEnd ==
  /\ taken # {}
  /\ rows' = rows \cup taken
  /\ taken' = {}
  /\ UNCHANGED <<env, lock, snap, warm, doc, buffer, inbox, queue, gate, coord, history>>

\* getOrCreate of an instance without a room; its peers are asked for their state.
Opened(i) ==
  /\ "join" \in env /\ ~warm[i]
  /\ warm' = [warm EXCEPT ![i] = TRUE]
  /\ doc' = [doc EXCEPT ![i] = Stored]
  /\ inbox' = Published(inbox, i, [kind |-> "ask", from |-> i])
Join(i) ==
  /\ Opened(i)
  /\ UNCHANGED <<env, lock, store, buffer, taken, queue, gate, coord, history>>

-----------------------------------------------------------------------------
(* Frames.                                                                 *)

Receive(i, kind) == inbox[i] # <<>> /\ Head(inbox[i]).kind = kind
Take(i) == [inbox EXCEPT ![i] = Tail(@)]
\* What an update makes visible is buffered.
Apply(i, d) ==
  /\ doc' = [doc EXCEPT ![i] = Merge(@, d)]
  /\ buffer' = [buffer EXCEPT ![i] = @ \cup ((Visible(doc'[i]) \ Visible(doc[i])) \cap Edits)]

\* applyBusUpdate: a barrier keeps ordinary updates aside.
OnUpdate(i) ==
  /\ Receive(i, "update")
  /\ LET e == Head(inbox[i]).edit IN
       IF barrier[i] = None
       THEN Apply(i, [has |-> {e}, gone |-> {}]) /\ UNCHANGED quarantined
       ELSE /\ quarantined' = [quarantined EXCEPT ![i] = @ \cup {e}]
            /\ UNCHANGED <<doc, buffer>>
  /\ inbox' = Take(i)
  /\ UNCHANGED <<env, lock, store, warm, taken, queue, barrier, coord, history>>

\* answerSyncStep1 and applyBusSyncStep2 take no notice of a barrier.
OnAsk(i) ==
  /\ Receive(i, "ask")
  /\ inbox' = LET j == Head(inbox[i]).from IN
              [Take(i) EXCEPT ![j] = Append(@, [kind |-> "state", state |-> doc[i]])]
  /\ UNCHANGED <<env, lock, store, warm, doc, buffer, taken, queue, gate, coord, history>>

OnState(i) ==
  /\ Receive(i, "state")
  /\ Apply(i, Head(inbox[i]).state)
  /\ inbox' = Take(i)
  /\ UNCHANGED <<env, lock, store, warm, taken, queue, gate, coord, history>>

EnterKeepsQueue(i, r) ==   \* mutant: the publish queue is left alone
  /\ barrier' = [barrier EXCEPT ![i] = r]
  /\ UNCHANGED <<env, pending>>
\* enterRestoreBarrier: a newer restore takes an older one's barrier over.
Enter(i, r) ==
  /\ barrier' = [barrier EXCEPT ![i] = r]
  /\ pending' = [pending EXCEPT ![i] = <<>>]

OnPrepare(i) ==
  /\ Receive(i, "prepare")
  /\ Enter(i, Head(inbox[i]).rid)
  /\ inbox' = Take(i)
  /\ UNCHANGED <<env, lock, store, warm, doc, buffer, taken, sending, quarantined, coord, history>>

ResetKeepsEdits(d, i, r) ==   \* mutant: only the old text is deleted
  [has |-> d.has \cup {<<r, i>>}, gone |-> d.gone \cup (Visible(d) \cap Texts)]
\* resetToTarget: delete what this room shows, insert the version's text.
Reset(d, i, r) ==
  [has |-> d.has \cup {<<r, i>>}, gone |-> d.gone \cup (Visible(d) \ {<<r, i>>})]

LeaveKeepsBuffer(i, r) ==   \* mutant: edits from before the reset are still written
  IF barrier[i] \in {None, r}
  THEN /\ barrier' = [barrier EXCEPT ![i] = None]
       /\ pending' = [pending EXCEPT ![i] = <<>>]
       /\ quarantined' = [quarantined EXCEPT ![i] = {}]
       /\ UNCHANGED buffer
  ELSE UNCHANGED <<barrier, buffer, pending, quarantined>>
\* commitRestoreBarrier: the reset supersedes what was waiting.
Leave(i, r) ==
  IF barrier[i] \in {None, r}
  THEN /\ barrier' = [barrier EXCEPT ![i] = None]
       /\ buffer' = [buffer EXCEPT ![i] = {}]
       /\ pending' = [pending EXCEPT ![i] = <<>>]
       /\ quarantined' = [quarantined EXCEPT ![i] = {}]
  ELSE UNCHANGED <<barrier, buffer, pending, quarantined>>

OnCommit(i) ==
  /\ Receive(i, "commit")
  /\ LET r == Head(inbox[i]).rid IN
       /\ Leave(i, r)
       /\ doc' = IF barrier[i] \in {None, r} THEN [doc EXCEPT ![i] = Reset(@, i, r)] ELSE doc
  /\ inbox' = Take(i)
  /\ UNCHANGED <<env, lock, store, warm, taken, sending, coord, history>>

AbortForgets(i, r) ==   \* mutant: what was kept aside is dropped
  /\ UNCHANGED <<env, doc, buffer>>
  /\ IF barrier[i] # r THEN UNCHANGED gate
     ELSE /\ barrier' = [barrier EXCEPT ![i] = None]
          /\ quarantined' = [quarantined EXCEPT ![i] = {}]
\* abortRestoreBarrier: what was kept aside is applied after all.
Abort(i, r) ==
  IF barrier[i] # r THEN UNCHANGED <<doc, buffer, barrier, quarantined>>
  ELSE /\ barrier' = [barrier EXCEPT ![i] = None]
       /\ quarantined' = [quarantined EXCEPT ![i] = {}]
       /\ Apply(i, [has |-> quarantined[i], gone |-> {}])

OnAbort(i) ==
  /\ Receive(i, "abort")
  /\ Abort(i, Head(inbox[i]).rid)
  /\ inbox' = Take(i)
  /\ UNCHANGED <<env, lock, store, warm, taken, queue, coord, history>>

-----------------------------------------------------------------------------
(* The coordinator: restoreFileVersion.                                    *)

LockFreeAlways(i) == TRUE   \* mutant: the lock is taken whoever holds it
\* The lock is re-entrant for the instance that holds it.
LockFree(i) == lock \in {None, i}

\* A restore that has the lock and has not released it.
Holding(r) ==
  phase[r] \in {"read", "flush", "prepare", "settle", "row", "snapshot", "commit", "abort", "release"}

Lock(r) ==
  /\ phase[r] = "none"
  /\ "again" \in env \/ \A s \in Restores : At[s] = At[r] => ~Holding(s)
  /\ "third" \in env \/ r \notin Third
  /\ IF LockFree(At[r]) THEN lock' = At[r] /\ Goto(r, "read")
     ELSE Goto(r, "refused") /\ UNCHANGED lock
  /\ UNCHANGED <<env, store, warm, doc, buffer, taken, inbox, queue, gate, cut, history>>

Begin(r) == Enter(At[r], r) /\ Goto(r, "prepare")

\* The version is read; the room is opened if need be; a barrier that is up
\* refuses; a leader first flushes, unless it does already: then nothing waits for that.
Read(r) ==
  /\ phase[r] = "read"
  /\ LET i == At[r] IN
       /\ IF warm[i] THEN UNCHANGED <<warm, doc, inbox>> ELSE Opened(i)
       /\ IF barrier[i] # None
          THEN Goto(r, "release") /\ UNCHANGED <<buffer, taken, barrier, pending>>
          ELSE IF i = Leader /\ buffer[i] # {} /\ taken = {}
          THEN /\ taken' = buffer[i]
               /\ buffer' = [buffer EXCEPT ![i] = {}]
               /\ Goto(r, "flush") /\ UNCHANGED <<barrier, pending>>
          ELSE Begin(r) /\ UNCHANGED <<buffer, taken>>
  /\ UNCHANGED <<env, lock, store, sending, quarantined, cut, history>>

VersionMissing(r) ==
  /\ "versionMissing" \in env /\ phase[r] = "read"
  /\ Goto(r, "release")
  /\ UNCHANGED <<env, lock, store, warm, doc, buffer, taken, inbox, queue, gate, cut, history>>

\* Whether a barrier went up meanwhile is not asked again.
Flushed(r) ==
  /\ phase[r] = "flush" /\ taken = {}
  /\ Begin(r)
  /\ UNCHANGED <<env, lock, store, warm, doc, buffer, taken, inbox, sending, quarantined, cut, history>>

PrepareOk(r) ==
  /\ phase[r] = "prepare"
  /\ inbox' = Published(inbox, At[r], [kind |-> "prepare", rid |-> r])
  /\ Goto(r, "settle")
  /\ UNCHANGED <<env, lock, store, warm, doc, buffer, taken, queue, gate, cut, history>>

\* preparePublished is still false: the coordinator's own barrier stays up.
PrepareFails(r) ==
  /\ "prepareFails" \in env /\ phase[r] = "prepare"
  /\ Goto(r, "release")
  /\ UNCHANGED <<env, lock, store, warm, doc, buffer, taken, inbox, queue, gate, cut, history>>

\* settleMs outlasts what was under way when the barrier went up.
Settled ==
  \/ "slow" \in env
  \/ taken = {} /\ \A i \in Instances : inbox[i] = <<>> /\ sending[i] = None

Settle(r) ==
  /\ phase[r] = "settle" /\ Settled
  /\ doc' = [doc EXCEPT ![At[r]] = Reset(@, At[r], r)]
  /\ before' = [before EXCEPT ![r] = Typed]
  /\ Goto(r, "row")
  /\ UNCHANGED <<env, lock, store, warm, buffer, taken, inbox, queue, gate, cut, typedOn, sent>>

\* persistRestore: a row with the version's bytes, then a snapshot of the room
\* that stands for every row up to this one.
RowOk(r) ==
  /\ phase[r] = "row"
  /\ cut' = [cut EXCEPT ![r] = [doc |-> doc[At[r]], rows |-> rows]]
  /\ Goto(r, "snapshot")
  /\ UNCHANGED <<env, lock, store, warm, doc, buffer, taken, inbox, queue, gate, history>>

StoreReset(r) ==
  /\ snap' = cut[r].doc
  /\ rows' = rows \ cut[r].rows

SnapshotOk(r) ==
  /\ phase[r] = "snapshot"
  /\ StoreReset(r)
  /\ Leave(At[r], r)
  /\ Goto(r, "commit")
  /\ UNCHANGED <<env, lock, warm, doc, taken, inbox, sending, cut, history>>

GiveUpAlone(r) ==   \* mutant: the others are not told
  /\ Abort(At[r], r)
  /\ Goto(r, "abort")
  /\ UNCHANGED <<env, lock, warm, taken, inbox, queue, cut, typedOn, sent>>
\* What each failure after prepare does: abort here, and tell the others.
GiveUp(r) ==
  /\ Abort(At[r], r)
  /\ inbox' = Published(inbox, At[r], [kind |-> "abort", rid |-> r])
  /\ Goto(r, "abort")
  /\ UNCHANGED <<env, lock, warm, taken, queue, cut, typedOn, sent>>

NotStored(r) ==
  /\ \/ "rowFails" \in env /\ phase[r] = "row"
     \/ "snapshotFails" \in env /\ phase[r] = "snapshot"
  /\ before' = [before EXCEPT ![r] = {}]
  /\ UNCHANGED store
\* What throws after the snapshot's row was written gives up a reset that is stored.
StoredAnyway(r) ==
  /\ "storedAnyway" \in env /\ phase[r] = "snapshot"
  /\ StoreReset(r)
  /\ UNCHANGED before

PersistFails(r) == GiveUp(r) /\ (NotStored(r) \/ StoredAnyway(r))

CommitOk(r) ==
  /\ phase[r] = "commit"
  /\ inbox' = Published(inbox, At[r], [kind |-> "commit", rid |-> r])
  /\ Goto(r, "done")
  /\ lock' = IF lock = At[r] THEN None ELSE lock
  /\ UNCHANGED <<env, store, warm, doc, buffer, taken, queue, gate, cut, history>>

\* The reset is stored, but the peers are told to forget it.
CommitFails(r) ==
  /\ "commitFails" \in env /\ phase[r] = "commit"
  /\ inbox' = Published(inbox, At[r], [kind |-> "abort", rid |-> r])
  /\ Goto(r, "release")
  /\ UNCHANGED <<env, lock, store, warm, doc, buffer, taken, queue, gate, cut, history>>

\* The lock is released if this instance holds it, for whichever restore.
Release(r) ==
  /\ phase[r] \in {"abort", "release"}
  /\ lock' = IF lock = At[r] THEN None ELSE lock
  /\ Goto(r, "failed")
  /\ UNCHANGED <<env, store, warm, doc, buffer, taken, inbox, queue, gate, cut, history>>

\* The process dies with its room and the requests it has not answered; once
\* restarted it is another instance.
Crash(r) ==
  /\ "crash" \in env /\ phase[r] \in {"settle", "row", "snapshot", "commit"}
  /\ LET i == At[r] IN
       /\ warm' = [warm EXCEPT ![i] = FALSE]
       /\ doc' = [doc EXCEPT ![i] = [has |-> {}, gone |-> {}]]
       /\ buffer' = [buffer EXCEPT ![i] = {}]
       /\ pending' = [pending EXCEPT ![i] = <<>>] /\ sending' = [sending EXCEPT ![i] = None]
       /\ barrier' = [barrier EXCEPT ![i] = None]
       /\ quarantined' = [quarantined EXCEPT ![i] = {}]
       /\ inbox' = [inbox EXCEPT ![i] = <<>>]
       /\ taken' = IF i = Leader THEN {} ELSE taken
  /\ phase' = [s \in Restores |->
       IF At[s] = At[r] /\ phase[s] \notin {"refused", "done", "failed"} THEN "dead" ELSE phase[s]]
  /\ before' = [s \in Restores |->
       IF At[s] = At[r] /\ phase[s] \in {"row", "snapshot"} THEN {} ELSE before[s]]
  /\ UNCHANGED <<env, lock, store, cut, typedOn, sent>>

\* The lock runs out by itself, and is not renewed: RESTORE_LOCK_MS is longer than
\* what a dead coordinator left under way.
LockExpires ==
  /\ lock # None
  /\ \/ "expires" \in env
     \/ Settled /\ \E r \in Restores : At[r] = lock /\ phase[r] = "dead"
  /\ lock' = None
  /\ UNCHANGED <<env, store, warm, doc, buffer, taken, inbox, queue, gate, coord, history>>

-----------------------------------------------------------------------------
Rooms(i) ==
  \/ Publish(i) \/ PublishReply(i) \/ OnUpdate(i) \/ OnAsk(i) \/ OnState(i)
  \/ OnPrepare(i) \/ OnCommit(i) \/ OnAbort(i)
Clients(i) == Join(i) \/ \E e \in Edits : Type(i, e)
Coordinator(r) ==
  \/ Read(r) \/ Flushed(r) \/ PrepareOk(r) \/ Settle(r) \/ RowOk(r) \/ SnapshotOk(r)
  \/ CommitOk(r) \/ Release(r)
Faults(r) ==
  \/ VersionMissing(r) \/ PrepareFails(r) \/ PersistFails(r) \/ CommitFails(r) \/ Crash(r)

Next ==
  \/ FlushStart \/ FlushEnd \/ LockExpires
  \/ \E i \in Instances : Rooms(i) \/ Clients(i)
  \/ \E r \in Restores : Lock(r) \/ Coordinator(r) \/ Faults(r)

Spec == Init /\ [][Next]_vars

\* Redis delivers, awaited calls return and the settle timer fires.  No owner has
\* to ask for a restore, no client has to type.
FairSpec ==
  /\ Spec /\ WF_vars(FlushEnd)
  /\ \A i \in Instances : WF_vars(Rooms(i))
  /\ \A r \in Restores : WF_vars(Coordinator(r))

-----------------------------------------------------------------------------
(* Properties.                                                             *)

\* Two restores never run at the same time, on whichever backends, unless one outlasts
\* its lock or a backend is asked again while it carries one out: the lock is the
\* backend's, and lets it in again (acquireRestoreLock).
OneRestore == {"expires", "again"} \cap env = {} =>
  \A r, s \in Restores :
    {phase[r], phase[s]} \subseteq {"prepare", "settle", "row", "snapshot"} => r = s

\* The edits a stored reset has superseded.
Superseded ==
  UNION {before[r] : r \in {s \in Restores : phase[s] \notin {"row", "snapshot"}}}

\* What a stored reset has superseded is not brought back by a later flush, though
\* versions vanish, calls fail, coordinators die and clients type all the time
\* (commitRestoreBarrier empties the buffers, writeSnapshot covers the rows); but not
\* where a reset is stored and the restore is given up all the same.
StoredStaysRestored ==
  {"storedAnyway", "commitFails", "slow", "join", "expires", "again"} \cap env = {} =>
    Visible(Stored) \cap Superseded = {}

\* A published edit that crosses a barrier is applied in the end, or superseded by a
\* stored reset: it is in the room, kept aside by its barrier, or on its way
\* (applyBusUpdate, abortRestoreBarrier).
EditsReachRooms ==
  {"slow", "after", "join", "expires", "again"} \cap env = {} =>
    \A e \in sent \ Superseded : \A i \in Instances :
      warm[i] => \/ e \in doc[i].has \cup quarantined[i]
                 \/ \E f \in Range(inbox[i]) : f.kind = "update" /\ f.edit = e

\* When nothing is under way all rooms show the same text, and the version's text
\* once, though every room carries the reset out by itself.
Quiescent ==
  /\ \A i \in Instances : /\ inbox[i] = <<>> /\ pending[i] = <<>> /\ sending[i] = None
                          /\ barrier[i] = None
  /\ \A r \in Restores : phase[r] \in {"none", "refused", "done", "failed", "dead"}
SameText ==
  env \subseteq {"versionMissing", "prepareFails", "crash", "more", "third"} /\ Quiescent =>
    \A i, j \in Instances :
      warm[i] /\ warm[j] => Text(doc[i]) = Text(doc[j]) /\ Text(doc[i]).texts = 1

\* No room stays behind a barrier: a restore commits or aborts, and its peers are
\* told (restoreFileVersion, abortRestoreBarrier).
BarrierEnds ==
  \A i \in Instances : \A r \in Restores :
    (barrier[i] = r) ~> (barrier[i] # r \/ {"prepareFails", "crash"} \cap env # {})

=============================================================================
