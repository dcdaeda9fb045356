------------------------ MODULE BackplaneInvariant ------------------------
(***************************************************************************)
(* Why what a follower drops is stored or kept, and why the snapshots of   *)
(* several leaders include each other's rows: the inductive invariant of   *)
(* Backplane that its proofs use, stated apart so that TLC can check it.   *)
(* It speaks of the settled scenarios, and of edits that do not build on   *)
(* one another (Unrelated).                                                *)
(***************************************************************************)
EXTENDS Backplane

Unrelated == \A e \in Edits : Needs[e] = {}

Stored == snap.upd \cup EditsOf(rows)
LeaderHas(e) == \E k \in Instances : leader[k] /\ e \in doc[k]
LeaderBuffers(e) == \E k \in Instances : leader[k] /\ e \in Buffers(k)

\* The edits of i's own clients that it buffers, or has taken to write.
Own(i) == (UNION Range(local[i])) \cup (UNION Range(taken[i].local))

Carries == {"doc-update", "sync-step2"}
Request(i) == [kind |-> "sync-step1", upd |-> {}, from |-> i]

\* The lease is the leader's.
OneLeader == \A j \in Instances : leader[j] => lease = j

\* Nobody buffers, queues or sends what its document does not have.
FromDocuments ==
  /\ \A j \in Instances : Buffers(j) \cup Range(pending[j]) \subseteq doc[j]
  /\ \A i \in Instances : \A f \in Range(inbox[i]) : f.kind \in Carries => f.upd \subseteq doc[f.from]

\* What nobody has typed is nowhere.
Typed == {Seed} \cup {e \in Edits : acceptedBy[e] # Nobody}
OnlyTyped == Stored \subseteq Typed /\ \A j \in Instances : doc[j] \subseteq Typed

\* What is in some document will reach every room that is loaded: the room is about
\* to ask for it, has it, is being sent it, or a peer will publish or answer it.
Reaches(i, e) ==
  \/ asks[i] > 0
  \/ e \in doc[i]
  \/ \E f \in Range(inbox[i]) : f.kind \in Carries /\ e \in f.upd
  \/ \E k \in Instances : k # i /\ e \in Range(pending[k])
  \/ \E k \in Instances : Request(i) \in Range(inbox[k]) /\ e \in doc[k]
AllReach == \A i, j \in Instances : room[i] = "warm" => \A e \in doc[j] : Reaches(i, e)

\* Whoever could be the next to write has all that is stored.
WritersKnow == \A i \in Instances : room[i] = "warm" => \A e \in Stored : e \in doc[i] \/ LeaderHas(e)

\* A leader has stored what its document has, or buffers it.
LeadersWrite == \A j \in Instances : leader[j] => doc[j] \subseteq Stored \cup Buffers(j)

\* What a follower is told is stored is stored, or a leader buffers it.
Confirmed == \A i \in Instances : \A f \in Range(inbox[i]) :
  f.kind = "persisted" => \A e \in f.upd : e \in Stored \/ LeaderBuffers(e)

\* An edit that is not stored has not been dropped by all who would write it.
OwedIsKept == \A e \in owed : e \in Stored \/ LeaderBuffers(e) \/ \E j \in Instances : e \in Own(j)

\* Nothing but what was stored is under way while a room leaves, and nobody
\* opens, asks or types.
OnlyConfirmations(i) == \A f \in Range(inbox[i]) : f.kind = "persisted"
Resting(i) ==
  /\ ~CatchingUp(i) /\ OnlyConfirmations(i)
  /\ "outage" \in env \/ pending[i] = <<>>
LeavesAlone == \A j \in Instances : Stopping(j) =>
  /\ room[j] = "warm" /\ ~conn[j] /\ pending[j] = <<>>
  /\ \A i \in Instances : Resting(i)

\* Only a loaded room asks; a tick writes what it took, records a document that has all that is stored, and
\* lets go of the lease, and of the room, with its buffers empty.
TickOf(j) ==
  /\ asks[j] > 0 => room[j] = "warm"
  /\ pc[j] # "create" => taken[j] = NoEntries
  /\ pc[j] = "create" /\ ret[j] = "capture" => room[j] = "warm"
  /\ pc[j] = "record" => /\ Stored \subseteq shot[j] /\ shot[j] \subseteq doc[j]
                         /\ ret[j] \in {"evict?", "rest"}
  /\ pc[j] = "release" \/ (pc[j] = "create" /\ ret[j] = "release") => ~Buffered(j)
  /\ pc[j] = "unsubscribe" => ~leader[j]
  /\ ~leader[j] /\ pc[j] \in {"evict", "unsubscribe"} => local[j] = <<>>
Ticks == \A j \in Instances : TickOf(j)

\* Ids are given in order, and a snapshot stands for rows that were given theirs.
Numbers ==
  /\ snap.upTo < nextRow
  /\ \A r \in rows : r.id < nextRow
  /\ \A j \in Instances : persistedUpTo[j] < nextRow

Contents == /\ OneLeader /\ FromDocuments /\ OnlyTyped /\ AllReach /\ WritersKnow
            /\ LeadersWrite /\ Confirmed /\ OwedIsKept /\ SnapshotStandsForItsRows
StoreInv == Numbers /\ (Settled => Contents /\ LeavesAlone /\ Ticks)
=============================================================================
