--------------------------- MODULE Restore_proofs ---------------------------
(***************************************************************************)
(* Proofs about the online rollback, for every number of instances, edits  *)
(* and restores: its types, its lock, the protocol of its barriers, that a *)
(* stored reset stays, that published edits reach the rooms, that the      *)
(* rooms agree in the end, and that no barrier is left without an end.     *)
(***************************************************************************)
EXTENDS RestoreInvariant, SequenceTheorems, FiniteSetTheorems, TLAPS

-----------------------------------------------------------------------------
(* The types. *)

LEMMA FrameTypes ==
  /\ \A e \in Edits : [kind |-> "update", edit |-> e] \in Frames
  /\ \A d \in Docs : [kind |-> "state", state |-> d] \in Frames
  /\ \A i \in Instances : [kind |-> "ask", from |-> i] \in Frames
  /\ \A r \in Restores : \A k \in {"prepare", "commit", "abort"} : [kind |-> k, rid |-> r] \in Frames
BY DEF Frames

\* The kind of a frame says what it carries.
LEMMA FrameFields ==
  ASSUME NEW f \in Frames
  PROVE  /\ f.kind \in {"update", "state", "ask", "prepare", "commit", "abort"}
         /\ f.kind = "update" => f = [kind |-> "update", edit |-> f.edit] /\ f.edit \in Edits
         /\ f.kind = "state" => f.state \in Docs
         /\ f.kind = "ask" => f.from \in Instances
         /\ f.kind \in {"prepare", "commit", "abort"} =>
              f = [kind |-> f.kind, rid |-> f.rid] /\ f.rid \in Restores
BY DEF Frames

LEMMA DocTypes ==
  /\ Start \in Docs /\ [has |-> {}, gone |-> {}] \in Docs
  /\ \A d, e \in Docs : Merge(d, e) \in Docs
  /\ \A s \in SUBSET Edits : [has |-> s, gone |-> {}] \in Docs
  /\ \A d \in Docs : \A s \in SUBSET Edits : [d EXCEPT !.has = @ \cup s] \in Docs
  /\ \A d \in Docs : \A i \in Instances : \A r \in Restores : Reset(d, i, r) \in Docs
BY DEF Docs, Start, Merge, Reset, Visible, Pieces, Texts, Copies

LEMMA PublishedType ==
  ASSUME NEW f \in Frames, NEW i, inbox \in [Instances -> Seq(Frames)], warm \in [Instances -> BOOLEAN]
  PROVE  Published(inbox, i, f) \in [Instances -> Seq(Frames)]
<1>1. ASSUME NEW j \in Instances PROVE Append(inbox[j], f) \in Seq(Frames)
  OBVIOUS
<1> QED
  BY <1>1 DEF Published

LEMMA TakeType ==
  ASSUME NEW i \in Instances, inbox \in [Instances -> Seq(Frames)], inbox[i] # <<>>
  PROVE  Head(inbox[i]) \in Frames /\ Take(i) \in [Instances -> Seq(Frames)]
<1>1. Head(inbox[i]) \in Frames /\ Tail(inbox[i]) \in Seq(Frames)
  OBVIOUS
<1> QED
  BY <1>1 DEF Take

\* Only the edits of a room are buffered.
LEMMA ApplyType ==
  ASSUME TypeOK, NEW i \in Instances, NEW d \in Docs, Apply(i, d)
  PROVE  doc' \in [Instances -> Docs] /\ buffer' \in [Instances -> SUBSET Edits]
<1>1. Merge(doc[i], d) \in Docs
  BY DocTypes DEF TypeOK
<1>2. doc \in [Instances -> Docs] /\ buffer \in [Instances -> SUBSET Edits]
  BY DEF TypeOK
<1> QED
  BY <1>1, <1>2 DEF Apply

\* What keeps edits aside is a barrier, behind which none waits to be published.
Gate(i) == IF barrier[i] = None THEN quarantined[i] = {} ELSE pending[i] = <<>>

LEMMA EnterType ==
  ASSUME TypeOK, NEW i \in Instances, NEW r \in Restores, Enter(i, r), UNCHANGED quarantined
  PROVE  /\ barrier' \in [Instances -> Restores \cup {None}]
         /\ pending' \in [Instances -> Seq(Edits)]
         /\ \A j \in Instances : Gate(j)'
<1>1. /\ barrier \in [Instances -> Restores \cup {None}] /\ pending \in [Instances -> Seq(Edits)]
      /\ \A j \in Instances : Gate(j)
  BY DEF TypeOK, Gate
<1>2. r # None /\ <<>> \in Seq(Edits)
  BY NoneAssumption
<1> QED
  BY <1>1, <1>2 DEF Enter, Gate

LEMMA LeaveType ==
  ASSUME TypeOK, NEW i \in Instances, NEW r \in Restores, Leave(i, r)
  PROVE  /\ barrier' \in [Instances -> Restores \cup {None}]
         /\ pending' \in [Instances -> Seq(Edits)]
         /\ buffer' \in [Instances -> SUBSET Edits]
         /\ quarantined' \in [Instances -> SUBSET Edits]
         /\ \A j \in Instances : Gate(j)'
<1>1. /\ barrier \in [Instances -> Restores \cup {None}] /\ pending \in [Instances -> Seq(Edits)]
      /\ buffer \in [Instances -> SUBSET Edits] /\ quarantined \in [Instances -> SUBSET Edits]
      /\ \A j \in Instances : Gate(j)
  BY DEF TypeOK, Gate
<1>2. <<>> \in Seq(Edits)
  OBVIOUS
<1> QED
  BY <1>1, <1>2 DEF Leave, Gate

LEMMA AbortType ==
  ASSUME TypeOK, NEW i \in Instances, NEW r \in Restores, Abort(i, r), UNCHANGED pending
  PROVE  /\ barrier' \in [Instances -> Restores \cup {None}]
         /\ doc' \in [Instances -> Docs]
         /\ buffer' \in [Instances -> SUBSET Edits]
         /\ quarantined' \in [Instances -> SUBSET Edits]
         /\ \A j \in Instances : Gate(j)'
<1>1. /\ barrier \in [Instances -> Restores \cup {None}] /\ doc \in [Instances -> Docs]
      /\ buffer \in [Instances -> SUBSET Edits] /\ quarantined \in [Instances -> SUBSET Edits]
      /\ \A j \in Instances : Gate(j)
  BY DEF TypeOK, Gate
<1>2. CASE barrier[i] # r
  BY <1>1, <1>2 DEF Abort, Gate
<1>3. CASE barrier[i] = r
  <2>1. [has |-> quarantined[i], gone |-> {}] \in Docs
    BY <1>1, DocTypes
  <2>2. doc' \in [Instances -> Docs] /\ buffer' \in [Instances -> SUBSET Edits]
    BY <1>3, <2>1, ApplyType DEF Abort
  <2> QED
    BY <1>1, <1>3, <2>2 DEF Abort, Gate
<1> QED
  BY <1>2, <1>3

LEMMA GotoType ==
  ASSUME NEW r \in Restores, NEW p \in Phases, phase \in [Restores -> Phases], Goto(r, p)
  PROVE  phase' \in [Restores -> Phases]
BY DEF Goto

LEMMA OpenedType ==
  ASSUME TypeOK, NEW i \in Instances, Opened(i)
  PROVE  /\ warm' \in [Instances -> BOOLEAN] /\ doc' \in [Instances -> Docs]
         /\ inbox' \in [Instances -> Seq(Frames)]
<1>1. Stored \in Docs
  BY DocTypes DEF TypeOK, Stored
<1>2. Published(inbox, i, [kind |-> "ask", from |-> i]) \in [Instances -> Seq(Frames)]
  BY FrameTypes, PublishedType DEF TypeOK
<1> QED
  BY <1>1, <1>2 DEF TypeOK, Opened

LEMMA TypeOfRoomSteps ==
  ASSUME TypeOK, NEW i \in Instances, Rooms(i) \/ Clients(i)
  PROVE  TypeOK'
<1> USE DEF store, queue, gate, coord, history
<1>1. CASE Publish(i)
  <2>1. Head(pending[i]) \in Edits
    BY <1>1 DEF Publish, TypeOK
  <2>2. inbox' \in [Instances -> Seq(Frames)]
    BY <1>1, <2>1, FrameTypes, PublishedType DEF Publish, TypeOK
  <2> QED
    BY <1>1, <2>1, <2>2 DEF Publish, TypeOK
<1>2. CASE PublishReply(i)
  <2>1. \A s \in Seq(Edits) : s # <<>> => Tail(s) \in Seq(Edits)
    OBVIOUS
  <2> QED
    BY <1>2, <2>1 DEF PublishReply, TypeOK
<1>3. CASE OnUpdate(i)
  <2>1. Head(inbox[i]) \in Frames /\ inbox' \in [Instances -> Seq(Frames)]
    BY <1>3, TakeType DEF OnUpdate, Receive, TypeOK
  <2>2. Head(inbox[i]).edit \in Edits
    BY <1>3, <2>1, FrameFields DEF OnUpdate, Receive
  <2>3. CASE barrier[i] = None
    <3>1. Apply(i, [has |-> {Head(inbox[i]).edit}, gone |-> {}]) /\ UNCHANGED quarantined
      BY <1>3, <2>3 DEF OnUpdate
    <3>2. [has |-> {Head(inbox[i]).edit}, gone |-> {}] \in Docs
      BY <2>2, DocTypes
    <3>3. doc' \in [Instances -> Docs] /\ buffer' \in [Instances -> SUBSET Edits]
      BY <3>1, <3>2, ApplyType
    <3> QED
      BY <1>3, <2>1, <3>1, <3>3 DEF OnUpdate, TypeOK
  <2>4. CASE barrier[i] # None
    <3>1. /\ quarantined' = [quarantined EXCEPT ![i] = @ \cup {Head(inbox[i]).edit}]
          /\ UNCHANGED <<env, lock, store, warm, doc, buffer, taken, queue, barrier, coord, history>>
      BY <1>3, <2>4 DEF OnUpdate
    <3>2. quarantined' \in [Instances -> SUBSET Edits]
      BY <2>2, <3>1 DEF TypeOK
    <3>3. \A k \in Instances : Gate(k)'
      BY <2>4, <3>1 DEF TypeOK, Gate
    <3> QED
      BY <2>1, <3>1, <3>2, <3>3 DEF TypeOK, Gate
  <2> QED
    BY <2>3, <2>4
<1>4. CASE OnAsk(i)
  <2>1. Head(inbox[i]) \in Frames /\ Take(i) \in [Instances -> Seq(Frames)]
    BY <1>4, TakeType DEF OnAsk, Receive, TypeOK
  <2> DEFINE j == Head(inbox[i]).from
             f == [kind |-> "state", state |-> doc[i]]
  <2>2. j \in Instances /\ f \in Frames
    BY <1>4, <2>1, FrameFields, FrameTypes DEF OnAsk, Receive, TypeOK
  <2>3. Append(Take(i)[j], f) \in Seq(Frames)
    BY <2>1, <2>2
  <2>4. inbox' = [Take(i) EXCEPT ![j] = Append(@, f)]
    BY <1>4 DEF OnAsk
  <2> HIDE DEF j, f
  <2>5. inbox' \in [Instances -> Seq(Frames)]
    BY <2>1, <2>2, <2>3, <2>4
  <2> QED
    BY <1>4, <2>5 DEF OnAsk, TypeOK
<1>5. CASE OnState(i)
  <2>1. Head(inbox[i]) \in Frames /\ inbox' \in [Instances -> Seq(Frames)]
    BY <1>5, TakeType DEF OnState, Receive, TypeOK
  <2>2. Head(inbox[i]).state \in Docs
    BY <1>5, <2>1, FrameFields DEF OnState, Receive
  <2>3. doc' \in [Instances -> Docs] /\ buffer' \in [Instances -> SUBSET Edits]
    BY <1>5, <2>2, ApplyType DEF OnState
  <2> QED
    BY <1>5, <2>1, <2>3 DEF OnState, TypeOK
<1>6. CASE OnPrepare(i)
  <2>1. Head(inbox[i]) \in Frames /\ inbox' \in [Instances -> Seq(Frames)]
    BY <1>6, TakeType DEF OnPrepare, Receive, TypeOK
  <2>2. Head(inbox[i]).rid \in Restores
    BY <1>6, <2>1, FrameFields DEF OnPrepare, Receive
  <2>3. Enter(i, Head(inbox[i]).rid) /\ UNCHANGED quarantined
    BY <1>6 DEF OnPrepare
  <2>4. /\ barrier' \in [Instances -> Restores \cup {None}]
        /\ pending' \in [Instances -> Seq(Edits)]
        /\ \A k \in Instances : Gate(k)'
    BY <2>2, <2>3, EnterType
  <2> QED
    BY <1>6, <2>1, <2>4 DEF OnPrepare, TypeOK, Gate
<1>7. CASE OnCommit(i)
  <2>1. Head(inbox[i]) \in Frames /\ inbox' \in [Instances -> Seq(Frames)]
    BY <1>7, TakeType DEF OnCommit, Receive, TypeOK
  <2> DEFINE r == Head(inbox[i]).rid
  <2>2. r \in Restores
    BY <1>7, <2>1, FrameFields DEF OnCommit, Receive
  <2>3. /\ Leave(i, r)
        /\ doc' = IF barrier[i] \in {None, r} THEN [doc EXCEPT ![i] = Reset(@, i, r)] ELSE doc
    BY <1>7 DEF OnCommit
  <2> HIDE DEF r
  <2>4. Reset(doc[i], i, r) \in Docs
    BY <2>2, DocTypes DEF TypeOK
  <2>5. doc' \in [Instances -> Docs]
    BY <2>3, <2>4 DEF TypeOK
  <2>6. /\ barrier' \in [Instances -> Restores \cup {None}]
        /\ pending' \in [Instances -> Seq(Edits)]
        /\ buffer' \in [Instances -> SUBSET Edits]
        /\ quarantined' \in [Instances -> SUBSET Edits]
        /\ \A k \in Instances : Gate(k)'
    BY <2>2, <2>3, LeaveType
  <2> QED
    BY <1>7, <2>1, <2>5, <2>6 DEF OnCommit, TypeOK, Gate
<1>8. CASE OnAbort(i)
  <2>1. Head(inbox[i]) \in Frames /\ inbox' \in [Instances -> Seq(Frames)]
    BY <1>8, TakeType DEF OnAbort, Receive, TypeOK
  <2>2. Head(inbox[i]).rid \in Restores
    BY <1>8, <2>1, FrameFields DEF OnAbort, Receive
  <2>3. Abort(i, Head(inbox[i]).rid) /\ UNCHANGED pending
    BY <1>8 DEF OnAbort
  <2>4. /\ barrier' \in [Instances -> Restores \cup {None}]
        /\ doc' \in [Instances -> Docs]
        /\ buffer' \in [Instances -> SUBSET Edits]
        /\ quarantined' \in [Instances -> SUBSET Edits]
        /\ \A k \in Instances : Gate(k)'
    BY <2>2, <2>3, AbortType
  <2> QED
    BY <1>8, <2>1, <2>4 DEF OnAbort, TypeOK, Gate
<1>9. CASE Join(i)
  <2>1. /\ warm' \in [Instances -> BOOLEAN] /\ doc' \in [Instances -> Docs]
        /\ inbox' \in [Instances -> Seq(Frames)]
    BY <1>9, OpenedType DEF Join
  <2> QED
    BY <1>9, <2>1 DEF Join, TypeOK
<1>10. CASE \E e \in Edits : Type(i, e)
  <2> PICK e \in Edits : Type(i, e)
    BY <1>10
  <2>1. [doc[i] EXCEPT !.has = @ \cup {e}] \in Docs
    BY DocTypes DEF TypeOK
  <2>2. doc' = [doc EXCEPT ![i] = [doc[i] EXCEPT !.has = @ \cup {e}]]
    BY DEF Type
  <2>3. doc' \in [Instances -> Docs]
    BY <2>1, <2>2 DEF TypeOK
  <2>4. typedOn' \in [Edits -> SUBSET Texts]
    BY DEF Type, TypeOK
  <2>5. Append(pending[i], e) \in Seq(Edits) /\ <<>> \in Seq(Edits)
    BY DEF TypeOK
  <2>6. CASE barrier[i] = None
    <3>1. /\ pending' = [pending EXCEPT ![i] = Append(@, e)]
          /\ buffer' = [buffer EXCEPT ![i] = @ \cup {e}]
          /\ UNCHANGED <<env, lock, store, warm, taken, inbox, sending, gate, coord, before, sent>>
      BY <2>6 DEF Type
    <3>2. pending' \in [Instances -> Seq(Edits)] /\ buffer' \in [Instances -> SUBSET Edits]
      BY <2>5, <3>1 DEF TypeOK
    <3>3. \A k \in Instances : Gate(k)'
      BY <2>6, <3>1 DEF TypeOK, Gate
    <3> QED
      BY <2>3, <2>4, <3>1, <3>2, <3>3 DEF TypeOK, Gate
  <2>7. CASE barrier[i] # None
    <3>1. /\ pending' = [pending EXCEPT ![i] = <<>>]
          /\ UNCHANGED <<env, lock, store, warm, buffer, taken, inbox, sending, gate, coord, before, sent>>
      BY <2>7 DEF Type
    <3>2. pending' \in [Instances -> Seq(Edits)]
      BY <2>5, <3>1 DEF TypeOK
    <3>3. \A k \in Instances : Gate(k)'
      BY <2>7, <3>1 DEF TypeOK, Gate
    <3> QED
      BY <2>3, <2>4, <3>1, <3>2, <3>3 DEF TypeOK, Gate
  <2> QED
    BY <2>6, <2>7
<1> QED
  BY <1>1, <1>2, <1>3, <1>4, <1>5, <1>6, <1>7, <1>8, <1>9, <1>10 DEF Rooms, Clients

LEMMA TypeOfRestoreSteps ==
  ASSUME TypeOK, NEW r \in Restores, Lock(r) \/ Coordinator(r) \/ Faults(r)
  PROVE  TypeOK'
<1> USE DEF store, queue, gate, coord, history
<1> DEFINE i == At[r]
<1>a. i \in Instances
  BY AtAssumption
<1> HIDE DEF i
<1>b. ASSUME NEW p \in Phases, Goto(r, p) PROVE phase' \in [Restores -> Phases]
  BY <1>b, GotoType DEF TypeOK
<1>c. \A p \in {"refused", "read", "flush", "prepare", "settle", "row", "snapshot",
                "commit", "abort", "release", "done", "failed"} : p \in Phases
  BY DEF Phases
<1>d. ASSUME NEW k \in {"prepare", "commit", "abort"}, inbox' = Published(inbox, i, [kind |-> k, rid |-> r])
      PROVE  inbox' \in [Instances -> Seq(Frames)]
  BY <1>d, FrameTypes, PublishedType DEF TypeOK
<1>1. CASE Lock(r)
  <2>1. phase' \in [Restores -> Phases] /\ lock' \in Instances \cup {None}
    BY <1>1, <1>a, <1>b, <1>c DEF Lock, TypeOK, i
  <2> QED
    BY <1>1, <2>1 DEF Lock, TypeOK
<1>2. CASE Read(r)
  <2>1. /\ warm' \in [Instances -> BOOLEAN] /\ doc' \in [Instances -> Docs]
        /\ inbox' \in [Instances -> Seq(Frames)]
    BY <1>2, <1>a, OpenedType DEF Read, TypeOK, i
  <2>2. \/ barrier[i] # None /\ Goto(r, "release") /\ UNCHANGED <<buffer, taken, barrier, pending>>
        \/ /\ barrier[i] = None
           /\ taken' = buffer[i] /\ buffer' = [buffer EXCEPT ![i] = {}]
           /\ Goto(r, "flush") /\ UNCHANGED <<barrier, pending>>
        \/ Enter(i, r) /\ Goto(r, "prepare") /\ UNCHANGED <<buffer, taken>>
    BY <1>2 DEF Read, Begin, i
  <2>3. /\ UNCHANGED <<env, lock, snap, rows, sending, quarantined, cut, typedOn, before, sent>>
    BY <1>2 DEF Read
  <2>4. phase' \in [Restores -> Phases]
    BY <2>2, <1>b, <1>c
  <2>5. CASE UNCHANGED <<buffer, taken, barrier, pending>>
    BY <2>1, <2>3, <2>4, <2>5 DEF TypeOK
  <2>6. CASE taken' = buffer[i] /\ buffer' = [buffer EXCEPT ![i] = {}] /\ UNCHANGED <<barrier, pending>>
    BY <1>a, <2>1, <2>3, <2>4, <2>6 DEF TypeOK
  <2>7. CASE Enter(i, r) /\ UNCHANGED <<buffer, taken>>
    BY <1>a, <2>1, <2>3, <2>4, <2>7, EnterType DEF TypeOK, Gate
  <2> QED
    BY <2>2, <2>5, <2>6, <2>7
<1>3. CASE Flushed(r)
  <2>1. Enter(i, r) /\ Goto(r, "prepare") /\ UNCHANGED quarantined
    BY <1>3 DEF Flushed, Begin, i
  <2>2. phase' \in [Restores -> Phases]
    BY <2>1, <1>b, <1>c
  <2> QED
    BY <1>3, <1>a, <2>1, <2>2, EnterType DEF Flushed, TypeOK, Gate
<1>4. CASE PrepareOk(r) \/ CommitFails(r)
  <2>1. inbox' \in [Instances -> Seq(Frames)] /\ phase' \in [Restores -> Phases]
    BY <1>4, <1>b, <1>c, <1>d DEF PrepareOk, CommitFails, i
  <2> QED
    BY <1>4, <2>1 DEF PrepareOk, CommitFails, TypeOK
<1>5. CASE CommitOk(r)
  <2>1. /\ inbox' \in [Instances -> Seq(Frames)] /\ phase' \in [Restores -> Phases]
        /\ lock' \in Instances \cup {None}
    BY <1>5, <1>b, <1>c, <1>d DEF CommitOk, i, TypeOK
  <2> QED
    BY <1>5, <2>1 DEF CommitOk, TypeOK
<1>6. CASE Settle(r)
  <2>1. phase' \in [Restores -> Phases]
    BY <1>6, <1>b, <1>c DEF Settle
  <2>2. doc' = [doc EXCEPT ![i] = Reset(doc[i], i, r)] /\ Reset(doc[i], i, r) \in Docs
    BY <1>6, <1>a, DocTypes DEF Settle, i, TypeOK
  <2>3. doc' \in [Instances -> Docs]
    BY <2>2 DEF TypeOK
  <2>4. before' \in [Restores -> SUBSET Edits]
    BY <1>6 DEF Settle, Typed, TypeOK
  <2> QED
    BY <1>6, <2>1, <2>3, <2>4 DEF Settle, TypeOK
<1>7. CASE RowOk(r)
  <2>1. phase' \in [Restores -> Phases]
    BY <1>7, <1>b, <1>c DEF RowOk
  <2>2. cut' \in [Restores -> [doc : Docs, rows : SUBSET Edits]]
    BY <1>7, <1>a DEF RowOk, TypeOK, i
  <2> QED
    BY <1>7, <2>1, <2>2 DEF RowOk, TypeOK
<1>8. CASE SnapshotOk(r)
  <2>1. phase' \in [Restores -> Phases]
    BY <1>8, <1>b, <1>c DEF SnapshotOk
  <2>2. snap' \in Docs /\ rows' \subseteq Edits
    BY <1>8 DEF SnapshotOk, StoreReset, TypeOK
  <2>3. Leave(i, r)
    BY <1>8 DEF SnapshotOk, i
  <2>4. /\ barrier' \in [Instances -> Restores \cup {None}]
        /\ pending' \in [Instances -> Seq(Edits)]
        /\ buffer' \in [Instances -> SUBSET Edits]
        /\ quarantined' \in [Instances -> SUBSET Edits]
        /\ \A k \in Instances : Gate(k)'
    BY <1>a, <2>3, LeaveType
  <2> QED
    BY <1>8, <2>1, <2>2, <2>4 DEF SnapshotOk, TypeOK, Gate
<1>9. CASE PersistFails(r)
  <2>1. /\ Abort(i, r) /\ UNCHANGED pending
        /\ inbox' = Published(inbox, i, [kind |-> "abort", rid |-> r])
        /\ Goto(r, "abort")
        /\ UNCHANGED <<env, lock, warm, taken, queue, cut, typedOn, sent>>
    BY <1>9 DEF PersistFails, GiveUp, i
  <2>2. inbox' \in [Instances -> Seq(Frames)] /\ phase' \in [Restores -> Phases]
    BY <2>1, <1>b, <1>c, <1>d
  <2>3. /\ barrier' \in [Instances -> Restores \cup {None}]
        /\ doc' \in [Instances -> Docs]
        /\ buffer' \in [Instances -> SUBSET Edits]
        /\ quarantined' \in [Instances -> SUBSET Edits]
        /\ \A k \in Instances : Gate(k)'
    BY <1>a, <2>1, AbortType
  <2>4. before' \in [Restores -> SUBSET Edits]
    BY <1>9 DEF PersistFails, NotStored, StoredAnyway, TypeOK
  <2>5. snap' \in Docs /\ rows' \subseteq Edits
    BY <1>9 DEF PersistFails, NotStored, StoredAnyway, StoreReset, TypeOK
  <2> QED
    BY <2>1, <2>2, <2>3, <2>4, <2>5 DEF TypeOK, Gate
<1>10. CASE Release(r) \/ VersionMissing(r) \/ PrepareFails(r)
  <2>1. phase' \in [Restores -> Phases] /\ lock' \in Instances \cup {None}
    BY <1>10, <1>b, <1>c DEF Release, VersionMissing, PrepareFails, TypeOK
  <2> QED
    BY <1>10, <2>1 DEF Release, VersionMissing, PrepareFails, TypeOK
<1>11. CASE Crash(r)
  <2>1. phase' \in [Restores -> Phases] /\ before' \in [Restores -> SUBSET Edits]
    BY <1>11 DEF Crash, TypeOK, Phases
  <2>2. /\ doc' = [doc EXCEPT ![i] = [has |-> {}, gone |-> {}]]
        /\ inbox' = [inbox EXCEPT ![i] = <<>>] /\ pending' = [pending EXCEPT ![i] = <<>>]
        /\ warm' = [warm EXCEPT ![i] = FALSE] /\ buffer' = [buffer EXCEPT ![i] = {}]
        /\ sending' = [sending EXCEPT ![i] = None] /\ barrier' = [barrier EXCEPT ![i] = None]
        /\ quarantined' = [quarantined EXCEPT ![i] = {}]
        /\ taken' \in {{}, taken}
        /\ UNCHANGED <<env, lock, snap, rows, cut, typedOn, sent>>
    BY <1>11 DEF Crash, i
  <2>3. doc' \in [Instances -> Docs]
    BY <2>2, DocTypes DEF TypeOK
  <2>4. inbox' \in [Instances -> Seq(Frames)] /\ pending' \in [Instances -> Seq(Edits)]
    <3>1. <<>> \in Seq(Frames) /\ <<>> \in Seq(Edits)
      OBVIOUS
    <3> QED
      BY <2>2, <3>1 DEF TypeOK
  <2>5. \A k \in Instances : Gate(k)'
    BY <2>2 DEF TypeOK, Gate
  <2>6. /\ warm' \in [Instances -> BOOLEAN] /\ buffer' \in [Instances -> SUBSET Edits]
        /\ sending' \in [Instances -> Edits \cup {None}] /\ taken' \subseteq Edits
        /\ barrier' \in [Instances -> Restores \cup {None}]
        /\ quarantined' \in [Instances -> SUBSET Edits]
    BY <2>2 DEF TypeOK
  <2> QED
    BY <2>1, <2>2, <2>3, <2>4, <2>5, <2>6 DEF TypeOK, Gate
<1> QED
  BY <1>1, <1>2, <1>3, <1>4, <1>5, <1>6, <1>7, <1>8, <1>9, <1>10, <1>11 DEF Coordinator, Faults

LEMMA TypeInit == Init => TypeOK
<1> SUFFICES ASSUME Init PROVE TypeOK
  OBVIOUS
<1>1. Start \in Docs /\ [has |-> {}, gone |-> {}] \in Docs
  BY DocTypes
<1>2. doc \in [Instances -> Docs]
  BY <1>1 DEF Init
<1> QED
  BY <1>1, <1>2 DEF Init, TypeOK, Phases

LEMMA TypeStep == TypeOK /\ [Next]_vars => TypeOK'
<1> SUFFICES ASSUME TypeOK, [Next]_vars PROVE TypeOK'
  OBVIOUS
<1>1. CASE FlushStart \/ FlushEnd \/ LockExpires \/ UNCHANGED vars
  BY <1>1, RoomsAssumption
  DEF FlushStart, FlushEnd, LockExpires, vars, TypeOK, store, queue, gate, coord, history
<1> QED
  BY <1>1, TypeOfRoomSteps, TypeOfRestoreSteps DEF Next

\* The types, among them that a room keeps edits aside only behind a barrier
\* (applyBusUpdate) and that behind one nothing waits to be published
\* (enterRestoreBarrier, applyClientUpdate), whatever fails.
THEOREM TypeCorrect == Spec => []TypeOK
BY TypeInit, TypeStep, PTL DEF Spec

\* What may happen is fixed when a behaviour begins.
LEMMA EnvStays == [Next]_vars => env' = env
BY DEF Next, FlushStart, FlushEnd, LockExpires, Rooms, Clients, Publish, PublishReply, OnUpdate,
       OnAsk, OnState, OnPrepare, OnCommit, OnAbort, Join, Type, Lock, Coordinator, Read, Flushed,
       PrepareOk, Settle, RowOk, SnapshotOk, CommitOk, Release, Faults, VersionMissing,
       PrepareFails, PersistFails, GiveUp, CommitFails, Crash, vars

\* A step of one restore that keeps the lock, or gives it up when it ends.
LEMMA OneMoves ==
  ASSUME LockInv, NEW r \in Restores, NEW p \in Phases, p # "dead", Goto(r, p), Holding(r), lock' = lock
  PROVE  LockInv'
BY DEF LockInv, Goto, Holding

LEMMA OneEnds ==
  ASSUME Serial, LockInv, NEW r \in Restores, NEW p \in {"done", "failed"}, Goto(r, p), Holding(r),
         lock' = IF lock = At[r] THEN None ELSE lock
  PROVE  LockInv'
BY DEF Serial, LockInv, Goto, Holding, Phases

LEMMA SerialStep ==
  ASSUME Serial, "again" \notin env, LockInv, [Next]_vars
  PROVE  Serial'
<1>1. CASE \E r \in Restores : Lock(r)
  <2> PICK r \in Restores : Lock(r)
    BY <1>1
  <2>1. /\ \A s \in Restores : At[s] = At[r] => ~Holding(s)
        /\ \A s \in Restores : s # r => phase'[s] = phase[s]
    BY DEF Lock, Goto, LockInv
  <2> QED
    BY <2>1 DEF Serial, Holding
<1>2. CASE \E r \in Restores : \E p \in Phases : Goto(r, p) /\ Holding(r)
  BY <1>2 DEF Serial, LockInv, Goto, Holding
<1>3. CASE \E r \in Restores : Crash(r)
  BY <1>3 DEF Serial, LockInv, Crash, Holding
<1>4. CASE UNCHANGED phase
  BY <1>4 DEF Serial, Holding
<1>5. FlushStart \/ FlushEnd \/ LockExpires \/ UNCHANGED vars => UNCHANGED phase
  BY DEF FlushStart, FlushEnd, LockExpires, vars, coord
<1>6. \A i \in Instances : Rooms(i) => UNCHANGED phase
  BY DEF Rooms, Publish, PublishReply, OnUpdate, OnAsk, OnState, OnPrepare, OnCommit, OnAbort, coord
<1>7. \A i \in Instances : Clients(i) => UNCHANGED phase
  BY DEF Clients, Join, Type, coord
<1>8. \A r \in Restores : Coordinator(r) => \E p \in Phases : Goto(r, p) /\ Holding(r)
  BY DEF Coordinator, Read, Flushed, PrepareOk, Settle, RowOk, SnapshotOk, CommitOk, Release,
         Begin, Holding, Phases
<1>9. \A r \in Restores : Faults(r) => Crash(r) \/ \E p \in Phases : Goto(r, p) /\ Holding(r)
  BY DEF Faults, VersionMissing, PrepareFails, PersistFails, NotStored, StoredAnyway, GiveUp,
         CommitFails, Holding, Phases
<1> QED
  BY <1>1, <1>2, <1>3, <1>4, <1>5, <1>6, <1>7, <1>8, <1>9 DEF Next

LEMMA LockStep ==
  ASSUME Serial, "expires" \notin env, LockInv, [Next]_vars
  PROVE  LockInv'
<1>1. CASE \E r \in Restores : Lock(r)
  <2> PICK r \in Restores : Lock(r)
    BY <1>1
  <2>1. CASE LockFree(At[r]) /\ lock' = At[r] /\ Goto(r, "read")
    <3>1. ASSUME NEW s \in Restores, Holding(s) PROVE lock' = At[s]
      <4>1. lock = At[s] /\ At[s] # None
        BY <3>1, AtAssumption, NoneAssumption DEF LockInv
      <4> QED
        BY <2>1, <4>1 DEF LockFree
    <3>2. \A s \in Restores : s # r => phase'[s] = phase[s]
      BY <2>1 DEF LockInv, Goto
    <3>3. phase' \in [Restores -> Phases]
      BY <2>1 DEF LockInv, Goto, Phases
    <3>4. phase'[r] = "read" /\ phase[r] = "none"
      BY <1>1, <2>1 DEF LockInv, Goto, Lock
    <3> QED
      BY <2>1, <3>1, <3>2, <3>3, <3>4 DEF LockInv, Holding
  <2>2. CASE Goto(r, "refused") /\ lock' = lock
    BY <2>2 DEF LockInv, Goto, Holding, Phases
  <2> QED
    BY <2>1, <2>2 DEF Lock
<1>2. CASE \E r \in Restores : Coordinator(r)
  <2> PICK r \in Restores : Coordinator(r)
    BY <1>2
  <2>1. CASE Read(r)
    <3>1. Holding(r) /\ lock' = lock
      BY <2>1 DEF Read, Holding
    <3>2. \E p \in Phases : p # "dead" /\ Goto(r, p)
      BY <2>1 DEF Read, Begin, Phases
    <3> QED
      BY <3>1, <3>2, OneMoves
  <2>2. CASE Flushed(r) \/ PrepareOk(r) \/ Settle(r) \/ RowOk(r) \/ SnapshotOk(r)
    <3>1. Holding(r) /\ lock' = lock
      BY <2>2 DEF Flushed, PrepareOk, Settle, RowOk, SnapshotOk, Holding
    <3>2. \E p \in Phases : p # "dead" /\ Goto(r, p)
      BY <2>2 DEF Flushed, PrepareOk, Settle, RowOk, SnapshotOk, Begin, Phases
    <3> QED
      BY <3>1, <3>2, OneMoves
  <2>3. CASE CommitOk(r) \/ Release(r)
    <3>1. /\ Holding(r) /\ lock' = IF lock = At[r] THEN None ELSE lock
          /\ \E p \in {"done", "failed"} : Goto(r, p)
      BY <2>3 DEF CommitOk, Release, Holding
    <3> QED
      BY <3>1, OneEnds
  <2> QED
    BY <2>1, <2>2, <2>3 DEF Coordinator
<1>3. CASE \E r \in Restores : Faults(r)
  <2> PICK r \in Restores : Faults(r)
    BY <1>3
  <2>1. CASE VersionMissing(r) \/ PrepareFails(r) \/ PersistFails(r) \/ CommitFails(r)
    <3>1. Holding(r) /\ lock' = lock
      BY <2>1 DEF VersionMissing, PrepareFails, PersistFails, NotStored, StoredAnyway, GiveUp,
                  CommitFails, Holding
    <3>2. \E p \in Phases : p # "dead" /\ Goto(r, p)
      BY <2>1 DEF VersionMissing, PrepareFails, PersistFails, GiveUp, CommitFails, Phases
    <3> QED
      BY <3>1, <3>2, OneMoves
  <2>2. CASE Crash(r)
    <3>1. /\ Holding(r) /\ lock' = lock
          /\ phase' = [s \in Restores |->
               IF At[s] = At[r] /\ phase[s] \notin {"refused", "done", "failed"} THEN "dead" ELSE phase[s]]
      BY <2>2 DEF Crash, Holding
    <3> QED
      BY <3>1 DEF LockInv, Holding, Phases
  <2> QED
    BY <2>1, <2>2 DEF Faults
<1>4. CASE UNCHANGED <<lock, phase>>
  BY <1>4 DEF LockInv, Holding
<1>8. CASE LockExpires
  <2> PICK r \in Restores : At[r] = lock /\ phase[r] = "dead" /\ UNCHANGED phase
    BY <1>8 DEF LockExpires, coord
  <2>1. \A s \in Restores : ~Holding(s)
    BY DEF LockInv, Holding
  <2> QED
    BY <2>1 DEF LockInv, Holding
<1>5. FlushStart \/ FlushEnd \/ UNCHANGED vars => UNCHANGED <<lock, phase>>
  BY DEF FlushStart, FlushEnd, vars, coord
<1>6. \A i \in Instances : Rooms(i) => UNCHANGED <<lock, phase>>
  BY DEF Rooms, Publish, PublishReply, OnUpdate, OnAsk, OnState, OnPrepare, OnCommit, OnAbort, coord
<1>7. \A i \in Instances : Clients(i) => UNCHANGED <<lock, phase>>
  BY DEF Clients, Join, Type, coord
<1> QED
  BY <1>1, <1>2, <1>3, <1>4, <1>5, <1>6, <1>7, <1>8 DEF Next

\* RoomManager.restoreFileVersion's lock: of the restores that different instances
\* serve at most one is between its barrier and its commit or abort, though
\* frames are late, coordinators die and every call may fail, as long as none
\* outlasts its lock and none is asked of a backend that still carries one out.
THEOREM OneRestoreAtATime == Spec => []OneRestore
<1> DEFINE Inv == {"expires", "again"} \cap env = {} => Serial /\ LockInv
<1>1. Init => Inv
  BY DEF Init, LockInv, Holding, Phases, Serial
<1>2. Inv /\ [Next]_vars => Inv'
  BY LockStep, SerialStep, EnvStays
<1>3. Inv => OneRestore
  BY DEF LockInv, OneRestore, Holding, Serial
<1> QED
  BY <1>1, <1>2, <1>3, PTL DEF Spec

-----------------------------------------------------------------------------
(* Frames. *)

Ctx == Serial /\ Calm /\ ProtocolInv

\* Room i has received frame f, which was its first.
LEMMA Taken ==
  ASSUME TypeOK, NEW i \in Instances, inbox[i] # <<>>
  PROVE  /\ Head(inbox[i]) = inbox[i][1] /\ 1 \in DOMAIN inbox[i] /\ inbox[i][1] \in Frames
         /\ \A j \in Instances : j # i => Take(i)[j] = inbox[j]
         /\ \A n \in DOMAIN Take(i)[i] : n + 1 \in DOMAIN inbox[i] /\ Take(i)[i][n] = inbox[i][n + 1]
         /\ \A n \in DOMAIN inbox[i] : n > 1 =>
              n - 1 \in DOMAIN Take(i)[i] /\ Take(i)[i][n - 1] = inbox[i][n]
<1> inbox \in [Instances -> Seq(Frames)]
  BY DEF TypeOK
<1> DEFINE s == inbox[i]
<1>1. s \in Seq(Frames) /\ s # <<>> /\ Take(i)[i] = Tail(s)
  BY DEF Take
<1> HIDE DEF s
<1>2. /\ Head(s) = s[1] /\ 1 \in DOMAIN s /\ s[1] \in Frames
      /\ \A n \in DOMAIN Tail(s) : n + 1 \in DOMAIN s /\ Tail(s)[n] = s[n + 1]
      /\ \A n \in DOMAIN s : n > 1 => n - 1 \in DOMAIN Tail(s) /\ Tail(s)[n - 1] = s[n]
  BY <1>1
<1> QED
  BY <1>1, <1>2 DEF Take, s

\* A frame is published to the rooms of the other instances.
LEMMA Sent ==
  ASSUME TypeOK, NEW i \in Instances, NEW f
  PROVE  LET box == Published(inbox, i, f) IN
         \A j \in Instances :
           /\ j = i \/ ~warm[j] => box[j] = inbox[j]
           /\ \A n \in DOMAIN inbox[j] : n \in DOMAIN box[j] /\ box[j][n] = inbox[j][n]
           /\ j # i /\ warm[j] =>
                Len(inbox[j]) + 1 \in DOMAIN box[j] /\ box[j][Len(inbox[j]) + 1] = f
           /\ \A n \in DOMAIN box[j] :
                \/ n \in DOMAIN inbox[j]
                \/ /\ n = Len(inbox[j]) + 1 /\ j # i /\ warm[j] /\ box[j][n] = f
                   /\ \A m \in DOMAIN inbox[j] : m < n
<1> inbox \in [Instances -> Seq(Frames)]
  BY DEF TypeOK
<1>1. ASSUME NEW s \in Seq(Frames)
      PROVE  /\ Len(s) + 1 \in DOMAIN Append(s, f) /\ Append(s, f)[Len(s) + 1] = f
             /\ \A n \in DOMAIN s : n \in DOMAIN Append(s, f) /\ Append(s, f)[n] = s[n]
             /\ \A n \in DOMAIN Append(s, f) : n \in DOMAIN s \/ n = Len(s) + 1
             /\ \A m \in DOMAIN s : m < Len(s) + 1
  BY <1>1
<1> QED
  BY <1>1 DEF Published

LEMMA OneHolds == ASSUME Ctx, NEW r \in Restores, NEW s \in Restores, Holding(r), Holding(s) PROVE r = s
BY DEF Ctx, ProtocolInv, LockInv, Serial

\* Every frame is an ordinary one, a prepare, or one that closes.
LEMMA FrameKinds ==
  ASSUME TypeOK, FrameInv, NEW i \in Instances, NEW n \in DOMAIN inbox[i]
  PROVE  /\ inbox[i][n] \in Frames /\ FrameSays(i, inbox[i][n])
         /\ inbox[i][n].kind \in {"update", "prepare", "commit", "abort"}
         /\ ~Ordinary(inbox[i][n]) => inbox[i][n].rid \in Restores
         /\ Ordinary(inbox[i][n]) => inbox[i][n].edit \in Edits
<1>1. inbox[i] \in Seq(Frames)
  BY DEF TypeOK
<1>2. inbox[i][n] \in Frames
  BY <1>1
<1>3. FrameSays(i, inbox[i][n])
  BY DEF FrameInv
<1> QED
  BY <1>2, <1>3, FrameFields DEF FrameSays, Ordinary, Closes

\* Nothing is asked of a room, and none is opened.
LEMMA CalmRooms ==
  ASSUME Ctx, NEW i \in Instances
  PROVE  ~OnAsk(i) /\ ~OnState(i) /\ ~Opened(i) /\ ~Join(i)
<1>1. ASSUME inbox[i] # <<>> PROVE Head(inbox[i]).kind \notin {"ask", "state"}
  BY <1>1, Taken, FrameKinds DEF Ctx, ProtocolInv
<1> QED
  BY <1>1 DEF OnAsk, OnState, Receive, Opened, Join, Ctx, Calm

\* The room of a frame is open.
LEMMA OpenRooms ==
  ASSUME Ctx, NEW i \in Instances, inbox[i] # <<>> \/ barrier[i] # None
  PROVE  warm[i]
BY DEF Ctx, ProtocolInv, ColdInv

\* No frame that closes goes to a room without a barrier.
LEMMA NoneCloses ==
  ASSUME Ctx, NEW i \in Instances, barrier[i] = None, NEW n \in DOMAIN inbox[i]
  PROVE  ~Closes(inbox[i][n])
<1>1. TypeOK /\ FrameInv
  BY DEF Ctx, ProtocolInv
<1>2. FrameSays(i, inbox[i][n]) /\ ~Ordinary(inbox[i][n]) => inbox[i][n].rid \in Restores
  BY <1>1, FrameKinds
<1> QED
  BY <1>1, <1>2, FrameKinds, NoneAssumption DEF FrameSays, Closes, Ordinary

-----------------------------------------------------------------------------
(* Control frames keep the order that barriers rely on. *)

\* A restore that a control frame speaks of stays where it is, or the frames are
\* all gone.
Lasting(s) ==
  /\ phase[s] = "done" => phase'[s] = "done"
  /\ phase[s] \in {"abort", "release", "failed"} => phase'[s] \in {"abort", "release", "failed"}
  /\ phase[s] = "settle" \/ (phase[s] = "dead" /\ lock = At[s]) =>
       \/ phase'[s] = "settle" \/ (phase'[s] = "dead" /\ lock' = At[s])
       \/ \A i \in Instances : inbox[i] = <<>>

LEMMA DeadServeNothing ==
  ASSUME Ctx, NEW r \in Restores, NEW s \in Restores, Holding(r), phase[s] = "dead"
  PROVE  lock # At[s]
BY DEF Ctx, ProtocolInv, LockInv, Holding

LEMMA OthersLast ==
  ASSUME Ctx, NEW r \in Restores, NEW p \in Phases, Goto(r, p), Holding(r),
         lock' = lock \/ lock' = IF lock = At[r] THEN None ELSE lock,
         NEW s \in Restores, s # r
  PROVE  Lasting(s)
<1>1. phase'[s] = phase[s]
  BY DEF Goto, Ctx, ProtocolInv, LockInv
<1>2. lock = At[r] /\ phase[s] # "settle" /\ ~(phase[s] = "dead" /\ lock = At[s])
  BY DeadServeNothing, OneHolds DEF Ctx, ProtocolInv, LockInv, Holding
<1> QED
  BY <1>1, <1>2 DEF Lasting

LEMMA Lasts ==
  ASSUME Ctx, [Next]_vars, NEW s \in Restores
  PROVE  Lasting(s)
<1> phase \in [Restores -> Phases] /\ \A r \in Restores : Holding(r) => lock = At[r]
  BY DEF Ctx, ProtocolInv, LockInv
<1>1. CASE \E r \in Restores : Lock(r)
  <2> PICK r \in Restores : Lock(r)
    BY <1>1
  <2>1. phase'[s] = phase[s] \/ (s = r /\ phase[s] = "none")
    BY DEF Lock, Goto
  <2>2. phase[s] = "dead" /\ lock = At[s] /\ lock' # lock => FALSE
    BY AtAssumption, NoneAssumption DEF Lock, LockFree
  <2> QED
    BY <2>1, <2>2 DEF Lasting
<1>2. ASSUME NEW r \in Restores, Coordinator(r) PROVE Lasting(s)
  <2>1. /\ Holding(r) /\ (lock' = lock \/ lock' = IF lock = At[r] THEN None ELSE lock)
        /\ \E p \in Phases : Goto(r, p)
    BY <1>2 DEF Coordinator, Read, Begin, Flushed, PrepareOk, Settle, RowOk, SnapshotOk, CommitOk,
                Release, Holding, Phases
  <2>2. CASE s # r
    BY <2>1, <2>2, OthersLast
  <2>3. CASE s = r
    <3>1. phase[r] = "settle" => \A i \in Instances : inbox[i] = <<>>
      BY <1>2 DEF Coordinator, Read, Flushed, PrepareOk, Settle, Settled, RowOk, SnapshotOk, CommitOk,
                  Release, Ctx, Calm
    <3>2. phase[r] \in {"abort", "release"} => phase'[r] = "failed"
      BY <1>2 DEF Coordinator, Read, Flushed, PrepareOk, Settle, RowOk, SnapshotOk, CommitOk,
                  Release, Goto
    <3> QED
      BY <2>1, <2>3, <3>1, <3>2 DEF Lasting, Holding
  <2> QED
    BY <2>2, <2>3
<1>3. ASSUME NEW r \in Restores, Faults(r), ~Crash(r) PROVE Lasting(s)
  <2>1. /\ phase[r] \in {"read", "prepare", "row", "snapshot", "commit"} /\ lock' = lock
        /\ \E p \in Phases : Goto(r, p)
    BY <1>3 DEF Faults, VersionMissing, PrepareFails, PersistFails, NotStored, StoredAnyway, GiveUp,
                CommitFails, Phases
  <2>2. CASE s # r
    BY <2>1, <2>2, OthersLast DEF Holding
  <2>3. CASE s = r
    BY <2>1, <2>3 DEF Lasting
  <2> QED
    BY <2>2, <2>3
<1>4. ASSUME NEW r \in Restores, Crash(r) PROVE Lasting(s)
  <2>1. /\ phase[r] \in {"settle", "row", "snapshot", "commit"} /\ lock' = lock /\ Holding(r)
        /\ phase'[s] = IF At[s] = At[r] /\ phase[s] \notin {"refused", "done", "failed"}
                       THEN "dead" ELSE phase[s]
    BY <1>4 DEF Crash, Holding
  <2>2. At[s] = At[r] /\ phase[s] \in {"settle", "abort", "release"} => s = r
    BY <2>1 DEF Ctx, Serial, Holding
  <2>3. lock = At[r]
    BY <2>1
  <2> QED
    BY <2>1, <2>2, <2>3 DEF Lasting
<1>5. CASE LockExpires
  BY <1>5 DEF LockExpires, Lasting, Settled, coord, Ctx, Calm
<1>6. CASE UNCHANGED <<lock, phase>>
  BY <1>6 DEF Lasting
<1>7. FlushStart \/ FlushEnd \/ UNCHANGED vars => UNCHANGED <<lock, phase>>
  BY DEF FlushStart, FlushEnd, vars, coord
<1>8. \A i \in Instances : Rooms(i) \/ Clients(i) => UNCHANGED <<lock, phase>>
  BY DEF Rooms, Publish, PublishReply, OnUpdate, OnAsk, OnState, OnPrepare, OnCommit, OnAbort,
         Clients, Join, Type, coord
<1> QED
  BY <1>1, <1>2, <1>3, <1>4, <1>5, <1>6, <1>7, <1>8 DEF Next

\* What a frame says still holds, unless it closes a barrier that is no longer up.
LEMMA StillSays ==
  ASSUME Ctx, [Next]_vars, NEW i \in Instances, NEW n \in DOMAIN inbox[i], NEW f, f = inbox[i][n],
         Closes(f) => barrier'[i] = barrier[i]
  PROVE  FrameSays(i, f)'
<1>1. TypeOK /\ FrameInv /\ inbox[i] # <<>>
  BY DEF Ctx, ProtocolInv, TypeOK
<1>2. FrameSays(i, f) /\ (~Ordinary(f) => f.rid \in Restores)
  BY <1>1, FrameKinds
<1>3. ~Ordinary(f) => Lasting(f.rid)
  BY <1>2, Lasts
<1> QED
  BY <1>1, <1>2, <1>3 DEF FrameSays, Lasting, Closes, Ordinary

\* Frames are taken from the front of an inbox, or lost with all that follow.
Fewer ==
  \A i \in Instances : \E d \in {0, 1} : \A n \in DOMAIN inbox'[i] :
    n + d \in DOMAIN inbox[i] /\ inbox'[i][n] = inbox[i][n + d]
Says == \A i \in Instances : \A n \in DOMAIN inbox[i] : FrameSays(i, inbox[i][n])

LEMMA Indices ==
  ASSUME TypeOK, NEW i \in Instances, NEW n \in DOMAIN inbox[i]
  PROVE  n \in Nat \ {0} /\ inbox[i][n] \in Frames
<1>1. inbox[i] \in Seq(Frames)
  BY DEF TypeOK
<1> QED
  BY <1>1

LEMMA FewerFrames ==
  ASSUME Ctx, TypeOK', Fewer, Says'
  PROVE  FrameInv'
<1> TypeOK /\ FrameInv
  BY DEF Ctx, ProtocolInv
<1> SUFFICES ASSUME NEW i \in Instances, NEW n \in DOMAIN inbox'[i], Closes(inbox'[i][n])
             PROVE  /\ \A m \in DOMAIN inbox'[i] : m < n => Ordinary(inbox'[i][m])
                    /\ \A j \in Instances : \A m \in DOMAIN inbox'[j] :
                         Closes(inbox'[j][m]) => inbox'[j][m] = inbox'[i][n] /\ (i = j => m = n)
  BY DEF FrameInv, Says, Closes, Ordinary
<1>1. PICK d \in {0, 1} : \A m \in DOMAIN inbox'[i] :
        m + d \in DOMAIN inbox[i] /\ inbox'[i][m] = inbox[i][m + d]
  BY DEF Fewer
<1>2. \A m \in DOMAIN inbox'[i] : m \in Nat
  BY DEF TypeOK
<1>3. n + d \in DOMAIN inbox[i] /\ Closes(inbox[i][n + d]) /\ inbox'[i][n] = inbox[i][n + d]
  BY <1>1
<1>4. ASSUME NEW m \in DOMAIN inbox'[i], m < n PROVE Ordinary(inbox'[i][m])
  <2>1. m + d < n + d /\ m + d \in DOMAIN inbox[i]
    BY <1>1, <1>2, <1>4
  <2>2. Ordinary(inbox[i][m + d])
    BY <1>3, <2>1 DEF FrameInv
  <2> QED
    BY <1>1, <2>2
<1>5. ASSUME NEW j \in Instances, NEW m \in DOMAIN inbox'[j], Closes(inbox'[j][m])
      PROVE  inbox'[j][m] = inbox'[i][n] /\ (i = j => m = n)
  <2>1. PICK c \in {0, 1} : \A k \in DOMAIN inbox'[j] :
          k + c \in DOMAIN inbox[j] /\ inbox'[j][k] = inbox[j][k + c]
    BY DEF Fewer
  <2>2. m + c \in DOMAIN inbox[j] /\ Closes(inbox[j][m + c]) /\ inbox'[j][m] = inbox[j][m + c]
    BY <1>5, <2>1
  <2>3. inbox[j][m + c] = inbox[i][n + d] /\ (i = j => m + c = n + d)
    BY <1>3, <2>2 DEF FrameInv
  <2>4. i = j => m = n
    <3> SUFFICES ASSUME i = j PROVE m = n
      OBVIOUS
    <3>1. m + d \in DOMAIN inbox[i] /\ Closes(inbox[i][m + d])
      BY <1>1, <1>5
    <3>2. m + d = n + d
      BY <1>3, <3>1 DEF FrameInv
    <3> QED
      BY <1>2, <3>2
  <2> QED
    BY <1>3, <2>2, <2>3, <2>4
<1> QED
  BY <1>4, <1>5

LEMMA SameFrames ==
  ASSUME TypeOK, UNCHANGED inbox
  PROVE  Fewer
<1>1. ASSUME NEW i \in Instances, NEW n \in DOMAIN inbox'[i]
      PROVE  n + 0 \in DOMAIN inbox[i] /\ inbox'[i][n] = inbox[i][n + 0]
  <2>1. n + 0 = n
    BY Indices
  <2> QED
    BY <2>1
<1> QED
  BY <1>1 DEF Fewer

LEMMA TakenFrames ==
  ASSUME TypeOK, NEW i \in Instances, inbox[i] # <<>>, inbox' = Take(i)
  PROVE  Fewer
<1>1. ASSUME NEW j \in Instances, j # i, NEW n \in DOMAIN inbox'[j]
      PROVE  n + 0 \in DOMAIN inbox[j] /\ inbox'[j][n] = inbox[j][n + 0]
  <2>1. inbox'[j] = inbox[j]
    BY <1>1, Taken
  <2>2. n + 0 = n
    BY <2>1, Indices
  <2> QED
    BY <2>1, <2>2
<1>2. \A n \in DOMAIN inbox'[i] : n + 1 \in DOMAIN inbox[i] /\ inbox'[i][n] = inbox[i][n + 1]
  BY Taken
<1> QED
  BY <1>1, <1>2 DEF Fewer

\* After a step that takes frames at most, those left say what they said.
LEMMA FramesTaken ==
  ASSUME Ctx, TypeOK', [Next]_vars, Fewer,
         \A i \in Instances : barrier'[i] = barrier[i] \/
           \A n \in DOMAIN inbox'[i] : ~Closes(inbox'[i][n])
  PROVE  FrameInv'
<1>1. ASSUME NEW i \in Instances, NEW n \in DOMAIN inbox'[i]
      PROVE  FrameSays(i, inbox[i][n])'
  <2>1. PICK d \in {0, 1} : \A m \in DOMAIN inbox'[i] :
          m + d \in DOMAIN inbox[i] /\ inbox'[i][m] = inbox[i][m + d]
    BY DEF Fewer
  <2> QED
    BY <2>1, StillSays DEF FrameSays
<1> QED
  BY <1>1, FewerFrames DEF Says

\* A frame is published while those that close, if this is one, are all gone.
LEMMA FramesSent ==
  ASSUME Ctx, TypeOK', [Next]_vars, NEW i \in Instances, NEW f, inbox' = Published(inbox, i, f),
         \A j \in Instances : barrier'[j] = barrier[j] \/ inbox[j] = <<>>,
         \A j \in Instances : j # i /\ warm[j] => FrameSays(j, f)',
         Closes(f) => \A j \in Instances : OnlyOrdinary(j)
  PROVE  FrameInv'
<1> TypeOK /\ FrameInv
  BY DEF Ctx, ProtocolInv
<1>1. \A j \in Instances : \A n \in DOMAIN inbox'[j] :
        \/ n \in DOMAIN inbox[j] /\ inbox'[j][n] = inbox[j][n]
        \/ /\ n = Len(inbox[j]) + 1 /\ j # i /\ warm[j] /\ inbox'[j][n] = f
           /\ \A m \in DOMAIN inbox[j] : m < n
  BY Sent
<1>2. \A j \in Instances : \A n \in DOMAIN inbox[j] : n \in Nat \ {0} /\ barrier'[j] = barrier[j]
  <2>1. \A j \in Instances : \A n \in DOMAIN inbox[j] : inbox[j] # <<>>
    BY DEF TypeOK
  <2> QED
    BY <2>1, Indices
<1> SUFFICES ASSUME NEW j \in Instances, NEW n \in DOMAIN inbox'[j]
             PROVE  /\ FrameSays(j, inbox[j][n])'
                    /\ Closes(inbox'[j][n]) =>
                       /\ \A m \in DOMAIN inbox'[j] : m < n => Ordinary(inbox'[j][m])
                       /\ \A k \in Instances : \A m \in DOMAIN inbox'[k] :
                            Closes(inbox'[k][m]) => inbox'[k][m] = inbox'[j][n] /\ (j = k => m = n)
  BY DEF FrameInv, Closes, Ordinary
<1>3. FrameSays(j, inbox[j][n])'
  BY <1>1, <1>2, StillSays DEF FrameSays
<1>4. ASSUME Closes(inbox'[j][n]) PROVE \A m \in DOMAIN inbox'[j] : m < n => Ordinary(inbox'[j][m])
  <2>1. CASE n \in DOMAIN inbox[j] /\ inbox'[j][n] = inbox[j][n]
    <3>1. ASSUME NEW m \in DOMAIN inbox'[j], m < n PROVE m \in DOMAIN inbox[j] /\ inbox'[j][m] = inbox[j][m]
      BY <1>1, <1>2, <2>1, <3>1
    <3> QED
      BY <1>4, <2>1, <3>1 DEF FrameInv
  <2>2. CASE n = Len(inbox[j]) + 1 /\ inbox'[j][n] = f /\ \A m \in DOMAIN inbox[j] : m < n
    <3>1. ASSUME NEW m \in DOMAIN inbox'[j], m < n PROVE m \in DOMAIN inbox[j] /\ inbox'[j][m] = inbox[j][m]
      <4>1. n \in Nat
        BY <2>2 DEF TypeOK
      <4> QED
        BY <1>1, <2>2, <3>1, <4>1
    <3> QED
      BY <1>4, <2>2, <3>1 DEF OnlyOrdinary
  <2> QED
    BY <1>1, <2>1, <2>2
<1>5. ASSUME Closes(inbox'[j][n]), NEW k \in Instances, NEW m \in DOMAIN inbox'[k], Closes(inbox'[k][m])
      PROVE  inbox'[k][m] = inbox'[j][n] /\ (j = k => m = n)
  <2>1. CASE Closes(f)
    <3>1. \A l \in Instances : \A o \in DOMAIN inbox[l] : ~Closes(inbox[l][o])
      BY <2>1 DEF OnlyOrdinary, Ordinary, Closes
    <3> QED
      BY <1>1, <1>5, <3>1
  <2>2. CASE ~Closes(f)
    <3>1. n \in DOMAIN inbox[j] /\ inbox'[j][n] = inbox[j][n] /\ m \in DOMAIN inbox[k] /\ inbox'[k][m] = inbox[k][m]
      BY <1>1, <1>5, <2>2
    <3> QED
      BY <1>5, <3>1 DEF FrameInv
  <2> QED
    BY <2>1, <2>2
<1> QED
  BY <1>3, <1>4, <1>5

\* Of the control frames room i will receive, the first has come.
LEMMA NoneLeft ==
  ASSUME TypeOK, FrameInv, NEW i \in Instances, inbox[i] # <<>>, ~Ordinary(Head(inbox[i])), inbox' = Take(i)
  PROVE  \A n \in DOMAIN inbox'[i] : ~Closes(inbox'[i][n])
<1> SUFFICES ASSUME NEW n \in DOMAIN inbox'[i], Closes(inbox'[i][n]) PROVE FALSE
  OBVIOUS
<1>1. /\ n + 1 \in DOMAIN inbox[i] /\ Closes(inbox[i][n + 1]) /\ 1 \in DOMAIN inbox[i]
      /\ ~Ordinary(inbox[i][1])
  BY Taken
<1>2. n + 1 \in Nat \ {0} /\ n + 1 # 1
  <2>1. inbox'[i] \in Seq(Frames)
    BY TakeType DEF TypeOK
  <2> QED
    BY <2>1
<1> QED
  BY <1>1, <1>2 DEF FrameInv

LEMMA FramesOfRoomSteps ==
  ASSUME Ctx, TypeOK', [Next]_vars, NEW i \in Instances, Rooms(i) \/ Clients(i)
  PROVE  FrameInv'
<1> TypeOK /\ FrameInv
  BY DEF Ctx, ProtocolInv
<1>1. CASE Publish(i)
  <2>1. PICK f : f = [kind |-> "update", edit |-> Head(pending[i])]
    OBVIOUS
  <2>2. inbox' = Published(inbox, i, f) /\ UNCHANGED barrier /\ f.kind = "update"
    BY <1>1, <2>1 DEF Publish, gate
  <2>3. ~Closes(f) /\ \A j \in Instances : FrameSays(j, f)'
    BY <2>2 DEF Closes, FrameSays, Ordinary
  <2> QED
    BY <2>2, <2>3, FramesSent
<1>2. CASE PublishReply(i) \/ \E e \in Edits : Type(i, e)
  <2>1. UNCHANGED <<inbox, barrier>>
    BY <1>2 DEF PublishReply, Type, gate
  <2> QED
    BY <2>1, SameFrames, FramesTaken
<1>3. CASE OnUpdate(i)
  <2>1. inbox[i] # <<>> /\ inbox' = Take(i) /\ UNCHANGED barrier
    BY <1>3 DEF OnUpdate, Receive
  <2> QED
    BY <2>1, TakenFrames, FramesTaken
<1>4. CASE OnPrepare(i) \/ OnCommit(i) \/ OnAbort(i)
  <2>1. /\ inbox[i] # <<>> /\ inbox' = Take(i) /\ ~Ordinary(Head(inbox[i]))
        /\ \A j \in Instances : j # i => barrier'[j] = barrier[j]
    BY <1>4 DEF OnPrepare, OnCommit, OnAbort, Receive, Ordinary, Enter, Leave, Abort, TypeOK
  <2>2. \A n \in DOMAIN inbox'[i] : ~Closes(inbox'[i][n])
    BY <2>1, NoneLeft
  <2>3. \A j \in Instances : barrier'[j] = barrier[j] \/ \A n \in DOMAIN inbox'[j] : ~Closes(inbox'[j][n])
    BY <2>1, <2>2
  <2> QED
    BY <2>1, <2>3, TakenFrames, FramesTaken
<1> QED
  BY <1>1, <1>2, <1>3, <1>4, CalmRooms DEF Rooms, Clients

LEMMA FramesOfRestoreSteps ==
  ASSUME Ctx, TypeOK', [Next]_vars, NEW r \in Restores, Lock(r) \/ Coordinator(r) \/ Faults(r)
  PROVE  FrameInv'
<1> TypeOK /\ FrameInv /\ At[r] \in Instances /\ PhaseSays(r)
  BY AtAssumption DEF Ctx, ProtocolInv, PhaseInv
<1>1. CASE Lock(r) \/ VersionMissing(r) \/ PrepareFails(r) \/ Settle(r) \/ RowOk(r) \/ Release(r)
  <2>1. UNCHANGED <<inbox, barrier>>
    BY <1>1 DEF Lock, VersionMissing, PrepareFails, Settle, RowOk, Release, gate
  <2> QED
    BY <2>1, SameFrames, FramesTaken
<1>2. CASE Read(r) \/ Flushed(r)
  <2>1. UNCHANGED inbox /\ \A j \in Instances : j # At[r] => barrier'[j] = barrier[j]
    BY <1>2, CalmRooms DEF Read, Flushed, Begin, Enter, TypeOK
  <2>2. barrier'[At[r]] = barrier[At[r]] \/ \A n \in DOMAIN inbox[At[r]] : ~Closes(inbox[At[r]][n])
    <3>1. CASE Read(r) /\ barrier[At[r]] = None
      BY <3>1, NoneCloses
    <3>2. CASE Read(r) /\ barrier[At[r]] # None
      BY <3>2 DEF Read
    <3>3. CASE Flushed(r)
      BY <3>3 DEF Flushed, PhaseSays
    <3> QED
      BY <1>2, <3>1, <3>2, <3>3
  <2>3. \A j \in Instances : barrier'[j] = barrier[j] \/ \A n \in DOMAIN inbox'[j] : ~Closes(inbox'[j][n])
    BY <2>1, <2>2
  <2> QED
    BY <2>1, <2>3, SameFrames, FramesTaken
<1>3. CASE PrepareOk(r)
  <2> DEFINE f == PrepareOf(r)
  <2>1. inbox' = Published(inbox, At[r], f) /\ UNCHANGED barrier /\ phase'[r] = "settle"
    BY <1>3 DEF PrepareOk, Goto, gate, TypeOK, PrepareOf
  <2>2. f.kind = "prepare" /\ f.rid = r
    BY DEF PrepareOf
  <2>3. ~Closes(f) /\ \A j \in Instances : j # At[r] => FrameSays(j, f)'
    BY <2>1, <2>2 DEF Closes, FrameSays, Ordinary, PrepareOf
  <2> HIDE DEF f
  <2> QED
    BY <2>1, <2>3, FramesSent
<1>4. CASE SnapshotOk(r)
  <2>1. UNCHANGED inbox /\ \A j \in Instances : inbox[j] = <<>>
    BY <1>4 DEF SnapshotOk, PhaseSays, Silent
  <2> QED
    BY <2>1, SameFrames, FramesTaken
<1>5. CASE PersistFails(r) \/ CommitOk(r) \/ CommitFails(r)
  <2>1. PICK k \in {"commit", "abort"} :
          /\ inbox' = Published(inbox, At[r], [kind |-> k, rid |-> r])
          /\ phase'[r] \in IF k = "commit" THEN {"done"} ELSE {"abort", "release"}
    BY <1>5 DEF PersistFails, GiveUp, CommitOk, CommitFails, Goto, TypeOK
  <2>2. /\ phase[r] \in {"row", "snapshot", "commit"}
        /\ \A j \in Instances : Behind(r, j) /\ OnlyOrdinary(j)
    BY <1>5 DEF PersistFails, NotStored, StoredAnyway, CommitOk, CommitFails, PhaseSays
  <2>3. \A j \in Instances : j # At[r] => barrier'[j] = barrier[j]
    BY <1>5 DEF PersistFails, GiveUp, Abort, CommitOk, CommitFails, gate, TypeOK
  <2>4. barrier'[At[r]] = barrier[At[r]] \/ inbox[At[r]] = <<>>
    <3>1. CASE PersistFails(r)
      BY <3>1 DEF PersistFails, NotStored, StoredAnyway, PhaseSays, Silent
    <3>2. CASE CommitOk(r) \/ CommitFails(r)
      BY <3>2 DEF CommitOk, CommitFails, gate
    <3> QED
      BY <1>5, <3>1, <3>2
  <2> DEFINE f == [kind |-> k, rid |-> r]
  <2>5. f.kind = k /\ f.rid = r
    OBVIOUS
  <2>6. \A j \in Instances : j # At[r] /\ warm[j] => FrameSays(j, f)'
    BY <2>1, <2>2, <2>3, <2>5 DEF FrameSays, Ordinary, Closes, Behind
  <2>7. inbox' = Published(inbox, At[r], f)
    BY <2>1
  <2> HIDE DEF f
  <2> QED
    BY <2>2, <2>3, <2>4, <2>6, <2>7, FramesSent
<1>6. CASE Crash(r)
  <2>1. /\ inbox' = [inbox EXCEPT ![At[r]] = <<>>]
        /\ \A j \in Instances : j # At[r] => barrier'[j] = barrier[j]
    BY <1>6 DEF Crash, TypeOK
  <2>2. Fewer
    <3>1. ASSUME NEW j \in Instances, NEW n \in DOMAIN inbox'[j]
          PROVE  n + 0 \in DOMAIN inbox[j] /\ inbox'[j][n] = inbox[j][n + 0]
      <4>1. j # At[r] /\ inbox'[j] = inbox[j]
        BY <2>1, <3>1 DEF TypeOK
      <4>2. n + 0 = n
        BY <4>1, Indices
      <4> QED
        BY <4>1, <4>2
    <3> QED
      BY <3>1 DEF Fewer
  <2>3. \A j \in Instances : barrier'[j] = barrier[j] \/ \A n \in DOMAIN inbox'[j] : ~Closes(inbox'[j][n])
    <3>1. \A n \in DOMAIN inbox'[At[r]] : FALSE
      BY <2>1 DEF TypeOK
    <3> QED
      BY <2>1, <3>1
  <2> QED
    BY <2>2, <2>3, FramesTaken
<1> QED
  BY <1>1, <1>2, <1>3, <1>4, <1>5, <1>6 DEF Coordinator, Faults

LEMMA FrameStep ==
  ASSUME Ctx, TypeOK', [Next]_vars
  PROVE  FrameInv'
<1>1. CASE FlushStart \/ FlushEnd \/ LockExpires \/ UNCHANGED vars
  <2>1. UNCHANGED <<inbox, barrier>> /\ TypeOK
    BY <1>1 DEF FlushStart, FlushEnd, LockExpires, vars, gate, Ctx, ProtocolInv
  <2> QED
    BY <2>1, SameFrames, FramesTaken
<1> QED
  BY <1>1, FramesOfRoomSteps, FramesOfRestoreSteps DEF Next

-----------------------------------------------------------------------------
(* Rooms without a process, and what a restore may rely on. *)

LEMMA ColdStep ==
  ASSUME Ctx, [Next]_vars
  PROVE  ColdInv'
<1> TypeOK /\ ColdInv /\ LockInv
  BY DEF Ctx, ProtocolInv
<1>1. CASE FlushStart \/ FlushEnd \/ LockExpires \/ UNCHANGED vars
  BY <1>1 DEF FlushStart, FlushEnd, LockExpires, vars, queue, gate, ColdInv, TypeOK
<1>2. ASSUME NEW i \in Instances, Rooms(i) \/ Clients(i) PROVE ColdInv'
  <2>1. warm[i] /\ UNCHANGED warm
    BY <1>2, CalmRooms
    DEF Rooms, Clients, Publish, PublishReply, OnUpdate, OnPrepare, OnCommit, OnAbort, Type, Receive, ColdInv
  <2>2. \A j \in Instances : j # i => UNCHANGED <<buffer[j], pending[j], sending[j], barrier[j], quarantined[j]>>
    BY <1>2, CalmRooms
    DEF Rooms, Clients, Publish, PublishReply, OnUpdate, OnPrepare, OnCommit, OnAbort, Type,
        Enter, Leave, Abort, Apply, queue, gate, TypeOK
  <2>3. \A j \in Instances : ~warm[j] => inbox'[j] = inbox[j]
    <3>1. CASE Publish(i)
      BY <3>1, Sent DEF Publish
    <3>2. CASE UNCHANGED inbox
      BY <3>2
    <3>3. CASE inbox[i] # <<>> /\ inbox' = Take(i)
      BY <3>3, <2>1, Taken
    <3> QED
      BY <1>2, CalmRooms, <3>1, <3>2, <3>3
      DEF Rooms, Clients, PublishReply, OnUpdate, OnPrepare, OnCommit, OnAbort, Type, Receive
  <2> QED
    BY <2>1, <2>2, <2>3 DEF ColdInv
<1>3. ASSUME NEW r \in Restores, Lock(r) \/ Coordinator(r) \/ Faults(r), ~Crash(r) PROVE ColdInv'
  <2> DEFINE i == At[r]
  <2>a. i \in Instances /\ PhaseSays(r)
    BY AtAssumption DEF Ctx, ProtocolInv, PhaseInv
  <2>1. UNCHANGED warm
    BY <1>3, <2>a, CalmRooms
    DEF Lock, Coordinator, Faults, Read, Flushed, PrepareOk, Settle, RowOk, SnapshotOk, CommitOk,
        Release, VersionMissing, PrepareFails, PersistFails, GiveUp, CommitFails
  <2>2. \A j \in Instances : j # i => UNCHANGED <<buffer[j], pending[j], sending[j], barrier[j], quarantined[j]>>
    BY <1>3, <2>a
    DEF Lock, Coordinator, Faults, Read, Begin, Flushed, PrepareOk, Settle, RowOk, SnapshotOk, CommitOk,
        Release, VersionMissing, PrepareFails, PersistFails, GiveUp, CommitFails, Enter, Leave, Abort,
        Apply, queue, gate, TypeOK
  <2>3. \A j \in Instances : ~warm[j] => inbox'[j] = inbox[j]
    <3>1. CASE UNCHANGED inbox
      BY <3>1
    <3>2. ASSUME NEW f, inbox' = Published(inbox, i, f) PROVE \A j \in Instances : ~warm[j] => inbox'[j] = inbox[j]
      BY <3>2, <2>a, Sent
    <3> QED
      BY <1>3, <2>a, CalmRooms, <3>1, <3>2
      DEF Lock, Coordinator, Faults, Read, Flushed, PrepareOk, Settle, RowOk, SnapshotOk, CommitOk,
          Release, VersionMissing, PrepareFails, PersistFails, GiveUp, CommitFails
  <2>4. warm[i] \/ UNCHANGED <<buffer, pending, sending, barrier, quarantined>>
    BY <1>3, <2>a, CalmRooms
    DEF Lock, Coordinator, Faults, Read, Flushed, PrepareOk, Settle, RowOk, SnapshotOk, CommitOk,
        Release, VersionMissing, PrepareFails, PersistFails, NotStored, StoredAnyway, CommitFails,
        PhaseSays, queue, gate
  <2> HIDE DEF i
  <2> QED
    BY <2>1, <2>2, <2>3, <2>4 DEF ColdInv
<1>4. ASSUME NEW r \in Restores, Crash(r) PROVE ColdInv'
  BY <1>4, AtAssumption DEF Crash, ColdInv, TypeOK
<1> QED
  BY <1>1, <1>2, <1>3, <1>4 DEF Next, Coordinator, Faults

LEMMA PhasesOfRoomSteps ==
  ASSUME Ctx, TypeOK', FrameInv', [Next]_vars, NEW i \in Instances, Rooms(i) \/ Clients(i),
         NEW s \in Restores
  PROVE  PhaseSays(s)'
<1> TypeOK /\ FrameInv /\ ColdInv /\ PhaseSays(s) /\ At[s] \in Instances /\ s # None
  BY AtAssumption, NoneAssumption DEF Ctx, ProtocolInv, PhaseInv
<1>a. UNCHANGED <<phase, warm, taken>>
  BY CalmRooms
  DEF Rooms, Clients, Publish, PublishReply, OnUpdate, OnPrepare, OnCommit, OnAbort, Type, coord
<1>b. phase[s] \in {"row", "snapshot"} =>
        Silent /\ \A j \in Instances : warm[j] => barrier[j] = s
  BY DEF PhaseSays, Behind
<1>1. CASE Publish(i)
  <2>1. phase[s] \notin {"row", "snapshot"} /\ UNCHANGED barrier
    BY <1>1, <1>b DEF Publish, Silent, gate
  <2>2. PICK f : f = [kind |-> "update", edit |-> Head(pending[i])]
    OBVIOUS
  <2>3. inbox' = Published(inbox, i, f) /\ Ordinary(f) /\ ~Closes(f)
    BY <1>1, <2>2 DEF Publish, Ordinary, Closes
  <2>4. \A j \in Instances : \A n \in DOMAIN inbox'[j] :
          \/ n \in DOMAIN inbox[j] /\ inbox'[j][n] = inbox[j][n]
          \/ inbox'[j][n] = f
    BY <2>3, Sent
  <2>5. \A j \in Instances : \A n \in DOMAIN inbox[j] : n \in DOMAIN inbox'[j] /\ inbox'[j][n] = inbox[j][n]
    BY <2>3, Sent
  <2>6. \A j \in Instances : OnlyOrdinary(j) => OnlyOrdinary(j)'
    BY <2>3, <2>4 DEF OnlyOrdinary
  <2>7. ASSUME NEW j \in Instances, Prepared(s, j) PROVE Prepared(s, j)'
    <3>1. CASE \E n \in DOMAIN inbox[j] : inbox[j][n] = PrepareOf(s) /\ \A m \in DOMAIN inbox[j] : m > n => Ordinary(inbox[j][m])
      <4>1. PICK n \in DOMAIN inbox[j] : inbox[j][n] = PrepareOf(s) /\ \A m \in DOMAIN inbox[j] : m > n => Ordinary(inbox[j][m])
        BY <3>1
      <4>2. n \in DOMAIN inbox'[j] /\ inbox'[j][n] = PrepareOf(s)
        BY <4>1, <2>5
      <4>3. \A m \in DOMAIN inbox'[j] : m > n => Ordinary(inbox'[j][m])
        BY <4>1, <2>3, <2>4
      <4> QED
        BY <4>2, <4>3 DEF Prepared
    <3>2. CASE barrier[j] = s /\ OnlyOrdinary(j)
      BY <3>2, <2>1, <2>6 DEF Prepared
    <3> QED
      BY <2>7, <3>1, <3>2 DEF Prepared
  <2> QED
    BY <1>a, <2>1, <2>3, <2>4, <2>6, <2>7 DEF PhaseSays, Behind
<1>2. CASE PublishReply(i)
  <2>1. phase[s] \notin {"row", "snapshot"} /\ UNCHANGED <<inbox, barrier>>
    BY <1>2, <1>b DEF PublishReply, Silent, gate
  <2> QED
    BY <1>a, <2>1 DEF PhaseSays, Behind, OnlyOrdinary, Prepared
<1>3. CASE \E e \in Edits : Type(i, e)
  <2>1. UNCHANGED <<inbox, barrier, sending>> /\ warm[i]
        /\ (barrier[i] # None => pending' = [pending EXCEPT ![i] = <<>>])
    BY <1>3 DEF Type, gate
  <2>2. phase[s] \in {"row", "snapshot"} => Silent'
    BY <1>b, <2>1 DEF Silent, TypeOK
  <2> QED
    BY <1>a, <2>1, <2>2 DEF PhaseSays, Behind, OnlyOrdinary, Prepared
<1>4. ASSUME inbox[i] # <<>>, inbox' = Take(i), Ordinary(Head(inbox[i])) \/ phase[s] \notin {"commit"},
             \A j \in Instances : j # i => barrier'[j] = barrier[j],
             phase[s] \in {"prepare", "settle", "commit"} => barrier'[i] = barrier[i] \/ i # At[s],
             phase[s] = "commit" => barrier'[i] = barrier[i],
             phase[s] = "settle" /\ warm[i] /\ i # At[s] => Prepared(s, i)'
      PROVE  PhaseSays(s)'
  <2>1. phase[s] \notin {"row", "snapshot"}
    BY <1>4, <1>b DEF Silent
  <2>2. \A j \in Instances : j # i => inbox'[j] = inbox[j]
    BY <1>4, Taken
  <2>3. \A n \in DOMAIN inbox'[i] : n + 1 \in DOMAIN inbox[i] /\ inbox'[i][n] = inbox[i][n + 1]
    BY <1>4, Taken
  <2>4. \A j \in Instances : OnlyOrdinary(j) => OnlyOrdinary(j)'
    BY <2>2, <2>3 DEF OnlyOrdinary
  <2>5. phase[s] = "settle" => \A j \in Instances : warm[j] /\ j # At[s] => Prepared(s, j)'
    BY <1>4, <2>2 DEF PhaseSays, Prepared, OnlyOrdinary
  <2>6. phase[s] \in {"flush", "prepare", "settle"} => \A n \in DOMAIN inbox'[At[s]] : ~Closes(inbox'[At[s]][n])
    BY <2>2, <2>3 DEF PhaseSays
  <2> QED
    BY <1>4, <1>a, <2>1, <2>4, <2>5, <2>6 DEF PhaseSays, Behind
<1>c. ASSUME inbox[i] # <<>>, inbox' = Take(i), phase[s] = "settle", warm[i], i # At[s],
             inbox[i][1] # PrepareOf(s), barrier'[i] = barrier[i] \/ ~Ordinary(inbox[i][1])
      PROVE  Prepared(s, i)'
  <2>1. Prepared(s, i)
    BY <1>c DEF PhaseSays
  <2>2. /\ 1 \in DOMAIN inbox[i]
        /\ \A n \in DOMAIN inbox'[i] : n + 1 \in DOMAIN inbox[i] /\ inbox'[i][n] = inbox[i][n + 1]
        /\ \A n \in DOMAIN inbox[i] : n > 1 => n - 1 \in DOMAIN inbox'[i] /\ inbox'[i][n - 1] = inbox[i][n]
    BY <1>c, Taken
  <2>3. CASE barrier[i] = s /\ OnlyOrdinary(i)
    BY <1>c, <2>2, <2>3 DEF Prepared, OnlyOrdinary
  <2>4. ASSUME NEW n \in DOMAIN inbox[i], inbox[i][n] = PrepareOf(s),
               \A m \in DOMAIN inbox[i] : m > n => Ordinary(inbox[i][m])
        PROVE  Prepared(s, i)'
    <3>1. n \in Nat /\ n > 1
      BY <1>c, <2>4, Indices
    <3>2. n - 1 \in DOMAIN inbox'[i] /\ inbox'[i][n - 1] = PrepareOf(s)
      BY <2>2, <2>4, <3>1
    <3>3. ASSUME NEW m \in DOMAIN inbox'[i], m > n - 1 PROVE Ordinary(inbox'[i][m])
      <4>1. m \in Nat
        BY <3>3 DEF TypeOK
      <4>2. m + 1 > n
        BY <3>1, <3>3, <4>1
      <4> QED
        BY <2>2, <2>4, <4>2
    <3> QED
      BY <3>2, <3>3 DEF Prepared
  <2> QED
    BY <2>1, <2>3, <2>4 DEF Prepared
<1>5. CASE OnUpdate(i)
  <2>1. inbox[i] # <<>> /\ inbox' = Take(i) /\ Head(inbox[i]) = inbox[i][1] /\ Ordinary(inbox[i][1]) /\ UNCHANGED barrier
    BY <1>5, Taken DEF OnUpdate, Receive, Ordinary
  <2>2. inbox[i][1] # PrepareOf(s)
    BY <2>1 DEF Ordinary, PrepareOf
  <2> QED
    BY <2>1, <2>2, <1>4, <1>c
<1>6. CASE OnPrepare(i)
  <2> DEFINE r == inbox[i][1].rid
  <2>1. /\ inbox[i] # <<>> /\ inbox' = Take(i) /\ inbox[i][1].kind = "prepare" /\ 1 \in DOMAIN inbox[i]
        /\ Head(inbox[i]) = inbox[i][1] /\ barrier' = [barrier EXCEPT ![i] = r]
    BY <1>6, Taken DEF OnPrepare, Receive, Enter
  <2>2. r \in Restores /\ i # At[r] /\ (phase[r] = "settle" \/ (phase[r] = "dead" /\ lock = At[r]))
    BY <2>1, FrameKinds DEF FrameSays, Ordinary
  <2>3. phase[s] # "commit" /\ ~OnlyOrdinary(i) /\ ~Ordinary(inbox[i][1])
    BY <2>1 DEF PhaseSays, OnlyOrdinary, Ordinary
  <2>4. ASSUME phase[s] \in {"prepare", "settle"} PROVE r = s
    <3>1. Holding(s) /\ lock = At[s]
      BY <2>4 DEF Holding, Ctx, ProtocolInv, LockInv
    <3>2. lock = At[r]
      BY <2>2 DEF Holding, Ctx, ProtocolInv, LockInv
    <3> QED
      BY <2>2, <2>4, <3>1, <3>2, DeadServeNothing, OneHolds DEF Holding
  <2>5. ASSUME phase[s] = "settle", warm[i], i # At[s] PROVE Prepared(s, i)'
    <3>1. CASE inbox[i][1] # PrepareOf(s)
      BY <2>1, <2>3, <2>5, <3>1, <1>c
    <3>2. CASE inbox[i][1] = PrepareOf(s)
      <4>1. PICK n \in DOMAIN inbox[i] : inbox[i][n] = PrepareOf(s) /\ \A m \in DOMAIN inbox[i] : m > n => Ordinary(inbox[i][m])
        BY <2>3, <2>5 DEF PhaseSays, Prepared
      <4>2. CASE n = 1
        <5>1. ASSUME NEW m \in DOMAIN inbox'[i] PROVE Ordinary(inbox'[i][m])
          <6>1. m \in Nat \ {0}
            BY <5>1 DEF TypeOK
          <6>2. m + 1 \in DOMAIN inbox[i] /\ inbox'[i][m] = inbox[i][m + 1] /\ m + 1 > 1
            BY <2>1, <6>1, <5>1, Taken
          <6> QED
            BY <4>1, <4>2, <6>2
        <5>2. barrier'[i] = s
          BY <2>1, <2>4, <2>5 DEF TypeOK
        <5> QED
          BY <5>1, <5>2 DEF Prepared, OnlyOrdinary
      <4>3. CASE n # 1
        <5>1. n \in Nat /\ n > 1
          BY <4>3, Indices
        <5>2. n - 1 \in DOMAIN inbox'[i] /\ inbox'[i][n - 1] = PrepareOf(s)
          BY <2>1, <4>1, <5>1, Taken
        <5>3. ASSUME NEW m \in DOMAIN inbox'[i], m > n - 1 PROVE Ordinary(inbox'[i][m])
          <6>1. m \in Nat
            BY <5>3 DEF TypeOK
          <6>2. m + 1 \in DOMAIN inbox[i] /\ inbox'[i][m] = inbox[i][m + 1]
            BY <2>1, <5>3, Taken
          <6>3. m + 1 > n
            BY <5>1, <5>3, <6>1
          <6> QED
            BY <4>1, <6>2, <6>3
        <5> QED
          BY <5>2, <5>3 DEF Prepared
      <4> QED
        BY <4>2, <4>3
    <3> QED
      BY <3>1, <3>2
  <2>6. \A j \in Instances : j # i => barrier'[j] = barrier[j]
    BY <2>1 DEF TypeOK
  <2>7. phase[s] \in {"prepare", "settle", "commit"} => i # At[s]
    BY <2>2, <2>3, <2>4
  <2> HIDE DEF r
  <2> QED
    BY <2>1, <2>3, <2>5, <2>6, <2>7, <1>4
<1>7. CASE OnCommit(i) \/ OnAbort(i)
  <2>1. /\ inbox[i] # <<>> /\ inbox' = Take(i) /\ Head(inbox[i]) = inbox[i][1]
        /\ Closes(inbox[i][1]) /\ 1 \in DOMAIN inbox[i]
        /\ \A j \in Instances : j # i => barrier'[j] = barrier[j]
    BY <1>7, Taken DEF OnCommit, OnAbort, Receive, Closes, Leave, Abort, TypeOK
  <2>2. ~Ordinary(inbox[i][1]) /\ inbox[i][1] # PrepareOf(s)
    BY <2>1 DEF Ordinary, Closes, PrepareOf
  <2>3. phase[s] # "commit" /\ (phase[s] \in {"prepare", "settle"} => i # At[s])
    BY <2>1, <2>2 DEF PhaseSays, OnlyOrdinary
  <2> QED
    BY <2>1, <2>2, <2>3, <1>4, <1>c
<1> QED
  BY <1>1, <1>2, <1>3, <1>5, <1>6, <1>7, CalmRooms DEF Rooms, Clients

LEMMA PhasesOfRestoreSteps ==
  ASSUME Ctx, TypeOK', LockInv', [Next]_vars, NEW r \in Restores, Lock(r) \/ Coordinator(r) \/ Faults(r),
         NEW s \in Restores
  PROVE  PhaseSays(s)'
<1> TypeOK /\ FrameInv /\ ColdInv /\ LockInv /\ PhaseSays(s) /\ PhaseSays(r)
  BY DEF Ctx, ProtocolInv, PhaseInv
<1>a. /\ At[s] \in Instances /\ At[r] \in Instances /\ s # None /\ r # None
      /\ phase \in [Restores -> Phases]
  BY AtAssumption, NoneAssumption DEF Ctx, LockInv
<1> DEFINE Active == {"flush", "prepare", "settle", "row", "snapshot", "commit"}
<1>b. ASSUME phase'[s] \notin Active PROVE PhaseSays(s)'
  BY <1>b DEF PhaseSays
<1>1. CASE Lock(r)
  <2>1. CASE UNCHANGED <<warm, barrier, inbox, taken, pending, sending>> /\ phase'[s] = phase[s]
    BY <2>1 DEF PhaseSays, Prepared, OnlyOrdinary, Silent, Behind
  <2>2. UNCHANGED <<warm, barrier, inbox, taken, pending, sending>>
    BY <1>1 DEF Lock, queue, gate
  <2>3. phase'[s] = phase[s] \/ phase'[s] \in {"read", "refused"}
    BY <1>1, <1>a DEF Lock, Goto
  <2> QED
    BY <1>b, <2>1, <2>2, <2>3
<1>2. ASSUME s # r, ~Lock(r) PROVE PhaseSays(s)'
  <2>1. Holding(r) /\ (phase'[s] = phase[s] \/ phase'[s] = "dead")
    BY <1>2, <1>a
    DEF Coordinator, Faults, Read, Begin, Flushed, PrepareOk, Settle, RowOk, SnapshotOk, CommitOk, Release,
        VersionMissing, PrepareFails, PersistFails, NotStored, StoredAnyway, GiveUp, CommitFails, Crash,
        Holding, Goto
  <2>2. phase[s] \notin Active
    BY <1>2, <2>1, OneHolds DEF Holding
  <2> QED
    BY <1>b, <2>1, <2>2
<1>3. ASSUME Read(r), s = r PROVE PhaseSays(s)'
  <2>1. warm[At[r]] /\ UNCHANGED <<warm, inbox, sending>>
    BY <1>3, <1>a, CalmRooms DEF Read
  <2>2. phase'[r] \in Active => barrier[At[r]] = None
    BY <1>3 DEF Read, Goto, TypeOK
  <2>3. phase'[r] \in {"flush", "prepare", "release"} /\ (phase'[r] = "prepare" => barrier'[At[r]] = r)
    BY <1>3, <1>a DEF Read, Begin, Enter, Goto, TypeOK
  <2>4. phase'[r] \in Active => \A n \in DOMAIN inbox[At[r]] : ~Closes(inbox[At[r]][n])
    BY <1>a, <2>2, NoneCloses
  <2> QED
    BY <1>3, <2>1, <2>3, <2>4 DEF PhaseSays
<1>4. ASSUME Flushed(r), s = r PROVE PhaseSays(s)'
  <2>1. /\ UNCHANGED <<warm, inbox>> /\ phase[r] = "flush" /\ phase'[r] = "prepare"
        /\ barrier'[At[r]] = r
    BY <1>4, <1>a DEF Flushed, Begin, Enter, Goto, TypeOK
  <2> QED
    BY <1>4, <2>1 DEF PhaseSays
<1>5. ASSUME PrepareOk(r), s = r PROVE PhaseSays(s)'
  <2>1. /\ UNCHANGED <<warm, barrier>> /\ phase[r] = "prepare" /\ phase'[r] = "settle"
        /\ inbox' = Published(inbox, At[r], PrepareOf(r))
    BY <1>5, <1>a DEF PrepareOk, Goto, gate, PrepareOf
  <2>2. inbox'[At[r]] = inbox[At[r]]
    BY <1>a, <2>1, Sent
  <2>3. ASSUME NEW j \in Instances, warm[j], j # At[r] PROVE Prepared(r, j)'
    <3>1. /\ Len(inbox[j]) + 1 \in DOMAIN inbox'[j] /\ inbox'[j][Len(inbox[j]) + 1] = PrepareOf(r)
          /\ \A n \in DOMAIN inbox'[j] : n \in DOMAIN inbox[j] \/ n = Len(inbox[j]) + 1
      BY <1>a, <2>1, <2>3, Sent
    <3>2. inbox[j] \in Seq(Frames)
      BY DEF TypeOK
    <3>3. \A n \in DOMAIN inbox'[j] : ~(n > Len(inbox[j]) + 1)
      BY <3>1, <3>2
    <3> QED
      BY <3>1, <3>3 DEF Prepared, PrepareOf
  <2> QED
    BY <1>5, <2>1, <2>2, <2>3 DEF PhaseSays
<1>6. ASSUME Settle(r), s = r PROVE PhaseSays(s)'
  <2>1. /\ UNCHANGED <<warm, barrier, inbox, taken, pending, sending>>
        /\ phase[r] = "settle" /\ phase'[r] = "row"
        /\ taken = {} /\ \A j \in Instances : inbox[j] = <<>> /\ sending[j] = None
    BY <1>6, <1>a DEF Settle, Settled, Goto, Ctx, Calm, queue, gate
  <2>2. \A j \in Instances : warm[j] => barrier[j] = r
    <3> SUFFICES ASSUME NEW j \in Instances, warm[j], j # At[r] PROVE barrier[j] = r
      BY <2>1 DEF PhaseSays
    <3>1. Prepared(r, j) /\ \A n \in DOMAIN inbox[j] : FALSE
      BY <2>1 DEF PhaseSays
    <3> QED
      BY <3>1 DEF Prepared
  <2>3. Silent
    BY <1>a, <2>1, <2>2 DEF Silent, ColdInv, TypeOK
  <2>4. \A j \in Instances : OnlyOrdinary(j)
    BY <2>1 DEF OnlyOrdinary
  <2> QED
    BY <1>6, <2>1, <2>2, <2>3, <2>4 DEF PhaseSays, Silent, Behind, OnlyOrdinary
<1>7. ASSUME RowOk(r), s = r PROVE PhaseSays(s)'
  <2>1. /\ UNCHANGED <<warm, barrier, inbox, taken, pending, sending>>
        /\ phase[r] = "row" /\ phase'[r] = "snapshot"
    BY <1>7, <1>a DEF RowOk, Goto, queue, gate
  <2> QED
    BY <1>7, <2>1 DEF PhaseSays, Silent, Behind, OnlyOrdinary
<1>8. ASSUME SnapshotOk(r), s = r PROVE PhaseSays(s)'
  <2>1. /\ UNCHANGED <<warm, inbox>> /\ phase[r] = "snapshot" /\ phase'[r] = "commit"
        /\ \A j \in Instances : j # At[r] => barrier'[j] = barrier[j]
        /\ barrier[At[r]] = r => barrier'[At[r]] = None
    BY <1>8, <1>a DEF SnapshotOk, Leave, Goto, TypeOK
  <2> QED
    BY <1>8, <2>1 DEF PhaseSays, Behind, OnlyOrdinary
<1>9. ASSUME CommitOk(r) \/ Release(r) \/ VersionMissing(r) \/ PrepareFails(r) \/ PersistFails(r) \/ CommitFails(r),
             s = r
      PROVE  PhaseSays(s)'
  <2>1. phase'[r] \notin Active
    BY <1>9, <1>a DEF CommitOk, Release, VersionMissing, PrepareFails, PersistFails, GiveUp, CommitFails, Goto
  <2> QED
    BY <1>9, <1>b, <2>1
<1>10. ASSUME Crash(r), s = r PROVE PhaseSays(s)'
  <2>1. phase'[r] = "dead"
    BY <1>10 DEF Crash
  <2> QED
    BY <1>10, <1>b, <2>1
<1> QED
  BY <1>1, <1>2, <1>3, <1>4, <1>5, <1>6, <1>7, <1>8, <1>9, <1>10 DEF Coordinator, Faults

LEMMA PhaseStep ==
  ASSUME Ctx, TypeOK', LockInv', FrameInv', [Next]_vars
  PROVE  PhaseInv'
<1> TypeOK /\ ColdInv /\ PhaseInv /\ RoomsAssumption
  BY RoomsAssumption DEF Ctx, ProtocolInv
<1>1. CASE FlushStart \/ FlushEnd \/ LockExpires \/ UNCHANGED vars
  <2> SUFFICES ASSUME NEW s \in Restores PROVE PhaseSays(s)'
    BY DEF PhaseInv
  <2>1. UNCHANGED <<phase, warm, barrier, inbox, pending, sending>>
    BY <1>1 DEF FlushStart, FlushEnd, LockExpires, vars, queue, gate, coord
  <2>2. phase[s] \in {"row", "snapshot"} => taken' = {}
    <3>1. FlushStart => phase[s] \notin {"row", "snapshot"}
      BY NoneAssumption DEF FlushStart, PhaseInv, PhaseSays, Behind
    <3> QED
      BY <1>1, <3>1 DEF FlushEnd, LockExpires, vars, PhaseInv, PhaseSays
  <2>3. PhaseSays(s)
    BY DEF PhaseInv
  <2> QED
    BY <2>1, <2>2, <2>3 DEF PhaseSays, Silent, Prepared, Behind, OnlyOrdinary
<1>2. ASSUME NEW i \in Instances, Rooms(i) \/ Clients(i) PROVE PhaseInv'
  BY <1>2, PhasesOfRoomSteps DEF PhaseInv
<1>3. ASSUME NEW r \in Restores, Lock(r) \/ Coordinator(r) \/ Faults(r) PROVE PhaseInv'
  BY <1>3, PhasesOfRestoreSteps DEF PhaseInv
<1> QED
  BY <1>1, <1>2, <1>3 DEF Next

LEMMA ProtocolInit == Init => ProtocolInv
<1> SUFFICES ASSUME Init PROVE ProtocolInv
  OBVIOUS
<1>1. \A i \in Instances : inbox[i] = <<>>
  BY DEF Init
<1>2. TypeOK /\ LockInv /\ ColdInv /\ FrameInv
  BY <1>1, TypeInit DEF Init, LockInv, Holding, Phases, ColdInv, FrameInv
<1>3. PhaseInv
  BY DEF Init, PhaseInv, PhaseSays
<1> QED
  BY <1>2, <1>3 DEF ProtocolInv

\* The protocol of a restore: who holds the lock, where the barriers are up, and
\* what is on its way.
LEMMA ProtocolStep ==
  ASSUME Serial, Calm, ProtocolInv, [Next]_vars
  PROVE  ProtocolInv'
<1>1. TypeOK' /\ LockInv'
  BY TypeStep, LockStep DEF ProtocolInv, Calm
<1>2. ColdInv' /\ FrameInv'
  BY <1>1, ColdStep, FrameStep DEF Ctx
<1>3. PhaseInv'
  BY <1>1, <1>2, PhaseStep DEF Ctx
<1> QED
  BY <1>1, <1>2, <1>3 DEF ProtocolInv

-----------------------------------------------------------------------------
(* What a step queues, sends and supersedes. *)

LEMMA TypedOnStep ==
  ASSUME [Next]_vars
  PROVE  typedOn' = typedOn \/ \E i \in Instances, x \in Edits : Type(i, x)
<1>1. ASSUME NEW i \in Instances, Rooms(i) \/ Join(i) PROVE UNCHANGED typedOn
  BY <1>1 DEF Rooms, Publish, PublishReply, OnUpdate, OnAsk, OnState, OnPrepare, OnCommit, OnAbort, Join, history
<1>2. ASSUME NEW r \in Restores, Lock(r) \/ Coordinator(r) \/ Faults(r) PROVE UNCHANGED typedOn
  BY <1>2 DEF Lock, Coordinator, Faults, Read, Flushed, PrepareOk, Settle, RowOk, SnapshotOk, CommitOk, Release,
        VersionMissing, PrepareFails, PersistFails, GiveUp, CommitFails, Crash, history
<1>3. FlushStart \/ FlushEnd \/ LockExpires \/ UNCHANGED vars => UNCHANGED typedOn
  BY DEF FlushStart, FlushEnd, LockExpires, vars, history
<1> QED
  BY <1>1, <1>2, <1>3 DEF Next, Clients

\* Edits are typed once, into texts.
LEMMA TypedGrows ==
  ASSUME TypeOK, [Next]_vars
  PROVE  \A e \in Typed : typedOn'[e] = typedOn[e] /\ e \in Typed'
<1>1. ASSUME NEW i \in Instances, NEW x \in Edits, Type(i, x)
      PROVE  \A e \in Typed : typedOn'[e] = typedOn[e] /\ e \in Typed'
  BY <1>1 DEF Type, Typed, TypeOK
<1> QED
  BY <1>1, TypedOnStep DEF Typed

\* What waits to be published waited before, or is typed now.
LEMMA QueueStep ==
  ASSUME Ctx, [Next]_vars, NEW i \in Instances, NEW n \in DOMAIN pending'[i]
  PROVE  \/ \E m \in DOMAIN pending[i] : pending'[i][n] = pending[i][m]
         \/ \E e \in Edits : Type(i, e) /\ pending'[i][n] = e
<1> TypeOK
  BY DEF Ctx, ProtocolInv
<1>a. \A j \in Instances : pending[j] \in Seq(Edits)
  BY DEF TypeOK
<1>b. pending'[i] # <<>>
  OBVIOUS
<1>1. CASE UNCHANGED pending
  BY <1>1
<1>2. CASE \E j \in Instances : pending' = [pending EXCEPT ![j] = <<>>]
  BY <1>2, <1>b DEF TypeOK
<1>3. CASE \E j \in Instances : PublishReply(j)
  <2> PICK j \in Instances : PublishReply(j)
    BY <1>3
  <2>1. pending' = [pending EXCEPT ![j] = IF @ = <<>> THEN @ ELSE Tail(@)]
    BY DEF PublishReply
  <2>2. pending'[i] = pending[i] \/ (pending[i] # <<>> /\ pending'[i] = Tail(pending[i]))
    BY <2>1 DEF TypeOK
  <2>3. ASSUME NEW q \in Seq(Edits), q # <<>>, NEW m \in DOMAIN Tail(q)
        PROVE  m + 1 \in DOMAIN q /\ Tail(q)[m] = q[m + 1]
    BY <2>3
  <2> QED
    BY <1>a, <2>2, <2>3
<1>4. CASE \E j \in Instances : \E e \in Edits : Type(j, e)
  <2> PICK j \in Instances, e \in Edits : Type(j, e)
    BY <1>4
  <2>1. pending' = [pending EXCEPT ![j] = Append(@, e)] \/ pending' = [pending EXCEPT ![j] = <<>>]
    BY DEF Type
  <2>2. j = i \/ pending'[i] = pending[i]
    BY <2>1 DEF TypeOK
  <2>3. j = i => pending'[i] = Append(pending[i], e)
    BY <1>b, <2>1 DEF TypeOK
  <2> QED
    BY <1>a, <2>2, <2>3
<1>5. FlushStart \/ FlushEnd \/ LockExpires \/ UNCHANGED vars => UNCHANGED pending
  BY DEF FlushStart, FlushEnd, LockExpires, vars, queue
<1>6. ASSUME NEW j \in Instances, Rooms(j), ~PublishReply(j)
      PROVE  UNCHANGED pending \/ pending' = [pending EXCEPT ![j] = <<>>]
  BY <1>6 DEF Rooms, Publish, OnUpdate, OnAsk, OnState, OnPrepare, OnCommit, OnAbort, Enter, Leave, queue
<1>7. ASSUME NEW r \in Restores, Lock(r) \/ Coordinator(r) \/ Faults(r)
      PROVE  UNCHANGED pending \/ pending' = [pending EXCEPT ![At[r]] = <<>>]
  BY <1>7 DEF Lock, Coordinator, Faults, Read, Begin, Flushed, PrepareOk, Settle, RowOk, SnapshotOk, CommitOk, Release,
        VersionMissing, PrepareFails, PersistFails, GiveUp, CommitFails, Crash, Enter, Leave, queue
<1> QED
  BY <1>1, <1>2, <1>3, <1>4, <1>5, <1>6, <1>7, AtAssumption, CalmRooms DEF Next, Clients

\* The frames of an inbox were there before, or one is published now.
NewFrame(f) ==
  \/ \E j \in Instances : Publish(j) /\ f = [kind |-> "update", edit |-> Head(pending[j])]
  \/ \E r \in Restores :
       \/ PrepareOk(r) /\ f = PrepareOf(r)
       \/ CommitOk(r) /\ f = CommitOf(r)
       \/ (PersistFails(r) \/ CommitFails(r)) /\ f = [kind |-> "abort", rid |-> r]

LEMMA BoxStep ==
  ASSUME Ctx, [Next]_vars, NEW i \in Instances, NEW n \in DOMAIN inbox'[i]
  PROVE  (\E m \in DOMAIN inbox[i] : inbox'[i][n] = inbox[i][m]) \/ NewFrame(inbox'[i][n])
<1> TypeOK
  BY DEF Ctx, ProtocolInv
<1>1. CASE UNCHANGED inbox
  BY <1>1
<1>2. ASSUME NEW j \in Instances, inbox[j] # <<>>, inbox' = Take(j)
      PROVE  \E m \in DOMAIN inbox[i] : inbox'[i][n] = inbox[i][m]
  BY <1>2, Taken
<1>3. ASSUME NEW j \in Instances, NEW f, inbox' = Published(inbox, j, f)
      PROVE  (\E m \in DOMAIN inbox[i] : inbox'[i][n] = inbox[i][m]) \/ inbox'[i][n] = f
  BY <1>3, Sent
<1>4. ASSUME NEW r \in Restores, Crash(r) PROVE \E m \in DOMAIN inbox[i] : inbox'[i][n] = inbox[i][m]
  <2>1. inbox' = [inbox EXCEPT ![At[r]] = <<>>]
    BY <1>4 DEF Crash
  <2>2. inbox'[i] = inbox[i]
    BY <2>1 DEF TypeOK
  <2> QED
    BY <2>2
<1>5. FlushStart \/ FlushEnd \/ LockExpires \/ UNCHANGED vars => UNCHANGED inbox
  BY DEF FlushStart, FlushEnd, LockExpires, vars
<1>6. ASSUME NEW j \in Instances, Rooms(j) \/ Clients(j)
      PROVE  (\E m \in DOMAIN inbox[i] : inbox'[i][n] = inbox[i][m]) \/ NewFrame(inbox'[i][n])
  <2>1. CASE Publish(j)
    <3>1. PICK f : f = [kind |-> "update", edit |-> Head(pending[j])]
      OBVIOUS
    <3>2. inbox' = Published(inbox, j, f)
      BY <2>1, <3>1 DEF Publish
    <3> QED
      BY <1>3, <2>1, <3>1, <3>2 DEF NewFrame
  <2>2. UNCHANGED inbox \/ (inbox[j] # <<>> /\ inbox' = Take(j)) \/ Publish(j)
    BY <1>6, CalmRooms
    DEF Rooms, Clients, PublishReply, OnUpdate, OnPrepare, OnCommit, OnAbort, Type, Receive
  <2> QED
    BY <1>1, <1>2, <2>1, <2>2
<1>7. ASSUME NEW r \in Restores, Lock(r) \/ Coordinator(r) \/ Faults(r), ~Crash(r)
      PROVE  (\E m \in DOMAIN inbox[i] : inbox'[i][n] = inbox[i][m]) \/ NewFrame(inbox'[i][n])
  <2> At[r] \in Instances
    BY AtAssumption
  <2>1. \/ UNCHANGED inbox
        \/ \E f : inbox' = Published(inbox, At[r], f) /\ NewFrame(f)
    <3>1. PrepareOk(r) => inbox' = Published(inbox, At[r], PrepareOf(r)) /\ NewFrame(PrepareOf(r))
      BY DEF PrepareOk, NewFrame, PrepareOf
    <3>2. CommitOk(r) => inbox' = Published(inbox, At[r], CommitOf(r)) /\ NewFrame(CommitOf(r))
      BY DEF CommitOk, NewFrame, CommitOf
    <3> DEFINE a == [kind |-> "abort", rid |-> r]
    <3>3. PersistFails(r) \/ CommitFails(r) => inbox' = Published(inbox, At[r], a) /\ NewFrame(a)
      BY DEF PersistFails, GiveUp, CommitFails, NewFrame
    <3> HIDE DEF a
    <3> QED
      BY <1>7, <3>1, <3>2, <3>3, CalmRooms
      DEF Lock, Coordinator, Faults, Read, Flushed, Settle, RowOk, SnapshotOk, Release, VersionMissing, PrepareFails
  <2> QED
    BY <1>1, <1>3, <2>1
<1> QED
  BY <1>4, <1>1, <1>5, <1>6, <1>7 DEF Next, Coordinator, Faults

\* A frame stays until its room takes it, or is gone.
LEMMA FrameStays ==
  ASSUME Ctx, [Next]_vars, NEW i \in Instances, NEW n \in DOMAIN inbox[i]
  PROVE  \/ \E m \in DOMAIN inbox'[i] : inbox'[i][m] = inbox[i][n]
         \/ n = 1 /\ (OnUpdate(i) \/ OnPrepare(i) \/ OnCommit(i) \/ OnAbort(i))
         \/ ~warm'[i]
<1> TypeOK
  BY DEF Ctx, ProtocolInv
<1>1. CASE UNCHANGED inbox
  BY <1>1
<1>2. ASSUME NEW j \in Instances, inbox[j] # <<>>, inbox' = Take(j), OnUpdate(j) \/ OnPrepare(j) \/ OnCommit(j) \/ OnAbort(j)
      PROVE  \/ \E m \in DOMAIN inbox'[i] : inbox'[i][m] = inbox[i][n]
             \/ n = 1 /\ (OnUpdate(i) \/ OnPrepare(i) \/ OnCommit(i) \/ OnAbort(i))
  <2>1. CASE j # i
    BY <1>2, <2>1, Taken
  <2>2. CASE j = i /\ n # 1
    BY <1>2, <2>2, Taken, Indices
  <2> QED
    BY <1>2, <2>1, <2>2
<1>3. ASSUME NEW j \in Instances, NEW f, inbox' = Published(inbox, j, f)
      PROVE  \E m \in DOMAIN inbox'[i] : inbox'[i][m] = inbox[i][n]
  BY <1>3, Sent
<1>4. ASSUME NEW r \in Restores, Crash(r) PROVE inbox'[i] = inbox[i] \/ ~warm'[i]
  BY <1>4 DEF Crash, TypeOK
<1>5. FlushStart \/ FlushEnd \/ LockExpires \/ UNCHANGED vars => UNCHANGED inbox
  BY DEF FlushStart, FlushEnd, LockExpires, vars
<1>6. ASSUME NEW j \in Instances, Rooms(j) \/ Clients(j)
      PROVE  \/ UNCHANGED inbox \/ \E f : inbox' = Published(inbox, j, f)
             \/ /\ inbox[j] # <<>> /\ inbox' = Take(j)
                /\ OnUpdate(j) \/ OnPrepare(j) \/ OnCommit(j) \/ OnAbort(j)
  BY <1>6, CalmRooms
  DEF Rooms, Clients, Publish, PublishReply, OnUpdate, OnPrepare, OnCommit, OnAbort, Type, Receive
<1>7. ASSUME NEW r \in Restores, Lock(r) \/ Coordinator(r) \/ Faults(r), ~Crash(r)
      PROVE  UNCHANGED inbox \/ \E f : inbox' = Published(inbox, At[r], f)
  BY <1>7, AtAssumption, CalmRooms
  DEF Lock, Coordinator, Faults, Read, Flushed, PrepareOk, Settle, RowOk, SnapshotOk, CommitOk, Release,
      VersionMissing, PrepareFails, PersistFails, GiveUp, CommitFails
<1>8. ASSUME NEW r \in Restores, Lock(r) \/ Coordinator(r) \/ Faults(r), ~Crash(r)
      PROVE  \E m \in DOMAIN inbox'[i] : inbox'[i][m] = inbox[i][n]
  BY <1>1, <1>3, <1>7, <1>8, AtAssumption
<1>9. ASSUME NEW j \in Instances, Rooms(j) \/ Clients(j)
      PROVE  \/ \E m \in DOMAIN inbox'[i] : inbox'[i][m] = inbox[i][n]
             \/ n = 1 /\ (OnUpdate(i) \/ OnPrepare(i) \/ OnCommit(i) \/ OnAbort(i))
  BY <1>1, <1>2, <1>3, <1>6, <1>9
<1> QED
  BY <1>1, <1>4, <1>5, <1>8, <1>9 DEF Next, Coordinator, Faults

-----------------------------------------------------------------------------
(* What is superseded stays so, and nothing of it is sent again. *)

\* The edits that the stored reset of r has superseded.
ByReset(r) == IF phase[r] \in {"row", "snapshot"} THEN {} ELSE before[r]

LEMMA SupersededBy == \A e : e \in Superseded <=> \E r \in Restores : e \in ByReset(r)
BY DEF Superseded, ByReset

\* From its reset on a restore may have superseded edits.
Recorded == {"row", "snapshot", "commit", "abort", "done", "release", "failed", "dead"}

\* A reset is stored, and the restore goes on or is given up.
Stores(r) == SnapshotOk(r) \/ (PersistFails(r) /\ StoredAnyway(r))

\* How far a restore gets in a step, and what it takes for superseded.
LEMMA BeforeStep ==
  ASSUME Ctx, BeforeInv, [Next]_vars, NEW s \in Restores
  PROVE  /\ \/ before'[s] = before[s]
            \/ before'[s] = {} /\ phase'[s] \in {"abort", "dead"}
            \/ Settle(s) /\ before'[s] = Typed /\ phase'[s] = "row"
         /\ ByReset(s)' = ByReset(s) \/ (Stores(s) /\ ByReset(s)' = before[s])
         /\ before'[s] # {} => phase'[s] \in Recorded
         /\ phase[s] = "dead" => phase'[s] = "dead" /\ before'[s] = before[s]
<1> phase \in [Restores -> Phases] /\ before \in [Restores -> SUBSET Edits]
  BY DEF Ctx, ProtocolInv, LockInv, TypeOK
<1>b. before[s] # {} => phase[s] \in Recorded
  BY DEF BeforeInv, BeforeSays, Recorded
<1>1. CASE UNCHANGED <<phase, before>>
  BY <1>1, <1>b DEF ByReset
<1>3. ASSUME NEW r \in Restores, NEW p, Goto(r, p), UNCHANGED before,
             phase[r] \in {"row", "snapshot"} <=> p \in {"row", "snapshot"},
             phase[r] # "dead",
             phase[r] \in Recorded => p \in Recorded
      PROVE  /\ before'[s] = before[s] /\ ByReset(s)' = ByReset(s)
             /\ before'[s] # {} => phase'[s] \in Recorded
             /\ phase[s] = "dead" => phase'[s] = "dead"
  BY <1>3, <1>b DEF Goto, ByReset, Recorded
<1>4. ASSUME NEW r \in Restores, Settle(r) PROVE
             /\ before'[s] = before[s] \/ (Settle(s) /\ before'[s] = Typed /\ phase'[s] = "row")
             /\ ByReset(s)' = ByReset(s)
             /\ before'[s] # {} => phase'[s] \in Recorded
             /\ phase[s] = "dead" => phase'[s] = "dead" /\ before'[s] = before[s]
  <2>1. s # r => phase'[s] = phase[s] /\ before'[s] = before[s]
    BY <1>4 DEF Settle, Goto
  <2>2. s = r => phase'[s] = "row" /\ phase[s] = "settle" /\ before'[s] = Typed
    BY <1>4 DEF Settle, Goto
  <2> QED
    BY <1>4, <2>1, <2>2, <1>b DEF ByReset, Recorded
<1>5. ASSUME NEW r \in Restores, SnapshotOk(r) PROVE
             /\ before'[s] = before[s]
             /\ ByReset(s)' = ByReset(s) \/ (Stores(s) /\ ByReset(s)' = before[s])
             /\ before'[s] # {} => phase'[s] \in Recorded
             /\ phase[s] = "dead" => phase'[s] = "dead"
  BY <1>5, <1>b DEF SnapshotOk, Goto, history, ByReset, Stores, Recorded
<1>6. ASSUME NEW r \in Restores, PersistFails(r) PROVE
             /\ before'[s] = before[s] \/ (before'[s] = {} /\ phase'[s] \in {"abort", "dead"})
             /\ ByReset(s)' = ByReset(s) \/ (Stores(s) /\ ByReset(s)' = before[s])
             /\ before'[s] # {} => phase'[s] \in Recorded
             /\ phase[s] = "dead" => phase'[s] = "dead" /\ before'[s] = before[s]
  <2>1. phase' = [phase EXCEPT ![r] = "abort"] /\ phase[r] \in {"row", "snapshot"}
    BY <1>6 DEF PersistFails, GiveUp, NotStored, StoredAnyway, Goto
  <2>2. CASE NotStored(r)
    BY <2>1, <2>2, <1>b DEF NotStored, ByReset, Recorded
  <2>3. CASE StoredAnyway(r)
    BY <1>6, <2>1, <2>3, <1>b DEF StoredAnyway, ByReset, Stores, Recorded
  <2> QED
    BY <1>6, <2>2, <2>3 DEF PersistFails
<1>7. ASSUME NEW r \in Restores, Crash(r) PROVE
             /\ before'[s] = before[s] \/ (before'[s] = {} /\ phase'[s] \in {"abort", "dead"})
             /\ ByReset(s)' = ByReset(s)
             /\ before'[s] # {} => phase'[s] \in Recorded
             /\ phase[s] = "dead" => phase'[s] = "dead" /\ before'[s] = before[s]
  BY <1>7, <1>b DEF Crash, ByReset, Phases, Recorded
<1>8. ASSUME NEW r \in Restores, Lock(r) \/ Coordinator(r) \/ Faults(r),
             ~Settle(r), ~SnapshotOk(r), ~PersistFails(r), ~Crash(r)
      PROVE  \E p : /\ Goto(r, p) /\ UNCHANGED before
                    /\ phase[r] \in {"row", "snapshot"} <=> p \in {"row", "snapshot"}
                    /\ phase[r] # "dead"
                    /\ phase[r] \in Recorded => p \in Recorded
  BY <1>8 DEF Lock, Coordinator, Faults, Read, Begin, Flushed, PrepareOk, RowOk, CommitOk, Release,
        VersionMissing, PrepareFails, CommitFails, history, Recorded
<1>9. FlushStart \/ FlushEnd \/ LockExpires \/ UNCHANGED vars => UNCHANGED <<phase, before>>
  BY DEF FlushStart, FlushEnd, LockExpires, vars, history, coord
<1>10. ASSUME NEW i \in Instances, Rooms(i) \/ Clients(i) PROVE UNCHANGED <<phase, before>>
  BY <1>10 DEF Rooms, Publish, PublishReply, OnUpdate, OnAsk, OnState, OnPrepare, OnCommit, OnAbort,
        Clients, Join, Type, history, coord
<1>11. ASSUME NEW r \in Restores, Lock(r) \/ Coordinator(r) \/ Faults(r) PROVE
             /\ \/ before'[s] = before[s]
                \/ before'[s] = {} /\ phase'[s] \in {"abort", "dead"}
                \/ Settle(s) /\ before'[s] = Typed /\ phase'[s] = "row"
             /\ ByReset(s)' = ByReset(s) \/ (Stores(s) /\ ByReset(s)' = before[s])
             /\ before'[s] # {} => phase'[s] \in Recorded
             /\ phase[s] = "dead" => phase'[s] = "dead" /\ before'[s] = before[s]
  <2>1. CASE Settle(r) BY <2>1, <1>4
  <2>2. CASE SnapshotOk(r) BY <2>2, <1>5
  <2>3. CASE PersistFails(r) BY <2>3, <1>6
  <2>4. CASE Crash(r) BY <2>4, <1>7
  <2>5. CASE ~Settle(r) /\ ~SnapshotOk(r) /\ ~PersistFails(r) /\ ~Crash(r)
    BY <2>5, <1>11, <1>8, <1>3
  <2> QED
    BY <2>1, <2>2, <2>3, <2>4, <2>5
<1> QED
  BY <1>1, <1>9, <1>10, <1>11 DEF Next

\* Only a snapshot that holds a reset supersedes more.
LEMMA SupersededGrows ==
  ASSUME Ctx, BeforeInv, [Next]_vars, NEW e
  PROVE  e \in Superseded' <=> e \in Superseded \/ \E r \in Restores : Stores(r) /\ e \in before[r]
<1>1. e \in Superseded' <=> \E r \in Restores : e \in ByReset(r)'
  BY DEF Superseded, ByReset
<1>2. \A r \in Restores : ByReset(r)' = ByReset(r) \/ (Stores(r) /\ ByReset(r)' = before[r])
  BY BeforeStep
<1>3. \A r \in Restores : Stores(r) => ByReset(r)' = before[r] /\ ByReset(r) = {}
  BY DEF Stores, SnapshotOk, PersistFails, StoredAnyway, GiveUp, ByReset, Goto, history, Ctx,
         ProtocolInv, LockInv
<1> QED
  BY <1>1, <1>2, <1>3, SupersededBy

\* A reset is stored in no other way, unless it is given up all the same.
LEMMA StoredOnce == ASSUME "storedAnyway" \notin env, NEW r PROVE ~StoredAnyway(r)
BY DEF StoredAnyway

LEMMA SupersededStep ==
  ASSUME Ctx, "storedAnyway" \notin env, BeforeInv, [Next]_vars, NEW e
  PROVE  e \in Superseded' <=> e \in Superseded \/ \E r \in Restores : SnapshotOk(r) /\ e \in before[r]
BY SupersededGrows, StoredOnce DEF Stores

LEMMA SupersededIsTyped ==
  ASSUME BeforeInv, NEW e \in Superseded
  PROVE  e \in Typed /\ NotSent(e)
BY DEF Superseded, BeforeInv, BeforeSays

\* Nothing of what was typed before a reset is sent again.
LEMMA NotSentStays ==
  ASSUME Ctx, [Next]_vars, NEW e \in Typed, NotSent(e)
  PROVE  NotSent(e)'
<1> TypeOK
  BY DEF Ctx, ProtocolInv
<1>1. ASSUME NEW i \in Instances, NEW n \in DOMAIN pending'[i] PROVE pending'[i][n] # e
  <2>1. \A x \in Edits : Type(i, x) => x # e
    BY DEF Type, Typed
  <2> QED
    BY <2>1, QueueStep DEF NotSent
<1>2. ASSUME NEW i \in Instances, NEW n \in DOMAIN inbox'[i], inbox'[i][n].kind = "update"
      PROVE  inbox'[i][n].edit # e
  <2>1. PICK f : f = inbox'[i][n]
    OBVIOUS
  <2>2. CASE \E m \in DOMAIN inbox[i] : f = inbox[i][m]
    BY <1>2, <2>1, <2>2 DEF NotSent, Ordinary
  <2>3. CASE NewFrame(f)
    <3>0. \A r \in Restores : f # PrepareOf(r) /\ f # CommitOf(r) /\ f # [kind |-> "abort", rid |-> r]
      BY <1>2, <2>1 DEF PrepareOf, CommitOf
    <3>1. PICK j \in Instances : Publish(j) /\ f = [kind |-> "update", edit |-> Head(pending[j])]
      BY <2>3, <3>0 DEF NewFrame
    <3>2. pending[j] \in Seq(Edits) /\ pending[j] # <<>>
      BY <3>1 DEF TypeOK, Publish
    <3>3. 1 \in DOMAIN pending[j] /\ Head(pending[j]) = pending[j][1]
      BY <3>2
    <3> QED
      BY <2>1, <3>1, <3>3 DEF NotSent
  <2> QED
    BY <2>1, <2>2, <2>3, BoxStep
<1> QED
  BY <1>1, <1>2 DEF NotSent, Ordinary

LEMMA BeforeInvStep ==
  ASSUME Ctx, ProtocolInv', BeforeInv, [Next]_vars
  PROVE  BeforeInv'
<1> TypeOK
  BY DEF Ctx, ProtocolInv
<1> SUFFICES ASSUME NEW s \in Restores PROVE BeforeSays(s)'
  BY DEF BeforeInv
<1>0. BeforeSays(s)
  BY DEF BeforeInv
<1>1. before'[s] \subseteq Typed'
  <2>1. Typed \subseteq Typed'
    BY TypedGrows
  <2> QED
    BY <2>1, <1>0, BeforeStep DEF BeforeSays
<1>2. before'[s] # {} => phase'[s] \in Recorded
  BY BeforeStep
<1>3. ASSUME NEW e \in before'[s] PROVE NotSent(e)'
  <2>1. CASE e \in before[s]
    BY <2>1, <1>0, NotSentStays DEF BeforeSays
  <2>2. CASE phase'[s] = "row"
    <3>1. Silent'
      BY <2>2 DEF ProtocolInv, PhaseInv, PhaseSays
    <3> QED
      BY <3>1 DEF Silent, NotSent
  <2> QED
    BY <1>3, <2>1, <2>2, BeforeStep
<1> QED
  BY <1>1, <1>2, <1>3 DEF BeforeSays, Recorded

LEMMA BeforeInit == Init => BeforeInv
BY DEF Init, BeforeInv, BeforeSays, NotSent

-----------------------------------------------------------------------------
(* What a step does to one room. *)

OfRestore(i) ==
  \E r \in Restores : At[r] = i /\ (Settle(r) \/ SnapshotOk(r) \/ PersistFails(r) \/ Crash(r))
OfClients(i) == \E e \in Edits : Type(i, e)

\* Few steps do more to a room than set its barrier or write its buffer.
LEMMA RoomStep ==
  ASSUME Ctx, [Next]_vars, NEW i \in Instances
  PROVE  \/ /\ doc'[i] = doc[i] /\ quarantined'[i] = quarantined[i]
            /\ buffer'[i] \in {buffer[i], {}}
            /\ barrier'[i] = None => barrier[i] = None
         \/ OfClients(i) \/ OnUpdate(i) \/ OnCommit(i) \/ OnAbort(i) \/ OfRestore(i)
<1> TypeOK
  BY DEF Ctx, ProtocolInv
<1> DEFINE Little == /\ doc'[i] = doc[i] /\ quarantined'[i] = quarantined[i]
                     /\ buffer'[i] \in {buffer[i], {}}
                     /\ barrier'[i] = None => barrier[i] = None
<1>1. FlushStart \/ FlushEnd \/ LockExpires \/ UNCHANGED vars => Little
  BY DEF FlushStart, FlushEnd, LockExpires, vars, gate, TypeOK
<1>2. ASSUME NEW j \in Instances, Rooms(j) \/ Clients(j), j # i PROVE Little
  BY <1>2, CalmRooms DEF Rooms, Publish, PublishReply, OnUpdate, OnPrepare, OnCommit, OnAbort,
    Enter, Leave, Abort, Apply, Clients, Type, gate, TypeOK
<1>3. ASSUME Rooms(i) \/ Clients(i), ~OnUpdate(i), ~OnCommit(i), ~OnAbort(i), ~OfClients(i) PROVE Little
  <2>1. CASE OnPrepare(i)
    <3>1. Head(inbox[i]).rid \in Restores /\ barrier'[i] = Head(inbox[i]).rid
      <4>1. Head(inbox[i]) \in Frames
        BY <2>1, TakeType DEF OnPrepare, Receive, TypeOK
      <4> QED
        BY <2>1, <4>1, FrameFields DEF OnPrepare, Receive, Enter, TypeOK
    <3> QED
      BY <2>1, <3>1, NoneAssumption DEF OnPrepare
  <2>2. CASE Publish(i) \/ PublishReply(i)
    BY <2>2 DEF Publish, PublishReply, gate
  <2> QED
    BY <1>3, <2>1, <2>2, CalmRooms DEF Rooms, Clients, OfClients
<1>4. ASSUME NEW r \in Restores, Settle(r) \/ SnapshotOk(r) \/ PersistFails(r) \/ Crash(r), At[r] # i
      PROVE  Little
  BY <1>4 DEF Settle, SnapshotOk, PersistFails, GiveUp, Crash, Leave, Abort, Apply, gate, TypeOK
<1>5. ASSUME NEW r \in Restores, Lock(r) \/ Coordinator(r) \/ Faults(r),
             ~Settle(r), ~SnapshotOk(r), ~PersistFails(r), ~Crash(r)
      PROVE  Little
  <2>1. UNCHANGED <<doc, quarantined>>
    BY <1>5, CalmRooms, AtAssumption DEF Lock, Coordinator, Faults, Read, Begin, Flushed, PrepareOk, RowOk, CommitOk,
      Release, VersionMissing, PrepareFails, CommitFails, gate
  <2>2. UNCHANGED buffer \/ buffer' = [buffer EXCEPT ![At[r]] = {}]
    BY <1>5 DEF Lock, Coordinator, Faults, Read, Begin, Flushed, PrepareOk, RowOk, CommitOk,
      Release, VersionMissing, PrepareFails, CommitFails, gate
  <2>3. UNCHANGED barrier \/ barrier' = [barrier EXCEPT ![At[r]] = r]
    BY <1>5 DEF Lock, Coordinator, Faults, Read, Begin, Enter, Flushed, PrepareOk, RowOk, CommitOk,
      Release, VersionMissing, PrepareFails, CommitFails, gate
  <2> QED
    BY <2>1, <2>2, <2>3, NoneAssumption DEF TypeOK
<1> HIDE DEF Little
<1>6. Little \/ OfClients(i) \/ OnUpdate(i) \/ OnCommit(i) \/ OnAbort(i) \/ OfRestore(i)
  BY <1>1, <1>2, <1>3, <1>4, <1>5 DEF Next, OfRestore
<1> QED
  BY <1>6 DEF Little

\* What is applied by the bus shows nothing but itself.
LEMMA Applied ==
  ASSUME TypeOK, NEW i \in Instances, NEW d \in Docs, d.has \subseteq Edits, d.gone = {}, Apply(i, d)
  PROVE  /\ doc'[i] = [has |-> doc[i].has \cup d.has, gone |-> doc[i].gone]
         /\ buffer'[i] \subseteq buffer[i] \cup d.has
         /\ \A j \in Instances : j # i => doc'[j] = doc[j] /\ buffer'[j] = buffer[j]
<1>1. /\ doc \in [Instances -> Docs] /\ buffer \in [Instances -> SUBSET Edits]
      /\ doc' = [doc EXCEPT ![i] = Merge(@, d)]
      /\ buffer' = [buffer EXCEPT ![i] = @ \cup ((Visible(doc'[i]) \ Visible(doc[i])) \cap Edits)]
  BY DEF TypeOK, Apply
<1>2. doc'[i] = [has |-> doc[i].has \cup d.has, gone |-> doc[i].gone]
  BY <1>1 DEF Merge, Docs
<1>3. ASSUME NEW e \in Edits, e \in Visible(doc'[i]), e \notin Visible(doc[i]) PROVE e \in d.has
  <2>1. typedOn[e] \subseteq Texts
    BY DEF TypeOK
  <2>2. typedOn[e] \subseteq doc'[i].has => typedOn[e] \subseteq doc[i].has
    BY <1>2, <2>1, TextsAssumption
  <2>3. e \in Pieces
    BY DEF Pieces
  <2> QED
    BY <1>2, <1>3, <2>2, <2>3 DEF Visible
<1> QED
  BY <1>1, <1>2, <1>3

\* The head of an inbox.
LEMMA HeadIs ==
  ASSUME Ctx, NEW i \in Instances, inbox[i] # <<>>
  PROVE  /\ Head(inbox[i]) = inbox[i][1] /\ 1 \in DOMAIN inbox[i]
         /\ Head(inbox[i]) \in Frames /\ FrameSays(i, Head(inbox[i]))
         /\ Head(inbox[i]).kind = "update" => Head(inbox[i]).edit \in Edits
         /\ Head(inbox[i]).kind \in {"prepare", "commit", "abort"} => Head(inbox[i]).rid \in Restores
<1>1. TypeOK /\ FrameInv
  BY DEF Ctx, ProtocolInv
<1>2. Head(inbox[i]) = inbox[i][1] /\ 1 \in DOMAIN inbox[i]
  BY <1>1, Taken
<1>3. inbox[i][1] \in Frames /\ FrameSays(i, inbox[i][1])
  BY <1>1, <1>2, FrameKinds
<1> QED
  BY <1>2, <1>3, FrameFields

\* What a room has after a step: what it had, edits, and the copy of a reset.
LEMMA HasStep ==
  ASSUME Ctx, [Next]_vars, NEW i \in Instances
  PROVE  /\ doc[i].has \subseteq doc'[i].has \/ ~warm'[i]
         /\ \A p \in doc'[i].has :
              \/ p \in doc[i].has \cup Edits
              \/ \E r \in Restores : p = <<r, i>> /\ phase'[r] \in {"row", "done"}
<1> TypeOK
  BY DEF Ctx, ProtocolInv
<1>a. doc \in [Instances -> Docs] /\ quarantined \in [Instances -> SUBSET Edits]
      /\ phase \in [Restores -> Phases] /\ warm \in [Instances -> BOOLEAN]
  BY DEF TypeOK
<1>1. CASE doc'[i] = doc[i]
  BY <1>1
<1>2. ASSUME NEW e \in Edits, Type(i, e) PROVE doc'[i].has = doc[i].has \cup {e}
  BY <1>2, <1>a DEF Type, Docs
<1>3. CASE OnUpdate(i) /\ doc'[i] # doc[i]
  <2>1. inbox[i] # <<>> /\ Head(inbox[i]).kind = "update"
    BY <1>3 DEF OnUpdate, Receive
  <2>2. PICK d : d = [has |-> {Head(inbox[i]).edit}, gone |-> {}]
    OBVIOUS
  <2>3. d \in Docs /\ d.has \subseteq Edits /\ d.gone = {}
    BY <2>1, <2>2, HeadIs, DocTypes
  <2>4. Apply(i, d)
    BY <1>3, <2>2 DEF OnUpdate
  <2>5. doc'[i] = [has |-> doc[i].has \cup d.has, gone |-> doc[i].gone]
    BY <2>3, <2>4, Applied
  <2> QED
    BY <2>3, <2>5
<1>4. CASE OnCommit(i) /\ doc'[i] # doc[i]
  <2>1. inbox[i] # <<>> /\ Head(inbox[i]).kind = "commit"
    BY <1>4 DEF OnCommit, Receive
  <2>2. PICK r \in Restores : r = Head(inbox[i]).rid
    BY <2>1, HeadIs
  <2>3. phase[r] = "done" /\ UNCHANGED phase
    BY <1>4, <2>1, <2>2, HeadIs DEF FrameSays, OnCommit, coord
  <2>4. doc'[i] = Reset(doc[i], i, r)
    BY <1>4, <1>a, <2>2 DEF OnCommit
  <2> QED
    BY <2>3, <2>4 DEF Reset
<1>5. ASSUME NEW r \in Restores, Abort(i, r), doc'[i] # doc[i]
      PROVE  /\ doc[i].has \subseteq doc'[i].has
             /\ \A p \in doc'[i].has : p \in doc[i].has \cup Edits
  <2>1. PICK d : d = [has |-> quarantined[i], gone |-> {}]
    OBVIOUS
  <2>2. d \in Docs /\ d.has \subseteq Edits /\ d.gone = {}
    BY <1>a, <2>1, DocTypes
  <2>3. Apply(i, d)
    BY <1>5, <2>1 DEF Abort
  <2>4. doc'[i] = [has |-> doc[i].has \cup d.has, gone |-> doc[i].gone]
    BY <2>2, <2>3, Applied
  <2> QED
    BY <2>2, <2>4
<1>6. CASE OnAbort(i) /\ doc'[i] # doc[i]
  <2>1. Head(inbox[i]).rid \in Restores /\ Abort(i, Head(inbox[i]).rid)
    BY <1>6, HeadIs DEF OnAbort, Receive
  <2> QED
    BY <1>5, <1>6, <2>1
<1>7. ASSUME NEW r \in Restores, At[r] = i, Settle(r)
      PROVE  doc'[i].has = doc[i].has \cup {<<r, i>>} /\ phase'[r] = "row"
  BY <1>7, <1>a DEF Settle, Reset, Goto
<1>8. ASSUME NEW r \in Restores, At[r] = i, SnapshotOk(r) PROVE doc'[i] = doc[i]
  BY <1>8 DEF SnapshotOk
<1>9. ASSUME NEW r \in Restores, At[r] = i, PersistFails(r), doc'[i] # doc[i]
      PROVE  /\ doc[i].has \subseteq doc'[i].has
             /\ \A p \in doc'[i].has : p \in doc[i].has \cup Edits
  BY <1>9, <1>5 DEF PersistFails, GiveUp
<1>10. ASSUME NEW r \in Restores, At[r] = i, Crash(r)
       PROVE  ~warm'[i] /\ doc'[i].has = {}
  BY <1>10, <1>a DEF Crash
<1> QED
  BY <1>1, <1>2, <1>3, <1>4, <1>6, <1>7, <1>8, <1>9, <1>10, RoomStep DEF OfClients, OfRestore

-----------------------------------------------------------------------------
(* What a coordinator stores. *)

Early(p) == p \in {"none", "refused", "read", "flush", "prepare", "settle"}

LEMMA EarlyBefore ==
  ASSUME TypeOK, [Next]_vars, NEW r \in Restores, Early(phase'[r])
  PROVE  Early(phase[r])
<1> phase \in [Restores -> Phases]
  BY DEF TypeOK
<1>1. CASE UNCHANGED phase
  BY <1>1
<1>2. ASSUME NEW s \in Restores, NEW p, Goto(s, p), Early(phase[s]) \/ ~Early(p)
      PROVE  Early(phase[r])
  BY <1>2 DEF Goto
<1>3. ASSUME NEW s \in Restores, Lock(s) \/ Coordinator(s) \/ Faults(s), ~Crash(s)
      PROVE  \E p : Goto(s, p) /\ (Early(phase[s]) \/ ~Early(p))
  BY <1>3 DEF Lock, Coordinator, Faults, Read, Begin, Flushed, PrepareOk, Settle, RowOk, SnapshotOk, CommitOk, Release,
        VersionMissing, PrepareFails, PersistFails, NotStored, StoredAnyway, GiveUp, CommitFails, Early
<1>4. ASSUME NEW s \in Restores, Crash(s) PROVE Early(phase[r])
  BY <1>4 DEF Crash, Early
<1>5. FlushStart \/ FlushEnd \/ LockExpires \/ UNCHANGED vars => UNCHANGED phase
  BY DEF FlushStart, FlushEnd, LockExpires, vars, coord
<1>6. ASSUME NEW i \in Instances, Rooms(i) \/ Clients(i) PROVE UNCHANGED phase
  BY <1>6 DEF Rooms, Publish, PublishReply, OnUpdate, OnAsk, OnState, OnPrepare, OnCommit, OnAbort,
        Clients, Join, Type, coord
<1> QED
  BY <1>1, <1>2, <1>3, <1>4, <1>5, <1>6 DEF Next, Coordinator, Faults

\* The snapshots, the rows and the cuts change with a restore that stores them.
LEMMA StoreStep ==
  ASSUME TypeOK, "storedAnyway" \notin env, [Next]_vars
  PROVE  /\ snap' = snap \/ \E r \in Restores : SnapshotOk(r)
         /\ rows' = rows \/ (FlushEnd /\ taken # {}) \/ \E r \in Restores : SnapshotOk(r)
         /\ \A s \in Restores : cut'[s] = cut[s] \/ RowOk(s)
<1>1. FlushStart \/ LockExpires \/ UNCHANGED vars => UNCHANGED <<snap, rows, cut>>
  BY DEF FlushStart, LockExpires, vars, coord, store
<1>2. FlushEnd => UNCHANGED <<snap, cut>> /\ taken # {}
  BY DEF FlushEnd, coord
<1>3. ASSUME NEW i \in Instances, Rooms(i) \/ Clients(i) PROVE UNCHANGED <<snap, rows, cut>>
  BY <1>3 DEF Rooms, Publish, PublishReply, OnUpdate, OnAsk, OnState, OnPrepare, OnCommit, OnAbort,
        Clients, Join, Type, coord, store
<1>4. ASSUME NEW r \in Restores, Lock(r) \/ Coordinator(r) \/ Faults(r)
      PROVE  /\ UNCHANGED <<snap, rows>> \/ SnapshotOk(r)
             /\ cut' = cut \/ (RowOk(r) /\ cut' = [cut EXCEPT ![r] = [doc |-> doc[At[r]], rows |-> rows]])
  BY <1>4, StoredOnce
  DEF Lock, Coordinator, Faults, Read, Flushed, PrepareOk, Settle, RowOk, SnapshotOk, CommitOk, Release,
        VersionMissing, PrepareFails, PersistFails, NotStored, GiveUp, CommitFails, Crash, store
<1>5. cut \in [Restores -> [doc : Docs, rows : SUBSET Edits]]
  BY DEF TypeOK
<1> QED
  BY <1>1, <1>2, <1>3, <1>4, <1>5 DEF Next

\* How a restore gets to what it stores.
LEMMA PhaseMoves ==
  ASSUME TypeOK, [Next]_vars, NEW r \in Restores
  PROVE  /\ phase'[r] = "row" => phase[r] = "row" \/ Settle(r)
         /\ phase'[r] = "snapshot" => phase[r] = "snapshot" \/ RowOk(r)
         /\ phase'[r] = "commit" => phase[r] = "commit" \/ SnapshotOk(r)
         /\ phase[r] = "commit" =>
              phase'[r] = "commit" \/ CommitOk(r) \/ CommitFails(r) \/ phase'[r] = "dead"
<1> phase \in [Restores -> Phases]
  BY DEF TypeOK
<1>1. CASE UNCHANGED phase
  BY <1>1
<1>2. ASSUME NEW s \in Restores, Lock(s) \/ Coordinator(s) \/ Faults(s), ~Crash(s)
      PROVE  \E p : /\ Goto(s, p)
                    /\ p = "row" => Settle(s)
                    /\ p = "snapshot" => RowOk(s)
                    /\ p = "commit" => SnapshotOk(s)
                    /\ phase[s] = "commit" => CommitOk(s) \/ CommitFails(s)
  <2>1. CASE Lock(s) BY <2>1 DEF Lock, Goto
  <2>2. CASE Read(s) BY <2>2 DEF Read, Begin, Goto
  <2>3. CASE Coordinator(s) /\ ~Read(s)
    BY <2>3 DEF Coordinator, Begin, Flushed, PrepareOk, Settle, RowOk, SnapshotOk, CommitOk, Release
  <2>4. CASE Faults(s) /\ ~Crash(s)
    BY <2>4 DEF Faults, VersionMissing, PrepareFails, PersistFails, NotStored, StoredAnyway, GiveUp,
                CommitFails
  <2> QED
    BY <1>2, <2>1, <2>2, <2>3, <2>4
<1>3. ASSUME NEW s \in Restores, Lock(s) \/ Coordinator(s) \/ Faults(s), ~Crash(s)
      PROVE  /\ phase'[r] = "row" => phase[r] = "row" \/ Settle(r)
             /\ phase'[r] = "snapshot" => phase[r] = "snapshot" \/ RowOk(r)
             /\ phase'[r] = "commit" => phase[r] = "commit" \/ SnapshotOk(r)
             /\ phase[r] = "commit" =>
                  phase'[r] = "commit" \/ CommitOk(r) \/ CommitFails(r)
  BY <1>2, <1>3 DEF Goto
<1>4. ASSUME NEW s \in Restores, Crash(s) PROVE phase'[r] = "dead" \/ phase'[r] = phase[r]
  BY <1>4 DEF Crash
<1>5. FlushStart \/ FlushEnd \/ LockExpires \/ UNCHANGED vars => UNCHANGED phase
  BY DEF FlushStart, FlushEnd, LockExpires, vars, coord
<1>6. ASSUME NEW i \in Instances, Rooms(i) \/ Clients(i) PROVE UNCHANGED phase
  BY <1>6 DEF Rooms, Publish, PublishReply, OnUpdate, OnAsk, OnState, OnPrepare, OnCommit, OnAbort,
        Clients, Join, Type, coord
<1> QED
  BY <1>1, <1>3, <1>4, <1>5, <1>6 DEF Next, Coordinator, Faults

LEMMA FreshStep ==
  ASSUME Ctx, "storedAnyway" \notin env, TypeOK', [Next]_vars, NEW r \in Restores, FreshSays(r)
  PROVE  FreshSays(r)'
<1> TypeOK
  BY DEF Ctx, ProtocolInv
<1> SUFFICES ASSUME Early(phase'[r]) PROVE FreshSays(r)'
  BY DEF Early, FreshSays
<1>1. /\ <<r, At[r]>> \notin snap.has
      /\ \A i \in Instances : <<r, At[r]>> \notin doc[i].has
      /\ \A s \in Restores : <<r, At[r]>> \notin cut[s].doc.has
      /\ \A e \in Edits : <<r, At[r]>> \notin typedOn[e]
  BY EarlyBefore DEF Early, FreshSays
<1>2. <<r, At[r]>> \notin Edits
  BY AtAssumption, TextsAssumption DEF Texts, Copies
<1>3. ASSUME NEW i \in Instances PROVE <<r, At[r]>> \notin doc'[i].has
  BY <1>1, <1>2, HasStep DEF Early
<1>4. <<r, At[r]>> \notin snap'.has
  BY <1>1, StoreStep DEF SnapshotOk, StoreReset
<1>5. ASSUME NEW s \in Restores PROVE <<r, At[r]>> \notin cut'[s].doc.has
  <2>1. RowOk(s) => cut'[s].doc = doc[At[s]]
    BY DEF RowOk, TypeOK
  <2> QED
    BY <1>1, <2>1, StoreStep, AtAssumption
<1>6. ASSUME NEW e \in Edits PROVE <<r, At[r]>> \notin typedOn'[e]
  <2>1. ASSUME NEW i \in Instances, NEW x \in Edits, Type(i, x)
        PROVE  typedOn'[e] = typedOn[e] \/ typedOn'[e] \subseteq doc[i].has
    BY <2>1 DEF Type, Visible, TypeOK
  <2>2. typedOn' = typedOn \/ \E i \in Instances, x \in Edits : Type(i, x)
    BY TypedOnStep
  <2> QED
    BY <1>1, <2>1, <2>2
<1> QED
  BY <1>3, <1>4, <1>5, <1>6 DEF FreshSays

\* An edit that was typed earlier shows in the same documents as before.
LEMMA StillShows ==
  ASSUME TypeOK, [Next]_vars, NEW e \in Typed, NEW d, NEW d1, e \notin Visible(d),
         d1.has \subseteq d.has \cup (Edits \ {e}), d1.gone = d.gone
  PROVE  e \notin {p \in d1.has \ d1.gone : p \in Edits => typedOn'[p] \subseteq d1.has}
<1>1. typedOn'[e] = typedOn[e] /\ e \in Edits /\ typedOn[e] \subseteq Texts
  BY TypedGrows DEF Typed, TypeOK
<1> QED
  BY <1>1, TextsAssumption DEF Visible

LEMMA CutStep ==
  ASSUME Ctx, "storedAnyway" \notin env, ProtocolInv', BeforeInv, BeforeInv', ResetInv, [Next]_vars, NEW r \in Restores
  PROVE  CutSays(r)'
<1> TypeOK /\ TypeOK'
  BY DEF Ctx, ProtocolInv
<1>a. FreshSays(r) /\ CutSays(r) /\ BeforeSays(r) /\ BeforeSays(r)' /\ PhaseSays(r) /\ PhaseSays(r)'
      /\ At[r] \in Instances
  BY AtAssumption DEF ResetInv, BeforeInv, Ctx, ProtocolInv, PhaseInv
<1>1. CASE Settle(r)
  <2>1. /\ phase[r] = "settle" /\ phase'[r] = "row" /\ before'[r] = Typed
        /\ doc'[At[r]] = Reset(doc[At[r]], At[r], r) /\ typedOn' = typedOn
    BY <1>1 DEF Settle, Goto, TypeOK
  <2>2. ASSUME NEW e \in Typed PROVE e \notin Visible(doc[At[r]])'
    <3>1. <<r, At[r]>> \notin typedOn[e] /\ e \in Edits /\ e # <<r, At[r]>>
      BY <1>a, <2>1, TextsAssumption DEF FreshSays, Typed, Texts, Copies
    <3> QED
      BY <2>1, <3>1 DEF Visible, Reset
  <2>3. Superseded' \subseteq Typed
    <3>1. \A s \in Restores : ~SnapshotOk(s)
      BY <2>1, OneHolds DEF SnapshotOk, Holding
    <3> QED
      BY <3>1, SupersededStep, SupersededIsTyped
  <2> QED
    BY <2>1, <2>2, <2>3 DEF CutSays
<1>2. CASE ~Settle(r)
  <2> SUFFICES ASSUME phase'[r] \in {"row", "snapshot", "commit"} PROVE CutSays(r)'
    BY DEF CutSays
  <2>0. before'[r] = before[r] /\ before[r] \subseteq Typed
    BY <1>2, <1>a, BeforeStep DEF BeforeSays
  <2>1. /\ phase[r] \in {"row", "snapshot", "commit"} /\ Holding(r)
        /\ phase'[r] = "row" => phase[r] = "row"
        /\ phase'[r] = "snapshot" => phase[r] = "snapshot" \/ RowOk(r)
    <3>1. (RowOk(r) => phase[r] = "row") /\ (SnapshotOk(r) => phase[r] = "snapshot")
      BY DEF RowOk, SnapshotOk
    <3> QED
      BY <1>2, <3>1, PhaseMoves DEF Holding
  <2>2. \A s \in Restores : Holding(s) => s = r
    BY <2>1, OneHolds
  <2>3. Superseded' \subseteq before'[r]
    <3>1. \A s \in Restores : SnapshotOk(s) => s = r
      BY <2>2 DEF SnapshotOk, Holding
    <3>2. Superseded \subseteq before[r]
      BY <1>a, <2>1 DEF CutSays
    <3> QED
      BY <2>0, <3>1, <3>2, SupersededStep
  <2>4. ASSUME phase'[r] = "row" PROVE before'[r] \cap Visible(doc[At[r]])' = {}
    <3>1. phase[r] = "row" /\ Silent
      BY <2>1, <2>4, <1>a DEF PhaseSays
    <3>2. \/ doc'[At[r]] = doc[At[r]]
          \/ \E x \in Edits : Type(At[r], x)
      <4>1. ~OnUpdate(At[r]) /\ ~OnCommit(At[r]) /\ ~OnAbort(At[r])
        BY <1>a, <3>1 DEF Silent, OnUpdate, OnCommit, OnAbort, Receive
      <4>2. ASSUME OfRestore(At[r]) PROVE FALSE
        <5>1. PICK s \in Restores : At[s] = At[r] /\ (Settle(s) \/ SnapshotOk(s) \/ PersistFails(s) \/ Crash(s))
          BY <4>2 DEF OfRestore
        <5>2. s = r
          BY <3>1, <5>1, OneHolds DEF Holding, Settle, SnapshotOk, PersistFails, NotStored, StoredAnyway, Crash
        <5> QED
          BY <2>4, <3>1, <5>1, <5>2 DEF Settle, SnapshotOk, PersistFails, GiveUp, Crash, Goto, TypeOK
      <4> QED
        BY <4>1, <4>2, <1>a, RoomStep DEF OfClients
    <3>3. ASSUME NEW e \in before[r] PROVE e \notin Visible(doc[At[r]])'
      <4>1. e \in Typed /\ e \notin Visible(doc[At[r]])
        BY <1>a, <2>0, <3>1, <3>3 DEF CutSays
      <4>2. CASE doc'[At[r]] = doc[At[r]]
        BY <4>1, <4>2, StillShows DEF Visible
      <4>3. CASE \E x \in Edits : Type(At[r], x)
        <5> PICK x \in Edits : Type(At[r], x)
          BY <4>3
        <5>1. doc'[At[r]] = [doc[At[r]] EXCEPT !.has = @ \cup {x}] /\ doc[At[r]] \in Docs /\ x # e
          BY <1>a, <4>1 DEF Type, TypeOK, Typed
        <5>2. doc'[At[r]].has = doc[At[r]].has \cup {x} /\ doc'[At[r]].gone = doc[At[r]].gone
          BY <5>1 DEF Docs
        <5>3. PICK d, d1 : d = doc[At[r]] /\ d1 = doc'[At[r]]
          OBVIOUS
        <5>4. d1.has \subseteq d.has \cup (Edits \ {e}) /\ d1.gone = d.gone /\ e \notin Visible(d)
          BY <4>1, <5>1, <5>2, <5>3
        <5>5. e \notin {p \in d1.has \ d1.gone : p \in Edits => typedOn'[p] \subseteq d1.has}
          BY <4>1, <5>4, StillShows
        <5> QED
          BY <5>3, <5>5 DEF Visible
      <4> QED
        BY <3>2, <4>2, <4>3
    <3> QED
      BY <2>0, <3>3
  <2>5. ASSUME phase'[r] = "snapshot"
        PROVE  before'[r] \cap Visible(cut[r].doc)' = {} /\ cut'[r].rows = rows'
    <3>1. CASE RowOk(r)
      <4>1. /\ cut'[r] = [doc |-> doc[At[r]], rows |-> rows] /\ rows' = rows /\ typedOn' = typedOn
            /\ phase[r] = "row"
        BY <3>1 DEF RowOk, TypeOK, history, store
      <4> QED
        BY <1>a, <2>0, <4>1 DEF CutSays, Visible
    <3>2. CASE phase[r] = "snapshot" /\ ~RowOk(r)
      <4>1. taken = {} /\ ~SnapshotOk(r)
        BY <1>a, <2>5, <3>2 DEF PhaseSays, SnapshotOk, Goto, TypeOK
      <4>2. \A s \in Restores : ~SnapshotOk(s)
        BY <2>2, <4>1 DEF SnapshotOk, Holding
      <4>3. cut'[r] = cut[r] /\ rows' = rows
        BY <3>2, <4>1, <4>2, StoreStep
      <4>4. ASSUME NEW e \in before[r] PROVE e \notin Visible(cut[r].doc)'
        <5>1. e \in Typed /\ e \notin Visible(cut[r].doc)
          BY <1>a, <2>0, <3>2, <4>4 DEF CutSays
        <5> QED
          BY <4>3, <5>1, StillShows DEF Visible
      <4> QED
        BY <1>a, <2>0, <3>2, <4>3, <4>4 DEF CutSays
    <3> QED
      BY <2>1, <2>5, <3>1, <3>2
  <2> QED
    BY <2>3, <2>4, <2>5 DEF CutSays
<1> QED
  BY <1>1, <1>2

\* Behind the barriers of a dead coordinator nothing moves.
LEMMA StuckStep ==
  ASSUME Ctx, "storedAnyway" \notin env, ProtocolInv', BeforeInv, ResetInv, [Next]_vars, NEW r \in Restores
  PROVE  StuckSays(r)'
<1> TypeOK
  BY DEF Ctx, ProtocolInv
<1>a. /\ StuckSays(r) /\ BeforeSays(r) /\ PhaseSays(r) /\ At[r] \in Instances
      /\ phase \in [Restores -> Phases] /\ ColdInv
      /\ warm \in [Instances -> BOOLEAN] /\ barrier \in [Instances -> Restores \cup {None}]
  BY AtAssumption DEF ResetInv, BeforeInv, Ctx, ProtocolInv, PhaseInv, TypeOK
<1> SUFFICES ASSUME phase'[r] = "dead", before'[r] # {} PROVE StuckSays(r)'
  BY DEF StuckSays
<1>1. CASE phase[r] = "dead"
  <2>1. before[r] # {}
    BY <1>1, BeforeStep
  <2>2. /\ \A i \in Instances : (warm[i] => barrier[i] = r) /\ OnlyOrdinary(i)
        /\ \A s \in Restores : phase[s] \notin {"flush", "prepare", "settle", "row", "snapshot", "commit"}
    BY <1>a, <1>1, <2>1 DEF StuckSays
  <2>3. \A i \in Instances : ~OnPrepare(i) /\ ~OnCommit(i) /\ ~OnAbort(i) /\ ~Publish(i)
    <3> SUFFICES ASSUME NEW i \in Instances PROVE ~OnPrepare(i) /\ ~OnCommit(i) /\ ~OnAbort(i) /\ ~Publish(i)
      OBVIOUS
    <3>1. inbox[i] # <<>> => Head(inbox[i]).kind = "update"
      BY <2>2, Taken DEF OnlyOrdinary, Ordinary
    <3>2. ~Publish(i)
      <4>1. pending[i] # <<>> => warm[i]
        BY <1>a DEF ColdInv
      <4> QED
        BY <2>2, <4>1, NoneAssumption DEF Publish
    <3> QED
      BY <3>1, <3>2 DEF OnPrepare, OnCommit, OnAbort, Receive
  <2>4. \A s \in Restores : ~Crash(s)
    BY <2>2 DEF Crash
  <2>5. \A s \in Restores : phase[s] = "read" => barrier[At[s]] = r \/ ~warm[At[s]]
    BY <2>2, AtAssumption
  <2>6. UNCHANGED <<warm, barrier>>
    <3>1. ASSUME NEW i \in Instances, Rooms(i) \/ Clients(i) PROVE UNCHANGED <<warm, barrier>>
      BY <3>1, <2>3, CalmRooms DEF Rooms, PublishReply, OnUpdate, Clients, Type, gate
    <3>2. ASSUME NEW s \in Restores, Lock(s) \/ Coordinator(s) \/ Faults(s) PROVE UNCHANGED <<warm, barrier>>
      BY <3>2, <2>2, <2>4, <2>5, CalmRooms, AtAssumption, NoneAssumption
      DEF Lock, Coordinator, Faults, Read, Flushed, PrepareOk, Settle, RowOk, SnapshotOk, CommitOk, Release,
        VersionMissing, PrepareFails, PersistFails, NotStored, StoredAnyway, GiveUp, CommitFails, gate
    <3>3. FlushStart \/ FlushEnd \/ LockExpires \/ UNCHANGED vars => UNCHANGED <<warm, barrier>>
      BY DEF FlushStart, FlushEnd, LockExpires, vars, gate
    <3> QED
      BY <3>1, <3>2, <3>3 DEF Next
  <2>7. ASSUME NEW i \in Instances PROVE OnlyOrdinary(i)'
    <3>1. ASSUME NEW n \in DOMAIN inbox'[i] PROVE inbox'[i][n].kind = "update"
      <4>1. PICK f : f = inbox'[i][n]
        OBVIOUS
      <4>2. ~NewFrame(f)
        BY <2>2, <2>3 DEF NewFrame, PrepareOk, CommitOk, PersistFails, NotStored, StoredAnyway, CommitFails
      <4>3. \E m \in DOMAIN inbox[i] : f = inbox[i][m]
        BY <4>1, <4>2, BoxStep
      <4> QED
        BY <2>2, <4>1, <4>3 DEF OnlyOrdinary, Ordinary
    <3> QED
      BY <3>1 DEF OnlyOrdinary, Ordinary
  <2>8. ASSUME NEW s \in Restores PROVE phase'[s] \notin {"flush", "prepare", "settle", "row", "snapshot", "commit"}
    <3>1. ASSUME NEW t \in Restores, Lock(t) \/ Coordinator(t) \/ Faults(t)
          PROVE  \E p : Goto(t, p) /\ p \notin {"flush", "prepare", "settle", "row", "snapshot", "commit"}
      BY <3>1, <2>2, <2>4, <2>5, CalmRooms, AtAssumption, NoneAssumption
      DEF Lock, Coordinator, Faults, Read, Flushed, PrepareOk, Settle, RowOk, SnapshotOk, CommitOk, Release,
        VersionMissing, PrepareFails, PersistFails, GiveUp, CommitFails
    <3>2. FlushStart \/ FlushEnd \/ LockExpires \/ UNCHANGED vars => UNCHANGED phase
      BY DEF FlushStart, FlushEnd, LockExpires, vars, coord
    <3>3. ASSUME NEW i \in Instances, Rooms(i) \/ Clients(i) PROVE UNCHANGED phase
      BY <3>3 DEF Rooms, Publish, PublishReply, OnUpdate, OnAsk, OnState, OnPrepare, OnCommit, OnAbort,
            Clients, Join, Type, coord
    <3> QED
      BY <1>a, <2>2, <3>1, <3>2, <3>3 DEF Next, Goto
  <2> QED
    BY <2>2, <2>6, <2>7, <2>8 DEF StuckSays
<1>2. CASE phase[r] # "dead"
  <2>1. PICK s \in Restores : Crash(s)
    <3>1. ASSUME NEW t \in Restores, Lock(t) \/ Coordinator(t) \/ Faults(t), ~Crash(t)
          PROVE  phase'[r] # "dead"
      <4>1. \E p : Goto(t, p) /\ p # "dead"
        BY <3>1 DEF Lock, Coordinator, Faults, Read, Begin, Flushed, PrepareOk, Settle, RowOk, SnapshotOk, CommitOk, Release,
          VersionMissing, PrepareFails, PersistFails, GiveUp, CommitFails
      <4> QED
        BY <1>a, <1>2, <4>1 DEF Goto
    <3>2. FlushStart \/ FlushEnd \/ LockExpires \/ UNCHANGED vars => UNCHANGED phase
      BY DEF FlushStart, FlushEnd, LockExpires, vars, coord
    <3>3. ASSUME NEW i \in Instances, Rooms(i) \/ Clients(i) PROVE UNCHANGED phase
      BY <3>3 DEF Rooms, Publish, PublishReply, OnUpdate, OnAsk, OnState, OnPrepare, OnCommit, OnAbort,
            Clients, Join, Type, coord
    <3> QED
      BY <1>2, <3>1, <3>2, <3>3 DEF Next, Coordinator, Faults
  <2>0. /\ At[r] = At[s] /\ phase[r] \notin {"refused", "done", "failed", "row", "snapshot"}
        /\ before'[r] = before[r]
    BY <1>a, <1>2, <2>1 DEF Crash
  <2>2. s = r
    BY <1>a, <1>2, <2>0, <2>1 DEF Crash, BeforeSays, Ctx, Serial, Holding
  <2>3. phase[r] = "commit"
    BY <1>a, <2>0, <2>1, <2>2 DEF BeforeSays, Crash
  <2>4. \A j \in Instances : Behind(r, j) /\ OnlyOrdinary(j)
    BY <1>a, <2>3 DEF PhaseSays
  <2>5. ASSUME NEW i \in Instances PROVE (warm'[i] => barrier'[i] = r) /\ OnlyOrdinary(i)'
    <3>1. CASE i = At[r]
      <4>1. ~warm'[i] /\ inbox'[i] = <<>>
        BY <1>a, <2>1, <2>2, <3>1 DEF Crash, TypeOK
      <4> QED
        BY <4>1 DEF OnlyOrdinary
    <3>2. CASE i # At[r]
      <4>1. warm'[i] = warm[i] /\ inbox'[i] = inbox[i] /\ barrier'[i] = barrier[i]
        BY <1>a, <2>1, <2>2, <3>2 DEF Crash, TypeOK
      <4> QED
        BY <2>4, <3>2, <4>1 DEF OnlyOrdinary, Behind, Ordinary
    <3> QED
      BY <3>1, <3>2
  <2>6. ASSUME NEW t \in Restores PROVE phase'[t] \notin {"flush", "prepare", "settle", "row", "snapshot", "commit"}
    <3>1. phase'[t] = "dead" \/ (phase'[t] = phase[t] /\ t # s)
      BY <2>1 DEF Crash
    <3>2. Holding(t) => t = s
      BY <2>2, <2>3, OneHolds DEF Holding
    <3> QED
      BY <3>1, <3>2 DEF Holding
  <2> QED
    BY <2>5, <2>6 DEF StuckSays
<1> QED
  BY <1>1, <1>2

LEMMA ResetInit == Init => ResetInv
<1> SUFFICES ASSUME Init, NEW r \in Restores PROVE FreshSays(r) /\ CutSays(r) /\ StuckSays(r)
  BY DEF ResetInv
<1>1. phase[r] = "none"
  BY DEF Init
<1>2. <<r, At[r]>> # Base
  BY AtAssumption, TextsAssumption DEF Copies
<1>3. FreshSays(r)
  BY <1>2 DEF Init, FreshSays, Start
<1> QED
  BY <1>1, <1>3 DEF CutSays, StuckSays

LEMMA ResetStep ==
  ASSUME Ctx, "storedAnyway" \notin env, ProtocolInv', BeforeInv, BeforeInv', ResetInv, [Next]_vars
  PROVE  ResetInv'
<1> TypeOK'
  BY DEF ProtocolInv
<1> QED
  BY FreshStep, CutStep, StuckStep DEF ResetInv

-----------------------------------------------------------------------------
(* What is stored. *)

LEMMA HeldAtBarrier == ASSUME Held PROVE barrier[Leader] # None
BY NoneAssumption DEF Held

\* The rows that are written come from a buffer that no barrier holds back.
LEMMA RowsStep ==
  ASSUME Ctx, "storedAnyway" \notin env, [Next]_vars, NEW e, e \in rows' \cup taken', \A r \in Restores : ~SnapshotOk(r)
  PROVE  e \in rows \cup taken \/ (e \in buffer[Leader] /\ barrier[Leader] = None)
<1> TypeOK
  BY DEF Ctx, ProtocolInv
<1>1. CASE FlushStart \/ FlushEnd \/ LockExpires \/ UNCHANGED vars
  BY <1>1 DEF FlushStart, FlushEnd, LockExpires, vars, store
<1>2. ASSUME NEW i \in Instances, Rooms(i) \/ Clients(i) PROVE UNCHANGED <<rows, taken>>
  BY <1>2 DEF Rooms, Publish, PublishReply, OnUpdate, OnAsk, OnState, OnPrepare, OnCommit, OnAbort,
        Clients, Join, Type, store
<1>3. ASSUME NEW r \in Restores, Lock(r) \/ Coordinator(r) \/ Faults(r)
      PROVE  /\ rows' = rows
             /\ taken' \in {taken, {}} \/ (taken' = buffer[Leader] /\ barrier[Leader] = None)
  <2>1. rows' = rows
    BY <1>3, StoredOnce
    DEF Lock, Coordinator, Faults, Read, Flushed, PrepareOk, Settle, RowOk, SnapshotOk, CommitOk, Release,
        VersionMissing, PrepareFails, PersistFails, NotStored, GiveUp, CommitFails, Crash, store
  <2>2. CASE Read(r)
    BY <2>1, <2>2 DEF Read
  <2>3. CASE Lock(r) \/ (Coordinator(r) /\ ~Read(r)) \/ Faults(r)
    BY <2>1, <2>3 DEF Lock, Coordinator, Faults, Flushed, PrepareOk, Settle, RowOk, SnapshotOk, CommitOk, Release,
        VersionMissing, PrepareFails, PersistFails, GiveUp, CommitFails, Crash
  <2> QED
    BY <1>3, <2>1, <2>2, <2>3
<1> QED
  BY <1>1, <1>2, <1>3 DEF Next

\* What a room buffers or keeps aside it did before, or is typed now, or arrives.
LEMMA KeptStep ==
  ASSUME Ctx, [Next]_vars, NEW i \in Instances, NEW e \in Typed, NotSent(e), e \in buffer'[i] \cup quarantined'[i]
  PROVE  e \in buffer[i] \cup quarantined[i]
<1> TypeOK
  BY DEF Ctx, ProtocolInv
<1>a. /\ buffer \in [Instances -> SUBSET Edits] /\ quarantined \in [Instances -> SUBSET Edits]
      /\ doc \in [Instances -> Docs]
  BY DEF TypeOK
<1>1. CASE OfClients(i)
  <2>1. PICK x \in Edits : Type(i, x)
    BY <1>1 DEF OfClients
  <2>2. x # e
    BY <2>1 DEF Type, Typed
  <2>3. buffer'[i] \subseteq buffer[i] \cup {x} /\ quarantined'[i] = quarantined[i]
    BY <1>a, <2>1 DEF Type, gate
  <2> QED
    BY <2>2, <2>3
<1>2. CASE OnUpdate(i)
  <2>1. PICK x : x = Head(inbox[i]).edit
    OBVIOUS
  <2>2. x # e /\ x \in Edits
    <3>1. inbox[i] # <<>> /\ Head(inbox[i]).kind = "update"
      BY <1>2 DEF OnUpdate, Receive
    <3> QED
      BY <2>1, <3>1, HeadIs DEF NotSent, Ordinary
  <2>3. CASE barrier[i] = None
    <3>1. PICK d : d = [has |-> {x}, gone |-> {}]
      OBVIOUS
    <3>2. Apply(i, d) /\ quarantined' = quarantined
      BY <1>2, <2>1, <2>3, <3>1 DEF OnUpdate
    <3>3. d \in Docs /\ d.has \subseteq Edits /\ d.gone = {}
      BY <2>2, <3>1, DocTypes
    <3>4. buffer'[i] \subseteq buffer[i] \cup d.has
      BY <3>2, <3>3, Applied
    <3> QED
      BY <2>2, <3>1, <3>2, <3>4
  <2>4. CASE barrier[i] # None
    BY <1>2, <1>a, <2>1, <2>2, <2>4 DEF OnUpdate
  <2> QED
    BY <2>3, <2>4
<1>3. ASSUME NEW r, Abort(i, r) PROVE e \in buffer[i] \cup quarantined[i]
  <2>1. CASE barrier[i] # r
    BY <1>3, <2>1 DEF Abort
  <2>2. CASE barrier[i] = r
    <3>1. PICK d : d = [has |-> quarantined[i], gone |-> {}]
      OBVIOUS
    <3>2. Apply(i, d) /\ quarantined'[i] = {}
      BY <1>3, <1>a, <2>2, <3>1 DEF Abort
    <3>3. d \in Docs /\ d.has \subseteq Edits /\ d.gone = {}
      BY <1>a, <3>1, DocTypes
    <3>4. buffer'[i] \subseteq buffer[i] \cup d.has
      BY <3>2, <3>3, Applied
    <3> QED
      BY <3>1, <3>2, <3>4
  <2> QED
    BY <2>1, <2>2
<1>4. CASE OnAbort(i)
  BY <1>3, <1>4 DEF OnAbort
<1>5. CASE OnCommit(i)
  BY <1>5, <1>a DEF OnCommit, Leave
<1>6. CASE OfRestore(i)
  <2> PICK r \in Restores : At[r] = i /\ (Settle(r) \/ SnapshotOk(r) \/ PersistFails(r) \/ Crash(r))
    BY <1>6 DEF OfRestore
  <2>1. CASE PersistFails(r)
    BY <1>3, <2>1 DEF PersistFails, GiveUp
  <2>2. CASE Settle(r)
    BY <2>2 DEF Settle, gate
  <2>3. CASE SnapshotOk(r)
    BY <2>3, <1>a DEF SnapshotOk, Leave
  <2>4. CASE Crash(r)
    BY <2>4, <1>a DEF Crash
  <2> QED
    BY <2>1, <2>2, <2>3, <2>4
<1> QED
  BY <1>1, <1>2, <1>4, <1>5, <1>6, RoomStep

\* A restore that is stored keeps what it has superseded.
LEMMA BeforeStays ==
  ASSUME Ctx, BeforeInv, [Next]_vars, NEW r \in Restores, phase[r] = "commit"
  PROVE  before'[r] = before[r]
<1>1. ~Settle(r) /\ ~SnapshotOk(r) /\ ByReset(r) = before[r]
  BY DEF Settle, SnapshotOk, ByReset
<1>2. ByReset(r)' = before[r]
  BY <1>1, BeforeStep
<1>3. phase'[r] \notin {"row", "snapshot"}
  BY <1>1, PhaseMoves DEF RowOk, Ctx, ProtocolInv
<1> QED
  BY <1>2, <1>3 DEF ByReset

\* The leader holds its buffer back until the commit empties it.
LEMMA HeldStep ==
  ASSUME Ctx, ProtocolInv', {"commitFails", "storedAnyway"} \cap env = {}, BeforeInv,
         ResetInv, ResetInv', [Next]_vars, Held, Superseded # {}
  PROVE  Held' \/ buffer'[Leader] \cup quarantined'[Leader] = {}
<1> TypeOK /\ TypeOK' /\ Leader \in Instances
  BY RoomsAssumption DEF Ctx, ProtocolInv
<1>1. CASE ~warm'[Leader]
  BY <1>1 DEF ProtocolInv, ColdInv
<1>2. CASE warm'[Leader]
  <2> PICK r \in Restores :
        /\ barrier[Leader] = r
        /\ \/ phase[r] = "commit"
           \/ phase[r] = "dead" /\ before[r] # {}
           \/ \E n \in DOMAIN inbox[Leader] : inbox[Leader][n] = CommitOf(r)
    BY DEF Held
  <2>0. PhaseSays(r) /\ PhaseSays(r)' /\ CutSays(r) /\ StuckSays(r)' /\ warm[Leader]
    BY OpenRooms, NoneAssumption DEF Ctx, ProtocolInv, PhaseInv, ResetInv
  <2>1. CASE phase[r] = "commit"
    <3>1. Leader # At[r] /\ before[r] # {}
      BY <2>0, <2>1, NoneAssumption DEF PhaseSays, CutSays
    <3>2. CASE phase'[r] = "commit"
      <4>1. barrier'[Leader] = r
        BY <1>2, <2>0, <3>1, <3>2 DEF PhaseSays, Behind
      <4> QED
        BY <3>2, <4>1 DEF Held
    <3>3. CASE phase'[r] = "dead"
      <4>1. before'[r] # {}
        BY <2>1, <3>1, BeforeStays
      <4>2. barrier'[Leader] = r
        BY <1>2, <2>0, <3>3, <4>1 DEF StuckSays
      <4> QED
        BY <3>3, <4>1, <4>2 DEF Held
    <3>4. CASE CommitOk(r)
      <4>1. inbox' = Published(inbox, At[r], CommitOf(r)) /\ barrier' = barrier
        BY <3>4 DEF CommitOk, CommitOf, gate
      <4>2. \E n \in DOMAIN inbox'[Leader] : inbox'[Leader][n] = CommitOf(r)
        <5>1. Leader # At[r] /\ warm[Leader] /\ At[r] \in Instances
          BY <2>0, <3>1, AtAssumption
        <5>2. /\ Len(inbox[Leader]) + 1 \in DOMAIN inbox'[Leader]
              /\ inbox'[Leader][Len(inbox[Leader]) + 1] = CommitOf(r)
          BY <4>1, <5>1, Sent
        <5> QED
          BY <5>2
      <4> QED
        BY <4>1, <4>2 DEF Held
    <3>5. ~CommitFails(r)
      BY DEF CommitFails
    <3> QED
      BY <2>1, <3>2, <3>3, <3>4, <3>5, PhaseMoves
  <2>2. CASE phase[r] = "dead" /\ before[r] # {}
    <3>1. phase'[r] = "dead" /\ before'[r] # {}
      BY <2>2, BeforeStep
    <3>2. barrier'[Leader] = r
      BY <1>2, <2>0, <3>1 DEF StuckSays
    <3> QED
      BY <3>1, <3>2 DEF Held
  <2>3. ASSUME NEW n \in DOMAIN inbox[Leader], inbox[Leader][n] = CommitOf(r)
        PROVE  Held' \/ buffer'[Leader] \cup quarantined'[Leader] = {}
    <3>1. CASE \E m \in DOMAIN inbox'[Leader] : inbox'[Leader][m] = inbox[Leader][n]
      <4>1. PICK m \in DOMAIN inbox'[Leader] : inbox'[Leader][m] = CommitOf(r)
        BY <2>3, <3>1
      <4>2. FrameSays(Leader, inbox[Leader][m])'
        BY DEF ProtocolInv, FrameInv
      <4>3. barrier'[Leader] = r
        BY <4>1, <4>2 DEF FrameSays, Closes, CommitOf
      <4> QED
        BY <4>1, <4>3 DEF Held
    <3>2. CASE n = 1 /\ (OnUpdate(Leader) \/ OnPrepare(Leader) \/ OnCommit(Leader) \/ OnAbort(Leader))
      <4>1. Head(inbox[Leader]) = CommitOf(r)
        <5>1. inbox[Leader] # <<>>
          BY <3>2 DEF OnUpdate, OnPrepare, OnCommit, OnAbort, Receive
        <5> QED
          BY <2>3, <3>2, <5>1, Taken
      <4>2. OnCommit(Leader)
        BY <3>2, <4>1 DEF OnUpdate, OnPrepare, OnAbort, Receive, CommitOf
      <4>3. Leave(Leader, r) /\ barrier[Leader] = r
        BY <4>1, <4>2 DEF OnCommit, CommitOf
      <4>4. buffer'[Leader] = {} /\ quarantined'[Leader] = {}
        BY <4>3 DEF Leave, TypeOK
      <4> QED
        BY <4>4
    <3> QED
      BY <1>2, <2>3, <3>1, <3>2, FrameStays
  <2> QED
    BY <2>1, <2>2, <2>3
<1> QED
  BY <1>1, <1>2

LEMMA StoredStep ==
  ASSUME Ctx, ProtocolInv', {"commitFails", "storedAnyway"} \cap env = {}, BeforeInv,
         ResetInv, ResetInv', StoredInv, [Next]_vars
  PROVE  StoredInv'
<1> TypeOK /\ TypeOK' /\ Leader \in Instances
  BY RoomsAssumption DEF Ctx, ProtocolInv
<1>1. ASSUME NEW r \in Restores, SnapshotOk(r) PROVE StoredInv'
  <2>1. /\ phase[r] = "snapshot" /\ PhaseSays(r) /\ CutSays(r) /\ PhaseSays(r)'
        /\ At[r] \in Instances
    BY <1>1, AtAssumption DEF SnapshotOk, Ctx, ProtocolInv, PhaseInv, ResetInv
  <2>2. /\ snap' = cut[r].doc /\ rows' = rows \ cut[r].rows /\ taken' = taken /\ typedOn' = typedOn
        /\ phase'[r] = "commit" /\ Leave(At[r], r) /\ warm' = warm
    BY <1>1 DEF SnapshotOk, StoreReset, Goto, history, TypeOK
  <2>3. \A s \in Restores : SnapshotOk(s) => s = r
    BY <2>1, OneHolds DEF SnapshotOk, Holding
  <2>4. Superseded' \subseteq before[r]
    BY <2>1, <2>3, SupersededStep DEF CutSays
  <2>5. taken' = {} /\ rows' = {} /\ before[r] \cap Visible(snap)' = {}
    BY <2>1, <2>2 DEF PhaseSays, CutSays, Visible
  <2>6. Held' \/ buffer'[Leader] \cup quarantined'[Leader] = {}
    <3>1. CASE Leader = At[r]
      <4>1. barrier[At[r]] = r
        BY <2>1 DEF PhaseSays
      <4> QED
        BY <2>2, <3>1, <4>1 DEF Leave, TypeOK
    <3>2. CASE ~warm'[Leader]
      BY <3>2 DEF ProtocolInv, ColdInv
    <3>3. CASE Leader # At[r] /\ warm'[Leader]
      <4>1. barrier'[Leader] = r
        BY <2>1, <2>2, <3>3 DEF PhaseSays, Behind
      <4> QED
        BY <2>2, <4>1 DEF Held
    <3> QED
      BY <3>1, <3>2, <3>3
  <2> QED
    BY <2>4, <2>5, <2>6 DEF StoredInv
<1>2. ASSUME \A r \in Restores : ~SnapshotOk(r) PROVE StoredInv'
  <2>1. \A e : e \in Superseded' <=> e \in Superseded
    BY <1>2, SupersededStep
  <2>2. ASSUME NEW e \in Superseded PROVE e \notin Visible(snap)' /\ e \notin rows' \cup taken'
    <3>0. e \in Typed /\ NotSent(e)
      BY SupersededIsTyped
    <3>1. e \notin Visible(snap) /\ e \notin rows \cup taken
      BY DEF StoredInv
    <3>2. snap' = snap
      BY <1>2, StoreStep
    <3>3. e \notin Visible(snap)'
      BY <3>0, <3>1, <3>2, StillShows DEF Visible
    <3>4. ~(e \in buffer[Leader] /\ barrier[Leader] = None)
      BY HeldAtBarrier DEF StoredInv
    <3>5. e \notin rows' \cup taken'
      BY <1>2, <3>1, <3>4, RowsStep
    <3> QED
      BY <3>3, <3>5
  <2>3. ASSUME NEW e \in Superseded, e \in buffer'[Leader] \cup quarantined'[Leader] PROVE Held'
    <3>1. e \in Typed /\ NotSent(e)
      BY SupersededIsTyped
    <3>2. e \in buffer[Leader] \cup quarantined[Leader]
      BY <2>3, <3>1, KeptStep
    <3>3. Held
      BY <3>2 DEF StoredInv
    <3> QED
      BY <2>3, <3>3, HeldStep
  <2> QED
    BY <2>1, <2>2, <2>3 DEF StoredInv
<1> QED
  BY <1>1, <1>2

LEMMA StoredInit == Init => StoredInv
<1> SUFFICES ASSUME Init PROVE StoredInv
  OBVIOUS
<1>1. Superseded = {}
  BY DEF Init, Superseded
<1> QED
  BY <1>1 DEF StoredInv

LEMMA StoredIsRestored == ASSUME TypeOK, StoredInv PROVE Visible(Stored) \cap Superseded = {}
<1> SUFFICES ASSUME NEW e \in Superseded, e \in Visible(Stored) PROVE FALSE
  OBVIOUS
<1>1. e \in Edits /\ typedOn[e] \subseteq Texts /\ rows \subseteq Edits
  BY DEF TypeOK, Superseded
<1>2. Stored.has = snap.has \cup rows /\ Stored.gone = snap.gone
  BY DEF Stored, Merge
<1>3. e \in snap.has \ snap.gone \/ e \in rows
  BY <1>2 DEF Visible
<1>4. typedOn[e] \subseteq snap.has
  BY <1>1, <1>2, TextsAssumption DEF Visible
<1> QED
  BY <1>3, <1>4 DEF StoredInv, Visible

-----------------------------------------------------------------------------
(* What a published edit reaches. *)

LEMMA SentStep ==
  ASSUME TypeOK, [Next]_vars
  PROVE  sent' = sent \/ \E i \in Instances : Publish(i) /\ sent' = sent \cup {Head(pending[i])}
<1>1. FlushStart \/ FlushEnd \/ LockExpires \/ UNCHANGED vars => UNCHANGED sent
  BY DEF FlushStart, FlushEnd, LockExpires, vars, history
<1>2. ASSUME NEW i \in Instances, Rooms(i) \/ Clients(i), ~Publish(i) PROVE UNCHANGED sent
  BY <1>2 DEF Rooms, PublishReply, OnUpdate, OnAsk, OnState, OnPrepare, OnCommit, OnAbort,
        Clients, Join, Type, history
<1>3. ASSUME NEW r \in Restores, Lock(r) \/ Coordinator(r) \/ Faults(r) PROVE UNCHANGED sent
  BY <1>3 DEF Lock, Coordinator, Faults, Read, Flushed, PrepareOk, Settle, RowOk, SnapshotOk, CommitOk, Release,
        VersionMissing, PrepareFails, PersistFails, GiveUp, CommitFails, Crash, history
<1>4. \A i \in Instances : Publish(i) => sent' = sent \cup {Head(pending[i])}
  BY DEF Publish
<1> QED
  BY <1>1, <1>2, <1>3, <1>4 DEF Next

LEMMA HeadQueued ==
  ASSUME TypeOK, NEW i \in Instances, pending[i] # <<>>
  PROVE  1 \in DOMAIN pending[i] /\ Head(pending[i]) = pending[i][1]
<1>1. pending[i] \in Seq(Edits)
  BY DEF TypeOK
<1> QED
  BY <1>1

LEMMA SentIsTyped ==
  ASSUME Ctx, ReachInv, [Next]_vars
  PROVE  sent' \subseteq Typed'
<1> TypeOK
  BY DEF Ctx, ProtocolInv
<1>1. Typed \subseteq Typed'
  BY TypedGrows
<1>2. ASSUME NEW i \in Instances, Publish(i) PROVE Head(pending[i]) \in Typed
  BY <1>2, HeadQueued DEF Publish, ReachInv
<1> QED
  BY <1>1, <1>2, SentStep DEF ReachInv

LEMMA QueuedIsTyped ==
  ASSUME Ctx, ProtocolInv', ReachInv, [Next]_vars, NEW i \in Instances, NEW n \in DOMAIN pending'[i]
  PROVE  pending'[i][n] \in doc'[i].has \cap Typed'
<1> TypeOK
  BY DEF Ctx, ProtocolInv
<1>1. warm'[i]
  BY DEF ProtocolInv, ColdInv
<1>2. doc[i].has \subseteq doc'[i].has /\ Typed \subseteq Typed'
  BY <1>1, HasStep, TypedGrows
<1>3. ASSUME NEW e \in Edits, Type(i, e) PROVE e \in doc'[i].has \cap Typed'
  <2>1. doc \in [Instances -> Docs]
    BY DEF TypeOK
  <2> QED
    BY <1>3, <2>1 DEF Type, Typed, Docs
<1> QED
  BY <1>2, <1>3, QueueStep DEF ReachInv

\* While a restore commits, no reset is being stored and none is taken back.
LEMMA CommittingAlone ==
  ASSUME Ctx, NEW r \in Restores, Committing(r), NEW s \in Restores
  PROVE  /\ phase[s] \notin {"row", "snapshot"}
         /\ \A i \in Instances : \A n \in DOMAIN inbox[i] : inbox[i][n].kind # "abort"
<1>a. TypeOK /\ FrameInv /\ PhaseSays(s) /\ PhaseSays(r)
  BY DEF Ctx, ProtocolInv, PhaseInv
<1>1. CASE phase[r] = "commit"
  <2>1. phase[s] \in {"row", "snapshot"} => s = r
    BY <1>1, OneHolds DEF Holding
  <2>2. \A i \in Instances : OnlyOrdinary(i)
    BY <1>1, <1>a DEF PhaseSays
  <2> QED
    BY <1>1, <2>1, <2>2 DEF OnlyOrdinary, Ordinary
<1>2. ASSUME NEW j \in Instances, NEW m \in DOMAIN inbox[j], inbox[j][m] = CommitOf(r)
      PROVE  /\ phase[s] \notin {"row", "snapshot"}
             /\ \A i \in Instances : \A n \in DOMAIN inbox[i] : inbox[i][n].kind # "abort"
  <2>1. inbox[j] # <<>>
    BY <1>2
  <2>2. phase[s] \notin {"row", "snapshot"}
    BY <1>a, <2>1 DEF PhaseSays, Silent
  <2>3. ASSUME NEW i \in Instances, NEW n \in DOMAIN inbox[i], inbox[i][n].kind = "abort" PROVE FALSE
    <3>1. Closes(inbox[j][m]) /\ Closes(inbox[i][n])
      BY <1>2, <2>3 DEF Closes, CommitOf
    <3>2. inbox[j][m] = inbox[i][n]
      BY <1>a, <3>1 DEF FrameInv
    <3> QED
      BY <1>2, <2>3, <3>2 DEF CommitOf
  <2> QED
    BY <2>2, <2>3
<1> QED
  BY <1>1, <1>2 DEF Committing

LEMMA CommittingBefore ==
  ASSUME Ctx, [Next]_vars, NEW r \in Restores, Committing(r)'
  PROVE  Committing(r) \/ SnapshotOk(r)
<1> TypeOK
  BY DEF Ctx, ProtocolInv
<1>1. CASE phase'[r] = "commit"
  BY <1>1, PhaseMoves DEF Committing
<1>2. ASSUME NEW i \in Instances, NEW n \in DOMAIN inbox'[i], inbox'[i][n] = CommitOf(r)
      PROVE  Committing(r)
  <2>1. PICK f : f = CommitOf(r)
    OBVIOUS
  <2>2. CASE \E m \in DOMAIN inbox[i] : inbox[i][m] = f
    BY <2>1, <2>2 DEF Committing
  <2>3. CASE NewFrame(f)
    <3>1. \A j \in Instances : f # [kind |-> "update", edit |-> Head(pending[j])]
      BY <2>1 DEF CommitOf
    <3>2. \A s \in Restores : f # PrepareOf(s) /\ f # [kind |-> "abort", rid |-> s]
      BY <2>1 DEF CommitOf, PrepareOf
    <3>3. PICK s \in Restores : CommitOk(s) /\ f = CommitOf(s)
      BY <2>3, <3>1, <3>2 DEF NewFrame
    <3>4. s = r
      BY <2>1, <3>3 DEF CommitOf
    <3> QED
      BY <3>3, <3>4 DEF CommitOk, Committing
  <2> QED
    BY <1>2, <2>1, <2>2, <2>3, BoxStep
<1>3. Committing(r)' =>
        phase'[r] = "commit" \/ \E i \in Instances : \E n \in DOMAIN inbox'[i] : inbox'[i][n] = CommitOf(r)
  BY DEF Committing, CommitOf
<1> QED
  BY <1>1, <1>2, <1>3

\* No room is opened.
LEMMA WarmBefore ==
  ASSUME Ctx, [Next]_vars, NEW i \in Instances, warm'[i]
  PROVE  warm[i]
<1>1. FlushStart \/ FlushEnd \/ LockExpires \/ UNCHANGED vars => UNCHANGED warm
  BY DEF FlushStart, FlushEnd, LockExpires, vars
<1>2. ASSUME NEW j \in Instances, Rooms(j) \/ Clients(j) PROVE UNCHANGED warm
  BY <1>2, CalmRooms DEF Rooms, Publish, PublishReply, OnUpdate, OnPrepare, OnCommit, OnAbort,
        Clients, Type
<1>3. ASSUME NEW r \in Restores, Lock(r) \/ Coordinator(r) \/ Faults(r)
      PROVE  UNCHANGED warm \/ warm' = [warm EXCEPT ![At[r]] = FALSE]
  BY <1>3, CalmRooms, AtAssumption DEF Lock, Coordinator, Faults, Read, Flushed, PrepareOk, Settle, RowOk, SnapshotOk, CommitOk, Release,
        VersionMissing, PrepareFails, PersistFails, GiveUp, CommitFails, Crash
<1>4. warm \in [Instances -> BOOLEAN]
  BY DEF Ctx, ProtocolInv, TypeOK
<1> QED
  BY <1>1, <1>2, <1>3, <1>4 DEF Next

\* What a room was reset to it keeps.
LEMMA ResetKept ==
  ASSUME Ctx, [Next]_vars, NEW i \in Instances, warm'[i], WasReset(i)
  PROVE  WasReset(i)'
BY HasStep DEF WasReset

LEMMA CommitStep ==
  ASSUME Ctx, ProtocolInv', "after" \notin env, BeforeInv, ReachInv, [Next]_vars, NEW r \in Restores
  PROVE  CommitSays(r)'
<1> TypeOK /\ TypeOK'
  BY DEF Ctx, ProtocolInv
<1>a. /\ PhaseSays(r) /\ PhaseSays(r)' /\ CommitSays(r) /\ At[r] \in Instances
      /\ doc \in [Instances -> Docs] /\ warm \in [Instances -> BOOLEAN]
  BY AtAssumption DEF Ctx, ProtocolInv, PhaseInv, ReachInv, TypeOK
<1>b. (RowOk(r) => phase[r] = "row") /\ (SnapshotOk(r) => phase[r] = "snapshot")
  BY DEF RowOk, SnapshotOk
<1>1. ASSUME phase'[r] \in {"row", "snapshot", "commit"} PROVE WasReset(At[r])'
  <2>1. CASE Settle(r)
    <3>1. doc'[At[r]] = Reset(doc[At[r]], At[r], r)
      BY <1>a, <2>1 DEF Settle
    <3>2. <<r, At[r]>> \in Copies /\ <<r, At[r]>> \in doc'[At[r]].has
      BY <1>a, <3>1 DEF Reset, Copies
    <3> QED
      BY <3>2 DEF WasReset
  <2>2. CASE ~Settle(r)
    <3>1. phase[r] \in {"row", "snapshot", "commit"}
      BY <1>1, <1>b, <2>2, PhaseMoves
    <3>2. warm'[At[r]]
      BY <1>1, <1>a DEF PhaseSays
    <3> QED
      BY <1>a, <3>1, <3>2, ResetKept DEF CommitSays
  <2> QED
    BY <2>1, <2>2
<1>2. ASSUME phase[r] \in {"row", "snapshot"} \/ Committing(r) PROVE \A i \in Instances : pending[i] = <<>>
  BY <1>2, <1>a DEF PhaseSays, Silent, CommitSays
<1>3. ASSUME phase'[r] \in {"row", "snapshot"} \/ Committing(r)' PROVE sent' \subseteq before'[r]
  <2>1. CASE Settle(r)
    <3>1. before'[r] = Typed /\ sent' = sent
      BY <2>1 DEF Settle, TypeOK
    <3> QED
      BY <3>1 DEF ReachInv
  <2>2. CASE ~Settle(r)
    <3>1. phase[r] \in {"row", "snapshot"} \/ Committing(r)
      BY <1>3, <1>b, <2>2, PhaseMoves, CommittingBefore
    <3>2. sent' = sent
      BY <1>2, <3>1, SentStep DEF Publish
    <3>3. phase'[r] \notin {"abort", "dead"}
      <4>1. ASSUME Committing(r)' PROVE phase'[r] \in {"commit", "done"}
        <5>1. ASSUME NEW i \in Instances, NEW n \in DOMAIN inbox'[i], inbox'[i][n] = CommitOf(r)
              PROVE  phase'[r] = "done"
          <6>1. FrameSays(i, inbox[i][n])'
            BY <5>1 DEF ProtocolInv, FrameInv
          <6> QED
            BY <5>1, <6>1 DEF FrameSays, CommitOf
        <5>2. phase'[r] = "commit" \/ \E i \in Instances : \E n \in DOMAIN inbox'[i] : inbox'[i][n] = CommitOf(r)
          BY <4>1 DEF Committing, CommitOf
        <5> QED
          BY <5>1, <5>2
      <4> QED
        BY <1>3, <4>1
    <3>4. before'[r] = before[r]
      BY <2>2, <3>3, BeforeStep
    <3> QED
      BY <1>a, <3>1, <3>2, <3>4 DEF CommitSays
  <2> QED
    BY <2>1, <2>2
<1>4. ASSUME Committing(r)', NEW i \in Instances
      PROVE  pending'[i] = <<>> /\ (warm'[i] /\ barrier'[i] = None => WasReset(i)')
  <2>1. CASE SnapshotOk(r)
    <3>1. phase[r] = "snapshot" /\ phase'[r] = "commit" /\ Leave(At[r], r) /\ UNCHANGED <<warm, doc>>
      BY <2>1 DEF SnapshotOk, Goto, TypeOK
    <3>2. Silent
      BY <1>a, <3>1 DEF PhaseSays
    <3>3. pending'[i] = <<>>
      BY <3>1, <3>2 DEF Silent, Leave, TypeOK
    <3>4. warm'[i] /\ barrier'[i] = None => i = At[r]
      BY <1>a, <3>1, NoneAssumption DEF PhaseSays, Behind
    <3> QED
      BY <3>1, <3>3, <3>4, <1>1
  <2>2. CASE Committing(r)
    <3>0. /\ \A j \in Instances : pending[j] = <<>>
          /\ warm[i] /\ barrier[i] = None => WasReset(i)
          /\ \A s \in Restores : phase[s] \notin {"row", "snapshot"}
      BY <1>a, <2>2, CommittingAlone DEF CommitSays
    <3>1. pending'[i] = <<>>
      <4>1. ASSUME NEW e \in Edits, Type(i, e), barrier[i] = None PROVE FALSE
        <5>1. WasReset(i) /\ MayType(i)
          BY <3>0, <4>1 DEF Type
        <5>2. ~Saving(i)
          BY <3>0 DEF Saving
        <5> QED
          BY <5>1, <5>2 DEF MayType
      <4>2. ASSUME NEW e \in Edits, Type(i, e), barrier[i] # None PROVE pending'[i] = <<>>
        BY <4>2 DEF Type, TypeOK
      <4>3. ASSUME pending'[i] # <<>> PROVE FALSE
        <5>1. pending'[i] \in Seq(Edits)
          BY DEF TypeOK
        <5>2. 1 \in DOMAIN pending'[i]
          BY <4>3, <5>1
        <5> QED
          BY <3>0, <4>1, <4>2, <4>3, <5>2, QueueStep
      <4> QED
        BY <4>3
    <3>2. ASSUME warm'[i], barrier'[i] = None PROVE WasReset(i)'
      <4>1. CASE barrier[i] = None
        <5>1. warm[i]
          BY <3>2, WarmBefore
        <5> QED
          BY <3>0, <3>2, <4>1, <5>1, ResetKept
      <4>2. CASE barrier[i] # None
        <5>1. ~OfRestore(i)
          <6>1. ASSUME NEW s \in Restores, At[s] = i, Settle(s) PROVE FALSE
            BY <6>1, <3>2, <4>2 DEF Settle, gate
          <6>2. ASSUME NEW s \in Restores, At[s] = i, Crash(s) PROVE FALSE
            BY <6>2, <3>2, <1>a DEF Crash
          <6> QED
            BY <6>1, <6>2, <3>0 DEF OfRestore, SnapshotOk, PersistFails, NotStored, StoredAnyway
        <5>2. ~OnAbort(i)
          <6>1. inbox[i] # <<>> => Head(inbox[i]).kind # "abort"
            BY <2>2, CommittingAlone, Taken
          <6> QED
            BY <6>1 DEF OnAbort, Receive
        <5>3. ~OfClients(i) /\ ~OnUpdate(i)
          BY <3>2, <4>2 DEF OfClients, Type, OnUpdate, gate
        <5>4. OnCommit(i)
          BY <3>2, <4>2, <5>1, <5>2, <5>3, RoomStep
        <5>5. PICK s \in Restores : s = Head(inbox[i]).rid
          BY <5>4, HeadIs DEF OnCommit, Receive
        <5>6. doc'[i] = Reset(doc[i], i, s)
          BY <1>a, <3>2, <4>2, <5>4, <5>5 DEF OnCommit, Leave
        <5>7. <<s, i>> \in Copies /\ <<s, i>> \in doc'[i].has
          BY <5>6 DEF Reset, Copies
        <5> QED
          BY <5>7 DEF WasReset
      <4> QED
        BY <4>1, <4>2
    <3> QED
      BY <3>1, <3>2
  <2> QED
    BY <1>4, <2>1, <2>2, CommittingBefore
<1> QED
  BY <1>1, <1>3, <1>4 DEF CommitSays

\* A published edit stays where it is, until a reset supersedes it.
LEMMA ReachedStep ==
  ASSUME Ctx, ProtocolInv', BeforeInv, ReachInv, [Next]_vars,
         NEW i \in Instances, warm'[i], NEW e \in sent, e \notin Superseded'
  PROVE  Reached(e, i)'
<1> TypeOK
  BY DEF Ctx, ProtocolInv
<1>a. /\ doc \in [Instances -> Docs] /\ quarantined \in [Instances -> SUBSET Edits]
      /\ buffer \in [Instances -> SUBSET Edits] /\ phase \in [Restores -> Phases]
      /\ e \in Edits
  BY DEF TypeOK
<1>b. warm[i] /\ e \notin Superseded /\ doc[i].has \subseteq doc'[i].has
  BY WarmBefore, SupersededGrows, HasStep
<1>c. Reached(e, i)
  BY <1>b DEF ReachInv
<1> DEFINE f == [kind |-> "update", edit |-> e]
<1>d. e \in doc'[i].has \cup quarantined'[i] \/ (\E m \in DOMAIN inbox'[i] : inbox'[i][m] = f) =>
        Reached(e, i)'
  BY DEF Reached
<1>1. CASE e \in doc[i].has
  BY <1>1, <1>b, <1>d
<1>2. ASSUME NEW n \in DOMAIN inbox[i], inbox[i][n] = f PROVE Reached(e, i)'
  <2>1. CASE \E m \in DOMAIN inbox'[i] : inbox'[i][m] = inbox[i][n]
    BY <1>2, <1>d, <2>1
  <2>2. CASE n = 1 /\ (OnUpdate(i) \/ OnPrepare(i) \/ OnCommit(i) \/ OnAbort(i))
    <3>1. Head(inbox[i]) = f
      <4>1. inbox[i] # <<>>
        BY <2>2 DEF OnUpdate, OnPrepare, OnCommit, OnAbort, Receive
      <4> QED
        BY <1>2, <2>2, <4>1, Taken
    <3>2. OnUpdate(i) /\ Head(inbox[i]).edit = e
      BY <2>2, <3>1 DEF OnPrepare, OnCommit, OnAbort, Receive
    <3>3. CASE barrier[i] = None
      <4>1. PICK d : d = [has |-> {e}, gone |-> {}]
        OBVIOUS
      <4>2. Apply(i, d) /\ d \in Docs /\ d.has \subseteq Edits /\ d.gone = {}
        BY <1>a, <3>2, <3>3, <4>1, DocTypes DEF OnUpdate
      <4>3. doc'[i] = [has |-> doc[i].has \cup d.has, gone |-> doc[i].gone]
        BY <4>2, Applied
      <4> QED
        BY <1>d, <4>1, <4>3
    <3>4. CASE barrier[i] # None
      BY <1>a, <1>d, <3>2, <3>4 DEF OnUpdate
    <3> QED
      BY <3>3, <3>4
  <2> QED
    BY <2>1, <2>2, FrameStays
<1>3. CASE e \in quarantined[i]
  <2>1. CASE quarantined'[i] = quarantined[i]
    BY <1>3, <1>d, <2>1
  <2>2. ASSUME OfClients(i) \/ OnUpdate(i) PROVE e \in quarantined'[i]
    BY <1>3, <1>a, <2>2 DEF OfClients, Type, OnUpdate, gate
  <2>3. ASSUME OnCommit(i) PROVE Reached(e, i)'
    <3>1. inbox[i] # <<>> /\ Head(inbox[i]).kind = "commit"
      BY <2>3 DEF OnCommit, Receive
    <3>2. PICK r \in Restores : Head(inbox[i]) = CommitOf(r)
      BY <3>1, HeadIs, FrameFields DEF CommitOf
    <3>3. Committing(r)
      BY <3>1, <3>2, HeadIs DEF Committing
    <3>4. phase[r] = "done" /\ sent \subseteq before[r]
      BY <3>1, <3>2, <3>3, HeadIs DEF FrameSays, CommitOf, ReachInv, CommitSays
    <3>5. before[r] \subseteq Superseded
      BY <3>4 DEF Superseded
    <3> QED
      BY <1>b, <3>4, <3>5
  <2>4. ASSUME NEW r, Abort(i, r) PROVE Reached(e, i)'
    <3>1. CASE barrier[i] # r
      BY <1>3, <1>d, <2>4, <3>1 DEF Abort
    <3>2. CASE barrier[i] = r
      <4>1. PICK d : d = [has |-> quarantined[i], gone |-> {}]
        OBVIOUS
      <4>2. Apply(i, d) /\ d \in Docs /\ d.has \subseteq Edits /\ d.gone = {}
        BY <1>a, <2>4, <3>2, <4>1, DocTypes DEF Abort
      <4>3. doc'[i] = [has |-> doc[i].has \cup d.has, gone |-> doc[i].gone]
        BY <4>2, Applied
      <4> QED
        BY <1>3, <1>d, <4>1, <4>3
    <3> QED
      BY <3>1, <3>2
  <2>5. ASSUME OnAbort(i) PROVE Reached(e, i)'
    BY <2>4, <2>5 DEF OnAbort
  <2>6. ASSUME OfRestore(i) PROVE Reached(e, i)'
    <3> PICK r \in Restores : At[r] = i /\ (Settle(r) \/ SnapshotOk(r) \/ PersistFails(r) \/ Crash(r))
      BY <2>6 DEF OfRestore
    <3>1. CASE Settle(r)
      BY <1>3, <1>d, <3>1 DEF Settle, gate
    <3>2. CASE SnapshotOk(r)
      <4>1. phase[r] = "snapshot" /\ sent \subseteq before[r]
        BY <3>2 DEF SnapshotOk, ReachInv, CommitSays
      <4> QED
        BY <3>2, <4>1, SupersededGrows DEF Stores
    <3>3. CASE PersistFails(r)
      BY <2>4, <3>3 DEF PersistFails, GiveUp
    <3>4. ~Crash(r)
      <4>1. Crash(r) => ~warm'[i]
        BY DEF Crash, TypeOK
      <4> QED
        BY <4>1
    <3> QED
      BY <3>1, <3>2, <3>3, <3>4
  <2> QED
    BY <1>d, <2>1, <2>2, <2>3, <2>5, <2>6, RoomStep
<1> QED
  BY <1>c, <1>1, <1>2, <1>3 DEF Reached

LEMMA ReachStep ==
  ASSUME Ctx, ProtocolInv', "after" \notin env, BeforeInv, ReachInv, [Next]_vars
  PROVE  ReachInv'
<1> TypeOK
  BY DEF Ctx, ProtocolInv
<1>1. ASSUME NEW e \in sent' \ Superseded', NEW i \in Instances, warm'[i] PROVE Reached(e, i)'
  <2>1. CASE e \in sent
    BY <1>1, <2>1, ReachedStep
  <2>2. CASE e \notin sent
    <3>1. PICK j \in Instances : Publish(j) /\ e = Head(pending[j])
      BY <2>2, SentStep
    <3>2. /\ inbox' = Published(inbox, j, [kind |-> "update", edit |-> e]) /\ doc' = doc
          /\ warm' = warm /\ pending[j] # <<>>
      BY <3>1 DEF Publish
    <3>3. CASE i = j
      <4>1. e \in doc[j].has
        BY <3>1, <3>2, HeadQueued DEF ReachInv
      <4> QED
        BY <3>2, <3>3, <4>1 DEF Reached
    <3>4. CASE i # j
      <4>1. PICK f : f = [kind |-> "update", edit |-> e]
        OBVIOUS
      <4>2. /\ Len(inbox[i]) + 1 \in DOMAIN inbox'[i]
            /\ inbox'[i][Len(inbox[i]) + 1] = f
        BY <1>1, <3>2, <3>4, <4>1, Sent
      <4> QED
        BY <4>1, <4>2 DEF Reached
    <3> QED
      BY <3>3, <3>4
  <2> QED
    BY <2>1, <2>2
<1>2. sent' \subseteq Typed'
  BY SentIsTyped
<1>3. \A i \in Instances : \A n \in DOMAIN pending'[i] : pending'[i][n] \in doc'[i].has \cap Typed'
  BY QueuedIsTyped
<1>4. \A r \in Restores : CommitSays(r)'
  BY CommitStep
<1> QED
  BY <1>1, <1>2, <1>3, <1>4 DEF ReachInv

LEMMA ReachInit == Init => ReachInv
<1> SUFFICES ASSUME Init PROVE ReachInv
  OBVIOUS
<1>1. \A i \in Instances : pending[i] = <<>> /\ inbox[i] = <<>>
  BY DEF Init
<1>2. sent = {} /\ \A r \in Restores : phase[r] = "none"
  BY DEF Init
<1> QED
  BY <1>1, <1>2 DEF ReachInv, CommitSays, Committing

-----------------------------------------------------------------------------
(* What rooms show. *)

Showing == Ctx /\ Plain /\ ResetInv /\ ReachInv /\ ShowInv

\* No client types into a reset, and no restore is aborted.
LEMMA PlainSays ==
  ASSUME Plain
  PROVE  /\ {"commitFails", "storedAnyway", "after"} \cap env = {}
         /\ \A i \in Instances : MayType(i) => ~WasReset(i)
         /\ \A r \in Restores : ~PersistFails(r) /\ ~CommitFails(r)
BY DEF Plain, MayType, PersistFails, NotStored, StoredAnyway, CommitFails

\* A room that is open closes with its process only.
LEMMA CloseIsCrash ==
  ASSUME Ctx, [Next]_vars, NEW i \in Instances, warm[i], ~warm'[i]
  PROVE  \E r \in Restores : At[r] = i /\ Crash(r)
<1>1. FlushStart \/ FlushEnd \/ LockExpires \/ UNCHANGED vars => UNCHANGED warm
  BY DEF FlushStart, FlushEnd, LockExpires, vars
<1>2. ASSUME NEW j \in Instances, Rooms(j) \/ Clients(j) PROVE UNCHANGED warm
  BY <1>2, CalmRooms DEF Rooms, Publish, PublishReply, OnUpdate, OnPrepare, OnCommit, OnAbort,
        Clients, Type
<1>3. ASSUME NEW r \in Restores, Lock(r) \/ Coordinator(r) \/ Faults(r), ~Crash(r)
      PROVE  UNCHANGED warm
  BY <1>3, CalmRooms, AtAssumption DEF Lock, Coordinator, Faults, Read, Flushed, PrepareOk, Settle, RowOk, SnapshotOk, CommitOk, Release,
        VersionMissing, PrepareFails, PersistFails, GiveUp, CommitFails
<1>4. ASSUME NEW r \in Restores, Crash(r) PROVE warm' = [warm EXCEPT ![At[r]] = FALSE]
  BY <1>4 DEF Crash
<1>5. warm \in [Instances -> BOOLEAN]
  BY DEF Ctx, ProtocolInv, TypeOK
<1> QED
  BY <1>1, <1>2, <1>3, <1>4, <1>5 DEF Next

\* What is on its way is typed, or a barrier that goes up or commits.
LEMMA FramesShow ==
  ASSUME Showing, [Next]_vars, NEW i \in Instances, NEW n \in DOMAIN inbox'[i]
  PROVE  FrameShows(inbox[i][n])'
<1> TypeOK
  BY DEF Showing, Ctx, ProtocolInv
<1>1. Typed \subseteq Typed'
  BY TypedGrows
<1>2. PICK f : f = inbox'[i][n]
  OBVIOUS
<1>3. CASE \E m \in DOMAIN inbox[i] : f = inbox[i][m]
  BY <1>1, <1>2, <1>3 DEF Showing, ShowInv, FrameShows
<1>4. CASE NewFrame(f)
  <2>1. ASSUME NEW j \in Instances, Publish(j), f = [kind |-> "update", edit |-> Head(pending[j])]
        PROVE  f.kind # "abort" /\ f.edit \in Typed
    BY <2>1, HeadQueued DEF Publish, Showing, ReachInv
  <2>2. ASSUME NEW r \in Restores, f = PrepareOf(r) \/ f = CommitOf(r)
        PROVE  f.kind # "abort" /\ ~Ordinary(f)
    BY <2>2 DEF PrepareOf, CommitOf, Ordinary
  <2> QED
    BY <1>1, <1>2, <1>4, <2>1, <2>2, PlainSays DEF NewFrame, FrameShows, Showing
<1> QED
  BY <1>2, <1>3, <1>4, BoxStep DEF Showing

\* A room that is reset shows the version's text and nothing else.
LEMMA ResetShows ==
  ASSUME TypeOK, NEW i \in Instances, NEW r \in Restores, NEW d, d = Reset(doc[i], i, r),
         warm[i], RoomShows(i), \A e \in Typed : typedOn[e] = {Base}, <<r, i>> \notin doc[i].has
  PROVE  /\ Visible(d) = {<<r, i>>}
         /\ Base \in d.has /\ d.gone \subseteq d.has /\ d.has \cap Edits \subseteq Typed
<1> DEFINE own == <<r, i>>
<1>1. own \in Texts /\ own \notin Edits
  BY TextsAssumption DEF Texts, Copies
<1>2. /\ Base \in doc[i].has /\ doc[i].gone \subseteq doc[i].has /\ doc[i].has \cap Edits \subseteq Typed
      /\ own \notin doc[i].has
  BY DEF RoomShows
<1>3. /\ d.has = doc[i].has \cup {own}
      /\ d.gone = doc[i].gone \cup (Visible(doc[i]) \ {own})
  BY DEF Reset
<1> HIDE DEF own
<1>4. Visible(doc[i]) \subseteq doc[i].has
  BY DEF Visible
<1>5. own \in Visible(d)
  BY <1>1, <1>2, <1>3, <1>4 DEF Visible
<1>6. ASSUME NEW p \in Visible(d), p # own PROVE FALSE
  <2>1. p \in doc[i].has \ doc[i].gone /\ p \notin Visible(doc[i])
    BY <1>3, <1>6 DEF Visible
  <2>2. p \in Edits /\ ~(typedOn[p] \subseteq doc[i].has)
    BY <2>1 DEF Visible
  <2> QED
    BY <1>2, <2>1, <2>2
<1>7. Visible(d) = {own}
  BY <1>5, <1>6
<1> QED
  BY <1>1, <1>2, <1>3, <1>4, <1>7 DEF own

\* A room takes no ordinary frame once a room has been reset.
LEMMA NothingTyped ==
  ASSUME SameInv, NEW i \in Instances, WasReset(i), NEW j \in Instances, NEW n \in DOMAIN inbox[j]
  PROVE  ~Ordinary(inbox[j][n])
BY DEF SameInv, NoneOnWay, Over

\* The reset of room i to the version that r restores.
ResetBy(i, r) ==
  /\ doc'[i] = Reset(doc[i], i, r) /\ <<r, i>> \notin doc[i].has /\ UNCHANGED typedOn
  /\ \/ OnCommit(i) /\ inbox[i] # <<>> /\ Head(inbox[i]) = CommitOf(r)
     \/ Settle(r) /\ At[r] = i

\* A room takes in an edit on the old text, or is reset.
LEMMA DocStep ==
  ASSUME Showing, SameInv, [Next]_vars, NEW i \in Instances
  PROVE  \/ doc'[i] = doc[i]
         \/ ~warm'[i] /\ doc'[i].has = {}
         \/ /\ warm[i] /\ ~WasReset(i)
            /\ \E e \in Edits : e \in Typed' /\ doc'[i] = [has |-> doc[i].has \cup {e}, gone |-> doc[i].gone]
         \/ warm[i] /\ \E r \in Restores : ResetBy(i, r)
<1>a. /\ Ctx /\ TypeOK /\ doc \in [Instances -> Docs] /\ warm \in [Instances -> BOOLEAN]
      /\ \A e \in Edits : e \in Typed => e \in Typed'
  BY TypedGrows DEF Showing, Ctx, ProtocolInv, TypeOK
<1>1. ASSUME NEW e \in Edits, Type(i, e)
      PROVE  /\ warm[i] /\ ~WasReset(i) /\ e \in Typed'
             /\ doc'[i] = [has |-> doc[i].has \cup {e}, gone |-> doc[i].gone]
  <2>1. doc'[i] = [doc[i] EXCEPT !.has = @ \cup {e}]
    BY <1>1, <1>a DEF Type
  <2>2. doc'[i] = [has |-> doc[i].has \cup {e}, gone |-> doc[i].gone]
    BY <1>a, <2>1 DEF Docs
  <2> QED
    BY <1>1, <2>2, PlainSays DEF Type, Typed, Showing
<1>2. ASSUME OnUpdate(i), doc'[i] # doc[i]
      PROVE  /\ warm[i] /\ ~WasReset(i)
             /\ \E e \in Edits : e \in Typed' /\ doc'[i] = [has |-> doc[i].has \cup {e}, gone |-> doc[i].gone]
  <2>1. inbox[i] # <<>> /\ Head(inbox[i]).kind = "update"
    BY <1>2 DEF OnUpdate, Receive
  <2>2. PICK e \in Edits : e = Head(inbox[i]).edit
    BY <1>a, <2>1, HeadIs
  <2>3. 1 \in DOMAIN inbox[i] /\ Ordinary(inbox[i][1]) /\ e = inbox[i][1].edit
    BY <1>a, <2>1, <2>2, HeadIs DEF Ordinary
  <2>4. e \in Typed /\ ~WasReset(i) /\ warm[i]
    BY <1>a, <2>1, <2>3, NothingTyped, OpenRooms DEF Showing, ShowInv, FrameShows
  <2>5. PICK d : d = [has |-> {e}, gone |-> {}]
    OBVIOUS
  <2>6. d \in Docs /\ d.has \subseteq Edits /\ d.gone = {}
    BY <2>5, DocTypes
  <2>7. Apply(i, d)
    BY <1>2, <2>2, <2>5 DEF OnUpdate
  <2>8. doc'[i] = [has |-> doc[i].has \cup d.has, gone |-> doc[i].gone]
    BY <1>a, <2>6, <2>7, Applied
  <2> QED
    BY <1>a, <2>4, <2>5, <2>8
<1>3. ASSUME OnCommit(i), doc'[i] # doc[i]
      PROVE  warm[i] /\ \E r \in Restores : ResetBy(i, r)
  <2>1. inbox[i] # <<>> /\ Head(inbox[i]).kind = "commit"
    BY <1>3 DEF OnCommit, Receive
  <2>2. PICK r \in Restores : r = Head(inbox[i]).rid
    BY <1>a, <2>1, HeadIs
  <2>3. Head(inbox[i]) = CommitOf(r) /\ 1 \in DOMAIN inbox[i] /\ inbox[i][1] = CommitOf(r)
    BY <1>a, <2>1, <2>2, HeadIs, FrameFields DEF CommitOf
  <2>4. doc'[i] = Reset(doc[i], i, r) /\ UNCHANGED typedOn
    BY <1>3, <1>a, <2>2 DEF OnCommit, history
  <2>5. <<r, i>> \notin doc[i].has
    BY <2>3 DEF Showing, ShowInv, CopySays
  <2> QED
    BY <1>3, <1>a, <2>1, <2>3, <2>4, <2>5, OpenRooms DEF ResetBy
<1>4. ~OnAbort(i)
  <2>1. inbox[i] # <<>> => Head(inbox[i]).kind # "abort"
    BY <1>a, HeadIs DEF Showing, ShowInv, FrameShows
  <2> QED
    BY <2>1 DEF OnAbort, Receive
<1>5. ASSUME NEW r \in Restores, At[r] = i, Settle(r)
      PROVE  warm[i] /\ ResetBy(i, r)
  <2>1. phase[r] = "settle"
    BY <1>5 DEF Settle
  <2>2. warm[i]
    BY <1>5, <1>a, <2>1 DEF Ctx, ProtocolInv, PhaseInv, PhaseSays
  <2>3. <<r, i>> \notin doc[i].has
    BY <1>5, <2>1 DEF Showing, ResetInv, FreshSays
  <2>4. doc'[i] = Reset(doc[i], i, r) /\ UNCHANGED typedOn
    BY <1>5, <1>a DEF Settle
  <2> QED
    BY <1>5, <2>2, <2>3, <2>4 DEF ResetBy
<1>6. ASSUME NEW r \in Restores, At[r] = i, SnapshotOk(r) PROVE doc'[i] = doc[i]
  BY <1>6 DEF SnapshotOk
<1>7. ASSUME NEW r \in Restores, At[r] = i, Crash(r)
      PROVE  ~warm'[i] /\ doc'[i].has = {}
  BY <1>7, <1>a DEF Crash
<1> QED
  BY <1>a, <1>1, <1>2, <1>3, <1>4, <1>5, <1>6, <1>7, RoomStep, PlainSays DEF OfClients, OfRestore, Showing

LEMMA RoomShowsStep ==
  ASSUME Showing, ProtocolInv', SameInv, [Next]_vars, NEW i \in Instances
  PROVE  RoomShows(i)'
<1>a. /\ Ctx /\ TypeOK /\ doc \in [Instances -> Docs] /\ RoomShows(i) /\ \A e \in Typed : typedOn[e] = {Base}
      /\ \A e \in Typed : typedOn'[e] = typedOn[e] /\ e \in Typed'
  BY TypedGrows DEF Showing, ShowInv, Ctx, ProtocolInv, TypeOK
<1>b. warm[i] \in BOOLEAN /\ warm'[i] \in BOOLEAN /\ (warm'[i] => warm[i])
  BY <1>a, WarmBefore DEF ProtocolInv, TypeOK
<1>1. CASE doc'[i] = doc[i] /\ warm'[i] = warm[i]
  <2>1. warm[i] => Visible(doc[i])' = Visible(doc[i])
    BY <1>1, <1>a DEF Visible, RoomShows
  <2> QED
    BY <1>1, <1>a, <2>1 DEF RoomShows, WasReset
<1>2. CASE ~warm'[i] /\ doc'[i].has = {}
  BY <1>2 DEF RoomShows, WasReset
<1>3. CASE warm[i] /\ ~warm'[i]
  <2>1. PICK r \in Restores : At[r] = i /\ Crash(r)
    BY <1>3, <1>a, CloseIsCrash
  <2>2. doc'[i].has = {}
    BY <1>a, <2>1 DEF Crash
  <2> QED
    BY <1>2, <1>3, <2>2
<1>4. ASSUME NEW e \in Edits, warm'[i], ~WasReset(i), e \in Typed',
             doc'[i] = [has |-> doc[i].has \cup {e}, gone |-> doc[i].gone]
      PROVE  RoomShows(i)'
  <2>1. e \notin Copies
    BY TextsAssumption DEF Texts
  <2> QED
    BY <1>4, <1>a, <1>b, <2>1 DEF RoomShows, WasReset
<1>5. ASSUME NEW r \in Restores, warm'[i], ResetBy(i, r)
      PROVE  RoomShows(i)'
  <2>1. PICK d : d = doc'[i]
    OBVIOUS
  <2>2. d = Reset(doc[i], i, r) /\ <<r, i>> \notin doc[i].has /\ typedOn' = typedOn
    BY <1>5, <2>1 DEF ResetBy
  <2>3. /\ Visible(d) = {<<r, i>>}
        /\ Base \in d.has /\ d.gone \subseteq d.has /\ d.has \cap Edits \subseteq Typed
    BY <1>a, <1>b, <1>5, <2>2, ResetShows
  <2>4. Visible(doc[i])' = Visible(d) /\ Typed' = Typed
    BY <2>1, <2>2 DEF Visible, Typed
  <2>5. <<r, i>> \in d.has \cap Copies
    BY <2>2 DEF Reset, Copies
  <2>6. WasReset(i)'
    BY <2>1, <2>5 DEF WasReset
  <2> QED
    BY <1>5, <2>1, <2>3, <2>4, <2>6 DEF RoomShows
<1> QED
  BY <1>a, <1>b, <1>1, <1>2, <1>3, <1>4, <1>5, DocStep

\* A commit is published to the rooms of the others.
LEMMA CommitFrame ==
  ASSUME Ctx, [Next]_vars, NEW i \in Instances, NEW n \in DOMAIN inbox'[i], NEW r \in Restores,
         inbox'[i][n] = CommitOf(r)
  PROVE  (\E m \in DOMAIN inbox[i] : inbox[i][m] = CommitOf(r)) \/ (CommitOk(r) /\ i # At[r])
<1> TypeOK /\ At[r] \in Instances
  BY AtAssumption DEF Ctx, ProtocolInv
<1>1. PICK f : f = CommitOf(r)
  OBVIOUS
<1>2. CASE NewFrame(f)
  <2>1. \A j \in Instances : f # [kind |-> "update", edit |-> Head(pending[j])]
    BY <1>1 DEF CommitOf
  <2>2. \A s \in Restores : f # PrepareOf(s) /\ f # [kind |-> "abort", rid |-> s]
    BY <1>1 DEF CommitOf, PrepareOf
  <2>3. PICK s \in Restores : CommitOk(s) /\ f = CommitOf(s)
    BY <1>2, <2>1, <2>2 DEF NewFrame
  <2>4. s = r
    BY <1>1, <2>3 DEF CommitOf
  <2>5. inbox' = Published(inbox, At[r], f)
    BY <2>3, <2>4 DEF CommitOk, CommitOf
  <2>6. i = At[r] => inbox'[i] = inbox[i]
    BY <2>5, Sent
  <2> QED
    BY <1>1, <2>3, <2>4, <2>6
<1> QED
  BY <1>1, <1>2, BoxStep

LEMMA CopySaysStep ==
  ASSUME Showing, ProtocolInv', SameInv, [Next]_vars, NEW r \in Restores, NEW i \in Instances
  PROVE  CopySays(r, i)'
<1>a. /\ Ctx /\ TypeOK /\ doc \in [Instances -> Docs] /\ At[r] \in Instances /\ CopySays(r, i)
      /\ <<r, i>> \notin Edits
  BY AtAssumption, TextsAssumption DEF Showing, ShowInv, Ctx, ProtocolInv, TypeOK, Texts, Copies
<1>1. CASE <<r, i>> \in doc[i].has
  <2>1. i # At[r] => phase[r] = "done" /\ phase'[r] = "done"
    BY <1>1, <1>a, Lasts DEF CopySays, Lasting
  <2>2. ASSUME NEW n \in DOMAIN inbox'[i], inbox'[i][n] = CommitOf(r) PROVE FALSE
    <3>1. CommitOk(r) /\ i # At[r]
      BY <1>1, <1>a, <2>2, CommitFrame DEF CopySays
    <3> QED
      BY <2>1, <3>1 DEF CommitOk
  <2>3. \A n \in DOMAIN inbox'[i] : inbox'[i][n] # CommitOf(r)
    BY <2>2
  <2> QED
    BY <2>1, <2>3 DEF CopySays, CommitOf
<1>2. ASSUME <<r, i>> \notin doc[i].has, <<r, i>> \in doc'[i].has PROVE CopySays(r, i)'
  <2>0. \A e \in Edits : doc'[i] # [has |-> doc[i].has \cup {e}, gone |-> doc[i].gone]
    BY <1>a, <1>2
  <2>1. PICK s \in Restores : ResetBy(i, s)
    BY <1>a, <1>2, <2>0, DocStep DEF Showing
  <2>2. s = r
    BY <1>2, <2>1 DEF ResetBy, Reset
  <2>3. CASE OnCommit(i) /\ inbox[i] # <<>> /\ Head(inbox[i]) = CommitOf(r)
    <3>1. phase[r] = "done" /\ UNCHANGED phase
      BY <1>a, <2>3, HeadIs DEF FrameSays, CommitOf, OnCommit, coord
    <3>2. \A n \in DOMAIN inbox'[i] : ~Closes(inbox'[i][n])
      BY <1>a, <2>3, NoneLeft DEF OnCommit, CommitOf, Ordinary, Ctx, ProtocolInv
    <3>3. \A n \in DOMAIN inbox'[i] : inbox'[i][n] # CommitOf(r)
      BY <3>2 DEF Closes, CommitOf
    <3> QED
      BY <3>1, <3>3 DEF CopySays, CommitOf
  <2>4. CASE Settle(r) /\ At[r] = i
    <3>1. inbox'[i] = <<>>
      BY <1>a, <2>4 DEF Settle, Settled, Ctx, Calm
    <3> QED
      BY <2>4, <3>1 DEF CopySays
  <2> QED
    BY <2>1, <2>2, <2>3, <2>4 DEF ResetBy
<1> QED
  BY <1>1, <1>2 DEF CopySays

\* A client types on the text of the version to restore.
LEMMA TypedOnBase ==
  ASSUME Showing, [Next]_vars, NEW e \in Typed'
  PROVE  typedOn'[e] = {Base}
<1>a. /\ TypeOK /\ \A x \in Typed : typedOn[x] = {Base} /\ typedOn'[x] = typedOn[x]
      /\ typedOn \in [Edits -> SUBSET Texts]
  BY TypedGrows DEF Showing, ShowInv, Ctx, ProtocolInv, TypeOK
<1>1. ASSUME e \notin Typed PROVE typedOn'[e] = {Base}
  <2>1. PICK i \in Instances, x \in Edits : Type(i, x)
    BY <1>1, TypedOnStep DEF Typed
  <2>2. e = x /\ typedOn'[x] = Visible(doc[i]) \cap Texts
    BY <1>a, <1>1, <2>1 DEF Type, Typed
  <2>3. /\ Base \in doc[i].has /\ doc[i].gone = {} /\ doc[i].has \cap Copies = {}
    BY <2>1, PlainSays DEF Type, Showing, ShowInv, RoomShows, WasReset
  <2>4. Visible(doc[i]) \cap Texts = {Base}
    BY <2>3, TextsAssumption DEF Visible, Texts
  <2> QED
    BY <2>2, <2>4
<1> QED
  BY <1>a, <1>1

LEMMA ShowStep ==
  ASSUME Showing, ProtocolInv', SameInv, [Next]_vars
  PROVE  ShowInv'
BY RoomShowsStep, FramesShow, CopySaysStep, TypedOnBase DEF ShowInv

-----------------------------------------------------------------------------
(* What is under way. *)

LEMMA OverStays ==
  ASSUME Showing, SameInv, [Next]_vars, Over, \A r \in Restores : ~Crash(r)
  PROVE  Over'
<1>a. Ctx /\ TypeOK /\ \A r \in Restores : At[r] \in Instances
  BY AtAssumption DEF Showing, Ctx, ProtocolInv
<1>1. ASSUME NEW i \in Instances, WasReset(i) PROVE Over'
  <2>1. warm'[i]
    BY <1>1, <1>a, CloseIsCrash DEF Showing, ShowInv, RoomShows
  <2>2. WasReset(i)'
    BY <1>1, <1>a, <2>1, ResetKept
  <2> QED
    BY <2>2 DEF Over
<1>2. ASSUME NEW r \in Restores, phase[r] = "commit" PROVE Over'
  BY <1>1, <1>2, <1>a DEF Showing, ReachInv, CommitSays
<1>3. ASSUME NEW r \in Restores, NEW i \in Instances, NEW n \in DOMAIN inbox[i], inbox[i][n] = CommitOf(r)
      PROVE  Over'
  <2>1. CASE \E m \in DOMAIN inbox'[i] : inbox'[i][m] = CommitOf(r)
    <3>1. Committing(r)'
      BY <2>1 DEF Committing, CommitOf
    <3> QED
      BY <3>1 DEF Over
  <2>2. CASE ~warm'[i]
    <3>1. warm[i]
      BY <1>3, <1>a, OpenRooms
    <3> QED
      BY <1>a, <2>2, <3>1, CloseIsCrash
  <2>3. CASE n = 1 /\ (OnUpdate(i) \/ OnPrepare(i) \/ OnCommit(i) \/ OnAbort(i))
    <3>1. Head(inbox[i]) = CommitOf(r) /\ inbox[i] # <<>>
      BY <1>3, <1>a, <2>3, HeadIs
    <3>2. OnCommit(i) /\ Head(inbox[i]).rid = r /\ barrier[i] = r
      BY <1>a, <2>3, <3>1, HeadIs DEF OnUpdate, OnPrepare, OnAbort, Receive, CommitOf, FrameSays, Closes
    <3>3. doc'[i] = Reset(doc[i], i, r)
      BY <1>a, <3>2 DEF OnCommit, TypeOK
    <3>4. <<r, i>> \in Copies /\ <<r, i>> \in doc'[i].has
      BY <3>3 DEF Reset, Copies
    <3>5. WasReset(i)'
      BY <3>4 DEF WasReset
    <3> QED
      BY <3>5 DEF Over
  <2> QED
    BY <1>3, <1>a, <2>1, <2>2, <2>3, FrameStays
<1> QED
  BY <1>1, <1>2, <1>3 DEF Over, Committing

\* The first reset is the one a coordinator makes once it has settled.
LEMMA OverBegins ==
  ASSUME Showing, SameInv, [Next]_vars, Over'
  PROVE  Over \/ \E r \in Restores : Settle(r)
<1>a. Ctx /\ TypeOK /\ \A r \in Restores : At[r] \in Instances
  BY AtAssumption DEF Showing, Ctx, ProtocolInv
<1>1. ASSUME NEW i \in Instances, WasReset(i)', ~WasReset(i) PROVE Over \/ \E r \in Restores : Settle(r)
  <2>0. \A e \in Edits : doc'[i] # [has |-> doc[i].has \cup {e}, gone |-> doc[i].gone]
    BY <1>1, TextsAssumption DEF WasReset, Texts
  <2>1. PICK r \in Restores : ResetBy(i, r)
    <3>1. doc'[i] # doc[i] /\ doc'[i].has # {}
      BY <1>1 DEF WasReset
    <3> QED
      BY <2>0, <3>1, DocStep
  <2>2. ASSUME inbox[i] # <<>>, Head(inbox[i]) = CommitOf(r) PROVE Over
    <3>1. Committing(r)
      BY <1>a, <2>2, HeadIs DEF Committing
    <3> QED
      BY <3>1 DEF Over
  <2> QED
    BY <2>1, <2>2 DEF ResetBy
<1>2. ASSUME NEW r \in Restores, Committing(r)' PROVE Over
  <2>1. SnapshotOk(r) => WasReset(At[r])
    BY DEF SnapshotOk, Showing, ReachInv, CommitSays
  <2> QED
    BY <1>2, <1>a, <2>1, CommittingBefore DEF Over
<1> QED
  BY <1>1, <1>2 DEF Over

\* After a reset clients type behind a barrier, if at all, and a barrier ends with a reset.
LEMMA NoneOnWayStays ==
  ASSUME Showing, ProtocolInv', SameInv, Over, [Next]_vars
  PROVE  NoneOnWay'
<1>a. /\ Ctx /\ TypeOK /\ NoneOnWay /\ doc \in [Instances -> Docs] /\ warm \in [Instances -> BOOLEAN]
      /\ \A i \in Instances : pending[i] \in Seq(Edits) /\ pending'[i] \in Seq(Edits)
  BY DEF Showing, SameInv, Ctx, ProtocolInv, TypeOK
<1>1. ASSUME NEW i \in Instances, pending'[i] # <<>> PROVE FALSE
  <2>1. 1 \in DOMAIN pending'[i]
    BY <1>a, <1>1
  <2>2. PICK e \in Edits : Type(i, e)
    BY <1>a, <2>1, QueueStep DEF NoneOnWay
  <2>3. barrier[i] = None /\ warm[i] /\ MayType(i)
    BY <1>a, <1>1, <2>2 DEF Type, TypeOK
  <2> QED
    BY <1>a, <2>3, PlainSays DEF NoneOnWay, Showing
<1>2. ASSUME NEW i \in Instances, NEW n \in DOMAIN inbox'[i], Ordinary(inbox'[i][n]) PROVE FALSE
  <2>1. PICK f : f = inbox'[i][n]
    OBVIOUS
  <2>2. ~NewFrame(f)
    <3>1. \A j \in Instances : ~Publish(j)
      BY <1>a DEF NoneOnWay, Publish
    <3>2. \A r \in Restores : f # PrepareOf(r) /\ f # CommitOf(r)
      BY <1>2, <2>1 DEF PrepareOf, CommitOf, Ordinary
    <3> QED
      BY <3>1, <3>2, PlainSays DEF NewFrame, Showing
  <2> QED
    BY <1>a, <1>2, <2>1, <2>2, BoxStep DEF NoneOnWay
<1>3. ASSUME NEW i \in Instances, warm'[i], barrier'[i] = None PROVE WasReset(i)'
  <2>1. CASE WasReset(i)
    BY <1>a, <1>3, <2>1, ResetKept
  <2>2. CASE ~WasReset(i)
    <3>1. barrier[i] # None
      BY <1>a, <1>3, <2>2, WarmBefore DEF NoneOnWay
    <3>2. ~OfRestore(i)
      <4>1. ASSUME NEW s \in Restores, At[s] = i, Settle(s) PROVE FALSE
        BY <4>1, <1>3, <3>1 DEF Settle, gate
      <4>2. ASSUME NEW s \in Restores, At[s] = i, Crash(s) PROVE FALSE
        BY <4>2, <1>3, <1>a DEF Crash
      <4>3. ASSUME NEW s \in Restores, At[s] = i, SnapshotOk(s) PROVE FALSE
        BY <4>3, <2>2 DEF SnapshotOk, Showing, ReachInv, CommitSays
      <4> QED
        BY <4>1, <4>2, <4>3, PlainSays DEF OfRestore, Showing
    <3>3. ~OnAbort(i)
      <4>1. inbox[i] # <<>> => Head(inbox[i]).kind # "abort"
        BY <1>a, HeadIs DEF Showing, ShowInv, FrameShows
      <4> QED
        BY <4>1 DEF OnAbort, Receive
    <3>4. ~OfClients(i) /\ ~OnUpdate(i)
      BY <1>3, <3>1 DEF OfClients, Type, OnUpdate, gate
    <3>5. OnCommit(i)
      BY <1>a, <1>3, <3>1, <3>2, <3>3, <3>4, RoomStep
    <3>6. PICK s \in Restores : s = Head(inbox[i]).rid
      BY <1>a, <3>5, HeadIs DEF OnCommit, Receive
    <3>7. doc'[i] = Reset(doc[i], i, s)
      BY <1>a, <1>3, <3>1, <3>5, <3>6 DEF OnCommit, Leave
    <3>8. <<s, i>> \in Copies /\ <<s, i>> \in doc'[i].has
      BY <3>7 DEF Reset, Copies
    <3> QED
      BY <3>8 DEF WasReset
  <2> QED
    BY <2>1, <2>2
<1> QED
  BY <1>1, <1>2, <1>3 DEF NoneOnWay

\* Once a coordinator has settled, every room is behind its barrier.
LEMMA NoneOnWayBegins ==
  ASSUME Showing, NEW r \in Restores, Settle(r)
  PROVE  NoneOnWay'
<1>a. /\ TypeOK /\ PhaseSays(r) /\ phase[r] = "settle" /\ ColdInv /\ r # None
      /\ \A i \in Instances : inbox[i] = <<>>
      /\ UNCHANGED <<warm, inbox, pending, barrier>>
  BY NoneAssumption DEF Showing, Ctx, Calm, ProtocolInv, PhaseInv, Settle, Settled, queue, gate
<1>1. ASSUME NEW i \in Instances, warm[i] PROVE barrier[i] = r
  BY <1>a, <1>1 DEF PhaseSays, Prepared
<1>2. \A i \in Instances : pending[i] = <<>>
  BY <1>a, <1>1 DEF TypeOK, ColdInv
<1> QED
  BY <1>a, <1>1, <1>2 DEF NoneOnWay

\* A coordinator that dies leaves every other room behind its barrier, or soon.
LEMMA CrashBlocks ==
  ASSUME Showing, ProtocolInv', NEW r \in Restores, Crash(r), [Next]_vars
  PROVE  Blocked' \/ AllOnWay'
<1>a. /\ Ctx /\ TypeOK /\ PhaseSays(r) /\ phase[r] \in {"settle", "row", "snapshot", "commit"} /\ r # None
      /\ ColdInv'
      /\ barrier' = [barrier EXCEPT ![At[r]] = None] /\ inbox' = [inbox EXCEPT ![At[r]] = <<>>]
      /\ warm' = [warm EXCEPT ![At[r]] = FALSE]
  BY NoneAssumption DEF Showing, Ctx, ProtocolInv, PhaseInv, Crash
<1>1. ASSUME NEW j \in Instances, warm'[j] PROVE Blocked'
  <2>1. j # At[r] /\ warm[j] /\ barrier'[j] = barrier[j] /\ inbox'[j] = inbox[j]
    BY <1>a, <1>1 DEF TypeOK
  <2>2. \/ barrier[j] = r
        \/ \E n \in DOMAIN inbox[j] : inbox[j][n] = PrepareOf(r)
    BY <1>a, <2>1 DEF PhaseSays, Behind, Prepared
  <2> QED
    BY <1>a, <2>1, <2>2 DEF Blocked, PrepareOf
<1>2. ASSUME \A j \in Instances : ~warm'[j] PROVE AllOnWay'
  BY <1>a, <1>2 DEF AllOnWay, ColdInv
<1> QED
  BY <1>1, <1>2

\* A barrier stays up until the first reset.
LEMMA BlockedStays ==
  ASSUME Showing, SameInv, ~Over, [Next]_vars, Blocked, \A r \in Restores : ~Crash(r) /\ ~Settle(r)
  PROVE  Blocked'
<1>a. Ctx /\ TypeOK
  BY DEF Showing, Ctx, ProtocolInv
<1>b. ASSUME NEW i \in Instances PROVE ~OnCommit(i) /\ ~OnAbort(i)
  <2>1. ASSUME inbox[i] # <<>>, Head(inbox[i]).kind = "commit" PROVE FALSE
    <3>1. PICK r \in Restores : r = Head(inbox[i]).rid
      BY <1>a, <2>1, HeadIs
    <3>2. 1 \in DOMAIN inbox[i] /\ inbox[i][1] = CommitOf(r)
      BY <1>a, <2>1, <3>1, HeadIs, FrameFields DEF CommitOf
    <3> QED
      BY <3>2 DEF Over, Committing
  <2>2. inbox[i] # <<>> => Head(inbox[i]).kind # "abort"
    BY <1>a, HeadIs DEF Showing, ShowInv, FrameShows
  <2> QED
    BY <2>1, <2>2 DEF OnAbort, OnCommit, Receive
<1>c. \A r \in Restores : ~SnapshotOk(r)
  BY AtAssumption DEF SnapshotOk, Showing, ReachInv, CommitSays, Over
<1>1. ASSUME NEW i \in Instances, barrier[i] # None PROVE Blocked'
  <2>1. ~OfRestore(i)
    BY <1>c, PlainSays DEF OfRestore, Showing
  <2>2. OfClients(i) \/ OnUpdate(i) => barrier'[i] = barrier[i]
    BY DEF OfClients, Type, OnUpdate, gate
  <2>3. barrier'[i] # None
    BY <1>a, <1>b, <1>1, <2>1, <2>2, RoomStep
  <2> QED
    BY <2>3 DEF Blocked
<1>2. ASSUME NEW i \in Instances, NEW n \in DOMAIN inbox[i], inbox[i][n].kind = "prepare" PROVE Blocked'
  <2>1. CASE \E m \in DOMAIN inbox'[i] : inbox'[i][m] = inbox[i][n]
    BY <1>2, <2>1 DEF Blocked
  <2>2. CASE ~warm'[i]
    <3>1. warm[i]
      BY <1>2, <1>a, OpenRooms
    <3> QED
      BY <1>a, <2>2, <3>1, CloseIsCrash
  <2>3. CASE n = 1 /\ (OnUpdate(i) \/ OnPrepare(i) \/ OnCommit(i) \/ OnAbort(i))
    <3>1. Head(inbox[i]).kind = "prepare" /\ inbox[i] # <<>>
      BY <1>2, <1>a, <2>3, HeadIs
    <3>2. OnPrepare(i)
      BY <1>b, <2>3, <3>1 DEF OnUpdate, Receive
    <3>3. Head(inbox[i]).rid \in Restores /\ Head(inbox[i]).rid # None
      BY <1>a, <3>1, HeadIs, NoneAssumption
    <3>4. barrier'[i] # None
      BY <1>a, <3>2, <3>3 DEF OnPrepare, Enter, TypeOK
    <3> QED
      BY <3>4 DEF Blocked
  <2> QED
    BY <1>2, <1>a, <2>1, <2>2, <2>3, FrameStays
<1> QED
  BY <1>1, <1>2 DEF Blocked

\* What may happen to a queue.
LEMMA QueueMoves ==
  ASSUME Ctx, [Next]_vars, NEW j \in Instances
  PROVE  \/ pending'[j] = pending[j] /\ sending'[j] = sending[j]
         \/ Publish(j) \/ PublishReply(j) \/ OfClients(j) \/ OnCommit(j)
         \/ barrier'[j] # None
         \/ \E r \in Restores : SnapshotOk(r) \/ Crash(r)
<1> TypeOK
  BY DEF Ctx, ProtocolInv
<1>a. /\ pending \in [Instances -> Seq(Edits)] /\ sending \in [Instances -> Edits \cup {None}]
      /\ barrier \in [Instances -> Restores \cup {None}]
  BY DEF TypeOK
<1> DEFINE Same == pending'[j] = pending[j] /\ sending'[j] = sending[j]
<1>1. FlushStart \/ FlushEnd \/ LockExpires \/ UNCHANGED vars => Same
  BY DEF FlushStart, FlushEnd, LockExpires, vars, queue
<1>2. ASSUME NEW i \in Instances, Rooms(i) \/ Clients(i), i # j PROVE Same
  BY <1>2, <1>a, CalmRooms DEF Rooms, Publish, PublishReply, OnUpdate, OnPrepare, OnCommit, OnAbort,
    Enter, Leave, Clients, Type, queue
<1>3. ASSUME OnPrepare(j) PROVE barrier'[j] # None
  <2>1. Head(inbox[j]).rid \in Restores
    BY <1>3, HeadIs DEF OnPrepare, Receive
  <2>2. Head(inbox[j]).rid # None
    BY <2>1, NoneAssumption
  <2> QED
    BY <1>3, <1>a, <2>2 DEF OnPrepare, Enter
<1>4. OnUpdate(j) \/ OnAbort(j) => Same
  BY DEF OnUpdate, OnAbort, queue
<1>5. Rooms(j) \/ Clients(j) =>
        Same \/ Publish(j) \/ PublishReply(j) \/ OfClients(j) \/ OnCommit(j) \/ barrier'[j] # None
  BY <1>3, <1>4, CalmRooms DEF Rooms, Clients, OfClients
<1>6. ASSUME NEW r \in Restores, Lock(r) \/ Coordinator(r) \/ Faults(r), ~SnapshotOk(r), ~Crash(r)
      PROVE  Same \/ barrier'[j] # None
  <2>1. UNCHANGED <<pending, sending>> \/ (Enter(At[r], r) /\ UNCHANGED sending)
    BY <1>6 DEF Lock, Coordinator, Faults, Read, Begin, Flushed, PrepareOk, Settle, RowOk, CommitOk, Release,
        VersionMissing, PrepareFails, PersistFails, GiveUp, CommitFails, queue
  <2>2. r # None
    BY NoneAssumption
  <2> QED
    BY <2>1, <2>2, <1>a DEF Enter
<1> HIDE DEF Same
<1>7. \/ Same \/ Publish(j) \/ PublishReply(j) \/ OfClients(j) \/ OnCommit(j) \/ barrier'[j] # None
      \/ \E r \in Restores : SnapshotOk(r) \/ Crash(r)
  BY <1>1, <1>2, <1>5, <1>6 DEF Next
<1> QED
  BY <1>7 DEF Same

\* While no barrier is up, an edit is queued for all rooms, then on its way to each.
LEMMA AllOnWayStays ==
  ASSUME Showing, ProtocolInv', AllOnWay, ~Blocked, ~Blocked', [Next]_vars,
         \A r \in Restores : ~Crash(r) /\ ~SnapshotOk(r), \A i \in Instances : ~OnCommit(i) /\ ~OnAbort(i)
  PROVE  AllOnWay'
<1>a. /\ Ctx /\ TypeOK /\ doc \in [Instances -> Docs]
      /\ pending \in [Instances -> Seq(Edits)] /\ sending \in [Instances -> Edits \cup {None}]
      /\ typedOn \in [Edits -> SUBSET Texts]
  BY DEF Showing, Ctx, ProtocolInv, TypeOK
<1>b. \A j \in Instances : barrier[j] = None /\ barrier'[j] = None
  BY DEF Blocked
<1>c. ASSUME NEW j \in Instances
      PROVE  \/ pending'[j] = pending[j] /\ sending'[j] = sending[j]
             \/ Publish(j) \/ PublishReply(j) \/ OfClients(j)
  BY <1>a, <1>b, QueueMoves
<1>d. ASSUME NEW j \in Instances, NEW x \in Edits, Type(j, x)
      PROVE  pending'[j] = Append(pending[j], x) /\ sending'[j] = sending[j]
  BY <1>a, <1>b, <1>d DEF Type
<1>e. ASSUME NEW j \in Instances, PublishReply(j), pending[j] # <<>>
      PROVE  sending[j] # None /\ sending'[j] = None /\ pending'[j] = Tail(pending[j])
  BY <1>a, <1>e DEF PublishReply
<1>f. ASSUME NEW j \in Instances, Publish(j)
      PROVE  pending'[j] = pending[j] /\ pending[j] # <<>> /\ sending[j] = None
  BY <1>a, <1>f DEF Publish
<1>1. ASSUME NEW j \in Instances, sending'[j] # None PROVE pending'[j] # <<>>
  <2>1. CASE pending'[j] = pending[j] /\ sending'[j] = sending[j]
    BY <1>1, <2>1 DEF AllOnWay
  <2>2. CASE PublishReply(j)
    BY <1>1, <1>a, <2>2 DEF PublishReply
  <2>3. ASSUME NEW x \in Edits, Type(j, x) PROVE pending'[j] # <<>>
    BY <1>a, <1>d, <2>3
  <2> QED
    BY <1>c, <1>f, <2>1, <2>2, <2>3 DEF OfClients
<1>2. ASSUME NEW e \in Edits, NEW j \in Instances, Type(j, e) PROVE Waits(e, j)'
  <2>1. pending'[j] = Append(pending[j], e) /\ sending'[j] = sending[j]
    BY <1>2, <1>d
  <2>2. sending[j] # None => Len(pending[j]) > 0
    BY <1>a DEF AllOnWay
  <2>3. /\ Len(pending[j]) + 1 \in DOMAIN pending'[j] /\ pending'[j][Len(pending[j]) + 1] = e
        /\ Len(pending[j]) \in Nat
    BY <1>a, <2>1
  <2> QED
    BY <2>1, <2>2, <2>3 DEF Waits
<1>3. ASSUME NEW e \in Typed, NEW i \in Instances, warm'[i], e \in doc[i].has PROVE e \in doc'[i].has
  BY <1>3, <1>a, HasStep
<1>4. ASSUME NEW e \in Typed, NEW i \in Instances, warm'[i],
             NEW n \in DOMAIN inbox[i], inbox[i][n] = [kind |-> "update", edit |-> e]
      PROVE  e \in doc'[i].has \/ \E m \in DOMAIN inbox'[i] : inbox'[i][m] = [kind |-> "update", edit |-> e]
  <2>1. CASE n = 1 /\ (OnUpdate(i) \/ OnPrepare(i) \/ OnCommit(i) \/ OnAbort(i))
    <3>1. Head(inbox[i]).kind = "update" /\ Head(inbox[i]).edit = e
      BY <1>4, <1>a, <2>1, HeadIs
    <3>2. OnUpdate(i)
      BY <2>1, <3>1 DEF OnPrepare, OnCommit, OnAbort, Receive
    <3>3. PICK d : d = [has |-> {e}, gone |-> {}]
      OBVIOUS
    <3>4. doc'[i] = Merge(doc[i], d)
      BY <1>a, <1>b, <3>1, <3>2, <3>3 DEF OnUpdate, Apply
    <3> QED
      BY <3>3, <3>4 DEF Merge
  <2> QED
    BY <1>4, <1>a, <2>1, FrameStays
<1>5. ASSUME NEW e \in Typed, NEW i \in Instances, warm'[i], NEW j \in Instances, Waits(e, j)
      PROVE  \/ e \in doc'[i].has \/ Waits(e, j)'
             \/ \E n \in DOMAIN inbox'[i] : inbox'[i][n] = [kind |-> "update", edit |-> e]
  <2>1. PICK n \in DOMAIN pending[j] : pending[j][n] = e /\ (sending[j] # None => n > 1)
    BY <1>5 DEF Waits
  <2>2. pending[j] # <<>> /\ n \in Nat \ {0} /\ pending[j] \in Seq(Edits)
    BY <1>a, <2>1
  <2>3. CASE pending'[j] = pending[j] /\ sending'[j] = sending[j]
    BY <2>1, <2>3 DEF Waits
  <2>4. CASE Publish(j) /\ n > 1
    BY <1>f, <2>1, <2>4 DEF Waits
  <2>5. CASE Publish(j) /\ n = 1
    <3>1. PICK f : f = [kind |-> "update", edit |-> e]
      OBVIOUS
    <3>2. Head(pending[j]) = e
      BY <1>a, <2>1, <2>2, <2>5, HeadQueued
    <3>3. inbox' = Published(inbox, j, f)
      BY <2>5, <3>1, <3>2 DEF Publish
    <3>4. CASE i = j
      <4>1. e \in doc[i].has
        BY <2>1, <3>4 DEF Showing, ReachInv
      <4> QED
        BY <1>3, <1>5, <4>1
    <3>5. CASE i # j
      <4>1. warm[i]
        BY <1>5, <1>a, WarmBefore
      <4>2. Len(inbox[i]) + 1 \in DOMAIN inbox'[i] /\ inbox'[i][Len(inbox[i]) + 1] = f
        BY <1>a, <3>3, <3>5, <4>1, Sent
      <4> QED
        BY <3>1, <4>2
    <3> QED
      BY <3>4, <3>5
  <2>6. CASE PublishReply(j)
    <3>1. sending[j] # None /\ sending'[j] = None /\ pending'[j] = Tail(pending[j])
      BY <1>e, <2>2, <2>6
    <3>2. n > 1
      BY <2>1, <3>1
    <3>3. n - 1 \in DOMAIN pending'[j] /\ pending'[j][n - 1] = e
      BY <2>1, <2>2, <3>1, <3>2
    <3> QED
      BY <3>1, <3>3 DEF Waits
  <2>7. ASSUME NEW x \in Edits, Type(j, x) PROVE Waits(e, j)'
    <3>1. pending'[j] = Append(pending[j], x) /\ sending'[j] = sending[j]
      BY <2>7, <1>d
    <3>2. n \in DOMAIN pending'[j] /\ pending'[j][n] = e
      BY <2>1, <2>2, <3>1
    <3> QED
      BY <2>1, <3>1, <3>2 DEF Waits
  <2> QED
    BY <1>c, <2>2, <2>3, <2>4, <2>5, <2>6, <2>7 DEF OfClients
<1>6. ASSUME NEW e \in Typed', NEW i \in Instances, warm'[i]
      PROVE  \/ e \in doc'[i].has
             \/ \E n \in DOMAIN inbox'[i] : inbox'[i][n] = [kind |-> "update", edit |-> e]
             \/ \E j \in Instances : Waits(e, j)'
  <2>1. CASE e \in Typed
    <3>1. warm[i]
      BY <1>6, <1>a, WarmBefore
    <3> QED
      BY <1>6, <2>1, <3>1, <1>3, <1>4, <1>5 DEF AllOnWay
  <2>2. CASE e \notin Typed
    <3>1. PICK j \in Instances, x \in Edits : Type(j, x)
      BY <2>2, TypedOnStep DEF Typed
    <3>2. e = x
      BY <1>a, <2>2, <3>1 DEF Type, Typed
    <3> QED
      BY <3>1, <3>2, <1>2
  <2> QED
    BY <2>1, <2>2
<1> QED
  BY <1>1, <1>6 DEF AllOnWay, Waits

LEMMA SameStep ==
  ASSUME Showing, ProtocolInv', SameInv, [Next]_vars
  PROVE  SameInv'
<1>a. Ctx /\ TypeOK
  BY DEF Showing, Ctx, ProtocolInv
<1>1. CASE Over'
  <2>1. NoneOnWay'
    BY NoneOnWayStays, NoneOnWayBegins, OverBegins, <1>1
  <2> QED
    BY <1>1, <2>1 DEF SameInv
<1>2. CASE ~Over' /\ ~Blocked'
  <2>1. ASSUME NEW r \in Restores, Crash(r) PROVE AllOnWay'
    BY <1>2, <2>1, CrashBlocks
  <2>2. ASSUME \A r \in Restores : ~Crash(r) PROVE AllOnWay'
    <3>1. ~Over
      BY <1>2, <2>2, OverStays
    <3>2. ASSUME NEW r \in Restores, Settle(r) PROVE FALSE
      <4>1. NoneOnWay'
        BY <3>2, NoneOnWayBegins
      <4>2. PICK j \in Instances : j = At[r]
        BY AtAssumption
      <4>3. doc'[j] = Reset(doc[j], j, r)
        BY <1>a, <3>2, <4>2 DEF Settle, TypeOK
      <4>4. <<r, j>> \in Copies /\ <<r, j>> \in doc'[j].has
        BY <4>3 DEF Reset, Copies
      <4>5. WasReset(j)'
        BY <4>4 DEF WasReset
      <4> QED
        BY <1>2, <4>5 DEF Over
    <3>3. \A r \in Restores : ~SnapshotOk(r)
      BY <3>1, AtAssumption DEF SnapshotOk, Showing, ReachInv, CommitSays, Over
    <3>4. ~Blocked
      BY <1>2, <2>2, <3>1, <3>2, BlockedStays
    <3>5. ASSUME NEW i \in Instances, OnCommit(i) \/ OnAbort(i) PROVE FALSE
      <4>1. inbox[i] # <<>> /\ Head(inbox[i]).kind \in {"commit", "abort"}
        BY <3>5 DEF OnCommit, OnAbort, Receive
      <4>2. 1 \in DOMAIN inbox[i] /\ Closes(inbox[i][1]) /\ barrier[i] = None
        BY <1>a, <3>4, <4>1, HeadIs DEF Closes, Blocked
      <4> QED
        BY <1>a, <4>2, NoneCloses
    <3>6. AllOnWay
      BY <3>1, <3>4 DEF SameInv
    <3> QED
      BY <1>2, <2>2, <3>3, <3>4, <3>5, <3>6, AllOnWayStays
  <2>3. AllOnWay'
    BY <1>2, <2>1, <2>2
  <2> QED
    BY <1>2, <2>3 DEF SameInv
<1>3. CASE ~Over' /\ Blocked'
  BY <1>3 DEF SameInv
<1> QED
  BY <1>1, <1>2, <1>3

LEMMA SameInit == Init /\ Plain => ShowInv /\ SameInv
<1> SUFFICES ASSUME Init, Plain PROVE ShowInv /\ SameInv
  OBVIOUS
<1>1. /\ \A i \in Instances : warm[i] /\ doc[i] = Start
      /\ \A i \in Instances : inbox[i] = <<>> /\ sending[i] = None /\ pending[i] = <<>>
      /\ \A r \in Restores : phase[r] = "none"
      /\ Typed = {}
  BY DEF Init, Plain, Typed
<1>2. \A i \in Instances : doc[i].has = {Base} /\ doc[i].gone = {} /\ ~WasReset(i)
  BY <1>1, TextsAssumption DEF Start, WasReset
<1>3. Base \notin Edits /\ \A r \in Restores, i \in Instances : <<r, i>> # Base
  BY TextsAssumption DEF Texts, Copies
<1>4. \A i \in Instances : RoomShows(i)
  BY <1>1, <1>2, <1>3 DEF RoomShows
<1>5. \A r \in Restores, i \in Instances : CopySays(r, i)
  BY <1>2, <1>3 DEF CopySays
<1>6. \A i \in Instances : \A n \in DOMAIN inbox[i] : FALSE
  BY <1>1
<1>7. ShowInv
  BY <1>1, <1>4, <1>5, <1>6 DEF ShowInv
<1>8. ~Over
  BY <1>1, <1>2, <1>6 DEF Over, Committing
<1>9. AllOnWay
  BY <1>1 DEF AllOnWay
<1> QED
  BY <1>7, <1>8, <1>9 DEF SameInv

\* When nothing is under way, the rooms show what they should.
LEMMA QuietShows ==
  ASSUME TypeOK, ShowInv, SameInv, Quiescent, NEW i \in Instances, warm[i]
  PROVE  IF Over THEN \E r \in Restores : Visible(doc[i]) = {<<r, i>>}
         ELSE Visible(doc[i]) = Typed \cup {Base}
<1>1. RoomShows(i) /\ barrier[i] = None
  BY DEF ShowInv, Quiescent
<1>2. CASE Over
  BY <1>1, <1>2 DEF SameInv, NoneOnWay, RoomShows
<1>3. CASE ~Over
  <2>1. ~Blocked /\ \A j \in Instances : \A n \in DOMAIN inbox[j] \cup DOMAIN pending[j] : FALSE
    BY DEF Quiescent, Blocked
  <2>2. AllOnWay
    BY <1>3, <2>1 DEF SameInv
  <2>3. \A e \in Typed : e \in doc[i].has /\ typedOn[e] = {Base}
    BY <2>1, <2>2 DEF AllOnWay, Waits, ShowInv
  <2>4. /\ Base \in doc[i].has /\ doc[i].gone = {} /\ doc[i].has \cap Copies = {}
        /\ doc[i].has \cap Edits \subseteq Typed /\ doc[i].has \subseteq Edits \cup Texts
    BY <1>1, <1>3 DEF RoomShows, Over, WasReset, TypeOK, Docs, Pieces
  <2>5. Typed \subseteq Edits /\ Base \notin Edits
    BY TextsAssumption DEF Typed, Texts
  <2>6. Visible(doc[i]) = Typed \cup {Base}
    BY <2>3, <2>4, <2>5 DEF Visible, Texts
  <2> QED
    BY <1>3, <2>6
<1> QED
  BY <1>2, <1>3

LEMMA QuietText ==
  ASSUME TypeOK, ShowInv, SameInv, Quiescent, NEW i \in Instances, warm[i]
  PROVE  Text(doc[i]) = [edits |-> IF Over THEN {} ELSE Typed, texts |-> 1]
<1>1. CASE Over
  <2>1. PICK r \in Restores : Visible(doc[i]) = {<<r, i>>}
    BY <1>1, QuietShows
  <2>2. <<r, i>> \in Texts /\ <<r, i>> \notin Edits
    BY TextsAssumption DEF Texts, Copies
  <2>3. Visible(doc[i]) \cap Edits = {} /\ Visible(doc[i]) \cap Texts = {<<r, i>>}
    BY <2>1, <2>2
  <2>4. Cardinality({<<r, i>>}) = 1
    BY FS_Singleton
  <2> QED
    BY <1>1, <2>3, <2>4 DEF Text
<1>2. CASE ~Over
  <2>1. Visible(doc[i]) = Typed \cup {Base}
    BY <1>2, QuietShows
  <2>2. Typed \subseteq Edits /\ Base \in Texts /\ Edits \cap Texts = {}
    BY TextsAssumption DEF Typed, Texts
  <2>3. Visible(doc[i]) \cap Edits = Typed /\ Visible(doc[i]) \cap Texts = {Base}
    BY <2>1, <2>2
  <2>4. Cardinality({Base}) = 1
    BY FS_Singleton
  <2> QED
    BY <1>2, <2>3, <2>4 DEF Text
<1> QED
  BY <1>1, <1>2

-----------------------------------------------------------------------------
(* The theorems. *)

\* What holds, by what may happen.
ContentInv ==
  Calm =>
    /\ Serial /\ ProtocolInv /\ BeforeInv
    /\ {"commitFails", "storedAnyway"} \cap env = {} => ResetInv /\ StoredInv
    /\ "after" \notin env => ReachInv
    /\ Plain => ShowInv /\ SameInv

LEMMA ContentStep == ContentInv /\ [Next]_vars => ContentInv'
<1> SUFFICES ASSUME ContentInv, [Next]_vars, Calm' PROVE ContentInv'
  BY DEF ContentInv
<1>1. env' = env /\ Calm
  BY EnvStays DEF Calm
<1>2. Ctx /\ BeforeInv
  BY <1>1 DEF Ctx, ContentInv
<1>3. ProtocolInv'
  BY <1>2, ProtocolStep DEF Ctx
<1>4. BeforeInv'
  BY <1>2, <1>3, BeforeInvStep
<1>5. {"commitFails", "storedAnyway"} \cap env = {} => ResetInv' /\ StoredInv'
  BY <1>1, <1>2, <1>3, <1>4, ResetStep, StoredStep DEF ContentInv
<1>6. "after" \notin env => ReachInv'
  BY <1>1, <1>2, <1>3, ReachStep DEF ContentInv
<1>8. Serial'
  BY <1>2, SerialStep DEF Ctx, Calm, ProtocolInv
<1>7. ASSUME Plain' PROVE ShowInv' /\ SameInv'
  <2>1. Plain
    BY <1>1, <1>7 DEF Plain
  <2>2. Showing /\ SameInv
    BY <1>1, <1>2, <2>1, PlainSays DEF ContentInv, Showing
  <2> QED
    BY <1>3, <2>2, ShowStep, SameStep
<1> QED
  BY <1>1, <1>3, <1>4, <1>5, <1>6, <1>7, <1>8 DEF ContentInv

LEMMA ContentInit == Init => ContentInv
<1>1. Init => Serial
  BY DEF Init, Serial, Holding
<1> QED
  BY <1>1, ProtocolInit, BeforeInit, ResetInit, StoredInit, ReachInit, SameInit DEF ContentInv

\* What a stored reset has superseded is not written back: the leader keeps what it
\* still buffers behind its barrier until the commit empties it, an edit that was
\* typed before the reset is not sent any more (enterRestoreBarrier), and the
\* snapshot covers the rows up to the reset (persistRestore).  For every number of
\* instances, edits and restores, whatever fails but the PUBLISH of a commit and what
\* writeSnapshot calls once the reset is stored.
THEOREM StoredResetStays == Spec => []StoredStaysRestored
<1>1. TypeOK /\ ContentInv => StoredStaysRestored
  BY StoredIsRestored DEF ContentInv, Calm, StoredStaysRestored
<1> QED
  BY <1>1, TypeInit, TypeStep, ContentInit, ContentStep, PTL DEF Spec

\* An edit that was published before or while barriers go up is in every open room,
\* kept aside by its barrier or on its way to it, until a stored reset supersedes it:
\* an abort applies what was kept aside (abortRestoreBarrier), and a commit throws
\* away only what the reset has superseded (commitRestoreBarrier).
THEOREM PublishedEditsReachRooms == Spec => []EditsReachRooms
<1>1. TypeOK /\ ContentInv => EditsReachRooms
  <2> SUFFICES ASSUME TypeOK, ContentInv, {"slow", "after", "join", "expires", "again"} \cap env = {},
                      NEW e \in sent \ Superseded, NEW i \in Instances, warm[i]
               PROVE  \/ e \in doc[i].has \cup quarantined[i]
                      \/ \E f \in Range(inbox[i]) : f.kind = "update" /\ f.edit = e
    BY DEF EditsReachRooms
  <2>1. Reached(e, i)
    BY DEF ContentInv, Calm, ReachInv
  <2>2. ASSUME NEW n \in DOMAIN inbox[i], inbox[i][n] = [kind |-> "update", edit |-> e]
        PROVE  \E f \in Range(inbox[i]) : f.kind = "update" /\ f.edit = e
    BY <2>2 DEF Range
  <2> QED
    BY <2>1, <2>2 DEF Reached
<1> QED
  BY <1>1, TypeInit, TypeStep, ContentInit, ContentStep, PTL DEF Spec

\* Every instance resets its own room by itself, yet when nothing is under way they
\* all show the same edits, and the text of the version once: before a reset every
\* edit gets to every room, from its start on no room publishes or applies any
\* (enterRestoreBarrier), and a room deletes all it shows when it inserts the text
\* (resetToTarget).  Versions may be missing, barriers unpublished and coordinators
\* dead; a room that they leave behind a barrier is not quiescent.
THEOREM RoomsShowOneText == Spec => []SameText
<1>1. TypeOK /\ ContentInv => SameText
  <2> SUFFICES ASSUME TypeOK, ContentInv, Plain, Quiescent,
                      NEW i \in Instances, NEW j \in Instances, warm[i], warm[j]
               PROVE  Text(doc[i]) = Text(doc[j]) /\ Text(doc[i]).texts = 1
    BY DEF SameText, Plain
  <2>1. ShowInv /\ SameInv
    BY DEF ContentInv, Calm, Plain
  <2>2. /\ Text(doc[i]) = [edits |-> IF Over THEN {} ELSE Typed, texts |-> 1]
        /\ Text(doc[j]) = [edits |-> IF Over THEN {} ELSE Typed, texts |-> 1]
    BY <2>1, QuietText
  <2> QED
    BY <2>2
<1> QED
  BY <1>1, TypeInit, TypeStep, ContentInit, ContentStep, PTL DEF Spec

-----------------------------------------------------------------------------
(* Barriers end. *)

\* A step after which every frame is still in its place: what it publishes, and the
\* barriers it puts up and takes down.
LEMMA EndSent ==
  ASSUME TypeOK, TypeOK', EndInv,
         \A i \in Instances : warm[i] => warm'[i],
         \A i \in Instances : \A n \in DOMAIN inbox[i] : n \in DOMAIN inbox'[i] /\ inbox'[i][n] = inbox[i][n],
         \A i \in Instances : \A n \in DOMAIN inbox'[i] \ DOMAIN inbox[i] : \A r \in Restores :
           inbox'[i][n] = PrepareOf(r) => warm'[i] /\ i # At[r] /\ ToTell(r, i)',
         \A i \in Instances : \A r \in Restores : ToTell(r, i) =>
           \/ ToTell(r, i)'
           \/ i = At[r] /\ barrier'[i] # r
           \/ warm[i] => \E m \in DOMAIN inbox'[i] \ DOMAIN inbox[i] :
                           /\ Closes(inbox'[i][m]) /\ inbox'[i][m].rid = r
                           /\ \A n \in DOMAIN inbox[i] : n < m,
         \A i \in Instances : \A r \in Restores :
           barrier'[i] = r => barrier[i] = r \/ (warm'[i] /\ ToTell(r, i)'),
         \A r \in Restores : phase'[r] = "flush" => phase[r] = "flush" \/ warm'[At[r]]
  PROVE  EndInv'
<1> DEFINE EndOf(r, i, n) == ToTell(r, i) \/ Told(r, i, n)
<1>1. ASSUME NEW i \in Instances, NEW r \in Restores, NEW n, Told(r, i, n) PROVE Told(r, i, n)'
  <2>1. PICK m \in DOMAIN inbox[i] : m > n /\ Closes(inbox[i][m]) /\ inbox[i][m].rid = r
    BY <1>1 DEF Told
  <2>2. m \in DOMAIN inbox'[i] /\ inbox'[i][m] = inbox[i][m]
    OBVIOUS
  <2>3. Closes(inbox'[i][m])
    BY <2>1, <2>2
  <2> QED
    BY <2>1, <2>2, <2>3 DEF Told, Closes
<1>2. ASSUME NEW i \in Instances, NEW r \in Restores, NEW n \in DOMAIN inbox[i] \cup {0}, warm[i],
             EndOf(r, i, n), i # At[r] \/ barrier'[i] = r
      PROVE  EndOf(r, i, n)'
  <2>1. CASE Told(r, i, n)
    BY <1>1, <2>1
  <2>2. CASE ToTell(r, i) /\ ~ToTell(r, i)'
    <3>1. PICK m \in DOMAIN inbox'[i] \ DOMAIN inbox[i] :
            /\ Closes(inbox'[i][m]) /\ inbox'[i][m].rid = r
            /\ \A k \in DOMAIN inbox[i] : k < m
      BY <1>2, <2>2
    <3>2. inbox'[i] \in Seq(Frames)
      BY DEF TypeOK
    <3>3. m \in Nat /\ m > 0
      BY <3>2
    <3>4. m > n
      BY <3>1, <3>3
    <3> QED
      BY <3>1, <3>4 DEF Told, Closes
  <2> QED
    BY <1>2, <2>1, <2>2
<1>3. \A r \in Restores : phase'[r] = "flush" => warm'[At[r]]
  BY AtAssumption DEF EndInv
<1>4. ASSUME NEW i \in Instances, NEW r \in Restores, barrier'[i] = r
      PROVE  warm'[i] /\ EndOf(r, i, 0)'
  <2>1. CASE barrier[i] = r
    <3>1. warm[i] /\ EndOf(r, i, 0)
      BY <2>1 DEF EndInv
    <3> QED
      BY <1>2, <1>4, <3>1
  <2>2. CASE warm'[i] /\ ToTell(r, i)'
    BY <2>2
  <2> QED
    BY <1>4, <2>1, <2>2
<1>5. ASSUME NEW i \in Instances, NEW n \in DOMAIN inbox'[i], NEW r \in Restores, inbox'[i][n] = PrepareOf(r)
      PROVE  warm'[i] /\ i # At[r] /\ EndOf(r, i, n)'
  <2>1. CASE n \in DOMAIN inbox[i]
    <3>1. inbox[i][n] = PrepareOf(r)
      BY <1>5, <2>1
    <3>2. warm[i] /\ i # At[r] /\ EndOf(r, i, n)
      BY <2>1, <3>1 DEF EndInv
    <3>3. EndOf(r, i, n)'
      BY <1>2, <2>1, <3>2
    <3> QED
      BY <3>2, <3>3
  <2>2. CASE n \notin DOMAIN inbox[i]
    BY <1>5, <2>2
  <2> QED
    BY <2>1, <2>2
<1> QED
  BY <1>3, <1>4, <1>5 DEF EndInv, PrepareOf

\* A room takes its first frame: it obeys one that ends its barrier.
LEMMA EndTaken ==
  ASSUME TypeOK, EndInv, NEW i \in Instances, inbox[i] # <<>>, UNCHANGED <<warm, phase>>,
         \A j \in Instances : \A n \in DOMAIN Take(i)[j] :
           n \in DOMAIN inbox'[j] /\ inbox'[j][n] = Take(i)[j][n],
         \A j \in Instances : \A n \in DOMAIN inbox'[j] \ DOMAIN Take(i)[j] : \A r \in Restores :
           inbox'[j][n] # PrepareOf(r),
         \A j \in Instances : \A r \in Restores : barrier'[j] = r =>
           \/ barrier[j] = r
           \/ j = i /\ inbox[i][1] = PrepareOf(r),
         Closes(inbox[i][1]) => barrier'[i] # inbox[i][1].rid
  PROVE  EndInv'
<1>1. /\ 1 \in DOMAIN inbox[i] /\ inbox[i][1] \in Frames
      /\ \A j \in Instances : j # i => Take(i)[j] = inbox[j]
      /\ \A n \in DOMAIN Take(i)[i] : n + 1 \in DOMAIN inbox[i] /\ Take(i)[i][n] = inbox[i][n + 1]
      /\ \A n \in DOMAIN inbox[i] : n > 1 => n - 1 \in DOMAIN Take(i)[i] /\ Take(i)[i][n - 1] = inbox[i][n]
  BY Taken
<1>2. ASSUME NEW j \in Instances, NEW r \in Restores PROVE ToTell(r, j)' <=> ToTell(r, j)
  BY DEF ToTell
\* The frames after the first, one place further on.
<1>3. ASSUME NEW r \in Restores, NEW n \in Nat, Told(r, i, n + 1) PROVE Told(r, i, n)'
  <2>1. PICK m \in DOMAIN inbox[i] : m > n + 1 /\ Closes(inbox[i][m]) /\ inbox[i][m].rid = r
    BY <1>3 DEF Told
  <2>2. m \in Nat
    BY Indices
  <2>3. m > 1 /\ m - 1 > n
    BY <2>1, <2>2
  <2>4. m - 1 \in DOMAIN inbox'[i] /\ inbox'[i][m - 1] = inbox[i][m]
    BY <1>1, <2>3
  <2> QED
    BY <2>1, <2>3, <2>4 DEF Told, Closes
<1>4. ASSUME NEW j \in Instances, j # i, NEW r \in Restores, NEW n, Told(r, j, n) PROVE Told(r, j, n)'
  <2>1. PICK m \in DOMAIN inbox[j] : m > n /\ Closes(inbox[j][m]) /\ inbox[j][m].rid = r
    BY <1>4 DEF Told
  <2>2. m \in DOMAIN inbox'[j] /\ inbox'[j][m] = inbox[j][m]
    BY <1>1, <1>4
  <2> QED
    BY <2>1, <2>2 DEF Told, Closes
<1>5. \A r \in Restores : phase'[r] = "flush" => warm'[At[r]]
  BY DEF EndInv
<1>6. ASSUME NEW j \in Instances, NEW r \in Restores, barrier'[j] = r
      PROVE  warm'[j] /\ (ToTell(r, j)' \/ Told(r, j, 0)')
  <2>1. CASE j = i /\ inbox[i][1] = PrepareOf(r)
    <3>1. warm[i] /\ (ToTell(r, i) \/ Told(r, i, 1))
      BY <1>1, <2>1 DEF EndInv
    <3>2. Told(r, i, 0 + 1) => Told(r, i, 0)'
      BY <1>3
    <3> QED
      BY <1>2, <2>1, <3>1, <3>2
  <2>2. CASE barrier[j] = r
    <3>1. warm[j] /\ (ToTell(r, j) \/ Told(r, j, 0))
      BY <2>2 DEF EndInv
    <3>2. CASE j = i /\ Told(r, i, 0)
      <4>1. PICK m \in DOMAIN inbox[i] : m > 0 /\ Closes(inbox[i][m]) /\ inbox[i][m].rid = r
        BY <3>2 DEF Told
      <4>2. m \in Nat /\ m # 1
        BY <1>6, <3>2, <4>1, Indices
      <4>3. m > 0 + 1
        BY <4>1, <4>2
      <4>4. Told(r, i, 0 + 1)
        BY <4>1, <4>3 DEF Told
      <4>5. Told(r, i, 0)'
        BY <1>3, <4>4
      <4> QED
        BY <3>1, <3>2, <4>5
    <3>3. CASE j # i /\ Told(r, j, 0)
      BY <1>4, <3>1, <3>3
    <3> QED
      BY <1>2, <3>1, <3>2, <3>3
  <2> QED
    BY <1>6, <2>1, <2>2
<1>7. ASSUME NEW j \in Instances, NEW n \in DOMAIN inbox'[j], NEW r \in Restores, inbox'[j][n] = PrepareOf(r)
      PROVE  warm'[j] /\ j # At[r] /\ (ToTell(r, j)' \/ Told(r, j, n)')
  <2>1. n \in DOMAIN Take(i)[j] /\ Take(i)[j][n] = PrepareOf(r)
    BY <1>7
  <2>2. CASE j = i
    <3>1. n + 1 \in DOMAIN inbox[i] /\ inbox[i][n + 1] = PrepareOf(r)
      BY <1>1, <2>1, <2>2
    <3>2. n \in Nat
      <4>1. Take(i)[i] \in Seq(Frames)
        BY TakeType DEF TypeOK
      <4> QED
        BY <2>1, <2>2, <4>1
    <3>3. warm[i] /\ i # At[r] /\ (ToTell(r, i) \/ Told(r, i, n + 1))
      BY <3>1 DEF EndInv
    <3> QED
      BY <1>2, <1>3, <2>2, <3>2, <3>3
  <2>3. CASE j # i
    <3>1. n \in DOMAIN inbox[j] /\ inbox[j][n] = PrepareOf(r)
      BY <1>1, <2>1, <2>3
    <3>2. warm[j] /\ j # At[r] /\ (ToTell(r, j) \/ Told(r, j, n))
      BY <3>1 DEF EndInv
    <3> QED
      BY <1>2, <1>4, <2>3, <3>2
  <2> QED
    BY <2>2, <2>3
<1> QED
  BY <1>5, <1>6, <1>7 DEF EndInv, PrepareOf

\* Frames stay in their places when one is published, and it comes last.
LEMMA SentLast ==
  ASSUME TypeOK, NEW i \in Instances, NEW f, inbox' = Published(inbox, i, f)
  PROVE  /\ \A j \in Instances : \A n \in DOMAIN inbox[j] : n \in DOMAIN inbox'[j] /\ inbox'[j][n] = inbox[j][n]
         /\ \A j \in Instances : \A n \in DOMAIN inbox'[j] \ DOMAIN inbox[j] :
              j # i /\ warm[j] /\ inbox'[j][n] = f
         /\ \A j \in Instances : j # i /\ warm[j] =>
              \E m \in DOMAIN inbox'[j] \ DOMAIN inbox[j] :
                inbox'[j][m] = f /\ \A n \in DOMAIN inbox[j] : n < m
<1> DEFINE box == Published(inbox, i, f)
<1>1. inbox' = box
  OBVIOUS
<1>2. \A j \in Instances :
        /\ \A n \in DOMAIN inbox[j] : n \in DOMAIN box[j] /\ box[j][n] = inbox[j][n]
        /\ j # i /\ warm[j] => Len(inbox[j]) + 1 \in DOMAIN box[j] /\ box[j][Len(inbox[j]) + 1] = f
        /\ \A n \in DOMAIN box[j] :
             n \in DOMAIN inbox[j] \/ (j # i /\ warm[j] /\ box[j][n] = f)
  BY Sent
<1> HIDE DEF box
<1>3. ASSUME NEW j \in Instances
      PROVE  Len(inbox[j]) + 1 \notin DOMAIN inbox[j] /\ \A n \in DOMAIN inbox[j] : n < Len(inbox[j]) + 1
  <2>1. inbox[j] \in Seq(Frames)
    BY DEF TypeOK
  <2> QED
    BY <2>1
<1> QED
  BY <1>1, <1>2, <1>3

\* A step of a coordinator: it puts its own barrier up, goes on with that, or takes it down
\* and tells the others.
LEMMA EndMoves ==
  ASSUME TypeOK, TypeOK', EndInv, NEW r \in Restores, NEW p, Goto(r, p),
         NEW f, inbox' = inbox \/ inbox' = Published(inbox, At[r], f),
         \A s \in Restores : f = PrepareOf(s) => s = r /\ p = "settle",
         \A i \in Instances : warm[i] => warm'[i],
         p = "flush" => warm'[At[r]],
         \A i \in Instances : \A s \in Restores : barrier'[i] = s =>
           barrier[i] = s \/ (i = At[r] /\ s = r /\ p = "prepare" /\ warm'[i]),
         ToTell(r, At[r]) => p \in {"prepare", "settle", "row", "snapshot"} \/ barrier'[At[r]] # r,
         \A i \in Instances : i # At[r] /\ ToTell(r, i) =>
           \/ p \in {"prepare", "settle", "row", "snapshot", "commit"}
           \/ inbox' = Published(inbox, At[r], f) /\ Closes(f) /\ f.rid = r
  PROVE  EndInv'
<1>1. At[r] \in Instances
  BY AtAssumption
<1>2. phase'[r] = p /\ \A s \in Restores : s # r => phase'[s] = phase[s]
  BY DEF Goto, TypeOK
<1>3. \A i \in Instances : \A s \in Restores \ {r} : ToTell(s, i) => ToTell(s, i)'
  BY <1>2 DEF ToTell
<1>4. \A i \in Instances : \A n \in DOMAIN inbox[i] : n \in DOMAIN inbox'[i] /\ inbox'[i][n] = inbox[i][n]
  BY <1>1, SentLast
<1>5. \A i \in Instances : \A n \in DOMAIN inbox'[i] \ DOMAIN inbox[i] :
        i # At[r] /\ warm[i] /\ inbox'[i][n] = f
  BY <1>1, SentLast
<1>6. \A i \in Instances : ToTell(r, i) =>
        \/ ToTell(r, i)'
        \/ i = At[r] /\ barrier'[i] # r
        \/ warm[i] => \E m \in DOMAIN inbox'[i] \ DOMAIN inbox[i] :
                        /\ Closes(inbox'[i][m]) /\ inbox'[i][m].rid = r
                        /\ \A n \in DOMAIN inbox[i] : n < m
  <2> SUFFICES ASSUME NEW i \in Instances, ToTell(r, i), ~ToTell(r, i)', ~(i = At[r] /\ barrier'[i] # r), warm[i]
               PROVE  \E m \in DOMAIN inbox'[i] \ DOMAIN inbox[i] :
                        /\ Closes(inbox'[i][m]) /\ inbox'[i][m].rid = r
                        /\ \A n \in DOMAIN inbox[i] : n < m
    OBVIOUS
  <2>1. p \notin {"prepare", "settle", "row", "snapshot"} /\ (i # At[r] => p # "commit")
    BY <1>2 DEF ToTell
  <2>2. i # At[r]
    BY <2>1
  <2>3. inbox' = Published(inbox, At[r], f) /\ Closes(f) /\ f.rid = r
    BY <2>1, <2>2
  <2>4. PICK m \in DOMAIN inbox'[i] \ DOMAIN inbox[i] : inbox'[i][m] = f /\ \A n \in DOMAIN inbox[i] : n < m
    BY <1>1, <2>2, <2>3, SentLast
  <2>5. Closes(inbox'[i][m]) /\ inbox'[i][m].rid = r
    BY <2>3, <2>4
  <2> QED
    BY <2>4, <2>5
<1>7. \A i \in Instances : \A n \in DOMAIN inbox'[i] \ DOMAIN inbox[i] : \A s \in Restores :
        inbox'[i][n] = PrepareOf(s) => warm'[i] /\ i # At[s] /\ ToTell(s, i)'
  BY <1>2, <1>5 DEF ToTell
<1>8. \A i \in Instances : \A s \in Restores : barrier'[i] = s => barrier[i] = s \/ (warm'[i] /\ ToTell(s, i)')
  BY <1>2 DEF ToTell
<1>9. \A s \in Restores : phase'[s] = "flush" => phase[s] = "flush" \/ warm'[At[s]]
  BY <1>2
<1>10. \A i \in Instances : \A s \in Restores : ToTell(s, i) =>
        \/ ToTell(s, i)'
        \/ i = At[s] /\ barrier'[i] # s
        \/ warm[i] => \E m \in DOMAIN inbox'[i] \ DOMAIN inbox[i] :
                        /\ Closes(inbox'[i][m]) /\ inbox'[i][m].rid = s
                        /\ \A n \in DOMAIN inbox[i] : n < m
  BY <1>3, <1>6
<1> QED
  BY <1>4, <1>7, <1>8, <1>9, <1>10, EndSent

\* A step of a room or a client.
LEMMA EndOfRoomSteps ==
  ASSUME TypeOK, TypeOK', EndInv, NEW i \in Instances, Rooms(i) \/ Clients(i)
  PROVE  EndInv'
<1> USE DEF store, queue, gate, coord, history
<1> DEFINE Opens == warm' = [warm EXCEPT ![i] = TRUE]
\* Nothing of restores is published, and no barrier changes.
<1>1. ASSUME UNCHANGED <<barrier, phase>>, UNCHANGED warm \/ Opens,
             NEW f, inbox' = Published(inbox, i, f), \A r \in Restores : f # PrepareOf(r)
      PROVE  EndInv'
  <2>1. /\ \A j \in Instances : \A n \in DOMAIN inbox[j] : n \in DOMAIN inbox'[j] /\ inbox'[j][n] = inbox[j][n]
        /\ \A j \in Instances : \A n \in DOMAIN inbox'[j] \ DOMAIN inbox[j] : inbox'[j][n] = f
    BY <1>1, SentLast
  <2>2. \A j \in Instances : warm[j] => warm'[j]
    BY <1>1 DEF TypeOK
  <2>3. \A j \in Instances : \A r \in Restores : ToTell(r, j) => ToTell(r, j)'
    BY <1>1 DEF ToTell
  <2>4. \A j \in Instances : \A n \in DOMAIN inbox'[j] \ DOMAIN inbox[j] : \A r \in Restores :
          inbox'[j][n] # PrepareOf(r)
    BY <1>1, <2>1
  <2> QED
    BY <1>1, <2>1, <2>2, <2>3, <2>4, EndSent
\* The room takes a frame.
<1>2. ASSUME UNCHANGED <<warm, phase>>, inbox[i] # <<>>, inbox' = Take(i),
             \A j \in Instances : \A r \in Restores : barrier'[j] = r =>
               barrier[j] = r \/ (j = i /\ inbox[i][1] = PrepareOf(r)),
             Closes(inbox[i][1]) => barrier'[i] # inbox[i][1].rid
      PROVE  EndInv'
  BY <1>2, EndTaken
<1>3. ASSUME inbox[i] # <<>>
      PROVE  Head(inbox[i]) = inbox[i][1] /\ inbox[i][1] \in Frames
  BY <1>3, Taken
<1>4. CASE PublishReply(i) \/ \E e \in Edits : Type(i, e)
  BY <1>4 DEF PublishReply, Type, EndInv, ToTell, Told
<1>5. CASE Publish(i)
  <2>1. PICK f : f = [kind |-> "update", edit |-> Head(pending[i])]
    OBVIOUS
  <2>2. \A r \in Restores : f # PrepareOf(r)
    BY <2>1 DEF PrepareOf
  <2> QED
    BY <1>1, <1>5, <2>1, <2>2 DEF Publish
<1>6. CASE Join(i)
  <2>1. PICK f : f = [kind |-> "ask", from |-> i]
    OBVIOUS
  <2>2. \A r \in Restores : f # PrepareOf(r)
    BY <2>1 DEF PrepareOf
  <2> QED
    BY <1>1, <1>6, <2>1, <2>2 DEF Join, Opened
<1>7. CASE OnUpdate(i) \/ OnState(i)
  <2>1. ~Closes(inbox[i][1])
    BY <1>3, <1>7 DEF OnUpdate, OnState, Receive, Closes
  <2> QED
    BY <1>2, <1>7, <2>1 DEF OnUpdate, OnState, Receive
<1>8. CASE OnAsk(i)
  <2>1. PICK j : j = Head(inbox[i]).from
    OBVIOUS
  <2>2. PICK f : f = [kind |-> "state", state |-> doc[i]]
    OBVIOUS
  <2>3. inbox[i] # <<>> /\ inbox' = [Take(i) EXCEPT ![j] = Append(@, f)] /\ UNCHANGED <<warm, phase, barrier>>
    BY <1>8, <2>1, <2>2 DEF OnAsk, Receive
  <2>4. ~Closes(inbox[i][1])
    BY <1>3, <1>8 DEF OnAsk, Receive, Closes
  <2>5. Take(i) \in [Instances -> Seq(Frames)]
    BY <2>3, TakeType DEF TypeOK
  <2>6. ASSUME NEW s \in Seq(Frames)
        PROVE  /\ \A n \in DOMAIN s : n \in DOMAIN Append(s, f) /\ Append(s, f)[n] = s[n]
               /\ \A n \in DOMAIN Append(s, f) : n \in DOMAIN s \/ Append(s, f)[n] = f
    OBVIOUS
  <2>7. \A k \in Instances : inbox'[k] = Take(i)[k] \/ inbox'[k] = Append(Take(i)[k], f)
    BY <2>3, <2>5
  <2>8. \A k \in Instances :
          /\ \A n \in DOMAIN Take(i)[k] : n \in DOMAIN inbox'[k] /\ inbox'[k][n] = Take(i)[k][n]
          /\ \A n \in DOMAIN inbox'[k] \ DOMAIN Take(i)[k] : inbox'[k][n] = f
    <3> TAKE k \in Instances
    <3>1. Take(i)[k] \in Seq(Frames)
      BY <2>5
    <3> QED
      BY <2>6, <2>7, <3>1
  <2>9. \A r \in Restores : f # PrepareOf(r)
    BY <2>2 DEF PrepareOf
  <2>10. \A k \in Instances : \A n \in DOMAIN inbox'[k] \ DOMAIN Take(i)[k] : \A r \in Restores :
           inbox'[k][n] # PrepareOf(r)
    BY <2>8, <2>9
  <2> QED
    BY <2>3, <2>4, <2>8, <2>10, EndTaken
<1>9. CASE OnPrepare(i)
  <2>1. inbox[i] # <<>> /\ inbox[i][1].kind = "prepare" /\ Enter(i, inbox[i][1].rid) /\ inbox' = Take(i)
    BY <1>3, <1>9 DEF OnPrepare, Receive
  <2>2. PICK s \in Restores : inbox[i][1] = PrepareOf(s)
    BY <1>3, <2>1, FrameFields DEF PrepareOf
  <2>3. inbox[i][1].rid = s /\ ~Closes(inbox[i][1])
    BY <2>2 DEF PrepareOf, Closes
  <2>4. barrier' = [barrier EXCEPT ![i] = s]
    BY <2>1, <2>3 DEF Enter
  <2>5. \A j \in Instances : \A r \in Restores : barrier'[j] = r =>
          barrier[j] = r \/ (j = i /\ inbox[i][1] = PrepareOf(r))
    BY <2>2, <2>4 DEF TypeOK
  <2> QED
    BY <1>2, <1>9, <2>1, <2>3, <2>5 DEF OnPrepare
<1>10. CASE OnCommit(i) \/ OnAbort(i)
  <2>1. inbox[i] # <<>> /\ inbox' = Take(i) /\ Closes(inbox[i][1])
    BY <1>3, <1>10 DEF OnCommit, OnAbort, Receive, Closes
  <2>2. PICK s \in Restores : s = inbox[i][1].rid
    BY <1>3, <2>1, FrameFields DEF Closes
  <2>3. Leave(i, s) \/ Abort(i, s)
    BY <1>3, <1>10, <2>1, <2>2 DEF OnCommit, OnAbort
  <2>4. barrier'[i] # s /\ \A j \in Instances : barrier'[j] = barrier[j] \/ barrier'[j] = None
    BY <2>3, NoneAssumption DEF Leave, Abort, TypeOK
  <2>5. \A j \in Instances : \A r \in Restores : barrier'[j] = r => barrier[j] = r
    BY <2>4, NoneAssumption
  <2> QED
    BY <1>2, <1>10, <2>1, <2>2, <2>4, <2>5 DEF OnCommit, OnAbort
<1> QED
  BY <1>4, <1>5, <1>6, <1>7, <1>8, <1>9, <1>10 DEF Rooms, Clients

\* A step of a restore.
LEMMA EndOfRestoreSteps ==
  ASSUME TypeOK, TypeOK', EndInv, {"prepareFails", "crash"} \cap env = {},
         NEW r \in Restores, Lock(r) \/ Coordinator(r) \/ Faults(r)
  PROVE  EndInv'
<1> USE DEF store, queue, gate, coord, history
<1> DEFINE Active == {"prepare", "settle", "row", "snapshot"}
<1>1. At[r] \in Instances /\ None \notin Restores
  BY AtAssumption, NoneAssumption
\* It moves on by itself.
<1>3. ASSUME NEW p, Goto(r, p), UNCHANGED <<inbox, warm>>,
             \A i \in Instances : \A s \in Restores : barrier'[i] = s => barrier[i] = s,
             p # "flush", ToTell(r, At[r]) => p \in Active \/ barrier'[At[r]] # r,
             \A i \in Instances : i # At[r] /\ ToTell(r, i) => p \in Active \cup {"commit"}
      PROVE  EndInv'
  <2>1. phase'[r] = p /\ \A s \in Restores : s # r => phase'[s] = phase[s]
    BY <1>3 DEF Goto, TypeOK
  <2>2. \A i \in Instances : \A s \in Restores : ToTell(s, i) => ToTell(s, i)' \/ (i = At[s] /\ barrier'[i] # s)
    BY <1>3, <2>1 DEF ToTell
  <2>3. \A s \in Restores : phase'[s] = "flush" => phase[s] = "flush"
    BY <1>3, <2>1
  <2> QED
    BY <1>3, <2>2, <2>3 DEF EndInv, Told
<1>4. CASE Lock(r) \/ VersionMissing(r) \/ Release(r)
  <2>1. PICK p : p # "flush" /\ Goto(r, p)
    BY <1>4 DEF Lock, VersionMissing, Release
  <2>2. \A i \in Instances : ~ToTell(r, i)
    BY <1>4 DEF Lock, VersionMissing, Release, ToTell
  <2> QED
    BY <1>1, <1>3, <1>4, <2>1, <2>2 DEF Lock, VersionMissing, Release
<1>5. CASE Settle(r) \/ RowOk(r)
  <2>1. PICK p \in Active : p # "flush" /\ Goto(r, p)
    BY <1>5 DEF Settle, RowOk
  <2> QED
    BY <1>3, <1>5, <2>1 DEF Settle, RowOk
<1>6. CASE SnapshotOk(r)
  <2>1. barrier'[At[r]] # r /\ \A j \in Instances : barrier'[j] = barrier[j] \/ barrier'[j] = None
    BY <1>1, <1>6 DEF SnapshotOk, Leave, TypeOK
  <2>2. \A i \in Instances : \A s \in Restores : barrier'[i] = s => barrier[i] = s
    BY <1>1, <2>1
  <2> QED
    BY <1>3, <1>6, <2>1, <2>2 DEF SnapshotOk
\* Its barrier goes up.
<1>7. ASSUME Begin(r), (UNCHANGED warm /\ UNCHANGED inbox) \/ Opened(At[r]), warm'[At[r]], phase[r] \in {"read", "flush"}
      PROVE  EndInv'
  <2>1. Goto(r, "prepare") /\ barrier' = [barrier EXCEPT ![At[r]] = r]
    BY <1>7 DEF Begin, Enter
  <2>2. \A i \in Instances : ~ToTell(r, i)
    BY <1>7 DEF ToTell
  <2>3. \A i \in Instances : warm[i] => warm'[i]
    BY <1>7 DEF Opened, TypeOK
  <2>4. \A i \in Instances : \A s \in Restores : barrier'[i] = s =>
          barrier[i] = s \/ (i = At[r] /\ s = r /\ warm'[i])
    BY <1>1, <1>7, <2>1 DEF TypeOK
  <2>5. PICK f : f = [kind |-> "ask", from |-> At[r]]
    OBVIOUS
  <2>6. \A s \in Restores : f # PrepareOf(s)
    BY <2>5 DEF PrepareOf
  <2>7. inbox' = inbox \/ inbox' = Published(inbox, At[r], f)
    BY <1>7, <2>5 DEF Opened
  <2> HIDE DEF Opened
  <2> QED
    BY <1>1, <2>1, <2>2, <2>3, <2>4, <2>6, <2>7, EndMoves
<1>8. CASE Flushed(r)
  <2>1. warm[At[r]]
    BY <1>8 DEF Flushed, EndInv
  <2> QED
    BY <1>7, <1>8, <2>1 DEF Flushed
<1>9. CASE Read(r)
  <2>1. (UNCHANGED warm /\ UNCHANGED inbox) \/ Opened(At[r])
    BY <1>9 DEF Read
  <2>2. warm'[At[r]] /\ \A i \in Instances : warm[i] => warm'[i]
    BY <1>1, <1>9 DEF Read, Opened, TypeOK
  <2>3. CASE Begin(r)
    BY <1>7, <1>9, <2>1, <2>2, <2>3 DEF Read
  <2>4. CASE UNCHANGED barrier /\ (Goto(r, "release") \/ Goto(r, "flush"))
    <3>1. PICK p \in {"release", "flush"} : Goto(r, p)
      BY <2>4
    <3>2. \A i \in Instances : ~ToTell(r, i)
      BY <1>9 DEF Read, ToTell
    <3>3. PICK f : f = [kind |-> "ask", from |-> At[r]]
      OBVIOUS
    <3>4. \A s \in Restores : f # PrepareOf(s)
      BY <3>3 DEF PrepareOf
    <3>5. inbox' = inbox \/ inbox' = Published(inbox, At[r], f)
      BY <2>1, <3>3 DEF Opened
    <3>6. \A i \in Instances : \A s \in Restores : barrier'[i] = s => barrier[i] = s
      BY <2>4
    <3>7. ~ToTell(r, At[r]) /\ warm'[At[r]]
      BY <1>1, <2>2, <3>2
    <3>8. \A s \in Restores : f = PrepareOf(s) => s = r /\ p = "settle"
      BY <3>4
    <3> HIDE DEF Active
    <3> QED
      BY <2>2, <3>1, <3>2, <3>5, <3>6, <3>7, <3>8, EndMoves
  <2> QED
    BY <1>9, <2>3, <2>4 DEF Read
<1>10. CASE PrepareOk(r)
  <2>1. inbox' = Published(inbox, At[r], PrepareOf(r)) /\ Goto(r, "settle") /\ UNCHANGED <<warm, barrier>>
    BY <1>10 DEF PrepareOk, PrepareOf
  <2>2. \A s \in Restores : PrepareOf(r) = PrepareOf(s) => s = r
    BY DEF PrepareOf
  <2> QED
    BY <2>1, <2>2, EndMoves
\* It ends, and the others are told.
<1>11. ASSUME NEW p, p \notin {"flush", "prepare"}, Goto(r, p), NEW f, inbox' = Published(inbox, At[r], f), Closes(f), f.rid = r,
              UNCHANGED warm, \A i \in Instances : \A s \in Restores : barrier'[i] = s => barrier[i] = s,
              ToTell(r, At[r]) => barrier'[At[r]] # r
       PROVE  EndInv'
  <2>1. \A s \in Restores : f # PrepareOf(s)
    BY <1>11 DEF PrepareOf, Closes
  <2> QED
    BY <1>11, <2>1, EndMoves
<1>12. CASE CommitOk(r) \/ CommitFails(r)
  <2>1. PICK k \in {"commit", "abort"} : inbox' = Published(inbox, At[r], [kind |-> k, rid |-> r])
    BY <1>12 DEF CommitOk, CommitFails
  <2>2. PICK f : f = [kind |-> k, rid |-> r]
    OBVIOUS
  <2>3. Closes(f) /\ f.rid = r
    BY <2>2 DEF Closes
  <2>4. PICK p : p \notin {"flush", "prepare"} /\ Goto(r, p)
    BY <1>12 DEF CommitOk, CommitFails
  <2>5. ~ToTell(r, At[r])
    BY <1>12 DEF CommitOk, CommitFails, ToTell
  <2> QED
    BY <1>11, <1>12, <2>1, <2>2, <2>3, <2>4, <2>5 DEF CommitOk, CommitFails
<1>13. CASE PersistFails(r)
  <2>1. PICK f : f = [kind |-> "abort", rid |-> r]
    OBVIOUS
  <2>2. Closes(f) /\ f.rid = r
    BY <2>1 DEF Closes
  <2>3. Abort(At[r], r) /\ inbox' = Published(inbox, At[r], f) /\ Goto(r, "abort") /\ UNCHANGED warm
    BY <1>13, <2>1 DEF PersistFails, GiveUp
  <2>4. barrier'[At[r]] # r /\ \A j \in Instances : barrier'[j] = barrier[j] \/ barrier'[j] = None
    BY <1>1, <2>3 DEF Abort, TypeOK
  <2>5. \A i \in Instances : \A s \in Restores : barrier'[i] = s => barrier[i] = s
    BY <1>1, <2>4
  <2> QED
    BY <1>11, <2>2, <2>3, <2>4, <2>5
<1>14. ~PrepareFails(r) /\ ~Crash(r)
  BY DEF PrepareFails, Crash
<1> QED
  BY <1>4, <1>5, <1>6, <1>8, <1>9, <1>10, <1>12, <1>13, <1>14 DEF Coordinator, Faults

LEMMA EndStep ==
  ASSUME TypeOK, EndInv, {"prepareFails", "crash"} \cap env = {}, [Next]_vars
  PROVE  EndInv'
<1>1. TypeOK'
  BY TypeStep
<1>2. CASE FlushStart \/ FlushEnd \/ LockExpires \/ UNCHANGED vars
  <2>1. UNCHANGED <<warm, inbox, barrier, phase>>
    BY <1>2 DEF FlushStart, FlushEnd, LockExpires, vars, gate, coord
  <2> QED
    BY <2>1 DEF EndInv, ToTell, Told
<1> QED
  BY <1>1, <1>2, EndOfRoomSteps, EndOfRestoreSteps DEF Next

\* At any moment a room that is behind a barrier will hear how its restore ends, whatever
\* is typed, however many restores overlap, rooms are opened and calls fail, but for a
\* rejected prepare and a dead coordinator (restoreFileVersion, abortRestoreBarrier).
THEOREM BarriersHaveAnEnd == Spec => []BarrierHasEnd
<1> DEFINE Sure == {"prepareFails", "crash"} \cap env = {}
<1>1. Init => TypeOK /\ (Sure => EndInv)
  BY TypeInit, NoneAssumption DEF Init, EndInv
<1>2. TypeOK /\ (Sure => EndInv) /\ [Next]_vars => TypeOK' /\ (Sure => EndInv)'
  BY TypeStep, EndStep, EnvStays
<1>3. (Sure => EndInv) => BarrierHasEnd
  BY DEF EndInv, BarrierHasEnd
<1> QED
  BY <1>1, <1>2, <1>3, PTL DEF Spec
=============================================================================
