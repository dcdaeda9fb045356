------------------------- MODULE Backplane_proofs -------------------------
(***************************************************************************)
(* Proofs about Backplane, for every set of instances and edits and every  *)
(* bound.  What the rooms, the queues and the frames hold; a follower that *)
(* hears what its leader has stored drops no edit that it was not told of. *)
(* Two instances never write at the same time, as long as no lease runs    *)
(* out inside a tick of its holder, Redis answers the lease calls and      *)
(* nobody is asked to stop.  And where frames arrive besides, an accepted  *)
(* edit is stored or kept by somebody who will write it, and the snapshot  *)
(* of one backend includes the rows of the others (StoreInv, of            *)
(* BackplaneInvariant, is inductive).                                      *)
(***************************************************************************)
EXTENDS BackplaneInvariant, FiniteSetTheorems, SequenceTheorems, WellFoundedInduction, TLAPS

(***************************************************************************)
(* Largest and smallest members                                            *)
(***************************************************************************)

LEMMA Smallest ==
  ASSUME NEW T, T \subseteq Nat, T # {} PROVE \E x \in T : \A y \in T : x <= y
<1>0. {p \in Nat \X Nat : p[1] < p[2]} = OpToRel(<, Nat)
  BY DEF OpToRel
<1> DEFINE R == {p \in Nat \X Nat : p[1] < p[2]}
<1>1. PICK x \in T : \A y \in T : ~ (<<y, x>> \in R)
  BY <1>0, NatLessThanWellFounded, WFMin
<1>2. ASSUME NEW y \in T PROVE x <= y
  <2>1. x \in Nat /\ y \in Nat /\ ~(<<y, x>> \in R)
    BY <1>1
  <2> QED
    BY <2>1
<1> QED
  BY <1>2

\* Max yields the largest member.
LEMMA MaxIs ==
  ASSUME NEW S, S \subseteq Nat, NEW b \in Nat, \A x \in S : x <= b, S # {}
  PROVE  Max(S) \in S /\ \A x \in S : x <= Max(S)
<1> DEFINE U == {n \in Nat : \A x \in S : x <= n}
<1>1. PICK m \in U : \A n \in U : m <= n
  BY Smallest
<1>2. m \in S
  <2>1. SUFFICES ASSUME m \notin S PROVE FALSE
    OBVIOUS
  <2>2. \A x \in S : x < m
    BY <1>1, <2>1
  <2>3. m - 1 \in Nat
    <3>1. PICK x \in S : TRUE
      OBVIOUS
    <3> QED
      BY <1>1, <2>2, <3>1
  <2>4. ASSUME NEW x \in S PROVE x <= m - 1
    BY <1>1, <2>2
  <2> QED
    BY <1>1, <2>3, <2>4
<1>3. \E x \in S : \A y \in S : x >= y
  BY <1>1, <1>2
<1> QED
  BY <1>3 DEF Max

(***************************************************************************)
(* The parts of the type invariant                                         *)
(***************************************************************************)

StoreType ==
  /\ env \in Scenarios
  /\ rows \subseteq [id : 1 .. MaxRow, upd : SUBSET Content]
  /\ nextRow \in 1 .. (MaxRow + 1)
  /\ snap \in [upd : SUBSET Content, upTo : 0 .. MaxRow]
  /\ lease \in Instances \cup {Nobody}
InboxType == inbox \in [Instances -> Seq(Frames)]
RoomType ==
  /\ room \in [Instances -> {"none", "loading", "warm"}]
  /\ doc \in [Instances -> SUBSET Content]
FlagType ==
  /\ leader \in [Instances -> BOOLEAN]
  /\ conn \in [Instances -> BOOLEAN]
  /\ awaiting \in [Instances -> BOOLEAN]
CountType ==
  /\ persistedUpTo \in [Instances -> 0 .. MaxRow]
  /\ asks \in [Instances -> 0 .. CatchUps]
  /\ opened \in 0 .. MaxOpen
KeptType ==
  /\ local \in [Instances -> Seq(SUBSET Content)]
  /\ bus \in [Instances -> SUBSET Content]
QueueType ==
  /\ pending \in [Instances -> Seq(Edits)]
  /\ publishing \in [Instances -> BOOLEAN]
WriteType ==
  /\ taken \in [Instances -> [local : Seq(SUBSET Content), bus : SUBSET Content]]
  /\ shot \in [Instances -> SUBSET Content]
PlaceType ==
  /\ pc \in [Instances -> RunPC \cup WaitPC \cup {"idle"}]
  /\ ret \in [Instances -> RunPC \cup {"lease", "capture", "captureLast", "release"}]
HistoryType ==
  /\ acceptedBy \in [Edits -> Instances \cup {Nobody}]
  /\ owed \subseteq Edits
Absent(i) == room[i] = "none" =>
  /\ doc[i] = {} /\ local[i] = <<>> /\ bus[i] = {} /\ pending[i] = <<>> /\ inbox[i] = <<>>
  /\ ~leader[i] /\ ~conn[i] /\ pc[i] = "idle"

\* Only what a compaction waits for is followed by one, and only a queue that
\* holds something is drained.
Places == \A i \in Instances :
  /\ pc[i] \in {"drain", "record"} => ret[i] \notin {"capture", "captureLast"}
  /\ publishing[i] => pending[i] # <<>>

TypeInv == TypeOK /\ Places

LEMMA TypeParts ==
  TypeOK <=> /\ StoreType /\ InboxType /\ RoomType /\ FlagType /\ CountType /\ KeptType
             /\ QueueType /\ WriteType /\ PlaceType /\ HistoryType
             /\ \A i \in Instances : Absent(i)
BY DEF TypeOK, StoreType, InboxType, RoomType, FlagType, CountType, KeptType, QueueType,
       WriteType, PlaceType, HistoryType, Absent

LEMMA TypePartsNext ==
  TypeOK' <=> /\ StoreType' /\ InboxType' /\ RoomType' /\ FlagType' /\ CountType' /\ KeptType'
              /\ QueueType' /\ WriteType' /\ PlaceType' /\ HistoryType'
              /\ \A i \in Instances : Absent(i)'
BY DEF TypeOK, StoreType, InboxType, RoomType, FlagType, CountType, KeptType, QueueType,
       WriteType, PlaceType, HistoryType, Absent


(***************************************************************************)
(* What the operators return                                               *)
(***************************************************************************)

LEMMA VisibleType == ASSUME NEW S, S \subseteq Content PROVE Visible(S) \subseteq Content
BY DEF Visible

LEMMA FramesType ==
  /\ \A f \in Frames : f.upd \subseteq Content /\ f.from \in Instances
  /\ \A S \in SUBSET Content, i \in Instances, k \in {"doc-update", "sync-step2", "persisted"} :
       [kind |-> k, upd |-> S, from |-> i] \in Frames
  /\ \A i \in Instances : [kind |-> "sync-step1", upd |-> {}, from |-> i] \in Frames
BY DEF Frames

LEMMA HeadFrame ==
  ASSUME InboxType, NEW i \in Instances, inbox[i] # <<>>
  PROVE  /\ Head(inbox[i]).upd \subseteq Content /\ Head(inbox[i]).from \in Instances
         /\ Take(i) \in [Instances -> Seq(Frames)]
<1>1. inbox[i] \in Seq(Frames)
  BY DEF InboxType
<1>2. Head(inbox[i]) \in Frames /\ Tail(inbox[i]) \in Seq(Frames)
  BY <1>1, HeadTailProperties
<1> QED
  BY <1>2, FramesType DEF InboxType, Take

LEMMA PublishedType ==
  ASSUME NEW box \in [Instances -> Seq(Frames)], NEW i \in Instances, NEW f \in Frames
  PROVE  Published(box, i, f) \in [Instances -> Seq(Frames)]
<1>1. \A j \in Instances : Append(box[j], f) \in Seq(Frames)
  BY AppendProperties
<1> QED
  BY <1>1 DEF Published

LEMMA SentType ==
  ASSUME NEW box \in [Instances -> Seq(Frames)], NEW i \in Instances, NEW f \in Frames
  PROVE  Sent(box, i, f) \in [Instances -> Seq(Frames)]
<1>1. Append(box[i], f) \in Seq(Frames)
  BY AppendProperties
<1> QED
  BY <1>1 DEF Sent

LEMMA TakenType ==
  ASSUME WriteType, NEW i \in Instances PROVE TakenEdits(i) \subseteq Content
<1>1. taken[i].local \in Seq(SUBSET Content) /\ taken[i].bus \subseteq Content
  BY DEF WriteType
<1>2. Range(taken[i].local) \in SUBSET (SUBSET Content)
  BY <1>1, RangeOfSeq
<1>3. \A x \in Range(taken[i].local) : x \subseteq Content
  BY <1>2
<1>4. UNION Range(taken[i].local) \subseteq Content
  BY <1>3
<1> QED
  BY <1>1, <1>4 DEF TakenEdits

LEMMA ReconstructType == ASSUME StoreType PROVE Reconstruct \subseteq Content
<1>1. snap.upd \subseteq Content /\ \A x \in rows : x.upd \subseteq Content
  BY DEF StoreType
<1> QED
  BY <1>1 DEF Reconstruct, EditsOf

LEMMA RowsLeft ==
  ASSUME StoreType, NEW i \in Instances, CreateOk(i) PROVE nextRow \in 1 .. MaxRow
<1>1. MaxRow \in Nat /\ MaxRow > 0
  BY BoundAssumption
<1>2. LastRow = MaxRow \/ LastRow = 1
  BY DEF LastRow
<1>3. nextRow <= LastRow /\ nextRow \in 1 .. (MaxRow + 1)
  BY DEF CreateOk, StoreType
<1> QED
  BY <1>1, <1>2, <1>3

\* As many entries as are dropped are there, and each prefix of them is covered.
LEMMA CoveredIs ==
  ASSUME KeptType, NEW i \in Instances, NEW vector
  PROVE  /\ Covered(i, vector) \in 0 .. Len(local[i])
         /\ \A k \in 1 .. Covered(i, vector) :
              Visible(UNION Range(SubSeq(local[i], 1, k))) \subseteq vector
<1> DEFINE S == {n \in 0 .. Len(local[i]) :
                   \A k \in 1 .. n : Visible(UNION Range(SubSeq(local[i], 1, k))) \subseteq vector}
<1>1. Len(local[i]) \in Nat
  BY DEF KeptType
<1>2. 0 \in S
  BY <1>1
<1>3. S \subseteq Nat /\ \A x \in S : x <= Len(local[i])
  BY <1>1
<1>4. Max(S) \in S
  BY <1>1, <1>2, <1>3, MaxIs
<1> QED
  BY <1>4 DEF Covered

\* A step of instance i, other than an edit and what leaves nothing of it.
StepOf(i) ==
  \/ Open(i) \/ Load(i) \/ Connect(i) \/ Disconnect(i) \/ PublishOk(i) \/ PublishFails(i)
  \/ CatchUp(i) \/ OnUpdate(i) \/ OnSyncStep1(i) \/ OnPersisted(i) \/ LoseFrame(i)
  \/ TryBecomeLeader(i) \/ TickStart(i) \/ Renew(i) \/ Campaign(i) \/ LeaseCallFails(i)
  \/ FlushDue(i) \/ SnapshotDue(i) \/ CreateOk(i) \/ CreateFails(i) \/ RecordOk(i)
  \/ RecordFails(i) \/ StayWarm(i) \/ EvictIdle(i) \/ Takeover(i) \/ Shutdown(i) \/ Evict(i)
  \/ Persist(i) \/ Compact(i) \/ Release(i)

LEMMA StoreStep ==
  ASSUME TypeInv, NEW i \in Instances, StepOf(i)
  PROVE  StoreType'
<1>0. StoreType /\ WriteType /\ CountType /\ PlaceType
  BY TypeParts DEF TypeInv
<1>1. CASE TryBecomeLeader(i)
  BY <1>0, <1>1 DEF TryBecomeLeader, Lead, Checkpoint, StoreType, WriteType, CountType,
      PlaceType, store, redis
<1>2. CASE Campaign(i)
  BY <1>0, <1>2 DEF Campaign, Lead, Checkpoint, StoreType, WriteType, CountType, PlaceType,
      store, redis
<1>3. CASE CreateOk(i)
  <2>1. nextRow \in 1 .. MaxRow
    BY <1>3, <1>0, RowsLeft
  <2>2. [id |-> nextRow, upd |-> TakenEdits(i)] \in [id : 1 .. MaxRow, upd : SUBSET Content]
    BY <1>0, <2>1, TakenType
  <2>3. /\ rows' = rows \cup {[id |-> nextRow, upd |-> TakenEdits(i)]} /\ nextRow' = nextRow + 1
        /\ UNCHANGED <<env, snap, lease>>
    BY <1>3 DEF CreateOk
  <2>4. rows' \subseteq [id : 1 .. MaxRow, upd : SUBSET Content]
    BY <1>0, <2>2, <2>3 DEF StoreType
  <2> QED
    BY <1>0, <2>1, <2>3, <2>4, BoundAssumption DEF StoreType
<1>4. CASE RecordOk(i)
  BY <1>0, <1>4 DEF RecordOk, GoBack, StoreType, WriteType, CountType, PlaceType, store, redis
<1>5. CASE Takeover(i)
  BY <1>0, <1>5 DEF Takeover, Lead, Checkpoint, StartDrain, StoreType, WriteType, CountType,
      PlaceType, store, redis
<1>6. CASE Release(i)
  BY <1>0, <1>6 DEF Release, StoreType, WriteType, CountType, PlaceType, store, redis
<1>7. ASSUME
      \/ Open(i) \/ Load(i) \/ Connect(i) \/ Disconnect(i) \/ PublishOk(i) \/ PublishFails(i)
      \/ CatchUp(i) \/ OnUpdate(i) \/ OnSyncStep1(i) \/ OnPersisted(i) \/ LoseFrame(i)
      \/ TickStart(i) \/ Renew(i) \/ LeaseCallFails(i) \/ FlushDue(i) \/ SnapshotDue(i)
      \/ CreateFails(i) \/ RecordFails(i) \/ StayWarm(i) \/ EvictIdle(i) \/ Shutdown(i)
      \/ Evict(i) \/ Persist(i) \/ Compact(i)
      PROVE  StoreType'
  <2>1. UNCHANGED <<rows, nextRow, snap, lease, env>>
    BY <1>7 DEF Open, Load, Connect, Disconnect, PublishOk, PublishFails, CatchUp, OnUpdate,
       OnSyncStep1, OnPersisted, LoseFrame, TickStart, Renew, LeaseCallFails, FlushDue,
       SnapshotDue, CreateFails, RecordFails, StayWarm, EvictIdle, Shutdown, Evict, Persist,
       Compact, DrainEnds, GoBack, Published, StartDrain, StartFlush, Capture, FlushStep,
       store, redis
  <2> QED
    BY <1>0, <2>1 DEF StoreType
<1> QED
  BY <1>1, <1>2, <1>3, <1>4, <1>5, <1>6, <1>7 DEF StepOf

LEMMA InboxStep ==
  ASSUME TypeInv, NEW i \in Instances, StepOf(i)
  PROVE  InboxType'
<1>0. InboxType /\ QueueType /\ RoomType /\ Places
  BY TypeParts DEF TypeInv
<1>1. CASE PublishOk(i)
  <2>1. Head(pending[i]) \in Edits
    BY <1>1, <1>0, HeadTailProperties DEF PublishOk, QueueType, Places
  <2>2. [kind |-> "doc-update", upd |-> {Head(pending[i])}, from |-> i] \in Frames
    BY <2>1, FramesType DEF Content
  <2> QED
    BY <1>1, <1>0, <2>2, PublishedType DEF PublishOk, InboxType
<1>2. CASE PublishFails(i)
  <2>1. Head(pending[i]) \in Edits
    BY <1>2, <1>0, HeadTailProperties DEF PublishFails, QueueType, Places
  <2>2. [kind |-> "doc-update", upd |-> {Head(pending[i])}, from |-> i] \in Frames
    BY <2>1, FramesType DEF Content
  <2> QED
    BY <1>2, <1>0, <2>2, PublishedType DEF PublishFails, InboxType
<1>3. CASE CatchUp(i)
  BY <1>3, <1>0, FramesType, PublishedType DEF CatchUp, InboxType
<1>4. CASE OnUpdate(i)
  BY <1>4, <1>0, HeadFrame DEF OnUpdate, Next_, InboxType
<1>5. CASE OnSyncStep1(i)
  <2>1. [kind |-> "sync-step2", upd |-> doc[i], from |-> i] \in Frames
    BY <1>0, FramesType DEF RoomType
  <2>2. Take(i) \in [Instances -> Seq(Frames)] /\ Head(inbox[i]).from \in Instances
    BY <1>5, <1>0, HeadFrame DEF OnSyncStep1, Next_
  <2> QED
    BY <1>5, <2>1, <2>2, SentType DEF OnSyncStep1, InboxType
<1>6. CASE OnPersisted(i)
  BY <1>6, <1>0, HeadFrame DEF OnPersisted, Next_, InboxType
<1>7. CASE LoseFrame(i)
  BY <1>7, <1>0, HeadFrame DEF LoseFrame, InboxType
<1>8. CASE CreateOk(i)
  <2>1. Announced(i) \subseteq Content
    BY <1>0, VisibleType DEF Announced, RoomType
  <2>2. [kind |-> "persisted", upd |-> Announced(i), from |-> i] \in Frames
    BY <2>1, FramesType
  <2>3. inbox' = Published(inbox, i, [kind |-> "persisted", upd |-> Announced(i), from |-> i])
    BY <1>8 DEF CreateOk
  <2> QED
    BY <1>0, <2>2, <2>3, PublishedType DEF InboxType
<1>9. ASSUME
      \/ Open(i) \/ Load(i) \/ Connect(i) \/ Disconnect(i) \/ TryBecomeLeader(i)
      \/ TickStart(i) \/ Renew(i) \/ Campaign(i) \/ LeaseCallFails(i) \/ FlushDue(i)
      \/ SnapshotDue(i) \/ CreateFails(i) \/ RecordOk(i) \/ RecordFails(i) \/ StayWarm(i)
      \/ EvictIdle(i) \/ Takeover(i) \/ Shutdown(i) \/ Evict(i) \/ Persist(i) \/ Compact(i)
      \/ Release(i)
      PROVE  InboxType'
  <2>1. UNCHANGED <<inbox>>
    BY <1>9 DEF Open, Load, Connect, Disconnect, TryBecomeLeader, TickStart, Renew, Campaign,
       LeaseCallFails, FlushDue, SnapshotDue, CreateFails, RecordOk, RecordFails, StayWarm,
       EvictIdle, Takeover, Shutdown, Evict, Persist, Compact, Release, Lead, Checkpoint,
       StartDrain, StartFlush, Capture, GoBack, FlushStep, redis
  <2> QED
    BY <1>0, <2>1 DEF InboxType
<1> QED
  BY <1>1, <1>2, <1>3, <1>4, <1>5, <1>6, <1>7, <1>8, <1>9 DEF StepOf

LEMMA RoomStep ==
  ASSUME TypeInv, NEW i \in Instances, StepOf(i)
  PROVE  RoomType'
<1>0. RoomType /\ InboxType /\ StoreType
  BY TypeParts DEF TypeInv
<1>1. CASE Open(i)
  BY <1>0, <1>1 DEF Open, RoomType, InboxType, StoreType, room_
<1>2. CASE Load(i)
  BY <1>2, <1>0, ReconstructType DEF Load, RoomType
<1>3. CASE OnUpdate(i)
  <2>1. Head(inbox[i]).upd \subseteq Content
    BY <1>3, <1>0, HeadFrame DEF OnUpdate, Next_
  <2>2. doc' = [doc EXCEPT ![i] = @ \cup Head(inbox[i]).upd] /\ UNCHANGED room
    BY <1>3 DEF OnUpdate, room_
  <2> QED
    BY <1>0, <2>1, <2>2 DEF RoomType
<1>4. ASSUME
      \/ Connect(i) \/ Disconnect(i) \/ PublishOk(i) \/ PublishFails(i) \/ CatchUp(i)
      \/ OnSyncStep1(i) \/ OnPersisted(i) \/ LoseFrame(i) \/ TryBecomeLeader(i) \/ TickStart(i)
      \/ Renew(i) \/ Campaign(i) \/ LeaseCallFails(i) \/ FlushDue(i) \/ SnapshotDue(i)
      \/ CreateOk(i) \/ CreateFails(i) \/ RecordOk(i) \/ RecordFails(i) \/ StayWarm(i)
      \/ EvictIdle(i) \/ Takeover(i) \/ Shutdown(i) \/ Evict(i) \/ Persist(i) \/ Compact(i)
      \/ Release(i)
      PROVE  RoomType'
  <2>1. UNCHANGED <<room, doc>>
    BY <1>4 DEF Connect, Disconnect, PublishOk, PublishFails, CatchUp, OnSyncStep1,
       OnPersisted, LoseFrame, TryBecomeLeader, TickStart, Renew, Campaign, LeaseCallFails,
       FlushDue, SnapshotDue, CreateOk, CreateFails, RecordOk, RecordFails, StayWarm,
       EvictIdle, Takeover, Shutdown, Evict, Persist, Compact, Release, DrainEnds, GoBack,
       Published, Lead, Checkpoint, StartDrain, StartFlush, Capture, FlushStep, room_
  <2> QED
    BY <1>0, <2>1 DEF RoomType
<1> QED
  BY <1>1, <1>2, <1>3, <1>4 DEF StepOf

LEMMA FlagStep ==
  ASSUME TypeInv, NEW i \in Instances, StepOf(i)
  PROVE  FlagType'
<1>0. FlagType /\ RoomType
  BY TypeParts DEF TypeInv
<1>1. CASE Load(i)
  BY <1>0, <1>1 DEF Load, FlagType, RoomType, room_, clocks
<1>2. CASE Connect(i)
  BY <1>0, <1>2 DEF Connect, FlagType, RoomType, room_, clocks
<1>3. CASE Disconnect(i)
  BY <1>0, <1>3 DEF Disconnect, FlagType, RoomType, room_, clocks
<1>4. CASE TryBecomeLeader(i)
  BY <1>0, <1>4 DEF TryBecomeLeader, Lead, Checkpoint, FlagType, RoomType, room_, clocks
<1>5. CASE Renew(i)
  BY <1>0, <1>5 DEF Renew, FlagType, RoomType, room_, clocks
<1>6. CASE Campaign(i)
  BY <1>0, <1>6 DEF Campaign, Lead, Checkpoint, FlagType, RoomType, room_, clocks
<1>7. CASE CreateOk(i)
  BY <1>0, <1>7 DEF CreateOk, Capture, GoBack, FlagType, RoomType, room_, clocks
<1>8. CASE RecordOk(i)
  BY <1>0, <1>8 DEF RecordOk, GoBack, FlagType, RoomType, room_, clocks
<1>9. CASE Takeover(i)
  BY <1>0, <1>9 DEF Takeover, Lead, Checkpoint, StartDrain, FlagType, RoomType, room_, clocks
<1>10. CASE Shutdown(i)
  BY <1>0, <1>10 DEF Shutdown, FlagType, RoomType, room_, clocks
<1>11. CASE Release(i)
  BY <1>0, <1>11 DEF Release, FlagType, RoomType, room_, clocks
<1>12. ASSUME
      \/ Open(i) \/ PublishOk(i) \/ PublishFails(i) \/ CatchUp(i) \/ OnUpdate(i)
      \/ OnSyncStep1(i) \/ OnPersisted(i) \/ LoseFrame(i) \/ TickStart(i) \/ LeaseCallFails(i)
      \/ FlushDue(i) \/ SnapshotDue(i) \/ CreateFails(i) \/ RecordFails(i) \/ StayWarm(i)
      \/ EvictIdle(i) \/ Evict(i) \/ Persist(i) \/ Compact(i)
      PROVE  FlagType'
  <2>1. UNCHANGED <<leader, conn, awaiting>>
    BY <1>12 DEF Open, PublishOk, PublishFails, CatchUp, OnUpdate, OnSyncStep1, OnPersisted,
       LoseFrame, TickStart, LeaseCallFails, FlushDue, SnapshotDue, CreateFails, RecordFails,
       StayWarm, EvictIdle, Evict, Persist, Compact, DrainEnds, GoBack, Published, StartDrain,
       StartFlush, Capture, FlushStep, room_, clocks
  <2> QED
    BY <1>0, <2>1 DEF FlagType
<1> QED
  BY <1>1, <1>2, <1>3, <1>4, <1>5, <1>6, <1>7, <1>8, <1>9, <1>10, <1>11, <1>12 DEF StepOf

LEMMA CountStep ==
  ASSUME TypeInv, NEW i \in Instances, StepOf(i)
  PROVE  CountType'
<1>0. CountType /\ RoomType /\ StoreType /\ PlaceType
  BY TypeParts DEF TypeInv
<1>1. CASE Open(i)
  BY <1>0, BoundAssumption, <1>1 DEF Open, CountType, RoomType, StoreType, PlaceType, Goto,
      room_, clocks
<1>2. CASE Load(i)
  <2> DEFINE S == {snap.upTo} \cup {r.id : r \in rows}
  <2>1. S \subseteq Nat /\ S # {} /\ \A x \in S : x <= MaxRow
    BY <1>0, BoundAssumption DEF StoreType
  <2>2. Max(S) \in 0 .. MaxRow
    BY <2>1, BoundAssumption, MaxIs
  <2>3. /\ persistedUpTo' = [persistedUpTo EXCEPT ![i] = Max(S)]
        /\ asks' = [asks EXCEPT ![i] = CatchUps] /\ UNCHANGED opened
    BY <1>2 DEF Load
  <2> HIDE DEF S
  <2> QED
    BY <1>0, <2>2, <2>3, BoundAssumption DEF CountType
<1>3. CASE Connect(i)
  BY <1>0, BoundAssumption, <1>3 DEF Connect, CountType, RoomType, StoreType, PlaceType, Goto,
      room_, clocks
<1>4. CASE CatchUp(i)
  BY <1>0, BoundAssumption, <1>4 DEF CatchUp, Published, CountType, RoomType, StoreType,
      PlaceType, Goto, room_, clocks
<1>5. CASE CreateOk(i)
  <2>1. nextRow \in 1 .. MaxRow
    BY <1>5, <1>0, RowsLeft
  <2>2. persistedUpTo' = [persistedUpTo EXCEPT ![i] = nextRow] /\ UNCHANGED <<asks, opened>>
    BY <1>5 DEF CreateOk, room_
  <2> QED
    BY <1>0, <2>1, <2>2 DEF CountType
<1>6. ASSUME
      \/ Disconnect(i) \/ PublishOk(i) \/ PublishFails(i) \/ OnUpdate(i) \/ OnSyncStep1(i)
      \/ OnPersisted(i) \/ LoseFrame(i) \/ TryBecomeLeader(i) \/ TickStart(i) \/ Renew(i)
      \/ Campaign(i) \/ LeaseCallFails(i) \/ FlushDue(i) \/ SnapshotDue(i) \/ CreateFails(i)
      \/ RecordOk(i) \/ RecordFails(i) \/ StayWarm(i) \/ EvictIdle(i) \/ Takeover(i)
      \/ Shutdown(i) \/ Evict(i) \/ Persist(i) \/ Compact(i) \/ Release(i)
      PROVE  CountType'
  <2>1. UNCHANGED <<persistedUpTo, asks, opened>>
    BY <1>6 DEF Disconnect, PublishOk, PublishFails, OnUpdate, OnSyncStep1, OnPersisted,
       LoseFrame, TryBecomeLeader, TickStart, Renew, Campaign, LeaseCallFails, FlushDue,
       SnapshotDue, CreateFails, RecordOk, RecordFails, StayWarm, EvictIdle, Takeover,
       Shutdown, Evict, Persist, Compact, Release, DrainEnds, GoBack, Lead, Checkpoint,
       StartDrain, StartFlush, Capture, FlushStep, room_, clocks
  <2> QED
    BY <1>0, <2>1 DEF CountType
<1> QED
  BY <1>1, <1>2, <1>3, <1>4, <1>5, <1>6 DEF StepOf

LEMMA KeptStep ==
  ASSUME TypeInv, NEW i \in Instances, StepOf(i)
  PROVE  KeptType'
<1>0. KeptType /\ InboxType /\ RoomType /\ WriteType
  BY TypeParts DEF TypeInv
<1>1. CASE OnUpdate(i)
  <2>1. Head(inbox[i]).upd \subseteq Content
    BY <1>1, <1>0, HeadFrame DEF OnUpdate, Next_
  <2>2. Fresh(i, Head(inbox[i]).upd) \subseteq Content
    BY <1>0, <2>1, VisibleType DEF Fresh, RoomType
  <2>3. bus' = [bus EXCEPT ![i] = @ \cup Fresh(i, Head(inbox[i]).upd)] /\ UNCHANGED local
    BY <1>1 DEF OnUpdate
  <2> QED
    BY <1>0, <2>2, <2>3 DEF KeptType
<1>2. CASE OnPersisted(i)
  <2> DEFINE n == Covered(i, Head(inbox[i]).upd)
  <2>1. local[i] \in Seq(SUBSET Content) /\ n \in 0 .. Len(local[i])
    BY <1>0, CoveredIs DEF KeptType
  <2>2. SubSeq(local[i], n + 1, Len(local[i])) \in Seq(SUBSET Content)
    BY <2>1, SubSeqProperties
  <2>3. \/ UNCHANGED <<local, bus>>
        \/ /\ local' = [local EXCEPT ![i] = SubSeq(@, n + 1, Len(@))]
           /\ bus' = [bus EXCEPT ![i] = {}]
    BY <1>2 DEF OnPersisted, kept
  <2> HIDE DEF n
  <2> QED
    BY <1>0, <2>2, <2>3 DEF KeptType
<1>3. CASE TryBecomeLeader(i)
  <2>1. UNCHANGED local /\ (UNCHANGED bus \/ bus' = [bus EXCEPT ![i] = @ \cup doc[i]])
    BY <1>3 DEF TryBecomeLeader, Lead, Checkpoint
  <2> QED
    BY <1>0, <2>1 DEF KeptType, RoomType
<1>4. CASE Campaign(i)
  <2>1. UNCHANGED local /\ (UNCHANGED bus \/ bus' = [bus EXCEPT ![i] = @ \cup doc[i]])
    BY <1>4 DEF Campaign, Lead, Checkpoint
  <2> QED
    BY <1>0, <2>1 DEF KeptType, RoomType
<1>5. CASE FlushDue(i)
  <2>1. \/ UNCHANGED <<local, bus>>
        \/ local' = [local EXCEPT ![i] = <<>>] /\ bus' = [bus EXCEPT ![i] = {}]
    BY <1>5 DEF FlushDue, FlushStep, StartFlush, kept
  <2>2. <<>> \in Seq(SUBSET Content)
    BY EmptySeq
  <2> QED
    BY <1>0, <2>1, <2>2 DEF KeptType
<1>6. CASE SnapshotDue(i)
  <2>1. \/ UNCHANGED <<local, bus>>
        \/ local' = [local EXCEPT ![i] = <<>>] /\ bus' = [bus EXCEPT ![i] = {}]
    BY <1>6 DEF SnapshotDue, FlushStep, StartFlush, kept
  <2>2. <<>> \in Seq(SUBSET Content)
    BY EmptySeq
  <2> QED
    BY <1>0, <2>1, <2>2 DEF KeptType
<1>7. CASE CreateFails(i)
  BY <1>0, <1>7 DEF CreateFails, KeptType, InboxType, RoomType, WriteType, kept
<1>8. CASE Takeover(i)
  <2>1. UNCHANGED local /\ (UNCHANGED bus \/ bus' = [bus EXCEPT ![i] = @ \cup doc[i]])
    BY <1>8 DEF Takeover, Lead, Checkpoint
  <2> QED
    BY <1>0, <2>1 DEF KeptType, RoomType
<1>9. CASE Persist(i)
  <2>1. \/ UNCHANGED <<local, bus>>
        \/ local' = [local EXCEPT ![i] = <<>>] /\ bus' = [bus EXCEPT ![i] = {}]
    BY <1>9 DEF Persist, FlushStep, StartFlush, kept
  <2>2. <<>> \in Seq(SUBSET Content)
    BY EmptySeq
  <2> QED
    BY <1>0, <2>1, <2>2 DEF KeptType
<1>10. CASE Compact(i)
  <2>1. \/ UNCHANGED <<local, bus>>
        \/ local' = [local EXCEPT ![i] = <<>>] /\ bus' = [bus EXCEPT ![i] = {}]
    BY <1>10 DEF Compact, FlushStep, StartFlush, kept
  <2>2. <<>> \in Seq(SUBSET Content)
    BY EmptySeq
  <2> QED
    BY <1>0, <2>1, <2>2 DEF KeptType
<1>11. ASSUME
      \/ Open(i) \/ Load(i) \/ Connect(i) \/ Disconnect(i) \/ PublishOk(i) \/ PublishFails(i)
      \/ CatchUp(i) \/ OnSyncStep1(i) \/ LoseFrame(i) \/ TickStart(i) \/ Renew(i)
      \/ LeaseCallFails(i) \/ CreateOk(i) \/ RecordOk(i) \/ RecordFails(i) \/ StayWarm(i)
      \/ EvictIdle(i) \/ Shutdown(i) \/ Evict(i) \/ Release(i)
      PROVE  KeptType'
  <2>1. UNCHANGED <<local, bus>>
    BY <1>11 DEF Open, Load, Connect, Disconnect, PublishOk, PublishFails, CatchUp,
       OnSyncStep1, LoseFrame, TickStart, Renew, LeaseCallFails, CreateOk, RecordOk,
       RecordFails, StayWarm, EvictIdle, Shutdown, Evict, Release, DrainEnds, GoBack,
       Published, StartDrain, Capture, kept
  <2> QED
    BY <1>0, <2>1 DEF KeptType
<1> QED
  BY <1>1, <1>2, <1>3, <1>4, <1>5, <1>6, <1>7, <1>8, <1>9, <1>10, <1>11 DEF StepOf

LEMMA QueueStep ==
  ASSUME TypeInv, NEW i \in Instances, StepOf(i)
  PROVE  QueueType'
<1>0. QueueType /\ Places
  BY TypeParts DEF TypeInv
<1>1. CASE PublishOk(i)
  <2>1. Tail(pending[i]) \in Seq(Edits)
    BY <1>1, <1>0, HeadTailProperties DEF PublishOk, QueueType, Places
  <2>2. /\ pending' = [pending EXCEPT ![i] = Tail(@)]
        /\ UNCHANGED publishing \/ publishing' = [publishing EXCEPT ![i] = FALSE]
    BY <1>1 DEF PublishOk, DrainEnds
  <2> QED
    BY <1>0, <2>1, <2>2 DEF QueueType
<1>2. CASE PublishFails(i)
  BY <1>0, <1>2 DEF PublishFails, DrainEnds, GoBack, QueueType, Places, queue
<1>3. CASE TickStart(i)
  BY <1>0, <1>3 DEF TickStart, StartDrain, QueueType, Places, queue
<1>4. CASE Takeover(i)
  BY <1>0, <1>4 DEF Takeover, Lead, Checkpoint, StartDrain, QueueType, Places, queue
<1>5. CASE Evict(i)
  BY <1>0, <1>5 DEF Evict, StartDrain, QueueType, Places, queue
<1>6. ASSUME
      \/ Open(i) \/ Load(i) \/ Connect(i) \/ Disconnect(i) \/ CatchUp(i) \/ OnUpdate(i)
      \/ OnSyncStep1(i) \/ OnPersisted(i) \/ LoseFrame(i) \/ TryBecomeLeader(i) \/ Renew(i)
      \/ Campaign(i) \/ LeaseCallFails(i) \/ FlushDue(i) \/ SnapshotDue(i) \/ CreateOk(i)
      \/ CreateFails(i) \/ RecordOk(i) \/ RecordFails(i) \/ StayWarm(i) \/ EvictIdle(i)
      \/ Shutdown(i) \/ Persist(i) \/ Compact(i) \/ Release(i)
      PROVE  QueueType'
  <2>1. UNCHANGED <<pending, publishing>>
    BY <1>6 DEF Open, Load, Connect, Disconnect, CatchUp, OnUpdate, OnSyncStep1, OnPersisted,
       LoseFrame, TryBecomeLeader, Renew, Campaign, LeaseCallFails, FlushDue, SnapshotDue,
       CreateOk, CreateFails, RecordOk, RecordFails, StayWarm, EvictIdle, Shutdown, Persist,
       Compact, Release, Published, Lead, Checkpoint, StartFlush, Capture, GoBack, FlushStep,
       queue
  <2> QED
    BY <1>0, <2>1 DEF QueueType
<1> QED
  BY <1>1, <1>2, <1>3, <1>4, <1>5, <1>6 DEF StepOf

LEMMA WriteStep ==
  ASSUME TypeInv, NEW i \in Instances, StepOf(i)
  PROVE  WriteType'
<1>0. WriteType /\ KeptType /\ RoomType /\ PlaceType
  BY TypeParts DEF TypeInv
<1>1. CASE FlushDue(i)
  <2>1. /\ UNCHANGED taken \/ taken' = [taken EXCEPT ![i] = [local |-> local[i], bus |-> bus[i]]]
        /\ UNCHANGED shot \/ shot' = [shot EXCEPT ![i] = doc[i]]
    BY <1>1 DEF FlushDue, FlushStep, StartFlush, Capture
  <2>2. [local |-> local[i], bus |-> bus[i]] \in [local : Seq(SUBSET Content), bus : SUBSET Content]
    BY <1>0 DEF KeptType
  <2>3. taken' \in [Instances -> [local : Seq(SUBSET Content), bus : SUBSET Content]]
    BY <1>0, <2>1, <2>2 DEF WriteType
  <2>4. shot' \in [Instances -> SUBSET Content]
    BY <1>0, <2>1 DEF WriteType, RoomType
  <2> QED
    BY <2>3, <2>4 DEF WriteType
<1>2. CASE SnapshotDue(i)
  <2>1. /\ UNCHANGED taken \/ taken' = [taken EXCEPT ![i] = [local |-> local[i], bus |-> bus[i]]]
        /\ UNCHANGED shot \/ shot' = [shot EXCEPT ![i] = doc[i]]
    BY <1>2 DEF SnapshotDue, FlushStep, StartFlush, Capture
  <2>2. [local |-> local[i], bus |-> bus[i]] \in [local : Seq(SUBSET Content), bus : SUBSET Content]
    BY <1>0 DEF KeptType
  <2>3. taken' \in [Instances -> [local : Seq(SUBSET Content), bus : SUBSET Content]]
    BY <1>0, <2>1, <2>2 DEF WriteType
  <2>4. shot' \in [Instances -> SUBSET Content]
    BY <1>0, <2>1 DEF WriteType, RoomType
  <2> QED
    BY <2>3, <2>4 DEF WriteType
<1>3. CASE CreateOk(i)
  <2>1. /\ taken' = [taken EXCEPT ![i] = NoEntries]
        /\ UNCHANGED shot \/ shot' = [shot EXCEPT ![i] = doc[i]]
    BY <1>3 DEF CreateOk, Capture
  <2>2. NoEntries \in [local : Seq(SUBSET Content), bus : SUBSET Content]
    BY EmptySeq DEF NoEntries
  <2>3. taken' \in [Instances -> [local : Seq(SUBSET Content), bus : SUBSET Content]]
    BY <1>0, <2>1, <2>2 DEF WriteType
  <2>4. shot' \in [Instances -> SUBSET Content]
    BY <1>0, <2>1 DEF WriteType, RoomType
  <2> QED
    BY <2>3, <2>4 DEF WriteType
<1>4. CASE CreateFails(i)
  <2>1. taken' = [taken EXCEPT ![i] = NoEntries] /\ UNCHANGED shot
    BY <1>4 DEF CreateFails
  <2>2. NoEntries \in [local : Seq(SUBSET Content), bus : SUBSET Content]
    BY EmptySeq DEF NoEntries
  <2> QED
    BY <1>0, <2>1, <2>2 DEF WriteType
<1>5. CASE RecordOk(i)
  BY <1>0, <1>5 DEF RecordOk, GoBack, WriteType, KeptType, RoomType, PlaceType, tick
<1>6. CASE RecordFails(i)
  BY <1>0, <1>6 DEF RecordFails, GoBack, WriteType, KeptType, RoomType, PlaceType, tick
<1>7. CASE Persist(i)
  <2>1. /\ UNCHANGED taken \/ taken' = [taken EXCEPT ![i] = [local |-> local[i], bus |-> bus[i]]]
        /\ UNCHANGED shot \/ shot' = [shot EXCEPT ![i] = doc[i]]
    BY <1>7 DEF Persist, FlushStep, StartFlush, Capture
  <2>2. [local |-> local[i], bus |-> bus[i]] \in [local : Seq(SUBSET Content), bus : SUBSET Content]
    BY <1>0 DEF KeptType
  <2>3. taken' \in [Instances -> [local : Seq(SUBSET Content), bus : SUBSET Content]]
    BY <1>0, <2>1, <2>2 DEF WriteType
  <2>4. shot' \in [Instances -> SUBSET Content]
    BY <1>0, <2>1 DEF WriteType, RoomType
  <2> QED
    BY <2>3, <2>4 DEF WriteType
<1>8. CASE Compact(i)
  <2>1. /\ UNCHANGED taken \/ taken' = [taken EXCEPT ![i] = [local |-> local[i], bus |-> bus[i]]]
        /\ UNCHANGED shot \/ shot' = [shot EXCEPT ![i] = doc[i]]
    BY <1>8 DEF Compact, FlushStep, StartFlush, Capture
  <2>2. [local |-> local[i], bus |-> bus[i]] \in [local : Seq(SUBSET Content), bus : SUBSET Content]
    BY <1>0 DEF KeptType
  <2>3. taken' \in [Instances -> [local : Seq(SUBSET Content), bus : SUBSET Content]]
    BY <1>0, <2>1, <2>2 DEF WriteType
  <2>4. shot' \in [Instances -> SUBSET Content]
    BY <1>0, <2>1 DEF WriteType, RoomType
  <2> QED
    BY <2>3, <2>4 DEF WriteType
<1>9. ASSUME
      \/ Open(i) \/ Load(i) \/ Connect(i) \/ Disconnect(i) \/ PublishOk(i) \/ PublishFails(i)
      \/ CatchUp(i) \/ OnUpdate(i) \/ OnSyncStep1(i) \/ OnPersisted(i) \/ LoseFrame(i)
      \/ TryBecomeLeader(i) \/ TickStart(i) \/ Renew(i) \/ Campaign(i) \/ LeaseCallFails(i)
      \/ StayWarm(i) \/ EvictIdle(i) \/ Takeover(i) \/ Shutdown(i) \/ Evict(i) \/ Release(i)
      PROVE  WriteType'
  <2>1. UNCHANGED <<taken, shot>>
    BY <1>9 DEF Open, Load, Connect, Disconnect, PublishOk, PublishFails, CatchUp, OnUpdate,
       OnSyncStep1, OnPersisted, LoseFrame, TryBecomeLeader, TickStart, Renew, Campaign,
       LeaseCallFails, StayWarm, EvictIdle, Takeover, Shutdown, Evict, Release, DrainEnds,
       GoBack, Published, Lead, Checkpoint, StartDrain, tick
  <2> QED
    BY <1>0, <2>1 DEF WriteType
<1> QED
  BY <1>1, <1>2, <1>3, <1>4, <1>5, <1>6, <1>7, <1>8, <1>9 DEF StepOf

LEMMA PlaceStep ==
  ASSUME TypeInv, NEW i \in Instances, StepOf(i)
  PROVE  PlaceType'
<1>0. PlaceType /\ Places
  BY TypeParts DEF TypeInv
<1>1. CASE PublishOk(i)
  BY <1>0, <1>1 DEF PublishOk, DrainEnds, GoBack, PlaceType, Places, Goto, RunPC, WaitPC, tick
<1>2. CASE PublishFails(i)
  BY <1>0, <1>2 DEF PublishFails, DrainEnds, GoBack, PlaceType, Places, Goto, RunPC, WaitPC,
      tick
<1>3. CASE TickStart(i)
  BY <1>0, <1>3 DEF TickStart, StartDrain, PlaceType, Places, Goto, RunPC, WaitPC, tick
<1>4. CASE Renew(i)
  BY <1>0, <1>4 DEF Renew, PlaceType, Places, Goto, RunPC, WaitPC, tick
<1>5. CASE Campaign(i)
  BY <1>0, <1>5 DEF Campaign, Lead, Checkpoint, PlaceType, Places, Goto, RunPC, WaitPC, tick
<1>6. CASE LeaseCallFails(i)
  BY <1>0, <1>6 DEF LeaseCallFails, PlaceType, Places, Goto, RunPC, WaitPC, tick
<1>7. CASE FlushDue(i)
  BY <1>0, <1>7 DEF FlushDue, StartFlush, PlaceType, Places, Goto, RunPC, WaitPC, tick
<1>8. CASE SnapshotDue(i)
  BY <1>0, <1>8 DEF SnapshotDue, StartFlush, Capture, PlaceType, Places, Goto, RunPC, WaitPC,
      tick
<1>9. CASE CreateOk(i)
  BY <1>0, <1>9 DEF CreateOk, Capture, GoBack, PlaceType, Places, Goto, RunPC, WaitPC, tick
<1>10. CASE CreateFails(i)
  BY <1>0, <1>10 DEF CreateFails, PlaceType, Places, Goto, RunPC, WaitPC, tick
<1>11. CASE RecordOk(i)
  BY <1>0, <1>11 DEF RecordOk, GoBack, PlaceType, Places, Goto, RunPC, WaitPC, tick
<1>12. CASE RecordFails(i)
  BY <1>0, <1>12 DEF RecordFails, GoBack, PlaceType, Places, Goto, RunPC, WaitPC, tick
<1>13. CASE StayWarm(i)
  BY <1>0, <1>13 DEF StayWarm, PlaceType, Places, Goto, RunPC, WaitPC, tick
<1>14. CASE EvictIdle(i)
  BY <1>0, <1>14 DEF EvictIdle, PlaceType, Places, Goto, RunPC, WaitPC, tick
<1>15. CASE Takeover(i)
  BY <1>0, <1>15 DEF Takeover, Lead, Checkpoint, StartDrain, PlaceType, Places, Goto, RunPC,
      WaitPC, tick
<1>16. CASE Shutdown(i)
  BY <1>0, <1>16 DEF Shutdown, PlaceType, Places, Goto, RunPC, WaitPC, tick
<1>17. CASE Evict(i)
  BY <1>0, <1>17 DEF Evict, StartDrain, PlaceType, Places, Goto, RunPC, WaitPC, tick
<1>18. CASE Persist(i)
  BY <1>0, <1>18 DEF Persist, FlushStep, StartFlush, PlaceType, Places, Goto, RunPC, WaitPC,
      tick
<1>19. CASE Compact(i)
  BY <1>0, <1>19 DEF Compact, StartFlush, Capture, PlaceType, Places, Goto, RunPC, WaitPC, tick
<1>20. CASE Release(i)
  BY <1>0, <1>20 DEF Release, PlaceType, Places, Goto, RunPC, WaitPC, tick
<1>21. ASSUME
      \/ Open(i) \/ Load(i) \/ Connect(i) \/ Disconnect(i) \/ CatchUp(i) \/ OnUpdate(i)
      \/ OnSyncStep1(i) \/ OnPersisted(i) \/ LoseFrame(i) \/ TryBecomeLeader(i)
      PROVE  PlaceType'
  <2>1. UNCHANGED <<pc, ret>>
    BY <1>21 DEF Open, Load, Connect, Disconnect, CatchUp, OnUpdate, OnSyncStep1, OnPersisted,
       LoseFrame, TryBecomeLeader, Published, Lead, Checkpoint, tick
  <2> QED
    BY <1>0, <2>1 DEF PlaceType
<1> QED
  BY <1>1, <1>2, <1>3, <1>4, <1>5, <1>6, <1>7, <1>8, <1>9, <1>10, <1>11, <1>12, <1>13, <1>14, <1>15, <1>16, <1>17, <1>18, <1>19, <1>20, <1>21 DEF StepOf

LEMMA HistoryStep ==
  ASSUME TypeInv, NEW i \in Instances, StepOf(i)
  PROVE  HistoryType'
<1>0. HistoryType
  BY TypeParts DEF TypeInv
<1>1. ASSUME
      \/ Open(i) \/ Load(i) \/ Connect(i) \/ Disconnect(i) \/ PublishOk(i) \/ PublishFails(i)
      \/ CatchUp(i) \/ OnUpdate(i) \/ OnSyncStep1(i) \/ OnPersisted(i) \/ LoseFrame(i)
      \/ TryBecomeLeader(i) \/ TickStart(i) \/ Renew(i) \/ Campaign(i) \/ LeaseCallFails(i)
      \/ FlushDue(i) \/ SnapshotDue(i) \/ CreateOk(i) \/ CreateFails(i) \/ RecordOk(i)
      \/ RecordFails(i) \/ StayWarm(i) \/ EvictIdle(i) \/ Takeover(i) \/ Shutdown(i)
      \/ Evict(i) \/ Persist(i) \/ Compact(i) \/ Release(i)
      PROVE  HistoryType'
  <2>1. UNCHANGED <<acceptedBy, owed>>
    BY <1>1 DEF Open, Load, Connect, Disconnect, PublishOk, PublishFails, CatchUp, OnUpdate,
       OnSyncStep1, OnPersisted, LoseFrame, TryBecomeLeader, TickStart, Renew, Campaign,
       LeaseCallFails, FlushDue, SnapshotDue, CreateOk, CreateFails, RecordOk, RecordFails,
       StayWarm, EvictIdle, Takeover, Shutdown, Evict, Persist, Compact, Release, DrainEnds,
       GoBack, Published, Lead, Checkpoint, StartDrain, StartFlush, Capture, FlushStep, history
  <2> QED
    BY <1>0, <2>1 DEF HistoryType
<1> QED
  BY <1>1 DEF StepOf

(***************************************************************************)
(* Absent rooms, and where the ticks are                                   *)
(***************************************************************************)

\* Whose room is not in memory does nothing but open it (asking the peers changes
\* nothing of the asker): no tick, socket, queue or frame of it is left.
LEMMA PresentActs ==
  ASSUME TypeInv, NEW i \in Instances, room[i] = "none", StepOf(i)
  PROVE  Open(i) \/ CatchUp(i)
<1>1. /\ pending[i] = <<>> /\ inbox[i] = <<>> /\ ~leader[i] /\ ~conn[i] /\ pc[i] = "idle"
      /\ publishing[i] = FALSE
  BY TypeParts DEF TypeInv, Absent, Places, QueueType
<1> QED
  BY <1>1 DEF StepOf, Load, Connect, Disconnect, PublishOk, PublishFails, OnUpdate,
      OnSyncStep1, OnPersisted, LoseFrame, TryBecomeLeader, TickStart, Renew, Campaign,
      LeaseCallFails, FlushDue, SnapshotDue, CreateOk, CreateFails, RecordOk, RecordFails,
      StayWarm, EvictIdle, Takeover, Shutdown, Evict, Persist, Compact, Release, FlushStep,
      Next_, Live, Decides

\* A step of i touches what i has, and puts frames into the inboxes of rooms.
LEMMA OthersKeep ==
  ASSUME TypeInv, NEW i \in Instances, StepOf(i), NEW j \in Instances, j # i
  PROVE  /\ room'[j] = room[j] /\ doc'[j] = doc[j] /\ local'[j] = local[j] /\ bus'[j] = bus[j]
         /\ pending'[j] = pending[j] /\ publishing'[j] = publishing[j]
         /\ leader'[j] = leader[j] /\ conn'[j] = conn[j] /\ pc'[j] = pc[j] /\ ret'[j] = ret[j]
         /\ room[j] = "none" => inbox'[j] = inbox[j]
<1>0. RoomType /\ KeptType /\ QueueType /\ FlagType /\ PlaceType /\ InboxType
  BY TypeParts DEF TypeInv
<1>1. room'[j] = room[j] /\ doc'[j] = doc[j]
  <2>1. CASE
        \/ Connect(i) \/ Disconnect(i) \/ PublishOk(i) \/ PublishFails(i) \/ CatchUp(i)
        \/ OnSyncStep1(i) \/ OnPersisted(i) \/ LoseFrame(i) \/ TryBecomeLeader(i)
        \/ TickStart(i) \/ Renew(i) \/ Campaign(i) \/ LeaseCallFails(i) \/ FlushDue(i)
        \/ SnapshotDue(i) \/ CreateOk(i) \/ CreateFails(i) \/ RecordOk(i) \/ RecordFails(i)
        \/ StayWarm(i) \/ EvictIdle(i) \/ Takeover(i) \/ Shutdown(i) \/ Evict(i) \/ Persist(i)
        \/ Compact(i) \/ Release(i)
    BY <2>1 DEF Connect, Disconnect, PublishOk, PublishFails, CatchUp, OnSyncStep1,
        OnPersisted, LoseFrame, TryBecomeLeader, TickStart, Renew, Campaign, LeaseCallFails,
        FlushDue, SnapshotDue, CreateOk, CreateFails, RecordOk, RecordFails, StayWarm,
        EvictIdle, Takeover, Shutdown, Evict, Persist, Compact, Release, DrainEnds, GoBack,
        Published, Lead, Checkpoint, StartDrain, StartFlush, Capture, FlushStep, room_
  <2>2. CASE
        \/ Open(i) \/ Load(i) \/ OnUpdate(i)
    BY <1>0, <2>2 DEF Open, Load, OnUpdate, RoomType, room_, Goto
  <2> QED
    BY <2>1, <2>2 DEF StepOf
<1>2. local'[j] = local[j] /\ bus'[j] = bus[j]
  <2>1. CASE
        \/ Open(i) \/ Load(i) \/ Connect(i) \/ Disconnect(i) \/ PublishOk(i) \/ PublishFails(i)
        \/ CatchUp(i) \/ OnSyncStep1(i) \/ LoseFrame(i) \/ TickStart(i) \/ Renew(i)
        \/ LeaseCallFails(i) \/ CreateOk(i) \/ RecordOk(i) \/ RecordFails(i) \/ StayWarm(i)
        \/ EvictIdle(i) \/ Shutdown(i) \/ Evict(i) \/ Release(i)
    BY <2>1 DEF Open, Load, Connect, Disconnect, PublishOk, PublishFails, CatchUp, OnSyncStep1,
        LoseFrame, TickStart, Renew, LeaseCallFails, CreateOk, RecordOk, RecordFails, StayWarm,
        EvictIdle, Shutdown, Evict, Release, DrainEnds, GoBack, Published, StartDrain, Capture,
        kept
  <2>2. CASE
        \/ OnUpdate(i) \/ OnPersisted(i) \/ TryBecomeLeader(i) \/ Campaign(i) \/ FlushDue(i)
        \/ SnapshotDue(i) \/ CreateFails(i) \/ Takeover(i) \/ Persist(i) \/ Compact(i)
    BY <1>0, <2>2 DEF OnUpdate, OnPersisted, TryBecomeLeader, Campaign, FlushDue, SnapshotDue,
        CreateFails, Takeover, Persist, Compact, Lead, Checkpoint, StartFlush, Capture,
        StartDrain, FlushStep, KeptType, kept, Goto
  <2> QED
    BY <2>1, <2>2 DEF StepOf
<1>3. pending'[j] = pending[j] /\ publishing'[j] = publishing[j]
  <2>1. CASE
        \/ Open(i) \/ Load(i) \/ Connect(i) \/ Disconnect(i) \/ CatchUp(i) \/ OnUpdate(i)
        \/ OnSyncStep1(i) \/ OnPersisted(i) \/ LoseFrame(i) \/ TryBecomeLeader(i) \/ Renew(i)
        \/ Campaign(i) \/ LeaseCallFails(i) \/ FlushDue(i) \/ SnapshotDue(i) \/ CreateOk(i)
        \/ CreateFails(i) \/ RecordOk(i) \/ RecordFails(i) \/ StayWarm(i) \/ EvictIdle(i)
        \/ Shutdown(i) \/ Persist(i) \/ Compact(i) \/ Release(i)
    BY <2>1 DEF Open, Load, Connect, Disconnect, CatchUp, OnUpdate, OnSyncStep1, OnPersisted,
        LoseFrame, TryBecomeLeader, Renew, Campaign, LeaseCallFails, FlushDue, SnapshotDue,
        CreateOk, CreateFails, RecordOk, RecordFails, StayWarm, EvictIdle, Shutdown, Persist,
        Compact, Release, Published, Lead, Checkpoint, StartFlush, Capture, GoBack, FlushStep,
        queue
  <2>2. CASE
        \/ PublishOk(i) \/ PublishFails(i) \/ TickStart(i) \/ Takeover(i) \/ Evict(i)
    BY <1>0, <2>2 DEF PublishOk, PublishFails, TickStart, Takeover, Evict, DrainEnds, GoBack,
        StartDrain, Lead, Checkpoint, QueueType, queue, Goto
  <2> QED
    BY <2>1, <2>2 DEF StepOf
<1>4. leader'[j] = leader[j] /\ conn'[j] = conn[j]
  <2>1. CASE
        \/ Open(i) \/ PublishOk(i) \/ PublishFails(i) \/ CatchUp(i) \/ OnUpdate(i)
        \/ OnSyncStep1(i) \/ OnPersisted(i) \/ LoseFrame(i) \/ TickStart(i)
        \/ LeaseCallFails(i) \/ FlushDue(i) \/ SnapshotDue(i) \/ CreateOk(i) \/ CreateFails(i)
        \/ RecordOk(i) \/ RecordFails(i) \/ StayWarm(i) \/ EvictIdle(i) \/ Evict(i)
        \/ Persist(i) \/ Compact(i)
    BY <2>1 DEF Open, PublishOk, PublishFails, CatchUp, OnUpdate, OnSyncStep1, OnPersisted,
        LoseFrame, TickStart, LeaseCallFails, FlushDue, SnapshotDue, CreateOk, CreateFails,
        RecordOk, RecordFails, StayWarm, EvictIdle, Evict, Persist, Compact, DrainEnds, GoBack,
        Published, StartDrain, StartFlush, Capture, FlushStep, room_
  <2>2. CASE
        \/ Load(i) \/ Connect(i) \/ Disconnect(i) \/ TryBecomeLeader(i) \/ Renew(i)
        \/ Campaign(i) \/ Takeover(i) \/ Shutdown(i) \/ Release(i)
    BY <1>0, <2>2 DEF Load, Connect, Disconnect, TryBecomeLeader, Renew, Campaign, Takeover,
        Shutdown, Release, Lead, Checkpoint, StartDrain, FlagType, room_, Goto
  <2> QED
    BY <2>1, <2>2 DEF StepOf
<1>5. pc'[j] = pc[j] /\ ret'[j] = ret[j]
  <2>1. CASE
        \/ Open(i) \/ Load(i) \/ Connect(i) \/ Disconnect(i) \/ CatchUp(i) \/ OnUpdate(i)
        \/ OnSyncStep1(i) \/ OnPersisted(i) \/ LoseFrame(i) \/ TryBecomeLeader(i)
    BY <2>1 DEF Open, Load, Connect, Disconnect, CatchUp, OnUpdate, OnSyncStep1, OnPersisted,
        LoseFrame, TryBecomeLeader, Published, Lead, Checkpoint, tick
  <2>2. CASE
        \/ PublishOk(i) \/ PublishFails(i) \/ TickStart(i) \/ Renew(i) \/ Campaign(i)
        \/ LeaseCallFails(i) \/ FlushDue(i) \/ SnapshotDue(i) \/ CreateOk(i) \/ CreateFails(i)
        \/ RecordOk(i) \/ RecordFails(i) \/ StayWarm(i) \/ EvictIdle(i) \/ Takeover(i)
        \/ Shutdown(i) \/ Evict(i) \/ Persist(i) \/ Compact(i) \/ Release(i)
    BY <1>0, <2>2 DEF PublishOk, PublishFails, TickStart, Renew, Campaign, LeaseCallFails,
        FlushDue, SnapshotDue, CreateOk, CreateFails, RecordOk, RecordFails, StayWarm,
        EvictIdle, Takeover, Shutdown, Evict, Persist, Compact, Release, DrainEnds, GoBack,
        StartDrain, Lead, Checkpoint, StartFlush, Capture, FlushStep, PlaceType, tick, Goto
  <2> QED
    BY <2>1, <2>2 DEF StepOf
<1>6. ASSUME room[j] = "none" PROVE inbox'[j] = inbox[j]
  <2>1. CASE
        \/ Open(i) \/ Load(i) \/ Connect(i) \/ Disconnect(i) \/ TryBecomeLeader(i)
        \/ TickStart(i) \/ Renew(i) \/ Campaign(i) \/ LeaseCallFails(i) \/ FlushDue(i)
        \/ SnapshotDue(i) \/ CreateFails(i) \/ RecordOk(i) \/ RecordFails(i) \/ StayWarm(i)
        \/ EvictIdle(i) \/ Takeover(i) \/ Shutdown(i) \/ Evict(i) \/ Persist(i) \/ Compact(i)
        \/ Release(i)
    BY <2>1 DEF Open, Load, Connect, Disconnect, TryBecomeLeader, TickStart, Renew, Campaign,
        LeaseCallFails, FlushDue, SnapshotDue, CreateFails, RecordOk, RecordFails, StayWarm,
        EvictIdle, Takeover, Shutdown, Evict, Persist, Compact, Release, Lead, Checkpoint,
        StartDrain, StartFlush, Capture, GoBack, FlushStep, redis
  <2>2. CASE
        \/ PublishOk(i) \/ PublishFails(i) \/ CatchUp(i) \/ OnUpdate(i) \/ OnSyncStep1(i)
        \/ OnPersisted(i) \/ LoseFrame(i) \/ CreateOk(i)
    BY <1>0, <1>6, <2>2 DEF PublishOk, PublishFails, CatchUp, OnUpdate, OnSyncStep1,
        OnPersisted, LoseFrame, CreateOk, Published, Sent, Take, Live, InboxType, redis
  <2> QED
    BY <2>1, <2>2 DEF StepOf
<1> QED
  BY <1>1, <1>2, <1>3, <1>4, <1>5, <1>6

LEMMA RoomsAbsent ==
  ASSUME TypeInv, NEW i \in Instances, StepOf(i)
  PROVE  \A j \in Instances : Absent(j)'
<1>0. RoomType /\ \A j \in Instances : Absent(j)
  BY TypeParts DEF TypeInv
<1>1. ASSUME NEW j \in Instances, j # i PROVE Absent(j)'
  BY <1>0, <1>1, OthersKeep DEF Absent
<1>2. CASE room[i] = "none"
  <2>1. CASE Open(i)
    <3>1. room'[i] = "loading"
      BY <1>0, <2>1 DEF Open, RoomType
    <3> QED
      BY <1>1, <3>1 DEF Absent
  <2>2. CASE CatchUp(i)
    <3>1. inbox'[i] = inbox[i]
      BY <2>2, TypeParts DEF TypeInv, CatchUp, Published, InboxType
    <3>2. UNCHANGED <<room, doc, local, bus, pending, leader, conn, pc>>
      BY <2>2 DEF CatchUp, kept, queue, tick
    <3>3. Absent(i)'
      BY <1>0, <3>1, <3>2 DEF Absent
    <3> QED
      BY <1>1, <3>3
  <2> QED
    BY <1>1, <1>2, <2>1, <2>2, PresentActs
<1>3. CASE room[i] # "none"
  <2>1. room'[i] # "none"
    <3>1. CASE Load(i)
      BY <1>0, <3>1 DEF Load, RoomType
    <3>2. CASE Open(i)
      BY <1>3, <3>2 DEF Open
    <3>3. ASSUME
            \/ Connect(i) \/ Disconnect(i) \/ PublishOk(i) \/ PublishFails(i) \/ CatchUp(i)
            \/ OnUpdate(i) \/ OnSyncStep1(i) \/ OnPersisted(i) \/ LoseFrame(i)
            \/ TryBecomeLeader(i) \/ TickStart(i) \/ Renew(i) \/ Campaign(i)
            \/ LeaseCallFails(i) \/ FlushDue(i) \/ SnapshotDue(i) \/ CreateOk(i)
            \/ CreateFails(i) \/ RecordOk(i) \/ RecordFails(i) \/ StayWarm(i) \/ EvictIdle(i)
            \/ Takeover(i) \/ Shutdown(i) \/ Evict(i) \/ Persist(i) \/ Compact(i) \/ Release(i)
          PROVE  UNCHANGED room
      BY <3>3 DEF Connect, Disconnect, PublishOk, PublishFails, CatchUp, OnUpdate, OnSyncStep1,
          OnPersisted, LoseFrame, TryBecomeLeader, TickStart, Renew, Campaign, LeaseCallFails,
          FlushDue, SnapshotDue, CreateOk, CreateFails, RecordOk, RecordFails, StayWarm,
          EvictIdle, Takeover, Shutdown, Evict, Persist, Compact, Release, DrainEnds, GoBack,
          Published, Lead, Checkpoint, StartDrain, StartFlush, Capture, FlushStep, room_
    <3> QED
      BY <1>3, <3>1, <3>2, <3>3 DEF StepOf
  <2> QED
    BY <1>1, <2>1 DEF Absent
<1> QED
  BY <1>2, <1>3

LEMMA PlacesStep ==
  ASSUME TypeInv, NEW i \in Instances, StepOf(i) PROVE Places'
<1>0. PlaceType /\ QueueType /\ Places
  BY TypeParts DEF TypeInv
<1>1. \A j \in Instances : j # i =>
        pc'[j] = pc[j] /\ ret'[j] = ret[j] /\ pending'[j] = pending[j] /\ publishing'[j] = publishing[j]
  BY OthersKeep
<1>2. pc'[i] \in {"drain", "record"} => ret'[i] \notin {"capture", "captureLast"}
  <2>1. CASE PublishOk(i)
    BY <1>0, <2>1 DEF PublishOk, DrainEnds, GoBack, PlaceType, tick, Places, Goto, Decides
  <2>2. CASE PublishFails(i)
    BY <1>0, <2>2 DEF PublishFails, DrainEnds, GoBack, PlaceType, tick, Places, Goto, Decides
  <2>3. CASE TickStart(i)
    BY <1>0, <2>3 DEF TickStart, StartDrain, PlaceType, tick, Places, Goto, Decides
  <2>4. CASE Renew(i)
    BY <1>0, <2>4 DEF Renew, PlaceType, tick, Places, Goto, Decides
  <2>5. CASE Campaign(i)
    BY <1>0, <2>5 DEF Campaign, Lead, Checkpoint, PlaceType, tick, Places, Goto, Decides
  <2>6. CASE LeaseCallFails(i)
    BY <1>0, <2>6 DEF LeaseCallFails, PlaceType, tick, Places, Goto, Decides
  <2>7. CASE FlushDue(i)
    BY <1>0, <2>7 DEF FlushDue, StartFlush, PlaceType, tick, Places, Goto, Decides
  <2>8. CASE SnapshotDue(i)
    BY <1>0, <2>8 DEF SnapshotDue, StartFlush, Capture, PlaceType, tick, Places, Goto, Decides
  <2>9. CASE CreateOk(i)
    BY <1>0, <2>9 DEF CreateOk, Capture, GoBack, PlaceType, tick, Places, Goto, Decides
  <2>10. CASE CreateFails(i)
    BY <1>0, <2>10 DEF CreateFails, PlaceType, tick, Places, Goto, Decides
  <2>11. CASE RecordOk(i)
    BY <1>0, <2>11 DEF RecordOk, GoBack, PlaceType, tick, Places, Goto, Decides
  <2>12. CASE RecordFails(i)
    BY <1>0, <2>12 DEF RecordFails, GoBack, PlaceType, tick, Places, Goto, Decides
  <2>13. CASE StayWarm(i)
    BY <1>0, <2>13 DEF StayWarm, PlaceType, tick, Places, Goto, Decides
  <2>14. CASE EvictIdle(i)
    BY <1>0, <2>14 DEF EvictIdle, PlaceType, tick, Places, Goto, Decides
  <2>15. CASE Takeover(i)
    BY <1>0, <2>15 DEF Takeover, Lead, Checkpoint, StartDrain, PlaceType, tick, Places, Goto,
        Decides
  <2>16. CASE Shutdown(i)
    BY <1>0, <2>16 DEF Shutdown, PlaceType, tick, Places, Goto, Decides
  <2>17. CASE Evict(i)
    BY <1>0, <2>17 DEF Evict, StartDrain, PlaceType, tick, Places, Goto, Decides
  <2>18. CASE Persist(i)
    BY <1>0, <2>18 DEF Persist, FlushStep, StartFlush, PlaceType, tick, Places, Goto, Decides
  <2>19. CASE Compact(i)
    BY <1>0, <2>19 DEF Compact, StartFlush, Capture, PlaceType, tick, Places, Goto, Decides
  <2>20. CASE Release(i)
    BY <1>0, <2>20 DEF Release, PlaceType, tick, Places, Goto, Decides
  <2>21. CASE
        \/ Open(i) \/ Load(i) \/ Connect(i) \/ Disconnect(i) \/ CatchUp(i) \/ OnUpdate(i)
        \/ OnSyncStep1(i) \/ OnPersisted(i) \/ LoseFrame(i) \/ TryBecomeLeader(i)
    BY <1>0, <2>21 DEF Open, Load, Connect, Disconnect, CatchUp, OnUpdate, OnSyncStep1,
        OnPersisted, LoseFrame, TryBecomeLeader, Published, Lead, Checkpoint, tick, Places
  <2> QED
    BY <2>1, <2>2, <2>3, <2>4, <2>5, <2>6, <2>7, <2>8, <2>9, <2>10, <2>11, <2>12, <2>13, <2>14, <2>15, <2>16, <2>17, <2>18, <2>19, <2>20, <2>21 DEF StepOf
<1>3. publishing'[i] => pending'[i] # <<>>
  <2>1. CASE PublishOk(i)
    <3>1. /\ pending[i] \in Seq(Edits) /\ pending[i] # <<>> /\ pending'[i] = Tail(pending[i])
          /\ Len(pending[i]) = 1 => publishing'[i] = FALSE
      BY <1>0, <2>1 DEF PublishOk, DrainEnds, QueueType, Places
    <3>2. Len(Tail(pending[i])) = Len(pending[i]) - 1 /\ Len(pending[i]) \in Nat /\ Len(pending[i]) # 0
      BY <3>1, HeadTailProperties, EmptySeq
    <3>3. Len(<<>>) = 0
      BY EmptySeq
    <3>4. ASSUME Tail(pending[i]) = <<>> PROVE Len(pending[i]) = 1
      <4>1. Len(Tail(pending[i])) = 0
        BY <3>3, <3>4
      <4> QED
        BY <3>2, <4>1
    <3> QED
      BY <3>1, <3>4
  <2>2. CASE PublishFails(i)
    BY <1>0, <2>2 DEF PublishFails, DrainEnds, GoBack, QueueType, queue, Places
  <2>3. CASE TickStart(i)
    BY <1>0, <2>3 DEF TickStart, StartDrain, QueueType, queue, Places
  <2>4. CASE Takeover(i)
    BY <1>0, <2>4 DEF Takeover, Lead, Checkpoint, StartDrain, QueueType, queue, Places
  <2>5. CASE Evict(i)
    BY <1>0, <2>5 DEF Evict, StartDrain, QueueType, queue, Places
  <2>6. CASE
        \/ Open(i) \/ Load(i) \/ Connect(i) \/ Disconnect(i) \/ CatchUp(i) \/ OnUpdate(i)
        \/ OnSyncStep1(i) \/ OnPersisted(i) \/ LoseFrame(i) \/ TryBecomeLeader(i) \/ Renew(i)
        \/ Campaign(i) \/ LeaseCallFails(i) \/ FlushDue(i) \/ SnapshotDue(i) \/ CreateOk(i)
        \/ CreateFails(i) \/ RecordOk(i) \/ RecordFails(i) \/ StayWarm(i) \/ EvictIdle(i)
        \/ Shutdown(i) \/ Persist(i) \/ Compact(i) \/ Release(i)
    BY <1>0, <2>6 DEF Open, Load, Connect, Disconnect, CatchUp, OnUpdate, OnSyncStep1,
        OnPersisted, LoseFrame, TryBecomeLeader, Renew, Campaign, LeaseCallFails, FlushDue,
        SnapshotDue, CreateOk, CreateFails, RecordOk, RecordFails, StayWarm, EvictIdle,
        Shutdown, Persist, Compact, Release, Published, Lead, Checkpoint, StartFlush, Capture,
        GoBack, FlushStep, queue, Places
  <2> QED
    BY <2>1, <2>2, <2>3, <2>4, <2>5, <2>6 DEF StepOf
<1> QED
  BY <1>0, <1>1, <1>2, <1>3 DEF Places

(***************************************************************************)
(* The rest of Next                                                        *)
(***************************************************************************)

LEMMA EditStep ==
  ASSUME TypeInv, NEW i \in Instances, NEW e \in Edits, Edit(i, e) PROVE TypeInv'
<1>0. /\ StoreType /\ InboxType /\ RoomType /\ FlagType /\ CountType /\ KeptType
      /\ QueueType /\ WriteType /\ PlaceType /\ HistoryType /\ Places
      /\ \A j \in Instances : Absent(j)
  BY TypeParts DEF TypeInv
<1>1. UNCHANGED <<env, rows, nextRow, snap, lease, inbox, bus, leader, room, conn, asks, opened,
                  persistedUpTo, awaiting, pc, ret, taken, shot>>
  BY DEF Edit, store, redis, room_, clocks, tick
<1>2. /\ doc' = [doc EXCEPT ![i] = @ \cup {e}]
      /\ local' = [local EXCEPT ![i] = Append(@, Fresh(i, {e}))]
      /\ pending' = [pending EXCEPT ![i] = Append(@, e)]
      /\ publishing' = [publishing EXCEPT ![i] = TRUE]
      /\ acceptedBy' = [acceptedBy EXCEPT ![e] = i] /\ owed' = owed \cup {e} /\ conn[i]
  BY DEF Edit
<1>3. Fresh(i, {e}) \subseteq Content
  BY <1>0, VisibleType DEF Fresh, RoomType, Content
<1>4. /\ Append(local[i], Fresh(i, {e})) \in Seq(SUBSET Content)
      /\ Append(pending[i], e) \in Seq(Edits) /\ Append(pending[i], e) # <<>>
  <2>1. local[i] \in Seq(SUBSET Content) /\ pending[i] \in Seq(Edits)
    BY <1>0 DEF KeptType, QueueType
  <2>2. Append(local[i], Fresh(i, {e})) \in Seq(SUBSET Content)
    BY <1>3, <2>1, AppendProperties
  <2>3. Append(pending[i], e) \in Seq(Edits) /\ Append(pending[i], e) # <<>>
    BY <2>1, AppendProperties
  <2> QED
    BY <2>2, <2>3
<1>5. StoreType' /\ InboxType' /\ FlagType' /\ CountType' /\ WriteType' /\ PlaceType'
  BY <1>0, <1>1 DEF StoreType, InboxType, FlagType, CountType, WriteType, PlaceType
<1>6. RoomType'
  BY <1>0, <1>1, <1>2 DEF RoomType, Content
<1>7. KeptType'
  BY <1>0, <1>1, <1>2, <1>4 DEF KeptType
<1>8. QueueType'
  BY <1>0, <1>2, <1>4 DEF QueueType
<1>9. HistoryType'
  BY <1>0, <1>2 DEF HistoryType
<1>10. Places'
  BY <1>0, <1>1, <1>2, <1>4 DEF Places, QueueType
<1>11. ASSUME NEW j \in Instances PROVE Absent(j)'
  <2>1. CASE j = i
    BY <1>0, <1>1, <1>2, <2>1 DEF Absent
  <2>2. CASE j # i
    <3>1. doc'[j] = doc[j] /\ local'[j] = local[j] /\ pending'[j] = pending[j]
      BY <1>0, <1>2, <2>2 DEF RoomType, KeptType, QueueType
    <3> QED
      BY <1>0, <1>1, <3>1 DEF Absent
  <2> QED
    BY <2>1, <2>2
<1> QED
  BY <1>5, <1>6, <1>7, <1>8, <1>9, <1>10, <1>11, TypePartsNext DEF TypeInv

LEMMA GoneStep ==
  ASSUME TypeInv, NEW i \in Instances, Gone(i), owed' \subseteq owed,
         UNCHANGED <<env, rows, nextRow, snap, lease, opened, acceptedBy>>
  PROVE  TypeInv'
<1>0. /\ StoreType /\ InboxType /\ RoomType /\ FlagType /\ CountType /\ KeptType
      /\ QueueType /\ WriteType /\ PlaceType /\ HistoryType /\ Places
      /\ \A j \in Instances : Absent(j)
  BY TypeParts DEF TypeInv
<1>1. /\ <<>> \in Seq(Frames) /\ <<>> \in Seq(Edits) /\ <<>> \in Seq(SUBSET Content)
      /\ NoEntries \in [local : Seq(SUBSET Content), bus : SUBSET Content]
  BY EmptySeq DEF NoEntries
<1>2. StoreType' /\ HistoryType'
  BY <1>0 DEF StoreType, HistoryType
<1>3. InboxType' /\ RoomType'
  BY <1>0, <1>1 DEF Gone, InboxType, RoomType
<1>4. FlagType' /\ CountType'
  BY <1>0, BoundAssumption DEF Gone, FlagType, CountType
<1>5. KeptType' /\ QueueType'
  BY <1>0, <1>1 DEF Gone, KeptType, QueueType
<1>6. WriteType'
  BY <1>0, <1>1 DEF Gone, WriteType
<1>7. PlaceType'
  BY <1>0 DEF Gone, PlaceType, RunPC
<1>8. /\ pc'[i] = "idle" /\ publishing'[i] = FALSE /\ doc'[i] = {} /\ local'[i] = <<>> /\ bus'[i] = {}
      /\ pending'[i] = <<>> /\ inbox'[i] = <<>> /\ leader'[i] = FALSE /\ conn'[i] = FALSE
  BY <1>0 DEF Gone, InboxType, RoomType, FlagType, KeptType, QueueType, PlaceType
<1>9. ASSUME NEW j \in Instances, j # i
      PROVE  /\ pc'[j] = pc[j] /\ ret'[j] = ret[j] /\ publishing'[j] = publishing[j] /\ doc'[j] = doc[j]
             /\ local'[j] = local[j] /\ bus'[j] = bus[j] /\ pending'[j] = pending[j]
             /\ inbox'[j] = inbox[j] /\ leader'[j] = leader[j] /\ conn'[j] = conn[j] /\ room'[j] = room[j]
  BY <1>0, <1>9 DEF Gone, InboxType, RoomType, FlagType, KeptType, QueueType, PlaceType
<1>10. Places'
  BY <1>0, <1>8, <1>9 DEF Places
<1>11. ASSUME NEW j \in Instances PROVE Absent(j)'
  <2>1. CASE j = i
    BY <1>8, <2>1 DEF Absent
  <2>2. CASE j # i
    BY <1>0, <1>9, <2>2 DEF Absent
  <2> QED
    BY <2>1, <2>2
<1> QED
  BY <1>2, <1>3, <1>4, <1>5, <1>6, <1>7, <1>10, <1>11, TypePartsNext DEF TypeInv

LEMMA TypeInvInit == Init => TypeInv
<1> SUFFICES ASSUME Init PROVE TypeInv
  OBVIOUS
<1>1. /\ <<>> \in Seq(Frames) /\ <<>> \in Seq(Edits) /\ <<>> \in Seq(SUBSET Content)
      /\ NoEntries \in [local : Seq(SUBSET Content), bus : SUBSET Content]
  BY EmptySeq DEF NoEntries
<1>2. StoreType /\ InboxType /\ RoomType /\ FlagType /\ HistoryType
  BY <1>1, BoundAssumption DEF Init, StoreType, InboxType, RoomType, FlagType, HistoryType, Content
<1>3. CountType
  BY BoundAssumption DEF Init, CountType
<1>4. KeptType /\ QueueType
  BY <1>1 DEF Init, KeptType, QueueType
<1>5. WriteType
  BY <1>1 DEF Init, WriteType
<1>6. PlaceType /\ Places
  BY DEF Init, PlaceType, RunPC, Places
<1>7. \A j \in Instances : Absent(j)
  BY DEF Init, Absent
<1> QED
  BY <1>2, <1>3, <1>4, <1>5, <1>6, <1>7, TypeParts DEF TypeInv

LEMMA TypeInvStep == TypeInv /\ [Next]_vars => TypeInv'
<1> SUFFICES ASSUME TypeInv, [Next]_vars PROVE TypeInv'
  OBVIOUS
<1>1. ASSUME NEW i \in Instances, StepOf(i) PROVE TypeInv'
  <2>1. StoreType' /\ InboxType' /\ RoomType' /\ FlagType' /\ CountType' /\ KeptType'
        /\ QueueType' /\ WriteType' /\ PlaceType' /\ HistoryType'
    BY <1>1, StoreStep, InboxStep, RoomStep, FlagStep, CountStep, KeptStep, QueueStep, WriteStep,
       PlaceStep, HistoryStep
  <2>2. (\A j \in Instances : Absent(j)') /\ Places'
    BY <1>1, RoomsAbsent, PlacesStep
  <2> QED
    BY <2>1, <2>2, TypePartsNext DEF TypeInv
<1>2. ASSUME NEW i \in Instances, Unsubscribe(i) \/ Crash(i) PROVE TypeInv'
  <2>1. Gone(i) /\ owed' \subseteq owed /\ UNCHANGED <<env, rows, nextRow, snap, lease, opened, acceptedBy>>
    BY <1>2 DEF Unsubscribe, Crash, store, history
  <2> QED
    BY <2>1, GoneStep
<1>3. ASSUME NEW i \in Instances, NEW e \in Edits, Edit(i, e) PROVE TypeInv'
  BY <1>3, EditStep
<1>4. CASE LeaseExpires \/ UNCHANGED vars
  <2>1. /\ UNCHANGED <<env, rows, nextRow, snap, inbox, room, doc, local, bus, pending, publishing,
                       leader, persistedUpTo, awaiting, asks, conn, opened, pc, ret, taken, shot,
                       acceptedBy, owed>>
        /\ lease' \in {lease, Nobody}
    BY <1>4 DEF LeaseExpires, vars, store, redis, kept, queue, room_, clocks, tick, history
  <2> QED
    BY <2>1 DEF TypeInv, TypeOK, Places
<1>5. ASSUME NEW i \in Instances, Internal(i) \/ Fault(i) \/ Client(i)
      PROVE  StepOf(i) \/ Unsubscribe(i) \/ Crash(i) \/ \E e \in Edits : Edit(i, e)
  BY <1>5 DEF Internal, Fault, Client, StepOf
<1> QED
  BY <1>1, <1>2, <1>3, <1>4, <1>5 DEF Next

LEMMA TypeInvHolds == Spec => []TypeInv
BY TypeInvInit, TypeInvStep, PTL DEF Spec

\* The state of Backplane keeps its type, in every scenario: ids and counters stay
\* within their bounds, and an instance without a room (evicted, or dead) has no
\* buffer, queue, lease, socket, tick or frame (Room.destroy, evict).
THEOREM TypeCorrect == Spec => []TypeOK
BY TypeInvHolds, PTL DEF TypeInv

(***************************************************************************)
(* Confirmed edits                                                         *)
(***************************************************************************)

\* What a sequence of sets loses with its first n members is in these.
LEMMA DroppedIsPrefix ==
  ASSUME NEW S, NEW s \in Seq(S), NEW n \in 0 .. Len(s)
  PROVE  (UNION Range(s)) \ (UNION Range(SubSeq(s, n + 1, Len(s)))) \subseteq UNION Range(SubSeq(s, 1, n))
<1> DEFINE kept_ == SubSeq(s, n + 1, Len(s))
           prefix == SubSeq(s, 1, n)
<1>1. Len(s) \in Nat /\ \A k \in 1 .. Len(s) : s[k] \in S
  OBVIOUS
<1>2. /\ kept_ \in Seq(S) /\ Len(kept_) = Len(s) - n
      /\ \A k \in 1 .. (Len(s) - n) : kept_[k] = s[n + k]
  BY <1>1, SubSeqProperties
<1>3. prefix \in Seq(S) /\ Len(prefix) = n /\ \A k \in 1 .. n : prefix[k] = s[k]
  BY <1>1, SubSeqProperties
<1> HIDE DEF kept_, prefix
<1>4. /\ Range(s) = {s[k] : k \in 1 .. Len(s)}
      /\ Range(kept_) = {kept_[k] : k \in 1 .. Len(kept_)}
      /\ Range(prefix) = {prefix[k] : k \in 1 .. Len(prefix)}
  <2>1. Range(s) = {s[k] : k \in 1 .. Len(s)}
    BY RangeEquality
  <2>2. Range(kept_) = {kept_[k] : k \in 1 .. Len(kept_)}
    BY <1>2, RangeEquality
  <2>3. Range(prefix) = {prefix[k] : k \in 1 .. Len(prefix)}
    BY <1>3, RangeEquality
  <2> QED
    BY <2>1, <2>2, <2>3
<1>5. ASSUME NEW k \in 1 .. Len(s) PROVE s[k] \in Range(prefix) \/ s[k] \in Range(kept_)
  <2>1. CASE k <= n
    BY <1>3, <1>4, <2>1
  <2>2. CASE k > n
    <3>1. k - n \in 1 .. Len(kept_) /\ kept_[k - n] = s[k]
      BY <1>1, <1>2, <2>2
    <3> QED
      BY <1>4, <3>1
  <2> QED
    BY <1>1, <2>1, <2>2
<1>6. Range(s) \subseteq Range(prefix) \cup Range(kept_)
  BY <1>4, <1>5
<1>7. (UNION Range(s)) \ (UNION Range(kept_)) \subseteq UNION Range(prefix)
  BY <1>6
<1> QED
  BY <1>7 DEF kept_, prefix

\* Where no edit builds on another, all of a set shows.
LEMMA AllVisible ==
  ASSUME Unrelated, NEW S, S \subseteq Content PROVE Visible(S) = S
BY DEF Unrelated, Visible, Content

LEMMA ConfirmedStep ==
  ASSUME Unrelated, TypeInv, NEW i \in Instances, OnPersisted(i)
  PROVE  ((UNION Range(local[i])) \ (UNION Range(local'[i]))) \subseteq Head(inbox[i]).upd
<1>0. KeptType
  BY TypeParts DEF TypeInv
<1>1. local[i] \in Seq(SUBSET Content)
  BY <1>0 DEF KeptType
<1>2. CASE leader[i]
  <2>1. local'[i] = local[i]
    BY <1>2 DEF OnPersisted, kept
  <2> QED
    BY <2>1
<1>3. CASE ~leader[i]
  <2> DEFINE upd == Head(inbox[i]).upd
             n == Covered(i, upd)
  <2>1. /\ n \in 0 .. Len(local[i])
        /\ \A k \in 1 .. n : Visible(UNION Range(SubSeq(local[i], 1, k))) \subseteq upd
    BY <1>0, CoveredIs
  <2>2. local'[i] = SubSeq(local[i], n + 1, Len(local[i]))
    BY <1>0, <1>3 DEF OnPersisted, KeptType
  <2> HIDE DEF n, upd
  <2>3. (UNION Range(local[i])) \ (UNION Range(local'[i])) \subseteq UNION Range(SubSeq(local[i], 1, n))
    BY <1>1, <2>1, <2>2, DroppedIsPrefix
  <2>4. UNION Range(SubSeq(local[i], 1, n)) \subseteq upd
    <3>1. CASE n = 0
      <4>1. SubSeq(local[i], 1, n) = <<>>
        BY <3>1, SubSeqEmpty
      <4>2. Range(<<>>) = {}
        <5>1. <<>> \in Seq({})
          BY EmptySeq
        <5>2. Range(<<>>) \in SUBSET {}
          BY <5>1, RangeOfSeq
        <5> QED
          BY <5>2
      <4> QED
        BY <4>1, <4>2
    <3>2. CASE n # 0
      <4>1. n \in 1 .. n
        BY <1>1, <2>1, <3>2
      <4>2. \A k \in 1 .. n : local[i][k] \in SUBSET Content
        BY <1>1, <2>1
      <4>3. SubSeq(local[i], 1, n) \in Seq(SUBSET Content)
        BY <1>1, <2>1, <4>2, SubSeqProperties
      <4>4. Range(SubSeq(local[i], 1, n)) \in SUBSET (SUBSET Content)
        BY <4>3, RangeOfSeq
      <4>5. UNION Range(SubSeq(local[i], 1, n)) \subseteq Content
        BY <4>4
      <4> QED
        BY <2>1, <4>1, <4>5, AllVisible
    <3> QED
      BY <3>1, <3>2
  <2> QED
    BY <2>3, <2>4 DEF upd
<1> QED
  BY <1>2, <1>3

\* A leader announces what it has stored by its vector; a follower drops no edit of
\* its clients that the vector does not cover (onLeaderPersisted replays its entries
\* one by one), whatever is lost, repeated or late - where no edit builds on another.
THEOREM ConfirmedEditsOnlyAreDropped ==
  ASSUME Unrelated PROVE Spec => DroppedOnlyIfCovered
<1>1. TypeInv /\ [Next]_vars =>
        [\A i \in Instances : OnPersisted(i) =>
           ((UNION Range(local[i])) \ (UNION Range(local'[i]))) \subseteq Head(inbox[i]).upd]_vars
  BY ConfirmedStep
<1> QED
  BY <1>1, TypeInvHolds, PTL DEF Spec, DroppedOnlyIfCovered

-----------------------------------------------------------------------------
(* Who writes, and what is stored or kept. *)

\* Where only a leader gets, and where an instance's leadership was just checked.
LeadersOnly(i) ==
  \/ pc[i] \in {"create", "record", "takeoverFlush", "persist", "compact?", "rest", "release"}
  \/ pc[i] = "drain" /\ ret[i] \in {"takeoverFlush", "persist"}
Checked(i) == LeadersOnly(i) \/ pc[i] \in {"flush?", "snapshot?", "evict?", "evict"}

At(i) ==
  /\ pc[i] = "drain" => ret[i] \in {"lease", "takeoverFlush", "persist"}
  /\ LeadersOnly(i) => leader[i]
  /\ Checked(i) /\ leader[i] => lease = i

\* A leader that goes on to write has the lease.
LeaseInv ==
  /\ pc = [i \in Instances |-> pc[i]]
  /\ ret = [i \in Instances |-> ret[i]]
  /\ leader = [i \in Instances |-> leader[i]]
  /\ \A i \in Instances : At(i)

\* A step of i touches no other instance, and takes no lease from another.
LEMMA OneInstance ==
  ASSUME LeaseInv, NEW i \in Instances, NEW p, NEW q, NEW l,
         pc' = [pc EXCEPT ![i] = p], ret' = [ret EXCEPT ![i] = q],
         leader' = [leader EXCEPT ![i] = l],
         lease' = lease \/ (lease \in {Nobody, i}),
         At(i)'
  PROVE  LeaseInv'
<1>1. ASSUME NEW j \in Instances, j # i PROVE At(j)'
  <2>1. pc'[j] = pc[j] /\ ret'[j] = ret[j] /\ leader'[j] = leader[j]
    BY <1>1 DEF LeaseInv
  <2>2. lease = j => lease' = j
    BY <1>1, NobodyAssumption
  <2> QED
    BY <2>1, <2>2 DEF LeaseInv, At, Checked, LeadersOnly
<1> QED
  BY <1>1 DEF LeaseInv

\* A step that keeps the place, the leaders and the lease.
LEMMA Elsewhere ==
  ASSUME LeaseInv, UNCHANGED <<pc, ret, leader, lease>> PROVE LeaseInv'
BY DEF LeaseInv, At, Checked, LeadersOnly

\* The end of a drain: who awaited it goes where it was going.
LEMMA DrainStep ==
  ASSUME LeaseInv, NEW i \in Instances, DrainEnds(i), UNCHANGED <<leader, lease>>
  PROVE  LeaseInv'
<1>1. CASE pc[i] = "drain"
  <2>1. pc' = [pc EXCEPT ![i] = ret[i]] /\ ret' = [ret EXCEPT ![i] = "lease"]
    BY <1>1 DEF DrainEnds, GoBack
  <2>2. At(i)'
    BY <1>1, <2>1 DEF LeaseInv, At, Checked, LeadersOnly
  <2>3. leader' = [leader EXCEPT ![i] = leader[i]]
    BY DEF LeaseInv
  <2> QED
    BY <2>1, <2>2, <2>3, OneInstance
<1>2. CASE pc[i] # "drain"
  BY <1>2, Elsewhere DEF DrainEnds
<1> QED
  BY <1>1, <1>2

\* A step that goes from one place to another without asking for the lease.
LEMMA Moves ==
  ASSUME LeaseInv, NEW i \in Instances, NEW p, NEW q, UNCHANGED <<leader, lease>>,
         pc' = [pc EXCEPT ![i] = p], ret' = [ret EXCEPT ![i] = q],
         p = "drain" => q \in {"lease", "takeoverFlush", "persist"},
         \/ Checked(i) /\ leader[i]
         \/ ~leader[i] /\ p \in {"flush?", "evict?", "evict"}
         \/ p \in {"idle", "lease", "takeover", "unsubscribe"}
         \/ p = "drain" /\ q = "lease"
  PROVE  LeaseInv'
<1>1. leader' = [leader EXCEPT ![i] = leader[i]]
  BY DEF LeaseInv
<1>2. pc'[i] = p /\ ret'[i] = q /\ leader'[i] = leader[i]
  BY DEF LeaseInv
<1>3. At(i)'
  BY <1>2 DEF LeaseInv, At, Checked, LeadersOnly
<1> QED
  BY <1>1, <1>3, OneInstance

\* Steps between two awaits, and back from a call: a tick that writes was let
\* through as a leader.
LEMMA TickStep ==
  ASSUME LeaseInv, NEW i \in Instances,
         \/ TickStart(i) \/ FlushDue(i) \/ SnapshotDue(i) \/ CreateOk(i) \/ RecordOk(i)
         \/ CreateFails(i) \/ RecordFails(i) \/ StayWarm(i) \/ EvictIdle(i)
         \/ Evict(i) \/ Persist(i) \/ Compact(i)
  PROVE  LeaseInv'
<1>1. UNCHANGED <<leader, lease>>
  BY DEF TickStart, FlushDue, SnapshotDue, CreateOk, RecordOk, CreateFails, RecordFails, StayWarm,
         EvictIdle, Evict, Persist, FlushStep, Compact, redis
<1>2. ret = [ret EXCEPT ![i] = ret[i]]
  BY DEF LeaseInv
<1>3. (LeadersOnly(i) => leader[i]) /\ (pc[i] = "drain" => ret[i] \in {"lease", "takeoverFlush", "persist"})
  BY DEF LeaseInv, At
<1>4. CASE TickStart(i)
  <2>1. \/ pc' = [pc EXCEPT ![i] = "drain"] /\ ret' = [ret EXCEPT ![i] = "lease"]
        \/ pc' = [pc EXCEPT ![i] = "lease"] /\ ret' = ret
    BY <1>4 DEF TickStart, StartDrain, Goto
  <2> QED
    BY <1>1, <1>2, <2>1, Moves
<1>5. CASE FlushDue(i)
  <2>1. /\ Checked(i) /\ leader[i]
        /\ pc' = [pc EXCEPT ![i] = "create"] /\ ret' = [ret EXCEPT ![i] = "snapshot?"]
    BY <1>5 DEF FlushDue, StartFlush, Goto, Checked
  <2> QED
    BY <1>1, <2>1, Moves
<1>6. CASE SnapshotDue(i)
  <2>1. /\ Checked(i) /\ leader[i]
        /\ \/ pc' = [pc EXCEPT ![i] = "create"] /\ ret' = [ret EXCEPT ![i] = "capture"]
           \/ pc' = [pc EXCEPT ![i] = "record"] /\ ret' = [ret EXCEPT ![i] = "evict?"]
    BY <1>6 DEF SnapshotDue, StartFlush, Capture, Goto, Checked
  <2> QED
    BY <1>1, <2>1, Moves
<1>7. CASE CreateOk(i)
  <2>1. /\ Checked(i) /\ leader[i] /\ pc[i] # "drain"
        /\ \/ pc' = [pc EXCEPT ![i] = "record"] /\ ret' \in {[ret EXCEPT ![i] = "evict?"], [ret EXCEPT ![i] = "rest"]}
           \/ pc' = [pc EXCEPT ![i] = ret[i]] /\ ret' = [ret EXCEPT ![i] = "lease"]
    BY <1>3, <1>7 DEF CreateOk, Capture, GoBack, Goto, Checked, LeadersOnly
  <2> QED
    BY <1>1, <2>1, Moves
<1>8. CASE RecordOk(i) \/ RecordFails(i)
  <2>1. /\ Checked(i) /\ leader[i]
        /\ pc' = [pc EXCEPT ![i] = ret[i]] /\ ret' = [ret EXCEPT ![i] = "lease"]
    BY <1>3, <1>8 DEF RecordOk, RecordFails, GoBack, Checked, LeadersOnly
  <2> QED
    BY <1>1, <2>1, Moves
<1>9. CASE CreateFails(i)
  <2>1. /\ Checked(i) /\ leader[i] /\ ret' = [ret EXCEPT ![i] = "lease"]
        /\ pc' \in {[pc EXCEPT ![i] = "evict?"], [pc EXCEPT ![i] = "rest"], [pc EXCEPT ![i] = "idle"]}
    BY <1>3, <1>9 DEF CreateFails, Goto, Checked, LeadersOnly
  <2> QED
    BY <1>1, <2>1, Moves
<1>10. CASE StayWarm(i)
  BY <1>1, <1>2, <1>10, Moves DEF StayWarm, Goto
<1>11. CASE EvictIdle(i)
  <2>1. /\ Checked(i) /\ ret' = ret
        /\ pc' \in {[pc EXCEPT ![i] = "takeover"], [pc EXCEPT ![i] = "evict"]}
    BY <1>11 DEF EvictIdle, Goto, Decides, Checked
  <2>2. leader[i] \/ ~leader[i]
    OBVIOUS
  <2> QED
    BY <1>1, <1>2, <2>1, <2>2, Moves
<1>12. CASE Evict(i)
  <2>1. CASE leader[i]
    <3>1. /\ Checked(i)
          /\ \/ pc' = [pc EXCEPT ![i] = "drain"] /\ ret' = [ret EXCEPT ![i] = "persist"]
             \/ pc' = [pc EXCEPT ![i] = "persist"] /\ ret' = ret
      BY <1>12, <2>1 DEF Evict, StartDrain, Goto, Checked
    <3> QED
      BY <1>1, <1>2, <2>1, <3>1, Moves
  <2>2. CASE ~leader[i]
    BY <1>1, <1>2, <1>12, <2>2, Moves DEF Evict, Goto
  <2> QED
    BY <2>1, <2>2
<1>13. CASE Persist(i)
  <2>1. /\ Checked(i) /\ leader[i]
        /\ \/ pc' = [pc EXCEPT ![i] = "create"] /\ \E q : ret' = [ret EXCEPT ![i] = q]
           \/ /\ pc' \in {[pc EXCEPT ![i] = "evict"], [pc EXCEPT ![i] = "compact?"], [pc EXCEPT ![i] = "release"]}
              /\ ret' = ret
    BY <1>3, <1>13 DEF Persist, FlushStep, StartFlush, Goto, Checked, LeadersOnly
  <2> QED
    BY <1>1, <1>2, <2>1, Moves
<1>14. CASE Compact(i)
  <2>1. /\ Checked(i) /\ leader[i]
        /\ \/ pc' = [pc EXCEPT ![i] = "rest"] /\ ret' = ret
           \/ pc' \in {[pc EXCEPT ![i] = "create"], [pc EXCEPT ![i] = "record"]} /\ \E q : ret' = [ret EXCEPT ![i] = q]
    BY <1>3, <1>14 DEF Compact, StartFlush, Capture, Goto, Checked, LeadersOnly
  <2> QED
    BY <1>1, <1>2, <2>1, Moves
<1> QED
  BY <1>4, <1>5, <1>6, <1>7, <1>8, <1>9, <1>10, <1>11, <1>12, <1>13, <1>14

\* Steps that ask for the lease, or give it up.
LEMMA ElectionStep ==
  ASSUME LeaseHolds, LeaseInv, NEW i \in Instances,
         TryBecomeLeader(i) \/ Renew(i) \/ Campaign(i) \/ Takeover(i) \/ Release(i)
  PROVE  LeaseInv'
<1>1. pc = [pc EXCEPT ![i] = pc[i]] /\ ret = [ret EXCEPT ![i] = ret[i]]
      /\ leader = [leader EXCEPT ![i] = leader[i]]
  BY DEF LeaseInv
<1>2. CASE TryBecomeLeader(i)
  <2>1. /\ UNCHANGED <<pc, ret>> /\ lease' = i /\ lease \in {Nobody, i}
        /\ leader' = [leader EXCEPT ![i] = TRUE]
    BY <1>2 DEF TryBecomeLeader, Lead, Free, tick
  <2>2. At(i)'
    BY <2>1 DEF LeaseInv, At, Checked, LeadersOnly
  <2> QED
    BY <1>1, <2>1, <2>2, OneInstance
<1>3. CASE Renew(i)
  <2>1. CASE Renews(i)
    <3>1. pc' = [pc EXCEPT ![i] = "flush?"] /\ UNCHANGED <<ret, leader, lease>> /\ lease = i
      BY <1>3, <2>1 DEF Renew, Renews, Goto, redis
    <3>2. At(i)'
      BY <3>1 DEF LeaseInv, At, Checked, LeadersOnly
    <3> QED
      BY <1>1, <3>1, <3>2, OneInstance
  <2>2. CASE ~Renews(i)
    <3>1. /\ leader' = [leader EXCEPT ![i] = FALSE] /\ UNCHANGED <<pc, ret, lease>> /\ pc[i] = "lease"
      BY <1>3, <2>2 DEF Renew, redis
    <3>2. At(i)'
      BY <3>1 DEF LeaseInv, At, Checked, LeadersOnly
    <3> QED
      BY <1>1, <3>1, <3>2, OneInstance
  <2> QED
    BY <2>1, <2>2
<1>4. CASE Campaign(i)
  <2>1. /\ pc' = [pc EXCEPT ![i] = "flush?"] /\ UNCHANGED ret /\ ~leader[i]
        /\ \/ lease' = i /\ lease \in {Nobody, i} /\ leader' = [leader EXCEPT ![i] = TRUE]
           \/ UNCHANGED <<lease, leader>>
    BY <1>4 DEF Campaign, Lead, Free, Goto
  <2>2. At(i)'
    BY <2>1 DEF LeaseInv, At, Checked, LeadersOnly
  <2> QED
    BY <1>1, <2>1, <2>2, OneInstance
<1>5. CASE Takeover(i)
  <2>1. CASE Free(i)
    <3>1. /\ lease' = i /\ lease \in {Nobody, i} /\ leader' = [leader EXCEPT ![i] = TRUE]
          /\ \/ pc' = [pc EXCEPT ![i] = "drain"] /\ ret' = [ret EXCEPT ![i] = "takeoverFlush"]
             \/ pc' = [pc EXCEPT ![i] = "takeoverFlush"] /\ ret' = ret
      BY <1>5, <2>1 DEF Takeover, Lead, Free, StartDrain, Goto
    <3>2. At(i)'
      BY <3>1 DEF LeaseInv, At, Checked, LeadersOnly
    <3> QED
      BY <1>1, <3>1, <3>2, OneInstance
  <2>2. CASE ~Free(i)
    BY <1>1, <1>5, <2>2, Moves DEF Takeover, Goto
  <2> QED
    BY <2>1, <2>2
<1>6. CASE Release(i)
  <2>1. /\ pc' = [pc EXCEPT ![i] = "unsubscribe"] /\ ret' = ret
        /\ leader' = [leader EXCEPT ![i] = FALSE]
        /\ lease' = lease \/ (lease = i)
    BY <1>6 DEF Release, Goto
  <2>2. At(i)'
    BY <2>1 DEF LeaseInv, At, Checked, LeadersOnly
  <2> QED
    BY <1>1, <2>1, <2>2, OneInstance
<1> QED
  BY <1>2, <1>3, <1>4, <1>5, <1>6

\* What may happen is fixed when a behaviour begins.
LEMMA EnvStays == [Next]_vars => env' = env
<1>1. ASSUME NEW i \in Instances, Internal(i) PROVE env' = env
  BY <1>1 DEF Internal, Load, PublishOk, CatchUp, OnUpdate, OnSyncStep1, OnPersisted, TickStart,
              Renew, Campaign, FlushDue, SnapshotDue, CreateOk, RecordOk, StayWarm, EvictIdle,
              Takeover, Evict, Persist, FlushStep, Compact, Release, Unsubscribe
<1>2. ASSUME NEW i \in Instances, Fault(i) \/ Client(i) PROVE env' = env
  BY <1>2 DEF Fault, Client, PublishFails, LoseFrame, LeaseCallFails, CreateFails, RecordFails,
              Crash, Open, Connect, Disconnect, TryBecomeLeader, Shutdown, Edit
<1> QED
  BY <1>1, <1>2 DEF Next, LeaseExpires, vars

LEMMA LeaseInvInit == Init => LeaseInv
BY DEF Init, LeaseInv, At, Checked, LeadersOnly

LEMMA LeaseStep == LeaseHolds /\ LeaseInv /\ [Next]_vars => LeaseInv'
<1> SUFFICES ASSUME LeaseHolds, LeaseInv, [Next]_vars PROVE LeaseInv'
  OBVIOUS
<1>1. CASE LeaseExpires
  <2>1. /\ lease # Nobody /\ lease' = Nobody /\ UNCHANGED <<pc, ret, leader>>
        /\ ~leader[lease] \/ pc[lease] = "idle"
    BY <1>1 DEF LeaseExpires, LeaseHolds, tick
  <2>2. \A j \in Instances : ~(Checked(j) /\ leader[j])
    BY <2>1 DEF LeaseInv, At, Checked, LeadersOnly
  <2> QED
    BY <2>1, <2>2 DEF LeaseInv, At, Checked, LeadersOnly
<1>2. ASSUME NEW i \in Instances, Internal(i) \/ Fault(i) \/ Client(i) PROVE LeaseInv'
  <2>1. CASE \/ TickStart(i) \/ FlushDue(i) \/ SnapshotDue(i) \/ CreateOk(i) \/ RecordOk(i)
             \/ CreateFails(i) \/ RecordFails(i) \/ StayWarm(i) \/ EvictIdle(i)
             \/ Evict(i) \/ Persist(i) \/ Compact(i)
    BY <2>1, TickStep
  <2>2. CASE TryBecomeLeader(i) \/ Renew(i) \/ Campaign(i) \/ Takeover(i) \/ Release(i)
    BY <2>2, ElectionStep
  <2>3. CASE PublishOk(i) \/ PublishFails(i)
    <3>1. UNCHANGED <<leader, lease>> /\ (DrainEnds(i) \/ UNCHANGED <<pc, ret>>)
      BY <2>3 DEF PublishOk, PublishFails
    <3> QED
      BY <3>1, DrainStep, Elsewhere
  <2>4. CASE Unsubscribe(i) \/ Crash(i)
    <3>1. /\ pc' = [pc EXCEPT ![i] = "idle"] /\ ret' = [ret EXCEPT ![i] = "lease"]
          /\ leader' = [leader EXCEPT ![i] = FALSE] /\ lease' = lease
      BY <2>4 DEF Unsubscribe, Crash, Gone
    <3>2. At(i)'
      BY <3>1 DEF LeaseInv, At, Checked, LeadersOnly
    <3> QED
      BY <3>1, <3>2, OneInstance
  <2>5. CASE \/ Load(i) \/ CatchUp(i) \/ OnUpdate(i) \/ OnSyncStep1(i) \/ OnPersisted(i)
             \/ LoseFrame(i) \/ Open(i) \/ Connect(i) \/ Disconnect(i)
             \/ \E e \in Edits : Edit(i, e)
    <3>1. UNCHANGED <<pc, ret, leader, lease>>
      BY <2>5 DEF Load, CatchUp, OnUpdate, OnSyncStep1, OnPersisted, LoseFrame, Open, Connect,
                  Disconnect, Edit, tick, redis
    <3> QED
      BY <3>1, Elsewhere
  <2>6. ~LeaseCallFails(i) /\ ~Shutdown(i)
    BY DEF LeaseCallFails, Shutdown, LeaseHolds
  <2> QED
    BY <1>2, <2>1, <2>2, <2>3, <2>4, <2>5, <2>6 DEF Internal, Fault, Client
<1>3. CASE UNCHANGED vars
  BY <1>3, Elsewhere DEF vars, tick, redis
<1> QED
  BY <1>1, <1>2, <1>3 DEF Next

\* Two backends never flush or compact one document at the same time: what a
\* tick writes it writes under the lease it renewed or took when it began, and
\* a follower that evicts an unsaved room takes the lease first.
THEOREM OneWriterUnderLease == Spec => []OneWriter
<1> DEFINE Inv == LeaseHolds => LeaseInv
<1>1. Init => Inv
  BY LeaseInvInit
<1>2. Inv /\ [Next]_vars => Inv'
  <2> SUFFICES ASSUME Inv, [Next]_vars, LeaseHolds' PROVE LeaseInv'
    OBVIOUS
  <2>1. LeaseHolds
    BY EnvStays DEF LeaseHolds
  <2> QED
    BY <2>1, LeaseStep
<1>3. Inv => OneWriter
  BY DEF LeaseInv, At, Checked, LeadersOnly, OneWriter, Writing
<1> QED
  BY <1>1, <1>2, <1>3, PTL DEF Spec

(***************************************************************************)
(* Sequences as sets                                                       *)
(***************************************************************************)

LEMMA RangeAppends ==
  ASSUME NEW S, NEW s \in Seq(S), NEW x \in S
  PROVE  Range(Append(s, x)) = Range(s) \cup {x}
<1>1. /\ Append(s, x) \in Seq(S) /\ Len(Append(s, x)) = Len(s) + 1 /\ Len(s) \in Nat
      /\ \A k \in 1 .. Len(s) : Append(s, x)[k] = s[k]
      /\ Append(s, x)[Len(s) + 1] = x
  BY AppendProperties
<1>2. /\ Range(s) = {s[k] : k \in 1 .. Len(s)}
      /\ Range(Append(s, x)) = {Append(s, x)[k] : k \in 1 .. Len(Append(s, x))}
  BY <1>1, RangeEquality
<1>3. 1 .. Len(Append(s, x)) = (1 .. Len(s)) \cup {Len(s) + 1}
  BY <1>1
<1> QED
  BY <1>1, <1>2, <1>3

LEMMA RangeTakes ==
  ASSUME NEW S, NEW s \in Seq(S), s # <<>>
  PROVE  Head(s) \in Range(s) /\ Range(Tail(s)) \subseteq Range(s) /\ Range(s) \subseteq Range(Tail(s)) \cup {Head(s)}
<1>1. /\ Tail(s) \in Seq(S) /\ Len(Tail(s)) = Len(s) - 1 /\ Len(s) \in Nat /\ Len(s) # 0
      /\ Head(s) = s[1] /\ \A k \in 1 .. Len(Tail(s)) : Tail(s)[k] = s[k + 1]
  BY HeadTailProperties, EmptySeq
<1>2. /\ Range(s) = {s[k] : k \in 1 .. Len(s)}
      /\ Range(Tail(s)) = {Tail(s)[k] : k \in 1 .. Len(Tail(s))}
  BY <1>1, RangeEquality
<1>3. ASSUME NEW k \in 1 .. Len(Tail(s)) PROVE Tail(s)[k] \in Range(s)
  BY <1>1, <1>2, <1>3
<1>4. ASSUME NEW k \in 1 .. Len(s) PROVE s[k] = Head(s) \/ s[k] \in Range(Tail(s))
  <2>1. CASE k = 1
    BY <1>1, <2>1
  <2>2. CASE k # 1
    <3>1. k - 1 \in 1 .. Len(Tail(s)) /\ Tail(s)[k - 1] = s[k]
      BY <1>1, <2>2
    <3> QED
      BY <1>2, <3>1
  <2> QED
    BY <2>1, <2>2
<1> QED
  BY <1>1, <1>2, <1>3, <1>4

LEMMA RangeJoins ==
  ASSUME NEW S, NEW s \in Seq(S), NEW t \in Seq(S)
  PROVE  Range(s \o t) = Range(s) \cup Range(t)
<1>1. /\ s \o t \in Seq(S) /\ Len(s \o t) = Len(s) + Len(t) /\ Len(s) \in Nat /\ Len(t) \in Nat
      /\ \A k \in 1 .. (Len(s) + Len(t)) : (s \o t)[k] = IF k <= Len(s) THEN s[k] ELSE t[k - Len(s)]
  BY ConcatProperties
<1>2. /\ Range(s) = {s[k] : k \in 1 .. Len(s)} /\ Range(t) = {t[k] : k \in 1 .. Len(t)}
      /\ Range(s \o t) = {(s \o t)[k] : k \in 1 .. Len(s \o t)}
  BY <1>1, RangeEquality
<1>3. ASSUME NEW k \in 1 .. Len(s \o t) PROVE (s \o t)[k] \in Range(s) \cup Range(t)
  <2>1. CASE k <= Len(s)
    BY <1>1, <1>2, <2>1
  <2>2. CASE k > Len(s)
    <3>1. k - Len(s) \in 1 .. Len(t) /\ (s \o t)[k] = t[k - Len(s)]
      BY <1>1, <2>2
    <3> QED
      BY <1>2, <3>1
  <2> QED
    BY <1>1, <2>1, <2>2
<1>4. ASSUME NEW k \in 1 .. Len(s) PROVE s[k] \in Range(s \o t)
  <2>1. k \in 1 .. Len(s \o t) /\ (s \o t)[k] = s[k]
    BY <1>1
  <2> QED
    BY <1>2, <2>1
<1>5. ASSUME NEW k \in 1 .. Len(t) PROVE t[k] \in Range(s \o t)
  <2>1. Len(s) + k \in 1 .. Len(s \o t) /\ (s \o t)[Len(s) + k] = t[k]
    BY <1>1
  <2> QED
    BY <1>2, <2>1
<1> QED
  BY <1>2, <1>3, <1>4, <1>5

LEMMA RangeEmpty == Range(<<>>) = {}
<1>1. <<>> \in Seq({})
  BY EmptySeq
<1>2. Range(<<>>) \in SUBSET {}
  BY <1>1, RangeOfSeq
<1> QED
  BY <1>2

LEMMA UnionOfTwo == ASSUME NEW A, NEW B PROVE UNION (A \cup B) = (UNION A) \cup (UNION B)
OBVIOUS

(***************************************************************************)
(* Frames                                                                  *)
(***************************************************************************)

\* A frame that is published reaches the other rooms; nothing else changes.
LEMMA PublishedFrames ==
  ASSUME InboxType, NEW i \in Instances, NEW f \in Frames, inbox' = Published(inbox, i, f),
         NEW j \in Instances
  PROVE  /\ Range(inbox[j]) \subseteq Range(inbox'[j])
         /\ Range(inbox'[j]) \subseteq Range(inbox[j]) \cup {f}
         /\ j # i /\ Live(j) => f \in Range(inbox'[j])
<1>1. inbox[j] \in Seq(Frames)
  BY DEF InboxType
<1>2. CASE j # i /\ Live(j)
  <2>1. inbox'[j] = Append(inbox[j], f)
    BY <1>2 DEF Published
  <2> QED
    BY <1>1, <2>1, RangeAppends
<1>3. CASE ~(j # i /\ Live(j))
  BY <1>3 DEF Published
<1> QED
  BY <1>2, <1>3

\* Taking a frame from the inbox of i.
LEMMA TakenFrames ==
  ASSUME InboxType, NEW i \in Instances, inbox[i] # <<>>, NEW j \in Instances
  PROVE  /\ Range(Take(i)[j]) \subseteq Range(inbox[j])
         /\ Range(inbox[j]) \subseteq Range(Take(i)[j]) \cup {Head(inbox[j])}
         /\ j # i => Take(i)[j] = inbox[j]
         /\ Head(inbox[i]) \in Range(inbox[i])
<1>1. inbox[i] \in Seq(Frames)
  BY DEF InboxType
<1>2. CASE j = i
  <2>1. Take(i)[j] = Tail(inbox[i])
    BY <1>2 DEF Take, InboxType
  <2> QED
    BY <1>1, <1>2, <2>1, RangeTakes
<1>3. CASE j # i
  <2>1. Take(i)[j] = inbox[j]
    BY <1>3 DEF Take, InboxType
  <2> QED
    BY <1>1, <1>3, <2>1, RangeTakes
<1> QED
  BY <1>2, <1>3

(***************************************************************************)
(* The events that are left                                                *)
(***************************************************************************)

LEMMA NotInSettled ==
  ASSUME Settled, NEW i \in Instances
  PROVE  ~LoseFrame(i) /\ ~LeaseCallFails(i) /\ ~Shutdown(i) /\ ~Crash(i) /\ LeaseHolds /\ "busy" \notin env
BY DEF Settled, LoseFrame, LeaseCallFails, Shutdown, Crash, LeaseHolds

\* A step of i leaves what the others have taken, captured and are to ask.
LEMMA OthersKeepMore ==
  ASSUME TypeInv, NEW i \in Instances, StepOf(i), NEW j \in Instances, j # i
  PROVE  taken'[j] = taken[j] /\ shot'[j] = shot[j] /\ asks'[j] = asks[j]
<1>0. WriteType /\ CountType
  BY TypeParts DEF TypeInv
<1>1. taken'[j] = taken[j] /\ shot'[j] = shot[j]
  <2>1. CASE
        \/ Open(i) \/ Load(i) \/ Connect(i) \/ Disconnect(i) \/ PublishOk(i) \/ PublishFails(i)
        \/ CatchUp(i) \/ OnUpdate(i) \/ OnSyncStep1(i) \/ OnPersisted(i) \/ LoseFrame(i)
        \/ TryBecomeLeader(i) \/ TickStart(i) \/ Renew(i) \/ Campaign(i) \/ LeaseCallFails(i)
        \/ StayWarm(i) \/ EvictIdle(i) \/ Takeover(i) \/ Shutdown(i) \/ Evict(i) \/ Release(i)
    BY <2>1 DEF Open, Load, Connect, Disconnect, PublishOk, PublishFails, CatchUp, OnUpdate,
        OnSyncStep1, OnPersisted, LoseFrame, TryBecomeLeader, TickStart, Renew, Campaign,
        LeaseCallFails, StayWarm, EvictIdle, Takeover, Shutdown, Evict, Release, tick
  <2>2. CASE
        \/ FlushDue(i) \/ SnapshotDue(i) \/ CreateOk(i) \/ CreateFails(i) \/ RecordOk(i)
        \/ RecordFails(i) \/ Persist(i) \/ Compact(i)
    BY <1>0, <2>2 DEF FlushDue, SnapshotDue, CreateOk, CreateFails, RecordOk, RecordFails, Persist,
        Compact, StartFlush, Capture, FlushStep, WriteType
  <2> QED
    BY <2>1, <2>2 DEF StepOf
<1>2. asks'[j] = asks[j]
  BY <1>0 DEF StepOf, CountType, Open, Load, Connect, Disconnect, PublishOk, PublishFails, CatchUp, OnUpdate,
        OnSyncStep1, OnPersisted, LoseFrame, TryBecomeLeader, TickStart, Renew, Campaign,
        LeaseCallFails, StayWarm, EvictIdle, Takeover, Shutdown, Evict, Release, FlushDue, SnapshotDue, CreateOk, CreateFails, RecordOk,
        RecordFails, Persist, Compact, FlushStep, room_
<1> QED
  BY <1>1, <1>2

\* Hence their buffers.
LEMMA OthersBuffers ==
  ASSUME TypeInv, NEW i \in Instances, StepOf(i), NEW j \in Instances, j # i
  PROVE  Buffers(j)' = Buffers(j) /\ Own(j)' = Own(j) /\ TakenEdits(j)' = TakenEdits(j)
BY OthersKeep, OthersKeepMore DEF Buffers, Own, TakenEdits

(***************************************************************************)
(* Steps that move nothing                                                 *)
(***************************************************************************)

\* Only the place of a tick, or which buffer an edit is in, changes.
Moved == 
  /\ UNCHANGED <<env, rows, snap, lease, leader, doc, pending, inbox, asks, acceptedBy, owed>>
  /\ \A j \in Instances : /\ room'[j] = "warm" => room[j] = "warm"
                          /\ Buffers(j)' = Buffers(j) /\ Own(j)' = Own(j)

LEMMA MovedKeeps == Contents /\ Moved => Contents'
<1> SUFFICES ASSUME Contents, Moved PROVE Contents'
  OBVIOUS
<1>1. Stored' = Stored /\ Typed' = Typed
  BY DEF Moved, Stored, EditsOf, Typed
<1>2. \A e : LeaderHas(e)' <=> LeaderHas(e)
  BY DEF Moved, LeaderHas
<1>3. \A e : LeaderBuffers(e)' <=> LeaderBuffers(e)
  BY DEF Moved, LeaderBuffers
<1>4. OneLeader' /\ FromDocuments'
  BY DEF Moved, Contents, OneLeader, FromDocuments
<1>5. OnlyTyped'
  BY <1>1 DEF Moved, Contents, OnlyTyped
<1>6. AllReach'
  BY DEF Moved, Contents, AllReach, Reaches, Request
<1>7. WritersKnow'
  BY <1>1, <1>2 DEF Moved, Contents, WritersKnow
<1>8. LeadersWrite'
  BY <1>1 DEF Moved, Contents, LeadersWrite
<1>9. Confirmed'
  BY <1>1, <1>3 DEF Moved, Contents, Confirmed
<1>10. OwedIsKept'
  BY <1>1, <1>3 DEF Moved, Contents, OwedIsKept
<1>11. SnapshotStandsForItsRows'
  BY DEF Moved, Contents, SnapshotStandsForItsRows
<1> QED
  BY <1>4, <1>5, <1>6, <1>7, <1>8, <1>9, <1>10, <1>11 DEF Contents

\* Taking the buffers to write them, and putting them back.
LEMMA TakeKeeps ==
  ASSUME TypeInv, NEW i \in Instances, NEW q, StartFlush(i, q), taken[i] = NoEntries
  PROVE  Buffers(i)' = Buffers(i) /\ Own(i)' = Own(i)
<1>0. KeptType /\ WriteType
  BY TypeParts DEF TypeInv
<1>1. /\ local'[i] = <<>> /\ bus'[i] = {} /\ taken'[i] = [local |-> local[i], bus |-> bus[i]]
      /\ taken[i].local = <<>> /\ taken[i].bus = {}
  BY <1>0 DEF StartFlush, KeptType, WriteType, NoEntries
<1> QED
  BY <1>1, RangeEmpty DEF Buffers, Own, TakenEdits

LEMMA PutBackKeeps ==
  ASSUME TypeInv, NEW i \in Instances, CreateFails(i)
  PROVE  Buffers(i)' = Buffers(i) /\ Own(i)' = Own(i)
<1>0. KeptType /\ WriteType
  BY TypeParts DEF TypeInv
<1>1. /\ local'[i] = taken[i].local \o local[i] /\ bus'[i] = taken[i].bus \cup bus[i]
      /\ taken'[i].local = <<>> /\ taken'[i].bus = {}
      /\ taken[i].local \in Seq(SUBSET Content) /\ local[i] \in Seq(SUBSET Content)
  BY <1>0 DEF CreateFails, KeptType, WriteType, NoEntries
<1>2. Range(local'[i]) = Range(taken[i].local) \cup Range(local[i])
  BY <1>1, RangeJoins
<1>3. UNION Range(local'[i]) = (UNION Range(taken[i].local)) \cup (UNION Range(local[i]))
  BY <1>2, UnionOfTwo
<1> QED
  BY <1>1, <1>3, RangeEmpty DEF Buffers, Own, TakenEdits

\* The steps of a tick that write nothing, sockets that come and go, and rooms that
\* begin to load.
LEMMA MovingSteps ==
  ASSUME TypeInv, Settled, OneLeader, Ticks, NEW i \in Instances,
         \/ Open(i) \/ Connect(i) \/ Disconnect(i) \/ TickStart(i) \/ Renew(i) \/ FlushDue(i)
         \/ SnapshotDue(i) \/ CreateFails(i) \/ RecordFails(i) \/ StayWarm(i) \/ EvictIdle(i)
         \/ Evict(i) \/ Persist(i) \/ Compact(i)
         \/ (Campaign(i) \/ Takeover(i) \/ PublishFails(i)) /\ UNCHANGED <<leader, lease, bus, inbox>>
  PROVE  Moved
<1>0. StepOf(i) /\ RoomType /\ KeptType /\ WriteType
  BY TypeParts DEF TypeInv, StepOf
<1>1. UNCHANGED <<env, rows, snap, lease, doc, pending, inbox, asks, acceptedBy, owed>>
  BY DEF Open, Connect, Disconnect, TickStart, Renew, FlushDue, SnapshotDue, CreateFails, RecordFails,
     StayWarm, EvictIdle, Evict, Persist, Compact, Campaign, Takeover, PublishFails, FlushStep,
     store, redis, room_, queue, history
<1>2. UNCHANGED leader
  BY DEF Open, Connect, Disconnect, TickStart, Renew, FlushDue, SnapshotDue, CreateFails, RecordFails,
     StayWarm, EvictIdle, Evict, Persist, Compact, Campaign, Takeover, PublishFails, FlushStep,
     OneLeader, Renews
<1>3. \A j \in Instances : room'[j] = "warm" => room[j] = "warm"
  BY <1>0 DEF Open, Connect, Disconnect, TickStart, Renew, FlushDue, SnapshotDue, CreateFails, RecordFails,
     StayWarm, EvictIdle, Evict, Persist, Compact, Campaign, Takeover, PublishFails, FlushStep,
     room_, RoomType
<1>4. Buffers(i)' = Buffers(i) /\ Own(i)' = Own(i)
  <2>1. CASE \/ Open(i) \/ Connect(i) \/ Disconnect(i) \/ TickStart(i) \/ Renew(i) \/ RecordFails(i)
             \/ StayWarm(i) \/ EvictIdle(i) \/ Evict(i)
             \/ (Campaign(i) \/ Takeover(i) \/ PublishFails(i)) /\ UNCHANGED <<leader, lease, bus, inbox>>
    <3>1. UNCHANGED <<local, bus, taken>>
      BY <2>1 DEF Open, Connect, Disconnect, TickStart, Renew, RecordFails,
         StayWarm, EvictIdle, Evict, Campaign, Takeover, PublishFails, kept, tick
    <3> QED
      BY <3>1 DEF Buffers, Own, TakenEdits
  <2>2. CASE FlushDue(i) \/ SnapshotDue(i) \/ Persist(i) \/ Compact(i)
    <3>1. taken[i] = NoEntries
      BY <2>2 DEF FlushDue, SnapshotDue, Persist, Compact, FlushStep, Ticks, TickOf
    <3>2. (\E q : StartFlush(i, q)) \/ UNCHANGED <<local, bus, taken>>
      BY <2>2 DEF FlushDue, SnapshotDue, Persist, Compact, FlushStep, kept
    <3> QED
      BY <3>1, <3>2, TakeKeeps DEF Buffers, Own, TakenEdits
  <2>3. CASE CreateFails(i)
    BY <2>3, PutBackKeeps
  <2> QED
    BY <2>1, <2>2, <2>3
<1> QED
  BY <1>0, <1>1, <1>2, <1>3, <1>4, OthersBuffers DEF Moved

(***************************************************************************)
(* Steps that lead, and those that end                                     *)
(***************************************************************************)

\* A new leader buffers all it has.
LEMMA LeadKeeps ==
  ASSUME TypeInv, Contents, NEW i \in Instances, Free(i), Lead(i),
         UNCHANGED <<env, rows, snap, doc, pending, inbox, asks, acceptedBy, owed, room, local, taken>>
  PROVE  Contents'
<1>0. KeptType /\ FlagType /\ RoomType
  BY TypeParts DEF TypeInv
<1>1. /\ leader'[i] /\ bus'[i] = bus[i] \cup doc[i] /\ lease' = i
      /\ \A j \in Instances : j # i => leader'[j] = leader[j] /\ bus'[j] = bus[j]
  BY <1>0 DEF Lead, Checkpoint, KeptType, FlagType
<1>2. \A j \in Instances : j # i => ~leader[j]
  BY NobodyAssumption DEF Free, Contents, OneLeader
<1>3. /\ Buffers(i)' = Buffers(i) \cup doc[i]
      /\ \A j \in Instances : Own(j)' = Own(j) /\ (j # i => Buffers(j)' = Buffers(j))
  BY <1>1 DEF Buffers, Own, TakenEdits
<1>4. Stored' = Stored /\ Typed' = Typed
  BY DEF Stored, EditsOf, Typed
<1>5. \A e : (LeaderHas(e) => LeaderHas(e)') /\ (LeaderBuffers(e) => LeaderBuffers(e)')
  BY <1>1, <1>2, <1>3 DEF LeaderHas, LeaderBuffers
<1>6. OneLeader'
  BY <1>1, <1>2 DEF OneLeader
<1>7. FromDocuments'
  BY <1>3 DEF Contents, FromDocuments
<1>8. OnlyTyped'
  BY <1>4 DEF Contents, OnlyTyped
<1>9. AllReach'
  BY DEF Contents, AllReach, Reaches, Request
<1>10. WritersKnow'
  BY <1>4, <1>5 DEF Contents, WritersKnow
<1>11. LeadersWrite'
  BY <1>1, <1>2, <1>3, <1>4 DEF Contents, LeadersWrite
<1>12. Confirmed' /\ OwedIsKept'
  BY <1>3, <1>4, <1>5 DEF Contents, Confirmed, OwedIsKept
<1>13. SnapshotStandsForItsRows'
  BY DEF Contents, SnapshotStandsForItsRows
<1> QED
  BY <1>6, <1>7, <1>8, <1>9, <1>10, <1>11, <1>12, <1>13 DEF Contents

\* When a leader lets go, all that is stored has reached whoever may follow it, and
\* its buffers are empty.
LEMMA ReachedAll ==
  ASSUME TypeInv, Settled, Contents, LeavesAlone, NEW j \in Instances, Stopping(j),
         NEW i \in Instances, room[i] = "warm", NEW e \in doc[j]
  PROVE  e \in doc[i]
<1>0. CountType /\ QueueType
  BY TypeParts DEF TypeInv
<1>1. Reaches(i, e)
  BY DEF Contents, AllReach
<1>2. /\ pending[j] = <<>> /\ \A k \in Instances : Resting(k)
  BY DEF LeavesAlone
<1>3. ~(asks[i] > 0)
  BY <1>2 DEF Resting, CatchingUp
<1>4. ~(\E f \in Range(inbox[i]) : f.kind \in Carries /\ e \in f.upd)
  BY <1>2 DEF Resting, OnlyConfirmations, Carries
<1>5. ~(\E k \in Instances : Request(i) \in Range(inbox[k]) /\ e \in doc[k])
  BY <1>2 DEF Resting, OnlyConfirmations, Request
<1>6. i # j => ~(\E k \in Instances : k # i /\ e \in Range(pending[k]))
  <2>1. CASE "outage" \in env
    <3>1. i # j => Instances = {i, j}
      BY <2>1 DEF Settled
    <3> QED
      BY <1>2, <3>1, RangeEmpty
  <2>2. CASE "outage" \notin env
    BY <1>2, <2>2, RangeEmpty DEF Resting
  <2> QED
    BY <2>1, <2>2
<1> QED
  BY <1>1, <1>3, <1>4, <1>5, <1>6 DEF Reaches

LEMMA ReleaseKeeps ==
  ASSUME TypeInv, LeaseInv, Settled, Contents, LeavesAlone, Ticks, NEW i \in Instances, Release(i)
  PROVE  Contents'
<1>0. FlagType /\ WriteType
  BY TypeParts DEF TypeInv
<1>1. /\ UNCHANGED <<env, rows, snap, doc, pending, inbox, asks, acceptedBy, owed, room, local, bus, taken>>
      /\ leader' = [leader EXCEPT ![i] = FALSE] /\ lease' = IF lease = i THEN Nobody ELSE lease
      /\ pc[i] = "release"
  BY DEF Release, store, kept, queue, room_, history
<1>2. Stopping(i) /\ leader[i] /\ Buffers(i) = {}
  <2>1. local[i] = <<>> /\ bus[i] = {} /\ taken[i] = NoEntries
    BY <1>1 DEF Ticks, TickOf, Buffered
  <2>2. Buffers(i) = {}
    BY <2>1, RangeEmpty DEF Buffers, TakenEdits, NoEntries
  <2> QED
    BY <1>1, <2>2 DEF Stopping, Evicts, LeaseInv, At, LeadersOnly
<1>3. \A j \in Instances : ~leader'[j]
  <2>1. lease = i /\ \A j \in Instances : j # i => ~leader[j]
    BY <1>2 DEF Contents, OneLeader
  <2> QED
    BY <1>0, <1>1, <2>1 DEF FlagType
<1>4. \A j \in Instances : Buffers(j)' = Buffers(j) /\ Own(j)' = Own(j)
  BY <1>1 DEF Buffers, Own, TakenEdits
<1>5. Stored' = Stored /\ Typed' = Typed
  BY <1>1 DEF Stored, EditsOf, Typed
<1>6. \A k \in Instances : leader[k] => k = i
  BY <1>2 DEF Contents, OneLeader
<1>7. \A e : ~LeaderBuffers(e)
  BY <1>2, <1>6 DEF LeaderBuffers
<1>8. \A e : LeaderHas(e) => e \in doc[i]
  BY <1>6 DEF LeaderHas
<1>9. FromDocuments' /\ OnlyTyped' /\ AllReach' /\ SnapshotStandsForItsRows'
  BY <1>1, <1>4, <1>5 DEF Contents, FromDocuments, OnlyTyped, AllReach, Reaches, Request, SnapshotStandsForItsRows
<1>10. WritersKnow'
  BY <1>1, <1>2, <1>5, <1>8, ReachedAll DEF Contents, WritersKnow
<1>11. OneLeader' /\ LeadersWrite'
  BY <1>3 DEF OneLeader, LeadersWrite
<1>12. Confirmed' /\ OwedIsKept'
  BY <1>1, <1>4, <1>5, <1>7 DEF Contents, Confirmed, OwedIsKept
<1> QED
  BY <1>9, <1>10, <1>11, <1>12 DEF Contents

\* A room that is gone has left nothing behind that is not stored.
LEMMA UnsubscribeKeeps ==
  ASSUME TypeInv, Settled, Contents, LeavesAlone, Ticks, NEW i \in Instances, Unsubscribe(i)
  PROVE  Contents'
<1>0. FlagType /\ WriteType /\ RoomType /\ KeptType /\ QueueType /\ CountType /\ InboxType
  BY TypeParts DEF TypeInv
<1>1. /\ UNCHANGED <<env, rows, snap, lease, acceptedBy, owed>> /\ pc[i] = "unsubscribe"
      /\ Gone(i)
  BY DEF Unsubscribe, store, history
<1>2. /\ doc'[i] = {} /\ local'[i] = <<>> /\ bus'[i] = {} /\ taken'[i] = NoEntries /\ ~leader'[i]
      /\ pending'[i] = <<>> /\ inbox'[i] = <<>> /\ room'[i] = "none"
      /\ \A j \in Instances : j # i =>
           /\ doc'[j] = doc[j] /\ local'[j] = local[j] /\ bus'[j] = bus[j] /\ taken'[j] = taken[j]
           /\ leader'[j] = leader[j] /\ pending'[j] = pending[j] /\ inbox'[j] = inbox[j]
           /\ room'[j] = room[j] /\ asks'[j] = asks[j]
  BY <1>0, <1>1 DEF Gone, FlagType, WriteType, RoomType, KeptType, QueueType, CountType, InboxType
<1>3. /\ ~leader[i] /\ local[i] = <<>> /\ taken[i] = NoEntries
      /\ pending[i] = <<>> /\ \A k \in Instances : Resting(k)
  BY <1>1 DEF Ticks, TickOf, LeavesAlone, Stopping, Evicts
<1>4. /\ Buffers(i)' = {} /\ Own(i)' = {} /\ Own(i) = {}
      /\ \A j \in Instances : j # i => Buffers(j)' = Buffers(j) /\ Own(j)' = Own(j)
  BY <1>2, <1>3, RangeEmpty DEF Buffers, Own, TakenEdits, NoEntries
<1>5. Stored' = Stored /\ Typed' = Typed
  BY <1>1 DEF Stored, EditsOf, Typed
<1>6. \A e : (LeaderHas(e) => LeaderHas(e)') /\ (LeaderBuffers(e) => LeaderBuffers(e)')
  BY <1>2, <1>3, <1>4 DEF LeaderHas, LeaderBuffers
<1>7. OneLeader' /\ LeadersWrite' /\ OnlyTyped'
  BY <1>1, <1>2, <1>4, <1>5 DEF Contents, OneLeader, LeadersWrite, OnlyTyped
<1>8. FromDocuments'
  <2>1. \A j \in Instances : Buffers(j)' \cup Range(pending'[j]) \subseteq doc'[j]
    BY <1>2, <1>4, RangeEmpty DEF Contents, FromDocuments
  <2>2. ASSUME NEW j \in Instances, NEW f \in Range(inbox'[j]) PROVE f.kind \notin Carries
    <3>1. CASE j = i
      BY <1>2, <2>2, <3>1, RangeEmpty
    <3>2. CASE j # i
      BY <1>2, <1>3, <2>2, <3>2 DEF Resting, OnlyConfirmations, Carries
    <3> QED
      BY <3>1, <3>2
  <2> QED
    BY <2>1, <2>2 DEF FromDocuments
<1>9. AllReach'
  <2>1. SUFFICES ASSUME NEW j \in Instances, room'[j] = "warm", NEW k \in Instances, NEW e \in doc'[k]
                 PROVE  Reaches(j, e)'
    BY DEF AllReach
  <2>2. j # i /\ k # i /\ Reaches(j, e)
    BY <1>2, <2>1 DEF Contents, AllReach
  <2>3. \A l \in Instances : Request(j) \notin Range(inbox[l])
    BY <1>3 DEF Resting, OnlyConfirmations, Request
  <2>4. \A l \in Instances : l # i \/ e \notin Range(pending[l])
    BY <1>3, RangeEmpty
  <2> QED
    BY <1>2, <2>2, <2>3, <2>4 DEF Reaches
<1>10. WritersKnow'
  BY <1>2, <1>5, <1>6 DEF Contents, WritersKnow
<1>11. Confirmed'
  <2>1. \A j \in Instances : Range(inbox'[j]) \subseteq Range(inbox[j])
    BY <1>2, RangeEmpty
  <2> QED
    BY <1>5, <1>6, <2>1 DEF Contents, Confirmed
<1>12. OwedIsKept'
  BY <1>1, <1>4, <1>5, <1>6 DEF Contents, OwedIsKept
<1>13. SnapshotStandsForItsRows'
  BY <1>1 DEF Contents, SnapshotStandsForItsRows
<1> QED
  BY <1>7, <1>8, <1>9, <1>10, <1>11, <1>12, <1>13 DEF Contents

(***************************************************************************)
(* Frames that are sent and taken                                          *)
(***************************************************************************)

\* Frames that add nothing but what a document has, or what is stored or buffered
\* by a leader, reach the other rooms; entries leave a queue when they do.
LEMMA SendKeeps ==
  ASSUME TypeInv, Contents, NEW i \in Instances, NEW f \in Frames, inbox' = Published(inbox, i, f),
         UNCHANGED <<env, rows, snap, lease, leader, doc, room, local, bus, taken, acceptedBy, owed>>,
         f.kind \in Carries => f.upd \subseteq doc[f.from],
         f.kind = "persisted" => \A e \in f.upd : e \in Stored \/ LeaderBuffers(e),
         \A j \in Instances : /\ Range(pending'[j]) \subseteq Range(pending[j])
                              /\ j # i => pending'[j] = pending[j] /\ asks'[j] = asks[j],
         \A e \in Range(pending[i]) : e \in Range(pending'[i]) \/ (f.kind \in Carries /\ e \in f.upd),
         asks'[i] # asks[i] => f = Request(i) /\ room[i] = "warm"
  PROVE  Contents'
<1>0. InboxType /\ RoomType
  BY TypeParts DEF TypeInv
<1>1. \A j \in Instances : /\ Range(inbox[j]) \subseteq Range(inbox'[j])
                           /\ Range(inbox'[j]) \subseteq Range(inbox[j]) \cup {f}
                           /\ j # i /\ Live(j) => f \in Range(inbox'[j])
  BY <1>0, PublishedFrames
<1>2. \A j \in Instances : Buffers(j)' = Buffers(j) /\ Own(j)' = Own(j)
  BY DEF Buffers, Own, TakenEdits
<1>3. Stored' = Stored /\ Typed' = Typed
  BY DEF Stored, EditsOf, Typed
<1>4. \A e : (LeaderHas(e) <=> LeaderHas(e)') /\ (LeaderBuffers(e) <=> LeaderBuffers(e)')
  BY <1>2 DEF LeaderHas, LeaderBuffers
<1>5. OneLeader' /\ OnlyTyped' /\ LeadersWrite' /\ SnapshotStandsForItsRows' /\ OwedIsKept'
  BY <1>2, <1>3, <1>4 DEF Contents, OneLeader, OnlyTyped, LeadersWrite, SnapshotStandsForItsRows, OwedIsKept
<1>6. FromDocuments'
  BY <1>1, <1>2 DEF Contents, FromDocuments
<1>7. WritersKnow'
  BY <1>3, <1>4 DEF Contents, WritersKnow
<1>8. Confirmed'
  BY <1>1, <1>3, <1>4 DEF Contents, Confirmed
<1>9. AllReach'
  <2>1. SUFFICES ASSUME NEW j \in Instances, room[j] = "warm", NEW k \in Instances, NEW e \in doc[k]
                 PROVE  Reaches(j, e)'
    BY DEF AllReach
  <2>2. Reaches(j, e)
    BY <2>1 DEF Contents, AllReach
  <2>3. Live(j) /\ Live(k)
    <3>1. doc[k] # {} => room[k] # "none"
      BY TypeParts DEF TypeInv, Absent
    <3> QED
      BY <2>1, <3>1 DEF Live
  <2>4. CASE asks[j] > 0 /\ asks'[j] # asks[j]
    <3>1. j = i /\ f = Request(i)
      BY <2>4
    <3>2. CASE k = i
      BY <3>1, <3>2 DEF Reaches
    <3>3. CASE k # i
      BY <1>1, <2>3, <3>1, <3>3 DEF Reaches, Request
    <3> QED
      BY <3>2, <3>3
  <2>5. CASE asks[j] > 0 /\ asks'[j] = asks[j]
    BY <2>5 DEF Reaches
  <2>6. CASE \E l \in Instances : l # j /\ e \in Range(pending[l])
    <3>1. PICK l \in Instances : l # j /\ e \in Range(pending[l])
      BY <2>6
    <3>2. CASE e \in Range(pending'[l])
      BY <3>1, <3>2 DEF Reaches
    <3>3. CASE e \notin Range(pending'[l])
      <4>1. l = i /\ f.kind \in Carries /\ e \in f.upd
        BY <3>1, <3>3
      <4> QED
        BY <1>1, <2>3, <3>1, <4>1 DEF Reaches
    <3> QED
      BY <3>2, <3>3
  <2>7. CASE \/ e \in doc[j]
             \/ \E g \in Range(inbox[j]) : g.kind \in Carries /\ e \in g.upd
             \/ \E l \in Instances : Request(j) \in Range(inbox[l]) /\ e \in doc[l]
    BY <1>1, <2>7 DEF Reaches, Request
  <2> QED
    BY <2>2, <2>4, <2>5, <2>6, <2>7 DEF Reaches
<1> QED
  BY <1>5, <1>6, <1>7, <1>8, <1>9 DEF Contents

LEMMA PublishKeeps ==
  ASSUME TypeInv, Contents, Ticks, OneLeader, Settled, NEW i \in Instances, PublishOk(i) \/ PublishFails(i)
  PROVE  Contents'
<1>0. QueueType /\ Places
  BY TypeParts DEF TypeInv
<1>1. pending[i] \in Seq(Edits) /\ pending[i] # <<>>
  BY <1>0 DEF PublishOk, PublishFails, QueueType, Places
<1> DEFINE f == [kind |-> "doc-update", upd |-> {Head(pending[i])}, from |-> i]
<1>2. /\ Head(pending[i]) \in Range(pending[i]) /\ Head(pending[i]) \in Edits
      /\ Range(Tail(pending[i])) \subseteq Range(pending[i])
      /\ Range(pending[i]) \subseteq Range(Tail(pending[i])) \cup {Head(pending[i])}
  BY <1>1, RangeTakes, HeadTailProperties
<1>3. f \in Frames /\ f.upd \subseteq doc[i] /\ f.from = i /\ f.kind = "doc-update"
  BY <1>2, FramesType DEF Content, Contents, FromDocuments
<1>4. UNCHANGED <<env, rows, snap, lease, leader, doc, room, local, bus, taken, acceptedBy, owed, asks>>
  BY DEF PublishOk, PublishFails, store, kept, room_, history
<1>5. CASE PublishOk(i)
  <2>1. inbox' = Published(inbox, i, f) /\ pending' = [pending EXCEPT ![i] = Tail(@)]
    BY <1>5 DEF PublishOk
  <2>2. /\ \A j \in Instances : Range(pending'[j]) \subseteq Range(pending[j]) /\ (j # i => pending'[j] = pending[j])
        /\ \A e \in Range(pending[i]) : e \in Range(pending'[i]) \/ e \in f.upd
    BY <1>0, <1>2, <2>1 DEF QueueType
  <2> HIDE DEF f
  <2> QED
    BY <1>3, <1>4, <2>1, <2>2, SendKeeps DEF Carries
<1>6. CASE PublishFails(i) /\ inbox' = Published(inbox, i, f)
  <2>1. UNCHANGED pending
    BY <1>6 DEF PublishFails
  <2> HIDE DEF f
  <2> QED
    BY <1>3, <1>4, <1>6, <2>1, SendKeeps DEF Carries
<1>7. CASE PublishFails(i) /\ UNCHANGED inbox
  <2>1. UNCHANGED <<leader, lease, bus, inbox>>
    BY <1>4, <1>7
  <2> QED
    BY <1>7, <2>1, MovingSteps, MovedKeeps
<1> QED
  BY <1>5, <1>6, <1>7 DEF PublishFails

LEMMA CatchUpKeeps ==
  ASSUME TypeInv, Contents, NEW i \in Instances, CatchUp(i), room[i] = "warm" PROVE Contents'
<1>0. CountType /\ QueueType
  BY TypeParts DEF TypeInv
<1> DEFINE f == Request(i)
<1>1. /\ inbox' = Published(inbox, i, f)
      /\ UNCHANGED <<env, rows, snap, lease, leader, doc, room, local, bus, taken, acceptedBy, owed, pending>>
      /\ \A j \in Instances : j # i => asks'[j] = asks[j]
  BY <1>0 DEF CatchUp, Request, store, kept, queue, tick, history, CountType
<1>2. f \in Frames /\ f.kind = "sync-step1"
  BY FramesType DEF Request
<1> HIDE DEF f
<1> QED
  BY <1>1, <1>2, SendKeeps DEF Carries, f

LEMMA AnswerKeeps ==
  ASSUME TypeInv, Contents, NEW i \in Instances, OnSyncStep1(i) PROVE Contents'
<1>0. InboxType /\ RoomType
  BY TypeParts DEF TypeInv
<1> DEFINE f == [kind |-> "sync-step2", upd |-> doc[i], from |-> i]
           to == Head(inbox[i]).from
           box == Take(i)
<1>1. /\ inbox[i] # <<>> /\ Head(inbox[i]).kind = "sync-step1" /\ to \in Instances
      /\ inbox' = Sent(box, to, f)
      /\ UNCHANGED <<env, rows, snap, lease, leader, doc, room, local, bus, taken, acceptedBy, owed, pending, asks>>
  BY <1>0, HeadFrame DEF OnSyncStep1, Next_, store, kept, queue, room_, tick, history
<1>2. /\ Head(inbox[i]) = Request(to) /\ f \in Frames
      /\ f.kind = "sync-step2" /\ f.upd = doc[i] /\ f.from = i
  <2>1. inbox[i] \in Seq(Frames)
    BY <1>0 DEF InboxType
  <2>2. Head(inbox[i]) \in Frames
    BY <1>1, <2>1, HeadTailProperties
  <2>3. f \in Frames
    BY <1>0, FramesType DEF RoomType
  <2> QED
    BY <1>1, <2>2, <2>3 DEF Frames, Request
<1>3. /\ box \in [Instances -> Seq(Frames)]
      /\ \A j \in Instances : /\ Range(box[j]) \subseteq Range(inbox[j])
                              /\ Range(inbox[j]) \subseteq Range(box[j]) \cup {Head(inbox[j])}
                              /\ j # i => box[j] = inbox[j]
  BY <1>0, <1>1, HeadFrame, TakenFrames
<1> HIDE DEF f, to, box
<1>4. \A j \in Instances : /\ Range(box[j]) \subseteq Range(inbox'[j])
                           /\ Range(inbox'[j]) \subseteq Range(box[j]) \cup {f}
                           /\ j = to /\ Live(j) => f \in Range(inbox'[j])
  <2>1. TAKE j \in Instances
  <2>2. CASE j = to /\ Live(j)
    <3>1. inbox'[j] = Append(box[j], f)
      BY <1>1, <1>3, <2>2 DEF Sent
    <3> QED
      BY <1>2, <1>3, <2>1, <2>2, <3>1, RangeAppends
  <2>3. CASE ~(j = to /\ Live(j))
    <3>1. inbox'[j] = box[j]
      BY <1>1, <1>3, <2>3 DEF Sent
    <3> QED
      BY <2>3, <3>1
  <2> QED
    BY <2>2, <2>3
<1>5. \A j \in Instances : Buffers(j)' = Buffers(j) /\ Own(j)' = Own(j)
  BY <1>1 DEF Buffers, Own, TakenEdits
<1>6. Stored' = Stored /\ Typed' = Typed
  BY <1>1 DEF Stored, EditsOf, Typed
<1>7. \A e : (LeaderHas(e) <=> LeaderHas(e)') /\ (LeaderBuffers(e) <=> LeaderBuffers(e)')
  BY <1>1, <1>5 DEF LeaderHas, LeaderBuffers
<1>8. OneLeader' /\ OnlyTyped' /\ LeadersWrite' /\ SnapshotStandsForItsRows' /\ OwedIsKept' /\ WritersKnow'
  BY <1>1, <1>5, <1>6, <1>7 DEF Contents, OneLeader, OnlyTyped, LeadersWrite, SnapshotStandsForItsRows, OwedIsKept,
     WritersKnow
<1>9. FromDocuments'
  <2>1. \A j \in Instances : Buffers(j)' \cup Range(pending'[j]) \subseteq doc'[j]
    BY <1>1, <1>5 DEF Contents, FromDocuments
  <2>2. ASSUME NEW j \in Instances, NEW g \in Range(inbox'[j]), g.kind \in Carries
        PROVE  g.upd \subseteq doc'[g.from]
    <3>1. g \in Range(inbox[j]) \/ g = f
      BY <1>3, <1>4, <2>2
    <3>2. CASE g \in Range(inbox[j])
      BY <1>1, <2>2, <3>2 DEF Contents, FromDocuments
    <3>3. CASE g = f
      BY <1>1, <1>2, <3>3
    <3> QED
      BY <3>1, <3>2, <3>3
  <2> QED
    BY <2>1, <2>2 DEF FromDocuments
<1>10. Confirmed'
  BY <1>2, <1>3, <1>4, <1>6, <1>7 DEF Contents, Confirmed
<1>11. AllReach'
  <2>1. SUFFICES ASSUME NEW j \in Instances, room[j] = "warm", NEW k \in Instances, NEW e \in doc[k]
                 PROVE  Reaches(j, e)'
    BY <1>1 DEF AllReach
  <2>2. Reaches(j, e)
    BY <2>1 DEF Contents, AllReach
  <2>3. CASE \E g \in Range(inbox[j]) : g.kind \in Carries /\ e \in g.upd
    <3>1. PICK g \in Range(inbox[j]) : g.kind \in Carries /\ e \in g.upd
      BY <2>3
    <3>2. g \in Range(box[j])
      BY <1>1, <1>3, <3>1 DEF Carries
    <3> QED
      BY <1>4, <3>1, <3>2 DEF Reaches
  <2>4. CASE \E l \in Instances : Request(j) \in Range(inbox[l]) /\ e \in doc[l]
    <3>1. PICK l \in Instances : Request(j) \in Range(inbox[l]) /\ e \in doc[l]
      BY <2>4
    <3>2. CASE Request(j) \in Range(box[l])
      BY <1>1, <1>4, <3>1, <3>2 DEF Reaches, Request
    <3>3. CASE Request(j) \notin Range(box[l])
      <4>1. l = i /\ Request(j) = Request(to)
        BY <1>2, <1>3, <3>1, <3>3
      <4>2. to = j
        BY <4>1 DEF Request
      <4> QED
        BY <1>2, <1>4, <2>1, <3>1, <4>1, <4>2 DEF Reaches, Live, Carries
    <3> QED
      BY <3>2, <3>3
  <2>5. CASE asks[j] > 0 \/ e \in doc[j] \/ \E l \in Instances : l # j /\ e \in Range(pending[l])
    BY <1>1, <2>5 DEF Reaches
  <2> QED
    BY <2>2, <2>3, <2>4, <2>5 DEF Reaches
<1> QED
  BY <1>8, <1>9, <1>10, <1>11 DEF Contents

(***************************************************************************)
(* Documents that grow                                                     *)
(***************************************************************************)

LEMMA FreshIs ==
  ASSUME Unrelated, TypeInv, NEW i \in Instances, NEW upd, upd \subseteq Content
  PROVE  Fresh(i, upd) = upd \ doc[i]
<1>1. doc[i] \subseteq Content /\ doc[i] \cup upd \subseteq Content
  BY TypeParts DEF TypeInv, RoomType
<1>2. Visible(doc[i]) = doc[i] /\ Visible(doc[i] \cup upd) = doc[i] \cup upd
  BY <1>1, AllVisible
<1> QED
  BY <1>2 DEF Fresh

\* An edit is in one buffer, in one queue, and nowhere else yet.
LEMMA EditKeeps ==
  ASSUME Unrelated, TypeInv, Contents, NEW i \in Instances, NEW e \in Edits, Edit(i, e)
  PROVE  Contents'
<1>0. RoomType /\ KeptType /\ QueueType /\ HistoryType
  BY TypeParts DEF TypeInv
<1>1. /\ UNCHANGED <<env, rows, snap, lease, inbox, bus, leader, room, asks, taken>>
      /\ doc' = [doc EXCEPT ![i] = @ \cup {e}] /\ local' = [local EXCEPT ![i] = Append(@, Fresh(i, {e}))]
      /\ pending' = [pending EXCEPT ![i] = Append(@, e)]
      /\ acceptedBy' = [acceptedBy EXCEPT ![e] = i] /\ owed' = owed \cup {e} /\ acceptedBy[e] = Nobody
  BY DEF Edit, store, redis, room_, tick
<1>2. e \notin Typed /\ e \notin doc[i] /\ e \in Content
  BY <1>1, SeedAssumption DEF Typed, Contents, OnlyTyped, Content
<1>3. Fresh(i, {e}) = {e}
  BY <1>2, FreshIs
<1>4. /\ local[i] \in Seq(SUBSET Content) /\ {e} \in SUBSET Content
      /\ pending[i] \in Seq(Edits)
  BY <1>0, <1>2 DEF KeptType, QueueType
<1>5. Range(local'[i]) = Range(local[i]) \cup {{e}} /\ Range(pending'[i]) = Range(pending[i]) \cup {e}
  <2>1. local'[i] = Append(local[i], {e}) /\ pending'[i] = Append(pending[i], e)
    BY <1>0, <1>1, <1>3 DEF KeptType, QueueType
  <2>2. Range(local'[i]) = Range(local[i]) \cup {{e}}
    <3>1. \A x \in SUBSET Content : Range(Append(local[i], x)) = Range(local[i]) \cup {x}
      BY <1>4, RangeAppends
    <3> QED
      BY <1>4, <2>1, <3>1
  <2>3. Range(pending'[i]) = Range(pending[i]) \cup {e}
    BY <1>4, <2>1, RangeAppends
  <2> QED
    BY <2>2, <2>3
<1>6. UNION Range(local'[i]) = (UNION Range(local[i])) \cup {e}
  BY <1>5
<1>7. /\ Buffers(i)' = Buffers(i) \cup {e} /\ Own(i)' = Own(i) \cup {e} /\ doc'[i] = doc[i] \cup {e}
      /\ \A j \in Instances : j # i =>
           /\ Buffers(j)' = Buffers(j) /\ Own(j)' = Own(j)
           /\ doc'[j] = doc[j] /\ pending'[j] = pending[j]
  BY <1>0, <1>1, <1>6 DEF Buffers, Own, TakenEdits, RoomType, KeptType, QueueType
<1>8. Stored' = Stored /\ Typed' = Typed \cup {e}
  <2>1. i # Nobody
    BY NobodyAssumption
  <2> QED
    BY <1>0, <1>1, <2>1 DEF Stored, EditsOf, Typed, HistoryType
<1>9. \A d : (LeaderHas(d) => LeaderHas(d)') /\ (LeaderBuffers(d) => LeaderBuffers(d)')
  BY <1>1, <1>7 DEF LeaderHas, LeaderBuffers
<1>10. OneLeader' /\ SnapshotStandsForItsRows'
  BY <1>1 DEF Contents, OneLeader, SnapshotStandsForItsRows
<1>11. FromDocuments'
  <2>1. \A j \in Instances : Buffers(j)' \cup Range(pending'[j]) \subseteq doc'[j]
    BY <1>5, <1>7 DEF Contents, FromDocuments
  <2>2. \A j \in Instances : doc[j] \subseteq doc'[j]
    BY <1>7
  <2>3. \A j \in Instances : \A g \in Range(inbox[j]) : g.from \in Instances
    <3>1. ASSUME NEW j \in Instances PROVE Range(inbox[j]) \subseteq Frames
      <4>1. inbox[j] \in Seq(Frames)
        BY TypeParts DEF TypeInv, InboxType
      <4> QED
        BY <4>1, RangeOfSeq
    <3> QED
      BY <3>1, FramesType
  <2> QED
    BY <1>1, <2>1, <2>2, <2>3 DEF Contents, FromDocuments
<1>12. OnlyTyped'
  BY <1>7, <1>8 DEF Contents, OnlyTyped
<1>13. AllReach'
  <2>1. SUFFICES ASSUME NEW j \in Instances, room[j] = "warm", NEW k \in Instances, NEW d \in doc'[k]
                 PROVE  Reaches(j, d)'
    BY <1>1 DEF AllReach
  <2>2. CASE d \in doc[k]
    <3>1. Reaches(j, d)
      BY <2>1, <2>2 DEF Contents, AllReach
    <3> QED
      BY <1>1, <1>5, <1>7, <3>1 DEF Reaches, Request
  <2>3. CASE d \notin doc[k]
    <3>1. k = i /\ d = e
      BY <1>7, <2>1, <2>3
    <3> QED
      BY <1>5, <1>7, <3>1 DEF Reaches
  <2> QED
    BY <2>2, <2>3
<1>14. WritersKnow'
  BY <1>1, <1>7, <1>8, <1>9 DEF Contents, WritersKnow
<1>15. LeadersWrite'
  BY <1>1, <1>7, <1>8 DEF Contents, LeadersWrite
<1>16. Confirmed'
  BY <1>1, <1>8, <1>9 DEF Contents, Confirmed
<1>17. OwedIsKept'
  BY <1>1, <1>7, <1>8, <1>9 DEF Contents, OwedIsKept
<1> QED
  BY <1>10, <1>11, <1>12, <1>13, <1>14, <1>15, <1>16, <1>17 DEF Contents

\* What a load reads is all that is stored.
LEMMA AllIsRead == ASSUME TypeInv, SnapshotStandsForItsRows PROVE Reconstruct = Stored
<1>1. ASSUME NEW r \in rows PROVE r.upd \subseteq Reconstruct
  <2>1. r.id \in Nat /\ snap.upTo \in Nat
    BY TypeParts, BoundAssumption DEF TypeInv, StoreType
  <2>2. r.id <= snap.upTo \/ r.id > snap.upTo
    BY <2>1
  <2> QED
    BY <2>2 DEF SnapshotStandsForItsRows, Reconstruct, EditsOf
<1>2. Reconstruct \subseteq Stored
  BY DEF Reconstruct, Stored, EditsOf
<1> QED
  BY <1>1, <1>2 DEF Stored, EditsOf, Reconstruct

LEMMA LoadKeeps ==
  ASSUME TypeInv, Contents, NEW i \in Instances, Load(i) PROVE Contents'
<1>0. RoomType /\ CountType
  BY TypeParts DEF TypeInv
<1>1. /\ UNCHANGED <<env, rows, snap, lease, inbox, local, bus, pending, leader, taken, acceptedBy, owed>>
      /\ doc'[i] = doc[i] \cup Stored /\ room'[i] = "warm" /\ asks'[i] > 0
      /\ \A j \in Instances : j # i => doc'[j] = doc[j] /\ room'[j] = room[j] /\ asks'[j] = asks[j]
  BY <1>0, AllIsRead, BoundAssumption
     DEF Load, store, redis, kept, queue, tick, history, RoomType, CountType, Contents
<1>2. \A j \in Instances : Buffers(j)' = Buffers(j) /\ Own(j)' = Own(j) /\ doc[j] \subseteq doc'[j]
  BY <1>1 DEF Buffers, Own, TakenEdits
<1>3. Stored' = Stored /\ Typed' = Typed
  BY <1>1 DEF Stored, EditsOf, Typed
<1>4. \A d : (LeaderHas(d) => LeaderHas(d)') /\ (LeaderBuffers(d) => LeaderBuffers(d)')
  BY <1>1, <1>2 DEF LeaderHas, LeaderBuffers
<1>5. OneLeader' /\ SnapshotStandsForItsRows'
  BY <1>1 DEF Contents, OneLeader, SnapshotStandsForItsRows
<1>6. FromDocuments'
  <2>1. \A j \in Instances : Range(inbox[j]) \subseteq Frames
    <3>1. TAKE j \in Instances
    <3>2. inbox[j] \in Seq(Frames)
      BY TypeParts DEF TypeInv, InboxType
    <3> QED
      BY <3>2, RangeOfSeq
  <2> QED
    BY <1>1, <1>2, <2>1, FramesType DEF Contents, FromDocuments
<1>7. OnlyTyped'
  BY <1>1, <1>3 DEF Contents, OnlyTyped
<1>8. AllReach'
  <2>1. SUFFICES ASSUME NEW j \in Instances, room'[j] = "warm", NEW k \in Instances, NEW d \in doc'[k]
                 PROVE  Reaches(j, d)'
    BY DEF AllReach
  <2>2. CASE j = i
    BY <1>1, <2>2 DEF Reaches
  <2>3. CASE j # i
    <3>1. d \in doc[j] \/ \E l \in Instances : d \in doc[l]
      BY <1>1, <2>1, <2>3 DEF Contents, WritersKnow, LeaderHas
    <3>2. Reaches(j, d)
      BY <1>1, <2>1, <2>3, <3>1 DEF Contents, AllReach
    <3> QED
      BY <1>1, <1>2, <2>3, <3>2 DEF Reaches, Request
  <2> QED
    BY <2>2, <2>3
<1>9. WritersKnow'
  BY <1>1, <1>3, <1>4 DEF Contents, WritersKnow
<1>10. LeadersWrite'
  BY <1>1, <1>2, <1>3 DEF Contents, LeadersWrite
<1>11. Confirmed' /\ OwedIsKept'
  BY <1>1, <1>2, <1>3, <1>4 DEF Contents, Confirmed, OwedIsKept
<1> QED
  BY <1>5, <1>6, <1>7, <1>8, <1>9, <1>10, <1>11 DEF Contents

\* An update that arrives is buffered as far as it is new.
LEMMA UpdateKeeps ==
  ASSUME Unrelated, TypeInv, Contents, NEW i \in Instances, OnUpdate(i) PROVE Contents'
<1>0. RoomType /\ KeptType /\ InboxType
  BY TypeParts DEF TypeInv
<1> DEFINE f == Head(inbox[i])
<1>1. /\ UNCHANGED <<env, rows, snap, lease, local, pending, leader, room, asks, taken, acceptedBy, owed>>
      /\ inbox' = Take(i) /\ inbox[i] # <<>> /\ f.kind \in Carries
      /\ f.upd \subseteq Content /\ f.from \in Instances /\ f \in Range(inbox[i])
      /\ doc'[i] = doc[i] \cup f.upd /\ bus'[i] = bus[i] \cup Fresh(i, f.upd)
      /\ \A j \in Instances : j # i => doc'[j] = doc[j] /\ bus'[j] = bus[j]
  BY <1>0, HeadFrame, TakenFrames
     DEF OnUpdate, Next_, Carries, store, queue, room_, tick, history, RoomType, KeptType
<1>2. f.upd \subseteq doc[f.from] /\ Fresh(i, f.upd) = f.upd \ doc[i]
  BY <1>1, FreshIs DEF Contents, FromDocuments
<1>3. \A j \in Instances : /\ Range(inbox'[j]) \subseteq Range(inbox[j])
                           /\ j # i => inbox'[j] = inbox[j]
                           /\ Range(inbox[j]) \subseteq Range(inbox'[j]) \cup {Head(inbox[j])}
  BY <1>0, <1>1, TakenFrames
<1> HIDE DEF f
<1>4. /\ Buffers(i)' = Buffers(i) \cup (f.upd \ doc[i])
      /\ \A j \in Instances : Own(j)' = Own(j) /\ (j # i => Buffers(j)' = Buffers(j)) /\ doc[j] \subseteq doc'[j]
  BY <1>1, <1>2 DEF Buffers, Own, TakenEdits
<1>5. Stored' = Stored /\ Typed' = Typed
  BY <1>1 DEF Stored, EditsOf, Typed
<1>6. \A d : (LeaderHas(d) => LeaderHas(d)') /\ (LeaderBuffers(d) => LeaderBuffers(d)')
  BY <1>1, <1>4 DEF LeaderHas, LeaderBuffers
<1>7. OneLeader' /\ SnapshotStandsForItsRows'
  BY <1>1 DEF Contents, OneLeader, SnapshotStandsForItsRows
<1>8. FromDocuments'
  <2>1. \A j \in Instances : Buffers(j)' \cup Range(pending'[j]) \subseteq doc'[j]
    BY <1>1, <1>4 DEF Contents, FromDocuments
  <2>2. \A j \in Instances : Range(inbox[j]) \subseteq Frames
    <3>1. TAKE j \in Instances
    <3>2. inbox[j] \in Seq(Frames)
      BY <1>0 DEF InboxType
    <3> QED
      BY <3>2, RangeOfSeq
  <2>3. ASSUME NEW j \in Instances, NEW g \in Range(inbox'[j]), g.kind \in Carries
        PROVE  g.upd \subseteq doc'[g.from]
    <3>1. g \in Range(inbox[j]) /\ g.from \in Instances
      BY <1>3, <2>2, <2>3, FramesType
    <3> QED
      BY <1>4, <2>3, <3>1 DEF Contents, FromDocuments
  <2> QED
    BY <2>1, <2>3 DEF FromDocuments
<1>9. OnlyTyped'
  BY <1>1, <1>2, <1>5 DEF Contents, OnlyTyped
<1>10. AllReach'
  <2>1. SUFFICES ASSUME NEW j \in Instances, room[j] = "warm", NEW k \in Instances, NEW d \in doc'[k]
                 PROVE  Reaches(j, d)'
    BY <1>1 DEF AllReach
  <2>2. \E l \in Instances : d \in doc[l]
    BY <1>1, <1>2, <2>1
  <2>3. Reaches(j, d)
    BY <2>1, <2>2 DEF Contents, AllReach
  <2>4. CASE \E g \in Range(inbox[j]) : g.kind \in Carries /\ d \in g.upd
    <3>1. PICK g \in Range(inbox[j]) : g.kind \in Carries /\ d \in g.upd
      BY <2>4
    <3>2. CASE g \in Range(inbox'[j])
      BY <3>1, <3>2 DEF Reaches
    <3>3. CASE g \notin Range(inbox'[j])
      <4>1. j = i /\ g = f
        BY <1>3, <3>1, <3>3 DEF f
      <4> QED
        BY <1>1, <3>1, <4>1 DEF Reaches
    <3> QED
      BY <3>2, <3>3
  <2>5. CASE \E l \in Instances : Request(j) \in Range(inbox[l]) /\ d \in doc[l]
    <3>1. PICK l \in Instances : Request(j) \in Range(inbox[l]) /\ d \in doc[l]
      BY <2>5
    <3>2. Request(j) # f
      BY <1>1 DEF Request, Carries
    <3>3. Request(j) \in Range(inbox'[l])
      BY <1>3, <3>1, <3>2 DEF f
    <3> QED
      BY <1>4, <3>1, <3>3 DEF Reaches, Request
  <2>6. CASE asks[j] > 0 \/ d \in doc[j] \/ \E l \in Instances : l # j /\ d \in Range(pending[l])
    BY <1>1, <1>4, <2>6 DEF Reaches
  <2> QED
    BY <2>3, <2>4, <2>5, <2>6 DEF Reaches
<1>11. WritersKnow'
  BY <1>1, <1>4, <1>5, <1>6 DEF Contents, WritersKnow
<1>12. LeadersWrite'
  BY <1>1, <1>4, <1>5 DEF Contents, LeadersWrite
<1>13. Confirmed'
  BY <1>3, <1>5, <1>6 DEF Contents, Confirmed
<1>14. OwedIsKept'
  BY <1>1, <1>4, <1>5, <1>6 DEF Contents, OwedIsKept
<1> QED
  BY <1>7, <1>8, <1>9, <1>10, <1>11, <1>12, <1>13, <1>14 DEF Contents

(***************************************************************************)
(* Confirmations, rows and snapshots                                       *)
(***************************************************************************)

LEMMA RangeOfSub ==
  ASSUME NEW S, NEW s \in Seq(S), NEW n \in 0 .. Len(s)
  PROVE  Range(SubSeq(s, n + 1, Len(s))) \subseteq Range(s)
<1> DEFINE t == SubSeq(s, n + 1, Len(s))
<1>1. Len(s) \in Nat /\ \A k \in 1 .. Len(s) : s[k] \in S
  OBVIOUS
<1>2. /\ t \in Seq(S) /\ Len(t) = Len(s) - n
      /\ \A k \in 1 .. (Len(s) - n) : t[k] = s[n + k]
  BY <1>1, SubSeqProperties
<1> HIDE DEF t
<1>3. Range(t) = {t[k] : k \in 1 .. Len(t)}
  BY <1>2, RangeEquality
<1>4. Range(s) = {s[k] : k \in 1 .. Len(s)}
  BY RangeEquality
<1>5. ASSUME NEW k \in 1 .. Len(t) PROVE t[k] \in Range(s)
  <2>1. n + k \in 1 .. Len(s) /\ t[k] = s[n + k]
    BY <1>1, <1>2
  <2> QED
    BY <1>4, <2>1
<1> QED
  BY <1>3, <1>5 DEF t

\* What a follower lets go of is stored, or its leader buffers it.
LEMMA ConfirmationKeeps ==
  ASSUME Unrelated, TypeInv, Contents, NEW i \in Instances, OnPersisted(i) PROVE Contents'
<1>0. KeptType /\ InboxType
  BY TypeParts DEF TypeInv
<1> DEFINE f == Head(inbox[i])
<1>1. /\ UNCHANGED <<env, rows, snap, lease, doc, pending, leader, room, asks, taken, acceptedBy, owed>>
      /\ inbox' = Take(i) /\ inbox[i] # <<>> /\ f.kind = "persisted" /\ f \in Range(inbox[i])
  BY <1>0, TakenFrames DEF OnPersisted, Next_, store, queue, room_, tick, history
<1>2. \A j \in Instances : /\ Range(inbox'[j]) \subseteq Range(inbox[j])
                           /\ j # i => inbox'[j] = inbox[j]
                           /\ Range(inbox[j]) \subseteq Range(inbox'[j]) \cup {Head(inbox[j])}
  BY <1>0, <1>1, TakenFrames
<1>3. \A j \in Instances : j # i => local'[j] = local[j] /\ bus'[j] = bus[j]
  BY <1>0 DEF OnPersisted, KeptType, kept
<1>4. leader[i] => UNCHANGED <<local, bus>>
  BY DEF OnPersisted, kept
<1>5. Range(local'[i]) \subseteq Range(local[i]) /\ bus'[i] \subseteq bus[i]
  <2>1. CASE leader[i]
    BY <1>4, <2>1
  <2>2. CASE ~leader[i]
    <3>1. PICK n \in 0 .. Len(local[i]) : local'[i] = SubSeq(local[i], n + 1, Len(local[i]))
      BY <1>0, <2>2, CoveredIs DEF OnPersisted, KeptType
    <3>2. local[i] \in Seq(SUBSET Content)
      BY <1>0 DEF KeptType
    <3>3. bus'[i] = {}
      BY <1>0, <2>2 DEF OnPersisted, KeptType
    <3> QED
      BY <3>1, <3>2, <3>3, RangeOfSub
  <2> QED
    BY <2>1, <2>2
<1>6. (UNION Range(local[i])) \ (UNION Range(local'[i])) \subseteq f.upd
  BY ConfirmedStep
<1>7. \A d \in f.upd : d \in Stored \/ LeaderBuffers(d)
  BY <1>1 DEF Contents, Confirmed
<1> HIDE DEF f
<1>8. /\ Buffers(i)' \subseteq Buffers(i) /\ Own(i) \subseteq Own(i)' \cup f.upd
      /\ leader[i] => Buffers(i)' = Buffers(i)
      /\ \A j \in Instances : j # i => Buffers(j)' = Buffers(j) /\ Own(j)' = Own(j)
  <2>1. UNION Range(local'[i]) \subseteq UNION Range(local[i])
    BY <1>5
  <2> QED
    BY <1>1, <1>3, <1>4, <1>5, <1>6, <2>1 DEF Buffers, Own, TakenEdits
<1>9. Stored' = Stored /\ Typed' = Typed
  BY <1>1 DEF Stored, EditsOf, Typed
<1>10. \A d : (LeaderHas(d) => LeaderHas(d)') /\ (LeaderBuffers(d) => LeaderBuffers(d)')
  BY <1>1, <1>8 DEF LeaderHas, LeaderBuffers
<1>11. OneLeader' /\ SnapshotStandsForItsRows' /\ OnlyTyped' /\ WritersKnow'
  BY <1>1, <1>9, <1>10 DEF Contents, OneLeader, SnapshotStandsForItsRows, OnlyTyped, WritersKnow
<1>12. FromDocuments'
  <2>1. \A j \in Instances : Buffers(j)' \cup Range(pending'[j]) \subseteq doc'[j]
    BY <1>1, <1>8 DEF Contents, FromDocuments
  <2> QED
    BY <1>1, <1>2, <2>1 DEF Contents, FromDocuments
<1>13. AllReach'
  <2>1. SUFFICES ASSUME NEW j \in Instances, room[j] = "warm", NEW k \in Instances, NEW d \in doc[k]
                 PROVE  Reaches(j, d)'
    BY <1>1 DEF AllReach
  <2>2. Reaches(j, d)
    BY <2>1 DEF Contents, AllReach
  <2>3. ASSUME NEW l \in Instances, NEW g \in Range(inbox[l]), g.kind # "persisted"
        PROVE  g \in Range(inbox'[l])
    BY <1>1, <1>2, <2>3 DEF f
  <2>4. CASE \E g \in Range(inbox[j]) : g.kind \in Carries /\ d \in g.upd
    BY <2>3, <2>4 DEF Reaches, Carries
  <2>5. CASE \E l \in Instances : Request(j) \in Range(inbox[l]) /\ d \in doc[l]
    <3>1. PICK l \in Instances : Request(j) \in Range(inbox[l]) /\ d \in doc[l]
      BY <2>5
    <3>2. Request(j).kind # "persisted"
      BY DEF Request
    <3>3. Request(j) \in Range(inbox'[l])
      BY <2>3, <3>1, <3>2
    <3> QED
      BY <1>1, <3>1, <3>3 DEF Reaches, Request
  <2>6. CASE asks[j] > 0 \/ d \in doc[j] \/ \E l \in Instances : l # j /\ d \in Range(pending[l])
    BY <1>1, <2>6 DEF Reaches
  <2> QED
    BY <2>2, <2>4, <2>5, <2>6 DEF Reaches
<1>14. LeadersWrite'
  BY <1>1, <1>8, <1>9 DEF Contents, LeadersWrite
<1>15. Confirmed'
  BY <1>2, <1>9, <1>10 DEF Contents, Confirmed
<1>16. OwedIsKept'
  <2>1. SUFFICES ASSUME NEW d \in owed PROVE d \in Stored \/ LeaderBuffers(d) \/ \E j \in Instances : d \in Own(j)'
    BY <1>1, <1>9, <1>10 DEF OwedIsKept
  <2>2. CASE \E j \in Instances : d \in Own(j)
    BY <1>7, <1>8, <2>2
  <2> QED
    BY <2>1, <2>2 DEF Contents, OwedIsKept
<1> QED
  BY <1>11, <1>12, <1>13, <1>14, <1>15, <1>16 DEF Contents

\* A leader that is warm has all that is stored.
LEMMA LeaderKnows ==
  ASSUME Contents, NEW i \in Instances, leader[i], room[i] = "warm" PROVE Stored \subseteq doc[i]
<1>1. \A k \in Instances : leader[k] => k = i
  BY DEF Contents, OneLeader
<1> QED
  BY <1>1 DEF Contents, WritersKnow, LeaderHas

\* A row is written by the leader, from its buffers.
LEMMA CreateKeeps ==
  ASSUME Unrelated, TypeInv, LeaseInv, Contents, Numbers, NEW i \in Instances, CreateOk(i) PROVE Contents'
<1>0. InboxType /\ RoomType /\ WriteType /\ StoreType
  BY TypeParts DEF TypeInv
<1> DEFINE f == [kind |-> "persisted", upd |-> Announced(i), from |-> i]
<1>1. /\ UNCHANGED <<env, snap, lease, doc, local, bus, pending, leader, room, asks, acceptedBy, owed>>
      /\ inbox' = Published(inbox, i, f) /\ pc[i] = "create"
      /\ rows' = rows \cup {[id |-> nextRow, upd |-> TakenEdits(i)]}
      /\ taken' = [taken EXCEPT ![i] = NoEntries]
  BY DEF CreateOk, kept, queue, room_, history
<1>2. /\ doc[i] \subseteq Content /\ Announced(i) = doc[i] /\ f \in Frames
      /\ f.kind = "persisted" /\ f.upd = doc[i]
  <2>1. doc[i] \subseteq Content
    BY <1>0 DEF RoomType
  <2>2. Announced(i) = doc[i]
    BY <2>1, AllVisible DEF Announced
  <2> QED
    BY <2>1, <2>2, FramesType
<1> HIDE DEF f
<1>3. \A j \in Instances : /\ Range(inbox[j]) \subseteq Range(inbox'[j])
                           /\ Range(inbox'[j]) \subseteq Range(inbox[j]) \cup {f}
  BY <1>0, <1>1, <1>2, PublishedFrames
<1>4. leader[i] /\ \A k \in Instances : leader[k] => k = i
  BY <1>1 DEF LeaseInv, At, LeadersOnly, Contents, OneLeader
<1>5. /\ Buffers(i) = Buffers(i)' \cup TakenEdits(i)
      /\ Own(i) \subseteq Own(i)' \cup TakenEdits(i)
      /\ \A j \in Instances : Buffers(j)' \subseteq Buffers(j) /\ (j # i => Own(j)' = Own(j))
  <2>1. /\ taken'[i].local = <<>> /\ taken'[i].bus = {}
        /\ \A j \in Instances : j # i => taken'[j] = taken[j]
    BY <1>0, <1>1 DEF WriteType, NoEntries
  <2>2. TakenEdits(i)' = {}
    BY <2>1, RangeEmpty DEF TakenEdits
  <2>3. \A j \in Instances : j # i => TakenEdits(j)' = TakenEdits(j)
    BY <2>1 DEF TakenEdits
  <2>4. Buffers(i) = Buffers(i)' \cup TakenEdits(i)
    BY <1>1, <2>2 DEF Buffers
  <2>5. \A j \in Instances : j # i => Buffers(j)' = Buffers(j) /\ Own(j)' = Own(j)
    BY <1>1, <2>1, <2>3 DEF Buffers, Own
  <2>6. Own(i) \subseteq Own(i)' \cup TakenEdits(i)
    BY <1>1 DEF Own, TakenEdits
  <2> QED
    BY <2>4, <2>5, <2>6
<1>6. Stored' = Stored \cup TakenEdits(i) /\ Typed' = Typed
  <2>1. \A d : (\E r \in rows' : d \in r.upd) <=> (\E r \in rows : d \in r.upd) \/ d \in TakenEdits(i)
    <3> DEFINE new == [id |-> nextRow, upd |-> TakenEdits(i)]
    <3>1. rows' = rows \cup {new} /\ new.upd = TakenEdits(i)
      BY <1>1
    <3> HIDE DEF new
    <3>2. \A r \in rows' : r \in rows \/ r = new
      BY <3>1
    <3>3. new \in rows' /\ \A r \in rows : r \in rows'
      BY <3>1
    <3> QED
      BY <3>1, <3>2, <3>3
  <2>2. \A d : (d \in EditsOf(rows) <=> \E r \in rows : d \in r.upd) /\ (d \in EditsOf(rows') <=> \E r \in rows' : d \in r.upd)
    BY DEF EditsOf
  <2>3. EditsOf(rows') = EditsOf(rows) \cup TakenEdits(i)
    BY <2>1, <2>2
  <2>4. Stored' = snap.upd \cup EditsOf(rows')
    BY <1>1 DEF Stored
  <2> QED
    BY <1>1, <2>3, <2>4 DEF Stored, Typed
<1>7. \A d : /\ LeaderHas(d) <=> LeaderHas(d)'
             /\ LeaderBuffers(d) => LeaderBuffers(d)' \/ d \in Stored'
             /\ d \in doc[i] => LeaderHas(d)
  BY <1>1, <1>4, <1>5, <1>6 DEF LeaderHas, LeaderBuffers
<1>8. TakenEdits(i) \subseteq doc[i]
  BY <1>5 DEF Contents, FromDocuments
<1>9. OneLeader' /\ OnlyTyped' /\ WritersKnow'
  BY <1>1, <1>6, <1>7, <1>8 DEF Contents, OneLeader, OnlyTyped, WritersKnow
<1>10. FromDocuments'
  <2>1. \A j \in Instances : Buffers(j)' \cup Range(pending'[j]) \subseteq doc'[j]
    BY <1>1, <1>5 DEF Contents, FromDocuments
  <2>2. ASSUME NEW j \in Instances, NEW g \in Range(inbox'[j]), g.kind \in Carries
        PROVE  g \in Range(inbox[j])
    BY <1>2, <1>3, <2>2 DEF Carries
  <2> QED
    BY <1>1, <2>1, <2>2 DEF Contents, FromDocuments
<1>11. AllReach'
  BY <1>1, <1>3 DEF Contents, AllReach, Reaches, Request
<1>12. LeadersWrite'
  BY <1>1, <1>4, <1>5, <1>6 DEF Contents, LeadersWrite
<1>13. Confirmed'
  <2>1. SUFFICES ASSUME NEW j \in Instances, NEW g \in Range(inbox'[j]), g.kind = "persisted", NEW d \in g.upd
                 PROVE  d \in Stored' \/ LeaderBuffers(d)'
    BY DEF Confirmed
  <2>2. CASE g \in Range(inbox[j])
    BY <1>6, <1>7, <2>1, <2>2 DEF Contents, Confirmed
  <2>3. CASE g = f
    <3>1. d \in doc[i]
      BY <1>2, <2>1, <2>3
    <3> QED
      BY <1>1, <1>4, <1>12, <3>1 DEF LeadersWrite, LeaderBuffers
  <2> QED
    BY <1>3, <2>1, <2>2, <2>3
<1>14. OwedIsKept'
  BY <1>1, <1>5, <1>6, <1>7 DEF Contents, OwedIsKept
<1>15. SnapshotStandsForItsRows'
  <2>1. snap.upTo \in Nat /\ nextRow \in Nat /\ ~(nextRow <= snap.upTo)
    BY <1>0, BoundAssumption DEF StoreType, Numbers
  <2> QED
    BY <1>1, <2>1 DEF Contents, SnapshotStandsForItsRows
<1> QED
  BY <1>9, <1>10, <1>11, <1>12, <1>13, <1>14, <1>15 DEF Contents

\* A snapshot is recorded by the leader, of a document that had all rows.
LEMMA RecordKeeps ==
  ASSUME TypeInv, LeaseInv, Contents, Ticks, NEW i \in Instances, RecordOk(i) PROVE Contents'
<1>1. /\ UNCHANGED <<env, rows, lease, inbox, doc, local, bus, taken, pending, leader, room, asks, acceptedBy, owed>>
      /\ snap' = [upd |-> shot[i], upTo |-> persistedUpTo[i]] /\ pc[i] = "record"
  BY DEF RecordOk, redis, kept, queue, room_, history
<1>2. leader[i] /\ Stored \subseteq shot[i] /\ shot[i] \subseteq doc[i]
  BY <1>1 DEF LeaseInv, At, LeadersOnly, Ticks, TickOf
<1>3. \A j \in Instances : Buffers(j)' = Buffers(j) /\ Own(j)' = Own(j)
  BY <1>1 DEF Buffers, Own, TakenEdits
<1>4. Stored' = shot[i] /\ Stored \subseteq Stored' /\ Typed' = Typed
  BY <1>1, <1>2 DEF Stored, EditsOf, Typed
<1>5. \A d : /\ LeaderHas(d) <=> LeaderHas(d)'
             /\ LeaderBuffers(d) <=> LeaderBuffers(d)'
             /\ d \in Stored' => LeaderHas(d)
  BY <1>1, <1>2, <1>3, <1>4 DEF LeaderHas, LeaderBuffers
<1>6. OneLeader' /\ FromDocuments' /\ AllReach' /\ WritersKnow'
  BY <1>1, <1>3, <1>5 DEF Contents, OneLeader, FromDocuments, AllReach, Reaches, Request, WritersKnow
<1>7. OnlyTyped'
  BY <1>1, <1>2, <1>4 DEF Contents, OnlyTyped
<1>8. LeadersWrite' /\ Confirmed' /\ OwedIsKept'
  BY <1>1, <1>3, <1>4, <1>5 DEF Contents, LeadersWrite, Confirmed, OwedIsKept
<1>9. SnapshotStandsForItsRows'
  <2>1. \A r \in rows : r.upd \subseteq Stored
    BY DEF Stored, EditsOf
  <2> QED
    BY <1>1, <1>2, <2>1 DEF SnapshotStandsForItsRows
<1> QED
  BY <1>6, <1>7, <1>8, <1>9 DEF Contents

(***************************************************************************)
(* Every step                                                              *)
(***************************************************************************)

LEMMA ExpiryKeeps == ASSUME Settled, Contents, LeaseExpires PROVE Contents'
<1>1. UNCHANGED <<env, rows, snap, leader, doc, local, bus, taken, pending, inbox, asks, room, acceptedBy, owed>>
  BY DEF LeaseExpires, store, kept, queue, room_, tick, history
<1>2. \A j \in Instances : ~leader[j]
  BY DEF Settled, LeaseExpires, Contents, OneLeader
<1>3. OneLeader'
  BY <1>1, <1>2 DEF OneLeader
<1>4. Stored' = Stored /\ Typed' = Typed /\ \A j \in Instances : Buffers(j)' = Buffers(j) /\ Own(j)' = Own(j)
  BY <1>1 DEF Stored, EditsOf, Typed, Buffers, Own, TakenEdits
<1>5. \A d : (LeaderHas(d) <=> LeaderHas(d)') /\ (LeaderBuffers(d) <=> LeaderBuffers(d)')
  BY <1>1, <1>4 DEF LeaderHas, LeaderBuffers
<1>6. FromDocuments' /\ OnlyTyped' /\ AllReach' /\ SnapshotStandsForItsRows'
  BY <1>1, <1>4 DEF Contents, FromDocuments, OnlyTyped, AllReach, Reaches, Request, SnapshotStandsForItsRows
<1>7. WritersKnow' /\ LeadersWrite' /\ Confirmed' /\ OwedIsKept'
  BY <1>1, <1>4, <1>5 DEF Contents, WritersKnow, LeadersWrite, Confirmed, OwedIsKept
<1> QED
  BY <1>3, <1>6, <1>7 DEF Contents

LEMMA ContentsStep ==
  ASSUME Unrelated, TypeInv, LeaseInv, Settled, Numbers, Contents, LeavesAlone, Ticks, [Next]_vars
  PROVE  Contents'
<1>1. ASSUME NEW i \in Instances, StepOf(i) PROVE Contents'
  <2>1. CASE \/ Open(i) \/ Connect(i) \/ Disconnect(i) \/ TickStart(i) \/ Renew(i) \/ FlushDue(i)
             \/ SnapshotDue(i) \/ CreateFails(i) \/ RecordFails(i) \/ StayWarm(i) \/ EvictIdle(i)
             \/ Evict(i) \/ Persist(i) \/ Compact(i)
    BY <2>1, MovingSteps, MovedKeeps DEF Contents
  <2>2. CASE PublishOk(i) \/ PublishFails(i)
    BY <2>2, PublishKeeps DEF Contents
  <2>3. CASE CatchUp(i)
    BY <2>3, CatchUpKeeps DEF CatchUp, Ticks, TickOf
  <2>4. CASE Load(i) \/ OnUpdate(i) \/ OnSyncStep1(i) \/ OnPersisted(i)
    BY <2>4, LoadKeeps, UpdateKeeps, AnswerKeeps, ConfirmationKeeps
  <2>5. CASE CreateOk(i) \/ RecordOk(i) \/ Release(i)
    BY <2>5, CreateKeeps, RecordKeeps, ReleaseKeeps
  <2>6. CASE TryBecomeLeader(i) \/ ((Campaign(i) \/ Takeover(i)) /\ Lead(i))
    <3>1. Free(i) /\ Lead(i)
      BY <2>6 DEF TryBecomeLeader, Campaign, Takeover, Lead, Free, Contents, OneLeader
    <3>2. UNCHANGED <<env, rows, snap, doc, pending, inbox, asks, acceptedBy, owed, room, local, taken>>
      BY <2>6 DEF TryBecomeLeader, Campaign, Takeover, store, queue, room_, history, tick
    <3> QED
      BY <3>1, <3>2, LeadKeeps
  <2>7. CASE (Campaign(i) \/ Takeover(i)) /\ ~Lead(i)
    <3>1. UNCHANGED <<leader, lease, bus, inbox>>
      BY <2>7 DEF Campaign, Takeover
    <3> QED
      BY <2>7, <3>1, MovingSteps, MovedKeeps DEF Contents
  <2>8. ~LoseFrame(i) /\ ~LeaseCallFails(i) /\ ~Shutdown(i)
    BY NotInSettled
  <2> QED
    BY <1>1, <2>1, <2>2, <2>3, <2>4, <2>5, <2>6, <2>7, <2>8 DEF StepOf
<1>2. ASSUME NEW i \in Instances, Unsubscribe(i) \/ Crash(i) PROVE Contents'
  BY <1>2, UnsubscribeKeeps, NotInSettled
<1>3. ASSUME NEW i \in Instances, NEW e \in Edits, Edit(i, e) PROVE Contents'
  BY <1>3, EditKeeps
<1>4. CASE LeaseExpires
  BY <1>4, ExpiryKeeps
<1>5. CASE UNCHANGED vars
  <2>1. Moved
    BY <1>5 DEF vars, store, redis, kept, queue, room_, tick, history, Moved, Buffers, Own, TakenEdits
  <2> QED
    BY <2>1, MovedKeeps
<1>6. ASSUME NEW i \in Instances, Internal(i) \/ Fault(i) \/ Client(i)
      PROVE  StepOf(i) \/ Unsubscribe(i) \/ Crash(i) \/ \E e \in Edits : Edit(i, e)
  BY <1>6 DEF Internal, Fault, Client, StepOf
<1> QED
  BY <1>1, <1>2, <1>3, <1>4, <1>5, <1>6 DEF Next

(***************************************************************************)
(* Ids                                                                     *)
(***************************************************************************)

\* A step that writes no row, and reads and records none.
LEMMA NumbersStay ==
  ASSUME Numbers, UNCHANGED <<rows, nextRow, snap, persistedUpTo>> PROVE Numbers'
BY DEF Numbers

LEMMA NumbersStep == ASSUME TypeInv, Numbers, [Next]_vars PROVE Numbers'
<1>0. /\ nextRow \in Nat /\ nextRow > 0 /\ snap.upTo \in Nat /\ \A r \in rows : r.id \in Nat
      /\ persistedUpTo \in [Instances -> 0 .. MaxRow]
  BY TypeParts, BoundAssumption DEF TypeInv, StoreType, CountType
<1>1. ASSUME NEW i \in Instances, StepOf(i) PROVE Numbers'
  <2>1. CASE Load(i)
    <3> DEFINE S == {snap.upTo} \cup {r.id : r \in rows}
    <3>1. S \subseteq Nat /\ S # {} /\ \A x \in S : x <= nextRow /\ x < nextRow
      BY <1>0 DEF Numbers
    <3>2. Max(S) \in S
      BY <1>0, <3>1, MaxIs
    <3>3. UNCHANGED <<rows, nextRow, snap>> /\ persistedUpTo' = [persistedUpTo EXCEPT ![i] = Max(S)]
      BY <2>1 DEF Load, store
    <3> QED
      BY <1>0, <3>1, <3>2, <3>3 DEF Numbers
  <2>2. CASE CreateOk(i)
    <3>1. /\ UNCHANGED snap /\ nextRow' = nextRow + 1
          /\ rows' = rows \cup {[id |-> nextRow, upd |-> TakenEdits(i)]}
          /\ persistedUpTo' = [persistedUpTo EXCEPT ![i] = nextRow]
      BY <2>2 DEF CreateOk
    <3>2. ASSUME NEW j \in Instances PROVE persistedUpTo'[j] < nextRow + 1
      <4>1. persistedUpTo[j] \in Nat /\ persistedUpTo[j] < nextRow
        BY <1>0, BoundAssumption DEF Numbers
      <4> QED
        BY <1>0, <3>1, <4>1
    <3>3. ASSUME NEW r \in rows' PROVE r.id < nextRow + 1
      BY <1>0, <3>1, <3>3 DEF Numbers
    <3> QED
      BY <1>0, <3>1, <3>2, <3>3 DEF Numbers
  <2>3. CASE RecordOk(i)
    <3>1. UNCHANGED <<rows, nextRow, persistedUpTo>> /\ snap'.upTo = persistedUpTo[i]
      BY <2>3 DEF RecordOk
    <3> QED
      BY <3>1 DEF Numbers
  <2>4. CASE \/ Open(i) \/ Connect(i) \/ Disconnect(i) \/ PublishOk(i) \/ PublishFails(i)
             \/ CatchUp(i) \/ OnUpdate(i) \/ OnSyncStep1(i) \/ OnPersisted(i) \/ LoseFrame(i)
             \/ TryBecomeLeader(i) \/ TickStart(i) \/ Renew(i) \/ Campaign(i) \/ LeaseCallFails(i)
             \/ FlushDue(i) \/ SnapshotDue(i) \/ CreateFails(i)
             \/ RecordFails(i) \/ StayWarm(i) \/ EvictIdle(i) \/ Takeover(i) \/ Shutdown(i) \/ Evict(i)
             \/ Persist(i) \/ Compact(i) \/ Release(i)
    BY <2>4, NumbersStay DEF Open, Connect, Disconnect, PublishOk, PublishFails, CatchUp, OnUpdate,
       OnSyncStep1, OnPersisted, LoseFrame, TryBecomeLeader, TickStart, Renew, Campaign, LeaseCallFails,
       FlushDue, SnapshotDue, CreateFails, RecordFails, StayWarm, EvictIdle, Takeover, Shutdown, Evict,
       Persist, FlushStep, Compact, Release, store, clocks
  <2> QED
    BY <1>1, <2>1, <2>2, <2>3, <2>4 DEF StepOf
<1>2. ASSUME NEW i \in Instances, Unsubscribe(i) \/ Crash(i) PROVE Numbers'
  <2>1. UNCHANGED <<rows, nextRow, snap>> /\ persistedUpTo' = [persistedUpTo EXCEPT ![i] = 0]
    BY <1>2 DEF Unsubscribe, Crash, Gone, store
  <2> QED
    BY <1>0, <2>1 DEF Numbers
<1>3. ASSUME NEW i \in Instances, NEW e \in Edits, Edit(i, e) PROVE Numbers'
  BY <1>3, NumbersStay DEF Edit, store, clocks
<1>4. CASE LeaseExpires \/ UNCHANGED vars
  BY <1>4, NumbersStay DEF LeaseExpires, vars, store, clocks
<1>6. ASSUME NEW i \in Instances, Internal(i) \/ Fault(i) \/ Client(i)
      PROVE  StepOf(i) \/ Unsubscribe(i) \/ Crash(i) \/ \E e \in Edits : Edit(i, e)
  BY <1>6 DEF Internal, Fault, Client, StepOf
<1> QED
  BY <1>1, <1>2, <1>3, <1>4, <1>6 DEF Next

(***************************************************************************)
(* Rooms that leave                                                        *)
(***************************************************************************)

\* A room that leaves has begun to: an eviction goes on to its end.
LEMMA Begins ==
  ASSUME TypeInv, LeaseInv, Settled, NEW i \in Instances, StepOf(i), Stopping(i)'
  PROVE  Stopping(i) \/ EvictIdle(i)
<1>0. PlaceType /\ Places
  BY TypeParts DEF TypeInv
<1>1. pc[i] = "drain" => ret[i] \in {"lease", "takeoverFlush", "persist"}
  BY DEF LeaseInv, At
<1>2. CASE \/ Open(i) \/ Load(i) \/ Connect(i) \/ Disconnect(i) \/ CatchUp(i) \/ OnUpdate(i)
           \/ OnSyncStep1(i) \/ OnPersisted(i) \/ TryBecomeLeader(i)
  BY <1>2 DEF Stopping, Open, Load, Connect, Disconnect, CatchUp, OnUpdate, OnSyncStep1, OnPersisted,
     TryBecomeLeader, tick
<1>3. CASE PublishOk(i) \/ PublishFails(i)
  BY <1>0, <1>3 DEF PublishOk, PublishFails, DrainEnds, GoBack, Stopping, Evicts, PlaceType
<1>4. CASE TickStart(i) \/ Renew(i) \/ Campaign(i)
  BY <1>0, <1>4 DEF TickStart, Renew, Campaign, StartDrain, Goto, Stopping, Evicts, PlaceType
<1>5. CASE FlushDue(i) \/ SnapshotDue(i)
  BY <1>0, <1>5 DEF FlushDue, SnapshotDue, StartFlush, Capture, Goto, Stopping, Evicts, PlaceType
<1>6. CASE CreateOk(i)
  BY <1>0, <1>6 DEF CreateOk, Capture, GoBack, Goto, Stopping, Evicts, PlaceType
<1>7. CASE CreateFails(i) \/ RecordOk(i) \/ RecordFails(i) \/ StayWarm(i)
  BY <1>0, <1>7 DEF CreateFails, RecordOk, RecordFails, StayWarm, GoBack, Goto, Stopping, Evicts, PlaceType
<1>8. CASE Takeover(i) \/ Evict(i) \/ Persist(i) \/ Compact(i) \/ Release(i)
  BY <1>0, <1>8 DEF Takeover, Evict, Persist, FlushStep, Compact, Release, Stopping, Evicts
<1>9. ~LoseFrame(i) /\ ~LeaseCallFails(i) /\ ~Shutdown(i)
  BY NotInSettled
<1> QED
  BY <1>2, <1>3, <1>4, <1>5, <1>6, <1>7, <1>8, <1>9 DEF StepOf

\* While a room leaves nothing is published, opened, asked or answered.
LEMMA Undisturbs ==
  ASSUME TypeInv, Settled, LeavesAlone, NEW j \in Instances, Stopping(j), NEW i \in Instances
  PROVE  /\ ~Open(i) /\ ~Load(i) /\ ~PublishOk(i) /\ ~CatchUp(i) /\ ~OnUpdate(i) /\ ~OnSyncStep1(i)
         /\ ~Connect(j) /\ ~TryBecomeLeader(j) /\ \A e \in Edits : ~Edit(i, e)
         /\ PublishFails(i) => UNCHANGED inbox
<1>0. Places /\ InboxType /\ CountType
  BY TypeParts DEF TypeInv
<1>1. /\ room[j] = "warm" /\ ~conn[j] /\ pending[j] = <<>> /\ publishing[j] # TRUE
      /\ ~CatchingUp(i) /\ OnlyConfirmations(i) /\ "busy" \notin env
  BY <1>0 DEF LeavesAlone, Resting, Places, Settled
<1>2. Undisturbed(i) => i = j
  BY <1>1 DEF Undisturbed
<1>3. inbox[i] # <<>> => Head(inbox[i]).kind = "persisted"
  BY <1>0, <1>1, TakenFrames DEF OnlyConfirmations
<1>4. ~Open(i) /\ ~Load(i) /\ ~CatchUp(i)
  BY <1>1, <1>2 DEF Open, Load, CatchUp, CatchingUp
<1>5. ~PublishOk(i) /\ (PublishFails(i) => UNCHANGED inbox)
  BY <1>1, <1>2 DEF PublishOk, PublishFails
<1>6. ~OnUpdate(i) /\ ~OnSyncStep1(i)
  BY <1>3 DEF OnUpdate, OnSyncStep1, Next_
<1>7. ~Connect(j) /\ ~TryBecomeLeader(j) /\ \A e \in Edits : ~Edit(i, e)
  BY <1>1, <1>2 DEF Connect, TryBecomeLeader, Edit
<1> QED
  BY <1>4, <1>5, <1>6, <1>7

LEMMA RestingSteps ==
  ASSUME TypeInv, LeaseInv, Settled, LeavesAlone, NEW j \in Instances, Stopping(j), NEW i \in Instances, StepOf(i)
  PROVE  /\ room'[j] = room[j] /\ ~conn'[j] /\ pending'[j] = pending[j]
         /\ \A k \in Instances : Resting(k)'
<1>0. RoomType /\ FlagType /\ InboxType /\ env' = env /\ \A k \in Instances : Resting(k)
  <2>1. [Next]_vars
    BY DEF StepOf, Next, Internal, Fault, Client
  <2> QED
    BY <2>1, EnvStays, TypeParts DEF TypeInv, LeavesAlone
<1>1. /\ ~Open(i) /\ ~Load(i) /\ ~PublishOk(i) /\ ~CatchUp(i) /\ ~OnUpdate(i) /\ ~OnSyncStep1(i)
      /\ ~Connect(j) /\ (PublishFails(i) => UNCHANGED inbox)
      /\ ~LoseFrame(i) /\ ~LeaseCallFails(i) /\ ~Shutdown(i)
  BY Undisturbs, NotInSettled
<1>2. UNCHANGED <<room, pending, asks>>
  BY <1>1 DEF StepOf, Connect, Disconnect, PublishFails, OnPersisted,
     TryBecomeLeader, TickStart, Renew, Campaign, FlushDue, SnapshotDue, CreateOk, CreateFails,
     RecordOk, RecordFails, StayWarm, EvictIdle, Takeover, Evict, Persist, FlushStep, Compact, Release,
     room_, queue
<1>3. ~conn'[j]
  <2>1. ~conn[j]
    BY DEF LeavesAlone
  <2>2. CASE Connect(i)
    BY <1>0, <1>1, <2>1, <2>2 DEF Connect, FlagType
  <2>3. CASE Disconnect(i)
    BY <1>0, <2>1, <2>3 DEF Disconnect, FlagType
  <2>4. CASE ~Connect(i) /\ ~Disconnect(i)
    <3>1. UNCHANGED conn
      BY <1>1, <2>4 DEF StepOf, PublishFails, OnPersisted,
         TryBecomeLeader, TickStart, Renew, Campaign, FlushDue, SnapshotDue, CreateOk, CreateFails,
         RecordOk, RecordFails, StayWarm, EvictIdle, Takeover, Evict, Persist, FlushStep, Compact, Release,
         room_
    <3> QED
      BY <2>1, <3>1
  <2> QED
    BY <2>2, <2>3, <2>4
<1>4. ASSUME NEW k \in Instances PROVE OnlyConfirmations(k)'
  <2>1. OnlyConfirmations(k)
    BY <1>0 DEF Resting
  <2>2. CASE CreateOk(i)
    <3> DEFINE f == [kind |-> "persisted", upd |-> Announced(i), from |-> i]
    <3>1. Announced(i) \subseteq Content
      BY <1>0, VisibleType DEF Announced, RoomType
    <3>2. f \in Frames /\ f.kind = "persisted" /\ inbox' = Published(inbox, i, f)
      BY <2>2, <3>1, FramesType DEF CreateOk
    <3> HIDE DEF f
    <3>3. Range(inbox'[k]) \subseteq Range(inbox[k]) \cup {f}
      BY <1>0, <3>2, PublishedFrames
    <3> QED
      BY <2>1, <3>2, <3>3 DEF OnlyConfirmations
  <2>3. CASE OnPersisted(i)
    <3>1. inbox' = Take(i) /\ inbox[i] # <<>>
      BY <2>3 DEF OnPersisted, Next_
    <3>2. Range(inbox'[k]) \subseteq Range(inbox[k])
      BY <1>0, <3>1, TakenFrames
    <3> QED
      BY <2>1, <3>2 DEF OnlyConfirmations
  <2>4. CASE ~CreateOk(i) /\ ~OnPersisted(i)
    <3>1. UNCHANGED inbox
      BY <1>1, <2>4 DEF StepOf, Connect, Disconnect, PublishFails,
         TryBecomeLeader, TickStart, Renew, Campaign, FlushDue, SnapshotDue, CreateFails,
         RecordOk, RecordFails, StayWarm, EvictIdle, Takeover, Evict, Persist, FlushStep, Compact, Release,
         redis
    <3> QED
      BY <2>1, <3>1 DEF OnlyConfirmations
  <2> QED
    BY <2>2, <2>3, <2>4
<1>5. \A k \in Instances : Resting(k)'
  BY <1>0, <1>2, <1>4 DEF Resting, CatchingUp
<1> QED
  BY <1>2, <1>3, <1>5

LEMMA LeavesAloneStep ==
  ASSUME TypeInv, LeaseInv, Settled, LeavesAlone, [Next]_vars PROVE LeavesAlone'
<1>0. PlaceType
  BY TypeParts DEF TypeInv
<1>1. ASSUME NEW i \in Instances, StepOf(i) PROVE LeavesAlone'
  <2>1. SUFFICES ASSUME NEW j \in Instances, Stopping(j)'
                 PROVE  /\ room'[j] = "warm" /\ ~conn'[j] /\ pending'[j] = <<>>
                        /\ \A k \in Instances : Resting(k)'
    BY DEF LeavesAlone
  <2>2. CASE Stopping(j)
    BY <1>1, <2>2, RestingSteps DEF LeavesAlone
  <2>3. CASE ~Stopping(j)
    <3>1. j = i /\ EvictIdle(i)
      <4>1. j # i => pc'[j] = pc[j] /\ ret'[j] = ret[j]
        BY <1>1, OthersKeep
      <4>2. j = i
        BY <2>1, <2>3, <4>1 DEF Stopping
      <4> QED
        BY <1>1, <2>1, <2>3, <4>2, Begins
    <3>2. UNCHANGED <<env, room, conn, pending, inbox, asks>>
      BY <3>1 DEF EvictIdle, room_, queue, redis
    <3>3. room[j] = "warm" /\ ~conn[j] /\ MayLeave(j) /\ "busy" \notin env
      BY <3>1, NotInSettled DEF EvictIdle
    <3>4. ASSUME NEW k \in Instances PROVE Resting(k)'
      BY <3>2, <3>3, RangeEmpty DEF MayLeave, Resting, CatchingUp, OnlyConfirmations
    <3> QED
      BY <3>2, <3>3, <3>4 DEF MayLeave
  <2> QED
    BY <2>2, <2>3
<1>2. ASSUME NEW i \in Instances, Unsubscribe(i) \/ Crash(i) PROVE LeavesAlone'
  <2>1. Unsubscribe(i)
    BY <1>2, NotInSettled
  <2>2. Gone(i) /\ env' = env /\ Stopping(i)
    BY <2>1 DEF Unsubscribe, Stopping, Evicts
  <2>3. RoomType /\ FlagType /\ QueueType /\ InboxType /\ CountType
    BY TypeParts DEF TypeInv
  <2>4. /\ pc'[i] = "idle" /\ room'[i] = "none" /\ inbox'[i] = <<>> /\ asks'[i] = 0 /\ pending'[i] = <<>>
        /\ \A j \in Instances : j # i =>
             /\ pc'[j] = pc[j] /\ ret'[j] = ret[j] /\ room'[j] = room[j] /\ conn'[j] = conn[j]
             /\ pending'[j] = pending[j] /\ inbox'[j] = inbox[j] /\ asks'[j] = asks[j]
    BY <1>0, <2>2, <2>3 DEF Gone, PlaceType, RoomType, FlagType, QueueType, InboxType, CountType
  <2>5. ~Stopping(i)' /\ \A j \in Instances : j # i => (Stopping(j)' <=> Stopping(j))
    BY <2>4 DEF Stopping, Evicts
  <2>6. ASSUME NEW k \in Instances PROVE Resting(k)'
    <3>1. Resting(k)
      BY <2>2 DEF LeavesAlone
    <3>2. CASE k = i
      BY <2>4, <3>2, RangeEmpty DEF Resting, CatchingUp, OnlyConfirmations
    <3>3. CASE k # i
      BY <2>2, <2>4, <3>1, <3>3 DEF Resting, CatchingUp, OnlyConfirmations
    <3> QED
      BY <3>2, <3>3
  <2> QED
    BY <2>4, <2>5, <2>6 DEF LeavesAlone
<1>3. ASSUME NEW i \in Instances, NEW e \in Edits, Edit(i, e) PROVE LeavesAlone'
  <2>1. \A j \in Instances : ~Stopping(j)
    BY <1>3, Undisturbs
  <2>2. UNCHANGED <<pc, ret>>
    BY <1>3 DEF Edit, tick
  <2> QED
    BY <2>1, <2>2 DEF LeavesAlone, Stopping
<1>4. CASE LeaseExpires \/ UNCHANGED vars
  <2>1. UNCHANGED <<env, pc, ret, room, conn, pending, inbox, asks>>
    BY <1>4 DEF LeaseExpires, vars, tick, room_, queue, redis
  <2> QED
    BY <2>1 DEF LeavesAlone, Stopping, Resting, CatchingUp, OnlyConfirmations
<1>6. ASSUME NEW i \in Instances, Internal(i) \/ Fault(i) \/ Client(i)
      PROVE  StepOf(i) \/ Unsubscribe(i) \/ Crash(i) \/ \E e \in Edits : Edit(i, e)
  BY <1>6 DEF Internal, Fault, Client, StepOf
<1> QED
  BY <1>1, <1>2, <1>3, <1>4, <1>6 DEF Next

(***************************************************************************)
(* Ticks                                                                   *)
(***************************************************************************)

\* What another instance does leaves the tick of j as it was: no two write at a time.
LEMMA TickOfOthers ==
  ASSUME TypeInv, LeaseInv, Contents, Ticks, NEW i \in Instances, StepOf(i), NEW j \in Instances, j # i
  PROVE  TickOf(j)'
<1>1. /\ room'[j] = room[j] /\ doc'[j] = doc[j] /\ local'[j] = local[j] /\ bus'[j] = bus[j]
      /\ leader'[j] = leader[j] /\ pc'[j] = pc[j] /\ ret'[j] = ret[j]
      /\ taken'[j] = taken[j] /\ shot'[j] = shot[j] /\ asks'[j] = asks[j]
  BY OthersKeep, OthersKeepMore
<1>2. pc[j] = "record" => Stored' = Stored
  <2>1. pc[j] = "record" => ~CreateOk(i) /\ ~RecordOk(i)
    BY DEF CreateOk, RecordOk, LeaseInv, At, Checked, LeadersOnly
  <2>2. ~CreateOk(i) /\ ~RecordOk(i) => UNCHANGED <<rows, snap>>
    BY DEF StepOf, Open, Load, Connect, Disconnect, PublishOk, PublishFails, CatchUp, OnUpdate,
       OnSyncStep1, OnPersisted, LoseFrame, TryBecomeLeader, TickStart, Renew, Campaign, LeaseCallFails,
       FlushDue, SnapshotDue, CreateFails, RecordFails, StayWarm, EvictIdle, Takeover, Shutdown, Evict,
       Persist, FlushStep, Compact, Release, store
  <2> QED
    BY <2>1, <2>2 DEF Stored, EditsOf
<1> QED
  BY <1>1, <1>2 DEF Ticks, TickOf, Buffered

\* Sockets, frames and loads, as they meet a tick that is under way.
LEMMA TickMeets ==
  ASSUME TypeInv, LeaseInv, Settled, Contents, LeavesAlone, Ticks, NEW i \in Instances,
         \/ Open(i) \/ Load(i) \/ Connect(i) \/ Disconnect(i) \/ CatchUp(i) \/ OnUpdate(i)
         \/ OnSyncStep1(i) \/ OnPersisted(i) \/ TryBecomeLeader(i)
  PROVE  TickOf(i)'
<1>0. /\ RoomType /\ CountType /\ KeptType /\ FlagType
  BY TypeParts DEF TypeInv
<1>1. UNCHANGED <<pc, ret, taken, shot, rows, snap>>
  BY DEF Open, Load, Connect, Disconnect, CatchUp, OnUpdate, OnSyncStep1, OnPersisted, TryBecomeLeader,
     tick, store
<1>2. asks'[i] > 0 => room'[i] = "warm"
  BY <1>0 DEF Open, Load, Connect, Disconnect, CatchUp, OnUpdate, OnSyncStep1, OnPersisted, TryBecomeLeader,
     room_, Ticks, TickOf, RoomType, CountType
<1>3. room[i] = "warm" => room'[i] = "warm"
  BY <1>0 DEF Open, Load, Connect, Disconnect, CatchUp, OnUpdate, OnSyncStep1, OnPersisted, TryBecomeLeader,
     room_, RoomType
<1>4. Stored' = Stored /\ doc[i] \subseteq doc'[i]
  BY <1>0, <1>1 DEF Open, Load, Connect, Disconnect, CatchUp, OnUpdate, OnSyncStep1, OnPersisted,
     TryBecomeLeader, RoomType, Stored, EditsOf
<1>5. Stopping(i) => \/ UNCHANGED <<local, bus, leader>>
                     \/ OnPersisted(i) /\ UNCHANGED leader
  <2>1. Stopping(i) => ~OnUpdate(i) /\ ~TryBecomeLeader(i)
    BY Undisturbs
  <2> QED
    BY <2>1 DEF Open, Load, Connect, Disconnect, CatchUp, OnSyncStep1, OnPersisted, kept
<1>6. OnPersisted(i) => /\ leader[i] => UNCHANGED <<local, bus>>
                        /\ local[i] = <<>> => local'[i] = <<>>
  <2>1. ASSUME OnPersisted(i), ~leader[i], local[i] = <<>> PROVE local'[i] = <<>>
    <3>1. PICK n \in 0 .. Len(local[i]) : local'[i] = SubSeq(local[i], n + 1, Len(local[i]))
      BY <1>0, <2>1, CoveredIs DEF OnPersisted, KeptType
    <3>2. Len(local[i]) = 0
      BY <2>1
    <3>3. n + 1 > Len(local[i])
      BY <3>1, <3>2
    <3> QED
      BY <3>1, <3>2, <3>3, SubSeqEmpty
  <2>2. OnPersisted(i) /\ leader[i] => UNCHANGED <<local, bus>>
    BY DEF OnPersisted, kept
  <2> QED
    BY <2>1, <2>2
<1>7. pc[i] = "release" \/ (pc[i] = "create" /\ ret[i] = "release") => ~Buffered(i)'
  <2>1. ASSUME pc[i] = "release" \/ (pc[i] = "create" /\ ret[i] = "release") PROVE ~Buffered(i)'
    <3>1. Stopping(i) /\ leader[i] /\ ~Buffered(i)
      BY <2>1 DEF Stopping, Evicts, LeaseInv, At, LeadersOnly, Ticks, TickOf
    <3>2. UNCHANGED <<local, bus>>
      BY <1>5, <1>6, <3>1
    <3> QED
      BY <3>1, <3>2 DEF Buffered
  <2> QED
    BY <2>1
<1>8. pc[i] = "unsubscribe" => ~leader'[i]
  BY <1>5 DEF Stopping, Evicts, Ticks, TickOf
<1>9. ~leader'[i] /\ pc[i] \in {"evict", "unsubscribe"} => local'[i] = <<>>
  BY <1>5, <1>6 DEF Stopping, Evicts, Ticks, TickOf
<1> QED
  BY <1>1, <1>2, <1>3, <1>4, <1>7, <1>8, <1>9 DEF Ticks, TickOf

\* What a tick captures has all that is stored.
LEMMA CapturesAll ==
  ASSUME Contents, LeaseInv, LeavesAlone, Ticks, NEW i \in Instances,
         \/ SnapshotDue(i) \/ Compact(i)
         \/ CreateOk(i) /\ ret[i] \in {"capture", "captureLast"}
  PROVE  Stored \subseteq doc[i]
<1>1. leader[i]
  BY DEF SnapshotDue, Compact, CreateOk, LeaseInv, At, LeadersOnly
<1>2. room[i] = "warm"
  BY DEF SnapshotDue, Compact, CreateOk, LeavesAlone, Stopping, Evicts, Ticks, TickOf
<1> QED
  BY <1>1, <1>2, LeaderKnows

\* The steps of the tick itself.
LEMMA TickWrites ==
  ASSUME TypeInv, LeaseInv, Settled, Contents, LeavesAlone, Ticks, NEW i \in Instances,
         \/ FlushDue(i) \/ SnapshotDue(i) \/ CreateOk(i) \/ CreateFails(i) \/ RecordOk(i)
         \/ RecordFails(i) \/ Persist(i) \/ Compact(i)
  PROVE  TickOf(i)'
<1>0. /\ KeptType /\ WriteType /\ PlaceType /\ Places /\ RoomType /\ FlagType
  BY TypeParts DEF TypeInv
<1>1. UNCHANGED <<asks, room, doc, leader>>
  BY DEF FlushDue, SnapshotDue, CreateOk, CreateFails, RecordOk, RecordFails, Persist, FlushStep, Compact, room_
<1>2. leader[i]
  BY DEF FlushDue, SnapshotDue, CreateOk, CreateFails, RecordOk, RecordFails, Persist, FlushStep, Compact,
     LeaseInv, At, LeadersOnly
<1>3. CASE (FlushDue(i) \/ SnapshotDue(i) \/ Persist(i) \/ Compact(i)) /\ \E q : StartFlush(i, q)
  <2>1. PICK q : StartFlush(i, q)
    BY <1>3
  <2>2. pc'[i] = "create" /\ ret'[i] = q /\ local'[i] = <<>> /\ bus'[i] = {}
    BY <1>0, <2>1 DEF StartFlush, Goto, KeptType, PlaceType
  <2>3. ~Buffered(i)'
    BY <2>2 DEF Buffered
  <2>4. q = "capture" => room[i] = "warm"
    <3>1. ret'[i] = "capture" => SnapshotDue(i)
      <4>1. CASE FlushDue(i)
        BY <1>0, <4>1 DEF FlushDue, StartFlush, PlaceType
      <4>2. CASE Persist(i)
        <5>1. \/ ret' = [ret EXCEPT ![i] = "evict"] \/ ret' = [ret EXCEPT ![i] = "compact?"]
              \/ ret' = [ret EXCEPT ![i] = "release"] \/ pc'[i] # "create"
          BY <1>0, <4>2 DEF Persist, FlushStep, StartFlush, Goto, PlaceType
        <5> QED
          BY <1>0, <2>2, <5>1 DEF PlaceType
      <4>3. CASE Compact(i)
        <5>1. ret' = [ret EXCEPT ![i] = "captureLast"] \/ pc'[i] # "create"
          BY <1>0, <4>3 DEF Compact, StartFlush, Capture, Goto, PlaceType
        <5> QED
          BY <1>0, <2>2, <5>1 DEF PlaceType
      <4> QED
        BY <1>3, <4>1, <4>2, <4>3
    <3> QED
      BY <2>2, <3>1 DEF SnapshotDue
  <2> QED
    BY <1>1, <1>2, <2>2, <2>3, <2>4 DEF Ticks, TickOf
<1>4. CASE (SnapshotDue(i) \/ Compact(i)) /\ \E q : Capture(i, q)
  <2>1. PICK q : Capture(i, q)
    BY <1>4
  <2>2. pc'[i] = "record" /\ shot'[i] = doc[i] /\ ret'[i] \in {"evict?", "rest"}
    <3>1. pc'[i] = "record" /\ shot'[i] = doc[i]
      BY <1>0, <2>1 DEF Capture, Goto, PlaceType, WriteType
    <3>2. ret' = [ret EXCEPT ![i] = "evict?"] \/ ret' = [ret EXCEPT ![i] = "rest"]
      BY <1>0, <1>4, <3>1 DEF SnapshotDue, Compact, StartFlush, Capture, Goto, PlaceType
    <3> QED
      BY <1>0, <3>1, <3>2 DEF PlaceType
  <2>3. Stored \subseteq doc[i]
    BY <1>4, CapturesAll
  <2>4. UNCHANGED <<rows, snap>> /\ taken'[i] = taken[i] /\ taken[i] = NoEntries
    <3>1. UNCHANGED <<rows, snap>> /\ taken[i] = NoEntries
      BY <1>4 DEF SnapshotDue, Compact, store, Ticks, TickOf
    <3>2. UNCHANGED taken
      BY <1>0, <1>4, <2>2 DEF SnapshotDue, Compact, StartFlush, Goto, PlaceType
    <3> QED
      BY <3>1, <3>2
  <2> QED
    BY <1>1, <1>2, <2>2, <2>3, <2>4 DEF Ticks, TickOf, Stored, EditsOf
<1>5. CASE (Persist(i) \/ Compact(i)) /\ ~(\E q : StartFlush(i, q)) /\ ~(\E q : Capture(i, q))
  <2>1. /\ UNCHANGED <<local, bus, taken>> /\ pc[i] # "create"
        /\ \/ pc'[i] \in {"evict", "compact?", "rest"}
           \/ pc'[i] = "release" /\ ~Buffered(i)
    BY <1>0, <1>5 DEF Persist, FlushStep, Compact, Goto, PlaceType, kept
  <2> QED
    BY <1>1, <1>2, <2>1 DEF Ticks, TickOf, Buffered
<1>6. CASE CreateOk(i)
  <2>1. /\ taken'[i] = NoEntries /\ UNCHANGED <<snap, local, bus>> /\ pc[i] = "create"
        /\ rows' = rows \cup {[id |-> nextRow, upd |-> TakenEdits(i)]}
    BY <1>0, <1>6 DEF CreateOk, WriteType, kept
  <2>2. CASE ret[i] \in {"capture", "captureLast"}
    <3>1. pc'[i] = "record" /\ shot'[i] = doc[i] /\ ret'[i] \in {"evict?", "rest"}
      BY <1>0, <1>6, <2>2 DEF CreateOk, Capture, Goto, PlaceType, WriteType
    <3>2. Stored \subseteq doc[i]
      BY <1>6, <2>2, CapturesAll
    <3>3. TakenEdits(i) \subseteq doc[i]
      BY DEF Contents, FromDocuments, Buffers
    <3>4. Stored' \subseteq Stored \cup TakenEdits(i)
      BY <2>1 DEF Stored, EditsOf
    <3> QED
      BY <1>1, <1>2, <2>1, <3>1, <3>2, <3>3, <3>4 DEF Ticks, TickOf
  <2>3. CASE ret[i] \notin {"capture", "captureLast"}
    <3>1. pc'[i] = ret[i] /\ ret[i] \in RunPC \cup {"lease", "release"}
      BY <1>0, <1>6, <2>3 DEF CreateOk, GoBack, PlaceType
    <3>2. ret[i] = "release" => ~Buffered(i)'
      BY <2>1 DEF Ticks, TickOf, Buffered
    <3> QED
      BY <1>1, <1>2, <2>1, <3>1, <3>2 DEF Ticks, TickOf, RunPC
  <2> QED
    BY <2>2, <2>3
<1>7. CASE CreateFails(i)
  <2>1. taken'[i] = NoEntries /\ pc'[i] \in {"evict?", "rest", "idle"}
    BY <1>0, <1>7 DEF CreateFails, Goto, WriteType, PlaceType
  <2> QED
    BY <1>1, <1>2, <2>1 DEF Ticks, TickOf
<1>8. CASE RecordOk(i) \/ RecordFails(i)
  <2>1. pc'[i] = ret[i] /\ UNCHANGED taken /\ pc[i] = "record"
    BY <1>0, <1>8 DEF RecordOk, RecordFails, GoBack, PlaceType
  <2>2. ret[i] \in {"evict?", "rest"}
    BY <1>0, <2>1 DEF Ticks, TickOf
  <2> QED
    BY <1>1, <1>2, <2>1, <2>2 DEF Ticks, TickOf
<1>9. ~(\E q : StartFlush(i, q)) /\ ~(\E q : Capture(i, q)) => ~FlushDue(i) /\ ~SnapshotDue(i)
  BY DEF FlushDue, SnapshotDue
<1>10. (\E q : Capture(i, q)) /\ ~(\E q : StartFlush(i, q)) => ~FlushDue(i)
  BY DEF FlushDue
<1>11. (\E q : Capture(i, q)) /\ Persist(i) => FALSE
  BY <1>0 DEF Persist, FlushStep, StartFlush, Capture, Goto, PlaceType
<1> QED
  BY <1>3, <1>4, <1>5, <1>6, <1>7, <1>8, <1>9, <1>10, <1>11

LEMMA TickMoves ==
  ASSUME TypeInv, LeaseInv, Settled, Ticks, NEW i \in Instances,
         \/ PublishOk(i) \/ PublishFails(i) \/ TickStart(i) \/ Renew(i) \/ Campaign(i)
         \/ StayWarm(i) \/ EvictIdle(i) \/ Takeover(i) \/ Evict(i) \/ Release(i)
  PROVE  TickOf(i)'
<1>0. PlaceType /\ FlagType /\ KeptType
  BY TypeParts DEF TypeInv
<1>1. UNCHANGED <<asks, room, doc, local, taken, shot, rows, snap>> /\ Stored' = Stored
  <2>1. UNCHANGED <<asks, room, doc, local, taken, shot, rows, snap>>
    BY DEF PublishOk, PublishFails, TickStart, Renew, Campaign, StayWarm, EvictIdle, Takeover, Evict,
       Release, room_, kept, tick, store
  <2> QED
    BY <2>1 DEF Stored, EditsOf
<1>2. CASE PublishOk(i) \/ PublishFails(i)
  <2>1. UNCHANGED <<leader, bus>> /\ (UNCHANGED <<pc, ret>> \/ (pc[i] = "drain" /\ pc'[i] = ret[i]))
    BY <1>0, <1>2 DEF PublishOk, PublishFails, DrainEnds, GoBack, kept, PlaceType
  <2>2. pc[i] = "drain" => ret[i] \in {"lease", "takeoverFlush", "persist"}
    BY DEF LeaseInv, At
  <2> QED
    BY <1>1, <2>1, <2>2 DEF Ticks, TickOf, Buffered
<1>3. CASE TickStart(i) \/ Renew(i) \/ Campaign(i) \/ StayWarm(i)
  <2>1. pc'[i] \in {"drain", "lease", "flush?", "idle"} /\ pc[i] \notin {"create", "record"}
    BY <1>0, <1>3 DEF TickStart, Renew, Campaign, StayWarm, StartDrain, Goto, PlaceType, Decides
  <2> QED
    BY <1>1, <2>1 DEF Ticks, TickOf
<1>4. CASE EvictIdle(i)
  <2>1. /\ UNCHANGED leader /\ pc[i] \notin {"create", "record"}
        /\ pc'[i] = "takeover" \/ (pc'[i] = "evict" /\ ~Unconfirmed(i))
    BY <1>0, <1>4 DEF EvictIdle, Goto, PlaceType, Decides
  <2> QED
    BY <1>1, <2>1 DEF Ticks, TickOf, Unconfirmed
<1>5. CASE Takeover(i)
  <2>1. pc[i] \notin {"create", "record"} /\ pc'[i] \in {"drain", "takeoverFlush", "idle"}
    BY <1>0, <1>5 DEF Takeover, StartDrain, Goto, PlaceType
  <2> QED
    BY <1>1, <2>1 DEF Ticks, TickOf
<1>6. CASE Evict(i)
  <2>1. /\ pc[i] = "evict" /\ UNCHANGED leader
        /\ pc'[i] \in {"drain", "persist"} \/ (pc'[i] = "unsubscribe" /\ ~leader[i])
    BY <1>0, <1>6 DEF Evict, StartDrain, Goto, PlaceType
  <2> QED
    BY <1>1, <2>1 DEF Ticks, TickOf
<1>7. CASE Release(i)
  <2>1. pc[i] = "release" /\ pc'[i] = "unsubscribe" /\ ~leader'[i]
    BY <1>0, <1>7 DEF Release, Goto, PlaceType, FlagType
  <2> QED
    BY <1>1, <2>1 DEF Ticks, TickOf, Buffered
<1> QED
  BY <1>2, <1>3, <1>4, <1>5, <1>6, <1>7

LEMMA TicksStep ==
  ASSUME TypeInv, LeaseInv, Settled, Contents, LeavesAlone, Ticks, [Next]_vars PROVE Ticks'
<1>1. ASSUME NEW i \in Instances, StepOf(i) PROVE Ticks'
  <2>1. \A j \in Instances : j # i => TickOf(j)'
    BY <1>1, TickOfOthers
  <2>2. TickOf(i)'
    BY <1>1, TickMeets, TickWrites, TickMoves, NotInSettled DEF StepOf
  <2> QED
    BY <2>1, <2>2 DEF Ticks
<1>2. ASSUME NEW i \in Instances, Unsubscribe(i) \/ Crash(i) PROVE Ticks'
  <2>0. RoomType /\ CountType /\ KeptType /\ FlagType /\ WriteType /\ PlaceType
    BY TypeParts DEF TypeInv
  <2>1. Gone(i) /\ UNCHANGED <<rows, snap>>
    BY <1>2 DEF Unsubscribe, Crash, store
  <2>2. /\ pc'[i] = "idle" /\ taken'[i] = NoEntries /\ asks'[i] = 0
        /\ \A j \in Instances : j # i =>
             /\ pc'[j] = pc[j] /\ ret'[j] = ret[j] /\ room'[j] = room[j] /\ asks'[j] = asks[j]
             /\ taken'[j] = taken[j] /\ shot'[j] = shot[j] /\ doc'[j] = doc[j]
             /\ local'[j] = local[j] /\ bus'[j] = bus[j] /\ leader'[j] = leader[j]
    BY <2>0, <2>1 DEF Gone, RoomType, CountType, KeptType, FlagType, WriteType, PlaceType
  <2>3. Stored' = Stored
    BY <2>1 DEF Stored, EditsOf
  <2> QED
    BY <2>2, <2>3 DEF Ticks, TickOf, Buffered
<1>3. ASSUME NEW i \in Instances, NEW e \in Edits, Edit(i, e) PROVE Ticks'
  <2>1. \A j \in Instances : ~Stopping(j)
    BY <1>3, Undisturbs
  <2>2. /\ UNCHANGED <<pc, ret, taken, shot, asks, room, leader, rows, snap>>
        /\ \A j \in Instances : doc[j] \subseteq doc'[j]
    BY <1>3, TypeParts DEF Edit, tick, room_, store, TypeInv, RoomType
  <2>3. Stored' = Stored
    BY <2>2 DEF Stored, EditsOf
  <2>4. \A j \in Instances : /\ pc[j] \notin {"release", "evict", "unsubscribe"}
                             /\ ~(pc[j] = "create" /\ ret[j] = "release")
    BY <2>1 DEF Stopping, Evicts
  <2> QED
    BY <2>2, <2>3, <2>4 DEF Ticks, TickOf
<1>4. CASE LeaseExpires \/ UNCHANGED vars
  <2>1. UNCHANGED <<pc, ret, taken, shot, asks, room, leader, rows, snap, doc, local, bus>>
    BY <1>4 DEF LeaseExpires, vars, tick, room_, store, kept
  <2> QED
    BY <2>1 DEF Ticks, TickOf, Buffered, Stored, EditsOf
<1>6. ASSUME NEW i \in Instances, Internal(i) \/ Fault(i) \/ Client(i)
      PROVE  StepOf(i) \/ Unsubscribe(i) \/ Crash(i) \/ \E e \in Edits : Edit(i, e)
  BY <1>6 DEF Internal, Fault, Client, StepOf
<1> QED
  BY <1>1, <1>2, <1>3, <1>4, <1>6 DEF Next

(***************************************************************************)
(* What is stored or kept                                                  *)
(***************************************************************************)

LEMMA StoreInvInit == Init => StoreInv
<1> SUFFICES ASSUME Init PROVE StoreInv
  OBVIOUS
<1>1. Stored = {Seed}
  BY DEF Init, Stored, EditsOf
<1>2. \A j \in Instances : Buffers(j) = {} /\ Range(pending[j]) = {} /\ Range(inbox[j]) = {}
  BY RangeEmpty DEF Init, Buffers, TakenEdits, NoEntries
<1>3. Contents
  <2>1. OneLeader /\ LeadersWrite /\ OwedIsKept /\ SnapshotStandsForItsRows
    BY DEF Init, OneLeader, LeadersWrite, OwedIsKept, SnapshotStandsForItsRows
  <2>2. FromDocuments /\ Confirmed
    BY <1>2 DEF FromDocuments, Confirmed
  <2>3. OnlyTyped /\ AllReach /\ WritersKnow
    BY <1>1 DEF Init, OnlyTyped, Typed, AllReach, WritersKnow
  <2> QED
    BY <2>1, <2>2, <2>3 DEF Contents
<1>4. Numbers /\ LeavesAlone /\ Ticks
  BY DEF Init, Numbers, LeavesAlone, Stopping, Evicts, Ticks, TickOf
<1> QED
  BY <1>3, <1>4 DEF StoreInv

LEMMA StoreInvHolds == ASSUME Unrelated PROVE Spec => []StoreInv
<1> DEFINE Inv == TypeInv /\ (LeaseHolds => LeaseInv) /\ StoreInv
<1>1. Init => Inv
  BY TypeInvInit, LeaseInvInit, StoreInvInit
<1>2. Inv /\ [Next]_vars => Inv'
  <2> SUFFICES ASSUME Inv, [Next]_vars PROVE Inv'
    OBVIOUS
  <2>1. TypeInv' /\ Numbers'
    BY TypeInvStep, NumbersStep DEF StoreInv
  <2>2. (Settled' => Settled) /\ (LeaseHolds' => LeaseHolds) /\ (Settled => LeaseHolds)
    BY EnvStays DEF Settled, LeaseHolds
  <2>3. LeaseHolds' => LeaseInv'
    BY <2>2, LeaseStep
  <2>4. Settled' => Contents' /\ LeavesAlone' /\ Ticks'
    BY <2>2, ContentsStep, LeavesAloneStep, TicksStep DEF StoreInv
  <2> QED
    BY <2>1, <2>3, <2>4 DEF StoreInv
<1>3. Spec => []Inv
  BY <1>1, <1>2, PTL DEF Spec
<1> QED
  BY <1>3, PTL

\* However publishing and writing fail and rooms come and go, an accepted edit is
\* stored, or a room holds it for writing: what a follower drops its leader has
\* stored or buffers, a leader writes all it has, and lets go of the lease only with
\* empty buffers (onLeaderPersisted, setLeader, persistAllForEviction) - where frames
\* arrive, leases hold, and no edit builds on another.
THEOREM AcceptedIsStoredOrKept ==
  ASSUME Unrelated PROVE Spec => []StoredOrKept
<1>1. TypeInv /\ StoreInv => StoredOrKept
  <2> SUFFICES ASSUME TypeInv, StoreInv, Settled, NEW e \in owed
               PROVE  e \in Reconstruct \/ \E i \in Instances : e \in Keeps(i)
    BY DEF StoredOrKept
  <2>1. Reconstruct = Stored
    BY AllIsRead DEF StoreInv, Contents
  <2>2. e \in Stored \/ LeaderBuffers(e) \/ \E j \in Instances : e \in Own(j)
    BY DEF StoreInv, Contents, OwedIsKept
  <2>3. \A j \in Instances : Own(j) \cup Buffers(j) \subseteq Keeps(j)
    BY DEF Own, Buffers, TakenEdits, Keeps
  <2> QED
    BY <2>1, <2>2, <2>3 DEF LeaderBuffers
<1> QED
  BY <1>1, TypeInvHolds, StoreInvHolds, PTL

\* The snapshot of one backend includes the rows of all that led before it, whose ids
\* it claims: who leads has learnt all that is stored, from Postgres, from the frames
\* of the last leader or from its answer (getOrCreate, applyBusUpdate,
\* applyBusSyncStep2, writeSnapshot) - under the same conditions.
THEOREM SnapshotsIncludeTheirRows ==
  ASSUME Unrelated PROVE Spec => []SnapshotIncludesItsRows
<1>1. StoreInv => SnapshotIncludesItsRows
  BY DEF StoreInv, Contents, SnapshotIncludesItsRows
<1> QED
  BY <1>1, StoreInvHolds, PTL

=============================================================================
