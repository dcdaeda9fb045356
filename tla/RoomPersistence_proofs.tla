---------------------- MODULE RoomPersistence_proofs ----------------------
(***************************************************************************)
(* Proofs about RoomPersistence, for every set of edits, clients, rooms    *)
(* and ticks and every history limit.  Types hold in any environment; the  *)
(* inductive invariant of RoomInvariant, and the safety properties that    *)
(* follow from it, in an ordinary one.  Each part of the invariant has one *)
(* lemma that every step preserves it, with one step per action that could *)
(* disturb it; InvStep puts them together.                                 *)
(*                                                                         *)
(* Where loads read the newest object it implements DurableDocument: what  *)
(* storage yields is `stored', a loaded room is `open', its document is    *)
(* `shown'.  StoredInv says how the three hang together; most of the proof *)
(* shows that what storage yields and what is pending change only by a     *)
(* flush, an edit and a crash.                                             *)
(*                                                                         *)
(* Each edit is written once; this needs neither one tick at a time nor    *)
(* one room, only that an INSERT reported as failed has failed.  Between   *)
(* ticks no more versions and rows stay than the limit asks for, while     *)
(* calls to Postgres succeed.                                              *)
(***************************************************************************)
EXTENDS RoomInvariant, FiniteSetTheorems, TLAPS

(***************************************************************************)
(* Types                                                                   *)
(***************************************************************************)

\* Where Goto leaves a tick.
LEMMA GotoType ==
  ASSUME TypeOK, NEW t \in Ticks, NEW r \in Rooms, NEW p \in RunPC \cup WaitPC \cup {"idle"},
         Goto(t, r, p)
  PROVE  /\ pc' \in [Ticks -> RunPC \cup WaitPC \cup {"idle"}]
         /\ on' \in [Ticks -> Rooms \cup {NoRoom}]
         /\ \A u \in Ticks : pc'[u] # "idle" => on'[u] \in Rooms
BY DEF TypeOK, Goto

\* What a call of flushUpdates writes keeps its type.
LEMMA FlushType ==
  ASSUME TypeOK, NEW t \in Ticks, NEW r \in Rooms,
         NEW next \in {"snapshot?", "write", "compact?", "destroy"},
         FlushUpdates(t, r, next)
  PROVE  /\ entries' \in [Ticks -> SUBSET Edits]
         /\ buffer' \in [Rooms -> SUBSET Edits]
         /\ flushing' \in [Rooms -> BOOLEAN]
         /\ ret' \in [Ticks -> {"snapshot?", "write", "compact?", "destroy"}]
         /\ pc' \in [Ticks -> RunPC \cup WaitPC \cup {"idle"}]
         /\ on' \in [Ticks -> Rooms \cup {NoRoom}]
         /\ \A u \in Ticks : pc'[u] # "idle" => on'[u] \in Rooms
<1>1. next \in RunPC \cup WaitPC \cup {"idle"} /\ "create" \in RunPC \cup WaitPC \cup {"idle"}
  BY DEF RunPC, WaitPC
<1>2. CASE Goto(t, r, next) /\ UNCHANGED <<entries, buffer, flushing, ret>>
  BY <1>1, <1>2, GotoType DEF TypeOK
<1>3. CASE /\ entries' = [entries EXCEPT ![t] = buffer[r]]
           /\ buffer' = [buffer EXCEPT ![r] = {}]
           /\ flushing' = [flushing EXCEPT ![r] = TRUE]
           /\ ret' = [ret EXCEPT ![t] = next]
           /\ Goto(t, r, "create")
  BY <1>1, <1>3, GotoType DEF TypeOK
<1> QED
  BY <1>2, <1>3 DEF FlushUpdates

\* What an object holds is a set of edits.
LEMMA ContentType == ASSUME TypeOK, NEW k PROVE Content(k) \subseteq Edits
BY DEF TypeOK, Content, EditsOf

\* So is what the rows after some id hold.
LEMMA TailType == ASSUME TypeOK, NEW n PROVE EditsOf(Tail(n)) \subseteq Edits
BY DEF TypeOK, Tail, EditsOf

\* Every step keeps the types.
LEMMA TypeStep == TypeOK /\ [Next]_vars => TypeOK'
<1> SUFFICES ASSUME TypeOK, [Next]_vars PROVE TypeOK'
  OBVIOUS
<1> USE BoundAssumption, NoRoomAssumption
        DEF TypeOK, store, room, sockets, tick, history, RunPC, WaitPC, Keys
<1>1. ASSUME NEW c \in Clients, Connect(c) PROVE TypeOK'
  BY <1>1 DEF Connect
<1>2. ASSUME NEW c \in Clients, NEW r \in Rooms, CreateRoom(c, r) PROVE TypeOK'
  BY <1>2 DEF CreateRoom, NoBase
<1>3. ASSUME NEW c \in Clients, LoadBase(c) PROVE TypeOK'
  <2> DEFINE r == joining[c]
  <2>1. r \in Rooms
    BY <1>3, NoRoomAssumption DEF LoadBase
  <2>2. doc' \in [Rooms -> SUBSET Edits] /\ base' \in [Rooms -> [upTo : 0 .. MaxRow, found : BOOLEAN, listed : BOOLEAN]]
    <3>1. PICK readable \in ReadableNow :
            \/ /\ readable = {}
               /\ base' = [base EXCEPT ![r] = [upTo |-> 0, found |-> FALSE, listed |-> snaps # {}]]
               /\ UNCHANGED doc
            \/ \E s \in readable :
                 /\ base' = [base EXCEPT ![r] = [upTo |-> s.upTo, found |-> TRUE, listed |-> TRUE]]
                 /\ doc' = [doc EXCEPT ![r] = @ \cup Content(s.key)]
      BY <1>3 DEF LoadBase
    <3>2. readable \subseteq snaps
      BY DEF ReadableNow, Readable
    <3>3. CASE base' = [base EXCEPT ![r] = [upTo |-> 0, found |-> FALSE, listed |-> snaps # {}]] /\ UNCHANGED doc
      <4>1. (snaps # {}) \in BOOLEAN
        OBVIOUS
      <4>2. [upTo |-> 0, found |-> FALSE, listed |-> snaps # {}] \in [upTo : 0 .. MaxRow, found : BOOLEAN, listed : BOOLEAN]
        BY <4>1
      <4> QED
        BY <2>1, <3>3, <4>2
    <3>4. ASSUME NEW s \in readable,
                 base' = [base EXCEPT ![r] = [upTo |-> s.upTo, found |-> TRUE, listed |-> TRUE]],
                 doc' = [doc EXCEPT ![r] = @ \cup Content(s.key)]
          PROVE  doc' \in [Rooms -> SUBSET Edits] /\ base' \in [Rooms -> [upTo : 0 .. MaxRow, found : BOOLEAN, listed : BOOLEAN]]
      <4>1. s.upTo \in 0 .. MaxRow
        BY <3>2
      <4>2. Content(s.key) \subseteq Edits
        BY ContentType
      <4>3. [upTo |-> s.upTo, found |-> TRUE, listed |-> TRUE] \in [upTo : 0 .. MaxRow, found : BOOLEAN, listed : BOOLEAN]
        BY <4>1
      <4> QED
        BY <2>1, <3>4, <4>2, <4>3
    <3> QED
      BY <3>1, <3>3, <3>4
  <2> QED
    BY <1>3, <2>1, <2>2 DEF LoadBase
<1>4. ASSUME NEW c \in Clients, LoadTail(c) PROVE TypeOK'
  BY <1>4 DEF LoadTail, Tail, EditsOf
<1>5. ASSUME NEW c \in Clients, LoadFails(c) PROVE TypeOK'
  BY <1>5 DEF LoadFails
<1>6. ASSUME NEW c \in Clients, NEW e \in Edits, Edit(c, e) PROVE TypeOK'
  BY <1>6 DEF Edit
<1>7. ASSUME NEW c \in Clients, Disconnect(c) PROVE TypeOK'
  BY <1>7 DEF Disconnect
<1>8. ASSUME NEW c \in Clients, CloseWhileLoading(c) PROVE TypeOK'
  BY <1>8 DEF CloseWhileLoading
<1>9. ASSUME NEW t \in Ticks, TickStart(t) PROVE TypeOK'
  BY <1>9 DEF TickStart, Goto
<1>10. ASSUME NEW t \in Ticks, FlushDue(t) PROVE TypeOK'
  <2>1. on[t] \in Rooms
    BY <1>10 DEF FlushDue
  <2> QED
    BY <1>10, <2>1, FlushType DEF FlushDue
<1>11. ASSUME NEW t \in Ticks, FlushNotDue(t) PROVE TypeOK'
  BY <1>11 DEF FlushNotDue, Goto
<1>12. ASSUME NEW t \in Ticks, SnapshotDue(t) PROVE TypeOK'
  <2>1. on[t] \in Rooms
    BY <1>12 DEF SnapshotDue
  <2> QED
    BY <1>12, <2>1, FlushType DEF SnapshotDue, MaybeSnapshot
<1>13. ASSUME NEW t \in Ticks, SnapshotNotDue(t) PROVE TypeOK'
  BY <1>13 DEF SnapshotNotDue, Goto
<1>14. ASSUME NEW t \in Ticks, CreateOk(t) PROVE TypeOK'
  BY <1>14 DEF CreateOk, Goto
<1>15. ASSUME NEW t \in Ticks, CreateFails(t) PROVE TypeOK'
  <2>1. on[t] \in Rooms
    BY <1>15 DEF CreateFails
  <2>2. PICK p \in RunPC \cup WaitPC \cup {"idle"} : Goto(t, on[t], p)
    BY <1>15 DEF CreateFails
  <2>3. nextRow' \in 1 .. (MaxRow + 1) /\ rows' \subseteq [id : 1 .. MaxRow, upd : SUBSET Edits]
    <3>1. CASE UNCHANGED <<rows, nextRow>>
      BY <3>1
    <3>2. CASE /\ nextRow < MaxRow
               /\ rows' = rows \cup {[id |-> nextRow, upd |-> entries[t]]}
               /\ nextRow' = nextRow + 1
      BY <3>2
    <3> QED
      BY <1>15, <3>1, <3>2 DEF CreateFails
  <2>4. buffer' \in [Rooms -> SUBSET Edits] /\ entries' \in [Ticks -> SUBSET Edits] /\ flushing' \in [Rooms -> BOOLEAN]
    BY <1>15 DEF CreateFails
  <2> QED
    BY <1>15, <2>1, <2>2, <2>3, <2>4, GotoType DEF CreateFails
<1>16. ASSUME NEW t \in Ticks, Write(t) PROVE TypeOK'
  <2>1. on[t] \in Rooms
    BY <1>16 DEF Write
  <2>2. PICK p \in RunPC \cup WaitPC \cup {"idle"} : Goto(t, on[t], p)
    BY <1>16 DEF Write
  <2>3. shot' \in [Ticks -> [upd : SUBSET Edits, version : 0 .. MaxVersion, upTo : 0 .. MaxRow]]
    BY <1>16, <2>1 DEF Write
  <2> QED
    BY <1>16, <2>1, <2>2, <2>3, GotoType DEF Write
<1>17. ASSUME NEW t \in Ticks, PrevOk(t) PROVE TypeOK'
  <2>1. on[t] \in Rooms
    BY <1>17 DEF PrevOk
  <2>2. PICK v \in 0 .. MaxVersion : shot' = [shot EXCEPT ![t].version = v]
    BY <1>17 DEF PrevOk
  <2>3. shot' \in [Ticks -> [upd : SUBSET Edits, version : 0 .. MaxVersion, upTo : 0 .. MaxRow]]
    BY <2>2
  <2>4. "put" \in RunPC \cup WaitPC \cup {"idle"} /\ Goto(t, on[t], "put")
    BY <1>17 DEF PrevOk
  <2> QED
    BY <1>17, <2>1, <2>3, <2>4, GotoType DEF PrevOk
<1>18. ASSUME NEW t \in Ticks, PutOk(t) PROVE TypeOK'
  BY <1>18 DEF PutOk, Key, Goto
<1>19. ASSUME NEW t \in Ticks, VerifyOk(t) PROVE TypeOK'
  BY <1>19 DEF VerifyOk, Goto
<1>20. ASSUME NEW t \in Ticks, RecordOk(t) PROVE TypeOK'
  BY <1>20 DEF RecordOk, NewSnapshot, Key, Goto
<1>21. ASSUME NEW t \in Ticks, WriteFails(t) PROVE TypeOK'
  BY <1>21 DEF WriteFails, NoShot, Goto
<1>22. ASSUME NEW t \in Ticks, WriteLosesReply(t) PROVE TypeOK'
  <2>1. on[t] \in Rooms
    BY <1>22 DEF WriteLosesReply
  <2>2. PICK p \in RunPC \cup WaitPC \cup {"idle"} : Goto(t, on[t], p)
    BY <1>22 DEF WriteLosesReply
  <2>3. shot' \in [Ticks -> [upd : SUBSET Edits, version : 0 .. MaxVersion, upTo : 0 .. MaxRow]]
    BY <1>22 DEF WriteLosesReply, NoShot
  <2>4. objects' \subseteq [key : Keys, upd : SUBSET Edits]
    BY <1>22 DEF WriteLosesReply, Key
  <2>5. snaps' \subseteq [version : 0 .. MaxVersion, key : Keys, upTo : 0 .. MaxRow]
    BY <1>22 DEF WriteLosesReply, NewSnapshot, Key
  <2> QED
    BY <1>22, <2>1, <2>2, <2>3, <2>4, <2>5, GotoType DEF WriteLosesReply
<1>23. ASSUME NEW t \in Ticks, Prune(t) PROVE TypeOK'
  BY <1>23 DEF Prune, Tail, Goto
<1>24. ASSUME NEW t \in Ticks, DeleteObject(t) PROVE TypeOK'
  BY <1>24 DEF DeleteObject, Goto
<1>25. ASSUME NEW t \in Ticks, DeleteSnapshotRow(t) PROVE TypeOK'
  BY <1>25 DEF DeleteSnapshotRow, Goto
<1>26. ASSUME NEW t \in Ticks, SnapshotDone(t) PROVE TypeOK'
  BY <1>26 DEF SnapshotDone, NoShot, Goto
<1>27. ASSUME NEW t \in Ticks, EvictIdle(t) PROVE TypeOK'
  <2>1. on[t] \in Rooms
    BY <1>27 DEF EvictIdle
  <2>2. CASE Goto(t, on[t], "idle") /\ UNCHANGED <<entries, buffer, flushing, ret>>
    BY <1>27, <2>1, <2>2, GotoType DEF EvictIdle
  <2>3. CASE current # NoRoom /\ FlushUpdates(t, current, "compact?")
    BY <1>27, <2>3, FlushType DEF EvictIdle
  <2> QED
    BY <1>27, <2>2, <2>3 DEF EvictIdle
<1>28. ASSUME NEW t \in Ticks, StayWarm(t) PROVE TypeOK'
  BY <1>28 DEF StayWarm, Goto
<1>29. ASSUME NEW t \in Ticks, EvictCompact(t) PROVE TypeOK'
  <2>1. on[t] \in Rooms
    BY <1>29 DEF EvictCompact
  <2>2. CASE MaybeSnapshot(t, on[t], "rest?")
    BY <1>29, <2>1, <2>2, FlushType DEF EvictCompact, MaybeSnapshot
  <2>3. CASE Goto(t, on[t], "rest?") /\ UNCHANGED <<entries, buffer, flushing, ret, back>>
    BY <1>29, <2>1, <2>3, GotoType DEF EvictCompact
  <2> QED
    BY <1>29, <2>2, <2>3 DEF EvictCompact
<1>30. ASSUME NEW t \in Ticks, EvictRest(t) PROVE TypeOK'
  <2>1. on[t] \in Rooms
    BY <1>30 DEF EvictRest
  <2> QED
    BY <1>30, <2>1, FlushType DEF EvictRest
<1>31. ASSUME NEW t \in Ticks, Destroy(t) PROVE TypeOK'
  BY <1>31 DEF Destroy, Goto
<1>32. CASE Crash
  BY <1>32 DEF Crash, NoShot, NoBase
<1>33. CASE UNCHANGED vars
  BY <1>33 DEF vars
<1> QED
  BY <1>1, <1>2, <1>3, <1>4, <1>5, <1>6, <1>7, <1>8, <1>9, <1>10, <1>11, <1>12, <1>13,
     <1>14, <1>15, <1>16, <1>17, <1>18, <1>19, <1>20, <1>21, <1>22, <1>23, <1>24, <1>25,
     <1>26, <1>27, <1>28, <1>29, <1>30, <1>31, <1>32, <1>33
  DEF Next, ClientNext, TickNext, vars

\* Empty storage and no room are well typed.
LEMMA TypeInit == Init => TypeOK
BY BoundAssumption DEF Init, TypeOK, NoBase, NoShot, RunPC, WaitPC, Keys

\* Every variable keeps its type, whatever the environment does.
THEOREM TypeCorrect == Spec => []TypeOK
BY TypeInit, TypeStep, PTL DEF Spec


(***************************************************************************)
(* One tick, the room in the map, and eviction                             *)
(***************************************************************************)

\* What an ordinary environment does not do.
LEMMA Excluded ==
  ASSUME Env \subseteq Ordinary
  PROVE  /\ "overlap" \notin Env /\ "objectLoss" \notin Env
         /\ "joinLoading" \notin Env /\ "joinFailed" \notin Env /\ "joinEvicting" \notin Env
BY DEF Ordinary

\* A tick that goes on, past a write or not, stays the only one.
LEMMA GotoTick ==
  ASSUME TypeOK, TickInv, NEW t \in Ticks, pc[t] # "idle",
         NEW p \in RunPC \cup WaitPC \cup {"idle"}, p # "create", Goto(t, on[t], p),
         p \in WaitPC \cup {"write"} => phase[on[t]] = "warm",
         UNCHANGED <<current, phase>>,
         awaiting'[current] => phase[current] = "warm",
         \/ UNCHANGED <<entries, flushing>> /\ pc[t] # "create"
         \/ entries' = [entries EXCEPT ![t] = {}] /\ flushing' = [flushing EXCEPT ![on[t]] = FALSE]
  PROVE  TickInv'
<1>1. current \in Rooms /\ current # NoRoom /\ on[t] = current
  BY DEF TypeOK, TickInv
<1>2. \A u \in Ticks : u # t => pc[u] = "idle" /\ pc'[u] = "idle"
  BY DEF TypeOK, TickInv, Goto
<1>3. pc'[t] = p /\ on'[t] = IF p = "idle" THEN NoRoom ELSE current
  BY <1>1 DEF TypeOK, Goto
<1>4. \A u \in Ticks : entries'[u] # {} => pc'[u] = "create"
  BY <1>2, <1>3 DEF TypeOK, TickInv
<1>5. ~flushing'[current]
  <2>1. CASE UNCHANGED <<entries, flushing>> /\ pc[t] # "create"
    <3>1. \A u \in Ticks : pc[u] # "create"
      BY <1>2, <2>1
    <3> QED
      BY <1>1, <2>1, <3>1 DEF TickInv
  <2>2. CASE flushing' = [flushing EXCEPT ![on[t]] = FALSE]
    BY <1>1, <2>2 DEF TypeOK
  <2> QED
    BY <2>1, <2>2
<1> QED
  BY <1>1, <1>2, <1>3, <1>4, <1>5 DEF TickInv, WaitPC

\* So does one that calls flushUpdates.
LEMMA FlushTick ==
  ASSUME TypeOK, TickInv, NEW t \in Ticks, pc[t] \in RunPC,
         NEW next \in {"snapshot?", "write", "compact?", "destroy"},
         FlushUpdates(t, on[t], next),
         RoomInv, next = "write" => phase[on[t]] = "warm",
         UNCHANGED <<current, phase, awaiting>>
  PROVE  TickInv'
<1>1. on[t] = current /\ current \in Rooms /\ current # NoRoom /\ pc[t] # "idle" /\ pc[t] # "create"
  BY DEF TypeOK, TickInv, RunPC
<1>2. CASE Goto(t, on[t], next) /\ UNCHANGED <<entries, buffer, flushing, ret>>
  <2>1. next \in RunPC \cup WaitPC \cup {"idle"} /\ next # "create"
    BY DEF RunPC, WaitPC
  <2>2. next \in WaitPC \cup {"write"} => phase[on[t]] = "warm"
    BY DEF WaitPC
  <2>3. awaiting'[current] => phase[current] = "warm"
    BY <1>1 DEF TickInv
  <2>4. UNCHANGED <<current, phase>>
    OBVIOUS
  <2>5. UNCHANGED <<entries, flushing>> /\ pc[t] # "create" /\ pc[t] # "idle"
    BY <1>1, <1>2
  <2>6. Goto(t, on[t], next)
    BY <1>2
  <2> QED
    BY <2>1, <2>2, <2>3, <2>4, <2>5, <2>6, GotoTick
<1>3. CASE /\ buffer[on[t]] # {}
           /\ entries' = [entries EXCEPT ![t] = buffer[on[t]]]
           /\ flushing' = [flushing EXCEPT ![on[t]] = TRUE]
           /\ Goto(t, on[t], "create")
  <2>1. \A u \in Ticks : u # t => pc[u] = "idle" /\ pc'[u] = "idle"
    BY <1>1, <1>3 DEF TypeOK, TickInv, Goto
  <2>2. pc'[t] = "create" /\ on'[t] = current
    BY <1>1, <1>3 DEF TypeOK, Goto
  <2>3. \A u \in Ticks : entries'[u] # {} => pc'[u] = "create"
    BY <1>1, <1>3, <2>1, <2>2 DEF TypeOK, TickInv
  <2>4. phase[current] = "warm"
    BY <1>1, <1>3 DEF RoomInv
  <2> QED
    BY <1>1, <2>1, <2>2, <2>3, <2>4 DEF TickInv, WaitPC
<1> QED
  BY <1>2, <1>3 DEF FlushUpdates

\* One tick works on the current room.
LEMMA TickStep ==
  ASSUME Env \subseteq Ordinary, TypeOK, TickInv, RoomInv, [Next]_vars
  PROVE  TickInv'
<1> USE NoRoomAssumption, BoundAssumption
        DEF TypeOK, TickInv, RoomInv, Ordinary, Quiet, Leads, Connected, MayBeDue, Referenced, store, room, sockets, tick, history, RunPC, WaitPC
<1>1. ASSUME NEW c \in Clients, Connect(c) PROVE TickInv'
  BY <1>1 DEF Connect
<1>2. ASSUME NEW c \in Clients, NEW r \in Rooms, CreateRoom(c, r) PROVE TickInv'
  BY <1>2 DEF CreateRoom, NoBase
<1>3. ASSUME NEW c \in Clients, LoadBase(c) PROVE TickInv'
  BY <1>3 DEF LoadBase, NoBase, Readable, ReadableNow, Content, EditsOf, IsNewest
<1>4. ASSUME NEW c \in Clients, LoadTail(c) PROVE TickInv'
  BY <1>4 DEF LoadTail, Tail, EditsOf
<1>5. ASSUME NEW c \in Clients, LoadFails(c) PROVE TickInv'
  BY <1>5 DEF LoadFails
<1>6. ASSUME NEW c \in Clients, NEW e \in Edits, Edit(c, e) PROVE TickInv'
  BY <1>6 DEF Edit
<1>7. ASSUME NEW c \in Clients, Disconnect(c) PROVE TickInv'
  BY <1>7 DEF Disconnect
<1>8. ASSUME NEW c \in Clients, CloseWhileLoading(c) PROVE TickInv'
  BY <1>8 DEF CloseWhileLoading
<1>9. ASSUME NEW t \in Ticks, TickStart(t) PROVE TickInv'
  <2>1. \A u \in Ticks : pc[u] = "idle"
    BY <1>9 DEF TickStart
  <2>2. \A u \in Ticks : u # t => pc'[u] = "idle"
    BY <1>9, <2>1 DEF TickStart, Goto
  <2>3. pc'[t] = "flush?" /\ on'[t] = current /\ current # NoRoom
    BY <1>9 DEF TickStart, Goto
  <2>4. UNCHANGED <<current, entries, flushing, awaiting, phase>>
    BY <1>9 DEF TickStart
  <2> QED
    BY <2>1, <2>2, <2>3, <2>4
<1>10. ASSUME NEW t \in Ticks, FlushDue(t) PROVE TickInv'
  <2>1. pc[t] \in RunPC /\ UNCHANGED <<current, phase, awaiting>>
    BY <1>10 DEF FlushDue
  <2>2. FlushUpdates(t, on[t], "snapshot?")
    BY <1>10 DEF FlushDue
  <2> QED
    BY <2>1, <2>2, FlushTick
<1>11. ASSUME NEW t \in Ticks, FlushNotDue(t) PROVE TickInv'
  BY <1>11 DEF FlushNotDue, Goto
<1>12. ASSUME NEW t \in Ticks, SnapshotDue(t) PROVE TickInv'
  <2>1. pc[t] \in RunPC /\ UNCHANGED <<current, phase, awaiting>>
    BY <1>12 DEF SnapshotDue
  <2>2. FlushUpdates(t, on[t], "write")
    BY <1>12 DEF SnapshotDue, MaybeSnapshot
  <2>3. phase[on[t]] = "warm"
    BY <1>12 DEF SnapshotDue
  <2> QED
    BY <2>1, <2>2, <2>3, FlushTick
<1>13. ASSUME NEW t \in Ticks, SnapshotNotDue(t) PROVE TickInv'
  BY <1>13 DEF SnapshotNotDue, Goto
<1>14. ASSUME NEW t \in Ticks, CreateOk(t) PROVE TickInv'
  BY <1>14 DEF CreateOk, Goto
<1>15. ASSUME NEW t \in Ticks, CreateFails(t) PROVE TickInv'
  <2>1. PICK p \in {"evict?", "rest?", "idle"} : Goto(t, on[t], p)
    BY <1>15 DEF CreateFails
  <2>2. pc[t] # "idle" /\ UNCHANGED <<current, phase, awaiting>>
    BY <1>15 DEF CreateFails
  <2>3. entries' = [entries EXCEPT ![t] = {}] /\ flushing' = [flushing EXCEPT ![on[t]] = FALSE]
    BY <1>15 DEF CreateFails
  <2>4. p \in RunPC \cup WaitPC \cup {"idle"} /\ p # "create" /\ p \notin WaitPC \cup {"write"}
    BY <2>1
  <2>5. awaiting'[current] => phase[current] = "warm"
    BY <2>2
  <2> QED
    BY <2>1, <2>2, <2>3, <2>4, <2>5, GotoTick
<1>16. ASSUME NEW t \in Ticks, Write(t) PROVE TickInv'
  <2>1. PICK p \in {"prev", "evict?", "rest?"} : Goto(t, on[t], p)
    BY <1>16 DEF Write
  <2>2. pc[t] # "idle" /\ pc[t] # "create" /\ UNCHANGED <<current, phase, awaiting, entries, flushing>>
    BY <1>16 DEF Write
  <2>3. p \in RunPC \cup WaitPC \cup {"idle"} /\ p # "create"
    BY <2>1
  <2>4. phase[on[t]] = "warm" /\ (awaiting'[current] => phase[current] = "warm")
    BY <1>16, <2>2 DEF Write
  <2> QED
    BY <2>1, <2>2, <2>3, <2>4, GotoTick
<1>17. ASSUME NEW t \in Ticks, PrevOk(t) PROVE TickInv'
  BY <1>17 DEF PrevOk, Goto
<1>18. ASSUME NEW t \in Ticks, PutOk(t) PROVE TickInv'
  BY <1>18 DEF PutOk, Key, Goto
<1>19. ASSUME NEW t \in Ticks, VerifyOk(t) PROVE TickInv'
  BY <1>19 DEF VerifyOk, Goto
<1>20. ASSUME NEW t \in Ticks, RecordOk(t) PROVE TickInv'
  BY <1>20 DEF RecordOk, NewSnapshot, Key, Goto
<1>21. ASSUME NEW t \in Ticks, WriteFails(t) PROVE TickInv'
  BY <1>21 DEF WriteFails, NoShot, Goto
<1>22. ASSUME NEW t \in Ticks, WriteLosesReply(t) PROVE TickInv'
  BY <1>22 DEF WriteLosesReply, NewSnapshot, Key, Goto
<1>23. ASSUME NEW t \in Ticks, Prune(t) PROVE TickInv'
  BY <1>23 DEF Prune, Tail, Goto
<1>24. ASSUME NEW t \in Ticks, DeleteObject(t) PROVE TickInv'
  BY <1>24 DEF DeleteObject, Goto
<1>25. ASSUME NEW t \in Ticks, DeleteSnapshotRow(t) PROVE TickInv'
  BY <1>25 DEF DeleteSnapshotRow, Goto
<1>26. ASSUME NEW t \in Ticks, SnapshotDone(t) PROVE TickInv'
  BY <1>26 DEF SnapshotDone, NoShot, Goto
<1>27. ASSUME NEW t \in Ticks, EvictIdle(t) PROVE TickInv'
  <2>1. pc[t] \in RunPC /\ pc[t] # "idle" /\ UNCHANGED <<current, phase, awaiting>>
    BY <1>27 DEF EvictIdle
  <2>2. FlushUpdates(t, on[t], "compact?")
    BY <1>27, <2>1 DEF EvictIdle
  <2> QED
    BY <2>1, <2>2, FlushTick
<1>28. ASSUME NEW t \in Ticks, StayWarm(t) PROVE TickInv'
  BY <1>28 DEF StayWarm, Goto
<1>29. ASSUME NEW t \in Ticks, EvictCompact(t) PROVE TickInv'
  <2>1. pc[t] \in RunPC /\ pc[t] # "idle" /\ pc[t] # "create" /\ UNCHANGED <<current, phase, awaiting>>
    BY <1>29 DEF EvictCompact
  <2>2. CASE awaiting[on[t]] /\ FlushUpdates(t, on[t], "write")
    BY <2>1, <2>2, FlushTick
  <2>3. CASE Goto(t, on[t], "rest?") /\ UNCHANGED <<entries, flushing>>
    BY <2>1, <2>3, GotoTick
  <2> QED
    BY <1>29, <2>2, <2>3 DEF EvictCompact, MaybeSnapshot
<1>30. ASSUME NEW t \in Ticks, EvictRest(t) PROVE TickInv'
  <2>1. pc[t] \in RunPC /\ UNCHANGED <<current, phase, awaiting>>
    BY <1>30 DEF EvictRest
  <2>2. FlushUpdates(t, on[t], "destroy")
    BY <1>30 DEF EvictRest
  <2> QED
    BY <2>1, <2>2, FlushTick
<1>31. ASSUME NEW t \in Ticks, Destroy(t) PROVE TickInv'
  BY <1>31 DEF Destroy, Goto
<1>32. CASE Crash
  BY <1>32 DEF Crash, NoShot, NoBase
<1>33. CASE UNCHANGED vars
  BY <1>33 DEF vars
<1> QED
  BY <1>1, <1>2, <1>3, <1>4, <1>5, <1>6, <1>7, <1>8, <1>9, <1>10, <1>11, <1>12, <1>13,
     <1>14, <1>15, <1>16, <1>17, <1>18, <1>19, <1>20, <1>21, <1>22, <1>23, <1>24, <1>25,
     <1>26, <1>27, <1>28, <1>29, <1>30, <1>31, <1>32, <1>33
  DEF Next, ClientNext, TickNext, vars

\* Sockets and buffers stay with the current room.
LEMMA RoomStep ==
  ASSUME Env \subseteq Ordinary, TypeOK, TickInv, RoomInv, EvictInv, [Next]_vars
  PROVE  RoomInv'
<1> USE NoRoomAssumption, BoundAssumption
        DEF TypeOK, TickInv, RoomInv, Ordinary, Quiet, Leads, Connected, MayBeDue, Referenced, store, room, sockets, tick, history, RunPC, WaitPC, EvictInv, Evicting
<1>1. ASSUME NEW c \in Clients, Connect(c) PROVE RoomInv'
  <2>1. current \in Rooms /\ phase[current] \notin {"loading", "tail", "failed"}
    BY <1>1, Excluded DEF Connect
  <2>2. phase[current] = "warm"
    BY <2>1
  <2> QED
    BY <1>1, <2>2 DEF Connect
<1>2. ASSUME NEW c \in Clients, NEW r \in Rooms, CreateRoom(c, r) PROVE RoomInv'
  <2>1. r # current /\ current = NoRoom /\ current' = r
    BY <1>2 DEF CreateRoom
  <2>2. \A d \in Clients : conn[d] = NoRoom /\ joining[d] = NoRoom
    BY <2>1
  <2>3. \A d \in Clients : conn'[d] = NoRoom /\ joining'[d] = IF d = c THEN r ELSE NoRoom
    BY <1>2, <2>2 DEF CreateRoom
  <2>4. phase'[r] = "loading" /\ current' \notin destroyed' /\ buffer' = [buffer EXCEPT ![r] = {}]
    BY <1>2, <2>1 DEF CreateRoom
  <2>5. \A q \in Rooms : buffer'[q] = {}
    BY <2>1, <2>4
  <2> QED
    BY <2>1, <2>3, <2>4, <2>5
<1>3. ASSUME NEW c \in Clients, LoadBase(c) PROVE RoomInv'
  BY <1>3 DEF LoadBase, NoBase, Readable, ReadableNow, Content, EditsOf, IsNewest
<1>4. ASSUME NEW c \in Clients, LoadTail(c) PROVE RoomInv'
  BY <1>4 DEF LoadTail, Tail, EditsOf
<1>5. ASSUME NEW c \in Clients, LoadFails(c) PROVE RoomInv'
  BY <1>5 DEF LoadFails
<1>6. ASSUME NEW c \in Clients, NEW e \in Edits, Edit(c, e) PROVE RoomInv'
  BY <1>6 DEF Edit
<1>7. ASSUME NEW c \in Clients, Disconnect(c) PROVE RoomInv'
  BY <1>7 DEF Disconnect
<1>8. ASSUME NEW c \in Clients, CloseWhileLoading(c) PROVE RoomInv'
  BY <1>8 DEF CloseWhileLoading
<1>9. ASSUME NEW t \in Ticks, TickStart(t) PROVE RoomInv'
  BY <1>9 DEF TickStart, Goto
<1>10. ASSUME NEW t \in Ticks, FlushDue(t) PROVE RoomInv'
  BY <1>10 DEF FlushDue, FlushUpdates, Goto
<1>11. ASSUME NEW t \in Ticks, FlushNotDue(t) PROVE RoomInv'
  BY <1>11 DEF FlushNotDue, Goto
<1>12. ASSUME NEW t \in Ticks, SnapshotDue(t) PROVE RoomInv'
  BY <1>12 DEF SnapshotDue, MaybeSnapshot, FlushUpdates, Goto
<1>13. ASSUME NEW t \in Ticks, SnapshotNotDue(t) PROVE RoomInv'
  BY <1>13 DEF SnapshotNotDue, Goto
<1>14. ASSUME NEW t \in Ticks, CreateOk(t) PROVE RoomInv'
  BY <1>14 DEF CreateOk, Goto
<1>15. ASSUME NEW t \in Ticks, CreateFails(t) PROVE RoomInv'
  BY <1>15 DEF CreateFails, Goto
<1>16. ASSUME NEW t \in Ticks, Write(t) PROVE RoomInv'
  BY <1>16 DEF Write, Goto
<1>17. ASSUME NEW t \in Ticks, PrevOk(t) PROVE RoomInv'
  BY <1>17 DEF PrevOk, Goto
<1>18. ASSUME NEW t \in Ticks, PutOk(t) PROVE RoomInv'
  BY <1>18 DEF PutOk, Key, Goto
<1>19. ASSUME NEW t \in Ticks, VerifyOk(t) PROVE RoomInv'
  BY <1>19 DEF VerifyOk, Goto
<1>20. ASSUME NEW t \in Ticks, RecordOk(t) PROVE RoomInv'
  BY <1>20 DEF RecordOk, NewSnapshot, Key, Goto
<1>21. ASSUME NEW t \in Ticks, WriteFails(t) PROVE RoomInv'
  BY <1>21 DEF WriteFails, NoShot, Goto
<1>22. ASSUME NEW t \in Ticks, WriteLosesReply(t) PROVE RoomInv'
  BY <1>22 DEF WriteLosesReply, NewSnapshot, Key, Goto
<1>23. ASSUME NEW t \in Ticks, Prune(t) PROVE RoomInv'
  BY <1>23 DEF Prune, Tail, Goto
<1>24. ASSUME NEW t \in Ticks, DeleteObject(t) PROVE RoomInv'
  BY <1>24 DEF DeleteObject, Goto
<1>25. ASSUME NEW t \in Ticks, DeleteSnapshotRow(t) PROVE RoomInv'
  BY <1>25 DEF DeleteSnapshotRow, Goto
<1>26. ASSUME NEW t \in Ticks, SnapshotDone(t) PROVE RoomInv'
  BY <1>26 DEF SnapshotDone, NoShot, Goto
<1>27. ASSUME NEW t \in Ticks, EvictIdle(t) PROVE RoomInv'
  BY <1>27 DEF EvictIdle, FlushUpdates, Goto
<1>28. ASSUME NEW t \in Ticks, StayWarm(t) PROVE RoomInv'
  BY <1>28 DEF StayWarm, Goto
<1>29. ASSUME NEW t \in Ticks, EvictCompact(t) PROVE RoomInv'
  BY <1>29 DEF EvictCompact, MaybeSnapshot, FlushUpdates, Goto
<1>30. ASSUME NEW t \in Ticks, EvictRest(t) PROVE RoomInv'
  BY <1>30 DEF EvictRest, FlushUpdates, Goto
<1>31. ASSUME NEW t \in Ticks, Destroy(t) PROVE RoomInv'
  BY <1>31 DEF Destroy, Goto
<1>32. CASE Crash
  BY <1>32 DEF Crash, NoShot, NoBase
<1>33. CASE UNCHANGED vars
  BY <1>33 DEF vars
<1> QED
  BY <1>1, <1>2, <1>3, <1>4, <1>5, <1>6, <1>7, <1>8, <1>9, <1>10, <1>11, <1>12, <1>13,
     <1>14, <1>15, <1>16, <1>17, <1>18, <1>19, <1>20, <1>21, <1>22, <1>23, <1>24, <1>25,
     <1>26, <1>27, <1>28, <1>29, <1>30, <1>31, <1>32, <1>33
  DEF Next, ClientNext, TickNext, vars

\* Nobody comes near a room under eviction.
LEMMA EvictStep ==
  ASSUME Env \subseteq Ordinary, TypeOK, TickInv, RoomInv, EvictInv, [Next]_vars
  PROVE  EvictInv'
<1> USE NoRoomAssumption, BoundAssumption
        DEF TypeOK, TickInv, RoomInv, Ordinary, Quiet, Leads, Connected, MayBeDue, Referenced, store, room, sockets, tick, history, RunPC, WaitPC, EvictInv, Evicting
<1>1. ASSUME NEW c \in Clients, Connect(c) PROVE EvictInv'
  <2>1. \A t \in Ticks : ~Evicting(t)
    <3>1. SUFFICES ASSUME NEW t \in Ticks, Evicting(t) PROVE on[t] = current
      BY <1>1, Excluded DEF Connect
    <3>2. pc[t] # "idle"
      BY <3>1
    <3> QED
      BY <3>2
  <2>2. UNCHANGED <<pc, ret, back, buffer, current, joining>>
    BY <1>1 DEF Connect
  <2>3. \A t \in Ticks : ~Evicting(t)'
    BY <2>1, <2>2
  <2> QED
    BY <2>2, <2>3
<1>2. ASSUME NEW c \in Clients, NEW r \in Rooms, CreateRoom(c, r) PROVE EvictInv'
  BY <1>2 DEF CreateRoom, NoBase
<1>3. ASSUME NEW c \in Clients, LoadBase(c) PROVE EvictInv'
  BY <1>3 DEF LoadBase, NoBase, Readable, ReadableNow, Content, EditsOf, IsNewest
<1>4. ASSUME NEW c \in Clients, LoadTail(c) PROVE EvictInv'
  BY <1>4 DEF LoadTail, Tail, EditsOf
<1>5. ASSUME NEW c \in Clients, LoadFails(c) PROVE EvictInv'
  BY <1>5 DEF LoadFails
<1>6. ASSUME NEW c \in Clients, NEW e \in Edits, Edit(c, e) PROVE EvictInv'
  BY <1>6 DEF Edit
<1>7. ASSUME NEW c \in Clients, Disconnect(c) PROVE EvictInv'
  BY <1>7 DEF Disconnect
<1>8. ASSUME NEW c \in Clients, CloseWhileLoading(c) PROVE EvictInv'
  BY <1>8 DEF CloseWhileLoading
<1>9. ASSUME NEW t \in Ticks, TickStart(t) PROVE EvictInv'
  BY <1>9 DEF TickStart, Goto
<1>10. ASSUME NEW t \in Ticks, FlushDue(t) PROVE EvictInv'
  BY <1>10 DEF FlushDue, FlushUpdates, Goto
<1>11. ASSUME NEW t \in Ticks, FlushNotDue(t) PROVE EvictInv'
  BY <1>11 DEF FlushNotDue, Goto
<1>12. ASSUME NEW t \in Ticks, SnapshotDue(t) PROVE EvictInv'
  BY <1>12 DEF SnapshotDue, MaybeSnapshot, FlushUpdates, Goto
<1>13. ASSUME NEW t \in Ticks, SnapshotNotDue(t) PROVE EvictInv'
  BY <1>13 DEF SnapshotNotDue, Goto
<1>14. ASSUME NEW t \in Ticks, CreateOk(t) PROVE EvictInv'
  BY <1>14 DEF CreateOk, Goto
<1>15. ASSUME NEW t \in Ticks, CreateFails(t) PROVE EvictInv'
  BY <1>15 DEF CreateFails, Goto
<1>16. ASSUME NEW t \in Ticks, Write(t) PROVE EvictInv'
  BY <1>16 DEF Write, Goto
<1>17. ASSUME NEW t \in Ticks, PrevOk(t) PROVE EvictInv'
  BY <1>17 DEF PrevOk, Goto
<1>18. ASSUME NEW t \in Ticks, PutOk(t) PROVE EvictInv'
  BY <1>18 DEF PutOk, Key, Goto
<1>19. ASSUME NEW t \in Ticks, VerifyOk(t) PROVE EvictInv'
  BY <1>19 DEF VerifyOk, Goto
<1>20. ASSUME NEW t \in Ticks, RecordOk(t) PROVE EvictInv'
  BY <1>20 DEF RecordOk, NewSnapshot, Key, Goto
<1>21. ASSUME NEW t \in Ticks, WriteFails(t) PROVE EvictInv'
  BY <1>21 DEF WriteFails, NoShot, Goto
<1>22. ASSUME NEW t \in Ticks, WriteLosesReply(t) PROVE EvictInv'
  BY <1>22 DEF WriteLosesReply, NewSnapshot, Key, Goto
<1>23. ASSUME NEW t \in Ticks, Prune(t) PROVE EvictInv'
  BY <1>23 DEF Prune, Tail, Goto
<1>24. ASSUME NEW t \in Ticks, DeleteObject(t) PROVE EvictInv'
  BY <1>24 DEF DeleteObject, Goto
<1>25. ASSUME NEW t \in Ticks, DeleteSnapshotRow(t) PROVE EvictInv'
  BY <1>25 DEF DeleteSnapshotRow, Goto
<1>26. ASSUME NEW t \in Ticks, SnapshotDone(t) PROVE EvictInv'
  BY <1>26 DEF SnapshotDone, NoShot, Goto
<1>27. ASSUME NEW t \in Ticks, EvictIdle(t) PROVE EvictInv'
  BY <1>27 DEF EvictIdle, FlushUpdates, Goto
<1>28. ASSUME NEW t \in Ticks, StayWarm(t) PROVE EvictInv'
  BY <1>28 DEF StayWarm, Goto
<1>29. ASSUME NEW t \in Ticks, EvictCompact(t) PROVE EvictInv'
  BY <1>29 DEF EvictCompact, MaybeSnapshot, FlushUpdates, Goto
<1>30. ASSUME NEW t \in Ticks, EvictRest(t) PROVE EvictInv'
  <2>1. Evicting(t) /\ on[t] = current /\ current \in Rooms
    BY <1>30 DEF EvictRest
  <2>2. UNCHANGED <<conn, joining, current>>
    BY <1>30 DEF EvictRest
  <2>3. \A c \in Clients : conn'[c] = NoRoom /\ joining'[c] = NoRoom
    BY <2>1, <2>2
  <2>4. ~flushing[current] /\ Leads(current)
    BY <1>30, <2>1 DEF EvictRest
  <2>5. buffer'[current] = {}
    BY <1>30, <2>1, <2>4 DEF EvictRest, FlushUpdates
  <2> QED
    BY <2>2, <2>3, <2>5
<1>31. ASSUME NEW t \in Ticks, Destroy(t) PROVE EvictInv'
  BY <1>31 DEF Destroy, Goto
<1>32. CASE Crash
  BY <1>32 DEF Crash, NoShot, NoBase
<1>33. CASE UNCHANGED vars
  BY <1>33 DEF vars
<1> QED
  BY <1>1, <1>2, <1>3, <1>4, <1>5, <1>6, <1>7, <1>8, <1>9, <1>10, <1>11, <1>12, <1>13,
     <1>14, <1>15, <1>16, <1>17, <1>18, <1>19, <1>20, <1>21, <1>22, <1>23, <1>24, <1>25,
     <1>26, <1>27, <1>28, <1>29, <1>30, <1>31, <1>32, <1>33
  DEF Next, ClientNext, TickNext, vars



(***************************************************************************)
(* Snapshots                                                               *)
(***************************************************************************)

\* The newest snapshot has its object.
LEMMA NewestReadable ==
  ASSUME TypeOK, SnapInv, StoreCover
  PROVE  /\ \A s \in snaps : IsNewest(s, snaps) => s \in Newest /\ s \in Readable
         /\ \A s : IsNewest(s, Readable) => IsNewest(s, snaps)
         /\ Readable = {} => snaps = {}
<1>1. ASSUME NEW s \in snaps, IsNewest(s, snaps) PROVE s \in Newest /\ s \in Readable
  <2>1. s.version \in Nat /\ \A x \in snaps : x.version \in Nat
    BY BoundAssumption DEF TypeOK
  <2>2. s \in Newest
    BY <1>1, <2>1, LimitAssumption DEF IsNewest, Newest
  <2> QED
    BY <2>2 DEF StoreCover, HasObject, Readable
<1>2. ASSUME NEW s, IsNewest(s, Readable) PROVE IsNewest(s, snaps)
  <2>1. s \in snaps /\ s \in Readable
    BY <1>2 DEF IsNewest, Readable
  <2>2. PICK n \in snaps : IsNewest(n, snaps)
    BY <2>1 DEF SnapInv
  <2>3. n.version <= s.version
    BY <1>1, <1>2, <2>2 DEF IsNewest
  <2>4. s.version \in Nat /\ n.version \in Nat /\ s.version <= n.version
    BY <2>1, <2>2, BoundAssumption DEF TypeOK, IsNewest
  <2> QED
    BY <2>1, <2>2, <2>3, <2>4 DEF SnapInv
<1>3. Readable = {} => snaps = {}
  BY <1>1 DEF SnapInv
<1> QED
  BY <1>1, <1>2, <1>3

\* A load starts from one of the versions within the limit, or there is none.
LEMMA LoadsRetained ==
  ASSUME Env \subseteq Ordinary, TypeOK, SnapInv, StoreCover, NEW readable \in ReadableNow
  PROVE  /\ readable = {} => snaps = {}
         /\ \A s : IsNewest(s, readable) => s \in Newest
<1>1. CASE readable = Readable
  <2>1. \A s : IsNewest(s, Readable) => IsNewest(s, snaps) /\ s \in snaps
    BY NewestReadable DEF IsNewest
  <2> QED
    BY <1>1, <2>1, NewestReadable
<1>2. CASE readable \in SUBSET Readable /\ readable \cap Newest # {}
  <2>1. PICK m \in Newest : m \in readable
    BY <1>2
  <2>2. \A s \in snaps : s.version \in Nat
    BY BoundAssumption DEF TypeOK
  <2>3. ASSUME NEW s, IsNewest(s, readable) PROVE s \in Newest
    <3>1. s \in snaps /\ m \in snaps /\ m.version <= s.version
      BY <1>2, <2>1, <2>3 DEF IsNewest, Readable
    <3>2. \A x \in snaps : x.version < m.version + HistoryLimit
      BY <2>1 DEF Newest
    <3>3. \A x \in snaps : x.version < s.version + HistoryLimit
      BY <2>2, <3>1, <3>2, LimitAssumption
    <3> QED
      BY <3>1, <3>3 DEF Newest
  <2> QED
    BY <1>2, <2>3
<1> QED
  BY <1>1, <1>2, Excluded DEF ReadableNow

\* What is known of a compaction lasts while its data does.
LEMMA ShotFrame ==
  ASSUME ShotInv, UNCHANGED <<objects, snaps, shot>>,
         \A t \in Ticks :
           \/ pc'[t] \notin {"put", "verify", "record", "prune", "expire"}
           \/ /\ pc'[t] = pc[t]
              /\ pc[t] = "record" => persistedUpTo'[current'] = persistedUpTo[current]
  PROVE  ShotInv'
BY DEF ShotInv, ShotFacts, Key, Content, NewSnapshot

\* Only the tick that moves has anything to show.
LEMMA ShotOne ==
  ASSUME TypeOK, TickInv, NEW t \in Ticks, pc[t] # "idle", NEW p, Goto(t, on[t], p), ShotFacts(t)'
  PROVE  ShotInv'
<1>1. ASSUME NEW u \in Ticks, u # t PROVE pc'[u] = "idle"
  BY <1>1 DEF TypeOK, TickInv, Goto
<1> QED
  BY <1>1 DEF ShotInv, ShotFacts

\* Versions and the rows they end at go on growing together.
LEMMA SnapStep ==
  ASSUME Env \subseteq Ordinary, TypeOK, TickInv, RoomInv, SnapInv, EndsInv, ShotInv, StoreCover,
         [Next]_vars
  PROVE  SnapInv'
<1> USE NoRoomAssumption, BoundAssumption
        DEF TypeOK, TickInv, SnapInv, Ordinary, Quiet, IsNewest, NewSnapshot, store, room, sockets, tick, history, RunPC, WaitPC
<1>1. ASSUME NEW c \in Clients, Connect(c) PROVE SnapInv'
  BY <1>1 DEF Connect
<1>2. ASSUME NEW c \in Clients, NEW r \in Rooms, CreateRoom(c, r) PROVE SnapInv'
  BY <1>2 DEF CreateRoom, NoBase
<1>3. ASSUME NEW c \in Clients, LoadBase(c) PROVE SnapInv'
  <2>1. joining[c] = current /\ current \in Rooms /\ phase[current] = "loading"
    BY <1>3 DEF LoadBase, RoomInv
  <2>2. PICK readable \in ReadableNow :
          \/ base' = [base EXCEPT ![joining[c]] = [upTo |-> 0, found |-> FALSE, listed |-> snaps # {}]]
          \/ \E s \in readable :
               /\ IsNewest(s, readable)
               /\ base' = [base EXCEPT ![joining[c]] = [upTo |-> s.upTo, found |-> TRUE, listed |-> TRUE]]
    BY <1>3 DEF LoadBase
  <2>3. base'[current].upTo < nextRow
    <3>1. \A s \in readable : IsNewest(s, readable) => s \in snaps
      BY LoadsRetained DEF Newest
    <3> QED
      BY <2>1, <2>2, <3>1
  <2>4. phase'[current] = "tail" /\ UNCHANGED <<rows, nextRow, snaps, current>>
    BY <1>3, <2>1 DEF LoadBase
  <2> QED
    BY <2>1, <2>3, <2>4
<1>4. ASSUME NEW c \in Clients, LoadTail(c) PROVE SnapInv'
  <2>1. joining[c] = current /\ current \in Rooms /\ current # NoRoom /\ phase[current] = "tail"
    BY <1>4 DEF LoadTail, RoomInv
  <2>2. PICK n \in 0 .. MaxRow :
          /\ IF Tail(base[current].upTo) = {} THEN n = base[current].upTo
             ELSE /\ \E x \in Tail(base[current].upTo) : x.id = n
                  /\ \A x \in Tail(base[current].upTo) : x.id <= n
          /\ persistedUpTo' = [persistedUpTo EXCEPT ![current] = n]
    BY <1>4, <2>1 DEF LoadTail
  <2>3. UNCHANGED <<rows, nextRow, snaps, current>> /\ phase'[current] = "warm"
    BY <1>4, <2>1 DEF LoadTail
  <2>4. n < nextRow /\ base[current].upTo <= n /\ base[current].upTo \in Nat
    BY <2>1, <2>2 DEF Tail
  <2>5. ASSUME NEW s \in snaps PROVE s.upTo <= n
    <3>1. CASE s.upTo > base[current].upTo
      <4>1. PICK x \in rows : x.id = s.upTo
        BY <2>1, <3>1 DEF EndsInv, Ends
      <4>2. x \in Tail(base[current].upTo)
        BY <3>1, <4>1 DEF Tail
      <4> QED
        BY <2>2, <4>1, <4>2
    <3>2. CASE ~(s.upTo > base[current].upTo)
      BY <2>4, <3>2
    <3> QED
      BY <3>1, <3>2
  <2>6. persistedUpTo'[current] = n
    BY <2>1, <2>2
  <2> QED
    BY <2>1, <2>3, <2>4, <2>5, <2>6
<1>5. ASSUME NEW c \in Clients, LoadFails(c) PROVE SnapInv'
  BY <1>5 DEF LoadFails
<1>6. ASSUME NEW c \in Clients, NEW e \in Edits, Edit(c, e) PROVE SnapInv'
  BY <1>6 DEF Edit
<1>7. ASSUME NEW c \in Clients, Disconnect(c) PROVE SnapInv'
  BY <1>7 DEF Disconnect
<1>8. ASSUME NEW c \in Clients, CloseWhileLoading(c) PROVE SnapInv'
  BY <1>8 DEF CloseWhileLoading
<1>9. ASSUME NEW t \in Ticks, TickStart(t) PROVE SnapInv'
  BY <1>9 DEF TickStart, Goto
<1>10. ASSUME NEW t \in Ticks, FlushDue(t) PROVE SnapInv'
  BY <1>10 DEF FlushDue, FlushUpdates, Goto
<1>11. ASSUME NEW t \in Ticks, FlushNotDue(t) PROVE SnapInv'
  BY <1>11 DEF FlushNotDue, Goto
<1>12. ASSUME NEW t \in Ticks, SnapshotDue(t) PROVE SnapInv'
  BY <1>12 DEF SnapshotDue, MaybeSnapshot, FlushUpdates, Goto
<1>13. ASSUME NEW t \in Ticks, SnapshotNotDue(t) PROVE SnapInv'
  BY <1>13 DEF SnapshotNotDue, Goto
<1>14. ASSUME NEW t \in Ticks, CreateOk(t) PROVE SnapInv'
  BY <1>14 DEF CreateOk, Goto
<1>15. ASSUME NEW t \in Ticks, CreateFails(t) PROVE SnapInv'
  <2>1. \A x \in rows' : x.id < nextRow'
    <3>1. CASE UNCHANGED <<rows, nextRow>>
      BY <3>1
    <3>2. CASE rows' = rows \cup {[id |-> nextRow, upd |-> entries[t]]} /\ nextRow' = nextRow + 1
      BY <3>2
    <3> QED
      BY <1>15, <3>1, <3>2 DEF CreateFails
  <2>2. nextRow <= nextRow' /\ nextRow' \in Nat
    BY <1>15 DEF CreateFails
  <2>3. UNCHANGED <<snaps, current, phase, base, persistedUpTo>>
    BY <1>15 DEF CreateFails
  <2> QED
    BY <2>1, <2>2, <2>3
<1>16. ASSUME NEW t \in Ticks, Write(t) PROVE SnapInv'
  BY <1>16 DEF Write, Goto
<1>17. ASSUME NEW t \in Ticks, PrevOk(t) PROVE SnapInv'
  BY <1>17 DEF PrevOk, Goto
<1>18. ASSUME NEW t \in Ticks, PutOk(t) PROVE SnapInv'
  BY <1>18 DEF PutOk, Key, Goto
<1>19. ASSUME NEW t \in Ticks, VerifyOk(t) PROVE SnapInv'
  BY <1>19 DEF VerifyOk, Goto
<1>20. ASSUME NEW t \in Ticks, RecordOk(t) PROVE SnapInv'
  <2>1. UNCHANGED <<rows, nextRow, current, phase, base, persistedUpTo>>
    BY <1>20 DEF RecordOk
  <2>2. CASE snaps' = snaps \cup {NewSnapshot(t)} /\ pc[t] = "record"
    <3> DEFINE n == NewSnapshot(t)
    <3>1. n.version = shot[t].version /\ n.upTo = shot[t].upTo /\ n.key[1] = n.version
      BY DEF Key
    <3>2. \A s \in snaps : s.version < n.version
      BY <2>2, <3>1 DEF ShotInv, ShotFacts
    <3>3. phase[current] = "warm" /\ current # NoRoom /\ n.upTo = persistedUpTo[current]
      <4>1. current # NoRoom /\ on[t] = current
        BY <2>2
      <4>2. phase[current] = "warm"
        BY <2>2, <4>1
      <4>3. shot[t].upTo = persistedUpTo[current]
        BY <2>2 DEF ShotInv, ShotFacts
      <4> QED
        BY <3>1, <4>1, <4>2, <4>3
    <3>4. n.upTo < nextRow /\ n.upTo \in Nat /\ n.version \in Nat /\ \A s \in snaps : s.upTo <= n.upTo
      BY <3>1, <3>3
    <3>5. \A s \in snaps : s.version \in Nat /\ s.upTo \in Nat
      OBVIOUS
    <3>6. IsNewest(n, snaps') /\ n \in snaps'
      BY <2>2, <3>2, <3>4, <3>5
    <3> HIDE DEF n
    <3> QED
      BY <2>1, <2>2, <3>1, <3>2, <3>3, <3>4, <3>5, <3>6
  <2>3. CASE UNCHANGED snaps
    BY <2>1, <2>3
  <2> QED
    BY <1>20, <2>2, <2>3 DEF RecordOk
<1>21. ASSUME NEW t \in Ticks, WriteFails(t) PROVE SnapInv'
  BY <1>21 DEF WriteFails, NoShot, Goto
<1>22. ASSUME NEW t \in Ticks, WriteLosesReply(t) PROVE SnapInv'
  <2>1. UNCHANGED <<rows, nextRow, current, phase, base, persistedUpTo>>
    BY <1>22 DEF WriteLosesReply
  <2>2. CASE snaps' = snaps \cup {NewSnapshot(t)} /\ pc[t] = "record"
    <3> DEFINE n == NewSnapshot(t)
    <3>1. n.version = shot[t].version /\ n.upTo = shot[t].upTo /\ n.key[1] = n.version
      BY DEF Key
    <3>2. \A s \in snaps : s.version < n.version
      BY <2>2, <3>1 DEF ShotInv, ShotFacts
    <3>3. phase[current] = "warm" /\ current # NoRoom /\ n.upTo = persistedUpTo[current]
      <4>1. current # NoRoom /\ on[t] = current
        BY <2>2
      <4>2. phase[current] = "warm"
        BY <2>2, <4>1
      <4>3. shot[t].upTo = persistedUpTo[current]
        BY <2>2 DEF ShotInv, ShotFacts
      <4> QED
        BY <3>1, <4>1, <4>2, <4>3
    <3>4. n.upTo < nextRow /\ n.upTo \in Nat /\ n.version \in Nat /\ \A s \in snaps : s.upTo <= n.upTo
      BY <3>1, <3>3
    <3>5. \A s \in snaps : s.version \in Nat /\ s.upTo \in Nat
      OBVIOUS
    <3>6. IsNewest(n, snaps') /\ n \in snaps'
      BY <2>2, <3>2, <3>4, <3>5
    <3> HIDE DEF n
    <3> QED
      BY <2>1, <2>2, <3>1, <3>2, <3>3, <3>4, <3>5, <3>6
  <2>3. CASE UNCHANGED snaps
    BY <2>1, <2>3
  <2> QED
    BY <1>22, <2>2, <2>3 DEF WriteLosesReply
<1>23. ASSUME NEW t \in Ticks, Prune(t) PROVE SnapInv'
  BY <1>23 DEF Prune, Tail, Goto
<1>24. ASSUME NEW t \in Ticks, DeleteObject(t) PROVE SnapInv'
  BY <1>24 DEF DeleteObject, Expired
<1>25. ASSUME NEW t \in Ticks, DeleteSnapshotRow(t) PROVE SnapInv'
  <2>1. PICK s \in Expired(t) : snaps' = snaps \ {s}
    BY <1>25 DEF DeleteSnapshotRow
  <2>2. NewSnapshot(t) \in snaps /\ IsNewest(NewSnapshot(t), snaps)
    BY <1>25 DEF DeleteSnapshotRow, ShotInv, ShotFacts
  <2>3. s # NewSnapshot(t)
    BY LimitAssumption DEF Expired
  <2>4. IsNewest(NewSnapshot(t), snaps') /\ NewSnapshot(t) \in snaps'
    BY <2>1, <2>2, <2>3
  <2>5. UNCHANGED <<rows, nextRow, current, phase, base, persistedUpTo>>
    BY <1>25 DEF DeleteSnapshotRow
  <2> QED
    BY <2>1, <2>4, <2>5
<1>26. ASSUME NEW t \in Ticks, SnapshotDone(t) PROVE SnapInv'
  BY <1>26 DEF SnapshotDone, NoShot, Goto
<1>27. ASSUME NEW t \in Ticks, EvictIdle(t) PROVE SnapInv'
  BY <1>27 DEF EvictIdle, FlushUpdates, Goto
<1>28. ASSUME NEW t \in Ticks, StayWarm(t) PROVE SnapInv'
  BY <1>28 DEF StayWarm, Goto
<1>29. ASSUME NEW t \in Ticks, EvictCompact(t) PROVE SnapInv'
  BY <1>29 DEF EvictCompact, MaybeSnapshot, FlushUpdates, Goto
<1>30. ASSUME NEW t \in Ticks, EvictRest(t) PROVE SnapInv'
  BY <1>30 DEF EvictRest, FlushUpdates, Goto
<1>31. ASSUME NEW t \in Ticks, Destroy(t) PROVE SnapInv'
  BY <1>31 DEF Destroy, Goto
<1>32. CASE Crash
  BY <1>32 DEF Crash, NoShot, NoBase
<1>33. CASE UNCHANGED vars
  BY <1>33 DEF vars
<1> QED
  BY <1>1, <1>2, <1>3, <1>4, <1>5, <1>6, <1>7, <1>8, <1>9, <1>10, <1>11, <1>12, <1>13,
     <1>14, <1>15, <1>16, <1>17, <1>18, <1>19, <1>20, <1>21, <1>22, <1>23, <1>24, <1>25,
     <1>26, <1>27, <1>28, <1>29, <1>30, <1>31, <1>32, <1>33
  DEF Next, ClientNext, TickNext, vars

\* A compaction keeps what it knows about its snapshot.
LEMMA ShotStep ==
  ASSUME Env \subseteq Ordinary, TypeOK, TickInv, RoomInv, SnapInv, ShotInv, [Next]_vars
  PROVE  ShotInv'
<1> USE NoRoomAssumption, BoundAssumption
        DEF TypeOK, TickInv, SnapInv, Ordinary, Quiet, store, room, sockets, tick, history, RunPC, WaitPC
<1>1. ASSUME NEW c \in Clients, Connect(c) PROVE ShotInv'
  BY <1>1, ShotFrame DEF Connect
<1>2. ASSUME NEW c \in Clients, NEW r \in Rooms, CreateRoom(c, r) PROVE ShotInv'
  BY <1>2, ShotFrame DEF CreateRoom
<1>3. ASSUME NEW c \in Clients, LoadBase(c) PROVE ShotInv'
  BY <1>3, ShotFrame DEF LoadBase
<1>4. ASSUME NEW c \in Clients, LoadTail(c) PROVE ShotInv'
  <2>1. joining[c] = current /\ phase[current] = "tail"
    BY <1>4 DEF LoadTail, RoomInv
  <2>2. \A u \in Ticks : pc[u] # "record"
    BY <2>1
  <2>3. UNCHANGED <<objects, snaps, shot, pc>>
    BY <1>4 DEF LoadTail
  <2> QED
    BY <2>2, <2>3, ShotFrame
<1>5. ASSUME NEW c \in Clients, LoadFails(c) PROVE ShotInv'
  BY <1>5, ShotFrame DEF LoadFails
<1>6. ASSUME NEW c \in Clients, NEW e \in Edits, Edit(c, e) PROVE ShotInv'
  BY <1>6, ShotFrame DEF Edit
<1>7. ASSUME NEW c \in Clients, Disconnect(c) PROVE ShotInv'
  BY <1>7, ShotFrame DEF Disconnect
<1>8. ASSUME NEW c \in Clients, CloseWhileLoading(c) PROVE ShotInv'
  BY <1>8, ShotFrame DEF CloseWhileLoading
<1>9. ASSUME NEW t \in Ticks, TickStart(t) PROVE ShotInv'
  BY <1>9, ShotFrame DEF TickStart, Goto
<1>10. ASSUME NEW t \in Ticks, FlushDue(t) PROVE ShotInv'
  BY <1>10, ShotFrame DEF FlushDue, FlushUpdates, Goto
<1>11. ASSUME NEW t \in Ticks, FlushNotDue(t) PROVE ShotInv'
  BY <1>11, ShotFrame DEF FlushNotDue, Goto
<1>12. ASSUME NEW t \in Ticks, SnapshotDue(t) PROVE ShotInv'
  BY <1>12, ShotFrame DEF SnapshotDue, MaybeSnapshot, FlushUpdates, Goto
<1>13. ASSUME NEW t \in Ticks, SnapshotNotDue(t) PROVE ShotInv'
  BY <1>13, ShotFrame DEF SnapshotNotDue, Goto
<1>14. ASSUME NEW t \in Ticks, CreateOk(t) PROVE ShotInv'
  <2>1. \A u \in Ticks : u # t => pc'[u] = "idle"
    BY <1>14 DEF CreateOk, Goto
  <2>2. pc'[t] \in {"snapshot?", "write", "compact?", "destroy"}
    BY <1>14 DEF CreateOk, Goto
  <2> QED
    BY <1>14, <2>1, <2>2, ShotFrame DEF CreateOk
<1>15. ASSUME NEW t \in Ticks, CreateFails(t) PROVE ShotInv'
  <2>1. \A u \in Ticks : u # t => pc'[u] = "idle"
    BY <1>15 DEF CreateFails, Goto
  <2>2. pc'[t] \in {"evict?", "rest?", "idle"}
    BY <1>15 DEF CreateFails, Goto
  <2>3. UNCHANGED <<objects, snaps, shot>>
    BY <1>15 DEF CreateFails
  <2> QED
    BY <2>1, <2>2, <2>3, ShotFrame
<1>16. ASSUME NEW t \in Ticks, Write(t) PROVE ShotInv'
  <2>1. PICK p \in {"prev", "evict?", "rest?"} : Goto(t, on[t], p)
    BY <1>16 DEF Write
  <2>2. pc'[t] = p /\ pc[t] # "idle"
    BY <1>16, <2>1 DEF Write, Goto
  <2>3. ShotFacts(t)'
    BY <2>1, <2>2 DEF ShotFacts
  <2> QED
    BY <2>1, <2>2, <2>3, ShotOne
<1>17. ASSUME NEW t \in Ticks, PrevOk(t) PROVE ShotInv'
  <2>1. Goto(t, on[t], "put") /\ pc[t] # "idle" /\ pc'[t] = "put"
    BY <1>17 DEF PrevOk, Goto
  <2>2. PICK v \in 0 .. MaxVersion :
          /\ \/ snaps = {} /\ v = 0
             \/ \E s \in snaps : IsNewest(s, snaps) /\ v = s.version + 1
          /\ shot' = [shot EXCEPT ![t].version = v]
    BY <1>17 DEF PrevOk
  <2>3. shot'[t].version = v /\ UNCHANGED snaps
    BY <1>17, <2>2 DEF PrevOk
  <2>4. \A s \in snaps : s.version < v
    BY <2>2, BoundAssumption DEF IsNewest
  <2>9. ShotFacts(t)'
    BY <2>1, <2>3, <2>4 DEF ShotFacts
  <2> QED
    BY <2>1, <2>9, ShotOne
<1>18. ASSUME NEW t \in Ticks, PutOk(t) PROVE ShotInv'
  <2>1. Goto(t, on[t], "verify") /\ pc[t] # "idle" /\ pc'[t] = "verify"
    BY <1>18 DEF PutOk, Goto
  <2>2. [key |-> Key(t), upd |-> shot[t].upd] \in objects' /\ UNCHANGED <<shot, snaps>>
    BY <1>18 DEF PutOk
  <2>3. shot[t].upd \subseteq Content(Key(t))'
    <3> DEFINE o == [key |-> Key(t), upd |-> shot[t].upd]
    <3>1. Key(t)' = Key(t)
      BY <2>2 DEF Key
    <3>2. o \in {x \in objects' : x.key = Key(t)} /\ o.upd = shot[t].upd
      BY <2>2
    <3> HIDE DEF o
    <3> QED
      BY <3>1, <3>2 DEF Content, EditsOf
  <2>4. \A s \in snaps : s.version < shot[t].version
    BY <1>18 DEF PutOk, ShotInv, ShotFacts
  <2>9. ShotFacts(t)'
    BY <2>1, <2>2, <2>3, <2>4 DEF ShotFacts, Key
  <2> QED
    BY <2>1, <2>9, ShotOne
<1>19. ASSUME NEW t \in Ticks, VerifyOk(t) PROVE ShotInv'
  <2>1. Goto(t, on[t], "record") /\ pc[t] # "idle" /\ pc'[t] = "record"
    BY <1>19 DEF VerifyOk, Goto
  <2>2. shot' = [shot EXCEPT ![t].upTo = persistedUpTo[on[t]]] /\ UNCHANGED <<snaps, objects, persistedUpTo, current>>
    BY <1>19 DEF VerifyOk
  <2>3. /\ shot'[t].upTo = persistedUpTo[current]
        /\ shot'[t].upd = shot[t].upd /\ shot'[t].version = shot[t].version
    BY <1>19, <2>2 DEF VerifyOk
  <2>4. Key(t)' = Key(t) /\ Content(Key(t))' = Content(Key(t))
    BY <2>2, <2>3 DEF Key, Content
  <2>5. /\ \A s \in snaps : s.version < shot[t].version
        /\ \E o \in objects : o.key = Key(t)
        /\ shot[t].upd \subseteq Content(Key(t))
    BY <1>19 DEF VerifyOk, ShotInv, ShotFacts
  <2>9. ShotFacts(t)'
    BY <2>1, <2>2, <2>3, <2>4, <2>5 DEF ShotFacts
  <2> QED
    BY <2>1, <2>9, ShotOne
<1>20. ASSUME NEW t \in Ticks, RecordOk(t) PROVE ShotInv'
  <2>1. PICK p \in {"prune", "expire"} : Goto(t, on[t], p)
    BY <1>20 DEF RecordOk
  <2>2. pc[t] # "idle" /\ pc'[t] = p
    BY <1>20, <2>1 DEF RecordOk, Goto
  <2>3. snaps' = snaps \cup {NewSnapshot(t)} /\ NewSnapshot(t)' = NewSnapshot(t)
    BY <1>20 DEF RecordOk, NewSnapshot, Key
  <2>4. \A s \in snaps : s.version < shot[t].version
    BY <1>20 DEF RecordOk, ShotInv, ShotFacts
  <2>5. IsNewest(NewSnapshot(t), snaps')
    BY <2>3, <2>4, BoundAssumption DEF IsNewest, NewSnapshot
  <2>6. ShotFacts(t)'
    BY <2>1, <2>2, <2>3, <2>5 DEF ShotFacts
  <2> QED
    BY <2>1, <2>2, <2>6, ShotOne
<1>21. ASSUME NEW t \in Ticks, WriteFails(t) PROVE ShotInv'
  <2>1. PICK p \in {"prev", "evict?", "rest?"} : Goto(t, on[t], p)
    BY <1>21 DEF WriteFails
  <2>2. pc'[t] = p /\ pc[t] # "idle"
    BY <1>21, <2>1 DEF WriteFails, Goto
  <2>3. ShotFacts(t)'
    BY <2>1, <2>2 DEF ShotFacts
  <2> QED
    BY <2>1, <2>2, <2>3, ShotOne
<1>22. ASSUME NEW t \in Ticks, WriteLosesReply(t) PROVE ShotInv'
  <2>1. PICK p \in {"prev", "evict?", "rest?"} : Goto(t, on[t], p)
    BY <1>22 DEF WriteLosesReply
  <2>2. pc'[t] = p /\ pc[t] # "idle"
    BY <1>22, <2>1 DEF WriteLosesReply, Goto
  <2>3. ShotFacts(t)'
    BY <2>1, <2>2 DEF ShotFacts
  <2> QED
    BY <2>1, <2>2, <2>3, ShotOne
<1>23. ASSUME NEW t \in Ticks, Prune(t) PROVE ShotInv'
  <2>1. Goto(t, on[t], "expire") /\ pc[t] # "idle" /\ pc'[t] = "expire"
    BY <1>23 DEF Prune, Goto
  <2>2. NewSnapshot(t) \in snaps /\ IsNewest(NewSnapshot(t), snaps)
    BY <1>23 DEF Prune, ShotInv, ShotFacts
  <2>3. UNCHANGED <<snaps, shot>>
    BY <1>23 DEF Prune
  <2>9. ShotFacts(t)'
    BY <2>1, <2>2, <2>3 DEF ShotFacts, NewSnapshot, Key, IsNewest
  <2> QED
    BY <2>1, <2>9, ShotOne
<1>24. ASSUME NEW t \in Ticks, DeleteObject(t) PROVE ShotInv'
  <2>1. pc[t] = "expire" /\ UNCHANGED <<pc, shot>> /\ snaps' \subseteq snaps
    BY <1>24 DEF DeleteObject
  <2>2. NewSnapshot(t) \in snaps /\ IsNewest(NewSnapshot(t), snaps)
    BY <2>1 DEF ShotInv, ShotFacts
  <2>3. NewSnapshot(t) \in snaps'
    BY <1>24, <2>2, LimitAssumption DEF DeleteObject, Expired, NewSnapshot
  <2>4. ShotFacts(t)'
    BY <2>1, <2>2, <2>3 DEF ShotFacts, NewSnapshot, Key, IsNewest
  <2>5. ASSUME NEW u \in Ticks, u # t PROVE ShotFacts(u)'
    BY <2>1, <2>5 DEF ShotFacts
  <2> QED
    BY <2>4, <2>5 DEF ShotInv
<1>25. ASSUME NEW t \in Ticks, DeleteSnapshotRow(t) PROVE ShotInv'
  <2>1. pc[t] = "expire" /\ UNCHANGED <<pc, shot>> /\ snaps' \subseteq snaps
    BY <1>25 DEF DeleteSnapshotRow
  <2>2. NewSnapshot(t) \in snaps /\ IsNewest(NewSnapshot(t), snaps)
    BY <2>1 DEF ShotInv, ShotFacts
  <2>3. NewSnapshot(t) \in snaps'
    BY <1>25, <2>2, LimitAssumption DEF DeleteSnapshotRow, Expired, NewSnapshot
  <2>4. ShotFacts(t)'
    BY <2>1, <2>2, <2>3 DEF ShotFacts, NewSnapshot, Key, IsNewest
  <2>5. ASSUME NEW u \in Ticks, u # t PROVE ShotFacts(u)'
    BY <2>1, <2>5 DEF ShotFacts
  <2> QED
    BY <2>4, <2>5 DEF ShotInv
<1>26. ASSUME NEW t \in Ticks, SnapshotDone(t) PROVE ShotInv'
  <2>1. PICK p \in {"prev", "evict?", "rest?"} : Goto(t, on[t], p)
    BY <1>26 DEF SnapshotDone
  <2>2. pc'[t] = p /\ pc[t] # "idle"
    BY <1>26, <2>1 DEF SnapshotDone, Goto
  <2>3. ShotFacts(t)'
    BY <2>1, <2>2 DEF ShotFacts
  <2> QED
    BY <2>1, <2>2, <2>3, ShotOne
<1>27. ASSUME NEW t \in Ticks, EvictIdle(t) PROVE ShotInv'
  BY <1>27, ShotFrame DEF EvictIdle, FlushUpdates, Goto
<1>28. ASSUME NEW t \in Ticks, StayWarm(t) PROVE ShotInv'
  BY <1>28, ShotFrame DEF StayWarm, Goto
<1>29. ASSUME NEW t \in Ticks, EvictCompact(t) PROVE ShotInv'
  BY <1>29, ShotFrame DEF EvictCompact, MaybeSnapshot, FlushUpdates, Goto
<1>30. ASSUME NEW t \in Ticks, EvictRest(t) PROVE ShotInv'
  BY <1>30, ShotFrame DEF EvictRest, FlushUpdates, Goto
<1>31. ASSUME NEW t \in Ticks, Destroy(t) PROVE ShotInv'
  BY <1>31, ShotFrame DEF Destroy, Goto
<1>32. CASE Crash
  <2>1. \A u \in Ticks : pc'[u] = "idle"
    BY <1>32 DEF Crash
  <2> QED
    BY <2>1 DEF ShotInv, ShotFacts
<1>33. CASE UNCHANGED vars
  BY <1>33, ShotFrame DEF vars
<1> QED
  BY <1>1, <1>2, <1>3, <1>4, <1>5, <1>6, <1>7, <1>8, <1>9, <1>10, <1>11, <1>12, <1>13,
     <1>14, <1>15, <1>16, <1>17, <1>18, <1>19, <1>20, <1>21, <1>22, <1>23, <1>24, <1>25,
     <1>26, <1>27, <1>28, <1>29, <1>30, <1>31, <1>32, <1>33
  DEF Next, ClientNext, TickNext, vars


(***************************************************************************)
(* Where every edit is                                                     *)
(***************************************************************************)

\* An edit is pending in the buffer of a room or in a write of a tick.
LEMMA PendingElement ==
  ASSUME NEW e
  PROVE  /\ e \in Pending <=> \/ \E r \in Rooms : Leads(r) /\ e \in buffer[r]
                              \/ \E t \in Ticks : e \in entries[t]
         /\ e \in Pending' <=> \/ \E r \in Rooms : Leads(r)' /\ e \in buffer'[r]
                               \/ \E t \in Ticks : e \in entries'[t]
<1>1. ASSUME NEW S, NEW f PROVE e \in UNION {f[x] : x \in S} <=> \E x \in S : e \in f[x]
  OBVIOUS
<1>2. e \in Buffered <=> \E r \in Rooms : Leads(r) /\ e \in buffer[r]
  BY <1>1 DEF Buffered
<1>3. e \in BeingWritten <=> \E t \in Ticks : e \in entries[t]
  BY <1>1 DEF BeingWritten
<1>4. e \in Buffered' <=> \E r \in Rooms : Leads(r)' /\ e \in buffer'[r]
  BY <1>1 DEF Buffered
<1>5. e \in BeingWritten' <=> \E t \in Ticks : e \in entries'[t]
  BY <1>1 DEF BeingWritten
<1> QED
  BY <1>2, <1>3, <1>4, <1>5 DEF Pending

\* A call of flushUpdates only moves edits from the buffer to the write.
LEMMA FlushPending ==
  ASSUME TypeOK, TickInv, NEW t \in Ticks, pc[t] # "create", NEW r \in Rooms, NEW next,
         FlushUpdates(t, r, next), UNCHANGED destroyed
  PROVE  Pending \subseteq Pending'
<1>1. CASE UNCHANGED <<entries, buffer>>
  BY <1>1 DEF Pending, Buffered, BeingWritten, Leads
<1>2. CASE entries' = [entries EXCEPT ![t] = buffer[r]] /\ buffer' = [buffer EXCEPT ![r] = {}]
  <2>1. entries[t] = {}
    BY DEF TickInv
  <2>2. buffer[r] \subseteq entries'[t] /\ \A u \in Ticks : entries[u] \subseteq entries'[u]
    BY <1>2, <2>1 DEF TypeOK
  <2>3. \A x \in Rooms : buffer[x] \subseteq buffer'[x] \cup entries'[t]
    BY <1>2, <2>2 DEF TypeOK
  <2>4. ASSUME NEW e \in Pending PROVE e \in Pending'
    BY <2>2, <2>3, <2>4, PendingElement DEF Leads
  <2> QED
    BY <2>4
<1> QED
  BY <1>1, <1>2 DEF FlushUpdates

\* While nothing is buffered, under write, or destroyed anew, nothing leaves
\* the pending edits.
LEMMA PendingFrame ==
  ASSUME UNCHANGED <<buffer, destroyed, entries>> PROVE Pending' = Pending
BY DEF Pending, Buffered, BeingWritten, Leads

\* What a step takes from the pending edits it leaves in a new row.
LEMMA FlushedStep ==
  ASSUME Env \subseteq Ordinary, TypeOK, TickInv, RoomInv, EvictInv, SnapInv, [Next]_vars
  PROVE  Flushed' \subseteq Flushed \cup EditsOf(rows' \ rows)
<1> USE NoRoomAssumption DEF store, room, sockets, tick, history
<1> SUFFICES ASSUME ~(\E t \in Ticks : CreateOk(t)) PROVE Flushed' \subseteq Flushed
  <2> SUFFICES ASSUME NEW t \in Ticks, CreateOk(t)
               PROVE  Flushed' \subseteq Flushed \cup EditsOf(rows' \ rows)
    OBVIOUS
  <2>1. [id |-> nextRow, upd |-> entries[t]] \in rows' \ rows
    BY BoundAssumption DEF CreateOk, SnapInv, TypeOK
  <2>2. entries[t] \subseteq EditsOf(rows' \ rows)
    BY <2>1 DEF EditsOf
  <2>3. ASSUME NEW e \in Pending, e \notin entries[t] PROVE e \in Pending'
    BY <2>3, PendingElement DEF CreateOk, Leads, TypeOK
  <2>4. UNCHANGED owed
    BY DEF CreateOk
  <2> QED
    BY <2>2, <2>3, <2>4 DEF Flushed
<1>1. ASSUME UNCHANGED <<buffer, destroyed, entries, owed>> PROVE Flushed' \subseteq Flushed
  BY <1>1, PendingFrame DEF Flushed
<1>2. ASSUME Pending \subseteq Pending', UNCHANGED owed PROVE Flushed' \subseteq Flushed
  BY <1>2 DEF Flushed
<1>3. ASSUME NEW t \in Ticks, pc[t] \in RunPC, NEW r \in Rooms, NEW next, FlushUpdates(t, r, next),
             UNCHANGED <<destroyed, owed>>
      PROVE  Flushed' \subseteq Flushed
  BY <1>2, <1>3, FlushPending DEF RunPC
<1>4. ASSUME NEW c \in Clients, NEW r \in Rooms, CreateRoom(c, r) PROVE Flushed' \subseteq Flushed
  <2>1. \A x \in Rooms : buffer[x] = {}
    BY <1>4 DEF CreateRoom, RoomInv
  <2>2. UNCHANGED <<entries, owed>>
    BY <1>4 DEF CreateRoom
  <2>3. ASSUME NEW e \in Pending PROVE e \in Pending'
    BY <2>1, <2>2, <2>3, PendingElement
  <2> QED
    BY <1>2, <2>2, <2>3
<1>5. ASSUME NEW c \in Clients, NEW e \in Edits, Edit(c, e) PROVE Flushed' \subseteq Flushed
  <2> DEFINE r == conn[c]
  <2>1. r \in Rooms /\ Leads(r)
    BY <1>5 DEF Edit, RoomInv, TypeOK, Leads
  <2>2. e \in buffer'[r] /\ \A x \in Rooms : buffer[x] \subseteq buffer'[x]
    BY <1>5, <2>1 DEF Edit, TypeOK
  <2>3. UNCHANGED <<destroyed, entries>> /\ owed' = owed \cup {e}
    BY <1>5 DEF Edit
  <2>4. ASSUME NEW x \in Pending \cup {e} PROVE x \in Pending'
    BY <2>1, <2>2, <2>3, <2>4, PendingElement DEF Leads
  <2> QED
    BY <2>3, <2>4 DEF Flushed
<1>6. ASSUME NEW t \in Ticks, CreateFails(t) PROVE Flushed' \subseteq Flushed
  <2>1. on[t] \in Rooms /\ Leads(on[t])
    BY <1>6 DEF CreateFails, TickInv, RoomInv, TypeOK, Leads
  <2>2. /\ buffer' = [buffer EXCEPT ![on[t]] = entries[t] \cup @]
        /\ entries' = [entries EXCEPT ![t] = {}]
        /\ UNCHANGED <<destroyed, owed>>
    BY <1>6 DEF CreateFails
  <2>3. entries[t] \subseteq buffer'[on[t]] /\ \A x \in Rooms : buffer[x] \subseteq buffer'[x]
    BY <2>1, <2>2 DEF TypeOK
  <2>4. \A u \in Ticks : entries[u] \subseteq entries'[u] \cup buffer'[on[t]]
    BY <2>2, <2>3 DEF TypeOK
  <2>5. ASSUME NEW e \in Pending PROVE e \in Pending'
    BY <2>1, <2>2, <2>3, <2>4, <2>5, PendingElement DEF Leads
  <2> QED
    BY <1>2, <2>2, <2>5
<1>7. ASSUME NEW t \in Ticks, Destroy(t) PROVE Flushed' \subseteq Flushed
  <2>1. on[t] = current /\ buffer[current] = {}
    BY <1>7 DEF Destroy, TickInv, EvictInv
  <2>2. destroyed' = destroyed \cup {current} /\ UNCHANGED <<buffer, entries, owed>>
    BY <1>7, <2>1 DEF Destroy
  <2>3. \A x \in Rooms : x \notin destroyed /\ x \in destroyed' => buffer[x] = {}
    BY <2>1, <2>2
  <2>4. ASSUME NEW e \in Pending PROVE e \in Pending'
    BY <2>2, <2>3, <2>4, PendingElement DEF Leads
  <2> QED
    BY <1>2, <2>2, <2>4
<1>8. CASE Crash
  BY <1>8 DEF Crash, Flushed
<1>9. ASSUME NEW t \in Ticks, FlushDue(t) \/ SnapshotDue(t) \/ EvictIdle(t) \/ EvictCompact(t) \/ EvictRest(t)
      PROVE  Flushed' \subseteq Flushed
  <2>1. pc[t] \in RunPC /\ on[t] \in Rooms /\ UNCHANGED <<destroyed, owed>>
    BY <1>9 DEF FlushDue, SnapshotDue, EvictIdle, EvictCompact, EvictRest, RunPC, TypeOK
  <2>2. CASE UNCHANGED <<entries, buffer>>
    BY <1>1, <2>1, <2>2
  <2>3. CASE current \in Rooms /\ FlushUpdates(t, current, "compact?")
    BY <1>3, <2>1, <2>3
  <2>4. CASE \E next : FlushUpdates(t, on[t], next)
    BY <1>3, <2>1, <2>4
  <2> QED
    BY <1>9, <2>2, <2>3, <2>4
    DEF FlushDue, SnapshotDue, EvictIdle, EvictCompact, EvictRest, MaybeSnapshot, TypeOK
<1>10. ASSUME NEW c \in Clients,
              \/ Connect(c) \/ LoadBase(c) \/ LoadTail(c) \/ LoadFails(c)
              \/ Disconnect(c) \/ CloseWhileLoading(c)
       PROVE  Flushed' \subseteq Flushed
  BY <1>1, <1>10 DEF Connect, LoadBase, LoadTail, LoadFails, Disconnect, CloseWhileLoading
<1>11. ASSUME NEW t \in Ticks,
              \/ TickStart(t) \/ FlushNotDue(t) \/ SnapshotNotDue(t) \/ StayWarm(t)
              \/ Write(t) \/ PrevOk(t) \/ PutOk(t) \/ VerifyOk(t) \/ RecordOk(t)
              \/ WriteFails(t) \/ WriteLosesReply(t)
              \/ Prune(t) \/ DeleteObject(t) \/ DeleteSnapshotRow(t) \/ SnapshotDone(t)
       PROVE  Flushed' \subseteq Flushed
  BY <1>1, <1>11
  DEF TickStart, FlushNotDue, SnapshotNotDue, StayWarm, Write, PrevOk, PutOk, VerifyOk, RecordOk,
      WriteFails, WriteLosesReply, Prune, DeleteObject, DeleteSnapshotRow, SnapshotDone
<1>12. CASE UNCHANGED vars
  BY <1>1, <1>12 DEF vars
<1> QED
  BY <1>4, <1>5, <1>6, <1>7, <1>8, <1>9, <1>10, <1>11, <1>12 DEF Next, ClientNext, TickNext

\* A compaction goes on holding every flushed edit: no flush ends under it.
LEMMA ShotCoverStep ==
  ASSUME Env \subseteq Ordinary, TypeOK, TickInv, RoomInv, EvictInv, SnapInv, RoomCover, ShotCover,
         [Next]_vars
  PROVE  ShotCover'
<1> USE DEF store, room, sockets, tick, history, RunPC, WaitPC
<1> DEFINE Compacting == WaitPC \ {"create"}
<1>1. rows' \subseteq rows => Flushed' \subseteq Flushed
  BY FlushedStep DEF EditsOf
<1>2. ASSUME UNCHANGED <<pc, shot, rows>> PROVE ShotCover'
  BY <1>1, <1>2 DEF ShotCover
<1>3. ASSUME NEW t \in Ticks, pc[t] # "idle", NEW p, Goto(t, on[t], p),
             p \in Compacting => Flushed' \subseteq shot'[t].upd
      PROVE  ShotCover'
  <2>1. \A u \in Ticks : u # t => pc'[u] = "idle"
    BY <1>3 DEF Goto, TypeOK, TickInv
  <2>2. pc'[t] = p
    BY <1>3 DEF Goto, TypeOK
  <2> QED
    BY <1>3, <2>1, <2>2 DEF ShotCover
<1>4. ASSUME NEW c \in Clients,
             \/ Connect(c) \/ (\E r \in Rooms : CreateRoom(c, r))
             \/ LoadBase(c) \/ LoadTail(c) \/ LoadFails(c)
             \/ (\E e \in Edits : Edit(c, e)) \/ Disconnect(c) \/ CloseWhileLoading(c)
      PROVE  ShotCover'
  BY <1>2, <1>4 DEF Connect, CreateRoom, LoadBase, LoadTail, LoadFails, Edit, Disconnect, CloseWhileLoading
<1>5. ASSUME NEW t \in Ticks, TickStart(t) PROVE ShotCover'
  <2>1. \A u \in Ticks : pc'[u] \in {"idle", "flush?"}
    BY <1>5, Excluded DEF TickStart, Goto, TypeOK
  <2> QED
    BY <2>1 DEF ShotCover
<1>6. ASSUME NEW t \in Ticks, Write(t) PROVE ShotCover'
  <2>1. CASE shot' = [shot EXCEPT ![t].upd = doc[on[t]]] /\ Goto(t, on[t], "prev")
    <3>1. on[t] = current /\ current # NoRoom /\ phase[current] = "warm"
      BY <1>6 DEF Write, TickInv
    <3>2. Flushed' \subseteq Flushed
      BY <1>1, <1>6 DEF Write
    <3>3. Flushed \subseteq doc[on[t]]
      BY <3>1 DEF RoomCover, Flushed
    <3>4. shot'[t].upd = doc[on[t]]
      BY <2>1 DEF TypeOK
    <3> QED
      BY <1>3, <1>6, <2>1, <3>2, <3>3, <3>4 DEF Write
  <2>2. CASE Goto(t, on[t], back[t])
    BY <1>3, <1>6, <2>2 DEF Write, TypeOK
  <2> QED
    BY <1>6, <2>1, <2>2 DEF Write
<1>7. ASSUME NEW t \in Ticks, PrevOk(t) \/ PutOk(t) \/ VerifyOk(t) \/ RecordOk(t) \/ Prune(t)
      PROVE  ShotCover'
  <2>1. pc[t] \in Compacting /\ \E p : Goto(t, on[t], p)
    BY <1>7 DEF PrevOk, PutOk, VerifyOk, RecordOk, Prune
  <2>2. shot'[t].upd = shot[t].upd
    BY <1>7 DEF PrevOk, PutOk, VerifyOk, RecordOk, Prune, TypeOK
  <2>3. rows' \subseteq rows
    BY <1>7 DEF PrevOk, PutOk, VerifyOk, RecordOk, Prune, Tail
  <2>4. Flushed' \subseteq shot'[t].upd
    BY <1>1, <2>1, <2>2, <2>3 DEF ShotCover
  <2> QED
    BY <1>3, <2>1, <2>4
<1>8. ASSUME NEW t \in Ticks, DeleteObject(t) \/ DeleteSnapshotRow(t) PROVE ShotCover'
  BY <1>2, <1>8 DEF DeleteObject, DeleteSnapshotRow
<1>9. ASSUME NEW t \in Ticks,
             \/ FlushDue(t) \/ FlushNotDue(t) \/ SnapshotDue(t) \/ SnapshotNotDue(t)
             \/ EvictIdle(t) \/ StayWarm(t) \/ EvictCompact(t) \/ EvictRest(t) \/ Destroy(t)
      PROVE  ShotCover'
  <2>1. pc[t] # "idle" /\ \E p : p \notin Compacting /\ Goto(t, on[t], p)
    BY <1>9 DEF FlushDue, FlushNotDue, SnapshotDue, SnapshotNotDue, EvictIdle, StayWarm, EvictCompact,
                EvictRest, Destroy, MaybeSnapshot, FlushUpdates, TickInv
  <2> QED
    BY <1>3, <2>1
<1>10. ASSUME NEW t \in Ticks,
              CreateOk(t) \/ CreateFails(t) \/ WriteFails(t) \/ WriteLosesReply(t) \/ SnapshotDone(t)
       PROVE  ShotCover'
  <2>1. pc[t] # "idle" /\ \E p : p \notin Compacting /\ Goto(t, on[t], p)
    BY <1>10 DEF CreateOk, CreateFails, WriteFails, WriteLosesReply, SnapshotDone, TypeOK
  <2> QED
    BY <1>3, <2>1
<1>11. CASE Crash
  BY <1>11 DEF Crash, ShotCover
<1>12. CASE UNCHANGED vars
  BY <1>2, <1>12 DEF vars
<1> QED
  BY <1>4, <1>5, <1>6, <1>7, <1>8, <1>9, <1>10, <1>11, <1>12 DEF Next, ClientNext, TickNext

\* The current room, once loaded, goes on showing every edit.
LEMMA RoomCoverStep ==
  ASSUME Env \subseteq Ordinary, TypeOK, TickInv, RoomInv, SnapInv, StoreCover, RoomCover, [Next]_vars
  PROVE  RoomCover'
<1> USE NoRoomAssumption DEF store, room, sockets, tick, history, RunPC, WaitPC
<1>1. ASSUME UNCHANGED <<current, phase, doc, base, owed>>,
             rows \subseteq rows' \/ phase[current] # "tail"
      PROVE  RoomCover'
  BY <1>1 DEF RoomCover, EditsOf, Tail
<1>2. ASSUME NEW c \in Clients, NEW r \in Rooms, CreateRoom(c, r) PROVE RoomCover'
  <2>1. current' = r /\ phase'[r] = "loading"
    BY <1>2 DEF CreateRoom, TypeOK
  <2> QED
    BY <2>1 DEF RoomCover
<1>3. ASSUME NEW c \in Clients, LoadBase(c) PROVE RoomCover'
  <2>1. joining[c] = current /\ current \in Rooms /\ phase[current] = "loading"
    BY <1>3 DEF LoadBase, RoomInv, TypeOK
  <2>2. owed \subseteq Flushed
    <3>1. \A r \in Rooms : buffer[r] = {}
      BY <2>1 DEF RoomInv
    <3>2. \A t \in Ticks : entries[t] = {}
      BY <2>1 DEF TickInv
    <3> QED
      BY <3>1, <3>2, PendingElement DEF Flushed
  <2>3. owed \subseteq doc'[current] \cup EditsOf(Tail(base'[current].upTo))
    <3>1. CASE snaps = {} /\ base' = [base EXCEPT ![current] = [upTo |-> 0, found |-> FALSE, listed |-> snaps # {}]]
      <4>1. base'[current].upTo = 0
        BY <2>1, <3>1 DEF TypeOK
      <4>2. Tail(0) = rows
        BY BoundAssumption DEF Tail, TypeOK
      <4>3. owed \subseteq EditsOf(rows)
        BY <2>2, <3>1 DEF StoreCover
      <4> QED
        BY <4>1, <4>2, <4>3
    <3>2. ASSUME NEW s \in Newest,
                 base' = [base EXCEPT ![current] = [upTo |-> s.upTo, found |-> TRUE, listed |-> TRUE]],
                 doc' = [doc EXCEPT ![current] = @ \cup Content(s.key)]
          PROVE  owed \subseteq doc'[current] \cup EditsOf(Tail(base'[current].upTo))
      <4>1. base'[current].upTo = s.upTo /\ Content(s.key) \subseteq doc'[current]
        BY <2>1, <3>2 DEF TypeOK
      <4>2. owed \subseteq Rebuild(s)
        BY <2>2, <3>2 DEF StoreCover
      <4> QED
        BY <4>1, <4>2 DEF Rebuild
    <3>3. PICK readable \in ReadableNow :
            \/ /\ readable = {}
               /\ base' = [base EXCEPT ![current] = [upTo |-> 0, found |-> FALSE, listed |-> snaps # {}]]
            \/ \E s \in readable :
                 /\ IsNewest(s, readable)
                 /\ base' = [base EXCEPT ![current] = [upTo |-> s.upTo, found |-> TRUE, listed |-> TRUE]]
                 /\ doc' = [doc EXCEPT ![current] = @ \cup Content(s.key)]
      BY <1>3, <2>1 DEF LoadBase
    <3>4. (readable = {} => snaps = {}) /\ \A s \in readable : IsNewest(s, readable) => s \in Newest
      BY LoadsRetained
    <3> QED
      BY <3>1, <3>2, <3>3, <3>4
  <2>4. phase'[current] = "tail" /\ UNCHANGED <<rows, current, owed>>
    BY <1>3, <2>1 DEF LoadBase, TypeOK
  <2> QED
    BY <2>3, <2>4 DEF RoomCover, Tail
<1>4. ASSUME NEW c \in Clients, LoadTail(c) PROVE RoomCover'
  <2>1. joining[c] = current /\ current \in Rooms /\ phase[current] = "tail"
    BY <1>4 DEF LoadTail, RoomInv, TypeOK
  <2>2. /\ phase'[current] = "warm" /\ UNCHANGED <<current, owed>>
        /\ doc'[current] = doc[current] \cup EditsOf(Tail(base[current].upTo))
    BY <1>4, <2>1 DEF LoadTail, TypeOK
  <2> QED
    BY <2>1, <2>2 DEF RoomCover
<1>5. ASSUME NEW c \in Clients, LoadFails(c) PROVE RoomCover'
  <2>1. joining[c] = current /\ current \in Rooms
    BY <1>5 DEF LoadFails, RoomInv, TypeOK
  <2>2. phase'[current] = "failed" /\ UNCHANGED current
    BY <1>5, <2>1 DEF LoadFails, TypeOK
  <2> QED
    BY <2>2 DEF RoomCover
<1>6. ASSUME NEW c \in Clients, NEW e \in Edits, Edit(c, e) PROVE RoomCover'
  <2>1. conn[c] = current /\ current \in Rooms /\ phase[current] = "warm"
    BY <1>6 DEF Edit, RoomInv, TypeOK
  <2>2. doc'[current] = doc[current] \cup {e} /\ owed' = owed \cup {e} /\ UNCHANGED <<current, phase>>
    BY <1>6, <2>1 DEF Edit, TypeOK
  <2> QED
    BY <2>1, <2>2 DEF RoomCover
<1>7. ASSUME NEW t \in Ticks, Destroy(t) PROVE RoomCover'
  BY <1>7 DEF Destroy, RoomCover
<1>8. ASSUME NEW t \in Ticks, Prune(t) PROVE RoomCover'
  <2>1. phase[current] # "tail"
    BY <1>8 DEF Prune, TickInv
  <2> QED
    BY <1>1, <1>8, <2>1 DEF Prune
<1>9. ASSUME NEW t \in Ticks,
             \/ TickStart(t) \/ FlushDue(t) \/ FlushNotDue(t) \/ SnapshotDue(t) \/ SnapshotNotDue(t)
             \/ EvictIdle(t) \/ StayWarm(t) \/ EvictCompact(t) \/ EvictRest(t)
      PROVE  RoomCover'
  BY <1>1, <1>9 DEF TickStart, FlushDue, FlushNotDue, SnapshotDue, SnapshotNotDue, EvictIdle, StayWarm,
                    EvictCompact, EvictRest
<1>10. ASSUME NEW t \in Ticks,
             \/ CreateOk(t) \/ CreateFails(t) \/ Write(t) \/ PrevOk(t) \/ PutOk(t) \/ VerifyOk(t)
             \/ RecordOk(t) \/ WriteFails(t) \/ WriteLosesReply(t)
             \/ DeleteObject(t) \/ DeleteSnapshotRow(t) \/ SnapshotDone(t)
       PROVE  RoomCover'
  <2>1. UNCHANGED <<current, phase, doc, base, owed>>
    BY <1>10 DEF CreateOk, CreateFails, Write, PrevOk, PutOk, VerifyOk, RecordOk, WriteFails,
                 WriteLosesReply, DeleteObject, DeleteSnapshotRow, SnapshotDone
  <2>2. rows \subseteq rows'
    BY <1>10 DEF CreateOk, CreateFails, Write, PrevOk, PutOk, VerifyOk, RecordOk, WriteFails,
                 WriteLosesReply, DeleteObject, DeleteSnapshotRow, SnapshotDone
  <2> QED
    BY <1>1, <2>1, <2>2
<1>11. ASSUME NEW c \in Clients, Connect(c) \/ Disconnect(c) \/ CloseWhileLoading(c) PROVE RoomCover'
  BY <1>1, <1>11 DEF Connect, Disconnect, CloseWhileLoading
<1>12. CASE Crash
  BY <1>12 DEF Crash, RoomCover
<1>13. CASE UNCHANGED vars
  BY <1>1, <1>13 DEF vars
<1> QED
  BY <1>2, <1>3, <1>4, <1>5, <1>6, <1>7, <1>8, <1>9, <1>10, <1>11, <1>12, <1>13
  DEF Next, ClientNext, TickNext

\* A snapshot whose version lies within the history limit is one of the
\* HistoryLimit newest, since no two snapshots have one version.
LEMMA NewestIsKept ==
  ASSUME TypeOK, SnapInv, NEW s \in Newest
  PROVE  s \in Kept
<1>1. s \in snaps /\ s.version \in Nat /\ \A x \in snaps : x.version \in Nat
  BY BoundAssumption DEF Newest, TypeOK
<1> DEFINE lo == s.version + 1
           hi == s.version + HistoryLimit - 1
           f == [x \in Newer(s) |-> x.version]
<1>2. lo \in Int /\ hi \in Int /\ lo <= hi + 1
  BY <1>1, LimitAssumption
<1>3. \A x \in Newer(s) : f[x] \in lo .. hi
  BY <1>1, LimitAssumption DEF Newest, Newer
<1>4. f \in Injection(Newer(s), lo .. hi)
  BY <1>3 DEF Injection, IsInjective, Newer, SnapInv
<1>5. IsFiniteSet(lo .. hi) /\ Cardinality(lo .. hi) = HistoryLimit - 1
  <2>1. ASSUME NEW a \in Int, NEW b \in Int, a <= b + 1
        PROVE  IsFiniteSet(a .. b) /\ Cardinality(a .. b) = b - a + 1
    BY <2>1, FS_Interval
  <2>2. hi - lo + 1 = HistoryLimit - 1
    BY <1>1, LimitAssumption
  <2> HIDE DEF lo, hi
  <2> QED
    BY <1>2, <2>1, <2>2
<1> HIDE DEF f, lo, hi
<1>6. IsFiniteSet(Newer(s)) /\ Cardinality(Newer(s)) <= HistoryLimit - 1
  BY <1>4, <1>5, FS_Injection
<1>7. Cardinality(Newer(s)) \in Nat
  BY <1>6, FS_CardinalityType
<1> QED
  BY <1>1, <1>6, <1>7, LimitAssumption DEF Kept

\* What rows end at stays when rows and snapshots do, and the room does not move on.
LEMMA EndsFrame ==
  ASSUME EndsInv, UNCHANGED snaps, rows \subseteq rows',
         \/ current' = NoRoom \/ phase'[current'] \notin {"tail", "warm"}
         \/ /\ UNCHANGED current /\ phase'[current] = phase[current]
            /\ base'[current] = base[current] /\ persistedUpTo'[current] = persistedUpTo[current]
  PROVE  EndsInv'
<1>1. Newest' = Newest
  BY DEF Newest
<1>2. \A n : Ends(n) => Ends(n)'
  BY DEF Ends
<1> QED
  BY <1>1, <1>2 DEF EndsInv

\* A loaded room stays loaded: what is left to show for a step of its tick.
LEMMA EndsWarm ==
  ASSUME current \in Rooms, UNCHANGED <<current, phase>>, phase[current] = "warm",
         \A s \in snaps', x \in Newest' : s.upTo > x.upTo => (\E y \in rows' : y.id = s.upTo),
         \A x \in Newest' : persistedUpTo'[current] > x.upTo => (\E y \in rows' : y.id = persistedUpTo'[current])
  PROVE  EndsInv'
BY DEF EndsInv, Ends

\* A version is recorded: it ends where the room has got to.
LEMMA EndsRecorded ==
  ASSUME TypeOK, TickInv, SnapInv, EndsInv, ShotInv, NEW t \in Ticks, pc[t] = "record",
         snaps' = snaps \cup {NewSnapshot(t)}, UNCHANGED <<rows, room>>
  PROVE  EndsInv'
<1> DEFINE n == NewSnapshot(t)
<1>1. current \in Rooms /\ current # NoRoom /\ on[t] = current /\ phase[current] = "warm"
  BY DEF TypeOK, TickInv, WaitPC
<1>2. n.version = shot[t].version /\ n.upTo = persistedUpTo[current]
  BY DEF ShotInv, ShotFacts, NewSnapshot
<1>3. UNCHANGED <<rows, current, phase, persistedUpTo>>
  BY DEF room
<1>4. n.upTo \in Nat /\ \A s \in snaps : s.upTo <= n.upTo /\ s.upTo \in Nat
  BY <1>1, <1>2, BoundAssumption DEF SnapInv, TypeOK
<1> HIDE DEF n
<1>5. \A x \in Newest' : x \in Newest \/ x = n
  BY DEF Newest, n
<1>6. \A x \in Newest' : n.upTo > x.upTo => Ends(n.upTo)
  BY <1>1, <1>2, <1>4, <1>5 DEF EndsInv
<1>7. ASSUME NEW s \in snaps', NEW x \in Newest', s.upTo > x.upTo PROVE Ends(s.upTo)
  <2>1. s \in snaps \/ s = n
    BY DEF n
  <2>2. CASE s = n
    BY <1>6, <1>7, <2>2
  <2>3. CASE s \in snaps
    <3>1. x # n
      BY <1>4, <1>7, <2>3
    <3> QED
      BY <1>5, <1>7, <2>3, <3>1 DEF EndsInv
  <2> QED
    BY <2>1, <2>2, <2>3
<1> QED
  BY <1>1, <1>2, <1>3, <1>6, <1>7, EndsWarm DEF Ends

\* Rows are pruned up to where the oldest retained version ends.
LEMMA EndsPruned ==
  ASSUME TypeOK, TickInv, SnapInv, EndsInv, ShotInv, NEW t \in Ticks, pc[t] = "prune",
         NEW n \in 0 .. MaxRow, Cutoff(t, n), rows' = Tail(n), UNCHANGED <<snaps, room>>
  PROVE  EndsInv'
<1>1. current \in Rooms /\ current # NoRoom /\ on[t] = current /\ phase[current] = "warm"
  BY DEF TypeOK, TickInv, WaitPC
<1>2. UNCHANGED <<current, phase, persistedUpTo>>
  BY DEF room
<1>3. PICK s \in Kept : /\ \A x \in Kept : s.version <= x.version
                        /\ n = IF s.version >= shot[t].version THEN shot[t].upTo ELSE s.upTo
  BY DEF Cutoff
<1>4. n = s.upTo /\ s \in snaps
  <2>1. NewSnapshot(t) \in snaps /\ IsNewest(NewSnapshot(t), snaps) /\ s \in snaps
    BY <1>3 DEF ShotInv, ShotFacts, Kept
  <2>2. NewSnapshot(t).version = shot[t].version /\ NewSnapshot(t).upTo = shot[t].upTo
    BY DEF NewSnapshot
  <2>3. s.version \in Nat /\ shot[t].version \in Nat
    BY <2>1, BoundAssumption DEF TypeOK
  <2>4. s.version >= shot[t].version => s = NewSnapshot(t)
    BY <2>1, <2>2, <2>3 DEF IsNewest, SnapInv
  <2> QED
    BY <1>3, <2>1, <2>2, <2>4
<1>5. ASSUME NEW x \in Newest PROVE n <= x.upTo /\ x \in snaps
  BY <1>3, <1>4, <1>5, NewestIsKept DEF SnapInv, Newest
<1>6. ASSUME NEW m \in Nat, NEW x \in Newest, m > x.upTo, Ends(m)
     PROVE  \E y \in rows' : y.id = m
  <2>1. n \in Nat /\ x.upTo \in Nat
    BY <1>5, BoundAssumption DEF TypeOK
  <2>2. PICK y \in rows : y.id = m
    BY <1>6 DEF Ends
  <2>3. y \in rows'
    BY <1>5, <1>6, <2>1, <2>2 DEF Tail
  <2> QED
    BY <2>2, <2>3
<1>7. Newest' = Newest
  BY DEF Newest
<1>8. (\A x \in snaps : x.upTo \in Nat) /\ persistedUpTo[current] \in Nat
  BY <1>1, BoundAssumption DEF TypeOK
<1>9. \A s1 \in snaps, x \in Newest : s1.upTo > x.upTo => \E y \in rows' : y.id = s1.upTo
  BY <1>6, <1>8 DEF EndsInv
<1>10. \A x \in Newest : persistedUpTo[current] > x.upTo => \E y \in rows' : y.id = persistedUpTo[current]
  BY <1>1, <1>6, <1>8 DEF EndsInv
<1> QED
  BY <1>1, <1>2, <1>7, <1>9, <1>10, EndsWarm

\* A version outside the limit is deleted.
LEMMA EndsExpired ==
  ASSUME TypeOK, TickInv, EndsInv, ShotInv, NEW t \in Ticks, pc[t] = "expire",
         NEW s \in Expired(t), snaps' = snaps \ {s}, UNCHANGED <<rows, room>>
  PROVE  EndsInv'
<1>1. current \in Rooms /\ current # NoRoom /\ phase[current] = "warm" /\ UNCHANGED <<current, phase, persistedUpTo>>
  BY DEF TypeOK, TickInv, WaitPC, room
<1>2. ASSUME NEW x \in Newest' PROVE x \in Newest
  <2>1. NewSnapshot(t) \in snaps /\ NewSnapshot(t).version = shot[t].version
    BY DEF ShotInv, ShotFacts, NewSnapshot
  <2>2. s \in snaps /\ s.version + HistoryLimit < shot[t].version + 1
    BY DEF Expired
  <2>3. x \in snaps /\ \A y \in snaps \ {s} : y.version < x.version + HistoryLimit
    BY <1>2 DEF Newest
  <2>4. s.version \in Nat /\ x.version \in Nat /\ shot[t].version \in Nat
    BY <2>2, <2>3, BoundAssumption DEF TypeOK
  <2>5. NewSnapshot(t) # s
    BY <2>1, <2>2, <2>4, LimitAssumption
  <2>6. s.version < x.version + HistoryLimit
    BY <2>1, <2>2, <2>3, <2>4, <2>5, LimitAssumption
  <2> QED
    BY <2>3, <2>6 DEF Newest
<1>3. rows' = rows
  OBVIOUS
<1>4. \A s1 \in snaps', x \in Newest' : s1.upTo > x.upTo => \E y \in rows' : y.id = s1.upTo
  BY <1>2, <1>3 DEF EndsInv, Ends
<1>5. \A x \in Newest' : persistedUpTo'[current] > x.upTo => (\E y \in rows' : y.id = persistedUpTo'[current])
  BY <1>1, <1>2, <1>3 DEF EndsInv, Ends
<1> QED
  BY <1>1, <1>4, <1>5, EndsWarm

\* A load takes over where the rows have got to.
LEMMA EndsStep ==
  ASSUME Env \subseteq Ordinary, TypeOK, TickInv, RoomInv, SnapInv, EndsInv, ShotInv, StoreCover,
         [Next]_vars
  PROVE  EndsInv'
<1> USE NoRoomAssumption DEF store, room, sockets, tick, history
<1>1. ASSUME NEW c \in Clients, NEW r \in Rooms, CreateRoom(c, r) PROVE EndsInv'
  <2>1. current' = r /\ phase'[r] = "loading" /\ UNCHANGED <<rows, snaps>>
    BY <1>1 DEF CreateRoom, TypeOK
  <2> QED
    BY <2>1, EndsFrame
<1>2. ASSUME NEW c \in Clients, LoadBase(c) PROVE EndsInv'
  <2>1. joining[c] = current /\ current \in Rooms /\ current # NoRoom
    BY <1>2 DEF LoadBase, RoomInv, TypeOK
  <2>2. phase'[current] = "tail" /\ UNCHANGED <<rows, snaps, current>>
    BY <1>2, <2>1 DEF LoadBase, TypeOK
  <2>3. PICK readable \in ReadableNow :
          \/ /\ readable = {}
             /\ base' = [base EXCEPT ![current] = [upTo |-> 0, found |-> FALSE, listed |-> snaps # {}]]
          \/ \E s \in readable :
               /\ IsNewest(s, readable)
               /\ base' = [base EXCEPT ![current] = [upTo |-> s.upTo, found |-> TRUE, listed |-> TRUE]]
    BY <1>2, <2>1 DEF LoadBase
  <2>4. (readable = {} => snaps = {}) /\ \A s \in readable : IsNewest(s, readable) => s \in Newest
    BY LoadsRetained
  <2>5. snaps = {} \/ \E s \in Newest : base'[current].upTo = s.upTo
    BY <2>1, <2>3, <2>4 DEF TypeOK
  <2>6. /\ \A x \in Newest : base'[current].upTo > x.upTo => Ends(base'[current].upTo)
        /\ \A s \in snaps : s.upTo > base'[current].upTo => Ends(s.upTo)
    BY <2>5 DEF EndsInv, Newest
  <2>7. Newest' = Newest /\ \A n : Ends(n)' <=> Ends(n)
    BY <2>2 DEF Newest, Ends
  <2> QED
    BY <2>2, <2>6, <2>7 DEF EndsInv
<1>3. ASSUME NEW c \in Clients, LoadTail(c) PROVE EndsInv'
  <2>1. joining[c] = current /\ current \in Rooms /\ current # NoRoom /\ phase[current] = "tail"
    BY <1>3 DEF LoadTail, RoomInv, TypeOK
  <2>2. phase'[current] = "warm" /\ UNCHANGED <<rows, snaps, current>>
    BY <1>3, <2>1 DEF LoadTail, TypeOK
  <2>3. \/ persistedUpTo'[current] = base[current].upTo
        \/ \E x \in rows : x.id = persistedUpTo'[current]
    BY <1>3, <2>1 DEF LoadTail, Tail, TypeOK
  <2>4. \A x \in Newest : persistedUpTo'[current] > x.upTo => Ends(persistedUpTo'[current])
    BY <2>1, <2>3 DEF EndsInv, Ends
  <2>5. Newest' = Newest /\ \A n : Ends(n)' <=> Ends(n)
    BY <2>2 DEF Newest, Ends
  <2> QED
    BY <2>2, <2>4, <2>5 DEF EndsInv
<1>4. ASSUME NEW c \in Clients, LoadFails(c) PROVE EndsInv'
  <2>1. joining[c] = current /\ current \in Rooms
    BY <1>4 DEF LoadFails, RoomInv, TypeOK
  <2>2. phase'[current] = "failed" /\ UNCHANGED <<rows, snaps, current>>
    BY <1>4, <2>1 DEF LoadFails, TypeOK
  <2> QED
    BY <2>2, EndsFrame
<1>5. ASSUME NEW t \in Ticks, CreateOk(t) PROVE EndsInv'
  <2>1. on[t] = current /\ current \in Rooms /\ current # NoRoom /\ phase[current] = "warm"
    BY <1>5 DEF CreateOk, TickInv, TypeOK, WaitPC
  <2>2. rows' = rows \cup {[id |-> nextRow, upd |-> entries[t]]} /\ UNCHANGED <<snaps, current, phase>>
    BY <1>5 DEF CreateOk
  <2>3. persistedUpTo'[current] = nextRow
    BY <1>5, <2>1 DEF CreateOk, TypeOK
  <2>4. \E y \in rows' : y.id = persistedUpTo'[current]
    <3>1. [id |-> nextRow, upd |-> entries[t]].id = nextRow
      OBVIOUS
    <3> QED
      BY <2>2, <2>3, <3>1
  <2>5. \A s \in snaps', x \in Newest' : s.upTo > x.upTo => (\E y \in rows' : y.id = s.upTo)
    BY <2>2 DEF EndsInv, Ends, Newest
  <2> QED
    BY <2>1, <2>2, <2>4, <2>5, EndsWarm
<1>6. ASSUME NEW t \in Ticks, CreateFails(t) PROVE EndsInv'
  <2>1. rows \subseteq rows' /\ UNCHANGED <<snaps, current, phase, base, persistedUpTo>>
    BY <1>6 DEF CreateFails
  <2> QED
    BY <2>1, EndsFrame
<1>7. ASSUME NEW t \in Ticks, RecordOk(t) PROVE EndsInv'
  BY <1>7, EndsRecorded DEF RecordOk
<1>8. ASSUME NEW t \in Ticks, WriteLosesReply(t) PROVE EndsInv'
  <2>1. CASE UNCHANGED snaps
    BY <1>8, <2>1, EndsFrame DEF WriteLosesReply
  <2> QED
    BY <1>8, <2>1, EndsRecorded DEF WriteLosesReply
<1>9. ASSUME NEW t \in Ticks, Prune(t) PROVE EndsInv'
  <2>1. CASE UNCHANGED rows
    BY <1>9, <2>1, EndsFrame DEF Prune
  <2> QED
    BY <1>9, <2>1, EndsPruned DEF Prune
<1>10. ASSUME NEW t \in Ticks, DeleteSnapshotRow(t) PROVE EndsInv'
  BY <1>10, EndsExpired DEF DeleteSnapshotRow
<1>11. ASSUME NEW t \in Ticks, Destroy(t) PROVE EndsInv'
  BY <1>11, EndsFrame DEF Destroy
<1>12. CASE Crash
  BY <1>12, EndsFrame DEF Crash
<1>13. UNCHANGED <<rows, snaps, current, phase, base, persistedUpTo>> => EndsInv'
  BY EndsFrame
<1>14. ASSUME NEW c \in Clients,
              Connect(c) \/ (\E e \in Edits : Edit(c, e)) \/ Disconnect(c) \/ CloseWhileLoading(c)
       PROVE  EndsInv'
  BY <1>13, <1>14 DEF Connect, Edit, Disconnect, CloseWhileLoading
<1>15. ASSUME NEW t \in Ticks,
              \/ TickStart(t) \/ FlushDue(t) \/ FlushNotDue(t) \/ SnapshotDue(t) \/ SnapshotNotDue(t)
              \/ Write(t) \/ PrevOk(t) \/ PutOk(t) \/ VerifyOk(t) \/ WriteFails(t) \/ DeleteObject(t)
              \/ SnapshotDone(t) \/ EvictIdle(t) \/ StayWarm(t) \/ EvictCompact(t) \/ EvictRest(t)
       PROVE  EndsInv'
  BY <1>13, <1>15 DEF TickStart, FlushDue, FlushNotDue, SnapshotDue, SnapshotNotDue, Write, PrevOk, PutOk,
     VerifyOk, WriteFails, DeleteObject, SnapshotDone, EvictIdle, StayWarm, EvictCompact, EvictRest
<1> QED
  BY <1>1, <1>2, <1>3, <1>4, <1>5, <1>6, <1>7, <1>8, <1>9, <1>10, <1>11, <1>12, <1>13, <1>14, <1>15
  DEF Next, ClientNext, TickNext, vars

\* Replacing or deleting an object under one key changes no other key.
LEMMA OtherKeys ==
  ASSUME NEW k, NEW x, x.key # k,
         \/ objects' = {o \in objects : o.key # k}
         \/ \E new : new.key = k /\ objects' = {o \in objects : o.key # k} \cup {new}
  PROVE  /\ HasObject(x) => HasObject(x)'
         /\ Content(x.key)' = Content(x.key)
<1>1. {o \in objects' : o.key = x.key} = {o \in objects : o.key = x.key}
  OBVIOUS
<1> QED
  BY <1>1 DEF HasObject, Content

\* Every retained version goes on reconstructing what was flushed.
LEMMA StoreCoverStep ==
  ASSUME Env \subseteq Ordinary, TypeOK, TickInv, RoomInv, EvictInv, SnapInv, ShotInv,
         StoreCover, ShotCover, [Next]_vars
  PROVE  StoreCover'
<1> USE NoRoomAssumption, BoundAssumption DEF store, room, sockets, tick, history, RunPC, WaitPC
<1>1. rows' \subseteq rows => Flushed' \subseteq Flushed
  BY FlushedStep DEF EditsOf
<1>2. ASSUME UNCHANGED <<rows, snaps, objects>> PROVE StoreCover'
  BY <1>1, <1>2 DEF StoreCover, Newest, HasObject, Rebuild, Content, Tail
<1>3. ASSUME UNCHANGED <<snaps, objects>>, NEW new, rows' = rows \cup {new}, new.id = nextRow
      PROVE  StoreCover'
  <2>1. Flushed' \subseteq Flushed \cup new.upd
    BY <1>3, FlushedStep DEF EditsOf
  <2>2. EditsOf(rows) \cup new.upd \subseteq EditsOf(rows')
    BY <1>3 DEF EditsOf
  <2>3. ASSUME NEW s \in Newest PROVE Rebuild(s) \cup new.upd \subseteq Rebuild(s)'
    <3>1. s.upTo < nextRow
      BY DEF Newest, SnapInv
    <3>2. Tail(s.upTo) \cup {new} \subseteq Tail(s.upTo)'
      BY <1>3, <3>1 DEF Tail, TypeOK, Newest
    <3>3. Content(s.key)' = Content(s.key)
      BY <1>3 DEF Content
    <3> QED
      BY <3>2, <3>3 DEF Rebuild, EditsOf
  <2>4. Newest' = Newest /\ \A s \in Newest : HasObject(s) => HasObject(s)'
    BY <1>3 DEF Newest, HasObject
  <2> QED
    BY <1>3, <2>1, <2>2, <2>3, <2>4 DEF StoreCover
<1>4. ASSUME NEW t \in Ticks, CreateOk(t) \/ CreateFails(t) PROVE StoreCover'
  <2>0. UNCHANGED <<snaps, objects>>
    BY <1>4 DEF CreateOk, CreateFails
  <2>1. CASE UNCHANGED rows
    BY <1>2, <2>0, <2>1
  <2>2. CASE rows' = rows \cup {[id |-> nextRow, upd |-> entries[t]]}
    <3>1. [id |-> nextRow, upd |-> entries[t]].id = nextRow
      OBVIOUS
    <3> QED
      BY <1>3, <2>0, <2>2, <3>1
  <2> QED
    BY <1>4, <2>1, <2>2 DEF CreateOk, CreateFails
<1>5. ASSUME NEW k, UNCHANGED <<rows, snaps>>, \A s \in Newest : s.key # k,
             \/ objects' = {o \in objects : o.key # k}
             \/ \E new : new.key = k /\ objects' = {o \in objects : o.key # k} \cup {new}
      PROVE  StoreCover'
  <2>1. Newest' = Newest /\ Flushed' \subseteq Flushed
    BY <1>1, <1>5 DEF Newest
  <2>2. \A s \in Newest : (HasObject(s) => HasObject(s)') /\ Rebuild(s)' = Rebuild(s)
    BY <1>5, OtherKeys DEF Rebuild, Tail
  <2> QED
    BY <1>5, <2>1, <2>2 DEF StoreCover
<1>6. ASSUME NEW t \in Ticks, pc[t] = "put", UNCHANGED <<rows, snaps>>,
             objects' = {o \in objects : o.key # Key(t)} \cup {[key |-> Key(t), upd |-> shot[t].upd]}
      PROVE  StoreCover'
  <2>1. \A s \in Newest : s.version < shot[t].version /\ s.key[1] = s.version /\ s.version \in Nat
    BY <1>6 DEF ShotInv, ShotFacts, Newest, SnapInv, TypeOK
  <2>2. \A s \in Newest : s.key # Key(t)
    BY <2>1 DEF Key, TypeOK
  <2>3. \E new : new.key = Key(t) /\ objects' = {o \in objects : o.key # Key(t)} \cup {new}
    BY <1>6
  <2> QED
    BY <1>5, <1>6, <2>2, <2>3
<1>7. ASSUME NEW t \in Ticks, pc[t] = "record", UNCHANGED <<rows, objects>>,
             snaps' = snaps \cup {NewSnapshot(t)}
      PROVE  StoreCover'
  <2> DEFINE n == NewSnapshot(t)
  <2>1. n.key = Key(t)
    BY DEF NewSnapshot
  <2>2. HasObject(n) /\ shot[t].upd \subseteq Content(n.key)
    BY <1>7, <2>1 DEF ShotInv, ShotFacts, HasObject
  <2>3. Flushed \subseteq shot[t].upd
    BY <1>7 DEF ShotCover
  <2>4. HasObject(n) /\ Flushed \subseteq Rebuild(n)
    BY <2>2, <2>3 DEF Rebuild
  <2>5. Newest' \subseteq Newest \cup {n} /\ snaps' # {}
    BY <1>7 DEF Newest
  <2>6. \A s : (HasObject(s) => HasObject(s)') /\ Rebuild(s)' = Rebuild(s)
    BY <1>7 DEF HasObject, Rebuild, Content, Tail
  <2> HIDE DEF n
  <2> QED
    BY <1>1, <1>7, <2>4, <2>5, <2>6 DEF StoreCover
<1>8. ASSUME NEW t \in Ticks, PutOk(t) \/ RecordOk(t) \/ WriteLosesReply(t) PROVE StoreCover'
  BY <1>6, <1>7, <1>8 DEF PutOk, RecordOk, WriteLosesReply
<1>9. ASSUME NEW t \in Ticks, Prune(t) PROVE StoreCover'
  <2>1. CASE UNCHANGED rows
    BY <1>2, <1>9, <2>1 DEF Prune
  <2>2. ASSUME NEW n \in 0 .. MaxRow, Cutoff(t, n), rows' = Tail(n) PROVE StoreCover'
    <3>1. NewSnapshot(t) \in snaps /\ IsNewest(NewSnapshot(t), snaps)
      BY <1>9 DEF Prune, ShotInv, ShotFacts
    <3>2. PICK m \in Kept : /\ \A x \in Kept : m.version <= x.version
                            /\ n = IF m.version >= shot[t].version THEN shot[t].upTo ELSE m.upTo
      BY <2>2 DEF Cutoff
    <3>3. m \in snaps /\ n = m.upTo
      <4>1. m \in snaps
        BY <3>2 DEF Kept
      <4>2. CASE m.version >= shot[t].version
        <5>1. NewSnapshot(t).version = shot[t].version /\ NewSnapshot(t).upTo = shot[t].upTo
          BY DEF NewSnapshot
        <5>2. m.version <= NewSnapshot(t).version
          BY <3>1, <4>1 DEF IsNewest
        <5>3. m.version \in Nat /\ shot[t].version \in Nat
          BY <4>1 DEF TypeOK
        <5>4. m.version = NewSnapshot(t).version
          BY <4>2, <5>1, <5>2, <5>3
        <5> QED
          BY <3>1, <3>2, <4>1, <4>2, <5>1, <5>4 DEF SnapInv
      <4> QED
        BY <3>2, <4>1, <4>2
    <3>4. ASSUME NEW s \in Newest PROVE Rebuild(s)' = Rebuild(s)
      <4>1. s \in snaps /\ m.version <= s.version
        BY <3>2, NewestIsKept DEF Newest
      <4>2. n <= s.upTo
        BY <3>3, <4>1 DEF SnapInv
      <4>3. Tail(s.upTo)' = Tail(s.upTo)
        BY <2>2, <4>1, <4>2 DEF Tail, TypeOK
      <4>4. Content(s.key)' = Content(s.key)
        BY <1>9 DEF Prune, Content
      <4> QED
        BY <4>3, <4>4 DEF Rebuild
    <3>5. snaps' # {} /\ Newest' = Newest /\ UNCHANGED objects
      BY <1>9, <3>1 DEF Prune, Newest
    <3>6. Flushed' \subseteq Flushed
      BY <1>1, <2>2 DEF Tail
    <3> QED
      BY <3>4, <3>5, <3>6 DEF StoreCover, HasObject
  <2> QED
    BY <1>9, <2>1, <2>2 DEF Prune
<1>10. ASSUME NEW t \in Ticks, DeleteObject(t) PROVE StoreCover'
  <2>1. PICK s \in Expired(t) : objects' = {o \in objects : o.key # s.key}
    BY <1>10 DEF DeleteObject
  <2>2. NewSnapshot(t) \in snaps /\ NewSnapshot(t).version = shot[t].version
    BY <1>10 DEF DeleteObject, ShotInv, ShotFacts, NewSnapshot
  <2>3. ASSUME NEW x \in Newest PROVE x.key # s.key
    <3>1. x.version \in Nat /\ s.version \in Nat /\ shot[t].version \in Nat /\ s \in snaps /\ x \in snaps
      BY DEF Newest, Expired, TypeOK
    <3>2. shot[t].version < x.version + HistoryLimit /\ s.version + HistoryLimit < shot[t].version + 1
      BY <2>2 DEF Newest, Expired
    <3>3. s.version # x.version
      BY <3>1, <3>2, LimitAssumption
    <3> QED
      BY <3>1, <3>3 DEF SnapInv
  <2>4. UNCHANGED <<rows, snaps>>
    BY <1>10 DEF DeleteObject
  <2> QED
    BY <1>5, <2>1, <2>3, <2>4
<1>11. ASSUME NEW t \in Ticks, DeleteSnapshotRow(t) PROVE StoreCover'
  <2>1. PICK s \in Expired(t) : snaps' = snaps \ {s}
    BY <1>11 DEF DeleteSnapshotRow
  <2>2. NewSnapshot(t) \in snaps /\ NewSnapshot(t).version = shot[t].version
    BY <1>11 DEF DeleteSnapshotRow, ShotInv, ShotFacts, NewSnapshot
  <2>3. s \in snaps /\ s.version < shot[t].version /\ s.version \in Nat /\ shot[t].version \in Nat
    BY LimitAssumption DEF Expired, TypeOK
  <2>4. NewSnapshot(t) \in snaps'
    BY <2>1, <2>2, <2>3
  <2>5. Newest' \subseteq Newest
    <3> SUFFICES ASSUME NEW x \in Newest' PROVE x \in Newest
      OBVIOUS
    <3>1. x \in snaps /\ x.version \in Nat /\ \A y \in snaps' : y.version < x.version + HistoryLimit
      BY <2>1 DEF Newest, TypeOK
    <3>2. shot[t].version < x.version + HistoryLimit
      BY <2>2, <2>4, <3>1
    <3>3. s.version < x.version + HistoryLimit
      BY <2>3, <3>1, <3>2, LimitAssumption
    <3> QED
      BY <2>1, <3>1, <3>3 DEF Newest
  <2>6. UNCHANGED <<rows, objects>>
    BY <1>11 DEF DeleteSnapshotRow
  <2>7. \A x : (HasObject(x) => HasObject(x)') /\ Rebuild(x)' = Rebuild(x)
    BY <2>6 DEF HasObject, Rebuild, Content, Tail
  <2> QED
    BY <1>1, <2>4, <2>5, <2>6, <2>7 DEF StoreCover
<1>12. ASSUME NEW c \in Clients,
              \/ Connect(c) \/ (\E r \in Rooms : CreateRoom(c, r))
              \/ LoadBase(c) \/ LoadTail(c) \/ LoadFails(c)
              \/ (\E e \in Edits : Edit(c, e)) \/ Disconnect(c) \/ CloseWhileLoading(c)
       PROVE  StoreCover'
  BY <1>2, <1>12 DEF Connect, CreateRoom, LoadBase, LoadTail, LoadFails, Edit, Disconnect, CloseWhileLoading
<1>13. ASSUME NEW t \in Ticks,
              \/ TickStart(t) \/ FlushDue(t) \/ FlushNotDue(t) \/ SnapshotDue(t) \/ SnapshotNotDue(t)
              \/ EvictIdle(t) \/ StayWarm(t) \/ EvictCompact(t) \/ EvictRest(t) \/ Destroy(t)
       PROVE  StoreCover'
  BY <1>2, <1>13 DEF TickStart, FlushDue, FlushNotDue, SnapshotDue, SnapshotNotDue, EvictIdle, StayWarm,
                     EvictCompact, EvictRest, Destroy
<1>14. ASSUME NEW t \in Ticks, Write(t) \/ PrevOk(t) \/ VerifyOk(t) \/ WriteFails(t) \/ SnapshotDone(t)
       PROVE  StoreCover'
  BY <1>2, <1>14 DEF Write, PrevOk, VerifyOk, WriteFails, SnapshotDone
<1>15. CASE Crash
  BY <1>2, <1>15 DEF Crash
<1>16. CASE UNCHANGED vars
  BY <1>2, <1>16 DEF vars
<1> QED
  BY <1>4, <1>8, <1>9, <1>10, <1>11, <1>12, <1>13, <1>14, <1>15, <1>16 DEF Next, ClientNext, TickNext


(***************************************************************************)
(* The invariant and what follows from it                                  *)
(***************************************************************************)

\* The invariant holds of the empty store, with no room and no tick.
LEMMA InvInit == Init => Inv
<1> SUFFICES ASSUME Init PROVE Inv
  OBVIOUS
<1>1. TypeOK
  BY TypeInit
<1>2. TickInv /\ RoomInv /\ EvictInv
  BY NoRoomAssumption DEF Init, TickInv, RoomInv, EvictInv, Evicting, RunPC, WaitPC
<1>3. SnapInv /\ EndsInv /\ ShotInv
  BY DEF Init, SnapInv, EndsInv, ShotInv, ShotFacts
<1>4. StoreCover /\ RoomCover /\ ShotCover
  BY DEF Init, StoreCover, RoomCover, ShotCover, Flushed, Newest, WaitPC
<1> QED
  BY <1>1, <1>2, <1>3, <1>4 DEF Inv

\* Every step of an ordinary environment keeps it.
LEMMA InvStep == ASSUME Env \subseteq Ordinary, Inv, [Next]_vars PROVE Inv'
BY TypeStep, TickStep, RoomStep, EvictStep, SnapStep, EndsStep, ShotStep, StoreCoverStep,
   RoomCoverStep, ShotCoverStep DEF Inv

\* In an ordinary environment the invariant holds throughout.
THEOREM InvCorrect == ASSUME Env \subseteq Ordinary PROVE Spec => []Inv
<1>1. Init => Inv
  BY InvInit
<1>2. Inv /\ [Next]_vars => Inv'
  BY InvStep
<1> QED
  BY <1>1, <1>2, PTL DEF Spec

\* A storage that covers what was flushed rebuilds it: from the newest
\* readable snapshot, or from all rows when there is none.
LEMMA Reconstructs ==
  ASSUME TypeOK, SnapInv, StoreCover
  PROVE  Flushed \subseteq Reconstruct
<1>1. CASE Readable = {}
  BY <1>1, NewestReadable DEF Reconstruct, StoreCover
<1>2. CASE Readable # {}
  <2>1. PICK s \in snaps : IsNewest(s, snaps)
    BY <1>2 DEF SnapInv, Readable
  <2>2. s \in Newest /\ s \in Readable
    BY <2>1, NewestReadable
  <2>3. IsNewest(s, Readable)
    BY <2>1, <2>2 DEF IsNewest, Readable
  <2>4. Flushed \subseteq Rebuild(s)
    BY <2>2 DEF StoreCover
  <2> QED
    BY <1>2, <2>2, <2>3, <2>4 DEF Reconstruct
<1> QED
  BY <1>1, <1>2

\* No edit a room accepted is out of reach: storage rebuilds it, or a buffer
\* or a write under way still holds it, whatever crashes and calls fail.
THEOREM EditsAreKept == ASSUME Env \subseteq Ordinary PROVE Spec => []NoEditLost
<1>1. Inv => NoEditLost
  BY Reconstructs DEF Inv, NoEditLost, Flushed
<1> QED
  BY <1>1, InvCorrect, PTL

\* Each of the HistoryLimit newest versions has its object and yields, with
\* the rows after it, everything that was flushed.
THEOREM RetainedVersionsAreWhole ==
  ASSUME Env \subseteq Ordinary PROVE Spec => []RetainedVersionsReconstruct
<1>1. Inv => RetainedVersionsReconstruct
  BY DEF Inv, StoreCover, RetainedVersionsReconstruct, Flushed
<1> QED
  BY <1>1, InvCorrect, PTL

\* A loaded room shows every edit that is still owed: eviction, reloading and
\* restarting never serve an older document.
THEOREM WarmRoomIsComplete == ASSUME Env \subseteq Ordinary PROVE Spec => []WarmRoomShowsAll
<1>1. Inv => WarmRoomShowsAll
  BY DEF Inv, RoomCover, WarmRoomShowsAll
<1> QED
  BY <1>1, InvCorrect, PTL

\* A socket is only ever registered in the loaded room that the map holds.
THEOREM ServedRoomIsLoaded == ASSUME Env \subseteq Ordinary PROVE Spec => []ServedFromLoadedRoom
<1>1. Inv => ServedFromLoadedRoom
  BY DEF Inv, RoomInv, ServedFromLoadedRoom
<1> QED
  BY <1>1, InvCorrect, PTL

-----------------------------------------------------------------------------
(* The refinement, and what is kept from above. *)

(***************************************************************************)
(* What storage yields                                                     *)
(***************************************************************************)

\* The newest version and the rows after it, or all rows when there is none.
Yields ==
  /\ snaps = {} => Reconstruct = EditsOf(rows)
  /\ \A s : IsNewest(s, snaps) => Reconstruct = Rebuild(s)
  /\ snaps # {} => \E s \in snaps : IsNewest(s, snaps)

\* That is what the invariant makes of Reconstruct.
LEMMA YieldsHolds == Inv => Yields
<1> SUFFICES ASSUME Inv PROVE Yields
  OBVIOUS
<1>1. TypeOK /\ SnapInv /\ StoreCover
  BY DEF Inv
<1>2. snaps = {} => Reconstruct = EditsOf(rows)
  BY DEF Reconstruct, Readable
<1>3. ASSUME NEW s, IsNewest(s, snaps) PROVE Reconstruct = Rebuild(s)
  <2>1. s \in snaps /\ s \in Readable
    BY <1>1, <1>3, NewestReadable DEF IsNewest
  <2>2. IsNewest(s, Readable)
    BY <1>3, <2>1 DEF IsNewest, Readable
  <2>3. ASSUME NEW x \in Readable, IsNewest(x, Readable) PROVE x = s
    <3>1. IsNewest(x, snaps) /\ x \in snaps
      BY <1>1, <2>3, NewestReadable DEF Readable
    <3>2. x.version \in Nat /\ s.version \in Nat
      BY <1>1, <2>1, <3>1, BoundAssumption DEF TypeOK
    <3>3. x.version = s.version
      BY <1>3, <2>1, <3>1, <3>2 DEF IsNewest
    <3> QED
      BY <1>1, <2>1, <3>1, <3>3 DEF SnapInv
  <2>4. {x \in Readable : IsNewest(x, Readable)} = {s}
    BY <2>1, <2>2, <2>3
  <2> QED
    BY <2>1, <2>4 DEF Reconstruct
<1> QED
  BY <1>1, <1>2, <1>3 DEF Yields, SnapInv

\* A step that keeps the newest version, its object and its tail keeps what
\* storage yields.
LEMMA SameNewest ==
  ASSUME Yields, Yields', NEW s, IsNewest(s, snaps), IsNewest(s, snaps)', Rebuild(s)' = Rebuild(s)
  PROVE  Reconstruct' = Reconstruct
BY DEF Yields

\* The rows are part of it, since the newest version includes those it covers.
LEMMA RowsAreStored ==
  ASSUME Inv, SnapshotIncludesItsRows
  PROVE  EditsOf(rows) \subseteq Reconstruct
<1>1. Yields
  BY YieldsHolds
<1>2. CASE snaps = {}
  BY <1>1, <1>2 DEF Yields
<1>3. CASE snaps # {}
  <2>1. PICK s \in snaps : IsNewest(s, snaps)
    BY <1>1, <1>3 DEF Yields
  <2>2. HasObject(s)
    BY <2>1, NewestReadable DEF Inv, Readable, HasObject
  <2>3. ASSUME NEW r \in rows PROVE r.upd \subseteq Rebuild(s)
    <3>1. r.id \in Nat /\ s.upTo \in Nat
      BY BoundAssumption DEF Inv, TypeOK
    <3>2. CASE r.id <= s.upTo
      BY <2>2, <3>2 DEF SnapshotIncludesItsRows, Rebuild
    <3>3. CASE r.id > s.upTo
      BY <3>3 DEF Rebuild, Tail, EditsOf
    <3> QED
      BY <3>1, <3>2, <3>3
  <2>4. Reconstruct = Rebuild(s)
    BY <1>1, <2>1 DEF Yields
  <2> QED
    BY <2>3, <2>4 DEF EditsOf
<1> QED
  BY <1>2, <1>3

\* A new row adds what it holds: it lies after every version.
LEMMA RowAdds ==
  ASSUME Inv, Inv', UNCHANGED <<snaps, objects>>, NEW new, rows' = rows \cup {new}, new.id = nextRow
  PROVE  Reconstruct' = Reconstruct \cup new.upd
<1>1. Yields /\ Yields'
  BY YieldsHolds, PTL
<1>2. EditsOf(rows)' = EditsOf(rows) \cup new.upd
  BY DEF EditsOf
<1>3. ASSUME NEW s \in snaps PROVE Rebuild(s)' = Rebuild(s) \cup new.upd
  <2>1. s.upTo < nextRow /\ s.upTo \in Nat /\ nextRow \in Nat
    BY BoundAssumption DEF Inv, SnapInv, TypeOK
  <2>2. Tail(s.upTo)' = Tail(s.upTo) \cup {new}
    BY <2>1 DEF Tail
  <2>3. Content(s.key)' = Content(s.key)
    BY DEF Content
  <2> QED
    BY <2>2, <2>3 DEF Rebuild, EditsOf
<1>4. CASE snaps = {}
  BY <1>1, <1>2, <1>4 DEF Yields
<1>5. CASE snaps # {}
  <2>1. PICK s \in snaps : IsNewest(s, snaps)
    BY <1>1, <1>5 DEF Yields
  <2>2. IsNewest(s, snaps)'
    BY <2>1 DEF IsNewest
  <2>3. Reconstruct = Rebuild(s) /\ Reconstruct' = Rebuild(s)'
    BY <1>1, <2>1, <2>2 DEF Yields
  <2> QED
    BY <1>3, <2>1, <2>3
<1> QED
  BY <1>4, <1>5

\* Writing or deleting an object of no version, or of none but an old one,
\* changes nothing.
LEMMA ObjectKeeps ==
  ASSUME Inv, Inv', UNCHANGED <<rows, snaps>>, NEW k,
         \A s : IsNewest(s, snaps) => s.key # k,
         \/ objects' = {o \in objects : o.key # k}
         \/ \E new : new.key = k /\ objects' = {o \in objects : o.key # k} \cup {new}
  PROVE  Reconstruct' = Reconstruct
<1>1. Yields /\ Yields'
  BY YieldsHolds, PTL
<1>2. CASE snaps = {}
  BY <1>1, <1>2 DEF Yields, EditsOf
<1>3. CASE snaps # {}
  <2>1. PICK s \in snaps : IsNewest(s, snaps)
    BY <1>1, <1>3 DEF Yields
  <2>2. IsNewest(s, snaps)' /\ Tail(s.upTo)' = Tail(s.upTo)
    BY <2>1 DEF IsNewest, Tail
  <2>3. Content(s.key)' = Content(s.key)
    BY <2>1, OtherKeys
  <2>4. Rebuild(s)' = Rebuild(s)
    BY <2>2, <2>3 DEF Rebuild
  <2> QED
    BY <1>1, <2>1, <2>2, <2>4, SameNewest
<1> QED
  BY <1>2, <1>3

\* The version under compaction has no object that anything is read from.
LEMMA PutKey ==
  ASSUME Inv, NEW t \in Ticks, pc[t] = "put"
  PROVE  \A s \in snaps : s.key # Key(t)
<1>1. \A s \in snaps : s.version < shot[t].version /\ s.key[1] = s.version /\ s.version \in Nat
  BY BoundAssumption DEF Inv, ShotInv, ShotFacts, SnapInv, TypeOK
<1>2. shot[t].version \in Nat /\ Key(t)[1] = shot[t].version
  BY BoundAssumption DEF Inv, TypeOK, Key
<1> QED
  BY <1>1, <1>2

\* A recorded version is the newest and holds what the compaction captured.
LEMMA RecordYields ==
  ASSUME Inv, Inv', StoredInv, NEW t \in Ticks, pc[t] = "record", UNCHANGED <<rows, objects>>,
         snaps' = snaps \cup {NewSnapshot(t)}
  PROVE  Reconstruct' = shot[t].upd
<1>0. PICK n : n = NewSnapshot(t)
  OBVIOUS
<1>1. Yields'
  BY YieldsHolds, PTL
<1>2. n.version = shot[t].version /\ n.key = Key(t)
  BY <1>0 DEF NewSnapshot
<1>3. \A s \in snaps : s.version < n.version /\ s.version \in Nat /\ n.version \in Nat
  BY <1>2, BoundAssumption DEF Inv, ShotInv, ShotFacts, TypeOK
<1>4. IsNewest(n, snaps')
  BY <1>0, <1>2, <1>3 DEF IsNewest, Inv, TypeOK
<1>5. Content(n.key)' = shot[t].upd
  BY <1>2 DEF StoredInv, CapturedInv, Content
<1>6. EditsOf(rows) \subseteq shot[t].upd
  BY RowsAreStored DEF StoredInv, CapturedInv
<1>7. EditsOf(Tail(n.upTo))' \subseteq EditsOf(rows)
  BY DEF Tail, EditsOf
<1>8. Reconstruct' = Content(n.key)' \cup EditsOf(Tail(n.upTo))'
  <2>1. IsNewest(n, snaps)'
    BY <1>4 DEF IsNewest
  <2> QED
    BY <1>1, <2>1 DEF Yields, Rebuild
<1> QED
  BY <1>5, <1>6, <1>7, <1>8

\* The log is cut at or below where the newest version ends.
LEMMA PruneKeeps ==
  ASSUME Inv, Inv', NEW t \in Ticks, Prune(t)
  PROVE  Reconstruct' = Reconstruct
<1>0. PICK s : s = NewSnapshot(t)
  OBVIOUS
<1>1. Yields /\ Yields'
  BY YieldsHolds, PTL
<1>2. s \in snaps /\ IsNewest(s, snaps) /\ s.upTo = shot[t].upTo
  BY <1>0 DEF Prune, Inv, ShotInv, ShotFacts, NewSnapshot
<1>3. Tail(s.upTo)' = Tail(s.upTo)
  <2>1. CASE UNCHANGED rows
    BY <2>1, <1>2 DEF Tail
  <2>2. ASSUME NEW n \in 0 .. MaxRow, Cutoff(t, n), rows' = Tail(n) PROVE Tail(s.upTo)' = Tail(s.upTo)
    <3>1. n <= s.upTo
      <4>1. PICK m \in Kept : n = IF m.version >= shot[t].version THEN shot[t].upTo ELSE m.upTo
        BY <2>2 DEF Cutoff
      <4>2. m \in snaps /\ m.version <= s.version
        BY <1>2, <4>1 DEF Kept, IsNewest
      <4>3. m.upTo <= s.upTo /\ s.upTo \in Nat
        BY <1>2, <4>2, BoundAssumption DEF Inv, SnapInv, TypeOK
      <4> QED
        BY <1>2, <4>1, <4>3
    <3>2. s.upTo \in Nat /\ \A r \in rows : r.id \in Nat
      BY <1>2, BoundAssumption DEF Inv, TypeOK
    <3>3. Tail(s.upTo)' = {r \in Tail(n) : r.id > s.upTo}
      BY <1>2, <2>2 DEF Tail, Prune, NewSnapshot
    <3> QED
      BY <1>2, <2>2, <3>1, <3>2, <3>3 DEF Tail
  <2> QED
    BY <2>1, <2>2 DEF Prune
<1>5. Content(s.key)' = Content(s.key) /\ IsNewest(s, snaps)'
  BY <1>2 DEF Prune, Content, IsNewest
<1> QED
  BY <1>1, <1>2, <1>3, <1>5 DEF Yields, Rebuild

\* Expiry touches only versions older than the newest.
LEMMA ExpiryKeeps ==
  ASSUME Inv, Inv', NEW t \in Ticks, DeleteObject(t) \/ DeleteSnapshotRow(t)
  PROVE  Reconstruct' = Reconstruct
<1>0. PICK n : n = NewSnapshot(t)
  OBVIOUS
<1>1. n \in snaps /\ IsNewest(n, snaps) /\ n.version = shot[t].version
  BY <1>0 DEF DeleteObject, DeleteSnapshotRow, Inv, ShotInv, ShotFacts, NewSnapshot
<1>2. \A s \in Expired(t) : s \in snaps /\ s.version < n.version /\ s.version \in Nat /\ n.version \in Nat
  BY <1>1, LimitAssumption, BoundAssumption DEF Expired, Inv, TypeOK
<1>3. CASE DeleteObject(t)
  <2>1. PICK s \in Expired(t) : objects' = {o \in objects : o.key # s.key}
    BY <1>3 DEF DeleteObject
  <2>2. ASSUME NEW x, IsNewest(x, snaps) PROVE x.key # s.key
    <3>1. x \in snaps /\ n.version <= x.version /\ x.version \in Nat
      BY <1>1, <2>2, BoundAssumption DEF IsNewest, Inv, TypeOK
    <3>2. s.key[1] = s.version /\ x.key[1] = x.version /\ s.version # x.version
      BY <1>2, <3>1 DEF Inv, SnapInv
    <3> QED
      BY <3>2
  <2>3. UNCHANGED <<rows, snaps>>
    BY <1>3 DEF DeleteObject
  <2> QED
    BY <2>1, <2>2, <2>3, ObjectKeeps
<1>4. CASE DeleteSnapshotRow(t)
  <2>1. PICK s \in Expired(t) : snaps' = snaps \ {s}
    BY <1>4 DEF DeleteSnapshotRow
  <2>2. n \in snaps' /\ IsNewest(n, snaps')
    BY <1>1, <1>2, <2>1 DEF IsNewest
  <2>3. Reconstruct = Rebuild(n)
    BY <1>1, YieldsHolds DEF Yields
  <2>4. Reconstruct' = Content(n.key)' \cup EditsOf(Tail(n.upTo))'
    <3>1. Yields'
      BY YieldsHolds, PTL
    <3> QED
      BY <3>1, <2>2 DEF Yields, IsNewest, Rebuild
  <2> QED
    BY <1>4, <2>3, <2>4 DEF DeleteSnapshotRow, Rebuild, Content, Tail, EditsOf
<1> QED
  BY <1>3, <1>4

\* A step that leaves storage alone leaves what it yields.
LEMMA StoreFrame ==
  ASSUME UNCHANGED <<rows, snaps, objects>> PROVE Reconstruct' = Reconstruct
BY DEF Reconstruct, Readable, Rebuild, Content, Tail, EditsOf, IsNewest

\* An insert that commits adds the entries of its flush, reported or not.
LEMMA CreateAdds ==
  ASSUME Inv, Inv', NEW t \in Ticks
  PROVE  /\ CreateOk(t) => Reconstruct' = Reconstruct \cup entries[t]
         /\ CreateFails(t) => Reconstruct' = Reconstruct \/ Reconstruct' = Reconstruct \cup entries[t]
<1>1. PICK new : new = [id |-> nextRow, upd |-> entries[t]]
  OBVIOUS
<1>2. new.id = nextRow /\ new.upd = entries[t]
  BY <1>1
<1>3. ASSUME CreateOk(t) PROVE Reconstruct' = Reconstruct \cup entries[t]
  <2>1. UNCHANGED <<snaps, objects>> /\ rows' = rows \cup {new}
    BY <1>1, <1>3 DEF CreateOk
  <2> QED
    BY <1>2, <2>1, RowAdds
<1>4. ASSUME CreateFails(t) PROVE Reconstruct' = Reconstruct \/ Reconstruct' = Reconstruct \cup entries[t]
  <2>1. UNCHANGED <<snaps, objects>> /\ (UNCHANGED rows \/ rows' = rows \cup {new})
    BY <1>1, <1>4 DEF CreateFails
  <2> QED
    BY <1>2, <2>1, RowAdds, StoreFrame
<1> QED
  BY <1>3, <1>4

\* Only a flush and a new version change what storage yields.
LEMMA StoreStep ==
  ASSUME Inv, Inv', StoredInv, [Next]_vars
  PROVE  \/ Reconstruct' = Reconstruct
         \/ \E t \in Ticks : (CreateOk(t) \/ CreateFails(t)) /\ Reconstruct' = Reconstruct \cup entries[t]
         \/ \E t \in Ticks : /\ RecordOk(t) \/ WriteLosesReply(t)
                             /\ pc[t] = "record" /\ Reconstruct' = shot[t].upd
<1> USE DEF store, room, sockets, tick, history
<1>3. ASSUME NEW t \in Ticks, pc[t] = "put", UNCHANGED <<rows, snaps>>,
             objects' = {o \in objects : o.key # Key(t)} \cup {[key |-> Key(t), upd |-> shot[t].upd]}
      PROVE  Reconstruct' = Reconstruct
  <2>1. \A s : IsNewest(s, snaps) => s.key # Key(t)
    BY <1>3, PutKey DEF IsNewest
  <2>2. \E new : new.key = Key(t) /\ objects' = {o \in objects : o.key # Key(t)} \cup {new}
    BY <1>3
  <2> QED
    BY <1>3, <2>1, <2>2, ObjectKeeps
<1>4. ASSUME NEW t \in Ticks, RecordOk(t) \/ WriteLosesReply(t), pc[t] = "record"
      PROVE  Reconstruct' = shot[t].upd
  <2>1. UNCHANGED <<rows, objects>> /\ snaps' = snaps \cup {NewSnapshot(t)}
    BY <1>4 DEF RecordOk, WriteLosesReply
  <2> QED
    BY <1>4, <2>1, RecordYields
<1>5. ASSUME NEW t \in Ticks, PutOk(t) \/ (WriteLosesReply(t) /\ pc[t] = "put") PROVE Reconstruct' = Reconstruct
  BY <1>3, <1>5 DEF PutOk, WriteLosesReply
<1>6. ASSUME NEW t \in Ticks, RecordOk(t) \/ WriteLosesReply(t) PROVE pc[t] = "record" \/ pc[t] = "put"
  BY <1>6 DEF RecordOk, WriteLosesReply
<1>7. ASSUME NEW t \in Ticks, RecordOk(t) PROVE pc[t] = "record"
  BY <1>7 DEF RecordOk
<1>8. ASSUME NEW t \in Ticks, Prune(t) \/ DeleteObject(t) \/ DeleteSnapshotRow(t) PROVE Reconstruct' = Reconstruct
  BY <1>8, PruneKeeps, ExpiryKeeps
<1>9. ASSUME NEW c \in Clients,
             \/ Connect(c) \/ (\E r \in Rooms : CreateRoom(c, r))
             \/ LoadBase(c) \/ LoadTail(c) \/ LoadFails(c)
             \/ (\E e \in Edits : Edit(c, e)) \/ Disconnect(c) \/ CloseWhileLoading(c)
      PROVE  Reconstruct' = Reconstruct
  BY StoreFrame, <1>9 DEF Connect, CreateRoom, LoadBase, LoadTail, LoadFails, Edit, Disconnect, CloseWhileLoading
<1>10. ASSUME NEW t \in Ticks,
              \/ TickStart(t) \/ FlushDue(t) \/ FlushNotDue(t) \/ SnapshotDue(t) \/ SnapshotNotDue(t)
              \/ EvictIdle(t) \/ StayWarm(t) \/ EvictCompact(t) \/ EvictRest(t) \/ Destroy(t)
       PROVE  Reconstruct' = Reconstruct
  BY StoreFrame, <1>10 DEF TickStart, FlushDue, FlushNotDue, SnapshotDue, SnapshotNotDue, EvictIdle, StayWarm,
                     EvictCompact, EvictRest, Destroy
<1>11. ASSUME NEW t \in Ticks, Write(t) \/ PrevOk(t) \/ VerifyOk(t) \/ WriteFails(t) \/ SnapshotDone(t)
       PROVE  Reconstruct' = Reconstruct
  BY StoreFrame, <1>11 DEF Write, PrevOk, VerifyOk, WriteFails, SnapshotDone
<1>12. CASE Crash
  BY StoreFrame, <1>12 DEF Crash
<1>13. CASE UNCHANGED vars
  BY StoreFrame, <1>13 DEF vars
<1> QED
  BY CreateAdds, <1>4, <1>5, <1>6, <1>7, <1>8, <1>9, <1>10, <1>11, <1>12, <1>13 DEF Next, ClientNext, TickNext

(***************************************************************************)
(* What is pending                                                         *)
(***************************************************************************)

\* Nothing is pending unless a loaded room is in the map.
LEMMA NothingPending ==
  ASSUME TypeOK, TickInv, RoomInv, ~Serving
  PROVE  Pending = {}
<1>1. \A r \in Rooms : buffer[r] = {}
  BY NoRoomAssumption DEF RoomInv, Serving
<1>2. \A t \in Ticks : entries[t] = {}
  BY DEF TickInv, WaitPC, Serving
<1> QED
  BY <1>1, <1>2, PendingElement

\* Taking the buffer for a flush moves the edits from one place to the other.
LEMMA FlushKeepsPending ==
  ASSUME TypeOK, TickInv, NEW t \in Ticks, pc[t] # "create", NEW r \in Rooms, NEW next,
         FlushUpdates(t, r, next), UNCHANGED destroyed
  PROVE  Pending' = Pending
<1>1. CASE UNCHANGED <<entries, buffer>>
  BY <1>1, PendingFrame
<1>2. CASE Leads(r) /\ entries' = [entries EXCEPT ![t] = buffer[r]] /\ buffer' = [buffer EXCEPT ![r] = {}]
  <2>1. \A u \in Ticks : entries'[u] \subseteq entries[u] \cup buffer[r]
    BY <1>2 DEF TypeOK
  <2>2. \A x \in Rooms : buffer'[x] \subseteq buffer[x]
    BY <1>2 DEF TypeOK
  <2>3. ASSUME NEW e \in Pending' PROVE e \in Pending
    BY <1>2, <2>1, <2>2, <2>3, PendingElement DEF Leads
  <2> QED
    BY <2>3, FlushPending
<1> QED
  BY <1>1, <1>2 DEF FlushUpdates

\* An edit becomes pending.
LEMMA EditPending ==
  ASSUME TypeOK, RoomInv, NEW c \in Clients, NEW e \in Edits, Edit(c, e)
  PROVE  Pending' = Pending \cup {e}
<1> DEFINE r == conn[c]
<1>1. r \in Rooms /\ Leads(r)
  BY DEF Edit, RoomInv, TypeOK, Leads
<1>2. buffer'[r] = buffer[r] \cup {e} /\ \A x \in Rooms : x # r => buffer'[x] = buffer[x]
  BY <1>1 DEF Edit, TypeOK
<1>3. UNCHANGED <<destroyed, entries>>
  BY DEF Edit, room, tick
<1>4. \A x : x \in Pending' <=> x \in Pending \cup {e}
  BY <1>1, <1>2, <1>3, PendingElement DEF Leads
<1> QED
  BY <1>4

\* The entries that were inserted are no longer pending.
LEMMA CreateOkPending ==
  ASSUME TypeOK, NEW t \in Ticks, CreateOk(t)
  PROVE  Pending' \subseteq Pending /\ Pending \subseteq Pending' \cup entries[t]
<1>1. UNCHANGED <<destroyed, buffer>> /\ entries' = [entries EXCEPT ![t] = {}]
  BY DEF CreateOk
<1>2. \A u \in Ticks : entries'[u] \subseteq entries[u] /\ entries[u] \subseteq entries'[u] \cup entries[t]
  BY <1>1 DEF TypeOK
<1>3. \A x : (x \in Pending' => x \in Pending) /\ (x \in Pending => x \in Pending' \cup entries[t])
  BY <1>1, <1>2, PendingElement DEF Leads
<1> QED
  BY <1>3

\* Those whose insert failed go back to the buffer.
LEMMA CreateFailsPending ==
  ASSUME TypeOK, TickInv, RoomInv, NEW t \in Ticks, CreateFails(t)
  PROVE  Pending' = Pending
<1> USE NoRoomAssumption
<1>1. on[t] \in Rooms /\ Leads(on[t])
  BY DEF CreateFails, TickInv, RoomInv, TypeOK, Leads
<1>2. /\ buffer' = [buffer EXCEPT ![on[t]] = entries[t] \cup @]
      /\ entries' = [entries EXCEPT ![t] = {}]
      /\ UNCHANGED destroyed
  BY DEF CreateFails
<1>3. /\ buffer'[on[t]] = entries[t] \cup buffer[on[t]]
      /\ \A x \in Rooms : x # on[t] => buffer'[x] = buffer[x]
  BY <1>1, <1>2 DEF TypeOK
<1>4. entries'[t] = {} /\ \A u \in Ticks : u # t => entries'[u] = entries[u]
  BY <1>2 DEF TypeOK
<1>5. \A e : e \in Pending' <=> e \in Pending
  BY <1>1, <1>2, <1>3, <1>4, PendingElement DEF Leads
<1> QED
  BY <1>5

\* A crash leaves nothing pending.
LEMMA CrashPending == Crash => Pending' = {}
<1> SUFFICES ASSUME Crash PROVE Pending' = {}
  OBVIOUS
<1>1. (\A r \in Rooms : buffer'[r] = {}) /\ (\A t \in Ticks : entries'[t] = {})
  BY DEF Crash
<1> QED
  BY <1>1, PendingElement

\* No other step changes the pending edits.
LEMMA PendingStep ==
  ASSUME Env \subseteq Ordinary, Inv, [Next]_vars, ~Crash,
         \A c \in Clients, e \in Edits : ~Edit(c, e), \A t \in Ticks : ~CreateOk(t)
  PROVE  Pending' = Pending
<1> USE NoRoomAssumption DEF store, room, sockets, tick, history
<1>0. TypeOK /\ TickInv /\ RoomInv /\ EvictInv
  BY DEF Inv
<1>1. ASSUME NEW c \in Clients, NEW r \in Rooms, CreateRoom(c, r) PROVE Pending' = Pending
  <2>1. \A x \in Rooms : buffer[x] = {} /\ buffer'[x] = {}
    BY <1>0, <1>1 DEF CreateRoom, RoomInv, TypeOK
  <2>2. UNCHANGED entries
    BY <1>1 DEF CreateRoom
  <2>3. \A e : e \in Pending' <=> e \in Pending
    BY <2>1, <2>2, PendingElement
  <2> QED
    BY <2>3
<1>5. ASSUME NEW t \in Ticks, Destroy(t) PROVE Pending' = Pending
  <2>1. on[t] = current /\ buffer[current] = {}
    BY <1>0, <1>5 DEF Destroy, TickInv, EvictInv
  <2>2. destroyed' = destroyed \cup {current} /\ UNCHANGED <<buffer, entries>>
    BY <1>5, <2>1 DEF Destroy
  <2>3. \A e : e \in Pending' <=> e \in Pending
    BY <2>1, <2>2, PendingElement DEF Leads
  <2> QED
    BY <2>3
<1>7. ASSUME NEW t \in Ticks, FlushDue(t) \/ SnapshotDue(t) \/ EvictIdle(t) \/ EvictCompact(t) \/ EvictRest(t)
      PROVE  Pending' = Pending
  <2>1. pc[t] # "create" /\ on[t] \in Rooms /\ UNCHANGED destroyed
    BY <1>0, <1>7 DEF FlushDue, SnapshotDue, EvictIdle, EvictCompact, EvictRest, TypeOK
  <2>2. CASE UNCHANGED <<entries, buffer>>
    BY <2>1, <2>2, PendingFrame
  <2>3. CASE \E r \in Rooms : \E next : FlushUpdates(t, r, next)
    BY <1>0, <2>1, <2>3, FlushKeepsPending
  <2> QED
    BY <1>0, <1>7, <2>1, <2>2, <2>3
    DEF FlushDue, SnapshotDue, EvictIdle, EvictCompact, EvictRest, MaybeSnapshot, TypeOK
<1>8. ASSUME NEW c \in Clients,
             \/ Connect(c) \/ LoadBase(c) \/ LoadTail(c) \/ LoadFails(c)
             \/ Disconnect(c) \/ CloseWhileLoading(c)
      PROVE  Pending' = Pending
  BY <1>8, PendingFrame DEF Connect, LoadBase, LoadTail, LoadFails, Disconnect, CloseWhileLoading
<1>9. ASSUME NEW t \in Ticks,
             \/ TickStart(t) \/ FlushNotDue(t) \/ SnapshotNotDue(t) \/ StayWarm(t)
             \/ Write(t) \/ PrevOk(t) \/ PutOk(t) \/ VerifyOk(t) \/ RecordOk(t)
             \/ WriteFails(t) \/ WriteLosesReply(t)
             \/ Prune(t) \/ DeleteObject(t) \/ DeleteSnapshotRow(t) \/ SnapshotDone(t)
      PROVE  Pending' = Pending
  BY <1>9, PendingFrame
  DEF TickStart, FlushNotDue, SnapshotNotDue, StayWarm, Write, PrevOk, PutOk, VerifyOk, RecordOk,
      WriteFails, WriteLosesReply, Prune, DeleteObject, DeleteSnapshotRow, SnapshotDone
<1>10. CASE UNCHANGED vars
  BY <1>10, PendingFrame DEF vars
<1> QED
  BY <1>0, <1>1, <1>5, <1>7, <1>8, <1>9, <1>10, CreateFailsPending DEF Next, ClientNext, TickNext

\* Nothing stored is lost, and what is stored or pending grows by an edit and
\* shrinks by a crash only.
LEMMA KnownStep ==
  ASSUME Env \subseteq Ordinary, Inv, Inv', StoredInv, [Next]_vars
  PROVE  /\ Reconstruct \subseteq Reconstruct'
         /\ \/ (Reconstruct \cup Pending)' = Reconstruct \cup Pending
            \/ \E c \in Clients, e \in Edits :
                 Edit(c, e) /\ Reconstruct' = Reconstruct /\ Pending' = Pending \cup {e}
            \/ Crash /\ Reconstruct' = Reconstruct /\ Pending' = {}
<1> USE DEF store, room, sockets, tick, history
<1>1. ASSUME NEW t \in Ticks, RecordOk(t) \/ WriteLosesReply(t), pc[t] = "record", Reconstruct' = shot[t].upd
      PROVE  Pending' = Pending /\ Reconstruct \subseteq Reconstruct' /\ Reconstruct' \subseteq Reconstruct \cup Pending
  <2>1. current # NoRoom /\ phase[current] = "warm"
    BY <1>1 DEF Inv, TickInv, WaitPC
  <2>2. doc[current] = Reconstruct \cup Pending
    BY <2>1 DEF StoredInv, ShownInv
  <2>3. Reconstruct \subseteq shot[t].upd /\ shot[t].upd \subseteq doc[current]
    BY <1>1 DEF StoredInv, CapturedInv
  <2>4. Pending' = Pending
    BY <1>1, PendingFrame DEF RecordOk, WriteLosesReply
  <2> QED
    BY <1>1, <2>2, <2>3, <2>4
<1>2. TypeOK /\ TickInv /\ RoomInv /\ \A t \in Ticks : entries[t] \subseteq Pending
  BY PendingElement DEF Inv
<1>3. CASE \E t \in Ticks : CreateOk(t)
  BY <1>2, <1>3, CreateAdds, CreateOkPending
<1>4. CASE \E t \in Ticks : CreateFails(t)
  BY <1>2, <1>4, CreateAdds, CreateFailsPending
<1>5. CASE \E c \in Clients, e \in Edits : Edit(c, e)
  <2>1. PICK c \in Clients, e \in Edits : Edit(c, e)
    BY <1>5
  <2>2. Reconstruct' = Reconstruct
    BY <2>1, StoreFrame DEF Edit
  <2> QED
    BY <1>2, <2>1, <2>2, EditPending
<1>6. CASE Crash
  <2>1. Reconstruct' = Reconstruct
    BY <1>6, StoreFrame DEF Crash
  <2> QED
    BY <1>6, <2>1, CrashPending
<1>7. CASE /\ ~Crash
           /\ \A c \in Clients, e \in Edits : ~Edit(c, e)
           /\ \A t \in Ticks : ~CreateOk(t) /\ ~CreateFails(t)
  <2>1. Pending' = Pending
    BY <1>7, PendingStep
  <2>2. CASE Reconstruct' = Reconstruct
    BY <2>1, <2>2
  <2>3. CASE \E t \in Ticks : /\ RecordOk(t) \/ WriteLosesReply(t)
                              /\ pc[t] = "record" /\ Reconstruct' = shot[t].upd
    BY <1>1, <2>1, <2>3
  <2> QED
    BY <1>7, <2>2, <2>3, StoreStep
<1> QED
  BY <1>3, <1>4, <1>5, <1>6, <1>7

(***************************************************************************)
(* RowsInv                                                                 *)
(***************************************************************************)

\* A step that brings no row, and after which the room and what is pending are as before.
LEMMA RoomRowsFrame ==
  ASSUME RoomHasRows, UNCHANGED <<current, phase, doc, base>>, rows' \subseteq rows, Pending' \subseteq Pending
  PROVE  RoomHasRows'
<1>1. EditsOf(rows') \subseteq EditsOf(rows)
  BY DEF EditsOf
<1> QED
  BY <1>1 DEF RoomHasRows, Serving

\* A room goes on showing every row.
LEMMA RoomRowsStep ==
  ASSUME Env \subseteq Ordinary, Inv, RowsInv, [Next]_vars
  PROVE  RoomHasRows'
<1> USE NoRoomAssumption DEF store, room, sockets, tick, history
<1>0. TypeOK /\ TickInv /\ RoomInv /\ RoomHasRows /\ SnapshotIncludesItsRows
  BY DEF Inv, RowsInv
<1>1. ASSUME ~Crash, \A c \in Clients, e \in Edits : ~Edit(c, e), \A t \in Ticks : ~CreateOk(t)
      PROVE  Pending' = Pending
  BY <1>1, PendingStep
<1>2. ASSUME NEW c \in Clients, NEW r \in Rooms, CreateRoom(c, r) PROVE RoomHasRows'
  <2>1. current' = r /\ phase'[r] = "loading"
    BY <1>0, <1>2 DEF CreateRoom, TypeOK
  <2> QED
    BY <2>1 DEF RoomHasRows, Serving
<1>3. ASSUME NEW c \in Clients, LoadBase(c) PROVE RoomHasRows'
  <2>1. joining[c] = current /\ current \in Rooms /\ phase[current] = "loading"
    <3>1. joining[c] = current /\ joining[c] # NoRoom /\ phase[joining[c]] = "loading"
      BY <1>0, <1>3 DEF LoadBase, RoomInv
    <3> QED
      BY <1>0, <3>1 DEF TypeOK
  <2>2. phase'[current] = "tail" /\ UNCHANGED <<current, rows>>
    BY <1>0, <1>3, <2>1 DEF LoadBase, TypeOK
  <2>3. \A x \in rows : x.id <= base'[current].upTo => x.upd \subseteq doc'[current]
    <3>1. CASE base' = [base EXCEPT ![current] = [upTo |-> 0, found |-> FALSE, listed |-> snaps # {}]]
      <4>1. base'[current].upTo = 0
        BY <1>0, <2>1, <3>1 DEF TypeOK
      <4>2. \A x \in rows : ~(x.id <= 0)
        BY <1>0, BoundAssumption DEF TypeOK
      <4> QED
        BY <4>1, <4>2
    <3>2. ASSUME NEW s \in Readable,
                 base' = [base EXCEPT ![current] = [upTo |-> s.upTo, found |-> TRUE, listed |-> TRUE]],
                 doc' = [doc EXCEPT ![current] = @ \cup Content(s.key)]
          PROVE  \A x \in rows : x.id <= base'[current].upTo => x.upd \subseteq doc'[current]
      <4>1. base'[current].upTo = s.upTo /\ Content(s.key) \subseteq doc'[current]
        BY <1>0, <2>1, <3>2 DEF TypeOK
      <4>2. s \in snaps /\ HasObject(s)
        BY DEF Readable, HasObject
      <4> QED
        BY <1>0, <4>1, <4>2 DEF SnapshotIncludesItsRows
    <3>3. PICK readable \in ReadableNow :
            \/ base' = [base EXCEPT ![current] = [upTo |-> 0, found |-> FALSE, listed |-> snaps # {}]]
            \/ \E s \in readable :
                 /\ base' = [base EXCEPT ![current] = [upTo |-> s.upTo, found |-> TRUE, listed |-> TRUE]]
                 /\ doc' = [doc EXCEPT ![current] = @ \cup Content(s.key)]
      BY <1>3, <2>1 DEF LoadBase
    <3>4. readable \subseteq Readable
      BY DEF ReadableNow
    <3> QED
      BY <3>1, <3>2, <3>3, <3>4
  <2> QED
    BY <2>2, <2>3 DEF RoomHasRows, Serving
<1>4. ASSUME NEW c \in Clients, LoadTail(c) PROVE RoomHasRows'
  <2>1. joining[c] = current /\ current \in Rooms /\ current # NoRoom /\ phase[current] = "tail"
    <3>1. joining[c] = current /\ joining[c] # NoRoom /\ phase[joining[c]] = "tail"
      BY <1>0, <1>4 DEF LoadTail, RoomInv
    <3> QED
      BY <1>0, <3>1 DEF TypeOK
  <2>2. /\ phase'[current] = "warm" /\ UNCHANGED <<current, rows>>
        /\ doc'[current] = doc[current] \cup EditsOf(Tail(base[current].upTo))
    BY <1>0, <1>4, <2>1 DEF LoadTail, TypeOK
  <2>3. Pending = {} /\ Pending' = Pending
    BY <1>0, <1>4, <2>1, NothingPending, PendingFrame DEF Serving, LoadTail
  <2>4. ASSUME NEW x \in rows PROVE x.upd \subseteq doc'[current]
    <3>1. x.id \in Nat /\ base[current].upTo \in Nat
      BY <1>0, <2>1, BoundAssumption DEF TypeOK
    <3>2. CASE x.id <= base[current].upTo
      BY <1>0, <2>1, <2>2, <3>2 DEF RoomHasRows
    <3>3. CASE x.id > base[current].upTo
      BY <2>2, <3>3 DEF Tail, EditsOf
    <3> QED
      BY <3>1, <3>2, <3>3
  <2>5. EditsOf(rows) \subseteq doc'[current]
    BY <2>4 DEF EditsOf
  <2> QED
    BY <2>2, <2>3, <2>5 DEF RoomHasRows
<1>5. ASSUME NEW c \in Clients, LoadFails(c) PROVE RoomHasRows'
  <2>1. joining[c] = current /\ current \in Rooms
    BY <1>0, <1>5 DEF LoadFails, RoomInv, TypeOK
  <2>2. phase'[current] = "failed" /\ UNCHANGED current
    BY <1>0, <1>5, <2>1 DEF LoadFails, TypeOK
  <2> QED
    BY <2>2 DEF RoomHasRows, Serving
<1>6. ASSUME NEW c \in Clients, NEW e \in Edits, Edit(c, e) PROVE RoomHasRows'
  <2>1. conn[c] = current /\ current \in Rooms /\ current # NoRoom /\ phase[current] = "warm"
    BY <1>0, <1>6 DEF Edit, RoomInv, TypeOK
  <2>2. doc'[current] = doc[current] \cup {e} /\ UNCHANGED <<current, phase, rows>>
    BY <1>0, <1>6, <2>1 DEF Edit, TypeOK
  <2>3. Pending' = Pending \cup {e}
    BY <1>0, <1>6, EditPending
  <2> QED
    BY <1>0, <2>1, <2>2, <2>3 DEF RoomHasRows, Serving
<1>7. ASSUME NEW t \in Ticks, CreateOk(t) \/ CreateFails(t) PROVE RoomHasRows'
  <2>1. current # NoRoom /\ phase[current] = "warm"
    BY <1>0, <1>7 DEF CreateOk, CreateFails, TickInv, WaitPC
  <2>2. UNCHANGED <<current, phase, doc>>
    BY <1>7 DEF CreateOk, CreateFails
  <2>3. Pending' \subseteq Pending
    BY <1>0, <1>7, CreateOkPending, CreateFailsPending
  <2>4. entries[t] \subseteq Pending
    BY <1>0, PendingElement
  <2>5. EditsOf(rows)' \subseteq EditsOf(rows) \cup entries[t]
    BY <1>7 DEF CreateOk, CreateFails, EditsOf
  <2> QED
    BY <1>0, <2>1, <2>2, <2>3, <2>4, <2>5 DEF RoomHasRows, Serving
<1>8. CASE Crash
  BY <1>8 DEF Crash, RoomHasRows, Serving
<1>9. ASSUME NEW t \in Ticks, Destroy(t) PROVE RoomHasRows'
  BY <1>9 DEF Destroy, RoomHasRows, Serving
<1>10. ASSUME Pending' = Pending, NEW c \in Clients, Connect(c) \/ Disconnect(c) \/ CloseWhileLoading(c)
       PROVE  RoomHasRows'
  BY <1>0, <1>10, RoomRowsFrame DEF Connect, Disconnect, CloseWhileLoading
<1>11. ASSUME Pending' = Pending, NEW t \in Ticks,
              \/ TickStart(t) \/ FlushDue(t) \/ FlushNotDue(t) \/ SnapshotDue(t) \/ SnapshotNotDue(t)
              \/ EvictIdle(t) \/ StayWarm(t) \/ EvictCompact(t) \/ EvictRest(t) \/ Write(t)
       PROVE  RoomHasRows'
  BY <1>0, <1>11, RoomRowsFrame
  DEF TickStart, FlushDue, FlushNotDue, SnapshotDue, SnapshotNotDue, EvictIdle, StayWarm, EvictCompact,
      EvictRest, Write
<1>12. ASSUME Pending' = Pending, NEW t \in Ticks,
              \/ PrevOk(t) \/ PutOk(t) \/ VerifyOk(t) \/ RecordOk(t) \/ WriteFails(t) \/ WriteLosesReply(t)
              \/ Prune(t) \/ DeleteObject(t) \/ DeleteSnapshotRow(t) \/ SnapshotDone(t)
       PROVE  RoomHasRows'
  BY <1>0, <1>12, RoomRowsFrame
  DEF PrevOk, PutOk, VerifyOk, RecordOk, WriteFails, WriteLosesReply, Prune, DeleteObject,
      DeleteSnapshotRow, SnapshotDone, Tail
<1>13. ASSUME Pending' = Pending, UNCHANGED vars PROVE RoomHasRows'
  BY <1>0, <1>13, RoomRowsFrame DEF vars
<1>14. CASE \/ Crash
            \/ \E c \in Clients, e \in Edits : Edit(c, e)
            \/ \E t \in Ticks : CreateOk(t)
  BY <1>6, <1>7, <1>8, <1>14
<1>15. CASE /\ ~Crash
            /\ \A c \in Clients, e \in Edits : ~Edit(c, e)
            /\ \A t \in Ticks : ~CreateOk(t)
  <2>1. Pending' = Pending
    BY <1>1, <1>15
  <2> QED
    BY <1>2, <1>3, <1>4, <1>5, <1>7, <1>9, <1>10, <1>11, <1>12, <1>13, <1>15, <2>1 DEF Next, ClientNext, TickNext
<1> QED
  BY <1>14, <1>15

\* A compaction goes on holding every row: none is written under it.
LEMMA ShotRowsStep ==
  ASSUME Env \subseteq Ordinary, Inv, RowsInv, [Next]_vars
  PROVE  ShotHasRows'
<1> USE DEF store, room, sockets, tick, history, RunPC, WaitPC
<1> DEFINE Holding == {"prev", "put", "verify", "record"}
<1>0. TypeOK /\ TickInv /\ RoomHasRows /\ ShotHasRows
  BY DEF Inv, RowsInv
<1>1. rows' \subseteq rows => EditsOf(rows)' \subseteq EditsOf(rows)
  BY DEF EditsOf
<1>2. ASSUME UNCHANGED <<pc, shot>>, rows' \subseteq rows PROVE ShotHasRows'
  BY <1>0, <1>1, <1>2 DEF ShotHasRows
\* The one tick goes on.
<1>3. ASSUME NEW t \in Ticks, pc[t] # "idle", NEW p, Goto(t, on[t], p),
             p \in Holding => EditsOf(rows)' \subseteq shot'[t].upd
      PROVE  ShotHasRows'
  <2>1. \A u \in Ticks : u # t => pc'[u] = "idle"
    BY <1>0, <1>3 DEF Goto, TypeOK, TickInv
  <2>2. pc'[t] = p
    BY <1>0, <1>3 DEF Goto, TypeOK
  <2> QED
    BY <1>3, <2>1, <2>2 DEF ShotHasRows
<1>4. ASSUME NEW c \in Clients,
             \/ Connect(c) \/ (\E r \in Rooms : CreateRoom(c, r))
             \/ LoadBase(c) \/ LoadTail(c) \/ LoadFails(c)
             \/ (\E e \in Edits : Edit(c, e)) \/ Disconnect(c) \/ CloseWhileLoading(c)
      PROVE  ShotHasRows'
  BY <1>2, <1>4 DEF Connect, CreateRoom, LoadBase, LoadTail, LoadFails, Edit, Disconnect, CloseWhileLoading
<1>5. ASSUME NEW t \in Ticks, TickStart(t) PROVE ShotHasRows'
  <2>1. \A u \in Ticks : pc'[u] \in {"idle", "flush?"}
    BY <1>0, <1>5, Excluded DEF TickStart, Goto, TypeOK
  <2> QED
    BY <2>1 DEF ShotHasRows
<1>6. ASSUME NEW t \in Ticks, Write(t) PROVE ShotHasRows'
  <2>1. CASE shot' = [shot EXCEPT ![t].upd = doc[on[t]]] /\ Goto(t, on[t], "prev")
    <3>1. on[t] = current /\ current # NoRoom /\ phase[current] = "warm"
      BY <1>0, <1>6 DEF Write, TickInv
    <3>2. EditsOf(rows) \subseteq doc[on[t]] /\ EditsOf(rows)' = EditsOf(rows)
      BY <1>0, <1>6, <3>1 DEF RoomHasRows, Serving, Write, EditsOf
    <3>3. shot'[t].upd = doc[on[t]]
      BY <1>0, <2>1 DEF TypeOK
    <3> QED
      BY <1>3, <1>6, <2>1, <3>2, <3>3 DEF Write
  <2>2. CASE Goto(t, on[t], back[t])
    <3>1. back[t] \notin Holding
      BY <1>0 DEF TypeOK
    <3> QED
      BY <1>3, <1>6, <2>2, <3>1 DEF Write
  <2> QED
    BY <1>6, <2>1, <2>2 DEF Write
<1>7. ASSUME NEW t \in Ticks, PrevOk(t) \/ PutOk(t) \/ VerifyOk(t) PROVE ShotHasRows'
  <2>1. pc[t] \in Holding /\ (\E p : Goto(t, on[t], p)) /\ UNCHANGED rows
    BY <1>7 DEF PrevOk, PutOk, VerifyOk
  <2>2. shot'[t].upd = shot[t].upd
    BY <1>0, <1>7 DEF PrevOk, PutOk, VerifyOk, TypeOK
  <2>3. EditsOf(rows)' \subseteq shot'[t].upd
    BY <1>0, <1>1, <2>1, <2>2 DEF ShotHasRows
  <2> QED
    BY <1>3, <2>1, <2>3
<1>8. ASSUME NEW t \in Ticks, DeleteObject(t) \/ DeleteSnapshotRow(t) PROVE ShotHasRows'
  BY <1>2, <1>8 DEF DeleteObject, DeleteSnapshotRow
<1>9. ASSUME NEW t \in Ticks,
             \/ FlushDue(t) \/ FlushNotDue(t) \/ SnapshotDue(t) \/ SnapshotNotDue(t)
             \/ EvictIdle(t) \/ StayWarm(t) \/ EvictCompact(t) \/ EvictRest(t) \/ Destroy(t)
      PROVE  ShotHasRows'
  <2>1. pc[t] # "idle" /\ \E p : p \notin Holding /\ Goto(t, on[t], p)
    BY <1>0, <1>9 DEF FlushDue, FlushNotDue, SnapshotDue, SnapshotNotDue, EvictIdle, StayWarm, EvictCompact,
                EvictRest, Destroy, MaybeSnapshot, FlushUpdates, TickInv
  <2> QED
    BY <1>3, <2>1
<1>10. ASSUME NEW t \in Ticks,
              \/ CreateOk(t) \/ CreateFails(t) \/ RecordOk(t) \/ WriteFails(t) \/ WriteLosesReply(t)
              \/ Prune(t) \/ SnapshotDone(t)
       PROVE  ShotHasRows'
  <2>1. pc[t] # "idle" /\ \E p : p \notin Holding /\ Goto(t, on[t], p)
    BY <1>0, <1>10 DEF CreateOk, CreateFails, RecordOk, WriteFails, WriteLosesReply, Prune, SnapshotDone, TypeOK
  <2> QED
    BY <1>3, <2>1
<1>11. CASE Crash
  BY <1>11 DEF Crash, ShotHasRows
<1>12. CASE UNCHANGED vars
  BY <1>2, <1>12 DEF vars
<1> QED
  BY <1>4, <1>5, <1>6, <1>7, <1>8, <1>9, <1>10, <1>11, <1>12 DEF Next, ClientNext, TickNext

\* Versions go on including the rows they claim.
LEMMA IncludesStep ==
  ASSUME Env \subseteq Ordinary, Inv, SnapshotIncludesItsRows, ShotHasRows, [Next]_vars
  PROVE  SnapshotIncludesItsRows'
<1> USE DEF store, room, sockets, tick, history
<1>0. SnapshotIncludesItsRows /\ TypeOK
  BY DEF Inv
<1>1. ASSUME UNCHANGED objects, snaps' \subseteq snaps, rows' \subseteq rows PROVE SnapshotIncludesItsRows'
  BY <1>0, <1>1 DEF SnapshotIncludesItsRows, HasObject, Content
<1>2. ASSUME NEW new, new.id = nextRow, UNCHANGED <<snaps, objects>>, rows' = rows \cup {new}
      PROVE  SnapshotIncludesItsRows'
  <2>1. \A s \in snaps : s.upTo \in Nat /\ nextRow \in Nat /\ ~(nextRow <= s.upTo)
    BY BoundAssumption DEF Inv, SnapInv, TypeOK
  <2> QED
    BY <1>0, <1>2, <2>1 DEF SnapshotIncludesItsRows, HasObject, Content
<1>3. ASSUME NEW t \in Ticks, CreateOk(t) \/ CreateFails(t) PROVE SnapshotIncludesItsRows'
  <2>1. PICK new : new = [id |-> nextRow, upd |-> entries[t]]
    OBVIOUS
  <2>2. UNCHANGED <<snaps, objects>> /\ (UNCHANGED rows \/ rows' = rows \cup {new})
    BY <1>3, <2>1 DEF CreateOk, CreateFails
  <2> QED
    BY <1>1, <1>2, <2>1, <2>2
<1>4. ASSUME UNCHANGED <<rows, snaps>>, NEW k, \A s \in snaps : HasObject(s)' => s.key # k,
             \/ objects' = {o \in objects : o.key # k}
             \/ \E new : new.key = k /\ objects' = {o \in objects : o.key # k} \cup {new}
      PROVE  SnapshotIncludesItsRows'
  <2>1. ASSUME NEW s \in snaps, HasObject(s)' PROVE HasObject(s) /\ Content(s.key)' = Content(s.key)
    <3>1. s.key # k
      BY <1>4, <2>1
    <3>2. HasObject(s)
      BY <1>4, <2>1, <3>1 DEF HasObject
    <3> QED
      BY <1>4, <3>1, <3>2, OtherKeys
  <2> QED
    BY <1>0, <1>4, <2>1 DEF SnapshotIncludesItsRows
<1>5. ASSUME NEW t \in Ticks, pc[t] = "put", UNCHANGED <<rows, snaps>>,
             objects' = {o \in objects : o.key # Key(t)} \cup {[key |-> Key(t), upd |-> shot[t].upd]}
      PROVE  SnapshotIncludesItsRows'
  <2>1. \E new : new.key = Key(t) /\ objects' = {o \in objects : o.key # Key(t)} \cup {new}
    BY <1>5
  <2> QED
    BY <1>4, <1>5, <2>1, PutKey
<1>6. ASSUME NEW t \in Ticks, pc[t] = "record", UNCHANGED <<rows, objects>>,
             snaps' = snaps \cup {NewSnapshot(t)}
      PROVE  SnapshotIncludesItsRows'
  <2>1. PICK n : n = NewSnapshot(t)
    OBVIOUS
  <2>2. n.key = Key(t) /\ shot[t].upd \subseteq Content(Key(t))
    BY <1>6, <2>1 DEF Inv, ShotInv, ShotFacts, NewSnapshot
  <2>3. EditsOf(rows) \subseteq Content(n.key)
    BY <1>6, <2>2 DEF ShotHasRows
  <2> QED
    BY <1>0, <1>6, <2>1, <2>3 DEF SnapshotIncludesItsRows, HasObject, Content, EditsOf
<1>7. ASSUME NEW t \in Ticks, PutOk(t) \/ RecordOk(t) \/ WriteLosesReply(t) PROVE SnapshotIncludesItsRows'
  BY <1>5, <1>6, <1>7 DEF PutOk, RecordOk, WriteLosesReply
<1>8. ASSUME NEW t \in Ticks, Prune(t) PROVE SnapshotIncludesItsRows'
  BY <1>1, <1>8 DEF Prune, Tail
<1>9. ASSUME NEW t \in Ticks, DeleteObject(t) PROVE SnapshotIncludesItsRows'
  <2>1. PICK s \in Expired(t) : objects' = {o \in objects : o.key # s.key}
    BY <1>9 DEF DeleteObject
  <2>2. UNCHANGED <<rows, snaps>>
    BY <1>9 DEF DeleteObject
  <2>3. \A x : HasObject(x)' => x.key # s.key
    BY <2>1 DEF HasObject
  <2> QED
    BY <1>4, <2>1, <2>2, <2>3
<1>10. ASSUME NEW t \in Ticks, DeleteSnapshotRow(t) PROVE SnapshotIncludesItsRows'
  BY <1>1, <1>10 DEF DeleteSnapshotRow
<1>11. ASSUME NEW c \in Clients,
              \/ Connect(c) \/ (\E r \in Rooms : CreateRoom(c, r))
              \/ LoadBase(c) \/ LoadTail(c) \/ LoadFails(c)
              \/ (\E e \in Edits : Edit(c, e)) \/ Disconnect(c) \/ CloseWhileLoading(c)
       PROVE  SnapshotIncludesItsRows'
  BY <1>1, <1>11 DEF Connect, CreateRoom, LoadBase, LoadTail, LoadFails, Edit, Disconnect, CloseWhileLoading
<1>12. ASSUME NEW t \in Ticks,
              \/ TickStart(t) \/ FlushDue(t) \/ FlushNotDue(t) \/ SnapshotDue(t) \/ SnapshotNotDue(t)
              \/ EvictIdle(t) \/ StayWarm(t) \/ EvictCompact(t) \/ EvictRest(t) \/ Destroy(t)
              \/ Write(t) \/ PrevOk(t) \/ VerifyOk(t) \/ WriteFails(t) \/ SnapshotDone(t)
       PROVE  SnapshotIncludesItsRows'
  BY <1>1, <1>12 DEF TickStart, FlushDue, FlushNotDue, SnapshotDue, SnapshotNotDue, EvictIdle, StayWarm,
                     EvictCompact, EvictRest, Destroy, Write, PrevOk, VerifyOk, WriteFails, SnapshotDone
<1>13. CASE Crash
  BY <1>1, <1>13 DEF Crash
<1>14. CASE UNCHANGED vars
  BY <1>1, <1>14 DEF vars
<1> QED
  BY <1>3, <1>7, <1>8, <1>9, <1>10, <1>11, <1>12, <1>13, <1>14 DEF Next, ClientNext, TickNext

\* Every step keeps every row where a load finds it, a room shows it and a compaction
\* holds it.
LEMMA RowsStep ==
  ASSUME Env \subseteq Ordinary, Inv, RowsInv, [Next]_vars
  PROVE  RowsInv'
BY IncludesStep, RoomRowsStep, ShotRowsStep DEF RowsInv

\* A version contains the rows it claims, so that those can be pruned.
THEOREM SnapshotsIncludeTheirRows ==
  ASSUME Env \subseteq Ordinary PROVE Spec => []SnapshotIncludesItsRows
<1>1. Init => Inv /\ RowsInv
  BY InvInit DEF Init, RowsInv, SnapshotIncludesItsRows, RoomHasRows, ShotHasRows, Serving
<1>2. Inv /\ RowsInv /\ [Next]_vars => Inv' /\ RowsInv'
  BY InvStep, RowsStep
<1>3. RowsInv => SnapshotIncludesItsRows
  BY DEF RowsInv
<1> QED
  BY <1>1, <1>2, <1>3, PTL DEF Spec

(***************************************************************************)
(* StoredInv                                                               *)
(***************************************************************************)

\* What a room under load will show is what storage yields; a loaded one goes
\* on showing that and the pending edits.
LEMMA ShownStep ==
  ASSUME Env \subseteq Ordinary, "someLost" \notin Env, Inv, Inv', StoredInv, [Next]_vars
  PROVE  ShownInv'
<1> USE NoRoomAssumption DEF store, room, sockets, tick, history
<1>0. TypeOK /\ TickInv /\ RoomInv /\ ShownInv /\ Yields
  BY YieldsHolds DEF Inv, StoredInv
\* Steps that touch neither storage nor room.
<1>1. ASSUME UNCHANGED <<rows, snaps, objects, current, phase, doc, base>>,
             (Reconstruct \cup Pending)' = Reconstruct \cup Pending
      PROVE  ShownInv'
  BY <1>0, <1>1, StoreFrame DEF ShownInv, Tail, EditsOf
\* Steps of a tick at a call: the room is loaded.
<1>2. ASSUME NEW t \in Ticks, pc[t] \in WaitPC, UNCHANGED <<current, phase, doc>>,
             (Reconstruct \cup Pending)' = Reconstruct \cup Pending
      PROVE  ShownInv'
  <2>1. phase[current] = "warm"
    BY <1>0, <1>2 DEF TickInv, WaitPC
  <2> QED
    BY <1>0, <1>2, <2>1 DEF ShownInv
<1>3. ASSUME ~Crash, \A c \in Clients, e \in Edits : ~Edit(c, e)
      PROVE  (Reconstruct \cup Pending)' = Reconstruct \cup Pending
  BY <1>3, KnownStep
<1>4. ASSUME NEW c \in Clients, NEW r \in Rooms, CreateRoom(c, r) PROVE ShownInv'
  <2>1. current' = r /\ phase'[r] = "loading" /\ doc'[r] = {}
    BY <1>0, <1>4 DEF CreateRoom, TypeOK
  <2> QED
    BY <2>1 DEF ShownInv
<1>5. ASSUME NEW c \in Clients, LoadBase(c) PROVE ShownInv'
  <2>1. joining[c] = current /\ current \in Rooms /\ phase[current] = "loading" /\ doc[current] = {}
    <3>1. joining[c] = current /\ joining[c] # NoRoom /\ phase[joining[c]] = "loading"
      BY <1>0, <1>5 DEF LoadBase, RoomInv
    <3> QED
      BY <1>0, <3>1 DEF ShownInv, TypeOK
  <2>2. ReadableNow = {Readable}
    BY Excluded DEF ReadableNow
  <2>3. /\ phase'[current] = "tail" /\ UNCHANGED <<current, rows>>
        /\ Reconstruct' = Reconstruct
    BY <1>0, <1>5, <2>1, StoreFrame DEF LoadBase, TypeOK
  <2>4. doc'[current] \cup EditsOf(Tail(base'[current].upTo)) = Reconstruct
    <3>1. CASE /\ Readable = {}
               /\ base' = [base EXCEPT ![current] = [upTo |-> 0, found |-> FALSE, listed |-> snaps # {}]]
               /\ UNCHANGED doc
      <4>1. base'[current].upTo = 0 /\ doc'[current] = {}
        BY <1>0, <2>1, <3>1 DEF TypeOK
      <4>2. Tail(0) = rows
        BY <1>0, BoundAssumption DEF Tail, TypeOK
      <4>3. Reconstruct = EditsOf(rows)
        BY <3>1 DEF Reconstruct
      <4> QED
        BY <4>1, <4>2, <4>3
    <3>2. ASSUME NEW s, IsNewest(s, Readable),
                 base' = [base EXCEPT ![current] = [upTo |-> s.upTo, found |-> TRUE, listed |-> TRUE]],
                 doc' = [doc EXCEPT ![current] = @ \cup Content(s.key)]
          PROVE  doc'[current] \cup EditsOf(Tail(base'[current].upTo)) = Reconstruct
      <4>1. base'[current].upTo = s.upTo /\ doc'[current] = Content(s.key)
        BY <1>0, <2>1, <3>2 DEF TypeOK
      <4>2. IsNewest(s, snaps)
        BY <3>2, NewestReadable DEF Inv
      <4> QED
        BY <1>0, <4>1, <4>2 DEF Yields, Rebuild
    <3> QED
      BY <1>5, <2>1, <2>2, <3>1, <3>2 DEF LoadBase
  <2>5. EditsOf(Tail(base'[current].upTo)) = EditsOf(Tail(base[current].upTo))'
    BY <2>3 DEF EditsOf, Tail
  <2> QED
    BY <2>3, <2>4, <2>5 DEF ShownInv
<1>6. ASSUME NEW c \in Clients, LoadTail(c) PROVE ShownInv'
  <2>1. joining[c] = current /\ current \in Rooms /\ phase[current] = "tail"
    <3>1. joining[c] = current /\ joining[c] # NoRoom /\ phase[joining[c]] = "tail"
      BY <1>0, <1>6 DEF LoadTail, RoomInv
    <3> QED
      BY <1>0, <3>1 DEF TypeOK
  <2>2. /\ phase'[current] = "warm" /\ UNCHANGED current
        /\ doc'[current] = doc[current] \cup EditsOf(Tail(base[current].upTo))
    BY <1>0, <1>6, <2>1 DEF LoadTail, TypeOK
  <2>3. Reconstruct' = Reconstruct /\ Pending' = Pending
    BY <1>6, StoreFrame, PendingFrame DEF LoadTail
  <2>4. Pending = {}
    BY <1>0, <2>1, NothingPending DEF Serving
  <2> QED
    BY <1>0, <2>1, <2>2, <2>3, <2>4 DEF ShownInv
<1>7. ASSUME NEW c \in Clients, LoadFails(c) PROVE ShownInv'
  <2>1. current \in Rooms /\ phase'[current] = "failed" /\ UNCHANGED current
    BY <1>0, <1>7 DEF LoadFails, RoomInv, TypeOK
  <2> QED
    BY <2>1 DEF ShownInv
<1>8. ASSUME NEW c \in Clients, NEW e \in Edits, Edit(c, e) PROVE ShownInv'
  <2>1. conn[c] = current /\ current \in Rooms /\ phase[current] = "warm"
    BY <1>0, <1>8 DEF Edit, RoomInv, TypeOK
  <2>2. doc'[current] = doc[current] \cup {e} /\ UNCHANGED <<phase, current>>
    BY <1>0, <1>8, <2>1 DEF Edit, TypeOK
  <2>3. Reconstruct' = Reconstruct /\ Pending' = Pending \cup {e}
    BY <1>0, <1>8, StoreFrame, EditPending DEF Edit
  <2> QED
    BY <1>0, <2>1, <2>2, <2>3 DEF ShownInv
<1>9. CASE Crash
  BY <1>9 DEF Crash, ShownInv
<1>10. ASSUME NEW t \in Ticks, Destroy(t) PROVE ShownInv'
  BY <1>10 DEF Destroy, ShownInv
<1>11. ASSUME ~Crash, \A c \in Clients, e \in Edits : ~Edit(c, e), NEW c \in Clients,
              Connect(c) \/ Disconnect(c) \/ CloseWhileLoading(c)
       PROVE  ShownInv'
  BY <1>1, <1>3, <1>11 DEF Connect, Disconnect, CloseWhileLoading
<1>12. ASSUME ~Crash, \A c \in Clients, e \in Edits : ~Edit(c, e), NEW t \in Ticks,
              \/ TickStart(t) \/ FlushDue(t) \/ FlushNotDue(t) \/ SnapshotDue(t) \/ SnapshotNotDue(t)
              \/ EvictIdle(t) \/ StayWarm(t) \/ EvictCompact(t) \/ EvictRest(t) \/ Write(t)
       PROVE  ShownInv'
  BY <1>1, <1>3, <1>12 DEF TickStart, FlushDue, FlushNotDue, SnapshotDue, SnapshotNotDue, EvictIdle, StayWarm,
                           EvictCompact, EvictRest, Write
<1>13. ASSUME ~Crash, \A c \in Clients, e \in Edits : ~Edit(c, e), NEW t \in Ticks,
              \/ CreateOk(t) \/ CreateFails(t) \/ PrevOk(t) \/ PutOk(t) \/ VerifyOk(t) \/ RecordOk(t)
              \/ WriteFails(t) \/ WriteLosesReply(t)
              \/ Prune(t) \/ DeleteObject(t) \/ DeleteSnapshotRow(t) \/ SnapshotDone(t)
       PROVE  ShownInv'
  BY <1>2, <1>3, <1>13 DEF CreateOk, CreateFails, PrevOk, PutOk, VerifyOk, RecordOk, WriteFails,
                           WriteLosesReply, Prune, DeleteObject, DeleteSnapshotRow, SnapshotDone, WaitPC
<1>14. ASSUME ~Crash, \A c \in Clients, e \in Edits : ~Edit(c, e), UNCHANGED vars PROVE ShownInv'
  BY <1>1, <1>3, <1>14 DEF vars
<1> QED
  BY <1>4, <1>5, <1>6, <1>7, <1>8, <1>9, <1>10, <1>11, <1>12, <1>13, <1>14 DEF Next, ClientNext, TickNext

\* A compaction goes on holding what storage yields, and its object what it
\* captured, since nothing else writes while it is under way.
LEMMA CapturedStep ==
  ASSUME Env \subseteq Ordinary, Inv, Inv', StoredInv, [Next]_vars
  PROVE  CapturedInv'
<1> USE NoRoomAssumption DEF store, room, sockets, tick, history
<1> DEFINE Holding == {"prev", "put", "verify", "record"}
<1>0. TypeOK /\ TickInv /\ RoomInv /\ ShownInv /\ CapturedInv
  BY DEF Inv, StoredInv
<1>1. ASSUME \A t \in Ticks : pc'[t] \notin Holding PROVE CapturedInv'
  BY <1>1 DEF CapturedInv
\* The tick that goes on elsewhere was the only one.
<1>2. ASSUME NEW t \in Ticks, pc[t] # "idle", NEW p, p \notin Holding, pc' = [pc EXCEPT ![t] = p]
      PROVE  CapturedInv'
  <2>1. \A u \in Ticks : pc'[u] \notin Holding
    BY <1>0, <1>2 DEF TickInv, TypeOK
  <2> QED
    BY <1>1, <2>1
<1>3. ASSUME UNCHANGED <<pc, shot, current, rows, snaps, objects>>,
             \A r \in Rooms : doc[r] \subseteq doc'[r]
      PROVE  CapturedInv'
  <2>1. \A t \in Ticks : pc[t] \in Holding => current \in Rooms
    BY <1>0 DEF TickInv, TypeOK
  <2> QED
    BY <1>0, <1>3, <2>1, StoreFrame DEF CapturedInv, Content, Key
\* The tick that goes on to another call of its compaction.
<1>4. ASSUME NEW t \in Ticks, pc[t] # "idle", NEW p, pc' = [pc EXCEPT ![t] = p],
             UNCHANGED <<current, doc>>, Reconstruct' = Reconstruct,
             Reconstruct \subseteq shot'[t].upd, shot'[t].upd \subseteq doc[current],
             p \in {"verify", "record"} => Content(Key(t))' = shot'[t].upd
      PROVE  CapturedInv'
  <2>1. pc'[t] = p /\ \A u \in Ticks : u # t => pc'[u] = "idle"
    BY <1>0, <1>4 DEF TickInv, TypeOK
  <2> QED
    BY <1>4, <2>1 DEF CapturedInv
<1>5. ASSUME NEW t \in Ticks, Write(t) PROVE CapturedInv'
  <2>1. on[t] = current /\ phase[current] = "warm" /\ current # NoRoom
    BY <1>0, <1>5 DEF Write, TickInv
  <2>2. doc[current] = Reconstruct \cup Pending
    BY <1>0, <2>1 DEF ShownInv
  <2>3. Reconstruct' = Reconstruct
    BY <1>5, StoreFrame DEF Write
  <2>4. CASE awaiting[current]
    <3>1. shot'[t].upd = doc[current]
      BY <1>0, <1>5, <2>1, <2>4 DEF Write, TypeOK
    <3> QED
      BY <1>4, <1>5, <2>1, <2>2, <2>3, <2>4, <3>1 DEF Write, Goto
  <2>5. CASE ~awaiting[current]
    <3>1. pc' = [pc EXCEPT ![t] = back[t]] /\ back[t] \in {"evict?", "rest?"}
      BY <1>0, <1>5, <2>1, <2>5 DEF Write, Goto, TypeOK
    <3> QED
      BY <1>2, <1>5, <3>1 DEF Write
  <2> QED
    BY <2>4, <2>5
<1>6. ASSUME NEW t \in Ticks, PrevOk(t) PROVE CapturedInv'
  <2>1. shot'[t].upd = shot[t].upd
    BY <1>0, <1>6 DEF PrevOk, TypeOK
  <2>2. Reconstruct' = Reconstruct
    BY <1>6, StoreFrame DEF PrevOk
  <2> QED
    BY <1>0, <1>4, <1>6, <2>1, <2>2 DEF PrevOk, Goto, CapturedInv
<1>7. ASSUME NEW t \in Ticks, PutOk(t) PROVE CapturedInv'
  <2>1. objects' = {o \in objects : o.key # Key(t)} \cup {[key |-> Key(t), upd |-> shot[t].upd]}
    BY <1>7 DEF PutOk
  <2>2. Reconstruct' = Reconstruct
    <3>1. \E new : new.key = Key(t) /\ objects' = {o \in objects : o.key # Key(t)} \cup {new}
      BY <2>1
    <3>2. \A s : IsNewest(s, snaps) => s.key # Key(t)
      BY <1>7, PutKey DEF IsNewest, PutOk
    <3> QED
      BY <1>7, <3>1, <3>2, ObjectKeeps DEF PutOk
  <2>3. Content(Key(t))' = shot[t].upd
    <3>1. PICK new : new = [key |-> Key(t), upd |-> shot[t].upd]
      OBVIOUS
    <3>2. {o \in objects' : o.key = Key(t)} = {new}
      BY <2>1, <3>1
    <3>3. Key(t)' = Key(t)
      BY <1>7 DEF PutOk, Key
    <3> QED
      BY <3>1, <3>2, <3>3 DEF Content, EditsOf
  <2> QED
    BY <1>0, <1>4, <1>7, <2>2, <2>3 DEF PutOk, Goto, CapturedInv
<1>8. ASSUME NEW t \in Ticks, VerifyOk(t) PROVE CapturedInv'
  <2>1. shot'[t].upd = shot[t].upd /\ Key(t)' = Key(t)
    BY <1>0, <1>8 DEF VerifyOk, TypeOK, Key
  <2>2. Reconstruct' = Reconstruct
    BY <1>8, StoreFrame DEF VerifyOk
  <2>3. Content(Key(t))' = shot'[t].upd
    BY <1>0, <1>8, <2>1 DEF VerifyOk, CapturedInv, Content
  <2>4. Reconstruct \subseteq shot'[t].upd /\ shot'[t].upd \subseteq doc[current]
    BY <1>0, <1>8, <2>1 DEF VerifyOk, CapturedInv
  <2>5. pc' = [pc EXCEPT ![t] = "record"] /\ pc[t] # "idle" /\ UNCHANGED <<current, doc>>
    BY <1>8 DEF VerifyOk, Goto
  <2> QED
    BY <1>4, <2>2, <2>3, <2>4, <2>5
<1>9. ASSUME NEW t \in Ticks, CreateOk(t) \/ CreateFails(t) PROVE CapturedInv'
  <2>1. ret[t] \in {"snapshot?", "write", "compact?", "destroy"} /\ back[t] \in {"evict?", "rest?"}
    BY <1>0 DEF TypeOK
  <2>2. PICK p : p \notin Holding /\ pc' = [pc EXCEPT ![t] = p]
    BY <1>9, <2>1 DEF CreateOk, CreateFails, Goto
  <2> QED
    BY <1>2, <1>9, <2>2 DEF CreateOk, CreateFails
<1>10. ASSUME NEW t \in Ticks, RecordOk(t) \/ WriteFails(t) \/ WriteLosesReply(t) \/ Prune(t) \/ SnapshotDone(t)
       PROVE  CapturedInv'
  <2>1. back[t] \in {"evict?", "rest?"}
    BY <1>0 DEF TypeOK
  <2>2. PICK p : p \notin Holding /\ pc' = [pc EXCEPT ![t] = p]
    BY <1>10, <2>1 DEF RecordOk, WriteFails, WriteLosesReply, Prune, SnapshotDone, Goto
  <2> QED
    BY <1>2, <1>10, <2>2 DEF RecordOk, WriteFails, WriteLosesReply, Prune, SnapshotDone
<1>11. ASSUME NEW t \in Ticks, DeleteObject(t) \/ DeleteSnapshotRow(t) PROVE CapturedInv'
  <2>1. pc[t] = "expire" /\ UNCHANGED pc
    BY <1>11 DEF DeleteObject, DeleteSnapshotRow
  <2>2. \A u \in Ticks : pc'[u] \notin Holding
    BY <1>0, <2>1 DEF TickInv
  <2> QED
    BY <1>1, <2>2
<1>12. ASSUME NEW t \in Ticks,
              FlushDue(t) \/ SnapshotDue(t) \/ EvictIdle(t) \/ EvictCompact(t) \/ EvictRest(t)
       PROVE  CapturedInv'
  <2>1. PICK p : p \notin Holding /\ pc' = [pc EXCEPT ![t] = p]
    BY <1>12 DEF FlushDue, SnapshotDue, EvictIdle, EvictCompact, EvictRest, MaybeSnapshot, FlushUpdates, Goto
  <2>2. pc[t] # "idle"
    BY <1>12 DEF FlushDue, SnapshotDue, EvictIdle, EvictCompact, EvictRest
  <2> QED
    BY <1>2, <2>1, <2>2
<1>13. ASSUME NEW t \in Ticks, FlushNotDue(t) \/ SnapshotNotDue(t) \/ StayWarm(t) \/ Destroy(t)
       PROVE  CapturedInv'
  <2>1. PICK p : p \notin Holding /\ pc' = [pc EXCEPT ![t] = p]
    BY <1>13 DEF FlushNotDue, SnapshotNotDue, StayWarm, Destroy, Goto
  <2> QED
    BY <1>2, <1>13, <2>1 DEF FlushNotDue, SnapshotNotDue, StayWarm, Destroy
<1>14. ASSUME NEW t \in Ticks, TickStart(t) PROVE CapturedInv'
  <2>1. \A u \in Ticks : pc'[u] \notin Holding
    BY <1>0, <1>14, Excluded DEF TickStart, Goto, TypeOK
  <2> QED
    BY <1>1, <2>1
<1>15. ASSUME NEW c \in Clients, NEW r \in Rooms, CreateRoom(c, r) PROVE CapturedInv'
  <2>1. \A u \in Ticks : pc'[u] \notin Holding
    BY <1>0, <1>15 DEF CreateRoom, TickInv
  <2> QED
    BY <1>1, <2>1
<1>16. ASSUME NEW c \in Clients, LoadBase(c) \/ LoadTail(c) \/ (\E e \in Edits : Edit(c, e))
       PROVE  CapturedInv'
  <2>1. \A r \in Rooms : doc[r] \subseteq doc'[r]
    BY <1>0, <1>16 DEF LoadBase, LoadTail, Edit, TypeOK
  <2> QED
    BY <1>3, <1>16, <2>1 DEF LoadBase, LoadTail, Edit
<1>17. ASSUME NEW c \in Clients, Connect(c) \/ LoadFails(c) \/ Disconnect(c) \/ CloseWhileLoading(c)
       PROVE  CapturedInv'
  BY <1>3, <1>17 DEF Connect, LoadFails, Disconnect, CloseWhileLoading
<1>18. CASE Crash
  BY <1>1, <1>18 DEF Crash
<1>19. CASE UNCHANGED vars
  BY <1>3, <1>19 DEF vars
<1> QED
  BY <1>5, <1>6, <1>7, <1>8, <1>9, <1>10, <1>11, <1>12, <1>13, <1>14, <1>15, <1>16, <1>17, <1>18, <1>19
  DEF Next, ClientNext, TickNext

\* Only an edit and a crash make history.
LEMMA OnlyEditsAndCrashes ==
  ASSUME [Next]_vars, ~Crash, \A c \in Clients, e \in Edits : ~Edit(c, e)
  PROVE  UNCHANGED <<accepted, owed>>
<1> USE DEF history
<1>1. ASSUME NEW c \in Clients,
             \/ Connect(c) \/ (\E r \in Rooms : CreateRoom(c, r))
             \/ LoadBase(c) \/ LoadTail(c) \/ LoadFails(c) \/ Disconnect(c) \/ CloseWhileLoading(c)
      PROVE  UNCHANGED <<accepted, owed>>
  BY <1>1 DEF Connect, CreateRoom, LoadBase, LoadTail, LoadFails, Disconnect, CloseWhileLoading
<1>2. ASSUME NEW t \in Ticks,
             \/ TickStart(t) \/ FlushDue(t) \/ FlushNotDue(t) \/ SnapshotDue(t) \/ SnapshotNotDue(t)
             \/ EvictIdle(t) \/ StayWarm(t) \/ EvictCompact(t) \/ EvictRest(t) \/ Destroy(t)
      PROVE  UNCHANGED <<accepted, owed>>
  BY <1>2 DEF TickStart, FlushDue, FlushNotDue, SnapshotDue, SnapshotNotDue, EvictIdle, StayWarm,
              EvictCompact, EvictRest, Destroy
<1>3. ASSUME NEW t \in Ticks,
             \/ CreateOk(t) \/ CreateFails(t) \/ Write(t) \/ PrevOk(t) \/ PutOk(t) \/ VerifyOk(t)
             \/ RecordOk(t) \/ WriteFails(t) \/ WriteLosesReply(t)
             \/ Prune(t) \/ DeleteObject(t) \/ DeleteSnapshotRow(t) \/ SnapshotDone(t)
      PROVE  UNCHANGED <<accepted, owed>>
  BY <1>3 DEF CreateOk, CreateFails, Write, PrevOk, PutOk, VerifyOk, RecordOk, WriteFails,
              WriteLosesReply, Prune, DeleteObject, DeleteSnapshotRow, SnapshotDone
<1>4. CASE UNCHANGED vars
  BY <1>4 DEF vars
<1> QED
  BY <1>1, <1>2, <1>3, <1>4 DEF Next, ClientNext, TickNext

\* At first there is nothing to show or to hold.
LEMMA StoredInit == Init => StoredInv
<1> SUFFICES ASSUME Init PROVE StoredInv
  OBVIOUS
<1>1. Reconstruct = {}
  BY DEF Init, Reconstruct, Readable, EditsOf
<1>2. Pending = {}
  BY PendingElement DEF Init
<1>3. SnapshotIncludesItsRows /\ ShownInv /\ CapturedInv
  BY DEF Init, SnapshotIncludesItsRows, ShownInv, CapturedInv
<1> QED
  BY <1>1, <1>2, <1>3 DEF StoredInv

\* Every step keeps StoredInv.
LEMMA StoredStep ==
  ASSUME Env \subseteq Ordinary, "someLost" \notin Env, Inv, StoredInv, [Next]_vars
  PROVE  StoredInv'
<1>1. Inv'
  BY InvStep
<1>2. SnapshotIncludesItsRows' /\ ShownInv' /\ CapturedInv'
  <2>1. ShotHasRows
    BY RowsAreStored DEF StoredInv, CapturedInv, ShotHasRows
  <2>2. SnapshotIncludesItsRows'
    BY <2>1, IncludesStep DEF StoredInv
  <2> QED
    BY <1>1, <2>2, ShownStep, CapturedStep
<1>3. (Reconstruct \cup Pending)' \subseteq accepted'
  <2>1. Reconstruct \cup Pending \subseteq accepted
    BY DEF StoredInv
  <2>2. CASE \E c \in Clients, e \in Edits :
               Edit(c, e) /\ Reconstruct' = Reconstruct /\ Pending' = Pending \cup {e}
    BY <2>1, <2>2 DEF Edit
  <2>3. CASE Crash /\ Reconstruct' = Reconstruct /\ Pending' = {}
    BY <2>1, <2>3 DEF Crash
  <2>4. CASE (Reconstruct \cup Pending)' = Reconstruct \cup Pending
    <3>1. accepted \subseteq accepted'
      BY OnlyEditsAndCrashes DEF Edit, Crash
    <3> QED
      BY <2>1, <2>4, <3>1
  <2> QED
    BY <1>1, <2>2, <2>3, <2>4, KnownStep
<1> QED
  BY <1>2, <1>3 DEF StoredInv

\* What storage yields, a room shows and a compaction holds stay in step.
THEOREM StoredInvCorrect ==
  ASSUME Env \subseteq Ordinary, "someLost" \notin Env PROVE Spec => [](Inv /\ StoredInv)
<1>1. Init => Inv /\ StoredInv
  BY InvInit, StoredInit
<1>2. Inv /\ StoredInv /\ [Next]_vars => Inv' /\ StoredInv'
  BY InvStep, StoredStep
<1> QED
  BY <1>1, <1>2, PTL DEF Spec

(***************************************************************************)
(* RoomPersistence implements DurableDocument                              *)
(***************************************************************************)

\* An empty store and no room are an empty, closed document.
LEMMA DocInitHolds == Init => Doc!DocInit
<1> SUFFICES ASSUME Init PROVE Doc!DocInit
  OBVIOUS
<1>1. Reconstruct = {}
  BY DEF Init, Reconstruct, Readable, EditsOf
<1> QED
  BY <1>1 DEF Init, Doc!DocInit, Serving

\* While no room serves nothing is pending.
LEMMA ClosedHasNothing == Inv => (~Serving => Pending = {})
BY NothingPending DEF Inv

\* A room that stops serving has just stored, in steps before, all it showed.
LEMMA ClosingKeepsStore ==
  ASSUME Inv, Inv', StoredInv, [Next]_vars, Serving, ~Serving'
  PROVE  Reconstruct' = Reconstruct
<1>1. ASSUME NEW t \in Ticks, CreateOk(t) \/ CreateFails(t) \/ RecordOk(t) \/ WriteLosesReply(t)
      PROVE  FALSE
  BY <1>1 DEF CreateOk, CreateFails, RecordOk, WriteLosesReply, Serving, room
<1> QED
  BY <1>1, StoreStep

\* Every step is one of the abstract document, or changes nothing of it.
LEMMA DocStep ==
  ASSUME Env \subseteq Ordinary, Inv, Inv', StoredInv, StoredInv', [Next]_vars
  PROVE  [Doc!DocNext]_(Doc!docVars)
<1> DEFINE Shown == IF Serving THEN doc[current] ELSE {}
<1>1. Serving => Shown = Reconstruct \cup Pending
  BY DEF StoredInv, ShownInv, Serving
<1>2. Serving' => Shown' = (Reconstruct \cup Pending)'
  BY DEF StoredInv, ShownInv, Serving
<1>3. (~Serving => Shown = {} /\ Pending = {}) /\ (~Serving' => Shown' = {} /\ Pending' = {})
  <2>1. (~Serving => Pending = {}) /\ (~Serving => Pending = {})'
    BY ClosedHasNothing, PTL
  <2> QED
    BY <2>1
<1>4. owed \subseteq accepted /\ Reconstruct \cup Pending \subseteq accepted
  BY DEF Inv, TypeOK, StoredInv
<1>5. ASSUME NEW c \in Clients, NEW e \in Edits, Edit(c, e) PROVE Doc!Accept
  <2>1. conn[c] = current /\ current \in Rooms /\ phase[current] = "warm" /\ current # NoRoom
    BY <1>5, NoRoomAssumption DEF Edit, Inv, RoomInv, TypeOK
  <2>2. Serving /\ Serving'
    BY <1>5, <2>1 DEF Serving, Edit
  <2>3. Shown' = Shown \cup {e}
    BY <1>5, <2>1, <2>2 DEF Edit, Inv, TypeOK
  <2>4. Reconstruct' = Reconstruct
    BY <1>5, StoreFrame DEF Edit, store
  <2>5. e \in Edits \ accepted /\ accepted' = accepted \cup {e} /\ (accepted \ owed)' = accepted \ owed
    BY <1>4, <1>5 DEF Edit
  <2> QED
    BY <2>2, <2>3, <2>4, <2>5 DEF Doc!Accept
<1>6. CASE Crash
  <2>1. Reconstruct' = Reconstruct
    BY <1>6, StoreFrame DEF Crash, store
  <2>2. ~Serving' /\ UNCHANGED accepted /\ owed' = owed \ Pending
    BY <1>6 DEF Crash, Serving
  <2>3. CASE Serving
    <3>1. (accepted \ owed) \cup (Shown \ Reconstruct) \subseteq (accepted \ owed)'
      BY <1>1, <1>4, <2>2, <2>3
    <3>2. (accepted \ owed)' \subseteq (accepted \ owed) \cup Shown
      BY <1>1, <2>2, <2>3
    <3> QED
      BY <1>3, <2>1, <2>2, <2>3, <3>1, <3>2 DEF Doc!DocNext, Doc!Fail
  <2>4. CASE ~Serving
    <3>1. (accepted \ owed)' = accepted \ owed
      BY <1>3, <2>2, <2>4
    <3> QED
      BY <1>3, <2>1, <2>2, <2>4, <3>1 DEF Doc!docVars, Serving
  <2> QED
    BY <2>3, <2>4
<1>7. CASE ~Crash /\ \A c \in Clients, e \in Edits : ~Edit(c, e)
  <2>1. UNCHANGED <<accepted, owed>>
    BY <1>7, OnlyEditsAndCrashes
  <2>2. Reconstruct \subseteq Reconstruct' /\ (Reconstruct \cup Pending)' = Reconstruct \cup Pending
    BY <1>7, KnownStep
  <2>3. CASE Serving /\ Serving'
    <3>1. Shown' = Shown /\ Reconstruct' \subseteq Shown
      BY <1>1, <1>2, <2>2, <2>3
    <3> QED
      BY <2>1, <2>2, <2>3, <3>1 DEF Doc!DocNext, Doc!Save
  <2>4. CASE Serving /\ ~Serving'
    <3>1. Reconstruct' = Reconstruct
      BY <2>4, ClosingKeepsStore
    <3>2. Shown \subseteq Reconstruct /\ Shown' = {}
      BY <1>1, <1>3, <2>2, <2>4, <3>1
    <3> QED
      BY <2>1, <2>4, <3>1, <3>2 DEF Doc!DocNext, Doc!Close
  <2>5. CASE ~Serving /\ Serving'
    <3>1. Reconstruct' = Reconstruct /\ Shown' = Reconstruct
      BY <1>2, <1>3, <2>2, <2>5
    <3> QED
      BY <2>1, <2>5, <3>1 DEF Doc!DocNext, Doc!Open
  <2>6. CASE ~Serving /\ ~Serving'
    <3>1. Reconstruct' = Reconstruct /\ Shown' = Shown /\ Serving' = Serving
      BY <1>3, <2>2, <2>6 DEF Serving
    <3> QED
      BY <2>1, <3>1 DEF Doc!docVars
  <2> QED
    BY <2>3, <2>4, <2>5, <2>6
<1> QED
  BY <1>5, <1>6, <1>7 DEF Doc!DocNext

\* Where loads read the newest object (an older one need not hold what a newer one took
\* from a room before a crash) the room, its ticks and its storage keep the promise of
\* DurableDocument: nothing shown is closed away unsaved, and only
\* a crash takes edits, of those that no flush had written.
THEOREM RoomImplementsDocument ==
  ASSUME Env \subseteq Ordinary, "someLost" \notin Env PROVE Spec => ImplementsDurableDocument
<1>1. Inv /\ StoredInv /\ (Inv /\ StoredInv)' /\ [Next]_vars => [Doc!DocNext]_(Doc!docVars)
  BY DocStep
<1> QED
  BY <1>1, DocInitHolds, StoredInvCorrect, PTL DEF Spec, ImplementsDurableDocument, Doc!DocSpec

(***************************************************************************)
(* Every edit once                                                         *)
(***************************************************************************)

\* An edit is in one place: a row, the buffer of a room, or a write under way.
RowsApart ==
  /\ \A x \in rows : x.upd \subseteq accepted
  /\ \A x, y \in rows : x # y => x.upd \cap y.upd = {}
BuffersApart == \A q \in Rooms :
  /\ buffer[q] \subseteq accepted
  /\ \A p \in Rooms : p # q => buffer[p] \cap buffer[q] = {}
  /\ \A x \in rows : x.upd \cap buffer[q] = {}
WritesApart == \A u \in Ticks :
  /\ entries[u] \subseteq accepted
  /\ \A v \in Ticks : v # u => entries[v] \cap entries[u] = {}
  /\ \A x \in rows : x.upd \cap entries[u] = {}
  /\ \A q \in Rooms : buffer[q] \cap entries[u] = {}
OnceInv == RowsApart /\ BuffersApart /\ WritesApart

\* A step that writes no row and moves no edit.
LEMMA OnceFrame ==
  ASSUME OnceInv, rows' \subseteq rows, UNCHANGED <<buffer, entries, accepted>>
  PROVE  OnceInv'
BY DEF OnceInv, RowsApart, BuffersApart, WritesApart

\* A flush moves a buffer into the write, or nothing.
LEMMA OnceFlush ==
  ASSUME TypeOK, OnceInv, NEW t \in Ticks, NEW r \in Rooms, NEW next,
         FlushUpdates(t, r, next), UNCHANGED <<rows, accepted>>
  PROVE  OnceInv'
<1>1. CASE UNCHANGED <<entries, buffer>>
  BY <1>1, OnceFrame
<1>2. CASE /\ entries' = [entries EXCEPT ![t] = buffer[r]]
           /\ buffer' = [buffer EXCEPT ![r] = {}]
  <2>1. entries'[t] = buffer[r] /\ buffer'[r] = {}
        /\ (\A u \in Ticks : u # t => entries'[u] = entries[u])
        /\ (\A q \in Rooms : q # r => buffer'[q] = buffer[q])
    BY <1>2 DEF TypeOK
  <2>2. RowsApart'
    BY DEF OnceInv, RowsApart
  <2>3. BuffersApart'
    BY <2>1 DEF OnceInv, BuffersApart
  <2>4. WritesApart'
    BY <2>1 DEF OnceInv, BuffersApart, WritesApart
  <2> QED
    BY <2>2, <2>3, <2>4 DEF OnceInv
<1> QED
  BY <1>1, <1>2 DEF FlushUpdates

\* The INSERT puts the edits of the write into a row of their own.
LEMMA OnceCreate ==
  ASSUME TypeOK, OnceInv, NEW t \in Ticks, CreateOk(t)
  PROVE  OnceInv'
<1> DEFINE new == [id |-> nextRow, upd |-> entries[t]]
<1>1. /\ rows' = rows \cup {new} /\ UNCHANGED <<buffer, accepted>>
      /\ entries'[t] = {} /\ \A u \in Ticks : u # t => entries'[u] = entries[u]
  BY DEF CreateOk, TypeOK, history
<1>2. new.upd = entries[t]
  OBVIOUS
<1> HIDE DEF new
<1>3. RowsApart'
  BY <1>1, <1>2 DEF OnceInv, RowsApart, WritesApart
<1>4. BuffersApart'
  BY <1>1, <1>2 DEF OnceInv, BuffersApart, WritesApart
<1>5. WritesApart'
  BY <1>1, <1>2 DEF OnceInv, WritesApart
<1> QED
  BY <1>3, <1>4, <1>5 DEF OnceInv

\* It throws: they go back into the buffer of the room they came from.
LEMMA OnceFails ==
  ASSUME TypeOK, OnceInv, NEW t \in Ticks, CreateFails(t), "lostReply" \notin Env
  PROVE  OnceInv'
<1> DEFINE r == on[t]
<1>1. r \in Rooms
  BY DEF CreateFails, TypeOK
<1>2. /\ UNCHANGED <<rows, accepted>>
      /\ buffer'[r] = entries[t] \cup buffer[r] /\ entries'[t] = {}
      /\ \A q \in Rooms : q # r => buffer'[q] = buffer[q]
      /\ \A u \in Ticks : u # t => entries'[u] = entries[u]
  BY <1>1 DEF CreateFails, TypeOK, history
<1> HIDE DEF r
<1>3. RowsApart'
  BY <1>2 DEF OnceInv, RowsApart
<1>4. BuffersApart'
  BY <1>1, <1>2 DEF OnceInv, BuffersApart, WritesApart
<1>5. WritesApart'
  BY <1>1, <1>2 DEF OnceInv, WritesApart
<1> QED
  BY <1>3, <1>4, <1>5 DEF OnceInv

\* Every step keeps each edit in one place.
LEMMA OnceStep ==
  ASSUME TypeOK, OnceInv, [Next]_vars, "lostReply" \notin Env
  PROVE  OnceInv'
<1> USE DEF store, room, sockets, tick, history
<1>1. ASSUME NEW c \in Clients, NEW r \in Rooms, CreateRoom(c, r) PROVE OnceInv'
  <2>1. /\ UNCHANGED <<rows, entries, accepted>> /\ buffer'[r] = {}
        /\ \A q \in Rooms : q # r => buffer'[q] = buffer[q]
    BY <1>1 DEF CreateRoom, TypeOK
  <2> QED
    BY <2>1 DEF OnceInv, RowsApart, BuffersApart, WritesApart
<1>2. ASSUME NEW c \in Clients,
             Connect(c) \/ LoadBase(c) \/ LoadTail(c) \/ LoadFails(c) \/ Disconnect(c) \/ CloseWhileLoading(c)
      PROVE  OnceInv'
  BY <1>2, OnceFrame DEF Connect, LoadBase, LoadTail, LoadFails, Disconnect, CloseWhileLoading
<1>3. ASSUME NEW c \in Clients, NEW e \in Edits, Edit(c, e) PROVE OnceInv'
  <2> DEFINE r == conn[c]
  <2>1. r \in Rooms
    BY <1>3, NoRoomAssumption DEF Edit, TypeOK
  <2>2. /\ UNCHANGED <<rows, entries>> /\ accepted' = accepted \cup {e} /\ e \notin accepted
        /\ buffer'[r] \subseteq buffer[r] \cup {e}
        /\ \A q \in Rooms : q # r => buffer'[q] = buffer[q]
    BY <1>3, <2>1 DEF Edit, TypeOK
  <2> HIDE DEF r
  <2>3. RowsApart'
    BY <2>2 DEF OnceInv, RowsApart
  <2>4. BuffersApart'
    BY <2>1, <2>2 DEF OnceInv, RowsApart, BuffersApart
  <2>5. WritesApart'
    BY <2>1, <2>2 DEF OnceInv, WritesApart
  <2> QED
    BY <2>3, <2>4, <2>5 DEF OnceInv
<1>4. ASSUME NEW t \in Ticks,
             \/ TickStart(t) \/ FlushNotDue(t) \/ SnapshotNotDue(t) \/ StayWarm(t) \/ Destroy(t)
             \/ Write(t) \/ PrevOk(t) \/ PutOk(t) \/ VerifyOk(t) \/ RecordOk(t)
             \/ WriteFails(t) \/ WriteLosesReply(t)
             \/ DeleteObject(t) \/ DeleteSnapshotRow(t) \/ SnapshotDone(t)
      PROVE  OnceInv'
  BY <1>4, OnceFrame
  DEF TickStart, FlushNotDue, SnapshotNotDue, StayWarm, Destroy, Write, PrevOk, PutOk, VerifyOk,
      RecordOk, WriteFails, WriteLosesReply, DeleteObject, DeleteSnapshotRow, SnapshotDone
<1>5. ASSUME NEW t \in Ticks, Prune(t) PROVE OnceInv'
  BY <1>5, OnceFrame DEF Prune, Tail
<1>6. ASSUME NEW t \in Ticks,
             FlushDue(t) \/ SnapshotDue(t) \/ EvictIdle(t) \/ EvictCompact(t) \/ EvictRest(t)
      PROVE  OnceInv'
  <2>1. UNCHANGED <<rows, accepted>>
    BY <1>6 DEF FlushDue, SnapshotDue, EvictIdle, EvictCompact, EvictRest
  <2>2. CASE UNCHANGED <<entries, buffer>>
    BY <2>1, <2>2, OnceFrame
  <2>3. CASE \E r \in Rooms : \E next : FlushUpdates(t, r, next)
    BY <2>1, <2>3, OnceFlush
  <2>4. on[t] \in Rooms
    BY <1>6 DEF FlushDue, SnapshotDue, EvictIdle, EvictCompact, EvictRest, TypeOK
  <2> QED
    BY <1>6, <2>2, <2>3, <2>4
    DEF FlushDue, SnapshotDue, EvictIdle, EvictCompact, EvictRest, MaybeSnapshot, TypeOK
<1>7. ASSUME NEW t \in Ticks, CreateOk(t) \/ CreateFails(t) PROVE OnceInv'
  BY <1>7, OnceCreate, OnceFails
<1>8. CASE Crash
  <2>1. /\ UNCHANGED <<rows, accepted>>
        /\ \A q \in Rooms : buffer'[q] = {}
        /\ \A u \in Ticks : entries'[u] = {}
    BY <1>8 DEF Crash
  <2> QED
    BY <2>1 DEF OnceInv, RowsApart, BuffersApart, WritesApart
<1>9. CASE UNCHANGED vars
  BY <1>9, OnceFrame DEF vars
<1> QED
  BY <1>1, <1>2, <1>3, <1>4, <1>5, <1>6, <1>7, <1>8, <1>9 DEF Next, ClientNext, TickNext

\* Each edit is written once (RM 705-752: the buffer is emptied before the INSERT is
\* awaited, and put back only if that throws): no two rows of the log hold the same
\* edit, and none that a row holds is still to be written.  Ticks may overlap, clients
\* may join a room that is being evicted, calls may fail and the process may die.
THEOREM EditsAreWrittenOnce ==
  ASSUME "lostReply" \notin Env PROVE Spec => []NoDuplicateRows
<1>1. Init => OnceInv
  BY DEF Init, OnceInv, RowsApart, BuffersApart, WritesApart
<1>2. TypeOK /\ OnceInv /\ [Next]_vars => OnceInv'
  BY OnceStep
<1>3. OnceInv => NoDuplicateRows
  BY DEF OnceInv, RowsApart, BuffersApart, WritesApart, NoDuplicateRows, EditsOf, Pending, Buffered, BeingWritten
<1> QED
  BY <1>1, <1>2, <1>3, TypeCorrect, PTL DEF Spec

(***************************************************************************)
(* No more than the limit                                                  *)
(***************************************************************************)

\* Postgres is there whenever a tick writes, and the process lives.
Reliable == {"s3", "loadFails", "closeLoading", "someLost"}

LEMMA ReliableIsOrdinary ==
  ASSUME Env \subseteq Reliable
  PROVE  /\ Env \subseteq Ordinary
         /\ "db" \notin Env /\ "lostReply" \notin Env /\ "crash" \notin Env
BY DEF Reliable, Ordinary

\* No expiry under way is about to delete it.
Stays(s) == \A t \in Ticks : pc[t] = "expire" => s \notin Expired(t)

\* Versions run without gaps from the oldest that stays to the newest, of which the
\* next compaction takes the successor; only while one retires the old ones are there
\* more than the limit, or rows that the oldest already covers.
WithinLimit ==
  (\A t \in Ticks : pc[t] \notin {"prune", "expire"}) =>
    \A s, x \in snaps : x.version < s.version + HistoryLimit
NextVersion == \A t \in Ticks : pc[t] \in {"put", "verify", "record"} =>
  snaps = {} \/ \E s \in snaps : shot[t].version = s.version + 1
NoGaps == \A s, x \in snaps, v \in Nat :
  Stays(s) /\ s.version <= v /\ v <= x.version => \E y \in snaps : y.version = v
RowsNeeded ==
  (\A t \in Ticks : pc[t] # "prune") =>
    \A r \in rows : snaps = {} \/ \E s \in snaps : Stays(s) /\ s.upTo < r.id
HistoryInv == WithinLimit /\ NextVersion /\ NoGaps /\ RowsNeeded

\* A tick under way is alone.
LEMMA Alone ==
  ASSUME TypeOK, TickInv, NEW t \in Ticks, pc[t] # "idle", NEW r, NEW p, Goto(t, r, p)
  PROVE  pc'[t] = p /\ \A u \in Ticks : u # t => pc[u] = "idle" /\ pc'[u] = "idle"
BY DEF TypeOK, TickInv, Goto

\* A step that is no part of a compaction after its findFirst.
LEMMA HistoryFrame ==
  ASSUME HistoryInv, UNCHANGED <<snaps, rows>>,
         \A t \in Ticks : pc'[t] \in {"put", "verify", "record", "prune", "expire"} =>
           pc'[t] = pc[t] /\ shot'[t] = shot[t],
         \A t \in Ticks : pc[t] \in {"prune", "expire"} => pc'[t] = pc[t]
  PROVE  HistoryInv'
<1>1. \A s \in snaps : Stays(s)' <=> Stays(s)
  BY DEF Stays, Expired
<1>2. WithinLimit'
  BY DEF HistoryInv, WithinLimit
<1>3. NextVersion'
  BY DEF HistoryInv, NextVersion
<1>4. NoGaps'
  BY <1>1 DEF HistoryInv, NoGaps
<1>5. RowsNeeded'
  BY <1>1 DEF HistoryInv, RowsNeeded
<1> QED
  BY <1>2, <1>3, <1>4, <1>5 DEF HistoryInv

\* No two snapshots have one version, and versions are bounded.
LEMMA SnapsFinite ==
  ASSUME TypeOK, SnapInv
  PROVE  IsFiniteSet(snaps)
<1> DEFINE f == [x \in snaps |-> x.version]
<1>1. f \in Injection(snaps, 0 .. MaxVersion)
  BY DEF Injection, IsInjective, TypeOK, SnapInv
<1>2. IsFiniteSet(0 .. MaxVersion)
  BY FS_Interval, BoundAssumption
<1> HIDE DEF f
<1> QED
  BY <1>1, <1>2, FS_Injection

\* What the limit's newest versions are is what expiry leaves: without gaps, a version
\* that is to expire has the limit's number of newer ones.
LEMMA KeptStays ==
  ASSUME TypeOK, SnapInv, NEW t \in Ticks, NEW s \in Kept,
         \A v \in Nat : s.version <= v /\ v <= shot[t].version => \E y \in snaps : y.version = v
  PROVE  s \notin Expired(t)
<1> SUFFICES ASSUME s.version + HistoryLimit < shot[t].version + 1 PROVE FALSE
  BY DEF Expired
<1>1. s \in snaps /\ s.version \in Nat /\ shot[t].version \in Nat /\ HistoryLimit \in Nat \ {0}
  BY BoundAssumption, LimitAssumption DEF Kept, TypeOK
<1> DEFINE lo == s.version + 1
           hi == s.version + HistoryLimit
           f == [v \in lo .. hi |-> CHOOSE y \in snaps : y.version = v]
<1>2. ASSUME NEW v \in lo .. hi PROVE f[v] \in Newer(s) /\ f[v].version = v
  <2>1. v \in Nat /\ s.version <= v /\ v <= shot[t].version /\ s.version < v
    BY <1>1
  <2>2. \E y \in snaps : y.version = v
    BY <2>1
  <2> QED
    BY <2>1, <2>2 DEF Newer
<1>3. f \in Injection(lo .. hi, Newer(s))
  <2>1. f \in [lo .. hi -> Newer(s)]
    BY <1>2
  <2>2. \A v, w \in lo .. hi : f[v] = f[w] => v = w
    BY <1>2
  <2> HIDE DEF f, lo, hi
  <2> QED
    BY <2>1, <2>2 DEF Injection, IsInjective
<1>4. Cardinality(lo .. hi) = HistoryLimit
  <2>1. ASSUME NEW a \in Int, NEW b \in Int, a <= b
        PROVE  Cardinality(a .. b) = b - a + 1
    BY <2>1, FS_Interval
  <2>2. lo \in Int /\ hi \in Int /\ lo <= hi /\ hi - lo + 1 = HistoryLimit
    BY <1>1
  <2> HIDE DEF lo, hi
  <2> QED
    BY <2>1, <2>2
<1>5. IsFiniteSet(Newer(s)) /\ Cardinality(Newer(s)) < HistoryLimit
  BY SnapsFinite, FS_Subset DEF Kept, Newer
<1> HIDE DEF f, lo, hi
<1>6. Cardinality(lo .. hi) <= Cardinality(Newer(s))
  BY <1>3, <1>5, FS_Injection
<1>7. Cardinality(Newer(s)) \in Nat
  BY <1>5, FS_CardinalityType
<1> QED
  BY <1>1, <1>4, <1>5, <1>6, <1>7

\* A compaction records the successor of the newest version.
LEMMA HistoryRecord ==
  ASSUME Inv, HistoryInv, NEW t \in Ticks, RecordOk(t)
  PROVE  HistoryInv'
<1>1. TypeOK /\ TickInv /\ SnapInv /\ ShotFacts(t)
  BY DEF Inv, ShotInv
<1> DEFINE new == NewSnapshot(t)
<1>2. /\ snaps' = snaps \cup {new} /\ UNCHANGED <<rows, shot>>
      /\ pc[t] = "record" /\ pc'[t] = IF shot[t].upTo > 0 THEN "prune" ELSE "expire"
      /\ \A u \in Ticks : u # t => pc[u] = "idle" /\ pc'[u] = "idle"
  BY <1>1, Alone DEF RecordOk, room
<1>3. new.version = shot[t].version /\ new.upTo = shot[t].upTo /\ new.version \in Nat
      /\ \A x \in snaps : x.version \in Nat /\ x.version < new.version
  BY <1>1, <1>2, BoundAssumption DEF NewSnapshot, ShotFacts, TypeOK
<1>4. \A s \in snaps : Stays(s)
  BY <1>2 DEF Stays
<1>5. WithinLimit'
  BY <1>2 DEF WithinLimit
<1>6. NextVersion'
  BY <1>2 DEF NextVersion
<1>7. NoGaps'
  <2> SUFFICES ASSUME NEW s \in snaps', NEW x \in snaps', NEW v \in Nat,
                      s.version <= v, v <= x.version
               PROVE  \E y \in snaps' : y.version = v
    BY DEF NoGaps
  <2>1. CASE v = new.version
    BY <1>2, <2>1
  <2>2. CASE v # new.version
    <3>1. v < new.version /\ s \in snaps
      BY <1>2, <1>3, <2>2
    <3>2. PICK n \in snaps : new.version = n.version + 1
      BY <1>2, <1>3, <3>1 DEF HistoryInv, NextVersion
    <3>3. v <= n.version
      BY <1>3, <3>1, <3>2
    <3> QED
      BY <1>2, <1>4, <3>1, <3>3 DEF HistoryInv, NoGaps
  <2> QED
    BY <2>1, <2>2
<1>8. RowsNeeded'
  <2>1. CASE shot[t].upTo > 0
    BY <1>2, <2>1 DEF RowsNeeded
  <2>2. CASE shot[t].upTo = 0
    <3>1. ASSUME NEW s, s = new PROVE Stays(s)'
      <4>1. ~(s.version + HistoryLimit < shot'[t].version + 1)
        BY <1>2, <1>3, <3>1, LimitAssumption
      <4>2. s \notin Expired(t)'
        BY <4>1 DEF Expired
      <4> QED
        BY <1>2, <4>2 DEF Stays
    <3>2. \A r \in rows : new.upTo < r.id
      BY <1>1, <1>3, <2>2 DEF TypeOK
    <3>3. PICK s \in snaps' : s = new
      BY <1>2
    <3>4. Stays(s)' /\ \A r \in rows' : s.upTo < r.id
      BY <1>2, <3>1, <3>2, <3>3
    <3> QED
      BY <3>4 DEF RowsNeeded
  <2> QED
    BY <1>1, <2>1, <2>2 DEF TypeOK
<1> QED
  BY <1>5, <1>6, <1>7, <1>8 DEF HistoryInv

\* It prunes the rows that the oldest kept version covers, and no other: that version
\* is not among those that expire.
LEMMA HistoryPrune ==
  ASSUME Env \subseteq Reliable, Inv, HistoryInv, NEW t \in Ticks, Prune(t)
  PROVE  HistoryInv'
<1>1. TypeOK /\ TickInv /\ SnapInv /\ ShotFacts(t)
  BY DEF Inv, ShotInv
<1>2. /\ UNCHANGED <<snaps, shot>> /\ pc[t] = "prune" /\ pc'[t] = "expire"
      /\ \A u \in Ticks : u # t => pc[u] = "idle" /\ pc'[u] = "idle"
  BY <1>1, Alone DEF Prune
<1>3. \A s \in snaps : Stays(s)
  BY <1>2 DEF Stays
<1>4. WithinLimit' /\ NextVersion'
  BY <1>2 DEF WithinLimit, NextVersion
<1>5. NoGaps'
  BY <1>2, <1>3 DEF HistoryInv, NoGaps
<1>6. RowsNeeded'
  <2>1. PICK n \in 0 .. MaxRow : Cutoff(t, n) /\ rows' = Tail(n)
    BY ReliableIsOrdinary DEF Prune
  <2>2. PICK s \in Kept : n = IF s.version >= shot[t].version THEN shot[t].upTo ELSE s.upTo
    BY <2>1 DEF Cutoff
  <2>3. s \in snaps /\ NewSnapshot(t) \in snaps /\ IsNewest(NewSnapshot(t), snaps)
        /\ NewSnapshot(t).version = shot[t].version /\ NewSnapshot(t).upTo = shot[t].upTo
    BY <1>1, <1>2 DEF Kept, ShotFacts, NewSnapshot
  <2>4. n = s.upTo
    <3>1. s.version \in Nat /\ shot[t].version \in Nat
      BY <1>1, <2>3, BoundAssumption DEF TypeOK
    <3>2. CASE s.version >= shot[t].version
      <4>1. s.version = NewSnapshot(t).version
        BY <2>3, <3>1, <3>2 DEF IsNewest
      <4>2. s = NewSnapshot(t)
        BY <1>1, <2>3, <4>1 DEF SnapInv
      <4> QED
        BY <2>2, <2>3, <3>2, <4>2
    <3> QED
      BY <2>2, <3>2
  <2>5. s \notin Expired(t)
    BY <1>1, <1>3, <2>3, KeptStays DEF HistoryInv, NoGaps
  <2>6. Stays(s)'
    BY <1>2, <2>5 DEF Stays, Expired
  <2>7. \A r \in rows' : s.upTo < r.id
    BY <1>1, <2>1, <2>4 DEF Tail, TypeOK
  <2> QED
    BY <1>2, <2>3, <2>6, <2>7 DEF RowsNeeded
<1> QED
  BY <1>4, <1>5, <1>6 DEF HistoryInv

\* It deletes only what expires, and ends when nothing of that is left.
LEMMA HistoryExpire ==
  ASSUME Env \subseteq Reliable, Inv, HistoryInv, NEW t \in Ticks,
         DeleteSnapshotRow(t) \/ SnapshotDone(t)
  PROVE  HistoryInv'
<1>1. TypeOK /\ TickInv /\ SnapInv /\ ShotFacts(t)
  BY DEF Inv, ShotInv
<1>2. pc[t] = "expire" /\ \A u \in Ticks : u # t => pc[u] = "idle"
  BY <1>1 DEF DeleteSnapshotRow, SnapshotDone, TickInv
<1>3. \A s \in snaps : Stays(s) <=> s \notin Expired(t)
  BY <1>2 DEF Stays
<1>4. CASE DeleteSnapshotRow(t)
  <2>1. PICK d \in Expired(t) : snaps' = snaps \ {d}
    BY <1>4 DEF DeleteSnapshotRow
  <2>2. UNCHANGED <<rows, pc, shot>>
    BY <1>4 DEF DeleteSnapshotRow, tick
  <2>3. \A s \in snaps' : Stays(s)' <=> Stays(s)
    BY <1>2, <2>1, <2>2 DEF Stays, Expired
  <2>4. WithinLimit' /\ NextVersion'
    BY <1>2, <2>2 DEF WithinLimit, NextVersion
  <2>5. NoGaps'
    <3> SUFFICES ASSUME NEW s \in snaps', NEW x \in snaps', NEW v \in Nat,
                        Stays(s), s.version <= v, v <= x.version
                 PROVE  \E y \in snaps' : y.version = v
      BY <2>3 DEF NoGaps
    <3>1. PICK y \in snaps : y.version = v
      BY <2>1 DEF HistoryInv, NoGaps
    <3>2. /\ s \in snaps /\ s.version \in Nat /\ y.version \in Nat /\ d.version \in Nat
          /\ shot[t].version \in Nat
      BY <1>1, <2>1, BoundAssumption DEF TypeOK, Expired
    <3>3. ~(s.version + HistoryLimit < shot[t].version + 1)
      BY <1>3, <3>2 DEF Expired
    <3>4. d.version + HistoryLimit < shot[t].version + 1
      BY DEF Expired
    <3>5. y # d
      BY <3>1, <3>2, <3>3, <3>4, LimitAssumption
    <3> QED
      BY <2>1, <3>1, <3>5
  <2>6. RowsNeeded'
    BY <1>2, <1>3, <2>1, <2>2, <2>3 DEF HistoryInv, RowsNeeded
  <2> QED
    BY <2>4, <2>5, <2>6 DEF HistoryInv
<1>5. CASE SnapshotDone(t)
  <2>1. /\ UNCHANGED <<snaps, rows>> /\ Expired(t) = {}
        /\ pc'[t] \in {"evict?", "rest?"} /\ \A u \in Ticks : u # t => pc'[u] = "idle"
    BY <1>1, <1>2, <1>5, Alone, ReliableIsOrdinary DEF SnapshotDone, store, TypeOK
  <2>2. \A s \in snaps : Stays(s) /\ Stays(s)'
    BY <1>3, <2>1 DEF Stays
  <2>3. WithinLimit'
    <3> SUFFICES ASSUME NEW s \in snaps, NEW x \in snaps
                 PROVE  x.version < s.version + HistoryLimit
      BY <2>1 DEF WithinLimit
    <3>1. s.version \in Nat /\ x.version \in Nat /\ shot[t].version \in Nat
      BY <1>1, BoundAssumption DEF TypeOK
    <3>2. x.version <= shot[t].version
      BY <1>1, <1>2 DEF ShotFacts, IsNewest, NewSnapshot
    <3>3. ~(s.version + HistoryLimit < shot[t].version + 1)
      BY <2>1 DEF Expired
    <3> QED
      BY <3>1, <3>2, <3>3, LimitAssumption
  <2>4. NextVersion'
    BY <2>1 DEF NextVersion
  <2>5. NoGaps'
    BY <2>1, <2>2 DEF HistoryInv, NoGaps
  <2>6. RowsNeeded'
    BY <1>2, <2>1, <2>2 DEF HistoryInv, RowsNeeded
  <2> QED
    BY <2>3, <2>4, <2>5, <2>6 DEF HistoryInv
<1> QED
  BY <1>4, <1>5

\* findFirst finds the newest version; the INSERT's row is above all that versions cover.
LEMMA HistoryGrows ==
  ASSUME Inv, HistoryInv, NEW t \in Ticks, PrevOk(t) \/ CreateOk(t)
  PROVE  HistoryInv'
<1>1. TypeOK /\ TickInv /\ SnapInv
  BY DEF Inv
<1>2. pc[t] \in {"prev", "create"} /\ \A u \in Ticks : u # t => pc[u] = "idle" /\ pc'[u] = "idle"
  BY <1>1, Alone DEF PrevOk, CreateOk
<1>3. CASE PrevOk(t)
  <2>1. UNCHANGED <<snaps, rows>> /\ pc'[t] = "put"
    BY <1>1, <1>3, Alone DEF PrevOk, store
  <2>2. \A s \in snaps : Stays(s) /\ Stays(s)'
    BY <1>2, <2>1 DEF Stays
  <2>3. WithinLimit'
    BY <1>2, <2>1 DEF HistoryInv, WithinLimit
  <2>4. NextVersion'
    <3>1. snaps = {} \/ \E s \in snaps : shot'[t].version = s.version + 1
      BY <1>1, <1>3 DEF PrevOk, TypeOK
    <3> QED
      BY <1>2, <2>1, <3>1 DEF NextVersion
  <2>5. NoGaps' /\ RowsNeeded'
    BY <1>2, <2>1, <2>2 DEF HistoryInv, NoGaps, RowsNeeded
  <2> QED
    BY <2>3, <2>4, <2>5 DEF HistoryInv
<1>4. CASE CreateOk(t)
  <2>1. /\ UNCHANGED <<snaps, shot>> /\ rows' = rows \cup {[id |-> nextRow, upd |-> entries[t]]}
        /\ pc'[t] \in {"snapshot?", "write", "compact?", "destroy"}
    BY <1>1, <1>4, Alone DEF CreateOk, TypeOK
  <2>2. \A s \in snaps : Stays(s) /\ Stays(s)' /\ s.upTo < nextRow
    BY <1>1, <1>2, <2>1 DEF Stays, SnapInv
  <2>3. WithinLimit' /\ NextVersion'
    BY <1>2, <2>1 DEF HistoryInv, WithinLimit, NextVersion
  <2>4. NoGaps' /\ RowsNeeded'
    BY <1>2, <2>1, <2>2 DEF HistoryInv, NoGaps, RowsNeeded
  <2> QED
    BY <2>3, <2>4 DEF HistoryInv
<1> QED
  BY <1>3, <1>4

\* No other step of a tick writes a version or a row, or begins an expiry.
LEMMA HistoryTick ==
  ASSUME Env \subseteq Reliable, Inv, HistoryInv, NEW t \in Ticks,
         \/ TickStart(t) \/ FlushDue(t) \/ FlushNotDue(t) \/ SnapshotDue(t) \/ SnapshotNotDue(t)
         \/ Write(t) \/ PutOk(t) \/ VerifyOk(t) \/ WriteFails(t)
         \/ EvictIdle(t) \/ StayWarm(t) \/ EvictCompact(t) \/ EvictRest(t) \/ Destroy(t)
  PROVE  HistoryInv'
<1>1. TypeOK /\ TickInv /\ ShotFacts(t)
  BY DEF Inv, ShotInv
<1>2. UNCHANGED <<snaps, rows>>
  BY DEF TickStart, FlushDue, FlushNotDue, SnapshotDue, SnapshotNotDue, Write, PutOk, VerifyOk,
         WriteFails, EvictIdle, StayWarm, EvictCompact, EvictRest, Destroy, store
<1>3. CASE PutOk(t) \/ VerifyOk(t)
  <2>1. /\ pc[t] \in {"put", "verify"} /\ pc'[t] \in {"verify", "record"}
        /\ shot'[t].version = shot[t].version
        /\ \A u \in Ticks : u # t => pc[u] = "idle" /\ pc'[u] = "idle"
    BY <1>1, <1>3, Alone DEF PutOk, VerifyOk, TypeOK
  <2>2. \A s \in snaps : Stays(s) /\ Stays(s)'
    BY <2>1 DEF Stays
  <2>3. WithinLimit' /\ NextVersion'
    BY <1>2, <2>1 DEF HistoryInv, WithinLimit, NextVersion
  <2>4. NoGaps' /\ RowsNeeded'
    BY <1>2, <2>1, <2>2 DEF HistoryInv, NoGaps, RowsNeeded
  <2> QED
    BY <2>3, <2>4 DEF HistoryInv
<1>4. CASE ~(PutOk(t) \/ VerifyOk(t))
  <2>1. pc[t] \notin {"prune", "expire"}
    BY <1>4, ReliableIsOrdinary
    DEF TickStart, FlushDue, FlushNotDue, SnapshotDue, SnapshotNotDue, Write, WriteFails, EvictIdle,
        StayWarm, EvictCompact, EvictRest, Destroy
  <2>2. \E r, p : Goto(t, r, p) /\ p \notin {"put", "verify", "record", "prune", "expire"}
    <3>1. CASE \/ FlushDue(t) \/ SnapshotDue(t) \/ EvictIdle(t) \/ EvictCompact(t) \/ EvictRest(t)
      BY <3>1 DEF FlushDue, SnapshotDue, EvictIdle, EvictCompact, EvictRest, MaybeSnapshot, FlushUpdates
    <3>2. CASE TickStart(t) \/ FlushNotDue(t) \/ SnapshotNotDue(t) \/ StayWarm(t) \/ Destroy(t)
      BY <3>2 DEF TickStart, FlushNotDue, SnapshotNotDue, StayWarm, Destroy
    <3>3. CASE Write(t) \/ WriteFails(t)
      <4>1. back[t] \notin {"put", "verify", "record", "prune", "expire"}
        BY <1>1 DEF TypeOK
      <4>2. \/ Goto(t, on[t], "prev")
            \/ Goto(t, on[t], back[t])
        BY <3>3 DEF Write, WriteFails
      <4> QED
        BY <4>1, <4>2
    <3> QED
      BY <1>4, <3>1, <3>2, <3>3
  <2>3. ASSUME NEW u \in Ticks, u # t PROVE pc'[u] = pc[u] /\ shot'[u] = shot[u]
    <3>1. pc'[u] = pc[u]
      BY <1>1, <2>2, <2>3 DEF Goto, TypeOK
    <3>2. \/ UNCHANGED shot
          \/ \E w : shot' = [shot EXCEPT ![t] = w]
      BY <1>4 DEF TickStart, FlushDue, FlushNotDue, SnapshotDue, SnapshotNotDue, Write, WriteFails,
                  EvictIdle, StayWarm, EvictCompact, EvictRest, Destroy
    <3>3. shot'[u] = shot[u]
      BY <1>1, <2>3, <3>2 DEF TypeOK
    <3> QED
      BY <3>1, <3>3
  <2>4. pc'[t] \notin {"put", "verify", "record", "prune", "expire"}
    BY <1>1, <2>2 DEF Goto, TypeOK
  <2> QED
    BY <1>2, <2>1, <2>3, <2>4, HistoryFrame
<1> QED
  BY <1>3, <1>4

LEMMA HistoryStep ==
  ASSUME Env \subseteq Reliable, Inv, HistoryInv, [Next]_vars
  PROVE  HistoryInv'
<1>1. CASE ClientNext \/ UNCHANGED vars
  <2>1. UNCHANGED <<snaps, rows, pc, shot>>
    BY <1>1 DEF ClientNext, Connect, CreateRoom, LoadBase, LoadTail, LoadFails, Edit, Disconnect,
                CloseWhileLoading, vars, store, tick
  <2> QED
    BY <2>1, HistoryFrame
<1>2. ASSUME NEW t \in Ticks, CreateFails(t) \/ WriteLosesReply(t) PROVE FALSE
  BY <1>2, ReliableIsOrdinary DEF CreateFails, WriteLosesReply
<1>3. ASSUME NEW t \in Ticks, DeleteObject(t) PROVE HistoryInv'
  <2>1. UNCHANGED <<snaps, rows, pc, shot>>
    BY <1>3 DEF DeleteObject, tick
  <2> QED
    BY <2>1, HistoryFrame
<1>4. CASE TickNext
  BY <1>2, <1>3, <1>4, HistoryRecord, HistoryPrune, HistoryExpire, HistoryGrows, HistoryTick DEF TickNext
<1>5. ~Crash
  BY ReliableIsOrdinary DEF Crash
<1> QED
  BY <1>1, <1>4, <1>5 DEF Next

\* Versions that differ by less than the limit are no more than the limit.
LEMMA WithinLimitCounts ==
  ASSUME TypeOK, SnapInv, \A s, x \in snaps : x.version < s.version + HistoryLimit
  PROVE  Cardinality(snaps) <= HistoryLimit
<1>1. CASE snaps = {}
  BY <1>1, FS_EmptySet, LimitAssumption
<1>2. CASE snaps # {}
  <2>1. PICK n \in snaps : IsNewest(n, snaps)
    BY <1>2 DEF SnapInv, IsNewest
  <2>2. HistoryLimit \in Nat \ {0} /\ \A s \in snaps : s.version \in Nat
    BY BoundAssumption, LimitAssumption DEF TypeOK
  <2> DEFINE lo == n.version - HistoryLimit + 1
             hi == n.version
             f == [s \in snaps |-> s.version]
  <2>3. \A s \in snaps : f[s] \in lo .. hi
    BY <2>1, <2>2 DEF IsNewest
  <2>4. f \in Injection(snaps, lo .. hi)
    BY <2>3 DEF Injection, IsInjective, SnapInv
  <2>5. IsFiniteSet(lo .. hi) /\ Cardinality(lo .. hi) = HistoryLimit
    <3>1. ASSUME NEW a \in Int, NEW b \in Int, a <= b
          PROVE  IsFiniteSet(a .. b) /\ Cardinality(a .. b) = b - a + 1
      BY <3>1, FS_Interval
    <3>2. lo \in Int /\ hi \in Int /\ lo <= hi /\ hi - lo + 1 = HistoryLimit
      BY <2>2
    <3> HIDE DEF lo, hi
    <3> QED
      BY <3>1, <3>2
  <2> HIDE DEF f, lo, hi
  <2> QED
    BY <2>4, <2>5, FS_Injection
<1> QED
  BY <1>1, <1>2

\* Retention keeps its limit (RM 640-702, README 5.2): when no tick is under way there
\* are at most FILE_HISTORY_LIMIT versions, and no row that all of them cover.  Uploads
\* and loads may fail; a deletion that fails would leave more until the next compaction.
THEOREM HistoryIsBounded ==
  ASSUME Env \subseteq Reliable PROVE Spec => []HistoryBounded
<1>1. Init => HistoryInv
  BY DEF Init, HistoryInv, WithinLimit, NextVersion, NoGaps, RowsNeeded
<1>2. Inv /\ HistoryInv /\ [Next]_vars => HistoryInv'
  BY HistoryStep
<1>3. Inv /\ HistoryInv => HistoryBounded
  <2> SUFFICES ASSUME Inv, HistoryInv, \A t \in Ticks : pc[t] = "idle"
               PROVE  /\ Cardinality(snaps) <= HistoryLimit
                      /\ \A r \in rows : snaps = {} \/ \E s \in snaps : s.upTo < r.id
    BY DEF HistoryBounded
  <2>1. \A s, x \in snaps : x.version < s.version + HistoryLimit
    BY DEF HistoryInv, WithinLimit
  <2>2. Cardinality(snaps) <= HistoryLimit
    BY <2>1, WithinLimitCounts DEF Inv
  <2> QED
    BY <2>2 DEF HistoryInv, RowsNeeded
<1> QED
  BY <1>1, <1>2, <1>3, ReliableIsOrdinary, InvCorrect, PTL DEF Spec

=============================================================================
