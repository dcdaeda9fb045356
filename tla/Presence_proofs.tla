-------------------------- MODULE Presence_proofs --------------------------
(***************************************************************************)
(* Proofs about Presence, for every set of backends and clients, every     *)
(* bound and every scenario: only a connected client has ids of its own    *)
(* and states to send back, though frames are handled after the close; and *)
(* whoever is in a room that carries the epoch of its reset is on the new  *)
(* text.                                                                   *)
(***************************************************************************)
EXTENDS Presence, SequenceTheorems, TLAPS

Frames == [ids : SUBSET Ids, fresh : BOOLEAN, to : Instances \cup {None}, late : BOOLEAN]
BusFrames == [ids : SUBSET Clients, on : BOOLEAN, fresh : BOOLEAN]
OwnStates == [on : BOOLEAN, epoch : BOOLEAN]
Texts == {"none", "old", "new"}

\* The clients: a frame that waits for its role check is for a room, and is late
\* if its connection has closed.
ClientsOK ==
  /\ at \in [Clients -> Instances \cup {None}]
  /\ ids \in [Clients -> SUBSET Ids] /\ heard \in [Clients -> SUBSET Ids]
  /\ frame \in [Clients -> Frames] /\ text \in [Clients -> Texts]
  /\ \A c \in Clients : at[c] = None => ids[c] = {} /\ heard[c] = {}
  /\ \A c \in Clients : frame[c] # NoFrame =>
       frame[c].to \in Instances /\ (at[c] = None => frame[c].late)

\* The rooms, the bus and the hash.
RoomsOK ==
  /\ aware \in [Instances -> SUBSET Clients] /\ gone \in [Instances -> SUBSET Clients]
  /\ own \in [Instances -> OwnStates] /\ mapped \in [Instances -> SUBSET Ids]
  /\ presence \subseteq Clients /\ restored \subseteq Instances

BusOK == bus \in [Instances -> Seq(BusFrames)] /\ \A i \in Instances : Len(bus[i]) <= MaxQueue

LEMMA NoFrameIs == NoFrame \in Frames /\ NoFrame.to = None /\ ~NoFrame.late
BY DEF NoFrame, Frames

-----------------------------------------------------------------------------
(* What steps are made of. *)

\* Only who is connected is told something.
LEMMA TellTypes ==
  ASSUME ClientsOK, NEW i \in Instances, NEW S \in SUBSET Ids, NEW from
  PROVE  /\ Tell(i, S, from) \in [Clients -> SUBSET Ids]
         /\ \A c \in Clients : at[c] = None => Tell(i, S, from)[c] = {}
<1>1. \A c \in Clients : at[c] = None => at[c] # i
  BY NamesAssumption
<1> QED
  BY <1>1 DEF Tell, ClientsOK

LEMMA PublishTypes ==
  ASSUME BusOK, NEW i \in Instances, NEW S \in SUBSET Clients,
         NEW on \in BOOLEAN, NEW fresh \in BOOLEAN, Publish(i, S, on, fresh)
  PROVE  BusOK'
<1> DEFINE f == [ids |-> S, on |-> on, fresh |-> fresh]
<1>1. f \in BusFrames
  BY DEF BusFrames
<1>2. bus' = [j \in Instances |-> IF j = i THEN bus[j] ELSE Append(bus[j], f)]
  BY DEF Publish
<1> HIDE DEF f
<1>3. ASSUME NEW j \in Instances
      PROVE  bus'[j] \in Seq(BusFrames) /\ Len(bus'[j]) <= MaxQueue
  <2>1. bus[j] \in Seq(BusFrames) /\ Len(bus[j]) <= MaxQueue /\ MaxQueue \in Nat
    BY BoundsAssumption DEF BusOK
  <2>2. CASE j = i
    BY <1>2, <2>1, <2>2
  <2>3. CASE j # i
    <3>1. bus'[j] = Append(bus[j], f) /\ Len(bus[j]) < MaxQueue
      BY <1>2, <2>3 DEF Publish
    <3>2. Len(bus'[j]) = Len(bus[j]) + 1 /\ bus'[j] \in Seq(BusFrames)
      BY <1>1, <2>1, <3>1
    <3> QED
      BY <2>1, <3>1, <3>2
  <2> QED
    BY <2>2, <2>3
<1> QED
  BY <1>2, <1>3 DEF BusOK

LEMMA TakenTypes ==
  ASSUME BusOK, NEW i \in Instances, bus[i] # <<>>, bus' = [bus EXCEPT ![i] = Tail(@)]
  PROVE  BusOK' /\ Head(bus[i]) \in BusFrames
<1>1. bus[i] \in Seq(BusFrames) /\ Len(bus[i]) <= MaxQueue /\ MaxQueue \in Nat
  BY BoundsAssumption DEF BusOK
<1>2. Tail(bus[i]) \in Seq(BusFrames) /\ Len(Tail(bus[i])) = Len(bus[i]) - 1 /\ Head(bus[i]) \in BusFrames
  BY <1>1
<1>3. Len(Tail(bus[i])) <= MaxQueue
  BY <1>1, <1>2, LenProperties
<1> QED
  BY <1>2, <1>3 DEF BusOK

-----------------------------------------------------------------------------
(* The steps. *)

LEMMA JoinTypes ==
  ASSUME ClientsOK, RoomsOK, NEW c \in Clients, NEW i \in Instances, Join(c, i)
  PROVE  ClientsOK' /\ RoomsOK'
<1> DEFINE h == (aware[i] \ {c}) \cup (IF own[i].on THEN {Server} ELSE {})
           f == [ids |-> {c}, fresh |-> FALSE, to |-> i, late |-> FALSE]
           t == IF own[i].epoch \/ (text[c] = "none" /\ restored # {}) THEN "new"
                ELSE IF text[c] = "none" THEN "old" ELSE text[c]
<1>1. /\ at' = [at EXCEPT ![c] = i] /\ ids' = ids
      /\ heard' = [heard EXCEPT ![c] = h] /\ frame' = [frame EXCEPT ![c] = f]
      /\ text' = [text EXCEPT ![c] = t]
  BY DEF Join, ClientsOK
<1>2. h \in SUBSET Ids
  BY DEF RoomsOK, Ids
<1>3. f \in Frames /\ f.to = i /\ ~f.late
  BY DEF Frames, Ids
<1>4. t \in Texts
  BY DEF ClientsOK, Texts
<1> HIDE DEF h, f, t
<1>5. i # None
  BY NamesAssumption
<1>6. ClientsOK'
  BY <1>1, <1>2, <1>3, <1>4, <1>5 DEF ClientsOK
<1> QED
  BY <1>6 DEF Join, RoomsOK, room

\* A connected client sends a frame.
LEMMA SendTypes ==
  ASSUME ClientsOK, NEW c \in Clients, at[c] # None, NEW S \in SUBSET Ids, NEW b \in BOOLEAN,
         frame' = [frame EXCEPT ![c] = [ids |-> S, fresh |-> b, to |-> at[c], late |-> FALSE]],
         heard' = heard \/ heard' = [heard EXCEPT ![c] = {}],
         UNCHANGED <<at, ids, text>>
  PROVE  ClientsOK'
<1> DEFINE f == [ids |-> S, fresh |-> b, to |-> at[c], late |-> FALSE]
<1>1. f \in Frames /\ f.to \in Instances
  BY DEF Frames, ClientsOK
<1>2. frame' = [frame EXCEPT ![c] = f]
  OBVIOUS
<1> HIDE DEF f
<1>3. /\ heard' \in [Clients -> SUBSET Ids]
      /\ \A d \in Clients : at[d] = None => heard'[d] = {}
  BY DEF ClientsOK
<1>4. frame' \in [Clients -> Frames] /\ frame'[c] = f /\ \A d \in Clients : d # c => frame'[d] = frame[d]
  BY <1>1, <1>2 DEF ClientsOK
<1>5. \A d \in Clients : frame'[d] # NoFrame =>
        frame'[d].to \in Instances /\ (at[d] = None => frame'[d].late)
  BY <1>1, <1>4 DEF ClientsOK
<1>6. at' = at /\ ids' = ids /\ text' = text
  OBVIOUS
<1> QED
  BY <1>3, <1>4, <1>5, <1>6 DEF ClientsOK

\* A frame is handled: one that is not late has its connection.
LEMMA HandleTypes ==
  ASSUME ClientsOK, RoomsOK, BusOK, NEW c \in Clients, HandleAwareness(c)
  PROVE  ClientsOK' /\ RoomsOK' /\ BusOK'
<1> DEFINE f == frame[c]
           i == f.to
           applies == c \in f.ids /\ c \notin gone[i]
           news == c \in f.ids /\ IsNews(i, c)
           now == IF applies THEN aware[i] \cup {c} ELSE aware[i]
           owned == f.ids \cap (now \cup IF own[i].on THEN {Server} ELSE {})
<1>1. /\ f # NoFrame
      /\ frame' = [frame EXCEPT ![c] = NoFrame]
      /\ aware' = [aware EXCEPT ![i] = now]
      /\ mapped' = [mapped EXCEPT ![i] = @ \cup owned]
      /\ ids' = Owns(c, owned)
      /\ \/ /\ heard' = Tell(i, {c}, c) /\ Publish(i, {c}, TRUE, f.fresh)
            /\ presence' = Noted(i, {c})
         \/ UNCHANGED <<heard, bus, presence>>
      /\ UNCHANGED <<at, gone, own, text, restored>>
  BY DEF HandleAwareness
<1>2. f \in Frames /\ i \in Instances /\ (at[c] = None => f.late)
  BY <1>1 DEF ClientsOK
<1>3. now \in SUBSET Clients /\ owned \in SUBSET Ids /\ f.fresh \in BOOLEAN
  BY <1>2 DEF RoomsOK, Frames
<1>4. ids' = IF f.late THEN ids ELSE [ids EXCEPT ![c] = @ \cup owned]
  BY <1>1 DEF Owns
<1> HIDE DEF f, i, now, owned, applies, news
<1>5. /\ ids' \in [Clients -> SUBSET Ids]
      /\ \A d \in Clients : at[d] = None => ids'[d] = {}
  BY <1>2, <1>3, <1>4 DEF ClientsOK
<1>6. {c} \in SUBSET Ids /\ {c} \in SUBSET Clients
  BY DEF Ids
<1>7. /\ heard' \in [Clients -> SUBSET Ids]
      /\ \A d \in Clients : at[d] = None => heard'[d] = {}
  <2>1. CASE heard' = Tell(i, {c}, c)
    BY <1>2, <1>6, <2>1, TellTypes
  <2>2. CASE UNCHANGED heard
    BY <2>2 DEF ClientsOK
  <2> QED
    BY <1>1, <2>1, <2>2
<1>8. ClientsOK'
  BY <1>1, <1>5, <1>7, NoFrameIs DEF ClientsOK
<1>9. presence' \subseteq Clients
  BY <1>1, <1>6 DEF Noted, RoomsOK
<1>10. RoomsOK'
  BY <1>1, <1>2, <1>3, <1>9 DEF RoomsOK
<1>11. BusOK'
  <2>1. CASE Publish(i, {c}, TRUE, f.fresh)
    BY <1>2, <1>3, <1>6, <2>1, PublishTypes
  <2>2. CASE UNCHANGED bus
    BY <2>2 DEF BusOK
  <2> QED
    BY <1>1, <2>1, <2>2
<1> QED
  BY <1>8, <1>10, <1>11

\* The states a connection takes along, the room's own perhaps among them.
LEMMA LeaveTypes ==
  ASSUME ClientsOK, RoomsOK, BusOK, NEW c \in Clients, Leave(c)
  PROVE  ClientsOK' /\ RoomsOK' /\ BusOK'
<1> DEFINE i == at[c]
           left == ids[c] \cap aware[i]
           h == Tell(i, left, c)
           b == frame[c].late \/ frame[c] # NoFrame
           g == [frame[c] EXCEPT !.late = b]
           o == own[i].on /\ Server \notin ids[c]
           e == own[i].epoch /\ Server \notin ids[c]
           w == [own[i] EXCEPT !.on = o, !.epoch = e]
<1>1. i \in Instances
  BY DEF Leave, ClientsOK
<1>2. left \in SUBSET Clients /\ left \in SUBSET Ids
  BY <1>1 DEF RoomsOK, Ids
<1>3. frame[c] \in Frames /\ b \in BOOLEAN /\ own[i] \in OwnStates /\ o \in BOOLEAN /\ e \in BOOLEAN
  BY <1>1 DEF ClientsOK, RoomsOK, Frames, OwnStates
<1>4. /\ at' = [at EXCEPT ![c] = None] /\ ids' = [ids EXCEPT ![c] = {}]
      /\ aware' = [aware EXCEPT ![i] = @ \ left] /\ gone' = [gone EXCEPT ![i] = @ \cup left]
      /\ mapped' = [mapped EXCEPT ![i] = @ \ ids[c]] /\ presence' = presence \ ids[c]
      /\ heard' = [h EXCEPT ![c] = {}]
      /\ UNCHANGED bus \/ Publish(i, left, FALSE, FALSE)
      /\ UNCHANGED <<text, restored>>
  BY DEF Leave
<1>5. frame' = [frame EXCEPT ![c] = g]
  BY <1>3 DEF Leave, ClientsOK, Frames
<1>6. own' = [own EXCEPT ![i] = w]
  BY <1>1, <1>3 DEF Leave, RoomsOK, OwnStates
<1>7. /\ h \in [Clients -> SUBSET Ids]
      /\ \A d \in Clients : at[d] = None => h[d] = {}
  BY <1>1, <1>2, TellTypes
<1>8. g \in Frames /\ g.to = frame[c].to /\ g.late = b
  <2> HIDE DEF b
  <2> QED
    BY <1>3 DEF Frames
<1>9. w \in OwnStates
  <2> HIDE DEF o, e
  <2> QED
    BY <1>3 DEF OwnStates
<1>10. ASSUME frame[c] = NoFrame
       PROVE  g = NoFrame
  <2>1. b = FALSE
    BY <1>10, NoFrameIs
  <2>2. g.ids = NoFrame.ids /\ g.fresh = NoFrame.fresh /\ g.to = NoFrame.to /\ g.late = NoFrame.late
    BY <1>3, <1>8, <1>10, <2>1, NoFrameIs DEF Frames
  <2> HIDE DEF g
  <2> QED
    BY <1>8, <2>2, NoFrameIs DEF Frames
<1>11. frame[c] # NoFrame => b /\ frame[c].to \in Instances
  BY DEF ClientsOK
<1> HIDE DEF i, left, h, b, g, o, e, w
<1>12. /\ at' \in [Clients -> Instances \cup {None}] /\ ids' \in [Clients -> SUBSET Ids]
       /\ heard' \in [Clients -> SUBSET Ids] /\ text' \in [Clients -> Texts]
       /\ \A d \in Clients : at'[d] = None => ids'[d] = {} /\ heard'[d] = {}
  BY <1>4, <1>7 DEF ClientsOK
<1>13. /\ frame' \in [Clients -> Frames]
       /\ \A d \in Clients : frame'[d] # NoFrame =>
            frame'[d].to \in Instances /\ (at'[d] = None => frame'[d].late)
  BY <1>4, <1>5, <1>8, <1>10, <1>11 DEF ClientsOK
<1>14. ClientsOK'
  BY <1>12, <1>13 DEF ClientsOK
<1>15. RoomsOK'
  BY <1>1, <1>2, <1>4, <1>6, <1>9 DEF RoomsOK
<1>16. BusOK'
  <2>1. CASE Publish(i, left, FALSE, FALSE)
    BY <1>1, <1>2, <2>1, PublishTypes
  <2>2. CASE UNCHANGED bus
    BY <2>2 DEF BusOK
  <2> QED
    BY <1>4, <2>1, <2>2
<1> QED
  BY <1>14, <1>15, <1>16

\* The clients hear of states, and nothing else of them changes.
LEMMA HearTypes ==
  ASSUME ClientsOK, NEW i \in Instances, NEW S \in SUBSET Ids, NEW from,
         heard' = heard \/ heard' = Tell(i, S, from),
         text' \in [Clients -> Texts], UNCHANGED <<at, ids, frame>>
  PROVE  ClientsOK'
<1>1. /\ heard' \in [Clients -> SUBSET Ids]
      /\ \A d \in Clients : at[d] = None => heard'[d] = {}
  BY TellTypes DEF ClientsOK
<1> QED
  BY <1>1 DEF ClientsOK

LEMMA DeliverTypes ==
  ASSUME ClientsOK, RoomsOK, BusOK, NEW i \in Instances, Deliver(i)
  PROVE  ClientsOK' /\ RoomsOK' /\ BusOK'
<1> DEFINE f == Head(bus[i])
           S == IF ~f.on THEN f.ids \cap aware[i]
                ELSE IF f.fresh THEN f.ids ELSE f.ids \ (gone[i] \cup aware[i])
<1>1. BusOK' /\ f \in BusFrames
  BY TakenTypes DEF Deliver
<1>2. S \in SUBSET Clients /\ S \in SUBSET Ids
  BY <1>1 DEF BusFrames, RoomsOK, Ids
<1>3. /\ aware' = [aware EXCEPT ![i] = IF f.on THEN @ \cup S ELSE @ \ S]
      /\ gone' = [gone EXCEPT ![i] = IF f.on THEN @ \ S ELSE @ \cup S]
      /\ heard' = Tell(i, S, None)
      /\ UNCHANGED <<at, ids, frame, own, mapped, presence, text, restored>>
  BY DEF Deliver
<1> HIDE DEF f, S
<1>4. ClientsOK'
  BY <1>2, <1>3, HearTypes DEF ClientsOK
<1>5. RoomsOK'
  BY <1>2, <1>3 DEF RoomsOK
<1> QED
  BY <1>1, <1>4, <1>5

\* The room's own state changes.
LEMMA SayTypes ==
  ASSUME ClientsOK, RoomsOK, NEW i \in Instances, NEW e \in BOOLEAN, Say(i, e)
  PROVE  /\ own' \in [Instances -> OwnStates] /\ own'[i].epoch = (own[i].on /\ e)
         /\ \A j \in Instances : j # i => own'[j] = own[j]
         /\ heard' = heard \/ heard' = Tell(i, {Server}, None)
<1> DEFINE b == own[i].on /\ e
           w == [own[i] EXCEPT !.epoch = b]
<1>1. own[i] \in OwnStates
  BY DEF RoomsOK
<1>2. b \in BOOLEAN
  BY <1>1 DEF OwnStates
<1>3. own' = [own EXCEPT ![i] = w]
  BY <1>1 DEF Say, RoomsOK, OwnStates
<1>4. w \in OwnStates /\ w.epoch = b
  <2> HIDE DEF b
  <2> QED
    BY <1>1, <1>2 DEF OwnStates
<1>5. heard' = heard \/ heard' = Tell(i, {Server}, None)
  BY DEF Say
<1> HIDE DEF w
<1> QED
  BY <1>3, <1>4, <1>5 DEF RoomsOK

LEMMA TimersTypes ==
  ASSUME ClientsOK, RoomsOK, BusOK,
         \/ \E c \in Clients, i \in Instances : TimeOut(i, c)
         \/ \E c \in Clients : EntryExpires(c)
         \/ \E i \in Instances : Lose(i) \/ Evict(i)
  PROVE  ClientsOK' /\ RoomsOK' /\ BusOK'
<1>1. ASSUME NEW c \in Clients, NEW i \in Instances, TimeOut(i, c)
      PROVE  ClientsOK' /\ RoomsOK' /\ BusOK'
  <2>1. {c} \in SUBSET Ids
    BY DEF Ids
  <2>2. ClientsOK'
    BY <1>1, <2>1, HearTypes DEF TimeOut, ClientsOK
  <2>3. RoomsOK' /\ BusOK'
    BY <1>1 DEF TimeOut, RoomsOK, BusOK
  <2> QED
    BY <2>2, <2>3
<1>2. ASSUME NEW c \in Clients, EntryExpires(c)
      PROVE  ClientsOK' /\ RoomsOK' /\ BusOK'
  BY <1>2 DEF EntryExpires, room, ClientsOK, RoomsOK, BusOK
<1>3. ASSUME NEW i \in Instances, Lose(i)
      PROVE  ClientsOK' /\ RoomsOK' /\ BusOK'
  <2>1. BusOK'
    BY <1>3, TakenTypes DEF Lose
  <2> QED
    BY <1>3, <2>1 DEF Lose, room, ClientsOK, RoomsOK
<1>4. ASSUME NEW i \in Instances, Evict(i)
      PROVE  ClientsOK' /\ RoomsOK' /\ BusOK'
  <2>1. [on |-> TRUE, epoch |-> FALSE] \in OwnStates
    BY DEF OwnStates
  <2>2. RoomsOK'
    BY <1>4, <2>1 DEF Evict, RoomsOK
  <2>3. BusOK'
    <3>1. <<>> \in Seq(BusFrames) /\ Len(<<>>) <= MaxQueue
      BY BoundsAssumption
    <3> QED
      BY <1>4, <3>1 DEF Evict, BusOK
  <2> QED
    BY <1>4, <2>2, <2>3 DEF Evict, ClientsOK
<1> QED
  BY <1>1, <1>2, <1>3, <1>4

TypeInv == env \in Scenarios /\ joins \in 0..MaxJoins /\ ClientsOK /\ RoomsOK /\ BusOK

LEMMA TypeInit == Init => TypeInv
<1> SUFFICES ASSUME Init
             PROVE  TypeInv
  OBVIOUS
<1>1. ClientsOK
  BY NoFrameIs DEF Init, ClientsOK, Texts
<1>2. RoomsOK
  <2>1. [on |-> TRUE, epoch |-> FALSE] \in OwnStates
    BY DEF OwnStates
  <2> QED
    BY <2>1 DEF Init, RoomsOK
<1>3. BusOK /\ joins \in 0..MaxJoins
  <2>1. <<>> \in Seq(BusFrames) /\ Len(<<>>) <= MaxQueue
    BY BoundsAssumption
  <2> QED
    BY <2>1, BoundsAssumption DEF Init, BusOK
<1> QED
  BY <1>1, <1>2, <1>3 DEF Init, TypeInv

LEMMA TypeStep == TypeInv /\ [Next]_vars => TypeInv'
<1> SUFFICES ASSUME TypeInv, [Next]_vars
             PROVE  TypeInv'
  OBVIOUS
<1> USE DEF TypeInv
<1>1. ASSUME NEW c \in Clients, NEW i \in Instances, Join(c, i)
      PROVE  TypeInv'
  <2>1. joins' \in 0..MaxJoins
    BY <1>1, BoundsAssumption DEF Join
  <2> QED
    BY <1>1, <2>1, JoinTypes DEF Join, BusOK
<1>2. ASSUME NEW c \in Clients, Renew(c)
      PROVE  TypeInv'
  <2>1. {c} \in SUBSET Ids
    BY DEF Ids
  <2>2. ClientsOK'
    BY <1>2, <2>1, SendTypes DEF Renew
  <2>3. gone' \in [Instances -> SUBSET Clients]
    BY <1>2 DEF Renew, RoomsOK
  <2> QED
    BY <1>2, <2>2, <2>3 DEF Renew, RoomsOK, BusOK
<1>3. ASSUME NEW c \in Clients, Echo(c)
      PROVE  TypeInv'
  <2>1. heard[c] \in SUBSET Ids
    BY DEF ClientsOK
  <2>2. ClientsOK'
    BY <1>3, <2>1, SendTypes DEF Echo
  <2> QED
    BY <1>3, <2>2 DEF Echo, room, RoomsOK, BusOK
<1>4. ASSUME NEW c \in Clients, HandleAwareness(c)
      PROVE  TypeInv'
  BY <1>4, HandleTypes DEF HandleAwareness
<1>5. ASSUME NEW c \in Clients, Leave(c)
      PROVE  TypeInv'
  BY <1>5, LeaveTypes DEF Leave
<1>6. ASSUME NEW i \in Instances, Deliver(i)
      PROVE  TypeInv'
  BY <1>6, DeliverTypes DEF Deliver
<1>7. ASSUME \/ \E c \in Clients, i \in Instances : TimeOut(i, c)
             \/ \E c \in Clients : EntryExpires(c)
             \/ \E i \in Instances : Lose(i) \/ Evict(i)
      PROVE  TypeInv'
  BY <1>7, TimersTypes DEF TimeOut, EntryExpires, Lose, Evict
<1>8. ASSUME NEW i \in Instances, Save(i) \/ Bump(i)
      PROVE  TypeInv'
  <2>1. PICK e \in BOOLEAN : Say(i, e)
    BY <1>8 DEF Save, Bump
  <2>2. /\ own' \in [Instances -> OwnStates]
        /\ heard' = heard \/ heard' = Tell(i, {Server}, None)
    BY <2>1, SayTypes
  <2>3. {Server} \in SUBSET Ids /\ text' \in [Clients -> Texts]
    BY <1>8 DEF Save, Bump, ClientsOK, Texts, Ids
  <2>4. ClientsOK'
    BY <1>8, <2>2, <2>3, HearTypes DEF Save, Bump
  <2> QED
    BY <1>8, <2>2, <2>4 DEF Save, Bump, RoomsOK, BusOK
<1>9. CASE UNCHANGED vars
  BY <1>9 DEF vars, room, ClientsOK, RoomsOK, BusOK
<1> QED
  BY <1>1, <1>2, <1>3, <1>4, <1>5, <1>6, <1>7, <1>8, <1>9, NamesAssumption DEF Next

LEMMA TypesHold == Spec => []TypeInv
BY TypeInit, TypeStep, PTL DEF Spec

(***************************************************************************)
(* In every scenario, whatever frames are lost and however late a role     *)
(* check answers, a client that is not connected owns no ids and has       *)
(* nothing to send back, so that what is handled after the close is owned  *)
(* by nobody (onDisconnect, handleMessage).                                *)
(***************************************************************************)
THEOREM TypeCorrect == Spec => []TypeOK
<1>1. TypeInv => TypeOK
  BY DEF TypeInv, ClientsOK, RoomsOK, BusOK, TypeOK, Frames, OwnStates, Texts
<1> QED
  BY <1>1, TypesHold, PTL

-----------------------------------------------------------------------------
(* The text. *)

\* The room's own state is set anew only where all that are there hear of it.
LEMMA SaidToAll ==
  ASSUME RoomsOK, ClientsOK, NewTextIsShown, NEW i \in Instances, Save(i) \/ Bump(i)
  PROVE  NewTextIsShown'
<1>1. CASE Save(i)
  <2>1. ~own'[i].epoch /\ \A j \in Instances : j # i => own'[j] = own[j]
    BY <1>1, SayTypes DEF Save
  <2> QED
    BY <1>1, <2>1 DEF Save, NewTextIsShown, Connected
<1>2. CASE Bump(i)
  <2>1. (own'[i].epoch = own[i].on) /\ \A j \in Instances : j # i => own'[j] = own[j]
    <3>1. own[i].on \in BOOLEAN
      BY DEF RoomsOK, OwnStates
    <3> QED
      BY <1>2, <3>1, SayTypes DEF Bump
  <2>2. at' = at /\ \A c \in Clients : text'[c] = IF c \in Reached(i) THEN "new" ELSE text[c]
    BY <1>2 DEF Bump
  <2>3. ASSUME NEW j \in Instances, own'[j].epoch, NEW c \in Clients, at[c] = j
        PROVE  text'[c] = "new"
    BY <2>1, <2>2, <2>3 DEF NewTextIsShown, Connected, Reached
  <2> QED
    BY <2>2, <2>3 DEF NewTextIsShown, Connected
<1> QED
  BY <1>1, <1>2

LEMMA TextStep ==
  ASSUME TypeInv, NewTextIsShown, [Next]_vars
  PROVE  NewTextIsShown'
<1> USE DEF TypeInv
<1>1. ASSUME NEW c \in Clients, NEW i \in Instances, Join(c, i)
      PROVE  NewTextIsShown'
  <2>1. /\ own' = own /\ at' = [at EXCEPT ![c] = i] /\ (own[i].epoch => text'[c] = "new")
        /\ \A d \in Clients : d # c => text'[d] = text[d]
    BY <1>1 DEF Join, room, ClientsOK
  <2>2. ASSUME NEW j \in Instances, own[j].epoch, NEW d \in Clients, at'[d] = j
        PROVE  text'[d] = "new"
    BY <2>1, <2>2 DEF NewTextIsShown, Connected, ClientsOK
  <2> QED
    BY <2>1, <2>2 DEF NewTextIsShown, Connected
<1>2. ASSUME text' = text, \A c \in Clients : at'[c] \in {None, at[c]},
             \A i \in Instances : own'[i].epoch => own[i].epoch
      PROVE  NewTextIsShown'
  BY <1>2, NamesAssumption DEF NewTextIsShown, Connected
<1>3. ASSUME NEW c \in Clients, Leave(c)
      PROVE  NewTextIsShown'
  <2>1. text' = text /\ \A d \in Clients : at'[d] \in {None, at[d]}
    BY <1>3 DEF Leave, ClientsOK
  <2>2. ASSUME NEW i \in Instances
        PROVE  own'[i].epoch => own[i].epoch
    BY <1>3 DEF Leave, RoomsOK, OwnStates
  <2> QED
    BY <1>2, <2>1, <2>2
<1>4. ASSUME NEW i \in Instances, Evict(i)
      PROVE  NewTextIsShown'
  <2>1. \A j \in Instances : own'[j].epoch => own[j].epoch
    BY <1>4 DEF Evict, RoomsOK
  <2> QED
    BY <1>2, <1>4, <2>1 DEF Evict
<1>5. UNCHANGED <<at, own, text>> => NewTextIsShown'
  BY DEF NewTextIsShown, Connected
<1>6. ASSUME \/ \E c \in Clients, i \in Instances : TimeOut(i, c)
             \/ \E c \in Clients : Renew(c) \/ Echo(c) \/ HandleAwareness(c) \/ EntryExpires(c)
             \/ \E i \in Instances : Deliver(i) \/ Lose(i)
             \/ UNCHANGED vars
      PROVE  NewTextIsShown'
  BY <1>5, <1>6 DEF TimeOut, Renew, Echo, HandleAwareness, EntryExpires, Deliver, Lose, vars, room
<1> QED
  BY <1>1, <1>3, <1>4, <1>6, SaidToAll, NamesAssumption DEF Next

(***************************************************************************)
(* Whoever is in a room while it carries the epoch of its reset is on the  *)
(* new text: those that were there hear of it, and those that come are     *)
(* sent it (bumpRestoreEpoch, broadcastSavedAt, useYFile).                 *)
(***************************************************************************)
THEOREM RestoredRoomsShowNewText == Spec => []NewTextIsShown
<1>1. Init => NewTextIsShown
  BY DEF Init, NewTextIsShown
<1>2. TypeInv /\ NewTextIsShown /\ [Next]_vars => NewTextIsShown'
  BY TextStep
<1> QED
  BY <1>1, <1>2, TypesHold, PTL DEF Spec

=============================================================================
