------------------------------ MODULE Presence ------------------------------
(***************************************************************************)
(* Who is shown in one document: the awareness states every room holds,    *)
(* the ids a connection is taken to own, what the bus mirrors, the Redis   *)
(* presence hash, and the room's own state, which carries the time of the  *)
(* last save and the restore epoch to the browsers.                        *)
(*                                                                         *)
(* The browsers run y-websocket: it sends its own state when it connects   *)
(* and every 15 s, and it sends back every state it receives.  A state     *)
(* that a room has removed is accepted again only with a newer clock.      *)
(***************************************************************************)
EXTENDS Naturals, Sequences

CONSTANTS
  Instances, Clients,
  Server,        \* a room's own client id
  Leader,        \* the instance that flushes
  MaxJoins,      \* how often clients connect
  MaxQueue,      \* how many frames a subscription holds at once
  Scenarios,     \* the sets of events that a behaviour may have, see EnvEvents
  None

(*   edit      the leader saves what clients type                          *)
(*   restore   the document is rolled back while it is open                *)
(*   lost      a bus frame is not delivered                                *)
EnvEvents == {"edit", "restore", "lost"}

ASSUME ScenariosAssumption == Scenarios \subseteq SUBSET EnvEvents
ASSUME NamesAssumption == Server \notin Clients /\ None \notin Instances /\ Leader \in Instances
ASSUME BoundsAssumption == MaxJoins \in Nat /\ MaxQueue \in Nat

VARIABLES
  env,           \* what may happen in this behaviour
  at,            \* where each client is connected, or None
  joins,
  ids,           \* conn.docClientIds
  frame,         \* an awareness frame whose role check is awaited
  heard,         \* states a client has received and not yet sent back
  aware,         \* the clients' states each room holds
  gone,          \* those it removed at their present clock
  own,           \* the room's own state: [on, epoch]
  mapped,        \* clientIdToSocket's keys
  bus,           \* frames on the way to each instance
  presence,      \* presence:doc:<fileId>
  text,          \* which text a browser shows
  restored       \* rooms that were reset

room == <<aware, gone, own, mapped>>
vars == <<env, at, joins, ids, frame, heard, room, bus, presence, text, restored>>

Ids == Clients \cup {Server}
NoFrame == [ids |-> {}, fresh |-> FALSE, to |-> None, late |-> FALSE]

(* The types, and that only a connected client has ids of its own.         *)
TypeOK ==
  /\ env \in Scenarios
  /\ at \in [Clients -> Instances \cup {None}]
  /\ joins \in 0..MaxJoins
  /\ ids \in [Clients -> SUBSET Ids]
  /\ frame \in [Clients -> [ids : SUBSET Ids, fresh : BOOLEAN, to : Instances \cup {None}, late : BOOLEAN]]
  /\ heard \in [Clients -> SUBSET Ids]
  /\ aware \in [Instances -> SUBSET Clients]
  /\ gone \in [Instances -> SUBSET Clients]
  /\ own \in [Instances -> [on : BOOLEAN, epoch : BOOLEAN]]
  /\ mapped \in [Instances -> SUBSET Ids]
  /\ \A i \in Instances : Len(bus[i]) <= MaxQueue
  /\ presence \subseteq Clients
  /\ text \in [Clients -> {"none", "old", "new"}]
  /\ restored \subseteq Instances
  /\ \A c \in Clients : at[c] = None => ids[c] = {} /\ heard[c] = {}

Init ==
  /\ env \in Scenarios
  /\ at = [c \in Clients |-> None] /\ joins = 0
  /\ ids = [c \in Clients |-> {}]
  /\ frame = [c \in Clients |-> NoFrame]
  /\ heard = [c \in Clients |-> {}]
  /\ aware = [i \in Instances |-> {}] /\ gone = [i \in Instances |-> {}]
  /\ own = [i \in Instances |-> [on |-> TRUE, epoch |-> FALSE]]
  /\ mapped = [i \in Instances |-> {}]
  /\ bus = [i \in Instances |-> <<>>]
  /\ presence = {}
  /\ text = [c \in Clients |-> "none"]
  /\ restored = {}

Connected(i) == {c \in Clients : at[c] = i}

(* Bound: when a room's own state is at stake, one client at a time is in  *)
(* the leader's room, and no other room is opened.                         *)
MayJoin(i) ==
  {"edit", "restore"} \cap env = {} \/ (i = Leader /\ \A c \in Clients : at[c] = None)

(* The room i tells its sockets, but for the one it heard it from, of S.   *)
Tell(i, S, from) ==
  [c \in Clients |-> IF at[c] = i /\ c # from THEN heard[c] \cup (S \ {c}) ELSE heard[c]]

(* publishAwareness, for a change that came from a socket of i.            *)
Publish(i, S, on, fresh) ==
  /\ \A j \in Instances \ {i} : Len(bus[j]) < MaxQueue
  /\ bus' = [j \in Instances |-> IF j = i THEN bus[j]
               ELSE Append(bus[j], [ids |-> S, on |-> on, fresh |-> fresh])]

-----------------------------------------------------------------------------
(* A socket joins the room: it is sent the states there are, and greets.   *)
Join(c, i) ==
  /\ at[c] = None /\ frame[c] = NoFrame /\ joins < MaxJoins /\ MayJoin(i)
  /\ joins' = joins + 1
  /\ at' = [at EXCEPT ![c] = i]
  /\ heard' = [heard EXCEPT ![c] = (aware[i] \ {c}) \cup (IF own[i].on THEN {Server} ELSE {})]
  /\ frame' = [frame EXCEPT ![c] = [ids |-> {c}, fresh |-> FALSE, to |-> i, late |-> FALSE]]
  /\ text' = [text EXCEPT ![c] =
       IF own[i].epoch \/ (@ = "none" /\ restored # {}) THEN "new" ELSE IF @ = "none" THEN "old" ELSE @]
  /\ UNCHANGED <<env, ids, room, bus, presence, restored>>

(* y-protocols renews the browser's state, with a newer clock. *)
Renew(c) ==
  /\ at[c] # None /\ frame[c] = NoFrame
  /\ frame' = [frame EXCEPT ![c] = [ids |-> {c}, fresh |-> TRUE, to |-> at[c], late |-> FALSE]]
  /\ gone' = [i \in Instances |-> gone[i] \ {c}]
  /\ UNCHANGED <<env, at, joins, ids, heard, aware, own, mapped, bus, presence, text, restored>>

(* y-websocket sends on what it received. *)
Echo(c) ==
  /\ at[c] # None /\ frame[c] = NoFrame /\ heard[c] # {}
  /\ frame' = [frame EXCEPT ![c] = [ids |-> heard[c], fresh |-> FALSE, to |-> at[c], late |-> FALSE]]
  /\ heard' = [heard EXCEPT ![c] = {}]
  /\ UNCHANGED <<env, at, joins, ids, room, bus, presence, text, restored>>

(* syncPresenceFromAwareness writes the entries of mapped clients.         *)
Noted(i, S) == presence \cup (S \cap mapped[i] \cap Clients)

IsNewsOnce(i, c) == c \notin gone[i] /\ c \notin aware[i]   \* mutant: a renewal is no news
(* The frame awaited of c brings a state of c that the room i has not got. *)
IsNews(i, c) == c \notin gone[i] /\ (frame[c].fresh \/ c \notin aware[i])

OwnsLate(c, S) == [ids EXCEPT ![c] = @ \cup S]   \* mutant: also after the close
(* The ids S count as the connection's, unless it has closed meanwhile. *)
Owns(c, S) == IF frame[c].late THEN ids ELSE [ids EXCEPT ![c] = @ \cup S]

(* handleMessage, once the role is known: the state is applied, then all   *)
(* ids of the frame that have a state count as the connection's.           *)
HandleAwareness(c) ==
  LET f == frame[c]
      i == f.to
      applies == c \in f.ids /\ c \notin gone[i]
      news == c \in f.ids /\ IsNews(i, c)
      now == IF applies THEN aware[i] \cup {c} ELSE aware[i]
      owned == f.ids \cap (now \cup IF own[i].on THEN {Server} ELSE {})
  IN /\ f # NoFrame
     /\ frame' = [frame EXCEPT ![c] = NoFrame]
     /\ aware' = [aware EXCEPT ![i] = now]
     /\ mapped' = [mapped EXCEPT ![i] = @ \cup owned]
     /\ ids' = Owns(c, owned)
     /\ IF news
          THEN /\ heard' = Tell(i, {c}, c)
               /\ Publish(i, {c}, TRUE, f.fresh)
               /\ presence' = Noted(i, {c})
          ELSE UNCHANGED <<heard, bus, presence>>
     /\ UNCHANGED <<env, at, joins, gone, own, text, restored>>

(* onDisconnect: removeLocalClients with all of the connection's ids, the  *)
(* room's own among them.                                                  *)
Leave(c) ==
  LET i == at[c]
      left == ids[c] \cap aware[i]
  IN /\ i # None
     /\ at' = [at EXCEPT ![c] = None]
     /\ ids' = [ids EXCEPT ![c] = {}]
     /\ frame' = [frame EXCEPT ![c].late = @ \/ frame[c] # NoFrame]
     /\ aware' = [aware EXCEPT ![i] = @ \ left]
     /\ gone' = [gone EXCEPT ![i] = @ \cup left]
     /\ own' = [own EXCEPT ![i].on = @ /\ Server \notin ids[c],
                           ![i].epoch = @ /\ Server \notin ids[c]]
     /\ mapped' = [mapped EXCEPT ![i] = @ \ ids[c]]
     /\ presence' = presence \ ids[c]
     /\ heard' = [Tell(i, left, c) EXCEPT ![c] = {}]
     /\ IF left = {} THEN UNCHANGED bus ELSE Publish(i, left, FALSE, FALSE)
     /\ UNCHANGED <<env, joins, text, restored>>

(* applyBusAwareness *)
Deliver(i) ==
  /\ bus[i] # <<>>
  /\ bus' = [bus EXCEPT ![i] = Tail(@)]
  /\ LET f == Head(bus[i])
         S == IF ~f.on THEN f.ids \cap aware[i]
              ELSE IF f.fresh THEN f.ids ELSE f.ids \ (gone[i] \cup aware[i])
     IN /\ aware' = [aware EXCEPT ![i] = IF f.on THEN @ \cup S ELSE @ \ S]
        /\ gone' = [gone EXCEPT ![i] = IF f.on THEN @ \ S ELSE @ \cup S]
        /\ heard' = Tell(i, S, None)
  /\ UNCHANGED <<env, at, joins, ids, frame, own, mapped, presence, text, restored>>

Lose(i) ==
  /\ "lost" \in env /\ bus[i] # <<>>
  /\ bus' = [bus EXCEPT ![i] = Tail(@)]
  /\ UNCHANGED <<env, at, joins, ids, frame, heard, room, presence, text, restored>>

StaleHere(i, c) ==   \* mutant: a room drops only what came from its own sockets
  c \in aware[i] \cap mapped[i] /\ at[c] = None /\ frame[c] = NoFrame
Stale(i, c) == c \in aware[i] /\ at[c] = None /\ frame[c] = NoFrame

(* y-protocols drops a state that has not been renewed for 30 s, the hash  *)
(* an entry of that age.                                                   *)
TimeOut(i, c) ==
  /\ Stale(i, c)
  /\ aware' = [aware EXCEPT ![i] = @ \ {c}]
  /\ gone' = [gone EXCEPT ![i] = @ \cup {c}]
  /\ heard' = Tell(i, {c}, None)
  /\ UNCHANGED <<env, at, joins, ids, frame, own, mapped, bus, presence, text, restored>>

EntryExpires(c) ==
  /\ c \in presence /\ at[c] = None
  /\ presence' = presence \ {c}
  /\ UNCHANGED <<env, at, joins, ids, frame, heard, room, bus, text, restored>>

(* The room is evicted; the next one starts afresh. *)
Evict(i) ==
  /\ Connected(i) = {} /\ \A c \in Clients : frame[c].to # i
  /\ aware' = [aware EXCEPT ![i] = {}] /\ gone' = [gone EXCEPT ![i] = {}]
  /\ own' = [own EXCEPT ![i] = [on |-> TRUE, epoch |-> FALSE]]
  /\ mapped' = [mapped EXCEPT ![i] = {}]
  /\ bus' = [bus EXCEPT ![i] = <<>>]
  /\ restored' = restored \ {i}
  /\ UNCHANGED <<env, at, joins, ids, frame, heard, presence, text>>

-----------------------------------------------------------------------------
(* What the room tells the browsers itself.                                *)

(* setLocalStateField, which does nothing once the state is gone.          *)
Say(i, e) ==
  /\ own' = [own EXCEPT ![i].epoch = own[i].on /\ e]
  /\ heard' = IF own[i].on THEN Tell(i, {Server}, None) ELSE heard

ReachedBack(i) == {c \in Connected(i) : Server \in ids[c]}   \* mutant: who sent it back
(* The browsers that a change of the room's own state reaches.             *)
Reached(i) == IF own[i].on THEN Connected(i) ELSE {}

(* broadcastSavedAt, after a flush of the leader i: the field is set anew. *)
Save(i) ==
  /\ "edit" \in env /\ own[i].epoch
  /\ Say(i, FALSE)
  /\ UNCHANGED <<env, at, joins, ids, frame, aware, gone, mapped, bus, presence, text, restored>>

(* bumpRestoreEpoch, when the room has been reset. *)
Bump(i) ==
  /\ "restore" \in env /\ i = Leader /\ i \notin restored
  /\ restored' = restored \cup {i}
  /\ Say(i, TRUE)
  /\ text' = [c \in Clients |-> IF c \in Reached(i) THEN "new" ELSE text[c]]
  /\ UNCHANGED <<env, at, joins, ids, frame, aware, gone, mapped, bus, presence>>

-----------------------------------------------------------------------------
Next ==
  \/ \E c \in Clients, i \in Instances : Join(c, i) \/ TimeOut(i, c)
  \/ \E c \in Clients : \/ Renew(c) \/ Echo(c) \/ HandleAwareness(c) \/ Leave(c)
                        \/ EntryExpires(c)
  \/ \E i \in Instances : Deliver(i) \/ Lose(i) \/ Evict(i) \/ Bump(i)
  \/ Save(Leader)

Spec == Init /\ [][Next]_vars

(* Timers fire and frames arrive.  A renewal waits for the frame before    *)
(* it, a frame for room on the bus: neither is kept waiting for ever.      *)
FairSpec ==
  /\ Spec
  /\ \A i \in Instances : WF_vars(Deliver(i)) /\ \A c \in Clients : WF_vars(TimeOut(i, c))
  /\ \A c \in Clients : SF_vars(Renew(c)) /\ SF_vars(HandleAwareness(c)) /\ WF_vars(EntryExpires(c))

-----------------------------------------------------------------------------
(* Properties. *)

(* Who stays connected is shown to all the others, and is in the hash,     *)
(* though a leaver takes others' states along: they are renewed            *)
(* (handleMessage, onDisconnect, applyBusAwareness).                       *)
EverybodyIsShown == \A c \in Clients :
  (at[c] # None) ~> \/ at[c] = None \/ "lost" \in env
                    \/ /\ c \in presence
                       /\ \A i \in Instances : Connected(i) # {} => c \in aware[i]

(* Who has gone is not shown for ever, by the rooms or by the hash, though *)
(* its last frame is handled late and the others send its state back.      *)
GhostsVanish == \A c \in Clients :
  (at[c] = None) ~> (at[c] # None \/ (c \notin presence /\ \A i \in Instances : c \notin aware[i]))

(* While a room carries the epoch of its reset, whoever is in it, or comes *)
(* back to it, is on the new text (bumpRestoreEpoch, broadcastSavedAt).    *)
NewTextIsShown == \A i \in Instances :
  own[i].epoch => \A c \in Connected(i) : text[c] = "new"
=============================================================================
