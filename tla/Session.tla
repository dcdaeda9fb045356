------------------------------ MODULE Session ------------------------------
(***************************************************************************)
(* Who may be connected to a document: the gateway's upgrade, role cache   *)
(* and per-frame role check, the removal of members with its kick to every *)
(* backend, and the browser that connects, is refused or told, and         *)
(* reconnects.  What the frames do to the document is Backplane's, what    *)
(* they do to the cursors is Presence's.                                   *)
(*                                                                         *)
(* A file stands for the project it belongs to.  A user has one window     *)
(* open on a file, a tab; a tab has at most one socket at a time, though   *)
(* the server may not have noticed yet that an earlier one is gone.        *)
(***************************************************************************)
EXTENDS Naturals, FiniteSets

CONSTANTS
  Instances, Users, Files,
  Sockets,       \* how many sockets the servers know of at once, 1..n
  MaxDrops,      \* how often a connection is lost
  MaxChanges,    \* how often the owner changes a membership
  Scenarios,     \* the sets of events that a behaviour may have, see EnvEvents
  None

(*   drop      a connection is lost                                        *)
(*   cold      a room is loaded when it is joined                          *)
(*   loadFails that load fails                                             *)
(*   vanish    the server is not told of a connection that is lost         *)
(*   db        a role check fails                                          *)
(*   lost      a kick is not published or not delivered                    *)
(*   fast      a socket is closed before the page listens to it            *)
(*   demote, add, delete   what an owner does besides removing members     *)
EnvEvents ==
  {"drop", "cold", "loadFails", "vanish", "db", "lost", "fast", "demote", "add", "delete"}

ASSUME ScenariosAssumption == Scenarios \subseteq SUBSET EnvEvents
ASSUME SocketsAssumption == Sockets \subseteq Nat \ {0} /\ IsFiniteSet(Sockets)
ASSUME BoundsAssumption == MaxDrops \in Nat /\ MaxChanges \in Nat

Tabs == Users \X Files
Roles == {"editor", "viewer"}
Kinds == {"step1", "edit", "beat"}       \* beat: awareness, which needs any role

VARIABLES
  env,           \* what may happen in this behaviour
  role,          \* ProjectMember: [Tabs -> Roles or "none"]
  cache,         \* roleCache of every instance
  sock,          \* the servers' sockets
  members,       \* those in a room's connections and in LiveSessionService
  tab,           \* useYFile's state
  kicks,         \* closures still to be carried out: <<user, instance>>
  drops, changes

vars == <<env, role, cache, sock, members, tab, kicks, drops, changes>>

Free == [tab |-> None, at |-> None, stage |-> "free", heard |-> FALSE,
         greeting |-> FALSE, missed |-> FALSE, frame |-> "none", answer |-> "none"]
Idle == [on |-> 0, synced |-> FALSE, revoked |-> FALSE, readonly |-> FALSE]

SocketStates ==
  {Free} \cup [tab : Tabs, at : Instances,
               stage : {"asking", "admitted", "loading", "abandoned", "open", "closed"},
               heard : BOOLEAN, greeting : BOOLEAN,
               missed : BOOLEAN,   \* a kick came before the socket was registered
               frame : Kinds \cup {"none"},
               answer : Roles \cup {"none", "asking", "refused"}]

(* The types, and that a tab's socket is its own and not closed.           *)
TypeOK ==
  /\ env \in Scenarios
  /\ role \in [Tabs -> Roles \cup {"none"}]
  /\ cache \in [Instances -> [Tabs -> Roles \cup {"none"}]]
  /\ sock \in [Sockets -> SocketStates]
  /\ members \subseteq Sockets
  /\ tab \in [Tabs -> [on : Sockets \cup {0}, synced : BOOLEAN, revoked : BOOLEAN, readonly : BOOLEAN]]
  /\ kicks \subseteq Users \X Instances
  /\ drops \in 0..MaxDrops /\ changes \in 0..MaxChanges
  /\ \A t \in Tabs : tab[t].on # 0 =>
       sock[tab[t].on].tab = t /\ sock[tab[t].on].stage \in {"asking", "admitted", "loading", "open"}

Init ==
  /\ env \in Scenarios
  /\ role = [t \in Tabs |-> "editor"]
  /\ cache = [i \in Instances |-> [t \in Tabs |-> "none"]]
  /\ sock = [k \in Sockets |-> Free]
  /\ members = {}
  /\ tab = [t \in Tabs |-> Idle]
  /\ kicks = {}
  /\ drops = 0 /\ changes = 0

Open(k) == sock[k].stage = "open"
Attached(k) == sock[k].stage # "free" /\ tab[sock[k].tab].on = k

(* A closed socket is forgotten once nothing refers to it.                 *)
Tidy(s, M) == [k \in Sockets |->
  IF s[k].stage = "closed" /\ s[k].frame = "none" /\ k \notin M THEN Free ELSE s[k]]

\* mutants: the page goes on as if connected; has no handler for 1008
LeftKeepsOn(t, revoked) == [tab[t] EXCEPT !.synced = FALSE]
LeftUntold(t, revoked) == [tab[t] EXCEPT !.on = 0, !.synced = FALSE]
(* The tab t sees its socket close: y-websocket connects again, unless the  *)
(* page hears a 1008.                                                      *)
Left(t, revoked) ==
  [tab[t] EXCEPT !.on = 0, !.synced = FALSE,
                 !.revoked = @ \/ revoked, !.readonly = @ \/ revoked]

WithoutKeeps(K) == members   \* mutant: the close handler forgets the room
Without(K) == members \ K

(* The sockets K, all open, are closed with or without the code 1008, and  *)
(* their close handlers run; those of late are not found.                  *)
Close(K, late, policy) ==
  /\ members' = Without(K)
  /\ sock' = Tidy([k \in Sockets |-> IF k \in K
                     THEN [sock[k] EXCEPT !.stage = "closed", !.greeting = FALSE]
                     ELSE IF k \in late THEN [sock[k] EXCEPT !.missed = TRUE] ELSE sock[k]],
                  Without(K))
  /\ cache' = [i \in Instances |-> [t \in Tabs |->
       IF \E k \in K : sock[k].at = i /\ sock[k].tab = t THEN "none" ELSE cache[i][t]]]
  /\ tab' = [t \in Tabs |-> IF tab[t].on \in K
                              THEN Left(t, policy /\ sock[tab[t].on].heard) ELSE tab[t]]

-----------------------------------------------------------------------------
(* Connecting. *)

Connect(t, i) ==
  /\ tab[t].on = 0 /\ ~tab[t].revoked
  /\ \E k \in Sockets :
       /\ sock[k] = Free /\ \A l \in Sockets : l < k => sock[l] # Free
       /\ sock' = [sock EXCEPT ![k] = [Free EXCEPT
                     !.tab = t, !.at = i, !.stage = "asking", !.heard = "fast" \notin env]]
       /\ tab' = [tab EXCEPT ![t].on = k]
  /\ UNCHANGED <<env, role, cache, members, kicks, drops, changes>>

(* The page's 50 ms timer finds the provider's socket. *)
Listen(k) ==
  /\ Attached(k) /\ ~sock[k].heard
  /\ sock' = [sock EXCEPT ![k].heard = TRUE]
  /\ UNCHANGED <<env, role, cache, members, tab, kicks, drops, changes>>

(* The upgrade is refused, or the room is not to be had: the page's socket *)
(* fails and it will try again.                                            *)
TurnAway(k) ==
  /\ sock' = [sock EXCEPT ![k] = Free]
  /\ tab' = IF Attached(k) THEN [tab EXCEPT ![sock[k].tab] = Left(sock[k].tab, FALSE)] ELSE tab
  /\ UNCHANGED members

(* handleUpgrade asks the database for the role, and answers 403 to who has *)
(* none.                                                                   *)
Authorize(k) ==
  /\ sock[k].stage = "asking"
  /\ IF role[sock[k].tab] = "none"
       THEN TurnAway(k)
       ELSE /\ sock' = [sock EXCEPT ![k].stage = "admitted"]
            /\ UNCHANGED <<members, tab>>
  /\ UNCHANGED <<env, role, cache, kicks, drops, changes>>

(* The answer has arrived: the socket opens, the browser greets with        *)
(* sync-step1 and its awareness, and getOrCreate looks for the room, to be  *)
(* joined at once if it is there.                                          *)
Upgrade(k) ==
  /\ sock[k].stage = "admitted"
  /\ IF ~Attached(k)
       THEN TurnAway(k)
       ELSE /\ sock' = [sock EXCEPT
                 ![k].stage = IF "cold" \in env THEN "loading" ELSE "open", ![k].greeting = TRUE]
            /\ members' = IF "cold" \in env THEN members ELSE members \cup {k}
            /\ UNCHANGED tab
  /\ UNCHANGED <<env, role, cache, kicks, drops, changes>>

(* The room is there: the connection joins it, even one that has closed.   *)
Loaded(k) ==
  /\ sock[k].stage \in {"loading", "abandoned"}
  /\ members' = members \cup {k}
  /\ sock' = [sock EXCEPT ![k].stage = IF @ = "loading" THEN "open" ELSE "closed"]
  /\ UNCHANGED <<env, role, cache, tab, kicks, drops, changes>>

LoadFails(k) ==
  /\ "loadFails" \in env /\ sock[k].stage \in {"loading", "abandoned"}
  /\ TurnAway(k)
  /\ UNCHANGED <<env, role, cache, kicks, drops, changes>>

(* The tab loses its connection; the server's side closes or is left.      *)
Disconnect(k, noticed) ==
  /\ "drop" \in env /\ Attached(k) /\ drops < MaxDrops
  /\ drops' = drops + 1
  /\ IF Open(k) /\ noticed
       THEN Close({k}, {}, FALSE)
       ELSE /\ sock' = [sock EXCEPT ![k].greeting = FALSE,
                                    ![k].stage = IF @ = "loading" THEN "abandoned" ELSE @]
            /\ tab' = [tab EXCEPT ![sock[k].tab] = Left(sock[k].tab, FALSE)]
            /\ UNCHANGED <<cache, members>>
  /\ UNCHANGED <<env, role, kicks, changes>>

(* The 30 s ping finds that nobody answers. *)
Terminate(k) ==
  /\ Open(k) /\ ~Attached(k)
  /\ Close({k}, {}, FALSE)
  /\ UNCHANGED <<env, role, kicks, drops, changes>>

-----------------------------------------------------------------------------
(* Frames. *)

\* mutants: sync-step1 is answered for editors only; a viewer's edit is just dropped
AnsweredEditors(k, kind, r) ==
  [tab[sock[k].tab] EXCEPT
     !.synced = @ \/ (kind = "step1" /\ r = "editor"),
     !.readonly = @ \/ (kind = "edit" /\ r = "viewer" /\ sock[k].heard)]
(* The page of k has its answer: the document, or a permission-denied frame. *)
Answered(k, kind, r) ==
  [tab[sock[k].tab] EXCEPT
     !.synced = @ \/ kind = "step1",
     !.readonly = @ \/ (kind = "edit" /\ r = "viewer" /\ sock[k].heard)]

(* handleMessage goes on with the caller's role r; the socket may be       *)
(* closed by now.                                                          *)
Handle(k, kind, r) ==
  IF r = "none"
    THEN IF Open(k)
           THEN Close({k}, {}, TRUE)
           ELSE /\ cache' = [cache EXCEPT ![sock[k].at][sock[k].tab] = "none"]
                /\ sock' = Tidy([sock EXCEPT ![k].frame = "none", ![k].answer = "none"], members)
                /\ UNCHANGED <<members, tab>>
    ELSE /\ cache' = [cache EXCEPT ![sock[k].at][sock[k].tab] = r]
         /\ sock' = Tidy([sock EXCEPT ![k].frame = "none", ![k].answer = "none"], members)
         /\ tab' = IF ~(Open(k) /\ Attached(k)) THEN tab ELSE
              [tab EXCEPT ![sock[k].tab] = Answered(k, kind, r)]
         /\ UNCHANGED members

(* A frame reaches the open socket k: resolveRole answers from its cache   *)
(* or asks the database.                                                   *)
Receive(k, kind) ==
  /\ Open(k) /\ sock[k].frame = "none"
  /\ IF cache[sock[k].at][sock[k].tab] # "none"
       THEN Handle(k, kind, cache[sock[k].at][sock[k].tab])
       ELSE /\ sock' = [sock EXCEPT ![k].frame = kind, ![k].answer = "asking"]
            /\ UNCHANGED <<cache, members, tab>>

(* Before the room is loaded nobody listens to the frames. *)
Greet(k) ==
  /\ sock[k].greeting /\ Attached(k)
  /\ \/ /\ sock[k].stage = "loading"
        /\ sock' = [sock EXCEPT ![k].greeting = FALSE]
        /\ UNCHANGED <<cache, members, tab>>
     \/ /\ Open(k) /\ sock[k].frame = "none"
        /\ IF cache[sock[k].at][sock[k].tab] # "none"
             THEN /\ cache' = cache /\ members' = members
                  /\ sock' = [sock EXCEPT ![k].greeting = FALSE]
                  /\ tab' = [tab EXCEPT ![sock[k].tab].synced = TRUE]
             ELSE /\ sock' = [sock EXCEPT ![k].greeting = FALSE,
                                          ![k].frame = "step1", ![k].answer = "asking"]
                  /\ UNCHANGED <<cache, members, tab>>
  /\ UNCHANGED <<env, role, kicks, drops, changes>>

Type(k) ==
  /\ Attached(k) /\ ~sock[k].greeting /\ ~tab[sock[k].tab].readonly
  /\ Receive(k, "edit")
  /\ UNCHANGED <<env, role, kicks, drops, changes>>

(* y-protocols renews the tab's awareness every 15 s. *)
Beat(k) ==
  /\ Attached(k) /\ ~sock[k].greeting
  /\ Receive(k, "beat")
  /\ UNCHANGED <<env, role, kicks, drops, changes>>

(* getFileRole reads the database, and its answer arrives. *)
Query(k) ==
  /\ sock[k].answer = "asking"
  /\ sock' = [sock EXCEPT ![k].answer =
       IF role[sock[k].tab] = "none" THEN "refused" ELSE role[sock[k].tab]]
  /\ UNCHANGED <<env, role, cache, members, tab, kicks, drops, changes>>

Reply(k) ==
  /\ sock[k].answer \in Roles \cup {"refused"}
  /\ Handle(k, sock[k].frame, IF sock[k].answer = "refused" THEN "none" ELSE sock[k].answer)
  /\ UNCHANGED <<env, role, kicks, drops, changes>>

(* The check throws: the frame is dropped, the socket stays. *)
QueryFails(k) ==
  /\ "db" \in env /\ sock[k].answer = "asking"
  /\ sock' = Tidy([sock EXCEPT ![k].frame = "none", ![k].answer = "none"], members)
  /\ UNCHANGED <<env, role, cache, members, tab, kicks, drops, changes>>

ExpireNever(i, t) == FALSE   \* mutant: a role is cached for ever
(* ROLE_CACHE_MS go by. *)
Expire(i, t) ==
  /\ cache[i][t] # "none"
  /\ cache' = [cache EXCEPT ![i][t] = "none"]
  /\ UNCHANGED <<env, role, sock, members, tab, kicks, drops, changes>>

-----------------------------------------------------------------------------
(* The owner changes a membership. *)

Change(t, r) ==
  /\ changes < MaxChanges
  /\ changes' = changes + 1
  /\ role' = [role EXCEPT ![t] = r]
  /\ UNCHANGED <<env, cache, sock, members, tab, drops>>

RemoveHere(t) ==   \* mutant: only one backend is told
  /\ role[t] # "none"
  /\ Change(t, "none")
  /\ \E i \in Instances : kicks' = kicks \cup {<<t[1], i>>}
(* removeMember: the row is deleted, then the user's sockets are closed     *)
(* here and, through the bus, everywhere.                                  *)
Remove(t) ==
  /\ role[t] # "none"
  /\ Change(t, "none")
  /\ kicks' = kicks \cup ({t[1]} \X Instances)

Demote(t) ==
  /\ "demote" \in env /\ role[t] = "editor"
  /\ Change(t, "viewer")
  /\ UNCHANGED <<env, kicks>>

Add(t, r) ==
  /\ "add" \in env /\ role[t] = "none"
  /\ Change(t, r)
  /\ UNCHANGED <<env, kicks>>

(* ProjectsService.remove: the rows go with the project, nobody is kicked. *)
DeleteProject(f) ==
  /\ "delete" \in env /\ changes < MaxChanges
  /\ changes' = changes + 1
  /\ \E u \in Users : role[<<u, f>>] # "none"
  /\ role' = [t \in Tabs |-> IF t[2] = f THEN "none" ELSE role[t]]
  /\ UNCHANGED <<env, cache, sock, members, tab, kicks, drops>>

(* LiveSessionService.kickLocal closes all the user's sockets, of those     *)
(* that are registered.                                                    *)
Kicked(u, i) == {k \in members : sock[k].at = i /\ sock[k].tab[1] = u /\ Open(k)}
ComingIn(u, i) == {k \in Sockets : /\ sock[k].stage \in {"admitted", "loading", "abandoned"}
                                   /\ sock[k].at = i /\ sock[k].tab[1] = u}

Kick(u, i) ==
  /\ <<u, i>> \in kicks
  /\ kicks' = kicks \ {<<u, i>>}
  /\ Close(Kicked(u, i), ComingIn(u, i), TRUE)
  /\ UNCHANGED <<env, role, drops, changes>>

LoseKick(u, i) ==
  /\ "lost" \in env /\ <<u, i>> \in kicks
  /\ kicks' = kicks \ {<<u, i>>}
  /\ UNCHANGED <<env, role, cache, sock, members, tab, drops, changes>>

(* The page is loaded again. *)
Reload(t) ==
  /\ tab[t].revoked /\ "add" \in env
  /\ tab' = [tab EXCEPT ![t] = Idle]
  /\ UNCHANGED <<env, role, cache, sock, members, kicks, drops, changes>>

-----------------------------------------------------------------------------
Network ==
  \/ \E t \in Tabs, i \in Instances : Connect(t, i)
  \/ \E k \in Sockets : \/ Listen(k) \/ Authorize(k) \/ Upgrade(k) \/ Loaded(k) \/ LoadFails(k)
                        \/ Disconnect(k, TRUE) \/ ("vanish" \in env /\ Disconnect(k, FALSE))
                        \/ Terminate(k)

Frames ==
  \/ \E k \in Sockets : Greet(k) \/ Type(k) \/ Beat(k) \/ Query(k) \/ Reply(k) \/ QueryFails(k)
  \/ \E i \in Instances, t \in Tabs : Expire(i, t)

Access ==
  \/ \E t \in Tabs : Remove(t) \/ Demote(t) \/ Reload(t) \/ \E r \in Roles : Add(t, r)
  \/ \E f \in Files : DeleteProject(f)
  \/ \E u \in Users, i \in Instances : Kick(u, i) \/ LoseKick(u, i)

Next == Network \/ Frames \/ Access
Spec == Init /\ [][Next]_vars

(* Timers fire, awaited calls end, a page keeps trying to connect, renews   *)
(* its awareness, and its user types.                                      *)
Fairness ==
  /\ \A t \in Tabs : WF_vars(\E i \in Instances : Connect(t, i))
  /\ \A k \in Sockets :
       /\ WF_vars(Listen(k)) /\ WF_vars(Authorize(k)) /\ WF_vars(Upgrade(k))
       /\ WF_vars(Loaded(k)) /\ WF_vars(Terminate(k))
       /\ WF_vars(Greet(k)) /\ WF_vars(Query(k)) /\ WF_vars(Reply(k))
       /\ SF_vars(Type(k)) /\ WF_vars(Beat(k))
  /\ \A i \in Instances, t \in Tabs : WF_vars(Expire(i, t))
  /\ \A u \in Users, i \in Instances : WF_vars(Kick(u, i))

FairSpec == Spec /\ Fairness

-----------------------------------------------------------------------------
(* Properties. *)

Member(k) == role[sock[k].tab] # "none"

(* What Redis may do to a frame it may do to a kick, and the deletion of a *)
(* project kicks nobody.                                                   *)
KicksArrive == {"lost", "delete"} \cap env = {}

RemovedAreOut == \A k \in Sockets : Open(k) =>
  \/ Member(k)
  \/ <<sock[k].tab[1], sock[k].at>> \in kicks
  \/ sock[k].missed

(* A removed member holds no open socket on any backend, except where the   *)
(* kick for it is still on its way, and but for a socket that the kick did  *)
(* not find: its role had been read, and it was not registered yet         *)
(* (removeMember, LiveSessionService.kick, handleUpgrade, onConnection).   *)
KickedOut == KicksArrive => RemovedAreOut

(* The connections of a room are open sockets, so that a room left by all  *)
(* is some time evicted (onDisconnect) - if it was loaded when joined.     *)
NoDeadMembers == "cold" \notin env => \A k \in members : Open(k)

(* Whoever lost the right to a document, by whichever operation, loses     *)
(* every connection to it, kicked or not (resolveRole, handleMessage),     *)
(* unless role checks fail or a dead connection holds on to it.            *)
RemovedIsClosed == {"db", "vanish"} \cap env = {} =>
  \A k \in Sockets : (Open(k) /\ ~Member(k)) ~> (~Open(k) \/ Member(k))

(* A member's page gets the document (the sync-step1 of its greeting is     *)
(* answered), where rooms are loaded and role checks succeed.              *)
EventuallySynced == {"cold", "db"} \cap env = {} =>
  \A t \in Tabs : (role[t] # "none") ~> (tab[t].synced \/ tab[t].revoked \/ role[t] = "none")

(* Whoever lost a right while connected is told so: the page of a member   *)
(* who was removed stops trying (useYFile's handler of close code 1008),   *)
(* whether or not the kick came; that of an editor made a viewer, who goes *)
(* on typing, becomes read-only (the permission-denied frame).             *)
RevokedIsTold ==
  /\ {"drop", "fast", "cold", "db"} \cap env = {} =>
       \A t \in Tabs : (role[t] = "none" /\ tab[t].on # 0 /\ Open(tab[t].on))
                          ~> (tab[t].revoked \/ role[t] # "none")
  /\ {"fast", "cold", "db"} \cap env = {} =>
       \A t \in Tabs : (role[t] = "viewer" /\ tab[t].synced) ~> (tab[t].readonly \/ role[t] # "viewer")
=============================================================================
