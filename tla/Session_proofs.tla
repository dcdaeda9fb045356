-------------------------- MODULE Session_proofs --------------------------
(***************************************************************************)
(* Proofs about Session, for every set of backends, users, files and       *)
(* sockets and every choice of scenarios.  A page that believes it is      *)
(* connected has a socket of its own.  Where no kick is lost and projects  *)
(* are not deleted whole, a removed member holds no open socket once the   *)
(* kick for it has been carried out, but one the kick was too early for.   *)
(* Where rooms are already loaded when they are joined, a room's           *)
(* connections are open sockets.                                           *)
(***************************************************************************)
EXTENDS Session, TLAPS

Used ==
  [tab : Tabs, at : Instances,
   stage : {"asking", "admitted", "loading", "abandoned", "open", "closed"},
   heard : BOOLEAN, greeting : BOOLEAN, missed : BOOLEAN,
   frame : Kinds \cup {"none"}, answer : Roles \cup {"none", "asking", "refused"}]
Sock == Used \cup {Free}

Cold == "cold" \in env
Loading == {"loading", "abandoned"}
\* Let in, for the role that was read, and not known to be gone.
Entering == {"admitted", "loading", "open"}
Entitled(k) == Member(k) \/ <<sock[k].tab[1], sock[k].at>> \in kicks \/ sock[k].missed

\* Every open socket is in its room's connections, and if rooms need no loading these are
\* open; who is let in is a member, or to be kicked, or was not found by the kick.
KickInv ==
  /\ role \in [Tabs -> Roles \cup {"none"}]
  /\ sock \in [Sockets -> Sock]
  /\ members \subseteq Sockets
  /\ \A k \in Sockets : Open(k) => k \in members
  /\ ~Cold => \A k \in Sockets : (k \in members => Open(k)) /\ sock[k].stage \notin Loading
  /\ KicksArrive => \A k \in Sockets : sock[k].stage \in Entering => Entitled(k)

\* A step that lets nobody in, throws no member out of the project and takes no
\* kick back.
LEMMA NobodyComesIn ==
  ASSUME KickInv, sock' \in [Sockets -> Sock], members' \subseteq Sockets,
         UNCHANGED <<env, role>>, kicks \subseteq kicks',
         \A k \in Sockets :
           /\ Open(k)' => k \in members'
           /\ ~Cold => (k \in members' => Open(k)') /\ sock'[k].stage \notin Loading
           /\ sock'[k].stage \in Entering =>
                /\ sock[k].stage \in Entering
                /\ sock'[k].tab = sock[k].tab /\ sock'[k].at = sock[k].at
                /\ sock[k].missed => sock'[k].missed
  PROVE  KickInv'
BY DEF KickInv, KicksArrive, Open, Member, Cold, Entitled

\* A socket of which something is true that is not true of a free one.
LEMMA InUse ==
  ASSUME KickInv, NEW k \in Sockets,
         \/ sock[k].stage # "free" \/ sock[k].greeting \/ sock[k].frame # "none" \/ sock[k].answer # "none"
  PROVE  sock[k] \in Used
BY DEF KickInv, Sock, Free

\* Tidy forgets sockets that are closed.
LEMMA TidyKeeps ==
  ASSUME NEW s \in [Sockets -> Sock], NEW M
  PROVE  /\ Tidy(s, M) \in [Sockets -> Sock]
         /\ \A k \in Sockets : \/ Tidy(s, M)[k] = s[k]
                               \/ Tidy(s, M)[k] = Free /\ s[k].stage = "closed"
<1>1. Free \in Sock
  BY DEF Sock
<1> QED
  BY <1>1 DEF Tidy

\* Closing the sockets K, which those of late miss.
LEMMA CloseStep ==
  ASSUME KickInv, NEW K \in SUBSET Sockets, \A k \in K : Open(k),
         NEW L \in SUBSET Sockets, \A k \in L : sock[k].stage \in {"admitted", "loading", "abandoned"},
         NEW p, Close(K, L, p)
  PROVE  /\ sock' \in [Sockets -> Sock] /\ members' = members \ K
         /\ \A k \in Sockets \ K :
              \/ /\ sock'[k].stage = sock[k].stage
                 /\ sock'[k].tab = sock[k].tab /\ sock'[k].at = sock[k].at
                 /\ sock[k].missed \/ k \in L => sock'[k].missed
              \/ sock'[k] = Free /\ sock[k].stage = "closed"
         /\ \A k \in K : sock'[k].stage \in {"closed", "free"}
<1> DEFINE s == [k \in Sockets |-> IF k \in K
                   THEN [sock[k] EXCEPT !.stage = "closed", !.greeting = FALSE]
                   ELSE IF k \in L THEN [sock[k] EXCEPT !.missed = TRUE] ELSE sock[k]]
<1>0. \A k \in K \cup L : sock[k] \in Used
  BY InUse DEF Open
<1>1. s \in [Sockets -> Sock]
  <2>1. \A k \in K : [sock[k] EXCEPT !.stage = "closed", !.greeting = FALSE] \in Sock
    BY <1>0 DEF Sock, Used
  <2>2. \A k \in L : [sock[k] EXCEPT !.missed = TRUE] \in Sock
    BY <1>0 DEF Sock, Used
  <2> QED
    BY <2>1, <2>2 DEF KickInv
<1>2. sock' = Tidy(s, Without(K)) /\ members' = members \ K
  BY DEF Close, Without
<1>3. \A k \in K : s[k].stage = "closed"
  BY <1>0 DEF Used
<1>4. \A k \in Sockets \ K : /\ s[k].stage = sock[k].stage
                             /\ s[k].tab = sock[k].tab /\ s[k].at = sock[k].at
                             /\ sock[k].missed \/ k \in L => s[k].missed
  BY <1>0 DEF Used
<1> HIDE DEF s
<1>5. /\ sock' \in [Sockets -> Sock]
      /\ \A k \in Sockets : sock'[k] = s[k] \/ (sock'[k] = Free /\ s[k].stage = "closed")
  BY <1>1, <1>2, TidyKeeps
<1> QED
  BY <1>2, <1>3, <1>4, <1>5 DEF Free

\* Closing open sockets breaks nothing, where no socket is on its way in.
LEMMA CloseKeeps ==
  ASSUME KickInv, NEW k \in Sockets, Open(k), NEW p, Close({k}, {}, p), UNCHANGED <<env, role, kicks>>
  PROVE  KickInv'
<1>1. /\ sock' \in [Sockets -> Sock] /\ members' = members \ {k}
      /\ sock'[k].stage \in {"closed", "free"}
      /\ \A l \in Sockets \ {k} :
           \/ /\ sock'[l].stage = sock[l].stage
              /\ sock'[l].tab = sock[l].tab /\ sock'[l].at = sock[l].at
              /\ sock[l].missed => sock'[l].missed
           \/ sock'[l] = Free /\ sock[l].stage = "closed"
  <2> DEFINE K == {k}
             L == {}
  <2>1. /\ K \in SUBSET Sockets /\ \A l \in K : Open(l)
        /\ L \in SUBSET Sockets /\ \A l \in L : sock[l].stage \in {"admitted", "loading", "abandoned"}
        /\ Close(K, L, p)
    OBVIOUS
  <2> HIDE DEF K, L
  <2>2. /\ sock' \in [Sockets -> Sock] /\ members' = members \ K
        /\ \A l \in K : sock'[l].stage \in {"closed", "free"}
        /\ \A l \in Sockets \ K :
             \/ /\ sock'[l].stage = sock[l].stage
                /\ sock'[l].tab = sock[l].tab /\ sock'[l].at = sock[l].at
                /\ sock[l].missed \/ l \in L => sock'[l].missed
             \/ sock'[l] = Free /\ sock[l].stage = "closed"
    BY <2>1, CloseStep
  <2> QED
    BY <2>2 DEF K, L
<1> QED
  BY <1>1, NobodyComesIn DEF KickInv, Open, Free, Entering, Loading

\* One socket changes, and is not let in.
LEMMA OneSocket ==
  ASSUME KickInv, NEW k \in Sockets, NEW r \in Sock,
         \/ sock' = [sock EXCEPT ![k] = r]
         \/ \E M : sock' = Tidy([sock EXCEPT ![k] = r], M),
         UNCHANGED <<env, members, role, kicks>>, r.stage = "open" <=> sock[k].stage = "open",
         r.stage \in Loading => sock[k].stage \in Loading,
         r.stage \in Entering =>
           /\ sock[k].stage \in Entering
           /\ r.tab = sock[k].tab /\ r.at = sock[k].at /\ r.missed = sock[k].missed
  PROVE  KickInv'
<1> DEFINE s == [sock EXCEPT ![k] = r]
<1>1. s \in [Sockets -> Sock] /\ s[k] = r /\ \A l \in Sockets : l # k => s[l] = sock[l]
  BY DEF KickInv
<1> HIDE DEF s
<1>2. /\ sock' \in [Sockets -> Sock]
      /\ \A l \in Sockets : sock'[l] = s[l] \/ (sock'[l] = Free /\ s[l].stage = "closed")
  <2>1. sock' = s \/ \E M : sock' = Tidy(s, M)
    BY DEF s
  <2>2. ASSUME NEW M, sock' = Tidy(s, M)
        PROVE  /\ sock' \in [Sockets -> Sock]
               /\ \A l \in Sockets : sock'[l] = s[l] \/ (sock'[l] = Free /\ s[l].stage = "closed")
    BY <1>1, <2>2, TidyKeeps
  <2> QED
    BY <1>1, <2>1, <2>2
<1> QED
  BY <1>1, <1>2, NobodyComesIn DEF Open, KickInv, Entering, Loading, Free

\* A frame that is handled, or waits for the role.
LEMMA HandleStep ==
  ASSUME KickInv, NEW k \in Sockets, sock[k] \in Used, NEW kind, NEW r, Handle(k, kind, r),
         UNCHANGED <<env, role, kicks>>
  PROVE  KickInv'
<1> DEFINE q == [sock[k] EXCEPT !.frame = "none", !.answer = "none"]
<1>1. /\ q \in Sock /\ q.stage = sock[k].stage /\ q.tab = sock[k].tab
      /\ q.at = sock[k].at /\ q.missed = sock[k].missed
  BY DEF Sock, Used
<1>2. [sock EXCEPT ![k].frame = "none", ![k].answer = "none"] = [sock EXCEPT ![k] = q]
  BY DEF KickInv, Used
<1> HIDE DEF q
<1>3. CASE Open(k) /\ Close({k}, {}, TRUE)
  BY <1>3, CloseKeeps
<1>4. CASE sock' = Tidy([sock EXCEPT ![k] = q], members) /\ members' = members
  BY <1>1, <1>4, OneSocket
<1> QED
  BY <1>2, <1>3, <1>4 DEF Handle

LEMMA ReceiveStep ==
  ASSUME KickInv, NEW k \in Sockets, NEW kind \in Kinds, Receive(k, kind), UNCHANGED <<env, role, kicks>>
  PROVE  KickInv'
<1> DEFINE q == [sock[k] EXCEPT !.frame = kind, !.answer = "asking"]
<1>0. sock[k] \in Used
  BY InUse DEF Receive, Open
<1>1. /\ q \in Sock /\ q.stage = sock[k].stage /\ q.tab = sock[k].tab
      /\ q.at = sock[k].at /\ q.missed = sock[k].missed
  BY <1>0 DEF Sock, Used
<1>2. [sock EXCEPT ![k].frame = kind, ![k].answer = "asking"] = [sock EXCEPT ![k] = q]
  BY <1>0 DEF KickInv, Used
<1> HIDE DEF q
<1>3. CASE sock' = [sock EXCEPT ![k] = q] /\ members' = members
  BY <1>1, <1>3, OneSocket
<1> QED
  BY <1>0, <1>2, <1>3, HandleStep DEF Receive

\* What happens to one socket, but for its admission.
LEMMA SocketStep ==
  ASSUME KickInv, NEW k \in Sockets,
         \/ Listen(k) \/ Disconnect(k, TRUE) \/ Disconnect(k, FALSE)
         \/ Terminate(k) \/ Greet(k) \/ Type(k) \/ Beat(k) \/ Query(k) \/ Reply(k) \/ QueryFails(k)
  PROVE  KickInv'
<1>1. sock \in [Sockets -> Sock]
  BY DEF KickInv
<1>3. sock[k] \in Used
  <2>1. CASE sock[k].stage # "free"
    BY <2>1, InUse
  <2>2. CASE sock[k].answer # "none"
    BY <2>2, InUse
  <2>3. \/ Attached(k) \/ Open(k) \/ sock[k].answer = "asking"
        \/ sock[k].answer \in Roles \cup {"refused"}
    BY DEF Listen, Disconnect, Terminate, Greet, Type, Beat, Query, Reply, QueryFails
  <2> QED
    BY <2>1, <2>2, <2>3 DEF Attached, Open, Roles
<1>4. CASE Listen(k)
  <2> DEFINE q == [sock[k] EXCEPT !.heard = TRUE]
  <2>1. sock' = [sock EXCEPT ![k] = q] /\ UNCHANGED <<env, role, members, kicks>>
    BY <1>1, <1>3, <1>4 DEF Listen, Used
  <2>2. /\ q \in Sock /\ q.stage = sock[k].stage /\ q.tab = sock[k].tab
      /\ q.at = sock[k].at /\ q.missed = sock[k].missed
    BY <1>3 DEF Sock, Used
  <2> QED
    BY <2>1, <2>2, OneSocket
<1>5. CASE Disconnect(k, TRUE) \/ Disconnect(k, FALSE)
  <2>1. CASE Open(k) /\ Close({k}, {}, FALSE)
    BY <1>5, <2>1, CloseKeeps DEF Disconnect
  <2>2. CASE ~(Open(k) /\ Close({k}, {}, FALSE))
    <3> DEFINE e == IF sock[k].stage = "loading" THEN "abandoned" ELSE sock[k].stage
               q == [sock[k] EXCEPT !.greeting = FALSE, !.stage = e]
    <3>1. sock' = [sock EXCEPT ![k] = q] /\ UNCHANGED <<env, role, members, kicks>>
      BY <1>1, <1>3, <1>5, <2>2 DEF Disconnect, Used
    <3>2. /\ e \in {"asking", "admitted", "loading", "abandoned", "open", "closed"}
          /\ e = sock[k].stage \/ (e = "abandoned" /\ sock[k].stage = "loading")
      BY <1>3 DEF Used
    <3> HIDE DEF e
    <3>3. /\ q \in Sock /\ q.stage = e /\ q.tab = sock[k].tab /\ q.at = sock[k].at
          /\ q.missed = sock[k].missed
      BY <1>3, <3>2 DEF Sock, Used
    <3> HIDE DEF q
    <3> QED
      BY <3>1, <3>2, <3>3, OneSocket DEF Loading, Entering
  <2> QED
    BY <2>1, <2>2
<1>6. CASE Terminate(k)
  BY <1>6, CloseKeeps DEF Terminate
<1>7. CASE Greet(k)
  <2> DEFINE q == [sock[k] EXCEPT !.greeting = FALSE]
             w == [sock[k] EXCEPT !.greeting = FALSE, !.frame = "step1", !.answer = "asking"]
  <2>1. /\ sock' = [sock EXCEPT ![k] = q] \/ sock' = [sock EXCEPT ![k] = w]
        /\ UNCHANGED <<env, role, members, kicks>>
    BY <1>1, <1>3, <1>7 DEF Greet, Used
  <2>2. /\ q \in Sock /\ q.stage = sock[k].stage /\ q.tab = sock[k].tab
      /\ q.at = sock[k].at /\ q.missed = sock[k].missed
    BY <1>3 DEF Sock, Used
  <2>3. /\ w \in Sock /\ w.stage = sock[k].stage /\ w.tab = sock[k].tab
      /\ w.at = sock[k].at /\ w.missed = sock[k].missed
    BY <1>3 DEF Sock, Used, Kinds
  <2> HIDE DEF q, w
  <2> QED
    BY <2>1, <2>2, <2>3, OneSocket
<1>8. CASE Type(k) \/ Beat(k)
  BY <1>8, ReceiveStep DEF Type, Beat, Kinds
<1>9. CASE Query(k)
  <2>1. PICK a : a = IF role[sock[k].tab] = "none" THEN "refused" ELSE role[sock[k].tab]
    OBVIOUS
  <2>2. a \in Roles \cup {"refused"}
    BY <1>3, <2>1 DEF KickInv, Used
  <2> DEFINE q == [sock[k] EXCEPT !.answer = a]
  <2>3. sock' = [sock EXCEPT ![k] = q] /\ UNCHANGED <<env, role, members, kicks>>
    BY <1>1, <1>3, <1>9, <2>1 DEF Query, Used
  <2>4. /\ q \in Sock /\ q.stage = sock[k].stage /\ q.tab = sock[k].tab
      /\ q.at = sock[k].at /\ q.missed = sock[k].missed
    BY <1>3, <2>2 DEF Sock, Used
  <2> QED
    BY <2>3, <2>4, OneSocket
<1>10. CASE Reply(k)
  BY <1>3, <1>10, HandleStep DEF Reply
<1>11. CASE QueryFails(k)
  <2> DEFINE q == [sock[k] EXCEPT !.frame = "none", !.answer = "none"]
  <2>1. sock' = Tidy([sock EXCEPT ![k] = q], members) /\ UNCHANGED <<env, role, members, kicks>>
    BY <1>1, <1>3, <1>11 DEF QueryFails, Used
  <2>2. /\ q \in Sock /\ q.stage = sock[k].stage /\ q.tab = sock[k].tab
      /\ q.at = sock[k].at /\ q.missed = sock[k].missed
    BY <1>3 DEF Sock, Used
  <2> HIDE DEF q
  <2> QED
    BY <2>1, <2>2, OneSocket
<1> QED
  BY <1>4, <1>5, <1>6, <1>7, <1>8, <1>9, <1>10, <1>11

\* A tab asks for a socket.
LEMMA ConnectStep ==
  ASSUME KickInv, NEW t \in Tabs, NEW i \in Instances, Connect(t, i)
  PROVE  KickInv'
<1>1. PICK k \in Sockets :
        /\ sock[k] = Free
        /\ sock' = [sock EXCEPT ![k] = [Free EXCEPT !.tab = t, !.at = i, !.stage = "asking",
                                                   !.heard = "fast" \notin env]]
  BY DEF Connect
<1> DEFINE q == [Free EXCEPT !.tab = t, !.at = i, !.stage = "asking", !.heard = "fast" \notin env]
<1>2. q \in Sock /\ q.stage = "asking"
  BY DEF Free, Sock, Used
<1>3. UNCHANGED <<env, role, members, kicks>>
  BY DEF Connect
<1> HIDE DEF q
<1>4. sock' = [sock EXCEPT ![k] = q]
  BY <1>1 DEF q
<1>5. sock[k].stage # "open"
  BY <1>1 DEF Free
<1> QED
  BY <1>2, <1>3, <1>4, <1>5, OneSocket DEF Loading, Entering

\* A socket is forgotten.
LEMMA TurnAwayStep ==
  ASSUME KickInv, NEW k \in Sockets, ~Open(k), TurnAway(k), UNCHANGED <<env, role, kicks>>
  PROVE  KickInv'
<1>1. sock' = [sock EXCEPT ![k] = Free] /\ UNCHANGED <<env, role, members, kicks>>
  BY DEF TurnAway
<1>2. Free \in Sock /\ Free.stage = "free"
  BY DEF Free, Sock
<1> QED
  BY <1>1, <1>2, OneSocket DEF Open, Entering, Loading

\* The server lets a socket in: its user is a member.
LEMMA AuthorizeStep ==
  ASSUME KickInv, NEW k \in Sockets, Authorize(k)
  PROVE  KickInv'
<1>1. sock \in [Sockets -> Sock] /\ sock[k].stage = "asking" /\ ~Open(k)
  BY DEF KickInv, Authorize, Open
<1>2. sock[k] \in Used
  BY <1>1, InUse
<1>3. CASE role[sock[k].tab] = "none"
  BY <1>1, <1>3, TurnAwayStep DEF Authorize
<1>4. CASE role[sock[k].tab] # "none"
  <2> DEFINE q == [sock[k] EXCEPT !.stage = "admitted"]
  <2>1. sock' = [sock EXCEPT ![k] = q] /\ UNCHANGED <<env, role, members, kicks>>
    BY <1>1, <1>2, <1>4 DEF Authorize, Used
  <2>2. q \in Sock /\ q.tab = sock[k].tab /\ q.stage = "admitted"
    BY <1>2 DEF Sock, Used
  <2> HIDE DEF q
  <2>3. /\ sock' \in [Sockets -> Sock] /\ sock'[k] = q
        /\ \A l \in Sockets : l # k => sock'[l] = sock[l]
    BY <1>1, <2>1, <2>2
  <2> QED
    BY <1>1, <1>4, <2>1, <2>2, <2>3 DEF KickInv, KicksArrive, Open, Member, Entitled, Cold, Loading
<1> QED
  BY <1>3, <1>4

\* A socket that was let in goes on, to the room it joins if that is there.
LEMMA ComeInStep ==
  ASSUME KickInv, NEW k \in Sockets, sock[k] \in Used, NEW r \in Sock,
         sock' = [sock EXCEPT ![k] = r], UNCHANGED <<env, role, kicks>>,
         r.tab = sock[k].tab /\ r.at = sock[k].at /\ r.missed = sock[k].missed,
         \/ sock[k].stage = "admitted" /\ Cold /\ r.stage = "loading" /\ members' = members
         \/ /\ sock[k].stage \in {"admitted", "loading"} /\ r.stage = "open"
            /\ members' = members \cup {k}
         \/ sock[k].stage = "abandoned" /\ r.stage = "closed" /\ members' = members \cup {k}
  PROVE  KickInv'
<1>1. /\ sock' \in [Sockets -> Sock] /\ sock'[k] = r
      /\ \A l \in Sockets : l # k => sock'[l] = sock[l]
  BY DEF KickInv
<1>2. members' \subseteq Sockets /\ members \subseteq members' /\ (r.stage = "open" => k \in members')
  BY DEF KickInv
<1>3. ~Cold => r.stage = "open" /\ members' = members \cup {k}
  BY DEF KickInv, Loading
<1>4. \A l \in Sockets : Open(l)' => l \in members'
  BY <1>1, <1>2 DEF KickInv, Open
<1>5. ~Cold => \A l \in Sockets : (l \in members' => Open(l)') /\ sock'[l].stage \notin Loading
  BY <1>1, <1>3 DEF KickInv, Open, Loading
<1>6. KicksArrive => \A l \in Sockets : sock'[l].stage \in Entering => Entitled(l)'
  BY <1>1 DEF KickInv, Entering, Entitled, Member
<1> QED
  BY <1>1, <1>2, <1>4, <1>5, <1>6 DEF KickInv, Cold, KicksArrive

LEMMA UpgradeStep ==
  ASSUME KickInv, NEW k \in Sockets, Upgrade(k)
  PROVE  KickInv'
<1>1. sock \in [Sockets -> Sock] /\ sock[k].stage = "admitted" /\ ~Open(k)
  BY DEF KickInv, Upgrade, Open
<1>2. sock[k] \in Used
  BY <1>1, InUse
<1>3. CASE ~Attached(k)
  BY <1>1, <1>3, TurnAwayStep DEF Upgrade
<1>4. CASE Attached(k)
  <2> DEFINE e == IF "cold" \in env THEN "loading" ELSE "open"
             q == [sock[k] EXCEPT !.stage = e, !.greeting = TRUE]
  <2>1. /\ sock' = [sock EXCEPT ![k] = q] /\ UNCHANGED <<env, role, kicks>>
        /\ members' = IF "cold" \in env THEN members ELSE members \cup {k}
    BY <1>1, <1>2, <1>4 DEF Upgrade, Used
  <2>2. e \in {"loading", "open"} /\ (e = "loading" <=> Cold)
    BY DEF Cold
  <2> HIDE DEF e
  <2>3. /\ q \in Sock /\ q.tab = sock[k].tab /\ q.at = sock[k].at /\ q.missed = sock[k].missed
        /\ q.stage = e
    BY <1>2, <2>2 DEF Sock, Used
  <2> HIDE DEF q
  <2> QED
    BY <1>1, <1>2, <2>1, <2>2, <2>3, ComeInStep DEF Cold
<1> QED
  BY <1>3, <1>4

LEMMA LoadedStep ==
  ASSUME KickInv, NEW k \in Sockets, Loaded(k)
  PROVE  KickInv'
<1>1. sock \in [Sockets -> Sock] /\ sock[k].stage \in Loading
  BY DEF KickInv, Loaded, Loading
<1>2. sock[k] \in Used
  BY <1>1, InUse DEF Loading
<1> DEFINE e == IF sock[k].stage = "loading" THEN "open" ELSE "closed"
           q == [sock[k] EXCEPT !.stage = e]
<1>3. /\ sock' = [sock EXCEPT ![k] = q] /\ UNCHANGED <<env, role, kicks>>
      /\ members' = members \cup {k}
  BY <1>1, <1>2 DEF Loaded, Used
<1>4. /\ e \in {"open", "closed"}
      /\ sock[k].stage = "loading" => e = "open"
      /\ sock[k].stage = "abandoned" => e = "closed"
  OBVIOUS
<1> HIDE DEF e
<1>5. /\ q \in Sock /\ q.tab = sock[k].tab /\ q.at = sock[k].at /\ q.missed = sock[k].missed
      /\ q.stage = e
  BY <1>2, <1>4 DEF Sock, Used
<1> HIDE DEF q
<1> QED
  BY <1>1, <1>2, <1>3, <1>4, <1>5, ComeInStep DEF Loading

\* The owner changes one membership; a removal leaves a kick for every backend.
LEMMA MembershipStep ==
  ASSUME KickInv, NEW t \in Tabs, \/ Remove(t) \/ Demote(t) \/ \E r \in Roles : Add(t, r)
  PROVE  KickInv'
<1>1. PICK r \in Roles \cup {"none"} :
        /\ Change(t, r)
        /\ kicks \subseteq kicks'
        /\ r = "none" => {t[1]} \X Instances \subseteq kicks'
  BY DEF Remove, Demote, Add, Roles
<1>2. /\ role' = [role EXCEPT ![t] = r] /\ UNCHANGED <<env, sock, members>>
      /\ role' \in [Tabs -> Roles \cup {"none"}]
  BY <1>1 DEF Change, Remove, Demote, Add, KickInv
<1>3. ASSUME KicksArrive, NEW k \in Sockets, sock[k].stage \in Entering
      PROVE  Entitled(k)'
  <2>1. sock[k] \in Used
    BY <1>3, InUse DEF Entering
  <2>2. sock[k].tab \in Tabs /\ sock[k].at \in Instances
    BY <2>1 DEF Used
  <2>3. CASE sock[k].tab = t
    BY <1>1, <1>2, <2>2, <2>3 DEF Member, KickInv, Roles, Entitled
  <2>4. CASE sock[k].tab # t
    BY <1>1, <1>2, <1>3, <2>2, <2>4 DEF Member, KickInv, Entitled
  <2> QED
    BY <2>3, <2>4
<1> QED
  BY <1>2, <1>3 DEF KickInv, KicksArrive, Open, Cold

\* A kick closes every socket its user has on that backend.
LEMMA KickStep ==
  ASSUME KickInv, NEW u \in Users, NEW i \in Instances, Kick(u, i)
  PROVE  KickInv'
<1> DEFINE K == Kicked(u, i)
           L == ComingIn(u, i)
<1>1. /\ K \in SUBSET Sockets /\ \A k \in K : Open(k)
      /\ L \in SUBSET Sockets /\ \A k \in L : sock[k].stage \in {"admitted", "loading", "abandoned"}
      /\ Close(K, L, TRUE) /\ UNCHANGED <<env, role>> /\ kicks' = kicks \ {<<u, i>>}
  BY DEF Kick, Kicked, ComingIn, KickInv
<1>2. ASSUME NEW k \in Sockets \ K, sock[k].stage \in Entering, <<sock[k].tab[1], sock[k].at>> = <<u, i>>
      PROVE  k \in L
  BY <1>2 DEF Kicked, ComingIn, KickInv, Open, Entering
<1> HIDE DEF K, L
<1>3. /\ sock' \in [Sockets -> Sock] /\ members' = members \ K
      /\ \A k \in Sockets \ K :
           \/ /\ sock'[k].stage = sock[k].stage
              /\ sock'[k].tab = sock[k].tab /\ sock'[k].at = sock[k].at
              /\ sock[k].missed \/ k \in L => sock'[k].missed
           \/ sock'[k] = Free /\ sock[k].stage = "closed"
      /\ \A k \in K : sock'[k].stage \in {"closed", "free"}
  BY <1>1, CloseStep
<1>4. ASSUME KicksArrive, NEW k \in Sockets, sock'[k].stage \in Entering
      PROVE  Entitled(k)'
  <2>1. /\ k \notin K /\ sock[k].stage \in Entering
        /\ sock'[k].tab = sock[k].tab /\ sock'[k].at = sock[k].at
        /\ sock[k].missed \/ k \in L => sock'[k].missed
    BY <1>3, <1>4 DEF Entering, Free
  <2>2. Entitled(k)
    BY <1>4, <2>1 DEF KickInv
  <2>3. <<sock[k].tab[1], sock[k].at>> = <<u, i>> => k \in L
    BY <1>2, <2>1
  <2> QED
    BY <1>1, <2>1, <2>2, <2>3 DEF Entitled, Member
<1>5. \A k \in Sockets : Open(k)' => k \in members'
  BY <1>1, <1>3 DEF KickInv, Open, Free
<1>6. ~Cold => \A k \in Sockets : (k \in members' => Open(k)') /\ sock'[k].stage \notin Loading
  BY <1>1, <1>3 DEF KickInv, Open, Free, Loading
<1> QED
  BY <1>1, <1>3, <1>4, <1>5, <1>6 DEF KickInv, KicksArrive, Cold

LEMMA KickInvInit == Init => KickInv
<1> SUFFICES ASSUME Init PROVE KickInv
  OBVIOUS
<1>1. Free \in Sock /\ Free.stage = "free"
  BY DEF Sock, Free
<1> QED
  BY <1>1 DEF Init, KickInv, Tabs, Roles, Open, Loading, Entering

LEMMA KickInvStep == KickInv /\ [Next]_vars => KickInv'
<1> SUFFICES ASSUME KickInv, [Next]_vars PROVE KickInv'
  OBVIOUS
<1>0. UNCHANGED <<env, role, sock, members>> /\ kicks \subseteq kicks' => KickInv'
  BY DEF KickInv, KicksArrive, Open, Member, Entitled, Cold
<1>1. CASE Network
  <2>1. ASSUME NEW k \in Sockets, LoadFails(k)
        PROVE  KickInv'
    BY <2>1, TurnAwayStep DEF LoadFails, Open
  <2> QED
    BY <1>1, <2>1, ConnectStep, AuthorizeStep, UpgradeStep, LoadedStep, SocketStep DEF Network
<1>2. CASE Frames
  <2>1. ASSUME NEW i \in Instances, NEW t \in Tabs, Expire(i, t)
        PROVE  KickInv'
    BY <1>0, <2>1 DEF Expire
  <2> QED
    BY <1>2, <2>1, SocketStep DEF Frames
<1>3. CASE Access
  <2>1. CASE \E t \in Tabs : Reload(t)
    BY <1>0, <2>1 DEF Reload
  <2>2. CASE \E f \in Files : DeleteProject(f)
    <3>1. UNCHANGED <<env, sock, members>> /\ ~KicksArrive
      BY <2>2 DEF DeleteProject, KicksArrive
    <3>2. role' \in [Tabs -> Roles \cup {"none"}]
      BY <2>2 DEF DeleteProject, KickInv
    <3> QED
      BY <3>1, <3>2 DEF KickInv, KicksArrive, Open, Cold
  <2>3. CASE \E u \in Users, i \in Instances : LoseKick(u, i)
    <3>1. UNCHANGED <<env, role, sock, members>> /\ ~KicksArrive
      BY <2>3 DEF LoseKick, KicksArrive
    <3> QED
      BY <3>1 DEF KickInv, KicksArrive, Open, Cold
  <2> QED
    BY <1>3, <2>1, <2>2, <2>3, MembershipStep, KickStep DEF Access
<1>4. CASE UNCHANGED vars
  BY <1>0, <1>4 DEF vars
<1> QED
  BY <1>1, <1>2, <1>3, <1>4 DEF Next

LEMMA KickInvHolds == Spec => []KickInv
<1> QED
  BY KickInvInit, KickInvStep, PTL DEF Spec

\* LiveSessionService.kick and the bus's kick channel: once the kick for a
\* removed member has been carried out on a backend, that member has no open
\* socket there but one whose role was read before and that was not registered yet.
THEOREM KickedOutHolds == Spec => []KickedOut
<1>1. KickInv => KickedOut
  BY DEF KickInv, KickedOut, RemovedAreOut, Entitled, Open, Entering
<1> QED
  BY <1>1, KickInvHolds, PTL

\* The close handler and Room.connections (GW 284-286, 413-420): whatever closes a socket
\* - its page, the heartbeat, a kick, a refused frame - takes it out of its room, so
\* that a room which all have left can be evicted.
THEOREM RoomsHoldNoDead == Spec => []NoDeadMembers
<1>1. KickInv => NoDeadMembers
  BY DEF KickInv, NoDeadMembers, Cold
<1> QED
  BY <1>1, KickInvHolds, PTL

(***************************************************************************)
(* The types, wherever rooms are loaded or not: a page's socket is its own *)
(* and is not closed.                                                      *)
(***************************************************************************)

TabStates == [on : Sockets \cup {0}, synced : BOOLEAN, revoked : BOOLEAN, readonly : BOOLEAN]
Caches == [Instances -> [Tabs -> Roles \cup {"none"}]]
Live == {"asking", "admitted", "loading", "open"}
Owned == [tab : Tabs, at : Instances,
          stage : {"asking", "admitted", "loading", "abandoned", "open", "closed"},
          heard : BOOLEAN, greeting : BOOLEAN, missed : BOOLEAN,
          frame : Kinds \cup {"none"}, answer : Roles \cup {"none", "asking", "refused"}]

\* TypeOK, but for what only grows.
PagesOK ==
  /\ sock \in [Sockets -> SocketStates] /\ members \subseteq Sockets
  /\ tab \in [Tabs -> TabStates] /\ cache \in Caches
  /\ \A t \in Tabs : tab[t].on # 0 => sock[tab[t].on].tab = t /\ sock[tab[t].on].stage \in Live
RolesOK == role \in [Tabs -> Roles \cup {"none"}] /\ kicks \subseteq Users \X Instances

LEMMA OwnedStates ==
  /\ SocketStates = Owned \cup {Free} /\ Free \in SocketStates /\ 0 \notin Sockets
  /\ Free.stage = "free" /\ Free.answer = "none" /\ Free.frame = "none" /\ ~Free.greeting
BY SocketsAssumption DEF SocketStates, Owned, Free

\* A socket of which something is true that is not true of a free one.
LEMMA SomebodyOwns ==
  ASSUME PagesOK, NEW k \in Sockets,
         \/ sock[k].stage # "free" \/ sock[k].greeting \/ sock[k].frame # "none" \/ sock[k].answer # "none"
  PROVE  /\ sock[k] \in Owned /\ sock[k].tab \in Tabs /\ sock[k].at \in Instances
         /\ tab[sock[k].tab] \in TabStates
<1>1. sock[k] \in Owned
  BY OwnedStates DEF PagesOK
<1>2. sock[k].tab \in Tabs /\ sock[k].at \in Instances
  BY <1>1 DEF Owned
<1> QED
  BY <1>1, <1>2 DEF PagesOK

\* Sockets change, and each page that has one keeps it, or loses it.
LEMMA PagesKeep ==
  ASSUME PagesOK, sock' \in [Sockets -> SocketStates], members' \subseteq Sockets,
         tab' \in [Tabs -> TabStates], cache' \in Caches,
         \A t \in Tabs : tab'[t].on # 0 =>
           /\ tab'[t].on = tab[t].on
           /\ sock'[tab[t].on].tab = sock[tab[t].on].tab /\ sock'[tab[t].on].stage \in Live
  PROVE  PagesOK'
BY DEF PagesOK

\* Tidy leaves a socket that is not closed alone.
LEMMA TidyTypes ==
  ASSUME NEW s \in [Sockets -> SocketStates], NEW M
  PROVE  /\ Tidy(s, M) \in [Sockets -> SocketStates]
         /\ \A k \in Sockets : s[k].stage \in Live => Tidy(s, M)[k] = s[k]
BY OwnedStates DEF Tidy, Live

LEMMA LeftTypes ==
  ASSUME NEW t \in Tabs, tab[t] \in TabStates, NEW b \in BOOLEAN
  PROVE  Left(t, b) \in TabStates /\ Left(t, b).on = 0
BY DEF Left, TabStates

\* One socket changes, and its page keeps it if it is neither free nor closed.
LEMMA OneSocketTypes ==
  ASSUME PagesOK, NEW k \in Sockets, NEW q \in SocketStates,
         \/ sock' = [sock EXCEPT ![k] = q]
         \/ \E M : sock' = Tidy([sock EXCEPT ![k] = q], M),
         members' \subseteq Sockets, tab' \in [Tabs -> TabStates], cache' \in Caches,
         \A t \in Tabs : tab'[t].on # 0 => tab'[t].on = tab[t].on,
         (q.tab = sock[k].tab /\ q.stage \in Live) \/ \A t \in Tabs : tab'[t].on # k
  PROVE  PagesOK'
<1> DEFINE s == [sock EXCEPT ![k] = q]
<1>1. s \in [Sockets -> SocketStates] /\ s[k] = q /\ \A l \in Sockets : l # k => s[l] = sock[l]
  BY DEF PagesOK
<1> HIDE DEF s
<1>2. /\ sock' \in [Sockets -> SocketStates]
      /\ \A l \in Sockets : s[l].stage \in Live => sock'[l] = s[l]
  <2>1. sock' = s \/ \E M : sock' = Tidy(s, M)
    BY DEF s
  <2>2. ASSUME NEW M, sock' = Tidy(s, M)
        PROVE  /\ sock' \in [Sockets -> SocketStates]
               /\ \A l \in Sockets : s[l].stage \in Live => sock'[l] = s[l]
    BY <1>1, <2>2, TidyTypes
  <2> QED
    BY <1>1, <2>1, <2>2
<1>3. ASSUME NEW t \in Tabs, tab'[t].on # 0
      PROVE  /\ tab'[t].on = tab[t].on
             /\ sock'[tab[t].on].tab = sock[tab[t].on].tab /\ sock'[tab[t].on].stage \in Live
  <2>1. /\ tab'[t].on = tab[t].on /\ tab[t].on \in Sockets
        /\ sock[tab[t].on].tab = t /\ sock[tab[t].on].stage \in Live
    BY <1>3 DEF PagesOK, TabStates
  <2>2. CASE tab[t].on = k
    BY <1>1, <1>2, <2>1, <2>2
  <2>3. CASE tab[t].on # k
    BY <1>1, <1>2, <2>1, <2>3
  <2> QED
    BY <2>2, <2>3
<1> QED
  BY <1>2, <1>3, PagesKeep

\* Sockets are closed, and the pages that had them have none.
LEMMA CloseTypes ==
  ASSUME PagesOK, NEW K \in SUBSET Sockets, \A k \in K : Open(k),
         NEW L \in SUBSET Sockets, \A k \in L : sock[k].stage # "free",
         NEW p \in BOOLEAN, Close(K, L, p)
  PROVE  PagesOK'
<1> DEFINE s == [k \in Sockets |-> IF k \in K
                   THEN [sock[k] EXCEPT !.stage = "closed", !.greeting = FALSE]
                   ELSE IF k \in L THEN [sock[k] EXCEPT !.missed = TRUE] ELSE sock[k]]
<1>1. \A k \in K \cup L : sock[k] \in Owned
  BY SomebodyOwns DEF Open
<1>2. /\ s \in [Sockets -> SocketStates]
      /\ \A k \in Sockets \ K : s[k].tab = sock[k].tab /\ s[k].stage = sock[k].stage
  <2>1. /\ \A k \in K : [sock[k] EXCEPT !.stage = "closed", !.greeting = FALSE] \in Owned
        /\ \A k \in L : [sock[k] EXCEPT !.missed = TRUE] \in Owned
    BY <1>1 DEF Owned
  <2>2. \A k \in Sockets : s[k] \in SocketStates
    BY <2>1, OwnedStates DEF PagesOK
  <2>3. \A k \in Sockets \ K : s[k].tab = sock[k].tab /\ s[k].stage = sock[k].stage
    BY <1>1 DEF Owned
  <2> QED
    BY <2>2, <2>3
<1>3. sock' = Tidy(s, Without(K)) /\ members' \subseteq Sockets
  BY DEF Close, Without, PagesOK
<1> HIDE DEF s
<1>4. cache' \in Caches
  BY DEF Close, PagesOK, Caches
<1>5. ASSUME NEW t \in Tabs
      PROVE  /\ tab'[t] \in TabStates
             /\ tab'[t].on # 0 => tab'[t].on = tab[t].on /\ tab[t].on \in Sockets \ K
  <2>1. tab[t] \in TabStates /\ tab'[t] = IF tab[t].on \in K
                                THEN Left(t, p /\ sock[tab[t].on].heard) ELSE tab[t]
    BY DEF Close, PagesOK
  <2>2. CASE tab[t].on \in K
    <3>1. (p /\ sock[tab[t].on].heard) \in BOOLEAN
      OBVIOUS
    <3> QED
      BY <2>1, <2>2, <3>1, LeftTypes
  <2>3. CASE tab[t].on \notin K
    BY <2>1, <2>3 DEF TabStates
  <2> QED
    BY <2>2, <2>3
<1>6. tab' \in [Tabs -> TabStates]
  BY <1>5 DEF Close
<1>7. /\ sock' \in [Sockets -> SocketStates]
      /\ \A k \in Sockets : s[k].stage \in Live => sock'[k] = s[k]
  BY <1>2, <1>3, TidyTypes
<1> QED
  BY <1>2, <1>3, <1>4, <1>5, <1>6, <1>7, PagesKeep DEF PagesOK

LEMMA HandleTypes ==
  ASSUME PagesOK, NEW k \in Sockets, sock[k] \in Owned, NEW kind, NEW r \in Roles \cup {"none"},
         Handle(k, kind, r)
  PROVE  PagesOK'
<1> DEFINE q == [sock[k] EXCEPT !.frame = "none", !.answer = "none"]
<1>1. q \in SocketStates /\ q.stage = sock[k].stage /\ q.tab = sock[k].tab
  BY OwnedStates DEF Owned
<1>2. [sock EXCEPT ![k].frame = "none", ![k].answer = "none"] = [sock EXCEPT ![k] = q]
  BY DEF PagesOK, Owned
<1> HIDE DEF q
<1>3. sock[k].tab \in Tabs /\ sock[k].at \in Instances
  BY DEF Owned
<1>4. CASE Close({k}, {}, TRUE) /\ Open(k)
  BY <1>4, CloseTypes
<1>5. CASE /\ sock' = Tidy([sock EXCEPT ![k] = q], members) /\ UNCHANGED members
           /\ cache' = [cache EXCEPT ![sock[k].at][sock[k].tab] = r]
           /\ \/ UNCHANGED tab
              \/ tab' = [tab EXCEPT ![sock[k].tab] = Answered(k, kind, r)]
  <2>1. cache' \in Caches
    BY <1>3, <1>5 DEF PagesOK, Caches
  <2>2. /\ Answered(k, kind, r) \in TabStates
        /\ Answered(k, kind, r).on = tab[sock[k].tab].on
    <3> DEFINE w == tab[sock[k].tab]
               x == w.synced \/ kind = "step1"
               y == w.readonly \/ (kind = "edit" /\ r = "viewer" /\ sock[k].heard)
    <3>1. w \in TabStates /\ x \in BOOLEAN /\ y \in BOOLEAN
      BY <1>3 DEF PagesOK
    <3>2. Answered(k, kind, r) = [w EXCEPT !.synced = x, !.readonly = y]
      BY DEF Answered
    <3> HIDE DEF w, x, y
    <3>3. [w EXCEPT !.synced = x, !.readonly = y] \in TabStates
      BY <3>1 DEF TabStates
    <3>4. [w EXCEPT !.synced = x, !.readonly = y].on = w.on
      BY <3>1 DEF TabStates
    <3> QED
      BY <3>2, <3>3, <3>4 DEF w
  <2>3. tab' \in [Tabs -> TabStates] /\ \A t \in Tabs : tab'[t].on = tab[t].on
    BY <1>3, <1>5, <2>2 DEF PagesOK
  <2>4. q.stage \in Live \/ \A t \in Tabs : tab[t].on # k
    BY <1>1, OwnedStates DEF PagesOK
  <2>5. members' \subseteq Sockets /\ \E M : sock' = Tidy([sock EXCEPT ![k] = q], M)
    BY <1>5 DEF PagesOK
  <2>6. (q.tab = sock[k].tab /\ q.stage \in Live) \/ \A t \in Tabs : tab'[t].on # k
    BY <1>1, <2>3, <2>4
  <2> QED
    BY <1>1, <2>1, <2>3, <2>5, <2>6, OneSocketTypes
<1> QED
  BY <1>2, <1>4, <1>5 DEF Handle

\* A frame that is handled at once, or waits for the role.
LEMMA ReceiveTypes ==
  ASSUME PagesOK, NEW k \in Sockets, NEW kind \in Kinds, Receive(k, kind)
  PROVE  PagesOK'
<1>1. sock[k] \in Owned /\ sock[k].tab \in Tabs /\ sock[k].at \in Instances
  BY SomebodyOwns DEF Receive, Open
<1>2. CASE cache[sock[k].at][sock[k].tab] # "none"
  <2>1. cache[sock[k].at][sock[k].tab] \in Roles \cup {"none"}
    BY <1>1 DEF PagesOK, Caches
  <2> QED
    BY <1>1, <1>2, <2>1, HandleTypes DEF Receive
<1>3. CASE cache[sock[k].at][sock[k].tab] = "none"
  <2> DEFINE q == [sock[k] EXCEPT !.frame = kind, !.answer = "asking"]
  <2>1. sock' = [sock EXCEPT ![k] = q] /\ UNCHANGED <<cache, members, tab>>
    BY <1>1, <1>3 DEF Receive, PagesOK, Owned
  <2>2. q \in SocketStates /\ q.stage = sock[k].stage /\ q.tab = sock[k].tab
    BY <1>1, OwnedStates DEF Owned
  <2>3. q.stage \in Live
    BY <2>2 DEF Receive, Open, Live
  <2> HIDE DEF q
  <2> QED
    BY <2>1, <2>2, <2>3, OneSocketTypes DEF PagesOK
<1> QED
  BY <1>2, <1>3

\* The page of k, where k is some page's socket.
LEMMA WhoseSocket ==
  ASSUME PagesOK, NEW k \in Sockets
  PROVE  /\ \A t \in Tabs : tab[t].on = k => t = sock[k].tab /\ Attached(k) /\ sock[k].stage \in Live
         /\ Attached(k) => /\ sock[k] \in Owned /\ sock[k].tab \in Tabs
                           /\ tab[sock[k].tab].on = k /\ sock[k].stage \in Live
                           /\ tab[sock[k].tab] \in TabStates
<1>1. k # 0
  BY OwnedStates
<1>2. \A t \in Tabs : tab[t].on = k => t = sock[k].tab /\ Attached(k) /\ sock[k].stage \in Live
  BY <1>1 DEF PagesOK, Attached, Live
<1>3. ASSUME Attached(k)
      PROVE  sock[k] \in Owned /\ sock[k].tab \in Tabs /\ tab[sock[k].tab] \in TabStates
  BY <1>3, SomebodyOwns DEF Attached
<1> QED
  BY <1>2, <1>3 DEF Attached

\* A socket is given up, and the page that had it sees that.
LEMMA GiveUpTypes ==
  ASSUME PagesOK, NEW k \in Sockets, NEW q \in SocketStates,
         sock' = [sock EXCEPT ![k] = q], UNCHANGED <<cache, members>>,
         tab' = IF Attached(k) THEN [tab EXCEPT ![sock[k].tab] = Left(sock[k].tab, FALSE)] ELSE tab
  PROVE  PagesOK'
<1>1. CASE Attached(k)
  <2>1. sock[k].tab \in Tabs /\ Left(sock[k].tab, FALSE) \in TabStates /\ Left(sock[k].tab, FALSE).on = 0
    BY <1>1, WhoseSocket, LeftTypes
  <2>2. /\ tab' \in [Tabs -> TabStates]
        /\ \A t \in Tabs : tab'[t].on # 0 => tab'[t].on = tab[t].on
        /\ \A t \in Tabs : tab'[t].on # k
    BY <1>1, <2>1, WhoseSocket, OwnedStates DEF PagesOK
  <2> QED
    BY <2>2, OneSocketTypes DEF PagesOK
<1>2. CASE ~Attached(k)
  <2>1. \A t \in Tabs : tab'[t].on # k
    BY <1>2, WhoseSocket
  <2> QED
    BY <1>2, <2>1, OneSocketTypes DEF PagesOK
<1> QED
  BY <1>1, <1>2

\* A socket changes, but neither its page nor whether it is alive.
LEMMA InPlaceTypes ==
  ASSUME PagesOK, NEW k \in Sockets, NEW q \in SocketStates,
         \/ sock' = [sock EXCEPT ![k] = q]
         \/ \E M : sock' = Tidy([sock EXCEPT ![k] = q], M),
         q.tab = sock[k].tab, sock[k].stage \in Live => q.stage \in Live,
         members' \subseteq Sockets, UNCHANGED <<cache, tab>>
  PROVE  PagesOK'
<1>1. (q.tab = sock[k].tab /\ q.stage \in Live) \/ \A t \in Tabs : tab'[t].on # k
  BY WhoseSocket
<1> QED
  BY <1>1, OneSocketTypes DEF PagesOK

LEMMA ConnectTypes ==
  ASSUME PagesOK, NEW t \in Tabs, NEW i \in Instances, Connect(t, i)
  PROVE  PagesOK'
<1>1. PICK k \in Sockets :
        /\ sock[k] = Free
        /\ sock' = [sock EXCEPT ![k] = [Free EXCEPT
                     !.tab = t, !.at = i, !.stage = "asking", !.heard = "fast" \notin env]]
        /\ tab' = [tab EXCEPT ![t].on = k]
  BY DEF Connect
<1> DEFINE b == "fast" \notin env
           q == [Free EXCEPT !.tab = t, !.at = i, !.stage = "asking", !.heard = b]
<1>2. b \in BOOLEAN
  OBVIOUS
<1>3. sock' = [sock EXCEPT ![k] = q]
  BY <1>1
<1> HIDE DEF b
<1>4. q \in Owned /\ q.tab = t /\ q.stage = "asking"
  BY <1>2 DEF Free, Owned
<1> HIDE DEF q
<1>5. sock' \in [Sockets -> SocketStates] /\ sock'[k] = q /\ \A l \in Sockets : l # k => sock'[l] = sock[l]
  BY <1>3, <1>4, OwnedStates DEF PagesOK
<1>6. /\ tab' \in [Tabs -> TabStates] /\ tab'[t].on = k
      /\ \A u \in Tabs : u # t => tab'[u] = tab[u]
  BY <1>1 DEF PagesOK, TabStates
<1>7. \A u \in Tabs : tab[u].on # k
  BY <1>1, WhoseSocket, OwnedStates DEF Live
<1>8. ASSUME NEW u \in Tabs, tab'[u].on # 0
      PROVE  sock'[tab'[u].on].tab = u /\ sock'[tab'[u].on].stage \in Live
  <2>1. CASE u = t
    BY <1>4, <1>5, <1>6, <2>1 DEF Live
  <2>2. CASE u # t
    <3>1. tab'[u] = tab[u] /\ tab[u].on \in Sockets /\ tab[u].on # k
      BY <1>6, <1>7, <1>8, <2>2 DEF PagesOK, TabStates
    <3> QED
      BY <1>5, <1>8, <3>1 DEF PagesOK
  <2> QED
    BY <2>1, <2>2
<1>9. UNCHANGED <<cache, members>>
  BY DEF Connect
<1> QED
  BY <1>5, <1>6, <1>8, <1>9 DEF PagesOK

LEMMA TurnAwayTypes ==
  ASSUME PagesOK, NEW k \in Sockets, TurnAway(k), UNCHANGED cache
  PROVE  PagesOK'
BY GiveUpTypes, OwnedStates DEF TurnAway

LEMMA AuthorizeTypes ==
  ASSUME PagesOK, NEW k \in Sockets, Authorize(k) \/ Upgrade(k)
  PROVE  PagesOK'
<1>1. sock[k] \in Owned /\ sock[k].tab \in Tabs /\ sock[k].stage \in Live
  BY SomebodyOwns DEF Authorize, Upgrade, Live
<1>2. CASE TurnAway(k)
  BY <1>2, TurnAwayTypes DEF Authorize, Upgrade
<1>3. CASE ~TurnAway(k) /\ Authorize(k)
  <2> DEFINE q == [sock[k] EXCEPT !.stage = "admitted"]
  <2>1. sock' = [sock EXCEPT ![k] = q] /\ members' \subseteq Sockets /\ UNCHANGED <<cache, tab>>
    BY <1>1, <1>3 DEF Authorize, PagesOK, Owned
  <2>2. q \in SocketStates /\ q.tab = sock[k].tab /\ q.stage \in Live
    BY <1>1, OwnedStates DEF Owned, Live
  <2> HIDE DEF q
  <2> QED
    BY <2>1, <2>2, InPlaceTypes
<1>4. CASE ~TurnAway(k) /\ Upgrade(k)
  <2> DEFINE e == IF "cold" \in env THEN "loading" ELSE "open"
             q == [sock[k] EXCEPT !.stage = e, !.greeting = TRUE]
  <2>1. sock' = [sock EXCEPT ![k] = q] /\ members' \subseteq Sockets /\ UNCHANGED <<cache, tab>>
    <3>1. Attached(k)
      BY <1>4 DEF Upgrade
    <3>2. /\ sock' = [sock EXCEPT ![k].stage = e, ![k].greeting = TRUE] /\ UNCHANGED <<cache, tab>>
          /\ members' = members \/ members' = members \cup {k}
      BY <1>4, <3>1 DEF Upgrade
    <3> QED
      BY <1>1, <3>2 DEF PagesOK, Owned
  <2>2. e \in {"loading", "open"}
    OBVIOUS
  <2> HIDE DEF e
  <2>3. q \in SocketStates /\ q.tab = sock[k].tab /\ q.stage \in Live
    BY <1>1, <2>2, OwnedStates DEF Owned, Live
  <2> HIDE DEF q
  <2> QED
    BY <2>1, <2>3, InPlaceTypes
<1> QED
  BY <1>2, <1>3, <1>4

LEMMA LoadedTypes ==
  ASSUME PagesOK, NEW k \in Sockets, Loaded(k)
  PROVE  PagesOK'
<1> DEFINE e == IF sock[k].stage = "loading" THEN "open" ELSE "closed"
           q == [sock[k] EXCEPT !.stage = e]
<1>1. sock[k] \in Owned
  BY SomebodyOwns DEF Loaded
<1>2. sock' = [sock EXCEPT ![k] = q] /\ members' \subseteq Sockets /\ UNCHANGED <<cache, tab>>
  BY <1>1 DEF Loaded, PagesOK, Owned
<1>3. e \in {"open", "closed"} /\ (sock[k].stage \in Live => e \in Live)
  BY DEF Loaded, Live
<1> HIDE DEF e
<1>4. q \in SocketStates /\ q.tab = sock[k].tab /\ q.stage = e
  BY <1>1, <1>3, OwnedStates DEF Owned
<1> HIDE DEF q
<1> QED
  BY <1>2, <1>3, <1>4, InPlaceTypes

LEMMA DisconnectTypes ==
  ASSUME PagesOK, NEW k \in Sockets, NEW noticed \in BOOLEAN, Disconnect(k, noticed)
  PROVE  PagesOK'
<1>1. CASE Open(k) /\ noticed
  BY <1>1, CloseTypes DEF Disconnect
<1>2. CASE ~(Open(k) /\ noticed)
  <2> DEFINE e == IF sock[k].stage = "loading" THEN "abandoned" ELSE sock[k].stage
             q == [sock[k] EXCEPT !.greeting = FALSE, !.stage = e]
  <2>1. Attached(k) /\ sock[k] \in Owned
    BY WhoseSocket DEF Disconnect
  <2>2. sock' = [sock EXCEPT ![k] = q] /\ UNCHANGED <<cache, members>>
    BY <1>2, <2>1 DEF Disconnect, PagesOK, Owned
  <2>3. e \in {"asking", "admitted", "loading", "abandoned", "open", "closed"}
    BY <2>1 DEF Owned
  <2> HIDE DEF e
  <2>4. q \in SocketStates
    BY <2>1, <2>3, OwnedStates DEF Owned
  <2> HIDE DEF q
  <2>5. tab' = [tab EXCEPT ![sock[k].tab] = Left(sock[k].tab, FALSE)]
    BY <1>2 DEF Disconnect
  <2> QED
    BY <2>1, <2>2, <2>4, <2>5, GiveUpTypes
<1> QED
  BY <1>1, <1>2

LEMMA GreetTypes ==
  ASSUME PagesOK, NEW k \in Sockets, Greet(k)
  PROVE  PagesOK'
<1>1. Attached(k) /\ sock[k] \in Owned /\ sock[k].tab \in Tabs /\ sock[k].stage \in Live
  BY WhoseSocket DEF Greet
<1> DEFINE q == [sock[k] EXCEPT !.greeting = FALSE]
<1>2. q \in SocketStates /\ q.tab = sock[k].tab /\ q.stage \in Live
  BY <1>1, OwnedStates DEF Owned
<1>3. [sock EXCEPT ![k].greeting = FALSE] = [sock EXCEPT ![k] = q]
  BY <1>1 DEF PagesOK, Owned
<1> HIDE DEF q
<1>4. CASE sock' = [sock EXCEPT ![k].greeting = FALSE] /\ UNCHANGED <<cache, members, tab>>
  BY <1>2, <1>3, <1>4, InPlaceTypes DEF PagesOK
<1>5. CASE /\ sock' = [sock EXCEPT ![k].greeting = FALSE] /\ UNCHANGED <<cache, members>>
           /\ tab' = [tab EXCEPT ![sock[k].tab].synced = TRUE]
  <2>1. tab' \in [Tabs -> TabStates] /\ \A t \in Tabs : tab'[t].on = tab[t].on
    BY <1>1, <1>5 DEF PagesOK, TabStates
  <2> QED
    BY <1>2, <1>3, <1>5, <2>1, OneSocketTypes DEF PagesOK
<1>6. CASE /\ sock' = [sock EXCEPT ![k].greeting = FALSE, ![k].frame = "step1", ![k].answer = "asking"]
           /\ UNCHANGED <<cache, members, tab>>
  <2> DEFINE p == [sock[k] EXCEPT !.greeting = FALSE, !.frame = "step1", !.answer = "asking"]
  <2>1. p \in SocketStates /\ p.tab = sock[k].tab /\ p.stage \in Live
    BY <1>1, OwnedStates DEF Owned, Kinds
  <2>2. sock' = [sock EXCEPT ![k] = p]
    BY <1>1, <1>6 DEF PagesOK, Owned
  <2> HIDE DEF p
  <2> QED
    BY <1>6, <2>1, <2>2, InPlaceTypes DEF PagesOK
<1> QED
  BY <1>4, <1>5, <1>6 DEF Greet

LEMMA QueryTypes ==
  ASSUME PagesOK, RolesOK, NEW k \in Sockets, Query(k)
  PROVE  PagesOK'
<1> DEFINE a == IF role[sock[k].tab] = "none" THEN "refused" ELSE role[sock[k].tab]
           q == [sock[k] EXCEPT !.answer = a]
<1>1. sock[k] \in Owned /\ sock[k].tab \in Tabs
  BY SomebodyOwns DEF Query
<1>2. a \in Roles \cup {"none", "asking", "refused"}
  BY <1>1 DEF RolesOK
<1>3. sock' = [sock EXCEPT ![k] = q] /\ UNCHANGED <<cache, members, tab>>
  BY <1>1 DEF Query, PagesOK, Owned
<1> HIDE DEF a
<1>4. q \in SocketStates /\ q.tab = sock[k].tab /\ q.stage = sock[k].stage
  BY <1>1, <1>2, OwnedStates DEF Owned
<1> HIDE DEF q
<1> QED
  BY <1>3, <1>4, InPlaceTypes DEF PagesOK

LEMMA QueryFailsTypes ==
  ASSUME PagesOK, NEW k \in Sockets, QueryFails(k)
  PROVE  PagesOK'
<1> DEFINE q == [sock[k] EXCEPT !.frame = "none", !.answer = "none"]
<1>1. sock[k] \in Owned
  BY SomebodyOwns DEF QueryFails
<1>2. [sock EXCEPT ![k].frame = "none", ![k].answer = "none"] = [sock EXCEPT ![k] = q]
  BY <1>1 DEF PagesOK, Owned
<1>3. q \in SocketStates /\ q.tab = sock[k].tab /\ q.stage = sock[k].stage
  BY <1>1, OwnedStates DEF Owned
<1> HIDE DEF q
<1>4. \E M : sock' = Tidy([sock EXCEPT ![k] = q], M)
  BY <1>2 DEF QueryFails
<1> QED
  BY <1>3, <1>4, InPlaceTypes DEF QueryFails, PagesOK

LEMMA ReplyTypes ==
  ASSUME PagesOK, NEW k \in Sockets, Reply(k)
  PROVE  PagesOK'
<1>1. sock[k] \in Owned
  BY SomebodyOwns DEF Reply, Roles
<1>2. (IF sock[k].answer = "refused" THEN "none" ELSE sock[k].answer) \in Roles \cup {"none"}
  BY DEF Reply
<1> QED
  BY <1>1, <1>2, HandleTypes DEF Reply

LEMMA ReloadTypes ==
  ASSUME PagesOK, NEW t \in Tabs, Reload(t)
  PROVE  PagesOK'
<1>1. Idle \in TabStates /\ Idle.on = 0
  BY DEF Idle, TabStates
<1>2. UNCHANGED <<sock, members, cache>> /\ tab' = [tab EXCEPT ![t] = Idle]
  BY DEF Reload
<1> QED
  BY <1>1, <1>2, PagesKeep DEF PagesOK

LEMMA ExpireTypes ==
  ASSUME PagesOK, NEW t \in Tabs, NEW i \in Instances, Expire(i, t)
  PROVE  PagesOK'
<1>1. cache' \in Caches
  BY DEF Expire, PagesOK, Caches
<1> QED
  BY <1>1 DEF Expire, PagesOK

\* Who is a member changes, or a kick is carried out or lost.
LEMMA RolesKeep ==
  ASSUME RolesOK, Access
  PROVE  RolesOK'
<1>1. ASSUME NEW t \in Tabs, Remove(t) \/ Demote(t) \/ \E r \in Roles : Add(t, r)
      PROVE  RolesOK'
  <2>1. PICK r \in Roles \cup {"none"} : role' = [role EXCEPT ![t] = r]
    BY <1>1 DEF Remove, Demote, Add, Change, Roles
  <2>2. role' \in [Tabs -> Roles \cup {"none"}]
    BY <2>1 DEF RolesOK
  <2>3. t[1] \in Users
    BY DEF Tabs
  <2>4. kicks' \subseteq kicks \cup ({t[1]} \X Instances)
    BY <1>1 DEF Remove, Demote, Add
  <2> QED
    BY <2>2, <2>3, <2>4 DEF RolesOK
<1>2. ASSUME NEW f \in Files, DeleteProject(f)
      PROVE  RolesOK'
  BY <1>2 DEF DeleteProject, RolesOK
<1>3. CASE UNCHANGED role /\ kicks' \subseteq kicks
  BY <1>3 DEF RolesOK
<1> QED
  BY <1>1, <1>2, <1>3 DEF Access, Reload, Kick, LoseKick

Counters == drops \in 0..MaxDrops /\ changes \in 0..MaxChanges

LEMMA CountersKeep ==
  ASSUME Counters, [Next]_vars
  PROVE  Counters' /\ UNCHANGED env
<1>1. CASE UNCHANGED <<env, drops, changes>>
  BY <1>1 DEF Counters
<1>2. CASE UNCHANGED <<env, changes>> /\ drops < MaxDrops /\ drops' = drops + 1
  BY <1>2, BoundsAssumption DEF Counters
<1>3. CASE UNCHANGED <<env, drops>> /\ changes < MaxChanges /\ changes' = changes + 1
  BY <1>3, BoundsAssumption DEF Counters
<1>4. Network => UNCHANGED <<env, changes>> /\ (UNCHANGED drops \/ (drops < MaxDrops /\ drops' = drops + 1))
  BY DEF Network, Connect, Listen, Authorize, Upgrade, TurnAway, Loaded, LoadFails, Disconnect, Terminate
<1>5. Frames => UNCHANGED <<env, drops, changes>>
  BY DEF Frames, Greet, Type, Beat, Query, Reply, QueryFails, Expire
<1>6. Access => UNCHANGED <<env, drops>> /\ (UNCHANGED changes \/ (changes < MaxChanges /\ changes' = changes + 1))
  BY DEF Access, Remove, Demote, Add, Change, Reload, DeleteProject, Kick, LoseKick
<1> QED
  BY <1>1, <1>2, <1>3, <1>4, <1>5, <1>6 DEF Next, vars

LEMMA PagesStep ==
  ASSUME PagesOK, RolesOK, [Next]_vars
  PROVE  PagesOK' /\ RolesOK'
<1>1. CASE Network
  <2>1. RolesOK'
    BY <1>1 DEF Network, Connect, Listen, Authorize, Upgrade, TurnAway, Loaded, LoadFails, Disconnect, Terminate, RolesOK
  <2>2. ASSUME NEW k \in Sockets, Listen(k)
        PROVE  PagesOK'
    <3> DEFINE q == [sock[k] EXCEPT !.heard = TRUE]
    <3>1. sock[k] \in Owned
      BY <2>2, WhoseSocket DEF Listen
    <3>2. sock' = [sock EXCEPT ![k] = q]
      BY <2>2, <3>1 DEF Listen, PagesOK, Owned
    <3>3. q \in SocketStates /\ q.tab = sock[k].tab /\ q.stage = sock[k].stage
      BY <3>1, OwnedStates DEF Owned
    <3> HIDE DEF q
    <3> QED
      BY <2>2, <3>2, <3>3, InPlaceTypes DEF Listen, PagesOK
  <2>3. ASSUME NEW k \in Sockets, LoadFails(k)
        PROVE  PagesOK'
    BY <2>3, TurnAwayTypes DEF LoadFails
  <2>4. ASSUME NEW k \in Sockets, Terminate(k)
        PROVE  PagesOK'
    BY <2>4, CloseTypes DEF Terminate
  <2> QED
    BY <1>1, <2>1, <2>2, <2>3, <2>4, ConnectTypes, AuthorizeTypes, LoadedTypes, DisconnectTypes
    DEF Network
<1>2. CASE Frames
  <2>1. RolesOK'
    BY <1>2 DEF Frames, Greet, Type, Beat, Query, Reply, QueryFails, Expire, RolesOK
  <2>2. ASSUME NEW k \in Sockets, Type(k) \/ Beat(k)
        PROVE  PagesOK'
    BY <2>2, ReceiveTypes DEF Type, Beat, Kinds
  <2> QED
    BY <1>2, <2>1, <2>2, GreetTypes, QueryTypes, ReplyTypes, QueryFailsTypes, ExpireTypes DEF Frames
<1>3. CASE Access
  <2>1. ASSUME NEW u \in Users, NEW i \in Instances, Kick(u, i)
        PROVE  PagesOK'
    <3> DEFINE K == Kicked(u, i)
               L == ComingIn(u, i)
    <3>1. /\ K \in SUBSET Sockets /\ (\A k \in K : Open(k))
          /\ L \in SUBSET Sockets /\ (\A k \in L : sock[k].stage # "free")
      BY DEF Kicked, ComingIn, PagesOK
    <3>2. Close(K, L, TRUE)
      BY <2>1 DEF Kick
    <3> HIDE DEF K, L
    <3> QED
      BY <3>1, <3>2, CloseTypes
  <2>2. UNCHANGED <<sock, members, tab, cache>> => PagesOK'
    BY DEF PagesOK
  <2>3. PagesOK'
    BY <1>3, <2>1, <2>2, ReloadTypes
    DEF Access, Remove, Demote, Add, Change, DeleteProject, LoseKick
  <2> QED
    BY <1>3, <2>3, RolesKeep
<1>4. CASE UNCHANGED vars
  BY <1>4 DEF vars, PagesOK, RolesOK
<1> QED
  BY <1>1, <1>2, <1>3, <1>4 DEF Next

(***************************************************************************)
(* Whatever is lost, refused, closed or changed, and in whatever order, a  *)
(* page that believes it is connected has a socket of its own that is not  *)
(* closed, and everything has its type (useYFile, the gateway's upgrade    *)
(* and close handlers).                                                    *)
(***************************************************************************)
THEOREM TypeCorrect == Spec => []TypeOK
<1> DEFINE IInv == env \in Scenarios /\ PagesOK /\ RolesOK /\ Counters
<1>1. Init => IInv
  <2> SUFFICES ASSUME Init PROVE IInv
    OBVIOUS
  <2>1. sock \in [Sockets -> SocketStates] /\ members \subseteq Sockets
    BY OwnedStates DEF Init
  <2>2. tab \in [Tabs -> TabStates] /\ \A t \in Tabs : tab[t].on = 0
    BY DEF Init, Idle, TabStates
  <2>3. cache \in Caches /\ RolesOK
    BY DEF Init, Caches, RolesOK, Roles
  <2>4. Counters /\ env \in Scenarios
    BY BoundsAssumption DEF Init, Counters
  <2> QED
    BY <2>1, <2>2, <2>3, <2>4 DEF PagesOK
<1>2. IInv /\ [Next]_vars => IInv'
  BY PagesStep, CountersKeep
<1>3. IInv => TypeOK
  BY DEF TypeOK, PagesOK, RolesOK, Counters, TabStates, Caches, Live
<1> QED
  BY <1>1, <1>2, <1>3, PTL DEF Spec

=============================================================================
