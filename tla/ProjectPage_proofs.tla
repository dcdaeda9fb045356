------------------------ MODULE ProjectPage_proofs ------------------------
(***************************************************************************)
(* Proofs about ProjectPage, for every set of files, paths and users: the  *)
(* types, with tables in which no two files have one path, and that a page *)
(* that waits for nothing shows what is stored and edits no deleted file.  *)
(***************************************************************************)
EXTENDS ProjectPage, SequenceTheorems, TLAPS

\* No path, user or file is "none".
NoneApart == None \notin Files \cup Paths

FileLists == [Files -> Paths \cup {None}]
MemberLists == [Users -> Roles \cup {None}]
States == {"sent", "half", "done", "refused"}
Ons == Files \cup Users \cup {None}
Tos == Paths \cup Roles \cup {None}
Calls == [kind : Reads \cup Writes, on : Ons, to : Tos, active : Files \cup {None},
          state : States, seen : FileLists \cup MemberLists \cup {<<>>}]

\* What a call of each kind is about.
CallOK(c) ==
  /\ c \in Calls
  /\ c.kind \in {"create", "rename"} => c.to \in Paths
  /\ c.kind \in {"rename", "delete"} => c.on \in Files
  /\ c.kind = "add" => c.on \in Users
  /\ c.kind \in {"add", "change", "remove"} => c.to \in Roles \cup {None}
  /\ c.state = "half" => c.kind = "create" /\ c.on \in Files
  /\ c.kind = "files" /\ c.state = "done" => c.seen \in FileLists
  /\ c.kind = "members" /\ c.state = "done" => c.seen \in MemberLists
  /\ c.seen # <<>> => c.kind \in Reads /\ c.state = "done"

TablesOK ==
  /\ path \in FileLists /\ role \in MemberLists
  /\ used \subseteq Files /\ seeded \subseteq used /\ \A f \in Files : path[f] # None => f \in used
  /\ \A f, g \in Files : path[f] = path[g] => f = g \/ path[f] = None
PageOK ==
  /\ env \in Scenarios
  /\ files \in FileLists /\ members \in MemberLists /\ active \in Files \cup {None}
  /\ calls \in Seq(Calls) /\ \A n \in DOMAIN calls : CallOK(calls[n])
  /\ read \in [files : FileLists, members : MemberLists]
  /\ TablesOK

\* The calls of an owner who waits: one, or the two that load the page.
OneCall == \A m, n \in DOMAIN calls : m = n
PatientInv == "impatient" \notin env =>
  \/ OneCall
  \/ /\ \A n \in DOMAIN calls : calls[n].kind \in Reads
     /\ \A m, n \in DOMAIN calls : calls[m].kind = calls[n].kind => m = n
     /\ active = None
\* Calls are served in the order in which they were made, if none fails.
OrderInv == {"reorder", "fails", "unread"} \cap env = {} =>
  \A m, n \in DOMAIN calls : m < n /\ calls[n].state # "sent" => calls[m].state \in {"done", "refused"}
\* A file that is being made is there until it is seeded.
HalfInv == \A n \in DOMAIN calls : calls[n].state = "half" => path[calls[n].on] # None

\* What the list of a kind shows, and what it should.
Shown(k) == IF k = "files" THEN files ELSE members
Stored(k) == IF k = "files" THEN path ELSE role
ChangesOf(k) == IF k = "files" THEN {"create", "rename", "delete"} ELSE {"add", "change", "remove"}
ReadOf(c, k) == c.kind = k /\ c.state = "done"
\* A call that will have the list read, or read again.
Awaited(c, k) ==
  \/ c.kind = k /\ c.state = "sent"
  \/ c.kind \in ChangesOf(k) /\ c.state \in {"half", "done"}
ListInv(k) ==
  \/ \E n \in DOMAIN calls : Awaited(calls[n], k)
  \/ \E n \in DOMAIN calls : /\ ReadOf(calls[n], k) /\ calls[n].seen = Stored(k)
                             /\ \A m \in DOMAIN calls : m > n => ~ReadOf(calls[m], k)
  \/ Shown(k) = Stored(k) /\ \A m \in DOMAIN calls : ~ReadOf(calls[m], k)
\* The owner waits for the answers, or calls are served and answered in order; nothing
\* fails.
Certain == {"fails", "unread"} \cap env = {} /\ ~({"impatient", "reorder"} \subseteq env)
ListsInv == Certain => HalfInv /\ \A k \in Reads : ListInv(k)

\* What was read last of the list of a kind is what is stored, or it will be read again.
ReadLast(k) == IF k = "files" THEN read.files ELSE read.members
ToBeRead(c, k) ==
  \/ c.kind = k /\ c.state = "sent"
  \/ c.kind \in ChangesOf(k) /\ c.state = "done"
  \/ k = "files" /\ c.state = "half" /\ ~Missing(c.on)
ReadInv(k) == ReadLast(k) = Stored(k) \/ \E n \in DOMAIN calls : ToBeRead(calls[n], k)
ReadsInv == {"fails", "unread"} \cap env = {} => \A k \in Reads : ReadInv(k)

\* A file that the tree lists and that is not stored is about to be dropped from
\* it, and one that is open is about to be closed.
DeletionOf(c, f) == c.kind = "delete" /\ c.state = "done" /\ c.on = f
OpenInv == {"impatient", "unread"} \cap env = {} =>
  /\ \A n \in DOMAIN calls : ReadOf(calls[n], "files") => calls[n].seen = path
  /\ \A n \in DOMAIN calls : calls[n].kind \in Reads => calls[n].state \in {"sent", "done"}
  /\ \A n \in DOMAIN calls : calls[n].kind \in Writes => calls[n].active = active
  /\ \A f \in Files : files[f] # None =>
       \/ path[f] # None
       \/ \E n \in DOMAIN calls : calls[n].kind = "files" \/ DeletionOf(calls[n], f)
  /\ active # None =>
       /\ files[active] # None
       /\ path[active] # None \/ \E n \in DOMAIN calls : DeletionOf(calls[n], active)

IInv == PageOK /\ PatientInv /\ OrderInv /\ ListsInv /\ ReadsInv /\ OpenInv

-----------------------------------------------------------------------------
(* Calls and answers. *)

LEMMA CallIs ==
  ASSUME NEW kind \in Reads \cup Writes, NEW c \in Ons, NEW to \in Tos, active \in Files \cup {None},
         kind \in {"create", "rename"} => to \in Paths,
         kind \in {"rename", "delete"} => c \in Files,
         kind = "add" => c \in Users,
         kind \in {"add", "change", "remove"} => to \in Roles \cup {None}
  PROVE  /\ CallOK(Call(kind, c, to))
         /\ Call(kind, c, to).kind = kind /\ Call(kind, c, to).state = "sent"
         /\ Call(kind, c, to).active = active
BY DEF Call, CallOK, Calls, States

LEMMA KindsApart == Reads \cap Writes = {} /\ Reads = {"files", "members"}
BY DEF Reads, Writes

\* A list is asked for.
LEMMA ReadIs ==
  ASSUME NEW kind \in Reads, active \in Files \cup {None}
  PROVE  /\ CallOK(Call(kind, None, None))
         /\ Call(kind, None, None).kind = kind /\ Call(kind, None, None).state = "sent"
BY CallIs DEF Reads, Writes, Ons, Tos

LEMMA LoadsAre ==
  /\ Loads \in Seq(Calls) /\ Len(Loads) = 2 /\ DOMAIN Loads = {1, 2}
  /\ Loads[1].kind = "files" /\ Loads[2].kind = "members"
  /\ \A n \in {1, 2} : CallOK(Loads[n]) /\ Loads[n].state = "sent"
<1> DEFINE c == [Call("files", None, None) EXCEPT !.active = None]
           d == [Call("members", None, None) EXCEPT !.active = None]
<1>1. c.kind = "files" /\ d.kind = "members" /\ c.state = "sent" /\ d.state = "sent"
  BY DEF Call
<1>2. CallOK(c) /\ CallOK(d)
  BY DEF Call, CallOK, Calls, States, Reads, Writes, Ons, Tos
<1>3. c \in Calls /\ d \in Calls
  BY <1>2 DEF CallOK
<1>4. Loads = <<c, d>>
  BY DEF Loads
<1> HIDE DEF c, d
<1> QED
  BY <1>1, <1>2, <1>3, <1>4

\* One more call.
LEMMA MoreCalls ==
  ASSUME NEW s \in Seq(Calls), NEW c \in Calls
  PROVE  /\ Append(s, c) \in Seq(Calls)
         /\ DOMAIN Append(s, c) = DOMAIN s \cup {Len(s) + 1} /\ Len(s) + 1 \notin DOMAIN s
         /\ Append(s, c)[Len(s) + 1] = c /\ \A n \in DOMAIN s : n < Len(s) + 1 /\ Append(s, c)[n] = s[n]
<1>1. Append(s, c) \in Seq(Calls) /\ Len(Append(s, c)) = Len(s) + 1
  BY AppendProperties
<1>2. DOMAIN s = 1..Len(s) /\ DOMAIN Append(s, c) = 1..(Len(s) + 1) /\ Len(s) \in Nat
  BY <1>1
<1>3. Append(s, c)[Len(s) + 1] = c /\ \A n \in 1..Len(s) : Append(s, c)[n] = s[n]
  BY AppendProperties
<1> QED
  BY <1>1, <1>2, <1>3

\* A call that was answered is gone; the others stay, in their order.
After(m, n) == IF m < n THEN m ELSE m - 1

LEMMA RestIs ==
  ASSUME calls \in Seq(Calls), NEW n \in DOMAIN calls
  PROVE  /\ Rest(n) \in Seq(Calls) /\ Len(Rest(n)) + 1 = Len(calls)
         /\ \A m \in DOMAIN calls \ {n} : After(m, n) \in DOMAIN Rest(n) /\ Rest(n)[After(m, n)] = calls[m]
         /\ \A k \in DOMAIN Rest(n) : \E m \in DOMAIN calls \ {n} : k = After(m, n)
         /\ \A l, m \in DOMAIN calls \ {n} : l < m <=> After(l, n) < After(m, n)
         /\ DOMAIN calls \subseteq Nat /\ DOMAIN Rest(n) \subseteq Nat
<1> DEFINE A == SubSeq(calls, 1, n - 1)
           B == SubSeq(calls, n + 1, Len(calls))
<1>1. DOMAIN calls = 1..Len(calls) /\ Len(calls) \in Nat /\ n \in 1..Len(calls)
  OBVIOUS
<1>2. A \in Seq(Calls) /\ Len(A) = n - 1 /\ \A k \in 1..(n - 1) : A[k] = calls[k]
  BY <1>1
<1>3. B \in Seq(Calls) /\ Len(B) = Len(calls) - n /\ \A k \in 1..(Len(calls) - n) : B[k] = calls[n + k]
  BY <1>1
<1>4. Rest(n) = A \o B
  BY DEF Rest, RemoveAt
<1> HIDE DEF A, B
<1>5. Rest(n) \in Seq(Calls) /\ DOMAIN Rest(n) = 1..(Len(calls) - 1) /\ Len(Rest(n)) + 1 = Len(calls)
  <2>1. Rest(n) \in Seq(Calls) /\ Len(Rest(n)) = (n - 1) + (Len(calls) - n)
    <3>0. A \in Seq(Calls) /\ B \in Seq(Calls)
      BY <1>2, <1>3
    <3>1. (A \o B) \in Seq(Calls) /\ Len(A \o B) = Len(A) + Len(B)
      BY ONLY <3>0, ConcatProperties
    <3> QED
      BY <1>2, <1>3, <1>4, <3>1
  <2>2. (n - 1) + (Len(calls) - n) = Len(calls) - 1
    BY <1>1
  <2> QED
    BY <2>1, <2>2
<1>6. ASSUME NEW k \in 1..(Len(calls) - 1)
      PROVE  Rest(n)[k] = IF k < n THEN calls[k] ELSE calls[k + 1]
  <2>1. CASE k < n
    BY <1>1, <1>2, <1>3, <1>4, <2>1
  <2>2. CASE k >= n
    <3>1. Rest(n)[k] = B[k - (n - 1)]
      BY <1>1, <1>2, <1>3, <1>4, <2>2
    <3>2. k - (n - 1) \in 1..(Len(calls) - n) /\ n + (k - (n - 1)) = k + 1
      BY <1>1, <2>2
    <3>3. B[k - (n - 1)] = calls[k + 1]
      BY <1>3, <3>2
    <3> QED
      BY <1>1, <2>2, <3>1, <3>3
  <2> QED
    BY <1>1, <2>1, <2>2
<1>7. ASSUME NEW m \in DOMAIN calls \ {n}
      PROVE  After(m, n) \in DOMAIN Rest(n) /\ Rest(n)[After(m, n)] = calls[m]
  <2>1. CASE m < n
    BY <1>1, <1>5, <1>6, <2>1 DEF After
  <2>2. CASE m > n
    <3>1. After(m, n) = m - 1 /\ m - 1 \in 1..(Len(calls) - 1) /\ ~(m - 1 < n) /\ (m - 1) + 1 = m
      BY <1>1, <2>2 DEF After
    <3> QED
      BY <1>5, <1>6, <3>1
  <2> QED
    BY <1>1, <2>1, <2>2
<1>8. ASSUME NEW k \in DOMAIN Rest(n)
      PROVE  \E m \in DOMAIN calls \ {n} : k = After(m, n)
  <2>1. CASE k < n
    BY <1>1, <1>5, <2>1 DEF After
  <2>2. CASE k >= n
    <3>1. k + 1 \in DOMAIN calls \ {n} /\ After(k + 1, n) = k
      BY <1>1, <1>5, <2>2 DEF After
    <3> QED
      BY <3>1
  <2> QED
    BY <1>1, <1>5, <2>1, <2>2
<1>9. \A l, m \in DOMAIN calls \ {n} : l < m <=> After(l, n) < After(m, n)
  BY <1>1 DEF After
<1>10. DOMAIN calls \subseteq Nat /\ DOMAIN Rest(n) \subseteq Nat
  BY <1>1, <1>5
<1> QED
  BY ONLY <1>5, <1>7, <1>8, <1>9, <1>10

-----------------------------------------------------------------------------
(* The types. *)

\* One call goes on.
LEMMA CallGoesOn ==
  ASSUME PageOK, NEW n \in DOMAIN calls, NEW c, CallOK(c), calls' = [calls EXCEPT ![n] = c]
  PROVE  /\ calls' \in Seq(Calls) /\ DOMAIN calls' = DOMAIN calls /\ calls'[n] = c
         /\ \A m \in DOMAIN calls : m # n => calls'[m] = calls[m]
         /\ \A m \in DOMAIN calls' : CallOK(calls'[m])
<1>1. c \in Calls /\ calls \in Seq(Calls) /\ DOMAIN calls = 1..Len(calls)
  BY DEF PageOK, CallOK
<1>2. calls' \in Seq(Calls) /\ Len(calls') = Len(calls)
  BY <1>1, ExceptSeq
<1>3. /\ DOMAIN calls' = DOMAIN calls /\ calls'[n] = c
      /\ \A m \in DOMAIN calls : m # n => calls'[m] = calls[m]
  BY <1>1
<1> QED
  BY <1>2, <1>3 DEF PageOK

\* It is served, or refused.
LEMMA BecomesIs ==
  ASSUME PageOK, NEW n \in DOMAIN calls, NEW state \in {"done", "refused"},
         calls[n].kind \in Writes \/ (state = "refused" /\ calls[n].state = "sent"), Becomes(n, state)
  PROVE  \E c : /\ CallOK(c) /\ calls' = [calls EXCEPT ![n] = c] /\ c.state = state
                /\ c.kind = calls[n].kind /\ c.on = calls[n].on /\ c.to = calls[n].to
                /\ c.active = calls[n].active
<1> DEFINE c == [calls[n] EXCEPT !.state = state]
<1>1. CallOK(calls[n]) /\ calls[n] \in Calls
  BY DEF PageOK, CallOK
<1>2. calls' = [calls EXCEPT ![n] = c]
  BY DEF Becomes, PageOK
<1>3. /\ c \in Calls /\ c.state = state /\ c.kind = calls[n].kind /\ c.on = calls[n].on
      /\ c.to = calls[n].to /\ c.active = calls[n].active /\ c.seen = calls[n].seen
  BY <1>1 DEF Calls, States
<1> HIDE DEF c
<1>4. CallOK(c)
  BY <1>1, <1>3, KindsApart DEF CallOK
<1> QED
  BY <1>2, <1>3, <1>4

\* What serving the call n, which becomes c, does to the tables.
Fails(n) == (IF calls[n].kind \in Reads THEN "unread" ELSE "fails") \in env
IsRead(n, c) ==
  /\ Turn(n) /\ c.kind \in Reads /\ c.state = "done" /\ c.seen = Stored(c.kind) /\ UNCHANGED <<path, role>>
IsPlaced(n, c) ==
  /\ Turn(n) /\ c.kind \in {"create", "rename"} /\ c.state = (IF c.kind = "create" THEN "half" ELSE "done")
  /\ c.on \in Files /\ c.to \in Paths /\ path' = [path EXCEPT ![c.on] = c.to] /\ UNCHANGED role
IsDeleted(n, c) ==
  /\ Turn(n) /\ c.kind = "delete" /\ c.state = "done"
  /\ c.on \in Files /\ path' = [path EXCEPT ![c.on] = None] /\ UNCHANGED role
IsManaged(n, c) ==
  /\ Turn(n) /\ c.kind \in {"add", "change", "remove"} /\ c.state = "done" /\ UNCHANGED path
IsSeeded(n, c) ==
  /\ calls[n].state = "half" /\ c.kind = "create" /\ c.state \in {"done", "refused"}
  /\ c.state = "refused" => Missing(calls[n].on)
  /\ UNCHANGED <<path, role>>
IsRefused(n, c) ==
  /\ c.state = "refused" /\ UNCHANGED <<path, role>>
  /\ \/ Turn(n) /\ c.kind \in Writes
     \/ Fails(n) /\ calls[n].state \in {"sent", "half"}
Served(n, c) ==
  /\ CallOK(c) /\ calls' = [calls EXCEPT ![n] = c]
  /\ c.kind = calls[n].kind /\ c.active = calls[n].active
  /\ \/ IsRead(n, c) \/ IsPlaced(n, c) \/ IsDeleted(n, c) \/ IsManaged(n, c)
     \/ IsSeeded(n, c) \/ IsRefused(n, c)

LEMMA ServeIs ==
  ASSUME NoneApart, PageOK, NEW n \in DOMAIN calls, Serve(n)
  PROVE  /\ UNCHANGED <<env, shown>> /\ TablesOK' /\ \E c : Served(n, c)
<1>1. UNCHANGED <<env, shown>>
  BY DEF Serve, List, Insert, Seed, Rename, Delete, Add, Manage, AlreadyMember, RefusesFile, ServeFails, shown
<1>2. CallOK(calls[n]) /\ calls[n] \in Calls /\ TablesOK /\ calls \in Seq(Calls)
  BY DEF PageOK, CallOK
<1>3. CASE List(n)
  <2> DEFINE l == IF calls[n].kind = "files" THEN path ELSE role
             c == [calls[n] EXCEPT !.state = "done", !.seen = l]
  <2>1. calls' = [calls EXCEPT ![n] = c]
    BY <1>2, <1>3 DEF List, Calls
  <2>2. l \in FileLists \cup MemberLists /\ l = Stored(calls[n].kind)
    BY <1>2 DEF TablesOK, Stored
  <2>3. calls[n].kind \in {"files", "members"} /\ Turn(n) /\ UNCHANGED tables
    BY <1>3 DEF List, Reads
  <2>4. /\ calls[n].kind = "files" => l \in FileLists
        /\ calls[n].kind = "members" => l \in MemberLists
    BY <1>2 DEF TablesOK
  <2> HIDE DEF l
  <2>5. /\ c \in Calls /\ c.state = "done" /\ c.seen = l /\ c.kind = calls[n].kind
        /\ c.active = calls[n].active
    BY <1>2, <2>2 DEF Calls, States
  <2> HIDE DEF c
  <2>6. CallOK(c)
    BY <2>3, <2>4, <2>5 DEF CallOK, Reads
  <2>7. Served(n, c)
    BY <2>1, <2>2, <2>3, <2>5, <2>6 DEF Served, IsRead, Reads, tables
  <2> QED
    BY <1>1, <1>2, <2>3, <2>7 DEF TablesOK, tables
<1>4. ASSUME NEW f \in Files, Insert(n, f)
      PROVE  TablesOK' /\ \E c : Served(n, c)
  <2> DEFINE c == [calls[n] EXCEPT !.state = "half", !.on = f]
  <2>1. calls' = [calls EXCEPT ![n] = c]
    BY <1>2, <1>4 DEF Insert, Calls
  <2>2. calls[n].kind = "create" /\ calls[n].to \in Paths /\ Turn(n)
    BY <1>2, <1>4 DEF Insert, CallOK
  <2>3. /\ c \in Calls /\ c.state = "half" /\ c.on = f /\ c.kind = "create" /\ c.to = calls[n].to
        /\ c.active = calls[n].active /\ c.seen = calls[n].seen
    BY <1>2, <2>2 DEF Calls, States, Ons
  <2> HIDE DEF c
  <2>4. CallOK(c)
    BY <1>2, <2>2, <2>3, KindsApart DEF CallOK
  <2>5. /\ path' = [path EXCEPT ![f] = calls[n].to] /\ used' = used \cup {f} /\ UNCHANGED <<seeded, role>>
        /\ \A g \in Files : path[g] # calls[n].to
    BY <1>4 DEF Insert, Taken
  <2>6. TablesOK'
    BY <1>2, <2>2, <2>5 DEF TablesOK, FileLists
  <2>7. Served(n, c)
    BY <2>1, <2>2, <2>3, <2>4, <2>5 DEF Served, IsPlaced
  <2> QED
    BY <2>6, <2>7
<1>5. CASE Rename(n)
  <2>1. PICK c : /\ CallOK(c) /\ calls' = [calls EXCEPT ![n] = c] /\ c.state = "done"
                 /\ c.kind = calls[n].kind /\ c.on = calls[n].on /\ c.to = calls[n].to
                 /\ c.active = calls[n].active
    BY <1>5, BecomesIs DEF Rename, Writes
  <2>2. /\ calls[n].kind = "rename" /\ Turn(n) /\ calls[n].on \in Files /\ calls[n].to \in Paths
        /\ path' = [path EXCEPT ![calls[n].on] = calls[n].to] /\ UNCHANGED <<used, seeded, role>>
        /\ (\A g \in Files : path[g] # calls[n].to) /\ path[calls[n].on] # None
    BY <1>2, <1>5 DEF Rename, CallOK, Taken, Missing
  <2>3. TablesOK'
    BY <1>2, <2>2 DEF TablesOK, FileLists
  <2>4. Served(n, c)
    BY <2>1, <2>2 DEF Served, IsPlaced
  <2> QED
    BY <1>1, <2>3, <2>4
<1>6. CASE Delete(n)
  <2>1. PICK c : /\ CallOK(c) /\ calls' = [calls EXCEPT ![n] = c] /\ c.state = "done"
                 /\ c.kind = calls[n].kind /\ c.on = calls[n].on /\ c.to = calls[n].to
                 /\ c.active = calls[n].active
    BY <1>6, BecomesIs DEF Delete, Writes
  <2>2. /\ calls[n].kind = "delete" /\ Turn(n) /\ calls[n].on \in Files
        /\ path' = [path EXCEPT ![calls[n].on] = None] /\ UNCHANGED <<used, seeded, role>>
    BY <1>2, <1>6 DEF Delete, CallOK
  <2>3. TablesOK'
    BY <1>2, <2>2 DEF TablesOK, FileLists
  <2>4. Served(n, c)
    BY <2>1, <2>2 DEF Served, IsDeleted
  <2> QED
    BY <1>1, <2>3, <2>4
<1>7. CASE Seed(n)
  <2>1. calls[n].kind = "create" /\ calls[n].state = "half" /\ calls[n].on \in Files
    BY <1>2, <1>7 DEF Seed, CallOK
  <2>2. PICK state \in {"done", "refused"} :
          Becomes(n, state) /\ (state = "refused" <=> Missing(calls[n].on))
    BY <1>7 DEF Seed
  <2>3. PICK c : /\ CallOK(c) /\ calls' = [calls EXCEPT ![n] = c] /\ c.state = state
                 /\ c.kind = calls[n].kind /\ c.on = calls[n].on /\ c.to = calls[n].to
                 /\ c.active = calls[n].active
    BY <2>1, <2>2, BecomesIs DEF Writes
  <2>4. Served(n, c)
    BY <1>7, <2>1, <2>2, <2>3 DEF Served, IsSeeded, Seed
  <2>5. calls[n].on \in used \/ Missing(calls[n].on)
    BY <1>2, <2>1 DEF TablesOK, Missing
  <2>6. TablesOK'
    BY <1>2, <1>7, <2>5 DEF Seed, TablesOK
  <2> QED
    BY <1>1, <2>4, <2>6
<1>8. CASE Add(n)
  <2>1. PICK c : /\ CallOK(c) /\ calls' = [calls EXCEPT ![n] = c] /\ c.state = "done"
                 /\ c.kind = calls[n].kind /\ c.on = calls[n].on /\ c.to = calls[n].to
                 /\ c.active = calls[n].active
    BY <1>8, BecomesIs DEF Add, Writes
  <2>2. Served(n, c)
    BY <1>8, <2>1 DEF Served, IsManaged, Add
  <2>3. TablesOK'
    BY <1>2, <1>8 DEF Add, TablesOK, MemberLists, CallOK
  <2> QED
    BY <1>1, <2>2, <2>3
<1>9. CASE Manage(n)
  <2>1. PICK state \in {"done", "refused"} :
          Becomes(n, state) /\ (state = "refused" <=> Found(calls[n].on) = {})
    BY <1>9 DEF Manage
  <2>2. PICK c : /\ CallOK(c) /\ calls' = [calls EXCEPT ![n] = c] /\ c.state = state
                 /\ c.kind = calls[n].kind /\ c.on = calls[n].on /\ c.to = calls[n].to
                 /\ c.active = calls[n].active
    BY <1>9, <2>1, BecomesIs DEF Manage, Writes
  <2>3. TablesOK'
    BY <1>2, <1>9 DEF Manage, TablesOK, MemberLists, CallOK
  <2>4. Found(calls[n].on) = {} => role' = role
    BY <1>2, <1>9 DEF Manage, TablesOK, MemberLists
  <2>5. Served(n, c)
    BY <1>9, <2>1, <2>2, <2>4 DEF Served, IsManaged, IsRefused, Manage, Writes
  <2> QED
    BY <1>1, <2>3, <2>5
<1>10. CASE AlreadyMember(n) \/ RefusesFile(n) \/ ServeFails(n)
  <2>1. /\ Becomes(n, "refused") /\ UNCHANGED tables
        /\ \/ Turn(n) /\ calls[n].kind \in Writes
           \/ Fails(n) /\ calls[n].state \in {"sent", "half"}
    BY <1>10 DEF AlreadyMember, RefusesFile, ServeFails, Writes, Fails
  <2>2. calls[n].kind \in Writes \/ calls[n].state = "sent"
    BY <1>2, <2>1 DEF CallOK, Writes
  <2>3. PICK c : /\ CallOK(c) /\ calls' = [calls EXCEPT ![n] = c] /\ c.state = "refused"
                 /\ c.kind = calls[n].kind /\ c.on = calls[n].on /\ c.to = calls[n].to
                 /\ c.active = calls[n].active
    BY <2>1, <2>2, BecomesIs
  <2>4. Served(n, c)
    BY <2>1, <2>3 DEF Served, IsRefused, tables
  <2> QED
    BY <1>1, <1>2, <2>1, <2>4 DEF TablesOK, tables
<1> QED
  BY <1>1, <1>3, <1>4, <1>5, <1>6, <1>7, <1>8, <1>9, <1>10 DEF Serve

\* The owner asks for something.
LEMMA ActIs ==
  ASSUME PageOK, Act
  PROVE  /\ UNCHANGED <<env, tables, shown>> /\ Len(calls) < MaxCalls
         /\ "impatient" \notin env => calls = <<>>
         /\ \E c : /\ CallOK(c) /\ calls' = Append(calls, c)
                   /\ c.kind \in Writes /\ c.state = "sent" /\ c.active = active
<1>1. PICK kind, on, to : /\ calls' = Append(calls, Call(kind, on, to))
                          /\ kind \in Writes /\ on \in Ons /\ to \in Tos
                          /\ kind \in {"create", "rename"} => to \in Paths
                          /\ kind \in {"rename", "delete"} => on \in Files
                          /\ kind = "add" => on \in Users
                          /\ kind \in {"add", "change", "remove"} => to \in Roles \cup {None}
  BY DEF Act, CreateFile, RenameFile, DeleteFile, AddMember, ChangeRole, RemoveMember, Ask, Writes, Ons, Tos
<1>2. CallOK(Call(kind, on, to)) /\ Call(kind, on, to).kind = kind
      /\ Call(kind, on, to).state = "sent" /\ Call(kind, on, to).active = active
  BY <1>1, CallIs DEF PageOK
<1> QED
  BY <1>1, <1>2 DEF Act, MayCall

\* A call is answered; what it changed is asked for.
KindOf(n) == IF calls[n].kind \in {"add", "change", "remove"} THEN "members" ELSE "files"
LEMMA AnswerIs ==
  ASSUME PageOK, NEW n, Show(n) \/ Changed(n) \/ NotChanged(n)
  PROVE  /\ n \in DOMAIN calls /\ calls[n].state \in {"done", "refused"} /\ UNCHANGED <<env, tables>>
         /\ calls' \in Seq(Calls) /\ \A k \in DOMAIN calls' : CallOK(calls'[k])
         /\ Changed(n) => Call(KindOf(n), None, None) \in Calls
         /\ Len(calls') <= Len(calls)
<1>1. n \in DOMAIN calls /\ calls[n].state \in {"done", "refused"} /\ UNCHANGED <<env, tables>>
  BY DEF Show, Changed, NotChanged, Answered
<1>2. calls \in Seq(Calls) /\ Len(calls) \in Nat
  BY DEF PageOK
<1>3. Rest(n) \in Seq(Calls) /\ Len(Rest(n)) + 1 = Len(calls) /\ \A k \in DOMAIN Rest(n) : CallOK(Rest(n)[k])
  BY <1>1, <1>2, RestIs DEF PageOK
<1>4. Len(Rest(n)) \in Nat
  BY <1>3
<1>5. CASE calls' = Rest(n) /\ ~Changed(n)
  BY <1>1, <1>2, <1>3, <1>4, <1>5
<1>6. CASE Changed(n)
  <2> DEFINE c == Call(KindOf(n), None, None)
  <2>1. calls' = Append(Rest(n), c)
    BY <1>6 DEF Changed, Again, KindOf
  <2>2. CallOK(c) /\ c \in Calls
    BY ReadIs DEF KindOf, Reads, PageOK, CallOK
  <2> HIDE DEF c
  <2>3. Len(Append(Rest(n), c)) = Len(Rest(n)) + 1
    BY <1>3, <2>2
  <2> QED
    BY <1>1, <1>2, <1>3, <1>4, <2>1, <2>2, <2>3, MoreCalls DEF c
<1> QED
  BY <1>5, <1>6 DEF Show, NotChanged, Changed

LEMMA PageStep ==
  ASSUME NoneApart, PageOK, [Next]_vars
  PROVE  PageOK'
<1>1. CASE Act
  <2>1. PICK c : CallOK(c) /\ calls' = Append(calls, c)
    BY <1>1, ActIs
  <2>2. calls' \in Seq(Calls) /\ \A n \in DOMAIN calls' : CallOK(calls'[n])
    BY <2>1, MoreCalls DEF PageOK, CallOK
  <2> QED
    BY <1>1, <2>2, ActIs DEF Act, PageOK, TablesOK, tables, shown
<1>2. CASE Reload
  BY <1>2, LoadsAre DEF Reload, PageOK, TablesOK, tables, NoFiles, NoMembers, FileLists, MemberLists
<1>3. ASSUME NEW f \in Files, OpenFile(f)
      PROVE  PageOK'
  BY <1>3 DEF OpenFile, PageOK, TablesOK, tables
<1>4. ASSUME NEW n, Serve(n)
      PROVE  PageOK'
  <2>1. n \in DOMAIN calls
    BY <1>4 DEF Serve, List, Insert, Seed, Rename, Delete, Add, Manage, AlreadyMember, RefusesFile,
                ServeFails, Turn
  <2>2. UNCHANGED <<env, shown>> /\ TablesOK' /\ \E c : Served(n, c)
    BY <1>4, <2>1, ServeIs
  <2>3. calls' \in Seq(Calls) /\ \A m \in DOMAIN calls' : CallOK(calls'[m])
    BY <2>1, <2>2, CallGoesOn DEF Served
  <2>4. CASE read' = read
    BY <2>2, <2>3, <2>4 DEF PageOK, shown
  <2>5. CASE List(n)
    <3>1. read' \in [files : FileLists, members : MemberLists]
      <4>1. \/ read' = [read EXCEPT !.files = path] \/ read' = [read EXCEPT !.members = role]
        BY <2>5 DEF List
      <4> QED
        BY <4>1 DEF PageOK, TablesOK
    <3> QED
      BY <2>2, <2>3, <3>1 DEF PageOK, shown
  <2>6. List(n) \/ read' = read
    BY <1>4 DEF Serve, List, Insert, Seed, Rename, Delete, Add, Manage, AlreadyMember, RefusesFile,
                ServeFails
  <2> QED
    BY <2>4, <2>5, <2>6
<1>5. ASSUME NEW n, Show(n) \/ Changed(n) \/ NotChanged(n)
      PROVE  PageOK'
  <2>1. TablesOK' /\ env' = env /\ read' = read
    BY <1>5, AnswerIs DEF PageOK, TablesOK, tables, Show, Changed, NotChanged
  <2>2. files' \in FileLists /\ members' \in MemberLists /\ active' \in Files \cup {None}
    <3>1. CASE Show(n)
      <4>1. CallOK(calls[n])
        BY <1>5, AnswerIs DEF PageOK
      <4> QED
        BY <3>1, <4>1 DEF Show, CallOK, PageOK
    <3>2. CASE Changed(n) \/ NotChanged(n)
      BY <3>2 DEF Changed, NotChanged, PageOK, shown
    <3> QED
      BY <1>5, <3>1, <3>2
  <2> QED
    BY <1>5, <2>1, <2>2, AnswerIs DEF PageOK
<1>6. CASE UNCHANGED vars
  BY <1>6 DEF vars, tables, shown, PageOK, TablesOK
<1> QED
  BY <1>1, <1>2, <1>3, <1>4, <1>5, <1>6 DEF Next

LEMMA PageInit == Init => PageOK
BY LoadsAre DEF Init, PageOK, TablesOK, NoFiles, NoMembers, FileLists, MemberLists

LEMMA ServesACall == \A n : Serve(n) => n \in DOMAIN calls
BY DEF Serve, List, Insert, Seed, Rename, Delete, Add, Manage, AlreadyMember, RefusesFile, ServeFails, Turn

LEMMA EnvStays == [Next]_vars => env' = env
BY DEF Next, vars, Act, Reload, OpenFile, Serve, List, Insert, Seed, Rename, Delete, Add, Manage,
       AlreadyMember, RefusesFile, ServeFails, Show, Changed, NotChanged

-----------------------------------------------------------------------------
(* The order of calls. *)

LEMMA PatientStep ==
  ASSUME NoneApart, PageOK, PatientInv, [Next]_vars
  PROVE  PatientInv'
<1> SUFFICES ASSUME "impatient" \notin env'
             PROVE  PatientInv'
  BY DEF PatientInv
<1>0. env' = env
  BY EnvStays
<1>1. CASE Act
  <2>1. calls = <<>> /\ calls \in Seq(Calls)
    BY <1>1, ActIs DEF PageOK
  <2>2. PICK c \in Calls : calls' = Append(calls, c)
    BY <1>1, ActIs DEF CallOK
  <2>3. OneCall'
    BY <2>1, <2>2, MoreCalls DEF OneCall
  <2> QED
    BY <2>3 DEF PatientInv
<1>2. CASE Reload
  BY <1>2, LoadsAre DEF Reload, PatientInv, Reads
<1>3. ASSUME NEW f \in Files, OpenFile(f)
      PROVE  PatientInv'
  BY <1>3 DEF OpenFile, PatientInv, OneCall
<1>4. ASSUME NEW n \in DOMAIN calls, Serve(n)
      PROVE  PatientInv'
  <2>1. PICK c : Served(n, c)
    BY <1>4, ServeIs
  <2>2. /\ DOMAIN calls' = DOMAIN calls /\ env' = env /\ active' = active
        /\ \A m \in DOMAIN calls : calls'[m].kind = calls[m].kind
    BY <1>4, <2>1, ServeIs, CallGoesOn DEF Served, shown
  <2> QED
    BY <2>2 DEF PatientInv, OneCall
<1>5. ASSUME NEW n, Show(n) \/ NotChanged(n)
      PROVE  PatientInv'
  <2>1. calls' = Rest(n) /\ active' = active /\ n \in DOMAIN calls /\ env' = env /\ calls \in Seq(Calls)
    BY <1>5, AnswerIs DEF Show, NotChanged, shown, PageOK
  <2>2. \A k \in DOMAIN calls' : \E m \in DOMAIN calls \ {n} : k = After(m, n) /\ calls'[k] = calls[m]
    BY <2>1, RestIs
  <2> QED
    BY <2>1, <2>2 DEF PatientInv, OneCall
<1>6. ASSUME NEW n, Changed(n)
      PROVE  PatientInv'
  <2>1. /\ n \in DOMAIN calls /\ env' = env /\ calls[n].kind \in Writes
        /\ calls \in Seq(Calls) /\ Call(KindOf(n), None, None) \in Calls
        /\ calls' = Append(Rest(n), Call(KindOf(n), None, None))
    BY <1>6, AnswerIs DEF Changed, Again, KindOf, PageOK
  <2>2. OneCall
    BY <2>1, KindsApart DEF PatientInv
  <2>3. DOMAIN Rest(n) = {} /\ Rest(n) \in Seq(Calls)
    BY <2>1, <2>2, RestIs DEF OneCall
  <2>4. OneCall'
    BY <2>1, <2>3, MoreCalls DEF OneCall
  <2> QED
    BY <2>4 DEF PatientInv
<1>7. CASE UNCHANGED vars
  BY <1>7 DEF vars, shown, PatientInv, OneCall
<1> QED
  BY <1>1, <1>2, <1>3, <1>4, <1>5, <1>6, <1>7, ServesACall DEF Next

\* Where nothing fails a call is served while no file is half made, ...
LEMMA ServedAlone ==
  ASSUME PageOK, PatientInv, OrderInv, Certain, NEW n \in DOMAIN calls, Turn(n)
  PROVE  /\ \A m \in DOMAIN calls : calls[m].state # "half"
         /\ \A m \in DOMAIN calls : m > n /\ calls[m].kind \in Reads /\ calls[m].kind = calls[n].kind
                                      => calls[m].state = "sent"
<1>1. calls[n].state = "sent" /\ DOMAIN calls = 1..Len(calls) /\ Len(calls) \in Nat
  BY DEF Turn, PageOK
<1>2. CASE "reorder" \notin env
  <2>1. \A m \in DOMAIN calls : m < n => calls[m].state \in {"done", "refused"}
    BY <1>1, <1>2 DEF Turn
  <2>2. \A m \in DOMAIN calls : n < m => calls[m].state = "sent"
    BY <1>1, <1>2 DEF OrderInv, Certain
  <2> QED
    BY <1>1, <2>1, <2>2
<1>3. CASE "reorder" \in env
  <2>1. "impatient" \notin env
    BY <1>3 DEF Certain
  <2>2. \A m \in DOMAIN calls : calls[m].state = "half" => calls[m].kind = "create"
    BY DEF PageOK, CallOK
  <2> QED
    BY <1>1, <2>1, <2>2 DEF PatientInv, OneCall, Reads
<1> QED
  BY <1>2, <1>3

\* ... and of two reads of a list the first is answered first.
LEMMA AnsweredFirst ==
  ASSUME Certain, PageOK, PatientInv, NEW n \in DOMAIN calls, Answered(n), calls[n].kind \in Reads
  PROVE  \A m \in DOMAIN calls : calls[m].kind = calls[n].kind => m = n \/ m > n
<1>1. DOMAIN calls = 1..Len(calls) /\ Len(calls) \in Nat
  BY DEF PageOK
<1>2. CASE n = 1
  BY <1>1, <1>2
<1>3. CASE n # 1
  BY <1>3 DEF Answered, Certain, PatientInv, OneCall
<1> QED
  BY <1>2, <1>3

\* Calls that stay are as they were served, or not.
LEMMA RestInOrder ==
  ASSUME calls \in Seq(Calls), NEW n \in DOMAIN calls,
         \A m, p \in DOMAIN calls : m < p /\ calls[p].state # "sent" => calls[m].state \in {"done", "refused"}
  PROVE  \A k, l \in DOMAIN Rest(n) :
           k < l /\ Rest(n)[l].state # "sent" => Rest(n)[k].state \in {"done", "refused"}
<1> SUFFICES ASSUME NEW k \in DOMAIN Rest(n), NEW l \in DOMAIN Rest(n), k < l, Rest(n)[l].state # "sent"
             PROVE  Rest(n)[k].state \in {"done", "refused"}
  OBVIOUS
<1>1. PICK m \in DOMAIN calls \ {n} : k = After(m, n)
  BY RestIs
<1>2. PICK p \in DOMAIN calls \ {n} : l = After(p, n)
  BY RestIs
<1>3. Rest(n)[k] = calls[m] /\ Rest(n)[l] = calls[p] /\ m < p
  BY <1>1, <1>2, RestIs
<1> QED
  BY <1>3

LEMMA OrderStep ==
  ASSUME NoneApart, PageOK, OrderInv, [Next]_vars
  PROVE  OrderInv'
<1> SUFFICES ASSUME {"reorder", "fails", "unread"} \cap env = {}
             PROVE  OrderInv'
  BY EnvStays DEF OrderInv
<1>0. DOMAIN calls = 1..Len(calls) /\ Len(calls) \in Nat /\ calls \in Seq(Calls)
  BY DEF PageOK
<1>1. CASE Act
  <2>1. PICK c \in Calls : calls' = Append(calls, c) /\ c.state = "sent"
    BY <1>1, ActIs DEF CallOK
  <2>2. DOMAIN calls' = DOMAIN calls \cup {Len(calls) + 1} /\ Len(calls) + 1 \notin DOMAIN calls
        /\ calls'[Len(calls) + 1] = c /\ \A n \in DOMAIN calls : n < Len(calls) + 1 /\ calls'[n] = calls[n]
    BY <1>0, <2>1, MoreCalls
  <2>3. ASSUME NEW m \in DOMAIN calls', NEW n \in DOMAIN calls', m < n, calls'[n].state # "sent"
        PROVE  calls'[m].state \in {"done", "refused"}
    BY <1>0, <2>1, <2>2, <2>3 DEF OrderInv
  <2> QED
    BY <2>3 DEF OrderInv
<1>2. CASE Reload
  BY <1>2, LoadsAre DEF Reload, OrderInv
<1>3. ASSUME NEW n \in DOMAIN calls, Serve(n)
      PROVE  OrderInv'
  <2>1. PICK c : Served(n, c)
    BY <1>3, ServeIs
  <2>2. /\ DOMAIN calls' = DOMAIN calls /\ calls'[n] = c
        /\ \A m \in DOMAIN calls : m # n => calls'[m] = calls[m]
    BY <2>1, CallGoesOn DEF Served
  <2>3. Turn(n) \/ calls[n].state = "half"
    BY <2>1 DEF Served, IsRead, IsPlaced, IsDeleted, IsManaged, IsSeeded, IsRefused, Fails
  <2>4. \A m \in DOMAIN calls : m < n => calls[m].state \in {"done", "refused"}
    BY <1>0, <2>3 DEF Turn, OrderInv
  <2>5. \A m \in DOMAIN calls : m > n => calls[m].state = "sent"
    BY <1>0, <2>3 DEF Turn, OrderInv
  <2>6. ASSUME NEW m \in DOMAIN calls, NEW k \in DOMAIN calls, m < k, calls'[k].state # "sent"
        PROVE  calls'[m].state \in {"done", "refused"}
    <3>1. CASE k = n
      BY <1>0, <2>2, <2>4, <2>6, <3>1
    <3>2. CASE m = n
      BY <1>0, <2>2, <2>5, <2>6, <3>2
    <3>3. CASE k # n /\ m # n
      BY <2>2, <2>6, <3>3 DEF OrderInv
    <3> QED
      BY <3>1, <3>2, <3>3
  <2> QED
    BY <2>2, <2>6 DEF OrderInv
<1>4. ASSUME NEW n, Show(n) \/ NotChanged(n)
      PROVE  OrderInv'
  <2>1. calls' = Rest(n) /\ n \in DOMAIN calls
    BY <1>4, AnswerIs DEF Show, NotChanged
  <2> QED
    BY <1>0, <2>1, RestInOrder DEF OrderInv
<1>5. ASSUME NEW n, Changed(n)
      PROVE  OrderInv'
  <2> DEFINE c == Call(KindOf(n), None, None)
             s == Rest(n)
  <2>0. n \in DOMAIN calls /\ c \in Calls
    BY <1>5, AnswerIs
  <2>1. calls' = Append(s, c)
    BY <1>5 DEF Changed, Again, KindOf
  <2>2. c.state = "sent"
    BY DEF Call
  <2>3. s \in Seq(Calls)
    BY <1>0, <2>0, RestIs
  <2>4. \A k, l \in DOMAIN s : k < l /\ s[l].state # "sent" => s[k].state \in {"done", "refused"}
    BY <1>0, <2>0, RestInOrder DEF OrderInv
  <2> HIDE DEF c, s
  <2>5. /\ DOMAIN calls' = DOMAIN s \cup {Len(s) + 1} /\ Len(s) + 1 \notin DOMAIN s
        /\ calls'[Len(s) + 1] = c /\ \A k \in DOMAIN s : k < Len(s) + 1 /\ calls'[k] = s[k]
    BY <2>0, <2>1, <2>3, MoreCalls
  <2>6. \A k \in DOMAIN s : k \in Nat
    BY <2>3
  <2>7. Len(s) \in Nat
    BY <2>3
  <2>8. ASSUME NEW k \in DOMAIN calls', NEW l \in DOMAIN calls', k < l, calls'[l].state # "sent"
        PROVE  calls'[k].state \in {"done", "refused"}
    BY <2>2, <2>4, <2>5, <2>6, <2>7, <2>8
  <2> QED
    BY <2>8 DEF OrderInv
<1>6. UNCHANGED calls => OrderInv'
  BY DEF OrderInv
<1> QED
  BY <1>1, <1>2, <1>3, <1>4, <1>5, <1>6, ServesACall DEF Next, OpenFile, vars

\* What an answer leaves of the calls, and what it adds.
LEMMA AnswerLeaves ==
  ASSUME PageOK, NEW n, Show(n) \/ Changed(n) \/ NotChanged(n)
  PROVE  /\ n \in DOMAIN calls /\ DOMAIN calls \subseteq Nat
         /\ \A m \in DOMAIN calls \ {n} : After(m, n) \in DOMAIN calls' /\ calls'[After(m, n)] = calls[m]
         /\ \A l, m \in DOMAIN calls \ {n} : l < m <=> After(l, n) < After(m, n)
         /\ \A k \in DOMAIN calls' : \/ \E m \in DOMAIN calls \ {n} : k = After(m, n)
                                     \/ Changed(n) /\ calls'[k] = Call(KindOf(n), None, None)
         /\ Changed(n) => \E k \in DOMAIN calls' : calls'[k] = Call(KindOf(n), None, None)
<1> DEFINE s == Rest(n)
           c == Call(KindOf(n), None, None)
<1>1. n \in DOMAIN calls /\ (Changed(n) => c \in Calls) /\ calls \in Seq(Calls)
  BY AnswerIs DEF PageOK
<1>2. /\ s \in Seq(Calls) /\ DOMAIN calls \subseteq Nat
      /\ \A m \in DOMAIN calls \ {n} : After(m, n) \in DOMAIN s /\ s[After(m, n)] = calls[m]
      /\ \A l, m \in DOMAIN calls \ {n} : l < m <=> After(l, n) < After(m, n)
      /\ \A k \in DOMAIN s : \E m \in DOMAIN calls \ {n} : k = After(m, n)
  BY <1>1, RestIs
<1>3. CASE Changed(n)
  <2>1. calls' = Append(s, c)
    BY <1>3 DEF Changed, Again, KindOf
  <2> HIDE DEF s, c
  <2>2. /\ DOMAIN calls' = DOMAIN s \cup {Len(s) + 1} /\ calls'[Len(s) + 1] = c
        /\ \A m \in DOMAIN s : calls'[m] = s[m]
    BY <1>1, <1>2, <1>3, <2>1, MoreCalls
  <2> QED
    BY ONLY <1>1, <1>2, <1>3, <2>2 DEF c
<1>4. CASE ~Changed(n)
  <2>1. calls' = s
    BY <1>4 DEF Show, NotChanged
  <2> QED
    BY ONLY <1>1, <1>2, <1>4, <2>1
<1> QED
  BY <1>3, <1>4

-----------------------------------------------------------------------------
(* The lists. *)

LEMMA HalfStep ==
  ASSUME NoneApart, PageOK, PatientInv, OrderInv, HalfInv, Certain, [Next]_vars
  PROVE  HalfInv'
<1>1. CASE Act
  <2>1. PICK c \in Calls : calls' = Append(calls, c) /\ c.state = "sent"
    BY <1>1, ActIs DEF CallOK
  <2>2. /\ DOMAIN calls' = DOMAIN calls \cup {Len(calls) + 1}
        /\ calls'[Len(calls) + 1] = c /\ \A n \in DOMAIN calls : calls'[n] = calls[n]
    BY <2>1, MoreCalls DEF PageOK
  <2>3. path' = path
    BY <1>1 DEF Act, tables
  <2> QED
    BY <2>1, <2>2, <2>3 DEF HalfInv
<1>2. CASE Reload
  BY <1>2, LoadsAre DEF Reload, HalfInv
<1>3. ASSUME NEW n \in DOMAIN calls, Serve(n)
      PROVE  HalfInv'
  <2>1. PICK c : Served(n, c)
    BY <1>3, ServeIs
  <2>2. /\ DOMAIN calls' = DOMAIN calls /\ calls'[n] = c /\ c \in Calls
        /\ \A m \in DOMAIN calls : m # n => calls'[m] = calls[m]
    BY <2>1, CallGoesOn DEF Served, CallOK
  <2>3. CASE path' = path /\ c.state # "half"
    BY <2>2, <2>3 DEF HalfInv
  <2>4. CASE Turn(n)
    <3>1. \A m \in DOMAIN calls : calls[m].state # "half"
      BY <2>4, ServedAlone
    <3>2. c.state = "half" => path'[c.on] # None
      BY <2>1 DEF Served, IsRead, IsPlaced, IsDeleted, IsManaged, IsSeeded, IsRefused, NoneApart,
                  PageOK, TablesOK, FileLists
    <3> QED
      BY <2>2, <3>1, <3>2 DEF HalfInv
  <2> QED
    BY <2>1, <2>3, <2>4 DEF Served, IsRead, IsPlaced, IsDeleted, IsManaged, IsSeeded, IsRefused
<1>4. ASSUME NEW n, Show(n) \/ Changed(n) \/ NotChanged(n)
      PROVE  HalfInv'
  <2>1. path' = path
    BY <1>4 DEF Show, Changed, NotChanged, tables
  <2>2. Call(KindOf(n), None, None).state = "sent"
    BY DEF Call
  <2>3. \A k \in DOMAIN calls' : \/ \E m \in DOMAIN calls : calls'[k] = calls[m]
                                 \/ calls'[k] = Call(KindOf(n), None, None)
    BY <1>4, AnswerLeaves
  <2> QED
    BY <2>1, <2>2, <2>3 DEF HalfInv
<1>5. UNCHANGED <<calls, path>> => HalfInv'
  BY DEF HalfInv
<1> QED
  BY <1>1, <1>2, <1>3, <1>4, <1>5, ServesACall DEF Next, OpenFile, vars, tables

\* Calls that are neither a read list nor awaited can come and go.
LEMMA ListCarries ==
  ASSUME NEW k, ListInv(k), Shown(k)' = Shown(k), Stored(k)' = Stored(k),
         NEW D \in SUBSET DOMAIN calls, NEW g \in [D -> DOMAIN calls'],
         \A m, n \in D : m > n <=> g[m] > g[n],
         \A m \in D : calls'[g[m]] = calls[m],
         \A m \in DOMAIN calls \ D : ~Awaited(calls[m], k) /\ ~ReadOf(calls[m], k),
         \A l \in DOMAIN calls' : (\E m \in D : l = g[m]) \/ ~ReadOf(calls'[l], k)
  PROVE  ListInv(k)'
<1>1. CASE \E n \in DOMAIN calls : Awaited(calls[n], k)
  <2>1. PICK n \in D : Awaited(calls[n], k)
    BY <1>1
  <2>2. g[n] \in DOMAIN calls' /\ Awaited(calls'[g[n]], k)
    BY <2>1
  <2> QED
    BY <2>2 DEF ListInv, Awaited
<1>2. ASSUME NEW n \in DOMAIN calls, ReadOf(calls[n], k), calls[n].seen = Stored(k),
             \A m \in DOMAIN calls : m > n => ~ReadOf(calls[m], k)
      PROVE  ListInv(k)'
  <2>1. n \in D /\ g[n] \in DOMAIN calls' /\ ReadOf(calls'[g[n]], k) /\ calls'[g[n]].seen = Stored(k)'
    BY <1>2
  <2>2. ASSUME NEW l \in DOMAIN calls', l > g[n], ReadOf(calls'[l], k)
        PROVE  FALSE
    <3>1. PICK m \in D : l = g[m]
      BY <2>2
    <3> QED
      BY <1>2, <2>1, <2>2, <3>1
  <2> QED
    BY <2>1, <2>2 DEF ListInv, ReadOf
<1>3. CASE Shown(k) = Stored(k) /\ \A m \in DOMAIN calls : ~ReadOf(calls[m], k)
  <2>1. \A l \in DOMAIN calls' : ~ReadOf(calls'[l], k)
    BY <1>3
  <2> QED
    BY <1>3, <2>1 DEF ListInv, ReadOf
<1> QED
  BY <1>1, <1>2, <1>3 DEF ListInv

\* The call n, neither before nor after, is served: the others stay.
LEMMA ListStays ==
  ASSUME NEW k, ListInv(k), Shown(k)' = Shown(k), Stored(k)' = Stored(k),
         NEW n, DOMAIN calls' = DOMAIN calls, \A m \in DOMAIN calls : m # n => calls'[m] = calls[m],
         n \in DOMAIN calls => ~Awaited(calls[n], k) /\ ~ReadOf(calls[n], k) /\ ~ReadOf(calls'[n], k)
  PROVE  ListInv(k)'
<1> DEFINE D == DOMAIN calls \ {n}
           g == [m \in D |-> m]
<1>1. D \in SUBSET DOMAIN calls /\ g \in [D -> DOMAIN calls'] /\ \A m \in D : g[m] = m /\ calls'[g[m]] = calls[m]
  OBVIOUS
<1>2. \A m \in DOMAIN calls \ D : ~Awaited(calls[m], k) /\ ~ReadOf(calls[m], k)
  OBVIOUS
<1>3. \A l \in DOMAIN calls' : (\E m \in D : l = g[m]) \/ ~ReadOf(calls'[l], k)
  OBVIOUS
<1> HIDE DEF D, g
<1> QED
  BY <1>1, <1>2, <1>3, ListCarries

LEMMA ListServed ==
  ASSUME NoneApart, PageOK, PatientInv, OrderInv, HalfInv, Certain,
         NEW n \in DOMAIN calls, Serve(n), NEW k \in Reads, ListInv(k)
  PROVE  ListInv(k)'
<1>1. PICK c : Served(n, c)
  BY ServeIs
<1>2. /\ DOMAIN calls' = DOMAIN calls /\ calls'[n] = c
      /\ \A m \in DOMAIN calls : m # n => calls'[m] = calls[m]
  BY <1>1, CallGoesOn DEF Served
<1>3. Shown(k)' = Shown(k) /\ c.kind = calls[n].kind /\ CallOK(calls[n])
  BY <1>1, ServeIs DEF Served, Shown, shown, PageOK
<1>4. k \in {"files", "members"} /\ DOMAIN calls \subseteq Nat
  BY DEF Reads, PageOK
<1>5. Awaited(c, k) => ListInv(k)'
  <2>1. Awaited(c, k) => Awaited(calls'[n], k)
    BY <1>2
  <2> QED
    BY <1>2, <2>1 DEF ListInv, Awaited
<1>6. (/\ Stored(k)' = Stored(k)
       /\ ~Awaited(calls[n], k) /\ ~ReadOf(calls[n], k) /\ ~ReadOf(c, k)) => ListInv(k)'
  BY <1>2, <1>3, ListStays
<1>7. CASE IsRead(n, c)
  <2>1. Stored(k)' = Stored(k) /\ c.kind \in Reads /\ c.state = "done" /\ c.seen = Stored(c.kind) /\ Turn(n)
    BY <1>7 DEF IsRead, Stored
  <2>2. CASE c.kind = k
    <3>1. \A m \in DOMAIN calls : m > n => ~ReadOf(calls[m], k)
      BY <1>3, <1>4, <2>1, <2>2, ServedAlone DEF ReadOf
    <3>2. ReadOf(calls'[n], k) /\ calls'[n].seen = Stored(k)'
      BY <1>2, <2>1, <2>2 DEF ReadOf
    <3>3. \A m \in DOMAIN calls' : m > n => ~ReadOf(calls'[m], k)
      BY <1>2, <1>4, <3>1
    <3> QED
      BY <1>2, <3>2, <3>3 DEF ListInv, ReadOf
  <2>3. CASE c.kind # k
    <3>1. ~Awaited(calls[n], k) /\ ~ReadOf(calls[n], k) /\ ~ReadOf(c, k)
      BY <1>3, <1>4, <2>1, <2>3 DEF Awaited, ReadOf, ChangesOf, Reads
    <3> QED
      BY <1>6, <2>1, <3>1
  <2> QED
    BY <2>2, <2>3
<1>8. CASE IsPlaced(n, c) \/ IsDeleted(n, c) \/ IsManaged(n, c)
  <2>1. /\ Turn(n) /\ c.state \in {"half", "done"} /\ c.kind \in Writes
        /\ c.kind \in {"create", "rename", "delete"} => role' = role
        /\ c.kind \in {"add", "change", "remove"} => path' = path
    BY <1>8 DEF IsPlaced, IsDeleted, IsManaged, Writes
  <2>2. CASE c.kind \in ChangesOf(k)
    BY <1>5, <2>1, <2>2 DEF Awaited
  <2>3. CASE c.kind \notin ChangesOf(k)
    <3>1. Stored(k)' = Stored(k)
      BY <1>4, <2>1, <2>3 DEF Stored, ChangesOf, Writes
    <3>2. ~Awaited(calls[n], k) /\ ~ReadOf(calls[n], k) /\ ~ReadOf(c, k)
      BY <1>3, <1>4, <2>1, <2>3, KindsApart DEF Awaited, ReadOf
    <3> QED
      BY <1>6, <3>1, <3>2
  <2> QED
    BY <2>2, <2>3
<1>9. CASE IsSeeded(n, c)
  <2>1. /\ calls[n].state = "half" /\ c.kind = "create" /\ Stored(k)' = Stored(k) /\ c.state = "done"
    BY <1>9 DEF IsSeeded, HalfInv, Missing, Stored
  <2>2. CASE k = "files"
    BY <1>5, <2>1, <2>2 DEF Awaited, ChangesOf
  <2>3. CASE k = "members"
    <3>1. ~Awaited(calls[n], k) /\ ~ReadOf(calls[n], k) /\ ~ReadOf(c, k)
      BY <1>3, <2>1, <2>3 DEF Awaited, ReadOf, ChangesOf
    <3> QED
      BY <1>6, <2>1, <3>1
  <2> QED
    BY <1>4, <2>2, <2>3
<1>10. CASE IsRefused(n, c)
  <2>1. c.state = "refused" /\ calls[n].state = "sent" /\ calls[n].kind \in Writes /\ Stored(k)' = Stored(k)
    <3>1. ~Fails(n)
      BY DEF Fails, Certain
    <3>2. Turn(n) /\ c.kind \in Writes /\ c.state = "refused" /\ Stored(k)' = Stored(k)
      BY <1>10, <3>1 DEF IsRefused, Stored
    <3> QED
      BY <1>3, <3>2 DEF Turn
  <2>2. ~Awaited(calls[n], k) /\ ~ReadOf(calls[n], k) /\ ~ReadOf(c, k)
    BY <2>1, KindsApart DEF Awaited, ReadOf
  <2> QED
    BY <1>6, <2>1, <2>2
<1> QED
  BY <1>1, <1>7, <1>8, <1>9, <1>10 DEF Served

\* Answers, but the one that shows the list.
LEMMA ListAnswered ==
  ASSUME PageOK, NEW n, Show(n) \/ Changed(n) \/ NotChanged(n), NEW k \in Reads, ListInv(k),
         Shown(k)' = Shown(k), ~Awaited(calls[n], k), ~ReadOf(calls[n], k)
  PROVE  ListInv(k)'
<1> DEFINE D == DOMAIN calls \ {n}
           g == [m \in D |-> After(m, n)]
<1>1. Stored(k)' = Stored(k)
  BY AnswerIs DEF Stored, tables
<1>2. D \in SUBSET DOMAIN calls /\ g \in [D -> DOMAIN calls'] /\ \A m \in D : calls'[g[m]] = calls[m]
  BY AnswerLeaves
<1>3. \A l, m \in D : l > m <=> g[l] > g[m]
  <2> SUFFICES ASSUME NEW l \in D, NEW m \in D
               PROVE  m < l <=> g[m] < g[l]
    OBVIOUS
  <2>1. m < l <=> After(m, n) < After(l, n)
    BY AnswerLeaves
  <2> QED
    BY <2>1
<1>4. ~ReadOf(Call(KindOf(n), None, None), k)
  BY DEF ReadOf, Call
<1>5. \A l \in DOMAIN calls' : (\E m \in D : l = g[m]) \/ ~ReadOf(calls'[l], k)
  <2> SUFFICES ASSUME NEW l \in DOMAIN calls', ReadOf(calls'[l], k)
               PROVE  \E m \in D : l = g[m]
    OBVIOUS
  <2>1. PICK m \in D : l = After(m, n)
    BY <1>4, AnswerLeaves
  <2> QED
    BY <2>1
<1>6. \A m \in DOMAIN calls \ D : ~Awaited(calls[m], k) /\ ~ReadOf(calls[m], k)
  OBVIOUS
<1> HIDE DEF D, g
<1> QED
  BY <1>1, <1>2, <1>3, <1>5, <1>6, ListCarries

LEMMA ListStep ==
  ASSUME NoneApart, PageOK, PatientInv, OrderInv, HalfInv, Certain, [Next]_vars,
         NEW k \in Reads, ListInv(k)
  PROVE  ListInv(k)'
<1>0. k \in {"files", "members"}
  BY DEF Reads
<1>1. CASE Act
  <2>1. PICK c \in Calls : calls' = Append(calls, c) /\ c.state = "sent"
    BY <1>1, ActIs DEF CallOK
  <2>2. /\ DOMAIN calls' = DOMAIN calls \cup {Len(calls) + 1}
        /\ calls'[Len(calls) + 1] = c /\ \A n \in DOMAIN calls : calls'[n] = calls[n]
    BY <2>1, MoreCalls DEF PageOK
  <2>3. Shown(k)' = Shown(k) /\ Stored(k)' = Stored(k)
    BY <1>1 DEF Act, tables, shown, Shown, Stored
  <2> DEFINE D == DOMAIN calls
             g == [m \in D |-> m]
  <2>4. D \in SUBSET DOMAIN calls /\ g \in [D -> DOMAIN calls'] /\ \A m \in D : g[m] = m /\ calls'[g[m]] = calls[m]
    BY <2>2
  <2>5. \A l \in DOMAIN calls' : (\E m \in D : l = g[m]) \/ ~ReadOf(calls'[l], k)
    BY <2>1, <2>2 DEF ReadOf
  <2>6. \A m \in DOMAIN calls \ D : ~Awaited(calls[m], k) /\ ~ReadOf(calls[m], k)
    OBVIOUS
  <2> HIDE DEF D, g
  <2> QED
    BY <2>3, <2>4, <2>5, <2>6, ListCarries
<1>2. CASE Reload
  <2>1. \E n \in DOMAIN calls' : Awaited(calls'[n], k)
    BY <1>0, <1>2, LoadsAre DEF Reload, Awaited
  <2> QED
    BY <2>1 DEF ListInv, Awaited
<1>3. ASSUME NEW n, NotChanged(n)
      PROVE  ListInv(k)'
  <2>1. ~Awaited(calls[n], k) /\ ~ReadOf(calls[n], k) /\ Shown(k)' = Shown(k)
    BY <1>3 DEF NotChanged, Awaited, ReadOf, Shown, shown
  <2> QED
    BY <1>3, <2>1, ListAnswered
<1>4. ASSUME NEW n, Changed(n)
      PROVE  ListInv(k)'
  <2>1. Shown(k)' = Shown(k) /\ calls[n].kind \in Writes
    BY <1>4 DEF Changed, Shown
  <2>2. CASE k = KindOf(n)
    <3>1. PICK l \in DOMAIN calls' : calls'[l] = Call(KindOf(n), None, None)
      BY <1>4, AnswerLeaves
    <3>2. Awaited(calls'[l], k)
      BY <2>2, <3>1 DEF Awaited, Call
    <3> QED
      BY <3>2 DEF ListInv, Awaited
  <2>3. CASE k # KindOf(n)
    <3>1. ~Awaited(calls[n], k) /\ ~ReadOf(calls[n], k)
      BY <1>0, <2>1, <2>3 DEF Awaited, ReadOf, ChangesOf, KindOf, Writes
    <3> QED
      BY <1>4, <2>1, <3>1, ListAnswered
  <2> QED
    BY <2>2, <2>3
<1>5. ASSUME NEW n, Show(n)
      PROVE  ListInv(k)'
  <2>1. /\ n \in DOMAIN calls /\ calls[n].kind \in Reads /\ calls[n].state \in {"done", "refused"}
        /\ Answered(n) /\ Shown(k)' = (IF ReadOf(calls[n], k) THEN calls[n].seen ELSE Shown(k))
        /\ Stored(k)' = Stored(k)
    BY <1>0, <1>5 DEF Show, Answered, Shown, ReadOf, Stored, tables
  <2>2. ~Awaited(calls[n], k)
    BY <1>0, <2>1 DEF Awaited, ChangesOf, Reads
  <2>3. CASE ~ReadOf(calls[n], k)
    BY <1>5, <2>1, <2>2, <2>3, ListAnswered
  <2>4. CASE ReadOf(calls[n], k)
    <3>1. \A l \in DOMAIN calls' : \E m \in DOMAIN calls \ {n} : l = After(m, n) /\ calls'[l] = calls[m]
      <4>1. ~Changed(n)
        BY <2>1, KindsApart DEF Changed
      <4> QED
        BY <1>5, <4>1, AnswerLeaves
    <3>2. \A m \in DOMAIN calls \ {n} : After(m, n) \in DOMAIN calls' /\ calls'[After(m, n)] = calls[m]
      BY <1>5, AnswerLeaves
    <3>3. \A l, m \in DOMAIN calls \ {n} : l < m <=> After(l, n) < After(m, n)
      BY <1>5, AnswerLeaves
    <3>4. \A m \in DOMAIN calls : ReadOf(calls[m], k) => m = n \/ m > n
      BY <2>1, <2>4, AnsweredFirst DEF ReadOf
    <3>5. CASE \E m \in DOMAIN calls : Awaited(calls[m], k)
      <4>1. PICK m \in DOMAIN calls \ {n} : Awaited(calls[m], k)
        BY <2>2, <3>5
      <4>2. After(m, n) \in DOMAIN calls' /\ Awaited(calls'[After(m, n)], k)
        BY <3>2, <4>1
      <4> QED
        BY <4>2 DEF ListInv, Awaited
    <3>6. ASSUME NEW m \in DOMAIN calls, ReadOf(calls[m], k), calls[m].seen = Stored(k),
                 \A l \in DOMAIN calls : l > m => ~ReadOf(calls[l], k)
          PROVE  ListInv(k)'
      <4>1. CASE m = n
        <5>1. \A l \in DOMAIN calls' : ~ReadOf(calls'[l], k)
          BY <3>1, <3>4, <3>6, <4>1
        <5>2. Shown(k)' = Stored(k)'
          BY <2>1, <2>4, <3>6, <4>1
        <5> QED
          BY <5>1, <5>2 DEF ListInv, ReadOf
      <4>2. CASE m # n
        <5>1. /\ After(m, n) \in DOMAIN calls' /\ ReadOf(calls'[After(m, n)], k)
              /\ calls'[After(m, n)].seen = Stored(k)'
          BY <2>1, <3>2, <3>6, <4>2
        <5>2. ASSUME NEW l \in DOMAIN calls', l > After(m, n), ReadOf(calls'[l], k)
              PROVE  FALSE
          <6>1. PICK p \in DOMAIN calls \ {n} : l = After(p, n) /\ calls'[l] = calls[p]
            BY <3>1
          <6>2. After(m, n) < After(p, n)
            BY <5>2, <6>1
          <6>3. m < p
            BY <3>3, <4>2, <6>1, <6>2
          <6> QED
            BY <3>6, <5>2, <6>1, <6>3
        <5> QED
          BY <5>1, <5>2 DEF ListInv, ReadOf
      <4> QED
        BY <4>1, <4>2
    <3> QED
      BY <2>1, <2>4, <3>5, <3>6 DEF ListInv
  <2> QED
    BY <2>3, <2>4
<1>6. ASSUME NEW n \in DOMAIN calls, Serve(n)
      PROVE  ListInv(k)'
  BY <1>6, ListServed
<1>7. UNCHANGED <<calls, path, role, files, members>> => ListInv(k)'
  BY DEF ListInv, Awaited, ReadOf, Shown, Stored
<1> QED
  BY <1>1, <1>2, <1>3, <1>4, <1>5, <1>6, <1>7, ServesACall DEF Next, OpenFile, vars, tables, shown

-----------------------------------------------------------------------------
(* What is read last. *)

Unfailing == {"fails", "unread"} \cap env = {}

LEMMA ReadServed ==
  ASSUME NoneApart, PageOK, Unfailing, NEW n \in DOMAIN calls, Serve(n), NEW k \in Reads, ReadInv(k)
  PROVE  ReadInv(k)'
<1>1. PICK c : Served(n, c)
  BY ServeIs
<1>2. /\ DOMAIN calls' = DOMAIN calls /\ calls'[n] = c
      /\ \A m \in DOMAIN calls : m # n => calls'[m] = calls[m]
  BY <1>1, CallGoesOn DEF Served
<1>3. c.kind = calls[n].kind /\ CallOK(calls[n]) /\ k \in {"files", "members"}
  BY <1>1 DEF Served, PageOK, Reads
<1>4. CASE List(n) /\ calls[n].kind = k
  <2>1. ReadLast(k)' = Stored(k)'
    BY <1>3, <1>4 DEF List, ReadLast, Stored, tables, PageOK
  <2> QED
    BY <2>1 DEF ReadInv
<1>5. CASE ~(List(n) /\ calls[n].kind = k)
  <2>1. ReadLast(k)' = ReadLast(k)
    <3>1. CASE List(n)
      BY <1>3, <1>5, <3>1 DEF List, Reads, ReadLast, PageOK
    <3>2. CASE ~List(n)
      <4>1. read' = read
        BY <3>2 DEF Serve, Insert, Seed, Rename, Delete, Add, Manage, AlreadyMember, RefusesFile, ServeFails
      <4> QED
        BY <4>1 DEF ReadLast
    <3> QED
      BY <3>1, <3>2
  <2>2. ToBeRead(c, k)' => ReadInv(k)'
    <3>1. ToBeRead(c, k)' => ToBeRead(calls[n], k)'
      BY <1>2 DEF ToBeRead
    <3> QED
      BY <1>2, <3>1 DEF ReadInv
  <2>3. ((k = "files" => path' = path) /\ Stored(k)' = Stored(k) /\ ~ToBeRead(calls[n], k)) => ReadInv(k)'
    <3> SUFFICES ASSUME k = "files" => path' = path, Stored(k)' = Stored(k), ~ToBeRead(calls[n], k)
                 PROVE  ReadInv(k)'
      OBVIOUS
    <3>1. CASE ReadLast(k) = Stored(k)
      BY <2>1, <3>1 DEF ReadInv
    <3>2. ASSUME NEW m \in DOMAIN calls, ToBeRead(calls[m], k)
          PROVE  ReadInv(k)'
      <4>1. m # n /\ calls'[m] = calls[m]
        BY <1>2, <3>2
      <4>2. ToBeRead(calls[m], k)'
        BY <3>2, <4>1 DEF ToBeRead, Missing
      <4> QED
        BY <1>2, <4>2 DEF ReadInv
    <3> QED
      BY <3>1, <3>2 DEF ReadInv
  <2>4. CASE IsRead(n, c)
    <3>1. /\ c.kind \in Reads /\ calls[n].state = "sent" /\ path' = path /\ Stored(k)' = Stored(k)
      BY <2>4 DEF IsRead, Turn, Stored
    <3>2. List(n)
      BY <1>3, <2>4, <3>1, <1>2, KindsApart
      DEF IsRead, Serve, List, Insert, Seed, Rename, Delete, Add, Manage, AlreadyMember, RefusesFile,
          ServeFails, Unfailing, Reads
    <3>3. ~ToBeRead(calls[n], k)
      BY <1>3, <1>5, <3>1, <3>2, KindsApart DEF ToBeRead, ChangesOf, Reads
    <3> QED
      BY <2>3, <3>1, <3>3
  <2>5. CASE IsPlaced(n, c) \/ IsDeleted(n, c) \/ IsManaged(n, c)
    <3>1. /\ calls[n].state = "sent" /\ c.kind \in Writes
          /\ c.kind \in {"create", "rename", "delete"} => role' = role
          /\ c.kind \in {"add", "change", "remove"} => path' = path
      BY <2>5 DEF IsPlaced, IsDeleted, IsManaged, Writes, Turn
    <3>2. CASE c.kind \in ChangesOf(k)
      <4>1. CASE c.state = "done"
        <5>1. ToBeRead(c, k)'
          BY <3>2, <4>1 DEF ToBeRead, ChangesOf
        <5> QED
          BY <2>2, <5>1
      <4>2. CASE c.state # "done"
        <5>1. IsPlaced(n, c) /\ c.state = "half" /\ c.kind = "create"
          BY <2>5, <4>2 DEF IsPlaced, IsDeleted, IsManaged
        <5>2. k = "files" /\ path'[c.on] = c.to /\ c.to # None
          BY <1>3, <3>2, <5>1 DEF ChangesOf, IsPlaced, PageOK, TablesOK, FileLists, NoneApart
        <5>3. ToBeRead(c, k)'
          BY <5>1, <5>2 DEF ToBeRead, Missing
        <5> QED
          BY <2>2, <5>3
      <4> QED
        BY <4>1, <4>2
    <3>3. CASE c.kind \notin ChangesOf(k)
      <4>1. Stored(k)' = Stored(k) /\ (k = "files" => path' = path)
        BY <1>3, <3>1, <3>3 DEF Stored, ChangesOf, Writes
      <4>2. ~ToBeRead(calls[n], k)
        BY <1>3, <3>1, <3>3, KindsApart DEF ToBeRead
      <4> QED
        BY <2>3, <4>1, <4>2
    <3> QED
      BY <3>2, <3>3
  <2>6. CASE IsSeeded(n, c)
    <3>1. /\ calls[n].state = "half" /\ c.kind = "create" /\ Stored(k)' = Stored(k) /\ path' = path
          /\ c.state \in {"done", "refused"} /\ (c.state = "refused" => Missing(calls[n].on))
      BY <2>6 DEF IsSeeded, Stored
    <3>2. CASE k = "files" /\ c.state = "done"
      <4>1. ToBeRead(c, k)'
        BY <3>1, <3>2 DEF ToBeRead, ChangesOf
      <4> QED
        BY <2>2, <4>1
    <3>3. CASE ~(k = "files" /\ c.state = "done")
      <4>1. ~ToBeRead(calls[n], k)
        BY <1>3, <3>1, <3>3 DEF ToBeRead
      <4> QED
        BY <2>3, <3>1, <4>1
    <3> QED
      BY <3>2, <3>3
  <2>7. CASE IsRefused(n, c)
    <3>1. calls[n].state = "sent" /\ calls[n].kind \in Writes /\ Stored(k)' = Stored(k) /\ path' = path
      BY <1>3, <2>7 DEF IsRefused, Fails, Unfailing, Turn, Stored
    <3>2. ~ToBeRead(calls[n], k)
      BY <1>3, <3>1, KindsApart DEF ToBeRead
    <3> QED
      BY <2>3, <3>1, <3>2
  <2> QED
    BY <1>1, <2>4, <2>5, <2>6, <2>7 DEF Served
<1> QED
  BY <1>4, <1>5

\* A call that will have the list read stays until it has.
LEMMA ReadStays ==
  ASSUME NEW k, ReadInv(k), UNCHANGED <<path, role, read>>,
         \A m \in DOMAIN calls : ToBeRead(calls[m], k) => \E l \in DOMAIN calls' : calls'[l] = calls[m]
  PROVE  ReadInv(k)'
<1>1. ReadLast(k)' = ReadLast(k) /\ Stored(k)' = Stored(k)
  BY DEF ReadLast, Stored
<1>2. ASSUME NEW m \in DOMAIN calls, ToBeRead(calls[m], k)
      PROVE  ReadInv(k)'
  <2>1. PICK l \in DOMAIN calls' : calls'[l] = calls[m]
    BY <1>2
  <2>2. ToBeRead(calls[l], k)'
    BY <1>2, <2>1 DEF ToBeRead, Missing
  <2> QED
    BY <2>2 DEF ReadInv
<1> QED
  BY <1>1, <1>2 DEF ReadInv

LEMMA ReadStep ==
  ASSUME NoneApart, PageOK, Unfailing, [Next]_vars, NEW k \in Reads, ReadInv(k)
  PROVE  ReadInv(k)'
<1>0. k \in {"files", "members"}
  BY DEF Reads
<1>1. CASE Act
  <2>1. PICK c \in Calls : calls' = Append(calls, c)
    BY <1>1, ActIs DEF CallOK
  <2>2. DOMAIN calls \subseteq DOMAIN calls' /\ \A n \in DOMAIN calls : calls'[n] = calls[n]
    BY <2>1, MoreCalls DEF PageOK
  <2>3. UNCHANGED <<path, role, read>>
    BY <1>1 DEF Act, tables
  <2> QED
    BY <2>2, <2>3, ReadStays
<1>2. CASE Reload
  <2>1. \E n \in DOMAIN calls' : ToBeRead(calls[n], k)'
    BY <1>0, <1>2, LoadsAre DEF Reload, ToBeRead
  <2> QED
    BY <2>1 DEF ReadInv
<1>3. ASSUME NEW n, Show(n) \/ Changed(n) \/ NotChanged(n)
      PROVE  ReadInv(k)'
  <2>1. UNCHANGED <<path, role, read>> /\ n \in DOMAIN calls
    BY <1>3, AnswerLeaves DEF Show, Changed, NotChanged, tables
  <2>2. CASE ~ToBeRead(calls[n], k)
    <3>1. \A m \in DOMAIN calls : ToBeRead(calls[m], k) => \E l \in DOMAIN calls' : calls'[l] = calls[m]
      BY <1>3, <2>2, AnswerLeaves
    <3> QED
      BY <2>1, <3>1, ReadStays
  <2>3. CASE ToBeRead(calls[n], k)
    <3>1. Changed(n) /\ k = KindOf(n)
      BY <1>0, <1>3, <2>3, KindsApart DEF ToBeRead, Show, Changed, NotChanged, Answered, KindOf, ChangesOf, Reads
    <3>2. PICK l \in DOMAIN calls' : calls'[l] = Call(KindOf(n), None, None)
      BY <1>3, <3>1, AnswerLeaves
    <3>3. ToBeRead(calls[l], k)'
      BY <3>1, <3>2 DEF ToBeRead, Call
    <3> QED
      BY <3>2, <3>3 DEF ReadInv
  <2> QED
    BY <2>2, <2>3
<1>4. ASSUME NEW n \in DOMAIN calls, Serve(n)
      PROVE  ReadInv(k)'
  BY <1>4, ReadServed
<1>5. UNCHANGED <<calls, path, role, read>> => ReadInv(k)'
  BY DEF ReadInv, ToBeRead, ReadLast, Stored, Missing
<1> QED
  BY <1>1, <1>2, <1>3, <1>4, <1>5, ServesACall DEF Next, OpenFile, vars, tables

-----------------------------------------------------------------------------
(* The open file. *)

Waits == {"impatient", "unread"} \cap env = {}

\* An owner who waits has one call when it is a change.
LEMMA ChangeIsAlone ==
  ASSUME PatientInv, Waits, NEW n \in DOMAIN calls, calls[n].kind \in Writes
  PROVE  \A m \in DOMAIN calls : m = n
BY KindsApart DEF PatientInv, Waits, OneCall

LEMMA OpenServed ==
  ASSUME NoneApart, PageOK, PatientInv, OpenInv, Waits, NEW n \in DOMAIN calls, Serve(n)
  PROVE  OpenInv'
<1>1. PICK c : Served(n, c)
  BY ServeIs
<1>2. /\ DOMAIN calls' = DOMAIN calls /\ calls'[n] = c
      /\ \A m \in DOMAIN calls : m # n => calls'[m] = calls[m]
  BY <1>1, CallGoesOn DEF Served
<1>3. /\ files' = files /\ active' = active /\ c.kind = calls[n].kind /\ c.active = calls[n].active
      /\ CallOK(calls[n]) /\ CallOK(c)
  BY <1>1, ServeIs DEF Served, shown, PageOK
<1>4. \A f : ~DeletionOf(calls[n], f)
  <2>1. calls[n].state \in {"sent", "half"}
    BY <1>1 DEF Served, IsRead, IsPlaced, IsDeleted, IsManaged, IsSeeded, IsRefused, Turn
  <2> QED
    BY <2>1 DEF DeletionOf
<1>5. CASE c.kind \in Reads
  <2>1. /\ path' = path /\ c.state = "done" /\ (c.kind = "files" => c.seen = path)
    <3>1. calls[n].state # "half"
      BY <1>3, <1>5, KindsApart DEF CallOK
    <3>2. ~Fails(n)
      BY <1>3, <1>5 DEF Fails, Waits
    <3>3. IsRead(n, c)
      BY <1>1, <1>5, <3>1, <3>2, KindsApart DEF Served, IsPlaced, IsDeleted, IsManaged, IsSeeded, IsRefused, Reads
    <3> QED
      BY <3>3 DEF IsRead, Stored
  <2>2. \A m \in DOMAIN calls : ReadOf(calls'[m], "files") => calls'[m].seen = path'
    BY <1>2, <2>1, <1>3 DEF OpenInv, Waits, ReadOf
  <2>3. \A m \in DOMAIN calls : calls'[m].kind \in Reads => calls'[m].state \in {"sent", "done"}
    BY <1>2, <2>1 DEF OpenInv, Waits
  <2>4. \A m \in DOMAIN calls : calls'[m].kind \in Writes => calls'[m].active = active'
    BY <1>2, <1>3 DEF OpenInv, Waits
  <2>5. ASSUME NEW f \in Files, files[f] # None
        PROVE  path[f] # None \/ \E m \in DOMAIN calls : calls'[m].kind = "files" \/ DeletionOf(calls'[m], f)
    BY <1>2, <1>3, <1>4, <2>5 DEF OpenInv, Waits
  <2>6. active # None =>
          /\ files[active] # None
          /\ path[active] # None \/ \E m \in DOMAIN calls : DeletionOf(calls'[m], active)
    BY <1>2, <1>4 DEF OpenInv, Waits
  <2> QED
    BY <1>2, <1>3, <2>1, <2>2, <2>3, <2>4, <2>5, <2>6 DEF OpenInv, ReadOf, DeletionOf
<1>6. CASE c.kind \in Writes
  <2>1. DOMAIN calls' = {n} /\ \A m \in DOMAIN calls : m = n
    BY <1>2, <1>3, <1>6, ChangeIsAlone
  <2>2. c.kind \notin Reads /\ c.kind # "files"
    BY <1>6, KindsApart
  <2>3. \A f \in Files : files[f] # None => path[f] # None
    BY <1>3, <1>4, <2>1, <2>2 DEF OpenInv, Waits
  <2>4. active # None => active \in Files /\ files[active] # None
    BY DEF OpenInv, Waits, PageOK
  <2>5. ASSUME NEW f \in Files, path[f] # None
        PROVE  path'[f] # None \/ DeletionOf(c, f)
    <3>1. CASE path' = path
      BY <2>5, <3>1
    <3>2. CASE IsPlaced(n, c)
      BY <2>5, <3>2 DEF IsPlaced, NoneApart, PageOK, TablesOK, FileLists
    <3>3. CASE IsDeleted(n, c)
      BY <2>5, <3>3 DEF IsDeleted, DeletionOf, PageOK, TablesOK, FileLists
    <3> QED
      BY <1>1, <3>1, <3>2, <3>3 DEF Served, IsRead, IsManaged, IsSeeded, IsRefused
  <2>6. c.active = active
    BY <1>3, <1>6 DEF OpenInv, Waits
  <2>7. calls'[n].kind \notin Reads /\ ~ReadOf(calls'[n], "files") /\ calls'[n].active = active
    BY <1>2, <2>2, <2>6 DEF ReadOf
  <2>8. \A f \in Files : files[f] # None => path'[f] # None \/ DeletionOf(calls'[n], f)
    BY <1>2, <2>3, <2>5
  <2> QED
    BY <1>3, <2>1, <2>4, <2>7, <2>8 DEF OpenInv, ReadOf, DeletionOf
<1> QED
  BY <1>3, <1>5, <1>6 DEF CallOK, Calls

LEMMA OpenStep ==
  ASSUME NoneApart, PageOK, PatientInv, OpenInv, [Next]_vars
  PROVE  OpenInv'
<1> SUFFICES ASSUME Waits
             PROVE  OpenInv'
  BY EnvStays DEF OpenInv, Waits
<1>0. "impatient" \notin env
  BY DEF Waits
<1>1. CASE Act
  <2>1. calls = <<>> /\ UNCHANGED <<env, path, files, active>>
    BY <1>0, <1>1, ActIs DEF tables, shown
  <2>2. PICK c \in Calls : calls' = Append(calls, c) /\ c.state = "sent" /\ c.kind \in Writes /\ c.active = active
    BY <1>1, ActIs DEF CallOK
  <2>3. DOMAIN calls' = {1} /\ calls'[1] = c
    BY <2>1, <2>2
  <2>4. c.kind \notin Reads /\ ~ReadOf(c, "files")
    BY <2>2, KindsApart DEF ReadOf
  <2> QED
    BY <2>1, <2>2, <2>3, <2>4 DEF OpenInv, Waits, ReadOf
<1>2. CASE Reload
  BY <1>2, LoadsAre, KindsApart DEF Reload, OpenInv, ReadOf, NoFiles, Writes
<1>3. ASSUME NEW f \in Files, OpenFile(f)
      PROVE  OpenInv'
  BY <1>0, <1>3 DEF OpenFile, OpenInv, Waits, tables
<1>4. ASSUME NEW n \in DOMAIN calls, Serve(n)
      PROVE  OpenInv'
  BY <1>4, OpenServed
<1>5. ASSUME NEW n, Show(n)
      PROVE  OpenInv'
  <2>1. /\ n \in DOMAIN calls /\ path' = path /\ active' = active /\ calls[n].kind \in Reads /\ ~Changed(n)
        /\ calls[n].state = "done"
    BY <1>5, KindsApart DEF Show, Answered, Changed, tables, OpenInv, Waits
  <2>2. \A k \in DOMAIN calls' : \E m \in DOMAIN calls \ {n} : calls'[k] = calls[m]
    BY <1>5, <2>1, AnswerLeaves
  <2>3. \A m \in DOMAIN calls \ {n} : \E k \in DOMAIN calls' : calls'[k] = calls[m]
    BY <1>5, AnswerLeaves
  <2>4. \A f : ~DeletionOf(calls[n], f)
    BY <2>1, KindsApart DEF DeletionOf
  <2>5. files' = IF calls[n].kind = "files" THEN path ELSE files
    BY <1>5, <2>1 DEF Show, OpenInv, Waits, ReadOf
  <2>6. ASSUME NEW f \in Files, files'[f] # None
        PROVE  path[f] # None \/ \E k \in DOMAIN calls' : calls'[k].kind = "files" \/ DeletionOf(calls'[k], f)
    <3>1. CASE calls[n].kind = "files"
      BY <2>5, <2>6, <3>1
    <3>2. CASE calls[n].kind # "files"
      BY <2>3, <2>4, <2>5, <2>6, <3>2 DEF OpenInv, Waits
    <3> QED
      BY <3>1, <3>2
  <2>7. ASSUME active # None
        PROVE  path[active] # None
    <3>1. \A m \in DOMAIN calls : m = n
      BY <1>0, <2>1, <2>7 DEF PatientInv, OneCall
    <3> QED
      BY <2>4, <2>7, <3>1 DEF OpenInv, Waits
  <2>8. active # None => files'[active] # None
    BY <2>5, <2>7 DEF OpenInv, Waits
  <2>9. /\ \A k \in DOMAIN calls' : ReadOf(calls'[k], "files") => calls'[k].seen = path
        /\ \A k \in DOMAIN calls' : calls'[k].kind \in Reads => calls'[k].state \in {"sent", "done"}
        /\ \A k \in DOMAIN calls' : calls'[k].kind \in Writes => calls'[k].active = active
    BY <2>2 DEF OpenInv, Waits
  <2> QED
    BY <2>1, <2>6, <2>7, <2>8, <2>9 DEF OpenInv, ReadOf, DeletionOf
<1>6. ASSUME NEW n, Changed(n)
      PROVE  OpenInv'
  <2> DEFINE c == Call(KindOf(n), None, None)
  <2>1. /\ n \in DOMAIN calls /\ path' = path /\ files' = files /\ calls[n].kind \in Writes
        /\ active' = IF calls[n].kind = "delete" /\ calls[n].active = calls[n].on THEN None ELSE active
    BY <1>6 DEF Changed, Answered, tables
  <2>2. \A m \in DOMAIN calls : m = n
    BY <2>1, ChangeIsAlone
  <2>3. (\A k \in DOMAIN calls' : calls'[k] = c) /\ \E k \in DOMAIN calls' : calls'[k] = c
    BY <1>6, <2>2, AnswerLeaves
  <2>4. c.kind = KindOf(n) /\ c.kind \in {"files", "members"} /\ c.state = "sent"
    BY DEF Call, KindOf
  <2> HIDE DEF c
  <2>5. c.kind = "files" \/ \A f : ~DeletionOf(calls[n], f)
    BY <2>4 DEF KindOf, DeletionOf
  <2>6. ASSUME NEW f \in Files, files[f] # None
        PROVE  path[f] # None \/ \E k \in DOMAIN calls' : calls'[k].kind = "files"
    BY <2>1, <2>2, <2>3, <2>5, <2>6, KindsApart DEF OpenInv, Waits
  <2>7. ASSUME active' # None
        PROVE  files[active'] # None /\ path[active'] # None
    <3>1. active' = active /\ ~DeletionOf(calls[n], active)
      BY <2>1, <2>7 DEF DeletionOf, OpenInv, Waits
    <3> QED
      BY <2>2, <2>7, <3>1 DEF OpenInv, Waits
  <2>8. c.kind \notin Writes /\ ~ReadOf(c, "files")
    BY <2>4, KindsApart DEF ReadOf
  <2> QED
    BY <2>1, <2>3, <2>4, <2>6, <2>7, <2>8 DEF OpenInv, ReadOf
<1>7. ASSUME NEW n, NotChanged(n)
      PROVE  OpenInv'
  <2>1. /\ n \in DOMAIN calls /\ path' = path /\ files' = files /\ active' = active
        /\ calls[n].kind \in Writes /\ ~Changed(n) /\ calls[n].state = "refused"
    BY <1>7 DEF NotChanged, Answered, Changed, tables, shown
  <2>2. \A m \in DOMAIN calls : m = n
    BY <2>1, ChangeIsAlone
  <2>3. DOMAIN calls' = {}
    BY <1>7, <2>1, <2>2, AnswerLeaves
  <2>4. calls[n].kind # "files" /\ \A f : ~DeletionOf(calls[n], f)
    BY <2>1, KindsApart DEF DeletionOf
  <2> QED
    BY <2>1, <2>2, <2>3, <2>4 DEF OpenInv, Waits
<1>8. UNCHANGED <<calls, path, files, active>> => OpenInv'
  BY DEF OpenInv, Waits, ReadOf, DeletionOf
<1> QED
  BY <1>1, <1>2, <1>3, <1>4, <1>5, <1>6, <1>7, <1>8, ServesACall DEF Next, vars, tables, shown

-----------------------------------------------------------------------------
(* The theorems. *)

\* Loading the page takes two calls.
Bounded == MaxCalls \in Nat \ {0, 1}

LEMMA LengthStep ==
  ASSUME NoneApart, Bounded, PageOK, Len(calls) <= MaxCalls, [Next]_vars
  PROVE  (Len(calls) <= MaxCalls)'
<1>0. calls \in Seq(Calls) /\ Len(calls) \in Nat /\ MaxCalls \in Nat
  BY DEF PageOK, Bounded
<1>1. CASE Act
  <2>1. PICK c \in Calls : calls' = Append(calls, c) /\ Len(calls) < MaxCalls
    BY <1>1, ActIs DEF CallOK
  <2>2. Len(calls') = Len(calls) + 1
    BY <1>0, <2>1
  <2> QED
    BY <1>0, <2>1, <2>2
<1>2. CASE Reload
  BY <1>2, LoadsAre DEF Reload, Bounded
<1>3. ASSUME NEW n \in DOMAIN calls, Serve(n)
      PROVE  (Len(calls) <= MaxCalls)'
  <2>1. PICK c : CallOK(c) /\ calls' = [calls EXCEPT ![n] = c]
    BY <1>3, ServeIs DEF Served
  <2>2. calls' \in Seq(Calls) /\ DOMAIN calls' = DOMAIN calls
    BY <2>1, CallGoesOn
  <2>3. Len(calls') = Len(calls)
    BY <1>0, <2>2
  <2> QED
    BY <2>3
<1>4. ASSUME NEW n, Show(n) \/ Changed(n) \/ NotChanged(n)
      PROVE  (Len(calls) <= MaxCalls)'
  <2>1. calls' \in Seq(Calls) /\ Len(calls') <= Len(calls)
    BY <1>4, AnswerIs
  <2>2. Len(calls') \in Nat
    BY <2>1
  <2> QED
    BY <1>0, <2>1, <2>2
<1>5. UNCHANGED calls => (Len(calls) <= MaxCalls)'
  OBVIOUS
<1> QED
  BY <1>1, <1>2, <1>3, <1>4, <1>5, ServesACall DEF Next, OpenFile, vars

\* FilesService and the tables: of two files none has the path of the other, a document
\* is seeded only for a file that was made, and a page has no more calls under way than
\* the bound lets it have.
THEOREM TypeCorrect ==
  ASSUME NoneApart, Bounded PROVE Spec => []TypeOK
<1> DEFINE Inv == PageOK /\ Len(calls) <= MaxCalls
<1>1. Init => Inv
  <2>1. Init => Len(calls) = 2
    BY LoadsAre DEF Init
  <2> QED
    BY <2>1, PageInit DEF Bounded
<1>2. Inv /\ [Next]_vars => Inv'
  BY PageStep, LengthStep
<1>3. Inv => TypeOK
  BY DEF PageOK, TablesOK, FileLists, MemberLists, CallOK, Calls, States, TypeOK
<1> QED
  BY <1>1, <1>2, <1>3, PTL DEF Spec

LEMMA IInvInit == Init => IInv
<1> SUFFICES ASSUME Init
             PROVE  IInv
  OBVIOUS
<1>1. PageOK
  BY PageInit
<1>2. /\ DOMAIN calls = {1, 2} /\ calls[1].kind = "files" /\ calls[2].kind = "members"
      /\ calls[1].state = "sent" /\ calls[2].state = "sent"
  BY LoadsAre DEF Init
<1>3. PatientInv /\ OrderInv /\ HalfInv
  BY <1>2 DEF Init, PatientInv, OrderInv, HalfInv, Reads
<1>4. \A k \in Reads : ListInv(k)
  BY <1>2 DEF ListInv, Awaited, Reads
<1>5. OpenInv
  BY <1>2, KindsApart DEF Init, OpenInv, ReadOf, NoFiles
<1>6. ReadsInv
  BY DEF Init, ReadsInv, ReadInv, ReadLast, Stored, Reads
<1> QED
  BY <1>1, <1>3, <1>4, <1>5, <1>6 DEF IInv, ListsInv

LEMMA IInvStep ==
  ASSUME NoneApart, IInv, [Next]_vars
  PROVE  IInv'
<1>1. PageOK' /\ PatientInv' /\ OrderInv' /\ OpenInv'
  BY PageStep, PatientStep, OrderStep, OpenStep DEF IInv
<1>2. ListsInv'
  <2> SUFFICES ASSUME Certain
               PROVE  HalfInv' /\ \A k \in Reads : ListInv(k)'
    BY EnvStays DEF ListsInv, Certain
  <2>1. HalfInv /\ \A k \in Reads : ListInv(k)
    BY DEF IInv, ListsInv
  <2>2. HalfInv'
    BY <2>1, HalfStep DEF IInv
  <2>3. \A k \in Reads : ListInv(k)'
    BY <2>1, ListStep DEF IInv
  <2> QED
    BY <2>2, <2>3
<1>3. ReadsInv'
  <2> SUFFICES ASSUME Unfailing
               PROVE  \A k \in Reads : ReadInv(k)'
    BY EnvStays DEF ReadsInv, Unfailing
  <2> QED
    BY ReadStep DEF IInv, ReadsInv, Unfailing
<1> QED
  BY <1>1, <1>2, <1>3 DEF IInv

\* ProjectPage's handlers and the reload after each: when a page waits for nothing what
\* was read last is what is stored, the page shows it unless overlapping calls overtook
\* one another, and it edits no file that its tree does not list.
THEOREM IdlePagesShowWhatIsStored ==
  ASSUME NoneApart PROVE Spec => []ShownIsStored
<1>1. IInv => ShownIsStored
  <2> SUFFICES ASSUME IInv, calls = <<>>
               PROVE  /\ {"fails", "unread"} \cap env = {} => read.files = path /\ read.members = role
                      /\ Certain => files = path /\ members = role
                      /\ {"impatient", "unread"} \cap env = {} /\ active # None => files[active] # None
    BY DEF ShownIsStored, Certain
  <2>1. ASSUME Certain
        PROVE  files = path /\ members = role
    <3>1. ListInv("files") /\ ListInv("members")
      BY <2>1 DEF IInv, ListsInv, Reads
    <3> QED
      BY <3>1 DEF ListInv, Shown, Stored
  <2>2. ASSUME {"fails", "unread"} \cap env = {}
        PROVE  read.files = path /\ read.members = role
    <3>1. ReadInv("files") /\ ReadInv("members")
      BY <2>2 DEF IInv, ReadsInv, Reads
    <3> QED
      BY <3>1 DEF ReadInv, ReadLast, Stored
  <2>3. {"impatient", "unread"} \cap env = {} /\ active # None => files[active] # None
    BY DEF IInv, OpenInv
  <2> QED
    BY <2>1, <2>2, <2>3
<1> QED
  BY <1>1, IInvInit, IInvStep, PTL DEF Spec
=============================================================================
