---------------------------- MODULE ProjectPage ----------------------------
(***************************************************************************)
(* A project's page in the owner's browser: the file tree and the members  *)
(* it shows, the REST calls that change them and the lists read again      *)
(* after each, with FilesService, ProjectsService and the tables they      *)
(* write.  What an open file's editor does is Session's and Presence's.    *)
(***************************************************************************)
EXTENDS Naturals, Sequences, FiniteSets, SequencesExt

CONSTANTS
  Files,         \* ids the file table may give
  Paths,
  Users,         \* those the owner may add
  MaxCalls,      \* bound: calls under way
  Scenarios,     \* the sets of events that a behaviour may have, see EnvEvents
  None

(*   impatient  the owner does not wait for the answers                    *)
(*   reorder    a later call may be served, or answered, first             *)
(*   fails      a change fails, perhaps halfway                            *)
(*   unread     a list cannot be read                                      *)
EnvEvents == {"impatient", "reorder", "fails", "unread"}

VARIABLES
  env,           \* what may happen in this behaviour
  path, used,    \* File rows: the path of each, None when there is none; ids given so far
  seeded,        \* files whose first DocumentUpdate is stored
  role,          \* ProjectMember rows: the role of each user, None for no row
  files, members,\* ProjectPage's lists
  active,        \* and the file it has open
  calls,         \* fetches under way, in the order they were made
  read           \* history: what the service read last for either list

tables == <<path, used, seeded, role>>
shown == <<files, members, active>>
vars == <<env, tables, shown, calls, read>>

Roles == {"editor", "viewer"}
NoFiles == [f \in Files |-> None]
NoMembers == [u \in Users |-> None]
\* The id of a membership is not that of its user.
RowOf(u) == <<"member", u>>

\* A call: what it is, what it is about, and activeFileId when it was made.
Call(kind, on, to) ==
  [kind |-> kind, on |-> on, to |-> to, active |-> active, state |-> "sent", seen |-> <<>>]
Reads == {"files", "members"}
Writes == {"create", "rename", "delete", "add", "change", "remove"}

(* The types; two files never have one path, only a list that was read has *)
(* an answer, and a document is seeded only for a file that was made.      *)
TypeOK ==
  /\ env \in Scenarios
  /\ path \in [Files -> Paths \cup {None}] /\ role \in [Users -> Roles \cup {None}]
  /\ used \subseteq Files /\ seeded \subseteq used /\ \A f \in Files : path[f] # None => f \in used
  /\ \A f, g \in Files : path[f] = path[g] => f = g \/ path[f] = None
  /\ files \in [Files -> Paths \cup {None}] /\ members \in [Users -> Roles \cup {None}]
  /\ active \in Files \cup {None}
  /\ read \in [files : [Files -> Paths \cup {None}], members : [Users -> Roles \cup {None}]]
  /\ Len(calls) <= MaxCalls
  /\ \A n \in DOMAIN calls :
       /\ calls[n].kind \in Reads \cup Writes
       /\ calls[n].state \in {"sent", "half", "done", "refused"}
       /\ calls[n].seen # <<>> => calls[n].kind \in Reads /\ calls[n].state = "done"

Loads == <<[Call("files", None, None) EXCEPT !.active = None],
           [Call("members", None, None) EXCEPT !.active = None]>>

Init ==
  /\ env \in Scenarios
  /\ path = NoFiles /\ used = {} /\ seeded = {} /\ role = NoMembers
  /\ files = NoFiles /\ members = NoMembers /\ active = None
  /\ calls = Loads
  /\ read = [files |-> NoFiles, members |-> NoMembers]

-----------------------------------------------------------------------------
(* What the owner does. *)

MayCall == Len(calls) < MaxCalls /\ ("impatient" \in env \/ calls = <<>>)
Ask(kind, on, to) == calls' = Append(calls, Call(kind, on, to))

OpenFile(f) ==
  /\ files[f] # None /\ f # active
  /\ "impatient" \in env \/ calls = <<>>
  /\ active' = f
  /\ UNCHANGED <<env, tables, files, members, calls, read>>

\* A path comes from the directory clicked in the tree and the name typed.
CreateFile(to) == Ask("create", None, to)
RenameFile(f, to) == files[f] \notin {None, to} /\ Ask("rename", f, to)
DeleteFile(f) == files[f] # None /\ Ask("delete", f, None)

AddMember(u, as) == Ask("add", u, as)
\* The list has the users' ids, and these are what the panel sends.
ChangeRole(u, as) == members[u] \notin {None, as} /\ Ask("change", u, as)
RemoveMember(u) == members[u] # None /\ Ask("remove", u, None)

Act ==
  /\ MayCall
  /\ \/ \E to \in Paths : CreateFile(to) \/ \E f \in Files : RenameFile(f, to)
     \/ \E f \in Files : DeleteFile(f)
     \/ \E u \in Users : RemoveMember(u) \/ \E as \in Roles : AddMember(u, as) \/ ChangeRole(u, as)
  /\ UNCHANGED <<env, tables, shown, read>>

\* The page is loaded again; what its old calls answer is not seen.
Reload ==
  /\ calls = <<>>
  /\ files' = NoFiles /\ members' = NoMembers /\ active' = None
  /\ calls' = Loads
  /\ UNCHANGED <<env, tables, read>>

-----------------------------------------------------------------------------
(* The services. *)

Turn(n) ==
  /\ n \in DOMAIN calls /\ calls[n].state = "sent"
  /\ "reorder" \in env \/ \A k \in 1..(n - 1) : calls[k].state \in {"done", "refused"}
Becomes(n, state) == calls' = [calls EXCEPT ![n].state = state]
Taken(to) == \E f \in Files : path[f] = to
Missing(f) == path[f] = None

List(n) ==
  /\ Turn(n) /\ calls[n].kind \in Reads
  /\ calls' = [calls EXCEPT ![n].state = "done",
                            ![n].seen = IF calls[n].kind = "files" THEN path ELSE role]
  /\ read' = IF calls[n].kind = "files" THEN [read EXCEPT !.files = path]
                                       ELSE [read EXCEPT !.members = role]
  /\ UNCHANGED <<env, tables, shown>>

\* create's first insert; the second seeds the document.
Insert(n, f) ==
  /\ Turn(n) /\ calls[n].kind = "create"
  /\ ~Taken(calls[n].to) /\ f \notin used
  /\ path' = [path EXCEPT ![f] = calls[n].to] /\ used' = used \cup {f}
  /\ calls' = [calls EXCEPT ![n].state = "half", ![n].on = f]
  /\ UNCHANGED <<env, seeded, role, shown, read>>

\* The row it belongs to may be deleted meanwhile.
Seed(n) ==
  /\ n \in DOMAIN calls /\ calls[n].state = "half"
  /\ IF Missing(calls[n].on)
       THEN seeded' = seeded /\ Becomes(n, "refused")
       ELSE seeded' = seeded \cup {calls[n].on} /\ Becomes(n, "done")
  /\ UNCHANGED <<env, path, used, role, shown, read>>

Rename(n) ==
  /\ Turn(n) /\ calls[n].kind = "rename"
  /\ ~Missing(calls[n].on) /\ ~Taken(calls[n].to)
  /\ path' = [path EXCEPT ![calls[n].on] = calls[n].to]
  /\ Becomes(n, "done")
  /\ UNCHANGED <<env, used, seeded, role, shown, read>>

Delete(n) ==
  /\ Turn(n) /\ calls[n].kind = "delete" /\ ~Missing(calls[n].on)
  /\ path' = [path EXCEPT ![calls[n].on] = None]
  /\ Becomes(n, "done")
  /\ UNCHANGED <<env, used, seeded, role, shown, read>>

Add(n) ==
  /\ Turn(n) /\ calls[n].kind = "add" /\ role[calls[n].on] = None
  /\ role' = [role EXCEPT ![calls[n].on] = calls[n].to]
  /\ Becomes(n, "done")
  /\ UNCHANGED <<env, path, used, seeded, shown, read>>

\* updateMemberRole and removeMember look for a membership with the id sent.
Found(id) == {u \in Users : role[u] # None /\ RowOf(u) = id}

\* None found is a 404.
Manage(n) ==
  /\ Turn(n) /\ calls[n].kind \in {"change", "remove"}
  /\ role' = [u \in Users |-> IF u \in Found(calls[n].on) THEN calls[n].to ELSE role[u]]
  /\ Becomes(n, IF Found(calls[n].on) = {} THEN "refused" ELSE "done")
  /\ UNCHANGED <<env, path, used, seeded, shown, read>>

AlreadyMember(n) ==
  /\ Turn(n) /\ calls[n].kind = "add" /\ role[calls[n].on] # None
  /\ Becomes(n, "refused")
  /\ UNCHANGED <<env, tables, shown, read>>

\* 404, or 409 (also when no id is left: the bound).
RefusesFile(n) ==
  /\ Turn(n)
  /\ \/ calls[n].kind = "create" /\ (Taken(calls[n].to) \/ used = Files)
     \/ calls[n].kind = "rename" /\ (Missing(calls[n].on) \/ Taken(calls[n].to))
     \/ calls[n].kind = "delete" /\ Missing(calls[n].on)
  /\ Becomes(n, "refused")
  /\ UNCHANGED <<env, tables, shown, read>>

\* A database call fails: a file may stay without its seed.
ServeFails(n) ==
  /\ n \in DOMAIN calls /\ calls[n].state \in {"sent", "half"}
  /\ (IF calls[n].kind \in Reads THEN "unread" ELSE "fails") \in env
  /\ Becomes(n, "refused")
  /\ UNCHANGED <<env, tables, shown, read>>

Serve(n) ==
  \/ List(n) \/ Seed(n) \/ Rename(n) \/ Delete(n) \/ Add(n) \/ Manage(n)
  \/ AlreadyMember(n) \/ RefusesFile(n) \/ ServeFails(n)
  \/ \E f \in Files : Insert(n, f)

-----------------------------------------------------------------------------
(* The answers. *)

Answered(n) ==
  /\ n \in DOMAIN calls /\ calls[n].state \in {"done", "refused"}
  /\ "reorder" \in env \/ n = 1
Rest(n) == RemoveAt(calls, n)
Again(n, kind) == calls' = Append(Rest(n), Call(kind, None, None))

\* A list that could not be read stays as it was.
Show(n) ==
  /\ Answered(n) /\ calls[n].kind \in Reads
  /\ files' = IF calls[n].kind = "files" /\ calls[n].state = "done" THEN calls[n].seen ELSE files
  /\ members' = IF calls[n].kind = "members" /\ calls[n].state = "done" THEN calls[n].seen ELSE members
  /\ calls' = Rest(n)
  /\ UNCHANGED <<env, tables, active, read>>

ChangedUnread(n) ==   \* mutant: the members are not read again
  /\ Answered(n) /\ calls[n].state = "done" /\ calls[n].kind \in Writes
  /\ active' = IF calls[n].kind = "delete" /\ calls[n].active = calls[n].on THEN None ELSE active
  /\ IF calls[n].kind \in {"add", "change", "remove"} THEN calls' = Rest(n) ELSE Again(n, "files")
  /\ UNCHANGED <<env, tables, files, members, read>>
\* What was changed is read again; a file that was open when its deletion was asked is closed.
Changed(n) ==
  /\ Answered(n) /\ calls[n].state = "done" /\ calls[n].kind \in Writes
  /\ active' = IF calls[n].kind = "delete" /\ calls[n].active = calls[n].on THEN None ELSE active
  /\ Again(n, IF calls[n].kind \in {"add", "change", "remove"} THEN "members" ELSE "files")
  /\ UNCHANGED <<env, tables, files, members, read>>

\* A toast, and nothing else.
NotChanged(n) ==
  /\ Answered(n) /\ calls[n].state = "refused" /\ calls[n].kind \in Writes
  /\ calls' = Rest(n)
  /\ UNCHANGED <<env, tables, shown, read>>

-----------------------------------------------------------------------------
Next ==
  \/ Act \/ Reload
  \/ \E f \in Files : OpenFile(f)
  \/ \E n \in 1..MaxCalls : Serve(n) \/ Show(n) \/ Changed(n) \/ NotChanged(n)

Spec == Init /\ [][Next]_vars

-----------------------------------------------------------------------------
(* Properties. *)

(* When a page waits for nothing, what was read last for its lists is what *)
(* is stored, however its owner's operations and their reloads overlapped  *)
(* (ProjectPage's handlers, each followed by its reload; no call failing), *)
(* and the page shows it, unless calls overlap and are served or answered  *)
(* in another order than they were made: an answer overtaken by a later    *)
(* one replaces it, and stays until the next reload.  And if the owner     *)
(* waits for the answers the page has no file open that its tree does not  *)
(* list: deleting a file, though the call fails halfway and answers are    *)
(* reordered, leaves no editor on a document that is gone.                 *)
ShownIsStored == calls = <<>> =>
  /\ {"fails", "unread"} \cap env = {} =>
       /\ read.files = path /\ read.members = role
       /\ ~({"impatient", "reorder"} \subseteq env) => files = path /\ members = role
  /\ {"impatient", "unread"} \cap env = {} /\ active # None => files[active] # None
=============================================================================
