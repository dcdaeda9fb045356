------------------------------ MODULE History ------------------------------
(***************************************************************************)
(* The version history of a project page: VersionHistoryPanel, the part of *)
(* ProjectPage that decides which file it shows, the calls under way, and  *)
(* FileVersionService's answers, while the files are compacted and old     *)
(* versions expire.  What a restore does to the document is Restore's.     *)
(*                                                                         *)
(* The panel has no key: React keeps its state when another file is opened *)
(* and only a panel that is closed starts afresh.                          *)
(***************************************************************************)
EXTENDS Naturals, Sequences, SequencesExt

CONSTANTS
  Files,
  Limit,         \* FILE_HISTORY_LIMIT
  MaxVersion,    \* bound: versions of a file
  MaxCalls,      \* bound: calls under way
  Scenarios,     \* the sets of events that a behaviour may have, see EnvEvents
  None

(*   reorder    a later call may be answered first                         *)
(*   fails      a call fails                                               *)
EnvEvents == {"reorder", "fails"}

VARIABLES
  env,           \* what may happen in this behaviour
  newest,        \* FileSnapshot: the newest version of each file
  active, open,  \* ProjectPage's activeFileId and historyOpen
  panel,         \* VersionHistoryPanel's state
  calls,         \* fetches under way, in the order they were made
  sure,          \* history: the version was selected of the file that is open, with
                 \* no preview on its way
  asked          \* history: what the last restore asked for, what was confirmed, sure

page == <<active, open>>
vars == <<env, newest, page, panel, calls, sure, asked>>

Versions == 1..MaxVersion
\* The versions retained of f: FileVersionService.listVersions.
Kept(f) == {v \in Versions : v <= newest[f] /\ v + Limit > newest[f]}

Fresh == [list |-> {}, selected |-> 0, preview |-> [file |-> None, version |-> 0],
          confirming |-> FALSE, restoring |-> FALSE]
Blank == Fresh.preview
Mounted == open /\ active # None

(* The types; a panel that is not shown has no state, and asks to confirm   *)
(* only what it shows.                                                     *)
TypeOK ==
  /\ env \in Scenarios
  /\ newest \in [Files -> Versions]
  /\ active \in Files \cup {None} /\ open \in BOOLEAN
  /\ panel \in [list : SUBSET Versions, selected : Versions \cup {0},
                preview : [file : Files \cup {None}, version : Versions \cup {0}],
                confirming : BOOLEAN, restoring : BOOLEAN]
  /\ calls \in Seq([kind : {"list", "preview", "restore"}, file : Files,
                    version : Versions \cup {0}, live : BOOLEAN])
  /\ sure \in BOOLEAN
  /\ ~Mounted => panel = Fresh /\ \A n \in DOMAIN calls : ~calls[n].live
  /\ panel.confirming => panel.preview # Blank

Init ==
  /\ env \in Scenarios
  /\ newest = [f \in Files |-> 1]
  /\ active = None /\ open = FALSE
  /\ panel = Fresh /\ calls = <<>>
  /\ sure = FALSE
  /\ asked = [call |-> Blank, confirmed |-> Blank, sure |-> FALSE]

Call(kind, f, v) == [kind |-> kind, file |-> f, version |-> v, live |-> TRUE]
\* The answers to a panel that is gone are not shown.
Orphans(s) == [n \in DOMAIN s |-> [s[n] EXCEPT !.live = FALSE]]
Room == Len(calls) < MaxCalls

-----------------------------------------------------------------------------
(* ProjectPage *)

\* The panel's load runs again whenever its file changes, and the rest of it stays.
OpenFile(f) ==
  /\ f # active /\ (open => Room)
  /\ active' = f
  /\ calls' = IF open THEN Append(calls, Call("list", f, 0)) ELSE calls
  /\ sure' = FALSE
  /\ UNCHANGED <<env, newest, open, panel, asked>>

\* The active file is deleted.
CloseFile ==
  /\ active # None
  /\ active' = None
  /\ panel' = Fresh /\ calls' = Orphans(calls)
  /\ UNCHANGED <<env, newest, open, sure, asked>>

ShowHistory ==
  /\ active # None /\ ~open /\ Room
  /\ open' = TRUE
  /\ calls' = Append(calls, Call("list", active, 0))
  /\ UNCHANGED <<env, newest, active, panel, sure, asked>>

\* The toolbar's button, and the panel's own.
HideHistory ==
  /\ Mounted
  /\ open' = FALSE
  /\ panel' = Fresh /\ calls' = Orphans(calls)
  /\ UNCHANGED <<env, newest, active, sure, asked>>

-----------------------------------------------------------------------------
(* VersionHistoryPanel *)

Previewing == \E n \in DOMAIN calls : calls[n].kind = "preview" /\ calls[n].live

SelectKeepsPreview(v) ==   \* mutant: the last preview stays until the next arrives
  /\ Mounted /\ v \in panel.list /\ Room
  /\ panel' = [panel EXCEPT !.selected = v]
  /\ calls' = Append(calls, Call("preview", active, v))
  /\ sure' = ~Previewing
  /\ UNCHANGED <<env, newest, page, asked>>
SelectVersion(v) ==
  /\ Mounted /\ v \in panel.list /\ Room
  /\ panel' = [panel EXCEPT !.selected = v, !.preview = Blank, !.confirming = FALSE]
  /\ calls' = Append(calls, Call("preview", active, v))
  /\ sure' = ~Previewing
  /\ UNCHANGED <<env, newest, page, asked>>

AskToConfirm ==
  /\ Mounted /\ panel.preview # Blank /\ ~panel.confirming
  /\ panel' = [panel EXCEPT !.confirming = TRUE]
  /\ UNCHANGED <<env, newest, page, calls, sure, asked>>

Cancel ==
  /\ panel.confirming /\ ~panel.restoring
  /\ panel' = [panel EXCEPT !.confirming = FALSE]
  /\ UNCHANGED <<env, newest, page, calls, sure, asked>>

\* doRestore asks for the version selected, of the file the page has open now.
Target == [file |-> active, version |-> panel.selected]

DoRestore ==
  /\ Mounted /\ panel.confirming /\ ~panel.restoring /\ Room
  /\ panel' = [panel EXCEPT !.restoring = TRUE]
  /\ calls' = Append(calls, Call("restore", Target.file, Target.version))
  /\ asked' = [call |-> Target, confirmed |-> panel.preview, sure |-> sure]
  /\ UNCHANGED <<env, newest, page, sure>>

-----------------------------------------------------------------------------
(* The answers. *)

Answers(n) == n \in DOMAIN calls /\ ("reorder" \in env \/ n = 1)
Rest(n) == RemoveAt(calls, n)

Listed(n) ==
  /\ Answers(n) /\ calls[n].kind = "list"
  /\ panel' = IF calls[n].live
                THEN [panel EXCEPT !.list = Kept(calls[n].file)] ELSE panel
  /\ calls' = Rest(n)
  /\ UNCHANGED <<env, newest, page, sure, asked>>

\* A version that has expired meanwhile is not found.
Previewed(n) ==
  /\ Answers(n) /\ calls[n].kind = "preview"
  /\ panel' = IF calls[n].live /\ calls[n].version \in Kept(calls[n].file)
                THEN [panel EXCEPT !.preview = [file |-> calls[n].file, version |-> calls[n].version]]
                ELSE panel
  /\ calls' = Rest(n)
  /\ UNCHANGED <<env, newest, page, sure, asked>>

\* The document becomes a new version; onClose closes whichever panel is shown.
Restored(n) ==
  /\ Answers(n) /\ calls[n].kind = "restore"
  /\ calls[n].version \in Kept(calls[n].file) /\ newest[calls[n].file] < MaxVersion
  /\ newest' = [newest EXCEPT ![calls[n].file] = @ + 1]
  /\ open' = FALSE
  /\ panel' = Fresh /\ calls' = Orphans(Rest(n))
  /\ UNCHANGED <<env, active, sure, asked>>

\* The version is gone, or another restore runs (at MaxVersion: the bound).
Refused(n) ==
  /\ Answers(n) /\ calls[n].kind = "restore"
  /\ "fails" \in env \/ calls[n].version \notin Kept(calls[n].file) \/ newest[calls[n].file] = MaxVersion
  /\ panel' = IF calls[n].live THEN [panel EXCEPT !.restoring = FALSE, !.confirming = FALSE] ELSE panel
  /\ calls' = Rest(n)
  /\ UNCHANGED <<env, newest, page, sure, asked>>

\* A list or a preview that fails leaves what is shown.
ReadFails(n) ==
  /\ "fails" \in env /\ Answers(n) /\ calls[n].kind # "restore"
  /\ calls' = Rest(n)
  /\ UNCHANGED <<env, newest, page, panel, sure, asked>>

\* The room is compacted, and the oldest version expires.
Compact(f) ==
  /\ newest[f] < MaxVersion
  /\ newest' = [newest EXCEPT ![f] = @ + 1]
  /\ UNCHANGED <<env, page, panel, calls, sure, asked>>

-----------------------------------------------------------------------------
Reply(n) == Listed(n) \/ Previewed(n) \/ Restored(n) \/ Refused(n) \/ ReadFails(n)

Next ==
  \/ \E f \in Files : OpenFile(f) \/ Compact(f)
  \/ CloseFile \/ ShowHistory \/ HideHistory \/ AskToConfirm \/ Cancel \/ DoRestore
  \/ \E v \in Versions : SelectVersion(v)
  \/ \E n \in 1..MaxCalls : Reply(n)

Spec == Init /\ [][Next]_vars

-----------------------------------------------------------------------------
(* Properties. *)

(* What is restored is the version of the file whose text the owner was    *)
(* shown and asked to confirm (VersionHistoryPanel's selectVersion and     *)
(* doRestore), if that version was selected of the file that is open, and  *)
(* while no other preview was on its way; in whatever order the answers    *)
(* come, though calls fail and versions expire, and whatever the owner did *)
(* before.  Without either condition it need not be: nothing of the panel  *)
(* but its list follows the file, and a preview that comes late is shown   *)
(* for the version selected since.                                         *)
RestoresWhatWasConfirmed == asked.sure => asked.call = asked.confirmed
=============================================================================
