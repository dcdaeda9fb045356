-------------------------- MODULE History_proofs --------------------------
(***************************************************************************)
(* Proofs about History, for every set of files, number of versions kept   *)
(* and number of calls under way: its types, and that a version selected   *)
(* of the file that is open, with no preview on its way, is restored only  *)
(* as it was shown and confirmed, whatever order the answers come in.      *)
(***************************************************************************)
EXTENDS History, SequenceTheorems, TLAPS

\* "No file" is none of the files.
NoneApart == None \notin Files
Bounded == MaxVersion \in Nat \ {0}

Panels == [list : SUBSET Versions, selected : Versions \cup {0},
           preview : [file : Files \cup {None}, version : Versions \cup {0}],
           confirming : BOOLEAN, restoring : BOOLEAN]
Calls == [kind : {"list", "preview", "restore"}, file : Files,
          version : Versions \cup {0}, live : BOOLEAN]

\* TypeOK without its bound, so that what follows needs none.
PanelOK ==
  /\ active \in Files \cup {None} /\ open \in BOOLEAN
  /\ panel \in Panels /\ calls \in Seq(Calls)
  /\ ~Mounted => panel = Fresh /\ \A n \in DOMAIN calls : ~calls[n].live
  /\ panel.confirming => panel.preview # Blank

-----------------------------------------------------------------------------
(* Calls and answers. *)

LEMMA FreshIsPanel == Fresh \in Panels /\ ~Fresh.confirming /\ Fresh.preview = Blank
BY DEF Fresh, Panels, Blank

LEMMA CallTypes ==
  ASSUME NEW kind \in {"list", "preview", "restore"}, NEW f \in Files, NEW v \in Versions \cup {0}
  PROVE  /\ Call(kind, f, v) \in Calls
         /\ Call(kind, f, v).kind = kind /\ Call(kind, f, v).file = f /\ Call(kind, f, v).version = v
BY DEF Call, Calls

\* One more call.
LEMMA MoreCalls ==
  ASSUME calls \in Seq(Calls), NEW c \in Calls, calls' = Append(calls, c)
  PROVE  /\ calls' \in Seq(Calls)
         /\ \A n \in DOMAIN calls' : calls'[n] = c \/ \E m \in DOMAIN calls : calls'[n] = calls[m]
BY AppendProperties

\* A call that was answered is gone; the others stay.
LEMMA RestOf ==
  ASSUME calls \in Seq(Calls), NEW n \in DOMAIN calls
  PROVE  /\ Rest(n) \in Seq(Calls)
         /\ \A k \in DOMAIN Rest(n) : \E m \in DOMAIN calls : Rest(n)[k] = calls[m]
<1> DEFINE A == SubSeq(calls, 1, n - 1)
           B == SubSeq(calls, n + 1, Len(calls))
<1>1. DOMAIN calls = 1..Len(calls) /\ Len(calls) \in Nat /\ n \in 1..Len(calls)
  OBVIOUS
<1>2. A \in Seq(Calls) /\ Len(A) = n - 1 /\ \A k \in 1..(n - 1) : A[k] = calls[k]
  BY <1>1
<1>3. B \in Seq(Calls) /\ Len(B) = Len(calls) - n /\ \A k \in 1..(Len(calls) - n) : B[k] = calls[n + k]
  BY <1>1
<1>4. Rest(n) = A \o B
  BY DEF Rest, RemoveAt
<1> HIDE DEF A, B
<1>5. Rest(n) \in Seq(Calls) /\ DOMAIN Rest(n) = 1..(Len(calls) - 1)
  <2>1. Rest(n) \in Seq(Calls) /\ Len(Rest(n)) = (n - 1) + (Len(calls) - n)
    <3>0. A \in Seq(Calls) /\ B \in Seq(Calls)
      BY <1>2, <1>3
    <3>1. (A \o B) \in Seq(Calls) /\ Len(A \o B) = Len(A) + Len(B)
      BY ONLY <3>0, ConcatProperties
    <3> QED
      BY <1>2, <1>3, <1>4, <3>1
  <2>2. (n - 1) + (Len(calls) - n) = Len(calls) - 1
    BY <1>1
  <2> QED
    BY <2>1, <2>2
<1>6. ASSUME NEW k \in 1..(Len(calls) - 1)
      PROVE  Rest(n)[k] = IF k < n THEN calls[k] ELSE calls[k + 1]
  <2>1. CASE k < n
    BY <1>1, <1>2, <1>3, <1>4, <2>1
  <2>2. CASE k >= n
    <3>1. Rest(n)[k] = B[k - (n - 1)]
      BY <1>1, <1>2, <1>3, <1>4, <2>2
    <3>2. k - (n - 1) \in 1..(Len(calls) - n) /\ n + (k - (n - 1)) = k + 1
      BY <1>1, <2>2
    <3>3. B[k - (n - 1)] = calls[k + 1]
      BY <1>3, <3>2
    <3> QED
      BY <1>1, <2>2, <3>1, <3>3
  <2> QED
    BY <1>1, <2>1, <2>2
<1>7. ASSUME NEW k \in 1..(Len(calls) - 1)
      PROVE  k \in DOMAIN calls /\ k + 1 \in DOMAIN calls
  BY <1>1
<1> QED
  BY <1>5, <1>6, <1>7

\* Those of a panel that is gone stay what they were, but for it.
LEMMA OrphansOf ==
  ASSUME NEW s \in Seq(Calls)
  PROVE  /\ Orphans(s) \in Seq(Calls)
         /\ \A n \in DOMAIN Orphans(s) : ~Orphans(s)[n].live
<1>1. DOMAIN s = 1..Len(s) /\ Len(s) \in Nat /\ \A n \in DOMAIN s : s[n] \in Calls
  OBVIOUS
<1>2. \A c \in Calls : [c EXCEPT !.live = FALSE] \in Calls /\ ~[c EXCEPT !.live = FALSE].live
  BY DEF Calls
<1>3. Orphans(s) = [n \in 1..Len(s) |-> [s[n] EXCEPT !.live = FALSE]]
  BY <1>1 DEF Orphans
<1>4. /\ DOMAIN Orphans(s) = 1..Len(s)
      /\ \A n \in 1..Len(s) : Orphans(s)[n] \in Calls /\ ~Orphans(s)[n].live
  <2>1. ASSUME NEW n \in 1..Len(s)
        PROVE  Orphans(s)[n] \in Calls /\ ~Orphans(s)[n].live
    <3>1. s[n] \in Calls /\ Orphans(s)[n] = [s[n] EXCEPT !.live = FALSE]
      BY <1>1, <1>3
    <3> QED
      BY <1>2, <3>1
  <2> QED
    BY <1>3, <2>1
<1>5. Orphans(s) \in Seq(Calls)
  BY <1>1, <1>2, <1>3
<1> QED
  BY <1>4, <1>5

\* The panel is closed, and starts afresh when it is opened again.
LEMMA PanelGoes ==
  ASSUME NEW s \in Seq(Calls), panel' = Fresh, calls' = Orphans(s),
         active' \in Files \cup {None}, open' \in BOOLEAN
  PROVE  PanelOK'
BY OrphansOf, FreshIsPanel DEF PanelOK

-----------------------------------------------------------------------------
(* The types. *)

LEMMA PageStep ==
  ASSUME NoneApart, PanelOK,
         \/ \E f \in Files : OpenFile(f)
         \/ CloseFile \/ ShowHistory \/ HideHistory
  PROVE  PanelOK'
<1>1. ASSUME NEW f \in Files, OpenFile(f)
      PROVE  PanelOK'
  <2>1. Call("list", f, 0) \in Calls
    BY CallTypes
  <2>2. active' = f /\ open' = open /\ panel' = panel
    BY <1>1 DEF OpenFile
  <2>3. CASE open
    <3>1. calls' = Append(calls, Call("list", f, 0)) /\ Mounted'
      BY <1>1, <2>2, <2>3 DEF OpenFile, Mounted, NoneApart
    <3> QED
      BY <2>1, <2>2, <3>1, MoreCalls DEF PanelOK
  <2>4. CASE ~open
    BY <1>1, <2>2, <2>4 DEF OpenFile, Mounted, PanelOK
  <2> QED
    BY <2>3, <2>4
<1>2. CASE CloseFile
  BY <1>2, PanelGoes DEF CloseFile, PanelOK
<1>3. CASE ShowHistory
  <2>1. active \in Files /\ Call("list", active, 0) \in Calls
    BY <1>3, CallTypes DEF ShowHistory, PanelOK
  <2>2. calls' \in Seq(Calls) /\ Mounted'
    BY <1>3, <2>1, MoreCalls DEF ShowHistory, PanelOK, Mounted
  <2> QED
    BY <1>3, <2>2 DEF ShowHistory, PanelOK
<1>4. CASE HideHistory
  BY <1>4, PanelGoes DEF HideHistory, PanelOK
<1> QED
  BY <1>1, <1>2, <1>3, <1>4

LEMMA PanelStep ==
  ASSUME PanelOK, AskToConfirm \/ Cancel \/ DoRestore \/ \E v \in Versions : SelectVersion(v)
  PROVE  PanelOK'
<1>0. UNCHANGED <<active, open>>
  BY DEF AskToConfirm, Cancel, DoRestore, SelectVersion, page
<1>1. UNCHANGED <<active, open>> /\ Mounted' = Mounted
  BY <1>0 DEF Mounted
<1>2. CASE AskToConfirm
  BY <1>1, <1>2 DEF AskToConfirm, PanelOK, Panels
<1>3. CASE Cancel
  <2>1. Mounted /\ calls' = calls
    BY <1>3, FreshIsPanel DEF Cancel, PanelOK
  <2>2. panel' \in Panels /\ ~panel'.confirming
    BY <1>3 DEF Cancel, PanelOK, Panels
  <2> QED
    BY <1>1, <2>1, <2>2 DEF PanelOK
<1>4. CASE DoRestore
  <2>1. active \in Files /\ panel.selected \in Versions \cup {0} /\ Mounted
    BY <1>4 DEF DoRestore, Mounted, PanelOK, Panels
  <2>2. calls' \in Seq(Calls)
    BY <1>4, <2>1, CallTypes, MoreCalls DEF DoRestore, Target, PanelOK
  <2>3. panel' \in Panels /\ panel'.preview = panel.preview /\ panel'.confirming = panel.confirming
    BY <1>4 DEF DoRestore, PanelOK, Panels
  <2> QED
    BY <1>1, <2>1, <2>2, <2>3 DEF PanelOK
<1>5. ASSUME NEW v \in Versions, SelectVersion(v)
      PROVE  PanelOK'
  <2>1. active \in Files /\ Mounted
    BY <1>5 DEF SelectVersion, Mounted, PanelOK
  <2>2. calls' \in Seq(Calls)
    BY <1>5, <2>1, CallTypes, MoreCalls DEF SelectVersion, PanelOK
  <2>3. panel' \in Panels /\ ~panel'.confirming
    BY <1>5, FreshIsPanel DEF SelectVersion, PanelOK, Panels, Blank, Fresh
  <2> QED
    BY <1>1, <2>1, <2>2, <2>3 DEF PanelOK
<1> QED
  BY <1>2, <1>3, <1>4, <1>5

LEMMA AnswerStep ==
  ASSUME NoneApart, PanelOK, NEW n, Reply(n)
  PROVE  PanelOK'
<1>1. n \in DOMAIN calls /\ calls[n] \in Calls
  BY DEF Reply, Listed, Previewed, Restored, Refused, ReadFails, Answers, PanelOK
<1>2. /\ Rest(n) \in Seq(Calls)
      /\ \A k \in DOMAIN Rest(n) : \E m \in DOMAIN calls : Rest(n)[k] = calls[m]
  BY <1>1, RestOf DEF PanelOK
<1>3. CASE Restored(n)
  BY <1>2, <1>3, PanelGoes DEF Restored, PanelOK
<1>4. CASE ~Restored(n)
  <2>1. calls' = Rest(n) /\ UNCHANGED <<active, open>>
    BY <1>4 DEF Reply, Listed, Previewed, Refused, ReadFails, page
  <2>2. panel' # panel => calls[n].live
    BY <1>4 DEF Reply, Listed, Previewed, Refused, ReadFails
  <2>3. panel' \in Panels /\ (panel'.confirming => panel'.preview # Blank)
    <3>1. CASE Listed(n)
      BY <3>1 DEF Listed, Kept, PanelOK, Panels
    <3>2. CASE Previewed(n)
      <4>1. calls[n].file \in Files /\ calls[n].version \in Versions \cup {0}
        BY <1>1 DEF Calls
      <4>2. [file |-> calls[n].file, version |-> calls[n].version] # Blank
        BY <4>1 DEF Blank, Fresh, NoneApart
      <4> QED
        BY <3>2, <4>1, <4>2 DEF Previewed, PanelOK, Panels
    <3>3. CASE Refused(n)
      BY <3>3 DEF Refused, PanelOK, Panels
    <3>4. CASE ReadFails(n)
      BY <3>4 DEF ReadFails, PanelOK
    <3> QED
      BY <1>4, <3>1, <3>2, <3>3, <3>4 DEF Reply
  <2> QED
    BY <1>1, <1>2, <2>1, <2>2, <2>3 DEF PanelOK, Mounted
<1> QED
  BY <1>3, <1>4

LEMMA PanelOKInit == Init => PanelOK
<1> SUFFICES ASSUME Init
             PROVE  PanelOK
  OBVIOUS
<1>1. calls \in Seq(Calls) /\ DOMAIN calls = {}
  BY DEF Init
<1> QED
  BY <1>1, FreshIsPanel DEF Init, PanelOK, Mounted

LEMMA PanelOKStep == NoneApart /\ PanelOK /\ [Next]_vars => PanelOK'
<1> SUFFICES ASSUME NoneApart, PanelOK, [Next]_vars
             PROVE  PanelOK'
  OBVIOUS
<1>1. CASE \E f \in Files : Compact(f)
  BY <1>1 DEF Compact, page, PanelOK, Mounted
<1>2. CASE UNCHANGED vars
  BY <1>2 DEF vars, page, PanelOK, Mounted
<1> QED
  BY <1>1, <1>2, PageStep, PanelStep, AnswerStep DEF Next

\* The types, and that a panel that is not shown has no state and that one asks to
\* confirm only what it shows (VersionHistoryPanel, mounted by ProjectPage).
THEOREM TypeCorrect ==
  ASSUME NoneApart, Bounded PROVE Spec => []TypeOK
<1> DEFINE Inv == PanelOK /\ env \in Scenarios /\ newest \in [Files -> Versions] /\ sure \in BOOLEAN
<1>1. Init => Inv
  <2>1. Init => newest \in [Files -> Versions]
    BY DEF Init, Bounded, Versions
  <2>2. Init => sure \in BOOLEAN /\ env \in Scenarios
    BY Zenon DEF Init
  <2> QED
    BY <2>1, <2>2, PanelOKInit
<1>2. Inv /\ [Next]_vars => Inv'
  <2> SUFFICES ASSUME Inv, [Next]_vars
               PROVE  env' = env /\ newest' \in [Files -> Versions] /\ sure' \in BOOLEAN
    BY PanelOKStep
  <2>0. sure' \in BOOLEAN
    <3>1. ASSUME NEW v \in Versions, SelectVersion(v)
          PROVE  sure' \in BOOLEAN
      BY <3>1 DEF SelectVersion
    <3>2. ASSUME NEW f \in Files, OpenFile(f)
          PROVE  sure' \in BOOLEAN
      BY <3>2 DEF OpenFile
    <3>3. sure' = sure \/ (\E v \in Versions : SelectVersion(v)) \/ \E f \in Files : OpenFile(f)
      BY DEF Next, vars, Compact, CloseFile, ShowHistory, HideHistory, AskToConfirm, Cancel,
          DoRestore, Reply, Listed, Previewed, Restored, Refused, ReadFails
    <3> QED
      BY <3>1, <3>2, <3>3
  <2>1. ASSUME NEW f \in Files, newest[f] < MaxVersion, newest' = [newest EXCEPT ![f] = @ + 1]
        PROVE  newest' \in [Files -> Versions]
    <3>1. newest[f] + 1 \in Versions
      BY <2>1 DEF Bounded, Versions
    <3> QED
      BY <2>1, <3>1
  <2>2. ASSUME NEW n, Reply(n)
        PROVE  env' = env /\ newest' \in [Files -> Versions]
    <3>0. n \in DOMAIN calls => calls[n] \in Calls
      BY DEF PanelOK
    <3>1. n \in DOMAIN calls => calls[n].file \in Files
      BY <3>0 DEF Calls
    <3> QED
      BY <2>1, <2>2, <3>1 DEF Reply, Listed, Previewed, Restored, Refused, ReadFails, Answers
  <2> QED
    BY <2>0, <2>1, <2>2
    DEF Next, vars, OpenFile, Compact, CloseFile, ShowHistory, HideHistory, AskToConfirm, Cancel,
        DoRestore, SelectVersion
<1>3. Inv => TypeOK
  BY DEF PanelOK, Panels, Calls, TypeOK
<1> QED
  BY <1>1, <1>2, <1>3, PTL DEF Spec

-----------------------------------------------------------------------------
(* What is restored. *)

\* What the panel shows, and will be shown, is the version selected of the file that
\* is open, if it was selected of that file with no preview on its way.
Shows ==
  /\ panel.preview # Blank => panel.preview = Target
  /\ \A n \in DOMAIN calls : calls[n].kind = "preview" /\ calls[n].live =>
       Target = [file |-> calls[n].file, version |-> calls[n].version]
TargetInv ==
  /\ sure => Shows
  /\ asked.sure => asked.call = asked.confirmed

LEMMA TargetInit == Init => TargetInv
BY DEF Init, TargetInv

\* A file that is opened takes away what was sure; a version that is selected with no
\* preview on its way is the only one whose preview will be.
LEMMA TargetOwner ==
  ASSUME NoneApart, PanelOK, TargetInv,
         \/ \E f \in Files : OpenFile(f)
         \/ CloseFile \/ ShowHistory \/ HideHistory
         \/ AskToConfirm \/ Cancel \/ DoRestore \/ \E v \in Versions : SelectVersion(v)
  PROVE  TargetInv'
<1>1. ASSUME NEW f \in Files, OpenFile(f)
      PROVE  TargetInv'
  BY <1>1 DEF OpenFile, TargetInv
<1>2. CASE CloseFile \/ HideHistory
  <2>1. panel' = Fresh /\ calls' = Orphans(calls) /\ UNCHANGED <<sure, asked>>
    BY <1>2 DEF CloseFile, HideHistory
  <2> QED
    BY <2>1, OrphansOf, FreshIsPanel DEF PanelOK, TargetInv, Shows
<1>3. CASE ShowHistory
  <2>1. active \in Files /\ UNCHANGED <<active, panel, sure, asked>>
    BY <1>3 DEF ShowHistory, PanelOK
  <2>2. Call("list", active, 0) \in Calls /\ Call("list", active, 0).kind = "list"
    BY <2>1, CallTypes
  <2>3. \A n \in DOMAIN calls' :
          calls'[n] = Call("list", active, 0) \/ \E m \in DOMAIN calls : calls'[n] = calls[m]
    BY <1>3, <2>2, MoreCalls DEF ShowHistory, PanelOK
  <2> QED
    BY <2>1, <2>2, <2>3 DEF TargetInv, Shows, Target
<1>4. CASE AskToConfirm \/ Cancel
  <2>1. UNCHANGED <<active, calls, sure, asked, panel.preview, panel.selected>>
    BY <1>4 DEF AskToConfirm, Cancel, page, PanelOK, Panels
  <2> QED
    BY <2>1 DEF TargetInv, Shows, Target
<1>5. CASE DoRestore
  <2>1. /\ UNCHANGED <<active, sure, panel.preview, panel.selected>>
        /\ asked' = [call |-> Target, confirmed |-> panel.preview, sure |-> sure]
    BY <1>5 DEF DoRestore, page, PanelOK, Panels
  <2>2. sure => panel.preview = Target
    BY <1>5 DEF DoRestore, PanelOK, TargetInv, Shows
  <2>3. active \in Files /\ panel.selected \in Versions \cup {0}
    BY <1>5 DEF DoRestore, Mounted, PanelOK, Panels
  <2> DEFINE c == Call("restore", Target.file, Target.version)
  <2>4. c \in Calls /\ c.kind = "restore"
    BY <2>3, CallTypes DEF Target
  <2>5. \A n \in DOMAIN calls' : calls'[n] = c \/ \E m \in DOMAIN calls : calls'[n] = calls[m]
    BY <1>5, <2>4, MoreCalls DEF DoRestore, PanelOK
  <2> HIDE DEF c
  <2> QED
    BY <2>1, <2>2, <2>4, <2>5 DEF TargetInv, Shows, Target
<1>6. ASSUME NEW v \in Versions, SelectVersion(v)
      PROVE  TargetInv'
  <2> DEFINE c == Call("preview", active, v)
  <2>1. calls' = Append(calls, c) /\ asked' = asked /\ active' = active /\ sure' = ~Previewing
    BY <1>6 DEF SelectVersion, page
  <2>2. active \in Files /\ panel'.preview = Blank /\ panel'.selected = v
    BY <1>6 DEF SelectVersion, Mounted, PanelOK, Panels
  <2>3. c \in Calls /\ c.file = active /\ c.version = v
    BY <2>2, CallTypes
  <2> HIDE DEF c
  <2>4. \A n \in DOMAIN calls' : calls'[n] = c \/ \E m \in DOMAIN calls : calls'[n] = calls[m]
    BY <2>1, <2>3, MoreCalls DEF PanelOK
  <2>5. sure' => \A n \in DOMAIN calls' : calls'[n].kind = "preview" /\ calls'[n].live => calls'[n] = c
    BY <2>1, <2>4 DEF Previewing
  <2> QED
    BY <2>1, <2>2, <2>3, <2>5 DEF TargetInv, Shows, Target
<1> QED
  BY <1>1, <1>2, <1>3, <1>4, <1>5, <1>6

LEMMA TargetAnswer ==
  ASSUME PanelOK, TargetInv, NEW n, Reply(n)
  PROVE  TargetInv'
<1>1. n \in DOMAIN calls /\ UNCHANGED <<sure, asked>>
  BY DEF Reply, Listed, Previewed, Restored, Refused, ReadFails, Answers
<1>2. /\ Rest(n) \in Seq(Calls)
      /\ \A k \in DOMAIN Rest(n) : \E m \in DOMAIN calls : Rest(n)[k] = calls[m]
  BY <1>1, RestOf DEF PanelOK
<1>3. CASE Restored(n)
  <2>1. panel' = Fresh /\ calls' = Orphans(Rest(n))
    BY <1>3 DEF Restored
  <2> QED
    BY <1>1, <1>2, <2>1, OrphansOf, FreshIsPanel DEF TargetInv, Shows
<1>4. CASE ~Restored(n)
  <2>1. calls' = Rest(n) /\ active' = active
    BY <1>4 DEF Reply, Listed, Previewed, Refused, ReadFails, page
  <2>2. panel'.selected = panel.selected /\ (sure => panel'.preview \in {panel.preview, Target})
    <3>1. CASE Previewed(n)
      BY <1>1, <3>1 DEF Previewed, TargetInv, Shows, PanelOK, Panels
    <3>2. CASE Listed(n) \/ Refused(n) \/ ReadFails(n)
      BY <3>2 DEF Listed, Refused, ReadFails, PanelOK, Panels
    <3> QED
      BY <1>4, <3>1, <3>2 DEF Reply
  <2> QED
    BY <1>1, <1>2, <2>1, <2>2 DEF TargetInv, Shows, Target
<1> QED
  BY <1>3, <1>4

LEMMA TargetStep == NoneApart /\ PanelOK /\ TargetInv /\ [Next]_vars => TargetInv'
<1> SUFFICES ASSUME NoneApart, PanelOK, TargetInv, [Next]_vars
             PROVE  TargetInv'
  OBVIOUS
<1>1. CASE \E f \in Files : Compact(f)
  BY <1>1 DEF Compact, page, TargetInv, Shows, Target
<1>2. CASE UNCHANGED vars
  BY <1>2 DEF vars, page, TargetInv, Shows, Target
<1> QED
  BY <1>1, <1>2, TargetOwner, TargetAnswer DEF Next

\* VersionHistoryPanel's doRestore asks for the version selected of the file that is
\* open, which is the one shown and confirmed if it was selected of that file with no
\* preview on its way: selectVersion blanks the preview, and only the answer to its
\* call fills it.
THEOREM OwnersRestoreWhatTheySee ==
  ASSUME NoneApart PROVE Spec => []RestoresWhatWasConfirmed
<1> DEFINE Inv == PanelOK /\ TargetInv
<1>1. Init => Inv
  BY PanelOKInit, TargetInit
<1>2. Inv /\ [Next]_vars => Inv'
  BY PanelOKStep, TargetStep
<1>3. Inv => RestoresWhatWasConfirmed
  BY DEF TargetInv, RestoresWhatWasConfirmed
<1> QED
  BY <1>1, <1>2, <1>3, PTL DEF Spec

=============================================================================
