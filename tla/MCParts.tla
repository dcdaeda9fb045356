------------------------------ MODULE MCParts ------------------------------
(* Small instances, for TLC, of four parts that share no state: a behaviour *)
(* is one of ContentRead, of History, of ProjectPage or of BusFrame.        *)
EXTENDS ContentRead, TLC

CONSTANTS f1, f2, p1, p2, u1, None

VARIABLES
  part,                                                  \* the one that moves
  newest, historyOf, open, panel, fetches, sure, asked,  \* History
  path, used, seeded, role, files, members, active, calls, pageRead, \* ProjectPage
  redis, sent, wire, handled                              \* BusFrame

historyVars == <<newest, historyOf, open, panel, fetches, sure, asked>>
pageVars == <<path, used, seeded, role, files, members, active, calls, pageRead>>
busVars == <<redis, sent, wire, handled>>

\* What each part's behaviours go through.  A page's owner waits for each answer while
\* calls fail and overtake one another, or does not and calls overlap, in their order or
\* in any.
ScenariosOf(p) ==
  CASE p = "content" -> {{}, {"loseAll"}}
    [] p = "history" -> {{"fails", "reorder"}}
    [] p = "page" -> {{"impatient"}, {"impatient", "reorder"}, {"fails", "reorder"}}
    [] p = "bus" -> {{}}
Parts == {"content", "history", "page", "bus"}
AllScenarios == UNION {ScenariosOf(p) : p \in Parts}

History == INSTANCE History WITH
  Files <- {f1, f2}, Limit <- 2, MaxVersion <- 3, MaxCalls <- 2, Scenarios <- AllScenarios,
  active <- historyOf, calls <- fetches

ProjectPage == INSTANCE ProjectPage WITH
  Files <- {f1, f2}, Paths <- {p1, p2}, Users <- {u1}, MaxCalls <- 2, Scenarios <- AllScenarios,
  read <- pageRead

\* Three backends and two restores.  A byte of a version number or of ASCII text, and
\* both halves of a character of two bytes, in any order: all are in Yjs updates.
BusFrame == INSTANCE BusFrame WITH
  Instances <- {65, 66, 67}, Rids <- {82, 83}, Bytes <- {0, 169, 195},
  MaxPayload <- 2

PartInit ==
  /\ part \in Parts
  /\ Init /\ History!Init /\ ProjectPage!Init /\ BusFrame!Init
  /\ env \in ScenariosOf(part) /\ (part # "bus" => redis)

PartNext ==
  \/ part = "content" /\ Next /\ UNCHANGED <<part, historyVars, pageVars, busVars>>
  \/ part = "history" /\ History!Next /\ UNCHANGED <<part, vars, pageVars, busVars>>
  \/ part = "page" /\ ProjectPage!Next /\ UNCHANGED <<part, vars, historyVars, busVars>>
  \/ part = "bus" /\ BusFrame!Next /\ UNCHANGED <<part, vars, historyVars, pageVars>>

PartSpec == PartInit /\ [][PartNext]_<<part, vars, historyVars, pageVars, busVars>>

Symmetry == Permutations({f1, f2}) \cup Permutations({p1, p2})

\* The types of each part, with what its tables may never hold: a log pruned
\* beyond the newest version (ContentRead), two files of one path, a document seeded for
\* no file (ProjectPage), a panel that asks to confirm nothing (History).
TypesOK == TypeOK /\ History!TypeOK /\ ProjectPage!TypeOK

\* See History and ProjectPage.
RestoresWhatWasConfirmed == History!RestoresWhatWasConfirmed
ShownIsStored == ProjectPage!ShownIsStored

\* See BusFrame.
Routed == BusFrame!Routed
PayloadArrives == BusFrame!PayloadArrives
=============================================================================
