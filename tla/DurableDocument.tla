-------------------------- MODULE DurableDocument --------------------------
(***************************************************************************)
(* What the persistence of one document promises, whatever it is made of:  *)
(* a document that is opened shows everything stored, what is stored stays *)
(* stored, and a document is closed only once all it showed is stored.     *)
(* Only a crash may take away what was shown and not yet stored, and then  *)
(* it is known to be lost.                                                 *)
(***************************************************************************)
CONSTANT Edits

VARIABLES
  stored,    \* the edits storage yields
  open,      \* whether a room serves the document
  shown,     \* the edits that room shows
  accepted,  \* the edits ever made
  lost       \* those a crash took away

docVars == <<stored, open, shown, accepted, lost>>

DocInit ==
  /\ stored = {} /\ open = FALSE /\ shown = {}
  /\ accepted = {} /\ lost = {}

Open ==
  /\ ~open /\ open' = TRUE /\ shown' = stored
  /\ UNCHANGED <<stored, accepted, lost>>

Accept ==
  /\ open
  /\ \E e \in Edits \ accepted : accepted' = accepted \cup {e} /\ shown' = shown \cup {e}
  /\ UNCHANGED <<stored, open, lost>>

\* Some of the edits shown are written.
Save ==
  /\ open /\ stored \subseteq stored' /\ stored' \subseteq shown
  /\ UNCHANGED <<open, shown, accepted, lost>>

Close ==
  /\ open /\ shown \subseteq stored /\ open' = FALSE /\ shown' = {}
  /\ UNCHANGED <<stored, accepted, lost>>

Fail ==
  /\ open /\ open' = FALSE /\ shown' = {}
  /\ lost \cup (shown \ stored) \subseteq lost' /\ lost' \subseteq lost \cup shown
  /\ UNCHANGED <<stored, accepted>>

DocNext == Open \/ Accept \/ Save \/ Close \/ Fail
DocSpec == DocInit /\ [][DocNext]_docVars

-----------------------------------------------------------------------------
\* Every edit ever made is stored, or shown by an open document, or is one
\* that a crash took away before it was stored.
NothingVanishes == accepted \subseteq stored \cup shown \cup lost
=============================================================================
