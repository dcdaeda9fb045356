----------------------------- MODULE MCPresence -----------------------------
(* A small instance of Presence for TLC.                                   *)
EXTENDS Presence, TLC

\* Two backends, with and without lost frames; a restore, and saves, in one.
Several == {{}, {"lost"}, {"edit", "restore"}}
=============================================================================
