----------------------------- MODULE MCSession -----------------------------
(* Small instances of Session for TLC.                                     *)
EXTENDS Session, TLC

\* Connections break, checks fail; memberships change; kicks are lost or never
\* sent; rooms are loaded on joining, and pages listen late.
Ordinary ==
  {{"drop", "vanish", "db", "demote"},
   {"drop", "demote", "add"},
   {"lost", "delete", "add"},
   {"drop", "cold", "loadFails", "fast", "demote"}}
=============================================================================
