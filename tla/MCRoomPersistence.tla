------------------------- MODULE MCRoomPersistence -------------------------
(* Small instances of RoomPersistence for TLC.                             *)
EXTENDS RoomInvariant, TLC

\* Edits, rooms and ticks are interchangeable.  Runs that check a temporal
\* property use no symmetry.
EditSymmetry == Permutations(Edits)
FullSymmetry == EditSymmetry \cup Permutations(Rooms) \cup Permutations(Ticks)
=============================================================================
