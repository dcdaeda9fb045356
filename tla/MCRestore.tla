----------------------------- MODULE MCRestore -----------------------------
(* A small instance of Restore for TLC.                                    *)
EXTENDS Restore, TLC

CONSTANTS a, b, c, r1, r2, r3

\* The owners ask two backends, the one that leads twice.
Apart == [r \in Restores |-> IF r = r1 THEN a ELSE b]

\* No faults, with two edits or three restores; a reset that fails or is not stored; dead
\* coordinators and failing calls while clients go on typing; rooms that are opened
\* meanwhile; a reset that is stored and given up.
Several ==
  {{"more"}, {"third"}, {"versionMissing", "rowFails", "snapshotFails"},
   {"prepareFails", "rowFails", "crash", "saving"}, {"commitFails", "after"},
   {"join"}, {"storedAnyway"}}
=============================================================================
