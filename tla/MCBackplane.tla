---------------------------- MODULE MCBackplane ----------------------------
(* Small instances of Backplane for TLC.                                   *)
EXTENDS Backplane, TLC

\* Every edit is its browser's first, in an empty document.
Independent == [e \in Edits |-> {}]

\* Two edits and no faults; failing calls; crashes and leases that run out
\* between ticks; everything the document need not survive.
Several ==
  {{"more"}, {"publishFails", "lostReply", "outage", "db", "s3"}, {"crash", "lapse"},
   {"lost", "shutdown", "redis"}}

\* Publishing is retried until it succeeds.
Retried == {{"publishFails", "outage"}}

\* A subscriber misses a frame.
Lossy == {{"lost"}}

FullSymmetry == Permutations(Instances) \cup Permutations(Edits)
=============================================================================
