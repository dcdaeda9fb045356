--------------------------- MODULE MCRoomVariants ---------------------------
(* Two more instances of RoomPersistence, for TLC: a behaviour is one of    *)
(* the first, whose constants are this module's, or one of the second.      *)
EXTENDS RoomPersistence, TLC

CONSTANTS
  Overlapping,   \* the edits of the second
  Second         \* the tick that only the second has

VARIABLE variant

\* The first has objects that cannot be read while the room loads, and uploads that
\* fail.  The second has ticks that overlap, rooms that are replaced while they are evicted,
\* and INSERTs that fail.
Overlap == INSTANCE RoomPersistence WITH
  Edits <- Overlapping, HistoryLimit <- 1, MaxRow <- 2, MaxVersion <- 0,
  Env <- {"overlap", "db", "joinEvicting"}

VariantInit ==
  \/ variant = "fallback" /\ Init
  \/ variant = "overlap" /\ Overlap!Init

VariantNext ==
  /\ \/ variant = "fallback" /\ Next /\ pc'[Second] = "idle"
     \/ variant = "overlap" /\ Overlap!Next
  /\ UNCHANGED variant

VariantSpec == VariantInit /\ [][VariantNext]_<<variant, vars>>

\* Ticks are interchangeable in the second, and the first knows only one.
Symmetry == Permutations(Overlapping) \cup Permutations(Rooms) \cup Permutations(Ticks)

\* A base that cannot be read is skipped, and the whole document is still served
\* (loadFromStorage).
FallbackShowsAll == variant = "fallback" => WarmRoomShowsAll

\* Retention keeps its limit, where no deletion of rows fails (writeSnapshot).
FallbackIsBounded == variant = "fallback" => HistoryBounded
=============================================================================
