------------------------ MODULE ContentRead_proofs ------------------------
(***************************************************************************)
(* Proofs about ContentRead, for every retention limit and any length of   *)
(* the log: a file with content is not read as empty, unless the read is   *)
(* partial or the first compaction runs meanwhile; and a read shows all    *)
(* that was stored when it began, provided fewer objects are lost and      *)
(* compactions run meanwhile than versions are kept.                       *)
(***************************************************************************)
EXTENDS ContentRead, FiniteSetTheorems, TLAPS

\* What a read is never told: a file's first compaction while it runs.
NotFirst == "first" \notin env

NotEmpty == at = "done" /\ began > 0 => content # {}

\* The newest version keeps its row, and without a version nothing is pruned; an edit
\* builds on an earlier one.
StoreInv ==
  /\ last \in Nat /\ pruned \in Nat
  /\ origin \in Seq(Nat) /\ Len(origin) = last /\ \A n \in 1..last : origin[n] < n
  /\ snaps \in Seq(Nat \ {0}) /\ rows \subseteq Versions
  /\ \A v \in Versions : snaps[v] <= last
  /\ snaps # <<>> => Len(snaps) \in rows
  /\ snaps = <<>> => pruned = 0
  /\ writer = "prune" => snaps # <<>>
  /\ writer = "create" => last # 0

\* Where a read is says what it has found: no version was listed, or one was
\* read, or none of those listed could be.
ReadInv ==
  /\ began \in Nat /\ began <= last
  /\ list \subseteq Versions /\ base \in Versions \cup {0}
  /\ at \in {"list", "get", "bare"} => base = 0 /\ content = {}
  /\ at = "tail" => IF base = 0 THEN snaps = <<>> /\ content = {} ELSE content = 1..snaps[base]
  /\ NotEmpty

IInv == StoreInv /\ ReadInv

\* Versions are only added.
LEMMA VersionsGrow ==
  ASSUME snaps \in Seq(Nat \ {0}), last \in Nat \ {0}, snaps' = Append(snaps, last)
  PROVE  /\ snaps' \in Seq(Nat \ {0}) /\ snaps' # <<>>
         /\ Len(snaps') = Len(snaps) + 1 /\ Len(snaps) \in Nat
         /\ Versions' = Versions \cup {Len(snaps) + 1}
         /\ \A v \in Versions : snaps'[v] = snaps[v]
         /\ snaps'[Len(snaps) + 1] = last
BY DEF Versions

\* The room's steps keep the store in order.
LEMMA StoreStep ==
  ASSUME StoreInv, [Next]_vars
  PROVE  StoreInv'
<1> USE LimitAssumption
<1> Len(snaps) \in Nat
  BY DEF StoreInv
<1>1. CASE Flush
  <2>1. PICK n \in 0..last : origin' = Append(origin, n)
    BY <1>1 DEF Flush
  <2>2. n \in Nat /\ n < last + 1 /\ last' = last + 1 /\ last' \in Nat
    BY <1>1 DEF Flush, StoreInv
  <2>3. origin' \in Seq(Nat) /\ Len(origin') = last'
    BY <2>1, <2>2 DEF StoreInv
  <2>4. \A k \in 1..last' : origin'[k] < k
    <3>1. ASSUME NEW k \in 1..last, k \in 1..(last + 1)
          PROVE  origin'[k] = origin[k]
      BY <2>1, <2>2, <3>1 DEF StoreInv
    <3>2. origin'[last + 1] = n
      BY <2>1, <2>2 DEF StoreInv
    <3>3. \A k \in 1..last : origin[k] < k
      BY DEF StoreInv
    <3>4. \A k \in 1..last' : k \in 1..last \/ k = last + 1
      BY <2>2 DEF StoreInv
    <3>5. \A k \in 1..last : k \in 1..(last + 1)
      BY DEF StoreInv
    <3> QED
      BY <2>2, <3>1, <3>2, <3>3, <3>4, <3>5
  <2>5. UNCHANGED <<pruned, snaps, rows, writer, Versions>> /\ writer = "idle"
    BY <1>1 DEF Flush, Versions
  <2>6. \A v \in Versions' : snaps'[v] <= last'
    BY <2>2, <2>5 DEF StoreInv, Versions
  <2> QED
    BY <2>2, <2>3, <2>4, <2>5, <2>6 DEF StoreInv
<1>2. CASE Create
  <2>1. last \in Nat \ {0}
    BY <1>2 DEF Create, StoreInv
  <2>2. snaps \in Seq(Nat \ {0}) /\ snaps' = Append(snaps, last)
    BY <1>2 DEF Create, StoreInv
  <2>3. /\ snaps' \in Seq(Nat \ {0}) /\ snaps' # <<>>
        /\ Len(snaps') = Len(snaps) + 1
        /\ Versions' = Versions \cup {Len(snaps) + 1}
        /\ \A v \in Versions : snaps'[v] = snaps[v]
        /\ snaps'[Len(snaps) + 1] = last
    BY <2>1, <2>2, VersionsGrow
  <2>4. UNCHANGED <<last, pruned, origin>> /\ rows' = rows \cup {Len(snaps) + 1} /\ writer' # "create"
    BY <1>2 DEF Create
  <2>5. \A v \in Versions' : snaps'[v] <= last'
    BY <2>1, <2>3, <2>4 DEF StoreInv
  <2>6. rows' \subseteq Versions' /\ Len(snaps') \in rows'
    BY <2>3, <2>4 DEF StoreInv
  <2> QED
    BY <2>3, <2>4, <2>5, <2>6 DEF StoreInv
<1>3. CASE Prune
  <2>1. PICK v \in rows : pruned' \in {pruned, IF snaps[v] > pruned THEN snaps[v] ELSE pruned}
    BY <1>3 DEF Prune
  <2>2. snaps[v] \in Nat
    BY <2>1 DEF StoreInv, Versions
  <2> QED
    BY <1>3, <2>1, <2>2 DEF Prune, StoreInv, Versions
<1>4. CASE ExpireRow
  <2>1. snaps # <<>> => Len(snaps) \notin Expired
    BY DEF Expired, Kept, Versions, StoreInv
  <2> QED
    BY <1>4, <2>1 DEF ExpireRow, StoreInv, Versions
<1>5. CASE Put
  <2>1. last # 0
    BY <1>5 DEF Put, Upto, StoreInv, Versions
  <2> QED
    BY <1>5, <2>1 DEF Put, store, StoreInv, Versions
<1>6. CASE UNCHANGED <<last, pruned, origin, snaps, rows>> /\ (writer' = writer \/ writer' = "idle")
  BY <1>6 DEF StoreInv, Versions
<1> QED
  BY <1>1, <1>2, <1>3, <1>4, <1>5, <1>6
  DEF Next, CreateFails, ExpireObject, Compacted, LoseObject, Begin, List, Get, NoBase, ReadTail, vars, store

\* A read that begins with a stretch of the log shows at least that.
LEMMA ShownFromStart ==
  ASSUME StoreInv, NEW n \in 0..last, NEW S, 1..n \subseteq S
  PROVE  1..n \subseteq Shown(S)
<1>1. \A k \in 1..n : origin[k] \in (1..n) \cup {0}
  <2> SUFFICES ASSUME NEW k \in 1..n
               PROVE  origin[k] \in (1..n) \cup {0}
    OBVIOUS
  <2>1. k \in 1..last /\ origin[k] < k /\ origin[k] \in Nat
    BY DEF StoreInv
  <2> QED
    BY <2>1
<1> QED
  BY <1>1 DEF Shown

\* An edit that is shown was read.
LEMMA ShownWasRead == \A S : Shown(S) \subseteq S
BY DEF Shown

\* So do they keep what a read relies on, and the read's own steps.
LEMMA ReadStep ==
  ASSUME NotFirst, IInv, [Next]_vars
  PROVE  ReadInv'
<1> USE DEF IInv
<1> Len(snaps) \in Nat
  BY DEF StoreInv
<1>1. CASE Flush
  BY <1>1 DEF Flush, read, StoreInv, ReadInv, NotEmpty, Versions
<1>2. CASE Create
  <2>1. last \in Nat \ {0}
    BY <1>2 DEF Create, StoreInv
  <2>2. Versions \subseteq Versions' /\ \A v \in Versions : snaps'[v] = snaps[v]
    BY <1>2, <2>1, VersionsGrow DEF Create, StoreInv
  <2>3. at = "tail" => snaps # <<>>
    BY <1>2 DEF Create, Reading, NotFirst
  <2> QED
    BY <1>2, <2>2, <2>3 DEF Create, read, ReadInv, NotEmpty
<1>3. CASE \/ Put \/ CreateFails \/ Prune \/ ExpireObject \/ ExpireRow \/ Compacted \/ LoseObject
           \/ UNCHANGED vars
  BY <1>3 DEF Put, CreateFails, Prune, ExpireObject, ExpireRow, Compacted, LoseObject, vars, store,
              read, ReadInv, NotEmpty, Versions
<1>4. CASE Begin
  BY <1>4 DEF Begin, store, StoreInv, ReadInv, NotEmpty, Versions
<1>5. CASE List
  <2>1. rows = {} => snaps = <<>>
    BY DEF StoreInv
  <2> QED
    BY <1>5, <2>1 DEF List, store, StoreInv, ReadInv, NotEmpty, Versions
<1>6. CASE Get
  <2>1. at = "get" /\ UNCHANGED <<last, snaps, began>> /\ list' \subseteq Versions
    BY <1>6 DEF Get, store, ReadInv
  <2>2. CASE UNCHANGED <<base, content, at>>
    BY <2>1, <2>2 DEF ReadInv, NotEmpty, Versions
  <2>3. CASE at' = "tail" /\ \E v \in list : base' = v /\ content' = 1..snaps[v]
    <3>1. PICK v \in list : base' = v /\ content' = 1..snaps[v]
      BY <2>3
    <3>2. v \in Versions
      BY DEF ReadInv
    <3>3. base' # 0
      BY <3>1, <3>2 DEF Versions
    <3> QED
      BY <2>1, <2>3, <3>1, <3>2, <3>3 DEF ReadInv, NotEmpty, Versions
  <2> QED
    BY <1>6, <2>2, <2>3 DEF Get
<1>7. CASE NoBase
  BY <1>7 DEF NoBase, store, ReadInv, NotEmpty, Versions
<1>8. CASE ReadTail
  <2>1. /\ UNCHANGED <<last, snaps, began, list, base>>
        /\ at' \in {"done", "partial", "refused"}
    BY <1>8 DEF ReadTail, store
  <2> DEFINE S == content \cup TailFrom(Upto(base))
  <2>2. content' = Shown(S)
    BY <1>8 DEF ReadTail
  <2>3. began > 0 /\ at' = "done" => content' # {}
    <3>1. CASE at = "tail" /\ base # 0
      <4>1. snaps[base] \in 1..last /\ content = 1..snaps[base]
        BY <3>1 DEF ReadInv, StoreInv, Versions
      <4>2. 1..snaps[base] \subseteq Shown(S) /\ 1 \in 1..snaps[base]
        <5>1. 1..snaps[base] \subseteq S /\ snaps[base] \in 0..last /\ snaps[base] >= 1
          BY <4>1 DEF StoreInv
        <5> HIDE DEF S
        <5>2. 1..snaps[base] \subseteq Shown(S)
          BY <5>1, ShownFromStart
        <5> QED
          BY <4>1, <5>1, <5>2 DEF StoreInv
      <4> QED
        BY <2>2, <4>2
    <3>2. CASE base = 0 /\ pruned = 0 /\ began > 0
      <4>1. last \in Nat /\ last >= 1
        BY <3>2 DEF ReadInv, StoreInv
      <4>2. 1..last \subseteq S
        BY <3>2, <4>1 DEF TailFrom, Log, Upto
      <4>3. 1..last \subseteq Shown(S) /\ 1 \in 1..last
        BY <4>1, <4>2, ShownFromStart
      <4> QED
        BY <2>2, <4>3
    <3>3. at = "tail" /\ base = 0 => pruned = 0
      BY DEF ReadInv, StoreInv
    <3>4. at = "bare" /\ at' = "done" => base = 0 /\ pruned = 0
      BY <1>8 DEF ReadTail, ReadInv
    <3> QED
      BY <1>8, <3>1, <3>2, <3>3, <3>4 DEF ReadTail
  <2> HIDE DEF S
  <2> QED
    BY <2>1, <2>3 DEF ReadInv, NotEmpty, Versions
<1> QED
  BY <1>1, <1>2, <1>3, <1>4, <1>5, <1>6, <1>7, <1>8 DEF Next

\* What may happen is fixed when a behaviour begins.
LEMMA EnvStays == [Next]_vars => env' = env
BY DEF Next, Flush, Put, Create, CreateFails, Prune, ExpireObject, ExpireRow, Compacted, LoseObject, Begin, List,
       Get, NoBase, ReadTail, vars

LEMMA IInvInit == Init => IInv
BY DEF Init, IInv, StoreInv, ReadInv, NotEmpty, Versions

LEMMA IInvStep == NotFirst /\ IInv /\ [Next]_vars => IInv'
BY StoreStep, ReadStep DEF IInv

\* A file with content is not read as empty: FilesService.loadDocument finds a
\* version, or the whole log, or refuses, whatever the room prunes and expires between
\* its three queries; the exception is a partial read.
THEOREM ReadNeverEmpty == Spec => []NeverEmpty
<1> DEFINE Inv == NotFirst => IInv
<1>1. Init => Inv
  BY IInvInit
<1>2. Inv /\ [Next]_vars => Inv'
  BY IInvStep, EnvStays DEF NotFirst
<1>3. Inv => NeverEmpty
  BY DEF IInv, ReadInv, NotEmpty, NotFirst, NeverEmpty
<1> QED
  BY <1>1, <1>2, <1>3, PTL DEF Spec

-----------------------------------------------------------------------------
(* A read without lost objects: it shows all that was stored when it began. *)

Plain == env = {}

\* The versions kept that are unreadable, and the readable ones that the read will not
\* try.
Lost == Kept \ objects
Missed == (Kept \cap objects) \ list

\* Versions cover more and more rows, those within the limit keep their rows and
\* nothing behind them is pruned, and some of them can be read even after what goes
\* on during a read.
KeptInv ==
  /\ \A v, w \in Versions : v <= w => snaps[v] <= snaps[w]
  /\ \A v \in Versions : snaps[v] <= last
  /\ Kept \subseteq rows /\ objects \subseteq Versions /\ pruned <= last
  /\ \A v \in Kept : pruned <= snaps[v]
  /\ snaps # <<>> => objects # {}
  /\ during \in Nat /\ during + Cardinality(Lost) < Limit

\* A read misses only versions recorded since it began; what it has read is a version
\* within the limit, than which it listed none that is newer.
WholeInv ==
  /\ at = "get" => list \cap objects # {}
  /\ at = "get" \/ (at = "tail" /\ base # 0) => Cardinality(Missed) <= during
  /\ at = "tail" /\ base # 0 =>
       base \in Kept /\ content = 1..snaps[base] /\ \A v \in list : v <= base
  /\ at = "tail" /\ base = 0 => snaps = <<>>
  /\ at # "bare"
  /\ at = "done" => 1..began \subseteq content

LEMMA KeptTypes ==
  ASSUME StoreInv
  PROVE  /\ Len(snaps) \in Nat /\ Limit \in Nat \ {0}
         /\ IsFiniteSet(Versions) /\ Versions \subseteq Nat \ {0}
         /\ \A v \in Versions : v <= Len(snaps) /\ snaps[v] \in Nat
         /\ Kept \subseteq Versions /\ Lost \subseteq Versions /\ Missed \subseteq Versions
         /\ \A S \in SUBSET Versions : IsFiniteSet(S) /\ Cardinality(S) \in Nat
<1>1. Len(snaps) \in Nat /\ Limit \in Nat \ {0}
  BY LimitAssumption DEF StoreInv
<1>2. IsFiniteSet(Versions)
  BY <1>1, FS_Interval DEF Versions
<1>3. \A S \in SUBSET Versions : IsFiniteSet(S) /\ Cardinality(S) \in Nat
  BY <1>2, FS_Subset, FS_CardinalityType
<1> QED
  BY <1>1, <1>2, <1>3 DEF Versions, Kept, Lost, Missed, StoreInv

LEMMA UnionBound ==
  ASSUME NEW S, IsFiniteSet(S), NEW T, IsFiniteSet(T)
  PROVE  /\ IsFiniteSet(S \cup T) /\ Cardinality(S \cup T) \in Nat
         /\ Cardinality(S \cup T) <= Cardinality(S) + Cardinality(T)
<1>1. IsFiniteSet(S \cap T)
  BY FS_Subset
<1>2. Cardinality(S) \in Nat /\ Cardinality(T) \in Nat /\ Cardinality(S \cap T) \in Nat
  BY <1>1, FS_CardinalityType
<1>3. IsFiniteSet(S \cup T) /\ Cardinality(S \cup T) = Cardinality(S) + Cardinality(T) - Cardinality(S \cap T)
  BY FS_Union
<1>4. Cardinality(S \cup T) \in Nat
  BY <1>3, FS_CardinalityType
<1> QED
  BY <1>2, <1>3, <1>4

\* When there are as many versions as are kept, all but a few are among the S.
LEMMA MostAreKept ==
  ASSUME StoreInv, Len(snaps) >= Limit,
         NEW S, S \subseteq Versions, NEW T, T \subseteq Versions,
         Cardinality(S) + Cardinality(T) < Limit
  PROVE  \E v \in Kept : v \notin S /\ v \notin T
<1> SUFFICES ASSUME \A v \in Kept : v \in S \cup T
             PROVE  FALSE
  OBVIOUS
<1>1. Kept = (Len(snaps) - Limit + 1)..Len(snaps)
  BY KeptTypes DEF Kept, Versions
<1>2. Cardinality(Kept) = Limit
  BY <1>1, KeptTypes, FS_Interval
<1>3. IsFiniteSet(S) /\ IsFiniteSet(T) /\ Cardinality(S) \in Nat /\ Cardinality(T) \in Nat
  BY KeptTypes
<1>4. IsFiniteSet(S \cup T) /\ Cardinality(S \cup T) <= Cardinality(S) + Cardinality(T)
  BY <1>3, UnionBound
<1>5. Cardinality(Kept) <= Cardinality(S \cup T)
  BY <1>4, FS_Subset
<1>6. Cardinality(S \cup T) \in Nat /\ Limit \in Nat
  BY <1>4, KeptTypes, FS_CardinalityType
<1> QED
  BY <1>2, <1>3, <1>4, <1>5, <1>6

\* Some version within the limit can be read,
LEMMA SomeIsReadable ==
  ASSUME StoreInv, KeptInv, snaps # <<>>
  PROVE  Kept \cap objects # {}
<1>1. CASE Len(snaps) >= Limit
  <2>1. Lost \subseteq Versions /\ {} \subseteq Versions /\ Cardinality({}) = 0
    BY KeptTypes, FS_EmptySet
  <2>2. Cardinality(Lost) + 0 < Limit
    BY KeptTypes DEF KeptInv
  <2> QED
    BY <1>1, <2>1, <2>2, MostAreKept DEF Lost
<1>2. CASE Len(snaps) < Limit
  BY <1>2, KeptTypes DEF KeptInv, StoreInv, Kept
<1> QED
  BY <1>1, <1>2, KeptTypes

\* and is among those that the read has yet to try.
LEMMA SomeIsListed ==
  ASSUME StoreInv, KeptInv, WholeInv, at = "get"
  PROVE  Kept \cap objects \cap list # {}
<1>1. CASE Len(snaps) >= Limit
  <2>1. Lost \subseteq Versions /\ Missed \subseteq Versions
    BY KeptTypes
  <2>2. Cardinality(Lost) + Cardinality(Missed) < Limit
    BY KeptTypes DEF KeptInv, WholeInv
  <2> QED
    BY <1>1, <2>1, <2>2, MostAreKept DEF Lost, Missed
<1>2. CASE Len(snaps) < Limit
  BY <1>2, KeptTypes DEF KeptInv, WholeInv, StoreInv, Kept
<1> QED
  BY <1>1, <1>2, KeptTypes

\* A step that records no version and makes none unreadable that is kept.
LEMMA NothingIsLost ==
  ASSUME StoreInv, StoreInv', KeptInv, snaps' = snaps, last <= last', last' \in Nat,
         rows' \subseteq rows, objects' \subseteq objects,
         \A v \in Kept : v \in rows' /\ (v \in objects => v \in objects'),
         pruned' <= last', \A v \in Kept : pruned' <= snaps[v],
         during' \in Nat, during' <= during
  PROVE  KeptInv'
<1>1. Kept' = Kept /\ Lost' = Lost /\ Versions' = Versions
  BY DEF Kept, Lost, Versions
<1>2. snaps # <<>> => objects' # {}
  BY SomeIsReadable
<1>3. \A v \in Versions' : snaps'[v] <= last'
  BY <1>1, KeptTypes DEF KeptInv, StoreInv
<1>4. during' + Cardinality(Lost') < Limit
  BY <1>1, KeptTypes DEF KeptInv
<1> QED
  BY <1>1, <1>2, <1>3, <1>4, KeptTypes DEF KeptInv

LEMMA KeptFlush ==
  ASSUME StoreInv, StoreInv', KeptInv, Flush
  PROVE  KeptInv'
BY NothingIsLost, KeptTypes DEF Flush, KeptInv, StoreInv

\* A new version covers all rows, and the one it takes the place of none that others
\* need.
LEMMA RecordGrows ==
  ASSUME StoreInv, KeptInv, Plain, Create
  PROVE  /\ Versions' = Versions \cup {Len(snaps) + 1} /\ Len(snaps') = Len(snaps) + 1
         /\ \A v \in Versions : snaps'[v] = snaps[v]
         /\ snaps'[Len(snaps) + 1] = last
         /\ Kept' \subseteq Kept \cup {Len(snaps) + 1}
         /\ Lost' \subseteq Lost
         /\ Cardinality(Lost') <= Cardinality(Lost)
         /\ Reading => during + Cardinality(Lost) < Limit - 1
<1>1. last \in Nat \ {0} /\ snaps' = Append(snaps, last)
  BY DEF Create, StoreInv
<1>2. /\ Versions' = Versions \cup {Len(snaps) + 1} /\ Len(snaps') = Len(snaps) + 1
      /\ \A v \in Versions : snaps'[v] = snaps[v]
      /\ snaps'[Len(snaps) + 1] = last
  BY <1>1, VersionsGrow DEF StoreInv
<1>3. Kept' \subseteq Kept \cup {Len(snaps) + 1}
  BY <1>2, KeptTypes DEF Kept
<1>4. Lost' \subseteq Lost
  BY <1>3 DEF Lost, Create
<1>5. Cardinality(Lost') <= Cardinality(Lost)
  BY <1>4, KeptTypes, FS_Subset
<1>6. Reading => during + Cardinality(Lost) < Limit - 1
  BY DEF Create, Unreadable, Trouble, Plain, Lost
<1> QED
  BY <1>2, <1>3, <1>4, <1>5, <1>6

LEMMA KeptRecord ==
  ASSUME StoreInv, StoreInv', KeptInv, Plain, Create
  PROVE  KeptInv'
<1> USE KeptTypes, RecordGrows
<1>1. UNCHANGED <<last, pruned>> /\ last \in Nat /\ pruned \in Nat
  BY DEF Create, StoreInv
<1>2. \A v, w \in Versions' : v <= w => snaps'[v] <= snaps'[w]
  BY <1>1 DEF KeptInv
<1>3. \A v \in Versions' : snaps'[v] <= last'
  BY <1>1 DEF KeptInv
<1>4. Kept' \subseteq rows' /\ objects' \subseteq Versions' /\ objects' # {}
  BY DEF KeptInv, Create
<1>5. \A v \in Kept' : pruned' <= snaps'[v]
  BY <1>1 DEF KeptInv
<1>6. during' \in Nat /\ during' + Cardinality(Lost') < Limit
  <2>1. Cardinality(Lost') \in Nat /\ Cardinality(Lost) \in Nat
    BY FS_Subset, FS_CardinalityType
  <2> QED
    BY <2>1 DEF KeptInv, Create
<1> QED
  BY <1>1, <1>2, <1>3, <1>4, <1>5, <1>6 DEF KeptInv

\* The rows the oldest version kept includes are in each that is within the limit.
LEMMA KeptPrune ==
  ASSUME StoreInv, StoreInv', KeptInv, Prune
  PROVE  KeptInv'
<1> USE KeptTypes
<1>1. PICK v \in rows : /\ OldestKept(v)
                        /\ pruned' \in {pruned, IF snaps[v] > pruned THEN snaps[v] ELSE pruned}
  BY DEF Prune
<1>2. v \in Versions
  BY DEF StoreInv
<1>3. \A w \in Kept : w \in NewestOf(rows)
  <2> SUFFICES ASSUME NEW w \in Kept
               PROVE  Cardinality({x \in rows : x > w}) < Limit
    BY DEF NewestOf, KeptInv
  <2>1. {x \in rows : x > w} \subseteq (w + 1)..Len(snaps)
    BY DEF StoreInv, Kept
  <2>2. IsFiniteSet((w + 1)..Len(snaps)) /\ Cardinality((w + 1)..Len(snaps)) = Len(snaps) - w
    <3>1. w + 1 \in Int /\ w <= Len(snaps) /\ Len(snaps) \in Int
      BY DEF Kept
    <3> QED
      BY <3>1, FS_Interval
  <2>3. Cardinality({x \in rows : x > w}) \in Nat
    BY DEF StoreInv
  <2> QED
    BY <2>1, <2>2, <2>3, FS_Subset DEF Kept
<1>4. \A w \in Kept : snaps[v] <= snaps[w]
  BY <1>1, <1>2, <1>3 DEF OldestKept, KeptInv
<1>5. snaps[v] <= last
  BY <1>2 DEF KeptInv
<1>6. pruned' <= last /\ \A w \in Kept : pruned' <= snaps[w]
  BY <1>1, <1>2, <1>4, <1>5 DEF KeptInv, StoreInv
<1>7. UNCHANGED <<last, snaps, rows, objects, during>>
  BY DEF Prune
<1> QED
  BY <1>6, <1>7, NothingIsLost DEF KeptInv, StoreInv

\* What expires is outside the limit.
LEMMA KeptExpire ==
  ASSUME StoreInv, StoreInv', KeptInv, ExpireObject \/ ExpireRow
  PROVE  KeptInv'
<1> USE KeptTypes
<1>1. \A v \in Expired : v \notin Kept
  BY DEF Expired, Kept, StoreInv
<1>2. CASE ExpireObject
  BY <1>1, <1>2, NothingIsLost DEF ExpireObject, KeptInv, StoreInv
<1>3. CASE ExpireRow
  BY <1>1, <1>3, NothingIsLost DEF ExpireRow, KeptInv, StoreInv
<1> QED
  BY <1>2, <1>3

LEMMA KeptLose ==
  ASSUME StoreInv, StoreInv', ReadInv, KeptInv, Plain, LoseObject
  PROVE  KeptInv'
<1> USE KeptTypes
<1>1. PICK v \in objects : /\ objects' = objects \ {v}
                           /\ ((IF at = "get" THEN list ELSE rows) \cap objects) \ {v} # {}
  BY DEF LoseObject, Plain
<1>2. objects' # {}
  BY <1>1
<1>3. Kept' = Kept /\ Versions' = Versions /\ Lost' \subseteq Lost \cup {v}
  BY <1>1 DEF LoseObject, Kept, Versions, Lost
<1>4. during + Cardinality(Lost) < Limit - 1
  BY DEF LoseObject, Unreadable, Trouble, Plain, Lost
<1>5. Cardinality(Lost') <= Cardinality(Lost) + 1 /\ Cardinality(Lost') \in Nat
  <2>1. /\ IsFiniteSet(Lost \cup {v})
        /\ Cardinality(Lost \cup {v}) <= Cardinality(Lost) + 1
    BY FS_AddElement
  <2>2. Cardinality(Lost') <= Cardinality(Lost \cup {v}) /\ IsFiniteSet(Lost')
    BY <1>3, <2>1, FS_Subset
  <2> QED
    BY <2>1, <2>2, FS_CardinalityType
<1> QED
  <2>1. UNCHANGED <<last, pruned, snaps, rows, during>>
    BY DEF LoseObject
  <2>2. during \in Nat /\ Cardinality(Lost) \in Nat
    BY DEF KeptInv
  <2>3. during' + Cardinality(Lost') < Limit
    BY <1>4, <1>5, <2>1, <2>2
  <2>4. objects' \subseteq Versions
    BY <1>1 DEF KeptInv
  <2> QED
    BY <1>2, <1>3, <2>1, <2>3, <2>4 DEF KeptInv

LEMMA KeptStep ==
  ASSUME Plain, StoreInv, StoreInv', ReadInv, KeptInv, [Next]_vars
  PROVE  KeptInv'
<1>1. CASE UNCHANGED <<store, during>>
  BY <1>1 DEF store, KeptInv, Kept, Lost, Versions
<1>2. CASE Begin
  <2>1. UNCHANGED store /\ during' = 0
    BY <1>2 DEF Begin
  <2>2. UNCHANGED <<Kept, Lost, Versions>>
    BY <2>1 DEF store, Kept, Lost, Versions
  <2> QED
    BY <2>1, <2>2, KeptTypes DEF store, KeptInv
<1> QED
  BY <1>1, <1>2, KeptFlush, KeptRecord, KeptPrune, KeptExpire, KeptLose
  DEF Next, vars, Put, CreateFails, Compacted, List, Get, NoBase, ReadTail

\* A step of the room that records no version and makes none unreadable that is kept.
LEMMA ReadGoesOn ==
  ASSUME StoreInv, StoreInv', KeptInv, WholeInv, UNCHANGED <<snaps, read>>,
         objects' \subseteq objects, during' = during,
         at = "get" => list \cap objects' # {}
  PROVE  WholeInv'
<1>1. Kept' = Kept /\ Missed' \subseteq Missed /\ Missed \subseteq Versions
  BY KeptTypes DEF read, Kept, Missed, Versions
<1>2. Cardinality(Missed') <= Cardinality(Missed) /\ Cardinality(Missed') \in Nat
  BY <1>1, KeptTypes, FS_Subset
<1> QED
  BY <1>1, <1>2, KeptTypes DEF read, KeptInv, WholeInv

\* A version that is recorded meanwhile is one more that the read misses.
LEMMA WholeRecord ==
  ASSUME Plain, StoreInv, StoreInv', ReadInv, KeptInv, WholeInv, Create
  PROVE  WholeInv'
<1> USE KeptTypes, RecordGrows
<1>1. UNCHANGED read /\ objects \subseteq objects'
  BY DEF Create
<1>2. Missed' \subseteq Missed \cup {Len(snaps) + 1}
  BY <1>1 DEF Missed, Create, read
<1>3. Cardinality(Missed') <= Cardinality(Missed) + 1 /\ Cardinality(Missed') \in Nat
  <2>1. /\ IsFiniteSet(Missed \cup {Len(snaps) + 1})
        /\ Cardinality(Missed \cup {Len(snaps) + 1}) <= Cardinality(Missed) + 1
    <3>1. IsFiniteSet(Missed) /\ Cardinality(Missed) \in Nat
      OBVIOUS
    <3> QED
      BY <3>1, FS_AddElement
  <2>2. Cardinality(Missed') <= Cardinality(Missed \cup {Len(snaps) + 1}) /\ IsFiniteSet(Missed')
    BY <1>2, <2>1, FS_Subset
  <2> QED
    BY <2>1, <2>2, FS_CardinalityType
<1>4. Reading => during' = during + 1 /\ during \in Nat
  BY DEF Create, KeptInv
<1>5. ~(at = "tail" /\ base = 0)
  BY DEF Create, Reading, Plain, WholeInv
<1>6. ASSUME at = "tail" /\ base # 0
      PROVE  base \in Kept' /\ snaps'[base] = snaps[base]
  <2>1. base \in Kept /\ base \in Versions /\ \A v \in list : v <= base
    BY <1>6 DEF WholeInv
  <2>2. during + Cardinality(Lost) < Limit - 1 /\ Cardinality(Missed) <= during
    BY <1>6 DEF Reading, WholeInv
  <2> DEFINE Newer == (base + 1)..Len(snaps)
  <2>3. Newer \subseteq Lost \cup Missed
    BY <2>1 DEF Kept, Versions, Lost, Missed
  <2>4. IsFiniteSet(Newer) /\ Cardinality(Newer) = Len(snaps) - base
    <3>1. base \in Int /\ base <= Len(snaps) /\ Len(snaps) \in Int
      BY <2>1
    <3>2. base + 1 \in Int
      BY <3>1
    <3>3. /\ IsFiniteSet((base + 1)..Len(snaps))
          /\ Cardinality((base + 1)..Len(snaps)) =
               IF base + 1 > Len(snaps) THEN 0 ELSE Len(snaps) - (base + 1) + 1
      BY ONLY <3>1, <3>2, FS_Interval
    <3> QED
      BY ONLY <3>1, <3>3
  <2>5. /\ IsFiniteSet(Lost \cup Missed)
        /\ Cardinality(Lost \cup Missed) <= Cardinality(Lost) + Cardinality(Missed)
    BY UnionBound
  <2>6. Cardinality(Newer) <= Cardinality(Lost \cup Missed)
    BY <2>3, <2>5, FS_Subset
  <2>7. Cardinality(Lost \cup Missed) \in Nat
    BY <2>5, FS_CardinalityType
  <2>8. Len(snaps) - base < Limit - 1
    <3>1. /\ Cardinality(Lost) \in Nat /\ Cardinality(Missed) \in Nat /\ during \in Nat
          /\ Len(snaps) - base \in Int /\ Limit \in Nat
      BY <2>1 DEF KeptInv
    <3> QED
      BY ONLY <2>2, <2>4, <2>5, <2>6, <2>7, <3>1
  <2> QED
    BY <2>1, <2>8 DEF Kept
<1> QED
  BY <1>1, <1>3, <1>4, <1>5, <1>6 DEF read, Reading, WholeInv

\* The newest version that can be read is within the limit.
LEMMA WholeGet ==
  ASSUME StoreInv, StoreInv', ReadInv, KeptInv, WholeInv, Get
  PROVE  WholeInv'
<1> USE KeptTypes
<1>1. PICK v \in list :
        /\ \A w \in list : w <= v
        /\ IF v \in objects
             THEN base' = v /\ content' = 1..snaps[v] /\ at' = "tail" /\ list' = list
             ELSE list' = list \ {v} /\ UNCHANGED <<base, content, at>>
  BY DEF Get
<1>2. at = "get" /\ UNCHANGED <<store, began, during>> /\ v \in Versions
  BY <1>1 DEF Get, ReadInv
<1>3. Kept' = Kept
  BY <1>2 DEF store, Kept, Versions
<1>4. CASE v \in objects
  <2>1. PICK w \in Kept : w \in list
    BY <1>2, SomeIsListed
  <2>2. v \in Kept /\ v # 0
    BY <1>1, <1>2, <2>1 DEF Kept
  <2>3. Missed' = Missed
    BY <1>1, <1>2, <1>3, <1>4 DEF store, Missed
  <2> QED
    BY <1>1, <1>2, <1>3, <1>4, <2>2, <2>3 DEF store, WholeInv
<1>5. CASE v \notin objects
  <2>1. Missed' = Missed /\ list' \cap objects' = list \cap objects
    BY <1>1, <1>2, <1>3, <1>5 DEF store, Missed
  <2> QED
    BY <1>1, <1>2, <1>5, <2>1 DEF WholeInv
<1> QED
  BY <1>4, <1>5

\* The version that was read and the log after it are all that was written.
LEMMA WholeTail ==
  ASSUME StoreInv, ReadInv, KeptInv, WholeInv, ReadTail
  PROVE  WholeInv'
<1> USE KeptTypes
<1>1. at = "tail" /\ at' = "done" /\ UNCHANGED began
  BY DEF ReadTail, WholeInv
<1> DEFINE S == content \cup {r \in (pruned + 1)..last : r > Upto(base)}
<1>2. content' = Shown(S)
  BY DEF ReadTail, TailFrom, Log
<1>3. 1..last \subseteq S
  <2>1. CASE base = 0
    <3>1. pruned = 0
      BY <1>1, <2>1 DEF WholeInv, StoreInv
    <3> QED
      BY <2>1, <3>1 DEF Upto, StoreInv
  <2>2. CASE base # 0
    <3>1. Upto(base) = snaps[base] /\ pruned <= snaps[base] /\ content = 1..snaps[base]
      BY <1>1, <2>2 DEF Upto, WholeInv, KeptInv
    <3>2. snaps[base] \in Nat /\ pruned \in Nat /\ last \in Nat
      BY <1>1, <2>2 DEF WholeInv, StoreInv
    <3> QED
      BY <3>1, <3>2
  <2> QED
    BY <2>1, <2>2
<1> HIDE DEF S
<1>4. 1..last \subseteq content'
  <2>1. last \in 0..last
    BY DEF StoreInv
  <2> QED
    BY <1>2, <1>3, <2>1, ShownFromStart
<1> QED
  BY <1>1, <1>4 DEF WholeInv, ReadInv, StoreInv

LEMMA WholeStep ==
  ASSUME Plain, StoreInv, StoreInv', ReadInv, KeptInv, WholeInv, [Next]_vars
  PROVE  WholeInv'
<1> USE KeptTypes
<1>1. CASE Flush \/ Put \/ CreateFails \/ Prune \/ ExpireRow \/ Compacted \/ UNCHANGED vars
  BY <1>1, ReadGoesOn
  DEF Flush, Put, CreateFails, Prune, ExpireRow, Compacted, vars, store, read, WholeInv
<1>2. CASE ExpireObject
  <2>1. PICK v \in Expired : objects' = objects \ {v}
    BY <1>2 DEF ExpireObject
  <2>2. at = "get" => list \cap objects' # {}
    BY <2>1, SomeIsListed DEF Expired, Kept, StoreInv
  <2> QED
    BY <1>2, <2>1, <2>2, ReadGoesOn DEF ExpireObject
<1>3. CASE LoseObject
  <2>1. PICK v \in objects : /\ objects' = objects \ {v}
                             /\ ((IF at = "get" THEN list ELSE rows) \cap objects) \ {v} # {}
    BY <1>3 DEF LoseObject, Plain
  <2>2. at = "get" => list \cap objects' # {}
    BY <2>1
  <2> QED
    BY <1>3, <2>1, <2>2, ReadGoesOn DEF LoseObject
<1>4. CASE Begin
  BY <1>4 DEF Begin, WholeInv
<1>5. CASE List
  <2>1. list' = rows /\ UNCHANGED <<store, base, during>> /\ at' = IF rows = {} THEN "tail" ELSE "get"
    BY <1>5 DEF List
  <2>2. base = 0
    BY <1>5 DEF List, ReadInv
  <2>3. rows = {} => snaps = <<>>
    BY DEF StoreInv
  <2>4. rows # {} => rows \cap objects # {}
    <3>1. rows # {} => snaps # <<>>
      <4>1. snaps = <<>> => Versions = {}
        BY DEF Versions
      <4> QED
        BY <4>1 DEF StoreInv
    <3>2. snaps # <<>> => Kept \cap objects # {}
      BY SomeIsReadable
    <3> QED
      BY <3>1, <3>2 DEF KeptInv
  <2>5. Missed' = {} /\ Cardinality({}) = 0
    BY <2>1, FS_EmptySet DEF store, Kept, Versions, Missed, KeptInv
  <2> QED
    BY <2>1, <2>2, <2>3, <2>4, <2>5 DEF store, WholeInv, KeptInv
<1>6. CASE NoBase
  BY <1>6 DEF NoBase, WholeInv
<1> QED
  BY <1>1, <1>2, <1>3, <1>4, <1>5, <1>6, WholeRecord, WholeGet, WholeTail DEF Next

LEMMA WholeInit == Init => KeptInv /\ WholeInv
<1> SUFFICES ASSUME Init
             PROVE  KeptInv /\ WholeInv
  OBVIOUS
<1>1. Versions = {} /\ Lost = {}
  BY DEF Init, Versions, Lost, Kept
<1> QED
  BY <1>1, FS_EmptySet, LimitAssumption DEF Init, KeptInv, WholeInv, Kept

\* A content read has every edit that was stored when it began: the version it reads
\* is within the limit for as long as it runs, and the log is only pruned up to the
\* oldest of these (FilesService.loadDocument, pruneOldSnapshots).
THEOREM ReadsAreWhole == Spec => []ReadIsWhole
<1> DEFINE Inv == Plain => IInv /\ KeptInv /\ WholeInv
<1>1. Init => Inv
  BY IInvInit, WholeInit
<1>2. Inv /\ [Next]_vars => Inv'
  <2>1. ASSUME Plain, IInv, KeptInv, WholeInv, [Next]_vars
        PROVE  IInv' /\ KeptInv' /\ WholeInv'
    <3>1. IInv'
      BY <2>1, IInvStep DEF Plain, NotFirst
    <3> QED
      BY <2>1, <3>1, KeptStep, WholeStep DEF IInv
  <2> QED
    BY <2>1, EnvStays DEF Plain
<1>3. Inv => ReadIsWhole
  BY DEF WholeInv, Plain, ReadIsWhole
<1> QED
  BY <1>1, <1>2, <1>3, PTL DEF Spec

=============================================================================
