------------------------- MODULE PartitionLoopProofs -------------------------
(***************************************************************************)
(* The greedy loop of partition_files balances any list over any number of *)
(* streams.  The inductive invariant adds to Balanced that the list is     *)
(* dealt in descending order: what is still to come is no larger than      *)
(* anything a bucket holds, so dealing it to the least loaded bucket       *)
(* cannot exceed that bucket's smallest file.  That the loop computes      *)
(* BucketOf needs more: the loads are the bytes dealt, and every file was  *)
(* dealt in its turn to the bucket that BucketOf names (InTurn).  That no  *)
(* other split is much better is a property of every prefix of the list    *)
(* (WithinGraham), which the lemmas of PartitionProofs carry from one file *)
(* to the next.                                                            *)
(***************************************************************************)
EXTENDS PartitionLoop, PartitionProofs, SequenceTheorems, TLAPS

Descending == \A i \in Dealt, j \in todo : Size(j) <= Size(i)

LoopInv == TypeOK /\ Descending /\ Balanced

\* The saturating subtraction never leaves the naturals.
LEMMA TransferSizeNat ==
    ASSUME NEW f \in [size : Nat, offset : Nat]
    PROVE  TransferSize(f) \in Nat
BY DEF TransferSize

\* Sizes of the positions of a well-typed list.
LEMMA SizeNat ==
    ASSUME files \in Seq([size : Nat, offset : Nat]), NEW i \in DOMAIN files
    PROVE  Size(i) \in Nat
<1>1. files[i] \in [size : Nat, offset : Nat]
    BY ElementOfSeq, LenProperties
<1>2. QED BY <1>1, TransferSizeNat DEF Size

\* Nothing is dealt at first.
LEMMA LoopInvInit == Init => LoopInv
<1> SUFFICES ASSUME Init PROVE LoopInv
    OBVIOUS
<1>1. Dealt = {} BY DEF Init, Dealt
<1>2. TypeOK BY <1>1, FilesAssumption DEF Init, TypeOK
<1>3. QED BY <1>1, <1>2 DEF LoopInv, Descending, Balanced

\* Dealing a file keeps the buckets balanced.
LEMMA LoopInvStep == LoopInv /\ [Next]_vars => LoopInv'
<1> SUFFICES ASSUME LoopInv, [Next]_vars PROVE LoopInv'
    OBVIOUS
<1> USE DEF LoopInv
<1>1. CASE Deal
  <2>1. PICK i \in todo, b \in Buckets :
            /\ IsNext(files, todo, i)
            /\ IsLeastLoaded(load, b)
            /\ load' = [load EXCEPT ![b] = @ + Size(i)]
            /\ bucketOf' = [j \in DOMAIN bucketOf \cup {i} |->
                                IF j = i THEN b ELSE bucketOf[j]]
            /\ todo' = todo \ {i}
            /\ files' = files
      BY <1>1 DEF Deal, Placed
  <2>2. i \in DOMAIN files /\ Dealt' = Dealt \cup {i} /\ i \notin Dealt
      BY <2>1 DEF Dealt, TypeOK
  <2>3. \A j \in DOMAIN files : Size(j)' = Size(j) /\ Size(j) \in Nat
      BY <2>1, SizeNat DEF TypeOK, Size
  <2>4. TypeOK'
    <3>1. load' \in [Buckets -> Nat]
        BY <2>1, <2>2, <2>3 DEF TypeOK
    <3>2. bucketOf' \in [Dealt' -> Buckets]
        BY <2>1, <2>2 DEF TypeOK
    <3>3. QED BY <2>1, <3>1, <3>2 DEF TypeOK
  <2>5. \A j \in todo : Size(j) <= Size(i)
    <3> SUFFICES ASSUME NEW j \in todo, j # i PROVE Size(j) <= Size(i)
        BY <2>2, <2>3
    <3>1. Before(files, i, j)
        BY <2>1 DEF IsNext
    <3>2. QED BY <3>1, <2>2, <2>3 DEF Before, Size, TypeOK
  <2>6. Descending'
    <3> SUFFICES ASSUME NEW k \in Dealt', NEW j \in todo'
                 PROVE  Size(j)' <= Size(k)'
        BY DEF Descending
    <3>1. Size(j)' = Size(j) /\ Size(k)' = Size(k)
        BY <2>1, <2>2, <2>3 DEF TypeOK, Dealt
    <3>2. Size(j) <= Size(k)
        BY <2>1, <2>2, <2>5 DEF Descending
    <3>3. QED BY <3>1, <3>2
  <2>7. \A c \in Buckets : load[b] <= load[c] /\ load[c] \in Nat
      BY <2>1, SMTT(30) DEF IsLeastLoaded, TypeOK
  <2>8. Balanced'
    <3> SUFFICES ASSUME NEW k \in Dealt', NEW c \in Buckets
                 PROVE  load'[bucketOf'[k]] <= load'[c] + Size(k)'
        BY DEF Balanced, Buckets
    <3>0. k \in Dealt \cup {i} /\ Size(k)' = Size(k)
        BY <2>2, <2>3 DEF Dealt
    <3>1. /\ load'[b] = load[b] + Size(i)
          /\ load'[c] = IF c = b THEN load[b] + Size(i) ELSE load[c]
        BY <2>1 DEF TypeOK
    <3>2. k \in DOMAIN files /\ Size(k) \in Nat /\ Size(i) \in Nat
        BY <3>0, <2>2, <2>3 DEF Dealt
    <3>3. CASE k = i
      <4>1. bucketOf'[k] = b BY <2>1, <3>3
      <4>2. QED BY <4>1, <3>0, <3>1, <3>2, <3>3, <2>7
    <3>4. CASE k \in Dealt
      <4>1. bucketOf'[k] = bucketOf[k] /\ bucketOf[k] \in Buckets
          BY <2>1, <2>2, <3>4 DEF TypeOK
      <4>2. load[bucketOf[k]] <= load[c] + Size(k)
          BY <3>4 DEF Balanced
      <4>3. CASE bucketOf[k] = b
        <5>1. Size(i) <= Size(k) BY <2>1, <3>4 DEF Descending
        <5>2. QED BY <4>1, <4>3, <5>1, <3>0, <3>1, <3>2, <2>7
      <4>4. CASE bucketOf[k] # b
        <5>1. load'[bucketOf[k]] = load[bucketOf[k]]
            BY <2>1, <4>1, <4>4 DEF TypeOK
        <5>2. QED BY <4>1, <4>2, <5>1, <3>0, <3>1, <3>2, <2>7
      <4>5. QED BY <4>3, <4>4
    <3>5. QED BY <3>0, <3>3, <3>4
  <2>9. QED BY <2>4, <2>6, <2>8
<1>2. CASE UNCHANGED vars
    BY <1>2 DEF vars, TypeOK, Descending, Balanced, Dealt, Size
<1>3. QED BY <1>1, <1>2 DEF Next, Returned

\* The loop's variables keep their types.
THEOREM LoopTypeOK == Spec => []TypeOK
<1>1. LoopInv => TypeOK BY DEF LoopInv
<1>2. QED BY <1>1, LoopInvInit, LoopInvStep, PTL DEF Spec

\* For every list of files and every number of streams, no file could be
\* moved to another stream to finish earlier (partition_files, both peers).
THEOREM LoopBalanced == Spec => []Balanced
<1>1. LoopInv => Balanced BY DEF LoopInv
<1>2. QED BY <1>1, LoopInvInit, LoopInvStep, PTL DEF Spec

------------------------------------------------------------------------------
(* The loop and the operator.                                                *)

\* The bucket_sizes are what has been dealt, the files dealt come before those
\* to come, and each was put where BucketOf puts it.
Counted ==
    \A b \in Buckets : load[b] = Cardinality(Bytes(files, {j \in Dealt : bucketOf[j] = b}))
InOrder == \A i \in Dealt, j \in todo : Before(files, i, j)
InTurn == DealsOut(files, NumBuckets, bucketOf, Dealt)

DealInv == TypeOK /\ Counted /\ InOrder /\ InTurn

\* The argument of the loop is a list.
LEMMA FilesAreList == TypeOK => IsList(files)
<1> SUFFICES ASSUME TypeOK PROVE IsList(files)
    OBVIOUS
<1>1. DOMAIN files = 1..Len(files) /\ Len(files) \in Nat
    BY LenProperties DEF TypeOK
<1>2. 1 \in Int /\ Len(files) \in Int BY <1>1
<1>3. IsFiniteSet(DOMAIN files) /\ DOMAIN files \subseteq Nat
    BY <1>1, <1>2, FS_Interval
<1>4. \A i \in DOMAIN files : TransferSize(files[i]) \in Nat
    BY SizeNat DEF TypeOK, Size
<1>5. QED BY <1>3, <1>4 DEF IsList

LEMMA DealInvInit == Init => DealInv
<1> SUFFICES ASSUME Init PROVE DealInv
    OBVIOUS
<1>1. TypeOK BY LoopInvInit DEF LoopInv
<1>2. Dealt = {} BY DEF Init, Dealt
<1>3. Counted
  <2>1. \A b : Bytes(files, {j \in Dealt : bucketOf[j] = b}) = {}
      BY <1>2 DEF Bytes
  <2>2. QED BY <2>1, FS_EmptySet DEF Init, Counted
<1>4. QED BY <1>1, <1>2, <1>3 DEF DealInv, InOrder, InTurn, DealsOut

\* Dealing the next file is its turn in BucketOf.
LEMMA DealInvStep == DealInv /\ LoopInv /\ [Next]_vars => DealInv'
<1> SUFFICES ASSUME DealInv, LoopInv, [Next]_vars PROVE DealInv'
    OBVIOUS
<1> USE DEF DealInv
<1>0. TypeOK' BY LoopInvStep DEF LoopInv
<1>1. CASE Deal
  <2>1. PICK i \in todo, b \in Buckets :
            /\ IsNext(files, todo, i)
            /\ IsLeastLoaded(load, b)
            /\ load' = [load EXCEPT ![b] = @ + Size(i)]
            /\ bucketOf' = [j \in DOMAIN bucketOf \cup {i} |->
                                IF j = i THEN b ELSE bucketOf[j]]
            /\ todo' = todo \ {i}
            /\ files' = files
      BY <1>1 DEF Deal, Placed
  <2>2. /\ i \in DOMAIN files /\ Dealt' = Dealt \cup {i} /\ i \notin Dealt
        /\ Dealt \subseteq DOMAIN files /\ DOMAIN files = Dealt \cup todo
        /\ DOMAIN bucketOf = Dealt
      BY <2>1 DEF Dealt, TypeOK
  <2>3. bucketOf'[i] = b /\ \A j \in Dealt : bucketOf'[j] = bucketOf[j]
      BY <2>1, <2>2
  <2>4. IsList(files) BY FilesAreList
  <2>5. \A j \in DOMAIN files : Before(files, j, i) <=> j \in Dealt
      BY <2>1, <2>2, <2>4, BeforeOrder DEF InOrder, IsNext
  <2>6. Counted'
    <3> SUFFICES ASSUME NEW c \in Buckets
                 PROVE  load'[c] = Cardinality(Bytes(files, {j \in Dealt' : bucketOf'[j] = c}))
        BY <2>1 DEF Counted, Buckets
    <3> DEFINE S == {j \in Dealt : bucketOf[j] = c}
    <3>1. S \in SUBSET DOMAIN files /\ i \notin S BY <2>2
    <3>2. load[c] = Cardinality(Bytes(files, S)) BY DEF Counted
    <3>3. CASE c = b
      <4>1. {j \in Dealt' : bucketOf'[j] = c} = S \cup {i} BY <2>2, <2>3, <3>3
      <4>2. load'[c] = load[c] + Size(i) BY <2>1, <3>3 DEF TypeOK
      <4> HIDE DEF S
      <4>3. QED BY <2>2, <2>4, <3>1, <3>2, <4>1, <4>2, BytesAdd DEF Size
    <3>4. CASE c # b
      <4>1. {j \in Dealt' : bucketOf'[j] = c} = S BY <2>2, <2>3, <3>4
      <4>2. load'[c] = load[c] BY <2>1, <3>4 DEF TypeOK
      <4>3. QED BY <3>2, <4>1, <4>2
    <3>5. QED BY <3>3, <3>4
  <2>7. InOrder'
    <3>1. \A k \in Dealt', j \in todo' : Before(files, k, j)
        BY <2>1, <2>2 DEF InOrder, IsNext
    <3>2. QED BY <2>1, <3>1 DEF InOrder
  <2>8. InTurn'
    <3>1. ASSUME NEW k \in Dealt'
          PROVE  IsLeastLoaded(LoadBefore(files, NumBuckets, bucketOf', k), bucketOf'[k])
      <4>1. CASE k = i
        <5>1. \A c : DealtTo(files, bucketOf', i, c) = {j \in Dealt : bucketOf[j] = c}
            BY <2>2, <2>3, <2>5 DEF DealtTo
        <5>2. LoadBefore(files, NumBuckets, bucketOf', i) = load
            BY <5>1 DEF LoadBefore, Counted, TypeOK, Buckets
        <5>3. QED BY <2>1, <2>3, <4>1, <5>2
      <4>2. CASE k \in Dealt
        <5>1. \A j \in DOMAIN files : Before(files, j, k) => j \in Dealt
            BY <2>2, <2>4, <4>2, BeforeOrder DEF InOrder
        <5>2. LoadBefore(files, NumBuckets, bucketOf', k) = LoadBefore(files, NumBuckets, bucketOf, k)
            BY <2>3, <5>1, LoadSame
        <5>3. QED BY <2>3, <4>2, <5>2 DEF InTurn, DealsOut
      <4>3. QED BY <2>2, <4>1, <4>2
    <3>2. QED BY <2>1, <3>1 DEF InTurn, DealsOut
  <2>9. QED BY <1>0, <2>6, <2>7, <2>8
<1>2. CASE UNCHANGED vars
    BY <1>0, <1>2 DEF vars, Counted, InOrder, InTurn, Dealt
<1>3. QED BY <1>1, <1>2 DEF Next, Returned

\* For every list and every number of streams the loop of partition_files ends
\* with the map that both ends of a copy work from (protocol.rs:183-212).
THEOREM LoopComputesBucketOf == Spec => []ComputesBucketOf
<1>1. DealInv => ComputesBucketOf
  <2> SUFFICES ASSUME DealInv, todo = {} PROVE bucketOf = BucketOf(files, NumBuckets)
      BY DEF ComputesBucketOf
  <2>1. Dealt = DOMAIN files BY DEF Dealt
  <2>2. /\ bucketOf \in [DOMAIN files -> 0..(NumBuckets - 1)]
        /\ DealsOut(files, NumBuckets, bucketOf, DOMAIN files)
      BY <2>1 DEF DealInv, TypeOK, InTurn, Buckets
  <2>3. QED BY <2>2, FilesAreList, BucketOfDeals, NumBucketsAssumption DEF DealInv
<1>2. QED BY <1>1, LoopInvInit, LoopInvStep, DealInvInit, DealInvStep, PTL DEF Spec

------------------------------------------------------------------------------
(* Graham's bound.                                                           *)

\* At every turn: whatever split of the files dealt so far keeps within m, no
\* stream has more than (4n - 1) / 3n of m.
WithinGraham ==
    \A f \in [Dealt -> Buckets], m \in Nat : Within(files, f, NumBuckets, m) =>
        \A b \in Buckets : 3 * NumBuckets * load[b] <= (4 * NumBuckets - 1) * m

LEMMA WithinGrahamInit == Init => WithinGraham
<1> SUFFICES ASSUME Init, NEW m \in Nat, NEW b \in Buckets
             PROVE  3 * NumBuckets * load[b] <= (4 * NumBuckets - 1) * m
    BY DEF WithinGraham
<1>1. load[b] = 0 BY DEF Init
<1>2. 4 * NumBuckets - 1 \in Nat /\ NumBuckets \in Nat BY NumBucketsAssumption
<1>3. (4 * NumBuckets - 1) * m \in Nat BY <1>2
<1>4. 3 * NumBuckets * load[b] = 0 BY <1>1, <1>2
<1>5. QED BY <1>3, <1>4

\* A file dealt to the least loaded stream keeps to it, by GrahamStep; the other
\* streams have what they had, and a split of more files is a split of fewer.
LEMMA WithinGrahamStep == WithinGraham /\ DealInv /\ LoopInv /\ [Next]_vars => WithinGraham'
<1> SUFFICES ASSUME WithinGraham, DealInv, LoopInv, [Next]_vars PROVE WithinGraham'
    OBVIOUS
<1> USE DEF DealInv, LoopInv
<1>1. CASE Deal
  <2>1. PICK i \in todo, b \in Buckets :
            /\ IsNext(files, todo, i)
            /\ IsLeastLoaded(load, b)
            /\ load' = [load EXCEPT ![b] = @ + Size(i)]
            /\ todo' = todo \ {i}
            /\ files' = files
      BY <1>1 DEF Deal
  <2>2. /\ i \in DOMAIN files /\ Dealt' = Dealt \cup {i} /\ i \notin Dealt
        /\ Dealt \in SUBSET DOMAIN files
      BY <2>1 DEF Dealt, TypeOK
  <2>3. IsList(files) BY FilesAreList
  <2> SUFFICES ASSUME NEW g \in [Dealt \cup {i} -> Buckets], NEW m \in Nat,
                      Within(files, g, NumBuckets, m), NEW c \in Buckets
               PROVE  3 * NumBuckets * load'[c] <= (4 * NumBuckets - 1) * m
      BY <2>1, <2>2 DEF WithinGraham, Buckets
  <2>4. CASE c # b
    <3> DEFINE f == [j \in Dealt |-> g[j]]
    <3>1. f \in [Dealt -> Buckets] OBVIOUS
    <3>2. Within(files, f, NumBuckets, m)
      <4> SUFFICES ASSUME NEW d \in 0..(NumBuckets - 1)
                   PROVE  Cardinality(Bytes(files, Share(f, d))) <= m
          BY DEF Within
      <4>1. Share(f, d) \in SUBSET Share(g, d) /\ Share(g, d) \in SUBSET DOMAIN files
          BY <2>2 DEF Share
      <4>2. Cardinality(Bytes(files, Share(g, d))) <= m BY DEF Within
      <4>3. Cardinality(Bytes(files, Share(f, d))) <= Cardinality(Bytes(files, Share(g, d)))
          BY <2>3, <4>1, BytesOfSome
      <4>4. /\ Cardinality(Bytes(files, Share(f, d))) \in Nat
            /\ Cardinality(Bytes(files, Share(g, d))) \in Nat
        <5>1. Share(f, d) \in SUBSET DOMAIN files BY <4>1
        <5>2. QED BY <2>3, <4>1, <5>1, BytesFinite
      <4>5. QED BY <4>2, <4>3, <4>4
    <3>3. load'[c] = load[c] BY <2>1, <2>4 DEF TypeOK
    <3> HIDE DEF f
    <3>4. QED BY <3>1, <3>2, <3>3 DEF WithinGraham
  <2>5. CASE c = b
    <3>1. \A d \in Buckets : load[d] = Cardinality(Bytes(files, Share(bucketOf, d)))
      <4>1. DOMAIN bucketOf = Dealt BY DEF TypeOK
      <4>2. QED BY <4>1 DEF Counted, Share
    <3>2. load[b] \in Nat /\ \A d \in Buckets : load[d] \in Nat /\ load[b] <= load[d]
        BY <2>1, SMTT(30) DEF IsLeastLoaded, TypeOK
    <3>3. \A j \in Dealt : TransferSize(files[i]) <= TransferSize(files[j])
        BY <2>1 DEF Descending, Size
    <3>4. load'[c] = load[b] + TransferSize(files[i]) BY <2>1, <2>5 DEF TypeOK, Size
    <3>5. bucketOf \in [Dealt -> 0..(NumBuckets - 1)] BY DEF TypeOK, Buckets
    <3>6. \A d \in 0..(NumBuckets - 1) : load[b] <= Cardinality(Bytes(files, Share(bucketOf, d)))
        BY <3>1, <3>2 DEF Buckets
    <3>7. g \in [Dealt \cup {i} -> 0..(NumBuckets - 1)] BY DEF Buckets
    <3>8. 3 * NumBuckets * (load[b] + TransferSize(files[i])) <= (4 * NumBuckets - 1) * m
        BY <2>2, <2>3, <3>2, <3>3, <3>5, <3>6, <3>7, GrahamStep, NumBucketsAssumption
    <3>9. QED BY <3>4, <3>8
  <2>6. QED BY <2>4, <2>5
<1>2. CASE UNCHANGED vars
    BY <1>2 DEF vars, WithinGraham, Dealt
<1>3. QED BY <1>1, <1>2 DEF Next, Returned

\* The longest load is one of the loads, and none is longer.
LEMMA MakespanIsLongest ==
    ASSUME IsList(files), NEW S \in SUBSET DOMAIN files, NEW f \in [S -> Buckets]
    PROVE  /\ Makespan(f) \in Nat
           /\ Within(files, f, NumBuckets, Makespan(f))
           /\ \E b \in Buckets : Makespan(f) = Cardinality(Bytes(files, Share(f, b)))
<1> DEFINE A(b) == Cardinality(Bytes(files, Share(f, b)))
           T == {A(b) : b \in Buckets}
           R == {x \in Buckets \X Buckets : A(x[1]) >= A(x[2])}
<1>1. \A b \in Buckets : A(b) \in Nat BY BytesFinite DEF Share
<1>2. IsFiniteSet(Buckets) /\ 0 \in Buckets
    BY NumBucketsAssumption, FS_Interval DEF Buckets
<1>3. Makespan(f) = CHOOSE x \in T : \A y \in T : x >= y
    BY DEF Makespan, Max, Share
<1> HIDE DEF A
<1>4. \A x, y \in Buckets : <<x, y>> \in R <=> A(x) >= A(y) OBVIOUS
<1> HIDE DEF R
<1>5. PICK b \in Buckets : \A c \in Buckets \ {b} : <<b, c>> \in R
  <2>1. \A x, y \in Buckets : x # y => <<x, y>> \in R \/ <<y, x>> \in R BY <1>1, <1>4
  <2>2. \A x, y, z \in Buckets : <<x, y>> \in R /\ <<y, z>> \in R => <<x, z>> \in R
      BY <1>1, <1>4
  <2>3. Buckets \in SUBSET Buckets /\ Buckets # {} BY <1>2
  <2>4. QED BY <1>2, <2>1, <2>2, <2>3, FirstOfFinite
<1>6. ASSUME NEW c \in Buckets PROVE A(b) >= A(c)
  <2>1. CASE c = b BY <1>1, <2>1
  <2>2. CASE c # b
    <3>1. <<b, c>> \in R BY <1>5, <2>2
    <3>2. QED BY <1>4, <3>1
  <2>3. QED BY <2>1, <2>2
<1>7. A(b) \in T /\ \A y \in T : A(b) >= y BY <1>6
<1>8. Makespan(f) \in T /\ \A y \in T : Makespan(f) >= y
  <2> HIDE DEF T
  <2>1. QED BY <1>3, <1>7
<1>9. Makespan(f) \in Nat /\ \A c \in Buckets : A(c) <= Makespan(f) BY <1>1, <1>8
<1>10. QED BY <1>8, <1>9 DEF A, Within, Buckets

\* For every list and every number of streams, the slowest stream has at most
\* (4n - 1) / 3n of what the slowest stream has in any other split, the best one
\* included (partition_files, protocol.rs:183-212).
THEOREM LoopGrahamBound == Spec => []GrahamBound
<1>1. WithinGraham /\ DealInv => GrahamBound
  <2> SUFFICES ASSUME WithinGraham, DealInv, todo = {}, NEW f \in [DOMAIN files -> Buckets]
               PROVE  3 * NumBuckets * Makespan(bucketOf) <= (4 * NumBuckets - 1) * Makespan(f)
      BY DEF GrahamBound
  <2>1. Dealt = DOMAIN files BY DEF Dealt
  <2>2. IsList(files) /\ bucketOf \in [DOMAIN files -> Buckets]
      BY <2>1, FilesAreList DEF DealInv, TypeOK
  <2>3. PICK b \in Buckets : Makespan(bucketOf) = Cardinality(Bytes(files, Share(bucketOf, b)))
      BY <2>2, MakespanIsLongest
  <2>4. load[b] = Makespan(bucketOf)
    <3>1. Share(bucketOf, b) = {j \in Dealt : bucketOf[j] = b} BY <2>1, <2>2 DEF Share
    <3>2. QED BY <2>3, <3>1 DEF DealInv, Counted
  <2>5. Makespan(f) \in Nat /\ Within(files, f, NumBuckets, Makespan(f))
      BY <2>2, MakespanIsLongest
  <2>6. QED BY <2>1, <2>4, <2>5 DEF WithinGraham
<1>2. QED
    BY <1>1, LoopInvInit, LoopInvStep, DealInvInit, DealInvStep, WithinGrahamInit,
       WithinGrahamStep, PTL DEF Spec
==============================================================================
