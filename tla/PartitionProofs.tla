--------------------------- MODULE PartitionProofs ---------------------------
(***************************************************************************)
(* What BucketOf is, for every finite list: there is a map in which every  *)
(* file is in the bucket that was least loaded at its turn, there is only  *)
(* one, and so both ends of a copy have it.  The inductions are over       *)
(* finite sets: a smallest counterexample, which WFMin of the library      *)
(* gives, is refuted.                                                      *)
(*                                                                         *)
(* The second part bounds the split against any other one: when the file   *)
(* at hand is over a third of what the other split's fullest bucket holds, *)
(* so is every file before it, and the other split has at most two of      *)
(* these in a bucket; when it is not, the least loaded bucket holds at     *)
(* most its share.                                                         *)
(***************************************************************************)
EXTENDS Partition, FiniteSetTheorems, FunctionTheorems, TLAPS

\* A list as partition_files gets it.
IsList(files) ==
    /\ IsFiniteSet(DOMAIN files) /\ DOMAIN files \subseteq Nat
    /\ \A i \in DOMAIN files : TransferSize(files[i]) \in Nat

\* g deals every file at a position in S as BucketOf has to.
DealsOut(files, n, g, S) ==
    \A i \in S : IsLeastLoaded(LoadBefore(files, n, g, i), g[i])

------------------------------------------------------------------------------
\* A total order of a finite set has a first element in every non-empty part.
LEMMA FirstOfFinite ==
    ASSUME NEW D, IsFiniteSet(D), NEW R,
           \A x, y \in D : x # y => <<x, y>> \in R \/ <<y, x>> \in R,
           \A x, y, z \in D : <<x, y>> \in R /\ <<y, z>> \in R => <<x, z>> \in R,
           NEW S \in SUBSET D, S # {}
    PROVE  \E x \in S : \A y \in S \ {x} : <<x, y>> \in R
<1> DEFINE HasFirst(T) == \E x \in T : \A y \in T \ {x} : <<x, y>> \in R
           Bad == {T \in SUBSET D : T # {} /\ ~HasFirst(T)}
<1>1. SUFFICES ASSUME Bad # {} PROVE FALSE
    OBVIOUS
<1>2. Bad \subseteq FiniteSubsetsOf(D)
    BY FS_FiniteSubsetsOfFinite
<1>3. PICK T \in Bad : \A U \in Bad : <<U, T>> \notin StrictSubsetOrdering(D)
  <2> HIDE DEF Bad
  <2>1. IsWellFoundedOn(StrictSubsetOrdering(D), FiniteSubsetsOf(D))
      BY FS_StrictSubsetOrderingWellFounded
  <2>2. QED BY <1>1, <1>2, <2>1, WFMin
<1>4. PICK x \in T : TRUE
    OBVIOUS
<1>5. T \ {x} \notin Bad
  <2>1. <<T \ {x}, T>> \in StrictSubsetOrdering(D)
    <3>1. T \in SUBSET D /\ T \ {x} \in SUBSET D /\ T \ {x} # T
        BY <1>4
    <3>2. QED BY <3>1 DEF StrictSubsetOrdering
  <2> HIDE DEF Bad
  <2>2. QED BY <1>3, <2>1
<1>6. CASE T \ {x} = {}
  <2>1. HasFirst(T) BY <1>4, <1>6
  <2>2. QED BY <2>1
<1>7. CASE T \ {x} # {}
  <2>1. PICK y \in T \ {x} : \A z \in (T \ {x}) \ {y} : <<y, z>> \in R
      BY <1>5, <1>7
  <2>2. x \in D /\ y \in D /\ T \subseteq D /\ x # y
      BY <1>4
  <2>3. HasFirst(T)
    <3>1. CASE <<y, x>> \in R
      <4>1. \A z \in T \ {y} : <<y, z>> \in R BY <2>1, <3>1
      <4>2. QED BY <4>1
    <3>2. CASE <<x, y>> \in R
      <4>1. \A z \in T \ {x} : <<x, z>> \in R BY <2>1, <2>2, <3>2
      <4>2. QED BY <4>1, <1>4
    <3>3. QED BY <2>2, <3>1, <3>2
  <2>4. QED BY <2>3
<1>8. QED BY <1>6, <1>7

\* The order in which files are dealt is total and strict.
LEMMA BeforeOrder ==
    ASSUME NEW files, IsList(files), NEW i \in DOMAIN files, NEW j \in DOMAIN files
    PROVE  /\ ~Before(files, i, i)
           /\ i # j => Before(files, i, j) \/ Before(files, j, i)
           /\ ~(Before(files, i, j) /\ Before(files, j, i))
           /\ \A k \in DOMAIN files :
                 Before(files, i, j) /\ Before(files, j, k) => Before(files, i, k)
BY DEF IsList, Before

\* Any files have a first of them to be dealt, and a last.
LEMMA FirstAndLast ==
    ASSUME NEW files, IsList(files), NEW S \in SUBSET DOMAIN files, S # {}
    PROVE  /\ \E i \in S : IsNext(files, S, i)
           /\ \E i \in S : \A j \in S \ {i} : Before(files, j, i)
<1> DEFINE D == DOMAIN files
           R == {r \in D \X D : Before(files, r[1], r[2])}
           Q == {r \in D \X D : Before(files, r[2], r[1])}
<1>1. \A x, y \in D : /\ <<x, y>> \in R <=> Before(files, x, y)
                      /\ <<x, y>> \in Q <=> Before(files, y, x)
    OBVIOUS
<1> HIDE DEF R, Q
<1>2. \A x, y \in D : x # y => <<x, y>> \in R \/ <<y, x>> \in R
    BY <1>1, BeforeOrder
<1>3. \A x, y \in D : x # y => <<x, y>> \in Q \/ <<y, x>> \in Q
    BY <1>1, BeforeOrder
<1>4. \A x, y, z \in D : <<x, y>> \in R /\ <<y, z>> \in R => <<x, z>> \in R
    BY <1>1, BeforeOrder
<1>5. \A x, y, z \in D : <<x, y>> \in Q /\ <<y, z>> \in Q => <<x, z>> \in Q
    BY <1>1, BeforeOrder
<1>6. IsFiniteSet(D) BY DEF IsList
<1>7. \E x \in S : \A y \in S \ {x} : <<x, y>> \in R
    BY <1>2, <1>4, <1>6, FirstOfFinite
<1>8. \E x \in S : \A y \in S \ {x} : <<x, y>> \in Q
    BY <1>3, <1>5, <1>6, FirstOfFinite
<1>9. QED BY <1>1, <1>7, <1>8 DEF IsNext

------------------------------------------------------------------------------
\* The bytes to send of any files can be counted.
LEMMA BytesFinite ==
    ASSUME NEW files, IsList(files), NEW S \in SUBSET DOMAIN files
    PROVE  IsFiniteSet(Bytes(files, S)) /\ Cardinality(Bytes(files, S)) \in Nat
<1> DEFINE Of(j) == {j} \X (1..TransferSize(files[j]))
           f == [j \in S |-> Of(j)]
           T == {Of(j) : j \in S}
<1>1. IsFiniteSet(S) BY FS_Subset DEF IsList
<1>2. f \in Surjection(S, T)
    BY DEF Surjection
<1>3. IsFiniteSet(T)
  <2> HIDE DEF f, T
  <2>1. QED BY <1>1, <1>2, FS_Surjection
<1>4. \A U \in T : IsFiniteSet(U)
  <2>1. SUFFICES ASSUME NEW j \in S PROVE IsFiniteSet(Of(j))
      OBVIOUS
  <2>2. TransferSize(files[j]) \in Nat BY DEF IsList
  <2>3. IsFiniteSet(1..TransferSize(files[j])) /\ IsFiniteSet({j})
    <3>1. 1 \in Int /\ TransferSize(files[j]) \in Int BY <2>2
    <3>2. QED BY <3>1, FS_Interval, FS_Singleton
  <2>4. QED BY <2>3, FS_Product
<1>5. IsFiniteSet(UNION T)
  <2> HIDE DEF T
  <2>1. QED BY <1>3, <1>4, FS_UNION
<1>6. Bytes(files, S) = UNION T BY DEF Bytes
<1>7. QED BY <1>5, <1>6, FS_CardinalityType

\* One more file adds its size to them.
LEMMA BytesAdd ==
    ASSUME NEW files, IsList(files), NEW S \in SUBSET DOMAIN files,
           NEW i \in DOMAIN files \ S
    PROVE  Cardinality(Bytes(files, S \cup {i}))
               = Cardinality(Bytes(files, S)) + TransferSize(files[i])
<1> DEFINE A == Bytes(files, S)
           C == {i} \X (1..TransferSize(files[i]))
<1>1. Bytes(files, S \cup {i}) = A \cup C /\ A \cap C = {}
    BY DEF Bytes
<1>2. IsFiniteSet(A) /\ Cardinality(A) \in Nat
    BY BytesFinite
<1>3. IsFiniteSet(C) /\ Cardinality(C) = TransferSize(files[i])
  <2>1. TransferSize(files[i]) \in Nat BY DEF IsList
  <2>2. 1 \in Int /\ TransferSize(files[i]) \in Int BY <2>1
  <2>3. /\ IsFiniteSet(1..TransferSize(files[i]))
        /\ Cardinality(1..TransferSize(files[i])) = TransferSize(files[i])
      BY <2>1, <2>2, FS_Interval
  <2>4. IsFiniteSet({i}) /\ Cardinality({i}) = 1 BY FS_Singleton
  <2>5. IsFiniteSet(C) /\ Cardinality(C) = 1 * TransferSize(files[i])
      BY <2>3, <2>4, FS_Product, ZenonT(40)
  <2>6. QED BY <2>1, <2>5
<1>4. Cardinality(A \cup C) = Cardinality(A) + Cardinality(C) - Cardinality({})
    BY <1>1, <1>2, <1>3, FS_Union
<1>5. TransferSize(files[i]) \in Nat /\ Cardinality({}) = 0
    BY FS_EmptySet DEF IsList
<1> HIDE DEF A, C
<1>6. Cardinality(A \cup C) = Cardinality(A) + TransferSize(files[i])
    BY <1>2, <1>3, <1>4, <1>5
<1>7. QED BY <1>1, <1>6 DEF A

\* Loads are naturals.
LEMMA LoadType ==
    ASSUME NEW files, IsList(files), NEW n, NEW g, NEW i
    PROVE  LoadBefore(files, n, g, i) \in [0..(n - 1) -> Nat]
<1>1. \A b \in 0..(n - 1) : Cardinality(Bytes(files, DealtTo(files, g, i, b))) \in Nat
    BY BytesFinite DEF DealtTo
<1>2. QED BY <1>1 DEF LoadBefore

\* Some bucket is the first of the least loaded, and only one.
LEMMA LeastLoadedExists ==
    ASSUME NEW n \in Nat \ {0}, NEW load \in [0..(n - 1) -> Nat]
    PROVE  \E b \in 0..(n - 1) : IsLeastLoaded(load, b)
<1> DEFINE B == 0..(n - 1)
           R == {r \in B \X B : load[r[1]] < load[r[2]]
                                \/ (load[r[1]] = load[r[2]] /\ r[1] <= r[2])}
<1>1. \A x, y \in B : <<x, y>> \in R <=>
          load[x] < load[y] \/ (load[x] = load[y] /\ x <= y)
    OBVIOUS
<1>2. IsFiniteSet(B) /\ B # {}
  <2>1. 0 \in Int /\ n - 1 \in Int /\ 0 \in B OBVIOUS
  <2>2. QED BY <2>1, FS_Interval
<1>3. \A x \in B : load[x] \in Nat /\ x \in Nat OBVIOUS
<1> HIDE DEF R, B
<1>4. ASSUME NEW x \in B, NEW y \in B PROVE <<x, y>> \in R \/ <<y, x>> \in R
  <2>1. load[x] \in Nat /\ load[y] \in Nat /\ x \in Nat /\ y \in Nat BY <1>3
  <2>2. \/ load[x] < load[y] \/ (load[x] = load[y] /\ x <= y)
        \/ load[y] < load[x] \/ (load[y] = load[x] /\ y <= x)
      BY <2>1
  <2>3. QED BY <1>1, <2>2
<1>5. ASSUME NEW x \in B, NEW y \in B, NEW z \in B, <<x, y>> \in R, <<y, z>> \in R
      PROVE  <<x, z>> \in R
  <2>1. /\ load[x] \in Nat /\ load[y] \in Nat /\ load[z] \in Nat
        /\ x \in Nat /\ y \in Nat /\ z \in Nat
      BY <1>3
  <2>2. /\ load[x] < load[y] \/ (load[x] = load[y] /\ x <= y)
        /\ load[y] < load[z] \/ (load[y] = load[z] /\ y <= z)
      BY <1>1, <1>5
  <2>3. load[x] < load[z] \/ (load[x] = load[z] /\ x <= z)
      BY <2>1, <2>2
  <2>4. QED BY <1>1, <2>3
<1>6. PICK b \in B : \A c \in B \ {b} : <<b, c>> \in R
    BY <1>2, <1>4, <1>5, FirstOfFinite
<1>7. DOMAIN load = B BY DEF B
<1>8. ASSUME NEW c \in B
      PROVE  load[b] < load[c] \/ (load[b] = load[c] /\ b <= c)
  <2>1. CASE c = b BY <1>3, <2>1
  <2>2. CASE c # b BY <1>1, <1>6, <2>2
  <2>3. QED BY <2>1, <2>2
<1>9. QED BY <1>7, <1>8 DEF IsLeastLoaded, B

LEMMA LeastLoadedUnique ==
    ASSUME NEW n \in Nat, NEW load \in [0..(n - 1) -> Nat],
           NEW b \in 0..(n - 1), NEW c \in 0..(n - 1),
           IsLeastLoaded(load, b), IsLeastLoaded(load, c)
    PROVE  b = c
<1>1. load[b] \in Nat /\ load[c] \in Nat OBVIOUS
<1>2. QED BY <1>1 DEF IsLeastLoaded

\* What a bucket has to take depends only on the files dealt before.
LEMMA LoadSame ==
    ASSUME NEW files, NEW n, NEW g, NEW h, NEW i,
           \A j \in DOMAIN files : Before(files, j, i) => g[j] = h[j]
    PROVE  LoadBefore(files, n, g, i) = LoadBefore(files, n, h, i)
<1>1. \A b : DealtTo(files, g, i, b) = DealtTo(files, h, i, b)
    BY DEF DealtTo
<1>2. QED BY <1>1 DEF LoadBefore

------------------------------------------------------------------------------
\* Every list can be dealt out: by induction over the files in their order.
LEMMA DealtExists ==
    ASSUME NEW files, IsList(files), NEW n \in Nat \ {0}
    PROVE  \E g \in [DOMAIN files -> 0..(n - 1)] : DealsOut(files, n, g, DOMAIN files)
<1> DEFINE D == DOMAIN files
           B == 0..(n - 1)
           Closed(S) == \A j \in S, i \in D : Before(files, i, j) => i \in S
           Some(S) == \E g \in [D -> B] : DealsOut(files, n, g, S)
           Bad == {S \in SUBSET D : Closed(S) /\ ~Some(S)}
<1>1. SUFFICES ASSUME Bad # {} PROVE FALSE
    OBVIOUS
<1>2. Bad \subseteq FiniteSubsetsOf(D)
    BY FS_FiniteSubsetsOfFinite DEF IsList
<1>3. PICK S \in Bad : \A U \in Bad : <<U, S>> \notin StrictSubsetOrdering(D)
  <2> HIDE DEF Bad
  <2>1. IsWellFoundedOn(StrictSubsetOrdering(D), FiniteSubsetsOf(D))
      BY FS_StrictSubsetOrderingWellFounded
  <2>2. QED BY <1>1, <1>2, <2>1, WFMin
<1>4. S # {}
  <2>1. ASSUME S = {} PROVE Some(S)
    <3>1. [i \in D |-> 0] \in [D -> B] OBVIOUS
    <3>2. QED BY <2>1, <3>1 DEF DealsOut
  <2>2. QED BY <1>3, <2>1
<1>5. PICK x \in S : \A j \in S \ {x} : Before(files, j, x)
    BY <1>3, <1>4, FirstAndLast
<1>6. Closed(S \ {x})
    BY <1>3, <1>5, BeforeOrder
<1>7. PICK g \in [D -> B] : DealsOut(files, n, g, S \ {x})
    BY <1>3, <1>5, <1>6 DEF StrictSubsetOrdering
<1>8. PICK b \in B : IsLeastLoaded(LoadBefore(files, n, g, x), b)
    BY LeastLoadedExists, LoadType
<1> DEFINE h == [g EXCEPT ![x] = b]
<1>9. h \in [D -> B] /\ h[x] = b /\ \A j \in D \ {x} : h[j] = g[j]
    BY <1>3, <1>5
<1> HIDE DEF h
<1>10. ASSUME NEW i \in S PROVE IsLeastLoaded(LoadBefore(files, n, h, i), h[i])
  <2>1. ~Before(files, x, i)
      BY <1>3, <1>5, BeforeOrder
  <2>2. LoadBefore(files, n, h, i) = LoadBefore(files, n, g, i)
      BY <1>9, <2>1, LoadSame
  <2>3. CASE i = x BY <1>8, <1>9, <2>2, <2>3
  <2>4. CASE i # x BY <1>3, <1>7, <1>9, <2>2, <2>4 DEF DealsOut
  <2>5. QED BY <2>3, <2>4
<1>11. Some(S) BY <1>9, <1>10 DEF DealsOut
<1>12. QED BY <1>3, <1>11

\* ... in one way.
LEMMA DealtUnique ==
    ASSUME NEW files, IsList(files), NEW n \in Nat \ {0},
           NEW g \in [DOMAIN files -> 0..(n - 1)], DealsOut(files, n, g, DOMAIN files),
           NEW h \in [DOMAIN files -> 0..(n - 1)], DealsOut(files, n, h, DOMAIN files)
    PROVE  g = h
<1> DEFINE T == {i \in DOMAIN files : g[i] # h[i]}
<1>1. SUFFICES ASSUME T # {} PROVE FALSE
    OBVIOUS
<1>2. PICK i \in T : IsNext(files, T, i)
    BY <1>1, FirstAndLast
<1>3. \A j \in DOMAIN files : Before(files, j, i) => g[j] = h[j]
    BY <1>2, BeforeOrder DEF IsNext
<1>4. LoadBefore(files, n, g, i) = LoadBefore(files, n, h, i)
    BY <1>3, LoadSame
<1>5. g[i] = h[i]
    BY <1>4, LoadType, LeastLoadedUnique DEF DealsOut
<1>6. QED BY <1>5

\* BucketOf puts every file of a list into one of the n buckets, and it is the
\* only map that deals each file to the least loaded bucket of its turn
\* (partition_files, protocol.rs:183-212).
THEOREM BucketOfDeals ==
    ASSUME NEW files, IsList(files), NEW n \in Nat \ {0}
    PROVE  /\ BucketOf(files, n) \in [DOMAIN files -> 0..(n - 1)]
           /\ DealsOut(files, n, BucketOf(files, n), DOMAIN files)
           /\ \A g \in [DOMAIN files -> 0..(n - 1)] :
                 DealsOut(files, n, g, DOMAIN files) => g = BucketOf(files, n)
<1>1. /\ BucketOf(files, n) \in [DOMAIN files -> 0..(n - 1)]
      /\ DealsOut(files, n, BucketOf(files, n), DOMAIN files)
    BY DealtExists DEF BucketOf, DealsOut
<1>2. QED BY <1>1, DealtUnique
------------------------------------------------------------------------------
(* How much a split of the files gives each bucket.                          *)

\* A finite set can be numbered.
LEMMA Numbering ==
    ASSUME NEW S, IsFiniteSet(S)
    PROVE  /\ \E h \in [1..Cardinality(S) -> S] :
                 \A j, k \in 1..Cardinality(S) : h[j] = h[k] => j = k
           /\ \E g \in [S -> 1..Cardinality(S)] : \A x, y \in S : g[x] = g[y] => x = y
<1>1. PICK h \in Bijection(1..Cardinality(S), S) : TRUE
    BY FS_CardinalityType, Fun_ExistsBij
<1> DEFINE g == Inverse(h, 1..Cardinality(S), S)
<1>2. g \in Bijection(S, 1..Cardinality(S))
    BY Fun_BijInverse
<1> HIDE DEF g
<1>3. g \in Injection(S, 1..Cardinality(S))
    BY <1>2 DEF Bijection
<1>4. /\ h \in [1..Cardinality(S) -> S]
      /\ \A j, k \in 1..Cardinality(S) : h[j] = h[k] => j = k
    BY Fun_BijectionProperties
<1>5. g \in [S -> 1..Cardinality(S)] /\ \A x, y \in S : g[x] = g[y] => x = y
    BY <1>3, Fun_InjectionProperties
<1>6. QED BY <1>4, <1>5

\* A set with n colours has n times what it has at least of each ...
LEMMA ColoursAtLeast ==
    ASSUME NEW n \in Nat \ {0}, NEW U, IsFiniteSet(U), NEW f \in [U -> 0..(n - 1)],
           NEW k \in Nat, \A b \in 0..(n - 1) : k <= Cardinality({x \in U : f[x] = b})
    PROVE  n * k <= Cardinality(U)
<1> DEFINE B == 0..(n - 1)
           Of(b) == {x \in U : f[x] = b}
           K == 1..k
<1>1. \A b \in B : \E h \in [K -> Of(b)] : \A i, j \in K : h[i] = h[j] => i = j
  <2> SUFFICES ASSUME NEW b \in B
               PROVE  \E h \in [K -> Of(b)] : \A i, j \in K : h[i] = h[j] => i = j
      OBVIOUS
  <2>1. IsFiniteSet(Of(b)) /\ Cardinality(Of(b)) \in Nat /\ k <= Cardinality(Of(b))
      BY FS_Subset, FS_CardinalityType
  <2> HIDE DEF Of
  <2>2. PICK h \in [1..Cardinality(Of(b)) -> Of(b)] :
            \A i, j \in 1..Cardinality(Of(b)) : h[i] = h[j] => i = j
      BY <2>1, Numbering
  <2>3. K \subseteq 1..Cardinality(Of(b)) BY <2>1
  <2>4. [i \in K |-> h[i]] \in [K -> Of(b)] BY <2>2, <2>3
  <2>5. QED BY <2>2, <2>3, <2>4
<1> DEFINE h == [b \in B |-> CHOOSE g \in [K -> Of(b)] : \A i, j \in K : g[i] = g[j] => i = j]
           q == [x \in B \X K |-> h[x[1]][x[2]]]
<1>2. \A b \in B : h[b] \in [K -> Of(b)] /\ \A i, j \in K : h[b][i] = h[b][j] => i = j
    BY <1>1
<1> HIDE DEF h, K, B
<1>3. q \in [B \X K -> U]
    BY <1>2
<1>4. \A x, y \in B \X K : q[x] = q[y] => x = y
  <2> SUFFICES ASSUME NEW x \in B \X K, NEW y \in B \X K, q[x] = q[y] PROVE x = y
      OBVIOUS
  <2>1. q[x] \in Of(x[1]) /\ q[y] \in Of(y[1]) BY <1>2
  <2>2. x[1] = y[1] BY <2>1
  <2>3. x[2] = y[2] BY <1>2, <2>2
  <2>4. QED BY <2>2, <2>3
<1>5. IsFiniteSet(B) /\ Cardinality(B) = n /\ IsFiniteSet(K) /\ Cardinality(K) = k
    BY FS_Interval DEF B, K
<1>6. IsFiniteSet(B \X K) /\ Cardinality(B \X K) = n * k
    BY <1>5, FS_Product
<1>7. q \in Injection(B \X K, U)
    BY <1>3, <1>4, Fun_IsInj
<1>8. Cardinality(B \X K) <= Cardinality(U)
    BY <1>7, FS_Injection
<1>9. QED BY <1>6, <1>8

\* ... and no more than n times what it has at most.
LEMMA ColoursAtMost ==
    ASSUME NEW n \in Nat \ {0}, NEW U, IsFiniteSet(U), NEW f \in [U -> 0..(n - 1)],
           NEW k \in Nat, \A b \in 0..(n - 1) : Cardinality({x \in U : f[x] = b}) <= k
    PROVE  Cardinality(U) <= n * k
<1> DEFINE B == 0..(n - 1)
           Of(b) == {x \in U : f[x] = b}
           K == 1..k
<1>1. \A b \in B : \E h \in [Of(b) -> K] : \A x, y \in Of(b) : h[x] = h[y] => x = y
  <2> SUFFICES ASSUME NEW b \in B
               PROVE  \E h \in [Of(b) -> K] : \A x, y \in Of(b) : h[x] = h[y] => x = y
      OBVIOUS
  <2>1. IsFiniteSet(Of(b)) /\ Cardinality(Of(b)) \in Nat /\ Cardinality(Of(b)) <= k
      BY FS_Subset, FS_CardinalityType
  <2> HIDE DEF Of
  <2>2. PICK h \in [Of(b) -> 1..Cardinality(Of(b))] :
            \A x, y \in Of(b) : h[x] = h[y] => x = y
      BY <2>1, Numbering
  <2>3. 1..Cardinality(Of(b)) \subseteq K BY <2>1
  <2>4. h \in [Of(b) -> K] BY <2>2, <2>3
  <2>5. QED BY <2>2, <2>4
<1> DEFINE h == [b \in B |-> CHOOSE g \in [Of(b) -> K] : \A x, y \in Of(b) : g[x] = g[y] => x = y]
           q == [x \in U |-> <<f[x], h[f[x]][x]>>]
<1>2. \A b \in B : h[b] \in [Of(b) -> K] /\ \A x, y \in Of(b) : h[b][x] = h[b][y] => x = y
    BY <1>1
<1> HIDE DEF h, K
<1>3. \A x \in U : f[x] \in B /\ x \in Of(f[x])
    OBVIOUS
<1> HIDE DEF B
<1>4. q \in [U -> B \X K]
  <2> SUFFICES ASSUME NEW x \in U PROVE h[f[x]][x] \in K
      BY <1>3
  <2>1. QED BY <1>2, <1>3
<1>5. \A x, y \in U : q[x] = q[y] => x = y
  <2> SUFFICES ASSUME NEW x \in U, NEW y \in U, q[x] = q[y] PROVE x = y
      OBVIOUS
  <2>1. f[x] = f[y] /\ h[f[x]][x] = h[f[y]][y] OBVIOUS
  <2>2. x \in Of(f[x]) /\ y \in Of(f[x]) BY <1>3, <2>1
  <2>3. QED BY <1>2, <1>3, <2>1, <2>2
<1>6. IsFiniteSet(B) /\ Cardinality(B) = n /\ IsFiniteSet(K) /\ Cardinality(K) = k
    BY FS_Interval DEF B, K
<1>7. IsFiniteSet(B \X K) /\ Cardinality(B \X K) = n * k
    BY <1>6, FS_Product
<1>8. q \in Injection(U, B \X K)
    BY <1>4, <1>5, Fun_IsInj
<1>9. Cardinality(U) <= Cardinality(B \X K)
    BY <1>7, <1>8, FS_Injection
<1>10. QED BY <1>7, <1>9

------------------------------------------------------------------------------
(* Graham's bound: how long the greedy split makes a stream.                 *)

\* What f gives bucket b of the files it deals.
Share(f, b) == {j \in DOMAIN f : f[j] = b}

\* No bucket of f has more than m to send.
Within(files, f, n, m) ==
    \A b \in 0..(n - 1) : Cardinality(Bytes(files, Share(f, b))) <= m

\* Every byte has a bucket for its colour, and the bytes that f gives a bucket
\* are those of the bucket's colour.
LEMMA ByteColoured ==
    ASSUME NEW files, NEW n, NEW D, NEW f \in [D -> 0..(n - 1)], NEW x \in Bytes(files, D)
    PROVE  f[x[1]] \in 0..(n - 1)
<1>1. x[1] \in D BY DEF Bytes
<1>2. QED BY <1>1

LEMMA ShareColours ==
    ASSUME NEW files, NEW f, NEW b
    PROVE  \A x : x \in Bytes(files, Share(f, b)) <=> x \in Bytes(files, DOMAIN f) /\ f[x[1]] = b
<1>1. \A x \in Bytes(files, DOMAIN f) : x[1] \in DOMAIN f BY DEF Bytes
<1>2. \A x \in Bytes(files, DOMAIN f) : f[x[1]] = b <=> x[1] \in Share(f, b)
    BY <1>1 DEF Share
<1>3. \A x : x \in Bytes(files, Share(f, b)) <=> x \in Bytes(files, DOMAIN f) /\ x[1] \in Share(f, b)
    BY DEF Bytes, Share
<1>4. QED BY <1>2, <1>3

\* What is dealt evenly enough adds up.
LEMMA SharesAddUp ==
    ASSUME NEW files, IsList(files), NEW n \in Nat \ {0}, NEW k \in Nat,
           NEW D \in SUBSET DOMAIN files, NEW f \in [D -> 0..(n - 1)]
    PROVE  /\ (\A b \in 0..(n - 1) : k <= Cardinality(Bytes(files, Share(f, b)))) =>
                 n * k <= Cardinality(Bytes(files, D))
           /\ Within(files, f, n, k) => Cardinality(Bytes(files, D)) <= n * k
<1> DEFINE U == Bytes(files, D)
           c == [x \in U |-> f[x[1]]]
<1>1. IsFiniteSet(U) BY BytesFinite
<1>2. /\ c \in [U -> 0..(n - 1)]
      /\ \A b : {x \in U : c[x] = b} = Bytes(files, Share(f, b))
  <2>1. c \in [U -> 0..(n - 1)] BY ByteColoured
  <2>2. ASSUME NEW b PROVE {x \in U : c[x] = b} = Bytes(files, Share(f, b))
    <3>1. \A x \in U : c[x] = f[x[1]] OBVIOUS
    <3>2. DOMAIN f = D OBVIOUS
    <3>3. \A x : x \in Bytes(files, Share(f, b)) <=> x \in U /\ f[x[1]] = b
        BY <3>2, ShareColours
    <3> HIDE DEF U, c
    <3>4. QED BY <3>1, <3>3
  <2>3. QED BY <2>1, <2>2
<1> HIDE DEF U, c
<1>3. ASSUME \A b \in 0..(n - 1) : k <= Cardinality(Bytes(files, Share(f, b)))
      PROVE  n * k <= Cardinality(U)
  <2>1. \A b \in 0..(n - 1) : k <= Cardinality({x \in U : c[x] = b}) BY <1>2, <1>3
  <2>2. QED BY <1>1, <1>2, <2>1, ColoursAtLeast
<1>4. ASSUME Within(files, f, n, k) PROVE Cardinality(U) <= n * k
  <2>1. \A b \in 0..(n - 1) : Cardinality({x \in U : c[x] = b}) <= k
      BY <1>2, <1>4 DEF Within
  <2>2. QED BY <1>1, <1>2, <2>1, ColoursAtMost
<1>5. QED BY <1>3, <1>4 DEF U

\* More files are not less to send, and some files are their sizes together.
LEMMA BytesOfSome ==
    ASSUME NEW files, IsList(files), NEW S \in SUBSET DOMAIN files
    PROVE  /\ \A T \in SUBSET S : Cardinality(Bytes(files, T)) <= Cardinality(Bytes(files, S))
           /\ \A i \in S : TransferSize(files[i]) <= Cardinality(Bytes(files, S))
           /\ \A i, j \in S : i # j =>
                 TransferSize(files[i]) + TransferSize(files[j]) <= Cardinality(Bytes(files, S))
           /\ \A i, j, k \in S : i # j /\ i # k /\ j # k =>
                 TransferSize(files[i]) + TransferSize(files[j]) + TransferSize(files[k])
                     <= Cardinality(Bytes(files, S))
           /\ S = {} => Cardinality(Bytes(files, S)) = 0
           /\ \A i : S = {i} => Cardinality(Bytes(files, S)) = TransferSize(files[i])
<1> DEFINE A(T) == Cardinality(Bytes(files, T))
           s(i) == TransferSize(files[i])
<1>1. \A T \in SUBSET S : A(T) <= A(S)
  <2> SUFFICES ASSUME NEW T \in SUBSET S PROVE A(T) <= A(S)
      OBVIOUS
  <2>1. Bytes(files, T) \in SUBSET Bytes(files, S) BY DEF Bytes
  <2>2. IsFiniteSet(Bytes(files, S)) BY BytesFinite
  <2>3. QED BY <2>1, <2>2, FS_Subset
<1>2. A({}) = 0
  <2>1. Bytes(files, {}) = {} BY DEF Bytes
  <2>2. QED BY <2>1, FS_EmptySet
<1>3. \A T \in SUBSET S : \A i \in S \ T : A(T \cup {i}) = A(T) + s(i)
    BY BytesAdd
<1>4. \A T \in SUBSET S : A(T) \in Nat BY BytesFinite
<1>5. \A i \in S : s(i) \in Nat BY DEF IsList
<1> HIDE DEF A, s
<1>6. \A i \in S : A({i}) = s(i)
  <2> SUFFICES ASSUME NEW i \in S PROVE A({i}) = s(i)
      OBVIOUS
  <2>1. A({} \cup {i}) = A({}) + s(i) BY <1>3
  <2>2. {} \cup {i} = {i} OBVIOUS
  <2>3. QED BY <1>2, <1>5, <2>1, <2>2
<1>7. ASSUME NEW i \in S, NEW j \in S, i # j PROVE A({i, j}) = s(i) + s(j)
  <2>1. A({i} \cup {j}) = A({i}) + s(j) BY <1>3, <1>7
  <2>2. {i} \cup {j} = {i, j} OBVIOUS
  <2>3. QED BY <1>6, <2>1, <2>2
<1>8. ASSUME NEW i \in S, NEW j \in S, NEW k \in S, i # j, i # k, j # k
      PROVE  A({i, j, k}) = s(i) + s(j) + s(k)
  <2>1. A({i, j} \cup {k}) = A({i, j}) + s(k) BY <1>3, <1>8
  <2>2. {i, j} \cup {k} = {i, j, k} OBVIOUS
  <2>3. QED BY <1>7, <1>8, <2>1, <2>2
<1>9. \A i \in S : s(i) <= A(S)
  <2>1. \A i \in S : {i} \in SUBSET S OBVIOUS
  <2>2. QED BY <1>1, <1>6, <2>1
<1>10. \A i, j \in S : i # j => s(i) + s(j) <= A(S)
  <2>1. \A i, j \in S : {i, j} \in SUBSET S OBVIOUS
  <2>2. QED BY <1>1, <1>7, <2>1
<1>11. ASSUME NEW i \in S, NEW j \in S, NEW k \in S, i # j, i # k, j # k
       PROVE  s(i) + s(j) + s(k) <= A(S)
  <2>1. {i, j, k} \in SUBSET S OBVIOUS
  <2>2. A({i, j, k}) <= A(S) BY <1>1, <2>1
  <2>3. A({i, j, k}) = s(i) + s(j) + s(k) BY <1>8, <1>11
  <2>4. QED BY <2>2, <2>3
<1>12. S = {} => A(S) = 0 BY <1>2
<1>13. \A i : S = {i} => A(S) = s(i) BY <1>6
<1>14. QED BY <1>1, <1>9, <1>10, <1>11, <1>12, <1>13 DEF A, s

\* Two elements, at least and at most.
LEMMA AtLeastTwo ==
    ASSUME NEW S, IsFiniteSet(S), NEW x \in S, NEW y \in S, x # y
    PROVE  2 <= Cardinality(S)
<1>1. Cardinality({x}) = 1 /\ IsFiniteSet({x}) BY FS_Singleton
<1>2. Cardinality({x} \cup {y}) = 2 BY <1>1, FS_AddElement
<1>3. {x} \cup {y} \in SUBSET S OBVIOUS
<1>4. QED BY <1>2, <1>3, FS_Subset

LEMMA AtMostTwo ==
    ASSUME NEW S, IsFiniteSet(S), \A x, y, z \in S : x = y \/ x = z \/ y = z
    PROVE  Cardinality(S) <= 2
<1>1. CASE S = {} BY <1>1, FS_EmptySet
<1>2. ASSUME NEW x \in S PROVE Cardinality(S) <= 2
  <2>1. Cardinality({x}) = 1 /\ IsFiniteSet({x}) BY FS_Singleton
  <2>2. CASE S = {x} BY <2>1, <2>2
  <2>3. ASSUME NEW y \in S, y # x PROVE Cardinality(S) <= 2
    <3>1. Cardinality({x} \cup {y}) = 2 BY <2>1, <2>3, FS_AddElement
    <3>2. {x} \cup {y} = S BY <2>3
    <3>3. QED BY <3>1, <3>2
  <2>4. QED BY <2>2, <2>3
<1>3. QED BY <1>1, <1>2

\* When every file is over a third of m and a split keeps all buckets within m,
\* then whatever split of all but a smallest file leaves room for that one: a
\* file that leaves none beside it counts twice, so the second split has no
\* more than two per bucket, and the first would have two in each.
LEMMA RoomBeside ==
    ASSUME NEW files, IsList(files), NEW n \in Nat \ {0}, NEW m \in Nat,
           NEW D \in SUBSET DOMAIN files, NEW i \in DOMAIN files \ D,
           \A j \in D : TransferSize(files[i]) <= TransferSize(files[j]),
           m < 3 * TransferSize(files[i]),
           NEW f \in [D -> 0..(n - 1)],
           NEW g \in [D \cup {i} -> 0..(n - 1)], Within(files, g, n, m)
    PROVE  \E b \in 0..(n - 1) :
               Cardinality(Bytes(files, Share(f, b))) + TransferSize(files[i]) <= m
<1> DEFINE B == 0..(n - 1)
           s(j) == TransferSize(files[j])
           A(T) == Cardinality(Bytes(files, T))
           E == D \cup {i}
           Big == {j \in D : s(j) + s(i) > m}
           X == {x \in E \X {1, 2} : x[2] = 1 \/ x[1] \in Big}
           Y == X \ {<<i, 1>>}
           p == [x \in X |-> g[x[1]]]
           q == [x \in Y |-> f[x[1]]]
<1>1. SUFFICES ASSUME \A b \in B : A(Share(f, b)) + s(i) > m PROVE FALSE
  <2>1. \A b \in B : A(Share(f, b)) \in Nat BY BytesFinite DEF Share
  <2>2. s(i) \in Nat BY DEF IsList
  <2>3. QED BY <2>1, <2>2
<1>2. /\ E \in SUBSET DOMAIN files /\ IsFiniteSet(E)
      /\ \A j \in E : s(j) \in Nat /\ s(i) <= s(j)
  <2>1. E \in SUBSET DOMAIN files OBVIOUS
  <2>2. \A j \in DOMAIN files : s(j) \in Nat BY DEF IsList
  <2>3. IsFiniteSet(E) BY <2>1, FS_Subset DEF IsList
  <2>4. QED BY <2>1, <2>2, <2>3
<1>3. IsFiniteSet(X)
  <2>1. IsFiniteSet({1, 2})
    <3>1. {1} \cup {2} = {1, 2} OBVIOUS
    <3>2. IsFiniteSet({1}) BY FS_Singleton
    <3>3. IsFiniteSet({1} \cup {2}) BY <3>2, FS_AddElement
    <3>4. QED BY <3>1, <3>3
  <2>2. IsFiniteSet(E \X {1, 2}) BY <1>2, <2>1, FS_Product
  <2>3. X \in SUBSET (E \X {1, 2}) OBVIOUS
  <2>4. QED BY <2>2, <2>3, FS_Subset
<1>4. <<i, 1>> \in X OBVIOUS
<1>5. /\ IsFiniteSet(Y) /\ Cardinality(X) \in Nat
      /\ Cardinality(Y) = Cardinality(X) - 1
  <2> HIDE DEF X
  <2>1. QED BY <1>3, <1>4, FS_RemoveElement, FS_CardinalityType
<1>6. \A x \in X : /\ x = <<x[1], x[2]>> /\ x[1] \in E /\ x[2] \in {1, 2}
                   /\ x[2] = 2 => x[1] \in Big
    OBVIOUS
<1>7. \A x \in Y : x[1] \in D
    BY <1>6
<1>8. p \in [X -> B] /\ q \in [Y -> B]
    BY <1>6, <1>7
<1>9. \A b \in B : /\ Share(g, b) \in SUBSET E /\ Share(f, b) \in SUBSET D
                   /\ A(Share(g, b)) \in Nat /\ A(Share(g, b)) <= m
  <2>1. \A b \in B : Share(g, b) \in SUBSET E /\ Share(f, b) \in SUBSET D
      BY DEF Share
  <2>2. \A b \in B : A(Share(g, b)) \in Nat BY <1>2, <2>1, BytesFinite
  <2>3. QED BY <2>1, <2>2 DEF Within
<1>10. ASSUME NEW b \in B, NEW j \in Share(g, b), NEW k \in Share(g, b), j # k
       PROVE  s(j) + s(k) <= m
  <2>1. Share(g, b) \in SUBSET DOMAIN files BY <1>2, <1>9
  <2>2. s(j) + s(k) <= A(Share(g, b)) BY <1>10, <2>1, BytesOfSome
  <2>3. s(j) \in Nat /\ s(k) \in Nat BY <1>2, <1>9
  <2> HIDE DEF s, A
  <2>4. QED BY <1>9, <2>2, <2>3
<1>11. ASSUME NEW b \in B, NEW j \in Share(g, b), NEW k \in Share(g, b),
              NEW l \in Share(g, b), j # k, j # l, k # l
       PROVE  FALSE
  <2>1. Share(g, b) \in SUBSET DOMAIN files BY <1>2, <1>9
  <2>2. s(j) + s(k) + s(l) <= A(Share(g, b)) BY <1>11, <2>1, BytesOfSome
  <2>3. /\ s(j) \in Nat /\ s(k) \in Nat /\ s(l) \in Nat /\ s(i) \in Nat
        /\ s(i) <= s(j) /\ s(i) <= s(k) /\ s(i) <= s(l)
      BY <1>2, <1>9
  <2>4. m < 3 * s(i) OBVIOUS
  <2> HIDE DEF s, A
  <2>5. QED BY <1>9, <2>2, <2>3, <2>4
<1>12. ASSUME NEW b \in B PROVE Cardinality({x \in X : p[x] = b}) <= 2
  <2> DEFINE P == {x \in X : p[x] = b}
  <2>1. \A x \in P : x \in X /\ x[1] \in Share(g, b)
      BY <1>6 DEF Share
  <2>2. ASSUME NEW x \in P, NEW y \in P, x[2] = 2 PROVE y[1] = x[1]
    <3>1. s(x[1]) + s(i) > m BY <1>6, <2>1, <2>2
    <3>2. s(i) <= s(y[1]) /\ s(y[1]) \in Nat /\ s(x[1]) \in Nat /\ s(i) \in Nat
        BY <1>2, <1>6, <2>1
    <3>3. SUFFICES ASSUME y[1] # x[1] PROVE FALSE
        OBVIOUS
    <3>4. s(x[1]) + s(y[1]) <= m BY <1>10, <2>1, <3>3
    <3> HIDE DEF s
    <3>5. QED BY <3>1, <3>2, <3>4
  <2>3. ASSUME NEW x \in P, NEW y \in P, NEW z \in P, x # y, x # z, y # z PROVE FALSE
    <3> HIDE DEF P, X, p
    <3>1. CASE x[2] = 2 \/ y[2] = 2 \/ z[2] = 2
      <4>1. x[1] = y[1] /\ y[1] = z[1] BY <2>2, <3>1
      <4>2. x[2] # y[2] /\ x[2] # z[2] /\ y[2] # z[2] BY <1>6, <2>1, <2>3, <4>1
      <4>3. QED BY <1>6, <2>1, <4>2
    <3>2. CASE x[2] = 1 /\ y[2] = 1 /\ z[2] = 1
      <4>1. x[1] # y[1] /\ x[1] # z[1] /\ y[1] # z[1] BY <1>6, <2>1, <2>3, <3>2
      <4>2. QED BY <1>11, <2>1, <4>1
    <3>3. QED BY <1>6, <2>1, <3>1, <3>2
  <2>4. IsFiniteSet(P)
    <3> HIDE DEF X, p
    <3>1. P \in SUBSET X OBVIOUS
    <3>2. QED BY <1>3, <3>1, FS_Subset
  <2> HIDE DEF P
  <2>5. Cardinality(P) <= 2 BY <2>3, <2>4, AtMostTwo
  <2>6. QED BY <2>5 DEF P
<1>13. ASSUME NEW b \in B PROVE 2 <= Cardinality({x \in Y : q[x] = b})
  <2> DEFINE Q == {x \in Y : q[x] = b}
  <2>1. Share(f, b) # {}
    <3> SUFFICES ASSUME Share(f, b) = {} PROVE FALSE
        OBVIOUS
    <3>1. A(Share(f, b)) = 0 BY <1>2, <1>9, BytesOfSome
    <3>2. g[i] \in B /\ i \in Share(g, g[i]) BY DEF Share
    <3>3. s(i) <= A(Share(g, g[i])) BY <1>2, <1>9, <3>2, BytesOfSome
    <3>4. s(i) \in Nat /\ A(Share(f, b)) + s(i) > m BY <1>1, <1>2
    <3>5. A(Share(g, g[i])) \in Nat /\ A(Share(g, g[i])) <= m BY <1>9, <3>2
    <3> HIDE DEF s, A
    <3>6. QED BY <3>1, <3>3, <3>4, <3>5
  <2>2. \A j \in Share(f, b) : <<j, 1>> \in Q
    <3>1. \A j \in Share(f, b) : j \in D /\ f[j] = b /\ j # i BY DEF Share
    <3>2. \A j \in Share(f, b) : <<j, 1>> \in Y BY <3>1
    <3>3. QED BY <3>1, <3>2
  <2>3. PICK j \in Share(f, b) : TRUE BY <2>1
  <2>4. \E x, y \in Q : x # y
    <3>1. ASSUME NEW k \in Share(f, b), k # j PROVE \E x, y \in Q : x # y
      <4>1. <<j, 1>> # <<k, 1>> BY <3>1
      <4> HIDE DEF Q
      <4>2. QED BY <2>2, <4>1
    <3>2. CASE Share(f, b) = {j}
      <4>1. j \in DOMAIN files /\ j \in D /\ f[j] = b BY DEF Share
      <4>2. A(Share(f, b)) = s(j) BY <3>2, <4>1, BytesOfSome
      <4>3. j \in Big BY <1>1, <4>1, <4>2
      <4>4. <<j, 2>> \in X BY <4>1, <4>3
      <4>5. <<j, 2>> \in Q BY <4>1, <4>4
      <4>6. <<j, 1>> # <<j, 2>> OBVIOUS
      <4> HIDE DEF Q
      <4>7. QED BY <2>2, <4>5, <4>6
    <3> HIDE DEF Q
    <3>3. QED BY <2>3, <3>1, <3>2
  <2>5. IsFiniteSet(Q)
    <3> HIDE DEF Y, q
    <3>1. Q \in SUBSET Y OBVIOUS
    <3>2. QED BY <1>5, <3>1, FS_Subset
  <2> HIDE DEF Q
  <2>6. 2 <= Cardinality(Q) BY <2>4, <2>5, AtLeastTwo
  <2>7. QED BY <2>6 DEF Q
<1> HIDE DEF X, Y, p, q
<1>14. Cardinality(X) <= n * 2 BY <1>3, <1>8, <1>12, ColoursAtMost
<1>15. n * 2 <= Cardinality(Y) BY <1>5, <1>8, <1>13, ColoursAtLeast
<1>16. QED BY <1>5, <1>14, <1>15

\* A little arithmetic.
LEMMA Scale ==
    ASSUME NEW a \in Nat, NEW b \in Nat, NEW x \in Nat, NEW y \in Nat, a <= b, x <= y
    PROVE  a * x <= b * y
<1>1. PICK d \in Nat : b = a + d
  <2>1. b - a \in Nat /\ b = a + (b - a) OBVIOUS
  <2>2. QED BY <2>1
<1>2. PICK e \in Nat : y = x + e
  <2>1. y - x \in Nat /\ y = x + (y - x) OBVIOUS
  <2>2. QED BY <2>1
<1>3. b * y = a * x + a * e + d * x + d * e BY <1>1, <1>2
<1>4. a * e \in Nat /\ d * x \in Nat /\ d * e \in Nat /\ a * x \in Nat BY <1>1, <1>2
<1>5. QED BY <1>3, <1>4

LEMMA ThirdOfBest ==
    ASSUME NEW n \in Nat \ {0}, NEW L \in Nat, NEW s \in Nat, NEW m \in Nat,
           3 * s <= m, n * L + s <= n * m
    PROVE  3 * n * (L + s) <= (4 * n - 1) * m
<1>1. n - 1 \in Nat /\ 3 * s \in Nat OBVIOUS
<1>2. (n - 1) * (3 * s) <= (n - 1) * m BY <1>1, Scale
<1>3. /\ 3 * n * (L + s) = 3 * (n * L + s) + (n - 1) * (3 * s)
      /\ (4 * n - 1) * m = 3 * (n * m) + (n - 1) * m
    OBVIOUS
<1>4. n * L + s \in Nat /\ n * m \in Nat /\ (n - 1) * (3 * s) \in Nat /\ (n - 1) * m \in Nat
    BY <1>1
<1>5. QED BY <1>2, <1>3, <1>4

\* Graham's step: if no bucket has less than L, all of it is dealt from files no
\* smaller than the next one, and a split of these files and the next one keeps
\* within m, then L and the next file are within (4n - 1) / 3n of m.
LEMMA GrahamStep ==
    ASSUME NEW files, IsList(files), NEW n \in Nat \ {0}, NEW m \in Nat,
           NEW D \in SUBSET DOMAIN files, NEW i \in DOMAIN files \ D,
           \A j \in D : TransferSize(files[i]) <= TransferSize(files[j]),
           NEW f \in [D -> 0..(n - 1)], NEW L \in Nat,
           \A b \in 0..(n - 1) : L <= Cardinality(Bytes(files, Share(f, b))),
           NEW g \in [D \cup {i} -> 0..(n - 1)], Within(files, g, n, m)
    PROVE  3 * n * (L + TransferSize(files[i])) <= (4 * n - 1) * m
<1> DEFINE s == TransferSize(files[i])
<1>1. s \in Nat BY DEF IsList
<1>2. ASSUME m < 3 * s PROVE 3 * n * (L + s) <= (4 * n - 1) * m
  <2>1. PICK b \in 0..(n - 1) : Cardinality(Bytes(files, Share(f, b))) + s <= m
      BY <1>2, RoomBeside
  <2>2. L <= Cardinality(Bytes(files, Share(f, b))) OBVIOUS
  <2>3. Cardinality(Bytes(files, Share(f, b))) \in Nat BY BytesFinite DEF Share
  <2> HIDE DEF s
  <2>4. L + s <= m BY <1>1, <2>1, <2>2, <2>3
  <2>5. 3 * n \in Nat /\ 3 * n <= 4 * n - 1 /\ 4 * n - 1 \in Nat OBVIOUS
  <2>6. QED BY <1>1, <2>4, <2>5, Scale
<1>3. ASSUME 3 * s <= m PROVE 3 * n * (L + s) <= (4 * n - 1) * m
  <2> DEFINE E == D \cup {i}
  <2>1. E \in SUBSET DOMAIN files OBVIOUS
  <2>2. Cardinality(Bytes(files, E)) = Cardinality(Bytes(files, D)) + s BY BytesAdd
  <2>3. Cardinality(Bytes(files, D)) \in Nat BY BytesFinite
  <2>4. n * L <= Cardinality(Bytes(files, D)) BY SharesAddUp
  <2>5. Cardinality(Bytes(files, E)) <= n * m BY <2>1, SharesAddUp
  <2> HIDE DEF s
  <2>6. n * L + s <= n * m BY <1>1, <2>2, <2>3, <2>4, <2>5
  <2>7. QED BY <1>1, <1>3, <2>6, ThirdOfBest
<1>4. QED BY <1>1, <1>2, <1>3
==============================================================================
