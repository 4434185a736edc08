---------------------------- MODULE PartitionLoop ----------------------------
(***************************************************************************)
(* partition_files of src/src/protocol.rs as the loop it is: one step deals *)
(* one file.  Module Partition has the same algorithm as one operator; this *)
(* module is where its quality is stated: no bucket is left with more work  *)
(* than it has to have, so no stream runs long after the others are idle.   *)
(***************************************************************************)
EXTENDS Partition

CONSTANTS NumBuckets, \* num_buckets
          Files       \* the lists the loop may be started on

ASSUME NumBucketsAssumption == NumBuckets \in Nat \ {0}
ASSUME FilesAssumption == Files \subseteq Seq([size : Nat, offset : Nat])

VARIABLES files,    \* the argument
          todo,     \* positions the loop has not reached
          load,     \* bucket_sizes
          bucketOf  \* buckets, as a map from the positions dealt so far

vars == <<files, todo, load, bucketOf>>

Buckets == 0..(NumBuckets - 1)
Dealt == DOMAIN files \ todo
WholeSize(i) == files[i].size  \* mutant of Size: resumed files count in full
Size(i) == TransferSize(files[i])

Init ==
    /\ files \in Files
    /\ todo = DOMAIN files
    /\ load = [b \in Buckets |-> 0]
    /\ bucketOf = [i \in {} |-> 0]

\* Mutant of Placed: empty files get no bucket.
PlacedUnlessEmpty(i, b) ==
    IF Size(i) = 0 THEN bucketOf
    ELSE [j \in DOMAIN bucketOf \cup {i} |-> IF j = i THEN b ELSE bucketOf[j]]

\* bucketOf once the file at i is pushed to bucket b.
Placed(i, b) == [j \in DOMAIN bucketOf \cup {i} |-> IF j = i THEN b ELSE bucketOf[j]]

Deal ==
    \E i \in todo, b \in Buckets :
        /\ IsNext(files, todo, i)
        /\ IsLeastLoaded(load, b)
        /\ load' = [load EXCEPT ![b] = @ + Size(i)]
        /\ bucketOf' = Placed(i, b)
        /\ todo' = todo \ {i}
        /\ UNCHANGED files

Returned == todo = {} /\ UNCHANGED vars

Next == Deal \/ Returned

Spec == Init /\ [][Next]_vars

------------------------------------------------------------------------------
\* Type invariant; the map is defined exactly on the positions dealt.
TypeOK ==
    /\ files \in Seq([size : Nat, offset : Nat])
    /\ todo \subseteq DOMAIN files
    /\ load \in [Buckets -> Nat]
    /\ bucketOf \in [Dealt -> Buckets]

\* No file could be moved to another stream to finish earlier: a bucket never
\* exceeds any other by more than its own smallest file.  This needs both the
\* descending sort and the choice of the minimum (protocol.rs:193-209).
Balanced ==
    \A i \in Dealt, c \in Buckets : load[bucketOf[i]] <= load[c] + Size(i)

\* What the loop computes is what the operator BucketOf says.
ComputesBucketOf ==
    todo = {} => bucketOf = BucketOf(files, NumBuckets)

\* The longest load of a map from positions to buckets.
Makespan(f) ==
    Max({Cardinality(Bytes(files, {i \in DOMAIN f : f[i] = b})) : b \in Buckets})

\* Graham's bound for Longest Processing Time first: the slowest stream has at
\* most 4/3 - 1/(3n) of the work of the slowest stream of any other split, the
\* best one included (protocol.rs:183-212).
GrahamBound ==
    todo = {} => \A f \in [DOMAIN files -> Buckets] :
        3 * NumBuckets * Makespan(bucketOf) <= (4 * NumBuckets - 1) * Makespan(f)
==============================================================================
