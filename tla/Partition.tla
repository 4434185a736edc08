------------------------------ MODULE Partition ------------------------------
(***************************************************************************)
(* The load balancing of src/src/protocol.rs as pure operators: the Longest *)
(* Processing Time first split of the files to transfer into one bucket per *)
(* data stream.  Sender and receiver evaluate it separately, on their own   *)
(* copy of the list; nothing about the split goes over the wire.            *)
(*                                                                          *)
(* A list of files is a function from a finite set of naturals (the         *)
(* positions in the index) to entries that have the fields size and offset; *)
(* the order of the list is the order of the positions.                     *)
(***************************************************************************)
EXTENDS Naturals, FiniteSets, Sequences, SequencesExt

\* What is still to be sent of an entry (a saturating subtraction).
TransferSize(f) == IF f.offset > f.size THEN 0 ELSE f.size - f.offset

\* Mutant of Before: an ascending sort.
SmallestFirst(files, i, j) ==
    \/ TransferSize(files[i]) < TransferSize(files[j])
    \/ TransferSize(files[i]) = TransferSize(files[j]) /\ i < j

\* Mutant of IsLeastLoaded: every file goes to the first bucket.
IsFirstBucket(load, b) == \A c \in DOMAIN load : b <= c

\* The order in which files are dealt to buckets, and in which a stream sends
\* them: larger first; the sort is stable, so equal sizes keep the list order.
Before(files, i, j) ==
    \/ TransferSize(files[i]) > TransferSize(files[j])
    \/ TransferSize(files[i]) = TransferSize(files[j]) /\ i < j

\* i is the first of the positions in todo.
IsNext(files, todo, i) ==
    i \in todo /\ \A j \in todo \ {i} : Before(files, i, j)

\* b is the first of the least loaded buckets.
IsLeastLoaded(load, b) ==
    \A c \in DOMAIN load : load[b] < load[c] \/ (load[b] = load[c] /\ b <= c)

\* What is to be sent of the files at the positions in S, one pair for each byte
\* (a block, in Transfer): the sum of their sizes is the number of these pairs.
Bytes(files, S) == UNION {{j} \X (1..TransferSize(files[j])) : j \in S}

\* What each of n buckets has to send of the files dealt before position i.
DealtTo(files, bucketOf, i, b) == {j \in DOMAIN files : Before(files, j, i) /\ bucketOf[j] = b}
LoadBefore(files, n, bucketOf, i) ==
    [b \in 0..(n - 1) |-> Cardinality(Bytes(files, DealtTo(files, bucketOf, i, b)))]

\* BucketOf(files, n)[i] is the bucket, in 0..n-1, of the file at position i: the
\* least loaded one of its turn.  There is one such map.
BucketOf(files, n) ==
    CHOOSE bucketOf \in [DOMAIN files -> 0..(n - 1)] :
        \A i \in DOMAIN files : IsLeastLoaded(LoadBefore(files, n, bucketOf, i), bucketOf[i])
=============================================================================
