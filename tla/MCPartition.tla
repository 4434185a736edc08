----------------------------- MODULE MCPartition -----------------------------
(* PartitionLoop on every list of at most MaxFiles files whose sizes and     *)
(* resume offsets are drawn from small sets.                                 *)
EXTENDS PartitionLoop

CONSTANTS MaxFiles, MaxSize

\* Whole files, and one that a resumed transfer has a first unit of.
SmallEntries ==
    [size : 0..MaxSize, offset : {0}] \cup {[size |-> MaxSize, offset |-> 1]}

SmallLists == BoundedSeq(SmallEntries, MaxFiles)
==============================================================================
