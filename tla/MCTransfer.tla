------------------------------ MODULE MCTransfer -----------------------------
(* Instances of Transfer: source trees of one to three files of a few        *)
(* blocks.  A name is a number; the temporary name of p is p + 10, but for   *)
(* the tree that holds both a file and that file's temporary name.           *)
EXTENDS Transfer, TLC

OneFile == {1}
TwoFiles == {1, 2}
ThreeFiles == {1, 2, 3}
TmpOf == [p \in Paths |-> p + 10]
AllNames == Paths \cup {Tmp[p] : p \in Paths}

\* Files 1 and 2, where 2 is called 1.networkcopy-tmp.
TmpInTree == [p \in TwoFiles |-> p + 1]

TwoBlocks == {1, 2}
\* Two versions of the same size and a longer one.
FewVersions == {<<1, 2>>, <<2, 2>>, <<1, 2, 1>>}
\* Two versions of the same size, a longer, a shorter and an empty one.
Versions == {<<>>, <<1>>, <<1, 2>>, <<2, 2>>, <<1, 2, 1>>}
Sizes12 == {<<1>>, <<2, 1>>}
\* The first block of neither of the sources.
WrongStart == {<<1>>}
\* Two versions of one block.
OneBlock == {<<1>>, <<2>>}
==============================================================================
