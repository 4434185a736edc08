---------------------------- MODULE MirrorProofs ----------------------------
(* What an implementation of Mirror gets: a session that reports success has *)
(* paid what it owes.                                                        *)
EXTENDS Mirror, TLAPS

\* Nothing is left or owed by a session that has not begun or has reported.
AtRest == phase # "copying" => left = {}

Inv == TypeOK /\ Owed /\ AtRest

\* The initial states satisfy the invariant.
LEMMA MirrorInit == Init => Inv
BY DEF Init, Inv, TypeOK, Owed, AtRest, OnePerPath

\* Every step keeps it.
LEMMA MirrorStep == Inv /\ [Next]_vars => Inv'
<1> SUFFICES ASSUME Inv, [Next]_vars PROVE Inv'
  OBVIOUS
<1> USE DEF Inv, TypeOK, Owed, AtRest, Exact, PathsOf, OnePerPath
<1>1. CASE Edit
  BY <1>1 DEF Edit
<1>2. CASE Begin
  BY <1>2 DEF Begin
<1>3. CASE DryRun
  BY <1>3 DEF DryRun
<1>4. CASE Report
  BY <1>4 DEF Report
<1>5. CASE Leave
  BY <1>5 DEF Leave
<1>6. CASE Forget
  BY <1>6 DEF Forget
<1>7. ASSUME NEW e \in left, NEW t, Replace(e, t), fresh' \subseteq Entries
      PROVE  Inv'
  <2> USE <1>7 DEF Replace
  <2>1. TypeOK' /\ AtRest'
    OBVIOUS
  <2>2. ASSUME NEW p \in due' PROVE p \in PathsOf(left') \/ Exact(p)'
    <3>1. CASE p = e.path
      BY <2>2, <3>1 DEF Entries
    <3>2. CASE p # e.path
      BY <2>2, <3>2
    <3> QED
      BY <3>1, <3>2
  <2> QED
    BY <2>1, <2>2
<1>8. ASSUME NEW e \in left, Put(e) \/ PutEmpty(e) PROVE Inv'
  BY <1>7, <1>8 DEF Put, PutEmpty
<1>9. ASSUME NEW e \in fresh, Stamp(e) PROVE Inv'
  <2>1. e \in Entries
    OBVIOUS
  <2>2. dst' \in [Paths -> Files]
    BY <1>9, <2>1 DEF Stamp, Entries, Files
  <2>3. \A p \in Paths : dst'[p].data = dst[p].data /\ dst'[p].here = dst[p].here
    BY <1>9, <2>1 DEF Stamp, Entries, Files
  <2> QED
    BY <1>9, <2>2, <2>3 DEF Stamp
<1>10. CASE UNCHANGED vars
  BY <1>10 DEF vars
<1> QED
  BY <1>1, <1>2, <1>3, <1>4, <1>5, <1>6, <1>8, <1>9, <1>10 DEF Next

\* The invariant holds in every reachable state.
LEMMA MirrorAlways == Spec => []Inv
BY MirrorInit, MirrorStep, PTL DEF Spec

\* Success means that whatever is still owed is equal to the source.
THEOREM MirrorKept == Spec => []Kept
<1>1. Inv => Kept
  BY DEF Inv, Owed, AtRest, Kept, PathsOf
<1> QED
  BY <1>1, MirrorAlways, PTL
==============================================================================
