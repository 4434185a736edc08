------------------------------- MODULE Mirror -------------------------------
(***************************************************************************)
(* What a copy promises, without streams, threads or messages: one source   *)
(* directory, one destination, and one session after another between them.  *)
(* A session chooses what it will replace, replaces each of those files as a *)
(* whole, tries to set its time afterwards, and reports success when none is *)
(* left.  It may be aborted at any moment.  Module Transfer implements this. *)
(***************************************************************************)
EXTENDS Naturals, Sequences

CONSTANTS
    Paths,  \* relative paths of the tree
    Data,   \* contents of files, sequences
    Clock   \* the times a file may get when it is written

VARIABLES
    src,    \* the source files
    dst,    \* the files at their final names
    phase,  \* idle, copying, or ok: a session has reported success
    left,   \* the entries this session has still to replace
    fresh,  \* the entries it has replaced and not tried to stamp yet
    due     \* the paths it owes: equal to the source when it reports success

vars == <<src, dst, phase, left, fresh, due>>

Entries == [path : Paths, size : Nat, modified : Nat]
Files == [here : BOOLEAN, data : Data, mtime : Nat]
Sources == [Paths -> [data : Data, mtime : Nat]]

PathsOf(entries) == {e.path : e \in entries}
OnePerPath(entries) == \A e, f \in entries : e.path = f.path => e = f
Exact(p) == dst[p].here /\ dst[p].data = src[p].data

Init ==
    /\ src \in Sources /\ dst \in [Paths -> Files]
    /\ phase = "idle" /\ left = {} /\ fresh = {} /\ due = {}

\* The user edits the source: nothing is owed for the old version.
Edit ==
    /\ src' \in Sources /\ due' = {}
    /\ UNCHANGED <<dst, phase, left, fresh>>

\* What is owed and not replaced must be equal already: that is the skip.
Begin ==
    /\ phase = "idle" /\ phase' = "copying"
    /\ left' \subseteq Entries /\ OnePerPath(left') /\ fresh' = {}
    /\ due' \subseteq Paths
    /\ \A p \in due' : p \in PathsOf(left') \/ Exact(p)
    /\ UNCHANGED <<src, dst>>

\* A session that only reports what it would do.
DryRun ==
    /\ phase = "idle" /\ phase' = "ok"
    /\ UNCHANGED <<src, dst, left, fresh, due>>

\* One file is replaced by a whole one of the size announced.
Replace(e, t) ==
    /\ phase = "copying" /\ e \in left /\ left' = left \ {e}
    /\ dst' \in [Paths -> Files]
    /\ \A p \in Paths \ {e.path} : dst'[p] = dst[p]
    /\ dst'[e.path].here /\ Len(dst'[e.path].data) = e.size
    /\ dst'[e.path].mtime = t
    /\ e.path \in due => dst'[e.path].data = src[e.path].data
    /\ UNCHANGED <<src, phase, due>>

Put(e) == e.size > 0 /\ (\E t \in Clock : Replace(e, t)) /\ fresh' = fresh \cup {e}
PutEmpty(e) ==
    e.size = 0 /\ (\E t \in Clock \cup {e.modified} : Replace(e, t)) /\ fresh' = fresh

\* The time of the entry is set, or that fails and nobody is told.
Stamp(e) ==
    /\ phase = "copying" /\ e \in fresh /\ fresh' = fresh \ {e}
    /\ dst' \in {dst, [dst EXCEPT ![e.path].mtime = e.modified]}
    /\ UNCHANGED <<src, phase, left, due>>

Report ==
    /\ phase = "copying" /\ left = {} /\ fresh = {}
    /\ phase' = "ok"
    /\ UNCHANGED <<src, dst, left, fresh, due>>

\* The session fails, or the next one is awaited.
Leave ==
    /\ phase' = "idle" /\ left' = {} /\ fresh' = {} /\ due' = {}
    /\ UNCHANGED <<src, dst>>

\* The sender that was promised something has gone.
Forget ==
    /\ due' = {}
    /\ UNCHANGED <<src, dst, phase, left, fresh>>

Next ==
    \/ Edit \/ Begin \/ DryRun \/ Report \/ Leave \/ Forget
    \/ (\E e \in left : Put(e) \/ PutEmpty(e))
    \/ (\E e \in fresh : Stamp(e))

Spec == Init /\ [][Next]_vars

------------------------------------------------------------------------------
\* The types of the variables; a session replaces a path once.
TypeOK ==
    /\ src \in Sources /\ dst \in [Paths -> Files]
    /\ phase \in {"idle", "copying", "ok"}
    /\ left \subseteq Entries /\ fresh \subseteq Entries /\ due \subseteq Paths
    /\ OnePerPath(left)

\* What is still owed is either to come or equal to the source already.
Owed == \A p \in due : p \in PathsOf(left) \/ Exact(p)

\* A session that has reported success and still owes something has paid it.
Kept == phase = "ok" => \A p \in due : Exact(p)
==============================================================================
