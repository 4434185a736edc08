-------------------------------- MODULE Pipe --------------------------------
(***************************************************************************)
(* What a connection promises to the two who hold its ends: a pipe of      *)
(* bytes each way, without frames, counters or buffers.  The handlers take *)
(* their stream as a MaybeEncryptedStream, so the encrypted one has to     *)
(* keep these promises of the TcpStream that it stands for.                *)
(*                                                                         *)
(* A read gives the next bytes, at least one, or the end, which comes only *)
(* once the other end is closed; a connection that came to no harm ends    *)
(* after all that was written, and fails at neither end.  Who was told of  *)
(* the end or of an error reads no more.                                   *)
(***************************************************************************)
EXTENDS Naturals, Sequences

CONSTANTS
    Ends,    \* the two ends of the connection
    Peer(_)  \* the other end

VARIABLES
    sent,   \* bytes each end has written; the n-th byte is n
    got,    \* bytes each end has read
    open,   \* the ends that are not closed
    state,  \* what read told the caller last: go on, end of stream, error
    harmed  \* the connection may lose something, and may fail

vars == <<sent, got, open, state, harmed>>

Init ==
    /\ sent = [e \in Ends |-> 0] /\ got = [e \in Ends |-> <<>>]
    /\ open = Ends /\ state = [e \in Ends |-> "on"]
    /\ harmed \in BOOLEAN

\* One or more bytes are written.
Write(e) ==
    /\ e \in open
    /\ sent'[e] > sent[e] /\ sent' = [sent EXCEPT ![e] = sent'[e]]
    /\ UNCHANGED <<got, open, state, harmed>>

\* One or more bytes are read, the next ones.
Get(e) ==
    /\ e \in open /\ state[e] = "on"
    /\ \E k \in (Len(got[e]) + 1)..sent[Peer(e)] : got' = [got EXCEPT ![e] = [i \in 1..k |-> i]]
    /\ UNCHANGED <<sent, open, state, harmed>>

\* The end of the stream is read.
End(e) ==
    /\ e \in open /\ state[e] = "on"
    /\ Peer(e) \notin open /\ (harmed \/ Len(got[e]) = sent[Peer(e)])
    /\ state' = [state EXCEPT ![e] = "eof"]
    /\ UNCHANGED <<sent, got, open, harmed>>

\* A read fails.
Fail(e) ==
    /\ e \in open /\ state[e] = "on" /\ harmed
    /\ state' = [state EXCEPT ![e] = "err"]
    /\ UNCHANGED <<sent, got, open, harmed>>

Close(e) ==
    /\ e \in open
    /\ open' = open \ {e}
    /\ UNCHANGED <<sent, got, state, harmed>>

\* The connection comes to harm, and an end may be lost by it.
Harm ==
    /\ harmed' = TRUE
    /\ open' \in SUBSET open
    /\ UNCHANGED <<sent, got, state>>

Next ==
    \/ Harm
    \/ \E e \in Ends : Write(e) \/ Get(e) \/ End(e) \/ Fail(e) \/ Close(e)

Spec == Init /\ [][Next]_vars
==============================================================================
