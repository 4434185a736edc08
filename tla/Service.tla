------------------------------- MODULE Service -------------------------------
(***************************************************************************)
(* What a receiver and its clients promise each other, without messages:   *)
(* one client is served at a time, after the receiver has made sure of it; *)
(* a client goes on only where it was admitted, and only with a receiver   *)
(* it agrees with; it sends data only after its own index was confirmed,   *)
(* and the streams that a transfer takes are its client's.                 *)
(*                                                                         *)
(* Who breaks off tells nobody: a client that is gone may still be         *)
(* admitted and served until the receiver finds out.                       *)
(***************************************************************************)
EXTENDS Naturals

CONSTANTS
    Clients,
    NoClient,   \* none of them
    NumStreams  \* streams of a transfer

VARIABLES
    admissible, \* the clients that the receiver may serve, and
    agreed,     \* those of them that may go on with it; neither ever changes
    serving,    \* the client being served
    place,      \* each client is outside, inside, sending its data, or gone
    invited,    \* clients admitted, and
    confirmed,  \* those whose index was confirmed, that are not gone yet
    streams     \* streams taken for the transfer

vars == <<admissible, agreed, serving, place, invited, confirmed, streams>>

Init ==
    /\ admissible \in SUBSET Clients /\ agreed \in SUBSET admissible
    /\ serving = NoClient /\ place = [c \in Clients |-> "outside"]
    /\ invited = {} /\ confirmed = {} /\ streams = 0

\* What is said to a client reaches it as long as it is not gone.
Told(c) == IF place[c] = "gone" THEN {} ELSE {c}

\* The receiver has made sure of c.
Admit(c) ==
    /\ serving = NoClient /\ c \in admissible
    /\ c \notin invited /\ place[c] \in {"outside", "gone"}
    /\ serving' = c /\ invited' = invited \cup Told(c)
    /\ UNCHANGED <<admissible, agreed, place, confirmed, streams>>

\* The client has made sure of the receiver, and of being admitted.
Enter(c) ==
    /\ place[c] = "outside" /\ c \in invited \cap agreed
    /\ place' = [place EXCEPT ![c] = "inside"]
    /\ UNCHANGED <<admissible, agreed, serving, invited, confirmed, streams>>

\* The receiver has the client's index and is prepared.
Confirm(c) ==
    /\ serving = c /\ place[c] \in {"inside", "gone"} /\ c \notin confirmed
    /\ confirmed' = confirmed \cup Told(c) /\ streams' = 0
    /\ UNCHANGED <<admissible, agreed, serving, place, invited>>

\* The client begins to send.
SendData(c) ==
    /\ place[c] = "inside" /\ c \in confirmed
    /\ place' = [place EXCEPT ![c] = "sending"]
    /\ UNCHANGED <<admissible, agreed, serving, invited, confirmed, streams>>

\* The receiver takes a stream.
Take(c) ==
    /\ serving = c /\ place[c] \in {"sending", "gone"} /\ streams < NumStreams
    /\ streams' = streams + 1
    /\ UNCHANGED <<admissible, agreed, serving, place, invited, confirmed>>

\* The client returns or is killed.
Leave(c) ==
    /\ place[c] # "gone"
    /\ place' = [place EXCEPT ![c] = "gone"]
    /\ invited' = invited \ {c} /\ confirmed' = confirmed \ {c}
    /\ UNCHANGED <<admissible, agreed, serving, streams>>

\* The session is over, one way or another.
End ==
    /\ serving # NoClient
    /\ serving' = NoClient /\ streams' = 0
    /\ UNCHANGED <<admissible, agreed, place, invited, confirmed>>

Next ==
    \/ End
    \/ \E c \in Clients :
         Admit(c) \/ Enter(c) \/ Confirm(c) \/ SendData(c) \/ Take(c) \/ Leave(c)

Spec == Init /\ [][Next]_vars
==============================================================================
