------------------------------ MODULE MCSession ------------------------------
(* Instances of Session: two or three clients with few options each.         *)
EXTENDS Session

Rcv(loop, key, encrypt, interactive) ==
    [loop |-> loop, key |-> key, encrypt |-> encrypt, interactive |-> interactive,
     bench |-> FALSE]
Bench(key, encrypt, interactive) ==
    [Rcv(FALSE, key, encrypt, interactive) EXCEPT !.bench = TRUE]
Plain == [mode |-> 1, version |-> 2, key |-> NoKey, encrypt |-> FALSE,
          code |-> "none", tune |-> FALSE, dry |-> FALSE, active |-> NumStreams]

\* Every kind of receiver, and a client for every way a handshake may go.
AllReceivers ==
    {Rcv(l, NoKey, FALSE, i) : l, i \in BOOLEAN} \cup {Rcv(l, "k", e, TRUE) : l, e \in BOOLEAN}
    \cup {Bench(NoKey, FALSE, i) : i \in BOOLEAN} \cup {Bench("k", e, TRUE) : e \in BOOLEAN}
AllClients ==
    {[Plain EXCEPT !.code = x] : x \in {"none", "right", "wrong"}}
    \cup {[Plain EXCEPT !.key = k, !.encrypt = e] : k \in {"k", "other"}, e \in BOOLEAN}
    \cup {[Plain EXCEPT !.version = 1], [Plain EXCEPT !.tune = TRUE],
          [Plain EXCEPT !.dry = TRUE], [Plain EXCEPT !.active = 0],
          [Plain EXCEPT !.mode = 3, !.code = "right"],
          [Plain EXCEPT !.mode = 3, !.key = "k", !.encrypt = TRUE]}

\* No handshake to speak of: what matters is who connects when.
LoopOnly == {Rcv(TRUE, NoKey, FALSE, FALSE)}
Untuned == {Plain, [Plain EXCEPT !.mode = 3], [Plain EXCEPT !.dry = TRUE]}
Tuning == {[Plain EXCEPT !.tune = TRUE]}
Busy == Untuned \cup Tuning

OneTwo == <<1, 2>>
One == <<1>>
==============================================================================
