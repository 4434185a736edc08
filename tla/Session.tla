------------------------------- MODULE Session -------------------------------
(***************************************************************************)
(* The control connection: the loop of run_receiver (src/src/receiver.rs)   *)
(* that serves one client after another, against the handshake of           *)
(* run_sender (src/src/sender.rs), the speedtest and the benchmark, for      *)
(* several clients that connect to one listener at any time.                *)
(*                                                                          *)
(* The bytes of the control connection carry no tags: whether a challenge,   *)
(* a pairing code or another speedtest round comes next is something each    *)
(* side infers from flags it has read.  Data, speedtest and benchmark        *)
(* streams arrive at the same listener as control connections do.            *)
(*                                                                          *)
(* The listener that the benchmark command opens without an address          *)
(* (src/src/main.rs) is a receiver of its own kind: it repeats the handshake, *)
(* serves benchmarks only, and goes on to the next client after any failure.  *)
(*                                                                          *)
(* Covered: the accept loops, the reads and writes of the control connection *)
(* with their error paths (leave the session, leave run_receiver, report an  *)
(* error or success), version, encryption and key mismatches, pairing,       *)
(* speedtest rounds, dry runs, stream connections, clients that die.         *)
(* Abstracted: what the streams carry (module Transfer), the measured        *)
(* speeds; a key is a value, HMAC and session keys are equality of keys.     *)
(***************************************************************************)
EXTENDS Naturals, Sequences

CONSTANTS
    Clients,          \* processes that call run_sender or the benchmark once
    NoClient,         \* none of them
    ReceiverConfigs,  \* ReceiverOptions: [loop, key, encrypt, interactive, bench],
                      \*   bench for the listener of the benchmark command
    ClientConfigs,    \* SenderOptions and arguments:
                      \*   [mode, version, key, encrypt, code, tune, dry] and active,
                      \*   the buckets of its transfer list that have files
    TestConfigs,      \* stream counts of the speedtest rounds, <<1, 2, 4, 8>>
    NumStreams,       \* streams of a transfer or a benchmark
    MaxDeaths         \* bound: clients that die

NoKey == "nokey"  \* no --auth

ASSUME ClientsAssumption == NoClient \notin Clients
ASSUME CountsAssumption ==
    /\ NumStreams \in Nat \ {0} /\ MaxDeaths \in Nat /\ TestConfigs \in Seq(Nat \ {0})
    /\ \A g \in ClientConfigs : g.active \in 0..NumStreams
ASSUME KeysAssumption ==  \* --encrypt requires --auth
    \A g \in ReceiverConfigs \cup ClientConfigs : g.encrypt => g.key # NoKey

VARIABLES
    rcv,      \* the receiver's options
    rpc,      \* where run_receiver is
    cur,      \* the client of the control connection it serves
    mode,     \* the mode that client announced
    got,      \* streams accepted in the current accept loop
    want,     \* streams to accept
    mine,     \* how many of them are streams of cur
    cfg,      \* the clients' options
    cpc,      \* where each client is
    round,    \* its speedtest round
    made,     \* streams it has connected for the current purpose
    toR, toC, \* messages in flight on each client's control connection
    backlog,  \* connections the listener has not accepted, in order
    deaths

rVars == <<rcv, rpc, cur, mode, got, want, mine>>
cVars == <<cfg, cpc, round, made>>
vars == <<rVars, cVars, toR, toC, backlog, deaths>>

Gone(c) == cpc[c] \in {"ok", "err", "dead"}
Listening == rpc \notin {"ok", "err"}

Msg(type, val) == [type |-> type, val |-> val]
Conn(c, kind) == [from |-> c, kind |-> kind]

Init ==
    /\ rcv \in ReceiverConfigs /\ cfg \in [Clients -> ClientConfigs]
    /\ rpc = "accept" /\ cur = NoClient /\ mode = 1
    /\ got = 0 /\ want = 0 /\ mine = 0
    /\ cpc = [c \in Clients |-> "start"] /\ round = [c \in Clients |-> 0]
    /\ made = [c \in Clients |-> 0]
    /\ toR = [c \in Clients |-> <<>>] /\ toC = [c \in Clients |-> <<>>]
    /\ backlog = <<>> /\ deaths = 0

------------------------------------------------------------------------------
(* The client.                                                               *)

Goto(c, pc) == cpc' = [cpc EXCEPT ![c] = pc]
Send(c, msgs) == toR' = [toR EXCEPT ![c] = @ \o msgs]
Read(c, type) ==
    /\ toC[c] # <<>> /\ Head(toC[c]).type = type
    /\ toC' = [toC EXCEPT ![c] = Tail(@)]
Val(c) == Head(toC[c]).val

\* With different keys the first encrypted byte cannot be decrypted.
Garbled(c) == cfg[c].encrypt /\ cfg[c].key # rcv.key

\* connect(), the magic bytes, mode, version, encrypt flag and nonce.
CConnect(c) ==
    /\ cpc[c] = "start"
    /\ IF Listening
       THEN /\ Goto(c, IF cfg[c].encrypt THEN "nonce" ELSE "auth")
            /\ backlog' = Append(backlog, Conn(c, "control"))
            /\ Send(c, <<Msg("hello", [mode |-> cfg[c].mode, version |-> cfg[c].version,
                                       encrypt |-> cfg[c].encrypt])>>
                       \o IF cfg[c].encrypt THEN <<Msg("nonce", c)>> ELSE <<>>)
       ELSE Goto(c, "err") /\ UNCHANGED <<backlog, toR>>
    /\ UNCHANGED <<rVars, cfg, round, made, toC, deaths>>

CNonce(c) ==
    /\ cpc[c] = "nonce" /\ Read(c, "nonce")
    /\ Goto(c, "auth")
    /\ UNCHANGED <<rVars, cfg, round, made, toR, backlog, deaths>>

\* Mutant of AuthExpected: a key that the receiver does not ask for is let pass.
KeyWasted(c) == Val(c) => cfg[c].key # NoKey

\* The receiver must ask for a key exactly when the client has one.
AuthExpected(c) == Val(c) = (cfg[c].key # NoKey)

CAuth(c) ==
    /\ cpc[c] = "auth" /\ Read(c, "auth")
    /\ IF Garbled(c) \/ ~AuthExpected(c)
       THEN Goto(c, "err")
       ELSE Goto(c, IF Val(c) THEN "challenge" ELSE "pair")
    /\ UNCHANGED <<rVars, cfg, round, made, toR, backlog, deaths>>

CChallenge(c) ==
    /\ cpc[c] = "challenge" /\ Read(c, "challenge")
    /\ Send(c, <<Msg("response", cfg[c].key)>>)
    /\ Goto(c, "verdict")
    /\ UNCHANGED <<rVars, cfg, round, made, backlog, deaths>>

CVerdict(c) ==
    /\ cpc[c] = "verdict" /\ Read(c, "verdict")
    /\ Goto(c, IF Val(c) THEN "pair" ELSE "err")
    /\ UNCHANGED <<rVars, cfg, round, made, toR, backlog, deaths>>

\* --yes without a pairing code fails; otherwise the user types the code.
CPair(c) ==
    /\ cpc[c] = "pair" /\ Read(c, "pair")
    /\ \/ ~Val(c) /\ Goto(c, "tune") /\ UNCHANGED toR
       \/ Val(c) /\ cfg[c].code = "none" /\ Goto(c, "err") /\ UNCHANGED toR
       \/ Val(c) /\ cfg[c].code # "none" /\ Goto(c, "paired")
          /\ Send(c, <<Msg("code", cfg[c].code)>>)
    /\ UNCHANGED <<rVars, cfg, round, made, backlog, deaths>>

CPaired(c) ==
    /\ cpc[c] = "paired" /\ Read(c, "paired")
    /\ Goto(c, IF Val(c) THEN "tune" ELSE "err")
    /\ UNCHANGED <<rVars, cfg, round, made, toR, backlog, deaths>>

\* Mutant of TransferHeader: command 0 is sent twice.
HeaderTwoGos(c) == <<Msg("go", 0), Msg("go", 0), Msg("index", cfg[c].dry)>>

\* Command 0, then the stream count, the flags and the index.
TransferHeader(c) == <<Msg("go", 0), Msg("index", cfg[c].dry)>>

\* A benchmark, a speedtest round (command 1 and a stream count), or the
\* transfer.
CTune(c) ==
    /\ cpc[c] = "tune"
    /\ \/ /\ cfg[c].mode = 3
          /\ Send(c, <<Msg("test", NumStreams)>>)
          /\ Goto(c, "ready") /\ UNCHANGED round
       \/ /\ cfg[c].mode # 3 /\ cfg[c].tune /\ round[c] < Len(TestConfigs)
          /\ Send(c, <<Msg("test", TestConfigs[round[c] + 1])>>)
          /\ round' = [round EXCEPT ![c] = @ + 1]
          /\ Goto(c, "ready")
       \/ /\ cfg[c].mode # 3 /\ (cfg[c].tune => round[c] = Len(TestConfigs))
          /\ Send(c, TransferHeader(c))
          /\ Goto(c, "list") /\ UNCHANGED round
    /\ UNCHANGED <<rVars, cfg, made, toC, backlog, deaths>>

CReady(c) ==
    /\ cpc[c] = "ready" /\ Read(c, "ready")
    /\ Goto(c, "burst")
    /\ made' = [made EXCEPT ![c] = 0]
    /\ UNCHANGED <<rVars, cfg, round, toR, backlog, deaths>>

\* The connections the client makes, and the magic bytes it writes on them: a
\* speedtest stream has the data stream's, and a bit set in its index.
StreamsToMake(c) ==
    IF cpc[c] = "data" THEN cfg[c].active
    ELSE IF cfg[c].mode = 3 THEN NumStreams ELSE TestConfigs[round[c]]
StreamKind(c) ==
    IF cpc[c] = "data" THEN "data" ELSE IF cfg[c].mode = 3 THEN "bench" ELSE "test"

\* A stream is connected; when the listener is gone that fails.
CStream(c) ==
    /\ cpc[c] \in {"burst", "data"} /\ made[c] < StreamsToMake(c)
    /\ IF Listening
       THEN /\ backlog' = Append(backlog, Conn(c, StreamKind(c)))
            /\ made' = [made EXCEPT ![c] = @ + 1]
            /\ UNCHANGED cpc
       ELSE Goto(c, "err") /\ UNCHANGED <<backlog, made>>
    /\ UNCHANGED <<rVars, cfg, round, toR, toC, deaths>>

\* A connection of c that nobody has accepted: what c writes to it fills the
\* buffers of the two kernels, and then blocks.  (The benchmark shuts its
\* sockets down before it joins the threads.)
Blocked(c) ==
    cfg[c].mode # 3 /\ \E k \in DOMAIN backlog : backlog[k].from = c /\ backlog[k].kind # "control"

\* The time of a burst is over and its threads are joined; the benchmark waits
\* for no answer.
CBurstEnds(c) ==
    /\ cpc[c] = "burst" /\ made[c] = StreamsToMake(c)
    /\ Goto(c, IF cfg[c].mode = 3 THEN "ok" ELSE "speed")
    /\ UNCHANGED <<rVars, cfg, round, made, toR, toC, backlog, deaths>>

CSpeed(c) ==
    /\ cpc[c] = "speed" /\ Read(c, "speed")
    /\ Goto(c, "tune")
    /\ UNCHANGED <<rVars, cfg, round, made, toR, backlog, deaths>>

CList(c) ==
    /\ cpc[c] = "list" /\ Read(c, "list")
    /\ Goto(c, IF cfg[c].dry THEN "ok" ELSE "confirm")
    /\ UNCHANGED <<rVars, cfg, round, made, toR, backlog, deaths>>

CConfirm(c) ==
    /\ cpc[c] = "confirm" /\ Read(c, "confirm")
    /\ Goto(c, "data")
    /\ made' = [made EXCEPT ![c] = 0]
    /\ UNCHANGED <<rVars, cfg, round, toR, backlog, deaths>>

\* All streams written, or failed: the client returns without an answer.
CDone(c) ==
    /\ cpc[c] = "data" /\ made[c] = StreamsToMake(c)
    /\ \E st \in {"ok", "err"} : Goto(c, st)
    /\ UNCHANGED <<rVars, cfg, round, made, toR, toC, backlog, deaths>>

\* The receiver has closed the control connection of c.
Closed(c) ==
    cur # c /\ \A k \in DOMAIN backlog : backlog[k] # Conn(c, "control")

CEof(c) ==
    /\ cpc[c] \in {"nonce", "auth", "challenge", "verdict", "pair", "paired",
                   "ready", "speed", "list", "confirm"}
    /\ toC[c] = <<>> /\ Closed(c)
    /\ Goto(c, "err")
    /\ UNCHANGED <<rVars, cfg, round, made, toR, toC, backlog, deaths>>

\* The client is killed; what it was about to send may be lost.
CDies(c) ==
    /\ deaths < MaxDeaths /\ cpc[c] # "start" /\ ~Gone(c)
    /\ deaths' = deaths + 1
    /\ Goto(c, "dead")
    /\ \E k \in 0..Len(toR[c]) : toR' = [toR EXCEPT ![c] = SubSeq(@, 1, k)]
    /\ UNCHANGED <<rVars, cfg, round, made, toC, backlog>>

------------------------------------------------------------------------------
(* The receiver.                                                             *)

\* run_receiver returns; the listener and its backlog are gone.
RReturn(st) ==
    /\ rpc' = st /\ cur' = NoClient /\ backlog' = <<>>
    /\ UNCHANGED <<rcv, mode, got, want, mine>>

\* `continue`: the control connection is closed, q is left to accept.
NextClient(q) ==
    /\ rpc' = "accept" /\ cur' = NoClient /\ backlog' = q
    /\ UNCHANGED <<rcv, mode, got, want, mine>>

\* Mutant of GoesOn: the benchmark's listener gives up as a receiver does.
GoesOnInLoop == rcv.loop
\* After a client that was refused or lost, whether the next one is awaited.
GoesOn == rcv.loop \/ rcv.bench

\* `if !loop_mode { break; } continue;`, `if !loop_mode { return Err } continue;`
\* and `?`.  The benchmark's listener has `continue` in all these places.
EndOrNext(q) == IF GoesOn THEN NextClient(q) ELSE RReturn("ok")
FailOrNext(q) == IF GoesOn THEN NextClient(q) ELSE RReturn("err")
Fail == IF rcv.bench THEN FailOrNext(backlog) ELSE RReturn("err")

RGoto(pc) == rpc' = pc /\ UNCHANGED <<rcv, cur, mode, got, want, mine, backlog>>
\* Mutant of AcceptLoop: the streams counted before are counted again.
CountGoesOn(pc, n) ==
    rpc' = pc /\ got' = (IF got < n THEN got ELSE n) /\ want' = n /\ UNCHANGED <<rcv, cur, mode, mine, backlog>>
AcceptLoop(pc, n) ==
    /\ rpc' = pc /\ got' = 0 /\ mine' = 0 /\ want' = n
    /\ UNCHANGED <<rcv, cur, mode, backlog>>

RRead(type) ==
    /\ toR[cur] # <<>> /\ Head(toR[cur]).type = type
    /\ toR' = [toR EXCEPT ![cur] = Tail(@)]
RVal == Head(toR[cur]).val
Reply(msgs) == toC' = [toC EXCEPT ![cur] = @ \o msgs]

PairingRequired == rcv.interactive /\ rcv.key = NoKey
\* Mutant of Pairing: a code is awaited although the flag said that it is not.
PairingAnyway == IF rcv.interactive THEN "code" ELSE "serve"
Pairing == IF PairingRequired THEN "code" ELSE "serve"

\* What accept() and the reads of magic bytes and index make of the first
\* connection; nothing may have been written on it when its client died.
Kinds == {Head(backlog).kind} \cup (IF cpc[Head(backlog).from] = "dead" THEN {"eof"} ELSE {})

RAccept ==
    /\ rpc = "accept" /\ backlog # <<>>
    /\ \E kind \in Kinds :
         \/ /\ kind = "control"
            /\ rpc' = "hello" /\ cur' = Head(backlog).from
            /\ backlog' = Tail(backlog)
            /\ UNCHANGED <<rcv, mode, got, want, mine>>
         \/ kind = "eof" /\ EndOrNext(Tail(backlog))
         \/ kind \notin {"control", "eof"} /\ FailOrNext(Tail(backlog))
    /\ UNCHANGED <<cVars, toR, toC, deaths>>

Modes == IF rcv.bench THEN {3} ELSE {1, 3}

\* Mutant of Acceptable: the encrypt flag is not compared.
EncryptNotCompared(h) == h.mode \in Modes /\ h.version = 2

\* Mode, version and encrypt flag, each of which is refused in the same way.
Acceptable(h) == h.mode \in Modes /\ h.version = 2 /\ h.encrypt = rcv.encrypt

RHello ==
    /\ rpc = "hello" /\ RRead("hello")
    /\ IF Acceptable(RVal)
       THEN /\ rpc' = IF rcv.encrypt THEN "nonce" ELSE "auth"
            /\ mode' = RVal.mode
            /\ UNCHANGED <<rcv, cur, got, want, mine, backlog>>
       ELSE FailOrNext(backlog)
    /\ UNCHANGED <<cVars, toC, deaths>>

RNonce ==
    /\ rpc = "nonce" /\ RRead("nonce")
    /\ Reply(<<Msg("nonce", 0)>>)
    /\ RGoto("auth")
    /\ UNCHANGED <<cVars, deaths>>

\* The auth flag, with a challenge when there is a key; without one the
\* pairing flag follows at once.
RAuth ==
    /\ rpc = "auth"
    /\ IF rcv.key # NoKey
       THEN Reply(<<Msg("auth", TRUE), Msg("challenge", 0)>>) /\ RGoto("response")
       ELSE Reply(<<Msg("auth", FALSE), Msg("pair", PairingRequired)>>) /\ RGoto(Pairing)
    /\ UNCHANGED <<cVars, toR, deaths>>

\* The response is the HMAC of the challenge under the client's key.
RResponse ==
    /\ rpc = "response" /\ RRead("response")
    /\ IF RVal = rcv.key
       THEN Reply(<<Msg("verdict", TRUE), Msg("pair", PairingRequired)>>) /\ RGoto(Pairing)
       ELSE Reply(<<Msg("verdict", FALSE)>>) /\ FailOrNext(backlog)
    /\ UNCHANGED <<cVars, deaths>>

RCode ==
    /\ rpc = "code" /\ RRead("code")
    /\ IF RVal = "right"
       THEN Reply(<<Msg("paired", TRUE)>>) /\ RGoto("serve")
       ELSE Reply(<<Msg("paired", FALSE)>>) /\ FailOrNext(backlog)
    /\ UNCHANGED <<cVars, deaths>>

\* A round of the speedtest, or the benchmark: the count of its streams.
RTest ==
    /\ rpc = "serve" /\ RRead("test")
    /\ Reply(<<Msg("ready", 0)>>)
    /\ AcceptLoop("testaccept", RVal)
    /\ UNCHANGED <<cVars, deaths>>

\* How the session ends after a benchmark, or one that failed: it is the only
\* one that the benchmark's listener serves.
BenchEnds(q) == IF rcv.bench THEN RReturn("ok") ELSE EndOrNext(q)
\* ... and when a speedtest fails.
TestFails(q) == IF mode = 3 THEN BenchEnds(q) ELSE FailOrNext(q)

\* The first connection is one of the streams awaited.
TakeStream ==
    /\ got' = got + 1 /\ backlog' = Tail(backlog)
    /\ mine' = IF Head(backlog).from = cur THEN mine + 1 ELSE mine

\* Any connection but a stream of its kind ends the test with an error.  Whose
\* stream it is is not known.
RTestAccept ==
    /\ rpc = "testaccept" /\ got < want /\ backlog # <<>>
    /\ \E kind \in Kinds :
         IF kind = IF mode = 3 THEN "bench" ELSE "test"
         THEN TakeStream /\ UNCHANGED <<rcv, rpc, cur, mode, want>>
         ELSE TestFails(Tail(backlog))
    /\ UNCHANGED <<cVars, toR, toC, deaths>>

\* The streams of a speedtest are read until they end, which those of cur do
\* when it has connected them all.  The benchmark ends by the receiver's clock.
RTestDone ==
    /\ rpc = "testaccept" /\ got = want
    /\ mode # 3 /\ mine > 0 /\ cpc[cur] = "burst" => made[cur] = StreamsToMake(cur)
    /\ IF mode = 3
       THEN BenchEnds(backlog) /\ UNCHANGED toC
       ELSE RGoto("serve") /\ Reply(<<Msg("speed", 0)>>)
    /\ UNCHANGED <<cVars, toR, deaths>>

RGo ==
    /\ rpc = "serve" /\ mode # 3 /\ RRead("go")
    /\ RGoto("index")
    /\ UNCHANGED <<cVars, toC, deaths>>

\* Mutants of ActiveStreams: a bucket not counted, an empty one counted.
OneMissed == IF cfg[cur].active = 0 THEN 0 ELSE cfg[cur].active - 1
OneTooMany == cfg[cur].active + 1

\* The buckets that have files.  (Both ends count them in their own partition of
\* the same list; module Transfer has both.)
ActiveStreams == cfg[cur].active

\* The index.  A path in it that is not safe refuses the session.  Otherwise
\* the transfer list is sent back; a dry run ends there; else the destination
\* is prepared (an error of which returns from run_receiver) and confirmed.
RIndex ==
    /\ rpc = "index" /\ RRead("index")
    /\ \/ FailOrNext(backlog) /\ UNCHANGED toC
       \/ RVal /\ EndOrNext(backlog) /\ Reply(<<Msg("list", 0)>>)
       \/ ~RVal /\ Fail /\ Reply(<<Msg("list", 0)>>)
       \/ ~RVal /\ AcceptLoop("dataaccept", ActiveStreams)
          /\ Reply(<<Msg("list", 0), Msg("confirm", 0)>>)
    /\ UNCHANGED <<cVars, deaths>>

\* Any connection but a data stream makes run_receiver return, in loop mode
\* too.  Whose stream it is is not known.
RDataAccept ==
    /\ rpc = "dataaccept" /\ got < want /\ backlog # <<>>
    /\ \E kind \in Kinds :
         \/ /\ kind = "data"
            /\ TakeStream /\ UNCHANGED <<rcv, rpc, cur, mode, want>>
         \/ kind # "data" /\ Fail
    /\ UNCHANGED <<cVars, toR, toC, deaths>>

\* The streams joined: an error of any returns from run_receiver.  So does, in
\* loop mode, a user who does not choose the next destination.
RJoin ==
    /\ rpc = "dataaccept" /\ got = want
    /\ EndOrNext(backlog) \/ Fail \/ (rcv.interactive /\ RReturn("ok"))
    /\ UNCHANGED <<cVars, toR, toC, deaths>>

\* The client is gone before the next message.  The end of the stream in the
\* magic bytes, the response and the code is expected; in the speedtest it is
\* an error of the session; anywhere else it is an error of run_receiver.
REof ==
    /\ cur # NoClient /\ Gone(cur) /\ toR[cur] = <<>>
    /\ \/ rpc = "hello" /\ (EndOrNext(backlog) \/ Fail)
       \/ rpc \in {"response", "code"} /\ EndOrNext(backlog)
       \/ rpc = "serve" /\ TestFails(backlog)
       \/ rpc \in {"nonce", "index"} /\ Fail
    /\ UNCHANGED <<cVars, toR, toC, deaths>>

\* A write to a client that is gone may fail (or not, as above).
RWriteFails ==
    /\ cur # NoClient /\ Gone(cur)
    /\ \/ rpc = "auth" /\ Fail
       \/ rpc \in {"nonce", "response", "code", "index"} /\ toR[cur] # <<>> /\ Fail
       \/ rpc = "serve" /\ toR[cur] # <<>> /\ Head(toR[cur]).type = "test" /\ TestFails(backlog)
       \/ rpc = "testaccept" /\ mode # 3 /\ got = want /\ FailOrNext(backlog)
    /\ UNCHANGED <<cVars, toR, toC, deaths>>

------------------------------------------------------------------------------
\* What ends by itself, unless it is blocked on a connection nobody accepts.
Finish(c) == CBurstEnds(c) \/ CDone(c)

Client(c) ==
    \/ CConnect(c) \/ CNonce(c) \/ CAuth(c) \/ CChallenge(c) \/ CVerdict(c)
    \/ CPair(c) \/ CPaired(c) \/ CTune(c) \/ CReady(c) \/ CStream(c)
    \/ CSpeed(c) \/ CList(c) \/ CConfirm(c) \/ CEof(c)

Receiver ==
    \/ RAccept \/ RHello \/ RNonce \/ RAuth \/ RResponse \/ RCode
    \/ RTest \/ RTestAccept \/ RTestDone \/ RGo \/ RIndex
    \/ RDataAccept \/ RJoin \/ REof \/ RWriteFails

Next ==
    \/ Receiver
    \/ \E c \in Clients : Client(c) \/ Finish(c) \/ CDies(c)

Spec == Init /\ [][Next]_vars

\* Both programs run whenever they can; no client has to be killed.
Fairness ==
    /\ WF_vars(Receiver)
    /\ \A c \in Clients : WF_vars(Client(c)) /\ WF_vars(~Blocked(c) /\ Finish(c))

FairSpec == Spec /\ Fairness

------------------------------------------------------------------------------
Types == {"hello", "nonce", "response", "code", "test", "go", "index"}
Replies == {"nonce", "auth", "challenge", "verdict", "pair", "paired", "ready",
            "speed", "list", "confirm"}

\* The types of the variables.  No more than three messages are ever in flight,
\* since each side waits for an answer after its writes.
TypeOK ==
    /\ rcv \in ReceiverConfigs /\ cfg \in [Clients -> ClientConfigs]
    /\ rpc \in {"accept", "hello", "nonce", "auth", "response", "code", "serve",
                "testaccept", "index", "dataaccept", "ok", "err"}
    /\ cur \in Clients \cup {NoClient} /\ mode \in {1, 3}
    /\ (cur = NoClient) = (rpc \in {"accept", "ok", "err"})
    /\ want \in Nat /\ got \in 0..want /\ mine \in 0..got
    /\ cpc \in [Clients -> Replies \cup {"start", "tune", "burst", "data", "ok", "err", "dead"}]
    /\ round \in [Clients -> 0..Len(TestConfigs)] /\ made \in [Clients -> Nat]
    /\ \A c \in Clients : cpc[c] \in {"burst", "data"} => made[c] <= StreamsToMake(c)
    /\ \A c \in Clients : Len(toR[c]) <= 2 /\ \A k \in DOMAIN toR[c] : toR[c][k].type \in Types
    /\ \A c \in Clients : Len(toC[c]) <= 3 /\ \A k \in DOMAIN toC[c] : toC[c][k].type \in Replies
    /\ \A k \in DOMAIN backlog : backlog[k].from \in Clients
    /\ deaths \in 0..MaxDeaths

\* Mode and flags decide the same way at both ends what the next untagged
\* bytes of the control connection are (sender.rs:507-664, receiver.rs:325-450).
HandshakeInStep ==
    /\ \A c \in Clients : cpc[c] \in Replies /\ toC[c] # <<>> => Head(toC[c]).type = cpc[c]
    /\ cur # NoClient /\ toR[cur] # <<>> =>
        LET next == Head(toR[cur]).type IN
        /\ rpc \in {"hello", "nonce", "response", "code", "index"} => next = rpc
        /\ rpc = "serve" => next \in {"test", "go"}

\* The client has gone through the handshake; the receiver has, with c.
ClientReady(c) == cpc[c] \in {"tune", "ready", "burst", "speed", "list", "confirm", "data"}
ReceiverReady(c) == cur = c /\ rpc \in {"serve", "testaccept", "index", "dataaccept"}

\* Nobody is served who was not to be, and no client goes on with a receiver
\* that is not its own: version, encryption and key agree, and where pairing is
\* on the code was right (sender.rs:507-583, receiver.rs:276-408).
HandshakeAgreement ==
    \A c \in Clients :
        /\ ClientReady(c) \/ ReceiverReady(c) =>
              /\ cfg[c].version = 2 /\ cfg[c].encrypt = rcv.encrypt
              /\ PairingRequired => cfg[c].code = "right"
        /\ ClientReady(c) \/ (ReceiverReady(c) /\ rcv.key # NoKey) => cfg[c].key = rcv.key

\* A data stream is a client's only by the time it is accepted at: the data
\* streams that the receiver writes to its files come from the client whose
\* index it has (receiver.rs:606-634).
DataStreamsOwn == rpc = "dataaccept" => mine = got

\* A client that was to tune is killed: nobody may ever accept what it has
\* connected, or another client's speedtest may count it for its own.
TunerDied == \E c \in Clients : cpc[c] = "dead" /\ cfg[c].tune

\* Every client comes to an end, whoever else connects or dies (but for the
\* above): no message is awaited that the receiver does not send, and a
\* refused or forgotten client reads the end of its stream (sender.rs:507-669).
ClientsFinish == <>(TunerDied \/ \A c \in Clients : Gone(c))

\* When no client is killed, the receiver ends every session it begins: it does
\* not read or accept what no client sends (receiver.rs:265-637).
ReceiverFinishes == <>[](deaths > 0 \/ rpc \in {"accept", "ok", "err"})

\* The benchmark's listener outlasts whatever comes before a benchmark: clients
\* that are refused, want something else, break off or are killed.  It returns
\* only from the test itself, and never with an error (main.rs:342-463).
BenchOutlasts ==
    [][rcv.bench /\ rpc' \in {"ok", "err"} =>
          rpc' = rpc \/ (rpc \in {"serve", "testaccept"} /\ rpc' = "ok")]_vars

\* What the receiver makes sure of, and what the client does.
Suits(c) ==
    /\ cfg[c].version = 2 /\ cfg[c].encrypt = rcv.encrypt
    /\ PairingRequired => cfg[c].code = "right"
Admissible == {c \in Clients : Suits(c) /\ (rcv.key # NoKey => cfg[c].key = rcv.key)}
Content == {c \in Clients : Suits(c) /\ cfg[c].key = rcv.key}

\* Whom the receiver serves after the handshake, and the streams it has for the
\* transfer; where a client is.
Serving == IF rpc \in {"serve", "testaccept", "index", "dataaccept"} THEN cur ELSE NoClient
Taken == IF rpc = "dataaccept" THEN got ELSE 0
Place(c) ==
    IF Gone(c) THEN "gone"
    ELSE IF cpc[c] = "data" THEN "sending"
    ELSE IF ClientReady(c) THEN "inside" ELSE "outside"

\* The clients that have been let in, or will read that they are; and those that
\* have been told to send their data, or will be.
Welcome == {Msg("pair", FALSE), Msg("paired", TRUE)}
LetIn(c) == ReceiverReady(c) \/ ClientReady(c) \/ \E k \in DOMAIN toC[c] : toC[c][k] \in Welcome
Confirmed(c) == cpc[c] = "data" \/ \E k \in DOMAIN toC[c] : toC[c][k].type = "confirm"

\* The loop of run_receiver serves one client at a time, and each as Service
\* says: nobody goes on who was not admitted, whose index was not confirmed or
\* whose streams those are not, whoever else connects, aborts or is killed at
\* any moment (receiver.rs:245-637, sender.rs:495-719).
Kept == INSTANCE Service WITH
    admissible <- Admissible, agreed <- Content, serving <- Serving, streams <- Taken,
    place <- [c \in Clients |-> Place(c)],
    invited <- {c \in Clients : ~Gone(c) /\ LetIn(c)},
    confirmed <- {c \in Clients : ~Gone(c) /\ Confirmed(c)}
OneAtATime == Kept!Spec

\* A receiver in loop mode goes on listening whatever its clients do.
LoopPersistent == rcv.loop => rpc # "err"
==============================================================================
