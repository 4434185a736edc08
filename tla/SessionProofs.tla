---------------------------- MODULE SessionProofs ----------------------------
(***************************************************************************)
(* Proofs about Session, for any number of clients, any options and any    *)
(* number of deaths.                                                       *)
(*                                                                         *)
(* The messages carry no tags, so what is proved first is what can be in   *)
(* flight: only what the options of the two make them say (Worded), and at *)
(* every place of the receiver only a few combinations of where its client *)
(* is and what either has not read yet (Script, Talking).  What each has   *)
(* verified is known from where it is and from whether an answer is on its *)
(* way (Agreed).  A client is served or waits in the backlog once          *)
(* (Single).  Whose the data streams are follows from counting those       *)
(* accepted and those that wait: no more than the client made, and it      *)
(* leaves no sooner than all are accepted (Owned).                         *)
(*                                                                         *)
(* A step is first reduced to its shape: what a receiver's or a client's   *)
(* action may do to the variables whichever it is (ReceiverMoves,          *)
(* ClientMoves).  The conjuncts that need no more are proved from it.      *)
(*                                                                         *)
(* The last part takes each step to one of Service.  What that sees of a   *)
(* client is where it is and whether two of the messages are on their way; *)
(* the script says when they are not.                                      *)
(***************************************************************************)
EXTENDS Session, FiniteSetTheorems, TLAPS

------------------------------------------------------------------------------
(* The invariant.                                                          *)

Ended == {"ok", "err", "dead"}
Stages == {"hello", "nonce", "auth", "response", "code", "serve", "testaccept",
           "index", "dataaccept", "refused"}
Places == Replies \cup Ended \cup {"start", "tune", "burst", "data"}

\* What a client may have written, and what the receiver may have written to it:
\* nothing but what the options of the two make it.
Counts == {NumStreams} \cup {TestConfigs[i] : i \in DOMAIN TestConfigs}
Hello(c) == [mode |-> cfg[c].mode, version |-> cfg[c].version, encrypt |-> cfg[c].encrypt]
Said(c) ==
    {Msg("hello", Hello(c)), Msg("nonce", c), Msg("response", cfg[c].key),
     Msg("code", cfg[c].code), Msg("go", 0), Msg("index", cfg[c].dry)}
    \cup {Msg("test", n) : n \in Counts}
Told(c) ==
    {Msg("nonce", 0), Msg("auth", rcv.key # NoKey), Msg("challenge", 0),
     Msg("verdict", cfg[c].key = rcv.key), Msg("pair", PairingRequired),
     Msg("paired", cfg[c].code = "right"), Msg("ready", 0), Msg("speed", 0),
     Msg("list", 0), Msg("confirm", 0)}

Conns == [from : Clients, kind : {"control", "data", "test", "bench"}]

Typed ==
    /\ rcv \in ReceiverConfigs /\ cfg \in [Clients -> ClientConfigs]
    /\ rpc \in {"accept", "ok", "err"} \cup (Stages \ {"refused"})
    /\ cur \in Clients \cup {NoClient} /\ mode \in {1, 3}
    /\ (cur = NoClient) = (rpc \in {"accept", "ok", "err"})
    /\ want \in Nat /\ got \in 0..want /\ mine \in 0..got
    /\ cpc \in [Clients -> Places]
    /\ round \in [Clients -> 0..Len(TestConfigs)] /\ made \in [Clients -> Nat]
    /\ DOMAIN toR = Clients /\ DOMAIN toC = Clients
    /\ backlog \in Seq(Conns)
    /\ deaths \in 0..MaxDeaths

Worded == \A c \in Clients : toR[c] \in Seq(Said(c)) /\ toC[c] \in Seq(Told(c))

\* The counts of a client's streams.
Counted ==
    \A c \in Clients :
        /\ cpc[c] \in {"ready", "burst"} /\ cfg[c].mode # 3 => round[c] > 0
        /\ cpc[c] \in {"burst", "data"} => made[c] <= StreamsToMake(c)

\* The benchmark's listener serves benchmarks only.
BenchOnly ==
    rcv.bench => /\ rpc \notin {"index", "dataaccept"}
                 /\ rpc \notin {"accept", "hello", "ok", "err"} => mode = 3

\* What each has made sure of when it is where it is.
Greeted(c) == cfg[c].version = 2 /\ cfg[c].encrypt = rcv.encrypt
Agreed ==
    \A c \in Clients :
        /\ (cur = c /\ rpc # "hello") \/ toC[c] # <<>> => Greeted(c)
        /\ cpc[c] \in {"challenge", "verdict", "pair", "paired"} \/ ClientReady(c) => Greeted(c)
        /\ cpc[c] \in {"pair", "paired"} \/ ClientReady(c) => cfg[c].key = rcv.key
        /\ ClientReady(c) /\ PairingRequired => cfg[c].code = "right"
        /\ cur = c /\ rpc = "response" => rcv.key # NoKey
        /\ cur = c /\ rpc = "code" => PairingRequired
        /\ ReceiverReady(c) =>
              /\ PairingRequired => cfg[c].code = "right"
              /\ rcv.key # NoKey => cfg[c].key = rcv.key

\* The types of the messages in flight.
TypesOf(s) == [i \in DOMAIN s |-> s[i].type]

None == <<>>
One(a) == <<a>>
Two(a, b) == <<a, b>>
Three(a, b, d) == <<a, b, d>>

\* The dialogue: where a client is, and what is in flight in either direction,
\* while the receiver is at r.  What a client said may be lost when it is killed.
\* The client goes on as far as it can when the dialogue is broken off.
Script(r, c, pc, tr, tc) ==
    LET Row(p, s, t) ==
            (pc = p \/ pc \in Ended) /\ (tr = s \/ (pc \in Ended /\ tr = None)) /\ tc = t
        Keyed == rcv.key # NoKey
    IN
    \/ r = "hello" /\ cfg[c].encrypt
       /\ (Row("nonce", Two("hello", "nonce"), None) \/ Row("dead", One("hello"), None))
    \/ r = "hello" /\ ~cfg[c].encrypt /\ Row("auth", One("hello"), None)
    \/ r = "nonce" /\ Row("nonce", One("nonce"), None)
    \/ r = "auth" /\ (Row("nonce", None, One("nonce")) \/ Row("auth", None, None))
    \/ r = "response" /\ Keyed
       /\ \/ Row("nonce", None, Three("nonce", "auth", "challenge"))
          \/ Row("auth", None, Two("auth", "challenge"))
          \/ Row("challenge", None, One("challenge"))
          \/ Row("verdict", One("response"), None)
    \/ r = "code" /\ PairingRequired /\ Row("paired", One("code"), None)
    \/ r \in {"code", "serve"} /\ ~Keyed /\ (PairingRequired <=> r = "code")
       /\ \/ Row("nonce", None, Three("nonce", "auth", "pair"))
          \/ Row("auth", None, Two("auth", "pair"))
          \/ Row("pair", None, One("pair"))
    \/ r = "serve" /\ Keyed
       /\ (Row("verdict", None, Two("verdict", "pair")) \/ Row("pair", None, One("pair")))
    \/ r = "serve"
       /\ \/ Row("paired", None, One("paired"))
          \/ Row("ready", None, Two("ready", "speed"))
          \/ Row("burst", None, One("speed"))
          \/ Row("speed", None, One("speed"))
          \/ Row("tune", None, None)
          \/ Row("ready", One("test"), None)
          \/ Row("list", Two("go", "index"), None) \/ Row("dead", One("go"), None)
    \/ r = "testaccept"
       /\ \/ Row("ready", None, One("ready"))
          \/ Row("burst", None, None)
          \/ Row("speed", None, None)
    \/ r = "index" /\ Row("list", One("index"), None)
    \/ r = "dataaccept"
       /\ \/ Row("list", None, Two("list", "confirm"))
          \/ Row("confirm", None, One("confirm"))
          \/ Row("data", None, None)
    \/ r = "refused"
       /\ \/ Row("verdict", None, One("verdict"))
          \/ Row("pair", None, None)
          \/ Row("list", None, One("list"))
          \/ Row("list", None, None)
          \/ Row("confirm", None, None)

Scripted(c, r) == Script(r, c, cpc[c], TypesOf(toR[c]), TypesOf(toC[c]))

\* The control connection of c waits to be accepted.
Waits(c) == \E k \in DOMAIN backlog : backlog[k] = Conn(c, "control")

Talking ==
    \A c \in Clients :
        IF cpc[c] = "start" THEN cur # c /\ ~Waits(c) /\ toR[c] = <<>> /\ toC[c] = <<>>
        ELSE IF cur = c THEN ~Waits(c) /\ Scripted(c, rpc)
        ELSE IF Waits(c) THEN Scripted(c, "hello")
        ELSE \E r \in Stages : Scripted(c, r)

\* A client connects to the receiver once.
Single ==
    \A j, k \in DOMAIN backlog :
        backlog[j].kind = "control" /\ backlog[j] = backlog[k] => j = k

\* The data streams that wait to be accepted, and their client.
DataIn(q) == {k \in DOMAIN q : q[k].kind = "data"}
Served(c) == cur = c /\ rpc = "dataaccept"
\* The client has connected all its data streams.
Paid(c) == cfg[c].active = 0 \/ (cpc[c] = "data" /\ made[c] = cfg[c].active)
Owned ==
    /\ \A k \in DataIn(backlog) : Served(backlog[k].from)
    /\ rpc = "dataaccept" =>
         LET n == got + Cardinality(DataIn(backlog)) IN
         /\ mine = got /\ want = cfg[cur].active /\ n <= want
         /\ cpc[cur] = "data" => n <= made[cur]
         /\ cpc[cur] \notin Ended \cup {"data"} => n = 0
    /\ \A c \in Clients : ~Gone(c) /\ Confirmed(c) => Served(c) \/ ~Listening \/ Paid(c)

SessionInv ==
    Typed /\ Worded /\ Counted /\ BenchOnly /\ Agreed /\ Talking /\ Single /\ Owned
------------------------------------------------------------------------------
(* Sequences of messages.                                                    *)

\* What reading and writing do to a sequence of messages of a set S, and to
\* the types of the messages.
LEMMA ReadFacts ==
    ASSUME NEW S, NEW s \in Seq(S), s # <<>>
    PROVE  /\ Tail(s) \in Seq(S) /\ Head(s) \in S
           /\ Len(Tail(s)) = Len(s) - 1 /\ Len(s) \in Nat \ {0}
           /\ \A i \in 1..Len(Tail(s)) : Tail(s)[i] = s[i + 1]
OBVIOUS

\* What appending to a sequence of messages gives.
LEMMA WriteFacts ==
    ASSUME NEW S, NEW s \in Seq(S), NEW t \in Seq(S)
    PROVE  /\ s \o t \in Seq(S)
           /\ Len(s \o t) = Len(s) + Len(t)
           /\ \A i \in 1..Len(s) : (s \o t)[i] = s[i]
           /\ \A i \in 1..Len(t) : (s \o t)[Len(s) + i] = t[i]
OBVIOUS

\* The types of the messages of a sequence are one for each message.
LEMMA TypesOfSeq ==
    ASSUME NEW S, NEW s \in Seq(S)
    PROVE  /\ TypesOf(s) \in Seq({m.type : m \in S})
           /\ Len(TypesOf(s)) = Len(s)
           /\ TypesOf(s) = <<>> <=> s = <<>>
           /\ \A i \in 1..Len(s) : TypesOf(s)[i] = s[i].type
           /\ s # <<>> => Head(TypesOf(s)) = Head(s).type
BY DEF TypesOf

\* ... and reading a message reads its type.
LEMMA TypesOfTail ==
    ASSUME NEW S, NEW s \in Seq(S), s # <<>>
    PROVE  TypesOf(Tail(s)) = Tail(TypesOf(s))
BY DEF TypesOf

\* What a sequence must be to be the two one after the other.
LEMMA IsConcat ==
    ASSUME NEW S, NEW s \in Seq(S), NEW t \in Seq(S), NEW u \in Seq(S),
           Len(u) = Len(s) + Len(t),
           \A i \in 1..Len(s) : u[i] = s[i],
           \A i \in 1..Len(t) : u[Len(s) + i] = t[i]
    PROVE  u = s \o t
<1>1. /\ s \o t \in Seq(S) /\ Len(s \o t) = Len(s) + Len(t)
      /\ \A i \in 1..Len(s) : (s \o t)[i] = s[i]
      /\ \A i \in 1..Len(t) : (s \o t)[Len(s) + i] = t[i]
  BY WriteFacts
<1> DEFINE v == s \o t
<1>2. Len(s) \in Nat /\ Len(t) \in Nat
  OBVIOUS
<1> HIDE DEF v
<1>3. ASSUME NEW i \in 1..Len(u) PROVE u[i] = v[i]
  <2>1. CASE i <= Len(s)
    BY <1>1, <1>2, <2>1 DEF v
  <2>2. CASE i > Len(s)
    <3>1. i - Len(s) \in 1..Len(t) /\ i = Len(s) + (i - Len(s))
      BY <1>2, <2>2
    <3>2. u[Len(s) + (i - Len(s))] = t[i - Len(s)]
      BY <3>1
    <3>3. v[Len(s) + (i - Len(s))] = t[i - Len(s)]
      BY <3>1, <1>1 DEF v
    <3> QED BY <3>1, <3>2, <3>3
  <2> QED BY <1>2, <2>1, <2>2
<1>4. v \in Seq(S) /\ Len(v) = Len(u)
  BY <1>1 DEF v
<1>5. u = v
  BY <1>3, <1>4
<1> QED BY <1>5 DEF v

\* Writing messages writes their types.
LEMMA TypesOfAppend ==
    ASSUME NEW S, NEW s \in Seq(S), NEW t \in Seq(S)
    PROVE  TypesOf(s \o t) = TypesOf(s) \o TypesOf(t)
<1> DEFINE T == {m.type : m \in S}
           r == s \o t
           a == TypesOf(s)
           b == TypesOf(t)
           u == TypesOf(r)
<1>1. /\ a \in Seq(T) /\ Len(a) = Len(s) /\ \A i \in 1..Len(s) : a[i] = s[i].type
      /\ b \in Seq(T) /\ Len(b) = Len(t) /\ \A i \in 1..Len(t) : b[i] = t[i].type
  BY TypesOfSeq
<1>2. /\ r \in Seq(S) /\ Len(r) = Len(s) + Len(t)
      /\ \A i \in 1..Len(s) : r[i] = s[i]
      /\ \A i \in 1..Len(t) : r[Len(s) + i] = t[i]
  BY WriteFacts
<1> HIDE DEF r, a, b
<1>3. u \in Seq(T) /\ Len(u) = Len(r) /\ \A i \in 1..Len(r) : u[i] = r[i].type
  BY <1>2, TypesOfSeq
<1> HIDE DEF u, T
<1>4. Len(s) \in Nat /\ Len(t) \in Nat
  OBVIOUS
<1>5. \A i \in 1..Len(a) : u[i] = a[i]
  <2> SUFFICES ASSUME NEW i \in 1..Len(a) PROVE u[i] = a[i]
    OBVIOUS
  <2>1. i \in 1..Len(r) /\ i \in 1..Len(s)
    BY <1>1, <1>2, <1>4
  <2>2. u[i] = r[i].type
    BY <2>1, <1>3
  <2> QED BY <2>1, <2>2, <1>1, <1>2
<1>6. \A i \in 1..Len(b) : u[Len(a) + i] = b[i]
  <2> SUFFICES ASSUME NEW i \in 1..Len(b) PROVE u[Len(a) + i] = b[i]
    OBVIOUS
  <2>1. Len(s) + i \in 1..Len(r)
    BY <1>1, <1>2, <1>4
  <2>2. u[Len(s) + i] = r[Len(s) + i].type
    BY <2>1, <1>3
  <2> QED BY <2>2, <1>1, <1>2
<1>7. Len(u) = Len(a) + Len(b)
  BY <1>1, <1>2, <1>3
<1>8. u = a \o b
  BY <1>1, <1>3, <1>5, <1>6, <1>7, IsConcat
<1> QED BY <1>8 DEF u, r, a, b

\* The types of at most two messages, as the script names them.
LEMMA TypesOfWords ==
    /\ TypesOf(<<>>) = None
    /\ \A m : TypesOf(<<m>>) = One(m.type)
    /\ \A m, n : TypesOf(<<m, n>>) = Two(m.type, n.type)
BY DEF TypesOf, None, One, Two

\* Two replies after one that was not read yet.
LEMMA OneAndTwo ==
    ASSUME NEW S, NEW a \in S, NEW b \in S, NEW d \in S
    PROVE  <<a>> \o <<b>> = <<a, b>> /\ <<a>> \o <<b, d>> = <<a, b, d>>
<1>1. /\ <<a>> \in Seq(S) /\ <<b>> \in Seq(S) /\ <<b, d>> \in Seq(S)
      /\ Len(<<a>>) = 1 /\ Len(<<b>>) = 1 /\ Len(<<b, d>>) = 2
  OBVIOUS
<1>2. \A q \in Seq(S) : Len(q) = 2 /\ q[1] = a /\ q[2] = b => q = <<a, b>>
  OBVIOUS
<1>3. \A q \in Seq(S) : Len(q) = 3 /\ q[1] = a /\ q[2] = b /\ q[3] = d => q = <<a, b, d>>
  OBVIOUS
<1>4. /\ <<a>> \o <<b>> \in Seq(S) /\ Len(<<a>> \o <<b>>) = 2
      /\ \A i \in 1..1 : (<<a>> \o <<b>>)[i] = <<a>>[i]
      /\ \A i \in 1..1 : (<<a>> \o <<b>>)[1 + i] = <<b>>[i]
  BY <1>1, WriteFacts
<1>5. /\ <<a>> \o <<b, d>> \in Seq(S) /\ Len(<<a>> \o <<b, d>>) = 3
      /\ \A i \in 1..1 : (<<a>> \o <<b, d>>)[i] = <<a>>[i]
      /\ \A i \in 1..2 : (<<a>> \o <<b, d>>)[1 + i] = <<b, d>>[i]
  BY <1>1, WriteFacts
<1>6. (<<a>> \o <<b>>)[1] = a /\ (<<a>> \o <<b>>)[2] = b
  BY <1>4
<1>7. LET q == <<a>> \o <<b, d>> IN q[1] = a /\ q[2] = b /\ q[3] = d
  BY <1>5
<1> QED BY <1>2, <1>3, <1>4, <1>5, <1>6, <1>7

\* The heads and tails of short sequences, and what they are appended to.
LEMMA Words ==
    /\ None = <<>>
    /\ \A a : One(a) # None /\ Head(One(a)) = a /\ Tail(One(a)) = None
    /\ \A a, b : Two(a, b) # None /\ Head(Two(a, b)) = a /\ Tail(Two(a, b)) = One(b)
    /\ \A a, b, d : /\ Three(a, b, d) # None /\ Head(Three(a, b, d)) = a
                    /\ Tail(Three(a, b, d)) = Two(b, d)
<1>1. \A a : One(a) # None /\ Head(One(a)) = a /\ Tail(One(a)) = None
  BY DEF One, None
<1>2. \A a, b : Two(a, b) # None /\ Head(Two(a, b)) = a /\ Tail(Two(a, b)) = One(b)
  BY DEF One, Two, None
<1>3. \A a, b, d : /\ Three(a, b, d) # None /\ Head(Three(a, b, d)) = a
                   /\ Tail(Three(a, b, d)) = Two(b, d)
  BY DEF Two, Three, None
<1> QED BY <1>1, <1>2, <1>3 DEF None

\* What the script has in flight once a reply is added to it.
LEMMA Appended ==
    /\ \A a, b, d : None \o One(a) = One(a) /\ None \o Two(a, b) = Two(a, b)
    /\ \A a, b, d : One(a) \o One(b) = Two(a, b) /\ One(a) \o Two(b, d) = Three(a, b, d)
<1>1. ASSUME NEW a, NEW b, NEW d
      PROVE  /\ None \o One(a) = One(a) /\ None \o Two(a, b) = Two(a, b)
             /\ One(a) \o One(b) = Two(a, b) /\ One(a) \o Two(b, d) = Three(a, b, d)
  <2> DEFINE S == {a, b, d}
  <2>1. a \in S /\ b \in S /\ d \in S
    OBVIOUS
  <2>2. <<a>> \in Seq(S) /\ <<a, b>> \in Seq(S)
    OBVIOUS
  <2>3. \A s \in Seq(S) : <<>> \o s = s
    OBVIOUS
  <2>4. <<a>> \o <<b>> = <<a, b>> /\ <<a>> \o <<b, d>> = <<a, b, d>>
    BY <2>1, OneAndTwo
  <2> QED BY <2>2, <2>3, <2>4 DEF None, One, Two, Three
<1> QED BY <1>1
------------------------------------------------------------------------------
(* Steps.                                                                    *)

USE DEF vars, rVars, cVars

\* The session with cur ends and q is left to accept: the next client is awaited,
\* or run_receiver returns.
Leaves(q) ==
    /\ cur' = NoClient
    /\ (rpc' = "accept" /\ backlog' = q) \/ (rpc' \in {"ok", "err"} /\ backlog' = <<>>)
    /\ UNCHANGED <<rcv, mode, got, want, mine>>

\* All the ways to leave a session are that.
LEMMA Leaving ==
    /\ \A q : EndOrNext(q) \/ FailOrNext(q) \/ BenchEnds(q) \/ TestFails(q) => Leaves(q)
    /\ Fail => Leaves(backlog)
    /\ \A st \in {"ok", "err"} : RReturn(st) => Leaves(backlog)
BY DEF Leaves, EndOrNext, FailOrNext, BenchEnds, TestFails, Fail, RReturn, NextClient

\* What is left of the backlog once its head is accepted.
LEMMA TailFacts ==
    ASSUME NEW S, NEW s \in Seq(S), s # <<>>
    PROVE  /\ Tail(s) \in Seq(S) /\ Head(s) \in S /\ Head(s) = s[1] /\ 1 \in DOMAIN s
           /\ \A i \in DOMAIN Tail(s) : i + 1 \in DOMAIN s /\ Tail(s)[i] = s[i + 1]
           /\ \A i \in DOMAIN s : i # 1 => i - 1 \in DOMAIN Tail(s) /\ s[i] = Tail(s)[i - 1]
OBVIOUS

\* What the receiver reads next, by its type.
LEMMA SaidRead ==
    ASSUME NEW c \in Clients, toR[c] \in Seq(Said(c)), toR[c] # <<>>
    PROVE  LET m == Head(toR[c]) IN
           /\ m.type = "hello" => m.val = Hello(c)
           /\ m.type = "response" => m.val = cfg[c].key
           /\ m.type = "code" => m.val = cfg[c].code
           /\ m.type = "test" => m.val \in Counts
<1>1. Head(toR[c]) \in Said(c)
  BY ReadFacts
<1> QED BY <1>1 DEF Said, Msg

\* A speedtest round, a benchmark and a transfer have a stream at least.
LEMMA CountsNat == Counts \subseteq Nat \ {0}
BY CountsAssumption DEF Counts

\* What a step of the receiver may do, whichever it is: it reads from cur, writes
\* to cur, and accepts at most one connection.
Stays ==
    /\ rpc' \in Stages \ {"refused"} /\ cur' \in Clients
    /\ mode' \in {1, 3} /\ want' \in Nat /\ got' \in 0..want' /\ mine' \in 0..got'
Reads == toR' = toR \/ (cur \in Clients /\ toR[cur] # <<>> /\ toR' = [toR EXCEPT ![cur] = Tail(@)])
Writes == toC' = toC \/ \E m \in Seq(Told(cur)) : cur \in Clients /\ toC' = [toC EXCEPT ![cur] = @ \o m]
Turns ==
    \/ Leaves(backlog) \/ (backlog # <<>> /\ Leaves(Tail(backlog)))
    \/ Stays /\ (backlog' = backlog \/ (backlog # <<>> /\ backlog' = Tail(backlog)))
ReceiverMoves == UNCHANGED <<rcv, cVars, deaths>> /\ Reads /\ Writes /\ Turns

\* What the receiver writes is what it has to say to cur.
LEMMA Replying ==
    /\ \A m \in Told(cur) : cur \in Clients /\ Reply(<<m>>) => Writes
    /\ \A m, n \in Told(cur) : cur \in Clients /\ Reply(<<m, n>>) => Writes
<1>1. \A S : \A m, n \in S : <<m>> \in Seq(S) /\ <<m, n>> \in Seq(S)
  OBVIOUS
<1>2. \A m, n \in Told(cur) : <<m>> \in Seq(Told(cur)) /\ <<m, n>> \in Seq(Told(cur))
  BY <1>1
<1> QED BY <1>2 DEF Reply, Writes

\* Every action of the receiver is such a step.
LEMMA ReceiverShape ==
    ASSUME Typed, Worded, Receiver
    PROVE  ReceiverMoves
<1> USE CountsAssumption
<1>1. cur \in Clients \/ cur = NoClient
  BY DEF Typed
<1>2. cur = NoClient <=> rpc \in {"accept", "ok", "err"}
  BY DEF Typed
<1>3. mode \in {1, 3} /\ want \in Nat /\ got \in 0..want /\ mine \in 0..got
  BY DEF Typed
<1>4. backlog \in Seq(Conns)
  BY DEF Typed
<1>5. cur \in Clients => toR[cur] \in Seq(Said(cur)) /\ toC[cur] \in Seq(Told(cur))
  BY DEF Worded
<1>11. CASE RAccept
  <2>1. UNCHANGED <<rcv, cVars, deaths>>
    BY <1>11, Leaving DEF RAccept, Leaves, RGoto, AcceptLoop
  <2>2. Reads
    BY <1>1, <1>2, <1>11 DEF RAccept, Reads, RRead
  <2>3. Writes
    BY <1>11 DEF RAccept, Writes
  <2>5. Head(backlog).from \in Clients
    <3>1. backlog # <<>>
      BY <1>11 DEF RAccept
    <3>2. Head(backlog) \in Conns
      BY <1>4, <3>1, ReadFacts
    <3> QED BY <3>2 DEF Conns
  <2>4. Turns
    BY <1>1, <1>2, <1>3, <1>4, <1>11, <2>5, Leaving DEF Turns, Stays, Stages, RAccept, RGoto, AcceptLoop, Pairing
  <2> QED BY <2>1, <2>2, <2>3, <2>4 DEF ReceiverMoves
<1>12. CASE RHello
  <2>1. UNCHANGED <<rcv, cVars, deaths>>
    BY <1>12, Leaving DEF RHello, Leaves, RGoto, AcceptLoop
  <2>2. Reads
    BY <1>1, <1>2, <1>12 DEF RHello, Reads, RRead
  <2>3. Writes
    BY <1>12 DEF RHello, Writes
  <2>4. Turns
    BY <1>1, <1>2, <1>3, <1>4, <1>12, Leaving DEF Turns, Stays, Stages, RHello, RGoto, AcceptLoop, Pairing, Acceptable, Modes
  <2> QED BY <2>1, <2>2, <2>3, <2>4 DEF ReceiverMoves
<1>13. CASE RNonce
  <2>1. UNCHANGED <<rcv, cVars, deaths>>
    BY <1>13, Leaving DEF RNonce, Leaves, RGoto, AcceptLoop
  <2>2. Reads
    BY <1>1, <1>2, <1>13 DEF RNonce, Reads, RRead
  <2>3. Writes
    <3>1. Msg("nonce", 0) \in Told(cur)
      BY CountsAssumption DEF Told, Msg
    <3> QED BY <1>1, <1>2, <1>13, Replying, <3>1 DEF RNonce, Writes
  <2>4. Turns
    BY <1>1, <1>2, <1>3, <1>4, <1>13, Leaving DEF Turns, Stays, Stages, RNonce, RGoto, AcceptLoop, Pairing
  <2> QED BY <2>1, <2>2, <2>3, <2>4 DEF ReceiverMoves
<1>14. CASE RAuth
  <2>1. UNCHANGED <<rcv, cVars, deaths>>
    BY <1>14, Leaving DEF RAuth, Leaves, RGoto, AcceptLoop
  <2>2. Reads
    BY <1>1, <1>2, <1>14 DEF RAuth, Reads, RRead
  <2>3. Writes
    <3>1. rcv.key # NoKey => {Msg("auth", TRUE), Msg("challenge", 0)} \subseteq Told(cur)
      BY CountsAssumption DEF Told, Msg
    <3>2. rcv.key = NoKey => {Msg("auth", FALSE), Msg("pair", PairingRequired)} \subseteq Told(cur)
      BY CountsAssumption DEF Told, Msg
    <3> QED BY <1>1, <1>2, <1>14, Replying, <3>1, <3>2 DEF RAuth, Writes
  <2>4. Turns
    BY <1>1, <1>2, <1>3, <1>4, <1>14, Leaving DEF Turns, Stays, Stages, RAuth, RGoto, AcceptLoop, Pairing
  <2> QED BY <2>1, <2>2, <2>3, <2>4 DEF ReceiverMoves
<1>15. CASE RResponse
  <2>1. UNCHANGED <<rcv, cVars, deaths>>
    BY <1>15, Leaving DEF RResponse, Leaves, RGoto, AcceptLoop
  <2>2. Reads
    BY <1>1, <1>2, <1>15 DEF RResponse, Reads, RRead
  <2>3. Writes
    <3>1. RVal = rcv.key => {Msg("verdict", TRUE), Msg("pair", PairingRequired)} \subseteq Told(cur)
      BY CountsAssumption, <1>1, <1>2, <1>5, <1>15, SaidRead DEF Told, Msg, RRead, RVal, RResponse
    <3>2. RVal # rcv.key => Msg("verdict", FALSE) \in Told(cur)
      BY CountsAssumption, <1>1, <1>2, <1>5, <1>15, SaidRead DEF Told, Msg, RRead, RVal, RResponse
    <3> QED BY <1>1, <1>2, <1>15, Replying, <3>1, <3>2 DEF RResponse, Writes
  <2>4. Turns
    BY <1>1, <1>2, <1>3, <1>4, <1>15, Leaving DEF Turns, Stays, Stages, RResponse, RGoto, AcceptLoop, Pairing
  <2> QED BY <2>1, <2>2, <2>3, <2>4 DEF ReceiverMoves
<1>16. CASE RCode
  <2>1. UNCHANGED <<rcv, cVars, deaths>>
    BY <1>16, Leaving DEF RCode, Leaves, RGoto, AcceptLoop
  <2>2. Reads
    BY <1>1, <1>2, <1>16 DEF RCode, Reads, RRead
  <2>3. Writes
    <3>1. RVal = "right" => Msg("paired", TRUE) \in Told(cur)
      BY CountsAssumption, <1>1, <1>2, <1>5, <1>16, SaidRead DEF Told, Msg, RRead, RVal, RCode
    <3>2. RVal # "right" => Msg("paired", FALSE) \in Told(cur)
      BY CountsAssumption, <1>1, <1>2, <1>5, <1>16, SaidRead DEF Told, Msg, RRead, RVal, RCode
    <3> QED BY <1>1, <1>2, <1>16, Replying, <3>1, <3>2 DEF RCode, Writes
  <2>4. Turns
    BY <1>1, <1>2, <1>3, <1>4, <1>16, Leaving DEF Turns, Stays, Stages, RCode, RGoto, AcceptLoop, Pairing
  <2> QED BY <2>1, <2>2, <2>3, <2>4 DEF ReceiverMoves
<1>17. CASE RTest
  <2>1. UNCHANGED <<rcv, cVars, deaths>>
    BY <1>17, Leaving DEF RTest, Leaves, RGoto, AcceptLoop
  <2>2. Reads
    BY <1>1, <1>2, <1>17 DEF RTest, Reads, RRead
  <2>3. Writes
    <3>1. Msg("ready", 0) \in Told(cur)
      BY CountsAssumption DEF Told, Msg
    <3> QED BY <1>1, <1>2, <1>17, Replying, <3>1 DEF RTest, Writes
  <2>5. RVal \in Nat
    BY <1>1, <1>2, <1>5, <1>17, SaidRead, CountsNat DEF RTest, RRead, RVal
  <2>4. Turns
    BY <1>1, <1>2, <1>3, <1>4, <1>17, <2>5, Leaving DEF Turns, Stays, Stages, RTest, RGoto, AcceptLoop, Pairing, RRead
  <2> QED BY <2>1, <2>2, <2>3, <2>4 DEF ReceiverMoves
<1>18. CASE RTestAccept
  <2>1. UNCHANGED <<rcv, cVars, deaths>>
    BY <1>18, Leaving DEF RTestAccept, Leaves, RGoto, AcceptLoop
  <2>2. Reads
    BY <1>1, <1>2, <1>18 DEF RTestAccept, Reads, RRead
  <2>3. Writes
    BY <1>18 DEF RTestAccept, Writes
  <2>5. got < want => /\ got + 1 \in 0..want
                      /\ TakeStream => got' = got + 1 /\ mine' \in 0..got' /\ backlog' = Tail(backlog)
    BY <1>3 DEF TakeStream
  <2>4. Turns
    BY <1>1, <1>2, <1>3, <1>4, <1>18, <2>5, Leaving DEF Turns, Stays, Stages, RTestAccept, RGoto, AcceptLoop, Pairing
  <2> QED BY <2>1, <2>2, <2>3, <2>4 DEF ReceiverMoves
<1>19. CASE RTestDone
  <2>1. UNCHANGED <<rcv, cVars, deaths>>
    BY <1>19, Leaving DEF RTestDone, Leaves, RGoto, AcceptLoop
  <2>2. Reads
    BY <1>1, <1>2, <1>19 DEF RTestDone, Reads, RRead
  <2>3. Writes
    <3>1. Msg("speed", 0) \in Told(cur)
      BY CountsAssumption DEF Told, Msg
    <3> QED BY <1>1, <1>2, <1>19, Replying, <3>1 DEF RTestDone, Writes
  <2>4. Turns
    BY <1>1, <1>2, <1>3, <1>4, <1>19, Leaving DEF Turns, Stays, Stages, RTestDone, RGoto, AcceptLoop, Pairing
  <2> QED BY <2>1, <2>2, <2>3, <2>4 DEF ReceiverMoves
<1>20. CASE RGo
  <2>1. UNCHANGED <<rcv, cVars, deaths>>
    BY <1>20, Leaving DEF RGo, Leaves, RGoto, AcceptLoop
  <2>2. Reads
    BY <1>1, <1>2, <1>20 DEF RGo, Reads, RRead
  <2>3. Writes
    BY <1>20 DEF RGo, Writes
  <2>4. Turns
    BY <1>1, <1>2, <1>3, <1>4, <1>20, Leaving DEF Turns, Stays, Stages, RGo, RGoto, AcceptLoop, Pairing
  <2> QED BY <2>1, <2>2, <2>3, <2>4 DEF ReceiverMoves
<1>21. CASE RIndex
  <2>1. UNCHANGED <<rcv, cVars, deaths>>
    BY <1>21, Leaving DEF RIndex, Leaves, RGoto, AcceptLoop
  <2>2. Reads
    BY <1>1, <1>2, <1>21 DEF RIndex, Reads, RRead
  <2>3. Writes
    <3>1. {Msg("list", 0), Msg("confirm", 0)} \subseteq Told(cur)
      BY CountsAssumption DEF Told, Msg
    <3> QED BY <1>1, <1>2, <1>21, Replying, <3>1 DEF RIndex, Writes
  <2>5. cur \in Clients => ActiveStreams \in Nat
    BY CountsAssumption DEF ActiveStreams, Typed
  <2>4. Turns
    BY <1>1, <1>2, <1>3, <1>4, <1>21, <2>5, Leaving DEF Turns, Stays, Stages, RIndex, RGoto, AcceptLoop, Pairing
  <2> QED BY <2>1, <2>2, <2>3, <2>4 DEF ReceiverMoves
<1>22. CASE RDataAccept
  <2>1. UNCHANGED <<rcv, cVars, deaths>>
    BY <1>22, Leaving DEF RDataAccept, Leaves, RGoto, AcceptLoop
  <2>2. Reads
    BY <1>1, <1>2, <1>22 DEF RDataAccept, Reads, RRead
  <2>3. Writes
    BY <1>22 DEF RDataAccept, Writes
  <2>5. got < want => /\ got + 1 \in 0..want
                      /\ TakeStream => got' = got + 1 /\ mine' \in 0..got' /\ backlog' = Tail(backlog)
    BY <1>3 DEF TakeStream
  <2>4. Turns
    BY <1>1, <1>2, <1>3, <1>4, <1>22, <2>5, Leaving DEF Turns, Stays, Stages, RDataAccept, RGoto, AcceptLoop, Pairing
  <2> QED BY <2>1, <2>2, <2>3, <2>4 DEF ReceiverMoves
<1>23. CASE RJoin
  <2>1. UNCHANGED <<rcv, cVars, deaths>>
    BY <1>23, Leaving DEF RJoin, Leaves, RGoto, AcceptLoop
  <2>2. Reads
    BY <1>1, <1>2, <1>23 DEF RJoin, Reads, RRead
  <2>3. Writes
    BY <1>23 DEF RJoin, Writes
  <2>4. Turns
    BY <1>1, <1>2, <1>3, <1>4, <1>23, Leaving DEF Turns, Stays, Stages, RJoin, RGoto, AcceptLoop, Pairing
  <2> QED BY <2>1, <2>2, <2>3, <2>4 DEF ReceiverMoves
<1>24. CASE REof
  <2>1. UNCHANGED <<rcv, cVars, deaths>>
    BY <1>24, Leaving DEF REof, Leaves, RGoto, AcceptLoop
  <2>2. Reads
    BY <1>1, <1>2, <1>24 DEF REof, Reads, RRead
  <2>3. Writes
    BY <1>24 DEF REof, Writes
  <2>4. Turns
    BY <1>1, <1>2, <1>3, <1>4, <1>24, Leaving DEF Turns, Stays, Stages, REof, RGoto, AcceptLoop, Pairing
  <2> QED BY <2>1, <2>2, <2>3, <2>4 DEF ReceiverMoves
<1>25. CASE RWriteFails
  <2>1. UNCHANGED <<rcv, cVars, deaths>>
    BY <1>25, Leaving DEF RWriteFails, Leaves, RGoto, AcceptLoop
  <2>2. Reads
    BY <1>1, <1>2, <1>25 DEF RWriteFails, Reads, RRead
  <2>3. Writes
    BY <1>25 DEF RWriteFails, Writes
  <2>4. Turns
    BY <1>1, <1>2, <1>3, <1>4, <1>25, Leaving DEF Turns, Stays, Stages, RWriteFails, RGoto, AcceptLoop, Pairing
  <2> QED BY <2>1, <2>2, <2>3, <2>4 DEF ReceiverMoves
<1> QED BY <1>11, <1>12, <1>13, <1>14, <1>15, <1>16, <1>17, <1>18, <1>19, <1>20, <1>21, <1>22, <1>23, <1>24, <1>25 DEF Receiver

\* What a step of the client c may do: it reads, writes, connects once.
ClientPlace(c) ==
    /\ cpc' = cpc \/ \E p \in Places : cpc' = [cpc EXCEPT ![c] = p]
    /\ round' = round \/ (round[c] < Len(TestConfigs) /\ round' = [round EXCEPT ![c] = @ + 1])
    /\ made' = made \/ \E n \in Nat : made' = [made EXCEPT ![c] = n]
    /\ deaths' \in 0..MaxDeaths
ClientReads(c) == toC' = toC \/ (toC[c] # <<>> /\ toC' = [toC EXCEPT ![c] = Tail(@)])
ClientWrites(c) ==
    \/ toR' = toR
    \/ \E m \in Seq(Said(c)) : toR' = [toR EXCEPT ![c] = @ \o m]
    \/ \E k \in 0..Len(toR[c]) : toR' = [toR EXCEPT ![c] = SubSeq(@, 1, k)]
Connects(c) ==
    \/ backlog' = backlog
    \/ \E kind \in {"control", "data", "test", "bench"} : backlog' = Append(backlog, Conn(c, kind))
ClientMoves(c) ==
    /\ UNCHANGED <<rVars, cfg>>
    /\ ClientPlace(c) /\ ClientReads(c) /\ ClientWrites(c) /\ Connects(c)

\* What the client writes is what it has to say.
LEMMA Saying ==
    ASSUME NEW c \in Clients
    PROVE  /\ \A m \in Said(c) : Send(c, <<m>>) => ClientWrites(c)
           /\ \A m, n \in Said(c) : Send(c, <<m, n>>) => ClientWrites(c)
<1>1. \A S : \A m, n \in S : <<m>> \in Seq(S) /\ <<m, n>> \in Seq(S)
  OBVIOUS
<1>2. \A m, n \in Said(c) : <<m>> \in Seq(Said(c)) /\ <<m, n>> \in Seq(Said(c))
  BY <1>1
<1> QED BY <1>2 DEF Send, ClientWrites

\* What the client reads next, by its type.
LEMMA ToldRead ==
    ASSUME NEW c \in Clients, toC[c] \in Seq(Told(c)), toC[c] # <<>>
    PROVE  LET m == Head(toC[c]) IN
           /\ m.type = "auth" => m.val = (rcv.key # NoKey)
           /\ m.type = "verdict" => m.val = (cfg[c].key = rcv.key)
           /\ m.type = "pair" => m.val = PairingRequired
           /\ m.type = "paired" => m.val = (cfg[c].code = "right")
<1>1. Head(toC[c]) \in Told(c)
  BY ReadFacts
<1> QED BY <1>1 DEF Told, Msg

\* The hello of a client, with the nonce or without it.
LEMMA Greetings ==
    \A m, n : <<m>> \o <<n>> = <<m, n>> /\ <<m>> \o <<>> = <<m>>
<1>1. ASSUME NEW m, NEW n PROVE <<m>> \o <<n>> = <<m, n>> /\ <<m>> \o <<>> = <<m>>
  <2> DEFINE S == {m, n}
  <2>1. m \in S /\ n \in S
    OBVIOUS
  <2>2. <<m>> \o <<n>> = <<m, n>>
    BY <2>1, OneAndTwo
  <2>3. <<m>> \in Seq(S)
    OBVIOUS
  <2>4. \A s \in Seq(S) : s \o <<>> = s
    OBVIOUS
  <2> QED BY <2>2, <2>3, <2>4
<1> QED BY <1>1

\* Every action of a client is such a step.
LEMMA ClientShape ==
    ASSUME Typed, Worded, NEW c \in Clients, Client(c) \/ Finish(c) \/ CDies(c)
    PROVE  ClientMoves(c)
<1> USE CountsAssumption
<1>1. cpc[c] \in Places /\ made[c] \in Nat /\ round[c] \in 0..Len(TestConfigs)
  BY DEF Typed
<1>2. deaths \in 0..MaxDeaths
  BY DEF Typed
<1>11. CASE CConnect(c)
  <2>1. UNCHANGED <<rVars, cfg>>
    BY <1>11 DEF CConnect
  <2>2. ClientPlace(c)
    BY <1>1, <1>2, <1>11 DEF CConnect, ClientPlace, Goto, Places, Replies, Ended
  <2>3. ClientReads(c)
    BY <1>11 DEF CConnect, ClientReads, Read
  <2>4. ClientWrites(c)
    <3>1. {Msg("hello", Hello(c)), Msg("nonce", c)} \subseteq Said(c)
      BY <1>1 DEF Said, Counts, Msg
    <3>2. \/ toR' = toR
          \/ Send(c, <<Msg("hello", Hello(c)), Msg("nonce", c)>>)
          \/ Send(c, <<Msg("hello", Hello(c))>>)
      BY <1>11, Greetings DEF CConnect, Hello, Send
    <3> QED BY <3>1, <3>2, Saying DEF ClientWrites
  <2>5. Connects(c)
    BY <1>11 DEF CConnect, Connects
  <2> QED BY <2>1, <2>2, <2>3, <2>4, <2>5 DEF ClientMoves
<1>12. CASE CNonce(c)
  <2>1. UNCHANGED <<rVars, cfg>>
    BY <1>12 DEF CNonce
  <2>2. ClientPlace(c)
    BY <1>1, <1>2, <1>12 DEF CNonce, ClientPlace, Goto, Places, Replies, Ended
  <2>3. ClientReads(c)
    BY <1>12 DEF CNonce, ClientReads, Read
  <2>4. ClientWrites(c)
    BY <1>12 DEF CNonce, ClientWrites
  <2>5. Connects(c)
    BY <1>12 DEF CNonce, Connects
  <2> QED BY <2>1, <2>2, <2>3, <2>4, <2>5 DEF ClientMoves
<1>13. CASE CAuth(c)
  <2>1. UNCHANGED <<rVars, cfg>>
    BY <1>13 DEF CAuth
  <2>2. ClientPlace(c)
    BY <1>1, <1>2, <1>13 DEF CAuth, ClientPlace, Goto, Places, Replies, Ended
  <2>3. ClientReads(c)
    BY <1>13 DEF CAuth, ClientReads, Read
  <2>4. ClientWrites(c)
    BY <1>13 DEF CAuth, ClientWrites
  <2>5. Connects(c)
    BY <1>13 DEF CAuth, Connects
  <2> QED BY <2>1, <2>2, <2>3, <2>4, <2>5 DEF ClientMoves
<1>14. CASE CChallenge(c)
  <2>1. UNCHANGED <<rVars, cfg>>
    BY <1>14 DEF CChallenge
  <2>2. ClientPlace(c)
    BY <1>1, <1>2, <1>14 DEF CChallenge, ClientPlace, Goto, Places, Replies, Ended
  <2>3. ClientReads(c)
    BY <1>14 DEF CChallenge, ClientReads, Read
  <2>4. ClientWrites(c)
    <3>1. Msg("response", cfg[c].key) \in Said(c)
      BY <1>1 DEF Said, Counts, Msg
    <3> QED BY <1>14, Saying, <3>1 DEF CChallenge, ClientWrites, TransferHeader
  <2>5. Connects(c)
    BY <1>14 DEF CChallenge, Connects
  <2> QED BY <2>1, <2>2, <2>3, <2>4, <2>5 DEF ClientMoves
<1>15. CASE CVerdict(c)
  <2>1. UNCHANGED <<rVars, cfg>>
    BY <1>15 DEF CVerdict
  <2>2. ClientPlace(c)
    BY <1>1, <1>2, <1>15 DEF CVerdict, ClientPlace, Goto, Places, Replies, Ended
  <2>3. ClientReads(c)
    BY <1>15 DEF CVerdict, ClientReads, Read
  <2>4. ClientWrites(c)
    BY <1>15 DEF CVerdict, ClientWrites
  <2>5. Connects(c)
    BY <1>15 DEF CVerdict, Connects
  <2> QED BY <2>1, <2>2, <2>3, <2>4, <2>5 DEF ClientMoves
<1>16. CASE CPair(c)
  <2>1. UNCHANGED <<rVars, cfg>>
    BY <1>16 DEF CPair
  <2>2. ClientPlace(c)
    BY <1>1, <1>2, <1>16 DEF CPair, ClientPlace, Goto, Places, Replies, Ended
  <2>3. ClientReads(c)
    BY <1>16 DEF CPair, ClientReads, Read
  <2>4. ClientWrites(c)
    <3>1. Msg("code", cfg[c].code) \in Said(c)
      BY <1>1 DEF Said, Counts, Msg
    <3> QED BY <1>16, Saying, <3>1 DEF CPair, ClientWrites, TransferHeader
  <2>5. Connects(c)
    BY <1>16 DEF CPair, Connects
  <2> QED BY <2>1, <2>2, <2>3, <2>4, <2>5 DEF ClientMoves
<1>17. CASE CPaired(c)
  <2>1. UNCHANGED <<rVars, cfg>>
    BY <1>17 DEF CPaired
  <2>2. ClientPlace(c)
    BY <1>1, <1>2, <1>17 DEF CPaired, ClientPlace, Goto, Places, Replies, Ended
  <2>3. ClientReads(c)
    BY <1>17 DEF CPaired, ClientReads, Read
  <2>4. ClientWrites(c)
    BY <1>17 DEF CPaired, ClientWrites
  <2>5. Connects(c)
    BY <1>17 DEF CPaired, Connects
  <2> QED BY <2>1, <2>2, <2>3, <2>4, <2>5 DEF ClientMoves
<1>18. CASE CTune(c)
  <2>1. UNCHANGED <<rVars, cfg>>
    BY <1>18 DEF CTune
  <2>2. ClientPlace(c)
    BY <1>1, <1>2, <1>18 DEF CTune, ClientPlace, Goto, Places, Replies, Ended
  <2>3. ClientReads(c)
    BY <1>18 DEF CTune, ClientReads, Read
  <2>4. ClientWrites(c)
    <3>1. {Msg("go", 0), Msg("index", cfg[c].dry)} \subseteq Said(c)
      BY <1>1 DEF Said, Counts, Msg
    <3>2. Msg("test", NumStreams) \in Said(c)
      BY <1>1 DEF Said, Counts, Msg
    <3>3. round[c] < Len(TestConfigs) => Msg("test", TestConfigs[round[c] + 1]) \in Said(c)
      BY <1>1 DEF Said, Counts, Msg
    <3> QED BY <1>18, Saying, <3>1, <3>2, <3>3 DEF CTune, ClientWrites, TransferHeader
  <2>5. Connects(c)
    BY <1>18 DEF CTune, Connects
  <2> QED BY <2>1, <2>2, <2>3, <2>4, <2>5 DEF ClientMoves
<1>19. CASE CReady(c)
  <2>1. UNCHANGED <<rVars, cfg>>
    BY <1>19 DEF CReady
  <2>2. ClientPlace(c)
    BY <1>1, <1>2, <1>19 DEF CReady, ClientPlace, Goto, Places, Replies, Ended
  <2>3. ClientReads(c)
    BY <1>19 DEF CReady, ClientReads, Read
  <2>4. ClientWrites(c)
    BY <1>19 DEF CReady, ClientWrites
  <2>5. Connects(c)
    BY <1>19 DEF CReady, Connects
  <2> QED BY <2>1, <2>2, <2>3, <2>4, <2>5 DEF ClientMoves
<1>20. CASE CStream(c)
  <2>1. UNCHANGED <<rVars, cfg>>
    BY <1>20 DEF CStream
  <2>2. ClientPlace(c)
    BY <1>1, <1>2, <1>20 DEF CStream, ClientPlace, Goto, Places, Replies, Ended
  <2>3. ClientReads(c)
    BY <1>20 DEF CStream, ClientReads, Read
  <2>4. ClientWrites(c)
    BY <1>20 DEF CStream, ClientWrites
  <2>5. Connects(c)
    BY <1>20 DEF CStream, Connects, StreamKind
  <2> QED BY <2>1, <2>2, <2>3, <2>4, <2>5 DEF ClientMoves
<1>21. CASE CSpeed(c)
  <2>1. UNCHANGED <<rVars, cfg>>
    BY <1>21 DEF CSpeed
  <2>2. ClientPlace(c)
    BY <1>1, <1>2, <1>21 DEF CSpeed, ClientPlace, Goto, Places, Replies, Ended
  <2>3. ClientReads(c)
    BY <1>21 DEF CSpeed, ClientReads, Read
  <2>4. ClientWrites(c)
    BY <1>21 DEF CSpeed, ClientWrites
  <2>5. Connects(c)
    BY <1>21 DEF CSpeed, Connects
  <2> QED BY <2>1, <2>2, <2>3, <2>4, <2>5 DEF ClientMoves
<1>22. CASE CList(c)
  <2>1. UNCHANGED <<rVars, cfg>>
    BY <1>22 DEF CList
  <2>2. ClientPlace(c)
    BY <1>1, <1>2, <1>22 DEF CList, ClientPlace, Goto, Places, Replies, Ended
  <2>3. ClientReads(c)
    BY <1>22 DEF CList, ClientReads, Read
  <2>4. ClientWrites(c)
    BY <1>22 DEF CList, ClientWrites
  <2>5. Connects(c)
    BY <1>22 DEF CList, Connects
  <2> QED BY <2>1, <2>2, <2>3, <2>4, <2>5 DEF ClientMoves
<1>23. CASE CConfirm(c)
  <2>1. UNCHANGED <<rVars, cfg>>
    BY <1>23 DEF CConfirm
  <2>2. ClientPlace(c)
    BY <1>1, <1>2, <1>23 DEF CConfirm, ClientPlace, Goto, Places, Replies, Ended
  <2>3. ClientReads(c)
    BY <1>23 DEF CConfirm, ClientReads, Read
  <2>4. ClientWrites(c)
    BY <1>23 DEF CConfirm, ClientWrites
  <2>5. Connects(c)
    BY <1>23 DEF CConfirm, Connects
  <2> QED BY <2>1, <2>2, <2>3, <2>4, <2>5 DEF ClientMoves
<1>24. CASE CEof(c)
  <2>1. UNCHANGED <<rVars, cfg>>
    BY <1>24 DEF CEof
  <2>2. ClientPlace(c)
    BY <1>1, <1>2, <1>24 DEF CEof, ClientPlace, Goto, Places, Replies, Ended
  <2>3. ClientReads(c)
    BY <1>24 DEF CEof, ClientReads, Read
  <2>4. ClientWrites(c)
    BY <1>24 DEF CEof, ClientWrites
  <2>5. Connects(c)
    BY <1>24 DEF CEof, Connects
  <2> QED BY <2>1, <2>2, <2>3, <2>4, <2>5 DEF ClientMoves
<1>25. CASE CBurstEnds(c)
  <2>1. UNCHANGED <<rVars, cfg>>
    BY <1>25 DEF CBurstEnds
  <2>2. ClientPlace(c)
    BY <1>1, <1>2, <1>25 DEF CBurstEnds, ClientPlace, Goto, Places, Replies, Ended
  <2>3. ClientReads(c)
    BY <1>25 DEF CBurstEnds, ClientReads, Read
  <2>4. ClientWrites(c)
    BY <1>25 DEF CBurstEnds, ClientWrites
  <2>5. Connects(c)
    BY <1>25 DEF CBurstEnds, Connects
  <2> QED BY <2>1, <2>2, <2>3, <2>4, <2>5 DEF ClientMoves
<1>26. CASE CDone(c)
  <2>1. UNCHANGED <<rVars, cfg>>
    BY <1>26 DEF CDone
  <2>2. ClientPlace(c)
    BY <1>1, <1>2, <1>26 DEF CDone, ClientPlace, Goto, Places, Replies, Ended
  <2>3. ClientReads(c)
    BY <1>26 DEF CDone, ClientReads, Read
  <2>4. ClientWrites(c)
    BY <1>26 DEF CDone, ClientWrites
  <2>5. Connects(c)
    BY <1>26 DEF CDone, Connects
  <2> QED BY <2>1, <2>2, <2>3, <2>4, <2>5 DEF ClientMoves
<1>27. CASE CDies(c)
  <2>1. UNCHANGED <<rVars, cfg>>
    BY <1>27 DEF CDies
  <2>2. ClientPlace(c)
    BY <1>1, <1>2, <1>27 DEF CDies, ClientPlace, Goto, Places, Replies, Ended
  <2>3. ClientReads(c)
    BY <1>27 DEF CDies, ClientReads, Read
  <2>4. ClientWrites(c)
    BY <1>27 DEF CDies, ClientWrites
  <2>5. Connects(c)
    BY <1>27 DEF CDies, Connects
  <2> QED BY <2>1, <2>2, <2>3, <2>4, <2>5 DEF ClientMoves
<1> QED BY <1>11, <1>12, <1>13, <1>14, <1>15, <1>16, <1>17, <1>18, <1>19, <1>20, <1>21, <1>22, <1>23, <1>24, <1>25, <1>26, <1>27 DEF Client, Finish
------------------------------------------------------------------------------
(* What the shapes are enough for: the types, the messages, and that a client *)
(* has one control connection.                                               *)

\* A step of the program.
LEMMA StepCases ==
    ASSUME Typed, Worded, [Next]_vars
    PROVE  ReceiverMoves \/ (\E c \in Clients : ClientMoves(c)) \/ UNCHANGED vars
BY ReceiverShape, ClientShape DEF Next

\* No step leaves the types.
LEMMA TypedStep ==
    ASSUME Typed, ReceiverMoves \/ (\E c \in Clients : ClientMoves(c)) \/ UNCHANGED vars
    PROVE  Typed'
<1> USE ClientsAssumption
<1>0. backlog \in Seq(Conns)
  BY DEF Typed
<1>1. CASE ReceiverMoves
  <2>1. backlog' \in Seq(Conns)
    <3>1. backlog # <<>> => Tail(backlog) \in Seq(Conns)
      BY <1>0, ReadFacts
    <3>2. <<>> \in Seq(Conns)
      OBVIOUS
    <3> QED BY <1>0, <1>1, <3>1, <3>2 DEF ReceiverMoves, Turns, Leaves
  <2>2. DOMAIN toR' = Clients /\ DOMAIN toC' = Clients
    BY <1>1 DEF ReceiverMoves, Reads, Writes, Typed
  <2>3. CASE Leaves(backlog) \/ Leaves(Tail(backlog))
    BY <1>1, <2>1, <2>2, <2>3 DEF ReceiverMoves, Leaves, Typed, Stages
  <2>4. CASE Stays
    BY <1>1, <2>1, <2>2, <2>4 DEF ReceiverMoves, Stays, Typed, Stages
  <2> QED BY <1>1, <2>3, <2>4 DEF ReceiverMoves, Turns
<1>2. ASSUME NEW c \in Clients, ClientMoves(c) PROVE Typed'
  <2>1. backlog' \in Seq(Conns)
    <3>1. ASSUME NEW k \in {"control", "data", "test", "bench"}
          PROVE  Append(backlog, Conn(c, k)) \in Seq(Conns)
      <4>1. Conn(c, k) \in Conns
        BY DEF Conn, Conns
      <4> QED BY <1>0, <4>1
    <3> QED BY <1>0, <1>2, <3>1 DEF ClientMoves, Connects
  <2>2. DOMAIN toR' = Clients /\ DOMAIN toC' = Clients
    BY <1>2 DEF ClientMoves, ClientReads, ClientWrites, Typed
  <2>3. cpc' \in [Clients -> Places]
    BY <1>2 DEF ClientMoves, ClientPlace, Typed
  <2>4. round' \in [Clients -> 0..Len(TestConfigs)] /\ made' \in [Clients -> Nat]
    <3>1. Len(TestConfigs) \in Nat
      BY CountsAssumption
    <3>2. round \in [Clients -> 0..Len(TestConfigs)] /\ made \in [Clients -> Nat]
      BY DEF Typed
    <3>3. round[c] < Len(TestConfigs) => round[c] + 1 \in 0..Len(TestConfigs)
      BY <3>1, <3>2
    <3> QED BY <1>2, <3>2, <3>3 DEF ClientMoves, ClientPlace
  <2>5. deaths' \in 0..MaxDeaths
    BY <1>2 DEF ClientMoves, ClientPlace
  <2> QED BY <1>2, <2>1, <2>2, <2>3, <2>4, <2>5 DEF ClientMoves, Typed
<1>3. CASE UNCHANGED vars
  BY <1>3 DEF Typed
<1> QED BY <1>1, <1>2, <1>3

\* No step writes but what the options make each side say.
LEMMA WordedStep ==
    ASSUME Typed, Worded, ReceiverMoves \/ (\E c \in Clients : ClientMoves(c)) \/ UNCHANGED vars
    PROVE  Worded'
<1>0. DOMAIN toR = Clients /\ DOMAIN toC = Clients
  BY DEF Typed
<1> SUFFICES ASSUME NEW d \in Clients
             PROVE  (toR[d] \in Seq(Said(d)))' /\ (toC[d] \in Seq(Told(d)))'
  BY DEF Worded
<1>1. toR[d] \in Seq(Said(d)) /\ toC[d] \in Seq(Told(d))
  BY DEF Worded
<1>2. rcv' = rcv /\ cfg' = cfg
  BY DEF ReceiverMoves, ClientMoves, Turns, Leaves
<1>3. Said(d)' = Said(d) /\ Told(d)' = Told(d)
  BY <1>2 DEF Said, Told, Hello, PairingRequired
<1>4. CASE ReceiverMoves
  <2>1. toR'[d] \in Seq(Said(d))
    <3>1. toR'[d] = toR[d] \/ (toR[d] # <<>> /\ toR'[d] = Tail(toR[d]))
      BY <1>0, <1>4 DEF ReceiverMoves, Reads
    <3> QED BY <1>1, <3>1, ReadFacts
  <2>2. toC'[d] \in Seq(Told(d))
    <3>1. toC'[d] = toC[d] \/ \E m \in Seq(Told(d)) : toC'[d] = toC[d] \o m
      BY <1>0, <1>4 DEF ReceiverMoves, Writes
    <3> QED BY <1>1, <3>1, WriteFacts
  <2> QED BY <1>3, <2>1, <2>2
<1>5. ASSUME NEW c \in Clients, ClientMoves(c)
      PROVE  toR'[d] \in Seq(Said(d)) /\ toC'[d] \in Seq(Told(d))
  <2>1. toC'[d] \in Seq(Told(d))
    BY <1>0, <1>1, <1>5, ReadFacts, SMTT(30) DEF ClientMoves, ClientReads
  <2>2. CASE toR' = toR
    BY <1>1, <2>1, <2>2
  <2>3. ASSUME NEW m \in Seq(Said(c)), toR' = [toR EXCEPT ![c] = @ \o m]
        PROVE  toR'[d] \in Seq(Said(d))
    BY <1>0, <1>1, <2>3, WriteFacts
  <2>4. ASSUME NEW k \in 0..Len(toR[c]), toR' = [toR EXCEPT ![c] = SubSeq(@, 1, k)]
        PROVE  toR'[d] \in Seq(Said(d))
    <3>1. \A S : \A s \in Seq(S) : \A n \in 0..Len(s) : SubSeq(s, 1, n) \in Seq(S)
      OBVIOUS
    <3> QED BY <1>0, <1>1, <2>4, <3>1
  <2> QED BY <1>5, <2>1, <2>2, <2>3, <2>4 DEF ClientMoves, ClientWrites
<1>6. CASE UNCHANGED vars
  BY <1>1, <1>3, <1>6
<1> QED BY <1>3, <1>4, <1>5, <1>6

\* A client connects no more streams than it has to.
LEMMA CountedStep ==
    ASSUME Typed, Worded, Counted, [Next]_vars
    PROVE  Counted'
<1>0. /\ cpc \in [Clients -> Places] /\ made \in [Clients -> Nat]
      /\ round \in [Clients -> 0..Len(TestConfigs)]
      /\ NumStreams \in Nat /\ \A i \in 1..Len(TestConfigs) : TestConfigs[i] \in Nat
      /\ \A d \in Clients : cfg[d].active \in Nat
  BY CountsAssumption DEF Typed
<1> DEFINE Fine(d) ==
             /\ cpc[d] \in {"ready", "burst"} /\ cfg[d].mode # 3 => round[d] > 0
             /\ cpc[d] \in {"burst", "data"} => made[d] <= StreamsToMake(d)
<1>1. \A d \in Clients : Fine(d)
  BY DEF Counted
<1>2. CASE UNCHANGED <<cVars>>
  BY <1>1, <1>2 DEF Counted, StreamsToMake
<1>3. CASE Receiver
  BY <1>2, <1>3, ReceiverShape DEF ReceiverMoves
<1>4. ASSUME NEW c \in Clients, Client(c) \/ Finish(c) \/ CDies(c) PROVE Counted'
  <2>1. ClientMoves(c)
    BY <1>4, ClientShape
  <2>2. ASSUME NEW d \in Clients, d # c PROVE Fine(d)'
    <3>1. UNCHANGED <<cpc[d], cfg[d], round[d], made[d]>>
      BY <1>0, <2>1, <2>2 DEF ClientMoves, ClientPlace
    <3> QED BY <1>1, <3>1 DEF StreamsToMake
  <2>3. Fine(c)'
    <3>1. CASE cpc'[c] \notin {"ready", "burst", "data"}
      BY <3>1
    <3>2. CASE CTune(c)
      BY <1>0, <1>1, <3>2 DEF CTune, Goto, StreamsToMake
    <3>3. CASE CReady(c)
      BY <1>0, <1>1, <3>3 DEF CReady, Goto, StreamsToMake
    <3>4. CASE CStream(c)
      BY <1>0, <1>1, <3>4 DEF CStream, Goto, StreamsToMake
    <3>5. CASE CConfirm(c)
      BY <1>0, <1>1, <3>5 DEF CConfirm, Goto, StreamsToMake
    <3>6. CASE CConnect(c) \/ CNonce(c) \/ CAuth(c) \/ CChallenge(c) \/ CVerdict(c) \/ CPair(c) \/ CPaired(c) \/ CSpeed(c) \/ CList(c) \/ CEof(c) \/ CBurstEnds(c) \/ CDone(c) \/ CDies(c)
      BY <1>0, <3>1, <3>6 DEF CConnect, CNonce, CAuth, CChallenge, CVerdict, CPair, CPaired, CSpeed, CList, CEof, CBurstEnds, CDone, CDies, Goto, StreamsToMake
    <3> QED BY <1>4, <3>2, <3>3, <3>4, <3>5, <3>6 DEF Client, Finish
  <2> QED BY <2>2, <2>3 DEF Counted
<1> QED BY <1>2, <1>3, <1>4 DEF Next

\* A client that waits to be accepted, or is served, does not connect again.
LEMMA SingleStep ==
    ASSUME Typed, Worded, Talking, Single, [Next]_vars
    PROVE  Single'
<1>0. backlog \in Seq(Conns) /\ cpc \in [Clients -> Places]
  BY DEF Typed
<1>1. CASE backlog' \in {backlog, <<>>}
  BY <1>1 DEF Single
<1>2. CASE backlog # <<>> /\ backlog' = Tail(backlog)
  <2> SUFFICES ASSUME NEW j \in DOMAIN Tail(backlog), NEW k \in DOMAIN Tail(backlog),
                      Tail(backlog)[j].kind = "control", Tail(backlog)[j] = Tail(backlog)[k]
               PROVE  j = k
    BY <1>2 DEF Single
  <2>1. /\ j + 1 \in DOMAIN backlog /\ Tail(backlog)[j] = backlog[j + 1]
        /\ k + 1 \in DOMAIN backlog /\ Tail(backlog)[k] = backlog[k + 1]
    BY <1>0, <1>2, TailFacts
  <2>2. j + 1 = k + 1
    BY <2>1 DEF Single
  <2>3. j \in Nat /\ k \in Nat
    BY <1>0, <1>2
  <2> QED BY <2>2, <2>3
<1>3. ASSUME NEW c \in Clients, NEW kind \in {"control", "data", "test", "bench"},
             backlog' = Append(backlog, Conn(c, kind)), kind = "control" => ~Waits(c)
      PROVE  Single'
  <2>1. \A j \in DOMAIN backlog' :
           \/ j \in DOMAIN backlog /\ backlog'[j] = backlog[j]
           \/ j = Len(backlog) + 1 /\ backlog'[j] = Conn(c, kind)
    BY <1>0, <1>3
  <2>2. Conn(c, kind).kind = kind
    BY DEF Conn
  <2> QED BY <1>3, <2>1, <2>2 DEF Single, Waits
<1>4. CASE Receiver
  BY <1>1, <1>2, <1>4, ReceiverShape DEF ReceiverMoves, Turns, Leaves
<1>5. ASSUME NEW c \in Clients, Client(c) \/ Finish(c) \/ CDies(c) PROVE Single'
  <2>1. CASE CConnect(c)
    BY <1>1, <1>3, <2>1 DEF CConnect, Talking
  <2>2. CASE CStream(c)
    <3>1. StreamKind(c) \in {"data", "bench", "test"}
      BY DEF StreamKind
    <3> QED BY <1>1, <1>3, <2>2, <3>1 DEF CStream
  <2>3. CASE backlog' = backlog
    BY <1>1, <2>3
  <2> QED BY <1>5, <2>1, <2>2, <2>3 DEF Client, Finish, CNonce, CAuth, CChallenge, CVerdict, CPair, CPaired, CTune, CReady, CSpeed, CList, CConfirm, CEof, CBurstEnds, CDone, CDies
<1> QED BY <1>1, <1>4, <1>5 DEF Next

\* The benchmark's listener never comes to a transfer.
LEMMA BenchOnlyStep ==
    ASSUME Typed, Worded, BenchOnly, [Next]_vars
    PROVE  BenchOnly'
<1>0. CASE UNCHANGED rVars
  BY <1>0 DEF BenchOnly
<1>1. CASE \E q : Leaves(q)
  BY <1>1 DEF BenchOnly, Leaves
<1>2. CASE RAccept
  BY <1>1, <1>2, Leaving DEF RAccept, BenchOnly, RGoto, AcceptLoop, Pairing, Acceptable, Modes
<1>3. CASE RHello
  BY <1>1, <1>3, Leaving DEF RHello, BenchOnly, RGoto, AcceptLoop, Pairing, Acceptable, Modes
<1>4. CASE RNonce
  BY <1>1, <1>4, Leaving DEF RNonce, BenchOnly, RGoto, AcceptLoop, Pairing, Acceptable, Modes
<1>5. CASE RAuth
  BY <1>1, <1>5, Leaving DEF RAuth, BenchOnly, RGoto, AcceptLoop, Pairing, Acceptable, Modes
<1>6. CASE RResponse
  BY <1>1, <1>6, Leaving DEF RResponse, BenchOnly, RGoto, AcceptLoop, Pairing, Acceptable, Modes
<1>7. CASE RCode
  BY <1>1, <1>7, Leaving DEF RCode, BenchOnly, RGoto, AcceptLoop, Pairing, Acceptable, Modes
<1>8. CASE RTest
  BY <1>1, <1>8, Leaving DEF RTest, BenchOnly, RGoto, AcceptLoop, Pairing, Acceptable, Modes
<1>9. CASE RTestAccept
  BY <1>1, <1>9, Leaving DEF RTestAccept, BenchOnly, RGoto, AcceptLoop, Pairing, Acceptable, Modes
<1>10. CASE RTestDone
  BY <1>1, <1>10, Leaving DEF RTestDone, BenchOnly, RGoto, AcceptLoop, Pairing, Acceptable, Modes
<1>11. CASE RGo
  BY <1>1, <1>11, Leaving DEF RGo, BenchOnly, RGoto, AcceptLoop, Pairing, Acceptable, Modes
<1>12. CASE RIndex
  BY <1>1, <1>12, Leaving DEF RIndex, BenchOnly, RGoto, AcceptLoop, Pairing, Acceptable, Modes
<1>13. CASE RDataAccept
  BY <1>1, <1>13, Leaving DEF RDataAccept, BenchOnly, RGoto, AcceptLoop, Pairing, Acceptable, Modes
<1>14. CASE RJoin
  BY <1>1, <1>14, Leaving DEF RJoin, BenchOnly, RGoto, AcceptLoop, Pairing, Acceptable, Modes
<1>15. CASE REof
  BY <1>1, <1>15, Leaving DEF REof, BenchOnly, RGoto, AcceptLoop, Pairing, Acceptable, Modes
<1>16. CASE RWriteFails
  BY <1>1, <1>16, Leaving DEF RWriteFails, BenchOnly, RGoto, AcceptLoop, Pairing, Acceptable, Modes
<1> QED BY <1>0, <1>2, <1>3, <1>4, <1>5, <1>6, <1>7, <1>8, <1>9, <1>10, <1>11, <1>12, <1>13, <1>14, <1>15, <1>16, ClientShape DEF Next, Receiver, ClientMoves
------------------------------------------------------------------------------
(* The handshake.                                                            *)

\* What a client and the receiver have made sure of, for one client.
AgreedWith(c) ==
    /\ (cur = c /\ rpc # "hello") \/ toC[c] # <<>> => Greeted(c)
    /\ cpc[c] \in {"challenge", "verdict", "pair", "paired"} \/ ClientReady(c) => Greeted(c)
    /\ cpc[c] \in {"pair", "paired"} \/ ClientReady(c) => cfg[c].key = rcv.key
    /\ ClientReady(c) /\ PairingRequired => cfg[c].code = "right"
    /\ cur = c /\ rpc = "response" => rcv.key # NoKey
    /\ cur = c /\ rpc = "code" => PairingRequired
    /\ ReceiverReady(c) =>
          /\ PairingRequired => cfg[c].code = "right"
          /\ rcv.key # NoKey => cfg[c].key = rcv.key

\* A step of a client: it goes on only as far as it has read that they agree.
LEMMA AgreedClient ==
    ASSUME Typed, Worded, Agreed, NEW c \in Clients, Client(c) \/ Finish(c) \/ CDies(c)
    PROVE  Agreed'
<1>0. cpc \in [Clients -> Places] /\ DOMAIN toC = Clients
  BY DEF Typed
<1>1. UNCHANGED <<rVars, cfg>> /\ ClientPlace(c) /\ ClientReads(c)
  BY ClientShape DEF ClientMoves
<1>2. \A d \in Clients : AgreedWith(d)
  BY DEF Agreed, AgreedWith
<1>3. ASSUME NEW d \in Clients, d # c PROVE AgreedWith(d)'
  <2>1. UNCHANGED <<cpc[d], toC[d]>>
    BY <1>0, <1>1, <1>3 DEF ClientPlace, ClientReads
  <2> QED BY <1>1, <1>2, <2>1
        DEF AgreedWith, Greeted, ClientReady, ReceiverReady, PairingRequired
<1>4. toC'[c] # <<>> => toC[c] # <<>>
  BY <1>0, <1>1 DEF ClientReads
<1>5. toC[c] # <<>> =>
        LET m == Head(toC[c]) IN
        /\ m.type = "auth" => m.val = (rcv.key # NoKey)
        /\ m.type = "verdict" => m.val = (cfg[c].key = rcv.key)
        /\ m.type = "pair" => m.val = PairingRequired
        /\ m.type = "paired" => m.val = (cfg[c].code = "right")
  BY ToldRead DEF Worded
<1>6. ASSUME /\ cpc'[c] \in {"challenge", "verdict", "pair", "paired"} \/ ClientReady(c)' => Greeted(c)
             /\ cpc'[c] \in {"pair", "paired"} \/ ClientReady(c)' => cfg[c].key = rcv.key
             /\ ClientReady(c)' /\ PairingRequired => cfg[c].code = "right"
      PROVE  AgreedWith(c)'
  BY <1>1, <1>2, <1>4, <1>6 DEF AgreedWith, Greeted, ReceiverReady, PairingRequired
<1>7. ASSUME CConnect(c) PROVE AgreedWith(c)'
  BY <1>0, <1>2, <1>5, <1>6, <1>7 DEF CConnect, Goto, AgreedWith, ClientReady
<1>8. ASSUME CNonce(c) PROVE AgreedWith(c)'
  BY <1>0, <1>2, <1>5, <1>6, <1>8 DEF CNonce, Goto, AgreedWith, ClientReady
<1>9. ASSUME CAuth(c) PROVE AgreedWith(c)'
  BY <1>0, <1>2, <1>5, <1>6, <1>9 DEF CAuth, Goto, AgreedWith, ClientReady, AuthExpected, Val, Read
<1>10. ASSUME CChallenge(c) PROVE AgreedWith(c)'
  BY <1>0, <1>2, <1>5, <1>6, <1>10 DEF CChallenge, Goto, AgreedWith, ClientReady, Val, Read
<1>11. ASSUME CVerdict(c) PROVE AgreedWith(c)'
  BY <1>0, <1>2, <1>5, <1>6, <1>11 DEF CVerdict, Goto, AgreedWith, ClientReady, Val, Read
<1>12. ASSUME CPair(c) PROVE AgreedWith(c)'
  BY <1>0, <1>2, <1>5, <1>6, <1>12 DEF CPair, Goto, AgreedWith, ClientReady, Val, Read
<1>13. ASSUME CPaired(c) PROVE AgreedWith(c)'
  BY <1>0, <1>2, <1>5, <1>6, <1>13 DEF CPaired, Goto, AgreedWith, ClientReady, Val, Read
<1>14. ASSUME CTune(c) PROVE AgreedWith(c)'
  BY <1>0, <1>2, <1>5, <1>6, <1>14 DEF CTune, Goto, AgreedWith, ClientReady
<1>15. ASSUME CReady(c) PROVE AgreedWith(c)'
  BY <1>0, <1>2, <1>5, <1>6, <1>15 DEF CReady, Goto, AgreedWith, ClientReady
<1>16. ASSUME CStream(c) PROVE AgreedWith(c)'
  BY <1>0, <1>2, <1>5, <1>6, <1>16 DEF CStream, Goto, AgreedWith, ClientReady
<1>17. ASSUME CSpeed(c) PROVE AgreedWith(c)'
  BY <1>0, <1>2, <1>5, <1>6, <1>17 DEF CSpeed, Goto, AgreedWith, ClientReady
<1>18. ASSUME CList(c) PROVE AgreedWith(c)'
  BY <1>0, <1>2, <1>5, <1>6, <1>18 DEF CList, Goto, AgreedWith, ClientReady
<1>19. ASSUME CConfirm(c) PROVE AgreedWith(c)'
  BY <1>0, <1>2, <1>5, <1>6, <1>19 DEF CConfirm, Goto, AgreedWith, ClientReady
<1>20. ASSUME CEof(c) PROVE AgreedWith(c)'
  BY <1>0, <1>2, <1>5, <1>6, <1>20 DEF CEof, Goto, AgreedWith, ClientReady
<1>21. ASSUME CBurstEnds(c) PROVE AgreedWith(c)'
  BY <1>0, <1>2, <1>5, <1>6, <1>21 DEF CBurstEnds, Goto, AgreedWith, ClientReady
<1>22. ASSUME CDone(c) PROVE AgreedWith(c)'
  BY <1>0, <1>2, <1>5, <1>6, <1>22 DEF CDone, Goto, AgreedWith, ClientReady
<1>23. ASSUME CDies(c) PROVE AgreedWith(c)'
  BY <1>0, <1>2, <1>5, <1>6, <1>23 DEF CDies, Goto, AgreedWith, ClientReady
<1>24. AgreedWith(c)'
  BY <1>7, <1>8, <1>9, <1>10, <1>11, <1>12, <1>13, <1>14, <1>15, <1>16, <1>17, <1>18, <1>19, <1>20, <1>21, <1>22, <1>23 DEF Client, Finish
<1> QED BY <1>3, <1>24 DEF Agreed, AgreedWith

\* A step of the receiver: it goes on only with a client that it agrees with.
LEMMA AgreedReceiver ==
    ASSUME Typed, Worded, Agreed, Receiver
    PROVE  Agreed'
<1>0. DOMAIN toC = Clients /\ NoClient \notin Clients
  BY ClientsAssumption DEF Typed
<1>1. ReceiverMoves
  BY ReceiverShape
<1>2. \A d \in Clients : AgreedWith(d)
  BY DEF Agreed, AgreedWith
<1>3. cur \in Clients \/ cur = NoClient
  BY DEF Typed
<1>4. cur = NoClient <=> rpc \in {"accept", "ok", "err"}
  BY DEF Typed
<1>5. ASSUME cur' \in Clients =>
               /\ rpc' # "hello" => Greeted(cur')
               /\ rpc' = "response" => rcv.key # NoKey
               /\ rpc' = "code" => PairingRequired
               /\ rpc' \in {"serve", "testaccept", "index", "dataaccept"} =>
                    /\ PairingRequired => cfg[cur'].code = "right"
                    /\ rcv.key # NoKey => cfg[cur'].key = rcv.key,
             toC' # toC => Greeted(cur)
      PROVE  Agreed'
  <2> SUFFICES ASSUME NEW d \in Clients PROVE AgreedWith(d)'
    BY DEF Agreed, AgreedWith
  <2>1. UNCHANGED <<rcv, cfg, cpc>>
    BY <1>1 DEF ReceiverMoves
  <2>2. toC'[d] = toC[d] \/ (d = cur /\ toC' # toC)
    BY <1>0, <1>1 DEF ReceiverMoves, Writes
  <2>3. toC'[d] # <<>> => Greeted(d)
    BY <1>2, <1>5, <2>2 DEF AgreedWith
  <2> QED BY <1>2, <1>5, <2>1, <2>3
        DEF AgreedWith, Greeted, ClientReady, ReceiverReady, PairingRequired
<1>6. cur \in Clients /\ toR[cur] # <<>> =>
        LET m == Head(toR[cur]) IN
        /\ m.type = "hello" => m.val = Hello(cur)
        /\ m.type = "response" => m.val = cfg[cur].key
        /\ m.type = "code" => m.val = cfg[cur].code
  BY SaidRead DEF Worded
<1>7. cur \in Clients => AgreedWith(cur)
  BY <1>2
<1>8. ASSUME NEW q, Leaves(q), rpc = "hello" => toC' = toC PROVE Agreed'
  BY <1>1, <1>0, <1>3, <1>4, <1>5, <1>7, <1>8 DEF Leaves, AgreedWith, ReceiverMoves, Writes
<1>9. CASE RAccept
  BY <1>0, <1>3, <1>4, <1>5, <1>6, <1>7, <1>8, <1>9, Leaving DEF RAccept, AgreedWith, RGoto, AcceptLoop, Pairing, ReceiverReady, PairingRequired
<1>10. CASE RHello
  BY <1>0, <1>3, <1>4, <1>5, <1>6, <1>7, <1>8, <1>10, Leaving DEF RHello, AgreedWith, RGoto, AcceptLoop, Pairing, ReceiverReady, PairingRequired, RRead, RVal, Acceptable, Hello, Greeted
<1>11. CASE RNonce
  BY <1>0, <1>3, <1>4, <1>5, <1>6, <1>7, <1>8, <1>11, Leaving DEF RNonce, AgreedWith, RGoto, AcceptLoop, Pairing, ReceiverReady, PairingRequired
<1>12. CASE RAuth
  BY <1>0, <1>3, <1>4, <1>5, <1>6, <1>7, <1>8, <1>12, Leaving DEF RAuth, AgreedWith, RGoto, AcceptLoop, Pairing, ReceiverReady, PairingRequired
<1>13. CASE RResponse
  BY <1>0, <1>3, <1>4, <1>5, <1>6, <1>7, <1>8, <1>13, Leaving DEF RResponse, AgreedWith, RGoto, AcceptLoop, Pairing, ReceiverReady, PairingRequired, RRead, RVal
<1>14. CASE RCode
  BY <1>0, <1>3, <1>4, <1>5, <1>6, <1>7, <1>8, <1>14, Leaving DEF RCode, AgreedWith, RGoto, AcceptLoop, Pairing, ReceiverReady, PairingRequired, RRead, RVal
<1>15. CASE RTest
  BY <1>0, <1>3, <1>4, <1>5, <1>6, <1>7, <1>8, <1>15, Leaving DEF RTest, AgreedWith, RGoto, AcceptLoop, Pairing, ReceiverReady, PairingRequired
<1>16. CASE RTestAccept
  BY <1>0, <1>3, <1>4, <1>5, <1>6, <1>7, <1>8, <1>16, Leaving DEF RTestAccept, AgreedWith, RGoto, AcceptLoop, Pairing, ReceiverReady, PairingRequired
<1>17. CASE RTestDone
  BY <1>0, <1>3, <1>4, <1>5, <1>6, <1>7, <1>8, <1>17, Leaving DEF RTestDone, AgreedWith, RGoto, AcceptLoop, Pairing, ReceiverReady, PairingRequired
<1>18. CASE RGo
  BY <1>0, <1>3, <1>4, <1>5, <1>6, <1>7, <1>8, <1>18, Leaving DEF RGo, AgreedWith, RGoto, AcceptLoop, Pairing, ReceiverReady, PairingRequired
<1>19. CASE RIndex
  BY <1>0, <1>3, <1>4, <1>5, <1>6, <1>7, <1>8, <1>19, Leaving DEF RIndex, AgreedWith, RGoto, AcceptLoop, Pairing, ReceiverReady, PairingRequired
<1>20. CASE RDataAccept
  BY <1>0, <1>3, <1>4, <1>5, <1>6, <1>7, <1>8, <1>20, Leaving DEF RDataAccept, AgreedWith, RGoto, AcceptLoop, Pairing, ReceiverReady, PairingRequired
<1>21. CASE RJoin
  BY <1>0, <1>3, <1>4, <1>5, <1>6, <1>7, <1>8, <1>21, Leaving DEF RJoin, AgreedWith, RGoto, AcceptLoop, Pairing, ReceiverReady, PairingRequired
<1>22. CASE REof
  BY <1>0, <1>3, <1>4, <1>5, <1>6, <1>7, <1>8, <1>22, Leaving DEF REof, AgreedWith, RGoto, AcceptLoop, Pairing, ReceiverReady, PairingRequired
<1>23. CASE RWriteFails
  BY <1>0, <1>3, <1>4, <1>5, <1>6, <1>7, <1>8, <1>23, Leaving DEF RWriteFails, AgreedWith, RGoto, AcceptLoop, Pairing, ReceiverReady, PairingRequired
<1> QED BY <1>9, <1>10, <1>11, <1>12, <1>13, <1>14, <1>15, <1>16, <1>17, <1>18, <1>19, <1>20, <1>21, <1>22, <1>23 DEF Receiver
------------------------------------------------------------------------------
(* The dialogue.                                                             *)

\* How the script goes on when the client at pc reads the next message.
LEMMA ScriptReads ==
    ASSUME NEW r, NEW c, NEW tr, NEW tc, tc # None
    PROVE  LET Reading(pc) == Script(r, c, pc, tr, tc) /\ Head(tc) = pc
               Then(pc) == Script(r, c, pc, tr, Tail(tc))
           IN
           /\ Reading("nonce") => Then("auth")
           /\ Reading("auth") /\ rcv.key # NoKey => Then("challenge")
           /\ Reading("auth") /\ rcv.key = NoKey => Then("pair")
           /\ Reading("auth") => Then("err")
           /\ Reading("verdict") => Then("pair") /\ Then("err")
           /\ Reading("pair") /\ ~PairingRequired => Then("tune")
           /\ Reading("pair") /\ PairingRequired => Then("err")
           /\ Reading("paired") => Then("tune") /\ Then("err")
           /\ Reading("ready") => Then("burst")
           /\ Reading("speed") => Then("tune")
           /\ Reading("list") => Then("confirm") /\ Then("ok")
           /\ Reading("confirm") => Then("data")
<1> DEFINE Reading(pc) == Script(r, c, pc, tr, tc) /\ Head(tc) = pc
           Then(pc) == Script(r, c, pc, tr, Tail(tc))
<1> USE Words DEF Script, Ended
<1>1. Reading("nonce") => Then("auth")
  OBVIOUS
<1>2. Reading("auth") /\ rcv.key # NoKey => Then("challenge")
  OBVIOUS
<1>3. Reading("auth") /\ rcv.key = NoKey => Then("pair")
  OBVIOUS
<1>4. Reading("auth") => Then("err")
  BY SMTT(30)
<1>5. Reading("verdict") => Then("pair") /\ Then("err")
  OBVIOUS
<1>6. Reading("pair") /\ ~PairingRequired => Then("tune")
  OBVIOUS
<1>7. Reading("pair") /\ PairingRequired => Then("err")
  OBVIOUS
<1>8. Reading("paired") => Then("tune") /\ Then("err")
  OBVIOUS
<1>9. Reading("ready") => Then("burst")
  OBVIOUS
<1>10. Reading("speed") => Then("tune")
  OBVIOUS
<1>11. Reading("list") => Then("confirm") /\ Then("ok")
  OBVIOUS
<1>12. Reading("confirm") => Then("data")
  OBVIOUS
<1> HIDE DEF Script, Reading, Then
<1> QED BY <1>1, <1>2, <1>3, <1>4, <1>5, <1>6, <1>7, <1>8, <1>9, <1>10, <1>11, <1>12 DEF Reading, Then

\* ... and when it writes, comes to an end, or is killed.
LEMMA ScriptWrites ==
    ASSUME NEW r, NEW c, NEW tr, NEW tc
    PROVE  /\ Script(r, c, "challenge", tr, tc) /\ tc # None /\ Head(tc) = "challenge" =>
                 Script(r, c, "verdict", tr \o One("response"), Tail(tc))
           /\ Script(r, c, "pair", tr, tc) /\ tc # None /\ Head(tc) = "pair" /\ PairingRequired =>
                 Script(r, c, "paired", tr \o One("code"), Tail(tc))
           /\ Script(r, c, "tune", tr, tc) =>
                 /\ Script(r, c, "ready", tr \o One("test"), tc)
                 /\ Script(r, c, "list", tr \o Two("go", "index"), tc)
           /\ Script(r, c, "burst", tr, tc) => Script(r, c, "speed", tr, tc)
<1>1. Script(r, c, "challenge", tr, tc) /\ tc # None /\ Head(tc) = "challenge" =>
        Script(r, c, "verdict", tr \o One("response"), Tail(tc))
  BY Words, Appended DEF Script, Ended
<1>2. Script(r, c, "pair", tr, tc) /\ tc # None /\ Head(tc) = "pair" /\ PairingRequired =>
        Script(r, c, "paired", tr \o One("code"), Tail(tc))
  <2>1. PairingRequired => rcv.key = NoKey
    BY DEF PairingRequired
  <2> QED BY <2>1, Words, Appended DEF Script, Ended
<1>3. Script(r, c, "tune", tr, tc) =>
        /\ Script(r, c, "ready", tr \o One("test"), tc)
        /\ Script(r, c, "list", tr \o Two("go", "index"), tc)
  BY Words, Appended DEF Script, Ended
<1>4. Script(r, c, "burst", tr, tc) => Script(r, c, "speed", tr, tc)
  BY DEF Script, Ended
<1> QED BY <1>1, <1>2, <1>3, <1>4

\* A client that ends stays in the script, with what it said or part of it.
LEMMA ScriptEnds ==
    ASSUME NEW r, NEW c, NEW pc, NEW tr, NEW tc, Script(r, c, pc, tr, tc)
    PROVE  /\ \A q \in Ended : Script(r, c, q, tr, tc) /\ Script(r, c, q, None, tc)
           /\ \A a, b : tr = Two(a, b) => Script(r, c, "dead", One(a), tc)
           /\ tr = None \/ (\E a : tr = One(a)) \/ \E a, b : tr = Two(a, b)
           /\ \/ tc = None \/ (\E a : tc = One(a)) \/ (\E a, b : tc = Two(a, b))
              \/ \E a, b, d : tc = Three(a, b, d)
<1>1. \A q \in Ended : Script(r, c, q, tr, tc) /\ Script(r, c, q, None, tc)
  BY DEF Script, Ended
<1>2. \A a, b : tr = Two(a, b) => Script(r, c, "dead", One(a), tc)
  <2>1. ASSUME NEW a, NEW b, tr = Two(a, b) PROVE Head(tr) = a /\ Tail(tr) = One(b) /\ tr # None
    BY <2>1, Words
  <2>2. \A x : One(x) # None /\ Head(One(x)) = x /\ Tail(One(x)) = None
    BY Words
  <2>3. /\ Head(Two("hello", "nonce")) = "hello"
        /\ Head(Two("go", "index")) = "go"
    BY Words
  <2> QED BY <2>1, <2>2, <2>3 DEF Script, Ended
<1>3. tr = None \/ (\E a : tr = One(a)) \/ \E a, b : tr = Two(a, b)
  BY DEF Script
<1>4. \/ tc = None \/ (\E a : tc = One(a)) \/ (\E a, b : tc = Two(a, b))
      \/ \E a, b, d : tc = Three(a, b, d)
  BY DEF Script
<1> QED BY <1>1, <1>2, <1>3, <1>4

\* How the script goes on when the receiver reads and replies.
LEMMA ScriptReplies ==
    ASSUME NEW c, NEW pc, NEW tr, NEW tc
    PROVE  LET Reading(r) == Script(r, c, pc, tr, tc) /\ tr # None /\ Head(tr) = r
               Then(r, m) == Script(r, c, pc, Tail(tr), tc \o m)
           IN
           /\ Reading("hello") => Script(IF cfg[c].encrypt THEN "nonce" ELSE "auth", c, pc, Tail(tr), tc)
           /\ Reading("nonce") => Then("auth", One("nonce"))
           /\ Script("auth", c, pc, tr, tc) =>
                 IF rcv.key # NoKey THEN Script("response", c, pc, tr, tc \o Two("auth", "challenge"))
                 ELSE Script(Pairing, c, pc, tr, tc \o Two("auth", "pair"))
           /\ Reading("response") => Then("serve", Two("verdict", "pair")) /\ Then("refused", One("verdict"))
           /\ Reading("code") => Then("serve", One("paired"))
           /\ Script("serve", c, pc, tr, tc) /\ tr # None /\ Head(tr) = "test" =>
                 Then("testaccept", One("ready"))
           /\ Script("serve", c, pc, tr, tc) /\ tr # None /\ Head(tr) = "go" =>
                 Script("index", c, pc, Tail(tr), tc)
           /\ Script("testaccept", c, pc, tr, tc) => Script("serve", c, pc, tr, tc \o One("speed"))
           /\ Reading("index") => /\ Script("refused", c, pc, Tail(tr), tc)
                                  /\ Then("refused", One("list"))
                                  /\ Then("dataaccept", Two("list", "confirm"))
<1> DEFINE Reading(r) == Script(r, c, pc, tr, tc) /\ tr # None /\ Head(tr) = r
           Then(r, m) == Script(r, c, pc, Tail(tr), tc \o m)
<1> USE Words, Appended DEF Script, Ended
<1>1. Reading("hello") => Script(IF cfg[c].encrypt THEN "nonce" ELSE "auth", c, pc, Tail(tr), tc)
  OBVIOUS
<1>2. Reading("nonce") => Then("auth", One("nonce"))
  OBVIOUS
<1>3. Script("auth", c, pc, tr, tc) =>
        IF rcv.key # NoKey THEN Script("response", c, pc, tr, tc \o Two("auth", "challenge"))
        ELSE Script(Pairing, c, pc, tr, tc \o Two("auth", "pair"))
  <2>1. Pairing = IF PairingRequired THEN "code" ELSE "serve"
    BY DEF Pairing
  <2>2. SUFFICES ASSUME Script("auth", c, pc, tr, tc)
                 PROVE  IF rcv.key # NoKey
                        THEN Script("response", c, pc, tr, tc \o Two("auth", "challenge"))
                        ELSE Script(Pairing, c, pc, tr, tc \o Two("auth", "pair"))
    OBVIOUS
  <2>3. tr = None /\ ((tc = One("nonce") /\ pc \in Ended \cup {"nonce"})
                    \/ (tc = None /\ pc \in Ended \cup {"auth"}))
    BY <2>2
  <2>4. CASE tc = None /\ pc \in Ended \cup {"auth"}
    <3>1. tc \o Two("auth", "challenge") = Two("auth", "challenge")
          /\ tc \o Two("auth", "pair") = Two("auth", "pair")
      BY <2>4
    <3> QED BY <2>1, <2>3, <2>4, <3>1
  <2>5. CASE tc = One("nonce") /\ pc \in Ended \cup {"nonce"}
    <3>1. tc \o Two("auth", "challenge") = Three("nonce", "auth", "challenge")
          /\ tc \o Two("auth", "pair") = Three("nonce", "auth", "pair")
      <4>1. \A a, b, d : One(a) \o Two(b, d) = Three(a, b, d)
        BY Appended
      <4>2. tc = One("nonce")
        BY <2>5
      <4> QED BY ONLY <4>1, <4>2
    <3> QED BY <2>1, <2>3, <2>5, <3>1
  <2> QED BY <2>3, <2>4, <2>5
<1>4. Reading("response") => Then("serve", Two("verdict", "pair")) /\ Then("refused", One("verdict"))
  <2> SUFFICES ASSUME Reading("response")
               PROVE  Then("serve", Two("verdict", "pair")) /\ Then("refused", One("verdict"))
    OBVIOUS
  <2>1. tr = One("response") /\ tc = None /\ rcv.key # NoKey /\ pc \in Ended \cup {"verdict"}
    OBVIOUS
  <2>2. /\ Tail(tr) = None /\ tc \o Two("verdict", "pair") = Two("verdict", "pair")
        /\ tc \o One("verdict") = One("verdict")
    BY <2>1
  <2> QED BY <2>1, <2>2
<1>5. Reading("code") => Then("serve", One("paired"))
  OBVIOUS
<1>6. Script("serve", c, pc, tr, tc) /\ tr # None /\ Head(tr) = "test" =>
        Then("testaccept", One("ready"))
  BY SMTT(30)
<1>7. Script("serve", c, pc, tr, tc) /\ tr # None /\ Head(tr) = "go" =>
        Script("index", c, pc, Tail(tr), tc)
  OBVIOUS
<1>8. Script("testaccept", c, pc, tr, tc) => Script("serve", c, pc, tr, tc \o One("speed"))
  <2> SUFFICES ASSUME Script("testaccept", c, pc, tr, tc)
               PROVE  Script("serve", c, pc, tr, tc \o One("speed"))
    OBVIOUS
  <2>1. /\ tr = None
        /\ \/ tc = One("ready") /\ pc \in Ended \cup {"ready"}
           \/ tc = None /\ pc \in Ended \cup {"burst", "speed"}
    OBVIOUS
  <2>2. CASE tc = One("ready") /\ pc \in Ended \cup {"ready"}
    <3>1. tc \o One("speed") = Two("ready", "speed")
      BY <2>2
    <3> QED BY <2>1, <2>2, <3>1
  <2>3. CASE tc = None /\ pc \in Ended \cup {"burst", "speed"}
    <3>1. tc \o One("speed") = One("speed")
      BY <2>3
    <3> QED BY <2>1, <2>3, <3>1
  <2> QED BY <2>1, <2>2, <2>3
<1>9. Reading("index") => /\ Script("refused", c, pc, Tail(tr), tc)
                          /\ Then("refused", One("list"))
                          /\ Then("dataaccept", Two("list", "confirm"))
  BY SMTT(30)
<1> HIDE DEF Script, Reading, Then
<1> QED BY <1>1, <1>2, <1>3, <1>4, <1>5, <1>6, <1>7, <1>8, <1>9 DEF Reading, Then

\* The script is the same after a step, for what the step leaves of the client.
LEMMA ScriptedNext ==
    ASSUME UNCHANGED <<rcv, cfg>>, NEW c, NEW r
    PROVE  Scripted(c, r)' <=> Script(r, c, cpc'[c], TypesOf(toR'[c]), TypesOf(toC'[c]))
<1>1. PairingRequired' = PairingRequired
  BY DEF PairingRequired
<1>2. TypesOf(toR[c])' = TypesOf(toR'[c]) /\ TypesOf(toC[c])' = TypesOf(toC'[c])
  BY DEF TypesOf
<1> QED BY <1>1, <1>2 DEF Scripted, Script

\* What the client reads is the first type in flight to it.
LEMMA TypesRead ==
    ASSUME Typed, Worded, NEW c \in Clients, NEW ty, Read(c, ty)
    PROVE  /\ TypesOf(toC[c]) # None /\ Head(TypesOf(toC[c])) = ty
           /\ TypesOf(toC'[c]) = Tail(TypesOf(toC[c]))
<1>1. toC[c] \in Seq(Told(c)) /\ DOMAIN toC = Clients
  BY DEF Worded, Typed
<1>2. toC[c] # <<>> /\ Head(toC[c]).type = ty /\ toC'[c] = Tail(toC[c])
  BY <1>1 DEF Read
<1> QED BY <1>1, <1>2, TypesOfSeq, TypesOfTail DEF None

\* What the client sends is added to the types in flight from it.
LEMMA TypesSend ==
    ASSUME Typed, Worded, NEW c \in Clients, NEW m \in Seq(Said(c)), Send(c, m)
    PROVE  TypesOf(toR'[c]) = TypesOf(toR[c]) \o TypesOf(m)
<1>1. toR[c] \in Seq(Said(c)) /\ DOMAIN toR = Clients
  BY DEF Worded, Typed
<1>2. toR'[c] = toR[c] \o m
  BY <1>1 DEF Send
<1> QED BY <1>1, <1>2, TypesOfAppend

\* A client that dies has sent a part of what it was about to send.
LEMMA TypesCut ==
    ASSUME NEW S, NEW s \in Seq(S), NEW k \in 0..Len(s), NEW a, NEW b,
           TypesOf(s) \in {None, One(a), Two(a, b)}
    PROVE  \/ TypesOf(SubSeq(s, 1, k)) \in {TypesOf(s), None}
           \/ TypesOf(s) = Two(a, b) /\ TypesOf(SubSeq(s, 1, k)) = One(a)
<1>1. Len(s) = Len(TypesOf(s)) /\ \A i \in 1..Len(s) : TypesOf(s)[i] = s[i].type
  BY TypesOfSeq
<1>2. Len(s) \in {0, 1, 2} /\ (TypesOf(s) \in {None, One(a)} => Len(s) < 2)
  BY <1>1 DEF None, One, Two
<1>3. CASE k = Len(s)
  <2>1. SubSeq(s, 1, k) = s
    BY <1>3
  <2> QED BY <2>1
<1>4. CASE k = 0
  <2>1. SubSeq(s, 1, k) = <<>>
    BY <1>4
  <2> QED BY <2>1, TypesOfWords
<1>5. CASE k = 1 /\ Len(s) = 2
  <2>1. SubSeq(s, 1, k) = <<s[1]>>
    <3>2. SubSeq(s, 1, 1) \in Seq(S) /\ Len(SubSeq(s, 1, 1)) = 1 /\ SubSeq(s, 1, 1)[1] = s[1]
      BY <1>5
    <3>3. \A t \in Seq(S) : Len(t) = 1 => t = <<t[1]>>
      OBVIOUS
    <3> QED BY <1>5, <3>2, <3>3
  <2>2. TypesOf(s) = Two(a, b)
    BY <1>2, <1>5
  <2>3. s[1].type = a
    BY <1>1, <1>5, <2>2 DEF Two
  <2> QED BY <2>1, <2>2, <2>3, TypesOfWords
<1>6. k \in Nat /\ k <= Len(s)
  BY <1>2
<1>7. k = Len(s) \/ k = 0 \/ (k = 1 /\ Len(s) = 2)
  BY <1>2, <1>6
<1> QED BY <1>3, <1>4, <1>5, <1>7

\* A client goes on by the script, whatever the receiver has come to.
LEMMA ScriptedClient ==
    ASSUME Typed, Worded, NEW c \in Clients, Client(c) \/ Finish(c) \/ CDies(c), ~CConnect(c),
           NEW r, Scripted(c, r)
    PROVE  Scripted(c, r)'
<1> DEFINE tr == TypesOf(toR[c])
           tc == TypesOf(toC[c])
<1>1. UNCHANGED <<rcv, cfg>>
  BY ClientShape DEF ClientMoves
<1>2. cpc \in [Clients -> Places] /\ DOMAIN toR = Clients /\ DOMAIN toC = Clients
  BY DEF Typed
<1>3. Script(r, c, cpc[c], tr, tc)
  BY DEF Scripted
<1>4. SUFFICES Script(r, c, cpc'[c], TypesOf(toR'[c]), TypesOf(toC'[c]))
  BY <1>1, ScriptedNext
<1>5. \A ty : Read(c, ty) => /\ tc # None /\ Head(tc) = ty
                             /\ TypesOf(toC'[c]) = Tail(tc)
  BY TypesRead
<1>6. toC[c] # <<>> =>
        LET m == Head(toC[c]) IN
        /\ m.type = "auth" => m.val = (rcv.key # NoKey)
        /\ m.type = "verdict" => m.val = (cfg[c].key = rcv.key)
        /\ m.type = "pair" => m.val = PairingRequired
        /\ m.type = "paired" => m.val = (cfg[c].code = "right")
  BY ToldRead DEF Worded
<1>7. toR' = toR => TypesOf(toR'[c]) = tr
  OBVIOUS
<1>8. toC' = toC => TypesOf(toC'[c]) = tc
  OBVIOUS
<1>9. \A q \in Ended : Script(r, c, q, tr, tc)
  BY <1>3, ScriptEnds
<1> HIDE DEF tr, tc
<1>10. CASE CNonce(c)
  <2>1. /\ Read(c, "nonce") /\ cpc[c] = "nonce" /\ toR' = toR
        /\ cpc'[c] = "auth"
    BY <1>2, <1>10 DEF CNonce, Goto
  <2>2. tc # None /\ Head(tc) = "nonce" /\ TypesOf(toC'[c]) = Tail(tc) /\ TypesOf(toR'[c]) = tr
    BY <1>5, <1>7, <2>1
  <2> QED BY <1>3, <2>1, <2>2, ScriptReads
<1>11. CASE CAuth(c)
  <2>1. /\ Read(c, "auth") /\ cpc[c] = "auth" /\ toR' = toR
        /\ cpc'[c] \in {"err", "challenge", "pair"}
    BY <1>2, <1>11 DEF CAuth, Goto
  <2>2. tc # None /\ Head(tc) = "auth" /\ TypesOf(toC'[c]) = Tail(tc) /\ TypesOf(toR'[c]) = tr
    BY <1>5, <1>7, <2>1
  <2>3. /\ cpc'[c] = "challenge" => rcv.key # NoKey
        /\ cpc'[c] = "pair" => rcv.key = NoKey
    BY <1>2, <1>6, <1>11 DEF CAuth, Read, Goto, AuthExpected, Val
  <2> QED BY <1>3, <2>1, <2>2, <2>3, ScriptReads
<1>12. CASE CChallenge(c)
  <2>1. TypesOf(toR'[c]) = tr \o One("response")
    <3>1. <<Msg("response", cfg[c].key)>> \in Seq(Said(c))
      <4>1. Msg("response", cfg[c].key) \in Said(c)
        BY DEF Said
      <4> QED BY <4>1
    <3>2. TypesOf(<<Msg("response", cfg[c].key)>>) = One("response")
      BY TypesOfWords DEF Msg
    <3> QED BY <1>12, <3>1, <3>2, TypesSend DEF CChallenge, tr
  <2> QED BY <1>2, <1>3, <1>5, <1>12, <2>1, ScriptWrites DEF CChallenge, Goto
<1>13. CASE CVerdict(c)
  <2>1. /\ Read(c, "verdict") /\ cpc[c] = "verdict" /\ toR' = toR
        /\ cpc'[c] \in {"pair", "err"}
    BY <1>2, <1>13 DEF CVerdict, Goto
  <2>2. tc # None /\ Head(tc) = "verdict" /\ TypesOf(toC'[c]) = Tail(tc) /\ TypesOf(toR'[c]) = tr
    BY <1>5, <1>7, <2>1
  <2> QED BY <1>3, <2>1, <2>2, ScriptReads
<1>14. CASE CPair(c)
  <2>1. Read(c, "pair") /\ Val(c) = PairingRequired
    BY <1>6, <1>14 DEF CPair, Val, Read
  <2>2. Send(c, <<Msg("code", cfg[c].code)>>) => TypesOf(toR'[c]) = tr \o One("code")
    <3>1. <<Msg("code", cfg[c].code)>> \in Seq(Said(c))
      <4>1. Msg("code", cfg[c].code) \in Said(c)
        BY DEF Said
      <4> QED BY <4>1
    <3>2. TypesOf(<<Msg("code", cfg[c].code)>>) = One("code")
      BY TypesOfWords DEF Msg
    <3> QED BY <3>1, <3>2, TypesSend DEF tr
  <2>3. tc # None /\ Head(tc) = "pair" /\ TypesOf(toC'[c]) = Tail(tc) /\ cpc[c] = "pair"
    BY <1>5, <1>14, <2>1 DEF CPair
  <2>4. \/ ~PairingRequired /\ cpc'[c] = "tune" /\ TypesOf(toR'[c]) = tr
        \/ PairingRequired /\ cpc'[c] = "err" /\ TypesOf(toR'[c]) = tr
        \/ PairingRequired /\ cpc'[c] = "paired" /\ TypesOf(toR'[c]) = tr \o One("code")
    <3>1. \/ ~Val(c) /\ Goto(c, "tune") /\ toR' = toR
          \/ Val(c) /\ Goto(c, "err") /\ toR' = toR
          \/ Val(c) /\ Goto(c, "paired") /\ Send(c, <<Msg("code", cfg[c].code)>>)
      BY <1>14 DEF CPair
    <3>2. \A p : Goto(c, p) => cpc'[c] = p
      BY <1>2 DEF Goto
    <3> QED BY <1>7, <2>1, <2>2, <3>1, <3>2
  <2>5. CASE cpc'[c] = "paired"
    BY <1>3, <2>3, <2>4, <2>5, ScriptWrites
  <2>6. CASE cpc'[c] \in {"tune", "err"}
    BY <1>3, <2>3, <2>4, <2>6, ScriptReads
  <2> QED BY <2>4, <2>5, <2>6
<1>15. CASE CPaired(c)
  <2>1. /\ Read(c, "paired") /\ cpc[c] = "paired" /\ toR' = toR
        /\ cpc'[c] \in {"tune", "err"}
    BY <1>2, <1>15 DEF CPaired, Goto
  <2>2. tc # None /\ Head(tc) = "paired" /\ TypesOf(toC'[c]) = Tail(tc) /\ TypesOf(toR'[c]) = tr
    BY <1>5, <1>7, <2>1
  <2> QED BY <1>3, <2>1, <2>2, ScriptReads
<1>16. CASE CTune(c)
  <2>1. ASSUME NEW n \in Counts, Send(c, <<Msg("test", n)>>)
        PROVE  TypesOf(toR'[c]) = tr \o One("test")
    <3>1. <<Msg("test", n)>> \in Seq(Said(c))
      <4>1. Msg("test", n) \in Said(c)
        BY DEF Said
      <4> QED BY <4>1
    <3>2. TypesOf(<<Msg("test", n)>>) = One("test")
      BY TypesOfWords DEF Msg
    <3> QED BY <2>1, <3>1, <3>2, TypesSend DEF tr
  <2>2. Send(c, TransferHeader(c)) => TypesOf(toR'[c]) = tr \o Two("go", "index")
    <3>1. TransferHeader(c) \in Seq(Said(c))
      <4>1. Msg("go", 0) \in Said(c) /\ Msg("index", cfg[c].dry) \in Said(c)
        BY DEF Said
      <4> QED BY <4>1 DEF TransferHeader
    <3>2. TypesOf(TransferHeader(c)) = Two("go", "index")
      BY TypesOfWords DEF Msg, TransferHeader
    <3> QED BY <3>1, <3>2, TypesSend DEF tr
  <2>3. NumStreams \in Counts /\ (round[c] < Len(TestConfigs) => TestConfigs[round[c] + 1] \in Counts)
    BY CountsAssumption DEF Counts, Typed
  <2>4. cpc[c] = "tune" /\ TypesOf(toC'[c]) = tc
    BY <1>8, <1>16 DEF CTune
  <2>5. \/ cpc'[c] = "ready" /\ \E n \in Counts : Send(c, <<Msg("test", n)>>)
        \/ cpc'[c] = "list" /\ Send(c, TransferHeader(c))
    BY <1>2, <1>16, <2>3 DEF CTune, Goto
  <2>6. \/ cpc'[c] = "ready" /\ TypesOf(toR'[c]) = tr \o One("test")
        \/ cpc'[c] = "list" /\ TypesOf(toR'[c]) = tr \o Two("go", "index")
    BY <2>1, <2>2, <2>5
  <2> QED BY <1>3, <2>4, <2>6, ScriptWrites
<1>17. CASE CReady(c)
  <2>1. /\ Read(c, "ready") /\ cpc[c] = "ready" /\ toR' = toR
        /\ cpc'[c] = "burst"
    BY <1>2, <1>17 DEF CReady, Goto
  <2>2. tc # None /\ Head(tc) = "ready" /\ TypesOf(toC'[c]) = Tail(tc) /\ TypesOf(toR'[c]) = tr
    BY <1>5, <1>7, <2>1
  <2> QED BY <1>3, <2>1, <2>2, ScriptReads
<1>18. CASE CStream(c)
  BY <1>2, <1>3, <1>7, <1>8, <1>9, <1>18 DEF CStream, Goto, Ended
<1>19. CASE CSpeed(c)
  <2>1. /\ Read(c, "speed") /\ cpc[c] = "speed" /\ toR' = toR
        /\ cpc'[c] = "tune"
    BY <1>2, <1>19 DEF CSpeed, Goto
  <2>2. tc # None /\ Head(tc) = "speed" /\ TypesOf(toC'[c]) = Tail(tc) /\ TypesOf(toR'[c]) = tr
    BY <1>5, <1>7, <2>1
  <2> QED BY <1>3, <2>1, <2>2, ScriptReads
<1>20. CASE CList(c)
  <2>1. /\ Read(c, "list") /\ cpc[c] = "list" /\ toR' = toR
        /\ cpc'[c] \in {"ok", "confirm"}
    BY <1>2, <1>20 DEF CList, Goto
  <2>2. tc # None /\ Head(tc) = "list" /\ TypesOf(toC'[c]) = Tail(tc) /\ TypesOf(toR'[c]) = tr
    BY <1>5, <1>7, <2>1
  <2> QED BY <1>3, <2>1, <2>2, ScriptReads
<1>21. CASE CConfirm(c)
  <2>1. /\ Read(c, "confirm") /\ cpc[c] = "confirm" /\ toR' = toR
        /\ cpc'[c] = "data"
    BY <1>2, <1>21 DEF CConfirm, Goto
  <2>2. tc # None /\ Head(tc) = "confirm" /\ TypesOf(toC'[c]) = Tail(tc) /\ TypesOf(toR'[c]) = tr
    BY <1>5, <1>7, <2>1
  <2> QED BY <1>3, <2>1, <2>2, ScriptReads
<1>22. CASE CEof(c)
  BY <1>2, <1>3, <1>7, <1>8, <1>9, <1>22, ScriptWrites DEF CEof, Goto, Ended
<1>23. CASE CBurstEnds(c)
  BY <1>2, <1>3, <1>7, <1>8, <1>9, <1>23, ScriptWrites DEF CBurstEnds, Goto, Ended
<1>24. CASE CDone(c)
  BY <1>2, <1>3, <1>7, <1>8, <1>9, <1>24, ScriptWrites DEF CDone, Goto, Ended
<1>25. CASE CDies(c)
  <2>1. PICK k \in 0..Len(toR[c]) : toR' = [toR EXCEPT ![c] = SubSeq(@, 1, k)]
    BY <1>25 DEF CDies
  <2>2. toR'[c] = SubSeq(toR[c], 1, k) /\ cpc'[c] = "dead" /\ toC' = toC
    BY <1>2, <1>25, <2>1 DEF CDies, Goto
  <2>3. PICK a, b : tr \in {None, One(a), Two(a, b)}
    <3>1. tr = None \/ (\E a : tr = One(a)) \/ \E a, b : tr = Two(a, b)
      BY <1>3, ScriptEnds
    <3> QED BY <3>1
  <2>4. \/ TypesOf(toR'[c]) \in {tr, None}
        \/ tr = Two(a, b) /\ TypesOf(toR'[c]) = One(a)
    <3>1. toR[c] \in Seq(Said(c))
      BY DEF Worded
    <3> QED BY <2>2, <2>3, <3>1, TypesCut DEF tr
  <2> QED BY <1>3, <1>8, <2>2, <2>4, ScriptEnds DEF Ended
<1> QED BY <1>10, <1>11, <1>12, <1>13, <1>14, <1>15, <1>16, <1>17, <1>18, <1>19, <1>20, <1>21, <1>22, <1>23, <1>24, <1>25 DEF Client, Finish

\* How far the receiver and one client are with each other.
TalksWith(c) ==
    IF cpc[c] = "start" THEN cur # c /\ ~Waits(c) /\ toR[c] = <<>> /\ toC[c] = <<>>
    ELSE IF cur = c THEN ~Waits(c) /\ Scripted(c, rpc)
    ELSE IF Waits(c) THEN Scripted(c, "hello")
    ELSE \E r \in Stages : Scripted(c, r)

\* A step of a client keeps every dialogue to the script.
LEMMA TalkingClient ==
    ASSUME Typed, Worded, Talking, NEW c \in Clients, Client(c) \/ Finish(c) \/ CDies(c)
    PROVE  Talking'
<1>0. /\ cpc \in [Clients -> Places] /\ DOMAIN toR = Clients /\ DOMAIN toC = Clients
      /\ backlog \in Seq(Conns)
  BY DEF Typed
<1>1. UNCHANGED <<rVars, cfg>> /\ ClientPlace(c) /\ ClientReads(c) /\ ClientWrites(c) /\ Connects(c)
  BY ClientShape DEF ClientMoves
<1>2. \A d \in Clients : TalksWith(d)
  BY DEF Talking, TalksWith
<1>3. ASSUME NEW k \in {"control", "data", "test", "bench"}, NEW d,
             backlog' = Append(backlog, Conn(c, k))
      PROVE  Waits(d)' <=> Waits(d) \/ (d = c /\ k = "control")
  <2>1. /\ \A j \in DOMAIN backlog' :
             \/ j \in DOMAIN backlog /\ backlog'[j] = backlog[j]
             \/ j = Len(backlog) + 1 /\ backlog'[j] = Conn(c, k)
        /\ \A j \in DOMAIN backlog : j \in DOMAIN backlog' /\ backlog'[j] = backlog[j]
        /\ Len(backlog) + 1 \in DOMAIN backlog' /\ backlog'[Len(backlog) + 1] = Conn(c, k)
    BY <1>0, <1>3
  <2>2. Conn(c, k) = Conn(d, "control") <=> d = c /\ k = "control"
    BY DEF Conn
  <2> QED BY <2>1, <2>2 DEF Waits
<1>4. ASSUME NEW d \in Clients, d # c PROVE TalksWith(d)'
  <2>1. UNCHANGED <<cpc[d], toR[d], toC[d]>>
    BY <1>0, <1>1, <1>4 DEF ClientPlace, ClientReads, ClientWrites
  <2>2. Waits(d)' <=> Waits(d)
    BY <1>1, <1>3, <1>4 DEF Connects, Waits
  <2>3. \A r : Scripted(d, r)' <=> Scripted(d, r)
    BY <1>1, <2>1, ScriptedNext DEF Scripted
  <2> QED BY <1>1, <1>2, <2>1, <2>2, <2>3 DEF TalksWith
<1>5. CASE CConnect(c)
  <2>1. cpc[c] = "start" /\ cur # c /\ ~Waits(c) /\ toR[c] = <<>> /\ toC[c] = <<>>
    BY <1>2, <1>5 DEF CConnect, TalksWith
  <2>2. TypesOf(toC'[c]) = None /\ toC' = toC
    BY <1>5, <2>1, TypesOfWords DEF CConnect
  <2>3. ASSUME Listening /\ cfg[c].encrypt PROVE TalksWith(c)'
    <3>1. Waits(c)'
      BY <1>3, <1>5, <2>3 DEF CConnect
    <3>2. Send(c, <<Msg("hello", Hello(c)), Msg("nonce", c)>>)
      BY <1>5, <2>3, Greetings DEF CConnect, Send, Hello
    <3>3. Msg("hello", Hello(c)) \in Said(c) /\ Msg("nonce", c) \in Said(c)
      BY DEF Said
    <3>4. TypesOf(toR'[c]) = None \o Two("hello", "nonce")
      <4>1. <<Msg("hello", Hello(c)), Msg("nonce", c)>> \in Seq(Said(c))
        BY <3>3
      <4>2. TypesOf(<<Msg("hello", Hello(c)), Msg("nonce", c)>>) = Two("hello", "nonce")
        BY TypesOfWords DEF Msg
      <4> QED BY <2>1, <3>2, <4>1, <4>2, TypesSend, TypesOfWords
    <3>5. cpc'[c] = "nonce"
      BY <1>0, <1>5, <2>3 DEF CConnect, Goto
    <3>6. Scripted(c, "hello")'
      BY <1>1, <2>2, <2>3, <3>4, <3>5, Appended, ScriptedNext DEF Script
    <3> QED BY <1>1, <2>1, <3>1, <3>5, <3>6 DEF TalksWith
  <2>4. ASSUME Listening /\ ~cfg[c].encrypt PROVE TalksWith(c)'
    <3>1. Waits(c)'
      BY <1>3, <1>5, <2>4 DEF CConnect
    <3>2. Send(c, <<Msg("hello", Hello(c))>>)
      BY <1>5, <2>4, Greetings DEF CConnect, Send, Hello
    <3>3. Msg("hello", Hello(c)) \in Said(c)
      BY DEF Said
    <3>4. TypesOf(toR'[c]) = None \o One("hello")
      <4>1. <<Msg("hello", Hello(c))>> \in Seq(Said(c))
        BY <3>3
      <4>2. TypesOf(<<Msg("hello", Hello(c))>>) = One("hello")
        BY TypesOfWords DEF Msg
      <4> QED BY <2>1, <3>2, <4>1, <4>2, TypesSend, TypesOfWords
    <3>5. cpc'[c] = "auth"
      BY <1>0, <1>5, <2>4 DEF CConnect, Goto
    <3>6. Scripted(c, "hello")'
      BY <1>1, <2>2, <2>4, <3>4, <3>5, Appended, ScriptedNext DEF Script
    <3> QED BY <1>1, <2>1, <3>1, <3>5, <3>6 DEF TalksWith
  <2>5. ASSUME ~Listening PROVE TalksWith(c)'
    <3>1. cpc'[c] = "err" /\ toR' = toR /\ ~Waits(c)'
      BY <1>0, <1>5, <2>1, <2>5 DEF CConnect, Goto, Waits
    <3>2. TypesOf(toR'[c]) = None
      BY <2>1, <3>1, TypesOfWords
    <3>3. Scripted(c, "testaccept")'
      BY <1>1, <2>2, <3>1, <3>2, ScriptedNext DEF Script, Ended
    <3> QED BY <1>1, <2>1, <3>1, <3>3 DEF TalksWith, Stages
  <2>6. TalksWith(c)'
    BY <2>3, <2>4, <2>5
  <2> QED BY <1>4, <2>6 DEF Talking, TalksWith
<1>6. CASE ~CConnect(c)
  <2>1. \A r : Scripted(c, r) => Scripted(c, r)'
    BY <1>6, ScriptedClient
  <2>2. Waits(c)' <=> Waits(c)
    <3>1. StreamKind(c) \in {"data", "bench", "test"}
      BY DEF StreamKind
    <3>2. CASE CStream(c)
      BY <1>3, <3>1, <3>2 DEF CStream, Waits
    <3>3. CASE ~CStream(c)
      <4>1. backlog' = backlog
        BY <1>6, <3>3 DEF Client, Finish, CNonce, CAuth, CChallenge, CVerdict, CPair, CPaired,
             CTune, CReady, CSpeed, CList, CConfirm, CEof, CBurstEnds, CDone, CDies
      <4> QED BY <4>1 DEF Waits
    <3> QED BY <3>2, <3>3
  <2>3. cpc[c] # "start"
    BY <1>6 DEF Client, Finish, CNonce, CAuth, CChallenge, CVerdict, CPair, CPaired,
         CTune, CReady, CStream, CSpeed, CList, CConfirm, CEof, CBurstEnds, CDone, CDies
  <2>4. cpc'[c] # "start"
    <3>1. cpc'[c] = cpc[c] \/ cpc'[c] \in Places \ {"start"}
      BY <1>0, <1>6 DEF Client, Finish, CNonce, CAuth, CChallenge, CVerdict, CPair, CPaired, CTune,
         CReady, CStream, CSpeed, CList, CConfirm, CEof, CBurstEnds, CDone, CDies, Goto, Places,
         Replies, Ended
    <3> QED BY <2>3, <3>1
  <2>5. TalksWith(c)'
    BY <1>1, <1>2, <2>1, <2>2, <2>3, <2>4 DEF TalksWith
  <2> QED BY <1>4, <2>5 DEF Talking, TalksWith
<1> QED BY <1>5, <1>6

\* What the receiver reads is the first type in flight from cur.
LEMMA TypesRRead ==
    ASSUME Typed, Worded, cur \in Clients, NEW ty, RRead(ty)
    PROVE  /\ TypesOf(toR[cur]) # None /\ Head(TypesOf(toR[cur])) = ty
           /\ TypesOf(toR'[cur]) = Tail(TypesOf(toR[cur]))
<1>1. toR[cur] \in Seq(Said(cur)) /\ DOMAIN toR = Clients
  BY DEF Worded, Typed
<1>2. toR[cur] # <<>> /\ Head(toR[cur]).type = ty /\ toR'[cur] = Tail(toR[cur])
  BY <1>1 DEF RRead
<1> QED BY <1>1, <1>2, TypesOfSeq, TypesOfTail DEF None

\* What the receiver replies is added to the types in flight to cur.
LEMMA TypesReply ==
    ASSUME Typed, Worded, cur \in Clients
    PROVE  /\ \A m \in Told(cur) : Reply(<<m>>) =>
                 TypesOf(toC'[cur]) = TypesOf(toC[cur]) \o One(m.type)
           /\ \A m, n \in Told(cur) : Reply(<<m, n>>) =>
                 TypesOf(toC'[cur]) = TypesOf(toC[cur]) \o Two(m.type, n.type)
<1>1. toC[cur] \in Seq(Told(cur)) /\ DOMAIN toC = Clients
  BY DEF Worded, Typed
<1>2. ASSUME NEW s \in Seq(Told(cur)), Reply(s)
      PROVE  TypesOf(toC'[cur]) = TypesOf(toC[cur]) \o TypesOf(s)
  <2>1. toC'[cur] = toC[cur] \o s
    BY <1>1, <1>2 DEF Reply
  <2> QED BY <1>1, <2>1, TypesOfAppend
<1>3. \A m, n \in Told(cur) : <<m>> \in Seq(Told(cur)) /\ <<m, n>> \in Seq(Told(cur))
  OBVIOUS
<1> QED BY <1>2, <1>3, TypesOfWords

\* ... and at the place that the receiver comes to.
LEMMA ScriptedNext2 ==
    ASSUME UNCHANGED <<rcv, cfg>>, NEW c
    PROVE  Scripted(c, rpc)' <=> Script(rpc', c, cpc'[c], TypesOf(toR'[c]), TypesOf(toC'[c]))
<1>1. PairingRequired' = PairingRequired
  BY DEF PairingRequired
<1>2. TypesOf(toR[c])' = TypesOf(toR'[c]) /\ TypesOf(toC[c])' = TypesOf(toC'[c])
  BY DEF TypesOf
<1> QED BY <1>1, <1>2 DEF Scripted, Script

\* What a step of the receiver has to leave of the dialogue with cur.
Resumes ==
    /\ cur \in Clients => cur' \in {cur, NoClient}
    /\ cur \in Clients /\ cur' = cur =>
          Script(rpc', cur, cpc[cur], TypesOf(toR'[cur]), TypesOf(toC'[cur]))
    /\ cur \in Clients /\ cur' # cur =>
          \E r \in Stages : Script(r, cur, cpc[cur], TypesOf(toR'[cur]), TypesOf(toC'[cur]))
    /\ cur \notin Clients /\ cur' \in Clients =>
          /\ rpc' = "hello" /\ backlog # <<>> /\ backlog' = Tail(backlog)
          /\ Head(backlog) = Conn(cur', "control")

\* That is enough for every dialogue to keep to the script.
LEMMA TalkingResumes ==
    ASSUME Typed, Worded, Talking, Single, ReceiverMoves, Resumes
    PROVE  Talking'
<1>0. /\ DOMAIN toR = Clients /\ DOMAIN toC = Clients /\ backlog \in Seq(Conns)
      /\ NoClient \notin Clients /\ cur \in Clients \cup {NoClient}
  BY ClientsAssumption DEF Typed
<1>1. UNCHANGED <<rcv, cfg, cpc>>
  BY DEF ReceiverMoves
<1>2. \A d \in Clients : TalksWith(d)
  BY DEF Talking, TalksWith
<1>3. \A d : Waits(d)' => Waits(d)
  <2>1. backlog' \in {backlog, <<>>} \/ (backlog # <<>> /\ backlog' = Tail(backlog))
    BY DEF ReceiverMoves, Turns, Leaves
  <2>2. CASE backlog' \in {backlog, <<>>}
    BY <2>2 DEF Waits
  <2>3. CASE backlog # <<>> /\ backlog' = Tail(backlog)
    BY <1>0, <2>3, TailFacts DEF Waits
  <2> QED BY <2>1, <2>2, <2>3
<1>4. ASSUME cur' \in Clients, cur \notin Clients PROVE Waits(cur') /\ ~(\E k \in DOMAIN backlog' : backlog'[k] = Conn(cur', "control"))
  <2>1. backlog # <<>> /\ backlog' = Tail(backlog) /\ Head(backlog) = Conn(cur', "control")
    BY <1>4 DEF Resumes
  <2>2. /\ Head(backlog) = backlog[1] /\ 1 \in DOMAIN backlog
        /\ \A i \in DOMAIN Tail(backlog) : i + 1 \in DOMAIN backlog /\ Tail(backlog)[i] = backlog[i + 1]
    BY <1>0, <2>1, TailFacts
  <2>3. \A i \in DOMAIN Tail(backlog) : i + 1 # 1
    BY <1>0, <2>1
  <2>4. Conn(cur', "control").kind = "control"
    BY DEF Conn
  <2> QED BY <2>1, <2>2, <2>3, <2>4 DEF Single, Waits
<1> SUFFICES ASSUME NEW d \in Clients PROVE TalksWith(d)'
  BY DEF Talking, TalksWith
<1>5. \A r : Scripted(d, r)' <=> Script(r, d, cpc[d], TypesOf(toR'[d]), TypesOf(toC'[d]))
  BY <1>1, ScriptedNext
<1>6. CASE d = cur
  <2>1. cpc[d] # "start" /\ ~Waits(d) /\ ~Waits(d)'
    BY <1>2, <1>3, <1>6 DEF TalksWith
  <2>2. CASE cur' = cur
    <3>1. Scripted(d, rpc)'
      <4>1. Script(rpc', d, cpc[d], TypesOf(toR'[d]), TypesOf(toC'[d]))
        BY <1>6, <2>2 DEF Resumes
      <4> QED BY <1>1, <4>1, ScriptedNext2
    <3> QED BY <1>1, <1>6, <2>1, <2>2, <3>1 DEF TalksWith
  <2>3. CASE cur' # cur
    <3>1. \E r \in Stages : Scripted(d, r)'
      BY <1>5, <1>6, <2>3 DEF Resumes
    <3> QED BY <1>1, <1>6, <2>1, <2>3, <3>1 DEF TalksWith
  <2> QED BY <2>2, <2>3
<1>7. CASE d # cur
  <2>1. toR'[d] = toR[d] /\ toC'[d] = toC[d]
    BY <1>0, <1>7 DEF ReceiverMoves, Reads, Writes
  <2>2. \A r : Scripted(d, r)' <=> Scripted(d, r)
    BY <1>5, <2>1 DEF Scripted
  <2>3. CASE cur' = d
    <3>1. cur \notin Clients /\ rpc' = "hello" /\ Waits(d) /\ ~Waits(d)'
      BY <1>0, <1>4, <1>7, <2>3 DEF Resumes, Waits
    <3>2. cpc[d] # "start" /\ Scripted(d, "hello")
      BY <1>2, <1>7, <3>1 DEF TalksWith
    <3>3. Scripted(d, rpc)'
      BY <1>1, <2>1, <3>1, <3>2, ScriptedNext2 DEF Scripted
    <3> QED BY <1>1, <2>3, <3>1, <3>2, <3>3 DEF TalksWith
  <2>4. CASE cur' # d
    <3>1. "hello" \in Stages
      BY DEF Stages
    <3> QED BY <1>1, <1>2, <1>3, <1>7, <2>1, <2>2, <2>4, <3>1 DEF TalksWith
  <2> QED BY <2>3, <2>4
<1> QED BY <1>6, <1>7

\* A step of the receiver keeps every dialogue to the script.
LEMMA TalkingReceiver ==
    ASSUME Typed, Worded, Talking, Single, Receiver
    PROVE  Talking'
<1> DEFINE tr == TypesOf(toR[cur])
           tc == TypesOf(toC[cur])
           pc == cpc[cur]
           trp == TypesOf(toR'[cur])
           tcp == TypesOf(toC'[cur])
<1>1. ReceiverMoves
  BY ReceiverShape
<1>2. SUFFICES Resumes
  BY <1>1, TalkingResumes
<1>3. (cur \in Clients /\ rpc \notin {"accept", "ok", "err"}) \/ (cur = NoClient /\ NoClient \notin Clients /\ rpc \in {"accept", "ok", "err"})
  BY ClientsAssumption DEF Typed
<1>4. cur \in Clients => Script(rpc, cur, pc, tr, tc) /\ rpc \in Stages
  BY <1>3 DEF Talking, Scripted, Typed
<1>5. \A ty : cur \in Clients /\ RRead(ty) => tr # None /\ Head(tr) = ty /\ trp = Tail(tr)
  BY TypesRRead
<1>6. (toR' = toR => trp = tr) /\ (toC' = toC => tcp = tc)
  OBVIOUS
<1>7. cur \in Clients =>
        /\ \A m \in Told(cur) : Reply(<<m>>) => tcp = tc \o One(m.type)
        /\ \A m, n \in Told(cur) : Reply(<<m, n>>) => tcp = tc \o Two(m.type, n.type)
  BY TypesReply
<1> HIDE DEF tr, tc, pc, trp, tcp
<1>8. ASSUME cur \in Clients, NEW q, Leaves(q), NEW r \in Stages, Script(r, cur, pc, trp, tcp)
      PROVE  Resumes
  <2>1. Script(r, cur, cpc[cur], TypesOf(toR'[cur]), TypesOf(toC'[cur]))
    BY <1>8 DEF trp, tcp, pc
  <2>2. cur' = NoClient /\ NoClient \notin Clients /\ cur' # cur
    BY <1>3, <1>8, ClientsAssumption DEF Leaves
  <2> QED BY <1>8, <2>1, <2>2, Zenon DEF Resumes
<1>9. ASSUME cur \in Clients, cur' = cur, Script(rpc', cur, pc, trp, tcp)
      PROVE  Resumes
  <2>1. Script(rpc', cur, cpc[cur], TypesOf(toR'[cur]), TypesOf(toC'[cur]))
    BY <1>9 DEF trp, tcp, pc
  <2> QED BY <1>9, <2>1, Zenon DEF Resumes
<1>10. /\ Msg("nonce", 0).type = "nonce" /\ Msg("challenge", 0).type = "challenge"
       /\ Msg("ready", 0).type = "ready" /\ Msg("speed", 0).type = "speed"
       /\ Msg("list", 0).type = "list" /\ Msg("confirm", 0).type = "confirm"
       /\ \A v : /\ Msg("auth", v).type = "auth" /\ Msg("verdict", v).type = "verdict"
                 /\ Msg("pair", v).type = "pair" /\ Msg("paired", v).type = "paired"
  BY DEF Msg
<1>11. CASE RAccept
  <2>1. CASE cur' \in Clients
    <3>1. /\ rpc' = "hello" /\ cur' = Head(backlog).from /\ backlog # <<>> /\ backlog' = Tail(backlog)
          /\ "control" \in Kinds
      BY <1>3, <1>11, <2>1, Leaving DEF RAccept, Leaves
    <3>2. Head(backlog) \in Conns /\ Head(backlog).kind = "control"
      BY <3>1, ReadFacts DEF Typed, Kinds
    <3>3. Head(backlog) = Conn(cur', "control")
      BY <3>1, <3>2 DEF Conn, Conns
    <3> QED BY <1>3, <1>11, <3>1, <3>3 DEF Resumes, RAccept
  <2>2. CASE cur' \notin Clients
    BY <1>3, <1>11, <2>2 DEF Resumes, RAccept
  <2> QED BY <2>1, <2>2
<1>12. CASE RHello
  <2>1. cur \in Clients /\ rpc = "hello" /\ RRead("hello") /\ toC' = toC
    BY <1>3, <1>12 DEF RHello
  <2>2. Script(IF cfg[cur].encrypt THEN "nonce" ELSE "auth", cur, pc, trp, tcp)
    BY <1>4, <1>5, <1>6, <2>1, ScriptReplies
  <2>3. CASE Acceptable(RVal)
    <3>1. RVal = Hello(cur)
      BY <2>1, SaidRead DEF RRead, RVal, Worded
    <3>2. cfg[cur].encrypt = rcv.encrypt
      BY <2>3, <3>1 DEF Acceptable, Hello
    <3> QED BY <1>12, <1>9, <2>1, <2>2, <2>3, <3>2 DEF RHello
  <2>4. CASE ~Acceptable(RVal)
    <3>1. {"nonce", "auth"} \subseteq Stages
      BY DEF Stages
    <3> QED BY <1>12, <1>8, <2>1, <2>2, <2>4, <3>1, Leaving DEF RHello
  <2> QED BY <2>3, <2>4
<1>13. CASE RNonce
  <2>1. cur \in Clients /\ rpc = "nonce" /\ RRead("nonce") /\ rpc' = "auth" /\ cur' = cur
    BY <1>3, <1>13 DEF RNonce, RGoto
  <2>2. tcp = tc \o One("nonce")
    <3>1. Msg("nonce", 0) \in Told(cur)
      BY DEF Told
    <3> QED BY <1>7, <1>10, <1>13, <2>1, <3>1 DEF RNonce
  <2>3. Script("auth", cur, pc, trp, tcp)
    BY <1>4, <1>5, <2>1, <2>2, ScriptReplies
  <2> QED BY <1>9, <2>1, <2>3
<1>14. CASE RAuth
  <2>1. cur \in Clients /\ rpc = "auth" /\ trp = tr /\ cur' = cur
    BY <1>3, <1>6, <1>14 DEF RAuth, RGoto
  <2>2. CASE rcv.key # NoKey
    <3>1. Msg("auth", TRUE) \in Told(cur) /\ Msg("challenge", 0) \in Told(cur)
      BY <2>2 DEF Told
    <3>2. tcp = tc \o Two("auth", "challenge") /\ rpc' = "response"
      BY <1>7, <1>10, <1>14, <2>1, <2>2, <3>1 DEF RAuth, RGoto
    <3>3. Script("response", cur, pc, trp, tcp)
      BY <1>4, <2>1, <2>2, <3>2, ScriptReplies
    <3> QED BY <1>9, <2>1, <3>2, <3>3
  <2>3. CASE rcv.key = NoKey
    <3>1. Msg("auth", FALSE) \in Told(cur) /\ Msg("pair", PairingRequired) \in Told(cur)
      BY <2>3 DEF Told
    <3>2. tcp = tc \o Two("auth", "pair") /\ rpc' = Pairing
      BY <1>7, <1>10, <1>14, <2>1, <2>3, <3>1 DEF RAuth, RGoto
    <3>3. Script(Pairing, cur, pc, trp, tcp)
      BY <1>4, <2>1, <2>3, <3>2, ScriptReplies
    <3> QED BY <1>9, <2>1, <3>2, <3>3
  <2> QED BY <2>2, <2>3
<1>15. CASE RResponse
  <2>1. cur \in Clients /\ rpc = "response" /\ RRead("response")
    BY <1>3, <1>15 DEF RResponse
  <2>2. CASE RVal = rcv.key
    <3>1. Pairing = "serve"
      BY <1>4, <2>1 DEF Script, Pairing, PairingRequired
    <3>2. RVal = cfg[cur].key
      BY <2>1, SaidRead DEF RRead, RVal, Worded
    <3>3. Msg("verdict", TRUE) \in Told(cur) /\ Msg("pair", PairingRequired) \in Told(cur)
      BY <2>2, <3>2 DEF Told
    <3>4. tcp = tc \o Two("verdict", "pair") /\ rpc' = "serve" /\ cur' = cur
      BY <1>7, <1>10, <1>15, <2>1, <2>2, <3>1, <3>3 DEF RResponse, RGoto
    <3>5. Script("serve", cur, pc, trp, tcp)
      BY <1>4, <1>5, <2>1, <3>4, ScriptReplies
    <3> QED BY <1>9, <2>1, <3>4, <3>5
  <2>3. CASE RVal # rcv.key
    <3>2. RVal = cfg[cur].key
      BY <2>1, SaidRead DEF RRead, RVal, Worded
    <3>3. Msg("verdict", FALSE) \in Told(cur)
      BY <2>3, <3>2 DEF Told
    <3>4. tcp = tc \o One("verdict") /\ Leaves(backlog)
      BY <1>7, <1>10, <1>15, <2>1, <2>3, <3>3, Leaving DEF RResponse
    <3>5. Script("refused", cur, pc, trp, tcp)
      BY <1>4, <1>5, <2>1, <3>4, ScriptReplies
    <3> QED BY <1>8, <2>1, <3>4, <3>5 DEF Stages
  <2> QED BY <2>2, <2>3
<1>16. CASE RCode
  <2>1. cur \in Clients /\ rpc = "code" /\ RRead("code") /\ RVal = cfg[cur].code
    BY <1>3, <1>16, SaidRead DEF RCode, RRead, RVal, Worded
  <2>2. tcp = tc \o One("paired") => Script("serve", cur, pc, trp, tcp)
    BY <1>4, <1>5, <2>1, ScriptReplies
  <2>3. CASE RVal = "right"
    <3>1. Msg("paired", TRUE) \in Told(cur)
      BY <2>1, <2>3 DEF Told
    <3>2. tcp = tc \o One("paired") /\ rpc' = "serve" /\ cur' = cur
      BY <1>7, <1>10, <1>16, <2>1, <2>3, <3>1 DEF RCode, RGoto
    <3> QED BY <1>9, <2>1, <2>2, <3>2
  <2>4. CASE RVal # "right"
    <3>1. Msg("paired", FALSE) \in Told(cur)
      BY <2>1, <2>4 DEF Told
    <3>2. tcp = tc \o One("paired") /\ Leaves(backlog)
      BY <1>7, <1>10, <1>16, <2>1, <2>4, <3>1, Leaving DEF RCode
    <3> QED BY <1>8, <2>1, <2>2, <3>2 DEF Stages
  <2> QED BY <2>3, <2>4
<1>17. CASE RTest
  <2>1. cur \in Clients /\ rpc = "serve" /\ RRead("test") /\ rpc' = "testaccept" /\ cur' = cur
    BY <1>3, <1>17 DEF RTest, AcceptLoop
  <2>2. tcp = tc \o One("ready")
    <3>1. Msg("ready", 0) \in Told(cur)
      BY DEF Told
    <3> QED BY <1>7, <1>10, <1>17, <2>1, <3>1 DEF RTest
  <2>3. Script("testaccept", cur, pc, trp, tcp)
    BY <1>4, <1>5, <2>1, <2>2, ScriptReplies
  <2> QED BY <1>9, <2>1, <2>3
<1>18. CASE RTestDone
  <2>1. cur \in Clients /\ rpc = "testaccept" /\ trp = tr
    BY <1>3, <1>6, <1>18 DEF RTestDone
  <2>2. CASE mode = 3
    BY <1>4, <1>6, <1>8, <1>18, <2>1, <2>2, Leaving DEF RTestDone
  <2>3. CASE mode # 3
    <3>1. Msg("speed", 0) \in Told(cur)
      BY DEF Told
    <3>2. tcp = tc \o One("speed") /\ rpc' = "serve" /\ cur' = cur
      BY <1>7, <1>10, <1>18, <2>1, <2>3, <3>1 DEF RTestDone, RGoto
    <3>3. Script("serve", cur, pc, trp, tcp)
      BY <1>4, <2>1, <3>2, ScriptReplies
    <3> QED BY <1>9, <2>1, <3>2, <3>3
  <2> QED BY <2>2, <2>3
<1>19. CASE RGo
  <2>1. cur \in Clients /\ rpc = "serve" /\ RRead("go") /\ rpc' = "index" /\ cur' = cur /\ tcp = tc
    BY <1>3, <1>6, <1>19 DEF RGo, RGoto
  <2>2. Script("index", cur, pc, trp, tcp)
    BY <1>4, <1>5, <2>1, ScriptReplies
  <2> QED BY <1>9, <2>1, <2>2
<1>20. CASE RIndex
  <2>1. cur \in Clients /\ rpc = "index" /\ RRead("index")
    BY <1>3, <1>20 DEF RIndex
  <2>2. Msg("list", 0) \in Told(cur) /\ Msg("confirm", 0) \in Told(cur)
    BY DEF Told
  <2>3. \/ tcp = tc /\ Leaves(backlog)
        \/ tcp = tc \o One("list") /\ Leaves(backlog)
        \/ tcp = tc \o Two("list", "confirm") /\ rpc' = "dataaccept" /\ cur' = cur
    BY <1>6, <1>7, <1>10, <1>20, <2>1, <2>2, Leaving DEF RIndex, AcceptLoop
  <2>4. /\ tcp = tc => Script("refused", cur, pc, trp, tcp)
        /\ tcp = tc \o One("list") => Script("refused", cur, pc, trp, tcp)
        /\ tcp = tc \o Two("list", "confirm") => Script("dataaccept", cur, pc, trp, tcp)
    BY <1>4, <1>5, <2>1, ScriptReplies
  <2> QED BY <1>8, <1>9, <2>1, <2>3, <2>4 DEF Stages
<1>21. CASE RTestAccept
  <2>1. cur \in Clients /\ trp = tr /\ tcp = tc
    BY <1>3, <1>6, <1>21 DEF RTestAccept
  <2>2. (\E q : Leaves(q)) \/ (cur' = cur /\ rpc' = rpc)
    BY <1>21, Leaving DEF RTestAccept
  <2> QED BY <1>4, <1>8, <1>9, <2>1, <2>2
<1>22. CASE RDataAccept
  <2>1. cur \in Clients /\ trp = tr /\ tcp = tc
    BY <1>3, <1>6, <1>22 DEF RDataAccept
  <2>2. (\E q : Leaves(q)) \/ (cur' = cur /\ rpc' = rpc)
    BY <1>22, Leaving DEF RDataAccept
  <2> QED BY <1>4, <1>8, <1>9, <2>1, <2>2
<1>23. CASE RJoin
  <2>1. cur \in Clients /\ trp = tr /\ tcp = tc
    BY <1>3, <1>6, <1>23 DEF RJoin
  <2>2. (\E q : Leaves(q)) \/ (cur' = cur /\ rpc' = rpc)
    BY <1>23, Leaving DEF RJoin
  <2> QED BY <1>4, <1>8, <1>9, <2>1, <2>2
<1>24. CASE REof
  <2>1. cur \in Clients /\ trp = tr /\ tcp = tc
    BY <1>3, <1>6, <1>24 DEF REof
  <2>2. (\E q : Leaves(q)) \/ (cur' = cur /\ rpc' = rpc)
    BY <1>24, Leaving DEF REof
  <2> QED BY <1>4, <1>8, <1>9, <2>1, <2>2
<1>25. CASE RWriteFails
  <2>1. cur \in Clients /\ trp = tr /\ tcp = tc
    BY <1>3, <1>6, <1>25 DEF RWriteFails
  <2>2. (\E q : Leaves(q)) \/ (cur' = cur /\ rpc' = rpc)
    BY <1>25, Leaving DEF RWriteFails
  <2> QED BY <1>4, <1>8, <1>9, <2>1, <2>2
<1> QED BY <1>11, <1>12, <1>13, <1>14, <1>15, <1>16, <1>17, <1>18, <1>19, <1>20, <1>21, <1>22, <1>23, <1>24, <1>25 DEF Receiver
------------------------------------------------------------------------------
(* Whose data streams are accepted.                                          *)

\* How many data streams wait, after a connection is added or taken away.
LEMMA DataInFacts ==
    ASSUME NEW q \in Seq(Conns)
    PROVE  /\ IsFiniteSet(DataIn(q)) /\ Cardinality(DataIn(q)) \in Nat
           /\ Cardinality(DataIn(q)) = 0 <=> DataIn(q) = {}
           /\ q = <<>> => DataIn(q) = {}
<1>1. DataIn(q) \subseteq 1..Len(q) /\ Len(q) \in Nat
  BY DEF DataIn
<1>2. IsFiniteSet(1..Len(q))
  BY <1>1, FS_Interval
<1>3. IsFiniteSet(DataIn(q))
  BY <1>1, <1>2, FS_Subset
<1>4. q = <<>> => DataIn(q) = {}
  BY DEF DataIn
<1> QED BY <1>3, <1>4, FS_CardinalityType, FS_EmptySet

\* A connection is added at the end of the backlog.
LEMMA DataInAppend ==
    ASSUME NEW q \in Seq(Conns), NEW c \in Clients, NEW k \in {"control", "data", "test", "bench"}
    PROVE  LET p == Append(q, Conn(c, k)) IN
           /\ k # "data" => DataIn(p) = DataIn(q)
           /\ k = "data" => /\ DataIn(p) = DataIn(q) \cup {Len(q) + 1}
                            /\ Cardinality(DataIn(p)) = Cardinality(DataIn(q)) + 1
           /\ \A i \in DataIn(q) : p[i] = q[i]
           /\ p[Len(q) + 1] = Conn(c, k)
<1> DEFINE p == Append(q, Conn(c, k))
<1>1. Conn(c, k) \in Conns /\ Conn(c, k).kind = k
  BY DEF Conn, Conns
<1>2. /\ p \in Seq(Conns) /\ DOMAIN q = 1..Len(q) /\ DOMAIN p = 1..(Len(q) + 1) /\ Len(q) \in Nat
      /\ \A i \in 1..Len(q) : p[i] = q[i]
      /\ p[Len(q) + 1] = Conn(c, k)
  BY <1>1
<1> HIDE DEF p
<1>3. k # "data" => DataIn(p) = DataIn(q)
  BY <1>1, <1>2 DEF DataIn
<1>4. k = "data" => DataIn(p) = DataIn(q) \cup {Len(q) + 1}
  BY <1>1, <1>2 DEF DataIn
<1>5. Len(q) + 1 \notin DataIn(q)
  BY <1>2 DEF DataIn
<1>6. Cardinality(DataIn(q) \cup {Len(q) + 1}) = Cardinality(DataIn(q)) + 1
  BY <1>5, DataInFacts, FS_AddElement
<1>7. \A i \in DataIn(q) : p[i] = q[i]
  BY <1>2 DEF DataIn
<1> QED BY <1>2, <1>3, <1>4, <1>6, <1>7 DEF p

\* The first connection of the backlog is accepted.
LEMMA DataInTail ==
    ASSUME NEW q \in Seq(Conns), q # <<>>
    PROVE  /\ Head(q).kind = "data" => Cardinality(DataIn(Tail(q))) = Cardinality(DataIn(q)) - 1
           /\ Head(q).kind # "data" => Cardinality(DataIn(Tail(q))) = Cardinality(DataIn(q))
           /\ \A i \in DataIn(Tail(q)) : i + 1 \in DataIn(q) /\ Tail(q)[i] = q[i + 1]
           /\ Head(q).kind = "data" => 1 \in DataIn(q) /\ q[1] = Head(q)
<1> DEFINE p == Tail(q)
           D == DataIn(q) \ {1}
           f == [i \in D |-> i - 1]
<1>1. /\ p \in Seq(Conns) /\ Head(q) = q[1] /\ 1 \in DOMAIN q
      /\ \A i \in DOMAIN p : i + 1 \in DOMAIN q /\ p[i] = q[i + 1]
      /\ \A i \in DOMAIN q : i # 1 => i - 1 \in DOMAIN p /\ q[i] = p[i - 1]
  BY TailFacts
<1>2. DOMAIN q \subseteq Nat /\ DOMAIN p \subseteq Nat \ {0}
  BY <1>1
<1> HIDE DEF p
<1>3. \A i \in DataIn(p) : i + 1 \in D /\ p[i] = q[i + 1] /\ i \in Nat
  BY <1>1, <1>2 DEF DataIn
<1>4. \A i \in D : i - 1 \in DataIn(p) /\ i \in Nat
  BY <1>1, <1>2 DEF DataIn
<1>5. f \in Bijection(D, DataIn(p))
  <2>1. f \in [D -> DataIn(p)]
    BY <1>4
  <2>2. \A i, j \in D : f[i] = f[j] => i = j
    BY <1>4
  <2>3. \A k \in DataIn(p) : \E i \in D : f[i] = k
    <3> SUFFICES ASSUME NEW k \in DataIn(p) PROVE \E i \in D : f[i] = k
      OBVIOUS
    <3>1. k + 1 \in D /\ k \in Nat
      BY <1>3
    <3>2. f[k + 1] = k
      BY <3>1
    <3> QED BY <3>1, <3>2
  <2> HIDE DEF f, D
  <2>4. f \in Injection(D, DataIn(p))
    <3>1. IsInjective(f)
      BY <2>1, <2>2 DEF IsInjective
    <3> QED BY <2>1, <3>1, Zenon DEF Injection
  <2>5. f \in Surjection(D, DataIn(p))
    BY <2>1, <2>3, Zenon DEF Surjection
  <2> QED BY <2>4, <2>5, Zenon DEF Bijection
<1>6. IsFiniteSet(DataIn(q)) /\ Cardinality(DataIn(q)) \in Nat
  BY DataInFacts
<1>7. /\ IsFiniteSet(D)
      /\ Cardinality(D) = IF 1 \in DataIn(q) THEN Cardinality(DataIn(q)) - 1 ELSE Cardinality(DataIn(q))
  BY <1>6, FS_RemoveElement
<1>8. Cardinality(DataIn(p)) = Cardinality(D)
  <2>1. ExistsBijection(D, DataIn(p))
    BY <1>5, Zenon DEF ExistsBijection
  <2> HIDE DEF D
  <2> QED BY <1>7, <2>1, FS_Bijection
<1>9. 1 \in DataIn(q) <=> Head(q).kind = "data"
  BY <1>1 DEF DataIn
<1> QED BY <1>1, <1>3, <1>7, <1>8, <1>9 DEF p

\* What a step of the client does to its data streams: it connects one, or
\* leaves them alone while it goes on, starts with them or comes to an end.
Streams(c) ==
    /\ cpc[c] = "data" /\ made[c] < cfg[c].active /\ Listening
    /\ backlog' = Append(backlog, Conn(c, "data"))
    /\ made' = [made EXCEPT ![c] = @ + 1] /\ cpc' = cpc /\ toC' = toC
Behind == Ended \cup {"data"}
NoStream(c) ==
    /\ \/ backlog' = backlog
       \/ \E k \in {"control", "test", "bench"} : backlog' = Append(backlog, Conn(c, k))
    /\ \/ cpc'[c] \in Ended
       \/ cpc[c] \notin Behind /\ cpc'[c] \notin Behind
       \/ CConfirm(c)

\* Every action of a client is one of the two.
LEMMA StreamCases ==
    ASSUME Typed, Worded, NEW c \in Clients, Client(c) \/ Finish(c) \/ CDies(c)
    PROVE  Streams(c) \/ NoStream(c)
<1>0. cpc \in [Clients -> Places]
  BY DEF Typed
<1> USE DEF Behind, Ended, Goto, NoStream
<1>1. CASE CStream(c)
  <2>1. CASE cpc[c] = "data" /\ Listening
    BY <1>1, <2>1 DEF CStream, Streams, StreamKind, StreamsToMake
  <2>2. CASE cpc[c] = "burst" /\ Listening
    <3>1. StreamKind(c) \in {"test", "bench"}
      BY <2>2 DEF StreamKind
    <3> QED BY <1>1, <2>2, <3>1 DEF CStream
  <2>3. CASE ~Listening
    BY <1>0, <1>1, <2>3 DEF CStream
  <2> QED BY <1>1, <2>1, <2>2, <2>3 DEF CStream
<1>2. CASE CConnect(c)
  BY <1>0, <1>2 DEF CConnect
<1>3. CASE CNonce(c) \/ CAuth(c) \/ CChallenge(c) \/ CVerdict(c) \/ CPair(c) \/ CPaired(c)
  BY <1>0, <1>3 DEF CNonce, CAuth, CChallenge, CVerdict, CPair, CPaired
<1>4. CASE CTune(c) \/ CReady(c) \/ CSpeed(c) \/ CList(c) \/ CConfirm(c)
  BY <1>0, <1>4 DEF CTune, CReady, CSpeed, CList, CConfirm
<1>5. CASE CEof(c) \/ CBurstEnds(c) \/ CDone(c) \/ CDies(c)
  BY <1>0, <1>5 DEF CEof, CBurstEnds, CDone, CDies
<1> QED BY <1>1, <1>2, <1>3, <1>4, <1>5 DEF Client, Finish

\* A client's step adds a data stream only while it is served.
LEMMA OwnedClient ==
    ASSUME Typed, Worded, Counted, Owned, NEW c \in Clients, Client(c) \/ Finish(c) \/ CDies(c)
    PROVE  Owned'
<1>0. /\ cpc \in [Clients -> Places] /\ DOMAIN toC = Clients /\ backlog \in Seq(Conns)
      /\ made \in [Clients -> Nat] /\ \A d \in Clients : cfg[d].active \in 0..NumStreams
      /\ NumStreams \in Nat \ {0} /\ got \in Nat
      /\ rpc = "dataaccept" => cur \in Clients /\ want \in Nat
  BY CountsAssumption DEF Typed
<1>1. UNCHANGED <<rVars, cfg>> /\ ClientPlace(c) /\ ClientReads(c)
  BY ClientShape DEF ClientMoves
<1>2. \A d \in Clients : d # c => UNCHANGED <<cpc[d], made[d], toC[d]>>
  BY <1>0, <1>1 DEF ClientPlace, ClientReads
<1> DEFINE n == got + Cardinality(DataIn(backlog))
           np == got + Cardinality(DataIn(backlog'))
           Late(d) == ~Gone(d) /\ Confirmed(d)
           Fine(d) == Served(d) \/ ~Listening \/ Paid(d)
<1>3. /\ \A k \in DataIn(backlog) : Served(backlog[k].from)
      /\ \A d \in Clients : Late(d) => Fine(d)
      /\ rpc = "dataaccept" =>
            /\ mine = got /\ want = cfg[cur].active /\ n <= want
            /\ cpc[cur] = "data" => n <= made[cur]
            /\ cpc[cur] \notin Ended \cup {"data"} => n = 0
  BY DEF Owned
<1>4. \A d \in Clients : d # c => (Late(d)' <=> Late(d)) /\ (Fine(d)' <=> Fine(d))
  BY <1>1, <1>2 DEF Gone, Confirmed, Served, Listening, Paid
<1>5. (\E k \in DOMAIN toC'[c] : toC'[c][k].type = "confirm")
         => \E k \in DOMAIN toC[c] : toC[c][k].type = "confirm"
  <2>1. CASE toC'[c] = toC[c]
    BY <2>1
  <2>2. CASE toC[c] # <<>> /\ toC'[c] = Tail(toC[c])
    <3>1. toC[c] \in Seq(Told(c))
      BY DEF Worded
    <3> HIDE DEF n, np, Late, Fine
    <3> QED BY <2>2, <3>1, TailFacts
  <2> QED BY <1>0, <1>1, <2>1, <2>2 DEF ClientReads
<1>6. n \in Nat /\ Cardinality(DataIn(backlog)) \in Nat
  BY <1>0, DataInFacts
<1>7. \A d : Served(d)' <=> Served(d)
  BY <1>1 DEF Served
<1>8. ASSUME \A k \in DataIn(backlog') : Served(backlog'[k].from),
             Late(c)' => Fine(c)',
             rpc = "dataaccept" =>
                /\ np <= want
                /\ cpc'[cur] = "data" => np <= made'[cur]
                /\ cpc'[cur] \notin Ended \cup {"data"} => np = 0
      PROVE  Owned'
  <2>1. \A d \in Clients : Late(d)' => Fine(d)'
    BY <1>3, <1>4, <1>8
  <2>2. DataIn(backlog)' = DataIn(backlog')
    BY DEF DataIn
  <2>3. \A k \in DataIn(backlog)' : Served(backlog[k].from)'
    BY <1>7, <1>8, <2>2
  <2>4. rpc = "dataaccept" => mine' = got' /\ want' = cfg'[cur'].active
    BY <1>1, <1>3
  <2>5. (rpc = "dataaccept" =>
           LET m == got + Cardinality(DataIn(backlog)) IN
           /\ mine = got /\ want = cfg[cur].active /\ m <= want
           /\ cpc[cur] = "data" => m <= made[cur]
           /\ cpc[cur] \notin Ended \cup {"data"} => m = 0)'
    BY <1>1, <1>8, <2>2, <2>4
  <2> QED BY <2>1, <2>3, <2>4, <2>5 DEF Owned
<1>9. CASE Streams(c)
  <2>1. Late(c)
    BY <1>9 DEF Streams, Gone, Confirmed
  <2>2. Served(c)
    <3>1. ~Paid(c) /\ Listening
      BY <1>0, <1>9 DEF Streams, Paid
    <3> QED BY <1>3, <2>1, <3>1
  <2>3. /\ DataIn(backlog') = DataIn(backlog) \cup {Len(backlog) + 1}
        /\ Cardinality(DataIn(backlog')) = Cardinality(DataIn(backlog)) + 1
        /\ \A i \in DataIn(backlog) : backlog'[i] = backlog[i]
        /\ backlog'[Len(backlog) + 1] = Conn(c, "data")
    BY <1>0, <1>9, DataInAppend DEF Streams
  <2>4. \A k \in DataIn(backlog') : Served(backlog'[k].from)
    BY <1>3, <2>2, <2>3 DEF Conn
  <2>5. Fine(c)'
    BY <1>7, <2>2
  <2>6. made'[c] = made[c] + 1 /\ made[c] < cfg[c].active /\ made[c] \in Nat /\ cpc'[c] = "data"
    BY <1>0, <1>9 DEF Streams
  <2>7. rpc = "dataaccept" /\ cur = c /\ np = n + 1 /\ n <= made[c]
    BY <1>0, <1>3, <1>6, <1>9, <2>2, <2>3 DEF Served, Streams
  <2> HIDE DEF n, np, Late, Fine
  <2>8. np <= want /\ np <= made'[c]
    BY <1>0, <1>3, <1>6, <2>6, <2>7
  <2> QED BY <1>8, <2>4, <2>5, <2>6, <2>7, <2>8
<1>10. CASE NoStream(c)
  <2>1. /\ DataIn(backlog') = DataIn(backlog)
        /\ \A k \in DataIn(backlog) : backlog'[k] = backlog[k]
    <3>1. CASE backlog' = backlog
      BY <3>1
    <3>2. ASSUME NEW k \in {"control", "test", "bench"}, backlog' = Append(backlog, Conn(c, k))
          PROVE  /\ DataIn(backlog') = DataIn(backlog)
                 /\ \A i \in DataIn(backlog) : backlog'[i] = backlog[i]
      <4>1. k # "data" /\ k \in {"control", "data", "test", "bench"}
        OBVIOUS
      <4> QED BY <1>0, <3>2, <4>1, DataInAppend, ZenonT(40)
    <3> QED BY <1>10, <3>1, <3>2 DEF NoStream
  <2>2. \A k \in DataIn(backlog') : Served(backlog'[k].from)
    BY <1>3, <2>1
  <2>3. np = n
    BY <2>1
  <2>4. CASE cpc'[c] \in Ended
    <3>1. ~Late(c)'
      BY <2>4 DEF Gone, Ended
    <3>2. cpc'[c] # "data"
      BY <2>4 DEF Ended
    <3> HIDE DEF n, np, Late, Fine
    <3> QED BY <1>2, <1>3, <1>8, <2>2, <2>3, <2>4, <3>1, <3>2, <1>0
  <2>5. CASE cpc[c] \notin Behind /\ cpc'[c] \notin Behind
    <3>1. Late(c)' => Late(c)
      BY <1>5, <2>5 DEF Gone, Confirmed, Behind, Ended
    <3>2. Late(c) => Served(c) \/ ~Listening \/ cfg[c].active = 0
      BY <1>3, <2>5 DEF Behind, Paid
    <3>3. Fine(c)' <=> Served(c) \/ ~Listening \/ cfg[c].active = 0
      BY <1>1, <1>7, <2>5 DEF Behind, Listening, Paid
    <3>4. Behind = Ended \cup {"data"}
      BY DEF Behind
    <3> HIDE DEF n, np, Late, Fine
    <3> QED BY <1>2, <1>3, <1>8, <2>2, <2>3, <2>5, <3>1, <3>2, <3>3, <3>4, <1>0
  <2>6. CASE CConfirm(c)
    <3>1. cpc[c] = "confirm" /\ cpc'[c] = "data" /\ made'[c] = 0
      BY <1>0, <2>6 DEF CConfirm, Goto
    <3>2. \E k \in DOMAIN toC[c] : toC[c][k].type = "confirm"
      <4>1. toC[c] \in Seq(Told(c)) /\ toC[c] # <<>> /\ Head(toC[c]).type = "confirm"
        BY <2>6 DEF CConfirm, Read, Worded
      <4> HIDE DEF n, np, Late, Fine
      <4> QED BY <4>1, TailFacts
    <3>3. Late(c)
      BY <3>1, <3>2 DEF Gone, Confirmed
    <3>4. Served(c) \/ ~Listening \/ cfg[c].active = 0
      BY <1>3, <3>1, <3>3 DEF Paid
    <3>5. Fine(c)'
      BY <1>1, <1>7, <3>4 DEF Listening, Paid
    <3>6. "confirm" \notin Ended /\ "data" \notin Ended
      BY DEF Ended
    <3> HIDE DEF n, np, Late, Fine
    <3>7. rpc = "dataaccept" /\ cur = c => np = 0
      BY <1>3, <2>3, <3>1, <3>6
    <3> QED BY <1>0, <1>2, <1>3, <1>8, <2>2, <2>3, <3>1, <3>5, <3>7
  <2> QED BY <1>10, <2>4, <2>5, <2>6 DEF NoStream
<1> QED BY <1>9, <1>10, StreamCases

\* What the receiver writes confirms a transfer only when it goes to accept its
\* data streams, and only those are counted.
LEMMA OwnedReceiver ==
    ASSUME Typed, Worded, Counted, BenchOnly, Owned, Receiver
    PROVE  Owned'
<1>0. /\ DOMAIN toC = Clients /\ backlog \in Seq(Conns)
      /\ \A d \in Clients : cfg[d].active \in 0..NumStreams
      /\ got \in Nat /\ made \in [Clients -> Nat]
      /\ rpc = "dataaccept" => cur \in Clients
      /\ cur \in Clients => toC[cur] \in Seq(Told(cur))
      /\ cur \in Clients \cup {NoClient}
      /\ (cur = NoClient) = (rpc \in {"accept", "ok", "err"})
  BY CountsAssumption DEF Typed, Worded
<1>1. ReceiverMoves
  BY ReceiverShape
<1>2. UNCHANGED <<cpc, made, cfg>>
  BY <1>1 DEF ReceiverMoves
<1> DEFINE Late(d) == ~Gone(d) /\ Confirmed(d)
           n == got + Cardinality(DataIn(backlog))
<1>3. /\ \A k \in DataIn(backlog) : Served(backlog[k].from)
      /\ \A d \in Clients : Late(d) => Served(d) \/ ~Listening \/ Paid(d)
      /\ rpc = "dataaccept" =>
            /\ mine = got /\ want = cfg[cur].active /\ n <= want
            /\ cpc[cur] = "data" => n <= made[cur]
            /\ cpc[cur] \notin Ended \cup {"data"} => n = 0
  BY DEF Owned
<1>4. Listening
  BY <1>0 DEF Receiver, RAccept, RHello, RNonce, RAuth, RResponse, RCode, RTest, RTestAccept,
              RTestDone, RGo, RIndex, RDataAccept, RJoin, REof, RWriteFails, Listening
<1>5. /\ Cardinality(DataIn(backlog)) \in Nat /\ n \in Nat
      /\ Cardinality(DataIn(backlog)) = 0 <=> DataIn(backlog) = {}
  BY <1>0, DataInFacts
<1>6. \A d \in Clients : Paid(d)' <=> Paid(d)
  BY <1>2 DEF Paid
\* Every way to go on without data streams, nobody else confirmed.
<1>7. ASSUME rpc' # "dataaccept", DataIn(backlog') = {},
             \A d \in Clients : Late(d)' => Paid(d) \/ ~Listening'
      PROVE  Owned'
  <2>1. DataIn(backlog)' = {}
    BY <1>7 DEF DataIn
  <2>2. \A d \in Clients : ~Gone(d)' /\ Confirmed(d)' => ~Listening' \/ Paid(d)'
    BY <1>6, <1>7
  <2> QED BY <1>3, <1>7, <2>1, <2>2 DEF Owned
<1>8. ASSUME RReturn("ok") \/ RReturn("err") PROVE Owned'
  <2>1. backlog' = <<>> /\ rpc' \in {"ok", "err"}
    BY <1>8 DEF RReturn
  <2>2. DataIn(backlog') = {}
    BY <2>1 DEF DataIn
  <2>3. ~Listening'
    BY <2>1 DEF Listening
  <2> QED BY <1>7, <2>1, <2>2, <2>3
<1>9. ASSUME rpc # "dataaccept"
      PROVE  /\ DataIn(backlog) = {} /\ DataIn(backlog') = {}
             /\ \A d \in Clients : Late(d) => Paid(d)
  <2>1. DataIn(backlog) = {}
    BY <1>3, <1>9 DEF Served
  <2>2. DataIn(backlog') = {}
    <3>1. backlog # <<>> => DataIn(Tail(backlog)) = {}
      BY <1>0, <2>1, DataInTail
    <3>2. DataIn(<<>>) = {}
      BY DEF DataIn
    <3> QED BY <1>1, <2>1, <3>1, <3>2 DEF ReceiverMoves, Turns, Leaves
  <2> QED BY <1>3, <1>4, <1>9, <2>1, <2>2 DEF Served
<1>10. ASSUME rpc # "dataaccept", rpc' # "dataaccept",
              \/ toC' = toC
              \/ /\ cur \in Clients
                 /\ \E m, m2 \in Told(cur) : /\ m.type # "confirm" /\ m2.type # "confirm"
                                             /\ Reply(<<m>>) \/ Reply(<<m, m2>>)
       PROVE  Owned'
  <2>1. \A d \in Clients : Confirmed(d)' => Confirmed(d)
    <3>1. CASE toC' = toC
      BY <1>2, <3>1 DEF Confirmed
    <3>2. ASSUME cur \in Clients, NEW m \in Told(cur), NEW m2 \in Told(cur),
                 m.type # "confirm", m2.type # "confirm", Reply(<<m>>) \/ Reply(<<m, m2>>)
          PROVE  \A d \in Clients : Confirmed(d)' => Confirmed(d)
      <4> DEFINE s == toC[cur]
      <4>1. PICK t \in {<<m>>, <<m, m2>>} : toC' = [toC EXCEPT ![cur] = @ \o t]
        BY <3>2 DEF Reply
      <4>2. t \in Seq(Told(cur)) /\ \A i \in DOMAIN t : t[i].type # "confirm"
        <5>1. /\ DOMAIN <<m>> = {1} /\ <<m>>[1] = m
              /\ DOMAIN <<m, m2>> = {1, 2} /\ <<m, m2>>[1] = m /\ <<m, m2>>[2] = m2
          OBVIOUS
        <5>2. <<m>> \in Seq(Told(cur)) /\ <<m, m2>> \in Seq(Told(cur))
          BY <3>2
        <5>3. CASE t = <<m>>
          BY <3>2, <5>1, <5>2, <5>3
        <5>4. CASE t = <<m, m2>>
          BY <3>2, <5>1, <5>2, <5>4
        <5> QED BY <5>3, <5>4
      <4>3. /\ Len(s \o t) = Len(s) + Len(t) /\ s \o t \in Seq(Told(cur))
            /\ \A i \in 1..Len(s) : (s \o t)[i] = s[i]
            /\ \A i \in 1..Len(t) : (s \o t)[Len(s) + i] = t[i]
        BY <1>0, <3>2, <4>2, WriteFacts
      <4>4. s \in Seq(Told(cur))
        BY <1>0, <3>2
      <4> HIDE DEF s
      <4>5. \A i \in DOMAIN (s \o t) : i \in DOMAIN s \/ (i - Len(s) \in DOMAIN t /\ i = Len(s) + (i - Len(s)))
        BY <4>2, <4>3, <4>4
      <4>6. ASSUME NEW i \in DOMAIN (s \o t), (s \o t)[i].type = "confirm"
            PROVE  i \in DOMAIN s /\ s[i].type = "confirm"
        <5>1. CASE i \in DOMAIN s
          BY <4>3, <4>4, <4>6, <5>1
        <5>2. CASE i - Len(s) \in DOMAIN t /\ i = Len(s) + (i - Len(s))
          BY <4>2, <4>3, <4>4, <4>6, <5>2
        <5> QED BY <4>5, <5>1, <5>2
      <4>7. toC'[cur] = s \o t /\ \A d \in Clients : d # cur => toC'[d] = toC[d]
        BY <1>0, <3>2, <4>1 DEF s
      <4> QED BY <1>2, <4>6, <4>7 DEF s, Confirmed
    <3> QED BY <1>10, <3>1, <3>2
  <2>2. \A d \in Clients : Late(d)' => Late(d)
    BY <1>2, <2>1 DEF Gone
  <2> QED BY <1>7, <1>9, <1>10, <2>2
<1>11. ASSUME \E q : Leaves(q), toC' = toC, rpc # "dataaccept" PROVE Owned'
  BY <1>10, <1>11 DEF Leaves
<1>12. CASE RAccept \/ RHello \/ RTestAccept \/ RGo \/ REof \/ RWriteFails
  <2>1. rpc # "dataaccept" /\ toC' = toC
    BY <1>12 DEF RAccept, RHello, RTestAccept, RGo, REof, RWriteFails
  <2>2. (\E q : Leaves(q)) \/ (rpc' # "dataaccept")
    BY <1>12, <2>1, Leaving DEF RAccept, RHello, RTestAccept, RGo, RGoto, REof, RWriteFails
  <2> QED BY <1>10, <1>11, <2>1, <2>2
<1>13. CASE RNonce \/ RTest
  <2>1. rpc # "dataaccept" /\ rpc' # "dataaccept" /\ cur \in Clients
    BY <1>0, <1>13 DEF RNonce, RTest, RGoto, AcceptLoop
  <2>2. Msg("nonce", 0) \in Told(cur) /\ Msg("ready", 0) \in Told(cur)
    BY DEF Told
  <2>3. Msg("nonce", 0).type # "confirm" /\ Msg("ready", 0).type # "confirm"
    BY DEF Msg
  <2> QED BY <1>10, <1>13, <2>1, <2>2, <2>3 DEF RNonce, RTest
<1>14. CASE RAuth
  <2>1. rpc # "dataaccept" /\ rpc' # "dataaccept" /\ cur \in Clients
    BY <1>0, <1>14 DEF RAuth, RGoto, Pairing
  <2>2. /\ rcv.key # NoKey => Msg("auth", TRUE) \in Told(cur)
        /\ rcv.key = NoKey => Msg("auth", FALSE) \in Told(cur)
        /\ Msg("challenge", 0) \in Told(cur) /\ Msg("pair", PairingRequired) \in Told(cur)
    BY DEF Told
  <2>3. /\ Msg("challenge", 0).type # "confirm"
        /\ \A v : Msg("auth", v).type # "confirm" /\ Msg("pair", v).type # "confirm"
    BY DEF Msg
  <2>4. \/ Reply(<<Msg("auth", TRUE), Msg("challenge", 0)>>) /\ rcv.key # NoKey
        \/ Reply(<<Msg("auth", FALSE), Msg("pair", PairingRequired)>>) /\ rcv.key = NoKey
    BY <1>14 DEF RAuth
  <2> QED BY <1>10, <2>1, <2>2, <2>3, <2>4
<1>15. CASE RResponse
  <2>1. rpc = "response" /\ cur \in Clients
    BY <1>0, <1>15 DEF RResponse
  <2>2. rpc' # "dataaccept"
    BY <1>15, Leaving DEF RResponse, RGoto, Pairing, Leaves
  <2>3. RVal = cfg[cur].key
    BY <1>15, <2>1, SaidRead DEF RResponse, RRead, RVal, Worded
  <2>4. /\ RVal = rcv.key => Msg("verdict", TRUE) \in Told(cur)
        /\ RVal # rcv.key => Msg("verdict", FALSE) \in Told(cur)
        /\ Msg("pair", PairingRequired) \in Told(cur)
    BY <2>3 DEF Told
  <2>5. \A v : Msg("verdict", v).type # "confirm" /\ Msg("pair", v).type # "confirm"
    BY DEF Msg
  <2>6. \/ Reply(<<Msg("verdict", TRUE), Msg("pair", PairingRequired)>>) /\ RVal = rcv.key
        \/ Reply(<<Msg("verdict", FALSE)>>) /\ RVal # rcv.key
    BY <1>15 DEF RResponse
  <2> QED BY <1>10, <2>1, <2>2, <2>4, <2>5, <2>6
<1>16. CASE RCode
  <2>1. rpc = "code" /\ cur \in Clients
    BY <1>0, <1>16 DEF RCode
  <2>2. rpc' # "dataaccept"
    BY <1>16, Leaving DEF RCode, RGoto, Leaves
  <2>3. RVal = cfg[cur].code
    BY <1>16, <2>1, SaidRead DEF RCode, RRead, RVal, Worded
  <2>4. /\ RVal = "right" => Msg("paired", TRUE) \in Told(cur)
        /\ RVal # "right" => Msg("paired", FALSE) \in Told(cur)
    BY <2>3 DEF Told
  <2>5. \A v : Msg("paired", v).type # "confirm"
    BY DEF Msg
  <2>6. \/ Reply(<<Msg("paired", TRUE)>>) /\ RVal = "right"
        \/ Reply(<<Msg("paired", FALSE)>>) /\ RVal # "right"
    BY <1>16 DEF RCode
  <2> QED BY <1>10, <2>1, <2>2, <2>4, <2>5, <2>6
<1>17. CASE RTestDone
  <2>1. rpc = "testaccept" /\ cur \in Clients
    BY <1>0, <1>17 DEF RTestDone
  <2>2. Msg("speed", 0) \in Told(cur) /\ Msg("speed", 0).type # "confirm"
    BY DEF Told, Msg
  <2>3. CASE mode = 3
    BY <1>11, <1>17, <2>1, <2>3, Leaving DEF RTestDone
  <2>4. CASE mode # 3
    <3>1. rpc' # "dataaccept" /\ Reply(<<Msg("speed", 0)>>)
      BY <1>17, <2>4 DEF RTestDone, RGoto
    <3> QED BY <1>10, <2>1, <2>2, <3>1
  <2> QED BY <2>3, <2>4
<1>18. CASE RIndex
  <2>1. rpc = "index" /\ cur \in Clients /\ rpc # "dataaccept"
    BY <1>0, <1>18 DEF RIndex
  <2>2. Msg("list", 0) \in Told(cur) /\ Msg("list", 0).type # "confirm"
    BY DEF Told, Msg
  <2>3. CASE (\E q : Leaves(q)) /\ (toC' = toC \/ Reply(<<Msg("list", 0)>>))
    BY <1>10, <2>1, <2>2, <2>3 DEF Leaves
  <2>4. CASE AcceptLoop("dataaccept", ActiveStreams) /\ Reply(<<Msg("list", 0), Msg("confirm", 0)>>)
    <3>1. /\ rpc' = "dataaccept" /\ got' = 0 /\ mine' = 0 /\ want' = cfg[cur].active
          /\ cur' = cur /\ backlog' = backlog
      BY <2>4 DEF AcceptLoop, ActiveStreams
    <3>2. DataIn(backlog)' = {} /\ Cardinality({}) = 0
      BY <1>9, <2>1, <3>1, FS_EmptySet DEF DataIn
    <3>3. Cardinality(DataIn(backlog)') = 0
      BY <3>2
    <3>4. ASSUME NEW d \in Clients, d # cur, ~Gone(d)', Confirmed(d)' PROVE Paid(d)'
      <4>1. toC'[d] = toC[d]
        BY <1>0, <2>4, <3>4 DEF Reply
      <4>2. Late(d)
        BY <1>2, <3>4, <4>1 DEF Gone, Confirmed
      <4> QED BY <1>6, <1>9, <2>1, <4>2
    <3>5. Served(cur)'
      BY <3>1 DEF Served
    <3>6. \A d \in Clients : ~Gone(d)' /\ Confirmed(d)' => Served(d)' \/ Paid(d)'
      BY <3>1, <3>4, <3>5
    <3>7. made'[cur'] \in Nat /\ cfg' = cfg /\ cfg[cur].active \in Nat
      BY <1>0, <1>2, <2>1, <3>1
    <3>8. (LET m == got + Cardinality(DataIn(backlog)) IN
           /\ mine = got /\ want = cfg[cur].active /\ m <= want
           /\ cpc[cur] = "data" => m <= made[cur]
           /\ cpc[cur] \notin Ended \cup {"data"} => m = 0)'
      BY <1>0, <3>1, <3>3, <3>7
    <3> HIDE DEF Late, n
    <3> QED BY <1>3, <3>1, <3>2, <3>6, <3>8 DEF Owned
  <2> QED BY <1>18, <2>3, <2>4, Leaving DEF RIndex
<1>19. ASSUME rpc = "dataaccept", Fail PROVE Owned'
  BY <1>8, <1>19 DEF Fail, BenchOnly
<1>20. CASE RDataAccept
  <2>1. rpc = "dataaccept" /\ cur \in Clients /\ backlog # <<>> /\ got < want /\ toC' = toC
    BY <1>0, <1>20 DEF RDataAccept
  <2>2. CASE Fail
    BY <1>19, <2>1, <2>2
  <2>3. CASE /\ "data" \in Kinds /\ TakeStream
             /\ UNCHANGED <<rcv, rpc, cur, mode, want>>
    <3>1. Head(backlog).kind = "data"
      BY <2>3 DEF Kinds
    <3>2. /\ Cardinality(DataIn(Tail(backlog))) = Cardinality(DataIn(backlog)) - 1
          /\ \A i \in DataIn(Tail(backlog)) : i + 1 \in DataIn(backlog) /\ Tail(backlog)[i] = backlog[i + 1]
          /\ 1 \in DataIn(backlog) /\ backlog[1] = Head(backlog)
      BY <1>0, <2>1, <3>1, DataInTail
    <3>3. got' = got + 1 /\ mine' = got' /\ backlog' = Tail(backlog)
      BY <1>3, <2>1, <2>3, <3>2 DEF Served, TakeStream
    <3>4. \A d : Served(d)' <=> Served(d)
      BY <2>3 DEF Served
    <3>5. DataIn(backlog)' = DataIn(Tail(backlog))
      BY <3>3 DEF DataIn
    <3>6. \A k \in DataIn(backlog)' : Served(backlog[k].from)'
      BY <1>3, <3>2, <3>3, <3>4, <3>5
    <3>7. got' + Cardinality(DataIn(backlog)') = n
      BY <1>0, <1>5, <3>2, <3>3, <3>5
    <3>8. (LET m == got + Cardinality(DataIn(backlog)) IN
           /\ mine = got /\ want = cfg[cur].active /\ m <= want
           /\ cpc[cur] = "data" => m <= made[cur]
           /\ cpc[cur] \notin Ended \cup {"data"} => m = 0)'
      BY <1>2, <1>3, <2>1, <2>3, <3>3, <3>7
    <3>9. \A d \in Clients : (~Gone(d))' /\ Confirmed(d)' => Served(d)' \/ ~Listening' \/ Paid(d)'
      BY <1>2, <1>3, <1>4, <1>6, <2>1, <3>4 DEF Gone, Confirmed
    <3> HIDE DEF Late, n
    <3> QED BY <3>6, <3>8, <3>9 DEF Owned
  <2> QED BY <1>20, <2>2, <2>3 DEF RDataAccept
<1>21. CASE RJoin
  <2>1. rpc = "dataaccept" /\ cur \in Clients /\ got = want /\ toC' = toC
    BY <1>0, <1>21 DEF RJoin
  <2>2. CASE Fail \/ RReturn("ok") \/ RReturn("err")
    BY <1>8, <1>19, <2>1, <2>2
  <2>3. CASE NextClient(backlog)
    <3>1. rpc' = "accept" /\ backlog' = backlog
      BY <2>3 DEF NextClient
    <3>2. n = cfg[cur].active /\ DataIn(backlog) = {}
      BY <1>0, <1>3, <1>5, <2>1
    <3>3. DataIn(backlog') = {}
      BY <3>1, <3>2
    <3>4. ASSUME Late(cur) PROVE Paid(cur)
      <4>1. CASE cfg[cur].active = 0
        BY <4>1 DEF Paid
      <4>2. CASE cfg[cur].active # 0
        <5>1. cpc[cur] = "data"
          BY <1>0, <1>3, <2>1, <3>2, <3>4, <4>2 DEF Gone, Ended
        <5>2. cfg[cur].active <= made[cur] /\ made[cur] <= cfg[cur].active /\ made[cur] \in Nat
          BY <1>0, <1>3, <2>1, <3>2, <5>1 DEF Counted, StreamsToMake
        <5> QED BY <1>0, <2>1, <5>1, <5>2 DEF Paid
      <4> QED BY <4>1, <4>2
    <3>5. \A d \in Clients : Late(d)' => Late(d)
      BY <1>2, <2>1 DEF Gone, Confirmed
    <3>6. \A d \in Clients : Late(d) => Paid(d)
      BY <1>3, <1>4, <2>1, <3>4 DEF Served
    <3> HIDE DEF Late, n
    <3> QED BY <1>7, <3>1, <3>3, <3>5, <3>6
  <2> QED BY <1>21, <2>2, <2>3 DEF RJoin, EndOrNext
<1> QED BY <1>12, <1>13, <1>14, <1>15, <1>16, <1>17, <1>18, <1>20, <1>21 DEF Receiver
------------------------------------------------------------------------------
(* The theorems.                                                             *)

\* The invariant holds when the programs start.
LEMMA SessionInvInit == Init => SessionInv
<1> SUFFICES ASSUME Init PROVE SessionInv
  OBVIOUS
<1> USE DEF Init
<1>1. Typed
  <2>1. <<>> \in Seq(Conns)
    OBVIOUS
  <2>2. Len(TestConfigs) \in Nat /\ MaxDeaths \in Nat
    BY CountsAssumption
  <2> QED BY <2>1, <2>2 DEF Typed, Stages, Places
<1>2. Worded
  <2>1. \A S : <<>> \in Seq(S)
    OBVIOUS
  <2> QED BY <2>1 DEF Worded
<1>3. Counted
  BY DEF Counted
<1>4. BenchOnly
  BY DEF BenchOnly
<1>5. Agreed
  BY ClientsAssumption DEF Agreed, ClientReady, ReceiverReady
<1>6. Talking
  <2>1. \A c \in Clients : cpc[c] = "start" /\ toR[c] = <<>> /\ toC[c] = <<>> /\ cur # c
    BY ClientsAssumption
  <2>2. \A c \in Clients : ~Waits(c)
    <3>1. DOMAIN <<>> = {}
      OBVIOUS
    <3> QED BY <3>1 DEF Waits
  <2> QED BY <2>1, <2>2 DEF Talking
<1>7. Single
  BY DEF Single
<1>8. Owned
  <2>1. DataIn(backlog) = {}
    BY DEF DataIn
  <2>2. \A c \in Clients : ~Confirmed(c)
    <3>1. DOMAIN <<>> = {}
      OBVIOUS
    <3> QED BY <3>1 DEF Confirmed
  <2> QED BY <2>1, <2>2 DEF Owned
<1> QED BY <1>1, <1>2, <1>3, <1>4, <1>5, <1>6, <1>7, <1>8 DEF SessionInv

\* No step breaks the invariant.
LEMMA SessionInvStep == SessionInv /\ [Next]_vars => SessionInv'
<1> SUFFICES ASSUME SessionInv, [Next]_vars PROVE SessionInv'
  OBVIOUS
<1>0. Typed /\ Worded /\ Counted /\ BenchOnly /\ Agreed /\ Talking /\ Single /\ Owned
  BY DEF SessionInv
<1>1. ReceiverMoves \/ (\E c \in Clients : ClientMoves(c)) \/ UNCHANGED vars
  BY <1>0, StepCases
<1>2. Typed' /\ Worded'
  BY <1>0, <1>1, TypedStep, WordedStep
<1>3. Counted' /\ BenchOnly' /\ Single'
  BY <1>0, CountedStep, BenchOnlyStep, SingleStep
<1>4. Agreed' /\ Talking' /\ Owned'
  <2>1. CASE UNCHANGED vars
    <3>1. Agreed'
      BY <1>0, <2>1 DEF Agreed, Greeted, ClientReady, ReceiverReady, PairingRequired
    <3>2. Talking'
      <4>1. \A c, r : Scripted(c, r)' <=> Scripted(c, r)
        BY <2>1, ScriptedNext DEF Scripted
      <4>2. \A c : Waits(c)' <=> Waits(c)
        BY <2>1 DEF Waits
      <4> SUFFICES ASSUME NEW c \in Clients PROVE TalksWith(c)'
        BY DEF Talking, TalksWith
      <4>3. TalksWith(c)
        BY <1>0 DEF Talking, TalksWith
      <4>4. Scripted(c, rpc)' <=> Scripted(c, rpc)
        BY <2>1, ScriptedNext2 DEF Scripted
      <4> QED BY <2>1, <4>1, <4>2, <4>3, <4>4 DEF TalksWith
    <3>3. Owned'
      BY <1>0, <2>1 DEF Owned, DataIn, Served, Confirmed, Gone, Listening, Paid
    <3> QED BY <3>1, <3>2, <3>3
  <2>2. CASE Receiver
    BY <1>0, <2>2, AgreedReceiver, TalkingReceiver, OwnedReceiver
  <2>3. ASSUME NEW c \in Clients, Client(c) \/ Finish(c) \/ CDies(c)
        PROVE  Agreed' /\ Talking' /\ Owned'
    BY <1>0, <2>3, AgreedClient, TalkingClient, OwnedClient
  <2> QED BY <2>1, <2>2, <2>3 DEF Next
<1> QED BY <1>2, <1>3, <1>4 DEF SessionInv

\* The invariant holds in every state of every behaviour.
THEOREM SessionInvAlways == Spec => []SessionInv
<1>1. Init => SessionInv
  BY SessionInvInit
<1>2. SessionInv /\ [Next]_vars => SessionInv'
  BY SessionInvStep
<1> QED BY <1>1, <1>2, PTL DEF Spec

\* What comes next in either direction, and how much there can be.
LEMMA ScriptHeads ==
    ASSUME NEW r, NEW c, NEW pc, NEW tr, NEW tc, Script(r, c, pc, tr, tc)
    PROVE  /\ pc \in Replies /\ tc # None => Head(tc) = pc
           /\ r \in {"hello", "nonce", "response", "code", "index"} /\ tr # None => Head(tr) = r
           /\ r = "serve" /\ tr # None => Head(tr) \in {"test", "go"}
<1> USE Words DEF Script, Ended, Replies
<1>1. pc \in Replies /\ tc # None => Head(tc) = pc
  OBVIOUS
<1>2. r \in {"hello", "nonce", "response", "code", "index"} /\ tr # None => Head(tr) = r
  OBVIOUS
<1>3. r = "serve" /\ tr # None => Head(tr) \in {"test", "go"}
  OBVIOUS
<1> QED BY <1>1, <1>2, <1>3

\* At most two messages are in flight from a client, three to it.
LEMMA ScriptLengths ==
    ASSUME NEW r, NEW c, NEW pc, NEW tr, NEW tc, Script(r, c, pc, tr, tc)
    PROVE  Len(tr) <= 2 /\ Len(tc) <= 3
<1>1. /\ Len(None) = 0
      /\ \A a, b, d : Len(One(a)) = 1 /\ Len(Two(a, b)) = 2 /\ Len(Three(a, b, d)) = 3
  BY DEF None, One, Two, Three
<1>2. Len(tr) \in {0, 1, 2}
  BY <1>1 DEF Script
<1>3. Len(tc) \in {0, 1, 2, 3}
  BY <1>1 DEF Script
<1>4. \A n : (n \in {0, 1, 2} => n <= 2) /\ (n \in {0, 1, 2, 3} => n <= 3)
  OBVIOUS
<1> QED BY <1>2, <1>3, <1>4, Zenon

\* Every client that has connected, and the one that is served, is in the script.
LEMMA InScript ==
    ASSUME Talking, NEW c \in Clients
    PROVE  /\ (toR[c] = <<>> /\ toC[c] = <<>>) \/ \E r : Scripted(c, r)
           /\ cur = c => Scripted(c, rpc)
BY DEF Talking

\* The types of the variables, and that no more than two messages of a client
\* and three of the receiver are ever in flight (sender.rs:496-669,
\* receiver.rs:262-637).
THEOREM SessionTypeOK == Spec => []TypeOK
<1>1. SessionInv => TypeOK
  <2> SUFFICES ASSUME SessionInv PROVE TypeOK
    OBVIOUS
  <2>0. Typed /\ Worded /\ Counted /\ Talking
    BY DEF SessionInv
  <2>1. ASSUME NEW c \in Clients
        PROVE  /\ Len(toR[c]) <= 2 /\ \A k \in DOMAIN toR[c] : toR[c][k].type \in Types
               /\ Len(toC[c]) <= 3 /\ \A k \in DOMAIN toC[c] : toC[c][k].type \in Replies
    <3>1. toR[c] \in Seq(Said(c)) /\ toC[c] \in Seq(Told(c))
      BY <2>0 DEF Worded
    <3>2. \A m \in Said(c) : m.type \in Types
      BY DEF Said, Types, Msg
    <3>3. \A m \in Told(c) : m.type \in Replies
      BY DEF Told, Replies, Msg
    <3>4. Len(toR[c]) <= 2 /\ Len(toC[c]) <= 3
      <4>1. CASE toR[c] = <<>> /\ toC[c] = <<>>
        BY <4>1
      <4>2. ASSUME NEW r, Scripted(c, r) PROVE Len(toR[c]) <= 2 /\ Len(toC[c]) <= 3
        <5>1. Len(TypesOf(toR[c])) <= 2 /\ Len(TypesOf(toC[c])) <= 3
          BY <4>2, ScriptLengths DEF Scripted
        <5> QED BY <3>1, <5>1, TypesOfSeq
      <4> QED BY <2>0, <4>1, <4>2, InScript
    <3> QED BY <3>1, <3>2, <3>3, <3>4
  <2>2. \A k \in DOMAIN backlog : backlog[k].from \in Clients
    <3>1. backlog \in Seq(Conns)
      BY <2>0 DEF Typed
    <3>2. \A k \in DOMAIN backlog : backlog[k] \in Conns
      BY <3>1
    <3>3. \A q \in Conns : q.from \in Clients
      BY DEF Conns
    <3> QED BY <3>2, <3>3
  <2>3. cpc \in [Clients -> Replies \cup {"start", "tune", "burst", "data", "ok", "err", "dead"}]
    <3>1. Places = Replies \cup {"start", "tune", "burst", "data", "ok", "err", "dead"}
      BY DEF Places, Ended
    <3> QED BY <2>0, <3>1 DEF Typed
  <2>4. rpc \in {"accept", "hello", "nonce", "auth", "response", "code", "serve",
                 "testaccept", "index", "dataaccept", "ok", "err"}
    BY <2>0 DEF Typed, Stages
  <2> QED BY <2>0, <2>1, <2>2, <2>3, <2>4 DEF Typed, Counted, TypeOK
<1> QED BY <1>1, SessionInvAlways, PTL

\* The two programs, which infer from flags what the next untagged bytes are,
\* always infer what the other wrote (sender.rs:507-664, receiver.rs:325-450).
THEOREM SessionHandshakeInStep == Spec => []HandshakeInStep
<1>1. SessionInv => HandshakeInStep
  <2> SUFFICES ASSUME SessionInv PROVE HandshakeInStep
    OBVIOUS
  <2>0. Typed /\ Worded /\ Talking
    BY DEF SessionInv
  <2>1. ASSUME NEW c \in Clients, cpc[c] \in Replies, toC[c] # <<>>
        PROVE  Head(toC[c]).type = cpc[c]
    <3>1. PICK r : Scripted(c, r)
      BY <2>0, <2>1, InScript
    <3>2. /\ TypesOf(toC[c]) # None
          /\ Head(TypesOf(toC[c])) = Head(toC[c]).type
      <4>1. toC[c] \in Seq(Told(c))
        BY <2>0 DEF Worded
      <4>2. TypesOf(toC[c]) = <<>> <=> toC[c] = <<>>
        BY <4>1, TypesOfSeq
      <4>3. toC[c] # <<>> => Head(TypesOf(toC[c])) = Head(toC[c]).type
        BY <4>1, TypesOfSeq
      <4> QED BY <2>1, <4>2, <4>3, Zenon DEF None
    <3> QED BY <2>1, <3>1, <3>2, ScriptHeads DEF Scripted
  <2>2. ASSUME cur # NoClient, toR[cur] # <<>>
        PROVE  /\ rpc \in {"hello", "nonce", "response", "code", "index"} => Head(toR[cur]).type = rpc
               /\ rpc = "serve" => Head(toR[cur]).type \in {"test", "go"}
    <3>1. cur \in Clients
      BY <2>0, <2>2 DEF Typed
    <3>2. Scripted(cur, rpc)
      BY <2>0, <3>1, InScript
    <3>3. /\ TypesOf(toR[cur]) # None
          /\ Head(TypesOf(toR[cur])) = Head(toR[cur]).type
      <4>1. toR[cur] \in Seq(Said(cur))
        BY <2>0, <3>1 DEF Worded
      <4>2. TypesOf(toR[cur]) = <<>> <=> toR[cur] = <<>>
        BY <4>1, TypesOfSeq
      <4>3. toR[cur] # <<>> => Head(TypesOf(toR[cur])) = Head(toR[cur]).type
        BY <4>1, TypesOfSeq
      <4> QED BY <2>2, <4>2, <4>3, Zenon DEF None
    <3> QED BY <3>2, <3>3, ScriptHeads DEF Scripted
  <2> QED BY <2>1, <2>2 DEF HandshakeInStep
<1> QED BY <1>1, SessionInvAlways, PTL

\* A client and a receiver that are through the handshake with each other agree
\* on version, encryption, key and pairing (sender.rs:507-583,
\* receiver.rs:276-408).
THEOREM SessionHandshakeAgreement == Spec => []HandshakeAgreement
<1>1. SessionInv => HandshakeAgreement
  <2> SUFFICES ASSUME SessionInv, NEW c \in Clients
               PROVE  /\ ClientReady(c) \/ ReceiverReady(c) =>
                            /\ cfg[c].version = 2 /\ cfg[c].encrypt = rcv.encrypt
                            /\ PairingRequired => cfg[c].code = "right"
                      /\ ClientReady(c) \/ (ReceiverReady(c) /\ rcv.key # NoKey) =>
                            cfg[c].key = rcv.key
    BY DEF HandshakeAgreement
  <2>1. AgreedWith(c)
    BY DEF SessionInv, Agreed, AgreedWith
  <2>2. ReceiverReady(c) => cur = c /\ rpc # "hello"
    BY DEF ReceiverReady
  <2> QED BY <2>1, <2>2 DEF AgreedWith, Greeted
<1> QED BY <1>1, SessionInvAlways, PTL

\* The data streams that the receiver accepts, which do not say whose they are,
\* come from the client whose index it has (receiver.rs:606-634).
THEOREM SessionDataStreamsOwn == Spec => []DataStreamsOwn
<1>1. SessionInv => DataStreamsOwn
  BY DEF SessionInv, Owned, DataStreamsOwn
<1> QED BY <1>1, SessionInvAlways, PTL

\* The benchmark's listener returns only from a benchmark, and then without an
\* error, whatever its clients do (main.rs:342-463).
THEOREM SessionBenchOutlasts == Spec => BenchOutlasts
<1> DEFINE Outlasts ==
        rcv.bench /\ rpc' \in {"ok", "err"} =>
            rpc' = rpc \/ (rpc \in {"serve", "testaccept"} /\ rpc' = "ok")
<1>1. SessionInv /\ [Next]_vars => [Outlasts]_vars
  <2> SUFFICES ASSUME SessionInv, Next, rcv.bench, rpc' \in {"ok", "err"}, rpc' # rpc
               PROVE  rpc \in {"serve", "testaccept"} /\ rpc' = "ok"
    BY DEF Outlasts
  <2>0. Typed /\ Worded /\ rpc \notin {"index", "dataaccept"}
    BY DEF SessionInv, BenchOnly
  <2>1. GoesOn
    BY DEF GoesOn
  <2>2. \A q : ~EndOrNext(q) /\ ~FailOrNext(q)
    BY <2>1 DEF EndOrNext, FailOrNext, NextClient
  <2>3. ~Fail
    BY <2>2 DEF Fail
  <2>4. \A q : TestFails(q) \/ BenchEnds(q) => rpc' = "ok"
    BY <2>2 DEF TestFails, BenchEnds, RReturn
  <2>5. Receiver
    BY <2>0, ClientShape DEF ClientMoves, Next
  <2>6. ~RAccept /\ ~RHello /\ ~RNonce /\ ~RAuth /\ ~RResponse /\ ~RCode
    BY <2>2 DEF RAccept, RHello, RNonce, RAuth, RResponse, RCode, RGoto, Pairing
  <2>7. ~RTest /\ ~RGo /\ ~RIndex /\ ~RDataAccept /\ ~RJoin
    BY <2>0 DEF RTest, RGo, RIndex, RDataAccept, RJoin, RGoto, AcceptLoop
  <2>8. CASE RTestAccept \/ RTestDone
    BY <2>4, <2>8 DEF RTestAccept, RTestDone, RGoto
  <2>9. CASE REof \/ RWriteFails
    BY <2>2, <2>3, <2>4, <2>9 DEF REof, RWriteFails
  <2> QED BY <2>5, <2>6, <2>7, <2>8, <2>9 DEF Receiver
<1> HIDE DEF Outlasts
<1>2. Spec => [][Outlasts]_vars
  BY <1>1, SessionInvAlways, PTL DEF Spec
<1> QED BY <1>2 DEF BenchOutlasts, Outlasts
------------------------------------------------------------------------------
(* The two programs keep what Service says.                                  *)

\* A message of W is on its way.
Has(s, W) == \E k \in DOMAIN s : s[k] \in W
Go == {Msg("confirm", 0)}

\* Reading and writing messages.
LEMMA HasTail ==
    ASSUME NEW S, NEW s \in Seq(S), s # <<>>, NEW W
    PROVE  Has(s, W) <=> Head(s) \in W \/ Has(Tail(s), W)
<1>1. /\ Head(s) = s[1] /\ 1 \in DOMAIN s
      /\ \A i \in DOMAIN Tail(s) : i + 1 \in DOMAIN s /\ Tail(s)[i] = s[i + 1]
      /\ \A i \in DOMAIN s : i # 1 => i - 1 \in DOMAIN Tail(s) /\ s[i] = Tail(s)[i - 1]
  BY TailFacts
<1>2. Head(s) \in W \/ Has(Tail(s), W) => Has(s, W)
  BY <1>1, Zenon DEF Has
<1>3. Has(s, W) => Head(s) \in W \/ Has(Tail(s), W)
  BY <1>1, Zenon DEF Has
<1> QED BY <1>2, <1>3

LEMMA HasMore ==
    ASSUME NEW S, NEW s \in Seq(S), NEW t \in Seq(S), NEW W
    PROVE  Has(s \o t, W) <=> Has(s, W) \/ Has(t, W)
<1>1. /\ \A i \in 1..Len(s) : (s \o t)[i] = s[i]
      /\ \A i \in 1..Len(t) : (s \o t)[Len(s) + i] = t[i]
      /\ Len(s \o t) = Len(s) + Len(t) /\ s \o t \in Seq(S)
  BY WriteFacts
<1> DEFINE r == s \o t
<1>2. /\ DOMAIN s = 1..Len(s) /\ DOMAIN t = 1..Len(t) /\ Len(s) \in Nat /\ Len(t) \in Nat
      /\ DOMAIN r = 1..(Len(s) + Len(t))
  BY <1>1
<1>3. \A i \in DOMAIN s : i \in DOMAIN r /\ r[i] = s[i]
  BY <1>1, <1>2
<1>4. \A i \in DOMAIN t : Len(s) + i \in DOMAIN r /\ r[Len(s) + i] = t[i]
  BY <1>1, <1>2
<1> HIDE DEF r
<1>5. \A i \in DOMAIN r : i \in DOMAIN s \/ \E j \in DOMAIN t : i = Len(s) + j
  <2> SUFFICES ASSUME NEW i \in DOMAIN r, i \notin DOMAIN s PROVE i - Len(s) \in DOMAIN t /\ i = Len(s) + (i - Len(s))
    BY Zenon
  <2> QED BY <1>2
<1>6. Has(s, W) \/ Has(t, W) => Has(r, W)
  BY <1>3, <1>4, Zenon DEF Has
<1>7. Has(r, W) => Has(s, W) \/ Has(t, W)
  BY <1>3, <1>4, <1>5, Zenon DEF Has
<1> QED BY <1>6, <1>7 DEF r

LEMMA HasOf ==
    /\ \A W : ~Has(<<>>, W)
    /\ \A m, W : Has(<<m>>, W) <=> m \in W
    /\ \A m, n, W : Has(<<m, n>>, W) <=> m \in W \/ n \in W
<1>1. ASSUME NEW m, NEW n
      PROVE  DOMAIN <<m>> = {1} /\ DOMAIN <<m, n>> = {1, 2} /\ <<m>>[1] = m /\ <<m, n>>[1] = m /\ <<m, n>>[2] = n
  OBVIOUS
<1>2. DOMAIN <<>> = {}
  OBVIOUS
<1> QED BY <1>1, <1>2 DEF Has

\* What the definitions of the session say of messages on their way.
LEMMA HasFacts ==
    ASSUME Worded, NEW c \in Clients
    PROVE  /\ LetIn(c) <=> ReceiverReady(c) \/ ClientReady(c) \/ Has(toC[c], Welcome)
           /\ Confirmed(c) <=> cpc[c] = "data" \/ Has(toC[c], Go)
<1>1. LetIn(c) <=> ReceiverReady(c) \/ ClientReady(c) \/ Has(toC[c], Welcome)
  BY Zenon DEF LetIn, Has
<1>2. \A m \in Told(c) : m.type = "confirm" <=> m \in Go
  BY DEF Told, Msg, Go
<1>3. \A k \in DOMAIN toC[c] : toC[c][k] \in Told(c)
  BY DEF Worded
<1>4. (\E k \in DOMAIN toC[c] : toC[c][k].type = "confirm") <=> Has(toC[c], Go)
  BY <1>2, <1>3, Zenon DEF Has
<1> QED BY <1>1, <1>4, Zenon DEF Confirmed

\* ... and after a step.
LEMMA HasFactsNext ==
    ASSUME Worded', NEW c \in Clients
    PROVE  /\ LetIn(c)' <=> ReceiverReady(c)' \/ ClientReady(c)' \/ Has(toC'[c], Welcome)
           /\ Confirmed(c)' <=> cpc'[c] = "data" \/ Has(toC'[c], Go)
<1>1. LetIn(c)' <=> ReceiverReady(c)' \/ ClientReady(c)' \/ Has(toC'[c], Welcome)
  BY Zenon DEF LetIn, Has, Welcome
<1>2. \A m \in Told(c)' : m.type = "confirm" <=> m \in Go
  BY DEF Told, Msg, Go
<1>3. \A k \in DOMAIN toC'[c] : toC'[c][k] \in Told(c)'
  BY DEF Worded
<1>4. (\E k \in DOMAIN toC'[c] : toC'[c][k].type = "confirm") <=> Has(toC'[c], Go)
  BY <1>2, <1>3, Zenon DEF Has
<1> QED BY <1>1, <1>4, Zenon DEF Confirmed

\* What a client has read was a welcome or not.
LEMMA ReadHas ==
    ASSUME Typed, Worded, NEW c \in Clients, NEW t, Read(c, t)
    PROVE  /\ Has(toC[c], Welcome) <=> Head(toC[c]) \in Welcome \/ Has(toC'[c], Welcome)
           /\ Has(toC[c], Go) <=> t = "confirm" \/ Has(toC'[c], Go)
           /\ t \notin {"pair", "paired"} => Head(toC[c]) \notin Welcome
           /\ t = "pair" => (Head(toC[c]) \in Welcome <=> ~Val(c))
           /\ t = "paired" => (Head(toC[c]) \in Welcome <=> Val(c))
<1>1. /\ toC[c] # <<>> /\ Head(toC[c]).type = t /\ toC' = [toC EXCEPT ![c] = Tail(@)]
      /\ toC[c] \in Seq(Told(c)) /\ DOMAIN toC = Clients
  BY DEF Read, Worded, Typed
<1>2. toC'[c] = Tail(toC[c])
  BY <1>1
<1>3. Head(toC[c]) \in Told(c)
  BY <1>1, ReadFacts
<1>4. Head(toC[c]) \in Go <=> t = "confirm"
  BY <1>1, <1>3 DEF Told, Msg, Go
<1>5. /\ t \notin {"pair", "paired"} => Head(toC[c]) \notin Welcome
      /\ t = "pair" => (Head(toC[c]) \in Welcome <=> ~Val(c))
      /\ t = "paired" => (Head(toC[c]) \in Welcome <=> Val(c))
  BY <1>1, <1>3 DEF Told, Msg, Welcome, Val
<1> QED BY <1>1, <1>2, <1>4, <1>5, HasTail

\* What Service sees of a client.
Inv(c) == ~Gone(c) /\ LetIn(c)
Conf(c) == ~Gone(c) /\ Confirmed(c)
Seen(c) == Place(c)' = Place(c) /\ (Inv(c)' <=> Inv(c)) /\ (Conf(c)' <=> Conf(c))

\* A step that changes what is seen of the client c at most is the step of
\* Service that c's part of it says.
LEMMA KeptSteps ==
    ASSUME UNCHANGED <<rcv, cfg>>, NEW c \in Clients,
           \A d \in Clients : d # c => Seen(d)
    PROVE  /\ Seen(c) /\ UNCHANGED <<Serving, Taken>> => UNCHANGED Kept!vars
           /\ /\ Place(c) # "gone" /\ Gone(c)' /\ UNCHANGED <<Serving, Taken>>
              => Kept!Leave(c)
           /\ /\ Place(c) = "outside" /\ Inv(c) /\ c \in Content /\ Place(c)' = "inside"
              /\ Inv(c)' /\ (Conf(c)' <=> Conf(c)) /\ UNCHANGED <<Serving, Taken>>
              => Kept!Enter(c)
           /\ /\ Place(c) = "inside" /\ Conf(c) /\ Place(c)' = "sending"
              /\ Conf(c)' /\ (Inv(c)' <=> Inv(c)) /\ UNCHANGED <<Serving, Taken>>
              => Kept!SendData(c)
           /\ /\ Serving = NoClient /\ c \in Admissible /\ ~Inv(c)
              /\ Place(c) \in {"outside", "gone"} /\ Place(c)' = Place(c) /\ Serving' = c
              /\ (Inv(c)' <=> ~Gone(c)) /\ (Conf(c)' <=> Conf(c)) /\ Taken' = Taken
              => Kept!Admit(c)
           /\ /\ Serving = c /\ Serving' = c /\ Place(c) \in {"inside", "gone"} /\ ~Conf(c)
              /\ (Conf(c)' <=> ~Gone(c)) /\ Place(c)' = Place(c) /\ (Inv(c)' <=> Inv(c))
              /\ Taken' = 0
              => Kept!Confirm(c)
           /\ /\ Serving = c /\ Serving' = c /\ Place(c) \in {"sending", "gone"} /\ Seen(c)
              /\ Taken < NumStreams /\ Taken' = Taken + 1
              => Kept!Take(c)
           /\ Seen(c) /\ Serving = c /\ Serving' = NoClient /\ Taken' = 0 => Kept!End
<1> DEFINE Ps == [d \in Clients |-> Place(d)]
           Is == {d \in Clients : Inv(d)}
           Cs == {d \in Clients : Conf(d)}
<1>0. c # NoClient
  BY ClientsAssumption
<1>1. Admissible' = Admissible /\ Content' = Content
  BY DEF Admissible, Content, Suits, PairingRequired
<1>2. /\ \A d \in Clients : d # c => Place(d)' = Place(d)
      /\ \A d \in Clients : d # c => (Inv(d)' <=> Inv(d))
      /\ \A d \in Clients : d # c => (Conf(d)' <=> Conf(d))
  BY DEF Seen
<1>3. /\ Place(c)' = Place(c) => Ps' = Ps
      /\ Ps' = [Ps EXCEPT ![c] = Place(c)'] /\ Ps[c] = Place(c)
  BY <1>2
<1>4. /\ (Inv(c)' <=> Inv(c)) => Is' = Is
      /\ Inv(c)' => Is' = Is \cup {c}
      /\ ~Inv(c)' => Is' = Is \ {c}
      /\ c \in Is <=> Inv(c)
  BY <1>2
<1>5. /\ (Conf(c)' <=> Conf(c)) => Cs' = Cs
      /\ Conf(c)' => Cs' = Cs \cup {c}
      /\ ~Conf(c)' => Cs' = Cs \ {c}
      /\ c \in Cs <=> Conf(c)
  BY <1>2
<1>6. Is = {d \in Clients : ~Gone(d) /\ LetIn(d)} /\ Cs = {d \in Clients : ~Gone(d) /\ Confirmed(d)}
  BY Zenon DEF Inv, Conf
<1>7. /\ Gone(c) <=> Place(c) = "gone"
      /\ Gone(c)' <=> Place(c)' = "gone"
      /\ Gone(c) => ~Inv(c) /\ ~Conf(c)
      /\ Gone(c)' => ~Inv(c)' /\ ~Conf(c)'
  BY DEF Place, Inv, Conf
<1>8. UNCHANGED Kept!vars <=> UNCHANGED <<Admissible, Content, Serving, Ps, Is, Cs, Taken>>
  BY <1>6 DEF Kept!vars, Inv, Conf
<1>9. Kept!Told(c) = IF Gone(c) THEN {} ELSE {c}
  BY <1>3, <1>7 DEF Kept!Told
<1> USE <1>0, <1>1, <1>3, <1>4, <1>5, <1>7, <1>9
<1> HIDE DEF Ps, Is, Cs
<1>11. Seen(c) /\ UNCHANGED <<Serving, Taken>> => UNCHANGED Kept!vars
  BY <1>8 DEF Seen
<1>12. ASSUME Place(c) # "gone", Gone(c)', UNCHANGED <<Serving, Taken>> PROVE Kept!Leave(c)
  <2>1. Ps' = [Ps EXCEPT ![c] = "gone"] /\ Ps[c] # "gone" /\ Is' = Is \ {c} /\ Cs' = Cs \ {c}
    BY <1>12
  <2> QED BY <1>12, <2>1 DEF Kept!Leave, Ps, Is, Cs, Inv, Conf
<1>13. ASSUME Place(c) = "outside", Inv(c), c \in Content, Place(c)' = "inside",
              Inv(c)', Conf(c)' <=> Conf(c), UNCHANGED <<Serving, Taken>>
       PROVE  Kept!Enter(c)
  <2>1. Ps' = [Ps EXCEPT ![c] = "inside"] /\ Ps[c] = "outside" /\ c \in Is /\ Is' = Is /\ Cs' = Cs
    BY <1>13
  <2> QED BY <1>13, <2>1 DEF Kept!Enter, Ps, Is, Cs, Inv, Conf
<1>14. ASSUME Place(c) = "inside", Conf(c), Place(c)' = "sending",
              Conf(c)', Inv(c)' <=> Inv(c), UNCHANGED <<Serving, Taken>>
       PROVE  Kept!SendData(c)
  <2>1. Ps' = [Ps EXCEPT ![c] = "sending"] /\ Ps[c] = "inside" /\ c \in Cs /\ Is' = Is /\ Cs' = Cs
    BY <1>14
  <2> QED BY <1>14, <2>1 DEF Kept!SendData, Ps, Is, Cs, Inv, Conf
<1>15. ASSUME Serving = NoClient, c \in Admissible, ~Inv(c), Place(c) \in {"outside", "gone"},
              Place(c)' = Place(c), Serving' = c, Inv(c)' <=> ~Gone(c),
              Conf(c)' <=> Conf(c), Taken' = Taken
       PROVE  Kept!Admit(c)
  <2>1. /\ Ps' = Ps /\ Ps[c] \in {"outside", "gone"} /\ c \notin Is
        /\ Is' = Is \cup Kept!Told(c) /\ Cs' = Cs
    BY <1>15
  <2> QED BY <1>15, <2>1 DEF Kept!Admit, Ps, Is, Cs, Inv, Conf
<1>16. ASSUME Serving = c, Serving' = c, Place(c) \in {"inside", "gone"}, ~Conf(c),
              Conf(c)' <=> ~Gone(c), Place(c)' = Place(c), Inv(c)' <=> Inv(c), Taken' = 0
       PROVE  Kept!Confirm(c)
  <2>1. /\ Ps' = Ps /\ Ps[c] \in {"inside", "gone"} /\ c \notin Cs
        /\ Is' = Is /\ Cs' = Cs \cup Kept!Told(c)
    BY <1>16
  <2> QED BY <1>16, <2>1 DEF Kept!Confirm, Ps, Is, Cs, Inv, Conf
<1>17. ASSUME Serving = c, Serving' = c, Place(c) \in {"sending", "gone"}, Seen(c),
              Taken < NumStreams, Taken' = Taken + 1
       PROVE  Kept!Take(c)
  <2>1. Ps' = Ps /\ Ps[c] \in {"sending", "gone"} /\ Is' = Is /\ Cs' = Cs
    BY <1>17 DEF Seen
  <2> QED BY <1>17, <2>1 DEF Kept!Take, Ps, Is, Cs, Inv, Conf
<1>18. ASSUME Seen(c), Serving = c, Serving' = NoClient, Taken' = 0 PROVE Kept!End
  <2>1. Ps' = Ps /\ Is' = Is /\ Cs' = Cs
    BY <1>18 DEF Seen
  <2> QED BY <1>18, <2>1 DEF Kept!End, Ps, Is, Cs, Inv, Conf
<1> QED BY <1>11, <1>12, <1>13, <1>14, <1>15, <1>16, <1>17, <1>18

\* A client before it is through the handshake, and after it until it is told to
\* send its data.
Before == {"start", "nonce", "auth", "challenge", "verdict", "pair", "paired"}
After == {"tune", "ready", "burst", "speed", "list", "confirm"}

\* The reading of c that is neither a welcome nor the word to send data.
SameTold(c) ==
    /\ Has(toC'[c], Welcome) <=> Has(toC[c], Welcome)
    /\ Has(toC'[c], Go) <=> Has(toC[c], Go)

\* How a client goes on.
LEMMA ClientGoesOn ==
    ASSUME Typed, Worded, NEW c \in Clients, Client(c) \/ Finish(c) \/ CDies(c)
    PROVE  \/ cpc[c] \notin Ended /\ cpc'[c] \in Ended
           \/ /\ SameTold(c)
              /\ \/ cpc'[c] = cpc[c]
                 \/ cpc[c] \in Before /\ cpc'[c] \in Before
                 \/ cpc[c] \in After /\ cpc'[c] \in After
           \/ /\ cpc[c] \in Before /\ cpc'[c] = "tune" /\ Has(toC[c], Welcome)
              /\ Has(toC'[c], Go) <=> Has(toC[c], Go)
           \/ cpc[c] = "confirm" /\ cpc'[c] = "data" /\ Has(toC[c], Go)
<1>0. cpc \in [Clients -> Places] /\ DOMAIN toC = Clients
  BY DEF Typed
<1>1. /\ toC' = toC => SameTold(c)
      /\ \A t : Read(c, t) /\ t \notin {"pair", "paired", "confirm"} => SameTold(c)
      /\ Read(c, "pair") => /\ Val(c) => SameTold(c)
                            /\ ~Val(c) => Has(toC[c], Welcome) /\ (Has(toC'[c], Go) <=> Has(toC[c], Go))
      /\ Read(c, "paired") /\ Val(c) => Has(toC[c], Welcome) /\ (Has(toC'[c], Go) <=> Has(toC[c], Go))
      /\ Read(c, "confirm") => Has(toC[c], Go)
  BY ReadHas DEF SameTold
<1> USE <1>0, <1>1 DEF Before, After, Ended, Goto
<1>2. CASE CConnect(c)
  BY <1>2 DEF CConnect
<1>3. CASE CNonce(c)
  BY <1>3 DEF CNonce
<1>4. CASE CAuth(c)
  BY <1>4 DEF CAuth
<1>5. CASE CChallenge(c)
  BY <1>5 DEF CChallenge
<1>6. CASE CVerdict(c)
  BY <1>6 DEF CVerdict
<1>7. CASE CPair(c)
  BY <1>7 DEF CPair
<1>8. CASE CPaired(c)
  BY <1>8 DEF CPaired
<1>9. CASE CTune(c)
  BY <1>9 DEF CTune
<1>10. CASE CReady(c)
  BY <1>10 DEF CReady
<1>11. CASE CStream(c)
  BY <1>11 DEF CStream
<1>12. CASE CSpeed(c)
  BY <1>12 DEF CSpeed
<1>13. CASE CList(c)
  BY <1>13 DEF CList
<1>14. CASE CConfirm(c)
  BY <1>14 DEF CConfirm
<1>15. CASE CEof(c)
  BY <1>15 DEF CEof
<1>16. CASE CBurstEnds(c)
  BY <1>16 DEF CBurstEnds
<1>17. CASE CDone(c)
  BY <1>17 DEF CDone
<1>18. CASE CDies(c)
  BY <1>18 DEF CDies, Gone
<1> QED BY <1>2, <1>3, <1>4, <1>5, <1>6, <1>7, <1>8, <1>9, <1>10, <1>11, <1>12, <1>13,
           <1>14, <1>15, <1>16, <1>17, <1>18 DEF Client, Finish

\* Where a client is, for Service.
LEMMA WhereSeen ==
    ASSUME Typed, NEW c \in Clients
    PROVE  /\ Gone(c) <=> cpc[c] \in Ended
           /\ ClientReady(c) <=> cpc[c] \in After \cup {"data"}
           /\ cpc[c] \in Ended => Place(c) = "gone"
           /\ cpc[c] \in Before => Place(c) = "outside"
           /\ cpc[c] \in After => Place(c) = "inside"
           /\ cpc[c] = "data" => Place(c) = "sending"
           /\ cpc[c] \in Ended \cup Before \cup After \cup {"data"}
<1>1. cpc[c] \in Places
  BY DEF Typed
<1> QED BY <1>1 DEF Places, Replies, Ended, Before, After, Gone, ClientReady, Place

\* ... and after a step.
LEMMA WhereSeenNext ==
    ASSUME Typed', NEW c \in Clients
    PROVE  /\ Gone(c)' <=> cpc'[c] \in Ended
           /\ ClientReady(c)' <=> cpc'[c] \in After \cup {"data"}
           /\ cpc'[c] \in Ended => Place(c)' = "gone"
           /\ cpc'[c] \in Before => Place(c)' = "outside"
           /\ cpc'[c] \in After => Place(c)' = "inside"
           /\ cpc'[c] = "data" => Place(c)' = "sending"
           /\ cpc'[c] \in Ended \cup Before \cup After \cup {"data"}
<1>1. cpc'[c] \in Places
  BY DEF Typed
<1> QED BY <1>1 DEF Places, Replies, Ended, Before, After, Gone, ClientReady, Place

\* A step of a client is one that Service allows it, or is not seen.
LEMMA ClientKeeps ==
    ASSUME SessionInv, SessionInv', NEW c \in Clients, Client(c) \/ Finish(c) \/ CDies(c)
    PROVE  Kept!Next \/ UNCHANGED Kept!vars
<1>0. Typed /\ Worded /\ Typed' /\ Worded' /\ Agreed'
  BY DEF SessionInv
<1>1. ClientMoves(c)
  BY <1>0, ClientShape
<1>2. UNCHANGED <<rcv, cfg, Serving, Taken>> /\ \A d : ReceiverReady(d)' <=> ReceiverReady(d)
  BY <1>1 DEF ClientMoves, Serving, Taken, ReceiverReady
<1>3. \A d \in Clients : /\ LetIn(d) <=> ReceiverReady(d) \/ ClientReady(d) \/ Has(toC[d], Welcome)
                         /\ Confirmed(d) <=> cpc[d] = "data" \/ Has(toC[d], Go)
  BY <1>0, HasFacts
<1>4. \A d \in Clients : /\ LetIn(d)' <=> ReceiverReady(d)' \/ ClientReady(d)' \/ Has(toC'[d], Welcome)
                         /\ Confirmed(d)' <=> cpc'[d] = "data" \/ Has(toC'[d], Go)
  BY <1>0, HasFactsNext
<1>5. ASSUME NEW d \in Clients, d # c PROVE Seen(d)
  <2>1. cpc'[d] = cpc[d] /\ toC'[d] = toC[d]
    BY <1>0, <1>1, <1>5 DEF ClientMoves, ClientPlace, ClientReads, Typed
  <2>2. (ClientReady(d)' <=> ClientReady(d)) /\ (Gone(d)' <=> Gone(d))
    BY <2>1 DEF ClientReady, Gone
  <2>3. Place(d)' = Place(d)
    BY <2>1, <2>2 DEF Place
  <2>4. (LetIn(d)' <=> LetIn(d)) /\ (Confirmed(d)' <=> Confirmed(d))
    BY <1>2, <1>3, <1>4, <2>1, <2>2
  <2> QED BY <2>2, <2>3, <2>4 DEF Seen, Inv, Conf
<1> USE <1>2, <1>5
<1>6. /\ Gone(c) <=> cpc[c] \in Ended
      /\ ClientReady(c) <=> cpc[c] \in After \cup {"data"}
      /\ cpc[c] \in Ended => Place(c) = "gone"
      /\ cpc[c] \in Before => Place(c) = "outside"
      /\ cpc[c] \in After => Place(c) = "inside"
      /\ cpc[c] = "data" => Place(c) = "sending"
      /\ cpc[c] \in Ended \cup Before \cup After \cup {"data"}
  BY <1>0, WhereSeen
<1>7. /\ Gone(c)' <=> cpc'[c] \in Ended
      /\ ClientReady(c)' <=> cpc'[c] \in After \cup {"data"}
      /\ cpc'[c] \in Ended => Place(c)' = "gone"
      /\ cpc'[c] \in Before => Place(c)' = "outside"
      /\ cpc'[c] \in After => Place(c)' = "inside"
      /\ cpc'[c] = "data" => Place(c)' = "sending"
      /\ cpc'[c] \in Ended \cup Before \cup After \cup {"data"}
  BY <1>0, WhereSeenNext
<1>8. CASE cpc[c] \notin Ended /\ cpc'[c] \in Ended
  <2>1. Place(c) # "gone" /\ Gone(c)'
    BY <1>6, <1>7, <1>8 DEF Ended, Before, After
  <2> QED BY <2>1, KeptSteps DEF Kept!Next
<1>9. CASE /\ SameTold(c)
           /\ \/ cpc'[c] = cpc[c]
              \/ cpc[c] \in Before /\ cpc'[c] \in Before
              \/ cpc[c] \in After /\ cpc'[c] \in After
  <2>1. Place(c)' = Place(c) /\ (Gone(c)' <=> Gone(c)) /\ (ClientReady(c)' <=> ClientReady(c))
    BY <1>6, <1>7, <1>9 DEF Ended, Before, After
  <2>2. (cpc'[c] = "data") <=> (cpc[c] = "data")
    BY <1>9 DEF Before, After
  <2>3. (LetIn(c)' <=> LetIn(c)) /\ (Confirmed(c)' <=> Confirmed(c))
    BY <1>3, <1>4, <1>9, <2>1, <2>2 DEF SameTold
  <2>4. Seen(c)
    BY <2>1, <2>3 DEF Seen, Inv, Conf
  <2> QED BY <2>4, KeptSteps
<1>10. CASE /\ cpc[c] \in Before /\ cpc'[c] = "tune" /\ Has(toC[c], Welcome)
            /\ Has(toC'[c], Go) <=> Has(toC[c], Go)
  <2>1. /\ Place(c) = "outside" /\ Place(c)' = "inside" /\ ~Gone(c) /\ ~Gone(c)'
        /\ ClientReady(c)' /\ cpc[c] # "data" /\ cpc'[c] # "data"
    BY <1>6, <1>7, <1>10 DEF Ended, Before, After
  <2>2. LetIn(c) /\ LetIn(c)' /\ (Confirmed(c)' <=> Confirmed(c))
    BY <1>3, <1>4, <1>10, <2>1
  <2>3. Inv(c) /\ Inv(c)' /\ (Conf(c)' <=> Conf(c))
    BY <2>1, <2>2 DEF Inv, Conf
  <2>4. c \in Content
    <3>1. AgreedWith(c)'
      BY <1>0 DEF Agreed, AgreedWith
    <3> QED BY <1>2, <2>1, <3>1 DEF AgreedWith, Greeted, Content, Suits, PairingRequired
  <2> QED BY <2>1, <2>3, <2>4, KeptSteps DEF Kept!Next
<1>11. CASE cpc[c] = "confirm" /\ cpc'[c] = "data" /\ Has(toC[c], Go)
  <2>1. /\ Place(c) = "inside" /\ Place(c)' = "sending" /\ ~Gone(c) /\ ~Gone(c)'
        /\ ClientReady(c) /\ ClientReady(c)'
    BY <1>6, <1>7, <1>11 DEF Ended, Before, After
  <2>2. LetIn(c) /\ LetIn(c)' /\ Confirmed(c) /\ Confirmed(c)'
    BY <1>3, <1>4, <1>11, <2>1
  <2>3. Inv(c) /\ Inv(c)' /\ Conf(c) /\ Conf(c)'
    BY <2>1, <2>2 DEF Inv, Conf
  <2> QED BY <2>1, <2>3, KeptSteps DEF Kept!Next
<1> QED BY <1>0, <1>8, <1>9, <1>10, <1>11, ClientGoesOn

\* What the script says of the client while the receiver makes sure of it, and
\* while it serves it.
LEMMA ScriptServes ==
    ASSUME NEW r, NEW c, NEW pc, NEW tr, NEW tc, Script(r, c, pc, tr, tc)
    PROVE  /\ r \in {"testaccept", "index", "dataaccept"} =>
                pc \in Ended \cup After \cup {"data"}
           /\ r = "index" => pc # "data" /\ tc = None
           /\ r \in {"auth", "response", "code"} =>
                /\ pc \in Ended \cup Before
                /\ \A k \in DOMAIN tc : tc[k] \in {"nonce", "auth", "challenge"} \/ (r = "code" /\ tc[k] = "pair")
<1> USE DEF Script, Ended, After, Before
<1>1. r \in {"testaccept", "index", "dataaccept"} => pc \in Ended \cup After \cup {"data"}
  OBVIOUS
<1>2. r = "index" => pc # "data" /\ tc = None
  OBVIOUS
<1>3. r \in {"auth", "response", "code"} => pc \in Ended \cup Before
  OBVIOUS
<1>4. r \in {"auth", "response", "code"} =>
        \/ tc \in {None, One("nonce"), Three("nonce", "auth", "challenge"), Two("auth", "challenge"),
                   One("challenge")}
        \/ r = "code" /\ tc \in {Three("nonce", "auth", "pair"), Two("auth", "pair"), One("pair")}
  OBVIOUS
<1>5. /\ DOMAIN None = {}
      /\ \A a : DOMAIN One(a) = {1} /\ One(a)[1] = a
      /\ \A a, b : DOMAIN Two(a, b) = {1, 2} /\ Two(a, b)[1] = a /\ Two(a, b)[2] = b
      /\ \A a, b, d : /\ DOMAIN Three(a, b, d) = {1, 2, 3} /\ Three(a, b, d)[1] = a
                      /\ Three(a, b, d)[2] = b /\ Three(a, b, d)[3] = d
  BY DEF None, One, Two, Three
<1>6. r \in {"auth", "response", "code"} =>
        \A k \in DOMAIN tc : tc[k] \in {"nonce", "auth", "challenge"} \/ (r = "code" /\ tc[k] = "pair")
  BY <1>4, <1>5
<1> QED BY <1>1, <1>2, <1>3, <1>6

\* Nobody has been told that it is let in before the receiver has made sure of it.
LEMMA NotLetIn ==
    ASSUME SessionInv, cur \in Clients, rpc \in {"auth", "response", "code"}
    PROVE  ~LetIn(cur) /\ (Gone(cur) \/ Place(cur) = "outside")
<1>0. Typed /\ Worded /\ Agreed /\ Talking
  BY DEF SessionInv
<1>1. Scripted(cur, rpc)
  BY <1>0, InScript
<1>2. /\ cpc[cur] \in Ended \cup Before
      /\ \A k \in DOMAIN TypesOf(toC[cur]) :
            \/ TypesOf(toC[cur])[k] \in {"nonce", "auth", "challenge"}
            \/ rpc = "code" /\ TypesOf(toC[cur])[k] = "pair"
  BY <1>1, ScriptServes DEF Scripted
<1>3. \A k \in DOMAIN toC[cur] :
        \/ toC[cur][k].type \in {"nonce", "auth", "challenge"}
        \/ rpc = "code" /\ toC[cur][k].type = "pair"
  BY <1>2 DEF TypesOf
<1>4. rpc = "code" => PairingRequired
  BY <1>0 DEF Agreed
<1>5. \A k \in DOMAIN toC[cur] : toC[cur][k] \in Told(cur)
  BY <1>0 DEF Worded
<1>6. \A m \in Told(cur) : m.type = "pair" => m.val = PairingRequired
  BY DEF Told, Msg
<1>7. \A m \in Welcome : /\ m.type \in {"pair", "paired"}
                         /\ m.type = "pair" => m.val = FALSE
  BY DEF Welcome, Msg
<1>8. ~Has(toC[cur], Welcome)
  BY <1>3, <1>4, <1>5, <1>6, <1>7 DEF Has
<1>9. ~ReceiverReady(cur) /\ ~ClientReady(cur) /\ (Gone(cur) \/ Place(cur) = "outside")
  BY <1>0, <1>2, WhereSeen DEF ReceiverReady, Ended, Before, After
<1> QED BY <1>0, <1>8, <1>9, HasFacts

\* What the receiver writes is on its way to cur.
LEMMA ReplyHas ==
    ASSUME Typed, Worded, cur \in Clients, NEW W
    PROVE  /\ \A m \in Told(cur) : Reply(<<m>>) =>
                 (Has(toC'[cur], W) <=> Has(toC[cur], W) \/ m \in W)
           /\ \A m, n \in Told(cur) : Reply(<<m, n>>) =>
                 (Has(toC'[cur], W) <=> Has(toC[cur], W) \/ m \in W \/ n \in W)
<1>1. toC[cur] \in Seq(Told(cur)) /\ DOMAIN toC = Clients
  BY DEF Worded, Typed
<1>2. ASSUME NEW t \in Seq(Told(cur)), Reply(t)
      PROVE  Has(toC'[cur], W) <=> Has(toC[cur], W) \/ Has(t, W)
  <2>1. toC'[cur] = toC[cur] \o t
    BY <1>1, <1>2 DEF Reply
  <2> QED BY <1>1, <2>1, HasMore
<1>3. \A m, n \in Told(cur) : <<m>> \in Seq(Told(cur)) /\ <<m, n>> \in Seq(Told(cur))
  OBVIOUS
<1>4. ASSUME NEW m \in Told(cur), Reply(<<m>>)
      PROVE  Has(toC'[cur], W) <=> Has(toC[cur], W) \/ m \in W
  <2>1. Has(toC'[cur], W) <=> Has(toC[cur], W) \/ Has(<<m>>, W)
    BY <1>2, <1>3, <1>4
  <2> QED BY <2>1, HasOf
<1>5. ASSUME NEW m \in Told(cur), NEW n \in Told(cur), Reply(<<m, n>>)
      PROVE  Has(toC'[cur], W) <=> Has(toC[cur], W) \/ m \in W \/ n \in W
  <2>1. Has(toC'[cur], W) <=> Has(toC[cur], W) \/ Has(<<m, n>>, W)
    BY <1>2, <1>3, <1>5
  <2> QED BY <2>1, HasOf
<1> QED BY <1>4, <1>5

\* What a step of the receiver tells cur, when it goes on with a session that it
\* does not serve yet or goes on serving, and when a session is over.
Quiet == toC' = toC \/ (cur \in Clients /\ SameTold(cur))
Unseen == Quiet /\ Serving' = Serving /\ Taken' = Taken
Over ==
    /\ Quiet /\ Serving # NoClient /\ Serving' = NoClient
    /\ Gone(cur) \/ rpc # "serve"
Admits ==
    /\ rpc \in {"auth", "response", "code"} /\ rpc' = "serve" /\ cur' = cur
    /\ Has(toC'[cur], Go) <=> Has(toC[cur], Go)
Confirms ==
    /\ rpc = "index" /\ rpc' = "dataaccept" /\ cur' = cur /\ got' = 0
    /\ Has(toC'[cur], Go) /\ (Has(toC'[cur], Welcome) <=> Has(toC[cur], Welcome))
Takes ==
    /\ rpc = "dataaccept" /\ rpc' = rpc /\ cur' = cur /\ toC' = toC
    /\ got < want /\ got' = got + 1 /\ backlog # <<>> /\ Head(backlog).kind = "data"

\* Every step of the receiver is one of these.
LEMMA ReceiverGoesOn ==
    ASSUME Typed, Worded, Receiver
    PROVE  Unseen \/ Over \/ (cur \in Clients /\ (Admits \/ Confirms \/ Takes))
<1> DEFINE Ready == {"serve", "testaccept", "index", "dataaccept"}
<1>1. /\ cur \in Clients \/ cur = NoClient
      /\ cur = NoClient <=> rpc \in {"accept", "ok", "err"}
      /\ NoClient \notin Clients
  BY ClientsAssumption DEF Typed
<1>2. /\ rpc \in Ready => Serving = cur /\ Serving # NoClient
      /\ rpc \notin Ready => Serving = NoClient
      /\ rpc' \in Ready => Serving' = cur'
      /\ rpc' \notin Ready => Serving' = NoClient
      /\ rpc # "dataaccept" => Taken = 0
      /\ rpc' # "dataaccept" => Taken' = 0
  BY <1>1 DEF Serving, Taken
<1>3. ASSUME NEW q, Leaves(q), Quiet, Gone(cur) \/ rpc # "serve" PROVE Unseen \/ Over
  <2>1. Serving' = NoClient /\ Taken' = 0
    BY <1>2, <1>3 DEF Leaves
  <2>2. rpc \notin Ready => Unseen
    BY <1>2, <1>3, <2>1 DEF Unseen
  <2>3. rpc \in Ready => Over
    BY <1>2, <1>3, <2>1 DEF Over
  <2> QED BY <2>2, <2>3
<1>4. ASSUME Quiet, rpc \notin Ready, rpc' \notin Ready PROVE Unseen
  BY <1>2, <1>4 DEF Unseen
<1>5. ASSUME Quiet, rpc \in Ready, rpc' \in Ready, cur' = cur, rpc # "dataaccept", rpc' # "dataaccept"
      PROVE  Unseen
  BY <1>2, <1>5 DEF Unseen
<1>6. ASSUME cur \in Clients, NEW m \in Told(cur), Reply(<<m>>), m \notin Welcome, m \notin Go
      PROVE  Quiet
  BY <1>6, ReplyHas DEF Quiet, SameTold
<1>7. ASSUME cur \in Clients, NEW m \in Told(cur), NEW n \in Told(cur), Reply(<<m, n>>),
             m \notin Welcome, m \notin Go, n \notin Welcome, n \notin Go
      PROVE  Quiet
  BY <1>7, ReplyHas DEF Quiet, SameTold
<1>8. cur \in Clients /\ toR[cur] # <<>> =>
        LET m == Head(toR[cur]) IN
        /\ m.type = "response" => m.val = cfg[cur].key
        /\ m.type = "code" => m.val = cfg[cur].code
  BY SaidRead DEF Worded
<1>9. toC' = toC => Quiet
  BY DEF Quiet
<1>10. CASE RAccept
  BY <1>2, <1>3, <1>4, <1>9, <1>10, Leaving DEF RAccept
<1>11. CASE RHello
  BY <1>2, <1>3, <1>4, <1>9, <1>11, Leaving DEF RHello
<1>12. CASE RNonce
  <2>1. Msg("nonce", 0) \in Told(cur) /\ Msg("nonce", 0) \notin Welcome /\ Msg("nonce", 0) \notin Go
    BY DEF Told, Msg, Welcome, Go
  <2>2. Quiet
    BY <1>1, <1>6, <1>12, <2>1 DEF RNonce
  <2> QED BY <1>4, <1>12, <2>2 DEF RNonce, RGoto
<1>13. CASE RAuth
  <2>1. cur \in Clients /\ rpc = "auth"
    BY <1>1, <1>13 DEF RAuth
  <2>2. CASE rcv.key # NoKey
    <3>1. /\ Msg("auth", TRUE) \in Told(cur) /\ Msg("auth", TRUE) \notin Welcome /\ Msg("auth", TRUE) \notin Go
          /\ Msg("challenge", 0) \in Told(cur) /\ Msg("challenge", 0) \notin Welcome
          /\ Msg("challenge", 0) \notin Go
      BY <2>2 DEF Told, Msg, Welcome, Go
    <3>2. Quiet
      BY <1>7, <1>13, <2>1, <2>2, <3>1 DEF RAuth
    <3> QED BY <1>4, <1>13, <2>2, <3>2 DEF RAuth, RGoto
  <2>3. CASE rcv.key = NoKey
    <3> DEFINE m == Msg("auth", FALSE)
               n == Msg("pair", PairingRequired)
    <3>0. m \in Told(cur) /\ n \in Told(cur)
      BY <2>3 DEF Told
    <3>1. m \notin Welcome /\ m \notin Go /\ n \notin Go /\ (PairingRequired => n \notin Welcome)
      BY DEF Msg, Welcome, Go
    <3>2. Reply(<<m, n>>) /\ RGoto(Pairing)
      BY <1>13, <2>3 DEF RAuth
    <3> HIDE DEF m, n
    <3>3. CASE PairingRequired
      <4>1. Quiet /\ rpc' = "code"
        BY <1>7, <2>1, <3>0, <3>1, <3>2, <3>3 DEF RGoto, Pairing
      <4> QED BY <1>4, <2>1, <4>1
    <3>4. CASE ~PairingRequired
      <4>1. Has(toC'[cur], Go) <=> Has(toC[cur], Go)
        BY <2>1, <3>0, <3>1, <3>2, ReplyHas
      <4> QED BY <2>1, <3>2, <3>4, <4>1 DEF Admits, RGoto, Pairing
    <3> QED BY <3>3, <3>4
  <2> QED BY <2>2, <2>3
<1>14. CASE RResponse
  <2>1. cur \in Clients /\ rpc = "response" /\ RVal = cfg[cur].key
    BY <1>1, <1>8, <1>14 DEF RResponse, RRead, RVal
  <2>2. CASE RVal # rcv.key
    <3>1. /\ Msg("verdict", FALSE) \in Told(cur) /\ Msg("verdict", FALSE) \notin Welcome
          /\ Msg("verdict", FALSE) \notin Go
      BY <2>1, <2>2 DEF Told, Msg, Welcome, Go
    <3>2. Quiet
      BY <1>6, <1>14, <2>1, <2>2, <3>1 DEF RResponse
    <3> QED BY <1>3, <1>14, <2>1, <2>2, <3>2, Leaving DEF RResponse
  <2>3. CASE RVal = rcv.key
    <3> DEFINE m == Msg("verdict", TRUE)
               n == Msg("pair", PairingRequired)
    <3>0. m \in Told(cur) /\ n \in Told(cur)
      BY <2>1, <2>3 DEF Told
    <3>1. m \notin Welcome /\ m \notin Go /\ n \notin Go /\ (PairingRequired => n \notin Welcome)
      BY DEF Msg, Welcome, Go
    <3>2. Reply(<<m, n>>) /\ RGoto(Pairing)
      BY <1>14, <2>3 DEF RResponse
    <3> HIDE DEF m, n
    <3>3. CASE PairingRequired
      <4>1. Quiet /\ rpc' = "code"
        BY <1>7, <2>1, <3>0, <3>1, <3>2, <3>3 DEF RGoto, Pairing
      <4> QED BY <1>4, <2>1, <4>1
    <3>4. CASE ~PairingRequired
      <4>1. Has(toC'[cur], Go) <=> Has(toC[cur], Go)
        BY <2>1, <3>0, <3>1, <3>2, ReplyHas
      <4> QED BY <2>1, <3>2, <3>4, <4>1 DEF Admits, RGoto, Pairing
    <3> QED BY <3>3, <3>4
  <2> QED BY <2>2, <2>3
<1>15. CASE RCode
  <2>1. cur \in Clients /\ rpc = "code" /\ RVal = cfg[cur].code
    BY <1>1, <1>8, <1>15 DEF RCode, RRead, RVal
  <2>2. CASE RVal # "right"
    <3>1. /\ Msg("paired", FALSE) \in Told(cur) /\ Msg("paired", FALSE) \notin Welcome
          /\ Msg("paired", FALSE) \notin Go
      BY <2>1, <2>2 DEF Told, Msg, Welcome, Go
    <3>2. Quiet
      BY <1>6, <1>15, <2>1, <2>2, <3>1 DEF RCode
    <3> QED BY <1>3, <1>15, <2>1, <2>2, <3>2, Leaving DEF RCode
  <2>3. CASE RVal = "right"
    <3>1. Msg("paired", TRUE) \in Told(cur) /\ Msg("paired", TRUE) \notin Go
      BY <2>1, <2>3 DEF Told, Msg, Go
    <3>2. Has(toC'[cur], Go) <=> Has(toC[cur], Go)
      BY <1>15, <2>1, <2>3, <3>1, ReplyHas DEF RCode
    <3> QED BY <1>15, <2>1, <2>3, <3>2 DEF RCode, Admits, RGoto
  <2> QED BY <2>2, <2>3
<1>16. CASE RIndex
  <2>1. cur \in Clients /\ rpc = "index"
    BY <1>1, <1>16 DEF RIndex
  <2>2. /\ Msg("list", 0) \in Told(cur) /\ Msg("list", 0) \notin Welcome /\ Msg("list", 0) \notin Go
        /\ Msg("confirm", 0) \in Told(cur) /\ Msg("confirm", 0) \notin Welcome /\ Msg("confirm", 0) \in Go
    BY DEF Told, Msg, Welcome, Go
  <2>3. CASE FailOrNext(backlog) /\ UNCHANGED toC
    BY <1>3, <1>9, <2>1, <2>3, Leaving
  <2>4. CASE (EndOrNext(backlog) \/ Fail) /\ Reply(<<Msg("list", 0)>>)
    <3>1. Quiet
      BY <1>6, <2>1, <2>2, <2>4
    <3> QED BY <1>3, <2>1, <2>4, <3>1, Leaving
  <2>5. CASE AcceptLoop("dataaccept", ActiveStreams) /\ Reply(<<Msg("list", 0), Msg("confirm", 0)>>)
    <3>1. Has(toC'[cur], Go) /\ (Has(toC'[cur], Welcome) <=> Has(toC[cur], Welcome))
      BY <2>1, <2>2, <2>5, ReplyHas
    <3> QED BY <2>1, <2>5, <3>1 DEF Confirms, AcceptLoop
  <2> QED BY <1>16, <2>3, <2>4, <2>5 DEF RIndex
<1>17. CASE RTest
  <2>1. Msg("ready", 0) \in Told(cur) /\ Msg("ready", 0) \notin Welcome /\ Msg("ready", 0) \notin Go
    BY DEF Told, Msg, Welcome, Go
  <2>2. Quiet
    BY <1>1, <1>6, <1>17, <2>1 DEF RTest
  <2> QED BY <1>5, <1>17, <2>2 DEF RTest, AcceptLoop
<1>18. CASE RTestAccept
  BY <1>3, <1>5, <1>9, <1>18, Leaving DEF RTestAccept
<1>19. CASE RTestDone
  <2>1. Msg("speed", 0) \in Told(cur) /\ Msg("speed", 0) \notin Welcome /\ Msg("speed", 0) \notin Go
    BY DEF Told, Msg, Welcome, Go
  <2>2. CASE mode = 3
    BY <1>3, <1>9, <1>19, <2>2, Leaving DEF RTestDone
  <2>3. CASE mode # 3
    <3>1. Quiet
      BY <1>1, <1>6, <1>19, <2>1, <2>3 DEF RTestDone
    <3> QED BY <1>5, <1>19, <2>3, <3>1 DEF RTestDone, RGoto
  <2> QED BY <2>2, <2>3
<1>20. CASE RGo
  BY <1>5, <1>9, <1>20 DEF RGo, RGoto
<1>21. CASE RJoin
  BY <1>3, <1>9, <1>21, Leaving DEF RJoin
<1>22. CASE RDataAccept
  BY <1>1, <1>3, <1>9, <1>22, Leaving DEF RDataAccept, Takes, Kinds, TakeStream
<1>23. CASE REof
  BY <1>3, <1>9, <1>23, Leaving DEF REof
<1>24. CASE RWriteFails
  BY <1>3, <1>9, <1>24, Leaving DEF RWriteFails
<1> QED BY <1>10, <1>11, <1>12, <1>13, <1>14, <1>15, <1>16, <1>17, <1>18, <1>19, <1>20, <1>21,
           <1>22, <1>23, <1>24 DEF Receiver

\* A step of the receiver is one that Service allows it, or is not seen.
LEMMA ReceiverKeeps ==
    ASSUME SessionInv, SessionInv', Receiver
    PROVE  Kept!Next \/ UNCHANGED Kept!vars
<1>0. Typed /\ Worded /\ Agreed /\ Talking /\ Owned /\ Typed' /\ Worded' /\ Agreed'
  BY DEF SessionInv
<1>1. ReceiverMoves
  BY <1>0, ReceiverShape
<1>2. UNCHANGED <<rcv, cfg, cpc>>
  BY <1>1 DEF ReceiverMoves
<1>3. /\ cur \in Clients \/ cur = NoClient
      /\ cur' \in Clients \/ cur' = NoClient
      /\ cur = NoClient <=> rpc \in {"accept", "ok", "err"}
      /\ NoClient \notin Clients /\ DOMAIN toC = Clients
      /\ got \in Nat
  BY <1>0, ClientsAssumption DEF Typed
<1>4. \A d \in Clients : d # cur => toC'[d] = toC[d]
  BY <1>1, <1>3 DEF ReceiverMoves, Writes
<1>5. \A d \in Clients : /\ LetIn(d) <=> ReceiverReady(d) \/ ClientReady(d) \/ Has(toC[d], Welcome)
                         /\ Confirmed(d) <=> cpc[d] = "data" \/ Has(toC[d], Go)
                         /\ ReceiverReady(d) <=> Serving = d
  BY <1>0, <1>3, HasFacts DEF ReceiverReady, Serving
<1>6. \A d \in Clients : /\ LetIn(d)' <=> ReceiverReady(d)' \/ ClientReady(d)' \/ Has(toC'[d], Welcome)
                         /\ Confirmed(d)' <=> cpc'[d] = "data" \/ Has(toC'[d], Go)
                         /\ ReceiverReady(d)' <=> Serving' = d
  <2>1. \A d \in Clients : ReceiverReady(d)' <=> Serving' = d
    BY <1>3 DEF ReceiverReady, Serving
  <2> QED BY <1>0, <2>1, HasFactsNext
<1>7. \A d : /\ Place(d)' = Place(d)
             /\ Gone(d)' <=> Gone(d)
             /\ ClientReady(d)' <=> ClientReady(d)
  BY <1>2 DEF Place, Gone, ClientReady
\* A client that the receiver serves neither before nor after the step, and to
\* which it says nothing, sees nothing of it.
<1>8. ASSUME NEW d \in Clients,
             (Serving' = d) <=> (Serving = d),
             Has(toC'[d], Welcome) <=> Has(toC[d], Welcome),
             Has(toC'[d], Go) <=> Has(toC[d], Go)
      PROVE  Seen(d)
  BY <1>2, <1>5, <1>6, <1>7, <1>8 DEF Seen, Inv, Conf
<1>9. CASE Unseen
  <2>1. \A d \in Clients : Seen(d)
    BY <1>3, <1>4, <1>8, <1>9 DEF Unseen, Quiet, SameTold
  <2>2. CASE cur \in Clients
    BY <1>2, <1>9, <2>1, <2>2, KeptSteps DEF Unseen
  <2>3. CASE \E c \in Clients : TRUE
    <3>1. PICK c \in Clients : TRUE
      BY <2>3
    <3> QED BY <1>2, <1>9, <2>1, <3>1, KeptSteps DEF Unseen
  <2>4. CASE Clients = {}
    <3>1. UNCHANGED <<Admissible, Content>>
      BY <2>4 DEF Admissible, Content
    <3> QED BY <1>9, <2>4, <3>1 DEF Unseen, Kept!vars
  <2> QED BY <2>3, <2>4
\* The receiver and the client it serves, while it does.
<1>10. cur \in Clients => Scripted(cur, rpc)
  BY <1>0, InScript
<1>11. /\ Serving # NoClient => Serving = cur /\ cur \in Clients
       /\ rpc # "dataaccept" => Taken = 0
       /\ rpc' # "dataaccept" => Taken' = 0
       /\ rpc = "dataaccept" => Taken = got
       /\ rpc' = "dataaccept" => Taken' = got'
  BY <1>3 DEF Serving, Taken
<1>12. CASE Over
  <2>0. PICK c \in Clients : c = cur
    BY <1>11, <1>12 DEF Over
  <2>1. c = cur /\ Serving = c /\ Serving' = NoClient
    BY <1>11, <1>12, <2>0 DEF Over
  <2>2. rpc' # "dataaccept"
    BY <1>0, <2>1 DEF Serving, Typed
  <2>3. Gone(c) \/ ClientReady(c)
    <3>1. rpc \in {"serve", "testaccept", "index", "dataaccept"}
      BY <1>3, <2>1 DEF Serving
    <3>2. CASE rpc # "serve"
      <4>1. cpc[c] \in Ended \cup After \cup {"data"}
        BY <1>10, <2>1, <3>1, <3>2, ScriptServes DEF Scripted
      <4> QED BY <1>0, <2>1, <4>1, WhereSeen
    <3> QED BY <1>12, <2>1, <3>2 DEF Over
  <2>4. SameTold(c)
    BY <1>12, <2>1 DEF Over, Quiet, SameTold
  <2>5. Seen(c)
    <3>1. Confirmed(c)' <=> Confirmed(c)
      BY <1>2, <1>5, <1>6, <2>4 DEF SameTold
    <3>2. CASE Gone(c)
      BY <1>7, <3>2 DEF Seen, Inv, Conf
    <3>3. CASE ClientReady(c)
      <4>1. LetIn(c) /\ LetIn(c)'
        BY <1>5, <1>6, <1>7, <3>3
      <4> QED BY <1>7, <3>1, <4>1 DEF Seen, Inv, Conf
    <3> QED BY <2>3, <3>2, <3>3
  <2>6. \A d \in Clients : d # c => Seen(d)
    BY <1>3, <1>4, <1>8, <2>1
  <2> QED BY <1>2, <1>11, <2>1, <2>2, <2>5, <2>6, KeptSteps DEF Kept!Next
<1>13. ASSUME NEW c \in Clients, c = cur, Admits PROVE Kept!Next
  <2>1. /\ Serving = NoClient /\ Serving' = c /\ Taken = 0 /\ Taken' = 0
        /\ rpc \in {"auth", "response", "code"}
    BY <1>11, <1>13 DEF Admits, Serving
  <2>2. ~LetIn(c) /\ (Gone(c) \/ Place(c) = "outside")
    BY <1>13, <2>1, NotLetIn
  <2>3. Place(c) \in {"outside", "gone"} /\ ~Inv(c)
    BY <2>2 DEF Place, Inv
  <2>4. c \in Admissible
    <3>1. AgreedWith(c)' /\ ReceiverReady(c)' /\ cur' = cur /\ rpc' # "hello"
      BY <1>0, <1>6, <1>13, <2>1 DEF Agreed, AgreedWith, Admits
    <3> QED BY <1>2, <1>13, <3>1 DEF AgreedWith, Greeted, Admissible, Suits, PairingRequired
  <2>5. (Inv(c)' <=> ~Gone(c)) /\ (Conf(c)' <=> Conf(c))
    BY <1>2, <1>5, <1>6, <1>7, <1>13, <2>1 DEF Inv, Conf, Admits
  <2>6. \A d \in Clients : d # c => Seen(d)
    BY <1>3, <1>4, <1>8, <1>13, <2>1
  <2>7. Kept!Admit(c)
    BY <1>2, <1>7, <1>13, <2>1, <2>3, <2>4, <2>5, <2>6, KeptSteps
  <2> QED BY <1>13, <2>7 DEF Kept!Next
<1>14. ASSUME NEW c \in Clients, c = cur, Confirms PROVE Kept!Next
  <2>1. Serving = c /\ Serving' = c /\ Taken' = 0
    BY <1>11, <1>14 DEF Confirms, Serving
  <2>2. /\ cpc[c] \in Ended \cup After \cup {"data"}
        /\ cpc[c] # "data" /\ TypesOf(toC[c]) = None
    BY <1>10, <1>14, ScriptServes DEF Scripted, Confirms
  <2>3. Place(c) \in {"inside", "gone"}
    BY <1>0, <1>14, <2>2, WhereSeen
  <2>4. ~Has(toC[c], Go)
    <3>1. toC[c] = <<>>
      <4>1. toC[c] \in Seq(Told(c))
        BY <1>0, <1>14 DEF Worded
      <4> QED BY <2>2, <4>1, TypesOfSeq DEF None
    <3> QED BY <3>1, HasOf
  <2>5. /\ ~Conf(c) /\ (Conf(c)' <=> ~Gone(c))
        /\ Inv(c)' <=> Inv(c)
    BY <1>5, <1>6, <1>7, <1>14, <2>1, <2>2, <2>4 DEF Conf, Inv, Confirms
  <2>6. \A d \in Clients : d # c => Seen(d)
    BY <1>3, <1>4, <1>8, <1>14, <2>1
  <2>7. Kept!Confirm(c)
    BY <1>2, <1>7, <1>14, <2>1, <2>3, <2>5, <2>6, KeptSteps
  <2> QED BY <1>14, <2>7 DEF Kept!Next
<1>15. ASSUME NEW c \in Clients, c = cur, Takes PROVE Kept!Next
  <2>1. Serving = c /\ Serving' = c /\ Taken = got /\ Taken' = got + 1
    BY <1>11, <1>15 DEF Takes, Serving
  <2>2. \A d \in Clients : Seen(d)
    BY <1>3, <1>8, <1>15, <2>1 DEF Takes
  <2>3. got < NumStreams /\ cpc[c] \in Ended \cup {"data"}
    <3>1. backlog \in Seq(Conns) /\ backlog # <<>> /\ Head(backlog).kind = "data"
      BY <1>0, <1>15 DEF Typed, Takes
    <3>2. 1 \in DataIn(backlog)
      BY <3>1, DataInTail
    <3>3. Cardinality(DataIn(backlog)) \in Nat /\ Cardinality(DataIn(backlog)) # 0
      BY <3>1, <3>2, DataInFacts
    <3>4. want <= NumStreams /\ NumStreams \in Nat /\ want \in Nat /\ got \in Nat
      BY <1>0, <1>15, CountsAssumption DEF Owned, Typed, Takes
    <3>5. cpc[cur] \notin Ended \cup {"data"} => got + Cardinality(DataIn(backlog)) = 0
      BY <1>0, <1>15 DEF Owned, Takes
    <3> QED BY <1>15, <3>3, <3>4, <3>5 DEF Takes
  <2>4. Place(c) \in {"sending", "gone"}
    BY <1>0, <1>15, <2>3, WhereSeen
  <2>5. Kept!Take(c)
    BY <1>2, <1>15, <2>1, <2>2, <2>3, <2>4, KeptSteps
  <2> QED BY <1>15, <2>5 DEF Kept!Next
<1> QED BY <1>0, <1>9, <1>12, <1>13, <1>14, <1>15, ReceiverGoesOn

\* The loop of run_receiver serves one client at a time, and each as Service
\* says: nobody goes on who was not admitted, whose index was not confirmed or
\* whose streams those are not (receiver.rs:245-637, sender.rs:495-719).
THEOREM SessionKeepsService == Spec => OneAtATime
<1>1. Init => Kept!Init
  <2> SUFFICES ASSUME Init PROVE Kept!Init
    OBVIOUS
  <2>1. \A c \in Clients : cpc[c] = "start" /\ toC[c] = <<>>
    BY DEF Init
  <2>2. \A c \in Clients : ~Gone(c) /\ ~ClientReady(c) /\ ~ReceiverReady(c)
    BY <2>1 DEF Gone, ClientReady, ReceiverReady, Init
  <2>3. \A c \in Clients : ~LetIn(c) /\ ~Confirmed(c) /\ Place(c) = "outside"
    <3>0. DOMAIN <<>> = {}
      OBVIOUS
    <3>1. \A c \in Clients : DOMAIN toC[c] = {}
      BY <2>1, <3>0, Zenon
    <3>2. \A c \in Clients : ~LetIn(c)
      BY <2>2, <3>1, Zenon DEF LetIn
    <3>3. \A c \in Clients : cpc[c] # "data"
      BY <2>1
    <3>4. \A c \in Clients : ~Confirmed(c)
      BY <3>1, <3>3, Zenon DEF Confirmed
    <3>5. \A c \in Clients : Place(c) = "outside"
      BY <2>2, <3>3 DEF Place
    <3> QED BY <3>2, <3>4, <3>5
  <2>4. Serving = NoClient /\ Taken = 0
    BY DEF Init, Serving, Taken
  <2>5. Admissible \in SUBSET Clients /\ Content \in SUBSET Admissible
    BY DEF Admissible, Content
  <2> QED BY <2>3, <2>4, <2>5 DEF Kept!Init
<1>2. SessionInv /\ SessionInv' /\ [Next]_vars => [Kept!Next]_(Kept!vars)
  <2> SUFFICES ASSUME SessionInv, SessionInv', [Next]_vars PROVE Kept!Next \/ UNCHANGED Kept!vars
    OBVIOUS
  <2>1. CASE Receiver
    BY <2>1, ReceiverKeeps
  <2>2. ASSUME NEW c \in Clients, Client(c) \/ Finish(c) \/ CDies(c)
        PROVE  Kept!Next \/ UNCHANGED Kept!vars
    BY <2>2, ClientKeeps
  <2>3. CASE UNCHANGED vars
    <3>1. UNCHANGED <<rcv, rpc, cur, got, cfg, cpc, toC>>
      BY <2>3
    <3>2. UNCHANGED <<Admissible, Content, Serving, Taken>>
      BY <3>1 DEF Admissible, Content, Suits, PairingRequired, Serving, Taken
    <3>3. \A c : Place(c)' = Place(c) /\ (Gone(c)' <=> Gone(c))
      BY <3>1 DEF Place, Gone, ClientReady
    <3>4. \A c : (LetIn(c)' <=> LetIn(c)) /\ (Confirmed(c)' <=> Confirmed(c))
      BY <3>1 DEF LetIn, Confirmed, ReceiverReady, ClientReady, Welcome
    <3> QED BY <3>2, <3>3, <3>4 DEF Kept!vars
  <2> QED BY <2>1, <2>2, <2>3 DEF Next
<1> QED BY <1>1, <1>2, SessionInvAlways, PTL DEF Spec, OneAtATime, Kept!Spec
==============================================================================
