---------------------------- MODULE TransferProofs ----------------------------
(***************************************************************************)
(* Sender and receiver stay in step on every data stream, for any number    *)
(* of files, streams, sessions, edits and faults.  Neither TypeOK nor        *)
(* StreamsInStep is inductive.  That a block is a block and not a checksum   *)
(* is known only from its position on the stream, so the types need the      *)
(* step; and the step needs all of what is on the stream to be chained from  *)
(* the receiver's position to the sender's (Chained), both to have begun     *)
(* with the same bucket (Fresh), and that with the same list (OneSession).   *)
(***************************************************************************)
EXTENDS Transfer, SequenceTheorems, TLAPS

------------------------------------------------------------------------------
(* The inductive invariant.                                                  *)

\* What is empty outside of a session.
Idle ==
    /\ rst # "prep" => prep = {}
    /\ rst # "stream" => \A s \in Streams : rleft[s] = {} /\ rpc[s] = "open" /\ rbuf[s] = <<>>
    /\ sst \notin {"stream", "ok"} => \A s \in Streams : sleft[s] = {}
    /\ sst # "stream" => \A s \in Streams : spc[s] # "run"
    /\ sst \notin {"list", "stream", "ok"} => slist = None

\* The transfer list that the sender has, or makes of the requests, is the
\* receiver's.  A receiver in a session has at most the sender that began it;
\* the threads of one that has returned may still have that sender's streams.
OneSession ==
    /\ sst = "sent" /\ "list" \in ctl => DOMAIN reqs \subseteq DOMAIN index
    /\ link = "up" =>
          /\ ~dry /\ rst \in {"prep", "stream"} /\ sst \in {"sent", "list", "stream"}
          /\ sst = "sent" => rlist = [i \in DOMAIN reqs |-> Requested(i)]
          /\ sst = "list" => slist = rlist
          /\ sst = "stream" => slist = rlist /\ rst = "stream"
    /\ link = "cut" /\ rst \in {"prep", "stream"} => sst \in {"off", "scan", "ok"}
    /\ rst = "prep" => link # "none"
    /\ Returned => ctl = {} /\ (sst = "stream" => slist = rlist)
    /\ "ok" \in ctl => rst = "stream" /\ sst # "stream"

\* A stream that is not connected has not moved at either side.
Fresh(s) ==
    /\ rst = "stream" /\ conn[s] = "none" =>
          /\ chan[s] = <<>> /\ rbuf[s] = <<>> /\ rleft[s] = Work(rlist, s)
          /\ rpc[s] = "wait" \/ (rpc[s] = "open" /\ rleft[s] = {}) \/ (rpc[s] = "err" /\ Returned)
    /\ sst = "stream" /\ link = "up" /\ spc[s] = "new" =>
          conn[s] = "none" /\ sleft[s] = Work(slist, s) /\ sbuf[s] = <<>>
    /\ "ok" \in ctl => conn[s] = "none"
    /\ conn[s] = "open" => (link = "up" \/ Returned) /\ sst = "stream" /\ spc[s] = "run"

\* A position on a stream: the files left, and the blocks done of the first.
\* The receiver's: a file verified is behind it, renamed or not.
ReceiverAt(s, left, n) ==
    IF rpc[s] \in {"rename", "stamp"}
    THEN n = 0 /\ \E i \in rleft[s] : IsNext(rlist, rleft[s], i) /\ left = rleft[s] \ {i}
    ELSE left = rleft[s] /\ n = Len(rbuf[s])

\* What is at its position: a block of the file, or the sum after the last one.
InPlace(m) ==
    \E i \in m.left :
        /\ IsNext(rlist, m.left, i)
        /\ m.n <= TransferSize(rlist[i])
        /\ m.kind = "sum" <=> m.n = TransferSize(rlist[i])

\* The position after m.
After(m, left, n) ==
    IF m.kind = "block"
    THEN left = m.left /\ n = m.n + 1
    ELSE n = 0 /\ \E i \in m.left : IsNext(rlist, m.left, i) /\ left = m.left \ {i}

Chained(s) ==
    rst = "stream" /\ rpc[s] # "err" =>
        /\ \A k \in 1..Len(chan[s]) : InPlace(chan[s][k])
        /\ chan[s] # <<>> => ReceiverAt(s, chan[s][1].left, chan[s][1].n)
        /\ \A k \in 1..(Len(chan[s]) - 1) :
              After(chan[s][k], chan[s][k + 1].left, chan[s][k + 1].n)
        /\ conn[s] = "open" =>
              IF chan[s] = <<>>
              THEN ReceiverAt(s, sleft[s], Len(sbuf[s]))
              ELSE After(chan[s][Len(chan[s])], sleft[s], Len(sbuf[s]))

\* The inductive invariant: the types, and what keeps the streams in step.
Inv ==
    /\ TypeOK /\ Idle /\ OneSession
    /\ \A s \in Streams : Fresh(s) /\ Chained(s)

------------------------------------------------------------------------------
(* Lemmas.                                                                   *)

USE DEF srcVars, sndMain, sndThreads, sndVars, rcvMain, rcvThreads, rcvVars,
        ctlVars, dataVars, netVars, Returned

\* The bound of the faults.
LEMMA SpendType == ASSUME TypeOK, Spend PROVE faults' \in 0..MaxFaults
BY ContentsAssumption DEF Spend, TypeOK

\* What a step must leave alone for stream s to stay chained.
LEMMA ChainedSame ==
    ASSUME NEW s \in Streams, Chained(s), rst' = rst, rlist' = rlist,
           rpc'[s] = rpc[s], rleft'[s] = rleft[s], rbuf'[s] = rbuf[s], chan'[s] = chan[s],
           conn'[s] = "open" =>
               conn[s] = "open" /\ sleft'[s] = sleft[s] /\ sbuf'[s] = sbuf[s]
    PROVE  Chained(s)'
BY DEF Chained, InPlace, ReceiverAt, After

\* What it must leave alone for a fresh stream s to stay so.
LEMMA FreshSame ==
    ASSUME NEW s \in Streams, Fresh(s), rst' = rst, rlist' = rlist, slist' = slist,
           ctl' = ctl, sst' = sst, link' = link,
           rpc'[s] = rpc[s], rleft'[s] = rleft[s], rbuf'[s] = rbuf[s], chan'[s] = chan[s],
           conn'[s] = conn[s], sleft'[s] = sleft[s], sbuf'[s] = sbuf[s], spc'[s] = spc[s]
    PROVE  Fresh(s)'
BY DEF Fresh

\* Positions of the receiver's list have a size.
LEMMA ListSize ==
    ASSUME TypeOK, NEW i \in DOMAIN rlist
    PROVE  i \in Nat /\ rlist[i] \in Entries /\ TransferSize(rlist[i]) \in Nat
BY DEF TypeOK, ReceiverTypeOK, Entries, TransferSize

\* The order of a bucket is total: no two files are next.
LEMMA NextUnique ==
    ASSUME TypeOK, NEW S \in SUBSET DOMAIN rlist, NEW i, NEW j,
           IsNext(rlist, S, i), IsNext(rlist, S, j)
    PROVE  i = j
<1> SUFFICES ASSUME i # j PROVE FALSE
    OBVIOUS
<1>1. Before(rlist, i, j) /\ Before(rlist, j, i) /\ i \in DOMAIN rlist /\ j \in DOMAIN rlist
    BY DEF IsNext
<1>2. QED BY <1>1, ListSize DEF Before

\* What leaving the session does to the types.
LEMMA LeaveTypes ==
    ASSUME TypeOK, NEW st \in {"off", "ok"}, ReceiverLeaves(st), rlist' \in {rlist, None}
    PROVE  ReceiverTypeOK' /\ NetTypeOK' /\ HandlesClosed \in [Names -> Files]
<1> USE DEF TypeOK, ReceiverLeaves
<1>1. ReceiverTypeOK'
  <2>1. rlist' \in [DOMAIN rlist' -> Entries] /\ DOMAIN rlist' \subseteq Nat
      BY DEF ReceiverTypeOK, None
  <2>2. rbuf' \in [Streams -> Seq(Block)] BY EmptySeq
  <2>3. QED BY <2>1, <2>2 DEF ReceiverTypeOK
<1>2. NetTypeOK'
  <2>1. chan' \in [Streams -> Seq(Blocks \cup Sums)] /\ \A s \in Streams : Len(chan'[s]) <= Cap
      BY EmptySeq, StreamsAssumption
  <2>2. conn' \in [Streams -> {"none", "open", "closed", "reset"}]
      BY DEF NetTypeOK
  <2>3. QED BY <2>1, <2>2 DEF NetTypeOK, None
<1>3. HandlesClosed \in [Names -> Files]
  <2>1. ASSUME NEW n \in Names PROVE [disk[n] EXCEPT !.w = NoStream] \in Files
    <3>1. disk[n] \in Files BY DEF DiskTypeOK
    <3>2. NoStream \in 0..NumStreams BY StreamsAssumption DEF NoStream
    <3>3. QED BY <3>1, <3>2 DEF Files
  <2>2. QED BY <2>1 DEF HandlesClosed
<1>4. QED BY <1>1, <1>2, <1>3

\* ... and to the streams.
LEMMA LeaveStreams ==
    ASSUME Inv, NEW st \in {"off", "ok"}, ReceiverLeaves(st), NEW t \in Streams
    PROVE  Fresh(t)' /\ Chained(t)'
BY DEF Inv, TypeOK, NetTypeOK, ReceiverLeaves, Fresh, Chained

------------------------------------------------------------------------------
(* The source, and the sender's main thread.                                 *)

\* An edit changes only the source, whose contents stay sequences of blocks.
LEMMA EditStep ==
    ASSUME Inv, NEW p \in Paths, Edit(p)
    PROVE  Inv'
<1> USE DEF Inv, Edit
<1>1. TypeOK'
  <2>1. SourceTypeOK'
    <3>0. src[p].mtime \in Nat /\ edits \in Nat
        BY ContentsAssumption DEF TypeOK, SourceTypeOK
    <3>1. PICK c \in Contents, t \in Nat : src' = [src EXCEPT ![p] = [data |-> c, mtime |-> t]]
      <4>1. \A t \in {edits + 2} \cup (IF SameSecond THEN {src[p].mtime} ELSE {}) : t \in Nat
          BY <3>0
      <4>2. QED BY <4>1
    <3>2. c \in Seq(Block) BY ContentsAssumption
    <3>3. src' \in [Paths -> [data : Seq(Block), mtime : Nat]]
        BY <3>1, <3>2 DEF TypeOK, SourceTypeOK
    <3>4. edits' \in 0..MaxEdits BY <3>0, ContentsAssumption
    <3>5. QED BY <3>3, <3>4 DEF SourceTypeOK
  <2>2. QED BY <2>1 DEF TypeOK, SenderTypeOK, ReceiverTypeOK, NetTypeOK, DiskTypeOK
<1>2. Idle'
    BY DEF Idle
<1>3. OneSession'
    BY DEF OneSession, Requested
<1>4. ASSUME NEW t \in Streams
      PROVE  Fresh(t)' /\ Chained(t)'
    BY ChainedSame, FreshSame DEF Fresh
<1>5. QED BY <1>1, <1>2, <1>3, <1>4

\* A sender is launched when none runs, so no stream of it is connected.
LEMMA LaunchStep ==
    ASSUME Inv, Launch
    PROVE  Inv'
<1> USE DEF Inv, Launch
<1>1. TypeOK'
    BY ContentsAssumption DEF TypeOK, SourceTypeOK, SenderTypeOK, ReceiverTypeOK,
       NetTypeOK, DiskTypeOK, None
<1>2. Idle'
    BY DEF Idle
<1>3. OneSession'
    BY DEF OneSession, Requested
<1>4. ASSUME NEW t \in Streams
      PROVE  Fresh(t)' /\ Chained(t)'
    BY ChainedSame, FreshSame DEF Fresh, OneSession, Chained
<1>5. QED BY <1>1, <1>2, <1>3, <1>4

\* The scan comes before the session: no list and no stream depends on it.
LEMMA ScanStatStep ==
    ASSUME Inv, NEW p \in Paths, ScanStat(p)
    PROVE  Inv'
<1> USE DEF Inv, ScanStat
<1>1. TypeOK'
    BY DEF TypeOK, SourceTypeOK, SenderTypeOK, ReceiverTypeOK,
       NetTypeOK, DiskTypeOK
<1>2. Idle'
    BY DEF Idle
<1>3. OneSession'
    BY DEF OneSession, Requested
<1>4. ASSUME NEW t \in Streams
      PROVE  Fresh(t)' /\ Chained(t)'
    BY ChainedSame, FreshSame DEF Fresh
<1>5. QED BY <1>1, <1>2, <1>3, <1>4

\* The index grows while the sender has no transfer list yet.
LEMMA ScanCrcStep ==
    ASSUME Inv, NEW p \in Paths, ScanCrc(p)
    PROVE  Inv'
<1> USE DEF Inv, ScanCrc
<1>1. TypeOK'
  <2>1. SenderTypeOK'
    <3> DEFINE e == [path |-> p, size |-> stat[p].size, modified |-> stat[p].modified,
                     crc |-> src[p].data, offset |-> 0]
    <3>1. e \in Entries
        BY DEF TypeOK, SourceTypeOK, SenderTypeOK, Entries
    <3>2. index' \in Seq(Entries) /\ DOMAIN slist' = {}
        BY <3>1, AppendProperties DEF TypeOK, SenderTypeOK, Idle, None
    <3>3. QED BY <3>2 DEF TypeOK, SenderTypeOK
  <2>2. QED BY <2>1 DEF TypeOK, SourceTypeOK, ReceiverTypeOK, NetTypeOK, DiskTypeOK
<1>2. Idle'
    BY DEF Idle
<1>3. OneSession'
    BY DEF OneSession, Requested
<1>4. ASSUME NEW t \in Streams
      PROVE  Fresh(t)' /\ Chained(t)'
    BY ChainedSame, FreshSame DEF Fresh
<1>5. QED BY <1>1, <1>2, <1>3, <1>4

\* A file left out of the index is in no list.
LEMMA ScanSkipStep ==
    ASSUME Inv, NEW p \in Paths, ScanSkip(p)
    PROVE  Inv'
<1> USE DEF Inv, ScanSkip
<1>1. TypeOK'
    BY SpendType DEF TypeOK, SourceTypeOK, SenderTypeOK, ReceiverTypeOK,
       NetTypeOK, DiskTypeOK
<1>2. Idle'
    BY DEF Idle
<1>3. OneSession'
    BY DEF OneSession, Requested
<1>4. ASSUME NEW t \in Streams
      PROVE  Fresh(t)' /\ Chained(t)'
    BY ChainedSame, FreshSame DEF Fresh
<1>5. QED BY <1>1, <1>2, <1>3, <1>4

\* A refused sender has no session to cut.
LEMMA ConnectRefusedStep ==
    ASSUME Inv, ConnectRefused
    PROVE  Inv'
<1> USE DEF Inv, ConnectRefused, SenderGone, Scanned
<1>1. TypeOK'
    BY DEF TypeOK, SourceTypeOK, SenderTypeOK, ReceiverTypeOK,
       NetTypeOK, DiskTypeOK, None
<1>2. Idle'
    BY DEF Idle
<1>3. OneSession'
    BY DEF OneSession, Requested
<1>4. ASSUME NEW t \in Streams
      PROVE  Fresh(t)' /\ Chained(t)'
    BY ChainedSame, FreshSame DEF Fresh, OneSession, Chained
<1>5. QED BY <1>1, <1>2, <1>3, <1>4

\* The requests applied to the index are the receiver's list.
LEMMA RecvListStep ==
    ASSUME Inv, RecvList
    PROVE  Inv'
<1> USE DEF Inv, RecvList
<1>1. TypeOK'
  <2>1. SenderTypeOK'
    <3>1. DOMAIN slist' = DOMAIN reqs /\ DOMAIN reqs \subseteq DOMAIN index
        BY DEF OneSession
    <3>2. ASSUME NEW i \in DOMAIN reqs PROVE slist'[i] \in Entries
      <4>1. index[i] \in Entries /\ reqs[i] \in Nat
          BY <3>1, ElementOfSeq, LenProperties DEF TypeOK, SenderTypeOK, NetTypeOK
      <4>2. QED BY <4>1 DEF Requested, Entries
    <3>3. \A s \in Streams : sleft[s] = {} BY DEF Idle
    <3>4. QED BY <3>1, <3>2, <3>3 DEF TypeOK, SenderTypeOK
  <2>2. QED BY <2>1 DEF TypeOK, SourceTypeOK, ReceiverTypeOK, NetTypeOK, DiskTypeOK
<1>2. Idle'
    BY DEF Idle
<1>3. OneSession'
    BY DEF OneSession, Requested
<1>4. ASSUME NEW t \in Streams
      PROVE  Fresh(t)' /\ Chained(t)'
    BY ChainedSame, FreshSame DEF Fresh
<1>5. QED BY <1>1, <1>2, <1>3, <1>4

\* After the confirmation both ends start from the same buckets.
LEMMA RecvConfirmStep ==
    ASSUME Inv, RecvConfirm
    PROVE  Inv'
<1> USE DEF Inv, RecvConfirm
<1>1. TypeOK'
    BY DEF TypeOK, SourceTypeOK, SenderTypeOK, ReceiverTypeOK,
       NetTypeOK, DiskTypeOK, Work, Bucket, Idle
<1>2. Idle'
    BY DEF Idle
<1>3. OneSession'
    BY DEF OneSession, Requested
<1>4. ASSUME NEW t \in Streams
      PROVE  Fresh(t)' /\ Chained(t)'
    BY ChainedSame, FreshSame DEF Fresh, OneSession, Chained
<1>5. QED BY <1>1, <1>2, <1>3, <1>4

\* The control connection is lost before a stream is connected.
LEMMA ControlLostStep ==
    ASSUME Inv, ControlLost
    PROVE  Inv'
<1> USE DEF Inv, ControlLost, SenderGone
<1>1. TypeOK'
    BY DEF TypeOK, SourceTypeOK, SenderTypeOK, ReceiverTypeOK,
       NetTypeOK, DiskTypeOK, None
<1>2. Idle'
    BY DEF Idle
<1>3. OneSession'
    BY DEF OneSession, Requested
<1>4. ASSUME NEW t \in Streams
      PROVE  Fresh(t)' /\ Chained(t)'
    BY ChainedSame, FreshSame DEF Fresh, OneSession, Chained
<1>5. QED BY <1>1, <1>2, <1>3, <1>4

\* A sender that has joined its threads has closed its streams.
LEMMA JoinSenderStep ==
    ASSUME Inv, JoinSender
    PROVE  Inv'
<1> USE DEF Inv, JoinSender, SenderGone
<1>1. TypeOK'
  <2>1. SenderTypeOK'
    <3>1. CASE \E s \in Streams : spc[s] = "err"
      <4>1. SenderGone BY <3>1
      <4>2. QED BY <4>1, EmptySeq DEF TypeOK, SenderTypeOK, None
    <3>2. CASE ~(\E s \in Streams : spc[s] = "err")
        BY <3>2 DEF TypeOK, SenderTypeOK
    <3>3. QED BY <3>1, <3>2
  <2>2. QED BY <2>1 DEF TypeOK, SourceTypeOK, ReceiverTypeOK, NetTypeOK, DiskTypeOK
<1>2. Idle'
    BY DEF Idle
<1>3. OneSession'
    BY DEF OneSession, Requested
<1>4. ASSUME NEW t \in Streams
      PROVE  Fresh(t)' /\ Chained(t)'
    BY ChainedSame, FreshSame DEF Fresh, OneSession, Chained
<1>5. QED BY <1>1, <1>2, <1>3, <1>4

\* A crash closes the streams; what was on them is delivered or gone.
LEMMA SenderCrashStep ==
    ASSUME Inv, SenderCrash
    PROVE  Inv'
<1> USE DEF Inv, SenderCrash, SenderGone
<1>1. TypeOK'
  <2>1. SenderTypeOK'
    BY DEF TypeOK, SenderTypeOK, None
  <2>2. NetTypeOK'
    BY StreamsAssumption, EmptySeq DEF TypeOK, NetTypeOK
  <2>3. QED BY <2>1, <2>2, SpendType DEF TypeOK, SourceTypeOK, ReceiverTypeOK, DiskTypeOK
<1>2. Idle'
    BY DEF Idle
<1>3. OneSession'
    BY DEF OneSession, Requested
<1>4. ASSUME NEW t \in Streams
      PROVE  Fresh(t)' /\ Chained(t)'
    BY ChainedSame, FreshSame DEF Fresh, OneSession, Chained
<1>5. QED BY <1>1, <1>2, <1>3, <1>4

------------------------------------------------------------------------------
(* The streams' connections, and their ends.                                 *)

\* A stream connects when both ends are at the start of its bucket.
LEMMA ConnectStep ==
    ASSUME Inv, NEW s \in Streams, Connect(s)
    PROVE  Inv'
<1> USE DEF Inv, Connect
<1>1. TypeOK'
    BY DEF TypeOK, SourceTypeOK, SenderTypeOK, ReceiverTypeOK,
       NetTypeOK, DiskTypeOK
<1>2. Idle'
    BY DEF Idle
<1>3. OneSession'
    BY DEF OneSession, Requested
<1>4. ASSUME NEW t \in Streams
      PROVE  Fresh(t)' /\ Chained(t)'
  <2>1. CASE t = s
    <3>1. /\ rst = "stream" /\ slist = rlist /\ conn[s] = "none" /\ chan[s] = <<>>
          /\ rpc[s] \in {"wait", "open"} /\ sleft[s] = rleft[s] /\ rbuf[s] = sbuf[s]
        BY DEF OneSession, Fresh
    <3>2. conn'[s] = "open" /\ spc'[s] = "run"
        BY DEF TypeOK, SenderTypeOK, NetTypeOK
    <3>3. Fresh(s)' BY <3>1, <3>2 DEF Fresh, OneSession
    <3>4. Chained(s)'
        BY <3>1, <3>2 DEF Chained, ReceiverAt
    <3>5. QED BY <2>1, <3>3, <3>4
  <2>2. CASE t # s
    BY <2>2, ChainedSame, FreshSame DEF TypeOK, SenderTypeOK, NetTypeOK
  <2>3. QED BY <2>1, <2>2
<1>5. QED BY <1>1, <1>2, <1>3, <1>4

\* A connection made too late is no data stream of any session.
LEMMA ConnectLateStep ==
    ASSUME Inv, NEW s \in Streams, ConnectLate(s)
    PROVE  Inv'
<1> USE DEF Inv, ConnectLate
<1>1. TypeOK'
    BY DEF TypeOK, SourceTypeOK, SenderTypeOK, ReceiverTypeOK,
       NetTypeOK, DiskTypeOK
<1>2. Idle'
    BY DEF Idle
<1>3. OneSession'
    BY DEF OneSession, Requested
<1>4. ASSUME NEW t \in Streams
      PROVE  Fresh(t)' /\ Chained(t)'
    BY ChainedSame, FreshSame DEF Fresh, OneSession, Chained
<1>5. QED BY <1>1, <1>2, <1>3, <1>4

\* A finished stream is closed; what is on it stays chained.
LEMMA FinishStreamStep ==
    ASSUME Inv, NEW s \in Streams, FinishStream(s)
    PROVE  Inv'
<1> USE DEF Inv, FinishStream
<1>1. TypeOK'
    BY DEF TypeOK, SourceTypeOK, SenderTypeOK, ReceiverTypeOK,
       NetTypeOK, DiskTypeOK
<1>2. Idle'
    BY DEF Idle
<1>3. OneSession'
    BY DEF OneSession, Requested
<1>4. ASSUME NEW t \in Streams
      PROVE  Fresh(t)' /\ Chained(t)'
  <2>1. CASE t = s
    BY <2>1, ChainedSame DEF Fresh, Idle, OneSession, TypeOK, SenderTypeOK, NetTypeOK
  <2>2. CASE t # s
    BY <2>2, ChainedSame, FreshSame DEF TypeOK, SenderTypeOK, NetTypeOK
  <2>3. QED BY <2>1, <2>2
<1>5. QED BY <1>1, <1>2, <1>3, <1>4

\* So is a stream whose file has become shorter.
LEMMA ReadShortStep ==
    ASSUME Inv, NEW s \in Streams, ReadShort(s)
    PROVE  Inv'
<1> USE DEF Inv, ReadShort, StreamFails
<1>1. TypeOK'
    BY DEF TypeOK, SourceTypeOK, SenderTypeOK, ReceiverTypeOK,
       NetTypeOK, DiskTypeOK
<1>2. Idle'
    BY DEF Idle
<1>3. OneSession'
    BY DEF OneSession, Requested
<1>4. ASSUME NEW t \in Streams
      PROVE  Fresh(t)' /\ Chained(t)'
  <2>1. CASE t = s
    BY <2>1 DEF Fresh, Chained, InPlace, After, ReceiverAt, TypeOK, SenderTypeOK, NetTypeOK
  <2>2. CASE t # s
    BY <2>2, ChainedSame, FreshSame DEF TypeOK, SenderTypeOK, NetTypeOK
  <2>3. QED BY <2>1, <2>2
<1>5. QED BY <1>1, <1>2, <1>3, <1>4

\* So is a stream that the receiver has reset.
LEMMA WriteFailsStep ==
    ASSUME Inv, NEW s \in Streams, WriteFails(s)
    PROVE  Inv'
<1> USE DEF Inv, WriteFails, StreamFails
<1>1. TypeOK'
    BY DEF TypeOK, SourceTypeOK, SenderTypeOK, ReceiverTypeOK,
       NetTypeOK, DiskTypeOK
<1>2. Idle'
    BY DEF Idle
<1>3. OneSession'
    BY DEF OneSession, Requested
<1>4. ASSUME NEW t \in Streams
      PROVE  Fresh(t)' /\ Chained(t)'
  <2>1. CASE t = s
    BY <2>1 DEF Fresh, Chained, InPlace, After, ReceiverAt, TypeOK, SenderTypeOK, NetTypeOK
  <2>2. CASE t # s
    BY <2>2, ChainedSame, FreshSame DEF TypeOK, SenderTypeOK, NetTypeOK
  <2>3. QED BY <2>1, <2>2
<1>5. QED BY <1>1, <1>2, <1>3, <1>4

\* So is a stream whose file cannot be read.
LEMMA StreamIoErrorStep ==
    ASSUME Inv, NEW s \in Streams, StreamIoError(s)
    PROVE  Inv'
<1> USE DEF Inv, StreamIoError, StreamFails, Spend
<1>1. TypeOK'
    BY SpendType DEF TypeOK, SourceTypeOK, SenderTypeOK, ReceiverTypeOK,
       NetTypeOK, DiskTypeOK
<1>2. Idle'
    BY DEF Idle
<1>3. OneSession'
    BY DEF OneSession, Requested
<1>4. ASSUME NEW t \in Streams
      PROVE  Fresh(t)' /\ Chained(t)'
  <2>1. CASE t = s
    BY <2>1 DEF Fresh, Chained, InPlace, After, ReceiverAt, TypeOK, SenderTypeOK, NetTypeOK
  <2>2. CASE t # s
    BY <2>2, ChainedSame, FreshSame DEF TypeOK, SenderTypeOK, NetTypeOK
  <2>3. QED BY <2>1, <2>2
<1>5. QED BY <1>1, <1>2, <1>3, <1>4

------------------------------------------------------------------------------
(* The receiver's main thread.                                               *)

\* A new receiver starts without a list.
LEMMA ListenStep ==
    ASSUME Inv, Listen
    PROVE  Inv'
<1> USE DEF Inv, Listen
<1>1. TypeOK'
    BY DEF TypeOK, SourceTypeOK, SenderTypeOK, ReceiverTypeOK,
       NetTypeOK, DiskTypeOK, None, Idle
<1>2. Idle'
    BY DEF Idle
<1>3. OneSession'
    BY DEF OneSession, Requested
<1>4. ASSUME NEW t \in Streams
      PROVE  Fresh(t)' /\ Chained(t)'
    BY ChainedSame, FreshSame DEF Fresh, OneSession, Chained
<1>5. QED BY <1>1, <1>2, <1>3, <1>4

\* The receiver leaves: no stream is chained to it any more.
LEMMA ConfirmFailsStep ==
    ASSUME Inv, ConfirmFails
    PROVE  Inv'
<1> USE DEF Inv, ConfirmFails
<1>1. TypeOK'
    BY LeaveTypes DEF TypeOK, SourceTypeOK, SenderTypeOK, DiskTypeOK
<1>2. Idle'
    BY DEF Idle, ReceiverLeaves
<1>3. OneSession'
    BY DEF OneSession, ReceiverLeaves
<1>4. ASSUME NEW t \in Streams
      PROVE  Fresh(t)' /\ Chained(t)'
    BY LeaveStreams
<1>5. QED BY <1>1, <1>2, <1>3, <1>4

\* It leaves when all its threads have been joined.
LEMMA JoinReceiverStep ==
    ASSUME Inv, JoinReceiver
    PROVE  Inv'
<1> USE DEF Inv, JoinReceiver
<1>1. TypeOK'
    BY LeaveTypes DEF TypeOK, SourceTypeOK, SenderTypeOK, DiskTypeOK
<1>2. Idle'
    BY DEF Idle, ReceiverLeaves
<1>3. OneSession'
    BY DEF OneSession, ReceiverLeaves
<1>4. ASSUME NEW t \in Streams
      PROVE  Fresh(t)' /\ Chained(t)'
    BY LeaveStreams
<1>5. QED BY <1>1, <1>2, <1>3, <1>4

\* An error in the accept loop keeps the types.
LEMMA LoopFailsTypes ==
    ASSUME TypeOK, AcceptLoopFails
    PROVE  ReceiverTypeOK' /\ NetTypeOK' /\ disk' = disk
<1> USE DEF TypeOK, AcceptLoopFails
<1>1. ReceiverTypeOK'
    BY DEF ReceiverTypeOK
<1>2. NetTypeOK'
  <2>1. chan' \in [Streams -> Seq(Blocks \cup Sums)] /\ \A s \in Streams : Len(chan'[s]) <= Cap
      BY EmptySeq, StreamsAssumption DEF NetTypeOK
  <2>2. conn' \in [Streams -> {"none", "open", "closed", "reset"}]
      BY DEF NetTypeOK
  <2>3. QED BY <2>1, <2>2 DEF NetTypeOK, None
<1>3. QED BY <1>1, <1>2

\* The streams accepted before it stay chained; the others are given up.
LEMMA LoopFailsStreams ==
    ASSUME Inv, AcceptLoopFails, rst = "stream", NEW t \in Streams,
           UNCHANGED <<slist, sndThreads>>, sst' = sst \/ (sst # "stream" /\ sst' # "stream")
    PROVE  Fresh(t)' /\ Chained(t)'
<1> USE DEF Inv, AcceptLoopFails
<1>1. CASE rpc[t] = "wait"
  <2>1. /\ rpc'[t] = "err" /\ chan'[t] = <<>> /\ conn'[t] # "open"
        /\ conn'[t] = "none" => conn[t] = "none"
      BY <1>1 DEF TypeOK, ReceiverTypeOK, NetTypeOK
  <2>2. Chained(t)'
      BY <2>1 DEF Chained
  <2>3. QED BY <1>1, <2>1, <2>2 DEF Fresh
<1>2. CASE rpc[t] # "wait"
  <2>1. rpc'[t] = rpc[t] /\ chan'[t] = chan[t] /\ conn'[t] = conn[t]
      BY <1>2 DEF TypeOK, ReceiverTypeOK, NetTypeOK
  <2>2. Chained(t)'
      BY <2>1, ChainedSame
  <2>3. QED BY <1>2, <2>1, <2>2 DEF Fresh, OneSession
<1>3. QED BY <1>1, <1>2

\* The accept loop fails when a connection ends before its first bytes.
LEMMA AcceptFailsStep ==
    ASSUME Inv, NEW s \in Streams, AcceptFails(s)
    PROVE  Inv'
<1> USE DEF Inv, AcceptFails
<1>1. TypeOK'
    BY LoopFailsTypes DEF TypeOK, SourceTypeOK, SenderTypeOK, DiskTypeOK
<1>2. Idle'
    BY DEF Idle, AcceptLoopFails
<1>3. OneSession'
    BY DEF OneSession, AcceptLoopFails, TypeOK, NetTypeOK
<1>4. ASSUME NEW t \in Streams
      PROVE  Fresh(t)' /\ Chained(t)'
    BY LoopFailsStreams
<1>5. QED BY <1>1, <1>2, <1>3, <1>4

\* The process of a receiver that has returned ends, and its threads with it.
LEMMA ProcessEndsStep ==
    ASSUME Inv, ProcessEnds
    PROVE  Inv'
<1> USE DEF Inv, ProcessEnds
<1>1. TypeOK'
    BY LeaveTypes DEF TypeOK, SourceTypeOK, SenderTypeOK, DiskTypeOK
<1>2. Idle'
    BY DEF Idle, ReceiverLeaves
<1>3. OneSession'
    BY DEF OneSession, ReceiverLeaves
<1>4. ASSUME NEW t \in Streams
      PROVE  Fresh(t)' /\ Chained(t)'
    BY LeaveStreams
<1>5. QED BY <1>1, <1>2, <1>3, <1>4

\* It leaves by a crash.
LEMMA ReceiverCrashStep ==
    ASSUME Inv, ReceiverCrash
    PROVE  Inv'
<1> USE DEF Inv, ReceiverCrash, Spend
<1>1. TypeOK'
    BY LeaveTypes, SpendType DEF TypeOK, SourceTypeOK, SenderTypeOK, DiskTypeOK
<1>2. Idle'
    BY DEF Idle, ReceiverLeaves
<1>3. OneSession'
    BY DEF OneSession, ReceiverLeaves
<1>4. ASSUME NEW t \in Streams
      PROVE  Fresh(t)' /\ Chained(t)'
    BY LeaveStreams
<1>5. QED BY <1>1, <1>2, <1>3, <1>4

\* The accept loop fails on a stray connection, whose sender fails with it.
LEMMA AcceptStrayStep ==
    ASSUME Inv, AcceptStray
    PROVE  Inv'
<1> USE DEF Inv, AcceptStray, StrayArrives, Scanned
<1>1. TypeOK'
  <2>1. SenderTypeOK'
      BY EmptySeq DEF TypeOK, SenderTypeOK, Idle, None
  <2>2. QED BY <2>1, LoopFailsTypes DEF TypeOK, SourceTypeOK, DiskTypeOK
<1>2. Idle'
    BY DEF Idle, AcceptLoopFails
<1>3. OneSession'
    BY DEF OneSession, AcceptLoopFails
<1>4. ASSUME NEW t \in Streams
      PROVE  Fresh(t)' /\ Chained(t)'
    BY LoopFailsStreams
<1>5. QED BY <1>1, <1>2, <1>3, <1>4

\* An accepted stream is at the start of its bucket.
LEMMA AcceptStep ==
    ASSUME Inv, NEW s \in Streams, Accept(s)
    PROVE  Inv'
<1> USE DEF Inv, Accept
<1>1. TypeOK'
    BY DEF TypeOK, SourceTypeOK, SenderTypeOK, ReceiverTypeOK,
       NetTypeOK, DiskTypeOK
<1>2. Idle'
    BY DEF Idle
<1>3. OneSession'
    BY DEF OneSession, Requested
<1>4. ASSUME NEW t \in Streams
      PROVE  Fresh(t)' /\ Chained(t)'
  <2>1. CASE t = s
    BY <2>1 DEF Fresh, Chained, InPlace, After, ReceiverAt, TypeOK, ReceiverTypeOK
  <2>2. CASE t # s
    BY <2>2, ChainedSame, FreshSame DEF TypeOK, ReceiverTypeOK
  <2>3. QED BY <2>1, <2>2
<1>5. QED BY <1>1, <1>2, <1>3, <1>4

\* A thread that fails reads no more of its stream.
LEMMA RecvEofStep ==
    ASSUME Inv, NEW s \in Streams, RecvEof(s)
    PROVE  Inv'
<1> USE DEF Inv, RecvEof
<1>1. TypeOK'
    BY DEF TypeOK, SourceTypeOK, SenderTypeOK, ReceiverTypeOK,
       NetTypeOK, DiskTypeOK
<1>2. Idle'
    BY DEF Idle
<1>3. OneSession'
    BY DEF OneSession, Requested
<1>4. ASSUME NEW t \in Streams
      PROVE  Fresh(t)' /\ Chained(t)'
    BY ChainedSame, FreshSame DEF Fresh, Chained
<1>5. QED BY <1>1, <1>2, <1>3, <1>4

\* The same for a failing disk.
LEMMA ReceiveIoErrorStep ==
    ASSUME Inv, NEW s \in Streams, ReceiveIoError(s)
    PROVE  Inv'
<1> USE DEF Inv, ReceiveIoError, Spend
<1>1. TypeOK'
    BY SpendType DEF TypeOK, SourceTypeOK, SenderTypeOK, ReceiverTypeOK,
       NetTypeOK, DiskTypeOK
<1>2. Idle'
    BY DEF Idle
<1>3. OneSession'
    BY DEF OneSession, Requested
<1>4. ASSUME NEW t \in Streams
      PROVE  Fresh(t)' /\ Chained(t)'
    BY ChainedSame, FreshSame DEF Fresh, Chained
<1>5. QED BY <1>1, <1>2, <1>3, <1>4

\* The requests are the offsets of the receiver's new list, in both forms of it.
LEMMA NegotiateStep ==
    ASSUME Inv, Negotiate
    PROVE  Inv'
<1> USE DEF Inv, Negotiate, Scanned
<1> DEFINE wanted == {i \in DOMAIN index : ~Skip(index[i])}
           list == [i \in wanted |-> [index[i] EXCEPT !.offset = ResumeOffset(index[i])]]
<1>1. ASSUME NEW i \in DOMAIN index
      PROVE  i \in Nat /\ index[i] \in Entries /\ ResumeOffset(index[i]) \in Nat
  <2>1. i \in Nat /\ index[i] \in Entries
      BY ElementOfSeq, LenProperties DEF TypeOK, SenderTypeOK
  <2>2. disk[TmpName(index[i])] \in Files
      BY <2>1, PathsAssumption DEF TypeOK, DiskTypeOK, TmpName, Entries
  <2>3. Len(disk[TmpName(index[i])].data) \in Nat
      BY <2>2, LenProperties DEF Files
  <2>4. QED BY <2>1, <2>3 DEF ResumeOffset
<1>2. list \in [wanted -> Entries]
    BY <1>1 DEF Entries
<1>3. reqs' \in [wanted -> Nat]
    BY <1>1 DEF Entries
<1>4. TypeOK'
  <2>1. ReceiverTypeOK'
      BY <1>1, <1>2 DEF TypeOK, ReceiverTypeOK, Idle, None
  <2>2. NetTypeOK'
      BY <1>1, <1>3 DEF TypeOK, NetTypeOK
  <2>3. QED BY <2>1, <2>2 DEF TypeOK, SourceTypeOK, SenderTypeOK, DiskTypeOK
<1>5. Idle'
    BY DEF Idle
<1>6. OneSession'
  <2>1. ~dry => rlist' = [i \in DOMAIN reqs' |-> Requested(i)']
      BY <1>1, <1>3 DEF Requested, Entries
  <2>2. DOMAIN reqs' \subseteq DOMAIN index
      OBVIOUS
  <2>3. QED BY <2>1, <2>2 DEF OneSession
<1>7. ASSUME NEW t \in Streams
      PROVE  Fresh(t)' /\ Chained(t)'
    BY DEF Fresh, Chained, OneSession
<1>8. QED BY <1>4, <1>5, <1>6, <1>7

\* Preparing the destination moves no stream.
LEMMA PrepareFileStep ==
    ASSUME Inv, PrepareFile
    PROVE  Inv'
<1> USE DEF Inv, PrepareFile
<1>1. TypeOK'
  <2>1. PICK i \in prep :
            /\ disk' = IF rlist[i].size = 0
                       THEN [disk EXCEPT ![rlist[i].path] =
                               [Unstamped(<<>>, rlist[i].modified) EXCEPT !.stamped = TRUE]]
                       ELSE IF rlist[i].offset = 0
                       THEN [disk EXCEPT ![TmpName(rlist[i])] = NoFile]
                       ELSE disk
            /\ prep' = prep \ {i}
      OBVIOUS
  <2>2. rlist[i] \in Entries /\ NoStream \in 0..NumStreams
      BY StreamsAssumption DEF TypeOK, ReceiverTypeOK, NoStream
  <2>3. DiskTypeOK'
      BY <2>1, <2>2, EmptySeq DEF TypeOK, DiskTypeOK, Files, Entries, NoFile, Unstamped
  <2>4. ReceiverTypeOK'
      BY <2>1 DEF TypeOK, ReceiverTypeOK
  <2>5. QED BY <2>3, <2>4 DEF TypeOK, SourceTypeOK, SenderTypeOK, NetTypeOK
<1>2. Idle'
    BY DEF Idle
<1>3. OneSession'
    BY DEF OneSession, Requested
<1>4. ASSUME NEW t \in Streams
      PROVE  Fresh(t)' /\ Chained(t)'
    BY ChainedSame, FreshSame
<1>5. QED BY <1>1, <1>2, <1>3, <1>4

\* The same when the time of an empty file cannot be set.
LEMMA PrepareUnstampedStep ==
    ASSUME Inv, PrepareUnstamped
    PROVE  Inv'
<1> USE DEF Inv, PrepareUnstamped
<1>1. TypeOK'
  <2>1. PICK i \in prep, t \in Clock :
            /\ disk' = [disk EXCEPT ![rlist[i].path] = Unstamped(<<>>, t)]
            /\ prep' = prep \ {i}
      OBVIOUS
  <2>2. rlist[i] \in Entries /\ NoStream \in 0..NumStreams /\ t \in Nat
      BY StreamsAssumption, ContentsAssumption DEF TypeOK, ReceiverTypeOK, NoStream
  <2>3. DiskTypeOK'
      BY <2>1, <2>2, EmptySeq DEF TypeOK, DiskTypeOK, Files, Entries, Unstamped
  <2>4. ReceiverTypeOK'
      BY <2>1 DEF TypeOK, ReceiverTypeOK
  <2>5. QED BY <2>3, <2>4, SpendType DEF TypeOK, SourceTypeOK, SenderTypeOK, NetTypeOK
<1>2. Idle'
    BY DEF Idle
<1>3. OneSession'
    BY DEF OneSession, Requested
<1>4. ASSUME NEW t \in Streams
      PROVE  Fresh(t)' /\ Chained(t)'
    BY ChainedSame, FreshSame
<1>5. QED BY <1>1, <1>2, <1>3, <1>4

\* The receiver's threads start at the start of their buckets.
LEMMA ConfirmStep ==
    ASSUME Inv, Confirm
    PROVE  Inv'
<1> USE DEF Inv, Confirm
<1>1. TypeOK'
  <2>1. \A s \in Streams : Work(rlist, s) \subseteq DOMAIN rlist
      BY DEF Work, Bucket
  <2>2. ReceiverTypeOK'
      BY <2>1, EmptySeq DEF TypeOK, ReceiverTypeOK
  <2>3. NetTypeOK'
      BY EmptySeq, StreamsAssumption DEF TypeOK, NetTypeOK
  <2>4. QED BY <2>2, <2>3 DEF TypeOK, SourceTypeOK, SenderTypeOK, DiskTypeOK
<1>2. Idle'
    BY DEF Idle
<1>3. OneSession'
    BY DEF OneSession, Requested, TypeOK, NetTypeOK
<1>4. ASSUME NEW t \in Streams
      PROVE  Fresh(t)' /\ Chained(t)'
  <2>1. /\ conn'[t] = "none" /\ chan'[t] = <<>> /\ rbuf'[t] = <<>>
        /\ rleft'[t] = Work(rlist, t) /\ sst # "stream"
      BY DEF OneSession, TypeOK, NetTypeOK
  <2>2. rpc'[t] = "wait" \/ (rpc'[t] = "open" /\ Work(rlist, t) = {})
      BY DEF Work
  <2>3. Fresh(t)'
      BY <2>1, <2>2 DEF Fresh
  <2>4. Chained(t)'
      BY <2>1, EmptySeq DEF Chained
  <2>5. QED BY <2>3, <2>4
<1>5. QED BY <1>1, <1>2, <1>3, <1>4

------------------------------------------------------------------------------
(* The steps of the stream threads.                                          *)

\* What is first on the stream, when the receiver reads it for file i.
LEMMA HeadInPlace ==
    ASSUME Inv, NEW s \in Streams, rpc[s] = "recv", chan[s] # <<>>,
           NEW i \in rleft[s], IsNext(rlist, rleft[s], i)
    PROVE  /\ rst = "stream" /\ i \in DOMAIN rlist
           /\ Head(chan[s]) = chan[s][1] /\ chan[s][1] \in Blocks \cup Sums
           /\ chan[s][1].left = rleft[s] /\ chan[s][1].n = Len(rbuf[s])
           /\ chan[s][1].kind = "sum" <=> Len(rbuf[s]) = TransferSize(rlist[i])
<1> USE DEF Inv
<1>1. rst = "stream"
    BY DEF Idle
<1>2. chan[s] \in Seq(Blocks \cup Sums) /\ Len(chan[s]) \in Nat \ {0}
    BY EmptySeq DEF TypeOK, NetTypeOK
<1>3. chan[s][1] \in Blocks \cup Sums /\ Head(chan[s]) = chan[s][1]
    BY <1>2, ElementOfSeq
<1>4. chan[s][1].left = rleft[s] /\ chan[s][1].n = Len(rbuf[s]) /\ InPlace(chan[s][1])
    BY <1>1, <1>2 DEF Chained, ReceiverAt
<1>5. rleft[s] \in SUBSET DOMAIN rlist
    BY DEF TypeOK, ReceiverTypeOK
<1>6. chan[s][1].kind = "sum" <=> Len(rbuf[s]) = TransferSize(rlist[i])
  <2>1. PICK j \in rleft[s] :
            /\ IsNext(rlist, rleft[s], j)
            /\ chan[s][1].kind = "sum" <=> Len(rbuf[s]) = TransferSize(rlist[j])
      BY <1>4 DEF InPlace
  <2>2. i = j BY <2>1, <1>5, NextUnique
  <2>3. QED BY <2>1, <2>2
<1>7. QED BY <1>1, <1>3, <1>4, <1>5, <1>6

\* The elements of a tail.
LEMMA TailFacts ==
    ASSUME NEW T, NEW q \in Seq(T), q # <<>>
    PROVE  /\ Tail(q) \in Seq(T) /\ Len(q) \in Nat \ {0} /\ Len(Tail(q)) \in Nat
           /\ Len(q) = Len(Tail(q)) + 1
           /\ \A k \in 1..Len(Tail(q)) : Tail(q)[k] = q[k + 1]
BY EmptySeq, HeadTailProperties, LenProperties

\* Reading it keeps the stream chained, if the receiver moves to what is after.
LEMMA GetChained ==
    ASSUME Inv, NEW s \in Streams, rpc[s] = "recv", chan[s] # <<>>,
           chan'[s] \in Seq(Blocks \cup Sums), Len(chan[s]) = Len(chan'[s]) + 1,
           \A k \in 1..Len(chan'[s]) : chan'[s][k] = chan[s][k + 1],
           UNCHANGED <<rst, rlist, conn, sleft, sbuf>>,
           \A left, n : After(chan[s][1], left, n) => ReceiverAt(s, left, n)'
    PROVE  Chained(s)'
<1> USE DEF Inv
<1>1. rst = "stream" /\ Chained(s)
    BY DEF Idle
<1>2. /\ chan[s] \in Seq(Blocks \cup Sums) /\ Len(chan[s]) \in Nat \ {0}
      /\ Len(chan'[s]) \in Nat
    BY EmptySeq DEF TypeOK, NetTypeOK
<1>3. ASSUME NEW k \in 1..Len(chan'[s]) PROVE InPlace(chan[s][k])'
  <2>1. k + 1 \in 1..Len(chan[s]) BY <1>2
  <2>2. InPlace(chan[s][k + 1]) BY <1>1, <2>1 DEF Chained
  <2>3. QED BY <2>2 DEF InPlace
<1>4. chan'[s] # <<>> => ReceiverAt(s, chan[s][1].left, chan[s][1].n)'
  <2>1. chan'[s] # <<>> => Len(chan'[s]) > 0
      BY <1>2, EmptySeq
  <2>2. chan'[s] # <<>> => After(chan[s][1], chan[s][2].left, chan[s][2].n)
      BY <1>1, <1>2, <2>1 DEF Chained
  <2>3. QED BY <1>2, <2>1, <2>2
<1>5. ASSUME NEW k \in 1..(Len(chan'[s]) - 1)
      PROVE  After(chan[s][k], chan[s][k + 1].left, chan[s][k + 1].n)'
  <2>1. /\ k \in 1..Len(chan'[s]) /\ k + 1 \in 1..Len(chan'[s])
        /\ k + 1 \in 1..(Len(chan[s]) - 1)
      BY <1>2
  <2>2. After(chan[s][k + 1], chan[s][k + 2].left, chan[s][k + 2].n)
      BY <1>1, <2>1 DEF Chained
  <2>3. chan'[s][k] = chan[s][k + 1] /\ chan'[s][k + 1] = chan[s][k + 2]
      BY <2>1
  <2>4. QED BY <2>2, <2>3 DEF After
<1>6. conn'[s] = "open" =>
          IF chan'[s] = <<>>
          THEN ReceiverAt(s, sleft[s], Len(sbuf[s]))'
          ELSE After(chan[s][Len(chan[s])], sleft[s], Len(sbuf[s]))'
  <2>1. conn'[s] = "open" => After(chan[s][Len(chan[s])], sleft[s], Len(sbuf[s]))
      BY <1>1, <1>2 DEF Chained
  <2>2. CASE chan'[s] = <<>>
    <3>1. Len(chan[s]) = 1 BY <1>2, <2>2, EmptySeq
    <3>2. conn[s] = "open" => ReceiverAt(s, sleft[s], Len(sbuf[s]))'
        BY <2>1, <3>1 DEF ReceiverAt
    <3>3. QED BY <2>2, <3>2
  <2>3. CASE chan'[s] # <<>>
    <3>1. Len(chan'[s]) \in Nat \ {0} BY <1>2, <2>3, EmptySeq
    <3>2. chan'[s][Len(chan'[s])] = chan[s][Len(chan[s])]
      <4>1. Len(chan'[s]) \in 1..Len(chan'[s]) /\ Len(chan'[s]) + 1 = Len(chan[s])
          BY <1>2, <3>1
      <4>2. QED BY <1>2, <4>1
    <3>3. QED BY <2>1, <2>3, <3>2 DEF After
  <2>4. QED BY <2>2, <2>3
<1>7. QED BY <1>3, <1>4, <1>5, <1>6 DEF Chained

\* Writing keeps the stream chained, if the sender moves to what is after.
LEMMA PutChained ==
    ASSUME Inv, NEW s \in Streams, NEW m \in Blocks \cup Sums, conn[s] = "open",
           m.left = sleft[s], m.n = Len(sbuf[s]), InPlace(m),
           chan'[s] = Append(chan[s], m), UNCHANGED <<rst, rlist, rpc, rleft, rbuf>>,
           After(m, sleft[s], Len(sbuf[s]))'
    PROVE  Chained(s)'
<1> USE DEF Inv
<1> DEFINE L == Len(chan[s])
<1>1. /\ chan[s] \in Seq(Blocks \cup Sums) /\ L \in Nat /\ chan'[s] # <<>>
      /\ Len(chan'[s]) = L + 1 /\ chan'[s][L + 1] = m
      /\ \A k \in 1..L : chan'[s][k] = chan[s][k]
    BY LenProperties, AppendProperties DEF TypeOK, NetTypeOK
<1> SUFFICES ASSUME rst = "stream", rpc[s] # "err" PROVE Chained(s)'
    BY DEF Chained
<1>2. ASSUME NEW k \in 1..(L + 1) PROVE InPlace(chan[s][k])'
  <2>1. CASE k = L + 1 BY <1>1, <2>1 DEF InPlace
  <2>2. CASE k \in 1..L
    <3>1. InPlace(chan[s][k]) BY <2>2 DEF Chained
    <3>2. QED BY <1>1, <2>2, <3>1 DEF InPlace
  <2>3. QED BY <1>1, <2>1, <2>2
<1>3. ReceiverAt(s, chan[s][1].left, chan[s][1].n)'
  <2>1. CASE chan[s] = <<>>
    <3>1. L = 0 BY <2>1, EmptySeq
    <3>2. ReceiverAt(s, sleft[s], Len(sbuf[s])) BY <2>1 DEF Chained
    <3>3. chan'[s][1] = m BY <1>1, <3>1
    <3>4. QED BY <3>2, <3>3 DEF ReceiverAt
  <2>2. CASE chan[s] # <<>>
    <3>1. 1 \in 1..L BY <1>1, <2>2, EmptySeq
    <3>2. ReceiverAt(s, chan[s][1].left, chan[s][1].n) BY <2>2 DEF Chained
    <3>3. QED BY <1>1, <3>1, <3>2 DEF ReceiverAt
  <2>3. QED BY <2>1, <2>2
<1>4. ASSUME NEW k \in 1..L
      PROVE  After(chan[s][k], chan[s][k + 1].left, chan[s][k + 1].n)'
  <2>1. CASE k = L
    <3>1. chan[s] # <<>> BY <1>1, <2>1, EmptySeq
    <3>2. After(chan[s][L], sleft[s], Len(sbuf[s])) BY <3>1 DEF Chained
    <3>3. chan'[s][k] = chan[s][L] /\ chan'[s][k + 1] = m BY <1>1, <2>1
    <3>4. QED BY <3>2, <3>3 DEF After
  <2>2. CASE k \in 1..(L - 1)
    <3>1. After(chan[s][k], chan[s][k + 1].left, chan[s][k + 1].n) BY <2>2 DEF Chained
    <3>2. k + 1 \in 1..L BY <1>1, <2>2
    <3>3. chan'[s][k] = chan[s][k] /\ chan'[s][k + 1] = chan[s][k + 1] BY <1>1, <3>2
    <3>4. QED BY <3>1, <3>3 DEF After
  <2>3. QED BY <1>1, <2>1, <2>2
<1>5. After(chan[s][Len(chan[s])], sleft[s], Len(sbuf[s]))'
    BY <1>1 DEF After
<1>6. (\A k \in 1..Len(chan[s]) : InPlace(chan[s][k]))'
    BY <1>1, <1>2
<1>7. (\A k \in 1..(Len(chan[s]) - 1) :
          After(chan[s][k], chan[s][k + 1].left, chan[s][k + 1].n))'
    BY <1>1, <1>4, SMTT(30)
<1>8. QED BY <1>1, <1>3, <1>5, <1>6, <1>7 DEF Chained

\* A connected stream is that of a session whose two lists are the same.
LEMMA OpenIsInSession ==
    ASSUME Inv, NEW s \in Streams, conn[s] = "open"
    PROVE  rst = "stream" /\ slist = rlist
BY DEF Inv, Fresh, OneSession

\* Positions of the sender's list have a size.
LEMMA SenderListSize ==
    ASSUME TypeOK, NEW s \in Streams, NEW i \in sleft[s]
    PROVE  slist[i] \in Entries /\ TransferSize(slist[i]) \in Nat /\ sleft[s] \in SUBSET Nat
<1> USE DEF TypeOK, SenderTypeOK
<1>1. DOMAIN index \subseteq Nat BY LenProperties
<1>2. slist[i] \in Entries OBVIOUS
<1>3. TransferSize(slist[i]) \in Nat BY <1>2, SMTT(30) DEF Entries, TransferSize
<1>4. QED BY <1>1, <1>2, <1>3

\* The types after a write.
LEMMA WriteTypes ==
    ASSUME TypeOK, NEW s \in Streams, NEW m \in Blocks \cup Sums, Write(s, m),
           UNCHANGED <<ctlVars, conn>>
    PROVE  NetTypeOK'
<1> USE DEF TypeOK, NetTypeOK, Write, Room
<1>1. CASE conn[s] = "open"
  <2>1. /\ Append(chan[s], m) \in Seq(Blocks \cup Sums)
        /\ Len(Append(chan[s], m)) = Len(chan[s]) + 1
      BY AppendProperties
  <2>2. Len(chan[s]) + 1 <= Cap
      BY <1>1, StreamsAssumption, LenProperties
  <2>3. QED BY <1>1, <2>1, <2>2
<1>2. CASE chan' = chan
    BY <1>2
<1>3. QED BY <1>1, <1>2

\* A block goes on the stream at the sender's position.
LEMMA SendBlockStep ==
    ASSUME Inv, NEW s \in Streams, SendBlock(s)
    PROVE  Inv'
<1> USE DEF Inv
<1>1. PICK i \in sleft[s] :
          /\ IsNext(slist, sleft[s], i) /\ Len(sbuf[s]) < TransferSize(slist[i])
          /\ slist[i].offset + Len(sbuf[s]) + 1 <= Len(src[slist[i].path].data)
          /\ Write(s, Message(s, "block",
                     src[slist[i].path].data[slist[i].offset + Len(sbuf[s]) + 1]))
          /\ sbuf' = [sbuf EXCEPT ![s] =
                 Append(@, src[slist[i].path].data[slist[i].offset + Len(sbuf[s]) + 1])]
    BY DEF SendBlock, Sending
<1> DEFINE v == src[slist[i].path].data[slist[i].offset + Len(sbuf[s]) + 1]
<1>2. slist[i] \in Entries /\ TransferSize(slist[i]) \in Nat /\ sleft[s] \in SUBSET Nat
    BY SenderListSize
<1>3. sbuf[s] \in Seq(Block) /\ Len(sbuf[s]) \in Nat
    BY LenProperties DEF TypeOK, SenderTypeOK
<1>4. v \in Block
  <2>1. src[slist[i].path].data \in Seq(Block)
      BY <1>2 DEF TypeOK, SourceTypeOK, Entries
  <2>2. slist[i].offset + Len(sbuf[s]) + 1 \in 1..Len(src[slist[i].path].data)
      BY <1>1, <1>2, <1>3, <2>1, LenProperties, SMTT(30) DEF Entries
  <2>3. QED BY <2>1, <2>2, ElementOfSeq
<1>5. PICK m \in Blocks : m = Message(s, "block", v)
    BY <1>2, <1>3, <1>4 DEF Message, Blocks
<1>6. sbuf'[s] = Append(sbuf[s], v) /\ sbuf'[s] \in Seq(Block) /\ Len(sbuf'[s]) = Len(sbuf[s]) + 1
    BY <1>1, <1>3, <1>4, AppendProperties, SMTT(30) DEF TypeOK, SenderTypeOK
<1>7. TypeOK'
  <2>1. SenderTypeOK'
      BY <1>1, <1>6 DEF SendBlock, TypeOK, SenderTypeOK
  <2>2. NetTypeOK'
      BY <1>1, <1>5, WriteTypes DEF SendBlock
  <2>3. QED BY <2>1, <2>2 DEF SendBlock, TypeOK, SourceTypeOK, ReceiverTypeOK, DiskTypeOK
<1>8. Idle'
    BY DEF SendBlock, Idle
<1>9. OneSession'
    BY DEF SendBlock, OneSession, Requested
<1>10. ASSUME NEW t \in Streams
       PROVE  Fresh(t)' /\ Chained(t)'
  <2>1. CASE t # s
      BY <1>1, <2>1, ChainedSame, FreshSame DEF SendBlock, Write, TypeOK, SenderTypeOK, NetTypeOK
  <2>2. CASE t = s /\ conn[s] = "open"
    <3>1. slist = rlist BY <2>2, OpenIsInSession
    <3>2. m.left = sleft[s] /\ m.n = Len(sbuf[s]) /\ m.kind = "block"
        BY <1>5 DEF Message
    <3>3. InPlace(m) BY <1>1, <1>2, <1>3, <3>1, <3>2 DEF InPlace
    <3>4. After(m, sleft[s], Len(sbuf[s]))'
        BY <1>6, <3>2 DEF After, SendBlock
    <3>5. chan'[s] = Append(chan[s], m)
        BY <1>1, <1>5, <2>2 DEF Write, TypeOK, NetTypeOK
    <3>6. Chained(s)'
        BY <1>5, <2>2, <3>2, <3>3, <3>4, <3>5, PutChained DEF SendBlock
    <3>7. Fresh(s)' BY <2>2 DEF Fresh, SendBlock
    <3>8. QED BY <2>2, <3>6, <3>7
  <2>3. CASE t = s /\ conn[s] = "reset"
      BY <1>1, <2>3, ChainedSame DEF SendBlock, Fresh, Write
  <2>4. QED BY <1>1, <2>1, <2>2, <2>3 DEF Write
<1>11. QED BY <1>7, <1>8, <1>9, <1>10

\* The checksum goes on the stream after a file's last block.
LEMMA SendSumStep ==
    ASSUME Inv, NEW s \in Streams, SendSum(s)
    PROVE  Inv'
<1> USE DEF Inv
<1>1. PICK i \in sleft[s] :
          /\ IsNext(slist, sleft[s], i) /\ Len(sbuf[s]) = TransferSize(slist[i])
          /\ Write(s, Message(s, "sum", sbuf[s]))
          /\ sleft' = [sleft EXCEPT ![s] = @ \ {i}]
    BY DEF SendSum, Sending
<1>2. slist[i] \in Entries /\ TransferSize(slist[i]) \in Nat /\ sleft[s] \in SUBSET Nat
    BY SenderListSize
<1>3. PICK m \in Sums : m = Message(s, "sum", sbuf[s])
  <2>1. sbuf[s] \in Seq(Block) /\ Len(sbuf[s]) \in Nat
      BY LenProperties DEF TypeOK, SenderTypeOK
  <2>2. QED BY <1>2, <2>1 DEF Message, Sums
<1>4. /\ sleft'[s] = sleft[s] \ {i} /\ sbuf'[s] = <<>>
      /\ \A t \in Streams \ {s} : sleft'[t] = sleft[t] /\ sbuf'[t] = sbuf[t]
    BY <1>1 DEF SendSum, TypeOK, SenderTypeOK
<1>5. TypeOK'
  <2>1. SenderTypeOK'
      BY <1>1, EmptySeq DEF SendSum, TypeOK, SenderTypeOK
  <2>2. NetTypeOK'
      BY <1>1, <1>3, WriteTypes DEF SendSum
  <2>3. QED BY <2>1, <2>2 DEF SendSum, TypeOK, SourceTypeOK, ReceiverTypeOK, DiskTypeOK
<1>6. Idle'
    BY <1>1, <1>4 DEF SendSum, Idle
<1>7. OneSession'
    BY DEF SendSum, OneSession, Requested
<1>8. ASSUME NEW t \in Streams
      PROVE  Fresh(t)' /\ Chained(t)'
  <2>1. CASE t # s
      BY <1>1, <1>4, <2>1, ChainedSame, FreshSame DEF SendSum, Write, TypeOK, NetTypeOK
  <2>2. CASE t = s /\ conn[s] = "open"
    <3>1. slist = rlist BY <2>2, OpenIsInSession
    <3>2. m.left = sleft[s] /\ m.n = Len(sbuf[s]) /\ m.kind = "sum"
        BY <1>3 DEF Message
    <3>3. InPlace(m) BY <1>1, <1>2, <3>1, <3>2 DEF InPlace
    <3>4. After(m, sleft[s], Len(sbuf[s]))'
        BY <1>1, <1>4, <3>1, <3>2, EmptySeq DEF After, SendSum
    <3>5. chan'[s] = Append(chan[s], m)
        BY <1>1, <1>3, <2>2 DEF Write, TypeOK, NetTypeOK
    <3>6. Chained(s)'
        BY <1>3, <2>2, <3>2, <3>3, <3>4, <3>5, PutChained DEF SendSum
    <3>7. Fresh(s)' BY <2>2 DEF Fresh, SendSum
    <3>8. QED BY <2>2, <3>6, <3>7
  <2>3. CASE t = s /\ conn[s] = "reset"
      BY <1>1, <2>3, ChainedSame DEF SendSum, Fresh, Write
  <2>4. QED BY <1>1, <2>1, <2>2, <2>3 DEF Write
<1>9. QED BY <1>5, <1>6, <1>7, <1>8

\* The temporary name of a file of the list is a name, and so is its own.
LEMMA ListNames ==
    ASSUME TypeOK, NEW i \in DOMAIN rlist
    PROVE  /\ rlist[i].path \in Names /\ Tmp[rlist[i].path] \in Names
           /\ rlist[i].modified \in Nat /\ rlist[i].offset \in Nat
BY PathsAssumption, ListSize DEF Entries

\* Opening a file reads nothing.
LEMMA OpenTmpStep ==
    ASSUME Inv, NEW s \in Streams, OpenTmp(s)
    PROVE  Inv'
<1> USE DEF Inv
<1>1. PICK i \in rleft[s] :
          IF rlist[i].offset > 0 /\ ~disk[TmpName(rlist[i])].here
          THEN rpc' = [rpc EXCEPT ![s] = "err"] /\ disk' = disk
          ELSE /\ rpc' = [rpc EXCEPT ![s] = "recv"]
               /\ disk' = [disk EXCEPT ![TmpName(rlist[i])] =
                      [Unstamped(IF rlist[i].offset > 0 THEN @.data ELSE <<>>, 0)
                          EXCEPT !.w = s]]
    BY DEF OpenTmp
<1>2. TypeOK'
  <2>1. TmpName(rlist[i]) \in Names /\ s \in 0..NumStreams
      BY ListNames, StreamsAssumption DEF TmpName, TypeOK, ReceiverTypeOK, Streams
  <2>2. DiskTypeOK'
    <3>1. disk[TmpName(rlist[i])].data \in Seq(Block) /\ <<>> \in Seq(Block)
        BY <2>1, EmptySeq DEF TypeOK, DiskTypeOK, Files
    <3>2. [Unstamped(IF rlist[i].offset > 0 THEN disk[TmpName(rlist[i])].data ELSE <<>>, 0)
              EXCEPT !.w = s] \in Files
        BY <2>1, <3>1 DEF Files, Unstamped
    <3>3. QED BY <1>1, <2>1, <3>2 DEF TypeOK, DiskTypeOK
  <2>3. ReceiverTypeOK'
      BY <1>1 DEF OpenTmp, TypeOK, ReceiverTypeOK
  <2>4. QED BY <2>2, <2>3 DEF OpenTmp, TypeOK, SourceTypeOK, SenderTypeOK, NetTypeOK
<1>3. Idle'
    BY DEF OpenTmp, Idle
<1>4. OneSession'
    BY DEF OpenTmp, OneSession, Requested
<1>5. ASSUME NEW t \in Streams
      PROVE  Fresh(t)' /\ Chained(t)'
  <2>1. CASE t # s
      BY <1>1, <2>1, ChainedSame, FreshSame DEF OpenTmp, TypeOK, ReceiverTypeOK
  <2>2. CASE t = s
    <3>1. rpc[s] = "open" /\ rleft[s] # {} /\ rpc'[s] \in {"recv", "err"}
        BY <1>1 DEF OpenTmp, TypeOK, ReceiverTypeOK
    <3>2. Fresh(s)' BY <3>1 DEF OpenTmp, Fresh
    <3>3. Chained(s)'
        BY <3>1 DEF OpenTmp, Chained, ReceiverAt, InPlace, After
    <3>4. QED BY <2>2, <3>2, <3>3
  <2>3. QED BY <2>1, <2>2
<1>6. QED BY <1>2, <1>3, <1>4, <1>5

\* Before the end of the file the receiver finds a block.
LEMMA RecvBlockStep ==
    ASSUME Inv, NEW s \in Streams, RecvBlock(s)
    PROVE  Inv'
<1> USE DEF Inv
<1>1. PICK i \in rleft[s] :
          /\ IsNext(rlist, rleft[s], i) /\ Len(rbuf[s]) < TransferSize(rlist[i])
          /\ disk' = IF disk[TmpName(rlist[i])].w = s
                     THEN [disk EXCEPT ![TmpName(rlist[i])].data = Append(@, Head(chan[s]).val)]
                     ELSE disk
    BY DEF RecvBlock
<1>2. PICK m \in Blocks \cup Sums :
          /\ m = chan[s][1] /\ Head(chan[s]) = m /\ rst = "stream" /\ i \in DOMAIN rlist
          /\ m.left = rleft[s] /\ m.n = Len(rbuf[s])
          /\ m.kind = "sum" <=> Len(rbuf[s]) = TransferSize(rlist[i])
    BY <1>1, HeadInPlace DEF RecvBlock
<1>3. m \in Blocks /\ m.kind = "block" /\ m.val \in Block
  <2>1. TransferSize(rlist[i]) \in Nat /\ Len(rbuf[s]) \in Nat
      BY <1>2, ListSize, LenProperties DEF TypeOK, ReceiverTypeOK
  <2>2. m.kind # "sum" BY <1>1, <1>2, <2>1
  <2>3. QED BY <2>2 DEF Blocks, Sums
<1>4. /\ rbuf'[s] = Append(rbuf[s], m.val) /\ rbuf'[s] \in Seq(Block)
      /\ Len(rbuf'[s]) = Len(rbuf[s]) + 1
      /\ rpc'[s] = "recv" /\ rpc[s] = "recv" /\ chan[s] # <<>>
    BY <1>2, <1>3, AppendProperties DEF RecvBlock, TypeOK, ReceiverTypeOK
<1>5. /\ chan[s] \in Seq(Blocks \cup Sums) /\ chan'[s] = Tail(chan[s])
      /\ chan'[s] \in Seq(Blocks \cup Sums) /\ Len(chan[s]) = Len(chan'[s]) + 1
      /\ Len(chan'[s]) \in Nat
      /\ \A k \in 1..Len(chan'[s]) : chan'[s][k] = chan[s][k + 1]
    BY <1>4, TailFacts DEF RecvBlock, TypeOK, NetTypeOK
<1>6. TypeOK'
  <2>1. TmpName(rlist[i]) \in Names
      BY <1>2, ListNames DEF TmpName
  <2>2. DiskTypeOK'
    <3>1. disk[TmpName(rlist[i])] \in Files /\ disk[TmpName(rlist[i])].data \in Seq(Block)
        BY <2>1 DEF TypeOK, DiskTypeOK, Files
    <3>2. Append(disk[TmpName(rlist[i])].data, m.val) \in Seq(Block)
        BY <1>3, <3>1, AppendProperties
    <3>3. QED BY <1>1, <1>2, <2>1, <3>1, <3>2 DEF TypeOK, DiskTypeOK, Files
  <2>3. ReceiverTypeOK'
      BY <1>4 DEF RecvBlock, TypeOK, ReceiverTypeOK
  <2>4. NetTypeOK'
      BY <1>5, StreamsAssumption DEF RecvBlock, TypeOK, NetTypeOK
  <2>5. QED BY <2>2, <2>3, <2>4 DEF RecvBlock, TypeOK, SourceTypeOK, SenderTypeOK
<1>7. Idle'
    BY <1>2 DEF RecvBlock, Idle
<1>8. OneSession'
    BY DEF RecvBlock, OneSession, Requested
<1>9. ASSUME NEW t \in Streams
      PROVE  Fresh(t)' /\ Chained(t)'
  <2>1. CASE t # s
      BY <2>1, ChainedSame, FreshSame DEF RecvBlock, TypeOK, ReceiverTypeOK, NetTypeOK
  <2>2. CASE t = s
    <3>1. Fresh(s)' BY <1>4 DEF RecvBlock, Fresh
    <3>2. \A left, n : After(chan[s][1], left, n) => ReceiverAt(s, left, n)'
        BY <1>2, <1>3, <1>4 DEF After, ReceiverAt, RecvBlock
    <3>3. Chained(s)'
        BY <1>4, <1>5, <3>2, GetChained DEF RecvBlock
    <3>4. QED BY <2>2, <3>1, <3>3
  <2>3. QED BY <2>1, <2>2
<1>10. QED BY <1>6, <1>7, <1>8, <1>9

\* At the end of the file it finds the checksum.
LEMMA VerifyChunkStep ==
    ASSUME Inv, NEW s \in Streams, VerifyChunk(s)
    PROVE  Inv'
<1> USE DEF Inv
<1>1. PICK i \in rleft[s] :
          /\ IsNext(rlist, rleft[s], i) /\ Len(rbuf[s]) = TransferSize(rlist[i])
          /\ \/ /\ rpc' = [rpc EXCEPT ![s] = "rename"]
                /\ disk' = [disk EXCEPT ![TmpName(rlist[i])].w = NoStream]
             \/ /\ rpc' = [rpc EXCEPT ![s] = "err"]
                /\ disk' = [disk EXCEPT ![TmpName(rlist[i])] = NoFile]
    BY DEF VerifyChunk, Rejected
<1>2. /\ rst = "stream" /\ i \in DOMAIN rlist /\ rpc[s] = "recv" /\ chan[s] # <<>>
      /\ chan[s][1].left = rleft[s] /\ chan[s][1].kind = "sum"
    BY <1>1, HeadInPlace DEF VerifyChunk
<1>3. /\ chan[s] \in Seq(Blocks \cup Sums) /\ chan'[s] = Tail(chan[s])
      /\ chan'[s] \in Seq(Blocks \cup Sums) /\ Len(chan[s]) = Len(chan'[s]) + 1
      /\ Len(chan'[s]) \in Nat
      /\ \A k \in 1..Len(chan'[s]) : chan'[s][k] = chan[s][k + 1]
    BY <1>2, TailFacts DEF VerifyChunk, TypeOK, NetTypeOK
<1>4. TypeOK'
  <2>1. TmpName(rlist[i]) \in Names /\ NoStream \in 0..NumStreams
      BY <1>2, ListNames, StreamsAssumption DEF TmpName, NoStream
  <2>2. DiskTypeOK'
    <3>1. disk[TmpName(rlist[i])] \in Files BY <2>1 DEF TypeOK, DiskTypeOK
    <3>2. NoFile \in Files /\ [disk[TmpName(rlist[i])] EXCEPT !.w = NoStream] \in Files
        BY <2>1, <3>1, EmptySeq DEF Files, NoFile
    <3>3. QED BY <1>1, <2>1, <3>2 DEF TypeOK, DiskTypeOK
  <2>3. ReceiverTypeOK'
      BY <1>1 DEF VerifyChunk, TypeOK, ReceiverTypeOK
  <2>4. NetTypeOK'
      BY <1>3, StreamsAssumption DEF VerifyChunk, TypeOK, NetTypeOK
  <2>5. QED BY <2>2, <2>3, <2>4 DEF VerifyChunk, TypeOK, SourceTypeOK, SenderTypeOK
<1>5. Idle'
    BY <1>2 DEF VerifyChunk, Idle
<1>6. OneSession'
    BY DEF VerifyChunk, OneSession, Requested
<1>7. ASSUME NEW t \in Streams
      PROVE  Fresh(t)' /\ Chained(t)'
  <2>1. CASE t # s
      BY <1>1, <2>1, ChainedSame, FreshSame DEF VerifyChunk, TypeOK, ReceiverTypeOK, NetTypeOK
  <2>2. CASE t = s /\ rpc'[s] = "rename"
    <3>1. Fresh(s)' BY <1>2 DEF VerifyChunk, Fresh
    <3>2. \A left, n : After(chan[s][1], left, n) => ReceiverAt(s, left, n)'
        BY <1>2, <2>2 DEF After, ReceiverAt, VerifyChunk
    <3>3. Chained(s)'
        BY <1>2, <1>3, <3>2, GetChained DEF VerifyChunk
    <3>4. QED BY <2>2, <3>1, <3>3
  <2>3. CASE t = s /\ rpc'[s] = "err"
      BY <1>2, <2>3 DEF VerifyChunk, Fresh, Chained
  <2>4. QED BY <1>1, <2>1, <2>2, <2>3 DEF TypeOK, ReceiverTypeOK
<1>8. QED BY <1>4, <1>5, <1>6, <1>7

\* Renaming reads nothing.
LEMMA RenameStep ==
    ASSUME Inv, NEW s \in Streams, Rename(s)
    PROVE  Inv'
<1> USE DEF Inv
<1>1. PICK i \in rleft[s], u \in Clock :
          \/ /\ rpc' = [rpc EXCEPT ![s] = "stamp"]
             /\ disk' = [disk EXCEPT ![rlist[i].path] = [disk[Tmp[rlist[i].path]] EXCEPT !.mtime = u],
                                     ![Tmp[rlist[i].path]] = NoFile]
          \/ rpc' = [rpc EXCEPT ![s] = "err"] /\ disk' = disk
    BY DEF Rename
<1>2. rst = "stream" /\ rpc[s] = "rename" /\ i \in DOMAIN rlist
    BY DEF Rename, Idle, TypeOK, ReceiverTypeOK
<1>3. TypeOK'
  <2>1. NoFile \in Files
      BY EmptySeq, StreamsAssumption DEF NoFile, Files, NoStream
  <2>2. DiskTypeOK'
    <3>1. \A f \in Files : [f EXCEPT !.mtime = u] \in Files
        BY ContentsAssumption DEF Files
    <3>2. QED BY <1>1, <1>2, <2>1, <3>1, ListNames DEF TypeOK, DiskTypeOK
  <2>3. ReceiverTypeOK'
      BY <1>1 DEF Rename, TypeOK, ReceiverTypeOK
  <2>4. QED BY <2>2, <2>3 DEF Rename, TypeOK, SourceTypeOK, SenderTypeOK, NetTypeOK
<1>4. Idle'
    BY <1>2 DEF Rename, Idle
<1>5. OneSession'
    BY DEF Rename, OneSession, Requested
<1>6. ASSUME NEW t \in Streams
      PROVE  Fresh(t)' /\ Chained(t)'
  <2>1. CASE t # s
      BY <1>1, <2>1, ChainedSame, FreshSame DEF Rename, TypeOK, ReceiverTypeOK
  <2>2. CASE t = s
    <3>1. rpc'[s] \in {"stamp", "err"}
        BY <1>1 DEF TypeOK, ReceiverTypeOK
    <3>2. Fresh(s)' BY <1>2 DEF Rename, Fresh
    <3>3. Chained(s)'
        BY <1>2, <3>1 DEF Rename, Chained, ReceiverAt, InPlace, After
    <3>4. QED BY <2>2, <3>2, <3>3
  <2>3. QED BY <2>1, <2>2
<1>7. QED BY <1>3, <1>4, <1>5, <1>6

\* The thread goes on to the next file of its bucket, which is the next one of
\* the stream: the file that is done is the one that was verified.
FileDone(s) ==
    /\ rpc[s] = "stamp"
    /\ \E i \in rleft[s] :
         IsNext(rlist, rleft[s], i) /\ rleft' = [rleft EXCEPT ![s] = @ \ {i}]
    /\ rpc' = [rpc EXCEPT ![s] = "open"]
    /\ rbuf' = [rbuf EXCEPT ![s] = <<>>]
    /\ UNCHANGED <<srcVars, sndVars, rcvMain, netVars>>

LEMMA FileDoneStep ==
    ASSUME Inv, NEW s \in Streams, FileDone(s), DiskTypeOK', faults' \in 0..MaxFaults
    PROVE  Inv'
<1> USE DEF Inv
<1>1. PICK i \in rleft[s] :
          IsNext(rlist, rleft[s], i) /\ rleft' = [rleft EXCEPT ![s] = @ \ {i}]
    BY DEF FileDone
<1>2. /\ rst = "stream" /\ rpc[s] = "stamp" /\ i \in DOMAIN rlist
      /\ rleft[s] \in SUBSET DOMAIN rlist
    BY DEF FileDone, Idle, TypeOK, ReceiverTypeOK
<1>3. rpc'[s] = "open" /\ rbuf'[s] = <<>> /\ rleft'[s] = rleft[s] \ {i}
    BY <1>1 DEF FileDone, TypeOK, ReceiverTypeOK
<1>4. TypeOK'
  <2>1. ReceiverTypeOK'
      BY <1>1, EmptySeq DEF FileDone, TypeOK, ReceiverTypeOK
  <2>2. QED BY <2>1 DEF FileDone, TypeOK, SourceTypeOK, SenderTypeOK, NetTypeOK
<1>5. Idle'
    BY <1>2 DEF FileDone, Idle
<1>6. OneSession'
    BY DEF FileDone, OneSession, Requested
<1>7. ASSUME NEW t \in Streams
      PROVE  Fresh(t)' /\ Chained(t)'
  <2>1. CASE t # s
      BY <1>1, <2>1, ChainedSame, FreshSame DEF FileDone, TypeOK, ReceiverTypeOK
  <2>2. CASE t = s
    <3>1. Fresh(s)' BY <1>2 DEF FileDone, Fresh
    <3>2. \A j : IsNext(rlist, rleft[s], j) => j = i
        BY <1>1, <1>2, NextUnique
    <3>3. \A left, n : ReceiverAt(s, left, n) => ReceiverAt(s, left, n)'
        BY <1>2, <1>3, <3>2, EmptySeq DEF ReceiverAt
    <3>4. Chained(s) /\ UNCHANGED <<rst, rlist, conn, chan, sleft, sbuf>>
        BY DEF FileDone
    <3>5. (\A k \in 1..Len(chan[s]) : InPlace(chan[s][k]))'
        BY <1>2, <3>4 DEF Chained, InPlace
    <3>6. (\A k \in 1..(Len(chan[s]) - 1) :
              After(chan[s][k], chan[s][k + 1].left, chan[s][k + 1].n))'
        BY <1>2, <3>4 DEF Chained, After
    <3>7. chan[s] # <<>> => ReceiverAt(s, chan[s][1].left, chan[s][1].n)
        BY <1>2 DEF Chained
    <3>8. (chan[s] # <<>> => ReceiverAt(s, chan[s][1].left, chan[s][1].n))'
        BY <3>3, <3>4, <3>7 DEF ReceiverAt
    <3>9. (conn[s] = "open" =>
              IF chan[s] = <<>>
              THEN ReceiverAt(s, sleft[s], Len(sbuf[s]))
              ELSE After(chan[s][Len(chan[s])], sleft[s], Len(sbuf[s])))'
      <4>1. CASE chan[s] = <<>>
        <5>1. conn[s] = "open" => ReceiverAt(s, sleft[s], Len(sbuf[s]))
            BY <1>2, <4>1 DEF Chained
        <5>2. QED BY <3>3, <3>4, <4>1, <5>1 DEF ReceiverAt
      <4>2. CASE chan[s] # <<>>
          BY <1>2, <3>4, <4>2 DEF Chained, After
      <4>3. QED BY <4>1, <4>2
    <3>10. QED BY <2>2, <3>1, <3>5, <3>6, <3>8, <3>9 DEF Chained
  <2>3. QED BY <2>1, <2>2
<1>8. QED BY <1>4, <1>5, <1>6, <1>7

\* That is so whether the file was stamped ...
LEMMA StampStep ==
    ASSUME Inv, NEW s \in Streams, Stamp(s)
    PROVE  Inv'
<1>1. PICK i \in rleft[s] :
          disk' = IF disk[rlist[i].path].here
                  THEN [disk EXCEPT ![rlist[i].path].mtime = rlist[i].modified,
                                    ![rlist[i].path].stamped = TRUE]
                  ELSE disk
    BY DEF Stamp
<1>2. rlist[i] \in Entries /\ rlist[i].path \in Names
    BY ListNames DEF Inv, TypeOK, ReceiverTypeOK
<1>3. DiskTypeOK'
    BY <1>1, <1>2 DEF Inv, TypeOK, DiskTypeOK, Files, Entries
<1>4. FileDone(s) /\ faults' \in 0..MaxFaults
    BY DEF Stamp, FileDone, Inv, TypeOK
<1>5. QED BY <1>3, <1>4, FileDoneStep

\* ... or could not be.
LEMMA StampFailsStep ==
    ASSUME Inv, NEW s \in Streams, StampFails(s)
    PROVE  Inv'
<1>1. DiskTypeOK' /\ faults' \in 0..MaxFaults
    BY SpendType DEF StampFails, Inv, TypeOK, DiskTypeOK
<1>2. FileDone(s)
    BY DEF StampFails, FileDone
<1>3. QED BY <1>1, <1>2, FileDoneStep

\* Only the marks of what is on a stream matter, not the data.
LEMMA SameMarks ==
    ASSUME NEW s \in Streams, Chained(s), Len(chan[s]) \in Nat \ {0}, chan[s] # <<>>, chan'[s] # <<>>,
           Len(chan'[s]) = Len(chan[s]),
           \A k \in 1..Len(chan[s]) : /\ chan'[s][k].kind = chan[s][k].kind
                                     /\ chan'[s][k].left = chan[s][k].left
                                     /\ chan'[s][k].n = chan[s][k].n,
           UNCHANGED <<rst, rlist, rpc, rleft, rbuf, conn, sleft, sbuf>>
    PROVE  Chained(s)'
<1> SUFFICES ASSUME rst = "stream", rpc[s] # "err" PROVE Chained(s)'
    BY DEF Chained
<1>1. ASSUME NEW k \in 1..Len(chan[s]) PROVE InPlace(chan[s][k])'
  <2>1. InPlace(chan[s][k]) BY DEF Chained
  <2>2. QED BY <2>1 DEF InPlace
<1>2. ASSUME NEW k \in 1..(Len(chan[s]) - 1)
      PROVE  After(chan[s][k], chan[s][k + 1].left, chan[s][k + 1].n)'
  <2>1. After(chan[s][k], chan[s][k + 1].left, chan[s][k + 1].n) BY DEF Chained
  <2>2. k \in 1..Len(chan[s]) /\ k + 1 \in 1..Len(chan[s]) OBVIOUS
  <2>3. QED BY <2>1, <2>2 DEF After
<1>3. ReceiverAt(s, chan[s][1].left, chan[s][1].n)'
  <2>1. ReceiverAt(s, chan[s][1].left, chan[s][1].n) BY DEF Chained
  <2>2. 1 \in 1..Len(chan[s]) OBVIOUS
  <2>3. QED BY <2>1, <2>2 DEF ReceiverAt
<1>4. conn[s] = "open" => After(chan[s][Len(chan[s])], sleft[s], Len(sbuf[s]))'
  <2>1. conn[s] = "open" => After(chan[s][Len(chan[s])], sleft[s], Len(sbuf[s]))
      BY DEF Chained
  <2>2. QED BY <2>1 DEF After
<1>5. QED BY <1>1, <1>2, <1>3, <1>4 DEF Chained

\* A block that changes on its way stays a block, at its position.
LEMMA CorruptStep ==
    ASSUME Inv, NEW s \in Streams, Corrupt(s)
    PROVE  Inv'
<1> USE DEF Inv
<1>1. PICK v \in Block : chan' = [chan EXCEPT ![s][1].val = v]
    BY DEF Corrupt
<1>2. /\ chan[s] \in Seq(Blocks \cup Sums) /\ Len(chan[s]) \in Nat \ {0}
      /\ chan[s][1] \in Blocks
  <2>1. chan[s] \in Seq(Blocks \cup Sums) /\ chan[s] # <<>> /\ Head(chan[s]).kind = "block"
      BY DEF Corrupt, TypeOK, NetTypeOK
  <2>2. Len(chan[s]) \in Nat \ {0} BY <2>1, EmptySeq
  <2>3. chan[s][1] \in Blocks \cup Sums /\ Head(chan[s]) = chan[s][1]
      BY <2>1, <2>2, ElementOfSeq
  <2>4. QED BY <2>1, <2>2, <2>3 DEF Blocks, Sums
<1>3. PICK m \in Blocks :
          /\ m = [chan[s][1] EXCEPT !.val = v]
          /\ m.kind = chan[s][1].kind /\ m.left = chan[s][1].left /\ m.n = chan[s][1].n
    BY <1>2 DEF Blocks
<1>4. /\ chan'[s] \in Seq(Blocks \cup Sums) /\ Len(chan'[s]) = Len(chan[s]) /\ chan'[s] # <<>>
      /\ \A k \in 1..Len(chan[s]) : chan'[s][k] = IF k = 1 THEN m ELSE chan[s][k]
      /\ \A t \in Streams \ {s} : chan'[t] = chan[t]
  <2>1. chan'[s] = [chan[s] EXCEPT ![1] = m] /\ \A t \in Streams \ {s} : chan'[t] = chan[t]
      BY <1>1, <1>3 DEF TypeOK, NetTypeOK
  <2>2. 1 \in 1..Len(chan[s]) BY <1>2
  <2>3. /\ chan'[s] \in Seq(Blocks \cup Sums) /\ Len(chan'[s]) = Len(chan[s])
        /\ \A k \in 1..Len(chan[s]) : chan'[s][k] = IF k = 1 THEN m ELSE chan[s][k]
      BY <1>2, <2>1, <2>2, ExceptSeq
  <2>4. QED BY <1>2, <2>1, <2>3, EmptySeq
<1>5. TypeOK'
  <2>1. NetTypeOK'
      BY <1>1, <1>4 DEF Corrupt, TypeOK, NetTypeOK
  <2>2. faults' \in 0..MaxFaults
      BY SpendType DEF Corrupt
  <2>3. QED BY <2>1, <2>2 DEF Corrupt, TypeOK, SourceTypeOK, SenderTypeOK, ReceiverTypeOK, DiskTypeOK
<1>6. Idle'
    BY DEF Corrupt, Idle
<1>7. OneSession'
    BY DEF Corrupt, OneSession, Requested
<1>8. ASSUME NEW t \in Streams
      PROVE  Fresh(t)' /\ Chained(t)'
  <2>1. CASE t # s
      BY <1>4, <2>1, ChainedSame, FreshSame DEF Corrupt
  <2>2. CASE t = s
    <3>1. Fresh(s)' BY <1>2, <1>4, EmptySeq DEF Corrupt, Fresh
    <3>2. \A k \in 1..Len(chan[s]) : /\ chan'[s][k].kind = chan[s][k].kind
                                     /\ chan'[s][k].left = chan[s][k].left
                                     /\ chan'[s][k].n = chan[s][k].n
        BY <1>3, <1>4
    <3>3. Len(chan[s]) \in Nat \ {0} /\ chan[s] # <<>> BY <1>2, EmptySeq
    <3>4. Chained(s)'
        BY <1>4, <3>2, <3>3, SameMarks DEF Corrupt
    <3>5. QED BY <2>2, <3>1, <3>4
  <2>3. QED BY <2>1, <2>2
<1>9. QED BY <1>5, <1>6, <1>7, <1>8

------------------------------------------------------------------------------
(* The theorems.                                                             *)

\* The programs start with no session.
LEMMA InvInit == Init => Inv
<1> SUFFICES ASSUME Init PROVE Inv
    OBVIOUS
<1> USE DEF Init
<1>1. SourceTypeOK
  <2>1. \A c \in Contents : [data |-> c, mtime |-> 1] \in [data : Seq(Block), mtime : Nat]
      BY ContentsAssumption
  <2>2. src \in [Paths -> [data : Seq(Block), mtime : Nat]]
      BY <2>1
  <2>3. edits \in 0..MaxEdits /\ quiet \in BOOLEAN
    <3>1. 0 \in 0..MaxEdits BY ContentsAssumption
    <3>2. edits = 0 /\ quiet = FALSE OBVIOUS
    <3>3. QED BY <3>1, <3>2
  <2>4. QED BY <2>2, <2>3 DEF SourceTypeOK
<1>2. SenderTypeOK
    BY EmptySeq DEF SenderTypeOK, None
<1>3. ReceiverTypeOK
    BY EmptySeq DEF ReceiverTypeOK, None
<1>4. NetTypeOK
    BY EmptySeq, StreamsAssumption DEF NetTypeOK, None
<1>5. DiskTypeOK
  <2>1. NoStream \in 0..NumStreams
      BY StreamsAssumption DEF NoStream
  <2>2. NoFile \in Files /\ \A c \in OldCopies \cup Leftovers, t \in Clock \cup {0} : Unstamped(c, t) \in Files
      BY <2>1, EmptySeq, ContentsAssumption DEF NoFile, Unstamped, Files
  <2>3. QED BY <2>2 DEF DiskTypeOK
<1>6. TypeOK
    BY <1>1, <1>2, <1>3, <1>4, <1>5, ContentsAssumption DEF TypeOK
<1>7. Idle /\ OneSession
    BY DEF Idle, OneSession
<1>8. ASSUME NEW s \in Streams PROVE Fresh(s) /\ Chained(s)
    BY DEF Fresh, Chained
<1>9. QED BY <1>6, <1>7, <1>8 DEF Inv

\* Every step keeps the invariant.
LEMMA InvStep == Inv /\ [Next]_vars => Inv'
<1> SUFFICES ASSUME Inv, [Next]_vars PROVE Inv'
    OBVIOUS
<1>1. CASE SenderMain
    BY <1>1, LaunchStep, ScanStatStep, ScanCrcStep, ConnectRefusedStep, RecvListStep,
       RecvConfirmStep, ControlLostStep, JoinSenderStep DEF SenderMain
<1>2. CASE ReceiverMain
    BY <1>2, ListenStep, NegotiateStep, PrepareFileStep, ConfirmStep, ConfirmFailsStep,
       JoinReceiverStep, AcceptStrayStep, AcceptFailsStep, ProcessEndsStep DEF ReceiverMain
<1>3. ASSUME NEW s \in Streams, SenderThread(s) PROVE Inv'
    BY <1>3, ConnectStep, ConnectLateStep, SendBlockStep, SendSumStep, FinishStreamStep,
       ReadShortStep, WriteFailsStep DEF SenderThread
<1>4. ASSUME NEW s \in Streams, ReceiverThread(s) PROVE Inv'
    BY <1>4, AcceptStep, OpenTmpStep, RecvBlockStep, VerifyChunkStep, RenameStep,
       StampStep, RecvEofStep DEF ReceiverThread
<1>5. ASSUME NEW p \in Paths, Edit(p) PROVE Inv'
    BY <1>5, EditStep
<1>6. CASE Fault
    BY <1>6, SenderCrashStep, ReceiverCrashStep, ScanSkipStep, StreamIoErrorStep,
       ReceiveIoErrorStep, CorruptStep, StampFailsStep, PrepareUnstampedStep DEF Fault
<1>7. CASE UNCHANGED vars
  <2>1. TypeOK'
      BY <1>7 DEF vars, Inv, TypeOK, SourceTypeOK, SenderTypeOK, ReceiverTypeOK, NetTypeOK,
                  DiskTypeOK
  <2>2. Idle' /\ OneSession'
      BY <1>7 DEF vars, Inv, Idle, OneSession, Requested
  <2>3. ASSUME NEW s \in Streams PROVE Fresh(s)' /\ Chained(s)'
      BY <1>7, ChainedSame, FreshSame DEF vars, Inv
  <2>4. QED BY <2>1, <2>2, <2>3 DEF Inv
<1>8. QED BY <1>1, <1>2, <1>3, <1>4, <1>5, <1>6, <1>7 DEF Next

\* The invariant holds at all times.
LEMMA InvAlways == Spec => []Inv
BY InvInit, InvStep, PTL DEF Spec

\* Every variable of the copy keeps its type: what the receiver writes to a
\* file are blocks and never a checksum, and no stream exceeds its buffer.
THEOREM TransferTypeOK == Spec => []TypeOK
<1>1. Inv => TypeOK BY DEF Inv
<1>2. QED BY <1>1, InvAlways, PTL

\* What is first on a stream is always what the receiver's thread is about to
\* read, for any number of files and streams and whatever fails: the unframed
\* streams of sender.rs:728-755 and receiver.rs:660-693 need no framing.
THEOREM TransferStreamsInStep == Spec => []StreamsInStep
<1>1. Inv => StreamsInStep
  <2> SUFFICES ASSUME Inv, NEW s \in Streams, rst = "stream", rpc[s] # "err", chan[s] # <<>>
               PROVE  LET m == Head(chan[s])
                          busy == rpc[s] \in {"rename", "stamp"}
                      IN  IF busy
                          THEN m.n = 0 /\ \E i \in rleft[s] : IsNext(rlist, rleft[s], i)
                                                              /\ m.left = rleft[s] \ {i}
                          ELSE /\ m.left = rleft[s] /\ m.n = Len(rbuf[s])
                               /\ \A i \in rleft[s] : IsNext(rlist, rleft[s], i) =>
                                     (m.kind = "sum" <=> m.n = TransferSize(rlist[i]))
      BY DEF StreamsInStep
  <2>1. chan[s] \in Seq(Blocks \cup Sums) /\ Len(chan[s]) \in Nat \ {0}
      BY EmptySeq DEF Inv, TypeOK, NetTypeOK
  <2>2. Head(chan[s]) = chan[s][1]
      BY <2>1
  <2>3. InPlace(chan[s][1]) /\ ReceiverAt(s, chan[s][1].left, chan[s][1].n)
      BY <2>1 DEF Inv, Chained
  <2>4. CASE rpc[s] \in {"rename", "stamp"}
      BY <2>2, <2>3, <2>4 DEF ReceiverAt
  <2>5. CASE rpc[s] \notin {"rename", "stamp"}
    <3>1. chan[s][1].left = rleft[s] /\ chan[s][1].n = Len(rbuf[s])
        BY <2>3, <2>5 DEF ReceiverAt
    <3>2. ASSUME NEW i \in rleft[s], IsNext(rlist, rleft[s], i)
          PROVE  chan[s][1].kind = "sum" <=> chan[s][1].n = TransferSize(rlist[i])
      <4>1. PICK j \in rleft[s] :
                /\ IsNext(rlist, rleft[s], j)
                /\ chan[s][1].kind = "sum" <=> chan[s][1].n = TransferSize(rlist[j])
          BY <2>3, <3>1 DEF InPlace
      <4>2. rleft[s] \in SUBSET DOMAIN rlist BY DEF Inv, TypeOK, ReceiverTypeOK
      <4>3. i = j BY <3>2, <4>1, <4>2, NextUnique DEF Inv
      <4>4. QED BY <4>1, <4>3
    <3>3. QED BY <2>2, <2>5, <3>1, <3>2
  <2>6. QED BY <2>4, <2>5
<1>2. QED BY <1>1, InvAlways, PTL
==============================================================================
