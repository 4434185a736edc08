------------------------------ MODULE Transfer ------------------------------
(***************************************************************************)
(* The copy itself: run_sender (src/src/sender.rs) and run_receiver         *)
(* (src/src/receiver.rs) from the scan of the source directory to the last  *)
(* file time set at the destination, over any number of sessions, with       *)
(* aborted sessions resumed by later ones.                                  *)
(*                                                                          *)
(* Covered: the scan, the index, the skip/resume decision, the transfer     *)
(* list, dry runs, the preparation of the destination, the parallel data    *)
(* streams, chunk and full-file checksums, temporary names, renames, time   *)
(* stamps and their failures, the joins, receiving threads that outlive the *)
(* function that spawned them, crashes of either side, edits of the source  *)
(* at any moment, I/O errors, and bytes corrupted on the way.               *)
(*                                                                          *)
(* Abstracted: the handshake before the stream count (module Session); a    *)
(* file is a sequence of blocks, a block being what one iteration of the    *)
(* 64 KB copy loops moves; a CRC32 is the data it was computed from, so      *)
(* collisions are left out; compression and encryption are lossless and      *)
(* left out; directories and permissions are left out.  Only the receiver    *)
(* writes below the destination directory, and the user starts the next one  *)
(* when the process of the last one has ended.                               *)
(***************************************************************************)
EXTENDS Partition

CONSTANTS
    Paths,           \* relative paths of the source tree
    Names,           \* names below the destination directory
    Tmp,             \* Tmp[p] is the name p + ".networkcopy-tmp"
    Block,           \* what one iteration of the copy loops moves
    Contents,        \* what an edit may leave in a source file
    Leftovers,       \* what an earlier session may have left at Tmp[p]
    OldCopies,       \* what may be at p already, from elsewhere
    Clock,           \* the seconds the receiver's clock may show
    NumStreams,      \* the stream count the sender announces
    Cap,             \* blocks and checksums in flight on one stream
    VerifyExisting,  \* ReceiverOptions.verify_existing
    SenderVerify,    \* SenderOptions.verify_existing
    LoopMode,        \* ReceiverOptions.loop_mode
    DryRuns,         \* the values SenderOptions.dry_run takes
    SameSecond,      \* whether an edit may keep the modification second
    MaxEdits,        \* bound: edits of the source
    MaxFaults        \* bound: crashes, I/O errors, corruptions

ASSUME PathsAssumption == Paths \subseteq Names /\ Tmp \in [Paths -> Names]
ASSUME StreamsAssumption == NumStreams \in Nat \ {0} /\ Cap \in Nat \ {0}
ASSUME ContentsAssumption ==
    /\ Contents \cup Leftovers \cup OldCopies \subseteq Seq(Block)
    /\ Clock \subseteq Nat /\ Clock # {}
    /\ DryRuns \subseteq BOOLEAN /\ VerifyExisting \in BOOLEAN
    /\ MaxEdits \in Nat /\ MaxFaults \in Nat

VARIABLES
    src, edits, quiet,                           \* the source directory
    sst, todo, stat, index, dry, slist,          \* the sender's main thread
    spc, sleft, sbuf,                            \* its stream threads
    rst, rlist, prep,                            \* the receiver's main thread
    rpc, rleft, rbuf,                            \* its stream threads
    link, ctl, reqs,                             \* the control connection
    conn, chan,                                  \* the data connections
    disk,                                        \* the destination directory
    faults

srcVars == <<src, edits, quiet>>
sndMain == <<sst, todo, stat, index, dry, slist>>
sndThreads == <<spc, sleft, sbuf>>
sndVars == <<sndMain, sndThreads>>
rcvMain == <<rst, rlist, prep>>
rcvThreads == <<rpc, rleft, rbuf>>
rcvVars == <<rcvMain, rcvThreads>>
ctlVars == <<link, ctl, reqs>>
dataVars == <<conn, chan>>
netVars == <<ctlVars, dataVars>>
vars == <<srcVars, sndVars, rcvVars, netVars, disk, faults>>

Streams == 0..(NumStreams - 1)
NoStream == NumStreams
None == [i \in {} |-> 0]

\* A name of the destination: w is the stream that has the file open for
\* writing.  Writes follow the open file, not the name (RecvBlock).  stamped
\* remembers that its time was set from an index; no action reads that.
NoFile == [here |-> FALSE, data |-> <<>>, mtime |-> 0, w |-> NoStream, stamped |-> FALSE]

\* A file with the time at which it was written, by the receiver's own clock.
Unstamped(c, t) ==
    [here |-> TRUE, data |-> c, mtime |-> t, w |-> NoStream, stamped |-> FALSE]

WrittenInPlace(e) == e.path  \* mutant of TmpName: no temporary name
TmpName(e) == Tmp[e.path]

\* The bucket of stream s, and the files of it that put bytes on the stream.
Bucket(list, s) == {i \in DOMAIN list : BucketOf(list, NumStreams)[i] = s}
Work(list, s) == {i \in Bucket(list, s) : TransferSize(list[i]) > 0}

Spend == faults < MaxFaults /\ faults' = faults + 1

Init ==
    /\ src \in [Paths -> {[data |-> c, mtime |-> 1] : c \in Contents}]
    /\ edits = 0 /\ quiet = FALSE /\ faults = 0
    /\ sst = "off" /\ todo = {} /\ stat = None /\ index = <<>>
    /\ dry = FALSE /\ slist = None
    /\ spc = [s \in Streams |-> "new"] /\ sleft = [s \in Streams |-> {}]
    /\ sbuf = [s \in Streams |-> <<>>]
    /\ rst = "off" /\ rlist = None /\ prep = {}
    /\ rpc = [s \in Streams |-> "open"] /\ rleft = [s \in Streams |-> {}]
    /\ rbuf = [s \in Streams |-> <<>>]
    /\ link = "none" /\ ctl = {} /\ reqs = None
    /\ conn = [s \in Streams |-> "none"] /\ chan = [s \in Streams |-> <<>>]
    /\ disk \in {d \in [Names -> {NoFile} \cup {Unstamped(c, t) : c \in OldCopies, t \in Clock}
                                         \cup {Unstamped(c, 0) : c \in Leftovers}] :
                   \A n \in Names :
                       \/ d[n] = NoFile
                       \/ n \in Paths /\ d[n].data \in OldCopies /\ d[n].mtime \in Clock
                       \/ (\E p \in Paths : n = Tmp[p])
                          /\ d[n].data \in Leftovers /\ d[n].mtime = 0}

------------------------------------------------------------------------------
(* The source directory, edited by its user.  Times are whole seconds.       *)

Edit(p) ==
    /\ edits < MaxEdits
    /\ \E c \in Contents \ {src[p].data},
          t \in {edits + 2} \cup (IF SameSecond THEN {src[p].mtime} ELSE {}) :
         src' = [src EXCEPT ![p] = [data |-> c, mtime |-> t]]
    /\ edits' = edits + 1
    /\ quiet' = FALSE
    /\ UNCHANGED <<sndVars, rcvVars, netVars, disk, faults>>

------------------------------------------------------------------------------
(* The sender's main thread.                                                 *)

Launch ==
    /\ sst \in {"off", "ok"}
    /\ sst' = "scan" /\ todo' = Paths /\ stat' = None /\ index' = <<>>
    /\ dry' \in DryRuns
    /\ slist' = None
    /\ spc' = [s \in Streams |-> "new"] /\ sleft' = [s \in Streams |-> {}]
    /\ sbuf' = [s \in Streams |-> <<>>]
    /\ quiet' = TRUE
    /\ UNCHANGED <<src, edits, rcvVars, netVars, disk, faults>>

\* Size and time are read before the file is opened and its CRC computed.
ScanStat(p) ==
    /\ sst = "scan" /\ p \in todo
    /\ todo' = todo \ {p}
    /\ stat' = [q \in DOMAIN stat \cup {p} |->
                   IF q = p THEN [size |-> Len(src[p].data), modified |-> src[p].mtime]
                   ELSE stat[q]]
    /\ UNCHANGED <<srcVars, sst, index, dry, slist, sndThreads, rcvVars,
                   netVars, disk, faults>>

ScanCrc(p) ==
    /\ sst = "scan" /\ p \in DOMAIN stat
    /\ index' = Append(index, [path |-> p, size |-> stat[p].size,
                               modified |-> stat[p].modified,
                               crc |-> src[p].data, offset |-> 0])
    /\ stat' = [q \in DOMAIN stat \ {p} |-> stat[q]]
    /\ UNCHANGED <<srcVars, sst, todo, dry, slist, sndThreads, rcvVars,
                   netVars, disk, faults>>

\* A file that cannot be opened or read is left out of the index.
ScanSkip(p) ==
    /\ Spend
    /\ sst = "scan" /\ p \in DOMAIN stat
    /\ stat' = [q \in DOMAIN stat \ {p} |-> stat[q]]
    /\ UNCHANGED <<srcVars, sst, todo, index, dry, slist, sndThreads, rcvVars,
                   netVars, disk>>

Scanned == sst = "scan" /\ todo = {} /\ DOMAIN stat = {}

\* What is left of a sender that returned an error or died.
SenderGone ==
    /\ sst' = "off" /\ todo' = {} /\ stat' = None /\ index' = <<>>
    /\ slist' = None
    /\ spc' = [s \in Streams |-> "new"] /\ sleft' = [s \in Streams |-> {}]
    /\ sbuf' = [s \in Streams |-> <<>>]
    /\ link' = IF link = "up" THEN "cut" ELSE link

\* run_receiver has returned an error out of its accept loop.  Its sockets are
\* closed; the threads it has spawned live as long as their process does.
Returned == rst = "stream" /\ link = "none"

\* connect() is refused: no receiver.
ConnectRefused ==
    /\ Scanned /\ (rst = "off" \/ Returned)
    /\ SenderGone
    /\ UNCHANGED <<srcVars, dry, rcvVars, ctl, reqs, dataVars, disk, faults>>

Requested(i) == [index[i] EXCEPT !.offset = reqs[i]]

RecvList ==
    /\ sst = "sent" /\ "list" \in ctl
    /\ slist' = [i \in DOMAIN reqs |-> Requested(i)]
    /\ sst' = IF dry THEN "ok" ELSE "list"
    /\ ctl' = ctl \ {"list"}
    /\ UNCHANGED <<srcVars, todo, stat, index, dry, sndThreads, rcvVars, link,
                   reqs, dataVars, disk, faults>>

\* The confirmation byte: partition the list and spawn one thread per bucket.
RecvConfirm ==
    /\ sst = "list" /\ "ok" \in ctl
    /\ sst' = "stream"
    /\ spc' = [s \in Streams |-> IF Bucket(slist, s) = {} THEN "done" ELSE "new"]
    /\ sleft' = [s \in Streams |-> Work(slist, s)]
    /\ sbuf' = [s \in Streams |-> <<>>]
    /\ ctl' = {}
    /\ UNCHANGED <<srcVars, todo, stat, index, dry, slist, rcvVars, link, reqs,
                   dataVars, disk, faults>>

\* The control connection ends before the message the sender waits for.
ControlLost ==
    /\ \/ sst = "sent" /\ "list" \notin ctl
       \/ sst = "list" /\ "ok" \notin ctl
    /\ link # "up"
    /\ SenderGone
    /\ UNCHANGED <<srcVars, dry, rcvVars, ctl, reqs, dataVars, disk, faults>>

\* All threads joined: success unless one of them failed.
JoinSender ==
    /\ sst = "stream"
    /\ \A s \in Streams : spc[s] \in {"done", "err"}
    /\ IF \E s \in Streams : spc[s] = "err"
       THEN SenderGone
       ELSE /\ sst' = "ok"
            /\ link' = IF link = "up" THEN "cut" ELSE link
            /\ UNCHANGED <<todo, stat, index, slist, sndThreads>>
    /\ UNCHANGED <<srcVars, dry, rcvVars, ctl, reqs, dataVars, disk, faults>>

\* Data still in the kernel's buffers is delivered after a crash of the
\* process and lost with a crash of the machine.
SenderCrash ==
    /\ Spend
    /\ sst \notin {"off", "ok"}
    /\ SenderGone
    /\ conn' = [s \in Streams |-> IF conn[s] \in {"open", "reset"} THEN "closed" ELSE conn[s]]
    /\ \E delivered \in BOOLEAN :
         chan' = IF delivered THEN chan ELSE [s \in Streams |-> <<>>]
    /\ UNCHANGED <<srcVars, dry, rcvVars, ctl, reqs, disk>>

------------------------------------------------------------------------------
(* The sender's stream threads.                                              *)

\* The receiver's listener takes the connection; it may be accepted later.
Connect(s) ==
    /\ sst = "stream" /\ spc[s] = "new" /\ link = "up"
    /\ spc' = [spc EXCEPT ![s] = "run"]
    /\ conn' = [conn EXCEPT ![s] = "open"]
    /\ UNCHANGED <<srcVars, sndMain, sleft, sbuf, rcvVars, ctlVars, chan, disk, faults>>

\* The receiver is gone.  A restarted one takes the connection for a control
\* connection, and returns an error for its magic bytes unless in loop mode.
ConnectLate(s) ==
    /\ sst = "stream" /\ spc[s] = "new" /\ link # "up"
    /\ rst \in {"off", "listen"} \/ Returned
    /\ spc' = [spc EXCEPT ![s] = "err"]
    /\ rst' = IF rst = "listen" /\ ~LoopMode THEN "off" ELSE rst
    /\ UNCHANGED <<srcVars, sndMain, sleft, sbuf, rlist, prep, rcvThreads,
                   netVars, disk, faults>>

\* Mutant of Sending: a bucket is sent in the order of the index.
SendingInListOrder(s, i) == i \in sleft[s] /\ \A j \in sleft[s] : i <= j

\* The file that stream s is sending: the next of its bucket.
Sending(s, i) == IsNext(slist, sleft[s], i)

\* left and n name the position on the stream; the receiver never sees them.
Message(s, kind, val) ==
    [kind |-> kind, val |-> val, left |-> sleft[s], n |-> Len(sbuf[s])]

RoomForOneMore(s) == Len(chan[s]) <= Cap  \* mutant of Room

Room(s) == Len(chan[s]) < Cap

\* A write blocks on a full stream; after a reset it may still succeed, into
\* the void.
Write(s, m) ==
    \/ conn[s] = "open" /\ Room(s)
       /\ chan' = [chan EXCEPT ![s] = Append(@, m)]
    \/ conn[s] = "reset" /\ chan' = chan

SendBlock(s) ==
    /\ spc[s] = "run"
    /\ \E i \in sleft[s] :
         LET e == slist[i]
             k == e.offset + Len(sbuf[s]) + 1
         IN  /\ Sending(s, i)
             /\ Len(sbuf[s]) < TransferSize(e)
             /\ k <= Len(src[e.path].data)
             /\ Write(s, Message(s, "block", src[e.path].data[k]))
             /\ sbuf' = [sbuf EXCEPT ![s] = Append(@, src[e.path].data[k])]
    /\ UNCHANGED <<srcVars, sndMain, spc, sleft, rcvVars, ctlVars, conn, disk, faults>>

\* After the last block of a file, the CRC of the blocks sent.
SendSum(s) ==
    /\ spc[s] = "run"
    /\ \E i \in sleft[s] :
         /\ Sending(s, i)
         /\ Len(sbuf[s]) = TransferSize(slist[i])
         /\ Write(s, Message(s, "sum", sbuf[s]))
         /\ sleft' = [sleft EXCEPT ![s] = @ \ {i}]
    /\ sbuf' = [sbuf EXCEPT ![s] = <<>>]
    /\ UNCHANGED <<srcVars, sndMain, spc, rcvVars, ctlVars, conn, disk, faults>>

FinishStream(s) ==
    /\ spc[s] = "run" /\ sleft[s] = {}
    /\ spc' = [spc EXCEPT ![s] = "done"]
    /\ conn' = [conn EXCEPT ![s] = "closed"]
    /\ UNCHANGED <<srcVars, sndMain, sleft, sbuf, rcvVars, ctlVars, chan, disk, faults>>

StreamFails(s) ==
    /\ spc' = [spc EXCEPT ![s] = "err"]
    /\ conn' = [conn EXCEPT ![s] = IF @ = "none" THEN @ ELSE "closed"]
    /\ UNCHANGED <<srcVars, sndMain, sleft, sbuf, rcvVars, ctlVars, chan, disk>>

\* The file has become shorter than the index says: read_exact fails.
ReadShort(s) ==
    /\ spc[s] = "run"
    /\ \E i \in sleft[s] :
         LET e == slist[i] IN
         /\ Sending(s, i)
         /\ Len(sbuf[s]) < TransferSize(e)
         /\ e.offset + Len(sbuf[s]) >= Len(src[e.path].data)
    /\ StreamFails(s) /\ UNCHANGED faults

WriteFails(s) ==
    /\ spc[s] = "run" /\ sleft[s] # {} /\ conn[s] = "reset"
    /\ StreamFails(s) /\ UNCHANGED faults

\* The connection cannot be made, or the source file cannot be read.
StreamIoError(s) ==
    /\ Spend
    /\ sst = "stream" /\ spc[s] \in {"new", "run"}
    /\ StreamFails(s)

------------------------------------------------------------------------------
(* The receiver's main thread.                                               *)

Listen ==
    /\ rst \in {"off", "ok"}
    /\ rst' = "listen" /\ rlist' = None
    /\ UNCHANGED <<srcVars, sndVars, prep, rcvThreads, netVars, disk, faults>>

\* The receiver leaves the session: its sockets and its handles are closed.
ReceiverLeaves(st) ==
    /\ rst' = st
    /\ prep' = {}
    /\ rpc' = [s \in Streams |-> "open"] /\ rleft' = [s \in Streams |-> {}]
    /\ rbuf' = [s \in Streams |-> <<>>]
    /\ link' = "none" /\ ctl' = {} /\ reqs' = None
    /\ conn' = [s \in Streams |-> IF conn[s] = "open" THEN "reset" ELSE conn[s]]
    /\ chan' = [s \in Streams |-> <<>>]

HandlesClosed == [n \in Names |-> [disk[n] EXCEPT !.w = NoStream]]

SkipBySize(e) ==  \* mutant of Skip: the time is not compared
    disk[e.path].here /\ Len(disk[e.path].data) = e.size
SkipByTime(e) ==  \* mutant of Skip: verify_existing is not read
    SkipBySize(e) /\ disk[e.path].mtime = e.modified
SkipIfNewer(e) ==  \* mutant of Skip: equal times do not count
    SkipBySize(e) /\ disk[e.path].mtime > e.modified

\* A file is skipped when the destination has it with the size and the time,
\* or, verifying, with the size and the CRC, of the index.
Skip(e) ==
    LET d == disk[e.path] IN
    /\ d.here /\ Len(d.data) = e.size
    /\ IF VerifyExisting THEN d.data = e.crc ELSE d.mtime = e.modified

ResumeFull(e) ==  \* mutant of ResumeOffset: off by one
    LET t == disk[TmpName(e)] IN
    IF t.here /\ 0 < Len(t.data) /\ Len(t.data) <= e.size THEN Len(t.data) ELSE 0

\* A shorter temporary file is taken for the first part of the file.
ResumeOffset(e) ==
    LET t == disk[TmpName(e)] IN
    IF t.here /\ 0 < Len(t.data) /\ Len(t.data) < e.size THEN Len(t.data) ELSE 0

\* The sender's index reaches the receiver, which answers with its requests.
\* A dry run ends there.  (Sending the index and deciding on it commute with
\* everything else either side can do in between, so they are one step.)
Negotiate ==
    /\ Scanned /\ rst = "listen" /\ link = "none"
    /\ LET wanted == {i \in DOMAIN index : ~Skip(index[i])}
           list == [i \in wanted |->
                       [index[i] EXCEPT !.offset = ResumeOffset(index[i])]]
       IN  /\ reqs' = [i \in wanted |-> list[i].offset]
           /\ rlist' = IF dry THEN None ELSE list
           /\ prep' = IF dry THEN {} ELSE wanted
    /\ sst' = "sent"
    /\ rst' = IF dry THEN "ok" ELSE "prep"
    /\ link' = IF dry THEN "none" ELSE "up"
    /\ ctl' = {"list"}
    /\ UNCHANGED <<srcVars, todo, stat, index, dry, slist, sndThreads,
                   rcvThreads, dataVars, disk, faults>>

\* The files to transfer, in list order: a temporary file that is not resumed
\* is removed, an empty file is created at its final name and stamped.
PrepareFile ==
    /\ rst = "prep"
    /\ \E i \in prep :
         LET e == rlist[i] IN
         /\ \A j \in prep : i <= j
         /\ disk' = IF e.size = 0
                    THEN [disk EXCEPT ![e.path] =
                            [Unstamped(<<>>, e.modified) EXCEPT !.stamped = TRUE]]
                    ELSE IF e.offset = 0
                    THEN [disk EXCEPT ![TmpName(e)] = NoFile]
                    ELSE disk
         /\ prep' = prep \ {i}
    /\ UNCHANGED <<srcVars, sndVars, rst, rlist, rcvThreads, netVars, faults>>

\* The same when the time of an empty file cannot be set: the error is ignored.
\* (A crash between the two calls leaves the same file.)
PrepareUnstamped ==
    /\ Spend
    /\ rst = "prep"
    /\ \E i \in prep, t \in Clock :
         /\ \A j \in prep : i <= j
         /\ rlist[i].size = 0
         /\ disk' = [disk EXCEPT ![rlist[i].path] = Unstamped(<<>>, t)]
         /\ prep' = prep \ {i}
    /\ UNCHANGED <<srcVars, sndVars, rst, rlist, rcvThreads, netVars>>

\* The confirmation byte; a write to a sender that died may still succeed.
Confirm ==
    /\ rst = "prep" /\ prep = {}
    /\ rst' = "stream"
    /\ ctl' = ctl \cup {"ok"}
    /\ rpc' = [s \in Streams |-> IF Bucket(rlist, s) = {} THEN "open" ELSE "wait"]
    /\ rleft' = [s \in Streams |-> Work(rlist, s)]
    /\ rbuf' = [s \in Streams |-> <<>>]
    /\ conn' = [s \in Streams |-> "none"] /\ chan' = [s \in Streams |-> <<>>]
    /\ UNCHANGED <<srcVars, sndVars, rlist, prep, link, reqs, disk, faults>>

ConfirmFails ==
    /\ rst = "prep" /\ prep = {} /\ link = "cut"
    /\ ReceiverLeaves("off") /\ rlist' = None
    /\ UNCHANGED <<srcVars, sndVars, disk, faults>>

\* Mutant of Finished: only the threads spawned so far are joined.
FinishedOrNew(s) == rpc[s] \in {"err", "wait"} \/ (rpc[s] = "open" /\ rleft[s] = {})

\* A thread of the receiver has run to its end.
Finished(s) == rpc[s] = "err" \/ (rpc[s] = "open" /\ rleft[s] = {})

JoinReceiver ==
    /\ rst = "stream" /\ ~Returned
    /\ \A s \in Streams : Finished(s)
    /\ IF \E s \in Streams : rpc[s] = "err"
       THEN ReceiverLeaves("off") /\ rlist' = None
       ELSE ReceiverLeaves("ok") /\ rlist' = rlist
    /\ disk' = HandlesClosed
    /\ UNCHANGED <<srcVars, sndVars, faults>>

StrayArrives ==
    /\ rst = "stream" /\ \E s \in Streams : rpc[s] = "wait"
    /\ \A s \in Streams : rpc[s] = "wait" => conn[s] = "none"
    /\ Scanned

\* Mutant of AcceptStray: the connection is dropped, the receiver waits on.
StrayDropped ==
    /\ StrayArrives
    /\ sst' = "off" /\ index' = <<>>
    /\ UNCHANGED <<srcVars, todo, stat, dry, slist, sndThreads, rcvVars,
                   netVars, disk, faults>>

\* An error in the accept loop: run_receiver returns.  The streams it was to
\* accept are refused; it leaves the threads of the others behind.
AcceptLoopFails ==
    /\ rpc' = [s \in Streams |-> IF rpc[s] = "wait" THEN "err" ELSE rpc[s]]
    /\ conn' = [s \in Streams |-> IF rpc[s] = "wait" /\ conn[s] = "open" THEN "reset" ELSE conn[s]]
    /\ chan' = [s \in Streams |-> IF rpc[s] = "wait" THEN <<>> ELSE chan[s]]
    /\ link' = "none" /\ ctl' = {} /\ reqs' = None
    /\ UNCHANGED <<rcvMain, rleft, rbuf, disk>>

\* The connection accepted for a data stream is the control connection of a
\* sender launched since: its magic bytes are wrong, and the receiver returns.
\* (Connections are accepted in the order they were made.)
AcceptStray ==
    /\ StrayArrives
    /\ AcceptLoopFails
    /\ sst' = "off" /\ index' = <<>>
    /\ UNCHANGED <<srcVars, todo, stat, dry, slist, sndThreads, faults>>

\* The sender died between connect() and its magic bytes.
AcceptFails(s) ==
    /\ rst = "stream" /\ rpc[s] = "wait" /\ conn[s] = "closed" /\ chan[s] = <<>>
    /\ spc[s] # "done"
    /\ AcceptLoopFails
    /\ UNCHANGED <<srcVars, sndVars, faults>>

\* The process of a receiver that has returned: at once from the command line,
\* when the user presses Enter in the wizard.
ProcessEnds ==
    /\ Returned
    /\ ReceiverLeaves("off") /\ rlist' = None
    /\ disk' = HandlesClosed
    /\ UNCHANGED <<srcVars, sndVars, faults>>

ReceiverCrash ==
    /\ Spend
    /\ rst \in {"prep", "stream"}
    /\ ReceiverLeaves("off") /\ rlist' = None
    /\ disk' = HandlesClosed
    /\ UNCHANGED <<srcVars, sndVars>>

------------------------------------------------------------------------------
(* The receiver's stream threads.                                            *)

Accept(s) ==
    /\ rst = "stream" /\ rpc[s] = "wait" /\ conn[s] # "none"
    /\ rpc' = [rpc EXCEPT ![s] = "open"]
    /\ UNCHANGED <<srcVars, sndVars, rcvMain, rleft, rbuf, netVars, disk, faults>>

\* A resumed file is opened for appending, any other created or truncated.
\* (Nobody reads the time of a temporary file; Rename chooses it.)
OpenTmp(s) ==
    /\ rst = "stream" /\ rpc[s] = "open"
    /\ \E i \in rleft[s] :
         LET e == rlist[i]
             t == TmpName(e)
         IN  /\ IsNext(rlist, rleft[s], i)
             /\ IF e.offset > 0 /\ ~disk[t].here
                THEN rpc' = [rpc EXCEPT ![s] = "err"] /\ disk' = disk
                ELSE /\ rpc' = [rpc EXCEPT ![s] = "recv"]
                     /\ disk' = [disk EXCEPT ![t] =
                            [Unstamped(IF e.offset > 0 THEN @.data ELSE <<>>, 0)
                                EXCEPT !.w = s]]
    /\ UNCHANGED <<srcVars, sndVars, rcvMain, rleft, rbuf, netVars, faults>>

\* The receiver counts bytes: it takes what is next on the stream for data
\* until the file is complete, and for a checksum then.
RecvBlock(s) ==
    /\ rpc[s] = "recv" /\ chan[s] # <<>>
    /\ \E i \in rleft[s] :
         LET t == TmpName(rlist[i]) IN
         /\ IsNext(rlist, rleft[s], i)
         /\ Len(rbuf[s]) < TransferSize(rlist[i])
         /\ disk' = IF disk[t].w = s
                    THEN [disk EXCEPT ![t].data = Append(@, Head(chan[s]).val)]
                    ELSE disk
    /\ rbuf' = [rbuf EXCEPT ![s] = Append(@, Head(chan[s]).val)]
    /\ chan' = [chan EXCEPT ![s] = Tail(@)]
    /\ UNCHANGED <<srcVars, sndVars, rcvMain, rpc, rleft, ctlVars, conn, faults>>

FullNotChecked(e) == TRUE   \* mutant of FullOk

\* The chunk must match its checksum and a resumed file, read back by its
\* name, the CRC of the index; otherwise the temporary file is removed.
ChunkOk(s) == Head(chan[s]).val = rbuf[s]
FullOk(e) == e.offset > 0 => disk[TmpName(e)].here /\ disk[TmpName(e)].data = e.crc
Rejected(t) == [disk EXCEPT ![t] = NoFile]

VerifyChunk(s) ==
    /\ rpc[s] = "recv" /\ chan[s] # <<>>
    /\ \E i \in rleft[s] :
         LET e == rlist[i]
             t == TmpName(e)
         IN  /\ IsNext(rlist, rleft[s], i)
             /\ Len(rbuf[s]) = TransferSize(e)
             /\ IF ChunkOk(s) /\ FullOk(e)
                THEN /\ rpc' = [rpc EXCEPT ![s] = "rename"]
                     /\ disk' = [disk EXCEPT ![t].w = NoStream]
                ELSE /\ rpc' = [rpc EXCEPT ![s] = "err"]
                     /\ disk' = Rejected(t)
    /\ chan' = [chan EXCEPT ![s] = Tail(@)]
    /\ UNCHANGED <<srcVars, sndVars, rcvMain, rleft, rbuf, ctlVars, conn, faults>>

\* The file keeps the time of its last write.
Rename(s) ==
    /\ rpc[s] = "rename"
    /\ \E i \in rleft[s], t \in Clock :
         LET p == rlist[i].path IN
         /\ IsNext(rlist, rleft[s], i)
         /\ IF disk[Tmp[p]].here
            THEN /\ rpc' = [rpc EXCEPT ![s] = "stamp"]
                 /\ disk' = [disk EXCEPT ![p] = [disk[Tmp[p]] EXCEPT !.mtime = t],
                                         ![Tmp[p]] = NoFile]
            ELSE rpc' = [rpc EXCEPT ![s] = "err"] /\ disk' = disk
    /\ UNCHANGED <<srcVars, sndVars, rcvMain, rleft, rbuf, netVars, faults>>

\* The file time of the index, and on to the next file of the bucket.
Stamp(s) ==
    /\ rpc[s] = "stamp"
    /\ \E i \in rleft[s] :
         LET e == rlist[i] IN
         /\ IsNext(rlist, rleft[s], i)
         /\ disk' = IF disk[e.path].here
                    THEN [disk EXCEPT ![e.path].mtime = e.modified, ![e.path].stamped = TRUE]
                    ELSE disk
         /\ rleft' = [rleft EXCEPT ![s] = @ \ {i}]
    /\ rpc' = [rpc EXCEPT ![s] = "open"]
    /\ rbuf' = [rbuf EXCEPT ![s] = <<>>]
    /\ UNCHANGED <<srcVars, sndVars, rcvMain, netVars, faults>>

\* The time cannot be set: the error is ignored, and the file counts as done.
StampFails(s) ==
    /\ Spend
    /\ rpc[s] = "stamp"
    /\ \E i \in rleft[s] :
         /\ IsNext(rlist, rleft[s], i)
         /\ rleft' = [rleft EXCEPT ![s] = @ \ {i}]
    /\ rpc' = [rpc EXCEPT ![s] = "open"]
    /\ rbuf' = [rbuf EXCEPT ![s] = <<>>]
    /\ UNCHANGED <<srcVars, sndVars, rcvMain, netVars, disk>>

\* The stream ends inside a file: the temporary file stays for a later resume.
RecvEof(s) ==
    /\ rpc[s] = "recv" /\ chan[s] = <<>> /\ conn[s] = "closed"
    /\ rpc' = [rpc EXCEPT ![s] = "err"]
    /\ UNCHANGED <<srcVars, sndVars, rcvMain, rleft, rbuf, netVars, disk, faults>>

\* Disk full, or a rename refused.
ReceiveIoError(s) ==
    /\ Spend
    /\ rst = "stream" /\ rpc[s] \in {"recv", "rename"}
    /\ rpc' = [rpc EXCEPT ![s] = "err"]
    /\ UNCHANGED <<srcVars, sndVars, rcvMain, rleft, rbuf, netVars, disk>>

\* A block changes on its way, undetected below this program.
Corrupt(s) ==
    /\ Spend
    /\ chan[s] # <<>> /\ Head(chan[s]).kind = "block"
    /\ \E v \in Block \ {Head(chan[s]).val} : chan' = [chan EXCEPT ![s][1].val = v]
    /\ UNCHANGED <<srcVars, sndVars, rcvVars, ctlVars, conn, disk>>

------------------------------------------------------------------------------
SenderMain ==
    \/ Launch \/ (\E p \in Paths : ScanStat(p) \/ ScanCrc(p))
    \/ ConnectRefused \/ RecvList \/ RecvConfirm \/ ControlLost \/ JoinSender

SenderThread(s) ==
    \/ Connect(s) \/ ConnectLate(s) \/ SendBlock(s) \/ SendSum(s)
    \/ FinishStream(s) \/ ReadShort(s) \/ WriteFails(s)

ReceiverMain ==
    \/ Listen \/ Negotiate \/ PrepareFile \/ Confirm \/ ConfirmFails
    \/ JoinReceiver \/ ProcessEnds \/ AcceptStray \/ (\E s \in Streams : AcceptFails(s))

ReceiverThread(s) ==
    \/ Accept(s) \/ OpenTmp(s) \/ RecvBlock(s) \/ VerifyChunk(s) \/ Rename(s)
    \/ Stamp(s) \/ RecvEof(s)

Fault ==
    \/ SenderCrash \/ ReceiverCrash \/ (\E p \in Paths : ScanSkip(p))
    \/ PrepareUnstamped
    \/ (\E s \in Streams :
          StreamIoError(s) \/ ReceiveIoError(s) \/ StampFails(s) \/ Corrupt(s))

Next ==
    \/ SenderMain \/ ReceiverMain
    \/ (\E s \in Streams : SenderThread(s) \/ ReceiverThread(s))
    \/ (\E p \in Paths : Edit(p))
    \/ Fault

Spec == Init /\ [][Next]_vars

Sender == SenderMain \/ \E s \in Streams : SenderThread(s)
Receiver == ReceiverMain \/ \E s \in Streams : ReceiverThread(s)

\* Each program does something whenever it can, and is started again by its user
\* when it has returned; edits and faults may happen or not.  Which of its
\* threads runs is left open: a session has no loop that one could stay in.
Fairness == WF_vars(Sender) /\ WF_vars(Receiver)

FairSpec == Spec /\ Fairness

------------------------------------------------------------------------------
Entries == [path : Paths, size : Nat, modified : Nat, crc : Seq(Block), offset : Nat]
Blocks == [kind : {"block"}, val : Block, left : SUBSET Nat, n : Nat]
Sums == [kind : {"sum"}, val : Seq(Block), left : SUBSET Nat, n : Nat]
Files ==
    [here : BOOLEAN, data : Seq(Block), mtime : Nat, w : 0..NumStreams, stamped : BOOLEAN]

SourceTypeOK ==
    /\ src \in [Paths -> [data : Seq(Block), mtime : Nat]]
    /\ edits \in 0..MaxEdits /\ quiet \in BOOLEAN
SenderTypeOK ==
    /\ sst \in {"off", "scan", "sent", "list", "stream", "ok"}
    /\ todo \subseteq Paths /\ DOMAIN stat \subseteq Paths
    /\ \A p \in DOMAIN stat : stat[p] \in [size : Nat, modified : Nat]
    /\ index \in Seq(Entries) /\ dry \in BOOLEAN
    /\ DOMAIN slist \subseteq DOMAIN index /\ slist \in [DOMAIN slist -> Entries]
    /\ spc \in [Streams -> {"new", "run", "done", "err"}]
    /\ sleft \in [Streams -> SUBSET DOMAIN slist]
    /\ sbuf \in [Streams -> Seq(Block)]
ReceiverTypeOK ==
    /\ rst \in {"off", "listen", "prep", "stream", "ok"}
    /\ DOMAIN rlist \subseteq Nat /\ rlist \in [DOMAIN rlist -> Entries]
    /\ prep \subseteq DOMAIN rlist
    /\ rpc \in [Streams -> {"wait", "open", "recv", "rename", "stamp", "err"}]
    /\ rleft \in [Streams -> SUBSET DOMAIN rlist]
    /\ rbuf \in [Streams -> Seq(Block)]
NetTypeOK ==
    /\ link \in {"none", "up", "cut"} /\ ctl \subseteq {"list", "ok"}
    /\ DOMAIN reqs \subseteq Nat /\ reqs \in [DOMAIN reqs -> Nat]
    /\ conn \in [Streams -> {"none", "open", "closed", "reset"}]
    /\ chan \in [Streams -> Seq(Blocks \cup Sums)]
    /\ \A s \in Streams : Len(chan[s]) <= Cap
DiskTypeOK == disk \in [Names -> Files]

\* The types of the variables; a stream never holds more than its capacity.
TypeOK ==
    /\ SourceTypeOK /\ SenderTypeOK /\ ReceiverTypeOK /\ NetTypeOK /\ DiskTypeOK
    /\ faults \in 0..MaxFaults

\* The streams carry neither file names nor lengths: what each side takes the
\* next bytes for depends on its own partition of its own list.  What is first
\* on a stream is always what the receiver's thread is about to read
\* (sender.rs:728-755 against receiver.rs:660-693).
StreamsInStep ==
    \A s \in Streams : rst = "stream" /\ rpc[s] # "err" /\ chan[s] # <<>> =>
        LET m == Head(chan[s])
            busy == rpc[s] \in {"rename", "stamp"}
        IN  IF busy
            THEN m.n = 0 /\ \E i \in rleft[s] : IsNext(rlist, rleft[s], i) /\ m.left = rleft[s] \ {i}
            ELSE /\ m.left = rleft[s] /\ m.n = Len(rbuf[s])
                 /\ \A i \in rleft[s] : IsNext(rlist, rleft[s], i) =>
                       (m.kind = "sum" <=> m.n = TransferSize(rlist[i]))

\* A destination file that was stamped and has its source's time has its data,
\* whatever edits, crashes, resumes and corruption came before: the skip by size
\* and time keeps no stale or damaged copy of those (receiver.rs:488-496, 741-755).
StampSound ==
    \A p \in Paths :
        disk[p].stamped /\ disk[p].mtime = src[p].mtime => disk[p].data = src[p].data

\* The limit of the skip: a file never stamped (a copy from elsewhere, a crash
\* before set_file_times, a failure of it) that happens to have been written in
\* the second of its source's last edit (receiver.rs:491, 754).
Coincides(p) ==
    /\ ~VerifyExisting
    /\ disk[p].here /\ ~disk[p].stamped
    /\ disk[p].mtime = src[p].mtime /\ Len(disk[p].data) = Len(src[p].data)

\* A file of the destination is only ever replaced as a whole: by a complete
\* file of the size in the index, or by an empty one where the index has an
\* empty one; it never disappears (README.md:28, receiver.rs:561-573, 741).
Replaced(p) ==
    \/ disk'[p].here = disk[p].here /\ disk'[p].data = disk[p].data
    \/ /\ disk'[p].here
       /\ \E i \in DOMAIN rlist : rlist[i].path = p /\ Len(disk'[p].data) = rlist[i].size
AtomicReplace == [][\A p \in Paths : Replaced(p)]_vars

\* A receiver that reports success has every file of the transfer list, at its
\* final name, with the size of the index; and with its time, unless setting it
\* failed, which the receiver does not report (receiver.rs:752-782).
ReceiverOkComplete ==
    rst = "ok" => \A i \in DOMAIN rlist :
        LET d == disk[rlist[i].path] IN
        d.here /\ Len(d.data) = rlist[i].size /\ (d.stamped => d.mtime = rlist[i].modified)

Exact(p) == disk[p].here /\ disk[p].data = src[p].data

\* When both sides report success and nobody edited the source since the
\* sender was started, the destination has every indexed file as it is: those
\* sent, those resumed and those skipped, but for the coincidence the skip
\* cannot tell from a file it has stamped (README.md:25-28).
ExactCopy ==
    sst = "ok" /\ rst = "ok" /\ ~dry /\ quiet =>
        \A i \in DOMAIN index : Exact(index[i].path) \/ Coincides(index[i].path)

\* ... and a sender asked to verify existing files gets that even when an edit
\* kept the modification second (README.md:69).
SenderVerifyHonoured == SenderVerify => ExactCopy

\* A file is replaced and stamped once: when the destination has its source's data
\* and a time set to its source's, no session, however it is aborted, resumed or
\* overtaken by edits of other files, touches it again before its source is edited
\* (receiver.rs:473-519, 741-755).
Synced(p) == Exact(p) /\ disk[p].stamped /\ disk[p].mtime = src[p].mtime
StaysSynced == [][\A p \in Paths : Synced(p) /\ src'[p] = src[p] => Synced(p)']_vars

\* Once edits and faults stop, restarting both programs gets the destination
\* in step with the source, whatever an aborted session has left there, but for
\* the same coincidence.
EventuallySynced == <>[](\A p \in Paths : Exact(p) \/ Coincides(p))

------------------------------------------------------------------------------
(* Transfer implements Mirror.  A session of Mirror is what the receiver does *)
(* from the index to its join; what it owes is what the sender indexed, as    *)
(* long as that sender lives and nobody has edited the source, but for what  *)
(* it skips because the times coincide.                                       *)

\* The positions of the transfer list that are renamed and not yet stamped.
Unstamping ==
    UNION {{i \in rleft[s] : rpc[s] = "stamp" /\ IsNext(rlist, rleft[s], i)} : s \in Streams}
Outstanding ==
    IF rst = "prep" THEN {i \in DOMAIN rlist : i \in prep \/ rlist[i].size > 0}
    ELSE (UNION {rleft[s] : s \in Streams}) \ Unstamping
MirrorEntry(i) == [path |-> rlist[i].path, size |-> rlist[i].size, modified |-> rlist[i].modified]

ToPut == {MirrorEntry(i) : i \in Outstanding}
ToStamp == {MirrorEntry(i) : i \in Unstamping}
Delivered ==
    [p \in Paths |-> [here |-> disk[p].here, data |-> disk[p].data, mtime |-> disk[p].mtime]]
Phase == IF rst \in {"prep", "stream"} THEN "copying" ELSE IF rst = "ok" THEN "ok" ELSE "idle"
Promised ==
    IF /\ quiet /\ ~dry /\ sst \in {"sent", "list", "stream", "ok"}
       /\ rst \in {"prep", "stream", "ok"}
    THEN {index[i].path : i \in {j \in DOMAIN index :
                                    j \in DOMAIN rlist \/ ~Coincides(index[j].path)}}
    ELSE {}

Copied == INSTANCE Mirror WITH
    Data <- Seq(Block), dst <- Delivered, phase <- Phase, left <- ToPut, fresh <- ToStamp,
    due <- Promised

\* Every behaviour of the two programs and their network is one of Mirror:
\* each session replaces each file of its list once, as a whole, and tries to set
\* its time only after that, puts what the sender indexed where it owes it, skips
\* only what is equal or coincides, and reports success when nothing is left
\* (receiver.rs:480-786).
MirrorsSource == Copied!Spec
==============================================================================
