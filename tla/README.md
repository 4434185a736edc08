# NetworkCopy: TLA+ models, checks and proofs

NetworkCopy copies a directory tree from one host to another over several
parallel TCP streams. This directory holds TLA+ models of it, TLC runs that
check them on small instances, and TLAPS proofs of the results that matter for
every size. Source lines below are of `src/` in the program's repository;
integration tests are in `tests/integration_test.rs`.

    tlc -workers 2 -config resume.cfg MCTransfer     # any run of the table below
    tlapm TransferProofs.tla                         # any module with theorems

## 1. Inventory of the system

| part | state | operations | talks to |
| --- | --- | --- | --- |
| **Index scan** `sender.rs` `scan_directory`, `calculate_file_crc32` | the list of `FileEntry` | walk the tree, stat each file, open it, compute its CRC; a file that cannot be read is left out | the source directory, which its user may edit meanwhile |
| **Sender** `sender.rs` `run_sender` | index, transfer list, one thread per stream | connect, handshake, send the index, read back requests with resume offsets, partition, stream data and chunk CRCs, join | receiver: control connection and data connections |
| **Receiver** `receiver.rs` `run_receiver` | the listener, one session, transfer list, one thread per stream, temporary files | accept, handshake, decide skip/resume/send, prepare the destination, confirm, accept data streams, write, verify, rename, set the file time, join, next client in loop mode | sender, the destination directory |
| **Partition** `protocol.rs` `partition_files` | none | longest-processing-time-first split of the transfer list into buckets | evaluated by both ends on their own list |
| **Handshake and pairing** both files | flags each side has read | magic, mode, version, encrypt flag, nonces, HMAC challenge, pairing code, verdicts | untagged bytes on the control connection |
| **Speedtest** `run_speedtest_client`, `run_speedtest_server` | round, streams connected | command 1, count, ready, streams for 500 ms, speed | the same listener as everything else |
| **Benchmark** `benchmark.rs`, `main.rs:326-470` | streams, counters | mode 3 session: flood streams, measure | receiver, or a listener of its own |
| **Encrypted stream** `encrypted_stream.rs` | nonce counters, read buffer | frame, encrypt, decrypt, refuse | under every control and data connection with `--encrypt` |
| **Discovery** `discover_receiver`, `start_udp_broadcaster` | a stop flag | announce every second until stopped; wait three seconds for one announcement | UDP |
| **Path rules** `protocol.rs` `sanitize_rel_path`, `should_skip` of the scan | none | refuse or filter names | index, scan |
| **Presets, command line, wizards, firewall** `preset.rs`, `main.rs` | none | parse, ask, call `netsh` | start `run_sender`/`run_receiver` |

### How the parts interact

One TCP listener serves everything: control, data, speedtest and benchmark
connections, of any client, are accepted by whichever loop of `run_receiver`
runs at the moment, and told apart by magic bytes alone. A session is one
control connection. Its sender sends an index; the receiver answers with the
positions it wants and an offset for each; both sides then compute the *same*
partition of the *same* list, and bytes go over the data streams with neither
names nor lengths, only a CRC after each file. The receiver sends no final
answer: the sender is done when its last byte is in the socket buffer.

### What is hard

* *Unframed streams.* Which file the next byte belongs to is something each end
  derives from its own list, offsets, partition and sort.
* *State read early, used late.* Size and time, then CRC, then the data of a
  file are read at three different moments while its user may edit it. Times
  are whole seconds.
* *Aborted sessions.* What a crash or an error leaves in temporary files, and
  between rename and file time, is the input of the next session.
* *One listener for all.* Whatever connects next is taken for what is awaited.
* *No tags and no read timeouts.* Two ends that read a flag differently wait
  for each other.
* *Nothing sent that could be derived.* Nonces, stream indices and frame counters
  are computed at each end.
* *Threads that outlive their cause.* The broadcaster is told to stop by a flag
  that most error returns do not set. An error in the transfer's accept loop drops
  the handles of the receiving threads already spawned, which go on for as long as
  their process lives.
* *Errors nobody is told of.* Whether a file time could be set is not looked at,
  and the skip of the next session goes by it.
* *Errors passed up.* `?` leaves `run_receiver` as a whole, `continue` only the
  session; which of the two happens differs from line to line.

`PROJECT.json` lists each hazard at its line with the properties against it.

### What makes each part correct

* Partition: every file in exactly one bucket, the buckets balanced, and the two
  ends agreeing.
* Copy: the streams stay in step; a destination file is only ever replaced by a
  whole one; what is skipped is equal to the source; success at both ends means
  an exact copy; restarting gets there in the end. The last three have one limit,
  a coincidence of times that the code cannot tell (section 2, *File times*).
* Handshake: both ends agree on what comes next; nobody is served who should
  not be; everybody reaches an end.
* Speedtest, benchmark: streams counted are the client's own; every test ends.
* Encrypted stream: what is read is a prefix of what was written, whatever the
  sizes of reads and writes; a cut is told from an end.
* Discovery: a search finds the receiver that is there; no announcement goes on
  after the receiver has returned.

## 2. The modules

    Mirror             what a copy promises: one session after another
    ├─ MirrorProofs
    └─ Transfer        (below) implements it
    Partition          pure operators of partition_files
    ├─ PartitionProofs the split is well defined; the lemmas of Graham's bound
    ├─ PartitionLoop   the same as a loop: balance, Graham's bound
    │    ├─ PartitionLoopProofs (with PartitionProofs)
    │    └─ MCPartition
    └─ Transfer        sender + receiver + network + both directories
         ├─ TransferProofs      the streams stay in step
         │    └─ CopyProofs     the data, and the refinement of Mirror
         └─ MCTransfer
    Service            what a receiver promises its clients: one at a time
    └─ Session         implements it: accept loops, handshake, speedtest,
         │             benchmark, clients
         ├─ SessionProofs       the dialogue, and the refinement of Service
         └─ MCSession
    Pipe               what a connection promises: bytes in order, then an end
    └─ EncryptedStream implements it: frames, nonces, read buffer
         ├─ EncryptedStreamProofs
         └─ MCEncryptedStream
    Discovery          broadcaster, search, and the processes around them
    ├─ DiscoveryProofs
    └─ MCDiscovery

### Partition and PartitionLoop

`TransferSize`, `Before` (the stable descending sort), `IsLeastLoaded` (the
first minimum) and `BucketOf` (the one map in which every file is in the bucket
that was least loaded at its turn) are `protocol.rs:183-212`. A sum of sizes
is the number of elements of `Bytes`, one for each byte to send, so that
`LoadBefore`, the load of each bucket at a file's turn, needs no recursion.
`Transfer` evaluates `BucketOf` once per end, each on its own list.
`PartitionLoop` deals one file per step, with `load` for `bucket_sizes` and
`bucketOf` for `buckets`; the invariant `ComputesBucketOf` ties the loop to the
operator.

### Transfer

The sender's and the receiver's main thread, one sending and one receiving
thread per stream, the source directory with its user, and the destination
directory, over any number of sessions.

| variables | in the code |
| --- | --- |
| `src`, `edits`, `quiet` | source tree; number of edits; no edit since the sender was started |
| `sst` | where `run_sender` is: `off`, `scan`, `sent` (the index), `list` (has the transfer list), `stream` (threads spawned), `ok` |
| `todo`, `stat`, `index`, `slist`, `dry` | scan in progress, `file_list`, `transfer_list`, `options.dry_run` |
| `spc`, `sleft`, `sbuf` | per thread: its place, the files of its bucket still to send, the blocks sent of the first (whose CRC is due) |
| `rst`, `rlist`, `prep` | where `run_receiver` is, its transfer list, the files still to prepare |
| `rpc`, `rleft`, `rbuf` | per thread: its place, the files still to receive, the blocks read of the first |
| `link`, `ctl`, `reqs` | the control connection, the answers on it, the offsets asked for |
| `conn`, `chan` | per stream: the data connection, bytes in flight (at most `Cap`) |
| `disk` | names of the destination: present, data, time, which thread has it open, and whether its time was set from an index (`stamped`) |

| actions | lines |
| --- | --- |
| `Launch`, `ScanStat`, `ScanCrc`, `ScanSkip` | `sender.rs:28-191, 441-456` |
| `Negotiate` (index there, decision, list back), `RecvList` | `receiver.rs:449-550`, `sender.rs:609-650` |
| `PrepareFile`, `PrepareUnstamped`, `Confirm`, `ConfirmFails`, `RecvConfirm` | `receiver.rs:552-604`, `sender.rs:659-701` |
| `Connect`, `ConnectLate`, `SendBlock`, `SendSum`, `FinishStream`, `ReadShort`, `WriteFails`, `JoinSender` | `sender.rs:698-830` |
| `Accept`, `AcceptFails`, `AcceptStray`, `ProcessEnds` | `receiver.rs:606-658`, `main.rs:496-501` |
| `OpenTmp`, `RecvBlock`, `VerifyChunk`, `Rename`, `Stamp`, `StampFails`, `RecvEof`, `JoinReceiver` | `receiver.rs:660-786` |
| `Edit`, `SenderCrash`, `ReceiverCrash`, `StreamIoError`, `ReceiveIoError`, `Corrupt` | the world around the program |

A message carries two history fields, `left` and `n` (the sender's position when
it wrote it). No action reads them; they exist to state `StreamsInStep`.

*File times.* A file that is renamed keeps the second in which it was written, by
the receiver's clock (`Clock`: any of its values, at any rename), until
`set_file_times` gives it the time of the index. That call may fail, and the error
is ignored (`StampFails`, `PrepareUnstamped`); a crash may come before it. So a file
may keep the second of its writing, and that second may be the one of an edit of
the source. `stamped`, a history field, remembers that a time was set from an
index. What the program promises about file times it promises of stamped files.
A file that was not stamped, has the size of its source and, by coincidence, the
second of its source's last edit (`Coincides`) is skipped without
`--verify-existing`, whatever it contains. `ExactCopy`, `EventuallySynced` and
`MirrorsSource` make an exception for just those files, and `StampSound` and
`StaysSynced` do not speak of them. `resume` has such files: its clock may show the
second of the first edit.

*Threads left behind.* An error out of the accept loop returns from `run_receiver`
while threads it has spawned run on (`Returned`): they receive, verify, rename
and stamp until their streams end or their process does (`ProcessEnds`: at once from
the command line, when somebody presses Enter in the wizard). The model assumes
that the user starts the next receiver when the process of the last one has
ended; two processes that write below one directory are left out.

*Refinement.* `Mirror` has a source, a destination and sessions, and no streams,
threads or messages: `Begin` chooses the entries to replace (what is owed and
not among them must be equal already), `Put`/`PutEmpty` replace one file as a
whole, `Stamp` sets its time or fails to, `Report` ends a session that has nothing left,
and `Leave` aborts it at any moment. `Transfer` ends with the mapping, `Copied`:

| `Mirror` | in `Transfer` |
| --- | --- |
| `src`, `dst` | `src`, and `disk` at the final names without the writing thread |
| `phase` | `copying` while the receiver prepares or streams, `ok` when it reports success |
| `left` | entries of `rlist` not replaced: empty ones until prepared, others until renamed (`Outstanding`) |
| `fresh` | entries renamed whose time is still to be set (`Unstamping`) |
| `due` | the paths of the sender's index but for what is skipped by a coincidence, while that sender is alive or has succeeded, nobody has edited the source since it was started, and it is not a dry run |

`MirrorsSource == Copied!Spec` is checked as a property of two runs and proved in
`CopyProofs` (section 4). It says that
a rename replaces a file by all of what the *sender's* source holds, that each
entry is replaced once and its time is touched only after it, also when the receiver
has returned by then, and that success leaves nothing out.

*Abstractions.* A file is a sequence of blocks, one block per iteration of the
64 KB loops. A CRC32 is the data it was computed from: collisions are left out.
LZ4 and ChaCha20 are lossless and left out. Directories and Unix permissions are
left out. Only one receiver at a time writes below the destination. Bytes lost in a
`BufWriter` at a crash are the same as an earlier crash. `Negotiate` joins the
sending of the index, the decision and the answer: between them neither side
touches anything the other can see.

### Session

Several clients, each with options of its own, against one receiver: the accept
loop, every read and write of the control connection with its error path, the
speedtest's and the transfer's accept loops. `rpc` is where `run_receiver` is,
`cpc[c]` where client `c` is; each name is the message awaited there. `toR`,
`toC` are the two directions of each control connection and `backlog` is what
the listener has not accepted, in order, of all kinds and all clients.

`EndOrNext`, `FailOrNext` and `Fail` are the three ways a session ends in the
code (`break`/`continue`, `return Err`/`continue`, `?`); which of them each step
uses is taken from its line. Keys are values and an HMAC is equality of keys.
`Kinds` is what the magic bytes of the first connection may read as: its kind,
or an end of stream when its client is dead. What the streams carry is
`Transfer`'s business: the two modules meet at `RIndex`/`Negotiate` and at the
accept loop, which `Transfer` sees from within one session (`AcceptStray`,
`ConnectLate`) and `Session` from all clients' side.

The listener that `networkcopy benchmark` opens without `--ip`
(`main.rs:326-464`) is a receiver with the option `bench`: it has the handshake of
`run_receiver` with other error paths (everything is `continue`), accepts mode 3
only, and returns after its first benchmark whether that succeeds or not
(`GoesOn`, `Modes`, `BenchEnds`).

*Refinement.* `Service` has a receiver that serves one client or none, and
clients that are outside, inside, sending or gone, and no messages: `Admit`,
`Enter`, `Confirm`, `SendData`, `Take` (a stream of the transfer), `End` (of the
session) and `Leave` (of the client). Each is allowed only to who is admissible,
agreed, invited or confirmed. The mapping is `Kept`, the property `OneAtATime`:

| `Service` | in `Session` |
| --- | --- |
| `admissible`, `agreed` | the clients whose version, encryption, pairing code and, if the receiver has one, key suit it; those of them that have just its key |
| `serving` | `cur` while the receiver is in `serve`, `testaccept`, `index` or `dataaccept` |
| `streams` | `got` while it is in `dataaccept` |
| `place` | gone by `Gone`, sending in `data`, inside from the end of the handshake on |
| `invited`, `confirmed` | clients not gone that are past the last message of the handshake, or past the confirmation, at one of the two ends or on the way between them (`LetIn`, `Confirmed`) |

### EncryptedStream

Both ends of one connection. The wire of each direction is a sequence of units
(two for a length, one for a tag, one for each byte), so that a cut can fall
inside a length, inside a payload or between frames. `wctr`, `rctr`, `buf`,
`pos` are the fields of the struct; `need` is the payload length a `read` in
progress waits for. `WriteCall` is `write`; a call of `read` is `Serve`, or
`ReadLength` and then `ReadPayload`, or one of the ends `ReadEnd` (clean),
`ReadCut` (an error). `Low`, `WriteIndex` and `ReadIndex` are the two stream
indices each end is constructed with, on each kind of connection. A payload
opens only whole, with the key and the nonce it was sealed with: that is what
the cipher promises. An end that is dropped before it has read everything resets
the connection, and so does a write to an end that is gone: both are `Cut`.

*Refinement.* `Pipe` is the connection as its two users see it, who take their
stream as a `MaybeEncryptedStream` and do not know which they have: bytes written
and bytes read each way, ends not closed yet, and what the last read told.
It has no frames, counters or buffers. `sent`, `got`, `open` and `state` are the
variables of that name, `harmed` is `~Unharmed`: a fault, or different keys. The
property is `CarriesBytes`. So `Transfer` and `Session`, which take each
connection for a pipe, stand for both kinds.

### Discovery

Receivers with their main thread (`main`), their broadcaster (`thread`, `wake`) and
the flag between them (`stop`), and senders that search. Time is in whole seconds
and `Tick` waits until nobody has anything left to do in this one. `Announce`
delivers to those who search, except for the datagrams that are lost; a search
keeps the first (`heard`) and decides on it (`Hear`) or times out. `Process`
says what the end of a process does to its threads; the receivers in `Wizard` are
those whose process waits for the Enter key when `run_receiver` has returned.
`steady` and `late` are history: the only receiver announced since a search
began, and the announcements made since `run_receiver` returned. A connection
that is made is only a state here; `Session` and `Transfer` say what happens on
it. The expiry test of signed announcements (`sender.rs:405`) is not in the model:
it asks that a time lies both before and after now by 30 seconds, which none does.

## 3. The runs

| run | instance | states | shows |
| --- | --- | --- | --- |
| `partition` | lists of ≤ 5 files of sizes 0..4, one resumed; 3 buckets | 54 k | `Balanced`, `GrahamBound` (4/3 − 1/3n of the best split), the loop computes `BucketOf` |
| `resume` | 1 file, 5 versions, 3 old copies, 5 leftovers, 2 edits, a clock that shows the second of an edit or another, 1 fault | 1.8 M | `StampSound`, `ExactCopy`, `EventuallySynced`, `StaysSynced`, `MirrorsSource` |
| `faults` | 3 files of two sizes, 2 streams, 1 fault, dry runs | 4.7 M | `StreamsInStep`, `ReceiverOkComplete`, `AtomicReplace`, `MirrorsSource` |
| `verify` | 2 files, 2 streams, `--verify-existing`, leftovers of other data, an edit that may keep the second, single-shot receiver, 1 fault | 1.1 M | `ExactCopy`, `ReceiverOkComplete`, `EventuallySynced` |
| `sessions` | 2 clients of 13 kinds, one of them a dry run and one with nothing to send; 12 receivers of which 4 are the benchmark's, either client killed | 0.7 M | `HandshakeInStep`, `HandshakeAgreement`, `DataStreamsOwn`, `ClientsFinish`, `ReceiverFinishes`, `BenchOutlasts`, `OneAtATime` |
| `encrypted` | every kind of connection, 3 writes one way and 1 the other of ≤ 3 bytes, reads of ≤ 2, 1 cut or damaged unit | 1.0 M | `InOrder`, `NoSpuriousError`, `EofComplete`, `AllArrives`, `CarriesBytes` |
| `discovery` | 2 receivers, one in the wizard, with or without a key; 2 senders on one host, one with a key; 1 lost datagram per search | 0.7 M | `Finds`, `OneLate`, `BroadcasterEnds` |

Five runs are expected to find a violation, see section 5.

*Properties.*

* `StreamsInStep`: the next thing on a stream is what the receiver's thread is
  about to read, for the same file and the same block of it.
* `StampSound`: a destination file that was stamped and has its source file's time
  has its data. This is what makes the skip by size and time right; it holds
  because the time is set last and because a changed file has a new second.
* `ExactCopy`: success at both ends, and no edit since the sender was started,
  means that every indexed file is there with the source's data, or coincides.
* `ReceiverOkComplete`: a receiver that reports success has every file of its
  list at its final name, with the size of the index, and with its time if that
  could be set.
* `AtomicReplace`: an action property; a final name changes only to a whole
  file, and never disappears.
* `StaysSynced`: an action property; a destination file that has its source's
  data and was stamped with its time is left alone until that source is edited, whatever else happens,
  so restarting replaces nothing twice.
* `EventuallySynced`: when edits and faults stop, restarting gets the
  destination in step for good, but for what coincides.
* `MirrorsSource`: every step of `Transfer` is a step of `Mirror`, or none of it.
* `OneAtATime`: every step of `Session` is a step of `Service`, or none of it.
  `CarriesBytes`: the same of `EncryptedStream` and `Pipe`.
* `HandshakeInStep`, `HandshakeAgreement`, `DataStreamsOwn`, `ClientsFinish`,
  `ReceiverFinishes`, as their comments in `Session.tla` say.
* `BenchOutlasts`: the benchmark's listener returns from the test only, whatever
  clients came before.
* `InOrder`: what `read` gives is a prefix of what `write` was given, also after
  a cut or damage. `NoSpuriousError`: unharmed, no frame is refused, so the
  counters and indices of both ends agree. `EofComplete`: an end is reported
  between frames only, and unharmed after everything. `AllArrives`: no byte stays
  behind in a buffer.
* `Finds`: three seconds are enough for a receiver that announces itself alone,
  even if a datagram is lost (two announcements fall into any three seconds).
  `OneLate`, `BroadcasterEnds`: a broadcaster that is told to stop announces at
  most once more, and ends.

*Bounds and why they are enough.* Three files of two sizes over two streams give
ties in the sort, a bucket with two files in it and a bucket with one, so that
`SendingInListOrder` (a plausible slip) is caught. Three blocks per file are a
first, a middle and a last; five versions are an empty, a shorter, two of one
size and a longer one, so that every leftover that can be told apart by length
or by content occurs. Two edits put one before and one after any read of the
scan. One fault per behaviour is a crash, an I/O error, a time that cannot be set
or a corruption at any point, followed by as many sessions as it takes. The first
edit is of second 2, which in `resume` the receiver's clock may show as well as a second
that no source has; elsewhere it shows one, in `faults` and `verify` the second of the
sources as they are at first. `Cap = 1` makes every write
block until the reader has taken it. In `Session` the client kinds are one for each way
a handshake may go, and dry runs and empty transfers after it; two clients make a session and
an intruder, and each pair of kinds occurs against each receiver; three (as in
`hang`) make an intruder with a past; two streams and two
rounds of the speedtest make every loop go round once more than once. Each run's
bounds are in its `.cfg`; `MaxEdits`, `MaxFaults`, `MaxDeaths`, `MaxLost`, `MaxStarts` and `MaxWrites` are the
only counters that are cut off, and none of them is state of the program. In
`EncryptedStream` texts of up to three bytes and reads of up to two make a frame
shorter than, equal to and longer than the caller's buffer, one needing two
reads and a rest; three writes make a frame before and after any cut. In
`Discovery` two receivers make the first datagram that of the wrong one, and two
searches on one host make the second fail to bind.

*Deadlock* is checked in the runs of `Partition` and `Transfer`: users start both
programs again, so the system never stops. In `Session` every client runs once,
in `EncryptedStream` a connection ends, and in `Discovery` users may stop: there a
behaviour may end.

*Every property* has at least one mutant of the code, an operator such as
`SkipBySize` or `EncryptNotCompared`, that breaks it in its own run.

### Fairness

`Transfer`: weak fairness of each of the two programs as a whole, never of a
single action or thread, so no error branch is forced or excluded and no fault
ever has to happen. That one thread of a program runs and another does not is
allowed; it changes nothing since no session has a loop to stay in. Starting
again is part of the programs: it stands for a user who runs both commands until
they have succeeded, and who presses Enter in a wizard whose receiver has returned
(`ProcessEnds`). A `WF` suffices because a thread blocked on a socket stays
ready once it is ready.

`EncryptedStream`: each end goes on reading (every caller reads in a loop, or
exactly what it knows to come). Nobody has to write or close.

`Discovery`: threads run, a search ends, time passes. Users start, stop, and
press Enter as they like.

`Session`: weak fairness of the receiver and of each client. `Finish(c)`, the
end of a burst or of the data, is fair only when no connection of `c` waits
unaccepted (`Blocked`): a write to such a connection fills the kernels' buffers
and then blocks. It may still happen when blocked, since little data fits.

Two exclusions in the liveness properties of `Session` are real limits of the
program. `ClientsFinish` says nothing when a *tuning* client is killed
(`TunerDied`): its connections may be taken for another client's. And
`ReceiverFinishes` says nothing after a client is killed: one that dies between
confirmation and its data connections leaves the receiver in `accept` for ever
(`receiver.rs:607`), until another client connects; `Transfer` shows that the
next one gets it out (`AcceptStray`).

## 4. What is proved

All by `tlapm` with Z3, Zenon and LS4, for every value of the constants that
satisfies the assumptions declared in the modules. Every invariant of the passing
runs is a theorem, and so are the three action properties (`AtomicReplace`,
`StaysSynced`, `BenchOutlasts`) and the three refinements.

| run's property | theorem | hypotheses besides the modules' assumptions |
| --- | --- | --- |
| `Balanced`, `ComputesBucketOf`, `TypeOK` of the loop | `LoopBalanced`, `LoopComputesBucketOf`, `LoopTypeOK` | |
| `GrahamBound` | `LoopGrahamBound` | |
| `StreamsInStep`, `TypeOK` of the copy | `TransferStreamsInStep`, `TransferTypeOK` | |
| `ReceiverOkComplete`, `AtomicReplace` | `CopyReceiverOkComplete`, `CopyAtomicReplace` | `NamesApart` |
| `StampSound`, `StaysSynced` | `CopyStampSound`, `CopyStaysSynced` | `NamesApart`, `~SameSecond` |
| `ExactCopy`, `MirrorsSource` | `CopyExactCopy`, `TransferImplementsMirror` | `NamesApart`, `EditsSeen` |
| `HandshakeInStep`, `HandshakeAgreement`, `DataStreamsOwn`, `BenchOutlasts`, `TypeOK` of the sessions | the same names after `Session` | |
| `OneAtATime` | `SessionKeepsService` | |
| `InOrder`, `NoSpuriousError`, `EofComplete`, `CarriesBytes`, `TypeOK` of the stream | the same names after `Stream` | |
| `Finds`, `OneLate`, `TypeOK` of discovery | the same names after `Discovery` | |

*The three hypotheses* are about what the program cannot know of its input, and
each of them is needed:

* `NamesApart`: no file of the tree is called like another's temporary name.
  Without it `CopyReceiverOkComplete` and `CopyAtomicReplace` are false; the run
  `collision` has the counterexample.
* `~SameSecond`: an edit gives a file a new second. Times on the wire are whole
  seconds, so nothing in the program could tell otherwise. It is about the source
  alone: an edit may fall into any second of the receiver's clock, and what comes of
  that is in the properties (`stamped`, `Coincides`).
* `EditsSeen`, that or `--verify-existing` at the receiver: whatever decides on a
  skip notices every edit. The run `senderverify` shows what happens when the
  flag is given to the sender only.

**PartitionProofs**: `BucketOfDeals`, from no assumption but that the argument is a
finite list. `BucketOf` is a `CHOOSE`, so two things need proof: there is a map
in which each file is in the bucket least loaded at its turn, and there is only
one. The library's induction rules take an operator as a parameter; here its
theorem that strict inclusion is well-founded on finite sets does instead, since it
speaks of sets: among the beginnings of the list that cannot be dealt out there
would be a smallest, and among the files on which two such maps differ a first.

**PartitionLoopProofs**, from `NumBucketsAssumption` and `FilesAssumption`.
`Balanced` is not inductive: that the file just dealt makes no earlier file
movable needs that no earlier file is smaller. `LoopInv` adds `Descending`:
everything dealt is at least as large as everything left. `ComputesBucketOf` says
something of the last state only; `DealInv` says of every state that the running
sums are those of the files dealt (`Counted`), that these come before the others
(`InOrder`), and that each was put where `BucketOf` has it (`InTurn`). With
`BucketOfDeals` the loop ends with *the* map.

`LoopGrahamBound` compares with every other split, the best one included, so it
asks for an argument and not only for an invariant. `WithinGraham` is the
bound for the files dealt so far: with any split of these that keeps within `m`,
no stream has more than (4n − 1)/3n of `m`. `GrahamStep` carries it over the next
file, of `s` bytes, which goes to the least loaded stream; the others keep what
they had. Where 3`s` is at most `m`, an average is enough: all streams have at
least what the least loaded one has, and all bytes together are at most `n` times
`m` (`ThirdOfBest`). Where 3`s` is more, every
file is over a third of `m`, and `RoomBeside` counts them: a file that leaves no
room for the next one beside it counts twice. The other split then has at most
two in a bucket; were there no room on any stream of the loop, each would have
two already, and with the next file there is one too many.
A sum over buckets would need induction over data. Here bytes and files are
elements coloured by their bucket, and what each colour has at most, or at
least, is turned into a count of all of them by mappings between finite sets
(`ColoursAtMost`, `ColoursAtLeast`).

**TransferProofs**: `TransferTypeOK` and `TransferStreamsInStep`, from
`PathsAssumption`, `StreamsAssumption` and `ContentsAssumption`. Neither
property is inductive. The inductive invariant `Inv` adds

* `Idle`: what does not take part in a session is in its initial state. Without
  it a receiving thread could start with another session's leftovers.
* `OneSession`: the list the sender has, or is about to make from the requests,
  *is* the receiver's, as long as the control connection is up. This is where
  the resume offsets come back to the sender before it partitions
  (`sender.rs:616`); equal lists then have equal partitions, because
  `BucketOf` is a function of the list.
* `Fresh`: a stream not connected has not moved at either end.
* `Chained`: the messages in flight form a chain from the receiver's position to
  the sender's. Each is at the position the one before leads to, the first is
  where the receiver is, and the last leads to where the sender is. That
  `StreamsInStep` holds of the first message is one instance of this.

There is one lemma per action of `Next`, and under it one step for each part of
`Inv` that the action can disturb; `InvAlways` combines them. The proof covers
crashes, resets, corruption and strays, for any number of files and streams and
any capacity. It uses of the partition only that it is a function of the list,
so it holds of any deterministic split.

**CopyProofs**: what happens to the data, on top of `Inv`. The invariant `CopyInv`
follows it: from the source to the index (`Scan`, `ScanOnce`), to the transfer
list (`List`, `Skipped`), onto the streams (`Sent`, `Summed`), into the temporary
files (`Prepared`, `Written`) and to the final names (`Complete`, `Sound`). What
it says about the contents of a source file it says under `Valid(p, m)`: the file
still has the time `m` it was indexed with, and, where an edit may keep the time,
nobody has edited since the launch. An edit can only falsify that and nothing
else touches the source, so no part of the invariant has to be proved again for
an edit (`Older`). Two places are less obvious than the rest.

* A temporary file may begin with a leftover, of another version or damaged.
  The checksum at the end of the stream covers only what was sent; that of the
  index covers the whole file, and `VerifyChunk` compares both. By `Summed` the
  first is of what the source has, by `List` the second, so a file is whole or is
  refused. Nothing is assumed of the leftover but its length (`Resumable`).
* A final name is stamped only after it has its new data. `Written` says what
  the thread holds at each place up to `stamp`, and that this is not stamped
  until then, so `Sound` survives a crash between `Rename` and `Stamp`, whatever
  the clock showed. `Times` bounds the times of what is stamped, and of nothing
  else: an edit's second is new to those.

`CopyStaysSynced` needs one more invariant, `SyncInv`: nothing that a session has
yet to replace or to stamp (`Pending`) is in step with its source. Where a scan
is of the source as it is, the skip has seen to that; where the source has been
edited since, nothing of the destination can be stamped with its new time
(`Unseen`), so it is not in step.

`TransferImplementsMirror` takes each action to a step of `Mirror`, or none:

| `Transfer` | `Mirror` |
| --- | --- |
| `Negotiate` | `Begin`, with what is owed and not asked for equal already by `Skipped` |
| `PrepareFile`, `PrepareUnstamped` of an empty file | `PutEmpty` |
| `Rename` | `Put`, whole by `InHand` |
| `Stamp`, `StampFails` | `Stamp` |
| `JoinReceiver` | `Report`, or `Leave` when a thread has failed |
| `ConfirmFails`, `ProcessEnds`, `ReceiverCrash`, `Listen` | `Leave` |
| the end of a sender that has not succeeded, `AcceptStray` | `Forget`: nothing is owed to it any more |
| `Edit` | `Edit` |
| all others | none |

Each step is a lemma of its own (`NegotiateRefines`, `RenameRefines`, ...) on top
of `Inv` and `CopyInv` before and after it. `Negotiate` in a dry run is `DryRun`. That
what is owed stays the same is a lemma too (`PromisedSame`), since it depends on
which of the skipped files coincide: a step changes only files of the list.

**MirrorProofs**: `MirrorKept`, a session of the abstract copy that reports success
has made every path it owes equal to the source, with no assumption. The
inductive invariant adds `Owed`, what is still owed is in `left` or equal
already, which `Begin` establishes and each `Put` keeps because it puts the
source's data where it is owed; and `AtRest`, a session that is not copying has
nothing left. With `TransferImplementsMirror` it is a result about the two
programs, under the hypotheses of that theorem.

**SessionProofs**, for any number of clients and streams, any options and any
number of kills, from `ClientsAssumption`, `CountsAssumption` and
`KeysAssumption`. The bytes have no tags, so the invariant has to know the
dialogue: `Script(r, c, ...)` lists, for each place `r` of the receiver, where
client `c` may be and what may be in flight between them. `Talking` says that
whoever is served is at a row of the receiver's place, whoever waits in the
backlog is at a row of `hello`, and whoever has been left is at a row of where it
was left. `HandshakeInStep` can be read off the rows. To step from row to
row one has to know which way the flags have gone, and that is `Agreed`: what
each side has made sure of by the time it is where it is. `Worded` says that a
message in flight says what its writer's options make it, `Single` that a client
waits once. `Owned` is for the streams, which do not say whose they are: those
accepted and those waiting are counted together and are at most what the client
being served has made, and no data stream waits in any other state.
`SessionBenchOutlasts` needs of this only `BenchOnly`.

`SessionKeepsService` takes each action to a step of `Service`, or none. `Admit`
is the receiver's last step of the handshake, `Enter` the client's; `Confirm` and
`SendData` are the two ends of the confirmation, `Take` is a data stream
accepted, `Leave` any end of a client and `End` any way out of a session. That
nothing is said twice, or said to who has not been let in, is read off the rows of
`Script`: they show when no welcome or confirmation can be on its way (`ScriptServes`,
`NotLetIn`). That the client has been made sure of is `Agreed`, and that the stream
taken is its own is `Owned`. What a step of either side does to the
messages on their way is said once (`HasFacts`, `ReadHas`, `ReplyHas`).

**EncryptedStreamProofs**, for any stream numbers, sizes and numbers of writes and
reads, from `BoundsAssumption`. The state does not remember how the text was cut
into frames. `StreamInv` says that *there are* offsets, `off[c]` the bytes before
frame `c`, with which everything fits: the unit at each place of the wire is
the unit of the frame there, or damaged (`Shown`); a reader without an error
stands at the place of its next frame, and what it has given and still has in
its buffer is the text before that (`Given`). A payload opens only with the nonce
of its frame, the reader uses the nonce of the frame it counts to, and so when
one opens it is the whole of that frame: its bytes go where they belong, whatever
length was read. `Ended` and `Fits` give the rest: an end is
met at a place of a frame, and without a fault every length is right.
`StreamCarriesBytes` takes each call to a step of `Pipe` or none: a `read` that is
served from the buffer or opens a frame is `Get`, one that has only read a length is
none, and what is read is the next bytes because of `Given`.

**DiscoveryProofs**, for any receivers, senders, hosts and keys, from
`NamesAssumption`. `Finds` is a count: `Counting` says that the seconds a search has
left and the datagrams it has lost are together at least two more than the
seconds its receiver will sleep, so a search that loses one datagram and times
out has heard another. `Steady` says that only that receiver's thread runs, and
`Stopping` is `OneLate` with the place of the thread.

*Only model-checked.* Liveness (`EventuallySynced`, `ClientsFinish`,
`ReceiverFinishes`, `AllArrives`, `BroadcasterEnds`), which rests on fairness and
`ENABLED`: out of the prover's reach. The five properties of section 5, which do
not hold.

## 5. Where the code and its documentation differ

* `collision`: the temporary name of `x` is `x.networkcopy-tmp` even if the tree
  has a file of that name. One file's stream then writes into, renames or
  removes the other's destination (`receiver.rs:503, 572, 665, 741`), against
  README.md:28 on atomic renaming.
* `senderverify`: the `send` option `--verify-existing` (README.md:69) has no
  effect: `run_sender` does not read it and it is not sent. An edit that keeps
  size and second is skipped unless the *receiver* has the flag.
* `persistent`: in loop mode (README.md:82) a client that disconnects at some
  points ends `run_receiver` with an error, since those reads use `?` where
  their neighbours `continue` (`receiver.rs:267` against `252-256`).
* `hang`: speedtest streams do not say whose they are. A stream of a client
  refused before may be counted for the next; that client's own last stream is
  then never accepted, its flood blocks, and receiver and client wait for each
  other (`receiver.rs:56`). It takes three tuning clients and no failure; with
  two it does not happen (`sessions`), and in single-shot mode the refused client
  would have ended the receiver.
* `ghost`: only a normal return and two error returns of `run_receiver` stop the
  broadcaster (`receiver.rs:613, 626, 801`). When the port is taken, or a session
  fails in any other way, the thread goes on; in the wizard the process then waits
  at "Press Enter to exit" (`main.rs:497-500`), and a receiver that does not listen
  is announced until somebody presses it. A search takes the first announcement
  it hears, so a ghost can hide a receiver that is there (README.md:23).

## 6. Not modelled

* The walk of the scan, symbolic links and the include/exclude globs: strings
  and a library. A file left out of the index is `ScanSkip`.
* Byte layout of index and transfer list: a straight encode and decode.
* Measured speeds and the choice of the stream count: wall-clock time.
* Presets, command line, wizards, firewall rules, but for the process around
  `run_receiver` and the choice of an address (`Discovery`): parsing and pure I/O.
* Which paths `sanitize_rel_path` refuses and how it rewrites others: string work;
  that a refused one ends the session is `RIndex`.
* Half-open connections: no socket has a read timeout, so a host that vanishes
  without a reset leaves its peer waiting for ever; there is nothing to check.
* Loss of unsynced data at a power failure: nothing is synced, so the skip by time
  may keep a file whose data never reached the disk; no document says otherwise.
* The expiry of signed announcements: the test never fails (see `Discovery`).

## 7. Plan

What was planned of models, refinements and safety theorems is done. Left are

1. `Transfer` and `Session` as one system. They meet at `RIndex`/`Negotiate` and
   at the accept loop (section 2). `Service` says at that place what a transfer may
   rely on, its client and its streams, so a joint specification could be
   `Transfer` over `Service`; its liveness would be for TLC alone.
2. Collisions of the CRC32, as a choice between refusing and accepting a chunk.
   `ExactCopy` would then hold up to a collision, which the code does not exclude.
