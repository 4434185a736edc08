------------------------------ MODULE CopyProofs ------------------------------
(***************************************************************************)
(* What ends up in the destination: for any number of files, streams,      *)
(* sessions, edits and faults, a file stamped with the source's time has   *)
(* the source's data, a final name is only ever given a whole file, a      *)
(* receiver that reports success has every file of its list, and one that  *)
(* agrees with its sender has an exact copy, but for the files of other    *)
(* origin that coincide with their source in size and second.              *)
(*                                                                         *)
(* On top of Inv of TransferProofs, CopyInv follows the data: from the     *)
(* source to the index (Scan), to the transfer list (List, Skipped), onto  *)
(* the streams (Sent, Summed), into the temporary files (Prepared,         *)
(* Written) and to the final names (Complete, Sound).  What is said about  *)
(* a source file is said of one that has not changed since (Valid), which  *)
(* an edit can only falsify.  SyncInv says that nothing in step with its   *)
(* source is still to be sent, and the last part shows that Transfer       *)
(* implements Mirror.                                                      *)
(***************************************************************************)
EXTENDS TransferProofs, PartitionProofs

\* No file of the tree is called like the temporary name of another.
NamesApart == \A p, q \in Paths : Tmp[p] \notin Paths /\ (p # q => Tmp[p] # Tmp[q])

\* What decides whether a file is skipped notices every edit: either the time
\* does, or the receiver compares contents.
EditsSeen == ~SameSecond \/ VerifyExisting

\* A file of path p has not changed since it had the time m; where an edit may
\* keep the time, as far as the running sender has had it from its launch.
Valid(p, m) == m = src[p].mtime /\ (SameSecond => quiet /\ sst \notin {"off", "scan"})
Scanning(p, m) == m = src[p].mtime /\ (SameSecond => quiet)

\* An edit gives a time that nothing had before.
Times ==
    /\ \A p \in Paths : src[p].mtime \in 1..(edits + 1)
    /\ \A n \in Names : disk[n].stamped => disk[n].mtime <= edits + 1
    /\ \A p \in DOMAIN stat : stat[p].modified \in 1..(edits + 1)
    /\ \A i \in DOMAIN index : index[i].modified \in 1..(edits + 1)
    /\ \A i \in DOMAIN rlist : rlist[i].modified \in 1..(edits + 1)

\* The scan reaches every path once.
ScanOnce ==
    /\ todo \cap DOMAIN stat = {}
    /\ \A i \in DOMAIN index : index[i].path \notin todo \cup DOMAIN stat
    /\ \A i, j \in DOMAIN index : index[i].path = index[j].path => i = j

\* What it read is the source, unless the source has been edited since.
Scan ==
    /\ \A p \in DOMAIN stat :
          /\ quiet => stat[p].modified = src[p].mtime
          /\ Scanning(p, stat[p].modified) => stat[p].size = Len(src[p].data)
    /\ \A i \in DOMAIN index : LET e == index[i] IN
          /\ quiet => e.modified = src[e.path].mtime
          /\ Scanning(e.path, e.modified) =>
                e.size = Len(src[e.path].data) /\ e.crc = src[e.path].data

\* The receiver's list: one entry per path, to be sent from an offset inside.
List ==
    /\ IsFiniteSet(DOMAIN rlist)
    /\ \A i, j \in DOMAIN rlist : rlist[i].path = rlist[j].path => i = j
    /\ \A i \in DOMAIN rlist : LET e == rlist[i] IN
          /\ e.offset < e.size \/ (e.offset = 0 /\ e.size = 0)
          /\ Valid(e.path, e.modified) =>
                e.size = Len(src[e.path].data) /\ e.crc = src[e.path].data

\* Sender and receiver are in one session, which copies something.
InSession ==
    /\ sst \in {"sent", "list", "stream", "ok"} /\ ~dry
    /\ rst \in {"prep", "stream", "ok"}

\* Then the list is of the index, and what is not in it is there already, as far
\* as the skip can tell.
Skipped ==
    InSession =>
        /\ DOMAIN rlist \subseteq DOMAIN index
        /\ \A i \in DOMAIN rlist :
              rlist[i].path = index[i].path /\ rlist[i].modified = index[i].modified
        /\ EditsSeen => \A i \in DOMAIN index \ DOMAIN rlist :
              Valid(index[i].path, index[i].modified) =>
                  Exact(index[i].path) \/ Coincides(index[i].path)

\* File d holds all of entry e, and of the source if that is as it was.
Whole(d, e) ==
    /\ d.here /\ Len(d.data) = e.size
    /\ Valid(e.path, e.modified) => d.data = src[e.path].data
Done(e) ==
    /\ Whole(disk[e.path], e)
    /\ disk[e.path].stamped => disk[e.path].mtime = e.modified
Resumable(e) ==
    e.offset > 0 => disk[TmpName(e)].here /\ Len(disk[TmpName(e)].data) = e.offset

Prepared ==
    rst = "prep" => \A i \in DOMAIN rlist : LET e == rlist[i] IN
        Resumable(e) /\ (e.size = 0 /\ i \notin prep => Done(e))

\* The file a thread of the receiver works on, by the thread's place.
Receiving(s, e) ==
    LET d == disk[TmpName(e)] IN
    /\ d.here /\ d.w = s /\ ~d.stamped
    /\ Len(d.data) = e.offset + Len(rbuf[s])
    /\ e.offset = 0 => d.data = rbuf[s]
InHand(s, e) ==
    /\ rpc[s] = "recv" => Receiving(s, e)
    /\ rpc[s] = "rename" => Whole(disk[TmpName(e)], e) /\ ~disk[TmpName(e)].stamped
    /\ rpc[s] = "stamp" => Whole(disk[e.path], e) /\ ~disk[e.path].stamped
Busy(s, i) == rpc[s] \in {"recv", "rename", "stamp"} /\ IsNext(rlist, rleft[s], i)

Written(s) ==
    rst = "stream" =>
        /\ rleft[s] \subseteq Work(rlist, s)
        /\ rpc[s] \in {"wait", "open"} => rbuf[s] = <<>>
        /\ rpc[s] # "err" => \A i \in rleft[s] :
              IF Busy(s, i) THEN InHand(s, rlist[i]) ELSE Resumable(rlist[i])

\* What no thread has left to do is done.
Complete ==
    /\ rst = "stream" => \A i \in DOMAIN rlist :
          (\A s \in Streams : i \notin rleft[s]) => Done(rlist[i])
    /\ rst = "ok" => \A i \in DOMAIN rlist : Done(rlist[i])

\* What is sent is what the source has, and so are the checksums on the way.
Sent(s) ==
    conn[s] = "open" => \A i \in sleft[s] : LET e == slist[i] IN
        IsNext(slist, sleft[s], i) /\ Valid(e.path, e.modified) =>
            sbuf[s] = SubSeq(src[e.path].data, e.offset + 1, e.offset + Len(sbuf[s]))
Summed(s) ==
    rst = "stream" => \A k \in 1..Len(chan[s]) : LET m == chan[s][k] IN
        m.kind = "sum" => \A i \in m.left \cap DOMAIN rlist : LET e == rlist[i] IN
            IsNext(rlist, m.left, i) /\ Valid(e.path, e.modified) =>
                m.val = SubSeq(src[e.path].data, e.offset + 1, e.size)

Sound == ~SameSecond => StampSound

CopyInv ==
    /\ Times /\ ScanOnce /\ Scan /\ List /\ Skipped /\ Prepared /\ Complete /\ Sound
    /\ \A s \in Streams : Written(s) /\ Sent(s) /\ Summed(s)

------------------------------------------------------------------------------
(* Lemmas.                                                                   *)

USE DEF srcVars, sndMain, sndThreads, sndVars, rcvMain, rcvThreads, rcvVars,
        ctlVars, dataVars, netVars, Returned

\* What a step does to what is valid: nothing gets valid, and a source file
\* that stays so stays as it is.
Older ==
    \A p \in Paths, m \in 1..(edits + 1) : Valid(p, m)' => Valid(p, m) /\ src'[p] = src[p]

LEMMA OlderSame ==
    ASSUME src' = src, quiet' => quiet,
           sst' \notin {"off", "scan"} => sst \notin {"off", "scan"}
    PROVE  Older
BY DEF Older, Valid

\* At name n there is the same file as before, whoever writes to it.
SameFile(n) ==
    /\ disk'[n].here = disk[n].here /\ disk'[n].data = disk[n].data
    /\ disk'[n].mtime = disk[n].mtime /\ disk'[n].stamped = disk[n].stamped

\* Entries of the receiver's list and of the index.
LEMMA ListEntry ==
    ASSUME TypeOK, Times, NEW i \in DOMAIN rlist
    PROVE  /\ i \in Nat /\ rlist[i] \in Entries /\ rlist[i].path \in Paths
           /\ rlist[i].modified \in 1..(edits + 1)
           /\ rlist[i].size \in Nat /\ rlist[i].offset \in Nat
           /\ TransferSize(rlist[i]) \in Nat
           /\ rlist[i].path \in Names /\ TmpName(rlist[i]) \in Names
BY PathsAssumption DEF TypeOK, ReceiverTypeOK, Entries, TransferSize, Times, TmpName

LEMMA IndexEntry ==
    ASSUME TypeOK, Times, NEW i \in DOMAIN index
    PROVE  /\ index[i] \in Entries /\ index[i].path \in Paths
           /\ index[i].modified \in 1..(edits + 1)
           /\ index[i].size \in Nat
<1>1. index[i] \in Entries
    BY ElementOfSeq, LenProperties DEF TypeOK, SenderTypeOK
<1>2. QED BY <1>1 DEF Entries, Times

\* Different entries use different names.
LEMMA EntryNames ==
    ASSUME TypeOK, Times, List, NamesApart,
           NEW i \in DOMAIN rlist, NEW j \in DOMAIN rlist, i # j
    PROVE  /\ rlist[i].path # rlist[j].path /\ TmpName(rlist[i]) # TmpName(rlist[j])
           /\ TmpName(rlist[i]) # rlist[j].path /\ TmpName(rlist[j]) # rlist[i].path
BY ListEntry DEF List, NamesApart, TmpName

LEMMA OwnNames ==
    ASSUME TypeOK, Times, NamesApart, NEW i \in DOMAIN rlist
    PROVE  \A p \in Paths : TmpName(rlist[i]) # p
BY ListEntry DEF NamesApart, TmpName

\* Every entry with something to send is some stream's, and only one's.
LEMMA WorkOf ==
    ASSUME TypeOK, Times, List, NEW i \in DOMAIN rlist
    PROVE  /\ rlist[i].size > 0 => \E s \in Streams : i \in Work(rlist, s)
           /\ \A s \in Streams : i \in Work(rlist, s) =>
                 rlist[i].offset < rlist[i].size
                 /\ TransferSize(rlist[i]) = rlist[i].size - rlist[i].offset
           /\ \A s, t \in Streams :
                 i \in Work(rlist, s) /\ i \in Work(rlist, t) => s = t
<1>1. IsList(rlist)
    BY ListEntry DEF IsList, List
<1>2. BucketOf(rlist, NumStreams)[i] \in Streams
    BY <1>1, BucketOfDeals, StreamsAssumption DEF Streams
<1>3. rlist[i].size > 0 => TransferSize(rlist[i]) > 0
    BY ListEntry DEF List, TransferSize
<1>4. TransferSize(rlist[i]) > 0 => rlist[i].offset < rlist[i].size
                                    /\ TransferSize(rlist[i]) = rlist[i].size - rlist[i].offset
    BY ListEntry DEF TransferSize
<1>5. QED BY <1>2, <1>3, <1>4 DEF Work, Bucket

\* A step that the receiver and the disk take no part in.
LEMMA ReceiverSame ==
    ASSUME Inv, CopyInv, Older, rst' \in {rst, "off"},
           UNCHANGED <<rlist, prep, rpc, rleft, rbuf, disk>>
    PROVE  List' /\ Prepared' /\ Complete' /\ \A s \in Streams : Written(s)'
<1> USE DEF Inv, CopyInv
<1>1. \A i \in DOMAIN rlist : LET e == rlist[i] IN
          Valid(e.path, e.modified)' => Valid(e.path, e.modified) /\ src'[e.path] = src[e.path]
    BY ListEntry DEF Older
<1>2. List' BY <1>1 DEF List
<1>3. \A i \in DOMAIN rlist : \A d : Whole(d, rlist[i]) => Whole(d, rlist[i])'
    BY <1>1 DEF Whole
<1>4. \A i \in DOMAIN rlist : /\ Done(rlist[i]) => Done(rlist[i])'
                              /\ Resumable(rlist[i]) => Resumable(rlist[i])'
    BY <1>3 DEF Done, Resumable, TmpName
<1>5. Prepared' BY <1>4 DEF Prepared
<1>6. Complete' BY <1>4 DEF Complete
<1>7. ASSUME NEW s \in Streams PROVE Written(s)'
  <2>1. \A i \in DOMAIN rlist : InHand(s, rlist[i]) => InHand(s, rlist[i])'
      BY <1>3 DEF InHand, Receiving, TmpName
  <2>2. rleft[s] \subseteq DOMAIN rlist
      BY DEF TypeOK, ReceiverTypeOK
  <2>3. QED BY <1>4, <2>1, <2>2 DEF Written, Busy
<1>8. QED BY <1>2, <1>5, <1>6, <1>7

\* A step that leaves alone what skipped files depend on.
LEMMA SkippedSame ==
    ASSUME Inv, CopyInv, Older,
           InSession' => InSession /\ index' = index /\ rlist' = rlist,
           \A p \in Paths : (\A i \in DOMAIN rlist : rlist[i].path # p) => SameFile(p)
    PROVE  Skipped'
<1> USE DEF Inv, CopyInv
<1> SUFFICES ASSUME InSession' PROVE Skipped'
    BY DEF Skipped
<1>1. InSession /\ index' = index /\ rlist' = rlist OBVIOUS
<1>2. ASSUME EditsSeen, NEW i \in DOMAIN index \ DOMAIN rlist,
             Valid(index[i].path, index[i].modified)'
      PROVE  (Exact(index[i].path) \/ Coincides(index[i].path))'
  <2>1. Valid(index[i].path, index[i].modified) /\ src'[index[i].path] = src[index[i].path]
      BY <1>2, IndexEntry DEF Older
  <2>2. \A j \in DOMAIN rlist : rlist[j].path # index[i].path
      BY <1>1, <1>2 DEF Skipped, ScanOnce
  <2>3. SameFile(index[i].path)
      BY <2>2, IndexEntry
  <2>4. QED BY <1>1, <1>2, <2>1, <2>3 DEF Skipped, Exact, Coincides, SameFile
<1>3. QED BY <1>1, <1>2 DEF Skipped, EditsSeen

\* A step that leaves a stream's sender, or its messages, alone.
LEMMA SentSame ==
    ASSUME Inv, CopyInv, Older, NEW s \in Streams,
           conn'[s] = "open" => conn[s] = "open" /\ slist' = slist
                                /\ sleft'[s] = sleft[s] /\ sbuf'[s] = sbuf[s]
    PROVE  Sent(s)'
<1> USE DEF Inv, CopyInv
<1> SUFFICES ASSUME conn'[s] = "open" PROVE Sent(s)'
    BY DEF Sent
<1>1. slist = rlist
    BY DEF Fresh, OneSession
<1>2. sleft[s] \subseteq DOMAIN rlist
    BY <1>1 DEF TypeOK, SenderTypeOK
<1>3. ASSUME NEW i \in sleft[s], IsNext(slist, sleft[s], i),
             Valid(slist[i].path, slist[i].modified)'
      PROVE  sbuf[s] = SubSeq(src'[slist[i].path].data, slist[i].offset + 1,
                              slist[i].offset + Len(sbuf[s]))
  <2>1. Valid(slist[i].path, slist[i].modified) /\ src'[slist[i].path] = src[slist[i].path]
      BY <1>1, <1>2, <1>3, ListEntry DEF Older
  <2>2. QED BY <1>3, <2>1 DEF Sent
<1>4. QED BY <1>3 DEF Sent

LEMMA SummedSame ==
    ASSUME Inv, CopyInv, Older, NEW s \in Streams,
           rst' = "stream" => rst = "stream" /\ rlist' = rlist /\ chan'[s] \in {chan[s], <<>>}
    PROVE  Summed(s)'
<1> USE DEF Inv, CopyInv
<1> SUFFICES ASSUME rst' = "stream", chan'[s] = chan[s] PROVE Summed(s)'
    BY DEF Summed
<1>1. ASSUME NEW k \in 1..Len(chan[s]), NEW i \in chan[s][k].left \cap DOMAIN rlist,
             IsNext(rlist, chan[s][k].left, i), chan[s][k].kind = "sum",
             Valid(rlist[i].path, rlist[i].modified)'
      PROVE  chan[s][k].val = SubSeq(src'[rlist[i].path].data, rlist[i].offset + 1, rlist[i].size)
    BY <1>1, ListEntry DEF Summed, Older
<1>2. QED BY <1>1 DEF Summed
------------------------------------------------------------------------------
(* The source, and the sender's main thread.                                 *)

\* The parts of CopyInv that speak of the receiver, under a step of the sender.
LEMMA ReceiverParts ==
    ASSUME Inv, CopyInv, Older, src' = src, InSession' => InSession /\ index' = index,
           rst' \in {rst, "off"}, UNCHANGED <<rlist, prep, rpc, rleft, rbuf, disk>>,
           \A s \in Streams : chan'[s] \in {chan[s], <<>>}
    PROVE  /\ List' /\ Skipped' /\ Prepared' /\ Complete' /\ Sound'
           /\ \A s \in Streams : Written(s)' /\ Summed(s)'
<1>1. Skipped' BY SkippedSame DEF SameFile
<1>2. Sound' BY DEF Sound, StampSound, CopyInv
<1>3. QED BY <1>1, <1>2, ReceiverSame, SummedSame

\* An edit has a time of its own, or takes back the promise of the launch.
LEMMA EditCopy ==
    ASSUME Inv, Inv', CopyInv, NEW p \in Paths, Edit(p)
    PROVE  CopyInv'
<1> USE DEF Inv, CopyInv
<1>0. PICK c \in Contents \ {src[p].data},
           t \in {edits + 2} \cup (IF SameSecond THEN {src[p].mtime} ELSE {}) :
               src' = [src EXCEPT ![p] = [data |-> c, mtime |-> t]]
    BY DEF Edit
<1>1. /\ edits \in Nat /\ edits' = edits + 1 /\ quiet' = FALSE
      /\ src'[p] = [data |-> c, mtime |-> t] /\ \A q \in Paths \ {p} : src'[q] = src[q]
      /\ src[p].mtime \in 1..(edits + 1)
    BY <1>0 DEF Edit, TypeOK, SourceTypeOK, Times
<1>2. t \in 1..(edits + 2) /\ (~SameSecond => t = edits + 2)
    BY <1>1
<1>3. Older
    BY <1>1, <1>2 DEF Older, Valid
<1>4. Times'
  <2>1. \A q \in Paths : src'[q].mtime \in 1..(edits' + 1)
      BY <1>1, <1>2 DEF Times
  <2>2. \A n \in Names : disk[n].mtime \in Nat
      BY DEF TypeOK, DiskTypeOK, Files
  <2>3. QED BY <1>1, <2>1, <2>2 DEF Times, Edit
<1>5. ScanOnce' BY DEF ScanOnce, Edit
<1>6. Scan'
  <2>1. \A q \in Paths, m \in 1..(edits + 1) :
            Scanning(q, m)' => Scanning(q, m) /\ src'[q] = src[q]
      BY <1>1, <1>2 DEF Scanning
  <2>2. DOMAIN stat \subseteq Paths BY DEF TypeOK, SenderTypeOK
  <2>3. QED BY <1>1, <2>1, <2>2, IndexEntry DEF Scan, Edit, Times
<1>7. List' /\ Prepared' /\ Complete' /\ \A s \in Streams : Written(s)'
    BY <1>3, ReceiverSame DEF Edit
<1>8. Skipped' BY <1>3, SkippedSame DEF Edit, InSession, SameFile
<1>9. Sound'
  <2> SUFFICES ASSUME ~SameSecond, NEW q \in Paths, disk[q].stamped, disk[q].mtime = src'[q].mtime
               PROVE  disk[q].data = src'[q].data
      BY DEF Sound, StampSound, Edit
  <2>1. disk[q].mtime <= edits + 1 /\ disk[q].mtime \in Nat
      BY PathsAssumption DEF Times, TypeOK, DiskTypeOK, Files
  <2>2. q # p BY <1>1, <1>2, <2>1
  <2>3. QED BY <1>1, <2>2 DEF Sound, StampSound
<1>10. \A s \in Streams : Sent(s)' /\ Summed(s)'
    BY <1>3, SentSame, SummedSame DEF Edit
<1>11. QED BY <1>4, <1>5, <1>6, <1>7, <1>8, <1>9, <1>10

\* A launch promises nothing yet.
LEMMA LaunchCopy ==
    ASSUME Inv, Inv', CopyInv, Launch
    PROVE  CopyInv'
<1> USE DEF Inv, CopyInv, Launch
<1>1. Older BY DEF Older, Valid
<1>2. Times' BY DEF Times, None
<1>3. ScanOnce' /\ Scan' BY DEF ScanOnce, Scan, None
<1>4. \A s \in Streams : Sent(s)' BY DEF Sent, Fresh
<1>5. QED BY <1>1, <1>2, <1>3, <1>4, ReceiverParts DEF InSession

\* The size and the time are the source's when they are read.
LEMMA ScanStatCopy ==
    ASSUME Inv, Inv', CopyInv, NEW p \in Paths, ScanStat(p)
    PROVE  CopyInv'
<1> USE DEF Inv, CopyInv, ScanStat
<1>1. Older BY OlderSame
<1>2. Times' BY DEF Times
<1>3. ScanOnce' BY DEF ScanOnce
<1>4. Scan' BY DEF Scan, Scanning
<1>5. \A s \in Streams : Sent(s)' BY <1>1, SentSame
<1>6. QED BY <1>1, <1>2, <1>3, <1>4, <1>5, ReceiverParts DEF InSession

\* The checksum is that of the size and the time if nothing came in between.
LEMMA ScanCrcCopy ==
    ASSUME Inv, Inv', CopyInv, NEW p \in Paths, ScanCrc(p)
    PROVE  CopyInv'
<1> USE DEF Inv, CopyInv, ScanCrc
<1> DEFINE e == [path |-> p, size |-> stat[p].size, modified |-> stat[p].modified,
                 crc |-> src[p].data, offset |-> 0]
<1>1. Older BY OlderSame
<1>2. /\ p \in DOMAIN stat /\ index' = Append(index, e)
      /\ DOMAIN index = 1..Len(index) /\ Len(index) \in Nat
      /\ DOMAIN index' = 1..(Len(index) + 1)
      /\ \A i \in 1..(Len(index) + 1) :
            index'[i] = IF i = Len(index) + 1 THEN e ELSE index[i]
    BY LenProperties, AppendProperties DEF TypeOK, SenderTypeOK
<1>3. e.path = p /\ e.size = stat[p].size /\ e.modified = stat[p].modified /\ e.crc = src[p].data
    OBVIOUS
<1> HIDE DEF e
<1>4. \A i \in DOMAIN index' : (i \in DOMAIN index /\ index'[i] = index[i]) \/ index'[i] = e
    BY <1>2
<1>5. Times' BY <1>2, <1>3, <1>4 DEF Times
<1>6. ScanOnce' BY <1>2, <1>3 DEF ScanOnce
<1>7. Scan' BY <1>2, <1>3, <1>4 DEF Scan, Scanning
<1>8. \A s \in Streams : Sent(s)' BY <1>1, SentSame
<1>9. QED BY <1>1, <1>5, <1>6, <1>7, <1>8, ReceiverParts DEF InSession

LEMMA ScanSkipCopy ==
    ASSUME Inv, Inv', CopyInv, NEW p \in Paths, ScanSkip(p)
    PROVE  CopyInv'
<1> USE DEF Inv, CopyInv, ScanSkip
<1>1. Older BY OlderSame
<1>2. Times' BY DEF Times
<1>3. ScanOnce' BY DEF ScanOnce
<1>4. Scan' BY DEF Scan, Scanning
<1>5. \A s \in Streams : Sent(s)' BY <1>1, SentSame
<1>6. QED BY <1>1, <1>2, <1>3, <1>4, <1>5, ReceiverParts DEF InSession

\* A step of the sender that leaves the files and the receiver alone: it keeps
\* what it has scanned, or drops it and is gone.
Aside ==
    /\ UNCHANGED <<src, edits, quiet, dry, disk, rlist, prep, rpc, rleft, rbuf>>
    /\ rst' \in {rst, "off"}
    /\ \/ /\ UNCHANGED <<todo, stat, index>>
          /\ sst' = sst \/ (sst \in {"sent", "list", "stream"} /\ sst' \in {"list", "stream", "ok"})
       \/ todo' = {} /\ stat' = None /\ index' = <<>> /\ sst' = "off"
    /\ \A s \in Streams : chan'[s] \in {chan[s], <<>>}

LEMMA AsideOlder == Aside => Older
BY OlderSame DEF Aside

LEMMA AsideParts ==
    ASSUME Inv, CopyInv, Aside, \A s \in Streams : Sent(s)'
    PROVE  CopyInv'
<1> USE DEF CopyInv, Aside
<1>1. Older BY AsideOlder
<1>2. Times' BY DEF Times, None
<1>3. ScanOnce' /\ Scan' BY DEF ScanOnce, Scan, Scanning, None
<1>4. InSession' => InSession /\ index' = index
    BY DEF InSession
<1>5. QED BY <1>1, <1>2, <1>3, <1>4, ReceiverParts

\* The steps of the sender that read the control connection.
LEMMA ControlCopy ==
    ASSUME Inv, Inv', CopyInv,
           ConnectRefused \/ RecvList \/ RecvConfirm \/ ControlLost \/ JoinSender \/ SenderCrash
    PROVE  CopyInv'
<1> USE DEF Inv, SenderGone, Scanned
<1>1. CASE ConnectRefused
  <2>1. Aside BY <1>1 DEF ConnectRefused, Aside
  <2>2. \A s \in Streams : conn'[s] # "open" BY <1>1 DEF ConnectRefused, Fresh
  <2>3. QED BY <2>1, <2>2, AsideParts DEF Sent
<1>2. CASE RecvList
  <2>1. Aside BY <1>2 DEF RecvList, Aside
  <2>2. \A s \in Streams : conn'[s] # "open" BY <1>2 DEF RecvList, Fresh
  <2>3. QED BY <2>1, <2>2, AsideParts DEF Sent
<1>3. CASE RecvConfirm
  <2>1. Aside BY <1>3 DEF RecvConfirm, Aside
  <2>2. \A s \in Streams : conn'[s] # "open" BY <1>3 DEF RecvConfirm, Fresh
  <2>3. QED BY <2>1, <2>2, AsideParts DEF Sent
<1>4. CASE ControlLost
  <2>1. Aside BY <1>4 DEF ControlLost, Aside
  <2>2. \A s \in Streams : conn'[s] # "open" BY <1>4 DEF ControlLost, Fresh
  <2>3. QED BY <2>1, <2>2, AsideParts DEF Sent
<1>5. CASE JoinSender
  <2>1. Aside BY <1>5 DEF JoinSender, Aside
  <2>2. \A s \in Streams : conn'[s] # "open" BY <1>5 DEF JoinSender, Fresh
  <2>3. QED BY <2>1, <2>2, AsideParts DEF Sent
<1>6. CASE SenderCrash
  <2>1. Aside BY <1>6 DEF SenderCrash, Aside
  <2>2. \A s \in Streams : conn'[s] # "open" BY <1>6 DEF SenderCrash, TypeOK, NetTypeOK
  <2>3. QED BY <2>1, <2>2, AsideParts DEF Sent
<1>7. QED BY <1>1, <1>2, <1>3, <1>4, <1>5, <1>6

------------------------------------------------------------------------------
(* The sender's stream threads.                                              *)

\* A stream that is made or ended carries nothing new.
LEMMA ConnectionCopy ==
    ASSUME Inv, Inv', CopyInv, NEW s \in Streams,
           \/ Connect(s) \/ ConnectLate(s) \/ FinishStream(s) \/ ReadShort(s)
           \/ WriteFails(s) \/ StreamIoError(s)
    PROVE  CopyInv'
<1> USE DEF Inv, StreamFails
<1>1. CASE Connect(s)
  <2>1. Aside BY <1>1 DEF Connect, Aside
  <2>2. ASSUME NEW t \in Streams PROVE Sent(t)'
    <3>1. CASE t = s
      <4>1. /\ sbuf'[s] = <<>> /\ slist' = slist /\ slist = rlist /\ sleft'[s] \subseteq DOMAIN rlist
          BY <1>1 DEF Connect, Fresh, OneSession, TypeOK, SenderTypeOK
      <4>2. ASSUME NEW i \in sleft'[s]
            PROVE  <<>> = SubSeq(src'[slist[i].path].data, slist[i].offset + 1, slist[i].offset)
        <5>1. slist[i].offset \in Nat /\ src'[slist[i].path].data \in Seq(Block)
            BY <4>1, <2>1, ListEntry DEF Aside, CopyInv, TypeOK, SourceTypeOK
        <5>2. QED BY <5>1, SubSeqEmpty
      <4>3. Len(<<>>) = 0 BY EmptySeq
      <4>4. ASSUME NEW i \in sleft'[s]
            PROVE  sbuf'[s] = SubSeq(src'[slist[i].path].data, slist[i].offset + 1,
                                     slist[i].offset + Len(sbuf'[s]))
        <5>1. slist[i].offset \in Nat BY <4>1, ListEntry DEF CopyInv
        <5>2. slist[i].offset + Len(sbuf'[s]) = slist[i].offset BY <4>1, <4>3, <5>1
        <5>3. QED BY <4>1, <4>2, <5>2
      <4>5. QED BY <3>1, <4>1, <4>4 DEF Sent
    <3>2. CASE t # s
      <4>1. Older BY <2>1, AsideOlder
      <4>2. QED BY <1>1, <3>2, <4>1, SentSame DEF Connect, TypeOK, NetTypeOK
    <3>3. QED BY <3>1, <3>2
  <2>3. QED BY <2>1, <2>2, AsideParts
<1>2. CASE ConnectLate(s)
  <2>1. Aside BY <1>2 DEF ConnectLate, Aside
  <2>2. \A t \in Streams : Sent(t)' BY <1>2, <2>1, AsideOlder, SentSame DEF ConnectLate
  <2>3. QED BY <2>1, <2>2, AsideParts
<1>3. CASE FinishStream(s)
  <2>1. Aside BY <1>3 DEF FinishStream, Aside
  <2>2. \A t \in Streams : Sent(t)'
      BY <1>3, <2>1, AsideOlder, SentSame DEF FinishStream, TypeOK, NetTypeOK
  <2>3. QED BY <2>1, <2>2, AsideParts
<1>4. CASE ReadShort(s)
  <2>1. Aside BY <1>4 DEF ReadShort, Aside
  <2>2. \A t \in Streams : Sent(t)'
      BY <1>4, <2>1, AsideOlder, SentSame DEF ReadShort, TypeOK, NetTypeOK
  <2>3. QED BY <2>1, <2>2, AsideParts
<1>5. CASE WriteFails(s)
  <2>1. Aside BY <1>5 DEF WriteFails, Aside
  <2>2. \A t \in Streams : Sent(t)'
      BY <1>5, <2>1, AsideOlder, SentSame DEF WriteFails, TypeOK, NetTypeOK
  <2>3. QED BY <2>1, <2>2, AsideParts
<1>6. CASE StreamIoError(s)
  <2>1. Aside BY <1>6 DEF StreamIoError, Aside
  <2>2. \A t \in Streams : Sent(t)'
      BY <1>6, <2>1, AsideOlder, SentSame DEF StreamIoError, TypeOK, NetTypeOK
  <2>3. QED BY <2>1, <2>2, AsideParts
<1>7. QED BY <1>1, <1>2, <1>3, <1>4, <1>5, <1>6
\* A step that touches only what is on the streams, and the senders' places.
LEMMA DataParts ==
    ASSUME Inv, CopyInv, \A s \in Streams : Sent(s)' /\ Summed(s)',
           UNCHANGED <<src, edits, quiet, sst, todo, stat, index, dry, slist, rcvVars, disk>>
    PROVE  CopyInv'
<1> USE DEF CopyInv
<1>1. Older BY OlderSame
<1>2. Times' /\ ScanOnce' /\ Scan' BY DEF Times, ScanOnce, Scan, Scanning
<1>3. Sound' BY DEF Sound, StampSound
<1>4. InSession' => InSession BY DEF InSession
<1>5. Skipped' BY <1>1, <1>4, SkippedSame DEF SameFile
<1>6. QED BY <1>1, <1>2, <1>3, <1>5, ReceiverSame

\* One block more of a part of a file.
LEMMA OneMore ==
    ASSUME NEW d \in Seq(Block), NEW o \in Nat, NEW n \in Nat, o + n + 1 <= Len(d)
    PROVE  Append(SubSeq(d, o + 1, o + n), d[o + n + 1]) = SubSeq(d, o + 1, o + n + 1)
<1>1. Len(d) \in Nat BY LenProperties
<1>2. o + 1 \in 1..Len(d) /\ o + n + 1 \in (o + 1)..Len(d) BY <1>1
<1>3. SubSeq(d, o + 1, o + n + 1) = SubSeq(d, o + 1, (o + n + 1) - 1) \o <<d[o + n + 1]>>
    BY <1>2, SubSeqRecursiveSecond
<1>4. (o + n + 1) - 1 = o + n OBVIOUS
<1>5. \A i \in (o + 1)..(o + n) : d[i] \in Block BY <1>1, ElementOfSeq
<1>6. SubSeq(d, o + 1, o + n) \in Seq(Block) BY <1>5, SubSeqProperties
<1>7. d[o + n + 1] \in Block BY <1>1, ElementOfSeq
<1>8. QED BY <1>3, <1>4, <1>6, <1>7, AppendIsConcat

\* A stream that is connected sends from the receiver's list.
LEMMA OpenStream ==
    ASSUME Inv, NEW s \in Streams, conn[s] = "open"
    PROVE  /\ slist = rlist /\ rst = "stream" /\ sleft[s] \subseteq DOMAIN rlist
           /\ sbuf[s] \in Seq(Block) /\ Len(sbuf[s]) \in Nat
           /\ chan[s] \in Seq(Blocks \cup Sums) /\ Len(chan[s]) \in Nat
<1>1. slist = rlist /\ rst = "stream"
  <2>1. Fresh(s) /\ OneSession BY DEF Inv
  <2>2. sst = "stream" /\ (link = "up" \/ Returned) BY <2>1 DEF Fresh
  <2>3. QED BY <2>1, <2>2 DEF OneSession
<1>2. QED BY <1>1, LenProperties DEF Inv, TypeOK, SenderTypeOK, NetTypeOK

\* What is appended to a stream is the source's next block.
LEMMA SendBlockCopy ==
    ASSUME Inv, Inv', CopyInv, NEW s \in Streams, SendBlock(s)
    PROVE  CopyInv'
<1> USE DEF Inv, CopyInv, SendBlock
<1>1. Older BY OlderSame
<1>2. PICK i \in sleft[s] :
          LET e == slist[i]
              k == e.offset + Len(sbuf[s]) + 1
          IN  /\ Sending(s, i)
              /\ k <= Len(src[e.path].data)
              /\ Write(s, Message(s, "block", src[e.path].data[k]))
              /\ sbuf' = [sbuf EXCEPT ![s] = Append(@, src[e.path].data[k])]
    OBVIOUS
<1> DEFINE e == slist[i]
           m == Message(s, "block", src[e.path].data[e.offset + Len(sbuf[s]) + 1])
<1>3. CASE conn[s] = "open"
  <2>1. /\ chan' = [chan EXCEPT ![s] = Append(@, m)] /\ m.kind = "block"
      BY <1>2, <1>3 DEF Write, Message
  <2> HIDE DEF m
  <2>2. Summed(s)'
    <3>1. /\ Len(chan'[s]) = Len(chan[s]) + 1 /\ chan'[s][Len(chan[s]) + 1] = m
          /\ \A k \in 1..Len(chan[s]) : chan'[s][k] = chan[s][k]
        BY <1>3, <2>1, OpenStream DEF TypeOK, NetTypeOK
    <3>2. \A k \in 1..Len(chan'[s]) : chan'[s][k].kind = "sum" =>
              k \in 1..Len(chan[s]) /\ chan'[s][k] = chan[s][k]
        BY <1>3, <2>1, <3>1, OpenStream
    <3>3. UNCHANGED <<src, quiet, sst, rst, rlist>> OBVIOUS
    <3>4. Summed(s) BY DEF CopyInv
    <3> HIDE DEF Inv, CopyInv, SendBlock
    <3>5. SUFFICES ASSUME rst = "stream", NEW k \in 1..Len(chan'[s]), chan'[s][k].kind = "sum",
                          NEW j \in chan'[s][k].left \cap DOMAIN rlist,
                          IsNext(rlist, chan'[s][k].left, j),
                          Valid(rlist[j].path, rlist[j].modified)'
                   PROVE  chan'[s][k].val = SubSeq(src[rlist[j].path].data,
                                                   rlist[j].offset + 1, rlist[j].size)
        BY <3>3 DEF Summed
    <3>6. Valid(rlist[j].path, rlist[j].modified) BY <3>3, <3>5 DEF Valid
    <3>7. QED BY <3>2, <3>4, <3>5, <3>6 DEF Summed
  <2>3. Sent(s)'
    <3> SUFFICES ASSUME NEW j \in sleft[s], IsNext(slist, sleft[s], j),
                        Valid(slist[j].path, slist[j].modified)
                 PROVE  sbuf'[s] = SubSeq(src[slist[j].path].data, slist[j].offset + 1,
                                          slist[j].offset + Len(sbuf'[s]))
        BY DEF Sent, Valid
    <3>1. j = i BY <1>2, <1>3, OpenStream, NextUnique, SMTT(30) DEF Sending
    <3>2. /\ sbuf[s] = SubSeq(src[e.path].data, e.offset + 1, e.offset + Len(sbuf[s]))
        BY <1>3, <3>1 DEF Sent
    <3>3. /\ e.offset \in Nat /\ Len(sbuf[s]) \in Nat /\ src[e.path].data \in Seq(Block)
        BY <1>3, OpenStream, ListEntry DEF TypeOK, SourceTypeOK
    <3>4. /\ sbuf'[s] = Append(sbuf[s], src[e.path].data[e.offset + Len(sbuf[s]) + 1])
          /\ e.offset + Len(sbuf[s]) + 1 <= Len(src[e.path].data)
        BY <1>2 DEF TypeOK, SenderTypeOK
    <3>5. Append(SubSeq(src[e.path].data, e.offset + 1, e.offset + Len(sbuf[s])),
                 src[e.path].data[e.offset + Len(sbuf[s]) + 1])
          = SubSeq(src[e.path].data, e.offset + 1, e.offset + Len(sbuf[s]) + 1)
        BY <3>3, <3>4, OneMore
    <3>6. Len(sbuf'[s]) = Len(sbuf[s]) + 1
      <4>1. sbuf'[s] \in Seq(Block) /\ sbuf[s] \in Seq(Block)
          BY DEF TypeOK, SenderTypeOK
      <4>2. src[e.path].data[e.offset + Len(sbuf[s]) + 1] \in Block
          BY <3>3, <3>4, ElementOfSeq, SMTT(30)
      <4>3. QED BY <3>4, <4>1, <4>2, AppendProperties, SMTT(30)
    <3>7. e.offset + Len(sbuf'[s]) = e.offset + Len(sbuf[s]) + 1
        BY <3>3, <3>6
    <3> HIDE DEF e
    <3>8. sbuf'[s] = SubSeq(src[e.path].data, e.offset + 1, e.offset + Len(sbuf[s]) + 1)
        BY <3>2, <3>4, <3>5
    <3>9. QED BY <3>1, <3>7, <3>8 DEF e
  <2>4. \A t \in Streams \ {s} : Sent(t)' /\ Summed(t)'
      BY <1>1, <1>2, <2>1, SentSame, SummedSame DEF TypeOK, NetTypeOK, SenderTypeOK
  <2>5. QED BY <2>2, <2>3, <2>4, DataParts
<1>4. CASE conn[s] # "open"
  <2>1. chan' = chan BY <1>2, <1>4 DEF Write
  <2>2. \A t \in Streams : Sent(t)' /\ Summed(t)'
      BY <1>1, <1>2, <1>4, <2>1, SentSame, SummedSame DEF TypeOK, SenderTypeOK
  <2>3. QED BY <2>2, DataParts
<1>5. QED BY <1>3, <1>4

\* The checksum is that of the rest of the file, from the offset on.
LEMMA SendSumCopy ==
    ASSUME Inv, Inv', CopyInv, NEW s \in Streams, SendSum(s)
    PROVE  CopyInv'
<1> USE DEF Inv, CopyInv, SendSum
<1>1. Older BY OlderSame
<1>2. PICK i \in sleft[s] :
          /\ Sending(s, i)
          /\ Len(sbuf[s]) = TransferSize(slist[i])
          /\ Write(s, Message(s, "sum", sbuf[s]))
          /\ sleft' = [sleft EXCEPT ![s] = @ \ {i}]
    OBVIOUS
<1> DEFINE m == Message(s, "sum", sbuf[s])
<1>3. CASE conn[s] = "open"
  <2>1. /\ chan' = [chan EXCEPT ![s] = Append(@, m)]
        /\ m.left = sleft[s] /\ m.val = sbuf[s]
      BY <1>2, <1>3 DEF Write, Message
  <2> HIDE DEF m
  <2>2. ASSUME NEW j \in sleft[s], IsNext(rlist, sleft[s], j),
               Valid(rlist[j].path, rlist[j].modified)
        PROVE  sbuf[s] = SubSeq(src[rlist[j].path].data, rlist[j].offset + 1, rlist[j].size)
    <3>1. j = i BY <1>2, <1>3, <2>2, OpenStream, NextUnique DEF Sending
    <3>2. slist = rlist /\ j \in DOMAIN rlist BY <1>3, OpenStream
    <3>3. rlist[j].offset + Len(sbuf[s]) = rlist[j].size
        BY <1>2, <3>1, <3>2, ListEntry DEF List, TransferSize
    <3>4. QED BY <1>3, <2>2, <3>2, <3>3 DEF Sent
  <2>3. Summed(s)'
    <3>1. /\ Len(chan'[s]) = Len(chan[s]) + 1 /\ chan'[s][Len(chan[s]) + 1] = m
          /\ \A k \in 1..Len(chan[s]) : chan'[s][k] = chan[s][k]
        BY <1>3, <2>1, OpenStream DEF TypeOK, NetTypeOK
    <3>2. \A k \in 1..Len(chan'[s]) : \/ chan'[s][k] = m
                                      \/ k \in 1..Len(chan[s]) /\ chan'[s][k] = chan[s][k]
        BY <1>3, <3>1, OpenStream
    <3>3. QED BY <2>1, <2>2, <3>2 DEF Summed, Valid
  <2>4. Sent(s)'
    <3>1. sbuf'[s] = <<>> /\ Len(<<>>) = 0 BY EmptySeq DEF TypeOK, SenderTypeOK
    <3>2. ASSUME NEW j \in sleft'[s]
          PROVE  sbuf'[s] = SubSeq(src'[slist[j].path].data, slist[j].offset + 1,
                                   slist[j].offset + Len(sbuf'[s]))
      <4>1. j \in DOMAIN rlist /\ slist = rlist
          BY <1>2, <1>3, OpenStream DEF TypeOK, SenderTypeOK
      <4>2. slist[j].offset \in Nat BY <4>1, ListEntry
      <4>3. slist[j].offset + Len(sbuf'[s]) = slist[j].offset BY <3>1, <4>2
      <4>4. SubSeq(src'[slist[j].path].data, slist[j].offset + 1, slist[j].offset) = <<>>
          BY <4>2, SubSeqEmpty
      <4>5. QED BY <3>1, <4>3, <4>4
    <3>3. QED BY <3>2 DEF Sent
  <2>5. \A t \in Streams \ {s} : Sent(t)' /\ Summed(t)'
      BY <1>1, <1>2, <2>1, SentSame, SummedSame DEF TypeOK, NetTypeOK, SenderTypeOK
  <2>6. QED BY <2>3, <2>4, <2>5, DataParts
<1>4. CASE conn[s] # "open"
  <2>1. chan' = chan BY <1>2, <1>4 DEF Write
  <2>2. \A t \in Streams : Sent(t)' /\ Summed(t)'
      BY <1>1, <1>2, <1>4, <2>1, SentSame, SummedSame DEF TypeOK, SenderTypeOK
  <2>3. QED BY <2>2, DataParts
<1>5. QED BY <1>3, <1>4

\* Corruption changes blocks, not what the checksums were computed from.
LEMMA CorruptCopy ==
    ASSUME Inv, Inv', CopyInv, NEW s \in Streams, Corrupt(s)
    PROVE  CopyInv'
<1> USE DEF Inv, CopyInv, Corrupt
<1>1. Older BY OlderSame
<1>2. PICK v \in Block : chan' = [chan EXCEPT ![s][1].val = v]
    OBVIOUS
<1>3. /\ chan[s] \in Seq(Blocks \cup Sums) /\ Len(chan[s]) \in Nat \ {0}
      /\ chan[s][1] \in Blocks \cup Sums /\ chan[s][1].kind = "block"
  <2>1. chan[s] \in Seq(Blocks \cup Sums) /\ chan[s] # <<>> /\ Head(chan[s]).kind = "block"
      BY DEF TypeOK, NetTypeOK
  <2>2. Len(chan[s]) \in Nat \ {0} BY <2>1, EmptySeq
  <2>3. chan[s][1] \in Blocks \cup Sums /\ Head(chan[s]) = chan[s][1]
      BY <2>1, <2>2, ElementOfSeq
  <2>4. QED BY <2>1, <2>2, <2>3
<1>4. /\ Len(chan'[s]) = Len(chan[s]) /\ \A t \in Streams \ {s} : chan'[t] = chan[t]
      /\ \A k \in 1..Len(chan[s]) : chan'[s][k].kind = "sum" => chan'[s][k] = chan[s][k]
  <2> DEFINE m == [chan[s][1] EXCEPT !.val = v]
  <2>1. m \in Blocks \cup Sums /\ m.kind = "block" BY <1>3 DEF Blocks, Sums
  <2>2. chan'[s] = [chan[s] EXCEPT ![1] = m] /\ \A t \in Streams \ {s} : chan'[t] = chan[t]
      BY <1>2 DEF TypeOK, NetTypeOK
  <2> HIDE DEF m
  <2>3. 1 \in 1..Len(chan[s]) BY <1>3
  <2>4. /\ Len(chan'[s]) = Len(chan[s])
        /\ \A k \in 1..Len(chan[s]) : chan'[s][k] = IF k = 1 THEN m ELSE chan[s][k]
      BY <1>3, <2>1, <2>2, <2>3, ExceptSeq
  <2>5. QED BY <2>1, <2>2, <2>4
<1>5. Summed(s)' BY <1>4 DEF Summed, Valid
<1>6. \A t \in Streams \ {s} : Summed(t)' BY <1>1, <1>4, SummedSame
<1>7. \A t \in Streams : Sent(t)' BY <1>1, SentSame
<1>8. QED BY <1>5, <1>6, <1>7, DataParts
------------------------------------------------------------------------------
(* The receiver's main thread.                                               *)

\* Outside of a session nothing is said about the receiver.
LEMMA ListenCopy ==
    ASSUME Inv, Inv', CopyInv, Listen
    PROVE  CopyInv'
<1> USE DEF Inv, CopyInv, Listen
<1>1. Older BY OlderSame
<1>2. Times' /\ ScanOnce' /\ Scan' BY DEF Times, ScanOnce, Scan, Scanning, None
<1>3. List'
  <2>1. IsFiniteSet({}) BY FS_EmptySet
  <2>2. DOMAIN rlist' = {} BY DEF None
  <2>3. QED BY <2>1, <2>2 DEF List
<1>4. Skipped' /\ Prepared' /\ Complete' BY DEF Skipped, InSession, Prepared, Complete
<1>5. Sound' BY DEF Sound, StampSound
<1>6. \A s \in Streams : Written(s)' /\ Summed(s)' BY DEF Written, Summed
<1>7. \A s \in Streams : Sent(s)' BY <1>1, SentSame
<1>8. QED BY <1>2, <1>3, <1>4, <1>5, <1>6, <1>7

\* Nothing at a name changes by closing the handles but who writes to it.
LEMMA HandlesClosedSame ==
    ASSUME TypeOK, NEW n \in Names
    PROVE  /\ HandlesClosed[n].here = disk[n].here /\ HandlesClosed[n].data = disk[n].data
           /\ HandlesClosed[n].mtime = disk[n].mtime
           /\ HandlesClosed[n].stamped = disk[n].stamped
BY DEF HandlesClosed, TypeOK, DiskTypeOK, Files

\* A receiver that leaves reports success only when no thread has work left.
LEMMA LeaveCopy ==
    ASSUME Inv, Inv', CopyInv,
           \/ ReceiverLeaves("off") /\ rlist' = None
           \/ ReceiverLeaves("ok") /\ rlist' = rlist /\ rst = "stream" /\ sst' = sst
              /\ index' = index /\ \A s \in Streams : rleft[s] = {},
           disk' \in {disk, HandlesClosed},
           UNCHANGED <<src, edits, quiet, todo, stat, dry, slist, sndThreads>>,
           \/ UNCHANGED <<sst, index>>
           \/ sst' = "off" /\ index' = <<>>
    PROVE  CopyInv'
<1> USE DEF Inv, CopyInv, ReceiverLeaves
<1>1. Older BY OlderSame
<1>2. \A n \in Names : SameFile(n)
    BY HandlesClosedSame DEF SameFile
<1>3. Times' BY <1>2 DEF Times, None, SameFile
<1>4. ScanOnce' /\ Scan' BY DEF ScanOnce, Scan, Scanning
<1>5. List'
  <2>1. IsFiniteSet({}) /\ DOMAIN None = {} BY FS_EmptySet DEF None
  <2>2. CASE rlist' = None BY <2>1, <2>2 DEF List
  <2>3. CASE rlist' = rlist
    <3>1. \A i \in DOMAIN rlist : LET e == rlist[i] IN
              Valid(e.path, e.modified)' => Valid(e.path, e.modified) /\ src'[e.path] = src[e.path]
        BY <1>1, <2>3, ListEntry DEF Older
    <3>2. QED BY <2>3, <3>1 DEF List
  <2>4. QED BY <2>2, <2>3
<1>6. Skipped' BY <1>1, <1>2, SkippedSame, PathsAssumption DEF InSession, Skipped
<1>7. Prepared' /\ \A s \in Streams : Written(s)' /\ Summed(s)'
    BY DEF Prepared, Written, Summed
<1>8. \A s \in Streams : Sent(s)' BY DEF Sent, TypeOK, NetTypeOK
<1>9. Complete'
  <2> SUFFICES ASSUME rst' = "ok", NEW i \in DOMAIN rlist PROVE Done(rlist[i])'
      BY DEF Complete
  <2>1. Done(rlist[i]) BY DEF Complete
  <2>2. rlist[i].path \in Names /\ rlist[i].path \in Paths
        /\ rlist[i].modified \in 1..(edits + 1)
      BY ListEntry
  <2>3. Valid(rlist[i].path, rlist[i].modified)' => Valid(rlist[i].path, rlist[i].modified)
        /\ src'[rlist[i].path] = src[rlist[i].path]
      BY <1>1, <2>2 DEF Older
  <2>4. QED BY <1>2, <2>1, <2>2, <2>3 DEF Done, Whole, SameFile
<1>10. Sound' BY <1>2, PathsAssumption DEF Sound, StampSound, SameFile
<1>11. QED BY <1>3, <1>4, <1>5, <1>6, <1>7, <1>8, <1>9, <1>10

LEMMA ReceiverLeavesCopy ==
    ASSUME Inv, Inv', CopyInv,
           ConfirmFails \/ JoinReceiver \/ ProcessEnds \/ ReceiverCrash
    PROVE  CopyInv'
<1>1. CASE ConfirmFails BY <1>1, LeaveCopy DEF ConfirmFails
<1>2. CASE JoinReceiver
  <2>1. CASE \E s \in Streams : rpc[s] = "err" BY <1>2, <2>1, LeaveCopy DEF JoinReceiver
  <2>2. CASE \A s \in Streams : rpc[s] # "err"
    <3>1. /\ ReceiverLeaves("ok") /\ rlist' = rlist /\ rst = "stream"
          /\ UNCHANGED <<srcVars, sndVars>> /\ disk' = HandlesClosed
        BY <1>2, <2>2 DEF JoinReceiver
    <3>2. \A s \in Streams : rleft[s] = {}
        BY <1>2, <2>2 DEF JoinReceiver, Finished
    <3>3. QED BY <3>1, <3>2, LeaveCopy
  <2>3. QED BY <2>1, <2>2
<1>3. CASE ProcessEnds BY <1>3, LeaveCopy DEF ProcessEnds
<1>4. CASE ReceiverCrash BY <1>4, LeaveCopy DEF ReceiverCrash
<1>5. QED BY <1>1, <1>2, <1>3, <1>4

\* The session's list stays while no file in it gets valid.
LEMMA ListSame ==
    ASSUME Inv, CopyInv, Older, rlist' = rlist
    PROVE  /\ List'
           /\ \A i \in DOMAIN rlist : \A d : Whole(d, rlist[i]) => Whole(d, rlist[i])'
<1> USE DEF Inv, CopyInv
<1>1. \A i \in DOMAIN rlist : LET e == rlist[i] IN
          Valid(e.path, e.modified)' => Valid(e.path, e.modified) /\ src'[e.path] = src[e.path]
    BY ListEntry DEF Older
<1>2. List' BY <1>1 DEF List
<1>3. QED BY <1>1, <1>2 DEF Whole

\* The threads start when everything else is in place.
LEMMA ConfirmCopy ==
    ASSUME Inv, Inv', CopyInv, Confirm
    PROVE  CopyInv'
<1> USE DEF Inv, CopyInv, Confirm
<1>1. Older BY OlderSame
<1>2. Times' /\ ScanOnce' /\ Scan' BY DEF Times, ScanOnce, Scan, Scanning
<1>3. List' BY <1>1, ListSame
<1>4. Skipped' BY <1>1, SkippedSame DEF InSession, SameFile
<1>5. Prepared' /\ Sound' BY DEF Prepared, Sound, StampSound
<1>6. \A s \in Streams : Sent(s)' BY DEF Sent
<1>7. \A s \in Streams : Summed(s)'
  <2>1. \A s \in Streams : Len(chan'[s]) = 0 BY EmptySeq
  <2>2. QED BY <2>1 DEF Summed
<1>8. ASSUME NEW i \in DOMAIN rlist
      PROVE  /\ Resumable(rlist[i])'
             /\ (\A s \in Streams : i \notin Work(rlist, s)) => Done(rlist[i])'
  <2>1. Resumable(rlist[i])' BY DEF Prepared, Resumable, TmpName
  <2>2. ASSUME \A s \in Streams : i \notin Work(rlist, s) PROVE Done(rlist[i])'
    <3>1. rlist[i].size = 0 BY <2>2, WorkOf, ListEntry
    <3>2. Done(rlist[i]) BY <3>1 DEF Prepared
    <3>3. QED BY <1>1, <3>2, ListSame DEF Done
  <2>3. QED BY <2>1, <2>2
<1>9. Complete' BY <1>8 DEF Complete
<1>10. ASSUME NEW s \in Streams PROVE Written(s)'
  <2>1. Work(rlist, s) \subseteq DOMAIN rlist BY DEF Work, Bucket
  <2>2. rpc'[s] \in {"open", "wait"} /\ rleft'[s] = Work(rlist, s) /\ rbuf'[s] = <<>> OBVIOUS
  <2>3. Work(rlist, s)' = Work(rlist, s) BY DEF Work, Bucket
  <2>4. QED BY <1>8, <2>1, <2>2, <2>3 DEF Written, Busy
<1>11. QED BY <1>2, <1>3, <1>4, <1>5, <1>6, <1>7, <1>9, <1>10

\* The list is the part of the index that the destination does not have; it is
\* resumed where a temporary file ends.
LEMMA NegotiateCopy ==
    ASSUME Inv, Inv', CopyInv, Negotiate
    PROVE  CopyInv'
<1> USE DEF Inv, CopyInv, Negotiate, Scanned
<1> DEFINE wanted == {i \in DOMAIN index : ~Skip(index[i])}
           list == [i \in wanted |-> [index[i] EXCEPT !.offset = ResumeOffset(index[i])]]
<1>1. ASSUME NEW i \in DOMAIN index
      PROVE  /\ index[i] \in Entries /\ index[i].path \in Paths /\ index[i].size \in Nat
             /\ index[i].path \in Names /\ TmpName(index[i]) \in Names
             /\ index[i].modified \in 1..(edits + 1)
             /\ Len(disk[TmpName(index[i])].data) \in Nat
  <2>1. index[i] \in Entries /\ index[i].path \in Paths /\ index[i].size \in Nat
        /\ index[i].modified \in 1..(edits + 1)
      BY IndexEntry
  <2>2. index[i].path \in Names /\ TmpName(index[i]) \in Names
      BY <2>1, PathsAssumption DEF TmpName
  <2>3. Len(disk[TmpName(index[i])].data) \in Nat
      BY <2>2, LenProperties DEF TypeOK, DiskTypeOK, Files
  <2>4. QED BY <2>1, <2>2, <2>3
<1>2. ASSUME NEW i \in wanted
      PROVE  /\ list[i].path = index[i].path /\ list[i].modified = index[i].modified
             /\ list[i].size = index[i].size /\ list[i].crc = index[i].crc
             /\ list[i].offset = ResumeOffset(index[i])
    BY <1>1 DEF Entries
<1>3. rlist' = list \/ (dry /\ rlist' = None) OBVIOUS
<1> HIDE DEF list
<1>4. DOMAIN list = wanted /\ DOMAIN None = {} BY DEF list, None
<1>5. \A p \in Paths : \A m : Valid(p, m)' => Scanning(p, m) BY DEF Valid, Scanning
<1>6. Times' BY <1>2, <1>3, <1>4 DEF Times
<1>7. ScanOnce' /\ Scan' BY DEF ScanOnce, Scan, Scanning
<1>8. List'
  <2>1. IsFiniteSet(DOMAIN rlist')
    <3>1. DOMAIN index = 1..Len(index) /\ Len(index) \in Nat
        BY LenProperties DEF TypeOK, SenderTypeOK
    <3>2. IsFiniteSet(DOMAIN index) BY <3>1, FS_Interval
    <3>3. DOMAIN rlist' \subseteq DOMAIN index BY <1>3, <1>4
    <3>4. QED BY <3>2, <3>3, FS_Subset
  <2>2. ASSUME NEW i \in wanted
        PROVE  /\ list[i].offset < list[i].size \/ (list[i].offset = 0 /\ list[i].size = 0)
               /\ Valid(index[i].path, index[i].modified)' =>
                     /\ list[i].size = Len(src[index[i].path].data)
                     /\ list[i].crc = src[index[i].path].data
    <3>1. list[i].offset < list[i].size \/ (list[i].offset = 0 /\ list[i].size = 0)
        BY <1>1, <1>2 DEF ResumeOffset
    <3>2. QED BY <1>1, <1>2, <1>5, <3>1 DEF Scan
  <2>3. QED BY <1>2, <1>3, <1>4, <2>1, <2>2 DEF List, ScanOnce
<1>9. Skipped'
  <2> SUFFICES ASSUME InSession' PROVE Skipped'
      BY DEF Skipped
  <2>1. rlist' = list BY <1>3 DEF InSession
  <2>2. ASSUME EditsSeen, NEW i \in DOMAIN index \ wanted,
               Valid(index[i].path, index[i].modified)'
        PROVE  (Exact(index[i].path) \/ Coincides(index[i].path))'
    <3>1. Skip(index[i]) OBVIOUS
    <3>2. index[i].crc = src[index[i].path].data BY <1>1, <1>5, <2>2 DEF Scan
    <3>3. index[i].modified = src[index[i].path].mtime BY <2>2 DEF Valid
    <3>4. CASE VerifyExisting BY <3>1, <3>2, <3>4 DEF Skip, Exact
    <3>5. CASE ~VerifyExisting
      <4>1. ~SameSecond BY <2>2, <3>5 DEF EditsSeen
      <4>2. CASE disk[index[i].path].stamped
          BY <1>1, <3>1, <3>3, <3>5, <4>1, <4>2 DEF Skip, Exact, Sound, StampSound
      <4>3. CASE ~disk[index[i].path].stamped
        <5>1. index[i].size = Len(src[index[i].path].data) BY <1>1, <1>5, <2>2 DEF Scan
        <5>2. QED BY <3>1, <3>3, <3>5, <4>3, <5>1 DEF Skip, Coincides
      <4>4. QED BY <4>2, <4>3
    <3>6. QED BY <3>4, <3>5
  <2>3. QED BY <1>2, <1>4, <2>1, <2>2 DEF Skipped, EditsSeen
<1>10. Prepared'
  <2>1. ASSUME NEW i \in wanted, list[i].offset > 0
        PROVE  /\ disk[Tmp[list[i].path]].here
               /\ Len(disk[Tmp[list[i].path]].data) = list[i].offset
      BY <1>1, <1>2, <2>1 DEF ResumeOffset, TmpName
  <2>2. \A i \in DOMAIN rlist' : i \in wanted /\ rlist'[i] = list[i] /\ i \in prep'
      BY <1>3, <1>4
  <2>3. QED BY <2>1, <2>2 DEF Prepared, Resumable, TmpName
<1>11. Complete' BY <1>4 DEF Complete
<1>12. Sound' BY DEF Sound, StampSound
<1>13. \A s \in Streams : Written(s)' /\ Summed(s)' BY DEF Written, Summed
<1>14. \A s \in Streams : Sent(s)' BY DEF Sent, Fresh
<1>15. QED BY <1>6, <1>7, <1>8, <1>9, <1>10, <1>11, <1>12, <1>13, <1>14

\* File i is prepared, with or without the time of the index.
Empty(f, e) ==
    /\ f.here /\ f.data = <<>> /\ f.mtime \in Clock \cup {e.modified}
    /\ f.stamped => f.mtime = e.modified
Prepares(i) ==
    LET e == rlist[i] IN
    /\ rst = "prep" /\ prep' = prep \ {i}
    /\ UNCHANGED <<srcVars, sndVars, rst, rlist, rcvThreads, netVars>>
    /\ IF e.size = 0
       THEN \E f : Empty(f, e) /\ disk' = [disk EXCEPT ![e.path] = f]
       ELSE disk' = disk \/ (e.offset = 0 /\ disk' = [disk EXCEPT ![TmpName(e)] = NoFile])

LEMMA PreparesOne ==
    ASSUME PrepareFile \/ PrepareUnstamped
    PROVE  \E i \in prep : Prepares(i)
<1>1. CASE PrepareFile
  <2>1. PICK i \in prep :
            /\ disk' = IF rlist[i].size = 0
                       THEN [disk EXCEPT ![rlist[i].path] =
                               [Unstamped(<<>>, rlist[i].modified) EXCEPT !.stamped = TRUE]]
                       ELSE IF rlist[i].offset = 0
                       THEN [disk EXCEPT ![TmpName(rlist[i])] = NoFile]
                       ELSE disk
            /\ prep' = prep \ {i}
      BY <1>1 DEF PrepareFile
  <2>2. Empty([Unstamped(<<>>, rlist[i].modified) EXCEPT !.stamped = TRUE], rlist[i])
      BY DEF Empty, Unstamped
  <2>3. QED BY <1>1, <2>1, <2>2 DEF PrepareFile, Prepares
<1>2. CASE PrepareUnstamped
  <2>1. PICK i \in prep, t \in Clock :
            /\ rlist[i].size = 0
            /\ disk' = [disk EXCEPT ![rlist[i].path] = Unstamped(<<>>, t)]
            /\ prep' = prep \ {i}
      BY <1>2 DEF PrepareUnstamped
  <2>2. Empty(Unstamped(<<>>, t), rlist[i]) BY DEF Empty, Unstamped
  <2>3. QED BY <1>2, <2>1, <2>2 DEF PrepareUnstamped, Prepares
<1>3. QED BY <1>1, <1>2

\* The destination is prepared file by file: an empty file is done at once.
LEMMA PrepareFileCopy ==
    ASSUME Inv, Inv', CopyInv, NamesApart, NEW i \in prep, Prepares(i)
    PROVE  CopyInv'
<1> USE DEF Inv, CopyInv
<1>1. /\ rst = "prep" /\ prep' = prep \ {i}
      /\ UNCHANGED <<srcVars, sndVars, rst, rlist, rcvThreads, netVars>>
      /\ IF rlist[i].size = 0
         THEN \E f : Empty(f, rlist[i]) /\ disk' = [disk EXCEPT ![rlist[i].path] = f]
         ELSE disk' = disk \/ (rlist[i].offset = 0
                               /\ disk' = [disk EXCEPT ![TmpName(rlist[i])] = NoFile])
    BY DEF Prepares
<1>2. i \in DOMAIN rlist BY DEF TypeOK, ReceiverTypeOK
<1> DEFINE e == rlist[i]
<1>3. /\ e.path \in Paths /\ e.path \in Names /\ TmpName(e) \in Names /\ TmpName(e) \notin Paths
      /\ e.size \in Nat /\ e.offset \in Nat /\ e.modified \in 1..(edits + 1)
    BY <1>2, ListEntry, OwnNames
<1>4. disk \in [Names -> Files] BY DEF TypeOK, DiskTypeOK
<1>5. Older BY <1>1, OlderSame
<1>6. \A n \in Names : n # e.path /\ n # TmpName(e) => disk'[n] = disk[n]
    BY <1>1, <1>3, <1>4
<1> DEFINE Prep ==
      /\ Times' /\ Sound' /\ Resumable(e)' /\ (e.size = 0 => Done(e)')
      /\ \A p \in Paths : (\A j \in DOMAIN rlist : rlist[j].path # p) => disk'[p] = disk[p]
<1>7. ASSUME e.size = 0 PROVE Prep
  <2>1. /\ disk'[e.path].here /\ disk'[e.path].data = <<>>
        /\ disk'[e.path].stamped => disk'[e.path].mtime = e.modified
        /\ disk'[TmpName(e)] = disk[TmpName(e)]
      BY <1>1, <1>3, <1>4, <1>7 DEF Empty
  <2>2. e.offset = 0 BY <1>2, <1>3, <1>7 DEF List
  <2>3. Valid(e.path, e.modified) => <<>> = src[e.path].data
    <3>1. src[e.path].data \in Seq(Block) BY <1>3 DEF TypeOK, SourceTypeOK
    <3>2. QED BY <1>2, <1>7, <3>1, EmptySeq DEF List
  <2>4. Len(<<>>) = e.size BY <1>7, EmptySeq
  <2>5. Done(e)' BY <1>1, <2>1, <2>3, <2>4 DEF Done, Whole, Valid
  <2>6. \A p \in Paths \ {e.path} : disk'[p] = disk[p] BY <1>3, <1>6, PathsAssumption
  <2>7. Times' BY <1>1, <1>3, <1>6, <2>1 DEF Times
  <2>8. Sound'
    <3> SUFFICES ASSUME ~SameSecond, NEW p \in Paths, disk'[p].stamped, disk'[p].mtime = src[p].mtime
                 PROVE  disk'[p].data = src[p].data
        BY <1>1 DEF Sound, StampSound
    <3>1. CASE p = e.path BY <2>1, <2>3, <3>1 DEF Valid
    <3>2. CASE p # e.path BY <2>6, <3>2 DEF Sound, StampSound
    <3>3. QED BY <3>1, <3>2
  <2>9. Resumable(e)' BY <1>1, <2>2 DEF Resumable
  <2>10. \A p \in Paths : (\A j \in DOMAIN rlist : rlist[j].path # p) => disk'[p] = disk[p]
      BY <1>2, <2>6
  <2>11. QED BY <2>5, <2>7, <2>8, <2>9, <2>10
<1>8. ASSUME e.size # 0 PROVE Prep
  <2>1. \A p \in Paths : disk'[p] = disk[p] BY <1>1, <1>3, <1>4, <1>8, PathsAssumption
  <2>2. \A n \in Names : disk'[n].stamped => disk'[n].mtime <= edits + 1
      BY <1>1, <1>3, <1>4, <1>8 DEF NoFile, Times
  <2>3. Times' BY <1>1, <2>2 DEF Times
  <2>4. Sound' BY <1>1, <2>1 DEF Sound, StampSound
  <2>5. Resumable(e)'
    <3>1. CASE e.offset = 0 BY <1>1, <3>1 DEF Resumable
    <3>2. CASE e.offset # 0 BY <1>1, <1>2, <1>8, <3>2 DEF Prepared, Resumable, TmpName
    <3>3. QED BY <3>1, <3>2
  <2>6. QED BY <1>8, <2>1, <2>3, <2>4, <2>5
<1>9. Prep BY <1>7, <1>8
<1>10. Prepared'
  <2> SUFFICES ASSUME NEW j \in DOMAIN rlist
               PROVE  Resumable(rlist[j])' /\ (rlist[j].size = 0 /\ j \notin prep' => Done(rlist[j])')
      BY <1>1 DEF Prepared
  <2>1. CASE j = i BY <1>9, <2>1
  <2>2. CASE j # i
    <3>1. disk'[TmpName(rlist[j])] = disk[TmpName(rlist[j])]
          /\ disk'[rlist[j].path] = disk[rlist[j].path]
        BY <1>2, <1>6, <2>2, EntryNames, ListEntry
    <3>2. QED BY <1>1, <2>2, <3>1 DEF Prepared, Resumable, Done, Whole, Valid, TmpName
  <2>3. QED BY <2>1, <2>2
<1>11. ScanOnce' /\ Scan' BY <1>1 DEF ScanOnce, Scan, Scanning
<1>12. List' BY <1>1, <1>5, ListSame
<1>13. Skipped' BY <1>1, <1>5, <1>9, SkippedSame DEF InSession, SameFile
<1>14. Complete' BY <1>1 DEF Complete
<1>15. \A s \in Streams : Written(s)' /\ Summed(s)' BY <1>1 DEF Written, Summed
<1>16. \A s \in Streams : Sent(s)' BY <1>1, <1>5, SentSame
<1>17. QED BY <1>9, <1>10, <1>11, <1>12, <1>13, <1>14, <1>15, <1>16
------------------------------------------------------------------------------
(* The receiver's stream threads.                                            *)

\* Threads that touch neither their files nor their positions; others may fail.
LEMMA PlaceCopy ==
    ASSUME Inv, Inv', CopyInv,
           UNCHANGED <<src, edits, quiet, rcvMain, rleft, rbuf, disk>>,
           UNCHANGED <<todo, stat, dry, slist, sndThreads>>,
           UNCHANGED <<sst, index>> \/ (sst = "scan" /\ sst' = "off" /\ index' = <<>>),
           \A t \in Streams : /\ rpc'[t] \in {rpc[t], "err"} \/ (rpc[t] = "wait" /\ rpc'[t] = "open")
                              /\ conn'[t] = "open" => conn[t] = "open"
                              /\ chan'[t] \in {chan[t], <<>>}
    PROVE  CopyInv'
<1>1. Older BY OlderSame
<1>2. Times' /\ ScanOnce' /\ Scan' BY DEF CopyInv, Times, ScanOnce, Scan, Scanning
<1>3. List' BY <1>1, ListSame
<1>4. Skipped' BY <1>1, SkippedSame DEF InSession, SameFile
<1>5. Prepared' /\ Complete' /\ Sound'
  <2>1. \A i \in DOMAIN rlist : /\ Done(rlist[i]) => Done(rlist[i])'
                                /\ Resumable(rlist[i])' = Resumable(rlist[i])
      BY <1>1, ListSame DEF Done, Resumable, TmpName
  <2>2. QED BY <2>1 DEF CopyInv, Prepared, Complete, Sound, StampSound
<1>6. \A t \in Streams : Sent(t)' /\ Summed(t)' BY <1>1, SentSame, SummedSame
<1>7. ASSUME NEW t \in Streams PROVE Written(t)'
  <2>1. \A i \in DOMAIN rlist : /\ Resumable(rlist[i])' = Resumable(rlist[i])
                                /\ \A d : Whole(d, rlist[i]) => Whole(d, rlist[i])'
                                /\ Receiving(t, rlist[i])' = Receiving(t, rlist[i])
      BY <1>1, ListSame DEF Resumable, Receiving, TmpName
  <2>2. rleft[t] \subseteq DOMAIN rlist BY DEF Inv, TypeOK, ReceiverTypeOK
  <2>3. Work(rlist, t)' = Work(rlist, t) BY DEF Work, Bucket
  <2>4. CASE rpc'[t] = "err" BY <2>3, <2>4 DEF CopyInv, Written
  <2>5. CASE rpc[t] = "wait" /\ rpc'[t] = "open" BY <2>1, <2>2, <2>3, <2>5 DEF CopyInv, Written, Busy
  <2>6. CASE rpc'[t] = rpc[t]
    <3>1. \A i \in DOMAIN rlist : InHand(t, rlist[i]) => InHand(t, rlist[i])'
        BY <2>1, <2>6 DEF InHand, TmpName
    <3>2. QED BY <2>1, <2>2, <2>3, <2>6, <3>1 DEF CopyInv, Written, Busy
  <2>7. QED BY <2>4, <2>5, <2>6
<1>8. QED BY <1>2, <1>3, <1>4, <1>5, <1>6, <1>7 DEF CopyInv

LEMMA ThreadPlaceCopy ==
    ASSUME Inv, Inv', CopyInv, NEW s \in Streams,
           Accept(s) \/ RecvEof(s) \/ ReceiveIoError(s)
    PROVE  CopyInv'
<1>1. /\ UNCHANGED <<srcVars, sndVars, rcvMain, rleft, rbuf, netVars, disk>>
      /\ \A t \in Streams \ {s} : rpc'[t] = rpc[t]
      /\ rpc'[s] = "err" \/ (rpc[s] = "wait" /\ rpc'[s] = "open")
    BY DEF Accept, RecvEof, ReceiveIoError, Inv, TypeOK, ReceiverTypeOK
<1>2. QED BY <1>1, PlaceCopy

\* An error in the accept loop leaves the threads behind as they are.
LEMMA LoopFailsCopy ==
    ASSUME Inv, Inv', CopyInv, AcceptStray \/ \E s \in Streams : AcceptFails(s)
    PROVE  CopyInv'
<1>1. \A t \in Streams : /\ rpc'[t] \in {rpc[t], "err"}
                         /\ conn'[t] = "open" => conn[t] = "open"
                         /\ chan'[t] \in {chan[t], <<>>}
    BY DEF AcceptStray, AcceptFails, AcceptLoopFails
<1>2. QED BY <1>1, PlaceCopy DEF AcceptStray, AcceptFails, AcceptLoopFails, StrayArrives, Scanned

\* The file that a thread works on.
LEMMA FileInHand ==
    ASSUME Inv, CopyInv, NamesApart, rst = "stream", NEW s \in Streams, rpc[s] # "err",
           NEW i \in rleft[s], IsNext(rlist, rleft[s], i)
    PROVE  LET e == rlist[i] IN
           /\ i \in DOMAIN rlist /\ i \in Work(rlist, s)
           /\ e.path \in Paths /\ e.path \in Names /\ TmpName(e) \in Names /\ TmpName(e) \notin Paths
           /\ e.offset \in Nat /\ e.size \in Nat /\ e.offset < e.size
           /\ e.modified \in 1..(edits + 1)
           /\ TransferSize(e) = e.size - e.offset
           /\ rpc[s] = "open" => Resumable(e)
           /\ rpc[s] \in {"recv", "rename", "stamp"} => InHand(s, e)
           /\ disk \in [Names -> Files] /\ rbuf[s] \in Seq(Block)
<1> USE DEF Inv, CopyInv
<1>1. i \in DOMAIN rlist /\ rbuf[s] \in Seq(Block) /\ disk \in [Names -> Files]
    BY DEF TypeOK, ReceiverTypeOK, DiskTypeOK
<1>2. i \in Work(rlist, s) BY DEF Written
<1>3. rpc[s] = "open" => Resumable(rlist[i])
    BY DEF Written, Busy
<1>4. rpc[s] \in {"recv", "rename", "stamp"} => InHand(s, rlist[i])
    BY DEF Written, Busy
<1>5. QED BY <1>1, <1>2, <1>3, <1>4, ListEntry, OwnNames, WorkOf

\* A thread that works on file i leaves all the other files alone, and either
\* has it still to do or has done it.
LEMMA ThreadParts ==
    ASSUME Inv, CopyInv, NamesApart, rst = "stream", NEW s \in Streams, rpc[s] # "err",
           NEW i \in rleft[s], IsNext(rlist, rleft[s], i),
           UNCHANGED <<srcVars, sndVars, rcvMain, conn>>,
           \A t \in Streams \ {s} :
               rpc'[t] = rpc[t] /\ rleft'[t] = rleft[t] /\ rbuf'[t] = rbuf[t],
           rleft'[s] \subseteq rleft[s], rleft[s] \ {i} \subseteq rleft'[s],
           \A n \in Names : n # rlist[i].path /\ n # TmpName(rlist[i]) => disk'[n] = disk[n],
           i \in rleft'[s] \/ Done(rlist[i])'
    PROVE  /\ ScanOnce' /\ Scan' /\ List' /\ Skipped' /\ Prepared' /\ Complete'
           /\ \A t \in Streams : Sent(t)'
           /\ \A t \in Streams \ {s} : Written(t)'
           /\ rleft'[s] \subseteq Work(rlist, s)
           /\ \A j \in rleft[s] \ {i} : Resumable(rlist[j])'
<1> USE DEF Inv, CopyInv
<1>1. Older BY OlderSame
<1>2. /\ i \in DOMAIN rlist /\ i \in Work(rlist, s) /\ TmpName(rlist[i]) \notin Paths
    BY FileInHand
<1>3. ASSUME NEW j \in DOMAIN rlist, j # i
      PROVE  /\ disk'[rlist[j].path] = disk[rlist[j].path]
             /\ disk'[TmpName(rlist[j])] = disk[TmpName(rlist[j])]
    BY <1>2, <1>3, EntryNames, ListEntry
<1>4. \A j \in DOMAIN rlist : \A d : Whole(d, rlist[j])' = Whole(d, rlist[j])
    BY DEF Whole, Valid
<1>5. ASSUME NEW j \in DOMAIN rlist, j # i
      PROVE  /\ Done(rlist[j]) => Done(rlist[j])'
             /\ Resumable(rlist[j]) => Resumable(rlist[j])'
             /\ \A t \in Streams \ {s} : InHand(t, rlist[j]) => InHand(t, rlist[j])'
    BY <1>3, <1>4, <1>5 DEF Done, Resumable, InHand, Receiving, TmpName
<1>6. ScanOnce' /\ Scan' BY DEF ScanOnce, Scan, Scanning
<1>7. List' BY <1>1, ListSame
<1>8. Skipped'
  <2>1. \A p \in Paths : (\A j \in DOMAIN rlist : rlist[j].path # p) => disk'[p] = disk[p]
      BY <1>2, PathsAssumption
  <2>2. QED BY <1>1, <2>1, SkippedSame DEF InSession, SameFile
<1>9. Prepared' BY DEF Prepared
<1>10. Complete'
  <2> SUFFICES ASSUME NEW j \in DOMAIN rlist, \A t \in Streams : j \notin rleft'[t]
               PROVE  Done(rlist[j])'
      BY DEF Complete
  <2>1. CASE j = i BY <2>1
  <2>2. CASE j # i
    <3>1. \A t \in Streams : j \notin rleft[t] BY <2>2
    <3>2. QED BY <1>5, <2>2, <3>1 DEF Complete
  <2>3. QED BY <2>1, <2>2
<1>11. \A t \in Streams : Sent(t)' BY <1>1, SentSame
<1>12. ASSUME NEW t \in Streams \ {s} PROVE Written(t)'
  <2>1. rleft[t] \subseteq DOMAIN rlist /\ rleft[t] \subseteq Work(rlist, t)
      BY DEF TypeOK, ReceiverTypeOK, Written
  <2>2. i \notin rleft[t] BY <1>2, <2>1, WorkOf
  <2>3. Work(rlist, t)' = Work(rlist, t) BY DEF Work, Bucket
  <2>4. \A j \in rleft[t] : /\ Resumable(rlist[j]) => Resumable(rlist[j])'
                            /\ InHand(t, rlist[j]) => InHand(t, rlist[j])'
      BY <1>5, <2>1, <2>2
  <2>5. QED BY <2>1, <2>3, <2>4 DEF Written, Busy
<1>13. rleft'[s] \subseteq Work(rlist, s) BY DEF Written
<1>14. ASSUME NEW j \in rleft[s] \ {i} PROVE Resumable(rlist[j])'
  <2>1. rleft[s] \in SUBSET DOMAIN rlist BY DEF TypeOK, ReceiverTypeOK
  <2>2. ~IsNext(rlist, rleft[s], j) BY <2>1, NextUnique
  <2>3. Resumable(rlist[j]) BY <2>2 DEF Written, Busy
  <2>4. QED BY <1>5, <2>1, <2>3
<1>15. QED BY <1>6, <1>7, <1>8, <1>9, <1>10, <1>11, <1>12, <1>13, <1>14
\* The disk changes only by giving a temporary name a file that is not stamped,
\* or none: every stamped file is as it was.
LEMMA TimesUnstamped ==
    ASSUME Inv, CopyInv, NEW n \in Names \ Paths, UNCHANGED <<srcVars, stat, index, rlist>>,
           ~disk'[n].stamped, \A m \in Names \ {n} : disk'[m] = disk[m]
    PROVE  Times' /\ Sound'
<1> USE DEF Inv, CopyInv
<1>1. edits \in Nat BY DEF TypeOK, SourceTypeOK
<1>2. Times' BY <1>1 DEF Times
<1>3. Sound' BY PathsAssumption DEF Sound, StampSound
<1>4. QED BY <1>2, <1>3

\* A resumed file is opened at its end, any other empty.
LEMMA OpenTmpCopy ==
    ASSUME Inv, Inv', CopyInv, NamesApart, NEW s \in Streams, OpenTmp(s)
    PROVE  CopyInv'
<1> USE DEF Inv, CopyInv
<1>1. PICK i \in rleft[s] :
          LET e == rlist[i]
              t == TmpName(e)
          IN  /\ IsNext(rlist, rleft[s], i)
              /\ IF e.offset > 0 /\ ~disk[t].here
                 THEN rpc' = [rpc EXCEPT ![s] = "err"] /\ disk' = disk
                 ELSE /\ rpc' = [rpc EXCEPT ![s] = "recv"]
                      /\ disk' = [disk EXCEPT ![t] =
                             [Unstamped(IF e.offset > 0 THEN @.data ELSE <<>>, 0)
                                 EXCEPT !.w = s]]
    BY DEF OpenTmp
<1>2. /\ rst = "stream" /\ rpc[s] = "open"
      /\ UNCHANGED <<srcVars, sndVars, rcvMain, rleft, rbuf, netVars, faults>>
    BY DEF OpenTmp
<1> DEFINE e == rlist[i]
           t == TmpName(e)
<1>3. /\ i \in DOMAIN rlist /\ t \in Names /\ t \notin Paths /\ e.offset \in Nat
      /\ Resumable(e) /\ disk \in [Names -> Files] /\ rbuf[s] = <<>>
    BY <1>1, <1>2, FileInHand DEF Written
<1>4. /\ rpc'[s] = "recv" /\ \A u \in Streams \ {s} : rpc'[u] = rpc[u]
      /\ disk'[t].here /\ disk'[t].w = s /\ ~disk'[t].stamped
      /\ disk'[t].data = IF e.offset > 0 THEN disk[t].data ELSE <<>>
      /\ \A n \in Names \ {t} : disk'[n] = disk[n]
  <2>1. /\ rpc' = [rpc EXCEPT ![s] = "recv"]
        /\ disk' = [disk EXCEPT ![t] =
               [Unstamped(IF e.offset > 0 THEN @.data ELSE <<>>, 0) EXCEPT !.w = s]]
      BY <1>1, <1>3 DEF Resumable
  <2>2. disk'[t] = [Unstamped(IF e.offset > 0 THEN disk[t].data ELSE <<>>, 0) EXCEPT !.w = s]
      BY <1>3, <2>1
  <2>3. QED BY <1>3, <2>1, <2>2 DEF Unstamped, TypeOK, ReceiverTypeOK
<1>5. Times' /\ Sound' BY <1>2, <1>3, <1>4, TimesUnstamped
<1>6. /\ ScanOnce' /\ Scan' /\ List' /\ Skipped' /\ Prepared' /\ Complete'
      /\ \A u \in Streams : Sent(u)'
      /\ \A u \in Streams \ {s} : Written(u)'
      /\ rleft'[s] \subseteq Work(rlist, s)
      /\ \A j \in rleft[s] \ {i} : Resumable(rlist[j])'
    BY <1>1, <1>2, <1>4, ThreadParts
<1>7. \A u \in Streams : Summed(u)' BY <1>2, OlderSame, SummedSame
<1>8. Receiving(s, e)'
  <2>1. Len(<<>>) = 0 BY EmptySeq
  <2>2. Len(disk'[t].data) = e.offset BY <1>3, <1>4, <2>1 DEF Resumable
  <2>3. QED BY <1>2, <1>3, <1>4, <2>1, <2>2 DEF Receiving, TmpName
<1>9. Written(s)'
  <2>1. \A j \in rleft[s] : Busy(s, j)' => j = i
      BY <1>1, <1>2, NextUnique DEF Busy, TypeOK, ReceiverTypeOK
  <2>2. InHand(s, e)' BY <1>4, <1>8 DEF InHand
  <2>3. Busy(s, i)' BY <1>1, <1>2, <1>4 DEF Busy
  <2>4. Work(rlist, s)' = Work(rlist, s) BY <1>2 DEF Work, Bucket
  <2>5. QED BY <1>2, <1>4, <1>6, <2>1, <2>2, <2>3, <2>4 DEF Written
<1>10. QED BY <1>5, <1>6, <1>7, <1>9

\* What is read from a stream leaves the checksums behind it as they are.
LEMMA SummedTail ==
    ASSUME Inv, CopyInv, NEW s \in Streams, chan[s] # <<>>,
           chan' = [chan EXCEPT ![s] = Tail(@)], UNCHANGED <<srcVars, sst, rcvMain>>
    PROVE  \A t \in Streams : Summed(t)'
<1> USE DEF Inv, CopyInv
<1>1. Older BY OlderSame
<1>2. \A t \in Streams \ {s} : Summed(t)' BY <1>1, SummedSame DEF TypeOK, NetTypeOK
<1>3. /\ chan[s] \in Seq(Blocks \cup Sums) /\ chan'[s] = Tail(chan[s])
    BY DEF TypeOK, NetTypeOK
<1>4. /\ Len(chan'[s]) \in Nat /\ Len(chan[s]) = Len(chan'[s]) + 1
      /\ \A k \in 1..Len(chan'[s]) : chan'[s][k] = chan[s][k + 1]
    BY <1>3, TailFacts
<1>5. \A k \in 1..Len(chan'[s]) : k + 1 \in 1..Len(chan[s]) BY <1>4
<1>6. Summed(s)'
  <2> SUFFICES ASSUME rst = "stream", NEW k \in 1..Len(chan'[s]), chan'[s][k].kind = "sum",
                      NEW i \in chan'[s][k].left \cap DOMAIN rlist,
                      IsNext(rlist, chan'[s][k].left, i), Valid(rlist[i].path, rlist[i].modified)
               PROVE  chan'[s][k].val
                      = SubSeq(src[rlist[i].path].data, rlist[i].offset + 1, rlist[i].size)
      BY DEF Summed, Valid
  <2>1. chan'[s][k] = chan[s][k + 1] /\ k + 1 \in 1..Len(chan[s]) BY <1>4, <1>5
  <2>2. QED BY <2>1 DEF Summed
<1>7. QED BY <1>2, <1>6

\* A block is appended to the file and to the chunk.
LEMMA RecvBlockCopy ==
    ASSUME Inv, Inv', CopyInv, NamesApart, NEW s \in Streams, RecvBlock(s)
    PROVE  CopyInv'
<1> USE DEF Inv, CopyInv
<1>1. PICK i \in rleft[s] :
          LET t == TmpName(rlist[i]) IN
          /\ IsNext(rlist, rleft[s], i)
          /\ Len(rbuf[s]) < TransferSize(rlist[i])
          /\ disk' = IF disk[t].w = s
                     THEN [disk EXCEPT ![t].data = Append(@, Head(chan[s]).val)]
                     ELSE disk
    BY DEF RecvBlock
<1>2. /\ rpc[s] = "recv" /\ chan[s] # <<>>
      /\ rbuf' = [rbuf EXCEPT ![s] = Append(@, Head(chan[s]).val)]
      /\ chan' = [chan EXCEPT ![s] = Tail(@)]
      /\ UNCHANGED <<srcVars, sndVars, rcvMain, rpc, rleft, ctlVars, conn, faults>>
    BY DEF RecvBlock
<1>3. rst = "stream" BY <1>2 DEF Idle
<1> DEFINE e == rlist[i]
           t == TmpName(e)
           v == Head(chan[s]).val
<1>4. /\ i \in DOMAIN rlist /\ t \in Names /\ t \notin Paths /\ e.offset \in Nat
      /\ Receiving(s, e) /\ disk \in [Names -> Files] /\ rbuf[s] \in Seq(Block)
    BY <1>1, <1>2, <1>3, FileInHand DEF InHand
<1>5. v \in Block
  <2>1. rbuf'[s] \in Seq(Block) /\ rbuf'[s] = Append(rbuf[s], v)
      BY <1>2 DEF TypeOK, ReceiverTypeOK
  <2>2. /\ Head(chan[s]) \in Blocks \cup Sums
        /\ Head(chan[s]).kind = "sum" <=> Len(rbuf[s]) = TransferSize(e)
      BY <1>1, <1>2, HeadInPlace
  <2>3. TransferSize(e) \in Nat /\ Len(rbuf[s]) \in Nat
      BY <1>4, ListEntry, LenProperties
  <2>4. Head(chan[s]) \in Blocks BY <1>1, <2>2, <2>3 DEF Sums
  <2>5. QED BY <2>4 DEF Blocks
<1> HIDE DEF v
<1>6. /\ disk'[t] = [disk[t] EXCEPT !.data = Append(disk[t].data, v)]
      /\ \A n \in Names \ {t} : disk'[n] = disk[n]
    BY <1>1, <1>4 DEF Receiving, v
<1>7. /\ disk'[t].here /\ disk'[t].w = s /\ ~disk'[t].stamped
      /\ disk'[t].data = Append(disk[t].data, v) /\ disk[t].data \in Seq(Block)
    BY <1>4, <1>6 DEF Receiving, Files
<1>8. rbuf'[s] = Append(rbuf[s], v) /\ \A u \in Streams \ {s} : rbuf'[u] = rbuf[u]
    BY <1>2 DEF v, TypeOK, ReceiverTypeOK
<1>9. Times' /\ Sound' BY <1>2, <1>4, <1>6, <1>7, TimesUnstamped
<1>10. /\ ScanOnce' /\ Scan' /\ List' /\ Skipped' /\ Prepared' /\ Complete'
       /\ \A u \in Streams : Sent(u)'
       /\ \A u \in Streams \ {s} : Written(u)'
       /\ rleft'[s] \subseteq Work(rlist, s)
       /\ \A j \in rleft[s] \ {i} : Resumable(rlist[j])'
    BY <1>1, <1>2, <1>3, <1>6, <1>8, ThreadParts
<1>11. \A u \in Streams : Summed(u)' BY <1>2, SummedTail
<1>12. Receiving(s, e)'
  <2>1. /\ Len(disk'[t].data) = Len(disk[t].data) + 1 /\ Len(rbuf'[s]) = Len(rbuf[s]) + 1
        /\ Len(rbuf[s]) \in Nat
      BY <1>4, <1>5, <1>7, <1>8, AppendProperties, LenProperties
  <2>2. Len(disk'[t].data) = e.offset + Len(rbuf'[s]) BY <1>4, <2>1 DEF Receiving
  <2>3. e.offset = 0 => disk'[t].data = rbuf'[s] BY <1>4, <1>7, <1>8 DEF Receiving
  <2>4. QED BY <1>2, <1>7, <2>2, <2>3 DEF Receiving, TmpName
<1>13. Written(s)'
  <2>1. \A j \in rleft[s] : Busy(s, j)' => j = i
      BY <1>1, <1>2, NextUnique DEF Busy, TypeOK, ReceiverTypeOK
  <2>2. InHand(s, e)' BY <1>2, <1>12 DEF InHand
  <2>3. Busy(s, i)' BY <1>1, <1>2 DEF Busy
  <2>4. Work(rlist, s)' = Work(rlist, s) BY <1>2 DEF Work, Bucket
  <2>5. QED BY <1>2, <1>10, <2>1, <2>2, <2>3, <2>4 DEF Written
<1>14. QED BY <1>9, <1>10, <1>11, <1>13
\* A file whose checksums match is whole; any other is removed.
LEMMA VerifyChunkCopy ==
    ASSUME Inv, Inv', CopyInv, NamesApart, NEW s \in Streams, VerifyChunk(s)
    PROVE  CopyInv'
<1> USE DEF Inv, CopyInv
<1>1. PICK i \in rleft[s] :
          LET e == rlist[i]
              t == TmpName(e)
          IN  /\ IsNext(rlist, rleft[s], i)
              /\ Len(rbuf[s]) = TransferSize(e)
              /\ IF ChunkOk(s) /\ FullOk(e)
                 THEN /\ rpc' = [rpc EXCEPT ![s] = "rename"]
                      /\ disk' = [disk EXCEPT ![t].w = NoStream]
                 ELSE /\ rpc' = [rpc EXCEPT ![s] = "err"]
                      /\ disk' = Rejected(t)
    BY DEF VerifyChunk
<1>2. /\ rpc[s] = "recv" /\ chan[s] # <<>>
      /\ chan' = [chan EXCEPT ![s] = Tail(@)]
      /\ UNCHANGED <<srcVars, sndVars, rcvMain, rleft, rbuf, ctlVars, conn, faults>>
    BY DEF VerifyChunk
<1>3. rst = "stream" /\ src' = src /\ edits' = edits /\ quiet' = quiet /\ sst' = sst
      /\ rlist' = rlist /\ index' = index /\ stat' = stat
    BY <1>2 DEF Idle
<1> DEFINE e == rlist[i]
           t == TmpName(e)
<1>4. /\ i \in DOMAIN rlist /\ t \in Names /\ t \notin Paths /\ e.path \in Paths
      /\ e.offset \in Nat /\ e.size \in Nat /\ TransferSize(e) = e.size - e.offset
      /\ Receiving(s, e) /\ disk \in [Names -> Files]
    BY <1>1, <1>2, <1>3, FileInHand DEF InHand
<1>5. /\ \A n \in Names \ {t} : disk'[n] = disk[n]
      /\ ~disk'[t].stamped
      /\ \A u \in Streams \ {s} : rpc'[u] = rpc[u]
      /\ rpc'[s] \in {"rename", "err"}
  <2>1. disk' = [disk EXCEPT ![t].w = NoStream] \/ disk' = [disk EXCEPT ![t] = NoFile]
      BY <1>1 DEF Rejected
  <2>2. ~disk'[t].stamped
    <3>1. disk[t] \in Files /\ ~disk[t].stamped BY <1>4 DEF Receiving
    <3>2. disk'[t] = [disk[t] EXCEPT !.w = NoStream] \/ disk'[t] = NoFile BY <1>4, <2>1
    <3>3. QED BY <3>1, <3>2 DEF NoFile, Files
  <2>3. QED BY <1>1, <1>4, <2>1, <2>2 DEF TypeOK, ReceiverTypeOK
<1>6. Times' /\ Sound' BY <1>2, <1>4, <1>5, TimesUnstamped
<1>7. /\ ScanOnce' /\ Scan' /\ List' /\ Skipped' /\ Prepared' /\ Complete'
      /\ \A u \in Streams : Sent(u)'
      /\ \A u \in Streams \ {s} : Written(u)'
      /\ rleft'[s] \subseteq Work(rlist, s)
      /\ \A j \in rleft[s] \ {i} : Resumable(rlist[j])'
    BY <1>1, <1>2, <1>3, <1>5, ThreadParts
<1>8. \A u \in Streams : Summed(u)' BY <1>2, SummedTail
<1>9. ASSUME rpc'[s] = "rename"
      PROVE  Whole(disk[t], e) /\ disk'[t] = [disk[t] EXCEPT !.w = NoStream]
  <2>1. ChunkOk(s) /\ FullOk(e) /\ disk'[t] = [disk[t] EXCEPT !.w = NoStream]
      BY <1>1, <1>2, <1>4, <1>9 DEF TypeOK, ReceiverTypeOK
  <2>2. disk[t].here /\ Len(disk[t].data) = e.size
      BY <1>1, <1>4 DEF Receiving
  <2>3. ASSUME Valid(e.path, e.modified) PROVE disk[t].data = src[e.path].data
    <3>1. e.size = Len(src[e.path].data) /\ e.crc = src[e.path].data
        BY <1>4, <2>3 DEF List
    <3>2. CASE e.offset > 0 BY <2>1, <3>1, <3>2 DEF FullOk
    <3>3. CASE e.offset = 0
      <4>1. disk[t].data = rbuf[s] BY <1>4, <3>3 DEF Receiving
      <4>2. /\ Head(chan[s]) = chan[s][1] /\ chan[s][1].left = rleft[s]
            /\ chan[s][1].kind = "sum"
          BY <1>1, <1>2, HeadInPlace
      <4>3. Len(chan[s]) \in Nat \ {0} BY <1>2, EmptySeq DEF TypeOK, NetTypeOK
      <4>4. chan[s][1].val = SubSeq(src[e.path].data, e.offset + 1, e.size)
        <5>1. 1 \in 1..Len(chan[s]) BY <4>3
        <5>2. i \in chan[s][1].left \cap DOMAIN rlist BY <1>4, <4>2
        <5>3. IsNext(rlist, chan[s][1].left, i) BY <1>1, <4>2
        <5>4. QED BY <1>3, <2>3, <4>2, <5>1, <5>2, <5>3 DEF Summed
      <4>5. src[e.path].data \in Seq(Block) BY <1>4 DEF TypeOK, SourceTypeOK
      <4>6. SubSeq(src[e.path].data, 1, Len(src[e.path].data)) = src[e.path].data
          BY <4>5, SubSeqFull
      <4>7. SubSeq(src[e.path].data, e.offset + 1, e.size) = src[e.path].data
          BY <3>1, <3>3, <4>6
      <4>8. QED BY <2>1, <4>1, <4>2, <4>4, <4>7 DEF ChunkOk
    <3>4. QED BY <1>4, <3>2, <3>3
  <2>4. QED BY <2>1, <2>2, <2>3 DEF Whole
<1>10. Written(s)'
  <2>1. \A j \in rleft[s] : Busy(s, j)' => j = i
      BY <1>1, <1>2, NextUnique DEF Busy, TypeOK, ReceiverTypeOK
  <2>2. CASE rpc'[s] = "rename"
    <3>1. /\ disk'[t].here = disk[t].here /\ disk'[t].data = disk[t].data
        BY <1>4, <1>9, <2>2 DEF Files
    <3>2. Whole(disk[t], e)' BY <1>3, <1>9, <2>2, <3>1 DEF Whole, Valid, TmpName
    <3>3. InHand(s, e)' BY <1>3, <1>5, <2>2, <3>2 DEF InHand, TmpName
    <3>4. Busy(s, i)' BY <1>1, <1>2, <2>2 DEF Busy
    <3>5. Work(rlist, s)' = Work(rlist, s) BY <1>2 DEF Work, Bucket
    <3>6. QED BY <1>2, <1>7, <2>1, <2>2, <3>3, <3>4, <3>5 DEF Written
  <2>3. CASE rpc'[s] = "err"
    <3>1. Work(rlist, s)' = Work(rlist, s) BY <1>2 DEF Work, Bucket
    <3>2. QED BY <1>7, <2>3, <3>1 DEF Written
  <2>4. QED BY <1>5, <2>2, <2>3
<1>11. QED BY <1>6, <1>7, <1>8, <1>10

\* A whole file gets its final name.
LEMMA RenameCopy ==
    ASSUME Inv, Inv', CopyInv, NamesApart, NEW s \in Streams, Rename(s)
    PROVE  CopyInv'
<1> USE DEF Inv, CopyInv
<1>1. PICK i \in rleft[s], now \in Clock :
          LET p == rlist[i].path IN
          /\ IsNext(rlist, rleft[s], i)
          /\ IF disk[Tmp[p]].here
             THEN /\ rpc' = [rpc EXCEPT ![s] = "stamp"]
                  /\ disk' = [disk EXCEPT ![p] = [disk[Tmp[p]] EXCEPT !.mtime = now],
                                          ![Tmp[p]] = NoFile]
             ELSE rpc' = [rpc EXCEPT ![s] = "err"] /\ disk' = disk
    BY DEF Rename
<1>2. /\ rpc[s] = "rename"
      /\ UNCHANGED <<srcVars, sndVars, rcvMain, rleft, rbuf, netVars, faults>>
    BY DEF Rename
<1>3. rst = "stream" /\ src' = src /\ edits' = edits /\ quiet' = quiet /\ sst' = sst
      /\ rlist' = rlist /\ index' = index /\ stat' = stat
    BY <1>2 DEF Idle
<1> DEFINE e == rlist[i]
           t == TmpName(e)
<1>4. /\ i \in DOMAIN rlist /\ t \in Names /\ t \notin Paths /\ e.path \in Paths /\ e.path \in Names
      /\ Whole(disk[t], e) /\ ~disk[t].stamped /\ disk \in [Names -> Files]
    BY <1>1, <1>2, <1>3, FileInHand DEF InHand
<1>5. /\ rpc'[s] = "stamp" /\ \A u \in Streams \ {s} : rpc'[u] = rpc[u]
      /\ disk'[e.path] = [disk[t] EXCEPT !.mtime = now] /\ disk'[t] = NoFile
      /\ \A n \in Names : n # t /\ n # e.path => disk'[n] = disk[n]
    BY <1>1, <1>4 DEF Whole, TmpName, TypeOK, ReceiverTypeOK
<1>6. /\ disk'[e.path].here = disk[t].here /\ disk'[e.path].data = disk[t].data
       /\ ~disk'[e.path].stamped
    BY <1>4, <1>5 DEF Files
<1>7. Times'
  <2>1. \A n \in Names : disk'[n] = disk[n] \/ ~disk'[n].stamped
    <3>1. ~disk'[t].stamped BY <1>5 DEF NoFile
    <3>2. QED BY <1>5, <1>6, <3>1
  <2>2. QED BY <1>2, <2>1 DEF Times
<1>8. Sound'
  <2> SUFFICES ASSUME ~SameSecond, NEW p \in Paths, disk'[p].stamped, disk'[p].mtime = src[p].mtime
               PROVE  disk'[p].data = src[p].data
      BY <1>2 DEF Sound, StampSound
  <2>1. p # e.path BY <1>6
  <2>2. disk'[p] = disk[p] BY <1>4, <1>5, <2>1, PathsAssumption
  <2>3. QED BY <2>2 DEF Sound, StampSound
<1>9. /\ ScanOnce' /\ Scan' /\ List' /\ Skipped' /\ Prepared' /\ Complete'
      /\ \A u \in Streams : Sent(u)'
      /\ \A u \in Streams \ {s} : Written(u)'
      /\ rleft'[s] \subseteq Work(rlist, s)
      /\ \A j \in rleft[s] \ {i} : Resumable(rlist[j])'
    BY <1>1, <1>2, <1>3, <1>5, ThreadParts
<1>10. \A u \in Streams : Summed(u)' BY <1>2, OlderSame, SummedSame
<1>11. Written(s)'
  <2>1. \A j \in rleft[s] : Busy(s, j)' => j = i
      BY <1>1, <1>2, NextUnique DEF Busy, TypeOK, ReceiverTypeOK
  <2>2. Whole(disk[e.path], e)' BY <1>3, <1>4, <1>6 DEF Whole, Valid
  <2>3. InHand(s, e)' BY <1>3, <1>5, <1>6, <2>2 DEF InHand
  <2>4. Busy(s, i)' BY <1>1, <1>2, <1>5 DEF Busy
  <2>5. Work(rlist, s)' = Work(rlist, s) BY <1>2 DEF Work, Bucket
  <2>6. QED BY <1>2, <1>5, <1>9, <2>1, <2>3, <2>4, <2>5 DEF Written
<1>12. QED BY <1>7, <1>8, <1>9, <1>10, <1>11

\* The thread of s is done with file i, stamped or not.
Stamps(s, i) ==
    LET e == rlist[i] IN
    /\ rpc[s] = "stamp" /\ IsNext(rlist, rleft[s], i)
    /\ rleft' = [rleft EXCEPT ![s] = @ \ {i}]
    /\ rpc' = [rpc EXCEPT ![s] = "open"] /\ rbuf' = [rbuf EXCEPT ![s] = <<>>]
    /\ disk' \in {disk, [disk EXCEPT ![e.path].mtime = e.modified, ![e.path].stamped = TRUE]}
    /\ UNCHANGED <<srcVars, sndVars, rcvMain, netVars>>

LEMMA StampsOne ==
    ASSUME NEW s \in Streams, Stamp(s) \/ StampFails(s)
    PROVE  \E i \in rleft[s] : Stamps(s, i)
BY DEF Stamp, StampFails, Stamps

\* A file with the time of the index is done, and so is one that did not get it.
LEMMA StampCopy ==
    ASSUME Inv, Inv', CopyInv, NamesApart, NEW s \in Streams, NEW i \in rleft[s], Stamps(s, i)
    PROVE  CopyInv'
<1> USE DEF Inv, CopyInv
<1>1. /\ IsNext(rlist, rleft[s], i) /\ rleft' = [rleft EXCEPT ![s] = @ \ {i}]
      /\ disk' \in {disk, [disk EXCEPT ![rlist[i].path].mtime = rlist[i].modified,
                                       ![rlist[i].path].stamped = TRUE]}
    BY DEF Stamps
<1>2. /\ rpc[s] = "stamp"
      /\ rpc' = [rpc EXCEPT ![s] = "open"] /\ rbuf' = [rbuf EXCEPT ![s] = <<>>]
      /\ UNCHANGED <<srcVars, sndVars, rcvMain, netVars>>
    BY DEF Stamps
<1>3. rst = "stream" /\ src' = src /\ edits' = edits /\ quiet' = quiet /\ sst' = sst
      /\ rlist' = rlist /\ index' = index /\ stat' = stat
    BY <1>2 DEF Idle
<1> DEFINE e == rlist[i]
<1>4. /\ i \in DOMAIN rlist /\ e.path \in Paths /\ e.path \in Names /\ e.modified \in 1..(edits + 1)
      /\ Whole(disk[e.path], e) /\ ~disk[e.path].stamped /\ disk \in [Names -> Files]
    BY <1>1, <1>2, <1>3, FileInHand DEF InHand
<1>5. /\ rpc'[s] = "open" /\ rbuf'[s] = <<>> /\ rleft'[s] = rleft[s] \ {i}
      /\ \A u \in Streams \ {s} : rpc'[u] = rpc[u] /\ rbuf'[u] = rbuf[u] /\ rleft'[u] = rleft[u]
    BY <1>1, <1>2 DEF TypeOK, ReceiverTypeOK
<1>6. \A n \in Names : n # e.path => disk'[n] = disk[n]
    BY <1>1, <1>4
<1>7. /\ disk'[e.path].here = disk[e.path].here /\ disk'[e.path].data = disk[e.path].data
      /\ disk'[e.path].stamped => disk'[e.path].mtime = e.modified
    BY <1>1, <1>4 DEF Files
<1>8. Done(e)' BY <1>2, <1>4, <1>7 DEF Done, Whole, Valid
<1>9. Times'
  <2>1. \A n \in Names : disk'[n].stamped => disk'[n].mtime <= edits + 1
      BY <1>4, <1>6, <1>7 DEF Times, TypeOK, SourceTypeOK
  <2>2. QED BY <1>3, <2>1 DEF Times
<1>10. Sound'
  <2> SUFFICES ASSUME ~SameSecond, NEW p \in Paths, disk'[p].stamped, disk'[p].mtime = src[p].mtime
               PROVE  disk'[p].data = src[p].data
      BY <1>2 DEF Sound, StampSound
  <2>1. CASE p = e.path BY <1>4, <1>7, <2>1 DEF Whole, Valid
  <2>2. CASE p # e.path
    <3>1. disk'[p] = disk[p] BY <1>6, <2>2, PathsAssumption
    <3>2. QED BY <3>1 DEF Sound, StampSound
  <2>3. QED BY <2>1, <2>2
<1>11. /\ ScanOnce' /\ Scan' /\ List' /\ Skipped' /\ Prepared' /\ Complete'
       /\ \A u \in Streams : Sent(u)'
       /\ \A u \in Streams \ {s} : Written(u)'
       /\ rleft'[s] \subseteq Work(rlist, s)
       /\ \A j \in rleft[s] \ {i} : Resumable(rlist[j])'
    BY <1>1, <1>2, <1>3, <1>5, <1>6, <1>8, ThreadParts
<1>12. \A u \in Streams : Summed(u)' BY <1>2, OlderSame, SummedSame
<1>13. Written(s)'
  <2>1. Work(rlist, s)' = Work(rlist, s) BY <1>2 DEF Work, Bucket
  <2>2. QED BY <1>2, <1>5, <1>11, <2>1 DEF Written, Busy
<1>14. QED BY <1>9, <1>10, <1>11, <1>12, <1>13
------------------------------------------------------------------------------
(* The theorems.                                                             *)

\* At first nothing is stamped.
LEMMA CopyInvInit == Init => CopyInv
<1> SUFFICES ASSUME Init PROVE CopyInv
    OBVIOUS
<1> USE DEF Init
<1>1. /\ \A p \in Paths : src[p].mtime = 1
      /\ \A n \in Names : ~disk[n].stamped
    BY DEF NoFile, Unstamped
<1>2. DOMAIN None = {} /\ DOMAIN <<>> = {} /\ IsFiniteSet({})
    BY FS_EmptySet DEF None
<1>3. Times BY <1>1, <1>2 DEF Times
<1>4. ScanOnce /\ Scan /\ List BY <1>2 DEF ScanOnce, Scan, List
<1>5. Skipped /\ Prepared /\ Complete BY DEF Skipped, InSession, Prepared, Complete
<1>6. Sound BY <1>1, PathsAssumption DEF Sound, StampSound
<1>7. \A s \in Streams : Written(s) /\ Sent(s) /\ Summed(s) BY DEF Written, Sent, Summed
<1>8. QED BY <1>3, <1>4, <1>5, <1>6, <1>7 DEF CopyInv

\* Every step keeps it.
LEMMA CopyInvStep ==
    ASSUME NamesApart, Inv, Inv', CopyInv, [Next]_vars
    PROVE  CopyInv'
<1>1. CASE SenderMain
    BY <1>1, LaunchCopy, ScanStatCopy, ScanCrcCopy, ControlCopy DEF SenderMain
<1>2. CASE ReceiverMain
    BY <1>2, ListenCopy, NegotiateCopy, PreparesOne, PrepareFileCopy, ConfirmCopy,
       ReceiverLeavesCopy, LoopFailsCopy DEF ReceiverMain
<1>3. ASSUME NEW s \in Streams, SenderThread(s) PROVE CopyInv'
    BY <1>3, ConnectionCopy, SendBlockCopy, SendSumCopy DEF SenderThread
<1>4. ASSUME NEW s \in Streams, ReceiverThread(s) PROVE CopyInv'
    BY <1>4, ThreadPlaceCopy, OpenTmpCopy, RecvBlockCopy, VerifyChunkCopy, RenameCopy,
       StampsOne, StampCopy DEF ReceiverThread
<1>5. ASSUME NEW p \in Paths, Edit(p) PROVE CopyInv'
    BY <1>5, EditCopy
<1>6. CASE Fault
    BY <1>6, ControlCopy, ReceiverLeavesCopy, ScanSkipCopy, PreparesOne, PrepareFileCopy,
       ConnectionCopy, ThreadPlaceCopy, StampsOne, StampCopy, CorruptCopy DEF Fault
<1>7. CASE UNCHANGED vars
  <2>1. \A s \in Streams : Sent(s)' /\ Summed(s)'
      BY <1>7 DEF vars, CopyInv, Sent, Summed, Valid
  <2>2. QED BY <1>7, <2>1, DataParts DEF vars
<1>8. QED BY <1>1, <1>2, <1>3, <1>4, <1>5, <1>6, <1>7 DEF Next

\* Both invariants hold at all times.
LEMMA CopyInvAlways == ASSUME NamesApart PROVE Spec => [](Inv /\ CopyInv)
<1>1. Init => Inv /\ CopyInv BY InvInit, CopyInvInit
<1>2. Inv /\ CopyInv /\ [Next]_vars => (Inv /\ CopyInv)'
    BY InvStep, CopyInvStep
<1>3. QED BY <1>1, <1>2, PTL DEF Spec

\* A destination file that was stamped and has its source file's time has its
\* data, whatever edits, crashes, resumes, corruption and sessions came before, as
\* long as an edit moves the time on (receiver.rs:488-496, 741-755).  Nothing is
\* said of a file that never got its time: it may have the time of an edit.
THEOREM CopyStampSound == ASSUME NamesApart, ~SameSecond PROVE Spec => []StampSound
<1>1. CopyInv => StampSound BY DEF CopyInv, Sound
<1>2. QED BY <1>1, CopyInvAlways, PTL

\* A receiver that reports success has every file of its list at its final name,
\* with the size of the index, and with its time unless setting it failed, which
\* the receiver does not report (receiver.rs:752-782).
THEOREM CopyReceiverOkComplete == ASSUME NamesApart PROVE Spec => []ReceiverOkComplete
<1>1. CopyInv => ReceiverOkComplete
    BY DEF CopyInv, Complete, Done, Whole, ReceiverOkComplete
<1>2. QED BY <1>1, CopyInvAlways, PTL

\* When both report success and the source was left alone meanwhile, every
\* indexed file is in the destination as it is, sent, resumed or skipped, unless
\* it was skipped for a coincidence of times (README.md:25-28).
THEOREM CopyExactCopy == ASSUME NamesApart, EditsSeen PROVE Spec => []ExactCopy
<1>1. Inv /\ CopyInv => ExactCopy
  <2> SUFFICES ASSUME Inv, CopyInv, sst = "ok", rst = "ok", ~dry, quiet,
                      NEW i \in DOMAIN index
               PROVE  Exact(index[i].path) \/ Coincides(index[i].path)
      BY DEF ExactCopy
  <2> USE DEF Inv, CopyInv
  <2>1. InSession BY DEF InSession
  <2>2. Valid(index[i].path, index[i].modified)
      BY DEF Scan, Valid
  <2>3. CASE i \notin DOMAIN rlist BY <2>1, <2>2, <2>3 DEF Skipped
  <2>4. CASE i \in DOMAIN rlist
    <3>1. rlist[i].path = index[i].path /\ rlist[i].modified = index[i].modified
        BY <2>1, <2>4 DEF Skipped
    <3>2. Done(rlist[i]) BY <2>4 DEF Complete
    <3>3. QED BY <2>2, <3>1, <3>2 DEF Done, Whole, Exact
  <2>5. QED BY <2>3, <2>4
<1>2. QED BY <1>1, CopyInvAlways, PTL
\* Until its file is whole a thread writes to no final name.
LEMMA FillsTmp ==
    ASSUME NamesApart, Inv, CopyInv, NEW s \in Streams, NEW p \in Paths,
           \/ Accept(s) \/ OpenTmp(s) \/ RecvBlock(s) \/ VerifyChunk(s) \/ RecvEof(s)
           \/ ReceiveIoError(s)
    PROVE  disk'[p] = disk[p]
<1> USE DEF Inv
<1>1. p \in Names /\ disk \in [Names -> Files]
    BY PathsAssumption DEF TypeOK, DiskTypeOK
<1>2. \A i \in rleft[s] : TmpName(rlist[i]) # p
    BY OwnNames DEF CopyInv, TypeOK, ReceiverTypeOK
<1>3. CASE Accept(s) \/ RecvEof(s) \/ ReceiveIoError(s)
    BY <1>3 DEF Accept, RecvEof, ReceiveIoError
<1>4. CASE OpenTmp(s) BY <1>1, <1>2, <1>4 DEF OpenTmp
<1>5. CASE RecvBlock(s) BY <1>1, <1>2, <1>5 DEF RecvBlock
<1>6. CASE VerifyChunk(s) BY <1>1, <1>2, <1>6 DEF VerifyChunk, Rejected
<1>7. QED BY <1>3, <1>4, <1>5, <1>6

\* The steps that do not touch the data at any final name.
LEMMA NamesUntouched ==
    ASSUME NamesApart, Inv, CopyInv, [Next]_vars,
           ~PrepareFile, ~PrepareUnstamped, \A s \in Streams : ~Rename(s), NEW p \in Paths
    PROVE  disk'[p].here = disk[p].here /\ disk'[p].data = disk[p].data
<1> USE DEF Inv
<1>1. p \in Names /\ disk \in [Names -> Files]
    BY PathsAssumption DEF TypeOK, DiskTypeOK
<1> DEFINE Kept == disk'[p].here = disk[p].here /\ disk'[p].data = disk[p].data
<1>2. disk' \in {disk, HandlesClosed} => Kept
    BY <1>1, HandlesClosedSame
<1>3. CASE SenderMain
    BY <1>2, <1>3 DEF SenderMain, Launch, ScanStat, ScanCrc, ConnectRefused, RecvList,
       RecvConfirm, ControlLost, JoinSender
<1>4. CASE ReceiverMain
    BY <1>2, <1>4 DEF ReceiverMain, Listen, Negotiate, Confirm, ConfirmFails, JoinReceiver,
       ProcessEnds, AcceptStray, AcceptFails, AcceptLoopFails
<1>5. ASSUME NEW s \in Streams, SenderThread(s) PROVE Kept
    BY <1>2, <1>5 DEF SenderThread, Connect, ConnectLate, SendBlock, SendSum, FinishStream,
       ReadShort, WriteFails, StreamFails
<1>6. ASSUME NEW s \in Streams, ReceiverThread(s) PROVE Kept
  <2>1. CASE Stamp(s)
    <3>1. PICK i \in rleft[s] :
              disk' \in {disk, [disk EXCEPT ![rlist[i].path].mtime = rlist[i].modified,
                                           ![rlist[i].path].stamped = TRUE]}
        BY <2>1, StampsOne DEF Stamps
    <3>2. rlist[i].path \in Names BY ListEntry DEF CopyInv, TypeOK, ReceiverTypeOK
    <3>3. CASE rlist[i].path = p
      <4>1. disk'[p] \in {disk[p], [disk[p] EXCEPT !.mtime = rlist[i].modified, !.stamped = TRUE]}
          BY <1>1, <3>1, <3>3
      <4>2. QED BY <1>1, <4>1 DEF Files
    <3>4. CASE rlist[i].path # p BY <1>1, <3>1, <3>4
    <3>5. QED BY <3>3, <3>4
  <2>2. QED BY <1>6, <2>1, FillsTmp DEF ReceiverThread
<1>7. ASSUME NEW q \in Paths, Edit(q) PROVE Kept
    BY <1>2, <1>7 DEF Edit
<1>8. CASE Fault
    BY <1>2, <1>8 DEF Fault, SenderCrash, ReceiverCrash, ScanSkip, StreamIoError, StreamFails,
       ReceiveIoError, StampFails, Corrupt
<1>9. CASE UNCHANGED vars BY <1>2, <1>9 DEF vars
<1>10. QED BY <1>3, <1>4, <1>5, <1>6, <1>7, <1>8, <1>9 DEF Next

\* A file is replaced only as a whole, by one of the size in the index: no
\* crash, error or resume leaves a part of a file at a final name
\* (README.md:28, receiver.rs:561-573, 741).
THEOREM CopyAtomicReplace == ASSUME NamesApart PROVE Spec => AtomicReplace
<1>1. ASSUME Inv, CopyInv, [Next]_vars, NEW p \in Paths PROVE Replaced(p)
  <2> USE <1>1 DEF Inv, CopyInv
  <2>1. p \in Names /\ disk \in [Names -> Files]
      BY PathsAssumption DEF TypeOK, DiskTypeOK
  <2>2. CASE PrepareFile \/ PrepareUnstamped
    <3>1. PICK i \in prep : Prepares(i) BY <2>2, PreparesOne
    <3>2. i \in DOMAIN rlist BY DEF TypeOK, ReceiverTypeOK
    <3>3. rlist[i].path \in Names /\ TmpName(rlist[i]) # p BY <3>2, ListEntry, OwnNames
    <3>4. CASE rlist[i].size = 0 /\ rlist[i].path = p
      <4>1. disk'[p].here /\ disk'[p].data = <<>> BY <2>1, <3>1, <3>4 DEF Prepares, Empty
      <4>2. QED BY <3>2, <3>4, <4>1, EmptySeq DEF Replaced
    <3>5. CASE ~(rlist[i].size = 0 /\ rlist[i].path = p)
      <4>1. disk'[p] = disk[p] BY <2>1, <3>1, <3>3, <3>5 DEF Prepares
      <4>2. QED BY <4>1 DEF Replaced
    <3>6. QED BY <3>4, <3>5
  <2>3. ASSUME NEW s \in Streams, Rename(s) PROVE Replaced(p)
    <3>1. PICK i \in rleft[s], now \in Clock :
              /\ IsNext(rlist, rleft[s], i)
              /\ \/ disk' = [disk EXCEPT ![rlist[i].path] =
                                [disk[Tmp[rlist[i].path]] EXCEPT !.mtime = now],
                                         ![Tmp[rlist[i].path]] = NoFile]
                 \/ disk' = disk
        BY <2>3 DEF Rename
    <3>2. rpc[s] = "rename" /\ rst = "stream" BY <2>3 DEF Rename, Idle
    <3>3. /\ i \in DOMAIN rlist /\ TmpName(rlist[i]) \notin Paths
          /\ Whole(disk[TmpName(rlist[i])], rlist[i])
        BY <3>1, <3>2, FileInHand DEF InHand
    <3>4. CASE disk' # disk /\ rlist[i].path = p
      <4>1. TmpName(rlist[i]) \in Names BY <3>3, ListEntry
      <4>2. disk'[p] = [disk[TmpName(rlist[i])] EXCEPT !.mtime = now]
          BY <2>1, <3>1, <3>3, <3>4, <4>1 DEF TmpName
      <4>3. /\ disk'[p].here = disk[TmpName(rlist[i])].here
            /\ disk'[p].data = disk[TmpName(rlist[i])].data
          BY <2>1, <4>1, <4>2 DEF Files
      <4>4. QED BY <3>3, <3>4, <4>3 DEF Replaced, Whole
    <3>5. CASE disk' = disk \/ rlist[i].path # p
      <4>1. disk'[p] = disk[p] BY <2>1, <3>1, <3>3, <3>5 DEF TmpName
      <4>2. QED BY <4>1 DEF Replaced
    <3>6. QED BY <3>4, <3>5
  <2>4. CASE ~PrepareFile /\ ~PrepareUnstamped /\ \A s \in Streams : ~Rename(s)
      BY <2>4, NamesUntouched DEF Replaced
  <2>5. QED BY <2>2, <2>3, <2>4
<1>2. Inv /\ CopyInv /\ [Next]_vars => [\A p \in Paths : Replaced(p)]_vars
    BY <1>1
<1>3. QED BY <1>2, CopyInvAlways, PTL DEF Spec, AtomicReplace
------------------------------------------------------------------------------
(* What is in step with the source stays so.                                 *)

\* What a session has still to replace or to stamp.
Pending ==
    IF rst = "prep" THEN {i \in DOMAIN rlist : i \in prep \/ rlist[i].size > 0}
    ELSE UNION {rleft[s] : s \in Streams}

\* A source file that has been edited since it had the time m has a time that
\* neither a stamped file of the destination nor the receiver's list has.
Unseen(p, m) ==
    m # src[p].mtime =>
        /\ disk[p].stamped => disk[p].mtime # src[p].mtime
        /\ \A i \in DOMAIN rlist : rlist[i].path = p => rlist[i].modified # src[p].mtime

\* Nothing that is in step is to be replaced: where the scan is of the source as
\* it is the skip has seen to it, and where it is not, nothing is in step.
SyncInv ==
    /\ \A p \in DOMAIN stat : Unseen(p, stat[p].modified)
    /\ \A i \in DOMAIN index : Unseen(index[i].path, index[i].modified)
    /\ \A i \in Pending : ~Synced(rlist[i].path)

StillSynced == \A p \in Paths : Synced(p) /\ src'[p] = src[p] => Synced(p)'

\* What is pending is in the list.
LEMMA PendingListed == ASSUME Inv PROVE Pending \subseteq DOMAIN rlist
BY DEF Inv, TypeOK, ReceiverTypeOK, Pending

\* Where the sender has scanned a path is a path.
LEMMA ScannedPaths ==
    ASSUME Inv, CopyInv
    PROVE  DOMAIN stat \subseteq Paths /\ \A i \in DOMAIN index : index[i].path \in Paths
BY IndexEntry DEF Inv, CopyInv, TypeOK, SenderTypeOK

\* A step that neither edits the source nor touches a final name, and adds to
\* the scan only what it reads.
LEMMA SyncSame ==
    ASSUME Inv, CopyInv, SyncInv, src' = src,
           \A p \in Paths : SameFile(p),
           \/ rlist' = rlist
           \/ DOMAIN rlist' = {} /\ Pending' = {},
           Pending' \subseteq Pending,
           DOMAIN stat' \subseteq Paths,
           \A p \in DOMAIN stat' :
               \/ stat'[p].modified = src[p].mtime
               \/ p \in DOMAIN stat /\ stat'[p] = stat[p],
           \A i \in DOMAIN index' :
               \/ i \in DOMAIN index /\ index'[i] = index[i]
               \/ /\ index'[i].path \in DOMAIN stat
                  /\ index'[i].modified = stat[index'[i].path].modified
    PROVE  SyncInv' /\ StillSynced
<1>1. \A p \in Paths : Synced(p)' = Synced(p) BY DEF Synced, Exact, SameFile
<1>2. \A p \in Paths : \A m : Unseen(p, m) => Unseen(p, m)' BY DEF Unseen, SameFile
<1>3. ASSUME NEW p \in DOMAIN stat' PROVE Unseen(p, stat[p].modified)'
  <2>1. CASE stat'[p].modified = src[p].mtime BY <2>1 DEF Unseen
  <2>2. CASE p \in DOMAIN stat /\ stat'[p] = stat[p]
    <3>1. Unseen(p, stat[p].modified) BY <2>2 DEF SyncInv
    <3>2. Unseen(p, stat[p].modified)' BY <1>2, <1>3, <2>2, <3>1
    <3>3. QED BY <3>2
  <2>3. QED BY <2>1, <2>2
<1>4. \A i \in DOMAIN index' : Unseen(index[i].path, index[i].modified)'
    BY <1>2, ScannedPaths DEF SyncInv
<1>5. \A i \in Pending' : ~Synced(rlist[i].path)'
  <2> SUFFICES ASSUME NEW i \in Pending' PROVE ~Synced(rlist[i].path)' /\ rlist' = rlist
      OBVIOUS
  <2>1. i \in DOMAIN rlist /\ rlist[i].path \in Paths
      BY PendingListed, ListEntry DEF Inv, CopyInv
  <2>2. QED BY <1>1, <2>1 DEF SyncInv
<1>6. QED BY <1>1, <1>3, <1>4, <1>5 DEF SyncInv, StillSynced

\* The steps of the sender, and of its threads.
LEMMA SenderSync ==
    ASSUME Inv, CopyInv, SyncInv,
           \/ SenderMain \/ SenderCrash \/ (\E p \in Paths : ScanSkip(p))
           \/ (\E s \in Streams : SenderThread(s) \/ StreamIoError(s) \/ Corrupt(s))
    PROVE  SyncInv' /\ StillSynced
<1> DEFINE ByRead ==
      /\ DOMAIN stat' \subseteq Paths
      /\ \A p \in DOMAIN stat' :
             \/ stat'[p].modified = src[p].mtime
             \/ p \in DOMAIN stat /\ stat'[p] = stat[p]
      /\ \A i \in DOMAIN index' :
             \/ i \in DOMAIN index /\ index'[i] = index[i]
             \/ /\ index'[i].path \in DOMAIN stat
                /\ index'[i].modified = stat[index'[i].path].modified
<1>0. DOMAIN stat \subseteq Paths /\ DOMAIN None = {} /\ DOMAIN <<>> = {}
    BY ScannedPaths, EmptySeq, LenProperties DEF None
<1>1. SUFFICES src' = src /\ disk' = disk /\ rlist' = rlist /\ Pending' \subseteq Pending /\ ByRead
    BY SyncSame DEF SameFile
<1> DEFINE Apart ==
      /\ UNCHANGED <<src, disk, rlist, prep, rleft>>
      /\ rst' = rst \/ (rst \in {"off", "listen"} /\ rst' = "off")
<1>2. Apart => src' = src /\ disk' = disk /\ rlist' = rlist /\ Pending' \subseteq Pending
  <2> SUFFICES ASSUME Apart PROVE Pending' \subseteq Pending
      OBVIOUS
  <2>1. CASE rst' = rst BY <2>1 DEF Pending
  <2>2. CASE rst \in {"off", "listen"} /\ rst' = "off" BY <2>2 DEF Pending
  <2>3. QED BY <2>1, <2>2
<1>3. CASE \E p \in Paths : ScanStat(p)
  <2>1. Apart /\ index' = index BY <1>3 DEF ScanStat
  <2>2. ByRead BY <1>0, <1>3 DEF ScanStat
  <2>3. QED BY <1>2, <2>1, <2>2
<1>4. CASE \E p \in Paths : ScanCrc(p)
  <2>1. PICK p \in Paths : ScanCrc(p) BY <1>4
  <2>2. Apart BY <2>1 DEF ScanCrc
  <2> DEFINE e == [path |-> p, size |-> stat[p].size, modified |-> stat[p].modified,
                   crc |-> src[p].data, offset |-> 0]
  <2>3. p \in DOMAIN stat /\ index' = Append(index, e) /\ index \in Seq(Entries)
        /\ stat' = [q \in DOMAIN stat \ {p} |-> stat[q]]
      BY <2>1 DEF ScanCrc, Inv, TypeOK, SenderTypeOK
  <2>4. e.path = p /\ e.modified = stat[p].modified OBVIOUS
  <2> HIDE DEF e
  <2>5. \A i \in DOMAIN index' :
            (i \in DOMAIN index /\ index'[i] = index[i]) \/ index'[i] = e
      BY <2>3
  <2>6. ByRead BY <1>0, <2>3, <2>4, <2>5
  <2>7. QED BY <1>2, <2>2, <2>6
<1>5. CASE \E p \in Paths : ScanSkip(p)
  <2>1. Apart /\ index' = index BY <1>5 DEF ScanSkip
  <2>2. ByRead BY <1>0, <1>5 DEF ScanSkip
  <2>3. QED BY <1>2, <2>1, <2>2
<1>6. CASE Launch \/ ConnectRefused \/ RecvList \/ RecvConfirm \/ ControlLost \/ JoinSender
           \/ SenderCrash
  <2>1. Apart
      BY <1>6 DEF Launch, ConnectRefused, RecvList, RecvConfirm, ControlLost, JoinSender,
         SenderCrash, SenderGone
  <2>2. \/ stat' = stat /\ index' = index
        \/ stat' = None /\ index' = <<>>
      BY <1>6 DEF Launch, ConnectRefused, RecvList, RecvConfirm, ControlLost, JoinSender,
         SenderCrash, SenderGone
  <2>3. ByRead BY <1>0, <2>2
  <2>4. QED BY <1>2, <2>1, <2>3
<1>7. ASSUME NEW s \in Streams, SenderThread(s) \/ StreamIoError(s) \/ Corrupt(s)
      PROVE  Apart /\ stat' = stat /\ index' = index
  <2>1. CASE ConnectLate(s) BY <2>1 DEF ConnectLate
  <2>2. CASE StreamIoError(s) BY <2>2 DEF StreamIoError, StreamFails
  <2>3. CASE Corrupt(s) BY <2>3 DEF Corrupt
  <2>4. CASE Connect(s) \/ SendBlock(s) \/ SendSum(s) \/ FinishStream(s)
      BY <2>4 DEF Connect, SendBlock, SendSum, FinishStream
  <2>5. CASE ReadShort(s) \/ WriteFails(s)
      BY <2>5 DEF ReadShort, WriteFails, StreamFails
  <2>6. QED BY <1>7, <2>1, <2>2, <2>3, <2>4, <2>5 DEF SenderThread
<1>8. ASSUME Apart, stat' = stat, index' = index
      PROVE  src' = src /\ disk' = disk /\ rlist' = rlist /\ Pending' \subseteq Pending /\ ByRead
    BY <1>0, <1>2, <1>8
<1>9. QED BY <1>3, <1>4, <1>5, <1>6, <1>7, <1>8 DEF SenderMain

\* An edit has a time that nothing has.
LEMMA EditSync ==
    ASSUME ~SameSecond, Inv, CopyInv, SyncInv, NEW p \in Paths, Edit(p)
    PROVE  SyncInv' /\ StillSynced
<1> USE DEF Inv, CopyInv
<1>1. /\ UNCHANGED <<stat, index, rlist, disk, rst, prep, rleft>>
      /\ src'[p].mtime = edits + 2 /\ \A q \in Paths \ {p} : src'[q] = src[q]
    BY DEF Edit, TypeOK, SourceTypeOK
<1>2. /\ p \in Names /\ edits \in Nat /\ disk[p].mtime \in Nat
      /\ disk[p].stamped => disk[p].mtime <= edits + 1
      /\ \A i \in DOMAIN rlist : rlist[i].modified \in 1..(edits + 1)
    BY PathsAssumption DEF Times, TypeOK, SourceTypeOK, DiskTypeOK, Files
<1>3. ~Synced(p)' BY <1>1, <1>2 DEF Synced
<1>4. \A q \in Paths \ {p} : Synced(q)' = Synced(q) BY <1>1 DEF Synced, Exact
<1>5. \A m : Unseen(p, m)' BY <1>1, <1>2 DEF Unseen
<1>6. \A q \in Paths \ {p} : \A m : Unseen(q, m) => Unseen(q, m)' BY <1>1 DEF Unseen
<1>7. Pending' = Pending BY <1>1 DEF Pending
<1>8. \A i \in Pending : rlist[i].path \in Paths BY PendingListed, ListEntry
<1>9. \A i \in Pending' : ~Synced(rlist[i].path)'
    BY <1>1, <1>3, <1>4, <1>7, <1>8 DEF SyncInv
<1>10. /\ \A q \in DOMAIN stat' : Unseen(q, stat[q].modified)'
       /\ \A i \in DOMAIN index' : Unseen(index[i].path, index[i].modified)'
    BY <1>1, <1>5, <1>6, ScannedPaths DEF SyncInv
<1>11. StillSynced
  <2> SUFFICES ASSUME NEW q \in Paths, Synced(q), src'[q] = src[q] PROVE Synced(q)'
      BY DEF StillSynced
  <2>1. CASE q = p
    <3>1. src[p].mtime \in 1..(edits + 1) BY DEF Times
    <3>2. QED BY <1>1, <1>2, <2>1, <3>1
  <2>2. QED BY <1>4, <2>1
<1>12. QED BY <1>9, <1>10, <1>11 DEF SyncInv

\* A new list has nothing that is in step.
LEMMA NegotiateSync ==
    ASSUME ~SameSecond, Inv, CopyInv, SyncInv, Negotiate
    PROVE  SyncInv' /\ StillSynced
<1> USE DEF Inv, CopyInv, Negotiate, Scanned
<1> DEFINE wanted == {i \in DOMAIN index : ~Skip(index[i])}
           list == [i \in wanted |-> [index[i] EXCEPT !.offset = ResumeOffset(index[i])]]
<1>1. ASSUME NEW i \in DOMAIN index
      PROVE  index[i] \in Entries /\ index[i].path \in Paths
    BY IndexEntry
<1>2. \A i \in wanted : list[i].path = index[i].path /\ list[i].modified = index[i].modified
    BY <1>1 DEF Entries
<1>3. rlist' = list \/ (dry /\ rlist' = None) OBVIOUS
<1>4. (rlist' = list /\ prep' = wanted /\ rst' = "prep") \/ (rlist' = None /\ rst' = "ok")
    OBVIOUS
<1>5. UNCHANGED <<src, disk, stat, index, rleft>> /\ DOMAIN stat = {} OBVIOUS
<1> HIDE DEF list
<1>6. DOMAIN list = wanted /\ DOMAIN None = {} BY DEF list, None
<1>7. \A p \in Paths : Synced(p)' = Synced(p) BY <1>5 DEF Synced, Exact
<1>8. ASSUME NEW i \in DOMAIN index PROVE Unseen(index[i].path, index[i].modified)'
  <2>1. Unseen(index[i].path, index[i].modified) BY DEF SyncInv
  <2>2. \A j \in DOMAIN rlist' : rlist'[j].path = index[i].path =>
                                     rlist'[j].modified = index[i].modified
    <3> SUFFICES ASSUME NEW j \in DOMAIN rlist', rlist'[j].path = index[i].path
                 PROVE  rlist'[j].modified = index[i].modified
        OBVIOUS
    <3>1. j \in wanted /\ rlist'[j] = list[j] BY <1>3, <1>6
    <3>2. j = i BY <1>2, <3>1 DEF ScanOnce
    <3>3. QED BY <1>2, <3>1, <3>2
  <2>3. QED BY <1>5, <2>1, <2>2 DEF Unseen
<1>9. ASSUME NEW i \in wanted PROVE ~Synced(index[i].path)
  <2> SUFFICES ASSUME Synced(index[i].path) PROVE FALSE
      OBVIOUS
  <2>1. index[i].modified = src[index[i].path].mtime
      BY DEF SyncInv, Unseen, Synced
  <2>2. index[i].size = Len(src[index[i].path].data) /\ index[i].crc = src[index[i].path].data
      BY <2>1 DEF Scan, Scanning
  <2>3. Skip(index[i]) BY <2>1, <2>2 DEF Skip, Synced, Exact
  <2>4. QED BY <2>3
<1>10. \A i \in Pending' : ~Synced(rlist[i].path)'
  <2>1. CASE rlist' = None /\ rst' = "ok"
    <3>1. Pending' = {} BY <1>5, <2>1 DEF Pending, Idle
    <3>2. QED BY <3>1
  <2>2. CASE rlist' = list /\ prep' = wanted /\ rst' = "prep"
    <3>1. Pending' \subseteq wanted BY <1>6, <2>2 DEF Pending
    <3>2. QED BY <1>1, <1>2, <1>7, <1>9, <2>2, <3>1
  <2>3. QED BY <1>4, <2>1, <2>2
<1>11. QED BY <1>5, <1>7, <1>8, <1>10 DEF SyncInv, StillSynced

\* A step of the receiver on one pending file.
LEMMA SyncOne ==
    ASSUME NamesApart, Inv, CopyInv, SyncInv, NEW i \in Pending,
           UNCHANGED <<src, stat, index, rlist>>,
           Pending' \subseteq Pending,
           \A p \in Paths \ {rlist[i].path} : disk'[p] = disk[p],
           \/ disk'[rlist[i].path].stamped => disk'[rlist[i].path].mtime = rlist[i].modified
           \/ disk'[rlist[i].path] = disk[rlist[i].path],
           i \in Pending' => ~Synced(rlist[i].path)'
    PROVE  SyncInv' /\ StillSynced
<1> USE DEF Inv, CopyInv
<1>1. i \in DOMAIN rlist /\ rlist[i].path \in Paths BY PendingListed, ListEntry
<1>2. \A p \in Paths \ {rlist[i].path} : Synced(p)' = Synced(p) BY DEF Synced, Exact
<1>3. \A p \in Paths : \A m : Unseen(p, m) => Unseen(p, m)'
    BY <1>1 DEF Unseen
<1>4. /\ \A p \in DOMAIN stat' : Unseen(p, stat[p].modified)'
      /\ \A j \in DOMAIN index' : Unseen(index[j].path, index[j].modified)'
    BY <1>3, ScannedPaths DEF SyncInv
<1>5. ASSUME NEW j \in Pending' PROVE ~Synced(rlist[j].path)'
  <2>1. CASE j = i BY <1>5, <2>1
  <2>2. CASE j # i
    <3>1. j \in DOMAIN rlist /\ rlist[j].path \in Paths BY PendingListed, ListEntry
    <3>2. rlist[j].path # rlist[i].path BY <1>1, <2>2, <3>1 DEF List
    <3>3. QED BY <1>2, <3>1, <3>2 DEF SyncInv
  <2>3. QED BY <2>1, <2>2
<1>6. StillSynced BY <1>2 DEF StillSynced, SyncInv
<1>7. QED BY <1>4, <1>5, <1>6 DEF SyncInv

LEMMA PrepareFileSync ==
    ASSUME NamesApart, Inv, CopyInv, SyncInv, PrepareFile \/ PrepareUnstamped
    PROVE  SyncInv' /\ StillSynced
<1> USE DEF Inv, CopyInv
<1>1. PICK i \in prep : Prepares(i) BY PreparesOne
<1>2. i \in DOMAIN rlist /\ i \in Pending BY <1>1 DEF TypeOK, ReceiverTypeOK, Pending, Prepares
<1>3. /\ rlist[i].path \in Names /\ TmpName(rlist[i]) \notin Paths /\ disk \in [Names -> Files]
      /\ rlist[i].path \in Paths /\ rlist[i].size \in Nat
    BY <1>2, ListEntry, OwnNames DEF TypeOK, DiskTypeOK
<1>4. Pending' \subseteq Pending /\ (i \in Pending' => rlist[i].size > 0)
    BY <1>1 DEF Pending, Prepares
<1>5. \A p \in Paths \ {rlist[i].path} : disk'[p] = disk[p]
    BY <1>1, <1>3, PathsAssumption DEF Prepares
<1>6. rlist[i].size = 0 =>
          (disk'[rlist[i].path].stamped => disk'[rlist[i].path].mtime = rlist[i].modified)
    BY <1>1, <1>3 DEF Prepares, Empty
<1>7. rlist[i].size # 0 => disk'[rlist[i].path] = disk[rlist[i].path]
    BY <1>1, <1>3 DEF Prepares
<1>8. UNCHANGED <<src, stat, index, rlist>> BY <1>1 DEF Prepares
<1>9. i \in Pending' => ~Synced(rlist[i].path)'
    BY <1>2, <1>3, <1>4, <1>7, <1>8 DEF Synced, Exact, SyncInv
<1>10. QED BY <1>2, <1>4, <1>5, <1>6, <1>7, <1>8, <1>9, SyncOne

\* The rest of what the receiver's main thread does.
LEMMA ReceiverSync ==
    ASSUME Inv, CopyInv, SyncInv,
           \/ Listen \/ Confirm \/ ConfirmFails \/ JoinReceiver \/ ProcessEnds \/ ReceiverCrash
           \/ AcceptStray \/ \E s \in Streams : AcceptFails(s)
    PROVE  SyncInv' /\ StillSynced
<1> USE DEF Inv, CopyInv
<1>1. DOMAIN stat \subseteq Paths /\ DOMAIN None = {} /\ DOMAIN <<>> = {}
    BY ScannedPaths, EmptySeq, LenProperties DEF None
<1>2. ASSUME disk' \in {disk, HandlesClosed}, src' = src, stat' = stat,
             index' = index \/ index' = <<>>,
             rlist' = rlist \/ (rlist' = None /\ Pending' = {}),
             Pending' \subseteq Pending
      PROVE  SyncInv' /\ StillSynced
  <2>1. \A p \in Paths : SameFile(p)
      BY <1>2, HandlesClosedSame, PathsAssumption DEF SameFile
  <2>2. QED BY <1>1, <1>2, <2>1, SyncSame
<1>3. \A st : ReceiverLeaves(st) /\ st # "prep" => Pending' = {}
    BY DEF ReceiverLeaves, Pending
<1>4. CASE Listen
  <2>1. Pending' = {} BY <1>4 DEF Listen, Pending, Idle
  <2>2. QED BY <1>2, <1>4, <2>1 DEF Listen
<1>5. CASE Confirm
  <2>1. /\ rst' = "stream" /\ UNCHANGED <<src, stat, index, rlist, disk>> /\ rst = "prep"
        /\ rleft' = [s \in Streams |-> Work(rlist, s)]
      BY <1>5 DEF Confirm
  <2>2. ASSUME NEW s \in Streams, NEW i \in Work(rlist, s)
        PROVE  i \in DOMAIN rlist /\ rlist[i].size > 0
    <3>1. i \in DOMAIN rlist BY DEF Work, Bucket
    <3>2. rlist[i].offset < rlist[i].size BY <3>1, WorkOf
    <3>3. QED BY <3>1, <3>2, ListEntry
  <2>3. Pending' \subseteq Pending BY <2>1, <2>2 DEF Pending
  <2>4. QED BY <1>2, <2>1, <2>3
<1>6. CASE ConfirmFails BY <1>2, <1>3, <1>6 DEF ConfirmFails
<1>7. CASE JoinReceiver BY <1>2, <1>3, <1>7 DEF JoinReceiver
<1>8. CASE ProcessEnds BY <1>2, <1>3, <1>8 DEF ProcessEnds
<1>9. CASE ReceiverCrash BY <1>2, <1>3, <1>9 DEF ReceiverCrash
<1>10. CASE AcceptStray \/ \E s \in Streams : AcceptFails(s)
  <2>1. /\ UNCHANGED <<src, stat, rlist, rst, prep, rleft, disk>>
        /\ index' = index \/ index' = <<>>
      BY <1>10 DEF AcceptStray, AcceptFails, AcceptLoopFails
  <2>2. Pending' = Pending BY <2>1 DEF Pending
  <2>3. QED BY <1>2, <2>1, <2>2
<1>11. QED BY <1>4, <1>5, <1>6, <1>7, <1>8, <1>9, <1>10

\* A renamed file is not in step before it is stamped, and with that, or with its
\* failure, it is not pending any longer.
LEMMA ThreadSync ==
    ASSUME NamesApart, Inv, CopyInv, SyncInv, NEW s \in Streams,
           ReceiverThread(s) \/ ReceiveIoError(s) \/ StampFails(s)
    PROVE  SyncInv' /\ StillSynced
<1> USE DEF Inv, CopyInv
<1>0. disk \in [Names -> Files] /\ Paths \subseteq Names
    BY PathsAssumption DEF TypeOK, DiskTypeOK
<1>1. CASE Accept(s) \/ OpenTmp(s) \/ RecvBlock(s) \/ VerifyChunk(s) \/ RecvEof(s)
           \/ ReceiveIoError(s)
  <2>1. \A p \in Paths : disk'[p] = disk[p] BY <1>1, FillsTmp
  <2>2. UNCHANGED <<src, stat, index, rlist, prep, rst, rleft>>
      BY <1>1 DEF Accept, OpenTmp, RecvBlock, VerifyChunk, RecvEof, ReceiveIoError
  <2>3. Pending' = Pending BY <2>2 DEF Pending
  <2>4. QED BY <2>1, <2>2, <2>3, ScannedPaths, SyncSame DEF SameFile
<1>2. CASE Rename(s)
  <2>1. PICK i \in rleft[s], now \in Clock :
            /\ IsNext(rlist, rleft[s], i)
            /\ \/ disk' = [disk EXCEPT ![rlist[i].path] =
                              [disk[Tmp[rlist[i].path]] EXCEPT !.mtime = now],
                                       ![Tmp[rlist[i].path]] = NoFile]
               \/ disk' = disk
      BY <1>2 DEF Rename
  <2>2. /\ rpc[s] = "rename" /\ rst = "stream"
        /\ UNCHANGED <<src, stat, index, rlist, prep, rst, rleft>>
      BY <1>2 DEF Rename, Idle
  <2>3. /\ i \in DOMAIN rlist /\ rlist[i].path \in Paths /\ TmpName(rlist[i]) \notin Paths
        /\ TmpName(rlist[i]) \in Names /\ ~disk[TmpName(rlist[i])].stamped
      BY <2>1, <2>2, FileInHand DEF InHand
  <2>4. i \in Pending /\ Pending' = Pending BY <2>2 DEF Pending
  <2>5. \A p \in Paths \ {rlist[i].path} : disk'[p] = disk[p]
      BY <1>0, <2>1, <2>3 DEF TmpName
  <2>6. CASE disk' = disk BY <2>2, <2>4, <2>5, <2>6, SyncOne DEF SyncInv, Synced, Exact
  <2>7. CASE disk' # disk
    <3>1. disk'[rlist[i].path] = [disk[TmpName(rlist[i])] EXCEPT !.mtime = now]
        BY <1>0, <2>1, <2>3, <2>7 DEF TmpName
    <3>2. ~disk'[rlist[i].path].stamped BY <1>0, <2>3, <3>1 DEF Files
    <3>3. ~Synced(rlist[i].path)' BY <2>2, <3>2 DEF Synced
    <3>4. QED BY <2>2, <2>4, <2>5, <3>2, <3>3, SyncOne
  <2>8. QED BY <2>6, <2>7
<1>3. CASE Stamp(s) \/ StampFails(s)
  <2>1. PICK i \in rleft[s] :
            /\ IsNext(rlist, rleft[s], i)
            /\ disk' \in {disk, [disk EXCEPT ![rlist[i].path].mtime = rlist[i].modified,
                                            ![rlist[i].path].stamped = TRUE]}
            /\ rleft' = [rleft EXCEPT ![s] = @ \ {i}]
      BY <1>3, StampsOne DEF Stamps
  <2>2. /\ rpc[s] = "stamp" /\ rst = "stream"
        /\ UNCHANGED <<src, stat, index, rlist, prep, rst>>
      BY <1>3 DEF Stamp, StampFails, Idle
  <2>3. i \in DOMAIN rlist /\ rlist[i].path \in Paths /\ i \in Work(rlist, s)
      BY <2>1, <2>2, FileInHand
  <2>4. i \in Pending /\ Pending' \subseteq Pending
      BY <2>1, <2>2 DEF Pending, TypeOK, ReceiverTypeOK
  <2>5. i \notin Pending'
    <3>1. \A t \in Streams \ {s} : rleft'[t] = rleft[t] /\ rleft[t] \subseteq Work(rlist, t)
        BY <2>1, <2>2 DEF Written, TypeOK, ReceiverTypeOK
    <3>2. \A t \in Streams \ {s} : i \notin rleft'[t] BY <2>3, <3>1, WorkOf
    <3>3. i \notin rleft'[s] BY <2>1 DEF TypeOK, ReceiverTypeOK
    <3>4. QED BY <2>2, <3>2, <3>3 DEF Pending
  <2>6. \A p \in Paths \ {rlist[i].path} : disk'[p] = disk[p] BY <1>0, <2>1
  <2>7. \/ disk'[rlist[i].path].stamped => disk'[rlist[i].path].mtime = rlist[i].modified
        \/ disk'[rlist[i].path] = disk[rlist[i].path]
      BY <1>0, <2>1, <2>3 DEF Files
  <2>8. QED BY <2>2, <2>4, <2>5, <2>6, <2>7, SyncOne
<1>4. QED BY <1>1, <1>2, <1>3 DEF ReceiverThread

LEMMA SyncInvInit == Init => SyncInv
BY DEF Init, SyncInv, Pending, None

LEMMA SyncStep ==
    ASSUME NamesApart, ~SameSecond, Inv, CopyInv, SyncInv, [Next]_vars
    PROVE  SyncInv' /\ StillSynced
<1>1. CASE UNCHANGED vars
  <2>1. Pending' = Pending BY <1>1 DEF vars, Pending
  <2>2. QED BY <1>1, <2>1, ScannedPaths, SyncSame DEF vars, SameFile
<1>2. CASE ReceiverMain
    BY <1>2, ReceiverSync, NegotiateSync, PrepareFileSync DEF ReceiverMain
<1>3. QED
    BY <1>1, <1>2, SenderSync, ReceiverSync, PrepareFileSync, ThreadSync, EditSync
       DEF Next, Fault

\* A destination file with its source's data, stamped with its source's time, is
\* not sent again, nor stamped, nor removed, before its source is edited: whatever
\* sessions are aborted, resumed or overtaken by edits of other files
\* (receiver.rs:473-519, 741-755).
THEOREM CopyStaysSynced == ASSUME NamesApart, ~SameSecond PROVE Spec => StaysSynced
<1>1. Inv /\ CopyInv /\ SyncInv /\ [Next]_vars => SyncInv' BY SyncStep
<1>2. Inv /\ CopyInv /\ SyncInv /\ [Next]_vars =>
          [\A p \in Paths : Synced(p) /\ src'[p] = src[p] => Synced(p)']_vars
    BY SyncStep DEF StillSynced
<1>3. QED BY <1>1, <1>2, SyncInvInit, CopyInvAlways, PTL DEF Spec, StaysSynced
------------------------------------------------------------------------------
(* Transfer implements Mirror: its initial states are initial states of      *)
(* Mirror, and each of its steps is a step of Mirror or leaves all of it     *)
(* alone.  Negotiate is Begin (or DryRun), PrepareFile and PrepareUnstamped  *)
(* are PutEmpty, Rename is Put, Stamp and StampFails are Stamp, JoinReceiver *)
(* is Report; a receiver that joins with an error, or whose process ends,    *)
(* Leaves, a sender that is gone Forgets.  A receiver that returns out of    *)
(* its accept loop takes no step of Mirror: its threads go on.  The          *)
(* invariants above say that these steps do what Mirror wants of them.       *)

\* A step of Mirror, or none.
Mapped == [Copied!Next]_Copied!vars

\* What does not move the files or the session is no step, or the end of a
\* promise.
LEMMA Unmoved ==
    ASSUME src' = src, Delivered' = Delivered, Phase' = Phase, ToPut' = ToPut,
           ToStamp' = ToStamp, Promised' \in {Promised, {}}
    PROVE  Mapped
BY DEF Mapped, Copied!Next, Copied!vars, Copied!Forget

\* A receiver that returns or starts anew.
LEMMA Left ==
    ASSUME src' = src, Delivered' = Delivered, Phase' = "idle", ToPut' = {},
           ToStamp' = {}, Promised' = {}
    PROVE  Mapped
BY DEF Mapped, Copied!Next, Copied!Leave

\* Outside of the two stages of a session nothing is to be done.
LEMMA NothingToDo ==
    ASSUME Inv, rst \notin {"prep", "stream"}
    PROVE  Outstanding = {} /\ Unstamping = {} /\ ToPut = {} /\ ToStamp = {}
<1>1. \A s \in Streams : rleft[s] = {} BY DEF Inv, Idle
<1>2. QED BY <1>1 DEF Outstanding, Unstamping, ToPut, ToStamp

\* The positions to be done are of the list.
LEMMA InList ==
    ASSUME Inv
    PROVE  Outstanding \subseteq DOMAIN rlist /\ Unstamping \subseteq DOMAIN rlist
BY DEF Inv, TypeOK, ReceiverTypeOK, Outstanding, Unstamping

\* The entries of the list have the types of Mirror, and are different.
LEMMA MappedEntries ==
    ASSUME Inv, CopyInv
    PROVE  /\ \A i \in DOMAIN rlist : /\ MirrorEntry(i) \in Copied!Entries
                                      /\ MirrorEntry(i).path = rlist[i].path
                                      /\ MirrorEntry(i).size = rlist[i].size
                                      /\ MirrorEntry(i).modified = rlist[i].modified
           /\ \A i, j \in DOMAIN rlist : MirrorEntry(i).path = MirrorEntry(j).path => i = j
BY ListEntry DEF Inv, CopyInv, List, MirrorEntry, Copied!Entries, Entries

\* The files at the final names have the type of Mirror.
LEMMA MappedFiles ==
    ASSUME TypeOK
    PROVE  /\ Delivered \in [Paths -> Copied!Files]
           /\ \A p \in Paths : /\ Delivered[p].here = disk[p].here
                               /\ Delivered[p].data = disk[p].data
                               /\ Delivered[p].mtime = disk[p].mtime
BY PathsAssumption DEF TypeOK, DiskTypeOK, Files, Delivered, Copied!Files

LEMMA SameFiles ==
    ASSUME \A p \in Paths : /\ disk'[p].here = disk[p].here
                            /\ disk'[p].data = disk[p].data
                            /\ disk'[p].mtime = disk[p].mtime
    PROVE  Delivered' = Delivered
BY DEF Delivered

\* The promise stands where only files of the list change.
LEMMA PromisedSame ==
    ASSUME Inv, CopyInv, UNCHANGED <<src, quiet, dry, sst, index, rlist>>,
           rst' \in {"prep", "stream", "ok"} <=> rst \in {"prep", "stream", "ok"},
           \A p \in Paths : (\A i \in DOMAIN rlist : rlist[i].path # p) => SameFile(p)
    PROVE  Promised' = Promised
<1>1. CASE InSession
  <2>1. ASSUME NEW i \in DOMAIN index, i \notin DOMAIN rlist
        PROVE  Coincides(index[i].path)' <=> Coincides(index[i].path)
    <3>1. \A j \in DOMAIN rlist : rlist[j].path # index[i].path
        BY <1>1, <2>1 DEF CopyInv, Skipped, ScanOnce
    <3>2. SameFile(index[i].path) BY <3>1, IndexEntry DEF Inv, CopyInv
    <3>3. QED BY <3>2 DEF Coincides, SameFile
  <2>2. {j \in DOMAIN index' : j \in DOMAIN rlist' \/ ~Coincides(index[j].path)'}
        = {j \in DOMAIN index : j \in DOMAIN rlist \/ ~Coincides(index[j].path)}
      BY <2>1
  <2>3. QED BY <2>2 DEF Promised
<1>2. CASE ~InSession BY <1>2 DEF InSession, Promised
<1>3. QED BY <1>1, <1>2

\* What is promised is of the source as it is.
LEMMA PromisedValid ==
    ASSUME Inv, CopyInv, NEW i \in DOMAIN rlist, Promised # {}
    PROVE  Valid(rlist[i].path, rlist[i].modified)
<1>1. /\ quiet /\ InSession /\ sst \notin {"off", "scan"}
    BY DEF Promised, InSession
<1>2. /\ i \in DOMAIN index /\ rlist[i].path = index[i].path
      /\ rlist[i].modified = index[i].modified
    BY <1>1 DEF CopyInv, Skipped
<1>3. QED BY <1>1, <1>2 DEF CopyInv, Scan, Valid

\* The initial states.
LEMMA RefinesInit == Init => Copied!Init
<1> SUFFICES ASSUME Init PROVE Copied!Init
    OBVIOUS
<1>1. Inv BY InvInit
<1>2. src \in [Paths -> [data : Seq(Block), mtime : Nat]]
    BY <1>1 DEF Inv, TypeOK, SourceTypeOK
<1>3. Delivered \in [Paths -> Copied!Files]
    BY <1>1, MappedFiles DEF Inv
<1>4. Phase = "idle" /\ Promised = {} BY DEF Init, Phase, Promised
<1>5. ToPut = {} /\ ToStamp = {} BY <1>1, NothingToDo DEF Init
<1>6. QED BY <1>2, <1>3, <1>4, <1>5 DEF Copied!Init, Copied!Sources

------------------------------------------------------------------------------
(* The steps.                                                                *)

LEMMA EditRefines ==
    ASSUME Inv, Inv', NEW p \in Paths, Edit(p)
    PROVE  Mapped
<1>1. src' \in Copied!Sources
    BY DEF Inv, TypeOK, SourceTypeOK, Copied!Sources
<1>2. Promised' = {} BY DEF Edit, Promised
<1>3. UNCHANGED <<Delivered, Phase, ToPut, ToStamp>>
    BY DEF Edit, Delivered, Phase, ToPut, ToStamp, Outstanding, Unstamping, MirrorEntry
<1>4. QED BY <1>1, <1>2, <1>3 DEF Mapped, Copied!Next, Copied!Edit

\* The sender's steps, and what happens to the streams.
LEMMA SenderRefines ==
    ASSUME Inv, Inv',
           \/ SenderMain \/ SenderCrash \/ (\E p \in Paths : ScanSkip(p))
           \/ \E s \in Streams : SenderThread(s) \/ StreamIoError(s) \/ Corrupt(s)
    PROVE  Mapped
<1> DEFINE Same ==
        /\ UNCHANGED <<src, disk, rlist, prep, rpc, rleft>>
        /\ rst' = rst \/ {rst, rst'} \subseteq {"off", "listen"}
        /\ \/ UNCHANGED <<quiet, dry, index>> /\ sst' = sst
           \/ sst' \in {"off", "scan"}
           \/ UNCHANGED <<quiet, dry, index>>
              /\ (dry \/ {sst, sst'} \subseteq {"sent", "list", "stream", "ok"})
<1>1. ASSUME Same PROVE Mapped
  <2>1. Delivered' = Delivered BY <1>1 DEF Delivered
  <2>2. Phase' = Phase BY <1>1 DEF Phase
  <2>3. ToPut' = ToPut /\ ToStamp' = ToStamp
      BY <1>1 DEF ToPut, ToStamp, Outstanding, Unstamping, MirrorEntry
  <2>4. \A p : Coincides(p)' <=> Coincides(p) BY <1>1 DEF Coincides
  <2>5. Promised' \in {Promised, {}} BY <1>1, <2>4 DEF Promised
  <2>6. QED BY <1>1, <2>1, <2>2, <2>3, <2>5, Unmoved
<1>2. CASE SenderMain
    BY <1>1, <1>2 DEF SenderMain, Launch, ScanStat, ScanCrc, ConnectRefused, RecvList,
       RecvConfirm, ControlLost, JoinSender, SenderGone
<1>3. CASE SenderCrash BY <1>1, <1>3 DEF SenderCrash, SenderGone
<1>4. ASSUME NEW p \in Paths, ScanSkip(p) PROVE Mapped
    BY <1>1, <1>4 DEF ScanSkip
<1>5. ASSUME NEW s \in Streams, SenderThread(s) PROVE Mapped
    BY <1>1, <1>5 DEF SenderThread, Connect, ConnectLate, SendBlock, SendSum, FinishStream,
       ReadShort, WriteFails, StreamFails
<1>6. ASSUME NEW s \in Streams, StreamIoError(s) \/ Corrupt(s) PROVE Mapped
    BY <1>1, <1>6 DEF StreamIoError, StreamFails, Corrupt
<1>7. QED BY <1>2, <1>3, <1>4, <1>5, <1>6

\* A receiver that is out of its session, with success or not.
LEMMA OutOfSession ==
    ASSUME Inv', rst' \notin {"prep", "stream"}
    PROVE  ToPut' = {} /\ ToStamp' = {}
<1>1. \A s \in Streams : rleft'[s] = {} BY DEF Inv, Idle
<1>2. QED BY <1>1 DEF ToPut, ToStamp, Outstanding, Unstamping

LEMMA ListenRefines ==
    ASSUME Inv, Inv', Listen
    PROVE  Mapped
<1>1. rst' = "listen" /\ src' = src /\ Delivered' = Delivered
    BY DEF Listen, Delivered
<1>2. Phase' = "idle" /\ Promised' = {} BY <1>1 DEF Phase, Promised
<1>3. QED BY <1>1, <1>2, Left, OutOfSession

\* The receiver's list is what the session has to replace.
LEMMA NegotiateRefines ==
    ASSUME Inv, Inv', CopyInv, CopyInv', EditsSeen, Negotiate
    PROVE  Mapped
<1> USE DEF Negotiate
<1>1. /\ src' = src /\ Delivered' = Delivered /\ Phase = "idle"
      /\ ToPut = {} /\ ToStamp = {} /\ Promised = {}
    BY NothingToDo DEF Delivered, Phase, Promised
<1>2. CASE dry
  <2>1. Phase' = "ok" /\ Promised' = {} BY <1>2 DEF Phase, Promised
  <2>2. ToPut' = {} /\ ToStamp' = {} BY <1>2, OutOfSession
  <2>3. QED BY <1>1, <2>1, <2>2 DEF Mapped, Copied!Next, Copied!DryRun
<1>3. CASE ~dry
  <2>1. rst' = "prep" /\ sst' = "sent" /\ ~dry' /\ prep' = DOMAIN rlist' /\ InSession'
      BY <1>3 DEF InSession
  <2>2. Phase' = "copying" BY <2>1 DEF Phase
  <2>3. Outstanding' = DOMAIN rlist' BY <2>1 DEF Outstanding
  <2> DEFINE entry(i) == [path |-> rlist'[i].path, size |-> rlist'[i].size,
                          modified |-> rlist'[i].modified]
  <2>4. ToPut' = {entry(i) : i \in DOMAIN rlist'}
      BY <2>3 DEF ToPut, MirrorEntry
  <2>5. ToPut' \subseteq Copied!Entries /\ Copied!OnePerPath(ToPut')
    <3>1. \A i \in DOMAIN rlist' : entry(i) \in Copied!Entries /\ entry(i).path = rlist'[i].path
        BY DEF Inv, TypeOK, ReceiverTypeOK, Entries, Copied!Entries
    <3>2. \A i, j \in DOMAIN rlist' : rlist'[i].path = rlist'[j].path => i = j
        BY DEF CopyInv, List
    <3>3. Copied!OnePerPath(ToPut')
      <4>1. ASSUME NEW e \in ToPut', NEW f \in ToPut', e.path = f.path PROVE e = f
        <5>1. PICK i \in DOMAIN rlist' : e = entry(i) BY <2>4
        <5>2. PICK j \in DOMAIN rlist' : f = entry(j) BY <2>4
        <5>3. i = j BY <3>1, <3>2, <4>1, <5>1, <5>2
        <5>4. QED BY <5>1, <5>2, <5>3
      <4>2. QED BY <4>1 DEF Copied!OnePerPath
    <3>4. ToPut' \subseteq Copied!Entries BY <2>4, <3>1
    <3>5. QED BY <3>3, <3>4
  <2>6. ToStamp' = {}
    <3>1. \A s \in Streams : rleft'[s] = {} BY <2>1 DEF Inv, Idle
    <3>2. QED BY <3>1 DEF ToStamp, Unstamping
  <2>7. ASSUME NEW p \in Promised'
        PROVE  p \in Paths /\ (p \in Copied!PathsOf(ToPut') \/ Copied!Exact(p))
    <3>1. quiet' /\ quiet /\ index' = index BY <2>7 DEF Promised
    <3>2. PICK i \in DOMAIN index : /\ p = index[i].path
                                    /\ i \in DOMAIN rlist' \/ ~Coincides(index[i].path)'
        BY <2>7, <3>1 DEF Promised
    <3>3. p \in Paths BY <3>2, IndexEntry DEF Inv, CopyInv
    <3>4. Valid(index[i].path, index[i].modified)'
        BY <2>1, <3>1 DEF CopyInv, Scan, Valid
    <3>5. CASE i \in DOMAIN rlist'
      <4>1. rlist'[i].path = p BY <2>1, <3>1, <3>2, <3>5 DEF CopyInv, Skipped
      <4>2. entry(i) \in ToPut' /\ entry(i).path = p BY <2>4, <3>5, <4>1
      <4>3. QED BY <3>3, <4>2 DEF Copied!PathsOf
    <3>6. CASE i \notin DOMAIN rlist'
      <4>1. Exact(index[i].path)'
          BY <2>1, <3>1, <3>2, <3>4, <3>6 DEF CopyInv, Skipped, EditsSeen
      <4>2. QED BY <3>2, <3>3, <4>1 DEF Exact, Copied!Exact, Delivered
    <3>7. QED BY <3>5, <3>6
  <2>8. QED BY <1>1, <2>2, <2>5, <2>6, <2>7 DEF Mapped, Copied!Next, Copied!Begin
<1>4. QED BY <1>2, <1>3

\* One file of the list is put in place.
LEMMA Replaces ==
    ASSUME Inv, Inv', CopyInv, CopyInv', NEW i \in Outstanding, NEW t,
           Phase = "copying", Phase' = Phase, src' = src, Promised' = Promised,
           rlist' = rlist, quiet' = quiet, sst' = sst,
           Outstanding' = Outstanding \ {i},
           \A p \in Paths \ {rlist[i].path} : disk'[p] = disk[p],
           Whole(disk[rlist[i].path], rlist[i])', disk'[rlist[i].path].mtime = t
    PROVE  Copied!Replace(MirrorEntry(i), t)
<1> DEFINE e == rlist[i]
<1>1. i \in DOMAIN rlist BY InList
<1>2. /\ e.path \in Paths /\ MirrorEntry(i).path = e.path /\ MirrorEntry(i).size = e.size
    BY <1>1, ListEntry DEF Inv, CopyInv, MirrorEntry
<1>3. MirrorEntry(i) \in ToPut BY DEF ToPut
<1>4. ToPut' = ToPut \ {MirrorEntry(i)}
  <2>1. \A j \in Outstanding : MirrorEntry(j)' = MirrorEntry(j) BY DEF MirrorEntry
  <2>2. \A j \in Outstanding : MirrorEntry(j) = MirrorEntry(i) => j = i
      BY <1>1, InList, MappedEntries
  <2>3. QED BY <2>1, <2>2 DEF ToPut
<1>5. Delivered' \in [Paths -> Copied!Files] /\ \A p \in Paths \ {e.path} : Delivered'[p] = Delivered[p]
  <2>1. \A p \in Paths : disk'[p] \in Files
      BY PathsAssumption DEF Inv, TypeOK, DiskTypeOK
  <2>2. \A p \in Paths : /\ Delivered[p] = [here |-> disk[p].here, data |-> disk[p].data,
                                             mtime |-> disk[p].mtime]
                          /\ Delivered'[p] = [here |-> disk'[p].here, data |-> disk'[p].data,
                                              mtime |-> disk'[p].mtime]
      BY DEF Delivered
  <2>3. Delivered' \in [Paths -> Copied!Files]
      BY <2>1 DEF Delivered, Files, Copied!Files
  <2>4. QED BY <2>2, <2>3
<1>6. /\ Delivered'[e.path].here = disk'[e.path].here
      /\ Delivered'[e.path].data = disk'[e.path].data
      /\ Delivered'[e.path].mtime = disk'[e.path].mtime
    BY <1>2 DEF Delivered
<1>7. e.path \in Promised => disk'[e.path].data = src[e.path].data
    BY <1>1, PromisedValid DEF Whole, Valid
<1>8. disk'[e.path].here /\ Len(disk'[e.path].data) = e.size
    BY DEF Whole
<1>9. QED BY <1>2, <1>3, <1>4, <1>5, <1>6, <1>7, <1>8 DEF Copied!Replace

\* An empty file is put with the time of the index, or keeps the one it was
\* written at.
LEMMA PrepareFileRefines ==
    ASSUME NamesApart, Inv, Inv', CopyInv, CopyInv', PrepareFile \/ PrepareUnstamped
    PROVE  Mapped
<1>1. PICK i \in prep : Prepares(i) BY PreparesOne
<1>2. /\ rst = "prep" /\ UNCHANGED <<src, quiet, sst, dry, index, rst, rlist, rpc, rleft>>
      /\ prep' = prep \ {i}
    BY <1>1 DEF Prepares
<1>3. i \in DOMAIN rlist /\ disk \in [Names -> Files]
    BY DEF Inv, TypeOK, ReceiverTypeOK, DiskTypeOK
<1>4. /\ rlist[i].path \in Paths /\ rlist[i].path \in Names /\ TmpName(rlist[i]) \in Names
      /\ TmpName(rlist[i]) \notin Paths
    BY <1>3, ListEntry, OwnNames DEF Inv, CopyInv
<1>5. /\ rlist[i].size = 0 => disk'[rlist[i].path].mtime \in Clock \cup {rlist[i].modified}
      /\ rlist[i].size # 0 => disk'[rlist[i].path] = disk[rlist[i].path]
      /\ \A p \in Paths \ {rlist[i].path} : disk'[p] = disk[p]
    BY <1>1, <1>3, <1>4, PathsAssumption DEF Prepares, Empty
<1>6. Promised' = Promised BY <1>2, <1>3, <1>5, PromisedSame DEF SameFile
<1>7. /\ Phase = "copying" /\ Phase' = Phase /\ ToStamp' = ToStamp
    BY <1>2 DEF Phase, ToStamp, Unstamping, MirrorEntry
<1>8. Outstanding = {j \in DOMAIN rlist : j \in prep \/ rlist[j].size > 0}
      /\ Outstanding' = {j \in DOMAIN rlist : j \in prep' \/ rlist[j].size > 0}
    BY <1>2 DEF Outstanding
<1>9. CASE rlist[i].size = 0
  <2>1. i \in Outstanding /\ Outstanding' = Outstanding \ {i}
      BY <1>2, <1>3, <1>8, <1>9
  <2>2. Whole(disk[rlist[i].path], rlist[i])'
      BY <1>2, <1>3, <1>9 DEF CopyInv, Prepared, Done
  <2> DEFINE t == disk'[rlist[i].path].mtime
  <2>3. t \in Clock \cup {rlist[i].modified} BY <1>9, <1>5
  <2>4. Copied!Replace(MirrorEntry(i), t)
      BY <1>2, <1>7, <1>5, <1>6, <2>1, <2>2, Replaces
  <2>5. MirrorEntry(i).size = 0 /\ MirrorEntry(i).modified = rlist[i].modified
        /\ MirrorEntry(i) \in ToPut
      BY <1>9, <2>1 DEF MirrorEntry, ToPut
  <2> HIDE DEF t
  <2>6. Copied!PutEmpty(MirrorEntry(i)) BY <1>7, <2>3, <2>4, <2>5 DEF Copied!PutEmpty
  <2>7. QED BY <2>5, <2>6 DEF Mapped, Copied!Next
<1>10. CASE rlist[i].size # 0
  <2>1. rlist[i].size > 0 BY <1>3, <1>10, ListEntry DEF Inv, CopyInv
  <2>2. Outstanding' = Outstanding BY <1>2, <1>8, <2>1
  <2>3. ToPut' = ToPut BY <1>2, <2>2 DEF ToPut, MirrorEntry
  <2>4. Delivered' = Delivered BY <1>10, <1>5, SameFiles
  <2>5. QED BY <1>2, <1>7, <1>6, <2>3, <2>4, Unmoved
<1>11. QED BY <1>9, <1>10

\* What is left for the threads is what has not been put by then.
LEMMA ConfirmRefines ==
    ASSUME Inv, Inv', CopyInv, CopyInv', Confirm
    PROVE  Mapped
<1> USE DEF Confirm
<1>1. src' = src /\ Delivered' = Delivered /\ Phase' = Phase /\ Promised' = Promised
    BY PromisedSame DEF Delivered, Phase, SameFile
<1>2. Unstamping = {} /\ Unstamping' = {}
  <2>1. \A s \in Streams : rpc[s] # "stamp" /\ rpc'[s] # "stamp" BY DEF Inv, Idle
  <2>2. QED BY <2>1 DEF Unstamping
<1>3. Outstanding' = Outstanding
  <2>1. Outstanding = {i \in DOMAIN rlist : rlist[i].size > 0} BY DEF Outstanding
  <2>2. Outstanding' = UNION {Work(rlist, s) : s \in Streams}
      BY <1>2 DEF Outstanding
  <2>3. ASSUME NEW i \in DOMAIN rlist
        PROVE  rlist[i].size > 0 <=> \E s \in Streams : i \in Work(rlist, s)
      BY WorkOf, ListEntry DEF Inv, CopyInv
  <2>4. \A s \in Streams : Work(rlist, s) \subseteq DOMAIN rlist BY DEF Work, Bucket
  <2>5. QED BY <2>1, <2>2, <2>3, <2>4
<1>4. ToPut' = ToPut /\ ToStamp' = ToStamp BY <1>2, <1>3 DEF ToPut, ToStamp, MirrorEntry
<1>5. QED BY <1>1, <1>4, Unmoved

\* A receiver that returns with an error, or dies.
LEMMA LeaveRefines ==
    ASSUME Inv, Inv', src' = src, ReceiverLeaves("off"), disk' \in {disk, HandlesClosed}
    PROVE  Mapped
<1>1. rst' = "off" BY DEF ReceiverLeaves
<1>2. Phase' = "idle" /\ Promised' = {} BY <1>1 DEF Phase, Promised
<1>3. Delivered' = Delivered
    BY PathsAssumption, HandlesClosedSame, SameFiles DEF Inv
<1>4. QED BY <1>1, <1>2, <1>3, Left, OutOfSession

\* A receiver whose threads have all returned without an error has nothing left.
LEMMA JoinReceiverRefines ==
    ASSUME Inv, Inv', CopyInv, JoinReceiver
    PROVE  Mapped
<1> USE DEF JoinReceiver
<1>1. CASE \E s \in Streams : rpc[s] = "err" BY <1>1, LeaveRefines
<1>2. CASE \A s \in Streams : rpc[s] # "err"
  <2>1. rst = "stream" /\ rst' = "ok" BY <1>2 DEF ReceiverLeaves
  <2>2. \A s \in Streams : rleft[s] = {} BY <1>2 DEF Finished
  <2>3. Outstanding = {} /\ Unstamping = {} BY <2>1, <2>2 DEF Outstanding, Unstamping
  <2>4. ToPut = {} /\ ToStamp = {} BY <2>3 DEF ToPut, ToStamp
  <2>5. ToPut' = {} /\ ToStamp' = {} BY <2>1, OutOfSession
  <2>6. Phase = "copying" /\ Phase' = "ok" BY <2>1 DEF Phase
  <2>7. \A p \in Paths : SameFile(p)
      BY PathsAssumption, HandlesClosedSame DEF Inv, SameFile
  <2>8. Promised' = Promised BY <1>2, <2>1, <2>7, PromisedSame
  <2>9. Delivered' = Delivered BY <2>7, SameFiles DEF SameFile
  <2>10. QED BY <2>4, <2>5, <2>6, <2>8, <2>9 DEF Mapped, Copied!Next, Copied!Report
<1>3. QED BY <1>1, <1>2

\* A receiver that returns out of its accept loop leaves its threads to it.
LEMMA LoopFailsRefines ==
    ASSUME Inv, CopyInv, AcceptStray \/ \E s \in Streams : AcceptFails(s)
    PROVE  Mapped
<1>1. /\ UNCHANGED <<src, quiet, dry, rst, rlist, prep, rleft, disk>>
      /\ \A t \in Streams : (rpc'[t] = "stamp") = (rpc[t] = "stamp")
      /\ UNCHANGED <<sst, index>> \/ sst' = "off"
    BY DEF AcceptStray, AcceptFails, AcceptLoopFails
<1>2. Delivered' = Delivered /\ Phase' = Phase BY <1>1 DEF Delivered, Phase
<1>3. Unstamping' = Unstamping BY <1>1 DEF Unstamping
<1>4. ToPut' = ToPut /\ ToStamp' = ToStamp
    BY <1>1, <1>3 DEF ToPut, ToStamp, MirrorEntry, Outstanding
<1>5. CASE sst' = "off"
  <2>1. Promised' = {} BY <1>5 DEF Promised
  <2>2. QED BY <1>1, <1>2, <1>4, <2>1, Unmoved
<1>6. CASE UNCHANGED <<sst, index>>
  <2>1. Promised' = Promised BY <1>1, <1>6, PromisedSame DEF SameFile
  <2>2. QED BY <1>1, <1>2, <1>4, <2>1, Unmoved
<1>7. QED BY <1>1, <1>5, <1>6

LEMMA ReceiverMainRefines ==
    ASSUME NamesApart, EditsSeen, Inv, Inv', CopyInv, CopyInv', ReceiverMain \/ ReceiverCrash
    PROVE  Mapped
<1>1. CASE ConfirmFails \/ ProcessEnds \/ ReceiverCrash
    BY <1>1, LeaveRefines DEF ConfirmFails, ProcessEnds, ReceiverCrash
<1>2. QED BY <1>1, ListenRefines, NegotiateRefines, PrepareFileRefines, ConfirmRefines,
             JoinReceiverRefines, LoopFailsRefines DEF ReceiverMain

------------------------------------------------------------------------------
(* The receiver's threads.                                                   *)

\* File i of thread s is no other thread's; it is being stamped if s is.
LEMMA OneThread ==
    ASSUME Inv, CopyInv, rst = "stream", NEW s \in Streams, NEW i \in rleft[s]
    PROVE  /\ \A t \in Streams \ {s} : i \notin rleft[t]
           /\ i \in Unstamping <=> rpc[s] = "stamp" /\ IsNext(rlist, rleft[s], i)
<1>1. i \in DOMAIN rlist /\ \A t \in Streams : rleft[t] \subseteq Work(rlist, t)
    BY DEF Inv, TypeOK, ReceiverTypeOK, CopyInv, Written
<1>2. \A t \in Streams \ {s} : i \notin rleft[t]
    BY <1>1, WorkOf DEF Inv, CopyInv
<1>3. QED BY <1>2 DEF Unstamping

\* The steps before the file is whole.
LEMMA FillRefines ==
    ASSUME NamesApart, Inv, Inv', CopyInv, CopyInv', NEW s \in Streams,
           \/ Accept(s) \/ OpenTmp(s) \/ RecvBlock(s) \/ VerifyChunk(s) \/ RecvEof(s)
           \/ ReceiveIoError(s)
    PROVE  Mapped
<1>1. /\ UNCHANGED <<src, quiet, sst, dry, index, rst, rlist, prep, rleft>>
      /\ rpc[s] # "stamp" /\ rpc'[s] # "stamp" /\ \A t \in Streams \ {s} : rpc'[t] = rpc[t]
    BY DEF Accept, OpenTmp, RecvBlock, VerifyChunk, RecvEof, ReceiveIoError, Inv, TypeOK,
           ReceiverTypeOK
<1>2. \A p \in Paths : disk'[p] = disk[p] BY FillsTmp
<1>3. Unstamping' = Unstamping
  <2>1. \A t \in Streams : (rpc'[t] = "stamp") = (rpc[t] = "stamp") BY <1>1
  <2>2. QED BY <1>1, <2>1 DEF Unstamping
<1>4. ToPut' = ToPut /\ ToStamp' = ToStamp
    BY <1>1, <1>3 DEF ToPut, ToStamp, MirrorEntry, Outstanding
<1>5. Delivered' = Delivered BY <1>2, SameFiles
<1>6. Phase' = Phase /\ Promised' = Promised
    BY <1>1, <1>2, PromisedSame DEF Phase, SameFile
<1>7. QED BY <1>1, <1>4, <1>5, <1>6, Unmoved

\* A whole file gets its final name, unstamped.
LEMMA RenameRefines ==
    ASSUME NamesApart, Inv, Inv', CopyInv, CopyInv', NEW s \in Streams, Rename(s)
    PROVE  Mapped
<1>1. PICK i \in rleft[s], now \in Clock :
          LET p == rlist[i].path IN
          /\ IsNext(rlist, rleft[s], i)
          /\ IF disk[Tmp[p]].here
             THEN /\ rpc' = [rpc EXCEPT ![s] = "stamp"]
                  /\ disk' = [disk EXCEPT ![p] = [disk[Tmp[p]] EXCEPT !.mtime = now],
                                          ![Tmp[p]] = NoFile]
             ELSE rpc' = [rpc EXCEPT ![s] = "err"] /\ disk' = disk
    BY DEF Rename
<1>2. /\ rpc[s] = "rename"
      /\ UNCHANGED <<src, quiet, sst, dry, index, rst, rlist, prep, rleft>>
    BY DEF Rename
<1>3. rst = "stream" BY <1>2 DEF Inv, Idle
<1> DEFINE e == rlist[i]
           t == TmpName(e)
<1>4. /\ i \in DOMAIN rlist /\ t \in Names /\ t \notin Paths /\ e.path \in Paths /\ e.path \in Names
      /\ Whole(disk[t], e) /\ ~disk[t].stamped /\ disk \in [Names -> Files]
      /\ e.size \in Nat /\ e.size > 0
    BY <1>1, <1>2, <1>3, FileInHand DEF InHand
<1>5. /\ rpc'[s] = "stamp" /\ \A u \in Streams \ {s} : rpc'[u] = rpc[u]
      /\ disk'[e.path] = [disk[t] EXCEPT !.mtime = now]
      /\ \A p \in Paths \ {e.path} : disk'[p] = disk[p]
    BY <1>1, <1>4, PathsAssumption DEF Whole, TmpName, Inv, TypeOK, ReceiverTypeOK
<1>6. Phase = "copying" /\ Phase' = Phase /\ Promised' = Promised
    BY <1>2, <1>3, <1>4, <1>5, PromisedSame DEF Phase, SameFile
<1>7. Unstamping' = Unstamping \cup {i} /\ i \notin Unstamping
  <2>1. i \notin Unstamping BY <1>2, <1>3, OneThread
  <2>2. {j \in rleft[s] : rpc'[s] = "stamp" /\ IsNext(rlist, rleft[s], j)} = {i}
      BY <1>1, <1>5, NextUnique DEF Inv, TypeOK, ReceiverTypeOK
  <2>3. {j \in rleft[s] : rpc[s] = "stamp" /\ IsNext(rlist, rleft[s], j)} = {} BY <1>2
  <2>4. QED BY <1>2, <1>5, <2>1, <2>2, <2>3 DEF Unstamping
<1>8. i \in Outstanding /\ Outstanding' = Outstanding \ {i}
    BY <1>2, <1>3, <1>7 DEF Outstanding
<1>9. Whole(disk[e.path], e)' /\ disk'[e.path].mtime = now
  <2>1. disk[t] \in Files BY <1>4
  <2>2. /\ disk'[e.path].here = disk[t].here /\ disk'[e.path].data = disk[t].data
        /\ disk'[e.path].mtime = now
      BY <1>5, <2>1 DEF Files
  <2>3. QED BY <1>2, <1>4, <2>2 DEF Whole, Valid
<1>10. Copied!Replace(MirrorEntry(i), now)
    BY <1>2, <1>4, <1>5, <1>6, <1>8, <1>9, Replaces
<1>11. ToStamp' = ToStamp \cup {MirrorEntry(i)}
    BY <1>2, <1>7 DEF ToStamp, MirrorEntry
<1>12. MirrorEntry(i).size > 0 /\ MirrorEntry(i) \in ToPut
    BY <1>4, <1>8 DEF MirrorEntry, ToPut
<1>13. Copied!Put(MirrorEntry(i)) BY <1>10, <1>11, <1>12 DEF Copied!Put
<1>14. QED BY <1>12, <1>13 DEF Mapped, Copied!Next

\* It is stamped, or that fails, and its thread goes on to the next.
LEMMA StampRefines ==
    ASSUME NamesApart, Inv, Inv', CopyInv, CopyInv', NEW s \in Streams, Stamp(s) \/ StampFails(s)
    PROVE  Mapped
<1>1. PICK i \in rleft[s] : Stamps(s, i) BY StampsOne
<1>2. /\ rpc[s] = "stamp" /\ rpc' = [rpc EXCEPT ![s] = "open"]
      /\ IsNext(rlist, rleft[s], i) /\ rleft' = [rleft EXCEPT ![s] = @ \ {i}]
      /\ UNCHANGED <<src, quiet, sst, dry, index, rst, rlist, prep>>
    BY <1>1 DEF Stamps
<1>3. rst = "stream" BY <1>2 DEF Inv, Idle
<1> DEFINE e == rlist[i]
<1>4. /\ i \in DOMAIN rlist /\ e.path \in Paths /\ e.path \in Names
      /\ disk[e.path].here /\ disk \in [Names -> Files]
    BY <1>1, <1>2, <1>3, FileInHand DEF InHand, Whole
<1>5. /\ rpc'[s] = "open" /\ rleft'[s] = rleft[s] \ {i}
      /\ \A u \in Streams \ {s} : rpc'[u] = rpc[u] /\ rleft'[u] = rleft[u]
    BY <1>1, <1>2 DEF Inv, TypeOK, ReceiverTypeOK
<1>6. /\ disk'[e.path].here = disk[e.path].here /\ disk'[e.path].data = disk[e.path].data
      /\ disk' = disk \/ disk'[e.path].mtime = e.modified
      /\ \A p \in Paths \ {e.path} : disk'[p] = disk[p]
  <2>1. disk' \in {disk, [disk EXCEPT ![e.path].mtime = e.modified, ![e.path].stamped = TRUE]}
      BY <1>1 DEF Stamps
  <2>2. disk[e.path] \in Files /\ \A p \in Paths : p \in Names BY <1>4, PathsAssumption
  <2>3. CASE disk' = disk BY <2>3
  <2>4. CASE disk' = [disk EXCEPT ![e.path].mtime = e.modified, ![e.path].stamped = TRUE]
    <3> HIDE DEF e
    <3>1. QED BY <1>4, <2>2, <2>4 DEF Files
  <2>5. QED BY <2>1, <2>3, <2>4
<1>7. Phase = "copying" /\ Phase' = Phase /\ Promised' = Promised
    BY <1>2, <1>3, <1>4, <1>6, PromisedSame DEF Phase, SameFile
<1>8. i \in Unstamping /\ \A u \in Streams \ {s} : i \notin rleft[u]
    BY <1>1, <1>2, <1>3, OneThread
<1>9. Unstamping' = Unstamping \ {i}
  <2> DEFINE Now(u) == {j \in rleft[u] : rpc[u] = "stamp" /\ IsNext(rlist, rleft[u], j)}
             Then(u) == {j \in rleft'[u] : rpc'[u] = "stamp" /\ IsNext(rlist, rleft'[u], j)}
  <2>1. Now(s) = {i}
      BY <1>1, <1>2, NextUnique DEF Inv, TypeOK, ReceiverTypeOK
  <2>2. Then(s) = {} BY <1>5
  <2>3. \A u \in Streams \ {s} : Then(u) = Now(u) /\ i \notin Now(u) BY <1>5, <1>8
  <2>4. Unstamping = UNION {Now(u) : u \in Streams} BY DEF Unstamping
  <2>5. Unstamping' = UNION {Then(u) : u \in Streams} BY <1>2 DEF Unstamping
  <2> HIDE DEF Now, Then
  <2>6. QED BY <2>1, <2>2, <2>3, <2>4, <2>5
<1>10. Outstanding' = Outstanding
  <2>1. Outstanding = (UNION {rleft[u] : u \in Streams}) \ Unstamping
        /\ Outstanding' = (UNION {rleft'[u] : u \in Streams}) \ Unstamping'
      BY <1>2, <1>3 DEF Outstanding
  <2>2. UNION {rleft'[u] : u \in Streams} = (UNION {rleft[u] : u \in Streams}) \ {i}
      BY <1>5, <1>8
  <2>3. QED BY <1>8, <1>9, <2>1, <2>2
<1>11. ToPut' = ToPut BY <1>2, <1>10 DEF ToPut, MirrorEntry
<1>12. ToStamp' = ToStamp \ {MirrorEntry(i)} /\ MirrorEntry(i) \in ToStamp
  <2>1. \A j \in Unstamping : MirrorEntry(j)' = MirrorEntry(j) BY <1>2 DEF MirrorEntry
  <2>2. \A j \in Unstamping : MirrorEntry(j) = MirrorEntry(i) => j = i
      BY <1>4, InList, MappedEntries
  <2>3. QED BY <1>8, <1>9, <2>1, <2>2 DEF ToStamp
<1>13. Delivered' \in {Delivered,
                       [Delivered EXCEPT ![MirrorEntry(i).path].mtime = MirrorEntry(i).modified]}
  <2>1. CASE disk' = disk BY <2>1 DEF Delivered
  <2>2. CASE disk'[e.path].mtime = e.modified
    <3>1. MirrorEntry(i).path = e.path /\ MirrorEntry(i).modified = e.modified
        BY DEF MirrorEntry
    <3>2. Delivered \in [Paths -> Copied!Files] BY MappedFiles DEF Inv
    <3>3. \A p \in Paths : /\ Delivered[p] = [here |-> disk[p].here, data |-> disk[p].data,
                                               mtime |-> disk[p].mtime]
                            /\ Delivered'[p] = [here |-> disk'[p].here, data |-> disk'[p].data,
                                                mtime |-> disk'[p].mtime]
        BY DEF Delivered
    <3>4. Delivered'[e.path] = [Delivered[e.path] EXCEPT !.mtime = e.modified]
      <4>1. Delivered'[e.path] = [here |-> disk[e.path].here, data |-> disk[e.path].data,
                                  mtime |-> e.modified]
          BY <1>4, <1>6, <2>2, <3>3
      <4>2. Delivered[e.path] = [here |-> disk[e.path].here, data |-> disk[e.path].data,
                                 mtime |-> disk[e.path].mtime]
          BY <1>4, <3>3
      <4> HIDE DEF e
      <4>3. QED BY <4>1, <4>2
    <3>5. \A p \in Paths \ {e.path} : Delivered'[p] = Delivered[p] BY <1>6, <3>3
    <3>6. Delivered' = [p \in Paths |-> Delivered'[p]] BY DEF Delivered
    <3>7. QED BY <1>4, <3>1, <3>2, <3>4, <3>5, <3>6
  <2>3. QED BY <1>6, <2>1, <2>2
<1>14. Copied!Stamp(MirrorEntry(i))
    BY <1>2, <1>7, <1>11, <1>12, <1>13 DEF Copied!Stamp
<1>15. QED BY <1>12, <1>14 DEF Mapped, Copied!Next

------------------------------------------------------------------------------
(* The theorem.                                                              *)

LEMMA RefinesStep ==
    ASSUME NamesApart, EditsSeen, Inv, Inv', CopyInv, CopyInv', [Next]_vars
    PROVE  Mapped
<1>1. CASE SenderMain BY <1>1, SenderRefines
<1>2. CASE ReceiverMain BY <1>2, ReceiverMainRefines
<1>3. ASSUME NEW s \in Streams, SenderThread(s) PROVE Mapped BY <1>3, SenderRefines
<1>4. ASSUME NEW s \in Streams, ReceiverThread(s) PROVE Mapped
    BY <1>4, FillRefines, RenameRefines, StampRefines DEF ReceiverThread
<1>5. ASSUME NEW p \in Paths, Edit(p) PROVE Mapped BY <1>5, EditRefines
<1>6. CASE Fault
    BY <1>6, SenderRefines, ReceiverMainRefines, PrepareFileRefines, FillRefines, StampRefines
       DEF Fault
<1>7. CASE UNCHANGED vars
    BY <1>7, Unmoved DEF vars, Delivered, Phase, ToPut, ToStamp, Promised, Outstanding,
       Coincides, Unstamping, MirrorEntry
<1>8. QED BY <1>1, <1>2, <1>3, <1>4, <1>5, <1>6, <1>7 DEF Next

\* Every behaviour of the two programs is one of Mirror: each session replaces
\* each file of its list once, as a whole, and tries to set its time afterwards,
\* whether or not run_receiver has returned by then; it owes its sender what the
\* sender has indexed, but for what the skip takes for it by a coincidence of
\* times, and has paid that when it reports success (receiver.rs:480-786).
THEOREM TransferImplementsMirror ==
    ASSUME NamesApart, EditsSeen PROVE Spec => MirrorsSource
<1>1. (Inv /\ CopyInv) /\ (Inv /\ CopyInv)' /\ [Next]_vars => [Copied!Next]_(Copied!vars)
    BY RefinesStep DEF Mapped
<1>2. QED BY <1>1, RefinesInit, CopyInvAlways, PTL DEF Spec, MirrorsSource, Copied!Spec
=============================================================================
