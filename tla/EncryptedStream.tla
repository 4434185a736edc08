--------------------------- MODULE EncryptedStream ---------------------------
(***************************************************************************)
(* One connection between two EncryptedStreams (src/src/encrypted_stream.rs):*)
(* frames of a length and a sealed payload, a frame counter for writing and  *)
(* one for reading at each end, and the buffer that reads are served from.   *)
(*                                                                          *)
(* The bytes on the wire are units: two for a length, one for a tag, one for *)
(* each byte of the text.  A write puts a frame on the wire at once, since   *)
(* read_exact hides how it arrives; a cut of the connection takes away any   *)
(* part of what has not been read, and so ends it inside a length or a       *)
(* frame as well.  ChaCha20-Poly1305 is abstracted to what it promises:      *)
(* a payload opens with the nonce and the key it was sealed with, whole.     *)
(***************************************************************************)
EXTENDS Naturals, Sequences

CONSTANTS
    StreamNumbers,  \* indices of data, speedtest and benchmark streams
    MaxWrites,      \* bound: calls of write at each end
    MaxLen,         \* bound: bytes of one call of write
    MaxRead,        \* bound: the caller's buffer in one call of read
    MaxFaults       \* bound: cuts and damaged units

ASSUME BoundsAssumption ==
    /\ StreamNumbers \subseteq Nat
    /\ MaxWrites \in [{"client", "server"} -> Nat] /\ MaxLen \in Nat /\ MaxRead \in Nat \ {0} /\ MaxFaults \in Nat

VARIABLES
    kind,     \* what the connection is for
    number,   \* its stream index
    key,      \* the session key of each end
    wctr,     \* write_frame_counter
    rctr,     \* read_frame_counter
    buf, pos, \* read_buffer and read_pos
    need,     \* the payload length that a read is waiting for, or Idle
    state,    \* what read told the caller last: go on, end of stream, error
    wire,     \* units on the way from each end
    open,     \* the ends that have not closed the connection
    sent,     \* bytes each end has written; the n-th byte is n
    got,      \* bytes each end has been given by read
    faults

writeVars == <<wctr, sent>>
readVars == <<rctr, buf, pos, need, state, got>>
vars == <<kind, number, key, writeVars, readVars, wire, open, faults>>

Ends == {"client", "server"}
Peer(e) == IF e = "client" THEN "server" ELSE "client"

TagLen == 1
HeadLen == 2
MaxPayload == TagLen + MaxLen
Idle == MaxPayload + 1

\* A u32: its most significant bit and the rest.
Msb(i) == [msb |-> TRUE, low |-> i]
Plain(i) == [msb |-> FALSE, low |-> i]

\* The arguments of EncryptedStream::new at either end of each kind of
\* connection: the indices of what it writes and of what it reads.  A data stream
\* has its index on the wire and a speedtest stream has it there with the bit
\* set; a benchmark stream is like a data stream.
Low == IF kind = "control" THEN 0 ELSE IF kind = "speedtest" THEN number ELSE number + 1
WriteIndex(e) == IF e = "client" THEN Plain(Low) ELSE Msb(Low)

\* Mutant of ReadIndex: the receiver leaves the speedtest bit in the index.
BitKept(e) == IF e = "client" \/ kind = "speedtest" THEN Msb(Low) ELSE Plain(Low)
ReadIndex(e) == IF e = "client" THEN Msb(Low) ELSE Plain(Low)

\* The frame of a text: its length, and the units of its payload, each bound to
\* the nonce, the key, its place and the size of the payload.
Head2(n) == <<[len |-> n, half |-> 1], [len |-> n, half |-> 2]>>
Sealed(nonce, k, text) ==
    [i \in 1..(TagLen + Len(text)) |->
        [nonce |-> nonce, key |-> k, size |-> Len(text), at |-> i,
         val |-> IF i <= TagLen THEN 0 ELSE text[i - TagLen]]]
Frame(nonce, k, text) == Head2(TagLen + Len(text)) \o Sealed(nonce, k, text)
Damaged == [half |-> 0]

Init ==
    /\ \/ kind = "control" /\ number = 0
       \/ kind \in {"data", "speedtest"} /\ number \in StreamNumbers
    /\ key \in {k \in [Ends -> {1, 2}] : k["client"] = 1}
    /\ wctr = [e \in Ends |-> 0] /\ rctr = [e \in Ends |-> 0]
    /\ buf = [e \in Ends |-> <<>>] /\ pos = [e \in Ends |-> 0]
    /\ need = [e \in Ends |-> Idle] /\ state = [e \in Ends |-> "on"]
    /\ wire = [e \in Ends |-> <<>>] /\ open = Ends
    /\ sent = [e \in Ends |-> 0] /\ got = [e \in Ends |-> <<>>]
    /\ faults = 0

------------------------------------------------------------------------------
(* write                                                                     *)

\* Mutant of Frames: an empty write makes a frame too.
EmptyWritten(e, text) == Frame(<<WriteIndex(e), wctr[e]>>, key[e], text)

\* What write puts on the wire: nothing for an empty buffer.
Frames(e, text) ==
    IF text = <<>> THEN <<>> ELSE Frame(<<WriteIndex(e), wctr[e]>>, key[e], text)

WriteCall(e) ==
    /\ open = Ends /\ wctr[e] < MaxWrites[e]
    /\ \E n \in 0..MaxLen :
         LET frames == Frames(e, [i \in 1..n |-> sent[e] + i]) IN
         /\ frames # <<>>
         /\ wire' = [wire EXCEPT ![e] = @ \o frames]
         /\ sent' = [sent EXCEPT ![e] = @ + n]
    /\ wctr' = [wctr EXCEPT ![e] = @ + 1]
    /\ UNCHANGED <<kind, number, key, readVars, open, faults>>

\* An end that has read what was sent to it is dropped: the other one reads
\* what is on the wire, and its end.  One dropped before that, or written to
\* afterwards, resets the connection: that is a Cut.
Close(e) ==
    /\ e \in open /\ wire[Peer(e)] = <<>> /\ need[e] = Idle /\ pos[e] = Len(buf[e])
    /\ open' = open \ {e}
    /\ UNCHANGED <<kind, number, key, writeVars, readVars, wire, faults>>

------------------------------------------------------------------------------
(* read                                                                      *)

Lesser(a, b) == IF a < b THEN a ELSE b

\* Bytes of the buffer go to the caller.
Serve(e, n) ==
    /\ state[e] = "on" /\ need[e] = Idle /\ pos[e] < Len(buf[e])
    /\ LET upto == Lesser(pos[e] + n, Len(buf[e])) IN
         /\ got' = [got EXCEPT ![e] = @ \o SubSeq(buf[e], pos[e] + 1, upto)]
         /\ pos' = [pos EXCEPT ![e] = upto]
    /\ UNCHANGED <<kind, number, key, writeVars, rctr, buf, need, state, wire, open, faults>>

\* The buffer is used up: a new frame is begun.
Begun(e) ==
    /\ state[e] = "on" /\ need[e] = Idle /\ pos[e] = Len(buf[e])
    /\ buf' = [buf EXCEPT ![e] = <<>>] /\ pos' = [pos EXCEPT ![e] = 0]

AnyLength(n) == TRUE  \* mutant of LengthOk
LengthOk(n) == n >= TagLen

\* The length that two units make: the one written, or anything.
Lengths(us) == IF us \in {Head2(n) : n \in 0..MaxPayload} THEN {us[1].len} ELSE 0..MaxPayload

ReadLength(e) ==
    /\ Begun(e) /\ Len(wire[Peer(e)]) >= HeadLen
    /\ \E n \in Lengths(SubSeq(wire[Peer(e)], 1, HeadLen)) :
         IF LengthOk(n)
         THEN need' = [need EXCEPT ![e] = n] /\ UNCHANGED state
         ELSE state' = [state EXCEPT ![e] = "err"] /\ UNCHANGED need
    /\ wire' = [wire EXCEPT ![Peer(e)] = SubSeq(@, HeadLen + 1, Len(@))]
    /\ UNCHANGED <<kind, number, key, writeVars, rctr, got, open, faults>>

\* The connection has ended before a whole length: a clean end of the stream,
\* but for a reset.
ReadEnd(e) ==
    /\ Begun(e) /\ Peer(e) \notin open /\ Len(wire[Peer(e)]) < HeadLen
    /\ \E st \in {"eof"} \cup (IF faults > 0 THEN {"err"} ELSE {}) :
         state' = [state EXCEPT ![e] = st]
    /\ UNCHANGED <<kind, number, key, writeVars, rctr, need, got, wire, open, faults>>

Nonce(e) == <<ReadIndex(e), rctr[e]>>
Text(payload) == [i \in 1..(Len(payload) - TagLen) |-> payload[i + TagLen].val]
Opens(e, payload) ==
    /\ \A i \in DOMAIN payload : payload[i] # Damaged /\ "val" \in DOMAIN payload[i]
    /\ payload = Sealed(Nonce(e), key[e], Text(payload))

\* Mutants of PosAfter: the bytes already served are served again, or what does
\* not fit the caller's buffer is dropped with the frame.
ServedAgain(text, n) == 0
RestDropped(text, n) == Len(text)

\* read_pos after the first bytes of a frame went to the caller.
PosAfter(text, n) == Lesser(n, Len(text))

ReadPayload(e, n) ==
    /\ state[e] = "on" /\ need[e] # Idle /\ Len(wire[Peer(e)]) >= need[e]
    /\ LET payload == SubSeq(wire[Peer(e)], 1, need[e]) IN
         IF Opens(e, payload)
         THEN LET text == Text(payload) IN
              /\ buf' = [buf EXCEPT ![e] = text]
              /\ pos' = [pos EXCEPT ![e] = PosAfter(text, n)]
              /\ got' = [got EXCEPT ![e] = @ \o SubSeq(text, 1, Lesser(n, Len(text)))]
              /\ state' = IF text = <<>> THEN [state EXCEPT ![e] = "eof"] ELSE state
         ELSE /\ state' = [state EXCEPT ![e] = "err"]
              /\ UNCHANGED <<buf, pos, got>>
    /\ rctr' = [rctr EXCEPT ![e] = @ + 1]
    /\ need' = [need EXCEPT ![e] = Idle]
    /\ wire' = [wire EXCEPT ![Peer(e)] = SubSeq(@, need[e] + 1, Len(@))]
    /\ UNCHANGED <<kind, number, key, writeVars, open, faults>>

\* Mutant of CutPayload: the end is taken for a clean one here as well.
CutIsEnd == "eof"
\* The connection has ended inside a payload: an error.
CutPayload == "err"

ReadCut(e) ==
    /\ state[e] = "on" /\ need[e] # Idle
    /\ Peer(e) \notin open /\ Len(wire[Peer(e)]) < need[e]
    /\ state' = [state EXCEPT ![e] = CutPayload]
    /\ need' = [need EXCEPT ![e] = Idle]
    /\ UNCHANGED <<kind, number, key, writeVars, rctr, buf, pos, got, wire, open, faults>>

------------------------------------------------------------------------------
(* The network and the hosts.                                                *)

Spend == faults < MaxFaults /\ faults' = faults + 1

\* The host of e dies, or e is dropped early: any part of what it has written
\* and was not read yet never arrives.
Cut(e) ==
    /\ Spend /\ e \in open
    /\ open' = open \ {e}
    /\ \E k \in 0..Len(wire[e]) : wire' = [wire EXCEPT ![e] = SubSeq(@, 1, k)]
    /\ UNCHANGED <<kind, number, key, writeVars, readVars>>

\* A unit changes on its way, undetected below this program.
Damage(e) ==
    /\ Spend
    /\ \E k \in DOMAIN wire[e] : wire' = [wire EXCEPT ![e][k] = Damaged]
    /\ UNCHANGED <<kind, number, key, writeVars, readVars, open>>

Read(e) ==
    /\ e \in open
    /\ \/ ReadLength(e) \/ ReadEnd(e) \/ ReadCut(e)
       \/ \E n \in 1..MaxRead : Serve(e, n) \/ ReadPayload(e, n)

Next == \E e \in Ends : WriteCall(e) \/ Close(e) \/ Read(e) \/ Cut(e) \/ Damage(e)

Spec == Init /\ [][Next]_vars

\* Whoever reads goes on reading until the end or an error.
FairSpec == Spec /\ \A e \in Ends : WF_vars(Read(e))

------------------------------------------------------------------------------
\* The types of the variables; a read never waits for less than a tag, and no
\* more of a buffer is served than there is.
TypeOK ==
    /\ kind \in {"control", "data", "speedtest"} /\ number \in StreamNumbers \cup {0}
    /\ key \in [Ends -> {1, 2}] /\ open \subseteq Ends /\ faults \in 0..MaxFaults
    /\ (\A e \in Ends : wctr[e] \in 0..MaxWrites[e]) /\ rctr \in [Ends -> Nat]
    /\ buf \in [Ends -> Seq(Nat)] /\ pos \in [Ends -> Nat]
    /\ \A e \in Ends : pos[e] <= Len(buf[e])
    /\ need \in [Ends -> TagLen..Idle] /\ state \in [Ends -> {"on", "eof", "err"}]
    /\ sent \in [Ends -> Nat] /\ got \in [Ends -> Seq(Nat)]

\* What read gives its caller is what write was given, in order and without a
\* gap or a repetition, whatever the sizes of the calls, and whatever was cut
\* or damaged (encrypted_stream.rs:33-94).
InOrder ==
    \A e \in Ends :
        Len(got[e]) <= sent[Peer(e)] /\ \A i \in DOMAIN got[e] : got[e][i] = i

Unharmed == faults = 0 /\ key["client"] = key["server"]

\* Two ends with one key never refuse each other's frames, on any kind of
\* connection: their indices and their frame counters agree although neither
\* is sent (encrypted_stream.rs:69-72, 104-107; sender.rs:275, 502, 709;
\* receiver.rs:64, 320, 640; benchmark.rs:49, 151).
NoSpuriousError == Unharmed => \A e \in Ends : state[e] # "err"

\* An end of the stream is reported at the end of a frame only, so never inside
\* what one call of write was given; and when nothing was lost, everything
\* written has been read by then.  A cut inside a length is such an end too
\* (encrypted_stream.rs:48-66, 99).
EofComplete ==
    \A e \in Ends : state[e] = "eof" =>
        /\ Unharmed => Peer(e) \notin open /\ Len(got[e]) = sent[Peer(e)]
        /\ pos[e] = Len(buf[e]) /\ need[e] = Idle
        /\ \A k \in DOMAIN wire[Peer(e)] : "val" \notin DOMAIN wire[Peer(e)][k]

\* To its two users the connection is the plain pipe of bytes that it replaces:
\* a read gives nothing only at the end, which comes after the other end has
\* closed, and after all that it wrote unless something was cut or damaged; and
\* only then may a read fail (encrypted_stream.rs:31-119, 133-150).
Bytes == INSTANCE Pipe WITH harmed <- ~Unharmed
CarriesBytes == Bytes!Spec

\* Everything written is read in the end, also when it comes in pieces of other
\* sizes than it was written in: no byte stays behind in a buffer.
AllArrives == <>[](Unharmed => \A e \in Ends : Len(got[e]) = sent[Peer(e)])
==============================================================================
