------------------------ MODULE EncryptedStreamProofs ------------------------
(***************************************************************************)
(* Proofs about EncryptedStream, for any stream numbers and any sizes and  *)
(* numbers of writes, reads and faults.                                    *)
(*                                                                         *)
(* No variable remembers how the text was cut into frames, so the          *)
(* invariant says that there are offsets, off[c] the bytes written before  *)
(* frame c, with which everything fits: the units of frame c are those     *)
(* from Place(off, c) on, whatever of them is damaged or cut off; a reader *)
(* that has met no error stands at the place of the frame it is to read;   *)
(* what it was given and what is in its buffer are the bytes before that   *)
(* frame.                                                                  *)
(*                                                                         *)
(* The last part takes each step to one of Pipe: the calls that only fill  *)
(* the buffer or the wire are not seen, and Serve or the payload is a      *)
(* read.                                                                   *)
(***************************************************************************)
EXTENDS EncryptedStream, TLAPS

\* The units written before frame c; the bytes of that frame; its j-th unit.
Place(off, c) == off[c] + (HeadLen + TagLen) * c
Size(off, c) == off[c + 1] - off[c]
Unit(e, off, c, j) ==
    IF j <= HeadLen THEN [len |-> TagLen + Size(off, c), half |-> j]
    ELSE [nonce |-> <<WriteIndex(e), c>>, key |-> key[e], size |-> Size(off, c),
          at |-> j - HeadLen,
          val |-> IF j - HeadLen <= TagLen THEN 0 ELSE off[c] + (j - HeadLen - TagLen)]

\* The units that the reader at r has taken from the wire.
Taken(r, off) == Place(off, rctr[r]) + IF need[r] = Idle THEN 0 ELSE HeadLen

Offsets == [Nat -> Nat]
Cuts(e, off) ==
    /\ off[0] = 0 /\ off[wctr[e]] = sent[e]
    /\ \A a, b \in 0..wctr[e] : a < b => off[a] < off[b]
    /\ \A c \in 0..(wctr[e] - 1) : off[c + 1] <= off[c] + MaxLen

\* What the reader at r has of the bytes that e has written.
Given(e, r, off) ==
    /\ Len(got[r]) <= sent[e] /\ \A i \in DOMAIN got[r] : got[r][i] = i
    /\ state[r] # "err" =>
         /\ rctr[r] <= wctr[e] /\ (need[r] # Idle => pos[r] = Len(buf[r]))
         /\ Len(got[r]) + Len(buf[r]) = off[rctr[r]] + pos[r]
         /\ \A i \in DOMAIN buf[r] : buf[r][i] + Len(buf[r]) = off[rctr[r]] + i

\* What is on the wire between the frames the reader at r has taken and the last
\* one written.
Shown(e, r, off) ==
    /\ Taken(r, off) + Len(wire[e]) <= Place(off, wctr[e])
    /\ open = Ends \/ faults = 0 => Taken(r, off) + Len(wire[e]) = Place(off, wctr[e])
    /\ \A c \in 0..(wctr[e] - 1) : \A j \in 1..(HeadLen + TagLen + Size(off, c)) :
         \A k \in DOMAIN wire[e] : Taken(r, off) + k = Place(off, c) + j =>
            wire[e][k] = Unit(e, off, c, j) \/ (faults > 0 /\ wire[e][k] = Damaged)

\* It is there as long as it is read.
Fits(e, r, off) ==
    state[r] = "on" =>
        /\ Shown(e, r, off)
        /\ faults = 0 /\ need[r] # Idle => need[r] = TagLen + Size(off, rctr[r])

\* The reader at r has met the end, and without a fault no error.
Ended(e, r) ==
    /\ state[r] = "eof" =>
         /\ e \notin open /\ pos[r] = Len(buf[r]) /\ need[r] = Idle
         /\ \A k \in DOMAIN wire[e] : "val" \notin DOMAIN wire[e][k]
         /\ faults = 0 => Len(got[r]) = sent[e]
    /\ Unharmed => state[r] # "err"

Link(e, off) ==
    /\ Cuts(e, off) /\ Given(e, Peer(e), off) /\ Fits(e, Peer(e), off)
    /\ Ended(e, Peer(e))

\* The units that may be on a wire.
Indices == [msb : BOOLEAN, low : Nat]
Units ==
    {Damaged} \cup [len : Nat, half : {1, 2}]
    \cup [nonce : Indices \X Nat, key : {1, 2}, size : Nat, at : Nat, val : Nat]

Typed == TypeOK /\ wctr \in [Ends -> Nat] /\ wire \in [Ends -> Seq(Units)]

StreamInv ==
    /\ Typed
    /\ \A e \in Ends : \E off \in Offsets : Link(e, off)
------------------------------------------------------------------------------
(* Ends, frames and places.                                                  *)

\* The two ends, and that the index one writes under is what the other expects.
LEMMA PeerFacts ==
    ASSUME NEW e \in Ends
    PROVE  /\ Peer(e) \in Ends /\ Peer(Peer(e)) = e /\ Peer(e) # e
           /\ Ends = {e, Peer(e)} /\ ReadIndex(Peer(e)) = WriteIndex(e)
BY DEF Ends, Peer, ReadIndex, WriteIndex

\* Appending one sequence to another.
LEMMA AppendFacts ==
    ASSUME NEW S, NEW s \in Seq(S), NEW t \in Seq(S)
    PROVE  /\ s \o t \in Seq(S) /\ Len(s \o t) = Len(s) + Len(t)
           /\ \A i \in 1..Len(s) : (s \o t)[i] = s[i]
           /\ \A i \in 1..Len(t) : (s \o t)[Len(s) + i] = t[i]
           /\ DOMAIN s = 1..Len(s) /\ DOMAIN t = 1..Len(t) /\ DOMAIN (s \o t) = 1..(Len(s) + Len(t))
           /\ Len(s) \in Nat /\ Len(t) \in Nat
OBVIOUS

\* The first m elements of a sequence, and those after them.
LEMMA SplitFacts ==
    ASSUME NEW S, NEW s \in Seq(S), NEW m \in 0..Len(s)
    PROVE  /\ SubSeq(s, 1, m) \in Seq(S) /\ Len(SubSeq(s, 1, m)) = m
           /\ \A i \in 1..m : SubSeq(s, 1, m)[i] = s[i]
           /\ SubSeq(s, m + 1, Len(s)) \in Seq(S) /\ Len(SubSeq(s, m + 1, Len(s))) = Len(s) - m
           /\ \A i \in 1..(Len(s) - m) : SubSeq(s, m + 1, Len(s))[i] = s[i + m]
           /\ DOMAIN s = 1..Len(s) /\ DOMAIN SubSeq(s, 1, m) = 1..m
           /\ DOMAIN SubSeq(s, m + 1, Len(s)) = 1..(Len(s) - m)
           /\ Len(s) \in Nat
BY SMTT(30)

\* The elements of a sequence after the a-th, up to the b-th.
LEMMA MiddleFacts ==
    ASSUME NEW S, NEW s \in Seq(S), NEW a \in Nat, NEW b \in Nat, a <= b, b <= Len(s)
    PROVE  /\ SubSeq(s, a + 1, b) \in Seq(S) /\ Len(SubSeq(s, a + 1, b)) = b - a
           /\ \A i \in 1..(b - a) : SubSeq(s, a + 1, b)[i] = s[a + i]
OBVIOUS

\* With g bytes given, b of them or of the next ones in the buffer and p of these
\* served, the bytes up to place u of the buffer are the next to give.
LEMMA Sums ==
    ASSUME NEW g \in Nat, NEW b \in Nat, NEW o \in Nat, NEW p \in Nat, g + b = o + p
    PROVE  \A u, s \in Nat : p <= u /\ u <= b /\ o <= s =>
             (g + (u - p)) + b = o + u /\ g + (u - p) <= s
OBVIOUS

\* A frame has at least one byte, and the frames are on the wire one after
\* another.
LEMMA Places ==
    ASSUME NEW e \in Ends, NEW off \in Offsets, Cuts(e, off), wctr[e] \in Nat
    PROVE  /\ \A c \in Nat : Place(off, c) \in Nat /\ off[c] \in Nat
           /\ \A c \in 0..(wctr[e] - 1) :
                /\ c \in Nat /\ c + 1 \in 0..wctr[e]
                /\ Size(off, c) \in 1..MaxLen /\ off[c + 1] = off[c] + Size(off, c)
                /\ Place(off, c + 1) = Place(off, c) + HeadLen + TagLen + Size(off, c)
                /\ Place(off, c + 1) <= Place(off, wctr[e])
           /\ \A c \in 0..wctr[e] : off[c] <= sent[e] /\ Place(off, c) <= Place(off, wctr[e])
<1> USE BoundsAssumption DEF HeadLen, TagLen, Place, Size
<1>1. \A c \in Nat : Place(off, c) \in Nat /\ off[c] \in Nat
  BY DEF Offsets
<1>2. ASSUME NEW c \in 0..wctr[e] PROVE off[c] <= off[wctr[e]] /\ off[c] \in Nat /\ off[wctr[e]] \in Nat
  <2>1. c = wctr[e] \/ c < wctr[e]
    OBVIOUS
  <2>2. c \in Nat /\ off[c] \in Nat /\ off[wctr[e]] \in Nat
    BY <1>1
  <2>3. c < wctr[e] => off[c] < off[wctr[e]]
    BY DEF Cuts
  <2> QED BY <2>1, <2>2, <2>3
<1>3. ASSUME NEW c \in 0..(wctr[e] - 1)
      PROVE  /\ c \in Nat /\ c + 1 \in 0..wctr[e]
             /\ Size(off, c) \in 1..MaxLen /\ off[c + 1] = off[c] + Size(off, c)
             /\ Place(off, c + 1) = Place(off, c) + HeadLen + TagLen + Size(off, c)
             /\ Place(off, c + 1) <= Place(off, wctr[e])
  <2>1. c \in 0..wctr[e] /\ c + 1 \in 0..wctr[e] /\ c < c + 1 /\ c \in Nat
    OBVIOUS
  <2>2. off[c] < off[c + 1] /\ off[c + 1] <= off[c] + MaxLen
    BY <2>1 DEF Cuts
  <2>3. off[c] \in Nat /\ off[c + 1] \in Nat
    BY <1>1, <2>1
  <2>4. off[c + 1] <= off[wctr[e]] /\ off[wctr[e]] \in Nat
    BY <1>2, <2>1
  <2> QED BY <2>1, <2>2, <2>3, <2>4
<1>4. ASSUME NEW c \in 0..wctr[e] PROVE off[c] <= sent[e] /\ Place(off, c) <= Place(off, wctr[e])
  BY <1>2, <1>4 DEF Cuts
<1> QED BY <1>1, <1>3, <1>4

\* What one call of write puts on the wire are the units of its frame.
LEMMA FrameUnits ==
    ASSUME NEW e \in Ends, NEW off \in Offsets, NEW c \in Nat, NEW n \in Nat, NEW text \in Seq(Nat),
           off[c + 1] = off[c] + n, key[e] \in {1, 2}, WriteIndex(e) \in Indices,
           Len(text) = n, \A i \in 1..n : text[i] = off[c] + i
    PROVE  LET f == Frame(<<WriteIndex(e), c>>, key[e], text) IN
           /\ f \in Seq(Units) /\ Len(f) = HeadLen + TagLen + n
           /\ \A j \in 1..(HeadLen + TagLen + n) : f[j] = Unit(e, off, c, j)
<1> USE DEF HeadLen, TagLen
<1>0. off[c] \in Nat /\ Size(off, c) = n
  BY DEF Offsets, Size
<1> DEFINE h == Head2(1 + n)
           p == Sealed(<<WriteIndex(e), c>>, key[e], text)
<1>1. h \in Seq(Units) /\ Len(h) = 2 /\ \A j \in 1..2 : h[j] = Unit(e, off, c, j)
  <2>1. [len |-> 1 + n, half |-> 1] \in Units /\ [len |-> 1 + n, half |-> 2] \in Units
    BY DEF Units
  <2>2. h[1] = [len |-> 1 + n, half |-> 1] /\ h[2] = [len |-> 1 + n, half |-> 2]
    BY DEF Head2
  <2>3. \A j \in 1..2 : Unit(e, off, c, j) = [len |-> 1 + n, half |-> j]
    BY <1>0 DEF Unit
  <2>4. \A j \in 1..2 : j = 1 \/ j = 2
    OBVIOUS
  <2>5. h \in Seq(Units) /\ Len(h) = 2
    BY <2>1 DEF Head2
  <2> HIDE DEF h
  <2> QED BY <2>2, <2>3, <2>4, <2>5
<1>2. /\ p \in Seq(Units) /\ Len(p) = 1 + n
      /\ \A j \in 1..(1 + n) : p[j] = Unit(e, off, c, 2 + j)
  <2> DEFINE u(j) == [nonce |-> <<WriteIndex(e), c>>, key |-> key[e], size |-> n, at |-> j,
                      val |-> IF j <= 1 THEN 0 ELSE text[j - 1]]
  <2>1. p = [j \in 1..(1 + n) |-> u(j)]
    BY DEF Sealed
  <2>2. ASSUME NEW j \in 1..(1 + n) PROVE u(j) \in Units /\ u(j) = Unit(e, off, c, 2 + j)
    <3>1. (IF j <= 1 THEN 0 ELSE text[j - 1]) = IF j <= 1 THEN 0 ELSE off[c] + (j - 1)
      OBVIOUS
    <3>2. (IF j <= 1 THEN 0 ELSE off[c] + (j - 1)) \in Nat
      BY <1>0
    <3>3. u(j) \in [nonce : Indices \X Nat, key : {1, 2}, size : Nat, at : Nat, val : Nat]
      BY <3>1, <3>2
    <3>4. (2 + j) - 2 = j /\ ~(2 + j <= 2)
      OBVIOUS
    <3>5. Unit(e, off, c, 2 + j) = [nonce |-> <<WriteIndex(e), c>>, key |-> key[e], size |-> n,
               at |-> j, val |-> IF j <= 1 THEN 0 ELSE off[c] + (j - 1)]
      BY <1>0, <3>4 DEF Unit
    <3> QED BY <3>1, <3>3, <3>5 DEF Units
  <2> HIDE DEF p, u
  <2> QED BY <2>1, <2>2
<1> HIDE DEF h, p
<1>3. h \o p \in Seq(Units) /\ Len(h \o p) = 3 + n
      /\ (\A j \in 1..2 : (h \o p)[j] = h[j])
      /\ \A j \in 1..(1 + n) : (h \o p)[2 + j] = p[j]
  <2>1. h \in Seq(Units) /\ p \in Seq(Units) /\ Len(h) = 2 /\ Len(p) = 1 + n
    BY <1>1, <1>2
  <2> HIDE DEF HeadLen, TagLen
  <2>2. \A s, t \in Seq(Units) :
          s \o t \in Seq(Units) /\ Len(s \o t) = Len(s) + Len(t)
          /\ (\A i \in 1..Len(s) : (s \o t)[i] = s[i])
          /\ \A i \in 1..Len(t) : (s \o t)[Len(s) + i] = t[i]
    BY AppendFacts
  <2>3. h \o p \in Seq(Units) /\ Len(h \o p) = Len(h) + Len(p)
        /\ (\A i \in 1..Len(h) : (h \o p)[i] = h[i])
        /\ \A i \in 1..Len(p) : (h \o p)[Len(h) + i] = p[i]
    BY <2>1, <2>2, Zenon
  <2>4. 2 + (1 + n) = 3 + n
    OBVIOUS
  <2> QED BY <2>1, <2>3, <2>4, Zenon
<1>4. ASSUME NEW j \in 1..(3 + n) PROVE (h \o p)[j] = Unit(e, off, c, j)
  <2>1. CASE j \in 1..2
    BY <1>1, <1>3, <2>1
  <2>2. CASE j \notin 1..2
    <3>1. j - 2 \in 1..(1 + n) /\ 2 + (j - 2) = j
      BY <2>2
    <3>2. (h \o p)[2 + (j - 2)] = p[j - 2] /\ p[j - 2] = Unit(e, off, c, 2 + (j - 2))
      BY <1>2, <1>3, <3>1
    <3> QED BY <3>1, <3>2
  <2> QED BY <2>1, <2>2
<1>5. Frame(<<WriteIndex(e), c>>, key[e], text) = h \o p
  BY DEF Frame, h, p
<1>6. HeadLen + TagLen + n = 3 + n
  OBVIOUS
<1> HIDE DEF HeadLen, TagLen
<1> QED BY <1>3, <1>4, <1>5, <1>6, Zenon
\* A link goes on as it is when nothing of it changes but the ends that are open
\* and the faults.
LEMMA LinkSame ==
    ASSUME NEW e \in Ends, NEW off \in Offsets, Link(e, off),
           UNCHANGED <<kind, number, key>>, open \subseteq Ends, open' \subseteq open,
           faults \in Nat, faults' \in Nat, faults <= faults',
           wctr'[e] = wctr[e], sent'[e] = sent[e], wire'[e] = wire[e],
           rctr'[Peer(e)] = rctr[Peer(e)], need'[Peer(e)] = need[Peer(e)],
           buf'[Peer(e)] = buf[Peer(e)], pos'[Peer(e)] = pos[Peer(e)],
           state'[Peer(e)] = state[Peer(e)], got'[Peer(e)] = got[Peer(e)]
    PROVE  Link(e, off)'
<1> DEFINE r == Peer(e)
<1>1. Cuts(e, off)' /\ Given(e, r, off)'
  BY DEF Cuts, Given, Link
<1>2. \A c, j : Unit(e, off, c, j)' = Unit(e, off, c, j)
  BY DEF Unit, WriteIndex, Low, Plain, Msb, Size
<1>3. Taken(r, off)' = Taken(r, off)
  BY DEF Taken, Place, Idle, MaxPayload
<1>4. open' = Ends \/ faults' = 0 => open = Ends \/ faults = 0
  <2>1. open' = Ends => open = Ends
    BY Zenon
  <2>2. faults' = 0 => faults = 0
    OBVIOUS
  <2> QED BY <2>1, <2>2
<1>5. faults > 0 => faults' > 0
  OBVIOUS
<1>6. Shown(e, r, off) => Shown(e, r, off)'
  BY <1>2, <1>3, <1>4, <1>5 DEF Shown, Place, Size
<1>7. faults' = 0 => faults = 0
  OBVIOUS
<1>8. Fits(e, r, off)'
  BY <1>6, <1>7 DEF Fits, Link, Size, Idle, MaxPayload
<1>9. Unharmed' => Unharmed
  BY <1>7 DEF Unharmed
<1>10. Ended(e, r)'
  BY <1>7, <1>9 DEF Ended, Link, Idle, MaxPayload
<1> QED BY <1>1, <1>8, <1>10 DEF Link
------------------------------------------------------------------------------
(* What a reader finds on the wire.                                          *)

\* Where the reader at r stands: within the frames written, and before the last
\* of them whenever there is anything more on the wire.
LEMMA Standing ==
    ASSUME TypeOK, NEW e \in Ends, NEW r \in Ends, NEW off \in Offsets,
           Cuts(e, off), Given(e, r, off), Shown(e, r, off), state[r] = "on",
           wire[e] \in Seq(Units)
    PROVE  /\ rctr[r] \in 0..wctr[e] /\ wctr[e] \in Nat /\ Len(wire[e]) \in Nat
           /\ Place(off, rctr[r]) \in Nat
           /\ Len(wire[e]) > 0 \/ need[r] # Idle => rctr[r] \in 0..(wctr[e] - 1)
<1>1. rctr[r] \in 0..wctr[e] /\ wctr[e] \in Nat /\ Len(wire[e]) \in Nat
  BY DEF TypeOK, Given
<1>2. Place(off, rctr[r]) \in Nat
  BY <1>1, Places
<1>3. ASSUME Len(wire[e]) > 0 \/ need[r] # Idle PROVE rctr[r] # wctr[e]
  <2>1. Place(off, rctr[r]) + (IF need[r] = Idle THEN 0 ELSE HeadLen) + Len(wire[e]) <= Place(off, wctr[e])
    BY DEF Shown, Taken
  <2>2. Place(off, rctr[r]) < Place(off, wctr[e])
    <3>1. CASE need[r] = Idle
      <4>1. Len(wire[e]) > 0
        BY <1>3, <3>1
      <4>2. Place(off, wctr[e]) \in Nat
        BY <1>1, Places
      <4> QED BY <1>1, <1>2, <2>1, <3>1, <4>1, <4>2
    <3>2. CASE need[r] # Idle
      <4>2. Place(off, wctr[e]) \in Nat
        BY <1>1, Places
      <4> QED BY <1>1, <1>2, <2>1, <3>2, <4>2 DEF HeadLen
    <3> QED BY <3>1, <3>2
  <2> QED BY <2>2, <1>2
<1>4. Len(wire[e]) > 0 \/ need[r] # Idle => rctr[r] \in 0..(wctr[e] - 1)
  BY <1>1, <1>3
<1> QED BY <1>1, <1>2, <1>4

\* What the k-th unit on the wire is.
LEMMA UnitShown ==
    ASSUME TypeOK, NEW e \in Ends, NEW r \in Ends, NEW off \in Offsets,
           Cuts(e, off), Given(e, r, off), Shown(e, r, off), state[r] = "on",
           wire[e] \in Seq(Units), NEW k \in DOMAIN wire[e],
           NEW j \in 1..(HeadLen + TagLen + Size(off, rctr[r])),
           j = k + IF need[r] = Idle THEN 0 ELSE HeadLen
    PROVE  wire[e][k] = Unit(e, off, rctr[r], j) \/ (faults > 0 /\ wire[e][k] = Damaged)
<1>1. Len(wire[e]) > 0 /\ k \in Nat
  OBVIOUS
<1>2. rctr[r] \in 0..(wctr[e] - 1) /\ Place(off, rctr[r]) \in Nat
  BY <1>1, Standing
<1>3. Taken(r, off) + k = Place(off, rctr[r]) + j
  BY <1>1, <1>2 DEF Taken, HeadLen
<1> QED BY <1>2, <1>3 DEF Shown

\* What a reader opens is the whole next frame, and its text the bytes of that.
LEMMA OpensFacts ==
    ASSUME TypeOK, NEW e \in Ends, NEW r \in Ends, NEW off \in Offsets,
           Cuts(e, off), Given(e, r, off), Shown(e, r, off), state[r] = "on",
           wire[e] \in Seq(Units), need[r] # Idle, Len(wire[e]) >= need[r],
           Opens(r, SubSeq(wire[e], 1, need[r]))
    PROVE  /\ rctr[r] \in 0..(wctr[e] - 1) /\ need[r] = TagLen + Size(off, rctr[r])
           /\ LET text == Text(SubSeq(wire[e], 1, need[r])) IN
              /\ text \in Seq(Nat) /\ Len(text) = Size(off, rctr[r])
              /\ \A i \in 1..Len(text) : text[i] = off[rctr[r]] + i
<1> DEFINE c == rctr[r]
           p == SubSeq(wire[e], 1, need[r])
<1>1. /\ c \in 0..(wctr[e] - 1) /\ wctr[e] \in Nat /\ c \in Nat
      /\ need[r] \in Nat /\ need[r] >= 1 /\ Len(wire[e]) \in Nat
  <2>1. c \in 0..(wctr[e] - 1) /\ wctr[e] \in Nat /\ Len(wire[e]) \in Nat
    BY Standing
  <2>2. need[r] \in TagLen..Idle
    BY DEF TypeOK
  <2>3. Idle \in Nat
    BY BoundsAssumption DEF Idle, MaxPayload, TagLen
  <2> QED BY <2>1, <2>2, <2>3 DEF TagLen
<1>2. Size(off, c) \in 1..MaxLen /\ off[c] \in Nat
  BY <1>1, Places
<1>3. /\ p \in Seq(Units) /\ Len(p) = need[r] /\ DOMAIN p = 1..need[r]
      /\ \A i \in 1..need[r] : p[i] = wire[e][i]
  <2>1. need[r] \in 0..Len(wire[e])
    BY <1>1
  <2>2. \A s \in Seq(Units) : \A m \in 0..Len(s) :
          SubSeq(s, 1, m) \in Seq(Units) /\ Len(SubSeq(s, 1, m)) = m
          /\ DOMAIN SubSeq(s, 1, m) = 1..m /\ \A i \in 1..m : SubSeq(s, 1, m)[i] = s[i]
    BY SplitFacts
  <2> QED BY <2>1, <2>2, Zenon
<1> HIDE DEF p
<1>4. /\ \A i \in 1..need[r] : p[i] # Damaged
      /\ p = Sealed(Nonce(r), key[r], Text(p))
  BY <1>3, Zenon DEF Opens, p
<1>5. Text(p) = [i \in 1..(need[r] - TagLen) |-> p[i + TagLen].val]
  BY <1>3 DEF Text
<1>6. Len(Text(p)) = need[r] - 1
  BY <1>1, <1>5 DEF TagLen
<1>7. p[1].size = need[r] - 1
  BY <1>1, <1>3, <1>4, <1>6 DEF Sealed, TagLen
<1>8. ASSUME NEW i \in 1..need[r], i + 2 \in 1..(HeadLen + TagLen + Size(off, c))
      PROVE  p[i] = Unit(e, off, c, i + 2)
  <2>1. i \in DOMAIN wire[e]
    BY <1>1
  <2>2. i + 2 = i + IF need[r] = Idle THEN 0 ELSE HeadLen
    BY DEF HeadLen
  <2>3. wire[e][i] = Unit(e, off, c, i + 2) \/ wire[e][i] = Damaged
    BY <1>8, <2>1, <2>2, UnitShown
  <2> QED BY <1>3, <1>4, <2>3
<1>9. Size(off, c) = need[r] - 1
  <2>1. p[1] = Unit(e, off, c, 1 + 2)
    BY <1>1, <1>2, <1>8 DEF HeadLen, TagLen
  <2>2. Unit(e, off, c, 1 + 2).size = Size(off, c)
    BY DEF Unit, HeadLen
  <2> QED BY <1>7, <2>1, <2>2
<1>10. ASSUME NEW i \in 1..Size(off, c) PROVE p[i + 1].val = off[c] + i
  <2>1. i + 1 \in 1..need[r] /\ (i + 1) + 2 \in 1..(HeadLen + TagLen + Size(off, c)) /\ i \in Nat
    BY <1>1, <1>2, <1>9 DEF HeadLen, TagLen
  <2>2. p[i + 1] = Unit(e, off, c, (i + 1) + 2)
    BY <1>8, <2>1
  <2>3. ASSUME NEW j \in Nat, j = (i + 1) + 2 PROVE Unit(e, off, c, j).val = off[c] + i
    <3>1. ~(j <= HeadLen) /\ ~(j - HeadLen <= TagLen) /\ off[c] + (j - HeadLen - TagLen) = off[c] + i
      BY <1>2, <2>3 DEF HeadLen, TagLen
    <3>2. Unit(e, off, c, j) =
          [nonce |-> <<WriteIndex(e), c>>, key |-> key[e], size |-> Size(off, c),
           at |-> j - HeadLen, val |-> off[c] + (j - HeadLen - TagLen)]
      BY <3>1, Zenon DEF Unit
    <3> QED BY <3>1, <3>2
  <2> QED BY <2>1, <2>2, <2>3
<1>11. Text(p) \in Seq(Nat) /\ Len(Text(p)) = Size(off, c)
       /\ \A i \in 1..Len(Text(p)) : Text(p)[i] = off[c] + i
  <2>1. Text(p) = [i \in 1..Size(off, c) |-> p[i + 1].val]
    BY <1>5, <1>9 DEF TagLen
  <2>2. \A i \in 1..Size(off, c) : p[i + 1].val = off[c] + i /\ off[c] + i \in Nat
    BY <1>2, <1>10
  <2>3. \A n \in Nat : \A f \in [1..n -> Nat] : f \in Seq(Nat) /\ Len(f) = n
    OBVIOUS
  <2>4. Text(p) \in [1..Size(off, c) -> Nat] /\ Size(off, c) \in Nat
    BY <1>2, <2>1, <2>2
  <2>5. Text(p) \in Seq(Nat) /\ Len(Text(p)) = Size(off, c)
    BY <2>3, <2>4, Zenon
  <2>6. \A i \in 1..Size(off, c) : Text(p)[i] = off[c] + i
    BY <2>1, <2>2, Zenon
  <2> QED BY <2>5, <2>6, Zenon
<1>12. need[r] = TagLen + Size(off, c)
  BY <1>1, <1>9 DEF TagLen
<1> QED BY <1>1, <1>11, <1>12, Zenon DEF p
\* Without a fault and with one key the next payload opens once it is whole.
LEMMA WholeOpens ==
    ASSUME TypeOK, NEW e \in Ends, NEW r \in Ends, r = Peer(e), NEW off \in Offsets,
           Cuts(e, off), Given(e, r, off), Shown(e, r, off), state[r] = "on",
           wire[e] \in Seq(Units), need[r] # Idle, Len(wire[e]) >= need[r],
           faults = 0, key[r] = key[e], need[r] = TagLen + Size(off, rctr[r])
    PROVE  Opens(r, SubSeq(wire[e], 1, need[r]))
<1> DEFINE c == rctr[r]
           p == SubSeq(wire[e], 1, need[r])
<1>1. /\ c \in 0..(wctr[e] - 1) /\ wctr[e] \in Nat /\ c \in Nat /\ Len(wire[e]) \in Nat
  BY Standing
<1>2. Size(off, c) \in 1..MaxLen /\ off[c] \in Nat
  BY <1>1, Places
<1>3. need[r] \in Nat /\ need[r] >= 2 /\ need[r] = 1 + Size(off, c)
  BY <1>2, BoundsAssumption DEF TagLen
<1>4. /\ p \in Seq(Units) /\ Len(p) = need[r] /\ DOMAIN p = 1..need[r]
      /\ \A i \in 1..need[r] : p[i] = wire[e][i]
  <2>1. need[r] \in 0..Len(wire[e])
    BY <1>1, <1>3
  <2>2. \A s \in Seq(Units) : \A m \in 0..Len(s) :
          SubSeq(s, 1, m) \in Seq(Units) /\ Len(SubSeq(s, 1, m)) = m
          /\ DOMAIN SubSeq(s, 1, m) = 1..m /\ \A i \in 1..m : SubSeq(s, 1, m)[i] = s[i]
    BY SplitFacts
  <2> QED BY <2>1, <2>2, Zenon
<1> HIDE DEF p
<1> DEFINE u(i) == [nonce |-> Nonce(r), key |-> key[r], size |-> need[r] - 1, at |-> i,
                    val |-> IF i <= TagLen THEN 0 ELSE off[c] + (i - TagLen)]
<1>5. ASSUME NEW i \in 1..need[r] PROVE p[i] = u(i)
  <2>1. i \in DOMAIN wire[e] /\ i \in Nat
    BY <1>1, <1>3
  <2>2. ASSUME NEW j \in Nat, j = i + 2 PROVE p[i] = u(i)
    <3>1. j \in 1..(HeadLen + TagLen + Size(off, c)) /\ j = i + IF need[r] = Idle THEN 0 ELSE HeadLen
      BY <1>2, <1>3, <2>2 DEF HeadLen, TagLen
    <3>2. wire[e][i] = Unit(e, off, c, j)
      BY <2>1, <3>1, UnitShown
    <3>3. ~(j <= HeadLen) /\ j - HeadLen = i /\ Size(off, c) = need[r] - 1
      BY <1>2, <1>3, <2>1, <2>2 DEF HeadLen
    <3>4. <<WriteIndex(e), c>> = Nonce(r)
      BY PeerFacts DEF Nonce
    <3>5. Unit(e, off, c, j) = u(i)
      BY <3>3, <3>4, Zenon DEF Unit
    <3> QED BY <1>4, <3>2, <3>5
  <2> QED BY <2>1, <2>2
<1>6. ASSUME NEW i \in 1..need[r] PROVE p[i] # Damaged /\ "val" \in DOMAIN p[i]
  <2>1. \A n, k, s, a, v : [nonce |-> n, key |-> k, size |-> s, at |-> a, val |-> v] # Damaged
    BY DEF Damaged
  <2>2. \A n, k, s, a, v : "val" \in DOMAIN [nonce |-> n, key |-> k, size |-> s, at |-> a, val |-> v]
    OBVIOUS
  <2>3. u(i) # Damaged
    BY <2>1, Zenon
  <2>4. "val" \in DOMAIN u(i)
    BY <2>2, Zenon
  <2> HIDE DEF u
  <2> QED BY <1>5, <2>3, <2>4, Zenon
<1>7. Text(p) = [i \in 1..(need[r] - TagLen) |-> p[i + TagLen].val] /\ Len(Text(p)) = need[r] - 1
  BY <1>3, <1>4 DEF Text, TagLen
<1>8. ASSUME NEW i \in 1..need[r]
      PROVE  (IF i <= TagLen THEN 0 ELSE Text(p)[i - TagLen])
             = IF i <= TagLen THEN 0 ELSE off[c] + (i - TagLen)
  <2>1. CASE i <= TagLen
    BY <2>1
  <2>2. CASE ~(i <= TagLen)
    <3>1. i - TagLen \in 1..(need[r] - TagLen) /\ (i - TagLen) + TagLen = i
      BY <1>3, <2>2 DEF TagLen
    <3>2. Text(p)[i - TagLen] = p[i].val
      BY <1>7, <3>1
    <3> DEFINE v == IF i <= TagLen THEN 0 ELSE off[c] + (i - TagLen)
    <3>3. p[i] = [nonce |-> Nonce(r), key |-> key[r], size |-> need[r] - 1, at |-> i, val |-> v]
      BY <1>5
    <3>4. v = off[c] + (i - TagLen)
      BY <2>2
    <3> HIDE DEF v
    <3> QED BY <2>2, <3>2, <3>3, <3>4
  <2> QED BY <2>1, <2>2
<1>9. p = Sealed(Nonce(r), key[r], Text(p))
  <2>1. TagLen + Len(Text(p)) = need[r] /\ Len(Text(p)) = need[r] - 1
    BY <1>3, <1>7 DEF TagLen
  <2>2. Sealed(Nonce(r), key[r], Text(p)) =
          [i \in 1..need[r] |-> [nonce |-> Nonce(r), key |-> key[r], size |-> need[r] - 1, at |-> i,
              val |-> IF i <= TagLen THEN 0 ELSE Text(p)[i - TagLen]]]
    BY <2>1, Zenon DEF Sealed
  <2>3. Sealed(Nonce(r), key[r], Text(p)) = [i \in 1..need[r] |-> u(i)]
    BY <1>8, <2>2, Zenon
  <2>4. p = [i \in 1..need[r] |-> p[i]]
    BY <1>4
  <2> HIDE DEF u
  <2> QED BY <1>5, <2>3, <2>4, Zenon
<1>10. \A i \in DOMAIN p : p[i] # Damaged /\ "val" \in DOMAIN p[i]
  BY <1>4, <1>6
<1> QED BY <1>9, <1>10, Zenon DEF Opens, p

\* Without a fault a length is read as it was written.
LEMMA HeadRead ==
    ASSUME TypeOK, NEW e \in Ends, NEW r \in Ends, NEW off \in Offsets,
           Cuts(e, off), Given(e, r, off), Shown(e, r, off), state[r] = "on",
           wire[e] \in Seq(Units), need[r] = Idle, Len(wire[e]) >= HeadLen, faults = 0
    PROVE  Lengths(SubSeq(wire[e], 1, HeadLen)) = {TagLen + Size(off, rctr[r])}
           /\ Size(off, rctr[r]) \in 1..MaxLen
<1> DEFINE c == rctr[r]
           us == SubSeq(wire[e], 1, HeadLen)
           n == TagLen + Size(off, c)
<1>1. /\ c \in 0..(wctr[e] - 1) /\ wctr[e] \in Nat /\ c \in Nat /\ Len(wire[e]) \in Nat
  BY Standing DEF HeadLen
<1>2. Size(off, c) \in 1..MaxLen /\ off[c] \in Nat
  BY <1>1, Places
<1>3. n \in 0..MaxPayload
  BY <1>2, BoundsAssumption DEF MaxPayload, TagLen
<1>4. us \in Seq(Units) /\ Len(us) = 2 /\ us[1] = wire[e][1] /\ us[2] = wire[e][2]
  <2>1. 2 \in 0..Len(wire[e]) /\ HeadLen = 2 /\ 1 \in 1..2 /\ 2 \in 1..2
    BY <1>1 DEF HeadLen
  <2>2. \A s \in Seq(Units) : \A m \in 0..Len(s) :
          SubSeq(s, 1, m) \in Seq(Units) /\ Len(SubSeq(s, 1, m)) = m
          /\ \A i \in 1..m : SubSeq(s, 1, m)[i] = s[i]
    BY SplitFacts
  <2> QED BY <2>1, <2>2, Zenon
<1>5. ASSUME NEW j \in 1..2 PROVE wire[e][j] = [len |-> n, half |-> j]
  <2>1. j \in DOMAIN wire[e] /\ j \in 1..(HeadLen + TagLen + Size(off, c)) /\ j <= HeadLen
    BY <1>1, <1>2 DEF HeadLen, TagLen
  <2>2. j = j + IF need[r] = Idle THEN 0 ELSE HeadLen
    OBVIOUS
  <2>3. wire[e][j] = Unit(e, off, c, j)
    BY <2>1, <2>2, UnitShown
  <2> QED BY <2>1, <2>3 DEF Unit
<1> HIDE DEF us
<1>6. us = Head2(n)
  <2>1. us[1] = [len |-> n, half |-> 1] /\ us[2] = [len |-> n, half |-> 2]
    BY <1>4, <1>5
  <2>2. \A s \in Seq(Units) : Len(s) = 2 => s = <<s[1], s[2]>>
    OBVIOUS
  <2>3. us = <<us[1], us[2]>>
    BY <1>4, <2>2, Zenon
  <2> HIDE DEF n
  <2> QED BY <2>1, <2>3, Zenon DEF Head2
<1>7. us[1].len = n
  BY <1>4, <1>5
<1> HIDE DEF n
<1>8. us \in {Head2(m) : m \in 0..MaxPayload}
  BY <1>3, <1>6, Zenon
<1>9. Lengths(us) = {n}
  BY <1>7, <1>8, Zenon DEF Lengths
<1> QED BY <1>2, <1>9, Zenon DEF us, n
------------------------------------------------------------------------------
(* Reading.                                                                  *)

\* The reader takes units from the wire: the ones behind them are as before.
LEMMA Taking ==
    ASSUME NEW e \in Ends, NEW r \in Ends, NEW off \in Offsets, Shown(e, r, off),
           UNCHANGED <<kind, number, key, wctr, open, faults>>,
           wire[e] \in Seq(Units), NEW m \in 0..Len(wire[e]),
           wire'[e] = SubSeq(wire[e], m + 1, Len(wire[e])),
           Taken(r, off) \in Nat, Taken(r, off)' = Taken(r, off) + m,
           Place(off, wctr[e]) \in Nat
    PROVE  Shown(e, r, off)'
<1>1. \A c, j : Unit(e, off, c, j)' = Unit(e, off, c, j)
  BY DEF Unit, WriteIndex, Low, Plain, Msb, Size
<1>2. /\ Len(wire'[e]) = Len(wire[e]) - m /\ DOMAIN wire'[e] = 1..(Len(wire[e]) - m)
      /\ \A i \in 1..(Len(wire[e]) - m) : wire'[e][i] = wire[e][i + m]
      /\ Len(wire[e]) \in Nat /\ DOMAIN wire[e] = 1..Len(wire[e])
  <2>1. \A s \in Seq(Units) : \A n \in 0..Len(s) :
          /\ Len(SubSeq(s, n + 1, Len(s))) = Len(s) - n
          /\ DOMAIN SubSeq(s, n + 1, Len(s)) = 1..(Len(s) - n)
          /\ \A i \in 1..(Len(s) - n) : SubSeq(s, n + 1, Len(s))[i] = s[i + n]
          /\ Len(s) \in Nat /\ DOMAIN s = 1..Len(s)
    BY SplitFacts
  <2> QED BY <2>1, Zenon
<1>3. Place(off, wctr[e])' = Place(off, wctr[e])
  BY DEF Place
<1> DEFINE t == Taken(r, off)
           w == Place(off, wctr[e])
<1>4. t + Len(wire[e]) <= w /\ (open = Ends \/ faults = 0 => t + Len(wire[e]) = w)
  BY DEF Shown
<1>5. t \in Nat /\ w \in Nat
  OBVIOUS
<1>6. Taken(r, off)' + Len(wire'[e]) = t + Len(wire[e])
  <2> HIDE DEF t
  <2>1. Taken(r, off)' = t + m
    BY DEF t
  <2> QED BY <1>2, <1>5, <2>1
<1>7. ASSUME NEW c \in 0..(wctr[e] - 1), NEW j \in 1..(HeadLen + TagLen + Size(off, c)),
             NEW k \in DOMAIN wire'[e], Taken(r, off)' + k = Place(off, c) + j
      PROVE  wire'[e][k] = Unit(e, off, c, j) \/ (faults > 0 /\ wire'[e][k] = Damaged)
  <2>1. k + m \in DOMAIN wire[e] /\ k \in 1..(Len(wire[e]) - m)
    BY <1>2
  <2>2. Taken(r, off) + (k + m) = Place(off, c) + j
    <3> HIDE DEF t
    <3>1. Taken(r, off)' = t + m
      BY DEF t
    <3>2. t + (k + m) = Place(off, c) + j
      BY <1>2, <1>5, <1>7, <3>1, <2>1
    <3> QED BY <3>2 DEF t
  <2>3. wire[e][k + m] = Unit(e, off, c, j) \/ (faults > 0 /\ wire[e][k + m] = Damaged)
    BY <2>1, <2>2, Zenon DEF Shown
  <2> QED BY <1>2, <2>1, <2>3
<1> HIDE DEF t, w
<1>8. (Taken(r, off) + Len(wire[e]) <= Place(off, wctr[e]))' /\
      ((open = Ends \/ faults = 0) => Taken(r, off) + Len(wire[e]) = Place(off, wctr[e]))'
  BY <1>3, <1>4, <1>6 DEF t, w
<1>9. wctr'[e] = wctr[e] /\ faults' = faults /\ (\A c : Size(off, c)' = Size(off, c))
      /\ \A c : Place(off, c)' = Place(off, c)
  BY DEF Size, Place
<1>10. \A c \in 0..(wctr'[e] - 1) : \A j \in 1..(HeadLen + TagLen + Size(off, c)') :
         \A k \in DOMAIN wire'[e] : Taken(r, off)' + k = Place(off, c)' + j =>
            wire'[e][k] = Unit(e, off, c, j)' \/ (faults' > 0 /\ wire'[e][k] = Damaged)
  <2> SUFFICES ASSUME NEW c \in 0..(wctr[e] - 1), NEW j \in 1..(HeadLen + TagLen + Size(off, c)),
                      NEW k \in DOMAIN wire'[e], Taken(r, off)' + k = Place(off, c) + j
               PROVE  wire'[e][k] = Unit(e, off, c, j) \/ (faults > 0 /\ wire'[e][k] = Damaged)
    BY <1>1, <1>9, ZenonT(40)
  <2> QED BY <1>7, Zenon
<1> QED BY <1>8, <1>10, Zenon DEF Shown

\* A length that is read is one that can be.
LEMMA LengthRange ==
    ASSUME NEW us, NEW n \in Lengths(us)
    PROVE  n \in 0..MaxPayload
<1>1. CASE us \in {Head2(m) : m \in 0..MaxPayload}
  <2>1. PICK m \in 0..MaxPayload : us = Head2(m)
    BY <1>1
  <2>2. Head2(m)[1].len = m
    BY DEF Head2
  <2>3. n = Head2(m)[1].len
    BY <1>1, <2>1, Zenon DEF Lengths
  <2> QED BY <2>1, <2>2, <2>3
<1>2. CASE us \notin {Head2(m) : m \in 0..MaxPayload}
  BY <1>2, Zenon DEF Lengths
<1> QED BY <1>1, <1>2

\* A length is read.
LEMMA ReadLengthLink ==
    ASSUME TypeOK, wire \in [Ends -> Seq(Units)],
           NEW e \in Ends, NEW r \in Ends, e = Peer(r), NEW off \in Offsets,
           Link(e, off), ReadLength(r)
    PROVE  Link(e, off)'
<1>0. Link(e, off) /\ ReadLength(r) /\ r = Peer(e) /\ r # e
  BY PeerFacts
<1>1. /\ state[r] = "on" /\ need[r] = Idle /\ pos[r] = Len(buf[r]) /\ Len(wire[e]) >= HeadLen
      /\ buf' = [buf EXCEPT ![r] = <<>>] /\ pos' = [pos EXCEPT ![r] = 0]
      /\ wire' = [wire EXCEPT ![e] = SubSeq(@, HeadLen + 1, Len(@))]
      /\ UNCHANGED <<kind, number, key, wctr, sent, rctr, got, open, faults>>
  BY <1>0, Zenon DEF ReadLength, Begun, writeVars
<1>2. /\ Cuts(e, off) /\ Given(e, r, off) /\ Shown(e, r, off) /\ Ended(e, r)
      /\ wire[e] \in Seq(Units)
  BY <1>0, <1>1 DEF Link, Fits
<1>3. PICK n \in Lengths(SubSeq(wire[e], 1, HeadLen)) :
        IF LengthOk(n) THEN need' = [need EXCEPT ![r] = n] /\ UNCHANGED state
        ELSE state' = [state EXCEPT ![r] = "err"] /\ UNCHANGED need
  BY <1>0, Zenon DEF ReadLength
<1>4. buf'[r] = <<>> /\ pos'[r] = 0 /\ rctr'[r] = rctr[r] /\ got'[r] = got[r] /\ faults' = faults
      /\ wctr'[e] = wctr[e] /\ sent'[e] = sent[e] /\ key' = key /\ open' = open
      /\ wire'[e] = SubSeq(wire[e], HeadLen + 1, Len(wire[e]))
  BY <1>1 DEF TypeOK
<1>5. faults = 0 => n = TagLen + Size(off, rctr[r]) /\ Size(off, rctr[r]) \in 1..MaxLen
  <2> SUFFICES ASSUME faults = 0 PROVE n = TagLen + Size(off, rctr[r]) /\ Size(off, rctr[r]) \in 1..MaxLen
    OBVIOUS
  <2>1. Lengths(SubSeq(wire[e], 1, HeadLen)) = {TagLen + Size(off, rctr[r])} /\ Size(off, rctr[r]) \in 1..MaxLen
    BY <1>1, <1>2, HeadRead, Zenon
  <2> QED BY <1>3, <2>1, Zenon
<1>6. n \in 0..MaxPayload
  BY <1>3, LengthRange
<1>7. Cuts(e, off)'
  BY <1>2, <1>4 DEF Cuts
<1>8. /\ rctr[r] \in 0..(wctr[e] - 1) /\ wctr[e] \in Nat /\ Len(wire[e]) \in Nat
      /\ Place(off, rctr[r]) \in Nat /\ Place(off, wctr[e]) \in Nat /\ off[rctr[r]] \in Nat
  <2>1. Len(wire[e]) > 0
    BY <1>1, <1>2 DEF HeadLen
  <2>2. rctr[r] \in 0..(wctr[e] - 1) /\ wctr[e] \in Nat /\ Len(wire[e]) \in Nat
    BY <1>1, <1>2, <2>1, Standing
  <2> QED BY <1>2, <2>2, Places
<1>9. Given(e, r, off)'
  <2>1. Len(got[r]) <= sent[e] /\ (\A i \in DOMAIN got[r] : got[r][i] = i)
        /\ Len(got[r]) + Len(buf[r]) = off[rctr[r]] + pos[r]
    BY <1>1, <1>2 DEF Given
  <2>2. Len(got[r]) \in Nat /\ Len(buf[r]) \in Nat
    BY DEF TypeOK
  <2>3. Len(got[r]) = off[rctr[r]]
    <3>1. pos[r] = Len(buf[r]) /\ off[rctr[r]] \in Nat
      BY <1>1, <1>8
    <3>2. \A x, y, z \in Nat : x + y = z + y => x = z
      OBVIOUS
    <3> QED BY <2>1, <2>2, <3>1, <3>2, Zenon
  <2>4. Len(buf'[r]) = 0 /\ DOMAIN buf'[r] = {}
    BY <1>4
  <2>5. Len(got[r]) + Len(buf'[r]) = off[rctr[r]] + pos'[r] /\ rctr[r] <= wctr[e]
        /\ pos'[r] = Len(buf'[r])
    BY <1>4, <1>8, <2>2, <2>3, <2>4
  <2> QED BY <1>4, <2>1, <2>4, <2>5 DEF Given
<1>10. CASE LengthOk(n)
  <2>1. need'[r] = n /\ state' = state
    BY <1>3, <1>10 DEF TypeOK
  <2>2. n # Idle /\ Idle' = Idle
    BY <1>6, BoundsAssumption DEF Idle, MaxPayload, TagLen
  <2>3. Taken(r, off) \in Nat /\ Taken(r, off)' = Taken(r, off) + HeadLen
    <3>1. Taken(r, off) = Place(off, rctr[r])
      BY <1>1, <1>8 DEF Taken
    <3>2. Taken(r, off)' = Place(off, rctr[r]) + HeadLen
      BY <1>4, <2>1, <2>2 DEF Taken, Place
    <3> QED BY <1>8, <3>1, <3>2
  <2>4. Shown(e, r, off)'
    <3>1. HeadLen \in 0..Len(wire[e])
      BY <1>1, <1>8 DEF HeadLen
    <3> QED BY <1>1, <1>2, <1>4, <1>8, <2>3, <3>1, Taking
  <2>5. Fits(e, r, off)'
    BY <1>4, <1>5, <2>1, <2>4 DEF Fits, Size
  <2>6. Ended(e, r)'
    BY <1>1, <2>1 DEF Ended
  <2> QED BY <1>0, <1>7, <1>9, <2>5, <2>6 DEF Link
<1>11. CASE ~LengthOk(n)
  <2>1. state'[r] = "err" /\ need' = need
    BY <1>3, <1>11 DEF TypeOK
  <2>2. ~Unharmed'
    BY <1>4, <1>5, <1>11, BoundsAssumption DEF Unharmed, LengthOk, TagLen
  <2>3. Fits(e, r, off)' /\ Ended(e, r)'
    BY <2>1, <2>2 DEF Fits, Ended
  <2> QED BY <1>0, <1>7, <1>9, <2>3 DEF Link
<1> QED BY <1>10, <1>11
\* Where the reader has read everything that was written whole: the frames up to
\* the last one have come whenever less than a length is left, without a fault.
LEMMA AtEnd ==
    ASSUME TypeOK, NEW e \in Ends, NEW r \in Ends, NEW off \in Offsets,
           Cuts(e, off), Given(e, r, off), Shown(e, r, off), state[r] = "on",
           wire[e] \in Seq(Units), need[r] = Idle, Len(wire[e]) < HeadLen
    PROVE  /\ faults = 0 => rctr[r] = wctr[e]
           /\ \A k \in DOMAIN wire[e] : "val" \notin DOMAIN wire[e][k]
<1>1. rctr[r] \in 0..wctr[e] /\ wctr[e] \in Nat /\ Len(wire[e]) \in Nat
      /\ Place(off, rctr[r]) \in Nat /\ Place(off, wctr[e]) \in Nat
      /\ (Len(wire[e]) > 0 => rctr[r] \in 0..(wctr[e] - 1))
  <2>1. rctr[r] \in 0..wctr[e] /\ wctr[e] \in Nat /\ Len(wire[e]) \in Nat
        /\ (Len(wire[e]) > 0 => rctr[r] \in 0..(wctr[e] - 1))
    BY Standing
  <2> QED BY <2>1, Places
<1>2. Taken(r, off) = Place(off, rctr[r])
  BY <1>1 DEF Taken
<1>3. ASSUME faults = 0, rctr[r] # wctr[e] PROVE FALSE
  <2>1. Taken(r, off) + Len(wire[e]) = Place(off, wctr[e])
    BY <1>3 DEF Shown
  <2>2. rctr[r] \in 0..(wctr[e] - 1)
    BY <1>1, <1>3
  <2>3. Place(off, rctr[r] + 1) = Place(off, rctr[r]) + HeadLen + TagLen + Size(off, rctr[r])
        /\ Place(off, rctr[r] + 1) <= Place(off, wctr[e]) /\ Size(off, rctr[r]) \in 1..MaxLen
    BY <1>1, <2>2, Places
  <2> QED BY <1>1, <1>2, <2>1, <2>3 DEF HeadLen, TagLen
<1>4. ASSUME NEW k \in DOMAIN wire[e] PROVE "val" \notin DOMAIN wire[e][k]
  <2>1. k = 1 /\ Len(wire[e]) > 0
    BY <1>1 DEF HeadLen
  <2>2. rctr[r] \in 0..(wctr[e] - 1) /\ Size(off, rctr[r]) \in 1..MaxLen
    BY <1>1, <2>1, Places
  <2>3. 1 \in 1..(HeadLen + TagLen + Size(off, rctr[r])) /\ 1 = k + IF need[r] = Idle THEN 0 ELSE HeadLen
    BY <2>1, <2>2 DEF HeadLen, TagLen
  <2>4. wire[e][k] = Unit(e, off, rctr[r], 1) \/ wire[e][k] = Damaged
    BY <2>3, UnitShown
  <2>5. "val" \notin DOMAIN Unit(e, off, rctr[r], 1)
    BY DEF Unit, HeadLen
  <2>6. "val" \notin DOMAIN Damaged
    BY DEF Damaged
  <2> QED BY <2>4, <2>5, <2>6
<1> QED BY <1>3, <1>4

\* The connection has ended before a whole length.
LEMMA ReadEndLink ==
    ASSUME TypeOK, wire \in [Ends -> Seq(Units)],
           NEW e \in Ends, NEW r \in Ends, e = Peer(r), NEW off \in Offsets,
           Link(e, off), ReadEnd(r)
    PROVE  Link(e, off)'
<1>0. Link(e, off) /\ ReadEnd(r) /\ r = Peer(e) /\ r # e
  BY PeerFacts
<1>1. /\ state[r] = "on" /\ need[r] = Idle /\ pos[r] = Len(buf[r]) /\ Len(wire[e]) < HeadLen
      /\ buf' = [buf EXCEPT ![r] = <<>>] /\ pos' = [pos EXCEPT ![r] = 0] /\ e \notin open
      /\ UNCHANGED <<kind, number, key, wctr, sent, rctr, need, got, wire, open, faults>>
  BY <1>0, Zenon DEF ReadEnd, Begun, writeVars
<1>2. /\ Cuts(e, off) /\ Given(e, r, off) /\ Shown(e, r, off) /\ Ended(e, r)
      /\ wire[e] \in Seq(Units)
  BY <1>0, <1>1 DEF Link, Fits
<1>3. PICK st \in {"eof"} \cup (IF faults > 0 THEN {"err"} ELSE {}) : state' = [state EXCEPT ![r] = st]
  BY <1>0, Zenon DEF ReadEnd
<1>4. buf'[r] = <<>> /\ pos'[r] = 0 /\ state'[r] = st
  BY <1>1, <1>3 DEF TypeOK
<1>5. /\ rctr[r] \in 0..wctr[e] /\ wctr[e] \in Nat /\ off[rctr[r]] \in Nat
  <2>1. rctr[r] \in 0..wctr[e] /\ wctr[e] \in Nat
    BY <1>1, <1>2, Standing
  <2>2. rctr[r] \in Nat /\ \A c \in Nat : off[c] \in Nat
    BY DEF TypeOK, Offsets
  <2> QED BY <2>1, <2>2, Zenon
<1>6. Cuts(e, off)'
  BY <1>1, <1>2 DEF Cuts
<1>7. Len(got[r]) = off[rctr[r]]
  <2>1. Len(got[r]) \in Nat /\ Len(buf[r]) \in Nat
    BY DEF TypeOK
  <2>2. Len(got[r]) + Len(buf[r]) = off[rctr[r]] + pos[r]
    BY <1>1, <1>2 DEF Given
  <2>3. \A x, y, z \in Nat : x + y = z + y => x = z
    OBVIOUS
  <2> QED BY <1>1, <1>5, <2>1, <2>2, <2>3, Zenon
<1>8. Given(e, r, off)'
  <2>1. Len(got[r]) <= sent[e] /\ \A i \in DOMAIN got[r] : got[r][i] = i
    BY <1>1, <1>2 DEF Given
  <2>2. Len(buf'[r]) = 0 /\ DOMAIN buf'[r] = {}
    BY <1>4
  <2>3. Len(got[r]) + Len(buf'[r]) = off[rctr[r]] + pos'[r] /\ rctr[r] <= wctr[e]
        /\ pos'[r] = Len(buf'[r])
    BY <1>4, <1>5, <1>7, <2>2
  <2> QED BY <1>1, <2>1, <2>2, <2>3 DEF Given
<1>9. Fits(e, r, off)'
  BY <1>3, <1>4 DEF Fits
<1>10. Ended(e, r)'
  <2>1. faults = 0 => rctr[r] = wctr[e]
    BY <1>1, <1>2, AtEnd
  <2>2. \A k \in DOMAIN wire[e] : "val" \notin DOMAIN wire[e][k]
    BY <1>1, <1>2, AtEnd
  <2>3. faults = 0 => Len(got[r]) = sent[e]
    BY <1>2, <1>7, <2>1 DEF Cuts
  <2>4. faults = 0 => state'[r] # "err"
    BY <1>3, <1>4
  <2>5. pos'[r] = Len(buf'[r])
    BY <1>4
  <2>6. Idle' = Idle /\ (Unharmed' => faults = 0)
    BY <1>1 DEF Unharmed, Idle, MaxPayload, TagLen
  <2> QED BY <1>1, <2>2, <2>3, <2>4, <2>5, <2>6 DEF Ended
<1> QED BY <1>0, <1>6, <1>8, <1>9, <1>10 DEF Link

\* The connection has ended inside a payload.
LEMMA ReadCutLink ==
    ASSUME TypeOK, wire \in [Ends -> Seq(Units)],
           NEW e \in Ends, NEW r \in Ends, e = Peer(r), NEW off \in Offsets,
           Link(e, off), ReadCut(r)
    PROVE  Link(e, off)'
<1>0. Link(e, off) /\ ReadCut(r) /\ r = Peer(e) /\ r # e
  BY PeerFacts
<1>1. /\ state[r] = "on" /\ need[r] # Idle /\ Len(wire[e]) < need[r]
      /\ state' = [state EXCEPT ![r] = "err"]
      /\ UNCHANGED <<kind, number, key, wctr, sent, rctr, buf, pos, got, wire, open, faults>>
  BY <1>0, Zenon DEF ReadCut, writeVars, CutPayload
<1>2. /\ Cuts(e, off) /\ Given(e, r, off) /\ Shown(e, r, off)
      /\ (faults = 0 => need[r] = TagLen + Size(off, rctr[r])) /\ wire[e] \in Seq(Units)
  BY <1>0, <1>1 DEF Link, Fits
<1>3. state'[r] = "err"
  BY <1>1 DEF TypeOK
<1>4. faults # 0
  <2> SUFFICES ASSUME faults = 0 PROVE FALSE
    OBVIOUS
  <2>1. rctr[r] \in 0..(wctr[e] - 1) /\ wctr[e] \in Nat /\ Len(wire[e]) \in Nat
        /\ Place(off, rctr[r]) \in Nat
    BY <1>1, <1>2, Standing
  <2>2. Place(off, rctr[r] + 1) = Place(off, rctr[r]) + HeadLen + TagLen + Size(off, rctr[r])
        /\ Place(off, rctr[r] + 1) <= Place(off, wctr[e]) /\ Size(off, rctr[r]) \in 1..MaxLen
        /\ Place(off, wctr[e]) \in Nat
    BY <1>2, <2>1, Places
  <2>3. Taken(r, off) = Place(off, rctr[r]) + HeadLen
    BY <1>1 DEF Taken
  <2>4. Taken(r, off) + Len(wire[e]) = Place(off, wctr[e])
    BY <1>2 DEF Shown
  <2>5. need[r] = TagLen + Size(off, rctr[r]) /\ Len(wire[e]) < need[r]
    BY <1>1, <1>2
  <2> QED BY <2>1, <2>2, <2>3, <2>4, <2>5 DEF HeadLen, TagLen
<1>5. Cuts(e, off)' /\ Given(e, r, off)'
  BY <1>1, <1>2, <1>3 DEF Cuts, Given
<1>6. Fits(e, r, off)' /\ Ended(e, r)'
  BY <1>1, <1>3, <1>4 DEF Fits, Ended, Unharmed
<1> QED BY <1>0, <1>5, <1>6 DEF Link

\* Bytes of the buffer go to the caller.
LEMMA ServeLink ==
    ASSUME TypeOK, wire \in [Ends -> Seq(Units)],
           NEW e \in Ends, NEW r \in Ends, e = Peer(r), NEW off \in Offsets,
           Link(e, off), NEW n \in 1..MaxRead, Serve(r, n)
    PROVE  Link(e, off)'
<1> DEFINE upto == Lesser(pos[r] + n, Len(buf[r]))
           part == SubSeq(buf[r], pos[r] + 1, upto)
<1>0. Link(e, off) /\ Serve(r, n) /\ r = Peer(e) /\ r # e
  BY PeerFacts
<1>1. /\ state[r] = "on" /\ need[r] = Idle /\ pos[r] < Len(buf[r])
      /\ got' = [got EXCEPT ![r] = @ \o part] /\ pos' = [pos EXCEPT ![r] = upto]
      /\ UNCHANGED <<kind, number, key, wctr, sent, rctr, buf, need, state, wire, open, faults>>
  BY <1>0, Zenon DEF Serve, writeVars
<1>2. /\ Cuts(e, off) /\ Given(e, r, off) /\ Shown(e, r, off) /\ Ended(e, r)
      /\ wire[e] \in Seq(Units)
  BY <1>0, <1>1 DEF Link, Fits
<1>3. buf[r] \in Seq(Nat) /\ got[r] \in Seq(Nat) /\ pos[r] \in Nat /\ Len(buf[r]) \in Nat
      /\ Len(got[r]) \in Nat
  BY DEF TypeOK
<1>4. upto \in Nat /\ pos[r] <= upto /\ upto <= Len(buf[r])
  BY <1>1, <1>3, SMTT(30) DEF Lesser
<1> HIDE DEF upto
<1>5. part \in Seq(Nat) /\ Len(part) = upto - pos[r] /\ \A i \in 1..(upto - pos[r]) : part[i] = buf[r][pos[r] + i]
  <2> HIDE DEF part
  <2>1. buf[r] \in Seq(Nat) /\ pos[r] \in Nat /\ upto \in Nat /\ pos[r] <= upto /\ upto <= Len(buf[r])
    BY <1>3, <1>4
  <2>2. \A s \in Seq(Nat) : \A a, b \in Nat : a <= b /\ b <= Len(s) =>
          /\ SubSeq(s, a + 1, b) \in Seq(Nat) /\ Len(SubSeq(s, a + 1, b)) = b - a
          /\ \A i \in 1..(b - a) : SubSeq(s, a + 1, b)[i] = s[a + i]
    BY MiddleFacts
  <2>3. /\ SubSeq(buf[r], pos[r] + 1, upto) \in Seq(Nat) /\ Len(SubSeq(buf[r], pos[r] + 1, upto)) = upto - pos[r]
        /\ \A i \in 1..(upto - pos[r]) : SubSeq(buf[r], pos[r] + 1, upto)[i] = buf[r][pos[r] + i]
    BY <2>1, <2>2, Zenon
  <2> QED BY <2>3, Zenon DEF part
<1> HIDE DEF part
<1>6. got'[r] = got[r] \o part /\ pos'[r] = upto
  BY <1>1 DEF TypeOK
<1>7. /\ rctr[r] \in 0..wctr[e] /\ wctr[e] \in Nat /\ off[rctr[r]] \in Nat /\ off[rctr[r]] <= sent[e]
  <2>1. rctr[r] \in 0..wctr[e] /\ wctr[e] \in Nat
    BY <1>1, <1>2, Standing
  <2>2. rctr[r] \in Nat /\ \A c \in Nat : off[c] \in Nat
    BY DEF TypeOK, Offsets
  <2>3. off[rctr[r]] <= sent[e]
    BY <1>2, <2>1, Places, Zenon
  <2> QED BY <2>1, <2>2, <2>3, Zenon
<1>8. /\ Len(got[r]) + Len(buf[r]) = off[rctr[r]] + pos[r]
      /\ (\A i \in DOMAIN buf[r] : buf[r][i] + Len(buf[r]) = off[rctr[r]] + i)
      /\ \A i \in DOMAIN got[r] : got[r][i] = i
  BY <1>1, <1>2 DEF Given
<1>9. /\ Len(got'[r]) = Len(got[r]) + (upto - pos[r]) /\ DOMAIN got'[r] = 1..Len(got'[r])
      /\ (\A i \in 1..Len(got[r]) : got'[r][i] = got[r][i])
      /\ \A i \in 1..(upto - pos[r]) : got'[r][Len(got[r]) + i] = part[i]
  <2>1. \A s, t \in Seq(Nat) :
          Len(s \o t) = Len(s) + Len(t) /\ DOMAIN (s \o t) = 1..Len(s \o t)
          /\ (\A i \in 1..Len(s) : (s \o t)[i] = s[i])
          /\ \A i \in 1..Len(t) : (s \o t)[Len(s) + i] = t[i]
    BY AppendFacts
  <2>2. Len(part) = upto - pos[r] /\ part \in Seq(Nat)
    BY <1>5
  <2>3. Len(got[r] \o part) = Len(got[r]) + Len(part)
        /\ DOMAIN (got[r] \o part) = 1..Len(got[r] \o part)
        /\ (\A i \in 1..Len(got[r]) : (got[r] \o part)[i] = got[r][i])
        /\ \A i \in 1..Len(part) : (got[r] \o part)[Len(got[r]) + i] = part[i]
    BY <1>3, <2>1, <2>2, Zenon
  <2> QED BY <1>6, <2>2, <2>3, Zenon
<1>10. Len(got'[r]) + Len(buf[r]) = off[rctr[r]] + upto /\ Len(got'[r]) <= sent[e]
  <2>1. sent[e] \in Nat
    BY DEF TypeOK
  <2>2. /\ Len(got[r]) \in Nat /\ Len(buf[r]) \in Nat /\ off[rctr[r]] \in Nat /\ pos[r] \in Nat
        /\ upto \in Nat /\ pos[r] <= upto /\ upto <= Len(buf[r]) /\ off[rctr[r]] <= sent[e]
        /\ Len(got[r]) + Len(buf[r]) = off[rctr[r]] + pos[r]
    BY <1>3, <1>4, <1>7, <1>8, Zenon
  <2>3. (Len(got[r]) + (upto - pos[r])) + Len(buf[r]) = off[rctr[r]] + upto
        /\ Len(got[r]) + (upto - pos[r]) <= sent[e]
    BY <2>1, <2>2, Sums, Zenon
  <2> QED BY <1>9, <2>3, Zenon
<1>11. ASSUME NEW i \in DOMAIN got'[r] PROVE got'[r][i] = i
  <2>1. CASE i \in 1..Len(got[r])
    <3>1. i \in DOMAIN got[r]
      BY <1>3, <2>1
    <3> QED BY <1>8, <1>9, <2>1, <3>1
  <2>2. CASE i \notin 1..Len(got[r])
    <3>5. \A g, d \in Nat : \A j \in 1..(g + d) : j \notin 1..g =>
            \E k \in Nat : k \in 1..d /\ g + k = j /\ j \in Nat
      <4> SUFFICES ASSUME NEW g \in Nat, NEW d \in Nat, NEW j \in 1..(g + d), j \notin 1..g
                   PROVE  j - g \in Nat /\ j - g \in 1..d /\ g + (j - g) = j /\ j \in Nat
        OBVIOUS
      <4> QED OBVIOUS
    <3>8. upto - pos[r] \in Nat /\ i \in 1..(Len(got[r]) + (upto - pos[r]))
      BY <1>3, <1>4, <1>9
    <3> PICK m \in Nat : m \in 1..(upto - pos[r]) /\ Len(got[r]) + m = i /\ i \in Nat
      BY <1>3, <2>2, <3>5, <3>8, Zenon
    <3>1. m \in 1..(upto - pos[r]) /\ Len(got[r]) + m = i /\ m \in Nat /\ i \in Nat
      OBVIOUS
    <3>2. got'[r][i] = buf[r][pos[r] + m]
      BY <1>5, <1>9, <3>1
    <3>3. pos[r] + m \in DOMAIN buf[r]
      BY <1>3, <1>4, <3>1
    <3>4. buf[r][pos[r] + m] + Len(buf[r]) = off[rctr[r]] + (pos[r] + m) /\ buf[r][pos[r] + m] \in Nat
      BY <1>3, <1>8, <3>3, SMTT(30)
    <3>6. buf[r][pos[r] + m] = Len(got[r]) + m
      <4>1. Len(got[r]) \in Nat /\ Len(buf[r]) \in Nat /\ off[rctr[r]] \in Nat /\ pos[r] \in Nat
        BY <1>3, <1>7
      <4>2. Len(got[r]) + Len(buf[r]) = off[rctr[r]] + pos[r]
        BY <1>8
      <4>3. PICK x \in Nat : x = buf[r][pos[r] + m]
        BY <3>4, Zenon
      <4>4. x + Len(buf[r]) = off[rctr[r]] + (pos[r] + m)
        BY <3>4, <4>3, Zenon
      <4>5. PICK g \in Nat, b \in Nat, o \in Nat, p \in Nat :
              g = Len(got[r]) /\ b = Len(buf[r]) /\ o = off[rctr[r]] /\ p = pos[r]
        BY <4>1, Zenon
      <4>6. g + b = o + p /\ x + b = o + (p + m)
        BY <4>2, <4>4, <4>5, Zenon
      <4>7. x = g + m
        BY <4>6
      <4> QED BY <4>3, <4>5, <4>7, Zenon
    <3>7. buf[r][pos[r] + m] = i
      BY <3>1, <3>6, Zenon
    <3> QED BY <3>2, <3>7, Zenon
  <2> QED BY <2>1, <2>2
<1>12. Given(e, r, off)'
  <2>1. rctr[r] <= wctr[e] /\ need'[r] = Idle /\ Idle' = Idle
    BY <1>1, <1>7 DEF Idle, MaxPayload, TagLen
  <2> QED BY <1>1, <1>6, <1>8, <1>10, <1>11, <2>1 DEF Given
<1>13. Cuts(e, off)'
  BY <1>1, <1>2 DEF Cuts
<1>14. Fits(e, r, off)'
  <2>1. Taken(r, off)' = Taken(r, off) /\ \A c, j : Unit(e, off, c, j)' = Unit(e, off, c, j)
    BY <1>1 DEF Taken, Place, Idle, MaxPayload, Unit, WriteIndex, Low, Plain, Msb, Size
  <2>2. Shown(e, r, off)'
    BY <1>1, <1>2, <2>1 DEF Shown, Place, Size
  <2>3. need'[r] = Idle /\ Idle' = Idle
    BY <1>1 DEF Idle, MaxPayload, TagLen
  <2> QED BY <2>2, <2>3 DEF Fits
<1>15. Ended(e, r)'
  BY <1>1, <1>2 DEF Ended, Unharmed
<1> QED BY <1>0, <1>12, <1>13, <1>14, <1>15 DEF Link
\* A payload is read: the first bytes of a frame go to the caller, the others
\* into the buffer.
LEMMA ReadPayloadLink ==
    ASSUME TypeOK, wire \in [Ends -> Seq(Units)],
           NEW e \in Ends, NEW r \in Ends, e = Peer(r), NEW off \in Offsets,
           Link(e, off), NEW n \in 1..MaxRead, ReadPayload(r, n)
    PROVE  Link(e, off)'
<1> DEFINE payload == SubSeq(wire[e], 1, need[r])
           text == Text(payload)
           m == Lesser(n, Len(text))
           c == rctr[r]
<1>0. Link(e, off) /\ ReadPayload(r, n) /\ r = Peer(e) /\ r # e
  BY PeerFacts
<1>1. /\ state[r] = "on" /\ need[r] # Idle /\ Len(wire[e]) >= need[r]
      /\ rctr' = [rctr EXCEPT ![r] = @ + 1] /\ need' = [need EXCEPT ![r] = Idle]
      /\ wire' = [wire EXCEPT ![e] = SubSeq(@, need[r] + 1, Len(@))]
      /\ UNCHANGED <<kind, number, key, wctr, sent, open, faults>>
  BY <1>0, Zenon DEF ReadPayload, writeVars
<1>2. /\ Cuts(e, off) /\ Given(e, r, off) /\ Shown(e, r, off) /\ Ended(e, r)
      /\ (faults = 0 => need[r] = TagLen + Size(off, c)) /\ wire[e] \in Seq(Units)
  BY <1>0, <1>1 DEF Link, Fits
<1>3. rctr'[r] = c + 1 /\ need'[r] = Idle /\ wire'[e] = SubSeq(wire[e], need[r] + 1, Len(wire[e]))
  BY <1>1 DEF TypeOK
<1>4. buf[r] \in Seq(Nat) /\ got[r] \in Seq(Nat) /\ pos[r] \in Nat /\ Len(buf[r]) \in Nat
      /\ Len(got[r]) \in Nat /\ sent[e] \in Nat
  BY DEF TypeOK
<1>5. Cuts(e, off)'
  BY <1>1, <1>2 DEF Cuts
<1>6. CASE ~Opens(r, payload)
  <2> HIDE DEF payload
  <2>1. state' = [state EXCEPT ![r] = "err"] /\ UNCHANGED <<buf, pos, got>>
    BY <1>0, <1>6, Zenon DEF ReadPayload, payload
  <2>2. state'[r] = "err"
    BY <2>1 DEF TypeOK
  <2>3. ~Unharmed'
    <3> SUFFICES ASSUME Unharmed PROVE FALSE
      BY <1>1 DEF Unharmed
    <3>1. faults = 0 /\ key[r] = key[e]
      BY DEF Unharmed, Ends
    <3>2. need[r] = TagLen + Size(off, rctr[r]) /\ r = Peer(e)
      BY <1>0, <1>2, <3>1
    <3>3. Opens(r, SubSeq(wire[e], 1, need[r]))
      BY <1>1, <1>2, <3>1, <3>2, WholeOpens, Zenon
    <3> QED BY <1>6, <3>3 DEF payload
  <2>4. Given(e, r, off)'
    BY <1>1, <1>2, <2>1, <2>2 DEF Given
  <2>5. Fits(e, r, off)' /\ Ended(e, r)'
    BY <2>2, <2>3 DEF Fits, Ended
  <2> QED BY <1>0, <1>5, <2>4, <2>5 DEF Link
<1>7. CASE Opens(r, payload)
  <2>1. /\ c \in 0..(wctr[e] - 1) /\ need[r] = TagLen + Size(off, c)
        /\ text \in Seq(Nat) /\ Len(text) = Size(off, c)
        /\ \A i \in 1..Len(text) : text[i] = off[c] + i
    <3> HIDE DEF text
    <3>1. c \in 0..(wctr[e] - 1) /\ need[r] = TagLen + Size(off, c)
      BY <1>1, <1>2, <1>7, OpensFacts, Zenon
    <3>2. /\ text \in Seq(Nat) /\ Len(text) = Size(off, c)
          /\ \A i \in 1..Len(text) : text[i] = off[c] + i
      BY <1>1, <1>2, <1>7, OpensFacts, Zenon DEF text
    <3> QED BY <3>1, <3>2
  <2>2. /\ buf' = [buf EXCEPT ![r] = text] /\ pos' = [pos EXCEPT ![r] = m]
        /\ got' = [got EXCEPT ![r] = @ \o SubSeq(text, 1, m)]
        /\ (text # <<>> => state' = state)
    <3> HIDE DEF text, payload
    <3> QED BY <1>0, <1>7, Zenon DEF ReadPayload, PosAfter, text, payload
  <2> HIDE DEF payload, text
  <2>3. /\ wctr[e] \in Nat /\ c \in Nat /\ c + 1 \in 0..wctr[e] /\ Len(wire[e]) \in Nat
        /\ Size(off, c) \in 1..MaxLen /\ off[c] \in Nat /\ off[c + 1] \in Nat
        /\ off[c + 1] = off[c] + Size(off, c) /\ off[c + 1] <= sent[e]
        /\ Place(off, c + 1) = Place(off, c) + HeadLen + TagLen + Size(off, c)
        /\ Place(off, c) \in Nat /\ Place(off, wctr[e]) \in Nat
    <3>1. wctr[e] \in Nat /\ Len(wire[e]) \in Nat
      BY <1>1, <1>2, Standing
    <3>2. c \in Nat /\ c + 1 \in Nat /\ c + 1 \in 0..wctr[e]
      BY <2>1, <3>1
    <3>3. /\ Size(off, c) \in 1..MaxLen /\ off[c + 1] = off[c] + Size(off, c)
          /\ Place(off, c + 1) = Place(off, c) + HeadLen + TagLen + Size(off, c)
      BY <1>2, <2>1, <3>1, Places, Zenon
    <3>4. off[c] \in Nat /\ off[c + 1] \in Nat /\ Place(off, c) \in Nat /\ Place(off, wctr[e]) \in Nat
      BY <1>2, <3>1, <3>2, Places, Zenon
    <3>5. off[c + 1] <= sent[e]
      BY <1>2, <3>1, <3>2, Places, Zenon
    <3> QED BY <3>1, <3>2, <3>3, <3>4, <3>5, Zenon
  <2>4. Len(text) \in Nat /\ m \in Nat /\ m <= Len(text) /\ text # <<>>
    BY <2>1, <2>3 DEF Lesser
  <2> HIDE DEF m
  <2>5. buf'[r] = text /\ pos'[r] = m /\ got'[r] = got[r] \o SubSeq(text, 1, m) /\ state'[r] = "on"
    BY <1>1, <2>2, <2>4 DEF TypeOK
  <2>6. /\ Len(got[r]) = off[c] /\ \A i \in DOMAIN got[r] : got[r][i] = i
    <3>1. /\ Len(got[r]) + Len(buf[r]) = off[c] + pos[r] /\ pos[r] = Len(buf[r])
          /\ \A i \in DOMAIN got[r] : got[r][i] = i
      BY <1>1, <1>2 DEF Given
    <3>2. \A x, y, z \in Nat : x + y = z + y => x = z
      OBVIOUS
    <3> QED BY <1>4, <2>3, <3>1, <3>2, Zenon
  <2>7. /\ Len(got'[r]) = off[c] + m /\ DOMAIN got'[r] = 1..(off[c] + m)
        /\ (\A i \in 1..off[c] : got'[r][i] = got[r][i])
        /\ \A i \in 1..m : got'[r][off[c] + i] = text[i]
    <3> DEFINE part == SubSeq(text, 1, m)
    <3>1. part \in Seq(Nat) /\ Len(part) = m /\ \A i \in 1..m : part[i] = text[i]
      <4>1. m \in 0..Len(text)
        BY <2>4
      <4>2. \A s \in Seq(Nat) : \A k \in 0..Len(s) :
              SubSeq(s, 1, k) \in Seq(Nat) /\ Len(SubSeq(s, 1, k)) = k
              /\ \A i \in 1..k : SubSeq(s, 1, k)[i] = s[i]
        BY SplitFacts
      <4> QED BY <2>1, <4>1, <4>2, Zenon
    <3> HIDE DEF part
    <3>2. \A s, t \in Seq(Nat) :
            Len(s \o t) = Len(s) + Len(t) /\ DOMAIN (s \o t) = 1..(Len(s) + Len(t))
            /\ (\A i \in 1..Len(s) : (s \o t)[i] = s[i])
            /\ \A i \in 1..Len(t) : (s \o t)[Len(s) + i] = t[i]
      BY AppendFacts
    <3>3. got'[r] = got[r] \o part
      BY <2>5 DEF part
    <3>5. /\ Len(got[r] \o part) = Len(got[r]) + Len(part)
          /\ DOMAIN (got[r] \o part) = 1..(Len(got[r]) + Len(part))
          /\ (\A i \in 1..Len(got[r]) : (got[r] \o part)[i] = got[r][i])
          /\ \A i \in 1..Len(part) : (got[r] \o part)[Len(got[r]) + i] = part[i]
      BY <1>4, <3>1, <3>2, Zenon
    <3>4. /\ Len(got'[r]) = Len(got[r]) + Len(part) /\ DOMAIN got'[r] = 1..(Len(got[r]) + Len(part))
          /\ (\A i \in 1..Len(got[r]) : got'[r][i] = got[r][i])
          /\ \A i \in 1..Len(part) : got'[r][Len(got[r]) + i] = part[i]
      BY <3>3, <3>5, Zenon
    <3> QED BY <2>6, <3>1, <3>4, Zenon
  <2>8. ASSUME NEW i \in DOMAIN got'[r] PROVE got'[r][i] = i
    <3>1. CASE i \in 1..off[c]
      <4>1. i \in DOMAIN got[r]
        BY <1>4, <2>6, <3>1
      <4> QED BY <2>6, <2>7, <3>1, <4>1, Zenon
    <3>2. CASE i \notin 1..off[c]
      <4>1. PICK o \in Nat : o = off[c]
        BY <2>3
      <4>2. i \in 1..(o + m) /\ i \notin 1..o
        BY <2>7, <3>2, <4>1, Zenon
      <4>3. i - o \in 1..m /\ o + (i - o) = i
        BY <2>4, <4>2
      <4>4. got'[r][o + (i - o)] = text[i - o]
        BY <2>7, <4>1, <4>3, Zenon
      <4>5. i - o \in 1..Len(text)
        BY <2>4, <4>3
      <4>6. text[i - o] = o + (i - o)
        BY <2>1, <4>1, <4>5, Zenon
      <4> QED BY <4>3, <4>4, <4>6
    <3> QED BY <3>1, <3>2
  <2>9. Given(e, r, off)'
    <3>1. PICK o \in Nat, s \in Nat, z \in Nat, q \in Nat :
            o = off[c] /\ s = sent[e] /\ z = Size(off, c) /\ q = off[c + 1]
      BY <1>4, <2>3
    <3>2. q = o + z /\ q <= s /\ z = Len(text) /\ m <= z
      BY <2>1, <2>3, <2>4, <3>1, Zenon
    <3>3. o + m <= s /\ (o + m) + z = q + m
      BY <2>4, <3>2
    <3>4. Len(got'[r]) <= sent'[e]
      BY <1>1, <2>7, <3>1, <3>3
    <3>5. rctr'[r] <= wctr'[e]
      BY <1>1, <1>3, <2>3
    <3>6. Len(got'[r]) + Len(buf'[r]) = off[rctr'[r]] + pos'[r]
      BY <1>3, <2>5, <2>7, <3>1, <3>2, <3>3, Zenon
    <3>7. ASSUME NEW i \in DOMAIN buf'[r] PROVE buf'[r][i] + Len(buf'[r]) = off[rctr'[r]] + i
      <4>1. i \in 1..Len(text) /\ i \in Nat
        BY <2>1, <2>4, <2>5
      <4>2. text[i] = o + i
        BY <2>1, <3>1, <4>1, Zenon
      <4>3. (o + i) + z = q + i
        BY <3>2, <4>1
      <4> QED BY <1>3, <2>5, <3>1, <3>2, <4>2, <4>3, Zenon
    <3>8. need'[r] = Idle'
      BY <1>3 DEF Idle, MaxPayload, TagLen
    <3> QED BY <2>8, <3>4, <3>5, <3>6, <3>7, <3>8, Zenon DEF Given
  <2>10. Fits(e, r, off)'
    <3>1. Taken(r, off) = Place(off, c) + HeadLen
      BY <1>1 DEF Taken
    <3>2. Taken(r, off)' = Place(off, c + 1)
      <4>1. need'[r] = Idle' /\ rctr'[r] = c + 1
        BY <1>3 DEF Idle, MaxPayload, TagLen
      <4>2. Taken(r, off)' = Place(off, c + 1) + 0
        BY <4>1, Zenon DEF Taken, Place
      <4>3. Place(off, c + 1) \in Nat
        BY <2>3, SMTT(30) DEF HeadLen, TagLen
      <4> QED BY <4>2, <4>3
    <3>3. need[r] \in 0..Len(wire[e])
      BY <1>1, <2>1, <2>3, SMTT(30) DEF TagLen
    <3>4. Taken(r, off) \in Nat /\ Taken(r, off)' = Taken(r, off) + need[r]
      <4>1. PICK x \in Nat, z \in Nat : x = Place(off, c) /\ z = Size(off, c)
        BY <2>3
      <4>2. Taken(r, off) = x + HeadLen /\ Taken(r, off)' = x + HeadLen + TagLen + z /\ need[r] = TagLen + z
        BY <2>1, <2>3, <3>1, <3>2, <4>1, Zenon
      <4> QED BY <4>2 DEF HeadLen, TagLen
    <3>5. Shown(e, r, off)'
      BY <1>1, <1>2, <1>3, <2>3, <3>3, <3>4, Taking
    <3>6. need'[r] = Idle'
      BY <1>3 DEF Idle, MaxPayload, TagLen
    <3> QED BY <3>5, <3>6, Zenon DEF Fits
  <2>11. Ended(e, r)'
    BY <2>5 DEF Ended
  <2> QED BY <1>0, <1>5, <2>9, <2>10, <2>11 DEF Link
<1> QED BY <1>6, <1>7
------------------------------------------------------------------------------
(* Writing, and the network.                                                 *)

\* The index that a stream writes under is a u32 with or without its highest bit.
LEMMA IndexType ==
    ASSUME TypeOK, NEW e \in Ends
    PROVE  WriteIndex(e) \in Indices
<1>1. number \in Nat
  BY BoundsAssumption DEF TypeOK
<1>2. Low \in Nat
  BY <1>1 DEF Low
<1> QED BY <1>2 DEF WriteIndex, Msb, Plain, Indices

\* A write makes one frame more, behind all that is on the wire.
LEMMA WriteLink ==
    ASSUME TypeOK, wctr \in [Ends -> Nat], wire \in [Ends -> Seq(Units)],
           NEW e \in Ends, NEW r \in Ends, r = Peer(e), NEW off \in Offsets,
           Link(e, off), WriteCall(e)
    PROVE  (\E new \in Offsets : Link(e, new)') /\ wire'[e] \in Seq(Units)
<1>1. PICK n \in 0..MaxLen :
        LET frames == Frames(e, [i \in 1..n |-> sent[e] + i]) IN
        /\ frames # <<>>
        /\ wire' = [wire EXCEPT ![e] = @ \o frames]
        /\ sent' = [sent EXCEPT ![e] = @ + n]
  BY Zenon DEF WriteCall
<1> DEFINE text == [i \in 1..n |-> sent[e] + i]
           f == Frame(<<WriteIndex(e), wctr[e]>>, key[e], text)
<1>2. /\ open = Ends /\ wctr' = [wctr EXCEPT ![e] = @ + 1]
      /\ UNCHANGED <<kind, number, key, rctr, buf, pos, need, state, got, open, faults>>
  BY Zenon DEF WriteCall, readVars
<1>3. /\ Cuts(e, off) /\ Given(e, r, off) /\ Fits(e, r, off) /\ Ended(e, r) /\ wire[e] \in Seq(Units)
  BY DEF Link
<1>0. PICK w \in Nat : w = wctr[e]
  OBVIOUS
<1>4. w = wctr[e] /\ w + 1 \in Nat /\ sent[e] \in Nat /\ n \in Nat /\ MaxLen \in Nat /\ n <= MaxLen
  BY <1>0, BoundsAssumption, SMTT(30) DEF TypeOK
<1>5. n >= 1 /\ Frames(e, text) = f
  <2> DEFINE t0 == text
  <2>1. t0 # <<>>
    BY <1>1, Zenon DEF Frames
  <2>2. n = 0 => t0 = <<>>
    OBVIOUS
  <2>3. Frames(e, t0) = Frame(<<WriteIndex(e), wctr[e]>>, key[e], t0)
    <3> HIDE DEF t0
    <3> QED BY <2>1, Zenon DEF Frames
  <2> QED BY <1>4, <2>1, <2>2, <2>3
<1>6. wire' = [wire EXCEPT ![e] = @ \o f] /\ sent' = [sent EXCEPT ![e] = @ + n]
  <2> HIDE DEF f
  <2> QED BY <1>1, <1>5, Zenon
<1>7. wire'[e] = wire[e] \o f /\ sent'[e] = sent[e] + n /\ wctr'[e] = w + 1
  <2> HIDE DEF f
  <2> QED BY <1>2, <1>4, <1>6 DEF TypeOK
<1>8. PICK new \in Offsets : new[w + 1] = sent[e] + n /\ \A c \in 0..w : new[c] = off[c] /\ off[c] \in Nat
  <2> DEFINE v == [off EXCEPT ![w + 1] = sent[e] + n]
  <2>1. PICK x \in Nat : x = sent[e] + n
    BY <1>4
  <2>2. [off EXCEPT ![w + 1] = x] \in Offsets
    BY <1>4 DEF Offsets
  <2>3. [off EXCEPT ![w + 1] = x][w + 1] = x
    BY <1>4 DEF Offsets
  <2>4. \A c \in 0..w : [off EXCEPT ![w + 1] = x][c] = off[c] /\ off[c] \in Nat
    <3> SUFFICES ASSUME NEW c \in 0..w PROVE [off EXCEPT ![w + 1] = x][c] = off[c] /\ off[c] \in Nat
      OBVIOUS
    <3>1. c \in Nat /\ c # w + 1
      OBVIOUS
    <3> QED BY <3>1 DEF Offsets
  <2>5. v = [off EXCEPT ![w + 1] = x]
    BY <2>1
  <2> HIDE DEF v
  <2>6. v \in Offsets /\ v[w + 1] = sent[e] + n /\ \A c \in 0..w : v[c] = off[c] /\ off[c] \in Nat
    BY <2>1, <2>2, <2>3, <2>4, <2>5, Zenon
  <2> QED BY <2>6, Zenon
<1>9. off[w] = sent[e] /\ new[w] = sent[e]
  BY <1>3, <1>4, <1>8 DEF Cuts
<1> HIDE DEF text, f
<1>10. /\ f \in Seq(Units) /\ Len(f) = HeadLen + TagLen + n
       /\ \A j \in 1..(HeadLen + TagLen + n) : f[j] = Unit(e, new, w, j)
  <2>1. text \in Seq(Nat) /\ Len(text) = n /\ \A i \in 1..n : text[i] = sent[e] + i
    BY <1>4 DEF text
  <2>2. WriteIndex(e) \in Indices /\ key[e] \in {1, 2}
    BY IndexType DEF TypeOK
  <2>3. new[w + 1] = new[w] + n /\ \A i \in 1..n : text[i] = new[w] + i
    BY <1>8, <1>9, <2>1, Zenon
  <2>4. ASSUME NEW t \in Seq(Nat), Len(t) = n, \A i \in 1..n : t[i] = new[w] + i
        PROVE  /\ Frame(<<WriteIndex(e), w>>, key[e], t) \in Seq(Units)
               /\ Len(Frame(<<WriteIndex(e), w>>, key[e], t)) = HeadLen + TagLen + n
               /\ \A j \in 1..(HeadLen + TagLen + n) :
                    Frame(<<WriteIndex(e), w>>, key[e], t)[j] = Unit(e, new, w, j)
    <3>1. new[w + 1] = new[w] + n /\ n \in Nat
      BY <1>4, <2>3
    <3> QED BY <2>2, <2>4, <3>1, FrameUnits
  <2>5. /\ Frame(<<WriteIndex(e), w>>, key[e], text) \in Seq(Units)
        /\ Len(Frame(<<WriteIndex(e), w>>, key[e], text)) = HeadLen + TagLen + n
        /\ \A j \in 1..(HeadLen + TagLen + n) :
              Frame(<<WriteIndex(e), w>>, key[e], text)[j] = Unit(e, new, w, j)
    BY <2>1, <2>3, <2>4, Zenon
  <2> QED BY <1>4, <2>5, Zenon DEF f
<1>11. /\ wire'[e] \in Seq(Units) /\ Len(wire'[e]) = Len(wire[e]) + Len(f)
       /\ DOMAIN wire'[e] = 1..(Len(wire[e]) + Len(f))
       /\ (\A i \in 1..Len(wire[e]) : wire'[e][i] = wire[e][i])
       /\ (\A i \in 1..Len(f) : wire'[e][Len(wire[e]) + i] = f[i])
       /\ Len(wire[e]) \in Nat /\ DOMAIN wire[e] = 1..Len(wire[e])
  <2>1. \A s, t \in Seq(Units) :
          /\ s \o t \in Seq(Units) /\ Len(s \o t) = Len(s) + Len(t)
          /\ DOMAIN (s \o t) = 1..(Len(s) + Len(t))
          /\ (\A i \in 1..Len(s) : (s \o t)[i] = s[i])
          /\ (\A i \in 1..Len(t) : (s \o t)[Len(s) + i] = t[i])
          /\ Len(s) \in Nat /\ DOMAIN s = 1..Len(s)
    BY AppendFacts
  <2>2. f \in Seq(Units)
    BY <1>10
  <2>3. /\ wire[e] \o f \in Seq(Units) /\ Len(wire[e] \o f) = Len(wire[e]) + Len(f)
        /\ DOMAIN (wire[e] \o f) = 1..(Len(wire[e]) + Len(f))
        /\ (\A i \in 1..Len(wire[e]) : (wire[e] \o f)[i] = wire[e][i])
        /\ (\A i \in 1..Len(f) : (wire[e] \o f)[Len(wire[e]) + i] = f[i])
        /\ Len(wire[e]) \in Nat /\ DOMAIN wire[e] = 1..Len(wire[e])
    BY <1>3, <2>1, <2>2, Zenon
  <2> QED BY <1>7, <2>3, Zenon
<1>12. Cuts(e, new)'
  <2>1. new[0] = 0
    BY <1>3, <1>4, <1>8 DEF Cuts
  <2>2. ASSUME NEW a \in 0..(w + 1), NEW b \in 0..(w + 1), a < b PROVE new[a] < new[b]
    <3>1. a \in 0..w
      BY <1>4, <2>2
    <3>2. CASE b = w + 1
      <4>1. off[a] <= sent[e]
        BY <1>3, <1>4, <3>1, Places
      <4>2. off[a] < sent[e] + n
        BY <1>4, <1>5, <1>8, <3>1, <4>1
      <4> QED BY <1>8, <3>1, <3>2, <4>2
    <3>3. CASE b # w + 1
      <4>1. b \in 0..w
        BY <1>4, <3>3
      <4>2. off[a] < off[b]
        BY <1>3, <1>4, <2>2, <3>1, <4>1 DEF Cuts
      <4> QED BY <1>8, <3>1, <4>1, <4>2
    <3> QED BY <3>2, <3>3
  <2>3. ASSUME NEW c \in 0..w PROVE new[c + 1] <= new[c] + MaxLen
    <3>1. CASE c = w
      BY <1>4, <1>8, <1>9, <3>1
    <3>2. CASE c # w
      <4>1. c \in 0..(w - 1) /\ c + 1 \in 0..w
        BY <1>4, <3>2
      <4>2. off[c + 1] <= off[c] + MaxLen
        BY <1>3, <1>4, <4>1 DEF Cuts
      <4> QED BY <1>8, <4>1, <4>2
    <3> QED BY <3>1, <3>2
  <2>4. (w + 1) - 1 = w
    BY <1>4
  <2> QED BY <1>7, <1>8, <2>1, <2>2, <2>3, <2>4, Zenon DEF Cuts
<1>13. rctr[r] \in Nat /\ (state[r] # "err" => rctr[r] \in 0..w /\ new[rctr[r]] = off[rctr[r]])
  <2>1. rctr[r] \in Nat
    BY DEF TypeOK
  <2>2. state[r] # "err" => rctr[r] <= w
    BY <1>3, <1>4 DEF Given
  <2>3. state[r] # "err" => rctr[r] \in 0..w
    BY <1>4, <2>1, <2>2
  <2> QED BY <1>8, <2>1, <2>3
<1>14. Given(e, r, new)'
  <2>1. Len(got[r]) <= sent[e] + n
    <3>1. Len(got[r]) \in Nat /\ Len(got[r]) <= sent[e]
      BY <1>3 DEF Given, TypeOK
    <3> QED BY <1>4, <3>1
  <2>2. state[r] # "err" => rctr[r] <= w + 1
    BY <1>4, <1>13
  <2>3. Idle' = Idle
    BY DEF Idle, MaxPayload, TagLen
  <2> QED BY <1>2, <1>3, <1>7, <1>13, <2>1, <2>2, <2>3, Zenon DEF Given
<1>15. \A c \in 0..w : Place(new, c) = Place(off, c)
  BY <1>8, Zenon DEF Place
<1>16. /\ Place(new, w + 1) = Place(off, w) + HeadLen + TagLen + n
       /\ Size(new, w) = n /\ Place(off, w) \in Nat
  <2>1. PICK o \in Nat, q \in Nat : o = off[w] /\ q = new[w + 1]
    BY <1>4, <1>8, <1>9
  <2>2. q = o + n /\ new[w] = o
    BY <1>8, <1>9, <2>1
  <2>3. (HeadLen + TagLen) * (w + 1) = (HeadLen + TagLen) * w + (HeadLen + TagLen) /\ (HeadLen + TagLen) * w \in Nat
    BY DEF HeadLen, TagLen
  <2>4. q + (HeadLen + TagLen) * (w + 1) = (o + (HeadLen + TagLen) * w) + HeadLen + TagLen + n
    BY <1>4, <2>2, SMTT(30) DEF HeadLen, TagLen
  <2>5. q - o = n /\ o + (HeadLen + TagLen) * w \in Nat
    BY <1>4, <2>2, <2>3
  <2> QED BY <2>1, <2>2, <2>4, <2>5, Zenon DEF Place, Size
<1>17. \A c \in 0..(w - 1) : Size(new, c) = Size(off, c) /\ \A j : Unit(e, new, c, j) = Unit(e, off, c, j)
  <2> SUFFICES ASSUME NEW c \in 0..(w - 1)
               PROVE  Size(new, c) = Size(off, c) /\ \A j : Unit(e, new, c, j) = Unit(e, off, c, j)
    OBVIOUS
  <2>1. c \in 0..w /\ c + 1 \in 0..w
    BY <1>4
  <2>2. new[c] = off[c] /\ new[c + 1] = off[c + 1]
    BY <1>8, <2>1
  <2>3. Size(new, c) = Size(off, c)
    BY <2>2, Zenon DEF Size
  <2> QED BY <2>2, <2>3, Zenon DEF Unit
<1>18. \A c, j : Unit(e, new, c, j)' = Unit(e, new, c, j)
  BY <1>2 DEF Unit, WriteIndex, Low, Plain, Msb, Size
<1>19. ASSUME state[r] = "on"
       PROVE  Shown(e, r, new)' /\ (faults = 0 /\ need[r] # Idle => need[r] = TagLen + Size(new, rctr[r]))
  <2>1. Shown(e, r, off)
    BY <1>3, <1>19 DEF Fits
  <2>2. Taken(r, off) + Len(wire[e]) = Place(off, w)
    BY <1>2, <1>4, <2>1 DEF Shown
  <2>3. rctr[r] \in 0..w
    BY <1>13, <1>19
  <2>4. Taken(r, new)' = Taken(r, off)
    <3>1. need'[r] = need[r] /\ Idle' = Idle /\ rctr'[r] = rctr[r] /\ HeadLen' = HeadLen /\ TagLen' = TagLen
      BY <1>2 DEF Idle, MaxPayload, TagLen, HeadLen
    <3>2. new[rctr[r]] = off[rctr[r]]
      BY <1>8, <2>3
    <3> QED BY <3>1, <3>2, Zenon DEF Taken, Place
  <2>5. Taken(r, off) \in Nat
    <3>2. rctr[r] \in Nat
      BY <1>13
    <3>1. Place(off, rctr[r]) \in Nat
      BY <1>3, <1>4, <3>2, Places, Zenon
    <3> QED BY <3>1 DEF Taken, HeadLen
  <2>6. PICK t \in Nat, l \in Nat, p \in Nat : t = Taken(r, off) /\ l = Len(wire[e]) /\ p = Place(off, w)
    BY <1>11, <1>16, <2>5
  <2>7. t + l = p /\ Len(wire'[e]) = l + (3 + n) /\ Len(f) = 3 + n
    <3>1. HeadLen + TagLen + n = 3 + n
      BY <1>4 DEF HeadLen, TagLen
    <3> QED BY <1>10, <1>11, <2>2, <2>6, <3>1, Zenon
  <2>8. Place(new, w + 1) = p + 3 + n
    BY <1>4, <1>16, <2>6 DEF HeadLen, TagLen
  <2>9. Taken(r, new)' + Len(wire'[e]) = Place(new, wctr'[e])
    <3>1. t + (l + (3 + n)) = p + 3 + n
      BY <1>4, <2>7
    <3> QED BY <1>7, <2>4, <2>6, <2>7, <2>8, <3>1, Zenon
  <2>10. ASSUME NEW c \in 0..w, NEW j \in 1..(HeadLen + TagLen + Size(new, c)),
                NEW k \in DOMAIN wire'[e], t + k = Place(new, c) + j
         PROVE  wire'[e][k] = Unit(e, new, c, j) \/ (faults > 0 /\ wire'[e][k] = Damaged)
    <3>1. k \in 1..(l + (3 + n)) /\ k \in Nat
      BY <1>11, <2>6, <2>7
    <3>2. CASE c = w
      <4>1. t + k = p + j /\ j \in 1..(3 + n) /\ j \in Nat
        BY <1>4, <1>15, <1>16, <2>6, <2>10, <3>2 DEF HeadLen, TagLen
      <4>2. k = l + j
        BY <2>7, <3>1, <4>1
      <4>3. wire'[e][k] = f[j]
        BY <1>11, <2>6, <2>7, <4>1, <4>2, Zenon
      <4>4. j \in 1..(HeadLen + TagLen + n)
        BY <4>1, <1>4 DEF HeadLen, TagLen
      <4> QED BY <1>10, <3>2, <4>3, <4>4, Zenon
    <3>3. CASE c # w
      <4>1. c \in 0..(w - 1)
        BY <1>4, <3>3
      <4>2. PICK x \in Nat, y \in Nat, z \in Nat : x = Place(off, c) /\ y = Place(off, c + 1) /\ z = Size(off, c)
        <5>1. c \in Nat /\ c + 1 \in Nat
          BY <4>1
        <5>2. Size(off, c) \in 1..MaxLen
          BY <1>3, <1>4, <4>1, Places, Zenon
        <5>3. Size(off, c) \in Nat
          BY <5>2
        <5>4. Place(off, c) \in Nat /\ Place(off, c + 1) \in Nat
          BY <1>3, <1>4, <5>1, Places, Zenon
        <5> QED BY <5>3, <5>4, Zenon
      <4>3. y = x + HeadLen + TagLen + z /\ y <= p
        BY <1>3, <1>4, <2>6, <4>1, <4>2, Places, Zenon
      <4>4. j \in 1..(HeadLen + TagLen + z) /\ t + k = x + j
        BY <1>15, <1>17, <2>10, <4>1, <4>2, Zenon
      <4>5. k <= l
        BY <2>7, <3>1, <4>3, <4>4 DEF HeadLen, TagLen
      <4>6. k \in 1..Len(wire[e]) /\ k \in DOMAIN wire[e]
        BY <1>11, <2>6, <3>1, <4>5
      <4>7. wire[e][k] = Unit(e, off, c, j) \/ (faults > 0 /\ wire[e][k] = Damaged)
        BY <1>4, <2>1, <2>6, <4>1, <4>2, <4>4, <4>6, Zenon DEF Shown
      <4> QED BY <1>11, <1>17, <4>1, <4>6, <4>7, Zenon
    <3> QED BY <3>2, <3>3
  <2>11. Shown(e, r, new)'
    <3>1. wctr'[e] - 1 = w /\ faults' = faults
      BY <1>2, <1>4, <1>7
    <3>2. (\A c : Place(new, c)' = Place(new, c)) /\ (\A c : Size(new, c)' = Size(new, c))
          /\ HeadLen' = HeadLen /\ TagLen' = TagLen
      BY DEF Place, Size, HeadLen, TagLen
    <3>3. Place(new, wctr[e])' = Place(new, wctr'[e]) /\ Place(new, wctr'[e]) \in Nat
      BY <1>4, <1>7, <2>8 DEF Place, HeadLen, TagLen
    <3>4. (Taken(r, new) + Len(wire[e]) = Place(new, wctr[e]))' /\ (Taken(r, new) + Len(wire[e]) <= Place(new, wctr[e]))'
      BY <2>9, <3>3
    <3>5. \A c \in 0..(wctr'[e] - 1) : \A j \in 1..(HeadLen' + TagLen' + Size(new, c)') :
            \A k \in DOMAIN wire'[e] : Taken(r, new)' + k = Place(new, c)' + j =>
              wire'[e][k] = Unit(e, new, c, j)' \/ (faults' > 0 /\ wire'[e][k] = Damaged)
      <4> SUFFICES ASSUME NEW c \in 0..w, NEW j \in 1..(HeadLen + TagLen + Size(new, c)),
                          NEW k \in DOMAIN wire'[e], t + k = Place(new, c) + j
                   PROVE  wire'[e][k] = Unit(e, new, c, j) \/ (faults > 0 /\ wire'[e][k] = Damaged)
        BY <1>18, <2>4, <2>6, <3>1, <3>2, Zenon
      <4> QED BY <2>10, Zenon
    <3> QED BY <3>4, <3>5, Zenon DEF Shown
  <2>12. ASSUME faults = 0, need[r] # Idle PROVE need[r] = TagLen + Size(new, rctr[r])
    <3>1. rctr[r] \in 0..(w - 1)
      BY <1>3, <1>4, <1>19, <2>1, <2>12, Standing
    <3>2. need[r] = TagLen + Size(off, rctr[r])
      BY <1>3, <1>19, <2>12 DEF Fits
    <3> QED BY <1>17, <3>1, <3>2, Zenon
  <2> QED BY <2>11, <2>12
<1>20. Fits(e, r, new)'
  <2>1. Size(new, rctr[r])' = Size(new, rctr[r]) /\ Idle' = Idle /\ TagLen' = TagLen
    BY <1>2 DEF Size, Idle, MaxPayload, TagLen
  <2> QED BY <1>2, <1>19, <2>1, Zenon DEF Fits
<1>21. Ended(e, r)'
  BY <1>2, <1>3 DEF Ended, Unharmed
<1>22. Link(e, new)'
  BY <1>12, <1>14, <1>20, <1>21, Zenon DEF Link
<1> QED BY <1>8, <1>11, <1>22, Zenon
\* What every fault leaves of a link: the text that was read and the counters are
\* as they were, and what is on the wire is cut off or damaged.
LEMMA FaultLink ==
    ASSUME TypeOK, wire \in [Ends -> Seq(Units)],
           NEW e \in Ends, NEW r \in Ends, r = Peer(e), NEW off \in Offsets, Link(e, off),
           UNCHANGED <<kind, number, key, writeVars, readVars>>, faults' = faults + 1,
           open' \subseteq open, wire'[e] \in Seq(Units), Len(wire'[e]) <= Len(wire[e]),
           open' = Ends => Len(wire'[e]) = Len(wire[e]),
           \A i \in 1..Len(wire'[e]) : wire'[e][i] = wire[e][i] \/ wire'[e][i] = Damaged
    PROVE  Link(e, off)'
<1>1. /\ Cuts(e, off) /\ Given(e, r, off) /\ Fits(e, r, off) /\ Ended(e, r)
      /\ wire[e] \in Seq(Units) /\ open \subseteq Ends
  BY DEF Link, TypeOK
<1>2. faults \in Nat /\ faults' > 0 /\ faults' # 0 /\ ~Unharmed'
  BY BoundsAssumption DEF TypeOK, Unharmed
<1>3. UNCHANGED <<kind, number, key, wctr, sent, rctr, buf, pos, need, state, got>>
  BY DEF writeVars, readVars
<1>4. Cuts(e, off)' /\ Given(e, r, off)'
  BY <1>1, <1>3 DEF Cuts, Given, Idle, MaxPayload
<1>5. /\ Len(wire[e]) \in Nat /\ DOMAIN wire[e] = 1..Len(wire[e])
      /\ Len(wire'[e]) \in Nat /\ DOMAIN wire'[e] = 1..Len(wire'[e])
      /\ DOMAIN wire'[e] \subseteq DOMAIN wire[e]
  <2>1. /\ Len(wire[e]) \in Nat /\ DOMAIN wire[e] = 1..Len(wire[e])
        /\ Len(wire'[e]) \in Nat /\ DOMAIN wire'[e] = 1..Len(wire'[e])
    BY <1>1
  <2> QED BY <2>1
<1>6. ASSUME Shown(e, r, off), state[r] = "on" PROVE Shown(e, r, off)'
  <2>1. (\A c, j : Unit(e, off, c, j)' = Unit(e, off, c, j)) /\ Taken(r, off)' = Taken(r, off)
    BY <1>3 DEF Unit, WriteIndex, Low, Plain, Msb, Size, Taken, Place, Idle, MaxPayload
  <2>2. Taken(r, off) \in Nat /\ Place(off, wctr[e]) \in Nat
    <3>1. wctr[e] \in Nat /\ Place(off, rctr[r]) \in Nat
      BY <1>1, <1>6, Standing
    <3>2. Place(off, wctr[e]) \in Nat
      BY <1>1, <3>1, Places
    <3> QED BY <3>1, <3>2 DEF Taken, HeadLen
  <2>3. Place(off, wctr[e])' = Place(off, wctr[e])
    BY <1>3 DEF Place
  <2>4. PICK t \in Nat, p \in Nat, l \in Nat, k \in Nat :
          t = Taken(r, off) /\ p = Place(off, wctr[e]) /\ l = Len(wire[e]) /\ k = Len(wire'[e])
    BY <1>5, <2>2
  <2>5. t + l <= p /\ k <= l
    BY <1>6, <2>4 DEF Shown
  <2>6. t + k <= p
    BY <2>5
  <2>7. (Taken(r, off) + Len(wire[e]) <= Place(off, wctr[e]))'
    BY <2>1, <2>3, <2>4, <2>6
  <2>8. open' = Ends => (Taken(r, off) + Len(wire[e]) = Place(off, wctr[e]))'
    <3> SUFFICES ASSUME open' = Ends PROVE (Taken(r, off) + Len(wire[e]) = Place(off, wctr[e]))'
      OBVIOUS
    <3>1. open = Ends
      BY <1>1, Zenon
    <3>2. t + l = p /\ k = l
      BY <1>6, <2>4, <3>1 DEF Shown
    <3> QED BY <2>1, <2>3, <2>4, <3>2
  <2>9. ASSUME NEW c \in 0..(wctr[e] - 1), NEW j \in 1..(HeadLen + TagLen + Size(off, c)),
               NEW i \in DOMAIN wire'[e], Taken(r, off) + i = Place(off, c) + j
        PROVE  wire'[e][i] = Unit(e, off, c, j) \/ wire'[e][i] = Damaged
    <3>1. i \in DOMAIN wire[e] /\ (wire'[e][i] = wire[e][i] \/ wire'[e][i] = Damaged)
      BY <1>5
    <3>2. wire[e][i] = Unit(e, off, c, j) \/ wire[e][i] = Damaged
      BY <1>6, <2>9, <3>1, Zenon DEF Shown
    <3> QED BY <3>1, <3>2
  <2>10. \A c \in 0..(wctr'[e] - 1) : \A j \in 1..(HeadLen' + TagLen' + Size(off, c)') :
            \A i \in DOMAIN wire'[e] : Taken(r, off)' + i = Place(off, c)' + j =>
              wire'[e][i] = Unit(e, off, c, j)' \/ (faults' > 0 /\ wire'[e][i] = Damaged)
    <3>1. wctr'[e] = wctr[e] /\ (\A c : Place(off, c)' = Place(off, c)) /\ (\A c : Size(off, c)' = Size(off, c))
          /\ HeadLen' = HeadLen /\ TagLen' = TagLen
      BY <1>3 DEF Place, Size, HeadLen, TagLen
    <3>2. wctr'[e] - 1 = wctr[e] - 1 /\ faults' > 0
      BY <1>2, <3>1
    <3>3. ASSUME NEW c \in 0..(wctr'[e] - 1), NEW j \in 1..(HeadLen' + TagLen' + Size(off, c)'),
                 NEW i \in DOMAIN wire'[e], Taken(r, off)' + i = Place(off, c)' + j
          PROVE  wire'[e][i] = Unit(e, off, c, j)' \/ wire'[e][i] = Damaged
      <4>1. c \in 0..(wctr[e] - 1)
        BY <3>2, Zenon
      <4>2. j \in 1..(HeadLen + TagLen + Size(off, c)) /\ Taken(r, off) + i = Place(off, c) + j
        BY <2>1, <3>1, <3>3, Zenon
      <4> QED BY <2>1, <2>9, <4>1, <4>2, Zenon
    <3> QED BY <3>2, <3>3, Zenon
  <2> QED BY <1>2, <2>7, <2>8, <2>10, Zenon DEF Shown
<1>7. Fits(e, r, off)'
  BY <1>1, <1>2, <1>3, <1>6 DEF Fits
<1>8. Ended(e, r)'
  <2> SUFFICES ASSUME state[r] = "eof"
               PROVE  /\ e \notin open' /\ pos[r] = Len(buf[r]) /\ need[r] = Idle
                      /\ \A k \in DOMAIN wire'[e] : "val" \notin DOMAIN wire'[e][k]
    BY <1>2, <1>3 DEF Ended, Idle, MaxPayload
  <2>1. e \notin open /\ pos[r] = Len(buf[r]) /\ need[r] = Idle
        /\ \A k \in DOMAIN wire[e] : "val" \notin DOMAIN wire[e][k]
    BY <1>1 DEF Ended
  <2>2. "val" \notin DOMAIN Damaged
    BY DEF Damaged
  <2>3. ASSUME NEW k \in DOMAIN wire'[e] PROVE "val" \notin DOMAIN wire'[e][k]
    <3>1. k \in DOMAIN wire[e] /\ (wire'[e][k] = wire[e][k] \/ wire'[e][k] = Damaged)
      BY <1>5
    <3> QED BY <2>1, <2>2, <3>1, Zenon
  <2>4. e \notin open'
    BY <2>1
  <2> QED BY <2>1, <2>3, <2>4, Zenon
<1> QED BY <1>4, <1>7, <1>8 DEF Link

\* A cut takes the end of what is on the wire, and closes.
LEMMA CutWire ==
    ASSUME TypeOK, wire \in [Ends -> Seq(Units)], NEW e \in Ends, Cut(e)
    PROVE  /\ wire'[e] \in Seq(Units) /\ Len(wire'[e]) <= Len(wire[e]) /\ open' # Ends
           /\ \A i \in 1..Len(wire'[e]) : wire'[e][i] = wire[e][i]
<1>1. PICK k \in 0..Len(wire[e]) : wire' = [wire EXCEPT ![e] = SubSeq(@, 1, k)]
  BY Zenon DEF Cut
<1>2. wire'[e] = SubSeq(wire[e], 1, k) /\ wire[e] \in Seq(Units)
  BY <1>1
<1>3. \A s \in Seq(Units) : \A m \in 0..Len(s) :
          SubSeq(s, 1, m) \in Seq(Units) /\ Len(SubSeq(s, 1, m)) = m
          /\ \A i \in 1..m : SubSeq(s, 1, m)[i] = s[i]
  BY SplitFacts
<1>4. SubSeq(wire[e], 1, k) \in Seq(Units) /\ Len(SubSeq(wire[e], 1, k)) = k
      /\ \A i \in 1..k : SubSeq(wire[e], 1, k)[i] = wire[e][i]
  BY <1>2, <1>3, Zenon
<1>5. k <= Len(wire[e])
  BY <1>2
<1>6. open' # Ends
  BY DEF Cut
<1> QED BY <1>2, <1>4, <1>5, <1>6, Zenon

\* Damage changes one unit.
LEMMA DamageWire ==
    ASSUME TypeOK, wire \in [Ends -> Seq(Units)], NEW e \in Ends, Damage(e)
    PROVE  /\ wire'[e] \in Seq(Units) /\ Len(wire'[e]) = Len(wire[e])
           /\ \A i \in 1..Len(wire'[e]) : wire'[e][i] = wire[e][i] \/ wire'[e][i] = Damaged
<1>1. PICK k \in DOMAIN wire[e] : wire' = [wire EXCEPT ![e][k] = Damaged]
  BY Zenon DEF Damage
<1>2. wire'[e] = [wire[e] EXCEPT ![k] = Damaged] /\ wire[e] \in Seq(Units)
  BY <1>1
<1>3. Damaged \in Units
  BY DEF Units
<1>4. PICK s \in Seq(Units) : s = wire[e]
  BY <1>2
<1>5. k \in DOMAIN s
  BY <1>4
<1>6. [s EXCEPT ![k] = Damaged] \in Seq(Units)
  BY <1>3, <1>5
<1>7. Len([s EXCEPT ![k] = Damaged]) = Len(s)
  BY <1>5
<1>8. \A i \in 1..Len(s) : [s EXCEPT ![k] = Damaged][i] = s[i] \/ [s EXCEPT ![k] = Damaged][i] = Damaged
  BY <1>5
<1>9. wire'[e] = [s EXCEPT ![k] = Damaged]
  BY <1>2, <1>4
<1> QED BY <1>4, <1>6, <1>7, <1>8, <1>9, Zenon
------------------------------------------------------------------------------
(* The invariant.                                                            *)

\* What a read takes from the wire leaves units there.
LEMMA ReadWire ==
    ASSUME Typed, NEW e \in Ends, NEW m \in Nat, m <= Len(wire[e]),
           wire' = [wire EXCEPT ![e] = SubSeq(@, m + 1, Len(@))]
    PROVE  wire' \in [Ends -> Seq(Units)]
<1>1. \A s \in Seq(Units) : \A k \in 0..Len(s) : SubSeq(s, k + 1, Len(s)) \in Seq(Units)
  BY SplitFacts
<1>2. wire[e] \in Seq(Units) /\ m \in 0..Len(wire[e])
  BY DEF Typed
<1>3. SubSeq(wire[e], m + 1, Len(wire[e])) \in Seq(Units)
  BY <1>1, <1>2, Zenon
<1> QED BY <1>3 DEF Typed

\* A read keeps the types.
LEMMA ReadTypes ==
    ASSUME StreamInv, NEW e \in Ends, NEW r \in Ends, e = Peer(r), Read(r)
    PROVE  Typed'
<1>0. Typed /\ TypeOK /\ wctr \in [Ends -> Nat] /\ wire \in [Ends -> Seq(Units)] /\ r = Peer(e)
  BY PeerFacts DEF StreamInv, Typed
<1>1. PICK off \in Offsets : Link(e, off)
  BY DEF StreamInv
<1>2. /\ kind \in {"control", "data", "speedtest"} /\ number \in StreamNumbers \cup {0}
      /\ key \in [Ends -> {1, 2}] /\ open \subseteq Ends /\ faults \in 0..MaxFaults
      /\ (\A p \in Ends : wctr[p] \in 0..MaxWrites[p]) /\ rctr \in [Ends -> Nat]
      /\ buf \in [Ends -> Seq(Nat)] /\ pos \in [Ends -> Nat]
      /\ (\A p \in Ends : pos[p] <= Len(buf[p]))
      /\ need \in [Ends -> TagLen..Idle] /\ state \in [Ends -> {"on", "eof", "err"}]
      /\ sent \in [Ends -> Nat] /\ got \in [Ends -> Seq(Nat)]
  BY <1>0, Zenon DEF TypeOK
<1>3. TagLen' = TagLen /\ Idle' = Idle /\ Idle \in TagLen..Idle /\ TagLen \in Nat /\ Idle \in Nat
  BY BoundsAssumption DEF Idle, MaxPayload, TagLen
<1>4. CASE ReadLength(r) \/ ReadEnd(r)
  <2>1. /\ buf' = [buf EXCEPT ![r] = <<>>] /\ pos' = [pos EXCEPT ![r] = 0]
        /\ UNCHANGED <<kind, number, key, wctr, sent, rctr, got, open, faults>>
    BY <1>4, Zenon DEF ReadLength, ReadEnd, Begun, writeVars
  <2>2. buf' \in [Ends -> Seq(Nat)] /\ pos' \in [Ends -> Nat] /\ \A p \in Ends : pos'[p] <= Len(buf'[p])
    <3>1. \A p \in Ends : (p = r => buf'[p] = <<>> /\ pos'[p] = 0)
                          /\ (p # r => buf'[p] = buf[p] /\ pos'[p] = pos[p])
      BY <1>2, <2>1
    <3>2. <<>> \in Seq(Nat) /\ Len(<<>>) = 0
      OBVIOUS
    <3>3. \A p \in Ends : pos'[p] <= Len(buf'[p])
      <4>1. Len(<<>>) <= Len(<<>>) /\ 0 <= Len(<<>>)
        BY <3>2
      <4> QED BY <1>2, <3>1, <4>1, Zenon
    <3> QED BY <1>2, <2>1, <3>2, <3>3
  <2>3. need' \in [Ends -> TagLen..Idle] /\ state' \in [Ends -> {"on", "eof", "err"}]
        /\ wire' \in [Ends -> Seq(Units)]
    <3>1. CASE ReadEnd(r)
      <4>1. PICK st \in {"eof"} \cup (IF faults > 0 THEN {"err"} ELSE {}) : state' = [state EXCEPT ![r] = st]
        BY <3>1, Zenon DEF ReadEnd
      <4>2. st \in {"on", "eof", "err"} /\ need' = need /\ wire' = wire
        BY <3>1 DEF ReadEnd
      <4> QED BY <1>0, <1>2, <4>1, <4>2
    <3>2. CASE ReadLength(r)
      <4>1. PICK n \in Lengths(SubSeq(wire[e], 1, HeadLen)) :
              IF LengthOk(n) THEN need' = [need EXCEPT ![r] = n] /\ UNCHANGED state
              ELSE state' = [state EXCEPT ![r] = "err"] /\ UNCHANGED need
        BY <3>2, Zenon DEF ReadLength
      <4>2. n \in 0..MaxPayload
        BY LengthRange
      <4>3. LengthOk(n) => n \in TagLen..Idle
        BY <4>2, BoundsAssumption DEF LengthOk, Idle, MaxPayload, TagLen
      <4>4. need' \in [Ends -> TagLen..Idle] /\ state' \in [Ends -> {"on", "eof", "err"}]
        <5>1. CASE LengthOk(n)
          BY <1>2, <4>1, <4>3, <5>1
        <5>2. CASE ~LengthOk(n)
          BY <1>2, <4>1, <5>2
        <5> QED BY <5>1, <5>2
      <4>5. /\ HeadLen \in Nat /\ HeadLen <= Len(wire[e])
            /\ wire' = [wire EXCEPT ![e] = SubSeq(@, HeadLen + 1, Len(@))]
        <5>1. Len(wire[e]) >= HeadLen /\ wire' = [wire EXCEPT ![e] = SubSeq(@, HeadLen + 1, Len(@))]
          BY <3>2, Zenon DEF ReadLength
        <5>2. Len(wire[e]) \in Nat
          BY <1>0
        <5> QED BY <5>1, <5>2 DEF HeadLen
      <4> QED BY <1>0, <4>4, <4>5, ReadWire
    <3> QED BY <1>4, <3>1, <3>2
  <2> QED BY <1>0, <1>2, <1>3, <2>1, <2>2, <2>3, Zenon DEF Typed, TypeOK
<1>5. CASE ReadCut(r)
  <2>1. /\ state' = [state EXCEPT ![r] = "err"] /\ need' = [need EXCEPT ![r] = Idle]
        /\ UNCHANGED <<kind, number, key, wctr, sent, rctr, buf, pos, got, wire, open, faults>>
    BY <1>5, Zenon DEF ReadCut, CutPayload, writeVars
  <2>2. need' \in [Ends -> TagLen..Idle] /\ state' \in [Ends -> {"on", "eof", "err"}]
    BY <1>2, <1>3, <2>1
  <2> QED BY <1>0, <1>2, <1>3, <2>1, <2>2, Zenon DEF Typed, TypeOK
<1>6. ASSUME NEW n \in 1..MaxRead, Serve(r, n) PROVE Typed'
  <2> DEFINE upto == Lesser(pos[r] + n, Len(buf[r]))
             part == SubSeq(buf[r], pos[r] + 1, upto)
  <2>1. /\ pos[r] < Len(buf[r])
        /\ got' = [got EXCEPT ![r] = @ \o part] /\ pos' = [pos EXCEPT ![r] = upto]
        /\ UNCHANGED <<kind, number, key, wctr, sent, rctr, buf, need, state, wire, open, faults>>
    BY <1>6, Zenon DEF Serve, writeVars
  <2>2. pos[r] \in Nat /\ buf[r] \in Seq(Nat) /\ got[r] \in Seq(Nat) /\ Len(buf[r]) \in Nat
    BY <1>2
  <2>3. upto \in Nat /\ pos[r] <= upto /\ upto <= Len(buf[r])
    BY <2>1, <2>2 DEF Lesser
  <2> HIDE DEF upto
  <2>4. part \in Seq(Nat)
    <3>1. \A s \in Seq(Nat) : \A a, b \in Nat : a <= b /\ b <= Len(s) => SubSeq(s, a + 1, b) \in Seq(Nat)
      BY MiddleFacts
    <3> QED BY <2>2, <2>3, <3>1, Zenon
  <2> HIDE DEF part
  <2>5. got[r] \o part \in Seq(Nat)
    <3>1. \A s, t \in Seq(Nat) : s \o t \in Seq(Nat)
      OBVIOUS
    <3> QED BY <2>2, <2>4, <3>1, Zenon
  <2>6. got' \in [Ends -> Seq(Nat)] /\ pos' \in [Ends -> Nat]
    BY <1>2, <2>1, <2>3, <2>5
  <2>7. \A p \in Ends : pos'[p] <= Len(buf'[p])
    BY <1>2, <2>1, <2>3
  <2> QED BY <1>0, <1>2, <1>3, <2>1, <2>6, <2>7, Zenon DEF Typed, TypeOK
<1>7. ASSUME NEW n \in 1..MaxRead, ReadPayload(r, n) PROVE Typed'
  <2> DEFINE payload == SubSeq(wire[e], 1, need[r])
             text == Text(payload)
             m == Lesser(n, Len(text))
  <2>1. /\ state[r] = "on" /\ need[r] # Idle /\ Len(wire[e]) >= need[r]
        /\ rctr' = [rctr EXCEPT ![r] = @ + 1] /\ need' = [need EXCEPT ![r] = Idle]
        /\ wire' = [wire EXCEPT ![e] = SubSeq(@, need[r] + 1, Len(@))]
        /\ UNCHANGED <<kind, number, key, wctr, sent, open, faults>>
    BY <1>7, Zenon DEF ReadPayload, writeVars
  <2>2. need[r] \in Nat /\ Len(wire[e]) \in Nat
    <3>1. need[r] \in TagLen..Idle
      BY <1>2
    <3> QED BY <1>0, <1>3, <3>1
  <2>3. wire' \in [Ends -> Seq(Units)] /\ need' \in [Ends -> TagLen..Idle] /\ rctr' \in [Ends -> Nat]
    <3>1. need[r] <= Len(wire[e])
      BY <2>1, <2>2
    <3>2. wire' \in [Ends -> Seq(Units)]
      BY <1>0, <2>1, <2>2, <3>1, ReadWire
    <3>3. need' \in [Ends -> TagLen..Idle]
      BY <1>2, <1>3, <2>1
    <3>4. rctr' \in [Ends -> Nat]
      BY <1>2, <2>1, SMTT(30)
    <3> QED BY <3>2, <3>3, <3>4
  <2>4. /\ buf' \in [Ends -> Seq(Nat)] /\ pos' \in [Ends -> Nat] /\ got' \in [Ends -> Seq(Nat)]
        /\ state' \in [Ends -> {"on", "eof", "err"}] /\ \A p \in Ends : pos'[p] <= Len(buf'[p])
    <3>1. CASE ~Opens(r, payload)
      <4> HIDE DEF payload
      <4>1. state' = [state EXCEPT ![r] = "err"] /\ UNCHANGED <<buf, pos, got>>
        BY <1>7, <3>1, Zenon DEF ReadPayload, payload
      <4> QED BY <1>2, <4>1
    <3>2. CASE Opens(r, payload)
      <4>1. text \in Seq(Nat)
        <5>1. /\ Cuts(e, off) /\ Given(e, r, off) /\ Shown(e, r, off) /\ wire[e] \in Seq(Units)
          BY <1>0, <1>1, <2>1 DEF Link, Fits
        <5> HIDE DEF text
        <5> QED BY <1>0, <2>1, <3>2, <5>1, OpensFacts, Zenon DEF text
      <4>2. /\ buf' = [buf EXCEPT ![r] = text] /\ pos' = [pos EXCEPT ![r] = m]
            /\ got' = [got EXCEPT ![r] = @ \o SubSeq(text, 1, m)]
            /\ (state' = [state EXCEPT ![r] = "eof"] \/ state' = state)
        <5> HIDE DEF text, payload
        <5> QED BY <1>7, <3>2, Zenon DEF ReadPayload, PosAfter, text, payload
      <4> HIDE DEF text, payload
      <4>3. m \in Nat /\ m <= Len(text) /\ m \in 0..Len(text)
        BY <4>1 DEF Lesser
      <4> HIDE DEF m
      <4>4. got[r] \o SubSeq(text, 1, m) \in Seq(Nat)
        <5>1. \A s \in Seq(Nat) : \A k \in 0..Len(s) : SubSeq(s, 1, k) \in Seq(Nat)
          BY SplitFacts
        <5>2. \A s, t \in Seq(Nat) : s \o t \in Seq(Nat)
          OBVIOUS
        <5>3. got[r] \in Seq(Nat)
          BY <1>2
        <5> QED BY <4>1, <4>3, <5>1, <5>2, <5>3, Zenon
      <4>5. buf' \in [Ends -> Seq(Nat)] /\ pos' \in [Ends -> Nat]
        BY <1>2, <4>1, <4>2, <4>3
      <4>6. got' \in [Ends -> Seq(Nat)]
        BY <1>2, <4>2, <4>4
      <4>7. state' \in [Ends -> {"on", "eof", "err"}]
        BY <1>2, <4>2
      <4>8. \A p \in Ends : pos'[p] <= Len(buf'[p])
        <5>1. \A p \in Ends : (p = r => buf'[p] = text /\ pos'[p] = m)
                              /\ (p # r => buf'[p] = buf[p] /\ pos'[p] = pos[p])
          BY <1>2, <4>2
        <5> QED BY <1>2, <4>3, <5>1, Zenon
      <4> QED BY <4>5, <4>6, <4>7, <4>8
    <3> QED BY <3>1, <3>2
  <2> QED BY <1>0, <1>2, <1>3, <2>1, <2>3, <2>4, Zenon DEF Typed, TypeOK
<1> QED BY <1>4, <1>5, <1>6, <1>7, Zenon DEF Read
\* So does everything else that happens.
LEMMA OtherTypes ==
    ASSUME StreamInv, NEW e \in Ends, WriteCall(e) \/ Close(e) \/ Cut(e) \/ Damage(e)
    PROVE  Typed'
<1>0. Typed /\ TypeOK /\ wctr \in [Ends -> Nat] /\ wire \in [Ends -> Seq(Units)]
  BY DEF StreamInv, Typed
<1>1. PICK off \in Offsets : Link(e, off)
  BY DEF StreamInv
<1>2. /\ kind \in {"control", "data", "speedtest"} /\ number \in StreamNumbers \cup {0}
      /\ key \in [Ends -> {1, 2}] /\ open \subseteq Ends /\ faults \in 0..MaxFaults
      /\ (\A p \in Ends : wctr[p] \in 0..MaxWrites[p]) /\ rctr \in [Ends -> Nat]
      /\ buf \in [Ends -> Seq(Nat)] /\ pos \in [Ends -> Nat]
      /\ (\A p \in Ends : pos[p] <= Len(buf[p]))
      /\ need \in [Ends -> TagLen..Idle] /\ state \in [Ends -> {"on", "eof", "err"}]
      /\ sent \in [Ends -> Nat] /\ got \in [Ends -> Seq(Nat)]
  BY <1>0, Zenon DEF TypeOK
<1>3. TagLen' = TagLen /\ Idle' = Idle /\ MaxFaults \in Nat
  BY BoundsAssumption DEF Idle, MaxPayload, TagLen
<1>4. CASE WriteCall(e)
  <2>1. PICK n \in 0..MaxLen : sent' = [sent EXCEPT ![e] = @ + n]
    BY <1>4, Zenon DEF WriteCall
  <2>2. /\ wctr[e] < MaxWrites[e] /\ wctr' = [wctr EXCEPT ![e] = @ + 1]
        /\ UNCHANGED <<kind, number, key, rctr, buf, pos, need, state, got, open, faults>>
    BY <1>4, Zenon DEF WriteCall, readVars
  <2>3. \E x : wire' = [wire EXCEPT ![e] = x]
    BY <1>4, Zenon DEF WriteCall
  <2>4. wire'[e] \in Seq(Units)
    BY <1>0, <1>1, <1>4, PeerFacts, WriteLink
  <2>5. wire' \in [Ends -> Seq(Units)]
    BY <1>0, <2>3, <2>4
  <2>6. sent' \in [Ends -> Nat]
    <3>1. n \in Nat
      BY BoundsAssumption
    <3> QED BY <1>2, <2>1, <3>1
  <2>7. wctr' \in [Ends -> Nat]
    BY <1>0, <2>2
  <2>8. \A p \in Ends : wctr'[p] \in 0..MaxWrites[p]
    <3> SUFFICES ASSUME NEW p \in Ends PROVE wctr'[p] \in 0..MaxWrites[p]
      OBVIOUS
    <3>1. MaxWrites[p] \in Nat /\ wctr[p] \in 0..MaxWrites[p]
      BY <1>2, BoundsAssumption DEF Ends
    <3>2. CASE p = e
      BY <1>0, <2>2, <3>1, <3>2
    <3>3. CASE p # e
      BY <1>0, <2>2, <3>1, <3>3
    <3> QED BY <3>2, <3>3
  <2> QED BY <1>2, <1>3, <2>2, <2>5, <2>6, <2>7, <2>8, Zenon DEF Typed, TypeOK
<1>5. CASE Close(e)
  <2>1. /\ open' = open \ {e}
        /\ UNCHANGED <<kind, number, key, wctr, sent, rctr, buf, pos, need, state, got, wire, faults>>
    BY <1>5, Zenon DEF Close, writeVars, readVars
  <2>2. open' \subseteq Ends
    BY <1>2, <2>1
  <2> QED BY <1>0, <1>2, <1>3, <2>1, <2>2, Zenon DEF Typed, TypeOK
<1>6. CASE Cut(e) \/ Damage(e)
  <2>1. /\ open' \in {open, open \ {e}} /\ faults < MaxFaults /\ faults' = faults + 1
        /\ UNCHANGED <<kind, number, key, wctr, sent, rctr, buf, pos, need, state, got>>
    BY <1>6 DEF Cut, Damage, Spend, writeVars, readVars
  <2>2. open' \subseteq Ends /\ faults' \in 0..MaxFaults
    BY <1>2, <1>3, <2>1
  <2>3. wire' \in [Ends -> Seq(Units)]
    <3>1. wire'[e] \in Seq(Units)
      BY <1>0, <1>6, CutWire, DamageWire
    <3>2. \E x : wire' = [wire EXCEPT ![e] = x]
      BY <1>6 DEF Cut, Damage
    <3> QED BY <1>0, <3>1, <3>2
  <2> QED BY <1>0, <1>2, <1>3, <2>1, <2>2, <2>3, Zenon DEF Typed, TypeOK
<1> QED BY <1>4, <1>5, <1>6

\* A reader keeps the link that it reads from.
LEMMA ReadLink ==
    ASSUME Typed, NEW e \in Ends, NEW r \in Ends, e = Peer(r), NEW off \in Offsets,
           Link(e, off), Read(r)
    PROVE  Link(e, off)'
<1>1. TypeOK /\ wire \in [Ends -> Seq(Units)]
  BY DEF Typed
<1>2. CASE ReadLength(r)
  BY <1>1, <1>2, ReadLengthLink
<1>3. CASE ReadEnd(r)
  BY <1>1, <1>3, ReadEndLink
<1>4. CASE ReadCut(r)
  BY <1>1, <1>4, ReadCutLink
<1>5. CASE \E n \in 1..MaxRead : Serve(r, n)
  BY <1>1, <1>5, ServeLink
<1>6. CASE \E n \in 1..MaxRead : ReadPayload(r, n)
  BY <1>1, <1>6, ReadPayloadLink
<1> QED BY <1>2, <1>3, <1>4, <1>5, <1>6, Zenon DEF Read

\* What an end does to what the other one sends is reading, closing or nothing;
\* what it sends itself is another link.
LEMMA OtherLink ==
    ASSUME Typed, NEW e \in Ends, NEW r \in Ends, e = Peer(r), NEW off \in Offsets,
           Link(r, off), Read(r) \/ WriteCall(e) \/ Close(e) \/ Close(r) \/ Cut(e) \/ Damage(e)
    PROVE  Link(r, off)'
<1>0. TypeOK /\ wctr \in [Ends -> Nat] /\ wire \in [Ends -> Seq(Units)] /\ e # r /\ Peer(r) = e
      /\ open \subseteq Ends /\ faults \in Nat
  <2>1. TypeOK /\ wctr \in [Ends -> Nat] /\ wire \in [Ends -> Seq(Units)]
    BY DEF Typed
  <2>2. open \subseteq Ends /\ faults \in 0..MaxFaults /\ MaxFaults \in Nat
    BY <2>1, BoundsAssumption DEF TypeOK
  <2>3. e # r /\ Peer(r) = e
    BY PeerFacts
  <2> QED BY <2>1, <2>2, <2>3
<1>1. /\ UNCHANGED <<kind, number, key>> /\ open' \subseteq open /\ faults' \in Nat /\ faults <= faults'
  <2>1. CASE Read(r)
    BY <1>0, <2>1, SMTT(30) DEF Read, ReadLength, ReadEnd, ReadCut, Serve, ReadPayload
  <2>2. CASE WriteCall(e) \/ Close(e) \/ Close(r)
    BY <1>0, <2>2 DEF WriteCall, Close
  <2>3. CASE Cut(e) \/ Damage(e)
    BY <1>0, <2>3 DEF Cut, Damage, Spend
  <2> QED BY <2>1, <2>2, <2>3
<1>2. /\ wctr'[r] = wctr[r] /\ sent'[r] = sent[r] /\ wire'[r] = wire[r]
      /\ rctr'[e] = rctr[e] /\ need'[e] = need[e] /\ buf'[e] = buf[e] /\ pos'[e] = pos[e]
      /\ state'[e] = state[e] /\ got'[e] = got[e]
  <2>0. /\ sent \in [Ends -> Nat] /\ rctr \in [Ends -> Nat] /\ need \in [Ends -> TagLen..Idle]
        /\ buf \in [Ends -> Seq(Nat)] /\ pos \in [Ends -> Nat] /\ got \in [Ends -> Seq(Nat)]
        /\ state \in [Ends -> {"on", "eof", "err"}]
    BY <1>0, Zenon DEF TypeOK
  <2>1. CASE WriteCall(e)
    <3>1. \E z : wctr' = [wctr EXCEPT ![e] = z]
      BY <2>1, Zenon DEF WriteCall
    <3>3. \E z : sent' = [sent EXCEPT ![e] = z]
      BY <2>1, Zenon DEF WriteCall
    <3>4. \E z : wire' = [wire EXCEPT ![e] = z]
      BY <2>1, Zenon DEF WriteCall
    <3>2. UNCHANGED <<rctr, need, buf, pos, state, got>>
      BY <2>1, Zenon DEF WriteCall, readVars
    <3> QED BY <1>0, <2>0, <3>1, <3>2, <3>3, <3>4
  <2>2. CASE Close(e) \/ Close(r)
    BY <2>2 DEF Close, writeVars, readVars
  <2>3. CASE Cut(e) \/ Damage(e)
    <3>1. \E z : wire' = [wire EXCEPT ![e] = z]
      BY <2>3 DEF Cut, Damage
    <3>2. UNCHANGED <<wctr, sent, rctr, need, buf, pos, state, got>>
      BY <2>3 DEF Cut, Damage, writeVars, readVars
    <3> QED BY <1>0, <3>1, <3>2
  <2>4. CASE Read(r)
    <3>1. UNCHANGED <<wctr, sent>>
      BY <2>4 DEF Read, ReadLength, ReadEnd, ReadCut, Serve, ReadPayload, writeVars
    <3>2. wire' = wire \/ \E z : wire' = [wire EXCEPT ![e] = z]
      BY <2>4, Zenon DEF Read, ReadLength, ReadEnd, ReadCut, Serve, ReadPayload
    <3>3. rctr' = rctr \/ \E z : rctr' = [rctr EXCEPT ![r] = z]
      BY <2>4, Zenon DEF Read, ReadLength, ReadEnd, ReadCut, Serve, ReadPayload
    <3>4. need' = need \/ \E z : need' = [need EXCEPT ![r] = z]
      BY <2>4, Zenon DEF Read, ReadLength, ReadEnd, ReadCut, Serve, ReadPayload
    <3>5. buf' = buf \/ \E z : buf' = [buf EXCEPT ![r] = z]
      BY <2>4, Zenon DEF Read, ReadLength, ReadEnd, ReadCut, Begun, Serve, ReadPayload
    <3>8. pos' = pos \/ \E z : pos' = [pos EXCEPT ![r] = z]
      BY <2>4, Zenon DEF Read, ReadLength, ReadEnd, ReadCut, Begun, Serve, ReadPayload
    <3>6. state' = state \/ \E z : state' = [state EXCEPT ![r] = z]
      BY <2>4, Zenon DEF Read, ReadLength, ReadEnd, ReadCut, Serve, ReadPayload
    <3>7. got' = got \/ \E z : got' = [got EXCEPT ![r] = z]
      BY <2>4, Zenon DEF Read, ReadLength, ReadEnd, ReadCut, Serve, ReadPayload
    <3> QED BY <1>0, <2>0, <3>1, <3>2, <3>3, <3>4, <3>5, <3>6, <3>7, <3>8
  <2> QED BY <2>1, <2>2, <2>3, <2>4
<1> QED BY <1>0, <1>1, <1>2, LinkSame, Zenon
\* Nothing has been written or read at first.
LEMMA StreamInvInit == Init => StreamInv
<1> SUFFICES ASSUME Init PROVE StreamInv
  OBVIOUS
<1>1. /\ wctr = [e \in Ends |-> 0] /\ rctr = [e \in Ends |-> 0]
      /\ buf = [e \in Ends |-> <<>>] /\ pos = [e \in Ends |-> 0]
      /\ need = [e \in Ends |-> Idle] /\ state = [e \in Ends |-> "on"]
      /\ wire = [e \in Ends |-> <<>>] /\ open = Ends
      /\ sent = [e \in Ends |-> 0] /\ got = [e \in Ends |-> <<>>] /\ faults = 0
      /\ key \in [Ends -> {1, 2}]
      /\ kind \in {"control", "data", "speedtest"} /\ number \in StreamNumbers \cup {0}
  BY DEF Init
<1>2. Typed
  <2>1. Idle \in TagLen..Idle /\ MaxFaults \in Nat
    BY BoundsAssumption DEF Idle, MaxPayload, TagLen
  <2>2. \A e \in Ends : wctr[e] \in 0..MaxWrites[e]
    BY <1>1, BoundsAssumption DEF Ends
  <2>3. wctr \in [Ends -> Nat] /\ rctr \in [Ends -> Nat] /\ pos \in [Ends -> Nat] /\ sent \in [Ends -> Nat]
    BY <1>1
  <2>4. buf \in [Ends -> Seq(Nat)] /\ got \in [Ends -> Seq(Nat)] /\ \A e \in Ends : pos[e] <= Len(buf[e])
    BY <1>1
  <2>5. wire \in [Ends -> Seq(Units)] /\ state \in [Ends -> {"on", "eof", "err"}]
    BY <1>1
  <2>6. need \in [Ends -> TagLen..Idle] /\ open \subseteq Ends /\ faults \in 0..MaxFaults
    BY <1>1, <2>1
  <2> QED BY <1>1, <2>2, <2>3, <2>4, <2>5, <2>6, Zenon DEF Typed, TypeOK
<1>3. ASSUME NEW e \in Ends PROVE \E off \in Offsets : Link(e, off)
  <2> DEFINE z == [i \in Nat |-> 0]
  <2>1. z \in Offsets /\ z[0] = 0
    BY DEF Offsets
  <2>2. PICK off \in Offsets : off[0] = 0
    BY <2>1, Zenon
  <2>3. Peer(e) \in Ends
    BY PeerFacts
  <2>4. PICK r \in Ends : r = Peer(e)
    BY <2>3
  <2>5. /\ wctr[e] = 0 /\ rctr[r] = 0 /\ buf[r] = <<>> /\ pos[r] = 0 /\ need[r] = Idle
        /\ state[r] = "on" /\ wire[e] = <<>> /\ sent[e] = 0 /\ got[r] = <<>>
    BY <1>1
  <2>6. 0..(0 - 1) = {} /\ (\A a, b \in 0..0 : ~(a < b)) /\ DOMAIN <<>> = {} /\ Len(<<>>) = 0
    OBVIOUS
  <2>7. Cuts(e, off)
    BY <2>2, <2>5, <2>6 DEF Cuts
  <2>8. Given(e, r, off)
    BY <2>2, <2>5, <2>6 DEF Given
  <2>9. Place(off, 0) = 0 /\ Taken(r, off) = 0
    BY <2>2, <2>5 DEF Place, Taken, HeadLen, TagLen
  <2>10. Shown(e, r, off)
    BY <2>5, <2>6, <2>9 DEF Shown
  <2>11. Fits(e, r, off)
    BY <2>5, <2>10 DEF Fits
  <2>12. Ended(e, r)
    BY <2>5 DEF Ended
  <2> QED BY <2>4, <2>7, <2>8, <2>11, <2>12 DEF Link
<1> QED BY <1>2, <1>3 DEF StreamInv

\* Every step keeps it.
LEMMA StreamInvStep == StreamInv /\ [Next]_vars => StreamInv'
<1> SUFFICES ASSUME StreamInv, [Next]_vars PROVE StreamInv'
  OBVIOUS
<1>0. Typed /\ TypeOK /\ wctr \in [Ends -> Nat] /\ wire \in [Ends -> Seq(Units)]
  BY DEF StreamInv, Typed
<1>1. ASSUME NEW p \in Ends, WriteCall(p) \/ Close(p) \/ Read(p) \/ Cut(p) \/ Damage(p)
      PROVE  StreamInv'
  <2>1. PICK q \in Ends : q = Peer(p) /\ p = Peer(q) /\ q # p /\ Ends = {p, q}
    BY PeerFacts
  <2>2. Typed'
    BY <1>1, <2>1, OtherTypes, ReadTypes
  <2>3. PICK off \in Offsets : Link(p, off)
    BY DEF StreamInv
  <2>4. PICK of2 \in Offsets : Link(q, of2)
    BY DEF StreamInv
  <2>5. \E new \in Offsets : Link(p, new)'
    <3>1. CASE WriteCall(p)
      BY <1>0, <2>1, <2>3, <3>1, WriteLink
    <3>2. CASE Close(p) \/ Read(p)
      <4>1. Link(p, off)'
        BY <1>0, <2>1, <2>3, <3>2, OtherLink
      <4> QED BY <4>1
    <3>3. CASE Cut(p) \/ Damage(p)
      <4>1. /\ UNCHANGED <<kind, number, key, writeVars, readVars>> /\ faults' = faults + 1
            /\ open' \subseteq open
        BY <3>3 DEF Cut, Damage, Spend
      <4>2. /\ wire'[p] \in Seq(Units) /\ Len(wire'[p]) <= Len(wire[p])
            /\ (open' = Ends => Len(wire'[p]) = Len(wire[p]))
            /\ \A i \in 1..Len(wire'[p]) : wire'[p][i] = wire[p][i] \/ wire'[p][i] = Damaged
        <5>1. CASE Cut(p)
          BY <1>0, <5>1, CutWire, Zenon
        <5>2. CASE Damage(p)
          <6>1. /\ wire'[p] \in Seq(Units) /\ Len(wire'[p]) = Len(wire[p])
                /\ \A i \in 1..Len(wire'[p]) : wire'[p][i] = wire[p][i] \/ wire'[p][i] = Damaged
            BY <1>0, <5>2, DamageWire, Zenon
          <6>2. Len(wire[p]) \in Nat
            BY <1>0
          <6>3. Len(wire'[p]) <= Len(wire[p])
            BY <6>1, <6>2
          <6> QED BY <6>1, <6>3, Zenon
        <5> QED BY <3>3, <5>1, <5>2
      <4>3. Link(p, off)'
        BY <1>0, <2>1, <2>3, <4>1, <4>2, FaultLink
      <4> QED BY <4>3
    <3> QED BY <1>1, <3>1, <3>2, <3>3
  <2>6. Link(q, of2)'
    <3>1. CASE Read(p)
      BY <1>0, <2>1, <2>4, <3>1, ReadLink
    <3>2. CASE WriteCall(p) \/ Close(p) \/ Cut(p) \/ Damage(p)
      BY <1>0, <2>1, <2>4, <3>2, OtherLink
    <3> QED BY <1>1, <3>1, <3>2
  <2>7. \A e \in Ends : \E new \in Offsets : Link(e, new)'
    BY <2>1, <2>5, <2>6
  <2> QED BY <2>2, <2>7 DEF StreamInv
<1>2. CASE UNCHANGED vars
  <2>1. UNCHANGED <<kind, number, key, wctr, rctr, buf, pos, need, state, wire, open, sent, got, faults>>
    BY <1>2 DEF vars, writeVars, readVars
  <2>2. Typed'
    BY <1>0, <2>1 DEF Typed, TypeOK, Idle, MaxPayload
  <2>3. ASSUME NEW e \in Ends PROVE \E off \in Offsets : Link(e, off)'
    <3>1. PICK off \in Offsets : Link(e, off)
      BY DEF StreamInv
    <3>2. open \subseteq Ends /\ faults \in Nat /\ faults <= faults
      BY <1>0, BoundsAssumption DEF TypeOK
    <3>3. Link(e, off)'
      BY <2>1, <3>1, <3>2, LinkSame
    <3> QED BY <3>3
  <2> QED BY <2>2, <2>3 DEF StreamInv
<1> QED BY <1>1, <1>2 DEF Next

\* The invariant holds in every state.
LEMMA StreamInvAlways == Spec => []StreamInv
<1> QED BY StreamInvInit, StreamInvStep, PTL DEF Spec
------------------------------------------------------------------------------
\* The variables have their types, and a read never waits for less than a tag
\* nor serves more of a buffer than there is.
THEOREM StreamTypeOK == Spec => []TypeOK
<1>1. StreamInv => TypeOK
  BY DEF StreamInv, Typed
<1> QED BY <1>1, StreamInvAlways, PTL

\* It has each of the properties of the runs.
LEMMA InvInOrder == StreamInv => InOrder
<1> SUFFICES ASSUME StreamInv, NEW e \in Ends
             PROVE  Len(got[e]) <= sent[Peer(e)] /\ \A i \in DOMAIN got[e] : got[e][i] = i
  BY DEF InOrder
<1>1. PICK p \in Ends : p = Peer(e) /\ Peer(p) = e
  BY PeerFacts
<1>2. PICK off \in Offsets : Link(p, off)
  BY DEF StreamInv
<1> QED BY <1>1, <1>2 DEF Link, Given

LEMMA InvNoSpuriousError == StreamInv => NoSpuriousError
<1> SUFFICES ASSUME StreamInv, Unharmed, NEW e \in Ends PROVE state[e] # "err"
  BY DEF NoSpuriousError
<1>1. PICK p \in Ends : p = Peer(e) /\ Peer(p) = e
  BY PeerFacts
<1>2. PICK off \in Offsets : Link(p, off)
  BY DEF StreamInv
<1> QED BY <1>1, <1>2 DEF Link, Ended

LEMMA InvEofComplete == StreamInv => EofComplete
<1> SUFFICES ASSUME StreamInv, NEW e \in Ends, state[e] = "eof"
             PROVE  /\ Unharmed => Peer(e) \notin open /\ Len(got[e]) = sent[Peer(e)]
                    /\ pos[e] = Len(buf[e]) /\ need[e] = Idle
                    /\ \A k \in DOMAIN wire[Peer(e)] : "val" \notin DOMAIN wire[Peer(e)][k]
  BY DEF EofComplete
<1>1. PICK p \in Ends : p = Peer(e) /\ Peer(p) = e
  BY PeerFacts
<1>2. PICK off \in Offsets : Link(p, off)
  BY DEF StreamInv
<1> QED BY <1>1, <1>2, Zenon DEF Link, Ended, Unharmed

\* What read gives its caller is what write was given, in order and without a gap
\* or a repetition, whatever is cut or damaged (encrypted_stream.rs:33-94).
THEOREM StreamInOrder == Spec => []InOrder
BY InvInOrder, StreamInvAlways, PTL

\* Two ends with one key never refuse each other's frames, on any kind of
\* connection, unless something was cut or damaged (encrypted_stream.rs:69-72,
\* 104-107).
THEOREM StreamNoSpuriousError == Spec => []NoSpuriousError
BY InvNoSpuriousError, StreamInvAlways, PTL

\* An end of the stream is reported at the end of a frame only, and when nothing
\* was lost everything written has been read by then
\* (encrypted_stream.rs:48-66, 99).
THEOREM StreamEofComplete == Spec => []EofComplete
BY InvEofComplete, StreamInvAlways, PTL
------------------------------------------------------------------------------
(* The stream is a pipe of bytes.                                            *)

\* Bytes of the buffer that go to the caller are at least one.
LEMMA ServeGets ==
    ASSUME TypeOK, NEW r \in Ends, NEW n \in 1..MaxRead, Serve(r, n)
    PROVE  Len(got'[r]) > Len(got[r])
<1> DEFINE upto == Lesser(pos[r] + n, Len(buf[r]))
           part == SubSeq(buf[r], pos[r] + 1, upto)
<1>1. pos[r] < Len(buf[r]) /\ got' = [got EXCEPT ![r] = @ \o part]
  BY Zenon DEF Serve
<1>2. /\ buf[r] \in Seq(Nat) /\ got[r] \in Seq(Nat) /\ pos[r] \in Nat /\ Len(buf[r]) \in Nat
      /\ Len(got[r]) \in Nat /\ got \in [Ends -> Seq(Nat)]
  BY DEF TypeOK
<1>3. upto \in Nat /\ pos[r] < upto /\ upto <= Len(buf[r])
  BY <1>1, <1>2, SMTT(30) DEF Lesser
<1> HIDE DEF upto
<1>4. part \in Seq(Nat) /\ Len(part) = upto - pos[r]
  <2>1. pos[r] <= upto
    BY <1>2, <1>3
  <2> QED BY <1>2, <1>3, <2>1, MiddleFacts
<1> HIDE DEF part
<1>5. got'[r] = got[r] \o part
  BY <1>1, <1>2
<1>6. Len(got'[r]) = Len(got[r]) + Len(part)
  BY <1>2, <1>4, <1>5, AppendFacts, SMTT(30)
<1> QED BY <1>2, <1>3, <1>4, <1>6

\* A payload that opens has at least one byte for the caller, and is no end.
LEMMA PayloadGets ==
    ASSUME StreamInv, NEW r \in Ends, NEW n \in 1..MaxRead, ReadPayload(r, n)
    PROVE  \/ got' = got /\ state' = [state EXCEPT ![r] = "err"]
           \/ /\ Len(got'[r]) > Len(got[r]) /\ state' = state
              /\ \E x : got' = [got EXCEPT ![r] = x]
<1>1. PICK e \in Ends : e = Peer(r) /\ r = Peer(e)
  BY PeerFacts
<1>2. PICK off \in Offsets : Link(e, off)
  BY DEF StreamInv
<1> DEFINE payload == SubSeq(wire[e], 1, need[r])
           text == Text(payload)
           m == Lesser(n, Len(text))
           c == rctr[r]
<1>3. /\ state[r] = "on" /\ need[r] # Idle /\ Len(wire[e]) >= need[r]
      /\ TypeOK /\ wire[e] \in Seq(Units) /\ got \in [Ends -> Seq(Nat)] /\ got[r] \in Seq(Nat)
  BY <1>1 DEF ReadPayload, StreamInv, Typed, TypeOK
<1>4. Cuts(e, off) /\ Given(e, r, off) /\ Shown(e, r, off)
  BY <1>1, <1>2, <1>3 DEF Link, Fits
<1>5. CASE ~Opens(r, payload)
  <2> HIDE DEF payload
  <2> QED BY <1>1, <1>5, Zenon DEF ReadPayload, payload
<1>6. CASE Opens(r, payload)
  <2>1. /\ c \in 0..(wctr[e] - 1) /\ text \in Seq(Nat) /\ Len(text) = Size(off, c)
    <3> HIDE DEF text
    <3>1. c \in 0..(wctr[e] - 1)
      BY <1>3, <1>4, <1>6, OpensFacts, Zenon
    <3>2. text \in Seq(Nat) /\ Len(text) = Size(off, c)
      BY <1>3, <1>4, <1>6, OpensFacts, Zenon DEF text
    <3> QED BY <3>1, <3>2
  <2>2. /\ got' = [got EXCEPT ![r] = @ \o SubSeq(text, 1, m)]
        /\ (text # <<>> => state' = state)
    <3> HIDE DEF text, payload
    <3> QED BY <1>1, <1>6, Zenon DEF ReadPayload, text, payload
  <2> HIDE DEF payload, text
  <2>3. Size(off, c) \in 1..MaxLen
    <3>1. wctr[e] \in Nat
      BY <1>3, <1>4, Standing
    <3> QED BY <1>4, <2>1, <3>1, Places, Zenon
  <2>4. Len(text) \in Nat /\ m \in 1..Len(text) /\ text # <<>>
    BY <2>1, <2>3, BoundsAssumption DEF Lesser
  <2> HIDE DEF m
  <2>5. SubSeq(text, 1, m) \in Seq(Nat) /\ Len(SubSeq(text, 1, m)) = m
    <3>1. m \in 0..Len(text)
      BY <2>4
    <3> QED BY <2>1, <3>1, SplitFacts
  <2>6. got'[r] = got[r] \o SubSeq(text, 1, m)
    BY <1>3, <2>2
  <2>7. Len(got'[r]) = Len(got[r]) + m /\ Len(got[r]) \in Nat
    BY <1>3, <2>5, <2>6, AppendFacts
  <2>8. Len(got'[r]) > Len(got[r])
    BY <2>4, <2>7
  <2>9. \E x : got' = [got EXCEPT ![r] = x]
    BY <2>2, Zenon
  <2> QED BY <2>2, <2>4, <2>8, <2>9
<1> QED BY <1>5, <1>6

\* What a read gives the caller more of is what the pipe gives.
LEMMA GetOne ==
    ASSUME StreamInv, StreamInv', NEW r \in Ends, r \in open, state[r] = "on",
           Len(got'[r]) > Len(got[r]), NEW x, got' = [got EXCEPT ![r] = x],
           UNCHANGED <<sent, open, state, faults, key>>
    PROVE  Bytes!Get(r)
<1>1. got \in [Ends -> Seq(Nat)] /\ got[r] \in Seq(Nat) /\ got'[r] \in Seq(Nat) /\ sent \in [Ends -> Nat]
  BY DEF StreamInv, Typed, TypeOK
<1>2. Len(got'[r]) <= sent[Peer(r)] /\ \A i \in DOMAIN got'[r] : got'[r][i] = i
  <2>1. InOrder'
    BY InvInOrder, PTL
  <2> QED BY <2>1 DEF InOrder
<1>3. PICK k \in Nat : k = Len(got'[r])
  BY <1>1
<1>4. got'[r] = [i \in 1..k |-> i]
  <2>1. \A s \in Seq(Nat) : Len(s) = k /\ (\A i \in DOMAIN s : s[i] = i) => s = [i \in 1..k |-> i]
    OBVIOUS
  <2> QED BY <1>1, <1>2, <1>3, <2>1, Zenon
<1>5. k \in (Len(got[r]) + 1)..sent[Peer(r)]
  <2>1. sent[Peer(r)] \in Nat /\ Len(got[r]) \in Nat
    BY <1>1, PeerFacts
  <2> QED BY <1>2, <1>3, <2>1
<1>6. got' = [got EXCEPT ![r] = [i \in 1..k |-> i]]
  BY <1>1, <1>4
<1>7. (~Unharmed)' = ~Unharmed
  BY DEF Unharmed
<1> QED BY <1>5, <1>6, <1>7, Zenon DEF Bytes!Get

\* A read that tells the caller of the end or of an error tells it what the pipe
\* may tell it.
LEMMA StopOne ==
    ASSUME StreamInv, StreamInv', NEW r \in Ends, r \in open, state[r] = "on",
           NEW st \in {"eof", "err"}, state' = [state EXCEPT ![r] = st],
           UNCHANGED <<sent, got, open, faults, key>>
    PROVE  Bytes!End(r) \/ Bytes!Fail(r)
<1>1. state'[r] = st /\ (~Unharmed)' = ~Unharmed /\ Unharmed' = Unharmed
  BY DEF Unharmed, StreamInv, Typed, TypeOK
<1>2. CASE st = "eof"
  <2>1. EofComplete'
    BY InvEofComplete, PTL
  <2>2. Peer(r) \notin open /\ (~Unharmed \/ Len(got[r]) = sent[Peer(r)])
    <3>1. \E off \in Offsets : Link(Peer(r), off)'
      BY PeerFacts DEF StreamInv
    <3>2. Ended(Peer(r), r)'
      BY <3>1, PeerFacts DEF Link
    <3>3. Peer(r) \notin open'
      BY <1>1, <1>2, <3>2 DEF Ended
    <3>4. Unharmed' => Len(got'[r]) = sent'[Peer(r)]
      BY <1>1, <1>2, <2>1 DEF EofComplete
    <3> QED BY <1>1, <3>3, <3>4
  <2> QED BY <1>1, <1>2, <2>2, Zenon DEF Bytes!End
<1>3. CASE st = "err"
  <2>1. NoSpuriousError'
    BY InvNoSpuriousError, PTL
  <2>2. ~Unharmed
    BY <1>1, <1>3, <2>1 DEF NoSpuriousError
  <2> QED BY <1>1, <1>3, <2>2, Zenon DEF Bytes!Fail
<1> QED BY <1>2, <1>3

\* A read is a step of the pipe at its end, or none.
LEMMA ReadPipes ==
    ASSUME StreamInv, StreamInv', NEW r \in Ends, Read(r)
    PROVE  Bytes!Get(r) \/ Bytes!End(r) \/ Bytes!Fail(r) \/ UNCHANGED Bytes!vars
<1>1. r \in open /\ TypeOK
  BY DEF Read, StreamInv, Typed
<1>2. ASSUME UNCHANGED <<sent, got, open, state, faults, key>> PROVE UNCHANGED Bytes!vars
  BY <1>2 DEF Bytes!vars, Unharmed
<1>3. CASE ReadLength(r)
  <2>1. state[r] = "on" /\ UNCHANGED <<sent, got, open, faults, key>>
        /\ (UNCHANGED state \/ state' = [state EXCEPT ![r] = "err"])
    BY <1>3, Zenon DEF ReadLength, Begun, writeVars
  <2> QED BY <1>1, <1>2, <2>1, StopOne
<1>4. CASE ReadEnd(r)
  <2>1. state[r] = "on" /\ UNCHANGED <<sent, got, open, faults, key>>
    BY <1>4, Zenon DEF ReadEnd, Begun, writeVars
  <2>2. \E st \in {"eof", "err"} : state' = [state EXCEPT ![r] = st]
    BY <1>4 DEF ReadEnd
  <2> QED BY <1>1, <2>1, <2>2, StopOne
<1>5. CASE ReadCut(r)
  <2>1. state[r] = "on" /\ UNCHANGED <<sent, got, open, faults, key>> /\ state' = [state EXCEPT ![r] = "err"]
    BY <1>5, Zenon DEF ReadCut, CutPayload, writeVars
  <2> QED BY <1>1, <2>1, StopOne
<1>6. ASSUME NEW n \in 1..MaxRead, Serve(r, n) PROVE Bytes!Get(r)
  <2>1. state[r] = "on" /\ UNCHANGED <<sent, open, state, faults, key>>
        /\ \E x : got' = [got EXCEPT ![r] = x]
    BY <1>6, Zenon DEF Serve, writeVars
  <2>2. Len(got'[r]) > Len(got[r])
    BY <1>1, <1>6, ServeGets
  <2> QED BY <1>1, <2>1, <2>2, GetOne
<1>7. ASSUME NEW n \in 1..MaxRead, ReadPayload(r, n)
      PROVE  Bytes!Get(r) \/ Bytes!End(r) \/ Bytes!Fail(r)
  <2>1. state[r] = "on" /\ UNCHANGED <<sent, open, faults, key>>
    BY <1>7, Zenon DEF ReadPayload, writeVars
  <2>2. CASE got' = got /\ state' = [state EXCEPT ![r] = "err"]
    BY <1>1, <2>1, <2>2, StopOne
  <2>3. CASE /\ Len(got'[r]) > Len(got[r]) /\ state' = state
             /\ \E x : got' = [got EXCEPT ![r] = x]
    BY <1>1, <2>1, <2>3, GetOne
  <2> QED BY <1>7, <2>2, <2>3, PayloadGets
<1> QED BY <1>3, <1>4, <1>5, <1>6, <1>7, Zenon DEF Read

\* Writing, closing, a cut and damage are those of the pipe.
LEMMA OtherPipes ==
    ASSUME StreamInv, NEW e \in Ends, WriteCall(e) \/ Close(e) \/ Cut(e) \/ Damage(e)
    PROVE  Bytes!Write(e) \/ Bytes!Close(e) \/ Bytes!Harm
<1>1. sent \in [Ends -> Nat] /\ open \subseteq Ends /\ faults \in Nat /\ TypeOK
  BY BoundsAssumption DEF StreamInv, Typed, TypeOK
<1>2. CASE WriteCall(e)
  <2>1. open = Ends /\ UNCHANGED <<got, open, state, faults, key>>
    BY <1>2, Zenon DEF WriteCall, readVars
  <2>2. PICK n \in 0..MaxLen :
          LET frames == Frames(e, [i \in 1..n |-> sent[e] + i]) IN
          frames # <<>> /\ sent' = [sent EXCEPT ![e] = @ + n]
    BY <1>2, Zenon DEF WriteCall
  <2>3. n # 0
    <3>1. n = 0 => [i \in 1..n |-> sent[e] + i] = <<>>
      OBVIOUS
    <3> QED BY <2>2, <3>1, Zenon DEF Frames
  <2>4. n \in Nat
    BY BoundsAssumption
  <2>5. sent'[e] > sent[e] /\ sent' = [sent EXCEPT ![e] = sent'[e]]
    BY <1>1, <2>2, <2>3, <2>4
  <2>6. (~Unharmed)' = ~Unharmed
    BY <2>1 DEF Unharmed
  <2> QED BY <2>1, <2>5, <2>6, Zenon DEF Bytes!Write
<1>3. CASE Close(e)
  <2>1. e \in open /\ open' = open \ {e} /\ UNCHANGED <<sent, got, state, faults, key>>
    BY <1>3, Zenon DEF Close, writeVars, readVars
  <2>2. (~Unharmed)' = ~Unharmed
    BY <2>1 DEF Unharmed
  <2> QED BY <2>1, <2>2, Zenon DEF Bytes!Close
<1>4. CASE Cut(e) \/ Damage(e)
  <2>1. faults' = faults + 1 /\ open' \in SUBSET open /\ UNCHANGED <<sent, got, state>>
    BY <1>4 DEF Cut, Damage, Spend, writeVars, readVars
  <2>2. (~Unharmed)' = TRUE
    BY <1>1, <2>1 DEF Unharmed
  <2> QED BY <2>1, <2>2, Zenon DEF Bytes!Harm
<1> QED BY <1>2, <1>3, <1>4

\* The connection is at every moment the plain pipe of bytes that it stands for:
\* frames, counters and buffers are nothing that its users see
\* (encrypted_stream.rs:31-119, 133-150).
THEOREM StreamCarriesBytes == Spec => CarriesBytes
<1>1. Init => Bytes!Init
  <2> SUFFICES ASSUME Init PROVE Bytes!Init
    OBVIOUS
  <2> DEFINE h == ~Unharmed
  <2>1. h = TRUE \/ h = FALSE
    OBVIOUS
  <2> HIDE DEF h
  <2>2. h \in BOOLEAN
    BY <2>1
  <2> QED BY <2>2 DEF Init, Bytes!Init, h
<1>2. StreamInv /\ StreamInv' /\ [Next]_vars => [Bytes!Next]_(Bytes!vars)
  <2> SUFFICES ASSUME StreamInv, StreamInv', [Next]_vars PROVE Bytes!Next \/ UNCHANGED Bytes!vars
    OBVIOUS
  <2>1. CASE UNCHANGED vars
    <3>1. UNCHANGED <<sent, got, open, state, faults, key>>
      BY <2>1 DEF vars, writeVars, readVars
    <3> QED BY <3>1 DEF Bytes!vars, Unharmed
  <2>2. ASSUME NEW e \in Ends, WriteCall(e) \/ Close(e) \/ Read(e) \/ Cut(e) \/ Damage(e)
        PROVE  Bytes!Next \/ UNCHANGED Bytes!vars
    <3>1. CASE Read(e)
      BY <3>1, ReadPipes, Zenon DEF Bytes!Next
    <3>2. CASE WriteCall(e) \/ Close(e) \/ Cut(e) \/ Damage(e)
      BY <3>2, OtherPipes, Zenon DEF Bytes!Next
    <3> QED BY <2>2, <3>1, <3>2
  <2> QED BY <2>1, <2>2 DEF Next
<1> QED BY <1>1, <1>2, StreamInvAlways, PTL DEF Spec, CarriesBytes, Bytes!Spec
==============================================================================
