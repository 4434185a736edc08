--------------------------- MODULE DiscoveryProofs ---------------------------
(***************************************************************************)
(* Proofs about Discovery, for any receivers, senders, hosts and keys.       *)
(*                                                                          *)
(* As long as a search has a steady receiver, only that one's thread runs    *)
(* and nobody tells it to stop: what the search hears is from it, and so it  *)
(* misses it only by losing every announcement.  Each of the seconds of the  *)
(* search but the first begins with the thread awake, so it announces itself *)
(* before the second ends: seconds that are left and datagrams that were     *)
(* lost make up for one another (Counting).                                  *)
(***************************************************************************)
EXTENDS Discovery, TLAPS

\* The thread of the steady receiver is the only one, and goes on.
Steady ==
    \A s \in Senders : steady[s] # Nobody =>
        /\ thread[steady[s]] # "none" /\ ~stop[steady[s]]
        /\ \A r \in Receivers : thread[r] # "none" => r = steady[s]

\* The search hears that one, or has lost what it announced.
Counting ==
    \A s \in Senders : steady[s] # Nobody /\ search[s] = "search" =>
        /\ heard[s] \in {Nobody, steady[s]}
        /\ heard[s] = Nobody => lost[s] + left[s] >= 2 + wake[steady[s]]

\* Only the thread that outlives run_receiver announces late, and when it was
\* told to stop only what it was about to.
Stopping ==
    \A r \in Receivers :
        /\ main[r] # "returned" => late[r] = 0 /\ ~stop[r]
        /\ stop[r] => late[r] = 0 \/ (late[r] = 1 /\ thread[r] # "send")

DiscoveryInv == TypeOK /\ Steady /\ Counting /\ Stopping /\ Finds
------------------------------------------------------------------------------
(* The types.                                                                *)

\* A search has a steady receiver only if there is one whose thread runs, and
\* no other.
LEMMA SoleRuns ==
    /\ Sole \in Receivers \cup {Nobody}
    /\ Sole # Nobody =>
          /\ thread[Sole] # "none" /\ ~stop[Sole]
          /\ \A r \in Receivers : thread[r] # "none" => r = Sole
<1>1. CASE \E r \in Receivers : Running = {r} /\ ~stop[r]
  <2>1. PICK r \in Receivers : Running = {r} /\ ~stop[r]
    BY <1>1
  <2>2. Sole = CHOOSE q \in Receivers : Running = {q}
    BY <1>1 DEF Sole
  <2>3. Sole \in Receivers /\ Running = {Sole}
    BY <2>1, <2>2
  <2>4. Sole = r
    BY <2>1, <2>3
  <2> QED BY <2>1, <2>3, <2>4 DEF Running
<1>2. CASE ~\E r \in Receivers : Running = {r} /\ ~stop[r]
  BY <1>2 DEF Sole
<1> QED BY <1>1, <1>2

\* The receiver's process goes on, or ends with its thread.
LEMMA ProcessTypes ==
    ASSUME TypeOK, NEW r \in Receivers, NEW pc \in {"off", "returned"}, NEW flag \in BOOLEAN,
           Process(r, pc, flag)
    PROVE  /\ main' \in [Receivers -> {"off", "starting", "listen", "returned"}]
           /\ stop' \in [Receivers -> BOOLEAN]
           /\ thread' \in [Receivers -> {"none", "check", "send"}]
           /\ wake' \in [Receivers -> 0..AnnounceSeconds] /\ late' \in [Receivers -> 0..2]
           /\ \A q \in Receivers : main'[q] = "off" => thread'[q] = "none"
<1> USE DEF TypeOK, Process, AnnounceSeconds
<1>1. CASE pc = "off"
  BY <1>1
<1>2. CASE pc = "returned"
  BY <1>2
<1> QED BY <1>1, <1>2

\* Every step keeps the types.
LEMMA TypeStep ==
    ASSUME TypeOK, [Next]_vars
    PROVE  TypeOK'
<1> USE NamesAssumption DEF AnnounceSeconds, SearchSeconds
<1>0. Nobody \in Receivers \cup {Nobody} /\ (\A s \in Senders : 0 \in 0..MaxLost)
  OBVIOUS
<1>1. CASE UNCHANGED vars
  BY <1>1 DEF TypeOK, vars, receiverVars, senderVars
<1>2. ASSUME NEW r \in Receivers, Start(r) PROVE TypeOK'
  BY <1>2 DEF TypeOK, Start, Disturbed, senderVars
<1>3. ASSUME NEW r \in Receivers, Bind(r) PROVE TypeOK'
  BY <1>3 DEF TypeOK, Bind, senderVars
<1>4. ASSUME NEW r \in Receivers, NEW flag \in BOOLEAN, Return(r, flag) PROVE TypeOK'
  <2>1. PICK pc \in {"off", "returned"} : Process(r, pc, flag)
    BY <1>4 DEF Return
  <2>2. /\ main' \in [Receivers -> {"off", "starting", "listen", "returned"}]
        /\ stop' \in [Receivers -> BOOLEAN]
        /\ thread' \in [Receivers -> {"none", "check", "send"}]
        /\ wake' \in [Receivers -> 0..AnnounceSeconds] /\ late' \in [Receivers -> 0..2]
        /\ \A q \in Receivers : main'[q] = "off" => thread'[q] = "none"
    BY <2>1, ProcessTypes
  <2> QED BY <1>4, <2>2 DEF TypeOK, Return, Disturbed, senderVars
<1>5. ASSUME NEW r \in Receivers, PressEnter(r) PROVE TypeOK'
  <2>1. /\ main' \in [Receivers -> {"off", "starting", "listen", "returned"}]
        /\ stop' \in [Receivers -> BOOLEAN]
        /\ thread' \in [Receivers -> {"none", "check", "send"}]
        /\ wake' \in [Receivers -> 0..AnnounceSeconds] /\ late' \in [Receivers -> 0..2]
        /\ \A q \in Receivers : main'[q] = "off" => thread'[q] = "none"
    BY <1>5, ProcessTypes DEF PressEnter
  <2> QED BY <1>5, <2>1 DEF TypeOK, PressEnter, Disturbed, senderVars
<1>6. ASSUME NEW r \in Receivers, Check(r) PROVE TypeOK'
  BY <1>6 DEF TypeOK, Check, senderVars
<1>7. ASSUME NEW r \in Receivers, Announce(r) PROVE TypeOK'
  <2>1. heard' \in [Senders -> Receivers \cup {Nobody}]
    BY <1>7 DEF Announce, TypeOK
  <2>2. lost' \in [Senders -> 0..MaxLost]
    <3>1. PICK missed \in SUBSET {s \in Searching : lost[s] < MaxLost} :
             lost' = [s \in Senders |-> IF s \in missed THEN lost[s] + 1 ELSE lost[s]]
      BY <1>7 DEF Announce
    <3>2. \A s \in Senders : lost[s] \in 0..MaxLost /\ (s \in missed => lost[s] < MaxLost)
      BY DEF TypeOK
    <3>3. \A s \in Senders : (IF s \in missed THEN lost[s] + 1 ELSE lost[s]) \in 0..MaxLost
      BY <3>2
    <3> QED BY <3>1, <3>3
  <2>3. late' \in [Receivers -> 0..2] /\ wake' \in [Receivers -> 0..1]
    BY <1>7 DEF Announce, TypeOK
  <2>4. /\ thread' \in [Receivers -> {"none", "check", "send"}]
        /\ \A q \in Receivers : main'[q] = "off" => thread'[q] = "none"
    BY <1>7 DEF Announce, TypeOK
  <2> QED BY <1>7, <2>1, <2>2, <2>3, <2>4 DEF Announce, TypeOK
<1>8. ASSUME NEW s \in Senders, Search(s) PROVE TypeOK'
  <2>1. UNCHANGED receiverVars
    BY <1>8 DEF Search
  <2>2. /\ heard' \in [Senders -> Receivers \cup {Nobody}]
        /\ target' \in [Senders -> Receivers \cup {Nobody}]
        /\ lost' \in [Senders -> 0..MaxLost]
    BY <1>8 DEF Search, TypeOK
  <2>3. CASE search' = [search EXCEPT ![s] = "busy"] /\ UNCHANGED <<left, steady>>
    BY <2>1, <2>2, <2>3 DEF TypeOK, receiverVars
  <2>4. CASE /\ search' = [search EXCEPT ![s] = "search"]
             /\ left' = [left EXCEPT ![s] = SearchTime]
             /\ steady' = [steady EXCEPT ![s] = Sole]
    <3>1. SearchTime \in 0..3
      BY DEF SearchTime
    <3> QED BY <2>1, <2>2, <2>4, <3>1, SoleRuns DEF TypeOK, receiverVars
  <2> QED BY <1>8, <2>3, <2>4 DEF Search
<1>9. ASSUME NEW s \in Senders, Answer(s) PROVE TypeOK'
  BY <1>9 DEF Answer, Hear, TimeOut, TypeOK, receiverVars
<1>10. ASSUME NEW s \in Senders, NEW r \in Receivers \cup {Nobody}, ConnectTo(s, r) PROVE TypeOK'
  BY <1>10 DEF ConnectTo, SearchOver, TypeOK, receiverVars
<1>11. CASE Tick
  <2>1. wake' \in [Receivers -> 0..1]
    BY <1>11 DEF Tick, Less, TypeOK
  <2>2. left' \in [Senders -> 0..3]
    BY <1>11 DEF Tick, TypeOK
  <2> QED BY <1>11, <2>1, <2>2 DEF Tick, TypeOK
<1>12. ASSUME NEW r \in Receivers, Main(r) \/ Broadcaster(r) PROVE TypeOK'
  BY <1>2, <1>3, <1>4, <1>5, <1>6, <1>7, <1>12
     DEF Main, Broadcaster, BindFails, ReturnStopped, ReturnOnError
<1>13. ASSUME NEW s \in Senders, Sender(s) PROVE TypeOK'
  <2>1. target[s] \in Receivers \cup {Nobody}
    BY DEF TypeOK
  <2> QED BY <1>8, <1>9, <1>10, <1>13, <2>1 DEF Sender, ConnectFound, ConnectTyped
<1> QED BY <1>1, <1>11, <1>12, <1>13 DEF Next
------------------------------------------------------------------------------
(* The search.                                                               *)

\* What begins or ends a thread, or tells one to stop, leaves no search steady.
LEMMA Unsteady ==
    ASSUME steady' = [s \in Senders |-> Nobody]
    PROVE  Steady' /\ Counting'
BY DEF Steady, Counting

\* The thread of a steady receiver stays the only one, after every step.
LEMMA SteadyStep ==
    ASSUME TypeOK, Steady, [Next]_vars
    PROVE  Steady'
<1>0. steady \in [Senders -> Receivers \cup {Nobody}] /\ thread \in [Receivers -> {"none", "check", "send"}]
  BY DEF TypeOK
<1>1. CASE UNCHANGED <<thread, stop>> /\ \A s \in Senders : steady'[s] \in {steady[s], Nobody}
  BY <1>1 DEF Steady
<1>2. ASSUME NEW r \in Receivers, Main(r) PROVE Steady'
  <2>1. CASE Bind(r)
    BY <1>1, <2>1 DEF Bind
  <2>2. CASE ~Bind(r)
    BY <1>2, <2>2, Unsteady
       DEF Main, Start, BindFails, ReturnStopped, ReturnOnError, Return, PressEnter, Disturbed
  <2> QED BY <2>1, <2>2
<1>3. ASSUME NEW r \in Receivers, Broadcaster(r) PROVE Steady'
  <2>1. thread[r] # "none" /\ UNCHANGED <<stop, steady>>
    BY <1>3 DEF Broadcaster, Check, Announce
  <2>2. /\ thread'[r] # "none" \/ stop[r]
        /\ \A q \in Receivers : q # r => thread'[q] = thread[q]
    BY <1>0, <1>3 DEF Broadcaster, Check, Announce, GoesOn
  <2> QED BY <1>0, <2>1, <2>2 DEF Steady
<1>4. ASSUME NEW s \in Senders, Search(s) PROVE Steady'
  <2>1. UNCHANGED <<thread, stop>>
    BY <1>4 DEF Search, receiverVars
  <2>2. CASE UNCHANGED steady
    BY <1>1, <2>1, <2>2
  <2>3. CASE steady' = [steady EXCEPT ![s] = Sole]
    BY <1>0, <2>1, <2>3, SoleRuns DEF Steady
  <2> QED BY <1>4, <2>2, <2>3 DEF Search
<1>5. ASSUME NEW s \in Senders, Answer(s) \/ ConnectFound(s) \/ ConnectTyped(s) PROVE Steady'
  <2>1. UNCHANGED <<thread, stop>>
    BY <1>5 DEF Answer, Hear, TimeOut, ConnectFound, ConnectTyped, ConnectTo, receiverVars
  <2>2. steady' \in {steady, [steady EXCEPT ![s] = Nobody]}
    BY <1>5 DEF Answer, Hear, TimeOut, ConnectFound, ConnectTyped, ConnectTo, SearchOver
  <2> QED BY <1>0, <1>1, <2>1, <2>2
<1>6. CASE Tick
  BY <1>1, <1>6 DEF Tick
<1>7. CASE UNCHANGED vars
  BY <1>1, <1>7 DEF vars, receiverVars
<1> QED BY <1>2, <1>3, <1>4, <1>5, <1>6, <1>7 DEF Next, Sender

\* The time that a search has left, when it heard nothing, shrinks only as much as
\* it has lost datagrams, after every step.
LEMMA CountingStep ==
    ASSUME TypeOK, Steady, Counting, [Next]_vars
    PROVE  Counting'
<1> DEFINE Counts(s) ==
        steady[s] # Nobody /\ search[s] = "search" =>
            /\ heard[s] \in {Nobody, steady[s]}
            /\ heard[s] = Nobody => lost[s] + left[s] >= 2 + wake[steady[s]]
<1>0. /\ steady \in [Senders -> Receivers \cup {Nobody}] /\ Nobody \notin Receivers
      /\ wake \in [Receivers -> 0..1] /\ left \in [Senders -> 0..3]
      /\ \A s \in Senders : lost[s] \in Nat
      /\ DOMAIN search = Senders /\ DOMAIN lost = Senders /\ DOMAIN heard = Senders
      /\ DOMAIN thread = Receivers
  BY NamesAssumption DEF TypeOK, AnnounceSeconds, SearchSeconds
<1>1. \A s \in Senders : Counts(s)
  BY DEF Counting
<1>2. SUFFICES ASSUME NEW s \in Senders PROVE Counts(s)'
  BY DEF Counting
<1>3. CASE UNCHANGED <<search[s], left[s], heard[s], lost[s], steady[s], wake>>
  BY <1>1, <1>3
<1>4. CASE search'[s] # "search" \/ steady'[s] = Nobody
  BY <1>4
<1>5. ASSUME NEW r \in Receivers, Main(r) PROVE Counts(s)'
  <2>1. CASE Bind(r)
    BY <1>3, <2>1 DEF Bind, senderVars
  <2>2. CASE ~Bind(r)
    <3>1. steady' = [t \in Senders |-> Nobody]
      BY <1>5, <2>2
         DEF Main, Start, BindFails, ReturnStopped, ReturnOnError, Return, PressEnter, Disturbed
    <3> QED BY <1>4, <3>1
  <2> QED BY <2>1, <2>2
<1>6. ASSUME NEW r \in Receivers, Check(r) PROVE Counts(s)'
  BY <1>3, <1>6 DEF Check, senderVars
<1>7. ASSUME NEW r \in Receivers, Announce(r) PROVE Counts(s)'
  <2>1. PICK missed \in SUBSET {t \in Searching : lost[t] < MaxLost} :
          /\ heard' = [t \in Senders |->
                 IF t \in Searching \ missed /\ heard[t] = Nobody THEN r ELSE heard[t]]
          /\ lost' = [t \in Senders |-> IF t \in missed THEN lost[t] + 1 ELSE lost[t]]
    BY <1>7 DEF Announce
  <2>2. UNCHANGED <<search, left, steady>> /\ wake' = [wake EXCEPT ![r] = 1] /\ thread[r] = "send"
    BY <1>7 DEF Announce, AnnounceSeconds
  <2> SUFFICES ASSUME steady[s] # Nobody, search[s] = "search"
               PROVE  /\ heard'[s] \in {Nobody, steady[s]}
                      /\ heard'[s] = Nobody => lost'[s] + left[s] >= 2 + wake'[steady[s]]
    BY <1>4, <2>2
  <2>3. r = steady[s] /\ s \in Searching
    BY <2>2 DEF Steady, Searching
  <2>4. heard'[s] \in {Nobody, steady[s]}
    BY <1>1, <2>1, <2>3
  <2>5. ASSUME heard'[s] = Nobody PROVE lost'[s] + left[s] >= 2 + wake'[steady[s]]
    <3>1. heard[s] = Nobody /\ s \in missed
      BY <1>0, <2>1, <2>3, <2>5
    <3>2. lost'[s] = lost[s] + 1 /\ wake'[r] = 1
      BY <1>0, <2>1, <2>2, <3>1
    <3>3. lost[s] + left[s] >= 2 + wake[r] /\ wake[r] >= 0 /\ lost[s] \in Nat /\ left[s] \in Nat
          /\ wake[r] \in Nat
      BY <1>0, <1>1, <2>3, <3>1
    <3> QED BY <2>3, <3>2, <3>3
  <2> QED BY <2>4, <2>5
<1>8. ASSUME NEW t \in Senders, Search(t) PROVE Counts(s)'
  <2>1. CASE t # s
    BY <1>0, <1>3, <1>8, <2>1 DEF Search, receiverVars
  <2>2. CASE t = s
    <3>1. CASE search'[s] = "busy"
      BY <1>4, <3>1
    <3>2. CASE left' = [left EXCEPT ![s] = SearchTime] /\ steady' = [steady EXCEPT ![s] = Sole]
      <4>1. heard'[s] = Nobody /\ lost'[s] = 0 /\ wake' = wake
        BY <1>0, <1>8, <2>2 DEF Search, receiverVars
      <4>2. left'[s] = 3
        BY <1>0, <3>2 DEF SearchTime, SearchSeconds
      <4>3. steady'[s] # Nobody => wake[steady'[s]] \in 0..1
        BY <1>0, <3>2, SoleRuns
      <4> QED BY <4>1, <4>2, <4>3
    <3> QED BY <1>0, <1>8, <2>2, <3>1, <3>2 DEF Search
  <2> QED BY <2>1, <2>2
<1>9. ASSUME NEW t \in Senders, Answer(t) PROVE Counts(s)'
  <2>1. UNCHANGED <<left, heard, lost, steady, wake>>
    BY <1>9 DEF Answer, Hear, TimeOut, receiverVars
  <2>2. search'[s] = search[s] \/ search'[s] # "search"
    BY <1>0, <1>9 DEF Answer, Hear, TimeOut
  <2> QED BY <1>3, <1>4, <2>1, <2>2
<1>10. ASSUME NEW t \in Senders, NEW r, ConnectTo(t, r) PROVE Counts(s)'
  <2>1. CASE t = s
    BY <1>0, <1>4, <1>10, <2>1 DEF ConnectTo, SearchOver
  <2>2. CASE t # s
    BY <1>0, <1>3, <1>10, <2>2 DEF ConnectTo, SearchOver, receiverVars
  <2> QED BY <2>1, <2>2
<1>11. CASE Tick
  <2>1. UNCHANGED <<search, heard, lost, steady>>
    BY <1>11 DEF Tick
  <2> SUFFICES ASSUME steady[s] # Nobody, search[s] = "search"
               PROVE  /\ heard[s] \in {Nobody, steady[s]}
                      /\ heard[s] = Nobody => lost[s] + left'[s] >= 2 + wake'[steady[s]]
    BY <2>1
  <2>2. steady[s] \in Receivers /\ thread[steady[s]] = "check" /\ wake[steady[s]] = 1
    <3>1. steady[s] \in Receivers /\ thread[steady[s]] # "none"
      BY <1>0 DEF Steady
    <3>2. thread[steady[s]] = "check"
      BY <1>11, <3>1 DEF Tick, TypeOK
    <3> QED BY <1>0, <1>11, <3>1, <3>2 DEF Tick
  <2>3. left'[s] = left[s] - 1 /\ wake'[steady[s]] = 0 /\ left[s] > 0
    BY <1>0, <1>11, <2>2 DEF Tick, Searching, Less
  <2> QED BY <1>0, <1>1, <2>2, <2>3
<1>12. CASE UNCHANGED vars
  BY <1>3, <1>12 DEF vars, receiverVars, senderVars
<1> HIDE DEF Counts
<1> QED BY <1>5, <1>6, <1>7, <1>8, <1>9, <1>10, <1>11, <1>12
     DEF Next, Broadcaster, Sender, ConnectFound, ConnectTyped

\* The search of a steady receiver ends without it only at its time-out.
LEMMA FindsStep ==
    ASSUME TypeOK, Counting, Finds, [Next]_vars
    PROVE  Finds'
<1>0. /\ steady \in [Senders -> Receivers \cup {Nobody}] /\ Nobody \notin Receivers
      /\ wake \in [Receivers -> 0..1] /\ left \in [Senders -> 0..3]
      /\ \A s \in Senders : lost[s] \in Nat
      /\ DOMAIN search = Senders /\ DOMAIN lost = Senders
  BY NamesAssumption DEF TypeOK, AnnounceSeconds, SearchSeconds
<1> DEFINE Found(s) ==
        search[s] = "missed" /\ steady[s] # Nobody /\ SenderKey[s] = rkey[steady[s]] => lost[s] > 1
<1>1. \A s \in Senders : Found(s)
  BY DEF Finds
<1>2. SUFFICES ASSUME NEW s \in Senders PROVE Found(s)'
  BY DEF Finds
<1>3. rkey' = rkey
  BY DEF Next, Main, Start, Bind, BindFails, ReturnStopped, ReturnOnError, Return, PressEnter,
         Broadcaster, Check, Announce, Sender, Search, Answer, Hear, TimeOut, ConnectFound,
         ConnectTyped, ConnectTo, Tick, vars, receiverVars
<1>4. CASE search'[s] # "missed" \/ steady'[s] = Nobody
  BY <1>4
<1>5. CASE UNCHANGED <<search[s], steady[s], lost[s]>>
  BY <1>1, <1>3, <1>5
<1>6. ASSUME NEW r \in Receivers, Main(r) PROVE Found(s)'
  <2>1. UNCHANGED senderVars
    BY <1>6 DEF Main, Start, Bind, BindFails, ReturnStopped, ReturnOnError, Return, PressEnter
  <2>2. steady' = steady \/ steady' = [t \in Senders |-> Nobody]
    BY <1>6 DEF Main, Start, Bind, BindFails, ReturnStopped, ReturnOnError, Return, PressEnter,
                Disturbed
  <2> QED BY <1>4, <1>5, <2>1, <2>2 DEF senderVars
<1>7. ASSUME NEW r \in Receivers, Broadcaster(r) PROVE Found(s)'
  <2>1. CASE Check(r)
    BY <1>5, <2>1 DEF Check, senderVars
  <2>2. CASE Announce(r)
    <3>1. search'[s] = search[s]
      BY <2>2 DEF Announce
    <3>2. search[s] = "missed" => lost'[s] = lost[s]
      BY <1>0, <2>2 DEF Announce, Searching
    <3> QED BY <1>4, <1>5, <2>2, <3>1, <3>2 DEF Announce
  <2> QED BY <1>7, <2>1, <2>2 DEF Broadcaster
<1>8. ASSUME NEW t \in Senders, Sender(t), t # s PROVE Found(s)'
  BY <1>0, <1>5, <1>8 DEF Sender, Search, Answer, Hear, TimeOut, ConnectFound, ConnectTyped,
                          ConnectTo, SearchOver
<1>9. CASE Search(s)
  BY <1>0, <1>4, <1>9 DEF Search
<1>10. CASE ConnectFound(s) \/ ConnectTyped(s)
  BY <1>0, <1>4, <1>10 DEF ConnectFound, ConnectTyped, ConnectTo, SearchOver
<1>11. CASE Hear(s)
  <2>1. CASE Usable(s, heard[s])
    BY <1>0, <1>4, <1>11, <2>1 DEF Hear
  <2>2. CASE ~Usable(s, heard[s])
    <3>1. search[s] = "search" /\ heard[s] # Nobody /\ steady' = steady
      BY <1>11 DEF Hear
    <3>2. steady[s] # Nobody => heard[s] = steady[s]
      BY <3>1 DEF Counting
    <3> QED BY <1>3, <2>2, <3>1, <3>2 DEF Usable
  <2> QED BY <2>1, <2>2
<1>12. CASE TimeOut(s)
  <2>1. search[s] = "search" /\ heard[s] = Nobody /\ left[s] = 0 /\ UNCHANGED <<steady, lost>>
    BY <1>12 DEF TimeOut
  <2>2. steady[s] # Nobody => lost[s] + left[s] >= 2 + wake[steady[s]] /\ wake[steady[s]] \in 0..1
    BY <1>0, <2>1 DEF Counting
  <2>3. steady[s] # Nobody => lost[s] > 1
    BY <1>0, <2>1, <2>2
  <2> QED BY <2>1, <2>3
<1>13. CASE Tick
  BY <1>5, <1>13 DEF Tick
<1>14. CASE UNCHANGED vars
  BY <1>5, <1>14 DEF vars, senderVars
<1> HIDE DEF Found
<1> QED BY <1>6, <1>7, <1>8, <1>9, <1>10, <1>11, <1>12, <1>13, <1>14 DEF Next, Sender, Answer
------------------------------------------------------------------------------
(* The broadcaster.                                                          *)

\* A thread told to stop makes at most one announcement more, after every step.
LEMMA StoppingStep ==
    ASSUME TypeOK, Stopping, [Next]_vars
    PROVE  Stopping'
<1> DEFINE Stops(r) ==
        /\ main[r] # "returned" => late[r] = 0 /\ ~stop[r]
        /\ stop[r] => late[r] = 0 \/ (late[r] = 1 /\ thread[r] # "send")
<1>0. /\ DOMAIN main = Receivers /\ DOMAIN stop = Receivers /\ DOMAIN thread = Receivers
      /\ DOMAIN late = Receivers /\ \A r \in Receivers : late[r] \in 0..2
  BY DEF TypeOK
<1>1. \A r \in Receivers : Stops(r)
  BY DEF Stopping
<1>2. SUFFICES ASSUME NEW r \in Receivers PROVE Stops(r)'
  BY DEF Stopping
<1>3. CASE UNCHANGED <<main[r], stop[r], thread[r], late[r]>>
  BY <1>1, <1>3
<1>4. ASSUME NEW q \in Receivers, q # r, Main(q) \/ Broadcaster(q) PROVE Stops(r)'
  BY <1>0, <1>3, <1>4 DEF Main, Start, Bind, BindFails, ReturnStopped, ReturnOnError, Return,
                          PressEnter, Process, Broadcaster, Check, Announce
<1>5. CASE Start(r)
  BY <1>0, <1>5 DEF Start
<1>6. CASE Bind(r)
  BY <1>0, <1>1, <1>6 DEF Bind
<1>7. ASSUME NEW flag, Return(r, flag), main[r] # "returned" PROVE Stops(r)'
  <2>1. late[r] = 0
    BY <1>1, <1>7
  <2>2. late'[r] = 0
    BY <1>0, <1>7, <2>1 DEF Return, Process
  <2>3. main'[r] = "off" => ~stop'[r]
    BY <1>0, <1>7 DEF Return, Process
  <2>4. main'[r] \in {"off", "returned"}
    BY <1>0, <1>7 DEF Return, Process
  <2> QED BY <2>2, <2>3, <2>4
<1>8. CASE BindFails(r) \/ ReturnStopped(r) \/ ReturnOnError(r)
  BY <1>7, <1>8 DEF BindFails, ReturnStopped, ReturnOnError, Served
<1>9. CASE PressEnter(r)
  BY <1>0, <1>9 DEF PressEnter, Process
<1>10. CASE Check(r)
  <2>1. stop[r] => thread'[r] = "none"
    BY <1>0, <1>10 DEF Check, GoesOn
  <2> QED BY <1>1, <1>10, <2>1 DEF Check
<1>11. CASE Announce(r)
  <2>1. UNCHANGED <<main, stop>> /\ thread[r] = "send" /\ thread'[r] = "check"
    BY <1>0, <1>11 DEF Announce
  <2>2. late'[r] = IF main[r] = "returned" /\ late[r] < 2 THEN late[r] + 1 ELSE late[r]
    BY <1>0, <1>11 DEF Announce
  <2> QED BY <1>1, <2>1, <2>2
<1>12. ASSUME NEW s \in Senders, Sender(s) PROVE Stops(r)'
  BY <1>3, <1>12 DEF Sender, Search, Answer, Hear, TimeOut, ConnectFound, ConnectTyped, ConnectTo,
                     receiverVars
<1>13. CASE Tick
  BY <1>3, <1>13 DEF Tick
<1>14. CASE UNCHANGED vars
  BY <1>3, <1>14 DEF vars, receiverVars
<1> HIDE DEF Stops
<1> QED BY <1>4, <1>5, <1>6, <1>8, <1>9, <1>10, <1>11, <1>12, <1>13, <1>14
        DEF Next, Main, Broadcaster
------------------------------------------------------------------------------
(* The theorems.                                                             *)

\* The invariant holds in every state of every behaviour.
LEMMA DiscoveryInvAlways == Spec => []DiscoveryInv
<1>1. Init => DiscoveryInv
  <2> SUFFICES ASSUME Init PROVE DiscoveryInv
    OBVIOUS
  <2>1. TypeOK
    BY NamesAssumption DEF Init, TypeOK, AnnounceSeconds, SearchSeconds
  <2> QED BY <2>1 DEF Init, DiscoveryInv, Steady, Counting, Stopping, Finds
<1>2. DiscoveryInv /\ [Next]_vars => DiscoveryInv'
  BY TypeStep, SteadyStep, CountingStep, StoppingStep, FindsStep DEF DiscoveryInv
<1> QED BY <1>1, <1>2, PTL DEF Spec

\* The types of the variables; a thread lives no longer than its process
\* (receiver.rs:178-194, sender.rs:371-379).
THEOREM DiscoveryTypeOK == Spec => []TypeOK
<1>1. DiscoveryInv => TypeOK
  BY DEF DiscoveryInv
<1> QED BY <1>1, DiscoveryInvAlways, PTL

\* A search that had one receiver announcing itself the whole time, with the
\* sender's key, and lost one datagram at most has found it
\* (sender.rs:373-376, receiver.rs:178-194).
THEOREM DiscoveryFinds == Spec => []Finds
<1>1. DiscoveryInv => Finds
  BY DEF DiscoveryInv
<1> QED BY <1>1, DiscoveryInvAlways, PTL

\* A thread that was told to stop makes at most the announcement that it was
\* about to make (receiver.rs:178-193, 801).
THEOREM DiscoveryOneLate == Spec => []OneLate
<1>1. DiscoveryInv => OneLate
  BY DEF DiscoveryInv, Stopping, OneLate
<1> QED BY <1>1, DiscoveryInvAlways, PTL
==============================================================================
