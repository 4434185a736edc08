------------------------------ MODULE Discovery ------------------------------
(***************************************************************************)
(* How a sender finds a receiver: the thread that announces a receiver once  *)
(* a second (start_udp_broadcaster, src/src/receiver.rs), the search of the  *)
(* sender (discover_receiver, src/src/sender.rs) that waits three seconds    *)
(* for one datagram, and the programs around both (src/src/main.rs and       *)
(* src/src/preset.rs), for several of each on one network.                  *)
(*                                                                          *)
(* Time is counted in seconds.  What a thread does between two waits takes   *)
(* less than one, so a second ends only when nobody has anything left to do. *)
(* A datagram arrives at once or not at all.  A signature is the key it was  *)
(* made with.  The expiry test of the search is left out: its two conditions *)
(* exclude each other, so no datagram fails it.  What happens on a           *)
(* connection is the business of Session and Transfer.                       *)
(***************************************************************************)
EXTENDS Naturals

CONSTANTS
    Receivers,  \* programs that run run_receiver, on hosts of their own
    Senders,    \* programs that search
    Nobody,     \* no receiver
    HostOf,     \* the host of each sender
    SenderKey,  \* its --auth, or NoKey
    Wizard,     \* the receivers whose process outlives run_receiver
    Keys,       \* what --auth of a receiver may be, NoKey among them
    NoKey,
    MaxLost,    \* bound: datagrams of one search that are lost
    MaxStarts   \* bound: receivers started, one after another or side by side

ASSUME NamesAssumption ==
    /\ Nobody \notin Receivers /\ NoKey \in Keys
    /\ HostOf \in [Senders -> Senders] /\ SenderKey \in [Senders -> Keys]
    /\ Wizard \subseteq Receivers /\ MaxLost \in Nat /\ MaxStarts \in Nat

VARIABLES
    rkey,        \* the keys of the receivers
    starts,      \* receivers started so far
    main,        \* where run_receiver is
    stop,        \* stop_broadcaster
    thread,      \* where the broadcaster thread is
    wake,        \* seconds it has still to sleep
    late,        \* announcements since run_receiver returned, 2 for more
    search,      \* where the sender is
    left,        \* seconds until the search times out
    heard,       \* the first datagram that reached its socket
    target,      \* the receiver whose address it connects to
    lost,        \* datagrams of this search that were lost
    steady       \* the only receiver announcing, since this search began

receiverVars == <<rkey, starts, main, stop, thread, wake, late>>
senderVars == <<search, left, heard, target, lost>>
vars == <<receiverVars, senderVars, steady>>

SearchSeconds == 3
AnnounceSeconds == 1

Init ==
    /\ rkey \in [Receivers -> Keys]
    /\ main = [r \in Receivers |-> "off"] /\ starts = 0
    /\ stop = [r \in Receivers |-> FALSE]
    /\ thread = [r \in Receivers |-> "none"] /\ wake = [r \in Receivers |-> 0]
    /\ late = [r \in Receivers |-> 0]
    /\ search = [s \in Senders |-> "off"] /\ left = [s \in Senders |-> 0]
    /\ heard = [s \in Senders |-> Nobody] /\ target = [s \in Senders |-> Nobody]
    /\ lost = [s \in Senders |-> 0] /\ steady = [s \in Senders |-> Nobody]

Searching == {s \in Senders : search[s] = "search"}
Disturbed == steady' = [s \in Senders |-> Nobody]

------------------------------------------------------------------------------
(* The receiver's main thread.                                               *)

\* The broadcaster is started before the listener is bound.
Start(r) ==
    /\ main[r] = "off" /\ starts < MaxStarts
    /\ starts' = starts + 1
    /\ main' = [main EXCEPT ![r] = "starting"]
    /\ stop' = [stop EXCEPT ![r] = FALSE]
    /\ thread' = [thread EXCEPT ![r] = "check"]
    /\ wake' = [wake EXCEPT ![r] = 0] /\ late' = [late EXCEPT ![r] = 0]
    /\ Disturbed
    /\ UNCHANGED <<rkey, senderVars>>

Bind(r) ==
    /\ main[r] = "starting"
    /\ main' = [main EXCEPT ![r] = "listen"]
    /\ UNCHANGED <<rkey, starts, stop, thread, wake, late, senderVars, steady>>

\* Mutant of Process: the thread survives its process.
ThreadDetached(r, pc, flag) ==
    /\ main' = [main EXCEPT ![r] = pc] /\ stop' = [stop EXCEPT ![r] = flag]
    /\ UNCHANGED <<thread, wake, late>>

\* The receiver's process goes on to pc; its end is the end of its threads.
Process(r, pc, flag) ==
    /\ main' = [main EXCEPT ![r] = pc]
    /\ stop' = [stop EXCEPT ![r] = flag /\ pc # "off"]
    /\ IF pc # "off" THEN UNCHANGED <<thread, wake, late>>
       ELSE /\ thread' = [thread EXCEPT ![r] = "none"]
            /\ wake' = [wake EXCEPT ![r] = 0] /\ late' = [late EXCEPT ![r] = 0]

\* run_receiver returns: a command or a preset job exits then, the wizard waits
\* for the Enter key.
Return(r, flag) ==
    /\ Process(r, IF r \in Wizard THEN "returned" ELSE "off", flag)
    /\ Disturbed
    /\ UNCHANGED <<rkey, starts, senderVars>>

\* The port is taken: the error is passed up with `?`, the thread goes on.
BindFails(r) == main[r] = "starting" /\ Return(r, FALSE)

Served(r) == main[r] = "listen" /\ \E s \in Senders : search[s] = "connected" /\ target[s] = r

\* The transfer is done, or one of two errors that stop the thread as well.
ReturnStopped(r) == Served(r) /\ Return(r, TRUE)
\* Any other error of a session.
ReturnOnError(r) == Served(r) /\ Return(r, FALSE)

PressEnter(r) ==
    /\ main[r] = "returned"
    /\ Process(r, "off", FALSE)
    /\ Disturbed
    /\ UNCHANGED <<rkey, starts, senderVars>>

------------------------------------------------------------------------------
(* The broadcaster thread.                                                   *)

NeverStopped(r) == TRUE  \* mutant of GoesOn
GoesOn(r) == ~stop[r]

Check(r) ==
    /\ thread[r] = "check" /\ wake[r] = 0
    /\ thread' = [thread EXCEPT ![r] = IF GoesOn(r) THEN "send" ELSE "none"]
    /\ UNCHANGED <<rkey, starts, main, stop, wake, late, senderVars, steady>>

\* The datagram reaches those who search, but for some, and goes to sleep.  A
\* socket that has one already keeps the first.
Announce(r) ==
    /\ thread[r] = "send"
    /\ \E missed \in SUBSET {s \in Searching : lost[s] < MaxLost} :
         /\ heard' = [s \in Senders |->
                IF s \in Searching \ missed /\ heard[s] = Nobody THEN r ELSE heard[s]]
         /\ lost' = [s \in Senders |-> IF s \in missed THEN lost[s] + 1 ELSE lost[s]]
    /\ thread' = [thread EXCEPT ![r] = "check"]
    /\ wake' = [wake EXCEPT ![r] = AnnounceSeconds]
    /\ late' = [late EXCEPT ![r] = IF main[r] = "returned" /\ @ < 2 THEN @ + 1 ELSE @]
    /\ UNCHANGED <<rkey, starts, main, stop, search, left, target, steady>>

------------------------------------------------------------------------------
(* The sender.                                                               *)

Running == {r \in Receivers : thread[r] # "none"}

\* The only receiver that announces itself, when there is one that will go on.
Sole ==
    IF \E r \in Receivers : Running = {r} /\ ~stop[r]
    THEN CHOOSE r \in Receivers : Running = {r} ELSE Nobody

TwoSeconds == 2  \* mutant of SearchTime
SearchTime == SearchSeconds

\* One search at a time can bind the port on a host; any other finds nothing.
Search(s) ==
    /\ search[s] \in {"off", "connected", "refused"}
    /\ IF \E t \in Searching : HostOf[t] = HostOf[s]
       THEN search' = [search EXCEPT ![s] = "busy"] /\ UNCHANGED <<left, steady>>
       ELSE /\ search' = [search EXCEPT ![s] = "search"]
            /\ left' = [left EXCEPT ![s] = SearchTime]
            /\ steady' = [steady EXCEPT ![s] = Sole]
    /\ heard' = [heard EXCEPT ![s] = Nobody] /\ target' = [target EXCEPT ![s] = Nobody]
    /\ lost' = [lost EXCEPT ![s] = 0]
    /\ UNCHANGED receiverVars

\* Both have no key, or the signature verifies.
Usable(s, r) == SenderKey[s] = rkey[r]

\* The first datagram decides the search, whatever comes after it.
Hear(s) ==
    /\ search[s] = "search" /\ heard[s] # Nobody
    /\ IF Usable(s, heard[s])
       THEN /\ search' = [search EXCEPT ![s] = "found"]
            /\ target' = [target EXCEPT ![s] = heard[s]]
       ELSE search' = [search EXCEPT ![s] = "missed"] /\ UNCHANGED target
    /\ UNCHANGED <<receiverVars, left, heard, lost, steady>>

TimeOut(s) ==
    /\ search[s] = "search" /\ heard[s] = Nobody /\ left[s] = 0
    /\ search' = [search EXCEPT ![s] = "missed"]
    /\ UNCHANGED <<receiverVars, left, heard, target, lost, steady>>

\* The socket of the search is closed.
SearchOver(s) ==
    /\ left' = [left EXCEPT ![s] = 0] /\ heard' = [heard EXCEPT ![s] = Nobody]
    /\ lost' = [lost EXCEPT ![s] = 0] /\ steady' = [steady EXCEPT ![s] = Nobody]

\* run_sender connects to an address.
ConnectTo(s, r) ==
    /\ target' = [target EXCEPT ![s] = r]
    /\ search' = [search EXCEPT ![s] =
           IF r # Nobody /\ main[r] = "listen" THEN "connected" ELSE "refused"]
    /\ SearchOver(s)
    /\ UNCHANGED receiverVars

ConnectFound(s) == search[s] = "found" /\ ConnectTo(s, target[s])

\* Nothing searched for or found, or the user does not want it: an address is
\* given, typed in, or that of the sender's own host.
ConnectTyped(s) ==
    /\ search[s] \in {"off", "found", "missed", "busy"}
    /\ \E r \in Receivers \cup {Nobody} : ConnectTo(s, r)

------------------------------------------------------------------------------
Less(n) == IF n > 0 THEN n - 1 ELSE 0

\* A second passes: every thread has done what it had to do in this one.
Tick ==
    /\ \A r \in Receivers : thread[r] # "send" /\ (thread[r] = "check" => wake[r] > 0)
    /\ \A s \in Searching : heard[s] = Nobody /\ left[s] > 0
    /\ (\E r \in Receivers : wake[r] > 0) \/ Searching # {}
    /\ wake' = [r \in Receivers |-> Less(wake[r])]
    /\ left' = [s \in Senders |-> IF s \in Searching THEN left[s] - 1 ELSE left[s]]
    /\ UNCHANGED <<rkey, starts, main, stop, thread, late, search, heard,
                   target, lost, steady>>

Main(r) ==
    \/ Start(r) \/ Bind(r) \/ BindFails(r) \/ ReturnStopped(r) \/ ReturnOnError(r)
    \/ PressEnter(r)
Broadcaster(r) == Check(r) \/ Announce(r)
Answer(s) == Hear(s) \/ TimeOut(s)
Sender(s) == Search(s) \/ Answer(s) \/ ConnectFound(s) \/ ConnectTyped(s)

Next ==
    \/ (\E r \in Receivers : Main(r) \/ Broadcaster(r))
    \/ (\E s \in Senders : Sender(s))
    \/ Tick

Spec == Init /\ [][Next]_vars

\* Threads run, searches end and time passes; users do as they like.
FairSpec ==
    /\ Spec /\ WF_vars(Tick)
    /\ \A r \in Receivers : WF_vars(Broadcaster(r))
    /\ \A s \in Senders : WF_vars(Answer(s))

------------------------------------------------------------------------------
\* The types of the variables.  A thread lives no longer than its process.
TypeOK ==
    /\ rkey \in [Receivers -> Keys] /\ starts \in 0..MaxStarts
    /\ stop \in [Receivers -> BOOLEAN]
    /\ main \in [Receivers -> {"off", "starting", "listen", "returned"}]
    /\ thread \in [Receivers -> {"none", "check", "send"}]
    /\ \A r \in Receivers : main[r] = "off" => thread[r] = "none"
    /\ wake \in [Receivers -> 0..AnnounceSeconds] /\ late \in [Receivers -> 0..2]
    /\ search \in [Senders -> {"off", "search", "found", "missed", "busy", "connected", "refused"}]
    /\ left \in [Senders -> 0..SearchSeconds] /\ lost \in [Senders -> 0..MaxLost]
    /\ heard \in [Senders -> Receivers \cup {Nobody}]
    /\ target \in [Senders -> Receivers \cup {Nobody}]
    /\ steady \in [Senders -> Receivers \cup {Nobody}]

\* A search does not miss a receiver with the same key that is the only one
\* announced the whole time, even if a datagram is lost: three seconds see two
\* announcements (sender.rs:373-376, receiver.rs:178-194).
Finds ==
    \A s \in Senders :
        search[s] = "missed" /\ steady[s] # Nobody /\ SenderKey[s] = rkey[steady[s]] => lost[s] > 1

\* Once the thread is told to stop, it makes no more than the one announcement
\* that it was about to make when it looked (receiver.rs:178-193, 801).
OneLate == \A r \in Receivers : stop[r] => late[r] <= 1

\* ... and it comes to its end, within the second it may be asleep.
BroadcasterEnds == \A r \in Receivers : stop[r] ~> thread[r] = "none"

\* The presence of a receiver is what is broadcast (README.md:23): one that
\* has returned is not announced any more, but for the announcement under way.
AnnouncesPresence == \A r \in Receivers : main[r] = "returned" => late[r] <= 1
==============================================================================
