----------------------------- MODULE MCDiscovery -----------------------------
(* Instances of Discovery: two receivers, two senders.                       *)
EXTENDS Discovery, TLC

CONSTANTS s1, s2, k

\* Both senders on one host, or each on its own.
SameHost == [s \in Senders |-> s1]
OwnHosts == [s \in Senders |-> s]
\* One of them has a key.
OneKey == [s \in Senders |-> IF s = s1 THEN k ELSE NoKey]
==============================================================================
