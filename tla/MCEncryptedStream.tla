-------------------------- MODULE MCEncryptedStream --------------------------
(* One instance of EncryptedStream; the stream with index 0 and another one. *)
EXTENDS EncryptedStream

TwoStreams == {0, 1}
\* The client writes three times, the server once.
ThreeAndOne == [client |-> 3, server |-> 1]
==============================================================================
