---------------------------- MODULE MCRaopStream ----------------------------
(* Small numbers: 8 sequence numbers over a backlog of 4 slots, 2 packets a  *)
(* tick, and streams long enough to wrap the sequence numbers and RTP times. *)
EXTENDS RaopStream

Draws  == {0, 5}
Pauses == {1, 6}
Counts == {1, 6}

=============================================================================
