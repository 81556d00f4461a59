--------------------------- MODULE MCHapChannels ----------------------------
(* A small instance of the two channels, for channels.cfg: on the event      *)
(* channel two requests of at most four tokens, with a frame for every token *)
(* if need be.                                                               *)
EXTENDS HapChannels
=============================================================================
