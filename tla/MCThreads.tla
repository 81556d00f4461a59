----------------------------- MODULE MCThreads ------------------------------
(* A small instance of Threads: a 3-bit size_t, so that the counters of the  *)
(* ring wrap after 8 samples, and four files for the program.                *)
EXTENDS Threads

RequestSizes == {0, 1, 3, 4}
SampleCounts == 0 .. 3
FrameCounts  == 1 .. 2

\* Mono files of any length and stereo files of whole frames.
WholeFiles ==
    { [channels |-> 1, count |-> 1], [channels |-> 1, count |-> 3],
      [channels |-> 2, count |-> 2], [channels |-> 2, count |-> 6] }
=============================================================================
