------------------------------ MODULE Threads -------------------------------
(***************************************************************************)
(* The two threads of the program at two levels: the steps of the          *)
(* lock-free ring between them (SpscRing), and the example's main() and    *)
(* producer above it, to which the ring is the FIFO it implements          *)
(* (AirplaySend).  A behaviour exercises one level.                        *)
(***************************************************************************)
EXTENDS SpscRing

CONSTANTS Files, Chunk, Capacity    \* of AirplaySend

VARIABLES level, file, pos, ring, prod, main, session, done, g_interrupted, exitCode

programVars == <<file, pos, ring, prod, main, session, done, g_interrupted, exitCode>>

Program == INSTANCE AirplaySend

ASSUME ProgramAssumption == Program!SizesAssumption /\ Program!WholeFrames

ThreadsInit ==
    /\ level \in {"ring", "program"}
    /\ Init /\ (level = "program" => mask_ = 0)
    /\ Program!Init /\ (level = "ring" => file = CHOOSE f \in Files : TRUE)

\* The program has ended.
Ended == main = "gone" /\ UNCHANGED programVars

ThreadsNext ==
    /\ \/ level = "ring" /\ Next /\ UNCHANGED programVars
       \/ level = "program" /\ (Program!Next \/ Ended) /\ UNCHANGED vars
    /\ UNCHANGED level

ThreadsSpec ==
    /\ ThreadsInit /\ [][ThreadsNext]_<<vars, programVars, level>>
    /\ (level = "program") => Program!Fairness

----------------------------------------------------------------------------

\* Left and right samples stay apart in the ring, also where the audio starts
\* over (loadWav, the producer); the exit code is a failure exactly when the
\* session ended without being stopped (closed); and the producer is gone before
\* main() destroys the ring and the samples.
ProgramSafe == Program!ProgramSafe

\* A signal or the end of the session ends the program: nobody waits for ever.
ProgramEnds == level = "program" => Program!ProgramEnds
=============================================================================
