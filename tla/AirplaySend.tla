---------------------------- MODULE AirplaySend -----------------------------
(***************************************************************************)
(* The command-line example (airplay_send.cpp): the main thread that pumps *)
(* the loop until the session ends or a signal comes, the producer thread  *)
(* that feeds the ring with the audio of a file, over and over, and the    *)
(* flags between them.  The sender appears as the calls it makes from      *)
(* inside pump() (RaopEvents), the ring as the FIFO it is shown to be      *)
(* elsewhere.                                                              *)
(***************************************************************************)
EXTENDS Naturals, Sequences, SequencesExt

CONSTANTS
    Files,       \* the WAV files: records [channels, count], count > 0
    Chunk,       \* 4096 samples
    Capacity     \* of the ring, 2^19 samples

SizesAssumption == Chunk \in Nat \ {0} /\ Capacity \in Nat /\ Chunk <= Capacity

\* The chunk and the files hold whole frames of two samples, once a mono sample
\* has been doubled, and no file is empty.
WholeFrames ==
    /\ Chunk % 2 = 0
    /\ \A f \in Files : /\ f.channels \in {1, 2} /\ f.count \in Nat \ {0}
                        /\ f.channels = 2 => f.count % 2 = 0

VARIABLES
    file,           \* the file being played
    pos,            \* the producer's position in the audio, from 0
    ring,           \* the samples in the ring
    prod,           \* where the producer stands
    main,           \* where main() stands
    session,        \* the session, as the sender's calls tell
    done,           \* std::atomic<bool>
    g_interrupted,  \* set by the signal handler
    exitCode

vars == <<file, pos, ring, prod, main, session, done, g_interrupted, exitCode>>

Sample(frame, channel) == [frame |-> frame, channel |-> channel]

\* Mutant: a mono sample is not doubled.
loadWav_Mono(f) == [k \in 1..f.count |-> Sample((k - 1) \div f.channels, (k - 1) % f.channels)]

\* The interleaved audio of a file with count samples.
loadWav(f) ==
    IF f.channels = 1
    THEN [k \in 1..2 * f.count |-> Sample((k - 1) \div 2, (k - 1) % 2)]
    ELSE [k \in 1..f.count |-> Sample((k - 1) \div 2, (k - 1) % 2)]

samples == loadWav(file)

\* The producer fills its chunk from position p on.
Filled(p) == [k \in 1..Chunk |-> samples[((p + k - 1) % Len(samples)) + 1]]

Init ==
    /\ file \in Files
    /\ pos = 0 /\ ring = <<>> /\ prod = "look"
    /\ main = "start" /\ session = "starting"
    /\ done = FALSE /\ g_interrupted = FALSE /\ exitCode = 0

----------------------------------------------------------------------------
(* The producer thread *)

ProducerEnds ==
    /\ prod = "look" /\ done
    /\ prod' = "gone"
    /\ UNCHANGED <<file, pos, ring, main, session, done, g_interrupted, exitCode>>

ProducerFinds ==
    /\ prod = "look" /\ ~done /\ Capacity - Len(ring) >= Chunk
    /\ prod' = "push"
    /\ UNCHANGED <<file, pos, ring, main, session, done, g_interrupted, exitCode>>

\* Without room it sleeps and looks again.
ProducerSleeps ==
    /\ prod = "look" /\ ~done /\ Capacity - Len(ring) < Chunk
    /\ UNCHANGED vars

\* The position after a chunk from p on.
NextPos(p) == (p + Chunk) % Len(samples)

ProducerPushes ==
    /\ prod = "push"
    /\ ring' = ring \o Filled(pos)
    /\ pos' = NextPos(pos)
    /\ prod' = "look"
    /\ UNCHANGED <<file, main, session, done, g_interrupted, exitCode>>

----------------------------------------------------------------------------
(* The main thread *)

Signal ==
    /\ main # "gone" /\ ~g_interrupted
    /\ g_interrupted' = TRUE
    /\ UNCHANGED <<file, pos, ring, prod, main, session, done, exitCode>>

\* sender.start(), which fails at once when a UDP socket cannot be bound: the
\* sender then calls launched(false) from inside it. The producer
\* already runs.
Start ==
    /\ main = "start"
    /\ main' = "check"
    /\ \/ UNCHANGED <<session, done, exitCode>>
       \/ session' = "ended" /\ exitCode' = 1 /\ done' = TRUE
    /\ UNCHANGED <<file, pos, ring, prod, g_interrupted>>

Check ==
    /\ main = "check"
    /\ main' = IF done \/ g_interrupted THEN "stop" ELSE "pump"
    /\ UNCHANGED <<file, pos, ring, prod, session, done, g_interrupted, exitCode>>

\* A pump() in which the sender calls nobody. While it streams it takes whole
\* frames, and silence when there are none.
PumpQuietly ==
    /\ main = "pump"
    /\ ring' \in {ring} \cup IF session = "up" /\ Len(ring) >= 2
                             THEN {SubSeq(ring, 3, Len(ring))} ELSE {}
    /\ main' = "check"
    /\ UNCHANGED <<file, pos, prod, session, done, g_interrupted, exitCode>>

Launched ==
    /\ main = "pump" /\ session = "starting"
    /\ session' = "up" /\ main' = "check"
    /\ UNCHANGED <<file, pos, ring, prod, done, g_interrupted, exitCode>>

\* Mutant: a session the receiver closes is no failure.
Closed_Zero ==
    /\ main = "pump" /\ session = "up"
    /\ session' = "ended" /\ done' = TRUE /\ main' = "check"
    /\ UNCHANGED <<file, pos, ring, prod, g_interrupted, exitCode>>

Closed ==
    /\ main = "pump" /\ session = "up"
    /\ session' = "ended" /\ exitCode' = 1 /\ done' = TRUE /\ main' = "check"
    /\ UNCHANGED <<file, pos, ring, prod, g_interrupted>>

\* launched(false), then closed().
LaunchFails ==
    /\ main = "pump" /\ session = "starting"
    /\ session' = "ended" /\ exitCode' = 1 /\ done' = TRUE /\ main' = "check"
    /\ UNCHANGED <<file, pos, ring, prod, g_interrupted>>

\* pinRequired: main() waits for the user inside pump(), and a signal does not
\* end the wait.
PinRequired ==
    /\ main = "pump" /\ session = "starting"
    /\ main' = "prompt"
    /\ UNCHANGED <<file, pos, ring, prod, session, done, g_interrupted, exitCode>>

\* The user answers; submitPin may fail the launch.
PinTyped ==
    /\ main = "prompt"
    /\ main' = "check"
    /\ \/ UNCHANGED <<session, done, exitCode>>
       \/ session' = "ended" /\ exitCode' = 1 /\ done' = TRUE
    /\ UNCHANGED <<file, pos, ring, prod, g_interrupted>>

Stop ==
    /\ main = "stop"
    /\ session' = IF session = "ended" THEN "ended" ELSE "stopped"
    /\ main' = "flag"
    /\ UNCHANGED <<file, pos, ring, prod, done, g_interrupted, exitCode>>

\* Mutant: the producer is not told after a signal.
Flag_Forgotten ==
    /\ main = "flag"
    /\ main' = "join"
    /\ UNCHANGED <<file, pos, ring, prod, session, done, g_interrupted, exitCode>>

Flag ==
    /\ main = "flag"
    /\ done' = TRUE /\ main' = "join"
    /\ UNCHANGED <<file, pos, ring, prod, session, g_interrupted, exitCode>>

\* Mutant: main() does not wait.
Join_Detached ==
    /\ main = "join"
    /\ main' = "gone"
    /\ UNCHANGED <<file, pos, ring, prod, session, done, g_interrupted, exitCode>>

\* main() returns; the ring and the samples are destroyed.
Join ==
    /\ main = "join" /\ prod = "gone"
    /\ main' = "gone"
    /\ UNCHANGED <<file, pos, ring, prod, session, done, g_interrupted, exitCode>>

Producer == ProducerEnds \/ ProducerFinds \/ ProducerSleeps \/ ProducerPushes

Main == Start \/ Check \/ PumpQuietly \/ Launched \/ Closed \/ LaunchFails \/ PinRequired
            \/ Stop \/ Flag \/ Join

Next == Producer \/ Main \/ PinTyped \/ Signal

\* Both threads are scheduled, and the user answers the prompt.
Fairness == WF_vars(Producer) /\ WF_vars(Main) /\ WF_vars(PinTyped)

Spec == Init /\ [][Next]_vars /\ Fairness

----------------------------------------------------------------------------
(* Properties *)

\* Type invariant.
TypeOK ==
    /\ file \in Files /\ pos \in 0..Len(samples) - 1
    /\ ring \in Seq(Range(samples)) /\ Len(ring) <= Capacity
    /\ prod \in {"look", "push", "gone"}
    /\ main \in {"start", "check", "pump", "prompt", "stop", "flag", "join", "gone"}
    /\ session \in {"starting", "up", "stopped", "ended"}
    /\ done \in BOOLEAN /\ g_interrupted \in BOOLEAN /\ exitCode \in {0, 1}

\* The sender takes whole frames, so a left sample is always at an even place of
\* the ring and followed by the right sample of its frame, also where the audio
\* starts over.
FramesKept ==
    \A k \in DOMAIN ring :
        /\ ring[k].channel = (k - 1) % 2
        /\ k % 2 = 0 => ring[k].frame = ring[k - 1].frame

\* The exit code is a failure exactly when the session ended without being
\* stopped, also when a signal comes at the same time.
ExitCodeTells == main = "gone" => (exitCode = 1 <=> session = "ended")

\* The producer never touches the ring or the samples after main() returned and
\* destroyed them.
RingOutlivesProducer == main = "gone" => prod = "gone"

\* Left and right samples stay apart in the ring, the exit code is a failure
\* exactly when the session ended without being stopped, and the producer is gone
\* before main() destroys the ring and the samples.
ProgramSafe == TypeOK /\ FramesKept /\ ExitCodeTells /\ RingOutlivesProducer

\* A signal or the end of the session ends the program: nobody waits for ever.
ProgramEnds == (done \/ g_interrupted) ~> (main = "gone")

=============================================================================
