---------------------------- MODULE MCRaopAudio -----------------------------
(* The two halves of the sender's data plane: the pacer and its packets, and *)
(* fillFrames_, which fills them.  A behaviour exercises one half.           *)
EXTENDS MCRaopStream

VARIABLES half, inputRate, attached, pushed, popped, inBuf, srcPhase, out, due, mixed

fillVars == <<inputRate, attached, pushed, popped, inBuf, srcPhase, out, due, mixed>>

\* 3 output frames take 2, 3, 4 or 8 input frames.
Fill == INSTANCE Resampler WITH
    kRaopRate <- 3, Rates <- {0, 2, 3, 8}, kDefaultRate <- 4, kInBufMaxFrames <- 8,
    Want <- 2, RingSize <- 9, MaxFrames <- 11

ASSUME InstancesAssumption == Fill!RatesAssumption

AudioInit == half \in {"packets", "frames"} /\ Init /\ Fill!Init

AudioNext ==
    /\ \/ half = "packets" /\ Next /\ UNCHANGED fillVars
       \/ half = "frames" /\ Fill!Next /\ UNCHANGED vars
    /\ UNCHANGED half

\* The pacer timer is served.
AudioSpec ==
    /\ AudioInit /\ [][AudioNext]_<<vars, fillVars, half>>
    /\ WF_vars(onPacerTick_)

----------------------------------------------------------------------------

\* The frames of the packets are taken from the source at even distances, in
\* order and without a gap, over starvation and rate changes; silence is sent
\* only when the ring has run dry; and the staging buffer stays bounded
\* (fillFrames_, setInputFormat).
FramesInOrder == []Fill!TypeOK /\ Fill!EvenlySpaced /\ Fill!SilenceOnlyWhenStarved
=============================================================================
