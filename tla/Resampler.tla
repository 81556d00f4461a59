----------------------------- MODULE Resampler -----------------------------
(***************************************************************************)
(* RaopSender::fillFrames_: one packet of audio out of the network-tap     *)
(* ring, passed through at 44100 Hz, otherwise through the staging buffer  *)
(* inBuf_ and a two-point interpolation at the fractional position         *)
(* srcPhase_.  The rate may change at any time (setInputFormat).           *)
(*                                                                         *)
(* A frame is its number in the order of the ring, from 0.  An output      *)
(* frame is the pair of neighbours it lies between and its distance from   *)
(* the left one; srcPhase_ and that distance count units of 1/kRaopRate of *)
(* an input frame, in which step = inputRate_ / kRaopRate is the integer   *)
(* inputRate_ (the code's doubles are taken as exact).                     *)
(***************************************************************************)
EXTENDS Integers, Sequences, SequencesExt, FiniteSetsExt

CONSTANTS
    kRaopRate,        \* 44100
    Rates,            \* the rates setInputFormat may name
    kDefaultRate,     \* 48000, what a rate of 0 stands for
    kInBufMaxFrames,  \* 8192
    Want,             \* frames in a packet, 352
    RingSize,         \* frames the ring holds
    MaxFrames         \* bound on the frames the host writes

\* One packet at the highest rate never needs more than inBuf_ can hold (true of
\* 352 frames and 8192 up to a rate of about 1 MHz).
RatesAssumption ==
    /\ kRaopRate \in Nat \ {0} /\ kDefaultRate \in Nat \ {0}
    /\ Rates \subseteq Nat
    /\ \A r \in Rates \cup {kDefaultRate} :
          Want * r + 2 * kRaopRate <= kInBufMaxFrames * kRaopRate

VARIABLES
    inputRate,   \* inputRate_
    attached,    \* is ring_ set?
    pushed,      \* frames the host has written into the ring
    popped,      \* frames taken out of it: it holds popped .. pushed - 1
    inBuf,       \* inBuf_
    srcPhase,    \* srcPhase_
    out,         \* the last packet, up to where silence begins
    \* history
    due,         \* where in the source the next output frame belongs
    mixed        \* frames went past inBuf_ while it was in use

vars == <<inputRate, attached, pushed, popped, inBuf, srcPhase, out, due, mixed>>

Frames == 0..MaxFrames - 1
Held   == pushed - popped

Init ==
    /\ inputRate = kDefaultRate /\ attached = TRUE
    /\ pushed = 0 /\ popped = 0
    /\ inBuf = <<>> /\ srcPhase = 0 /\ out = <<>>
    /\ due = 0 /\ mixed = FALSE

----------------------------------------------------------------------------
(* The host. *)

Write(n) ==
    /\ pushed + n <= MaxFrames /\ Held + n <= RingSize
    /\ pushed' = pushed + n
    /\ UNCHANGED <<inputRate, attached, popped, inBuf, srcPhase, out, due, mixed>>

setInputFormat(rate) ==
    /\ inputRate' = IF rate > 0 THEN rate ELSE kDefaultRate
    /\ UNCHANGED <<attached, pushed, popped, inBuf, srcPhase, out, due, mixed>>

attachRing(ring) ==
    /\ attached' = ring
    /\ UNCHANGED <<inputRate, pushed, popped, inBuf, srcPhase, out, due, mixed>>

\* start(): the staging buffer is emptied, the ring is not.
start ==
    /\ inBuf' = <<>> /\ srcPhase' = 0 /\ out' = <<>>
    /\ due' = popped * kRaopRate /\ mixed' = FALSE
    /\ UNCHANGED <<inputRate, attached, pushed, popped>>

----------------------------------------------------------------------------
(* fillFrames_. *)

\* Mutant: as many input frames are fetched as output frames are wanted.
Pull_Want(buf) == Min({Want, kInBufMaxFrames - Len(buf), Held})

\* How many frames the staging buffer takes from the ring.
Pull(buf) ==
    LET room == IF kInBufMaxFrames > Len(buf) THEN kInBufMaxFrames - Len(buf) ELSE 0
    IN  Min({room, Held})

ToppedUp(buf) == buf \o [i \in 1..Pull(buf) |-> popped + i - 1]

\* The output frame at position p of buf: between frame floor(p) and the next.
Lerp(buf, p) == LET i0 == p \div kRaopRate
                IN  [left |-> buf[i0 + 1], right |-> buf[i0 + 2], frac |-> p % kRaopRate]

\* The loop ends with the packet full or the right neighbour missing.
Produced(buf) ==
    LET p(k) == (srcPhase + (k - 1) * inputRate) \div kRaopRate
        last == {k \in 1..Want : p(k) + 1 < Len(buf)}
    IN  IF last = {} THEN 0 ELSE Max(last)

\* The frames before the left neighbour of the next output are consumed.
Dropped(buf, p) == Min({p \div kRaopRate, Len(buf)})

\* Mutant: only the fraction is carried over, although the last step may have
\* gone past the end of the buffer.
Rebased_Fraction(p, drop) == p % kRaopRate

Rebased(p, drop) == p - drop * kRaopRate

Position(f) == f.left * kRaopRate + f.frac

Detached ==
    /\ ~attached
    /\ out' = <<>>
    /\ UNCHANGED <<inputRate, attached, pushed, popped, inBuf, srcPhase, due, mixed>>

PassThrough ==
    /\ attached /\ inputRate = kRaopRate
    /\ LET take == Min({Held, Want})
       IN  /\ out' = [k \in 1..take |-> [left |-> popped + k - 1,
                                         right |-> popped + k - 1, frac |-> 0]]
           /\ popped' = popped + take
           /\ mixed' = (mixed \/ (take > 0 /\ (inBuf # <<>> \/ srcPhase # 0)))
           /\ due' = due + take * kRaopRate
    /\ UNCHANGED <<inputRate, attached, pushed, inBuf, srcPhase>>

Resample ==
    /\ attached /\ inputRate # kRaopRate
    /\ LET buf  == ToppedUp(inBuf)
           n    == Produced(buf)
           p    == srcPhase + n * inputRate
           drop == Dropped(buf, p)
       IN  /\ popped' = popped + Pull(inBuf)
           /\ out' = [k \in 1..n |-> Lerp(buf, srcPhase + (k - 1) * inputRate)]
           /\ inBuf' = SubSeq(buf, drop + 1, Len(buf))
           /\ srcPhase' = Rebased(p, drop)
           /\ due' = due + n * inputRate
    /\ UNCHANGED <<inputRate, attached, pushed, mixed>>

fillFrames_ == Detached \/ PassThrough \/ Resample

Next ==
    \/ \E n \in 1..RingSize : Write(n)
    \/ \E rate \in Rates : setInputFormat(rate)
    \/ \E ring \in BOOLEAN : attachRing(ring)
    \/ start
    \/ fillFrames_

Spec == Init /\ [][Next]_vars

----------------------------------------------------------------------------
(* Properties. *)

OutFrame == [left : Frames, right : Frames, frac : 0..kRaopRate - 1]

\* Type invariant: the staging buffer is a bounded working set.
TypeOK ==
    /\ inputRate \in (Rates \ {0}) \cup {kDefaultRate} /\ attached \in BOOLEAN
    /\ pushed \in 0..MaxFrames /\ popped \in 0..pushed /\ Held <= RingSize
    /\ inBuf \in Seq(Frames) /\ Len(inBuf) <= kInBufMaxFrames
    /\ srcPhase \in Nat
    /\ out \in Seq(OutFrame) /\ Len(out) <= Want
    /\ due \in Nat /\ mixed \in BOOLEAN

\* Every output frame lies exactly one step after the one before it, in this
\* packet and across packets, however often the ring ran dry, the buffer was
\* compacted or the rate changed in between, and its neighbours are neighbours
\* in the ring: no input is repeated, skipped or reordered.  (Until frames pass
\* by inBuf_ at 44100 Hz while it still holds some: see mixed.)
EvenlySpaced ==
    [][fillFrames_ /\ ~mixed' =>
          \A k \in 1..Len(out') :
             /\ Position(out'[k]) = due + (k - 1) * inputRate
             /\ inputRate # kRaopRate => out'[k].right = out'[k].left + 1]_vars

\* Silence is sent only for want of input: when a packet is not full the ring
\* has been emptied.
SilenceOnlyWhenStarved ==
    [][fillFrames_ /\ attached /\ Len(out') < Want => popped' = pushed']_vars

============================================================================
