----------------------------- MODULE HapFrames ------------------------------
(***************************************************************************)
(* The frames of the encrypted control and event channels: [2-byte length] *)
(* [ciphertext][16-byte tag], sealed with the channel's key and a counter  *)
(* of the direction.  A frame opens under its own key and counter only and *)
(* when nothing has touched it; on the wire it is two halves, so that a    *)
(* receive buffer can end inside a frame.                                  *)
(***************************************************************************)
EXTENDS Naturals, Sequences, SequencesExt

Frame(key, ctr, plain) == [key |-> key, ctr |-> ctr, plain |-> plain, intact |-> TRUE]

Halves(f) == <<[frame |-> f, half |-> 1], [frame |-> f, half |-> 2]>>

Wire(frames) == FlattenSeq([i \in DOMAIN frames |-> Halves(frames[i])])

\* data in pieces of at most size.
Chunks(data, size) ==
    [i \in 1 .. ((Len(data) + size - 1) \div size) |->
        SubSeq(data, (i - 1) * size + 1, IF i * size < Len(data) THEN i * size ELSE Len(data))]

\* The frames of data, the first under counter ctr.
Seal(data, size, key, ctr) ==
    LET c == Chunks(data, size) IN [i \in DOMAIN c |-> Frame(key, ctr + i - 1, c[i])]

----------------------------------------------------------------------------
(* The receive loop over a buffer that starts with a frame. *)

Aligned(buf) == buf = <<>> \/ Head(buf).half = 1

Complete(buf) == Len(buf) \div 2

FrameAt(buf, j) == buf[2 * j - 1].frame

Opens(f, key, ctr) == f.key = key /\ f.ctr = ctr /\ f.intact

\* The complete frames that open, up to the first that does not.
Opened(buf, key, ctr) ==
    Max({n \in 0 .. Complete(buf) :
            \A j \in 1 .. n : Opens(FrameAt(buf, j), key, ctr + j - 1)})

Plain(buf, n) == FlattenSeq([j \in 1 .. n |-> FrameAt(buf, j).plain])

Rest(buf, n) == SubSeq(buf, 2 * n + 1, Len(buf))
=============================================================================
