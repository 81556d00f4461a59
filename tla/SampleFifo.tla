----------------------------- MODULE SampleFifo -----------------------------
(***************************************************************************)
(* What the ring buffer promises the two threads that share it: a FIFO of  *)
(* at most limit samples.  A push puts a whole chunk behind what is there  *)
(* or nothing at all, a pop takes a whole chunk off the front.  Samples    *)
(* are numbered modulo Numbers as they are pushed; got is the chunk the    *)
(* consumer took last.                                                     *)
(***************************************************************************)
EXTENDS Naturals, Sequences

CONSTANTS Limits, Numbers, Chunks

VARIABLES limit, queue, next, got

vars == <<limit, queue, next, got>>

Numbered(first, n) == [i \in 1..n |-> (first + i - 1) % Numbers]

Init == limit \in Limits /\ queue = <<>> /\ next = 0 /\ got = <<>>

Put(n) ==
    /\ Len(queue) + n <= limit
    /\ queue' = queue \o Numbered(next, n)
    /\ next' = (next + n) % Numbers
    /\ UNCHANGED <<limit, got>>

Take(n) ==
    /\ n <= Len(queue)
    /\ got' = SubSeq(queue, 1, n)
    /\ queue' = SubSeq(queue, n + 1, Len(queue))
    /\ UNCHANGED <<limit, next>>

\* reset(): both threads are at rest.
Clear == queue' = <<>> /\ next' = 0 /\ UNCHANGED <<limit, got>>

Next == (\E n \in Chunks : Put(n) \/ Take(n)) \/ Clear

Spec == Init /\ [][Next]_vars

=============================================================================
