------------------------------ MODULE SpscRing ------------------------------
(***************************************************************************)
(* The lock-free ring of ring_buffer.h between the audio thread of the     *)
(* application (the producer) and the sender's thread, which drains it in  *)
(* fillFrames_ (the consumer).  The counters read_ and write_ are size_t   *)
(* and wrap; a push or a pop is a load of the other side's counter, two    *)
(* memcpys (to the end of the buffer, then from its start) and a store of  *)
(* the own counter, each of them a step that the other thread may come     *)
(* between.                                                                *)
(*                                                                         *)
(* A load of the other side's counter returns its value or the one the     *)
(* thread saw last: stores become visible late, never out of order.  What  *)
(* was copied before a store (release) is visible to whoever loads its     *)
(* value (acquire), so the buffer itself is one array.                     *)
(*                                                                         *)
(* The k-th sample pushed has the value k, modulo the range of size_t.     *)
(***************************************************************************)
EXTENDS Integers, Sequences

CONSTANTS
    WordBits,      \* bits of a size_t
    Requests,      \* sizes the constructor may be given
    Channels,      \* kChannels: samples in a frame
    PushSizes,     \* samples in a chunk of the producer
    Wants          \* frames the consumer may want

Word == 2 ^ WordBits

\* A buffer of more than half the range of its index type cannot be allocated.
ASSUME RingAssumption ==
    /\ WordBits \in 1 .. 64 /\ Channels \in Nat \ {0}
    /\ Requests \subseteq 0 .. (Word \div 2)
    /\ PushSizes \subseteq 0 .. (Word - 1) /\ Wants \subseteq Nat \ {0}

\* The law of exponents the proofs start from, stated because the provers leave
\* exponents uninterpreted.
ASSUME PowerLaw == 2 ^ 0 = 1 /\ \A i \in 0 .. (WordBits - 1) : 2 ^ (i + 1) = 2 * 2 ^ i

VARIABLES
    mask_,         \* capacity - 1, fixed by the constructor
    buffer_,       \* buffer_[i]: the sample in cell i
    read_, write_, \* the counters
    producer,      \* where the producer is: pc, the chunk's size n, the value
                   \* rd of read_ it saw last, checked: it asked availableWrite
    consumer,      \* where the consumer is: pc, n, the value wr of write_ it saw
                   \* last, dst: the samples it has copied
    got            \* the samples of the last fillFrames_ that took any

vars == <<mask_, buffer_, read_, write_, producer, consumer, got>>

----------------------------------------------------------------------------
(* size_t arithmetic: bits, wrapping sums and differences. *)

Bits(v)     == {i \in 0 .. (WordBits - 1) : (v \div 2 ^ i) % 2 = 1}
Value(bits) == CHOOSE v \in 0 .. (Word - 1) : Bits(v) = bits
And(a, b)   == Value(Bits(a) \cap Bits(b))

\* Mutant: a sum that does not wrap.
Plus_Wide(a, b) == a + b

Plus(a, b)  == (a + b) % Word
Minus(a, b) == (Word + a - b) % Word

\* v |= v >> k
Smear(bits, k) == bits \cup {b - k : b \in {c \in bits : c >= k}}

\* Mutant: the bits are not smeared.
nextPow2_Raw(v) == v

nextPow2(v) ==
    LET low  == Smear(Smear(Smear(Bits(Minus(v, 1)), 1), 2), 4)
        high == Smear(Smear(Smear(low, 8), 16), 32)
    IN  Plus(Value(high), 1)

capacity == Plus(mask_, 1)

Cells(from, n) == {And(Plus(from, i), mask_) : i \in 0 .. (n - 1)}

\* Samples a copy of n from counter value from moves before the buffer's end.
First(from, n) == IF n <= capacity - And(from, mask_) THEN n ELSE capacity - And(from, mask_)

----------------------------------------------------------------------------

Init ==
    /\ \E r \in Requests : mask_ = Minus(nextPow2(r), 1)
    /\ buffer_ = [i \in 0 .. (capacity - 1) |-> 0]
    /\ read_ = 0 /\ write_ = 0
    /\ producer = [pc |-> "idle", n |-> 0, rd |-> 0, checked |-> FALSE]
    /\ consumer = [pc |-> "idle", n |-> 0, wr |-> 0, dst |-> <<>>]
    /\ got = <<>>

----------------------------------------------------------------------------
(* The producer. *)

RoomSeen(rd) == capacity - Minus(write_, rd)

\* The host asks availableWrite() before it makes a chunk, and sleeps when the
\* chunk would not fit.
AvailableWrite(n, rd) ==
    /\ producer.pc = "idle" /\ rd \in {producer.rd, read_}
    /\ producer' = IF n <= RoomSeen(rd)
                   THEN [pc |-> "push", n |-> n, rd |-> rd, checked |-> TRUE]
                   ELSE [producer EXCEPT !.rd = rd]
    /\ UNCHANGED <<mask_, buffer_, read_, write_, consumer, got>>

\* Or it pushes and lets tryPush decide.
PushUnasked(n) ==
    /\ producer.pc = "idle"
    /\ producer' = [producer EXCEPT !.pc = "push", !.n = n, !.checked = FALSE]
    /\ UNCHANGED <<mask_, buffer_, read_, write_, consumer, got>>

\* Mutant: the chunk may be one sample larger than the room.
TryPush_OffByOne(rd) ==
    /\ producer.pc = "push" /\ rd \in {producer.rd, read_}
    /\ producer' = [producer EXCEPT !.rd = rd,
                       !.pc = IF producer.n > RoomSeen(rd) + 1 THEN "idle" ELSE "copy1"]
    /\ UNCHANGED <<mask_, buffer_, read_, write_, consumer, got>>

TryPush(rd) ==
    /\ producer.pc = "push" /\ rd \in {producer.rd, read_}
    /\ producer' = [producer EXCEPT !.rd = rd,
                       !.pc = IF producer.n > RoomSeen(rd) THEN "idle" ELSE "copy1"]
    /\ UNCHANGED <<mask_, buffer_, read_, write_, consumer, got>>

\* The two memcpys: samples lo..hi-1 of the chunk to cell pos and on.
Copied(pos, lo, hi) ==
    [i \in DOMAIN buffer_ |->
        IF pos <= i /\ i < pos + hi - lo THEN Plus(write_, lo + i - pos) ELSE buffer_[i]]

PushFirst ==
    /\ producer.pc = "copy1"
    /\ buffer_' = Copied(And(write_, mask_), 0, First(write_, producer.n))
    /\ producer' = [producer EXCEPT !.pc = "copy2"]
    /\ UNCHANGED <<mask_, read_, write_, consumer, got>>

PushSecond ==
    /\ producer.pc = "copy2"
    /\ buffer_' = Copied(0, First(write_, producer.n), producer.n)
    /\ producer' = [producer EXCEPT !.pc = "store"]
    /\ UNCHANGED <<mask_, read_, write_, consumer, got>>

PushStore ==
    /\ producer.pc = "store"
    /\ write_' = Plus(write_, producer.n)
    /\ producer' = [producer EXCEPT !.pc = "idle"]
    /\ UNCHANGED <<mask_, buffer_, read_, consumer, got>>

----------------------------------------------------------------------------
(* The consumer: fillFrames_ takes whole frames, as many as it wants and    *)
(* availableRead() shows, and ignores what tryPop returns.                   *)

\* Mutant: the samples asked for are those seen, not those of whole frames
\* wanted.
AvailableRead_All(want, wr) ==
    /\ consumer.pc = "idle" /\ wr \in {consumer.wr, write_}
    /\ LET take == Channels * want
       IN  consumer' = IF take > 0
                       THEN [pc |-> "pop", n |-> take, wr |-> wr, dst |-> <<>>]
                       ELSE [consumer EXCEPT !.wr = wr]
    /\ UNCHANGED <<mask_, buffer_, read_, write_, producer, got>>

AvailableRead(want, wr) ==
    /\ consumer.pc = "idle" /\ wr \in {consumer.wr, write_}
    /\ LET avail == Minus(wr, read_) \div Channels
           take  == IF avail <= want THEN avail ELSE want
       IN  consumer' = IF take > 0
                       THEN [pc |-> "pop", n |-> take * Channels, wr |-> wr, dst |-> <<>>]
                       ELSE [consumer EXCEPT !.wr = wr]
    /\ UNCHANGED <<mask_, buffer_, read_, write_, producer, got>>

TryPop(wr) ==
    /\ consumer.pc = "pop" /\ wr \in {consumer.wr, write_}
    /\ consumer' = [consumer EXCEPT !.wr = wr,
                       !.pc = IF consumer.n > Minus(wr, read_) THEN "idle" ELSE "copy1"]
    /\ UNCHANGED <<mask_, buffer_, read_, write_, producer, got>>

PopFirst ==
    /\ consumer.pc = "copy1"
    /\ consumer' = [consumer EXCEPT !.pc = "copy2",
                       !.dst = [i \in 1 .. First(read_, consumer.n) |->
                                   buffer_[And(read_, mask_) + i - 1]]]
    /\ UNCHANGED <<mask_, buffer_, read_, write_, producer, got>>

PopSecond ==
    /\ consumer.pc = "copy2"
    /\ consumer' = [consumer EXCEPT !.pc = "store",
                       !.dst = @ \o [i \in 1 .. (consumer.n - Len(@)) |-> buffer_[i - 1]]]
    /\ UNCHANGED <<mask_, buffer_, read_, write_, producer, got>>

PopStore ==
    /\ consumer.pc = "store"
    /\ read_' = Plus(read_, consumer.n)
    /\ got' = consumer.dst
    /\ consumer' = [consumer EXCEPT !.pc = "idle", !.dst = <<>>]
    /\ UNCHANGED <<mask_, buffer_, write_, producer>>

\* reset(): for the owner of both ends, with both threads at rest.
Reset ==
    /\ producer.pc = "idle" /\ consumer.pc = "idle"
    /\ read_' = 0 /\ write_' = 0
    /\ producer' = [producer EXCEPT !.rd = 0]
    /\ consumer' = [consumer EXCEPT !.wr = 0]
    /\ UNCHANGED <<mask_, buffer_, got>>

----------------------------------------------------------------------------

Counters == 0 .. (Word - 1)

Producer ==
    \/ \E n \in PushSizes : PushUnasked(n) \/ \E rd \in Counters : AvailableWrite(n, rd)
    \/ \E rd \in Counters : TryPush(rd)
    \/ PushFirst \/ PushSecond \/ PushStore

Consumer ==
    \/ \E wr \in Counters : TryPop(wr) \/ \E want \in Wants : AvailableRead(want, wr)
    \/ PopFirst \/ PopSecond \/ PopStore

Next == Producer \/ Consumer \/ Reset

Spec == Init /\ [][Next]_vars

----------------------------------------------------------------------------
(* Properties. *)

\* Type invariant.
TypeOK ==
    /\ mask_ \in Counters /\ read_ \in Counters /\ write_ \in Counters
    /\ buffer_ \in [0 .. (capacity - 1) -> Counters]
    /\ producer \in [pc : {"idle", "push", "copy1", "copy2", "store"}, n : Counters,
                     rd : Counters, checked : BOOLEAN]
    /\ consumer \in [pc : {"idle", "pop", "copy1", "copy2", "store"}, n : Counters,
                     wr : Counters, dst : Seq(Counters)]
    /\ got \in Seq(Counters)

Copying == {"copy1", "copy2"}

\* The two threads never touch the same cell at the same time: no memcpy of
\* tryPush overlaps one of tryPop, also where the counters or the cells wrap.
NoRace ==
    producer.pc \in Copying /\ consumer.pc \in Copying =>
        Cells(write_, producer.n) \cap Cells(read_, consumer.n) = {}

\* Both callers ignore what tryPush and tryPop return: after availableWrite()
\* or availableRead() said there is room, or audio, the call does succeed,
\* whatever the other thread did in between and however old the counter seen.
CheckedCallsSucceed ==
    /\ producer.pc = "push" /\ producer.checked =>
          \A rd \in {producer.rd, read_} : producer.n <= RoomSeen(rd)
    /\ consumer.pc = "pop" =>
          \A wr \in {consumer.wr, write_} : consumer.n <= Minus(wr, read_)

\* The ring is a FIFO of chunks: every push and every pop takes effect at its
\* store, in the order of the stores, and no sample is lost, repeated or torn.
Fifo == INSTANCE SampleFifo WITH
    queue   <- [i \in 1 .. Minus(write_, read_) |-> buffer_[And(Plus(read_, i - 1), mask_)]],
    next    <- write_,
    limit   <- capacity,
    Limits  <- 0 .. (Word \div 2),
    Numbers <- Word,
    Chunks  <- 0 .. (Word - 1)

ImplementsFifo == Fifo!Spec

=============================================================================
