----------------------------- MODULE HapControl -----------------------------
(***************************************************************************)
(* The control connection of an AirPlay 2 session as a byte stream: the    *)
(* requests writeRtsp_ puts on it, in the clear until pairing is over and  *)
(* in encrypted frames from then on, and onRtspReadyRead_, which turns     *)
(* segments cut anywhere back into frames, frames into text and text into  *)
(* replies.  Both ends switch at the reply to the last pairing request:    *)
(* the receiver when it has sent it, the sender when it has read it.       *)
(*                                                                         *)
(* What a reply makes the sender do next is RaopSession's subject; here it *)
(* makes requests one at a time while it pairs and several at a time       *)
(* later.  A message is a head and a body of any of the given lengths.     *)
(***************************************************************************)
EXTENDS HapFrames, Integers

CONSTANTS
    Bodies,        \* body lengths, in tokens
    Chunk,         \* tokens of a frame (1024 bytes)
    Cap,           \* tokens rxBuf_ may hold (4 MB)
    PairSteps,     \* requests until pairing is over
    MaxRequests,   \* bound: requests of one session
    MaxPending,    \* bound: requests waiting for their reply
    MaxPushes,     \* bound: pushed requests of one session
    MaxDamage,     \* bound: damaged frames of one session
    MaxSessions    \* bound: sessions

ASSUME ControlAssumption ==
    /\ Bodies \cup {Cap, PairSteps, MaxRequests, MaxPending, MaxPushes, MaxDamage,
                    MaxSessions} \subseteq Nat
    /\ Chunk \in Nat \ {0}

VARIABLES
    session,       \* the session's number: its key
    failed,        \* why the sender gave the session up: "no", "auth",
                   \* "oversize", or "over" (stopped, or none yet)
    snd,           \* the sender's members: enc, sendCtr, recvCtr, encBuf, rxBuf,
                   \* pending (pendingMethods_)
    rcv,           \* the receiver: enc, sendCtr, recvCtr, the requests it has read
                   \* and the replies it has made, the requests it has pushed,
                   \* early: it pushed one between its switch and the sender's
                   \* first encrypted request, inStep: it could open all it was sent
    toRcv, toSnd,  \* the two directions of the connection
    handled,       \* the replies dispatched: <<request, reply>>
    asked,         \* requests made in this session
    damaged        \* history: frames damaged in this session

vars == <<session, failed, snd, rcv, toRcv, toSnd, handled, asked, damaged>>

live == failed = "no"

NewSnd == [enc |-> FALSE, sendCtr |-> 0, recvCtr |-> 0, encBuf |-> <<>>,
           rxBuf |-> <<>>, pending |-> <<>>]
NewRcv == [enc |-> FALSE, sendCtr |-> 0, recvCtr |-> 0, read |-> 0, replied |-> 0,
           pushes |-> 0, early |-> FALSE, inStep |-> TRUE]

Init ==
    /\ session = 0 /\ failed = "over"
    /\ snd = NewSnd /\ rcv = NewRcv
    /\ toRcv = <<>> /\ toSnd = <<>> /\ handled = <<>>
    /\ asked = 0 /\ damaged = 0

----------------------------------------------------------------------------
(* Messages.  The head carries the length of the body. *)

Token(kind, n, len) == [kind |-> kind, n |-> n, len |-> len]

Message(kind, n, len) ==
    <<Token(kind, n, len)>> \o [i \in 1 .. len |-> Token("body", n, 0)]

\* Text on the wire: neither half of a frame.
Clear(data) == [i \in DOMAIN data |-> [frame |-> Frame(0, 0, <<data[i]>>), half |-> 0]]

----------------------------------------------------------------------------
(* The sender's requests. *)

\* Mutant: the counter is advanced once a request, not once a frame.
Advance_PerRequest(frames) == 1

Advance(frames) == Len(frames)

\* A request with a body of len, its method pushed on the FIFO.
writeRtsp_(len) ==
    LET data   == Message("request", asked + 1, len)
        frames == Seal(data, Chunk, session, snd.sendCtr) IN
    /\ live /\ asked < MaxRequests
    /\ Len(snd.pending) < (IF asked <= PairSteps THEN 1 ELSE MaxPending)
    /\ asked' = asked + 1
    /\ snd' = [snd EXCEPT !.pending = Append(@, asked + 1),
                          !.sendCtr = IF snd.enc THEN @ + Advance(frames) ELSE @]
    /\ toRcv' = Append(toRcv, IF snd.enc THEN Wire(frames) ELSE Clear(data))
    /\ UNCHANGED <<session, failed, rcv, toSnd, handled, damaged>>

----------------------------------------------------------------------------
(* The receiver. *)

\* It reads a request, in the clear or frame by frame.
Understands(items) ==
    IF rcv.enc THEN /\ Aligned(items)
                    /\ Opened(items, session, rcv.recvCtr) = Complete(items)
               ELSE \A i \in DOMAIN items : items[i].half = 0

Reads ==
    /\ live /\ toRcv # <<>>
    /\ toRcv' = Tail(toRcv)
    /\ rcv' = [rcv EXCEPT !.read = @ + 1,
                          !.recvCtr = IF rcv.enc THEN @ + Complete(Head(toRcv)) ELSE @,
                          !.inStep = @ /\ Understands(Head(toRcv))]
    /\ UNCHANGED <<session, failed, snd, toSnd, handled, asked, damaged>>

\* data goes out in frames of size tokens, the first of them intact or not.
Emit(data, size, intact, after) ==
    LET f == Seal(data, size, session, rcv.sendCtr) IN
    /\ live /\ (intact \/ (rcv.enc /\ damaged < MaxDamage))
    /\ toSnd' = toSnd \o (IF rcv.enc THEN Wire([f EXCEPT ![1].intact = intact])
                                     ELSE Clear(data))
    /\ rcv' = [after EXCEPT !.sendCtr = IF rcv.enc THEN @ + Len(f) ELSE @]
    /\ damaged' = damaged + (IF intact THEN 0 ELSE 1)
    /\ UNCHANGED <<session, failed, snd, toRcv, handled, asked>>

Replies(len, size, intact) ==
    /\ rcv.replied < rcv.read
    /\ Emit(Message("reply", rcv.replied + 1, len), size, intact,
            [rcv EXCEPT !.replied = @ + 1, !.enc = @ \/ rcv.replied + 1 = PairSteps])

Unsettled == rcv.enc /\ rcv.read = PairSteps

PushesRequest(len, size) ==
    /\ rcv.pushes < MaxPushes
    /\ Emit(Message("push", rcv.pushes + 1, len), size, TRUE,
            [rcv EXCEPT !.pushes = @ + 1, !.early = @ \/ Unsettled])

----------------------------------------------------------------------------
(* onRtspReadyRead_. *)

\* Ciphertext that is taken for text holds no head.
Text(items) == [i \in DOMAIN items |-> IF items[i].half = 0 THEN items[i].frame.plain[1]
                                                            ELSE Token("junk", 0, 0)]

HeadAt(p) == LET at == {i \in DOMAIN p : p[i].kind \in {"reply", "push"}}
             IN  IF at = {} THEN 0 ELSE Min(at)

Needed(p) == HeadAt(p) + p[HeadAt(p)].len

\* Mutant: whatever comes is taken for a reply.
IsReply_Always(p) == TRUE

\* It begins with a status line.
IsReply(p) == HeadAt(p) = 1 /\ p[1].kind = "reply"

\* One turn of the loop: the first message is taken off.  What does not begin
\* with a status line is ignored, and so is a reply nobody waits for.
Dispatch(r) ==
    LET p == r.rest
        h == HeadAt(p)
        rest == SubSeq(p, Needed(p) + 1, Len(p)) IN
    IF h = 0 \/ Len(p) < Needed(p) THEN r
    ELSE IF ~IsReply(p) \/ r.pending = <<>> THEN [r EXCEPT !.rest = rest]
    ELSE [rest |-> rest, pending |-> Tail(r.pending),
          handled |-> Append(r.handled, <<Head(r.pending), p[h].n>>),
          paired |-> r.paired \/ Head(r.pending) = PairSteps]

\* Where the loop on text ends (the only one).
Dispatched(text) ==
    LET after[n \in 0 .. Len(text)] ==
            IF n = 0 THEN {[rest |-> text, pending |-> snd.pending, handled |-> handled,
                            paired |-> FALSE]}
                     ELSE {Dispatch(r) : r \in after[n - 1]}
    IN  after[Len(text)]

\* fail_: the connection is gone.
Fail(why) ==
    /\ failed' = why /\ toRcv' = <<>> /\ toSnd' = <<>>
    /\ UNCHANGED <<snd, handled>>

\* Mutant: the channel stays in the clear.
Switch_Clear(x) == [x EXCEPT !.sendCtr = 0, !.recvCtr = 0, !.encBuf = <<>>]

\* afterAuthOk_.
Switch(x) == [x EXCEPT !.enc = TRUE, !.sendCtr = 0, !.recvCtr = 0, !.encBuf = <<>>]

\* Mutant: no cap.
Oversized_Never(text) == FALSE

Oversized(text) == Len(text) > Cap

\* The loop over text, with ciphertext enc left and ctr frames opened so far.
Consume(text, enc, ctr) ==
    \/ Oversized(text) /\ Fail("oversize")
    \/ /\ ~Oversized(text)
       /\ \E r \in Dispatched(text) :
           LET x == [snd EXCEPT !.rxBuf = r.rest, !.pending = r.pending,
                                !.encBuf = enc, !.recvCtr = ctr]
           IN  snd' = (IF r.paired THEN Switch(x) ELSE x) /\ handled' = r.handled
       /\ UNCHANGED <<failed, toRcv>>

\* Where the buffer does not begin with a frame (a request pushed early was cut by
\* the switch), its first bytes are read as a length: what that covers does not
\* open, or more is waited for.
onRtspReadyRead_(j) ==
    \E got \in {SubSeq(toSnd, 1, j)} :
    \E buf \in {snd.encBuf \o got} :
    \E n \in {IF snd.enc THEN Opened(buf, session, snd.recvCtr) ELSE 0} :
    /\ live
    /\ \/ /\ ~snd.enc
          /\ toSnd' = SubSeq(toSnd, j + 1, Len(toSnd))
          /\ Consume(snd.rxBuf \o Text(got), snd.encBuf, snd.recvCtr)
       \/ /\ snd.enc /\ Aligned(buf) /\ n = Complete(buf)
          /\ toSnd' = SubSeq(toSnd, j + 1, Len(toSnd))
          /\ Consume(snd.rxBuf \o Plain(buf, n), Rest(buf, n), snd.recvCtr + n)
       \/ /\ snd.enc /\ ~Aligned(buf)
          /\ toSnd' = SubSeq(toSnd, j + 1, Len(toSnd))
          /\ Consume(snd.rxBuf, buf, snd.recvCtr)
       \/ snd.enc /\ (~Aligned(buf) \/ n < Complete(buf)) /\ Fail("auth")
    /\ UNCHANGED <<session, rcv, asked, damaged>>

----------------------------------------------------------------------------

Start ==
    /\ session < MaxSessions
    /\ session' = session + 1 /\ failed' = "no"
    /\ snd' = NewSnd /\ rcv' = NewRcv
    /\ toRcv' = <<>> /\ toSnd' = <<>> /\ handled' = <<>>
    /\ asked' = 0 /\ damaged' = 0

Stop == /\ live /\ Fail("over")
        /\ UNCHANGED <<session, rcv, asked, damaged>>

Requests == \E len \in Bodies : writeRtsp_(len)
RepliesSome == \E len \in Bodies, size \in 1 .. Chunk, ok \in BOOLEAN : Replies(len, size, ok)
PushesSome == \E len \in Bodies, size \in 1 .. Chunk : PushesRequest(len, size)
ReadsSome == \E j \in 1 .. Len(toSnd) : onRtspReadyRead_(j)

Next == Requests \/ Reads \/ RepliesSome \/ PushesSome \/ ReadsSome \/ Start \/ Stop

Spec == Init /\ [][Next]_vars

\* The receiver reads and replies, the connection delivers.
Fairness == WF_vars(Reads) /\ WF_vars(RepliesSome) /\ WF_vars(ReadsSome)

LiveSpec == Spec /\ Fairness

----------------------------------------------------------------------------
(* What is to hold. *)

\* Type invariant: counters never negative, the text buffer within its cap.
TypeOK ==
    /\ session \in 0 .. MaxSessions /\ failed \in {"no", "auth", "oversize", "over"}
    /\ {snd.sendCtr, snd.recvCtr, rcv.sendCtr, rcv.recvCtr} \subseteq Nat
    /\ snd.enc \in BOOLEAN /\ rcv.enc \in BOOLEAN /\ rcv.inStep \in BOOLEAN
    /\ snd.pending \in Seq(1 .. MaxRequests) /\ Len(snd.rxBuf) <= Cap
    /\ \A i \in DOMAIN snd.encBuf : snd.encBuf[i].half \in {0, 1, 2}
    /\ asked \in 0 .. MaxRequests /\ damaged \in 0 .. MaxDamage

\* Whatever the segments, the frames and the requests the receiver pushes in
\* between, every reply is dispatched once, whole, in order and for the request
\* it answers, and a reply in a damaged frame or behind one never is.
RepliesIntact ==
    /\ \A i \in DOMAIN handled : handled[i] = <<i, i>>
    /\ live => Len(handled) + Len(snd.pending) = asked
    /\ Len(handled) <= rcv.replied

\* The receiver opens every request: the switch to encryption and the counters
\* are in step at both ends, over requests that span frames and over sessions;
\* and only a damaged frame makes the sender give up for want of authenticity, or
\* a request pushed before the sender has switched, which it takes for text and
\* does not count.
InStep ==
    /\ rcv.inStep
    /\ failed = "auth" => damaged > 0 \/ rcv.early

\* The rest of a request pushed early is what onRtspReadyRead_ waits behind.
Misread == rcv.early /\ ~Aligned(snd.encBuf)

\* The replies always catch up with the requests of a session that has not been
\* given up: nothing of a reply stays behind in the buffers of onRtspReadyRead_,
\* unless the ciphertext does not begin with a frame, which is so only after a
\* request pushed early; there the replies may wait as long as the session.
RequestDone == []<>(~live \/ Len(handled) = asked \/ Misread)
=============================================================================
