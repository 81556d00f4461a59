------------------------------ MODULE HapEvent ------------------------------
(***************************************************************************)
(* The event channel of an AirPlay 2 session: the receiver pushes RTSP     *)
(* requests in encrypted frames, cut at any point, over a connection that  *)
(* delivers them in segments cut at any point, and onEventReadyRead_       *)
(* answers every complete request with an encrypted 200 OK that echoes its *)
(* CSeq.  Apple receivers tear the session down when answers stay away.    *)
(*                                                                         *)
(* A request is a sequence of tokens: its CSeq line, a Content-Length line *)
(* when it has a body, the end of the head, the body.  A damaged frame is  *)
(* dropped together with all that is buffered behind it, and what arrives  *)
(* next need not start with a frame.                                       *)
(***************************************************************************)
EXTENDS HapFrames, Integers

CONSTANTS
    BodyLens,      \* lengths of request bodies
    MaxDamage,     \* bound: frames of one session that arrive damaged
    MaxFrames,     \* bound: frames of one session
    MaxRequests,   \* bound: requests of one session
    MaxSessions    \* bound: sessions

EventAssumption ==
    BodyLens \cup {MaxDamage, MaxFrames, MaxRequests, MaxSessions} \subseteq Nat

VARIABLES
    session,       \* the session's number: its key
    live,          \* state_ is not Idle, and ap2_ is keyed
    eventEncBuf_, eventPlainBuf_, eventRecvCtr_, eventSendCtr_,
    answers,       \* the answers sent in this session
    peer,          \* the receiver: the body lengths of its requests, the
                   \* tokens it has not sent yet, the frames it has sent
    net,           \* half frames on their way to the sender
    damaged        \* history: frames of this session that were damaged

vars == <<session, live, eventEncBuf_, eventPlainBuf_, eventRecvCtr_, eventSendCtr_,
          answers, peer, net, damaged>>

buffers == <<eventEncBuf_, eventPlainBuf_, eventRecvCtr_, eventSendCtr_, answers>>

----------------------------------------------------------------------------

Token(line, n) == [line |-> line, n |-> n]

RequestTokens(n, len) ==
    <<Token("cseq", n)>> \o (IF len > 0 THEN <<Token("length", len)>> ELSE <<>>)
        \o <<Token("end", 0)>> \o [i \in 1 .. len |-> Token("body", n)]

NewPeer == [lens |-> <<>>, unsent |-> <<>>, frames |-> 0]

Init ==
    /\ session = 0 /\ live = FALSE
    /\ eventEncBuf_ = <<>> /\ eventPlainBuf_ = <<>>
    /\ eventRecvCtr_ = 0 /\ eventSendCtr_ = 0
    /\ answers = <<>> /\ peer = NewPeer /\ net = <<>> /\ damaged = 0

----------------------------------------------------------------------------
(* The receiver and the network. *)

Asked == Len(peer.lens)

Ask(len) ==
    /\ live /\ Asked < MaxRequests
    /\ peer' = [peer EXCEPT !.lens = Append(@, len),
                            !.unsent = @ \o RequestTokens(Asked + 1, len)]
    /\ UNCHANGED <<session, live, buffers, net, damaged>>

SendFrame(k, intact) ==
    LET f == [Frame(session, peer.frames, SubSeq(peer.unsent, 1, k)) EXCEPT !.intact = intact] IN
    /\ live /\ peer.frames < MaxFrames
    /\ intact \/ damaged < MaxDamage
    /\ net' = net \o Halves(f)
    /\ peer' = [peer EXCEPT !.frames = @ + 1, !.unsent = SubSeq(@, k + 1, Len(@))]
    /\ damaged' = damaged + (IF intact THEN 0 ELSE 1)
    /\ UNCHANGED <<session, live, buffers>>

----------------------------------------------------------------------------
(* The sender.  The loop over the plaintext: the head ends at the first      *)
(* "end"; of the lines before it the last of a kind counts; the body must    *)
(* have arrived.                                                             *)

LastLine(p, line, end) ==
    LET at == {i \in 1 .. end : p[i].line = line} IN IF at = {} THEN 0 ELSE p[Max(at)].n

HeadEnd(p) == LET at == {i \in DOMAIN p : p[i].line = "end"} IN IF at = {} THEN 0 ELSE Min(at)

\* Mutant: the body is not waited for.
Total_HeadOnly(p) == HeadEnd(p)

Total(p) == HeadEnd(p) + LastLine(p, "length", HeadEnd(p))

HasRequest(p) == HeadEnd(p) > 0 /\ Len(p) >= Total(p)

\* Mutant: an answered request stays in the buffer.
Serve_Unerased(r) ==
    IF ~HasRequest(r.rest) THEN r
    ELSE [r EXCEPT !.cseqs = Append(@, LastLine(r.rest, "cseq", HeadEnd(r.rest)))]

\* One turn of the loop on r: the plaintext left and the CSeqs answered so far.
Serve(r) ==
    IF ~HasRequest(r.rest) THEN r
    ELSE [rest  |-> SubSeq(r.rest, Total(r.rest) + 1, Len(r.rest)),
          cseqs |-> Append(r.cseqs, LastLine(r.rest, "cseq", HeadEnd(r.rest)))]

\* Where the loop on p ends (the only one).
Served(p) == LET after[n \in 0 .. Len(p)] ==
                     IF n = 0 THEN {[rest |-> p, cseqs |-> <<>>]}
                              ELSE {Serve(r) : r \in after[n - 1]}
             IN  after[Len(p)]

Answer(p) == \E s \in Served(p) :
    /\ eventPlainBuf_' = s.rest
    /\ answers' = answers \o [i \in DOMAIN s.cseqs |->
                      [key |-> session, ctr |-> eventSendCtr_ + i - 1, cseq |-> s.cseqs[i]]]
    /\ eventSendCtr_' = eventSendCtr_ + Len(s.cseqs)

\* Mutant: what is left of the buffer behind the last frame is forgotten.
Kept_Forgotten(buf, n) == <<>>

Kept(buf, n) == Rest(buf, n)

\* n frames opened and the next did not: everything is dropped, nothing answered.
Drop(buf, n) ==
    /\ eventEncBuf_' = <<>>
    /\ eventRecvCtr_' = eventRecvCtr_ + n + 1
    /\ eventPlainBuf_' = eventPlainBuf_ \o Plain(buf, n)
    /\ UNCHANGED <<eventSendCtr_, answers>>

\* Where the buffer does not start with a frame, its first bytes are read as a
\* length: more is waited for, or the bytes it covers do not open.
onEventReadyRead_(j) ==
    \E buf \in {eventEncBuf_ \o SubSeq(net, 1, j)} :
    \E n \in {Opened(buf, session, eventRecvCtr_)} :
    /\ live
    /\ net' = SubSeq(net, j + 1, Len(net))
    /\ \/ /\ Aligned(buf) /\ n = Complete(buf)
          /\ eventEncBuf_' = Kept(buf, n)
          /\ eventRecvCtr_' = eventRecvCtr_ + n
          /\ Answer(eventPlainBuf_ \o Plain(buf, n))
       \/ Aligned(buf) /\ n < Complete(buf) /\ Drop(buf, n)
       \/ ~Aligned(buf) /\ Drop(buf, 0)
       \/ /\ ~Aligned(buf)
          /\ eventEncBuf_' = buf
          /\ Answer(eventPlainBuf_)
          /\ UNCHANGED eventRecvCtr_
    /\ UNCHANGED <<session, live, peer, damaged>>

\* start(), and the new session's event channel once it is connected and keyed.
Start ==
    /\ session < MaxSessions
    /\ session' = session + 1 /\ live' = TRUE
    /\ eventEncBuf_' = <<>> /\ eventPlainBuf_' = <<>>
    /\ eventRecvCtr_' = 0 /\ eventSendCtr_' = 0
    /\ answers' = <<>> /\ peer' = NewPeer /\ net' = <<>> /\ damaged' = 0

\* The session ends, and its connection with it; the sender's buffers stay.
End ==
    /\ live
    /\ live' = FALSE
    /\ answers' = <<>> /\ peer' = NewPeer /\ net' = <<>> /\ damaged' = 0
    /\ UNCHANGED <<session, eventEncBuf_, eventPlainBuf_, eventRecvCtr_, eventSendCtr_>>

----------------------------------------------------------------------------

ReadSome == \E j \in 1 .. Len(net) : onEventReadyRead_(j)
SendSome == \E k \in 1 .. Len(peer.unsent), ok \in BOOLEAN : SendFrame(k, ok)

Next == (\E len \in BodyLens : Ask(len)) \/ SendSome \/ ReadSome \/ Start \/ End

Spec == Init /\ [][Next]_vars

\* The receiver sends what it has composed and the connection delivers it.
Fairness == WF_vars(SendSome) /\ WF_vars(ReadSome)

LiveSpec == Spec /\ Fairness

----------------------------------------------------------------------------
(* What is to hold. *)

\* Type invariant: whole halves of frames, known lines, counters never negative.
TypeOK ==
    /\ session \in 0 .. MaxSessions /\ live \in BOOLEAN /\ damaged \in 0 .. MaxDamage
    /\ eventRecvCtr_ \in Nat /\ eventSendCtr_ \in Nat
    /\ peer.lens \in Seq(BodyLens) /\ Asked <= MaxRequests /\ peer.frames \in 0 .. MaxFrames
    /\ \A i \in DOMAIN eventEncBuf_ : eventEncBuf_[i].half \in {1, 2}
    /\ \A i \in DOMAIN eventPlainBuf_ : eventPlainBuf_[i].line \in {"cseq", "length", "end", "body"}
    /\ \A i \in DOMAIN answers : answers[i].cseq \in 0 .. MaxRequests

\* What the sender has buffered and what is still to come.
InFlight == eventPlainBuf_ \o FlattenSeq([i \in DOMAIN (eventEncBuf_ \o net) |->
                LET h == (eventEncBuf_ \o net)[i]
                IN  IF h.half = 1 THEN h.frame.plain ELSE <<>>]) \o peer.unsent

\* The requests not answered yet, as they were composed.
Unanswered == FlattenSeq([i \in 1 .. (Asked - Len(answers)) |->
                  RequestTokens(Len(answers) + i, peer.lens[Len(answers) + i])])

\* Over any framing and any segmentation each request is answered once, in
\* order, with its CSeq and not before its last byte, and at once when that has
\* arrived; answer n is sealed with the n-th counter of this session's key, so
\* that the receiver can open it and no nonce is used twice.
OneAnswerEach ==
    /\ \A i \in DOMAIN answers : answers[i].key = session /\ answers[i].ctr = i - 1
    /\ live /\ damaged = 0 =>
          /\ \A i \in DOMAIN answers : answers[i].cseq = i
          /\ InFlight = Unanswered
          /\ ~HasRequest(eventPlainBuf_)

\* Even after a damaged frame, whatever requests run together in the buffers, no
\* CSeq is answered twice or out of order.
NoAnswerTwice ==
    \A i, j \in DOMAIN answers :
        i < j /\ answers[i].cseq # 0 /\ answers[j].cseq # 0 => answers[i].cseq < answers[j].cseq

\* Over an undamaged connection the answers always catch up with the requests
\* of the session (onEventReadyRead_ leaves nothing complete in its buffers).
EveryRequestAnswered == []<>(~live \/ damaged > 0 \/ Len(answers) = Asked)
=============================================================================
