----------------------------- MODULE RaopStream -----------------------------
(***************************************************************************)
(* The data plane of RaopSender: the pacer that turns wall-clock time into *)
(* audio packets, their sequence numbers, RTP times and nonces, the sync   *)
(* packets, and the backlog that answers the receiver's retransmit         *)
(* requests, through any number of sessions.  The control plane is         *)
(* RaopSession; here a session is Starting from start() to                 *)
(* startStreaming_(), and what happens in between is one step (SetUp).     *)
(*                                                                         *)
(* A packet is the numbers in its header, with the nonce its payload is    *)
(* encrypted under; the samples in it are the business of SpscRing.        *)
(***************************************************************************)
EXTENDS Integers, Sequences

CONSTANTS
    SeqMod,             \* 2^16: RTP sequence numbers
    RtpMod,             \* 2^32: RTP times
    ClockMod,           \* 2^64: elapsedNs * kRaopRate is computed modulo this
    FramesPerPacket,    \* kFramesPerPacket
    MaxPacketsPerTick,  \* kMaxPacketsPerTick
    BacklogSize,        \* kBacklogSize
    Rate, Second,       \* kRaopRate frames in Second units of the clock
    Latency,            \* latency_, in frames
    Stalls,             \* by how much the clock may advance between two ticks
    MaxElapsed,         \* bound on the time a stream lasts
    FirstSeqs,          \* what start() may draw for seq_
    LostCounts          \* how many packets the receiver may ask for at once

\* The backlog divides the range of sequence numbers, so that slots follow each
\* other across the wrap, and is larger than a burst.
ASSUME StreamAssumption ==
    /\ SeqMod \in Nat \ {0} /\ RtpMod \in Nat \ {0} /\ ClockMod \in Nat \ {0}
    /\ FramesPerPacket \in Nat \ {0} /\ Rate \in Nat \ {0} /\ Second \in Nat \ {0}
    /\ BacklogSize \in Nat \ {0} /\ BacklogSize < SeqMod /\ SeqMod % BacklogSize = 0
    /\ MaxPacketsPerTick \in 1 .. BacklogSize
    /\ Latency \in Nat /\ MaxElapsed \in Nat
    /\ Stalls \subseteq Nat \ {0}
    /\ FirstSeqs \subseteq 0 .. (SeqMod - 1)
    /\ LostCounts \subseteq 0 .. (SeqMod - 1)

Seqs  == 0 .. (SeqMod - 1)
Slots == 0 .. (BacklogSize - 1)
None  == -1                      \* no nonce, no packet in a slot

VARIABLES
    state,        \* "Idle", "Starting" (Connecting to Handshake), "Streaming"
    sessionId,    \* sessionId_, the SSRC of the packets, and the session's keys
    encryptAudio, \* ap2_->encryptAudio: an AirPlay 2 session
    controlPort,  \* is controlPort_ set?
    audioNonce,   \* ap2_->audioNonce
    seq,          \* seq_
    framesSent,   \* framesSent_
    firstAudio,   \* firstAudio_
    elapsed,      \* now - clockStart_
    backlog,      \* backlog_: what was sent last from each slot
    backlogSeq,   \* backlogSeq_
    \* what has left the sender
    announced,    \* seq and rtptime in RECORD's RTP-Info, if it was sent
    syncs,        \* sync packets of this stream: none, the first, more
    sent,         \* the audio packets of this session
    answer        \* the last retransmit request and the packets it got

session == <<sessionId, encryptAudio, controlPort>>
cursor  == <<audioNonce, seq, framesSent, firstAudio>>
store   == <<backlog, backlogSeq>>
output  == <<announced, syncs, sent>>
vars    == <<state, session, cursor, elapsed, store, output, answer>>

Packet == [ssrc : {0, 1}, seq : Seqs, rtptime : 0 .. (RtpMod - 1), marker : BOOLEAN,
           nonce : Nat \cup {None}]

NoPacket == [ssrc |-> 0, seq |-> 0, rtptime |-> 0, marker |-> FALSE, nonce |-> None]
NoAnswer == [asked |-> FALSE, first |-> 0, count |-> 0, packets |-> {}]

rtptime32_(frames) == (Latency + frames) % RtpMod

Init ==
    /\ state = "Idle" /\ sessionId = 0 /\ encryptAudio = FALSE /\ controlPort = FALSE
    /\ audioNonce = 0 /\ seq = 0 /\ framesSent = 0 /\ firstAudio = TRUE
    /\ elapsed = 0
    /\ backlog = [i \in Slots |-> NoPacket]
    /\ backlogSeq = [i \in Slots |-> None]
    /\ announced = <<>> /\ syncs = 0 /\ sent = <<>> /\ answer = NoAnswer

----------------------------------------------------------------------------
(* Sessions. *)

\* Mutant: start() takes the backlog to be empty.
start_KeepsBacklog(first, bindOk) ==
    /\ state' = IF bindOk THEN "Starting" ELSE "Idle"
    /\ sessionId' = 1 - sessionId /\ seq' = first
    /\ encryptAudio' = FALSE /\ controlPort' = FALSE /\ audioNonce' = 0
    /\ framesSent' = 0 /\ firstAudio' = TRUE /\ elapsed' = 0
    /\ announced' = <<>> /\ syncs' = 0 /\ sent' = <<>> /\ answer' = NoAnswer
    /\ UNCHANGED store

\* start(): a session still running is stopped first; the identity of the new
\* one and its first sequence number are drawn at random.  A payload whose
\* backlogSeq is None is never read again, and is taken to be gone.
start(first, bindOk) ==
    /\ state' = IF bindOk THEN "Starting" ELSE "Idle"
    /\ sessionId' = 1 - sessionId /\ seq' = first
    /\ encryptAudio' = FALSE /\ controlPort' = FALSE /\ audioNonce' = 0
    /\ framesSent' = 0 /\ firstAudio' = TRUE /\ elapsed' = 0
    /\ backlogSeq' = [i \in Slots |-> None]
    /\ backlog' = [i \in Slots |-> NoPacket]
    /\ announced' = <<>> /\ syncs' = 0 /\ sent' = <<>> /\ answer' = NoAnswer

\* The requests that prepare the stream: RECORD announces the first packet of
\* an AirPlay 1 stream, the stream SETUP keys an AirPlay 2 one.  An AirPlay 2
\* receiver that names no control port gets the sync packets on the data port.
SetUp(ap2, port) ==
    /\ state = "Starting" /\ announced = <<>> /\ ~encryptAudio
    /\ encryptAudio' = ap2 /\ audioNonce' = 0
    /\ controlPort' = (port \/ ap2)
    /\ announced' = IF ap2 THEN announced ELSE <<seq, rtptime32_(framesSent)>>
    /\ answer' = NoAnswer
    /\ UNCHANGED <<state, sessionId, seq, framesSent, firstAudio, elapsed, store,
                   syncs, sent>>

\* sendSyncPacket_: nothing is sent without a control port.
sendSyncPacket_ == syncs' = IF ~controlPort THEN syncs ELSE IF syncs < 2 THEN syncs + 1 ELSE 2

startStreaming_ ==
    /\ state' = "Streaming"
    /\ framesSent' = 0 /\ firstAudio' = TRUE /\ elapsed' = 0
    /\ sendSyncPacket_
    /\ answer' = NoAnswer
    /\ UNCHANGED <<session, audioNonce, seq, store, announced, sent>>

\* Mutant: a late reply to RECORD starts the stream over.
OnSetUpReply_Again ==
    /\ state # "Idle" /\ (announced # <<>> \/ encryptAudio)
    /\ startStreaming_

\* The reply to RECORD (AirPlay 1) or to the stream SETUP (AirPlay 2).  One that
\* comes late, or again, must not start the stream over.
OnSetUpReply ==
    /\ state # "Idle" /\ (announced # <<>> \/ encryptAudio)
    /\ IF state = "Streaming" THEN UNCHANGED vars ELSE startStreaming_

\* stop(), and the receiver's FIN.
EndAndClear ==
    /\ state # "Idle" /\ state' = "Idle"
    /\ backlogSeq' = [i \in Slots |-> None]
    /\ backlog' = [i \in Slots |-> NoPacket]
    /\ answer' = NoAnswer
    /\ UNCHANGED <<session, cursor, elapsed, output>>

\* fail_() leaves the backlog as it is.
fail_ ==
    /\ state # "Idle" /\ state' = "Idle"
    /\ answer' = NoAnswer
    /\ UNCHANGED <<session, cursor, elapsed, store, output>>

----------------------------------------------------------------------------
(* Audio. *)

TimePasses(d) ==
    /\ state = "Streaming" /\ elapsed + d <= MaxElapsed
    /\ elapsed' = elapsed + d
    /\ answer' = NoAnswer
    /\ UNCHANGED <<state, session, cursor, store, output>>

\* Mutant: the nonce is advanced once a tick.
encryptAudioPayload_Stuck(k) == IF encryptAudio THEN audioNonce ELSE None

\* The nonce of the payload that the k-th packet of a tick carries.
encryptAudioPayload_(k) == IF encryptAudio THEN audioNonce + k - 1 ELSE None

\* Mutant: the sequence number is not cut to 16 bits.
nextSeq_Wide(n) == seq + n

\* seq_ after n packets.
nextSeq(n) == (seq + n) % SeqMod

\* The k-th packet of a tick.
audioPacket(k) ==
    [ssrc    |-> sessionId,
     seq     |-> nextSeq(k - 1),
     rtptime |-> rtptime32_(framesSent + (k - 1) * FramesPerPacket),
     marker  |-> firstAudio /\ k = 1,
     nonce   |-> encryptAudioPayload_(k)]

\* n calls of sendAudioPacket_ in a row.
sendAudioPackets_(n) ==
    LET Put(i) == {k \in 1 .. n : audioPacket(k).seq % BacklogSize = i}
        packet(i) == audioPacket(CHOOSE k \in Put(i) : TRUE)
    IN  /\ sent' = sent \o [k \in 1 .. n |-> audioPacket(k)]
        /\ backlog'    = [i \in Slots |-> IF Put(i) = {} THEN backlog[i] ELSE packet(i)]
        /\ backlogSeq' = [i \in Slots |-> IF Put(i) = {} THEN backlogSeq[i] ELSE packet(i).seq]
        /\ firstAudio' = (firstAudio /\ n = 0)
        /\ seq' = nextSeq(n)
        /\ framesSent' = framesSent + n * FramesPerPacket
        /\ audioNonce' = IF encryptAudio THEN audioNonce + n ELSE audioNonce

\* Where the stream should be, as the pacer computes it.
target == (elapsed * Rate % ClockMod) \div Second

\* Mutant: one packet more than is due.
packetsDue_Early ==
    LET due == IF target < framesSent THEN 0 ELSE (target - framesSent) \div FramesPerPacket + 1
    IN  IF due <= MaxPacketsPerTick THEN due ELSE MaxPacketsPerTick

\* Mutant: a tick that is behind by more than a burst skips.
packetsDue_Skips ==
    LET due == IF target < framesSent THEN 0 ELSE (target - framesSent) \div FramesPerPacket
    IN  IF due <= MaxPacketsPerTick THEN due ELSE 0

packetsDue ==
    LET due == IF target < framesSent THEN 0 ELSE (target - framesSent) \div FramesPerPacket
    IN  IF due <= MaxPacketsPerTick THEN due ELSE MaxPacketsPerTick

onPacerTick_ ==
    /\ state = "Streaming"
    /\ sendAudioPackets_(packetsDue)
    /\ answer' = NoAnswer
    /\ UNCHANGED <<state, session, elapsed, announced, syncs>>

OnSyncTimer ==
    /\ state = "Streaming"
    /\ sendSyncPacket_
    /\ answer' = NoAnswer
    /\ UNCHANGED <<state, session, cursor, elapsed, store, announced, sent>>

----------------------------------------------------------------------------
(* Retransmission. *)

Asked(first, count) == {(first + i) % SeqMod : i \in 0 .. (count - 1)}

\* onUdpDatagram with a retransmit request: dropped in Idle, else answered with
\* the packets that are still in the backlog.
OnRetransmitRequest(first, count) ==
    /\ answer' = [asked |-> TRUE, first |-> first, count |-> count,
                  packets |-> IF state = "Idle" THEN {}
                              ELSE {backlog[n % BacklogSize] :
                                      n \in {m \in Asked(first, count) :
                                               backlogSeq[m % BacklogSize] = m}}]
    /\ UNCHANGED <<state, session, cursor, elapsed, store, output>>

----------------------------------------------------------------------------

Next ==
    \/ \E first \in FirstSeqs, ok \in BOOLEAN : start(first, ok)
    \/ \E ap2, port \in BOOLEAN : SetUp(ap2, port)
    \/ OnSetUpReply
    \/ EndAndClear
    \/ fail_
    \/ \E d \in Stalls : TimePasses(d)
    \/ onPacerTick_
    \/ OnSyncTimer
    \/ \E first \in Seqs, count \in LostCounts : OnRetransmitRequest(first, count)

Spec == Init /\ [][Next]_vars

\* tick() is called at every deadline, and the pacer timer repeats.
FairSpec == Spec /\ WF_vars(onPacerTick_)

----------------------------------------------------------------------------
(* Properties. *)

\* Type invariant.
TypeOK ==
    /\ state \in {"Idle", "Starting", "Streaming"}
    /\ sessionId \in {0, 1} /\ encryptAudio \in BOOLEAN /\ controlPort \in BOOLEAN
    /\ audioNonce \in Nat /\ seq \in Seqs /\ framesSent \in Nat /\ firstAudio \in BOOLEAN
    /\ elapsed \in Nat
    /\ backlog \in [Slots -> Packet] /\ backlogSeq \in [Slots -> Seqs \cup {None}]
    /\ announced = <<>> \/ announced \in Seqs \X (0 .. (RtpMod - 1))
    /\ syncs \in 0 .. 2
    /\ sent \in Seq(Packet)
    /\ answer \in [asked : BOOLEAN, first : Seqs, count : Seqs, packets : SUBSET Packet]

\* The audio of a session is one unbroken timeline: consecutive sequence numbers
\* from the announced one, RTP times a packet's length apart from the announced
\* one, across every wrap; the marker on the first packet only; and the first
\* sync packet, if there is a control port, before it.
OneTimeline ==
    /\ \A i \in 1 .. Len(sent) :
          /\ sent[i].ssrc = sessionId
          /\ sent[i].seq = (sent[1].seq + i - 1) % SeqMod
          /\ sent[i].rtptime = (Latency + (i - 1) * FramesPerPacket) % RtpMod
          /\ sent[i].marker = (i = 1)
    /\ sent # <<>> =>
          /\ announced # <<>> => announced = <<sent[1].seq, sent[1].rtptime>>
          /\ controlPort => syncs # 0

\* No nonce is used twice under one key: the key is the session's, and a packet
\* that is sent again is the same packet, not one encrypted anew.
NonceNeverReused ==
    encryptAudio => \A i, j \in 1 .. Len(sent) : sent[i].nonce = sent[j].nonce => i = j

\* The packets of this session that the backlog still has to know.
Recent == {sent[i] : i \in {j \in 1 .. Len(sent) : j + BacklogSize > Len(sent)}}

\* A retransmit request is answered with exactly those of the last BacklogSize
\* packets of the running session that it asks for, as they were sent, and with
\* no packet of an earlier session; an ended session answers nothing.
AnswersExact ==
    answer.asked =>
        answer.packets = IF state = "Idle" THEN {}
                         ELSE {p \in Recent : p.seq \in Asked(answer.first, answer.count)}

\* The stream is never ahead of the wall clock.
NeverAhead == state = "Streaming" => framesSent * Second <= elapsed * Rate

\* "frames-on-the-wire must track wall clock": however long a stall, the bursts
\* of at most MaxPacketsPerTick repay it.
Behind == state = "Streaming" /\ (framesSent + FramesPerPacket) * Second <= elapsed * Rate

TracksClock == Behind ~> ~Behind

=============================================================================
