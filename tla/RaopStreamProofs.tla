-------------------------- MODULE RaopStreamProofs --------------------------
(***************************************************************************)
(* Proofs about the data plane of RaopSender, for every modulus, packet    *)
(* length, burst and backlog size that StreamAssumption allows.            *)
(***************************************************************************)
EXTENDS RaopStream, ModularArithmetic, TLAPS

----------------------------------------------------------------------------
(* The inductive invariant. *)

\* The sequence number of the first packet, sent or to be sent.
Base == IF sent = <<>> THEN seq ELSE sent[1].seq

\* The counters follow from what has been sent.
CursorInv ==
    /\ framesSent = Len(sent) * FramesPerPacket
    /\ state = "Starting" => sent = <<>>
    /\ firstAudio = (sent = <<>>)
    /\ seq = (Base + Len(sent)) % SeqMod
    /\ encryptAudio => audioNonce = Len(sent)

\* What the i-th packet of the stream holds.
PacketIs(p, i) ==
    /\ p.ssrc = sessionId
    /\ p.seq = (Base + (i - 1)) % SeqMod
    /\ p.rtptime = (Latency + (i - 1) * FramesPerPacket) % RtpMod
    /\ p.marker = (i = 1)
    /\ encryptAudio => p.nonce = i - 1

PacketsInv == \A i \in 1 .. Len(sent) : PacketIs(sent[i], i)

\* RECORD announced the packet that is, or will be, the first; the first sync
\* packet is sent with the state change.
AnnouncedInv ==
    /\ announced # <<>> => announced = <<Base, rtptime32_(0)>>
    /\ controlPort /\ (state = "Streaming" \/ sent # <<>>) => syncs # 0

\* The packets the backlog has room for.
RecentIndex == {j \in 1 .. Len(sent) : j + BacklogSize > Len(sent)}

\* In a running session each of them is in its slot, and a slot that is in use
\* holds one of them.
BacklogInv ==
    state # "Idle" =>
        /\ \A j \in RecentIndex :
              /\ backlogSeq[sent[j].seq % BacklogSize] = sent[j].seq
              /\ backlog[sent[j].seq % BacklogSize] = sent[j]
        /\ \A i \in Slots : backlogSeq[i] # None =>
              \E j \in RecentIndex :
                  backlogSeq[i] = sent[j].seq /\ sent[j].seq % BacklogSize = i

StreamInv ==
    /\ TypeOK /\ CursorInv /\ PacketsInv /\ AnnouncedInv /\ BacklogInv
    /\ NeverAhead /\ AnswersExact

----------------------------------------------------------------------------
(* The numbers. *)

\* A small number is its own remainder.
LEMMA SmallRemainder ==
    ASSUME NEW c \in Nat \ {0}, NEW x \in 0 .. (c - 1)
    PROVE  x % c = x
  <1>1. x = (c * 0) + x /\ 0 \in Nat /\ x \in Int
    OBVIOUS
  <1> QED
    BY <1>1, DivisionUnique

\* A remainder is below the modulus.
LEMMA RemainderType ==
    ASSUME NEW c \in Nat \ {0}, NEW x \in Nat
    PROVE  x % c \in 0 .. (c - 1)
  BY Division

LEMMA StreamNumbers ==
    TypeOK => Base \in Seqs /\ Base \in Nat /\ Len(sent) \in Nat /\ SeqMod \in Nat \ {0}
  <1> SUFFICES ASSUME TypeOK PROVE Base \in Seqs /\ Len(sent) \in Nat
    BY StreamAssumption DEF Seqs
  <1>1. sent \in Seq(Packet) /\ seq \in Seqs
    BY DEF TypeOK
  <1>2. CASE sent = <<>>
    BY <1>1, <1>2 DEF Base
  <1>3. CASE sent # <<>>
    <2>1. sent[1] \in Packet
      BY <1>1, <1>3
    <2>2. sent[1].seq \in Seqs
      BY <2>1 DEF Packet
    <2> QED
      BY <1>1, <1>3, <2>2 DEF Base
  <1> QED
    BY <1>2, <1>3

\* The slot of a packet depends on its place modulo the size of the backlog,
\* whatever the wraps of the sequence number.
LEMMA SlotOfPlace ==
    ASSUME NEW s \in Nat
    PROVE  (s % SeqMod) % BacklogSize = s % BacklogSize
  <1> DEFINE m == SeqMod \div BacklogSize
  <1>1. SeqMod \in Nat \ {0} /\ BacklogSize \in Nat \ {0} /\ SeqMod % BacklogSize = 0
    BY StreamAssumption
  <1>2. m \in Nat /\ SeqMod = (BacklogSize * m) + (SeqMod % BacklogSize)
    BY <1>1, Division
  <1> HIDE DEF m
  <1>3. SeqMod = BacklogSize * m
    BY <1>1, <1>2
  <1> QED
    BY <1>1, <1>2, <1>3, RemainderTwice

\* Where the pacer wants the stream to be is never ahead of the clock, and it
\* sends only whole packets that are due, at most a burst of them.
LEMMA PacketsDue ==
    ASSUME TypeOK
    PROVE  /\ packetsDue \in 0 .. MaxPacketsPerTick
           /\ packetsDue > 0 =>
                (framesSent + packetsDue * FramesPerPacket) * Second <= elapsed * Rate
  <1> DEFINE e == elapsed * Rate
             w == e % ClockMod
             t == w \div Second
             h == e \div ClockMod
             r == w % Second
             gap == t - framesSent
             d == gap \div FramesPerPacket
             g == gap % FramesPerPacket
             due == IF t < framesSent THEN 0 ELSE d
  <1>1. /\ ClockMod \in Nat \ {0} /\ Second \in Nat \ {0} /\ FramesPerPacket \in Nat \ {0}
        /\ MaxPacketsPerTick \in Nat \ {0} /\ framesSent \in Nat /\ e \in Nat
    BY StreamAssumption DEF TypeOK
  <1> HIDE DEF e
  <1>2. h \in Nat /\ w \in 0 .. (ClockMod - 1) /\ e = (ClockMod * h) + w
    BY <1>1, Division
  <1> HIDE DEF h, w
  <1>3. w \in Nat /\ w <= e
    BY <1>1, <1>2
  <1>4. t \in Nat /\ r \in 0 .. (Second - 1) /\ w = (Second * t) + r
    BY <1>1, <1>3, Division
  <1> HIDE DEF t, r
  <1>5. t * Second <= e
    BY <1>1, <1>3, <1>4
  <1>6. packetsDue = IF due <= MaxPacketsPerTick THEN due ELSE MaxPacketsPerTick
    BY Zenon DEF packetsDue, target, t, w, e
  <1>7. CASE t < framesSent
    BY <1>1, <1>6, <1>7
  <1>8. CASE ~ (t < framesSent)
    <2>1. gap \in Nat
      BY <1>1, <1>4, <1>8
    <2> HIDE DEF gap
    <2>2. d \in Nat /\ g \in 0 .. (FramesPerPacket - 1) /\ gap = (FramesPerPacket * d) + g
      BY <1>1, <2>1, Division
    <2> HIDE DEF d, g
    <2>3. packetsDue \in 0 .. MaxPacketsPerTick /\ packetsDue <= d
      BY <1>1, <1>6, <1>8, <2>2
    <2> DEFINE n == packetsDue
    <2>4. n \in Nat /\ n <= d
      BY <1>1, <2>3
    <2> HIDE DEF n
    <2>5. n * FramesPerPacket <= d * FramesPerPacket
      BY <1>1, <2>2, <2>4
    <2>6. framesSent + n * FramesPerPacket <= t
      BY <1>1, <1>4, <2>1, <2>2, <2>4, <2>5 DEF gap
    <2>7. (framesSent + n * FramesPerPacket) * Second <= t * Second
      <3> DEFINE f == framesSent + n * FramesPerPacket
      <3>1. f \in Nat /\ f <= t
        BY <1>1, <2>4, <2>6
      <3> HIDE DEF f
      <3>2. f * Second <= t * Second
        BY <1>1, <1>4, <3>1
      <3> QED
        BY <3>2 DEF f
    <2>8. (framesSent + n * FramesPerPacket) * Second <= e
      BY <1>1, <1>4, <1>5, <2>4, <2>7
    <2> QED
      BY <2>3, <2>8 DEF n, e
  <1> QED
    BY <1>7, <1>8

----------------------------------------------------------------------------
(* Sessions. *)

\* An empty stream satisfies what is said of its packets, whatever the backlog.
LEMMA NothingSent ==
    ASSUME sent = <<>>
    PROVE  Len(sent) = 0 /\ PacketsInv /\ RecentIndex = {} /\ Base = seq
  BY DEF PacketsInv, RecentIndex, Base

\* A session begins with an empty stream and an empty backlog.
Fresh ==
    /\ sent = <<>> /\ framesSent = 0 /\ firstAudio = TRUE /\ announced = <<>>
    /\ encryptAudio = FALSE /\ controlPort = FALSE /\ seq \in Seqs /\ state # "Streaming"
    /\ backlogSeq = [i \in Slots |-> None] /\ answer = NoAnswer

LEMMA FreshInv == Fresh /\ TypeOK => StreamInv
  <1> SUFFICES ASSUME Fresh, TypeOK PROVE StreamInv
    OBVIOUS
  <1>0. SeqMod \in Nat \ {0} /\ FramesPerPacket \in Nat
    BY StreamAssumption
  <1>1. Len(sent) = 0 /\ PacketsInv /\ RecentIndex = {} /\ Base = seq
    BY NothingSent DEF Fresh
  <1>2. CursorInv
    <2>1. seq \in 0 .. (SeqMod - 1)
      BY DEF Fresh, Seqs
    <2>2. seq % SeqMod = seq
      BY <1>0, <2>1, SmallRemainder
    <2>3. Base + Len(sent) = seq
      BY <1>0, <1>1, <2>1
    <2>4. framesSent = Len(sent) * FramesPerPacket
      BY <1>0, <1>1 DEF Fresh
    <2>5. firstAudio = (sent = <<>>)
      BY DEF Fresh
    <2> QED
      BY <2>2, <2>3, <2>4, <2>5 DEF Fresh, CursorInv
  <1>3. AnnouncedInv
    BY DEF Fresh, AnnouncedInv
  <1>4. BacklogInv
    BY <1>1 DEF Fresh, BacklogInv
  <1>5. NeverAhead /\ AnswersExact
    BY DEF Fresh, NeverAhead, AnswersExact, NoAnswer
  <1> QED
    BY <1>1, <1>2, <1>3, <1>4, <1>5 DEF StreamInv

LEMMA NoPacketType == NoPacket \in Packet /\ <<>> \in Seq(Packet)
  <1>1. 0 \in Seqs /\ 0 \in 0 .. (RtpMod - 1)
    BY StreamAssumption DEF Seqs
  <1> QED
    BY <1>1 DEF NoPacket, Packet, None

LEMMA NoAnswerType ==
    NoAnswer \in [asked : BOOLEAN, first : Seqs, count : Seqs, packets : SUBSET Packet]
  <1>1. 0 \in Seqs
    BY StreamAssumption DEF Seqs
  <1> QED
    BY <1>1 DEF NoAnswer

\* The backlog of a new session.
LEMMA EmptyStoreType ==
    /\ [i \in Slots |-> NoPacket] \in [Slots -> Packet]
    /\ [i \in Slots |-> None] \in [Slots -> Seqs \cup {None}]
  BY NoPacketType

LEMMA StreamInit == Init => StreamInv
  <1> SUFFICES ASSUME Init PROVE Fresh /\ TypeOK
    BY FreshInv
  <1>1. 0 \in Seqs
    BY StreamAssumption DEF Seqs
  <1>2. Fresh
    BY <1>1 DEF Init, Fresh
  <1>3. backlog \in [Slots -> Packet] /\ backlogSeq \in [Slots -> Seqs \cup {None}]
    BY EmptyStoreType DEF Init
  <1>4. sent \in Seq(Packet)
    BY NoPacketType DEF Init
  <1>5. answer \in [asked : BOOLEAN, first : Seqs, count : Seqs, packets : SUBSET Packet]
    BY NoAnswerType DEF Init
  <1>6. TypeOK
    <2>1. announced = <<>> \/ announced \in Seqs \X (0 .. (RtpMod - 1))
      BY DEF Init
    <2>2. encryptAudio \in BOOLEAN /\ controlPort \in BOOLEAN /\ firstAudio \in BOOLEAN
      BY Zenon DEF Init
    <2>3. /\ state \in {"Idle", "Starting", "Streaming"} /\ sessionId \in {0, 1}
          /\ audioNonce \in Nat /\ seq \in Seqs /\ framesSent \in Nat
          /\ elapsed \in Nat /\ syncs \in 0 .. 2
      BY <1>1 DEF Init
    <2> QED
      BY <1>3, <1>4, <1>5, <2>1, <2>2, <2>3 DEF TypeOK
  <1> QED
    BY <1>2, <1>6

\* start() leaves nothing of the session before it.
LEMMA StartStep ==
    ASSUME StreamInv, NEW first \in FirstSeqs, NEW ok \in BOOLEAN, start(first, ok)
    PROVE  StreamInv'
  <1>1. first \in Seqs
    BY StreamAssumption DEF Seqs
  <1>2. Fresh'
    BY <1>1 DEF start, Fresh
  <1>3. backlog' \in [Slots -> Packet] /\ backlogSeq' \in [Slots -> Seqs \cup {None}]
    BY EmptyStoreType DEF start
  <1>4. sent' \in Seq(Packet)
    BY NoPacketType DEF start
  <1>5. answer' \in [asked : BOOLEAN, first : Seqs, count : Seqs, packets : SUBSET Packet]
    BY NoAnswerType DEF start
  <1>6. sessionId' \in {0, 1}
    BY DEF start, StreamInv, TypeOK
  <1>7. TypeOK'
    <2>1. announced' = <<>> \/ announced' \in Seqs \X (0 .. (RtpMod - 1))
      BY DEF start
    <2>2. encryptAudio' \in BOOLEAN /\ controlPort' \in BOOLEAN /\ firstAudio' \in BOOLEAN
      BY Zenon DEF start
    <2>3. /\ state' \in {"Idle", "Starting", "Streaming"}
          /\ audioNonce' \in Nat /\ seq' \in Seqs /\ framesSent' \in Nat
          /\ elapsed' \in Nat /\ syncs' \in 0 .. 2
      BY <1>1 DEF start
    <2> QED
      BY <1>3, <1>4, <1>5, <1>6, <2>1, <2>2, <2>3 DEF TypeOK
  <1>8. (Fresh /\ TypeOK => StreamInv)'
    BY FreshInv, PTL
  <1> QED
    BY <1>2, <1>7, <1>8

\* What keeps the packets and their numbers keeps what is said of them.
LEMMA SameStream ==
    ASSUME PacketsInv, UNCHANGED <<sessionId, encryptAudio, seq, sent>>
    PROVE  PacketsInv' /\ Base' = Base /\ RecentIndex' = RecentIndex
  BY DEF PacketsInv, PacketIs, Base, RecentIndex

LEMMA SetUpStep ==
    ASSUME StreamInv, NEW ap2 \in BOOLEAN, NEW port \in BOOLEAN, SetUp(ap2, port)
    PROVE  StreamInv'
  <1>1. sent = <<>> /\ sent' = <<>> /\ state = "Starting" /\ seq' = seq
    BY DEF SetUp, StreamInv, CursorInv
  <1>2. framesSent = 0
    <2>1. framesSent = 0 * FramesPerPacket /\ FramesPerPacket \in Nat
      BY <1>1, StreamAssumption DEF StreamInv, CursorInv
    <2> QED
      BY <2>1
  <1>3. Base = seq /\ Base' = seq /\ RecentIndex = {} /\ RecentIndex' = {}
    BY <1>1 DEF Base, RecentIndex
  <1>4. TypeOK'
    <2>1. rtptime32_(framesSent) \in 0 .. (RtpMod - 1)
      <3>1. Latency + framesSent \in Nat /\ RtpMod \in Nat \ {0}
        BY <1>2, StreamAssumption
      <3> QED
        BY <3>1, RemainderType DEF rtptime32_
    <2>2. announced' = <<>> \/ announced' \in Seqs \X (0 .. (RtpMod - 1))
      BY <2>1 DEF SetUp, StreamInv, TypeOK
    <2>3. answer' \in [asked : BOOLEAN, first : Seqs, count : Seqs, packets : SUBSET Packet]
      BY NoAnswerType DEF SetUp
    <2> QED
      BY <2>2, <2>3 DEF SetUp, StreamInv, TypeOK, store
  <1>5. CursorInv'
    BY <1>1, <1>3 DEF SetUp, StreamInv, CursorInv
  <1>6. PacketsInv'
    BY <1>1 DEF PacketsInv
  <1>7. AnnouncedInv'
    BY <1>1, <1>2, <1>3 DEF SetUp, AnnouncedInv, rtptime32_
  <1>8. BacklogInv'
    BY <1>1, <1>3 DEF SetUp, StreamInv, BacklogInv, store
  <1>9. NeverAhead' /\ AnswersExact'
    BY <1>1 DEF SetUp, NeverAhead, AnswersExact, NoAnswer
  <1> QED
    BY <1>4, <1>5, <1>6, <1>7, <1>8, <1>9 DEF StreamInv

\* A reply that comes again changes nothing.
LEMMA Stutter ==
    ASSUME StreamInv, UNCHANGED vars
    PROVE  StreamInv'
  <1> USE DEF vars, session, cursor, store, output
  <1>1. PacketsInv' /\ Base' = Base /\ RecentIndex' = RecentIndex
    BY SameStream DEF StreamInv
  <1>2. TypeOK'
    BY DEF StreamInv, TypeOK
  <1>3. CursorInv'
    BY <1>1 DEF StreamInv, CursorInv
  <1>4. AnnouncedInv'
    BY <1>1 DEF StreamInv, AnnouncedInv, rtptime32_
  <1>5. BacklogInv'
    BY <1>1 DEF StreamInv, BacklogInv
  <1>6. NeverAhead' /\ AnswersExact'
    BY DEF StreamInv, NeverAhead, AnswersExact, Recent, Asked
  <1> QED
    BY <1>1, <1>2, <1>3, <1>4, <1>5, <1>6 DEF StreamInv

LEMMA SetUpReplyStep ==
    ASSUME StreamInv, OnSetUpReply
    PROVE  StreamInv'
  <1>1. CASE state = "Streaming"
    BY <1>1, Stutter DEF OnSetUpReply
  <1>2. CASE state # "Streaming"
    <2>1. state = "Starting" /\ startStreaming_
      BY <1>2 DEF OnSetUpReply, StreamInv, TypeOK
    <2> USE DEF startStreaming_, session, store
    <2>2. sent = <<>> /\ sent' = <<>> /\ Len(sent) = 0
      BY <2>1 DEF StreamInv, CursorInv
    <2>3. PacketsInv' /\ Base' = Base /\ RecentIndex' = RecentIndex
      BY <2>1, SameStream DEF StreamInv
    <2>4. TypeOK'
      <3>1. answer' \in [asked : BOOLEAN, first : Seqs, count : Seqs, packets : SUBSET Packet]
        BY <2>1, NoAnswerType
      <3>2. syncs' \in 0 .. 2
        BY <2>1 DEF sendSyncPacket_, StreamInv, TypeOK
      <3> QED
        BY <2>1, <3>1, <3>2 DEF StreamInv, TypeOK
    <2>5. CursorInv'
      <3>1. 0 * FramesPerPacket = 0
        BY StreamAssumption
      <3> QED
        BY <2>1, <2>2, <2>3, <3>1 DEF StreamInv, CursorInv
    <2>6. AnnouncedInv'
      <3>1. controlPort => syncs' # 0
        BY <2>1 DEF sendSyncPacket_, StreamInv, TypeOK
      <3> QED
        BY <2>1, <2>3, <3>1 DEF StreamInv, AnnouncedInv, rtptime32_
    <2>7. BacklogInv'
      BY <2>1, <2>2, <2>3 DEF StreamInv, BacklogInv
    <2>8. NeverAhead'
      BY <2>1, StreamAssumption DEF NeverAhead
    <2>9. AnswersExact'
      BY <2>1 DEF AnswersExact, NoAnswer
    <2> QED
      BY <2>3, <2>4, <2>5, <2>6, <2>7, <2>8, <2>9 DEF StreamInv
  <1> QED
    BY <1>1, <1>2

LEMMA EndStep ==
    ASSUME StreamInv, EndAndClear \/ fail_
    PROVE  StreamInv'
  <1> USE DEF session, cursor, store, output
  <1>1. /\ UNCHANGED <<session, cursor, elapsed, output>> /\ state' = "Idle"
        /\ answer' = NoAnswer
    BY DEF EndAndClear, fail_
  <1>2. backlog' \in [Slots -> Packet] /\ backlogSeq' \in [Slots -> Seqs \cup {None}]
    BY EmptyStoreType DEF EndAndClear, fail_, StreamInv, TypeOK
  <1>3. PacketsInv' /\ Base' = Base /\ RecentIndex' = RecentIndex
    BY <1>1, SameStream DEF StreamInv
  <1>4. TypeOK'
    <2>1. answer' \in [asked : BOOLEAN, first : Seqs, count : Seqs, packets : SUBSET Packet]
      BY <1>1, NoAnswerType
    <2> QED
      BY <1>1, <1>2, <2>1 DEF StreamInv, TypeOK
  <1>5. CursorInv' /\ AnnouncedInv'
    BY <1>1, <1>3 DEF StreamInv, CursorInv, AnnouncedInv, rtptime32_
  <1>6. BacklogInv' /\ NeverAhead' /\ AnswersExact'
    BY <1>1 DEF BacklogInv, NeverAhead, AnswersExact, NoAnswer
  <1> QED
    BY <1>3, <1>4, <1>5, <1>6 DEF StreamInv

----------------------------------------------------------------------------
(* The clock and the sync timer. *)

LEMMA TimeStep ==
    ASSUME StreamInv, NEW d \in Stalls, TimePasses(d)
    PROVE  StreamInv'
  <1> USE DEF TimePasses, session, cursor, store, output
  <1>1. d \in Nat /\ elapsed \in Nat /\ framesSent \in Nat /\ Rate \in Nat /\ Second \in Nat
    BY StreamAssumption DEF StreamInv, TypeOK
  <1>2. PacketsInv' /\ Base' = Base /\ RecentIndex' = RecentIndex
    BY SameStream DEF StreamInv
  <1>3. TypeOK'
    <2>1. answer' \in [asked : BOOLEAN, first : Seqs, count : Seqs, packets : SUBSET Packet]
      BY NoAnswerType
    <2> QED
      BY <1>1, <2>1 DEF StreamInv, TypeOK
  <1>4. CursorInv' /\ AnnouncedInv'
    BY <1>2 DEF StreamInv, CursorInv, AnnouncedInv, rtptime32_
  <1>5. BacklogInv' /\ AnswersExact'
    BY <1>2 DEF StreamInv, BacklogInv, AnswersExact, NoAnswer
  <1>6. NeverAhead'
    <2>1. (elapsed + d) * Rate = elapsed * Rate + d * Rate /\ d * Rate \in Nat
      BY <1>1
    <2>2. elapsed * Rate <= (elapsed + d) * Rate
      BY <1>1, <2>1
    <2>3. framesSent * Second <= elapsed * Rate
      BY DEF StreamInv, NeverAhead
    <2> QED
      BY <1>1, <2>2, <2>3 DEF NeverAhead
  <1> QED
    BY <1>2, <1>3, <1>4, <1>5, <1>6 DEF StreamInv

LEMMA SyncStep ==
    ASSUME StreamInv, OnSyncTimer
    PROVE  StreamInv'
  <1> USE DEF OnSyncTimer, session, cursor, store
  <1>1. PacketsInv' /\ Base' = Base /\ RecentIndex' = RecentIndex
    BY SameStream DEF StreamInv
  <1>2. syncs' \in 0 .. 2 /\ (syncs # 0 => syncs' # 0)
    BY DEF sendSyncPacket_, StreamInv, TypeOK
  <1>3. TypeOK'
    <2>1. answer' \in [asked : BOOLEAN, first : Seqs, count : Seqs, packets : SUBSET Packet]
      BY NoAnswerType
    <2> QED
      BY <1>2, <2>1 DEF StreamInv, TypeOK
  <1>4. CursorInv' /\ AnnouncedInv'
    BY <1>1, <1>2 DEF StreamInv, CursorInv, AnnouncedInv, rtptime32_
  <1>5. BacklogInv' /\ NeverAhead' /\ AnswersExact'
    BY <1>1 DEF StreamInv, BacklogInv, NeverAhead, AnswersExact, NoAnswer
  <1> QED
    BY <1>1, <1>3, <1>4, <1>5 DEF StreamInv

----------------------------------------------------------------------------
(* The pacer. *)

\* The k-th packet of a tick is the next but k - 1 of the stream.
LEMMA TickPacket ==
    ASSUME TypeOK, CursorInv, NEW k \in Nat \ {0}
    PROVE  audioPacket(k) \in Packet /\ PacketIs(audioPacket(k), Len(sent) + k)
  <1> DEFINE N == Len(sent)
             p == audioPacket(k)
             place == Base + N
             later == Base + ((N + k) - 1)
             frames == framesSent + (k - 1) * FramesPerPacket
  <1>1. /\ Base \in Nat /\ N \in Nat /\ SeqMod \in Nat \ {0} /\ RtpMod \in Nat \ {0}
        /\ FramesPerPacket \in Nat /\ Latency \in Nat /\ k - 1 \in Nat
    BY StreamNumbers, StreamAssumption
  <1>2. /\ framesSent = N * FramesPerPacket /\ seq = place % SeqMod
        /\ firstAudio = (sent = <<>>) /\ (encryptAudio => audioNonce = N)
    BY DEF CursorInv
  <1>3. sessionId \in {0, 1} /\ firstAudio \in BOOLEAN /\ audioNonce \in Nat /\ sent \in Seq(Packet)
    BY DEF TypeOK
  <1>4. (sent = <<>>) <=> (N = 0)
    BY <1>3
  <1> HIDE DEF N
  <1>5. place \in Nat /\ later = place + (k - 1) /\ later \in Nat
    BY <1>1
  <1>6. frames \in Nat /\ frames = ((N + k) - 1) * FramesPerPacket
    <2>1. N * FramesPerPacket + (k - 1) * FramesPerPacket = (N + (k - 1)) * FramesPerPacket
      BY <1>1
    <2>2. N + (k - 1) = (N + k) - 1 /\ N + (k - 1) \in Nat
      BY <1>1
    <2>3. (N + (k - 1)) * FramesPerPacket \in Nat
      BY <1>1, <2>2
    <2> QED
      BY <1>2, <2>1, <2>2, <2>3
  <1> HIDE DEF place, later
  <1>7. (seq + (k - 1)) % SeqMod = later % SeqMod
    BY <1>1, <1>2, <1>5, RemainderSum
  <1>8. later % SeqMod \in 0 .. (SeqMod - 1)
    BY <1>1, <1>5, RemainderType
  <1> HIDE DEF frames
  <1>9. (Latency + frames) % RtpMod \in 0 .. (RtpMod - 1)
    <2>1. Latency + frames \in Nat
      BY <1>1, <1>6
    <2> QED
      BY <1>1, <2>1, RemainderType
  <1>10. /\ p.ssrc = sessionId /\ p.seq = later % SeqMod
         /\ p.rtptime = (Latency + frames) % RtpMod
         /\ p.marker = (firstAudio /\ k = 1)
         /\ p.nonce = encryptAudioPayload_(k)
         /\ p = [ssrc |-> p.ssrc, seq |-> p.seq, rtptime |-> p.rtptime, marker |-> p.marker,
                 nonce |-> p.nonce]
    BY <1>7 DEF audioPacket, nextSeq, rtptime32_, frames
  <1> HIDE DEF p
  <1>11. p.marker \in BOOLEAN /\ p.marker = (N + k = 1)
    <2>1. (sent = <<>>) /\ k = 1 <=> N + k = 1
      BY <1>1, <1>4
    <2>2. (firstAudio /\ k = 1) \in BOOLEAN /\ (firstAudio /\ k = 1) = (N + k = 1)
      BY <1>2, <2>1, Zenon
    <2> QED
      BY <1>10, <2>2, Zenon
  <1>12. /\ encryptAudioPayload_(k) \in Nat \cup {None}
         /\ encryptAudio => encryptAudioPayload_(k) = (N + k) - 1
    <2>1. CASE encryptAudio
      <3>1. encryptAudioPayload_(k) = audioNonce + k - 1
        BY <2>1 DEF encryptAudioPayload_
      <3>2. audioNonce = N
        BY <1>2, <2>1
      <3> QED
        BY <1>1, <3>1, <3>2
    <2>2. CASE ~ encryptAudio
      BY <2>2 DEF encryptAudioPayload_
    <2> QED
      BY <2>1, <2>2
  <1>13. p \in Packet
    BY <1>3, <1>8, <1>9, <1>10, <1>11, <1>12 DEF Packet, Seqs
  <1>14. PacketIs(p, N + k)
    BY <1>6, <1>10, <1>11, <1>12 DEF PacketIs, later
  <1> QED
    BY <1>13, <1>14 DEF p, N

\* The place of a packet's slot.
Slot(i) == ((Base + (i - 1)) % SeqMod) % BacklogSize

\* Packets less than BacklogSize apart have different slots.
LEMMA SlotsApart ==
    ASSUME TypeOK, NEW i \in Nat \ {0}, NEW j \in Nat \ {0},
           Slot(i) = Slot(j), i - j < BacklogSize, j - i < BacklogSize
    PROVE  i = j
  <1> DEFINE x == Base + (i - 1)
             y == Base + (j - 1)
  <1>1. Base \in Nat /\ BacklogSize \in Nat \ {0}
    BY StreamNumbers, StreamAssumption
  <1>2. x \in Nat /\ y \in Nat /\ x - y < BacklogSize /\ y - x < BacklogSize
    BY <1>1
  <1>3. (x % SeqMod) % BacklogSize = (y % SeqMod) % BacklogSize
    BY DEF Slot
  <1> HIDE DEF x, y
  <1>4. x % BacklogSize = y % BacklogSize
    BY <1>2, <1>3, SlotOfPlace
  <1>5. x = y
    BY <1>1, <1>2, <1>4, RemainderDiffers
  <1> QED
    BY <1>1, <1>5 DEF x, y

\* A packet takes the slot of the one BacklogSize before it.
LEMMA SlotTakenOver ==
    ASSUME TypeOK, NEW i \in Nat \ {0}
    PROVE  Slot(i + BacklogSize) = Slot(i)
  <1> DEFINE x == Base + (i - 1)
             z == Base + ((i + BacklogSize) - 1)
  <1>1. Base \in Nat /\ BacklogSize \in Nat \ {0}
    BY StreamNumbers, StreamAssumption
  <1>2. x \in Nat /\ z \in Nat /\ z = x + (BacklogSize * 1)
    BY <1>1
  <1>3. Slot(i) = (x % SeqMod) % BacklogSize /\ Slot(i + BacklogSize) = (z % SeqMod) % BacklogSize
    BY DEF Slot
  <1> HIDE DEF x, z
  <1>4. Slot(i) = x % BacklogSize /\ Slot(i + BacklogSize) = z % BacklogSize
    BY <1>2, <1>3, SlotOfPlace
  <1>5. (x + (BacklogSize * 1)) % BacklogSize = x % BacklogSize
    <2>1. 1 \in Nat
      OBVIOUS
    <2> QED
      BY <1>1, <1>2, <2>1, RemainderShift, Zenon
  <1> QED
    BY <1>2, <1>4, <1>5

LEMMA SlotType ==
    ASSUME TypeOK, NEW i \in Nat \ {0}
    PROVE  Slot(i) \in Slots
  <1> DEFINE x == Base + (i - 1)
             y == x % SeqMod
  <1>1. Base \in Nat /\ BacklogSize \in Nat \ {0} /\ SeqMod \in Nat \ {0}
    BY StreamNumbers, StreamAssumption
  <1>2. x \in Nat
    BY <1>1
  <1> HIDE DEF x
  <1>3. y \in 0 .. (SeqMod - 1)
    BY <1>1, <1>2, RemainderType
  <1> HIDE DEF y
  <1>4. y \in Nat
    BY <1>1, <1>3
  <1>5. y % BacklogSize \in 0 .. (BacklogSize - 1)
    BY <1>1, <1>4, RemainderType
  <1> QED
    BY <1>5 DEF Slot, Slots, x, y

\* What a tick appends.
LEMMA TickAppends ==
    ASSUME TypeOK, CursorInv, NEW n \in Nat, sendAudioPackets_(n)
    PROVE  /\ sent' \in Seq(Packet) /\ Len(sent') = Len(sent) + n
           /\ \A i \in 1 .. Len(sent) : sent'[i] = sent[i]
           /\ \A k \in 1 .. n : sent'[Len(sent) + k] = audioPacket(k)
  <1> DEFINE extra == [k \in 1 .. n |-> audioPacket(k)]
  <1>1. \A k \in 1 .. n : audioPacket(k) \in Packet
    <2>1. \A k \in 1 .. n : k \in Nat \ {0}
      OBVIOUS
    <2> QED
      BY <2>1, TickPacket
  <1>2. extra \in Seq(Packet) /\ Len(extra) = n /\ \A k \in 1 .. n : extra[k] = audioPacket(k)
    BY <1>1
  <1>3. sent \in Seq(Packet) /\ sent' = sent \o extra
    BY DEF TypeOK, sendAudioPackets_
  <1> HIDE DEF extra
  <1>4. sent' \in Seq(Packet) /\ Len(sent') = Len(sent) + n
    <2>1. sent \in Seq(Packet) /\ extra \in Seq(Packet)
      BY <1>2, <1>3
    <2>2. sent \o extra \in Seq(Packet) /\ Len(sent \o extra) = Len(sent) + Len(extra)
      BY <2>1
    <2> QED
      BY <1>2, <1>3, <2>2
  <1>5. \A i \in 1 .. Len(sent) : sent'[i] = sent[i]
    BY <1>2, <1>3
  <1>6. ASSUME NEW k \in 1 .. n PROVE sent'[Len(sent) + k] = audioPacket(k)
    <2>1. Len(sent) \in Nat
      BY <1>3
    <2>2. Len(sent) + k \in 1 .. (Len(sent) + Len(extra)) /\ Len(sent) + k > Len(sent)
      BY <1>2, <2>1
    <2>3. (sent \o extra)[Len(sent) + k] = extra[(Len(sent) + k) - Len(sent)]
      BY <1>2, <1>3, <2>2
    <2>4. (Len(sent) + k) - Len(sent) = k
      BY <2>1
    <2> QED
      BY <1>2, <1>3, <2>3, <2>4
  <1> QED
    BY <1>4, <1>5, <1>6

\* The first packet stays the first.
LEMMA TickKeepsBase ==
    ASSUME TypeOK, CursorInv, NEW n \in Nat, sendAudioPackets_(n)
    PROVE  Base' = Base
  <1> DEFINE N == Len(sent)
  <1>1. /\ sent' \in Seq(Packet) /\ Len(sent') = N + n
        /\ \A i \in 1 .. N : sent'[i] = sent[i]
        /\ \A k \in 1 .. n : sent'[N + k] = audioPacket(k)
    BY TickAppends
  <1>2. sent \in Seq(Packet) /\ N \in Nat /\ (sent = <<>> <=> N = 0)
    BY DEF TypeOK
  <1>3. (sent' = <<>> <=> N + n = 0) /\ Base \in Nat /\ Base \in 0 .. (SeqMod - 1)
    BY <1>1, StreamNumbers DEF Seqs
  <1>4. SeqMod \in Nat \ {0}
    BY StreamAssumption
  <1>5. Base % SeqMod = Base
    BY <1>3, <1>4, SmallRemainder
  <1>6. CASE N # 0
    BY <1>1, <1>2, <1>3, <1>6 DEF Base
  <1>7. CASE N = 0 /\ n # 0
    <2>1. sent'[N + 1] = audioPacket(1)
      BY <1>1, <1>7
    <2>2. PacketIs(audioPacket(1), N + 1)
      BY TickPacket
    <2>3. audioPacket(1).seq = (Base + ((N + 1) - 1)) % SeqMod
      BY <2>2 DEF PacketIs
    <2>4. N + 1 = 1 /\ Base + ((N + 1) - 1) = Base
      BY <1>3, <1>7
    <2>5. sent'[1].seq = Base
      BY <1>5, <2>1, <2>3, <2>4
    <2>6. sent' # <<>>
      BY <1>2, <1>3, <1>7
    <2> QED
      BY <2>5, <2>6 DEF Base
  <1>8. CASE N = 0 /\ n = 0
    <2>1. Base = seq /\ Base' = seq'
      BY <1>2, <1>3, <1>8 DEF Base
    <2>2. seq' = (seq + 0) % SeqMod /\ seq + 0 = seq
      BY <1>3, <1>8, <2>1 DEF sendAudioPackets_, nextSeq
    <2> QED
      BY <1>5, <2>1, <2>2
  <1> QED
    BY <1>6, <1>7, <1>8

\* A burst overwrites the slots of the packets that have become too old, and
\* those only.
LEMMA TickBacklog ==
    ASSUME TypeOK, CursorInv, PacketsInv, BacklogInv, state # "Idle", state' = state,
           NEW n \in 0 .. MaxPacketsPerTick, sendAudioPackets_(n)
    PROVE  BacklogInv' /\ backlog' \in [Slots -> Packet]
                       /\ backlogSeq' \in [Slots -> Seqs \cup {None}]
  <1> DEFINE N == Len(sent)
             Put(i) == {k \in 1 .. n : audioPacket(k).seq % BacklogSize = i}
             chosen(i) == CHOOSE k \in Put(i) : TRUE
             packet(i) == audioPacket(chosen(i))
  <1>1. /\ N \in Nat /\ n \in Nat /\ n <= BacklogSize /\ BacklogSize \in Nat \ {0}
    BY StreamNumbers, StreamAssumption
  <1>2. /\ Len(sent') = N + n
        /\ \A i \in 1 .. N : sent'[i] = sent[i]
        /\ \A k \in 1 .. n : sent'[N + k] = audioPacket(k)
    BY <1>1, TickAppends
  <1>3. /\ \A i \in Slots : backlog'[i] = IF Put(i) = {} THEN backlog[i] ELSE packet(i)
        /\ \A i \in Slots : backlogSeq'[i] = IF Put(i) = {} THEN backlogSeq[i] ELSE packet(i).seq
        /\ DOMAIN backlog' = Slots /\ DOMAIN backlogSeq' = Slots
        /\ backlog' = [i \in Slots |-> backlog'[i]]
        /\ backlogSeq' = [i \in Slots |-> backlogSeq'[i]]
    BY DEF sendAudioPackets_
  <1>4. ASSUME NEW k \in 1 .. n
        PROVE  audioPacket(k) \in Packet /\ audioPacket(k).seq % BacklogSize = Slot(N + k)
    <2>1. k \in Nat \ {0}
      OBVIOUS
    <2> QED
      BY <2>1, TickPacket DEF PacketIs, Slot
  <1>5. ASSUME NEW i \in Slots, Put(i) # {}
        PROVE  chosen(i) \in 1 .. n /\ Slot(N + chosen(i)) = i
    <2>1. chosen(i) \in Put(i)
      BY <1>5
    <2> QED
      BY <1>4, <2>1
  <1>6. ASSUME NEW j \in 1 .. N PROVE sent[j].seq % BacklogSize = Slot(j)
    BY DEF PacketsInv, PacketIs, Slot
  <1>7. ASSUME NEW k \in 1 .. n PROVE k \in Put(Slot(N + k))
    BY <1>4
  <1>8. ASSUME NEW i, NEW k \in Put(i) PROVE k \in 1 .. n /\ Slot(N + k) = i
    BY <1>4
  <1> HIDE DEF Put, chosen, N
  <1>9. RecentIndex' = {j \in 1 .. (N + n) : j + BacklogSize > N + n}
    BY <1>2 DEF RecentIndex
  <1>10. RecentIndex = {j \in 1 .. N : j + BacklogSize > N}
    BY DEF RecentIndex, N
  <1>11. ASSUME NEW j \in RecentIndex'
         PROVE  /\ backlogSeq'[sent'[j].seq % BacklogSize] = sent'[j].seq
                /\ backlog'[sent'[j].seq % BacklogSize] = sent'[j]
    <2>1. j \in Nat \ {0} /\ j <= N + n /\ j + BacklogSize > N + n
      BY <1>1, <1>9
    <2>2. Slot(j) \in Slots
      BY <2>1, SlotType
    <2>3. CASE j <= N
      <3>1. j \in 1 .. N /\ j \in RecentIndex
        BY <1>1, <1>10, <2>1, <2>3
      <3>2. sent'[j] = sent[j] /\ sent[j].seq % BacklogSize = Slot(j)
        BY <1>2, <1>6, <3>1
      <3>3. Put(Slot(j)) = {}
        <4> SUFFICES ASSUME NEW k \in Put(Slot(j)) PROVE FALSE
          OBVIOUS
        <4>1. k \in 1 .. n /\ Slot(N + k) = Slot(j)
          BY <1>8
        <4>2. N + k \in Nat \ {0} /\ (N + k) - j < BacklogSize /\ j - (N + k) < BacklogSize /\ N + k # j
          BY <1>1, <2>1, <2>3, <4>1
        <4> QED
          BY <2>1, <4>1, <4>2, SlotsApart
      <3>4. backlogSeq[Slot(j)] = sent[j].seq /\ backlog[Slot(j)] = sent[j]
        BY <3>1, <3>2 DEF BacklogInv
      <3> QED
        BY <1>3, <2>2, <3>2, <3>3, <3>4
    <2>4. CASE j > N
      <3> DEFINE k == j - N
      <3>1. k \in 1 .. n /\ j = N + k
        BY <1>1, <2>1, <2>4
      <3> HIDE DEF k
      <3>2. sent'[j] = audioPacket(k) /\ audioPacket(k).seq % BacklogSize = Slot(j)
        BY <1>2, <1>4, <3>1
      <3>3. Put(Slot(j)) # {}
        BY <1>7, <3>1
      <3>4. chosen(Slot(j)) = k
        <4> DEFINE c == chosen(Slot(j))
        <4>1. c \in 1 .. n /\ Slot(N + c) = Slot(j)
          BY <1>5, <2>2, <3>3
        <4> HIDE DEF c
        <4>2. N + c \in Nat \ {0} /\ (N + c) - j < BacklogSize /\ j - (N + c) < BacklogSize
          BY <1>1, <3>1, <4>1
        <4>3. N + c = j
          BY <2>1, <4>1, <4>2, SlotsApart
        <4>4. c = k
          BY <1>1, <3>1, <4>1, <4>3
        <4> QED
          BY <4>4 DEF c
      <3> QED
        BY <1>3, <2>2, <3>2, <3>3, <3>4
    <2> QED
      BY <1>1, <2>1, <2>3, <2>4
  <1>12. ASSUME NEW i \in Slots, backlogSeq'[i] # None
         PROVE  \E j \in RecentIndex' :
                    backlogSeq'[i] = sent'[j].seq /\ sent'[j].seq % BacklogSize = i
    <2>1. CASE Put(i) # {}
      <3> DEFINE c == chosen(i)
                 j == N + c
      <3>1. c \in 1 .. n /\ Slot(N + c) = i
        BY <1>5, <2>1
      <3>2. backlogSeq'[i] = audioPacket(c).seq
        BY <1>3, <2>1
      <3> HIDE DEF c
      <3>3. j \in RecentIndex' /\ sent'[j] = audioPacket(c) /\ audioPacket(c).seq % BacklogSize = i
        <4>1. N + c \in 1 .. (N + n) /\ (N + c) + BacklogSize > N + n
          BY <1>1, <3>1
        <4> QED
          BY <1>2, <1>4, <1>9, <3>1, <4>1
      <3> HIDE DEF j
      <3> QED
        BY <3>2, <3>3
    <2>2. CASE Put(i) = {}
      <3>1. backlogSeq'[i] = backlogSeq[i]
        BY <1>3, <2>2
      <3>2. PICK j \in RecentIndex : backlogSeq[i] = sent[j].seq /\ sent[j].seq % BacklogSize = i
        BY <1>12, <3>1 DEF BacklogInv
      <3>3. j \in 1 .. N /\ j \in Nat \ {0} /\ j + BacklogSize > N /\ j <= N
        BY <1>1, <1>10
      <3>4. sent'[j] = sent[j] /\ Slot(j) = i
        BY <1>2, <1>6, <3>2, <3>3
      <3>5. j + BacklogSize > N + n
        <4> SUFFICES ASSUME j + BacklogSize <= N + n PROVE FALSE
          BY <1>1, <3>3
        <4> DEFINE k == (j + BacklogSize) - N
        <4>1. k \in 1 .. n /\ N + k = j + BacklogSize
          BY <1>1, <3>3
        <4> HIDE DEF k
        <4>2. Slot(N + k) = i
          BY <3>3, <3>4, <4>1, SlotTakenOver
        <4> QED
          BY <1>7, <2>2, <4>1, <4>2
      <3>6. j \in RecentIndex'
        BY <1>1, <1>9, <3>3, <3>5
      <3> QED
        BY <3>1, <3>2, <3>4, <3>6
    <2> QED
      BY <2>1, <2>2
  <1>13. ASSUME NEW i \in Slots
         PROVE  backlog'[i] \in Packet /\ backlogSeq'[i] \in Seqs \cup {None}
    <2>1. CASE Put(i) = {}
      BY <1>3, <2>1 DEF TypeOK
    <2>2. CASE Put(i) # {}
      <3>1. packet(i) \in Packet
        BY <1>4, <1>5, <2>2
      <3>2. packet(i).seq \in Seqs
        BY <3>1 DEF Packet
      <3> QED
        BY <1>3, <2>2, <3>1, <3>2
    <2> QED
      BY <2>1, <2>2
  <1>14. backlog' \in [Slots -> Packet] /\ backlogSeq' \in [Slots -> Seqs \cup {None}]
    BY <1>3, <1>13
  <1>15. BacklogInv'
    BY <1>11, <1>12 DEF BacklogInv
  <1> QED
    BY <1>14, <1>15

LEMMA TickStep ==
    ASSUME StreamInv, onPacerTick_
    PROVE  StreamInv'
  <1> DEFINE n == packetsDue
             N == Len(sent)
  <1>1. TypeOK /\ CursorInv /\ PacketsInv /\ BacklogInv /\ AnnouncedInv /\ NeverAhead
    BY DEF StreamInv
  <1>2. /\ n \in 0 .. MaxPacketsPerTick
        /\ n > 0 => (framesSent + n * FramesPerPacket) * Second <= elapsed * Rate
    BY <1>1, PacketsDue
  <1>3. /\ sendAudioPackets_(n) /\ state = "Streaming" /\ state' = state /\ answer' = NoAnswer
        /\ UNCHANGED <<sessionId, encryptAudio, controlPort, elapsed, announced, syncs>>
    BY DEF onPacerTick_, session
  <1> HIDE DEF n
  <1>4. n \in Nat /\ N \in Nat /\ FramesPerPacket \in Nat /\ SeqMod \in Nat \ {0} /\ Second \in Nat
    BY <1>1, <1>2, StreamAssumption, StreamNumbers
  <1>5. /\ sent' \in Seq(Packet) /\ Len(sent') = N + n
        /\ \A i \in 1 .. N : sent'[i] = sent[i]
        /\ \A k \in 1 .. n : sent'[N + k] = audioPacket(k)
    BY <1>1, <1>3, <1>4, TickAppends
  <1>6. Base' = Base /\ Base \in Nat
    BY <1>1, <1>3, <1>4, TickKeepsBase, StreamNumbers
  <1>7. /\ BacklogInv' /\ backlog' \in [Slots -> Packet]
        /\ backlogSeq' \in [Slots -> Seqs \cup {None}]
    <2>1. state # "Idle"
      BY <1>3
    <2> QED
      BY <1>1, <1>2, <1>3, <2>1, TickBacklog
  <1>8. /\ firstAudio' = (firstAudio /\ n = 0) /\ seq' = (seq + n) % SeqMod
        /\ framesSent' = framesSent + n * FramesPerPacket
        /\ audioNonce' = IF encryptAudio THEN audioNonce + n ELSE audioNonce
    BY <1>3 DEF sendAudioPackets_, nextSeq
  <1>9. sent \in Seq(Packet) /\ (sent = <<>> <=> N = 0) /\ (sent' = <<>> <=> N + n = 0)
    BY <1>1, <1>5 DEF TypeOK
  <1>10. seq' = (Base + (N + n)) % SeqMod
    <2> DEFINE x == Base + N
    <2>1. x \in Nat /\ x + n = Base + (N + n)
      BY <1>4, <1>6
    <2>2. seq = x % SeqMod
      BY <1>1 DEF CursorInv
    <2> HIDE DEF x
    <2>3. ((x % SeqMod) + n) % SeqMod = (x + n) % SeqMod
      BY <1>4, <2>1, RemainderSum
    <2> QED
      BY <1>8, <2>1, <2>2, <2>3
  <1> HIDE DEF N
  <1>11. CursorInv'
    <2>1. framesSent' = (N + n) * FramesPerPacket
      <3>1. framesSent = N * FramesPerPacket
        BY <1>1 DEF CursorInv, N
      <3>2. N * FramesPerPacket + n * FramesPerPacket = (N + n) * FramesPerPacket
        BY <1>4
      <3> QED
        BY <1>8, <3>1, <3>2
    <2>2. firstAudio' = (sent' = <<>>)
      <3>1. (sent = <<>>) /\ n = 0 <=> sent' = <<>>
        BY <1>4, <1>9
      <3>2. firstAudio = (sent = <<>>)
        BY <1>1 DEF CursorInv
      <3> QED
        BY <1>8, <3>1, <3>2, Zenon
    <2>3. encryptAudio' => audioNonce' = N + n
      BY <1>1, <1>3, <1>8 DEF CursorInv, N
    <2>4. state' # "Starting"
      BY <1>3
    <2> QED
      BY <1>5, <1>6, <1>10, <2>1, <2>2, <2>3, <2>4 DEF CursorInv
  <1>12. PacketsInv'
    <2> SUFFICES ASSUME NEW i \in 1 .. (N + n) PROVE PacketIs(sent[i], i)'
      BY <1>5 DEF PacketsInv
    <2>1. PacketIs(sent'[i], i)
      <3>1. CASE i <= N
        <4>1. i \in 1 .. N
          BY <1>4, <3>1
        <4> QED
          BY <1>1, <1>5, <4>1 DEF PacketsInv, N
      <3>2. CASE i > N
        <4> DEFINE k == i - N
        <4>1. k \in 1 .. n /\ k \in Nat \ {0} /\ i = N + k
          BY <1>4, <3>2
        <4> HIDE DEF k
        <4>2. PacketIs(audioPacket(k), N + k)
          BY <1>1, <4>1, TickPacket DEF N
        <4> QED
          BY <1>5, <4>1, <4>2
      <3> QED
        BY <1>4, <3>1, <3>2
    <2> QED
      BY <1>3, <1>6, <2>1 DEF PacketIs
  <1>13. AnnouncedInv'
    BY <1>1, <1>3, <1>6 DEF AnnouncedInv, rtptime32_
  <1>14. NeverAhead'
    <2>1. CASE n = 0
      <3>1. framesSent' = framesSent
        BY <1>1, <1>4, <1>8, <2>1 DEF TypeOK
      <3> QED
        BY <1>1, <1>3, <3>1 DEF NeverAhead
    <2>2. CASE n # 0
      <3>1. n > 0
        BY <1>4, <2>2
      <3> QED
        BY <1>2, <1>3, <1>8, <3>1 DEF NeverAhead
    <2> QED
      BY <2>1, <2>2
  <1>15. AnswersExact'
    BY <1>3 DEF AnswersExact, NoAnswer
  <1>16. TypeOK'
    <2>1. seq' \in Seqs
      <3>1. seq + n \in Nat
        BY <1>1, <1>4 DEF TypeOK, Seqs
      <3> QED
        BY <1>4, <1>8, <3>1, RemainderType DEF Seqs
    <2>2. framesSent' \in Nat /\ audioNonce' \in Nat
      <3>1. n * FramesPerPacket \in Nat
        BY <1>4
      <3> QED
        BY <1>1, <1>4, <1>8, <3>1 DEF TypeOK
    <2>3. firstAudio' \in BOOLEAN
      BY <1>8, Zenon
    <2>4. answer' \in [asked : BOOLEAN, first : Seqs, count : Seqs, packets : SUBSET Packet]
      BY <1>3, NoAnswerType
    <2> QED
      BY <1>1, <1>3, <1>5, <1>7, <2>1, <2>2, <2>3, <2>4 DEF TypeOK
  <1> QED
    BY <1>7, <1>11, <1>12, <1>13, <1>14, <1>15, <1>16 DEF StreamInv

----------------------------------------------------------------------------
(* Retransmission. *)

\* What a running session answers.
LEMMA RetransmitAnswers ==
    ASSUME StreamInv, state # "Idle", NEW A \in SUBSET Seqs
    PROVE  {backlog[a % BacklogSize] : a \in {m \in A : backlogSeq[m % BacklogSize] = m}}
             = {p \in Recent : p.seq \in A}
  <1> DEFINE Got == {backlog[a % BacklogSize] : a \in {m \in A : backlogSeq[m % BacklogSize] = m}}
  <1>1. /\ \A j \in RecentIndex :
              /\ backlogSeq[sent[j].seq % BacklogSize] = sent[j].seq
              /\ backlog[sent[j].seq % BacklogSize] = sent[j]
        /\ \A i \in Slots : backlogSeq[i] # None =>
              \E j \in RecentIndex :
                  backlogSeq[i] = sent[j].seq /\ sent[j].seq % BacklogSize = i
    BY DEF StreamInv, BacklogInv
  <1>2. Recent = {sent[j] : j \in RecentIndex}
    BY DEF Recent, RecentIndex
  <1>3. ASSUME NEW a \in A, backlogSeq[a % BacklogSize] = a
        PROVE  backlog[a % BacklogSize] \in Recent /\ backlog[a % BacklogSize].seq = a
    <2>1. a \in Nat /\ a # None /\ BacklogSize \in Nat \ {0}
      BY StreamAssumption DEF Seqs, None
    <2>2. a % BacklogSize \in Slots
      BY <2>1, RemainderType DEF Slots
    <2>3. PICK j \in RecentIndex : backlogSeq[a % BacklogSize] = sent[j].seq
      BY <1>1, <1>3, <2>1, <2>2
    <2>4. sent[j].seq = a
      BY <1>3, <2>3
    <2>5. backlog[a % BacklogSize] = sent[j]
      BY <1>1, <2>4
    <2> QED
      BY <1>2, <2>4, <2>5
  <1>4. ASSUME NEW p \in Recent, p.seq \in A
        PROVE  p \in Got
    <2>1. PICK j \in RecentIndex : p = sent[j]
      BY <1>2
    <2>2. backlogSeq[p.seq % BacklogSize] = p.seq /\ backlog[p.seq % BacklogSize] = p
      BY <1>1, <2>1
    <2> QED
      BY <1>4, <2>2
  <1> QED
    BY <1>3, <1>4

LEMMA RetransmitStep ==
    ASSUME StreamInv, NEW first \in Seqs, NEW count \in LostCounts,
           OnRetransmitRequest(first, count)
    PROVE  StreamInv'
  <1> DEFINE A == Asked(first, count)
             Got == {backlog[a % BacklogSize] : a \in {m \in A : backlogSeq[m % BacklogSize] = m}}
             Told == {p \in Recent : p.seq \in A}
  <1> USE DEF session, cursor, store, output
  <1>1. /\ UNCHANGED <<state, session, cursor, elapsed, store, output>>
        /\ answer' = [asked |-> TRUE, first |-> first, count |-> count,
                      packets |-> IF state = "Idle" THEN {} ELSE Got]
    BY DEF OnRetransmitRequest
  <1>2. count \in Seqs /\ SeqMod \in Nat \ {0}
    BY StreamAssumption DEF Seqs
  <1>3. A \in SUBSET Seqs
    <2> SUFFICES ASSUME NEW i \in 0 .. (count - 1) PROVE (first + i) % SeqMod \in Seqs
      BY DEF Asked
    <2>1. first + i \in Nat
      BY <1>2 DEF Seqs
    <2> QED
      BY <1>2, <2>1, RemainderType DEF Seqs
  <1>4. state # "Idle" => Got = Told
    BY <1>3, RetransmitAnswers
  <1>5. PacketsInv' /\ Base' = Base /\ RecentIndex' = RecentIndex
    BY <1>1, SameStream DEF StreamInv
  <1>6. Recent' = Recent
    BY <1>1 DEF Recent
  <1>7. Recent \subseteq Packet
    BY DEF Recent, StreamInv, TypeOK
  <1> DEFINE reply == IF state = "Idle" THEN {} ELSE Told
  <1>8. /\ answer' = [asked |-> TRUE, first |-> first, count |-> count, packets |-> reply]
        /\ reply \in SUBSET Packet
    BY <1>1, <1>4, <1>7
  <1>9. AnswersExact'
    <2>1. answer'.packets = reply /\ answer'.first = first /\ answer'.count = count
      BY <1>8
    <2>2. Asked(answer.first, answer.count)' = A
      BY <2>1 DEF Asked
    <2> QED
      BY <1>1, <1>6, <2>1, <2>2 DEF AnswersExact
  <1> HIDE DEF reply, Got, Told, A
  <1>10. TypeOK'
    <2>1. answer' \in [asked : BOOLEAN, first : Seqs, count : Seqs, packets : SUBSET Packet]
      BY <1>2, <1>8
    <2> QED
      BY <1>1, <2>1 DEF StreamInv, TypeOK
  <1>11. CursorInv' /\ AnnouncedInv'
    BY <1>1, <1>5 DEF StreamInv, CursorInv, AnnouncedInv, rtptime32_
  <1>12. BacklogInv' /\ NeverAhead'
    BY <1>1, <1>5 DEF StreamInv, BacklogInv, NeverAhead
  <1> QED
    BY <1>5, <1>9, <1>10, <1>11, <1>12 DEF StreamInv

----------------------------------------------------------------------------
(* Theorems. *)

LEMMA StreamStep == StreamInv /\ [Next]_vars => StreamInv'
  <1> SUFFICES ASSUME StreamInv, [Next]_vars PROVE StreamInv'
    OBVIOUS
  <1>1. ASSUME NEW first \in FirstSeqs, NEW ok \in BOOLEAN, start(first, ok) PROVE StreamInv'
    BY <1>1, StartStep
  <1>2. ASSUME NEW ap2 \in BOOLEAN, NEW port \in BOOLEAN, SetUp(ap2, port) PROVE StreamInv'
    BY <1>2, SetUpStep
  <1>3. CASE OnSetUpReply
    BY <1>3, SetUpReplyStep
  <1>4. CASE EndAndClear \/ fail_
    BY <1>4, EndStep
  <1>5. ASSUME NEW d \in Stalls, TimePasses(d) PROVE StreamInv'
    BY <1>5, TimeStep
  <1>6. CASE onPacerTick_
    BY <1>6, TickStep
  <1>7. CASE OnSyncTimer
    BY <1>7, SyncStep
  <1>8. ASSUME NEW first \in Seqs, NEW count \in LostCounts, OnRetransmitRequest(first, count)
        PROVE  StreamInv'
    BY <1>8, RetransmitStep
  <1>9. CASE UNCHANGED vars
    BY <1>9, Stutter
  <1> QED
    BY <1>1, <1>2, <1>3, <1>4, <1>5, <1>6, <1>7, <1>8, <1>9 DEF Next

LEMMA StreamCorrect == Spec => []StreamInv
  <1>1. Init => StreamInv
    BY StreamInit
  <1>2. StreamInv /\ [Next]_vars => StreamInv'
    BY StreamStep
  <1> QED
    BY <1>1, <1>2, PTL DEF Spec

\* The data plane's variables keep their types: no counter leaves its width, no
\* slot of the backlog holds anything but a packet (sendAudioPacket_).
THEOREM StreamTypeCorrect == Spec => []TypeOK
  <1>1. StreamInv => TypeOK
    BY DEF StreamInv
  <1> QED
    BY <1>1, StreamCorrect, PTL

\* The packets of a session are one timeline from the announced sequence number
\* and RTP time, however the numbers wrap and whatever the bursts
\* (sendAudioPacket_, startStreaming_, sendRecord_).
THEOREM StreamOneTimeline == Spec => []OneTimeline
  <1>1. StreamInv => OneTimeline
    <2> SUFFICES ASSUME StreamInv PROVE OneTimeline
      OBVIOUS
    <2>1. TypeOK /\ PacketsInv /\ AnnouncedInv
      BY DEF StreamInv
    <2>2. Base \in Nat /\ sent \in Seq(Packet) /\ Len(sent) \in Nat
      BY <2>1, StreamNumbers DEF TypeOK
    <2>3. ASSUME NEW i \in 1 .. Len(sent)
          PROVE  /\ sent[i].ssrc = sessionId
                 /\ sent[i].seq = (sent[1].seq + i - 1) % SeqMod
                 /\ sent[i].rtptime = (Latency + (i - 1) * FramesPerPacket) % RtpMod
                 /\ sent[i].marker = (i = 1)
      <3>1. sent # <<>> /\ Base = sent[1].seq
        BY <2>2 DEF Base
      <3>2. Base + (i - 1) = sent[1].seq + i - 1
        BY <2>2, <3>1
      <3> QED
        BY <2>1, <3>2 DEF PacketsInv, PacketIs
    <2>4. ASSUME sent # <<>>
          PROVE  /\ announced # <<>> => announced = <<sent[1].seq, sent[1].rtptime>>
                 /\ controlPort => syncs # 0
      <3>1. Base = sent[1].seq /\ 1 \in 1 .. Len(sent)
        BY <2>2, <2>4 DEF Base
      <3>2. sent[1].rtptime = rtptime32_(0)
        <4>1. (1 - 1) * FramesPerPacket = 0
          BY StreamAssumption
        <4> QED
          BY <2>3, <3>1, <4>1 DEF rtptime32_
      <3> QED
        BY <2>1, <2>4, <3>1, <3>2 DEF AnnouncedInv
    <2> QED
      BY <2>3, <2>4 DEF OneTimeline
  <1> QED
    BY <1>1, StreamCorrect, PTL

\* No two packets of a session are encrypted under the same nonce, however many
\* it sends (encryptAudioPayload_).
THEOREM StreamNonces == Spec => []NonceNeverReused
  <1>1. StreamInv => NonceNeverReused
    <2> SUFFICES ASSUME StreamInv, encryptAudio,
                        NEW i \in 1 .. Len(sent), NEW j \in 1 .. Len(sent),
                        sent[i].nonce = sent[j].nonce
                 PROVE  i = j
      BY DEF NonceNeverReused
    <2>1. sent[i].nonce = i - 1 /\ sent[j].nonce = j - 1
      BY DEF StreamInv, PacketsInv, PacketIs
    <2>2. i \in Int /\ j \in Int
      BY StreamNumbers DEF StreamInv
    <2>3. i - 1 = j - 1
      BY <2>1
    <2> QED
      BY <2>2, <2>3
  <1> QED
    BY <1>1, StreamCorrect, PTL

\* A retransmit request gets exactly the packets it asks for out of the last
\* BacklogSize of the session, for any backlog that divides the sequence numbers
\* and is at least a burst long (onUdpDatagram).
THEOREM StreamAnswersExact == Spec => []AnswersExact
  <1>1. StreamInv => AnswersExact
    BY DEF StreamInv
  <1> QED
    BY <1>1, StreamCorrect, PTL

\* The pacer never sends audio before it is due, not even where its product of
\* time and rate wraps (onPacerTick_).
THEOREM StreamNeverAhead == Spec => []NeverAhead
  <1>1. StreamInv => NeverAhead
    BY DEF StreamInv
  <1> QED
    BY <1>1, StreamCorrect, PTL
=============================================================================
