------------------------- MODULE RaopSessionProofs -------------------------
(***************************************************************************)
(* Invariance proofs for RaopSession, for every set of configurations, any *)
(* bound on outstanding replies and, unless a theorem says otherwise, for  *)
(* receivers that send stray replies and hosts that submit a PIN late.     *)
(*                                                                         *)
(* The first part is about the session and its host, the second about the  *)
(* protocol with the receiver.                                             *)
(*                                                                         *)
(* The private methods of the sender are operators on session records, so  *)
(* the proofs have two layers: a lemma for each method that says which     *)
(* fields it leaves alone and what it does to the others, and then one     *)
(* step per action that only cites those lemmas.                           *)
(***************************************************************************)
EXTENDS RaopSession, SequenceTheorems, TLAPS

\* The literals that the methods use are members of their sets.
LEMMA Literals ==
    /\ "pacer" \in Timers /\ "sync" \in Timers /\ "timeout" \in Timers
    /\ "pinTimeout" \in Timers /\ "feedback" \in Timers
    /\ HandshakeMethods \subseteq Methods
    /\ "OPTIONS" \in Methods /\ "ANNOUNCE" \in Methods /\ "SETUP" \in Methods
    /\ "RECORD" \in Methods /\ "SET_PARAMETER" \in Methods /\ "POST" \in Methods
    /\ "FEEDBACK" \in Methods /\ "TEARDOWN" \in Methods /\ "GET" \in Methods
    /\ "None" \in Stages /\ "AuthSetup" \in Stages /\ "PinStart" \in Stages
    /\ "SetupM2" \in Stages /\ "SetupM4" \in Stages /\ "SetupM6" \in Stages
    /\ "VerifyM2" \in Stages /\ "VerifyDone" \in Stages /\ "Ap2Info" \in Stages
    /\ "Ap2Session" \in Stages /\ "Ap2Record" \in Stages /\ "Ap2Stream" \in Stages
    /\ "Done" \in Stages
    /\ "HapPin" \in Auths /\ "HapTransient" \in Auths
BY DEF Timers, Methods, Stages, Auths, HandshakeMethods

\* The two FIFOs go together.
Paired(x) == Len(x.pendingMethods) = Len(x.pendingIsHttp)

\* What sending a request leaves alone.
Kept(x, y) ==
    /\ y.state = x.state /\ y.cfg = x.cfg /\ y.authMethod = x.authMethod
    /\ y.ap2 = x.ap2 /\ y.waitingForPin = x.waitingForPin
    /\ y.controlEncrypted = x.controlEncrypted /\ y.proved = x.proved
    /\ y.rtspConnected = x.rtspConnected /\ y.udpBound = x.udpBound
    /\ y.ctl = x.ctl /\ y.evt = x.evt
    /\ y.session = x.session /\ y.asked = x.asked
    /\ y.launched = x.launched /\ y.closed = x.closed
    /\ y.ctl # "open" => y.wire = x.wire
    /\ Paired(x) => Paired(y)
    /\ x.due \subseteq x.armed => y.due \subseteq y.armed

\* arm_ and disarm_ touch the timers only.
LEMMA ArmFacts ==
    ASSUME NEW x \in Session, NEW t \in Timers
    PROVE  /\ arm_(x, t) \in Session /\ Kept(x, arm_(x, t))
           /\ arm_(x, t).pairStage = x.pairStage
           /\ arm_(x, t).armed = x.armed \cup {t}
           /\ disarm_(x, t) \in Session /\ Kept(x, disarm_(x, t))
           /\ disarm_(x, t).pairStage = x.pairStage
           /\ disarm_(x, t).armed = x.armed \ {t}
<1>1. arm_(x, t) \in Session /\ disarm_(x, t) \in Session
  BY DEF arm_, disarm_, Session
<1>2. Kept(x, arm_(x, t)) /\ arm_(x, t).pairStage = x.pairStage
      /\ arm_(x, t).armed = x.armed \cup {t}
  BY DEF arm_, Session, Kept, Paired
<1>3. Kept(x, disarm_(x, t)) /\ disarm_(x, t).pairStage = x.pairStage
      /\ disarm_(x, t).armed = x.armed \ {t}
  BY DEF disarm_, Session, Kept, Paired
<1>4. QED
  BY <1>1, <1>2, <1>3

\* writeRtsp_ appends to the FIFOs, and to the wire when the connection is open.
LEMMA WriteFacts ==
    ASSUME NEW x \in Session, NEW m \in Methods, NEW for \in Stages
    PROVE  LET y == writeRtsp_(x, m, for)
           IN  /\ y \in Session /\ Kept(x, y)
               /\ y.pairStage = x.pairStage /\ y.armed = x.armed
<1>1. IsHttp(for) \in BOOLEAN /\ request(x, m, for) \in Request
  BY DEF request, Request, Session, IsHttp
<1>2. /\ Append(x.pendingMethods, m) \in Seq(Methods)
      /\ Append(x.pendingIsHttp, IsHttp(for)) \in Seq(BOOLEAN)
      /\ Append(x.wire, request(x, m, for)) \in Seq(Request)
  BY <1>1 DEF Session
<1>3. writeRtsp_(x, m, for) \in Session
  <2> DEFINE w == IF x.ctl = "open" THEN Append(x.wire, request(x, m, for)) ELSE x.wire
             n == IF x.state \in Starting THEN x.requests + 1 ELSE x.requests
  <2>1. w \in Seq(Request) /\ n \in Nat
    BY <1>2 DEF Session
  <2>2. ASSUME NEW pm \in Seq(Methods), NEW ph \in Seq(BOOLEAN),
               NEW pw \in Seq(Request), NEW pn \in Nat
        PROVE  [x EXCEPT !.pendingMethods = pm, !.pendingIsHttp = ph,
                         !.wire = pw, !.requests = pn] \in Session
    BY DEF Session
  <2>3. QED
    BY <1>2, <2>1, <2>2 DEF writeRtsp_
<1>4. Paired(x) => Paired(writeRtsp_(x, m, for))
  <2>1. /\ writeRtsp_(x, m, for).pendingMethods = Append(x.pendingMethods, m)
        /\ writeRtsp_(x, m, for).pendingIsHttp = Append(x.pendingIsHttp, IsHttp(for))
    BY DEF writeRtsp_, Session
  <2>2. x.pendingMethods \in Seq(Methods) /\ x.pendingIsHttp \in Seq(BOOLEAN)
    BY DEF Session
  <2>3. QED
    BY <1>1, <2>1, <2>2 DEF Paired
<1>5. QED
  BY <1>3, <1>4 DEF writeRtsp_, Session, Kept

\* sendRequest_ arms the watchdog during pairing and handshake.
LEMMA SendRequestFacts ==
    ASSUME NEW x \in Session, NEW m \in Methods
    PROVE  LET y == sendRequest_(x, m)
           IN  /\ y \in Session /\ Kept(x, y) /\ y.pairStage = x.pairStage
               /\ y.armed = IF x.state \in {"Handshake", "Pairing"}
                            THEN x.armed \cup {"timeout"} ELSE x.armed
<1> DEFINE y == writeRtsp_(x, m, "None")
<1>1. y \in Session /\ Kept(x, y) /\ y.pairStage = x.pairStage /\ y.armed = x.armed
  BY WriteFacts, Literals
<1>2. arm_(y, "timeout") \in Session /\ Kept(y, arm_(y, "timeout"))
      /\ arm_(y, "timeout").pairStage = y.pairStage
      /\ arm_(y, "timeout").armed = y.armed \cup {"timeout"}
  BY <1>1, ArmFacts, Literals
<1>3. QED
  BY <1>1, <1>2 DEF sendRequest_, Kept

\* Moving to another pairing stage changes nothing else.
LEMMA StageFacts ==
    ASSUME NEW x \in Session, NEW stage \in Stages
    PROVE  LET y == [x EXCEPT !.pairStage = stage]
           IN  y \in Session /\ Kept(x, y) /\ y.pairStage = stage /\ y.armed = x.armed
<1>1. [x EXCEPT !.pairStage = stage] \in Session
  BY DEF Session
<1>2. QED
  BY <1>1 DEF Session, Kept, Paired

\* httpPost_ arms the watchdog unless the user is being asked for the PIN.
LEMMA HttpPostFacts ==
    ASSUME NEW x \in Session, NEW stage \in Stages
    PROVE  LET y == httpPost_(x, stage)
           IN  /\ y \in Session /\ Kept(x, y) /\ y.pairStage = stage
               /\ y.armed = IF x.waitingForPin THEN x.armed ELSE x.armed \cup {"timeout"}
<1> DEFINE w == [x EXCEPT !.pairStage = stage]
           y == writeRtsp_(w, "POST", stage)
<1>0. w \in Session /\ Kept(x, w) /\ w.pairStage = stage /\ w.armed = x.armed
  BY StageFacts
<1> HIDE DEF w
<1>a. w \in Session /\ "POST" \in Methods
  BY <1>0, Literals
<1>1. y \in Session /\ Kept(w, y) /\ y.pairStage = w.pairStage /\ y.armed = w.armed
  BY <1>a, WriteFacts
<1>2. arm_(y, "timeout") \in Session /\ Kept(y, arm_(y, "timeout"))
      /\ arm_(y, "timeout").pairStage = y.pairStage
      /\ arm_(y, "timeout").armed = y.armed \cup {"timeout"}
  BY <1>1, ArmFacts, Literals
<1>3. QED
  BY <1>0, <1>1, <1>2 DEF httpPost_, Kept, w

\* sendAp2Rtsp_ always arms the watchdog.
LEMMA Ap2RtspFacts ==
    ASSUME NEW x \in Session, NEW m \in Methods, NEW stage \in Stages
    PROVE  LET y == sendAp2Rtsp_(x, m, stage)
           IN  /\ y \in Session /\ Kept(x, y) /\ y.pairStage = stage
               /\ y.armed = x.armed \cup {"timeout"}
<1> DEFINE w == [x EXCEPT !.pairStage = stage]
           y == writeRtsp_(w, m, stage)
<1>0. w \in Session /\ Kept(x, w) /\ w.pairStage = stage /\ w.armed = x.armed
  BY StageFacts
<1> HIDE DEF w
<1>1. y \in Session /\ Kept(w, y) /\ y.pairStage = w.pairStage /\ y.armed = w.armed
  BY <1>0, WriteFacts
<1>2. arm_(y, "timeout") \in Session /\ Kept(y, arm_(y, "timeout"))
      /\ arm_(y, "timeout").pairStage = y.pairStage
      /\ arm_(y, "timeout").armed = y.armed \cup {"timeout"}
  BY <1>1, ArmFacts, Literals
<1>3. QED
  BY <1>0, <1>1, <1>2 DEF sendAp2Rtsp_, Kept, w

----------------------------------------------------------------------------
(* The ways a session ends. *)

\* What no ending of a session changes.
KeptAtEnd(x, y) ==
    /\ y.cfg = x.cfg /\ y.authMethod = x.authMethod /\ y.ap2 = x.ap2
    /\ y.waitingForPin = x.waitingForPin /\ y.pairStage = x.pairStage
    /\ y.controlEncrypted = x.controlEncrypted /\ y.session = x.session
    /\ Paired(x) => Paired(y)

\* The state an ended session is in.
Ended(y) ==
    /\ y.state = "Idle" /\ y.ctl = "closed" /\ y.evt = "closed"
    /\ y.udpBound = FALSE /\ y.wire = <<>>
    /\ "pinTimeout" \notin y.armed /\ y.due \subseteq y.armed

\* The parts every ending is made of stay within the type.
LEMMA EndTypes ==
    ASSUME NEW x \in Session
    PROVE  /\ stopTimers_(x) \in Session /\ tcpClose(x) \in Session
           /\ releaseSockets_(x) \in Session /\ [x EXCEPT !.state = "Idle"] \in Session
           /\ [x EXCEPT !.state = "Idle", !.asked = TRUE] \in Session
<1>1. stopTimers_(x) \in Session
  BY DEF stopTimers_, Session
<1>2. tcpClose(x) \in Session
  <2>1. ASSUME NEW w \in Seq(Request)
        PROVE  [x EXCEPT !.ctl = "closed", !.rtspConnected = FALSE, !.wire = w,
                         !.rcvEnc = FALSE] \in Session
    BY DEF Session
  <2>2. <<>> \in Seq(Request)
    OBVIOUS
  <2>3. QED
    BY <2>1, <2>2 DEF tcpClose
<1>3. releaseSockets_(x) \in Session
  BY DEF releaseSockets_, Session
<1>4. [x EXCEPT !.state = "Idle"] \in Session
  BY DEF Session, States
<1>5. [x EXCEPT !.state = "Idle", !.asked = TRUE] \in Session
  BY DEF Session, States
<1>6. QED
  BY <1>1, <1>2, <1>3, <1>4, <1>5

\* fail_ ends the session and tells the host.
LEMMA FailFacts ==
    ASSUME NEW x \in Session
    PROVE  LET y == fail_(x)
           IN  /\ y \in Session /\ KeptAtEnd(x, y) /\ Ended(y)
               /\ y.asked = x.asked
               /\ y.launched = IF x.state # "Streaming" THEN Saturate(x.launched, 2)
                                                        ELSE x.launched
               /\ y.closed = Saturate(x.closed, 2)
<1>1. fail_(x) \in Session
  <2> DEFINE y == releaseSockets_(tcpClose(stopTimers_([x EXCEPT !.state = "Idle"])))
  <2>1. y \in Session
    BY EndTypes
  <2>2. ASSUME NEW a \in 0..2, NEW b \in 0..2
        PROVE  [y EXCEPT !.launched = a, !.closed = b] \in Session
    <3> HIDE DEF y
    <3>1. QED BY <2>1 DEF Session
  <2>3. y.launched \in 0..2 /\ y.closed \in 0..2
    BY <2>1 DEF Session
  <2> DEFINE a == IF x.state # "Streaming" THEN Saturate(y.launched, 2) ELSE y.launched
             b == Saturate(y.closed, 2)
  <2>4. fail_(x) = [y EXCEPT !.launched = a, !.closed = b]
    BY DEF fail_
  <2> HIDE DEF y
  <2>5. a \in 0..2 /\ b \in 0..2
    BY <2>3 DEF Saturate
  <2> HIDE DEF a, b
  <2>6. QED
    BY <2>2, <2>4, <2>5
<1>2. KeptAtEnd(x, fail_(x)) /\ Ended(fail_(x))
  BY DEF fail_, releaseSockets_, tcpClose, stopTimers_, Session, KeptAtEnd, Ended, Paired
<1>3. /\ fail_(x).asked = x.asked
      /\ fail_(x).launched = IF x.state # "Streaming" THEN Saturate(x.launched, 2) ELSE x.launched
      /\ fail_(x).closed = Saturate(x.closed, 2)
  BY DEF fail_, releaseSockets_, tcpClose, stopTimers_, Session
<1>4. QED
  BY <1>1, <1>2, <1>3

\* A FIN from the peer does the same.
LEMMA ClosedByPeerFacts ==
    ASSUME NEW x \in Session
    PROVE  LET y == closedByPeer(x)
           IN  /\ y \in Session /\ KeptAtEnd(x, y) /\ Ended(y)
               /\ y.asked = x.asked
               /\ y.launched = IF x.state # "Streaming" THEN Saturate(x.launched, 2)
                                                        ELSE x.launched
               /\ y.closed = Saturate(x.closed, 2)
<1>1. closedByPeer(x) \in Session
  <2> DEFINE y == releaseSockets_(stopTimers_([tcpClose(x) EXCEPT !.state = "Idle"]))
  <2>1. y \in Session
    BY EndTypes
  <2>2. ASSUME NEW a \in 0..2, NEW b \in 0..2
        PROVE  [y EXCEPT !.launched = a, !.closed = b] \in Session
    <3> HIDE DEF y
    <3>1. QED BY <2>1 DEF Session
  <2>3. y.launched \in 0..2 /\ y.closed \in 0..2
    BY <2>1 DEF Session
  <2> DEFINE a == IF x.state # "Streaming" THEN Saturate(y.launched, 2) ELSE y.launched
             b == Saturate(y.closed, 2)
  <2>4. closedByPeer(x) = [y EXCEPT !.launched = a, !.closed = b]
    BY DEF closedByPeer
  <2> HIDE DEF y
  <2>5. a \in 0..2 /\ b \in 0..2
    BY <2>3 DEF Saturate
  <2> HIDE DEF a, b
  <2>6. QED
    BY <2>2, <2>4, <2>5
<1>2. KeptAtEnd(x, closedByPeer(x)) /\ Ended(closedByPeer(x))
  BY DEF closedByPeer, releaseSockets_, tcpClose, stopTimers_, Session, KeptAtEnd, Ended, Paired
<1>3. /\ closedByPeer(x).asked = x.asked
      /\ closedByPeer(x).launched = IF x.state # "Streaming" THEN Saturate(x.launched, 2) ELSE x.launched
      /\ closedByPeer(x).closed = Saturate(x.closed, 2)
  BY DEF closedByPeer, releaseSockets_, tcpClose, stopTimers_, Session
<1>4. QED
  BY <1>1, <1>2, <1>3

\* stop() does nothing to an idle sender and ends a live session silently.
LEMMA StopFacts ==
    ASSUME NEW x \in Session
    PROVE  LET y == stop(x)
           IN  /\ y \in Session /\ KeptAtEnd(x, y)
               /\ y.launched = x.launched /\ y.closed = x.closed
               /\ x.state = "Idle" => y = x
               /\ x.state # "Idle" => Ended(y) /\ y.asked = TRUE
<1>1. CASE x.state = "Idle"
  BY <1>1 DEF stop, KeptAtEnd
<1>2. CASE x.state # "Idle"
  <2> DEFINE y == stopTimers_(x)
             z == IF y.rtspConnected /\ (y.rtspSession \/ y.cfg.airplay2)
                  THEN sendRequest_(y, "TEARDOWN") ELSE y
  <2>1. y \in Session /\ KeptAtEnd(x, y) /\ y.launched = x.launched /\ y.closed = x.closed
    BY DEF stopTimers_, Session, KeptAtEnd, Paired
  <2>0. y.armed = {} /\ y.due = {}
    BY DEF stopTimers_, Session
  <2>2. /\ z \in Session /\ KeptAtEnd(x, z) /\ z.launched = x.launched /\ z.closed = x.closed
        /\ "pinTimeout" \notin z.armed /\ z.due \subseteq z.armed
    <3> HIDE DEF y
    <3> DEFINE q == sendRequest_(y, "TEARDOWN")
    <3>1. q \in Session /\ Kept(y, q) /\ q.pairStage = y.pairStage
          /\ q.armed = IF y.state \in {"Handshake", "Pairing"}
                       THEN y.armed \cup {"timeout"} ELSE y.armed
      BY <2>1, SendRequestFacts, Literals
    <3> HIDE DEF q
    <3>2. q \in Session /\ KeptAtEnd(x, q) /\ q.launched = x.launched /\ q.closed = x.closed
      BY <2>1, <3>1 DEF Kept, KeptAtEnd
    <3>3. "pinTimeout" \notin q.armed /\ q.due \subseteq q.armed
      BY <2>0, <3>1 DEF Kept
    <3>4. QED
      BY <2>0, <2>1, <3>2, <3>3 DEF q
  <2> HIDE DEF z
  <2>3. stop(x) = releaseSockets_(tcpClose([z EXCEPT !.state = "Idle", !.asked = TRUE]))
    BY <1>2 DEF stop, z, y
  <2>4. stop(x) \in Session
    BY <2>2, <2>3, EndTypes
  <2>5. /\ stop(x).launched = z.launched /\ stop(x).closed = z.closed
        /\ KeptAtEnd(z, stop(x)) /\ stop(x).asked = TRUE
        /\ stop(x).armed = z.armed /\ stop(x).due = z.due
    BY <2>2, <2>3 DEF releaseSockets_, tcpClose, Session, KeptAtEnd, Paired
  <2>6. QED
    BY <1>2, <2>2, <2>3, <2>4, <2>5 DEF releaseSockets_, tcpClose, Session, KeptAtEnd, Ended, Paired
<1>3. QED
  BY <1>1, <1>2

----------------------------------------------------------------------------
(* The core invariant, as a predicate on session records: the type, the      *)
(* watchdog, the sockets and the FIFOs.                                      *)

Watched(x) ==
    x.state \in Starting =>
        IF x.waitingForPin THEN "pinTimeout" \in x.armed ELSE "timeout" \in x.armed

Connected(x) ==
    IF x.state = "Idle"
    THEN x.ctl = "closed" /\ x.evt = "closed" /\ ~x.udpBound /\ x.wire = <<>>
    ELSE x.ctl # "closed" /\ x.udpBound
         /\ (x.state = "Connecting" <=> x.ctl = "connecting")

Timed(x) == x.due \subseteq x.armed /\ (x.state = "Idle" => "pinTimeout" \notin x.armed)

Core(x) == x \in Session /\ Watched(x) /\ Connected(x) /\ Timed(x) /\ Paired(x)

\* A change that keeps the fields above and disarms no watchdog keeps the core.
LEMMA KeptCore ==
    ASSUME NEW x, Core(x), NEW y \in Session, Kept(x, y),
           "timeout" \in x.armed => "timeout" \in y.armed,
           "pinTimeout" \in x.armed => "pinTimeout" \in y.armed,
           x.state = "Idle" /\ "pinTimeout" \in y.armed => "pinTimeout" \in x.armed
    PROVE  Core(y)
BY DEF Core, Watched, Connected, Timed, Kept

\* Whatever state it was in, an ended session satisfies the core.
LEMMA EndedCore ==
    ASSUME NEW y \in Session, Ended(y), Paired(y)
    PROVE  Core(y)
BY DEF Core, Watched, Connected, Timed, Ended, Starting

\* How a step looks to the host: not at all; the session is lost; it launches.
Quiet(x, y) ==
    /\ y.session = x.session /\ y.asked = x.asked
    /\ y.launched = x.launched /\ y.closed = x.closed
    /\ \/ y.state = x.state
       \/ x.state \in Starting /\ y.state \in Starting

Lost(x, y) ==
    /\ y.state = "Idle" /\ y.session = x.session /\ y.asked = x.asked
    /\ y.launched = IF x.state # "Streaming" THEN Saturate(x.launched, 2) ELSE x.launched
    /\ y.closed = Saturate(x.closed, 2)

Launched(x, y) ==
    /\ x.state \in Starting /\ y.state = "Streaming"
    /\ y.session = x.session /\ y.asked = x.asked
    /\ y.launched = Saturate(x.launched, 2) /\ y.closed = x.closed

\* A step that keeps the core, and how it looks.
Calm(x, y)   == Core(y) /\ Quiet(x, y)
Reacts(x, y) == Core(y) /\ (Quiet(x, y) \/ Lost(x, y) \/ Launched(x, y))

\* What follows a calm step looks the same from before it.
LEMMA CalmThen ==
    ASSUME NEW x, NEW y, NEW z, Calm(x, y)
    PROVE  /\ Calm(y, z) => Calm(x, z)
           /\ Reacts(y, z) => Reacts(x, z)
<1>1. Quiet(x, y) /\ Quiet(y, z) => Quiet(x, z)
  BY DEF Quiet
<1>2. Quiet(x, y) /\ Lost(y, z) => Lost(x, z)
  BY DEF Quiet, Lost, Starting
<1>3. Quiet(x, y) /\ Launched(y, z) => Launched(x, z)
  BY DEF Quiet, Launched
<1>4. QED
  BY <1>1, <1>2, <1>3 DEF Calm, Reacts

\* A calm step is one of the ways to react.
LEMMA CalmReacts ==
    ASSUME NEW x, NEW y, Calm(x, y)
    PROVE  Reacts(x, y)
BY DEF Calm, Reacts

\* Sending keeps the fields the host can see.
LEMMA KeptQuiet ==
    ASSUME NEW x, NEW y, Kept(x, y)
    PROVE  Quiet(x, y)
BY DEF Kept, Quiet

\* fail_ and a FIN lose the session.
LEMMA FailCore ==
    ASSUME NEW x \in Session, Paired(x)
    PROVE  Reacts(x, fail_(x)) /\ Reacts(x, closedByPeer(x))
<1>1. Core(fail_(x)) /\ Core(closedByPeer(x))
  BY FailFacts, ClosedByPeerFacts, EndedCore DEF KeptAtEnd
<1>2. Lost(x, fail_(x)) /\ Lost(x, closedByPeer(x))
  BY FailFacts, ClosedByPeerFacts DEF KeptAtEnd, Ended, Lost
<1>3. QED
  BY <1>1, <1>2 DEF Reacts

\* stop() leaves Core true, and the session Idle.
LEMMA StopCore ==
    ASSUME NEW x, Core(x)
    PROVE  Core(stop(x)) /\ stop(x).state = "Idle"
<1>1. x \in Session /\ Paired(x)
  BY DEF Core
<1>2. CASE x.state = "Idle"
  BY <1>1, <1>2, StopFacts
<1>3. CASE x.state # "Idle"
  BY <1>1, <1>3, StopFacts, EndedCore DEF Ended, KeptAtEnd
<1>4. QED
  BY <1>2, <1>3

\* Sending a request keeps the core.
LEMMA SendCore ==
    ASSUME NEW x, Core(x)
    PROVE  /\ \A m \in Methods : Calm(x, sendRequest_(x, m)) /\ Calm(x, writeRtsp_(x, m, "None"))
           /\ \A stage \in Stages : Calm(x, httpPost_(x, stage))
           /\ \A m \in Methods, stage \in Stages : Calm(x, sendAp2Rtsp_(x, m, stage))
<1>1. x \in Session
  BY DEF Core
<1>2. ASSUME NEW m \in Methods
      PROVE  Calm(x, sendRequest_(x, m))
  <2> DEFINE y == sendRequest_(x, m)
  <2>1. y \in Session /\ Kept(x, y)
        /\ y.armed = IF x.state \in {"Handshake", "Pairing"}
                     THEN x.armed \cup {"timeout"} ELSE x.armed
    BY <1>1, SendRequestFacts
  <2> HIDE DEF y
  <2>2. QED
    BY <2>1, KeptCore, KeptQuiet DEF y, Calm
<1>3. ASSUME NEW m \in Methods
      PROVE  Calm(x, writeRtsp_(x, m, "None"))
  <2> DEFINE y == writeRtsp_(x, m, "None")
  <2>1. y \in Session /\ Kept(x, y) /\ y.armed = x.armed
    BY <1>1, WriteFacts, Literals
  <2> HIDE DEF y
  <2>2. QED
    BY <2>1, KeptCore, KeptQuiet DEF y, Calm
<1>4. ASSUME NEW stage \in Stages
      PROVE  Calm(x, httpPost_(x, stage))
  <2> DEFINE y == httpPost_(x, stage)
  <2>1. y \in Session /\ Kept(x, y)
        /\ y.armed = IF x.waitingForPin THEN x.armed ELSE x.armed \cup {"timeout"}
    BY <1>1, HttpPostFacts
  <2> HIDE DEF y
  <2>2. QED
    BY <2>1, KeptCore, KeptQuiet DEF y, Calm
<1>5. ASSUME NEW m \in Methods, NEW stage \in Stages
      PROVE  Calm(x, sendAp2Rtsp_(x, m, stage))
  <2> DEFINE y == sendAp2Rtsp_(x, m, stage)
  <2>1. y \in Session /\ Kept(x, y) /\ y.armed = x.armed \cup {"timeout"}
    BY <1>1, Ap2RtspFacts
  <2> HIDE DEF y
  <2>2. QED
    BY <2>1, KeptCore, KeptQuiet DEF y, Calm
<1>6. QED
  BY <1>2, <1>3, <1>4, <1>5

----------------------------------------------------------------------------
(* The methods that are made of several others. *)

\* Arming a timer keeps the core.
LEMMA ArmCore ==
    ASSUME NEW x, Core(x), NEW t \in Timers, t # "pinTimeout"
    PROVE  Calm(x, arm_(x, t))
<1>1. x \in Session
  BY DEF Core
<1> DEFINE y == arm_(x, t)
<1>2. y \in Session /\ Kept(x, y) /\ y.armed = x.armed \cup {t}
  BY <1>1, ArmFacts
<1> HIDE DEF y
<1>3. QED
  BY <1>2, KeptCore, KeptQuiet DEF y, Calm

\* Disarming a timer that is no watchdog keeps the core.
LEMMA DisarmCore ==
    ASSUME NEW x, Core(x), NEW t \in Timers, t \notin {"timeout", "pinTimeout"}
    PROVE  Calm(x, disarm_(x, t))
<1>1. x \in Session
  BY DEF Core
<1> DEFINE y == disarm_(x, t)
<1>2. y \in Session /\ Kept(x, y) /\ y.armed = x.armed \ {t}
  BY <1>1, ArmFacts
<1> HIDE DEF y
<1>3. QED
  BY <1>2, KeptCore, KeptQuiet DEF y, Calm

\* Taking a reply off the FIFOs changes nothing but the FIFOs and the wire.
LEMMA PopFacts ==
    ASSUME NEW x, Core(x), x.ctl = "open", x.pendingMethods # <<>>,
           NEW src \in Sources, src = "answer" => x.wire # <<>>,
           NEW keyed \in BOOLEAN
    PROVE  LET y == popFront(x, src, keyed)
           IN  Calm(x, y) /\ Kept(x, y) /\ y.pairStage = x.pairStage /\ y.armed = x.armed
<1>1. x \in Session /\ Paired(x)
  BY DEF Core
<1>2. /\ x.pendingMethods \in Seq(Methods) /\ x.pendingIsHttp \in Seq(BOOLEAN)
      /\ x.wire \in Seq(Request) /\ x.rcvEnc \in BOOLEAN
  BY <1>1 DEF Session
<1>3. x.pendingIsHttp # <<>>
  BY <1>1, <1>2 DEF Paired
<1> DEFINE w == IF src = "answer" THEN Tail(x.wire) ELSE x.wire
           e == x.rcvEnc \/ (src = "answer" /\ keyed)
           y == popFront(x, src, keyed)
<1>4. /\ Tail(x.pendingMethods) \in Seq(Methods) /\ Tail(x.pendingIsHttp) \in Seq(BOOLEAN)
      /\ Len(Tail(x.pendingMethods)) = Len(Tail(x.pendingIsHttp))
  <2>1. /\ Tail(x.pendingMethods) \in Seq(Methods)
        /\ Len(Tail(x.pendingMethods)) = Len(x.pendingMethods) - 1
    BY <1>2, HeadTailProperties
  <2>2. /\ Tail(x.pendingIsHttp) \in Seq(BOOLEAN)
        /\ Len(Tail(x.pendingIsHttp)) = Len(x.pendingIsHttp) - 1
    BY <1>2, <1>3, HeadTailProperties
  <2>3. QED
    BY <1>1, <2>1, <2>2 DEF Paired
<1>5. w \in Seq(Request)
  BY <1>2
<1>6. e \in BOOLEAN
  OBVIOUS
<1>7. ASSUME NEW pm \in Seq(Methods), NEW ph \in Seq(BOOLEAN),
             NEW pw \in Seq(Request), NEW pe \in BOOLEAN
      PROVE  [x EXCEPT !.pendingMethods = pm, !.pendingIsHttp = ph,
                       !.wire = pw, !.rcvEnc = pe] \in Session
  BY <1>1 DEF Session
<1>8. y = [x EXCEPT !.pendingMethods = Tail(x.pendingMethods),
                    !.pendingIsHttp = Tail(x.pendingIsHttp), !.wire = w, !.rcvEnc = e]
  BY <1>1 DEF popFront, Session
<1> HIDE DEF w, e
<1>9. y \in Session
  <2> HIDE DEF y
  <2>1. QED BY <1>4, <1>5, <1>6, <1>7, <1>8
<1>10. y.pendingMethods = Tail(x.pendingMethods) /\ y.pendingIsHttp = Tail(x.pendingIsHttp)
  BY <1>1 DEF popFront, Session
<1>11. Kept(x, y) /\ y.pairStage = x.pairStage /\ y.armed = x.armed
  <2>1. Paired(y)
    BY <1>4, <1>10 DEF Paired
  <2> HIDE DEF y
  <2>2. QED
    BY <1>1, <1>8, <2>1 DEF Session, Kept
<1> HIDE DEF y
<1>12. QED
  BY <1>9, <1>11, KeptCore, KeptQuiet DEF y, Calm

\* The core, and the host, speak of these fields only.
Framed(x, y) ==
    /\ y.state = x.state /\ y.waitingForPin = x.waitingForPin
    /\ y.armed = x.armed /\ y.due = x.due
    /\ y.ctl = x.ctl /\ y.evt = x.evt /\ y.udpBound = x.udpBound /\ y.wire = x.wire
    /\ y.pendingMethods = x.pendingMethods /\ y.pendingIsHttp = x.pendingIsHttp
    /\ y.session = x.session /\ y.asked = x.asked /\ y.closed = x.closed

\* What leaves the fields that Core reads alone keeps Core.
LEMMA FrameCore ==
    ASSUME NEW x, Core(x), NEW y \in Session, Framed(x, y)
    PROVE  Core(y) /\ (y.launched = x.launched => Calm(x, y))
BY DEF Framed, Core, Watched, Connected, Timed, Paired, Calm, Quiet

\* Setting other fields is a calm step.
LEMMA DetailCore ==
    ASSUME NEW x, Core(x)
    PROVE  /\ \A v \in {"none", "user", "default"} : Calm(x, [x EXCEPT !.pendingVolume = v])
           /\ \A n \in 0..2 : Calm(x, [x EXCEPT !.nowPlaying = n])
           /\ \A st \in Stages : Calm(x, [x EXCEPT !.pairStage = st])
           /\ \A a \in Auths : Calm(x, newAp2(x, a))
           /\ Calm(x, [x EXCEPT !.digestNonce = FALSE])
           /\ Calm(x, [x EXCEPT !.digestNonce = TRUE, !.digestRetried = TRUE])
           /\ Calm(x, [x EXCEPT !.rtspSession = TRUE])
           /\ Calm(x, [x EXCEPT !.feedbackRefused = TRUE])
           /\ Calm(x, [x EXCEPT !.triedTransientAfterPin403 = TRUE])
           /\ \A st \in Stages, a \in {"transient", "verified"}, b \in BOOLEAN :
                 Calm(x, [x EXCEPT !.pairStage = st, !.ap2 = a, !.proved = b])
           /\ \A a \in {"transient", "verified"}, b \in BOOLEAN :
                 Calm(x, [x EXCEPT !.ap2 = a, !.proved = b])
           /\ \A n \in 0..2 : Core([x EXCEPT !.launched = n])
<1>1. x \in Session
  BY DEF Core
<1>2. ASSUME NEW v \in {"none", "user", "default"}
      PROVE  Calm(x, [x EXCEPT !.pendingVolume = v])
  <2> DEFINE y == [x EXCEPT !.pendingVolume = v]
  <2>1. y \in Session
    BY <1>1 DEF Session
  <2>2. Framed(x, y) /\ y.launched = x.launched
    BY <1>1 DEF Session, Framed
  <2> HIDE DEF y
  <2>3. QED
    BY <2>1, <2>2, FrameCore DEF y
<1>3. ASSUME NEW n \in 0..2
      PROVE  Calm(x, [x EXCEPT !.nowPlaying = n])
  <2> DEFINE y == [x EXCEPT !.nowPlaying = n]
  <2>1. y \in Session
    BY <1>1 DEF Session
  <2>2. Framed(x, y) /\ y.launched = x.launched
    BY <1>1 DEF Session, Framed
  <2> HIDE DEF y
  <2>3. QED
    BY <2>1, <2>2, FrameCore DEF y
<1>4. ASSUME NEW st \in Stages
      PROVE  Calm(x, [x EXCEPT !.pairStage = st])
  <2> DEFINE y == [x EXCEPT !.pairStage = st]
  <2>1. y \in Session
    BY <1>1 DEF Session
  <2>2. Framed(x, y) /\ y.launched = x.launched
    BY <1>1 DEF Session, Framed
  <2> HIDE DEF y
  <2>3. QED
    BY <2>1, <2>2, FrameCore DEF y
<1>5. ASSUME NEW a \in Auths
      PROVE  Calm(x, newAp2(x, a))
  <2> DEFINE y == newAp2(x, a)
  <2>1. y \in Session
    BY <1>1 DEF Session, newAp2
  <2>2. Framed(x, y) /\ y.launched = x.launched
    BY <1>1 DEF Session, Framed, newAp2
  <2> HIDE DEF y
  <2>3. QED
    BY <2>1, <2>2, FrameCore DEF y
<1>6. Calm(x, [x EXCEPT !.digestNonce = FALSE])
  <2> DEFINE y == [x EXCEPT !.digestNonce = FALSE]
  <2>1. y \in Session
    BY <1>1 DEF Session
  <2>2. Framed(x, y) /\ y.launched = x.launched
    BY <1>1 DEF Session, Framed
  <2> HIDE DEF y
  <2>3. QED
    BY <2>1, <2>2, FrameCore DEF y
<1>7. Calm(x, [x EXCEPT !.digestNonce = TRUE, !.digestRetried = TRUE])
  <2> DEFINE y == [x EXCEPT !.digestNonce = TRUE, !.digestRetried = TRUE]
  <2>1. y \in Session
    BY <1>1 DEF Session
  <2>2. Framed(x, y) /\ y.launched = x.launched
    BY <1>1 DEF Session, Framed
  <2> HIDE DEF y
  <2>3. QED
    BY <2>1, <2>2, FrameCore DEF y
<1>8. Calm(x, [x EXCEPT !.rtspSession = TRUE])
  <2> DEFINE y == [x EXCEPT !.rtspSession = TRUE]
  <2>1. y \in Session
    BY <1>1 DEF Session
  <2>2. Framed(x, y) /\ y.launched = x.launched
    BY <1>1 DEF Session, Framed
  <2> HIDE DEF y
  <2>3. QED
    BY <2>1, <2>2, FrameCore DEF y
<1>9. Calm(x, [x EXCEPT !.feedbackRefused = TRUE])
  <2> DEFINE y == [x EXCEPT !.feedbackRefused = TRUE]
  <2>1. y \in Session
    BY <1>1 DEF Session
  <2>2. Framed(x, y) /\ y.launched = x.launched
    BY <1>1 DEF Session, Framed
  <2> HIDE DEF y
  <2>3. QED
    BY <2>1, <2>2, FrameCore DEF y
<1>10. Calm(x, [x EXCEPT !.triedTransientAfterPin403 = TRUE])
  <2> DEFINE y == [x EXCEPT !.triedTransientAfterPin403 = TRUE]
  <2>1. y \in Session
    BY <1>1 DEF Session
  <2>2. Framed(x, y) /\ y.launched = x.launched
    BY <1>1 DEF Session, Framed
  <2> HIDE DEF y
  <2>3. QED
    BY <2>1, <2>2, FrameCore DEF y
<1>11. ASSUME NEW st \in Stages, NEW a \in {"transient", "verified"}, NEW b \in BOOLEAN
      PROVE  Calm(x, [x EXCEPT !.pairStage = st, !.ap2 = a, !.proved = b])
  <2> DEFINE y == [x EXCEPT !.pairStage = st, !.ap2 = a, !.proved = b]
  <2>1. y \in Session
    BY <1>1 DEF Session
  <2>2. Framed(x, y) /\ y.launched = x.launched
    BY <1>1 DEF Session, Framed
  <2> HIDE DEF y
  <2>3. QED
    BY <2>1, <2>2, FrameCore DEF y
<1>12. ASSUME NEW a \in {"transient", "verified"}, NEW b \in BOOLEAN
      PROVE  Calm(x, [x EXCEPT !.ap2 = a, !.proved = b])
  <2> DEFINE y == [x EXCEPT !.ap2 = a, !.proved = b]
  <2>1. y \in Session
    BY <1>1 DEF Session
  <2>2. Framed(x, y) /\ y.launched = x.launched
    BY <1>1 DEF Session, Framed
  <2> HIDE DEF y
  <2>3. QED
    BY <2>1, <2>2, FrameCore DEF y
<1>13. ASSUME NEW n \in 0..2
      PROVE  Core([x EXCEPT !.launched = n])
  <2> DEFINE y == [x EXCEPT !.launched = n]
  <2>1. y \in Session
    BY <1>1 DEF Session
  <2>2. Framed(x, y)
    BY <1>1 DEF Session, Framed
  <2> HIDE DEF y
  <2>3. QED
    BY <2>1, <2>2, FrameCore DEF y
<1>14. QED
  BY <1>2, <1>3, <1>4, <1>5, <1>6, <1>7, <1>8,
     <1>9, <1>10, <1>11, <1>12, <1>13

\* Zero, one or two SET_PARAMETERs.
LEMMA SetParametersCore ==
    ASSUME NEW x, Core(x), NEW n \in 0..2
    PROVE  LET y == SetParameters(x, n)
           IN  Core(y) /\ Kept(x, y)
<1> DEFINE a == sendRequest_(x, "SET_PARAMETER")
           b == sendRequest_(a, "SET_PARAMETER")
<1>1. Core(a) /\ Kept(x, a)
  BY SendCore, SendRequestFacts, Literals DEF Core, Calm
<1> HIDE DEF a
<1>2. Core(b) /\ Kept(a, b)
  BY <1>1, SendCore, SendRequestFacts, Literals DEF Core, Calm
<1> HIDE DEF b
<1>3. Kept(x, b)
  BY <1>1, <1>2 DEF Kept
<1>4. Kept(x, x)
  BY DEF Kept
<1>5. SetParameters(x, n) \in {x, a, b}
  <2>1. n = 0 \/ n = 1 \/ n = 2
    OBVIOUS
  <2>2. QED
    BY <2>1 DEF SetParameters, a, b
<1>6. QED
  BY <1>1, <1>2, <1>3, <1>4, <1>5

\* sendMetadata_ keeps Core and says nothing to the host.
LEMMA SendMetadataCore ==
    ASSUME NEW x, Core(x)
    PROVE  Core(sendMetadata_(x)) /\ Kept(x, sendMetadata_(x))
<1>1. x.nowPlaying \in 0..2
  BY DEF Core, Session
<1>2. QED
  BY <1>1, SetParametersCore DEF sendMetadata_

\* startStreaming_ makes a session with open sockets a streaming one and says so
\* to the host.
LEMMA StartStreamingFacts ==
    ASSUME NEW x \in Session, Paired(x), x.due \subseteq x.armed,
           x.ctl = "open", x.udpBound
    PROVE  LET y == startStreaming_(x)
           IN  /\ Core(y) /\ y.state = "Streaming"
               /\ y.launched = Saturate(x.launched, 2) /\ y.closed = x.closed
               /\ y.cfg = x.cfg /\ y.authMethod = x.authMethod /\ y.ap2 = x.ap2
               /\ y.proved = x.proved /\ y.controlEncrypted = x.controlEncrypted
               /\ y.waitingForPin = x.waitingForPin
               /\ y.session = x.session /\ y.asked = x.asked
<1> DEFINE vol == IF x.cfg.airplay2 /\ x.pendingVolume = "none"
                  THEN "default" ELSE x.pendingVolume
           w  == [x EXCEPT !.state = "Streaming", !.pendingVolume = vol]
           d  == disarm_(w, "timeout")
           y1 == arm_(d, "sync")
           n  == IF vol = "none" THEN 0 ELSE 1
           p  == SetParameters(y1, n)
           y2 == arm_(p, "pacer")
           y3 == IF x.cfg.airplay2 THEN arm_(y2, "feedback") ELSE sendRequest_(y2, "POST")
           z  == sendMetadata_(y3)
<1>1. w \in Session /\ n \in 0..2
  <2>1. vol \in {"none", "user", "default"} /\ "Streaming" \in States
    BY DEF Session, States
  <2>2. n \in 0..2
    OBVIOUS
  <2>3. ASSUME NEW v \in {"none", "user", "default"}, NEW st \in States
        PROVE  [x EXCEPT !.state = st, !.pendingVolume = v] \in Session
    BY DEF Session
  <2> HIDE DEF vol, n
  <2>4. QED
    BY <2>1, <2>2, <2>3
<1> HIDE DEF n
<1>2. /\ w.state = "Streaming" /\ w.ctl = "open" /\ w.udpBound /\ Paired(w)
      /\ w.due \subseteq w.armed
      /\ w.cfg = x.cfg /\ w.authMethod = x.authMethod /\ w.ap2 = x.ap2
      /\ w.proved = x.proved /\ w.controlEncrypted = x.controlEncrypted
      /\ w.waitingForPin = x.waitingForPin
      /\ w.session = x.session /\ w.asked = x.asked
      /\ w.launched = x.launched /\ w.closed = x.closed
  BY DEF Session, Paired
<1> HIDE DEF w
<1>3. d \in Session /\ Kept(w, d)
  BY <1>1, ArmFacts, Literals
<1> HIDE DEF d
<1>4. Core(d)
  <2>1. d.state = "Streaming" /\ d.ctl = "open" /\ d.udpBound /\ Paired(d)
        /\ d.due \subseteq d.armed
    BY <1>2, <1>3 DEF Kept
  <2>2. QED
    BY <1>3, <2>1 DEF Core, Watched, Connected, Timed, Starting
<1>5. Core(y1) /\ Kept(d, y1)
  BY <1>3, <1>4, ArmCore, ArmFacts, Literals DEF Calm
<1> HIDE DEF y1
<1>6. Core(p) /\ Kept(y1, p)
  BY <1>1, <1>5, SetParametersCore
<1> HIDE DEF p
<1>7. Core(y2) /\ Kept(p, y2)
  BY <1>6, ArmCore, ArmFacts, Literals DEF Core, Calm
<1> HIDE DEF y2
<1>8. Core(y3) /\ Kept(y2, y3)
  <2>1. Core(arm_(y2, "feedback")) /\ Kept(y2, arm_(y2, "feedback"))
    BY <1>7, ArmCore, ArmFacts, Literals DEF Core, Calm
  <2>2. Core(sendRequest_(y2, "POST")) /\ Kept(y2, sendRequest_(y2, "POST"))
    BY <1>7, SendCore, SendRequestFacts, Literals DEF Core, Calm
  <2>3. QED
    BY <2>1, <2>2
<1> HIDE DEF y3
<1>9. Core(z) /\ Kept(y3, z)
  BY <1>8, SendMetadataCore
<1> HIDE DEF z
<1>10. Kept(w, z)
  BY <1>3, <1>5, <1>6, <1>7, <1>8, <1>9 DEF Kept
<1>11. startStreaming_(x) = [z EXCEPT !.launched = Saturate(z.launched, 2)]
  <2>1. startStreaming_(x) = [z EXCEPT !.launched = Saturate(@, 2)]
    BY DEF startStreaming_, z, y3, y2, p, y1, d, w, n
  <2>2. QED
    BY <1>9, <2>1 DEF Core, Session
<1>12. Saturate(z.launched, 2) \in 0..2
  BY <1>9 DEF Core, Session, Saturate
<1>13. Core(startStreaming_(x))
  <2>1. \A k \in 0..2 : Core([z EXCEPT !.launched = k])
    BY <1>9, DetailCore
  <2>2. QED
    BY <1>11, <1>12, <2>1
<1>14. /\ startStreaming_(x).launched = Saturate(z.launched, 2)
       /\ startStreaming_(x).closed = z.closed /\ startStreaming_(x).state = z.state
       /\ startStreaming_(x).cfg = z.cfg /\ startStreaming_(x).authMethod = z.authMethod
       /\ startStreaming_(x).ap2 = z.ap2 /\ startStreaming_(x).proved = z.proved
       /\ startStreaming_(x).controlEncrypted = z.controlEncrypted
       /\ startStreaming_(x).waitingForPin = z.waitingForPin
       /\ startStreaming_(x).session = z.session /\ startStreaming_(x).asked = z.asked
  BY <1>9, <1>11 DEF Core, Session
<1>15. QED
  BY <1>2, <1>10, <1>13, <1>14 DEF Kept

\* startStreaming_ from a starting session is the one call that launches it.
LEMMA LaunchReacts ==
    ASSUME NEW x, Core(x), x.ctl = "open", x.state # "Streaming"
    PROVE  Reacts(x, startStreaming_(x))
<1>1. x \in Session /\ Paired(x) /\ x.due \subseteq x.armed /\ x.udpBound
      /\ x.state \in Starting
  BY DEF Core, Timed, Connected, Session, States, Starting
<1>2. QED
  BY <1>1, StartStreamingFacts DEF Reacts, Launched

\* M3 goes out, or the SRP parameters are refused and the session is lost.
LEMMA M3Reacts ==
    ASSUME NEW x, Core(x), NEW ok \in BOOLEAN
    PROVE  Reacts(x, sendPairSetupM3_(x, ok))
<1>1. Calm(x, httpPost_(x, "SetupM4"))
  BY SendCore, Literals
<1>2. Reacts(x, fail_(x))
  BY FailCore DEF Core
<1>3. QED
  BY <1>1, <1>2, CalmReacts DEF sendPairSetupM3_

\* While a session is starting, moving to another starting state with an open
\* connection is calm.
LEMMA StartingCore ==
    ASSUME NEW x, x \in Session, Watched(x), Timed(x), Paired(x),
           x.state \in Starting, x.ctl = "open", x.udpBound,
           NEW st \in {"Pairing", "Handshake"}
    PROVE  Calm(x, [x EXCEPT !.state = st])
<1> DEFINE y == [x EXCEPT !.state = st]
<1>1. y \in Session
  BY DEF Session, States
<1>2. /\ y.state = st /\ y.waitingForPin = x.waitingForPin
      /\ y.armed = x.armed /\ y.due = x.due
      /\ y.ctl = x.ctl /\ y.evt = x.evt /\ y.udpBound = x.udpBound /\ y.wire = x.wire
      /\ y.pendingMethods = x.pendingMethods /\ y.pendingIsHttp = x.pendingIsHttp
      /\ y.session = x.session /\ y.asked = x.asked
      /\ y.launched = x.launched /\ y.closed = x.closed
  BY DEF Session
<1> HIDE DEF y
<1>3. Core(y)
  BY <1>1, <1>2 DEF Core, Watched, Connected, Timed, Paired, Starting
<1>4. Quiet(x, y)
  BY <1>2 DEF Quiet, Starting
<1>5. QED
  BY <1>3, <1>4 DEF Calm, y

\* The authentication chain starts with a request or gives up.
LEMMA BeginAuthChainReacts ==
    ASSUME NEW x, x \in Session, Watched(x), Timed(x), Paired(x),
           x.state \in Starting, x.ctl = "open", x.udpBound
    PROVE  Reacts(x, beginAuthChain_(x))
<1> DEFINE h == [x EXCEPT !.state = "Handshake"]
           p == [x EXCEPT !.state = "Pairing"]
           f == newAp2(p, x.authMethod)
<1>1. Calm(x, h) /\ Calm(x, p)
  BY StartingCore
<1>2. x.authMethod \in Auths
  BY DEF Session
<1> HIDE DEF h, p
<1>3. Calm(p, f)
  BY <1>1, <1>2, DetailCore DEF Calm
<1> HIDE DEF f
<1>4. Reacts(x, sendRequest_(h, "OPTIONS"))
  BY <1>1, SendCore, Literals, CalmThen, CalmReacts DEF Calm
<1>5. Reacts(x, httpPost_(p, "AuthSetup"))
  BY <1>1, SendCore, Literals, CalmThen, CalmReacts DEF Calm
<1>6. Reacts(x, fail_(p))
  BY <1>1, FailCore, CalmThen DEF Calm, Core
<1>7. ASSUME NEW stage \in Stages
      PROVE  Reacts(x, httpPost_(f, stage))
  <2>1. Calm(f, httpPost_(f, stage))
    BY <1>3, SendCore DEF Calm
  <2>2. Calm(x, httpPost_(f, stage))
    BY <1>1, <1>3, <2>1, CalmThen
  <2>3. QED
    BY <2>2, CalmReacts
<1>8. CASE x.authMethod \in {"None", "Password"}
  BY <1>4, <1>8 DEF beginAuthChain_, h
<1>9. CASE x.authMethod = "AuthSetup"
  BY <1>5, <1>9 DEF beginAuthChain_, p
<1>10. CASE x.authMethod = "LegacyPin"
  BY <1>6, <1>10 DEF beginAuthChain_, p
<1>11. CASE x.authMethod = "HapTransient"
  BY <1>7, <1>11, Literals DEF beginAuthChain_, p, f
<1>12. CASE x.authMethod = "HapPin"
  BY <1>7, <1>12, Literals DEF beginAuthChain_, p, f
<1>13. QED
  BY <1>2, <1>8, <1>9, <1>10, <1>11, <1>12 DEF Auths

\* After pairing the set-up begins.
LEMMA AfterAuthOkReacts ==
    ASSUME NEW x, Core(x), x.state \in Starting, x.ctl = "open"
    PROVE  Reacts(x, afterAuthOk_(x))
<1> DEFINE y == [x EXCEPT !.digestRetried = FALSE, !.state = "Handshake"]
           e == y.controlEncrypted \/ x.ap2 \in {"transient", "verified"}
           z == [y EXCEPT !.controlEncrypted = e]
<1>1. x \in Session /\ Watched(x) /\ Timed(x) /\ Paired(x) /\ x.udpBound
  BY DEF Core, Connected, Starting
<1>2. Calm(x, y)
  <2> DEFINE h == [x EXCEPT !.state = "Handshake"]
  <2>1. Calm(x, h)
    BY <1>1, StartingCore
  <2>2. y \in Session
    BY <1>1 DEF Session, States
  <2>3. Framed(h, y) /\ y.launched = h.launched
    BY <1>1 DEF Session, Framed
  <2> HIDE DEF h, y
  <2>4. QED
    BY <2>1, <2>2, <2>3, FrameCore, CalmThen DEF Calm
<1> HIDE DEF y
<1>3. Calm(y, z)
  <2>0. e \in BOOLEAN
    OBVIOUS
  <2>1. y \in Session
    BY <1>2 DEF Calm, Core
  <2> HIDE DEF e
  <2>2. z \in Session
    BY <2>0, <2>1 DEF Session
  <2>3. Framed(y, z) /\ z.launched = y.launched
    BY <2>1 DEF Session, Framed
  <2> HIDE DEF z
  <2>4. QED
    BY <1>2, <2>2, <2>3, FrameCore DEF Calm
<1> HIDE DEF z
<1>4. Reacts(x, sendRequest_(y, "OPTIONS"))
  BY <1>2, SendCore, Literals, CalmThen, CalmReacts DEF Calm
<1>5. Reacts(x, sendAp2Rtsp_(z, "GET", "Ap2Info"))
  <2>1. Calm(z, sendAp2Rtsp_(z, "GET", "Ap2Info"))
    BY <1>3, SendCore, Literals DEF Calm
  <2>2. QED
    BY <1>2, <1>3, <2>1, CalmThen, CalmReacts
<1>6. afterAuthOk_(x) = IF ~x.cfg.airplay2 THEN sendRequest_(y, "OPTIONS")
                        ELSE sendAp2Rtsp_(z, "GET", "Ap2Info")
  <2>1. y = [x EXCEPT !.digestRetried = FALSE, !.state = "Handshake"]
    BY DEF y
  <2>2. z = [y EXCEPT !.controlEncrypted = @ \/ x.ap2 \in {"transient", "verified"}]
    BY <1>2 DEF z, Calm, Core, Session
  <2>3. QED
    BY <2>1, <2>2 DEF afterAuthOk_
<1>7. QED
  BY <1>4, <1>5, <1>6

\* How a session begins: live and connecting, or without its sockets and over.
Begun(y) ==
    /\ y.closed = 0 /\ y.asked = FALSE
    /\ \/ y.session = "live" /\ y.state = "Connecting" /\ y.launched = 0
       \/ y.session = "bindFailed" /\ y.state = "Idle" /\ y.launched = 1

\* The fields start() sets keep their types.
LEMMA FieldTypes ==
    ASSUME NEW x \in Session
    PROVE  /\ [x EXCEPT !.proved = FALSE] \in Session
           /\ [x EXCEPT !.asked = FALSE] \in Session
           /\ [x EXCEPT !.requests = 0] \in Session
           /\ [x EXCEPT !.feedbackRefused = FALSE] \in Session
           /\ [x EXCEPT !.pendingVolume = "none"] \in Session
           /\ [x EXCEPT !.ap2 = "null"] \in Session
           /\ [x EXCEPT !.waitingForPin = FALSE] \in Session
           /\ [x EXCEPT !.udpBound = TRUE] \in Session
           /\ [x EXCEPT !.rtspConnected = FALSE] \in Session
           /\ [x EXCEPT !.ctl = "connecting"] \in Session
           /\ [x EXCEPT !.state = "Connecting"] \in Session
           /\ \A n \in 0..2 : [x EXCEPT !.closed = n] \in Session
           /\ \A n \in 0..2 : [x EXCEPT !.launched = n] \in Session
           /\ \A n \in {0, 1} : [x EXCEPT !.gen = n] \in Session
           /\ \A n \in {"none", "bindFailed", "live"} : [x EXCEPT !.session = n] \in Session
           /\ \A n \in Stages : [x EXCEPT !.pairStage = n] \in Session
<1>1. [x EXCEPT !.proved = FALSE] \in Session
  BY DEF Session
<1>2. [x EXCEPT !.asked = FALSE] \in Session
  BY DEF Session
<1>3. [x EXCEPT !.requests = 0] \in Session
  BY DEF Session
<1>4. [x EXCEPT !.feedbackRefused = FALSE] \in Session
  BY DEF Session
<1>5. [x EXCEPT !.pendingVolume = "none"] \in Session
  BY DEF Session
<1>6. [x EXCEPT !.ap2 = "null"] \in Session
  BY DEF Session
<1>7. [x EXCEPT !.waitingForPin = FALSE] \in Session
  BY DEF Session
<1>8. [x EXCEPT !.udpBound = TRUE] \in Session
  BY DEF Session
<1>9. [x EXCEPT !.rtspConnected = FALSE] \in Session
  BY DEF Session
<1>10. [x EXCEPT !.ctl = "connecting"] \in Session
  BY DEF Session
<1>11. [x EXCEPT !.state = "Connecting"] \in Session
  BY DEF Session, States
<1>12. \A n \in 0..2 : [x EXCEPT !.closed = n] \in Session
  BY DEF Session
<1>13. \A n \in 0..2 : [x EXCEPT !.launched = n] \in Session
  BY DEF Session
<1>14. \A n \in {0, 1} : [x EXCEPT !.gen = n] \in Session
  BY DEF Session
<1>15. \A n \in {"none", "bindFailed", "live"} : [x EXCEPT !.session = n] \in Session
  BY DEF Session
<1>16. \A n \in Stages : [x EXCEPT !.pairStage = n] \in Session
  BY DEF Session
<1>17. QED
  BY <1>1, <1>2, <1>3, <1>4, <1>5, <1>6, <1>7, <1>8,
     <1>9, <1>10, <1>11, <1>12, <1>13, <1>14, <1>15, <1>16

\* start() on a record whose session is over: the reset keeps sockets and timers.
LEMMA ResetFacts ==
    ASSUME NEW y \in Session
    PROVE  LET r == resetProtocol(y)
           IN  /\ r \in Session
               /\ r.state = y.state /\ r.ctl = y.ctl /\ r.evt = y.evt /\ r.wire = y.wire
               /\ r.armed = y.armed /\ r.due = y.due /\ r.waitingForPin = FALSE
               /\ r.pendingMethods = <<>> /\ r.pendingIsHttp = <<>> /\ r.gen = y.gen
<1> DEFINE a == [y EXCEPT !.controlEncrypted = FALSE, !.pendingMethods = <<>>,
                          !.pendingIsHttp = <<>>, !.rtspSession = FALSE]
           b == [a EXCEPT !.pendingVolume = "none", !.ap2 = "null", !.pairStage = "None",
                          !.waitingForPin = FALSE]
           c == [b EXCEPT !.triedTransientAfterPin403 = FALSE,
                          !.digestNonce = FALSE, !.digestRetried = FALSE]
<1>1. resetProtocol(y) = c
  BY Zenon DEF resetProtocol
<1>2. <<>> \in Seq(Methods) /\ <<>> \in Seq(BOOLEAN) /\ "None" \in Stages
  BY Literals
<1>3. a \in Session
  <2>1. ASSUME NEW pm \in Seq(Methods), NEW ph \in Seq(BOOLEAN)
        PROVE  [y EXCEPT !.controlEncrypted = FALSE, !.pendingMethods = pm,
                         !.pendingIsHttp = ph, !.rtspSession = FALSE] \in Session
    BY DEF Session
  <2>2. QED
    BY <1>2, <2>1
<1>4. /\ a.state = y.state /\ a.ctl = y.ctl /\ a.evt = y.evt
      /\ a.wire = y.wire /\ a.armed = y.armed /\ a.due = y.due
      /\ a.waitingForPin = y.waitingForPin /\ a.pendingMethods = <<>> /\ a.pendingIsHttp = <<>>
      /\ a.gen = y.gen
  BY DEF Session
<1> HIDE DEF a
<1>5. b \in Session
  <2> DEFINE v1 == [a EXCEPT !.pendingVolume = "none"]
             v2 == [v1 EXCEPT !.ap2 = "null"]
             v3 == [v2 EXCEPT !.pairStage = "None"]
  <2>1. v1 \in Session
    BY <1>3, FieldTypes
  <2> HIDE DEF v1
  <2>2. v2 \in Session
    BY <2>1, FieldTypes
  <2> HIDE DEF v2
  <2>3. v3 \in Session
    BY <1>2, <2>2, FieldTypes
  <2> HIDE DEF v3
  <2>4. [v3 EXCEPT !.waitingForPin = FALSE] \in Session
    BY <2>3, FieldTypes
  <2>5. QED
    BY <2>4, Zenon DEF v3, v2, v1
<1>6. /\ b.state = a.state /\ b.ctl = a.ctl /\ b.evt = a.evt
      /\ b.wire = a.wire /\ b.armed = a.armed /\ b.due = a.due
      /\ b.waitingForPin = FALSE /\ b.pendingMethods = a.pendingMethods /\ b.pendingIsHttp = a.pendingIsHttp
      /\ b.gen = a.gen
  BY <1>3 DEF Session
<1> HIDE DEF b
<1>7. c \in Session
  BY <1>5 DEF Session
<1>8. /\ c.state = b.state /\ c.ctl = b.ctl /\ c.evt = b.evt
      /\ c.wire = b.wire /\ c.armed = b.armed /\ c.due = b.due
      /\ c.waitingForPin = b.waitingForPin /\ c.pendingMethods = b.pendingMethods /\ c.pendingIsHttp = b.pendingIsHttp
      /\ c.gen = b.gen
  BY <1>5 DEF Session
<1> HIDE DEF c
<1>9. QED
  BY <1>1, <1>4, <1>6, <1>7, <1>8

\* Beginning the history of a session.
LEMMA HistoryFacts ==
    ASSUME NEW r \in Session, NEW bindOk \in BOOLEAN
    PROVE  LET z == newHistory(r, bindOk)
           IN  /\ z \in Session
               /\ z.state = r.state /\ z.ctl = r.ctl /\ z.evt = r.evt /\ z.wire = r.wire
               /\ z.armed = r.armed /\ z.due = r.due /\ z.waitingForPin = r.waitingForPin
               /\ z.pendingMethods = r.pendingMethods /\ z.pendingIsHttp = r.pendingIsHttp
               /\ z.asked = FALSE /\ z.closed = 0
               /\ z.session = IF bindOk THEN "live" ELSE "bindFailed"
               /\ z.launched = IF bindOk THEN 0 ELSE 1
<1> DEFINE se == IF bindOk THEN "live" ELSE "bindFailed"
           l  == IF bindOk THEN 0 ELSE 1
           a == [r EXCEPT !.proved = FALSE, !.asked = FALSE, !.closed = 0]
           b == [a EXCEPT !.requests = 0, !.feedbackRefused = FALSE, !.gen = 1 - @]
           z == [b EXCEPT !.session = se, !.launched = l]
<1>1. newHistory(r, bindOk) = z
  BY Zenon DEF newHistory
<1>2. se \in {"none", "bindFailed", "live"} /\ l \in 0..2
  OBVIOUS
<1> HIDE DEF se, l
<1>3. a \in Session
  <2> DEFINE v1 == [r EXCEPT !.proved = FALSE]
             v2 == [v1 EXCEPT !.asked = FALSE]
  <2>1. v1 \in Session
    BY FieldTypes
  <2> HIDE DEF v1
  <2>2. v2 \in Session
    BY <2>1, FieldTypes
  <2> HIDE DEF v2
  <2>3. [v2 EXCEPT !.closed = 0] \in Session
    <3>1. \A n \in 0..2 : [v2 EXCEPT !.closed = n] \in Session
      BY <2>2, FieldTypes
    <3>2. 0 \in 0..2
      OBVIOUS
    <3>3. QED
      BY <3>1, <3>2
  <2>4. QED
    BY <2>3, Zenon DEF v2, v1
<1>4. /\ a.asked = FALSE /\ a.closed = 0
      /\ a.state = r.state /\ a.ctl = r.ctl /\ a.evt = r.evt
      /\ a.wire = r.wire /\ a.armed = r.armed /\ a.due = r.due
      /\ a.waitingForPin = r.waitingForPin /\ a.pendingMethods = r.pendingMethods /\ a.pendingIsHttp = r.pendingIsHttp
      /\ a.gen = r.gen
  BY DEF Session
<1> HIDE DEF a
<1>5. b \in Session
  <2>1. 1 - a.gen \in {0, 1}
    BY <1>3 DEF Session
  <2>2. ASSUME NEW g \in {0, 1}
        PROVE  [a EXCEPT !.requests = 0, !.feedbackRefused = FALSE, !.gen = g] \in Session
    BY <1>3 DEF Session
  <2>3. b = [a EXCEPT !.requests = 0, !.feedbackRefused = FALSE, !.gen = 1 - a.gen]
    BY <1>3 DEF Session
  <2>4. QED
    BY <2>1, <2>2, <2>3
<1>6. /\ b.asked = a.asked /\ b.closed = a.closed
      /\ b.state = a.state /\ b.ctl = a.ctl /\ b.evt = a.evt
      /\ b.wire = a.wire /\ b.armed = a.armed /\ b.due = a.due
      /\ b.waitingForPin = a.waitingForPin /\ b.pendingMethods = a.pendingMethods /\ b.pendingIsHttp = a.pendingIsHttp
  BY <1>3 DEF Session
<1> HIDE DEF b
<1>7. z \in Session
  <2> DEFINE v1 == [b EXCEPT !.session = se]
  <2>1. v1 \in Session
    BY <1>2, <1>5, FieldTypes
  <2> HIDE DEF v1
  <2>2. [v1 EXCEPT !.launched = l] \in Session
    BY <1>2, <2>1, FieldTypes
  <2>3. QED
    BY <2>2, Zenon DEF v1
<1>8. /\ z.asked = b.asked /\ z.closed = b.closed /\ z.session = se /\ z.launched = l
      /\ z.state = b.state /\ z.ctl = b.ctl /\ z.evt = b.evt
      /\ z.wire = b.wire /\ z.armed = b.armed /\ z.due = b.due
      /\ z.waitingForPin = b.waitingForPin /\ z.pendingMethods = b.pendingMethods /\ z.pendingIsHttp = b.pendingIsHttp
      /\ z.gen = b.gen
  BY <1>5 DEF Session
<1> HIDE DEF z
<1>9. QED
  BY <1>1, <1>4, <1>6, <1>7, <1>8 DEF se, l

\* start() keeps the core and begins a session.
LEMMA StartFacts ==
    ASSUME NEW x, Core(x), NEW bindOk \in BOOLEAN
    PROVE  Core(start(x, bindOk)) /\ Begun(start(x, bindOk))
<1> DEFINE y == stop(x)
           r == resetProtocol(y)
           z == newHistory(r, bindOk)
           live == [z EXCEPT !.udpBound = TRUE, !.state = "Connecting",
                             !.rtspConnected = FALSE, !.ctl = "connecting"]
           dead == releaseSockets_([z EXCEPT !.udpBound = TRUE])
<1>1. Core(y) /\ y.state = "Idle"
  BY StopCore
<1>2. y \in Session /\ y.ctl = "closed" /\ y.evt = "closed" /\ y.wire = <<>> /\ Timed(y)
  BY <1>1 DEF Core, Connected
<1> HIDE DEF y
<1>3. /\ r \in Session
      /\ r.state = "Idle" /\ r.ctl = "closed" /\ r.evt = "closed" /\ r.wire = <<>>
      /\ r.armed = y.armed /\ r.due = y.due /\ r.waitingForPin = FALSE
      /\ r.pendingMethods = <<>> /\ r.pendingIsHttp = <<>>
  BY <1>1, <1>2, ResetFacts
<1> HIDE DEF r
<1>4. /\ z \in Session
      /\ z.state = "Idle" /\ z.ctl = "closed" /\ z.evt = "closed" /\ z.wire = <<>>
      /\ z.armed = y.armed /\ z.due = y.due /\ z.waitingForPin = FALSE
      /\ z.pendingMethods = <<>> /\ z.pendingIsHttp = <<>>
      /\ z.asked = FALSE /\ z.closed = 0
      /\ z.session = IF bindOk THEN "live" ELSE "bindFailed"
      /\ z.launched = IF bindOk THEN 0 ELSE 1
  BY <1>3, HistoryFacts
<1> HIDE DEF z
<1>5. CASE bindOk
  <2>1. live \in Session
    <3> DEFINE v1 == [z EXCEPT !.udpBound = TRUE]
               v2 == [v1 EXCEPT !.state = "Connecting"]
               v3 == [v2 EXCEPT !.rtspConnected = FALSE]
    <3>1. v1 \in Session
      BY <1>4, FieldTypes
    <3> HIDE DEF v1
    <3>2. v2 \in Session
      BY <3>1, FieldTypes
    <3> HIDE DEF v2
    <3>3. v3 \in Session
      BY <3>2, FieldTypes
    <3> HIDE DEF v3
    <3>4. [v3 EXCEPT !.ctl = "connecting"] \in Session
      BY <3>3, FieldTypes
    <3>5. QED
      BY <3>4, Zenon DEF v3, v2, v1
  <2>2. /\ live.state = "Connecting" /\ live.ctl = "connecting" /\ live.udpBound
        /\ live.wire = <<>> /\ live.waitingForPin = FALSE
        /\ live.armed = z.armed /\ live.due = z.due
        /\ live.pendingMethods = z.pendingMethods /\ live.pendingIsHttp = z.pendingIsHttp
        /\ live.asked = z.asked /\ live.closed = z.closed
        /\ live.session = z.session /\ live.launched = z.launched
    BY <1>4 DEF Session
  <2> HIDE DEF live
  <2> DEFINE a == arm_(live, "timeout")
  <2>3. a \in Session /\ Kept(live, a) /\ a.armed = live.armed \cup {"timeout"}
    BY <2>1, ArmFacts, Literals
  <2>4. start(x, bindOk) = a
    BY <1>5 DEF start, live, z, r, y
  <2> HIDE DEF a
  <2>5. Paired(a) /\ a.due \subseteq a.armed
    <3>1. Paired(live) /\ live.due \subseteq live.armed
      BY <1>2, <1>4, <2>2 DEF Paired, Timed
    <3>2. QED
      BY <2>3, <3>1 DEF Kept
  <2>6. Core(a)
    BY <2>2, <2>3, <2>5 DEF Core, Watched, Connected, Timed, Kept
  <2>7. Begun(a)
    BY <1>4, <1>5, <2>2, <2>3 DEF Begun, Kept
  <2>8. QED
    BY <2>4, <2>6, <2>7
<1>6. CASE ~bindOk
  <2>1. dead \in Session
    <3>1. [z EXCEPT !.udpBound = TRUE] \in Session
      BY <1>4, FieldTypes
    <3>2. QED
      BY <3>1, EndTypes
  <2>2. /\ dead.state = "Idle" /\ dead.ctl = "closed" /\ dead.evt = "closed"
        /\ ~dead.udpBound /\ dead.wire = <<>> /\ dead.waitingForPin = FALSE
        /\ dead.armed = z.armed /\ dead.due = z.due
        /\ dead.pendingMethods = z.pendingMethods /\ dead.pendingIsHttp = z.pendingIsHttp
        /\ dead.asked = z.asked /\ dead.closed = z.closed
        /\ dead.session = z.session /\ dead.launched = z.launched
    BY <1>4 DEF Session, releaseSockets_
  <2>3. start(x, bindOk) = dead
    BY <1>6 DEF start, z, r, y
  <2> HIDE DEF dead
  <2>4. Core(dead)
    <3>1. Paired(dead) /\ Timed(dead)
      BY <1>1, <1>2, <1>4, <2>2 DEF Paired, Timed
    <3>2. QED
      BY <2>1, <2>2, <3>1 DEF Core, Watched, Connected, Starting
  <2>5. Begun(dead)
    BY <1>4, <1>6, <2>2 DEF Begun
  <2>6. QED
    BY <2>3, <2>4, <2>5
<1>7. QED
  BY <1>5, <1>6

----------------------------------------------------------------------------
(* One step per action. *)

Halted(x, y) ==
    /\ x.state # "Idle" /\ y.state = "Idle" /\ y.asked = TRUE
    /\ y.session = x.session /\ y.launched = x.launched /\ y.closed = x.closed

\* The five ways a step can look to the host.  Only a PIN that is submitted late
\* can lose a session that is over.
Steps(x, y) ==
    /\ Core(y)
    /\ \/ Quiet(x, y)
       \/ Lost(x, y) /\ (x.state # "Idle" \/ PinAfterEnd)
       \/ Launched(x, y)
       \/ Halted(x, y)
       \/ Begun(y)

\* A handler of a live session that reacts makes a step of the case analysis.
LEMMA LiveSteps ==
    ASSUME NEW x, NEW y
    PROVE  /\ Calm(x, y) => Steps(x, y)
           /\ x.state # "Idle" /\ Reacts(x, y) => Steps(x, y)
BY DEF Calm, Reacts, Steps

\* A reply is only read from an open connection, and taking it off the FIFOs is
\* calm.
LEMMA ReplyFacts ==
    ASSUME NEW src \in Sources, Core(s), Replying(src), NEW keyed \in BOOLEAN
    PROVE  LET y == popFront(s, src, keyed)
           IN  /\ s.state # "Idle" /\ s.state # "Connecting"
               /\ Calm(s, y) /\ Kept(s, y) /\ y.ctl = "open" /\ y.state = s.state
               /\ y.armed = s.armed
<1>1. s.ctl = "open" /\ s.pendingMethods # <<>> /\ (src = "answer" => s.wire # <<>>)
  BY DEF Replying
<1>2. s.state # "Idle" /\ s.state # "Connecting"
  BY <1>1 DEF Core, Connected
<1>3. QED
  BY <1>1, <1>2, PopFacts DEF Kept

\* What the host application calls.
LEMMA HostSteps ==
    ASSUME Core(s), Host
    PROVE  Steps(s, s')
<1>0. s \in Session
  BY DEF Core
<1>1. ASSUME NEW c \in Configs, SetAuth(c)
      PROVE  Steps(s, s')
  <2>1. c \in Config /\ c.auth \in Auths
    BY ConfigsAssumption DEF Config
  <2>2. s' \in Session
    BY <1>0, <1>1, <2>1 DEF SetAuth, Session
  <2>3. Framed(s, s') /\ s'.launched = s.launched
    BY <1>0, <1>1 DEF SetAuth, Session, Framed
  <2>4. QED
    BY <2>2, <2>3, FrameCore, LiveSteps
<1>2. ASSUME NEW ok \in BOOLEAN, Start(ok)
      PROVE  Steps(s, s')
  BY <1>2, StartFacts DEF Start, Steps
<1>3. ASSUME NEW ok \in BOOLEAN, SubmitPin(ok)
      PROVE  Steps(s, s')
  <2> DEFINE w == [s EXCEPT !.waitingForPin = FALSE]
             d == disarm_(w, "pinTimeout")
             a == arm_(d, "timeout")
  <2>1. w \in Session
    BY <1>0, FieldTypes
  <2>2. /\ w.state = s.state /\ w.waitingForPin = FALSE /\ w.armed = s.armed
        /\ w.ctl = s.ctl /\ w.evt = s.evt /\ w.udpBound = s.udpBound /\ w.wire = s.wire
        /\ w.session = s.session /\ w.asked = s.asked
        /\ w.launched = s.launched /\ w.closed = s.closed
        /\ Paired(w) /\ w.due \subseteq w.armed /\ Connected(w)
    BY <1>0 DEF Core, Session, Paired, Timed, Connected
  <2> HIDE DEF w
  <2>3. d \in Session /\ Kept(w, d) /\ d.armed = w.armed \ {"pinTimeout"}
    BY <2>1, ArmFacts, Literals
  <2> HIDE DEF d
  <2>4. a \in Session /\ Kept(d, a) /\ a.armed = d.armed \cup {"timeout"}
    BY <2>3, ArmFacts, Literals
  <2>5. s' = sendPairSetupM3_(a, ok) /\ (s.state # "Idle" \/ PinAfterEnd)
    BY <1>3 DEF SubmitPin, a, d, w
  <2> HIDE DEF a
  <2>6. Core(a)
    <3>1. Paired(a) /\ a.due \subseteq a.armed
      BY <2>2, <2>3, <2>4 DEF Kept
    <3>2. Connected(a)
      BY <2>2, <2>3, <2>4 DEF Kept, Connected
    <3>3. QED
      BY <2>2, <2>3, <2>4, <3>1, <3>2 DEF Core, Watched, Timed, Kept
  <2>7. Calm(s, a)
    <3>1. Quiet(s, a)
      BY <2>2, <2>3, <2>4 DEF Quiet, Kept
    <3>2. QED
      BY <2>6, <3>1 DEF Calm
  <2>8. Reacts(s, s')
    BY <2>5, <2>6, <2>7, M3Reacts, CalmThen
  <2>9. QED
    BY <2>5, <2>8 DEF Reacts, Steps
<1>4. CASE Stop
  <2>1. s.state # "Idle" /\ s' = stop(s)
    BY <1>4 DEF Stop
  <2>2. Core(s')
    BY <2>1, StopCore
  <2>3. Halted(s, s')
    BY <1>0, <2>1, StopFacts DEF Halted, KeptAtEnd, Ended
  <2>4. QED
    BY <2>2, <2>3 DEF Steps
<1>5. CASE SetVolume
  <2> DEFINE y == [s EXCEPT !.pendingVolume = "user"]
  <2>1. Calm(s, y)
    BY DetailCore
  <2>2. s' = IF s.state = "Streaming" THEN sendRequest_(y, "SET_PARAMETER") ELSE y
    BY <1>5 DEF SetVolume
  <2> HIDE DEF y
  <2>3. Calm(s, sendRequest_(y, "SET_PARAMETER"))
    BY <2>1, SendCore, Literals, CalmThen DEF Calm
  <2>4. QED
    BY <2>1, <2>2, <2>3, LiveSteps
<1>6. ASSUME NEW n \in 0..2, SetNowPlaying(n)
      PROVE  Steps(s, s')
  <2> DEFINE y == [s EXCEPT !.nowPlaying = n]
  <2>1. Calm(s, y)
    BY DetailCore
  <2>2. s' = IF s.state = "Streaming" THEN sendMetadata_(y) ELSE y
    BY <1>6 DEF SetNowPlaying
  <2> HIDE DEF y
  <2>3. Calm(y, sendMetadata_(y))
    BY <2>1, SendMetadataCore, KeptQuiet DEF Calm
  <2>4. QED
    BY <2>1, <2>2, <2>3, CalmThen, LiveSteps
<1>7. QED
  BY <1>1, <1>2, <1>3, <1>4, <1>5, <1>6 DEF Host

\* Timers.
LEMMA TickSteps ==
    ASSUME Core(s), Tick
    PROVE  Steps(s, s')
<1>0. s \in Session /\ Watched(s) /\ Connected(s) /\ Timed(s) /\ Paired(s)
  BY DEF Core
<1>1. ASSUME NEW t \in {"timeout", "pinTimeout", "feedback"}, TimePasses(t)
      PROVE  Steps(s, s')
  <2>1. t \in s.armed /\ s' = [s EXCEPT !.due = s.due \cup {t}]
    BY <1>0, <1>1 DEF TimePasses, Session
  <2>2. s.due \cup {t} \subseteq s.armed /\ s.due \cup {t} \in SUBSET Timers
    BY <1>0, <2>1 DEF Timed, Session
  <2>3. s' \in Session
    <3>1. ASSUME NEW d \in SUBSET Timers
          PROVE  [s EXCEPT !.due = d] \in Session
      BY <1>0 DEF Session
    <3>2. QED
      BY <2>1, <2>2, <3>1
  <2>4. Kept(s, s') /\ s'.armed = s.armed
    BY <1>0, <2>1, <2>2 DEF Session, Kept, Paired
  <2>5. QED
    BY <2>3, <2>4, KeptCore, KeptQuiet, LiveSteps DEF Calm
<1>2. CASE onHandshakeTimeout_
  <2> DEFINE y == disarm_(s, "timeout")
  <2>1. y \in Session /\ Kept(s, y) /\ y.armed = s.armed \ {"timeout"}
    BY <1>0, ArmFacts, Literals
  <2>2. s' = IF ~y.waitingForPin /\ y.state \in Starting THEN fail_(y) ELSE y
    BY <1>2 DEF onHandshakeTimeout_
  <2> HIDE DEF y
  <2>3. CASE ~y.waitingForPin /\ y.state \in Starting
    <3>2. Quiet(s, y) /\ s.state # "Idle"
      BY <2>1, <2>3, KeptQuiet DEF Kept, Starting
    <3>3. Lost(s, s') /\ Core(s')
      <4>1. s' = fail_(y) /\ y \in Session /\ Paired(y)
        BY <1>0, <2>1, <2>2, <2>3 DEF Kept
      <4>2. Core(s')
        BY <4>1, FailCore DEF Reacts
      <4>3. Lost(y, s')
        BY <4>1, FailFacts DEF Lost, KeptAtEnd, Ended
      <4>4. QED
        BY <2>1, <4>2, <4>3 DEF Kept, Lost
    <3>4. QED
      BY <3>2, <3>3 DEF Steps
  <2>4. CASE ~(~y.waitingForPin /\ y.state \in Starting)
    <3>1. y.state = s.state /\ y.waitingForPin = s.waitingForPin
          /\ Paired(y) /\ y.due \subseteq y.armed
      BY <1>0, <2>1 DEF Kept, Timed
    <3>2. Watched(y) /\ Timed(y)
      BY <1>0, <2>1, <2>4, <3>1 DEF Watched, Timed
    <3>3. Connected(y)
      BY <1>0, <2>1 DEF Connected, Kept
    <3>4. Core(y)
      BY <2>1, <3>1, <3>2, <3>3 DEF Core
    <3>5. QED
      BY <2>1, <2>2, <2>4, <3>4, KeptQuiet, LiveSteps DEF Calm
  <2>5. QED
    BY <2>3, <2>4
<1>3. CASE onPinTimeout_
  <2> DEFINE y == disarm_(s, "pinTimeout")
             w == [y EXCEPT !.waitingForPin = FALSE]
  <2>1. y \in Session /\ Kept(s, y) /\ y.armed = s.armed \ {"pinTimeout"}
    BY <1>0, ArmFacts, Literals
  <2>2. s' = (IF y.waitingForPin THEN fail_(w) ELSE y) /\ "pinTimeout" \in s.due
    BY <1>3 DEF onPinTimeout_
  <2>3. s.state # "Idle"
    BY <1>0, <2>2 DEF Timed
  <2> HIDE DEF y
  <2>4. CASE y.waitingForPin
    <3>1. w \in Session
      BY <2>1, FieldTypes
    <3>2. /\ w.state = y.state /\ w.session = y.session /\ w.asked = y.asked
          /\ w.launched = y.launched /\ w.closed = y.closed
          /\ w.pendingMethods = y.pendingMethods /\ w.pendingIsHttp = y.pendingIsHttp
      BY <2>1 DEF Session
    <3> HIDE DEF w
    <3>3. Paired(w)
      BY <1>0, <2>1, <3>2 DEF Kept, Paired
    <3>4. Core(s')
      BY <2>2, <2>4, <3>1, <3>3, FailCore DEF Reacts
    <3>5. Lost(w, s')
      BY <2>2, <2>4, <3>1, FailFacts DEF Lost, KeptAtEnd, Ended
    <3>6. Lost(s, s')
      BY <2>1, <3>2, <3>5 DEF Kept, Lost
    <3>7. QED
      BY <2>3, <3>4, <3>6 DEF Steps
  <2>5. CASE ~y.waitingForPin
    <3>1. y.state = s.state /\ y.waitingForPin = s.waitingForPin
          /\ Paired(y) /\ y.due \subseteq y.armed
      BY <1>0, <2>1 DEF Kept, Timed
    <3>2. Watched(y) /\ Timed(y)
      BY <1>0, <2>1, <2>5, <3>1 DEF Watched, Timed
    <3>3. Connected(y)
      BY <1>0, <2>1 DEF Connected, Kept
    <3>4. Core(y)
      BY <2>1, <3>1, <3>2, <3>3 DEF Core
    <3>5. QED
      BY <2>1, <2>2, <2>5, <3>4, KeptQuiet, LiveSteps DEF Calm
  <2>6. QED
    BY <2>4, <2>5
<1>4. CASE onFeedbackTimer_
  <2> DEFINE y == arm_(s, "feedback")
  <2>1. Calm(s, y)
    BY ArmCore, Literals
  <2>2. s' \in {y, writeRtsp_(y, "FEEDBACK", "None"), sendRequest_(y, "POST")}
    BY <1>4 DEF onFeedbackTimer_
  <2> HIDE DEF y
  <2>3. Calm(y, writeRtsp_(y, "FEEDBACK", "None")) /\ Calm(y, sendRequest_(y, "POST"))
    BY <2>1, SendCore, Literals DEF Calm
  <2>4. QED
    BY <2>1, <2>2, <2>3, CalmThen, LiveSteps
<1>5. QED
  BY <1>1, <1>2, <1>3, <1>4 DEF Tick

\* The sockets.
LEMMA SocketSteps ==
    ASSUME Core(s), Sockets
    PROVE  Steps(s, s')
<1>0. s \in Session /\ Watched(s) /\ Connected(s) /\ Timed(s) /\ Paired(s)
  BY DEF Core
<1>a. s.ctl # "closed" => s.state # "Idle"
  BY <1>0 DEF Connected
<1>b. Reacts(s, fail_(s)) /\ Reacts(s, closedByPeer(s))
  BY <1>0, FailCore
<1>1. CASE OnTcpConnected
  <2> DEFINE w == [s EXCEPT !.ctl = "open", !.rtspConnected = TRUE]
  <2>1. s.state = "Connecting" /\ s.ctl = "connecting" /\ s' = beginAuthChain_(w)
    BY <1>1 DEF OnTcpConnected
  <2>2. w \in Session
    BY <1>0 DEF Session
  <2>3. /\ w.state = s.state /\ w.waitingForPin = s.waitingForPin
        /\ w.armed = s.armed /\ w.due = s.due /\ w.ctl = "open"
        /\ w.udpBound = s.udpBound
        /\ w.pendingMethods = s.pendingMethods /\ w.pendingIsHttp = s.pendingIsHttp
        /\ w.session = s.session /\ w.asked = s.asked
        /\ w.launched = s.launched /\ w.closed = s.closed
    BY <1>0 DEF Session
  <2> HIDE DEF w
  <2>4. Watched(w) /\ Timed(w) /\ Paired(w) /\ w.udpBound /\ w.state \in Starting
    BY <1>0, <2>1, <2>3 DEF Watched, Timed, Paired, Connected, Starting
  <2>5. Reacts(w, s')
    BY <2>1, <2>2, <2>3, <2>4, BeginAuthChainReacts
  <2>6. Reacts(s, s')
    <3>1. Quiet(s, w)
      BY <2>3 DEF Quiet
    <3>2. Quiet(w, s') => Quiet(s, s')
      BY <3>1 DEF Quiet
    <3>3. Lost(w, s') => Lost(s, s')
      BY <3>1, <2>3 DEF Quiet, Lost
    <3>4. Launched(w, s') => Launched(s, s')
      BY <2>3 DEF Launched
    <3>5. QED
      BY <2>5, <3>2, <3>3, <3>4 DEF Reacts
  <2>7. QED
    BY <2>1, <2>6, LiveSteps
<1>2. CASE OnTcpConnectFailed
  BY <1>2, <1>b, LiveSteps DEF OnTcpConnectFailed
<1>3. ASSUME NEW reason \in {"fin", "error"}, OnTcpClosed(reason)
      PROVE  Steps(s, s')
  BY <1>3, <1>b, LiveSteps DEF OnTcpClosed
<1>4. CASE OnControlCorrupt
  BY <1>4, <1>a, <1>b, LiveSteps DEF OnControlCorrupt
<1>5. ASSUME NEW e \in {"open", "closed"}, s.evt # "closed", s' = [s EXCEPT !.evt = e]
      PROVE  Steps(s, s')
  <2>1. s' \in Session
    BY <1>0, <1>5 DEF Session
  <2>2. /\ s'.state = s.state /\ s'.waitingForPin = s.waitingForPin
        /\ s'.armed = s.armed /\ s'.due = s.due /\ s'.ctl = s.ctl
        /\ s'.udpBound = s.udpBound /\ s'.wire = s.wire
        /\ s'.pendingMethods = s.pendingMethods /\ s'.pendingIsHttp = s.pendingIsHttp
        /\ s'.session = s.session /\ s'.asked = s.asked
        /\ s'.launched = s.launched /\ s'.closed = s.closed
    BY <1>0, <1>5 DEF Session
  <2>3. s.state # "Idle"
    BY <1>0, <1>5 DEF Connected
  <2>4. Core(s')
    BY <1>0, <2>1, <2>2, <2>3 DEF Core, Watched, Connected, Timed, Paired
  <2>5. Quiet(s, s')
    BY <2>2 DEF Quiet
  <2>6. QED
    BY <2>4, <2>5 DEF Steps
<1>6. CASE OnEventConnected
  BY <1>5, <1>6 DEF OnEventConnected
<1>7. CASE OnEventClosed
  BY <1>5, <1>7 DEF OnEventClosed
<1>8. QED
  BY <1>1, <1>2, <1>3, <1>4, <1>6, <1>7 DEF Sockets

\* What may follow when a reply has been taken off the FIFOs.
LEMMA AfterPop ==
    ASSUME Core(s), NEW src \in Sources, Replying(src), NEW keyed \in BOOLEAN
    PROVE  LET y == popFront(s, src, keyed)
           IN  /\ Calm(s, y) /\ Core(y) /\ y.ctl = "open" /\ y.state = s.state
               /\ s.state # "Idle" /\ s.state # "Connecting"
               /\ \A z : Calm(y, z) \/ Reacts(y, z) => Steps(s, z)
               /\ \A m \in Methods : Calm(y, sendRequest_(y, m))
               /\ Reacts(y, fail_(y))
<1> DEFINE y == popFront(s, src, keyed)
<1>1. s.state # "Idle" /\ s.state # "Connecting"
      /\ Calm(s, y) /\ y.ctl = "open" /\ y.state = s.state
  BY ReplyFacts
<1> HIDE DEF y
<1>2. Core(y)
  BY <1>1 DEF Calm
<1>3. \A z : Calm(y, z) \/ Reacts(y, z) => Steps(s, z)
  BY <1>1, CalmThen, CalmReacts, LiveSteps
<1>4. (\A m \in Methods : Calm(y, sendRequest_(y, m))) /\ Reacts(y, fail_(y))
  BY <1>2, SendCore, FailCore DEF Core
<1>5. QED
  BY <1>1, <1>2, <1>3, <1>4 DEF y

\* Replies to RTSP requests.
LEMMA RtspSteps ==
    ASSUME Core(s), RtspReplies
    PROVE  Steps(s, s')
<1>0. s \in Session
  BY DEF Core
<1>1. CASE UnexpectedReply
  <2>1. s.ctl = "open" /\ s' = [s EXCEPT !.wire = Tail(s.wire)] /\ s.wire # <<>>
    BY <1>0, <1>1 DEF UnexpectedReply, Session
  <2>2. Tail(s.wire) \in Seq(Request)
    BY <1>0, <2>1, HeadTailProperties DEF Session
  <2>3. s' \in Session
    <3>1. ASSUME NEW w \in Seq(Request)
          PROVE  [s EXCEPT !.wire = w] \in Session
      BY <1>0 DEF Session
    <3>2. QED
      BY <2>1, <2>2, <3>1
  <2>4. Kept(s, s') /\ s'.armed = s.armed
    BY <1>0, <2>1 DEF Session, Kept, Paired
  <2>5. QED
    BY <2>3, <2>4, KeptCore, KeptQuiet, LiveSteps DEF Calm
<1>2. ASSUME NEW src \in Sources, Replying(src)
      PROVE  LET y == popFront(s, src, FALSE)
             IN  /\ Calm(s, y) /\ Core(y) /\ y.ctl = "open" /\ y.state = s.state
                 /\ \A z : Calm(y, z) \/ Reacts(y, z) => Steps(s, z)
                 /\ \A m \in Methods : Calm(y, sendRequest_(y, m))
                 /\ Reacts(y, fail_(y))
  BY <1>2, AfterPop
<1>3. ASSUME NEW src \in Sources, NEW code \in Codes, IgnoredReply(src, code)
      PROVE  Steps(s, s')
  BY <1>2, <1>3, LiveSteps DEF IgnoredReply
<1>4. ASSUME NEW src \in Sources, NEW code \in Codes, FeedbackReply(src, code)
      PROVE  Steps(s, s')
  <2> DEFINE y == popFront(s, src, FALSE)
             d == disarm_(y, "feedback")
  <2>1. Replying(src)
        /\ s' \in {y, arm_(y, "feedback"), [d EXCEPT !.feedbackRefused = TRUE]}
    BY <1>4 DEF FeedbackReply
  <2>2. Core(y) /\ Calm(s, y)
    BY <1>2, <2>1
  <2> HIDE DEF y
  <2>3. Calm(y, arm_(y, "feedback")) /\ Calm(y, d)
    BY <2>2, ArmCore, DisarmCore, Literals
  <2> HIDE DEF d
  <2>4. Calm(d, [d EXCEPT !.feedbackRefused = TRUE])
    BY <2>3, DetailCore DEF Calm
  <2>5. QED
    BY <2>1, <2>2, <2>3, <2>4, CalmThen, LiveSteps
<1>5. ASSUME NEW src \in Sources, NEW m \in HandshakeMethods, OnRefused(src, m)
      PROVE  Steps(s, s')
  BY <1>2, <1>5, LiveSteps DEF OnRefused, HandshakeReply
<1>6. ASSUME NEW src \in Sources, NEW m \in HandshakeMethods, NEW ok \in BOOLEAN,
             OnChallenge(src, m, ok)
      PROVE  Steps(s, s')
  <2> DEFINE y == popFront(s, src, FALSE)
             n == [y EXCEPT !.digestNonce = FALSE]
             q == [y EXCEPT !.digestNonce = TRUE, !.digestRetried = TRUE]
  <2>1. Replying(src) /\ s' \in {fail_(y), fail_(n), sendRequest_(q, m)} /\ m \in Methods
    BY <1>6, Literals DEF OnChallenge, HandshakeReply
  <2>2. Core(y) /\ (\A z : Calm(y, z) \/ Reacts(y, z) => Steps(s, z)) /\ Reacts(y, fail_(y))
    BY <1>2, <2>1
  <2> HIDE DEF y
  <2>3. Calm(y, n) /\ Calm(y, q)
    BY <2>2, DetailCore
  <2> HIDE DEF n, q
  <2>4. Calm(q, sendRequest_(q, m))
    BY <2>1, <2>3, SendCore DEF Calm
  <2>5. Reacts(n, fail_(n))
    BY <2>3, FailCore DEF Calm, Core
  <2>6. QED
    BY <2>1, <2>2, <2>3, <2>4, <2>5, CalmThen
<1>7. ASSUME NEW src \in Sources, OnOptionsOk(src)
      PROVE  Steps(s, s')
  BY <1>2, <1>7, Literals DEF OnOptionsOk, HandshakeReply
<1>8. ASSUME NEW src \in Sources, OnAnnounceOk(src)
      PROVE  Steps(s, s')
  BY <1>2, <1>8, Literals DEF OnAnnounceOk, HandshakeReply
<1>9. ASSUME NEW src \in Sources, NEW port \in BOOLEAN, OnSetupOk(src, port)
      PROVE  Steps(s, s')
  <2> DEFINE w == popFront(s, src, FALSE)
             y == [w EXCEPT !.rtspSession = TRUE]
  <2>1. Replying(src) /\ s' \in {fail_(y), sendRequest_(y, "RECORD")}
    BY <1>9 DEF OnSetupOk, HandshakeReply
  <2>2. Core(w) /\ \A z : Calm(w, z) \/ Reacts(w, z) => Steps(s, z)
    BY <1>2, <2>1
  <2> HIDE DEF w
  <2>3. Calm(w, y)
    BY <2>2, DetailCore
  <2> HIDE DEF y
  <2>4. Calm(y, sendRequest_(y, "RECORD")) /\ Reacts(y, fail_(y))
    BY <2>3, SendCore, FailCore, Literals DEF Calm, Core
  <2>5. QED
    BY <2>1, <2>2, <2>3, <2>4, CalmThen
<1>10. ASSUME NEW src \in Sources, OnRecordOk(src)
       PROVE  Steps(s, s')
  <2> DEFINE y == popFront(s, src, FALSE)
  <2>1. Replying(src) /\ s' = IF y.state = "Streaming" THEN y ELSE startStreaming_(y)
    BY <1>10 DEF OnRecordOk, HandshakeReply
  <2>2. Core(y) /\ y.ctl = "open" /\ Calm(s, y)
        /\ \A z : Calm(y, z) \/ Reacts(y, z) => Steps(s, z)
    BY <1>2, <2>1
  <2> HIDE DEF y
  <2>3. QED
    BY <2>1, <2>2, LaunchReacts, LiveSteps
<1>11. QED
  BY <1>1, <1>3, <1>4, <1>5, <1>6, <1>7, <1>8, <1>9, <1>10 DEF RtspReplies

\* Replies to pairing and set-up requests.
LEMMA PairingSteps ==
    ASSUME Core(s), PairingReplies
    PROVE  Steps(s, s')
<1>1. ASSUME NEW src \in Sources, NEW stage, PairingReply(src, stage), NEW keyed \in BOOLEAN
      PROVE  LET y == popFront(s, src, keyed)
             IN  /\ Calm(s, y) /\ Core(y) /\ y.ctl = "open"
                 /\ s.state # "Idle" /\ s.state # "Connecting"
                 /\ y.state \in Starting /\ y.state # "Idle" /\ y.state # "Connecting"
                 /\ \A z : Calm(y, z) \/ Reacts(y, z) => Steps(s, z)
                 /\ \A st \in Stages : Calm(y, httpPost_(y, st))
                 /\ \A m \in Methods, st \in Stages : Calm(y, sendAp2Rtsp_(y, m, st))
                 /\ Reacts(y, fail_(y))
  <2> DEFINE y == popFront(s, src, keyed)
  <2>1. Replying(src) /\ s.state \in Starting
    BY <1>1 DEF PairingReply
  <2>2. /\ Calm(s, y) /\ Core(y) /\ y.ctl = "open" /\ y.state = s.state
        /\ s.state # "Idle" /\ s.state # "Connecting"
        /\ \A z : Calm(y, z) \/ Reacts(y, z) => Steps(s, z)
        /\ Reacts(y, fail_(y))
    BY <2>1, AfterPop
  <2> HIDE DEF y
  <2>3. (\A st \in Stages : Calm(y, httpPost_(y, st)))
        /\ \A m \in Methods, st \in Stages : Calm(y, sendAp2Rtsp_(y, m, st))
    BY <2>2, SendCore
  <2>4. QED
    BY <2>1, <2>2, <2>3 DEF y
<1>2. ASSUME NEW src \in Sources, OnAuthSetupReply(src)
      PROVE  Steps(s, s')
  <2> DEFINE w == popFront(s, src, FALSE)
             y == [w EXCEPT !.pairStage = "Done"]
  <2>1. PairingReply(src, "AuthSetup") /\ s' = afterAuthOk_(y)
    BY <1>2 DEF OnAuthSetupReply
  <2>2. Core(w) /\ w.ctl = "open" /\ w.state \in Starting
        /\ \A z : Calm(w, z) \/ Reacts(w, z) => Steps(s, z)
    BY <1>1, <2>1
  <2> HIDE DEF w
  <2>3. Calm(w, y) /\ y.ctl = "open" /\ y.state \in Starting
    <3>1. Calm(w, y)
      BY <2>2, DetailCore, Literals
    <3>2. y.ctl = w.ctl /\ y.state = w.state
      BY <2>2 DEF Core, Session
    <3>3. QED
      BY <2>2, <3>1, <3>2
  <2> HIDE DEF y
  <2>4. Reacts(y, s')
    BY <2>1, <2>3, AfterAuthOkReacts DEF Calm
  <2>5. QED
    BY <2>2, <2>3, <2>4, CalmThen
<1>3. ASSUME NEW src \in Sources, OnAp2RecordReply(src)
      PROVE  Steps(s, s')
  BY <1>1, <1>3, Literals DEF OnAp2RecordReply
<1>4. ASSUME NEW src \in Sources, NEW stage \in Stages, NEW code \in Refusals,
             OnPairingRefused(src, stage, code)
      PROVE  Steps(s, s')
  <2> DEFINE y == popFront(s, src, FALSE)
             pin == newAp2(y, "HapPin")
             tri == [y EXCEPT !.triedTransientAfterPin403 = TRUE]
             tra == newAp2(tri, "HapTransient")
  <2>1. PairingReply(src, stage)
        /\ s' \in {httpPost_(pin, "PinStart"), httpPost_(tra, "SetupM2"), fail_(y)}
    BY <1>4 DEF OnPairingRefused
  <2>2. Core(y) /\ Reacts(y, fail_(y))
        /\ \A z : Calm(y, z) \/ Reacts(y, z) => Steps(s, z)
    BY <1>1, <2>1
  <2> HIDE DEF y
  <2>3. Calm(y, pin) /\ Calm(y, tri)
    BY <2>2, DetailCore, Literals
  <2> HIDE DEF tri
  <2>4. Calm(tri, tra)
    BY <2>3, DetailCore, Literals DEF Calm
  <2> HIDE DEF pin, tra
  <2>5. Calm(pin, httpPost_(pin, "PinStart")) /\ Calm(tra, httpPost_(tra, "SetupM2"))
    BY <2>3, <2>4, SendCore, Literals DEF Calm
  <2>6. Calm(y, httpPost_(pin, "PinStart")) /\ Calm(y, httpPost_(tra, "SetupM2"))
    BY <2>3, <2>4, <2>5, CalmThen
  <2>7. QED
    BY <2>1, <2>2, <2>6
<1>5. ASSUME NEW src \in Sources, OnPinStartOk(src)
      PROVE  Steps(s, s')
  BY <1>1, <1>5, Literals DEF OnPinStartOk
<1>6. ASSUME NEW src \in Sources, NEW body \in {"good", "error"}, NEW ok \in BOOLEAN,
             OnSetupM2(src, body, ok)
      PROVE  Steps(s, s')
  <2> DEFINE y == popFront(s, src, FALSE)
             w == [y EXCEPT !.waitingForPin = TRUE]
             d == disarm_(w, "timeout")
             a == arm_(d, "pinTimeout")
  <2>1. PairingReply(src, "SetupM2") /\ s' \in {fail_(y), sendPairSetupM3_(y, ok), a}
    BY <1>6 DEF OnSetupM2
  <2>2. Core(y) /\ Reacts(y, fail_(y)) /\ y.state # "Idle"
        /\ \A z : Calm(y, z) \/ Reacts(y, z) => Steps(s, z)
    BY <1>1, <2>1
  <2> HIDE DEF y
  <2>3. Reacts(y, sendPairSetupM3_(y, ok))
    BY <2>2, M3Reacts
  <2>4. y \in Session
    BY <2>2 DEF Core
  <2>5. w \in Session
    BY <2>4 DEF Session
  <2>6. /\ w.state = y.state /\ w.waitingForPin = TRUE /\ w.armed = y.armed
        /\ w.ctl = y.ctl /\ w.evt = y.evt /\ w.udpBound = y.udpBound /\ w.wire = y.wire
        /\ w.session = y.session /\ w.asked = y.asked
        /\ w.launched = y.launched /\ w.closed = y.closed
        /\ Paired(w) /\ w.due \subseteq w.armed /\ Connected(w)
    BY <2>2, <2>4 DEF Core, Session, Paired, Timed, Connected
  <2> HIDE DEF w
  <2>7. d \in Session /\ Kept(w, d) /\ d.armed = w.armed \ {"timeout"}
    BY <2>5, ArmFacts, Literals
  <2> HIDE DEF d
  <2>8. a \in Session /\ Kept(d, a) /\ a.armed = d.armed \cup {"pinTimeout"}
    BY <2>7, ArmFacts, Literals
  <2> HIDE DEF a
  <2>9. Core(a)
    <3>1. Paired(a) /\ a.due \subseteq a.armed
      BY <2>6, <2>7, <2>8 DEF Kept
    <3>2. Connected(a)
      BY <2>6, <2>7, <2>8 DEF Kept, Connected
    <3>3. QED
      BY <2>2, <2>6, <2>7, <2>8, <3>1, <3>2 DEF Core, Watched, Timed, Kept
  <2>10. Quiet(y, a)
    BY <2>6, <2>7, <2>8 DEF Quiet, Kept
  <2>11. QED
    BY <2>1, <2>2, <2>3, <2>9, <2>10 DEF Calm
<1>7. ASSUME NEW src \in Sources, NEW body \in {"good", "forged", "error"}, OnSetupM4(src, body)
      PROVE  Steps(s, s')
  <2> DEFINE keyed == s.authMethod = "HapTransient" /\ body # "error"
             y == popFront(s, src, keyed)
             b == body = "good"
             w == [y EXCEPT !.pairStage = "Done", !.ap2 = "transient", !.proved = b]
  <2>1. PairingReply(src, "SetupM4")
        /\ s' \in {fail_(y), afterAuthOk_(w), httpPost_(y, "SetupM6")}
    BY <1>7 DEF OnSetupM4
  <2>2. keyed \in BOOLEAN /\ b \in BOOLEAN
    OBVIOUS
  <2> HIDE DEF keyed, b
  <2>3. Core(y) /\ Reacts(y, fail_(y)) /\ y.ctl = "open" /\ y.state \in Starting
        /\ (\A st \in Stages : Calm(y, httpPost_(y, st)))
        /\ \A z : Calm(y, z) \/ Reacts(y, z) => Steps(s, z)
    BY <1>1, <2>1, <2>2
  <2> HIDE DEF y
  <2>4. Calm(y, w)
    <3>1. \A v \in BOOLEAN :
             Calm(y, [y EXCEPT !.pairStage = "Done", !.ap2 = "transient", !.proved = v])
      BY <2>3, DetailCore, Literals
    <3>2. QED
      BY <2>2, <3>1
  <2>5. w.ctl = "open" /\ w.state \in Starting
    BY <2>3 DEF Core, Session
  <2> HIDE DEF w
  <2>6. Reacts(w, afterAuthOk_(w))
    BY <2>4, <2>5, AfterAuthOkReacts DEF Calm
  <2>7. QED
    BY <2>1, <2>3, <2>4, <2>6, CalmThen, Literals
<1>8. ASSUME NEW src \in Sources, NEW body \in {"good", "forged", "error"}, OnVerifyM2(src, body)
      PROVE  Steps(s, s')
  <2> DEFINE y == popFront(s, src, FALSE)
             b == body = "good"
             w == [y EXCEPT !.ap2 = "verified", !.proved = b]
  <2>1. PairingReply(src, "VerifyM2") /\ s' \in {fail_(y), httpPost_(w, "VerifyDone")}
    BY <1>8 DEF OnVerifyM2
  <2>2. b \in BOOLEAN
    OBVIOUS
  <2> HIDE DEF b
  <2>3. Core(y) /\ Reacts(y, fail_(y))
        /\ \A z : Calm(y, z) \/ Reacts(y, z) => Steps(s, z)
    BY <1>1, <2>1
  <2> HIDE DEF y
  <2>4. Calm(y, w)
    <3>1. \A v \in BOOLEAN : Calm(y, [y EXCEPT !.ap2 = "verified", !.proved = v])
      BY <2>3, DetailCore
    <3>2. QED
      BY <2>2, <3>1
  <2> HIDE DEF w
  <2>5. Calm(w, httpPost_(w, "VerifyDone"))
    BY <2>4, SendCore, Literals DEF Calm
  <2>6. QED
    BY <2>1, <2>3, <2>4, <2>5, CalmThen
<1>9. ASSUME NEW src \in Sources, NEW body \in {"good", "error"}, NEW inside \in BOOLEAN,
             OnSetupM6(src, body, inside)
      PROVE  Steps(s, s')
  <2> DEFINE y == popFront(s, src, FALSE)
             h == stop(y)
  <2>1. PairingReply(src, "SetupM6")
        /\ s' \in {fail_(y), httpPost_(y, "VerifyM2"), httpPost_(h, "VerifyM2")}
    BY <1>9 DEF OnSetupM6
  <2>2. Core(y) /\ Reacts(y, fail_(y)) /\ Calm(y, httpPost_(y, "VerifyM2"))
        /\ Calm(s, y) /\ s.state # "Idle" /\ y.state # "Idle"
        /\ \A z : Calm(y, z) \/ Reacts(y, z) => Steps(s, z)
    BY <1>1, <2>1, Literals
  <2> HIDE DEF y
  <2>3. Core(h) /\ h.state = "Idle"
    BY <2>2, StopCore
  <2>4. Halted(y, h)
    BY <2>2, StopFacts DEF Core, Halted, KeptAtEnd, Ended
  <2> HIDE DEF h
  <2>5. Calm(h, httpPost_(h, "VerifyM2"))
    BY <2>3, SendCore, Literals
  <2>6. s' = httpPost_(h, "VerifyM2") => Steps(s, s')
    <3>1. Quiet(h, httpPost_(h, "VerifyM2")) /\ Core(httpPost_(h, "VerifyM2"))
      BY <2>5 DEF Calm
    <3>2. Quiet(s, y)
      BY <2>2 DEF Calm
    <3>3. Halted(s, httpPost_(h, "VerifyM2"))
      BY <2>2, <2>3, <2>4, <3>1, <3>2 DEF Halted, Quiet, Starting
    <3>4. QED
      BY <3>1, <3>3 DEF Steps
  <2>7. QED
    BY <2>1, <2>2, <2>6
<1>10. ASSUME NEW src \in Sources, OnVerifyDone(src)
       PROVE  Steps(s, s')
  <2> DEFINE w == popFront(s, src, TRUE)
             y == [w EXCEPT !.pairStage = "Done"]
  <2>1. PairingReply(src, "VerifyDone") /\ s' = afterAuthOk_(y)
    BY <1>10 DEF OnVerifyDone
  <2>2. Core(w) /\ w.ctl = "open" /\ w.state \in Starting
        /\ \A z : Calm(w, z) \/ Reacts(w, z) => Steps(s, z)
    BY <1>1, <2>1
  <2> HIDE DEF w
  <2>3. Calm(w, y) /\ y.ctl = "open" /\ y.state \in Starting
    <3>1. Calm(w, y)
      BY <2>2, DetailCore, Literals
    <3>2. y.ctl = w.ctl /\ y.state = w.state
      BY <2>2 DEF Core, Session
    <3>3. QED
      BY <2>2, <3>1, <3>2
  <2> HIDE DEF y
  <2>4. Reacts(y, s')
    BY <2>1, <2>3, AfterAuthOkReacts DEF Calm
  <2>5. QED
    BY <2>2, <2>3, <2>4, CalmThen
<1>11. ASSUME NEW src \in Sources, OnAp2Info(src)
       PROVE  Steps(s, s')
  BY <1>1, <1>11, Literals DEF OnAp2Info
<1>12. ASSUME NEW src \in Sources, NEW port \in BOOLEAN, OnAp2Session(src, port)
       PROVE  Steps(s, s')
  <2> DEFINE y == popFront(s, src, FALSE)
             e == IF port THEN "connecting" ELSE y.evt
             w == [y EXCEPT !.evt = e]
  <2>1. PairingReply(src, "Ap2Session")
    BY <1>12 DEF OnAp2Session
  <2>2. Core(y) /\ y.state # "Idle"
        /\ \A z : Calm(y, z) \/ Reacts(y, z) => Steps(s, z)
    BY <1>1, <2>1
  <2>3. y \in Session /\ Watched(y) /\ Connected(y) /\ Timed(y) /\ Paired(y)
    BY <2>2 DEF Core
  <2>4. s' = sendAp2Rtsp_(w, "RECORD", "Ap2Record")
    <3>1. w = [y EXCEPT !.evt = IF port THEN "connecting" ELSE @]
      BY <2>3 DEF Session
    <3>2. QED
      BY <1>12, <3>1 DEF OnAp2Session
  <2> HIDE DEF y
  <2>5. e \in {"closed", "connecting", "open"}
    BY <2>3 DEF Session
  <2> HIDE DEF e
  <2>6. w \in Session
    BY <2>3, <2>5 DEF Session
  <2>7. /\ w.state = y.state /\ w.waitingForPin = y.waitingForPin
        /\ w.armed = y.armed /\ w.due = y.due /\ w.ctl = y.ctl
        /\ w.udpBound = y.udpBound /\ w.wire = y.wire
        /\ w.pendingMethods = y.pendingMethods /\ w.pendingIsHttp = y.pendingIsHttp
        /\ w.session = y.session /\ w.asked = y.asked
        /\ w.launched = y.launched /\ w.closed = y.closed
    BY <2>3 DEF Session
  <2> HIDE DEF w
  <2>8. Core(w)
    BY <2>2, <2>3, <2>6, <2>7 DEF Core, Watched, Connected, Timed, Paired
  <2>9. Calm(y, w)
    BY <2>7, <2>8 DEF Calm, Quiet
  <2>10. Calm(w, s')
    BY <2>4, <2>8, SendCore, Literals
  <2>11. QED
    BY <2>2, <2>9, <2>10, CalmThen
<1>13. ASSUME NEW src \in Sources, NEW port \in BOOLEAN, OnAp2Stream(src, port)
       PROVE  Steps(s, s')
  <2> DEFINE y == popFront(s, src, FALSE)
  <2>1. PairingReply(src, "Ap2Stream") /\ s' \in {startStreaming_(y), fail_(y)}
    BY <1>13 DEF OnAp2Stream
  <2>2. Core(y) /\ Reacts(y, fail_(y)) /\ y.ctl = "open" /\ y.state \in Starting
        /\ \A z : Calm(y, z) \/ Reacts(y, z) => Steps(s, z)
    BY <1>1, <2>1
  <2> HIDE DEF y
  <2>3. Reacts(y, startStreaming_(y))
    BY <2>2, LaunchReacts DEF Starting
  <2>4. QED
    BY <2>1, <2>2, <2>3
<1>14. QED
  BY <1>2, <1>3, <1>4, <1>5, <1>6, <1>7, <1>8, <1>9, <1>10, <1>11, <1>12, <1>13
     DEF PairingReplies

----------------------------------------------------------------------------
(* The theorems. *)

\* The sender is idle, with nothing armed and nothing open.
LEMMA InitCore ==
    ASSUME Init
    PROVE  Core(s)
<1>1. PICK c \in Configs : s = Fresh(c)
  BY DEF Init
<1>2. c \in Config /\ c.auth \in Auths
  BY ConfigsAssumption DEF Config
<1>3. Fresh(c) \in Session
  <2>1. <<>> \in Seq(Methods) /\ <<>> \in Seq(BOOLEAN) /\ <<>> \in Seq(Request)
        /\ {} \in SUBSET Timers /\ "None" \in Stages /\ "Idle" \in States
    BY Literals DEF States
  <2>2. QED
    BY <1>2, <2>1 DEF Fresh, Session
<1>4. QED
  BY <1>1, <1>3 DEF Fresh, Core, Watched, Connected, Timed, Paired, Starting

\* Every step keeps the core and looks to the host in one of five ways.
LEMMA NextSteps ==
    ASSUME Core(s), [Next]_s
    PROVE  Steps(s, s') \/ s' = s
BY HostSteps, TickSteps, SocketSteps, RtspSteps, PairingSteps DEF Next

\* The core invariant: type, watchdog, sockets, timers and FIFOs together.
THEOREM CoreInvariant == Spec => []Core(s)
<1>1. Init => Core(s)
  BY InitCore
<1>2. Core(s) /\ [Next]_s => Core(s)'
  <2> SUFFICES ASSUME Core(s), [Next]_s
               PROVE  Core(s')
    OBVIOUS
  <2>1. QED
    BY NextSteps DEF Steps
<1>3. QED
  BY <1>1, <1>2, PTL DEF Spec

\* Type correctness of every handler, for any configuration and any receiver.
THEOREM TypeCorrect == Spec => []TypeOK
<1>1. Core(s) => TypeOK
  BY DEF Core, TypeOK
<1>2. QED
  BY <1>1, CoreInvariant, PTL

\* No handler leaves a starting session without a watchdog.
THEOREM WatchdogAlwaysArmed == Spec => []WatchdogArmed
<1>1. Core(s) => WatchdogArmed
  BY DEF Core, Watched, WatchdogArmed
<1>2. QED
  BY <1>1, CoreInvariant, PTL

\* No way out of a session leaks a socket.
THEOREM SocketsReleased == Spec => []SocketsFollowState
<1>1. Core(s) => SocketsFollowState
  BY DEF Core, Connected, SocketsFollowState
<1>2. QED
  BY <1>1, CoreInvariant, PTL

----------------------------------------------------------------------------
(* What the host hears. *)

\* The strengthening of EventContract: a running session is live and the host
\* has not asked for its end.
Told(x) ==
    /\ x.state # "Idle" => x.session = "live" /\ ~x.asked
    /\ x.state \in Starting => x.launched = 0 /\ x.closed = 0
    /\ x.state = "Streaming" => x.launched = 1 /\ x.closed = 0
    /\ x.state = "Idle" /\ x.session # "none" =>
          /\ x.launched <= 1 /\ x.closed <= x.launched
          /\ ~x.asked => x.launched = 1 /\ (x.session = "live" <=> x.closed = 1)

\* A step of any of the five kinds keeps it, when no PIN is submitted late.
LEMMA ToldSteps ==
    ASSUME ~PinAfterEnd, Core(s), Told(s), Steps(s, s')
    PROVE  Told(s')
<1>0. s.state \in States /\ s.launched \in 0..2 /\ s.closed \in 0..2
  BY DEF Core, Session
<1>1. CASE Quiet(s, s')
  BY <1>0, <1>1 DEF Quiet, Told, Starting
<1>2. CASE Lost(s, s') /\ s.state # "Idle"
  BY <1>0, <1>2 DEF Lost, Told, Starting, States, Saturate
<1>3. CASE Launched(s, s')
  BY <1>0, <1>3 DEF Launched, Told, Starting, Saturate
<1>4. CASE Halted(s, s')
  BY <1>0, <1>4 DEF Halted, Told, Starting, States
<1>5. CASE Begun(s')
  BY <1>5 DEF Begun, Told, Starting
<1>6. QED
  BY <1>1, <1>2, <1>3, <1>4, <1>5 DEF Steps

\* Nothing has been told, and nothing owed, before the first start().
LEMMA InitTold ==
    ASSUME Init
    PROVE  Told(s)
BY DEF Init, Fresh, Told, Starting

\* The strengthening of the event contract is an invariant: what launched() and
\* closed() have reported always matches the state, and a session that is not
\* Idle is live and has not been asked to stop.
THEOREM ToldInvariant ==
    ASSUME ~PinAfterEnd
    PROVE  Spec => [](Core(s) /\ Told(s))
<1>1. Init => Core(s) /\ Told(s)
  BY InitCore, InitTold
<1>2. (Core(s) /\ Told(s)) /\ [Next]_s => (Core(s) /\ Told(s))'
  <2> SUFFICES ASSUME Core(s), Told(s), [Next]_s
               PROVE  Core(s') /\ Told(s')
    OBVIOUS
  <2>1. QED
    BY NextSteps, ToldSteps DEF Steps
<1>3. QED
  BY <1>1, <1>2, PTL DEF Spec

\* launched() and closed() are called as often as the contract says.
THEOREM EventsAsPromised ==
    ASSUME ~PinAfterEnd
    PROVE  Spec => []EventContract
<1>1. Told(s) => EventContract
  BY DEF Told, EventContract
<1>2. QED
  BY <1>1, ToldInvariant, PTL

\* Every step of the sender is a step of its contract with the host.
THEOREM HostContractKept ==
    ASSUME ~PinAfterEnd
    PROVE  Spec => ImplementsHostContract
<1>1. Init => Contract!Init
  BY DEF Init, Fresh, Contract!Init, Starting
<1>2. (Core(s) /\ Told(s)) /\ [Next]_s => [Contract!Next]_(Contract!vars)
  <2> SUFFICES ASSUME Core(s), Told(s), [Next]_s
               PROVE  [Contract!Next]_(Contract!vars)
    OBVIOUS
  <2>0. s.state \in States
    BY DEF Core, Session
  <2>1. CASE s' = s
    BY <2>1 DEF Contract!vars
  <2>2. CASE Quiet(s, s')
    BY <2>2 DEF Quiet, Contract!vars
  <2>3. CASE Lost(s, s') /\ s.state # "Idle"
    <3>1. Contract!Lose
      BY <2>0, <2>3 DEF Lost, Told, Contract!Lose, Starting, States, Saturate
    <3>2. QED
      BY <3>1 DEF Contract!Next
  <2>4. CASE Launched(s, s')
    <3>1. Contract!Launch
      BY <2>4 DEF Launched, Told, Contract!Launch, Starting, Saturate
    <3>2. QED
      BY <3>1 DEF Contract!Next
  <2>5. CASE Halted(s, s')
    <3>1. Contract!Quit
      BY <2>5 DEF Halted, Contract!Quit, Starting
    <3>2. QED
      BY <3>1 DEF Contract!Next
  <2>6. CASE Begun(s')
    <3>1. Contract!Begin
      BY <2>6 DEF Begun, Contract!Begin, Starting
    <3>2. QED
      BY <3>1 DEF Contract!Next
  <2>7. QED
    BY NextSteps, <2>1, <2>2, <2>3, <2>4, <2>5, <2>6 DEF Steps
<1>3. QED
  BY <1>1, <1>2, ToldInvariant, PTL DEF Spec, ImplementsHostContract, Contract!Spec

----------------------------------------------------------------------------
(***************************************************************************)
(* The protocol: which request is outstanding at which stage, that an      *)
(* honest receiver and the sender stay in step, that a strict sender talks *)
(* only to a receiver that has proved itself, and that the handshake is    *)
(* bounded.  These rest on the invariant Core.                             *)
(***************************************************************************)

(* The inductive invariant, as a predicate on session records. *)

PairStages == {"AuthSetup", "PinStart", "SetupM2", "SetupM4", "SetupM6", "VerifyM2",
               "VerifyDone"}
Plain == {"None", "Done"}    \* the stages in which the requests are plain RTSP

\* The request whose reply is outstanding, if there is one.
Token(x) == IF x.pendingMethods = <<>> THEN "none" ELSE Head(x.pendingMethods)

\* How many more requests the AirPlay 1 handshake may take after one of them.
After(m) == CASE m = "OPTIONS" -> 3 [] m = "ANNOUNCE" -> 2 [] m = "SETUP" -> 1 [] OTHER -> 0

\* How many more a starting session may send: the longest way there is from its
\* stage, over the fallbacks and the digest retry it has left.
Left(x) ==
    CASE x.state = "Connecting"     -> 13
      [] x.state # "Connecting" /\ x.pairStage \in Plain ->
            After(Token(x)) + (IF x.digestRetried THEN 0 ELSE 1)
      [] x.pairStage = "AuthSetup"  -> 5
      [] x.pairStage = "PinStart"   -> IF x.triedTransientAfterPin403 THEN 9 ELSE 11
      [] x.pairStage = "SetupM2"    -> IF x.authMethod = "HapPin" THEN 8
                                       ELSE IF x.triedTransientAfterPin403 THEN 10 ELSE 12
      [] x.pairStage = "SetupM4"    -> 7
      [] x.pairStage = "SetupM6"    -> 6
      [] x.pairStage = "VerifyM2"   -> 5
      [] x.pairStage = "VerifyDone" -> 4
      [] x.pairStage = "Ap2Info"    -> 3
      [] x.pairStage = "Ap2Session" -> 2
      [] x.pairStage = "Ap2Record"  -> 1
      [] x.pairStage = "Ap2Stream"  -> 0

Bounded(x) ==
    /\ x.state \in Starting => x.requests + Left(x) <= 13
    /\ x.state = "Streaming" => x.requests <= 13
    /\ x.state = "Idle" => x.requests <= 14

\* Which stages belong to which state, and what a stage has behind it.
Staged(x) ==
    /\ x.state = "Connecting" => x.pairStage = "None"
    /\ x.state = "Pairing" => x.pairStage \in PairStages
    /\ x.state = "Handshake" => x.pairStage \in Plain \cup SetupStages
    /\ x.state \in {"Connecting", "Pairing"} => ~x.controlEncrypted
    /\ x.state \in Starting /\ x.pairStage \notin {"None", "AuthSetup", "Done"} =>
          x.ap2 # "null" /\ x.authMethod \in Hap
    /\ x.state \in Starting /\ x.pairStage = "PinStart" => x.authMethod = "HapPin"
    /\ x.state \in Starting /\ x.pairStage = "VerifyDone" =>
          x.ap2 = "verified" /\ (x.cfg.strict => x.proved)
    /\ x.state \in Starting /\ x.waitingForPin =>
          x.pairStage = "SetupM2" /\ x.authMethod = "HapPin"
    /\ x.state = "Streaming" => ~x.waitingForPin

\* What holds in every state of a session, an ended one too.
Keyed(x) ==
    /\ x.waitingForPin => x.ap2 # "null"
    /\ x.controlEncrypted => x.ap2 \in {"transient", "verified"}
    /\ x.authMethod \in Hap => x.cfg.airplay2
    /\ x.authMethod = "AuthSetup" => ~x.cfg.airplay2
    /\ x.cfg.strict /\ x.authMethod \in Hap /\ x.state \in {"Handshake", "Streaming"} => x.proved

Scalars(x) == Keyed(x) /\ Staged(x) /\ Bounded(x)

\* A starting session has at most one request outstanding, an HTTP one during
\* pairing and AirPlay 2 set-up, none while the user is asked for the PIN.
OneRequest(x) ==
    x.state \in Starting =>
        /\ Len(x.pendingMethods) <= 1
        /\ x.state = "Connecting" \/ x.waitingForPin => x.pendingMethods = <<>>
        /\ x.pairStage \notin Plain => \A i \in 1 .. Len(x.pendingIsHttp) : x.pendingIsHttp[i]

\* A receiver that sends no stray replies has exactly the requests in front of it
\* that the FIFOs name, all of them encrypted or none.
InStep(x) ==
    /\ x.ctl # "open" => x.wire = <<>> /\ ~x.rcvEnc
    /\ x.ctl = "open" =>
          /\ Len(x.wire) = Len(x.pendingMethods)
          /\ x.rcvEnc = x.controlEncrypted
          /\ \A i \in 1 .. Len(x.wire) :
                /\ x.pendingMethods[i] = x.wire[i].method
                /\ x.pendingIsHttp[i] = x.wire[i].http
                /\ x.wire[i].enc = x.controlEncrypted
                /\ x.wire[i].http =>
                      x.wire[i].for = x.pairStage /\ i = 1 /\ x.state # "Streaming"

Proto(x) == Scalars(x) /\ OneRequest(x) /\ (~StrayReplies => InStep(x))

ProtoInv == Core(s) /\ Proto(s)

----------------------------------------------------------------------------
(* What the methods do to the fields the invariant is about. *)

\* Neither sending a request nor arming a timer changes these.
Same(x, y) ==
    /\ y.state = x.state /\ y.cfg = x.cfg /\ y.authMethod = x.authMethod /\ y.ap2 = x.ap2
    /\ y.triedTransientAfterPin403 = x.triedTransientAfterPin403
    /\ y.waitingForPin = x.waitingForPin /\ y.controlEncrypted = x.controlEncrypted
    /\ y.digestRetried = x.digestRetried /\ y.proved = x.proved
    /\ y.ctl = x.ctl

SameQueue(x, y) ==
    /\ y.pairStage = x.pairStage /\ y.requests = x.requests
    /\ y.pendingMethods = x.pendingMethods /\ y.pendingIsHttp = x.pendingIsHttp
    /\ y.wire = x.wire /\ y.rcvEnc = x.rcvEnc

Sent(x, y, m, for, stage) ==
    /\ Same(x, y) /\ y.pairStage = stage /\ y.rcvEnc = x.rcvEnc
    /\ y.pendingMethods = Append(x.pendingMethods, m)
    /\ y.pendingIsHttp = Append(x.pendingIsHttp, IsHttp(for))
    /\ y.wire = IF x.ctl = "open" THEN Append(x.wire, request(x, m, for)) ELSE x.wire
    /\ y.requests = IF x.state \in Starting THEN x.requests + 1 ELSE x.requests

\* A timer is neither a request nor a key.
LEMMA ArmView ==
    ASSUME NEW x \in Session, NEW t
    PROVE  /\ Same(x, arm_(x, t)) /\ SameQueue(x, arm_(x, t))
           /\ Same(x, disarm_(x, t)) /\ SameQueue(x, disarm_(x, t))
BY DEF arm_, disarm_, Session, Same, SameQueue

\* writeRtsp_ pushes both FIFOs and puts the request on an open connection.
LEMMA WriteView ==
    ASSUME NEW x \in Session, NEW m, NEW for
    PROVE  Sent(x, writeRtsp_(x, m, for), m, for, x.pairStage)
BY DEF writeRtsp_, Session, Sent, Same

\* sendRequest_ sends plain RTSP at the stage the session is in.
LEMMA SendView ==
    ASSUME NEW x \in Session, NEW m \in Methods
    PROVE  Sent(x, sendRequest_(x, m), m, "None", x.pairStage)
<1> DEFINE y == writeRtsp_(x, m, "None")
<1>1. Sent(x, y, m, "None", x.pairStage) /\ y \in Session
  BY WriteView, WriteFacts, Literals
<1> HIDE DEF y
<1>2. Same(y, arm_(y, "timeout")) /\ SameQueue(y, arm_(y, "timeout"))
  BY <1>1, ArmView
<1>3. sendRequest_(x, m) \in {y, arm_(y, "timeout")}
  BY DEF sendRequest_, y
<1> QED
  BY <1>1, <1>2, <1>3 DEF Sent, Same, SameQueue

\* The two senders that move to a stage of their own.
LEMMA StageView ==
    ASSUME NEW x \in Session, NEW m \in Methods, NEW stage \in Stages
    PROVE  Sent(x, writeRtsp_([x EXCEPT !.pairStage = stage], m, stage), m, stage, stage)
<1> DEFINE w == [x EXCEPT !.pairStage = stage]
<1>1. w \in Session /\ Same(x, w) /\ w.pairStage = stage /\ w.requests = x.requests
      /\ w.pendingMethods = x.pendingMethods /\ w.pendingIsHttp = x.pendingIsHttp
      /\ w.wire = x.wire /\ w.rcvEnc = x.rcvEnc
  BY DEF Session, Same
<1> HIDE DEF w
<1>2. Sent(w, writeRtsp_(w, m, stage), m, stage, w.pairStage)
  BY <1>1, WriteView
<1>3. request(w, m, stage) = request(x, m, stage)
  BY <1>1 DEF request, Same
<1> QED
  BY <1>1, <1>2, <1>3 DEF Sent, Same, w

\* httpPost_ moves to its stage and sends a pairing request.
LEMMA PostView ==
    ASSUME NEW x \in Session, NEW stage \in Stages
    PROVE  Sent(x, httpPost_(x, stage), "POST", stage, stage)
<1> DEFINE w == [x EXCEPT !.pairStage = stage]
           y == writeRtsp_(w, "POST", stage)
<1>1. w \in Session
  BY StageFacts
<1>2. Sent(x, y, "POST", stage, stage) /\ y \in Session
  BY <1>1, StageView, WriteFacts, Literals
<1> HIDE DEF w
<1>3. httpPost_(x, stage) \in {y, arm_(y, "timeout")}
  BY DEF httpPost_, w
<1> HIDE DEF y
<1>4. Same(y, arm_(y, "timeout")) /\ SameQueue(y, arm_(y, "timeout"))
  BY <1>2, ArmView
<1> QED
  BY <1>2, <1>3, <1>4 DEF Sent, Same, SameQueue

\* sendAp2Rtsp_ moves to its stage and sends a set-up request.
LEMMA Ap2View ==
    ASSUME NEW x \in Session, NEW m \in Methods, NEW stage \in Stages
    PROVE  Sent(x, sendAp2Rtsp_(x, m, stage), m, stage, stage)
<1> DEFINE w == [x EXCEPT !.pairStage = stage]
           y == writeRtsp_(w, m, stage)
<1>1. w \in Session
  BY StageFacts
<1>2. Sent(x, y, m, stage, stage) /\ y \in Session
  BY <1>1, StageView, WriteFacts
<1> HIDE DEF w
<1>3. sendAp2Rtsp_(x, m, stage) = arm_(y, "timeout")
  BY DEF sendAp2Rtsp_, w
<1> HIDE DEF y
<1>4. Same(y, arm_(y, "timeout")) /\ SameQueue(y, arm_(y, "timeout"))
  BY <1>2, ArmView
<1> QED
  BY <1>2, <1>3, <1>4 DEF Sent, Same, SameQueue

\* An ended session keeps its keys and its counters.
Over(x, y) ==
    /\ y.state = "Idle" /\ y.ctl = "closed" /\ y.wire = <<>> /\ ~y.rcvEnc
    /\ y.cfg = x.cfg /\ y.authMethod = x.authMethod /\ y.ap2 = x.ap2
    /\ y.waitingForPin = x.waitingForPin /\ y.controlEncrypted = x.controlEncrypted
    /\ y.requests \in {x.requests, x.requests + 1}
    /\ x.state \notin Starting => y.requests = x.requests

\* fail_ and a FIN send nothing more.
LEMMA FailView ==
    ASSUME NEW x \in Session
    PROVE  Over(x, fail_(x)) /\ Over(x, closedByPeer(x))
           /\ fail_(x).requests = x.requests /\ closedByPeer(x).requests = x.requests
<1>1. Over(x, fail_(x)) /\ fail_(x).requests = x.requests
  BY DEF fail_, releaseSockets_, tcpClose, stopTimers_, Session, Over
<1>2. Over(x, closedByPeer(x)) /\ closedByPeer(x).requests = x.requests
  BY DEF closedByPeer, releaseSockets_, tcpClose, stopTimers_, Session, Over
<1> QED
  BY <1>1, <1>2

\* stop() sends at most a TEARDOWN.
LEMMA StopView ==
    ASSUME NEW x \in Session, x.state # "Idle"
    PROVE  Over(x, stop(x))
<1> DEFINE y == stopTimers_(x)
           t == sendRequest_(y, "TEARDOWN")
           z == IF y.rtspConnected /\ (y.rtspSession \/ y.cfg.airplay2) THEN t ELSE y
<1>0. y \in Session
  BY EndTypes
<1>1. y \in Session /\ Same(x, y) /\ SameQueue(x, y)
  BY <1>0 DEF stopTimers_, Session, Same, SameQueue
<1>2. stop(x) = releaseSockets_(tcpClose([z EXCEPT !.state = "Idle", !.asked = TRUE]))
  BY DEF stop
<1>3. z \in {t, y}
  OBVIOUS
<1> HIDE DEF y, z
<1>4. Sent(y, t, "TEARDOWN", "None", y.pairStage) /\ t \in Session
  BY <1>1, SendView, SendRequestFacts, Literals
<1>5. /\ z \in Session /\ Same(x, z) /\ z.requests \in {x.requests, x.requests + 1}
      /\ x.state \notin Starting => z.requests = x.requests
  BY <1>1, <1>3, <1>4 DEF Sent, Same, SameQueue
<1>6. /\ stop(x).state = "Idle" /\ stop(x).ctl = "closed" /\ stop(x).wire = <<>>
      /\ ~stop(x).rcvEnc
      /\ stop(x).cfg = z.cfg /\ stop(x).authMethod = z.authMethod /\ stop(x).ap2 = z.ap2
      /\ stop(x).waitingForPin = z.waitingForPin /\ stop(x).controlEncrypted = z.controlEncrypted
      /\ stop(x).requests = z.requests
  BY <1>2, <1>5 DEF releaseSockets_, tcpClose, Session
<1> QED
  BY <1>5, <1>6 DEF Over, Same

----------------------------------------------------------------------------
(* How the invariant survives the building blocks. *)

\* However a session ends, what is left satisfies the invariant.
LEMMA OverProto ==
    ASSUME NEW x \in Session, Proto(x), NEW y, Over(x, y)
    PROVE  Proto(y)
<1>1. x.state \in States /\ x.requests \in Nat
  BY DEF Session
<1>2. y.requests <= 14
  <2>1. CASE x.state \in Starting
    <3>1. Left(x) >= 0 /\ x.requests + Left(x) <= 13
      BY <1>1, <2>1 DEF Proto, Scalars, Bounded, Left, After, Staged, Starting, Plain, PairStages, SetupStages
    <3>2. Left(x) \in Int
      BY <1>1, <2>1 DEF Proto, Scalars, Left, After, Staged, Starting, Plain, PairStages, SetupStages
    <3> QED
      BY <1>1, <3>1, <3>2 DEF Over
  <2>2. CASE x.state \notin Starting
    BY <1>1, <2>2 DEF Proto, Scalars, Bounded, Over, States, Starting
  <2> QED
    BY <2>1, <2>2
<1>3. Keyed(y)
  BY DEF Proto, Scalars, Keyed, Over
<1>4. Staged(y) /\ OneRequest(y) /\ InStep(y)
  BY DEF Over, Staged, OneRequest, InStep, Starting
<1>5. Bounded(y)
  BY <1>2 DEF Bounded, Over, Starting
<1> QED
  BY <1>3, <1>4, <1>5 DEF Proto, Scalars

\* Timers do not matter.
LEMMA SameProto ==
    ASSUME NEW x, Proto(x), NEW y, Same(x, y), SameQueue(x, y)
    PROVE  Proto(y)
<1>1. Scalars(y)
  <2>1. Left(y) = Left(x)
    BY DEF Left, Token, Same, SameQueue
  <2> QED
    BY <2>1 DEF Proto, Scalars, Keyed, Staged, Bounded, Same, SameQueue
<1>2. OneRequest(y)
  BY DEF Proto, OneRequest, Same, SameQueue
<1>3. ~StrayReplies => InStep(y)
  BY DEF Proto, InStep, Same, SameQueue
<1> QED
  BY <1>1, <1>2, <1>3 DEF Proto

\* A request written to a closed connection reaches nobody.
LEMMA IdleSend ==
    ASSUME NEW x, Proto(x), x.state = "Idle", x.ctl = "closed", x.wire = <<>>,
           NEW y, NEW m, NEW for, NEW stage, Sent(x, y, m, for, stage)
    PROVE  Proto(y)
<1>1. ~StrayReplies => ~x.rcvEnc
  BY DEF Proto, InStep
<1>2. Keyed(y)
  BY DEF Proto, Scalars, Keyed, Sent, Same
<1>3. Staged(y) /\ OneRequest(y) /\ (~StrayReplies => InStep(y))
  BY <1>1 DEF Sent, Same, Staged, OneRequest, InStep, Starting
<1>4. Bounded(y)
  BY DEF Proto, Scalars, Bounded, Sent, Same, Starting
<1> QED
  BY <1>2, <1>3, <1>4 DEF Proto, Scalars

\* A streaming session may have any number of requests outstanding, all RTSP.
Live(x) == x \in Session /\ x.state = "Streaming" /\ x.ctl = "open" /\ Paired(x) /\ Proto(x)

\* A request is encrypted exactly when the channel is.
LEMMA RequestFields ==
    ASSUME NEW x \in Session, NEW m, NEW for, x.controlEncrypted => x.ap2 # "null"
    PROVE  /\ request(x, m, for).method = m /\ request(x, m, for).for = for
           /\ request(x, m, for).http = IsHttp(for)
           /\ request(x, m, for).enc = x.controlEncrypted
<1>1. x.controlEncrypted \in BOOLEAN
  BY DEF Session
<1>2. request(x, m, for).enc = IF x.ap2 = "null" THEN FALSE ELSE x.controlEncrypted
  BY DEF request
<1>3. request(x, m, for).enc = x.controlEncrypted
  BY <1>1, <1>2
<1> QED
  BY <1>3 DEF request

\* One more RTSP request of a streaming session keeps the ends in step.
LEMMA StreamSend ==
    ASSUME NEW x, Live(x), NEW y \in Session, NEW m \in Methods,
           Sent(x, y, m, "None", x.pairStage)
    PROVE  Live(y)
<1> DEFINE r == request(x, m, "None")
           pm == x.pendingMethods
           ph == x.pendingIsHttp
           w  == x.wire
<1>1. x \in Session /\ Proto(x) /\ x.state = "Streaming" /\ x.ctl = "open" /\ Len(pm) = Len(ph)
  BY DEF Live, Paired
<1>2. pm \in Seq(Methods) /\ ph \in Seq(BOOLEAN) /\ w \in Seq(Request)
  BY <1>1 DEF Session
<1>3. IsHttp("None") = FALSE
  BY DEF IsHttp
<1>4. /\ r \in Request /\ r.method = m /\ r.http = FALSE /\ r.enc = x.controlEncrypted
  <2>1. x.controlEncrypted => x.ap2 # "null"
    BY <1>1 DEF Proto, Scalars, Keyed
  <2>2. r \in Request
    BY <1>1, Literals DEF request, Request, Session, IsHttp
  <2> QED
    BY <1>1, <1>3, <2>1, <2>2, RequestFields
<1>5. /\ y.state = "Streaming" /\ y.ctl = "open" /\ y.requests = x.requests
      /\ y.pendingMethods = Append(pm, m) /\ y.pendingIsHttp = Append(ph, FALSE)
      /\ y.wire = Append(w, r) /\ y.rcvEnc = x.rcvEnc /\ y.pairStage = x.pairStage
  BY <1>1, <1>3 DEF Sent, Same, Starting
<1> HIDE DEF r, pm, ph, w
<1>6. Paired(y)
  BY <1>1, <1>2, <1>5 DEF Paired
<1>7. Keyed(y)
  BY <1>1 DEF Proto, Scalars, Keyed, Sent, Same
<1>a. y.waitingForPin = x.waitingForPin
  BY DEF Sent, Same
<1>8. Staged(y) /\ OneRequest(y) /\ Bounded(y)
  BY <1>1, <1>5, <1>a DEF Proto, Scalars, Staged, OneRequest, Bounded, Starting
<1>9. ASSUME ~StrayReplies PROVE InStep(y)
  <2>1. /\ Len(w) = Len(pm) /\ x.rcvEnc = x.controlEncrypted
        /\ \A i \in 1 .. Len(w) :
              /\ pm[i] = w[i].method /\ ph[i] = w[i].http
              /\ w[i].enc = x.controlEncrypted /\ ~w[i].http
    BY <1>1, <1>9 DEF Proto, InStep, pm, ph, w
  <2>2. y.controlEncrypted = x.controlEncrypted
    BY DEF Sent, Same
  <2>3. Len(y.wire) = Len(w) + 1 /\ Len(y.pendingMethods) = Len(pm) + 1 /\ Len(w) \in Nat
    BY <1>2, <1>4, <1>5
  <2>4. ASSUME NEW i \in 1 .. (Len(w) + 1)
        PROVE  /\ y.pendingMethods[i] = y.wire[i].method /\ y.pendingIsHttp[i] = y.wire[i].http
               /\ y.wire[i].enc = x.controlEncrypted /\ ~y.wire[i].http
    <3>1. CASE i = Len(w) + 1
      <4>1. y.wire[i] = r
        BY <1>2, <1>4, <1>5, <3>1
      <4>2. y.pendingMethods[i] = m
        BY <1>2, <1>5, <2>1, <3>1
      <4>3. y.pendingIsHttp[i] = FALSE
        BY <1>1, <1>2, <1>5, <2>1, <3>1
      <4> QED
        BY <1>4, <4>1, <4>2, <4>3
    <3>2. CASE i # Len(w) + 1
      <4>0. i \in 1 .. Len(w)
        BY <2>3, <3>2
      <4>1. y.wire[i] = w[i]
        BY <1>2, <1>4, <1>5, <4>0
      <4>2. y.pendingMethods[i] = pm[i]
        BY <1>2, <1>5, <2>1, <4>0
      <4>3. y.pendingIsHttp[i] = ph[i]
        BY <1>1, <1>2, <1>5, <2>1, <4>0
      <4> QED
        BY <2>1, <4>0, <4>1, <4>2, <4>3
    <3> QED
      BY <3>1, <3>2
  <2> QED
    BY <1>5, <2>1, <2>2, <2>3, <2>4 DEF InStep
<1> QED
  BY <1>5, <1>6, <1>7, <1>8, <1>9 DEF Live, Proto, Scalars

\* A change to fields the invariant does not read.
LEMMA LiveSame ==
    ASSUME NEW x, Live(x), NEW y \in Session, Same(x, y), SameQueue(x, y)
    PROVE  Live(y)
BY SameProto DEF Live, Same, SameQueue, Paired

\* Requests and timers of a streaming session.
LEMMA LiveSend ==
    ASSUME NEW x, Live(x)
    PROVE  /\ \A m \in Methods : Live(sendRequest_(x, m)) /\ Live(writeRtsp_(x, m, "None"))
           /\ \A t \in Timers : Live(arm_(x, t)) /\ Live(disarm_(x, t))
<1>1. x \in Session
  BY DEF Live
<1>2. ASSUME NEW m \in Methods PROVE Live(sendRequest_(x, m))
  <2> DEFINE y == sendRequest_(x, m)
  <2>1. y \in Session /\ Sent(x, y, m, "None", x.pairStage)
    BY <1>1, SendRequestFacts, SendView
  <2> HIDE DEF y
  <2> QED
    BY <2>1, StreamSend DEF y
<1>3. ASSUME NEW m \in Methods PROVE Live(writeRtsp_(x, m, "None"))
  <2> DEFINE y == writeRtsp_(x, m, "None")
  <2>1. y \in Session /\ Sent(x, y, m, "None", x.pairStage)
    BY <1>1, WriteFacts, WriteView, Literals
  <2> HIDE DEF y
  <2> QED
    BY <2>1, StreamSend DEF y
<1>4. ASSUME NEW t \in Timers PROVE Live(arm_(x, t)) /\ Live(disarm_(x, t))
  BY <1>1, ArmFacts, ArmView, LiveSame
<1> QED
  BY <1>2, <1>3, <1>4

\* Zero, one or two SET_PARAMETERs to a streaming receiver.
LEMMA LiveParameters ==
    ASSUME NEW x, Live(x), NEW n \in 0 .. 2
    PROVE  Live(SetParameters(x, n))
<1> DEFINE one == sendRequest_(x, "SET_PARAMETER")
           two == sendRequest_(one, "SET_PARAMETER")
<1>1. Live(one)
  BY LiveSend, Literals
<1> HIDE DEF one
<1>2. Live(two)
  BY <1>1, LiveSend, Literals
<1>3. n = 0 \/ n = 1 \/ n = 2
  OBVIOUS
<1> QED
  BY <1>1, <1>2, <1>3 DEF SetParameters, one

\* A starting session between a reply and the next request.
Between(x) ==
    /\ x \in Session /\ x.ctl = "open" /\ x.pendingMethods = <<>> /\ x.pendingIsHttp = <<>>
    /\ ~StrayReplies => x.wire = <<>>

\* The next request is the only one outstanding.
LEMMA AskFields ==
    ASSUME NEW y, Between(y), NEW z, NEW m, NEW for, NEW stage, Sent(y, z, m, for, stage)
    PROVE  /\ Same(y, z) /\ z.pairStage = stage /\ Token(z) = m
           /\ y.state \in Starting => z.requests = y.requests + 1
           /\ z.pendingMethods = <<m>> /\ z.pendingIsHttp = <<IsHttp(for)>>
           /\ ~StrayReplies => z.wire = <<request(y, m, for)>>
<1>1. Same(y, z) /\ z.pairStage = stage /\ (y.state \in Starting => z.requests = y.requests + 1)
  BY DEF Sent
<1>2. z.pendingMethods = <<m>>
  BY DEF Sent, Between
<1>3. z.pendingIsHttp = <<IsHttp(for)>>
  BY DEF Sent, Between
<1>4. ASSUME ~StrayReplies PROVE z.wire = <<request(y, m, for)>>
  <2> DEFINE r == request(y, m, for)
  <2>1. y.ctl = "open" /\ y.wire = <<>> /\ z.wire = IF y.ctl = "open" THEN Append(y.wire, r) ELSE y.wire
    BY <1>4 DEF Sent, Between
  <2> HIDE DEF r
  <2>2. z.wire = Append(<<>>, r)
    BY <2>1
  <2> QED
    BY <2>2 DEF r
<1>5. Token(z) = m
  BY <1>2 DEF Token
<1> QED
  BY <1>1, <1>2, <1>3, <1>4, <1>5

\* With the new request the ends are in step again.
LEMMA AskProto ==
    ASSUME NEW y, Between(y), NEW z, NEW m, NEW for, NEW stage, Sent(y, z, m, for, stage),
           y.controlEncrypted => y.ap2 # "null",
           ~StrayReplies => y.rcvEnc = y.controlEncrypted,
           IsHttp(for) => for = stage /\ y.state # "Streaming",
           stage \notin Plain => IsHttp(for),
           y.state # "Connecting", ~y.waitingForPin,
           Scalars(z)
    PROVE  Proto(z)
<1> DEFINE r == request(y, m, for)
<1>1. /\ Same(y, z) /\ z.pairStage = stage
      /\ z.pendingMethods = <<m>> /\ z.pendingIsHttp = <<IsHttp(for)>>
      /\ ~StrayReplies => z.wire = <<r>>
  BY AskFields
<1>2. r.method = m /\ r.for = for /\ r.http = IsHttp(for) /\ r.enc = y.controlEncrypted
  BY RequestFields DEF Between
<1> HIDE DEF r
<1>3. OneRequest(z)
  <2>1. Len(z.pendingMethods) = 1 /\ Len(z.pendingIsHttp) = 1 /\ z.pendingIsHttp[1] = IsHttp(for)
    BY <1>1
  <2>2. z.state # "Connecting" /\ ~z.waitingForPin
    BY <1>1 DEF Same
  <2> QED
    BY <1>1, <2>1, <2>2 DEF OneRequest
<1>4. ASSUME ~StrayReplies PROVE InStep(z)
  <2>1. z.wire = <<r>> /\ z.pendingMethods = <<m>> /\ z.pendingIsHttp = <<IsHttp(for)>>
    BY <1>1, <1>4
  <2>2. Len(z.wire) = 1 /\ Len(z.pendingMethods) = 1 /\ z.wire[1] = r
        /\ z.pendingMethods[1] = m /\ z.pendingIsHttp[1] = IsHttp(for)
    BY <2>1
  <2>3. z.ctl = "open" /\ z.rcvEnc = z.controlEncrypted /\ z.controlEncrypted = y.controlEncrypted
        /\ z.state = y.state
    BY <1>1, <1>4 DEF Same, Between, Sent
  <2> QED
    BY <1>1, <1>2, <2>2, <2>3 DEF InStep
<1> QED
  BY <1>3, <1>4 DEF Proto

\* popFront takes the replies off and, keyed, turns the receiver to encryption.
LEMMA PopView ==
    ASSUME NEW x \in Session, NEW src, NEW keyed
    PROVE  LET y == popFront(x, src, keyed)
           IN  /\ Same(x, y) /\ y.pairStage = x.pairStage /\ y.requests = x.requests
               /\ y.pendingMethods = Tail(x.pendingMethods)
               /\ y.pendingIsHttp = Tail(x.pendingIsHttp)
               /\ y.wire = IF src = "answer" THEN Tail(x.wire) ELSE x.wire
               /\ y.rcvEnc = (x.rcvEnc \/ (src = "answer" /\ keyed))
BY DEF popFront, Session, Same

\* The tail of a sequence of one element.
LEMMA OnlyOne ==
    ASSUME NEW S, NEW q \in Seq(S), Len(q) = 1
    PROVE  Tail(q) = <<>>
<1>1. q # <<>>
  OBVIOUS
<1>2. Tail(q) \in Seq(S) /\ Len(Tail(q)) = Len(q) - 1
  BY <1>1, HeadTailProperties
<1> DEFINE r == Tail(q)
<1>3. r \in Seq(S) /\ Len(r) = 0
  BY <1>2
<1> HIDE DEF r
<1>4. r = <<>>
  BY <1>3, EmptySeq
<1> QED
  BY <1>4 DEF r

\* The only outstanding request of a starting session has been answered.
LEMMA PopStarting ==
    ASSUME Core(s), Proto(s), NEW src \in Sources, Replying(src), NEW keyed \in BOOLEAN,
           s.state \in Starting
    PROVE  LET y == popFront(s, src, keyed)
           IN  /\ Between(y) /\ Same(s, y) /\ y.pairStage = s.pairStage
               /\ y.requests = s.requests
               /\ ~s.waitingForPin /\ s.state \in {"Pairing", "Handshake"}
               /\ ~StrayReplies => y.rcvEnc = (s.controlEncrypted \/ keyed)
               /\ Len(s.pendingMethods) = 1 /\ Len(s.pendingIsHttp) = 1
<1> DEFINE y == popFront(s, src, keyed)
<1>1. s \in Session /\ Paired(s) /\ s.ctl = "open" /\ s.pendingMethods # <<>>
      /\ (src = "answer" => s.wire # <<>>)
  BY DEF Core, Replying
<1>2. /\ s.pendingMethods \in Seq(Methods) /\ s.pendingIsHttp \in Seq(BOOLEAN)
      /\ s.wire \in Seq(Request)
  BY <1>1 DEF Session
<1>3. Len(s.pendingMethods) <= 1 /\ (s.state = "Connecting" \/ s.waitingForPin => s.pendingMethods = <<>>)
  BY DEF Proto, OneRequest
<1>4. Len(s.pendingMethods) = 1 /\ Len(s.pendingIsHttp) = 1
  <2>1. Len(s.pendingMethods) \in Nat \ {0} /\ Len(s.pendingMethods) = Len(s.pendingIsHttp)
    BY <1>1, <1>2, EmptySeq DEF Paired
  <2> DEFINE n == Len(s.pendingMethods)
  <2>2. n \in Nat \ {0} /\ n <= 1
    BY <1>3, <2>1
  <2> HIDE DEF n
  <2>3. n = 1
    BY <2>2
  <2> QED
    BY <2>1, <2>3 DEF n
<1>5. y \in Session
  BY <1>1, PopFacts DEF Calm, Core
<1>6. /\ Same(s, y) /\ y.pairStage = s.pairStage /\ y.requests = s.requests
      /\ y.pendingMethods = Tail(s.pendingMethods)
      /\ y.pendingIsHttp = Tail(s.pendingIsHttp)
      /\ y.wire = IF src = "answer" THEN Tail(s.wire) ELSE s.wire
      /\ y.rcvEnc = (s.rcvEnc \/ (src = "answer" /\ keyed))
  BY <1>1, PopView
<1> HIDE DEF y
<1>7. Tail(s.pendingMethods) = <<>>
  BY <1>2, <1>4, OnlyOne
<1>8. Tail(s.pendingIsHttp) = <<>>
  BY <1>2, <1>4, OnlyOne
<1>9. ASSUME ~StrayReplies PROVE y.wire = <<>> /\ y.rcvEnc = (s.controlEncrypted \/ keyed)
  <2>1. src = "answer"
    BY <1>9 DEF Replying, Sources
  <2>2. Len(s.wire) = 1 /\ s.rcvEnc = s.controlEncrypted
    BY <1>1, <1>4, <1>9 DEF Proto, InStep
  <2>3. Tail(s.wire) = <<>>
    BY <1>2, <2>2, OnlyOne
  <2> QED
    BY <1>6, <2>1, <2>2, <2>3
<1>10. Between(y)
  BY <1>1, <1>5, <1>6, <1>7, <1>8, <1>9 DEF Between, Same
<1>11. ~s.waitingForPin /\ s.state \in {"Pairing", "Handshake"}
  BY <1>1, <1>3 DEF Starting
<1> QED
  BY <1>4, <1>6, <1>9, <1>10, <1>11 DEF y

\* A reply to a streaming session leaves the others in place.
LEMMA PopLive ==
    ASSUME Core(s), Proto(s), NEW src \in Sources, Replying(src), s.state = "Streaming"
    PROVE  Live(popFront(s, src, FALSE))
<1> DEFINE y  == popFront(s, src, FALSE)
           pm == s.pendingMethods
           ph == s.pendingIsHttp
           w  == s.wire
<1>1. s \in Session /\ Len(pm) = Len(ph) /\ s.ctl = "open" /\ pm # <<>>
      /\ (src = "answer" => w # <<>>)
  BY DEF Core, Replying, Paired
<1>2. pm \in Seq(Methods) /\ ph \in Seq(BOOLEAN) /\ w \in Seq(Request)
  BY <1>1 DEF Session
<1>3. y \in Session /\ Paired(y)
  BY <1>1, PopFacts DEF Calm, Core
<1>4. /\ Same(s, y) /\ y.pairStage = s.pairStage /\ y.requests = s.requests
      /\ y.pendingMethods = Tail(pm) /\ y.pendingIsHttp = Tail(ph)
      /\ y.wire = IF src = "answer" THEN Tail(w) ELSE w
      /\ y.rcvEnc = (s.rcvEnc \/ (src = "answer" /\ FALSE))
  <2>1. s \in Session
    BY <1>1
  <2> HIDE DEF pm, ph, w
  <2>2. /\ Same(s, y) /\ y.pairStage = s.pairStage /\ y.requests = s.requests
        /\ y.pendingMethods = Tail(s.pendingMethods)
        /\ y.pendingIsHttp = Tail(s.pendingIsHttp)
        /\ y.wire = IF src = "answer" THEN Tail(s.wire) ELSE s.wire
        /\ y.rcvEnc = (s.rcvEnc \/ (src = "answer" /\ FALSE))
    BY <2>1 DEF popFront, Session, Same
  <2> QED
    BY <2>2 DEF pm, ph, w
<1> HIDE DEF y, pm, ph, w
<1>5. y.state = "Streaming" /\ y.ctl = "open"
  BY <1>1, <1>4 DEF Same
<1>6. Scalars(y) /\ OneRequest(y)
  BY <1>4, <1>5 DEF Proto, Scalars, Keyed, Staged, Bounded, OneRequest, Same, Starting
<1>7. ASSUME ~StrayReplies PROVE InStep(y)
  <2>1. src = "answer"
    BY <1>7 DEF Replying, Sources
  <2>2. /\ Len(w) = Len(pm) /\ s.rcvEnc = s.controlEncrypted
        /\ \A i \in 1 .. Len(w) :
              /\ pm[i] = w[i].method /\ ph[i] = w[i].http
              /\ w[i].enc = s.controlEncrypted /\ ~w[i].http
    BY <1>1, <1>7 DEF Proto, InStep, pm, ph, w
  <2>3. y.rcvEnc = s.rcvEnc /\ y.controlEncrypted = s.controlEncrypted
    <3>1. s.rcvEnc \in BOOLEAN
      BY <1>1 DEF Session
    <3> QED
      BY <1>4, <3>1 DEF Same
  <2>4. w # <<>> /\ ph # <<>>
    BY <1>1, <1>2, <2>1
  <2>5. Len(Tail(w)) = Len(w) - 1 /\ \A i \in 1 .. (Len(w) - 1) : Tail(w)[i] = w[i + 1]
    BY <1>2, <2>4
  <2>6. Len(Tail(pm)) = Len(pm) - 1 /\ \A i \in 1 .. (Len(pm) - 1) : Tail(pm)[i] = pm[i + 1]
    BY <1>1, <1>2
  <2>7. \A i \in 1 .. (Len(ph) - 1) : Tail(ph)[i] = ph[i + 1]
    BY <1>2, <2>4
  <2>8. ASSUME NEW i \in 1 .. Len(y.wire)
        PROVE  /\ y.pendingMethods[i] = y.wire[i].method /\ y.pendingIsHttp[i] = y.wire[i].http
               /\ y.wire[i].enc = s.controlEncrypted /\ ~y.wire[i].http
    <3>1. i \in 1 .. (Len(w) - 1) /\ i + 1 \in 1 .. Len(w) /\ Len(w) = Len(pm) /\ Len(w) = Len(ph)
      BY <1>1, <1>2, <1>4, <2>1, <2>2, <2>5
    <3>2. y.wire[i] = w[i + 1] /\ y.pendingMethods[i] = pm[i + 1] /\ y.pendingIsHttp[i] = ph[i + 1]
      BY <1>4, <2>1, <2>5, <2>6, <2>7, <3>1
    <3> QED
      BY <2>2, <3>1, <3>2
  <2> QED
    BY <1>4, <1>5, <2>1, <2>2, <2>3, <2>5, <2>6, <2>8 DEF InStep
<1> QED
  BY <1>3, <1>5, <1>6, <1>7 DEF Live, Proto, y

\* startStreaming_ with nothing outstanding, from a set-up whose keys are in order.
LEMMA LaunchProto ==
    ASSUME NEW x, Between(x), Keyed(x), x.requests <= 13, x.state = "Handshake",
           ~x.waitingForPin, ~StrayReplies => x.rcvEnc = x.controlEncrypted
    PROVE  Proto(startStreaming_(x))
<1> DEFINE vol == IF x.cfg.airplay2 /\ x.pendingVolume = "none"
                  THEN "default" ELSE x.pendingVolume
           w  == [x EXCEPT !.state = "Streaming", !.pendingVolume = vol]
           d  == disarm_(w, "timeout")
           y1 == arm_(d, "sync")
           n  == IF vol = "none" THEN 0 ELSE 1
           p  == SetParameters(y1, n)
           y2 == arm_(p, "pacer")
           y3 == IF x.cfg.airplay2 THEN arm_(y2, "feedback") ELSE sendRequest_(y2, "POST")
           z  == sendMetadata_(y3)
<1>0. x \in Session
  BY DEF Between
<1>1. w \in Session
  <2>1. vol \in {"none", "user", "default"} /\ "Streaming" \in States
    BY <1>0 DEF Session, States
  <2>2. ASSUME NEW v \in {"none", "user", "default"}, NEW st \in States
        PROVE  [x EXCEPT !.state = st, !.pendingVolume = v] \in Session
    BY <1>0 DEF Session
  <2> HIDE DEF vol
  <2> QED
    BY <2>1, <2>2
<1>2. /\ w.state = "Streaming" /\ w.ctl = x.ctl /\ w.requests = x.requests
      /\ w.cfg = x.cfg /\ w.authMethod = x.authMethod /\ w.ap2 = x.ap2
      /\ w.proved = x.proved /\ w.controlEncrypted = x.controlEncrypted
      /\ w.waitingForPin = x.waitingForPin /\ w.rcvEnc = x.rcvEnc /\ w.wire = x.wire
      /\ w.pendingMethods = x.pendingMethods /\ w.pendingIsHttp = x.pendingIsHttp
  BY <1>0 DEF Session
<1>a. n \in 0..2
  OBVIOUS
<1> HIDE DEF w, n
<1>3. Live(w)
  <2>1. Keyed(w)
    BY <1>2 DEF Keyed
  <2>2. Staged(w) /\ OneRequest(w) /\ Bounded(w)
    BY <1>2 DEF Staged, OneRequest, Bounded, Starting
  <2>3. ~StrayReplies => InStep(w)
    BY <1>2 DEF InStep, Between
  <2> QED
    BY <1>1, <1>2, <2>1, <2>2, <2>3 DEF Live, Proto, Scalars, Between, Paired
<1>4. Live(d)
  BY <1>3, LiveSend, Literals
<1> HIDE DEF d
<1>5. Live(y1)
  BY <1>4, LiveSend, Literals
<1> HIDE DEF y1
<1>6. Live(p)
  BY <1>5, <1>a, LiveParameters
<1> HIDE DEF p
<1>7. Live(y2)
  BY <1>6, LiveSend, Literals
<1> HIDE DEF y2
<1>8. Live(y3)
  BY <1>7, LiveSend, Literals
<1> HIDE DEF y3
<1>9. Live(z)
  <2>1. y3.nowPlaying \in 0..2
    BY <1>8 DEF Live, Session
  <2> QED
    BY <1>8, <2>1, LiveParameters DEF sendMetadata_
<1> HIDE DEF z
<1>10. startStreaming_(x) = [z EXCEPT !.launched = Saturate(@, 2)]
  BY DEF startStreaming_, z, y3, y2, p, y1, d, w, n
<1>11. Same(z, startStreaming_(x)) /\ SameQueue(z, startStreaming_(x))
  BY <1>9, <1>10 DEF Live, Session, Same, SameQueue
<1> QED
  BY <1>9, <1>11, SameProto DEF Live

----------------------------------------------------------------------------
(* The next request of a starting session. *)

\* The sender has taken a reply and is about to send the next request.
Ready(x) ==
    /\ Between(x) /\ Keyed(x) /\ ~x.waitingForPin
    /\ x.state \in {"Pairing", "Handshake"}
    /\ ~StrayReplies => x.rcvEnc = x.controlEncrypted

\* How many requests are left at each stage.
LEMMA LeftTable ==
    ASSUME NEW x, x.state # "Connecting"
    PROVE  /\ x.pairStage = "AuthSetup" => Left(x) = 5
           /\ x.pairStage = "PinStart" => Left(x) = IF x.triedTransientAfterPin403 THEN 9 ELSE 11
           /\ x.pairStage = "SetupM2" =>
                 Left(x) = IF x.authMethod = "HapPin" THEN 8
                           ELSE IF x.triedTransientAfterPin403 THEN 10 ELSE 12
           /\ x.pairStage = "SetupM4" => Left(x) = 7
           /\ x.pairStage = "SetupM6" => Left(x) = 6
           /\ x.pairStage = "VerifyM2" => Left(x) = 5
           /\ x.pairStage = "VerifyDone" => Left(x) = 4
           /\ x.pairStage = "Ap2Info" => Left(x) = 3
           /\ x.pairStage = "Ap2Session" => Left(x) = 2
           /\ x.pairStage = "Ap2Record" => Left(x) = 1
           /\ x.pairStage = "Ap2Stream" => Left(x) = 0
           /\ x.pairStage \in Plain =>
                 Left(x) = After(Token(x)) + (IF x.digestRetried THEN 0 ELSE 1)
BY DEF Left, Plain

\* An HTTP request of the stage it moves to.
LEMMA HttpStep ==
    ASSUME NEW x, Ready(x), NEW z, NEW m, NEW stage \in Stages, stage \notin Plain,
           Sent(x, z, m, stage, stage), Staged(z), x.requests + 1 + Left(z) <= 13
    PROVE  Proto(z)
<1>1. /\ Same(x, z) /\ z.pairStage = stage /\ (x.state \in Starting => z.requests = x.requests + 1)
  BY AskFields DEF Ready
<1>2. IsHttp(stage)
  BY DEF IsHttp, Plain
<1>3. x.state \in Starting /\ x.state # "Connecting" /\ x.state # "Streaming"
      /\ (x.controlEncrypted => x.ap2 # "null")
  BY DEF Ready, Starting, Keyed
<1>4. Keyed(z)
  BY <1>1 DEF Ready, Keyed, Same
<1>5. Bounded(z)
  BY <1>1, <1>3 DEF Bounded, Same, Starting
<1>6. Scalars(z)
  BY <1>4, <1>5 DEF Scalars
<1> QED
  BY <1>2, <1>3, <1>6, AskProto DEF Ready

\* A plain RTSP request of the AirPlay 1 handshake.
LEMMA PlainStep ==
    ASSUME NEW x, Ready(x), x.state = "Handshake", x.pairStage \in Plain,
           NEW z, NEW m, Sent(x, z, m, "None", x.pairStage),
           x.requests + 1 + After(m) + (IF x.digestRetried THEN 0 ELSE 1) <= 13
    PROVE  Proto(z)
<1>1. /\ Same(x, z) /\ z.pairStage = x.pairStage /\ Token(z) = m
      /\ (x.state \in Starting => z.requests = x.requests + 1)
  BY AskFields DEF Ready
<1>2. IsHttp("None") = FALSE
  BY DEF IsHttp
<1>3. x.state \in Starting /\ (x.controlEncrypted => x.ap2 # "null")
  BY DEF Ready, Starting, Keyed
<1>4. z.state = "Handshake" /\ z.pairStage \in Plain /\ ~z.waitingForPin
  BY <1>1 DEF Same, Ready
<1>5. Keyed(z) /\ Staged(z)
  <2>1. Keyed(z)
    BY <1>1 DEF Ready, Keyed, Same
  <2>2. Staged(z)
    BY <1>4 DEF Staged, Plain
  <2> QED
    BY <2>1, <2>2
<1>6. Left(z) = After(m) + (IF x.digestRetried THEN 0 ELSE 1)
  BY <1>1, <1>4, LeftTable DEF Same
<1>7. x.requests \in Nat /\ After(m) \in Nat
  BY DEF Ready, Between, Session, After
<1>8. Bounded(z)
  <2>1. z.requests + Left(z) <= 13
    BY <1>1, <1>3, <1>6, <1>7
  <2> QED
    BY <1>4, <2>1 DEF Bounded
<1>9. Scalars(z)
  BY <1>5, <1>8 DEF Scalars
<1> QED
  BY <1>2, <1>3, <1>9, AskProto DEF Ready

\* A reply to a starting session, and what was known before it.
LEMMA ReplyReady ==
    ASSUME Core(s), Proto(s), NEW src \in Sources, Replying(src), NEW keyed \in BOOLEAN,
           s.state \in Starting
    PROVE  LET y == popFront(s, src, keyed)
           IN  /\ y \in Session /\ Between(y) /\ Keyed(y) /\ ~y.waitingForPin
               /\ Same(s, y) /\ y.pairStage = s.pairStage /\ y.requests = s.requests
               /\ ~StrayReplies => y.rcvEnc = (s.controlEncrypted \/ keyed)
               /\ y.state \in {"Pairing", "Handshake"} /\ s.state \in {"Pairing", "Handshake"}
               /\ s.requests \in Nat /\ s.requests + Left(s) <= 13
               /\ Staged(s) /\ Keyed(s) /\ s \in Session
               /\ Proto(fail_(y))
<1> DEFINE y == popFront(s, src, keyed)
<1>1. /\ Between(y) /\ Same(s, y) /\ y.pairStage = s.pairStage /\ y.requests = s.requests
      /\ ~s.waitingForPin /\ s.state \in {"Pairing", "Handshake"}
      /\ ~StrayReplies => y.rcvEnc = (s.controlEncrypted \/ keyed)
  BY PopStarting
<1> HIDE DEF y
<1>2. y \in Session /\ s \in Session
  BY <1>1 DEF Between, Core
<1>3. s.requests \in Nat /\ s.requests + Left(s) <= 13 /\ Staged(s) /\ Keyed(s)
  BY <1>2 DEF Proto, Scalars, Bounded, Session
<1>4. Keyed(y) /\ ~y.waitingForPin /\ y.state \in {"Pairing", "Handshake"}
  BY <1>1, <1>3 DEF Keyed, Same
<1>5. Over(s, fail_(y))
  <2>1. Over(y, fail_(y))
    BY <1>2, FailView
  <2> QED
    BY <1>1, <2>1 DEF Over, Same
<1>6. Proto(fail_(y))
  BY <1>2, <1>5, OverProto
<1> QED
  BY <1>1, <1>2, <1>3, <1>4, <1>6 DEF y

\* A pairing reply is one to a starting session at the stage it names.
LEMMA PairingReady ==
    ASSUME Core(s), Proto(s), NEW src \in Sources, NEW stage, PairingReply(src, stage),
           NEW keyed \in BOOLEAN
    PROVE  LET y == popFront(s, src, keyed)
           IN  /\ y \in Session /\ Between(y) /\ Keyed(y) /\ ~y.waitingForPin
               /\ Same(s, y) /\ y.pairStage = s.pairStage /\ y.requests = s.requests
               /\ ~StrayReplies => y.rcvEnc = (s.controlEncrypted \/ keyed)
               /\ s.requests \in Nat /\ s.requests + Left(s) <= 13
               /\ Staged(s) /\ Keyed(s) /\ s \in Session
               /\ s.pairStage = stage /\ s.state \in Starting /\ s.state # "Connecting"
               /\ stage \in PairStages => s.state = "Pairing" /\ ~s.controlEncrypted
               /\ stage \in SetupStages => s.state = "Handshake"
               /\ stage \notin {"None", "AuthSetup", "Done"} =>
                     s.ap2 # "null" /\ s.authMethod \in Hap
               /\ keyed = FALSE => Ready(y)
               /\ Proto(fail_(y))
<1> DEFINE y == popFront(s, src, keyed)
<1>1. Replying(src) /\ s.state \in Starting /\ s.pairStage = stage
  BY DEF PairingReply
<1>2. /\ y \in Session /\ Between(y) /\ Keyed(y) /\ ~y.waitingForPin
      /\ Same(s, y) /\ y.pairStage = s.pairStage /\ y.requests = s.requests
      /\ ~StrayReplies => y.rcvEnc = (s.controlEncrypted \/ keyed)
      /\ y.state \in {"Pairing", "Handshake"} /\ s.state \in {"Pairing", "Handshake"}
      /\ s.requests \in Nat /\ s.requests + Left(s) <= 13
      /\ Staged(s) /\ Keyed(s) /\ s \in Session
      /\ Proto(fail_(y))
  BY <1>1, ReplyReady
<1> HIDE DEF y
<1>3. s.controlEncrypted \in BOOLEAN /\ y.controlEncrypted = s.controlEncrypted
  BY <1>2 DEF Session, Same
<1>4. keyed = FALSE => Ready(y)
  BY <1>2, <1>3 DEF Ready
<1>5. stage \in PairStages => s.state = "Pairing" /\ ~s.controlEncrypted
  BY <1>1, <1>2 DEF Staged, PairStages, SetupStages, Plain
<1>6. stage \in SetupStages => s.state = "Handshake"
  BY <1>1, <1>2 DEF Staged, PairStages, SetupStages
<1>7. stage \notin {"None", "AuthSetup", "Done"} => s.ap2 # "null" /\ s.authMethod \in Hap
  BY <1>1, <1>2 DEF Staged
<1>8. s.state # "Connecting"
  BY <1>2
<1> QED
  BY <1>1, <1>2, <1>4, <1>5, <1>6, <1>7, <1>8 DEF y

\* The stages of pairing and of the AirPlay 2 set-up.
LEMMA StageSets ==
    /\ PairStages \subseteq Stages /\ SetupStages \subseteq Stages
    /\ \A st \in PairStages \cup SetupStages : st \notin Plain
    /\ \A st \in {"AuthSetup", "PinStart", "SetupM2", "SetupM4", "SetupM6", "VerifyM2",
                  "VerifyDone"} : st \in PairStages
    /\ \A st \in {"Ap2Info", "Ap2Session", "Ap2Record", "Ap2Stream"} : st \in SetupStages
BY DEF PairStages, SetupStages, Stages, Plain

\* The next pairing request, from a record that is ready for it.
LEMMA NextPairing ==
    ASSUME NEW w, Ready(w), w.state = "Pairing", ~w.controlEncrypted,
           NEW z, NEW stage \in PairStages \ {"AuthSetup"},
           Sent(w, z, "POST", stage, stage),
           w.ap2 # "null", w.authMethod \in Hap,
           stage = "PinStart" => w.authMethod = "HapPin",
           stage = "VerifyDone" => w.ap2 = "verified" /\ (w.cfg.strict => w.proved),
           w.requests + 1 + Left(z) <= 13
    PROVE  Proto(z)
<1>1. Same(w, z) /\ z.pairStage = stage
  BY DEF Sent
<1>2. Staged(z)
  BY <1>1 DEF Staged, Same, Ready, Starting, PairStages
<1> QED
  BY <1>2, HttpStep, StageSets

\* The next AirPlay 2 set-up request.
LEMMA NextSetup ==
    ASSUME NEW w, Ready(w), w.state = "Handshake",
           NEW z, NEW m, NEW stage \in SetupStages, Sent(w, z, m, stage, stage),
           w.ap2 # "null", w.authMethod \in Hap, w.requests + 1 + Left(z) <= 13
    PROVE  Proto(z)
<1>1. Same(w, z) /\ z.pairStage = stage
  BY DEF Sent
<1>2. Staged(z)
  BY <1>1 DEF Staged, Same, Ready, Starting, SetupStages
<1> QED
  BY <1>2, HttpStep, StageSets

\* afterAuthOk_: the AirPlay 1 handshake in the clear, or the AirPlay 2 set-up
\* encrypted.
LEMMA AuthOkProto ==
    ASSUME NEW d, Between(d), Keyed(d), ~d.waitingForPin, d.pairStage = "Done",
           ~d.controlEncrypted, d.cfg.airplay2 \in BOOLEAN,
           d.requests + 5 <= 13 \/ (d.cfg.airplay2 /\ d.requests + 4 <= 13),
           d.cfg.airplay2 => /\ d.ap2 \in {"transient", "verified"} /\ d.authMethod \in Hap
                             /\ d.cfg.strict => d.proved,
           ~StrayReplies => d.rcvEnc = d.cfg.airplay2
    PROVE  Proto(afterAuthOk_(d))
<1> DEFINE y == [d EXCEPT !.digestRetried = FALSE, !.state = "Handshake"]
           e == y.controlEncrypted \/ d.ap2 \in {"transient", "verified"}
           w == [y EXCEPT !.controlEncrypted = e]
<1>1. d \in Session /\ d.requests \in Nat
  BY DEF Between, Session
<1>2. y \in Session
  BY <1>1 DEF Session, States
<1>3. /\ y.state = "Handshake" /\ y.digestRetried = FALSE
      /\ y.cfg = d.cfg /\ y.authMethod = d.authMethod /\ y.ap2 = d.ap2 /\ y.proved = d.proved
      /\ y.waitingForPin = d.waitingForPin /\ y.controlEncrypted = d.controlEncrypted
      /\ y.ctl = d.ctl /\ y.pairStage = d.pairStage /\ y.requests = d.requests
      /\ y.pendingMethods = d.pendingMethods /\ y.pendingIsHttp = d.pendingIsHttp
      /\ y.wire = d.wire /\ y.rcvEnc = d.rcvEnc
  BY <1>1 DEF Session
<1> HIDE DEF y
<1>4. Between(y)
  BY <1>2, <1>3 DEF Between
<1>5. CASE ~d.cfg.airplay2
  <2> DEFINE z == sendRequest_(y, "OPTIONS")
  <2>1. afterAuthOk_(d) = z
    BY <1>5 DEF afterAuthOk_, y
  <2>2. Sent(y, z, "OPTIONS", "None", y.pairStage)
    BY <1>2, SendView, Literals
  <2> HIDE DEF z
  <2>3. Keyed(y)
    BY <1>3, <1>5 DEF Keyed
  <2>4. Ready(y)
    <3>1. d.controlEncrypted = FALSE /\ d.cfg.airplay2 = FALSE
      BY <1>1, <1>5 DEF Session
    <3>2. ~StrayReplies => y.rcvEnc = y.controlEncrypted
      BY <1>3, <3>1
    <3> QED
      BY <1>3, <1>4, <2>3, <3>2 DEF Ready
  <2>5. y.requests + 1 + After("OPTIONS") + (IF y.digestRetried THEN 0 ELSE 1) <= 13
    BY <1>1, <1>3, <1>5 DEF After
  <2>6. y.pairStage \in Plain
    BY <1>3 DEF Plain
  <2> QED
    BY <1>3, <2>1, <2>2, <2>4, <2>5, <2>6, PlainStep
<1>6. CASE d.cfg.airplay2
  <2>1. w \in Session /\ w.controlEncrypted
    <3>1. e = TRUE
      BY <1>6
    <3> HIDE DEF e
    <3> QED
      BY <1>2, <3>1 DEF Session
  <2>2. /\ w.state = y.state /\ w.digestRetried = y.digestRetried
        /\ w.cfg = y.cfg /\ w.authMethod = y.authMethod /\ w.ap2 = y.ap2 /\ w.proved = y.proved
        /\ w.waitingForPin = y.waitingForPin
        /\ w.ctl = y.ctl /\ w.requests = y.requests
        /\ w.pendingMethods = y.pendingMethods /\ w.pendingIsHttp = y.pendingIsHttp
        /\ w.wire = y.wire /\ w.rcvEnc = y.rcvEnc
    BY <1>2 DEF Session
  <2> DEFINE z == sendAp2Rtsp_(w, "GET", "Ap2Info")
  <2>3. afterAuthOk_(d) = z
    <3>1. w = [y EXCEPT !.controlEncrypted = @ \/ d.ap2 \in {"transient", "verified"}]
      BY <1>2 DEF Session
    <3> HIDE DEF w
    <3> QED
      BY <1>6, <3>1 DEF afterAuthOk_, y
  <2> HIDE DEF w
  <2>4. Sent(w, z, "GET", "Ap2Info", "Ap2Info")
    BY <2>1, Ap2View, Literals
  <2> HIDE DEF z
  <2>5. Keyed(w)
    BY <1>3, <1>6, <2>1, <2>2 DEF Keyed
  <2>6. Ready(w)
    <3>1. ~StrayReplies => w.rcvEnc = w.controlEncrypted
      <4>1. w.controlEncrypted = TRUE
        BY <2>1 DEF Session
      <4>2. d.cfg.airplay2 = TRUE
        BY <1>6
      <4> QED
        BY <1>3, <2>2, <4>1, <4>2
    <3> QED
      BY <1>3, <1>4, <2>1, <2>2, <2>5, <3>1 DEF Ready, Between
  <2>7. w.requests + 1 + Left(z) <= 13
    <3>1. z.state = "Handshake" /\ z.pairStage = "Ap2Info"
      BY <1>3, <2>2, <2>4 DEF Sent, Same
    <3>2. Left(z) = 3
      BY <3>1, LeftTable
    <3> QED
      BY <1>1, <1>3, <1>6, <2>2, <3>2
  <2>8. w.state = "Handshake" /\ w.ap2 # "null" /\ w.authMethod \in Hap
    BY <1>3, <1>6, <2>2
  <2>9. "Ap2Info" \in SetupStages
    BY DEF SetupStages
  <2> QED
    BY <2>3, <2>4, <2>6, <2>7, <2>8, <2>9, NextSetup
<1> QED
  BY <1>5, <1>6

----------------------------------------------------------------------------
(* One step per action: replies to pairing and set-up requests. *)

\* The AirPlay 2 set-up: four requests, then streaming.
LEMMA SetupReplies ==
    ASSUME Core(s), Proto(s), NEW src \in Sources, NEW port \in BOOLEAN,
           OnAp2Info(src) \/ OnAp2Session(src, port) \/ OnAp2RecordReply(src)
               \/ OnAp2Stream(src, port)
    PROVE  Proto(s')
<1> DEFINE y == popFront(s, src, FALSE)
<1>1. ASSUME NEW stage \in SetupStages, PairingReply(src, stage)
      PROVE  /\ y \in Session /\ Ready(y) /\ y.state = "Handshake" /\ y.ap2 # "null"
             /\ y.authMethod \in Hap /\ y.requests \in Nat /\ s.pairStage = stage
             /\ y.requests + Left(s) <= 13 /\ s.state # "Connecting"
             /\ Proto(fail_(y))
  <2>1. stage \notin {"None", "AuthSetup", "Done"}
    BY DEF SetupStages
  <2>2. /\ y \in Session /\ Ready(y) /\ Same(s, y) /\ y.requests = s.requests
        /\ s.state = "Handshake" /\ s.ap2 # "null" /\ s.authMethod \in Hap
        /\ s.requests \in Nat /\ s.requests + Left(s) <= 13 /\ s.pairStage = stage
        /\ s.state # "Connecting" /\ Proto(fail_(y))
    BY <1>1, <2>1, PairingReady
  <2> HIDE DEF y
  <2> QED
    BY <2>2 DEF Same
<1>2. ASSUME NEW w, w \in Session, Ready(w), w.state = "Handshake", w.ap2 # "null",
             w.authMethod \in Hap, w.requests \in Nat, NEW m \in Methods,
             NEW stage \in SetupStages, NEW n \in Nat, w.requests + n <= 13,
             \/ stage = "Ap2Session" /\ n = 3
             \/ stage = "Ap2Record" /\ n = 2
             \/ stage = "Ap2Stream" /\ n = 1
      PROVE  Proto(sendAp2Rtsp_(w, m, stage))
  <2> DEFINE z == sendAp2Rtsp_(w, m, stage)
  <2>1. Sent(w, z, m, stage, stage)
    BY <1>2, Ap2View, StageSets
  <2> HIDE DEF z
  <2>2. z.state # "Connecting" /\ z.pairStage = stage
    BY <1>2, <2>1 DEF Sent, Same
  <2>3. Left(z) = n - 1
    BY <1>2, <2>2, LeftTable
  <2>4. w.requests + 1 + Left(z) <= 13
    BY <1>2, <2>3
  <2> QED
    BY <1>2, <2>1, <2>4, NextSetup DEF z
<1>3. CASE OnAp2Info(src)
  <2>1. PairingReply(src, "Ap2Info") /\ s' = sendAp2Rtsp_(y, "SETUP", "Ap2Session")
    BY <1>3 DEF OnAp2Info
  <2>2. /\ y \in Session /\ Ready(y) /\ y.state = "Handshake" /\ y.ap2 # "null"
        /\ y.authMethod \in Hap /\ y.requests \in Nat
        /\ y.requests + Left(s) <= 13 /\ s.state # "Connecting" /\ s.pairStage = "Ap2Info"
    BY <1>1, <2>1, StageSets
  <2>3. y.requests + 3 <= 13
    BY <2>2, LeftTable
  <2> HIDE DEF y
  <2> QED
    BY <1>2, <2>1, <2>2, <2>3, StageSets, Literals
<1>4. CASE OnAp2Session(src, port)
  <2> DEFINE v == IF port THEN "connecting" ELSE y.evt
             w == [y EXCEPT !.evt = v]
  <2>0. PairingReply(src, "Ap2Session")
    BY <1>4 DEF OnAp2Session
  <2>2. /\ y \in Session /\ Ready(y) /\ y.state = "Handshake" /\ y.ap2 # "null"
        /\ y.authMethod \in Hap /\ y.requests \in Nat
        /\ y.requests + Left(s) <= 13 /\ s.state # "Connecting" /\ s.pairStage = "Ap2Session"
    BY <1>1, <2>0, StageSets
  <2>1. s' = sendAp2Rtsp_(w, "RECORD", "Ap2Record")
    BY <1>4, <2>2 DEF OnAp2Session, Session
  <2>3. y.requests + 2 <= 13
    BY <2>2, LeftTable
  <2> HIDE DEF y
  <2>4. v \in {"closed", "connecting", "open"}
    BY <2>2 DEF Session
  <2> HIDE DEF v
  <2>5. w \in Session
    BY <2>2, <2>4 DEF Session
  <2>6. Same(y, w) /\ SameQueue(y, w)
    BY <2>2 DEF Session, Same, SameQueue
  <2> HIDE DEF w
  <2>7. Ready(w)
    BY <2>2, <2>5, <2>6 DEF Ready, Between, Keyed, Same, SameQueue
  <2>8. w.state = "Handshake" /\ w.ap2 # "null" /\ w.authMethod \in Hap /\ w.requests = y.requests
    BY <2>2, <2>6 DEF Same, SameQueue
  <2> QED
    BY <1>2, <2>1, <2>2, <2>3, <2>5, <2>7, <2>8, StageSets, Literals
<1>5. CASE OnAp2RecordReply(src)
  <2>1. PairingReply(src, "Ap2Record") /\ s' = sendAp2Rtsp_(y, "SETUP", "Ap2Stream")
    BY <1>5 DEF OnAp2RecordReply
  <2>2. /\ y \in Session /\ Ready(y) /\ y.state = "Handshake" /\ y.ap2 # "null"
        /\ y.authMethod \in Hap /\ y.requests \in Nat
        /\ y.requests + Left(s) <= 13 /\ s.state # "Connecting" /\ s.pairStage = "Ap2Record"
    BY <1>1, <2>1, StageSets
  <2>3. y.requests + 1 <= 13
    BY <2>2, LeftTable
  <2> HIDE DEF y
  <2> QED
    BY <1>2, <2>1, <2>2, <2>3, StageSets, Literals
<1>6. CASE OnAp2Stream(src, port)
  <2>1. PairingReply(src, "Ap2Stream") /\ s' \in {startStreaming_(y), fail_(y)}
    BY <1>6 DEF OnAp2Stream
  <2>2. /\ y \in Session /\ Ready(y) /\ y.state = "Handshake" /\ y.requests \in Nat
        /\ y.requests + Left(s) <= 13 /\ s.state # "Connecting" /\ s.pairStage = "Ap2Stream"
        /\ Proto(fail_(y))
    BY <1>1, <2>1, StageSets
  <2>3. y.requests <= 13
    <3>1. Left(s) = 0
      BY <2>2, LeftTable
    <3> HIDE DEF y
    <3> QED
      BY <2>2, <3>1
  <2> HIDE DEF y
  <2>4. Proto(startStreaming_(y))
    BY <2>2, <2>3, LaunchProto DEF Ready
  <2> QED
    BY <2>1, <2>2, <2>4
<1> QED
  BY <1>3, <1>4, <1>5, <1>6

\* auth-setup is followed by the AirPlay 1 handshake, in the clear.
LEMMA AuthSetupReplied ==
    ASSUME Core(s), Proto(s), NEW src \in Sources, OnAuthSetupReply(src)
    PROVE  Proto(s')
<1> DEFINE y == popFront(s, src, FALSE)
           d == [y EXCEPT !.pairStage = "Done"]
<1>1. PairingReply(src, "AuthSetup") /\ s.authMethod = "AuthSetup" /\ s' = afterAuthOk_(d)
  BY DEF OnAuthSetupReply
<1>2. /\ y \in Session /\ Ready(y) /\ Same(s, y) /\ y.requests = s.requests
      /\ s.requests \in Nat /\ s.requests + Left(s) <= 13 /\ s.pairStage = "AuthSetup"
      /\ s.state = "Pairing" /\ ~s.controlEncrypted /\ s.state # "Connecting"
  BY <1>1, PairingReady, StageSets
<1> HIDE DEF y
<1>3. y.requests + 5 <= 13
  BY <1>2, LeftTable
<1>4. d \in Session
  BY <1>2, Literals DEF Session
<1>5. Same(y, d) /\ d.pairStage = "Done" /\ d.requests = y.requests /\ d.rcvEnc = y.rcvEnc
      /\ d.pendingMethods = y.pendingMethods /\ d.pendingIsHttp = y.pendingIsHttp
      /\ d.wire = y.wire
  BY <1>2 DEF Session, Same
<1> HIDE DEF d
<1>6. Between(d) /\ Keyed(d) /\ ~d.waitingForPin
  BY <1>2, <1>4, <1>5 DEF Ready, Between, Keyed, Same
<1>7. d.authMethod = "AuthSetup" /\ ~d.controlEncrypted /\ y.controlEncrypted = d.controlEncrypted
  BY <1>1, <1>2, <1>5 DEF Same
<1>8. d.cfg.airplay2 = FALSE /\ d.controlEncrypted = FALSE
  BY <1>4, <1>6, <1>7 DEF Session, Config, Keyed
<1>9. ~StrayReplies => d.rcvEnc = d.cfg.airplay2
  BY <1>2, <1>5, <1>7, <1>8 DEF Ready
<1>10. d.requests + 5 <= 13
  BY <1>3, <1>5
<1> QED
  BY <1>1, <1>5, <1>6, <1>8, <1>9, <1>10, AuthOkProto

\* What a pairing stage knows, and the next request it may send.
LEMMA PairingStage ==
    ASSUME Core(s), Proto(s), NEW src \in Sources, NEW stage \in PairStages \ {"AuthSetup"},
           PairingReply(src, stage)
    PROVE  LET y == popFront(s, src, FALSE)
           IN  /\ y \in Session /\ Ready(y) /\ Same(s, y) /\ y.requests = s.requests
               /\ s.requests \in Nat /\ s.requests + Left(s) <= 13 /\ s.pairStage = stage
               /\ s.state = "Pairing" /\ ~s.controlEncrypted
               /\ s.ap2 # "null" /\ s.authMethod \in Hap /\ s.cfg.airplay2
               /\ Staged(s) /\ Proto(fail_(y))
<1>1. stage \notin {"None", "AuthSetup", "Done"} /\ stage \in PairStages
  BY DEF PairStages
<1>2. LET y == popFront(s, src, FALSE)
      IN  /\ y \in Session /\ Ready(y) /\ Same(s, y) /\ y.requests = s.requests
          /\ s.requests \in Nat /\ s.requests + Left(s) <= 13 /\ s.pairStage = stage
          /\ s.state = "Pairing" /\ ~s.controlEncrypted
          /\ s.ap2 # "null" /\ s.authMethod \in Hap
          /\ Staged(s) /\ Keyed(s) /\ Proto(fail_(y))
  BY <1>1, PairingReady
<1>3. s.cfg.airplay2
  BY <1>2 DEF Keyed
<1> QED
  BY <1>2, <1>3

\* The next pairing request, with the requests left after it.
LEMMA PostProto ==
    ASSUME NEW w \in Session, Ready(w), w.state = "Pairing", ~w.controlEncrypted,
           NEW stage \in PairStages \ {"AuthSetup"},
           w.ap2 # "null", w.authMethod \in Hap,
           stage = "PinStart" => w.authMethod = "HapPin",
           stage = "VerifyDone" => w.ap2 = "verified" /\ (w.cfg.strict => w.proved),
           NEW n \in Nat, w.requests \in Nat, w.requests + 1 + n <= 13,
           \/ stage = "PinStart" /\ n = IF w.triedTransientAfterPin403 THEN 9 ELSE 11
           \/ stage = "SetupM2" /\ n = IF w.authMethod = "HapPin" THEN 8
                                      ELSE IF w.triedTransientAfterPin403 THEN 10 ELSE 12
           \/ stage = "SetupM4" /\ n = 7
           \/ stage = "SetupM6" /\ n = 6
           \/ stage = "VerifyM2" /\ n = 5
           \/ stage = "VerifyDone" /\ n = 4
    PROVE  Proto(httpPost_(w, stage))
<1> DEFINE z == httpPost_(w, stage)
<1>1. Sent(w, z, "POST", stage, stage)
  BY PostView, StageSets
<1> HIDE DEF z
<1>2. z.state # "Connecting" /\ z.pairStage = stage /\ z.authMethod = w.authMethod
      /\ z.triedTransientAfterPin403 = w.triedTransientAfterPin403
  BY <1>1 DEF Sent, Same
<1>3. Left(z) = n
  BY <1>2, LeftTable
<1>4. w.requests + 1 + Left(z) <= 13
  BY <1>3
<1> QED
  BY <1>1, <1>4, NextPairing DEF z

\* The fallbacks: each is taken once.
LEMMA PairingRefused ==
    ASSUME Core(s), Proto(s), NEW src \in Sources, NEW stage \in Stages, NEW code \in Refusals,
           OnPairingRefused(src, stage, code)
    PROVE  Proto(s')
<1> DEFINE y == popFront(s, src, FALSE)
           p == newAp2(y, "HapPin")
           u == [y EXCEPT !.triedTransientAfterPin403 = TRUE]
           r == newAp2(u, "HapTransient")
<1>1. /\ PairingReply(src, stage)
      /\ \/ s' = fail_(y)
         \/ s' = httpPost_(p, "PinStart") /\ stage = "SetupM2" /\ y.authMethod = "HapTransient"
         \/ s' = httpPost_(r, "SetupM2") /\ stage = "PinStart" /\ ~y.triedTransientAfterPin403
  BY DEF OnPairingRefused
<1>2. Proto(fail_(y))
  BY <1>1, PairingReady
<1>3. ASSUME stage \in {"SetupM2", "PinStart"}
      PROVE  /\ y \in Session /\ Ready(y) /\ Same(s, y) /\ y.requests = s.requests
             /\ s.requests \in Nat /\ s.requests + Left(s) <= 13 /\ s.pairStage = stage
             /\ s.state = "Pairing" /\ ~s.controlEncrypted /\ s.cfg.airplay2
  <2>1. stage \in PairStages \ {"AuthSetup"}
    BY <1>3 DEF PairStages
  <2> QED
    BY <1>1, <2>1, PairingStage
<1> HIDE DEF y
\* A record with a fresh ap2_ is ready for the next request.
<1>4. ASSUME NEW x \in Session, Ready(x), x.state = "Pairing", ~x.controlEncrypted,
             x.cfg.airplay2, NEW a \in Hap
      PROVE  LET f == newAp2(x, a)
             IN  /\ f \in Session /\ Ready(f) /\ f.state = "Pairing" /\ ~f.controlEncrypted
                 /\ f.ap2 # "null" /\ f.authMethod = a /\ f.requests = x.requests
                 /\ f.triedTransientAfterPin403 = x.triedTransientAfterPin403
  <2> DEFINE f == newAp2(x, a)
  <2>1. a \in Auths /\ a # "AuthSetup"
    BY DEF Auths, Hap
  <2>2. f \in Session
    BY <2>1 DEF Session, newAp2
  <2>3. /\ f.state = x.state /\ f.cfg = x.cfg /\ f.authMethod = a /\ f.ap2 = "fresh"
        /\ f.triedTransientAfterPin403 = x.triedTransientAfterPin403
        /\ f.waitingForPin = x.waitingForPin /\ f.controlEncrypted = x.controlEncrypted
        /\ f.ctl = x.ctl /\ f.requests = x.requests /\ f.pendingMethods = x.pendingMethods
        /\ f.pendingIsHttp = x.pendingIsHttp /\ f.wire = x.wire /\ f.rcvEnc = x.rcvEnc
    BY DEF Session, newAp2
  <2> HIDE DEF f
  <2>4. Keyed(f)
    BY <1>4, <2>1, <2>3 DEF Keyed, Ready
  <2>5. Between(f)
    BY <1>4, <2>2, <2>3 DEF Ready, Between
  <2>6. Ready(f)
    BY <1>4, <2>3, <2>4, <2>5 DEF Ready
  <2> QED
    BY <1>4, <2>2, <2>3, <2>6 DEF f
<1>5. CASE s' = httpPost_(p, "PinStart") /\ stage = "SetupM2" /\ y.authMethod = "HapTransient"
  <2>1. /\ y \in Session /\ Ready(y) /\ Same(s, y) /\ y.requests = s.requests
        /\ s.requests \in Nat /\ s.requests + Left(s) <= 13 /\ s.pairStage = stage
        /\ s.state = "Pairing" /\ ~s.controlEncrypted /\ s.cfg.airplay2
    BY <1>3, <1>5
  <2>2. y.state = "Pairing" /\ ~y.controlEncrypted /\ y.cfg.airplay2
        /\ s.authMethod = y.authMethod
        /\ y.triedTransientAfterPin403 = s.triedTransientAfterPin403
    BY <2>1 DEF Same
  <2>3. Left(s) = IF y.triedTransientAfterPin403 THEN 10 ELSE 12
    BY <1>5, <2>1, <2>2, LeftTable
  <2>4. "HapPin" \in Hap
    BY DEF Hap
  <2>5. /\ p \in Session /\ Ready(p) /\ p.state = "Pairing" /\ ~p.controlEncrypted
        /\ p.ap2 # "null" /\ p.authMethod = "HapPin" /\ p.requests = y.requests
        /\ p.triedTransientAfterPin403 = y.triedTransientAfterPin403
    BY <1>4, <2>1, <2>2, <2>4
  <2> HIDE DEF p
  <2> DEFINE n == IF p.triedTransientAfterPin403 THEN 9 ELSE 11
  <2>6. n \in Nat /\ p.requests \in Nat /\ p.requests + 1 + n <= 13
    BY <2>1, <2>3, <2>5
  <2>7. "PinStart" \in PairStages \ {"AuthSetup"}
    BY DEF PairStages
  <2> HIDE DEF n
  <2>8. n = IF p.triedTransientAfterPin403 THEN 9 ELSE 11
    BY DEF n
  <2> QED
    BY <1>5, <2>4, <2>5, <2>6, <2>7, <2>8, PostProto
<1>6. CASE s' = httpPost_(r, "SetupM2") /\ stage = "PinStart" /\ ~y.triedTransientAfterPin403
  <2>1. /\ y \in Session /\ Ready(y) /\ Same(s, y) /\ y.requests = s.requests
        /\ s.requests \in Nat /\ s.requests + Left(s) <= 13 /\ s.pairStage = stage
        /\ s.state = "Pairing" /\ ~s.controlEncrypted /\ s.cfg.airplay2
    BY <1>3, <1>6
  <2>2. y.state = "Pairing" /\ ~y.controlEncrypted /\ y.cfg.airplay2
        /\ ~s.triedTransientAfterPin403
    BY <1>6, <2>1 DEF Same
  <2>3. Left(s) = 11
    BY <1>6, <2>1, <2>2, LeftTable
  <2>4. u \in Session
    BY <2>1 DEF Session
  <2>5. /\ u.state = y.state /\ u.cfg = y.cfg /\ u.authMethod = y.authMethod /\ u.ap2 = y.ap2
        /\ u.triedTransientAfterPin403 /\ u.proved = y.proved
        /\ u.waitingForPin = y.waitingForPin /\ u.controlEncrypted = y.controlEncrypted
        /\ u.ctl = y.ctl /\ u.requests = y.requests /\ u.pendingMethods = y.pendingMethods
        /\ u.pendingIsHttp = y.pendingIsHttp /\ u.wire = y.wire /\ u.rcvEnc = y.rcvEnc
    BY <2>1 DEF Session
  <2> HIDE DEF u
  <2>6. Ready(u)
    BY <2>1, <2>4, <2>5 DEF Ready, Between, Keyed
  <2>7. "HapTransient" \in Hap /\ "HapTransient" # "HapPin"
    BY DEF Hap
  <2>a. u.state = "Pairing" /\ ~u.controlEncrypted /\ u.cfg.airplay2
    BY <2>2, <2>5
  <2>8. /\ r \in Session /\ Ready(r) /\ r.state = "Pairing" /\ ~r.controlEncrypted
        /\ r.ap2 # "null" /\ r.authMethod = "HapTransient" /\ r.requests = u.requests
        /\ r.triedTransientAfterPin403 = u.triedTransientAfterPin403
    BY <1>4, <2>4, <2>a, <2>6, <2>7
  <2> HIDE DEF r
  <2>9. r.requests \in Nat /\ r.requests + 1 + 10 <= 13
    BY <2>1, <2>3, <2>5, <2>8
  <2>10. "SetupM2" \in PairStages \ {"AuthSetup"}
    BY DEF PairStages
  <2>11. 10 = IF r.authMethod = "HapPin" THEN 8 ELSE IF r.triedTransientAfterPin403 THEN 10 ELSE 12
    BY <2>5, <2>8
  <2> QED
    BY <1>6, <2>7, <2>8, <2>9, <2>10, <2>11, PostProto
<1> QED
  BY <1>1, <1>2, <1>5, <1>6

\* PIN start, then pair-setup: M1 to M6 by way of the user, or transient.
LEMMA SetupStarted ==
    ASSUME Core(s), Proto(s), NEW src \in Sources, OnPinStartOk(src)
    PROVE  Proto(s')
<1> DEFINE y == popFront(s, src, FALSE)
<1>1. PairingReply(src, "PinStart") /\ s' = httpPost_(y, "SetupM2")
  BY DEF OnPinStartOk
<1>2. "PinStart" \in PairStages \ {"AuthSetup"} /\ "SetupM2" \in PairStages \ {"AuthSetup"}
  BY DEF PairStages
<1>3. /\ y \in Session /\ Ready(y) /\ Same(s, y) /\ y.requests = s.requests
      /\ s.requests \in Nat /\ s.requests + Left(s) <= 13 /\ s.pairStage = "PinStart"
      /\ s.state = "Pairing" /\ ~s.controlEncrypted
      /\ s.ap2 # "null" /\ s.authMethod \in Hap /\ Staged(s)
  BY <1>1, <1>2, PairingStage
<1> HIDE DEF y
<1>4. s.authMethod = "HapPin"
  BY <1>3 DEF Staged, Starting
<1>5. y.state = "Pairing" /\ ~y.controlEncrypted /\ y.ap2 # "null" /\ y.authMethod \in Hap
      /\ y.authMethod = "HapPin"
  BY <1>3, <1>4 DEF Same
<1>6. Left(s) >= 9 /\ Left(s) \in Nat
  BY <1>3, LeftTable
<1>7. y.requests \in Nat /\ y.requests + 1 + 8 <= 13
  BY <1>3, <1>6
<1>8. 8 = IF y.authMethod = "HapPin" THEN 8 ELSE IF y.triedTransientAfterPin403 THEN 10 ELSE 12
  BY <1>5
<1> QED
  BY <1>1, <1>2, <1>3, <1>5, <1>7, <1>8, PostProto

\* The salt and key of M2: on to M3, or the user is asked for the PIN.
LEMMA SetupM2Replied ==
    ASSUME Core(s), Proto(s), NEW src \in Sources, NEW body, NEW ok \in BOOLEAN,
           OnSetupM2(src, body, ok)
    PROVE  Proto(s')
<1> DEFINE y == popFront(s, src, FALSE)
           w == [y EXCEPT !.waitingForPin = TRUE]
           d == disarm_(w, "timeout")
           z == arm_(d, "pinTimeout")
<1>1. /\ PairingReply(src, "SetupM2")
      /\ s' \in {fail_(y), httpPost_(y, "SetupM4")} \/ (s' = z /\ y.authMethod # "HapTransient")
  BY DEF OnSetupM2, sendPairSetupM3_
<1>2. "SetupM2" \in PairStages \ {"AuthSetup"} /\ "SetupM4" \in PairStages \ {"AuthSetup"}
  BY DEF PairStages
<1>3. /\ y \in Session /\ Ready(y) /\ Same(s, y) /\ y.requests = s.requests
      /\ s.requests \in Nat /\ s.requests + Left(s) <= 13 /\ s.pairStage = "SetupM2"
      /\ s.state = "Pairing" /\ ~s.controlEncrypted
      /\ s.ap2 # "null" /\ s.authMethod \in Hap /\ Proto(fail_(y))
  BY <1>1, <1>2, PairingStage
<1>4. y.pairStage = s.pairStage
  BY <1>3 DEF popFront, Session
<1> HIDE DEF y
<1>5. y.state = "Pairing" /\ ~y.controlEncrypted /\ y.ap2 # "null" /\ y.authMethod \in Hap
  BY <1>3 DEF Same
<1>6. Left(s) >= 8 /\ Left(s) \in Nat
  BY <1>3, LeftTable
<1>7. Proto(httpPost_(y, "SetupM4"))
  <2>1. y.requests \in Nat /\ y.requests + 1 + 7 <= 13
    BY <1>3, <1>6
  <2> QED
    BY <1>2, <1>3, <1>5, <2>1, PostProto
<1>8. ASSUME y.authMethod # "HapTransient"
      PROVE  Proto(z)
  <2>1. w \in Session
    BY <1>3 DEF Session
  <2>2. /\ w.waitingForPin
        /\ w.state = y.state /\ w.cfg = y.cfg /\ w.authMethod = y.authMethod /\ w.ap2 = y.ap2
        /\ w.proved = y.proved /\ w.pairStage = y.pairStage
        /\ w.controlEncrypted = y.controlEncrypted
        /\ w.ctl = y.ctl /\ w.requests = y.requests /\ w.pendingMethods = y.pendingMethods
        /\ w.pendingIsHttp = y.pendingIsHttp /\ w.wire = y.wire /\ w.rcvEnc = y.rcvEnc
    BY <1>3 DEF Session
  <2> HIDE DEF w
  <2>3. y.authMethod = "HapPin"
    BY <1>5, <1>8 DEF Hap
  <2>4. Keyed(w)
    BY <1>3, <1>5, <2>2 DEF Keyed, Ready
  <2>5. Staged(w)
    BY <1>3, <1>4, <1>5, <2>2, <2>3 DEF Staged, Starting, PairStages
  <2>6. Bounded(w)
    <3>1. w.state # "Connecting" /\ w.pairStage = "SetupM2" /\ w.authMethod = "HapPin"
      BY <1>3, <1>4, <1>5, <2>2, <2>3
    <3>2. Left(w) = 8
      BY <3>1, LeftTable
    <3>3. w.requests + Left(w) <= 13
      BY <1>3, <1>6, <2>2, <3>2
    <3> QED
      BY <1>5, <2>2, <3>3 DEF Bounded
  <2>7. OneRequest(w) /\ (~StrayReplies => InStep(w))
    <3>1. w.pendingMethods = <<>> /\ w.pendingIsHttp = <<>> /\ w.ctl = "open"
          /\ (~StrayReplies => w.wire = <<>> /\ w.rcvEnc = w.controlEncrypted)
      BY <1>3, <2>2 DEF Ready, Between
    <3> QED
      BY <3>1 DEF OneRequest, InStep
  <2>8. Proto(w)
    BY <2>4, <2>5, <2>6, <2>7 DEF Proto, Scalars
  <2>9. d \in Session /\ Same(w, d) /\ SameQueue(w, d)
    BY <2>1, ArmFacts, ArmView, Literals
  <2> HIDE DEF d
  <2>10. Same(d, z) /\ SameQueue(d, z)
    BY <2>9, ArmView
  <2> HIDE DEF z
  <2> QED
    BY <2>8, <2>9, <2>10, SameProto
<1> QED
  BY <1>1, <1>3, <1>7, <1>8

\* M6 ends pair-setup; pair-verify follows, even after a stop() inside the callback.
LEMMA SetupM6Replied ==
    ASSUME Core(s), Proto(s), NEW src \in Sources, NEW body, NEW inside \in BOOLEAN,
           OnSetupM6(src, body, inside)
    PROVE  Proto(s')
<1> DEFINE y == popFront(s, src, FALSE)
           h == stop(y)
           z == httpPost_(h, "VerifyM2")
<1>1. /\ PairingReply(src, "SetupM6")
      /\ s' \in {fail_(y), z, httpPost_(y, "VerifyM2")}
  BY DEF OnSetupM6
<1>2. "SetupM6" \in PairStages \ {"AuthSetup"} /\ "VerifyM2" \in PairStages \ {"AuthSetup"}
  BY DEF PairStages
<1>3. /\ y \in Session /\ Ready(y) /\ Same(s, y) /\ y.requests = s.requests
      /\ s.requests \in Nat /\ s.requests + Left(s) <= 13 /\ s.pairStage = "SetupM6"
      /\ s.state = "Pairing" /\ ~s.controlEncrypted
      /\ s.ap2 # "null" /\ s.authMethod \in Hap /\ Proto(fail_(y))
  BY <1>1, <1>2, PairingStage
<1> HIDE DEF y
<1>4. y.state = "Pairing" /\ ~y.controlEncrypted /\ y.ap2 # "null" /\ y.authMethod \in Hap
  BY <1>3 DEF Same
<1>5. Left(s) = 6
  BY <1>3, LeftTable
<1>6. Proto(httpPost_(y, "VerifyM2"))
  <2>1. y.requests \in Nat /\ y.requests + 1 + 5 <= 13
    BY <1>3, <1>5
  <2> QED
    BY <1>2, <1>3, <1>4, <2>1, PostProto
\* stop() from inside credentialsObtained(): the request goes nowhere.
<1>7. Proto(z)
  <2>1. Over(y, h) /\ h \in Session
    BY <1>3, <1>4, StopView, StopFacts
  <2> HIDE DEF h
  <2>2. Over(s, h)
    BY <1>3, <2>1 DEF Over, Same
  <2>3. s \in Session
    BY DEF Core
  <2>4. Proto(h) /\ h.state = "Idle" /\ h.ctl = "closed" /\ h.wire = <<>>
    BY <2>2, <2>3, OverProto DEF Over
  <2>5. Sent(h, z, "POST", "VerifyM2", "VerifyM2")
    BY <2>1, PostView, Literals
  <2> HIDE DEF z
  <2> QED
    BY <2>4, <2>5, IdleSend
<1> QED
  BY <1>1, <1>3, <1>6, <1>7

\* The last pairing step of either kind: the receiver's proof is looked at, and in
\* strict mode a session without it ends.
LEMMA SetupM4Replied ==
    ASSUME Core(s), Proto(s), NEW src \in Sources, NEW body \in {"good", "forged", "error"},
           OnSetupM4(src, body)
    PROVE  Proto(s')
<1> DEFINE transient == s.authMethod = "HapTransient"
           k == transient /\ body # "error"
           y == popFront(s, src, k)
           g == body = "good"
           d == [y EXCEPT !.pairStage = "Done", !.ap2 = "transient", !.proved = g]
<1>0. k \in BOOLEAN /\ g \in BOOLEAN
  OBVIOUS
<1>1. /\ PairingReply(src, "SetupM4")
      /\ \/ s' = fail_(y)
         \/ /\ body # "error" /\ ~(body = "forged" /\ y.cfg.strict)
            /\ s' = IF transient THEN afterAuthOk_(d) ELSE httpPost_(y, "SetupM6")
  BY DEF OnSetupM4
<1>2. "SetupM4" \in PairStages /\ "SetupM6" \in PairStages \ {"AuthSetup"}
      /\ "SetupM4" \notin {"None", "AuthSetup", "Done"}
  BY DEF PairStages
<1> HIDE DEF k
<1>3. /\ y \in Session /\ Between(y) /\ Keyed(y) /\ ~y.waitingForPin
      /\ Same(s, y) /\ y.requests = s.requests
      /\ ~StrayReplies => y.rcvEnc = (s.controlEncrypted \/ k)
      /\ s.requests \in Nat /\ s.requests + Left(s) <= 13 /\ Keyed(s) /\ s \in Session
      /\ s.pairStage = "SetupM4" /\ s.state = "Pairing" /\ ~s.controlEncrypted
      /\ s.ap2 # "null" /\ s.authMethod \in Hap
      /\ (k = FALSE => Ready(y)) /\ Proto(fail_(y))
  BY <1>0, <1>1, <1>2, PairingReady
<1> HIDE DEF y, g
<1>4. y.state = "Pairing" /\ ~y.controlEncrypted /\ y.ap2 # "null" /\ y.authMethod \in Hap
      /\ y.cfg = s.cfg /\ y.authMethod = s.authMethod
  BY <1>3 DEF Same
<1>5. Left(s) = 7
  BY <1>3, LeftTable
<1>6. CASE ~transient
  <2>1. Ready(y)
    BY <1>3, <1>6 DEF k
  <2>2. y.requests \in Nat /\ y.requests + 1 + 6 <= 13
    BY <1>3, <1>5
  <2>3. Proto(httpPost_(y, "SetupM6"))
    BY <1>2, <1>3, <1>4, <2>1, <2>2, PostProto
  <2> QED
    BY <1>1, <1>3, <1>6, <2>3
<1>7. CASE transient /\ body # "error" /\ ~(body = "forged" /\ y.cfg.strict)
  <2>1. d \in Session
    BY <1>0, <1>3, Literals DEF Session
  <2>2. /\ d.pairStage = "Done" /\ d.ap2 = "transient" /\ d.proved = g
        /\ d.state = y.state /\ d.cfg = y.cfg /\ d.authMethod = y.authMethod
        /\ d.controlEncrypted = y.controlEncrypted /\ d.waitingForPin = y.waitingForPin
        /\ d.ctl = y.ctl /\ d.requests = y.requests /\ d.pendingMethods = y.pendingMethods
        /\ d.pendingIsHttp = y.pendingIsHttp /\ d.wire = y.wire /\ d.rcvEnc = y.rcvEnc
    BY <1>3 DEF Session
  <2> HIDE DEF d
  <2>3. Between(d)
    BY <1>3, <2>1, <2>2 DEF Between
  <2>4. Keyed(d)
    BY <1>3, <1>4, <2>2 DEF Keyed
  <2>5. d.cfg.airplay2 = TRUE /\ k = TRUE
    <3>1. d.cfg.airplay2 \in BOOLEAN
      BY <2>1 DEF Session, Config
    <3>2. d.cfg.airplay2
      BY <1>4, <2>2, <2>4 DEF Keyed
    <3> QED
      BY <1>7, <3>1, <3>2 DEF k
  <2>6. d.cfg.strict => d.proved
    BY <1>7, <2>2 DEF g
  <2>7. ~StrayReplies => d.rcvEnc = d.cfg.airplay2
    BY <1>3, <2>2, <2>5
  <2>8. d.requests + 5 <= 13
    BY <1>3, <1>5, <2>2
  <2>9. d.authMethod \in Hap /\ ~d.controlEncrypted /\ ~d.waitingForPin
    BY <1>3, <1>4, <2>2
  <2>10. Proto(afterAuthOk_(d))
    BY <2>2, <2>3, <2>4, <2>5, <2>6, <2>7, <2>8, <2>9, AuthOkProto
  <2> QED
    BY <1>1, <1>3, <1>7, <2>10
<1> QED
  BY <1>1, <1>3, <1>6, <1>7

\* Pair-verify: the signature is required in strict mode.
LEMMA VerifyM2Replied ==
    ASSUME Core(s), Proto(s), NEW src \in Sources, NEW body \in {"good", "forged", "error"},
           OnVerifyM2(src, body)
    PROVE  Proto(s')
<1> DEFINE y == popFront(s, src, FALSE)
           g == body = "good"
           d == [y EXCEPT !.ap2 = "verified", !.proved = g]
<1>0. g \in BOOLEAN
  OBVIOUS
<1>1. /\ PairingReply(src, "VerifyM2")
      /\ \/ s' = fail_(y)
         \/ /\ body # "error" /\ ~(body = "forged" /\ y.cfg.strict)
            /\ s' = httpPost_(d, "VerifyDone")
  BY DEF OnVerifyM2
<1>2. "VerifyM2" \in PairStages \ {"AuthSetup"} /\ "VerifyDone" \in PairStages \ {"AuthSetup"}
  BY DEF PairStages
<1>3. /\ y \in Session /\ Ready(y) /\ Same(s, y) /\ y.requests = s.requests
      /\ s.requests \in Nat /\ s.requests + Left(s) <= 13 /\ s.pairStage = "VerifyM2"
      /\ s.state = "Pairing" /\ ~s.controlEncrypted
      /\ s.ap2 # "null" /\ s.authMethod \in Hap /\ Proto(fail_(y))
  BY <1>1, <1>2, PairingStage
<1> HIDE DEF y, g
<1>4. y.state = "Pairing" /\ ~y.controlEncrypted /\ y.authMethod \in Hap /\ y.cfg = s.cfg
  BY <1>3 DEF Same
<1>5. Left(s) = 5
  BY <1>3, LeftTable
<1>6. CASE body # "error" /\ ~(body = "forged" /\ y.cfg.strict) /\ s' = httpPost_(d, "VerifyDone")
  <2>1. d \in Session
    BY <1>0, <1>3 DEF Session
  <2>2. /\ d.ap2 = "verified" /\ d.proved = g
        /\ d.state = y.state /\ d.cfg = y.cfg /\ d.authMethod = y.authMethod
        /\ d.controlEncrypted = y.controlEncrypted /\ d.waitingForPin = y.waitingForPin
        /\ d.ctl = y.ctl /\ d.requests = y.requests /\ d.pendingMethods = y.pendingMethods
        /\ d.pendingIsHttp = y.pendingIsHttp /\ d.wire = y.wire /\ d.rcvEnc = y.rcvEnc
    BY <1>3 DEF Session
  <2> HIDE DEF d
  <2>3. Between(d)
    BY <1>3, <2>1, <2>2 DEF Between, Ready
  <2>4. Keyed(d)
    BY <1>3, <1>4, <2>2 DEF Keyed, Ready
  <2>5. Ready(d)
    BY <1>3, <2>2, <2>3, <2>4 DEF Ready
  <2>6. d.cfg.strict => d.proved
    BY <1>6, <2>2 DEF g
  <2>7. d.requests \in Nat /\ d.requests + 1 + 4 <= 13
    BY <1>3, <1>5, <2>2
  <2>8. d.state = "Pairing" /\ ~d.controlEncrypted /\ d.authMethod \in Hap /\ d.ap2 # "null"
    BY <1>4, <2>2
  <2> QED
    BY <1>2, <1>6, <2>1, <2>2, <2>5, <2>6, <2>7, <2>8, PostProto
<1> QED
  BY <1>1, <1>3, <1>6

\* The last reply in the clear: both ends turn to encryption.
LEMMA VerifyDoneReplied ==
    ASSUME Core(s), Proto(s), NEW src \in Sources, OnVerifyDone(src)
    PROVE  Proto(s')
<1> DEFINE y == popFront(s, src, TRUE)
           d == [y EXCEPT !.pairStage = "Done"]
<1>1. PairingReply(src, "VerifyDone") /\ s' = afterAuthOk_(d)
  BY DEF OnVerifyDone
<1>2. "VerifyDone" \in PairStages /\ "VerifyDone" \notin {"None", "AuthSetup", "Done"}
  BY DEF PairStages
<1>3. /\ y \in Session /\ Between(y) /\ Keyed(y) /\ ~y.waitingForPin
      /\ Same(s, y) /\ y.requests = s.requests
      /\ ~StrayReplies => y.rcvEnc = (s.controlEncrypted \/ TRUE)
      /\ s.requests \in Nat /\ s.requests + Left(s) <= 13 /\ Staged(s)
      /\ s.pairStage = "VerifyDone" /\ s.state = "Pairing" /\ ~s.controlEncrypted
      /\ s.authMethod \in Hap
  <2> DEFINE k == TRUE
  <2>1. k \in BOOLEAN
    OBVIOUS
  <2> HIDE DEF k
  <2>2. LET v == popFront(s, src, k)
        IN  /\ v \in Session /\ Between(v) /\ Keyed(v) /\ ~v.waitingForPin
            /\ Same(s, v) /\ v.requests = s.requests
            /\ ~StrayReplies => v.rcvEnc = (s.controlEncrypted \/ k)
            /\ s.requests \in Nat /\ s.requests + Left(s) <= 13 /\ Staged(s)
            /\ s.pairStage = "VerifyDone" /\ s.state = "Pairing" /\ ~s.controlEncrypted
            /\ s.authMethod \in Hap
    BY <1>1, <1>2, <2>1, PairingReady
  <2> QED
    BY <2>2 DEF k
<1> HIDE DEF y
<1>4. s.ap2 = "verified" /\ (s.cfg.strict => s.proved)
  BY <1>3 DEF Staged, Starting
<1>5. Left(s) = 4
  BY <1>3, LeftTable
<1>6. d \in Session
  BY <1>3, Literals DEF Session
<1>7. Same(y, d) /\ d.pairStage = "Done" /\ d.requests = y.requests /\ d.rcvEnc = y.rcvEnc
      /\ d.pendingMethods = y.pendingMethods /\ d.pendingIsHttp = y.pendingIsHttp
      /\ d.wire = y.wire
  BY <1>3 DEF Session, Same
<1> HIDE DEF d
<1>8. Between(d) /\ Keyed(d) /\ ~d.waitingForPin
  BY <1>3, <1>6, <1>7 DEF Between, Keyed, Same
<1>9. d.authMethod \in Hap /\ ~d.controlEncrypted /\ d.ap2 = "verified" /\ (d.cfg.strict => d.proved)
  BY <1>3, <1>4, <1>7 DEF Same
<1>10. d.cfg.airplay2 = TRUE
  BY <1>6, <1>8, <1>9 DEF Session, Config, Keyed
<1>11. ~StrayReplies => d.rcvEnc = d.cfg.airplay2
  BY <1>3, <1>7, <1>10
<1>12. d.requests + 4 <= 13
  BY <1>3, <1>5, <1>7
<1> QED
  BY <1>1, <1>7, <1>8, <1>9, <1>10, <1>11, <1>12, AuthOkProto

\* Replies to pairing and set-up requests.
LEMMA PairingProto ==
    ASSUME Core(s), Proto(s), PairingReplies
    PROVE  Proto(s')
BY SetupReplies, AuthSetupReplied, PairingRefused, SetupStarted, SetupM2Replied,
   SetupM4Replied, SetupM6Replied, VerifyM2Replied, VerifyDoneReplied DEF PairingReplies

----------------------------------------------------------------------------
(* One step per action: replies to RTSP requests. *)

\* A plain reply to a starting session: what is left to send shrinks.
LEMMA PlainPop ==
    ASSUME Core(s), Proto(s), NEW src \in Sources, Replying(src), s.state \in Starting,
           s.pairStage \in Plain
    PROVE  LET y == popFront(s, src, FALSE)
           IN  /\ y \in Session /\ Ready(y) /\ y.state = "Handshake" /\ y.pairStage \in Plain
               /\ y.digestRetried = s.digestRetried
               /\ y.requests \in Nat /\ y.requests = s.requests
               /\ y.requests + After(Head(s.pendingMethods))
                             + (IF s.digestRetried THEN 0 ELSE 1) <= 13
               /\ Proto(y) /\ Proto(fail_(y))
<1> DEFINE y == popFront(s, src, FALSE)
           c == IF s.digestRetried THEN 0 ELSE 1
           a == After(Head(s.pendingMethods))
<1>1. /\ y \in Session /\ Between(y) /\ Keyed(y) /\ ~y.waitingForPin
      /\ Same(s, y) /\ y.pairStage = s.pairStage /\ y.requests = s.requests
      /\ ~StrayReplies => y.rcvEnc = (s.controlEncrypted \/ FALSE)
      /\ y.state \in {"Pairing", "Handshake"}
      /\ s.requests \in Nat /\ s.requests + Left(s) <= 13
      /\ Staged(s) /\ s \in Session /\ Proto(fail_(y))
  <2> DEFINE k == FALSE
  <2>1. k \in BOOLEAN
    OBVIOUS
  <2> HIDE DEF k
  <2>2. LET v == popFront(s, src, k)
        IN  /\ v \in Session /\ Between(v) /\ Keyed(v) /\ ~v.waitingForPin
            /\ Same(s, v) /\ v.pairStage = s.pairStage /\ v.requests = s.requests
            /\ ~StrayReplies => v.rcvEnc = (s.controlEncrypted \/ k)
            /\ v.state \in {"Pairing", "Handshake"}
            /\ s.requests \in Nat /\ s.requests + Left(s) <= 13
            /\ Staged(s) /\ s \in Session /\ Proto(fail_(v))
    BY <2>1, ReplyReady
  <2> QED
    BY <2>2 DEF k
<1> HIDE DEF y
<1>2. s.controlEncrypted \in BOOLEAN /\ y.controlEncrypted = s.controlEncrypted
      /\ y.digestRetried = s.digestRetried /\ y.state = s.state
  BY <1>1 DEF Session, Same
<1>3. Ready(y)
  BY <1>1, <1>2 DEF Ready
<1>4. y.state = "Handshake" /\ s.state # "Connecting"
  BY <1>1, <1>2 DEF Staged, Plain, PairStages
<1>5. Left(s) = a + c
  <2>1. s.pendingMethods # <<>>
    BY DEF Replying
  <2>2. Token(s) = Head(s.pendingMethods)
    BY <2>1 DEF Token
  <2> QED
    BY <1>4, <2>2, LeftTable
<1>6. a \in Nat /\ c \in Nat
  BY DEF After
<1>7. Left(y) = c
  <2>1. Token(y) = "none"
    BY <1>1 DEF Between, Token
  <2>2. After("none") = 0
    BY DEF After
  <2>3. Left(y) = After(Token(y)) + (IF y.digestRetried THEN 0 ELSE 1)
    BY <1>1, <1>4, LeftTable
  <2> QED
    BY <1>2, <1>6, <2>1, <2>2, <2>3
<1> HIDE DEF a, c
<1>8. y.requests + a + c <= 13 /\ y.requests + Left(y) <= 13
  BY <1>1, <1>5, <1>6, <1>7
<1>9. Proto(y)
  <2>1. Staged(y)
    BY <1>1, <1>4 DEF Staged, Plain
  <2>2. Bounded(y)
    BY <1>4, <1>8 DEF Bounded
  <2>3. OneRequest(y) /\ (~StrayReplies => InStep(y))
    BY <1>3 DEF OneRequest, InStep, Ready, Between
  <2> QED
    BY <1>1, <2>1, <2>2, <2>3 DEF Proto, Scalars
<1> QED
  BY <1>1, <1>2, <1>3, <1>4, <1>8, <1>9 DEF y, a, c

\* The head of a sequence that is not empty.
LEMMA FrontOf ==
    ASSUME NEW S, NEW q \in Seq(S), NEW r, NEW R, r \in Seq(R), r # <<>>, Len(r) = Len(q)
    PROVE  Head(q) = q[1] /\ 1 \in 1 .. Len(q)
<1>1. Len(r) \in Nat \ {0}
  BY EmptySeq
<1>2. Len(q) \in Nat /\ Len(q) # 0
  BY <1>1
<1>3. q # <<>>
  BY <1>2, EmptySeq
<1> QED
  BY <1>2, <1>3

\* A reply to a plain RTSP request comes to a streaming session, or to a starting
\* one in the AirPlay 1 handshake.
LEMMA RtspCases ==
    ASSUME Core(s), Proto(s), NEW src \in Sources, Replying(src), ~Head(s.pendingIsHttp)
    PROVE  \/ s.state = "Streaming"
           \/ s.state \in Starting /\ s.pairStage \in Plain
<1>1. s \in Session /\ Paired(s) /\ s.pendingMethods # <<>> /\ s.state # "Idle"
  BY DEF Core, Connected, Replying
<1>2. s.pendingMethods \in Seq(Methods) /\ s.pendingIsHttp \in Seq(BOOLEAN) /\ s.state \in States
  BY <1>1 DEF Session
<1>3. Head(s.pendingIsHttp) = s.pendingIsHttp[1] /\ 1 \in 1 .. Len(s.pendingIsHttp)
  BY <1>1, <1>2, FrontOf DEF Paired
<1>4. ~s.pendingIsHttp[1]
  BY <1>3
<1>6. s.state \in Starting => s.pairStage \in Plain
  BY <1>3, <1>4 DEF Proto, OneRequest
<1> QED
  BY <1>1, <1>2, <1>6 DEF States, Starting

\* A request that is nearer the end of the handshake, or the one retry, takes
\* from what is left.
LEMMA Budget ==
    ASSUME NEW r \in Nat, NEW i \in Nat, NEW j \in Nat, NEW b \in {0, 1}, NEW c \in {0, 1},
           r + j + c <= 13, (b = c /\ i < j) \/ (b = 0 /\ c = 1 /\ i = j)
    PROVE  r + 1 + i + b <= 13
<1>1. b \in Int /\ c \in Int
  OBVIOUS
<1>2. CASE b = c /\ i < j
  BY <1>1, <1>2
<1>3. CASE b = 0 /\ c = 1 /\ i = j
  BY <1>3
<1> QED
  BY <1>2, <1>3

\* Being in step is a matter of these fields.
LEMMA InStepSame ==
    ASSUME NEW x, NEW y, InStep(x), y.pairStage = x.pairStage, y.state = x.state,
           y.pendingMethods = x.pendingMethods, y.pendingIsHttp = x.pendingIsHttp,
           y.wire = x.wire, y.rcvEnc = x.rcvEnc, y.ctl = x.ctl,
           y.controlEncrypted = x.controlEncrypted
    PROVE  InStep(y)
BY DEF InStep

\* The next plain request, whichever state the session is in.
LEMMA RtspSend ==
    ASSUME Core(s), Proto(s), NEW src \in Sources, Replying(src), ~Head(s.pendingIsHttp),
           NEW w \in Session, NEW m \in Methods,
           LET y == popFront(s, src, FALSE)
           IN  /\ SameQueue(y, w)
               /\ w.state = y.state /\ w.cfg = y.cfg /\ w.authMethod = y.authMethod
               /\ w.ap2 = y.ap2 /\ w.waitingForPin = y.waitingForPin
               /\ w.controlEncrypted = y.controlEncrypted /\ w.proved = y.proved
               /\ w.ctl = y.ctl
               /\ \/ w.digestRetried = y.digestRetried /\ After(m) < After(Head(s.pendingMethods))
                  \/ /\ ~y.digestRetried /\ w.digestRetried
                     /\ After(m) = After(Head(s.pendingMethods))
    PROVE  Proto(sendRequest_(w, m)) /\ Proto(fail_(w))
<1> DEFINE y == popFront(s, src, FALSE)
           z == sendRequest_(w, m)
           h == Head(s.pendingMethods)
<1>1. /\ SameQueue(y, w)
      /\ w.state = y.state /\ w.cfg = y.cfg /\ w.authMethod = y.authMethod
      /\ w.ap2 = y.ap2 /\ w.waitingForPin = y.waitingForPin
      /\ w.controlEncrypted = y.controlEncrypted /\ w.proved = y.proved
      /\ w.ctl = y.ctl
      /\ \/ w.digestRetried = y.digestRetried /\ After(m) < After(h)
         \/ ~y.digestRetried /\ w.digestRetried /\ After(m) = After(h)
  OBVIOUS
<1>2. Sent(w, z, m, "None", w.pairStage) /\ z \in Session
  BY SendView, SendRequestFacts
<1>3. Over(w, fail_(w)) /\ fail_(w).requests = w.requests
  BY FailView
<1>4. CASE s.state = "Streaming"
  <2>1. Live(y)
    BY <1>4, PopLive
  <2> HIDE DEF y
  <2>2. Live(w)
    <3>1. Keyed(w) /\ Staged(w) /\ Bounded(w)
      BY <1>1, <2>1 DEF Live, Proto, Scalars, Keyed, Staged, Bounded, SameQueue, Starting
    <3>2. OneRequest(w)
      BY <1>1, <2>1 DEF Live, OneRequest, Starting
    <3>3. ASSUME ~StrayReplies PROVE InStep(w)
      <4>1. InStep(y)
        BY <2>1, <3>3 DEF Live, Proto
      <4>2. w.pairStage = y.pairStage /\ w.pendingMethods = y.pendingMethods
            /\ w.pendingIsHttp = y.pendingIsHttp /\ w.wire = y.wire /\ w.rcvEnc = y.rcvEnc
            /\ w.state = y.state /\ w.ctl = y.ctl /\ w.controlEncrypted = y.controlEncrypted
        BY <1>1 DEF SameQueue
      <4> QED
        BY <4>1, <4>2, InStepSame
    <3> QED
      BY <1>1, <2>1, <3>1, <3>2, <3>3 DEF Live, Proto, Scalars, Paired, SameQueue
  <2>3. Proto(z)
    BY <2>2, LiveSend DEF Live
  <2>4. Proto(fail_(w))
    BY <1>3, <2>2, OverProto DEF Live
  <2> QED
    BY <2>3, <2>4
<1>5. CASE s.state \in Starting /\ s.pairStage \in Plain
  <2> DEFINE c == IF s.digestRetried THEN 0 ELSE 1
             b == IF w.digestRetried THEN 0 ELSE 1
  <2>1. /\ y \in Session /\ Ready(y) /\ y.state = "Handshake" /\ y.pairStage \in Plain
        /\ y.digestRetried = s.digestRetried
        /\ y.requests \in Nat /\ y.requests = s.requests
        /\ y.requests + After(h) + c <= 13
        /\ Proto(y) /\ Proto(fail_(y))
    BY <1>5, PlainPop
  <2> HIDE DEF y, h, z
  <2>2. Ready(w)
    <3>1. Between(w) /\ Keyed(w)
      BY <1>1, <2>1 DEF Ready, Between, Keyed, SameQueue
    <3> QED
      BY <1>1, <2>1, <3>1 DEF Ready, SameQueue
  <2>3. w.state = "Handshake" /\ w.pairStage \in Plain /\ w.requests = y.requests
    BY <1>1, <2>1 DEF SameQueue
  <2>4. After(m) \in Nat /\ After(h) \in Nat
    BY DEF After
  <2>5. w.requests + 1 + After(m) + b <= 13
    <3> DEFINE i == After(m)
               j == After(h)
               r == y.requests
    <3>1. i \in Nat /\ j \in Nat /\ r \in Nat /\ r + j + c <= 13 /\ w.requests = r
      BY <2>1, <2>3, <2>4
    <3>a. b \in {0, 1} /\ c \in {0, 1}
      OBVIOUS
    <3>2. (b = c /\ i < j) \/ (b = 0 /\ c = 1 /\ i = j)
      BY <1>1, <2>1
    <3> HIDE DEF i, j, r, b, c
    <3>3. r + 1 + i + b <= 13
      BY <3>1, <3>a, <3>2, Budget
    <3> QED
      BY <3>1, <3>3 DEF i
  <2>6. Proto(z)
    BY <1>2, <2>2, <2>3, <2>5, PlainStep
  <2>7. Over(y, fail_(w))
    BY <1>1, <1>3, <2>3 DEF Over
  <2>8. Proto(fail_(w))
    BY <2>1, <2>7, OverProto
  <2> QED
    BY <2>6, <2>8 DEF z
<1> QED
  BY <1>4, <1>5, RtspCases

\* The reply taken off, whichever state the session is in.
LEMMA RtspPop ==
    ASSUME Core(s), Proto(s), NEW src \in Sources, Replying(src), ~Head(s.pendingIsHttp)
    PROVE  LET y == popFront(s, src, FALSE)
           IN  y \in Session /\ Proto(y) /\ Proto(fail_(y))
<1> DEFINE y == popFront(s, src, FALSE)
<1>1. CASE s.state = "Streaming"
  <2>1. Live(y)
    BY <1>1, PopLive
  <2> HIDE DEF y
  <2>2. Proto(fail_(y))
    BY <2>1, FailView, OverProto DEF Live
  <2> QED
    BY <2>1, <2>2 DEF Live, y
<1>2. CASE s.state \in Starting /\ s.pairStage \in Plain
  BY <1>2, PlainPop
<1> QED
  BY <1>1, <1>2, RtspCases

\* Replies to RTSP requests.
LEMMA RtspProto ==
    ASSUME Core(s), Proto(s), RtspReplies
    PROVE  Proto(s')
<1>0. s \in Session
  BY DEF Core
\* Nobody is waiting for this reply: only a receiver that sends stray ones is
\* ahead of the sender.
<1>1. CASE UnexpectedReply
  <2>1. s.ctl = "open" /\ s.pendingMethods = <<>> /\ s.wire # <<>>
        /\ s' = [s EXCEPT !.wire = Tail(s.wire)]
    BY <1>0, <1>1 DEF UnexpectedReply, Session
  <2>2. StrayReplies
    <3>1. SUFFICES ASSUME ~StrayReplies PROVE FALSE
      OBVIOUS
    <3>2. Len(s.wire) = 0 /\ s.wire \in Seq(Request)
      BY <1>0, <2>1, <3>1 DEF Proto, InStep, Session
    <3> QED
      BY <2>1, <3>2, EmptySeq
  <2>3. Same(s, s') /\ s'.pairStage = s.pairStage /\ s'.requests = s.requests
        /\ s'.pendingMethods = s.pendingMethods /\ s'.pendingIsHttp = s.pendingIsHttp
    BY <1>0, <2>1 DEF Session, Same
  <2>4. Left(s') = Left(s)
    BY <2>3 DEF Left, Token, Same
  <2>5. Keyed(s') /\ Staged(s') /\ Bounded(s')
    BY <2>3, <2>4 DEF Proto, Scalars, Keyed, Staged, Bounded, Same
  <2>6. OneRequest(s')
    BY <2>3 DEF Proto, OneRequest, Same
  <2> QED
    BY <2>2, <2>5, <2>6 DEF Proto, Scalars
<1>2. ASSUME NEW src \in Sources, NEW code \in Codes, IgnoredReply(src, code)
      PROVE  Proto(s')
  <2>1. Replying(src) /\ s' = popFront(s, src, FALSE)
    BY <1>2 DEF IgnoredReply
  <2>2. CASE ~Head(s.pendingIsHttp)
    BY <2>1, <2>2, RtspPop
  <2>3. CASE s.state = "Streaming"
    BY <2>1, <2>3, PopLive DEF Live
  <2>4. CASE Head(s.pendingIsHttp) /\ s.state # "Streaming"
    <3>1. s.pairStage \in Plain
      BY <1>2, <2>4 DEF IgnoredReply, Plain
    <3>2. s.state \in Starting
      BY <1>0, <2>1, <2>4 DEF Session, States, Starting, Core, Connected, Replying
    <3> QED
      BY <2>1, <3>1, <3>2, PlainPop
  <2> QED
    BY <2>2, <2>3, <2>4
<1>3. ASSUME NEW src \in Sources, NEW code \in Codes, FeedbackReply(src, code)
      PROVE  Proto(s')
  <2> DEFINE y == popFront(s, src, FALSE)
             d == disarm_(y, "feedback")
             f == [d EXCEPT !.feedbackRefused = TRUE]
  <2>1. Replying(src) /\ ~Head(s.pendingIsHttp) /\ s' \in {y, arm_(y, "feedback"), f}
    BY <1>3 DEF FeedbackReply
  <2>2. y \in Session /\ Proto(y)
    BY <2>1, RtspPop
  <2> HIDE DEF y
  <2>3. Proto(arm_(y, "feedback"))
    BY <2>2, ArmView, SameProto
  <2>4. d \in Session /\ Proto(d)
    BY <2>2, ArmFacts, ArmView, SameProto, Literals
  <2> HIDE DEF d
  <2>5. Same(d, f) /\ SameQueue(d, f)
    BY <2>4 DEF Session, Same, SameQueue
  <2>6. Proto(f)
    BY <2>4, <2>5, SameProto
  <2> QED
    BY <2>1, <2>2, <2>3, <2>6
<1>4. ASSUME NEW src \in Sources, NEW m \in HandshakeMethods, OnRefused(src, m)
      PROVE  Proto(s')
  <2> DEFINE y == popFront(s, src, FALSE)
  <2>1. Replying(src) /\ ~Head(s.pendingIsHttp) /\ s' \in {y, fail_(y)}
    BY <1>4 DEF OnRefused, HandshakeReply
  <2> QED
    BY <2>1, RtspPop
<1>5. ASSUME NEW src \in Sources, NEW m \in HandshakeMethods, NEW ok \in BOOLEAN,
             OnChallenge(src, m, ok)
      PROVE  Proto(s')
  <2> DEFINE y == popFront(s, src, FALSE)
             n == [y EXCEPT !.digestNonce = FALSE]
             q == [y EXCEPT !.digestNonce = TRUE, !.digestRetried = TRUE]
  <2>1. /\ Replying(src) /\ ~Head(s.pendingIsHttp) /\ Head(s.pendingMethods) = m
        /\ \/ s' \in {fail_(y), fail_(n)}
           \/ s' = sendRequest_(q, m) /\ ~y.digestRetried
    BY <1>5 DEF OnChallenge, HandshakeReply
  <2>2. y \in Session /\ Proto(y) /\ Proto(fail_(y))
    BY <2>1, RtspPop
  <2>3. n \in Session /\ Same(y, n) /\ SameQueue(y, n)
    <3> HIDE DEF y
    <3> QED
      BY <2>2 DEF Session, Same, SameQueue
  <2>4. Proto(fail_(n))
    <3> HIDE DEF n, y
    <3> QED
      BY <2>2, <2>3, SameProto, FailView, OverProto
  <2>5. q \in Session
    <3> HIDE DEF y
    <3> QED
      BY <2>2 DEF Session
  <2>6. /\ SameQueue(y, q)
        /\ q.state = y.state /\ q.cfg = y.cfg /\ q.authMethod = y.authMethod
        /\ q.ap2 = y.ap2 /\ q.waitingForPin = y.waitingForPin
        /\ q.controlEncrypted = y.controlEncrypted /\ q.proved = y.proved
        /\ q.ctl = y.ctl /\ q.digestRetried
    <3> HIDE DEF y
    <3> QED
      BY <2>2 DEF Session, SameQueue
  <2> HIDE DEF n, q
  <2>7. m \in Methods
    BY Literals
  <2>8. ASSUME ~y.digestRetried PROVE Proto(sendRequest_(q, m))
    BY <2>1, <2>5, <2>6, <2>7, <2>8, RtspSend
  <2> QED
    BY <2>1, <2>2, <2>4, <2>8
<1>6. ASSUME NEW src \in Sources, NEW h \in HandshakeMethods, HandshakeReply(src, h),
             NEW m \in Methods, After(m) < After(h)
      PROVE  LET y == popFront(s, src, FALSE)
                 r == [y EXCEPT !.rtspSession = TRUE]
             IN  /\ Proto(sendRequest_(y, m)) /\ Proto(sendRequest_(r, m)) /\ Proto(fail_(r))
  <2> DEFINE y == popFront(s, src, FALSE)
             r == [y EXCEPT !.rtspSession = TRUE]
  <2>1. /\ Replying(src) /\ ~Head(s.pendingIsHttp) /\ Head(s.pendingMethods) = h
    BY <1>6 DEF HandshakeReply
  <2>2. y \in Session
    BY <2>1, RtspPop
  <2>3. r \in Session
    <3> HIDE DEF y
    <3> QED
      BY <2>2 DEF Session
  <2>4. Same(y, r) /\ SameQueue(y, r) /\ Same(y, y) /\ SameQueue(y, y)
    <3> HIDE DEF y
    <3> QED
      BY <2>2 DEF Session, Same, SameQueue
  <2> HIDE DEF r
  <2>5. Proto(sendRequest_(y, m))
    BY <1>6, <2>1, <2>2, RtspSend DEF SameQueue
  <2>6. Proto(sendRequest_(r, m)) /\ Proto(fail_(r))
    BY <1>6, <2>1, <2>3, <2>4, RtspSend DEF Same
  <2> QED
    BY <2>5, <2>6 DEF r
<1>7. After("OPTIONS") = 3 /\ After("ANNOUNCE") = 2 /\ After("SETUP") = 1 /\ After("RECORD") = 0
  BY DEF After
<1>8. {"OPTIONS", "ANNOUNCE", "SETUP", "RECORD"} = HandshakeMethods
  BY DEF HandshakeMethods
<1>9. ASSUME NEW src \in Sources, OnOptionsOk(src)
      PROVE  Proto(s')
  <2>1. HandshakeReply(src, "OPTIONS") /\ s' = sendRequest_(popFront(s, src, FALSE), "ANNOUNCE")
    BY <1>9 DEF OnOptionsOk
  <2>2. After("ANNOUNCE") < After("OPTIONS") /\ "OPTIONS" \in HandshakeMethods
    BY <1>7, <1>8
  <2> QED
    BY <1>6, <2>1, <2>2, Literals
<1>10. ASSUME NEW src \in Sources, OnAnnounceOk(src)
       PROVE  Proto(s')
  <2>1. HandshakeReply(src, "ANNOUNCE") /\ s' = sendRequest_(popFront(s, src, FALSE), "SETUP")
    BY <1>10 DEF OnAnnounceOk
  <2>2. After("SETUP") < After("ANNOUNCE") /\ "ANNOUNCE" \in HandshakeMethods
    BY <1>7, <1>8
  <2> QED
    BY <1>6, <2>1, <2>2, Literals
<1>11. ASSUME NEW src \in Sources, NEW port \in BOOLEAN, OnSetupOk(src, port)
       PROVE  Proto(s')
  <2> DEFINE y == popFront(s, src, FALSE)
             r == [y EXCEPT !.rtspSession = TRUE]
  <2>1. HandshakeReply(src, "SETUP") /\ s' \in {sendRequest_(r, "RECORD"), fail_(r)}
    BY <1>11 DEF OnSetupOk
  <2>2. Proto(sendRequest_(r, "RECORD")) /\ Proto(fail_(r))
    <3>1. After("RECORD") < After("SETUP") /\ "SETUP" \in HandshakeMethods
      BY <1>7, <1>8
    <3> QED
      BY <1>6, <2>1, <3>1, Literals
  <2> QED
    BY <2>1, <2>2
<1>12. ASSUME NEW src \in Sources, OnRecordOk(src)
       PROVE  Proto(s')
  <2> DEFINE y == popFront(s, src, FALSE)
  <2>1. /\ Replying(src) /\ ~Head(s.pendingIsHttp) /\ Head(s.pendingMethods) = "RECORD"
        /\ s' = IF y.state = "Streaming" THEN y ELSE startStreaming_(y)
    BY <1>12 DEF OnRecordOk, HandshakeReply
  <2>2. Proto(y)
    BY <2>1, RtspPop
  <2>3. ASSUME y.state # "Streaming" PROVE Proto(startStreaming_(y))
    <3>1. s.state = "Streaming" => y.state = "Streaming"
      BY <2>1, PopLive DEF Live
    <3>2. s.state \in Starting /\ s.pairStage \in Plain
      BY <2>1, <2>3, <3>1, RtspCases
    <3>3. /\ Ready(y) /\ y.state = "Handshake" /\ y.requests \in Nat
          /\ y.requests + After(Head(s.pendingMethods)) + (IF s.digestRetried THEN 0 ELSE 1) <= 13
      BY <2>1, <3>2, PlainPop
    <3> HIDE DEF y
    <3>4. y.requests <= 13
      <4> DEFINE n == y.requests
                 c == IF s.digestRetried THEN 0 ELSE 1
      <4>1. n \in Nat /\ c \in Nat /\ n + 0 + c <= 13
        BY <1>7, <2>1, <3>3
      <4> HIDE DEF n, c
      <4>2. n <= 13
        BY <4>1
      <4> QED
        BY <4>2 DEF n
    <3> QED
      BY <3>3, <3>4, LaunchProto DEF Ready
  <2> QED
    BY <2>1, <2>2, <2>3
<1> QED
  BY <1>1, <1>2, <1>3, <1>4, <1>5, <1>9, <1>10, <1>11, <1>12 DEF RtspReplies

----------------------------------------------------------------------------
(* One step per action: what the host calls. *)

\* However a session ends, the invariant holds of what is left.
LEMMA EndProto ==
    ASSUME NEW x \in Session, Proto(x)
    PROVE  Proto(fail_(x)) /\ Proto(closedByPeer(x)) /\ Proto(stop(x))
<1>1. Proto(fail_(x)) /\ Proto(closedByPeer(x))
  BY FailView, OverProto
<1>2. CASE x.state = "Idle"
  BY <1>1, <1>2 DEF stop
<1>3. CASE x.state # "Idle"
  BY <1>1, <1>3, StopView, OverProto
<1> QED
  BY <1>1, <1>2, <1>3

\* Withdrawing the PIN prompt changes nothing else.
LEMMA PromptOver ==
    ASSUME NEW x \in Session, Proto(x)
    PROVE  LET y == [x EXCEPT !.waitingForPin = FALSE]
           IN  y \in Session /\ Proto(y)
<1> DEFINE y == [x EXCEPT !.waitingForPin = FALSE]
<1>1. y \in Session
  BY DEF Session
<1>2. /\ ~y.waitingForPin /\ SameQueue(x, y)
      /\ y.state = x.state /\ y.cfg = x.cfg /\ y.authMethod = x.authMethod /\ y.ap2 = x.ap2
      /\ y.triedTransientAfterPin403 = x.triedTransientAfterPin403
      /\ y.controlEncrypted = x.controlEncrypted
      /\ y.digestRetried = x.digestRetried /\ y.proved = x.proved /\ y.ctl = x.ctl
  BY DEF Session, SameQueue
<1> HIDE DEF y
<1>3. Left(y) = Left(x)
  BY <1>2 DEF Left, Token, SameQueue
<1>4. Keyed(y) /\ Staged(y) /\ Bounded(y)
  BY <1>2, <1>3 DEF Proto, Scalars, Keyed, Staged, Bounded, SameQueue
<1>5. OneRequest(y)
  BY <1>2 DEF Proto, OneRequest, SameQueue
<1>6. ~StrayReplies => InStep(y)
  BY <1>2, InStepSame DEF Proto, SameQueue
<1> QED
  BY <1>1, <1>4, <1>5, <1>6 DEF Proto, Scalars, y

\* start(): whatever was before, a session begins with nothing outstanding, no
\* keys and its whole budget.
LEMMA StartProto ==
    ASSUME Core(s), Proto(s), NEW ok \in BOOLEAN
    PROVE  Proto(start(s, ok))
<1> DEFINE y == stop(s)
           r == resetProtocol(y)
           z == newHistory(r, ok)
           u == [z EXCEPT !.udpBound = TRUE]
           c == [z EXCEPT !.udpBound = TRUE, !.state = "Connecting",
                          !.rtspConnected = FALSE, !.ctl = "connecting"]
           e == releaseSockets_(u)
<1>1. Core(y) /\ y.state = "Idle" /\ Proto(y)
  BY StopCore, EndProto DEF Core
<1>2. y \in Session /\ y.ctl = "closed" /\ y.evt = "closed" /\ y.wire = <<>>
      /\ (~StrayReplies => ~y.rcvEnc)
  BY <1>1 DEF Core, Connected, Proto, InStep
<1> HIDE DEF y
<1>3. /\ r \in Session
      /\ r.state = "Idle" /\ r.ctl = "closed" /\ r.evt = "closed" /\ r.wire = <<>>
      /\ r.waitingForPin = FALSE /\ r.pendingMethods = <<>> /\ r.pendingIsHttp = <<>>
  BY <1>1, <1>2, ResetFacts
<1>4. r.pairStage = "None" /\ r.controlEncrypted = FALSE /\ r.cfg = y.cfg
      /\ r.authMethod = y.authMethod /\ r.rcvEnc = y.rcvEnc
  BY <1>2 DEF resetProtocol, Session
<1> HIDE DEF r
<1>5. /\ z \in Session
      /\ z.state = "Idle" /\ z.ctl = "closed" /\ z.wire = <<>>
      /\ z.waitingForPin = FALSE /\ z.pendingMethods = <<>> /\ z.pendingIsHttp = <<>>
  BY <1>3, HistoryFacts
<1>6. z.requests = 0 /\ z.pairStage = r.pairStage /\ z.controlEncrypted = r.controlEncrypted
      /\ z.cfg = r.cfg /\ z.authMethod = r.authMethod /\ z.rcvEnc = r.rcvEnc
  BY <1>3 DEF newHistory, Session
<1> HIDE DEF z
<1>7. Keyed(y)
  BY <1>1 DEF Proto, Scalars
<1>8. CASE ok
  <2> DEFINE a == arm_(c, "timeout")
  <2>1. start(s, ok) = a
    BY <1>8 DEF start, z, r, y
  <2>2. c \in Session
    <3> DEFINE v1 == [z EXCEPT !.udpBound = TRUE]
               v2 == [v1 EXCEPT !.state = "Connecting"]
               v3 == [v2 EXCEPT !.rtspConnected = FALSE]
    <3>1. v1 \in Session
      BY <1>5, FieldTypes
    <3> HIDE DEF v1
    <3>2. v2 \in Session
      BY <3>1, FieldTypes
    <3> HIDE DEF v2
    <3>3. v3 \in Session
      BY <3>2, FieldTypes
    <3> HIDE DEF v3
    <3>4. [v3 EXCEPT !.ctl = "connecting"] \in Session
      BY <3>3, FieldTypes
    <3> QED
      BY <3>4, Zenon DEF v3, v2, v1
  <2>3. /\ c.state = "Connecting" /\ c.ctl = "connecting" /\ c.waitingForPin = z.waitingForPin
        /\ c.pendingMethods = z.pendingMethods /\ c.pendingIsHttp = z.pendingIsHttp
        /\ c.wire = z.wire /\ c.rcvEnc = z.rcvEnc /\ c.requests = z.requests
        /\ c.pairStage = z.pairStage /\ c.controlEncrypted = z.controlEncrypted
        /\ c.cfg = z.cfg /\ c.authMethod = z.authMethod
    BY <1>5 DEF Session
  <2> HIDE DEF c
  <2>4. Keyed(c)
    BY <1>4, <1>5, <1>6, <1>7, <2>3 DEF Keyed
  <2>5. Staged(c)
    BY <1>4, <1>5, <1>6, <2>3 DEF Staged
  <2>6. Bounded(c)
    <3>1. Left(c) = 13
      BY <1>4, <1>6, <2>3 DEF Left, Plain
    <3>2. c.requests + Left(c) <= 13
      BY <1>6, <2>3, <3>1
    <3> QED
      BY <2>3, <3>2 DEF Bounded
  <2>7. OneRequest(c) /\ (~StrayReplies => InStep(c))
    BY <1>2, <1>4, <1>5, <1>6, <2>3 DEF OneRequest, InStep
  <2>8. Proto(c)
    BY <2>4, <2>5, <2>6, <2>7 DEF Proto, Scalars
  <2> QED
    BY <2>1, <2>2, <2>8, ArmView, SameProto
<1>9. CASE ~ok
  <2>1. start(s, ok) = e
    BY <1>9 DEF start, z, r, y
  <2>2. u \in Session
    BY <1>5, FieldTypes
  <2>3. /\ e.state = z.state /\ e.ctl = z.ctl /\ e.waitingForPin = z.waitingForPin
        /\ e.pendingMethods = z.pendingMethods /\ e.pendingIsHttp = z.pendingIsHttp
        /\ e.wire = z.wire /\ e.rcvEnc = z.rcvEnc /\ e.requests = z.requests
        /\ e.pairStage = z.pairStage /\ e.controlEncrypted = z.controlEncrypted
        /\ e.cfg = z.cfg /\ e.authMethod = z.authMethod
    BY <1>5 DEF releaseSockets_, Session
  <2> HIDE DEF e
  <2>4. Keyed(e)
    BY <1>4, <1>5, <1>6, <1>7, <2>3 DEF Keyed
  <2>5. Staged(e) /\ Bounded(e) /\ OneRequest(e)
    BY <1>4, <1>5, <1>6, <2>3 DEF Staged, Bounded, OneRequest, Starting
  <2>6. ~StrayReplies => InStep(e)
    BY <1>2, <1>4, <1>5, <1>6, <2>3 DEF InStep
  <2> QED
    BY <2>1, <2>4, <2>5, <2>6 DEF Proto, Scalars
<1> QED
  BY <1>8, <1>9

\* submitPin(): M3 to the receiver that asked for it, to nobody after the end.
LEMMA PinProto ==
    ASSUME Core(s), Proto(s), NEW ok \in BOOLEAN, SubmitPin(ok)
    PROVE  Proto(s')
<1> DEFINE p == [s EXCEPT !.waitingForPin = FALSE]
           d == disarm_(p, "pinTimeout")
           w == arm_(d, "timeout")
           z == httpPost_(w, "SetupM4")
<1>0. s \in Session
  BY DEF Core
<1>1. s.waitingForPin /\ s' \in {fail_(w), z}
  BY DEF SubmitPin, sendPairSetupM3_
<1>2. p \in Session /\ Proto(p)
  BY <1>0, PromptOver
<1>3. /\ p.waitingForPin = FALSE /\ p.state = s.state /\ p.authMethod = s.authMethod
      /\ p.ap2 = s.ap2 /\ p.controlEncrypted = s.controlEncrypted
      /\ p.pairStage = s.pairStage /\ p.ctl = s.ctl
      /\ p.pendingMethods = s.pendingMethods /\ p.pendingIsHttp = s.pendingIsHttp
      /\ p.wire = s.wire /\ p.requests = s.requests
  BY <1>0 DEF Session
<1> HIDE DEF p
<1>4. d \in Session /\ Same(p, d) /\ SameQueue(p, d)
  BY <1>2, ArmFacts, ArmView, Literals
<1> HIDE DEF d
<1>5. w \in Session /\ Same(d, w) /\ SameQueue(d, w)
  BY <1>4, ArmFacts, ArmView, Literals
<1> HIDE DEF w
<1>6. Proto(w)
  BY <1>2, <1>4, <1>5, SameProto
<1>7. /\ w.waitingForPin = FALSE /\ w.state = s.state /\ w.authMethod = s.authMethod
      /\ w.ap2 = s.ap2 /\ w.controlEncrypted = s.controlEncrypted
      /\ w.pairStage = s.pairStage /\ w.ctl = s.ctl
      /\ w.pendingMethods = s.pendingMethods /\ w.pendingIsHttp = s.pendingIsHttp
      /\ w.wire = s.wire /\ w.requests = s.requests
  BY <1>3, <1>4, <1>5 DEF Same, SameQueue
<1>8. Proto(fail_(w))
  BY <1>5, <1>6, EndProto
<1>9. s.state \in States /\ s.state # "Streaming"
  BY <1>0, <1>1 DEF Session, Proto, Scalars, Staged
<1>10. CASE s.state = "Idle"
  <2>1. w.state = "Idle" /\ w.ctl = "closed" /\ w.wire = <<>>
    BY <1>7, <1>10 DEF Core, Connected
  <2>2. Sent(w, z, "POST", "SetupM4", "SetupM4")
    BY <1>5, PostView, Literals
  <2> HIDE DEF z
  <2>3. Proto(z)
    BY <1>6, <2>1, <2>2, IdleSend
  <2> QED
    BY <1>1, <1>8, <2>3
<1>11. CASE s.state \in Starting
  <2>1. s.pairStage = "SetupM2" /\ s.authMethod = "HapPin" /\ s.ap2 # "null"
        /\ s.pendingMethods = <<>>
    BY <1>1, <1>11 DEF Proto, Scalars, Staged, Keyed, OneRequest
  <2>2. s.state = "Pairing" /\ ~s.controlEncrypted
    BY <1>11, <2>1 DEF Proto, Scalars, Staged, Starting, Plain, SetupStages
  <2>3. s.ctl = "open"
    BY <1>0, <2>2 DEF Core, Connected, Session
  <2>4. s.pendingIsHttp = <<>>
    <3>1. Len(s.pendingIsHttp) = 0 /\ s.pendingIsHttp \in Seq(BOOLEAN)
      BY <1>0, <2>1 DEF Core, Paired, Session
    <3> QED
      BY <3>1, EmptySeq
  <2>5. ASSUME ~StrayReplies PROVE s.wire = <<>>
    <3>1. Len(s.wire) = 0 /\ s.wire \in Seq(Request)
      BY <1>0, <2>1, <2>3, <2>5 DEF Proto, InStep, Session
    <3> QED
      BY <3>1, EmptySeq
  <2>6. Between(w) /\ Keyed(w) /\ (~StrayReplies => w.rcvEnc = w.controlEncrypted)
    <3>1. Between(w)
      BY <1>5, <1>7, <2>1, <2>3, <2>4, <2>5 DEF Between
    <3>2. Keyed(w) /\ (~StrayReplies => w.rcvEnc = w.controlEncrypted)
      BY <1>6, <1>7, <2>3 DEF Proto, Scalars, InStep
    <3> QED
      BY <3>1, <3>2
  <2>7. Ready(w)
    BY <1>7, <2>2, <2>6 DEF Ready
  <2>8. s.requests \in Nat /\ s.requests + 8 <= 13
    <3>1. Left(s) = 8
      BY <2>1, <2>2, LeftTable
    <3> QED
      BY <1>0, <1>11, <3>1 DEF Proto, Scalars, Bounded, Session
  <2>9. w.requests \in Nat /\ w.requests + 1 + 7 <= 13
    BY <1>7, <2>8
  <2>10. "SetupM4" \in PairStages \ {"AuthSetup"} /\ "HapPin" \in Hap
    BY DEF PairStages, Hap
  <2>11. w.state = "Pairing" /\ ~w.controlEncrypted /\ w.ap2 # "null" /\ w.authMethod \in Hap
    BY <1>7, <2>1, <2>2, <2>10
  <2>12. Proto(z)
    BY <1>5, <2>7, <2>9, <2>10, <2>11, PostProto
  <2> QED
    BY <1>1, <1>8, <2>12
<1> QED
  BY <1>9, <1>10, <1>11 DEF States, Starting

\* A streaming session of the invariant.
LEMMA LiveNow ==
    ASSUME Core(s), Proto(s), s.state = "Streaming"
    PROVE  Live(s)
BY DEF Core, Connected, Live, Session

\* What the host application calls.
LEMMA HostProto ==
    ASSUME Core(s), Proto(s), Host
    PROVE  Proto(s')
<1>0. s \in Session
  BY DEF Core
<1>1. ASSUME NEW c \in Configs, SetAuth(c)
      PROVE  Proto(s')
  <2>1. /\ s.state = "Idle" /\ s' = [s EXCEPT !.cfg = c, !.authMethod = c.auth]
        /\ (c.auth \in Hap => c.airplay2) /\ (c.auth = "AuthSetup" => ~c.airplay2)
    BY <1>1, ConfigsAssumption DEF SetAuth
  <2>2. /\ s'.state = "Idle" /\ s'.cfg = c /\ s'.authMethod = c.auth
        /\ s'.ap2 = s.ap2 /\ s'.waitingForPin = s.waitingForPin
        /\ s'.controlEncrypted = s.controlEncrypted /\ s'.requests = s.requests
        /\ s'.ctl = s.ctl /\ s'.wire = s.wire /\ s'.rcvEnc = s.rcvEnc
    BY <1>0, <2>1 DEF Session
  <2>3. s.ctl = "closed"
    BY <2>1 DEF Core, Connected
  <2>4. Keyed(s')
    BY <2>1, <2>2 DEF Proto, Scalars, Keyed
  <2>5. Staged(s') /\ OneRequest(s')
    BY <2>2 DEF Staged, OneRequest, Starting
  <2>6. Bounded(s')
    BY <2>1, <2>2 DEF Bounded, Starting, Proto, Scalars
  <2>7. ~StrayReplies => InStep(s')
    BY <2>2, <2>3 DEF InStep, Proto
  <2> QED
    BY <2>4, <2>5, <2>6, <2>7 DEF Proto, Scalars
<1>2. ASSUME NEW ok \in BOOLEAN, Start(ok)
      PROVE  Proto(s')
  BY <1>2, StartProto DEF Start
<1>3. CASE Stop
  BY <1>0, <1>3, EndProto DEF Stop
<1>4. CASE SetVolume
  <2> DEFINE y == [s EXCEPT !.pendingVolume = "user"]
  <2>1. s' = IF s.state = "Streaming" THEN sendRequest_(y, "SET_PARAMETER") ELSE y
    BY <1>4 DEF SetVolume
  <2>2. y \in Session /\ Same(s, y) /\ SameQueue(s, y)
    BY <1>0 DEF Session, Same, SameQueue
  <2> HIDE DEF y
  <2>3. Proto(y)
    BY <2>2, SameProto
  <2>4. s.state = "Streaming" => Live(sendRequest_(y, "SET_PARAMETER"))
    BY <2>2, LiveNow, LiveSame, LiveSend, Literals
  <2> QED
    BY <2>1, <2>3, <2>4 DEF Live
<1>5. ASSUME NEW n \in 0 .. 2, SetNowPlaying(n)
      PROVE  Proto(s')
  <2> DEFINE y == [s EXCEPT !.nowPlaying = n]
  <2>1. s' = IF s.state = "Streaming" THEN sendMetadata_(y) ELSE y
    BY <1>5 DEF SetNowPlaying
  <2>2. y \in Session /\ Same(s, y) /\ SameQueue(s, y)
    BY <1>0 DEF Session, Same, SameQueue
  <2> HIDE DEF y
  <2>3. Proto(y) /\ y.nowPlaying \in 0 .. 2
    BY <2>2, SameProto DEF Session
  <2>4. s.state = "Streaming" => Live(sendMetadata_(y))
    BY <2>2, <2>3, LiveNow, LiveSame, LiveParameters DEF sendMetadata_
  <2> QED
    BY <2>1, <2>3, <2>4 DEF Live
<1> QED
  BY <1>1, <1>2, <1>3, <1>4, <1>5, PinProto DEF Host

----------------------------------------------------------------------------
(* One step per action: timers and sockets. *)

\* What the timers do.
LEMMA TickProto ==
    ASSUME Core(s), Proto(s), Tick
    PROVE  Proto(s')
<1>0. s \in Session
  BY DEF Core
<1>1. ASSUME NEW t, TimePasses(t)
      PROVE  Proto(s')
  <2>1. s' = [s EXCEPT !.due = @ \cup {t}]
    BY <1>1 DEF TimePasses
  <2>2. Same(s, s') /\ SameQueue(s, s')
    BY <1>0, <2>1 DEF Session, Same, SameQueue
  <2> QED
    BY <2>2, SameProto
<1>2. ASSUME NEW t \in Timers
      PROVE  /\ disarm_(s, t) \in Session /\ Proto(disarm_(s, t))
             /\ arm_(s, t) \in Session /\ Proto(arm_(s, t))
  BY <1>0, ArmFacts, ArmView, SameProto
<1>3. CASE onHandshakeTimeout_
  <2> DEFINE y == disarm_(s, "timeout")
  <2>1. s' \in {fail_(y), y}
    BY <1>3 DEF onHandshakeTimeout_
  <2>2. y \in Session /\ Proto(y)
    BY <1>2, Literals
  <2> QED
    BY <2>1, <2>2, EndProto
<1>4. CASE onPinTimeout_
  <2> DEFINE y == disarm_(s, "pinTimeout")
             p == [y EXCEPT !.waitingForPin = FALSE]
  <2>1. s' \in {fail_(p), y}
    BY <1>4 DEF onPinTimeout_
  <2>2. y \in Session /\ Proto(y)
    BY <1>2, Literals
  <2> HIDE DEF y
  <2>3. p \in Session /\ Proto(p)
    BY <2>2, PromptOver
  <2> HIDE DEF p
  <2> QED
    BY <2>1, <2>2, <2>3, EndProto
<1>5. CASE onFeedbackTimer_
  <2> DEFINE y == arm_(s, "feedback")
  <2>1. s' = IF y.state # "Streaming" THEN y
             ELSE IF y.cfg.airplay2 THEN writeRtsp_(y, "FEEDBACK", "None")
             ELSE sendRequest_(y, "POST")
    BY <1>5 DEF onFeedbackTimer_
  <2>2. y \in Session /\ Proto(y) /\ Same(s, y) /\ SameQueue(s, y)
    BY <1>0, <1>2, ArmView, Literals
  <2> HIDE DEF y
  <2>3. y.state = "Streaming" => Live(y)
    BY <2>2, LiveNow, LiveSame DEF Same
  <2>4. y.state = "Streaming" => /\ Live(sendRequest_(y, "POST"))
                                 /\ Live(writeRtsp_(y, "FEEDBACK", "None"))
    BY <2>3, LiveSend, Literals
  <2> QED
    BY <2>1, <2>2, <2>4 DEF Live
<1> QED
  BY <1>1, <1>3, <1>4, <1>5 DEF Tick

\* A fresh ap2_ stays within the type.
LEMMA NewAp2Type ==
    ASSUME NEW x \in Session, NEW a \in Auths
    PROVE  newAp2(x, a) \in Session
BY DEF newAp2, Session

\* The first request of a session, by the kind of receiver.
LEMMA BeginProto ==
    ASSUME Core(s), Proto(s), OnTcpConnected
    PROVE  Proto(s')
<1> DEFINE x == [s EXCEPT !.ctl = "open", !.rtspConnected = TRUE]
           h == [x EXCEPT !.state = "Handshake"]
           p == [x EXCEPT !.state = "Pairing"]
           f == newAp2(p, x.authMethod)
<1>0. s \in Session
  BY DEF Core
<1>1. s.ctl = "connecting" /\ s.state = "Connecting" /\ s' = beginAuthChain_(x)
  BY DEF OnTcpConnected
<1>2. s.pairStage = "None" /\ ~s.controlEncrypted /\ ~s.waitingForPin
      /\ s.pendingMethods = <<>> /\ Keyed(s)
  BY <1>1 DEF Proto, Scalars, Staged, OneRequest, Starting
<1>3. s.pendingIsHttp = <<>>
  <2>1. Len(s.pendingIsHttp) = 0 /\ s.pendingIsHttp \in Seq(BOOLEAN)
    BY <1>0, <1>2 DEF Core, Paired, Session
  <2> QED
    BY <2>1, EmptySeq
<1>4. s.requests = 0 /\ s.controlEncrypted = FALSE
  <2>1. Left(s) = 13
    BY <1>1, <1>2 DEF Left, Plain
  <2>2. s.requests \in Nat /\ s.requests + Left(s) <= 13
    BY <1>0, <1>1 DEF Session, Proto, Scalars, Bounded, Starting
  <2> QED
    BY <1>0, <1>2, <2>1, <2>2 DEF Session
<1>5. ~StrayReplies => s.wire = <<>> /\ s.rcvEnc = FALSE
  <2>1. s.rcvEnc \in BOOLEAN
    BY <1>0 DEF Session
  <2> QED
    BY <1>1, <2>1 DEF Proto, InStep
<1>6. x \in Session
  BY <1>0 DEF Session
<1>7. /\ x.ctl = "open" /\ x.cfg = s.cfg /\ x.authMethod = s.authMethod /\ x.ap2 = s.ap2
      /\ x.waitingForPin = s.waitingForPin /\ x.controlEncrypted = s.controlEncrypted
      /\ x.pairStage = s.pairStage /\ x.requests = s.requests /\ x.wire = s.wire
      /\ x.rcvEnc = s.rcvEnc /\ x.pendingMethods = s.pendingMethods
      /\ x.pendingIsHttp = s.pendingIsHttp /\ x.state = s.state /\ x.proved = s.proved
  BY <1>0 DEF Session
<1> HIDE DEF x
<1>8. ASSUME NEW st \in {"Pairing", "Handshake"}, st = "Pairing" \/ x.authMethod \notin Hap
      PROVE  LET y == [x EXCEPT !.state = st]
             IN  /\ y \in Session /\ Ready(y) /\ y.state = st /\ y.pairStage = "None"
                 /\ y.requests = 0 /\ y.controlEncrypted = FALSE /\ y.authMethod = x.authMethod
                 /\ y.cfg = x.cfg
  <2> DEFINE y == [x EXCEPT !.state = st]
  <2>1. y \in Session
    BY <1>6 DEF Session, States
  <2>2. /\ y.state = st
        /\ y.ctl = x.ctl /\ y.cfg = x.cfg /\ y.authMethod = x.authMethod /\ y.ap2 = x.ap2
        /\ y.waitingForPin = x.waitingForPin /\ y.controlEncrypted = x.controlEncrypted
        /\ y.pairStage = x.pairStage /\ y.requests = x.requests /\ y.wire = x.wire
        /\ y.rcvEnc = x.rcvEnc /\ y.pendingMethods = x.pendingMethods
        /\ y.pendingIsHttp = x.pendingIsHttp
    BY <1>6 DEF Session
  <2> HIDE DEF y
  <2>3. Keyed(y)
    BY <1>2, <1>7, <1>8, <2>2 DEF Keyed
  <2>4. Between(y)
    BY <1>2, <1>3, <1>5, <1>7, <2>1, <2>2 DEF Between
  <2>5. ~StrayReplies => y.rcvEnc = y.controlEncrypted
    BY <1>4, <1>5, <1>7, <2>2
  <2>6. Ready(y)
    BY <1>2, <1>7, <2>2, <2>3, <2>4, <2>5 DEF Ready
  <2> QED
    BY <1>2, <1>4, <1>7, <2>1, <2>2, <2>6 DEF y
<1>9. /\ p \in Session /\ Ready(p) /\ p.state = "Pairing" /\ p.pairStage = "None"
      /\ p.requests = 0 /\ p.controlEncrypted = FALSE /\ p.authMethod = x.authMethod
      /\ p.cfg = x.cfg
  BY <1>8
<1>10. x.authMethod \in Auths
  BY <1>6 DEF Session
<1>11. CASE x.authMethod \in {"None", "Password"}
  <2> DEFINE z == sendRequest_(h, "OPTIONS")
  <2>1. s' = z
    BY <1>1, <1>11 DEF beginAuthChain_
  <2>2. x.authMethod \notin Hap
    BY <1>11 DEF Hap
  <2>3. h \in Session /\ Ready(h) /\ h.state = "Handshake" /\ h.pairStage = "None" /\ h.requests = 0
    BY <1>8, <2>2
  <2> HIDE DEF h
  <2>4. Sent(h, z, "OPTIONS", "None", h.pairStage)
    BY <2>3, SendView, Literals
  <2> HIDE DEF z
  <2>5. h.requests + 1 + After("OPTIONS") + (IF h.digestRetried THEN 0 ELSE 1) <= 13
    BY <2>3 DEF After
  <2>6. h.pairStage \in Plain
    BY <2>3 DEF Plain
  <2> QED
    BY <2>1, <2>3, <2>4, <2>5, <2>6, PlainStep
<1>12. CASE x.authMethod = "AuthSetup"
  <2> DEFINE z == httpPost_(p, "AuthSetup")
  <2>1. s' = z
    BY <1>1, <1>12 DEF beginAuthChain_
  <2> HIDE DEF p
  <2>2. Sent(p, z, "POST", "AuthSetup", "AuthSetup")
    BY <1>9, PostView, Literals
  <2> HIDE DEF z
  <2>3. z.state = "Pairing" /\ z.pairStage = "AuthSetup" /\ z.controlEncrypted = FALSE
        /\ z.waitingForPin = p.waitingForPin
    BY <1>9, <2>2 DEF Sent, Same
  <2>4. Staged(z)
    BY <1>9, <2>3 DEF Staged, PairStages, Ready
  <2>5. p.requests + 1 + Left(z) <= 13
    <3>1. Left(z) = 5
      BY <2>3, LeftTable
    <3> QED
      BY <1>9, <3>1
  <2>6. "AuthSetup" \notin Plain /\ "AuthSetup" \in Stages
    BY Literals DEF Plain
  <2> QED
    BY <1>9, <2>1, <2>2, <2>4, <2>5, <2>6, HttpStep
<1>13. CASE x.authMethod = "LegacyPin"
  <2>1. s' = fail_(p)
    BY <1>1, <1>13 DEF beginAuthChain_
  <2> HIDE DEF p
  <2>2. Over(p, fail_(p)) /\ fail_(p).requests = p.requests
    BY <1>9, FailView
  <2>3. fail_(p).state = "Idle" /\ fail_(p).requests = 0 /\ fail_(p).ctl = "closed"
        /\ fail_(p).wire = <<>> /\ ~fail_(p).rcvEnc
    BY <1>9, <2>2 DEF Over
  <2>4. Keyed(fail_(p))
    BY <1>9, <2>2, <2>3 DEF Ready, Keyed, Over
  <2>5. Staged(fail_(p)) /\ Bounded(fail_(p)) /\ OneRequest(fail_(p)) /\ InStep(fail_(p))
    BY <2>3 DEF Staged, Bounded, OneRequest, InStep, Starting
  <2> QED
    BY <2>1, <2>4, <2>5 DEF Proto, Scalars
<1>14. ASSUME x.authMethod \in Hap
       PROVE  /\ f \in Session /\ Ready(f) /\ f.state = "Pairing" /\ ~f.controlEncrypted
              /\ f.ap2 # "null" /\ f.authMethod = x.authMethod /\ f.requests = 0
  <2> HIDE DEF p
  <2>1. x.authMethod # "AuthSetup" /\ p.cfg.airplay2
    BY <1>2, <1>7, <1>9, <1>14 DEF Keyed, Hap
  <2>2. f \in Session
    BY <1>9, <1>10, NewAp2Type
  <2>3. /\ f.state = p.state /\ f.cfg = p.cfg /\ f.authMethod = x.authMethod /\ f.ap2 = "fresh"
        /\ f.waitingForPin = p.waitingForPin /\ f.controlEncrypted = p.controlEncrypted
        /\ f.ctl = p.ctl /\ f.requests = p.requests /\ f.pendingMethods = p.pendingMethods
        /\ f.pendingIsHttp = p.pendingIsHttp /\ f.wire = p.wire /\ f.rcvEnc = p.rcvEnc
    BY <1>9 DEF newAp2, Session
  <2> HIDE DEF f
  <2>4. Keyed(f)
    BY <1>9, <2>1, <2>3 DEF Keyed, Ready
  <2>5. Between(f)
    BY <1>9, <2>2, <2>3 DEF Between, Ready
  <2>6. Ready(f)
    BY <1>9, <2>3, <2>4, <2>5 DEF Ready
  <2> QED
    BY <1>9, <2>2, <2>3, <2>6
<1>15. ASSUME x.authMethod \in Hap, NEW stage \in PairStages \ {"AuthSetup"},
              stage \in {"SetupM2", "VerifyM2"} \/ (stage = "PinStart" /\ x.authMethod = "HapPin")
       PROVE  Proto(httpPost_(f, stage))
  <2> DEFINE n == IF stage = "SetupM2"
                  THEN IF f.authMethod = "HapPin" THEN 8
                       ELSE IF f.triedTransientAfterPin403 THEN 10 ELSE 12
                  ELSE IF stage = "VerifyM2" THEN 5
                  ELSE IF f.triedTransientAfterPin403 THEN 9 ELSE 11
  <2>1. /\ f \in Session /\ Ready(f) /\ f.state = "Pairing" /\ ~f.controlEncrypted
        /\ f.ap2 # "null" /\ f.authMethod = x.authMethod /\ f.requests = 0
    BY <1>14, <1>15
  <2> HIDE DEF f
  <2>2. n \in Nat /\ n <= 12
    OBVIOUS
  <2>3. \/ stage = "PinStart" /\ n = IF f.triedTransientAfterPin403 THEN 9 ELSE 11
        \/ stage = "SetupM2" /\ n = IF f.authMethod = "HapPin" THEN 8
                                   ELSE IF f.triedTransientAfterPin403 THEN 10 ELSE 12
        \/ stage = "VerifyM2" /\ n = 5
    BY <1>15
  <2> HIDE DEF n
  <2>4. f.requests \in Nat /\ f.requests + 1 + n <= 13
    BY <2>1, <2>2
  <2>5. f.authMethod \in Hap /\ (stage = "PinStart" => f.authMethod = "HapPin")
        /\ stage # "VerifyDone"
    BY <1>15, <2>1
  <2> QED
    BY <2>1, <2>2, <2>3, <2>4, <2>5, PostProto
<1>16. CASE x.authMethod = "HapTransient"
  <2>1. s' = httpPost_(f, "SetupM2")
    BY <1>1, <1>16 DEF beginAuthChain_
  <2>2. x.authMethod \in Hap /\ "SetupM2" \in PairStages \ {"AuthSetup"}
    BY <1>16 DEF Hap, PairStages
  <2> HIDE DEF f
  <2> QED
    BY <1>15, <2>1, <2>2
<1>17. CASE x.authMethod = "HapPin"
  <2>1. s' \in {httpPost_(f, "VerifyM2"), httpPost_(f, "PinStart")}
    BY <1>1, <1>17 DEF beginAuthChain_
  <2>2. x.authMethod \in Hap /\ "VerifyM2" \in PairStages \ {"AuthSetup"}
        /\ "PinStart" \in PairStages \ {"AuthSetup"}
    BY <1>17 DEF Hap, PairStages
  <2> HIDE DEF f
  <2> QED
    BY <1>15, <1>17, <2>1, <2>2
<1> QED
  BY <1>10, <1>11, <1>12, <1>13, <1>16, <1>17 DEF Auths

\* What happens to the sockets.
LEMMA SocketsProto ==
    ASSUME Core(s), Proto(s), Sockets
    PROVE  Proto(s')
<1>0. s \in Session
  BY DEF Core
<1>1. Proto(fail_(s)) /\ Proto(closedByPeer(s))
  BY <1>0, EndProto
<1>2. ASSUME NEW v, s' = [s EXCEPT !.evt = v]
      PROVE  Proto(s')
  <2>1. Same(s, s') /\ SameQueue(s, s')
    BY <1>0, <1>2 DEF Session, Same, SameQueue
  <2> QED
    BY <2>1, SameProto
<1>3. CASE OnTcpConnectFailed \/ OnControlCorrupt \/ \E r \in {"fin", "error"} : OnTcpClosed(r)
  BY <1>1, <1>3 DEF OnTcpConnectFailed, OnControlCorrupt, OnTcpClosed
<1>4. CASE OnEventConnected \/ OnEventClosed
  BY <1>2, <1>4 DEF OnEventConnected, OnEventClosed
<1> QED
  BY <1>3, <1>4, BeginProto DEF Sockets

----------------------------------------------------------------------------
(* The theorems. *)

\* An idle sender owes and is owed nothing.
LEMMA InitProto ==
    ASSUME Init
    PROVE  Proto(s)
<1>1. PICK c \in Configs : s = Fresh(c)
  BY DEF Init
<1>2. (c.auth \in Hap => c.airplay2) /\ (c.auth = "AuthSetup" => ~c.airplay2)
  BY ConfigsAssumption
<1>3. /\ s.state = "Idle" /\ s.cfg = c /\ s.authMethod = c.auth /\ s.ap2 = "null"
      /\ s.waitingForPin = FALSE /\ s.controlEncrypted = FALSE /\ s.requests = 0
      /\ s.ctl = "closed" /\ s.wire = <<>> /\ s.rcvEnc = FALSE
  BY <1>1 DEF Fresh
<1>4. Keyed(s)
  BY <1>2, <1>3 DEF Keyed
<1>5. Staged(s) /\ Bounded(s) /\ OneRequest(s) /\ InStep(s)
  BY <1>3 DEF Staged, Bounded, OneRequest, InStep, Starting
<1> QED
  BY <1>4, <1>5 DEF Proto, Scalars

\* The protocol invariant: keys, stages, the outstanding request and the budget
\* of every session, and with an honest receiver the two ends in step.
THEOREM ProtocolInvariant == Spec => []ProtoInv
<1>1. Init => ProtoInv
  BY InitCore, InitProto DEF ProtoInv
<1>2. ProtoInv /\ [Next]_s => ProtoInv'
  <2> SUFFICES ASSUME Core(s), Proto(s), [Next]_s
               PROVE  Core(s') /\ Proto(s')
    BY DEF ProtoInv
  <2>1. Core(s')
    BY NextSteps DEF Steps
  <2>2. Proto(s')
    BY HostProto, TickProto, SocketsProto, RtspProto, PairingProto DEF Next
  <2> QED
    BY <2>1, <2>2
<1> QED
  BY <1>1, <1>2, PTL DEF Spec

\* In strict mode no receiver, whatever it replies and however often, gets AirPlay 2
\* set-up traffic or audio without having proved itself.
THEOREM ReceiverProved == Spec => []StrictReceiverProved
<1>1. ProtoInv => StrictReceiverProved
  BY DEF ProtoInv, Proto, Scalars, Keyed, StrictReceiverProved
<1> QED
  BY <1>1, ProtocolInvariant, PTL

\* No handler dereferences a null ap2_ or encrypts without keys.
THEOREM Ap2NeverMissing == Spec => []Ap2StatePresent
<1>1. ProtoInv => Ap2StatePresent
  BY DEF ProtoInv, Proto, Scalars, Keyed, Staged, Ap2StatePresent
<1> QED
  BY <1>1, ProtocolInvariant, PTL

\* The fallbacks and the retry cannot loop: no handshake takes more than 13
\* requests and a TEARDOWN.
THEOREM HandshakeIsBounded == Spec => []HandshakeBounded
<1>1. ProtoInv => HandshakeBounded
  <2> SUFFICES ASSUME Core(s), Proto(s) PROVE s.requests <= 14
    BY DEF ProtoInv, HandshakeBounded
  <2>1. s \in Session /\ s.state \in States /\ s.requests \in Nat
    BY DEF Core, Session
  <2>2. CASE s.state \in Starting
    <3>1. Left(s) \in Nat
      BY <2>1, <2>2 DEF Proto, Scalars, Left, After, Staged, Starting, Plain, PairStages, SetupStages
    <3>2. s.requests + Left(s) <= 13
      BY <2>2 DEF Proto, Scalars, Bounded
    <3> QED
      BY <2>1, <3>1, <3>2
  <2>3. CASE s.state \notin Starting
    BY <2>1, <2>3 DEF Proto, Scalars, Bounded, States, Starting
  <2> QED
    BY <2>2, <2>3
<1> QED
  BY <1>1, ProtocolInvariant, PTL

\* All three, against receivers that send replies nobody asked for and hosts that
\* submit a PIN after the end.
THEOREM StraysDoNoHarm == Spec => []StrayHarmless
<1>1. StrictReceiverProved /\ Ap2StatePresent /\ HandshakeBounded => StrayHarmless
  BY DEF StrayHarmless
<1> QED
  BY <1>1, ReceiverProved, Ap2NeverMissing, HandshakeIsBounded, PTL

\* A receiver that only answers what it was asked has every reply routed to the
\* handler that waits for it.
THEOREM RepliesRouted ==
    ASSUME ~StrayReplies
    PROVE  Spec => []RepliesReachTheirHandler
<1>1. ProtoInv => RepliesReachTheirHandler
  BY DEF ProtoInv, Proto, InStep, Core, Paired, RepliesReachTheirHandler
<1> QED
  BY <1>1, ProtocolInvariant, PTL

\* And the two ends turn to encryption at the same request.
THEOREM EncryptedInStep ==
    ASSUME ~StrayReplies
    PROVE  Spec => []EncryptionInStep
<1>1. ProtoInv => EncryptionInStep
  <2> SUFFICES ASSUME Core(s), Proto(s) PROVE EncryptionInStep
    BY DEF ProtoInv
  <2>1. InStep(s)
    BY DEF Proto
  <2>2. CASE s.ctl = "open"
    BY <2>1, <2>2 DEF InStep, EncryptionInStep
  <2>3. CASE s.ctl # "open"
    <3>1. Len(s.wire) = 0
      BY <2>1, <2>3 DEF InStep
    <3> QED
      BY <3>1 DEF EncryptionInStep
  <2> QED
    BY <2>2, <2>3
<1> QED
  BY <1>1, ProtocolInvariant, PTL
=============================================================================
