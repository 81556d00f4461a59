---------------------------- MODULE RaopSession ----------------------------
(***************************************************************************)
(* The control plane of RaopSender (raop_sender.h / raop_sender.cpp): the  *)
(* life of a session from start() through connecting, pairing and the RTSP *)
(* handshake to streaming and back to Idle, with its watchdog timers, the  *)
(* FIFOs that route replies to handlers, the pairing fallbacks, the digest *)
(* retry, and what the host application is told.                           *)
(*                                                                         *)
(* The sender is single-threaded: every call the host makes (start, stop,  *)
(* submitPin, onTcpData, tick ...) runs to completion, so every handler is *)
(* one action.  The state of the sender, of its sockets and of the         *)
(* receiver at the other end of the control connection is the record s; a  *)
(* private method of the class is an operator from records to records, so  *)
(* that a handler is the composition of the calls it makes, in order.      *)
(*                                                                         *)
(* Data is abstracted to what the control flow reads: a request is its     *)
(* method and what it is for, a status code is its class, a pairing reply  *)
(* is "good", "forged" (well formed, but the receiver's proof or signature *)
(* does not verify) or "error" (an error TLV, a missing item, data that    *)
(* cannot be decrypted).                                                   *)
(***************************************************************************)
EXTENDS Naturals, Sequences

CONSTANTS
    Configs,       \* what setAuth() and setStrictReceiverAuth() may describe
    MaxPending,    \* bound on the replies owed when the host adds a request or
                   \* the receiver sends a stray reply
    PinAfterEnd,   \* may the host submit a PIN after the session has ended?
    StrayReplies   \* may the receiver send replies nobody asked for?

Auths == {"None", "Password", "AuthSetup", "LegacyPin", "HapTransient", "HapPin"}
Hap   == {"HapTransient", "HapPin"}

Config == [auth : Auths, airplay2 : BOOLEAN, strict : BOOLEAN,
           creds : {"none", "usable", "unusable"}, password : BOOLEAN]

\* The HAP pairings belong to AirPlay 2 receivers and auth-setup to AirPlay 1
\* ones, as afterAuthOk_ takes for granted: with auth-setup and airplay2 set it
\* would go on to the AirPlay 2 set-up, which dereferences the null ap2_.
ASSUME ConfigsAssumption ==
    /\ Configs \subseteq Config
    /\ \A c \in Configs : /\ c.auth \in Hap => c.airplay2
                          /\ c.auth = "AuthSetup" => ~c.airplay2
ASSUME MaxPendingAssumption == MaxPending \in Nat \ {0}
ASSUME FlagsAssumption == PinAfterEnd \in BOOLEAN /\ StrayReplies \in BOOLEAN

VARIABLE s

----------------------------------------------------------------------------
(* The state of the sender and of its surroundings. *)

States   == {"Idle", "Connecting", "Pairing", "Handshake", "Streaming"}
Starting == {"Connecting", "Pairing", "Handshake"}
Stages   == {"None", "AuthSetup", "PinStart", "SetupM2", "SetupM4", "SetupM6",
             "VerifyM2", "VerifyDone", "Ap2Info", "Ap2Session", "Ap2Record",
             "Ap2Stream", "Done"}
SetupStages == {"Ap2Info", "Ap2Session", "Ap2Record", "Ap2Stream"}
Timers   == {"pacer", "sync", "timeout", "pinTimeout", "feedback"}
Methods  == {"OPTIONS", "ANNOUNCE", "SETUP", "RECORD", "SET_PARAMETER", "POST",
             "FEEDBACK", "TEARDOWN", "GET"}
HandshakeMethods == {"OPTIONS", "ANNOUNCE", "SETUP", "RECORD"}
Codes    == {"ok", "401", "403", "470", "other"}
Refusals == Codes \ {"ok"}

\* A request as the receiver sees it: for is the pairing stage whose handler
\* its reply is meant for ("None" when the reply is plain RTSP).
Request == [method : Methods, http : BOOLEAN, for : Stages, enc : BOOLEAN]

Session == [
    state            : States,
    cfg              : Config,
    authMethod       : Auths,           \* cfg.auth until a fallback changes it
    pairStage        : Stages,
    ap2              : {"null", "fresh", "transient", "verified"},
                                        \* ap2_, and the pairing that keyed it
    triedTransientAfterPin403 : BOOLEAN,
    waitingForPin    : BOOLEAN,
    controlEncrypted : BOOLEAN,
    digestNonce      : BOOLEAN,         \* is digestNonce_ set?
    digestRetried    : BOOLEAN,
    pendingVolume    : {"none", "user", "default"},
    nowPlaying       : 0..2,            \* SET_PARAMETERs sendMetadata_ makes
    armed            : SUBSET Timers,
    due              : SUBSET Timers,   \* armed, and the interval has passed
    pendingMethods   : Seq(Methods),
    pendingIsHttp    : Seq(BOOLEAN),
    rtspConnected    : BOOLEAN,
    rtspSession      : BOOLEAN,         \* is rtspSession_ set?
    udpBound         : BOOLEAN,
    \* outside the sender
    ctl              : {"closed", "connecting", "open"},   \* RaopTcp::Control
    evt              : {"closed", "connecting", "open"},   \* RaopTcp::Event
    wire             : Seq(Request),    \* requests the receiver has to answer
    rcvEnc           : BOOLEAN,         \* the receiver expects encrypted frames
    \* history: what the properties speak of, never read by an action
    proved           : BOOLEAN,         \* the keys in ap2_ come from an exchange
                                        \* in which the receiver proved itself
    session          : {"none", "bindFailed", "live"},  \* outcome of start()
    asked            : BOOLEAN,         \* stop() ended this session
    launched         : 0..2,            \* launched() calls since start()
    closed           : 0..2,            \* closed() calls since start()
    requests         : Nat,             \* handshake requests since start()
    feedbackRefused  : BOOLEAN,         \* the receiver refused /feedback
    gen              : {0, 1} ]         \* parity of the session

Saturate(n, max) == IF n < max THEN n + 1 ELSE max

Fresh(c) == [
    state |-> "Idle", cfg |-> c, authMethod |-> c.auth, pairStage |-> "None",
    ap2 |-> "null", triedTransientAfterPin403 |-> FALSE, waitingForPin |-> FALSE,
    controlEncrypted |-> FALSE, digestNonce |-> FALSE, digestRetried |-> FALSE,
    pendingVolume |-> "none", nowPlaying |-> 0, armed |-> {}, due |-> {},
    pendingMethods |-> <<>>, pendingIsHttp |-> <<>>, rtspConnected |-> FALSE,
    rtspSession |-> FALSE, udpBound |-> FALSE,
    ctl |-> "closed", evt |-> "closed", wire |-> <<>>, rcvEnc |-> FALSE,
    proved |-> FALSE, session |-> "none", asked |-> FALSE, launched |-> 0,
    closed |-> 0, requests |-> 0, feedbackRefused |-> FALSE, gen |-> 0]

Init == \E c \in Configs : s = Fresh(c)

----------------------------------------------------------------------------
(* Timers, sockets and the request pipeline. *)

\* Mutant: a timer that no one looks at is armed.
arm_Misnamed(x, t) == [x EXCEPT !.armed = @ \cup {"handshake"}, !.due = @ \ {t}]

arm_(x, t)    == [x EXCEPT !.armed = @ \cup {t}, !.due = @ \ {t}]
disarm_(x, t) == [x EXCEPT !.armed = @ \ {t}, !.due = @ \ {t}]
stopTimers_(x) == [x EXCEPT !.armed = {}, !.due = {}]

\* Nothing written to a closed connection reaches the receiver, and the replies
\* it still owes are lost with the connection.
tcpClose(x) == [x EXCEPT !.ctl = "closed", !.rtspConnected = FALSE,
                         !.wire = <<>>, !.rcvEnc = FALSE]

releaseSockets_(x) == [x EXCEPT !.udpBound = FALSE, !.evt = "closed"]

\* Both FIFOs are pushed, then writeRtsp_ puts the request on the connection,
\* encrypted once the channel is keyed.
IsHttp(for) == IF for = "None" THEN FALSE ELSE TRUE

request(x, m, for) ==
    [method |-> m, http |-> IsHttp(for), for |-> for,
     enc |-> IF x.ap2 = "null" THEN FALSE ELSE x.controlEncrypted]

writeRtsp_(x, m, for) ==
    [x EXCEPT !.pendingMethods = Append(@, m),
              !.pendingIsHttp  = Append(@, IsHttp(for)),
              !.wire = IF x.ctl = "open" THEN Append(@, request(x, m, for)) ELSE @,
              !.requests = IF x.state \in Starting THEN @ + 1 ELSE @]

sendRequest_(x, m) ==
    LET y == writeRtsp_(x, m, "None")
    IN  IF y.state \in {"Handshake", "Pairing"} THEN arm_(y, "timeout") ELSE y

httpPost_(x, stage) ==
    LET y == writeRtsp_([x EXCEPT !.pairStage = stage], "POST", stage)
    IN  IF y.waitingForPin THEN y ELSE arm_(y, "timeout")

sendAp2Rtsp_(x, m, stage) ==
    arm_(writeRtsp_([x EXCEPT !.pairStage = stage], m, stage), "timeout")

----------------------------------------------------------------------------
(* How a session ends. *)

\* Mutant: the UDP ports and the event channel stay open.
fail_Leaks(x) ==
    LET y == tcpClose(stopTimers_([x EXCEPT !.state = "Idle"]))
    IN  [y EXCEPT !.launched = IF x.state # "Streaming" THEN Saturate(@, 2) ELSE @,
                  !.closed   = Saturate(@, 2)]

\* Mutant: launched(false) is called on a session that was streaming, too.
fail_Relaunches(x) ==
    LET y == releaseSockets_(tcpClose(stopTimers_([x EXCEPT !.state = "Idle"])))
    IN  [y EXCEPT !.launched = Saturate(@, 2), !.closed = Saturate(@, 2)]

fail_(x) ==
    LET y == releaseSockets_(tcpClose(stopTimers_([x EXCEPT !.state = "Idle"])))
    IN  [y EXCEPT !.launched = IF x.state # "Streaming" THEN Saturate(@, 2) ELSE @,
                  !.closed   = Saturate(@, 2)]

\* Mutant: stop() reports closed().
stop_Loud(x) == IF x.state = "Idle" THEN x ELSE [fail_(x) EXCEPT !.asked = TRUE]

stop(x) ==
    IF x.state = "Idle" THEN x
    ELSE LET y == stopTimers_(x)
             z == IF y.rtspConnected /\ (y.rtspSession \/ y.cfg.airplay2)
                  THEN sendRequest_(y, "TEARDOWN") ELSE y
         IN  releaseSockets_(tcpClose([z EXCEPT !.state = "Idle", !.asked = TRUE]))

\* The peer's FIN: the host has already released the control socket.
closedByPeer(x) ==
    LET y == releaseSockets_(stopTimers_([tcpClose(x) EXCEPT !.state = "Idle"]))
    IN  [y EXCEPT !.launched = IF x.state # "Streaming" THEN Saturate(@, 2) ELSE @,
                  !.closed   = Saturate(@, 2)]

----------------------------------------------------------------------------
(* start(): a live session is stopped first, then everything a session      *)
(* carries is reset, the volume too.                                         *)

resetProtocol(x) ==
    [x EXCEPT !.controlEncrypted = FALSE, !.pendingMethods = <<>>,
              !.pendingIsHttp = <<>>, !.rtspSession = FALSE,
              !.pendingVolume = "none", !.ap2 = "null", !.pairStage = "None",
              !.waitingForPin = FALSE, !.triedTransientAfterPin403 = FALSE,
              !.digestNonce = FALSE, !.digestRetried = FALSE]

\* A bind failure is reported at once, by launched(false) and nothing else.
newHistory(x, bindOk) ==
    [x EXCEPT !.proved = FALSE, !.asked = FALSE, !.closed = 0, !.requests = 0,
              !.feedbackRefused = FALSE, !.gen = 1 - @,
              !.session = IF bindOk THEN "live" ELSE "bindFailed",
              !.launched = IF bindOk THEN 0 ELSE 1]

start(x, bindOk) ==
    LET z == newHistory(resetProtocol(stop(x)), bindOk)
    IN  IF bindOk
        THEN arm_([z EXCEPT !.udpBound = TRUE, !.state = "Connecting",
                            !.rtspConnected = FALSE, !.ctl = "connecting"], "timeout")
        ELSE releaseSockets_([z EXCEPT !.udpBound = TRUE])

----------------------------------------------------------------------------
(* The steps of the handshake and of pairing. *)

SetParameters(x, n) ==
    LET one == sendRequest_(x, "SET_PARAMETER")
    IN  CASE n = 0 -> x [] n = 1 -> one [] n = 2 -> sendRequest_(one, "SET_PARAMETER")

sendMetadata_(x) == SetParameters(x, x.nowPlaying)

startStreaming_(x) ==
    LET vol == IF x.cfg.airplay2 /\ x.pendingVolume = "none"
               THEN "default" ELSE x.pendingVolume
        y1 == arm_(disarm_([x EXCEPT !.state = "Streaming", !.pendingVolume = vol],
                           "timeout"), "sync")
        y2 == arm_(SetParameters(y1, IF vol = "none" THEN 0 ELSE 1), "pacer")
        y3 == IF x.cfg.airplay2 THEN arm_(y2, "feedback") ELSE sendRequest_(y2, "POST")
    IN  [sendMetadata_(y3) EXCEPT !.launched = Saturate(@, 2)]

\* Mutant: the pairing begins without a fresh ap2_.
newAp2_Missing(x, auth) == [x EXCEPT !.authMethod = auth, !.proved = FALSE]

newAp2(x, auth) == [x EXCEPT !.authMethod = auth, !.ap2 = "fresh", !.proved = FALSE]

sendPairSetupM3_(x, srpOk) == IF srpOk THEN httpPost_(x, "SetupM4") ELSE fail_(x)

beginAuthChain_(x) ==
    LET pairing == [x EXCEPT !.state = "Pairing"]
        fresh   == newAp2(pairing, x.authMethod)
    IN  CASE x.authMethod \in {"None", "Password"} ->
                 sendRequest_([x EXCEPT !.state = "Handshake"], "OPTIONS")
          [] x.authMethod = "AuthSetup"    -> httpPost_(pairing, "AuthSetup")
          [] x.authMethod = "LegacyPin"    -> fail_(pairing)
          [] x.authMethod = "HapTransient" -> httpPost_(fresh, "SetupM2")
          [] x.authMethod = "HapPin"       ->
                 httpPost_(fresh, IF x.cfg.creds = "usable" THEN "VerifyM2" ELSE "PinStart")

\* Mutant: the control channel stays in the clear after pairing.
afterAuthOk_Plain(x) ==
    LET y == [x EXCEPT !.digestRetried = FALSE, !.state = "Handshake"]
    IN  IF ~x.cfg.airplay2 THEN sendRequest_(y, "OPTIONS")
        ELSE sendAp2Rtsp_(y, "GET", "Ap2Info")

\* ap2 keyed by transient pairing or by pair-verify turns the encryption on.
afterAuthOk_(x) ==
    LET y == [x EXCEPT !.digestRetried = FALSE, !.state = "Handshake"]
    IN  IF ~x.cfg.airplay2 THEN sendRequest_(y, "OPTIONS")
        ELSE sendAp2Rtsp_([y EXCEPT !.controlEncrypted =
                                      @ \/ x.ap2 \in {"transient", "verified"}],
                          "GET", "Ap2Info")

----------------------------------------------------------------------------
(* What the host application calls. *)

SetAuth(c) ==
    /\ s.state = "Idle"
    /\ s' = [s EXCEPT !.cfg = c, !.authMethod = c.auth]

Start(bindOk) == s' = start(s, bindOk)

Stop == s.state # "Idle" /\ s' = stop(s)

SubmitPin(srpOk) ==
    /\ s.waitingForPin
    /\ s.state # "Idle" \/ PinAfterEnd
    /\ s' = sendPairSetupM3_(
              arm_(disarm_([s EXCEPT !.waitingForPin = FALSE], "pinTimeout"), "timeout"),
              srpOk)

RoomFor(n) == s.state = "Streaming" => Len(s.pendingMethods) + n <= MaxPending

SetVolume ==
    /\ RoomFor(1)
    /\ LET y == [s EXCEPT !.pendingVolume = "user"]
       IN  s' = IF s.state = "Streaming" THEN sendRequest_(y, "SET_PARAMETER") ELSE y

\* n is the number of requests the new track takes: none when everything is
\* empty, one for the text, one for the cover.
SetNowPlaying(n) ==
    /\ RoomFor(n)
    /\ LET y == [s EXCEPT !.nowPlaying = n]
       IN  s' = IF s.state = "Streaming" THEN sendMetadata_(y) ELSE y

----------------------------------------------------------------------------
(* Timers: an armed timer becomes due when its interval has passed since it  *)
(* was last armed; tick() then fires it.  The pacer and sync timers drive    *)
(* the data plane only.                                                      *)

TimePasses(t) ==
    /\ t \in s.armed \ s.due
    /\ s' = [s EXCEPT !.due = @ \cup {t}]

\* Mutant: the watchdog fires and ends nothing.
onHandshakeTimeout_Ignored ==
    /\ "timeout" \in s.due
    /\ s' = disarm_(s, "timeout")

onHandshakeTimeout_ ==
    /\ "timeout" \in s.due
    /\ LET y == disarm_(s, "timeout")
       IN  s' = IF ~y.waitingForPin /\ y.state \in Starting THEN fail_(y) ELSE y

onPinTimeout_ ==
    /\ "pinTimeout" \in s.due
    /\ LET y == disarm_(s, "pinTimeout")
       IN  s' = IF y.waitingForPin THEN fail_([y EXCEPT !.waitingForPin = FALSE]) ELSE y

onFeedbackTimer_ ==
    /\ "feedback" \in s.due
    /\ RoomFor(1)
    /\ LET y == arm_(s, "feedback")
       IN  s' = IF y.state # "Streaming" THEN y
                ELSE IF y.cfg.airplay2 THEN writeRtsp_(y, "FEEDBACK", "None")
                ELSE sendRequest_(y, "POST")

----------------------------------------------------------------------------
(* What happens to the sockets. *)

OnTcpConnected ==
    /\ s.ctl = "connecting"
    /\ s.state = "Connecting"
    /\ s' = beginAuthChain_([s EXCEPT !.ctl = "open", !.rtspConnected = TRUE])

OnTcpConnectFailed ==
    /\ s.ctl = "connecting"
    /\ s.state # "Idle"
    /\ s' = fail_(s)

OnTcpClosed(reason) ==
    /\ s.ctl = "open"
    /\ s.state # "Idle"
    /\ s' = IF reason = "error" THEN fail_(s) ELSE closedByPeer(s)

\* An encrypted frame that does not authenticate, or more than 4 MB of reply.
OnControlCorrupt ==
    /\ s.ctl = "open"
    /\ s' = fail_(s)

\* The event channel only logs; its sender side is opened and closed here.
OnEventConnected == s.evt = "connecting" /\ s' = [s EXCEPT !.evt = "open"]
OnEventClosed    == s.evt # "closed"     /\ s' = [s EXCEPT !.evt = "closed"]

----------------------------------------------------------------------------
(* Replies.  The sender routes a reply by the front of its FIFOs; the        *)
(* receiver answers its requests in order.  A stray reply answers nothing.   *)

Sources == {"answer", "stray"}

Replying(src) ==
    /\ s.ctl = "open"
    /\ s.pendingMethods # <<>>
    /\ IF src = "answer" THEN s.wire # <<>>
                         ELSE StrayReplies /\ Len(s.wire) <= MaxPending

\* Mutant: only one of the two FIFOs is popped.
popFront_OneFifo(x, src, keyed) ==
    [x EXCEPT !.pendingMethods = Tail(@),
              !.wire   = IF src = "answer" THEN Tail(@) ELSE @,
              !.rcvEnc = @ \/ (src = "answer" /\ keyed)]

\* keyed: after this answer the receiver expects encrypted requests.
popFront(x, src, keyed) ==
    [x EXCEPT !.pendingMethods = Tail(@), !.pendingIsHttp = Tail(@),
              !.wire   = IF src = "answer" THEN Tail(@) ELSE @,
              !.rcvEnc = @ \/ (src = "answer" /\ keyed)]

UnexpectedReply ==
    /\ s.ctl = "open"
    /\ s.pendingMethods = <<>>
    /\ s.wire # <<>>
    /\ s' = [s EXCEPT !.wire = Tail(@)]

\* SET_PARAMETER, FEEDBACK and TEARDOWN replies; pairing replies that come
\* while streaming or at a stage that expects none.
IgnoredReply(src, code) ==
    /\ Replying(src)
    /\ IF Head(s.pendingIsHttp)
       THEN \/ s.state = "Streaming"
            \/ code = "ok" /\ s.pairStage \in {"None", "Done"}
       ELSE Head(s.pendingMethods) \in {"SET_PARAMETER", "FEEDBACK", "TEARDOWN"}
    /\ s' = popFront(s, src, FALSE)

\* code "ok" is 200 here: any other code, another 2xx too, disables feedback.
FeedbackReply(src, code) ==
    /\ Replying(src) /\ ~Head(s.pendingIsHttp) /\ Head(s.pendingMethods) = "POST"
    /\ LET y == popFront(s, src, FALSE)
       IN  s' = IF code # "ok"
                THEN [disarm_(y, "feedback") EXCEPT !.feedbackRefused = TRUE]
                ELSE IF "feedback" \in y.armed THEN y ELSE arm_(y, "feedback")

HandshakeReply(src, m) ==
    Replying(src) /\ ~Head(s.pendingIsHttp) /\ Head(s.pendingMethods) = m

\* Mutant: the retry is not remembered.
OnChallenge_Again(src, m, parsed) ==
    /\ HandshakeReply(src, m)
    /\ LET y == popFront(s, src, FALSE)
       IN  s' = IF ~y.cfg.password \/ y.digestRetried \/ ~parsed THEN fail_(y)
                ELSE sendRequest_([y EXCEPT !.digestNonce = TRUE], m)

\* A 401: the rejected request is sent again, once, with an Authorization
\* header.  parsed: a nonce was found in the challenge.
OnChallenge(src, m, parsed) ==
    /\ HandshakeReply(src, m)
    /\ LET y == popFront(s, src, FALSE)
       IN  s' = IF ~y.cfg.password \/ y.digestRetried THEN fail_(y)
                ELSE IF ~parsed THEN fail_([y EXCEPT !.digestNonce = FALSE])
                ELSE sendRequest_([y EXCEPT !.digestNonce = TRUE, !.digestRetried = TRUE], m)

OnRefused(src, m) ==
    /\ HandshakeReply(src, m)
    /\ LET y == popFront(s, src, FALSE)
       IN  s' = IF y.state = "Streaming" /\ m = "RECORD" THEN y ELSE fail_(y)

OnOptionsOk(src)  == /\ HandshakeReply(src, "OPTIONS")
                     /\ s' = sendRequest_(popFront(s, src, FALSE), "ANNOUNCE")

OnAnnounceOk(src) == /\ HandshakeReply(src, "ANNOUNCE")
                     /\ s' = sendRequest_(popFront(s, src, FALSE), "SETUP")

OnSetupOk(src, serverPort) ==
    /\ HandshakeReply(src, "SETUP")
    /\ LET y == [popFront(s, src, FALSE) EXCEPT !.rtspSession = TRUE]
       IN  s' = IF serverPort THEN sendRequest_(y, "RECORD") ELSE fail_(y)

OnRecordOk(src) ==
    /\ HandshakeReply(src, "RECORD")
    /\ LET y == popFront(s, src, FALSE)
       IN  s' = IF y.state = "Streaming" THEN y ELSE startStreaming_(y)
----------------------------------------------------------------------------
(* Replies for onPairingResponse_: the stage decides which handler runs. *)

PairingReply(src, stage) ==
    /\ Replying(src) /\ Head(s.pendingIsHttp)
    /\ s.state \in Starting
    /\ s.pairStage = stage

\* auth-setup: the reply is not looked at.
OnAuthSetupReply(src) ==
    /\ PairingReply(src, "AuthSetup")
    /\ s.authMethod = "AuthSetup" /\ s.ap2 = "null"
    /\ s' = afterAuthOk_([popFront(s, src, FALSE) EXCEPT !.pairStage = "Done"])

\* RECORD between the two SETUPs: accepted or not, the stream SETUP follows.
OnAp2RecordReply(src) ==
    /\ PairingReply(src, "Ap2Record")
    /\ s' = sendAp2Rtsp_(popFront(s, src, FALSE), "SETUP", "Ap2Stream")

\* Mutant: the fallback after a 403 is not remembered.
OnPairingRefused_Again(src, stage, code) ==
    /\ PairingReply(src, stage)
    /\ stage \notin {"AuthSetup", "Ap2Record"}
    /\ LET y == popFront(s, src, FALSE)
       IN  s' = IF code = "470" /\ y.authMethod = "HapTransient" /\ stage = "SetupM2"
                THEN httpPost_(newAp2(y, "HapPin"), "PinStart")
                ELSE IF code = "403" /\ stage = "PinStart"
                THEN httpPost_(newAp2(y, "HapTransient"), "SetupM2")
                ELSE fail_(y)

\* 470 to a transient M1 turns to the on-screen PIN, 403 to /pair-pin-start
\* turns to transient pairing, once; everything else ends the session.
OnPairingRefused(src, stage, code) ==
    /\ PairingReply(src, stage)
    /\ stage \notin {"AuthSetup", "Ap2Record"}
    /\ LET y == popFront(s, src, FALSE)
       IN  s' = IF code = "470" /\ y.authMethod = "HapTransient" /\ stage = "SetupM2"
                THEN httpPost_(newAp2(y, "HapPin"), "PinStart")
                ELSE IF code = "403" /\ stage = "PinStart" /\ ~y.triedTransientAfterPin403
                THEN httpPost_(newAp2([y EXCEPT !.triedTransientAfterPin403 = TRUE],
                                      "HapTransient"), "SetupM2")
                ELSE fail_(y)

OnPinStartOk(src) ==
    /\ PairingReply(src, "PinStart")
    /\ s' = httpPost_(popFront(s, src, FALSE), "SetupM2")

\* Mutant: the handshake timer is stopped for the user, the PIN timer not started.
OnSetupM2_Unwatched(src, body, srpOk) ==
    /\ PairingReply(src, "SetupM2")
    /\ LET y == popFront(s, src, FALSE)
       IN  s' = IF body = "error" THEN fail_(y)
                ELSE IF y.authMethod = "HapTransient" THEN sendPairSetupM3_(y, srpOk)
                ELSE disarm_([y EXCEPT !.waitingForPin = TRUE], "timeout")

OnSetupM2(src, body, srpOk) ==
    /\ PairingReply(src, "SetupM2")
    /\ LET y == popFront(s, src, FALSE)
       IN  s' = IF body = "error" THEN fail_(y)
                ELSE IF y.authMethod = "HapTransient" THEN sendPairSetupM3_(y, srpOk)
                ELSE arm_(disarm_([y EXCEPT !.waitingForPin = TRUE], "timeout"), "pinTimeout")

OnSetupM4(src, body) ==
    /\ PairingReply(src, "SetupM4")
    /\ LET transient == s.authMethod = "HapTransient"
           y == popFront(s, src, transient /\ body # "error")
       IN  s' = IF body = "error" \/ (body = "forged" /\ y.cfg.strict) THEN fail_(y)
                ELSE IF transient
                THEN afterAuthOk_([y EXCEPT !.pairStage = "Done", !.ap2 = "transient",
                                            !.proved = body = "good"])
                ELSE httpPost_(y, "SetupM6")

\* The host may call stop() from inside credentialsObtained(); the handler
\* goes on with pair-verify all the same.
OnSetupM6(src, body, stopInside) ==
    /\ PairingReply(src, "SetupM6")
    /\ LET y == popFront(s, src, FALSE)
       IN  s' = IF body = "error" THEN fail_(y)
                ELSE httpPost_(IF stopInside THEN stop(y) ELSE y, "VerifyM2")

\* Mutant: the receiver's signature is not required in strict mode.
OnVerifyM2_Lenient(src, body) ==
    /\ PairingReply(src, "VerifyM2")
    /\ LET y == popFront(s, src, FALSE)
       IN  s' = IF body = "error" THEN fail_(y)
                ELSE httpPost_([y EXCEPT !.ap2 = "verified", !.proved = body = "good"],
                               "VerifyDone")

OnVerifyM2(src, body) ==
    /\ PairingReply(src, "VerifyM2")
    /\ LET y == popFront(s, src, FALSE)
       IN  s' = IF body = "error" \/ (body = "forged" /\ y.cfg.strict) THEN fail_(y)
                ELSE httpPost_([y EXCEPT !.ap2 = "verified", !.proved = body = "good"],
                               "VerifyDone")

OnVerifyDone(src) ==
    /\ PairingReply(src, "VerifyDone")
    /\ s' = afterAuthOk_([popFront(s, src, TRUE) EXCEPT !.pairStage = "Done"])

OnAp2Info(src) ==
    /\ PairingReply(src, "Ap2Info")
    /\ s' = sendAp2Rtsp_(popFront(s, src, FALSE), "SETUP", "Ap2Session")

\* An event port in the reply opens the event channel, then RECORD.
OnAp2Session(src, eventPort) ==
    /\ PairingReply(src, "Ap2Session")
    /\ LET y == popFront(s, src, FALSE)
       IN  s' = sendAp2Rtsp_([y EXCEPT !.evt = IF eventPort THEN "connecting" ELSE @],
                             "RECORD", "Ap2Record")

OnAp2Stream(src, dataPort) ==
    /\ PairingReply(src, "Ap2Stream")
    /\ LET y == popFront(s, src, FALSE)
       IN  s' = IF dataPort THEN startStreaming_(y) ELSE fail_(y)

----------------------------------------------------------------------------

Host ==
    \/ \E c \in Configs : SetAuth(c)
    \/ \E ok \in BOOLEAN : Start(ok) \/ SubmitPin(ok)
    \/ Stop
    \/ SetVolume
    \/ \E n \in 0..2 : SetNowPlaying(n)

Tick ==
    \/ \E t \in {"timeout", "pinTimeout", "feedback"} : TimePasses(t)
    \/ onHandshakeTimeout_
    \/ onPinTimeout_
    \/ onFeedbackTimer_

Sockets ==
    \/ OnTcpConnected
    \/ OnTcpConnectFailed
    \/ \E reason \in {"fin", "error"} : OnTcpClosed(reason)
    \/ OnControlCorrupt
    \/ OnEventConnected
    \/ OnEventClosed

RtspReplies ==
    \/ UnexpectedReply
    \/ \E src \in Sources :
        \/ \E code \in Codes : IgnoredReply(src, code) \/ FeedbackReply(src, code)
        \/ \E m \in HandshakeMethods :
              OnRefused(src, m) \/ \E ok \in BOOLEAN : OnChallenge(src, m, ok)
        \/ OnOptionsOk(src)
        \/ OnAnnounceOk(src)
        \/ \E port \in BOOLEAN : OnSetupOk(src, port)
        \/ OnRecordOk(src)

PairingReplies ==
    \E src \in Sources :
        \/ OnAuthSetupReply(src)
        \/ OnAp2RecordReply(src)
        \/ \E stage \in Stages, code \in Refusals : OnPairingRefused(src, stage, code)
        \/ OnPinStartOk(src)
        \/ \E body \in {"good", "error"}, ok \in BOOLEAN : OnSetupM2(src, body, ok)
        \/ \E body \in {"good", "forged", "error"} :
              OnSetupM4(src, body) \/ OnVerifyM2(src, body)
        \/ \E body \in {"good", "error"}, inside \in BOOLEAN : OnSetupM6(src, body, inside)
        \/ OnVerifyDone(src)
        \/ OnAp2Info(src)
        \/ \E port \in BOOLEAN : OnAp2Session(src, port) \/ OnAp2Stream(src, port)

Next == Host \/ Tick \/ Sockets \/ RtspReplies \/ PairingReplies

Spec == Init /\ [][Next]_s

\* The host calls tick() whenever nextDeadline() has passed, so a timer that is
\* armed and not armed again becomes due and is fired.  Nothing is assumed of
\* the network, of the receiver or of the user.
Fairness == /\ WF_s(TimePasses("timeout"))
            /\ WF_s(TimePasses("pinTimeout"))
            /\ WF_s(onHandshakeTimeout_)
            /\ WF_s(onPinTimeout_)

FairSpec == Spec /\ Fairness

----------------------------------------------------------------------------
(* Properties. *)

\* Type invariant.
TypeOK == s \in Session

\* A session that is starting is always guarded by a running watchdog: the
\* 10 s handshake timer, or the 180 s PIN timer while the user is asked for the
\* code.  Every exit of every handshake handler has to leave one armed.
WatchdogArmed ==
    s.state \in Starting =>
        IF s.waitingForPin THEN "pinTimeout" \in s.armed ELSE "timeout" \in s.armed

\* The FIFOs name, in order, exactly the requests the receiver still has to
\* answer, and the one pairing reply that may be owed belongs to the current
\* stage: "requests are answered in order, so a method FIFO routes replies".
RepliesReachTheirHandler ==
    s.ctl = "open" =>
        /\ Len(s.pendingMethods) = Len(s.wire)
        /\ Len(s.pendingIsHttp) = Len(s.wire)
        /\ \A i \in 1..Len(s.wire) :
              /\ s.pendingMethods[i] = s.wire[i].method
              /\ s.pendingIsHttp[i] = s.wire[i].http
              /\ s.wire[i].http => s.wire[i].for = s.pairStage /\ i = 1

\* Sender and receiver switch to the encrypted control channel at the same
\* request: what the receiver is to read next is encrypted exactly when it has
\* finished pairing.
EncryptionInStep ==
    \A i \in 1..Len(s.wire) : s.wire[i].enc = s.rcvEnc

\* In strict mode no AirPlay 2 set-up traffic, and no audio, goes to a receiver
\* that has not proved itself (setStrictReceiverAuth: "Fail closed").
StrictReceiverProved ==
    s.cfg.strict /\ s.authMethod \in Hap /\ s.state \in {"Handshake", "Streaming"}
        => s.proved

\* Nothing dereferences a null ap2_, and the control channel is never switched
\* to encryption without keys.
Ap2StatePresent ==
    /\ s.waitingForPin => s.ap2 # "null"
    /\ s.state \in Starting /\ s.pairStage \notin {"None", "AuthSetup", "Done"}
          => s.ap2 # "null"
    /\ s.controlEncrypted => s.ap2 \in {"transient", "verified"}

\* What the host is told: launched() once and closed() at most once a session,
\* closed() never before launched(); a session that ended without stop() has
\* been reported, a running one has not been reported closed.
EventContract ==
    /\ s.state \in Starting => s.launched = 0 /\ s.closed = 0
    /\ s.state = "Streaming" => s.launched = 1 /\ s.closed = 0
    /\ s.state = "Idle" /\ s.session # "none" =>
          /\ s.launched <= 1 /\ s.closed <= s.launched
          /\ ~s.asked => s.launched = 1 /\ (s.session = "live" <=> s.closed = 1)

\* Every way out of a session releases all its sockets, and a live one has
\* them.
SocketsFollowState ==
    IF s.state = "Idle"
    THEN s.ctl = "closed" /\ s.evt = "closed" /\ ~s.udpBound /\ s.wire = <<>>
    ELSE s.ctl # "closed" /\ s.udpBound
         /\ (s.state = "Connecting" <=> s.ctl = "connecting")

\* The fallbacks (470, 403) and the digest retry cannot loop: no handshake takes
\* more than 13 requests, a TEARDOWN aside, whatever the receiver replies.
HandshakeBounded == s.requests <= 14

\* Replies nobody asked for and late PINs talk the sender neither into an
\* unproved strict session, nor into using an ap2_ that is gone, nor into a
\* handshake of ever more requests (onRtspReadyRead_, onPairingResponse_).
StrayHarmless == StrictReceiverProved /\ Ap2StatePresent /\ HandshakeBounded

\* The handshake ends, streaming or Idle, or the host starts over: no receiver
\* and no user can keep a session starting for ever.
HandshakeEnds ==
    \A g \in {0, 1} :
        (s.gen = g /\ s.state \in Starting) ~> ~(s.gen = g /\ s.state \in Starting)

\* The sender implements the contract with its host: seen through the calls of
\* launched() and closed(), every step of every handler is a step of HostContract
\* or is not visible to the host.
Contract == INSTANCE HostContract WITH
    phase    <- IF s.state \in Starting THEN "Starting" ELSE s.state,
    session  <- s.session,
    asked    <- s.asked,
    launched <- s.launched,
    closed   <- s.closed

ImplementsHostContract == Contract!Spec

\* After stop() the host hears nothing more of that session.
StopIsSilent ==
    [][s.asked /\ s'.asked => s'.launched = s.launched /\ s'.closed = s.closed]_s

----------------------------------------------------------------------------
(* What comments and tests say of the code, and the code does not do. *)

\* "idle: no timers armed"
IdleArmsNoTimer == s.state = "Idle" => s.armed = {}

\* A volume set before the first start() is the one the session begins with.
VolumeBeforeStartKept ==
    [][s.session = "none" /\ s.pendingVolume = "user" => s'.pendingVolume = "user"]_s

\* "One-shot, gated on the transient M1 stage so it can't loop"
OneShot470 ==
    s.cfg.auth = "HapTransient" /\ s.triedTransientAfterPin403 /\ s.state # "Idle"
        => s.pairStage # "PinStart"

\* "a 200 arms the 25 s timer, anything else disables it for good"
FeedbackDisabledForGood == s.feedbackRefused => "feedback" \notin s.armed

\* "we MUST decrypt each and answer": an open event channel has its keys.
EventChannelKeyed == s.evt = "open" => s.ap2 = "verified"

============================================================================
