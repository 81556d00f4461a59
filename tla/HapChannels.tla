---------------------------- MODULE HapChannels -----------------------------
(***************************************************************************)
(* The two encrypted channels of an AirPlay 2 session: the control         *)
(* connection (HapControl) and the event channel (HapEvent).  A behaviour  *)
(* exercises one of them; the other stays as it starts.                    *)
(***************************************************************************)
EXTENDS HapControl

CONSTANTS BodyLens, MaxFrames, MaxAsked    \* of HapEvent

VARIABLES
    part,
    \* HapEvent
    eSession, eLive, eventEncBuf_, eventPlainBuf_, eventRecvCtr_, eventSendCtr_,
    answers, peer, net, eDamaged

eventVars == <<eSession, eLive, eventEncBuf_, eventPlainBuf_, eventRecvCtr_, eventSendCtr_,
               answers, peer, net, eDamaged>>

Event == INSTANCE HapEvent WITH
    MaxRequests <- MaxAsked, session <- eSession, live <- eLive, damaged <- eDamaged

ASSUME EventBounds == Event!EventAssumption

ChannelsInit == part \in {"control", "event"} /\ Init /\ Event!Init

ChannelsNext ==
    /\ \/ part = "control" /\ Next /\ UNCHANGED eventVars
       \/ part = "event" /\ Event!Next /\ UNCHANGED vars
    /\ UNCHANGED part

\* Receiver and connection do their part.
ChannelsSpec ==
    /\ ChannelsInit /\ [][ChannelsNext]_<<vars, eventVars, part>>
    /\ Fairness /\ Event!Fairness

----------------------------------------------------------------------------

\* Both ends of the control channel count frames and switch to encryption in
\* step, and the sender's text buffer stays within its cap (writeRtsp_,
\* onRtspReadyRead_, afterAuthOk_).
ControlInStep == TypeOK /\ InStep

\* Each request of the event channel is answered once, in order, with its own
\* CSeq and a fresh nonce, over any framing and segmentation; and after a damaged
\* frame, too, none is answered twice or out of order (onEventReadyRead_).
AnsweredOnce == Event!TypeOK /\ Event!OneAnswerEach /\ Event!NoAnswerTwice

\* The sender catches up on both channels: the replies with its requests on a
\* session that has not been given up (RequestDone names the one case in which
\* they may stay behind in onRtspReadyRead_'s buffer), its answers with the
\* receiver's requests on an undamaged event channel (onEventReadyRead_).
ChannelsCatchUp == RequestDone /\ Event!EveryRequestAnswered
=============================================================================
