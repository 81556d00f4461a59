----------------------------- MODULE RaopQtHost -----------------------------
(***************************************************************************)
(* The Qt host of raop_qt_host.cpp: one QTcpSocket or QUdpSocket per slot, *)
(* whose signals are wired to handlers that call the sender.  A handler    *)
(* knows its slot, not its socket: it acts on whatever the slot holds when *)
(* the signal arrives, so a dropped socket is unwired first, and deleted   *)
(* only when control is back in the event loop, because it may be the one  *)
(* whose signal is being handled.                                          *)
(*                                                                         *)
(* Qt is external: a socket emits connected, readyRead, errorOccurred and  *)
(* disconnected, one at a time, the last two from one place and in that    *)
(* order.  The sender is any sender, as in RaopLoop.                       *)
(***************************************************************************)
EXTENDS Naturals, FiniteSets

CONSTANTS
    NTcp, NUdp,    \* slots: 2 and 3
    Socks,         \* socket objects
    nullptr,
    MaxRx          \* bound: segments on one connection, datagrams waiting

QtAssumption == nullptr \notin Socks /\ {NTcp, NUdp, MaxRx} \subseteq Nat

Tcp == 1 .. NTcp
Udp == (NTcp + 1) .. (NTcp + NUdp)

VARIABLES
    slot,          \* slot[i]: the Impl::Tcp or Impl::Udp of slot i
    obj,           \* obj[o]: the socket object o
    emitting,      \* the object whose signal is being handled
    call,          \* the sender's handler that is running
    driving,       \* d_->sender is set
    view           \* history: what the sender has been told of a TCP channel

vars == <<slot, obj, emitting, call, driving, view>>

NoCall == <<>>

Empty == [sock |-> nullptr, connected |-> FALSE]

\* ch: the slot its handlers captured; announced, ended: connected and
\* errorOccurred have been emitted.
NoObject == [phase |-> "free", ch |-> 0, rx |-> 0, got |-> 0, fin |-> FALSE,
             announced |-> FALSE, ended |-> FALSE, wired |-> FALSE, doomed |-> FALSE]

Init ==
    /\ slot = [i \in Tcp \cup Udp |-> Empty]
    /\ obj = [o \in Socks |-> NoObject]
    /\ emitting = nullptr /\ call = NoCall /\ driving = TRUE
    /\ view = [c \in Tcp |-> "closed"]

\* Mutants: the signals stay wired; the object is deleted on the spot.
Dropped_Wired(x) == [x EXCEPT !.doomed = TRUE]
Dropped_Now(x) == NoObject

\* A socket after disconnect(), abort() and deleteLater().
Dropped(x) == [NoObject EXCEPT !.phase = "aborted", !.ch = x.ch, !.doomed = TRUE]

\* dropTcp and dropUdp on the objects of x.
drop(x, i) == IF slot[i].sock = nullptr THEN x
              ELSE [x EXCEPT ![slot[i].sock] = Dropped(@)]

New(i, phase) == [NoObject EXCEPT !.phase = phase, !.ch = i, !.wired = TRUE]

----------------------------------------------------------------------------
(* RaopIo, drive() and release(): from a handler, or from the application  *)
(* when the event loop is idle.                                            *)

Calling == call # NoCall \/ emitting = nullptr

\* connectToHost may fail before it returns: errorOccurred then drops the socket
\* and the sender hears of it from inside its own call.
tcpConnect(c) ==
    /\ Calling /\ driving
    /\ \E o \in Socks :
        /\ obj[o].phase = "free"
        /\ \/ /\ obj' = [drop(obj, c) EXCEPT ![o] = New(c, "dialing")]
              /\ slot' = [slot EXCEPT ![c] = [Empty EXCEPT !.sock = o]]
              /\ view' = [view EXCEPT ![c] = "opening"]
           \/ /\ obj' = [drop(obj, c) EXCEPT ![o] = Dropped(New(c, "dead"))]
              /\ slot' = [slot EXCEPT ![c] = Empty]
              /\ view' = [view EXCEPT ![c] = "closed"]
    /\ UNCHANGED <<emitting, call, driving>>

\* With flush the signals are unwired before anything is waited for.
tcpClose(c) ==
    /\ Calling /\ slot[c].sock # nullptr
    /\ obj' = drop(obj, c)
    /\ slot' = [slot EXCEPT ![c] = Empty]
    /\ view' = [view EXCEPT ![c] = "closed"]
    /\ UNCHANGED <<emitting, call, driving>>

udpBind(u) ==
    /\ Calling /\ driving
    /\ \/ obj' = drop(obj, u) /\ slot' = [slot EXCEPT ![u] = Empty]
       \/ \E o \in Socks :
              /\ obj[o].phase = "free"
              /\ obj' = [drop(obj, u) EXCEPT ![o] = New(u, "udp")]
              /\ slot' = [slot EXCEPT ![u] = [Empty EXCEPT !.sock = o]]
    /\ UNCHANGED <<emitting, call, driving, view>>

udpClose(u) ==
    /\ Calling /\ slot[u].sock # nullptr
    /\ obj' = drop(obj, u)
    /\ slot' = [slot EXCEPT ![u] = Empty]
    /\ UNCHANGED <<emitting, call, driving, view>>

\* The application releases the host before the sender goes away; the sender's
\* destructor stops the session.  A new sender is driven once the slots are empty.
release ==
    /\ Calling /\ driving
    /\ driving' = FALSE
    /\ UNCHANGED <<slot, obj, emitting, call, view>>

drive ==
    /\ Calling /\ ~driving /\ \A i \in Tcp \cup Udp : slot[i] = Empty
    /\ driving' = TRUE
    /\ UNCHANGED <<slot, obj, emitting, call, view>>

\* The sender's handler returns into the handler of the signal.
Return ==
    /\ call # NoCall
    /\ call' = NoCall
    /\ UNCHANGED <<slot, obj, emitting, driving, view>>

----------------------------------------------------------------------------
(* The network behind the sockets. *)

Network(o, new) ==
    /\ ~obj[o].doomed
    /\ obj' = [obj EXCEPT ![o] = new]
    /\ UNCHANGED <<slot, emitting, call, driving, view>>

Established(o) == obj[o].phase = "dialing" /\ Network(o, [obj[o] EXCEPT !.phase = "up"])

Broken(o) == obj[o].phase \in {"dialing", "up"} /\ Network(o, [obj[o] EXCEPT !.phase = "dead"])

SegmentArrives(o) ==
    /\ obj[o].phase = "up" /\ ~obj[o].fin /\ obj[o].got < MaxRx
    /\ Network(o, [obj[o] EXCEPT !.rx = @ + 1, !.got = @ + 1])

StreamEnds(o) == obj[o].phase = "up" /\ ~obj[o].fin /\ Network(o, [obj[o] EXCEPT !.fin = TRUE])

DatagramArrives(o) ==
    /\ obj[o].phase = "udp" /\ obj[o].rx < MaxRx
    /\ Network(o, [obj[o] EXCEPT !.rx = @ + 1])

----------------------------------------------------------------------------
(* Signals.  Emit: o emits one, and its object is x afterwards.  The handler *)
(* reads the slot it captured; without a socket there, or without a sender,  *)
(* it returns at once.                                                       *)

Idle == emitting = nullptr /\ call = NoCall
Ch(o) == obj[o].ch

Heard(o) == obj[o].wired /\ slot[Ch(o)].sock # nullptr /\ driving

Unheard(o, x) == ~Heard(o) /\ obj' = [obj EXCEPT ![o] = x] /\ UNCHANGED <<slot, call, view>>

\* The socket the slot holds is dropped and the sender told.
Notify(objs, c, handler) ==
    /\ obj' = drop(objs, c)
    /\ slot' = [slot EXCEPT ![c] = Empty]
    /\ call' = <<handler, c>>
    /\ view' = [view EXCEPT ![c] = "closed"]

connected(o) ==
    LET x == [obj[o] EXCEPT !.announced = TRUE] IN
    /\ Idle /\ obj[o].wired /\ obj[o].phase = "up" /\ ~obj[o].announced
    /\ emitting' = o
    /\ \/ Unheard(o, x)
       \/ /\ Heard(o)
          /\ obj' = [obj EXCEPT ![o] = x]
          /\ slot' = [slot EXCEPT ![Ch(o)].connected = TRUE]
          /\ call' = <<"onTcpConnected", Ch(o)>>
          /\ view' = [view EXCEPT ![Ch(o)] = "open"]
    /\ UNCHANGED driving

\* readAll() empties the socket of the slot.
readyRead(o) ==
    /\ Idle /\ obj[o].wired /\ obj[o].announced /\ obj[o].rx > 0
    /\ Heard(o)
    /\ emitting' = o
    /\ obj' = [obj EXCEPT ![slot[Ch(o)].sock].rx = 0]
    /\ call' = IF obj[slot[Ch(o)].sock].rx > 0 THEN <<"onTcpData", Ch(o)>> ELSE NoCall
    /\ UNCHANGED <<slot, driving, view>>

\* A connect that fails, the peer's FIN after the last data, or an error later
\* on (a reset is also a RemoteHostClosedError to Qt).
errorOccurred(o) ==
    LET x == [obj[o] EXCEPT !.ended = TRUE]
        c == Ch(o)
        was == [obj EXCEPT ![o] = x] IN
    /\ Idle /\ obj[o].wired /\ ~obj[o].ended
    /\ obj[o].phase = "dead" \/ (obj[o].announced /\ obj[o].fin /\ obj[o].rx = 0)
    /\ emitting' = o
    /\ \E err \in (IF obj[o].phase = "dead" THEN {"OtherError"} ELSE {})
                      \cup (IF obj[o].announced THEN {"RemoteHostClosedError"} ELSE {}) :
        \/ Unheard(o, x)
        \/ Heard(o) /\ ~slot[c].connected /\ Notify(was, c, "onTcpConnectFailed")
        \/ /\ Heard(o) /\ slot[c].connected /\ err = "RemoteHostClosedError"
           /\ obj' = was /\ UNCHANGED <<slot, call, view>>
        \/ /\ Heard(o) /\ slot[c].connected /\ err # "RemoteHostClosedError"
           /\ Notify(was, c, "onTcpClosed")
    /\ UNCHANGED driving

Unfinished(o) == obj[o].wired /\ obj[o].ended /\ obj[o].announced

\* Right after errorOccurred, unless that handler dropped the socket.
disconnected(o) ==
    LET x == [obj[o] EXCEPT !.announced = FALSE] IN
    /\ emitting = o /\ call = NoCall /\ Unfinished(o)
    /\ \/ Unheard(o, x)
       \/ Heard(o) /\ Notify([obj EXCEPT ![o] = x], Ch(o), "onTcpClosed")
    /\ UNCHANGED <<emitting, driving>>

\* The datagrams waiting on the slot's socket, whichever socket that is by now.
Waiting(o) == Ch(o) \in Udp /\ Heard(o) /\ obj[slot[Ch(o)].sock].rx > 0

readyReadUdp(o) ==
    /\ Idle \/ (emitting = o /\ call = NoCall)
    /\ Ch(o) \in Udp /\ Waiting(o)
    /\ emitting' = o
    /\ obj' = [obj EXCEPT ![slot[Ch(o)].sock].rx = @ - 1]
    /\ call' = <<"onUdpDatagram", Ch(o)>>
    /\ UNCHANGED <<slot, driving, view>>

\* The ticker's timeout.
Tick ==
    /\ Idle /\ driving
    /\ call' = <<"tick", 0>>
    /\ UNCHANGED <<slot, obj, emitting, driving, view>>

\* Back in the event loop.
Emitted ==
    /\ emitting # nullptr /\ call = NoCall
    /\ ~Unfinished(emitting) /\ ~Waiting(emitting)
    /\ emitting' = nullptr
    /\ UNCHANGED <<slot, obj, call, driving, view>>

\* deleteLater() takes effect.
Deleted(o) ==
    /\ Idle /\ obj[o].doomed
    /\ obj' = [obj EXCEPT ![o] = NoObject]
    /\ UNCHANGED <<slot, emitting, call, driving, view>>

----------------------------------------------------------------------------

Signal(o) == connected(o) \/ readyRead(o) \/ errorOccurred(o) \/ disconnected(o)
                \/ readyReadUdp(o)

Next ==
    \/ \E c \in Tcp : tcpConnect(c) \/ tcpClose(c)
    \/ \E u \in Udp : udpBind(u) \/ udpClose(u)
    \/ release \/ drive \/ Return \/ Tick \/ Emitted
    \/ \E o \in Socks :
          \/ Established(o) \/ Broken(o) \/ SegmentArrives(o) \/ StreamEnds(o)
          \/ DatagramArrives(o) \/ Signal(o) \/ Deleted(o)

Spec == Init /\ [][Next]_vars

----------------------------------------------------------------------------
(* What is to hold. *)

\* Type invariant: a socket's handlers captured a slot that exists.
TypeOK ==
    /\ slot \in [Tcp \cup Udp -> [sock : Socks \cup {nullptr}, connected : BOOLEAN]]
    /\ obj \in [Socks -> [phase : {"free", "dialing", "up", "dead", "aborted", "udp"},
           ch : {0} \cup Tcp \cup Udp, rx : 0 .. MaxRx, got : 0 .. MaxRx, fin : BOOLEAN,
           announced : BOOLEAN, ended : BOOLEAN, wired : BOOLEAN, doomed : BOOLEAN]]
    /\ emitting \in Socks \cup {nullptr} /\ driving \in BOOLEAN
    /\ view \in [Tcp -> {"closed", "opening", "open"}]

\* The socket whose signal is being handled is not deleted under its handler,
\* whatever the sender closes, reopens or stops from inside it (deleteLater).
EmitterAlive == emitting # nullptr => obj[emitting].phase # "free"

\* Only the socket a slot holds can still reach the sender: a dropped one is
\* unwired before the slot is used again, and none is held twice or leaked.
WiredIsHeld ==
    \A o \in Socks :
        /\ (obj[o].phase # "free" /\ ~obj[o].doomed) <=> obj[o].wired
        /\ Cardinality({i \in Tcp \cup Udp : slot[i].sock = o}) = (IF obj[o].wired THEN 1 ELSE 0)

Link(c) == LET x == IF slot[c].sock = nullptr THEN [NoObject EXCEPT !.phase = "none"]
                                              ELSE obj[slot[c].sock]
           IN  [phase |-> x.phase, rx |-> x.rx, fin |-> x.fin]

Handler == IF call = NoCall \/ call[1] \notin {"onUdpDatagram", "tick"} THEN call
           ELSE <<"other", 0>>

Contract == INSTANCE IoContract
                WITH Channels <- Tcp, link <- [c \in Tcp |-> Link(c)], call <- Handler

\* The Qt host keeps the contract of raop_io.h: no signal of a socket dropped
\* earlier is heard on the slot's new connection, and a peer's close, which Qt
\* signals twice, is reported once and after the last data.
ImplementsIoContract == Contract!Spec
=============================================================================
