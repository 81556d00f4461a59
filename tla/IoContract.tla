----------------------------- MODULE IoContract -----------------------------
(***************************************************************************)
(* What raop_io.h promises the sender about its TCP channels, whoever the  *)
(* host is: an attempt is answered by onTcpConnected when there is a       *)
(* connection or by onTcpConnectFailed when there is none, data and        *)
(* onTcpClosed belong to the connection the sender has open, each channel  *)
(* is closed once, and a channel the sender closed is silent until it      *)
(* connects again.                                                         *)
(*                                                                         *)
(* view[c] is what the sender knows of channel c, link[c] the connection   *)
(* behind it: "none", "dialing", "up" or "dead", the segments rx that have *)
(* arrived and the sender has not been given, and whether the peer has     *)
(* ended its stream.  call is the handler of the sender that is running:   *)
(* <<name, channel>>, or NoCall.  The sender's own calls come from inside  *)
(* a handler or from the application, so call does not guard them.         *)
(***************************************************************************)
EXTENDS Naturals

CONSTANT Channels

VARIABLES view, link, call

NoCall == <<>>
NoLink == [phase |-> "none", rx |-> 0, fin |-> FALSE]

Init == /\ view = [c \in Channels |-> "closed"]
        /\ link = [c \in Channels |-> NoLink]
        /\ call = NoCall

----------------------------------------------------------------------------
(* The sender.  connect(c) may be an attempt that cannot even be started. *)

Connect(c) ==
    /\ view' = [view EXCEPT ![c] = "opening"]
    /\ \E p \in {"dialing", "dead"} :
           link' = [link EXCEPT ![c] = [NoLink EXCEPT !.phase = p]]
    /\ UNCHANGED call

Gone(c) ==
    /\ view' = [view EXCEPT ![c] = "closed"]
    /\ link' = [link EXCEPT ![c] = NoLink]

Close(c) == Gone(c) /\ UNCHANGED call

----------------------------------------------------------------------------
(* The network. *)

Established(c) ==
    /\ link[c].phase = "dialing"
    /\ link' = [link EXCEPT ![c].phase = "up"]
    /\ UNCHANGED <<view, call>>

Broken(c) ==
    /\ link[c].phase \in {"dialing", "up"}
    /\ link' = [link EXCEPT ![c].phase = "dead"]
    /\ UNCHANGED <<view, call>>

Arrives(c) ==
    /\ link[c].phase = "up" /\ ~link[c].fin
    /\ \/ link' = [link EXCEPT ![c].rx = @ + 1]
       \/ link' = [link EXCEPT ![c].fin = TRUE]
    /\ UNCHANGED <<view, call>>

----------------------------------------------------------------------------
(* What the host tells the sender: one handler at a time. *)

Call(name, c) == call = NoCall /\ call' = <<name, c>>

onTcpConnected(c) ==
    /\ view[c] = "opening" /\ link[c].phase = "up"
    /\ Call("onTcpConnected", c)
    /\ view' = [view EXCEPT ![c] = "open"]
    /\ UNCHANGED link

onTcpConnectFailed(c) ==
    /\ view[c] = "opening" /\ link[c].phase = "dead"
    /\ Call("onTcpConnectFailed", c)
    /\ Gone(c)

onTcpData(c) ==
    /\ view[c] = "open" /\ link[c].rx > 0
    /\ Call("onTcpData", c)
    /\ \E rest \in 0 .. (link[c].rx - 1) : link' = [link EXCEPT ![c].rx = rest]
    /\ UNCHANGED view

onTcpClosed(c) ==
    /\ view[c] = "open"
    /\ link[c].phase = "dead" \/ (link[c].fin /\ link[c].rx = 0)
    /\ Call("onTcpClosed", c)
    /\ Gone(c)

\* onUdpDatagram and tick() say nothing of the channels.
OtherCall == Call("other", 0) /\ UNCHANGED <<view, link>>

Return == call # NoCall /\ call' = NoCall /\ UNCHANGED <<view, link>>

Next == \/ OtherCall \/ Return
        \/ \E c \in Channels :
               \/ Connect(c) \/ Close(c)
               \/ Established(c) \/ Broken(c) \/ Arrives(c)
               \/ onTcpConnected(c) \/ onTcpConnectFailed(c)
               \/ onTcpData(c) \/ onTcpClosed(c)

Spec == Init /\ [][Next]_<<view, link, call>>
=============================================================================
