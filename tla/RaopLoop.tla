------------------------------ MODULE RaopLoop ------------------------------
(***************************************************************************)
(* The poll() host of raop_loop.cpp: its TCP and UDP slots, the six calls  *)
(* of RaopIo and pump(), which snapshots the live sockets, polls them and  *)
(* walks the answers, calling the sender for each.  Every such call may    *)
(* close and reopen any slot, and the kernel hands out the number of a     *)
(* closed socket again: what a walk knows of a slot is checked by (fd,     *)
(* gen) before it is used.                                                 *)
(*                                                                         *)
(* The sender is any sender: while a handler runs, and between two pumps,  *)
(* where the application calls it, it makes any io call.  The kernel (the  *)
(* sockets behind the fds) is external: connections come up, die and end,  *)
(* segments and datagrams arrive, poll() may be interrupted.  Bytes are    *)
(* counted in the units they are queued in: the n-th unit of a connection  *)
(* is n.                                                                   *)
(***************************************************************************)
EXTENDS Naturals, Sequences, FiniteSets

CONSTANTS
    NTcp, NUdp,    \* slots: 2 and 3
    Fds,           \* socket numbers the kernel can hand out
    kBadSock,
    Burst,         \* datagrams one walk takes from a socket: 64
    MaxGen,        \* bound: opens of one slot
    MaxSend,       \* bound: units queued on one connection
    MaxRx          \* bound: segments, or datagrams, waiting on one socket

ASSUME LoopAssumption ==
    /\ kBadSock \notin Fds
    /\ {NTcp, NUdp, Burst, MaxGen, MaxSend, MaxRx} \subseteq Nat

Tcp == 1 .. NTcp
Udp == (NTcp + 1) .. (NTcp + NUdp)

VARIABLES
    slot,          \* slot[i]: the TcpSlot or UdpSlot i
    kernel,        \* kernel[fd]: the socket behind fd
    pc,            \* where pump() is; "out": it has returned
    idx,           \* the slot whose parked notifications are next
    entries,       \* the answered entries of the snapshot not yet walked
    burst,         \* datagrams taken from the current entry
    call,          \* the sender's handler that is running
    view,          \* history: what the sender has been told of a TCP channel
    sent           \* history: units queued on the channel's connection

vars == <<slot, kernel, pc, idx, entries, burst, call, view, sent>>

loopVars == <<pc, idx, entries, burst>>

----------------------------------------------------------------------------
(* Slots and sockets. *)

NoCall == <<>>

\* A slot after reset(); a UdpSlot has only the first two fields.
Closed == [fd |-> kBadSock, gen |-> 0, connecting |-> FALSE, connected |-> FALSE,
           out |-> <<>>, outOff |-> 0, failedToStart |-> FALSE, sendFailed |-> FALSE]

\* phase "udp" for a datagram socket; fin: the peer ended its stream, or an
\* ICMP error is pending on a datagram socket; room: there is room for what the
\* sender writes.
NoSocket == [phase |-> "free", rx |-> 0, fin |-> FALSE, tx |-> <<>>, room |-> TRUE]

Reset(s) == [Closed EXCEPT !.gen = s.gen]

Unsent(s) == SubSeq(s.out, s.outOff + 1, Len(s.out))

FreeIn(k) == {fd \in Fds : k[fd].phase = "free"}

CloseSocket(k, fd) == IF fd = kBadSock THEN k ELSE [k EXCEPT ![fd] = NoSocket]

Init ==
    /\ slot = [i \in Tcp \cup Udp |-> Closed]
    /\ kernel = [fd \in Fds |-> NoSocket]
    /\ pc = "out" /\ idx = 1 /\ entries = {} /\ burst = 0
    /\ call = NoCall
    /\ view = [c \in Tcp |-> "closed"]
    /\ sent = [c \in Tcp |-> 0]

\* closeTcp and closeUdp.
closeSlot(i) ==
    /\ kernel' = CloseSocket(kernel, slot[i].fd)
    /\ slot' = [slot EXCEPT ![i] = Reset(slot[i])]

\* Mutant: the offset survives the queue it points into.
Drained_KeepOff(s, n) ==
    IF n = Len(Unsent(s)) THEN [s EXCEPT !.out = <<>>] ELSE [s EXCEPT !.outOff = @ + n]

\* drain() after the kernel took n units of the queue.
Drained(s, n) ==
    IF n = Len(Unsent(s)) THEN [s EXCEPT !.out = <<>>, !.outOff = 0]
                          ELSE [s EXCEPT !.outOff = @ + n]

\* drain() on slot i, which is s by now: the kernel takes nothing where it has
\* no room, else something, and all unless that fills it.
DrainOk(i, s) ==
    \E n \in 0 .. Len(Unsent(s)), room \in BOOLEAN :
        /\ kernel[s.fd].phase = "up" \/ Unsent(s) = <<>>
        /\ IF Unsent(s) = <<>> \/ ~kernel[s.fd].room
           THEN n = 0 /\ room = kernel[s.fd].room
           ELSE n > 0 /\ (room => n = Len(Unsent(s)))
        /\ slot' = [slot EXCEPT ![i] = Drained(s, n)]
        /\ kernel' = [kernel EXCEPT ![s.fd].tx = @ \o SubSeq(Unsent(s), 1, n),
                                    ![s.fd].room = room]

DrainFails(s) == kernel[s.fd].phase = "dead" /\ Unsent(s) # <<>>

----------------------------------------------------------------------------
(* RaopIo, called by the sender from a handler or by the application. *)

Calling == call # NoCall \/ pc = "out"

\* Mutant: a connect() that fails at once leaves its socket open.
Aborted_Leak(k, fd) == [k EXCEPT ![fd].phase = "dead"]

\* A socket that was opened and closed again before the call returned.
Aborted(k, fd) == k

\* The previous socket is closed first: its number may be handed out again.
\* The attempt starts (it is never reported from here), or it cannot be
\* started: no address, no socket, or connect() fails at once.
tcpConnect(c) ==
    /\ Calling /\ slot[c].gen < MaxGen
    /\ LET old   == CloseSocket(kernel, slot[c].fd)
           fresh == [Reset(slot[c]) EXCEPT !.gen = @ + 1]
       IN  \/ \E fd \in FreeIn(old) :
                 /\ kernel' = [old EXCEPT ![fd].phase = "dialing"]
                 /\ slot' = [slot EXCEPT ![c] =
                                 [fresh EXCEPT !.fd = fd, !.connecting = TRUE]]
           \/ /\ slot' = [slot EXCEPT ![c] = [fresh EXCEPT !.failedToStart = TRUE]]
              /\ kernel' \in {old} \cup {Aborted(old, fd) : fd \in FreeIn(old)}
    /\ view' = [view EXCEPT ![c] = "opening"]
    /\ sent' = [sent EXCEPT ![c] = 0]
    /\ UNCHANGED <<call, loopVars>>

\* Queued before the connection is up, queued and drained after; a failure is
\* parked for the next pump.
tcpSend(c) ==
    /\ Calling /\ slot[c].fd # kBadSock /\ sent[c] < MaxSend
    /\ sent' = [sent EXCEPT ![c] = @ + 1]
    /\ LET s == [slot[c] EXCEPT !.out = Append(@, sent'[c])]
       IN  \/ /\ ~s.connected
              /\ slot' = [slot EXCEPT ![c] = s]
              /\ UNCHANGED kernel
           \/ s.connected /\ DrainOk(c, s)
           \/ /\ s.connected /\ DrainFails(s)
              /\ slot' = [slot EXCEPT ![c] = [s EXCEPT !.sendFailed = TRUE]]
              /\ UNCHANGED kernel
    /\ UNCHANGED <<view, call, loopVars>>

\* With or without flush, whose 500 ms and 300 ms end here too: what it still
\* sends, and what it reads and drops, goes with the socket.
tcpClose(c) ==
    /\ Calling /\ slot[c] # Reset(slot[c])
    /\ closeSlot(c)
    /\ view' = [view EXCEPT ![c] = "closed"]
    /\ UNCHANGED <<call, sent, loopVars>>

udpBind(u) ==
    /\ Calling /\ slot[u].gen < MaxGen
    /\ LET old   == CloseSocket(kernel, slot[u].fd)
           fresh == [Reset(slot[u]) EXCEPT !.gen = @ + 1]
       IN  \/ \E fd \in FreeIn(old) :
                 /\ kernel' = [old EXCEPT ![fd].phase = "udp"]
                 /\ slot' = [slot EXCEPT ![u] = [fresh EXCEPT !.fd = fd]]
           \/ kernel' = old /\ slot' = [slot EXCEPT ![u] = fresh]
    /\ UNCHANGED <<call, view, sent, loopVars>>

udpClose(u) ==
    /\ Calling /\ slot[u].fd # kBadSock
    /\ closeSlot(u)
    /\ UNCHANGED <<call, view, sent, loopVars>>

\* The handler returns to pump().
Return ==
    /\ call # NoCall
    /\ call' = NoCall
    /\ UNCHANGED <<slot, kernel, view, sent, loopVars>>

----------------------------------------------------------------------------
(* The kernel and the network. *)

KernelStep(fd, new) ==
    /\ kernel' = [kernel EXCEPT ![fd] = new]
    /\ UNCHANGED <<slot, call, view, sent, loopVars>>

Established(fd) ==
    /\ kernel[fd].phase = "dialing"
    /\ KernelStep(fd, [kernel[fd] EXCEPT !.phase = "up"])

\* Refused or timed out while dialing, reset later.
Broken(fd) ==
    /\ kernel[fd].phase \in {"dialing", "up"}
    /\ KernelStep(fd, [kernel[fd] EXCEPT !.phase = "dead"])

SegmentArrives(fd) ==
    /\ kernel[fd].phase = "up" /\ ~kernel[fd].fin /\ kernel[fd].rx < MaxRx
    /\ KernelStep(fd, [kernel[fd] EXCEPT !.rx = @ + 1])

\* The peer has read: there is room again.
PeerReads(fd) ==
    /\ kernel[fd].phase = "up" /\ ~kernel[fd].room
    /\ KernelStep(fd, [kernel[fd] EXCEPT !.room = TRUE])

StreamEnds(fd) ==
    /\ kernel[fd].phase = "up" /\ ~kernel[fd].fin
    /\ KernelStep(fd, [kernel[fd] EXCEPT !.fin = TRUE])

DatagramArrives(fd) ==
    /\ kernel[fd].phase = "udp" /\ kernel[fd].rx < MaxRx
    /\ KernelStep(fd, [kernel[fd] EXCEPT !.rx = @ + 1])

IcmpError(fd) ==
    /\ kernel[fd].phase = "udp" /\ ~kernel[fd].fin
    /\ KernelStep(fd, [kernel[fd] EXCEPT !.fin = TRUE])

----------------------------------------------------------------------------
(* pump(). *)

\* The events poll() finds on a socket: those asked for, errors always.
Revents(fd, asked) ==
    LET k == kernel[fd]
        found == CASE k.phase = "up"   -> (IF k.room THEN {"OUT"} ELSE {})
                                              \cup (IF k.rx > 0 \/ k.fin THEN {"IN"} ELSE {})
                   [] k.phase = "dead" -> {"IN", "OUT", "ERR", "HUP"}
                   [] k.phase = "udp"  -> (IF k.rx > 0 THEN {"IN"} ELSE {})
                                              \cup (IF k.fin THEN {"ERR"} ELSE {})
                   [] OTHER            -> {}
    IN  found \cap (asked \cup {"ERR", "HUP"})

\* Mutant: POLLOUT is asked for only while connecting.
Asked_NoOut(i) == IF slot[i].connecting THEN {"OUT"} ELSE {"IN"}

Asked(i) == IF slot[i].connecting THEN {"OUT"}
            ELSE {"IN"} \cup (IF Unsent(slot[i]) # <<>> THEN {"OUT"} ELSE {})

Entry(i) == [slot |-> i, fd |-> slot[i].fd, gen |-> slot[i].gen,
             re |-> Revents(slot[i].fd, Asked(i))]

\* The snapshot, without the entries poll() left empty.
Answered == {e \in {Entry(i) : i \in {i \in Tcp \cup Udp : slot[i].fd # kBadSock}} : e.re # {}}

\* Mutant: a slot is recognised by its socket's number alone.
Stale_FdOnly(e) == slot[e.slot].fd # e.fd

Stale(e) == slot[e.slot].fd # e.fd \/ slot[e.slot].gen # e.gen

At(where) == pc = where /\ call = NoCall
Goto(where) == pc' = where

\* The entry the walk is at, in the order of the slots.
Current == CHOOSE e \in entries : \A f \in entries : e.slot <= f.slot

\* The current entry is done with.
NextEntry == /\ Goto("deliver")
             /\ entries' = entries \ {Current}
             /\ burst' = 0
             /\ UNCHANGED idx

\* The slot is closed and the sender hears of it: handler on channel c.
Notify(c, handler) ==
    /\ closeSlot(c)
    /\ call' = <<handler, c>>
    /\ view' = [view EXCEPT ![c] = "closed"]
    /\ UNCHANGED sent

Pump ==
    /\ At("out")
    /\ Goto("parked") /\ idx' = 1
    /\ UNCHANGED <<slot, kernel, entries, burst, call, view, sent>>

\* Mutant: only a failed send is looked for.
Notice_SendOnly(s) == IF s.sendFailed THEN "onTcpClosed" ELSE "none"

Notice(s) == IF s.failedToStart THEN "onTcpConnectFailed"
             ELSE IF s.sendFailed THEN "onTcpClosed" ELSE "none"

\* 1. One slot's parked notification.
Parked ==
    /\ At("parked") /\ idx \in Tcp
    /\ idx' = idx + 1
    /\ IF Notice(slot[idx]) = "none" THEN UNCHANGED <<slot, kernel, call, view, sent>>
                                     ELSE Notify(idx, Notice(slot[idx]))
    /\ UNCHANGED <<pc, entries, burst>>

\* 2. to 4. poll() waits until its deadline at the latest.
Poll ==
    /\ At("parked") /\ idx > NTcp
    /\ entries' = Answered
    /\ Goto("deliver")
    /\ UNCHANGED <<slot, kernel, idx, burst, call, view, sent>>

\* poll() returns -1: no entry is looked at.
PollInterrupted ==
    /\ At("parked") /\ idx > NTcp
    /\ Goto("deliver")
    /\ UNCHANGED <<slot, kernel, idx, entries, burst, call, view, sent>>

\* 5. The walk over the answered entries.
AtEntry == At("deliver") /\ entries # {}
AtLive == AtEntry /\ ~Stale(Current)

SkipStale ==
    /\ AtEntry /\ Stale(Current)
    /\ NextEntry
    /\ UNCHANGED <<slot, kernel, call, view, sent>>

\* While a connect is pending poll() was asked for OUT only: re has one of
\* OUT, ERR, HUP.  SO_ERROR is read now, after the handlers called so far.
ConnectFails ==
    /\ AtLive /\ Current.slot \in Tcp /\ slot[Current.slot].connecting
    /\ kernel[Current.fd].phase = "dead" \/ Current.re \cap {"ERR", "HUP"} # {}
    /\ Notify(Current.slot, "onTcpConnectFailed")
    /\ NextEntry

ConnectOk ==
    LET c == Current.slot IN
    /\ AtLive /\ c \in Tcp /\ slot[c].connecting
    /\ kernel[Current.fd].phase # "dead" /\ Current.re \cap {"ERR", "HUP"} = {}
    /\ slot' = [slot EXCEPT ![c].connecting = FALSE, ![c].connected = TRUE]
    /\ call' = <<"onTcpConnected", c>>
    /\ view' = [view EXCEPT ![c] = "open"]
    /\ Goto("connected")
    /\ UNCHANGED <<kernel, sent, idx, entries, burst>>

\* Back from onTcpConnected: what was queued before is flushed.
AfterConnected ==
    /\ At("connected")
    /\ NextEntry
    /\ \/ Stale(Current) /\ UNCHANGED <<slot, kernel, call, view, sent>>
       \/ ~Stale(Current) /\ DrainOk(Current.slot, slot[Current.slot]) /\ UNCHANGED <<call, view, sent>>
       \/ ~Stale(Current) /\ DrainFails(slot[Current.slot]) /\ Notify(Current.slot, "onTcpClosed")

AtConnected == AtLive /\ Current.slot \in Tcp /\ ~slot[Current.slot].connecting

SocketError ==
    /\ AtConnected /\ "ERR" \in Current.re
    /\ Notify(Current.slot, "onTcpClosed")
    /\ NextEntry

\* POLLOUT: the queue is drained, as far as handlers called since poll() have left
\* room, or that fails.  Then, if there is something to read, it is read.
Writable ==
    LET s == slot[Current.slot] IN
    /\ AtConnected /\ "ERR" \notin Current.re /\ "OUT" \in Current.re
    /\ \/ DrainFails(s) /\ Notify(Current.slot, "onTcpClosed") /\ NextEntry
       \/ /\ DrainOk(Current.slot, s)
          /\ IF "IN" \in Current.re THEN Goto("recv") /\ UNCHANGED <<idx, entries, burst>>
                                  ELSE NextEntry
          /\ UNCHANGED <<call, view, sent>>

Readable ==
    /\ AtConnected /\ Current.re = {"IN"}
    /\ Goto("recv")
    /\ UNCHANGED <<slot, kernel, idx, entries, burst, call, view, sent>>

\* The sender closed or reopened the slot from inside the handler.
ClosedMeanwhile(e) == Stale(e)

\* What recv() finds: data first, then the error or the end of the stream.
Found(fd) == IF fd = kBadSock THEN "error"
             ELSE IF kernel[fd].rx > 0 THEN "data"
             ELSE IF kernel[fd].phase = "dead" THEN "error"
             ELSE IF kernel[fd].fin THEN "end" ELSE "block"

\* One turn of the recv loop.
Recv ==
    LET c == Current.slot
        fd == slot[c].fd IN
    /\ At("recv")
    /\ \/ ClosedMeanwhile(Current) /\ NextEntry /\ UNCHANGED <<slot, kernel, call, view, sent>>
       \/ /\ ~ClosedMeanwhile(Current) /\ Found(fd) = "data"
          /\ kernel' = [kernel EXCEPT ![fd].rx = @ - 1]
          /\ call' = <<"onTcpData", c>>
          /\ UNCHANGED <<slot, view, sent, loopVars>>
       \/ /\ ~ClosedMeanwhile(Current) /\ Found(fd) \in {"error", "end"}
          /\ Notify(c, "onTcpClosed") /\ NextEntry
       \/ /\ ~ClosedMeanwhile(Current) /\ Found(fd) = "block"
          /\ NextEntry /\ UNCHANGED <<slot, kernel, call, view, sent>>

Datagrams ==
    /\ AtLive /\ Current.slot \in Udp
    /\ Goto("recvfrom")
    /\ UNCHANGED <<slot, kernel, idx, entries, burst, call, view, sent>>

\* Mutant: the datagrams of one walk are not counted.
Taken_Uncounted == burst

Taken == burst + 1

\* One turn of the recvfrom loop: a datagram (an empty one calls nobody), an
\* ICMP error, which is cleared, or nothing.
RecvFrom ==
    LET u == Current.slot
        fd == slot[u].fd IN
    /\ At("recvfrom")
    /\ UNCHANGED <<slot, view, sent>>
    /\ \/ /\ Stale(Current) \/ burst = Burst
          /\ NextEntry /\ UNCHANGED <<kernel, call>>
       \/ /\ ~Stale(Current) /\ burst < Burst /\ kernel[fd].rx > 0
          /\ kernel' = [kernel EXCEPT ![fd].rx = @ - 1]
          /\ call' \in {<<"onUdpDatagram", u>>, NoCall}
          /\ burst' = Taken
          /\ UNCHANGED <<pc, idx, entries>>
       \/ /\ ~Stale(Current) /\ burst < Burst /\ kernel[fd].rx = 0
          /\ kernel' = [kernel EXCEPT ![fd].fin = FALSE]
          /\ NextEntry /\ UNCHANGED call

\* 6. The sender's timers; between two pumps the application has its turn.
Tick ==
    /\ At("deliver") /\ entries = {}
    /\ Goto("out")
    /\ UNCHANGED <<slot, kernel, idx, entries, burst, call, view, sent>>

----------------------------------------------------------------------------

Io == \/ \E c \in Tcp : tcpConnect(c) \/ tcpSend(c) \/ tcpClose(c)
      \/ \E u \in Udp : udpBind(u) \/ udpClose(u)

Kernel == \E fd \in Fds :
              \/ Established(fd) \/ Broken(fd) \/ SegmentArrives(fd) \/ PeerReads(fd)
              \/ StreamEnds(fd) \/ DatagramArrives(fd) \/ IcmpError(fd)

Walk == \/ SkipStale \/ ConnectFails \/ ConnectOk \/ AfterConnected
        \/ SocketError \/ Writable \/ Readable \/ Recv \/ Datagrams \/ RecvFrom

Next == Io \/ Return \/ Kernel \/ Pump \/ Parked \/ Poll \/ PollInterrupted \/ Walk \/ Tick

Spec == Init /\ [][Next]_vars

\* Handlers return, the application pumps again and again, the loop's own
\* steps follow each other.  Signals do not interrupt every poll() (SF).
Fairness == /\ WF_vars(Return) /\ WF_vars(Pump) /\ WF_vars(Parked)
            /\ WF_vars(Walk) /\ WF_vars(Tick) /\ SF_vars(Poll)

\* What is assumed of the peers.  The recv loop has no cap: it ends when recv()
\* finds nothing, so a peer may send for ever, but not for ever into one such
\* loop; and a peer whose window is full reads in the end.
Fed == pc = "recv" /\ SegmentArrives(Current.fd)

PeersPause == []<><<Fed>>_vars => []<>(pc # "recv")

PeersRead == \A fd \in Fds : WF_vars(PeerReads(fd))

LiveSpec == Spec /\ Fairness /\ PeersPause /\ PeersRead

----------------------------------------------------------------------------
(* What is to hold. *)

\* Type invariant: offsets and generations in range, no walk beyond its cap.
TypeOK ==
    /\ slot \in [Tcp \cup Udp -> [fd : Fds \cup {kBadSock}, gen : 0 .. MaxGen,
           connecting : BOOLEAN, connected : BOOLEAN, out : Seq(1 .. MaxSend),
           outOff : 0 .. MaxSend, failedToStart : BOOLEAN, sendFailed : BOOLEAN]]
    /\ kernel \in [Fds -> [phase : {"free", "dialing", "up", "dead", "udp"},
           rx : 0 .. MaxRx, fin : BOOLEAN, tx : Seq(1 .. MaxSend), room : BOOLEAN]]
    /\ pc \in {"out", "parked", "deliver", "connected", "recv", "recvfrom"}
    /\ idx \in 1 .. (NTcp + 1) /\ burst \in 0 .. Burst
    /\ view \in [Tcp -> {"closed", "opening", "open"}]
    /\ sent \in [Tcp -> 0 .. MaxSend]

Holders(fd) == {i \in Tcp \cup Udp : slot[i].fd = fd}

\* Every socket the kernel has open is held by exactly one slot, and a slot
\* holds no closed one, whatever fails and whatever the handlers close and
\* reopen while pump() walks its snapshot: nothing leaks, nothing is closed
\* twice (tcpConnect, udpBind, closeTcp, closeUdp).
FdsOwned == \A fd \in Fds : Cardinality(Holders(fd)) = (IF fd \in FreeIn(kernel) THEN 0 ELSE 1)

\* The bytes of a connection reach the kernel once, in order and without a
\* gap, over any sequence of partial sends: what it took and what is still
\* queued is what the sender has queued (tcpSend, drain).
BytesUnbroken ==
    \A c \in Tcp :
        slot[c].fd # kBadSock =>
            kernel[slot[c].fd].tx \o Unsent(slot[c]) = [n \in 1 .. sent[c] |-> n]

\* raop_io.h, with the connection behind a channel read off its socket.
Link(c) ==
    LET s == slot[c] IN
    IF s.failedToStart THEN [phase |-> "dead", rx |-> 0, fin |-> FALSE]
    ELSE IF s.fd = kBadSock THEN [phase |-> "none", rx |-> 0, fin |-> FALSE]
    ELSE [phase |-> kernel[s.fd].phase, rx |-> kernel[s.fd].rx, fin |-> kernel[s.fd].fin]

Handler == IF call = NoCall \/ call[1] # "onUdpDatagram" THEN call ELSE <<"other", 0>>

Contract == INSTANCE IoContract
                WITH Channels <- Tcp, link <- [c \in Tcp |-> Link(c)], call <- Handler

\* The loop keeps the contract of raop_io.h: no event of a closed or replaced
\* socket reaches the sender as one of the connection it has now, a connect is
\* confirmed only once it is up, the end of a channel is reported once and after
\* its last data (pump, its checks of fd and gen).
ImplementsIoContract == Contract!Spec

Watched(c) == view[c] # "closed" /\ Link(c).phase = "dead"

\* A connection that dies, and an attempt that could not even be started, is
\* reported, or the sender gives the channel up itself: a parked notification is
\* never lost behind the other slots, nor behind their traffic as long as their
\* peers pause (pump, parts 1 and 5).
DeathReported == \A c \in Tcp : []<>~Watched(c)

Pending(c) == slot[c].connected /\ Link(c).phase = "up" /\ Unsent(slot[c]) # <<>>

\* Bytes the kernel had no room for at first are written while the connection
\* lives and its peer reads: pump asks for POLLOUT as long as something is queued,
\* and what is read at the same time does not keep it from writing.
QueueDrains == \A c \in Tcp : []<>~Pending(c)

\* Every pump comes to its tick, whatever the handlers do, however fast datagrams
\* keep arriving (the cap of 64 a walk), and whatever the peers of connections
\* send that pause in the end (the recv loop, which has no cap).
PumpEnds == []<>(pc = "out")
=============================================================================
