------------------------------ MODULE MCHosts -------------------------------
(* The two hosts of the sender under one contract: RaopLoop with one TCP and *)
(* one UDP slot and room for bytes (narrow), RaopLoop with two TCP slots     *)
(* that handlers close and reopen (wide), RaopQtHost with two TCP slots and  *)
(* a UDP slot (qt).  A behaviour exercises one of them.                      *)
EXTENDS Naturals, Sequences, FiniteSets, TLC

CONSTANTS Fds, kBadSock, Socks, nullptr

VARIABLES
    host,
    slot, call, view,                           \* of all hosts
    kernel, pc, idx, entries, burst, sent,      \* of RaopLoop
    obj, emitting, driving                      \* of RaopQtHost

loopVars == <<kernel, pc, idx, entries, burst, sent>>
qtVars == <<obj, emitting, driving>>

Narrow == INSTANCE RaopLoop WITH
    NTcp <- 1, NUdp <- 1, Burst <- 2, MaxGen <- 2, MaxSend <- 3, MaxRx <- 1

Wide == INSTANCE RaopLoop WITH
    NTcp <- 2, NUdp <- 0, Burst <- 1, MaxGen <- 2, MaxSend <- 1, MaxRx <- 1

Qt == INSTANCE RaopQtHost WITH NTcp <- 2, NUdp <- 1, MaxRx <- 1

ASSUME InstancesAssumption == Qt!QtAssumption

\* Neither socket numbers nor socket objects are told apart.
HostSymmetry == Permutations(Fds) \cup Permutations(Socks)

unused == <<>>
NoLoop == /\ kernel = unused /\ pc = unused /\ idx = unused /\ entries = unused
          /\ burst = unused /\ sent = unused
NoQt == obj = unused /\ emitting = unused /\ driving = unused

Init == \/ host = "narrow" /\ Narrow!Init /\ NoQt
        \/ host = "wide" /\ Wide!Init /\ NoQt
        \/ host = "qt" /\ Qt!Init /\ NoLoop

Next == /\ \/ host = "narrow" /\ Narrow!Next /\ UNCHANGED qtVars
           \/ host = "wide" /\ Wide!Next /\ UNCHANGED qtVars
           \/ host = "qt" /\ Qt!Next /\ UNCHANGED loopVars
        /\ UNCHANGED host

Spec == Init /\ [][Next]_<<host, slot, call, view, loopVars, qtVars>>

----------------------------------------------------------------------------

\* Every socket is owned: what RaopLoop has open in the kernel is held by exactly
\* one slot and no slot holds a closed one (tcpConnect, udpBind, closeTcp); only
\* the Qt socket a slot holds can still reach the sender, none leaks, and none is
\* deleted under the handler of its own signal (dropTcp).
SocketsOwned ==
    CASE host = "narrow" -> Narrow!TypeOK /\ Narrow!FdsOwned
      [] host = "wide"   -> Wide!TypeOK /\ Wide!FdsOwned
      [] host = "qt"     -> Qt!TypeOK /\ Qt!WiredIsHeld /\ Qt!EmitterAlive

\* The bytes of a connection reach the kernel once, in order and without a gap,
\* over any sequence of partial sends (tcpSend, drain).
BytesUnbroken == host = "narrow" => Narrow!BytesUnbroken

Channels == 1 .. 2

\* The channel the narrow loop lacks is one the sender never opens.
Views == IF host = "narrow" THEN [c \in Channels |-> IF c = 1 THEN view[1] ELSE "closed"]
                            ELSE view

Links == [c \in Channels |->
             CASE host = "narrow" -> IF c = 1 THEN Narrow!Link(1)
                                     ELSE [phase |-> "none", rx |-> 0, fin |-> FALSE]
               [] host = "wide"   -> Wide!Link(c)
               [] host = "qt"     -> Qt!Link(c)]

Handler == CASE host = "narrow" -> Narrow!Handler
             [] host = "wide"   -> Wide!Handler
             [] host = "qt"     -> Qt!Handler

Contract == INSTANCE IoContract WITH view <- Views, link <- Links, call <- Handler

\* Both hosts keep the contract of raop_io.h: an event reaches the sender only as
\* one of the connection it happened to, a connect is confirmed once it is up, the
\* end of a channel is reported once and after its last data.
ImplementsIoContract == Contract!Spec
=============================================================================
