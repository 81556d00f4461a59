---------------------------- MODULE HostContract ----------------------------
(***************************************************************************)
(* What a sender promises the application that embeds it (the Events of    *)
(* raop_sender.h): how often launched() and closed() are called, and when. *)
(* Sockets, pairing and timers are not visible here.                       *)
(***************************************************************************)
EXTENDS Naturals

VARIABLES
    phase,     \* "Idle", "Starting" or "Streaming"
    session,   \* how the last start() went: "none", "bindFailed" or "live"
    asked,     \* the host ended the last session with stop()
    launched,  \* calls of launched() since start()
    closed     \* calls of closed() since start()

vars == <<phase, session, asked, launched, closed>>

Init == /\ phase = "Idle" /\ session = "none" /\ asked = FALSE
        /\ launched = 0 /\ closed = 0

\* start() begins a session from any phase, ending a running one silently.  When
\* no UDP port can be bound, launched(false) is all the host ever hears.
Begin == /\ session' \in {"live", "bindFailed"}
         /\ phase'    = IF session' = "live" THEN "Starting" ELSE "Idle"
         /\ launched' = IF session' = "live" THEN 0 ELSE 1
         /\ closed' = 0 /\ asked' = FALSE

\* launched(true): the first and only launched() of the session.
Launch == /\ phase = "Starting" /\ launched = 0 /\ closed = 0
          /\ phase' = "Streaming" /\ launched' = 1
          /\ UNCHANGED <<session, asked, closed>>

\* The session is lost.  The host hears launched(false) unless it has heard
\* launched(true), and then closed(), the first and only one.
Lose == /\ phase # "Idle" /\ closed = 0
        /\ launched = IF phase = "Streaming" THEN 1 ELSE 0
        /\ phase' = "Idle" /\ launched' = 1 /\ closed' = 1
        /\ UNCHANGED <<session, asked>>

\* stop() is silent, and nothing but start() follows it.
Quit == /\ phase # "Idle"
        /\ phase' = "Idle" /\ asked' = TRUE
        /\ UNCHANGED <<session, launched, closed>>

Next == Begin \/ Launch \/ Lose \/ Quit

Spec == Init /\ [][Next]_vars
============================================================================
