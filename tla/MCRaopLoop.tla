----------------------------- MODULE MCRaopLoop -----------------------------
(* RaopLoop with both kinds of slots for the liveness run; safety is checked *)
(* by MCHosts.  To keep it small the sender opens two of the three slots,    *)
(* whichever, and sends two units, on one channel or on both.                *)
EXTENDS RaopLoop, FiniteSetsExt

Sparing == /\ Cardinality({i \in Tcp \cup Udp : slot[i].gen > 0}) <= 2
           /\ MapThenSumSet(LAMBDA c : sent[c], Tcp) <= MaxSend

\* Only the sender's calls are restricted, of which no fairness is assumed.
SparingSpec == /\ Init /\ [][Next /\ Sparing']_vars
               /\ Fairness /\ PeersPause /\ PeersRead

\* No connection is neglected: one that dies, or could not be started, is
\* reported or given up by the sender, and bytes the kernel had no room for are
\* written while it lives (pump: parked notifications, POLLOUT, the walk).
ConnectionsServed == DeathReported /\ QueueDrains
=============================================================================
