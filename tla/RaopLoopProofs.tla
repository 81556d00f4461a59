--------------------------- MODULE RaopLoopProofs ---------------------------
(***************************************************************************)
(* Proofs about RaopLoop, for any number of slots, sockets and             *)
(* generations: every socket is owned by one slot, the bytes of a          *)
(* connection are unbroken, and the loop implements IoContract.            *)
(***************************************************************************)
EXTENDS RaopLoop, FiniteSetTheorems, SequenceTheorems, ModularArithmetic, TLAPS

Slots == Tcp \cup Udp

Phases == {"free", "dialing", "up", "dead", "udp"}

Slot == [fd : Fds \cup {kBadSock}, gen : 0 .. MaxGen,
         connecting : BOOLEAN, connected : BOOLEAN, out : Seq(1 .. MaxSend),
         outOff : 0 .. MaxSend, failedToStart : BOOLEAN, sendFailed : BOOLEAN]

Socket == [phase : Phases, rx : 0 .. MaxRx, fin : BOOLEAN,
           tx : Seq(1 .. MaxSend), room : BOOLEAN]

\* No socket is held by two slots or by none, and a free one has no state.
Owned ==
    /\ \A i, j \in Slots : slot[i].fd = slot[j].fd /\ slot[i].fd # kBadSock => i = j
    /\ \A fd \in Fds : kernel[fd].phase # "free" => \E i \in Slots : slot[i].fd = fd
    /\ \A fd \in Fds : kernel[fd].phase = "free" => kernel[fd] = NoSocket

\* A TCP slot without a socket, and with one.
Empty(s, v) ==
    /\ ~s.connecting /\ ~s.connected /\ ~s.sendFailed
    /\ v = (IF s.failedToStart THEN "opening" ELSE "closed")

Held(s, v, k) ==
    /\ ~s.failedToStart
    /\ s.connecting <=> ~s.connected
    /\ v = (IF s.connected THEN "open" ELSE "opening")
    /\ k.phase \in {"dialing", "up", "dead"}
    /\ s.connected => k.phase # "dialing"
    /\ s.sendFailed => s.connected /\ k.phase = "dead"

\* The units 1 to n: t has been taken, then comes what is in q after its first o.
Line(q, o, t, n) ==
    /\ o <= Len(q) /\ Len(q) <= n
    /\ Len(t) + Len(q) = n + o
    /\ \A m \in 1 .. Len(t) : t[m] = m
    /\ \A m \in 1 .. Len(q) : q[m] = n - Len(q) + m

\* What was queued is what the kernel took and what is left of the queue.
Queue(s, k, n) == Line(s.out, s.outOff, k.tx, n)

Channel(s, v, n, k) ==
    IF s.fd = kBadSock THEN Empty(s, v)
    ELSE Held(s, v, k[s.fd]) /\ Queue(s, k[s.fd], n)

Channels == \A c \in Tcp : Channel(slot[c], view[c], sent[c], kernel)

Ports == \A u \in Udp : slot[u].fd # kBadSock => kernel[slot[u].fd].phase = "udp"

\* What an entry of a walk still tells of its slot, unless it is stale.
EntryOK(e) ==
    /\ e.slot \in Slots /\ e.fd \in Fds /\ e.gen \in 0 .. slot[e.slot].gen
    /\ ~Stale(e) /\ e.slot \in Tcp =>
          /\ kernel[e.fd].phase \in {"up", "dead"}
          /\ e.re \cap {"ERR", "HUP"} # {} => kernel[e.fd].phase = "dead"

Walked ==
    /\ \A e \in entries : EntryOK(e)
    /\ pc \in {"out", "parked"} => entries = {}
    /\ pc \in {"connected", "recv"} =>
          /\ entries # {} /\ Current.slot \in Tcp
          /\ ~Stale(Current) => slot[Current.slot].connected
    /\ pc = "recvfrom" => entries # {} /\ Current.slot \in Udp

Views == {"closed", "opening", "open"}

\* The slots, their sockets and what the sender knows of them.
Data ==
    /\ slot \in [Slots -> Slot] /\ kernel \in [Fds -> Socket]
    /\ view \in [Tcp -> Views] /\ sent \in [Tcp -> 0 .. MaxSend]
    /\ Owned /\ Channels /\ Ports

\* Where pump() is, and what it knows of the slots.
Place ==
    /\ pc \in {"out", "parked", "deliver", "connected", "recv", "recvfrom"}
    /\ idx \in 1 .. (NTcp + 1) /\ burst \in 0 .. Burst
    /\ Walked

LoopInv == Data /\ Place

\* A connection that came up does not come back to dialing, one that died stays
\* dead.
Onward(p, q) == /\ p \in {"up", "dead"} => q \in {"up", "dead"}
                /\ p = "dead" => q = "dead"

\* Generations only grow; a slot that keeps its generation keeps its socket or
\* loses it, and its connection only goes on.
Later ==
    \A i \in Slots :
        /\ slot'[i].gen >= slot[i].gen
        /\ slot'[i].gen = slot[i].gen => slot'[i].fd \in {slot[i].fd, kBadSock}
        /\ slot'[i].gen = slot[i].gen /\ slot'[i].fd # kBadSock =>
              /\ Onward(kernel[slot[i].fd].phase, kernel'[slot[i].fd].phase)
              /\ slot[i].connected => slot'[i].connected

\* Only channel i, if any, may see a difference.
Alone(i) == \A j \in Tcp \ {i} : Link(j)' = Link(j) /\ view'[j] = view[j]

\* The views and the counts of the other channels stay as they are.
OthersUntold(i) ==
    /\ view' \in [Tcp -> Views] /\ sent' \in [Tcp -> 0 .. MaxSend]
    /\ \A j \in Tcp \ {i} : view'[j] = view[j] /\ sent'[j] = sent[j]

\* Slot i becomes s and the sockets become k; the other slots keep theirs.
Changes(i, s, k) ==
    /\ i \in Slots /\ s \in Slot /\ k \in [Fds -> Socket]
    /\ slot' = [slot EXCEPT ![i] = s] /\ kernel' = k
    /\ \A j \in Slots \ {i} : slot[j].fd # kBadSock =>
           slot[j].fd # s.fd /\ k[slot[j].fd] = kernel[slot[j].fd]
    /\ \A f \in Fds : k[f].phase # "free" =>
           f = s.fd \/ \E j \in Slots \ {i} : slot[j].fd = f
    /\ \A f \in Fds : k[f].phase = "free" => k[f] = NoSocket
    /\ OthersUntold(i)
    /\ i \in Tcp => Channel(s, view'[i], sent'[i], k)
    /\ i \in Udp /\ s.fd # kBadSock => k[s.fd].phase = "udp"
    /\ s.gen >= slot[i].gen
    /\ s.gen = slot[i].gen =>
          /\ s.fd \in {slot[i].fd, kBadSock}
          /\ s.fd # kBadSock => /\ Onward(kernel[s.fd].phase, k[s.fd].phase)
                                /\ slot[i].connected => s.connected

\* Slot i gets a new generation with the state s, after its socket was closed:
\* the parts of tcpConnect and udpBind that do not depend on how they end.
Renews(i, s, k) ==
    /\ i \in Slots /\ s \in Slot /\ k \in [Fds -> Socket]
    /\ slot' = [slot EXCEPT ![i] = s] /\ kernel' = k
    /\ s.gen = slot[i].gen + 1
    /\ s.fd = kBadSock \/ CloseSocket(kernel, slot[i].fd)[s.fd].phase = "free"
    /\ \A f \in Fds \ {s.fd} : k[f] = CloseSocket(kernel, slot[i].fd)[f]
    /\ s.fd \in Fds => k[s.fd].phase # "free"
    /\ OthersUntold(i)
    /\ i \in Tcp => Channel(s, view'[i], sent'[i], k)
    /\ i \in Udp /\ s.fd # kBadSock => k[s.fd].phase = "udp"

\* Slot i becomes s and keeps its socket, which becomes n.
Updates(i, s, n) ==
    /\ i \in Slots /\ slot[i].fd # kBadSock /\ s \in Slot /\ n \in Socket
    /\ s.fd = slot[i].fd /\ s.gen = slot[i].gen /\ (slot[i].connected => s.connected)
    /\ n.phase # "free" /\ Onward(kernel[s.fd].phase, n.phase)
    /\ slot' = [slot EXCEPT ![i] = s] /\ kernel' = [kernel EXCEPT ![s.fd] = n]
    /\ OthersUntold(i)
    /\ i \in Tcp => Held(s, view'[i], n) /\ Queue(s, n, sent'[i])
    /\ i \in Udp => n.phase = "udp"

----------------------------------------------------------------------------
(* The queue. *)

\* What is left of a sequence after its first o elements.
LEMMA Suffix ==
    ASSUME NEW S, NEW q \in Seq(S), NEW o \in Nat, o <= Len(q)
    PROVE  /\ SubSeq(q, o + 1, Len(q)) \in Seq(S)
           /\ Len(SubSeq(q, o + 1, Len(q))) = Len(q) - o
           /\ \A m \in 1 .. (Len(q) - o) : SubSeq(q, o + 1, Len(q))[m] = q[o + m]
<1> DEFINE z == Len(q)
           a == o + 1
<1>1. z \in Nat /\ z \in Int /\ a \in Int /\ o <= z
  OBVIOUS
<1>2. \A m \in 1 .. z : q[m] \in S
  OBVIOUS
<1> HIDE DEF z
<1>3. \A m \in a .. z : q[m] \in S
  BY <1>1, <1>2
<1> HIDE DEF a
<1>4. /\ SubSeq(q, a, z) \in Seq(S)
      /\ Len(SubSeq(q, a, z)) = (IF a <= z THEN z - a + 1 ELSE 0)
      /\ \A m \in 1 .. (z - a + 1) : SubSeq(q, a, z)[m] = q[a + m - 1]
  BY <1>1, <1>3, SubSeqProperties
<1>5. a = o + 1
  BY DEF a
<1>6. (IF a <= z THEN z - a + 1 ELSE 0) = z - o /\ z - a + 1 = z - o
  BY <1>1, <1>5
<1>7. \A m \in 1 .. (z - o) : a + m - 1 = o + m
  BY <1>1, <1>5
<1>8. /\ SubSeq(q, a, z) \in Seq(S) /\ Len(SubSeq(q, a, z)) = z - o
      /\ \A m \in 1 .. (z - o) : SubSeq(q, a, z)[m] = q[o + m]
  BY <1>4, <1>6, <1>7
<1> QED
  BY <1>8 DEF a, z

\* The first d elements of a sequence.
LEMMA Prefix ==
    ASSUME NEW S, NEW q \in Seq(S), NEW d \in Nat, d <= Len(q)
    PROVE  /\ SubSeq(q, 1, d) \in Seq(S) /\ Len(SubSeq(q, 1, d)) = d
           /\ \A m \in 1 .. d : SubSeq(q, 1, d)[m] = q[m]
<1>1. \A m \in 1 .. d : q[m] \in S
  <2>1. \A m \in 1 .. Len(q) : q[m] \in S
    OBVIOUS
  <2>2. Len(q) \in Nat
    OBVIOUS
  <2>3. \A m \in 1 .. d : m \in 1 .. Len(q)
    BY <2>2
  <2> QED
    BY <2>1, <2>3
<1>2. /\ SubSeq(q, 1, d) \in Seq(S)
      /\ Len(SubSeq(q, 1, d)) = (IF 1 <= d THEN d - 1 + 1 ELSE 0)
      /\ \A m \in 1 .. (d - 1 + 1) : SubSeq(q, 1, d)[m] = q[1 + m - 1]
  BY <1>1, SubSeqProperties
<1>3. (IF 1 <= d THEN d - 1 + 1 ELSE 0) = d /\ d - 1 + 1 = d
  OBVIOUS
<1>4. \A m \in 1 .. d : 1 + m - 1 = m
  OBVIOUS
<1> QED
  BY <1>2, <1>3, <1>4

\* Two sequences in a row.
InRow(w, a, b) ==
    /\ Len(w) = Len(a) + Len(b)
    /\ \A m \in 1 .. Len(a) : w[m] = a[m]
    /\ \A m \in 1 .. Len(b) : w[Len(a) + m] = b[m]

\* Concatenation puts its second sequence behind its first.
LEMMA Joined ==
    ASSUME NEW S, NEW a \in Seq(S), NEW b \in Seq(S)
    PROVE  a \o b \in Seq(S) /\ InRow(a \o b, a, b)
<1> DEFINE v == a \o b
           x == Len(a)
           y == Len(b)
<1>1. /\ v \in Seq(S) /\ Len(v) = x + y
      /\ \A i \in 1 .. x + y : v[i] = IF i <= x THEN a[i] ELSE b[i - x]
  BY ConcatProperties
<1>2. x \in Nat /\ y \in Nat
  OBVIOUS
<1> HIDE DEF v, x, y
<1>3. \A m \in 1 .. x : v[m] = a[m]
  BY <1>1, <1>2
<1>4. ASSUME NEW m \in 1 .. y PROVE v[x + m] = b[m]
  <2>1. x + m \in 1 .. x + y /\ ~(x + m <= x) /\ (x + m) - x = m
    BY <1>2
  <2> QED
    BY <1>1, <2>1
<1>5. InRow(v, a, b)
  BY <1>1, <1>3, <1>4 DEF x, y, InRow
<1> QED
  BY <1>1, <1>5 DEF v

\* A new connection.
LEMMA LineEmpty == Line(<<>>, 0, <<>>, 0)
<1>1. Len(<<>>) = 0
  OBVIOUS
<1> QED
  BY <1>1 DEF Line

\* One more unit is queued.
LEMMA LineGrows ==
    ASSUME NEW S, NEW q \in Seq(S), NEW o \in Nat, NEW t \in Seq(S), NEW n \in Nat,
           n + 1 \in S, Line(q, o, t, n)
    PROVE  Append(q, n + 1) \in Seq(S) /\ Line(Append(q, n + 1), o, t, n + 1)
<1> DEFINE z == Len(q)
           y == Len(t)
           p == Append(q, n + 1)
<1>1. z \in Nat /\ y \in Nat
  OBVIOUS
<1>2. /\ p \in Seq(S) /\ Len(p) = z + 1 /\ p[z + 1] = n + 1
      /\ \A i \in 1 .. z : p[i] = q[i]
  BY AppendProperties
<1>3. /\ o <= z /\ z <= n /\ y + z = n + o
      /\ \A m \in 1 .. y : t[m] = m
      /\ \A m \in 1 .. z : q[m] = n - z + m
  BY DEF Line
<1> HIDE DEF z, y, p
<1>4. ASSUME NEW m \in 1 .. (z + 1)
      PROVE  p[m] = (n + 1) - (z + 1) + m
  <2>1. CASE m = z + 1
    BY <1>1, <1>2, <2>1
  <2>2. CASE m # z + 1
    <3>1. m \in 1 .. z
      BY <1>1, <2>2
    <3>2. p[m] = n - z + m
      BY <1>2, <1>3, <3>1
    <3> QED
      BY <1>1, <3>1, <3>2
  <2> QED
    BY <2>1, <2>2
<1>5. o <= z + 1 /\ z + 1 <= n + 1 /\ y + (z + 1) = (n + 1) + o
  BY <1>1, <1>3
<1>6. Line(p, o, t, n + 1)
  BY <1>2, <1>3, <1>4, <1>5 DEF Line, y
<1> QED
  BY <1>2, <1>6 DEF p

\* The kernel takes the next d units.
LEMMA LineMoves ==
    ASSUME NEW S, NEW q \in Seq(S), NEW o \in Nat, NEW t \in Seq(S), NEW n \in Nat,
           Line(q, o, t, n), NEW d \in Nat, d <= Len(q) - o,
           NEW w, w = t \o SubSeq(SubSeq(q, o + 1, Len(q)), 1, d)
    PROVE  /\ w \in Seq(S)
           /\ d = Len(q) - o => Line(<<>>, 0, w, n)
           /\ Line(q, o + d, w, n) /\ o + d <= n
<1> DEFINE z == Len(q)
           y == Len(t)
           u == SubSeq(q, o + 1, Len(q))
           part == SubSeq(u, 1, d)
<1>1. z \in Nat /\ y \in Nat
  OBVIOUS
<1>2. /\ o <= z /\ z <= n /\ y + z = n + o
      /\ \A m \in 1 .. y : t[m] = m
      /\ \A m \in 1 .. z : q[m] = n - z + m
  BY DEF Line
<1>3. u \in Seq(S) /\ Len(u) = z - o /\ \A m \in 1 .. (z - o) : u[m] = q[o + m]
  BY <1>2, Suffix
<1>4. w = t \o part /\ d <= z - o
  OBVIOUS
<1> HIDE DEF z, u
<1>5. part \in Seq(S) /\ Len(part) = d /\ \A m \in 1 .. d : part[m] = u[m]
  BY <1>3, <1>4, Prefix
<1> HIDE DEF part
<1>6. /\ w \in Seq(S) /\ Len(w) = y + d
      /\ \A m \in 1 .. y : w[m] = t[m]
      /\ \A m \in 1 .. d : w[y + m] = part[m]
  <2>1. t \o part \in Seq(S) /\ InRow(t \o part, t, part)
    BY <1>5, Joined
  <2>2. w \in Seq(S) /\ InRow(w, t, part)
    BY <1>4, <2>1
  <2> QED
    BY <1>5, <2>2 DEF InRow
<1> HIDE DEF y
<1>7. ASSUME NEW m \in 1 .. (y + d) PROVE w[m] = m
  <2>1. CASE m <= y
    <3>1. m \in 1 .. y
      BY <1>1, <2>1
    <3> QED
      BY <1>2, <1>6, <3>1
  <2>2. CASE ~(m <= y)
    <3> DEFINE e == m - y
    <3>1. e \in 1 .. d /\ e \in 1 .. (z - o) /\ m = y + e /\ o + e \in 1 .. z
      BY <1>1, <1>2, <1>4, <2>2
    <3> HIDE DEF e
    <3>2. w[m] = part[e] /\ part[e] = u[e] /\ u[e] = q[o + e]
      BY <1>3, <1>5, <1>6, <3>1
    <3>3. q[o + e] = n - z + (o + e)
      BY <1>2, <3>1
    <3>4. e \in Int /\ n - z + (o + e) = y + e
      BY <1>1, <1>2, <3>1
    <3> QED
      BY <3>1, <3>2, <3>3, <3>4
  <2> QED
    BY <2>1, <2>2
<1>8. o + d <= z /\ (y + d) + z = n + (o + d) /\ o + d <= n
  BY <1>1, <1>2, <1>4
<1>9. Line(q, o + d, w, n)
  BY <1>2, <1>6, <1>7, <1>8 DEF Line, z
<1>10. ASSUME d = z - o PROVE Line(<<>>, 0, w, n)
  <2>1. y + d = n
    BY <1>1, <1>2, <1>10
  <2>2. Len(<<>>) = 0
    OBVIOUS
  <2> QED
    BY <1>6, <1>7, <2>1, <2>2 DEF Line
<1> QED
  BY <1>6, <1>8, <1>9, <1>10 DEF z

----------------------------------------------------------------------------
(* Slots, records and sockets. *)

\* The constants are numbers, and no slot is of both kinds.
LEMMA Sizes ==
    /\ NTcp \in Nat /\ NUdp \in Nat /\ Burst \in Nat
    /\ MaxGen \in Nat /\ MaxSend \in Nat /\ MaxRx \in Nat
    /\ kBadSock \notin Fds
    /\ Slots \subseteq Nat /\ \A i \in Tcp : i \notin Udp
  BY LoopAssumption DEF Slots, Tcp, Udp

\* What reset() leaves of a slot.
LEMMA ResetSlot ==
    ASSUME NEW s \in Slot
    PROVE  /\ Reset(s) \in Slot
           /\ Reset(s).fd = kBadSock /\ Reset(s).gen = s.gen
           /\ ~Reset(s).connecting /\ ~Reset(s).connected
           /\ Reset(s).out = <<>> /\ Reset(s).outOff = 0
           /\ ~Reset(s).failedToStart /\ ~Reset(s).sendFailed
<1>1. Closed \in Slot
  <2>1. 0 \in 0 .. MaxGen /\ 0 \in 0 .. MaxSend /\ <<>> \in Seq(1 .. MaxSend)
    BY Sizes
  <2> QED
    BY <2>1 DEF Closed, Slot
<1>2. /\ Closed.fd = kBadSock /\ Closed.connecting = FALSE /\ Closed.connected = FALSE
      /\ Closed.out = <<>> /\ Closed.outOff = 0
      /\ Closed.failedToStart = FALSE /\ Closed.sendFailed = FALSE
  BY DEF Closed
<1>3. s.gen \in 0 .. MaxGen
  BY DEF Slot
<1> QED
  BY <1>1, <1>2, <1>3 DEF Reset, Slot

\* A socket that is not there.
LEMMA FreeSocket ==
    /\ NoSocket \in Socket /\ NoSocket.phase = "free" /\ NoSocket.rx = 0
    /\ NoSocket.fin = FALSE /\ NoSocket.tx = <<>>
  BY Sizes DEF Socket, NoSocket, Phases

\* closesocket() frees one number and leaves the other sockets alone.
LEMMA ClosedSocket ==
    ASSUME NEW k \in [Fds -> Socket], NEW fd \in Fds \cup {kBadSock}
    PROVE  /\ CloseSocket(k, fd) \in [Fds -> Socket]
           /\ \A f \in Fds : CloseSocket(k, fd)[f] = IF f = fd THEN NoSocket ELSE k[f]
  BY Sizes, FreeSocket DEF CloseSocket

\* One slot changes, and its socket; the other slots keep theirs.
LEMMA SlotChanges ==
    ASSUME Data, NEW i, NEW s, NEW k, Changes(i, s, k)
    PROVE  Data'
<1> USE DEF Changes, OthersUntold
<1>1. slot' \in [Slots -> Slot] /\ kernel' \in [Fds -> Socket]
  BY DEF Data
<1>2. slot'[i] = s /\ \A j \in Slots \ {i} : slot'[j] = slot[j]
  BY DEF Data
<1>3. Owned'
  <2>1. ASSUME NEW a \in Slots, NEW b \in Slots,
               slot'[a].fd = slot'[b].fd, slot'[a].fd # kBadSock
        PROVE  a = b
    BY <1>2, <2>1 DEF Data, Owned
  <2>2. ASSUME NEW f \in Fds, kernel'[f].phase # "free"
        PROVE  \E a \in Slots : slot'[a].fd = f
    <3>1. CASE f = s.fd
      BY <1>2, <3>1
    <3>2. CASE \E j \in Slots \ {i} : slot[j].fd = f
      BY <1>2, <3>2
    <3> QED
      BY <2>2, <3>1, <3>2
  <2> QED
    BY <2>1, <2>2 DEF Owned
<1>4. Channels'
  <2> SUFFICES ASSUME NEW c \in Tcp
               PROVE  Channel(slot'[c], view'[c], sent'[c], kernel')
    BY DEF Channels
  <2>1. CASE c = i
    BY <1>2, <2>1
  <2>2. CASE c # i
    <3>1. c \in Slots \ {i}
      BY <2>2 DEF Slots
    <3>2. Channel(slot[c], view[c], sent[c], kernel)
      BY DEF Data, Channels
    <3>3. slot[c].fd # kBadSock => kernel'[slot[c].fd] = kernel[slot[c].fd]
      BY <3>1
    <3> QED
      BY <1>2, <3>1, <3>2, <3>3, <2>2 DEF Channel
  <2> QED
    BY <2>1, <2>2
<1>5. Ports'
  <2> SUFFICES ASSUME NEW u \in Udp, slot'[u].fd # kBadSock
               PROVE  kernel'[slot'[u].fd].phase = "udp"
    BY DEF Ports
  <2>1. CASE u = i
    BY <1>2, <2>1
  <2>2. CASE u # i
    <3>1. u \in Slots \ {i}
      BY <2>2 DEF Slots
    <3> QED
      BY <1>2, <3>1 DEF Data, Ports
  <2> QED
    BY <2>1, <2>2
<1> QED
  BY <1>1, <1>3, <1>4, <1>5 DEF Data

\* The walk's knowledge of the other slots stays true, and so do their channels.
LEMMA SlotLater ==
    ASSUME Data, NEW i, NEW s, NEW k, Changes(i, s, k)
    PROVE  Later /\ Alone(i) /\ slot'[i] = s
<1> USE DEF Changes, OthersUntold
<1>1. slot'[i] = s /\ \A j \in Slots \ {i} : slot'[j] = slot[j]
  BY DEF Data
<1>2. \A j \in Slots : slot[j].gen \in Int /\ slot[j].fd \in Fds \cup {kBadSock}
  BY DEF Slot, Data
<1>3. Later
  <2> SUFFICES ASSUME NEW j \in Slots
               PROVE  /\ slot'[j].gen >= slot[j].gen
                      /\ slot'[j].gen = slot[j].gen => slot'[j].fd \in {slot[j].fd, kBadSock}
                      /\ slot'[j].gen = slot[j].gen /\ slot'[j].fd # kBadSock =>
                            /\ Onward(kernel[slot[j].fd].phase, kernel'[slot[j].fd].phase)
                            /\ slot[j].connected => slot'[j].connected
    BY DEF Later
  <2>1. CASE j = i
    BY <1>1, <2>1
  <2>2. CASE j # i
    <3>1. slot'[j] = slot[j]
      BY <1>1, <2>2
    <3>2. slot[j].fd # kBadSock => kernel'[slot[j].fd] = kernel[slot[j].fd]
      BY <2>2
    <3> QED
      BY <1>2, <3>1, <3>2 DEF Onward
  <2> QED
    BY <2>1, <2>2
<1>4. Alone(i)
  <2> SUFFICES ASSUME NEW j \in Tcp \ {i}
               PROVE  Link(j)' = Link(j) /\ view'[j] = view[j]
    BY DEF Alone
  <2>1. j \in Slots \ {i}
    BY DEF Slots
  <2>2. slot'[j] = slot[j]
    BY <1>1, <2>1
  <2>3. slot[j].fd # kBadSock => kernel'[slot[j].fd] = kernel[slot[j].fd]
    BY <2>1
  <2> QED
    BY <2>2, <2>3 DEF Link
<1> QED
  BY <1>1, <1>3, <1>4

----------------------------------------------------------------------------
(* What the calls do to the slots. *)

\* The other slots hold neither the closed socket nor a free one.
LEMMA OthersHold ==
    ASSUME Data, NEW i \in Slots, NEW j \in Slots \ {i}, slot[j].fd # kBadSock
    PROVE  /\ slot[j].fd \in Fds /\ slot[j].fd # slot[i].fd
           /\ kernel[slot[j].fd].phase # "free"
<1>1. slot[j].fd \in Fds
  BY DEF Data, Slot
<1>2. slot[j].fd # slot[i].fd
  BY DEF Data, Owned
<1>3. kernel[slot[j].fd].phase # "free"
  <2>1. CASE j \in Tcp
    BY <2>1 DEF Data, Channels, Channel, Held
  <2>2. CASE j \in Udp
    BY <2>2 DEF Data, Ports
  <2> QED
    BY <2>1, <2>2 DEF Slots
<1> QED
  BY <1>1, <1>2, <1>3

\* closeTcp, closeUdp.
LEMMA CloseEffect ==
    ASSUME Data, NEW i \in Slots, closeSlot(i), sent' = sent,
           view' = IF i \in Tcp THEN [view EXCEPT ![i] = "closed"] ELSE view
    PROVE  /\ Data' /\ Later /\ Alone(i)
           /\ slot'[i].fd = kBadSock /\ ~slot'[i].failedToStart
<1> DEFINE s == Reset(slot[i])
           k == CloseSocket(kernel, slot[i].fd)
<1>1. slot[i] \in Slot /\ slot[i].fd \in Fds \cup {kBadSock} /\ kernel \in [Fds -> Socket]
  BY DEF Data, Slot
<1>2. /\ s \in Slot /\ s.fd = kBadSock /\ s.gen = slot[i].gen /\ ~s.connecting
      /\ ~s.connected /\ ~s.failedToStart /\ ~s.sendFailed
  BY <1>1, ResetSlot
<1>3. /\ k \in [Fds -> Socket]
      /\ \A f \in Fds : k[f] = IF f = slot[i].fd THEN NoSocket ELSE kernel[f]
  BY <1>1, ClosedSocket
<1>4. slot' = [slot EXCEPT ![i] = s] /\ kernel' = k
  BY DEF closeSlot
<1> HIDE DEF s, k
<1>5. \A j \in Slots \ {i} : slot[j].fd # kBadSock =>
          slot[j].fd # s.fd /\ k[slot[j].fd] = kernel[slot[j].fd]
  BY <1>2, <1>3, OthersHold
<1>6. ASSUME NEW f \in Fds, k[f].phase # "free"
      PROVE  \E j \in Slots \ {i} : slot[j].fd = f
  <2>1. f # slot[i].fd /\ kernel[f].phase # "free"
    BY <1>3, <1>6, FreeSocket
  <2> QED
    BY <2>1 DEF Data, Owned
<1>7. \A f \in Fds : k[f].phase = "free" => k[f] = NoSocket
  BY <1>3 DEF Data, Owned
<1>8. OthersUntold(i) /\ (i \in Tcp => view'[i] = "closed")
  BY DEF Data, Views, OthersUntold
<1>9. i \in Tcp => Channel(s, view'[i], sent'[i], k)
  BY <1>2, <1>8 DEF Channel, Empty
<1>10. s.gen >= slot[i].gen
  BY <1>1, <1>2 DEF Slot
<1>11. Changes(i, s, k)
  BY <1>2, <1>3, <1>4, <1>5, <1>6, <1>7, <1>8, <1>9, <1>10 DEF Changes
<1>12. Data' /\ Later /\ Alone(i) /\ slot'[i] = s
  BY <1>11, SlotChanges, SlotLater
<1> QED
  BY <1>2, <1>12

\* A new generation of a slot, before it has a socket.
Fresh(s) == [Reset(s) EXCEPT !.gen = @ + 1]

\* Its fields.
LEMMA FreshSlot ==
    ASSUME NEW s \in Slot, s.gen < MaxGen
    PROVE  /\ Fresh(s) \in Slot
           /\ Fresh(s).fd = kBadSock /\ Fresh(s).gen = s.gen + 1
           /\ ~Fresh(s).connecting /\ ~Fresh(s).connected
           /\ Fresh(s).out = <<>> /\ Fresh(s).outOff = 0
           /\ ~Fresh(s).failedToStart /\ ~Fresh(s).sendFailed
<1>1. s.gen + 1 \in 0 .. MaxGen
  BY Sizes DEF Slot
<1>2. /\ Reset(s) \in Slot /\ Reset(s).fd = kBadSock /\ Reset(s).gen = s.gen
      /\ ~Reset(s).connecting /\ ~Reset(s).connected
      /\ Reset(s).out = <<>> /\ Reset(s).outOff = 0
      /\ ~Reset(s).failedToStart /\ ~Reset(s).sendFailed
  BY ResetSlot
<1> QED
  BY <1>1, <1>2 DEF Fresh, Slot

\* A slot is closed and used again.
LEMMA RenewEffect ==
    ASSUME Data, NEW i, NEW s, NEW k, Renews(i, s, k)
    PROVE  Data' /\ Later /\ Alone(i) /\ slot'[i] = s
<1> USE DEF Renews
<1> DEFINE old == CloseSocket(kernel, slot[i].fd)
<1>1. slot[i] \in Slot /\ slot[i].fd \in Fds \cup {kBadSock} /\ kernel \in [Fds -> Socket]
  BY DEF Data, Slot
<1>2. /\ old \in [Fds -> Socket]
      /\ \A f \in Fds : old[f] = IF f = slot[i].fd THEN NoSocket ELSE kernel[f]
  BY <1>1, ClosedSocket
<1>3. s.fd \in Fds \cup {kBadSock} /\ s.gen \in Nat /\ slot[i].gen \in Nat
  BY <1>1 DEF Slot
<1>3a. /\ s.fd = kBadSock \/ old[s.fd].phase = "free"
       /\ \A f \in Fds \ {s.fd} : k[f] = old[f]
  OBVIOUS
<1> HIDE DEF old
<1>4. ASSUME NEW j \in Slots \ {i}, slot[j].fd # kBadSock
      PROVE  slot[j].fd # s.fd /\ k[slot[j].fd] = kernel[slot[j].fd]
  <2>1. /\ slot[j].fd \in Fds /\ slot[j].fd # slot[i].fd
        /\ kernel[slot[j].fd].phase # "free"
    BY <1>4, OthersHold
  <2>2. old[slot[j].fd] = kernel[slot[j].fd]
    BY <1>2, <2>1
  <2>3. slot[j].fd # s.fd
    BY <1>3a, <1>4, <2>1, <2>2
  <2> QED
    BY <1>3a, <2>1, <2>2, <2>3
<1>5. ASSUME NEW f \in Fds, k[f].phase # "free", f # s.fd
      PROVE  \E j \in Slots \ {i} : slot[j].fd = f
  <2>1. f # slot[i].fd /\ kernel[f].phase # "free"
    BY <1>2, <1>3a, <1>5, FreeSocket
  <2> QED
    BY <2>1 DEF Data, Owned
<1>6. ASSUME NEW f \in Fds, k[f].phase = "free"
      PROVE  k[f] = NoSocket
  <2>1. f # s.fd
    BY <1>6
  <2> QED
    BY <1>2, <1>3a, <1>6, <2>1 DEF Data, Owned
<1>7. s.gen >= slot[i].gen /\ s.gen # slot[i].gen
  BY <1>3
<1>8. Changes(i, s, k)
  BY <1>4, <1>5, <1>6, <1>7 DEF Changes
<1> QED
  BY <1>8, SlotChanges, SlotLater

\* Slot i is s, with the new socket fd.
Opened(i, s, fd, phase) ==
    /\ slot'[i] = s /\ s.fd = fd /\ ~s.failedToStart
    /\ kernel'[fd].phase = phase /\ kernel'[fd].rx = 0 /\ kernel'[fd].fin = FALSE

\* An attempt that starts, or a port that is bound.
LEMMA OpenEffect ==
    ASSUME Data, NEW i \in Slots, slot[i].gen < MaxGen,
           NEW fd \in FreeIn(CloseSocket(kernel, slot[i].fd)),
           NEW phase \in {"dialing", "udp"}, phase = "dialing" <=> i \in Tcp,
           NEW s, s = [Fresh(slot[i]) EXCEPT !.fd = fd, !.connecting = (i \in Tcp)],
           slot' = [slot EXCEPT ![i] = s],
           kernel' = [CloseSocket(kernel, slot[i].fd) EXCEPT ![fd].phase = phase],
           view' = IF i \in Tcp THEN [view EXCEPT ![i] = "opening"] ELSE view,
           sent' = IF i \in Tcp THEN [sent EXCEPT ![i] = 0] ELSE sent
    PROVE  Data' /\ Later /\ Alone(i) /\ Opened(i, s, fd, phase)
<1> DEFINE old == CloseSocket(kernel, slot[i].fd)
           new == [NoSocket EXCEPT !.phase = phase]
           k == [old EXCEPT ![fd].phase = phase]
<1>1. slot[i] \in Slot /\ slot[i].fd \in Fds \cup {kBadSock} /\ kernel \in [Fds -> Socket]
  BY DEF Data, Slot
<1>2. /\ old \in [Fds -> Socket]
      /\ \A f \in Fds : old[f] = IF f = slot[i].fd THEN NoSocket ELSE kernel[f]
  BY <1>1, ClosedSocket
<1>3. fd \in Fds /\ fd # kBadSock /\ old[fd].phase = "free"
  BY Sizes DEF FreeIn
<1> HIDE DEF old
<1>4. old[fd] = NoSocket
  BY <1>2, <1>3 DEF Data, Owned
<1>5. /\ new \in Socket /\ new.phase = phase /\ new.rx = 0
      /\ new.tx = <<>> /\ new.fin = FALSE
  BY FreeSocket DEF Socket, Phases
<1>6. k = [old EXCEPT ![fd] = new]
  BY <1>4
<1> HIDE DEF new
<1>7. k \in [Fds -> Socket] /\ k[fd] = new /\ \A f \in Fds \ {fd} : k[f] = old[f]
  BY <1>2, <1>3, <1>5, <1>6
<1>8. kernel' = k
  BY DEF old
<1>9. /\ s \in Slot /\ s.fd = fd /\ s.gen = slot[i].gen + 1
      /\ s.connecting = (i \in Tcp) /\ ~s.connected /\ s.out = <<>> /\ s.outOff = 0
      /\ ~s.failedToStart /\ ~s.sendFailed
  <2> DEFINE b == i \in Tcp
             r == Fresh(slot[i])
  <2>1. /\ r \in Slot /\ r.gen = slot[i].gen + 1 /\ ~r.connected
        /\ r.out = <<>> /\ r.outOff = 0 /\ ~r.failedToStart /\ ~r.sendFailed
    BY <1>1, FreshSlot
  <2>2. b \in BOOLEAN /\ s = [r EXCEPT !.fd = fd, !.connecting = b]
    OBVIOUS
  <2> HIDE DEF b, r
  <2>3. /\ s \in Slot /\ s.fd = fd /\ s.gen = slot[i].gen + 1
        /\ s.connecting = b /\ ~s.connected /\ s.out = <<>> /\ s.outOff = 0
        /\ ~s.failedToStart /\ ~s.sendFailed
    BY <1>3, <2>1, <2>2 DEF Slot
  <2> QED
    BY <2>3 DEF b
<1> HIDE DEF k
<1>10. OthersUntold(i) /\ (i \in Tcp => view'[i] = "opening" /\ sent'[i] = 0)
  BY Sizes DEF Data, Views, OthersUntold
<1>11. i \in Tcp => Channel(s, view'[i], sent'[i], k)
  <2> SUFFICES ASSUME i \in Tcp PROVE Channel(s, view'[i], sent'[i], k)
    OBVIOUS
  <2>1. s.fd = fd /\ s.fd # kBadSock /\ k[s.fd] = new
    BY <1>3, <1>7, <1>9
  <2>2a. s.connecting /\ phase = "dialing"
    BY <1>9
  <2>2. Held(s, view'[i], new)
    BY <1>5, <1>9, <1>10, <2>2a DEF Held
  <2>3. s.out = <<>> /\ new.tx = <<>> /\ s.outOff = 0 /\ sent'[i] = 0
    BY <1>5, <1>9, <1>10
  <2>4. Queue(s, new, sent'[i])
    BY <2>3, LineEmpty DEF Queue
  <2> QED
    BY <2>1, <2>2, <2>4 DEF Channel
<1>12. i \in Udp => k[s.fd].phase = "udp"
  BY <1>5, <1>7, <1>9, Sizes
<1>13. /\ old[s.fd].phase = "free" /\ \A f \in Fds \ {s.fd} : k[f] = old[f]
       /\ k[s.fd].phase # "free"
  BY <1>3, <1>5, <1>7, <1>9
<1>14. Renews(i, s, k)
  BY <1>7, <1>8, <1>9, <1>10, <1>11, <1>12, <1>13 DEF old, Renews
<1>15. Data' /\ Later /\ Alone(i) /\ slot'[i] = s
  BY <1>14, RenewEffect
<1> QED
  BY <1>5, <1>7, <1>8, <1>9, <1>15 DEF Opened

\* An attempt that cannot be started, or a port that cannot be bound.
LEMMA NotOpenedEffect ==
    ASSUME Data, NEW i \in Slots, slot[i].gen < MaxGen,
           NEW s, s = [Fresh(slot[i]) EXCEPT !.failedToStart = (i \in Tcp)],
           slot' = [slot EXCEPT ![i] = s],
           kernel' = CloseSocket(kernel, slot[i].fd),
           view' = IF i \in Tcp THEN [view EXCEPT ![i] = "opening"] ELSE view,
           sent' = IF i \in Tcp THEN [sent EXCEPT ![i] = 0] ELSE sent
    PROVE  /\ Data' /\ Later /\ Alone(i) /\ slot'[i] = s
           /\ i \in Tcp => s.failedToStart
<1> DEFINE k == CloseSocket(kernel, slot[i].fd)
<1>1. slot[i] \in Slot /\ slot[i].fd \in Fds \cup {kBadSock} /\ kernel \in [Fds -> Socket]
  BY DEF Data, Slot
<1>2. k \in [Fds -> Socket]
  BY <1>1, ClosedSocket
<1>3. /\ s \in Slot /\ s.fd = kBadSock /\ s.gen = slot[i].gen + 1
      /\ ~s.connecting /\ ~s.connected /\ s.failedToStart = (i \in Tcp) /\ ~s.sendFailed
  <2> DEFINE b == i \in Tcp
             r == Fresh(slot[i])
  <2>1. /\ r \in Slot /\ r.fd = kBadSock /\ r.gen = slot[i].gen + 1
        /\ ~r.connecting /\ ~r.connected /\ ~r.sendFailed
    BY <1>1, FreshSlot
  <2>2. b \in BOOLEAN /\ s = [r EXCEPT !.failedToStart = b]
    OBVIOUS
  <2> HIDE DEF b, r
  <2>3. /\ s \in Slot /\ s.fd = kBadSock /\ s.gen = slot[i].gen + 1
        /\ ~s.connecting /\ ~s.connected /\ s.failedToStart = b /\ ~s.sendFailed
    BY <2>1, <2>2 DEF Slot
  <2> QED
    BY <2>3 DEF b
<1>4. OthersUntold(i) /\ (i \in Tcp => view'[i] = "opening")
  BY Sizes DEF Data, Views, OthersUntold
<1>5. i \in Tcp => Channel(s, view'[i], sent'[i], k)
  BY <1>3, <1>4 DEF Channel, Empty
<1>6. s.fd = kBadSock /\ s.fd \notin Fds
  BY <1>3, Sizes
<1> HIDE DEF k
<1>7. kernel' = k
  BY DEF k
<1>8. \A f \in Fds \ {s.fd} : k[f] = CloseSocket(kernel, slot[i].fd)[f]
  BY DEF k
<1>9. Renews(i, s, k)
  BY <1>2, <1>3, <1>4, <1>5, <1>6, <1>7, <1>8 DEF Renews
<1> QED
  BY <1>3, <1>9, RenewEffect

\* A slot keeps its socket, and both may change.
LEMMA UpdateEffect ==
    ASSUME Data, NEW i, NEW s, NEW n, Updates(i, s, n)
    PROVE  Data' /\ Later /\ Alone(i) /\ slot'[i] = s /\ kernel'[s.fd] = n
<1> USE DEF Updates
<1> DEFINE k == [kernel EXCEPT ![s.fd] = n]
<1>1. s.fd \in Fds /\ s.fd # kBadSock /\ kernel \in [Fds -> Socket] /\ s.gen \in Nat
  BY DEF Data, Slot
<1>2. k \in [Fds -> Socket] /\ k[s.fd] = n /\ \A f \in Fds \ {s.fd} : k[f] = kernel[f]
  BY <1>1
<1>3. kernel' = k
  OBVIOUS
<1> HIDE DEF k
<1>4. ASSUME NEW j \in Slots \ {i}, slot[j].fd # kBadSock
      PROVE  slot[j].fd # s.fd /\ k[slot[j].fd] = kernel[slot[j].fd]
  <2>1. slot[j].fd \in Fds /\ slot[j].fd # slot[i].fd
    BY <1>4, OthersHold
  <2> QED
    BY <1>2, <2>1
<1>5. ASSUME NEW f \in Fds, k[f].phase # "free", f # s.fd
      PROVE  \E j \in Slots \ {i} : slot[j].fd = f
  <2>1. kernel[f].phase # "free"
    BY <1>2, <1>5
  <2> QED
    BY <1>5, <2>1 DEF Data, Owned
<1>6. ASSUME NEW f \in Fds, k[f].phase = "free"
      PROVE  k[f] = NoSocket
  <2>1. f # s.fd
    BY <1>2, <1>6
  <2> QED
    BY <1>2, <1>6, <2>1 DEF Data, Owned
<1>7. i \in Tcp => Channel(s, view'[i], sent'[i], k)
  BY <1>1, <1>2 DEF Channel
<1>8. i \in Udp => k[s.fd].phase = "udp"
  BY <1>2
<1>9. s.gen >= slot[i].gen
  BY <1>1
<1>10. Changes(i, s, k)
  BY <1>1, <1>2, <1>3, <1>4, <1>5, <1>6, <1>7, <1>8, <1>9 DEF Changes
<1> QED
  BY <1>2, <1>3, <1>10, SlotChanges, SlotLater

\* What holds of the slot of a channel that has a socket.
LEMMA HeldSlot ==
    ASSUME Data, NEW c \in Tcp, slot[c].fd # kBadSock
    PROVE  /\ c \in Slots /\ c \notin Udp /\ slot[c] \in Slot
           /\ slot[c].fd \in Fds /\ kernel[slot[c].fd] \in Socket
           /\ Held(slot[c], view[c], kernel[slot[c].fd])
           /\ Queue(slot[c], kernel[slot[c].fd], sent[c])
           /\ view[c] \in Views /\ sent[c] \in 0 .. MaxSend
<1>1. c \in Slots /\ c \notin Udp
  BY Sizes DEF Slots
<1>2. slot[c] \in Slot
  BY <1>1 DEF Data
<1>3. slot[c].fd \in Fds
  BY <1>2 DEF Slot
<1> QED
  BY <1>1, <1>2, <1>3 DEF Data, Channels, Channel

\* A socket that is not free belongs to a slot.
LEMMA Holder ==
    ASSUME Data, NEW fd \in Fds, kernel[fd].phase # "free"
    PROVE  \E i \in Slots : /\ slot[i].fd = fd /\ slot[i].fd # kBadSock
                            /\ i \in Tcp => kernel[fd].phase # "udp"
                            /\ i \in Udp => kernel[fd].phase = "udp"
<1>1. PICK i \in Slots : slot[i].fd = fd
  BY DEF Data, Owned
<1>2. slot[i].fd # kBadSock
  BY <1>1, Sizes
<1>3. i \in Tcp => kernel[fd].phase # "udp"
  BY <1>1, <1>2, HeldSlot DEF Held
<1>4. i \in Udp => kernel[fd].phase = "udp"
  BY <1>1, <1>2 DEF Data, Ports
<1> QED
  BY <1>1, <1>2, <1>3, <1>4

\* The network does something to a socket, and to no slot.
LEMMA NetworkEffect ==
    ASSUME Data, NEW i \in Slots, slot[i].fd # kBadSock, NEW n \in Socket,
           n.phase # "free", Onward(kernel[slot[i].fd].phase, n.phase),
           n.tx = kernel[slot[i].fd].tx,
           i \in Tcp => /\ n.phase \in {"dialing", "up", "dead"}
                        /\ n.phase = "dialing" => kernel[slot[i].fd].phase = "dialing",
           i \in Udp => n.phase = "udp",
           slot' = slot, kernel' = [kernel EXCEPT ![slot[i].fd] = n],
           view' = view, sent' = sent
    PROVE  Data' /\ Later /\ Alone(i) /\ kernel'[slot[i].fd] = n
<1> DEFINE s == slot[i]
<1>1. s \in Slot /\ s.fd # kBadSock /\ s.connected \in BOOLEAN
  BY DEF Data, Slot
<1>2. slot' = [slot EXCEPT ![i] = s]
  BY DEF Data
<1>3. view' \in [Tcp -> Views] /\ sent' \in [Tcp -> 0 .. MaxSend]
  BY DEF Data
<1>4. i \in Tcp => Held(s, view'[i], n) /\ Queue(s, n, sent'[i])
  <2> SUFFICES ASSUME i \in Tcp
               PROVE  Held(s, view'[i], n) /\ Queue(s, n, sent'[i])
    OBVIOUS
  <2>1. Held(s, view[i], kernel[s.fd]) /\ Queue(s, kernel[s.fd], sent[i])
    BY HeldSlot
  <2> HIDE DEF s
  <2>2. n.phase \in {"dialing", "up", "dead"}
    OBVIOUS
  <2>3. n.phase = "dialing" => kernel[s.fd].phase = "dialing"
    BY DEF s
  <2>4. Onward(kernel[s.fd].phase, n.phase) /\ n.tx = kernel[s.fd].tx
    BY DEF s
  <2>5. Held(s, view'[i], n)
    BY <2>1, <2>2, <2>3, <2>4 DEF Held, Onward
  <2>6. Queue(s, n, sent'[i])
    BY <2>1, <2>4 DEF Queue
  <2> QED
    BY <2>5, <2>6
<1>5. /\ s.fd = slot[i].fd /\ s.gen = slot[i].gen /\ (slot[i].connected => s.connected)
      /\ Onward(kernel[s.fd].phase, n.phase) /\ kernel' = [kernel EXCEPT ![s.fd] = n]
  OBVIOUS
<1> HIDE DEF s
<1>6. OthersUntold(i)
  BY <1>3 DEF OthersUntold
<1>7. Updates(i, s, n)
  BY <1>1, <1>2, <1>4, <1>5, <1>6 DEF Updates
<1>8. Data' /\ Later /\ Alone(i) /\ kernel'[s.fd] = n
  BY <1>7, UpdateEffect
<1> QED
  BY <1>8 DEF s

----------------------------------------------------------------------------
(* drain(). *)

\* The part of a queue the kernel has not taken.
LEMMA UnsentPart ==
    ASSUME NEW s \in Slot, s.outOff <= Len(s.out)
    PROVE  /\ Unsent(s) \in Seq(1 .. MaxSend)
           /\ Len(Unsent(s)) = Len(s.out) - s.outOff
           /\ \A m \in 1 .. Len(Unsent(s)) : Unsent(s)[m] = s.out[s.outOff + m]
<1> DEFINE q == s.out
           o == s.outOff
<1>1. q \in Seq(1 .. MaxSend) /\ o \in Nat /\ o <= Len(q)
  BY DEF Slot
<1>2. Unsent(s) = SubSeq(q, o + 1, Len(q))
  BY DEF Unsent
<1> HIDE DEF q, o
<1>3. /\ SubSeq(q, o + 1, Len(q)) \in Seq(1 .. MaxSend)
      /\ Len(SubSeq(q, o + 1, Len(q))) = Len(q) - o
      /\ \A m \in 1 .. (Len(q) - o) : SubSeq(q, o + 1, Len(q))[m] = q[o + m]
  BY <1>1, Suffix
<1> QED
  BY <1>2, <1>3 DEF q, o

\* Bytes go from the queue of s to its socket k and nothing else changes.
Moved(s, t, k, l, n) ==
    /\ t \in Slot /\ t.fd = s.fd /\ t.gen = s.gen /\ t.connecting = s.connecting
    /\ t.connected = s.connected /\ t.failedToStart = s.failedToStart
    /\ t.sendFailed = s.sendFailed
    /\ l \in Socket /\ l.phase = k.phase /\ l.rx = k.rx
    /\ l.fin = k.fin
    /\ Queue(t, l, n)

\* drain() moves bytes from the front of the queue to the kernel.
LEMMA DrainedQueue ==
    ASSUME NEW s \in Slot, NEW k \in Socket, NEW n \in 0 .. MaxSend,
           Queue(s, k, n), NEW d \in 0 .. Len(Unsent(s)),
           NEW room \in BOOLEAN,
           NEW l, l = [k EXCEPT !.tx = @ \o SubSeq(Unsent(s), 1, d), !.room = room]
    PROVE  Moved(s, Drained(s, d), k, l, n)
<1> DEFINE t == Drained(s, d)
           q == s.out
           o == s.outOff
           w == k.tx \o SubSeq(Unsent(s), 1, d)
<1>1. /\ q \in Seq(1 .. MaxSend) /\ o \in Nat /\ k.tx \in Seq(1 .. MaxSend)
      /\ n \in Nat /\ n <= MaxSend
  BY Sizes DEF Slot, Socket
<1>2. Line(q, o, k.tx, n) /\ o <= Len(q)
  BY DEF Queue, Line
<1>3. Len(Unsent(s)) = Len(q) - o /\ Len(q) \in Nat
  BY <1>1, <1>2, UnsentPart
<1>4. d \in Nat /\ d <= Len(q) - o
  BY <1>1, <1>3
<1>5. w = k.tx \o SubSeq(SubSeq(q, o + 1, Len(q)), 1, d)
  BY DEF Unsent
<1>6. l = [k EXCEPT !.tx = w, !.room = room]
  OBVIOUS
<1>7. t = IF d = Len(q) - o THEN [s EXCEPT !.out = <<>>, !.outOff = 0]
                            ELSE [s EXCEPT !.outOff = o + d]
  BY <1>3 DEF Drained
<1>8. s.out = q /\ s.outOff = o
  OBVIOUS
<1> HIDE DEF t, q, o, w
<1>9. /\ w \in Seq(1 .. MaxSend)
      /\ d = Len(q) - o => Line(<<>>, 0, w, n)
      /\ Line(q, o + d, w, n) /\ o + d <= n
  BY <1>1, <1>2, <1>4, <1>5, LineMoves
<1>10. /\ l \in Socket /\ l.phase = k.phase /\ l.rx = k.rx
       /\ l.fin = k.fin /\ l.tx = w
  BY <1>6, <1>9 DEF Socket
<1>11. /\ t \in Slot /\ t.fd = s.fd /\ t.gen = s.gen /\ t.connecting = s.connecting
       /\ t.connected = s.connected /\ t.failedToStart = s.failedToStart
       /\ t.sendFailed = s.sendFailed
       /\ IF d = Len(q) - o THEN t.out = <<>> /\ t.outOff = 0
                            ELSE t.out = q /\ t.outOff = o + d
  <2>1. CASE d = Len(q) - o
    <3>1. t = [s EXCEPT !.out = <<>>, !.outOff = 0]
      BY <1>7, <2>1
    <3>2. <<>> \in Seq(1 .. MaxSend) /\ 0 \in 0 .. MaxSend
      BY Sizes
    <3> QED
      BY <2>1, <3>1, <3>2 DEF Slot
  <2>2. CASE d # Len(q) - o
    <3>1. t = [s EXCEPT !.outOff = o + d]
      BY <1>7, <2>2
    <3>2. o + d \in 0 .. MaxSend
      <4>1. o \in Nat /\ d \in Nat /\ n \in Nat /\ MaxSend \in Nat /\ o + d <= n /\ n <= MaxSend
        BY <1>1, <1>4, <1>9, Sizes
      <4> QED
        BY <4>1
    <3> QED
      BY <1>8, <2>2, <3>1, <3>2 DEF Slot
  <2> QED
    BY <2>1, <2>2
<1>12. Queue(t, l, n)
  BY <1>9, <1>10, <1>11 DEF Queue
<1> QED
  BY <1>10, <1>11, <1>12 DEF t, Moved

\* drain() on a slot that is s by now, whatever the kernel takes: the channel looks
\* the same to the sender.
LEMMA DrainEffect ==
    ASSUME Data, NEW c \in Tcp, slot[c].fd # kBadSock, NEW s \in Slot,
           s.fd = slot[c].fd, s.gen = slot[c].gen, s.connected,
           Held(s, view[c], kernel[s.fd]), Queue(s, kernel[s.fd], sent'[c]),
           OthersUntold(c), view' = view, DrainOk(c, s)
    PROVE  Data' /\ Later /\ Alone(c) /\ Link(c)' = Link(c)
<1>1. /\ c \in Slots /\ c \notin Udp /\ slot[c] \in Slot /\ s.fd \in Fds
      /\ kernel[s.fd] \in Socket /\ sent'[c] \in 0 .. MaxSend
      /\ ~slot[c].failedToStart
  BY HeldSlot DEF OthersUntold, Held
<1>2. PICK d \in 0 .. Len(Unsent(s)), room \in BOOLEAN :
          /\ slot' = [slot EXCEPT ![c] = Drained(s, d)]
          /\ kernel' = [kernel EXCEPT ![s.fd].tx = @ \o SubSeq(Unsent(s), 1, d),
                                      ![s.fd].room = room]
  BY DEF DrainOk
<1> DEFINE t == Drained(s, d)
           k == kernel[s.fd]
           l == [k EXCEPT !.tx = @ \o SubSeq(Unsent(s), 1, d), !.room = room]
<1>3. kernel' = [kernel EXCEPT ![s.fd] = l]
  BY <1>2
<1>4. Moved(s, t, k, l, sent'[c])
  BY <1>1, DrainedQueue
<1> HIDE DEF t, l
<1> USE DEF Moved
<1>5. Held(t, view'[c], l)
  BY <1>4 DEF Held
<1>6. l.phase # "free" /\ Onward(kernel[t.fd].phase, l.phase)
  BY <1>4 DEF Held, Onward
<1>7. Updates(c, t, l)
  <2>1. slot' = [slot EXCEPT ![c] = t] /\ kernel' = [kernel EXCEPT ![t.fd] = l]
    BY <1>2, <1>3, <1>4 DEF t
  <2>2. t.fd = slot[c].fd /\ t.gen = slot[c].gen /\ t.connected
    BY <1>4
  <2> QED
    BY <1>1, <1>4, <1>5, <1>6, <2>1, <2>2 DEF Updates
<1>8. Data' /\ Later /\ Alone(c) /\ slot'[c] = t /\ kernel'[t.fd] = l
  BY <1>7, UpdateEffect
<1>9. Link(c)' = Link(c)
  <2>1. t.fd = slot[c].fd /\ ~t.failedToStart /\ ~slot[c].failedToStart
    BY <1>1, <1>4 DEF Held
  <2>2. kernel'[slot'[c].fd] = l /\ slot'[c] = t /\ slot'[c].fd # kBadSock
    BY <1>8, <2>1
  <2> QED
    BY <1>4, <2>1, <2>2 DEF Link
<1> QED
  BY <1>8, <1>9

----------------------------------------------------------------------------
(* What the sender can tell. *)

links == [c \in Tcp |-> Link(c)]

\* A step of the contract, or one the sender cannot tell.
Kept == [Contract!Next]_<<view, links, Handler>>

\* The channel that changed, among the others.
LEMMA OneLink ==
    ASSUME NEW c \in Tcp, Alone(c)
    PROVE  links' = [links EXCEPT ![c] = Link(c)']
  BY DEF links, Alone

\* A change that leaves the link of its own channel alone leaves all of them.
LEMMA SameLinks ==
    ASSUME NEW i, Alone(i), i \in Tcp => Link(i)' = Link(i), view' = view
    PROVE  links' = links
  BY DEF links, Alone

\* Then, if nobody is called or returns, the sender cannot tell.
LEMMA Untold ==
    ASSUME NEW i, Alone(i), i \in Tcp => Link(i)' = Link(i), view' = view, call' = call
    PROVE  Kept
<1>1. links' = links
  BY SameLinks
<1>2. Handler' = Handler
  BY DEF Handler
<1> QED
  BY <1>1, <1>2 DEF Kept

\* The handlers of the channels are seen as they are, datagrams as another call.
LEMMA Seen ==
    /\ call = NoCall => Handler = NoCall
    /\ call # NoCall => Handler # NoCall
    /\ call' = NoCall => Handler' = NoCall
    /\ \A h \in {"onTcpConnected", "onTcpConnectFailed", "onTcpData", "onTcpClosed"}, c \in Tcp :
           call' = <<h, c>> => Handler' = <<h, c>>
    /\ \A u \in Udp : call' = <<"onUdpDatagram", u>> => Handler' = <<"other", 0>>
    /\ call' = call => Handler' = Handler
  BY DEF Handler, NoCall

\* No slot changes, and no socket.
LEMMA Returned ==
    ASSUME Data, slot' = slot, kernel' = kernel, view' = view, sent' = sent
    PROVE  Data' /\ Later /\ links' = links
<1>1. Data'
  BY DEF Data, Owned, Channels, Ports
<1>2. Later
  <2>1. \A i \in Slots : slot[i].gen \in Int
    BY DEF Data, Slot
  <2> QED
    BY <2>1 DEF Later, Onward
<1>3. links' = links
  BY DEF links, Link
<1> QED
  BY <1>1, <1>2, <1>3

----------------------------------------------------------------------------
(* What the walk knows. *)

\* An entry that is not stale after a step was not stale before it.
LEMMA StaleStays ==
    ASSUME Data, Data', Later, NEW e, EntryOK(e), ~Stale(e)'
    PROVE  /\ ~Stale(e) /\ slot[e.slot].fd = e.fd /\ e.fd # kBadSock
           /\ Onward(kernel[e.fd].phase, kernel'[e.fd].phase)
           /\ slot[e.slot].connected => slot'[e.slot].connected
<1> DEFINE i == e.slot
<1>1. i \in Slots /\ e.fd \in Fds /\ e.gen \in 0 .. slot[i].gen /\ e.fd # kBadSock
  BY Sizes DEF EntryOK
<1>2. slot'[i].fd = e.fd /\ slot'[i].gen = e.gen
  BY DEF Stale
<1>3. slot[i].gen \in Nat /\ slot'[i].gen \in Nat
  BY <1>1 DEF Data, Slot
<1> HIDE DEF i
<1>4. slot'[i].gen >= slot[i].gen
  BY <1>1 DEF Later
<1>5. slot'[i].gen = slot[i].gen
  BY <1>1, <1>2, <1>3, <1>4
<1>6. slot[i].fd = e.fd
  BY <1>1, <1>2, <1>5 DEF Later
<1>7. /\ Onward(kernel[slot[i].fd].phase, kernel'[slot[i].fd].phase)
      /\ slot[i].connected => slot'[i].connected
  BY <1>1, <1>2, <1>5 DEF Later
<1> QED
  BY <1>1, <1>2, <1>5, <1>6, <1>7 DEF i, Stale

\* What an entry tells stays true.
LEMMA EntryLater ==
    ASSUME Data, Data', Later, NEW e, EntryOK(e)
    PROVE  EntryOK(e)'
<1> DEFINE i == e.slot
<1>1. i \in Slots /\ e.fd \in Fds /\ e.gen \in 0 .. slot[i].gen
  BY DEF EntryOK
<1>2. slot[i].gen \in Nat /\ slot'[i].gen \in Nat /\ slot'[i].gen >= slot[i].gen
  BY <1>1 DEF Data, Slot, Later
<1> HIDE DEF i
<1>3. e.gen \in 0 .. slot'[i].gen
  BY <1>1, <1>2
<1>4. ASSUME ~Stale(e)', i \in Tcp
      PROVE  /\ kernel'[e.fd].phase \in {"up", "dead"}
             /\ e.re \cap {"ERR", "HUP"} # {} => kernel'[e.fd].phase = "dead"
  <2>1. ~Stale(e) /\ Onward(kernel[e.fd].phase, kernel'[e.fd].phase)
    BY <1>4, StaleStays
  <2>2. /\ kernel[e.fd].phase \in {"up", "dead"}
        /\ e.re \cap {"ERR", "HUP"} # {} => kernel[e.fd].phase = "dead"
    BY <1>4, <2>1 DEF EntryOK, i
  <2> QED
    BY <2>1, <2>2 DEF Onward
<1> QED
  BY <1>1, <1>3, <1>4 DEF EntryOK, i

\* The walk is at one of its entries.
LEMMA CurrentEntry ==
    ASSUME Walked, entries # {}
    PROVE  Current \in entries /\ EntryOK(Current)
<1> DEFINE T == {e.slot : e \in entries}
<1>1. T \subseteq Nat /\ T # {}
  BY Sizes DEF Walked, EntryOK
<1> HIDE DEF T
<1>2. PICK x \in T : \A y \in T : x <= y
  BY <1>1, LeastNatural
<1>3. \E e \in entries : \A f \in entries : e.slot <= f.slot
  BY <1>2 DEF T
<1>4. Current \in entries
  BY <1>3 DEF Current
<1> QED
  BY <1>4 DEF Walked

\* The walk stays where it is while its slots change.
LEMMA WalkStays ==
    ASSUME LoopInv, Data', Later, UNCHANGED loopVars
    PROVE  LoopInv'
<1>1. pc' = pc /\ idx' = idx /\ entries' = entries /\ burst' = burst /\ Current' = Current
  BY DEF loopVars, Current
<1>2. \A e \in entries' : EntryOK(e)'
  BY <1>1, EntryLater DEF LoopInv, Place, Walked
<1>3. ASSUME pc \in {"connected", "recv"}, ~Stale(Current)'
      PROVE  slot'[Current.slot].connected
  <2>1. entries # {} /\ (~Stale(Current) => slot[Current.slot].connected)
    BY <1>3 DEF LoopInv, Place, Walked
  <2>2. EntryOK(Current)
    BY <2>1, CurrentEntry DEF LoopInv, Place
  <2>3. PICK e : e = Current
    OBVIOUS
  <2>4. EntryOK(e) /\ ~Stale(e)'
    BY <1>1, <1>3, <2>2, <2>3 DEF Stale
  <2>5. ~Stale(e) /\ (slot[e.slot].connected => slot'[e.slot].connected)
    BY <2>4, StaleStays DEF LoopInv
  <2> QED
    BY <2>1, <2>3, <2>5
<1>4. Walked'
  BY <1>1, <1>2, <1>3 DEF LoopInv, Place, Walked
<1> QED
  BY <1>1, <1>4 DEF LoopInv, Place

\* The walk goes to its next entry.
LEMMA WalkGoesOn ==
    ASSUME LoopInv, Data', Later, NextEntry
    PROVE  LoopInv'
<1>1. pc' = "deliver" /\ idx' = idx /\ entries' \subseteq entries /\ burst' = 0
  BY DEF NextEntry, Goto
<1>2. \A e \in entries' : EntryOK(e)'
  BY <1>1, EntryLater DEF LoopInv, Place, Walked
<1>3. Walked'
  BY <1>1, <1>2 DEF Walked
<1>4. burst' \in 0 .. Burst
  BY <1>1, Sizes
<1> QED
  BY <1>1, <1>3, <1>4 DEF LoopInv, Place

----------------------------------------------------------------------------
(* The calls of the sender. *)

\* A channel without a socket, as the sender sees it.
LEMMA NoLinkOf ==
    /\ Contract!NoLink = [phase |-> "none", rx |-> 0, fin |-> FALSE]
    /\ Contract!NoLink.phase = "none"
  BY DEF Contract!NoLink

\* A new attempt, as the sender sees it.
LEMMA NewLink ==
    ASSUME NEW p \in {"dialing", "dead"}
    PROVE  [Contract!NoLink EXCEPT !.phase = p] = [phase |-> p, rx |-> 0, fin |-> FALSE]
<1> DEFINE R == [phase : {"none", "dialing", "dead"}, rx : Nat, fin : BOOLEAN]
           z == [phase |-> "none", rx |-> 0, fin |-> FALSE]
           y == [z EXCEPT !.phase = p]
           w == [phase |-> p, rx |-> 0, fin |-> FALSE]
<1>1. z \in R /\ z.rx = 0 /\ z.fin = FALSE
  OBVIOUS
<1>2. w \in R /\ w.phase = p /\ w.rx = 0 /\ w.fin = FALSE
  OBVIOUS
<1> HIDE DEF z
<1>3. y \in R /\ y.phase = p /\ y.rx = z.rx /\ y.fin = z.fin
  BY <1>1
<1> HIDE DEF y, w
<1>4. y = w
  BY <1>1, <1>2, <1>3
<1>5. Contract!NoLink = z
  BY NoLinkOf DEF z
<1> QED
  BY <1>4, <1>5 DEF y, w

\* tcpConnect(), however it ends.
LEMMA ConnectStep ==
    ASSUME LoopInv, NEW c \in Tcp, tcpConnect(c)
    PROVE  LoopInv' /\ Kept
<1> DEFINE old == CloseSocket(kernel, slot[c].fd)
           fresh == [Reset(slot[c]) EXCEPT !.gen = @ + 1]
<1>1. c \in Slots /\ c \notin Udp /\ slot[c].gen < MaxGen /\ Data
  BY Sizes DEF tcpConnect, Slots, LoopInv
<1>2. /\ view' = [view EXCEPT ![c] = "opening"] /\ sent' = [sent EXCEPT ![c] = 0]
      /\ call' = call /\ UNCHANGED loopVars
  BY DEF tcpConnect
<1>3. fresh = Fresh(slot[c])
  BY DEF Fresh
<1>4. ASSUME NEW fd \in FreeIn(old),
             kernel' = [old EXCEPT ![fd].phase = "dialing"],
             slot' = [slot EXCEPT ![c] = [fresh EXCEPT !.fd = fd, !.connecting = TRUE]]
      PROVE  Data' /\ Later /\ Alone(c) /\ Link(c)' = [phase |-> "dialing", rx |-> 0, fin |-> FALSE]
  <2> DEFINE s == [Fresh(slot[c]) EXCEPT !.fd = fd, !.connecting = (c \in Tcp)]
             phase == "dialing"
  <2>1. slot' = [slot EXCEPT ![c] = s]
    BY <1>3, <1>4
  <2>2. /\ view' = (IF c \in Tcp THEN [view EXCEPT ![c] = "opening"] ELSE view)
        /\ sent' = (IF c \in Tcp THEN [sent EXCEPT ![c] = 0] ELSE sent)
        /\ phase \in {"dialing", "udp"} /\ (phase = "dialing" <=> c \in Tcp)
        /\ kernel' = [old EXCEPT ![fd].phase = phase]
    BY <1>2, <1>4
  <2>3. fd \in Fds /\ fd # kBadSock
    BY Sizes DEF FreeIn
  <2>4. s = [Fresh(slot[c]) EXCEPT !.fd = fd, !.connecting = (c \in Tcp)]
    OBVIOUS
  <2> HIDE DEF s, phase
  <2>5. Data' /\ Later /\ Alone(c) /\ Opened(c, s, fd, phase)
    BY <1>1, <2>1, <2>2, <2>4, OpenEffect
  <2> QED
    BY <2>3, <2>5 DEF Link, Opened, phase
<1>5. ASSUME kernel' = old,
             slot' = [slot EXCEPT ![c] = [fresh EXCEPT !.failedToStart = TRUE]]
      PROVE  Data' /\ Later /\ Alone(c) /\ Link(c)' = [phase |-> "dead", rx |-> 0, fin |-> FALSE]
  <2> DEFINE s == [Fresh(slot[c]) EXCEPT !.failedToStart = (c \in Tcp)]
  <2>1. slot' = [slot EXCEPT ![c] = s]
    BY <1>3, <1>5
  <2>2. /\ view' = (IF c \in Tcp THEN [view EXCEPT ![c] = "opening"] ELSE view)
        /\ sent' = (IF c \in Tcp THEN [sent EXCEPT ![c] = 0] ELSE sent)
    BY <1>2
  <2>3. s = [Fresh(slot[c]) EXCEPT !.failedToStart = (c \in Tcp)]
    OBVIOUS
  <2> HIDE DEF s
  <2>4. Data' /\ Later /\ Alone(c) /\ slot'[c] = s /\ s.failedToStart
    BY <1>1, <1>5, <2>1, <2>2, <2>3, NotOpenedEffect
  <2> QED
    BY <2>4 DEF Link
<1>6. /\ Data' /\ Later /\ Alone(c)
      /\ \E p \in {"dialing", "dead"} : Link(c)' = [phase |-> p, rx |-> 0, fin |-> FALSE]
  <2>1. \/ \E fd \in FreeIn(old) :
              /\ kernel' = [old EXCEPT ![fd].phase = "dialing"]
              /\ slot' = [slot EXCEPT ![c] = [fresh EXCEPT !.fd = fd, !.connecting = TRUE]]
        \/ /\ slot' = [slot EXCEPT ![c] = [fresh EXCEPT !.failedToStart = TRUE]]
           /\ kernel' = old
    BY DEF tcpConnect, Aborted
  <2> HIDE DEF old, fresh
  <2> QED
    BY <1>4, <1>5, <2>1
<1>7. LoopInv'
  BY <1>2, <1>6, WalkStays
<1>8. Kept
  <2>1. PICK p \in {"dialing", "dead"} : Link(c)' = [phase |-> p, rx |-> 0, fin |-> FALSE]
    BY <1>6
  <2>2. links' = [links EXCEPT ![c] = Link(c)']
    BY <1>6, OneLink
  <2>3. [Contract!NoLink EXCEPT !.phase = p] = [phase |-> p, rx |-> 0, fin |-> FALSE]
    BY NewLink
  <2>4. Handler' = Handler
    BY <1>2, Seen
  <2>5. Contract!Connect(c)
    BY <1>2, <2>1, <2>2, <2>3, <2>4 DEF Contract!Connect, links
  <2> QED
    BY <2>5 DEF Kept, Contract!Next
<1> QED
  BY <1>7, <1>8

\* A channel whose slot is closed.
LEMMA ClosedLink ==
    ASSUME NEW c \in Tcp, Alone(c), slot'[c].fd = kBadSock, ~slot'[c].failedToStart
    PROVE  links' = [links EXCEPT ![c] = Contract!NoLink]
<1>1. Link(c)' = Contract!NoLink
  BY NoLinkOf DEF Link
<1> QED
  BY <1>1, OneLink

\* tcpClose().
LEMMA CloseStep ==
    ASSUME LoopInv, NEW c \in Tcp, tcpClose(c)
    PROVE  LoopInv' /\ Kept
<1>1. c \in Slots /\ Data
  BY DEF Slots, LoopInv
<1>2. /\ closeSlot(c) /\ view' = [view EXCEPT ![c] = "closed"] /\ sent' = sent
      /\ call' = call /\ UNCHANGED loopVars
  BY DEF tcpClose
<1>3. view' = IF c \in Tcp THEN [view EXCEPT ![c] = "closed"] ELSE view
  BY <1>2
<1>4. Data' /\ Later /\ Alone(c) /\ slot'[c].fd = kBadSock /\ ~slot'[c].failedToStart
  BY <1>1, <1>2, <1>3, CloseEffect
<1>5. LoopInv'
  BY <1>2, <1>4, WalkStays
<1>6. links' = [links EXCEPT ![c] = Contract!NoLink] /\ Handler' = Handler
  BY <1>2, <1>4, ClosedLink, Seen
<1>7. Contract!Close(c)
  BY <1>2, <1>6 DEF Contract!Close, Contract!Gone, links
<1> QED
  BY <1>5, <1>7 DEF Kept, Contract!Next

\* udpBind() and udpClose().
LEMMA PortStep ==
    ASSUME LoopInv, NEW u \in Udp, udpBind(u) \/ udpClose(u)
    PROVE  LoopInv' /\ Kept
<1> DEFINE old == CloseSocket(kernel, slot[u].fd)
           fresh == [Reset(slot[u]) EXCEPT !.gen = @ + 1]
<1>1. u \in Slots /\ u \notin Tcp /\ Data
  BY Sizes DEF Slots, LoopInv
<1>2. /\ view' = view /\ sent' = sent /\ call' = call /\ UNCHANGED loopVars
      /\ view' = (IF u \in Tcp THEN [view EXCEPT ![u] = "opening"] ELSE view)
      /\ view' = (IF u \in Tcp THEN [view EXCEPT ![u] = "closed"] ELSE view)
      /\ sent' = (IF u \in Tcp THEN [sent EXCEPT ![u] = 0] ELSE sent)
  BY <1>1 DEF udpBind, udpClose
<1>3. Data' /\ Later /\ Alone(u)
  <2>1. CASE udpClose(u)
    <3>1. closeSlot(u)
      BY <2>1 DEF udpClose
    <3> QED
      BY <1>1, <1>2, <3>1, CloseEffect
  <2>2. CASE udpBind(u)
    <3>1. /\ slot[u].gen < MaxGen /\ fresh = Fresh(slot[u])
          /\ \/ \E fd \in FreeIn(old) :
                   /\ kernel' = [old EXCEPT ![fd].phase = "udp"]
                   /\ slot' = [slot EXCEPT ![u] = [fresh EXCEPT !.fd = fd]]
             \/ kernel' = old /\ slot' = [slot EXCEPT ![u] = fresh]
      BY <2>2 DEF udpBind, Fresh
    <3>2. /\ fresh \in Slot /\ fresh.connecting = FALSE /\ fresh.failedToStart = FALSE
      <4>1. slot[u] \in Slot
        BY <1>1 DEF Data
      <4>2. Fresh(slot[u]) \in Slot /\ ~Fresh(slot[u]).connecting /\ ~Fresh(slot[u]).failedToStart
        BY <3>1, <4>1, FreshSlot
      <4> QED
        BY <3>1, <4>2 DEF Slot
    <3> HIDE DEF fresh
    <3>3. ASSUME NEW fd \in FreeIn(old),
                 kernel' = [old EXCEPT ![fd].phase = "udp"],
                 slot' = [slot EXCEPT ![u] = [fresh EXCEPT !.fd = fd]]
          PROVE  Data' /\ Later /\ Alone(u)
      <4> DEFINE s == [Fresh(slot[u]) EXCEPT !.fd = fd, !.connecting = (u \in Tcp)]
                 phase == "udp"
      <4>1. s = [fresh EXCEPT !.fd = fd]
        <5>1. (u \in Tcp) = FALSE
          BY <1>1
        <5>2. s = [fresh EXCEPT !.fd = fd, !.connecting = FALSE]
          BY <3>1, <5>1
        <5> HIDE DEF s
        <5> QED
          BY <3>2, <5>2 DEF Slot
      <4>2. /\ phase \in {"dialing", "udp"} /\ (phase = "dialing" <=> u \in Tcp)
            /\ kernel' = [old EXCEPT ![fd].phase = phase]
        BY <1>1, <3>3
      <4>3. s = [Fresh(slot[u]) EXCEPT !.fd = fd, !.connecting = (u \in Tcp)]
        OBVIOUS
      <4> HIDE DEF s, phase
      <4>4. slot' = [slot EXCEPT ![u] = s]
        BY <3>3, <4>1
      <4> QED
        BY <1>1, <1>2, <3>1, <4>2, <4>3, <4>4, OpenEffect
    <3>4. ASSUME kernel' = old, slot' = [slot EXCEPT ![u] = fresh]
          PROVE  Data' /\ Later /\ Alone(u)
      <4> DEFINE s == [Fresh(slot[u]) EXCEPT !.failedToStart = (u \in Tcp)]
      <4>1. s = fresh
        <5>1. (u \in Tcp) = FALSE
          BY <1>1
        <5>2. s = [fresh EXCEPT !.failedToStart = FALSE]
          BY <3>1, <5>1
        <5> HIDE DEF s
        <5> QED
          BY <3>2, <5>2 DEF Slot
      <4>2. s = [Fresh(slot[u]) EXCEPT !.failedToStart = (u \in Tcp)]
        OBVIOUS
      <4> HIDE DEF s
      <4>3. slot' = [slot EXCEPT ![u] = s]
        BY <3>4, <4>1
      <4> QED
        BY <1>1, <1>2, <3>1, <3>4, <4>2, <4>3, NotOpenedEffect
    <3> HIDE DEF old
    <3> QED
      BY <3>1, <3>3, <3>4
  <2> QED
    BY <2>1, <2>2
<1>4. LoopInv'
  BY <1>2, <1>3, WalkStays
<1>5. Kept
  BY <1>1, <1>2, <1>3, Untold
<1> QED
  BY <1>4, <1>5

\* A slot changes and its connection looks the same.
LEMMA QuietUpdate ==
    ASSUME Data, NEW c \in Tcp, NEW t, NEW n, Updates(c, t, n),
           n.phase = kernel[t.fd].phase, n.rx = kernel[t.fd].rx, n.fin = kernel[t.fd].fin
    PROVE  Data' /\ Later /\ Alone(c) /\ Link(c)' = Link(c)
<1>1. Data' /\ Later /\ Alone(c) /\ slot'[c] = t /\ kernel'[t.fd] = n
  BY UpdateEffect
<1>2. /\ t.fd = slot[c].fd /\ slot[c].fd # kBadSock
      /\ ~t.failedToStart /\ ~slot[c].failedToStart
  BY HeldSlot DEF Updates, Held
<1>3. Link(c)' = Link(c)
  BY <1>1, <1>2 DEF Link
<1> QED
  BY <1>1, <1>3

\* A socket that is written back as it is.
LEMMA SameSocket ==
    ASSUME Data, NEW fd \in Fds
    PROVE  kernel = [kernel EXCEPT ![fd] = kernel[fd]]
  BY DEF Data

\* tcpSend(): queued, drained, or parked as failed.
LEMMA SendStep ==
    ASSUME LoopInv, NEW c \in Tcp, tcpSend(c)
    PROVE  LoopInv' /\ Kept
<1> DEFINE r == slot[c]
           n == sent[c]
           k == kernel[slot[c].fd]
           s == [slot[c] EXCEPT !.out = Append(@, sent'[c])]
<1>1. /\ r.fd # kBadSock /\ sent[c] < MaxSend /\ sent' = [sent EXCEPT ![c] = @ + 1]
      /\ view' = view /\ call' = call /\ UNCHANGED loopVars /\ Data
  BY DEF tcpSend, LoopInv
<1>2. /\ c \in Slots /\ c \notin Udp /\ r \in Slot /\ r.fd \in Fds /\ k \in Socket
      /\ Held(r, view[c], k) /\ Queue(r, k, n) /\ n \in 0 .. MaxSend
  BY <1>1, HeldSlot
<1>3. sent'[c] = n + 1 /\ n \in Nat /\ n + 1 \in 1 .. MaxSend /\ n + 1 \in 0 .. MaxSend
  BY <1>1, <1>2, Sizes DEF Data
<1>4. OthersUntold(c)
  <2>1. sent' \in [Tcp -> 0 .. MaxSend]
    BY <1>1, <1>3 DEF Data
  <2> QED
    BY <1>1, <2>1 DEF OthersUntold, Data
<1>5. \/ /\ ~s.connected
         /\ slot' = [slot EXCEPT ![c] = s] /\ kernel' = kernel
      \/ s.connected /\ DrainOk(c, s)
      \/ /\ s.connected /\ DrainFails(s)
         /\ slot' = [slot EXCEPT ![c] = [s EXCEPT !.sendFailed = TRUE]]
         /\ kernel' = kernel
  BY DEF tcpSend
<1>6. s = [r EXCEPT !.out = Append(r.out, n + 1)]
  BY <1>3
<1>7. /\ Append(r.out, n + 1) \in Seq(1 .. MaxSend)
      /\ Line(Append(r.out, n + 1), r.outOff, k.tx, n + 1)
  <2>1. r.out \in Seq(1 .. MaxSend) /\ r.outOff \in Nat /\ k.tx \in Seq(1 .. MaxSend)
    BY <1>2 DEF Slot, Socket
  <2>2. Line(r.out, r.outOff, k.tx, n)
    BY <1>2 DEF Queue
  <2> HIDE DEF r, k, n
  <2> QED
    BY <1>3, <2>1, <2>2, LineGrows
<1> HIDE DEF s
<1>8. /\ s \in Slot /\ s.fd = r.fd /\ s.gen = r.gen /\ s.connecting = r.connecting
      /\ s.connected = r.connected /\ s.failedToStart = r.failedToStart
      /\ s.sendFailed = r.sendFailed /\ s.outOff = r.outOff
      /\ s.out = Append(r.out, n + 1)
  BY <1>2, <1>6, <1>7 DEF Slot
<1>9. Queue(s, k, sent'[c])
  BY <1>3, <1>7, <1>8 DEF Queue
<1>10. Held(s, view[c], k) /\ s.connected \in BOOLEAN
  BY <1>2, <1>8 DEF Held, Slot
<1>11. k.phase # "free" /\ Onward(k.phase, k.phase)
  BY <1>2 DEF Held, Onward
<1>12. Data' /\ Later /\ Alone(c) /\ Link(c)' = Link(c)
  <2>1. ASSUME slot' = [slot EXCEPT ![c] = s], kernel' = kernel
        PROVE  Data' /\ Later /\ Alone(c) /\ Link(c)' = Link(c)
    <3>1. kernel' = [kernel EXCEPT ![s.fd] = k]
      BY <1>1, <1>2, <1>8, <2>1, SameSocket
    <3>2. Updates(c, s, k)
      BY <1>1, <1>2, <1>4, <1>8, <1>9, <1>10, <1>11, <2>1, <3>1 DEF Updates
    <3>3. k = kernel[s.fd]
      BY <1>8
    <3> QED
      BY <1>1, <3>2, <3>3, QuietUpdate
  <2>2. ASSUME s.connected, DrainOk(c, s)
        PROVE  Data' /\ Later /\ Alone(c) /\ Link(c)' = Link(c)
    <3>1. k = kernel[s.fd] /\ s.fd = slot[c].fd /\ s.gen = slot[c].gen
      BY <1>8
    <3>2. Held(s, view[c], kernel[s.fd]) /\ Queue(s, kernel[s.fd], sent'[c])
      BY <1>9, <1>10, <3>1
    <3> QED
      BY <1>1, <1>4, <1>8, <2>2, <3>1, <3>2, DrainEffect
  <2>3. ASSUME s.connected, DrainFails(s), kernel' = kernel,
               slot' = [slot EXCEPT ![c] = [s EXCEPT !.sendFailed = TRUE]]
        PROVE  Data' /\ Later /\ Alone(c) /\ Link(c)' = Link(c)
    <3> DEFINE t == [s EXCEPT !.sendFailed = TRUE]
    <3>1. /\ t \in Slot /\ t.fd = s.fd /\ t.gen = s.gen /\ t.connecting = s.connecting
          /\ t.connected = s.connected /\ t.failedToStart = s.failedToStart
          /\ t.outOff = s.outOff /\ t.out = s.out
      BY <1>8 DEF Slot
    <3>2. slot' = [slot EXCEPT ![c] = t]
      BY <2>3
    <3> HIDE DEF t
    <3>3. k = kernel[t.fd] /\ k.phase = "dead"
      BY <1>8, <2>3, <3>1 DEF DrainFails
    <3>4. Held(t, view'[c], k)
      BY <1>1, <1>10, <2>3, <3>1, <3>3 DEF Held
    <3>5. Queue(t, k, sent'[c])
      BY <1>9, <3>1 DEF Queue
    <3>6. kernel' = [kernel EXCEPT ![t.fd] = k]
      BY <1>1, <1>2, <1>8, <2>3, <3>1, SameSocket
    <3>7. Updates(c, t, k)
      BY <1>1, <1>2, <1>4, <1>8, <1>11, <2>3, <3>1, <3>2, <3>3, <3>4, <3>5, <3>6 DEF Updates
    <3> QED
      BY <1>1, <3>3, <3>7, QuietUpdate
  <2> QED
    BY <1>5, <2>1, <2>2, <2>3
<1>13. LoopInv'
  BY <1>1, <1>12, WalkStays
<1>14. Kept
  BY <1>1, <1>12, Untold
<1> QED
  BY <1>13, <1>14

----------------------------------------------------------------------------
(* The network, and the steps of pump() that touch no slot. *)

\* Nothing but the place of pump() and the call under way changes.
LEMMA ReturnStep ==
    ASSUME LoopInv, Return
    PROVE  LoopInv' /\ Kept
<1>1. /\ slot' = slot /\ kernel' = kernel /\ view' = view /\ sent' = sent
      /\ UNCHANGED loopVars /\ call # NoCall /\ call' = NoCall
  BY DEF Return
<1>2. Data' /\ Later /\ links' = links
  BY <1>1, Returned DEF LoopInv
<1>3. LoopInv'
  BY <1>1, <1>2, WalkStays
<1>4. Contract!Return
  <2>1. Handler # NoCall /\ Handler' = NoCall
    BY <1>1, Seen
  <2> QED
    BY <1>1, <1>2, <2>1 DEF Contract!Return, Contract!NoCall, NoCall, links
<1> QED
  BY <1>3, <1>4 DEF Kept, Contract!Next

\* A link with one field changed.
LEMMA LinkFields ==
    ASSUME NEW p, NEW r, NEW f, NEW x, NEW z, z = [phase |-> p, rx |-> r, fin |-> f]
    PROVE  /\ [z EXCEPT !.phase = x] = [phase |-> x, rx |-> r, fin |-> f]
           /\ [z EXCEPT !.rx = x] = [phase |-> p, rx |-> x, fin |-> f]
           /\ [z EXCEPT !.fin = x] = [phase |-> p, rx |-> r, fin |-> x]
<1> DEFINE R == [phase : {p, x}, rx : {r, x}, fin : {f, x}]
           z1 == [z EXCEPT !.phase = x]
           z2 == [z EXCEPT !.rx = x]
           z3 == [z EXCEPT !.fin = x]
           w1 == [phase |-> x, rx |-> r, fin |-> f]
           w2 == [phase |-> p, rx |-> x, fin |-> f]
           w3 == [phase |-> p, rx |-> r, fin |-> x]
<1>1. z \in R /\ z.phase = p /\ z.rx = r /\ z.fin = f
  OBVIOUS
<1>2. /\ w1 \in R /\ w1.phase = x /\ w1.rx = r /\ w1.fin = f
      /\ w2 \in R /\ w2.phase = p /\ w2.rx = x /\ w2.fin = f
      /\ w3 \in R /\ w3.phase = p /\ w3.rx = r /\ w3.fin = x
  OBVIOUS
<1> HIDE DEF w1, w2, w3
<1>3. z1 \in R /\ z1.phase = x /\ z1.rx = r /\ z1.fin = f
  BY <1>1
<1>4. z2 \in R /\ z2.phase = p /\ z2.rx = x /\ z2.fin = f
  BY <1>1
<1>5. z3 \in R /\ z3.phase = p /\ z3.rx = r /\ z3.fin = x
  BY <1>1
<1> HIDE DEF z1, z2, z3
<1>6. z1 = w1
  BY <1>2, <1>3
<1>7. z2 = w2
  BY <1>2, <1>4
<1>8. z3 = w3
  BY <1>2, <1>5
<1> QED
  BY <1>6, <1>7, <1>8 DEF z1, z2, z3, w1, w2, w3

\* The link of a channel that has a socket.
LEMMA LinkOfSocket ==
    ASSUME Data, NEW c \in Tcp, slot[c].fd # kBadSock, NEW k, k = kernel[slot[c].fd]
    PROVE  Link(c) = [phase |-> k.phase, rx |-> k.rx, fin |-> k.fin]
<1>1. ~slot[c].failedToStart
  BY HeldSlot DEF Held
<1> QED
  BY <1>1 DEF Link

\* The network changes a socket from k to n.
Network(fd, n) ==
    LET k == kernel[fd]
    IN  /\ k.phase # "free" /\ n \in Socket /\ n.tx = k.tx
        /\ \/ /\ k.phase = "dialing" /\ n.phase = "up"
              /\ n.rx = k.rx /\ n.fin = k.fin
           \/ /\ k.phase \in {"dialing", "up"} /\ n.phase = "dead"
              /\ n.rx = k.rx /\ n.fin = k.fin
           \/ /\ k.phase = "up" /\ ~k.fin /\ n.phase = "up" /\ n.fin = k.fin
              /\ n.rx = k.rx + 1
           \/ /\ k.phase = "up" /\ ~k.fin /\ n.phase = "up" /\ n.fin = TRUE
              /\ n.rx = k.rx
           \/ /\ k.phase = "up" /\ n.phase = "up" /\ n.fin = k.fin /\ n.rx = k.rx
           \/ k.phase = "udp" /\ n.phase = "udp"

\* Each event of the network is of that kind.
LEMMA NetworkEvents ==
    ASSUME Data, NEW fd \in Fds,
           \/ Established(fd) \/ Broken(fd) \/ SegmentArrives(fd) \/ PeerReads(fd)
           \/ StreamEnds(fd) \/ DatagramArrives(fd) \/ IcmpError(fd)
    PROVE  \E n : KernelStep(fd, n) /\ Network(fd, n)
<1> DEFINE k == kernel[fd]
<1>1. k \in Socket
  BY DEF Data
<1>2. CASE Established(fd)
  <2> DEFINE n == [k EXCEPT !.phase = "up"]
  <2>1. KernelStep(fd, n) /\ k.phase = "dialing"
    BY <1>2 DEF Established
  <2> HIDE DEF k
  <2>2. /\ n \in Socket /\ n.phase = "up" /\ n.tx = k.tx
        /\ n.rx = k.rx /\ n.fin = k.fin
    BY <1>1 DEF Socket, Phases
  <2> HIDE DEF n
  <2>3. Network(fd, n)
    BY <2>1, <2>2 DEF Network, k
  <2> QED
    BY <2>1, <2>3
<1>3. CASE Broken(fd)
  <2> DEFINE n == [k EXCEPT !.phase = "dead"]
  <2>1. KernelStep(fd, n) /\ k.phase \in {"dialing", "up"}
    BY <1>3 DEF Broken
  <2> HIDE DEF k
  <2>2. /\ n \in Socket /\ n.phase = "dead" /\ n.tx = k.tx
        /\ n.rx = k.rx /\ n.fin = k.fin
    BY <1>1 DEF Socket, Phases
  <2> HIDE DEF n
  <2>3. Network(fd, n)
    BY <2>1, <2>2 DEF Network, k
  <2> QED
    BY <2>1, <2>3
<1>4. CASE SegmentArrives(fd)
  <2> DEFINE n == [k EXCEPT !.rx = @ + 1]
  <2>1. KernelStep(fd, n) /\ k.phase = "up" /\ ~k.fin /\ k.rx < MaxRx
    BY <1>4 DEF SegmentArrives
  <2> HIDE DEF k
  <2>2. k.rx \in Nat
    BY <1>1 DEF Socket
  <2>3. k.rx + 1 \in 0 .. MaxRx
    BY <2>1, <2>2, Sizes
  <2>4. /\ n \in Socket /\ n.phase = k.phase /\ n.tx = k.tx
        /\ n.rx = k.rx + 1 /\ n.fin = k.fin
    BY <1>1, <2>3 DEF Socket
  <2> HIDE DEF n
  <2>5. Network(fd, n)
    BY <2>1, <2>4 DEF Network, k
  <2> QED
    BY <2>1, <2>5
<1>5. CASE StreamEnds(fd)
  <2> DEFINE n == [k EXCEPT !.fin = TRUE]
  <2>1. KernelStep(fd, n) /\ k.phase = "up" /\ ~k.fin
    BY <1>5 DEF StreamEnds
  <2> HIDE DEF k
  <2>2. /\ n \in Socket /\ n.phase = k.phase /\ n.tx = k.tx
        /\ n.rx = k.rx /\ n.fin = TRUE
    BY <1>1 DEF Socket
  <2> HIDE DEF n
  <2>3. Network(fd, n)
    BY <2>1, <2>2 DEF Network, k
  <2> QED
    BY <2>1, <2>3
<1>6. CASE DatagramArrives(fd)
  <2> DEFINE n == [k EXCEPT !.rx = @ + 1]
  <2>1. KernelStep(fd, n) /\ k.phase = "udp" /\ k.rx < MaxRx
    BY <1>6 DEF DatagramArrives
  <2> HIDE DEF k
  <2>2. k.rx + 1 \in 0 .. MaxRx
    <3>1. k.rx \in Nat
      BY <1>1 DEF Socket
    <3> QED
      BY <2>1, <3>1, Sizes
  <2>3. n \in Socket /\ n.phase = k.phase /\ n.tx = k.tx
    BY <1>1, <2>2 DEF Socket
  <2> HIDE DEF n
  <2>4. Network(fd, n)
    BY <2>1, <2>3 DEF Network, k
  <2> QED
    BY <2>1, <2>4
<1>7. CASE IcmpError(fd)
  <2> DEFINE n == [k EXCEPT !.fin = TRUE]
  <2>1. KernelStep(fd, n) /\ k.phase = "udp"
    BY <1>7 DEF IcmpError
  <2> HIDE DEF k
  <2>2. n \in Socket /\ n.phase = k.phase /\ n.tx = k.tx
    BY <1>1 DEF Socket
  <2> HIDE DEF n
  <2>3. Network(fd, n)
    BY <2>1, <2>2 DEF Network, k
  <2> QED
    BY <2>1, <2>3
<1>8. CASE PeerReads(fd)
  <2> DEFINE n == [k EXCEPT !.room = TRUE]
  <2>1. KernelStep(fd, n) /\ k.phase = "up"
    BY <1>8 DEF PeerReads
  <2> HIDE DEF k
  <2>2. /\ n \in Socket /\ n.phase = k.phase /\ n.tx = k.tx
        /\ n.rx = k.rx /\ n.fin = k.fin
    BY <1>1 DEF Socket
  <2> HIDE DEF n
  <2>3. Network(fd, n)
    BY <2>1, <2>2 DEF Network, k
  <2> QED
    BY <2>1, <2>3
<1> QED
  BY <1>2, <1>3, <1>4, <1>5, <1>6, <1>7, <1>8

\* Whatever the network does to a socket, its channel sees it as such.
LEMMA NetworkStep ==
    ASSUME LoopInv, NEW fd \in Fds,
           \/ Established(fd) \/ Broken(fd) \/ SegmentArrives(fd) \/ PeerReads(fd)
           \/ StreamEnds(fd) \/ DatagramArrives(fd) \/ IcmpError(fd)
    PROVE  LoopInv' /\ Kept
<1>0. Data
  BY DEF LoopInv
<1>1. PICK n : KernelStep(fd, n) /\ Network(fd, n)
  BY <1>0, NetworkEvents
<1>2. /\ kernel' = [kernel EXCEPT ![fd] = n]
      /\ slot' = slot /\ view' = view /\ sent' = sent /\ call' = call /\ UNCHANGED loopVars
  BY <1>1 DEF KernelStep
<1> DEFINE k == kernel[fd]
<1>3. k.phase # "free" /\ k \in Socket
  BY <1>0, <1>1 DEF Network, Data
<1>4. PICK i \in Slots : /\ slot[i].fd = fd /\ slot[i].fd # kBadSock
                         /\ i \in Tcp => k.phase # "udp"
                         /\ i \in Udp => k.phase = "udp"
  BY <1>0, <1>3, Holder
<1>5. n \in Socket /\ n.phase # "free" /\ Onward(k.phase, n.phase) /\ n.tx = k.tx
  BY <1>1 DEF Network, Onward
<1>6. ASSUME i \in Tcp
      PROVE  n.phase \in {"dialing", "up", "dead"} /\ n.phase # "dialing"
  <2>1. k.phase # "udp"
    BY <1>4, <1>6
  <2> QED
    BY <1>1, <2>1 DEF Network
<1>7. ASSUME i \in Udp PROVE n.phase = "udp"
  BY <1>1, <1>4, <1>7 DEF Network
<1>8. Data' /\ Later /\ Alone(i) /\ kernel'[fd] = n
  BY <1>0, <1>2, <1>4, <1>5, <1>6, <1>7, NetworkEffect
<1>9. LoopInv'
  BY <1>2, <1>8, WalkStays
<1>10. CASE i \in Udp
  <2>1. i \notin Tcp
    BY <1>10, Sizes
  <2> QED
    BY <1>2, <1>8, <1>9, <2>1, Untold
<1>11. CASE i \in Tcp
  <2>1. /\ Link(i) = [phase |-> k.phase, rx |-> k.rx, fin |-> k.fin]
        /\ Link(i)' = [phase |-> n.phase, rx |-> n.rx, fin |-> n.fin]
    <3>1. ~slot[i].failedToStart
      BY <1>0, <1>4, <1>11, HeldSlot DEF Held
    <3> QED
      BY <1>2, <1>4, <1>8, <3>1 DEF Link
  <2>2. links' = [links EXCEPT ![i] = Link(i)'] /\ links[i] = Link(i) /\ Handler' = Handler
    BY <1>2, <1>8, <1>11, OneLink, Seen DEF links
  <2>3. /\ Link(i).phase = k.phase /\ Link(i).rx = k.rx /\ Link(i).fin = k.fin
        /\ [Link(i) EXCEPT !.phase = n.phase] = [phase |-> n.phase, rx |-> k.rx, fin |-> k.fin]
        /\ [Link(i) EXCEPT !.rx = n.rx] = [phase |-> k.phase, rx |-> n.rx, fin |-> k.fin]
        /\ [Link(i) EXCEPT !.fin = n.fin] = [phase |-> k.phase, rx |-> k.rx, fin |-> n.fin]
    <3> DEFINE p == k.phase
               r == k.rx
               f == k.fin
    <3>1. Link(i) = [phase |-> p, rx |-> r, fin |-> f]
      BY <2>1
    <3> HIDE DEF p, r, f
    <3>2. ASSUME NEW x
          PROVE  /\ [Link(i) EXCEPT !.phase = x] = [phase |-> x, rx |-> r, fin |-> f]
                 /\ [Link(i) EXCEPT !.rx = x] = [phase |-> p, rx |-> x, fin |-> f]
                 /\ [Link(i) EXCEPT !.fin = x] = [phase |-> p, rx |-> r, fin |-> x]
      <4> DEFINE z == Link(i)
      <4>1. z = [phase |-> p, rx |-> r, fin |-> f]
        BY <3>1
      <4> HIDE DEF z
      <4>2. /\ [z EXCEPT !.phase = x] = [phase |-> x, rx |-> r, fin |-> f]
            /\ [z EXCEPT !.rx = x] = [phase |-> p, rx |-> x, fin |-> f]
            /\ [z EXCEPT !.fin = x] = [phase |-> p, rx |-> r, fin |-> x]
        BY <4>1, LinkFields
      <4> QED
        BY <4>2 DEF z
    <3>3. Link(i).phase = p /\ Link(i).rx = r /\ Link(i).fin = f
      BY <3>1
    <3> QED
      BY <3>2, <3>3 DEF p, r, f
  <2> DEFINE L == Link(i)
             M == Link(i)'
  <2>4. k.phase # "udp"
    BY <1>4, <1>11
  <2>5. \/ L.phase = "dialing" /\ M = [L EXCEPT !.phase = "up"]
        \/ L.phase \in {"dialing", "up"} /\ M = [L EXCEPT !.phase = "dead"]
        \/ L.phase = "up" /\ ~L.fin /\ (M = [L EXCEPT !.rx = L.rx + 1] \/ M = [L EXCEPT !.fin = TRUE])
        \/ M = L
    <3>1. /\ L = [phase |-> k.phase, rx |-> k.rx, fin |-> k.fin]
          /\ M = [phase |-> n.phase, rx |-> n.rx, fin |-> n.fin]
          /\ L.phase = k.phase /\ L.rx = k.rx /\ L.fin = k.fin
          /\ [L EXCEPT !.phase = n.phase] = [phase |-> n.phase, rx |-> k.rx, fin |-> k.fin]
          /\ [L EXCEPT !.rx = n.rx] = [phase |-> k.phase, rx |-> n.rx, fin |-> k.fin]
          /\ [L EXCEPT !.fin = n.fin] = [phase |-> k.phase, rx |-> k.rx, fin |-> n.fin]
      BY <2>1, <2>3
    <3> HIDE DEF L, M
    <3>2. CASE k.phase = "dialing" /\ n.phase = "up" /\ n.rx = k.rx /\ n.fin = k.fin
      BY <3>1, <3>2
    <3>3. CASE k.phase \in {"dialing", "up"} /\ n.phase = "dead" /\ n.rx = k.rx /\ n.fin = k.fin
      BY <3>1, <3>3
    <3>4. CASE k.phase = "up" /\ ~k.fin /\ n.phase = "up" /\ n.fin = k.fin /\ n.rx = k.rx + 1
      BY <3>1, <3>4
    <3>5. CASE k.phase = "up" /\ ~k.fin /\ n.phase = "up" /\ n.fin = TRUE /\ n.rx = k.rx
      BY <3>1, <3>5
    <3>6. CASE k.phase = "up" /\ n.phase = "up" /\ n.fin = k.fin /\ n.rx = k.rx
      BY <3>1, <3>6
    <3> QED
      BY <1>1, <2>4, <3>2, <3>3, <3>4, <3>5, <3>6 DEF Network
  <2>6. links[i] = L /\ links' = [links EXCEPT ![i] = M]
    BY <2>2
  <2> HIDE DEF L, M
  <2>7. CASE L.phase = "dialing" /\ M = [L EXCEPT !.phase = "up"]
    <3>1. Contract!Established(i)
      BY <1>2, <2>2, <2>6, <2>7 DEF Contract!Established, links
    <3> QED
      BY <1>9, <1>11, <3>1 DEF Kept, Contract!Next
  <2>8. CASE L.phase \in {"dialing", "up"} /\ M = [L EXCEPT !.phase = "dead"]
    <3>1. Contract!Broken(i)
      BY <1>2, <2>2, <2>6, <2>8 DEF Contract!Broken, links
    <3> QED
      BY <1>9, <1>11, <3>1 DEF Kept, Contract!Next
  <2>9. CASE L.phase = "up" /\ ~L.fin /\ (M = [L EXCEPT !.rx = L.rx + 1] \/ M = [L EXCEPT !.fin = TRUE])
    <3>1. Contract!Arrives(i)
      BY <1>2, <2>2, <2>6, <2>9 DEF Contract!Arrives, links
    <3> QED
      BY <1>9, <1>11, <3>1 DEF Kept, Contract!Next
  <2>10. CASE M = L
    <3>1. Link(i)' = Link(i)
      BY <2>10 DEF L, M
    <3> QED
      BY <1>2, <1>8, <1>9, <3>1, Untold
  <2> QED
    BY <2>5, <2>7, <2>8, <2>9, <2>10
<1> QED
  BY <1>10, <1>11 DEF Slots

\* The slots, the sockets and what the sender knows stay as they are.
Still == UNCHANGED <<slot, kernel, call, view, sent>>

\* Such a step is not seen by the sender.
LEMMA StillUnseen ==
    ASSUME Data, Still
    PROVE  Data' /\ Later /\ Kept
<1>1. /\ slot' = slot /\ kernel' = kernel /\ view' = view /\ sent' = sent /\ call' = call
  BY DEF Still
<1>2. Data' /\ Later /\ links' = links /\ Handler' = Handler
  BY <1>1, Returned, Seen
<1> QED
  BY <1>1, <1>2 DEF Kept

\* pump() begins, is interrupted in poll(), or ends with the sender's timers.
LEMMA PumpStep ==
    ASSUME LoopInv, Pump \/ PollInterrupted \/ Tick
    PROVE  LoopInv' /\ Kept
<1>1. Still /\ burst' = burst /\ entries' = entries
  BY DEF Pump, PollInterrupted, Tick, Still
<1>2. Data' /\ Later /\ Kept
  BY <1>1, StillUnseen DEF LoopInv
<1>3. /\ pc' \in {"out", "parked", "deliver"}
      /\ pc' \in {"out", "parked"} => entries = {}
      /\ idx' \in 1 .. (NTcp + 1)
  <2>1. idx \in 1 .. (NTcp + 1) /\ 1 \in 1 .. (NTcp + 1)
    BY Sizes DEF LoopInv, Place
  <2>2. pc \in {"out", "parked"} => entries = {}
    BY DEF LoopInv, Place, Walked
  <2> QED
    BY <2>1, <2>2 DEF Pump, PollInterrupted, Tick, At, Goto
<1>4. \A e \in entries' : EntryOK(e)'
  BY <1>1, <1>2, EntryLater DEF LoopInv, Place, Walked
<1>5. Walked'
  BY <1>1, <1>3, <1>4 DEF Walked
<1> QED
  BY <1>1, <1>2, <1>3, <1>5 DEF LoopInv, Place

\* What poll() answers of a slot that has a socket.
LEMMA AnswerOK ==
    ASSUME Data, NEW i \in Slots, slot[i].fd # kBadSock, Entry(i).re # {}
    PROVE  EntryOK(Entry(i))
<1> DEFINE k == kernel[slot[i].fd]
           e == Entry(i)
<1>1. slot[i] \in Slot /\ slot[i].fd \in Fds /\ slot[i].gen \in Nat
  BY DEF Data, Slot
<1>2. e.slot = i /\ e.fd = slot[i].fd /\ e.gen = slot[i].gen
  BY DEF Entry
<1>3. e.re = Revents(slot[i].fd, Asked(i))
  BY DEF Entry
<1>4. ASSUME i \in Tcp
      PROVE  /\ k.phase \in {"up", "dead"}
             /\ e.re \cap {"ERR", "HUP"} # {} => k.phase = "dead"
  <2>1. k.phase \in {"dialing", "up", "dead"}
    BY <1>4, HeldSlot DEF Held
  <2>2. k.phase = "dialing" => e.re = {}
    BY <1>3 DEF Revents
  <2>3. k.phase = "up" => e.re \subseteq {"IN", "OUT"}
    BY <1>3 DEF Revents
  <2> QED
    BY <2>1, <2>2, <2>3
<1> HIDE DEF e
<1>5. e.gen \in 0 .. slot[e.slot].gen
  BY <1>1, <1>2
<1> QED
  BY <1>1, <1>2, <1>4, <1>5 DEF EntryOK, e

\* poll() answers.
LEMMA PollStep ==
    ASSUME LoopInv, Poll
    PROVE  LoopInv' /\ Kept
<1>1. /\ Still /\ burst' = burst /\ idx' = idx /\ pc' = "deliver"
      /\ entries' = Answered /\ slot' = slot /\ kernel' = kernel
  BY DEF Poll, Still, Goto
<1>2. Data' /\ Later /\ Kept
  BY <1>1, StillUnseen DEF LoopInv
<1>3. ASSUME NEW e \in entries' PROVE EntryOK(e)'
  <2>1. e \in Answered
    BY <1>1
  <2>2. PICK i \in Slots : slot[i].fd # kBadSock /\ e = Entry(i) /\ e.re # {}
    BY <2>1 DEF Answered, Slots
  <2>3. EntryOK(e)
    BY <2>2, AnswerOK DEF LoopInv
  <2> QED
    BY <1>1, <2>3 DEF EntryOK, Stale
<1>4. Walked'
  BY <1>1, <1>3 DEF Walked
<1> QED
  BY <1>1, <1>2, <1>4 DEF LoopInv, Place

\* The sender hears that channel c has ended, when it has.
LEMMA NotifyEffect ==
    ASSUME Data, NEW c \in Tcp, call = NoCall, NEW h, Notify(c, h),
           \/ h = "onTcpConnectFailed" /\ view[c] = "opening" /\ Link(c).phase = "dead"
           \/ /\ h = "onTcpClosed" /\ view[c] = "open"
              /\ Link(c).phase = "dead" \/ (Link(c).fin /\ Link(c).rx = 0)
    PROVE  Data' /\ Later /\ Kept
<1>1. /\ closeSlot(c) /\ call' = <<h, c>> /\ view' = [view EXCEPT ![c] = "closed"]
      /\ sent' = sent /\ c \in Slots
  BY DEF Notify, Slots
<1>2. view' = IF c \in Tcp THEN [view EXCEPT ![c] = "closed"] ELSE view
  BY <1>1
<1>3. Data' /\ Later /\ Alone(c) /\ slot'[c].fd = kBadSock /\ ~slot'[c].failedToStart
  BY <1>1, <1>2, CloseEffect
<1>4. /\ links' = [links EXCEPT ![c] = Contract!NoLink] /\ links[c] = Link(c)
      /\ Handler = NoCall /\ Handler' = <<h, c>>
  BY <1>1, <1>3, ClosedLink, Seen DEF links
<1>5. Contract!Gone(c)
  BY <1>1, <1>4 DEF Contract!Gone, links
<1>6. Contract!Call(h, c)
  BY <1>4 DEF Contract!Call, Contract!NoCall, NoCall
<1>7. links[c].phase = Link(c).phase /\ links[c].fin = Link(c).fin /\ links[c].rx = Link(c).rx
  BY <1>4
<1>8. Contract!onTcpConnectFailed(c) \/ Contract!onTcpClosed(c)
  BY <1>5, <1>6, <1>7 DEF Contract!onTcpConnectFailed, Contract!onTcpClosed, links
<1>9. Kept
  BY <1>8 DEF Kept, Contract!Next
<1> QED
  BY <1>3, <1>9

\* One slot's parked notification.
LEMMA ParkedStep ==
    ASSUME LoopInv, Parked
    PROVE  LoopInv' /\ Kept
<1>1. PICK c : c = idx
  OBVIOUS
<1>2. /\ c \in Tcp /\ call = NoCall /\ pc = "parked" /\ idx' = c + 1
      /\ pc' = pc /\ entries' = entries /\ burst' = burst
  BY <1>1 DEF Parked, At
<1>3. Data' /\ Later /\ Kept
  <2>1. CASE Notice(slot[c]) = "none"
    <3>1. Still
      BY <1>1, <2>1 DEF Parked, Still
    <3> QED
      BY <3>1, StillUnseen DEF LoopInv
  <2>2. CASE Notice(slot[c]) # "none"
    <3>1. PICK h : h = Notice(slot[c])
      OBVIOUS
    <3>2. Notify(c, h)
      BY <1>1, <2>2, <3>1 DEF Parked
    <3>3. Channel(slot[c], view[c], sent[c], kernel)
      BY <1>2 DEF LoopInv, Data, Channels
    <3>4. CASE slot[c].failedToStart
      <4>1. h = "onTcpConnectFailed" /\ Link(c).phase = "dead"
        BY <3>1, <3>4 DEF Notice, Link
      <4>2. view[c] = "opening"
        BY <3>3, <3>4 DEF Channel, Empty, Held
      <4> QED
        BY <1>2, <3>2, <4>1, <4>2, NotifyEffect DEF LoopInv
    <3>5. CASE ~slot[c].failedToStart
      <4>1. h = "onTcpClosed" /\ slot[c].sendFailed
        BY <2>2, <3>1, <3>5 DEF Notice
      <4>2. slot[c].fd # kBadSock
        BY <3>3, <4>1 DEF Channel, Empty
      <4>3. view[c] = "open" /\ kernel[slot[c].fd].phase = "dead"
        BY <3>3, <4>1, <4>2 DEF Channel, Held
      <4>4. Link(c).phase = "dead"
        BY <3>5, <4>2, <4>3 DEF Link
      <4> QED
        BY <1>2, <3>2, <4>1, <4>3, <4>4, NotifyEffect DEF LoopInv
    <3> QED
      BY <3>4, <3>5
  <2> QED
    BY <2>1, <2>2
<1>4. idx' \in 1 .. (NTcp + 1)
  BY <1>2, Sizes DEF Tcp
<1>5. entries = {}
  BY <1>2 DEF LoopInv, Place, Walked
<1>6. Walked'
  BY <1>2, <1>5 DEF Walked
<1> QED
  BY <1>2, <1>3, <1>4, <1>6 DEF LoopInv, Place

----------------------------------------------------------------------------
(* The walk. *)

\* The walk turns to something else at the entry it is at.
LEMMA WalkTurns ==
    ASSUME LoopInv, Data', Later, idx' = idx, entries' = entries, entries # {},
           burst' \in 0 .. Burst, NEW e, e = Current,
           \/ pc' \in {"connected", "recv"} /\ e.slot \in Tcp /\ slot'[e.slot].connected
           \/ pc' = "recvfrom" /\ e.slot \in Udp
    PROVE  LoopInv'
<1>1. Current' = Current
  BY DEF Current
<1>2. \A f \in entries' : EntryOK(f)'
  BY EntryLater DEF LoopInv, Place, Walked
<1>3. Walked'
  BY <1>1, <1>2 DEF Walked
<1> QED
  BY <1>3 DEF LoopInv, Place

\* A TCP entry that is not stale: its socket, and the channel behind it.
LiveTcp(e, c, k) ==
    /\ c = e.slot /\ slot[c].fd = e.fd /\ slot[c].fd # kBadSock /\ slot[c].fd \in Fds
    /\ k = kernel[e.fd] /\ k \in Socket /\ k.phase \in {"up", "dead"}
    /\ e.re \cap {"ERR", "HUP"} # {} => k.phase = "dead"
    /\ Held(slot[c], view[c], k)
    /\ Link(c) = [phase |-> k.phase, rx |-> k.rx, fin |-> k.fin]

\* What the walk knows when it looks at such an entry.
LEMMA LiveEntry ==
    ASSUME LoopInv, entries # {}, ~Stale(Current), Current.slot \in Tcp,
           NEW e, e = Current, NEW c, c = e.slot
    PROVE  e \in entries /\ c \in Tcp /\ LiveTcp(e, c, kernel[e.fd])
<1>1. e \in entries /\ EntryOK(e) /\ ~Stale(e) /\ c \in Tcp /\ Data
  BY CurrentEntry DEF LoopInv, Place
<1>2. slot[c].fd = e.fd /\ e.fd \in Fds /\ e.fd # kBadSock
  BY <1>1, Sizes DEF Stale, EntryOK
<1>3. /\ kernel[e.fd].phase \in {"up", "dead"}
      /\ e.re \cap {"ERR", "HUP"} # {} => kernel[e.fd].phase = "dead"
  BY <1>1 DEF EntryOK
<1>4. Held(slot[c], view[c], kernel[e.fd]) /\ kernel[e.fd] \in Socket
  BY <1>1, <1>2, HeldSlot
<1>5. PICK k : k = kernel[e.fd]
  OBVIOUS
<1>6. Link(c) = [phase |-> k.phase, rx |-> k.rx, fin |-> k.fin]
  BY <1>1, <1>2, <1>5, LinkOfSocket
<1> QED
  BY <1>1, <1>2, <1>3, <1>4, <1>5, <1>6 DEF LiveTcp

\* A stale entry is passed over.
LEMMA SkipStep ==
    ASSUME LoopInv, Still, NextEntry
    PROVE  LoopInv' /\ Kept
<1>1. Data' /\ Later /\ Kept
  BY StillUnseen DEF LoopInv
<1> QED
  BY <1>1, WalkGoesOn

\* A channel that ends in the walk.
LEMMA EndStep ==
    ASSUME LoopInv, NEW e, NEW c \in Tcp, LiveTcp(e, c, kernel[e.fd]), call = NoCall,
           NEW h, Notify(c, h), NextEntry,
           \/ h = "onTcpConnectFailed" /\ ~slot[c].connected /\ kernel[e.fd].phase = "dead"
           \/ /\ h = "onTcpClosed" /\ slot[c].connected
              /\ kernel[e.fd].phase = "dead" \/ (kernel[e.fd].fin /\ kernel[e.fd].rx = 0)
    PROVE  LoopInv' /\ Kept
<1>1. /\ Link(c).phase = kernel[e.fd].phase /\ Link(c).fin = kernel[e.fd].fin
      /\ Link(c).rx = kernel[e.fd].rx
  BY DEF LiveTcp
<1>2. view[c] = IF slot[c].connected THEN "open" ELSE "opening"
  BY DEF LiveTcp, Held
<1>3. Data' /\ Later /\ Kept
  BY <1>1, <1>2, NotifyEffect DEF LoopInv
<1> QED
  BY <1>3, WalkGoesOn

\* A pending connect that failed.
LEMMA ConnectFailsStep ==
    ASSUME LoopInv, ConnectFails
    PROVE  LoopInv' /\ Kept
<1>1. PICK e : e = Current
  OBVIOUS
<1>2. PICK c : c = e.slot
  OBVIOUS
<1>3. /\ entries # {} /\ ~Stale(Current) /\ Current.slot \in Tcp /\ call = NoCall
      /\ slot[c].connecting /\ NextEntry /\ Notify(c, "onTcpConnectFailed")
      /\ kernel[e.fd].phase = "dead" \/ e.re \cap {"ERR", "HUP"} # {}
  BY <1>1, <1>2 DEF ConnectFails, AtLive, AtEntry, At
<1>4. c \in Tcp /\ LiveTcp(e, c, kernel[e.fd])
  BY <1>1, <1>2, <1>3, LiveEntry
<1>5. ~slot[c].connected /\ kernel[e.fd].phase = "dead"
  BY <1>3, <1>4 DEF LiveTcp, Held
<1> QED
  BY <1>3, <1>4, <1>5, EndStep

\* An error on a connection that was up.
LEMMA SocketErrorStep ==
    ASSUME LoopInv, SocketError
    PROVE  LoopInv' /\ Kept
<1>1. PICK e : e = Current
  OBVIOUS
<1>2. PICK c : c = e.slot
  OBVIOUS
<1>3. /\ entries # {} /\ ~Stale(Current) /\ Current.slot \in Tcp /\ call = NoCall
      /\ ~slot[c].connecting /\ NextEntry /\ Notify(c, "onTcpClosed") /\ "ERR" \in e.re
  BY <1>1, <1>2 DEF SocketError, AtConnected, AtLive, AtEntry, At
<1>4. c \in Tcp /\ LiveTcp(e, c, kernel[e.fd])
  BY <1>1, <1>2, <1>3, LiveEntry
<1>5. e.re \cap {"ERR", "HUP"} # {}
  BY <1>3
<1>6. slot[c].connected /\ kernel[e.fd].phase = "dead"
  BY <1>3, <1>4, <1>5 DEF LiveTcp, Held
<1> QED
  BY <1>3, <1>4, <1>6, EndStep

\* A pending connect that is up.
LEMMA ConnectOkStep ==
    ASSUME LoopInv, ConnectOk
    PROVE  LoopInv' /\ Kept
<1>1. PICK e : e = Current
  OBVIOUS
<1>2. PICK c : c = e.slot
  OBVIOUS
<1>3. /\ entries # {} /\ ~Stale(Current) /\ Current.slot \in Tcp /\ call = NoCall
      /\ slot[c].connecting /\ kernel[e.fd].phase # "dead"
      /\ slot' = [slot EXCEPT ![c].connecting = FALSE, ![c].connected = TRUE]
      /\ call' = <<"onTcpConnected", c>> /\ view' = [view EXCEPT ![c] = "open"]
      /\ pc' = "connected" /\ kernel' = kernel /\ sent' = sent
      /\ idx' = idx /\ entries' = entries /\ burst' = burst
  BY <1>1, <1>2 DEF ConnectOk, AtLive, AtEntry, At, Goto
<1>4. c \in Tcp /\ LiveTcp(e, c, kernel[e.fd]) /\ Data
  BY <1>1, <1>2, <1>3, LiveEntry DEF LoopInv
<1> DEFINE r == slot[c]
           s == [r EXCEPT !.connecting = FALSE, !.connected = TRUE]
           k == kernel[e.fd]
<1>5. /\ c \in Slots /\ c \notin Udp /\ r \in Slot /\ r.fd = e.fd /\ r.fd # kBadSock
      /\ k \in Socket /\ Held(r, view[c], k) /\ Queue(r, k, sent[c]) /\ k.phase = "up"
  BY <1>3, <1>4, HeldSlot DEF LiveTcp
<1>6. slot' = [slot EXCEPT ![c] = s]
  BY <1>3
<1>7. r.connecting
  BY <1>3
<1> HIDE DEF r
<1>8. /\ s \in Slot /\ s.fd = r.fd /\ s.gen = r.gen /\ s.connecting = FALSE
      /\ s.connected = TRUE /\ s.failedToStart = r.failedToStart
      /\ s.sendFailed = r.sendFailed /\ s.out = r.out /\ s.outOff = r.outOff
  BY <1>5 DEF Slot
<1> HIDE DEF s
<1>9. OthersUntold(c) /\ view'[c] = "open" /\ view[c] = "opening"
  <2>1. view[c] = "opening"
    BY <1>5, <1>7 DEF Held
  <2> QED
    BY <1>3, <1>4, <2>1 DEF OthersUntold, Data, Views
<1>10. Held(s, view'[c], k)
  BY <1>5, <1>7, <1>8, <1>9 DEF Held
<1>11. Queue(s, k, sent'[c])
  BY <1>3, <1>5, <1>8 DEF Queue
<1>12. Updates(c, s, k)
  <2>1. k = kernel[s.fd] /\ r = slot[c]
    BY <1>5, <1>8 DEF r
  <2>2. kernel' = [kernel EXCEPT ![s.fd] = k]
    BY <1>3, <1>4, <1>5, <1>8, SameSocket DEF LiveTcp
  <2>3. Onward(kernel[s.fd].phase, k.phase) /\ k.phase # "free"
    BY <1>5, <2>1 DEF Onward
  <2> HIDE DEF k
  <2> QED
    BY <1>5, <1>6, <1>8, <1>9, <1>10, <1>11, <2>1, <2>2, <2>3 DEF Updates
<1>13. Data' /\ Later /\ Alone(c) /\ slot'[c] = s
  BY <1>4, <1>12, UpdateEffect
<1>14. LoopInv'
  <2>1. burst' \in 0 .. Burst
    BY <1>3 DEF LoopInv, Place
  <2> QED
    BY <1>1, <1>2, <1>3, <1>4, <1>8, <1>13, <2>1, WalkTurns
<1>15. Link(c)' = Link(c)
  <2>1. ~s.failedToStart /\ ~slot[c].failedToStart
    BY <1>4, <1>10 DEF LiveTcp, Held
  <2>2. s.fd = slot[c].fd /\ s.fd # kBadSock
    BY <1>5, <1>8 DEF r
  <2> QED
    BY <1>3, <1>13, <2>1, <2>2 DEF Link
<1>16. links' = links
  <2>1. links' = [links EXCEPT ![c] = Link(c)']
    BY <1>4, <1>13, OneLink
  <2> QED
    BY <1>4, <1>15, <2>1 DEF links
<1>17. Contract!onTcpConnected(c)
  <2>1. links[c].phase = "up"
    BY <1>4, <1>5 DEF links, LiveTcp
  <2>2. Contract!Call("onTcpConnected", c)
    BY <1>3, <1>4, Seen DEF Contract!Call, Contract!NoCall, NoCall
  <2> QED
    BY <1>3, <1>9, <1>16, <2>1, <2>2 DEF Contract!onTcpConnected, links
<1> QED
  BY <1>4, <1>14, <1>17 DEF Kept, Contract!Next

\* What was queued goes to the kernel in the walk.
LEMMA WalkDrains ==
    ASSUME Data, NEW e, NEW c \in Tcp, LiveTcp(e, c, kernel[e.fd]), slot[c].connected,
           DrainOk(c, slot[c]), call' = call, view' = view, sent' = sent
    PROVE  Data' /\ Later /\ Kept /\ slot'[c].connected
<1>1. PICK s : s = slot[c]
  OBVIOUS
<1>2. /\ s \in Slot /\ s.fd # kBadSock /\ s.connected /\ c \in Slots
      /\ Held(s, view[c], kernel[s.fd]) /\ Queue(s, kernel[s.fd], sent'[c])
  BY <1>1, HeldSlot DEF LiveTcp
<1>3. OthersUntold(c)
  BY DEF OthersUntold, Data
<1>4. DrainOk(c, s)
  BY <1>1
<1>5. Data' /\ Later /\ Alone(c) /\ Link(c)' = Link(c)
  BY <1>1, <1>2, <1>3, <1>4, DrainEffect
<1>6. Kept
  BY <1>5, Untold
<1>7. slot'[c].connected
  <2>1. PICK d : slot' = [slot EXCEPT ![c] = Drained(s, d)]
    BY <1>4 DEF DrainOk
  <2>2. slot'[c] = Drained(s, d)
    BY <1>2, <2>1 DEF Data
  <2>3. Drained(s, d).connected
    BY <1>2 DEF Drained, Slot
  <2> QED
    BY <2>2, <2>3
<1> QED
  BY <1>5, <1>6, <1>7

\* The kernel refuses what is queued: the connection is dead.
LEMMA DrainFailsStep ==
    ASSUME LoopInv, NEW e, NEW c \in Tcp, LiveTcp(e, c, kernel[e.fd]), slot[c].connected,
           call = NoCall, DrainFails(slot[c]), Notify(c, "onTcpClosed"), NextEntry
    PROVE  LoopInv' /\ Kept
<1>1. kernel[e.fd].phase = "dead"
  BY DEF DrainFails, LiveTcp
<1> QED
  BY <1>1, EndStep

\* Back from onTcpConnected.
LEMMA AfterConnectedStep ==
    ASSUME LoopInv, AfterConnected
    PROVE  LoopInv' /\ Kept
<1>1. PICK e : e = Current
  OBVIOUS
<1>2. PICK c : c = e.slot
  OBVIOUS
<1>3. /\ entries # {} /\ Current.slot \in Tcp /\ call = NoCall /\ NextEntry /\ Data
      /\ ~Stale(Current) => slot[c].connected
  BY <1>1, <1>2 DEF AfterConnected, At, LoopInv, Place, Walked
<1>4. CASE Stale(Current) /\ UNCHANGED <<slot, kernel, call, view, sent>>
  BY <1>3, <1>4, SkipStep DEF Still
<1>5. CASE ~Stale(Current) /\ DrainOk(c, slot[c]) /\ UNCHANGED <<call, view, sent>>
  <2>1. c \in Tcp /\ LiveTcp(e, c, kernel[e.fd]) /\ slot[c].connected
    BY <1>1, <1>2, <1>3, <1>5, LiveEntry
  <2>2. Data' /\ Later /\ Kept
    BY <1>3, <1>5, <2>1, WalkDrains
  <2> QED
    BY <1>3, <2>2, WalkGoesOn
<1>6. CASE ~Stale(Current) /\ DrainFails(slot[c]) /\ Notify(c, "onTcpClosed")
  <2>1. c \in Tcp /\ LiveTcp(e, c, kernel[e.fd]) /\ slot[c].connected
    BY <1>1, <1>2, <1>3, <1>6, LiveEntry
  <2> QED
    BY <1>3, <1>6, <2>1, DrainFailsStep
<1> QED
  BY <1>1, <1>2, <1>4, <1>5, <1>6 DEF AfterConnected

\* poll() said the socket has room for what is queued.
LEMMA WritableStep ==
    ASSUME LoopInv, Writable
    PROVE  LoopInv' /\ Kept
<1>1. PICK e : e = Current
  OBVIOUS
<1>2. PICK c : c = e.slot
  OBVIOUS
<1>3. /\ entries # {} /\ ~Stale(Current) /\ Current.slot \in Tcp /\ call = NoCall
      /\ ~slot[c].connecting /\ Data
  BY <1>1, <1>2 DEF Writable, AtConnected, AtLive, AtEntry, At, LoopInv
<1>4. c \in Tcp /\ LiveTcp(e, c, kernel[e.fd])
  BY <1>1, <1>2, <1>3, LiveEntry
<1>5. slot[c].connected
  BY <1>3, <1>4 DEF LiveTcp, Held
<1>6. CASE DrainFails(slot[c]) /\ Notify(c, "onTcpClosed") /\ NextEntry
  BY <1>3, <1>4, <1>5, <1>6, DrainFailsStep
<1>7. CASE /\ DrainOk(c, slot[c]) /\ UNCHANGED <<call, view, sent>>
           /\ NextEntry \/ (Goto("recv") /\ UNCHANGED <<idx, entries, burst>>)
  <2>1. Data' /\ Later /\ Kept /\ slot'[c].connected
    BY <1>3, <1>4, <1>5, <1>7, WalkDrains
  <2>2. CASE NextEntry
    BY <2>1, <2>2, WalkGoesOn
  <2>3. CASE Goto("recv") /\ UNCHANGED <<idx, entries, burst>>
    <3>1. burst' \in 0 .. Burst /\ pc' = "recv"
      BY <2>3 DEF LoopInv, Place, Goto
    <3> QED
      BY <1>1, <1>2, <1>3, <1>4, <2>1, <2>3, <3>1, WalkTurns
  <2> QED
    BY <1>7, <2>2, <2>3
<1> QED
  BY <1>1, <1>2, <1>6, <1>7 DEF Writable

\* There is something to read.
LEMMA ReadableStep ==
    ASSUME LoopInv, Readable
    PROVE  LoopInv' /\ Kept
<1>1. PICK e : e = Current
  OBVIOUS
<1>2. PICK c : c = e.slot
  OBVIOUS
<1>3. /\ entries # {} /\ ~Stale(Current) /\ Current.slot \in Tcp
      /\ ~slot[c].connecting /\ Still /\ pc' = "recv"
      /\ idx' = idx /\ entries' = entries /\ burst' = burst
  BY <1>1, <1>2 DEF Readable, AtConnected, AtLive, AtEntry, At, Still, Goto
<1>4. c \in Tcp /\ LiveTcp(e, c, kernel[e.fd])
  BY <1>1, <1>2, <1>3, LiveEntry
<1>5. slot'[c].connected
  BY <1>3, <1>4 DEF LiveTcp, Held, Still
<1>6. Data' /\ Later /\ Kept
  BY <1>3, StillUnseen DEF LoopInv
<1>7. burst' \in 0 .. Burst
  BY <1>3 DEF LoopInv, Place
<1> QED
  BY <1>1, <1>2, <1>3, <1>4, <1>5, <1>6, <1>7, WalkTurns

\* There are datagrams.
LEMMA DatagramsStep ==
    ASSUME LoopInv, Datagrams
    PROVE  LoopInv' /\ Kept
<1>1. PICK e : e = Current
  OBVIOUS
<1>2. /\ entries # {} /\ e.slot \in Udp /\ Still /\ pc' = "recvfrom"
      /\ idx' = idx /\ entries' = entries /\ burst' = burst
  BY <1>1 DEF Datagrams, AtLive, AtEntry, At, Still, Goto
<1>3. Data' /\ Later /\ Kept
  BY <1>2, StillUnseen DEF LoopInv
<1>4. burst' \in 0 .. Burst
  BY <1>2 DEF LoopInv, Place
<1> QED
  BY <1>1, <1>2, <1>3, <1>4, WalkTurns

\* One segment or datagram is taken from a socket.
LEMMA OneTaken ==
    ASSUME NEW k \in Socket, k.rx > 0, NEW n, n = [k EXCEPT !.rx = @ - 1]
    PROVE  /\ n \in Socket /\ n.phase = k.phase /\ n.rx = k.rx - 1
           /\ n.fin = k.fin /\ n.tx = k.tx /\ k.rx \in Nat
<1>1. k.rx \in Nat
  BY DEF Socket
<1>2. k.rx - 1 \in 0 .. MaxRx
  <2>1. k.rx <= MaxRx
    BY DEF Socket
  <2> QED
    BY <1>1, <2>1, Sizes
<1> QED
  BY <1>1, <1>2 DEF Socket

\* recv() returns data, and the sender is given it.
LEMMA DataStep ==
    ASSUME LoopInv, NEW e, NEW c \in Tcp, LiveTcp(e, c, kernel[e.fd]), slot[c].connected,
           call = NoCall, kernel[e.fd].rx > 0,
           kernel' = [kernel EXCEPT ![e.fd].rx = @ - 1],
           call' = <<"onTcpData", c>>, UNCHANGED <<slot, view, sent, loopVars>>
    PROVE  LoopInv' /\ Kept
<1>0. Data /\ slot' = slot /\ view' = view /\ sent' = sent /\ UNCHANGED loopVars
  BY DEF LoopInv
<1> DEFINE k == kernel[e.fd]
           n == [k EXCEPT !.rx = @ - 1]
<1>1. /\ slot[c].fd = e.fd /\ slot[c].fd # kBadSock /\ e.fd \in Fds /\ k \in Socket
      /\ Held(slot[c], view[c], k) /\ k.phase \in {"up", "dead"}
      /\ Link(c) = [phase |-> k.phase, rx |-> k.rx, fin |-> k.fin] /\ k.rx > 0
  BY DEF LiveTcp
<1>2. kernel' = [kernel EXCEPT ![e.fd] = n]
  OBVIOUS
<1>3. n = [k EXCEPT !.rx = @ - 1]
  OBVIOUS
<1>4. c \in Slots /\ c \notin Udp
  BY Sizes DEF Slots
<1>4a. k = kernel[e.fd]
  OBVIOUS
<1> HIDE DEF k, n
<1>5. /\ n \in Socket /\ n.phase = k.phase /\ n.rx = k.rx - 1
      /\ n.fin = k.fin /\ n.tx = k.tx /\ k.rx \in Nat
  BY <1>1, <1>3, OneTaken
<1>7. Data' /\ Later /\ Alone(c) /\ kernel'[e.fd] = n
  <2>1. Onward(kernel[slot[c].fd].phase, n.phase)
    BY <1>1, <1>4a, <1>5 DEF Onward
  <2>2. n.phase # "free" /\ n.phase \in {"dialing", "up", "dead"} /\ n.phase # "dialing"
    BY <1>1, <1>5
  <2>3. n.tx = kernel[slot[c].fd].tx /\ kernel' = [kernel EXCEPT ![slot[c].fd] = n]
    BY <1>1, <1>2, <1>4a, <1>5
  <2>4. Data' /\ Later /\ Alone(c) /\ kernel'[slot[c].fd] = n
    BY <1>0, <1>1, <1>4, <1>5, <2>1, <2>2, <2>3, NetworkEffect
  <2> QED
    BY <1>1, <2>4
<1>8. LoopInv'
  BY <1>0, <1>7, WalkStays
<1>9. Link(c)' = [phase |-> k.phase, rx |-> k.rx - 1, fin |-> k.fin]
  <2>1. ~slot'[c].failedToStart /\ slot'[c].fd = e.fd /\ slot'[c].fd # kBadSock
    BY <1>0, <1>1 DEF Held
  <2> QED
    BY <1>5, <1>7, <2>1 DEF Link
<1>10. Link(c)' = [Link(c) EXCEPT !.rx = k.rx - 1] /\ Link(c).rx = k.rx
  <2> DEFINE p == k.phase
             r == k.rx
             f == k.fin
             x == k.rx - 1
             z == Link(c)
  <2>1. z = [phase |-> p, rx |-> r, fin |-> f]
    BY <1>1
  <2>2. Link(c)' = [phase |-> p, rx |-> x, fin |-> f]
    BY <1>9
  <2> HIDE DEF p, r, f, x, z
  <2>3. [z EXCEPT !.rx = x] = [phase |-> p, rx |-> x, fin |-> f]
    BY <2>1, LinkFields
  <2>4. z.rx = r
    BY <2>1
  <2> QED
    BY <2>2, <2>3, <2>4 DEF z, x, r
<1>11. Contract!onTcpData(c)
  <2>1. view[c] = "open"
    BY <1>1 DEF Held
  <2>2. links[c] = Link(c) /\ links' = [links EXCEPT ![c] = Link(c)']
    BY <1>7, OneLink DEF links
  <2>3. links[c].rx = k.rx /\ k.rx - 1 \in 0 .. (k.rx - 1)
    BY <1>1, <1>5, <1>10, <2>2
  <2>4. links' = [links EXCEPT ![c].rx = k.rx - 1]
    BY <1>10, <2>2
  <2>5. Contract!Call("onTcpData", c)
    BY Seen DEF Contract!Call, Contract!NoCall, NoCall
  <2>6. links[c].rx > 0 /\ \E rest \in 0 .. (links[c].rx - 1) : links' = [links EXCEPT ![c].rx = rest]
    BY <1>1, <2>3, <2>4
  <2> QED
    BY <1>0, <2>1, <2>5, <2>6 DEF Contract!onTcpData, links
<1> QED
  BY <1>8, <1>11 DEF Kept, Contract!Next

\* One turn of the recv loop.
LEMMA RecvStep ==
    ASSUME LoopInv, Recv
    PROVE  LoopInv' /\ Kept
<1>1. PICK e : e = Current
  OBVIOUS
<1>2. PICK c : c = e.slot
  OBVIOUS
<1>3. /\ entries # {} /\ Current.slot \in Tcp /\ call = NoCall /\ Data
      /\ ~Stale(Current) => slot[c].connected
  BY <1>1, <1>2 DEF Recv, At, LoopInv, Place, Walked
<1>4. CASE NextEntry /\ UNCHANGED <<slot, kernel, call, view, sent>>
  BY <1>4, SkipStep DEF Still
<1>5. CASE /\ ~Stale(e) /\ Found(slot[c].fd) = "data"
           /\ kernel' = [kernel EXCEPT ![slot[c].fd].rx = @ - 1]
           /\ call' = <<"onTcpData", c>> /\ UNCHANGED <<slot, view, sent, loopVars>>
  <2>1. c \in Tcp /\ LiveTcp(e, c, kernel[e.fd]) /\ slot[c].connected
    BY <1>1, <1>2, <1>3, <1>5, LiveEntry
  <2>2. slot[c].fd = e.fd /\ kernel[e.fd].rx > 0
    BY <1>5, <2>1 DEF LiveTcp, Found
  <2> QED
    BY <1>3, <1>5, <2>1, <2>2, DataStep
<1>6. CASE /\ ~Stale(e) /\ Found(slot[c].fd) \in {"error", "end"}
           /\ Notify(c, "onTcpClosed") /\ NextEntry
  <2>1. c \in Tcp /\ LiveTcp(e, c, kernel[e.fd]) /\ slot[c].connected
    BY <1>1, <1>2, <1>3, <1>6, LiveEntry
  <2>2. kernel[e.fd].rx \in Nat
    BY <2>1 DEF LiveTcp, Socket
  <2>3. kernel[e.fd].phase = "dead" \/ (kernel[e.fd].fin /\ kernel[e.fd].rx = 0)
    BY <1>6, <2>1, <2>2 DEF LiveTcp, Found
  <2> QED
    BY <1>3, <1>6, <2>1, <2>3, EndStep
<1> QED
  BY <1>1, <1>2, <1>4, <1>5, <1>6 DEF Recv, ClosedMeanwhile

\* One turn of the recvfrom loop.
LEMMA RecvFromStep ==
    ASSUME LoopInv, RecvFrom
    PROVE  LoopInv' /\ Kept
<1>1. PICK e : e = Current
  OBVIOUS
<1>2. PICK u : u = e.slot
  OBVIOUS
<1>3. /\ entries # {} /\ u \in Udp /\ u \in Slots /\ u \notin Tcp /\ call = NoCall /\ Data
      /\ slot' = slot /\ view' = view /\ sent' = sent /\ pc = "recvfrom" /\ EntryOK(e)
  <2>1. entries # {} /\ u \in Udp /\ Walked
    BY <1>1, <1>2 DEF RecvFrom, At, LoopInv, Place, Walked
  <2>2. EntryOK(e)
    BY <1>1, <2>1, CurrentEntry
  <2> QED
    BY <2>1, <2>2, Sizes DEF RecvFrom, At, LoopInv, Slots
<1> DEFINE k == kernel[e.fd]
<1>4. ASSUME ~Stale(e), NEW n, n \in Socket, n.phase = k.phase, n.tx = k.tx,
             kernel' = [kernel EXCEPT ![e.fd] = n]
      PROVE  Data' /\ Later /\ Alone(u) /\ e.fd \in Fds
  <2>1. slot[u].fd = e.fd /\ e.fd \in Fds /\ e.fd # kBadSock
    BY <1>2, <1>3, <1>4, Sizes DEF Stale, EntryOK
  <2>2. k.phase = "udp"
    BY <1>3, <2>1 DEF Data, Ports
  <2>3. /\ Onward(kernel[slot[u].fd].phase, n.phase) /\ n.phase = "udp"
        /\ n.tx = kernel[slot[u].fd].tx /\ kernel' = [kernel EXCEPT ![slot[u].fd] = n]
    BY <1>4, <2>1, <2>2 DEF Onward
  <2> QED
    BY <1>3, <1>4, <2>1, <2>3, NetworkEffect
<1>5. CASE NextEntry /\ UNCHANGED <<kernel, call>>
  BY <1>3, <1>5, SkipStep DEF Still
<1>6. CASE /\ ~Stale(e) /\ burst < Burst /\ kernel[slot[u].fd].rx > 0
           /\ kernel' = [kernel EXCEPT ![slot[u].fd].rx = @ - 1]
           /\ call' \in {<<"onUdpDatagram", u>>, NoCall}
           /\ burst' = Taken /\ UNCHANGED <<pc, idx, entries>>
  <2> DEFINE n == [k EXCEPT !.rx = @ - 1]
  <2>1. slot[u].fd = e.fd /\ e.fd \in Fds /\ k \in Socket /\ k.rx > 0
    BY <1>2, <1>3, <1>6 DEF Stale, EntryOK, Data
  <2>2. kernel' = [kernel EXCEPT ![e.fd] = n]
    BY <1>6, <2>1
  <2>3. n \in Socket /\ n.phase = k.phase /\ n.tx = k.tx
    BY <2>1, OneTaken
  <2> HIDE DEF k, n
  <2>4. Data' /\ Later /\ Alone(u)
    BY <1>4, <1>6, <2>2, <2>3
  <2>5. burst' \in 0 .. Burst
    BY <1>6, Sizes DEF LoopInv, Place, Taken
  <2>6. LoopInv'
    BY <1>1, <1>2, <1>3, <1>6, <2>4, <2>5, WalkTurns
  <2>7. links' = links
    BY <1>3, <2>4, SameLinks
  <2>8. CASE call' = NoCall
    BY <1>3, <2>4, <2>6, <2>8, Untold
  <2>9. CASE call' = <<"onUdpDatagram", u>>
    <3>1. Handler = NoCall /\ Handler' = <<"other", 0>>
      BY <1>3, <2>9, Seen
    <3>2. Contract!OtherCall
      BY <1>3, <2>7, <3>1 DEF Contract!OtherCall, Contract!Call, Contract!NoCall, NoCall, links
    <3> QED
      BY <2>6, <3>2 DEF Kept, Contract!Next
  <2> QED
    BY <1>6, <2>8, <2>9
<1>7. CASE /\ ~Stale(e) /\ kernel' = [kernel EXCEPT ![slot[u].fd].fin = FALSE]
           /\ NextEntry /\ UNCHANGED call
  <2> DEFINE n == [k EXCEPT !.fin = FALSE]
  <2>1. slot[u].fd = e.fd /\ e.fd \in Fds /\ k \in Socket
    BY <1>2, <1>3, <1>7 DEF Stale, EntryOK, Data
  <2>2. kernel' = [kernel EXCEPT ![e.fd] = n]
    BY <1>7, <2>1
  <2> HIDE DEF k
  <2>3. n \in Socket /\ n.phase = k.phase /\ n.tx = k.tx
    BY <2>1 DEF Socket
  <2> HIDE DEF n
  <2>4. Data' /\ Later /\ Alone(u)
    BY <1>4, <1>7, <2>2, <2>3
  <2>5. LoopInv'
    BY <1>7, <2>4, WalkGoesOn
  <2>6. Kept
    BY <1>3, <1>7, <2>4, Untold
  <2> QED
    BY <2>5, <2>6
<1> QED
  BY <1>1, <1>2, <1>5, <1>6, <1>7 DEF RecvFrom

----------------------------------------------------------------------------
(* The theorems. *)

\* No slot has a socket at first, and the sender knows of no channel.
LEMMA LoopInit ==
    ASSUME Init
    PROVE  LoopInv /\ Contract!Init
<1>1. /\ slot = [i \in Slots |-> Closed] /\ kernel = [fd \in Fds |-> NoSocket]
      /\ pc = "out" /\ idx = 1 /\ entries = {} /\ burst = 0 /\ call = NoCall
      /\ view = [c \in Tcp |-> "closed"] /\ sent = [c \in Tcp |-> 0]
  BY DEF Init, Slots
<1>2. /\ Closed \in Slot /\ Closed.fd = kBadSock /\ ~Closed.connecting /\ ~Closed.connected
      /\ ~Closed.failedToStart /\ ~Closed.sendFailed
  BY Sizes DEF Closed, Slot
<1>3. Data
  <2>1. slot \in [Slots -> Slot] /\ kernel \in [Fds -> Socket]
    BY <1>1, <1>2, FreeSocket
  <2>2. view \in [Tcp -> Views] /\ sent \in [Tcp -> 0 .. MaxSend]
    BY <1>1, Sizes DEF Views
  <2>3. Owned /\ Ports
    BY <1>1, <1>2, FreeSocket DEF Owned, Ports, Slots
  <2>4. Channels
    BY <1>1, <1>2 DEF Channels, Channel, Empty, Slots
  <2> QED
    BY <2>1, <2>2, <2>3, <2>4 DEF Data
<1>4. Place
  BY <1>1, Sizes DEF Place, Walked
<1>5. \A c \in Tcp : Link(c) = Contract!NoLink
  BY <1>1, <1>2, NoLinkOf DEF Link, Slots
<1>6. Handler = NoCall
  BY <1>1, Seen
<1>7. Contract!Init
  BY <1>1, <1>5, <1>6 DEF Contract!Init, Contract!NoCall, NoCall
<1> QED
  BY <1>3, <1>4, <1>7 DEF LoopInv

\* Every step of the loop, of the sender and of the network keeps the invariant, and
\* is a step of the contract or none the sender can tell.
LEMMA LoopStep ==
    ASSUME LoopInv, [Next]_vars
    PROVE  LoopInv' /\ Kept
<1>1. CASE UNCHANGED vars
  <2>1. Still /\ UNCHANGED loopVars
    BY <1>1 DEF vars, Still, loopVars
  <2>2. Data' /\ Later /\ Kept
    BY <2>1, StillUnseen DEF LoopInv
  <2> QED
    BY <2>1, <2>2, WalkStays
<1>2. CASE Io
  <2>1. ASSUME NEW c \in Tcp, tcpConnect(c) \/ tcpSend(c) \/ tcpClose(c)
        PROVE  LoopInv' /\ Kept
    BY <2>1, ConnectStep, SendStep, CloseStep
  <2>2. ASSUME NEW u \in Udp, udpBind(u) \/ udpClose(u)
        PROVE  LoopInv' /\ Kept
    BY <2>2, PortStep
  <2> QED
    BY <1>2, <2>1, <2>2 DEF Io
<1>3. CASE Kernel
  BY <1>3, NetworkStep DEF Kernel
<1>4. CASE Walk
  <2>1. CASE SkipStale
    <3>1. Still /\ NextEntry
      BY <2>1 DEF SkipStale, Still
    <3> QED
      BY <3>1, SkipStep
  <2> QED
    BY <1>4, <2>1, ConnectFailsStep, ConnectOkStep, AfterConnectedStep, SocketErrorStep,
       WritableStep, ReadableStep, RecvStep, DatagramsStep, RecvFromStep DEF Walk
<1> QED
  BY <1>1, <1>2, <1>3, <1>4, ReturnStep, PumpStep, ParkedStep, PollStep DEF Next

\* The inductive invariant: who owns which socket, what of each queue the kernel has
\* taken, what the sender has been told of each channel, and what the entries of the
\* walk still tell of their slots (raop_loop.cpp, for any slots, sockets, handlers
\* and network).
THEOREM LoopCorrect == Spec => []LoopInv
<1>1. Init => LoopInv
  BY LoopInit
<1>2. LoopInv /\ [Next]_vars => LoopInv'
  BY LoopStep
<1> QED
  BY <1>1, <1>2, PTL DEF Spec

\* Offsets and generations stay in range and no walk takes more datagrams from a
\* socket than its cap (RaopLoop::pump, TcpSlot, UdpSlot).
THEOREM LoopTypeCorrect == Spec => []TypeOK
<1>1. LoopInv => TypeOK
  BY DEF LoopInv, Data, Place, TypeOK, Slots, Slot, Socket, Phases, Views
<1> QED
  BY <1>1, LoopCorrect, PTL

\* Every open socket is held by exactly one slot and no slot holds a closed one: no
\* failed connect, no close and no reopen from inside a handler leaks a socket or
\* closes one twice (tcpConnect, udpBind, closeTcp, closeUdp).
THEOREM LoopOwnsFds == Spec => []FdsOwned
<1>1. LoopInv => FdsOwned
  <2> SUFFICES ASSUME LoopInv, NEW fd \in Fds
               PROVE  Cardinality(Holders(fd)) = (IF fd \in FreeIn(kernel) THEN 0 ELSE 1)
    BY DEF FdsOwned
  <2>0. Data /\ fd # kBadSock
    BY Sizes DEF LoopInv
  <2>1. CASE kernel[fd].phase = "free"
    <3>1. ASSUME NEW i \in Slots, slot[i].fd = fd PROVE FALSE
      <4>1. CASE i \in Tcp
        BY <2>0, <2>1, <3>1, <4>1, HeldSlot DEF Held
      <4>2. CASE i \in Udp
        BY <2>0, <2>1, <3>1, <4>2 DEF Data, Ports
      <4> QED
        BY <4>1, <4>2 DEF Slots
    <3>2. Holders(fd) = {}
      BY <3>1 DEF Holders, Slots
    <3> QED
      BY <2>1, <3>2, FS_EmptySet DEF FreeIn
  <2>2. CASE kernel[fd].phase # "free"
    <3>1. PICK i \in Slots : slot[i].fd = fd
      BY <2>0, <2>2, Holder
    <3>2. \A j \in Slots : slot[j].fd = fd => j = i
      BY <2>0, <3>1 DEF Data, Owned
    <3>3. Holders(fd) = {i}
      BY <3>1, <3>2 DEF Holders, Slots
    <3> QED
      BY <2>2, <3>3, FS_Singleton DEF FreeIn
  <2> QED
    BY <2>1, <2>2
<1> QED
  BY <1>1, LoopCorrect, PTL

\* What the kernel took of a connection and what is still queued is, in order and
\* without a gap, what the sender has queued, over any partial sends (tcpSend, drain).
THEOREM LoopBytesUnbroken == Spec => []BytesUnbroken
<1>1. LoopInv => BytesUnbroken
  <2> SUFFICES ASSUME LoopInv, NEW c \in Tcp, slot[c].fd # kBadSock
               PROVE  kernel[slot[c].fd].tx \o Unsent(slot[c]) = [n \in 1 .. sent[c] |-> n]
    BY DEF BytesUnbroken
  <2> DEFINE s == slot[c]
             k == kernel[s.fd]
             t == k.tx
             q == s.out
             o == s.outOff
             n == sent[c]
             u == Unsent(s)
             w == t \o u
  <2>1. s \in Slot /\ k \in Socket /\ Queue(s, k, n) /\ n \in 0 .. MaxSend
    BY HeldSlot DEF LoopInv
  <2>2. t \in Seq(1 .. MaxSend) /\ q \in Seq(1 .. MaxSend) /\ o \in Nat /\ n \in Nat
    BY <2>1, Sizes DEF Slot, Socket
  <2>3. Line(q, o, t, n)
    BY <2>1 DEF Queue
  <2>4. /\ o <= Len(q) /\ Len(q) <= n /\ Len(t) + Len(q) = n + o
        /\ \A m \in 1 .. Len(t) : t[m] = m
        /\ \A m \in 1 .. Len(q) : q[m] = n - Len(q) + m
        /\ Len(q) \in Nat /\ Len(t) \in Nat
    <3> HIDE DEF t, q, o, n
    <3>1. Len(q) \in Nat /\ Len(t) \in Nat
      BY <2>2
    <3> QED
      BY <2>3, <3>1 DEF Line
  <2>5. /\ u \in Seq(1 .. MaxSend) /\ Len(u) = Len(q) - o
        /\ \A m \in 1 .. Len(u) : u[m] = q[o + m]
    BY <2>1, <2>4, UnsentPart
  <2> HIDE DEF t, q, o, n, u
  <2>6. w \in Seq(1 .. MaxSend) /\ InRow(w, t, u)
    BY <2>2, <2>5, Joined
  <2> HIDE DEF w
  <2>7. Len(w) = n
    BY <2>2, <2>4, <2>5, <2>6 DEF InRow
  <2>8. ASSUME NEW m \in 1 .. n PROVE w[m] = m
    <3>1. CASE m <= Len(t)
      <4>1. m \in 1 .. Len(t)
        BY <2>2, <2>4, <3>1
      <4> QED
        BY <2>4, <2>6, <4>1 DEF InRow
    <3>2. CASE ~(m <= Len(t))
      <4> DEFINE d == m - Len(t)
      <4>1. d \in 1 .. Len(u) /\ m = Len(t) + d /\ o + d \in 1 .. Len(q)
        BY <2>2, <2>4, <2>5, <3>2
      <4> HIDE DEF d
      <4>2. w[m] = u[d] /\ u[d] = q[o + d]
        BY <2>5, <2>6, <4>1 DEF InRow
      <4>3. q[o + d] = n - Len(q) + (o + d)
        BY <2>4, <4>1
      <4>4. n - Len(q) + (o + d) = m
        <5>1. d \in Int /\ Len(t) \in Int /\ Len(q) \in Int /\ n \in Int /\ o \in Int
          BY <2>2, <2>4, <2>5, <4>1
        <5>2. Len(t) + Len(q) = n + o /\ m = Len(t) + d
          BY <2>4, <4>1
        <5> DEFINE x == Len(t)
                   y == Len(q)
        <5>3. x \in Int /\ y \in Int /\ x + y = n + o /\ m = x + d
          BY <5>1, <5>2
        <5> HIDE DEF x, y
        <5>4. n - y + (o + d) = m
          BY <5>1, <5>3
        <5> QED
          BY <5>4 DEF y
      <4> QED
        BY <4>2, <4>3, <4>4
    <3> QED
      BY <3>1, <3>2
  <2>9. w = [m \in 1 .. n |-> m]
    <3>1. w = [m \in 1 .. Len(w) |-> w[m]]
      BY <2>6
    <3> QED
      BY <2>7, <2>8, <3>1
  <2> QED
    BY <2>9 DEF w, t, u, n, k
<1> QED
  BY <1>1, LoopCorrect, PTL

\* The loop implements the contract of raop_io.h: no event of a closed or replaced
\* socket reaches the sender, a connect is confirmed only once it is up, the end of a
\* channel is reported once and after its last data, whatever the handlers close and
\* reopen (RaopLoop::pump, its checks of fd and gen).
THEOREM LoopImplementsIoContract == Spec => ImplementsIoContract
<1>1. Init => Contract!Init
  BY LoopInit
<1>2. LoopInv /\ [Next]_vars =>
          [Contract!Next]_<<view, [c \in Tcp |-> Link(c)], Handler>>
  BY LoopStep DEF Kept, links
<1> QED
  BY <1>1, <1>2, LoopCorrect, PTL DEF Spec, ImplementsIoContract, Contract!Spec
=============================================================================
