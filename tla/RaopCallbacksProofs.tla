------------------------ MODULE RaopCallbacksProofs -------------------------
(***************************************************************************)
(* Proofs about RaopCallbacks, for any number of sessions, any depth of    *)
(* calls and any number of replies: whatever a host does inside the        *)
(* callbacks, a late or failing submitPin() too, provided it calls start() *)
(* only in the last callback of a function.                                *)
(***************************************************************************)
EXTENDS RaopCallbacks, SequenceTheorems, TLAPS

\* No call is under way, or the one that is has nothing unfinished: an ended
\* session holds nothing, a live one has what it needs.
Settled(y) ==
    IF y.state = "Idle" THEN y.ctl = "closed" /\ ~y.udp
    ELSE /\ y.udp /\ y.ctl # "closed"
         /\ y.state \in Starting =>
               (IF y.waitingForPin THEN "pinTimeout" ELSE "timeout") \in y.watchdogs
         /\ y.ctl = "connecting" => y.state = "Connecting"
         /\ y.waitingForPin => y.state = "Pairing"
         /\ y.state = "Pairing" => y.ap2
         /\ \A i \in 1 .. Len(y.rx) : y.rx[i] = y.gen

Quiet(y) == y.state = "Idle" /\ y.ctl = "closed" /\ ~y.udp

\* The session began in g is the current one, or nothing of it is left to read.
Same(y, g) == y.gen = g \/ y.rx = <<>>

\* What ends a session, in any order.
DownOps == {"idle", "stopTimers", "closeControl", "release"}

Downs == Seq(DownOps)

Has(d, op) == \E i \in 1 .. Len(d) : d[i] = op

\* What has been done of it when d is left.
Torn(d, y) == /\ ~Has(d, "idle") => y.state = "Idle"
              /\ ~Has(d, "closeControl") => y.ctl = "closed"
              /\ ~Has(d, "release") => ~y.udp

\* The second half of start(), and what follows the end of a session.
Begins == {<<"reset", "bind", "connecting", "connect">>,
           <<"reset", "bind", "release", "launchedFalse">>}

Loop == "readNextUnlessIdle"

Rest == {<<>>, <<Loop>>}

\* What fail_ tells the host, and in the loop what comes after it.
Ends == {<<"closed">>, <<"launchedFalse", "closed">>}

Told == Ends \cup {<<"closed", Loop>>, <<"launchedFalse", "closed", Loop>>}

ClosedNext == {<<"closed">>, <<"closed", Loop>>}

\* A code may be submitted as long as the pairing object is there.
PinHasAp2(y) == y.waitingForPin => y.ap2

\* stop() and start() with t left to do.
CallAt(t, y) ==
    \/ t = <<>> /\ Settled(y)
    \/ \E d \in Downs : t = d /\ Torn(d, y)
    \/ \E d \in Downs, e \in Begins : t = d \o e /\ Torn(d, y) /\ y.gen < MaxGen
    \/ /\ t \in {<<"bind", "connecting", "connect">>, <<"bind", "release", "launchedFalse">>}
       /\ Quiet(y) /\ y.rx = <<>> /\ ~y.waitingForPin
    \/ /\ t = <<"connecting", "connect">> /\ y.state = "Idle" /\ y.ctl = "closed" /\ y.udp
       /\ y.rx = <<>> /\ ~y.waitingForPin
    \/ /\ t = <<"connect">> /\ y.state = "Connecting" /\ y.udp /\ "timeout" \in y.watchdogs
       /\ y.rx = <<>> /\ ~y.waitingForPin
    \/ /\ t = <<"release", "launchedFalse">> /\ y.state = "Idle" /\ y.ctl = "closed"
       /\ ~y.waitingForPin
    \/ t = <<"launchedFalse">> /\ Quiet(y) /\ ~y.waitingForPin

\* submitPin() of session g with t left to do: if M3 fails, it ends the session,
\* or tells once more of the end of one that is over.
PinAt(t, y, g) ==
    \/ t = <<"proof">> /\ Settled(y) /\ y.waitingForPin
    \/ \E d \in Downs, e \in Ends : /\ t = <<"proof">> \o (d \o e) /\ Torn(d, y)
                                  /\ Settled(y) /\ y.waitingForPin /\ y.gen = g
    \/ \E d \in Downs, e \in Ends : /\ t = d \o e /\ Torn(d, y)
                                  /\ ~y.waitingForPin /\ y.gen = g

\* The calls of the event loop, begun in session g.
LoopAt(t, y, g) ==
    \/ t = <<Loop>> /\ Settled(y) /\ Same(y, g)
    \/ t = <<"readNext">> /\ Settled(y) /\ Same(y, g) /\ y.state # "Idle"
    \/ /\ t = <<"waitForPin", "pinRequired", Loop>>
       /\ Settled(y) /\ y.gen = g /\ y.state = "Pairing"
    \/ /\ t = <<"pinRequired", Loop>>
       /\ Settled(y) /\ y.gen = g /\ y.state = "Pairing" /\ y.waitingForPin
    \/ /\ t = <<"credentialsObtained", "pairVerify", Loop>>
       /\ Settled(y) /\ y.gen = g /\ y.state = "Pairing" /\ ~y.waitingForPin
    \/ t = <<"pairVerify", Loop>> /\ Settled(y) /\ y.gen = g /\ y.ap2
    \/ /\ t = <<"streaming", "launchedTrue", Loop>>
       /\ Settled(y) /\ y.gen = g /\ y.state # "Idle" /\ y.ctl = "open" /\ ~y.waitingForPin
    \/ t = <<"launchedTrue", Loop>> /\ Settled(y) /\ y.gen = g /\ y.state = "Streaming"
    \/ \E d \in Downs, e \in Told : t = d \o e /\ Torn(d, y) /\ y.gen = g
    \/ t \in ClosedNext /\ Settled(y) /\ Same(y, g) /\ y.late = g

\* The host is in callback c, and t is left to do after it.
InCall(c, t, y, g) ==
    \/ c = "launchedFalse" /\ Quiet(y) /\ ~y.waitingForPin /\ t = <<>>
    \/ c = "launchedFalse" /\ Quiet(y) /\ t \in ClosedNext /\ y.gen = g
    \/ /\ c = "launchedFalse" /\ t \in ClosedNext /\ y.late = g
       /\ Settled(y) /\ Same(y, g) /\ ~y.waitingForPin
    \/ c \in LastCalls /\ t \in Rest /\ Settled(y) /\ Same(y, g)
    \/ /\ c = "credentialsObtained" /\ t = <<"pairVerify", Loop>>
       /\ Settled(y) /\ y.gen = g /\ y.ap2 /\ ~y.waitingForPin

AtProof(h) == h.in = "none" /\ h.todo # <<>> /\ Head(h.todo) = "proof"

\* The call below waits in a callback while the host's call h runs.
Below(b, h, y) ==
    \/ b.in \in LastCalls /\ b.todo \in Rest /\ Same(y, b.gen)
    \/ /\ b.in = "launchedFalse" /\ b.todo \in ClosedNext /\ y.late = b.gen
       /\ Same(y, b.gen) /\ (y.waitingForPin => AtProof(h))
    \/ /\ b.in = "credentialsObtained" /\ b.todo = <<"pairVerify", Loop>>
       /\ y.gen = b.gen /\ y.ap2 /\ ~y.waitingForPin
       /\ h.in = "none" /\ h.todo \in Downs /\ Torn(h.todo, y)

\* A call of the host inside a callback, and one inside the closed() of a
\* submitPin() there: no third comes, since no code is awaited any more.
Only(h, y) ==
    \/ h.in = "none" /\ (CallAt(h.todo, y) \/ PinAt(h.todo, y, h.gen))
    \/ h.in = "launchedFalse" /\ h.todo = <<>> /\ Quiet(y) /\ ~y.waitingForPin
    \/ /\ h.in = "launchedFalse" /\ h.todo = <<"closed">> /\ Quiet(y)
       /\ y.gen = h.gen /\ ~y.waitingForPin
    \/ h.in = "closed" /\ h.todo = <<>> /\ Settled(y) /\ ~y.waitingForPin

Inmost(h, y) == \/ h.in = "none" /\ CallAt(h.todo, y)
                \/ h.in = "launchedFalse" /\ h.todo = <<>> /\ Quiet(y)

Beneath(b, h, y) == /\ h.in = "closed" /\ h.todo = <<>> /\ ~y.waitingForPin
                    /\ Below(b, h, y)

Alone(f, y) == \/ /\ f.in = "none"
                  /\ \/ CallAt(f.todo, y) \/ PinAt(f.todo, y, f.gen)
                     \/ LoopAt(f.todo, y, f.gen)
               \/ InCall(f.in, f.todo, y, f.gen)

Depth(st) == Len(st)

\* At most two calls are nested: the host's in a callback, and, if that is a
\* submitPin() that fails, one more in the closed() it makes.
Stacked(st, y) ==
    /\ Depth(st) <= 3
    /\ Depth(st) = 0 => Settled(y)
    /\ Depth(st) = 1 => Alone(st[1], y)
    /\ Depth(st) = 2 => Only(st[1], y) /\ Below(st[2], st[1], y)
    /\ Depth(st) = 3 => Inmost(st[1], y) /\ Beneath(st[3], st[2], y)

CallInv == TypeOK /\ PinHasAp2(x) /\ Stacked(stack, x)

----------------------------------------------------------------------------
(* Programs. *)

LEMMA JoinedTwo ==
    ASSUME NEW a \in Ops, NEW b \in Ops
    PROVE  <<a>> \o <<b>> = <<a, b>>
<1>1. <<a>> \in Seq(Ops) /\ <<b>> \in Seq(Ops) /\ <<a, b>> \in Seq(Ops)
  OBVIOUS
<1>2. <<a>> \o <<b>> \in Seq(Ops) /\ Len(<<a>> \o <<b>>) = 2
  BY <1>1, ConcatProperties
<1>3. \A i \in 1 .. 2 : (<<a>> \o <<b>>)[i] = IF i <= 1 THEN <<a>>[i] ELSE <<b>>[i - 1]
  BY <1>1, ConcatProperties
<1>4. (<<a>> \o <<b>>)[1] = a /\ (<<a>> \o <<b>>)[2] = b
  BY <1>3
<1>5. \A i \in 1 .. 2 : (<<a>> \o <<b>>)[i] = <<a, b>>[i]
  BY <1>4
<1> QED
  BY <1>1, <1>2, <1>5, SeqEqual

LEMMA JoinedThree ==
    ASSUME NEW a \in Ops, NEW b \in Ops, NEW c \in Ops
    PROVE  <<a, b>> \o <<c>> = <<a, b, c>>
<1>1. <<a, b>> \in Seq(Ops) /\ <<c>> \in Seq(Ops) /\ <<a, b, c>> \in Seq(Ops)
  OBVIOUS
<1>2. <<a, b>> \o <<c>> \in Seq(Ops) /\ Len(<<a, b>> \o <<c>>) = 3
  BY <1>1, ConcatProperties
<1>3. \A i \in 1 .. 3 : (<<a, b>> \o <<c>>)[i] = IF i <= 2 THEN <<a, b>>[i] ELSE <<c>>[i - 2]
  BY <1>1, ConcatProperties
<1>4. /\ (<<a, b>> \o <<c>>)[1] = a /\ (<<a, b>> \o <<c>>)[2] = b
      /\ (<<a, b>> \o <<c>>)[3] = c
  BY <1>3
<1>5. \A i \in 1 .. 3 : (<<a, b>> \o <<c>>)[i] = <<a, b, c>>[i]
  BY <1>4
<1> QED
  BY <1>1, <1>2, <1>5, SeqEqual

LEMMA JoinedFour ==
    ASSUME NEW a \in Ops, NEW b \in Ops, NEW c \in Ops, NEW d \in Ops
    PROVE  <<a, b>> \o <<c, d>> = <<a, b, c, d>>
<1>1. <<a, b>> \in Seq(Ops) /\ <<c, d>> \in Seq(Ops) /\ <<a, b, c, d>> \in Seq(Ops)
  OBVIOUS
<1>2. <<a, b>> \o <<c, d>> \in Seq(Ops) /\ Len(<<a, b>> \o <<c, d>>) = 4
  BY <1>1, ConcatProperties
<1>3. \A i \in 1 .. 4 : (<<a, b>> \o <<c, d>>)[i] = IF i <= 2 THEN <<a, b>>[i] ELSE <<c, d>>[i - 2]
  BY <1>1, ConcatProperties
<1>4. /\ (<<a, b>> \o <<c, d>>)[1] = a /\ (<<a, b>> \o <<c, d>>)[2] = b
      /\ (<<a, b>> \o <<c, d>>)[3] = c /\ (<<a, b>> \o <<c, d>>)[4] = d
  BY <1>3
<1>5. \A i \in 1 .. 4 : (<<a, b>> \o <<c, d>>)[i] = <<a, b, c, d>>[i]
  BY <1>4
<1> QED
  BY <1>1, <1>2, <1>5, SeqEqual

\* The first step of a program that begins with d.
LEMMA FirstOf ==
    ASSUME NEW d \in Seq(Ops), NEW e \in Seq(Ops)
    PROVE  /\ d \o e \in Seq(Ops)
           /\ d = <<>> => d \o e = e
           /\ d # <<>> => /\ d \o e # <<>> /\ Head(d \o e) = Head(d)
                          /\ Tail(d \o e) = Tail(d) \o e
<1>1. d \o e \in Seq(Ops) /\ (d = <<>> => d \o e = e)
  BY ConcatProperties, ConcatEmptySeq
<1>2. ASSUME d # <<>>
      PROVE  d \o e # <<>> /\ Head(d \o e) = Head(d) /\ Tail(d \o e) = Tail(d) \o e
  <2>1. Len(d) \in Nat \ {0} /\ Len(e) \in Nat
    BY <1>2, EmptySeq, LenProperties
  <2>2. /\ Len(d \o e) = Len(d) + Len(e)
        /\ \A i \in 1 .. (Len(d) + Len(e)) :
              (d \o e)[i] = IF i <= Len(d) THEN d[i] ELSE e[i - Len(d)]
    BY ConcatProperties
  <2>3. d \o e # <<>>
    BY <2>1, <2>2, EmptySeq
  <2>4. Head(d \o e) = Head(d)
    BY <1>1, <1>2, <2>1, <2>2, <2>3
  <2>5. /\ Tail(d) \in Seq(Ops) /\ Len(Tail(d)) = Len(d) - 1
        /\ \A i \in 1 .. Len(Tail(d)) : Tail(d)[i] = d[i + 1]
    BY <1>2, HeadTailProperties
  <2>6. /\ Tail(d \o e) \in Seq(Ops) /\ Len(Tail(d \o e)) = Len(d \o e) - 1
        /\ \A i \in 1 .. Len(Tail(d \o e)) : Tail(d \o e)[i] = (d \o e)[i + 1]
    BY <1>1, <2>3, HeadTailProperties
  <2>7. /\ Tail(d) \o e \in Seq(Ops) /\ Len(Tail(d) \o e) = Len(Tail(d)) + Len(e)
        /\ \A i \in 1 .. (Len(Tail(d)) + Len(e)) :
              (Tail(d) \o e)[i] = IF i <= Len(Tail(d)) THEN Tail(d)[i] ELSE e[i - Len(Tail(d))]
    BY <2>5, ConcatProperties
  <2>8. ASSUME NEW i \in 1 .. Len(Tail(d \o e))
        PROVE  Tail(d \o e)[i] = (Tail(d) \o e)[i]
    <3>1. i \in Nat /\ 1 <= i /\ i <= Len(d) + Len(e) - 1
      BY <2>1, <2>2, <2>6
    <3>2. Tail(d \o e)[i] = IF i + 1 <= Len(d) THEN d[i + 1] ELSE e[(i + 1) - Len(d)]
      BY <2>1, <2>2, <2>6, <3>1
    <3>3. (Tail(d) \o e)[i] = IF i <= Len(d) - 1 THEN Tail(d)[i] ELSE e[i - (Len(d) - 1)]
      BY <2>1, <2>5, <2>7, <3>1
    <3>4. i <= Len(d) - 1 => Tail(d)[i] = d[i + 1]
      BY <2>1, <2>5, <3>1
    <3> QED
      BY <2>1, <3>1, <3>2, <3>3, <3>4
  <2>9. Tail(d \o e) = Tail(d) \o e
    BY <2>1, <2>2, <2>5, <2>6, <2>7, <2>8, SeqEqual
  <2> QED
    BY <2>3, <2>4, <2>9
<1> QED
  BY <1>1, <1>2

\* What is left of the end of a session, whichever step of it was first.
LEMMA DownsFirst ==
    ASSUME NEW d \in Downs, d # <<>>
    PROVE  /\ d \in Seq(Ops)
           /\ Head(d) \in DownOps /\ Tail(d) \in Downs
           /\ \A op \in DownOps : Has(d, op) => op = Head(d) \/ Has(Tail(d), op)
<1>1. d \in Seq(Ops)
  BY SeqMonotonic DEF Downs, DownOps, Ops
<1>2. /\ Head(d) \in DownOps /\ Tail(d) \in Downs /\ Len(Tail(d)) = Len(d) - 1
      /\ \A i \in 1 .. Len(Tail(d)) : Tail(d)[i] = d[i + 1]
  BY HeadTailProperties DEF Downs
<1>3. Len(d) \in Nat \ {0}
  BY EmptySeq DEF Downs
<1>4. Head(d) = d[1]
  BY <1>3 DEF Downs
<1>5. ASSUME NEW op \in DownOps, Has(d, op), op # Head(d)
      PROVE  Has(Tail(d), op)
  <2>1. PICK i \in 1 .. Len(d) : d[i] = op
    BY <1>5 DEF Has
  <2>2. i # 1
    BY <2>1, <1>4, <1>5
  <2>3. i - 1 \in 1 .. Len(Tail(d)) /\ Tail(d)[i - 1] = d[i]
    BY <2>1, <2>2, <1>2, <1>3
  <2> QED
    BY <2>1, <2>3 DEF Has
<1> QED
  BY <1>1, <1>2, <1>5

LEMMA NoneLeft == /\ <<>> \in Downs /\ \A op : ~Has(<<>>, op)
                  /\ \A y : Torn(<<>>, y) <=> Quiet(y)
<1>1. <<>> \in Downs /\ Len(<<>>) = 0
  BY EmptySeq DEF Downs
<1>2. \A op : ~Has(<<>>, op)
  BY <1>1 DEF Has
<1> QED
  BY <1>1, <1>2 DEF Torn, Quiet
----------------------------------------------------------------------------
(* Statements. *)

\* What no step of the end of a session touches.
Kept(z, y) == /\ z.gen = y.gen /\ z.rx = y.rx /\ z.late = y.late
              /\ z.ap2 = y.ap2 /\ z.waitingForPin = y.waitingForPin

LEMMA DownDone ==
    ASSUME NEW y \in Sender, NEW op \in DownOps
    PROVE  /\ Do(y, op) \in Sender /\ Kept(Do(y, op), y)
           /\ Do(y, op).state = IF op = "idle" THEN "Idle" ELSE y.state
           /\ Do(y, op).ctl = IF op = "closeControl" THEN "closed" ELSE y.ctl
           /\ Do(y, op).udp = IF op = "release" THEN FALSE ELSE y.udp
<1>1. CASE op = "idle"
  <2>1. Do(y, op) = [y EXCEPT !.state = "Idle"]
    BY <1>1 DEF Do
  <2> QED
    BY <2>1, <1>1 DEF Sender, States, Kept
<1>2. CASE op = "stopTimers"
  <2>1. Do(y, op) = [y EXCEPT !.watchdogs = {}]
    BY <1>2 DEF Do
  <2> QED
    BY <2>1, <1>2 DEF Sender, Kept
<1>3. CASE op = "closeControl"
  <2>1. Do(y, op) = [y EXCEPT !.ctl = "closed"]
    BY <1>3 DEF Do
  <2> QED
    BY <2>1, <1>3 DEF Sender, Kept
<1>4. CASE op = "release"
  <2>1. Do(y, op) = [y EXCEPT !.udp = FALSE]
    BY <1>4 DEF Do, Release
  <2> QED
    BY <2>1, <1>4 DEF Sender, Kept
<1> QED
  BY <1>1, <1>2, <1>3, <1>4 DEF DownOps

LEMMA TornStep ==
    ASSUME NEW y \in Sender, NEW d \in Downs, d # <<>>, Torn(d, y)
    PROVE  /\ Do(y, Head(d)) \in Sender /\ Kept(Do(y, Head(d)), y)
           /\ Torn(Tail(d), Do(y, Head(d)))
<1>1. /\ Head(d) \in DownOps /\ Tail(d) \in Downs
      /\ \A op \in DownOps : Has(d, op) => op = Head(d) \/ Has(Tail(d), op)
  BY DownsFirst
<1> DEFINE h == Head(d)
           z == Do(y, h)
<1>2. /\ z \in Sender /\ Kept(z, y)
      /\ z.state = IF h = "idle" THEN "Idle" ELSE y.state
      /\ z.ctl = IF h = "closeControl" THEN "closed" ELSE y.ctl
      /\ z.udp = IF h = "release" THEN FALSE ELSE y.udp
  BY <1>1, DownDone
<1>3. "idle" \in DownOps /\ "closeControl" \in DownOps /\ "release" \in DownOps
  BY DEF DownOps
<1>4. ~Has(Tail(d), "idle") => z.state = "Idle"
  BY <1>1, <1>2, <1>3 DEF Torn
<1>5. ~Has(Tail(d), "closeControl") => z.ctl = "closed"
  BY <1>1, <1>2, <1>3 DEF Torn
<1>6. ~Has(Tail(d), "release") => ~z.udp
  BY <1>1, <1>2, <1>3 DEF Torn
<1> QED
  BY <1>2, <1>4, <1>5, <1>6 DEF Torn

LEMMA ResetDone ==
    ASSUME NEW y \in Sender, y.gen < MaxGen
    PROVE  /\ Do(y, "reset") \in Sender /\ Do(y, "reset").rx = <<>>
           /\ ~Do(y, "reset").waitingForPin /\ Do(y, "reset").late = y.late
           /\ Do(y, "reset").state = y.state /\ Do(y, "reset").ctl = y.ctl
           /\ Do(y, "reset").udp = y.udp
<1>1. Do(y, "reset") = [y EXCEPT !.gen = y.gen + 1, !.ap2 = FALSE, !.waitingForPin = FALSE,
                                 !.rx = <<>>]
  BY DEF Do, Reset, Sender
<1>2. y.gen + 1 \in 0 .. MaxGen
  BY BoundsAssumption DEF Sender
<1>3. <<>> \in Seq(0 .. MaxGen)
  OBVIOUS
<1> QED
  BY <1>1, <1>2, <1>3 DEF Sender

LEMMA BindDone ==
    ASSUME NEW y \in Sender
    PROVE  /\ Do(y, "bind") \in Sender /\ Kept(Do(y, "bind"), y)
           /\ Do(y, "bind").udp /\ Do(y, "bind").state = y.state /\ Do(y, "bind").ctl = y.ctl
<1>1. Do(y, "bind") = [y EXCEPT !.udp = TRUE]
  BY DEF Do
<1> QED
  BY <1>1 DEF Sender, Kept

LEMMA ConnectingDone ==
    ASSUME NEW y \in Sender
    PROVE  /\ Do(y, "connecting") \in Sender /\ Kept(Do(y, "connecting"), y)
           /\ Do(y, "connecting").state = "Connecting"
           /\ Do(y, "connecting").udp = y.udp
           /\ "timeout" \in Do(y, "connecting").watchdogs
<1>1. Do(y, "connecting") = [y EXCEPT !.state = "Connecting",
                                      !.watchdogs = y.watchdogs \cup {"timeout"}]
  BY DEF Do, Sender
<1>2. y.watchdogs \cup {"timeout"} \in SUBSET {"timeout", "pinTimeout"}
  BY DEF Sender
<1> QED
  BY <1>1, <1>2 DEF Sender, States, Kept

LEMMA ConnectDone ==
    ASSUME NEW y \in Sender
    PROVE  /\ Do(y, "connect") \in Sender /\ Kept(Do(y, "connect"), y)
           /\ Do(y, "connect").ctl = "connecting" /\ Do(y, "connect").state = y.state
           /\ Do(y, "connect").udp = y.udp /\ Do(y, "connect").watchdogs = y.watchdogs
<1>1. Do(y, "connect") = [y EXCEPT !.ctl = "connecting"]
  BY DEF Do
<1> QED
  BY <1>1 DEF Sender, Kept

LEMMA ProofDone ==
    ASSUME NEW y \in Sender
    PROVE  /\ Do(y, "proof") \in Sender
           /\ Do(y, "proof").gen = y.gen /\ Do(y, "proof").rx = y.rx
           /\ Do(y, "proof").late = y.late
           /\ Do(y, "proof").ap2 = y.ap2 /\ ~Do(y, "proof").waitingForPin
           /\ Do(y, "proof").ctl = y.ctl /\ Do(y, "proof").state = y.state
           /\ Do(y, "proof").udp = y.udp /\ "timeout" \in Do(y, "proof").watchdogs
<1>1. Do(y, "proof") = [y EXCEPT !.waitingForPin = FALSE,
                          !.watchdogs = (y.watchdogs \ {"pinTimeout"}) \cup {"timeout"}]
  BY DEF Do, Proof, Sender
<1>2. (y.watchdogs \ {"pinTimeout"}) \cup {"timeout"} \in SUBSET {"timeout", "pinTimeout"}
  BY DEF Sender
<1>3. Do(y, "proof") \in Sender
  BY <1>1, <1>2 DEF Sender
<1>4. /\ Do(y, "proof").gen = y.gen /\ Do(y, "proof").rx = y.rx /\ Do(y, "proof").late = y.late
      /\ Do(y, "proof").ap2 = y.ap2 /\ Do(y, "proof").ctl = y.ctl
      /\ Do(y, "proof").state = y.state /\ Do(y, "proof").udp = y.udp
  BY <1>1 DEF Sender
<1>5. Do(y, "proof").waitingForPin = FALSE
  BY <1>1 DEF Sender
<1>6. Do(y, "proof").watchdogs = (y.watchdogs \ {"pinTimeout"}) \cup {"timeout"}
  BY <1>1 DEF Sender
<1>7. "timeout" \in Do(y, "proof").watchdogs
  BY <1>6
<1> QED
  BY <1>3, <1>4, <1>5, <1>7

LEMMA WaitDone ==
    ASSUME NEW y \in Sender
    PROVE  /\ Do(y, "waitForPin") \in Sender
           /\ Do(y, "waitForPin").gen = y.gen /\ Do(y, "waitForPin").rx = y.rx
           /\ Do(y, "waitForPin").late = y.late
           /\ Do(y, "waitForPin").ap2 = y.ap2 /\ Do(y, "waitForPin").waitingForPin
           /\ Do(y, "waitForPin").ctl = y.ctl /\ Do(y, "waitForPin").state = y.state
           /\ Do(y, "waitForPin").udp = y.udp /\ "pinTimeout" \in Do(y, "waitForPin").watchdogs
<1>1. Do(y, "waitForPin") = [y EXCEPT !.waitingForPin = TRUE,
                          !.watchdogs = (y.watchdogs \ {"timeout"}) \cup {"pinTimeout"}]
  BY DEF Do, WaitForPin, Sender
<1>2. (y.watchdogs \ {"timeout"}) \cup {"pinTimeout"} \in SUBSET {"timeout", "pinTimeout"}
  BY DEF Sender
<1>3. Do(y, "waitForPin") \in Sender
  BY <1>1, <1>2 DEF Sender
<1>4. /\ Do(y, "waitForPin").gen = y.gen /\ Do(y, "waitForPin").rx = y.rx /\ Do(y, "waitForPin").late = y.late
      /\ Do(y, "waitForPin").ap2 = y.ap2 /\ Do(y, "waitForPin").ctl = y.ctl
      /\ Do(y, "waitForPin").state = y.state /\ Do(y, "waitForPin").udp = y.udp
  BY <1>1 DEF Sender
<1>5. Do(y, "waitForPin").waitingForPin = TRUE
  BY <1>1 DEF Sender
<1>6. Do(y, "waitForPin").watchdogs = (y.watchdogs \ {"timeout"}) \cup {"pinTimeout"}
  BY <1>1 DEF Sender
<1>7. "pinTimeout" \in Do(y, "waitForPin").watchdogs
  BY <1>6
<1> QED
  BY <1>3, <1>4, <1>5, <1>7

LEMMA VerifyDone ==
    ASSUME NEW y \in Sender
    PROVE  /\ Do(y, "pairVerify") \in Sender /\ Kept(Do(y, "pairVerify"), y)
           /\ Do(y, "pairVerify").ctl = y.ctl /\ Do(y, "pairVerify").state = y.state
           /\ Do(y, "pairVerify").udp = y.udp
           /\ Do(y, "pairVerify").watchdogs = y.watchdogs \cup {"timeout"}
<1>1. Do(y, "pairVerify") = [y EXCEPT !.watchdogs = y.watchdogs \cup {"timeout"}]
  BY DEF Do, Sender
<1>2. y.watchdogs \cup {"timeout"} \in SUBSET {"timeout", "pinTimeout"}
  BY DEF Sender
<1> QED
  BY <1>1, <1>2 DEF Sender, Kept

LEMMA StreamingDone ==
    ASSUME NEW y \in Sender
    PROVE  /\ Do(y, "streaming") \in Sender /\ Kept(Do(y, "streaming"), y)
           /\ Do(y, "streaming").ctl = y.ctl /\ Do(y, "streaming").state = "Streaming"
           /\ Do(y, "streaming").udp = y.udp
<1>1. Do(y, "streaming") = [y EXCEPT !.state = "Streaming",
                                     !.watchdogs = y.watchdogs \ {"timeout"}]
  BY DEF Do, Sender
<1>2. y.watchdogs \ {"timeout"} \in SUBSET {"timeout", "pinTimeout"}
  BY DEF Sender
<1> QED
  BY <1>1, <1>2 DEF Sender, States, Kept
----------------------------------------------------------------------------
(* The calls of the host. *)

Reads == {"readNext", Loop}

\* What a statement of the host's call leaves as it is, for the calls below it.
Stays(z, y) == /\ \A g : Same(y, g) => Same(z, g)
               /\ z.late = y.late /\ (~y.waitingForPin => ~z.waitingForPin)
               /\ PinHasAp2(y) => PinHasAp2(z)

\* A statement moves a host's call to its next point.
Moved(z, t, y) == z \in Sender /\ CallAt(t, z) /\ Stays(z, y)

LEMMA KeptStays ==
    ASSUME NEW y, NEW z, Kept(z, y)
    PROVE  Stays(z, y)
  BY DEF Kept, Stays, Same, PinHasAp2

LEMMA BeginsAre ==
    ASSUME NEW e \in Begins
    PROVE  /\ e \in Seq(Ops) /\ e # <<>> /\ Head(e) = "reset"
           /\ Tail(e) \in {<<"bind", "connecting", "connect">>,
                           <<"bind", "release", "launchedFalse">>}
<1>1. CASE e = <<"reset", "bind", "connecting", "connect">>
  BY <1>1 DEF Ops
<1>2. CASE e = <<"reset", "bind", "release", "launchedFalse">>
  BY <1>2 DEF Ops, Callbacks
<1> QED
  BY <1>1, <1>2 DEF Begins

\* The end of a session inside a call of the host.
LEMMA HostDowns ==
    ASSUME NEW y \in Sender, NEW d \in Downs, d # <<>>, Torn(d, y)
    PROVE  /\ Head(d) \notin Callbacks \cup Reads /\ Head(d) \notin {"proof", "pairVerify"}
           /\ Moved(Do(y, Head(d)), Tail(d), y)
<1>1. Head(d) \in DownOps /\ Tail(d) \in Downs
  BY DownsFirst
<1>2. /\ Do(y, Head(d)) \in Sender /\ Kept(Do(y, Head(d)), y)
      /\ Torn(Tail(d), Do(y, Head(d)))
  BY TornStep
<1>3. CallAt(Tail(d), Do(y, Head(d)))
  BY <1>1, <1>2 DEF CallAt
<1>4. Head(d) \notin Callbacks \cup Reads /\ Head(d) \notin {"proof", "pairVerify"}
  BY <1>1 DEF DownOps, Callbacks, Reads, Loop
<1> QED
  BY <1>2, <1>3, <1>4, KeptStays DEF Moved

\* start(), through its stop() and the reset.
LEMMA HostBegins ==
    ASSUME NEW y \in Sender, NEW d \in Downs, NEW e \in Begins, Torn(d, y), y.gen < MaxGen
    PROVE  /\ d \o e \in Seq(Ops) /\ d \o e # <<>>
           /\ Head(d \o e) \notin Callbacks \cup Reads
           /\ Head(d \o e) \notin {"proof", "pairVerify"}
           /\ Moved(Do(y, Head(d \o e)), Tail(d \o e), y)
<1>1. /\ e \in Seq(Ops) /\ e # <<>> /\ Head(e) = "reset"
      /\ Tail(e) \in {<<"bind", "connecting", "connect">>,
                      <<"bind", "release", "launchedFalse">>}
  BY BeginsAre
<1>2. d \in Seq(Ops)
  BY SeqMonotonic DEF Downs, DownOps, Ops
<1>3. /\ d \o e \in Seq(Ops)
      /\ d = <<>> => d \o e = e
      /\ d # <<>> => /\ d \o e # <<>> /\ Head(d \o e) = Head(d)
                     /\ Tail(d \o e) = Tail(d) \o e
  BY <1>1, <1>2, FirstOf
<1>4. CASE d # <<>>
  <2>1. Head(d) \in DownOps /\ Tail(d) \in Downs
    BY <1>4, DownsFirst
  <2>2. /\ Do(y, Head(d)) \in Sender /\ Kept(Do(y, Head(d)), y)
        /\ Torn(Tail(d), Do(y, Head(d)))
    BY <1>4, TornStep
  <2>3. CallAt(Tail(d) \o e, Do(y, Head(d)))
    BY <2>1, <2>2 DEF CallAt, Kept
  <2>4. Head(d) \notin Callbacks \cup Reads /\ Head(d) \notin {"proof", "pairVerify"}
    BY <2>1 DEF DownOps, Callbacks, Reads, Loop
  <2> QED
    BY <1>3, <1>4, <2>2, <2>3, <2>4, KeptStays DEF Moved
<1>5. CASE d = <<>>
  <2>1. d \o e = e /\ Quiet(y)
    BY <1>3, <1>5, NoneLeft
  <2>2. /\ Do(y, "reset") \in Sender /\ Do(y, "reset").rx = <<>>
        /\ ~Do(y, "reset").waitingForPin /\ Do(y, "reset").late = y.late
        /\ Quiet(Do(y, "reset"))
    BY <2>1, ResetDone DEF Quiet
  <2>3. CallAt(Tail(e), Do(y, "reset"))
    BY <1>1, <2>2 DEF CallAt
  <2>4. "reset" \notin Callbacks \cup Reads
    BY DEF Callbacks, Reads, Loop
  <2>5. Stays(Do(y, "reset"), y)
    BY <2>2 DEF Stays, Same, PinHasAp2
  <2> QED
    BY <1>1, <1>3, <2>1, <2>2, <2>3, <2>4, <2>5 DEF Moved
<1> QED
  BY <1>4, <1>5

LEMMA CallStatement ==
    ASSUME NEW y \in Sender, NEW t, CallAt(t, y), t # <<>>
    PROVE  /\ Head(t) \notin Reads /\ Head(t) \notin {"proof", "pairVerify"}
           /\ Head(t) \notin Callbacks => Moved(Do(y, Head(t)), Tail(t), y)
           /\ Head(t) \in Callbacks => /\ t = <<"launchedFalse">> /\ Quiet(y)
                                       /\ ~y.waitingForPin
<1>2. CASE \E d \in Downs : t = d /\ Torn(d, y)
  BY <1>2, HostDowns
<1>3. CASE \E d \in Downs, e \in Begins : t = d \o e /\ Torn(d, y) /\ y.gen < MaxGen
  BY <1>3, HostBegins
<1>4. CASE /\ t \in {<<"bind", "connecting", "connect">>, <<"bind", "release", "launchedFalse">>}
           /\ Quiet(y) /\ y.rx = <<>> /\ ~y.waitingForPin
  <2>1. /\ Head(t) = "bind"
        /\ Tail(t) \in {<<"connecting", "connect">>, <<"release", "launchedFalse">>}
    <3>1. CASE t = <<"bind", "connecting", "connect">>
      BY <3>1
    <3>2. CASE t = <<"bind", "release", "launchedFalse">>
      BY <3>2
    <3> QED
      BY <1>4, <3>1, <3>2
  <2>2. /\ Do(y, "bind") \in Sender /\ Kept(Do(y, "bind"), y)
        /\ Do(y, "bind").udp /\ Do(y, "bind").state = y.state /\ Do(y, "bind").ctl = y.ctl
    BY BindDone
  <2>3. CallAt(Tail(t), Do(y, "bind"))
    BY <1>4, <2>1, <2>2 DEF CallAt, Quiet, Kept
  <2> QED
    BY <2>1, <2>2, <2>3, KeptStays DEF Moved, Callbacks, Reads, Loop
<1>5. CASE /\ t = <<"connecting", "connect">> /\ y.state = "Idle" /\ y.ctl = "closed" /\ y.udp
           /\ y.rx = <<>> /\ ~y.waitingForPin
  <2>1. Head(t) = "connecting" /\ Tail(t) = <<"connect">>
    BY <1>5
  <2>2. /\ Do(y, "connecting") \in Sender /\ Kept(Do(y, "connecting"), y)
        /\ Do(y, "connecting").state = "Connecting"
        /\ Do(y, "connecting").udp = y.udp
        /\ "timeout" \in Do(y, "connecting").watchdogs
    BY ConnectingDone
  <2>3. CallAt(Tail(t), Do(y, "connecting"))
    BY <1>5, <2>1, <2>2 DEF CallAt, Kept
  <2> QED
    BY <2>1, <2>2, <2>3, KeptStays DEF Moved, Callbacks, Reads, Loop
<1>6. CASE /\ t = <<"connect">> /\ y.state = "Connecting" /\ y.udp /\ "timeout" \in y.watchdogs
           /\ y.rx = <<>> /\ ~y.waitingForPin
  <2>1. Head(t) = "connect" /\ Tail(t) = <<>>
    BY <1>6
  <2>2. /\ Do(y, "connect") \in Sender /\ Kept(Do(y, "connect"), y)
        /\ Do(y, "connect").ctl = "connecting" /\ Do(y, "connect").state = y.state
        /\ Do(y, "connect").udp = y.udp /\ Do(y, "connect").watchdogs = y.watchdogs
    BY ConnectDone
  <2>3. \A i \in 1 .. Len(<<>>) : FALSE
    OBVIOUS
  <2>4. Settled(Do(y, "connect"))
    BY <1>6, <2>2, <2>3 DEF Settled, Kept
  <2>5. CallAt(<<>>, Do(y, "connect"))
    BY <2>4 DEF CallAt
  <2> QED
    BY <2>1, <2>2, <2>5, KeptStays DEF Moved, Callbacks, Reads, Loop
<1>7. CASE /\ t = <<"release", "launchedFalse">> /\ y.state = "Idle" /\ y.ctl = "closed"
           /\ ~y.waitingForPin
  <2>1. Head(t) = "release" /\ Tail(t) = <<"launchedFalse">> /\ "release" \in DownOps
    BY <1>7 DEF DownOps
  <2>2. /\ Do(y, "release") \in Sender /\ Kept(Do(y, "release"), y)
        /\ Quiet(Do(y, "release"))
    BY <1>7, <2>1, DownDone DEF Quiet
  <2>3. CallAt(<<"launchedFalse">>, Do(y, "release"))
    BY <1>7, <2>2 DEF CallAt, Kept
  <2> QED
    BY <2>1, <2>2, <2>3, KeptStays DEF Moved, Callbacks, Reads, Loop
<1>8. CASE t = <<"launchedFalse">> /\ Quiet(y) /\ ~y.waitingForPin
  BY <1>8 DEF Callbacks, Reads, Loop
<1> QED
  BY <1>2, <1>3, <1>4, <1>5, <1>6, <1>7, <1>8 DEF CallAt

\* A call of the host that is done leaves a consistent sender.
LEMMA CallDone ==
    ASSUME NEW y \in Sender, CallAt(<<>>, y)
    PROVE  Settled(y)
<1>1. ASSUME NEW d \in Downs, NEW e \in Begins PROVE d \o e # <<>>
  <2>1. d \in Seq(Ops) /\ e \in Seq(Ops) /\ e # <<>>
    BY BeginsAre, SeqMonotonic DEF Downs, DownOps, Ops
  <2> QED
    BY <2>1, FirstOf
<1>2. CASE Torn(<<>>, y)
  BY <1>2, NoneLeft DEF Quiet, Settled
<1>3. CASE Settled(y)
  BY <1>3
<1> QED
  BY <1>1, <1>2, <1>3 DEF CallAt

LEMMA EndsAre ==
    ASSUME NEW e \in Ends
    PROVE  /\ e \in Seq(Ops) /\ e # <<>>
           /\ \/ Head(e) = "closed" /\ Tail(e) = <<>>
              \/ Head(e) = "launchedFalse" /\ Tail(e) = <<"closed">>
<1>1. CASE e = <<"closed">>
  BY <1>1 DEF Ops, Callbacks
<1>2. CASE e = <<"launchedFalse", "closed">>
  BY <1>2 DEF Ops, Callbacks
<1> QED
  BY <1>1, <1>2 DEF Ends

LEMMA ProofFirst ==
    ASSUME NEW f \in Seq(Ops)
    PROVE  /\ <<"proof">> \o f # <<>> /\ Head(<<"proof">> \o f) = "proof"
           /\ Tail(<<"proof">> \o f) = f
<1> DEFINE p == <<"proof">>
<1>1. p \in Seq(Ops) /\ p # <<>> /\ Head(p) = "proof" /\ Tail(p) = <<>>
  BY DEF Ops
<1> HIDE DEF p
<1>2. p \o f # <<>> /\ Head(p \o f) = "proof" /\ Tail(p \o f) = <<>> \o f
  BY <1>1, FirstOf
<1> QED
  BY <1>2, ConcatEmptySeq DEF p

\* The next point of submitPin().
PinMoved(z, t, y, g) ==
    z \in Sender /\ (CallAt(t, z) \/ PinAt(t, z, g)) /\ Stays(z, y) /\ ~z.waitingForPin

\* What the callbacks of a submitPin() that fails find.
PinTells(c, t, y, g) ==
    /\ Quiet(y) /\ y.gen = g /\ ~y.waitingForPin
    /\ \/ c = "closed" /\ t = <<>>
       \/ c = "launchedFalse" /\ t = <<"closed">>

LEMMA PinEnds ==
    ASSUME NEW y \in Sender, NEW d \in Downs, NEW e \in Ends, NEW g, Torn(d, y),
           y.gen = g, ~y.waitingForPin
    PROVE  /\ d \o e \in Seq(Ops) /\ d \o e # <<>>
           /\ Head(d \o e) \notin Reads /\ Head(d \o e) \notin {"proof", "pairVerify"}
           /\ Head(d \o e) \notin Callbacks =>
                 PinMoved(Do(y, Head(d \o e)), Tail(d \o e), y, g)
           /\ Head(d \o e) \in Callbacks => PinTells(Head(d \o e), Tail(d \o e), y, g)
<1>1. /\ e \in Seq(Ops) /\ e # <<>>
      /\ \/ Head(e) = "closed" /\ Tail(e) = <<>>
         \/ Head(e) = "launchedFalse" /\ Tail(e) = <<"closed">>
  BY EndsAre
<1>2. d \in Seq(Ops)
  BY SeqMonotonic DEF Downs, DownOps, Ops
<1>3. /\ d \o e \in Seq(Ops)
      /\ d = <<>> => d \o e = e
      /\ d # <<>> => /\ d \o e # <<>> /\ Head(d \o e) = Head(d)
                     /\ Tail(d \o e) = Tail(d) \o e
  BY <1>1, <1>2, FirstOf
<1>4. CASE d # <<>>
  <2>1. Head(d) \in DownOps /\ Tail(d) \in Downs
    BY <1>4, DownsFirst
  <2>2. /\ Do(y, Head(d)) \in Sender /\ Kept(Do(y, Head(d)), y)
        /\ Torn(Tail(d), Do(y, Head(d)))
    BY <1>4, TornStep
  <2>3. PinAt(Tail(d) \o e, Do(y, Head(d)), g) /\ ~Do(y, Head(d)).waitingForPin
    BY <2>1, <2>2 DEF PinAt, Kept
  <2>4. Head(d) \notin Callbacks \cup Reads /\ Head(d) \notin {"proof", "pairVerify"}
    BY <2>1 DEF DownOps, Callbacks, Reads, Loop
  <2> QED
    BY <1>3, <1>4, <2>2, <2>3, <2>4, KeptStays DEF PinMoved
<1>5. CASE d = <<>>
  <2>1. d \o e = e /\ Quiet(y)
    BY <1>3, <1>5, NoneLeft
  <2>2. Head(e) \in Callbacks /\ Head(e) \notin Reads /\ Head(e) \notin {"proof", "pairVerify"}
    BY <1>1 DEF Callbacks, Reads, Loop
  <2> QED
    BY <1>1, <1>3, <2>1, <2>2 DEF PinTells
<1> QED
  BY <1>4, <1>5

LEMMA PinStatement ==
    ASSUME NEW y \in Sender, NEW t, NEW g, PinAt(t, y, g)
    PROVE  /\ t # <<>> /\ Head(t) \notin Reads /\ Head(t) # "pairVerify"
           /\ Head(t) = "proof" => y.waitingForPin
           /\ Head(t) \notin Callbacks => PinMoved(Do(y, Head(t)), Tail(t), y, g)
           /\ Head(t) \in Callbacks => PinTells(Head(t), Tail(t), y, g)
<1> DEFINE z == Do(y, "proof")
<1>1. /\ z \in Sender
      /\ z.gen = y.gen /\ z.rx = y.rx /\ z.late = y.late
      /\ z.ap2 = y.ap2 /\ ~z.waitingForPin
      /\ z.ctl = y.ctl /\ z.state = y.state
      /\ z.udp = y.udp /\ "timeout" \in z.watchdogs
  BY ProofDone
<1>2. Stays(z, y) /\ (Settled(y) => Settled(z))
  BY <1>1 DEF Stays, Same, PinHasAp2, Settled
<1>3. "proof" \notin Callbacks \cup Reads
  BY DEF Callbacks, Reads, Loop
<1> HIDE DEF z
<1>4. CASE t = <<"proof">> /\ Settled(y) /\ y.waitingForPin
  <2>1. Head(t) = "proof" /\ Tail(t) = <<>> /\ t # <<>>
    BY <1>4
  <2>2. CallAt(<<>>, z)
    BY <1>2, <1>4 DEF CallAt
  <2>3. PinMoved(z, Tail(t), y, g)
    BY <1>1, <1>2, <2>1, <2>2 DEF PinMoved
  <2> QED
    BY <1>3, <1>4, <2>1, <2>3 DEF z
<1>5. CASE \E d \in Downs, e \in Ends : /\ t = <<"proof">> \o (d \o e) /\ Torn(d, y)
                                         /\ Settled(y) /\ y.waitingForPin /\ y.gen = g
  <2>1. PICK d \in Downs, e \in Ends : /\ t = <<"proof">> \o (d \o e) /\ Torn(d, y)
                                       /\ Settled(y) /\ y.waitingForPin /\ y.gen = g
    BY <1>5
  <2>2. d \in Seq(Ops) /\ e \in Seq(Ops)
    BY <2>1, EndsAre, SeqMonotonic DEF Downs, DownOps, Ops
  <2>3. d \o e \in Seq(Ops)
    BY <2>2, ConcatProperties
  <2>4. t # <<>> /\ Head(t) = "proof" /\ Tail(t) = d \o e
    BY <2>1, <2>3, ProofFirst
  <2>5. Torn(d, z)
    BY <1>1, <2>1 DEF Torn
  <2>6. PinAt(d \o e, z, g)
    BY <1>1, <2>1, <2>5 DEF PinAt
  <2>7. PinMoved(z, Tail(t), y, g)
    BY <1>1, <1>2, <2>4, <2>6 DEF PinMoved
  <2> QED
    BY <1>3, <2>1, <2>4, <2>7 DEF z
<1>6. CASE \E d \in Downs, e \in Ends : /\ t = d \o e /\ Torn(d, y)
                                         /\ ~y.waitingForPin /\ y.gen = g
  BY <1>6, PinEnds
<1> QED
  BY <1>4, <1>5, <1>6 DEF PinAt
----------------------------------------------------------------------------
(* The calls of the event loop. *)

\* What the host is told is so.
IsSo(c, y, g) ==
    /\ c = "launchedTrue" => y.state = "Streaming" /\ y.gen = g
    /\ c = "closed" => (y.state = "Idle" /\ y.gen = g) \/ y.late = g
    /\ c = "pinRequired" => y.waitingForPin /\ y.state = "Pairing"
    /\ c = "launchedFalse" => y.state = "Idle"

LEMMA ToldAre ==
    ASSUME NEW e \in Told
    PROVE  /\ e \in Seq(Ops) /\ e # <<>>
           /\ \/ Head(e) = "closed" /\ Tail(e) \in Rest
              \/ Head(e) = "launchedFalse" /\ Tail(e) \in {<<"closed">>, <<"closed", Loop>>}
<1>1. CASE e = <<"closed">>
  BY <1>1 DEF Ops, Callbacks, Rest
<1>2. CASE e = <<"closed", Loop>>
  BY <1>2 DEF Ops, Callbacks, Rest, Loop
<1>3. CASE e = <<"launchedFalse", "closed">>
  BY <1>3 DEF Ops, Callbacks, Loop
<1>4. CASE e = <<"launchedFalse", "closed", Loop>>
  BY <1>4 DEF Ops, Callbacks, Loop
<1> QED
  BY <1>1, <1>2, <1>3, <1>4 DEF Told, Ends

LEMMA QuietIsSettled ==
    ASSUME NEW y, Quiet(y)
    PROVE  Settled(y)
  BY DEF Quiet, Settled

\* The next point of a call of the event loop.
Onward(t, y, g) ==
    /\ t # <<>>
    /\ Head(t) \in Callbacks => InCall(Head(t), Tail(t), y, g) /\ IsSo(Head(t), y, g)
    /\ Head(t) \notin Callbacks \cup Reads =>
          /\ Do(y, Head(t)) \in Sender /\ LoopAt(Tail(t), Do(y, Head(t)), g)
          /\ PinHasAp2(y) => PinHasAp2(Do(y, Head(t)))
    /\ Head(t) \in Reads => t = <<Loop>> \/ (t = <<"readNext">> /\ y.state # "Idle")
    /\ Head(t) \in Reads => Settled(y) /\ Same(y, g)
    /\ Head(t) = "pairVerify" => y.ap2
    /\ Head(t) # "proof"

\* The end of a session, as far as the host is told of it.
LEMMA LoopDowns ==
    ASSUME NEW y \in Sender, NEW d \in Downs, NEW e \in Told, NEW g, Torn(d, y), y.gen = g
    PROVE  d \o e \in Seq(Ops) /\ Onward(d \o e, y, g)
<1>1. /\ e \in Seq(Ops) /\ e # <<>>
      /\ \/ Head(e) = "closed" /\ Tail(e) \in Rest
         \/ Head(e) = "launchedFalse" /\ Tail(e) \in {<<"closed">>, <<"closed", Loop>>}
  BY ToldAre
<1>2. d \in Seq(Ops)
  BY SeqMonotonic DEF Downs, DownOps, Ops
<1>3. /\ d \o e \in Seq(Ops)
      /\ d = <<>> => d \o e = e
      /\ d # <<>> => /\ d \o e # <<>> /\ Head(d \o e) = Head(d)
                     /\ Tail(d \o e) = Tail(d) \o e
  BY <1>1, <1>2, FirstOf
<1>4. CASE d # <<>>
  <2>1. Head(d) \in DownOps /\ Tail(d) \in Downs
    BY <1>4, DownsFirst
  <2>2. /\ Do(y, Head(d)) \in Sender /\ Kept(Do(y, Head(d)), y)
        /\ Torn(Tail(d), Do(y, Head(d)))
    BY <1>4, TornStep
  <2>3. LoopAt(Tail(d) \o e, Do(y, Head(d)), g)
    BY <2>1, <2>2 DEF LoopAt, Kept
  <2>4. /\ Head(d) \notin Callbacks \cup Reads
        /\ Head(d) # "pairVerify" /\ Head(d) # "proof"
    BY <2>1 DEF DownOps, Callbacks, Reads, Loop
  <2> QED
    BY <1>3, <1>4, <2>2, <2>3, <2>4 DEF Onward, Kept, PinHasAp2
<1>5. CASE d = <<>>
  <2>1. d \o e = e /\ Quiet(y) /\ Settled(y)
    BY <1>3, <1>5, NoneLeft, QuietIsSettled
  <2>2. CASE Head(e) = "closed" /\ Tail(e) \in Rest
    <3>1. InCall(Head(e), Tail(e), y, g) /\ IsSo(Head(e), y, g)
      BY <2>1, <2>2 DEF InCall, LastCalls, Same, IsSo, Quiet
    <3> QED
      BY <1>1, <1>3, <2>1, <2>2, <3>1 DEF Onward, Callbacks, Reads, Loop
  <2>3. CASE Head(e) = "launchedFalse" /\ Tail(e) \in {<<"closed">>, <<"closed", Loop>>}
    <3>1. InCall(Head(e), Tail(e), y, g) /\ IsSo(Head(e), y, g)
      BY <2>1, <2>3 DEF InCall, IsSo, Quiet, ClosedNext
    <3> QED
      BY <1>1, <1>3, <2>1, <2>3, <3>1 DEF Onward, Callbacks, Reads, Loop
  <2> QED
    BY <1>1, <2>2, <2>3
<1> QED
  BY <1>4, <1>5

LEMMA LoopStatement ==
    ASSUME NEW y \in Sender, NEW t, NEW g, LoopAt(t, y, g)
    PROVE  Onward(t, y, g)
<1>1. CASE t = <<Loop>> /\ Settled(y) /\ Same(y, g)
  <2>1. Head(t) = Loop /\ t # <<>>
    BY <1>1
  <2> QED
    BY <1>1, <2>1 DEF Onward, Callbacks, Reads, Loop
<1>2. CASE t = <<"readNext">> /\ Settled(y) /\ Same(y, g) /\ y.state # "Idle"
  <2>1. Head(t) = "readNext" /\ t # <<>>
    BY <1>2
  <2> QED
    BY <1>2, <2>1 DEF Onward, Callbacks, Reads, Loop
<1>3. CASE /\ t = <<"waitForPin", "pinRequired", Loop>>
           /\ Settled(y) /\ y.gen = g /\ y.state = "Pairing"
  <2>1. Head(t) = "waitForPin" /\ Tail(t) = <<"pinRequired", Loop>> /\ t # <<>>
    BY <1>3
  <2> DEFINE z == Do(y, "waitForPin")
  <2>2. /\ z \in Sender /\ z.gen = y.gen /\ z.rx = y.rx
        /\ z.ap2 = y.ap2 /\ z.waitingForPin
        /\ z.ctl = y.ctl /\ z.state = y.state
        /\ z.udp = y.udp /\ "pinTimeout" \in z.watchdogs
    BY WaitDone
  <2>3. Settled(z) /\ PinHasAp2(z)
    BY <1>3, <2>2 DEF Settled, PinHasAp2
  <2>4. LoopAt(Tail(t), z, g)
    BY <1>3, <2>1, <2>2, <2>3 DEF LoopAt
  <2> QED
    BY <2>1, <2>2, <2>3, <2>4 DEF Onward, Callbacks, Reads, Loop
<1>4. CASE /\ t = <<"pinRequired", Loop>>
           /\ Settled(y) /\ y.gen = g /\ y.state = "Pairing" /\ y.waitingForPin
  <2>1. Head(t) = "pinRequired" /\ Tail(t) = <<Loop>> /\ t # <<>>
    BY <1>4
  <2>2. InCall("pinRequired", <<Loop>>, y, g) /\ IsSo("pinRequired", y, g)
    BY <1>4 DEF InCall, LastCalls, Rest, Same, IsSo
  <2> QED
    BY <2>1, <2>2 DEF Onward, Callbacks, Reads, Loop
<1>5. CASE /\ t = <<"credentialsObtained", "pairVerify", Loop>>
           /\ Settled(y) /\ y.gen = g /\ y.state = "Pairing" /\ ~y.waitingForPin
  <2>1. Head(t) = "credentialsObtained" /\ Tail(t) = <<"pairVerify", Loop>> /\ t # <<>>
    BY <1>5
  <2>2. y.ap2
    BY <1>5 DEF Settled
  <2>3. InCall("credentialsObtained", <<"pairVerify", Loop>>, y, g)
    BY <1>5, <2>2 DEF InCall
  <2>4. IsSo("credentialsObtained", y, g)
    BY DEF IsSo
  <2> QED
    BY <2>1, <2>3, <2>4 DEF Onward, Callbacks, Reads, Loop
<1>6. CASE t = <<"pairVerify", Loop>> /\ Settled(y) /\ y.gen = g /\ y.ap2
  <2>1. Head(t) = "pairVerify" /\ Tail(t) = <<Loop>> /\ t # <<>>
    BY <1>6
  <2> DEFINE z == Do(y, "pairVerify")
  <2>2. /\ z \in Sender /\ Kept(z, y)
        /\ z.ctl = y.ctl /\ z.state = y.state /\ z.udp = y.udp
        /\ z.watchdogs = y.watchdogs \cup {"timeout"}
    BY VerifyDone
  <2>3. Settled(z) /\ Same(z, g)
    BY <1>6, <2>2 DEF Settled, Kept, Same
  <2>4. LoopAt(Tail(t), z, g)
    BY <2>1, <2>3 DEF LoopAt
  <2> QED
    BY <1>6, <2>1, <2>2, <2>4 DEF Onward, Callbacks, Reads, Loop, Kept, PinHasAp2
<1>7. CASE /\ t = <<"streaming", "launchedTrue", Loop>>
           /\ Settled(y) /\ y.gen = g /\ y.state # "Idle" /\ y.ctl = "open" /\ ~y.waitingForPin
  <2>1. Head(t) = "streaming" /\ Tail(t) = <<"launchedTrue", Loop>> /\ t # <<>>
    BY <1>7
  <2> DEFINE z == Do(y, "streaming")
  <2>2. /\ z \in Sender /\ Kept(z, y)
        /\ z.ctl = y.ctl /\ z.state = "Streaming" /\ z.udp = y.udp
    BY StreamingDone
  <2>3. Settled(z)
    BY <1>7, <2>2 DEF Settled, Kept, Starting
  <2>4. LoopAt(Tail(t), z, g)
    BY <1>7, <2>1, <2>2, <2>3 DEF LoopAt, Kept
  <2> QED
    BY <2>1, <2>2, <2>4 DEF Onward, Callbacks, Reads, Loop, Kept, PinHasAp2
<1>8. CASE t = <<"launchedTrue", Loop>> /\ Settled(y) /\ y.gen = g /\ y.state = "Streaming"
  <2>1. Head(t) = "launchedTrue" /\ Tail(t) = <<Loop>> /\ t # <<>>
    BY <1>8
  <2>2. InCall("launchedTrue", <<Loop>>, y, g) /\ IsSo("launchedTrue", y, g)
    BY <1>8 DEF InCall, LastCalls, Rest, Same, IsSo
  <2> QED
    BY <2>1, <2>2 DEF Onward, Callbacks, Reads, Loop
<1>9. CASE \E d \in Downs, e \in Told : t = d \o e /\ Torn(d, y) /\ y.gen = g
  BY <1>9, LoopDowns
<1>10. CASE t \in ClosedNext /\ Settled(y) /\ Same(y, g) /\ y.late = g
  <2>1. Head(t) = "closed" /\ Tail(t) \in Rest /\ t # <<>>
    <3>1. CASE t = <<"closed">>
      BY <3>1 DEF Rest
    <3>2. CASE t = <<"closed", Loop>>
      BY <3>2 DEF Rest
    <3> QED
      BY <1>10, <3>1, <3>2 DEF ClosedNext
  <2>2. InCall("closed", Tail(t), y, g) /\ IsSo("closed", y, g)
    BY <1>10, <2>1 DEF InCall, LastCalls, IsSo
  <2> QED
    BY <2>1, <2>2 DEF Onward, Callbacks, Reads, Loop
<1> QED
  BY <1>1, <1>2, <1>3, <1>4, <1>5, <1>6, <1>7, <1>8, <1>9, <1>10 DEF LoopAt

\* A callback returns to a point of the program.
LEMMA Returned ==
    ASSUME NEW y \in Sender, NEW c, NEW t, NEW g, InCall(c, t, y, g)
    PROVE  CallAt(t, y) \/ LoopAt(t, y, g)
<1>1. CASE c = "launchedFalse" /\ Quiet(y) /\ t = <<>>
  BY <1>1, QuietIsSettled DEF CallAt
<1>2. CASE Quiet(y) /\ t \in ClosedNext /\ y.gen = g
  <2>1. <<>> \in Downs /\ Torn(<<>>, y) /\ t \in Told
    BY <1>2, NoneLeft DEF Told, Ends, ClosedNext
  <2>2. t \in Seq(Ops)
    BY <2>1, ToldAre
  <2>3. t = <<>> \o t
    BY <2>2, ConcatEmptySeq
  <2> QED
    BY <1>2, <2>1, <2>3 DEF LoopAt
<1>3. CASE t \in Rest /\ Settled(y) /\ Same(y, g)
  BY <1>3 DEF Rest, CallAt, LoopAt
<1>4. CASE t = <<"pairVerify", Loop>> /\ Settled(y) /\ y.gen = g /\ y.ap2
  BY <1>4 DEF LoopAt
<1>5. CASE t \in ClosedNext /\ Settled(y) /\ Same(y, g) /\ y.late = g
  BY <1>5 DEF LoopAt
<1> QED
  BY <1>1, <1>2, <1>3, <1>4, <1>5 DEF InCall
----------------------------------------------------------------------------
(* The functions as programs: the end of a session and what is told of it. *)

Whole(d) == d \in Downs /\ Has(d, "idle") /\ Has(d, "closeControl") /\ Has(d, "release")

LEMMA WholeAre ==
    /\ Whole(<<"idle", "stopTimers", "closeControl", "release">>)
    /\ Whole(<<"closeControl", "idle", "stopTimers", "release">>)
    /\ Whole(<<"stopTimers", "idle", "closeControl", "release">>)
<1>1. Whole(<<"idle", "stopTimers", "closeControl", "release">>)
  <2> DEFINE d == <<"idle", "stopTimers", "closeControl", "release">>
  <2>1. /\ d \in Seq(DownOps) /\ Len(d) = 4
        /\ d[1] = "idle" /\ d[3] = "closeControl" /\ d[4] = "release"
    BY DEF DownOps
  <2> HIDE DEF d
  <2>2. Whole(d)
    BY <2>1 DEF Whole, Downs, Has
  <2> QED
    BY <2>2 DEF d
<1>2. Whole(<<"closeControl", "idle", "stopTimers", "release">>)
  <2> DEFINE d == <<"closeControl", "idle", "stopTimers", "release">>
  <2>1. /\ d \in Seq(DownOps) /\ Len(d) = 4
        /\ d[2] = "idle" /\ d[1] = "closeControl" /\ d[4] = "release"
    BY DEF DownOps
  <2> HIDE DEF d
  <2>2. Whole(d)
    BY <2>1 DEF Whole, Downs, Has
  <2> QED
    BY <2>2 DEF d
<1>3. Whole(<<"stopTimers", "idle", "closeControl", "release">>)
  <2> DEFINE d == <<"stopTimers", "idle", "closeControl", "release">>
  <2>1. /\ d \in Seq(DownOps) /\ Len(d) = 4
        /\ d[2] = "idle" /\ d[3] = "closeControl" /\ d[4] = "release"
    BY DEF DownOps
  <2> HIDE DEF d
  <2>2. Whole(d)
    BY <2>1 DEF Whole, Downs, Has
  <2> QED
    BY <2>2 DEF d
<1> QED
  BY <1>1, <1>2, <1>3

LEMMA Ending ==
    ASSUME NEW d \in Downs, NEW m \in {<<>>, <<"launchedFalse">>}
    PROVE  /\ (d \o m) \o <<"closed">> \in Seq(Ops)
           /\ \E e \in Ends : (d \o m) \o <<"closed">> = d \o e
           /\ \E e \in Told : ((d \o m) \o <<"closed">>) \o <<Loop>> = d \o e
<1>1. /\ d \in Seq(Ops) /\ m \in Seq(Ops) /\ <<"closed">> \in Seq(Ops) /\ <<Loop>> \in Seq(Ops)
      /\ "closed" \in Ops /\ "launchedFalse" \in Ops /\ Loop \in Ops
  <2>1. d \in Seq(Ops)
    BY SeqMonotonic DEF Downs, DownOps, Ops
  <2>2. "closed" \in Ops /\ "launchedFalse" \in Ops /\ Loop \in Ops
    BY DEF Ops, Callbacks, Loop
  <2>3. <<>> \in Seq(Ops) /\ <<"launchedFalse">> \in Seq(Ops)
    BY <2>2
  <2>4. m \in Seq(Ops)
    BY <2>3, Zenon
  <2>5. <<"closed">> \in Seq(Ops) /\ <<Loop>> \in Seq(Ops)
    BY <2>2
  <2> QED
    BY <2>1, <2>2, <2>4, <2>5, Zenon
<1> DEFINE e0 == m \o <<"closed">>
           e1 == e0 \o <<Loop>>
<1>2. e0 \in Seq(Ops) /\ (d \o m) \o <<"closed">> = d \o e0
  BY <1>1, ConcatProperties, ConcatAssociative
<1>3. (d \o e0) \o <<Loop>> = d \o e1 /\ d \o e0 \in Seq(Ops)
  <2> HIDE DEF e0
  <2> QED
    BY <1>1, <1>2, ConcatProperties, ConcatAssociative
<1>4. CASE m = <<>>
  <2>1. e0 = <<"closed">>
    BY <1>1, <1>4, ConcatEmptySeq
  <2>2. e1 = <<"closed", Loop>>
    BY <1>1, <2>1, JoinedTwo, Zenon
  <2>3. e0 \in Ends /\ e1 \in Told
    BY <2>1, <2>2 DEF Told, Ends
  <2> QED
    BY <1>2, <1>3, <2>3
<1>5. CASE m = <<"launchedFalse">>
  <2>1. e0 = <<"launchedFalse", "closed">>
    BY <1>1, <1>5, JoinedTwo, Zenon
  <2>2. e1 = <<"launchedFalse", "closed", Loop>>
    BY <1>1, <2>1, JoinedThree, Zenon
  <2>3. e0 \in Ends /\ e1 \in Told
    BY <2>1, <2>2 DEF Told, Ends
  <2> QED
    BY <1>2, <1>3, <2>3
<1> QED
  BY <1>4, <1>5

LEMMA FailProgram ==
    ASSUME NEW y, NEW z, NEW g, z.gen = g
    PROVE  /\ fail_(y) \in Seq(Ops) /\ LoopAt(fail_(y), z, g)
           /\ fail_(y) \o <<Loop>> \in Seq(Ops) /\ LoopAt(fail_(y) \o <<Loop>>, z, g)
           /\ \E d \in Downs, e \in Ends : fail_(y) = d \o e /\ Torn(d, z)
<1> DEFINE d == <<"idle", "stopTimers", "closeControl", "release">>
           m == IF y.state # "Streaming" THEN <<"launchedFalse">> ELSE <<>>
<1>1. d \in Downs /\ Torn(d, z)
  BY WholeAre DEF Whole, Torn
<1>2. fail_(y) = (d \o m) \o <<"closed">> /\ m \in {<<>>, <<"launchedFalse">>}
  BY DEF fail_
<1> HIDE DEF d, m
<1>3. /\ fail_(y) \in Seq(Ops)
      /\ \E e \in Ends : fail_(y) = d \o e
      /\ \E e \in Told : fail_(y) \o <<Loop>> = d \o e
  BY <1>1, <1>2, Ending
<1>4. <<Loop>> \in Seq(Ops)
  BY DEF Loop, Ops
<1> QED
  BY <1>1, <1>3, <1>4, ConcatProperties DEF LoopAt, Told

LEMMA ClosedProgram ==
    ASSUME NEW y, NEW z, NEW g, z.gen = g
    PROVE  closedByPeer(y) \in Seq(Ops) /\ LoopAt(closedByPeer(y), z, g)
<1> DEFINE d == <<"closeControl", "idle", "stopTimers", "release">>
           m == IF y.state # "Streaming" THEN <<"launchedFalse">> ELSE <<>>
<1>1. d \in Downs /\ Torn(d, z)
  BY WholeAre DEF Whole, Torn
<1>2. closedByPeer(y) = (d \o m) \o <<"closed">> /\ m \in {<<>>, <<"launchedFalse">>}
  BY DEF closedByPeer
<1> HIDE DEF d, m
<1>3. /\ closedByPeer(y) \in Seq(Ops)
      /\ \E e \in Ends : closedByPeer(y) = d \o e
  BY <1>1, <1>2, Ending
<1> QED
  BY <1>1, <1>3 DEF LoopAt, Told

LEMMA StopProgram ==
    ASSUME NEW y, Settled(y)
    PROVE  stop(y) \in Downs /\ Torn(stop(y), y) /\ stop(y) \in Seq(Ops)
<1>1. CASE y.state = "Idle"
  <2>1. stop(y) = <<>> /\ Quiet(y)
    BY <1>1 DEF stop, Settled, Quiet
  <2> QED
    BY <2>1, NoneLeft, EmptySeq
<1>2. CASE y.state # "Idle"
  <2>1. Whole(stop(y))
    BY <1>2, WholeAre DEF stop
  <2>2. stop(y) \in Downs /\ Torn(stop(y), y)
    BY <2>1 DEF Whole, Torn
  <2>3. stop(y) \in Seq(Ops)
    BY <2>2, SeqMonotonic DEF Downs, DownOps, Ops
  <2> QED
    BY <2>2, <2>3
<1> QED
  BY <1>1, <1>2

LEMMA StartProgram ==
    ASSUME NEW y, NEW ok \in BOOLEAN, Settled(y), y.gen < MaxGen
    PROVE  start(y, ok) \in Seq(Ops) /\ CallAt(start(y, ok), y)
<1> DEFINE r == <<"reset", "bind">>
           u == IF ok THEN <<"connecting", "connect">> ELSE <<"release", "launchedFalse">>
<1>1. start(y, ok) = (stop(y) \o r) \o u
  BY DEF start
<1>2. stop(y) \in Downs /\ Torn(stop(y), y) /\ stop(y) \in Seq(Ops)
  BY StopProgram
<1>3. r \in Seq(Ops) /\ u \in Seq(Ops)
  <2>1. /\ r \in Seq(Ops) /\ <<"connecting", "connect">> \in Seq(Ops)
        /\ <<"release", "launchedFalse">> \in Seq(Ops)
    BY DEF Ops, Callbacks
  <2> QED
    BY <2>1
<1>4. start(y, ok) = stop(y) \o (r \o u)
  <2> HIDE DEF r, u
  <2> QED
    BY <1>1, <1>2, <1>3, ConcatAssociative
<1>5. r \o u \in Begins
  <2>1. /\ "reset" \in Ops /\ "bind" \in Ops /\ "connecting" \in Ops
        /\ "connect" \in Ops /\ "release" \in Ops /\ "launchedFalse" \in Ops
    BY DEF Ops, Callbacks
  <2>2. <<"reset", "bind">> \o <<"connecting", "connect">>
             = <<"reset", "bind", "connecting", "connect">>
    BY <2>1, JoinedFour, Zenon
  <2>3. <<"reset", "bind">> \o <<"release", "launchedFalse">>
             = <<"reset", "bind", "release", "launchedFalse">>
    BY <2>1, JoinedFour, Zenon
  <2> QED
    BY <2>2, <2>3 DEF Begins
<1>6. start(y, ok) \in Seq(Ops)
  <2> HIDE DEF r, u
  <2> QED
    BY <1>2, <1>3, <1>4, ConcatProperties
<1> HIDE DEF r, u
<1> QED
  BY <1>2, <1>4, <1>5, <1>6 DEF CallAt

LEMMA PinProgram ==
    ASSUME NEW y, NEW z, NEW ok \in BOOLEAN, Settled(z), z.waitingForPin,
           y.waitingForPin
    PROVE  /\ submitPin(y, ok) \in Seq(Ops) /\ PinAt(submitPin(y, ok), z, z.gen)
           /\ submitPin(y, ok) # <<>> /\ Head(submitPin(y, ok)) = "proof"
<1> DEFINE p == <<"proof">>
<1>1. p \in Seq(Ops) /\ p # <<>> /\ Head(p) = "proof"
  BY DEF Ops
<1>2. CASE ok
  <2>1. submitPin(y, ok) = p
    <3>1. submitPin(y, ok) = p \o <<>>
      BY <1>2 DEF submitPin
    <3> HIDE DEF p
    <3> QED
      BY <1>1, <3>1, ConcatEmptySeq
  <2>2. PinAt(p, z, z.gen)
    BY DEF PinAt
  <2> HIDE DEF p
  <2> QED
    BY <1>1, <2>1, <2>2, Zenon
<1>3. CASE ~ok
  <2>1. submitPin(y, ok) = p \o fail_(y)
    BY <1>3 DEF submitPin
  <2>2. /\ fail_(y) \in Seq(Ops)
        /\ \E d \in Downs, e \in Ends : fail_(y) = d \o e /\ Torn(d, z)
    BY FailProgram
  <2>3. PICK d \in Downs, e \in Ends : fail_(y) = d \o e /\ Torn(d, z)
    BY <2>2
  <2>4. p \o fail_(y) = p \o (d \o e)
    BY <2>3, Zenon
  <2>5. PinAt(p \o (d \o e), z, z.gen)
    BY <2>3 DEF PinAt
  <2>6. PinAt(submitPin(y, ok), z, z.gen)
    BY <2>1, <2>4, <2>5, Zenon
  <2>7. p \o fail_(y) # <<>> /\ Head(p \o fail_(y)) = "proof" /\ p \o fail_(y) \in Seq(Ops)
    BY <1>1, <2>2, ProofFirst, ConcatProperties
  <2> QED
    BY <2>1, <2>6, <2>7, Zenon
<1> QED
  BY <1>2, <1>3

\* The handlers of a reply, dispatched in the session the call began in.
LEMMA HandlerPrograms ==
    ASSUME NEW y, NEW z \in Sender, NEW g, NEW h \in Handlers(y),
           Settled(z), z.gen = g, z.state = y.state, z.state # "Idle",
           z.waitingForPin = y.waitingForPin
    PROVE  h \o <<Loop>> \in Seq(Ops) /\ LoopAt(h \o <<Loop>>, z, g)
<1>1. /\ "waitForPin" \in Ops /\ "pinRequired" \in Ops /\ "credentialsObtained" \in Ops
      /\ "pairVerify" \in Ops /\ "streaming" \in Ops /\ "launchedTrue" \in Ops /\ Loop \in Ops
  BY DEF Ops, Callbacks, Loop
<1>2. CASE h = <<>>
  <2>1. h \o <<Loop>> = <<Loop>> /\ <<Loop>> \in Seq(Ops)
    BY <1>1, <1>2, ConcatEmptySeq
  <2> QED
    BY <2>1 DEF LoopAt, Same
<1>3. CASE h = fail_(y)
  BY <1>3, FailProgram
<1>4. CASE h = handlePairSetupM2_ /\ y.state = "Pairing" /\ ~y.waitingForPin
  <2>1. h \o <<Loop>> = <<"waitForPin", "pinRequired", Loop>>
    BY <1>1, <1>4, JoinedThree, Zenon DEF handlePairSetupM2_
  <2>2. <<"waitForPin", "pinRequired", Loop>> \in Seq(Ops)
    BY <1>1
  <2> QED
    BY <1>4, <2>1, <2>2 DEF LoopAt
<1>5. CASE h = handlePairSetupM6_ /\ y.state = "Pairing" /\ ~y.waitingForPin
  <2>1. h \o <<Loop>> = <<"credentialsObtained", "pairVerify", Loop>>
    BY <1>1, <1>5, JoinedThree, Zenon DEF handlePairSetupM6_
  <2>2. <<"credentialsObtained", "pairVerify", Loop>> \in Seq(Ops)
    BY <1>1
  <2> QED
    BY <1>5, <2>1, <2>2 DEF LoopAt
<1>6. CASE h = startStreaming_ /\ y.state \in {"Pairing", "Handshake"} /\ ~y.waitingForPin
  <2>1. h \o <<Loop>> = <<"streaming", "launchedTrue", Loop>>
    BY <1>1, <1>6, JoinedThree, Zenon DEF startStreaming_
  <2>2. <<"streaming", "launchedTrue", Loop>> \in Seq(Ops)
    BY <1>1
  <2>3. z.ctl = "open"
    BY <1>6 DEF Settled, Sender
  <2> QED
    BY <1>6, <2>1, <2>2, <2>3 DEF LoopAt
<1> QED
  BY <1>2, <1>3, <1>4, <1>5, <1>6 DEF Handlers

----------------------------------------------------------------------------
(* The stack. *)

Ins == Callbacks \cup {"none"}

Replaced(st, t, c) == [st EXCEPT ![1].todo = t, ![1].in = c]

Pushed(st, t, g) == <<[todo |-> t, in |-> "none", gen |-> g]>> \o st

TopNow(r, st, t, c) ==
    /\ r \in Seq(Call) /\ Depth(r) = Depth(st)
    /\ r[1].todo = t /\ r[1].in = c /\ r[1].gen = st[1].gen
    /\ Depth(st) >= 2 => r[2] = st[2]
    /\ Depth(st) = 3 => r[3] = st[3]

LEMMA ReplaceTop ==
    ASSUME NEW st \in Seq(Call), st # <<>>, NEW t \in Seq(Ops), NEW c \in Ins, NEW r,
           r = Replaced(st, t, c)
    PROVE  TopNow(r, st, t, c)
<1>1. Len(st) \in Nat \ {0} /\ 1 \in 1 .. Len(st) /\ DOMAIN st = 1 .. Len(st)
  BY EmptySeq, LenProperties
<1>2. st[1] \in Call
  BY <1>1, ElementOfSeq
<1> DEFINE e == [st[1] EXCEPT !.todo = t, !.in = c]
<1>3. e \in Call /\ e.todo = t /\ e.in = c /\ e.gen = st[1].gen
  BY <1>2 DEF Call, Ins
<1>4. r = [st EXCEPT ![1] = e]
  BY <1>1 DEF Replaced
<1> HIDE DEF e
<1>5. /\ r \in Seq(Call) /\ Len(r) = Len(st)
      /\ \A j \in 1 .. Len(st) : r[j] = IF j = 1 THEN e ELSE st[j]
  <2>1. /\ [st EXCEPT ![1] = e] \in Seq(Call)
        /\ Len([st EXCEPT ![1] = e]) = Len(st)
        /\ \A j \in 1 .. Len(st) : [st EXCEPT ![1] = e][j] = IF j = 1 THEN e ELSE st[j]
    BY <1>1, <1>3, ExceptSeq, Zenon
  <2> QED
    BY <1>4, <2>1, Zenon
<1>6. /\ r \in Seq(Call) /\ Len(r) = Len(st)
      /\ r[1].todo = t /\ r[1].in = c /\ r[1].gen = st[1].gen
      /\ Len(st) >= 2 => r[2] = st[2]
      /\ Len(st) = 3 => r[3] = st[3]
  BY <1>1, <1>3, <1>5
<1> QED
  BY <1>6 DEF Depth, TopNow

TopNew(r, st, t, g) ==
    /\ r \in Seq(Call) /\ Depth(r) = Depth(st) + 1
    /\ r[1].todo = t /\ r[1].in = "none" /\ r[1].gen = g
    /\ Depth(st) >= 1 => r[2] = st[1]
    /\ Depth(st) = 2 => r[3] = st[2]

LEMMA PushTop ==
    ASSUME NEW st \in Seq(Call), NEW t \in Seq(Ops), NEW g \in 0 .. MaxGen, NEW r,
           r = Pushed(st, t, g)
    PROVE  TopNew(r, st, t, g)
<1> DEFINE e == [todo |-> t, in |-> "none", gen |-> g]
<1>1. e \in Call /\ e.todo = t /\ e.in = "none" /\ e.gen = g
  BY DEF Call
<1>2. r = <<e>> \o st
  BY DEF Pushed
<1> HIDE DEF e
<1>3. <<e>> \in Seq(Call) /\ Len(<<e>>) = 1 /\ <<e>>[1] = e /\ Len(st) \in Nat
  BY <1>1, LenProperties
<1>4. /\ r \in Seq(Call) /\ Len(r) = 1 + Len(st)
      /\ \A i \in 1 .. (1 + Len(st)) : r[i] = IF i <= 1 THEN <<e>>[i] ELSE st[i - 1]
  BY <1>2, <1>3, ConcatProperties
<1>5. /\ r \in Seq(Call) /\ Len(r) = Len(st) + 1
      /\ r[1].todo = t /\ r[1].in = "none" /\ r[1].gen = g
      /\ Len(st) >= 1 => r[2] = st[1]
      /\ Len(st) = 2 => r[3] = st[2]
  BY <1>1, <1>3, <1>4
<1> QED
  BY <1>5 DEF Depth, TopNew

LEMMA PopTop ==
    ASSUME NEW st \in Seq(Call), st # <<>>, NEW r, r = Tail(st)
    PROVE  /\ r \in Seq(Call) /\ Depth(r) = Depth(st) - 1
           /\ Depth(st) >= 2 => r[1] = st[2]
           /\ Depth(st) = 3 => r[2] = st[3]
<1>1. Len(st) \in Nat \ {0}
  BY EmptySeq
<1>2. /\ r \in Seq(Call) /\ Len(r) = Len(st) - 1
      /\ Len(st) >= 2 => r[1] = st[2]
      /\ Len(st) = 3 => r[2] = st[3]
  BY <1>1, HeadTailProperties
<1> QED
  BY <1>2 DEF Depth

\* The innermost call.
LEMMA TopIs ==
    ASSUME NEW st \in Seq(Call), st # <<>>
    PROVE  /\ Head(st) = st[1] /\ st[1] \in Call
           /\ st[1].todo \in Seq(Ops) /\ st[1].in \in Ins /\ st[1].gen \in 0 .. MaxGen
           /\ Depth(st) \in Nat \ {0}
<1>1. Len(st) \in Nat \ {0}
  BY EmptySeq
<1>2. st[1] \in Call
  BY <1>1, ElementOfSeq
<1>3. /\ Head(st) = st[1] /\ st[1] \in Call
      /\ st[1].todo \in Seq(Ops) /\ st[1].in \in Ins /\ st[1].gen \in 0 .. MaxGen
      /\ Len(st) \in Nat \ {0}
  BY <1>1, <1>2 DEF Call, Ins
<1> QED
  BY <1>3 DEF Depth

----------------------------------------------------------------------------
(* Steps of the innermost call. *)

LEMMA Inside == \A t, y, g : ~InCall("none", t, y, g)
  BY DEF InCall, LastCalls

\* Where a call that is not inside a callback is.
LEMMA At ==
    ASSUME NEW st \in Seq(Call), NEW y, Stacked(st, y), Depth(st) \in Nat \ {0}, st[1].in = "none"
    PROVE  \/ Depth(st) = 1 /\ (CallAt(st[1].todo, y) \/ PinAt(st[1].todo, y, st[1].gen))
           \/ Depth(st) = 1 /\ LoopAt(st[1].todo, y, st[1].gen)
           \/ /\ Depth(st) = 2 /\ Below(st[2], st[1], y)
              /\ CallAt(st[1].todo, y) \/ PinAt(st[1].todo, y, st[1].gen)
           \/ Depth(st) = 3 /\ CallAt(st[1].todo, y) /\ Beneath(st[3], st[2], y)
<1>0. Depth(st) <= 3
  BY DEF Stacked
<1>1. Depth(st) = 1 \/ Depth(st) = 2 \/ Depth(st) = 3
  BY <1>0
<1>2. CASE Depth(st) = 1
  <2>1. Alone(st[1], y)
    BY <1>2 DEF Stacked
  <2> QED
    BY <1>2, <2>1, Inside DEF Alone
<1>3. CASE Depth(st) = 2
  <2>1. Only(st[1], y) /\ Below(st[2], st[1], y)
    BY <1>3 DEF Stacked
  <2> QED
    BY <1>3, <2>1 DEF Only
<1>4. CASE Depth(st) = 3
  <2>1. Inmost(st[1], y) /\ Beneath(st[3], st[2], y)
    BY <1>4 DEF Stacked
  <2> QED
    BY <1>4, <2>1 DEF Inmost
<1> QED
  BY <1>1, <1>2, <1>3, <1>4

\* A call that was put back at a point of a program.
LEMMA StackedAlone ==
    ASSUME NEW r, NEW z, Depth(r) = 1, Alone(r[1], z)
    PROVE  Stacked(r, z)
  BY DEF Stacked

LEMMA StackedNested ==
    ASSUME NEW r, NEW z, Depth(r) = 2, Only(r[1], z), Below(r[2], r[1], z)
    PROVE  Stacked(r, z)
  BY DEF Stacked

LEMMA StackedDeep ==
    ASSUME NEW r, NEW z, Depth(r) = 3, Inmost(r[1], z), Beneath(r[3], r[2], z)
    PROVE  Stacked(r, z)
  BY DEF Stacked

\* What a statement of the host's call leaves of what waits below it.
LEMMA BelowStays ==
    ASSUME NEW b, NEW h, NEW k, NEW y, NEW z, Below(b, h, y), Stays(z, y),
           ~z.waitingForPin, h.in = "none" => h.todo \notin Downs
    PROVE  Below(b, k, z)
  BY DEF Below, Stays

LEMMA BelowDown ==
    ASSUME NEW b, NEW h, NEW k, NEW y \in Sender, NEW z, Below(b, h, y),
           h.in = "none", h.todo \in Downs, h.todo # <<>>, Torn(h.todo, y),
           z = Do(y, Head(h.todo)), k.in = "none", k.todo = Tail(h.todo)
    PROVE  Below(b, k, z)
<1>1. /\ Kept(z, y) /\ Stays(z, y) /\ Torn(k.todo, z) /\ k.todo \in Downs
      /\ Head(h.todo) # "proof"
  BY TornStep, KeptStays, DownsFirst DEF DownOps
<1>2. CASE b.in \in LastCalls /\ b.todo \in Rest /\ Same(y, b.gen)
  BY <1>1, <1>2 DEF Below, Stays
<1>3. CASE /\ b.in = "launchedFalse" /\ b.todo \in ClosedNext /\ y.late = b.gen
           /\ Same(y, b.gen) /\ (y.waitingForPin => AtProof(h))
  BY <1>1, <1>3 DEF Below, Stays, AtProof
<1>4. CASE /\ b.in = "credentialsObtained" /\ b.todo = <<"pairVerify", Loop>>
           /\ y.gen = b.gen /\ y.ap2 /\ ~y.waitingForPin
  BY <1>1, <1>4 DEF Below, Kept
<1> QED
  BY <1>2, <1>3, <1>4 DEF Below

\* A statement of a call of the host that is nested in a callback.
LEMMA BelowStatement ==
    ASSUME NEW b, NEW h, NEW k, NEW y \in Sender, NEW z, Below(b, h, y),
           h.in = "none", h.todo # <<>>, Head(h.todo) \notin Callbacks,
           CallAt(h.todo, y) \/ PinAt(h.todo, y, h.gen),
           z = Do(y, Head(h.todo)), k.in = "none", k.todo = Tail(h.todo)
    PROVE  Below(b, k, z)
<1>1. CASE PinAt(h.todo, y, h.gen)
  <2>1. Stays(z, y) /\ ~z.waitingForPin
    BY <1>1, PinStatement DEF PinMoved
  <2>2. CASE b.in = "credentialsObtained"
    <3>1. h.todo \in Downs /\ Torn(h.todo, y)
      BY <2>2 DEF Below, LastCalls
    <3> QED
      BY <3>1, BelowDown
  <2>3. CASE b.in # "credentialsObtained"
    BY <2>1, <2>3 DEF Below, Stays
  <2> QED
    BY <2>2, <2>3
<1>2. CASE CallAt(h.todo, y)
  <2>1. Stays(z, y) /\ Head(h.todo) # "proof"
    BY <1>2, CallStatement DEF Moved
  <2>2. CASE b.in = "credentialsObtained"
    <3>1. h.todo \in Downs /\ Torn(h.todo, y)
      BY <2>2 DEF Below, LastCalls
    <3> QED
      BY <3>1, BelowDown
  <2>3. CASE b.in # "credentialsObtained"
    BY <2>1, <2>3 DEF Below, Stays, AtProof
  <2> QED
    BY <2>2, <2>3
<1> QED
  BY <1>1, <1>2

LEMMA StatementStep ==
    ASSUME NEW st \in Seq(Call), st # <<>>, NEW y \in Sender, Stacked(st, y), PinHasAp2(y),
           st[1].in = "none", st[1].todo # <<>>,
           Head(st[1].todo) \notin Callbacks \cup Reads,
           NEW r, r = Replaced(st, Tail(st[1].todo), "none"),
           NEW z, z = Do(y, Head(st[1].todo))
    PROVE  /\ z \in Sender /\ PinHasAp2(z)
           /\ r \in Seq(Call) /\ Depth(r) = Depth(st) /\ Stacked(r, z)
<1> DEFINE t == st[1].todo
           g == st[1].gen
<1>1. t \in Seq(Ops) /\ Depth(st) \in Nat \ {0} /\ Tail(t) \in Seq(Ops) /\ "none" \in Ins
  BY TopIs, HeadTailProperties DEF Ins
<1>2. /\ r \in Seq(Call) /\ Depth(r) = Depth(st)
      /\ r[1].todo = Tail(t) /\ r[1].in = "none" /\ r[1].gen = g
      /\ Depth(st) >= 2 => r[2] = st[2]
      /\ Depth(st) = 3 => r[3] = st[3]
  <2>1. TopNow(r, st, Tail(t), "none")
    BY <1>1, ReplaceTop, Zenon
  <2> QED
    BY <2>1 DEF TopNow
<1>3. CallAt(t, y) => Moved(z, Tail(t), y)
  BY CallStatement
<1>4. PinAt(t, y, g) => PinMoved(z, Tail(t), y, g)
  BY PinStatement
<1>5. CallAt(t, y) \/ PinAt(t, y, g) =>
         /\ z \in Sender /\ PinHasAp2(z) /\ Stays(z, y)
         /\ CallAt(Tail(t), z) \/ PinAt(Tail(t), z, g)
  BY <1>3, <1>4 DEF Moved, PinMoved, Stays
<1>6. CASE Depth(st) = 1 /\ (CallAt(t, y) \/ PinAt(t, y, g))
  <2>1. Alone(r[1], z)
    BY <1>2, <1>5, <1>6 DEF Alone
  <2> QED
    BY <1>2, <1>5, <1>6, <2>1, StackedAlone
<1>7. CASE Depth(st) = 1 /\ LoopAt(t, y, g)
  <2>1. Onward(t, y, g)
    BY <1>7, LoopStatement
  <2>2. z \in Sender /\ PinHasAp2(z) /\ LoopAt(Tail(t), z, g)
    BY <2>1 DEF Onward
  <2>3. Alone(r[1], z)
    BY <1>2, <2>2 DEF Alone
  <2> QED
    BY <1>2, <1>7, <2>2, <2>3, StackedAlone
<1>8. CASE /\ Depth(st) = 2 /\ Below(st[2], st[1], y)
           /\ CallAt(t, y) \/ PinAt(t, y, g)
  <2>1. Below(st[2], r[1], z)
    BY <1>2, <1>8, BelowStatement
  <2>2. r[2] = st[2] /\ Depth(r) = 2
    BY <1>2, <1>8
  <2>3. Only(r[1], z)
    BY <1>2, <1>5, <1>8 DEF Only
  <2>4. Below(r[2], r[1], z)
    BY <2>1, <2>2, Zenon
  <2> QED
    BY <1>2, <1>5, <1>8, <2>2, <2>3, <2>4, StackedNested
<1>9. CASE Depth(st) = 3 /\ CallAt(t, y) /\ Beneath(st[3], st[2], y)
  <2>1. Stays(z, y) /\ CallAt(Tail(t), z)
    BY <1>3, <1>9 DEF Moved
  <2>2. ~z.waitingForPin /\ Below(st[3], st[2], z)
    BY <1>9, <2>1, BelowStays DEF Beneath, Stays
  <2>3. Beneath(st[3], st[2], z)
    BY <1>9, <2>2 DEF Beneath
  <2>4. r[2] = st[2] /\ r[3] = st[3] /\ Depth(r) = 3
    BY <1>2, <1>9
  <2>5. Beneath(r[3], r[2], z)
    BY <2>3, <2>4, Zenon
  <2>6. Inmost(r[1], z)
    BY <1>2, <2>1 DEF Inmost
  <2> QED
    BY <1>2, <1>5, <1>9, <2>4, <2>5, <2>6, StackedDeep
<1> QED
  BY <1>1, <1>6, <1>7, <1>8, <1>9, At

\* A call of the host that goes into a callback has nothing left to tear down.
LEMMA NotDowns ==
    ASSUME NEW t \in Downs, t # <<>>
    PROVE  Head(t) \notin Callbacks
  BY DownsFirst DEF DownOps, Callbacks

LEMMA EnterStep ==
    ASSUME NEW st \in Seq(Call), st # <<>>, NEW y \in Sender, Stacked(st, y),
           st[1].in = "none", st[1].todo # <<>>, Head(st[1].todo) \in Callbacks,
           NEW r, r = Replaced(st, Tail(st[1].todo), Head(st[1].todo))
    PROVE  r \in Seq(Call) /\ Depth(r) = Depth(st) /\ Stacked(r, y)
<1> DEFINE t == st[1].todo
           g == st[1].gen
<1>1. t \in Seq(Ops) /\ Depth(st) \in Nat \ {0} /\ Tail(t) \in Seq(Ops) /\ Head(t) \in Ins
  BY TopIs, HeadTailProperties DEF Ins
<1>2. /\ r \in Seq(Call) /\ Depth(r) = Depth(st)
      /\ r[1].todo = Tail(t) /\ r[1].in = Head(t) /\ r[1].gen = g
      /\ Depth(st) >= 2 => r[2] = st[2]
      /\ Depth(st) = 3 => r[3] = st[3]
  <2>1. TopNow(r, st, Tail(t), Head(t))
    BY <1>1, ReplaceTop, Zenon
  <2> QED
    BY <2>1 DEF TopNow
<1>3. CallAt(t, y) => /\ Head(t) = "launchedFalse" /\ Tail(t) = <<>>
                      /\ Quiet(y) /\ ~y.waitingForPin
  <2>1. CallAt(t, y) => t = <<"launchedFalse">> /\ Quiet(y) /\ ~y.waitingForPin
    BY CallStatement
  <2>2. t = <<"launchedFalse">> => Head(t) = "launchedFalse" /\ Tail(t) = <<>>
    OBVIOUS
  <2> QED
    BY <2>1, <2>2
<1>4. PinAt(t, y, g) => PinTells(Head(t), Tail(t), y, g)
  BY PinStatement
<1>5. Settled(y) \/ ~Quiet(y)
  BY QuietIsSettled
<1>6. CallAt(t, y) \/ PinAt(t, y, g) => Only(r[1], y) /\ ~y.waitingForPin
  BY <1>2, <1>3, <1>4, <1>5 DEF Only, PinTells
<1>7. CASE Depth(st) = 1 /\ (CallAt(t, y) \/ PinAt(t, y, g))
  <2>3. InCall(Head(t), Tail(t), y, g)
    <3>1. CASE CallAt(t, y)
      BY <1>3, <3>1 DEF InCall
    <3>2. CASE PinAt(t, y, g)
      <4>1. PinTells(Head(t), Tail(t), y, g) /\ Settled(y)
        BY <1>4, <1>5, <3>2 DEF PinTells
      <4> QED
        BY <4>1 DEF InCall, PinTells, ClosedNext, LastCalls, Rest, Same
    <3> QED
      BY <1>7, <3>1, <3>2
  <2>4. Alone(r[1], y)
    BY <1>2, <2>3 DEF Alone
  <2> QED
    BY <1>2, <1>7, <2>4, StackedAlone
<1>8. CASE Depth(st) = 1 /\ LoopAt(t, y, g)
  <2>1. InCall(Head(t), Tail(t), y, g)
    BY <1>8, LoopStatement DEF Onward
  <2>2. Alone(r[1], y)
    BY <1>2, <2>1 DEF Alone
  <2> QED
    BY <1>2, <1>8, <2>2, StackedAlone
<1>9. CASE /\ Depth(st) = 2 /\ Below(st[2], st[1], y)
           /\ CallAt(t, y) \/ PinAt(t, y, g)
  <2>1. Only(r[1], y) /\ ~y.waitingForPin
    BY <1>6, <1>9
  <2>2. t \notin Downs
    BY NotDowns
  <2>3. Below(st[2], r[1], y)
    BY <1>9, <2>1, <2>2 DEF Below
  <2>4. r[2] = st[2] /\ Depth(r) = 2
    BY <1>2, <1>9
  <2>5. Below(r[2], r[1], y)
    BY <2>3, <2>4, Zenon
  <2> QED
    BY <1>2, <1>9, <2>1, <2>4, <2>5, StackedNested
<1>10. CASE Depth(st) = 3 /\ CallAt(t, y) /\ Beneath(st[3], st[2], y)
  <2>1. Inmost(r[1], y)
    BY <1>2, <1>3, <1>10 DEF Inmost
  <2>2. r[2] = st[2] /\ r[3] = st[3] /\ Depth(r) = 3
    BY <1>2, <1>10
  <2>3. Beneath(r[3], r[2], y)
    BY <1>10, <2>2, Zenon
  <2> QED
    BY <1>2, <1>10, <2>1, <2>2, <2>3, StackedDeep
<1> QED
  BY <1>1, <1>7, <1>8, <1>9, <1>10, At

LEMMA ReturnStep ==
    ASSUME NEW st \in Seq(Call), st # <<>>, NEW y \in Sender, Stacked(st, y),
           st[1].in # "none",
           NEW r, r = Replaced(st, st[1].todo, "none")
    PROVE  r \in Seq(Call) /\ Depth(r) = Depth(st) /\ Stacked(r, y)
<1> DEFINE t == st[1].todo
           g == st[1].gen
<1>1. t \in Seq(Ops) /\ Depth(st) \in Nat \ {0} /\ "none" \in Ins
  BY TopIs DEF Ins
<1>2. /\ r \in Seq(Call) /\ Depth(r) = Depth(st)
      /\ r[1].todo = t /\ r[1].in = "none" /\ r[1].gen = g
      /\ Depth(st) >= 2 => r[2] = st[2]
      /\ Depth(st) = 3 => r[3] = st[3]
  <2>1. TopNow(r, st, t, "none")
    BY <1>1, ReplaceTop, Zenon
  <2> QED
    BY <2>1 DEF TopNow
<1>3. CASE Depth(st) = 1
  <2>1. InCall(st[1].in, t, y, g)
    BY <1>3 DEF Stacked, Alone
  <2>2. CallAt(t, y) \/ LoopAt(t, y, g)
    BY <2>1, Returned
  <2>3. Alone(r[1], y)
    BY <1>2, <2>2 DEF Alone
  <2> QED
    BY <1>2, <1>3, <2>3, StackedAlone
<1>4. CASE Depth(st) = 2
  <2>1. Only(st[1], y) /\ Below(st[2], st[1], y)
    BY <1>4 DEF Stacked
  <2>2. ~y.waitingForPin
    BY <2>1 DEF Only
  <2>3. CallAt(t, y) \/ PinAt(t, y, g)
    <3>1. CASE t = <<>> /\ Settled(y)
      BY <3>1 DEF CallAt
    <3>2. CASE t = <<>> /\ Quiet(y)
      BY <3>2, QuietIsSettled DEF CallAt
    <3>3. CASE t = <<"closed">> /\ Quiet(y) /\ y.gen = g
      <4>1. <<>> \in Downs /\ Torn(<<>>, y) /\ <<"closed">> \in Ends
        BY <3>3, NoneLeft DEF Ends
      <4>2. t = <<>> \o <<"closed">>
        BY <3>3, <4>1, EndsAre, ConcatEmptySeq
      <4> QED
        BY <2>2, <3>3, <4>1, <4>2 DEF PinAt
    <3> QED
      BY <2>1, <3>1, <3>2, <3>3 DEF Only
  <2>4. Only(r[1], y)
    BY <1>2, <2>3 DEF Only
  <2>5. Below(st[2], r[1], y)
    BY <2>1, <2>2 DEF Below
  <2>6. r[2] = st[2] /\ Depth(r) = 2
    BY <1>2, <1>4
  <2>7. Below(r[2], r[1], y)
    BY <2>5, <2>6, Zenon
  <2> QED
    BY <1>2, <1>4, <2>4, <2>6, <2>7, StackedNested
<1>5. CASE Depth(st) = 3
  <2>1. t = <<>> /\ Quiet(y) /\ Beneath(st[3], st[2], y)
    BY <1>5 DEF Stacked, Inmost
  <2>2. CallAt(t, y)
    BY <2>1, QuietIsSettled DEF CallAt
  <2>3. Inmost(r[1], y)
    BY <1>2, <2>2 DEF Inmost
  <2>4. r[2] = st[2] /\ r[3] = st[3] /\ Depth(r) = 3
    BY <1>2, <1>5
  <2>5. Beneath(r[3], r[2], y)
    BY <2>1, <2>4, Zenon
  <2> QED
    BY <1>2, <1>5, <2>3, <2>4, <2>5, StackedDeep
<1>6. Depth(st) <= 3
  BY DEF Stacked
<1> QED
  BY <1>1, <1>3, <1>4, <1>5, <1>6

LEMMA DoneStep ==
    ASSUME NEW st \in Seq(Call), st # <<>>, NEW y \in Sender, Stacked(st, y),
           st[1].in = "none", st[1].todo = <<>>, NEW r, r = Tail(st)
    PROVE  r \in Seq(Call) /\ Depth(r) <= Depth(st) /\ Stacked(r, y)
<1>1. Depth(st) \in Nat \ {0}
  BY TopIs
<1>2. /\ r \in Seq(Call) /\ Depth(r) = Depth(st) - 1
      /\ Depth(st) >= 2 => r[1] = st[2]
      /\ Depth(st) = 3 => r[2] = st[3]
  BY PopTop
<1>3. ~PinAt(<<>>, y, st[1].gen) /\ ~LoopAt(<<>>, y, st[1].gen)
  BY PinStatement, LoopStatement DEF Onward
<1>4. CallAt(<<>>, y) => Settled(y)
  BY CallDone
<1>5. CASE Depth(st) = 1 /\ CallAt(<<>>, y)
  <2>1. Depth(r) = 0 /\ Depth(r) <= Depth(st)
    BY <1>1, <1>2, <1>5
  <2> QED
    BY <1>2, <1>4, <1>5, <2>1 DEF Stacked
<1>6. CASE Depth(st) = 2 /\ CallAt(<<>>, y) /\ Below(st[2], st[1], y)
  <2>1. ~AtProof(st[1])
    BY DEF AtProof
  <2>2. InCall(st[2].in, st[2].todo, y, st[2].gen)
    BY <1>4, <1>6, <2>1 DEF Below, InCall
  <2>0. Depth(st) >= 2 /\ Depth(r) = 1 /\ Depth(r) <= Depth(st)
    BY <1>1, <1>2, <1>6
  <2>3. r[1] = st[2] /\ Depth(r) = 1 /\ Depth(r) <= Depth(st)
    BY <1>2, <2>0, Zenon
  <2>4. Alone(r[1], y)
    BY <2>2, <2>3, Zenon DEF Alone
  <2> QED
    BY <1>2, <1>6, <2>3, <2>4, StackedAlone
<1>7. CASE Depth(st) = 3 /\ CallAt(<<>>, y) /\ Beneath(st[3], st[2], y)
  <2>1. Only(st[2], y) /\ Below(st[3], st[2], y)
    BY <1>4, <1>7 DEF Beneath, Only
  <2>0. Depth(st) >= 2 /\ Depth(r) = 2 /\ Depth(r) <= Depth(st)
    BY <1>1, <1>2, <1>7
  <2>2. r[1] = st[2] /\ r[2] = st[3] /\ Depth(r) = 2 /\ Depth(r) <= Depth(st)
    BY <1>2, <1>7, <2>0, Zenon
  <2>3. Only(r[1], y) /\ Below(r[2], r[1], y)
    BY <2>1, <2>2, Zenon
  <2> QED
    BY <1>2, <1>7, <2>2, <2>3, StackedNested
<1> QED
  BY <1>1, <1>3, <1>5, <1>6, <1>7, At
----------------------------------------------------------------------------
(* The loop over the replies. *)

\* What the loop finds when it looks for a reply.
LEMMA Reading ==
    ASSUME NEW st \in Seq(Call), st # <<>>, NEW y \in Sender, Stacked(st, y),
           st[1].in = "none", st[1].todo # <<>>, Head(st[1].todo) \in Reads
    PROVE  /\ Depth(st) = 1 /\ Settled(y) /\ Same(y, st[1].gen)
           /\ Head(st[1].todo) = "readNext" => st[1].todo = <<"readNext">> /\ y.state # "Idle"
<1> DEFINE t == st[1].todo
<1>1. Depth(st) \in Nat \ {0}
  BY TopIs
<1>2. ~CallAt(t, y) /\ ~PinAt(t, y, st[1].gen)
  BY CallStatement, PinStatement
<1>3. Depth(st) = 1 /\ LoopAt(t, y, st[1].gen)
  BY <1>1, <1>2, At
<1>4. Onward(t, y, st[1].gen)
  BY <1>3, LoopStatement
<1>5. Head(<<Loop>>) # "readNext"
  BY DEF Loop
<1> QED
  BY <1>3, <1>4, <1>5 DEF Onward

\* A reply is taken out of rxBuf_.
Shorter(y) == [y EXCEPT !.rx = Tail(y.rx)]

LEMMA Taken ==
    ASSUME NEW y \in Sender, Settled(y), y.state # "Idle", y.rx # <<>>,
           NEW z, z = Shorter(y)
    PROVE  /\ z \in Sender /\ Settled(z) /\ z.gen = y.gen /\ z.state = y.state
           /\ z.waitingForPin = y.waitingForPin /\ z.ap2 = y.ap2
           /\ Head(y.rx) = y.gen
<1>1. y.rx \in Seq(0 .. MaxGen)
  BY DEF Sender
<1>2. Len(y.rx) \in Nat \ {0}
  BY <1>1, EmptySeq
<1>3. /\ Tail(y.rx) \in Seq(0 .. MaxGen) /\ Len(Tail(y.rx)) = Len(y.rx) - 1
      /\ \A i \in 1 .. Len(Tail(y.rx)) : Tail(y.rx)[i] = y.rx[i + 1]
  BY <1>1, HeadTailProperties
<1>4. \A i \in 1 .. Len(y.rx) : y.rx[i] = y.gen
  BY DEF Settled
<1>5. \A i \in 1 .. Len(Tail(y.rx)) : Tail(y.rx)[i] = y.gen
  BY <1>2, <1>3, <1>4
<1>6. Head(y.rx) = y.gen
  BY <1>1, <1>2, <1>4
<1>7. /\ z \in Sender /\ z.rx = Tail(y.rx) /\ z.gen = y.gen /\ z.state = y.state
      /\ z.waitingForPin = y.waitingForPin /\ z.ctl = y.ctl /\ z.udp = y.udp
      /\ z.ap2 = y.ap2 /\ z.watchdogs = y.watchdogs
  BY <1>3 DEF Sender, Shorter
<1>8. Settled(z)
  BY <1>5, <1>7 DEF Settled
<1> QED
  BY <1>6, <1>7, <1>8

LEMMA EmptyStep ==
    ASSUME NEW st \in Seq(Call), st # <<>>, NEW y \in Sender, Stacked(st, y),
           st[1].in = "none", st[1].todo # <<>>, Head(st[1].todo) \in Reads,
           NEW t \in Seq(Ops), t = <<>> \/ (t = <<"readNext">> /\ y.state # "Idle"),
           NEW r, r = Replaced(st, t, "none")
    PROVE  r \in Seq(Call) /\ Depth(r) = Depth(st) /\ Stacked(r, y)
<1>1. Depth(st) = 1 /\ Settled(y) /\ Same(y, st[1].gen)
  BY Reading
<1>2. TopNow(r, st, t, "none")
  BY ReplaceTop, Zenon DEF Ins
<1>3. CallAt(t, y) \/ LoopAt(t, y, st[1].gen)
  BY <1>1 DEF CallAt, LoopAt
<1>4. Alone(r[1], y)
  BY <1>2, <1>3 DEF Alone, TopNow
<1> QED
  BY <1>1, <1>2, <1>4, StackedAlone DEF TopNow

LEMMA ReplyStep ==
    ASSUME NEW st \in Seq(Call), st # <<>>, NEW y \in Sender, Stacked(st, y), PinHasAp2(y),
           st[1].in = "none", st[1].todo # <<>>, Head(st[1].todo) = "readNext",
           y.rx # <<>>, NEW z, z = Shorter(y), NEW h \in Handlers(y),
           NEW r, r = Replaced(st, h \o <<Loop>>, "none")
    PROVE  z \in Sender /\ PinHasAp2(z) /\ r \in Seq(Call) /\ Depth(r) = Depth(st) /\ Stacked(r, z)
<1>1. Depth(st) = 1 /\ Settled(y) /\ Same(y, st[1].gen) /\ y.state # "Idle"
  BY Reading DEF Reads
<1>2. /\ z \in Sender /\ Settled(z) /\ z.gen = y.gen /\ z.state = y.state
      /\ z.waitingForPin = y.waitingForPin /\ z.ap2 = y.ap2
  BY <1>1, Taken
<1>3. z.gen = st[1].gen
  BY <1>1, <1>2 DEF Same
<1>4. h \o <<Loop>> \in Seq(Ops) /\ LoopAt(h \o <<Loop>>, z, st[1].gen)
  BY <1>1, <1>2, <1>3, HandlerPrograms
<1>5. TopNow(r, st, h \o <<Loop>>, "none")
  BY <1>4, ReplaceTop, Zenon DEF Ins
<1>6. Alone(r[1], z)
  BY <1>4, <1>5 DEF Alone, TopNow
<1> QED
  BY <1>1, <1>2, <1>5, <1>6, StackedAlone DEF TopNow, PinHasAp2

----------------------------------------------------------------------------
(* New calls. *)

LEMMA DepthOf ==
    ASSUME NEW st \in Seq(Call)
    PROVE  Depth(st) \in Nat /\ (Depth(st) = 0 <=> st = <<>>)
  BY LenProperties, EmptySeq DEF Depth

\* A call of the event loop, when none is under way.
LEMMA LoopPush ==
    ASSUME NEW st \in Seq(Call), st = <<>>, NEW z, NEW g \in 0 .. MaxGen,
           NEW t \in Seq(Ops), LoopAt(t, z, g), NEW r, r = Pushed(st, t, g)
    PROVE  r \in Seq(Call) /\ Depth(r) = 1 /\ Stacked(r, z)
<1>1. /\ r \in Seq(Call) /\ Depth(r) = Depth(st) + 1
      /\ r[1].todo = t /\ r[1].in = "none" /\ r[1].gen = g
  <2>1. TopNew(r, st, t, g)
    BY PushTop, Zenon
  <2> QED
    BY <2>1 DEF TopNew
<1>2. Depth(st) = 0
  BY DepthOf
<1>3. Depth(r) = 1
  BY <1>1, <1>2
<1>4. Alone(r[1], z)
  BY <1>1 DEF Alone
<1> QED
  BY <1>1, <1>3, <1>4, StackedAlone

\* The innermost call waits in a callback in which the host may call.
LEMMA Waiting ==
    ASSUME NEW st \in Seq(Call), st # <<>>, NEW y \in Sender, Stacked(st, y),
           st[1].in # "none",
           y.state # "Idle" \/ st[1].in \in LastCalls \/ y.waitingForPin
    PROVE  /\ Settled(y)
           /\ \/ Depth(st) = 1 /\ InCall(st[1].in, st[1].todo, y, st[1].gen)
              \/ Depth(st) = 2 /\ Beneath(st[2], st[1], y)
<1>1. Depth(st) \in Nat \ {0} /\ Depth(st) <= 3
  BY TopIs DEF Stacked
<1>2. "launchedFalse" \notin LastCalls
  BY DEF LastCalls
<1>3. CASE Depth(st) = 3
  <2>1. st[1].in = "launchedFalse" /\ Quiet(y) /\ ~y.waitingForPin
    BY <1>3 DEF Stacked, Inmost, Beneath
  <2> QED
    BY <1>2, <2>1 DEF Quiet
<1>4. CASE Depth(st) = 2
  <2>1. Only(st[1], y) /\ Below(st[2], st[1], y)
    BY <1>4 DEF Stacked
  <2>2. st[1].in = "closed" /\ st[1].todo = <<>> /\ Settled(y) /\ ~y.waitingForPin
    BY <1>2, <2>1 DEF Only, Quiet
  <2> QED
    BY <1>4, <2>1, <2>2 DEF Beneath
<1>5. CASE Depth(st) = 1
  <2>1. InCall(st[1].in, st[1].todo, y, st[1].gen)
    BY <1>5 DEF Stacked, Alone
  <2> QED
    BY <1>5, <2>1, QuietIsSettled DEF InCall
<1> QED
  BY <1>1, <1>3, <1>4, <1>5

\* stop() or start(), from outside or inside a callback.
LEMMA CallPush ==
    ASSUME NEW st \in Seq(Call), NEW y \in Sender, Stacked(st, y),
           st # <<>> => st[1].in # "none" /\ (y.state # "Idle" \/ st[1].in \in LastCalls),
           NEW t \in Seq(Ops), CallAt(t, y),
           \/ st # <<>> => st[1].in \in LastCalls
           \/ t \in Downs /\ Torn(t, y),
           NEW r, r = Pushed(st, t, y.gen)
    PROVE  r \in Seq(Call) /\ Depth(r) = Depth(st) + 1 /\ Stacked(r, y)
<1>1. y.gen \in 0 .. MaxGen
  BY DEF Sender
<1>2. /\ r \in Seq(Call) /\ Depth(r) = Depth(st) + 1
      /\ r[1].todo = t /\ r[1].in = "none" /\ r[1].gen = y.gen
      /\ Depth(st) >= 1 => r[2] = st[1]
      /\ Depth(st) = 2 => r[3] = st[2]
  <2>1. TopNew(r, st, t, y.gen)
    BY <1>1, PushTop, Zenon
  <2> QED
    BY <2>1 DEF TopNew
<1>3. CASE st = <<>>
  <2>1. Depth(st) = 0
    BY <1>3, DepthOf
  <2>2. Depth(r) = 1
    BY <1>2, <2>1
  <2>3. Alone(r[1], y)
    BY <1>2 DEF Alone
  <2> QED
    BY <1>2, <2>2, <2>3, StackedAlone
<1>4. CASE st # <<>> /\ Depth(st) = 1 /\ InCall(st[1].in, st[1].todo, y, st[1].gen)
  <2>1. "credentialsObtained" \notin LastCalls /\ "launchedFalse" \notin LastCalls
    BY DEF LastCalls
  <2>2. Below(st[1], r[1], y)
    BY <1>2, <1>4, <2>1 DEF InCall, Below, Quiet
  <2>3. r[2] = st[1] /\ Depth(r) = 2
    BY <1>2, <1>4
  <2>4. Below(r[2], r[1], y)
    BY <2>2, <2>3, Zenon
  <2>5. Only(r[1], y)
    BY <1>2 DEF Only
  <2> QED
    BY <1>2, <2>3, <2>4, <2>5, StackedNested
<1>5. CASE st # <<>> /\ Depth(st) = 2 /\ Beneath(st[2], st[1], y)
  <2>1. r[2] = st[1] /\ r[3] = st[2] /\ Depth(r) = 3
    BY <1>2, <1>5
  <2>2. Beneath(r[3], r[2], y)
    BY <1>5, <2>1, Zenon
  <2>3. Inmost(r[1], y)
    BY <1>2 DEF Inmost
  <2> QED
    BY <1>2, <2>1, <2>2, <2>3, StackedDeep
<1> QED
  BY <1>3, <1>4, <1>5, Waiting

\* The sender with the submission of a PIN noted.
Submitted(y) == [y EXCEPT !.late = IF y.state = "Idle" THEN y.gen ELSE y.late]

\* submitPin(), from outside or inside a callback.
LEMMA PinPush ==
    ASSUME NEW st \in Seq(Call), NEW y \in Sender, Stacked(st, y), y.waitingForPin,
           st # <<>> => st[1].in # "none",
           NEW z, z = Submitted(y),
           NEW t \in Seq(Ops), PinAt(t, z, z.gen), t # <<>>, Head(t) = "proof",
           NEW r, r = Pushed(st, t, y.gen)
    PROVE  r \in Seq(Call) /\ Depth(r) = Depth(st) + 1 /\ Stacked(r, z)
<1>1. y.gen \in 0 .. MaxGen /\ z.gen = y.gen /\ z.rx = y.rx /\ z.ap2 = y.ap2
      /\ z.waitingForPin = y.waitingForPin
      /\ z.late = IF y.state = "Idle" THEN y.gen ELSE y.late
  BY DEF Sender, Submitted
<1>2. /\ r \in Seq(Call) /\ Depth(r) = Depth(st) + 1
      /\ r[1].todo = t /\ r[1].in = "none" /\ r[1].gen = y.gen
      /\ Depth(st) >= 1 => r[2] = st[1]
  <2>1. TopNew(r, st, t, y.gen)
    BY <1>1, PushTop, Zenon
  <2> QED
    BY <2>1 DEF TopNew
<1>3. CASE st = <<>>
  <2>1. Depth(st) = 0
    BY <1>3, DepthOf
  <2>2. Depth(r) = 1
    BY <1>2, <2>1
  <2>3. Alone(r[1], z)
    BY <1>1, <1>2 DEF Alone
  <2> QED
    BY <1>2, <2>2, <2>3, StackedAlone
<1>4. CASE st # <<>> /\ Depth(st) = 1 /\ InCall(st[1].in, st[1].todo, y, st[1].gen)
  <2>1. AtProof(r[1])
    BY <1>2 DEF AtProof
  <2>2. Below(st[1], r[1], z)
    BY <1>1, <1>4, <2>1 DEF InCall, Below, Quiet, Same
  <2>3. r[2] = st[1] /\ Depth(r) = 2
    BY <1>2, <1>4
  <2>4. Below(r[2], r[1], z)
    BY <2>2, <2>3, Zenon
  <2>5. Only(r[1], z)
    BY <1>1, <1>2 DEF Only
  <2> QED
    BY <1>2, <2>3, <2>4, <2>5, StackedNested
<1>5. CASE st # <<>> /\ Depth(st) = 2 /\ Beneath(st[2], st[1], y)
  BY <1>5 DEF Beneath
<1> QED
  BY <1>3, <1>4, <1>5, Waiting

\* Where the host may call, the sender is consistent.
LEMMA MayIsSettled ==
    ASSUME NEW st \in Seq(Call), NEW y \in Sender, Stacked(st, y),
           st # <<>> => /\ st[1].in # "none"
                        /\ y.state # "Idle" \/ st[1].in \in LastCalls \/ y.waitingForPin
    PROVE  Settled(y)
<1>1. CASE st = <<>>
  BY <1>1, DepthOf DEF Stacked
<1>2. CASE st # <<>>
  BY <1>2, Waiting
<1> QED
  BY <1>1, <1>2
----------------------------------------------------------------------------
(* The actions. *)

\* What the steps that begin no call need of the state.
LEMMA CallTypes ==
    ASSUME CallInv
    PROVE  /\ x \in Sender /\ stack \in Seq(Call) /\ Depth(stack) <= MaxDepth
           /\ Stacked(stack, x) /\ PinHasAp2(x)
           /\ x.gen \in 0 .. MaxGen /\ MaxDepth \in Nat \ {0}
  BY BoundsAssumption DEF CallInv, TypeOK, Depth, Sender

LEMMA CallNow ==
    ASSUME x' \in Sender, PinHasAp2(x'),
           stack' \in Seq(Call), Depth(stack') <= MaxDepth, Stacked(stack', x')
    PROVE  CallInv'
  BY DEF CallInv, TypeOK, Depth

LEMMA StartKeeps ==
    ASSUME StartIn \subseteq LastCalls, CallInv, NEW ok \in BOOLEAN, Start(ok)
    PROVE  CallInv'
<1>1. /\ x \in Sender /\ stack \in Seq(Call) /\ Depth(stack) <= MaxDepth
      /\ Stacked(stack, x) /\ PinHasAp2(x) /\ x.gen \in 0 .. MaxGen /\ MaxDepth \in Nat \ {0}
  BY CallTypes
<1>2. /\ x' = x /\ x.gen < MaxGen /\ Depth(stack) < MaxDepth
      /\ stack' = Pushed(stack, start(x, ok), x.gen)
      /\ stack # <<>> => stack[1].in # "none" /\ stack[1].in \in LastCalls
  BY <1>1, TopIs DEF Start, HostMay, InCallback, Top, Push, Pushed, Depth
<1>3. Settled(x)
  BY <1>1, <1>2, MayIsSettled
<1>4. start(x, ok) \in Seq(Ops) /\ CallAt(start(x, ok), x)
  BY <1>2, <1>3, StartProgram
<1>5. /\ stack' \in Seq(Call) /\ Depth(stack') = Depth(stack) + 1
      /\ Stacked(stack', x)
  BY <1>1, <1>2, <1>4, CallPush
<1>6. Depth(stack) \in Nat
  BY <1>1, DepthOf
<1> QED
  BY <1>1, <1>2, <1>5, <1>6, CallNow

LEMMA StopKeeps ==
    ASSUME CallInv, Stop
    PROVE  CallInv'
<1>1. /\ x \in Sender /\ stack \in Seq(Call) /\ Depth(stack) <= MaxDepth
      /\ Stacked(stack, x) /\ PinHasAp2(x) /\ x.gen \in 0 .. MaxGen /\ MaxDepth \in Nat \ {0}
  BY CallTypes
<1>2. /\ x' = x /\ x.state # "Idle" /\ Depth(stack) < MaxDepth
      /\ stack' = Pushed(stack, stop(x), x.gen)
      /\ stack # <<>> => stack[1].in # "none"
  BY <1>1, TopIs DEF Stop, HostMay, InCallback, Top, Push, Pushed, Depth
<1>3. Settled(x)
  BY <1>1, <1>2, MayIsSettled
<1>4. stop(x) \in Downs /\ Torn(stop(x), x) /\ stop(x) \in Seq(Ops)
  BY <1>3, StopProgram
<1>5. CallAt(stop(x), x)
  BY <1>4 DEF CallAt
<1>6. /\ stack' \in Seq(Call) /\ Depth(stack') = Depth(stack) + 1
      /\ Stacked(stack', x)
  BY <1>1, <1>2, <1>4, <1>5, CallPush
<1>7. Depth(stack) \in Nat
  BY <1>1, DepthOf
<1> QED
  BY <1>1, <1>2, <1>6, <1>7, CallNow

LEMMA SubmitPinKeeps ==
    ASSUME CallInv, NEW ok \in BOOLEAN, SubmitPin(ok)
    PROVE  CallInv'
<1>1. /\ x \in Sender /\ stack \in Seq(Call) /\ Depth(stack) <= MaxDepth
      /\ Stacked(stack, x) /\ PinHasAp2(x) /\ x.gen \in 0 .. MaxGen /\ MaxDepth \in Nat \ {0}
  BY CallTypes
<1>2. /\ x' = Submitted(x) /\ x.waitingForPin /\ Depth(stack) < MaxDepth
      /\ stack' = Pushed(stack, submitPin(x, ok), x.gen)
      /\ stack # <<>> => stack[1].in # "none"
  BY <1>1, TopIs DEF SubmitPin, HostMay, InCallback, Top, Push, Pushed, Depth, Submitted
<1>3. /\ x' \in Sender /\ x'.gen = x.gen /\ x'.waitingForPin /\ x'.ap2 = x.ap2
      /\ x'.state = x.state /\ x'.ctl = x.ctl /\ x'.udp = x.udp
      /\ x'.watchdogs = x.watchdogs /\ x'.rx = x.rx
  BY <1>1, <1>2 DEF Sender, Submitted
<1>4. Settled(x')
  <2>1. Settled(x)
    BY <1>1, <1>2, MayIsSettled
  <2> QED
    BY <1>2, <1>3, <2>1 DEF Settled
<1> DEFINE t == submitPin(x, ok)
<1>5. t \in Seq(Ops) /\ PinAt(t, x', x'.gen) /\ t # <<>> /\ Head(t) = "proof"
  BY <1>2, <1>3, <1>4, PinProgram
<1> HIDE DEF t
<1>6. stack' = Pushed(stack, t, x.gen)
  BY <1>2 DEF t
<1>7. /\ stack' \in Seq(Call) /\ Depth(stack') = Depth(stack) + 1
      /\ Stacked(stack', x')
  BY <1>1, <1>2, <1>5, <1>6, PinPush
<1>8. Depth(stack) \in Nat
  BY <1>1, DepthOf
<1> QED
  BY <1>1, <1>2, <1>3, <1>7, <1>8, CallNow DEF PinHasAp2

\* No call is under way.
LEMMA Rested ==
    ASSUME CallInv, stack = <<>>
    PROVE  Settled(x) /\ 1 <= MaxDepth
<1>1. /\ x \in Sender /\ stack \in Seq(Call) /\ Stacked(stack, x) /\ MaxDepth \in Nat \ {0}
  BY CallTypes
<1>2. Depth(stack) = 0
  BY <1>1, DepthOf
<1> QED
  BY <1>1, <1>2 DEF Stacked

LEMMA OnTcpConnectedKeeps ==
    ASSUME CallInv, NEW hap \in BOOLEAN, OnTcpConnected(hap)
    PROVE  CallInv'
<1>1. /\ x \in Sender /\ stack \in Seq(Call) /\ Depth(stack) <= MaxDepth
      /\ Stacked(stack, x)
  BY CallTypes
<1>2. stack' = stack /\ stack = <<>> /\ x.ctl = "connecting"
  BY DEF OnTcpConnected
<1>3. Settled(x)
  BY <1>2, Rested
<1> DEFINE s == IF hap THEN "Pairing" ELSE "Handshake"
           w == x.watchdogs \cup {"timeout"}
<1>4. s \in States /\ w \in SUBSET {"timeout", "pinTimeout"} /\ "timeout" \in w
  BY <1>1 DEF States, Sender
<1>5. x' = [x EXCEPT !.ctl = "open", !.state = s, !.ap2 = hap, !.watchdogs = w]
  BY <1>1 DEF OnTcpConnected, Sender
<1> HIDE DEF w
<1>6. /\ x' \in Sender /\ x'.ctl = "open" /\ x'.state = s /\ x'.ap2 = hap /\ x'.watchdogs = w
      /\ x'.gen = x.gen /\ x'.rx = x.rx /\ x'.udp = x.udp
      /\ x'.waitingForPin = x.waitingForPin
  BY <1>1, <1>4, <1>5 DEF Sender
<1>7. x.udp /\ ~x.waitingForPin /\ \A i \in 1 .. Len(x.rx) : x.rx[i] = x.gen
  BY <1>2, <1>3 DEF Settled
<1>8. Settled(x')
  BY <1>4, <1>6, <1>7 DEF Settled
<1>9. Depth(stack) = 0
  BY <1>1, <1>2, DepthOf
<1>10. Stacked(stack, x')
  BY <1>8, <1>9 DEF Stacked
<1> QED
  BY <1>1, <1>2, <1>6, <1>7, <1>10, CallNow DEF PinHasAp2

LEMMA OnTcpClosedKeeps ==
    ASSUME CallInv, NEW reason, OnTcpClosed(reason)
    PROVE  CallInv'
<1>1. /\ x \in Sender /\ stack \in Seq(Call) /\ Depth(stack) <= MaxDepth
      /\ Stacked(stack, x) /\ PinHasAp2(x) /\ x.gen \in 0 .. MaxGen
  BY CallTypes
<1> DEFINE t == IF reason = "fin" /\ x.ctl = "open" THEN closedByPeer(x) ELSE fail_(x)
<1>2. stack = <<>> /\ x' = x /\ stack' = Pushed(stack, t, x.gen)
  BY DEF OnTcpClosed, Push, Pushed
<1>3. t \in Seq(Ops) /\ LoopAt(t, x, x.gen)
  BY FailProgram, ClosedProgram
<1> HIDE DEF t
<1>4. stack' \in Seq(Call) /\ Depth(stack') = 1 /\ Stacked(stack', x)
  BY <1>1, <1>2, <1>3, LoopPush
<1> QED
  BY <1>1, <1>2, <1>4, Rested, CallNow

LEMMA OnTimeoutKeeps ==
    ASSUME CallInv, NEW t \in {"timeout", "pinTimeout"}, OnTimeout(t)
    PROVE  CallInv'
<1>1. /\ x \in Sender /\ stack \in Seq(Call) /\ Depth(stack) <= MaxDepth
      /\ Stacked(stack, x) /\ PinHasAp2(x) /\ x.gen \in 0 .. MaxGen
  BY CallTypes
<1> DEFINE w == x.watchdogs \ {t}
           p == x.waitingForPin /\ t # "pinTimeout"
<1>2. x' = [x EXCEPT !.watchdogs = w, !.waitingForPin = p]
  BY <1>1 DEF OnTimeout, Sender
<1>3. w \in SUBSET {"timeout", "pinTimeout"} /\ p \in BOOLEAN /\ (p => x.waitingForPin)
  BY <1>1 DEF Sender
<1> HIDE DEF w, p
<1>4. /\ x' \in Sender /\ x'.gen = x.gen /\ x'.ap2 = x.ap2 /\ x'.waitingForPin = p
      /\ x'.watchdogs = w /\ x'.rx = x.rx
      /\ x'.state = x.state /\ x'.ctl = x.ctl /\ x'.udp = x.udp
  BY <1>1, <1>2, <1>3 DEF Sender
<1>5. PinHasAp2(x')
  BY <1>1, <1>3, <1>4 DEF PinHasAp2
<1>6. stack = <<>>
  BY DEF OnTimeout
<1>7. CASE TimedOut(t)
  <2>1. stack' = Pushed(stack, fail_(x), x.gen)
    BY <1>7 DEF OnTimeout, Push, Pushed
  <2>2. fail_(x) \in Seq(Ops) /\ LoopAt(fail_(x), x', x.gen)
    BY <1>4, FailProgram
  <2>3. stack' \in Seq(Call) /\ Depth(stack') = 1 /\ Stacked(stack', x')
    BY <1>1, <1>6, <2>1, <2>2, LoopPush
  <2> QED
    BY <1>4, <1>5, <1>6, <2>3, Rested, CallNow
<1>8. CASE ~TimedOut(t)
  <2>1. stack' = stack
    BY <1>8 DEF OnTimeout
  <2>2. Settled(x)
    BY <1>6, Rested
  <2>5. Settled(x') /\ Depth(stack') = 0
    <3>1. Settled(x')
      <4>1. CASE t = "pinTimeout"
        <5>1. ~x.waitingForPin /\ ~p /\ ("timeout" \in x.watchdogs => "timeout" \in w)
          BY <1>8, <4>1 DEF TimedOut, p, w
        <5> QED
          BY <1>4, <2>2, <5>1 DEF Settled
      <4>2. CASE t = "timeout"
        <5>1. /\ p = x.waitingForPin /\ (x.waitingForPin \/ x.state \notin Starting)
              /\ "pinTimeout" \in x.watchdogs => "pinTimeout" \in w
          BY <1>1, <1>8, <4>2 DEF TimedOut, p, w, Sender
        <5> QED
          BY <1>4, <2>2, <5>1 DEF Settled
      <4> QED
        BY <4>1, <4>2
    <3> QED
      BY <1>1, <1>6, <2>1, <3>1, DepthOf
  <2>6. Stacked(stack', x')
    BY <2>5 DEF Stacked
  <2> QED
    BY <1>1, <1>4, <1>5, <2>1, <2>6, CallNow
<1> QED
  BY <1>7, <1>8

LEMMA OnTcpDataKeeps ==
    ASSUME CallInv, NEW n \in 1 .. MaxRx, OnTcpData(n)
    PROVE  CallInv'
<1>1. /\ x \in Sender /\ stack \in Seq(Call) /\ Depth(stack) <= MaxDepth
      /\ Stacked(stack, x) /\ PinHasAp2(x) /\ x.gen \in 0 .. MaxGen
  BY CallTypes
<1>2. stack = <<>> /\ x.ctl = "open" /\ stack' = Pushed(stack, <<"readNext">>, x.gen)
  BY DEF OnTcpData, Push, Pushed
<1>3. Settled(x) /\ x.state # "Idle"
  BY <1>2, Rested DEF Settled
<1> DEFINE more == [i \in 1 .. n |-> x.gen]
           rx == x.rx \o more
<1>4. /\ more \in Seq(0 .. MaxGen) /\ Len(more) = n /\ \A i \in 1 .. n : more[i] = x.gen
      /\ n \in Nat
  BY <1>1, BoundsAssumption
<1>5. x.rx \in Seq(0 .. MaxGen) /\ Len(x.rx) \in Nat
  BY <1>1, LenProperties DEF Sender
<1> HIDE DEF more
<1>6. /\ rx \in Seq(0 .. MaxGen) /\ Len(rx) = Len(x.rx) + n
      /\ \A i \in 1 .. (Len(x.rx) + n) :
            rx[i] = IF i <= Len(x.rx) THEN x.rx[i] ELSE more[i - Len(x.rx)]
  BY <1>4, <1>5, ConcatProperties
<1>7. x' = [x EXCEPT !.rx = rx]
  BY <1>1 DEF OnTcpData, Sender, more
<1> HIDE DEF rx
<1>8. \A i \in 1 .. Len(x.rx) : x.rx[i] = x.gen
  BY <1>3 DEF Settled
<1>9. \A i \in 1 .. Len(rx) : rx[i] = x.gen
  <2> SUFFICES ASSUME NEW i \in 1 .. Len(rx) PROVE rx[i] = x.gen
    OBVIOUS
  <2>1. i \in 1 .. (Len(x.rx) + n)
    BY <1>6
  <2>2. CASE i <= Len(x.rx)
    BY <1>5, <1>6, <1>8, <2>1, <2>2
  <2>3. CASE ~(i <= Len(x.rx))
    <3>1. i - Len(x.rx) \in 1 .. n
      BY <1>4, <1>5, <2>1, <2>3
    <3> QED
      BY <1>4, <1>6, <2>1, <2>3, <3>1
  <2> QED
    BY <2>2, <2>3
<1>10. /\ x' \in Sender /\ x'.rx = rx /\ x'.gen = x.gen /\ x'.state = x.state
       /\ x'.ctl = x.ctl /\ x'.udp = x.udp /\ x'.ap2 = x.ap2
       /\ x'.waitingForPin = x.waitingForPin /\ x'.watchdogs = x.watchdogs
  BY <1>1, <1>6, <1>7 DEF Sender
<1>11. Settled(x')
  BY <1>3, <1>9, <1>10 DEF Settled
<1>12. LoopAt(<<"readNext">>, x', x.gen)
  BY <1>3, <1>10, <1>11 DEF LoopAt, Same
<1>13. <<"readNext">> \in Seq(Ops)
  BY DEF Ops
<1>14. stack' \in Seq(Call) /\ Depth(stack') = 1 /\ Stacked(stack', x')
  BY <1>1, <1>2, <1>12, <1>13, LoopPush
<1> QED
  BY <1>1, <1>2, <1>10, <1>14, Rested, CallNow DEF PinHasAp2

\* The innermost call, when it is not inside a callback and has something to do.
LEMMA RunningIs ==
    ASSUME CallInv, Running
    PROVE  /\ stack # <<>> /\ stack[1].in = "none" /\ stack[1].todo # <<>>
           /\ Top = stack[1] /\ Op = Head(stack[1].todo)
  BY CallTypes, TopIs DEF Running, Top, Op

LEMMA InnerKeeps ==
    ASSUME CallInv, Statement \/ Enter \/ Return \/ Done
    PROVE  CallInv'
<1>1. /\ x \in Sender /\ stack \in Seq(Call) /\ Depth(stack) <= MaxDepth
      /\ Stacked(stack, x) /\ PinHasAp2(x) /\ MaxDepth \in Nat
  BY CallTypes
<1>2. CASE Statement
  <2>1. /\ stack # <<>> /\ stack[1].in = "none" /\ stack[1].todo # <<>>
        /\ Top = stack[1] /\ Op = Head(stack[1].todo)
    BY <1>2, RunningIs DEF Statement
  <2>2. /\ Head(stack[1].todo) \notin Callbacks \cup Reads
        /\ x' = Do(x, Head(stack[1].todo))
        /\ stack' = Replaced(stack, Tail(stack[1].todo), "none")
    BY <1>2, <2>1 DEF Statement, Replace, Replaced, Reads, Loop
  <2>3. /\ x' \in Sender /\ PinHasAp2(x') /\ stack' \in Seq(Call) /\ Depth(stack') = Depth(stack)
        /\ Stacked(stack', x')
    BY <1>1, <2>1, <2>2, StatementStep
  <2> QED
    BY <1>1, <2>3, CallNow
<1>3. CASE Enter
  <2>1. /\ stack # <<>> /\ stack[1].in = "none" /\ stack[1].todo # <<>>
        /\ Top = stack[1] /\ Op = Head(stack[1].todo)
    BY <1>3, RunningIs DEF Enter
  <2>2. /\ Head(stack[1].todo) \in Callbacks /\ x' = x
        /\ stack' = Replaced(stack, Tail(stack[1].todo), Head(stack[1].todo))
    BY <1>3, <2>1 DEF Enter, Replace, Replaced
  <2>3. stack' \in Seq(Call) /\ Depth(stack') = Depth(stack) /\ Stacked(stack', x)
    BY <1>1, <2>1, <2>2, EnterStep
  <2> QED
    BY <1>1, <2>2, <2>3, CallNow
<1>4. CASE Return
  <2>0. stack # <<>> /\ Top = stack[1]
    BY <1>1, <1>4, TopIs DEF Return, InCallback, Top
  <2>1. /\ stack # <<>> /\ stack[1].in # "none" /\ x' = x
        /\ stack' = Replaced(stack, stack[1].todo, "none")
    BY <1>4, <2>0 DEF Return, InCallback, Replace, Replaced
  <2>2. stack' \in Seq(Call) /\ Depth(stack') = Depth(stack) /\ Stacked(stack', x)
    BY <1>1, <2>1, ReturnStep
  <2> QED
    BY <1>1, <2>1, <2>2, CallNow
<1>5. CASE Done
  <2>1. /\ stack # <<>> /\ stack[1].in = "none" /\ stack[1].todo = <<>> /\ x' = x
        /\ stack' = Tail(stack)
    BY <1>1, <1>5, TopIs DEF Done, Top
  <2>2. stack' \in Seq(Call) /\ Depth(stack') <= Depth(stack) /\ Stacked(stack', x)
    BY <1>1, <2>1, DoneStep
  <2>3. Depth(stack') \in Nat /\ Depth(stack) \in Nat
    BY <1>1, <2>2, DepthOf
  <2>4. Depth(stack') <= MaxDepth
    BY <1>1, <2>2, <2>3
  <2> QED
    BY <1>1, <2>1, <2>2, <2>4, CallNow
<1> QED
  BY <1>2, <1>3, <1>4, <1>5

LEMMA ReadKeeps ==
    ASSUME CallInv, ReadNext \/ ReadNextUnlessIdle
    PROVE  CallInv'
<1>1. /\ x \in Sender /\ stack \in Seq(Call) /\ Depth(stack) <= MaxDepth
      /\ Stacked(stack, x) /\ PinHasAp2(x) /\ MaxDepth \in Nat
  BY CallTypes
<1>2. /\ stack # <<>> /\ stack[1].in = "none" /\ stack[1].todo # <<>>
      /\ Top = stack[1] /\ Op = Head(stack[1].todo)
  BY RunningIs DEF ReadNext, ReadNextUnlessIdle
<1>3. Head(stack[1].todo) \in Reads
  BY <1>2 DEF ReadNext, ReadNextUnlessIdle, Reads, Loop
<1>4. <<>> \in Seq(Ops) /\ <<"readNext">> \in Seq(Ops)
  BY DEF Ops
<1>5. CASE ReadNext /\ x.rx = <<>>
  <2>1. stack[1].todo = <<"readNext">>
    BY <1>1, <1>2, <1>3, <1>5, Reading DEF ReadNext
  <2> DEFINE t == Tail(stack[1].todo)
  <2>2. t \in Seq(Ops) /\ t = <<>>
    BY <1>4, <2>1
  <2>3. x' = x /\ stack' = Replaced(stack, t, "none")
    BY <1>2, <1>5 DEF ReadNext, Replace, Replaced
  <2> HIDE DEF t
  <2>4. stack' \in Seq(Call) /\ Depth(stack') = Depth(stack) /\ Stacked(stack', x)
    BY <1>1, <1>2, <1>3, <1>4, <2>2, <2>3, EmptyStep
  <2> QED
    BY <1>1, <2>3, <2>4, CallNow
<1>6. CASE ReadNext /\ x.rx # <<>>
  <2>1. Head(stack[1].todo) = "readNext"
    BY <1>2, <1>6 DEF ReadNext
  <2>2. x' = Shorter(x)
    BY <1>1, <1>6 DEF ReadNext, Sender, Shorter
  <2>3. PICK h \in Handlers(x) : stack' = Replaced(stack, h \o <<Loop>>, "none")
    BY <1>6 DEF ReadNext, Replace, Replaced, Loop
  <2>4. /\ x' \in Sender /\ PinHasAp2(x') /\ stack' \in Seq(Call) /\ Depth(stack') = Depth(stack)
        /\ Stacked(stack', x')
    BY <1>1, <1>2, <1>6, <2>1, <2>2, <2>3, ReplyStep
  <2> QED
    BY <1>1, <2>4, CallNow
<1>7. CASE ReadNextUnlessIdle
  <2> DEFINE t == IF x.state = "Idle" THEN <<>> ELSE <<"readNext">>
  <2>1. x' = x /\ stack' = Replaced(stack, t, "none")
    BY <1>7 DEF ReadNextUnlessIdle, Replace, Replaced
  <2>2. t \in Seq(Ops) /\ (t = <<>> \/ (t = <<"readNext">> /\ x.state # "Idle"))
    BY <1>4, Zenon
  <2> HIDE DEF t
  <2>3. stack' \in Seq(Call) /\ Depth(stack') = Depth(stack) /\ Stacked(stack', x)
    BY <1>1, <1>2, <1>3, <2>1, <2>2, EmptyStep
  <2> QED
    BY <1>1, <2>1, <2>3, CallNow
<1> QED
  BY <1>5, <1>6, <1>7

LEMMA CallStep ==
    ASSUME StartIn \subseteq LastCalls, CallInv, [Next]_vars
    PROVE  CallInv'
<1>1. CASE UNCHANGED vars
  <2>1. x' = x /\ stack' = stack
    BY <1>1 DEF vars
  <2> QED
    BY <2>1, CallTypes, CallNow
<1>2. CASE Next
  BY <1>2, StartKeeps, StopKeeps, SubmitPinKeeps, OnTcpConnectedKeeps, OnTcpClosedKeeps,
     OnTimeoutKeeps, OnTcpDataKeeps, InnerKeeps, ReadKeeps DEF Next
<1> QED
  BY <1>1, <1>2

LEMMA CallInit == Init => CallInv
<1> SUFFICES ASSUME Init PROVE CallInv
  OBVIOUS
<1>1. <<>> \in Seq(0 .. MaxGen) /\ <<>> \in Seq(Call) /\ Len(<<>>) = 0
  OBVIOUS
<1>2. stack = <<>> /\ 0 \in 0 .. MaxGen /\ MaxDepth \in Nat
  BY BoundsAssumption DEF Init
<1>3. x \in Sender
  BY <1>1, <1>2 DEF Init, Sender, States
<1>4. Settled(x) /\ PinHasAp2(x)
  BY DEF Init, Settled, PinHasAp2
<1>5. TypeOK
  BY <1>1, <1>2, <1>3 DEF TypeOK
<1>6. Depth(stack) = 0
  BY <1>1, <1>2 DEF Depth
<1>7. Stacked(stack, x)
  BY <1>4, <1>6 DEF Stacked
<1> QED
  BY <1>4, <1>5, <1>7 DEF CallInv

----------------------------------------------------------------------------
(* The theorems. *)

\* The inductive invariant: at every point of every call, the outermost and the ones
\* nested in it, what the functions have done of their work so far, whatever the
\* host calls inside the callbacks, a submitPin() that fails or that comes after the
\* end of its session included (RaopSender and the hosts of RaopEvents).
THEOREM CallsCorrect ==
    ASSUME StartIn \subseteq LastCalls
    PROVE  Spec => []CallInv
<1>1. Init => CallInv
  BY CallInit
<1>2. CallInv /\ [Next]_vars => CallInv'
  BY CallStep
<1> QED
  BY <1>1, <1>2, PTL DEF Spec

\* Every callback is true when it is made, whatever the host did inside the ones
\* before it (fail_, onTcpClosed, startStreaming_, handlePairSetupM2_), but for the
\* outermost closed() of a session that the host submitted a PIN of after its end
\* (submitPin, whose waitingForPin_ the end of a session leaves set).
THEOREM CallbacksAreTrue ==
    ASSUME StartIn \subseteq LastCalls
    PROVE  Spec => []CallbacksTrue
<1>1. CallInv => CallbacksTrue
  <2> DEFINE So == /\ Op = "launchedTrue" => x.state = "Streaming" /\ x.gen = Top.gen
                   /\ Op = "closed" => \/ x.state = "Idle" /\ x.gen = Top.gen
                                       \/ Len(stack) = 1 /\ x.late = Top.gen
                   /\ Op = "pinRequired" => x.waitingForPin /\ x.state = "Pairing"
                   /\ Op = "launchedFalse" => x.state = "Idle"
  <2> SUFFICES ASSUME CallInv, Running, Op \in Callbacks PROVE So
    BY DEF CallbacksTrue, Callbacks
  <2>1. /\ stack # <<>> /\ stack[1].in = "none" /\ stack[1].todo # <<>>
        /\ Top = stack[1] /\ Op = Head(stack[1].todo)
    BY RunningIs
  <2>2. x \in Sender /\ stack \in Seq(Call) /\ Stacked(stack, x)
    BY CallTypes
  <2>3. Depth(stack) \in Nat \ {0}
    BY <2>1, <2>2, TopIs
  <2>4. CASE CallAt(stack[1].todo, x)
    <3>1. stack[1].todo = <<"launchedFalse">> /\ Quiet(x)
      BY <2>1, <2>2, <2>4, CallStatement
    <3>2. Op = "launchedFalse"
      BY <2>1, <3>1
    <3> QED
      BY <3>1, <3>2 DEF Quiet
  <2>5. CASE PinAt(stack[1].todo, x, stack[1].gen)
    <3>1. PinTells(Op, Tail(stack[1].todo), x, Top.gen)
      BY <2>1, <2>2, <2>5, PinStatement
    <3> QED
      BY <3>1 DEF PinTells, Quiet
  <2>6. CASE Depth(stack) = 1 /\ LoopAt(stack[1].todo, x, stack[1].gen)
    <3>1. IsSo(Op, x, Top.gen)
      BY <2>1, <2>2, <2>6, LoopStatement DEF Onward
    <3> QED
      BY <2>6, <3>1 DEF IsSo, Depth
  <2> QED
    BY <2>1, <2>2, <2>3, <2>4, <2>5, <2>6, At
<1> QED
  BY <1>1, CallsCorrect, PTL

\* When all calls have returned, a live session, also one begun inside a callback,
\* has its ports, its connection and its watchdog, and an ended one has left none of
\* its sockets (releaseSockets_, stop, start, fail_).
THEOREM SenderConsistent ==
    ASSUME StartIn \subseteq LastCalls
    PROVE  Spec => []SettledConsistent
<1>1. CallInv => SettledConsistent
  BY Rested DEF Settled, SettledConsistent
<1> QED
  BY <1>1, CallsCorrect, PTL

\* No code after a callback uses what the host made stale inside it: the loop over
\* rxBuf_ takes no reply of an ended session, and the pairing handlers find their
\* ap2_ (onRtspReadyRead_, handlePairSetupM6_, submitPin).
THEOREM NothingStale ==
    ASSUME StartIn \subseteq LastCalls
    PROVE  Spec => []NothingStaleUsed
<1>1. CallInv => NothingStaleUsed
  <2> SUFFICES ASSUME CallInv PROVE RepliesOfThisSession /\ Ap2OutlivesCallback
    BY DEF NothingStaleUsed, CallInv
  <2> SUFFICES ASSUME Running
               PROVE  /\ Op = "readNext" /\ x.rx # <<>> => Head(x.rx) = x.gen
                      /\ Op \in {"proof", "pairVerify"} => x.ap2
    BY DEF RepliesOfThisSession, Ap2OutlivesCallback
  <2>1. /\ stack # <<>> /\ stack[1].in = "none" /\ stack[1].todo # <<>>
        /\ Top = stack[1] /\ Op = Head(stack[1].todo)
    BY RunningIs
  <2>2. x \in Sender /\ stack \in Seq(Call) /\ Stacked(stack, x) /\ PinHasAp2(x)
    BY CallTypes
  <2>3. ASSUME Op = "readNext", x.rx # <<>> PROVE Head(x.rx) = x.gen
    <3>1. Settled(x) /\ x.state # "Idle"
      BY <2>1, <2>2, <2>3, Reading DEF Reads
    <3> QED
      BY <2>2, <2>3, <3>1, Taken
  <2>4. ASSUME Op \in {"proof", "pairVerify"} PROVE x.ap2
    <3>1. Depth(stack) \in Nat \ {0}
      BY <2>1, <2>2, TopIs
    <3>2. CASE CallAt(stack[1].todo, x)
      BY <2>1, <2>2, <2>4, <3>2, CallStatement
    <3>4. CASE PinAt(stack[1].todo, x, stack[1].gen)
      BY <2>1, <2>2, <2>4, <3>4, PinStatement DEF PinHasAp2
    <3>3. CASE LoopAt(stack[1].todo, x, stack[1].gen)
      BY <2>1, <2>2, <2>4, <3>3, LoopStatement DEF Onward
    <3> QED
      BY <2>1, <2>2, <3>1, <3>2, <3>3, <3>4, At
  <2> QED
    BY <2>3, <2>4
<1> QED
  BY <1>1, CallsCorrect, PTL
============================================================================
