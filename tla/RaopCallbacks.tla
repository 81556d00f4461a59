--------------------------- MODULE RaopCallbacks ---------------------------
(***************************************************************************)
(* Re-entrancy of RaopSender.  Every callback of RaopEvents fires from     *)
(* inside a sender call, and the host may call back into the sender before *)
(* the callback returns ("calling stop() is fine", raop_sender.h).  What   *)
(* RaopSession takes as one step is here a program: the sequence of the    *)
(* state changes and callbacks of the C++ function, in their order, on a   *)
(* stack of calls; during a callback the host may push another call.       *)
(*                                                                         *)
(* Only what such a nested call can disturb is kept: the state, the        *)
(* watchdogs, the sockets, the pairing object ap2_, the replies buffered   *)
(* in rxBuf_, and the session (gen) that a call began in.                  *)
(***************************************************************************)
EXTENDS Naturals, Sequences

CONSTANTS
    StartIn,    \* the callbacks in which the host calls start()
    MaxGen,     \* bound on the sessions
    MaxDepth,   \* bound on the nesting of calls
    MaxRx       \* bound on the replies that arrive together

Callbacks == {"launchedFalse", "launchedTrue", "closed", "pinRequired",
              "credentialsObtained"}

\* The callbacks after which the calling function has nothing left to do.
LastCalls == {"launchedTrue", "closed", "pinRequired"}

ASSUME BoundsAssumption ==
    /\ StartIn \subseteq Callbacks
    /\ MaxGen \in Nat /\ MaxDepth \in Nat \ {0} /\ MaxRx \in Nat \ {0}

VARIABLES
    x,       \* the sender and its sockets
    stack    \* the calls under way, the innermost first

vars == <<x, stack>>

States   == {"Idle", "Connecting", "Pairing", "Handshake", "Streaming"}
Starting == {"Connecting", "Pairing", "Handshake"}
Ops == Callbacks \cup
       {"idle", "stopTimers", "closeControl", "release", "reset", "bind",
        "connecting", "connect", "streaming", "waitForPin", "proof",
        "pairVerify", "readNext", "readNextUnlessIdle"}

Sender == [state : States, watchdogs : SUBSET {"timeout", "pinTimeout"},
           ctl : {"closed", "connecting", "open"}, udp : BOOLEAN,
           ap2 : BOOLEAN,                 \* is there an ap2_?
           waitingForPin : BOOLEAN,
           rx : Seq(0..MaxGen),           \* rxBuf_: the sessions its replies are of
           gen : 0..MaxGen,
           late : 0..MaxGen]   \* history: the last session the host submitted a
                               \* PIN of after it had ended, 0 if none

\* A call: what is left to do, the callback it is in, the session it began in.
Call == [todo : Seq(Ops), in : Callbacks \cup {"none"}, gen : 0..MaxGen]

----------------------------------------------------------------------------
(* The functions of the class, as programs. *)

\* Mutant: the host is told before the sockets are closed.
fail_Early(y) ==
    <<"idle">> \o (IF y.state # "Streaming" THEN <<"launchedFalse">> ELSE <<>>)
    \o <<"closed", "stopTimers", "closeControl", "release">>

fail_(y) ==
    <<"idle", "stopTimers", "closeControl", "release">>
    \o (IF y.state # "Streaming" THEN <<"launchedFalse">> ELSE <<>>) \o <<"closed">>

\* Mutant: the session is taken as over only after the host has been told.
closedByPeer_Late(y) ==
    <<"closeControl", "stopTimers", "release">>
    \o (IF y.state # "Streaming" THEN <<"launchedFalse">> ELSE <<>>)
    \o <<"closed", "idle">>

\* onTcpClosed with no reason, a FIN: the host has released the socket.
closedByPeer(y) ==
    <<"closeControl", "idle", "stopTimers", "release">>
    \o (IF y.state # "Streaming" THEN <<"launchedFalse">> ELSE <<>>) \o <<"closed">>

stop(y) ==
    IF y.state = "Idle" THEN <<>>
    ELSE <<"stopTimers", "idle", "closeControl", "release">>

start(y, bindOk) ==
    stop(y) \o <<"reset", "bind">>
    \o IF bindOk THEN <<"connecting", "connect">> ELSE <<"release", "launchedFalse">>

\* sendPairSetupM3_, called last, fails if the receiver's parameters are bad.
submitPin(y, paramsOk) ==
    IF ~y.waitingForPin THEN <<>>
    ELSE <<"proof">> \o (IF paramsOk THEN <<>> ELSE fail_(y))

startStreaming_ == <<"streaming", "launchedTrue">>

\* The reply to M1 asks the user for the code; the reply to M5 hands the new
\* credentials to the host and goes on to pair-verify.
handlePairSetupM2_ == <<"waitForPin", "pinRequired">>
handlePairSetupM6_ == <<"credentialsObtained", "pairVerify">>

\* The handlers a reply may be dispatched to; <<>> stands for the ones that
\* end no session and call nobody back.
Handlers(y) ==
    {<<>>, fail_(y)}
    \cup (IF y.state = "Pairing" /\ ~y.waitingForPin
          THEN {handlePairSetupM2_, handlePairSetupM6_} ELSE {})
    \cup (IF y.state \in {"Pairing", "Handshake"} /\ ~y.waitingForPin
          THEN {startStreaming_} ELSE {})

----------------------------------------------------------------------------
(* What each statement does. *)

\* Mutant: the replies of the session before stay in rxBuf_.
Reset_KeepsRx(y) ==
    [y EXCEPT !.gen = @ + 1, !.ap2 = FALSE, !.waitingForPin = FALSE]

Reset(y) ==
    [y EXCEPT !.gen = @ + 1, !.ap2 = FALSE, !.waitingForPin = FALSE, !.rx = <<>>]

\* Mutant: releaseSockets_ lets go of the pairing state, too.
Release_Ap2(y) == [y EXCEPT !.udp = FALSE, !.ap2 = FALSE]

Release(y) == [y EXCEPT !.udp = FALSE]

WaitForPin(y) ==
    [y EXCEPT !.waitingForPin = TRUE,
              !.watchdogs = (@ \ {"timeout"}) \cup {"pinTimeout"}]

\* submitPin, and what sendPairSetupM3_ does with ap2_ before it may fail.
Proof(y) ==
    [y EXCEPT !.waitingForPin = FALSE,
              !.watchdogs = (@ \ {"pinTimeout"}) \cup {"timeout"}]

Do(y, op) ==
    CASE op = "idle"         -> [y EXCEPT !.state = "Idle"]
      [] op = "stopTimers"   -> [y EXCEPT !.watchdogs = {}]
      [] op = "closeControl" -> [y EXCEPT !.ctl = "closed"]
      [] op = "release"      -> Release(y)
      [] op = "reset"        -> Reset(y)
      [] op = "bind"         -> [y EXCEPT !.udp = TRUE]
      [] op = "connecting"   -> [y EXCEPT !.state = "Connecting",
                                          !.watchdogs = @ \cup {"timeout"}]
      [] op = "connect"      -> [y EXCEPT !.ctl = "connecting"]
      [] op = "streaming"    -> [y EXCEPT !.state = "Streaming",
                                          !.watchdogs = @ \ {"timeout"}]
      [] op = "waitForPin"   -> WaitForPin(y)
      [] op = "proof"        -> Proof(y)
      [] op = "pairVerify"   -> [y EXCEPT !.watchdogs = @ \cup {"timeout"}]

----------------------------------------------------------------------------
(* The machine. *)

Init ==
    /\ x = [state |-> "Idle", watchdogs |-> {}, ctl |-> "closed", udp |-> FALSE,
            ap2 |-> FALSE, waitingForPin |-> FALSE, rx |-> <<>>, gen |-> 0, late |-> 0]
    /\ stack = <<>>

Top == Head(stack)
Op  == Head(Top.todo)
InCallback == stack # <<>> /\ Top.in # "none"
Running    == stack # <<>> /\ Top.in = "none" /\ Top.todo # <<>>

Push(prog) == stack' = <<[todo |-> prog, in |-> "none", gen |-> x.gen]>> \o stack

Replace(todo, in) == stack' = [stack EXCEPT ![1].todo = todo, ![1].in = in]

\* What the host calls: from outside, or inside a callback.
HostMay(ok) == Len(stack) < MaxDepth /\ (stack = <<>> \/ (InCallback /\ ok))

Start(bindOk) ==
    /\ HostMay(stack # <<>> => Top.in \in StartIn)
    /\ x.gen < MaxGen
    /\ Push(start(x, bindOk))
    /\ UNCHANGED x

Stop      == HostMay(TRUE) /\ x.state # "Idle" /\ Push(stop(x)) /\ UNCHANGED x

\* waitingForPin_ outlives its session: fail_, onTcpClosed and stop leave it set.
SubmitPin(paramsOk) ==
    /\ HostMay(TRUE) /\ x.waitingForPin
    /\ Push(submitPin(x, paramsOk))
    /\ x' = [x EXCEPT !.late = IF x.state = "Idle" THEN x.gen ELSE @]

\* What the event loop calls, only when no call is under way.
OnTcpConnected(hap) ==
    /\ stack = <<>> /\ x.ctl = "connecting"
    /\ x' = [x EXCEPT !.ctl = "open", !.state = IF hap THEN "Pairing" ELSE "Handshake",
                      !.ap2 = hap, !.watchdogs = @ \cup {"timeout"}]
    /\ UNCHANGED stack

OnTcpClosed(reason) ==
    /\ stack = <<>> /\ x.ctl # "closed"
    /\ Push(IF reason = "fin" /\ x.ctl = "open" THEN closedByPeer(x) ELSE fail_(x))
    /\ UNCHANGED x

\* tick: a watchdog is due. One that a late PIN has armed finds no session.
TimedOut(t) ==
    IF t = "pinTimeout" THEN x.waitingForPin
    ELSE ~x.waitingForPin /\ x.state \in Starting

OnTimeout(t) ==
    /\ stack = <<>> /\ t \in x.watchdogs
    /\ x' = [x EXCEPT !.watchdogs = @ \ {t},
                      !.waitingForPin = @ /\ t # "pinTimeout"]
    /\ IF TimedOut(t) THEN Push(fail_(x)) ELSE UNCHANGED stack

\* onRtspReadyRead_: n more replies, then the loop over what rxBuf_ holds.
OnTcpData(n) ==
    /\ stack = <<>> /\ x.ctl = "open"
    /\ Len(x.rx) + n <= MaxRx
    /\ x' = [x EXCEPT !.rx = @ \o [i \in 1..n |-> x.gen]]
    /\ Push(<<"readNext">>)

----------------------------------------------------------------------------
(* The innermost call goes on. *)

Statement ==
    /\ Running
    /\ Op \notin Callbacks \cup {"readNext", "readNextUnlessIdle"}
    /\ x' = Do(x, Op)
    /\ Replace(Tail(Top.todo), "none")

Enter ==
    /\ Running /\ Op \in Callbacks
    /\ Replace(Tail(Top.todo), Op)
    /\ UNCHANGED x

Return ==
    /\ InCallback
    /\ Replace(Top.todo, "none")
    /\ UNCHANGED x

\* The next reply is taken out of rxBuf_, then dispatched; afterwards the loop
\* ends if the session has.
ReadNext ==
    /\ Running /\ Op = "readNext"
    /\ IF x.rx = <<>>
       THEN Replace(Tail(Top.todo), "none") /\ UNCHANGED x
       ELSE /\ x' = [x EXCEPT !.rx = Tail(@)]
            /\ \E h \in Handlers(x) : Replace(h \o <<"readNextUnlessIdle">>, "none")

ReadNextUnlessIdle ==
    /\ Running /\ Op = "readNextUnlessIdle"
    /\ Replace(IF x.state = "Idle" THEN <<>> ELSE <<"readNext">>, "none")
    /\ UNCHANGED x

Done ==
    /\ stack # <<>> /\ Top.in = "none" /\ Top.todo = <<>>
    /\ stack' = Tail(stack)
    /\ UNCHANGED x

Next ==
    \/ \E ok \in BOOLEAN : Start(ok)
    \/ Stop
    \/ \E ok \in BOOLEAN : SubmitPin(ok)
    \/ \E hap \in BOOLEAN : OnTcpConnected(hap)
    \/ \E reason \in {"fin", "error"} : OnTcpClosed(reason)
    \/ \E t \in {"timeout", "pinTimeout"} : OnTimeout(t)
    \/ \E n \in 1..MaxRx : OnTcpData(n)
    \/ Statement \/ Enter \/ Return \/ ReadNext \/ ReadNextUnlessIdle \/ Done

Spec == Init /\ [][Next]_vars

----------------------------------------------------------------------------
(* Properties. *)

\* Type invariant.
TypeOK == x \in Sender /\ stack \in Seq(Call) /\ Len(stack) <= MaxDepth

\* A callback is true when it is made, whatever the host did inside the ones
\* before it: launched(false) and closed() find the session they are about
\* over and no other begun, launched(true) finds it streaming, pinRequired
\* finds the sender waiting (fail_ and onTcpClosed call two of them in a row).
\* Exempt is the closed() of a session whose PIN the host submits when it has
\* ended, from its launched(false): if M3 fails then, a closed() inside
\* that callback comes first, a session begun in it lives when the outer one is made.
CallbacksTrue ==
    Running /\ Op \in Callbacks =>
        CASE Op = "launchedTrue" -> x.state = "Streaming" /\ x.gen = Top.gen
          [] Op = "closed"       -> \/ x.state = "Idle" /\ x.gen = Top.gen
                                    \/ Len(stack) = 1 /\ x.late = Top.gen
          [] Op = "pinRequired"  -> x.waitingForPin /\ x.state = "Pairing"
          [] OTHER               -> Op = "launchedFalse" => x.state = "Idle"

\* When the outermost call has returned, the session that is live then, the one
\* begun inside a callback too, has its ports, its connection and its watchdog,
\* and an ended one has left none of its sockets.
SettledConsistent ==
    stack = <<>> =>
        IF x.state = "Idle" THEN x.ctl = "closed" /\ ~x.udp
        ELSE /\ x.udp /\ x.ctl # "closed"
             /\ x.state \in Starting =>
                   (IF x.waitingForPin THEN "pinTimeout" ELSE "timeout") \in x.watchdogs

\* onRtspReadyRead_ goes on with its loop after the handler it called: the
\* reply it takes next came on the connection of the session that is live now.
RepliesOfThisSession ==
    Running /\ Op = "readNext" /\ x.rx # <<>> => Head(x.rx) = x.gen

\* The statements after a callback, and submitPin inside one, still find the
\* pairing object they use.
Ap2OutlivesCallback ==
    Running /\ Op \in {"proof", "pairVerify"} => x.ap2

\* What goes on after a callback, whatever the host did inside it, works on the
\* session that is live then: onRtspReadyRead_ takes no reply of an ended one,
\* and the pairing handlers find the ap2_ they use.
NothingStaleUsed == TypeOK /\ RepliesOfThisSession /\ Ap2OutlivesCallback

============================================================================
