----------------------------- MODULE HapPairing -----------------------------
(***************************************************************************)
(* HomeKit pairing: the messages M1..M6 of pair-setup (SRP-6a) and M1..M4  *)
(* of pair-verify (X25519, Ed25519), and the keys that come out of them.   *)
(*                                                                         *)
(* RaopSession has the control flow of pairing and takes a reply for good, *)
(* forged or an error; here the replies come from a receiver, and whether  *)
(* they verify is computed.  The SRP arithmetic is done in a small group;  *)
(* the other primitives are symbolic: a hash or derived key is the tuple   *)
(* of what goes into it, a signature opens under its own key and message   *)
(* only, a shared secret is the pair of the two private keys.              *)
(***************************************************************************)
EXTENDS Integers, Sequences, FiniteSets

CONSTANTS
    N, g,          \* the group: a prime and a generator (RFC 5054, 3072 bits)
    k,             \* H(N | g)
    Hu(_, _),      \* H(A | B)
    Hx(_, _),      \* H(salt | H("Pair-Setup:" pin))
    Secrets,       \* the ephemeral secrets a and b
    Salts, Pins,
    FixedPin,      \* "3939", the PIN of transient pairing
    MaxSessions    \* bound on the connections

ASSUME GroupAssumption ==
    /\ N \in Nat /\ N > 2 /\ g \in 1..N - 1 /\ k \in Nat
    /\ Secrets \subseteq Nat /\ MaxSessions \in Nat
    /\ \A p \in Pins \cup {FixedPin}, t \in Salts : Hx(t, p) \in Nat
    /\ \A A, B \in 0..N - 1 : Hu(A, B) \in Nat

VARIABLES
    session,   \* connections made so far
    auth,      \* authMethod_
    tried,     \* triedTransientAfterPin403_
    stage,     \* pairStage_; "WaitPin" while waitingForPin_, "None" when no
               \* session is up, "Ready" once the audio key is set
    ap2,       \* *ap2_, srpSalt_, srpServerB_
    creds,     \* the credentials the host keeps; ltsk = 0 before there are any
    mismatch,  \* history: a proof or signature of the receiver did not verify
    msg,       \* the request or reply under way
    rcv        \* the receiver

vars == <<session, auth, tried, stage, ap2, creds, mismatch, msg, rcv>>

----------------------------------------------------------------------------
(* Primitives.  A byte string is a sequence of blocks of 32 bytes. *)

PowMod(b, e) == LET p[i \in 0..e] == IF i = 0 THEN 1 ELSE (p[i - 1] * b) % N IN p[e]

sha512(x)        == <<<<"sha512", x, 1>>, <<"sha512", x, 2>>>>
hkdf(label, ikm) == <<<<label, ikm>>>>

ed25519Public(seed)        == <<"public", seed>>
ed25519Sign(seed, m)       == [signer |-> ed25519Public(seed), signed |-> m]
ed25519Verify(pub, m, sig) == sig.signer = pub /\ sig.signed = m

x25519Public(priv)            == <<"point", priv>>
x25519SharedSecret(priv, pub) == <<{priv, pub[2]}>>

chachaEncrypt(key, nonce, x) == [key |-> key, nonce |-> nonce, plain |-> x]
chachaOpens(key, nonce, c)   == c.key = key /\ c.nonce = nonce

----------------------------------------------------------------------------
(* SRP-6a, the client: SrpClient. *)

\* Mutant: u is left out of the exponent.
clientS_NoU(a, B, u, x) == PowMod((B - k * PowMod(g, x)) % N, a + x)

clientS(a, B, u, x) == PowMod((B - k * PowMod(g, x)) % N, a + u * x)

proofM1(salt, A, B, K) == sha512(<<salt, A, B, K>>)
proofM2(A, M1, K)      == sha512(<<A, M1, K>>)

srpClient(pin, a, salt, B) ==
    LET A == PowMod(g, a)
        K == sha512(clientS(a, B, Hu(A, B), Hx(salt, pin)))
    IN  [password |-> pin, A |-> A, K |-> K, M1 |-> proofM1(salt, A, B, K)]

verifyServerProof(srp, M2) == M2 = proofM2(srp.A, srp.M1, srp.K)

----------------------------------------------------------------------------
(* The keys of a session. *)

NoKeys == [controlOut |-> <<>>, controlIn |-> <<>>, eventOut |-> <<>>,
           eventIn |-> <<>>, audio |-> <<>>]

\* Mutant: the control keys of the other side.
withControlKeys_Swapped(keys, secret) ==
    [keys EXCEPT !.controlOut = hkdf("Control-Read", secret),
                 !.controlIn  = hkdf("Control-Write", secret)]

withControlKeys(keys, secret) ==
    [keys EXCEPT !.controlOut = hkdf("Control-Write", secret),
                 !.controlIn  = hkdf("Control-Read", secret)]

\* The event channel is a reverse connection, so the names are swapped.
withEventKeys(keys, secret) ==
    [keys EXCEPT !.eventOut = hkdf("Events-Read", secret),
                 !.eventIn  = hkdf("Events-Write", secret)]

\* The first 32 bytes of the shared secret, which transient pairing makes 64.
audioKey(secret) == SubSeq(secret, 1, 1)

\* The keys of the pairing messages, and what the signatures in them cover.
setupKey(K)           == hkdf("Pair-Setup-Encrypt", K)
setupInfo(K, id, pub) == <<hkdf("Pair-Setup-Controller-Sign", K), id, pub>>
verifyKey(secret)     == hkdf("Pair-Verify-Encrypt", secret)

\* Mutant: the two ephemeral keys in the order of our own half.
accessoryInfo_Swapped(theirPub, id, ourPub) == <<ourPub, id, theirPub>>

accessoryInfo(theirPub, id, ourPub)  == <<theirPub, id, ourPub>>
controllerInfo(ourPub, id, theirPub) == <<ourPub, id, theirPub>>

----------------------------------------------------------------------------
(* The sender. *)

Quiet == [to |-> "nobody", type |-> "none", body |-> <<>>]

Ask(type, body) == msg' = [to |-> "receiver", type |-> type, body |-> body]

FreshAp2 == [ltSeed |-> 0, accessoryLtpk |-> <<>>, salt |-> <<>>, B |-> <<>>,
             srp |-> <<>>, verifyPriv |-> <<>>, secret |-> <<>>, keys |-> NoKeys]

pairingId(seed) == <<"client", seed>>

Init ==
    /\ session = 0 /\ auth = "HapPin" /\ tried = FALSE /\ stage = "None"
    /\ ap2 = FreshAp2 /\ creds = [ltsk |-> 0, ltpk |-> <<>>]
    /\ mismatch = FALSE /\ msg = Quiet
    /\ rcv \in [transientOk : BOOLEAN, pinOk : BOOLEAN, pin : {0}, srp : {<<>>},
                controllers : {{}}, verify : {<<>>}, keys : {NoKeys}, encrypted : {FALSE},
                forgot : {FALSE}]

\* The session ends: fail_, stop(), a watchdog, the connection.
Over == stage' = "None" /\ msg' = Quiet

\* Ephemeral keys are fresh random values, named by the session they are of.
sendPairVerifyM1_(x, n) ==
    LET priv == <<"sender", n>>
    IN  /\ ap2' = [x EXCEPT !.verifyPriv = priv]
        /\ stage' = "VerifyM2"
        /\ Ask("VerifyM1", x25519Public(priv))

sendPairSetupM1_(x, transient) ==
    /\ ap2' = x /\ stage' = "SetupM2" /\ Ask("M1", transient)

sendPairPinStart_(x) == ap2' = x /\ stage' = "PinStart" /\ Ask("PinStart", <<>>)

\* start(), then beginAuthChain_ on the new connection.
Connect(method) ==
    /\ stage = "None" /\ session < MaxSessions
    /\ session' = session + 1 /\ auth' = method /\ tried' = FALSE
    /\ CASE method = "HapTransient" -> sendPairSetupM1_(FreshAp2, TRUE)
         [] method = "HapPin" /\ creds.ltsk # 0 ->
               sendPairVerifyM1_([FreshAp2 EXCEPT !.ltSeed = creds.ltsk,
                                                  !.accessoryLtpk = creds.ltpk],
                                 session + 1)
         [] OTHER -> sendPairPinStart_(FreshAp2)
    /\ rcv' = [rcv EXCEPT !.srp = <<>>, !.verify = <<>>, !.keys = NoKeys, !.encrypted = FALSE]
    /\ UNCHANGED <<creds, mismatch>>

End ==
    /\ stage # "None"
    /\ Over
    /\ UNCHANGED <<session, auth, tried, ap2, creds, mismatch, rcv>>

Answer(type, st) == msg.to = "sender" /\ msg.type = type /\ stage = st

sendPairSetupM3_(x, pin, a) ==
    IF x.B % N = 0 THEN Over /\ ap2' = x
    ELSE LET srp == srpClient(pin, a, x.salt, x.B)
         IN  /\ ap2' = [x EXCEPT !.srp = srp]
             /\ stage' = "SetupM4"
             /\ Ask("M3", [A |-> srp.A, M1 |-> srp.M1])

\* 403: the receiver shows no PIN; transient pairing is tried, once.
OnPinStart ==
    /\ Answer("PinStart", "PinStart")
    /\ IF msg.body = 200
       THEN sendPairSetupM1_(ap2, FALSE) /\ UNCHANGED <<auth, tried>>
       ELSE IF tried THEN Over /\ UNCHANGED <<ap2, auth, tried>>
       ELSE sendPairSetupM1_(FreshAp2, TRUE) /\ auth' = "HapTransient" /\ tried' = TRUE
    /\ UNCHANGED <<session, creds, mismatch, rcv>>

\* 470: the receiver wants a PIN.
OnM1Refused ==
    /\ Answer("M1Refused", "SetupM2")
    /\ IF auth = "HapTransient"
       THEN sendPairPinStart_(FreshAp2) /\ auth' = "HapPin"
       ELSE Over /\ UNCHANGED <<ap2, auth>>
    /\ UNCHANGED <<session, tried, creds, mismatch, rcv>>

handlePairSetupM2_(a) ==
    /\ Answer("M2", "SetupM2")
    /\ LET x == [ap2 EXCEPT !.salt = msg.body.salt, !.B = msg.body.B]
       IN  IF auth = "HapTransient" THEN sendPairSetupM3_(x, FixedPin, a)
           ELSE ap2' = x /\ stage' = "WaitPin" /\ msg' = Quiet
    /\ UNCHANGED <<session, auth, tried, creds, mismatch, rcv>>

submitPin(pin, a) ==
    /\ stage = "WaitPin"
    /\ sendPairSetupM3_(ap2, pin, a)
    /\ UNCHANGED <<session, auth, tried, creds, mismatch, rcv>>

OnRefused ==
    /\ msg.to = "sender" /\ msg.type = "error" /\ stage \in {"SetupM4", "SetupM6", "VerifyM2"}
    /\ Over
    /\ UNCHANGED <<session, auth, tried, ap2, creds, mismatch, rcv>>

\* Transient pairing ends here; otherwise the long-term keys are exchanged.
handlePairSetupM4_ ==
    /\ Answer("M4", "SetupM4")
    /\ mismatch' = (mismatch \/ ~verifyServerProof(ap2.srp, msg.body))
    /\ LET K    == ap2.srp.K
           seed == IF ap2.ltSeed = 0 THEN session ELSE ap2.ltSeed
           pub  == ed25519Public(seed)
           id   == pairingId(seed)
       IN  IF auth = "HapTransient"
           THEN /\ ap2' = [ap2 EXCEPT !.secret = K, !.keys = withControlKeys(@, K)]
                /\ stage' = "Done" /\ msg' = Quiet
           ELSE /\ ap2' = [ap2 EXCEPT !.ltSeed = seed]
                /\ stage' = "SetupM6"
                /\ Ask("M5", chachaEncrypt(setupKey(K), "PS-Msg05",
                              [id |-> id, pub |-> pub,
                               sig |-> ed25519Sign(seed, setupInfo(K, id, pub))]))
    /\ UNCHANGED <<session, auth, tried, creds, rcv>>

\* Mutant: the credentials carry our own public key.
credentials_OwnKey(x, ltpk) == [ltsk |-> x.ltSeed, ltpk |-> ed25519Public(x.ltSeed)]

credentials(x, ltpk) == [ltsk |-> x.ltSeed, ltpk |-> ltpk]

\* The host keeps what credentialsObtained hands it.
handlePairSetupM6_ ==
    /\ Answer("M6", "SetupM6")
    /\ IF ~chachaOpens(setupKey(ap2.srp.K), "PS-Msg06", msg.body)
       THEN Over /\ UNCHANGED <<ap2, creds>>
       ELSE /\ creds' = credentials(ap2, msg.body.plain.pub)
            /\ sendPairVerifyM1_([ap2 EXCEPT !.accessoryLtpk = msg.body.plain.pub],
                              session)
    /\ UNCHANGED <<session, auth, tried, mismatch, rcv>>

handlePairVerifyM2_ ==
    /\ Answer("VerifyM2", "VerifyM2")
    /\ LET their  == msg.body.pub
           our    == x25519Public(ap2.verifyPriv)
           secret == x25519SharedSecret(ap2.verifyPriv, their)
           sealed == msg.body.sealed
           id     == pairingId(ap2.ltSeed)
       IN  IF ~chachaOpens(verifyKey(secret), "PV-Msg02", sealed)
           THEN Over /\ UNCHANGED <<ap2, mismatch>>
           ELSE /\ mismatch' = (mismatch \/ ~ed25519Verify(ap2.accessoryLtpk,
                                    accessoryInfo(their, sealed.plain.id, our), sealed.plain.sig))
                /\ ap2' = [ap2 EXCEPT !.secret = secret,
                             !.keys = withEventKeys(withControlKeys(@, secret), secret)]
                /\ stage' = "VerifyDone"
                /\ Ask("VerifyM3", chachaEncrypt(verifyKey(secret), "PV-Msg03",
                         [id |-> id, sig |-> ed25519Sign(ap2.ltSeed,
                                                         controllerInfo(our, id, their))]))
    /\ UNCHANGED <<session, auth, tried, creds, rcv>>

\* The reply to pair-verify M3: its body is not looked at.
OnVerifyDone ==
    /\ msg.to = "sender" /\ stage = "VerifyDone"
    /\ stage' = "Done" /\ msg' = Quiet
    /\ UNCHANGED <<session, auth, tried, ap2, creds, mismatch, rcv>>

sendAp2SetupStream_ ==
    /\ stage = "Done"
    /\ stage' = "Ready"
    /\ ap2' = [ap2 EXCEPT !.keys.audio = audioKey(ap2.secret)]
    /\ UNCHANGED <<session, auth, tried, creds, mismatch, msg, rcv>>

----------------------------------------------------------------------------
(* The receiver, as the sender uses it and the tests play it. *)

Asked(type) == msg.to = "receiver" /\ msg.type = type

Reply(type, body) ==
    /\ msg' = [to |-> "sender", type |-> type, body |-> body]
    /\ UNCHANGED <<session, auth, tried, stage, ap2, creds, mismatch>>

RcvLtsk == 0
RcvId   == <<"accessory">>

RcvPinStart(pin) ==
    /\ Asked("PinStart")
    /\ Reply("PinStart", IF rcv.pinOk THEN 200 ELSE 403)
    /\ rcv' = [rcv EXCEPT !.pin = pin]

RcvM1(salt, b) ==
    /\ Asked("M1")
    /\ LET transient == msg.body
           x == Hx(salt, IF transient THEN FixedPin ELSE rcv.pin)
           B == (k * PowMod(g, x) + PowMod(g, b)) % N
       IN  IF transient /\ ~rcv.transientOk THEN Reply("M1Refused", 470) /\ UNCHANGED rcv
           ELSE /\ Reply("M2", [salt |-> salt, B |-> B])
                /\ rcv' = [rcv EXCEPT !.srp = [transient |-> transient, salt |-> salt, b |-> b,
                                               v |-> PowMod(g, x), B |-> B, K |-> <<>>]]

RcvKeyed(keys, secret, events) ==
    [keys EXCEPT !.controlIn  = hkdf("Control-Write", secret),
                 !.controlOut = hkdf("Control-Read", secret),
                 !.eventOut   = IF events THEN hkdf("Events-Write", secret) ELSE @,
                 !.eventIn    = IF events THEN hkdf("Events-Read", secret) ELSE @,
                 !.audio      = <<secret[1]>>]

RcvM3 ==
    /\ Asked("M3")
    /\ LET A == msg.body.A
           S == PowMod((A * PowMod(rcv.srp.v, Hu(A, rcv.srp.B))) % N, rcv.srp.b)
           K == sha512(S)
           M1 == proofM1(rcv.srp.salt, A, rcv.srp.B, K)
       IN  IF msg.body.M1 # M1 THEN Reply("error", <<>>) /\ UNCHANGED rcv
           ELSE /\ Reply("M4", proofM2(A, M1, K))
                /\ rcv' = IF rcv.srp.transient
                          THEN [rcv EXCEPT !.srp.K = K, !.encrypted = TRUE,
                                           !.keys = RcvKeyed(@, K, FALSE)]
                          ELSE [rcv EXCEPT !.srp.K = K]

RcvM5 ==
    /\ Asked("M5")
    /\ LET K   == rcv.srp.K
           sub == msg.body.plain
       IN  IF chachaOpens(setupKey(K), "PS-Msg05", msg.body)
              /\ ed25519Verify(sub.pub, setupInfo(K, sub.id, sub.pub), sub.sig)
           THEN /\ Reply("M6", chachaEncrypt(setupKey(K), "PS-Msg06",
                                   [id |-> RcvId, pub |-> ed25519Public(RcvLtsk)]))
                /\ rcv' = [rcv EXCEPT !.controllers = @ \cup {[id |-> sub.id, pub |-> sub.pub]}]
           ELSE Reply("error", <<>>) /\ UNCHANGED rcv

RcvVerifyM1 ==
    /\ Asked("VerifyM1")
    /\ LET priv   == <<"receiver", session>>
           secret == x25519SharedSecret(priv, msg.body)
           pub    == x25519Public(priv)
       IN  /\ Reply("VerifyM2", [pub |-> pub,
                       sealed |-> chachaEncrypt(verifyKey(secret), "PV-Msg02",
                          [id |-> RcvId, sig |-> ed25519Sign(RcvLtsk, <<pub, RcvId, msg.body>>)])])
           /\ rcv' = [rcv EXCEPT !.verify = [secret |-> secret, our |-> pub, their |-> msg.body]]

\* An unknown controller, or a signature that does not verify: an error item in
\* a reply with code 200.
RcvVerifyM3 ==
    /\ Asked("VerifyM3")
    /\ LET v   == rcv.verify
           sub == msg.body.plain
       IN  IF /\ chachaOpens(verifyKey(v.secret), "PV-Msg03", msg.body)
              /\ \E c \in rcv.controllers :
                    c.id = sub.id /\ ed25519Verify(c.pub, <<v.their, sub.id, v.our>>, sub.sig)
           THEN /\ Reply("VerifyM4", <<>>)
                /\ rcv' = [rcv EXCEPT !.encrypted = TRUE, !.keys = RcvKeyed(@, v.secret, TRUE)]
           ELSE Reply("error", <<>>) /\ UNCHANGED rcv

\* The user removes the sender from the receiver's list.
RcvForget ==
    /\ rcv.controllers # {}
    /\ rcv' = [rcv EXCEPT !.controllers = {}, !.forgot = TRUE]
    /\ UNCHANGED <<session, auth, tried, stage, ap2, creds, mismatch, msg>>

----------------------------------------------------------------------------

Sender ==
    \/ \E method \in {"HapTransient", "HapPin"} : Connect(method)
    \/ End \/ OnPinStart \/ OnM1Refused \/ OnRefused
    \/ \E a \in Secrets : handlePairSetupM2_(a) \/ \E pin \in Pins : submitPin(pin, a)
    \/ handlePairSetupM4_ \/ handlePairSetupM6_ \/ handlePairVerifyM2_
    \/ OnVerifyDone \/ sendAp2SetupStream_

Receiver ==
    \/ \E pin \in Pins : RcvPinStart(pin)
    \/ \E salt \in Salts, b \in Secrets : RcvM1(salt, b)
    \/ RcvM3 \/ RcvM5 \/ RcvVerifyM1 \/ RcvVerifyM3 \/ RcvForget

Next == Sender \/ Receiver

Spec == Init /\ [][Next]_vars

----------------------------------------------------------------------------
(* Properties. *)

Key == {<<>>} \cup {hkdf(l, ap2.secret) : l \in {"Control-Write", "Control-Read",
                                                  "Events-Write", "Events-Read"}}

\* Type invariant: a ChaCha20 key is 32 bytes, or there is none yet.
TypeOK ==
    /\ session \in 0..MaxSessions /\ auth \in {"HapTransient", "HapPin"} /\ tried \in BOOLEAN
    /\ stage \in {"None", "PinStart", "SetupM2", "WaitPin", "SetupM4", "SetupM6",
                  "VerifyM2", "VerifyDone", "Done", "Ready"}
    /\ \A f \in {"controlOut", "controlIn", "eventOut", "eventIn"} : ap2.keys[f] \in Key
    /\ Len(ap2.keys.audio) <= 1
    /\ ap2.ltSeed \in 0..MaxSessions /\ creds.ltsk \in 0..MaxSessions
    /\ msg.to \in {"nobody", "sender", "receiver"} /\ mismatch \in BOOLEAN

\* When the sender takes the pairing for done the receiver has switched to the
\* encrypted control channel too, and each side's keys are the other side's:
\* both directions of the control channel, of the event channel if it is keyed,
\* and the audio, whichever pairing, fallback or stored credentials led there.
\* The sender takes any reply with code 200 for an acknowledged M3, so a receiver
\* that has forgotten a pairing is the one exception, and it has no keys at all.
KeysAgree ==
    stage \in {"Done", "Ready"} =>
     \/ rcv.forgot /\ ~rcv.encrypted /\ rcv.keys = NoKeys
     \/ /\ rcv.encrypted
        /\ ap2.keys.controlOut = rcv.keys.controlIn /\ ap2.keys.controlIn = rcv.keys.controlOut
        /\ ap2.keys.eventOut = rcv.keys.eventIn /\ ap2.keys.eventIn = rcv.keys.eventOut
        /\ stage = "Ready" => ap2.keys.audio = rcv.keys.audio

\* A pairing the sender takes for done has left matching keys at both ends, on
\* every path through pair-setup, pair-verify and the fallbacks.
KeyedTogether == TypeOK /\ KeysAgree

\* The PIN on the receiver's screen is never turned down: client and server
\* compute the same S from their different formulas, whatever a, b and salt.
RightPinAccepted ==
    stage = "SetupM4" /\ msg.to = "sender" /\ msg.type = "error" =>
        ap2.srp.password # (IF rcv.srp.transient THEN FixedPin ELSE rcv.pin)

\* An honest receiver always proves itself: its SRP proof and its pair-verify
\* signature verify, so setStrictReceiverAuth never turns one away.
HonestReceiverProves == ~mismatch

\* Neither the PIN on the receiver's screen (SrpClient) nor an honest receiver's
\* proof or signature (setStrictReceiverAuth) is ever turned down.
HonestAccepted == RightPinAccepted /\ HonestReceiverProves

\* The credentials the host keeps are good for pair-verify: the receiver knows
\* them until it forgets all, and they name its long-term key, wherever a session
\* was cut off.
CredentialsGood ==
    creds.ltsk # 0 =>
        /\ creds.ltpk = ed25519Public(RcvLtsk)
        /\ rcv.forgot \/ [id |-> pairingId(creds.ltsk), pub |-> ed25519Public(creds.ltsk)]
                           \in rcv.controllers

============================================================================
