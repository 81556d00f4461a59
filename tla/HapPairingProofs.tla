-------------------------- MODULE HapPairingProofs --------------------------
(***************************************************************************)
(* Invariance proofs for HapPairing, for every modulus, base and secrets,  *)
(* any functions in place of the hashes and any number of connections.     *)
(*                                                                         *)
(* The SRP part rests on two laws of powers modulo N, (b^e)^d = b^(e d)    *)
(* and b^e b^d = b^(e + d), which make the client's key and the server's   *)
(* one; they need no prime modulus.  The rest is an invariant that says    *)
(* stage by stage what the message under way carries and how far the two   *)
(* sides have come: each handler is only reached with the peer's state it  *)
(* counts on.                                                              *)
(***************************************************************************)
EXTENDS HapPairing, ModularArithmetic

(* The powers of the SRP group.  Induction is over a set of exponents. *)

\* What the recursion of PowMod(b, e) is to satisfy.
Powers(f, b, e) == f = [i \in 0 .. e |-> IF i = 0 THEN 1 ELSE (f[i - 1] * b) % N]

\* Such a function exists for every base and exponent: by induction over the
\* exponent.
LEMMA PowersExist ==
    ASSUME NEW b \in Nat, NEW e \in Nat
    PROVE  \E f : Powers(f, b, e)
  <1> DEFINE S == {d \in Nat : \E f : Powers(f, b, d)}
  <1>1. 0 \in S
    <2> DEFINE f == [i \in 0 .. 0 |-> 1]
    <2>1. Powers(f, b, 0)
      BY DEF Powers
    <2> QED
      BY <2>1
  <1>2. ASSUME NEW d \in Nat, d \in S PROVE d + 1 \in S
    <2>1. PICK f : Powers(f, b, d)
      BY <1>2
    <2> DEFINE h == [i \in 0 .. d + 1 |-> IF i = d + 1 THEN (f[d] * b) % N ELSE f[i]]
    <2>2. ASSUME NEW i \in 0 .. d
          PROVE  f[i] = IF i = 0 THEN 1 ELSE (f[i - 1] * b) % N
      BY <2>1 DEF Powers
    <2>3. ASSUME NEW i \in 0 .. d + 1
          PROVE  h[i] = IF i = 0 THEN 1 ELSE (h[i - 1] * b) % N
      <3>1. CASE i = d + 1
        <4>1. h[i] = (f[d] * b) % N /\ h[i - 1] = f[d] /\ i # 0
          BY <3>1
        <4> QED
          BY <4>1
      <3>2. CASE i # d + 1
        <4>1. i \in 0 .. d /\ h[i] = f[i]
          BY <3>2
        <4>2. i # 0 => h[i - 1] = f[i - 1]
          BY <4>1
        <4> QED
          BY <4>1, <4>2, <2>2
      <3> QED
        BY <3>1, <3>2
    <2>4. h = [i \in 0 .. d + 1 |-> h[i]]
      OBVIOUS
    <2> HIDE DEF h
    <2>5. Powers(h, b, d + 1)
      BY <2>3, <2>4 DEF Powers
    <2> QED
      BY <2>5
  <1> HIDE DEF S
  <1>3. Nat \subseteq S
    BY <1>1, <1>2, NatSetInduction
  <1> QED
    BY <1>3 DEF S

\* The powers for two exponents agree as far as both go.
LEMMA PowersAgree ==
    ASSUME NEW b \in Nat, NEW d \in Nat, NEW e \in Nat, NEW f, NEW h,
           Powers(f, b, d), Powers(h, b, e), NEW i \in Nat, i <= d, i <= e
    PROVE  f[i] = h[i]
  <1> DEFINE S == {j \in Nat : j <= d /\ j <= e => f[j] = h[j]}
  <1>1. 0 \in S
    BY DEF Powers
  <1>2. ASSUME NEW j \in Nat, j \in S PROVE j + 1 \in S
    <2> SUFFICES ASSUME j + 1 <= d, j + 1 <= e PROVE f[j + 1] = h[j + 1]
      OBVIOUS
    <2>1. j + 1 \in 0 .. d /\ j + 1 \in 0 .. e /\ j + 1 # 0 /\ (j + 1) - 1 = j
      OBVIOUS
    <2>2. f[j + 1] = (f[j] * b) % N
      BY <2>1 DEF Powers
    <2>3. h[j + 1] = (h[j] * b) % N
      BY <2>1 DEF Powers
    <2>4. f[j] = h[j]
      BY <1>2, <2>1
    <2> QED
      BY <2>2, <2>3, <2>4
  <1> HIDE DEF S
  <1>3. Nat \subseteq S
    BY <1>1, <1>2, NatSetInduction
  <1> QED
    BY <1>3 DEF S

\* PowMod takes the last value of such a function.
LEMMA PowModIsPower ==
    ASSUME NEW b \in Nat, NEW e \in Nat
    PROVE  \E f : Powers(f, b, e) /\ PowMod(b, e) = f[e]
  <1> DEFINE p == CHOOSE f : Powers(f, b, e)
  <1>1. Powers(p, b, e)
    BY PowersExist
  <1>2. PowMod(b, e) = p[e]
    BY DEF PowMod, Powers
  <1> QED
    BY <1>1, <1>2

\* PowMod is the power that its recursion says.
LEMMA PowModStep ==
    ASSUME NEW b \in Nat, NEW e \in Nat
    PROVE  PowMod(b, 0) = 1 /\ PowMod(b, e + 1) = (PowMod(b, e) * b) % N
  <1>1. PICK f : Powers(f, b, e) /\ PowMod(b, e) = f[e]
    BY PowModIsPower
  <1>2. PICK h : Powers(h, b, e + 1) /\ PowMod(b, e + 1) = h[e + 1]
    BY PowModIsPower
  <1>3. PICK z : Powers(z, b, 0) /\ PowMod(b, 0) = z[0]
    BY PowModIsPower
  <1>4. f[e] = h[e]
    BY <1>1, <1>2, PowersAgree
  <1>5. z[0] = 1
    BY <1>3 DEF Powers
  <1>6. h[e + 1] = (h[e] * b) % N
    <2>1. e + 1 \in 0 .. e + 1 /\ e + 1 # 0 /\ (e + 1) - 1 = e
      OBVIOUS
    <2> QED
      BY <1>2, <2>1 DEF Powers
  <1> QED
    BY <1>1, <1>2, <1>3, <1>4, <1>5, <1>6

\* The group is not degenerate.
LEMMA ModulusPositive == N \in Nat \ {0} /\ N > 2
  BY GroupAssumption

\* A power is a residue, for an exponent 0 too.
LEMMA PowModRange ==
    ASSUME NEW b \in Nat, NEW e \in Nat
    PROVE  PowMod(b, e) \in 0 .. (N - 1)
  <1> DEFINE S == {i \in Nat : PowMod(b, i) \in 0 .. (N - 1)}
  <1>1. 0 \in S
    BY PowModStep, ModulusPositive
  <1>2. ASSUME NEW i \in Nat, i \in S PROVE i + 1 \in S
    <2> DEFINE w == PowMod(b, i) * b
    <2>1. w \in Nat
      BY <1>2, ModulusPositive
    <2> HIDE DEF w
    <2>2. w % N \in 0 .. (N - 1)
      BY <2>1, ModulusPositive
    <2> QED
      BY <2>2, PowModStep DEF w
  <1> HIDE DEF S
  <1>3. Nat \subseteq S
    BY <1>1, <1>2, NatSetInduction
  <1> QED
    BY <1>3 DEF S

\* Products modulo N.
Times(x, y) == (x * y) % N

\* Products of residues commute and associate, and one factor may be reduced
\* first.
LEMMA TimesLaws ==
    ASSUME NEW x \in Nat, NEW y \in Nat, NEW z \in Nat
    PROVE  /\ Times(x, y) \in 0 .. (N - 1) /\ Times(x, y) \in Nat
           /\ Times(x, y) = Times(y, x)
           /\ Times(Times(x, y), z) = Times(x, Times(y, z))
           /\ Times(x % N, y) = Times(x, y)
           /\ Times(1, x) = x % N
  <1>1. x * y \in Nat /\ y * z \in Nat /\ x * y = y * x /\ (x * y) * z = (y * z) * x
    OBVIOUS
  <1>2. Times(x, y) \in 0 .. (N - 1) /\ Times(x, y) \in Nat /\ Times(y, z) \in Nat
    <2> DEFINE u == x * y
               w == y * z
    <2>1. u \in Nat /\ w \in Nat
      BY <1>1
    <2> HIDE DEF u, w
    <2>2. u % N \in 0 .. (N - 1) /\ w % N \in 0 .. (N - 1)
      BY <2>1, ModulusPositive
    <2> QED
      BY <2>2, ModulusPositive DEF Times, u, w
  <1>3. Times(Times(x, y), z) = ((x * y) * z) % N
    BY <1>1, ModulusPositive, RemainderProduct, Zenon DEF Times
  <1>4. Times(Times(y, z), x) = ((y * z) * x) % N
    BY <1>1, ModulusPositive, RemainderProduct, Zenon DEF Times
  <1>5. Times(Times(y, z), x) = Times(x, Times(y, z))
    <2>1. Times(y, z) * x = x * Times(y, z)
      BY <1>2
    <2> QED
      BY <2>1, Zenon DEF Times
  <1>6. Times(x % N, y) = Times(x, y)
    BY ModulusPositive, RemainderProduct, Zenon DEF Times
  <1>7. Times(1, x) = x % N /\ Times(x, y) = Times(y, x)
    BY <1>1 DEF Times
  <1> QED
    BY <1>1, <1>2, <1>3, <1>4, <1>5, <1>6, <1>7, Zenon

\* The power of a sum of exponents is the product of the powers.
LEMMA PowModSum ==
    ASSUME NEW b \in Nat, NEW d \in Nat, NEW e \in Nat
    PROVE  PowMod(b, d + e) = Times(PowMod(b, d), PowMod(b, e))
  <1> DEFINE S == {i \in Nat : PowMod(b, d + i) = Times(PowMod(b, d), PowMod(b, i))}
             w == PowMod(b, d)
  <1>0. w \in Nat /\ w \in 0 .. (N - 1)
    BY PowModRange, ModulusPositive
  <1>1. 0 \in S
    <2>1. PowMod(b, 0) = 1 /\ PowMod(b, d + 0) = w
      BY PowModStep
    <2> HIDE DEF w
    <2>2. Times(w, 1) = w
      <3>1. w * 1 = w /\ w % N = w
        BY <1>0, ModulusPositive
      <3> QED
        BY <3>1 DEF Times
    <2> QED
      BY <2>1, <2>2 DEF w
  <1>2. ASSUME NEW i \in Nat, i \in S PROVE i + 1 \in S
    <2> DEFINE v == PowMod(b, i)
    <2>1. v \in Nat /\ PowMod(b, d + i) = Times(w, v)
      BY <1>2, PowModRange, ModulusPositive
    <2>2. PowMod(b, i + 1) = Times(v, b) /\ PowMod(b, (d + i) + 1) = Times(PowMod(b, d + i), b)
      BY PowModStep DEF Times
    <2>3. d + (i + 1) = (d + i) + 1
      OBVIOUS
    <2> HIDE DEF w, v
    <2>4. Times(Times(w, v), b) = Times(w, Times(v, b))
      BY <1>0, <2>1, TimesLaws
    <2> QED
      BY <2>1, <2>2, <2>3, <2>4 DEF w
  <1> HIDE DEF S
  <1>3. Nat \subseteq S
    BY <1>1, <1>2, NatSetInduction
  <1> QED
    BY <1>3 DEF S

\* A power of a power.
LEMMA PowModProduct ==
    ASSUME NEW b \in Nat, NEW d \in Nat, NEW e \in Nat
    PROVE  PowMod(PowMod(b, d), e) = PowMod(b, d * e)
  <1> DEFINE w == PowMod(b, d)
             S == {i \in Nat : PowMod(w, i) = PowMod(b, d * i)}
  <1>0. w \in Nat
    BY PowModRange, ModulusPositive
  <1>1. 0 \in S
    <2>1. d * 0 = 0
      OBVIOUS
    <2> HIDE DEF w
    <2> QED
      BY <1>0, <2>1, PowModStep
  <1>2. ASSUME NEW i \in Nat, i \in S PROVE i + 1 \in S
    <2>1. d * i \in Nat /\ d * (i + 1) = (d * i) + d
      OBVIOUS
    <2>2. PowMod(b, (d * i) + d) = Times(PowMod(b, d * i), w)
      BY <2>1, PowModSum
    <2> HIDE DEF w
    <2>3. PowMod(w, i + 1) = Times(PowMod(w, i), w)
      BY <1>0, PowModStep DEF Times
    <2> QED
      BY <1>2, <2>1, <2>2, <2>3
  <1> HIDE DEF S
  <1>3. Nat \subseteq S
    BY <1>1, <1>2, NatSetInduction
  <1> QED
    BY <1>3 DEF S

\* SRP: with the verifier of the client's own PIN, both formulas give one S,
\* whatever the secrets a and b, the hash u and the exponent x.
LEMMA ClientAndServerAgree ==
    ASSUME NEW a \in Nat, NEW b \in Nat, NEW u \in Nat, NEW x \in Nat
    PROVE  LET v == PowMod(g, x)
               B == (k * v + PowMod(g, b)) % N
           IN  clientS(a, B, u, x) = PowMod((PowMod(g, a) * PowMod(v, u)) % N, b)
  <1> DEFINE v == PowMod(g, x)
             p == PowMod(g, b)
             q == k * v
             B == (q + p) % N
             e == a + u * x
  <1>1. g \in Nat /\ k \in Nat
    BY GroupAssumption
  <1>2. v \in Nat /\ p \in 0 .. (N - 1) /\ PowMod(g, a) \in Nat
    <2> HIDE DEF v, p
    <2>1. v \in 0 .. (N - 1) /\ p \in 0 .. (N - 1) /\ PowMod(g, a) \in 0 .. (N - 1)
      BY <1>1, PowModRange DEF v, p
    <2> QED
      BY <2>1, ModulusPositive
  <1>3. e \in Nat /\ u * x \in Nat /\ x * u \in Nat /\ u * x = x * u /\ e * b \in Nat
        /\ b * e \in Nat /\ e * b = b * e
    OBVIOUS
  <1>4. q \in Nat
    <2> HIDE DEF v
    <2> QED
      BY <1>1, <1>2
  <1>5. (B - q) % N = p
    <2> HIDE DEF q, p
    <2> QED
      BY <1>2, <1>4, ModulusPositive, RemainderMinus
  <1>6. clientS(a, B, u, x) = PowMod(p, e)
    BY <1>5 DEF clientS
  <1>7. PowMod(p, e) = PowMod(g, e * b)
    BY <1>1, <1>3, PowModProduct
  <1>8. PowMod(v, u) = PowMod(g, u * x)
    BY <1>1, <1>3, PowModProduct
  <1>9. (PowMod(g, a) * PowMod(v, u)) % N = PowMod(g, e)
    BY <1>1, <1>3, <1>8, PowModSum DEF Times
  <1>10. PowMod(PowMod(g, e), b) = PowMod(g, e * b)
    BY <1>1, <1>3, PowModProduct
  <1> QED
    BY <1>6, <1>7, <1>9, <1>10

----------------------------------------------------------------------------
(* The invariant, by stage of the pairing. *)

\* A reply of this type is under way to the sender.
Came(type) == msg.to = "sender" /\ msg.type = type

\* The receiver's control channel is in the clear and has no keys.
Unkeyed == ~rcv.encrypted /\ rcv.keys = NoKeys

\* The seed whose credentials the receiver has, unless the user made it forget.
Known(seed) == rcv.forgot \/ [id |-> pairingId(seed), pub |-> ed25519Public(seed)]
                                 \in rcv.controllers

\* The PIN of the exchange: the fixed one, or the one on the receiver's
\* screen.
Screen == IF rcv.srp.transient THEN FixedPin ELSE rcv.pin

\* What the receiver keeps of the exchange it opened: its verifier v is of
\* the PIN on the screen, its public value B of v and its secret.
SrpHeld ==
    /\ rcv.srp.transient = (auth = "HapTransient")
    /\ rcv.srp.salt \in Salts /\ rcv.srp.b \in Secrets
    /\ ~rcv.srp.transient => rcv.pin \in Pins
    /\ rcv.srp.v = PowMod(g, Hx(rcv.srp.salt, Screen))
    /\ rcv.srp.B = (k * rcv.srp.v + PowMod(g, rcv.srp.b)) % N

\* The sender has neither a long-term key nor session keys yet.
Bare(x) == x.ltSeed = 0 /\ x.keys = NoKeys

\* The pairing by stage: what the message under way carries, and how far the
\* two sides have come. First, before a connection.
AtNone == stage = "None" /\ msg = Quiet

\* The receiver is to show, or has shown, a PIN.
AtPinStart ==
    /\ stage = "PinStart" /\ auth = "HapPin" /\ Bare(ap2) /\ Unkeyed
    /\ \/ Asked("PinStart")
       \/ Came("PinStart") /\ rcv.pin \in Pins

\* M1 is under way, or its answer.
AtSetupM2 ==
    /\ stage = "SetupM2" /\ Bare(ap2) /\ Unkeyed
    /\ \/ /\ Asked("M1") /\ msg.body = (auth = "HapTransient")
          /\ auth = "HapPin" => rcv.pin \in Pins
       \/ Came("M1Refused")
       \/ /\ Came("M2") /\ SrpHeld
          /\ msg.body = [salt |-> rcv.srp.salt, B |-> rcv.srp.B]

\* The sender has the salt and B, and waits for the user's PIN.
AtWaitPin ==
    /\ stage = "WaitPin" /\ auth = "HapPin" /\ msg = Quiet /\ Bare(ap2) /\ Unkeyed
    /\ SrpHeld /\ ap2.salt = rcv.srp.salt /\ ap2.B = rcv.srp.B

\* The sender's half of the exchange was computed from a PIN and the
\* receiver's salt and B.
Client(x) == \E pin \in Pins \cup {FixedPin}, a \in Secrets :
                  x = srpClient(pin, a, rcv.srp.salt, rcv.srp.B)

\* The sender's proof is under way or its answer: an error only where another
\* PIN was typed than the one on the screen, M4 only where the two keys are
\* one.
AtSetupM4 ==
    /\ stage = "SetupM4" /\ Bare(ap2) /\ SrpHeld /\ Client(ap2.srp)
    /\ \/ /\ Asked("M3") /\ Unkeyed
          /\ msg.body = [A |-> ap2.srp.A, M1 |-> ap2.srp.M1]
       \/ Came("error") /\ Unkeyed /\ ap2.srp.password # Screen
       \/ /\ Came("M4") /\ rcv.srp.K = ap2.srp.K
          /\ msg.body = proofM2(ap2.srp.A, ap2.srp.M1, ap2.srp.K)
          /\ IF auth = "HapTransient"
             THEN rcv.encrypted /\ rcv.keys = RcvKeyed(NoKeys, ap2.srp.K, FALSE)
             ELSE Unkeyed

\* The sealed M5 of the sender whose long-term seed this is.
Exchange(K, seed) ==
    chachaEncrypt(setupKey(K), "PS-Msg05",
        [id |-> pairingId(seed), pub |-> ed25519Public(seed),
         sig |-> ed25519Sign(seed, setupInfo(K, pairingId(seed), ed25519Public(seed)))])

\* The long-term keys are exchanged under the key of the exchange.
AtSetupM6 ==
    /\ stage = "SetupM6" /\ auth = "HapPin" /\ Unkeyed /\ ap2.keys = NoKeys
    /\ ap2.ltSeed # 0 /\ rcv.srp.K = ap2.srp.K
    /\ \/ Asked("M5") /\ msg.body = Exchange(ap2.srp.K, ap2.ltSeed)
       \/ /\ Came("M6") /\ Known(ap2.ltSeed)
          /\ msg.body = chachaEncrypt(setupKey(ap2.srp.K), "PS-Msg06",
                            [id |-> RcvId, pub |-> ed25519Public(RcvLtsk)])
       \/ Came("error")

\* The ephemeral points of this connection's pair-verify, and its secret.
Our == x25519Public(<<"sender", session>>)
Their == x25519Public(<<"receiver", session>>)
Secret == x25519SharedSecret(<<"sender", session>>, Their)

\* The sender verifies with the credentials it keeps, and has the receiver's
\* long-term key.
AtVerifyM2 ==
    /\ stage = "VerifyM2" /\ Unkeyed /\ ap2.keys = NoKeys
    /\ ap2.ltSeed # 0 /\ ap2.ltSeed = creds.ltsk /\ ap2.accessoryLtpk = ed25519Public(RcvLtsk)
    /\ ap2.verifyPriv = <<"sender", session>>
    /\ \/ Asked("VerifyM1") /\ msg.body = Our
       \/ /\ Came("VerifyM2") /\ rcv.verify = [secret |-> Secret, our |-> Their, their |-> Our]
          /\ msg.body = [pub |-> Their,
                         sealed |-> chachaEncrypt(verifyKey(Secret), "PV-Msg02",
                            [id |-> RcvId,
                             sig |-> ed25519Sign(RcvLtsk, <<Their, RcvId, Our>>)])]

\* The sender's session keys that come out of a secret, with or without the
\* event keys.
Keyed(secret, events) ==
    IF events THEN withEventKeys(withControlKeys(NoKeys, secret), secret)
              ELSE withControlKeys(NoKeys, secret)

\* The sender has keyed itself; the receiver follows, or refuses the
\* credentials it was made to forget.
AtVerifyDone ==
    /\ stage = "VerifyDone" /\ ap2.secret = Secret
    /\ ap2.keys = Keyed(Secret, TRUE) /\ ap2.ltSeed # 0 /\ ap2.ltSeed = creds.ltsk
    /\ rcv.verify = [secret |-> Secret, our |-> Their, their |-> Our]
    /\ \/ /\ Asked("VerifyM3") /\ Unkeyed
          /\ msg.body = chachaEncrypt(verifyKey(Secret), "PV-Msg03",
                 [id |-> pairingId(ap2.ltSeed),
                  sig |-> ed25519Sign(ap2.ltSeed,
                             controllerInfo(Our, pairingId(ap2.ltSeed), Their))])
       \/ Came("VerifyM4") /\ rcv.encrypted /\ rcv.keys = RcvKeyed(NoKeys, Secret, TRUE)
       \/ Came("error") /\ Unkeyed /\ rcv.forgot

\* The receiver has the same keys the other way round, or none because it
\* forgot the sender.
Matched(events) ==
    \/ rcv.encrypted /\ rcv.keys = RcvKeyed(NoKeys, ap2.secret, events)
    \/ Unkeyed /\ rcv.forgot

\* The session is keyed on both sides; then the audio key is set too.
AtDone ==
    /\ stage = "Done" /\ msg = Quiet /\ audioKey(ap2.secret) = <<ap2.secret[1]>>
    /\ \E events \in BOOLEAN : ap2.keys = Keyed(ap2.secret, events) /\ Matched(events)

AtReady ==
    /\ stage = "Ready" /\ msg = Quiet /\ audioKey(ap2.secret) = <<ap2.secret[1]>>
    /\ \E events \in BOOLEAN :
         /\ ap2.keys = [Keyed(ap2.secret, events) EXCEPT !.audio = <<ap2.secret[1]>>]
         /\ Matched(events)

\* The pairing is at one of its stages.
Situation == \/ AtNone \/ AtPinStart \/ AtSetupM2 \/ AtWaitPin \/ AtSetupM4 \/ AtSetupM6
             \/ AtVerifyM2 \/ AtVerifyDone \/ AtDone \/ AtReady

\* The fields of the records, and that a record has exactly these.
Fields == {"ltSeed", "accessoryLtpk", "salt", "B", "srp", "verifyPriv", "secret", "keys"}
RcvFields == {"transientOk", "pinOk", "pin", "srp", "controllers", "verify", "keys",
              "encrypted", "forgot"}
SrpFields == {"transient", "salt", "b", "v", "B", "K"}
Shaped(r, F) == r = [f \in F |-> r[f]]

\* The receiver's half of an exchange has been set up.
Exchanging == \/ stage \in {"WaitPin", "SetupM4", "SetupM6"}
              \/ stage = "SetupM2" /\ Came("M2")

\* The records of the two sides have their fields.
Shapes ==
    /\ Shaped(ap2, Fields) /\ Shaped(rcv, RcvFields)
    /\ Exchanging => Shaped(rcv.srp, SrpFields)
    /\ rcv.forgot \in BOOLEAN /\ rcv.encrypted \in BOOLEAN

\* A long-term seed is the number of the connection that generated it, 0 is
\* none.
Seeds ==
    /\ session \in 0 .. MaxSessions
    /\ stage # "None" => session > 0
    /\ ap2.ltSeed \in 0 .. MaxSessions /\ creds.ltsk \in 0 .. MaxSessions

\* The session keys are keys.
KeysTyped ==
    /\ \A f \in {"controlOut", "controlIn", "eventOut", "eventIn"} : ap2.keys[f] \in Key
    /\ Len(ap2.keys.audio) <= 1

\* The method is one that pairs, and no proof or signature failed.
Control ==
    /\ auth \in {"HapTransient", "HapPin"} /\ tried \in BOOLEAN
    /\ mismatch = FALSE /\ KeysTyped

\* The inductive invariant.
PairInv == Situation /\ Shapes /\ Seeds /\ Control /\ CredentialsGood

----------------------------------------------------------------------------
\* One field of a record is replaced.
LEMMA FieldReplaced ==
    ASSUME NEW F, NEW r, Shaped(r, F), NEW f \in F, NEW v, NEW q, q = [r EXCEPT ![f] = v]
    PROVE  Shaped(q, F) /\ q[f] = v /\ \A e \in F : e # f => q[e] = r[e]
  BY DEF Shaped

\* Where a message under way says the pairing is.
LEMMA CameWhere ==
    ASSUME Situation
    PROVE  /\ stage = "None" => AtNone
           /\ stage = "PinStart" => AtPinStart
           /\ stage = "SetupM2" => AtSetupM2
           /\ stage = "WaitPin" => AtWaitPin
           /\ stage = "SetupM4" => AtSetupM4
           /\ stage = "SetupM6" => AtSetupM6
           /\ stage = "VerifyM2" => AtVerifyM2
           /\ stage = "VerifyDone" => AtVerifyDone
           /\ stage = "Done" => AtDone
           /\ stage = "Ready" => AtReady
  BY DEF Situation, AtNone, AtPinStart, AtSetupM2, AtWaitPin, AtSetupM4, AtSetupM6, AtVerifyM2,
         AtVerifyDone, AtDone, AtReady

\* Where a request under way says the pairing is.
LEMMA AskedWhere ==
    ASSUME Situation
    PROVE  /\ Asked("PinStart") => AtPinStart
           /\ Asked("M1") => AtSetupM2
           /\ Asked("M3") => AtSetupM4
           /\ Asked("M5") => AtSetupM6
           /\ Asked("VerifyM1") => AtVerifyM2
           /\ Asked("VerifyM3") => AtVerifyDone
  <1>1. AtNone \/ AtWaitPin \/ AtDone \/ AtReady => msg.to = "nobody"
    BY DEF AtNone, AtWaitPin, AtDone, AtReady, Quiet
  <1>2. AtPinStart /\ msg.to = "receiver" => msg.type = "PinStart"
    BY DEF AtPinStart, Asked, Came
  <1>3. AtSetupM2 /\ msg.to = "receiver" => msg.type = "M1"
    BY DEF AtSetupM2, Asked, Came
  <1>4. AtSetupM4 /\ msg.to = "receiver" => msg.type = "M3"
    BY DEF AtSetupM4, Asked, Came
  <1>5. AtSetupM6 /\ msg.to = "receiver" => msg.type = "M5"
    BY DEF AtSetupM6, Asked, Came
  <1>6. AtVerifyM2 /\ msg.to = "receiver" => msg.type = "VerifyM1"
    BY DEF AtVerifyM2, Asked, Came
  <1>7. AtVerifyDone /\ msg.to = "receiver" => msg.type = "VerifyM3"
    BY DEF AtVerifyDone, Asked, Came
  <1> QED
    BY <1>1, <1>2, <1>3, <1>4, <1>5, <1>6, <1>7 DEF Situation, Asked

\* The receiver shows a PIN.
LEMMA RcvPinStartKeeps ==
    ASSUME PairInv, NEW pin \in Pins, RcvPinStart(pin)
    PROVE  PairInv'
  <1>1. AtPinStart
    BY AskedWhere DEF PairInv, RcvPinStart
  <1>2. /\ Shaped(rcv, RcvFields)' /\ rcv'.pin = pin
        /\ \A f \in RcvFields : f # "pin" => rcv'[f] = rcv[f]
    BY FieldReplaced DEF PairInv, Shapes, RcvPinStart, RcvFields
  <1>3. AtPinStart'
    BY <1>1, <1>2 DEF AtPinStart, RcvPinStart, Reply, Came, Unkeyed, RcvFields, Bare
  <1>4. Shapes'
    BY <1>1, <1>2, <1>3 DEF PairInv, Shapes, RcvPinStart, Reply, AtPinStart, Exchanging, RcvFields
  <1>5. Seeds' /\ Control'
    BY DEF PairInv, Seeds, Control, KeysTyped, Key, RcvPinStart, Reply
  <1>6. CredentialsGood'
    BY <1>2 DEF PairInv, CredentialsGood, RcvPinStart, Reply, RcvFields
  <1> QED
    BY <1>3, <1>4, <1>5, <1>6 DEF PairInv, Situation

----------------------------------------------------------------------------
(* The receiver opens the exchange. *)

\* What a step that leaves the sender alone leaves true of it.
LEMMA SenderLeftAlone ==
    ASSUME PairInv, UNCHANGED <<session, auth, tried, stage, ap2, creds, mismatch>>
    PROVE  /\ Seeds' /\ Control' /\ Shaped(ap2, Fields)'
           /\ rcv'.forgot = rcv.forgot /\ rcv'.controllers = rcv.controllers => CredentialsGood'
  BY DEF PairInv, Shapes, Seeds, Control, KeysTyped, Key, CredentialsGood

\* The receiver opens the exchange, or refuses transient pairing.
LEMMA RcvM1Keeps ==
    ASSUME PairInv, NEW salt \in Salts, NEW b \in Secrets, RcvM1(salt, b)
    PROVE  PairInv'
  <1>1. AtSetupM2 /\ Asked("M1") /\ msg.body = (auth = "HapTransient")
    <2>1. AtSetupM2 /\ Asked("M1")
      BY AskedWhere DEF PairInv, RcvM1
    <2> QED
      BY <2>1 DEF AtSetupM2, Asked, Came
  <1>2. UNCHANGED <<session, auth, tried, stage, ap2, creds, mismatch>>
    BY DEF RcvM1, Reply
  <1>3. CASE auth = "HapTransient" /\ ~rcv.transientOk
    <2>0. msg.body
      BY <1>1, <1>3
    <2>1. UNCHANGED rcv /\ Came("M1Refused")'
      <3>1. Reply("M1Refused", 470) /\ UNCHANGED rcv
        BY <2>0, <1>3, Zenon DEF RcvM1
      <3> QED
        BY <3>1 DEF Reply, Came
    <2>2. AtSetupM2'
      BY <1>1, <1>2, <2>1 DEF AtSetupM2, Bare, Unkeyed
    <2>3. Shapes'
      BY <1>1, <1>2, <2>1, <2>2 DEF PairInv, Shapes, Exchanging, AtSetupM2, Came
    <2> QED
      BY <1>2, <2>1, <2>2, <2>3, SenderLeftAlone DEF PairInv, Situation
  <1>4. CASE ~(auth = "HapTransient" /\ ~rcv.transientOk)
    <2> DEFINE pin == IF auth = "HapTransient" THEN FixedPin ELSE rcv.pin
               v == PowMod(g, Hx(salt, pin))
               B == (k * v + PowMod(g, b)) % N
               srp == [transient |-> auth = "HapTransient", salt |-> salt, b |-> b, v |-> v,
                       B |-> B, K |-> <<>>]
    <2>1. rcv' = [rcv EXCEPT !.srp = srp]
          /\ msg' = [to |-> "sender", type |-> "M2", body |-> [salt |-> salt, B |-> B]]
      BY <1>1, <1>4, Zenon DEF RcvM1, Reply
    <2>2. Shaped(srp, SrpFields)
      BY DEF Shaped, SrpFields
    <2>3. srp.transient = (auth = "HapTransient") /\ srp.salt = salt /\ srp.b = b /\ srp.v = v
          /\ srp.B = B
      OBVIOUS
    <2> HIDE DEF srp, B, v
    <2>4. /\ Shaped(rcv, RcvFields)' /\ rcv'.srp = srp
          /\ \A f \in RcvFields : f # "srp" => rcv'[f] = rcv[f]
      BY <2>1, FieldReplaced DEF PairInv, Shapes, RcvFields
    <2>5. Screen' = pin /\ (auth # "HapTransient" => rcv'.pin \in Pins)
      BY <1>1, <2>3, <2>4 DEF Screen, RcvFields, PairInv, Control, AtSetupM2, Asked, Came
    <2>6. SrpHeld'
      BY <1>2, <2>3, <2>4, <2>5 DEF SrpHeld, v, B
    <2>7. AtSetupM2'
      BY <1>1, <1>2, <2>1, <2>3, <2>4, <2>6 DEF AtSetupM2, Bare, Unkeyed, Came, RcvFields
    <2>8. Shapes'
      BY <1>2, <2>2, <2>4, SenderLeftAlone DEF PairInv, Shapes, RcvFields
    <2> QED
      BY <1>2, <2>4, <2>7, <2>8, SenderLeftAlone DEF PairInv, Situation, RcvFields
  <1> QED
    BY <1>3, <1>4

----------------------------------------------------------------------------

\* A proof of the client that fits the server's key was made with that key.
LEMMA ProofTells ==
    ASSUME NEW salt, NEW A, NEW B, NEW K, NEW L, proofM1(salt, A, B, K) = proofM1(salt, A, B, L)
    PROVE  K = L
  <1> DEFINE x == <<salt, A, B, K>>
             y == <<salt, A, B, L>>
  <1>1. sha512(x) = sha512(y)
    BY DEF proofM1
  <1> HIDE DEF x, y
  <1>2. sha512(x)[1][2] = x /\ sha512(y)[1][2] = y
    BY DEF sha512
  <1>3. x = y
    BY <1>1, <1>2
  <1>4. x[4] = K /\ y[4] = L
    BY DEF x, y
  <1> QED
    BY <1>3, <1>4

\* The server's shared secret, as RcvM3 computes it.
ServerS(A) == PowMod((A * PowMod(rcv.srp.v, Hu(A, rcv.srp.B))) % N, rcv.srp.b)

\* With the PIN on the screen both sides have the same secret.
LEMMA SameSecret ==
    ASSUME SrpHeld, NEW a \in Secrets
    PROVE  LET c == srpClient(Screen, a, rcv.srp.salt, rcv.srp.B)
           IN  sha512(ServerS(c.A)) = c.K
  <1> DEFINE A == PowMod(g, a)
             x == Hx(rcv.srp.salt, Screen)
             B == rcv.srp.B
             u == Hu(A, B)
             b == rcv.srp.b
             v == rcv.srp.v
             c == srpClient(Screen, a, rcv.srp.salt, rcv.srp.B)
  <1>1. a \in Nat /\ b \in Nat /\ x \in Nat /\ g \in Nat /\ k \in Nat
    <2>1. Screen \in Pins \cup {FixedPin} /\ rcv.srp.salt \in Salts
      BY DEF SrpHeld, Screen
    <2>2. x \in Nat
      BY <2>1, GroupAssumption
    <2>3. Secrets \subseteq Nat /\ g \in Nat /\ k \in Nat
      BY GroupAssumption
    <2>4. b \in Secrets
      BY DEF SrpHeld
    <2> HIDE DEF x, b
    <2> QED
      BY <2>2, <2>3, <2>4
  <1>2. v = PowMod(g, x) /\ B = (k * v + PowMod(g, b)) % N
    BY DEF SrpHeld
  <1>3. B \in 0 .. (N - 1) /\ A \in 0 .. (N - 1)
    <2> DEFINE w == k * v + PowMod(g, b)
    <2>1. v \in 0 .. (N - 1) /\ PowMod(g, b) \in 0 .. (N - 1) /\ A \in 0 .. (N - 1)
      <3> HIDE DEF A, v, b, x
      <3> QED
        BY <1>1, <1>2, PowModRange DEF A
    <2>2. w \in Nat
      <3> HIDE DEF A, v, b, x
      <3>1. v \in Nat /\ PowMod(g, b) \in Nat
        BY <2>1, ModulusPositive
      <3>2. k * v \in Nat
        BY <1>1, <3>1
      <3> QED
        BY <3>1, <3>2
    <2>3. B = w % N
      BY <1>2
    <2> HIDE DEF w, A, B
    <2> QED
      BY <2>1, <2>2, <2>3, ModulusPositive
  <1>4. u \in Nat
    BY <1>3, GroupAssumption
  <1> HIDE DEF A, x, B, u, b, v
  <1>5. clientS(a, B, u, x) = PowMod((A * PowMod(v, u)) % N, b)
    BY <1>1, <1>2, <1>4, ClientAndServerAgree DEF A
  <1>6. c.A = A /\ c.K = sha512(clientS(a, B, u, x))
    BY DEF srpClient, A, B, u, x
  <1>7. ServerS(A) = PowMod((A * PowMod(v, u)) % N, b)
    BY DEF ServerS, u, v, b, B
  <1> QED
    BY <1>5, <1>6, <1>7

----------------------------------------------------------------------------
(* The receiver checks the proof and takes the long-term key. *)

\* The exchange depends on what the receiver keeps of it but its key.
LEMMA SrpHeldStays ==
    ASSUME SrpHeld, UNCHANGED auth, rcv'.pin = rcv.pin,
           \A f \in SrpFields : f # "K" => rcv'.srp[f] = rcv.srp[f]
    PROVE  SrpHeld' /\ Screen' = Screen
  BY DEF SrpHeld, Screen, SrpFields

\* The receiver checks the proof. Where it refuses, the PIN typed was not the
\* one on the screen: the same PIN gives the same key, by
\* ClientAndServerAgree.
LEMMA RcvM3Keeps ==
    ASSUME PairInv, RcvM3
    PROVE  PairInv'
  <1>1. AtSetupM4 /\ Asked("M3") /\ Unkeyed /\ SrpHeld /\ Shaped(rcv.srp, SrpFields)
        /\ stage = "SetupM4" /\ Bare(ap2) /\ msg.body = [A |-> ap2.srp.A, M1 |-> ap2.srp.M1]
    <2>1. AtSetupM4 /\ Asked("M3")
      BY AskedWhere DEF PairInv, RcvM3
    <2> QED
      BY <2>1 DEF AtSetupM4, Asked, Came, PairInv, Shapes, Exchanging
  <1>2. UNCHANGED <<session, auth, tried, stage, ap2, creds, mismatch>>
    BY DEF RcvM3, Reply
  <1>3. PICK pin \in Pins \cup {FixedPin}, a \in Secrets :
            ap2.srp = srpClient(pin, a, rcv.srp.salt, rcv.srp.B)
    BY <1>1 DEF AtSetupM4, Client
  <1> DEFINE A == msg.body.A
             K == sha512(ServerS(A))
             M1 == proofM1(rcv.srp.salt, A, rcv.srp.B, K)
  <1>4. /\ A = ap2.srp.A /\ msg.body.M1 = ap2.srp.M1
        /\ ap2.srp.password = pin
        /\ ap2.srp.M1 = proofM1(rcv.srp.salt, A, rcv.srp.B, ap2.srp.K)
    BY <1>1, <1>3 DEF srpClient
  <1>5. CASE msg.body.M1 # M1
    <2>1. Reply("error", <<>>) /\ UNCHANGED rcv
      BY <1>5, Zenon DEF RcvM3, ServerS
    <2>2. ap2.srp.password # Screen
      <3>1. SUFFICES ASSUME pin = Screen PROVE FALSE
        BY <1>4
      <3>2. K = ap2.srp.K
        <4> HIDE DEF A
        <4>1. sha512(ServerS(ap2.srp.A)) = ap2.srp.K
          BY <1>1, <1>3, <3>1, SameSecret
        <4> QED
          BY <1>4, <4>1
      <3> QED
        BY <3>2, <1>4, <1>5
    <2> HIDE DEF A, K, M1
    <2>3. Came("error")' /\ msg'.body = <<>>
      BY <2>1 DEF Reply, Came
    <2>4. Screen' = Screen /\ SrpHeld' /\ Client(ap2.srp)' /\ Bare(ap2)' /\ Unkeyed'
      BY <1>1, <1>2, <2>1 DEF Screen, SrpHeld, AtSetupM4, Client, Bare, Unkeyed
    <2>5. AtSetupM4'
      BY <1>1, <1>2, <2>2, <2>3, <2>4 DEF AtSetupM4
    <2>6. Shapes'
      BY <1>1, <1>2, <2>1, SenderLeftAlone DEF PairInv, Shapes
    <2> QED
      BY <1>2, <2>1, <2>5, <2>6, SenderLeftAlone DEF PairInv, Situation
  <1>6. CASE msg.body.M1 = M1
    <2>1. K = ap2.srp.K
      <3> HIDE DEF A, K
      <3> QED
        BY <1>4, <1>6, ProofTells
    <2> DEFINE srp == [rcv.srp EXCEPT !.K = K]
               after == IF rcv.srp.transient
                        THEN [rcv EXCEPT !.srp = srp, !.encrypted = TRUE,
                                         !.keys = RcvKeyed(@, K, FALSE)]
                        ELSE [rcv EXCEPT !.srp = srp]
    <2>2. Reply("M4", proofM2(A, M1, K)) /\ rcv' = after
      BY <1>6, Zenon DEF RcvM3, ServerS
    <2>3. Shaped(srp, SrpFields) /\ srp.K = K
          /\ \A f \in SrpFields : f # "K" => srp[f] = rcv.srp[f]
      <3> HIDE DEF K
      <3> QED
        BY <1>1, FieldReplaced DEF SrpFields
    <2>4. /\ Shaped(rcv', RcvFields) /\ rcv'.srp = srp
          /\ rcv'.pin = rcv.pin /\ rcv'.controllers = rcv.controllers
          /\ rcv'.forgot = rcv.forgot /\ rcv'.verify = rcv.verify
          /\ IF rcv.srp.transient
             THEN rcv'.encrypted = TRUE /\ rcv'.keys = RcvKeyed(rcv.keys, K, FALSE)
             ELSE rcv'.encrypted = rcv.encrypted /\ rcv'.keys = rcv.keys
      <3> HIDE DEF K, srp
      <3> QED
        BY <2>2 DEF PairInv, Shapes, Shaped, RcvFields
    <2> HIDE DEF A, K, M1, srp, after
    <2>5. Came("M4")' /\ msg'.body = proofM2(A, M1, K)
      BY <2>2 DEF Reply, Came
    <2>6. SrpHeld'
      BY <1>1, <1>2, <2>3, <2>4, SrpHeldStays
    <2>7. Client(ap2.srp)'
      BY <1>2, <1>3, <2>3, <2>4 DEF Client, SrpFields
    <2>8. rcv'.srp.K = ap2'.srp.K /\ msg'.body = proofM2(ap2'.srp.A, ap2'.srp.M1, ap2'.srp.K)
      BY <1>2, <1>4, <1>6, <2>1, <2>3, <2>4, <2>5
    <2>9. IF auth' = "HapTransient"
          THEN rcv'.encrypted /\ rcv'.keys = RcvKeyed(NoKeys, ap2'.srp.K, FALSE) ELSE Unkeyed'
      BY <1>1, <1>2, <2>1, <2>4 DEF Unkeyed, SrpHeld
    <2>10. AtSetupM4'
      BY <1>1, <1>2, <2>5, <2>6, <2>7, <2>8, <2>9 DEF AtSetupM4, Bare
    <2>11. Shapes'
      BY <1>1, <1>2, <2>3, <2>4, SenderLeftAlone DEF PairInv, Shapes
    <2> QED
      BY <1>2, <2>4, <2>10, <2>11, SenderLeftAlone DEF PairInv, Situation
  <1> QED
    BY <1>5, <1>6

----------------------------------------------------------------------------
\* The symbolic primitives.
LEMMA OpensOwn ==
    ASSUME NEW key, NEW nonce, NEW x
    PROVE  /\ chachaOpens(key, nonce, chachaEncrypt(key, nonce, x))
           /\ chachaEncrypt(key, nonce, x).plain = x
  BY DEF chachaOpens, chachaEncrypt

\* The sender's own signature over its identity verifies.
LEMMA VerifiesOwn ==
    ASSUME NEW seed, NEW m
    PROVE  ed25519Verify(ed25519Public(seed), m, ed25519Sign(seed, m))
  BY DEF ed25519Verify, ed25519Sign

\* The first block of a byte string.
LEMMA FirstBlock ==
    ASSUME NEW S, NEW s \in Seq(S), Len(s) >= 1
    PROVE  SubSeq(s, 1, 1) = <<s[1]>>
  <1> DEFINE q == SubSeq(s, 1, 1)
             h == s[1]
  <1>1. q \in Seq(S) /\ Len(q) = 1 /\ q[1] = h
    OBVIOUS
  <1> HIDE DEF q, h
  <1>2. q = <<h>>
    BY <1>1
  <1> QED
    BY <1>2 DEF q, h

\* Both sides of pair-verify compute one secret.
LEMMA SharedAlike ==
    /\ x25519SharedSecret(<<"receiver", session>>, Our) = Secret
    /\ audioKey(Secret) = <<Secret[1]>>
  <1> DEFINE p == <<"sender", session>>
             q == <<"receiver", session>>
             h == {p, q}
  <1>1. Our = <<"point", p>> /\ Their = <<"point", q>>
    BY DEF Our, Their, x25519Public
  <1>2. x25519SharedSecret(q, Our) = <<{q, p}>> /\ Secret = <<h>>
    BY <1>1 DEF x25519SharedSecret, Secret
  <1>3. {q, p} = h
    OBVIOUS
  <1> HIDE DEF h
  <1> DEFINE s == <<h>>
  <1>4. s \in Seq({h}) /\ Len(s) = 1
    OBVIOUS
  <1> HIDE DEF s
  <1>5. SubSeq(s, 1, 1) = <<s[1]>>
    BY <1>4, FirstBlock
  <1> QED
    BY <1>2, <1>3, <1>5 DEF audioKey, s

\* The receiver keeps the sender's long-term key.
LEMMA RcvM5Keeps ==
    ASSUME PairInv, RcvM5
    PROVE  PairInv'
  <1>1. AtSetupM6 /\ Asked("M5") /\ stage = "SetupM6"
        /\ msg.body = Exchange(ap2.srp.K, ap2.ltSeed) /\ rcv.srp.K = ap2.srp.K
    <2>1. AtSetupM6 /\ Asked("M5")
      BY AskedWhere DEF PairInv, RcvM5
    <2> QED
      BY <2>1 DEF AtSetupM6, Asked, Came
  <1>2. UNCHANGED <<session, auth, tried, stage, ap2, creds, mismatch>>
    BY DEF RcvM5, Reply
  <1> DEFINE K == rcv.srp.K
             seed == ap2.ltSeed
             id == pairingId(seed)
             pub == ed25519Public(seed)
             sub == msg.body.plain
  <1>3. /\ chachaOpens(setupKey(K), "PS-Msg05", msg.body)
        /\ sub.id = id /\ sub.pub = pub /\ sub.sig = ed25519Sign(seed, setupInfo(K, id, pub))
    <2> DEFINE x == [id |-> id, pub |-> pub, sig |-> ed25519Sign(seed, setupInfo(K, id, pub))]
    <2>1. msg.body = chachaEncrypt(setupKey(K), "PS-Msg05", x)
      BY <1>1 DEF Exchange
    <2>2. x.id = id /\ x.pub = pub /\ x.sig = ed25519Sign(seed, setupInfo(K, id, pub))
      OBVIOUS
    <2> HIDE DEF x
    <2> QED
      BY <2>1, <2>2, OpensOwn
  <1>4. ed25519Verify(sub.pub, setupInfo(K, sub.id, sub.pub), sub.sig)
    <2>1. ed25519Verify(pub, setupInfo(K, id, pub), ed25519Sign(seed, setupInfo(K, id, pub)))
      BY VerifiesOwn
    <2> QED
      BY <1>3, <2>1, Zenon
  <1> DEFINE m == chachaEncrypt(setupKey(K), "PS-Msg06",
                      [id |-> RcvId, pub |-> ed25519Public(RcvLtsk)])
             known == rcv.controllers \cup {[id |-> sub.id, pub |-> sub.pub]}
  <1>5. Reply("M6", m) /\ rcv' = [rcv EXCEPT !.controllers = known]
    BY <1>3, <1>4, Zenon DEF RcvM5
  <1>6. [id |-> id, pub |-> pub] \in known
    BY <1>3
  <1> HIDE DEF K, seed, id, pub, sub, known
  <1>7. /\ Shaped(rcv, RcvFields)' /\ rcv'.controllers = known
        /\ \A f \in RcvFields : f # "controllers" => rcv'[f] = rcv[f]
    BY <1>5, FieldReplaced DEF PairInv, Shapes, RcvFields
  <1>8. Known(ap2.ltSeed)'
    BY <1>2, <1>6, <1>7 DEF Known, id, pub, seed
  <1>9. Came("M6")' /\ msg'.body = m
    BY <1>5 DEF Reply, Came
  <1>10. AtSetupM6'
    BY <1>1, <1>2, <1>7, <1>8, <1>9 DEF AtSetupM6, Unkeyed, K, RcvFields
  <1>11. CredentialsGood'
    BY <1>2, <1>7 DEF PairInv, CredentialsGood, known, RcvFields
  <1>12. Shapes'
    BY <1>1, <1>2, <1>7, SenderLeftAlone DEF PairInv, Shapes, Exchanging, RcvFields
  <1> QED
    BY <1>2, <1>10, <1>11, <1>12, SenderLeftAlone DEF PairInv, Situation

\* The receiver answers with its point and its signature.
LEMMA RcvVerifyM1Keeps ==
    ASSUME PairInv, RcvVerifyM1
    PROVE  PairInv'
  <1>1. AtVerifyM2 /\ Asked("VerifyM1") /\ stage = "VerifyM2" /\ msg.body = Our
    <2>1. AtVerifyM2 /\ Asked("VerifyM1")
      BY AskedWhere DEF PairInv, RcvVerifyM1
    <2> QED
      BY <2>1 DEF AtVerifyM2, Asked, Came
  <1>2. UNCHANGED <<session, auth, tried, stage, ap2, creds, mismatch>>
    BY DEF RcvVerifyM1, Reply
  <1> DEFINE m == [pub |-> Their,
                   sealed |-> chachaEncrypt(verifyKey(Secret), "PV-Msg02",
                      [id |-> RcvId, sig |-> ed25519Sign(RcvLtsk, <<Their, RcvId, Our>>)])]
             v == [secret |-> Secret, our |-> Their, their |-> Our]
  <1>3. Reply("VerifyM2", m) /\ rcv' = [rcv EXCEPT !.verify = v]
    BY <1>1, SharedAlike, Zenon DEF RcvVerifyM1, Their
  <1>4. /\ Shaped(rcv, RcvFields)' /\ rcv'.verify = v
        /\ \A f \in RcvFields : f # "verify" => rcv'[f] = rcv[f]
    <2> HIDE DEF v
    <2> QED
      BY <1>3, FieldReplaced DEF PairInv, Shapes, RcvFields
  <1>5. Came("VerifyM2")' /\ msg'.body = m
    <2> HIDE DEF m
    <2> QED
      BY <1>3 DEF Reply, Came
  <1>6. Our' = Our /\ Their' = Their /\ Secret' = Secret
    BY <1>2 DEF Our, Their, Secret
  <1>7. Unkeyed'
    BY <1>1, <1>4 DEF AtVerifyM2, Unkeyed, RcvFields
  <1>8. AtVerifyM2'
    BY <1>1, <1>2, <1>4, <1>5, <1>6, <1>7, Zenon DEF AtVerifyM2
  <1>9. Shapes'
    BY <1>1, <1>2, <1>4, SenderLeftAlone DEF PairInv, Shapes, Exchanging, RcvFields
  <1> QED
    BY <1>2, <1>4, <1>8, <1>9, SenderLeftAlone DEF PairInv, Situation, RcvFields

----------------------------------------------------------------------------
(* The receiver keys itself. *)

\* The receiver keys itself, or refuses a sender it forgot.
LEMMA RcvVerifyM3Keeps ==
    ASSUME PairInv, RcvVerifyM3
    PROVE  PairInv'
  <1> DEFINE v == rcv.verify
             sub == msg.body.plain
             id == pairingId(ap2.ltSeed)
             info == controllerInfo(Our, id, Their)
             c == [id |-> id, pub |-> ed25519Public(ap2.ltSeed)]
             good == /\ chachaOpens(verifyKey(v.secret), "PV-Msg03", msg.body)
                     /\ \E x \in rcv.controllers :
                           x.id = sub.id
                           /\ ed25519Verify(x.pub, <<v.their, sub.id, v.our>>, sub.sig)
  <1>1. /\ AtVerifyDone /\ Asked("VerifyM3") /\ stage = "VerifyDone" /\ Unkeyed
        /\ msg.body = chachaEncrypt(verifyKey(Secret), "PV-Msg03",
                                    [id |-> id, sig |-> ed25519Sign(ap2.ltSeed, info)])
        /\ v = [secret |-> Secret, our |-> Their, their |-> Our]
        /\ ap2.ltSeed # 0 /\ ap2.ltSeed = creds.ltsk
    <2>1. AtVerifyDone /\ Asked("VerifyM3")
      BY AskedWhere DEF PairInv, RcvVerifyM3
    <2> QED
      BY <2>1 DEF AtVerifyDone, Asked, Came
  <1>2. UNCHANGED <<session, auth, tried, stage, ap2, creds, mismatch>>
    BY DEF RcvVerifyM3, Reply
  <1>3. v.secret = Secret /\ v.our = Their /\ v.their = Our
    BY <1>1
  <1>4. Our' = Our /\ Their' = Their /\ Secret' = Secret
    BY <1>2 DEF Our, Their, Secret
  <1>5. ~good => rcv.forgot
    <2> SUFFICES ASSUME ~rcv.forgot PROVE good
      OBVIOUS
    <2>1. c \in rcv.controllers
      BY <1>1 DEF PairInv, CredentialsGood
    <2>2. chachaOpens(verifyKey(Secret), "PV-Msg03", msg.body) /\ sub.id = id
          /\ sub.sig = ed25519Sign(ap2.ltSeed, info)
      <3> DEFINE x == [id |-> id, sig |-> ed25519Sign(ap2.ltSeed, info)]
      <3>1. x.id = id /\ x.sig = ed25519Sign(ap2.ltSeed, info)
        OBVIOUS
      <3>2. msg.body = chachaEncrypt(verifyKey(Secret), "PV-Msg03", x)
        BY <1>1
      <3> HIDE DEF x
      <3> QED
        BY <3>1, <3>2, OpensOwn
    <2>3. ed25519Verify(c.pub, info, sub.sig) /\ c.id = id
      BY <2>2, VerifiesOwn
    <2>4. info = <<v.their, sub.id, v.our>>
      BY <1>3, <2>2 DEF controllerInfo
    <2> HIDE DEF c, info, id, sub, v
    <2> QED
      BY <1>3, <2>1, <2>2, <2>3, <2>4
  <1>6. CASE good
    <2>1. Reply("VerifyM4", <<>>)
          /\ rcv' = [rcv EXCEPT !.encrypted = TRUE, !.keys = RcvKeyed(@, v.secret, TRUE)]
      BY <1>6, Zenon DEF RcvVerifyM3
    <2> HIDE DEF good, c, info, id, sub, v
    <2>2. /\ Shaped(rcv, RcvFields)' /\ rcv'.encrypted = TRUE
          /\ rcv'.keys = RcvKeyed(NoKeys, Secret, TRUE)
          /\ \A f \in RcvFields : f \notin {"encrypted", "keys"} => rcv'[f] = rcv[f]
      BY <2>1, <1>1, <1>3 DEF PairInv, Shapes, Shaped, RcvFields, Unkeyed
    <2>3. Came("VerifyM4")'
      BY <2>1 DEF Reply, Came
    <2>4. AtVerifyDone'
      BY <1>1, <1>2, <1>4, <2>2, <2>3 DEF AtVerifyDone, RcvFields, v
    <2>5. Shapes'
      BY <1>1, <1>2, <2>2, SenderLeftAlone DEF PairInv, Shapes, Exchanging, RcvFields
    <2> QED
      BY <1>2, <2>2, <2>4, <2>5, SenderLeftAlone DEF PairInv, Situation, RcvFields
  <1>7. CASE ~good
    <2>1. Reply("error", <<>>) /\ UNCHANGED rcv
      BY <1>7, Zenon DEF RcvVerifyM3
    <2>2. Came("error")'
      BY <2>1 DEF Reply, Came
    <2>3. AtVerifyDone'
      BY <1>1, <1>2, <1>4, <1>5, <1>7, <2>1, <2>2 DEF AtVerifyDone, Unkeyed
    <2>4. Shapes'
      BY <1>1, <1>2, <2>1, SenderLeftAlone DEF PairInv, Shapes, Exchanging
    <2> QED
      BY <1>2, <2>1, <2>3, <2>4, SenderLeftAlone DEF PairInv, Situation
  <1> QED
    BY <1>6, <1>7

\* Where the pairing is does not depend on whom the receiver still knows, but for
\* what it excuses once it has forgotten.
LEMMA RcvForgetKeeps ==
    ASSUME PairInv, RcvForget
    PROVE  PairInv'
  <1>1. /\ Shaped(rcv, RcvFields)' /\ rcv'.forgot = TRUE
        /\ \A f \in RcvFields : f \notin {"controllers", "forgot"} => rcv'[f] = rcv[f]
    BY DEF PairInv, Shapes, Shaped, RcvFields, RcvForget
  <1>2. UNCHANGED <<session, auth, tried, stage, ap2, creds, mismatch, msg>>
    BY DEF RcvForget
  <1>3. /\ rcv'.srp = rcv.srp /\ rcv'.pin = rcv.pin /\ rcv'.encrypted = rcv.encrypted
        /\ rcv'.keys = rcv.keys /\ rcv'.verify = rcv.verify
    BY <1>1 DEF RcvFields
  <1>4. /\ Unkeyed' = Unkeyed /\ Our' = Our /\ Their' = Their /\ Secret' = Secret
        /\ Bare(ap2)' = Bare(ap2)
        /\ \A t : Asked(t)' = Asked(t) /\ Came(t)' = Came(t)
    BY <1>2, <1>3 DEF Unkeyed, Our, Their, Secret, Bare, Asked, Came
  <1>5. Screen' = Screen /\ SrpHeld' = SrpHeld /\ Client(ap2.srp)' = Client(ap2.srp)
    BY <1>2, <1>3, Zenon DEF Screen, SrpHeld, Client
  <1>6. Situation'
    <2>1. AtNone => AtNone'
      BY <1>2 DEF AtNone
    <2>2. AtPinStart => AtPinStart'
      BY <1>2, <1>3, <1>4 DEF AtPinStart
    <2>3. AtSetupM2 => AtSetupM2'
      BY <1>2, <1>3, <1>4, <1>5 DEF AtSetupM2
    <2>4. AtWaitPin => AtWaitPin'
      BY <1>2, <1>3, <1>4, <1>5 DEF AtWaitPin
    <2>5. AtSetupM4 => AtSetupM4'
      BY <1>2, <1>3, <1>4, <1>5 DEF AtSetupM4
    <2>6. AtSetupM6 => AtSetupM6'
      BY <1>1, <1>2, <1>3, <1>4 DEF AtSetupM6, Known
    <2>7. AtVerifyM2 => AtVerifyM2'
      BY <1>2, <1>3, <1>4 DEF AtVerifyM2
    <2>8. AtVerifyDone => AtVerifyDone'
      BY <1>1, <1>2, <1>3, <1>4 DEF AtVerifyDone
    <2>9. ASSUME NEW e \in BOOLEAN, Matched(e) PROVE Matched(e)'
      BY <1>1, <1>2, <1>3, <1>4, <2>9 DEF Matched
    <2>10. AtDone => AtDone'
      BY <1>2, <2>9 DEF AtDone
    <2>11. AtReady => AtReady'
      BY <1>2, <2>9 DEF AtReady
    <2> QED
      BY <2>1, <2>2, <2>3, <2>4, <2>5, <2>6, <2>7, <2>8, <2>10, <2>11 DEF PairInv, Situation
  <1>7. Shapes'
    BY <1>1, <1>2, <1>3, <1>4, SenderLeftAlone DEF PairInv, Shapes, Exchanging
  <1>8. CredentialsGood'
    BY <1>1, <1>2 DEF PairInv, CredentialsGood
  <1> QED
    BY <1>2, <1>6, <1>7, <1>8, SenderLeftAlone DEF PairInv

----------------------------------------------------------------------------
(* The sender connects, gives up or falls back. *)

\* The bound on the connections is a number.
LEMMA BoundNatural == MaxSessions \in Nat
  BY GroupAssumption

\* A connection starts from a record without keys.
LEMMA FreshFields ==
    /\ Shaped(FreshAp2, Fields) /\ FreshAp2.ltSeed = 0 /\ FreshAp2.keys = NoKeys
    /\ Bare(FreshAp2)
  BY DEF Shaped, FreshAp2, Fields, Bare

\* No keys are keys of the right type.
LEMMA NoKeysTyped ==
    ASSUME ap2.keys = NoKeys
    PROVE  KeysTyped
  BY DEF KeysTyped, NoKeys, Key

\* A step that leaves the receiver alone.
LEMMA ReceiverLeftAlone ==
    ASSUME PairInv, UNCHANGED rcv, Shaped(ap2, Fields)', Exchanging' => Exchanging
    PROVE  Shapes' /\ Unkeyed' = Unkeyed
  BY DEF PairInv, Shapes, Unkeyed

\* A connection: to pair or, with credentials, to verify.
LEMMA ConnectKeeps ==
    ASSUME PairInv, NEW method \in {"HapTransient", "HapPin"}, Connect(method)
    PROVE  PairInv'
  <1>1. /\ session' = session + 1 /\ session < MaxSessions /\ auth' = method /\ tried' = FALSE
        /\ UNCHANGED <<creds, mismatch>>
        /\ rcv' = [rcv EXCEPT !.srp = <<>>, !.verify = <<>>, !.keys = NoKeys, !.encrypted = FALSE]
    BY DEF Connect
  <1>2. /\ Shaped(rcv, RcvFields)' /\ Unkeyed' /\ rcv'.forgot = rcv.forgot
        /\ rcv'.controllers = rcv.controllers /\ rcv'.encrypted = FALSE
    BY <1>1 DEF PairInv, Shapes, Shaped, RcvFields, Unkeyed
  <1>3. CredentialsGood'
    BY <1>1, <1>2 DEF PairInv, CredentialsGood
  <1>4. session' \in 0 .. MaxSessions /\ session' > 0 /\ creds'.ltsk \in 0 .. MaxSessions
    <2>1. session \in 0 .. MaxSessions /\ creds.ltsk \in 0 .. MaxSessions
      BY DEF PairInv, Seeds
    <2> QED
      BY <1>1, <2>1, BoundNatural
  <1>5. CASE method = "HapTransient"
    <2>1. sendPairSetupM1_(FreshAp2, TRUE)
      BY <1>5 DEF Connect
    <2>2. ap2' = FreshAp2 /\ stage' = "SetupM2" /\ Asked("M1")' /\ msg'.body = TRUE
      BY <2>1 DEF sendPairSetupM1_, Ask, Asked
    <2>3. AtSetupM2'
      BY <1>1, <1>2, <1>5, <2>2, FreshFields DEF AtSetupM2
    <2>4. Shapes'
      BY <1>2, <2>2, FreshFields DEF PairInv, Shapes, Exchanging, Asked, Came
    <2>5. KeysTyped'
      BY <2>2, FreshFields DEF KeysTyped, NoKeys, Key
    <2>6. Seeds' /\ Control'
      <3>1. 0 \in 0 .. MaxSessions /\ mismatch' = FALSE
        BY <1>1, BoundNatural DEF PairInv, Control
      <3> QED
        BY <1>1, <1>4, <1>5, <2>2, <2>5, <3>1, FreshFields DEF Seeds, Control
    <2> QED
      BY <1>3, <2>3, <2>4, <2>6 DEF PairInv, Situation
  <1>6. CASE method = "HapPin" /\ creds.ltsk # 0
    <2> DEFINE x == [FreshAp2 EXCEPT !.ltSeed = creds.ltsk, !.accessoryLtpk = creds.ltpk]
               priv == <<"sender", session + 1>>
    <2>1. sendPairVerifyM1_(x, session + 1)
      BY <1>6 DEF Connect
    <2>2. ap2' = [x EXCEPT !.verifyPriv = priv] /\ stage' = "VerifyM2"
          /\ Asked("VerifyM1")' /\ msg'.body = x25519Public(priv)
      BY <2>1 DEF sendPairVerifyM1_, Ask, Asked
    <2>3. Shaped(x, Fields) /\ x.keys = NoKeys /\ x.ltSeed = creds.ltsk
          /\ x.accessoryLtpk = creds.ltpk
      BY FreshFields DEF Shaped, Fields
    <2> HIDE DEF x, priv
    <2>4. Shaped(ap2, Fields)' /\ ap2'.keys = NoKeys /\ ap2'.ltSeed = creds.ltsk
          /\ ap2'.accessoryLtpk = creds.ltpk /\ ap2'.verifyPriv = priv
      BY <2>2, <2>3, FieldReplaced DEF Fields
    <2>5. msg'.body = Our' /\ priv = <<"sender", session'>>
      BY <1>1, <2>2 DEF Our, priv
    <2>6. creds.ltpk = ed25519Public(RcvLtsk)
      BY <1>6 DEF PairInv, CredentialsGood
    <2>7. AtVerifyM2'
      BY <1>1, <1>2, <1>6, <2>2, <2>4, <2>5, <2>6 DEF AtVerifyM2
    <2>8. Shapes'
      BY <1>2, <2>2, <2>4 DEF PairInv, Shapes, Exchanging
    <2>9. KeysTyped'
      BY <2>4 DEF KeysTyped, NoKeys, Key
    <2>10. Seeds' /\ Control'
      BY <1>1, <1>4, <1>6, <2>2, <2>4, <2>9 DEF Seeds, Control, PairInv
    <2> QED
      BY <1>3, <2>7, <2>8, <2>10 DEF PairInv, Situation
  <1>7. CASE method = "HapPin" /\ creds.ltsk = 0
    <2>1. sendPairPinStart_(FreshAp2)
      BY <1>7 DEF Connect
    <2>2. ap2' = FreshAp2 /\ stage' = "PinStart" /\ Asked("PinStart")'
      BY <2>1 DEF sendPairPinStart_, Ask, Asked
    <2>3. AtPinStart'
      BY <1>1, <1>2, <1>7, <2>2, FreshFields DEF AtPinStart
    <2>4. Shapes'
      BY <1>2, <2>2, FreshFields DEF PairInv, Shapes, Exchanging
    <2>5. KeysTyped'
      BY <2>2, FreshFields DEF KeysTyped, NoKeys, Key
    <2>6. Seeds' /\ Control'
      BY <1>1, <1>4, <1>7, <2>2, <2>5, FreshFields, BoundNatural DEF Seeds, Control, PairInv
    <2> QED
      BY <1>3, <2>3, <2>4, <2>6 DEF PairInv, Situation
  <1> QED
    BY <1>5, <1>6, <1>7

\* The session ends and what it was about stays where it is.
LEMMA OverKeeps ==
    ASSUME PairInv, Over, UNCHANGED <<session, creds, mismatch, rcv>>,
           auth' \in {"HapTransient", "HapPin"}, tried' \in BOOLEAN,
           Shaped(ap2, Fields)', KeysTyped', ap2'.ltSeed \in 0 .. MaxSessions
    PROVE  PairInv'
  <1>1. AtNone' /\ ~Exchanging'
    BY DEF Over, AtNone, Exchanging
  <1>2. Shapes' /\ CredentialsGood' /\ Control'
    BY <1>1 DEF PairInv, Shapes, CredentialsGood, Control
  <1>3. Seeds'
    BY <1>1 DEF PairInv, Seeds, AtNone
  <1> QED
    BY <1>1, <1>2, <1>3 DEF PairInv, Situation

\* Keys left alone stay typed.
LEMMA KeysStay ==
    ASSUME PairInv, UNCHANGED ap2
    PROVE  KeysTyped' /\ Shaped(ap2, Fields)' /\ ap2'.ltSeed \in 0 .. MaxSessions
  BY DEF PairInv, Control, KeysTyped, Key, Shapes, Seeds

\* The sender gives up.
LEMMA EndKeeps ==
    ASSUME PairInv, End \/ OnRefused
    PROVE  PairInv'
  <1>1. Over /\ UNCHANGED <<session, auth, tried, ap2, creds, mismatch, rcv>>
    BY DEF End, OnRefused
  <1>2. auth' \in {"HapTransient", "HapPin"} /\ tried' \in BOOLEAN
    BY <1>1 DEF PairInv, Control
  <1> QED
    BY <1>1, <1>2, KeysStay, OverKeeps

\* The sender opens pair-setup when the receiver shows its PIN.
LEMMA OnPinStartKeeps ==
    ASSUME PairInv, OnPinStart
    PROVE  PairInv'
  <1>1. AtPinStart /\ rcv.pin \in Pins /\ Bare(ap2) /\ Unkeyed /\ auth = "HapPin"
    <2>1. AtPinStart /\ Came("PinStart")
      BY CameWhere DEF PairInv, OnPinStart, Answer, Came
    <2> QED
      BY <2>1 DEF AtPinStart, Asked, Came
  <1>2. UNCHANGED <<session, creds, mismatch, rcv>>
    BY DEF OnPinStart
  <1>3. CredentialsGood' /\ Unkeyed'
    BY <1>1, <1>2 DEF PairInv, CredentialsGood, Unkeyed
  <1>4. CASE msg.body = 200
    <2>1. sendPairSetupM1_(ap2, FALSE) /\ UNCHANGED <<auth, tried>>
      BY <1>4 DEF OnPinStart
    <2>2. UNCHANGED ap2 /\ stage' = "SetupM2" /\ Asked("M1")' /\ msg'.body = FALSE
      BY <2>1 DEF sendPairSetupM1_, Ask, Asked
    <2>3. AtSetupM2'
      BY <1>1, <1>2, <1>3, <2>1, <2>2 DEF AtSetupM2, Bare
    <2>4. Shapes'
      BY <1>2, <2>2 DEF PairInv, Shapes, Exchanging, Asked, Came
    <2>5. Seeds' /\ Control'
      BY <1>1, <1>2, <2>1, <2>2, KeysStay DEF Seeds, Control, PairInv, AtPinStart
    <2> QED
      BY <1>3, <2>3, <2>4, <2>5 DEF PairInv, Situation
  <1>5. CASE msg.body # 200 /\ tried
    <2>1. Over /\ UNCHANGED <<ap2, auth, tried>>
      BY <1>5 DEF OnPinStart
    <2>2. auth' \in {"HapTransient", "HapPin"} /\ tried' \in BOOLEAN
      BY <2>1 DEF PairInv, Control
    <2> QED
      BY <1>2, <2>1, <2>2, KeysStay, OverKeeps
  <1>6. CASE msg.body # 200 /\ ~tried
    <2>1. sendPairSetupM1_(FreshAp2, TRUE) /\ auth' = "HapTransient" /\ tried' = TRUE
      BY <1>6 DEF OnPinStart
    <2>2. ap2' = FreshAp2 /\ stage' = "SetupM2" /\ Asked("M1")' /\ msg'.body = TRUE
      BY <2>1 DEF sendPairSetupM1_, Ask, Asked
    <2>3. AtSetupM2'
      BY <1>1, <1>2, <1>3, <2>1, <2>2, FreshFields DEF AtSetupM2
    <2>4. Shapes'
      BY <1>2, <2>2, FreshFields DEF PairInv, Shapes, Exchanging, Asked, Came
    <2>5. KeysTyped'
      BY <2>2, FreshFields DEF KeysTyped, NoKeys, Key
    <2>6. Seeds' /\ Control'
      BY <1>1, <1>2, <2>1, <2>2, <2>5, FreshFields, BoundNatural
         DEF Seeds, Control, PairInv, AtPinStart
    <2> QED
      BY <1>3, <2>3, <2>4, <2>6 DEF PairInv, Situation
  <1> QED
    BY <1>4, <1>5, <1>6

\* Transient pairing was refused: the sender falls back to the PIN.
LEMMA OnM1RefusedKeeps ==
    ASSUME PairInv, OnM1Refused
    PROVE  PairInv'
  <1>1. AtSetupM2 /\ Unkeyed /\ stage = "SetupM2"
    BY CameWhere DEF PairInv, OnM1Refused, Answer, AtSetupM2
  <1>2. UNCHANGED <<session, tried, creds, mismatch, rcv>>
    BY DEF OnM1Refused
  <1>3. CredentialsGood' /\ Unkeyed' /\ tried' \in BOOLEAN
    BY <1>1, <1>2 DEF PairInv, CredentialsGood, Unkeyed, Control
  <1>4. CASE auth = "HapTransient"
    <2>1. sendPairPinStart_(FreshAp2) /\ auth' = "HapPin"
      BY <1>4 DEF OnM1Refused
    <2>2. ap2' = FreshAp2 /\ stage' = "PinStart" /\ Asked("PinStart")'
      BY <2>1 DEF sendPairPinStart_, Ask, Asked
    <2>3. AtPinStart'
      BY <1>3, <2>1, <2>2, FreshFields DEF AtPinStart
    <2>4. Shapes'
      BY <1>2, <2>2, FreshFields DEF PairInv, Shapes, Exchanging
    <2>5. KeysTyped'
      BY <2>2, FreshFields DEF KeysTyped, NoKeys, Key
    <2>6. Seeds' /\ Control'
      BY <1>1, <1>2, <1>3, <2>1, <2>2, <2>5, FreshFields, BoundNatural
         DEF Seeds, Control, PairInv
    <2> QED
      BY <1>3, <2>3, <2>4, <2>6 DEF PairInv, Situation
  <1>5. CASE auth # "HapTransient"
    <2>1. Over /\ UNCHANGED <<ap2, auth>>
      BY <1>5 DEF OnM1Refused
    <2>2. auth' \in {"HapTransient", "HapPin"}
      BY <2>1 DEF PairInv, Control
    <2> QED
      BY <1>2, <1>3, <2>1, <2>2, KeysStay, OverKeeps
  <1> QED
    BY <1>4, <1>5

----------------------------------------------------------------------------
(* The sender takes the replies. *)

\* The sender computes its half of the exchange and its proof, from the fixed
\* PIN or the one the user typed.
LEMMA SetupM3Keeps ==
    ASSUME PairInv, NEW x, NEW pin \in Pins \cup {FixedPin}, NEW a \in Secrets,
           sendPairSetupM3_(x, pin, a), SrpHeld, Shaped(rcv.srp, SrpFields), Unkeyed,
           Shaped(x, Fields), Bare(x), x.salt = rcv.srp.salt, x.B = rcv.srp.B,
           stage # "None", UNCHANGED <<session, auth, tried, creds, mismatch, rcv>>
    PROVE  PairInv'
  <1>1. auth' \in {"HapTransient", "HapPin"} /\ tried' \in BOOLEAN /\ mismatch' = FALSE
    BY DEF PairInv, Control
  <1>2. 0 \in 0 .. MaxSessions /\ x.ltSeed = 0 /\ x.keys = NoKeys
    BY BoundNatural DEF Bare
  <1>3. CASE x.B % N = 0
    <2>1. Over /\ ap2' = x
      BY <1>3 DEF sendPairSetupM3_
    <2>2. KeysTyped'
      BY <1>2, <2>1 DEF KeysTyped, NoKeys, Key
    <2> QED
      BY <1>1, <1>2, <2>1, <2>2, OverKeeps
  <1>4. CASE x.B % N # 0
    <2> DEFINE srp == srpClient(pin, a, x.salt, x.B)
    <2>1. ap2' = [x EXCEPT !.srp = srp] /\ stage' = "SetupM4"
          /\ Asked("M3")' /\ msg'.body = [A |-> srp.A, M1 |-> srp.M1]
      <3>1. ap2' = [x EXCEPT !.srp = srp] /\ stage' = "SetupM4"
            /\ Ask("M3", [A |-> srp.A, M1 |-> srp.M1])
        BY <1>4, Zenon DEF sendPairSetupM3_
      <3> HIDE DEF srp
      <3> QED
        BY <3>1 DEF Ask, Asked
    <2> HIDE DEF srp
    <2>2. Shaped(ap2, Fields)' /\ ap2'.srp = srp /\ ap2'.ltSeed = 0 /\ ap2'.keys = NoKeys
      BY <1>2, <2>1, FieldReplaced DEF Fields
    <2>3. SrpHeld' /\ Unkeyed'
      BY DEF SrpHeld, Screen, Unkeyed
    <2>4. Client(ap2.srp)'
      BY <2>2 DEF Client, srp
    <2>5. AtSetupM4'
      BY <2>1, <2>2, <2>3, <2>4 DEF AtSetupM4, Bare
    <2>6. Shapes'
      BY <2>2 DEF PairInv, Shapes
    <2>7. KeysTyped'
      BY <2>2 DEF KeysTyped, NoKeys, Key
    <2>8. Seeds' /\ CredentialsGood'
      BY <1>2, <2>1, <2>2 DEF PairInv, Seeds, CredentialsGood
    <2> QED
      BY <1>1, <2>5, <2>6, <2>7, <2>8 DEF PairInv, Situation, Control
  <1> QED
    BY <1>3, <1>4

\* The salt and B arrive: the sender proves at once or asks for the PIN.
LEMMA SetupM2Keeps ==
    ASSUME PairInv, NEW a \in Secrets, handlePairSetupM2_(a)
    PROVE  PairInv'
  <1> DEFINE x == [ap2 EXCEPT !.salt = msg.body.salt, !.B = msg.body.B]
  <1>1. /\ AtSetupM2 /\ Unkeyed /\ stage = "SetupM2" /\ Bare(ap2) /\ SrpHeld
        /\ msg.body = [salt |-> rcv.srp.salt, B |-> rcv.srp.B]
        /\ Shaped(rcv.srp, SrpFields)
    <2>1. AtSetupM2 /\ Came("M2") /\ stage = "SetupM2"
      BY CameWhere DEF PairInv, handlePairSetupM2_, Answer, Came
    <2> QED
      BY <2>1 DEF AtSetupM2, Asked, Came, PairInv, Shapes, Exchanging
  <1>2. UNCHANGED <<session, auth, tried, creds, mismatch, rcv>>
    BY DEF handlePairSetupM2_
  <1>3. Shaped(x, Fields) /\ x.salt = rcv.srp.salt /\ x.B = rcv.srp.B /\ Bare(x)
    <2> DEFINE y == [ap2 EXCEPT !.salt = msg.body.salt]
    <2>0. Shaped(ap2, Fields) /\ "salt" \in Fields
      BY DEF PairInv, Shapes, Fields
    <2>1. /\ Shaped(y, Fields) /\ y.salt = msg.body.salt
          /\ \A f \in Fields : f # "salt" => y[f] = ap2[f]
      <3> DEFINE v == msg.body.salt
      <3>1. y = [ap2 EXCEPT !.salt = v]
        OBVIOUS
      <3> HIDE DEF v, y, x
      <3>2. /\ Shaped(y, Fields) /\ y.salt = v
            /\ \A f \in Fields : f # "salt" => y[f] = ap2[f]
        BY <2>0, <3>1, FieldReplaced DEF Fields
      <3> QED
        BY <3>2 DEF v
    <2>2. x = [y EXCEPT !.B = msg.body.B]
      OBVIOUS
    <2> HIDE DEF x, y
    <2>3. /\ Shaped(x, Fields) /\ x.B = msg.body.B
          /\ \A f \in Fields : f # "B" => x[f] = y[f]
      BY <2>1, <2>2, FieldReplaced DEF Fields
    <2>4. msg.body.salt = rcv.srp.salt /\ msg.body.B = rcv.srp.B
      BY <1>1
    <2> QED
      BY <1>1, <2>1, <2>3, <2>4 DEF Fields, Bare
  <1>4. CASE auth = "HapTransient"
    <2>1. sendPairSetupM3_(x, FixedPin, a)
      BY <1>4, Zenon DEF handlePairSetupM2_
    <2> HIDE DEF x
    <2> QED
      BY <1>1, <1>2, <1>3, <2>1, SetupM3Keeps
  <1>5. CASE auth # "HapTransient"
    <2>1. ap2' = x /\ stage' = "WaitPin" /\ msg' = Quiet
      BY <1>5, Zenon DEF handlePairSetupM2_
    <2> HIDE DEF x
    <2>2. SrpHeld' /\ Unkeyed' /\ auth' = "HapPin"
      BY <1>1, <1>2, <1>5 DEF SrpHeld, Screen, Unkeyed, PairInv, Control
    <2>3. AtWaitPin'
      BY <1>2, <1>3, <2>1, <2>2 DEF AtWaitPin, Bare
    <2>4. Shapes'
      BY <1>1, <1>2, <1>3, <2>1 DEF PairInv, Shapes
    <2>5. KeysTyped'
      BY <1>3, <2>1 DEF KeysTyped, NoKeys, Key, Bare
    <2>6. Seeds'
      <3>1. ap2'.ltSeed = 0 /\ 0 \in 0 .. MaxSessions
        BY <1>3, <2>1, BoundNatural DEF Bare
      <3> QED
        BY <1>1, <1>2, <3>1 DEF PairInv, Seeds
    <2>7. CredentialsGood' /\ Control'
      BY <1>2, <2>5 DEF PairInv, CredentialsGood, Control
    <2> QED
      BY <2>3, <2>4, <2>6, <2>7 DEF PairInv, Situation
  <1> QED
    BY <1>4, <1>5

\* The user submits a PIN.
LEMMA SubmitPinKeeps ==
    ASSUME PairInv, NEW pin \in Pins, NEW a \in Secrets, submitPin(pin, a)
    PROVE  PairInv'
  <1>1. AtWaitPin /\ stage = "WaitPin"
    BY CameWhere DEF PairInv, submitPin
  <1>2. SrpHeld /\ Unkeyed /\ Bare(ap2) /\ ap2.salt = rcv.srp.salt /\ ap2.B = rcv.srp.B
        /\ Shaped(rcv.srp, SrpFields) /\ Shaped(ap2, Fields)
    BY <1>1 DEF AtWaitPin, PairInv, Shapes, Exchanging
  <1>3. sendPairSetupM3_(ap2, pin, a) /\ UNCHANGED <<session, auth, tried, creds, mismatch, rcv>>
    BY DEF submitPin
  <1> QED
    BY <1>1, <1>2, <1>3, SetupM3Keeps

----------------------------------------------------------------------------
\* The keys either side derives from a shared secret.
LEMMA KeyFields ==
    ASSUME NEW secret, NEW events \in BOOLEAN
    PROVE  LET s == Keyed(secret, events)
               r == RcvKeyed(NoKeys, secret, events)
           IN  /\ s.controlOut = hkdf("Control-Write", secret)
               /\ s.controlIn = hkdf("Control-Read", secret)
               /\ s.eventOut = IF events THEN hkdf("Events-Read", secret) ELSE <<>>
               /\ s.eventIn = IF events THEN hkdf("Events-Write", secret) ELSE <<>>
               /\ s.audio = <<>>
               /\ r.controlIn = s.controlOut /\ r.controlOut = s.controlIn
               /\ r.eventIn = s.eventOut /\ r.eventOut = s.eventIn
               /\ r.audio = <<secret[1]>>
  BY DEF Keyed, RcvKeyed, NoKeys, withControlKeys, withEventKeys

\* Derived keys are typed.
LEMMA KeyedTyped ==
    ASSUME NEW secret, NEW events \in BOOLEAN, NEW keys, keys = Keyed(secret, events)
    PROVE  /\ \A f \in {"controlOut", "controlIn", "eventOut", "eventIn"} :
                keys[f] \in {<<>>} \cup {hkdf(l, secret) : l \in {"Control-Write", "Control-Read",
                                                            "Events-Write", "Events-Read"}}
           /\ Len(keys.audio) <= 1
  <1>1. /\ keys.controlOut = hkdf("Control-Write", secret)
        /\ keys.controlIn = hkdf("Control-Read", secret)
        /\ keys.eventOut \in {hkdf("Events-Read", secret), <<>>}
        /\ keys.eventIn \in {hkdf("Events-Write", secret), <<>>}
        /\ keys.audio = <<>>
    BY KeyFields
  <1>2. Len(<<>>) <= 1
    OBVIOUS
  <1> QED
    BY <1>1, <1>2

\* The receiver's proof arrives; it always verifies, and the sender keys
\* itself (transient) or exchanges the long-term keys.
LEMMA SetupM4Keeps ==
    ASSUME PairInv, handlePairSetupM4_
    PROVE  PairInv'
  <1>1. /\ AtSetupM4 /\ stage = "SetupM4" /\ Bare(ap2) /\ SrpHeld
        /\ msg.body = proofM2(ap2.srp.A, ap2.srp.M1, ap2.srp.K) /\ rcv.srp.K = ap2.srp.K
        /\ Shaped(rcv.srp, SrpFields) /\ Client(ap2.srp)
        /\ IF auth = "HapTransient"
           THEN rcv.encrypted /\ rcv.keys = RcvKeyed(NoKeys, ap2.srp.K, FALSE) ELSE Unkeyed
    <2>1. AtSetupM4 /\ Came("M4") /\ stage = "SetupM4"
      BY CameWhere DEF PairInv, handlePairSetupM4_, Answer, Came
    <2> QED
      BY <2>1 DEF AtSetupM4, Asked, Came, PairInv, Shapes, Exchanging
  <1>2. UNCHANGED <<session, auth, tried, creds, rcv>>
    BY DEF handlePairSetupM4_
  <1>3. mismatch' = FALSE
    BY <1>1 DEF handlePairSetupM4_, verifyServerProof, PairInv, Control
  <1>4. CredentialsGood' /\ session > 0 /\ session \in 0 .. MaxSessions /\ Unkeyed' = Unkeyed
    BY <1>1, <1>2 DEF PairInv, CredentialsGood, Seeds, Unkeyed
  <1> DEFINE K == ap2.srp.K
  <1>5. audioKey(K) = <<K[1]>>
    <2>1. PICK pin, a : ap2.srp = srpClient(pin, a, rcv.srp.salt, rcv.srp.B)
      BY <1>1 DEF Client
    <2>2. PICK x : K = sha512(x)
      BY <2>1 DEF srpClient
    <2> DEFINE h == <<"sha512", x, 1>>
               i == <<"sha512", x, 2>>
    <2>3. K = <<h, i>>
      BY <2>2 DEF sha512
    <2> HIDE DEF h, i, K
    <2>4. K \in Seq({h, i}) /\ Len(K) >= 1
      BY <2>3
    <2> QED
      BY <2>4, FirstBlock DEF audioKey
  <1>6. CASE auth = "HapTransient"
    <2>1. ap2' = [ap2 EXCEPT !.secret = K, !.keys = withControlKeys(@, K)]
          /\ stage' = "Done" /\ msg' = Quiet
      BY <1>6, Zenon DEF handlePairSetupM4_
    <2> HIDE DEF K
    <2>2. Shaped(ap2, Fields)' /\ ap2'.secret = K /\ ap2'.keys = withControlKeys(NoKeys, K)
          /\ ap2'.ltSeed = 0
      BY <1>1, <2>1 DEF PairInv, Shapes, Shaped, Fields, Bare
    <2>3. ap2'.keys = Keyed(ap2'.secret, FALSE)
      BY <2>2 DEF Keyed
    <2>4. Matched(FALSE)'
      BY <1>1, <1>2, <1>6, <2>2 DEF Matched, K
    <2>5. AtDone'
      BY <1>5, <2>1, <2>2, <2>3, <2>4 DEF AtDone
    <2>6. KeysTyped'
      BY <2>3, KeyedTyped DEF KeysTyped, Key
    <2>7. Shapes'
      BY <1>2, <2>1, <2>2 DEF PairInv, Shapes, Exchanging
    <2>8. Seeds' /\ Control'
      BY <1>2, <1>3, <1>4, <2>2, <2>6, BoundNatural DEF PairInv, Seeds, Control
    <2> QED
      BY <1>4, <2>5, <2>7, <2>8 DEF PairInv, Situation
  <1>7. CASE auth # "HapTransient"
    <2>1. ap2' = [ap2 EXCEPT !.ltSeed = session] /\ stage' = "SetupM6"
          /\ Ask("M5", Exchange(K, session))
      <3>1. ap2.ltSeed = 0
        BY <1>1 DEF Bare
      <3> QED
        BY <1>7, <3>1, Zenon DEF handlePairSetupM4_, Exchange
    <2>2. Shaped(ap2, Fields)' /\ ap2'.ltSeed = session /\ ap2'.keys = NoKeys
          /\ ap2'.srp = ap2.srp
      BY <1>1, <2>1, FieldReplaced DEF PairInv, Shapes, Fields, Bare
    <2>3. Asked("M5")' /\ msg'.body = Exchange(ap2'.srp.K, ap2'.ltSeed)
      <3>1. Asked("M5")' /\ msg'.body = Exchange(K, session)
        BY <2>1 DEF Ask, Asked
      <3> QED
        BY <2>2, <3>1
    <2>4. AtSetupM6'
      BY <1>1, <1>2, <1>4, <1>7, <2>1, <2>2, <2>3 DEF AtSetupM6, PairInv, Control
    <2>5. KeysTyped'
      BY <2>2 DEF KeysTyped, NoKeys, Key
    <2>6. Shapes'
      BY <1>1, <1>2, <2>2 DEF PairInv, Shapes
    <2>7. Seeds' /\ Control'
      BY <1>2, <1>3, <1>4, <2>2, <2>5 DEF PairInv, Seeds, Control
    <2> QED
      BY <1>4, <2>4, <2>6, <2>7 DEF PairInv, Situation
  <1> QED
    BY <1>6, <1>7

\* The receiver's long-term key arrives and its signature verifies.
LEMMA SetupM6Keeps ==
    ASSUME PairInv, handlePairSetupM6_
    PROVE  PairInv'
  <1> DEFINE K == ap2.srp.K
             pub == ed25519Public(RcvLtsk)
             body == [id |-> RcvId, pub |-> pub]
             x == [ap2 EXCEPT !.accessoryLtpk = msg.body.plain.pub]
             priv == <<"sender", session>>
  <1>1. /\ AtSetupM6 /\ stage = "SetupM6" /\ Unkeyed /\ ap2.keys = NoKeys
        /\ msg.body = chachaEncrypt(setupKey(K), "PS-Msg06", body)
        /\ Known(ap2.ltSeed) /\ ap2.ltSeed # 0
    <2>1. AtSetupM6 /\ Came("M6") /\ stage = "SetupM6"
      BY CameWhere DEF PairInv, handlePairSetupM6_, Answer, Came
    <2> QED
      BY <2>1 DEF AtSetupM6, Asked, Came
  <1>2. chachaOpens(setupKey(K), "PS-Msg06", msg.body) /\ msg.body.plain.pub = pub
    <2>1. body.pub = pub
      OBVIOUS
    <2> HIDE DEF body
    <2> QED
      BY <1>1, <2>1, OpensOwn
  <1>3. /\ UNCHANGED <<session, auth, tried, mismatch, rcv>>
        /\ creds' = credentials(ap2, pub) /\ sendPairVerifyM1_(x, session)
    BY <1>2, Zenon DEF handlePairSetupM6_
  <1>4. Shaped(x, Fields) /\ x.ltSeed = ap2.ltSeed /\ x.keys = NoKeys /\ x.accessoryLtpk = pub
    BY <1>1, <1>2, FieldReplaced DEF PairInv, Shapes, Fields
  <1> HIDE DEF x, pub, body, K
  <1>5. ap2' = [x EXCEPT !.verifyPriv = priv] /\ stage' = "VerifyM2"
        /\ Asked("VerifyM1")' /\ msg'.body = x25519Public(priv)
    BY <1>3 DEF sendPairVerifyM1_, Ask, Asked
  <1> HIDE DEF priv
  <1>6. Shaped(ap2, Fields)' /\ ap2'.keys = NoKeys /\ ap2'.ltSeed = ap2.ltSeed
        /\ ap2'.accessoryLtpk = pub /\ ap2'.verifyPriv = priv
    BY <1>4, <1>5, FieldReplaced DEF Fields
  <1>7. creds'.ltsk = ap2.ltSeed /\ creds'.ltpk = pub
    BY <1>3 DEF credentials
  <1>8. priv = <<"sender", session'>> /\ msg'.body = Our'
    BY <1>3, <1>5 DEF priv, Our
  <1>9. Unkeyed'
    BY <1>1, <1>3 DEF Unkeyed
  <1>10. AtVerifyM2'
    BY <1>1, <1>5, <1>6, <1>7, <1>8, <1>9 DEF AtVerifyM2, pub
  <1>11. CredentialsGood'
    BY <1>1, <1>3, <1>7 DEF CredentialsGood, Known, pub
  <1>12. KeysTyped'
    BY <1>6 DEF KeysTyped, NoKeys, Key
  <1>13. Shapes'
    BY <1>3, <1>5, <1>6 DEF PairInv, Shapes, Exchanging
  <1>14. Seeds' /\ Control'
    BY <1>1, <1>3, <1>6, <1>7, <1>12 DEF PairInv, Seeds, Control
  <1> QED
    BY <1>10, <1>11, <1>13, <1>14 DEF PairInv, Situation

\* The receiver's signature of pair-verify arrives and verifies.
LEMMA VerifyM2Keeps ==
    ASSUME PairInv, handlePairVerifyM2_
    PROVE  PairInv'
  <1> DEFINE id == pairingId(ap2.ltSeed)
             plain == [id |-> RcvId, sig |-> ed25519Sign(RcvLtsk, <<Their, RcvId, Our>>)]
             sealed == chachaEncrypt(verifyKey(Secret), "PV-Msg02", plain)
             m3 == chachaEncrypt(verifyKey(Secret), "PV-Msg03",
                      [id |-> id, sig |-> ed25519Sign(ap2.ltSeed, controllerInfo(Our, id, Their))])
  <1>1. /\ AtVerifyM2 /\ stage = "VerifyM2" /\ Unkeyed /\ ap2.keys = NoKeys
        /\ ap2.ltSeed # 0 /\ ap2.ltSeed = creds.ltsk /\ ap2.accessoryLtpk = ed25519Public(RcvLtsk)
        /\ ap2.verifyPriv = <<"sender", session>>
        /\ rcv.verify = [secret |-> Secret, our |-> Their, their |-> Our]
        /\ msg.body = [pub |-> Their, sealed |-> sealed]
    <2>1. AtVerifyM2 /\ Came("VerifyM2") /\ stage = "VerifyM2"
      BY CameWhere DEF PairInv, handlePairVerifyM2_, Answer, Came
    <2> QED
      BY <2>1 DEF AtVerifyM2, Asked, Came
  <1>2. UNCHANGED <<session, auth, tried, creds, rcv>>
    BY DEF handlePairVerifyM2_
  <1>3. /\ msg.body.pub = Their /\ msg.body.sealed = sealed
        /\ x25519Public(ap2.verifyPriv) = Our
        /\ x25519SharedSecret(ap2.verifyPriv, msg.body.pub) = Secret
    <2>1. msg.body.pub = Their /\ msg.body.sealed = sealed
      <3> HIDE DEF sealed
      <3> QED
        BY <1>1
    <2> QED
      BY <1>1, <2>1, Zenon DEF Our, Secret
  <1>4. /\ chachaOpens(verifyKey(Secret), "PV-Msg02", sealed) /\ sealed.plain = plain
        /\ plain.id = RcvId /\ plain.sig = ed25519Sign(RcvLtsk, <<Their, RcvId, Our>>)
    <2>1. plain.id = RcvId /\ plain.sig = ed25519Sign(RcvLtsk, <<Their, RcvId, Our>>)
      OBVIOUS
    <2> HIDE DEF plain
    <2> QED
      BY <2>1, OpensOwn
  <1>5. ed25519Verify(ap2.accessoryLtpk, accessoryInfo(Their, sealed.plain.id, Our),
                      sealed.plain.sig)
    <2>1. ed25519Verify(ed25519Public(RcvLtsk), <<Their, RcvId, Our>>,
                        ed25519Sign(RcvLtsk, <<Their, RcvId, Our>>))
      BY VerifiesOwn
    <2> QED
      BY <1>1, <1>4, <2>1, Zenon DEF accessoryInfo
  <1> HIDE DEF sealed, plain
  <1>6. /\ mismatch' = (mismatch \/ ~ed25519Verify(ap2.accessoryLtpk,
                              accessoryInfo(Their, sealed.plain.id, Our), sealed.plain.sig))
        /\ ap2' = [ap2 EXCEPT !.secret = Secret,
                     !.keys = withEventKeys(withControlKeys(@, Secret), Secret)]
        /\ stage' = "VerifyDone" /\ Ask("VerifyM3", m3)
    BY <1>3, <1>4, Zenon DEF handlePairVerifyM2_
  <1>7. mismatch' = FALSE
    BY <1>5, <1>6 DEF PairInv, Control
  <1>8. Our' = Our /\ Their' = Their /\ Secret' = Secret
    BY <1>2 DEF Our, Their, Secret
  <1>9. Shaped(ap2, Fields)' /\ ap2'.secret = Secret /\ ap2'.ltSeed = ap2.ltSeed
        /\ ap2'.keys = withEventKeys(withControlKeys(NoKeys, Secret), Secret)
    BY <1>1, <1>6 DEF PairInv, Shapes, Shaped, Fields
  <1>10. ap2'.keys = Keyed(ap2'.secret, TRUE)
    BY <1>9 DEF Keyed
  <1>11. Asked("VerifyM3")' /\ msg'.body = m3 /\ id = pairingId(ap2'.ltSeed)
    <2>1. Asked("VerifyM3")' /\ msg'.body = m3
      <3> HIDE DEF m3
      <3> QED
        BY <1>6 DEF Ask, Asked
    <2> QED
      BY <2>1, <1>9
  <1>12. Unkeyed'
    BY <1>1, <1>2 DEF Unkeyed
  <1>13. AtVerifyDone'
    BY <1>1, <1>2, <1>6, <1>8, <1>9, <1>10, <1>11, <1>12, Zenon DEF AtVerifyDone
  <1>14. KeysTyped'
    BY <1>10, KeyedTyped DEF KeysTyped, Key
  <1>15. Shapes'
    BY <1>2, <1>6, <1>9 DEF PairInv, Shapes, Exchanging
  <1>16. Seeds' /\ Control' /\ CredentialsGood'
    BY <1>1, <1>2, <1>7, <1>9, <1>14 DEF PairInv, Seeds, Control, CredentialsGood
  <1> QED
    BY <1>13, <1>15, <1>16 DEF PairInv, Situation

\* Pair-verify ends, or its refusal ends the session.
LEMMA OnVerifyDoneKeeps ==
    ASSUME PairInv, OnVerifyDone
    PROVE  PairInv'
  <1>1. AtVerifyDone /\ ap2.secret = Secret /\ ap2.keys = Keyed(ap2.secret, TRUE)
        /\ Matched(TRUE)
    <2>1. AtVerifyDone /\ msg.to = "sender"
      BY CameWhere DEF PairInv, OnVerifyDone
    <2> QED
      BY <2>1 DEF AtVerifyDone, Asked, Came, Matched
  <1>2. UNCHANGED <<session, auth, tried, ap2, creds, mismatch, rcv>> /\ stage' = "Done"
        /\ msg' = Quiet
    BY DEF OnVerifyDone
  <1>3. Matched(TRUE)'
    BY <1>1, <1>2 DEF Matched, Unkeyed
  <1>4. AtDone'
    BY <1>1, <1>2, <1>3, SharedAlike DEF AtDone
  <1>5. Shapes'
    BY <1>2 DEF PairInv, Shapes, Exchanging
  <1>6. session > 0
    BY <1>1 DEF PairInv, Seeds, AtVerifyDone
  <1>7. Seeds' /\ Control' /\ CredentialsGood'
    BY <1>2, <1>6, KeysStay DEF PairInv, Seeds, Control, CredentialsGood
  <1> QED
    BY <1>4, <1>5, <1>7 DEF PairInv, Situation

\* The audio key is set from the secret.
LEMMA SetupStreamKeeps ==
    ASSUME PairInv, sendAp2SetupStream_
    PROVE  PairInv'
  <1>1. AtDone
    BY CameWhere DEF PairInv, sendAp2SetupStream_
  <1>2. PICK events \in BOOLEAN : ap2.keys = Keyed(ap2.secret, events) /\ Matched(events)
    BY <1>1 DEF AtDone
  <1>3. audioKey(ap2.secret) = <<ap2.secret[1]>> /\ msg = Quiet
    BY <1>1 DEF AtDone
  <1>4. UNCHANGED <<session, auth, tried, creds, mismatch, msg, rcv>> /\ stage' = "Ready"
        /\ ap2' = [ap2 EXCEPT !.keys.audio = <<ap2.secret[1]>>]
    BY <1>3 DEF sendAp2SetupStream_
  <1> DEFINE key == <<ap2.secret[1]>>
             keys == [ap2.keys EXCEPT !.audio = key]
  <1>5. Len(key) <= 1
    OBVIOUS
  <1> HIDE DEF key
  <1>6. ap2' = [ap2 EXCEPT !.keys = keys]
    BY <1>4 DEF key
  <1>7. /\ keys.audio = key
        /\ \A f \in {"controlOut", "controlIn", "eventOut", "eventIn"} : keys[f] = ap2.keys[f]
    BY <1>2 DEF Keyed, withControlKeys, withEventKeys, NoKeys
  <1>8. Shaped(ap2, Fields)' /\ ap2'.secret = ap2.secret /\ ap2'.keys = keys
        /\ ap2'.ltSeed = ap2.ltSeed
    <2> HIDE DEF keys
    <2> QED
      BY <1>6, FieldReplaced DEF PairInv, Shapes, Fields
  <1>9. Matched(events)'
    BY <1>2, <1>4, <1>8 DEF Matched, Unkeyed
  <1>10. AtReady'
    BY <1>2, <1>3, <1>4, <1>8, <1>9 DEF AtReady, key
  <1>11. KeysTyped'
    <2>1. Key' = Key
      BY <1>8 DEF Key
    <2>2. \A f \in {"controlOut", "controlIn", "eventOut", "eventIn"} : ap2.keys[f] \in Key
      BY DEF PairInv, Control, KeysTyped
    <2> HIDE DEF keys
    <2>3. \A f \in {"controlOut", "controlIn", "eventOut", "eventIn"} :
              ap2'.keys[f] \in Key'
      BY <1>7, <1>8, <2>1, <2>2
    <2>4. Len(ap2'.keys.audio) <= 1
      BY <1>5, <1>7, <1>8
    <2> QED
      BY <2>3, <2>4 DEF KeysTyped
  <1>12. Shapes'
    BY <1>4, <1>8 DEF PairInv, Shapes, Exchanging
  <1>13. session > 0
    BY <1>1 DEF PairInv, Seeds, AtDone
  <1>14. Seeds' /\ Control' /\ CredentialsGood'
    BY <1>4, <1>8, <1>11, <1>13 DEF PairInv, Seeds, Control, CredentialsGood
  <1> QED
    BY <1>10, <1>12, <1>14 DEF PairInv, Situation

----------------------------------------------------------------------------
(* The theorems. *)

\* The invariant holds at first.
LEMMA PairInit == Init => PairInv
  <1> SUFFICES ASSUME Init PROVE PairInv
    OBVIOUS
  <1>1. AtNone /\ session = 0 /\ ap2 = FreshAp2 /\ creds.ltsk = 0 /\ mismatch = FALSE
        /\ auth = "HapPin" /\ tried = FALSE /\ stage = "None"
    BY DEF Init, AtNone
  <1>2. rcv \in [transientOk : BOOLEAN, pinOk : BOOLEAN, pin : {0}, srp : {<<>>},
                 controllers : {{}}, verify : {<<>>}, keys : {NoKeys}, encrypted : {FALSE},
                 forgot : {FALSE}]
    BY DEF Init
  <1>3. Shaped(rcv, RcvFields) /\ rcv.forgot = FALSE /\ rcv.encrypted = FALSE
    BY <1>2 DEF Shaped, RcvFields
  <1>4. Shapes
    BY <1>1, <1>3, FreshFields DEF Shapes, Exchanging
  <1>5. KeysTyped
    BY <1>1, FreshFields, NoKeysTyped
  <1>6. Seeds
    <2>1. 0 \in 0 .. MaxSessions
      BY BoundNatural
    <2> QED
      BY <1>1, <2>1, FreshFields DEF Seeds
  <1>7. Control /\ CredentialsGood
    BY <1>1, <1>5 DEF Control, CredentialsGood
  <1> QED
    BY <1>1, <1>4, <1>6, <1>7 DEF PairInv, Situation

\* A step that changes nothing.
LEMMA StutterKeeps ==
    ASSUME PairInv, UNCHANGED vars
    PROVE  PairInv'
  <1>1. UNCHANGED <<session, auth, tried, stage, ap2, creds, mismatch, msg, rcv>>
    BY DEF vars
  <1>2. /\ Unkeyed' = Unkeyed /\ Our' = Our /\ Their' = Their /\ Secret' = Secret
        /\ Bare(ap2)' = Bare(ap2)
        /\ \A t : Asked(t)' = Asked(t) /\ Came(t)' = Came(t)
    BY <1>1 DEF Unkeyed, Our, Their, Secret, Bare, Asked, Came
  <1>3. Screen' = Screen /\ SrpHeld' = SrpHeld /\ Client(ap2.srp)' = Client(ap2.srp)
    BY <1>1, Zenon DEF Screen, SrpHeld, Client
  <1>4. Situation'
    <2>1. AtNone => AtNone'
      BY <1>1 DEF AtNone
    <2>2. AtPinStart => AtPinStart'
      BY <1>1, <1>2 DEF AtPinStart
    <2>3. AtSetupM2 => AtSetupM2'
      BY <1>1, <1>2, <1>3 DEF AtSetupM2
    <2>4. AtWaitPin => AtWaitPin'
      BY <1>1, <1>2, <1>3 DEF AtWaitPin
    <2>5. AtSetupM4 => AtSetupM4'
      BY <1>1, <1>2, <1>3 DEF AtSetupM4
    <2>6. AtSetupM6 => AtSetupM6'
      BY <1>1, <1>2 DEF AtSetupM6, Known
    <2>7. AtVerifyM2 => AtVerifyM2'
      BY <1>1, <1>2 DEF AtVerifyM2
    <2>8. AtVerifyDone => AtVerifyDone'
      BY <1>1, <1>2 DEF AtVerifyDone
    <2>9. \A e \in BOOLEAN : Matched(e)' = Matched(e)
      BY <1>1, <1>2 DEF Matched
    <2>10. (AtDone => AtDone') /\ (AtReady => AtReady')
      BY <1>1, <2>9 DEF AtDone, AtReady
    <2> QED
      BY <2>1, <2>2, <2>3, <2>4, <2>5, <2>6, <2>7, <2>8, <2>10 DEF PairInv, Situation
  <1>5. Shapes'
    BY <1>1, <1>2, SenderLeftAlone DEF PairInv, Shapes, Exchanging
  <1>6. CredentialsGood'
    BY <1>1 DEF PairInv, CredentialsGood
  <1> QED
    BY <1>1, <1>4, <1>5, <1>6, SenderLeftAlone DEF PairInv

\* Every step keeps the invariant.
LEMMA PairStep == PairInv /\ [Next]_vars => PairInv'
  <1> SUFFICES ASSUME PairInv, [Next]_vars PROVE PairInv'
    OBVIOUS
  <1>1. CASE Sender
    <2>1. CASE \E method \in {"HapTransient", "HapPin"} : Connect(method)
      BY <2>1, ConnectKeeps
    <2>2. CASE End \/ OnRefused
      BY <2>2, EndKeeps
    <2>3. CASE OnPinStart
      BY <2>3, OnPinStartKeeps
    <2>4. CASE OnM1Refused
      BY <2>4, OnM1RefusedKeeps
    <2>5. CASE \E a \in Secrets : handlePairSetupM2_(a)
      BY <2>5, SetupM2Keeps
    <2>6. CASE \E a \in Secrets, pin \in Pins : submitPin(pin, a)
      BY <2>6, SubmitPinKeeps
    <2>7. CASE handlePairSetupM4_
      BY <2>7, SetupM4Keeps
    <2>8. CASE handlePairSetupM6_
      BY <2>8, SetupM6Keeps
    <2>9. CASE handlePairVerifyM2_
      BY <2>9, VerifyM2Keeps
    <2>10. CASE OnVerifyDone
      BY <2>10, OnVerifyDoneKeeps
    <2>11. CASE sendAp2SetupStream_
      BY <2>11, SetupStreamKeeps
    <2> QED
      BY <1>1, <2>1, <2>2, <2>3, <2>4, <2>5, <2>6, <2>7, <2>8, <2>9, <2>10, <2>11, Zenon
         DEF Sender
  <1>2. CASE Receiver
    <2>1. CASE \E pin \in Pins : RcvPinStart(pin)
      BY <2>1, RcvPinStartKeeps
    <2>2. CASE \E salt \in Salts, b \in Secrets : RcvM1(salt, b)
      BY <2>2, RcvM1Keeps
    <2>3. CASE RcvM3
      BY <2>3, RcvM3Keeps
    <2>4. CASE RcvM5
      BY <2>4, RcvM5Keeps
    <2>5. CASE RcvVerifyM1
      BY <2>5, RcvVerifyM1Keeps
    <2>6. CASE RcvVerifyM3
      BY <2>6, RcvVerifyM3Keeps
    <2>7. CASE RcvForget
      BY <2>7, RcvForgetKeeps
    <2> QED
      BY <1>2, <2>1, <2>2, <2>3, <2>4, <2>5, <2>6, <2>7 DEF Receiver
  <1>3. CASE UNCHANGED vars
    BY <1>3, StutterKeeps
  <1> QED
    BY <1>1, <1>2, <1>3 DEF Next

\* The invariant gives the properties the run checks.
LEMMA PairMeaning ==
    ASSUME PairInv
    PROVE  KeyedTogether /\ HonestAccepted
  <1>1. TypeOK
    <2>1. stage \in {"None", "PinStart", "SetupM2", "WaitPin", "SetupM4", "SetupM6",
                     "VerifyM2", "VerifyDone", "Done", "Ready"}
      BY DEF PairInv, Situation, AtNone, AtPinStart, AtSetupM2, AtWaitPin, AtSetupM4, AtSetupM6,
             AtVerifyM2, AtVerifyDone, AtDone, AtReady
    <2>2. msg.to \in {"nobody", "sender", "receiver"}
      <3>1. AtNone \/ AtWaitPin \/ AtDone \/ AtReady => msg.to = "nobody"
        BY DEF AtNone, AtWaitPin, AtDone, AtReady, Quiet
      <3>2. AtPinStart \/ AtSetupM2 => msg.to \in {"sender", "receiver"}
        BY DEF AtPinStart, AtSetupM2, Asked, Came
      <3>3. AtSetupM4 \/ AtSetupM6 => msg.to \in {"sender", "receiver"}
        BY DEF AtSetupM4, AtSetupM6, Asked, Came
      <3>4. AtVerifyM2 \/ AtVerifyDone => msg.to \in {"sender", "receiver"}
        BY DEF AtVerifyM2, AtVerifyDone, Asked, Came
      <3> QED
        BY <3>1, <3>2, <3>3, <3>4 DEF PairInv, Situation
    <2> QED
      BY <2>1, <2>2 DEF PairInv, Seeds, Control, KeysTyped, TypeOK
  <1>2. KeysAgree
    <2> SUFFICES ASSUME stage \in {"Done", "Ready"} PROVE KeysAgree
      BY DEF KeysAgree
    <2>1. PICK events \in BOOLEAN :
              /\ Matched(events)
              /\ \/ stage = "Done" /\ ap2.keys = Keyed(ap2.secret, events)
                 \/ stage = "Ready"
                    /\ ap2.keys = [Keyed(ap2.secret, events) EXCEPT !.audio = <<ap2.secret[1]>>]
      BY CameWhere DEF PairInv, AtDone, AtReady
    <2> DEFINE s == Keyed(ap2.secret, events)
               r == RcvKeyed(NoKeys, ap2.secret, events)
    <2>2. /\ r.controlIn = s.controlOut /\ r.controlOut = s.controlIn
          /\ r.eventIn = s.eventOut /\ r.eventOut = s.eventIn
          /\ r.audio = <<ap2.secret[1]>>
      BY KeyFields
    <2>3. /\ ap2.keys.controlOut = s.controlOut /\ ap2.keys.controlIn = s.controlIn
          /\ ap2.keys.eventOut = s.eventOut /\ ap2.keys.eventIn = s.eventIn
          /\ stage = "Ready" => ap2.keys.audio = <<ap2.secret[1]>>
      BY <2>1 DEF Keyed, withControlKeys, withEventKeys, NoKeys
    <2> HIDE DEF s, r
    <2>4. CASE rcv.encrypted /\ rcv.keys = r
      BY <2>2, <2>3, <2>4 DEF KeysAgree
    <2>5. CASE Unkeyed /\ rcv.forgot
      BY <2>5 DEF KeysAgree, Unkeyed
    <2> QED
      BY <2>1, <2>4, <2>5 DEF Matched, r
  <1>3. RightPinAccepted
    <2> SUFFICES ASSUME stage = "SetupM4", msg.to = "sender", msg.type = "error"
                 PROVE  ap2.srp.password # Screen
      BY DEF RightPinAccepted, Screen
    <2>1. AtSetupM4
      BY CameWhere DEF PairInv
    <2> QED
      BY <2>1 DEF AtSetupM4, Asked, Came
  <1>4. HonestReceiverProves
    BY DEF PairInv, Control, HonestReceiverProves
  <1> QED
    BY <1>1, <1>2, <1>3, <1>4 DEF KeyedTogether, HonestAccepted

\* A handshake with an honest receiver is at every moment at one of the
\* stages above, whatever PINs are typed, whichever secrets and salts are
\* drawn, and however often the sender connects, gives up or is forgotten
\* (handlePairReply, submitPairingPin).
THEOREM PairingInvariant == Spec => []PairInv
  BY PairInit, PairStep, PTL DEF Spec

\* Both sides end a handshake with the same keys, each one's outgoing key
\* being the other's incoming one (KeyedTogether).
THEOREM KeysMatch == Spec => []KeyedTogether
  <1>1. PairInv => KeyedTogether
    BY PairMeaning
  <1> QED
    BY <1>1, PairingInvariant, PTL

\* The right PIN is never refused, and a proof or signature of an honest
\* receiver is never found wrong (HonestAccepted).
THEOREM HonestNeverRefused == Spec => []HonestAccepted
  <1>1. PairInv => HonestAccepted
    BY PairMeaning
  <1> QED
    BY <1>1, PairingInvariant, PTL

\* The credentials the host keeps are ones the receiver accepts, unless its
\* owner made it forget them (CredentialsGood).
THEOREM CredentialsStayGood == Spec => []CredentialsGood
  <1>1. PairInv => CredentialsGood
    BY DEF PairInv
  <1> QED
    BY <1>1, PairingInvariant, PTL
=============================================================================
