------------------------ MODULE HapChannelsProofs -------------------------
(***************************************************************************)
(* Invariance proofs for both channels of HapChannels, for any number of   *)
(* requests and pushed requests, any lengths of bodies, any frame size,    *)
(* any damage and any cut of the byte stream.                              *)
(*                                                                         *)
(* From the bottom up: joining sequences (FlattenSeq); frames of a buffer; *)
(* messages and the numbers of their replies; the loop that takes text     *)
(* apart, over a part of the next message; the control channel's invariant *)
(* and its steps; the stream of the event channel, its invariant and its   *)
(* steps.                                                                  *)
(***************************************************************************)
EXTENDS HapChannels, SequenceTheorems, ModularArithmetic

(* Joined sequences.  Induction is over a set of numbers, on the function that
   the recursion of FlattenSeq builds. *)

\* What the recursion of FlattenSeq(S) satisfies up to n.
Joined(f, S, n) == f = [i \in 1 .. n |-> IF i = 1 THEN S[i] ELSE f[i - 1] \o S[i]]

\* Such a function exists up to every n: by induction over n.
LEMMA JoinedExists ==
    ASSUME NEW S, NEW n \in Nat
    PROVE  \E f : Joined(f, S, n)
  <1> DEFINE G == {m \in Nat : \E f : Joined(f, S, m)}
  <1>1. 0 \in G
    <2> DEFINE f == [i \in 1 .. 0 |-> S[i]]
    <2>1. Joined(f, S, 0)
      BY DEF Joined
    <2> QED
      BY <2>1
  <1>2. ASSUME NEW m \in Nat, m \in G PROVE m + 1 \in G
    <2>1. PICK f : Joined(f, S, m)
      BY <1>2
    <2> DEFINE h == [i \in 1 .. m + 1 |-> IF i = m + 1 THEN (IF i = 1 THEN S[i] ELSE f[m] \o S[i])
                                                      ELSE f[i]]
    <2>2. ASSUME NEW i \in 1 .. m
          PROVE  f[i] = IF i = 1 THEN S[i] ELSE f[i - 1] \o S[i]
      BY <2>1 DEF Joined
    <2>3. ASSUME NEW i \in 1 .. m + 1
          PROVE  h[i] = IF i = 1 THEN S[i] ELSE h[i - 1] \o S[i]
      <3>1. CASE i = m + 1
        <4>1. CASE i = 1
          BY <3>1, <4>1
        <4>2. CASE i # 1
          <5>1. i - 1 \in 1 .. m + 1 /\ i - 1 = m /\ i - 1 # m + 1
            BY <3>1, <4>2
          <5>2. h[i - 1] = f[m]
            BY <5>1
          <5>3. h[i] = f[m] \o S[i]
            BY <3>1, <4>2
          <5> QED
            BY <4>2, <5>2, <5>3
        <4> QED
          BY <4>1, <4>2
      <3>2. CASE i # m + 1
        <4>1. i \in 1 .. m /\ h[i] = f[i]
          BY <3>2
        <4>2. i # 1 => i - 1 \in 1 .. m + 1 /\ i - 1 # m + 1 /\ h[i - 1] = f[i - 1]
          BY <4>1
        <4> HIDE DEF h
        <4> QED
          BY <2>2, <4>1, <4>2
      <3> QED
        BY <3>1, <3>2
    <2>4. h = [i \in 1 .. m + 1 |-> h[i]]
      OBVIOUS
    <2> HIDE DEF h
    <2>5. Joined(h, S, m + 1)
      BY <2>3, <2>4 DEF Joined
    <2> QED
      BY <2>5
  <1> HIDE DEF G
  <1>3. Nat \subseteq G
    BY <1>1, <1>2, NatSetInduction
  <1> QED
    BY <1>3 DEF G

\* Two functions agree up to n.
Alike(f, h, n) == \A i \in 1 .. n : f[i] = h[i]

\* It depends only on the pieces up to n.
LEMMA JoinedAgree ==
    ASSUME NEW S, NEW R, NEW n \in Nat, Alike(S, R, n),
           NEW f, Joined(f, S, n), NEW h, Joined(h, R, n + 1)
    PROVE  Alike(f, h, n)
  <1> DEFINE G == {i \in Nat : i \in 1 .. n => f[i] = h[i]}
  <1>1. 0 \in G
    OBVIOUS
  <1>2. ASSUME NEW i \in Nat, i \in G PROVE i + 1 \in G
    <2> SUFFICES ASSUME i + 1 \in 1 .. n PROVE f[i + 1] = h[i + 1]
      OBVIOUS
    <2>1. /\ f[i + 1] = IF i + 1 = 1 THEN S[i + 1] ELSE f[(i + 1) - 1] \o S[i + 1]
          /\ h[i + 1] = IF i + 1 = 1 THEN R[i + 1] ELSE h[(i + 1) - 1] \o R[i + 1]
      <3>1. i + 1 \in 1 .. n /\ i + 1 \in 1 .. n + 1
        OBVIOUS
      <3> QED
        BY <3>1 DEF Joined
    <2>2. S[i + 1] = R[i + 1] /\ (i + 1) - 1 = i
      BY DEF Alike
    <2>3. i + 1 # 1 => f[i] = h[i]
      BY <1>2
    <2> QED
      BY <2>1, <2>2, <2>3
  <1> HIDE DEF G
  <1>3. Nat \subseteq G
    BY <1>1, <1>2, NatSetInduction
  <1> QED
    BY <1>3 DEF G, Alike

\* FlattenSeq takes its last value.
LEMMA FlattenIsJoined ==
    ASSUME NEW S, Len(S) \in Nat
    PROVE  /\ Len(S) = 0 => FlattenSeq(S) = S
           /\ Len(S) # 0 => \E f : Joined(f, S, Len(S)) /\ FlattenSeq(S) = f[Len(S)]
  <1>1. Len(S) = 0 => FlattenSeq(S) = S
    BY DEF FlattenSeq
  <1>2. ASSUME Len(S) # 0
        PROVE  \E f : Joined(f, S, Len(S)) /\ FlattenSeq(S) = f[Len(S)]
    <2> DEFINE p == CHOOSE f : Joined(f, S, Len(S))
    <2>1. Joined(p, S, Len(S))
      BY JoinedExists
    <2>2. FlattenSeq(S) = p[Len(S)]
      BY <1>2 DEF FlattenSeq, Joined
    <2> QED
      BY <2>1, <2>2
  <1> QED
    BY <1>1, <1>2

\* Nothing joined is nothing.
LEMMA FlattenEmpty == FlattenSeq(<<>>) = <<>>
  BY FlattenIsJoined

\* Joined sequences over T are a sequence over T.
LEMMA FlattenType ==
    ASSUME NEW T, NEW S \in Seq(Seq(T))
    PROVE  FlattenSeq(S) \in Seq(T)
  <1> DEFINE n == Len(S)
  <1>1. n \in Nat /\ \A i \in 1 .. n : S[i] \in Seq(T)
    OBVIOUS
  <1>2. CASE n = 0
    <2>1. FlattenSeq(S) = S
      BY <1>1, <1>2, FlattenIsJoined
    <2>2. S = <<>>
      BY <1>2
    <2> QED
      BY <2>1, <2>2
  <1>3. CASE n # 0
    <2>1. PICK f : Joined(f, S, n) /\ FlattenSeq(S) = f[n]
      BY <1>1, <1>3, FlattenIsJoined
    <2> HIDE DEF n
    <2>2. \A i \in 1 .. n : f[i] = IF i = 1 THEN S[i] ELSE f[i - 1] \o S[i]
      BY <2>1 DEF Joined
    <2> DEFINE G == {i \in Nat : i \in 1 .. n => f[i] \in Seq(T)}
    <2>3. 0 \in G
      OBVIOUS
    <2>4. ASSUME NEW i \in Nat, i \in G PROVE i + 1 \in G
      <3> SUFFICES ASSUME i + 1 \in 1 .. n PROVE f[i + 1] \in Seq(T)
        OBVIOUS
      <3>1. S[i + 1] \in Seq(T) /\ (i + 1) - 1 = i
        BY <1>1
      <3>2. CASE i + 1 = 1
        BY <2>2, <3>1, <3>2
      <3>3. CASE i + 1 # 1
        <4>1. f[i] \in Seq(T)
          BY <1>1, <2>4, <3>3
        <4>2. f[i + 1] = f[i] \o S[i + 1]
          BY <2>2, <3>1, <3>3
        <4> QED
          BY <3>1, <4>1, <4>2
      <3> QED
        BY <3>2, <3>3
    <2> HIDE DEF G
    <2>5. Nat \subseteq G
      BY <2>3, <2>4, NatSetInduction
    <2>6. n \in 1 .. n /\ n \in G
      BY <1>1, <1>3, <2>5
    <2> QED
      BY <2>1, <2>6 DEF G
  <1> QED
    BY <1>2, <1>3

\* One more piece is appended at the end.
LEMMA FlattenAppend ==
    ASSUME NEW T, NEW S \in Seq(Seq(T)), NEW x \in Seq(T)
    PROVE  FlattenSeq(Append(S, x)) = FlattenSeq(S) \o x
  <1> DEFINE n == Len(S)
             R == Append(S, x)
  <1>1. /\ n \in Nat /\ Len(R) = n + 1 /\ R[n + 1] = x /\ \A i \in 1 .. n : S[i] = R[i]
        /\ Len(R) \in Nat
    OBVIOUS
  <1> HIDE DEF R
  <1>2. PICK h : Joined(h, R, n + 1) /\ FlattenSeq(R) = h[n + 1]
    BY <1>1, FlattenIsJoined
  <1>3. h[n + 1] = IF n + 1 = 1 THEN R[n + 1] ELSE h[(n + 1) - 1] \o R[n + 1]
    <2>1. n + 1 \in 1 .. n + 1
      BY <1>1
    <2> QED
      BY <1>2, <2>1 DEF Joined
  <1>4. CASE n = 0
    <2>1. FlattenSeq(S) = <<>>
      BY <1>1, <1>4, FlattenIsJoined
    <2>2. h[n + 1] = x
      BY <1>1, <1>3, <1>4
    <2> QED
      BY <1>2, <2>1, <2>2 DEF R
  <1>5. CASE n # 0
    <2>1. PICK f : Joined(f, S, n) /\ FlattenSeq(S) = f[n]
      BY <1>1, <1>5, FlattenIsJoined
    <2> HIDE DEF n
    <2>2. \A i \in 1 .. n : f[i] = h[i]
      <3>1. n \in Nat /\ Alike(S, R, n)
        BY <1>1 DEF Alike
      <3>2. Alike(f, h, n)
        BY <1>2, <2>1, <3>1, JoinedAgree
      <3> QED
        BY <3>2 DEF Alike
    <2>3. n \in 1 .. n /\ n + 1 # 1 /\ (n + 1) - 1 = n
      BY <1>1, <1>5
    <2>4. f[n] = h[n]
      BY <2>2, <2>3
    <2> QED
      BY <1>1, <1>2, <1>3, <2>1, <2>3, <2>4 DEF R
  <1> QED
    BY <1>4, <1>5

\* Joining commutes with concatenation: by induction over the length of the
\* second.
LEMMA FlattenConcat ==
    ASSUME NEW T, NEW S \in Seq(Seq(T)), NEW R \in Seq(Seq(T))
    PROVE  FlattenSeq(S \o R) = FlattenSeq(S) \o FlattenSeq(R)
  <1> DEFINE G == {n \in Nat : \A Q \in Seq(Seq(T)) :
                     Len(Q) = n => FlattenSeq(S \o Q) = FlattenSeq(S) \o FlattenSeq(Q)}
  <1>1. 0 \in G
    <2> SUFFICES ASSUME NEW Q \in Seq(Seq(T)), Len(Q) = 0
                 PROVE  FlattenSeq(S \o Q) = FlattenSeq(S) \o FlattenSeq(Q)
      OBVIOUS
    <2>1. Q = <<>> /\ S \o Q = S
      OBVIOUS
    <2>2. FlattenSeq(S) \in Seq(T)
      BY FlattenType
    <2>3. FlattenSeq(S) \o <<>> = FlattenSeq(S)
      BY <2>2
    <2> QED
      BY <2>1, <2>3, FlattenEmpty
  <1>2. ASSUME NEW n \in Nat, n \in G PROVE n + 1 \in G
    <2> SUFFICES ASSUME NEW Q \in Seq(Seq(T)), Len(Q) = n + 1
                 PROVE  FlattenSeq(S \o Q) = FlattenSeq(S) \o FlattenSeq(Q)
      OBVIOUS
    <2>0. \E P \in Seq(Seq(T)), x \in Seq(T) : Q = Append(P, x)
      <3> DEFINE U == Seq(T)
      <3>1. Q \in Seq(U) /\ Q # <<>>
        OBVIOUS
      <3> HIDE DEF U
      <3>2. \E P \in Seq(U), x \in U : Q = Append(P, x)
        BY <3>1, SequenceEmptyOrAppend
      <3> QED
        BY <3>2 DEF U
    <2>1. PICK P \in Seq(Seq(T)), x \in Seq(T) : Q = Append(P, x)
      BY <2>0
    <2>2. Len(P) = n
      BY <2>1
    <2>3. FlattenSeq(S \o P) = FlattenSeq(S) \o FlattenSeq(P)
      BY <1>2, <2>2
    <2>4. S \o Q = Append(S \o P, x) /\ S \o P \in Seq(Seq(T))
      BY <2>1, SMTT(60)
    <2>5. FlattenSeq(S \o Q) = FlattenSeq(S \o P) \o x
      BY <2>4, FlattenAppend
    <2>6. FlattenSeq(Q) = FlattenSeq(P) \o x
      BY <2>1, FlattenAppend
    <2>7. FlattenSeq(S) \in Seq(T) /\ FlattenSeq(P) \in Seq(T)
      BY FlattenType
    <2>8. (FlattenSeq(S) \o FlattenSeq(P)) \o x = FlattenSeq(S) \o (FlattenSeq(P) \o x)
      <3>1. PICK a, b : a = FlattenSeq(S) /\ b = FlattenSeq(P)
        OBVIOUS
      <3>2. a \in Seq(T) /\ b \in Seq(T) /\ x \in Seq(T)
        BY <2>1, <2>7, <3>1
      <3>3. (a \o b) \o x = a \o (b \o x)
        BY ONLY <3>2, SMTT(60)
      <3> QED
        BY <3>1, <3>3
    <2> QED
      BY <2>3, <2>5, <2>6, <2>8
  <1> HIDE DEF G
  <1>3. Nat \subseteq G
    BY <1>1, <1>2, NatSetInduction
  <1>4. Len(R) \in Nat /\ Len(R) \in G
    BY <1>3
  <1> QED
    BY <1>4 DEF G

----------------------------------------------------------------------------
(* Frames on the wire. *)

\* Frames and halves of frames that carry elements of T.
FrameSet(T) == [key : Nat, ctr : Nat, plain : Seq(T), intact : BOOLEAN]
ItemSet(T) == [frame : FrameSet(T), half : 0 .. 2]

\* A frame on the wire is its two halves.
LEMMA HalvesType ==
    ASSUME NEW T, NEW f \in FrameSet(T)
    PROVE  /\ Halves(f) \in Seq(ItemSet(T)) /\ Len(Halves(f)) = 2
           /\ Halves(f)[1] = [frame |-> f, half |-> 1]
           /\ Halves(f)[2] = [frame |-> f, half |-> 2]
  <1>1. [frame |-> f, half |-> 1] \in ItemSet(T) /\ [frame |-> f, half |-> 2] \in ItemSet(T)
    BY DEF ItemSet
  <1> QED
    BY <1>1 DEF Halves

\* The halves of frame j are at 2 j - 1 and 2 j.
LEMMA WireShape ==
    ASSUME NEW T, NEW F \in Seq(FrameSet(T))
    PROVE  /\ Wire(F) \in Seq(ItemSet(T)) /\ Len(Wire(F)) = 2 * Len(F)
           /\ \A j \in 1 .. Len(F) : /\ Wire(F)[2 * j - 1] = [frame |-> F[j], half |-> 1]
                                     /\ Wire(F)[2 * j] = [frame |-> F[j], half |-> 2]
  <1> DEFINE U == FrameSet(T)
             V == ItemSet(T)
             Good(Q) == /\ Wire(Q) \in Seq(V) /\ Len(Wire(Q)) = 2 * Len(Q)
                        /\ \A j \in 1 .. Len(Q) : /\ Wire(Q)[2 * j - 1] = [frame |-> Q[j], half |-> 1]
                                                  /\ Wire(Q)[2 * j] = [frame |-> Q[j], half |-> 2]
             G == {n \in Nat : \A Q \in Seq(U) : Len(Q) = n => Good(Q)}
  <1>1. 0 \in G
    <2> SUFFICES ASSUME NEW Q \in Seq(U), Len(Q) = 0 PROVE Good(Q)
      OBVIOUS
    <2>1. [i \in DOMAIN Q |-> Halves(Q[i])] = <<>>
      OBVIOUS
    <2>2. Wire(Q) = <<>>
      BY <2>1, FlattenEmpty DEF Wire
    <2> QED
      BY <2>2
  <1>2. ASSUME NEW n \in Nat, n \in G PROVE n + 1 \in G
    <2> SUFFICES ASSUME NEW Q \in Seq(U), Len(Q) = n + 1 PROVE Good(Q)
      OBVIOUS
    <2> HIDE DEF U
    <2>1. PICK P \in Seq(U), x \in U : Q = Append(P, x)
      <3>1. Q # <<>>
        OBVIOUS
      <3> QED
        BY <3>1, SequenceEmptyOrAppend
    <2>2. Len(P) = n /\ Len(Q) = n + 1 /\ Q[n + 1] = x /\ \A i \in 1 .. n : Q[i] = P[i]
      BY <2>1
    <2>3. Good(P)
      BY <1>2, <2>2
    <2>4. Halves(x) \in Seq(V) /\ \A i \in 1 .. n : Halves(P[i]) \in Seq(V)
      <3>1. \A i \in 1 .. n : P[i] \in U
        BY <2>2
      <3> QED
        BY <3>1, HalvesType DEF U
    <2> DEFINE S == [i \in DOMAIN P |-> Halves(P[i])]
    <2>5. S \in Seq(Seq(V))
      <3>1. DOMAIN P = 1 .. n
        BY <2>2
      <3> QED
        BY <2>4, <3>1
    <2>6. [i \in DOMAIN Q |-> Halves(Q[i])] = Append(S, Halves(x))
      <3> HIDE DEF S
      <3>1. Len(S) = n /\ \A i \in 1 .. n : S[i] = Halves(Q[i])
        BY <2>2, <2>5 DEF S
      <3> DEFINE R == [i \in DOMAIN Q |-> Halves(Q[i])]
                 A == Append(S, Halves(x))
      <3>2. R \in Seq(Seq(V)) /\ Len(R) = n + 1 /\ \A i \in 1 .. n + 1 : R[i] = Halves(Q[i])
        <4>1. DOMAIN Q = 1 .. n + 1
          BY <2>2
        <4>2. \A i \in 1 .. n + 1 : Halves(Q[i]) \in Seq(V)
          BY <2>2, <2>4
        <4> QED
          BY <4>1, <4>2
      <3>3. A \in Seq(Seq(V)) /\ Len(A) = n + 1 /\ \A i \in 1 .. n + 1 : A[i] = Halves(Q[i])
        BY <2>2, <2>4, <2>5, <3>1
      <3> HIDE DEF R, A, V
      <3>4. R = A
        BY <3>2, <3>3, SeqEqual, SMTT(60)
      <3> QED
        BY <3>4 DEF R, A
    <2>7. Wire(Q) = Wire(P) \o Halves(x)
      <3> HIDE DEF S, V
      <3>1. FlattenSeq(Append(S, Halves(x))) = FlattenSeq(S) \o Halves(x)
        BY <2>4, <2>5, FlattenAppend
      <3> QED
        BY <2>6, <3>1 DEF Wire, S
    <2>8. /\ Len(Halves(x)) = 2 /\ Halves(x)[1] = [frame |-> x, half |-> 1]
          /\ Halves(x)[2] = [frame |-> x, half |-> 2]
      BY HalvesType DEF U
    <2>9. PICK w, h : w = Wire(P) /\ h = Halves(x)
      OBVIOUS
    <2>10. w \in Seq(V) /\ h \in Seq(V) /\ Len(w) = 2 * n /\ Len(h) = 2
      BY <2>2, <2>3, <2>4, <2>8, <2>9
    <2> HIDE DEF V
    <2>11. /\ w \o h \in Seq(V) /\ Len(w \o h) = 2 * (n + 1)
           /\ \A i \in 1 .. 2 * (n + 1) : (w \o h)[i] = IF i <= 2 * n THEN w[i] ELSE h[i - 2 * n]
      <3>1. /\ w \o h \in Seq(V) /\ Len(w \o h) = Len(w) + Len(h)
            /\ \A i \in 1 .. Len(w) + Len(h) :
                  (w \o h)[i] = IF i <= Len(w) THEN w[i] ELSE h[i - Len(w)]
        BY <2>10, ConcatProperties
      <3>2. Len(w) + Len(h) = 2 * (n + 1)
        BY <2>10
      <3> QED
        BY <2>10, <3>1, <3>2
    <2>12. ASSUME NEW j \in 1 .. n + 1
           PROVE  /\ (w \o h)[2 * j - 1] = [frame |-> Q[j], half |-> 1]
                  /\ (w \o h)[2 * j] = [frame |-> Q[j], half |-> 2]
      <3>1. CASE j = n + 1
        <4>0. /\ 2 * j - 1 \in 1 .. 2 * (n + 1) /\ 2 * j \in 1 .. 2 * (n + 1)
              /\ ~(2 * j - 1 <= 2 * n) /\ ~(2 * j <= 2 * n)
              /\ (2 * j - 1) - 2 * n = 1 /\ 2 * j - 2 * n = 2
          BY <3>1
        <4>1. (w \o h)[2 * j - 1] = h[1] /\ (w \o h)[2 * j] = h[2]
          <5>1. (w \o h)[2 * j - 1] = h[(2 * j - 1) - 2 * n]
            BY <2>11, <4>0
          <5>2. (w \o h)[2 * j] = h[2 * j - 2 * n]
            BY <2>11, <4>0
          <5> QED
            BY <4>0, <5>1, <5>2
        <4> QED
          BY <2>2, <2>8, <2>9, <3>1, <4>1
      <3>2. CASE j # n + 1
        <4>1. j \in 1 .. n
          BY <3>2
        <4>2. (w \o h)[2 * j - 1] = w[2 * j - 1] /\ (w \o h)[2 * j] = w[2 * j]
          <5>1. /\ 2 * j - 1 \in 1 .. 2 * (n + 1) /\ 2 * j \in 1 .. 2 * (n + 1)
                /\ 2 * j - 1 <= 2 * n /\ 2 * j <= 2 * n
            BY <4>1
          <5> QED
            BY <2>11, <5>1
        <4> QED
          BY <2>2, <2>3, <2>9, <4>1, <4>2
      <3> QED
        BY <3>1, <3>2
    <2> QED
      BY <2>2, <2>7, <2>9, <2>11, <2>12
  <1>3. Nat \subseteq G
    <2> HIDE DEF G
    <2> QED
      BY <1>1, <1>2, NatSetInduction
  <1>4. Len(F) \in Nat /\ Len(F) \in G
    BY <1>3
  <1> QED
    BY <1>4

----------------------------------------------------------------------------
(* Frames of a buffer. *)

\* The frames of I in place, none damaged, what they carry.
Framed(I, key, c) ==
    /\ Len(I) % 2 = 0
    /\ \A i \in 1 .. Len(I) : I[i].half = IF i % 2 = 1 THEN 1 ELSE 2
    /\ \A j \in 1 .. Complete(I) : FrameAt(I, j).key = key /\ FrameAt(I, j).ctr = c + j - 1
Intact(I) == \A j \in 1 .. Complete(I) : FrameAt(I, j).intact
All(I) == Plain(I, Complete(I))

\* The elements of a concatenation and of a tail.
LEMMA Concatenation ==
    ASSUME NEW V, NEW a \in Seq(V), NEW b \in Seq(V)
    PROVE  /\ a \o b \in Seq(V) /\ Len(a \o b) = Len(a) + Len(b)
           /\ Len(a) \in Nat /\ Len(b) \in Nat
           /\ \A i \in 1 .. Len(a) : (a \o b)[i] = a[i]
           /\ \A i \in Len(a) + 1 .. Len(a) + Len(b) : (a \o b)[i] = b[i - Len(a)]
  <1>1. /\ a \o b \in Seq(V) /\ Len(a \o b) = Len(a) + Len(b)
        /\ \A i \in 1 .. Len(a) + Len(b) :
              (a \o b)[i] = IF i <= Len(a) THEN a[i] ELSE b[i - Len(a)]
    BY ConcatProperties
  <1>2. Len(a) \in Nat /\ Len(b) \in Nat
    BY LenProperties
  <1> QED
    BY <1>1, <1>2

\* A tail of a sequence.
LEMMA From ==
    ASSUME NEW V, NEW s \in Seq(V), NEW m \in 0 .. Len(s)
    PROVE  /\ SubSeq(s, m + 1, Len(s)) \in Seq(V)
           /\ Len(SubSeq(s, m + 1, Len(s))) = Len(s) - m
           /\ \A i \in 1 .. Len(s) - m : SubSeq(s, m + 1, Len(s))[i] = s[i + m]
  <1>1. Len(s) \in Nat /\ \A i \in m + 1 .. Len(s) : s[i] \in V
    BY LenProperties, ElementOfSeq
  <1>2. /\ SubSeq(s, m + 1, Len(s)) \in Seq(V)
        /\ Len(SubSeq(s, m + 1, Len(s))) = IF m + 1 <= Len(s) THEN Len(s) - (m + 1) + 1 ELSE 0
        /\ \A i \in 1 .. Len(s) - (m + 1) + 1 : SubSeq(s, m + 1, Len(s))[i] = s[(m + 1) + i - 1]
    BY <1>1, SubSeqProperties
  <1>3. PICK d : d = SubSeq(s, m + 1, Len(s))
    OBVIOUS
  <1>4. Len(d) = Len(s) - m
    BY <1>1, <1>2, <1>3
  <1>5. ASSUME NEW i \in 1 .. Len(s) - m PROVE d[i] = s[i + m]
    <2>1. i \in 1 .. Len(s) - (m + 1) + 1 /\ (m + 1) + i - 1 = i + m
      BY <1>1
    <2>2. d[i] = s[(m + 1) + i - 1]
      BY <1>2, <1>3, <2>1
    <2> QED
      BY <2>1, <2>2
  <1> QED
    BY <1>2, <1>3, <1>4, <1>5

\* A prefix, and the sequence from its two parts.
LEMMA UpTo ==
    ASSUME NEW V, NEW s \in Seq(V), NEW m \in 0 .. Len(s)
    PROVE  /\ SubSeq(s, 1, m) \in Seq(V) /\ Len(SubSeq(s, 1, m)) = m
           /\ \A i \in 1 .. m : SubSeq(s, 1, m)[i] = s[i]
           /\ SubSeq(s, 1, m) \o SubSeq(s, m + 1, Len(s)) = s
  <1>1. Len(s) \in Nat /\ \A i \in 1 .. m : s[i] \in V
    BY LenProperties, ElementOfSeq
  <1>2. /\ SubSeq(s, 1, m) \in Seq(V)
        /\ Len(SubSeq(s, 1, m)) = IF 1 <= m THEN m - 1 + 1 ELSE 0
        /\ \A i \in 1 .. m - 1 + 1 : SubSeq(s, 1, m)[i] = s[1 + i - 1]
    BY <1>1, SubSeqProperties
  <1>3. PICK d : d = SubSeq(s, 1, m)
    OBVIOUS
  <1>4. Len(d) = m
    BY <1>1, <1>2, <1>3
  <1>5. ASSUME NEW i \in 1 .. m PROVE d[i] = s[i]
    <2>1. i \in 1 .. m - 1 + 1 /\ 1 + i - 1 = i
      BY <1>1
    <2>2. d[i] = s[1 + i - 1]
      BY <1>2, <1>3, <2>1
    <2> QED
      BY <2>1, <2>2
  <1>6. SubSeq(s, 1, m) \o SubSeq(s, m + 1, Len(s)) = SubSeq(s, 1, Len(s))
    <2>1. 1 \in 1 .. Len(s) + 1 /\ m \in 1 - 1 .. Len(s) /\ Len(s) \in m .. Len(s)
      BY <1>1
    <2> QED
      BY <2>1, ConcatAdjacentSubSeq
  <1>7. SubSeq(s, 1, Len(s)) = s
    BY SubSeqFull
  <1> QED
    BY <1>2, <1>3, <1>4, <1>5, <1>6, <1>7

\* What follows the first of two sequences in one is the second.
LEMMA SecondPart ==
    ASSUME NEW V, NEW a \in Seq(V), NEW b \in Seq(V)
    PROVE  SubSeq(a \o b, Len(a) + 1, Len(a \o b)) = b
  <1>1. PICK d : d = a \o b
    OBVIOUS
  <1>2. /\ d \in Seq(V) /\ Len(d) = Len(a) + Len(b) /\ Len(a) \in Nat /\ Len(b) \in Nat
        /\ \A i \in Len(a) + 1 .. Len(a) + Len(b) : d[i] = b[i - Len(a)]
    BY <1>1, Concatenation
  <1>3. Len(a) \in 0 .. Len(d)
    BY <1>2
  <1>4. PICK e : e = SubSeq(d, Len(a) + 1, Len(d))
    OBVIOUS
  <1>5. e \in Seq(V) /\ Len(e) = Len(d) - Len(a) /\ \A i \in 1 .. Len(d) - Len(a) : e[i] = d[i + Len(a)]
    BY <1>2, <1>3, <1>4, From
  <1>6. Len(e) = Len(b) /\ \A i \in 1 .. Len(e) : e[i] = b[i]
    <2>1. Len(e) = Len(b)
      BY <1>2, <1>5
    <2> SUFFICES ASSUME NEW i \in 1 .. Len(e) PROVE e[i] = b[i]
      BY <2>1
    <2>2. i + Len(a) \in Len(a) + 1 .. Len(a) + Len(b) /\ (i + Len(a)) - Len(a) = i
      BY <1>2, <2>1
    <2>3. e[i] = d[i + Len(a)]
      BY <1>5
    <2> QED
      BY <1>2, <2>2, <2>3
  <1>7. e = b
    BY <1>5, <1>6, SeqEqual
  <1> QED
    BY <1>1, <1>4, <1>7

\* A complete frame of a buffer is a frame, and both its halves are there.
LEMMA FrameAtType ==
    ASSUME NEW T, NEW I \in Seq(ItemSet(T)), NEW j \in 1 .. Complete(I)
    PROVE  FrameAt(I, j) \in FrameSet(T) /\ 2 * j - 1 \in 1 .. Len(I) /\ 2 * j \in 1 .. Len(I)
  <1>1. 2 * j - 1 \in 1 .. Len(I) /\ 2 * j \in 1 .. Len(I)
    BY DEF Complete
  <1>2. I[2 * j - 1] \in ItemSet(T)
    BY <1>1
  <1> QED
    BY <1>1, <1>2 DEF ItemSet, FrameAt

\* A buffer holds its complete frames and at most one half more.
LEMMA CompleteHalf ==
    ASSUME NEW T, NEW I \in Seq(ItemSet(T))
    PROVE  /\ Complete(I) \in Nat /\ Complete(I) <= Len(I) /\ 2 * Complete(I) <= Len(I)
           /\ Len(I) % 2 = 0 => Len(I) = 2 * Complete(I)
           /\ Len(I) <= 2 * Complete(I) + 1
  BY DEF Complete

\* What the first n frames carry, as a sequence of sequences.
Payload(I, n) == [j \in 1 .. n |-> FrameAt(I, j).plain]

\* What the first n frames carry, piece by piece.
LEMMA PayloadType ==
    ASSUME NEW T, NEW I \in Seq(ItemSet(T)), NEW n \in 0 .. Complete(I)
    PROVE  Payload(I, n) \in Seq(Seq(T)) /\ Len(Payload(I, n)) = n
  <1>1. Complete(I) \in Nat
    BY CompleteHalf
  <1>2. \A j \in 1 .. n : FrameAt(I, j).plain \in Seq(T)
    <2>1. \A j \in 1 .. n : FrameAt(I, j) \in FrameSet(T)
      BY <1>1, FrameAtType
    <2> QED
      BY <2>1 DEF FrameSet
  <1> QED
    BY <1>1, <1>2 DEF Payload

\* What the first n frames carry, in one.
LEMMA PlainType ==
    ASSUME NEW T, NEW I \in Seq(ItemSet(T)), NEW n \in 0 .. Complete(I)
    PROVE  Plain(I, n) \in Seq(T) /\ Plain(I, n) = FlattenSeq(Payload(I, n))
  BY PayloadType, FlattenType DEF Plain, Payload

\* What is left after n frames are the other ones.
LEMMA RestShape ==
    ASSUME NEW T, NEW I \in Seq(ItemSet(T)), NEW n \in 0 .. Complete(I)
    PROVE  /\ Rest(I, n) \in Seq(ItemSet(T)) /\ Len(Rest(I, n)) = Len(I) - 2 * n
           /\ Complete(Rest(I, n)) = Complete(I) - n
           /\ \A i \in 1 .. Len(I) - 2 * n : Rest(I, n)[i] = I[i + 2 * n]
           /\ \A j \in 1 .. Complete(I) - n : FrameAt(Rest(I, n), j) = FrameAt(I, j + n)
  <1> DEFINE V == ItemSet(T)
  <1>1. I \in Seq(V) /\ Complete(I) \in Nat /\ 2 * Complete(I) <= Len(I) /\ Len(I) <= 2 * Complete(I) + 1
    BY CompleteHalf
  <1> HIDE DEF V
  <1>2. /\ Rest(I, n) \in Seq(V) /\ Len(Rest(I, n)) = Len(I) - 2 * n
        /\ \A i \in 1 .. Len(I) - 2 * n : Rest(I, n)[i] = I[i + 2 * n]
    <2>1. 2 * n \in 0 .. Len(I)
      BY <1>1
    <2> QED
      BY <1>1, <2>1, From DEF Rest
  <1>3. Complete(Rest(I, n)) = Complete(I) - n
    <2>1. PICK L, M : L = Len(I) /\ M = Len(Rest(I, n))
      OBVIOUS
    <2>2. L \in Nat /\ M = L - 2 * n /\ n \in Nat
      BY <1>1, <1>2, <2>1
    <2>3. M \div 2 = (L \div 2) - n
      BY <2>2
    <2> QED
      BY <2>1, <2>3 DEF Complete
  <1>4. ASSUME NEW j \in 1 .. Complete(I) - n
        PROVE  FrameAt(Rest(I, n), j) = FrameAt(I, j + n)
    <2>1. 2 * j - 1 \in 1 .. Len(I) - 2 * n /\ (2 * j - 1) + 2 * n = 2 * (j + n) - 1
      BY <1>1
    <2>2. Rest(I, n)[2 * j - 1] = I[(2 * j - 1) + 2 * n]
      BY <1>2, <2>1
    <2> QED
      BY <2>1, <2>2 DEF FrameAt
  <1> QED
    BY <1>2, <1>3, <1>4 DEF V

\* The plaintext of m frames is that of the first n and that of the others.
LEMMA PlainSplit ==
    ASSUME NEW T, NEW I \in Seq(ItemSet(T)), NEW m \in 0 .. Complete(I), NEW n \in 0 .. m
    PROVE  Plain(I, m) = Plain(I, n) \o Plain(Rest(I, n), m - n)
  <1>1. /\ Complete(I) \in Nat /\ m \in Nat /\ n \in Nat /\ n \in 0 .. Complete(I)
        /\ m - n \in 0 .. (Complete(I) - n)
    BY CompleteHalf
  <1>2. PICK J : J = Rest(I, n)
    OBVIOUS
  <1>3. /\ J \in Seq(ItemSet(T)) /\ Complete(J) = Complete(I) - n
        /\ \A j \in 1 .. Complete(I) - n : FrameAt(J, j) = FrameAt(I, j + n)
    BY <1>1, <1>2, RestShape
  <1>4. /\ Plain(I, m) = FlattenSeq(Payload(I, m)) /\ Plain(I, n) = FlattenSeq(Payload(I, n))
        /\ Plain(J, m - n) = FlattenSeq(Payload(J, m - n))
    BY <1>1, <1>3, PlainType
  <1>5. /\ Payload(I, m) \in Seq(Seq(T)) /\ Len(Payload(I, m)) = m
        /\ Payload(I, n) \in Seq(Seq(T)) /\ Len(Payload(I, n)) = n
        /\ Payload(J, m - n) \in Seq(Seq(T)) /\ Len(Payload(J, m - n)) = m - n
    BY <1>1, <1>3, PayloadType
  <1>6. /\ \A j \in 1 .. m : Payload(I, m)[j] = FrameAt(I, j).plain
        /\ \A j \in 1 .. n : Payload(I, n)[j] = FrameAt(I, j).plain
        /\ \A j \in 1 .. m - n : Payload(J, m - n)[j] = FrameAt(I, j + n).plain
    BY <1>1, <1>3 DEF Payload
  <1>7. PICK a, b, c : a = Payload(I, m) /\ b = Payload(I, n) /\ c = Payload(J, m - n)
    OBVIOUS
  <1>8. a = b \o c
    <2> DEFINE W == Seq(T)
    <2>1. a \in Seq(W) /\ b \in Seq(W) /\ c \in Seq(W) /\ Len(a) = m /\ Len(b) = n /\ Len(c) = m - n
      BY <1>5, <1>7
    <2> HIDE DEF W
    <2>2. /\ b \o c \in Seq(W) /\ Len(b \o c) = m
          /\ \A j \in 1 .. n : (b \o c)[j] = b[j]
          /\ \A j \in n + 1 .. m : (b \o c)[j] = c[j - n]
      <3>1. /\ b \o c \in Seq(W) /\ Len(b \o c) = Len(b) + Len(c)
            /\ \A j \in 1 .. Len(b) : (b \o c)[j] = b[j]
            /\ \A j \in Len(b) + 1 .. Len(b) + Len(c) : (b \o c)[j] = c[j - Len(b)]
        BY <2>1, Concatenation
      <3>2. Len(b) + Len(c) = m
        BY <1>1, <2>1
      <3> QED
        BY <2>1, <3>1, <3>2
    <2>3. ASSUME NEW j \in 1 .. m PROVE a[j] = (b \o c)[j]
      <3>1. CASE j <= n
        <4>1. j \in 1 .. n
          BY <1>1, <3>1
        <4>2. a[j] = FrameAt(I, j).plain /\ b[j] = FrameAt(I, j).plain
          BY <1>6, <1>7, <4>1
        <4>3. (b \o c)[j] = b[j]
          BY <2>2, <4>1
        <4> QED
          BY <4>2, <4>3
      <3>2. CASE j > n
        <4>1. j - n \in 1 .. m - n /\ (j - n) + n = j
          BY <1>1, <3>2
        <4>2. c[j - n] = FrameAt(I, j).plain
          BY <1>6, <1>7, <4>1
        <4>3. (b \o c)[j] = c[j - n]
          <5>1. j \in n + 1 .. m
            BY <1>1, <3>2
          <5> QED
            BY <2>2, <5>1
        <4>4. a[j] = FrameAt(I, j).plain
          BY <1>6, <1>7
        <4> QED
          BY <4>2, <4>3, <4>4
      <3>3. j <= n \/ j > n
        BY <1>1
      <3> QED
        BY <3>1, <3>2, <3>3
    <2>4. Len(a) = Len(b \o c) /\ \A j \in 1 .. Len(a) : a[j] = (b \o c)[j]
      BY <2>1, <2>2, <2>3
    <2> QED
      BY <2>1, <2>2, <2>4, SeqEqual
  <1>9. FlattenSeq(b \o c) = FlattenSeq(b) \o FlattenSeq(c)
    BY <1>5, <1>7, FlattenConcat
  <1> QED
    BY <1>2, <1>4, <1>7, <1>8, <1>9

\* What arrives behind does not change the frames already there.
LEMMA PlainPrefix ==
    ASSUME NEW T, NEW B \in Seq(ItemSet(T)), NEW R \in Seq(ItemSet(T)), NEW n \in 0 .. Complete(B)
    PROVE  /\ Plain(B \o R, n) = Plain(B, n)
           /\ \A j \in 1 .. n : FrameAt(B \o R, j) = FrameAt(B, j)
           /\ Rest(B \o R, n) = Rest(B, n) \o R
           /\ n <= Complete(B \o R)
  <1> DEFINE V == ItemSet(T)
  <1>1. B \in Seq(V) /\ R \in Seq(V) /\ Complete(B) \in Nat /\ 2 * Complete(B) <= Len(B) /\ n \in Nat
    BY CompleteHalf
  <1> HIDE DEF V
  <1>0. /\ B \o R \in Seq(V) /\ Len(B \o R) = Len(B) + Len(R)
        /\ Len(B) \in Nat /\ Len(R) \in Nat
        /\ \A i \in 1 .. Len(B) : (B \o R)[i] = B[i]
        /\ \A i \in Len(B) + 1 .. Len(B) + Len(R) : (B \o R)[i] = R[i - Len(B)]
    BY <1>1, Concatenation
  <1>2. \A j \in 1 .. n : FrameAt(B \o R, j) = FrameAt(B, j)
    <2> SUFFICES ASSUME NEW j \in 1 .. n PROVE FrameAt(B \o R, j) = FrameAt(B, j)
      OBVIOUS
    <2>1. 2 * j - 1 \in 1 .. Len(B)
      BY <1>1
    <2> QED
      BY <1>0, <2>1 DEF FrameAt
  <1>3. Plain(B \o R, n) = Plain(B, n)
    <2>1. [j \in 1 .. n |-> FrameAt(B \o R, j).plain] = [j \in 1 .. n |-> FrameAt(B, j).plain]
      BY <1>2
    <2> QED
      BY <2>1 DEF Plain
  <1>4. Rest(B \o R, n) = Rest(B, n) \o R
    <2> DEFINE a == Rest(B \o R, n)
               b == Rest(B, n)
    <2>1. /\ b \in Seq(V) /\ Len(b) = Len(B) - 2 * n
          /\ \A i \in 1 .. Len(B) - 2 * n : b[i] = B[i + 2 * n]
      <3>1. 2 * n \in 0 .. Len(B)
        BY <1>0, <1>1
      <3> QED
        BY <1>1, <3>1, From DEF Rest
    <2>3. /\ a \in Seq(V) /\ Len(a) = Len(B) + Len(R) - 2 * n
          /\ \A i \in 1 .. Len(B) + Len(R) - 2 * n : a[i] = (B \o R)[i + 2 * n]
      <3>1. 2 * n \in 0 .. Len(B \o R)
        BY <1>0, <1>1
      <3>2. /\ a \in Seq(V) /\ Len(a) = Len(B \o R) - 2 * n
            /\ \A i \in 1 .. Len(B \o R) - 2 * n : a[i] = (B \o R)[i + 2 * n]
        BY <1>0, <3>1, From, ZenonT(60) DEF Rest
      <3> QED
        BY <1>0, <3>2
    <2> HIDE DEF a, b
    <2>4. /\ b \o R \in Seq(V) /\ Len(b \o R) = Len(a)
          /\ \A i \in 1 .. Len(b) : (b \o R)[i] = b[i]
          /\ \A i \in Len(b) + 1 .. Len(b) + Len(R) : (b \o R)[i] = R[i - Len(b)]
      <3>1. /\ b \o R \in Seq(V) /\ Len(b \o R) = Len(b) + Len(R)
            /\ \A i \in 1 .. Len(b) : (b \o R)[i] = b[i]
            /\ \A i \in Len(b) + 1 .. Len(b) + Len(R) : (b \o R)[i] = R[i - Len(b)]
        BY <1>1, <2>1, Concatenation, ZenonT(60)
      <3>2. Len(b) + Len(R) = Len(a)
        BY <1>0, <1>1, <2>1, <2>3
      <3> QED
        BY <3>1, <3>2
    <2>5. \A i \in 1 .. Len(a) : a[i] = (b \o R)[i]
      <3> SUFFICES ASSUME NEW i \in 1 .. Len(a) PROVE a[i] = (b \o R)[i]
        OBVIOUS
      <3>0. i \in 1 .. Len(B) + Len(R) - 2 * n
        BY <2>3
      <3>1. CASE i <= Len(b)
        <4>0. i \in 1 .. Len(b) /\ i \in 1 .. Len(B) - 2 * n /\ i + 2 * n \in 1 .. Len(B)
          BY <1>0, <1>1, <2>1, <3>0, <3>1
        <4>1. (B \o R)[i + 2 * n] = B[i + 2 * n]
          BY <1>0, <4>0
        <4>2. (b \o R)[i] = b[i] /\ b[i] = B[i + 2 * n]
          BY <2>1, <2>4, <4>0
        <4>3. a[i] = (B \o R)[i + 2 * n]
          BY <2>3, <3>0
        <4> QED
          BY <4>1, <4>2, <4>3
      <3>2. CASE i > Len(b)
        <4>0. /\ i \in Len(b) + 1 .. Len(b) + Len(R) /\ i - Len(b) = (i + 2 * n) - Len(B)
              /\ i + 2 * n \in Len(B) + 1 .. Len(B) + Len(R)
          BY <1>0, <1>1, <2>1, <3>0, <3>2
        <4>1. (B \o R)[i + 2 * n] = R[(i + 2 * n) - Len(B)]
          BY <1>0, <4>0
        <4>2. (b \o R)[i] = R[i - Len(b)]
          BY <2>4, <4>0
        <4>3. a[i] = (B \o R)[i + 2 * n]
          BY <2>3, <3>0
        <4> QED
          BY <4>0, <4>1, <4>2, <4>3
      <3> QED
        BY <1>0, <2>1, <3>0, <3>1, <3>2, SMTT(60)
    <2>6. a = b \o R
      BY <2>3, <2>4, <2>5, SeqEqual
    <2> QED
      BY <2>6 DEF a, b
  <1>5. n <= Complete(B \o R)
    BY <1>0, <1>1 DEF Complete
  <1> QED
    BY <1>2, <1>3, <1>4, <1>5

\* Frames behind frames, under the counters that follow.
LEMMA FramedConcat ==
    ASSUME NEW T, NEW I \in Seq(ItemSet(T)), NEW J \in Seq(ItemSet(T)), NEW key, NEW c \in Nat,
           Framed(I, key, c), Framed(J, key, c + Complete(I))
    PROVE  /\ Framed(I \o J, key, c) /\ Complete(I \o J) = Complete(I) + Complete(J)
           /\ Intact(I) /\ Intact(J) => Intact(I \o J)
           /\ All(I \o J) = All(I) \o All(J)
  <1> DEFINE V == ItemSet(T)
             n == Complete(I)
             m == Complete(J)
  <1>1. /\ n \in Nat /\ m \in Nat /\ Len(I) % 2 = 0 /\ Len(J) % 2 = 0
        /\ Len(I) = 2 * n /\ Len(J) = 2 * m /\ I \in Seq(V) /\ J \in Seq(V)
    BY CompleteHalf DEF Framed
  <1>a. n \in Nat /\ m \in Nat
    BY <1>1
  <1> HIDE DEF V
  <1>2. /\ I \o J \in Seq(V) /\ Len(I \o J) = 2 * (n + m)
        /\ \A i \in 1 .. 2 * n : (I \o J)[i] = I[i]
        /\ \A i \in 2 * n + 1 .. 2 * (n + m) : (I \o J)[i] = J[i - 2 * n]
    <2>1. /\ I \o J \in Seq(V) /\ Len(I \o J) = Len(I) + Len(J)
          /\ \A i \in 1 .. Len(I) : (I \o J)[i] = I[i]
          /\ \A i \in Len(I) + 1 .. Len(I) + Len(J) : (I \o J)[i] = J[i - Len(I)]
      BY <1>1, Concatenation
    <2>2. Len(I) + Len(J) = 2 * (n + m)
      BY <1>1
    <2> QED
      BY <1>1, <2>1, <2>2
  <1>3. Complete(I \o J) = n + m
    <2>1. (2 * (n + m)) \div 2 = n + m
      <3>1. PICK k \in Nat : k = n + m
        BY <1>a
      <3>2. (2 * k) \div 2 = k
        OBVIOUS
      <3> QED
        BY <3>1, <3>2
    <2> QED
      BY <1>2, <2>1 DEF Complete
  <1>4. /\ \A j \in 1 .. n : FrameAt(I \o J, j) = FrameAt(I, j)
        /\ \A j \in n + 1 .. n + m : FrameAt(I \o J, j) = FrameAt(J, j - n)
    <2>1. ASSUME NEW j \in 1 .. n PROVE FrameAt(I \o J, j) = FrameAt(I, j)
      <3>1. 2 * j - 1 \in 1 .. 2 * n
        BY <1>a
      <3> QED
        BY <1>2, <3>1 DEF FrameAt
    <2>2. ASSUME NEW j \in n + 1 .. n + m PROVE FrameAt(I \o J, j) = FrameAt(J, j - n)
      <3>1. 2 * j - 1 \in 2 * n + 1 .. 2 * (n + m) /\ (2 * j - 1) - 2 * n = 2 * (j - n) - 1
        BY <1>a, SMTT(60)
      <3>2. (I \o J)[2 * j - 1] = J[(2 * j - 1) - 2 * n]
        BY <1>2, <3>1
      <3> QED
        BY <3>1, <3>2 DEF FrameAt
    <2> QED
      BY <2>1, <2>2
  <1>5. Framed(I \o J, key, c)
    <2>1. ASSUME NEW i \in 1 .. 2 * (n + m)
          PROVE  (I \o J)[i].half = IF i % 2 = 1 THEN 1 ELSE 2
      <3>1. CASE i <= 2 * n
        <4>1. i \in 1 .. Len(I) /\ (I \o J)[i] = I[i]
          BY <1>1, <1>2, <3>1
        <4> QED
          BY <4>1 DEF Framed
      <3>2. CASE i > 2 * n
        <4>0. i - 2 * n \in 1 .. 2 * m /\ i \in 2 * n + 1 .. 2 * (n + m)
          BY <1>a, <3>2
        <4>1. i - 2 * n \in 1 .. Len(J) /\ (I \o J)[i] = J[i - 2 * n] /\ (i - 2 * n) % 2 = i % 2
          <5>1. (i - 2 * n) % 2 = i % 2
            BY <1>a
          <5> QED
            BY <1>1, <1>2, <4>0, <5>1
        <4>2. J[i - 2 * n].half = IF (i - 2 * n) % 2 = 1 THEN 1 ELSE 2
          BY <4>1 DEF Framed
        <4> QED
          BY <4>1, <4>2
      <3> QED
        BY <1>1, <3>1, <3>2, SMTT(60)
    <2>2. ASSUME NEW j \in 1 .. n + m
          PROVE  FrameAt(I \o J, j).key = key /\ FrameAt(I \o J, j).ctr = c + j - 1
      <3>1. CASE j <= n
        <4>1. j \in 1 .. n /\ FrameAt(I \o J, j) = FrameAt(I, j)
          BY <1>1, <1>4, <3>1
        <4> QED
          BY <4>1 DEF Framed
      <3>2. CASE j > n
        <4>1. j - n \in 1 .. m /\ FrameAt(I \o J, j) = FrameAt(J, j - n)
          BY <1>1, <1>4, <3>2, SMTT(60)
        <4>2. FrameAt(J, j - n).key = key /\ FrameAt(J, j - n).ctr = (c + n) + (j - n) - 1
          BY <4>1 DEF Framed
        <4>3. (c + n) + (j - n) - 1 = c + j - 1
          BY <1>a
        <4>4. FrameAt(I \o J, j) = FrameAt(J, j - n)
          BY <4>1
        <4> QED
          BY ONLY <4>2, <4>3, <4>4
      <3> QED
        BY <1>1, <3>1, <3>2
    <2>3. Len(I \o J) % 2 = 0
      BY <1>1, <1>2, SMTT(60)
    <2> QED
      BY <1>2, <1>3, <2>1, <2>2, <2>3 DEF Framed
  <1>6. ASSUME Intact(I), Intact(J) PROVE Intact(I \o J)
    <2> SUFFICES ASSUME NEW j \in 1 .. n + m PROVE FrameAt(I \o J, j).intact
      BY <1>3 DEF Intact
    <2>1. CASE j <= n
      <3>1. j \in 1 .. n /\ FrameAt(I \o J, j) = FrameAt(I, j)
        BY <1>1, <1>4, <2>1
      <3> QED
        BY <1>6, <3>1 DEF Intact
    <2>2. CASE j > n
      <3>1. j - n \in 1 .. m /\ FrameAt(I \o J, j) = FrameAt(J, j - n)
        BY <1>1, <1>4, <2>2
      <3> QED
        BY <1>6, <3>1 DEF Intact
    <2> QED
      BY <1>1, <2>1, <2>2
  <1>7. All(I \o J) = All(I) \o All(J)
    <2>1. n \in 0 .. Complete(I \o J) /\ n \in 0 .. Complete(I) /\ (n + m) - n = m /\ n \in 0 .. (n + m)
          /\ n + m \in 0 .. Complete(I \o J)
      BY <1>1, <1>3
    <2>2. I \o J \in Seq(ItemSet(T))
      BY <1>2 DEF V
    <2>3. Plain(I \o J, n + m) = Plain(I \o J, n) \o Plain(Rest(I \o J, n), (n + m) - n)
      BY <2>1, <2>2, PlainSplit
    <2>4. Plain(I \o J, n) = Plain(I, n)
      BY <2>1, PlainPrefix
    <2>5. Rest(I \o J, n) = J
      <3>1. SubSeq(I \o J, Len(I) + 1, Len(I \o J)) = J
        BY <1>1, SecondPart
      <3>2. 2 * n + 1 = Len(I) + 1
        BY <1>1
      <3> QED
        BY <3>1, <3>2 DEF Rest
    <2> QED
      BY <1>3, <2>1, <2>3, <2>4, <2>5 DEF All
  <1> QED
    BY <1>3, <1>5, <1>6, <1>7

\* What is left after n frames is framed from n counters later.
LEMMA FramedRest ==
    ASSUME NEW T, NEW I \in Seq(ItemSet(T)), NEW n \in 0 .. Complete(I), NEW key, NEW c \in Nat,
           Framed(I, key, c)
    PROVE  /\ Framed(Rest(I, n), key, c + n) /\ Complete(Rest(I, n)) = Complete(I) - n
           /\ Intact(I) => Intact(Rest(I, n))
           /\ All(I) = Plain(I, n) \o All(Rest(I, n))
  <1>1. PICK J : J = Rest(I, n)
    OBVIOUS
  <1>2. /\ J \in Seq(ItemSet(T)) /\ Len(J) = Len(I) - 2 * n /\ Complete(J) = Complete(I) - n
        /\ \A i \in 1 .. Len(I) - 2 * n : J[i] = I[i + 2 * n]
        /\ \A j \in 1 .. Complete(I) - n : FrameAt(J, j) = FrameAt(I, j + n)
    BY <1>1, RestShape
  <1>3. Complete(I) \in Nat /\ n \in Nat /\ Len(I) % 2 = 0 /\ Len(I) \in Nat
    BY CompleteHalf DEF Framed
  <1>4. Framed(J, key, c + n)
    <2>1. Len(J) % 2 = 0
      BY <1>2, <1>3
    <2>2. ASSUME NEW i \in 1 .. Len(J) PROVE J[i].half = IF i % 2 = 1 THEN 1 ELSE 2
      <3>1. /\ i + 2 * n \in 1 .. Len(I) /\ i \in 1 .. Len(I) - 2 * n /\ (i + 2 * n) % 2 = i % 2
        BY <1>2, <1>3
      <3>2. I[i + 2 * n].half = IF (i + 2 * n) % 2 = 1 THEN 1 ELSE 2
        BY <3>1 DEF Framed
      <3> QED
        BY <1>2, <3>1, <3>2
    <2>3. ASSUME NEW j \in 1 .. Complete(J)
          PROVE  FrameAt(J, j).key = key /\ FrameAt(J, j).ctr = (c + n) + j - 1
      <3>1. j \in 1 .. Complete(I) - n /\ j + n \in 1 .. Complete(I)
        BY <1>2, <1>3
      <3>2. FrameAt(J, j) = FrameAt(I, j + n)
        BY <1>2, <3>1
      <3>3. FrameAt(I, j + n).key = key /\ FrameAt(I, j + n).ctr = c + (j + n) - 1
        BY <3>1 DEF Framed
      <3> QED
        BY <1>3, <3>1, <3>2, <3>3
    <2> QED
      BY <2>1, <2>2, <2>3 DEF Framed
  <1>5. Intact(I) => Intact(J)
    <2> SUFFICES ASSUME Intact(I), NEW j \in 1 .. Complete(J) PROVE FrameAt(J, j).intact
      BY DEF Intact
    <2>1. j \in 1 .. Complete(I) - n /\ j + n \in 1 .. Complete(I)
      BY <1>2, <1>3
    <2> QED
      BY <1>2, <2>1 DEF Intact
  <1>6. All(I) = Plain(I, n) \o All(J)
    <2>1. Complete(I) \in 0 .. Complete(I)
      BY <1>3
    <2>2. Plain(I, Complete(I)) = Plain(I, n) \o Plain(Rest(I, n), Complete(I) - n)
      BY <2>1, PlainSplit
    <2> QED
      BY <1>1, <1>2, <2>2 DEF All
  <1> QED
    BY <1>1, <1>2, <1>4, <1>5, <1>6

----------------------------------------------------------------------------
(* Sealing. *)

\* The number of pieces is L / size, rounded up.
LEMMA ChunkCount ==
    ASSUME NEW L \in Nat, NEW size \in Nat \ {0}
    PROVE  \E m \in Nat : /\ m = (L + size - 1) \div size /\ L <= size * m
                          /\ L > 0 => m > 0 /\ size * (m - 1) < L
                          /\ L = 0 => m = 0
  <1> DEFINE x == L + size - 1
             m == x \div size
             r == x % size
  <1>1. x \in Nat
    OBVIOUS
  <1> HIDE DEF x
  <1>2. m \in Nat /\ r \in 0 .. (size - 1) /\ x = (size * m) + r
    BY <1>1, Division
  <1> HIDE DEF m, r
  <1>3. PICK y : y = size * m
    OBVIOUS
  <1>4. y \in Nat
    BY <1>2, <1>3
  <1>5. L <= y
    BY <1>2, <1>3, <1>4 DEF x
  <1>6. L = 0 => m = 0
    <2> SUFFICES ASSUME L = 0, m # 0 PROVE FALSE
      OBVIOUS
    <2>1. y < size
      BY <1>2, <1>3, <1>4, <2>1 DEF x
    <2>2. size * m >= size
      BY <1>2
    <2> QED
      BY <1>3, <1>4, <2>1, <2>2
  <1>7. ASSUME L > 0 PROVE m > 0 /\ size * (m - 1) < L
    <2>1. m > 0
      <3> SUFFICES ASSUME m = 0 PROVE FALSE
        BY <1>2
      <3>1. y = 0
        BY <1>3
      <3> QED
        BY <1>2, <1>3, <1>7, <3>1 DEF x
    <2>2. size * (m - 1) = y - size
      BY <1>2, <1>3
    <2> QED
      BY <1>2, <1>3, <1>4, <2>1, <2>2 DEF x
  <1>8. m = (L + size - 1) \div size
    BY DEF m, x
  <1> QED
    BY <1>2, <1>3, <1>5, <1>6, <1>7, <1>8

\* Where piece i of L tokens ends.
PieceEnd(i, size, L) == IF i * size < L THEN i * size ELSE L

\* The pieces join to the data again: none is lost at a boundary.
LEMMA ChunksJoin ==
    ASSUME NEW T, NEW data \in Seq(T), NEW size \in Nat \ {0}
    PROVE  /\ Chunks(data, size) \in Seq(Seq(T)) /\ FlattenSeq(Chunks(data, size)) = data
           /\ data # <<>> => Len(Chunks(data, size)) > 0
  <1> DEFINE L == Len(data)
             W == Seq(T)
             Piece(i) == SubSeq(data, (i - 1) * size + 1, PieceEnd(i, size, L))
             First(m) == [i \in 1 .. m |-> Piece(i)]
  <1>1. L \in Nat
    BY LenProperties
  <1>2. PICK m \in Nat : /\ m = (L + size - 1) \div size /\ L <= size * m
                         /\ L > 0 => m > 0 /\ size * (m - 1) < L
                         /\ L = 0 => m = 0
    BY <1>1, ChunkCount
  <1>3. Chunks(data, size) = First(m)
    BY <1>2 DEF Chunks, PieceEnd
  <1>4. ASSUME NEW i \in Nat \ {0}, i <= m
        PROVE  \E k \in 0 .. L : /\ k = (i - 1) * size /\ PieceEnd(i, size, L) \in k .. L
                                 /\ i < m => PieceEnd(i, size, L) = i * size
    <2>1. L > 0
      BY <1>1, <1>2, <1>4
    <2>2. PICK k, y : k = (i - 1) * size /\ y = size * (m - 1)
      OBVIOUS
    <2>3. k \in Nat /\ y \in Nat /\ y < L /\ y = (m - 1) * size
      BY <1>2, <1>4, <2>1, <2>2
    <2>4. \E u \in Nat : i + u = m
      BY <1>4
    <2>5. PICK u \in Nat : i + u = m
      BY <2>4
    <2>6. y = k + u * size
      <3>1. (i - 1) + u = m - 1
        BY <2>5
      <3>2. ((i - 1) + u) * size = (i - 1) * size + u * size
        OBVIOUS
      <3> QED
        BY <2>2, <2>3, <3>1, <3>2
    <2>7. u * size \in Nat
      OBVIOUS
    <2>8. k < L
      BY <1>1, <2>3, <2>6, <2>7
    <2>9. i * size = k + size
      BY <2>2
    <2>10. PieceEnd(i, size, L) \in k .. L
      BY <1>1, <2>3, <2>8, <2>9 DEF PieceEnd
    <2>11. i < m => PieceEnd(i, size, L) = i * size
      <3> SUFFICES ASSUME i < m PROVE i * size < L
        BY DEF PieceEnd
      <3>1. u >= 1
        BY <2>5
      <3>2. u * size >= size
        BY <3>1
      <3> QED
        BY <1>1, <2>3, <2>6, <2>7, <2>9, <3>2
    <2> QED
      BY <2>2, <2>3, <2>8, <2>10, <2>11
  <1>5. ASSUME NEW i \in Nat \ {0}, i <= m PROVE Piece(i) \in W
    <2>1. PICK k \in 0 .. L : k = (i - 1) * size /\ PieceEnd(i, size, L) \in k .. L
      BY <1>4, <1>5
    <2>2. PICK e : e = PieceEnd(i, size, L)
      OBVIOUS
    <2>3. k + 1 \in Int /\ e \in Int /\ \A j \in k + 1 .. e : data[j] \in T
      BY <1>1, <2>1, <2>2
    <2>4. SubSeq(data, k + 1, e) \in Seq(T)
      BY <2>3, SubSeqProperties
    <2> QED
      BY <2>1, <2>2, <2>4
  <1> HIDE DEF W, Piece
  <1>6. ASSUME NEW n \in Nat, n <= m PROVE First(n) \in Seq(W) /\ Len(First(n)) = n
    BY <1>5, <1>6
  <1> DEFINE G == {n \in Nat : n <= m =>
                     FlattenSeq(First(n)) = SubSeq(data, 1, IF n = 0 THEN 0 ELSE PieceEnd(n, size, L))}
  <1>7. 0 \in G
    <2>1. First(0) = <<>>
      OBVIOUS
    <2>2. SubSeq(data, 1, 0) = <<>>
      BY SubSeqEmpty
    <2> QED
      BY <2>1, <2>2, FlattenEmpty
  <1>8. ASSUME NEW n \in Nat, n \in G PROVE n + 1 \in G
    <2> SUFFICES ASSUME n + 1 <= m
                 PROVE  FlattenSeq(First(n + 1)) = SubSeq(data, 1, PieceEnd(n + 1, size, L))
      OBVIOUS
    <2>1. First(n + 1) = Append(First(n), Piece(n + 1))
      <3>1. First(n) \in Seq(W) /\ Len(First(n)) = n /\ Piece(n + 1) \in W
        BY <1>5, <1>6
      <3>2. \A i \in 1 .. n : First(n)[i] = Piece(i)
        OBVIOUS
      <3> HIDE DEF First
      <3>3. /\ Append(First(n), Piece(n + 1)) \in Seq(W) /\ Len(Append(First(n), Piece(n + 1))) = n + 1
            /\ \A i \in 1 .. n : Append(First(n), Piece(n + 1))[i] = First(n)[i]
            /\ Append(First(n), Piece(n + 1))[n + 1] = Piece(n + 1)
        BY <3>1, AppendProperties
      <3>4. \A i \in 1 .. n + 1 : Append(First(n), Piece(n + 1))[i] = Piece(i)
        BY <3>2, <3>3
      <3>5. First(n + 1) \in Seq(W) /\ Len(First(n + 1)) = n + 1
        BY <1>6
      <3>6. \A i \in 1 .. n + 1 : First(n + 1)[i] = Piece(i)
        BY DEF First
      <3>7. PICK a, b : a = First(n + 1) /\ b = Append(First(n), Piece(n + 1))
        OBVIOUS
      <3>8. a = b
        <4>1. a \in Seq(W) /\ b \in Seq(W) /\ Len(a) = Len(b) /\ \A i \in 1 .. Len(a) : a[i] = b[i]
          BY <3>3, <3>4, <3>5, <3>6, <3>7
        <4> QED
          BY <4>1, SeqEqual
      <3> QED
        BY <3>7, <3>8
    <2>2. FlattenSeq(First(n + 1)) = FlattenSeq(First(n)) \o Piece(n + 1)
      <3>1. First(n) \in Seq(Seq(T)) /\ Piece(n + 1) \in Seq(T)
        BY <1>5, <1>6 DEF W
      <3> HIDE DEF First
      <3> QED
        BY <2>1, <3>1, FlattenAppend
    <2>3. PICK k \in 0 .. L : k = ((n + 1) - 1) * size /\ PieceEnd(n + 1, size, L) \in k .. L
      <3>1. n + 1 \in Nat \ {0}
        OBVIOUS
      <3> QED
        BY <1>4, <3>1
    <2>4. (IF n = 0 THEN 0 ELSE PieceEnd(n, size, L)) = k
      <3>1. CASE n = 0
        BY <2>3, <3>1
      <3>2. CASE n # 0
        <4>1. n \in Nat \ {0} /\ n <= m /\ n < m /\ (n + 1) - 1 = n
          BY <3>2
        <4>2. PieceEnd(n, size, L) = n * size
          BY <1>4, <4>1
        <4> QED
          BY <2>3, <3>2, <4>1, <4>2
      <3> QED
        BY <3>1, <3>2
    <2>5. FlattenSeq(First(n)) = SubSeq(data, 1, k)
      <3>1. n <= m
        OBVIOUS
      <3> QED
        BY <1>8, <2>4, <3>1
    <2>6. PICK e : e = PieceEnd(n + 1, size, L)
      OBVIOUS
    <2>7. SubSeq(data, 1, k) \o SubSeq(data, k + 1, e) = SubSeq(data, 1, e)
      <3>1. 1 \in 1 .. Len(data) + 1 /\ k \in 1 - 1 .. Len(data) /\ e \in k .. Len(data)
        BY <1>1, <2>3, <2>6
      <3> QED
        BY <3>1, ConcatAdjacentSubSeq
    <2>8. Piece(n + 1) = SubSeq(data, k + 1, e)
      BY <2>3, <2>6 DEF Piece
    <2> QED
      BY <2>2, <2>5, <2>6, <2>7, <2>8
  <1>9. m \in G
    <2> HIDE DEF G
    <2> QED
      BY <1>7, <1>8, NatSetInduction
  <1>10. (IF m = 0 THEN 0 ELSE PieceEnd(m, size, L)) = L
    <2>1. m * size = size * m
      BY <1>2
    <2> QED
      BY <1>1, <1>2, <2>1 DEF PieceEnd
  <1>11. FlattenSeq(First(m)) = SubSeq(data, 1, L)
    BY <1>9, <1>10
  <1>12. SubSeq(data, 1, L) = data
    BY SubSeqFull
  <1>13. data # <<>> => m > 0
    BY <1>1, <1>2
  <1> QED
    BY <1>3, <1>6, <1>11, <1>12, <1>13 DEF W

\* Each piece is sealed under the counter after that of the piece before.
LEMMA SealShape ==
    ASSUME NEW T, NEW data \in Seq(T), NEW size \in Nat \ {0}, NEW key \in Nat, NEW ctr \in Nat
    PROVE  /\ Seal(data, size, key, ctr) \in Seq(FrameSet(T))
           /\ Len(Seal(data, size, key, ctr)) = Len(Chunks(data, size))
           /\ \A i \in 1 .. Len(Seal(data, size, key, ctr)) :
                 Seal(data, size, key, ctr)[i] = Frame(key, ctr + i - 1, Chunks(data, size)[i])
  <1>1. PICK c : c = Chunks(data, size)
    OBVIOUS
  <1>2. c \in Seq(Seq(T))
    BY <1>1, ChunksJoin
  <1>3. Len(c) \in Nat /\ DOMAIN c = 1 .. Len(c) /\ \A i \in 1 .. Len(c) : c[i] \in Seq(T)
    BY <1>2
  <1>4. \A i \in 1 .. Len(c) : Frame(key, ctr + i - 1, c[i]) \in FrameSet(T)
    BY <1>3 DEF Frame, FrameSet
  <1>5. Seal(data, size, key, ctr) = [i \in 1 .. Len(c) |-> Frame(key, ctr + i - 1, c[i])]
    BY <1>1, <1>3 DEF Seal
  <1>6. PICK s : s = [i \in 1 .. Len(c) |-> Frame(key, ctr + i - 1, c[i])]
    OBVIOUS
  <1>7. /\ s \in Seq(FrameSet(T)) /\ Len(s) = Len(c)
        /\ \A i \in 1 .. Len(c) : s[i] = Frame(key, ctr + i - 1, c[i])
    BY <1>3, <1>4, <1>6
  <1> QED
    BY <1>1, <1>5, <1>6, <1>7

\* The frames f, the first intact or not.
Touched(f, ok) == [f EXCEPT ![1].intact = ok]

\* Frames of data on the wire, the first of them intact or not.
LEMMA SealedWire ==
    ASSUME NEW T, NEW data \in Seq(T), data # <<>>, NEW size \in Nat \ {0}, NEW key \in Nat,
           NEW ctr \in Nat, NEW ok \in BOOLEAN, NEW F,
           F = Touched(Seal(data, size, key, ctr), ok)
    PROVE  /\ Wire(F) \in Seq(ItemSet(T)) /\ Framed(Wire(F), key, ctr)
           /\ Complete(Wire(F)) = Len(Seal(data, size, key, ctr)) /\ Complete(Wire(F)) > 0
           /\ ok => Intact(Wire(F)) /\ F = Seal(data, size, key, ctr)
           /\ All(Wire(F)) = data
  <1>1. PICK s, c : s = Seal(data, size, key, ctr) /\ c = Chunks(data, size)
    OBVIOUS
  <1>2. c \in Seq(Seq(T)) /\ FlattenSeq(c) = data /\ Len(c) > 0 /\ Len(c) \in Nat
    BY <1>1, ChunksJoin
  <1>3. /\ s \in Seq(FrameSet(T)) /\ Len(s) = Len(c)
        /\ \A i \in 1 .. Len(c) : s[i] = Frame(key, ctr + i - 1, c[i])
    <2>1. /\ s \in Seq(FrameSet(T)) /\ Len(s) = Len(c)
          /\ \A i \in 1 .. Len(s) : s[i] = Frame(key, ctr + i - 1, c[i])
      <3>1. /\ Seal(data, size, key, ctr) \in Seq(FrameSet(T))
            /\ Len(Seal(data, size, key, ctr)) = Len(Chunks(data, size))
            /\ \A i \in 1 .. Len(Seal(data, size, key, ctr)) :
                  Seal(data, size, key, ctr)[i] = Frame(key, ctr + i - 1, Chunks(data, size)[i])
        BY ONLY SealShape, data \in Seq(T), size \in Nat \ {0}, key \in Nat, ctr \in Nat
      <3> QED
        BY <1>1, <3>1
    <2> QED
      BY <2>1
  <1>4. 1 \in 1 .. Len(s) /\ s[1] \in FrameSet(T)
    BY <1>2, <1>3
  <1>5. PICK g : g = [s[1] EXCEPT !.intact = ok]
    OBVIOUS
  <1>6. g \in FrameSet(T) /\ g.key = s[1].key /\ g.ctr = s[1].ctr /\ g.plain = s[1].plain /\ g.intact = ok
    BY <1>4, <1>5 DEF FrameSet
  <1>7. F = [s EXCEPT ![1] = g]
    BY <1>1, <1>5 DEF Touched
  <1>8. /\ F \in Seq(FrameSet(T)) /\ Len(F) = Len(c)
        /\ \A i \in 1 .. Len(c) : F[i] = IF i = 1 THEN g ELSE s[i]
    <2>1. PICK U : U = FrameSet(T)
      OBVIOUS
    <2>2. s \in Seq(U) /\ g \in U /\ 1 \in 1 .. Len(s)
      BY <1>3, <1>4, <1>6, <2>1
    <2>3. /\ [s EXCEPT ![1] = g] \in Seq(U) /\ Len([s EXCEPT ![1] = g]) = Len(s)
          /\ \A j \in 1 .. Len(s) : [s EXCEPT ![1] = g][j] = IF j = 1 THEN g ELSE s[j]
      BY <2>2, ExceptSeq
    <2>4. /\ F \in Seq(U) /\ Len(F) = Len(s) /\ \A j \in 1 .. Len(s) : F[j] = IF j = 1 THEN g ELSE s[j]
      BY <1>7, <2>3
    <2> QED
      BY <1>3, <2>1, <2>4
  <1>9. \A i \in 1 .. Len(c) : /\ F[i].key = key /\ F[i].ctr = ctr + i - 1 /\ F[i].plain = c[i]
                               /\ F[i].intact = IF i = 1 THEN ok ELSE TRUE
    <2> SUFFICES ASSUME NEW i \in 1 .. Len(c)
                 PROVE  /\ F[i].key = key /\ F[i].ctr = ctr + i - 1 /\ F[i].plain = c[i]
                        /\ F[i].intact = IF i = 1 THEN ok ELSE TRUE
      OBVIOUS
    <2>1. /\ s[i].key = key /\ s[i].ctr = ctr + i - 1 /\ s[i].plain = c[i] /\ s[i].intact = TRUE
      <3>1. s[i] = Frame(key, ctr + i - 1, c[i])
        BY <1>3
      <3> QED
        BY <3>1 DEF Frame
    <2>2. F[i] = IF i = 1 THEN g ELSE s[i]
      BY <1>8
    <2>3. CASE i = 1
      BY <1>6, <2>1, <2>2, <2>3
    <2>4. CASE i # 1
      BY <2>1, <2>2, <2>4
    <2> QED
      BY <2>3, <2>4
  <1>10. PICK w : w = Wire(F)
    OBVIOUS
  <1>11. /\ w \in Seq(ItemSet(T)) /\ Len(w) = 2 * Len(c)
         /\ \A j \in 1 .. Len(c) : /\ w[2 * j - 1] = [frame |-> F[j], half |-> 1]
                                   /\ w[2 * j] = [frame |-> F[j], half |-> 2]
    BY <1>8, <1>10, WireShape, SMTT(60)
  <1>12. Complete(w) = Len(c) /\ \A j \in 1 .. Len(c) : FrameAt(w, j) = F[j]
    <2>1. (2 * Len(c)) \div 2 = Len(c)
      BY <1>2
    <2>2. Complete(w) = Len(c)
      BY <1>11, <2>1 DEF Complete
    <2>3. ASSUME NEW j \in 1 .. Len(c) PROVE FrameAt(w, j) = F[j]
      <3>1. w[2 * j - 1] = [frame |-> F[j], half |-> 1]
        BY <1>11
      <3> QED
        BY <3>1 DEF FrameAt
    <2> QED
      BY <2>2, <2>3
  <1>13. Framed(w, key, ctr)
    <2>1. Len(w) % 2 = 0
      BY <1>2, <1>11
    <2>2. ASSUME NEW i \in 1 .. Len(w) PROVE w[i].half = IF i % 2 = 1 THEN 1 ELSE 2
      <3>0. PICK l : l = Len(c)
        OBVIOUS
      <3>1. i \in Nat /\ i >= 1 /\ i <= 2 * l /\ l \in Nat
        BY <1>2, <1>11, <3>0
      <3>2. CASE i % 2 = 1
        <4>1. \E j \in 1 .. l : i = 2 * j - 1
          <5>1. PICK j : j = (i + 1) \div 2
            OBVIOUS
          <5>2. j \in Nat /\ i = 2 * j - 1
            <6>1. (i + 1) % 2 = 0
              BY <3>1, <3>2
            <6> QED
              BY <3>1, <5>1, <6>1
          <5>3. j \in 1 .. l
            BY <3>1, <5>2
          <5> QED
            BY <5>2, <5>3
        <4>2. PICK j \in 1 .. l : i = 2 * j - 1
          BY <4>1
        <4>3. w[i] = [frame |-> F[j], half |-> 1]
          BY <1>11, <3>0, <4>2
        <4> QED
          BY <3>2, <4>3
      <3>3. CASE i % 2 # 1
        <4>1. \E j \in 1 .. l : i = 2 * j
          <5>1. PICK j : j = i \div 2
            OBVIOUS
          <5>2. j \in Nat /\ i = 2 * j
            BY <3>1, <3>3, <5>1
          <5>3. j \in 1 .. l
            BY <3>1, <5>2
          <5> QED
            BY <5>2, <5>3
        <4>2. PICK j \in 1 .. l : i = 2 * j
          BY <4>1
        <4>3. w[i] = [frame |-> F[j], half |-> 2]
          BY <1>11, <3>0, <4>2
        <4> QED
          BY <3>3, <4>3
      <3> QED
        BY <3>2, <3>3
    <2>3. ASSUME NEW j \in 1 .. Complete(w)
          PROVE  FrameAt(w, j).key = key /\ FrameAt(w, j).ctr = ctr + j - 1
      <3>1. j \in 1 .. Len(c)
        BY <1>12
      <3>2. FrameAt(w, j) = F[j]
        BY <1>12, <3>1
      <3>3. F[j].key = key /\ F[j].ctr = ctr + j - 1
        BY <1>9, <3>1
      <3> QED
        BY ONLY <3>2, <3>3
    <2> QED
      BY <2>1, <2>2, <2>3 DEF Framed
  <1>14. ok => Intact(w)
    <2> SUFFICES ASSUME ok, NEW j \in 1 .. Complete(w) PROVE FrameAt(w, j).intact
      BY DEF Intact
    <2>1. j \in 1 .. Len(c)
      BY <1>12
    <2>2. FrameAt(w, j) = F[j] /\ F[j].intact = IF j = 1 THEN ok ELSE TRUE
      BY <1>9, <1>12, <2>1
    <2> QED
      BY <2>2
  <1>15. ok => F = s
    <2> SUFFICES ASSUME ok PROVE F = s
      OBVIOUS
    <2>1. g = s[1]
      <3>1. s[1] = Frame(key, ctr + 1 - 1, c[1])
        <4>1. 1 \in 1 .. Len(c)
          BY <1>2
        <4> QED
          BY <1>3, <4>1
      <3>2. s[1].intact = TRUE
        BY <3>1 DEF Frame
      <3> QED
        BY <1>4, <1>5, <3>2 DEF FrameSet
    <2>2. \A i \in 1 .. Len(c) : F[i] = s[i]
      BY <1>8, <2>1
    <2> QED
      BY <1>3, <1>8, <2>2, SeqEqual, ZenonT(60)
  <1>16. All(w) = data
    <2>1. DOMAIN c = 1 .. Len(c)
      BY <1>2
    <2>2. c = [j \in 1 .. Len(c) |-> c[j]]
      BY <1>2
    <2>3. \A j \in 1 .. Len(c) : FrameAt(w, j).plain = c[j]
      BY <1>9, <1>12
    <2>4. [j \in 1 .. Len(c) |-> FrameAt(w, j).plain] = [j \in 1 .. Len(c) |-> c[j]]
      BY <2>3
    <2>5. All(w) = FlattenSeq(c)
      BY <1>12, <2>2, <2>4 DEF All, Plain
    <2> QED
      BY <1>2, <2>5
  <1> QED
    BY <1>1, <1>2, <1>3, <1>10, <1>11, <1>12, <1>13, <1>14, <1>15, <1>16

----------------------------------------------------------------------------
(* Messages and the numbers of their replies. *)

\* Tokens, and the heads of messages to the sender.
Kinds == {"request", "reply", "push", "body", "junk"}
Toks == [kind : Kinds, n : Nat, len : Nat]
HeadSet == {t \in Toks : t.kind \in {"reply", "push"}}

\* The text of a sequence of whole messages, given by their heads.
Texts(M) == [i \in DOMAIN M |-> Message(M[i].kind, M[i].n, M[i].len)]
Whole(M) == FlattenSeq(Texts(M))

\* A message is its head and as many body tokens as the head says.
LEMMA MessageShape ==
    ASSUME NEW t \in Toks
    PROVE  /\ Message(t.kind, t.n, t.len) \in Seq(Toks)
           /\ Len(Message(t.kind, t.n, t.len)) = t.len + 1
           /\ Message(t.kind, t.n, t.len)[1] = t
           /\ \A i \in 2 .. t.len + 1 : Message(t.kind, t.n, t.len)[i].kind = "body"
  <1>1. t.kind \in Kinds /\ t.n \in Nat /\ t.len \in Nat /\ t = [kind |-> t.kind, n |-> t.n, len |-> t.len]
    BY DEF Toks
  <1>2. PICK a, b : a = <<Token(t.kind, t.n, t.len)>> /\ b = [i \in 1 .. t.len |-> Token("body", t.n, 0)]
    OBVIOUS
  <1>3. Token(t.kind, t.n, t.len) = t /\ Token("body", t.n, 0) \in Toks /\ Token("body", t.n, 0).kind = "body"
    BY <1>1 DEF Token, Toks, Kinds
  <1>4. /\ a \in Seq(Toks) /\ Len(a) = 1 /\ a[1] = t
    BY <1>2, <1>3
  <1>5. b \in Seq(Toks) /\ Len(b) = t.len /\ \A i \in 1 .. t.len : b[i].kind = "body"
    BY <1>1, <1>2, <1>3
  <1>6. /\ a \o b \in Seq(Toks) /\ Len(a \o b) = Len(a) + Len(b)
        /\ \A i \in 1 .. Len(a) : (a \o b)[i] = a[i]
        /\ \A i \in Len(a) + 1 .. Len(a) + Len(b) : (a \o b)[i] = b[i - Len(a)]
    BY <1>4, <1>5, Concatenation
  <1>7. PICK m : m = a \o b
    OBVIOUS
  <1>8. m \in Seq(Toks) /\ Len(m) = t.len + 1 /\ m[1] = t
    BY <1>1, <1>4, <1>5, <1>6, <1>7
  <1>9. ASSUME NEW i \in 2 .. t.len + 1 PROVE m[i].kind = "body"
    <2>1. i \in Len(a) + 1 .. Len(a) + Len(b) /\ i - Len(a) \in 1 .. t.len
      BY <1>1, <1>4, <1>5
    <2>2. m[i] = b[i - Len(a)]
      BY <1>6, <1>7, <2>1
    <2> QED
      BY <1>5, <2>1, <2>2
  <1>10. Message(t.kind, t.n, t.len) = m
    BY <1>2, <1>7 DEF Message
  <1> QED
    BY <1>8, <1>9, <1>10

\* The text of whole messages is a sequence of tokens.
LEMMA TextsType ==
    ASSUME NEW M \in Seq(HeadSet)
    PROVE  Texts(M) \in Seq(Seq(Toks)) /\ Len(Texts(M)) = Len(M) /\ Whole(M) \in Seq(Toks)
  <1>1. DOMAIN M = 1 .. Len(M) /\ Len(M) \in Nat /\ \A i \in 1 .. Len(M) : M[i] \in Toks
    BY DEF HeadSet
  <1>2. \A i \in 1 .. Len(M) : Message(M[i].kind, M[i].n, M[i].len) \in Seq(Toks)
    BY <1>1, MessageShape
  <1>3. Texts(M) \in Seq(Seq(Toks)) /\ Len(Texts(M)) = Len(M)
    BY <1>1, <1>2 DEF Texts
  <1> QED
    BY <1>3, FlattenType DEF Whole

\* No messages are no text.
LEMMA WholeEmpty == Whole(<<>>) = <<>>
  <1>1. Texts(<<>>) = <<>>
    BY DEF Texts
  <1> QED
    BY <1>1, FlattenEmpty DEF Whole

\* One message.
LEMMA WholeOne ==
    ASSUME NEW t \in HeadSet
    PROVE  Whole(<<t>>) = Message(t.kind, t.n, t.len)
  <1>1. PICK m : m = Message(t.kind, t.n, t.len)
    OBVIOUS
  <1>2. m \in Seq(Toks)
    BY <1>1, MessageShape DEF HeadSet
  <1>3. Texts(<<t>>) = Append(<<>>, m)
    BY <1>1 DEF Texts
  <1>4. FlattenSeq(Append(<<>>, m)) = FlattenSeq(<<>>) \o m
    <2>1. <<>> \in Seq(Seq(Toks))
      OBVIOUS
    <2> QED
      BY <1>2, <2>1, FlattenAppend
  <1>5. <<>> \o m = m
    BY <1>2, ConcatEmptySeq
  <1> QED
    BY <1>1, <1>3, <1>4, <1>5, FlattenEmpty DEF Whole

\* Messages behind messages.
LEMMA WholeConcat ==
    ASSUME NEW M \in Seq(HeadSet), NEW N \in Seq(HeadSet)
    PROVE  Whole(M \o N) = Whole(M) \o Whole(N)
  <1>1. /\ M \o N \in Seq(HeadSet) /\ Len(M \o N) = Len(M) + Len(N)
        /\ Len(M) \in Nat /\ Len(N) \in Nat
        /\ \A i \in 1 .. Len(M) : (M \o N)[i] = M[i]
        /\ \A i \in Len(M) + 1 .. Len(M) + Len(N) : (M \o N)[i] = N[i - Len(M)]
    BY Concatenation
  <1>2. PICK a, b, c : a = Texts(M) /\ b = Texts(N) /\ c = Texts(M \o N)
    OBVIOUS
  <1>3. /\ a \in Seq(Seq(Toks)) /\ b \in Seq(Seq(Toks)) /\ c \in Seq(Seq(Toks))
        /\ Len(a) = Len(M) /\ Len(b) = Len(N) /\ Len(c) = Len(M) + Len(N)
    BY <1>1, <1>2, TextsType
  <1>4. /\ \A i \in 1 .. Len(M) : a[i] = Message(M[i].kind, M[i].n, M[i].len)
        /\ \A i \in 1 .. Len(N) : b[i] = Message(N[i].kind, N[i].n, N[i].len)
        /\ \A i \in 1 .. Len(M) + Len(N) :
              c[i] = Message((M \o N)[i].kind, (M \o N)[i].n, (M \o N)[i].len)
    <2>1. DOMAIN M = 1 .. Len(M) /\ DOMAIN N = 1 .. Len(N) /\ DOMAIN (M \o N) = 1 .. Len(M) + Len(N)
      BY <1>1, LenProperties
    <2> QED
      BY <1>2, <2>1 DEF Texts
  <1>5. c = a \o b
    <2> DEFINE W == Seq(Toks)
    <2>1. a \in Seq(W) /\ b \in Seq(W) /\ c \in Seq(W)
      BY <1>3
    <2> HIDE DEF W
    <2>2. /\ a \o b \in Seq(W) /\ Len(a \o b) = Len(a) + Len(b)
          /\ \A i \in 1 .. Len(a) : (a \o b)[i] = a[i]
          /\ \A i \in Len(a) + 1 .. Len(a) + Len(b) : (a \o b)[i] = b[i - Len(a)]
      BY <2>1, Concatenation
    <2>3. ASSUME NEW i \in 1 .. Len(c) PROVE c[i] = (a \o b)[i]
      <3>1. CASE i <= Len(M)
        <4>1. i \in 1 .. Len(M) /\ i \in 1 .. Len(a) /\ i \in 1 .. Len(M) + Len(N)
          BY <1>1, <1>3, <3>1
        <4>2. (M \o N)[i] = M[i] /\ (a \o b)[i] = a[i]
          BY <1>1, <2>2, <4>1
        <4>3. c[i] = Message((M \o N)[i].kind, (M \o N)[i].n, (M \o N)[i].len)
          BY <1>4, <4>1
        <4>4. a[i] = Message(M[i].kind, M[i].n, M[i].len)
          BY <1>4, <4>1
        <4> QED
          BY <4>2, <4>3, <4>4
      <3>2. CASE i > Len(M)
        <4>1. /\ i \in Len(M) + 1 .. Len(M) + Len(N) /\ i \in Len(a) + 1 .. Len(a) + Len(b)
              /\ i \in 1 .. Len(M) + Len(N) /\ i - Len(M) \in 1 .. Len(N)
          BY <1>1, <1>3, <3>2
        <4>2. (M \o N)[i] = N[i - Len(M)] /\ (a \o b)[i] = b[i - Len(M)]
          BY <1>1, <1>3, <2>2, <4>1
        <4>3. c[i] = Message((M \o N)[i].kind, (M \o N)[i].n, (M \o N)[i].len)
          BY <1>4, <4>1
        <4>4. b[i - Len(M)] = Message(N[i - Len(M)].kind, N[i - Len(M)].n, N[i - Len(M)].len)
          BY <1>4, <4>1
        <4> QED
          BY <4>2, <4>3, <4>4
      <3>3. i <= Len(M) \/ i > Len(M)
        BY <1>1, <1>3
      <3> QED
        BY <3>1, <3>2, <3>3
    <2>4. Len(c) = Len(a \o b)
      BY <1>3, <2>2
    <2> QED
      BY <2>1, <2>2, <2>3, <2>4, SeqEqual
  <1>6. FlattenSeq(a \o b) = FlattenSeq(a) \o FlattenSeq(b)
    BY <1>3, FlattenConcat
  <1> QED
    BY <1>2, <1>5, <1>6 DEF Whole

\* The replies among heads M are those after a up to b, in order.
Step(t) == IF t.kind = "reply" THEN 1 ELSE 0
Count(c, M, a, b) ==
    /\ c \in [0 .. Len(M) -> Nat] /\ c[0] = a /\ c[Len(M)] = b
    /\ \A i \in 1 .. Len(M) : /\ c[i] = c[i - 1] + Step(M[i])
                              /\ M[i].kind = "reply" => M[i].n = c[i]
                              /\ c[i] <= b
Numbers(M, a, b) == \E c : Count(c, M, a, b)

\* Without messages the number stays.
LEMMA NumbersEmpty ==
    ASSUME NEW a \in Nat
    PROVE  Numbers(<<>>, a, a)
  <1>1. Len(<<>>) = 0 /\ 1 .. 0 = {} /\ 0 .. 0 = {0}
    OBVIOUS
  <1>2. Count([i \in 0 .. 0 |-> a], <<>>, a, a)
    BY <1>1 DEF Count
  <1> QED
    BY <1>2 DEF Numbers

\* And then the two numbers are one.
LEMMA NumbersNone ==
    ASSUME NEW a, NEW b, Numbers(<<>>, a, b)
    PROVE  a = b
  BY DEF Numbers, Count

\* The next message, a reply with the next number or a pushed request.
LEMMA NumbersAppend ==
    ASSUME NEW M \in Seq(HeadSet), NEW a \in Nat, NEW b \in Nat, Numbers(M, a, b),
           NEW t \in HeadSet, t.kind = "reply" => t.n = b + 1
    PROVE  Numbers(Append(M, t), a, b + Step(t))
  <1>1. PICK c : Count(c, M, a, b)
    BY DEF Numbers
  <1>2. PICK n, s, N : n = Len(M) /\ s = Step(t) /\ N = Append(M, t)
    OBVIOUS
  <1>3. n \in Nat /\ s \in 0 .. 1 /\ (t.kind = "reply" => s = 1)
    BY <1>2 DEF Step
  <1>4. /\ Len(N) = n + 1 /\ N[n + 1] = t /\ \A i \in 1 .. n : N[i] = M[i]
    BY <1>2
  <1>5. /\ c \in [0 .. n -> Nat] /\ c[0] = a /\ c[n] = b
        /\ \A i \in 1 .. n : /\ c[i] = c[i - 1] + Step(M[i])
                             /\ M[i].kind = "reply" => M[i].n = c[i]
                             /\ c[i] <= b
    BY <1>1, <1>2 DEF Count
  <1> DEFINE d == [i \in 0 .. n + 1 |-> IF i = n + 1 THEN b + s ELSE c[i]]
  <1>6. /\ d \in [0 .. n + 1 -> Nat] /\ d[n + 1] = b + s /\ \A i \in 0 .. n : d[i] = c[i]
    BY <1>3, <1>5
  <1> HIDE DEF d
  <1>7. ASSUME NEW i \in 1 .. n + 1
        PROVE  /\ d[i] = d[i - 1] + Step(N[i])
               /\ N[i].kind = "reply" => N[i].n = d[i]
               /\ d[i] <= b + s
    <2>1. CASE i = n + 1
      <3>1. i - 1 = n /\ n \in 0 .. n
        BY <1>3, <2>1
      <3>2. d[i] = b + s /\ d[i - 1] = b /\ N[i] = t
        BY <1>4, <1>5, <1>6, <2>1, <3>1
      <3> QED
        BY <1>2, <1>3, <3>2
    <2>2. CASE i # n + 1
      <3>1. i \in 1 .. n /\ i \in 0 .. n /\ i - 1 \in 0 .. n
        BY <1>3, <2>2
      <3>2. d[i] = c[i] /\ d[i - 1] = c[i - 1] /\ N[i] = M[i] /\ c[i] \in Nat
        BY <1>4, <1>5, <1>6, <3>1
      <3> QED
        BY <1>3, <1>5, <3>1, <3>2, SMTT(60)
    <2> QED
      BY <2>1, <2>2
  <1>8. d[0] = a
    <2>1. 0 \in 0 .. n
      BY <1>3
    <2> QED
      BY <1>5, <1>6, <2>1
  <1>9. Count(d, N, a, b + s)
    BY <1>4, <1>6, <1>7, <1>8 DEF Count
  <1> QED
    BY <1>2, <1>9 DEF Numbers

\* The first reply bears the first number; the rest is numbered after it.
LEMMA NumbersTail ==
    ASSUME NEW M \in Seq(HeadSet), M # <<>>, NEW a \in Nat, NEW b \in Nat, Numbers(M, a, b)
    PROVE  /\ Numbers(Tail(M), a + Step(M[1]), b) /\ a + Step(M[1]) <= b
           /\ M[1].kind = "reply" => M[1].n = a + 1
  <1>1. PICK c : Count(c, M, a, b)
    BY DEF Numbers
  <1>2. PICK n, s, N : n = Len(M) /\ s = Step(M[1]) /\ N = Tail(M)
    OBVIOUS
  <1>3. n \in Nat \ {0} /\ s \in 0 .. 1 /\ (M[1].kind = "reply" => s = 1)
    BY <1>2 DEF Step
  <1>4. Len(N) = n - 1 /\ \A i \in 1 .. n - 1 : N[i] = M[i + 1]
    BY <1>2, HeadTailProperties
  <1>5. /\ c \in [0 .. n -> Nat] /\ c[0] = a /\ c[n] = b
        /\ \A i \in 1 .. n : /\ c[i] = c[i - 1] + Step(M[i])
                             /\ M[i].kind = "reply" => M[i].n = c[i]
                             /\ c[i] <= b
    BY <1>1, <1>2 DEF Count
  <1>6. c[1] = a + s /\ (M[1].kind = "reply" => M[1].n = a + 1) /\ a + s <= b
    <2>1. 1 \in 1 .. n /\ 1 - 1 = 0
      BY <1>3
    <2>2. /\ c[1] = c[1 - 1] + Step(M[1])
          /\ M[1].kind = "reply" => M[1].n = c[1]
          /\ c[1] <= b
      BY <1>5, <2>1
    <2> QED
      BY <1>2, <1>3, <1>5, <2>1, <2>2
  <1> DEFINE d == [i \in 0 .. n - 1 |-> c[i + 1]]
  <1>7. d \in [0 .. n - 1 -> Nat] /\ \A i \in 0 .. n - 1 : d[i] = c[i + 1]
    BY <1>3, <1>5
  <1> HIDE DEF d
  <1>8. d[0] = a + s /\ d[n - 1] = b
    <2>1. 0 \in 0 .. n - 1 /\ n - 1 \in 0 .. n - 1 /\ (n - 1) + 1 = n /\ 0 + 1 = 1
      BY <1>3
    <2>2. d[0] = c[0 + 1] /\ d[n - 1] = c[(n - 1) + 1]
      BY <1>7, <2>1
    <2> QED
      BY <1>5, <1>6, <2>1, <2>2
  <1>9. ASSUME NEW i \in 1 .. n - 1
        PROVE  /\ d[i] = d[i - 1] + Step(N[i])
               /\ N[i].kind = "reply" => N[i].n = d[i]
               /\ d[i] <= b
    <2>1. i \in 0 .. n - 1 /\ i - 1 \in 0 .. n - 1 /\ (i - 1) + 1 = i /\ i + 1 \in 1 .. n /\ (i + 1) - 1 = i
      BY <1>3
    <2>2. d[i] = c[i + 1] /\ d[i - 1] = c[i] /\ N[i] = M[i + 1]
      <3>1. d[i - 1] = c[(i - 1) + 1]
        BY <1>7, <2>1
      <3> QED
        BY <1>4, <1>7, <2>1, <3>1
    <2>3. /\ c[i + 1] = c[(i + 1) - 1] + Step(M[i + 1])
          /\ M[i + 1].kind = "reply" => M[i + 1].n = c[i + 1]
          /\ c[i + 1] <= b
      BY <1>5, <2>1
    <2> QED
      BY <2>1, <2>2, <2>3
  <1>10. Count(d, N, a + s, b)
    BY <1>4, <1>7, <1>8, <1>9 DEF Count
  <1> QED
    BY <1>2, <1>6, <1>10 DEF Numbers

\* Replies are counted upwards.
LEMMA NumbersBound ==
    ASSUME NEW M \in Seq(HeadSet), NEW a \in Nat, NEW b \in Nat, Numbers(M, a, b)
    PROVE  a <= b
  <1>1. CASE M = <<>>
    BY <1>1, NumbersNone
  <1>2. CASE M # <<>>
    <2>1. a + Step(M[1]) <= b
      BY <1>2, NumbersTail
    <2> QED
      BY <2>1 DEF Step
  <1> QED
    BY <1>1, <1>2

\* The last reply bears the last number.
LEMMA NumbersLast ==
    ASSUME NEW M \in Seq(HeadSet), M # <<>>, NEW a \in Nat, NEW b \in Nat, Numbers(M, a, b),
           M[Len(M)].kind = "reply"
    PROVE  a < b
  <1>1. PICK c : Count(c, M, a, b)
    BY DEF Numbers
  <1>2. PICK n : n = Len(M)
    OBVIOUS
  <1>3. n \in Nat \ {0} /\ n \in 1 .. n /\ n - 1 \in 0 .. n
    BY <1>2
  <1>4. /\ c \in [0 .. n -> Nat] /\ c[0] = a /\ c[n] = b
        /\ \A i \in 1 .. n : c[i] = c[i - 1] + Step(M[i])
    BY <1>1, <1>2 DEF Count
  <1>5. c[n] = c[n - 1] + 1 /\ c[n - 1] \in Nat
    BY <1>2, <1>3, <1>4 DEF Step
  <1>6. a <= c[n - 1]
    <2> DEFINE G == {i \in Nat : i <= n => a <= c[i]}
    <2>1. 0 \in G
      BY <1>4
    <2>2. ASSUME NEW i \in Nat, i \in G PROVE i + 1 \in G
      <3> SUFFICES ASSUME i + 1 <= n PROVE a <= c[i + 1]
        OBVIOUS
      <3>1. i + 1 \in 1 .. n /\ (i + 1) - 1 = i /\ i \in 0 .. n /\ i + 1 \in 0 .. n
        BY <1>3
      <3>2. c[i + 1] = c[i] + Step(M[i + 1]) /\ c[i] \in Nat /\ c[i + 1] \in Nat
        BY <1>4, <3>1
      <3>3. Step(M[i + 1]) \in 0 .. 1
        BY DEF Step
      <3>4. a <= c[i]
        BY <2>2, <3>1
      <3> QED
        BY <3>2, <3>3, <3>4
    <2> HIDE DEF G
    <2>3. n - 1 \in G
      BY <1>3, <2>1, <2>2, NatSetInduction
    <2> QED
      BY <1>3, <2>3 DEF G
  <1> QED
    BY <1>4, <1>5, <1>6

----------------------------------------------------------------------------
(* One turn of the loop that takes the text apart. *)

\* A tail that starts in the first of two sequences.
LEMMA FromConcat ==
    ASSUME NEW V, NEW a \in Seq(V), NEW b \in Seq(V), NEW m \in 0 .. Len(a)
    PROVE  SubSeq(a \o b, m + 1, Len(a \o b)) = SubSeq(a, m + 1, Len(a)) \o b
  <1>1. PICK s, d, e : s = a \o b /\ d = SubSeq(a, m + 1, Len(a)) /\ e = SubSeq(s, m + 1, Len(s))
    OBVIOUS
  <1>2. /\ s \in Seq(V) /\ Len(s) = Len(a) + Len(b) /\ Len(a) \in Nat /\ Len(b) \in Nat
        /\ \A i \in 1 .. Len(a) : s[i] = a[i]
        /\ \A i \in Len(a) + 1 .. Len(a) + Len(b) : s[i] = b[i - Len(a)]
    BY <1>1, Concatenation
  <1>3. d \in Seq(V) /\ Len(d) = Len(a) - m /\ \A i \in 1 .. Len(a) - m : d[i] = a[i + m]
    BY <1>1, From
  <1>4. m \in 0 .. Len(s)
    BY <1>2
  <1>5. e \in Seq(V) /\ Len(e) = Len(s) - m /\ \A i \in 1 .. Len(s) - m : e[i] = s[i + m]
    BY <1>1, <1>2, <1>4, From, SMTT(60)
  <1>6. PICK f : f = d \o b
    OBVIOUS
  <1>7. /\ f \in Seq(V) /\ Len(f) = Len(d) + Len(b)
        /\ \A i \in 1 .. Len(d) : f[i] = d[i]
        /\ \A i \in Len(d) + 1 .. Len(d) + Len(b) : f[i] = b[i - Len(d)]
    BY <1>3, <1>6, Concatenation
  <1>8. Len(e) = Len(f)
    BY <1>2, <1>3, <1>5, <1>7
  <1>9. ASSUME NEW i \in 1 .. Len(e) PROVE e[i] = f[i]
    <2>1. e[i] = s[i + m]
      BY <1>5
    <2>2. CASE i <= Len(d)
      <3>1. i \in 1 .. Len(d) /\ i \in 1 .. Len(a) - m /\ i + m \in 1 .. Len(a)
        BY <1>2, <1>3, <2>2
      <3>2. f[i] = d[i] /\ d[i] = a[i + m] /\ s[i + m] = a[i + m]
        BY <1>2, <1>3, <1>7, <3>1
      <3> QED
        BY <2>1, <3>2
    <2>3. CASE i > Len(d)
      <3>1. /\ i \in Len(d) + 1 .. Len(d) + Len(b) /\ i + m \in Len(a) + 1 .. Len(a) + Len(b)
            /\ i - Len(d) = (i + m) - Len(a)
        BY <1>2, <1>3, <1>5, <2>3
      <3>2. f[i] = b[i - Len(d)]
        BY <1>7, <3>1
      <3>3. s[i + m] = b[(i + m) - Len(a)]
        BY <1>2, <3>1
      <3> QED
        BY <2>1, <3>1, <3>2, <3>3
    <2>4. i <= Len(d) \/ i > Len(d)
      BY <1>2, <1>3
    <2> QED
      BY <2>2, <2>3, <2>4
  <1>10. e = f
    BY <1>5, <1>7, <1>8, <1>9, SeqEqual
  <1> QED
    BY <1>1, <1>6, <1>10

\* One turn of the loop.
RSet == [rest : Seq(Toks), pending : Seq(Nat), handled : Seq(Nat \X Nat), paired : BOOLEAN]
Junk(J) == \A i \in 1 .. Len(J) : J[i].kind = "junk"

\* Text that begins with a head: the loop finds it and knows its length.
LEMMA HeadAtFirst ==
    ASSUME NEW p \in Seq(Toks), p # <<>>, p[1].kind \in {"reply", "push"}
    PROVE  HeadAt(p) = 1 /\ Needed(p) = p[1].len + 1
  <1> DEFINE at == {i \in DOMAIN p : p[i].kind \in {"reply", "push"}}
  <1>0. DOMAIN p = 1 .. Len(p) /\ 1 \in 1 .. Len(p)
    OBVIOUS
  <1>1. 1 \in at /\ \A i \in at : i \in Nat /\ 1 <= i
    BY <1>0
  <1>2. HeadAt(p) = IF at = {} THEN 0 ELSE Min(at)
    BY DEF HeadAt
  <1> HIDE DEF at
  <1>3. Min(at) = 1
    BY <1>1 DEF Min
  <1>4. HeadAt(p) = 1
    BY <1>1, <1>2, <1>3
  <1>5. p[1].len \in Nat
    <2>1. p[1] \in Toks
      BY <1>0, ElementOfSeq
    <2> QED
      BY <2>1 DEF Toks
  <1> QED
    BY <1>4, <1>5 DEF Needed

\* Without a head the loop finds none.
LEMMA HeadAtJunk ==
    ASSUME NEW p \in Seq(Toks), Junk(p)
    PROVE  HeadAt(p) = 0
  <1>1. DOMAIN p = 1 .. Len(p)
    OBVIOUS
  <1>2. {i \in DOMAIN p : p[i].kind \in {"reply", "push"}} = {}
    BY <1>1 DEF Junk
  <1> QED
    BY <1>2 DEF HeadAt

\* A head that is found is in the text and covers at least itself.
LEMMA HeadAtAny ==
    ASSUME NEW p \in Seq(Toks), HeadAt(p) # 0
    PROVE  HeadAt(p) \in 1 .. Len(p) /\ Needed(p) \in Nat /\ Needed(p) >= 1
  <1> DEFINE at == {i \in DOMAIN p : p[i].kind \in {"reply", "push"}}
  <1>1. HeadAt(p) = Min(at) /\ at # {}
    BY DEF HeadAt
  <1>2. at \subseteq 1 .. Len(p) /\ at \subseteq Nat
    OBVIOUS
  <1> HIDE DEF at
  <1>3. \E x \in at : \A y \in at : x <= y
    BY <1>1, <1>2, LeastNatural
  <1>4. Min(at) \in at
    BY <1>3 DEF Min
  <1>5. HeadAt(p) \in 1 .. Len(p)
    BY <1>1, <1>2, <1>4
  <1>6. p[HeadAt(p)].len \in Nat
    <2>1. p[HeadAt(p)] \in Toks
      BY <1>5
    <2> QED
      BY <2>1 DEF Toks
  <1> QED
    BY <1>5, <1>6 DEF Needed

\* The fields of the record the loop runs on.
LEMMA TurnFields ==
    ASSUME NEW a, NEW b, NEW c, NEW d, NEW x,
           x = [rest |-> a, pending |-> b, handled |-> c, paired |-> d]
    PROVE  x.rest = a /\ x.pending = b /\ x.handled = c /\ x.paired = d
  OBVIOUS

\* A turn of the loop: it waits for more; it drops a pushed request, or a
\* reply nobody waits for; or it hands the reply to the request that waits
\* longest.
LEMMA DispatchCases ==
    ASSUME NEW r \in RSet
    PROVE  \/ (HeadAt(r.rest) = 0 \/ Len(r.rest) < Needed(r.rest)) /\ Dispatch(r) = r
           \/ /\ HeadAt(r.rest) # 0 /\ Len(r.rest) >= Needed(r.rest)
              /\ (~IsReply(r.rest) \/ r.pending = <<>>)
              /\ Dispatch(r) = [r EXCEPT !.rest = SubSeq(r.rest, Needed(r.rest) + 1, Len(r.rest))]
           \/ /\ HeadAt(r.rest) # 0 /\ Len(r.rest) >= Needed(r.rest)
              /\ IsReply(r.rest) /\ r.pending # <<>>
              /\ Dispatch(r) = [rest |-> SubSeq(r.rest, Needed(r.rest) + 1, Len(r.rest)),
                                pending |-> Tail(r.pending),
                                handled |-> Append(r.handled, <<Head(r.pending), r.rest[HeadAt(r.rest)].n>>),
                                paired |-> r.paired \/ Head(r.pending) = PairSteps]
  <1>1. Len(r.rest) \in Nat
    BY DEF RSet
  <1>2. CASE HeadAt(r.rest) = 0 \/ Len(r.rest) < Needed(r.rest)
    BY <1>2, Zenon DEF Dispatch
  <1>3. CASE ~(HeadAt(r.rest) = 0 \/ Len(r.rest) < Needed(r.rest))
    <2>1. HeadAt(r.rest) # 0 /\ Len(r.rest) >= Needed(r.rest)
      <3>1. r.rest \in Seq(Toks)
        BY DEF RSet
      <3>2. Needed(r.rest) \in Nat
        BY <1>3, <3>1, HeadAtAny
      <3> QED
        BY <1>1, <1>3, <3>2
    <2>2. CASE ~IsReply(r.rest) \/ r.pending = <<>>
      <3>1. Dispatch(r) = [r EXCEPT !.rest = SubSeq(r.rest, Needed(r.rest) + 1, Len(r.rest))]
        BY <1>3, <2>2, Zenon DEF Dispatch
      <3> QED
        BY <2>1, <2>2, <3>1
    <2>3. CASE ~(~IsReply(r.rest) \/ r.pending = <<>>)
      <3>1. Dispatch(r) = [rest |-> SubSeq(r.rest, Needed(r.rest) + 1, Len(r.rest)),
                           pending |-> Tail(r.pending),
                           handled |-> Append(r.handled, <<Head(r.pending), r.rest[HeadAt(r.rest)].n>>),
                           paired |-> r.paired \/ Head(r.pending) = PairSteps]
        BY <1>3, <2>3, Zenon DEF Dispatch
      <3> QED
        BY <2>1, <2>3, <3>1
    <2> QED
      BY <2>2, <2>3
  <1> QED
    BY <1>2, <1>3

\* A turn that changes anything takes text away, so that the loop ends.
LEMMA DispatchShrinks ==
    ASSUME NEW r \in RSet
    PROVE  Dispatch(r) = r \/ Len(Dispatch(r).rest) < Len(r.rest)
  <1>1. PICK p : p = r.rest
    OBVIOUS
  <1>2. p \in Seq(Toks)
    BY <1>1 DEF RSet
  <1>3. ASSUME HeadAt(p) # 0, Len(p) >= Needed(p)
        PROVE  Len(SubSeq(p, Needed(p) + 1, Len(p))) < Len(p)
    <2>1. Needed(p) \in 0 .. Len(p) /\ Needed(p) >= 1 /\ Len(p) \in Nat
      BY <1>2, <1>3, HeadAtAny
    <2>2. Len(SubSeq(p, Needed(p) + 1, Len(p))) = Len(p) - Needed(p)
      BY <1>2, <2>1, From
    <2> QED
      BY <2>1, <2>2
  <1>4. CASE (HeadAt(r.rest) = 0 \/ Len(r.rest) < Needed(r.rest)) /\ Dispatch(r) = r
    BY <1>4
  <1>5. CASE /\ HeadAt(r.rest) # 0 /\ Len(r.rest) >= Needed(r.rest)
             /\ (~IsReply(r.rest) \/ r.pending = <<>>)
             /\ Dispatch(r) = [r EXCEPT !.rest = SubSeq(r.rest, Needed(r.rest) + 1, Len(r.rest))]
    <2>1. Dispatch(r).rest = SubSeq(p, Needed(p) + 1, Len(p))
      BY <1>1, <1>5 DEF RSet
    <2> QED
      BY <1>1, <1>3, <1>5, <2>1
  <1>6. CASE /\ HeadAt(r.rest) # 0 /\ Len(r.rest) >= Needed(r.rest)
             /\ IsReply(r.rest) /\ r.pending # <<>>
             /\ Dispatch(r) = [rest |-> SubSeq(r.rest, Needed(r.rest) + 1, Len(r.rest)),
                               pending |-> Tail(r.pending),
                               handled |-> Append(r.handled, <<Head(r.pending), r.rest[HeadAt(r.rest)].n>>),
                               paired |-> r.paired \/ Head(r.pending) = PairSteps]
    <2>1. Dispatch(r).rest = SubSeq(p, Needed(p) + 1, Len(p))
      <3>1. PICK a, b, c, d : /\ a = SubSeq(r.rest, Needed(r.rest) + 1, Len(r.rest))
                              /\ b = Tail(r.pending)
                              /\ c = Append(r.handled, <<Head(r.pending), r.rest[HeadAt(r.rest)].n>>)
                              /\ d = (r.paired \/ Head(r.pending) = PairSteps)
        OBVIOUS
      <3>2. Dispatch(r) = [rest |-> a, pending |-> b, handled |-> c, paired |-> d]
        BY <1>6, <3>1, Zenon
      <3>3. Dispatch(r).rest = a
        BY <3>2
      <3> QED
        BY <1>1, <3>1, <3>3
    <2> QED
      BY <1>1, <1>3, <1>6, <2>1
  <1> QED
    BY <1>4, <1>5, <1>6, DispatchCases

\* The encryption is on after the reply to the last pairing request.
Switched(n) == PairSteps # 0 /\ n >= PairSteps

\* Inside the loop: the text that is left begins with whole messages M, of
\* which F has not arrived, and ends with junk J; e: encrypted, n requests made,
\* b replies on their way or handled, ends: the last of them ends the text.
Inside(r, Q, M, J, F, b, ends, e, n) ==
    /\ r \in RSet
    /\ Q \in Seq(Toks) /\ M \in Seq(HeadSet) /\ r.rest = Q \o J /\ Q \o F = Whole(M)
    /\ Numbers(M, Len(r.handled), b)
    /\ ends => M = <<>> \/ M[Len(M)].kind = "reply"
    /\ r.pending = [i \in 1 .. n - Len(r.handled) |-> Len(r.handled) + i]
    /\ \A i \in 1 .. Len(r.handled) : r.handled[i] = <<i, i>>
    /\ e => Switched(Len(r.handled))
    /\ r.paired = (~e /\ Switched(Len(r.handled)))

\* Whole messages begin with the head of the first.
LEMMA HeadFirst ==
    ASSUME NEW M \in Seq(HeadSet), M # <<>>
    PROVE  /\ M[1] \in HeadSet /\ M[1] \in Toks /\ Tail(M) \in Seq(HeadSet)
           /\ Whole(M) = Message(M[1].kind, M[1].n, M[1].len) \o Whole(Tail(M))
           /\ M[1].kind \in {"reply", "push"}
  <1>1. M[1] \in HeadSet /\ Tail(M) \in Seq(HeadSet)
    OBVIOUS
  <1>2. M = <<M[1]>> \o Tail(M)
    <2>1. PICK a, t : a = <<M[1]>> /\ t = Tail(M)
      OBVIOUS
    <2>2. /\ a \in Seq(HeadSet) /\ t \in Seq(HeadSet) /\ Len(a) = 1 /\ a[1] = M[1]
          /\ Len(t) = Len(M) - 1 /\ \A i \in 1 .. Len(t) : t[i] = M[i + 1]
      BY <1>1, <2>1, HeadTailProperties
    <2>0. a \in Seq(HeadSet) /\ t \in Seq(HeadSet)
      BY <2>2
    <2>3. /\ a \o t \in Seq(HeadSet) /\ Len(a \o t) = Len(a) + Len(t)
          /\ \A i \in 1 .. Len(a) : (a \o t)[i] = a[i]
          /\ \A i \in Len(a) + 1 .. Len(a) + Len(t) : (a \o t)[i] = t[i - Len(a)]
      BY <2>0, Concatenation
    <2>4. Len(M) \in Nat /\ Len(a \o t) = Len(M)
      BY <2>2, <2>3
    <2>5. ASSUME NEW i \in 1 .. Len(M) PROVE M[i] = (a \o t)[i]
      <3>1. CASE i = 1
        <4>1. i \in 1 .. Len(a)
          BY <2>2, <3>1
        <4> QED
          BY <2>2, <2>3, <3>1, <4>1
      <3>2. CASE i # 1
        <4>1. i \in Len(a) + 1 .. Len(a) + Len(t) /\ i - Len(a) \in 1 .. Len(t) /\ (i - Len(a)) + 1 = i
          BY <2>2, <2>4, <3>2
        <4>2. (a \o t)[i] = t[i - Len(a)]
          BY <2>3, <4>1
        <4>3. t[i - Len(a)] = M[(i - Len(a)) + 1]
          BY <2>2, <4>1
        <4> QED
          BY <4>1, <4>2, <4>3
      <3> QED
        BY <3>1, <3>2
    <2>6. M = a \o t
      BY <2>3, <2>4, <2>5, SeqEqual
    <2> QED
      BY <2>1, <2>6
  <1>3. Whole(M) = Whole(<<M[1]>>) \o Whole(Tail(M))
    <2>1. PICK a, t : a = <<M[1]>> /\ t = Tail(M)
      OBVIOUS
    <2>2. a \in Seq(HeadSet) /\ t \in Seq(HeadSet) /\ M = a \o t
      BY <1>1, <1>2, <2>1
    <2>3. Whole(a \o t) = Whole(a) \o Whole(t)
      BY <2>2, WholeConcat
    <2> QED
      BY <2>1, <2>2, <2>3
  <1>4. Whole(<<M[1]>>) = Message(M[1].kind, M[1].n, M[1].len)
    BY <1>1, WholeOne
  <1> QED
    BY <1>1, <1>3, <1>4 DEF HeadSet

\* The text p begins with the first of the messages M, or a part of it.
Begins(p, M, J, F) ==
    /\ M # <<>> /\ HeadAt(p) = 1 /\ p[1] = M[1] /\ Needed(p) = M[1].len + 1
    /\ F = <<>> => Len(p) >= Needed(p)
    /\ Len(p) >= Needed(p) =>
          \E R \in Seq(Toks) : /\ SubSeq(p, Needed(p) + 1, Len(p)) = R \o J
                               /\ R \o F = Whole(Tail(M))

\* Whichever part of whole messages has arrived, the loop finds the first of
\* them and never reads past it.
LEMMA FirstMessage ==
    ASSUME NEW Q \in Seq(Toks), NEW M \in Seq(HeadSet), NEW J \in Seq(Toks), NEW F \in Seq(Toks),
           Q \o F = Whole(M), Q # <<>>, J = <<>> \/ F = <<>>
    PROVE  Begins(Q \o J, M, J, F)
  <1>1. /\ Q \o F \in Seq(Toks) /\ Len(Q \o F) = Len(Q) + Len(F)
        /\ Len(Q) \in Nat /\ Len(F) \in Nat /\ \A i \in 1 .. Len(Q) : (Q \o F)[i] = Q[i]
    BY Concatenation
  <1>2. /\ Q \o J \in Seq(Toks) /\ Len(Q \o J) = Len(Q) + Len(J)
        /\ Len(J) \in Nat /\ \A i \in 1 .. Len(Q) : (Q \o J)[i] = Q[i]
    BY Concatenation
  <1>3. Len(Q) > 0 /\ 1 \in 1 .. Len(Q)
    <2>1. Len(Q) # 0
      BY EmptySeq
    <2> QED
      BY <1>1, <2>1
  <1>4. M # <<>>
    <2> SUFFICES ASSUME M = <<>> PROVE FALSE
      OBVIOUS
    <2>1. Q \o F = <<>>
      BY WholeEmpty
    <2>2. Len(Q \o F) = 0
      BY <2>1
    <2> QED
      BY <1>1, <1>3, <2>2
  <1>5. PICK m, W : m = Message(M[1].kind, M[1].n, M[1].len) /\ W = Whole(Tail(M))
    OBVIOUS
  <1>6. /\ M[1] \in Toks /\ Tail(M) \in Seq(HeadSet) /\ Q \o F = m \o W
        /\ M[1].kind \in {"reply", "push"}
    BY <1>4, <1>5, HeadFirst
  <1>7. m \in Seq(Toks) /\ Len(m) = M[1].len + 1 /\ m[1] = M[1] /\ M[1].len \in Nat
    BY <1>5, <1>6, MessageShape DEF Toks
  <1>8. W \in Seq(Toks)
    BY <1>5, <1>6, TextsType
  <1>9. /\ Len(m \o W) = Len(m) + Len(W) /\ Len(W) \in Nat /\ \A i \in 1 .. Len(m) : (m \o W)[i] = m[i]
    BY <1>7, <1>8, Concatenation, ZenonT(60)
  <1>10. (Q \o J)[1] = M[1]
    <2>1. (Q \o J)[1] = Q[1] /\ (Q \o F)[1] = Q[1]
      BY <1>1, <1>2, <1>3
    <2>2. 1 \in 1 .. Len(m)
      <3>1. PICK k, l : k = Len(m) /\ l = M[1].len
        OBVIOUS
      <3>2. k = l + 1 /\ l \in Nat
        BY <1>7, <3>1
      <3> QED
        BY <3>1, <3>2, SMTT(60)
    <2>3. (m \o W)[1] = m[1]
      BY <1>9, <2>2
    <2> QED
      BY <1>6, <1>7, <2>1, <2>3
  <1>11. HeadAt(Q \o J) = 1 /\ Needed(Q \o J) = M[1].len + 1
    <2>1. PICK p : p = Q \o J
      OBVIOUS
    <2>2. p \in Seq(Toks) /\ p # <<>> /\ p[1].kind \in {"reply", "push"} /\ p[1] = M[1]
      BY <1>2, <1>3, <1>6, <1>10, <2>1
    <2>3. HeadAt(p) = 1 /\ Needed(p) = p[1].len + 1
      BY <2>2, HeadAtFirst
    <2> QED
      BY <2>1, <2>2, <2>3
  <1>12. Len(Q) + Len(F) = Len(m) + Len(W)
    BY <1>1, <1>6, <1>9
  <1>13. F = <<>> => Len(Q) >= Len(m)
    <2>1. F = <<>> => Len(F) = 0
      OBVIOUS
    <2> QED
      BY <1>1, <1>7, <1>9, <1>12, <2>1, SMTT(60)
  <1>14. J = <<>> => Len(Q \o J) = Len(Q)
    <2>1. J = <<>> => Len(J) = 0
      OBVIOUS
    <2> QED
      BY <1>1, <1>2, <2>1
  <1>15. F = <<>> => Len(Q \o J) >= Needed(Q \o J)
    BY <1>1, <1>2, <1>7, <1>11, <1>13
  <1>16. ASSUME Len(Q \o J) >= Needed(Q \o J)
         PROVE  \E R \in Seq(Toks) : /\ SubSeq(Q \o J, Needed(Q \o J) + 1, Len(Q \o J)) = R \o J
                                     /\ R \o F = Whole(Tail(M))
    <2>1. Len(Q) >= Len(m)
      BY <1>1, <1>7, <1>11, <1>13, <1>14, <1>16
    <2>2. PICK k : k = Len(m)
      OBVIOUS
    <2>3. k \in 0 .. Len(Q) /\ k = Needed(Q \o J)
      BY <1>1, <1>7, <1>11, <2>1, <2>2
    <2>4. PICK R : R = SubSeq(Q, k + 1, Len(Q))
      OBVIOUS
    <2>5. R \in Seq(Toks)
      BY <2>3, <2>4, From
    <2>6. SubSeq(Q \o J, k + 1, Len(Q \o J)) = R \o J
      BY <2>3, <2>4, FromConcat
    <2>7. SubSeq(Q \o F, k + 1, Len(Q \o F)) = R \o F
      BY <2>3, <2>4, FromConcat
    <2>8. SubSeq(m \o W, k + 1, Len(m \o W)) = W
      BY <1>7, <1>8, <2>2, SecondPart
    <2>9. R \o F = W
      BY <1>6, <2>7, <2>8
    <2> QED
      BY <1>5, <2>3, <2>5, <2>6, <2>9
  <1> QED
    BY <1>4, <1>10, <1>11, <1>15, <1>16 DEF Begins

----------------------------------------------------------------------------
(* What one turn keeps. *)

\* The requests that wait for their reply.
Waiting(h, n) == [i \in 1 .. n - h |-> h + i]

\* The request that waits longest is the one whose reply comes next.
LEMMA WaitingShape ==
    ASSUME NEW h \in Nat, NEW n \in Nat, h < n
    PROVE  /\ Waiting(h, n) \in Seq(Nat) /\ Waiting(h, n) # <<>> /\ Head(Waiting(h, n)) = h + 1
           /\ Tail(Waiting(h, n)) = Waiting(h + 1, n)
  <1>1. PICK w, v : w = Waiting(h, n) /\ v = Waiting(h + 1, n)
    OBVIOUS
  <1>2. n - h \in Nat /\ n - h >= 1 /\ n - (h + 1) = (n - h) - 1
    OBVIOUS
  <1>3. w \in Seq(Nat) /\ Len(w) = n - h /\ \A i \in 1 .. n - h : w[i] = h + i
    BY <1>1, <1>2 DEF Waiting
  <1>4. v \in Seq(Nat) /\ Len(v) = (n - h) - 1 /\ \A i \in 1 .. (n - h) - 1 : v[i] = h + 1 + i
    BY <1>1, <1>2 DEF Waiting
  <1>5. w # <<>> /\ 1 \in 1 .. n - h
    BY <1>2, <1>3
  <1>6. Head(w) = h + 1
    <2>1. Head(w) = w[1]
      BY <1>3, <1>5
    <2> QED
      BY <1>3, <1>5, <2>1
  <1>7. /\ Tail(w) \in Seq(Nat) /\ Len(Tail(w)) = Len(w) - 1
        /\ \A i \in 1 .. Len(Tail(w)) : Tail(w)[i] = w[i + 1]
    BY <1>3, <1>5, HeadTailProperties
  <1>8. Len(Tail(w)) = Len(v) /\ \A i \in 1 .. Len(v) : Tail(w)[i] = v[i]
    <2>1. Len(Tail(w)) = Len(v)
      BY <1>3, <1>4, <1>7
    <2> SUFFICES ASSUME NEW i \in 1 .. Len(v) PROVE Tail(w)[i] = v[i]
      BY <2>1
    <2>2. i + 1 \in 1 .. n - h /\ h + (i + 1) = h + 1 + i /\ i \in 1 .. (n - h) - 1
      BY <1>2, <1>4
    <2>3. Tail(w)[i] = w[i + 1]
      BY <1>7, <2>1
    <2> QED
      BY <1>3, <1>4, <2>2, <2>3
  <1>9. Tail(w) = v
    BY <1>4, <1>7, <1>8, SeqEqual
  <1> QED
    BY <1>1, <1>3, <1>5, <1>6, <1>9

\* The next reply is handled.
LEMMA HandledNext ==
    ASSUME NEW H \in Seq(Nat \X Nat), \A i \in 1 .. Len(H) : H[i] = <<i, i>>,
           NEW a, a = Len(H) + 1
    PROVE  /\ Append(H, <<a, a>>) \in Seq(Nat \X Nat) /\ Len(Append(H, <<a, a>>)) = Len(H) + 1
           /\ \A i \in 1 .. Len(H) + 1 : Append(H, <<a, a>>)[i] = <<i, i>>
  <1>1. Len(H) \in Nat /\ a \in Nat /\ <<a, a>> \in Nat \X Nat
    OBVIOUS
  <1>2. PICK V, x, N : V = Nat \X Nat /\ x = <<a, a>> /\ N = Append(H, x)
    OBVIOUS
  <1>3. /\ N \in Seq(V) /\ Len(N) = Len(H) + 1 /\ N[Len(H) + 1] = x
        /\ \A i \in 1 .. Len(H) : N[i] = H[i]
    <2>1. H \in Seq(V) /\ x \in V
      BY <1>1, <1>2
    <2> QED
      BY <1>2, <2>1, AppendProperties
  <1>4. ASSUME NEW i \in 1 .. Len(H) + 1 PROVE N[i] = <<i, i>>
    <2>1. CASE i = Len(H) + 1
      BY <1>2, <1>3, <2>1
    <2>2. CASE i # Len(H) + 1
      <3>1. i \in 1 .. Len(H)
        BY <1>1, <2>2
      <3> QED
        BY <1>3, <3>1
    <2> QED
      BY <2>1, <2>2
  <1> QED
    BY <1>2, <1>3, <1>4

\* PairSteps is a number.
LEMMA PairStepsNatural == PairSteps \in Nat
  BY ControlAssumption DEF ControlAssumption

\* Where a turn changes nothing and all has arrived, nothing is left.
Settled(r, Q, M, F) == Dispatch(r) = r /\ F = <<>> => Q = <<>> /\ M = <<>>

\* One turn of the loop: the reply it hands over is the one the waiting
\* request asked for, and it switches on the last pairing reply only.
LEMMA DispatchKeeps ==
    ASSUME NEW r, NEW Q, NEW M, NEW J \in Seq(Toks), NEW F \in Seq(Toks), NEW b \in Nat, NEW ends,
           NEW e \in BOOLEAN, NEW n \in Nat, b <= n, Junk(J), J = <<>> \/ F = <<>>,
           Inside(r, Q, M, J, F, b, ends, e, n)
    PROVE  /\ \E R, N : Inside(Dispatch(r), R, N, J, F, b, ends, e, n)
           /\ Settled(r, Q, M, F)
  <1>1. /\ r \in RSet
        /\ Q \in Seq(Toks) /\ M \in Seq(HeadSet) /\ r.rest = Q \o J /\ Q \o F = Whole(M)
        /\ Numbers(M, Len(r.handled), b)
        /\ ends => M = <<>> \/ M[Len(M)].kind = "reply"
        /\ r.pending = Waiting(Len(r.handled), n)
        /\ \A i \in 1 .. Len(r.handled) : r.handled[i] = <<i, i>>
        /\ e => Switched(Len(r.handled))
        /\ r.paired = (~e /\ Switched(Len(r.handled)))
    BY DEF Inside, Waiting
  <1>2. /\ r.rest \in Seq(Toks) /\ r.pending \in Seq(Nat) /\ r.handled \in Seq(Nat \X Nat)
        /\ r.paired \in BOOLEAN /\ Len(r.handled) \in Nat
    BY <1>1 DEF RSet
  <1>3. CASE Q = <<>>
    <2>1. r.rest = J
      BY <1>1, <1>3, ConcatEmptySeq
    <2>2. HeadAt(r.rest) = 0
      BY <2>1, HeadAtJunk
    <2>3. Dispatch(r) = r
      BY <2>2, Zenon DEF Dispatch
    <2>4. F = <<>> => M = <<>>
      <3> SUFFICES ASSUME F = <<>>, M # <<>> PROVE FALSE
        OBVIOUS
      <3>1. Whole(M) = <<>>
        BY <1>1, <1>3
      <3>2. PICK m, W : m = Message(M[1].kind, M[1].n, M[1].len) /\ W = Whole(Tail(M))
        OBVIOUS
      <3>3. M[1] \in Toks /\ Tail(M) \in Seq(HeadSet) /\ Whole(M) = m \o W
        BY <1>1, <3>2, HeadFirst
      <3>4. m \in Seq(Toks) /\ Len(m) = M[1].len + 1 /\ M[1].len \in Nat
        BY <3>2, <3>3, MessageShape DEF Toks
      <3>5. W \in Seq(Toks)
        BY <3>2, <3>3, TextsType
      <3>6. Len(m \o W) = Len(m) + Len(W) /\ Len(W) \in Nat
        BY <3>4, <3>5, Concatenation
      <3>7. Len(m \o W) = 0
        <4>1. m \o W = <<>>
          BY <3>1, <3>3
        <4>2. Len(<<>>) = 0
          OBVIOUS
        <4> QED
          BY <4>1, <4>2
      <3>8. PICK k, l, w : k = Len(m) /\ l = M[1].len /\ w = Len(W)
        OBVIOUS
      <3>9. k = l + 1 /\ l \in Nat /\ w \in Nat /\ k + w = 0
        BY <3>4, <3>6, <3>7, <3>8
      <3> QED
        BY <3>9
    <2> QED
      BY <1>3, <2>3, <2>4 DEF Settled
  <1>4. CASE Q # <<>>
    <2>1. /\ M # <<>> /\ HeadAt(r.rest) = 1 /\ r.rest[1] = M[1] /\ Needed(r.rest) = M[1].len + 1
          /\ F = <<>> => Len(r.rest) >= Needed(r.rest)
          /\ Len(r.rest) >= Needed(r.rest) =>
                \E R \in Seq(Toks) : /\ SubSeq(r.rest, Needed(r.rest) + 1, Len(r.rest)) = R \o J
                                     /\ R \o F = Whole(Tail(M))
      <3>1. Begins(Q \o J, M, J, F)
        <4>1. Q \in Seq(Toks) /\ M \in Seq(HeadSet) /\ Q \o F = Whole(M)
          BY <1>1
        <4> QED
          BY <1>4, <4>1, FirstMessage
      <3>2. r.rest = Q \o J
        BY <1>1
      <3>3. Begins(r.rest, M, J, F)
        BY <3>1, <3>2
      <3> QED
        BY <3>3 DEF Begins
    <2>2. /\ M[1] \in Toks /\ Tail(M) \in Seq(HeadSet) /\ M[1].kind \in {"reply", "push"}
      BY <1>1, <2>1, HeadFirst
    <2>7. PICK k, l : k = Needed(r.rest) /\ l = Len(r.rest)
      OBVIOUS
    <2>8. k \in Nat /\ k >= 1 /\ l \in Nat
      <3>1. PICK t : t = M[1].len
        OBVIOUS
      <3>2. t \in Nat
        BY <2>2, <3>1 DEF Toks
      <3>3. k = t + 1
        BY <2>1, <2>7, <3>1
      <3>4. l \in Nat
        BY <1>2, <2>7
      <3> QED
        BY <3>2, <3>3, <3>4
    <2>3. /\ Numbers(Tail(M), Len(r.handled) + Step(M[1]), b) /\ Len(r.handled) + Step(M[1]) <= b
          /\ M[1].kind = "reply" => M[1].n = Len(r.handled) + 1
      BY <1>1, <1>2, <2>1, NumbersTail
    <2>4. ends => Tail(M) = <<>> \/ Tail(M)[Len(Tail(M))].kind = "reply"
      <3> SUFFICES ASSUME ends, Tail(M) # <<>> PROVE Tail(M)[Len(Tail(M))].kind = "reply"
        OBVIOUS
      <3>1. M[Len(M)].kind = "reply"
        BY <1>1, <2>1
      <3>2. PICK N : N = Tail(M)
        OBVIOUS
      <3>3. Len(N) = Len(M) - 1 /\ Len(M) \in Nat /\ \A i \in 1 .. Len(N) : N[i] = M[i + 1]
        BY <1>1, <2>1, <3>2, HeadTailProperties
      <3>4. Len(N) \in 1 .. Len(N) /\ Len(N) + 1 = Len(M)
        <4>1. N \in Seq(HeadSet) /\ N # <<>>
          BY <2>2, <3>2
        <4>2. Len(N) \in Nat \ {0}
          BY <4>1, EmptySeq
        <4> QED
          BY <3>3, <4>2
      <3>5. N[Len(N)] = M[Len(N) + 1]
        BY <3>3, <3>4
      <3> QED
        BY <3>1, <3>2, <3>4, <3>5
    <2>5. CASE Len(r.rest) < Needed(r.rest)
      <3>1. Dispatch(r) = r
        BY <2>5, Zenon DEF Dispatch
      <3>2. F # <<>>
        <4>1. ~(l >= k)
          BY <2>5, <2>7, <2>8
        <4>2. F = <<>> => l >= k
          BY <2>1, <2>7
        <4> QED
          BY <4>1, <4>2
      <3> QED
        BY <3>1, <3>2 DEF Settled
    <2>6. CASE Len(r.rest) >= Needed(r.rest)
      <3>1. PICK R \in Seq(Toks) : /\ SubSeq(r.rest, Needed(r.rest) + 1, Len(r.rest)) = R \o J
                                   /\ R \o F = Whole(Tail(M))
        BY <2>1, <2>6
      <3>2. PICK S : S = SubSeq(r.rest, Needed(r.rest) + 1, Len(r.rest))
        OBVIOUS
      <3>3. S \in Seq(Toks) /\ Len(S) < Len(r.rest)
        <4>1. PICK p : p = r.rest
          OBVIOUS
        <4>2. l >= k
          BY <2>6, <2>7
        <4>3. p \in Seq(Toks) /\ Len(p) = l /\ k \in 0 .. Len(p)
          BY <1>2, <2>7, <2>8, <4>1, <4>2
        <4>4. S = SubSeq(p, k + 1, Len(p))
          BY <2>7, <3>2, <4>1
        <4>5. S \in Seq(Toks) /\ Len(S) = Len(p) - k
          BY <4>3, <4>4, From
        <4> QED
          BY <2>7, <2>8, <4>3, <4>5
      <3>4. CASE M[1].kind = "push"
        <4>1. Dispatch(r) = [r EXCEPT !.rest = S]
          <5>1. ~IsReply(r.rest)
            BY <2>1, <3>4 DEF IsReply
          <5>2. ~(Len(r.rest) < Needed(r.rest))
            <6>1. l >= k
              BY <2>6, <2>7
            <6>2. ~(l < k)
              BY <2>8, <6>1
            <6> QED
              BY <2>7, <6>2
          <5>3. HeadAt(r.rest) # 0
            BY <2>1
          <5> QED
            BY <3>2, <5>1, <5>2, <5>3, Zenon DEF Dispatch
        <4>2. PICK d : d = Dispatch(r)
          OBVIOUS
        <4>3. d \in RSet /\ d.rest = S /\ d.pending = r.pending /\ d.handled = r.handled /\ d.paired = r.paired
          BY <1>1, <3>3, <4>1, <4>2 DEF RSet
        <4>4. Step(M[1]) = 0 /\ Len(r.handled) + 0 = Len(r.handled)
          BY <1>2, <3>4 DEF Step
        <4>5. Inside(d, R, Tail(M), J, F, b, ends, e, n)
          <5>1. Numbers(Tail(M), Len(d.handled), b)
            BY <2>3, <4>3, <4>4
          <5> QED
            BY <1>1, <2>2, <2>4, <3>1, <3>2, <4>3, <5>1 DEF Inside, Waiting
        <4>6. d # r
          BY <3>3, <4>3
        <4> QED
          BY <4>2, <4>5, <4>6 DEF Settled
      <3>5. CASE M[1].kind = "reply"
        <4>1. PICK h : h = Len(r.handled)
          OBVIOUS
        <4>2. h \in Nat /\ h + 1 <= b /\ h < n /\ Step(M[1]) = 1 /\ M[1].n = h + 1
          BY <1>2, <2>3, <3>5, <4>1 DEF Step
        <4>3. /\ r.pending # <<>> /\ Head(r.pending) = h + 1 /\ Tail(r.pending) = Waiting(h + 1, n)
              /\ r.pending \in Seq(Nat)
          <5>1. /\ Waiting(h, n) # <<>> /\ Head(Waiting(h, n)) = h + 1
                /\ Tail(Waiting(h, n)) = Waiting(h + 1, n) /\ Waiting(h, n) \in Seq(Nat)
            BY <4>2, WaitingShape
          <5>2. r.pending = Waiting(h, n)
            BY <1>1, <4>1
          <5> QED
            BY <5>1, <5>2
        <4>4. PICK H : H = Append(r.handled, <<h + 1, h + 1>>)
          OBVIOUS
        <4>5. H \in Seq(Nat \X Nat) /\ Len(H) = h + 1 /\ \A i \in 1 .. h + 1 : H[i] = <<i, i>>
          BY <1>1, <1>2, <4>1, <4>4, HandledNext
        <4>6. PICK q : q = (r.paired \/ h + 1 = PairSteps)
          OBVIOUS
        <4>7. Dispatch(r) = [rest |-> S, pending |-> Waiting(h + 1, n), handled |-> H, paired |-> q]
          <5>1. IsReply(r.rest) /\ r.rest[HeadAt(r.rest)].n = h + 1
            BY <2>1, <3>5, <4>2 DEF IsReply
          <5>2. ~(Len(r.rest) < Needed(r.rest)) /\ HeadAt(r.rest) # 0
            <6>1. l >= k
              BY <2>6, <2>7
            <6>2. ~(l < k)
              BY <2>8, <6>1
            <6> QED
              BY <2>1, <2>7, <6>2
          <5>3. Dispatch(r) = [rest |-> SubSeq(r.rest, Needed(r.rest) + 1, Len(r.rest)),
                               pending |-> Tail(r.pending),
                               handled |-> Append(r.handled, <<Head(r.pending), r.rest[HeadAt(r.rest)].n>>),
                               paired |-> r.paired \/ Head(r.pending) = PairSteps]
            BY <4>3, <5>1, <5>2, Zenon DEF Dispatch
          <5> QED
            BY <3>2, <4>3, <4>4, <4>6, <5>1, <5>3, Zenon
        <4>8. PICK d : d = Dispatch(r)
          OBVIOUS
        <4>9. d.rest = S /\ d.pending = Waiting(h + 1, n) /\ d.handled = H /\ d.paired = q
          BY <4>7, <4>8, TurnFields
        <4>10. q \in BOOLEAN /\ (e => Switched(h + 1)) /\ q = (~e /\ Switched(h + 1))
          <5>1. PairSteps \in Nat
            BY PairStepsNatural
          <5>2. e => Switched(h)
            BY <1>1, <4>1
          <5>3. r.paired = (~e /\ Switched(h))
            BY <1>1, <4>1
          <5>4. Switched(h + 1) <=> Switched(h) \/ h + 1 = PairSteps
            BY <4>2, <5>1 DEF Switched
          <5>5. Switched(h) => h + 1 # PairSteps
            BY <4>2, <5>1 DEF Switched
          <5>6. Switched(h) \in BOOLEAN /\ Switched(h + 1) \in BOOLEAN
            BY DEF Switched
          <5> QED
            BY <1>2, <4>6, <5>2, <5>3, <5>4, <5>5, <5>6
        <4>11. d \in RSet
          <5>1. Waiting(h + 1, n) \in Seq(Nat)
            <6>1. Tail(r.pending) \in Seq(Nat)
              BY <4>3
            <6> QED
              BY <4>3, <6>1
          <5> QED
            BY <3>3, <4>5, <4>7, <4>8, <4>10, <5>1 DEF RSet
        <4>12. Inside(d, R, Tail(M), J, F, b, ends, e, n)
          <5>1. Numbers(Tail(M), Len(d.handled), b)
            BY <2>3, <4>1, <4>2, <4>5, <4>9
          <5>2. Len(d.handled) = h + 1 /\ d.handled = H
            BY <4>5, <4>9
          <5>3. d.pending = [i \in 1 .. n - Len(d.handled) |-> Len(d.handled) + i]
            BY <4>9, <5>2 DEF Waiting
          <5>4. \A i \in 1 .. Len(d.handled) : d.handled[i] = <<i, i>>
            BY <4>5, <5>2
          <5>5. (e => Switched(Len(d.handled))) /\ d.paired = (~e /\ Switched(Len(d.handled)))
            BY <4>9, <4>10, <5>2
          <5>6. d.rest = R \o J
            BY <3>1, <3>2, <4>9
          <5> QED
            BY <2>2, <2>4, <3>1, <4>11, <5>1, <5>3, <5>4, <5>5, <5>6 DEF Inside
        <4>13. d # r
          BY <3>3, <4>9
        <4> QED
          BY <4>8, <4>12, <4>13 DEF Settled
      <3> QED
        BY <2>2, <3>4, <3>5
    <2> QED
      <3>1. l < k \/ l >= k
        BY <2>8
      <3> QED
        BY <2>5, <2>6, <2>7, <3>1
  <1> QED
    BY <1>3, <1>4

----------------------------------------------------------------------------
(* The whole loop. *)

\* The turns of the loop that starts at x.
Turns(f, x, n) == f = [k \in 0 .. n |-> IF k = 0 THEN {x} ELSE {Dispatch(r) : r \in f[k - 1]}]

\* Such turns exist: by induction over their number.
LEMMA TurnsExist ==
    ASSUME NEW x, NEW n \in Nat
    PROVE  \E f : Turns(f, x, n)
  <1> DEFINE G == {m \in Nat : \E f : Turns(f, x, m)}
  <1>1. 0 \in G
    <2> DEFINE f == [k \in 0 .. 0 |-> {x}]
    <2>1. Turns(f, x, 0)
      BY DEF Turns
    <2> QED
      BY <2>1
  <1>2. ASSUME NEW m \in Nat, m \in G PROVE m + 1 \in G
    <2>1. PICK f : Turns(f, x, m)
      BY <1>2
    <2> DEFINE h == [k \in 0 .. m + 1 |-> IF k = m + 1 THEN {Dispatch(r) : r \in f[m]} ELSE f[k]]
    <2>2. ASSUME NEW k \in 0 .. m
          PROVE  f[k] = IF k = 0 THEN {x} ELSE {Dispatch(r) : r \in f[k - 1]}
      BY <2>1 DEF Turns
    <2>3. ASSUME NEW k \in 0 .. m + 1
          PROVE  h[k] = IF k = 0 THEN {x} ELSE {Dispatch(r) : r \in h[k - 1]}
      <3>1. CASE k = m + 1
        <4>1. k # 0 /\ k - 1 \in 0 .. m + 1 /\ k - 1 = m /\ k - 1 # m + 1
          BY <3>1
        <4>2. h[k - 1] = f[m]
          BY <4>1
        <4>3. h[k] = {Dispatch(r) : r \in f[m]}
          BY <3>1
        <4> QED
          BY <4>1, <4>2, <4>3
      <3>2. CASE k # m + 1
        <4>1. k \in 0 .. m /\ h[k] = f[k]
          BY <3>2
        <4>2. k # 0 => k - 1 \in 0 .. m + 1 /\ k - 1 # m + 1 /\ h[k - 1] = f[k - 1]
          BY <4>1
        <4>3. f[k] = IF k = 0 THEN {x} ELSE {Dispatch(r) : r \in f[k - 1]}
          BY <2>2, <4>1
        <4> HIDE DEF h
        <4>4. CASE k = 0
          BY <4>1, <4>3, <4>4
        <4>5. CASE k # 0
          BY <4>1, <4>2, <4>3, <4>5
        <4> QED
          BY <4>4, <4>5
      <3> QED
        BY <3>1, <3>2
    <2>4. h = [k \in 0 .. m + 1 |-> h[k]]
      OBVIOUS
    <2> HIDE DEF h
    <2>5. Turns(h, x, m + 1)
      BY <2>3, <2>4 DEF Turns
    <2> QED
      BY <2>5
  <1> HIDE DEF G
  <1>3. Nat \subseteq G
    BY <1>1, <1>2, NatSetInduction
  <1> QED
    BY <1>3 DEF G

\* Where the loop starts.
Begun(text) == [rest |-> text, pending |-> snd.pending, handled |-> handled, paired |-> FALSE]

\* Dispatched takes the last turn.
LEMMA DispatchedIsLast ==
    ASSUME NEW text, Len(text) \in Nat
    PROVE  \E f : Turns(f, Begun(text), Len(text)) /\ Dispatched(text) = f[Len(text)]
  <1> DEFINE p == CHOOSE f : Turns(f, Begun(text), Len(text))
  <1>1. Turns(p, Begun(text), Len(text))
    BY TurnsExist
  <1>2. Dispatched(text) = p[Len(text)]
    BY DEF Dispatched, Turns, Begun
  <1> QED
    BY <1>1, <1>2

\* What every turn keeps holds where the loop ends, and there a turn changes
\* nothing.
LEMMA LoopKeeps ==
    ASSUME NEW text \in Seq(Toks), NEW G, G \subseteq RSet, Begun(text) \in G,
           \A r \in G : Dispatch(r) \in G
    PROVE  \A r \in Dispatched(text) : r \in G /\ Dispatch(r) = r
  <1>1. PICK L : L = Len(text)
    OBVIOUS
  <1>2. L \in Nat
    BY <1>1
  <1>3. PICK f : Turns(f, Begun(text), L) /\ Dispatched(text) = f[L]
    BY <1>1, <1>2, DispatchedIsLast
  <1>4. \A k \in 0 .. L : f[k] = IF k = 0 THEN {Begun(text)} ELSE {Dispatch(r) : r \in f[k - 1]}
    BY <1>3 DEF Turns
  <1> DEFINE At(k) == {r \in G : Dispatch(r) = r \/ Len(r.rest) + k <= L}
             T == {k \in Nat : k <= L => f[k] \subseteq At(k)}
  <1>5. 0 \in T
    <2>1. f[0] = {Begun(text)}
      <3>1. 0 \in 0 .. L
        BY <1>2
      <3> QED
        BY <1>4, <3>1
    <2>2. Len(Begun(text).rest) = L
      BY <1>1 DEF Begun
    <2>3. Begun(text) \in At(0)
      BY <1>2, <2>2
    <2> QED
      BY <2>1, <2>3
  <1>6. ASSUME NEW k \in Nat, k \in T PROVE k + 1 \in T
    <2>0. k + 1 \in Nat
      OBVIOUS
    <2> SUFFICES ASSUME k + 1 <= L PROVE f[k + 1] \subseteq At(k + 1)
      BY <2>0, Zenon
    <2>1. f[k + 1] = {Dispatch(r) : r \in f[k]}
      <3>1. k + 1 \in 0 .. L /\ k + 1 # 0 /\ (k + 1) - 1 = k
        BY <1>2
      <3>2. f[k + 1] = {Dispatch(r) : r \in f[(k + 1) - 1]}
        BY <1>4, <3>1
      <3> QED
        BY <3>1, <3>2
    <2>2. f[k] \subseteq At(k)
      BY <1>2, <1>6
    <2>3. ASSUME NEW r \in f[k] PROVE Dispatch(r) \in At(k + 1)
      <3>1. r \in G /\ (Dispatch(r) = r \/ Len(r.rest) + k <= L) /\ Dispatch(r) \in G
        BY <2>2, <2>3
      <3>2. CASE Dispatch(r) = r
        BY <3>1, <3>2
      <3>3. CASE Dispatch(r) # r
        <4>1. Len(Dispatch(r).rest) < Len(r.rest)
          BY <3>1, <3>3, DispatchShrinks
        <4>2. Len(Dispatch(r).rest) \in Nat /\ Len(r.rest) \in Nat
          BY <3>1 DEF RSet
        <4>3. Len(Dispatch(r).rest) + (k + 1) <= L
          <5>1. PICK u, v : u = Len(Dispatch(r).rest) /\ v = Len(r.rest)
            OBVIOUS
          <5>2. u < v /\ u \in Nat /\ v \in Nat /\ v + k <= L
            BY <3>1, <3>3, <4>1, <4>2, <5>1
          <5>3. u + (k + 1) <= L
            BY <1>2, <5>2
          <5> QED
            BY <5>1, <5>3
        <4> QED
          BY <3>1, <4>3
      <3> QED
        BY <3>2, <3>3
    <2> QED
      BY <2>1, <2>3
  <1>7. f[L] \subseteq At(L)
    <2>1. L \in T
      <3> HIDE DEF T
      <3> QED
        BY <1>2, <1>5, <1>6, NatSetInduction
    <2> QED
      BY <1>2, <2>1
  <1>8. ASSUME NEW r \in At(L) PROVE r \in G /\ Dispatch(r) = r
    <2>1. r \in G /\ (Dispatch(r) = r \/ Len(r.rest) + L <= L)
      BY <1>8
    <2>2. Len(r.rest) \in Nat /\ Dispatch(r) \in RSet
      BY <2>1 DEF RSet
    <2>3. Len(Dispatch(r).rest) \in Nat
      BY <2>2 DEF RSet
    <2>4. Dispatch(r) = r \/ Len(Dispatch(r).rest) < Len(r.rest)
      BY <2>1, DispatchShrinks
    <2> QED
      BY <1>2, <2>1, <2>2, <2>3, <2>4
  <1> QED
    BY <1>3, <1>7, <1>8

\* What the loop leaves, wherever the segments are cut.
Left(r, J, F, b, ends, e, n) ==
    \E R, N : /\ Inside(r, R, N, J, F, b, ends, e, n)
              /\ F = <<>> => R = <<>> /\ N = <<>>

\* The loop ends with a part of the next message, and with nothing where all
\* has arrived.
LEMMA LoopLeaves ==
    ASSUME NEW text \in Seq(Toks), NEW Q, NEW M, NEW J \in Seq(Toks), NEW F \in Seq(Toks),
           NEW b \in Nat, NEW ends, NEW e \in BOOLEAN, NEW n \in Nat, b <= n, Junk(J),
           J = <<>> \/ F = <<>>, Inside(Begun(text), Q, M, J, F, b, ends, e, n)
    PROVE  \A r \in Dispatched(text) : Left(r, J, F, b, ends, e, n) /\ Len(r.rest) <= Len(text)
  <1> DEFINE In(r) == \E R, N : Inside(r, R, N, J, F, b, ends, e, n)
             G == {r \in RSet : In(r) /\ Len(r.rest) <= Len(text)}
  <1>1. Len(text) \in Nat
    OBVIOUS
  <1>2. Begun(text) \in G
    <2>1. Begun(text) \in RSet
      BY DEF Inside
    <2>2. Begun(text).rest = text
      BY DEF Begun
    <2> QED
      BY <1>1, <2>1, <2>2
  <1>3. ASSUME NEW r \in G PROVE Dispatch(r) \in G
    <2>1. PICK R, N : Inside(r, R, N, J, F, b, ends, e, n)
      OBVIOUS
    <2>2. In(Dispatch(r))
      BY <2>1, DispatchKeeps
    <2>3. Dispatch(r) \in RSet
      BY <2>2 DEF Inside
    <2>4. Dispatch(r) = r \/ Len(Dispatch(r).rest) < Len(r.rest)
      BY DispatchShrinks
    <2>5. Len(Dispatch(r).rest) \in Nat /\ Len(r.rest) \in Nat /\ Len(r.rest) <= Len(text)
      BY <2>3 DEF RSet
    <2>6. Len(Dispatch(r).rest) <= Len(text)
      BY <1>1, <2>4, <2>5
    <2> QED
      BY <2>2, <2>3, <2>6
  <1> HIDE DEF G
  <1>4. \A r \in Dispatched(text) : r \in G /\ Dispatch(r) = r
    <2>1. G \subseteq RSet
      BY DEF G
    <2> QED
      BY <1>2, <1>3, <2>1, LoopKeeps
  <1> QED
    <2> SUFFICES ASSUME NEW r \in Dispatched(text)
                 PROVE  Left(r, J, F, b, ends, e, n) /\ Len(r.rest) <= Len(text)
      OBVIOUS
    <2>1. r \in G /\ Dispatch(r) = r
      BY <1>4
    <2>2. PICK R, N : Inside(r, R, N, J, F, b, ends, e, n)
      BY <2>1 DEF G
    <2>3. F = <<>> => R = <<>> /\ N = <<>>
      <3>1. Settled(r, R, N, F)
        BY <2>2, DispatchKeeps
      <3> QED
        BY <2>1, <3>1 DEF Settled
    <2> QED
      BY <2>1, <2>2, <2>3 DEF G, Left

----------------------------------------------------------------------------
(* Text, messages and requests on their way. *)

\* What travels: half frames, or single tokens in the clear.
Items == ItemSet(Toks)

\* Items in the clear: one element each.
Cleared(C) == \A i \in 1 .. Len(C) : C[i].half = 0 /\ Len(C[i].frame.plain) = 1

\* Text in the clear is itself when read as text.
LEMMA ClearShape ==
    ASSUME NEW data \in Seq(Toks)
    PROVE  /\ Clear(data) \in Seq(Items) /\ Cleared(Clear(data)) /\ Text(Clear(data)) = data
           /\ Len(Clear(data)) = Len(data)
  <1>1. PICK n, c : n = Len(data) /\ c = Clear(data)
    OBVIOUS
  <1>2. n \in Nat /\ DOMAIN data = 1 .. n /\ \A i \in 1 .. n : data[i] \in Toks
    BY <1>1
  <1>3. ASSUME NEW t \in Toks
        PROVE  [frame |-> Frame(0, 0, <<t>>), half |-> 0] \in Items
    BY DEF Items, ItemSet, FrameSet, Frame
  <1>4. /\ c \in Seq(Items) /\ Len(c) = n
        /\ \A i \in 1 .. n : c[i] = [frame |-> Frame(0, 0, <<data[i]>>), half |-> 0]
    <2>1. c = [i \in 1 .. n |-> [frame |-> Frame(0, 0, <<data[i]>>), half |-> 0]]
      BY <1>1, <1>2 DEF Clear
    <2>2. \A i \in 1 .. n : [frame |-> Frame(0, 0, <<data[i]>>), half |-> 0] \in Items
      BY <1>2, <1>3
    <2> QED
      BY <1>2, <2>1, <2>2
  <1>5. \A i \in 1 .. n : /\ c[i].half = 0 /\ Len(c[i].frame.plain) = 1
                          /\ c[i].frame.plain[1] = data[i]
    <2> SUFFICES ASSUME NEW i \in 1 .. n
                 PROVE  /\ c[i].half = 0 /\ Len(c[i].frame.plain) = 1
                        /\ c[i].frame.plain[1] = data[i]
      OBVIOUS
    <2>1. c[i].half = 0 /\ c[i].frame = Frame(0, 0, <<data[i]>>)
      BY <1>4
    <2>2. c[i].frame.plain = <<data[i]>>
      BY <2>1 DEF Frame
    <2> QED
      BY <2>1, <2>2
  <1>6. Cleared(c)
    BY <1>4, <1>5 DEF Cleared
  <1>7. Text(c) = data
    <2>1. DOMAIN c = 1 .. n
      BY <1>4
    <2>2. Text(c) = [i \in 1 .. n |-> IF c[i].half = 0 THEN c[i].frame.plain[1] ELSE Token("junk", 0, 0)]
      BY <2>1 DEF Text
    <2>3. Text(c) = [i \in 1 .. n |-> data[i]]
      BY <1>5, <2>2
    <2>4. data = [i \in 1 .. n |-> data[i]]
      BY <1>2
    <2> QED
      BY <2>3, <2>4
  <1> QED
    BY <1>1, <1>4, <1>6, <1>7

\* Items read as text are as many tokens; the halves of frames read as junk.
LEMMA TextType ==
    ASSUME NEW C \in Seq(Items), \A i \in 1 .. Len(C) : C[i].half = 0 => Len(C[i].frame.plain) = 1
    PROVE  /\ Text(C) \in Seq(Toks) /\ Len(Text(C)) = Len(C)
           /\ \A i \in 1 .. Len(C) :
                 Text(C)[i] = IF C[i].half = 0 THEN C[i].frame.plain[1] ELSE Token("junk", 0, 0)
  <1>1. Len(C) \in Nat /\ DOMAIN C = 1 .. Len(C) /\ \A i \in 1 .. Len(C) : C[i] \in Items
    BY LenProperties, ElementOfSeq
  <1>2. Token("junk", 0, 0) \in Toks
    BY DEF Token, Toks, Kinds
  <1>3. ASSUME NEW i \in 1 .. Len(C)
        PROVE  (IF C[i].half = 0 THEN C[i].frame.plain[1] ELSE Token("junk", 0, 0)) \in Toks
    <2>1. CASE C[i].half = 0
      <3>1. C[i] \in Items /\ Len(C[i].frame.plain) = 1
        BY <1>1, <2>1
      <3>2. PICK p : p = C[i].frame.plain
        OBVIOUS
      <3>3. p \in Seq(Toks) /\ Len(p) = 1
        BY <3>1, <3>2 DEF Items, ItemSet, FrameSet
      <3>4. p[1] \in Toks
        <4>1. 1 \in 1 .. Len(p)
          BY <3>3
        <4> QED
          BY <3>3, <4>1, ElementOfSeq
      <3> QED
        BY <2>1, <3>2, <3>4
    <2>2. CASE C[i].half # 0
      BY <1>2, <2>2
    <2> QED
      BY <2>1, <2>2
  <1>4. Text(C) = [i \in 1 .. Len(C) |-> IF C[i].half = 0 THEN C[i].frame.plain[1] ELSE Token("junk", 0, 0)]
    BY <1>1 DEF Text
  <1>5. PICK n, t : n = Len(C) /\ t = Text(C)
    OBVIOUS
  <1> DEFINE e(i) == IF C[i].half = 0 THEN C[i].frame.plain[1] ELSE Token("junk", 0, 0)
  <1>6. t = [i \in 1 .. n |-> e(i)] /\ n \in Nat /\ \A i \in 1 .. n : e(i) \in Toks
    BY <1>1, <1>3, <1>4, <1>5
  <1>7. t \in Seq(Toks) /\ Len(t) = n /\ \A i \in 1 .. n : t[i] = e(i)
    <2> HIDE DEF e
    <2> QED
      BY <1>6
  <1> QED
    BY <1>5, <1>7

\* Text behind text.
LEMMA TextConcat ==
    ASSUME NEW C \in Seq(Items), NEW D \in Seq(Items),
           \A i \in 1 .. Len(C) : C[i].half = 0 => Len(C[i].frame.plain) = 1,
           \A i \in 1 .. Len(D) : D[i].half = 0 => Len(D[i].frame.plain) = 1
    PROVE  Text(C \o D) = Text(C) \o Text(D)
  <1>1. PICK s, a, b : s = C \o D /\ a = Text(C) /\ b = Text(D)
    OBVIOUS
  <1>2. /\ s \in Seq(Items) /\ Len(s) = Len(C) + Len(D) /\ Len(C) \in Nat /\ Len(D) \in Nat
        /\ \A i \in 1 .. Len(C) : s[i] = C[i]
        /\ \A i \in Len(C) + 1 .. Len(C) + Len(D) : s[i] = D[i - Len(C)]
    BY <1>1, Concatenation
  <1> DEFINE e(x) == IF x.half = 0 THEN x.frame.plain[1] ELSE Token("junk", 0, 0)
  <1>3. a \in Seq(Toks) /\ Len(a) = Len(C) /\ \A i \in 1 .. Len(C) : a[i] = e(C[i])
    BY <1>1, TextType
  <1>4. b \in Seq(Toks) /\ Len(b) = Len(D) /\ \A i \in 1 .. Len(D) : b[i] = e(D[i])
    BY <1>1, TextType
  <1>5. \A i \in 1 .. Len(s) : s[i].half = 0 => Len(s[i].frame.plain) = 1
    <2> SUFFICES ASSUME NEW i \in 1 .. Len(s), s[i].half = 0 PROVE Len(s[i].frame.plain) = 1
      OBVIOUS
    <2>1. CASE i <= Len(C)
      <3>1. i \in 1 .. Len(C)
        BY <1>2, <2>1
      <3>2. s[i] = C[i]
        BY <1>2, <3>1
      <3> QED
        BY <3>1, <3>2
    <2>2. CASE i > Len(C)
      <3>1. i \in Len(C) + 1 .. Len(C) + Len(D) /\ i - Len(C) \in 1 .. Len(D)
        BY <1>2, <2>2
      <3>2. s[i] = D[i - Len(C)]
        BY <1>2, <3>1
      <3> QED
        BY <3>1, <3>2
    <2>3. i <= Len(C) \/ i > Len(C)
      BY <1>2
    <2> QED
      BY <2>1, <2>2, <2>3
  <1>6. PICK t : t = Text(s)
    OBVIOUS
  <1>7. t \in Seq(Toks) /\ Len(t) = Len(s) /\ \A i \in 1 .. Len(s) : t[i] = e(s[i])
    BY <1>2, <1>5, <1>6, TextType
  <1> HIDE DEF e
  <1>8. /\ a \o b \in Seq(Toks) /\ Len(a \o b) = Len(a) + Len(b)
        /\ \A i \in 1 .. Len(a) : (a \o b)[i] = a[i]
        /\ \A i \in Len(a) + 1 .. Len(a) + Len(b) : (a \o b)[i] = b[i - Len(a)]
    <2>1. PICK V : V = Toks
      OBVIOUS
    <2>2. a \in Seq(V) /\ b \in Seq(V)
      BY <1>3, <1>4, <2>1
    <2> HIDE <2>1
    <2>3. /\ a \o b \in Seq(V) /\ Len(a \o b) = Len(a) + Len(b)
          /\ \A i \in 1 .. Len(a) : (a \o b)[i] = a[i]
          /\ \A i \in Len(a) + 1 .. Len(a) + Len(b) : (a \o b)[i] = b[i - Len(a)]
      BY ONLY <2>2, Concatenation
    <2> QED
      BY <2>1, <2>3
  <1>9. Len(t) = Len(a \o b)
    BY <1>2, <1>3, <1>4, <1>7, <1>8
  <1>10. ASSUME NEW i \in 1 .. Len(t) PROVE t[i] = (a \o b)[i]
    <2>0. t[i] = e(s[i])
      BY <1>7
    <2>1. CASE i <= Len(C)
      <3>1. i \in 1 .. Len(C)
        BY <1>2, <1>7, <2>1
      <3>2. s[i] = C[i] /\ a[i] = e(C[i])
        BY <1>2, <1>3, <3>1
      <3>3. (a \o b)[i] = a[i]
        BY <1>3, <1>8, <3>1
      <3> QED
        BY <2>0, <3>2, <3>3
    <2>2. CASE i > Len(C)
      <3>1. i \in Len(C) + 1 .. Len(C) + Len(D) /\ i - Len(C) \in 1 .. Len(D)
        BY <1>2, <1>7, <2>2
      <3>2. s[i] = D[i - Len(C)] /\ b[i - Len(C)] = e(D[i - Len(C)])
        BY <1>2, <1>4, <3>1
      <3>3. (a \o b)[i] = b[i - Len(a)]
        BY <1>3, <1>4, <1>8, <3>1
      <3> QED
        BY <1>3, <2>0, <3>2, <3>3
    <2>3. i <= Len(C) \/ i > Len(C)
      BY <1>2, <1>7
    <2> QED
      BY <2>1, <2>2, <2>3
  <1>11. t = a \o b
    BY <1>7, <1>8, <1>9, <1>10, SeqEqual
  <1> QED
    BY <1>1, <1>6, <1>11

\* Ciphertext taken for text is junk.
LEMMA TextJunk ==
    ASSUME NEW D \in Seq(Items), \A i \in 1 .. Len(D) : D[i].half # 0
    PROVE  Text(D) \in Seq(Toks) /\ Junk(Text(D)) /\ Len(Text(D)) = Len(D)
  <1>1. /\ Text(D) \in Seq(Toks) /\ Len(Text(D)) = Len(D)
        /\ \A i \in 1 .. Len(D) :
              Text(D)[i] = IF D[i].half = 0 THEN D[i].frame.plain[1] ELSE Token("junk", 0, 0)
    BY TextType
  <1>2. \A i \in 1 .. Len(D) : Text(D)[i].kind = "junk"
    BY <1>1 DEF Token
  <1> QED
    BY <1>1, <1>2 DEF Junk

\* Whole messages, with the replies after a up to b; ends: a reply is the last.
Msgs(P, a, b, ends) ==
    \E M \in Seq(HeadSet) : /\ P = Whole(M) /\ Numbers(M, a, b)
                            /\ ends => M = <<>> \/ M[Len(M)].kind = "reply"

\* No text, no messages.
LEMMA MsgsNone ==
    ASSUME NEW a \in Nat, NEW ends
    PROVE  Msgs(<<>>, a, a, ends)
  <1>1. PICK V : V = HeadSet
    OBVIOUS
  <1>2. <<>> \in Seq(V)
    OBVIOUS
  <1>3. PICK M : M = <<>>
    OBVIOUS
  <1>4. M \in Seq(HeadSet) /\ <<>> = Whole(M) /\ Numbers(M, a, a)
    BY <1>1, <1>2, <1>3, WholeEmpty, NumbersEmpty
  <1> QED
    BY <1>3, <1>4 DEF Msgs

\* The receiver appends a message.
LEMMA MsgsAppend ==
    ASSUME NEW P, NEW a \in Nat, NEW b \in Nat, NEW ends, Msgs(P, a, b, ends), NEW t \in HeadSet,
           t.kind = "reply" => t.n = b + 1, NEW e, e => t.kind = "reply"
    PROVE  Msgs(P \o Message(t.kind, t.n, t.len), a, b + Step(t), e)
  <1>1. PICK M \in Seq(HeadSet) : P = Whole(M) /\ Numbers(M, a, b)
    BY DEF Msgs
  <1>2. PICK N, o : N = Append(M, t) /\ o = <<t>>
    OBVIOUS
  <1>3. N \in Seq(HeadSet) /\ Len(N) = Len(M) + 1 /\ N[Len(N)] = t /\ N = M \o o /\ o \in Seq(HeadSet)
    <2>1. PICK V : V = HeadSet
      OBVIOUS
    <2>2. M \in Seq(V) /\ t \in V
      BY <1>1, <2>1
    <2>3. N \in Seq(V) /\ Len(N) = Len(M) + 1 /\ N[Len(M) + 1] = t
      BY <1>2, <2>2, AppendProperties
    <2>4. N = M \o o
      BY <1>2, <2>2, AppendIsConcat
    <2>5. o \in Seq(V)
      BY <1>2, <2>2
    <2> QED
      BY <2>1, <2>3, <2>4, <2>5
  <1>4. Whole(N) = Whole(M) \o Whole(o)
    BY <1>1, <1>3, WholeConcat
  <1>5. Whole(o) = Message(t.kind, t.n, t.len)
    BY <1>2, WholeOne
  <1>6. Numbers(N, a, b + Step(t))
    BY <1>1, <1>2, NumbersAppend
  <1>7. P \o Message(t.kind, t.n, t.len) = Whole(N)
    BY <1>1, <1>4, <1>5
  <1>8. e => N[Len(N)].kind = "reply"
    BY <1>3
  <1> QED
    BY <1>3, <1>6, <1>7, <1>8 DEF Msgs

\* Replies are counted upwards.
LEMMA MsgsBound ==
    ASSUME NEW P, NEW a \in Nat, NEW b \in Nat, NEW ends, Msgs(P, a, b, ends)
    PROVE  a <= b /\ P \in Seq(Toks)
  <1>1. PICK M \in Seq(HeadSet) : P = Whole(M) /\ Numbers(M, a, b)
    BY DEF Msgs
  <1> QED
    BY <1>1, NumbersBound, TextsType

\* With the last reply of the text handled there is no text.
LEMMA MsgsOver ==
    ASSUME NEW P, NEW a \in Nat, Msgs(P, a, a, TRUE)
    PROVE  P = <<>>
  <1>1. PICK M \in Seq(HeadSet) : /\ P = Whole(M) /\ Numbers(M, a, a)
                                  /\ M = <<>> \/ M[Len(M)].kind = "reply"
    BY DEF Msgs
  <1>2. M = <<>>
    BY <1>1, NumbersLast
  <1> QED
    BY <1>1, <1>2, WholeEmpty

\* Request n on the wire: in frames of this key from counter c, up to d, or in the clear.
RequestAt(I, n, c, d, key) ==
    IF Switched(n - 1) THEN Framed(I, key, c) /\ Intact(I) /\ d = c + Complete(I)
    ELSE d = c /\ \A m \in 1 .. Len(I) : I[m].half = 0

\* The counters at which the requests q begin and end.
Offsets(off, q, read, c, d, key) ==
    /\ off \in [0 .. Len(q) -> Nat] /\ off[0] = c /\ off[Len(q)] = d
    /\ \A i \in 1 .. Len(q) : RequestAt(q[i], read + i, off[i - 1], off[i], key)

\* The requests q after the first read ones, under the counters from c up to d.
Sent(q, read, c, d, key) == \E off : Offsets(off, q, read, c, d, key)

\* Nothing on its way.
LEMMA SentNone ==
    ASSUME NEW read, NEW c \in Nat, NEW key
    PROVE  Sent(<<>>, read, c, c, key)
  <1>1. Len(<<>>) = 0 /\ 1 .. 0 = {} /\ 0 .. 0 = {0}
    OBVIOUS
  <1>2. Offsets([i \in 0 .. 0 |-> c], <<>>, read, c, c, key)
    BY <1>1 DEF Offsets
  <1> QED
    BY <1>2 DEF Sent

\* A request written begins under the counter the one before it ended with.
LEMMA SentAppend ==
    ASSUME NEW q \in Seq(Seq(Items)), NEW read \in Nat, NEW c \in Nat, NEW d \in Nat, NEW key,
           Sent(q, read, c, d, key), NEW I \in Seq(Items), NEW e \in Nat,
           RequestAt(I, read + Len(q) + 1, d, e, key)
    PROVE  Sent(Append(q, I), read, c, e, key)
  <1>1. PICK off : Offsets(off, q, read, c, d, key)
    BY DEF Sent
  <1>2. PICK n, p : n = Len(q) /\ p = Append(q, I)
    OBVIOUS
  <1>3. n \in Nat /\ Len(p) = n + 1 /\ p[n + 1] = I /\ \A i \in 1 .. n : p[i] = q[i]
    BY <1>2
  <1>4. /\ off \in [0 .. n -> Nat] /\ off[0] = c /\ off[n] = d
        /\ \A i \in 1 .. n : RequestAt(q[i], read + i, off[i - 1], off[i], key)
    BY <1>1, <1>2 DEF Offsets
  <1> DEFINE g == [i \in 0 .. n + 1 |-> IF i = n + 1 THEN e ELSE off[i]]
  <1>5. /\ g \in [0 .. n + 1 -> Nat] /\ g[n + 1] = e /\ \A i \in 0 .. n : g[i] = off[i]
    BY <1>3, <1>4
  <1> HIDE DEF g
  <1>6. g[0] = c
    <2>1. 0 \in 0 .. n
      BY <1>3
    <2> QED
      BY <1>4, <1>5, <2>1
  <1>7. ASSUME NEW i \in 1 .. n + 1 PROVE RequestAt(p[i], read + i, g[i - 1], g[i], key)
    <2>1. CASE i = n + 1
      <3>1. i - 1 = n /\ n \in 0 .. n /\ read + i = (read + n) + 1
        <4>1. n \in Nat /\ read \in Nat /\ i = n + 1
          BY <1>3, <2>1
        <4> QED
          BY ONLY <4>1
      <3>2. g[i - 1] = d /\ g[i] = e /\ p[i] = I
        BY <1>3, <1>4, <1>5, <2>1, <3>1
      <3>3. RequestAt(I, (read + n) + 1, d, e, key)
        BY <1>2
      <3> QED
        BY <3>1, <3>2, <3>3
    <2>2. CASE i # n + 1
      <3>1. i \in 1 .. n /\ i \in 0 .. n /\ i - 1 \in 0 .. n
        BY <1>3, <2>2
      <3>2. g[i - 1] = off[i - 1] /\ g[i] = off[i] /\ p[i] = q[i]
        BY <1>3, <1>5, <3>1
      <3> QED
        BY <1>4, <3>1, <3>2
    <2> QED
      BY <2>1, <2>2
  <1>8. Offsets(g, p, read, c, e, key)
    BY <1>3, <1>5, <1>6, <1>7 DEF Offsets
  <1> QED
    BY <1>2, <1>8 DEF Sent

\* The receiver takes the first request.
LEMMA SentTail ==
    ASSUME NEW q \in Seq(Seq(Items)), q # <<>>, NEW read \in Nat, NEW c \in Nat, NEW d \in Nat,
           NEW key, Sent(q, read, c, d, key)
    PROVE  \E e \in Nat : /\ RequestAt(Head(q), read + 1, c, e, key)
                          /\ Sent(Tail(q), read + 1, e, d, key)
  <1>1. PICK off : Offsets(off, q, read, c, d, key)
    BY DEF Sent
  <1>2. PICK n, p : n = Len(q) /\ p = Tail(q)
    OBVIOUS
  <1>3. n \in Nat \ {0} /\ Head(q) = q[1]
    BY <1>2
  <1>4. Len(p) = n - 1 /\ \A i \in 1 .. n - 1 : p[i] = q[i + 1]
    <2>1. PICK V : V = Seq(Items)
      OBVIOUS
    <2>2. q \in Seq(V)
      BY <2>1
    <2>3. Len(p) = Len(q) - 1 /\ \A i \in 1 .. Len(p) : p[i] = q[i + 1]
      BY <1>2, <2>2, HeadTailProperties
    <2> QED
      BY <1>2, <2>3
  <1>5. /\ off \in [0 .. n -> Nat] /\ off[0] = c /\ off[n] = d
        /\ \A i \in 1 .. n : RequestAt(q[i], read + i, off[i - 1], off[i], key)
    BY <1>1, <1>2 DEF Offsets
  <1>6. off[1] \in Nat /\ RequestAt(q[1], read + 1, c, off[1], key)
    <2>1. 1 \in 1 .. n /\ 1 - 1 = 0 /\ 1 \in 0 .. n
      BY <1>3
    <2>2. RequestAt(q[1], read + 1, off[1 - 1], off[1], key)
      BY <1>5, <2>1
    <2> QED
      BY <1>5, <2>1, <2>2
  <1> DEFINE g == [i \in 0 .. n - 1 |-> off[i + 1]]
  <1>7. g \in [0 .. n - 1 -> Nat] /\ \A i \in 0 .. n - 1 : g[i] = off[i + 1]
    BY <1>3, <1>5
  <1> HIDE DEF g
  <1>8. g[0] = off[1] /\ g[n - 1] = d
    <2>1. 0 \in 0 .. n - 1 /\ n - 1 \in 0 .. n - 1 /\ (n - 1) + 1 = n /\ 0 + 1 = 1
      BY <1>3
    <2>2. g[0] = off[0 + 1] /\ g[n - 1] = off[(n - 1) + 1]
      BY <1>7, <2>1
    <2> QED
      BY <1>5, <2>1, <2>2
  <1>9. ASSUME NEW i \in 1 .. n - 1 PROVE RequestAt(p[i], (read + 1) + i, g[i - 1], g[i], key)
    <2>1. /\ i \in 0 .. n - 1 /\ i - 1 \in 0 .. n - 1 /\ (i - 1) + 1 = i /\ i + 1 \in 1 .. n
          /\ (i + 1) - 1 = i /\ (read + 1) + i = read + (i + 1)
      BY <1>3
    <2>2. g[i] = off[i + 1] /\ g[i - 1] = off[i] /\ p[i] = q[i + 1]
      <3>1. g[i - 1] = off[(i - 1) + 1]
        BY <1>7, <2>1
      <3> QED
        BY <1>4, <1>7, <2>1, <3>1
    <2>3. RequestAt(q[i + 1], read + (i + 1), off[(i + 1) - 1], off[i + 1], key)
      BY <1>5, <2>1
    <2> QED
      BY <2>1, <2>2, <2>3
  <1>10. Offsets(g, p, read + 1, off[1], d, key)
    BY <1>4, <1>7, <1>8, <1>9 DEF Offsets
  <1> QED
    BY <1>2, <1>3, <1>6, <1>10 DEF Sent

\* Where every frame opens, all are opened.
LEMMA OpenedAll ==
    ASSUME NEW I \in Seq(Items), NEW key, NEW c \in Nat,
           \A j \in 1 .. Complete(I) : Opens(FrameAt(I, j), key, c + j - 1)
    PROVE  Opened(I, key, c) = Complete(I)
  <1>1. PICK m : m = Complete(I)
    OBVIOUS
  <1>2. m \in Nat
    BY <1>1, CompleteHalf DEF Items
  <1> DEFINE S == {n \in 0 .. Complete(I) : \A j \in 1 .. n : Opens(FrameAt(I, j), key, c + j - 1)}
  <1>3. m \in S /\ \A n \in S : n \in Nat /\ n <= m
    BY <1>1, <1>2
  <1>4. Opened(I, key, c) = Max(S)
    BY DEF Opened
  <1> HIDE DEF S
  <1>5. Max(S) = m
    <2>1. Max(S) = CHOOSE x \in S : \A y \in S : x >= y
      BY DEF Max
    <2>2. \A y \in S : m >= y
      BY <1>2, <1>3
    <2>3. PICK x : x = Max(S)
      OBVIOUS
    <2>4. x \in S /\ \A y \in S : x >= y
      BY <1>3, <2>1, <2>2, <2>3
    <2>5. x \in Nat /\ x <= m /\ x >= m
      BY <1>3, <2>4
    <2> QED
      BY <1>2, <2>3, <2>5
  <1> QED
    BY <1>1, <1>4, <1>5

\* Where the first does not open, none is.
LEMMA OpenedNone ==
    ASSUME NEW I \in Seq(Items), NEW key, NEW c \in Nat, Complete(I) > 0,
           ~Opens(FrameAt(I, 1), key, c)
    PROVE  Opened(I, key, c) = 0
  <1>1. Complete(I) \in Nat
    BY CompleteHalf DEF Items
  <1> DEFINE S == {n \in 0 .. Complete(I) : \A j \in 1 .. n : Opens(FrameAt(I, j), key, c + j - 1)}
  <1>2. 0 \in S
    BY <1>1
  <1>3. ASSUME NEW n \in S PROVE n = 0
    <2> SUFFICES ASSUME n # 0 PROVE FALSE
      OBVIOUS
    <2>1. 1 \in 1 .. n /\ c + 1 - 1 = c
      BY <1>1
    <2>2. Opens(FrameAt(I, 1), key, c + 1 - 1)
      BY <2>1
    <2> QED
      BY <2>1, <2>2
  <1>4. Opened(I, key, c) = Max(S)
    BY DEF Opened
  <1> HIDE DEF S
  <1>5. Max(S) = 0
    BY <1>2, <1>3 DEF Max
  <1> QED
    BY <1>4, <1>5

----------------------------------------------------------------------------
(* The three situations of the connection to the sender. *)

\* The two ends.
SndSet == [enc : BOOLEAN, sendCtr : Nat, recvCtr : Nat, encBuf : Seq(Items),
           rxBuf : Seq(Toks), pending : Seq(Nat)]
RcvSet == [enc : BOOLEAN, sendCtr : Nat, recvCtr : Nat, read : Nat, replied : Nat,
           pushes : Nat, early : BOOLEAN, inStep : BOOLEAN]

\* Between receiver y and sender x, with w on its way, h replies handled and
\* d frames damaged.  Before the sender has switched: text C, then I, what
\* the receiver has already sealed (a request it pushed right after its last
\* pairing reply).
ClearAt(x, y, w, h, key, d, C, I) ==
    /\ ~x.enc /\ x.encBuf = <<>>
    /\ C \in Seq(Items) /\ I \in Seq(Items) /\ w = C \o I
    /\ Cleared(C) /\ Framed(I, key, 0) /\ (d = 0 => Intact(I))
    /\ y.sendCtr = Complete(I) /\ (~y.enc => I = <<>>) /\ (I # <<>> => y.early)
    /\ Msgs(x.rxBuf \o Text(C), h, y.replied, y.enc)
    /\ Msgs(All(I), y.replied, y.replied, FALSE)

InClear(x, y, w, h, key, d) == \E C, I : ClearAt(x, y, w, h, key, d, C, I)

\* After it has: frames under the receiver's key and the counters both expect.
SealedBy(x, y, w, h, key, d, I) ==
    /\ x.enc /\ I = x.encBuf \o w /\ I \in Seq(Items)
    /\ Framed(I, key, x.recvCtr) /\ (d = 0 => Intact(I))
    /\ y.sendCtr = x.recvCtr + Complete(I)
    /\ Msgs(x.rxBuf \o All(I), h, y.replied, FALSE)

Sealed(x, y, w, h, key, d) == \E I : SealedBy(x, y, w, h, key, d, I)

\* Not the first frame.
Late(I) == I # <<>> /\ I[1].half = 1 => I[1].frame.ctr # 0

\* A request pushed too early was taken for text: the next frame will not open.
Spoiled(x, y, w) ==
    /\ x.enc /\ y.early /\ x.recvCtr = 0 /\ y.sendCtr > 0 /\ Junk(x.rxBuf)
    /\ Late(x.encBuf \o w)

\* The connection is in one of three situations.
Situation(x, y, w, h, key, d) ==
    InClear(x, y, w, h, key, d) \/ Sealed(x, y, w, h, key, d) \/ Spoiled(x, y, w)

\* The situation depends on these fields only.
LEMMA SituationStays ==
    ASSUME NEW x, NEW y, NEW w, NEW h, NEW key, NEW d, Situation(x, y, w, h, key, d),
           NEW a, NEW b, a.enc = x.enc, a.encBuf = x.encBuf, a.rxBuf = x.rxBuf,
           a.recvCtr = x.recvCtr, b.enc = y.enc, b.sendCtr = y.sendCtr, b.early = y.early,
           b.replied = y.replied
    PROVE  Situation(a, b, w, h, key, d)
  <1>1. CASE InClear(x, y, w, h, key, d)
    <2>1. PICK C, I : ClearAt(x, y, w, h, key, d, C, I)
      BY <1>1 DEF InClear
    <2>2. ClearAt(a, b, w, h, key, d, C, I)
      BY <2>1, Zenon DEF ClearAt
    <2> QED
      BY <2>2 DEF InClear, Situation
  <1>2. CASE Sealed(x, y, w, h, key, d)
    <2>1. PICK I : SealedBy(x, y, w, h, key, d, I)
      BY <1>2 DEF Sealed
    <2>2. SealedBy(a, b, w, h, key, d, I)
      BY <2>1, Zenon DEF SealedBy
    <2> QED
      BY <2>2 DEF Sealed, Situation
  <1>3. CASE Spoiled(x, y, w)
    <2>1. Spoiled(a, b, w)
      BY <1>3, Zenon DEF Spoiled
    <2> QED
      BY <2>1 DEF Situation
  <1> QED
    BY <1>1, <1>2, <1>3 DEF Situation

\* Concatenation is associative, here for items.
LEMMA ItemsAssoc ==
    ASSUME NEW a \in Seq(Items), NEW b \in Seq(Items), NEW c \in Seq(Items)
    PROVE  (a \o b) \o c = a \o (b \o c) /\ a \o b \in Seq(Items) /\ b \o c \in Seq(Items)
  <1>1. PICK V : V = Items
    OBVIOUS
  <1>2. a \in Seq(V) /\ b \in Seq(V) /\ c \in Seq(V)
    BY <1>1
  <1>3. (a \o b) \o c = a \o (b \o c) /\ a \o b \in Seq(V) /\ b \o c \in Seq(V)
    BY ONLY <1>2
  <1> QED
    BY <1>1, <1>3

\* And here for text.
LEMMA TextAssoc ==
    ASSUME NEW a \in Seq(Toks), NEW b \in Seq(Toks), NEW c \in Seq(Toks)
    PROVE  (a \o b) \o c = a \o (b \o c) /\ a \o b \in Seq(Toks) /\ b \o c \in Seq(Toks)
  <1>1. PICK V : V = Toks
    OBVIOUS
  <1>2. a \in Seq(V) /\ b \in Seq(V) /\ c \in Seq(V)
    BY <1>1
  <1>3. (a \o b) \o c = a \o (b \o c) /\ a \o b \in Seq(V) /\ b \o c \in Seq(V)
    BY ONLY <1>2
  <1> QED
    BY <1>1, <1>3

\* Nothing is neutral.
LEMMA ConcatNone ==
    ASSUME NEW V, NEW a \in Seq(V)
    PROVE  a \o <<>> = a /\ <<>> \o a = a /\ <<>> \in Seq(V)
  OBVIOUS

\* Clear items satisfy what Text needs.
LEMMA ClearedText ==
    ASSUME NEW C \in Seq(Items), Cleared(C)
    PROVE  \A i \in 1 .. Len(C) : C[i].half = 0 => Len(C[i].frame.plain) = 1
  BY DEF Cleared

\* Clear items behind clear items.
LEMMA ClearedConcat ==
    ASSUME NEW C \in Seq(Items), Cleared(C), NEW D \in Seq(Items), Cleared(D)
    PROVE  C \o D \in Seq(Items) /\ Cleared(C \o D) /\ Text(C \o D) = Text(C) \o Text(D)
           /\ Text(C) \in Seq(Toks) /\ Text(D) \in Seq(Toks)
  <1>1. PICK s : s = C \o D
    OBVIOUS
  <1>2. /\ s \in Seq(Items) /\ Len(s) = Len(C) + Len(D) /\ Len(C) \in Nat /\ Len(D) \in Nat
        /\ \A i \in 1 .. Len(C) : s[i] = C[i]
        /\ \A i \in Len(C) + 1 .. Len(C) + Len(D) : s[i] = D[i - Len(C)]
    BY <1>1, Concatenation
  <1>3. ASSUME NEW i \in 1 .. Len(s) PROVE s[i].half = 0 /\ Len(s[i].frame.plain) = 1
    <2>1. CASE i <= Len(C)
      <3>1. i \in 1 .. Len(C)
        BY <1>2, <2>1
      <3>2. s[i] = C[i]
        BY <1>2, <3>1
      <3> QED
        BY <3>1, <3>2 DEF Cleared
    <2>2. CASE i > Len(C)
      <3>1. i \in Len(C) + 1 .. Len(C) + Len(D) /\ i - Len(C) \in 1 .. Len(D)
        BY <1>2, <2>2
      <3>2. s[i] = D[i - Len(C)]
        BY <1>2, <3>1
      <3> QED
        BY <3>1, <3>2 DEF Cleared
    <2>3. i <= Len(C) \/ i > Len(C)
      BY <1>2
    <2> QED
      BY <2>1, <2>2, <2>3
  <1>4. Cleared(s)
    BY <1>3 DEF Cleared
  <1>5. Text(C \o D) = Text(C) \o Text(D) /\ Text(C) \in Seq(Toks) /\ Text(D) \in Seq(Toks)
    BY ClearedText, TextConcat, TextType
  <1> QED
    BY <1>1, <1>2, <1>4, <1>5

\* What the receiver sends, in each situation: a message in the clear.
LEMMA SendsClear ==
    ASSUME NEW x \in SndSet, NEW y \in RcvSet, NEW z \in RcvSet, NEW w, NEW h \in Nat, NEW key,
           NEW d, InClear(x, y, w, h, key, d), ~y.enc, NEW t \in HeadSet,
           t.kind = "reply" => t.n = y.replied + 1, z.replied = y.replied + Step(t),
           z.enc => t.kind = "reply", z.sendCtr = y.sendCtr, NEW data,
           data = Message(t.kind, t.n, t.len)
    PROVE  InClear(x, z, w \o Clear(data), h, key, d)
  <1>1. PICK C, I : ClearAt(x, y, w, h, key, d, C, I)
    BY DEF InClear
  <1>2. /\ ~x.enc /\ x.encBuf = <<>>
        /\ C \in Seq(Items) /\ I \in Seq(Items) /\ w = C \o I
        /\ Cleared(C) /\ Framed(I, key, 0) /\ (d = 0 => Intact(I))
        /\ y.sendCtr = Complete(I) /\ I = <<>>
        /\ Msgs(x.rxBuf \o Text(C), h, y.replied, y.enc)
        /\ Msgs(All(I), y.replied, y.replied, FALSE)
    BY <1>1 DEF ClearAt
  <1>3. data \in Seq(Toks)
    BY MessageShape DEF HeadSet
  <1>4. PICK D : D = Clear(data)
    OBVIOUS
  <1>5. D \in Seq(Items) /\ Cleared(D) /\ Text(D) = data
    BY <1>3, <1>4, ClearShape
  <1>6. /\ C \o D \in Seq(Items) /\ Cleared(C \o D) /\ Text(C \o D) = Text(C) \o data
        /\ Text(C) \in Seq(Toks)
    <2>1. /\ C \o D \in Seq(Items) /\ Cleared(C \o D) /\ Text(C \o D) = Text(C) \o Text(D)
          /\ Text(C) \in Seq(Toks)
      BY <1>2, <1>5, ClearedConcat, Zenon
    <2> QED
      BY <1>5, <2>1
  <1>7. x.rxBuf \in Seq(Toks) /\ y.replied \in Nat /\ z.replied \in Nat /\ z.enc \in BOOLEAN
    BY DEF SndSet, RcvSet
  <1>8. x.rxBuf \o Text(C \o D) = (x.rxBuf \o Text(C)) \o data
    <2>1. x.rxBuf \o (Text(C) \o data) = (x.rxBuf \o Text(C)) \o data
      <3>1. x.rxBuf \in Seq(Toks) /\ Text(C) \in Seq(Toks) /\ data \in Seq(Toks)
        BY <1>3, <1>6, <1>7
      <3> QED
        BY ONLY <3>1, TextAssoc, ZenonT(60)
    <2> QED
      BY <1>6, <2>1
  <1>9. Msgs((x.rxBuf \o Text(C)) \o data, h, z.replied, z.enc)
    BY <1>2, <1>7, MsgsAppend
  <1>10. w \o D = (C \o D) \o I
    <2>1. w = C /\ (C \o D) \o <<>> = C \o D
      BY <1>2, <1>6, ConcatNone
    <2> QED
      BY <1>2, <2>1
  <1>11. Msgs(All(I), z.replied, z.replied, FALSE)
    <2>1. All(I) = <<>>
      <3>1. Complete(<<>>) = 0
        BY DEF Complete
      <3>2. Payload(<<>>, 0) = <<>> /\ Plain(<<>>, 0) = FlattenSeq(Payload(<<>>, 0))
        BY DEF Payload, Plain
      <3> QED
        BY <1>2, <3>1, <3>2, FlattenEmpty DEF All
    <2> QED
      BY <1>7, <2>1, MsgsNone
  <1>12. ClearAt(x, z, w \o D, h, key, d, C \o D, I)
    BY <1>2, <1>6, <1>8, <1>9, <1>10, <1>11 DEF ClearAt
  <1> QED
    BY <1>4, <1>12 DEF InClear

\* A batch of frames, from counter c, that carries data.
Batch(W, key, c, data) ==
    /\ W \in Seq(Items) /\ Framed(W, key, c) /\ Complete(W) > 0 /\ All(W) = data

\* A request pushed, sealed, before the sender has switched.
LEMMA SendsEarly ==
    ASSUME NEW x \in SndSet, NEW y \in RcvSet, NEW z \in RcvSet, NEW w, NEW h \in Nat, NEW key,
           NEW d, InClear(x, y, w, h, key, d), y.enc, NEW t \in HeadSet, t.kind = "push",
           z.replied = y.replied, z.enc, z.early, NEW data, data = Message(t.kind, t.n, t.len),
           NEW W, Batch(W, key, y.sendCtr, data), Intact(W),
           z.sendCtr = y.sendCtr + Complete(W)
    PROVE  InClear(x, z, w \o W, h, key, d)
  <1>1. PICK C, I : ClearAt(x, y, w, h, key, d, C, I)
    BY DEF InClear
  <1>2. /\ ~x.enc /\ x.encBuf = <<>>
        /\ C \in Seq(Items) /\ I \in Seq(Items) /\ w = C \o I
        /\ Cleared(C) /\ Framed(I, key, 0) /\ (d = 0 => Intact(I))
        /\ y.sendCtr = Complete(I)
        /\ Msgs(x.rxBuf \o Text(C), h, y.replied, y.enc)
        /\ Msgs(All(I), y.replied, y.replied, FALSE)
    BY <1>1 DEF ClearAt
  <1>3. W \in Seq(Items) /\ Framed(W, key, y.sendCtr) /\ All(W) = data
    BY DEF Batch
  <1>4. Complete(I) \in Nat /\ y.replied \in Nat
    BY <1>2, CompleteHalf DEF Items, RcvSet
  <1>5. /\ Framed(I \o W, key, 0) /\ Complete(I \o W) = Complete(I) + Complete(W)
        /\ (d = 0 => Intact(I \o W)) /\ All(I \o W) = All(I) \o All(W)
    <2>1. Framed(W, key, 0 + Complete(I))
      BY <1>2, <1>3, <1>4
    <2>2. /\ Framed(I \o W, key, 0) /\ Complete(I \o W) = Complete(I) + Complete(W)
          /\ Intact(I) /\ Intact(W) => Intact(I \o W)
          /\ All(I \o W) = All(I) \o All(W)
      BY <1>2, <1>3, <2>1, FramedConcat DEF Items
    <2> QED
      BY <1>2, <2>2
  <1>6. Msgs(All(I) \o data, y.replied, y.replied, FALSE)
    <2>1. Step(t) = 0 /\ y.replied + 0 = y.replied
      BY <1>4 DEF Step
    <2>2. Msgs(All(I) \o Message(t.kind, t.n, t.len), y.replied, y.replied + Step(t), FALSE)
      <3>1. (t.kind = "reply" => t.n = y.replied + 1) /\ (FALSE => t.kind = "reply")
        OBVIOUS
      <3> QED
        BY <1>2, <1>4, <3>1, MsgsAppend
    <2> QED
      BY <2>1, <2>2
  <1>7. w \o W = C \o (I \o W) /\ I \o W \in Seq(Items)
    <2>1. (C \o I) \o W = C \o (I \o W) /\ I \o W \in Seq(Items)
      BY <1>2, <1>3, ItemsAssoc
    <2> QED
      BY <1>2, <2>1
  <1>8. y.enc = TRUE /\ z.enc = TRUE
    BY DEF RcvSet
  <1>9. ClearAt(x, z, w \o W, h, key, d, C, I \o W)
    BY <1>2, <1>3, <1>5, <1>6, <1>7, <1>8 DEF ClearAt
  <1> QED
    BY <1>9 DEF InClear

\* A sealed message, damaged or not.
LEMMA SendsSealed ==
    ASSUME NEW x \in SndSet, NEW y \in RcvSet, NEW z \in RcvSet, NEW w \in Seq(Items),
           NEW h \in Nat, NEW key, NEW d, NEW g, Sealed(x, y, w, h, key, d), NEW t \in HeadSet,
           t.kind = "reply" => t.n = y.replied + 1, z.replied = y.replied + Step(t),
           NEW data, data = Message(t.kind, t.n, t.len),
           NEW W, Batch(W, key, y.sendCtr, data), g = 0 => d = 0 /\ Intact(W),
           z.sendCtr = y.sendCtr + Complete(W)
    PROVE  Sealed(x, z, w \o W, h, key, g)
  <1>1. PICK I : SealedBy(x, y, w, h, key, d, I)
    BY DEF Sealed
  <1>2. /\ x.enc /\ I = x.encBuf \o w /\ I \in Seq(Items)
        /\ Framed(I, key, x.recvCtr) /\ (d = 0 => Intact(I))
        /\ y.sendCtr = x.recvCtr + Complete(I)
        /\ Msgs(x.rxBuf \o All(I), h, y.replied, FALSE)
    BY <1>1 DEF SealedBy
  <1>3. W \in Seq(Items) /\ Framed(W, key, y.sendCtr) /\ All(W) = data
    BY DEF Batch
  <1>4. /\ Complete(I) \in Nat /\ Complete(W) \in Nat /\ y.replied \in Nat /\ x.recvCtr \in Nat
        /\ x.encBuf \in Seq(Items) /\ x.rxBuf \in Seq(Toks)
    BY <1>2, <1>3, CompleteHalf DEF Items, RcvSet, SndSet
  <1>5. /\ Framed(I \o W, key, x.recvCtr) /\ Complete(I \o W) = Complete(I) + Complete(W)
        /\ (g = 0 => Intact(I \o W)) /\ All(I \o W) = All(I) \o All(W)
    <2>1. Framed(W, key, x.recvCtr + Complete(I))
      BY <1>2, <1>3
    <2>2. /\ Framed(I \o W, key, x.recvCtr) /\ Complete(I \o W) = Complete(I) + Complete(W)
          /\ Intact(I) /\ Intact(W) => Intact(I \o W)
          /\ All(I \o W) = All(I) \o All(W)
      <3>1. I \in Seq(ItemSet(Toks)) /\ W \in Seq(ItemSet(Toks))
        BY <1>2, <1>3 DEF Items
      <3>2. x.recvCtr \in Nat /\ Framed(I, key, x.recvCtr) /\ Framed(W, key, x.recvCtr + Complete(I))
        BY <1>2, <1>4, <2>1
      <3> QED
        BY ONLY <3>1, <3>2, FramedConcat
    <2> QED
      BY <1>2, <2>2
  <1>6. All(I) \in Seq(Toks) /\ data \in Seq(Toks)
    <2>1. Plain(I, Complete(I)) \in Seq(Toks)
      <3>1. Complete(I) \in 0 .. Complete(I)
        BY <1>4
      <3> QED
        BY <1>2, <3>1, PlainType DEF Items
    <2> QED
      BY <2>1, MessageShape DEF All, HeadSet
  <1>7. Msgs(x.rxBuf \o All(I \o W), h, z.replied, FALSE)
    <2>1. Msgs((x.rxBuf \o All(I)) \o Message(t.kind, t.n, t.len), h, y.replied + Step(t), FALSE)
      BY <1>2, <1>4, MsgsAppend
    <2>2. x.rxBuf \o All(I \o W) = (x.rxBuf \o All(I)) \o data
      <3>1. x.rxBuf \o (All(I) \o data) = (x.rxBuf \o All(I)) \o data
        BY <1>4, <1>6, TextAssoc
      <3> QED
        BY <1>3, <1>5, <3>1
    <2> QED
      BY <2>1, <2>2
  <1>8. I \o W = x.encBuf \o (w \o W) /\ I \o W \in Seq(Items)
    <2>1. (x.encBuf \o w) \o W = x.encBuf \o (w \o W)
      BY <1>3, <1>4, ItemsAssoc, ZenonT(60)
    <2>2. I \o W \in Seq(Items)
      BY <1>2, <1>3, ItemsAssoc
    <2> QED
      BY <1>2, <2>1, <2>2
  <1>9. z.sendCtr = x.recvCtr + Complete(I \o W)
    BY <1>2, <1>4, <1>5
  <1>10. SealedBy(x, z, w \o W, h, key, g, I \o W)
    BY <1>2, <1>5, <1>7, <1>8, <1>9 DEF SealedBy
  <1> QED
    BY <1>10 DEF Sealed

\* A message after the sender has lost the stream: it makes no difference.
LEMMA SendsSpoiled ==
    ASSUME NEW x \in SndSet, NEW y \in RcvSet, NEW z \in RcvSet, NEW w \in Seq(Items),
           NEW key, Spoiled(x, y, w), NEW data, NEW W, Batch(W, key, y.sendCtr, data),
           z.early = y.early, z.sendCtr = y.sendCtr + Complete(W)
    PROVE  Spoiled(x, z, w \o W)
  <1>1. W \in Seq(Items) /\ Framed(W, key, y.sendCtr) /\ Complete(W) > 0
    BY DEF Batch
  <1>2. /\ Complete(W) \in Nat /\ 2 * Complete(W) <= Len(W) /\ y.sendCtr \in Nat
        /\ x.encBuf \in Seq(Items)
    BY <1>1, CompleteHalf DEF Items, RcvSet, SndSet
  <1>3. PICK I : I = x.encBuf \o w
    OBVIOUS
  <1>4. I \in Seq(Items) /\ Late(I) /\ x.encBuf \o (w \o W) = I \o W
    <2>1. (x.encBuf \o w) \o W = x.encBuf \o (w \o W) /\ x.encBuf \o w \in Seq(Items)
      BY <1>1, <1>2, ItemsAssoc, ZenonT(60)
    <2> QED
      BY <1>3, <2>1 DEF Spoiled
  <1>5. Late(I \o W)
    <2>1. CASE I = <<>>
      <3>1. I \o W = W
        BY <1>1, <2>1, ConcatNone
      <3>2. 1 \in 1 .. Complete(W)
        BY <1>1, <1>2
      <3>3. FrameAt(W, 1).ctr = y.sendCtr + 1 - 1
        BY <1>1, <3>2 DEF Framed
      <3>4. FrameAt(W, 1) = W[1].frame
        BY DEF FrameAt
      <3>5. W[1].frame.ctr # 0
        BY <1>2, <3>3, <3>4 DEF Spoiled
      <3> QED
        BY <3>1, <3>5 DEF Late
    <2>2. CASE I # <<>>
      <3>1. 1 \in 1 .. Len(I)
        BY <1>4, <2>2, EmptySeq, LenProperties
      <3>2. (I \o W)[1] = I[1]
        BY <1>1, <1>4, <3>1, Concatenation
      <3> QED
        BY <1>4, <2>2, <3>2 DEF Late
    <2> QED
      BY <2>1, <2>2
  <1>6. z.sendCtr > 0
    BY <1>2 DEF Spoiled
  <1> QED
    BY <1>4, <1>5, <1>6 DEF Spoiled

----------------------------------------------------------------------------
(* The invariant, and a request written. *)

\* The types of all variables.
Typed ==
    /\ session \in 0 .. MaxSessions /\ failed \in {"no", "auth", "oversize", "over"}
    /\ snd \in SndSet /\ rcv \in RcvSet
    /\ toRcv \in Seq(Seq(Items)) /\ toSnd \in Seq(Items)
    /\ handled \in Seq(Nat \X Nat)
    /\ asked \in 0 .. MaxRequests /\ damaged \in 0 .. MaxDamage
    /\ Len(snd.rxBuf) <= Cap /\ snd.pending \in Seq(1 .. MaxRequests)

\* The replies dispatched are those made, each for its request.
Done ==
    /\ \A i \in 1 .. Len(handled) : handled[i] = <<i, i>>
    /\ Len(handled) <= rcv.replied

\* On a live session, the requests wait in order for the replies that are not
\* handled yet; every request is read, or on its way; both ends have switched
\* exactly when they have seen the last pairing reply, and until then one
\* request is on its way at a time.
Counts ==
    /\ snd.pending = Waiting(Len(handled), asked)
    /\ rcv.replied <= rcv.read /\ rcv.read + Len(toRcv) = asked
    /\ snd.enc = Switched(Len(handled)) /\ rcv.enc = Switched(rcv.replied)
    /\ asked <= PairSteps \/ Len(handled) >= PairSteps

\* The requests on their way are sealed under consecutive counters of the
\* sender.
Requested ==
    /\ ~snd.enc => snd.sendCtr = 0
    /\ Sent(toRcv, rcv.read, rcv.recvCtr, snd.sendCtr, session)

\* What comes back is in one of the three situations.
Going == Situation(snd, rcv, toSnd, Len(handled), session, damaged)

\* The inductive invariant.
ControlInv == Typed /\ Done /\ InStep /\ (live => Counts /\ Requested /\ Going)

\* Which of the ends has switched, from the numbers of requests and replies.
LEMMA PairingNumbers ==
    ASSUME NEW h \in Nat, NEW p \in Nat, NEW r \in Nat, NEW l \in Nat, NEW n \in Nat,
           h <= p, p <= r, r + l = n, n <= PairSteps \/ h >= PairSteps
    PROVE  /\ Switched(h) => Switched(p) /\ Switched(r) /\ Switched(n)
           /\ l > 0 => (Switched(r) <=> Switched(p))
           /\ ~Switched(h) /\ Switched(p) => p = PairSteps /\ r = PairSteps /\ n = PairSteps
           /\ Switched(p + 1) <=> (Switched(p) \/ p + 1 = PairSteps)
           /\ (n <= PairSteps => n - h < 1) => (Switched(n) <=> Switched(h))
           /\ (n <= PairSteps => n - h < 1) => n + 1 <= PairSteps \/ h >= PairSteps
  <1>1. PairSteps \in Nat
    BY PairStepsNatural
  <1>2. PICK q : q = PairSteps
    OBVIOUS
  <1>3. \A i \in Nat : Switched(i) <=> (q # 0 /\ i >= q)
    BY <1>2 DEF Switched
  <1>4. q \in Nat /\ (n <= q \/ h >= q)
    BY <1>1, <1>2
  <1>5. Switched(h) => Switched(p) /\ Switched(r) /\ Switched(n)
    BY <1>3, <1>4
  <1>6. l > 0 => (Switched(r) <=> Switched(p))
    BY <1>3, <1>4
  <1>7. ~Switched(h) /\ Switched(p) => p = q /\ r = q /\ n = q
    BY <1>3, <1>4
  <1>8. Switched(p + 1) <=> (Switched(p) \/ p + 1 = q)
    BY <1>3, <1>4
  <1>9. (n <= q => n - h < 1) => (Switched(n) <=> Switched(h))
    BY <1>3, <1>4
  <1>10. (n <= q => n - h < 1) => n + 1 <= q \/ h >= q
    BY <1>4
  <1> QED
    BY <1>2, <1>5, <1>6, <1>7, <1>8, <1>9, <1>10

\* A request joins the ones that wait.
LEMMA WaitingAppend ==
    ASSUME NEW h \in Nat, NEW n \in Nat, h <= n
    PROVE  /\ Append(Waiting(h, n), n + 1) = Waiting(h, n + 1)
           /\ Len(Waiting(h, n)) = n - h /\ Waiting(h, n) \in Seq(1 .. n)
  <1>1. PICK m : m = n - h
    OBVIOUS
  <1>2. m \in Nat /\ h + m = n /\ (n + 1) - h = m + 1
    BY <1>1
  <1>3. PICK w : w = Waiting(h, n)
    OBVIOUS
  <1>4. w = [i \in 1 .. m |-> h + i]
    BY <1>1, <1>3 DEF Waiting
  <1>5. \A i \in 1 .. m : h + i \in 1 .. n
    BY <1>2
  <1>6. w \in Seq(1 .. n) /\ Len(w) = m /\ \A i \in 1 .. m : w[i] = h + i
    BY <1>2, <1>4, <1>5
  <1>7. PICK v : v = Append(w, n + 1)
    OBVIOUS
  <1>8. v \in Seq(Nat) /\ Len(v) = m + 1 /\ v[m + 1] = n + 1 /\ \A i \in 1 .. m : v[i] = w[i]
    <2>1. w \in Seq(Nat) /\ n + 1 \in Nat
      BY <1>2, <1>4, <1>6
    <2> QED
      BY <1>6, <1>7, <2>1, AppendProperties
  <1>9. \A i \in 1 .. m + 1 : v[i] = h + i
    <2> SUFFICES ASSUME NEW i \in 1 .. m + 1 PROVE v[i] = h + i
      OBVIOUS
    <2>1. i \in 1 .. m \/ i = m + 1
      BY <1>2
    <2>2. h + (m + 1) = n + 1
      BY <1>2
    <2> QED
      BY <1>6, <1>8, <2>1, <2>2
  <1>10. v = [i \in 1 .. m + 1 |-> h + i]
    BY <1>8, <1>9
  <1>11. v = Waiting(h, n + 1)
    BY <1>2, <1>10 DEF Waiting
  <1> QED
    BY <1>1, <1>3, <1>6, <1>7, <1>11

\* The data of a message in frames, the first of them damaged or not.
LEMMA Batched ==
    ASSUME NEW data \in Seq(Toks), data # <<>>, NEW size \in Nat \ {0}, NEW key \in Nat,
           NEW ctr \in Nat, NEW ok \in BOOLEAN
    PROVE  /\ Batch(Wire(Touched(Seal(data, size, key, ctr), ok)), key, ctr, data)
           /\ Complete(Wire(Touched(Seal(data, size, key, ctr), ok))) = Len(Seal(data, size, key, ctr))
           /\ Len(Seal(data, size, key, ctr)) \in Nat
           /\ ok => /\ Intact(Wire(Touched(Seal(data, size, key, ctr), ok)))
                    /\ Touched(Seal(data, size, key, ctr), ok) = Seal(data, size, key, ctr)
  <1>1. PICK F : F = Touched(Seal(data, size, key, ctr), ok)
    OBVIOUS
  <1>2. /\ Wire(F) \in Seq(ItemSet(Toks)) /\ Framed(Wire(F), key, ctr)
        /\ Complete(Wire(F)) = Len(Seal(data, size, key, ctr)) /\ Complete(Wire(F)) > 0
        /\ ok => Intact(Wire(F)) /\ F = Seal(data, size, key, ctr)
        /\ All(Wire(F)) = data
    <2>1. data \in Seq(Toks) /\ data # <<>> /\ size \in Nat \ {0} /\ key \in Nat /\ ctr \in Nat /\ ok \in BOOLEAN
      OBVIOUS
    <2> QED
      BY ONLY <2>1, <1>1, SealedWire, SMTT(60)
  <1>3. Batch(Wire(F), key, ctr, data)
    BY <1>2 DEF Batch, Items
  <1>4. Len(Seal(data, size, key, ctr)) \in Nat
    BY <1>2, CompleteHalf
  <1> QED
    BY <1>1, <1>2, <1>3, <1>4

\* Frames that are not damaged.
LEMMA BatchedIntact ==
    ASSUME NEW data \in Seq(Toks), data # <<>>, NEW size \in Nat \ {0}, NEW key \in Nat,
           NEW ctr \in Nat
    PROVE  /\ Batch(Wire(Seal(data, size, key, ctr)), key, ctr, data)
           /\ Complete(Wire(Seal(data, size, key, ctr))) = Len(Seal(data, size, key, ctr))
           /\ Len(Seal(data, size, key, ctr)) \in Nat /\ Intact(Wire(Seal(data, size, key, ctr)))
  <1>1. PICK ok : ok = TRUE
    OBVIOUS
  <1>2. ok \in BOOLEAN
    BY <1>1
  <1>3. /\ Batch(Wire(Touched(Seal(data, size, key, ctr), ok)), key, ctr, data)
        /\ Complete(Wire(Touched(Seal(data, size, key, ctr), ok))) = Len(Seal(data, size, key, ctr))
        /\ Len(Seal(data, size, key, ctr)) \in Nat
        /\ ok => /\ Intact(Wire(Touched(Seal(data, size, key, ctr), ok)))
                 /\ Touched(Seal(data, size, key, ctr), ok) = Seal(data, size, key, ctr)
    BY <1>2, Batched
  <1>4. Touched(Seal(data, size, key, ctr), ok) = Seal(data, size, key, ctr)
    BY <1>1, <1>3
  <1> QED
    BY <1>1, <1>3, <1>4

\* A message is not empty.
LEMMA MessageSome ==
    ASSUME NEW t \in Toks, NEW data, data = Message(t.kind, t.n, t.len)
    PROVE  data \in Seq(Toks) /\ data # <<>>
  <1>1. data \in Seq(Toks) /\ Len(data) = t.len + 1 /\ t.len \in Nat
    BY MessageShape DEF Toks
  <1>2. Len(<<>>) = 0
    OBVIOUS
  <1> QED
    BY <1>1, <1>2

\* The numbers of a live session.
LEMMA SessionNumbers ==
    ASSUME Typed, Done, Counts
    PROVE  /\ Len(handled) \in Nat /\ rcv.replied \in Nat /\ rcv.read \in Nat /\ Len(toRcv) \in Nat
           /\ asked \in Nat /\ session \in Nat /\ damaged \in Nat /\ MaxRequests \in Nat
           /\ snd.sendCtr \in Nat /\ snd.recvCtr \in Nat /\ rcv.sendCtr \in Nat /\ rcv.recvCtr \in Nat
           /\ Len(handled) <= rcv.replied /\ rcv.replied <= rcv.read /\ Len(handled) <= asked
           /\ rcv.replied <= asked /\ rcv.read + Len(toRcv) = asked
           /\ snd.enc \in BOOLEAN /\ rcv.enc \in BOOLEAN
  <1>1. MaxRequests \in Nat /\ MaxSessions \in Nat /\ MaxDamage \in Nat
    BY ControlAssumption
  <1>2. Len(handled) \in Nat /\ Len(toRcv) \in Nat
    BY LenProperties DEF Typed
  <1>3. /\ rcv.replied \in Nat /\ rcv.read \in Nat /\ snd.sendCtr \in Nat /\ snd.recvCtr \in Nat
        /\ rcv.sendCtr \in Nat /\ rcv.recvCtr \in Nat /\ snd.enc \in BOOLEAN /\ rcv.enc \in BOOLEAN
    BY DEF Typed, SndSet, RcvSet
  <1>4. asked \in Nat /\ session \in Nat /\ damaged \in Nat
    BY <1>1 DEF Typed
  <1>5. Len(handled) <= rcv.replied /\ rcv.replied <= rcv.read /\ rcv.read + Len(toRcv) = asked
    BY DEF Done, Counts
  <1> QED
    BY <1>1, <1>2, <1>3, <1>4, <1>5

\* writeRtsp_ keeps the invariant.
LEMMA WriteKeeps ==
    ASSUME Typed, Done, InStep, Counts, Requested, Going, NEW len \in Bodies, writeRtsp_(len)
    PROVE  ControlInv'
  <1>1. /\ Len(handled) \in Nat /\ rcv.replied \in Nat /\ rcv.read \in Nat /\ Len(toRcv) \in Nat
        /\ asked \in Nat /\ session \in Nat /\ MaxRequests \in Nat /\ snd.sendCtr \in Nat
        /\ Len(handled) <= rcv.replied /\ rcv.replied <= rcv.read /\ Len(handled) <= asked
        /\ rcv.read + Len(toRcv) = asked /\ snd.enc \in BOOLEAN
    BY SessionNumbers
  <1>2. PICK data, f : /\ data = Message("request", asked + 1, len)
                       /\ f = Seal(data, Chunk, session, snd.sendCtr)
    OBVIOUS
  <1>3. /\ live /\ asked < MaxRequests
        /\ Len(snd.pending) < (IF asked <= PairSteps THEN 1 ELSE MaxPending)
        /\ asked' = asked + 1
        /\ snd' = [snd EXCEPT !.pending = Append(@, asked + 1),
                              !.sendCtr = IF snd.enc THEN @ + Len(f) ELSE @]
        /\ toRcv' = Append(toRcv, IF snd.enc THEN Wire(f) ELSE Clear(data))
        /\ UNCHANGED <<session, failed, rcv, toSnd, handled, damaged>>
    BY <1>2 DEF writeRtsp_, Advance
  <1>4. PICK t : t = Token("request", asked + 1, len)
    OBVIOUS
  <1>5. t \in Toks /\ t.kind = "request" /\ t.n = asked + 1 /\ t.len = len
    <2>1. len \in Nat
      BY ControlAssumption
    <2> QED
      BY <1>1, <1>4, <2>1 DEF Token, Toks, Kinds
  <1>6. data = Message(t.kind, t.n, t.len)
    BY <1>2, <1>5
  <1>7. Chunk \in Nat \ {0}
    BY ControlAssumption
  <1>8. /\ Batch(Wire(f), session, snd.sendCtr, data) /\ Complete(Wire(f)) = Len(f)
        /\ Len(f) \in Nat /\ Intact(Wire(f))
    <2>1. data \in Seq(Toks) /\ data # <<>>
      BY <1>5, <1>6, MessageSome
    <2>2. f = Seal(data, Chunk, session, snd.sendCtr)
      BY <1>2
    <2> QED
      BY <1>1, <1>7, <2>1, <2>2, BatchedIntact
  <1>9. Clear(data) \in Seq(Items) /\ Cleared(Clear(data))
    BY <1>5, <1>6, MessageShape, ClearShape
  <1>10. PICK I : I = IF snd.enc THEN Wire(f) ELSE Clear(data)
    OBVIOUS
  <1>11. PICK e : e = IF snd.enc THEN snd.sendCtr + Len(f) ELSE snd.sendCtr
    OBVIOUS
  <1>12. I \in Seq(Items) /\ e \in Nat
    BY <1>1, <1>8, <1>9, <1>10, <1>11 DEF Batch
  <1>13. snd' = [snd EXCEPT !.pending = Append(snd.pending, asked + 1), !.sendCtr = e]
    BY <1>3, <1>11
  <1>14. toRcv' = Append(toRcv, I)
    BY <1>3, <1>10
  <1>15. /\ snd.pending = Waiting(Len(handled), asked) /\ snd.enc = Switched(Len(handled))
         /\ rcv.enc = Switched(rcv.replied) /\ (asked <= PairSteps \/ Len(handled) >= PairSteps)
    BY DEF Counts
  <1>16. /\ Append(snd.pending, asked + 1) = Waiting(Len(handled), asked + 1)
         /\ Len(snd.pending) = asked - Len(handled)
    BY <1>1, <1>15, WaitingAppend
  <1>17. asked <= PairSteps => asked - Len(handled) < 1
    BY <1>3, <1>16
  <1>18. (Switched(asked) <=> Switched(Len(handled))) /\ (asked + 1 <= PairSteps \/ Len(handled) >= PairSteps)
    BY <1>1, <1>15, <1>17, PairingNumbers
  <1>19. Append(snd.pending, asked + 1) \in Seq(1 .. MaxRequests) /\ Append(snd.pending, asked + 1) \in Seq(Nat)
    <2>1. asked + 1 \in 1 .. MaxRequests /\ asked + 1 \in Nat
      BY <1>1, <1>3, SMTT(60)
    <2>2. snd.pending \in Seq(1 .. MaxRequests) /\ snd.pending \in Seq(Nat)
      BY DEF Typed, SndSet
    <2> QED
      BY <2>1, <2>2, AppendProperties
  <1>20. Typed'
    <2>1. snd' \in SndSet /\ snd'.rxBuf = snd.rxBuf /\ snd'.pending = Append(snd.pending, asked + 1)
      BY <1>12, <1>13, <1>19 DEF Typed, SndSet
    <2>2. toRcv' \in Seq(Seq(Items))
      <3>1. PICK V : V = Seq(Items)
        OBVIOUS
      <3>2. toRcv \in Seq(V) /\ I \in V
        BY <1>12, <3>1 DEF Typed
      <3>3. Append(toRcv, I) \in Seq(V)
        BY <3>2, AppendProperties
      <3> QED
        BY <1>14, <3>1, <3>3
    <2>3. asked' \in 0 .. MaxRequests
      BY <1>1, <1>3
    <2> QED
      BY <1>3, <1>19, <2>1, <2>2, <2>3 DEF Typed
  <1>21. Done' /\ InStep'
    BY <1>3 DEF Done, InStep
  <1>22. snd'.enc = snd.enc /\ snd'.sendCtr = e /\ snd'.pending = Append(snd.pending, asked + 1)
         /\ snd'.encBuf = snd.encBuf /\ snd'.rxBuf = snd.rxBuf /\ snd'.recvCtr = snd.recvCtr
    BY <1>13 DEF Typed, SndSet
  <1>23. Len(toRcv') = Len(toRcv) + 1
    <2>1. PICK V : V = Seq(Items)
      OBVIOUS
    <2>2. toRcv \in Seq(V) /\ I \in V
      BY <1>12, <2>1 DEF Typed
    <2> QED
      BY <1>14, <2>2, AppendProperties
  <1>24. Counts'
    <2>1. snd'.pending = Waiting(Len(handled'), asked')
      BY <1>3, <1>16, <1>22
    <2>2. rcv'.replied <= rcv'.read /\ rcv'.read + Len(toRcv') = asked'
      <3>1. rcv' = rcv /\ asked' = asked + 1
        BY <1>3
      <3>2. rcv.read + (Len(toRcv) + 1) = asked + 1
        BY <1>1
      <3> QED
        BY <1>1, <1>23, <3>1, <3>2
    <2>3. snd'.enc = Switched(Len(handled')) /\ rcv'.enc = Switched(rcv'.replied)
      BY <1>3, <1>15, <1>22
    <2>4. asked' <= PairSteps \/ Len(handled') >= PairSteps
      BY <1>3, <1>18
    <2> QED
      BY <2>1, <2>2, <2>3, <2>4 DEF Counts
  <1>25. RequestAt(I, rcv.read + Len(toRcv) + 1, snd.sendCtr, e, session)
    <2>0. PICK k : k = rcv.read + Len(toRcv) + 1
      OBVIOUS
    <2>1. k - 1 = asked
      BY <1>1, <2>0
    <2>2. CASE snd.enc
      <3>1. Switched(asked) /\ I = Wire(f) /\ e = snd.sendCtr + Complete(I)
        BY <1>8, <1>10, <1>11, <1>15, <1>18, <2>2
      <3>2. Framed(I, session, snd.sendCtr) /\ Intact(I)
        BY <1>8, <3>1 DEF Batch
      <3> QED
        BY <2>0, <2>1, <3>1, <3>2, Zenon DEF RequestAt
    <2>3. CASE ~snd.enc
      <3>1. ~Switched(asked) /\ I = Clear(data) /\ e = snd.sendCtr
        BY <1>10, <1>11, <1>15, <1>18, <2>3
      <3>2. \A m \in 1 .. Len(I) : I[m].half = 0
        BY <1>9, <3>1 DEF Cleared
      <3> QED
        BY <2>0, <2>1, <3>1, <3>2, Zenon DEF RequestAt
    <2> QED
      BY <2>2, <2>3
  <1>26. Requested'
    <2>1. Sent(toRcv, rcv.read, rcv.recvCtr, snd.sendCtr, session) /\ rcv.recvCtr \in Nat
          /\ toRcv \in Seq(Seq(Items))
      BY DEF Requested, Typed, RcvSet
    <2>2. Sent(Append(toRcv, I), rcv.read, rcv.recvCtr, e, session)
      BY <1>1, <1>12, <1>25, <2>1, SentAppend
    <2>3. ~snd'.enc => snd'.sendCtr = 0
      BY <1>11, <1>22 DEF Requested
    <2> QED
      BY <1>3, <1>14, <1>22, <2>2, <2>3 DEF Requested
  <1>27. Going'
    <2>1. Situation(snd', rcv, toSnd, Len(handled), session, damaged)
      BY <1>22, SituationStays DEF Going
    <2> QED
      BY <1>3, <2>1 DEF Going
  <1> QED
    BY <1>20, <1>21, <1>24, <1>26, <1>27 DEF ControlInv

----------------------------------------------------------------------------
(* The receiver reads. *)

\* Reads keeps the invariant: the receiver opens every request.
LEMMA ReadsKeeps ==
    ASSUME Typed, Done, InStep, Counts, Requested, Going, Reads
    PROVE  ControlInv'
  <1>1. /\ Len(handled) \in Nat /\ rcv.replied \in Nat /\ rcv.read \in Nat /\ Len(toRcv) \in Nat
        /\ asked \in Nat /\ Len(handled) <= rcv.replied /\ rcv.replied <= rcv.read
        /\ rcv.read + Len(toRcv) = asked /\ rcv.enc \in BOOLEAN /\ snd.sendCtr \in Nat
        /\ rcv.recvCtr \in Nat
    BY SessionNumbers
  <1>2. PICK I, q : I = Head(toRcv) /\ q = Tail(toRcv)
    OBVIOUS
  <1>3. /\ live /\ toRcv # <<>> /\ toRcv' = q
        /\ rcv' = [rcv EXCEPT !.read = @ + 1,
                              !.recvCtr = IF rcv.enc THEN @ + Complete(I) ELSE @,
                              !.inStep = @ /\ Understands(I)]
        /\ UNCHANGED <<session, failed, snd, toSnd, handled, asked, damaged>>
    BY <1>2 DEF Reads
  <1>4. I \in Seq(Items) /\ q \in Seq(Seq(Items)) /\ Len(toRcv) > 0 /\ Len(q) = Len(toRcv) - 1
    <2>1. PICK V : V = Seq(Items)
      OBVIOUS
    <2>2. toRcv \in Seq(V)
      BY <2>1 DEF Typed
    <2>3. I \in V /\ q \in Seq(V) /\ Len(q) = Len(toRcv) - 1 /\ Len(toRcv) > 0
      <3>1. Len(toRcv) # 0
        BY <1>3, <2>2, EmptySeq
      <3> QED
        BY <1>1, <1>2, <1>3, <2>2, <3>1, HeadTailProperties
    <2> QED
      BY <2>1, <2>3
  <1>5. PICK e \in Nat : /\ RequestAt(I, rcv.read + 1, rcv.recvCtr, e, session)
                         /\ Sent(q, rcv.read + 1, e, snd.sendCtr, session)
    <2>1. Sent(toRcv, rcv.read, rcv.recvCtr, snd.sendCtr, session) /\ toRcv \in Seq(Seq(Items))
      BY DEF Requested, Typed
    <2>2. \E e \in Nat : /\ RequestAt(Head(toRcv), rcv.read + 1, rcv.recvCtr, e, session)
                         /\ Sent(Tail(toRcv), rcv.read + 1, e, snd.sendCtr, session)
      BY <1>1, <1>3, <2>1, SentTail
    <2> QED
      BY <1>2, <2>2
  <1>6. rcv.enc <=> Switched(rcv.read)
    <2>1. asked <= PairSteps \/ Len(handled) >= PairSteps
      BY DEF Counts
    <2>2. Switched(rcv.read) <=> Switched(rcv.replied)
      BY <1>1, <1>4, <2>1, PairingNumbers, SMTT(60)
    <2> QED
      BY <2>2 DEF Counts
  <1>7. PICK k : k = rcv.read + 1
    OBVIOUS
  <1>7a. k - 1 = rcv.read
    BY <1>1, <1>7
  <1>8. PICK n : n = Complete(I)
    OBVIOUS
  <1>9. n \in Nat
    BY <1>4, <1>8, CompleteHalf DEF Items
  <1>10. IF rcv.enc THEN Framed(I, session, rcv.recvCtr) /\ Intact(I) /\ e = rcv.recvCtr + n
         ELSE e = rcv.recvCtr /\ \A m \in 1 .. Len(I) : I[m].half = 0
    <2>1. IF Switched(k - 1) THEN Framed(I, session, rcv.recvCtr) /\ Intact(I) /\ e = rcv.recvCtr + Complete(I)
          ELSE e = rcv.recvCtr /\ \A m \in 1 .. Len(I) : I[m].half = 0
      BY <1>5, <1>7, Zenon DEF RequestAt
    <2> QED
      BY <1>6, <1>7a, <1>8, <2>1
  <1>11. Understands(I)
    <2>1. CASE rcv.enc
      <3>1. Framed(I, session, rcv.recvCtr) /\ Intact(I)
        BY <1>10, <2>1
      <3>2. Opened(I, session, rcv.recvCtr) = Complete(I)
        <4>1. \A j \in 1 .. Complete(I) : Opens(FrameAt(I, j), session, rcv.recvCtr + j - 1)
          BY <3>1 DEF Framed, Intact, Opens
        <4> QED
          BY <1>1, <1>4, <4>1, OpenedAll
      <3>3. Aligned(I)
        <4>1. CASE I # <<>>
          <5>1. 1 \in 1 .. Len(I) /\ Head(I) = I[1]
            BY <1>4, <4>1, EmptySeq, LenProperties
          <5>2. I[1].half = IF 1 % 2 = 1 THEN 1 ELSE 2
            BY <3>1, <5>1 DEF Framed
          <5>3. 1 % 2 = 1
            OBVIOUS
          <5> QED
            BY <5>1, <5>2, <5>3 DEF Aligned
        <4> QED
          BY <4>1 DEF Aligned
      <3> QED
        BY <2>1, <3>2, <3>3 DEF Understands
    <2>2. CASE ~rcv.enc
      <3>1. \A m \in 1 .. Len(I) : I[m].half = 0
        BY <1>10, <2>2
      <3>2. DOMAIN I = 1 .. Len(I)
        BY <1>4, LenProperties
      <3> QED
        BY <2>2, <3>1, <3>2 DEF Understands
    <2> QED
      BY <2>1, <2>2
  <1>12. rcv.inStep /\ (failed = "auth" => damaged > 0 \/ rcv.early)
    BY DEF InStep
  <1>13. e = IF rcv.enc THEN rcv.recvCtr + n ELSE rcv.recvCtr
    BY <1>10
  <1>14. PICK u : u = (rcv.inStep /\ Understands(I))
    OBVIOUS
  <1>15. u = TRUE
    BY <1>11, <1>12, <1>14
  <1>16. rcv' = [rcv EXCEPT !.read = rcv.read + 1, !.recvCtr = e, !.inStep = u]
    BY <1>3, <1>8, <1>13, <1>14
  <1>17. /\ rcv' \in RcvSet /\ rcv'.read = rcv.read + 1 /\ rcv'.recvCtr = e /\ rcv'.inStep = TRUE
         /\ rcv'.enc = rcv.enc /\ rcv'.sendCtr = rcv.sendCtr /\ rcv'.early = rcv.early
         /\ rcv'.replied = rcv.replied
    <2>1. rcv \in RcvSet /\ rcv.read + 1 \in Nat /\ u \in BOOLEAN
      BY <1>1, <1>15 DEF Typed
    <2> QED
      BY <1>15, <1>16, <2>1 DEF RcvSet
  <1>18. Typed'
    BY <1>3, <1>4, <1>17 DEF Typed
  <1>19. Done' /\ InStep'
    <2>1. handled' = handled /\ failed' = failed /\ damaged' = damaged
      BY <1>3
    <2> QED
      BY <1>12, <1>17, <2>1 DEF Done, InStep
  <1>20. Counts'
    <2>1. /\ snd.pending = Waiting(Len(handled), asked) /\ snd.enc = Switched(Len(handled))
          /\ rcv.enc = Switched(rcv.replied) /\ (asked <= PairSteps \/ Len(handled) >= PairSteps)
      BY DEF Counts
    <2>2. snd' = snd /\ handled' = handled /\ asked' = asked /\ toRcv' = q
      BY <1>3
    <2>3. rcv'.replied <= rcv'.read /\ rcv'.read + Len(q) = asked
      <3>1. rcv.replied <= rcv.read + 1 /\ (rcv.read + 1) + Len(q) = asked
        <4>1. PICK m : m = Len(toRcv)
          OBVIOUS
        <4>2. m \in Nat /\ Len(q) = m - 1 /\ rcv.read + m = asked
          BY <1>1, <1>4, <4>1
        <4> QED
          BY <1>1, <4>2
      <3> QED
        BY <1>17, <3>1
    <2> QED
      BY <1>17, <2>1, <2>2, <2>3 DEF Counts
  <1>21. Requested'
    BY <1>3, <1>5, <1>17 DEF Requested
  <1>22. Going'
    <2>1. Situation(snd, rcv', toSnd, Len(handled), session, damaged)
      BY <1>17, SituationStays DEF Going
    <2> QED
      BY <1>3, <2>1 DEF Going
  <1> QED
    BY <1>18, <1>19, <1>20, <1>21, <1>22 DEF ControlInv

\* What a step of the receiver keeps, given what it sends and counts.
LEMMA SendingKeeps ==
    ASSUME Typed, Done, InStep, Counts, Requested, live, NEW y,
           y = rcv', rcv' \in RcvSet, toSnd' \in Seq(Items), damaged' \in 0 .. MaxDamage,
           rcv'.read = rcv.read, rcv'.recvCtr = rcv.recvCtr, rcv'.inStep = rcv.inStep,
           rcv'.replied \in rcv.replied .. rcv.read, rcv'.enc = Switched(rcv'.replied),
           UNCHANGED <<session, failed, snd, toRcv, handled, asked>>,
           Situation(snd, rcv', toSnd', Len(handled), session, damaged')
    PROVE  ControlInv'
  <1>1. /\ Len(handled) \in Nat /\ rcv.replied \in Nat /\ rcv.read \in Nat
        /\ Len(handled) <= rcv.replied
    BY SessionNumbers
  <1>2. Typed'
    BY DEF Typed
  <1>3. Len(handled) <= rcv'.replied /\ rcv'.replied <= rcv'.read
    BY <1>1
  <1>4. Done'
    BY <1>3 DEF Done
  <1>5. InStep'
    BY DEF InStep, live
  <1>6. Counts'
    BY <1>3 DEF Counts
  <1>7. Requested'
    BY DEF Requested
  <1>8. Going'
    BY DEF Going
  <1> QED
    BY <1>2, <1>4, <1>5, <1>6, <1>7, <1>8 DEF ControlInv

----------------------------------------------------------------------------
(* The receiver replies and pushes. *)

\* Replies handled, replies made, requests read, requests on their way, requests.
Numbered(h, p, r, l, n) ==
    /\ h \in Nat /\ p \in Nat /\ r \in Nat /\ l \in Nat /\ n \in Nat
    /\ h <= p /\ p <= r /\ r + l = n
    /\ n <= PairSteps \/ h >= PairSteps

\* The same for the receiver that is about to reply.
LEMMA PairingOf ==
    ASSUME NEW h, NEW p, NEW r, NEW l, NEW n, Numbered(h, p, r, l, n)
    PROVE  /\ Switched(h) => Switched(p)
           /\ ~Switched(h) /\ Switched(p) => p = PairSteps /\ r = PairSteps
           /\ Switched(p + 1) <=> (Switched(p) \/ p + 1 = PairSteps)
  <1>1. /\ h \in Nat /\ p \in Nat /\ r \in Nat /\ l \in Nat /\ n \in Nat
        /\ h <= p /\ p <= r /\ r + l = n
        /\ n <= PairSteps \/ h >= PairSteps
    BY DEF Numbered
  <1>2. PICK q : q = PairSteps
    OBVIOUS
  <1>3. \A i \in Nat : Switched(i) <=> (q # 0 /\ i >= q)
    BY <1>2 DEF Switched
  <1>4. q \in Nat /\ (n <= q \/ h >= q)
    BY <1>1, <1>2, PairStepsNatural
  <1>5. Switched(h) => Switched(p)
    BY <1>1, <1>3, <1>4
  <1>6. ~Switched(h) /\ Switched(p) => p = q /\ r = q
    BY <1>1, <1>3, <1>4
  <1>7. Switched(p + 1) <=> (Switched(p) \/ p + 1 = q)
    BY <1>1, <1>3, <1>4
  <1> QED
    BY <1>2, <1>5, <1>6, <1>7

\* A reply keeps the invariant.
LEMMA RepliesKeeps ==
    ASSUME Typed, Done, InStep, Counts, Requested, Going, NEW len \in Bodies,
           NEW size \in 1 .. Chunk, NEW ok \in BOOLEAN, Replies(len, size, ok)
    PROVE  ControlInv'
  <1>1. /\ Len(handled) \in Nat /\ rcv.replied \in Nat /\ rcv.read \in Nat /\ Len(toRcv) \in Nat
        /\ asked \in Nat /\ session \in Nat /\ damaged \in Nat /\ rcv.sendCtr \in Nat
        /\ Len(handled) <= rcv.replied /\ rcv.replied <= rcv.read /\ Len(handled) <= asked
        /\ rcv.read + Len(toRcv) = asked /\ snd.enc \in BOOLEAN /\ rcv.enc \in BOOLEAN
    BY SessionNumbers
  <1>2. PICK data, f, W : /\ data = Message("reply", rcv.replied + 1, len)
                          /\ f = Seal(data, size, session, rcv.sendCtr)
                          /\ W = Wire(Touched(f, ok))
    OBVIOUS
  <1>3. PICK out : out = IF rcv.enc THEN W ELSE Clear(data)
    OBVIOUS
  <1>4. PICK z : z = [rcv EXCEPT !.replied = rcv.replied + 1,
                                 !.enc = rcv.enc \/ rcv.replied + 1 = PairSteps]
    OBVIOUS
  <1>5. Emit(data, size, ok, z) /\ rcv.replied < rcv.read
    BY <1>2, <1>4 DEF Replies
  <1>6. /\ live /\ (ok \/ (rcv.enc /\ damaged < MaxDamage))
        /\ toSnd' = toSnd \o out
        /\ rcv' = [z EXCEPT !.sendCtr = IF rcv.enc THEN z.sendCtr + Len(f) ELSE z.sendCtr]
        /\ damaged' = damaged + (IF ok THEN 0 ELSE 1)
        /\ UNCHANGED <<session, failed, snd, toRcv, handled, asked>>
    BY <1>2, <1>3, <1>5 DEF Emit, Touched
  <1>7. PICK t : t = Token("reply", rcv.replied + 1, len)
    OBVIOUS
  <1>8. t \in Toks /\ t \in HeadSet /\ t.kind = "reply" /\ t.n = rcv.replied + 1 /\ t.len = len /\ Step(t) = 1
    <2>1. len \in Nat
      BY ControlAssumption
    <2> QED
      BY <1>1, <1>7, <2>1 DEF Token, Toks, Kinds, HeadSet, Step
  <1>9. data = Message(t.kind, t.n, t.len)
    BY <1>2, <1>8
  <1>10. size \in Nat \ {0} /\ MaxDamage \in Nat
    BY ControlAssumption
  <1>11. data \in Seq(Toks) /\ data # <<>>
    BY <1>8, <1>9, MessageSome
  <1>12. /\ Batch(W, session, rcv.sendCtr, data) /\ Complete(W) = Len(f) /\ Len(f) \in Nat
         /\ ok => Intact(W)
    BY <1>1, <1>2, <1>10, <1>11, Batched
  <1>13. out \in Seq(Items) /\ toSnd \in Seq(Items)
    <2>1. Clear(data) \in Seq(Items)
      BY <1>11, ClearShape
    <2> QED
      BY <1>3, <1>12, <2>1 DEF Batch, Typed
  <1>14. PICK c, w : c = (IF rcv.enc THEN rcv.sendCtr + Len(f) ELSE rcv.sendCtr)
                     /\ w = (rcv.enc \/ rcv.replied + 1 = PairSteps)
    OBVIOUS
  <1>15. c \in Nat /\ w \in BOOLEAN
    BY <1>1, <1>12, <1>14
  <1>16. /\ rcv' \in RcvSet /\ rcv'.replied = rcv.replied + 1 /\ rcv'.enc = w /\ rcv'.sendCtr = c
         /\ rcv'.read = rcv.read /\ rcv'.recvCtr = rcv.recvCtr /\ rcv'.inStep = rcv.inStep
         /\ rcv'.early = rcv.early
    <2>1. rcv \in RcvSet /\ rcv.replied + 1 \in Nat
      BY <1>1, SMTT(60) DEF Typed
    <2>2. z \in RcvSet /\ z.sendCtr = rcv.sendCtr /\ z = [rcv EXCEPT !.replied = rcv.replied + 1, !.enc = w]
      BY <1>4, <1>14, <1>15, <2>1 DEF RcvSet
    <2>3. rcv' = [z EXCEPT !.sendCtr = c]
      BY <1>6, <1>14, <2>2
    <2> QED
      BY <1>15, <2>1, <2>2, <2>3 DEF RcvSet
  <1>17. damaged' \in 0 .. MaxDamage /\ (ok => damaged' = damaged) /\ (damaged' = 0 => ok /\ damaged = 0)
    BY <1>1, <1>6, <1>10, SMTT(60) DEF Typed
  <1>18. toSnd' \in Seq(Items)
    BY <1>6, <1>13, Concatenation
  <1>19. rcv'.replied \in rcv.replied .. rcv.read
    BY <1>1, <1>5, <1>16
  <1>20. PICK h, p, r, l, n : /\ h = Len(handled) /\ p = rcv.replied /\ r = rcv.read
                              /\ l = Len(toRcv) /\ n = asked
    OBVIOUS
  <1>21. /\ Switched(h) => Switched(p)
         /\ ~Switched(h) /\ Switched(p) => p = PairSteps /\ r = PairSteps
         /\ Switched(p + 1) <=> (Switched(p) \/ p + 1 = PairSteps)
    <2>1. n <= PairSteps \/ h >= PairSteps
      BY <1>20 DEF Counts
    <2>2. h \in Nat /\ p \in Nat /\ r \in Nat /\ l \in Nat /\ n \in Nat /\ h <= p /\ p <= r /\ r + l = n
      BY <1>1, <1>20
    <2> QED
      BY <2>1, <2>2, PairingOf DEF Numbered
  <1>22. snd.enc = Switched(h) /\ rcv.enc = Switched(p)
    BY <1>20 DEF Counts
  <1>23. rcv'.enc = Switched(rcv'.replied)
    <2>1. w <=> Switched(p + 1)
      BY <1>14, <1>20, <1>21, <1>22
    <2>2. Switched(p + 1) \in BOOLEAN
      BY DEF Switched
    <2> QED
      BY <1>15, <1>16, <1>20, <2>1, <2>2
  <1>24. /\ snd \in SndSet /\ rcv \in RcvSet /\ Len(handled) \in Nat
         /\ rcv'.replied = rcv.replied + Step(t) /\ (t.kind = "reply" => t.n = rcv.replied + 1)
    BY <1>1, <1>8, <1>16 DEF Typed
  <1>25. Situation(snd, rcv', toSnd', Len(handled), session, damaged')
    <2>1. CASE InClear(snd, rcv, toSnd, Len(handled), session, damaged)
      <3>1. ~snd.enc
        BY <2>1 DEF InClear, ClearAt
      <3>2. ~rcv.enc
        <4> SUFFICES ASSUME rcv.enc PROVE FALSE
          BY <1>1
        <4>1. p = PairSteps /\ r = PairSteps
          BY <1>21, <1>22, <3>1
        <4> QED
          BY <1>1, <1>5, <1>20, <4>1
      <3>3. damaged' = damaged /\ rcv'.sendCtr = rcv.sendCtr /\ toSnd' = toSnd \o Clear(data)
        BY <1>3, <1>6, <1>14, <1>16, <1>17, <3>2
      <3>4. rcv'.enc => t.kind = "reply"
        BY <1>8
      <3>5. InClear(snd, rcv', toSnd \o Clear(data), Len(handled), session, damaged)
        BY <1>8, <1>9, <1>16, <1>24, <2>1, <3>2, <3>3, <3>4, SendsClear
      <3> QED
        BY <3>3, <3>5 DEF Situation
    <2>2. CASE ~InClear(snd, rcv, toSnd, Len(handled), session, damaged)
      <3>1. snd.enc
        BY <2>2 DEF Going, Situation, Sealed, SealedBy, Spoiled
      <3>2. rcv.enc
        BY <1>21, <1>22, <3>1
      <3>3. toSnd' = toSnd \o W /\ rcv'.sendCtr = rcv.sendCtr + Complete(W)
        BY <1>3, <1>6, <1>12, <1>14, <1>16, <3>2
      <3>4. damaged' = 0 => damaged = 0 /\ Intact(W)
        BY <1>12, <1>17
      <3>5. CASE Sealed(snd, rcv, toSnd, Len(handled), session, damaged)
        <4>1. Sealed(snd, rcv', toSnd \o W, Len(handled), session, damaged')
          BY <1>8, <1>9, <1>12, <1>13, <1>16, <1>24, <3>3, <3>4, <3>5, SendsSealed
        <4> QED
          BY <3>3, <4>1 DEF Situation
      <3>6. CASE Spoiled(snd, rcv, toSnd)
        <4>1. Spoiled(snd, rcv', toSnd \o W)
          BY <1>12, <1>13, <1>16, <1>24, <3>3, <3>6, SendsSpoiled
        <4> QED
          BY <3>3, <4>1 DEF Situation
      <3> QED
        BY <2>2, <3>5, <3>6 DEF Going, Situation
    <2> QED
      BY <2>1, <2>2
  <1> QED
    BY <1>6, <1>16, <1>17, <1>18, <1>19, <1>23, <1>25, SendingKeeps

\* A request the receiver pushes keeps the invariant.
LEMMA PushesKeeps ==
    ASSUME Typed, Done, InStep, Counts, Requested, Going, NEW len \in Bodies,
           NEW size \in 1 .. Chunk, PushesRequest(len, size)
    PROVE  ControlInv'
  <1>1. /\ Len(handled) \in Nat /\ rcv.replied \in Nat /\ rcv.read \in Nat /\ Len(toRcv) \in Nat
        /\ asked \in Nat /\ session \in Nat /\ damaged \in Nat /\ rcv.sendCtr \in Nat
        /\ Len(handled) <= rcv.replied /\ rcv.replied <= rcv.read /\ Len(handled) <= asked
        /\ rcv.read + Len(toRcv) = asked /\ snd.enc \in BOOLEAN /\ rcv.enc \in BOOLEAN
    BY SessionNumbers
  <1>2. PICK data, f, W : /\ data = Message("push", rcv.pushes + 1, len)
                          /\ f = Seal(data, size, session, rcv.sendCtr)
                          /\ W = Wire(Touched(f, TRUE))
    OBVIOUS
  <1>3. PICK out : out = IF rcv.enc THEN W ELSE Clear(data)
    OBVIOUS
  <1>4. PICK z : z = [rcv EXCEPT !.pushes = rcv.pushes + 1, !.early = rcv.early \/ Unsettled]
    OBVIOUS
  <1>5. Emit(data, size, TRUE, z)
    BY <1>2, <1>4 DEF PushesRequest
  <1>6. /\ live /\ toSnd' = toSnd \o out
        /\ rcv' = [z EXCEPT !.sendCtr = IF rcv.enc THEN z.sendCtr + Len(f) ELSE z.sendCtr]
        /\ damaged' = damaged + 0
        /\ UNCHANGED <<session, failed, snd, toRcv, handled, asked>>
    BY <1>2, <1>3, <1>5 DEF Emit, Touched
  <1>7. PICK t : t = Token("push", rcv.pushes + 1, len)
    OBVIOUS
  <1>8. t \in Toks /\ t \in HeadSet /\ t.kind = "push" /\ t.n = rcv.pushes + 1 /\ t.len = len /\ Step(t) = 0
    <2>1. len \in Nat /\ rcv.pushes + 1 \in Nat
      BY ControlAssumption DEF Typed, RcvSet
    <2> QED
      BY <1>7, <2>1 DEF Token, Toks, Kinds, HeadSet, Step
  <1>9. data = Message(t.kind, t.n, t.len)
    BY <1>2, <1>8
  <1>10. size \in Nat \ {0}
    BY ControlAssumption
  <1>11. data \in Seq(Toks) /\ data # <<>>
    BY <1>8, <1>9, MessageSome
  <1>12. /\ Batch(W, session, rcv.sendCtr, data) /\ Complete(W) = Len(f) /\ Len(f) \in Nat
         /\ Intact(W)
    <2>1. PICK ok : ok = TRUE
      OBVIOUS
    <2>2. ok \in BOOLEAN /\ W = Wire(Touched(Seal(data, size, session, rcv.sendCtr), ok))
      BY <1>2, <2>1
    <2> QED
      <3>1. /\ data \in Seq(Toks) /\ data # <<>> /\ size \in Nat \ {0} /\ session \in Nat
            /\ rcv.sendCtr \in Nat /\ f = Seal(data, size, session, rcv.sendCtr)
        BY <1>1, <1>2, <1>10, <1>11
      <3>2. /\ Batch(Wire(Touched(f, ok)), session, rcv.sendCtr, data)
            /\ Complete(Wire(Touched(f, ok))) = Len(f)
            /\ Len(f) \in Nat /\ (ok => Intact(Wire(Touched(f, ok))))
        BY ONLY <2>2, <3>1, Batched
      <3> QED
        BY <2>1, <2>2, <3>1, <3>2
  <1>13. out \in Seq(Items) /\ toSnd \in Seq(Items)
    <2>1. Clear(data) \in Seq(Items)
      BY <1>11, ClearShape
    <2> QED
      BY <1>3, <1>12, <2>1 DEF Batch, Typed
  <1>14. PICK c, w : c = (IF rcv.enc THEN rcv.sendCtr + Len(f) ELSE rcv.sendCtr)
                     /\ w = (rcv.early \/ Unsettled)
    OBVIOUS
  <1>15. c \in Nat /\ w \in BOOLEAN
    BY <1>1, <1>12, <1>14
  <1>16. /\ rcv' \in RcvSet /\ rcv'.replied = rcv.replied /\ rcv'.enc = rcv.enc /\ rcv'.sendCtr = c
         /\ rcv'.read = rcv.read /\ rcv'.recvCtr = rcv.recvCtr /\ rcv'.inStep = rcv.inStep
         /\ rcv'.early = w
    <2>1. rcv \in RcvSet /\ rcv.pushes + 1 \in Nat
      BY <1>1, SMTT(60) DEF Typed, RcvSet
    <2>2. z \in RcvSet /\ z.sendCtr = rcv.sendCtr /\ z = [rcv EXCEPT !.pushes = rcv.pushes + 1, !.early = w]
      BY <1>4, <1>14, <1>15, <2>1 DEF RcvSet
    <2>3. rcv' = [z EXCEPT !.sendCtr = c]
      BY <1>6, <1>14, <2>2
    <2> QED
      BY <1>15, <2>1, <2>2, <2>3 DEF RcvSet
  <1>17. damaged' = damaged /\ damaged' \in 0 .. MaxDamage
    BY <1>1, <1>6 DEF Typed
  <1>18. toSnd' \in Seq(Items)
    BY <1>6, <1>13, Concatenation
  <1>19. rcv'.replied \in rcv.replied .. rcv.read
    BY <1>1, <1>16
  <1>20. PICK h, p, r, l, n : /\ h = Len(handled) /\ p = rcv.replied /\ r = rcv.read
                              /\ l = Len(toRcv) /\ n = asked
    OBVIOUS
  <1>21. /\ Switched(h) => Switched(p)
         /\ ~Switched(h) /\ Switched(p) => p = PairSteps /\ r = PairSteps
    <2>1. n <= PairSteps \/ h >= PairSteps
      BY <1>20 DEF Counts
    <2>2. h \in Nat /\ p \in Nat /\ r \in Nat /\ l \in Nat /\ n \in Nat /\ h <= p /\ p <= r /\ r + l = n
      BY <1>1, <1>20
    <2> QED
      BY <2>1, <2>2, PairingOf, ZenonT(60) DEF Numbered
  <1>22. snd.enc = Switched(h) /\ rcv.enc = Switched(p)
    BY <1>20 DEF Counts
  <1>23. rcv'.enc = Switched(rcv'.replied)
    BY <1>16, <1>20, <1>22
  <1>24. /\ snd \in SndSet /\ rcv \in RcvSet /\ Len(handled) \in Nat
         /\ rcv'.replied = rcv.replied + Step(t) /\ (t.kind = "reply" => t.n = rcv.replied + 1)
    BY <1>1, <1>8, <1>16 DEF Typed
  <1>25. Situation(snd, rcv', toSnd', Len(handled), session, damaged')
    <2>1. CASE InClear(snd, rcv, toSnd, Len(handled), session, damaged)
      <3>1. ~snd.enc
        BY <2>1 DEF InClear, ClearAt
      <3>2. CASE ~rcv.enc
        <4>1. rcv'.sendCtr = rcv.sendCtr /\ toSnd' = toSnd \o Clear(data)
          BY <1>3, <1>6, <1>14, <1>16, <3>2
        <4>2. rcv'.enc => t.kind = "reply"
          BY <1>16, <3>2
        <4>3. InClear(snd, rcv', toSnd \o Clear(data), Len(handled), session, damaged)
          BY <1>8, <1>9, <1>16, <1>24, <2>1, <3>2, <4>1, <4>2, SendsClear
        <4> QED
          BY <1>17, <4>1, <4>3 DEF Situation
      <3>3. CASE rcv.enc
        <4>1. Unsettled
          BY <1>20, <1>21, <1>22, <3>1, <3>3 DEF Unsettled
        <4>2. rcv'.early /\ rcv'.enc /\ rcv'.sendCtr = rcv.sendCtr + Complete(W) /\ toSnd' = toSnd \o W
          BY <1>3, <1>6, <1>12, <1>14, <1>16, <3>3, <4>1
        <4>3. InClear(snd, rcv', toSnd \o W, Len(handled), session, damaged)
          BY <1>8, <1>9, <1>12, <1>16, <1>24, <2>1, <3>3, <4>2, SendsEarly
        <4> QED
          BY <1>17, <4>2, <4>3 DEF Situation
      <3> QED
        BY <3>2, <3>3
    <2>2. CASE ~InClear(snd, rcv, toSnd, Len(handled), session, damaged)
      <3>1. snd.enc
        BY <2>2 DEF Going, Situation, Sealed, SealedBy, Spoiled
      <3>2. rcv.enc
        BY <1>21, <1>22, <3>1
      <3>3. toSnd' = toSnd \o W /\ rcv'.sendCtr = rcv.sendCtr + Complete(W)
        BY <1>3, <1>6, <1>12, <1>14, <1>16, <3>2
      <3>4. damaged' = 0 => damaged = 0 /\ Intact(W)
        BY <1>12, <1>17
      <3>5. CASE Sealed(snd, rcv, toSnd, Len(handled), session, damaged)
        <4>1. Sealed(snd, rcv', toSnd \o W, Len(handled), session, damaged')
          BY <1>8, <1>9, <1>12, <1>13, <1>16, <1>24, <3>3, <3>4, <3>5, SendsSealed
        <4> QED
          BY <3>3, <4>1 DEF Situation
      <3>6. CASE Spoiled(snd, rcv, toSnd)
        <4>0. Unsettled \in BOOLEAN /\ rcv.early
          BY <1>1, <3>6 DEF Unsettled, Spoiled
        <4>1. rcv'.early = rcv.early
          BY <1>14, <1>15, <1>16, <1>24, <4>0 DEF RcvSet
        <4>2. Spoiled(snd, rcv', toSnd \o W)
          BY <1>12, <1>13, <1>16, <1>24, <3>3, <3>6, <4>1, SendsSpoiled
        <4> QED
          BY <3>3, <4>2 DEF Situation
      <3> QED
        BY <2>2, <3>5, <3>6 DEF Going, Situation
    <2> QED
      BY <2>1, <2>2
  <1> QED
    BY <1>6, <1>16, <1>17, <1>18, <1>19, <1>23, <1>25, SendingKeeps

----------------------------------------------------------------------------
(* The sender: after the loop, and where it gives up. *)

\* Where a concatenation is cut: in the first part.
LEMMA CutFirst ==
    ASSUME NEW V, NEW a \in Seq(V), NEW b \in Seq(V), NEW m \in 0 .. Len(a)
    PROVE  SubSeq(a \o b, 1, m) = SubSeq(a, 1, m)
  <1>1. PICK s : s = a \o b
    OBVIOUS
  <1>2. /\ s \in Seq(V) /\ Len(s) = Len(a) + Len(b) /\ Len(a) \in Nat /\ Len(b) \in Nat
        /\ \A i \in 1 .. Len(a) : s[i] = a[i]
    BY <1>1, Concatenation
  <1>3. m \in 0 .. Len(s) /\ m \in 0 .. Len(a) /\ m \in Nat /\ m <= Len(a)
    BY <1>2
  <1>4. PICK p, q : p = SubSeq(s, 1, m) /\ q = SubSeq(a, 1, m)
    OBVIOUS
  <1>5. p \in Seq(V) /\ Len(p) = m /\ \A i \in 1 .. m : p[i] = s[i]
    BY <1>2, <1>3, <1>4, UpTo
  <1>6. q \in Seq(V) /\ Len(q) = m /\ \A i \in 1 .. m : q[i] = a[i]
    BY <1>3, <1>4, UpTo
  <1>7. ASSUME NEW i \in 1 .. Len(p) PROVE p[i] = q[i]
    <2>1. i \in 1 .. m /\ i \in 1 .. Len(a)
      BY <1>2, <1>3, <1>5
    <2> QED
      BY <1>2, <1>5, <1>6, <2>1
  <1>8. p = q
    BY <1>5, <1>6, <1>7, SeqEqual
  <1> QED
    BY <1>1, <1>4, <1>8

\* In the second part.
LEMMA CutSecond ==
    ASSUME NEW V, NEW a \in Seq(V), NEW b \in Seq(V), NEW k \in 0 .. Len(b)
    PROVE  /\ SubSeq(a \o b, 1, Len(a) + k) = a \o SubSeq(b, 1, k)
           /\ SubSeq(a \o b, Len(a) + k + 1, Len(a \o b)) = SubSeq(b, k + 1, Len(b))
  <1>1. PICK s, m : s = a \o b /\ m = Len(a) + k
    OBVIOUS
  <1>2. /\ s \in Seq(V) /\ Len(s) = Len(a) + Len(b) /\ Len(a) \in Nat /\ Len(b) \in Nat
        /\ \A i \in 1 .. Len(a) : s[i] = a[i]
        /\ \A i \in Len(a) + 1 .. Len(a) + Len(b) : s[i] = b[i - Len(a)]
    BY <1>1, Concatenation
  <1>3. m \in 0 .. Len(s) /\ k \in Nat /\ k <= Len(b) /\ Len(s) - m = Len(b) - k
    BY <1>1, <1>2
  <1>4. PICK p, q, u, v : /\ p = SubSeq(s, 1, m) /\ q = SubSeq(b, 1, k)
                          /\ u = SubSeq(s, m + 1, Len(s)) /\ v = SubSeq(b, k + 1, Len(b))
    OBVIOUS
  <1>5. p \in Seq(V) /\ Len(p) = m /\ \A i \in 1 .. m : p[i] = s[i]
    BY <1>2, <1>3, <1>4, UpTo
  <1>6. q \in Seq(V) /\ Len(q) = k /\ \A i \in 1 .. k : q[i] = b[i]
    BY <1>4, UpTo
  <1>7. u \in Seq(V) /\ Len(u) = Len(s) - m /\ \A i \in 1 .. Len(s) - m : u[i] = s[i + m]
    BY <1>2, <1>3, <1>4, From
  <1>8. v \in Seq(V) /\ Len(v) = Len(b) - k /\ \A i \in 1 .. Len(b) - k : v[i] = b[i + k]
    BY <1>4, From
  <1>9. PICK w : w = a \o q
    OBVIOUS
  <1>10. /\ w \in Seq(V) /\ Len(w) = Len(a) + Len(q)
         /\ \A i \in 1 .. Len(a) : w[i] = a[i]
         /\ \A i \in Len(a) + 1 .. Len(a) + Len(q) : w[i] = q[i - Len(a)]
    BY <1>6, <1>9, Concatenation
  <1>11. ASSUME NEW i \in 1 .. Len(p) PROVE p[i] = w[i]
    <2>1. p[i] = s[i] /\ i \in 1 .. m
      BY <1>5
    <2>2. CASE i <= Len(a)
      <3>1. i \in 1 .. Len(a)
        BY <1>2, <1>3, <2>1, <2>2
      <3> QED
        BY <1>2, <1>10, <2>1, <3>1
    <2>3. CASE i > Len(a)
      <3>1. /\ i \in Len(a) + 1 .. Len(a) + Len(b) /\ i \in Len(a) + 1 .. Len(a) + Len(q)
            /\ i - Len(a) \in 1 .. k
        BY <1>1, <1>2, <1>3, <1>6, <2>1, <2>3
      <3>2. s[i] = b[i - Len(a)] /\ w[i] = q[i - Len(a)] /\ q[i - Len(a)] = b[i - Len(a)]
        BY <1>2, <1>6, <1>10, <3>1
      <3> QED
        BY <2>1, <3>2
    <2>4. i <= Len(a) \/ i > Len(a)
      BY <1>2
    <2> QED
      BY <2>2, <2>3, <2>4
  <1>12. p = w
    <2>1. Len(p) = Len(w)
      BY <1>1, <1>5, <1>6, <1>10
    <2> QED
      BY <1>5, <1>10, <1>11, <2>1, SeqEqual
  <1>13. ASSUME NEW i \in 1 .. Len(u) PROVE u[i] = v[i]
    <2>1. i \in 1 .. Len(s) - m /\ i \in 1 .. Len(b) - k
      BY <1>3, <1>7
    <2>2. i + m \in Len(a) + 1 .. Len(a) + Len(b) /\ (i + m) - Len(a) = i + k
      BY <1>1, <1>2, <1>3, <2>1
    <2>3. u[i] = s[i + m] /\ s[i + m] = b[(i + m) - Len(a)] /\ v[i] = b[i + k]
      BY <1>2, <1>7, <1>8, <2>1, <2>2
    <2> QED
      BY <2>2, <2>3
  <1>14. u = v
    <2>1. Len(u) = Len(v)
      BY <1>3, <1>7, <1>8
    <2> QED
      BY <1>7, <1>8, <1>13, <2>1, SeqEqual
  <1> QED
    BY <1>1, <1>4, <1>9, <1>12, <1>14

\* The sender after the loop.
After(r, enc, ctr) ==
    LET x == [snd EXCEPT !.rxBuf = r.rest, !.pending = r.pending, !.encBuf = enc, !.recvCtr = ctr]
    IN  IF r.paired THEN Switch(x) ELSE x

\* It has not switched, or it has.
AsBefore(x, enc, ctr) ==
    x.enc = snd.enc /\ x.sendCtr = snd.sendCtr /\ x.recvCtr = ctr /\ x.encBuf = enc

Fresh(x) == x.enc = TRUE /\ x.sendCtr = 0 /\ x.recvCtr = 0 /\ x.encBuf = <<>>

\* After the loop the sender is as before but for the text and the requests
\* that wait, or it has switched, with new counters and an empty buffer.
LEMMA AfterFields ==
    ASSUME snd \in SndSet, NEW r \in RSet, NEW enc \in Seq(Items), NEW ctr \in Nat
    PROVE  /\ After(r, enc, ctr) \in SndSet
           /\ After(r, enc, ctr).rxBuf = r.rest /\ After(r, enc, ctr).pending = r.pending
           /\ ~r.paired => AsBefore(After(r, enc, ctr), enc, ctr)
           /\ r.paired => Fresh(After(r, enc, ctr))
  <1>1. PICK x : x = [snd EXCEPT !.rxBuf = r.rest, !.pending = r.pending, !.encBuf = enc, !.recvCtr = ctr]
    OBVIOUS
  <1>2. /\ x \in SndSet /\ x.rxBuf = r.rest /\ x.pending = r.pending /\ x.encBuf = enc
        /\ x.recvCtr = ctr /\ x.enc = snd.enc /\ x.sendCtr = snd.sendCtr
    BY <1>1 DEF SndSet, RSet
  <1>3. /\ Switch(x) \in SndSet /\ Switch(x).rxBuf = r.rest /\ Switch(x).pending = r.pending
        /\ Switch(x).enc = TRUE /\ Switch(x).sendCtr = 0 /\ Switch(x).recvCtr = 0
        /\ Switch(x).encBuf = <<>>
    <2>1. PICK y, o : y = Switch(x) /\ o = <<>>
      OBVIOUS
    <2>2. o \in Seq(Items)
      BY <2>1
    <2>3. y = [x EXCEPT !.enc = TRUE, !.sendCtr = 0, !.recvCtr = 0, !.encBuf = o]
      BY <2>1 DEF Switch
    <2>4. /\ y \in SndSet /\ y.rxBuf = x.rxBuf /\ y.pending = x.pending
          /\ y.enc = TRUE /\ y.sendCtr = 0 /\ y.recvCtr = 0 /\ y.encBuf = o
      BY ONLY <1>2, <2>2, <2>3 DEF SndSet
    <2> QED
      BY <1>2, <2>1, <2>4
  <1>4. After(r, enc, ctr) = IF r.paired THEN Switch(x) ELSE x
    BY <1>1 DEF After
  <1>5. r.paired \in BOOLEAN
    BY DEF RSet
  <1> QED
    BY <1>2, <1>3, <1>4, <1>5 DEF AsBefore, Fresh

\* Giving up keeps the invariant.
LEMMA FailKeeps ==
    ASSUME Typed, Done, InStep, NEW why \in {"auth", "oversize", "over"}, Fail(why),
           UNCHANGED <<session, rcv, asked, damaged>>,
           why = "auth" => damaged > 0 \/ rcv.early
    PROVE  ControlInv'
  <1>1. /\ failed' = why /\ toRcv' = <<>> /\ toSnd' = <<>> /\ snd' = snd /\ handled' = handled
        /\ session' = session /\ rcv' = rcv /\ asked' = asked /\ damaged' = damaged
    BY DEF Fail
  <1>2. Typed'
    <2>1. <<>> \in Seq(Items) /\ <<>> \in Seq(Seq(Items))
      OBVIOUS
    <2>2. failed' \in {"no", "auth", "oversize", "over"}
      BY <1>1
    <2> QED
      BY <1>1, <2>1, <2>2 DEF Typed
  <1>3. Done' /\ InStep'
    BY <1>1 DEF Done, InStep
  <1>4. ~live'
    BY <1>1 DEF live
  <1> QED
    BY <1>2, <1>3, <1>4 DEF ControlInv

\* The loop starts inside.
LEMMA StartsInside ==
    ASSUME Typed, Done, Counts, NEW text \in Seq(Toks), NEW Q \in Seq(Toks), NEW M \in Seq(HeadSet),
           NEW J \in Seq(Toks), NEW F, text = Q \o J, Q \o F = Whole(M), NEW b, NEW ends,
           Numbers(M, Len(handled), b), ends => M = <<>> \/ M[Len(M)].kind = "reply"
    PROVE  Inside(Begun(text), Q, M, J, F, b, ends, snd.enc, asked)
  <1>1. PICK r : r = Begun(text)
    OBVIOUS
  <1>2. r = [rest |-> text, pending |-> snd.pending, handled |-> handled, paired |-> FALSE]
    BY <1>1 DEF Begun
  <1>3. r.rest = text /\ r.pending = snd.pending /\ r.handled = handled /\ r.paired = FALSE
    BY <1>2, TurnFields
  <1>4. r \in RSet
    <2>1. snd.pending \in Seq(Nat) /\ handled \in Seq(Nat \X Nat)
      BY DEF Typed, SndSet
    <2> QED
      BY <1>2, <2>1 DEF RSet
  <1>5. snd.pending = [i \in 1 .. asked - Len(handled) |-> Len(handled) + i]
    BY DEF Counts, Waiting
  <1>6. snd.enc = Switched(Len(handled)) /\ snd.enc \in BOOLEAN
    BY DEF Counts, Typed, SndSet
  <1>7. \A i \in 1 .. Len(handled) : handled[i] = <<i, i>>
    BY DEF Done
  <1>8. Inside(r, Q, M, J, F, b, ends, snd.enc, asked)
    BY <1>3, <1>4, <1>5, <1>6, <1>7, Zenon DEF Inside
  <1> QED
    BY <1>1, <1>8

----------------------------------------------------------------------------
(* The sender takes text apart. *)

\* What the loop leaves fits the connection: left is still on its way.
Fits(r, enc, ctr, left) ==
    Situation(After(r, enc, ctr), rcv, left, Len(r.handled), session, damaged)

\* Taking the text apart keeps the invariant.
LEMMA ConsumeKeeps ==
    ASSUME Typed, Done, InStep, Counts, Requested, live, NEW text \in Seq(Toks),
           NEW enc \in Seq(Items), NEW ctr \in Nat, NEW left \in Seq(Items), NEW Q, NEW M,
           NEW J \in Seq(Toks), NEW F \in Seq(Toks), NEW b \in Nat, b <= rcv.replied, NEW ends, Junk(J), J = <<>> \/ F = <<>>,
           Inside(Begun(text), Q, M, J, F, b, ends, snd.enc, asked),
           \A r \in Dispatched(text) : Left(r, J, F, b, ends, snd.enc, asked) => Fits(r, enc, ctr, left),
           Oversized(text) \/ toSnd' = left,
           Consume(text, enc, ctr), UNCHANGED <<session, rcv, asked, damaged>>
    PROVE  ControlInv'
  <1>1. CASE Fail("oversize")
    BY <1>1, FailKeeps
  <1>2. CASE ~Fail("oversize")
    <2>1. /\ ~Oversized(text)
          /\ \E r \in Dispatched(text) : snd' = After(r, enc, ctr) /\ handled' = r.handled
          /\ UNCHANGED <<failed, toRcv>>
      BY <1>2 DEF Consume, After
    <2>2. PICK r \in Dispatched(text) : snd' = After(r, enc, ctr) /\ handled' = r.handled
      BY <2>1
    <2>3. /\ Len(handled) \in Nat /\ rcv.replied \in Nat /\ rcv.read \in Nat
          /\ asked \in Nat /\ rcv.replied <= asked /\ rcv.replied <= rcv.read /\ snd.enc \in BOOLEAN
          /\ MaxRequests \in Nat
      BY SessionNumbers
    <2>4. Left(r, J, F, b, ends, snd.enc, asked) /\ Len(r.rest) <= Len(text)
      <3>1. b <= asked
        BY <2>3
      <3> QED
        BY <2>2, <2>3, <3>1, LoopLeaves
    <2>5. PICK R, N : Inside(r, R, N, J, F, b, ends, snd.enc, asked)
      BY <2>4 DEF Left
    <2>6. /\ r \in RSet /\ N \in Seq(HeadSet) /\ Numbers(N, Len(r.handled), b)
          /\ r.pending = Waiting(Len(r.handled), asked)
          /\ \A i \in 1 .. Len(r.handled) : r.handled[i] = <<i, i>>
          /\ snd.enc => Switched(Len(r.handled))
          /\ r.paired = (~snd.enc /\ Switched(Len(r.handled)))
      BY <2>5 DEF Inside, Waiting
    <2>7. PICK h : h = Len(r.handled)
      OBVIOUS
    <2>8. r.handled \in Seq(Nat \X Nat) /\ h \in Nat
      <3>1. r.handled \in Seq(Nat \X Nat)
        BY <2>6 DEF RSet
      <3> QED
        BY <2>7, <3>1, LenProperties
    <2>9. h <= rcv.replied
      <3>1. h <= b
        BY <2>6, <2>7, <2>8, NumbersBound
      <3> QED
        BY <2>3, <2>8, <3>1
    <2>10. r.pending \in Seq(1 .. MaxRequests)
      <3>0. PICK n : n = asked
        OBVIOUS
      <3>1. Waiting(h, n) \in Seq(1 .. n)
        <4>1. h \in Nat /\ n \in Nat /\ h <= n
          BY <2>3, <2>8, <2>9, <3>0
        <4> QED
          BY ONLY <4>1, WaitingAppend
      <3>2. 1 .. n \subseteq 1 .. MaxRequests
        BY <2>3, <3>0 DEF Typed
      <3>3. PICK U, V : U = 1 .. n /\ V = 1 .. MaxRequests
        OBVIOUS
      <3>4. r.pending \in Seq(U) /\ U \subseteq V
        BY <2>6, <2>7, <3>0, <3>1, <3>2, <3>3
      <3>5. r.pending \in Seq(V)
        BY ONLY <3>4
      <3> QED
        BY <3>3, <3>5
    <2>11. /\ snd' \in SndSet /\ snd'.rxBuf = r.rest /\ snd'.pending = r.pending
           /\ ~r.paired => snd'.enc = snd.enc /\ snd'.sendCtr = snd.sendCtr
           /\ r.paired => snd'.enc = TRUE /\ snd'.sendCtr = 0
      <3>1. snd \in SndSet
        BY DEF Typed
      <3>2. PICK x : x = After(r, enc, ctr)
        OBVIOUS
      <3>3. /\ x \in SndSet /\ x.rxBuf = r.rest /\ x.pending = r.pending
            /\ ~r.paired => x.enc = snd.enc /\ x.sendCtr = snd.sendCtr
            /\ r.paired => x.enc = TRUE /\ x.sendCtr = 0
        <4>1. r \in RSet /\ enc \in Seq(Items) /\ ctr \in Nat
          BY <2>6
        <4>2. After(r, enc, ctr) \in SndSet
          BY <3>1, <4>1, AfterFields
        <4>3. After(r, enc, ctr).rxBuf = r.rest /\ After(r, enc, ctr).pending = r.pending
          BY <3>1, <4>1, AfterFields
        <4>4. (r.paired => Fresh(After(r, enc, ctr))) /\ (~r.paired => AsBefore(After(r, enc, ctr), enc, ctr))
          BY <3>1, <4>1, AfterFields
        <4> QED
          BY <3>2, <4>2, <4>3, <4>4 DEF Fresh, AsBefore
      <3> QED
        BY <2>2, <3>2, <3>3
    <2>12. Typed'
      <3>1. Len(r.rest) <= Cap
        <4>1. Len(r.rest) \in Nat /\ Len(text) \in Nat /\ Cap \in Nat
          BY <2>6, ControlAssumption, LenProperties DEF RSet
        <4>2. Len(text) <= Cap
          BY <2>1, <4>1 DEF Oversized
        <4> QED
          BY <2>4, <4>1, <4>2
      <3>2. toSnd' \in Seq(Items)
        BY <2>1
      <3> QED
        BY <2>1, <2>2, <2>8, <2>10, <2>11, <3>1, <3>2 DEF Typed
    <2>13. Done'
      BY <2>2, <2>6, <2>7, <2>9 DEF Done
    <2>14. InStep'
      BY <2>1 DEF InStep
    <2>15. snd.enc = Switched(Len(handled)) /\ (asked <= PairSteps \/ Len(handled) >= PairSteps)
      BY DEF Counts
    <2>16. snd'.enc = Switched(h)
      <3>1. Switched(h) \in BOOLEAN /\ r.paired \in BOOLEAN
        BY <2>6 DEF Switched, RSet
      <3>2. CASE r.paired
        BY <2>6, <2>7, <2>11, <3>1, <3>2
      <3>3. CASE ~r.paired
        BY <2>3, <2>6, <2>7, <2>11, <3>1, <3>3
      <3> QED
        BY <3>1, <3>2, <3>3
    <2>17. asked <= PairSteps \/ h >= PairSteps
      <3>1. PairSteps \in Nat
        BY PairStepsNatural
      <3>2. CASE Len(handled) >= PairSteps
        <4>1. CASE PairSteps = 0
          BY <2>8, <4>1
        <4>2. CASE PairSteps # 0
          <5>1. snd.enc
            BY <2>15, <3>2, <4>2 DEF Switched
          <5> QED
            BY <2>6, <2>7, <5>1 DEF Switched
        <4> QED
          BY <4>1, <4>2
      <3> QED
        BY <2>15, <3>2
    <2>18. Counts'
      <3>1. rcv' = rcv /\ asked' = asked /\ toRcv' = toRcv /\ handled' = r.handled
        BY <2>1, <2>2
      <3>2. snd'.pending = Waiting(Len(r.handled), asked) /\ snd'.enc = Switched(Len(r.handled))
        BY <2>6, <2>7, <2>11, <2>16
      <3>3. rcv.replied <= rcv.read /\ rcv.read + Len(toRcv) = asked /\ rcv.enc = Switched(rcv.replied)
        BY DEF Counts
      <3> QED
        BY <2>7, <2>17, <3>1, <3>2, <3>3 DEF Counts
    <2>19. Requested'
      <3>1. snd'.sendCtr = snd.sendCtr /\ (~snd'.enc => snd'.sendCtr = 0)
        <4>1. ~snd.enc => snd.sendCtr = 0
          BY DEF Requested
        <4>2. CASE r.paired
          <5>1. ~snd.enc
            BY <2>6, <4>2
          <5> QED
            BY <2>11, <4>1, <4>2, <5>1
        <4>3. CASE ~r.paired
          BY <2>11, <4>1, <4>3
        <4> QED
          BY <4>2, <4>3
      <3> QED
        BY <2>1, <3>1 DEF Requested
    <2>20. Going'
      <3>1. Fits(r, enc, ctr, left) /\ toSnd' = left
        BY <2>1, <2>2, <2>4
      <3>2. Situation(snd', rcv, toSnd', Len(r.handled), session, damaged)
        BY <2>2, <3>1 DEF Fits
      <3> QED
        BY <2>2, <3>2 DEF Going
    <2> QED
      BY <2>12, <2>13, <2>14, <2>18, <2>19, <2>20 DEF ControlInv
  <1> QED
    BY <1>1, <1>2

----------------------------------------------------------------------------
(* The sender reads text. *)

\* A piece of clear items is clear.
LEMMA ClearedParts ==
    ASSUME NEW C \in Seq(Items), Cleared(C), NEW m \in 0 .. Len(C)
    PROVE  /\ SubSeq(C, 1, m) \in Seq(Items) /\ Cleared(SubSeq(C, 1, m))
           /\ SubSeq(C, m + 1, Len(C)) \in Seq(Items) /\ Cleared(SubSeq(C, m + 1, Len(C)))
           /\ SubSeq(C, 1, m) \o SubSeq(C, m + 1, Len(C)) = C
  <1>1. PICK a, b : a = SubSeq(C, 1, m) /\ b = SubSeq(C, m + 1, Len(C))
    OBVIOUS
  <1>2. a \in Seq(Items) /\ Len(a) = m /\ (\A i \in 1 .. m : a[i] = C[i]) /\ a \o b = C
    BY <1>1, UpTo
  <1>3. b \in Seq(Items) /\ Len(b) = Len(C) - m /\ \A i \in 1 .. Len(C) - m : b[i] = C[i + m]
    BY <1>1, From
  <1>4. Len(C) \in Nat /\ m \in Nat /\ m <= Len(C)
    BY LenProperties
  <1>5. ASSUME NEW i \in 1 .. Len(a) PROVE a[i].half = 0 /\ Len(a[i].frame.plain) = 1
    <2>1. i \in 1 .. m /\ i \in 1 .. Len(C)
      BY <1>2, <1>4
    <2>2. a[i] = C[i]
      BY <1>2, <2>1
    <2> QED
      BY <2>1, <2>2 DEF Cleared
  <1>6. ASSUME NEW i \in 1 .. Len(b) PROVE b[i].half = 0 /\ Len(b[i].frame.plain) = 1
    <2>1. i \in 1 .. Len(C) - m /\ i + m \in 1 .. Len(C)
      BY <1>3, <1>4
    <2>2. b[i] = C[i + m]
      BY <1>3, <2>1
    <2> QED
      BY <2>1, <2>2 DEF Cleared
  <1> QED
    BY <1>1, <1>2, <1>3, <1>5, <1>6 DEF Cleared

\* In the clear, as far as the clear text goes.
LEMMA ReadsText ==
    ASSUME Typed, Done, InStep, Counts, Requested, live, NEW C, NEW I,
           ClearAt(snd, rcv, toSnd, Len(handled), session, damaged, C, I),
           NEW j \in 0 .. Len(C), onRtspReadyRead_(j)
    PROVE  ControlInv'
  <1>1. /\ ~snd.enc /\ snd.encBuf = <<>>
        /\ C \in Seq(Items) /\ I \in Seq(Items) /\ toSnd = C \o I
        /\ Cleared(C) /\ Framed(I, session, 0) /\ (damaged = 0 => Intact(I))
        /\ rcv.sendCtr = Complete(I) /\ (~rcv.enc => I = <<>>) /\ (I # <<>> => rcv.early)
        /\ Msgs(snd.rxBuf \o Text(C), Len(handled), rcv.replied, rcv.enc)
        /\ Msgs(All(I), rcv.replied, rcv.replied, FALSE)
    BY DEF ClearAt
  <1>2. PICK got, C2, left, text, F :
            /\ got = SubSeq(toSnd, 1, j) /\ C2 = SubSeq(C, j + 1, Len(C)) /\ left = C2 \o I
            /\ text = snd.rxBuf \o Text(got) /\ F = Text(C2)
    OBVIOUS
  <1>3. got = SubSeq(C, 1, j) /\ SubSeq(toSnd, j + 1, Len(toSnd)) = left
    <2>1. SubSeq(C \o I, 1, j) = SubSeq(C, 1, j)
      BY <1>1, CutFirst
    <2>2. SubSeq(C \o I, j + 1, Len(C \o I)) = SubSeq(C, j + 1, Len(C)) \o I
      BY <1>1, FromConcat
    <2> QED
      BY <1>1, <1>2, <2>1, <2>2
  <1>4. got \in Seq(Items) /\ Cleared(got) /\ C2 \in Seq(Items) /\ Cleared(C2) /\ got \o C2 = C
    BY <1>1, <1>2, <1>3, ClearedParts, ZenonT(60)
  <1>5. Text(got) \in Seq(Toks) /\ F \in Seq(Toks) /\ Text(C) = Text(got) \o F
    <2>1. /\ Text(got \o C2) = Text(got) \o Text(C2)
          /\ Text(got) \in Seq(Toks) /\ Text(C2) \in Seq(Toks)
      BY <1>4, ClearedConcat, Zenon
    <2> QED
      BY <1>2, <1>4, <2>1
  <1>6. snd \in SndSet /\ rcv \in RcvSet /\ snd.rxBuf \in Seq(Toks) /\ snd.recvCtr \in Nat
    BY DEF Typed, SndSet
  <1>7. text \in Seq(Toks) /\ text \o F = snd.rxBuf \o Text(C)
    <2>1. PICK u, v : u = snd.rxBuf /\ v = Text(got)
      OBVIOUS
    <2>2. u \in Seq(Toks) /\ v \in Seq(Toks) /\ F \in Seq(Toks)
      BY <1>5, <1>6, <2>1
    <2>3. (u \o v) \o F = u \o (v \o F) /\ u \o v \in Seq(Toks)
      BY ONLY <2>2, TextAssoc, SMTT(60)
    <2> QED
      BY <1>2, <1>5, <2>1, <2>3
  <1>8. PICK M \in Seq(HeadSet) : /\ text \o F = Whole(M) /\ Numbers(M, Len(handled), rcv.replied)
                                  /\ rcv.enc => M = <<>> \/ M[Len(M)].kind = "reply"
    BY <1>1, <1>7 DEF Msgs
  <1>9. PICK J : J = <<>>
    OBVIOUS
  <1>10. J \in Seq(Toks) /\ Junk(J) /\ text = text \o J
    BY <1>7, <1>9, ConcatNone DEF Junk
  <1>11. Inside(Begun(text), text, M, J, F, rcv.replied, rcv.enc, snd.enc, asked)
    BY <1>7, <1>8, <1>10, StartsInside
  <1>12. left \in Seq(Items)
    BY <1>1, <1>2, <1>4, Concatenation
  <1>13. PICK enc, ctr : enc = snd.encBuf /\ ctr = snd.recvCtr
    OBVIOUS
  <1>14. enc \in Seq(Items) /\ ctr \in Nat /\ enc = <<>>
    BY <1>1, <1>6, <1>13 DEF SndSet
  <1>15. /\ Consume(text, enc, ctr) /\ (Oversized(text) \/ toSnd' = left)
         /\ UNCHANGED <<session, rcv, asked, damaged>>
    <2>1. /\ toSnd' = SubSeq(toSnd, j + 1, Len(toSnd)) \/ Oversized(text)
          /\ Consume(text, enc, ctr)
          /\ UNCHANGED <<session, rcv, asked, damaged>>
      BY <1>1, <1>2, <1>13 DEF onRtspReadyRead_
    <2> QED
      BY <1>3, <2>1
  <1>16. ASSUME NEW r \in Dispatched(text), Left(r, J, F, rcv.replied, rcv.enc, snd.enc, asked)
         PROVE  Fits(r, enc, ctr, left)
    <2>1. PICK R, N : Inside(r, R, N, J, F, rcv.replied, rcv.enc, snd.enc, asked)
      BY <1>16 DEF Left
    <2>2. /\ r \in RSet /\ R \in Seq(Toks) /\ N \in Seq(HeadSet) /\ r.rest = R \o J
          /\ R \o F = Whole(N) /\ Numbers(N, Len(r.handled), rcv.replied)
          /\ rcv.enc => N = <<>> \/ N[Len(N)].kind = "reply"
          /\ r.paired = (~snd.enc /\ Switched(Len(r.handled)))
      BY <2>1 DEF Inside
    <2>3. r.rest = R
      BY <1>9, <2>2, ConcatNone
    <2>4. Msgs(r.rest \o Text(C2), Len(r.handled), rcv.replied, rcv.enc)
      BY <1>2, <2>2, <2>3 DEF Msgs
    <2>5. PICK x, h : x = After(r, enc, ctr) /\ h = Len(r.handled)
      OBVIOUS
    <2>6. /\ x \in SndSet /\ x.rxBuf = r.rest
          /\ ~r.paired => AsBefore(x, enc, ctr)
          /\ r.paired => Fresh(x)
      BY <1>6, <1>14, <2>2, <2>5, AfterFields
    <2>7. h \in Nat
      <3>1. r.handled \in Seq(Nat \X Nat)
        BY <2>2 DEF RSet
      <3> QED
        BY <2>5, <3>1, LenProperties
    <2>8. Situation(x, rcv, left, h, session, damaged)
      <3>1. CASE ~r.paired
        <4>1. ~x.enc /\ x.encBuf = <<>>
          BY <1>1, <1>14, <2>6, <3>1 DEF AsBefore
        <4>2. Msgs(x.rxBuf \o Text(C2), h, rcv.replied, rcv.enc)
          BY <2>4, <2>5, <2>6
        <4>3. ClearAt(x, rcv, left, h, session, damaged, C2, I)
          BY <1>1, <1>2, <1>4, <4>1, <4>2, Zenon DEF ClearAt
        <4> QED
          BY <4>3 DEF InClear, Situation
      <3>2. CASE r.paired
        <4>1. Switched(h)
          BY <2>2, <2>5, <3>2
        <4>2. /\ rcv.replied \in Nat /\ Len(handled) \in Nat /\ rcv.read \in Nat /\ Len(toRcv) \in Nat
              /\ asked \in Nat /\ Len(handled) <= rcv.replied /\ rcv.replied <= rcv.read
              /\ rcv.read + Len(toRcv) = asked
          BY SessionNumbers
        <4>3. h <= rcv.replied
          BY <2>2, <2>5, <2>7, <4>2, NumbersBound
        <4>4. PairSteps \in Nat /\ PairSteps # 0 /\ h >= PairSteps
          BY <4>1, PairStepsNatural DEF Switched
        <4>5. Switched(rcv.replied) /\ ~Switched(Len(handled))
          <5>1. rcv.replied >= PairSteps
            BY <2>7, <4>2, <4>3, <4>4
          <5> QED
            BY <1>1, <4>4, <5>1 DEF Switched, Counts
        <4>6. rcv.replied = PairSteps
          <5>1. Numbered(Len(handled), rcv.replied, rcv.read, Len(toRcv), asked)
            BY <4>2 DEF Numbered, Counts
          <5> QED
            BY <4>5, <5>1, PairingOf
        <4>7. h = rcv.replied
          BY <2>7, <4>2, <4>3, <4>4, <4>6
        <4>8. rcv.enc = TRUE
          BY <1>6, <4>5 DEF Counts, RcvSet
        <4>9. r.rest \o Text(C2) = <<>>
          BY <2>4, <2>5, <2>7, <4>7, <4>8, MsgsOver
        <4>10. r.rest = <<>> /\ C2 = <<>>
          <5>1. r.rest \in Seq(Toks) /\ Text(C2) \in Seq(Toks)
            BY <1>2, <1>5, <2>2, <2>3
          <5>2. Len(r.rest \o Text(C2)) = Len(r.rest) + Len(Text(C2)) /\ Len(r.rest) \in Nat /\ Len(Text(C2)) \in Nat
            BY <5>1, Concatenation
          <5>3. Len(<<>>) = 0
            OBVIOUS
          <5>4. Len(r.rest) = 0 /\ Len(Text(C2)) = 0
            BY <4>9, <5>2, <5>3
          <5>5. Len(C2) = 0
            BY <1>4, <5>4, ClearedText, TextType
          <5> QED
            BY <1>4, <5>1, <5>4, <5>5, EmptySeq
        <4>11. left = I
          BY <1>1, <1>2, <4>10, ConcatNone
        <4>12. x.enc = TRUE /\ x.recvCtr = 0 /\ x.encBuf = <<>> /\ x.rxBuf = <<>>
          BY <2>6, <3>2, <4>10 DEF Fresh
        <4>13. PICK a : a = All(I)
          OBVIOUS
        <4>14. Msgs(x.rxBuf \o All(I), h, rcv.replied, FALSE)
          <5>1. Msgs(a, h, rcv.replied, FALSE)
            BY <1>1, <4>7, <4>13
          <5>2. a \in Seq(Toks)
            BY <2>7, <4>2, <5>1, MsgsBound
          <5>3. <<>> \o a = a
            BY <5>2, ConcatNone
          <5> QED
            BY <4>12, <4>13, <5>1, <5>3
        <4>15. I = x.encBuf \o left
          BY <1>1, <4>11, <4>12, ConcatNone
        <4>16. rcv.sendCtr = x.recvCtr + Complete(I)
          <5>1. Complete(I) \in Nat
            BY <1>1, CompleteHalf DEF Items
          <5> QED
            BY <1>1, <4>12, <5>1
        <4>17. SealedBy(x, rcv, left, h, session, damaged, I)
          BY <1>1, <4>12, <4>14, <4>15, <4>16 DEF SealedBy
        <4> QED
          BY <4>17 DEF Sealed, Situation
      <3>3. r.paired \in BOOLEAN
        BY <2>2 DEF RSet
      <3> QED
        BY <3>1, <3>2, <3>3
    <2> QED
      BY <2>5, <2>8 DEF Fits
  <1> QED
    <2>1. rcv.replied \in Nat /\ rcv.replied <= rcv.replied
      BY SessionNumbers
    <2> QED
      BY <1>5, <1>7, <1>9, <1>10, <1>11, <1>12, <1>14, <1>15, <1>16, <2>1, ConsumeKeeps

----------------------------------------------------------------------------
(* The sender reads into sealed bytes as text. *)

\* The frames of I after the first k items, taken for text.
LEMMA FramedText ==
    ASSUME NEW I \in Seq(Items), NEW key, Framed(I, key, 0), NEW k \in 1 .. Len(I)
    PROVE  /\ SubSeq(I, 1, k) \in Seq(Items) /\ SubSeq(I, k + 1, Len(I)) \in Seq(Items)
           /\ \A i \in 1 .. Len(SubSeq(I, 1, k)) : SubSeq(I, 1, k)[i].half # 0
           /\ Late(SubSeq(I, k + 1, Len(I))) /\ Complete(I) > 0
  <1>1. PICK a, b : a = SubSeq(I, 1, k) /\ b = SubSeq(I, k + 1, Len(I))
    OBVIOUS
  <1>2. Len(I) \in Nat /\ k \in Nat /\ k >= 1 /\ k <= Len(I) /\ k \in 0 .. Len(I)
    BY LenProperties
  <1>3. a \in Seq(Items) /\ Len(a) = k /\ \A i \in 1 .. k : a[i] = I[i]
    BY <1>1, <1>2, UpTo
  <1>4. b \in Seq(Items) /\ Len(b) = Len(I) - k /\ \A i \in 1 .. Len(I) - k : b[i] = I[i + k]
    BY <1>1, <1>2, From
  <1>5. \A i \in 1 .. Len(I) : I[i].half = IF i % 2 = 1 THEN 1 ELSE 2
    BY DEF Framed
  <1>6. /\ Len(I) % 2 = 0
        /\ \A j \in 1 .. Complete(I) : FrameAt(I, j).key = key /\ FrameAt(I, j).ctr = 0 + j - 1
    BY DEF Framed
  <1>7. Complete(I) \in Nat /\ Len(I) = 2 * Complete(I)
    BY <1>6, CompleteHalf DEF Items
  <1>8. \A i \in 1 .. Len(a) : a[i].half # 0
    <2> SUFFICES ASSUME NEW i \in 1 .. Len(a) PROVE a[i].half # 0
      OBVIOUS
    <2>1. i \in 1 .. k /\ i \in 1 .. Len(I)
      BY <1>2, <1>3
    <2>2. a[i] = I[i] /\ I[i].half = IF i % 2 = 1 THEN 1 ELSE 2
      BY <1>3, <1>5, <2>1
    <2> QED
      BY <2>2
  <1>9. Late(b)
    <2> SUFFICES ASSUME b # <<>>, b[1].half = 1 PROVE b[1].frame.ctr # 0
      BY DEF Late
    <2>1. Len(b) > 0
      BY <1>4, EmptySeq, LenProperties
    <2>2. 1 \in 1 .. Len(I) - k /\ k + 1 \in 1 .. Len(I)
      BY <1>2, <1>4, <2>1
    <2>3. b[1] = I[1 + k] /\ 1 + k = k + 1
      BY <1>2, <1>4, <2>2
    <2>4. I[k + 1].half = IF (k + 1) % 2 = 1 THEN 1 ELSE 2
      BY <1>5, <2>2
    <2>5. (k + 1) % 2 = 1
      BY <2>3, <2>4
    <2>6. PICK m \in Nat : k + 1 = 2 * m - 1 /\ m > 1
      <3>1. PICK m : m = (k + 2) \div 2
        OBVIOUS
      <3>2. m \in Nat /\ k + 1 = 2 * m - 1 /\ m > 1
        BY <1>2, <2>5, <3>1
      <3> QED
        BY <3>2
    <2>7. m \in 1 .. Complete(I)
      BY <1>7, <2>2, <2>6
    <2>8. FrameAt(I, m).ctr = 0 + m - 1 /\ FrameAt(I, m) = I[k + 1].frame
      BY <1>6, <2>6, <2>7 DEF FrameAt
    <2> QED
      BY <2>3, <2>6, <2>8
  <1>10. Complete(I) > 0
    BY <1>2, <1>7
  <1> QED
    BY <1>1, <1>3, <1>4, <1>8, <1>9, <1>10

\* In the clear, into what the receiver has sealed.
LEMMA ReadsBeyond ==
    ASSUME Typed, Done, InStep, Counts, Requested, live, NEW C, NEW I,
           ClearAt(snd, rcv, toSnd, Len(handled), session, damaged, C, I),
           NEW k \in 1 .. Len(I), onRtspReadyRead_(Len(C) + k)
    PROVE  ControlInv'
  <1>1. /\ ~snd.enc /\ snd.encBuf = <<>>
        /\ C \in Seq(Items) /\ I \in Seq(Items) /\ toSnd = C \o I
        /\ Cleared(C) /\ Framed(I, session, 0)
        /\ rcv.sendCtr = Complete(I) /\ (~rcv.enc => I = <<>>) /\ (I # <<>> => rcv.early)
        /\ Msgs(snd.rxBuf \o Text(C), Len(handled), rcv.replied, rcv.enc)
    BY DEF ClearAt
  <1>2. PICK j, got, I1, left, text, Q, J, F :
            /\ j = Len(C) + k /\ got = SubSeq(toSnd, 1, j)
            /\ I1 = SubSeq(I, 1, k) /\ left = SubSeq(I, k + 1, Len(I))
            /\ text = snd.rxBuf \o Text(got) /\ Q = snd.rxBuf \o Text(C) /\ J = Text(I1) /\ F = <<>>
    OBVIOUS
  <1>3. k \in 0 .. Len(I) /\ I # <<>> /\ Len(I) \in Nat
    <2>1. Len(<<>>) = 0
      OBVIOUS
    <2>2. Len(I) \in Nat /\ k \in Nat /\ k >= 1 /\ k <= Len(I)
      BY <1>1, LenProperties
    <2> QED
      BY <2>1, <2>2
  <1>4. got = C \o I1 /\ SubSeq(toSnd, j + 1, Len(toSnd)) = left
    <2>1. /\ SubSeq(C \o I, 1, Len(C) + k) = C \o SubSeq(I, 1, k)
          /\ SubSeq(C \o I, Len(C) + k + 1, Len(C \o I)) = SubSeq(I, k + 1, Len(I))
      BY <1>1, <1>3, CutSecond
    <2> QED
      BY <1>1, <1>2, <2>1
  <1>5. /\ I1 \in Seq(Items) /\ left \in Seq(Items) /\ (\A i \in 1 .. Len(I1) : I1[i].half # 0)
        /\ Late(left) /\ Complete(I) > 0
    BY <1>1, <1>2, FramedText
  <1>6. J \in Seq(Toks) /\ Junk(J)
    BY <1>2, <1>5, TextJunk
  <1>7. snd \in SndSet /\ rcv \in RcvSet /\ snd.rxBuf \in Seq(Toks) /\ snd.recvCtr \in Nat
    BY DEF Typed, SndSet
  <1>8. Text(C) \in Seq(Toks) /\ Text(got) = Text(C) \o J
    <2>1. \A i \in 1 .. Len(C) : C[i].half = 0 => Len(C[i].frame.plain) = 1
      BY <1>1, ClearedText
    <2>2. \A i \in 1 .. Len(I1) : I1[i].half = 0 => Len(I1[i].frame.plain) = 1
      BY <1>5
    <2>3. Text(C \o I1) = Text(C) \o Text(I1)
      BY <1>1, <1>5, <2>1, <2>2, TextConcat
    <2>4. Text(C) \in Seq(Toks)
      BY <1>1, <2>1, TextType
    <2> QED
      BY <1>2, <1>4, <2>3, <2>4
  <1>9. Q \in Seq(Toks) /\ text \in Seq(Toks) /\ text = Q \o J
    <2>1. PICK u, v : u = snd.rxBuf /\ v = Text(C)
      OBVIOUS
    <2>2. u \in Seq(Toks) /\ v \in Seq(Toks) /\ J \in Seq(Toks)
      BY <1>6, <1>7, <1>8, <2>1
    <2>3. (u \o v) \o J = u \o (v \o J) /\ u \o v \in Seq(Toks)
      BY ONLY <2>2, TextAssoc, SMTT(60)
    <2>4. Q \o J \in Seq(Toks)
      <3>1. Q \in Seq(Toks)
        BY <1>2, <2>1, <2>3
      <3> QED
        BY <1>6, <3>1, Concatenation
    <2> QED
      BY <1>2, <1>8, <2>1, <2>3, <2>4
  <1>10. F \in Seq(Toks) /\ Q \o F = Q
    BY <1>2, <1>9, ConcatNone
  <1>11. PICK M \in Seq(HeadSet) : /\ Q \o F = Whole(M) /\ Numbers(M, Len(handled), rcv.replied)
                                   /\ rcv.enc => M = <<>> \/ M[Len(M)].kind = "reply"
    BY <1>1, <1>2, <1>10 DEF Msgs
  <1>12. Inside(Begun(text), Q, M, J, F, rcv.replied, rcv.enc, snd.enc, asked)
    BY <1>6, <1>9, <1>11, StartsInside
  <1>13. PICK enc, ctr : enc = snd.encBuf /\ ctr = snd.recvCtr
    OBVIOUS
  <1>14. enc \in Seq(Items) /\ ctr \in Nat
    BY <1>7, <1>13 DEF SndSet
  <1>15. /\ Consume(text, enc, ctr) /\ (Oversized(text) \/ toSnd' = left)
         /\ UNCHANGED <<session, rcv, asked, damaged>>
    <2>1. /\ toSnd' = SubSeq(toSnd, j + 1, Len(toSnd)) \/ Oversized(text)
          /\ Consume(text, enc, ctr)
          /\ UNCHANGED <<session, rcv, asked, damaged>>
      BY <1>1, <1>2, <1>13 DEF onRtspReadyRead_
    <2> QED
      BY <1>4, <2>1
  <1>16. ASSUME NEW r \in Dispatched(text), Left(r, J, F, rcv.replied, rcv.enc, snd.enc, asked)
         PROVE  Fits(r, enc, ctr, left)
    <2>1. PICK R, N : /\ Inside(r, R, N, J, F, rcv.replied, rcv.enc, snd.enc, asked)
                      /\ R = <<>> /\ N = <<>>
      BY <1>2, <1>16 DEF Left
    <2>2. /\ r \in RSet /\ r.rest = R \o J /\ Numbers(N, Len(r.handled), rcv.replied)
          /\ r.paired = (~snd.enc /\ Switched(Len(r.handled)))
      BY <2>1 DEF Inside
    <2>3. r.rest = J
      BY <1>6, <2>1, <2>2, ConcatNone
    <2>4. Len(r.handled) = rcv.replied
      BY <2>1, <2>2, NumbersNone
    <2>5. rcv.enc /\ rcv.early
      BY <1>1, <1>3, <1>7 DEF RcvSet
    <2>6. r.paired
      BY <1>1, <2>2, <2>4, <2>5 DEF Counts
    <2>7. PICK x : x = After(r, enc, ctr)
      OBVIOUS
    <2>8. x.rxBuf = r.rest /\ Fresh(x)
      BY <1>7, <1>14, <2>2, <2>6, <2>7, AfterFields
    <2>9. x.encBuf \o left = left
      BY <1>5, <2>8, ConcatNone DEF Fresh
    <2>10. Spoiled(x, rcv, left)
      BY <1>1, <1>5, <1>6, <2>3, <2>5, <2>8, <2>9 DEF Spoiled, Fresh
    <2> QED
      BY <2>7, <2>10 DEF Fits, Situation
  <1> QED
    <2>1. rcv.replied \in Nat /\ rcv.replied <= rcv.replied
      BY SessionNumbers
    <2> QED
      BY <1>2, <1>5, <1>6, <1>9, <1>10, <1>12, <1>14, <1>15, <1>16, <2>1, ConsumeKeeps

----------------------------------------------------------------------------
(* The sender reads frames. *)

\* What a segment adds to the ciphertext that waits, and what it leaves.
LEMMA SegmentSplits ==
    ASSUME Typed, NEW j \in 0 .. Len(toSnd)
    PROVE  /\ snd.encBuf \o SubSeq(toSnd, 1, j) \in Seq(Items)
           /\ SubSeq(toSnd, j + 1, Len(toSnd)) \in Seq(Items)
           /\ snd.encBuf \o toSnd \in Seq(Items)
           /\ (snd.encBuf \o SubSeq(toSnd, 1, j)) \o SubSeq(toSnd, j + 1, Len(toSnd)) = snd.encBuf \o toSnd
  <1>1. PICK e, got, left : /\ e = snd.encBuf /\ got = SubSeq(toSnd, 1, j)
                            /\ left = SubSeq(toSnd, j + 1, Len(toSnd))
    OBVIOUS
  <1>2. e \in Seq(Items) /\ toSnd \in Seq(Items)
    BY <1>1 DEF Typed, SndSet
  <1>3. got \in Seq(Items) /\ left \in Seq(Items) /\ got \o left = toSnd
    BY <1>1, <1>2, UpTo, From
  <1>4. (e \o got) \o left = e \o (got \o left) /\ e \o got \in Seq(Items)
    <2>1. e \in Seq(Items) /\ got \in Seq(Items) /\ left \in Seq(Items)
      BY <1>2, <1>3
    <2> QED
      BY ONLY <2>1, ItemsAssoc, ZenonT(60)
  <1>5. e \o toSnd \in Seq(Items)
    BY ONLY <1>2, Concatenation
  <1> QED
    BY <1>1, <1>3, <1>4, <1>5

\* Encrypted at both ends.
LEMMA ReadsSealed ==
    ASSUME Typed, Done, InStep, Counts, Requested, live, NEW I,
           SealedBy(snd, rcv, toSnd, Len(handled), session, damaged, I),
           NEW j \in 0 .. Len(toSnd), onRtspReadyRead_(j)
    PROVE  ControlInv'
  <1>1. /\ snd.enc /\ I = snd.encBuf \o toSnd /\ I \in Seq(Items)
        /\ Framed(I, session, snd.recvCtr) /\ (damaged = 0 => Intact(I))
        /\ rcv.sendCtr = snd.recvCtr + Complete(I)
        /\ Msgs(snd.rxBuf \o All(I), Len(handled), rcv.replied, FALSE)
    BY DEF SealedBy
  <1>2. PICK got, left, buf, n :
            /\ got = SubSeq(toSnd, 1, j) /\ left = SubSeq(toSnd, j + 1, Len(toSnd))
            /\ buf = snd.encBuf \o got /\ n = Opened(buf, session, snd.recvCtr)
    OBVIOUS
  <1>3. buf \in Seq(Items) /\ left \in Seq(Items) /\ I = buf \o left
    BY <1>1, <1>2, SegmentSplits, Zenon
  <1>4. PICK m : m = Complete(buf)
    OBVIOUS
  <1>5. m \in Nat /\ Complete(I) \in Nat /\ m \in 0 .. Complete(buf) /\ snd.recvCtr \in Nat
        /\ snd \in SndSet /\ rcv \in RcvSet /\ snd.rxBuf \in Seq(Toks)
    <2>1. Complete(buf) \in Nat /\ Complete(I) \in Nat
      BY <1>1, <1>3, CompleteHalf DEF Items
    <2>2. snd \in SndSet /\ rcv \in RcvSet
      BY DEF Typed
    <2>3. snd.recvCtr \in Nat /\ snd.rxBuf \in Seq(Toks)
      BY <2>2 DEF SndSet
    <2> QED
      BY <1>4, <2>1, <2>2, <2>3
  <1>6. /\ Plain(I, m) = Plain(buf, m) /\ (\A i \in 1 .. m : FrameAt(I, i) = FrameAt(buf, i))
        /\ Rest(I, m) = Rest(buf, m) \o left /\ m <= Complete(I)
    <2>1. /\ Plain(buf \o left, m) = Plain(buf, m)
          /\ (\A i \in 1 .. m : FrameAt(buf \o left, i) = FrameAt(buf, i))
          /\ Rest(buf \o left, m) = Rest(buf, m) \o left /\ m <= Complete(buf \o left)
      BY <1>3, <1>5, PlainPrefix DEF Items
    <2> QED
      BY <1>3, <2>1
  <1>7. Aligned(buf)
    <2>1. CASE buf # <<>>
      <3>1. 1 \in 1 .. Len(buf) /\ Head(buf) = buf[1]
        BY <1>3, <2>1, EmptySeq, LenProperties
      <3>2. (buf \o left)[1] = buf[1] /\ Len(buf \o left) = Len(buf) + Len(left) /\ Len(left) \in Nat
            /\ Len(buf) \in Nat
        BY <1>3, <3>1, Concatenation
      <3>3. 1 \in 1 .. Len(I) /\ I[1] = buf[1]
        BY <1>3, <3>1, <3>2
      <3>4. I[1].half = IF 1 % 2 = 1 THEN 1 ELSE 2
        BY <1>1, <3>3 DEF Framed
      <3>5. 1 % 2 = 1
        OBVIOUS
      <3> QED
        BY <3>1, <3>3, <3>4, <3>5 DEF Aligned
    <2> QED
      BY <2>1 DEF Aligned
  <1>8. CASE Fail("auth") /\ (~Aligned(buf) \/ n < Complete(buf))
            /\ UNCHANGED <<session, rcv, asked, damaged>>
    <2>1. damaged > 0
      <3> SUFFICES ASSUME damaged = 0 PROVE FALSE
        <4>1. damaged \in Nat
          BY SessionNumbers
        <4> QED
          BY <4>1
      <3>1. \A i \in 1 .. Complete(buf) : Opens(FrameAt(buf, i), session, snd.recvCtr + i - 1)
        <4> SUFFICES ASSUME NEW i \in 1 .. Complete(buf)
                     PROVE  Opens(FrameAt(buf, i), session, snd.recvCtr + i - 1)
          OBVIOUS
        <4>1. i \in 1 .. m /\ i \in 1 .. Complete(I)
          BY <1>4, <1>5, <1>6
        <4>2. /\ FrameAt(I, i).key = session /\ FrameAt(I, i).ctr = snd.recvCtr + i - 1
              /\ FrameAt(I, i).intact
          BY <1>1, <4>1 DEF Framed, Intact
        <4>3. FrameAt(I, i) = FrameAt(buf, i)
          BY <1>6, <4>1
        <4> QED
          BY <4>2, <4>3 DEF Opens
      <3>2. n = Complete(buf)
        BY <1>2, <1>3, <1>5, <3>1, OpenedAll
      <3> QED
        BY <1>4, <1>5, <1>8, <1>7, <3>2
    <2> QED
      BY <1>8, <2>1, FailKeeps
  <1>9. CASE /\ Aligned(buf) /\ n = m
             /\ toSnd' = left \/ Oversized(snd.rxBuf \o Plain(buf, n))
             /\ Consume(snd.rxBuf \o Plain(buf, n), Rest(buf, n), snd.recvCtr + n)
             /\ UNCHANGED <<session, rcv, asked, damaged>>
    <2>1. PICK P, text, enc, ctr, F : /\ P = Plain(buf, m) /\ text = snd.rxBuf \o P
                                      /\ enc = Rest(buf, m) /\ ctr = snd.recvCtr + m
                                      /\ F = All(Rest(I, m))
      OBVIOUS
    <2>2. P \in Seq(Toks) /\ enc \in Seq(Items) /\ ctr \in Nat
      BY <1>3, <1>5, <2>1, PlainType, RestShape, SMTT(60) DEF Items
    <2>3. /\ Framed(Rest(I, m), session, snd.recvCtr + m)
          /\ Complete(Rest(I, m)) = Complete(I) - m
          /\ Intact(I) => Intact(Rest(I, m))
          /\ All(I) = Plain(I, m) \o All(Rest(I, m))
      <3>1. m \in 0 .. Complete(I)
        BY <1>5, <1>6
      <3> QED
        BY <1>1, <1>5, <3>1, FramedRest DEF Items
    <2>4. Rest(I, m) \in Seq(Items) /\ F \in Seq(Toks)
      <3>1. m \in 0 .. Complete(I)
        BY <1>5, <1>6
      <3>2. Rest(I, m) \in Seq(Items) /\ Complete(Rest(I, m)) \in 0 .. Complete(Rest(I, m))
        <4>1. Rest(I, m) \in Seq(Items)
          BY <1>1, <3>1, RestShape DEF Items
        <4> QED
          BY <4>1, CompleteHalf DEF Items
      <3>3. Plain(Rest(I, m), Complete(Rest(I, m))) \in Seq(Toks)
        BY <3>2, PlainType DEF Items
      <3> QED
        BY <2>1, <3>2, <3>3 DEF All
    <2>5. text \in Seq(Toks) /\ text \o F = snd.rxBuf \o All(I)
      <3>1. PICK u : u = snd.rxBuf
        OBVIOUS
      <3>2. u \in Seq(Toks) /\ P \in Seq(Toks) /\ F \in Seq(Toks)
        BY <1>5, <2>2, <2>4, <3>1
      <3>3. (u \o P) \o F = u \o (P \o F) /\ u \o P \in Seq(Toks)
        BY ONLY <3>2, TextAssoc
      <3> QED
        BY <1>6, <2>1, <2>3, <3>1, <3>3
    <2>6. PICK M \in Seq(HeadSet) : /\ text \o F = Whole(M) /\ Numbers(M, Len(handled), rcv.replied)
                                    /\ FALSE => M = <<>> \/ M[Len(M)].kind = "reply"
      BY <1>1, <2>5 DEF Msgs
    <2>7. PICK J : J = <<>>
      OBVIOUS
    <2>8. J \in Seq(Toks) /\ Junk(J) /\ text = text \o J
      BY <2>5, <2>7, ConcatNone DEF Junk
    <2>9. Inside(Begun(text), text, M, J, F, rcv.replied, FALSE, snd.enc, asked)
      BY <2>5, <2>6, <2>8, StartsInside
    <2>10. /\ Consume(text, enc, ctr) /\ (Oversized(text) \/ toSnd' = left)
           /\ UNCHANGED <<session, rcv, asked, damaged>>
      BY <1>9, <2>1
    <2>11. ASSUME NEW r \in Dispatched(text), Left(r, J, F, rcv.replied, FALSE, snd.enc, asked)
           PROVE  Fits(r, enc, ctr, left)
      <3>1. PICK R, N : Inside(r, R, N, J, F, rcv.replied, FALSE, snd.enc, asked)
        BY <2>11 DEF Left
      <3>2. /\ r \in RSet /\ R \in Seq(Toks) /\ N \in Seq(HeadSet) /\ r.rest = R \o J
            /\ R \o F = Whole(N) /\ Numbers(N, Len(r.handled), rcv.replied)
            /\ r.paired = (~snd.enc /\ Switched(Len(r.handled)))
        BY <3>1 DEF Inside
      <3>3. r.rest = R
        BY <2>7, <3>2, ConcatNone
      <3>4. Msgs(r.rest \o All(Rest(I, m)), Len(r.handled), rcv.replied, FALSE)
        BY <2>1, <3>2, <3>3 DEF Msgs
      <3>5. PICK x : x = After(r, enc, ctr)
        OBVIOUS
      <3>6. x.rxBuf = r.rest /\ AsBefore(x, enc, ctr)
        <4>1. ~r.paired
          BY <1>1, <3>2
        <4> QED
          BY <1>5, <2>2, <3>2, <3>5, <4>1, AfterFields
      <3>7. x.enc /\ x.encBuf = enc /\ x.recvCtr = ctr
        BY <1>1, <3>6 DEF AsBefore
      <3>8. rcv.sendCtr = x.recvCtr + Complete(Rest(I, m))
        BY <1>1, <1>5, <1>6, <2>1, <2>3, <3>7
      <3>9. SealedBy(x, rcv, left, Len(r.handled), session, damaged, Rest(I, m))
        BY <1>1, <1>6, <2>1, <2>3, <2>4, <3>4, <3>6, <3>7, <3>8, Zenon DEF SealedBy
      <3> QED
        BY <3>5, <3>9 DEF Fits, Situation, Sealed
    <2>12. rcv.replied \in Nat /\ rcv.replied <= rcv.replied
      BY SessionNumbers
    <2> QED
      BY <1>3, <2>2, <2>4, <2>5, <2>7, <2>8, <2>9, <2>10, <2>11, <2>12, ConsumeKeeps
  <1> QED
    <2>1. \/ /\ Aligned(buf) /\ n = Complete(buf)
             /\ toSnd' = left
             /\ Consume(snd.rxBuf \o Plain(buf, n), Rest(buf, n), snd.recvCtr + n)
             /\ UNCHANGED <<session, rcv, asked, damaged>>
          \/ /\ Fail("auth") /\ (~Aligned(buf) \/ n < Complete(buf))
             /\ UNCHANGED <<session, rcv, asked, damaged>>
      BY <1>1, <1>2, <1>7, ZenonT(60) DEF onRtspReadyRead_
    <2> QED
      BY <1>4, <1>8, <1>9, <2>1

----------------------------------------------------------------------------
(* The sender has lost the stream. *)

\* After a request pushed too early: the next frame does not open, or more is
\* waited for.
LEMMA ReadsSpoiled ==
    ASSUME Typed, Done, InStep, Counts, Requested, live, Spoiled(snd, rcv, toSnd),
           NEW j \in 0 .. Len(toSnd), onRtspReadyRead_(j)
    PROVE  ControlInv'
  <1>1. /\ snd.enc /\ rcv.early /\ snd.recvCtr = 0 /\ rcv.sendCtr > 0 /\ Junk(snd.rxBuf)
        /\ Late(snd.encBuf \o toSnd)
    BY DEF Spoiled
  <1>2. PICK got, left, buf, n :
            /\ got = SubSeq(toSnd, 1, j) /\ left = SubSeq(toSnd, j + 1, Len(toSnd))
            /\ buf = snd.encBuf \o got /\ n = Opened(buf, session, snd.recvCtr)
    OBVIOUS
  <1>3. buf \in Seq(Items) /\ left \in Seq(Items) /\ snd.encBuf \o toSnd = buf \o left
    BY <1>2, SegmentSplits, Zenon
  <1>4. PICK m : m = Complete(buf)
    OBVIOUS
  <1>5. m \in Nat
    BY <1>3, <1>4, CompleteHalf DEF Items
  <1>6. snd \in SndSet /\ rcv \in RcvSet /\ snd.rxBuf \in Seq(Toks)
    BY DEF Typed, SndSet
  <1>7. CASE Fail("auth") /\ UNCHANGED <<session, rcv, asked, damaged>>
    BY <1>1, <1>7, FailKeeps
  <1>8. CASE /\ toSnd' = left \/ Oversized(snd.rxBuf)
             /\ Consume(snd.rxBuf, buf, snd.recvCtr)
             /\ UNCHANGED <<session, rcv, asked, damaged>>
    <2>2. PICK text, enc, ctr : /\ text = snd.rxBuf /\ enc = buf /\ ctr = snd.recvCtr
      OBVIOUS
    <2>5. /\ Consume(text, enc, ctr) /\ (Oversized(text) \/ toSnd' = left)
          /\ UNCHANGED <<session, rcv, asked, damaged>>
      BY <1>8, <2>2
    <2>6. PICK Q, M, F, J : Q = <<>> /\ M = <<>> /\ F = <<>> /\ J = text
      OBVIOUS
    <2>7. /\ Q \in Seq(Toks) /\ M \in Seq(HeadSet) /\ F \in Seq(Toks) /\ J \in Seq(Toks) /\ Junk(J)
          /\ text \in Seq(Toks) /\ enc \in Seq(Items) /\ ctr \in Nat
      BY <1>1, <1>3, <1>6, <2>2, <2>6, ConcatNone
    <2>8. text = Q \o J /\ Q \o F = Whole(M)
      <3>1. <<>> \o text = text /\ <<>> \o <<>> = <<>>
        BY <2>7, ConcatNone
      <3> QED
        BY <2>6, <3>1, WholeEmpty
    <2>9. PICK b : b = Len(handled)
      OBVIOUS
    <2>10. b \in Nat /\ b <= rcv.replied
      BY <2>9, SessionNumbers
    <2>11. Numbers(M, Len(handled), b)
      BY <2>6, <2>9, <2>10, NumbersEmpty
    <2>12. Inside(Begun(text), Q, M, J, F, b, FALSE, snd.enc, asked)
      BY <2>7, <2>8, <2>11, StartsInside
    <2>13. ASSUME NEW r \in Dispatched(text), Left(r, J, F, b, FALSE, snd.enc, asked)
           PROVE  Fits(r, enc, ctr, left)
      <3>1. PICK R, N : Inside(r, R, N, J, F, b, FALSE, snd.enc, asked) /\ R = <<>>
        BY <2>6, <2>13 DEF Left
      <3>2. /\ r \in RSet /\ r.rest = R \o J /\ r.paired = (~snd.enc /\ Switched(Len(r.handled)))
        BY <3>1 DEF Inside
      <3>3. r.rest = J
        BY <2>7, <3>1, <3>2, ConcatNone
      <3>4. PICK x : x = After(r, enc, ctr)
        OBVIOUS
      <3>5. x.rxBuf = r.rest /\ AsBefore(x, enc, ctr)
        <4>1. ~r.paired
          BY <1>1, <3>2
        <4> QED
          BY <1>6, <2>7, <3>2, <3>4, <4>1, AfterFields
      <3>6. Spoiled(x, rcv, left)
        BY <1>1, <1>3, <2>2, <2>7, <3>3, <3>5 DEF Spoiled, AsBefore
      <3> QED
        BY <3>4, <3>6 DEF Fits, Situation
    <2> QED
      BY <1>3, <2>5, <2>6, <2>7, <2>10, <2>12, <2>13, ConsumeKeeps
  <1>9. CASE /\ Aligned(buf) /\ n = m
             /\ toSnd' = left \/ Oversized(snd.rxBuf \o Plain(buf, n))
             /\ Consume(snd.rxBuf \o Plain(buf, n), Rest(buf, n), snd.recvCtr + n)
             /\ UNCHANGED <<session, rcv, asked, damaged>>
    <2>1. m = 0
      <3> SUFFICES ASSUME m > 0 PROVE FALSE
        BY <1>5
      <3>1. Len(buf) \in Nat /\ Len(buf) >= m /\ Len(left) \in Nat
        BY <1>3, <1>4, CompleteHalf, LenProperties DEF Items
      <3>2. buf # <<>> /\ 1 \in 1 .. Len(buf) /\ Head(buf) = buf[1]
        <4>1. Len(<<>>) = 0
          OBVIOUS
        <4>2. Len(buf) > 0
          BY <1>5, <3>1
        <4> QED
          BY <1>3, <3>1, <4>1, <4>2
      <3>3. buf[1].half = 1
        BY <1>9, <3>2 DEF Aligned
      <3>4. (buf \o left)[1] = buf[1] /\ buf \o left # <<>>
        <4>1. (buf \o left)[1] = buf[1] /\ Len(buf \o left) = Len(buf) + Len(left)
          BY <1>3, <3>2, Concatenation
        <4>2. Len(<<>>) = 0 /\ Len(buf \o left) # 0
          BY <3>1, <3>2, <4>1
        <4> QED
          BY <4>1, <4>2
      <3>5. buf[1].frame.ctr # 0
        BY <1>1, <1>3, <3>3, <3>4 DEF Late
      <3>6. FrameAt(buf, 1) = buf[1].frame
        BY DEF FrameAt
      <3>7. ~Opens(FrameAt(buf, 1), session, snd.recvCtr)
        BY <1>1, <3>5, <3>6 DEF Opens
      <3>8. n = 0
        <4>1. snd.recvCtr \in Nat /\ Complete(buf) > 0 /\ buf \in Seq(Items)
          BY <1>1, <1>3, <1>4
        <4>2. Opened(buf, session, snd.recvCtr) = 0
          BY <3>7, <4>1, OpenedNone
        <4> QED
          BY <1>2, <4>2
      <3> QED
        BY <1>9, <3>8
    <2>3. Plain(buf, 0) = <<>>
      <3>1. Plain(buf, 0) = FlattenSeq(<<>>)
        BY DEF Plain
      <3> QED
        BY <3>1, FlattenEmpty
    <2>4. Rest(buf, 0) = buf
      <3>1. Len(buf) \in Nat
        BY <1>3, LenProperties
      <3>2. PICK o : o = Rest(buf, 0)
        OBVIOUS
      <3>3. o \in Seq(Items) /\ Len(o) = Len(buf) - 2 * 0 /\ \A i \in 1 .. Len(buf) - 2 * 0 : o[i] = buf[i + 2 * 0]
        <4>1. 0 \in 0 .. Complete(buf)
          BY <1>4, <1>5
        <4> QED
          BY <1>3, <3>2, <4>1, RestShape DEF Items
      <3>4. Len(o) = Len(buf) /\ \A i \in 1 .. Len(o) : o[i] = buf[i]
        BY <3>1, <3>3
      <3> QED
        BY <1>3, <3>2, <3>3, <3>4, SeqEqual
    <2>5. snd.rxBuf \o Plain(buf, n) = snd.rxBuf /\ Rest(buf, n) = buf /\ snd.recvCtr + n = snd.recvCtr
      <3>1. snd.rxBuf \o <<>> = snd.rxBuf
        BY <1>6, ConcatNone
      <3>2. snd.recvCtr + 0 = snd.recvCtr
        BY <1>1
      <3> QED
        BY <1>9, <2>1, <2>3, <2>4, <3>1, <3>2
    <2> QED
      BY <1>8, <1>9, <2>5
  <1> QED
    <2>1. \/ /\ Aligned(buf) /\ n = Complete(buf)
             /\ toSnd' = left
             /\ Consume(snd.rxBuf \o Plain(buf, n), Rest(buf, n), snd.recvCtr + n)
             /\ UNCHANGED <<session, rcv, asked, damaged>>
          \/ /\ toSnd' = left
             /\ Consume(snd.rxBuf, buf, snd.recvCtr)
             /\ UNCHANGED <<session, rcv, asked, damaged>>
          \/ /\ Fail("auth")
             /\ UNCHANGED <<session, rcv, asked, damaged>>
      BY <1>1, <1>2, ZenonT(60) DEF onRtspReadyRead_
    <2> QED
      BY <1>4, <1>7, <1>8, <1>9, <2>1

\* Wherever the segment is cut.
LEMMA ReceivingKeeps ==
    ASSUME Typed, Done, InStep, Counts, Requested, Going, NEW j \in 1 .. Len(toSnd),
           onRtspReadyRead_(j)
    PROVE  ControlInv'
  <1>1. live
    BY DEF onRtspReadyRead_
  <1>2. Len(toSnd) \in Nat /\ j \in 0 .. Len(toSnd)
    BY LenProperties DEF Typed
  <1>3. CASE InClear(snd, rcv, toSnd, Len(handled), session, damaged)
    <2>1. PICK C, I : ClearAt(snd, rcv, toSnd, Len(handled), session, damaged, C, I)
      BY <1>3 DEF InClear
    <2>2. C \in Seq(Items) /\ I \in Seq(Items) /\ toSnd = C \o I
      BY <2>1 DEF ClearAt
    <2>3. Len(toSnd) = Len(C) + Len(I) /\ Len(C) \in Nat /\ Len(I) \in Nat
      BY <2>2, Concatenation
    <2>4. CASE j <= Len(C)
      <3>1. j \in 0 .. Len(C)
        BY <1>2, <2>3, <2>4
      <3> QED
        BY <1>1, <2>1, <3>1, ReadsText
    <2>5. CASE j > Len(C)
      <3>1. PICK k : k = j - Len(C)
        OBVIOUS
      <3>2. k \in 1 .. Len(I) /\ j = Len(C) + k
        BY <1>2, <2>3, <2>5, <3>1
      <3>3. onRtspReadyRead_(Len(C) + k)
        BY <3>2
      <3> QED
        BY <1>1, <2>1, <3>2, <3>3, ReadsBeyond
    <2>6. j <= Len(C) \/ j > Len(C)
      BY <1>2, <2>3
    <2> QED
      BY <2>4, <2>5, <2>6
  <1>4. CASE Sealed(snd, rcv, toSnd, Len(handled), session, damaged)
    <2>1. PICK I : SealedBy(snd, rcv, toSnd, Len(handled), session, damaged, I)
      BY <1>4 DEF Sealed
    <2> QED
      BY <1>1, <1>2, <2>1, ReadsSealed
  <1>5. CASE Spoiled(snd, rcv, toSnd)
    BY <1>1, <1>2, <1>5, ReadsSpoiled
  <1> QED
    BY <1>3, <1>4, <1>5 DEF Going, Situation

----------------------------------------------------------------------------
(* The theorems. *)

\* The invariant holds at first.
LEMMA InitControl ==
    ASSUME Init
    PROVE  ControlInv
  <1>1. /\ session = 0 /\ failed = "over" /\ snd = NewSnd /\ rcv = NewRcv
        /\ toRcv = <<>> /\ toSnd = <<>> /\ handled = <<>> /\ asked = 0 /\ damaged = 0
    BY DEF Init
  <1>2. MaxRequests \in Nat /\ MaxSessions \in Nat /\ MaxDamage \in Nat /\ Cap \in Nat
    BY ControlAssumption
  <1>3. NewSnd \in SndSet /\ NewSnd.rxBuf = <<>> /\ NewSnd.pending = <<>>
    BY DEF NewSnd, SndSet
  <1>4. NewRcv \in RcvSet /\ NewRcv.replied = 0 /\ NewRcv.inStep = TRUE
    BY DEF NewRcv, RcvSet
  <1>5. Len(<<>>) = 0 /\ <<>> \in Seq(Items) /\ <<>> \in Seq(Seq(Items)) /\ <<>> \in Seq(Nat \X Nat)
        /\ <<>> \in Seq(1 .. MaxRequests)
    OBVIOUS
  <1>6. Typed
    BY <1>1, <1>2, <1>3, <1>4, <1>5 DEF Typed
  <1>7. Done
    BY <1>1, <1>4, <1>5 DEF Done
  <1>8. InStep /\ ~live
    BY <1>1, <1>4 DEF InStep, live
  <1> QED
    BY <1>6, <1>7, <1>8 DEF ControlInv

\* A new session.
LEMMA StartKeeps ==
    ASSUME Typed, Start
    PROVE  ControlInv'
  <1>1. /\ session < MaxSessions /\ session' = session + 1 /\ failed' = "no"
        /\ snd' = NewSnd /\ rcv' = NewRcv
        /\ toRcv' = <<>> /\ toSnd' = <<>> /\ handled' = <<>> /\ asked' = 0 /\ damaged' = 0
    BY DEF Start
  <1>2. MaxRequests \in Nat /\ MaxSessions \in Nat /\ MaxDamage \in Nat /\ Cap \in Nat
    BY ControlAssumption
  <1>3. NewSnd \in SndSet /\ NewSnd.rxBuf = <<>> /\ NewSnd.pending = <<>> /\ NewSnd.enc = FALSE
        /\ NewSnd.sendCtr = 0 /\ NewSnd.encBuf = <<>>
    BY DEF NewSnd, SndSet
  <1>4. NewRcv \in RcvSet /\ NewRcv.replied = 0 /\ NewRcv.inStep = TRUE /\ NewRcv.read = 0
        /\ NewRcv.enc = FALSE /\ NewRcv.recvCtr = 0 /\ NewRcv.sendCtr = 0
    BY DEF NewRcv, RcvSet
  <1>5. Len(<<>>) = 0 /\ <<>> \in Seq(Items) /\ <<>> \in Seq(Seq(Items)) /\ <<>> \in Seq(Nat \X Nat)
        /\ <<>> \in Seq(1 .. MaxRequests) /\ <<>> \in Seq(Toks)
    OBVIOUS
  <1>6. session' \in 0 .. MaxSessions
    BY <1>1, <1>2 DEF Typed
  <1>7. Typed'
    BY <1>1, <1>2, <1>3, <1>4, <1>5, <1>6 DEF Typed
  <1>8. Done' /\ InStep'
    BY <1>1, <1>4, <1>5 DEF Done, InStep
  <1>9. ~Switched(0) /\ PairSteps \in Nat
    BY PairStepsNatural DEF Switched
  <1>10. Counts'
    <2>1. <<>> = Waiting(0, 0)
      BY DEF Waiting
    <2>2. Switched(0) = FALSE
      BY <1>9 DEF Switched
    <2>3. 0 <= PairSteps \/ 0 >= PairSteps
      BY <1>9
    <2>4. Len(handled') = 0 /\ Len(toRcv') = 0 /\ asked' = 0
      BY <1>1, <1>5
    <2>5. snd'.pending = Waiting(Len(handled'), asked')
      BY <1>1, <1>3, <2>1, <2>4
    <2>6. rcv'.replied <= rcv'.read /\ rcv'.read + Len(toRcv') = asked'
      BY <1>1, <1>4, <2>4
    <2>7. snd'.enc = Switched(Len(handled')) /\ rcv'.enc = Switched(rcv'.replied)
      BY <1>1, <1>3, <1>4, <2>2, <2>4
    <2>8. asked' <= PairSteps \/ Len(handled') >= PairSteps
      BY <2>3, <2>4
    <2> QED
      BY <2>5, <2>6, <2>7, <2>8 DEF Counts
  <1>11. Requested'
    <2>1. Sent(<<>>, 0, 0, 0, session')
      BY SentNone
    <2> QED
      BY <1>1, <1>3, <1>4, <2>1 DEF Requested
  <1>12. Going'
    <2>1. PICK e : e = <<>>
      OBVIOUS
    <2>2. Complete(e) = 0 /\ e \in Seq(Items) /\ Len(e) = 0 /\ e = e \o e
      BY <1>5, <2>1 DEF Complete
    <2>3. Cleared(e) /\ Framed(e, session', 0) /\ Intact(e)
      BY <2>2 DEF Cleared, Framed, Intact
    <2>4. All(e) = <<>> /\ Text(e) = <<>>
      <3>1. Payload(e, 0) = <<>> /\ Plain(e, 0) = FlattenSeq(Payload(e, 0))
        BY DEF Payload, Plain
      <3>2. DOMAIN e = {}
        BY <2>1
      <3>3. Text(e) = [i \in {} |-> IF e[i].half = 0 THEN e[i].frame.plain[1] ELSE Token("junk", 0, 0)]
        BY <3>2 DEF Text
      <3>4. Text(e) = <<>>
        BY <3>3
      <3> QED
        BY <2>2, <3>1, <3>4, FlattenEmpty DEF All
    <2>5. Msgs(All(e), 0, 0, FALSE)
      BY <2>4, MsgsNone
    <2>6. Msgs(snd'.rxBuf \o Text(e), 0, 0, rcv'.enc)
      <3>1. snd'.rxBuf \o Text(e) = <<>>
        BY <1>1, <1>3, <1>5, <2>4, ConcatNone
      <3> QED
        BY <3>1, MsgsNone
    <2>7. ClearAt(snd', rcv', e, 0, session', 0, e, e)
      BY <1>1, <1>3, <1>4, <2>1, <2>2, <2>3, <2>5, <2>6 DEF ClearAt
    <2>8. Situation(snd', rcv', e, 0, session', 0)
      BY <2>7 DEF InClear, Situation
    <2> QED
      BY <1>1, <1>5, <2>1, <2>8 DEF Going
  <1> QED
    BY <1>7, <1>8, <1>10, <1>11, <1>12 DEF ControlInv

\* Every step of the control channel keeps the invariant.
LEMMA NextControl ==
    ASSUME ControlInv, Next
    PROVE  ControlInv'
  <1>1. Typed /\ Done /\ InStep /\ (live => Counts /\ Requested /\ Going)
    BY DEF ControlInv
  <1>2. CASE Requests
    <2>1. PICK len \in Bodies : writeRtsp_(len)
      BY <1>2 DEF Requests
    <2>2. live
      BY <2>1 DEF writeRtsp_
    <2> QED
      BY <1>1, <2>1, <2>2, WriteKeeps
  <1>3. CASE Reads
    <2>1. live
      BY <1>3 DEF Reads
    <2> QED
      BY <1>1, <1>3, <2>1, ReadsKeeps
  <1>4. CASE RepliesSome
    <2>1. PICK len \in Bodies, size \in 1 .. Chunk, ok \in BOOLEAN : Replies(len, size, ok)
      BY <1>4 DEF RepliesSome
    <2>2. live
      BY <2>1 DEF Replies, Emit
    <2> QED
      BY <1>1, <2>1, <2>2, RepliesKeeps
  <1>5. CASE PushesSome
    <2>1. PICK len \in Bodies, size \in 1 .. Chunk : PushesRequest(len, size)
      BY <1>5 DEF PushesSome
    <2>2. live
      BY <2>1 DEF PushesRequest, Emit
    <2> QED
      BY <1>1, <2>1, <2>2, PushesKeeps
  <1>6. CASE ReadsSome
    <2>1. PICK j \in 1 .. Len(toSnd) : onRtspReadyRead_(j)
      BY <1>6 DEF ReadsSome
    <2>2. live
      BY <2>1 DEF onRtspReadyRead_
    <2> QED
      BY <1>1, <2>1, <2>2, ReceivingKeeps
  <1>7. CASE Start
    BY <1>1, <1>7, StartKeeps
  <1>8. CASE Stop
    <2>1. Fail("over") /\ UNCHANGED <<session, rcv, asked, damaged>>
      BY <1>8 DEF Stop
    <2> QED
      BY <1>1, <2>1, FailKeeps
  <1> QED
    BY <1>2, <1>3, <1>4, <1>5, <1>6, <1>7, <1>8 DEF Next

\* A step that changes nothing.
LEMMA StutterControl ==
    ASSUME ControlInv, UNCHANGED vars
    PROVE  ControlInv'
  BY DEF ControlInv, vars, Typed, Done, InStep, live, Counts, Requested, Going

\* The invariant gives the two properties.
LEMMA ControlSafe ==
    ASSUME ControlInv
    PROVE  RepliesIntact /\ ControlInStep
  <1>1. Typed /\ Done /\ InStep /\ (live => Counts)
    BY DEF ControlInv
  <1>2. \A i \in DOMAIN handled : handled[i] = <<i, i>>
    <2>1. DOMAIN handled = 1 .. Len(handled)
      BY <1>1, LenProperties DEF Typed
    <2> QED
      BY <1>1, <2>1 DEF Done
  <1>3. live => Len(handled) + Len(snd.pending) = asked
    <2> SUFFICES ASSUME live PROVE Len(handled) + Len(snd.pending) = asked
      OBVIOUS
    <2>1. Counts
      BY <1>1
    <2>2. Len(handled) \in Nat /\ asked \in Nat /\ Len(handled) <= asked
      BY <1>1, <2>1, SessionNumbers
    <2>3. Len(snd.pending) = asked - Len(handled)
      BY <2>1, <2>2, WaitingAppend DEF Counts
    <2> QED
      BY <2>2, <2>3
  <1>4. RepliesIntact
    BY <1>1, <1>2, <1>3 DEF RepliesIntact, Done
  <1>5. TypeOK
    <2>1. /\ snd.sendCtr \in Nat /\ snd.recvCtr \in Nat /\ rcv.sendCtr \in Nat /\ rcv.recvCtr \in Nat
          /\ snd.enc \in BOOLEAN /\ rcv.enc \in BOOLEAN /\ rcv.inStep \in BOOLEAN
          /\ snd.encBuf \in Seq(Items)
      BY <1>1 DEF Typed, SndSet, RcvSet
    <2>2. \A i \in DOMAIN snd.encBuf : snd.encBuf[i].half \in {0, 1, 2}
      <3> SUFFICES ASSUME NEW i \in DOMAIN snd.encBuf PROVE snd.encBuf[i].half \in {0, 1, 2}
        OBVIOUS
      <3>1. snd.encBuf[i] \in Items
        <4>1. DOMAIN snd.encBuf = 1 .. Len(snd.encBuf)
          BY <2>1, LenProperties
        <4> QED
          BY <2>1, <4>1, ElementOfSeq
      <3>2. snd.encBuf[i].half \in 0 .. 2
        BY <3>1 DEF Items, ItemSet
      <3> QED
        BY <3>2
    <2> QED
      BY <1>1, <2>1, <2>2 DEF Typed, TypeOK
  <1> QED
    BY <1>1, <1>4, <1>5 DEF ControlInStep

\* The control channel counts, switches and takes replies apart as above, for
\* every number of requests, bodies, frame sizes and cuts of the stream, with
\* damaged frames and with requests the receiver pushes (writeRtsp_,
\* onRtspReadyRead_).
THEOREM ControlHolds == ChannelsSpec => []ControlInv
  <1>1. ChannelsInit => ControlInv
    BY InitControl DEF ChannelsInit
  <1>2. ControlInv /\ [ChannelsNext]_<<vars, eventVars, part>> => ControlInv'
    <2> SUFFICES ASSUME ControlInv, [ChannelsNext]_<<vars, eventVars, part>>
                 PROVE  ControlInv'
      OBVIOUS
    <2>1. CASE ChannelsNext
      <3>1. Next \/ UNCHANGED vars
        BY <2>1, Zenon DEF ChannelsNext
      <3> QED
        BY <3>1, NextControl, StutterControl
    <2>2. CASE UNCHANGED <<vars, eventVars, part>>
      <3>1. UNCHANGED vars
        BY <2>2
      <3> QED
        BY <3>1, StutterControl
    <2> QED
      BY <2>1, <2>2
  <1>3. ChannelsSpec => ChannelsInit /\ [][ChannelsNext]_<<vars, eventVars, part>>
    BY PTL DEF ChannelsSpec
  <1> QED
    BY <1>1, <1>2, <1>3, PTL

\* Every reply handed to a handler is the one to its request, and the n-th;
\* as long as the session lives none is lost (RepliesIntact).
THEOREM RepliesStayIntact == ChannelsSpec => []RepliesIntact
  <1>1. ControlInv => RepliesIntact
    BY ControlSafe
  <1> QED
    BY <1>1, ControlHolds, PTL

\* The receiver opens every request: both ends count frames and switch to
\* encryption together; and the buffer of text stays within its cap
\* (ControlInStep).
THEOREM ControlStaysInStep == ChannelsSpec => []ControlInStep
  <1>1. ControlInv => ControlInStep
    BY ControlSafe
  <1> QED
    BY <1>1, ControlHolds, PTL

-----------------------------------------------------------------------------
(* The event channel.  What the receiver sends is a stream of halves of frames;
   joined with the plaintext buffer and what is not sent yet it is the requests
   that have not been answered.  Damage takes something out of the middle: the
   CSeqs of what is left still rise. *)

\* A sequence is its front and its last element.
LEMMA FrontAndLast ==
    ASSUME NEW V, NEW s \in Seq(V), NEW n \in Nat, Len(s) = n + 1
    PROVE  /\ SubSeq(s, 1, n) \in Seq(V) /\ Len(SubSeq(s, 1, n)) = n /\ s[n + 1] \in V
           /\ \A i \in 1 .. n : SubSeq(s, 1, n)[i] = s[i]
           /\ s = Append(SubSeq(s, 1, n), s[n + 1])
  <1>1. n \in 0 .. Len(s) /\ n + 1 \in 1 .. Len(s)
    OBVIOUS
  <1>2. PICK a : a = SubSeq(s, 1, n)
    OBVIOUS
  <1>3. a \in Seq(V) /\ Len(a) = n /\ \A i \in 1 .. n : a[i] = s[i]
    BY <1>1, <1>2, UpTo
  <1>4. PICK x : x = s[n + 1]
    OBVIOUS
  <1>5. x \in V
    BY <1>1, <1>4, ElementOfSeq
  <1>6. Append(a, x) \in Seq(V) /\ Len(Append(a, x)) = n + 1
    BY <1>3, <1>5
  <1>7. ASSUME NEW i \in 1 .. n + 1 PROVE s[i] = Append(a, x)[i]
    <2>1. CASE i \in 1 .. n
      <3>1. Append(a, x)[i] = a[i]
        BY <1>3, <1>5, <2>1
      <3> QED
        BY <1>3, <2>1, <3>1
    <2>2. CASE i = n + 1
      <3>1. Append(a, x)[n + 1] = x
        BY <1>3, <1>5
      <3> QED
        BY <1>4, <2>2, <3>1
    <2>3. i \in 1 .. n \/ i = n + 1
      OBVIOUS
    <2> QED
      BY <2>1, <2>2, <2>3
  <1>8. s = Append(a, x)
    BY <1>6, <1>7, SeqEqual
  <1> QED
    BY <1>2, <1>3, <1>4, <1>5, <1>8

\* The pieces of S are those of R, with an empty one after each.
Spaced(R, S, n) ==
    /\ Len(S) = n /\ Len(R) = 2 * n
    /\ \A i \in 1 .. n : R[2 * i - 1] = S[i] /\ R[2 * i] = <<>>

\* Empty pieces between the others add nothing to what they are joined into:
\* by induction over the number of pieces.
LEMMA FlattenSpaced ==
    ASSUME NEW T, NEW S \in Seq(Seq(T)), NEW R \in Seq(Seq(T)), NEW m \in Nat, Spaced(R, S, m)
    PROVE  FlattenSeq(R) = FlattenSeq(S)
  <1> DEFINE Q == Seq(Seq(T))
             Good(n) == \A s \in Q, r \in Q : Spaced(r, s, n) => FlattenSeq(r) = FlattenSeq(s)
             G == {n \in Nat : Good(n)}
  <1>1. 0 \in G
    <2> SUFFICES ASSUME NEW s \in Q, NEW r \in Q, Spaced(r, s, 0) PROVE FlattenSeq(r) = FlattenSeq(s)
      OBVIOUS
    <2>1. Len(s) = 0 /\ Len(r) = 0
      BY DEF Spaced
    <2>2. s = <<>> /\ r = <<>>
      BY <2>1, EmptySeq
    <2> QED
      BY <2>2
  <1>2. ASSUME NEW n \in Nat, n \in G PROVE n + 1 \in G
    <2> SUFFICES ASSUME NEW s \in Q, NEW r \in Q, Spaced(r, s, n + 1)
                 PROVE  FlattenSeq(r) = FlattenSeq(s)
      OBVIOUS
    <2>1. /\ Len(s) = n + 1 /\ Len(r) = (2 * n + 1) + 1
          /\ \A i \in 1 .. n + 1 : r[2 * i - 1] = s[i] /\ r[2 * i] = <<>>
      BY DEF Spaced
    <2>2. PICK V : V = Seq(T)
      OBVIOUS
    <2>3. s \in Seq(V) /\ r \in Seq(V)
      BY <2>2
    <2>4. PICK a, x : a = SubSeq(s, 1, n) /\ x = s[n + 1]
      OBVIOUS
    <2>5. a \in Seq(V) /\ Len(a) = n /\ x \in V /\ s = Append(a, x) /\ \A i \in 1 .. n : a[i] = s[i]
      <3>1. s \in Seq(V) /\ n \in Nat /\ Len(s) = n + 1
        BY <2>1, <2>3
      <3>2. /\ SubSeq(s, 1, n) \in Seq(V) /\ Len(SubSeq(s, 1, n)) = n /\ s[n + 1] \in V
            /\ \A i \in 1 .. n : SubSeq(s, 1, n)[i] = s[i]
            /\ s = Append(SubSeq(s, 1, n), s[n + 1])
        BY ONLY <3>1, FrontAndLast
      <3> QED
        BY <2>4, <3>2
    <2>6. PICK k \in Nat : k = 2 * n + 1
      OBVIOUS
    <2>7. PICK b, y : b = SubSeq(r, 1, k) /\ y = r[k + 1]
      OBVIOUS
    <2>8. /\ b \in Seq(V) /\ Len(b) = k /\ y \in V /\ r = Append(b, y)
          /\ \A i \in 1 .. k : b[i] = r[i]
      <3>1. r \in Seq(V) /\ k \in Nat /\ Len(r) = k + 1
        BY <2>1, <2>3, <2>6
      <3>2. /\ SubSeq(r, 1, k) \in Seq(V) /\ Len(SubSeq(r, 1, k)) = k /\ r[k + 1] \in V
            /\ \A i \in 1 .. k : SubSeq(r, 1, k)[i] = r[i]
            /\ r = Append(SubSeq(r, 1, k), r[k + 1])
        BY ONLY <3>1, FrontAndLast
      <3> QED
        BY <2>7, <3>2
    <2>9. PICK l \in Nat : l = 2 * n /\ k = l + 1
      BY <2>6
    <2>10. PICK c, z : c = SubSeq(b, 1, l) /\ z = b[l + 1]
      OBVIOUS
    <2>11. /\ c \in Seq(V) /\ Len(c) = l /\ z \in V /\ b = Append(c, z)
           /\ \A i \in 1 .. l : c[i] = b[i]
      <3>1. b \in Seq(V) /\ l \in Nat /\ Len(b) = l + 1
        BY <2>8, <2>9
      <3>2. /\ SubSeq(b, 1, l) \in Seq(V) /\ Len(SubSeq(b, 1, l)) = l /\ b[l + 1] \in V
            /\ \A i \in 1 .. l : SubSeq(b, 1, l)[i] = b[i]
            /\ b = Append(SubSeq(b, 1, l), b[l + 1])
        BY ONLY <3>1, FrontAndLast
      <3> QED
        BY <2>10, <3>2
    <2>12. z = x /\ y = <<>>
      <3>1. 2 * (n + 1) - 1 = k /\ 2 * (n + 1) = k + 1 /\ n + 1 \in 1 .. n + 1 /\ k \in 1 .. k
            /\ k = l + 1
        BY <2>6, <2>9
      <3>2. r[2 * (n + 1) - 1] = s[n + 1] /\ r[2 * (n + 1)] = <<>>
        BY <2>1, <3>1
      <3>3. b[k] = r[k]
        BY <2>8, <3>1
      <3> QED
        BY <2>4, <2>7, <2>10, <3>1, <3>2, <3>3
    <2>13. Spaced(c, a, n)
      <3>1. ASSUME NEW i \in 1 .. n PROVE c[2 * i - 1] = a[i] /\ c[2 * i] = <<>>
        <4>1. /\ 2 * i - 1 \in 1 .. l /\ 2 * i \in 1 .. l /\ i \in 1 .. n + 1
              /\ 2 * i - 1 \in 1 .. k /\ 2 * i \in 1 .. k
          BY <2>6, <2>9
        <4>2. c[2 * i - 1] = r[2 * i - 1] /\ c[2 * i] = r[2 * i] /\ a[i] = s[i]
          BY <2>5, <2>8, <2>11, <4>1
        <4> QED
          BY <2>1, <4>1, <4>2
      <3> QED
        BY <2>5, <2>9, <2>11, <3>1 DEF Spaced
    <2>14. FlattenSeq(c) = FlattenSeq(a)
      BY <1>2, <2>2, <2>5, <2>11, <2>13
    <2>15. /\ s \in Seq(Seq(T)) /\ a \in Seq(Seq(T)) /\ b \in Seq(Seq(T))
           /\ c \in Seq(Seq(T)) /\ x \in Seq(T) /\ y \in Seq(T) /\ z \in Seq(T)
      BY <2>2, <2>3, <2>5, <2>8, <2>11
    <2>16. FlattenSeq(s) = FlattenSeq(a) \o x
      BY <2>5, <2>15, FlattenAppend
    <2>17. FlattenSeq(b) = FlattenSeq(c) \o x
      BY <2>11, <2>12, <2>15, FlattenAppend
    <2>18. FlattenSeq(r) = FlattenSeq(b) \o <<>>
      BY <2>8, <2>12, <2>15, FlattenAppend
    <2>19. FlattenSeq(b) \o <<>> = FlattenSeq(b)
      <3>1. FlattenSeq(b) \in Seq(T)
        BY <2>15, FlattenType
      <3> QED
        BY ONLY <3>1, ConcatEmptySeq
    <2> QED
      BY <2>14, <2>16, <2>17, <2>18, <2>19
  <1>3. m \in G
    <2> HIDE DEF G
    <2> QED
      BY <1>1, <1>2, NatSetInduction
  <1>4. Good(m)
    BY <1>3
  <1> QED
    BY <1>4

\* What each item brings: a frame counts at its first half.
Pieces(I) == [i \in 1 .. Len(I) |-> IF I[i].half = 1 THEN I[i].frame.plain ELSE <<>>]
\* Joined: what the stream I carries.
Carried(I) == FlattenSeq(Pieces(I))

\* One piece for each half; joined, they are tokens.
LEMMA PiecesType ==
    ASSUME NEW T, NEW I \in Seq(ItemSet(T))
    PROVE  /\ Pieces(I) \in Seq(Seq(T)) /\ Len(Pieces(I)) = Len(I)
           /\ \A i \in 1 .. Len(I) : Pieces(I)[i] = IF I[i].half = 1 THEN I[i].frame.plain ELSE <<>>
           /\ Carried(I) \in Seq(T)
  <1>1. ASSUME NEW i \in 1 .. Len(I)
        PROVE  (IF I[i].half = 1 THEN I[i].frame.plain ELSE <<>>) \in Seq(T)
    <2>1. I[i] \in ItemSet(T)
      BY ElementOfSeq
    <2>2. I[i].frame.plain \in Seq(T)
      BY <2>1 DEF ItemSet, FrameSet
    <2> QED
      BY <2>2
  <1>2. PICK W : W = Seq(T)
    OBVIOUS
  <1>3. Len(I) \in Nat
    OBVIOUS
  <1>4. /\ Pieces(I) \in Seq(W) /\ Len(Pieces(I)) = Len(I)
        /\ \A i \in 1 .. Len(I) : Pieces(I)[i] = IF I[i].half = 1 THEN I[i].frame.plain ELSE <<>>
    <2>1. PICK L : L = Len(I)
      OBVIOUS
    <2>2. L \in Nat /\ \A i \in 1 .. L : (IF I[i].half = 1 THEN I[i].frame.plain ELSE <<>>) \in W
      BY <1>1, <1>2, <1>3, <2>1
    <2>3. Pieces(I) = [i \in 1 .. L |-> IF I[i].half = 1 THEN I[i].frame.plain ELSE <<>>]
      BY <2>1 DEF Pieces
    <2> QED
      BY <2>1, <2>2, <2>3
  <1>5. Carried(I) \in Seq(T)
    BY <1>2, <1>4, FlattenType DEF Carried
  <1> QED
    BY <1>2, <1>4, <1>5

\* What two stretches of the stream carry, the stream carries.
LEMMA CarriedConcat ==
    ASSUME NEW T, NEW I \in Seq(ItemSet(T)), NEW J \in Seq(ItemSet(T))
    PROVE  Carried(I \o J) = Carried(I) \o Carried(J)
  <1>1. PICK V, W : V = ItemSet(T) /\ W = Seq(T)
    OBVIOUS
  <1>2. I \in Seq(V) /\ J \in Seq(V)
    BY <1>1
  <1>3. PICK K : K = I \o J
    OBVIOUS
  <1>4. /\ K \in Seq(V) /\ Len(K) = Len(I) + Len(J) /\ Len(I) \in Nat /\ Len(J) \in Nat
        /\ \A i \in 1 .. Len(I) : K[i] = I[i]
        /\ \A i \in Len(I) + 1 .. Len(I) + Len(J) : K[i] = J[i - Len(I)]
    BY <1>2, <1>3, Concatenation
  <1>5. PICK p, q, r : p = Pieces(I) /\ q = Pieces(J) /\ r = Pieces(K)
    OBVIOUS
  <1>6. /\ p \in Seq(W) /\ Len(p) = Len(I)
        /\ \A i \in 1 .. Len(I) : p[i] = IF I[i].half = 1 THEN I[i].frame.plain ELSE <<>>
    BY <1>1, <1>5, PiecesType
  <1>7. /\ q \in Seq(W) /\ Len(q) = Len(J)
        /\ \A i \in 1 .. Len(J) : q[i] = IF J[i].half = 1 THEN J[i].frame.plain ELSE <<>>
    BY <1>1, <1>5, PiecesType
  <1>8. /\ r \in Seq(W) /\ Len(r) = Len(K)
        /\ \A i \in 1 .. Len(K) : r[i] = IF K[i].half = 1 THEN K[i].frame.plain ELSE <<>>
    BY <1>1, <1>4, <1>5, PiecesType
  <1>9. /\ p \o q \in Seq(W) /\ Len(p \o q) = Len(p) + Len(q)
        /\ \A i \in 1 .. Len(p) : (p \o q)[i] = p[i]
        /\ \A i \in Len(p) + 1 .. Len(p) + Len(q) : (p \o q)[i] = q[i - Len(p)]
    <2>1. p \in Seq(W) /\ q \in Seq(W)
      BY <1>6, <1>7
    <2> QED
      BY ONLY <2>1, Concatenation
  <1>10. ASSUME NEW i \in 1 .. Len(r) PROVE r[i] = (p \o q)[i]
    <2>1. i \in 1 .. Len(I) \/ i \in Len(I) + 1 .. Len(I) + Len(J)
      BY <1>4, <1>8
    <2>2. CASE i \in 1 .. Len(I)
      <3>1. r[i] = IF K[i].half = 1 THEN K[i].frame.plain ELSE <<>>
        BY <1>8
      <3>2. K[i] = I[i] /\ (p \o q)[i] = p[i]
        BY <1>4, <1>6, <1>9, <2>2
      <3>3. p[i] = IF I[i].half = 1 THEN I[i].frame.plain ELSE <<>>
        BY <1>6, <2>2
      <3> QED
        BY <3>1, <3>2, <3>3
    <2>3. CASE i \in Len(I) + 1 .. Len(I) + Len(J)
      <3>1. r[i] = IF K[i].half = 1 THEN K[i].frame.plain ELSE <<>>
        BY <1>8
      <3>2. K[i] = J[i - Len(I)] /\ (p \o q)[i] = q[i - Len(I)]
        BY <1>4, <1>6, <1>7, <1>9, <2>3
      <3>3. i - Len(I) \in 1 .. Len(J)
        BY <1>4, <2>3
      <3>4. q[i - Len(I)] = IF J[i - Len(I)].half = 1 THEN J[i - Len(I)].frame.plain ELSE <<>>
        BY <1>7, <3>3
      <3> QED
        BY <3>1, <3>2, <3>4
    <2> QED
      BY <2>1, <2>2, <2>3
  <1>11. r = p \o q
    <2>1. Len(r) = Len(p \o q)
      BY <1>4, <1>6, <1>7, <1>8, <1>9
    <2> QED
      BY <1>8, <1>9, <1>10, <2>1, SeqEqual
  <1>12. FlattenSeq(r) = FlattenSeq(p) \o FlattenSeq(q)
    BY <1>1, <1>6, <1>7, <1>11, FlattenConcat
  <1> QED
    BY <1>3, <1>5, <1>12 DEF Carried

\* The halves of frames take turns, from any first one to a second one.
Alternating(I) == \A i \in 1 .. Len(I) :
    /\ I[i].half \in {1, 2}
    /\ I[i].half = 1 => i < Len(I)
    /\ i < Len(I) => I[i + 1].half = 3 - I[i].half

\* A frame, cut into its halves, carries its plaintext.
LEMMA CarriedHalves ==
    ASSUME NEW T, NEW f \in FrameSet(T)
    PROVE  /\ Halves(f) \in Seq(ItemSet(T)) /\ Len(Halves(f)) = 2 /\ Carried(Halves(f)) = f.plain
           /\ Halves(f)[1] = [frame |-> f, half |-> 1] /\ Halves(f)[2] = [frame |-> f, half |-> 2]
  <1>1. PICK h : h = Halves(f)
    OBVIOUS
  <1>2. /\ h \in Seq(ItemSet(T)) /\ Len(h) = 2
        /\ h[1] = [frame |-> f, half |-> 1] /\ h[2] = [frame |-> f, half |-> 2]
    BY <1>1, HalvesType
  <1>3. f.plain \in Seq(T)
    BY DEF FrameSet
  <1>4. Carried(h) = f.plain
    <2>1. PICK p : p = Pieces(h)
      OBVIOUS
    <2>2. p \in Seq(Seq(T)) /\ Len(p) = 2
          /\ \A i \in 1 .. 2 : p[i] = IF h[i].half = 1 THEN h[i].frame.plain ELSE <<>>
      BY <1>2, <2>1, PiecesType
    <2>3. p[1] = f.plain /\ p[2] = <<>>
      <3>1. h[1].half = 1 /\ h[1].frame = f /\ h[2].half = 2
        BY <1>2
      <3>2. 1 \in 1 .. 2 /\ 2 \in 1 .. 2
        OBVIOUS
      <3> QED
        BY <2>2, <3>1, <3>2
    <2>4. PICK s : s = <<f.plain>>
      OBVIOUS
    <2>5. s \in Seq(Seq(T)) /\ Len(s) = 1 /\ s[1] = f.plain
      BY <1>3, <2>4
    <2>6. Spaced(p, s, 1)
      <3>1. ASSUME NEW i \in 1 .. 1 PROVE p[2 * i - 1] = s[i] /\ p[2 * i] = <<>>
        <4>1. i = 1 /\ 2 * i - 1 = 1 /\ 2 * i = 2
          OBVIOUS
        <4> QED
          BY <2>3, <2>5, <4>1
      <3> QED
        BY <2>2, <2>5, <3>1 DEF Spaced
    <2>7. FlattenSeq(p) = FlattenSeq(s)
      BY <2>2, <2>5, <2>6, FlattenSpaced
    <2>8. FlattenSeq(s) = f.plain
      <3>1. s = Append(<<>>, f.plain)
        BY <2>4
      <3>2. <<>> \in Seq(Seq(T)) /\ FlattenSeq(<<>>) = <<>>
        BY FlattenEmpty
      <3>3. FlattenSeq(Append(<<>>, f.plain)) = FlattenSeq(<<>>) \o f.plain
        BY ONLY <1>3, <3>2, FlattenAppend
      <3>4. <<>> \o f.plain = f.plain
        BY <1>3, ConcatEmptySeq
      <3> QED
        BY <3>1, <3>2, <3>3, <3>4
    <2> QED
      BY <2>1, <2>7, <2>8 DEF Carried
  <1> QED
    BY <1>1, <1>2, <1>4

\* From a first half on, halves are first and second in turn.
LEMMA AlternatingParity ==
    ASSUME NEW T, NEW I \in Seq(ItemSet(T)), Alternating(I), I = <<>> \/ I[1].half = 1
    PROVE  /\ \A i \in 1 .. Len(I) : I[i].half = IF i % 2 = 1 THEN 1 ELSE 2
           /\ Len(I) % 2 = 0
  <1>1. PICK L \in Nat : L = Len(I)
    OBVIOUS
  <1> DEFINE H(i) == IF i % 2 = 1 THEN 1 ELSE 2
             G == {n \in Nat : n + 1 \in 1 .. L => I[n + 1].half = H(n + 1)}
  <1>2. 0 \in G
    <2> SUFFICES ASSUME 1 \in 1 .. L PROVE I[1].half = 1
      OBVIOUS
    <2>1. I # <<>>
      BY <1>1
    <2> QED
      BY <2>1
  <1>3. ASSUME NEW n \in Nat, n \in G PROVE n + 1 \in G
    <2> SUFFICES ASSUME (n + 1) + 1 \in 1 .. L PROVE I[(n + 1) + 1].half = H((n + 1) + 1)
      OBVIOUS
    <2>1. n + 1 \in 1 .. L /\ n + 1 < L
      OBVIOUS
    <2>2. I[(n + 1) + 1].half = 3 - I[n + 1].half
      BY <1>1, <2>1 DEF Alternating
    <2>3. I[n + 1].half = H(n + 1)
      BY <1>3, <2>1
    <2>4. H((n + 1) + 1) = 3 - H(n + 1)
      OBVIOUS
    <2> QED
      BY <2>2, <2>3, <2>4
  <1>4. Nat \subseteq G
    <2> HIDE DEF G
    <2> QED
      BY <1>2, <1>3, NatSetInduction
  <1>5. ASSUME NEW i \in 1 .. L PROVE I[i].half = H(i)
    <2>1. i - 1 \in Nat /\ (i - 1) + 1 = i
      OBVIOUS
    <2>2. i - 1 \in G
      BY <1>4, <2>1
    <2>3. (i - 1) + 1 \in 1 .. L => I[(i - 1) + 1].half = H((i - 1) + 1)
      BY <2>2
    <2> QED
      BY <2>1, <2>3
  <1>6. L % 2 = 0
    <2> SUFFICES ASSUME L % 2 = 1 PROVE FALSE
      OBVIOUS
    <2>1. L \in 1 .. L
      OBVIOUS
    <2>2. I[L].half = 1
      BY <1>5, <2>1
    <2>3. L < L
      BY <1>1, <2>1, <2>2 DEF Alternating
    <2> QED
      BY <2>3
  <1> QED
    BY <1>1, <1>5, <1>6

\* First and second halves in turn, from a first one.
Parity(I) == \A i \in 1 .. Len(I) : I[i].half = IF i % 2 = 1 THEN 1 ELSE 2

\* The plaintext of the frames that are opened, and what the others carry.
LEMMA CarriedOpened ==
    ASSUME NEW T, NEW I \in Seq(ItemSet(T)), Parity(I), NEW n \in 0 .. Complete(I)
    PROVE  /\ Carried(I) = Plain(I, n) \o Carried(Rest(I, n))
           /\ Plain(I, n) \in Seq(T) /\ Rest(I, n) \in Seq(ItemSet(T))
  <1>1. PICK V, W : V = ItemSet(T) /\ W = Seq(T)
    OBVIOUS
  <1>2. I \in Seq(V) /\ n \in Nat /\ 2 * n \in 0 .. Len(I) /\ Complete(I) \in Nat
    BY <1>1, CompleteHalf
  <1>3. PICK a, b : a = SubSeq(I, 1, 2 * n) /\ b = Rest(I, n)
    OBVIOUS
  <1>4. a \in Seq(V) /\ Len(a) = 2 * n /\ a \o b = I /\ \A i \in 1 .. 2 * n : a[i] = I[i]
    <2>1. PICK m : m = 2 * n
      OBVIOUS
    <2>2. m \in 0 .. Len(I)
      BY <1>2, <2>1
    <2>3. /\ SubSeq(I, 1, m) \in Seq(V) /\ Len(SubSeq(I, 1, m)) = m
          /\ \A i \in 1 .. m : SubSeq(I, 1, m)[i] = I[i]
          /\ SubSeq(I, 1, m) \o SubSeq(I, m + 1, Len(I)) = I
      BY <1>2, <2>2, UpTo
    <2> QED
      BY <1>3, <2>1, <2>3 DEF Rest
  <1>5. b \in Seq(V)
    BY <1>1, <1>3, RestShape
  <1>6. Carried(I) = Carried(a) \o Carried(b)
    BY <1>1, <1>4, <1>5, CarriedConcat
  <1>7. Carried(a) = Plain(I, n)
    <2>1. PICK r, s : r = Pieces(a) /\ s = Payload(I, n)
      OBVIOUS
    <2>2. /\ r \in Seq(Seq(T)) /\ Len(r) = 2 * n
          /\ \A i \in 1 .. 2 * n : r[i] = IF a[i].half = 1 THEN a[i].frame.plain ELSE <<>>
      BY <1>1, <1>4, <2>1, PiecesType
    <2>3. s \in Seq(Seq(T)) /\ Len(s) = n
      BY <2>1, PayloadType
    <2>4. ASSUME NEW j \in 1 .. n PROVE r[2 * j - 1] = s[j] /\ r[2 * j] = <<>>
      <3>1. 2 * j - 1 \in 1 .. 2 * n /\ 2 * j \in 1 .. 2 * n
            /\ (2 * j - 1) % 2 = 1 /\ (2 * j) % 2 = 0
        BY <1>2
      <3>2. 2 * j - 1 \in 1 .. Len(I) /\ 2 * j \in 1 .. Len(I)
        BY <1>2, <3>1
      <3>3. I[2 * j - 1].half = 1 /\ I[2 * j].half = 2
        <4>1. I[2 * j - 1].half = IF (2 * j - 1) % 2 = 1 THEN 1 ELSE 2
          BY <3>2 DEF Parity
        <4>2. I[2 * j].half = IF (2 * j) % 2 = 1 THEN 1 ELSE 2
          BY <3>2 DEF Parity
        <4> QED
          BY <3>1, <4>1, <4>2
      <3>4. a[2 * j - 1] = I[2 * j - 1] /\ a[2 * j] = I[2 * j]
        BY <1>4, <3>1
      <3>5. r[2 * j - 1] = I[2 * j - 1].frame.plain
        BY <2>2, <3>1, <3>3, <3>4
      <3>6. r[2 * j] = <<>>
        BY <2>2, <3>1, <3>3, <3>4
      <3>7. s[j] = I[2 * j - 1].frame.plain
        BY <2>1 DEF Payload, FrameAt
      <3> QED
        BY <3>5, <3>6, <3>7
    <2>5. Spaced(r, s, n)
      BY <2>2, <2>3, <2>4 DEF Spaced
    <2>6. FlattenSeq(r) = FlattenSeq(s)
      BY <1>2, <2>2, <2>3, <2>5, FlattenSpaced
    <2>7. Plain(I, n) = FlattenSeq(Payload(I, n))
      BY PlainType
    <2> QED
      BY <2>1, <2>6, <2>7 DEF Carried
  <1>8. Plain(I, n) \in Seq(T)
    BY PlainType
  <1> QED
    BY <1>1, <1>3, <1>5, <1>6, <1>7, <1>8

\* A tail of halves that take turns.
LEMMA AlternatingFrom ==
    ASSUME NEW T, NEW I \in Seq(ItemSet(T)), Alternating(I), NEW m \in 0 .. Len(I)
    PROVE  Alternating(SubSeq(I, m + 1, Len(I)))
  <1>1. PICK V, d : V = ItemSet(T) /\ d = SubSeq(I, m + 1, Len(I))
    OBVIOUS
  <1>2. I \in Seq(V) /\ Len(I) \in Nat
    BY <1>1
  <1>3. d \in Seq(V) /\ Len(d) = Len(I) - m /\ \A i \in 1 .. Len(I) - m : d[i] = I[i + m]
    BY <1>1, <1>2, From
  <1>4. ASSUME NEW i \in 1 .. Len(d)
        PROVE  /\ d[i].half \in {1, 2}
               /\ d[i].half = 1 => i < Len(d)
               /\ i < Len(d) => d[i + 1].half = 3 - d[i].half
    <2>1. i + m \in 1 .. Len(I) /\ d[i] = I[i + m]
      BY <1>2, <1>3
    <2>2. /\ I[i + m].half \in {1, 2}
          /\ I[i + m].half = 1 => i + m < Len(I)
          /\ i + m < Len(I) => I[(i + m) + 1].half = 3 - I[i + m].half
      BY <2>1 DEF Alternating
    <2>3. i < Len(d) <=> i + m < Len(I)
      BY <1>2, <1>3
    <2>4. i < Len(d) => d[i + 1] = I[(i + m) + 1]
      <3> SUFFICES ASSUME i < Len(d) PROVE d[i + 1] = I[(i + m) + 1]
        OBVIOUS
      <3>1. i + 1 \in 1 .. Len(I) - m /\ (i + 1) + m = (i + m) + 1
        BY <1>2, <1>3
      <3>2. d[i + 1] = I[(i + 1) + m]
        BY <1>3, <3>1
      <3> QED
        BY <3>1, <3>2
    <2> QED
      BY <2>1, <2>2, <2>3, <2>4
  <1> QED
    BY <1>1, <1>4 DEF Alternating

\* One more frame.
LEMMA AlternatingNext ==
    ASSUME NEW T, NEW I \in Seq(ItemSet(T)), Alternating(I), NEW f \in FrameSet(T)
    PROVE  /\ Alternating(I \o Halves(f)) /\ I \o Halves(f) \in Seq(ItemSet(T))
           /\ Carried(I \o Halves(f)) = Carried(I) \o f.plain
  <1>1. PICK V, h, K : V = ItemSet(T) /\ h = Halves(f) /\ K = I \o h
    OBVIOUS
  <1>2. /\ h \in Seq(V) /\ Len(h) = 2 /\ Carried(h) = f.plain /\ h[1].half = 1 /\ h[2].half = 2
    <2>1. /\ h \in Seq(V) /\ Len(h) = 2 /\ Carried(h) = f.plain
          /\ h[1] = [frame |-> f, half |-> 1] /\ h[2] = [frame |-> f, half |-> 2]
      BY <1>1, CarriedHalves, Zenon
    <2> QED
      BY <2>1
  <1>3. I \in Seq(V)
    BY <1>1
  <1>4. /\ K \in Seq(V) /\ Len(K) = Len(I) + Len(h) /\ Len(I) \in Nat
        /\ \A i \in 1 .. Len(I) : K[i] = I[i]
        /\ \A i \in Len(I) + 1 .. Len(I) + Len(h) : K[i] = h[i - Len(I)]
    BY <1>1, <1>2, <1>3, Concatenation, ZenonT(60)
  <1>5. PICK n \in Nat : n = Len(I)
    BY <1>4
  <1>6. Len(K) = n + 2 /\ K[n + 1].half = 1 /\ K[n + 2].half = 2
    <2>1. Len(K) = n + 2 /\ n + 1 \in Len(I) + 1 .. Len(I) + Len(h) /\ n + 2 \in Len(I) + 1 .. Len(I) + Len(h)
      BY <1>2, <1>4, <1>5
    <2>2. K[n + 1] = h[(n + 1) - Len(I)] /\ K[n + 2] = h[(n + 2) - Len(I)]
      BY <1>4, <2>1
    <2>3. (n + 1) - Len(I) = 1 /\ (n + 2) - Len(I) = 2
      BY <1>5
    <2> QED
      BY <1>2, <2>1, <2>2, <2>3
  <1>7. ASSUME NEW i \in 1 .. n + 2
        PROVE  /\ K[i].half \in {1, 2}
               /\ K[i].half = 1 => i < n + 2
               /\ i < n + 2 => K[i + 1].half = 3 - K[i].half
    <2>1. i < n \/ i = n \/ i = n + 1 \/ i = n + 2
      OBVIOUS
    <2>2. CASE i < n
      <3>1. i \in 1 .. Len(I) /\ i + 1 \in 1 .. Len(I) /\ i < Len(I)
        BY <1>5, <2>2
      <3>2. I[i].half \in {1, 2} /\ I[i + 1].half = 3 - I[i].half
        BY <3>1 DEF Alternating
      <3>3. K[i] = I[i] /\ K[i + 1] = I[i + 1]
        BY <1>4, <3>1
      <3> QED
        BY <2>2, <3>2, <3>3
    <2>3. CASE i = n
      <3>1. n \in 1 .. Len(I) /\ ~(n < Len(I))
        BY <1>5, <2>3
      <3>2. I[n].half = 2
        BY <3>1 DEF Alternating
      <3>3. K[n] = I[n]
        BY <1>4, <3>1
      <3> QED
        BY <1>6, <2>3, <3>2, <3>3
    <2>4. CASE i = n + 1
      BY <1>6, <2>4
    <2>5. CASE i = n + 2
      BY <1>6, <2>5
    <2> QED
      BY <2>1, <2>2, <2>3, <2>4, <2>5
  <1>8. Alternating(K)
    BY <1>6, <1>7 DEF Alternating
  <1>9. Carried(K) = Carried(I) \o Carried(h)
    BY <1>1, <1>2, CarriedConcat
  <1> QED
    BY <1>1, <1>2, <1>4, <1>8, <1>9

\* And as frames under their counters.
LEMMA FramedNext ==
    ASSUME NEW T, NEW I \in Seq(ItemSet(T)), NEW key, NEW c \in Nat, Framed(I, key, c), Intact(I),
           NEW f \in FrameSet(T), f.key = key, f.ctr = c + Complete(I), f.intact
    PROVE  /\ Framed(I \o Halves(f), key, c) /\ Intact(I \o Halves(f))
           /\ Complete(I \o Halves(f)) = Complete(I) + 1
  <1>1. PICK h : h = Halves(f)
    OBVIOUS
  <1>2. /\ h \in Seq(ItemSet(T)) /\ Len(h) = 2
        /\ h[1] = [frame |-> f, half |-> 1] /\ h[2] = [frame |-> f, half |-> 2]
    BY <1>1, HalvesType
  <1>3. Complete(h) = 1 /\ FrameAt(h, 1) = f
    <2>1. 2 * 1 - 1 = 1 /\ 2 \div 2 = 1
      OBVIOUS
    <2>2. h[1].frame = f
      BY <1>2
    <2> QED
      BY <1>2, <2>1, <2>2 DEF Complete, FrameAt
  <1>4. Complete(I) \in Nat
    BY CompleteHalf
  <1>5. Framed(h, key, c + Complete(I))
    <2>1. ASSUME NEW i \in 1 .. 2 PROVE h[i].half = IF i % 2 = 1 THEN 1 ELSE 2
      <3>1. i = 1 \/ i = 2
        OBVIOUS
      <3>2. h[1].half = 1 /\ h[2].half = 2 /\ 1 % 2 = 1 /\ 2 % 2 = 0
        BY <1>2
      <3> QED
        BY <3>1, <3>2
    <2>2. ASSUME NEW j \in 1 .. 1
          PROVE  FrameAt(h, j).key = key /\ FrameAt(h, j).ctr = (c + Complete(I)) + j - 1
      <3>1. j = 1
        OBVIOUS
      <3>2. (c + Complete(I)) + 1 - 1 = c + Complete(I)
        BY <1>4
      <3> QED
        BY <1>3, <3>1, <3>2
    <2>3. 2 % 2 = 0
      OBVIOUS
    <2> QED
      BY <1>2, <1>3, <2>1, <2>2, <2>3 DEF Framed
  <1>6. Intact(h)
    <2>1. ASSUME NEW j \in 1 .. 1 PROVE FrameAt(h, j).intact
      <3>1. j = 1
        OBVIOUS
      <3> QED
        BY <1>3, <3>1
    <2> QED
      BY <1>3, <2>1 DEF Intact
  <1>7. /\ Framed(I \o h, key, c) /\ Complete(I \o h) = Complete(I) + Complete(h)
        /\ Intact(I) /\ Intact(h) => Intact(I \o h)
    BY <1>2, <1>5, FramedConcat
  <1> QED
    BY <1>1, <1>3, <1>6, <1>7

\* The lines and tokens of the event channel.
ELines == {"cseq", "length", "end", "body"}
EToks == [line : ELines, n : Nat]

\* The elements of three sequences in one.
LEMMA ThreeParts ==
    ASSUME NEW V, NEW a \in Seq(V), NEW b \in Seq(V), NEW c \in Seq(V)
    PROVE  /\ a \o (b \o c) \in Seq(V) /\ Len(a \o (b \o c)) = Len(a) + Len(b) + Len(c)
           /\ Len(a) \in Nat /\ Len(b) \in Nat /\ Len(c) \in Nat
           /\ \A i \in 1 .. Len(a) : (a \o (b \o c))[i] = a[i]
           /\ \A i \in 1 .. Len(b) : (a \o (b \o c))[Len(a) + i] = b[i]
           /\ \A i \in 1 .. Len(c) : (a \o (b \o c))[Len(a) + Len(b) + i] = c[i]
  <1>1. PICK d : d = b \o c
    OBVIOUS
  <1>2. /\ d \in Seq(V) /\ Len(d) = Len(b) + Len(c) /\ Len(b) \in Nat /\ Len(c) \in Nat
        /\ \A i \in 1 .. Len(b) : d[i] = b[i]
        /\ \A i \in Len(b) + 1 .. Len(b) + Len(c) : d[i] = c[i - Len(b)]
    BY <1>1, Concatenation
  <1>3. PICK X : X = a \o d
    OBVIOUS
  <1>4. /\ X \in Seq(V) /\ Len(X) = Len(a) + Len(d) /\ Len(a) \in Nat
        /\ \A i \in 1 .. Len(a) : X[i] = a[i]
        /\ \A i \in Len(a) + 1 .. Len(a) + Len(d) : X[i] = d[i - Len(a)]
    <2>1. a \in Seq(V) /\ d \in Seq(V)
      BY <1>2
    <2> QED
      BY ONLY <1>3, <2>1, Concatenation
  <1>5. PICK x, y, z : x = Len(a) /\ y = Len(b) /\ z = Len(c)
    OBVIOUS
  <1>6. x \in Nat /\ y \in Nat /\ z \in Nat
    BY <1>2, <1>4, <1>5
  <1>7. ASSUME NEW i \in 1 .. y PROVE X[x + i] = b[i]
    <2>1. x + i \in x + 1 .. x + (y + z) /\ (x + i) - x = i
      BY <1>6
    <2>2. X[x + i] = d[(x + i) - x]
      BY <1>2, <1>4, <1>5, <2>1
    <2> QED
      BY <1>2, <1>5, <2>1, <2>2
  <1>8. ASSUME NEW i \in 1 .. z PROVE X[x + y + i] = c[i]
    <2>1. x + y + i \in x + 1 .. x + (y + z) /\ (x + y + i) - x = y + i
          /\ y + i \in y + 1 .. y + z /\ (y + i) - y = i
      BY <1>6
    <2>2. X[x + y + i] = d[(x + y + i) - x]
      BY <1>2, <1>4, <1>5, <2>1
    <2>3. d[y + i] = c[(y + i) - y]
      BY <1>2, <1>5, <2>1
    <2> QED
      BY <2>1, <2>2, <2>3
  <1>9. Len(X) = x + y + z
    BY <1>2, <1>4, <1>5, <1>6
  <1> QED
    BY <1>1, <1>3, <1>4, <1>5, <1>6, <1>7, <1>8, <1>9

\* The CSeq lines of Z are among 1 .. n and rise.
Cseq(Z, i) == Z[i].line = "cseq"
Rising(Z, n) ==
    /\ \A i \in 1 .. Len(Z) : Cseq(Z, i) => Z[i].n \in 1 .. n
    /\ \A i, j \in 1 .. Len(Z) : i < j /\ Cseq(Z, i) /\ Cseq(Z, j) => Z[i].n < Z[j].n

\* The CSeq lines of Y are some of those of X, in the same order.
Thinned(Y, X, e) ==
    /\ \A i \in 1 .. Len(Y) : Cseq(Y, i) => e[i] \in 1 .. Len(X) /\ Y[i] = X[e[i]]
    /\ \A i, j \in 1 .. Len(Y) : i < j /\ Cseq(Y, i) /\ Cseq(Y, j) => e[i] < e[j]

\* Losing lines leaves the CSeqs rising.
LEMMA RisingThinned ==
    ASSUME NEW X, NEW Y, NEW n, Rising(X, n), NEW e, Thinned(Y, X, e)
    PROVE  Rising(Y, n)
  <1>1. ASSUME NEW i \in 1 .. Len(Y), Cseq(Y, i)
        PROVE  e[i] \in 1 .. Len(X) /\ Y[i] = X[e[i]] /\ Cseq(X, e[i])
    <2>1. e[i] \in 1 .. Len(X) /\ Y[i] = X[e[i]]
      BY <1>1 DEF Thinned
    <2> QED
      BY <1>1, <2>1 DEF Cseq
  <1>2. ASSUME NEW i \in 1 .. Len(Y), Cseq(Y, i) PROVE Y[i].n \in 1 .. n
    <2>1. e[i] \in 1 .. Len(X) /\ Y[i] = X[e[i]] /\ Cseq(X, e[i])
      BY <1>1, <1>2
    <2>2. X[e[i]].n \in 1 .. n
      BY <2>1 DEF Rising
    <2> QED
      BY <2>1, <2>2
  <1>3. ASSUME NEW i \in 1 .. Len(Y), NEW j \in 1 .. Len(Y), i < j, Cseq(Y, i), Cseq(Y, j)
        PROVE  Y[i].n < Y[j].n
    <2>1. e[i] \in 1 .. Len(X) /\ Y[i] = X[e[i]] /\ Cseq(X, e[i])
      BY <1>1, <1>3
    <2>2. e[j] \in 1 .. Len(X) /\ Y[j] = X[e[j]] /\ Cseq(X, e[j])
      BY <1>1, <1>3
    <2>3. e[i] < e[j]
      BY <1>3 DEF Thinned
    <2>4. X[e[i]].n < X[e[j]].n
      BY <2>1, <2>2, <2>3 DEF Rising
    <2> QED
      BY <2>1, <2>2, <2>4
  <1> QED
    BY <1>2, <1>3 DEF Rising

\* Something in the middle is dropped.
LEMMA RisingDropped ==
    ASSUME NEW a \in Seq(EToks), NEW b \in Seq(EToks), NEW c \in Seq(EToks), NEW n,
           Rising(a \o (b \o c), n)
    PROVE  Rising(a \o c, n)
  <1>0. PICK V : V = EToks
    OBVIOUS
  <1>1. a \in Seq(V) /\ b \in Seq(V) /\ c \in Seq(V)
    BY <1>0
  <1>2. PICK X, Y : X = a \o (b \o c) /\ Y = a \o c
    OBVIOUS
  <1>3. PICK x, y, z : x = Len(a) /\ y = Len(b) /\ z = Len(c)
    OBVIOUS
  <1>4. /\ Len(X) = x + y + z /\ x \in Nat /\ y \in Nat /\ z \in Nat
        /\ \A i \in 1 .. x : X[i] = a[i]
        /\ \A i \in 1 .. z : X[x + y + i] = c[i]
    BY <1>1, <1>2, <1>3, ThreeParts
  <1>5. /\ Len(Y) = x + z
        /\ \A i \in 1 .. x : Y[i] = a[i]
        /\ \A i \in x + 1 .. x + z : Y[i] = c[i - x]
    BY <1>1, <1>2, <1>3, Concatenation
  <1> DEFINE E(i) == IF i <= x THEN i ELSE i + y
             e == [i \in 1 .. x + z |-> E(i)]
  <1>6. ASSUME NEW i \in 1 .. x + z PROVE e[i] \in 1 .. Len(X) /\ Y[i] = X[e[i]]
    <2>1. i \in 1 .. x \/ i \in x + 1 .. x + z
      BY <1>4
    <2>2. CASE i \in 1 .. x
      BY <1>4, <1>5, <2>2
    <2>3. CASE i \in x + 1 .. x + z
      <3>1. e[i] = i + y /\ i - x \in 1 .. z /\ x + y + (i - x) = i + y /\ i + y \in 1 .. x + y + z
        BY <1>4, <2>3
      <3>2. X[x + y + (i - x)] = c[i - x] /\ Y[i] = c[i - x]
        BY <1>4, <1>5, <2>3, <3>1
      <3> QED
        BY <1>4, <3>1, <3>2
    <2> QED
      BY <2>1, <2>2, <2>3
  <1>7. \A i, j \in 1 .. x + z : i < j => e[i] < e[j]
    BY <1>4
  <1> HIDE DEF e
  <1>8. Thinned(Y, X, e)
    BY <1>5, <1>6, <1>7 DEF Thinned
  <1> QED
    BY <1>2, <1>8, RisingThinned

\* A request R is taken off, and one of its CSeq lines, or none, is answered.
LEMMA RisingAnswered ==
    ASSUME NEW m \in Seq(EToks), NEW r \in Seq(EToks), NEW c \in Seq(EToks), NEW n,
           Rising(m \o (r \o c), n), NEW t \in EToks,
           t.line # "cseq" \/ \E k \in 1 .. Len(r) : t = r[k]
    PROVE  Rising(Append(m, t) \o c, n)
  <1>0. PICK V : V = EToks
    OBVIOUS
  <1>1. m \in Seq(V) /\ r \in Seq(V) /\ c \in Seq(V) /\ t \in V
    BY <1>0
  <1>2. PICK X, M, Y : X = m \o (r \o c) /\ M = Append(m, t) /\ Y = M \o c
    OBVIOUS
  <1>3. PICK x, y, z : x = Len(m) /\ y = Len(r) /\ z = Len(c)
    OBVIOUS
  <1>4. /\ Len(X) = x + y + z /\ x \in Nat /\ y \in Nat /\ z \in Nat
        /\ \A i \in 1 .. x : X[i] = m[i]
        /\ \A i \in 1 .. y : X[x + i] = r[i]
        /\ \A i \in 1 .. z : X[x + y + i] = c[i]
    BY <1>1, <1>2, <1>3, ThreeParts
  <1>5. M \in Seq(V) /\ Len(M) = x + 1 /\ (\A i \in 1 .. x : M[i] = m[i]) /\ M[x + 1] = t
    <2>1. /\ Append(m, t) \in Seq(V) /\ Len(Append(m, t)) = Len(m) + 1
          /\ \A i \in 1 .. Len(m) : Append(m, t)[i] = m[i]
          /\ Append(m, t)[Len(m) + 1] = t
      BY <1>1, AppendProperties
    <2> QED
      BY <1>2, <1>3, <2>1
  <1>6. /\ Len(Y) = (x + 1) + z
        /\ \A i \in 1 .. x + 1 : Y[i] = M[i]
        /\ \A i \in (x + 1) + 1 .. (x + 1) + z : Y[i] = c[i - (x + 1)]
    <2>1. M \in Seq(V) /\ c \in Seq(V)
      BY <1>1, <1>5
    <2>2. /\ Len(Y) = Len(M) + Len(c)
          /\ \A i \in 1 .. Len(M) : Y[i] = M[i]
          /\ \A i \in Len(M) + 1 .. Len(M) + Len(c) : Y[i] = c[i - Len(M)]
      BY ONLY <1>2, <2>1, Concatenation, ZenonT(60)
    <2>3. Len(M) = x + 1 /\ Len(c) = z
      BY <1>3, <1>5
    <2> QED
      BY ONLY <2>2, <2>3
  <1>7. PICK k : (t.line # "cseq" /\ k = 1) \/ (k \in 1 .. y /\ t = r[k])
    BY <1>3
  <1> DEFINE E(i) == IF i <= x THEN i ELSE IF i = x + 1 THEN x + k ELSE (i - 1) + y
             e == [i \in 1 .. (x + 1) + z |-> E(i)]
  <1>8. ASSUME NEW i \in 1 .. (x + 1) + z, Cseq(Y, i)
        PROVE  /\ e[i] \in 1 .. Len(X) /\ Y[i] = X[e[i]]
               /\ i = x + 1 => k \in 1 .. y
    <2>1. i \in 1 .. x \/ i = x + 1 \/ i \in (x + 1) + 1 .. (x + 1) + z
      BY <1>4
    <2>2. CASE i \in 1 .. x
      <3>1. e[i] = i /\ i \in 1 .. x + 1 /\ i # x + 1
        BY <1>4, <2>2
      <3>2. Y[i] = m[i] /\ X[i] = m[i]
        BY <1>4, <1>5, <1>6, <2>2, <3>1
      <3> QED
        BY <1>4, <2>2, <3>1, <3>2
    <2>3. CASE i = x + 1
      <3>1. Y[i] = t
        <4>1. x + 1 \in 1 .. x + 1
          BY <1>4
        <4> QED
          BY <1>5, <1>6, <2>3, <4>1
      <3>2. k \in 1 .. y /\ t = r[k]
        BY <1>7, <1>8, <3>1 DEF Cseq
      <3>3. e[i] = x + k /\ X[x + k] = r[k] /\ x + k \in 1 .. x + y + z
        BY <1>4, <2>3, <3>2
      <3> QED
        BY <1>4, <3>1, <3>2, <3>3
    <2>4. CASE i \in (x + 1) + 1 .. (x + 1) + z
      <3>1. /\ e[i] = (i - 1) + y /\ i - (x + 1) \in 1 .. z /\ x + y + (i - (x + 1)) = (i - 1) + y
            /\ (i - 1) + y \in 1 .. x + y + z /\ i # x + 1
        <4>1. i \in Nat /\ i > x + 1 /\ i <= (x + 1) + z /\ x \in Nat /\ y \in Nat /\ z \in Nat
          BY <1>4, <2>4
        <4>2. e[i] = E(i)
          OBVIOUS
        <4>3. E(i) = (i - 1) + y
          BY <4>1
        <4> HIDE DEF e
        <4>4. /\ i - (x + 1) \in 1 .. z /\ x + y + (i - (x + 1)) = (i - 1) + y
              /\ (i - 1) + y \in 1 .. x + y + z /\ i # x + 1
          BY <4>1
        <4> QED
          BY <4>2, <4>3, <4>4
      <3>2. X[x + y + (i - (x + 1))] = c[i - (x + 1)] /\ Y[i] = c[i - (x + 1)]
        BY <1>4, <1>6, <2>4, <3>1
      <3> QED
        BY <1>4, <3>1, <3>2
    <2> QED
      BY <2>1, <2>2, <2>3, <2>4
  <1>9. ASSUME NEW i \in 1 .. (x + 1) + z, NEW j \in 1 .. (x + 1) + z, i < j, Cseq(Y, i), Cseq(Y, j)
        PROVE  e[i] < e[j]
    <2>1. (i = x + 1 => k \in 1 .. y) /\ (j = x + 1 => k \in 1 .. y)
      BY <1>8, <1>9
    <2>2. e[i] = E(i) /\ e[j] = E(j)
      OBVIOUS
    <2>3. \/ i <= x /\ j <= x
          \/ i <= x /\ j = x + 1
          \/ i <= x /\ j > x + 1
          \/ i = x + 1 /\ j > x + 1
          \/ i > x + 1 /\ j > x + 1
      BY <1>4, <1>9
    <2> HIDE DEF e
    <2>4. CASE i <= x /\ j <= x
      BY <1>4, <1>9, <2>2, <2>4
    <2>5. CASE i <= x /\ j = x + 1
      <3>1. e[i] = i /\ e[j] = x + k
        BY <1>4, <2>2, <2>5
      <3> QED
        BY <1>4, <2>1, <2>5, <3>1
    <2>6. CASE i <= x /\ j > x + 1
      <3>1. e[i] = i /\ e[j] = (j - 1) + y
        BY <1>4, <2>2, <2>6
      <3> QED
        BY <1>4, <1>9, <2>6, <3>1, SMTT(60)
    <2>7. CASE i = x + 1 /\ j > x + 1
      <3>1. e[i] = x + k /\ e[j] = (j - 1) + y
        BY <1>4, <2>2, <2>7
      <3> QED
        BY <1>4, <2>1, <2>7, <3>1, SMTT(60)
    <2>8. CASE i > x + 1 /\ j > x + 1
      <3>1. e[i] = (i - 1) + y /\ e[j] = (j - 1) + y
        BY <1>4, <2>2, <2>8
      <3> QED
        BY <1>4, <1>9, <3>1
    <2> QED
      BY <2>3, <2>4, <2>5, <2>6, <2>7, <2>8
  <1> HIDE DEF e
  <1>10. Thinned(Y, X, e)
    BY <1>6, <1>8, <1>9 DEF Thinned
  <1> QED
    BY <1>2, <1>10, RisingThinned

\* The next request joins.
LEMMA RisingNext ==
    ASSUME NEW a \in Seq(EToks), NEW r \in Seq(EToks), NEW n \in Nat, Rising(a, n),
           \A i \in 1 .. Len(r) : Cseq(r, i) => i = 1 /\ r[i].n = n + 1
    PROVE  Rising(a \o r, n + 1)
  <1>0. PICK V : V = EToks
    OBVIOUS
  <1>1. a \in Seq(V) /\ r \in Seq(V)
    BY <1>0
  <1>2. PICK Y, x, y : Y = a \o r /\ x = Len(a) /\ y = Len(r)
    OBVIOUS
  <1>3. /\ Len(Y) = x + y /\ x \in Nat /\ y \in Nat
        /\ \A i \in 1 .. x : Y[i] = a[i]
        /\ \A i \in x + 1 .. x + y : Y[i] = r[i - x]
    BY <1>1, <1>2, Concatenation
  <1>4. ASSUME NEW i \in 1 .. x + y, Cseq(Y, i)
        PROVE  \/ i \in 1 .. x /\ Y[i] = a[i] /\ a[i].n \in 1 .. n /\ Cseq(a, i)
               \/ i = x + 1 /\ Y[i].n = n + 1
    <2>1. i \in 1 .. x \/ i \in x + 1 .. x + y
      BY <1>3
    <2>2. CASE i \in 1 .. x
      <3>1. Y[i] = a[i] /\ Cseq(a, i)
        BY <1>3, <1>4, <2>2 DEF Cseq
      <3>2. a[i].n \in 1 .. n
        BY <1>2, <2>2, <3>1 DEF Rising
      <3> QED
        BY <2>2, <3>1, <3>2
    <2>3. CASE i \in x + 1 .. x + y
      <3>1. i - x \in 1 .. Len(r) /\ Y[i] = r[i - x]
        BY <1>2, <1>3, <2>3
      <3>2. Cseq(r, i - x)
        BY <1>4, <3>1 DEF Cseq
      <3>3. i - x = 1 /\ r[i - x].n = n + 1
        BY <3>1, <3>2
      <3> QED
        BY <1>3, <3>1, <3>3
    <2> QED
      BY <2>1, <2>2, <2>3
  <1>5. ASSUME NEW i \in 1 .. Len(Y), Cseq(Y, i) PROVE Y[i].n \in 1 .. n + 1
    BY <1>3, <1>4, <1>5
  <1>6. ASSUME NEW i \in 1 .. Len(Y), NEW j \in 1 .. Len(Y), i < j, Cseq(Y, i), Cseq(Y, j)
        PROVE  Y[i].n < Y[j].n
    <2>1. \/ i \in 1 .. x /\ Y[i] = a[i] /\ a[i].n \in 1 .. n /\ Cseq(a, i)
          \/ i = x + 1 /\ Y[i].n = n + 1
      BY <1>3, <1>4, <1>6
    <2>2. \/ j \in 1 .. x /\ Y[j] = a[j] /\ a[j].n \in 1 .. n /\ Cseq(a, j)
          \/ j = x + 1 /\ Y[j].n = n + 1
      BY <1>3, <1>4, <1>6
    <2>3. CASE j = x + 1 /\ Y[j].n = n + 1
      BY <1>3, <1>6, <2>1, <2>3, SMTT(60)
    <2>4. CASE j \in 1 .. x /\ Y[j] = a[j] /\ a[j].n \in 1 .. n /\ Cseq(a, j)
      <3>1. i \in 1 .. x /\ Y[i] = a[i] /\ Cseq(a, i)
        BY <1>3, <1>6, <2>1, <2>4
      <3>2. a[i].n < a[j].n
        BY <1>2, <1>6, <2>4, <3>1 DEF Rising
      <3> QED
        BY <2>4, <3>1, <3>2
    <2> QED
      BY <2>2, <2>3, <2>4
  <1> QED
    BY <1>2, <1>5, <1>6 DEF Rising

\* A set of numbers within 0 .. N has a greatest one: by induction over N.
LEMMA GreatestNatural ==
    ASSUME NEW N \in Nat, NEW S, S \subseteq 0 .. N, S # {}
    PROVE  \E m \in S : \A y \in S : y <= m
  <1> DEFINE T == {N - y : y \in S}
  <1>1. T \subseteq Nat /\ T # {}
    <2>1. ASSUME NEW y \in S PROVE N - y \in Nat /\ N - y \in T
      <3>1. y \in 0 .. N
        OBVIOUS
      <3> QED
        BY <3>1
    <2>2. \A x \in T : x \in Nat
      BY <2>1
    <2>3. \E y \in S : TRUE
      OBVIOUS
    <2> HIDE DEF T
    <2> QED
      BY <2>1, <2>2, <2>3
  <1>2. PICK x \in T : \A z \in T : x <= z
    <2> HIDE DEF T
    <2> QED
      BY <1>1, LeastNatural
  <1>3. PICK m \in S : x = N - m
    BY <1>2
  <1>4. ASSUME NEW y \in S PROVE y <= m
    <2>1. x <= N - y
      BY <1>2
    <2>2. m \in 0 .. N /\ y \in 0 .. N
      BY <1>3
    <2> QED
      BY <1>3, <2>1, <2>2
  <1> QED
    BY <1>3, <1>4

\* Max and Min are in the set, at its end.
LEMMA MaxIn ==
    ASSUME NEW N \in Nat, NEW S, S \subseteq 0 .. N, S # {}
    PROVE  /\ Max(S) \in S /\ \A y \in S : y <= Max(S)
           /\ Event!Max(S) = Max(S)
  <1>1. PICK m \in S : \A y \in S : y <= m
    BY GreatestNatural
  <1>2. Max(S) = CHOOSE x \in S : \A y \in S : x >= y
    BY DEF Max
  <1>3. \A y \in S : m >= y
    BY <1>1
  <1>4. PICK x : x = Max(S)
    OBVIOUS
  <1>5. x \in S /\ \A y \in S : x >= y
    BY <1>1, <1>2, <1>3, <1>4
  <1>6. \A y \in S : y <= x
    BY <1>5
  <1>7. Event!Max(S) = Max(S)
    BY DEF Event!Max, Max
  <1> QED
    BY <1>4, <1>5, <1>6, <1>7

\* And Min.
LEMMA MinIn ==
    ASSUME NEW S, S \subseteq Nat, S # {}
    PROVE  Event!Min(S) \in S /\ \A y \in S : Event!Min(S) <= y
  <1>1. PICK m \in S : \A y \in S : m <= y
    BY LeastNatural
  <1>2. Event!Min(S) = CHOOSE x \in S : \A y \in S : x <= y
    BY DEF Event!Min
  <1> QED
    BY <1>1, <1>2

\* The lines of a head: where it ends, and the last one of a kind.
LEMMA HeadEnds ==
    ASSUME NEW p \in Seq(EToks)
    PROVE  /\ Event!HeadEnd(p) \in 0 .. Len(p)
           /\ Event!HeadEnd(p) > 0 => p[Event!HeadEnd(p)].line = "end"
           /\ \A i \in 1 .. Len(p) :
                 p[i].line = "end" => Event!HeadEnd(p) > 0 /\ Event!HeadEnd(p) <= i
  <1> DEFINE S == {i \in DOMAIN p : p[i].line = "end"}
  <1>1. DOMAIN p = 1 .. Len(p) /\ Len(p) \in Nat
    OBVIOUS
  <1>2. Event!HeadEnd(p) = IF S = {} THEN 0 ELSE Event!Min(S)
    BY Zenon DEF Event!HeadEnd
  <1>3. S \subseteq Nat /\ \A i \in S : i \in 1 .. Len(p) /\ p[i].line = "end"
    BY <1>1
  <1>4. \A i \in 1 .. Len(p) : p[i].line = "end" => i \in S
    BY <1>1
  <1> HIDE DEF S
  <1>5. CASE S = {}
    BY <1>1, <1>2, <1>4, <1>5
  <1>6. CASE S # {}
    <2>1. Event!Min(S) \in S /\ \A y \in S : Event!Min(S) <= y
      BY <1>3, <1>6, MinIn
    <2>2. PICK m : m = Event!Min(S)
      OBVIOUS
    <2>3. Event!HeadEnd(p) = m /\ m \in S /\ \A y \in S : m <= y
      BY <1>2, <1>6, <2>1, <2>2
    <2>4. m \in 1 .. Len(p) /\ p[m].line = "end"
      BY <1>3, <2>3
    <2> QED
      BY <1>1, <1>4, <2>3, <2>4
  <1> QED
    BY <1>5, <1>6

\* The last line of a kind is one of the head's lines, or there is none.
LEMMA LastLines ==
    ASSUME NEW p \in Seq(EToks), NEW line, NEW end \in 0 .. Len(p)
    PROVE  \/ /\ Event!LastLine(p, line, end) = 0
              /\ \A i \in 1 .. end : p[i].line # line
           \/ \E i \in 1 .. end : p[i].line = line /\ Event!LastLine(p, line, end) = p[i].n
  <1> DEFINE S == {i \in 1 .. end : p[i].line = line}
  <1>1. Event!LastLine(p, line, end) = IF S = {} THEN 0 ELSE p[Event!Max(S)].n
    BY Zenon DEF Event!LastLine
  <1>2. S \subseteq 0 .. end /\ \A i \in S : i \in 1 .. end /\ p[i].line = line
    OBVIOUS
  <1>3. \A i \in 1 .. end : p[i].line = line => i \in S
    OBVIOUS
  <1>4. end \in Nat
    OBVIOUS
  <1> HIDE DEF S
  <1>5. CASE S = {}
    BY <1>1, <1>3, <1>5
  <1>6. CASE S # {}
    <2>1. Max(S) \in S /\ Event!Max(S) = Max(S)
      BY <1>2, <1>4, <1>6, MaxIn
    <2>2. PICK m : m = Max(S)
      OBVIOUS
    <2>3. m \in 1 .. end /\ p[m].line = line /\ Event!LastLine(p, line, end) = p[m].n
      BY <1>1, <1>2, <1>6, <2>1, <2>2
    <2> QED
      BY <2>3
  <1> QED
    BY <1>5, <1>6

\* The tokens of a request.
HeadLen(len) == IF len > 0 THEN 3 ELSE 2
RequestOf(r, n, len) ==
    /\ r \in Seq(EToks) /\ Len(r) = HeadLen(len) + len
    /\ r[1] = Event!Token("cseq", n) /\ r[HeadLen(len)] = Event!Token("end", 0)
    /\ len > 0 => r[2] = Event!Token("length", len)
    /\ \A i \in HeadLen(len) + 1 .. HeadLen(len) + len : r[i] = Event!Token("body", n)

\* Two or three tokens in a row.
Three(u, v, w) == (<<u>> \o <<v>>) \o <<w>>
Two(u, w) == (<<u>> \o <<>>) \o <<w>>

Rows(V, u, v, w, g, k) ==
    /\ g \in Seq(V) /\ Len(g) = 3 /\ g[1] = u /\ g[2] = v /\ g[3] = w
    /\ k \in Seq(V) /\ Len(k) = 2 /\ k[1] = u /\ k[2] = w

\* Their elements.
LEMMA Singles ==
    ASSUME NEW V, NEW u \in V, NEW v \in V, NEW w \in V
    PROVE  Rows(V, u, v, w, Three(u, v, w), Two(u, w))
  BY DEF Rows, Three, Two

\* The tokens HapEvent composes are those of a request.
LEMMA RequestShape ==
    ASSUME NEW n \in Nat, NEW len \in Nat
    PROVE  RequestOf(Event!RequestTokens(n, len), n, len)
  <1>1. PICK u, v, w, d : /\ u = Event!Token("cseq", n) /\ v = Event!Token("length", len)
                          /\ w = Event!Token("end", 0) /\ d = [i \in 1 .. len |-> Event!Token("body", n)]
    OBVIOUS
  <1>2. u \in EToks /\ v \in EToks /\ w \in EToks /\ Event!Token("body", n) \in EToks
    BY <1>1 DEF EToks, ELines, Event!Token
  <1>3. d \in Seq(EToks) /\ Len(d) = len /\ \A i \in 1 .. len : d[i] = Event!Token("body", n)
    <2>1. PICK t : t = Event!Token("body", n)
      OBVIOUS
    <2>2. t \in EToks /\ d = [i \in 1 .. len |-> t]
      BY <1>1, <1>2, <2>1
    <2> HIDE DEF EToks
    <2>3. d \in Seq(EToks) /\ Len(d) = len /\ \A i \in 1 .. len : d[i] = t
      BY ONLY <2>2, len \in Nat
    <2> QED
      BY <2>1, <2>3
  <1>4. PICK V : V = EToks
    OBVIOUS
  <1>5. PICK h : /\ h \in Seq(V) /\ Len(h) = HeadLen(len) /\ h[1] = u /\ h[HeadLen(len)] = w
                 /\ (len > 0 => h[2] = v)
                 /\ Event!RequestTokens(n, len) = h \o d
    <2>1. u \in V /\ v \in V /\ w \in V
      BY <1>2, <1>4
    <2>2. PICK g, k : g = Three(u, v, w) /\ k = Two(u, w)
      OBVIOUS
    <2>3. /\ g \in Seq(V) /\ Len(g) = 3 /\ g[1] = u /\ g[2] = v /\ g[3] = w
          /\ k \in Seq(V) /\ Len(k) = 2 /\ k[1] = u /\ k[2] = w
      <3>1. Rows(V, u, v, w, g, k)
        BY <2>1, <2>2, Singles
      <3> QED
        BY <3>1 DEF Rows
    <2>4. CASE len > 0
      <3>1. Event!RequestTokens(n, len) = ((<<u>> \o <<v>>) \o <<w>>) \o d
        BY <1>1, <2>4 DEF Event!RequestTokens
      <3>2. HeadLen(len) = 3
        BY <2>4 DEF HeadLen
      <3>3. g[HeadLen(len)] = w /\ Len(g) = HeadLen(len) /\ Event!RequestTokens(n, len) = g \o d
        BY <2>2, <2>3, <3>1, <3>2 DEF Three, Two
      <3> QED
        BY <2>3, <3>3
    <2>5. CASE ~(len > 0)
      <3>1. Event!RequestTokens(n, len) = ((<<u>> \o <<>>) \o <<w>>) \o d
        BY <1>1, <2>5 DEF Event!RequestTokens
      <3>2. HeadLen(len) = 2
        BY <2>5 DEF HeadLen
      <3>3. k[HeadLen(len)] = w /\ Len(k) = HeadLen(len) /\ Event!RequestTokens(n, len) = k \o d
        BY <2>2, <2>3, <3>1, <3>2 DEF Three, Two
      <3> QED
        BY <2>3, <2>5, <3>3
    <2> QED
      BY <2>4, <2>5
  <1>6. HeadLen(len) \in {2, 3} /\ (len > 0 => HeadLen(len) = 3)
    BY DEF HeadLen
  <1>7. PICK l : l = HeadLen(len)
    OBVIOUS
  <1>8. d \in Seq(V)
    BY <1>3, <1>4
  <1>9. /\ h \o d \in Seq(V) /\ Len(h \o d) = l + len
        /\ \A i \in 1 .. l : (h \o d)[i] = h[i]
        /\ \A i \in l + 1 .. l + len : (h \o d)[i] = d[i - l]
    <2>1. h \in Seq(V) /\ d \in Seq(V)
      BY <1>5, <1>8
    <2>2. /\ h \o d \in Seq(V) /\ Len(h \o d) = Len(h) + Len(d)
          /\ \A i \in 1 .. Len(h) : (h \o d)[i] = h[i]
          /\ \A i \in Len(h) + 1 .. Len(h) + Len(d) : (h \o d)[i] = d[i - Len(h)]
      BY ONLY <2>1, Concatenation
    <2>3. Len(h) = l /\ Len(d) = len
      BY <1>3, <1>5, <1>7
    <2> QED
      BY ONLY <2>2, <2>3
  <1>10. ASSUME NEW i \in l + 1 .. l + len PROVE (h \o d)[i] = Event!Token("body", n)
    <2>1. i - l \in 1 .. len
      BY <1>6, <1>7
    <2> QED
      BY <1>3, <1>9, <2>1
  <1>11. (h \o d)[1] = u /\ (h \o d)[l] = w /\ (len > 0 => (h \o d)[2] = v)
    <2>1. 1 \in 1 .. l /\ l \in 1 .. l /\ 2 \in 1 .. l
      BY <1>6, <1>7
    <2> QED
      BY <1>5, <1>7, <1>9, <2>1
  <1> QED
    BY <1>1, <1>4, <1>5, <1>7, <1>9, <1>10, <1>11 DEF RequestOf

\* The requests after the first h, one by one and in one.
Asking(lens, h) == [i \in 1 .. Len(lens) - h |-> Event!RequestTokens(h + i, lens[h + i])]
RequestsAfter(lens, h) == FlattenSeq(Asking(lens, h))

\* A request is a sequence of tokens.
LEMMA RequestType ==
    ASSUME NEW n \in Nat, NEW len \in Nat
    PROVE  Event!RequestTokens(n, len) \in Seq(EToks)
  BY RequestShape DEF RequestOf

\* So are the requests after the first h.
LEMMA AskingType ==
    ASSUME NEW lens \in Seq(Nat), NEW h \in 0 .. Len(lens)
    PROVE  /\ Asking(lens, h) \in Seq(Seq(EToks)) /\ Len(Asking(lens, h)) = Len(lens) - h
           /\ \A i \in 1 .. Len(lens) - h :
                 Asking(lens, h)[i] = Event!RequestTokens(h + i, lens[h + i])
           /\ RequestsAfter(lens, h) \in Seq(EToks)
  <1>1. PICK V, m, L : V = Seq(EToks) /\ m = Len(lens) - h /\ L = Len(lens)
    OBVIOUS
  <1>2. m \in Nat /\ h \in Nat /\ L \in Nat /\ h + m = L
    BY <1>1
  <1>3. ASSUME NEW i \in 1 .. m PROVE Event!RequestTokens(h + i, lens[h + i]) \in V
    <2>1. h + i \in 1 .. Len(lens) /\ h + i \in Nat
      BY <1>1, <1>2
    <2>2. lens[h + i] \in Nat
      BY <2>1, ElementOfSeq
    <2> QED
      BY <1>1, <2>1, <2>2, RequestType
  <1>4. Asking(lens, h) = [i \in 1 .. m |-> Event!RequestTokens(h + i, lens[h + i])]
    BY <1>1 DEF Asking
  <1>5. /\ Asking(lens, h) \in Seq(V) /\ Len(Asking(lens, h)) = m
        /\ \A i \in 1 .. m : Asking(lens, h)[i] = Event!RequestTokens(h + i, lens[h + i])
    BY ONLY <1>2, <1>3, <1>4
  <1>6. FlattenSeq(Asking(lens, h)) \in Seq(EToks)
    BY <1>1, <1>5, FlattenType
  <1> QED
    BY <1>1, <1>5, <1>6 DEF RequestsAfter

\* The first of them, and the others.
LEMMA RequestsFirst ==
    ASSUME NEW lens \in Seq(Nat), NEW h \in Nat, h < Len(lens)
    PROVE  RequestsAfter(lens, h) = Event!RequestTokens(h + 1, lens[h + 1]) \o RequestsAfter(lens, h + 1)
  <1>1. PICK V, m : V = Seq(EToks) /\ m = Len(lens) - h
    OBVIOUS
  <1>2. /\ m \in Nat /\ m > 0 /\ h \in 0 .. Len(lens) /\ h + 1 \in 0 .. Len(lens)
        /\ Len(lens) - (h + 1) = m - 1 /\ h + 1 \in 1 .. Len(lens)
    BY <1>1
  <1>3. PICK A, B, x : /\ A = Asking(lens, h) /\ B = Asking(lens, h + 1)
                       /\ x = Event!RequestTokens(h + 1, lens[h + 1])
    OBVIOUS
  <1>4. /\ A \in Seq(V) /\ Len(A) = m
        /\ \A i \in 1 .. m : A[i] = Event!RequestTokens(h + i, lens[h + i])
    BY <1>1, <1>2, <1>3, AskingType
  <1>5. /\ B \in Seq(V) /\ Len(B) = m - 1
        /\ \A i \in 1 .. m - 1 : B[i] = Event!RequestTokens((h + 1) + i, lens[(h + 1) + i])
    BY <1>1, <1>2, <1>3, AskingType
  <1>6. x \in V
    <2>1. lens[h + 1] \in Nat /\ h + 1 \in Nat
      BY <1>2, ElementOfSeq
    <2> QED
      BY <1>1, <1>3, <2>1, RequestType
  <1>7. PICK O : O = <<x>>
    OBVIOUS
  <1>8. O \in Seq(V) /\ Len(O) = 1 /\ O[1] = x
    BY <1>6, <1>7
  <1>9. /\ O \o B \in Seq(V) /\ Len(O \o B) = 1 + (m - 1)
        /\ (O \o B)[1] = O[1]
        /\ \A i \in 1 + 1 .. 1 + (m - 1) : (O \o B)[i] = B[i - 1]
    <2>1. O \in Seq(V) /\ B \in Seq(V)
      BY <1>5, <1>8
    <2>2. /\ O \o B \in Seq(V) /\ Len(O \o B) = Len(O) + Len(B)
          /\ \A i \in 1 .. Len(O) : (O \o B)[i] = O[i]
          /\ \A i \in Len(O) + 1 .. Len(O) + Len(B) : (O \o B)[i] = B[i - Len(O)]
      BY ONLY <2>1, Concatenation
    <2>3. (O \o B)[1] = O[1]
      BY <1>8, <2>2
    <2> QED
      BY ONLY <2>2, <2>3, <1>5, <1>8
  <1>10. ASSUME NEW i \in 1 .. m PROVE A[i] = (O \o B)[i]
    <2>1. CASE i = 1
      <3>1. (O \o B)[1] = x
        BY <1>8, <1>9
      <3>2. A[1] = x
        BY <1>2, <1>3, <1>4
      <3> QED
        BY <2>1, <3>1, <3>2
    <2>2. CASE i # 1
      <3>1. i \in 1 + 1 .. 1 + (m - 1) /\ i - 1 \in 1 .. m - 1 /\ (h + 1) + (i - 1) = h + i
        BY <1>2, <2>2
      <3>2. (O \o B)[i] = B[i - 1]
        BY <1>9, <3>1
      <3>3. B[i - 1] = Event!RequestTokens((h + 1) + (i - 1), lens[(h + 1) + (i - 1)])
        BY <1>5, <3>1
      <3> QED
        BY <1>4, <3>1, <3>2, <3>3
    <2> QED
      BY <2>1, <2>2
  <1>11. A = O \o B
    <2>1. Len(O \o B) = m
      BY <1>2, <1>9
    <2> QED
      BY <1>4, <1>9, <1>10, <2>1, SeqEqual
  <1>12. FlattenSeq(O) = x
    <2>1. O = Append(<<>>, x) /\ <<>> \in Seq(Seq(EToks)) /\ x \in Seq(EToks)
      BY <1>1, <1>6, <1>7
    <2>2. FlattenSeq(O) = <<>> \o x
      BY <2>1, FlattenAppend, FlattenEmpty
    <2> QED
      BY <2>1, <2>2, ConcatEmptySeq
  <1>13. FlattenSeq(A) = FlattenSeq(O) \o FlattenSeq(B)
    <2>1. O \in Seq(Seq(EToks)) /\ B \in Seq(Seq(EToks))
      BY <1>1, <1>5, <1>8
    <2> QED
      BY <1>11, <2>1, FlattenConcat
  <1> QED
    BY <1>3, <1>12, <1>13 DEF RequestsAfter

\* One more request comes last.
LEMMA RequestsNext ==
    ASSUME NEW lens \in Seq(Nat), NEW h \in 0 .. Len(lens), NEW x \in Nat
    PROVE  /\ Append(lens, x) \in Seq(Nat) /\ Len(Append(lens, x)) = Len(lens) + 1
           /\ RequestsAfter(Append(lens, x), h)
                = RequestsAfter(lens, h) \o Event!RequestTokens(Len(lens) + 1, x)
  <1>1. PICK V, m, N, z, L : /\ V = Seq(EToks) /\ m = Len(lens) - h /\ N = Append(lens, x)
                             /\ L = Len(lens) /\ z = Event!RequestTokens(L + 1, x)
    OBVIOUS
  <1>2. /\ N \in Seq(Nat) /\ Len(N) = L + 1 /\ (\A i \in 1 .. L : N[i] = lens[i]) /\ N[L + 1] = x
    <2>1. /\ Append(lens, x) \in Seq(Nat) /\ Len(Append(lens, x)) = Len(lens) + 1
          /\ \A i \in 1 .. Len(lens) : Append(lens, x)[i] = lens[i]
          /\ Append(lens, x)[Len(lens) + 1] = x
      BY AppendProperties
    <2> QED
      BY <1>1, <2>1
  <1>3. /\ m \in Nat /\ L \in Nat /\ h \in Nat /\ h \in 0 .. Len(N) /\ Len(N) - h = m + 1 /\ h + m = L
    BY <1>1, <1>2
  <1>4. PICK A, B : A = Asking(N, h) /\ B = Asking(lens, h)
    OBVIOUS
  <1>5. /\ A \in Seq(V) /\ Len(A) = m + 1
        /\ \A i \in 1 .. m + 1 : A[i] = Event!RequestTokens(h + i, N[h + i])
    BY <1>1, <1>2, <1>3, <1>4, AskingType, ZenonT(60)
  <1>6. /\ B \in Seq(V) /\ Len(B) = m
        /\ \A i \in 1 .. m : B[i] = Event!RequestTokens(h + i, lens[h + i])
    BY <1>1, <1>4, AskingType
  <1>7. z \in V
    <2>1. L + 1 \in Nat
      BY <1>3
    <2> QED
      BY <1>1, <2>1, RequestType
  <1>8. /\ Append(B, z) \in Seq(V) /\ Len(Append(B, z)) = m + 1
        /\ (\A i \in 1 .. m : Append(B, z)[i] = B[i]) /\ Append(B, z)[m + 1] = z
    <2>1. /\ Append(B, z) \in Seq(V) /\ Len(Append(B, z)) = Len(B) + 1
          /\ \A i \in 1 .. Len(B) : Append(B, z)[i] = B[i]
          /\ Append(B, z)[Len(B) + 1] = z
      BY <1>6, <1>7, AppendProperties
    <2> QED
      BY <1>6, <2>1
  <1>9. ASSUME NEW i \in 1 .. m + 1 PROVE A[i] = Append(B, z)[i]
    <2>1. i \in 1 .. m \/ i = m + 1
      BY <1>3
    <2>2. CASE i \in 1 .. m
      <3>1. h + i \in 1 .. L
        BY <1>3, <2>2
      <3> QED
        BY <1>2, <1>5, <1>6, <1>8, <2>2, <3>1
    <2>3. CASE i = m + 1
      <3>1. h + i = L + 1
        BY <1>3, <2>3
      <3> QED
        BY <1>1, <1>2, <1>5, <1>8, <2>3, <3>1
    <2> QED
      BY <2>1, <2>2, <2>3
  <1>10. A = Append(B, z)
    BY <1>5, <1>8, <1>9, SeqEqual
  <1>11. FlattenSeq(A) = FlattenSeq(B) \o z
    BY <1>1, <1>6, <1>7, <1>10, FlattenAppend
  <1> QED
    BY <1>1, <1>2, <1>4, <1>11 DEF RequestsAfter

\* After the last one there is none.
LEMMA RequestsNone ==
    ASSUME NEW lens \in Seq(Nat)
    PROVE  RequestsAfter(lens, Len(lens)) = <<>>
  <1>1. Asking(lens, Len(lens)) \in Seq(Seq(EToks)) /\ Len(Asking(lens, Len(lens))) = 0
    BY AskingType
  <1>2. Asking(lens, Len(lens)) = <<>>
    BY <1>1, EmptySeq
  <1> QED
    BY <1>2, FlattenEmpty DEF RequestsAfter

\* Q, with F to come, is the request R and then Z.
Starts(Q, F, R, Z) == Q \o F = R \o Z

\* Where the plaintext begins with a request, the loop finds just that one.
LEMMA FirstRequest ==
    ASSUME NEW Q \in Seq(EToks), NEW F \in Seq(EToks), NEW R, NEW Z \in Seq(EToks), NEW n \in Nat,
           NEW len \in Nat, RequestOf(R, n, len), Starts(Q, F, R, Z), Event!HasRequest(Q)
    PROVE  /\ Event!Total(Q) = Len(R) /\ Len(R) <= Len(Q)
           /\ Event!LastLine(Q, "cseq", Event!HeadEnd(Q)) = n
           /\ SubSeq(Q, Len(R) + 1, Len(Q)) \o F = Z
  <1>1. PICK V, q, l, e : V = EToks /\ q = Len(Q) /\ l = HeadLen(len) /\ e = Event!HeadEnd(Q)
    OBVIOUS
  <1>2. /\ R \in Seq(V) /\ Len(R) = l + len /\ R[1].line = "cseq" /\ R[1].n = n /\ R[l].line = "end"
        /\ len > 0 => R[2].line = "length" /\ R[2].n = len
    BY <1>1 DEF RequestOf, Event!Token
  <1>3. l \in {2, 3} /\ (len > 0 <=> l = 3) /\ q \in Nat
    BY <1>1 DEF HeadLen
  <1>4. /\ e \in 1 .. q /\ Q[e].line = "end"
        /\ \A i \in 1 .. q : Q[i].line = "end" => e <= i
    <2>1. e > 0
      BY <1>1 DEF Event!HasRequest
    <2> QED
      BY <1>1, <2>1, HeadEnds
  <1>5. ASSUME NEW i \in 1 .. q, i <= l + len PROVE Q[i] = R[i]
    <2>1. Q \in Seq(V) /\ F \in Seq(V) /\ R \in Seq(V) /\ Z \in Seq(V)
      BY <1>1, <1>2
    <2>2. PICK X : X = Q \o F
      OBVIOUS
    <2>3. \A k \in 1 .. Len(Q) : X[k] = Q[k]
      BY ONLY <2>1, <2>2, Concatenation
    <2>4. \A k \in 1 .. Len(R) : X[k] = R[k]
      <3>1. X = R \o Z
        BY <2>2 DEF Starts
      <3> QED
        BY ONLY <2>1, <3>1, Concatenation
    <2>5. i \in 1 .. Len(Q) /\ i \in 1 .. Len(R)
      BY <1>1, <1>2, <1>3, <1>5
    <2> QED
      BY <2>3, <2>4, <2>5
  <1>6. e = l
    <2>1. l \in 1 .. l + len
      BY <1>3
    <2>2. ASSUME e < l PROVE FALSE
      <3>1. e <= l + len /\ Q[e] = R[e]
        BY <1>3, <1>4, <1>5, <2>2
      <3>2. e = 1 \/ (e = 2 /\ len > 0)
        BY <1>3, <1>4, <2>2
      <3> QED
        BY <1>2, <1>4, <3>1, <3>2
    <2>3. ASSUME e > l PROVE FALSE
      <3>1. l \in 1 .. q /\ l <= l + len
        BY <1>3, <1>4, <2>3
      <3>2. Q[l] = R[l]
        BY <1>5, <3>1
      <3> QED
        BY <1>2, <1>3, <1>4, <2>3, <3>1, <3>2
    <2> QED
      BY <1>3, <1>4, <2>2, <2>3
  <1>7. ASSUME NEW i \in 1 .. e
        PROVE  /\ i \in 1 .. q /\ Q[i] = R[i]
               /\ Q[i].line = "cseq" => i = 1
               /\ Q[i].line = "length" => i = 2 /\ len > 0
    <2>1. i \in 1 .. q /\ i <= l + len /\ (i = 1 \/ (i = 2 /\ len > 0) \/ i = l)
      BY <1>3, <1>4, <1>6
    <2>2. Q[i] = R[i]
      BY <1>5, <2>1
    <2> QED
      BY <1>2, <2>1, <2>2
  <1>8. e \in 0 .. Len(Q)
    BY <1>1, <1>4
  <1>9. Event!LastLine(Q, "cseq", e) = n
    <2>1. 1 \in 1 .. e /\ Q[1] = R[1]
      BY <1>4, <1>7
    <2>2. \/ Event!LastLine(Q, "cseq", e) = 0 /\ \A i \in 1 .. e : Q[i].line # "cseq"
          \/ \E i \in 1 .. e : Q[i].line = "cseq" /\ Event!LastLine(Q, "cseq", e) = Q[i].n
      BY <1>8, LastLines, ZenonT(60)
    <2>3. PICK i \in 1 .. e : Q[i].line = "cseq" /\ Event!LastLine(Q, "cseq", e) = Q[i].n
      BY <1>2, <2>1, <2>2
    <2>4. i = 1
      BY <1>7, <2>3
    <2> QED
      BY <1>2, <2>1, <2>3, <2>4
  <1>10. Event!LastLine(Q, "length", e) = len
    <2>1. \/ Event!LastLine(Q, "length", e) = 0 /\ \A i \in 1 .. e : Q[i].line # "length"
          \/ \E i \in 1 .. e : Q[i].line = "length" /\ Event!LastLine(Q, "length", e) = Q[i].n
      BY <1>8, LastLines, ZenonT(60)
    <2>2. CASE len > 0
      <3>1. 2 \in 1 .. e /\ Q[2] = R[2]
        BY <1>3, <1>6, <1>7, <2>2
      <3>2. PICK i \in 1 .. e : Q[i].line = "length" /\ Event!LastLine(Q, "length", e) = Q[i].n
        BY <1>2, <2>1, <2>2, <3>1
      <3>3. i = 2
        BY <1>7, <3>2
      <3> QED
        BY <1>2, <2>2, <3>1, <3>2, <3>3
    <2>3. CASE ~(len > 0)
      <3>1. len = 0 /\ \A i \in 1 .. e : Q[i].line # "length"
        BY <1>7, <2>3
      <3> QED
        BY <2>1, <3>1
    <2> QED
      BY <2>2, <2>3
  <1>11. Event!Total(Q) = l + len
    BY <1>1, <1>6, <1>10 DEF Event!Total
  <1>12. l + len <= q
    BY <1>1, <1>11 DEF Event!HasRequest
  <1>13. SubSeq(Q, Len(R) + 1, Len(Q)) \o F = Z
    <2>1. Q \in Seq(V) /\ F \in Seq(V) /\ R \in Seq(V) /\ Z \in Seq(V) /\ Len(R) \in 0 .. Len(Q)
      BY <1>1, <1>2, <1>3, <1>12
    <2>2. SubSeq(Q \o F, Len(R) + 1, Len(Q \o F)) = SubSeq(Q, Len(R) + 1, Len(Q)) \o F
      BY ONLY <2>1, FromConcat
    <2>3. SubSeq(R \o Z, Len(R) + 1, Len(R \o Z)) = Z
      BY ONLY <2>1, SecondPart
    <2> QED
      BY <2>2, <2>3 DEF Starts
  <1> QED
    BY <1>1, <1>2, <1>9, <1>11, <1>12, <1>13

\* What is opened is there, and opens.
LEMMA OpenedRange ==
    ASSUME NEW T, NEW I \in Seq(ItemSet(T)), NEW key, NEW c
    PROVE  Opened(I, key, c) \in 0 .. Complete(I)
  <1> DEFINE Good(n) == \A j \in 1 .. n : Opens(FrameAt(I, j), key, c + j - 1)
             S == {n \in 0 .. Complete(I) : Good(n)}
  <1>1. PICK N : N = Complete(I)
    OBVIOUS
  <1>2. N \in Nat
    BY <1>1, CompleteHalf
  <1>3. 0 \in S
    BY <1>1, <1>2
  <1>4. S \subseteq 0 .. N
    BY <1>1
  <1>5. Opened(I, key, c) = Max(S)
    BY Zenon DEF Opened
  <1> HIDE DEF S
  <1>6. Max(S) \in S
    BY <1>2, <1>3, <1>4, MaxIn
  <1> QED
    BY <1>1, <1>4, <1>5, <1>6

\* The CSeqs that were answered, as CSeq lines (0: the request had none).
Mark(c) == IF c = 0 THEN Event!Token("end", 0) ELSE Event!Token("cseq", c)
Marks(C) == [i \in 1 .. Len(C) |-> Mark(C[i])]

\* Only a request with a CSeq leaves a CSeq line.
LEMMA MarkType ==
    ASSUME NEW c \in Nat
    PROVE  /\ Mark(c) \in EToks
           /\ c = 0 => Mark(c).line # "cseq"
           /\ c # 0 => Mark(c).line = "cseq" /\ Mark(c).n = c
  BY DEF Mark, Event!Token, EToks, ELines

\* One line for each CSeq answered.
LEMMA MarksType ==
    ASSUME NEW C \in Seq(Nat)
    PROVE  /\ Marks(C) \in Seq(EToks) /\ Len(Marks(C)) = Len(C)
           /\ \A i \in 1 .. Len(C) : Marks(C)[i] = Mark(C[i])
  <1>1. PICK V, m : V = EToks /\ m = Len(C)
    OBVIOUS
  <1>2. m \in Nat /\ Marks(C) = [i \in 1 .. m |-> Mark(C[i])]
    BY <1>1 DEF Marks
  <1>3. \A i \in 1 .. m : Mark(C[i]) \in V
    BY <1>1, MarkType, ElementOfSeq
  <1>4. Marks(C) \in Seq(V) /\ Len(Marks(C)) = m /\ \A i \in 1 .. m : Marks(C)[i] = Mark(C[i])
    BY ONLY <1>2, <1>3
  <1> QED
    BY <1>1, <1>4

\* One more.
LEMMA MarksAppend ==
    ASSUME NEW C \in Seq(Nat), NEW c \in Nat
    PROVE  Marks(Append(C, c)) = Append(Marks(C), Mark(c))
  <1>1. PICK V, m, D, A, t : /\ V = EToks /\ m = Len(C) /\ D = Append(C, c) /\ A = Marks(C)
                             /\ t = Mark(c)
    OBVIOUS
  <1>2. /\ D \in Seq(Nat) /\ Len(D) = m + 1 /\ (\A i \in 1 .. m : D[i] = C[i]) /\ D[m + 1] = c
        /\ m \in Nat
    <2>1. /\ Append(C, c) \in Seq(Nat) /\ Len(Append(C, c)) = Len(C) + 1
          /\ \A i \in 1 .. Len(C) : Append(C, c)[i] = C[i]
          /\ Append(C, c)[Len(C) + 1] = c
      BY AppendProperties
    <2> QED
      BY <1>1, <2>1
  <1>3. A \in Seq(V) /\ Len(A) = m /\ (\A i \in 1 .. m : A[i] = Mark(C[i])) /\ t \in V
    BY <1>1, MarksType, MarkType
  <1>4. /\ Append(A, t) \in Seq(V) /\ Len(Append(A, t)) = m + 1
        /\ (\A i \in 1 .. m : Append(A, t)[i] = A[i]) /\ Append(A, t)[m + 1] = t
    <2>1. /\ Append(A, t) \in Seq(V) /\ Len(Append(A, t)) = Len(A) + 1
          /\ \A i \in 1 .. Len(A) : Append(A, t)[i] = A[i]
          /\ Append(A, t)[Len(A) + 1] = t
      BY <1>3, AppendProperties
    <2> QED
      BY <1>3, <2>1
  <1>5. Marks(D) \in Seq(V) /\ Len(Marks(D)) = m + 1 /\ \A i \in 1 .. m + 1 : Marks(D)[i] = Mark(D[i])
    BY <1>1, <1>2, MarksType
  <1>6. ASSUME NEW i \in 1 .. m + 1 PROVE Marks(D)[i] = Append(A, t)[i]
    <2>1. i \in 1 .. m \/ i = m + 1
      BY <1>2
    <2> QED
      BY <1>1, <1>2, <1>3, <1>4, <1>5, <2>1
  <1>7. Marks(D) = Append(A, t)
    BY <1>4, <1>5, <1>6, SeqEqual
  <1> QED
    BY <1>1, <1>7

\* C: the CSeqs answered, P: the plaintext in hand, Y: what is still to come;
\* whole: nothing has been damaged.
InHand(C, P, Y, lens, whole) ==
    /\ Rising(Marks(C) \o (P \o Y), Len(lens))
    /\ whole => /\ Len(C) <= Len(lens) /\ \A i \in 1 .. Len(C) : C[i] = i
                /\ P \o Y = RequestsAfter(lens, Len(C))

\* A buffer that holds a request holds the end of its head.
LEMMA EmptyHas ==
    ASSUME NEW p \in Seq(EToks), Event!HasRequest(p)
    PROVE  Len(p) > 0 /\ Event!HeadEnd(p) \in 1 .. Len(p)
  BY HeadEnds DEF Event!HasRequest

\* What an answered request takes from the buffer, and the CSeq it is answered with.
LEMMA AnsweredPart ==
    ASSUME NEW Q \in Seq(EToks), Event!HasRequest(Q), NEW t, t = Event!Total(Q),
           NEW c, c = Event!LastLine(Q, "cseq", Event!HeadEnd(Q))
    PROVE  /\ t \in 1 .. Len(Q) /\ c \in Nat
           /\ c # 0 => \E k \in 1 .. t : Q[k] = Mark(c)
  <1>1. PICK e, q, V : e = Event!HeadEnd(Q) /\ q = Len(Q) /\ V = EToks
    OBVIOUS
  <1>2. e \in 1 .. q /\ e \in 0 .. Len(Q) /\ q \in Nat
    BY <1>1, EmptyHas
  <1>3. ASSUME NEW i \in 1 .. e PROVE Q[i] \in EToks
    <2>1. i \in 1 .. Len(Q)
      BY <1>1, <1>2
    <2> QED
      BY <2>1, ElementOfSeq
  <1>4. \/ Event!LastLine(Q, "length", e) = 0
        \/ \E i \in 1 .. e : Q[i].line = "length" /\ Event!LastLine(Q, "length", e) = Q[i].n
    BY <1>2, LastLines
  <1>5. Event!LastLine(Q, "length", e) \in Nat
    BY <1>3, <1>4 DEF EToks
  <1>6. t = e + Event!LastLine(Q, "length", e)
    BY <1>1 DEF Event!Total
  <1>7. t <= q
    BY <1>1 DEF Event!HasRequest
  <1>8. t \in 1 .. q /\ e <= t
    BY <1>2, <1>5, <1>6, <1>7
  <1>9. \/ c = 0
        \/ \E i \in 1 .. e : Q[i].line = "cseq" /\ c = Q[i].n
    <2>1. \/ Event!LastLine(Q, "cseq", e) = 0
          \/ \E i \in 1 .. e : Q[i].line = "cseq" /\ Event!LastLine(Q, "cseq", e) = Q[i].n
      BY <1>2, LastLines
    <2> QED
      BY <1>1, <2>1
  <1>10. c \in Nat
    BY <1>3, <1>9 DEF EToks
  <1>11. ASSUME c # 0 PROVE \E k \in 1 .. t : Q[k] = Mark(c)
    <2>1. PICK i \in 1 .. e : Q[i].line = "cseq" /\ c = Q[i].n
      BY <1>9, <1>11
    <2>2. i \in 1 .. t
      BY <1>2, <1>8
    <2>3. Q[i] = [line |-> "cseq", n |-> c]
      BY <1>3, <2>1 DEF EToks
    <2>4. Q[i] = Mark(c)
      BY <1>11, <2>3 DEF Mark, Event!Token
    <2> QED
      BY <2>2, <2>4
  <1> QED
    BY <1>1, <1>8, <1>10, <1>11

\* One request is answered.
LEMMA AnswerOne ==
    ASSUME NEW Q \in Seq(EToks), Event!HasRequest(Q), NEW D \in Seq(Nat), NEW Y \in Seq(EToks),
           NEW lens \in Seq(Nat), NEW whole, InHand(D, Q, Y, lens, whole),
           NEW t, t = Event!Total(Q), NEW c, c = Event!LastLine(Q, "cseq", Event!HeadEnd(Q))
    PROVE  InHand(Append(D, c), SubSeq(Q, t + 1, Len(Q)), Y, lens, whole)
  <1>1. PICK V, q, m, n : V = EToks /\ q = Len(Q) /\ m = Len(D) /\ n = Len(lens)
    OBVIOUS
  <1>2. t \in 1 .. q /\ c \in Nat /\ (c # 0 => \E k \in 1 .. t : Q[k] = Mark(c)) /\ q \in Nat
    BY <1>1, AnsweredPart, SMTT(60)
  <1>3. t \in 0 .. Len(Q)
    BY <1>1, <1>2
  <1>4. PICK R, Z : R = SubSeq(Q, 1, t) /\ Z = SubSeq(Q, t + 1, Len(Q))
    OBVIOUS
  <1>5. Q \in Seq(V) /\ Y \in Seq(V)
    BY <1>1
  <1>6. /\ R \in Seq(V) /\ Len(R) = t /\ (\A i \in 1 .. t : R[i] = Q[i]) /\ R \o Z = Q
        /\ Z \in Seq(V)
    BY ONLY <1>3, <1>4, <1>5, UpTo, From
  <1>7. Q \o Y = R \o (Z \o Y) /\ Z \o Y \in Seq(V)
    <2>1. R \in Seq(V) /\ Z \in Seq(V) /\ Y \in Seq(V)
      BY <1>5, <1>6
    <2>2. (R \o Z) \o Y = R \o (Z \o Y)
      BY ONLY <2>1, ConcatAssociative, SMTT(60)
    <2>3. Z \o Y \in Seq(V)
      BY ONLY <2>1, Concatenation
    <2> QED
      BY <1>6, <2>2, <2>3
  <1>8. Rising(Marks(Append(D, c)) \o (Z \o Y), n)
    <2>1. Marks(D) \in Seq(V) /\ Mark(c) \in EToks
      BY <1>1, <1>2, MarksType, MarkType
    <2>2. Rising(Marks(D) \o (R \o (Z \o Y)), n)
      BY <1>1, <1>7 DEF InHand
    <2>3. Mark(c).line # "cseq" \/ \E k \in 1 .. Len(R) : Mark(c) = R[k]
      <3>1. CASE c = 0
        BY <1>2, <3>1, MarkType
      <3>2. CASE c # 0
        <4>1. PICK k \in 1 .. t : Q[k] = Mark(c)
          BY <1>2, <3>2
        <4> QED
          BY <1>6, <4>1
      <3> QED
        BY <3>1, <3>2
    <2>4. Marks(D) \in Seq(EToks) /\ R \in Seq(EToks) /\ Z \o Y \in Seq(EToks)
      BY <1>1, <1>6, <1>7, <2>1
    <2>5. Rising(Append(Marks(D), Mark(c)) \o (Z \o Y), n)
      BY ONLY <2>1, <2>2, <2>3, <2>4, RisingAnswered
    <2> QED
      BY <1>2, <2>5, MarksAppend
  <1>9. ASSUME whole
        PROVE  /\ m + 1 <= n /\ c = m + 1 /\ Z \o Y = RequestsAfter(lens, m + 1)
               /\ \A i \in 1 .. m : D[i] = i
    <2>1. m <= n /\ (\A i \in 1 .. m : D[i] = i) /\ Q \o Y = RequestsAfter(lens, m)
      BY <1>1, <1>9 DEF InHand
    <2>2. m \in Nat /\ n \in Nat
      BY <1>1
    <2>3. m # n
      <3> SUFFICES ASSUME m = n PROVE FALSE
        OBVIOUS
      <3>1. Q \o Y = <<>>
        BY <1>1, <2>1, RequestsNone
      <3>2. Len(Q \o Y) = Len(Q) + Len(Y) /\ Len(Y) \in Nat
        BY ONLY <1>5, Concatenation
      <3>3. Len(Q \o Y) = 0
        BY <3>1
      <3> QED
        BY <1>1, <1>2, <3>2, <3>3
    <2>4. m < Len(lens) /\ m + 1 \in 1 .. Len(lens) /\ m + 1 \in 0 .. Len(lens) /\ m + 1 \in Nat
      BY <1>1, <2>1, <2>2, <2>3
    <2>5. PICK X, W, x : /\ X = Event!RequestTokens(m + 1, x)
                        /\ W = RequestsAfter(lens, m + 1) /\ x = lens[m + 1]
      OBVIOUS
    <2>6. x \in Nat
      BY <2>4, <2>5, ElementOfSeq
    <2>7. RequestOf(X, m + 1, x)
      BY <2>4, <2>5, <2>6, RequestShape
    <2>8. W \in Seq(EToks)
      BY <2>4, <2>5, AskingType
    <2>9. Q \o Y = X \o W
      BY <2>1, <2>2, <2>4, <2>5, RequestsFirst
    <2>10. /\ Event!Total(Q) = Len(X) /\ Event!LastLine(Q, "cseq", Event!HeadEnd(Q)) = m + 1
           /\ SubSeq(Q, Len(X) + 1, Len(Q)) \o Y = W
      <3>1. PICK k : k = m + 1
        OBVIOUS
      <3>2. /\ Q \in Seq(EToks) /\ Y \in Seq(EToks) /\ W \in Seq(EToks) /\ Event!HasRequest(Q)
            /\ k \in Nat /\ x \in Nat /\ RequestOf(X, k, x) /\ Starts(Q, Y, X, W)
        BY <2>4, <2>6, <2>7, <2>8, <2>9, <3>1 DEF Starts
      <3>3. /\ Event!Total(Q) = Len(X) /\ Event!LastLine(Q, "cseq", Event!HeadEnd(Q)) = k
            /\ SubSeq(Q, Len(X) + 1, Len(Q)) \o Y = W
        BY ONLY <3>2, FirstRequest
      <3> QED
        BY <3>1, <3>3
    <2>11. c = m + 1 /\ t = Len(X) /\ m + 1 <= n
      BY <1>1, <2>2, <2>4, <2>10
    <2>12. Z \o Y = W
      BY <1>4, <2>10, <2>11
    <2> QED
      BY <2>1, <2>5, <2>11, <2>12
  <1>10. /\ Len(Append(D, c)) = m + 1 /\ (\A i \in 1 .. m : Append(D, c)[i] = D[i])
         /\ Append(D, c)[m + 1] = c /\ m \in Nat
    <2>1. /\ Append(D, c) \in Seq(Nat) /\ Len(Append(D, c)) = Len(D) + 1
          /\ \A i \in 1 .. Len(D) : Append(D, c)[i] = D[i]
          /\ Append(D, c)[Len(D) + 1] = c
      BY <1>2, AppendProperties
    <2> QED
      BY <1>1, <2>1
  <1>11. ASSUME whole, NEW i \in 1 .. m + 1 PROVE Append(D, c)[i] = i
    <2>1. i \in 1 .. m \/ i = m + 1
      BY <1>10
    <2> QED
      BY <1>9, <1>10, <1>11, <2>1
  <1> QED
    BY <1>1, <1>4, <1>8, <1>9, <1>10, <1>11 DEF InHand

\* The loop over the plaintext.
ServeSet == [rest : Seq(EToks), cseqs : Seq(Nat)]

\* The fields of the loop's state.
LEMMA ServeFields ==
    ASSUME NEW a, NEW b, NEW x, x = [rest |-> a, cseqs |-> b]
    PROVE  x.rest = a /\ x.cseqs = b
  OBVIOUS

\* A turn of the loop takes off and answers a request, or changes nothing.
LEMMA ServeCases ==
    ASSUME NEW r \in ServeSet
    PROVE  \/ ~Event!HasRequest(r.rest) /\ Event!Serve(r) = r
           \/ /\ Event!HasRequest(r.rest)
              /\ Event!Serve(r) = [rest  |-> SubSeq(r.rest, Event!Total(r.rest) + 1, Len(r.rest)),
                                   cseqs |-> Append(r.cseqs,
                                       Event!LastLine(r.rest, "cseq", Event!HeadEnd(r.rest)))]
  BY Zenon DEF Event!Serve

\* A turn keeps the types, and shortens the plaintext where it answers.
LEMMA ServeType ==
    ASSUME NEW r \in ServeSet
    PROVE  /\ Event!Serve(r) \in ServeSet
           /\ Event!HasRequest(r.rest) => Len(Event!Serve(r).rest) < Len(r.rest)
           /\ ~Event!HasRequest(r.rest) => Event!Serve(r) = r
  <1>1. CASE ~Event!HasRequest(r.rest)
    BY <1>1, ServeCases
  <1>2. CASE Event!HasRequest(r.rest)
    <2>1. PICK Q, t, c, D : /\ Q = r.rest /\ t = Event!Total(r.rest) /\ D = r.cseqs
                            /\ c = Event!LastLine(r.rest, "cseq", Event!HeadEnd(r.rest))
      OBVIOUS
    <2>2. Q \in Seq(EToks) /\ D \in Seq(Nat)
      BY <2>1 DEF ServeSet
    <2>3. t \in 1 .. Len(Q) /\ c \in Nat
      BY <1>2, <2>1, <2>2, AnsweredPart
    <2>4. PICK Z, E : Z = SubSeq(Q, t + 1, Len(Q)) /\ E = Append(D, c)
      OBVIOUS
    <2>5. Z \in Seq(EToks) /\ Len(Z) = Len(Q) - t
      <3>1. t \in 0 .. Len(Q)
        BY <2>3
      <3> QED
        BY ONLY <2>2, <2>4, <3>1, From
    <2>6. E \in Seq(Nat)
      BY <2>2, <2>3, <2>4, AppendProperties
    <2>7. Event!Serve(r) = [rest |-> Z, cseqs |-> E]
      BY <1>2, <2>1, <2>4, ServeCases
    <2>8. Event!Serve(r).rest = Z /\ Event!Serve(r) \in ServeSet
      BY <2>5, <2>6, <2>7 DEF ServeSet
    <2>9. Len(Z) < Len(Q)
      BY <2>2, <2>3, <2>5
    <2> QED
      BY <1>2, <2>1, <2>8, <2>9
  <1> QED
    BY <1>1, <1>2

\* A turn that changes something shortens the plaintext, so the loop ends.
LEMMA ServeShrinks ==
    ASSUME NEW r \in ServeSet
    PROVE  Event!Serve(r) = r \/ Len(Event!Serve(r).rest) < Len(r.rest)
  BY ServeType

\* The rounds of the loop that starts at x.
Rounds(f, x, n) == f = [k \in 0 .. n |-> IF k = 0 THEN {x} ELSE {Event!Serve(r) : r \in f[k - 1]}]

\* They exist for any number of turns: by induction over it.
LEMMA RoundsExist ==
    ASSUME NEW x, NEW n \in Nat
    PROVE  \E f : Rounds(f, x, n)
  <1> DEFINE G == {m \in Nat : \E f : Rounds(f, x, m)}
  <1>1. 0 \in G
    <2> DEFINE f == [k \in 0 .. 0 |-> {x}]
    <2>1. Rounds(f, x, 0)
      BY DEF Rounds
    <2> QED
      BY <2>1
  <1>2. ASSUME NEW m \in Nat, m \in G PROVE m + 1 \in G
    <2>1. PICK f : Rounds(f, x, m)
      BY <1>2
    <2> DEFINE h == [k \in 0 .. m + 1 |-> IF k = m + 1 THEN {Event!Serve(r) : r \in f[m]} ELSE f[k]]
    <2>2. ASSUME NEW k \in 0 .. m
          PROVE  f[k] = IF k = 0 THEN {x} ELSE {Event!Serve(r) : r \in f[k - 1]}
      BY <2>1 DEF Rounds
    <2>3. ASSUME NEW k \in 0 .. m + 1
          PROVE  h[k] = IF k = 0 THEN {x} ELSE {Event!Serve(r) : r \in h[k - 1]}
      <3>1. CASE k = m + 1
        <4>1. k # 0 /\ k - 1 \in 0 .. m + 1 /\ k - 1 = m /\ k - 1 # m + 1
          BY <3>1
        <4>2. h[k - 1] = f[m]
          BY <4>1
        <4>3. h[k] = {Event!Serve(r) : r \in f[m]}
          BY <3>1
        <4> QED
          BY <4>1, <4>2, <4>3
      <3>2. CASE k # m + 1
        <4>1. k \in 0 .. m /\ h[k] = f[k]
          BY <3>2
        <4>2. k # 0 => k - 1 \in 0 .. m + 1 /\ k - 1 # m + 1 /\ h[k - 1] = f[k - 1]
          BY <4>1
        <4>3. f[k] = IF k = 0 THEN {x} ELSE {Event!Serve(r) : r \in f[k - 1]}
          BY <2>2, <4>1
        <4> HIDE DEF h
        <4>4. CASE k = 0
          BY <4>1, <4>3, <4>4
        <4>5. CASE k # 0
          BY <4>1, <4>2, <4>3, <4>5
        <4> QED
          BY <4>4, <4>5
      <3> QED
        BY <3>1, <3>2
    <2>4. h = [k \in 0 .. m + 1 |-> h[k]]
      OBVIOUS
    <2> HIDE DEF h
    <2>5. Rounds(h, x, m + 1)
      BY <2>3, <2>4 DEF Rounds
    <2> QED
      BY <2>5
  <1> HIDE DEF G
  <1>3. Nat \subseteq G
    BY <1>1, <1>2, NatSetInduction
  <1> QED
    BY <1>3 DEF G

\* Where the loop starts.
Read(p) == [rest |-> p, cseqs |-> <<>>]

\* The loop has ended after as many turns as there are tokens.
LEMMA ServedIsLast ==
    ASSUME NEW p, Len(p) \in Nat
    PROVE  \E f : Rounds(f, Read(p), Len(p)) /\ Event!Served(p) = f[Len(p)]
  <1> DEFINE w == CHOOSE f : Rounds(f, Read(p), Len(p))
  <1>1. Rounds(w, Read(p), Len(p))
    BY RoundsExist
  <1>2. Event!Served(p) = w[Len(p)]
    BY DEF Event!Served, Rounds, Read
  <1> QED
    BY <1>1, <1>2

\* What every turn keeps holds where the loop ends, and there a turn changes nothing.
LEMMA AnswersKeep ==
    ASSUME NEW p \in Seq(EToks), NEW G, G \subseteq ServeSet, Read(p) \in G,
           \A r \in G : Event!Serve(r) \in G
    PROVE  \A r \in Event!Served(p) : r \in G /\ Event!Serve(r) = r
  <1>1. PICK L : L = Len(p)
    OBVIOUS
  <1>2. L \in Nat
    BY <1>1
  <1>3. PICK f : Rounds(f, Read(p), L) /\ Event!Served(p) = f[L]
    BY <1>1, <1>2, ServedIsLast
  <1>4. \A k \in 0 .. L : f[k] = IF k = 0 THEN {Read(p)} ELSE {Event!Serve(r) : r \in f[k - 1]}
    BY <1>3 DEF Rounds
  <1> DEFINE At(k) == {r \in G : Event!Serve(r) = r \/ Len(r.rest) + k <= L}
             T == {k \in Nat : k <= L => f[k] \subseteq At(k)}
  <1>5. 0 \in T
    <2>1. f[0] = {Read(p)}
      <3>1. 0 \in 0 .. L
        BY <1>2
      <3> QED
        BY <1>4, <3>1
    <2>2. Len(Read(p).rest) = L
      BY <1>1 DEF Read
    <2>3. Read(p) \in At(0)
      BY <1>2, <2>2
    <2> QED
      BY <2>1, <2>3
  <1>6. ASSUME NEW k \in Nat, k \in T PROVE k + 1 \in T
    <2>0. k + 1 \in Nat
      OBVIOUS
    <2> SUFFICES ASSUME k + 1 <= L PROVE f[k + 1] \subseteq At(k + 1)
      BY <2>0, Zenon
    <2>1. f[k + 1] = {Event!Serve(r) : r \in f[k]}
      <3>1. k + 1 \in 0 .. L /\ k + 1 # 0 /\ (k + 1) - 1 = k
        BY <1>2
      <3>2. f[k + 1] = {Event!Serve(r) : r \in f[(k + 1) - 1]}
        BY <1>4, <3>1
      <3> QED
        BY <3>1, <3>2
    <2>2. f[k] \subseteq At(k)
      BY <1>2, <1>6
    <2>3. ASSUME NEW r \in f[k] PROVE Event!Serve(r) \in At(k + 1)
      <3>1. r \in G /\ (Event!Serve(r) = r \/ Len(r.rest) + k <= L) /\ Event!Serve(r) \in G
        BY <2>2, <2>3
      <3>2. CASE Event!Serve(r) = r
        BY <3>1, <3>2
      <3>3. CASE Event!Serve(r) # r
        <4>1. Len(Event!Serve(r).rest) < Len(r.rest)
          BY <3>1, <3>3, ServeShrinks
        <4>2. Len(Event!Serve(r).rest) \in Nat /\ Len(r.rest) \in Nat
          BY <3>1 DEF ServeSet
        <4>3. Len(Event!Serve(r).rest) + (k + 1) <= L
          <5>1. PICK u, v : u = Len(Event!Serve(r).rest) /\ v = Len(r.rest)
            OBVIOUS
          <5>2. u < v /\ u \in Nat /\ v \in Nat /\ v + k <= L
            BY <3>1, <3>3, <4>1, <4>2, <5>1
          <5>3. u + (k + 1) <= L
            BY <1>2, <5>2
          <5> QED
            BY <5>1, <5>3
        <4> QED
          BY <3>1, <4>3
      <3> QED
        BY <3>2, <3>3
    <2> QED
      BY <2>1, <2>3
  <1>7. f[L] \subseteq At(L)
    <2>1. L \in T
      <3> HIDE DEF T
      <3> QED
        BY <1>2, <1>5, <1>6, NatSetInduction
    <2> QED
      BY <1>2, <2>1
  <1>8. ASSUME NEW r \in At(L) PROVE r \in G /\ Event!Serve(r) = r
    <2>1. r \in G /\ (Event!Serve(r) = r \/ Len(r.rest) + L <= L)
      BY <1>8
    <2>2. Len(r.rest) \in Nat /\ Event!Serve(r) \in ServeSet
      BY <2>1 DEF ServeSet
    <2>3. Len(Event!Serve(r).rest) \in Nat
      BY <2>2 DEF ServeSet
    <2>4. Event!Serve(r) = r \/ Len(Event!Serve(r).rest) < Len(r.rest)
      BY <2>1, ServeShrinks
    <2> QED
      BY <1>2, <2>1, <2>2, <2>3, <2>4
  <1> QED
    BY <1>3, <1>7, <1>8

\* Appending to the second part.
Joins(a, b, x) == Append(a \o b, x) = a \o Append(b, x)

\* It is appending to both.
LEMMA AppendLast ==
    ASSUME NEW V, NEW a \in Seq(V), NEW b \in Seq(V), NEW x \in V
    PROVE  Joins(a, b, x)
  <1>1. PICK o : o = <<x>>
    OBVIOUS
  <1>2. o \in Seq(V) /\ Append(b, x) = b \o o /\ Append(a \o b, x) = (a \o b) \o o
    BY <1>1
  <1>3. (a \o b) \o o = a \o (b \o o)
    BY <1>2, ConcatAssociative, SMTT(60)
  <1> QED
    BY <1>2, <1>3 DEF Joins

\* What onEventReadyRead_ answers, and what it leaves.
LEMMA AnswersLeave ==
    ASSUME NEW P \in Seq(EToks), NEW C \in Seq(Nat), NEW Y \in Seq(EToks), NEW lens \in Seq(Nat),
           NEW whole \in BOOLEAN, InHand(C, P, Y, lens, whole)
    PROVE  \A r \in Event!Served(P) :
              /\ r.rest \in Seq(EToks) /\ r.cseqs \in Seq(Nat)
              /\ InHand(C \o r.cseqs, r.rest, Y, lens, whole)
              /\ ~Event!HasRequest(r.rest)
  <1> DEFINE In(r) == InHand(C \o r.cseqs, r.rest, Y, lens, whole)
             G == {r \in ServeSet : In(r)}
  <1>1. Read(P) \in G
    <2>1. Read(P) \in ServeSet /\ Read(P).rest = P /\ Read(P).cseqs = <<>>
      BY DEF Read, ServeSet
    <2>2. C \o Read(P).cseqs = C
      BY <2>1, ConcatEmptySeq
    <2> QED
      BY <2>1, <2>2
  <1>2. ASSUME NEW r \in G PROVE Event!Serve(r) \in G
    <2>1. r \in ServeSet /\ In(r)
      OBVIOUS
    <2>2. CASE ~Event!HasRequest(r.rest)
      BY <2>1, <2>2, ServeCases
    <2>3. CASE Event!HasRequest(r.rest)
      <3>1. PICK Q, t, c, D : /\ Q = r.rest /\ t = Event!Total(r.rest) /\ D = r.cseqs
                              /\ c = Event!LastLine(r.rest, "cseq", Event!HeadEnd(r.rest))
        OBVIOUS
      <3>2. Q \in Seq(EToks) /\ D \in Seq(Nat) /\ Event!HasRequest(Q)
        BY <2>1, <2>3, <3>1 DEF ServeSet
      <3>3. PICK B, Z, E : B = C \o D /\ Z = SubSeq(Q, t + 1, Len(Q)) /\ E = Append(D, c)
        OBVIOUS
      <3>4. B \in Seq(Nat) /\ c \in Nat
        <4>1. c \in Nat
          BY <3>1, <3>2, AnsweredPart
        <4> QED
          BY ONLY <3>2, <3>3, <4>1, C \in Seq(Nat), Concatenation
      <3>5. InHand(B, Q, Y, lens, whole)
        BY <2>1, <3>1, <3>3
      <3>6. InHand(Append(B, c), Z, Y, lens, whole)
        BY <3>1, <3>2, <3>3, <3>4, <3>5, AnswerOne
      <3>7. Append(B, c) = C \o E
        <4>1. C \in Seq(Nat) /\ D \in Seq(Nat) /\ c \in Nat
          BY <3>2, <3>4
        <4>2. Joins(C, D, c)
          BY <4>1, AppendLast
        <4> QED
          BY <3>3, <4>2 DEF Joins
      <3>8. Event!Serve(r).rest = Z /\ Event!Serve(r).cseqs = E
        <4>1. Event!Serve(r) = [rest |-> Z, cseqs |-> E]
          BY <2>1, <2>3, <3>1, <3>3, ServeCases
        <4> QED
          BY <4>1, ServeFields
      <3>9. In(Event!Serve(r))
        BY <3>6, <3>7, <3>8
      <3> QED
        BY <2>1, <3>9, ServeType
    <2> QED
      BY <2>2, <2>3
  <1>3. G \subseteq ServeSet
    OBVIOUS
  <1>4. \A r \in Event!Served(P) : r \in G /\ Event!Serve(r) = r
    <2> HIDE DEF G
    <2> QED
      BY <1>1, <1>2, <1>3, AnswersKeep
  <1> SUFFICES ASSUME NEW r \in Event!Served(P)
               PROVE  /\ r.rest \in Seq(EToks) /\ r.cseqs \in Seq(Nat) /\ In(r)
                      /\ ~Event!HasRequest(r.rest)
    OBVIOUS
  <1>5. r \in ServeSet /\ In(r) /\ Event!Serve(r) = r
    BY <1>4
  <1>6. r.rest \in Seq(EToks) /\ r.cseqs \in Seq(Nat)
    BY <1>5 DEF ServeSet
  <1>7. Len(r.rest) \in Nat
    BY <1>6
  <1>8. ~Event!HasRequest(r.rest)
    BY <1>5, <1>7, ServeType
  <1> QED
    BY <1>5, <1>6, <1>8

\* Sequences put together in another order.
Associates(a, b, c) == (a \o b) \o c = a \o (b \o c)

\* Three sequences.
LEMMA Associate ==
    ASSUME NEW V, NEW a \in Seq(V), NEW b \in Seq(V), NEW c \in Seq(V)
    PROVE  Associates(a, b, c)
  BY ConcatAssociative DEF Associates

Regrouped(a, b, c, d) == a \o ((b \o c) \o d) = (a \o b) \o (c \o d)

\* Four sequences.
LEMMA Regroup ==
    ASSUME NEW V, NEW a \in Seq(V), NEW b \in Seq(V), NEW c \in Seq(V), NEW d \in Seq(V)
    PROVE  Regrouped(a, b, c, d)
  <1>1. PICK x : x = c \o d
    OBVIOUS
  <1>2. (b \o c) \o d = b \o x
    BY <1>1, Associate DEF Associates
  <1>3. x \in Seq(V)
    BY <1>1, Concatenation
  <1>4. Associates(a, b, x)
    BY <1>3, Associate
  <1> QED
    BY <1>1, <1>2, <1>4 DEF Regrouped, Associates

\* It does not matter where plaintext in hand ends and what is to come begins.
LEMMA InHandMoved ==
    ASSUME NEW C, NEW P, NEW Y, NEW lens, NEW whole, InHand(C, P, Y, lens, whole),
           NEW Q, NEW Z, Q \o Z = P \o Y
    PROVE  InHand(C, Q, Z, lens, whole)
  BY Zenon DEF InHand

\* Plaintext that is lost on the way leaves the CSeqs rising.
LEMMA InHandDropped ==
    ASSUME NEW C \in Seq(Nat), NEW P \in Seq(EToks), NEW b \in Seq(EToks), NEW Y \in Seq(EToks),
           NEW lens, NEW whole, NEW X, X = b \o Y, InHand(C, P, X, lens, whole)
    PROVE  InHand(C, P, Y, lens, FALSE)
  <1>1. PICK M, n : M = Marks(C) /\ n = Len(lens)
    OBVIOUS
  <1>2. M \in Seq(EToks) /\ P \in Seq(EToks) /\ b \in Seq(EToks) /\ Y \in Seq(EToks)
    BY <1>1, MarksType
  <1>3. PICK V, a : V = EToks /\ a = M \o P
    OBVIOUS
  <1>4. M \in Seq(V) /\ P \in Seq(V) /\ b \in Seq(V) /\ Y \in Seq(V)
    BY <1>2, <1>3
  <1>5. X \in Seq(V) /\ a \in Seq(V)
    BY ONLY <1>3, <1>4, X = b \o Y, Concatenation
  <1>6. M \o (P \o X) = a \o X /\ M \o (P \o Y) = a \o Y
    <2>1. Associates(M, P, X) /\ Associates(M, P, Y)
      BY <1>4, <1>5, Associate
    <2> QED
      BY <1>3, <2>1 DEF Associates
  <1>7. Rising(a \o (b \o Y), n)
    <2>1. Rising(M \o (P \o X), n)
      BY <1>1 DEF InHand
    <2> QED
      BY <1>6, <2>1
  <1>8. Rising(a \o Y, n)
    <2>1. a \in Seq(EToks)
      BY <1>3, <1>5
    <2> QED
      BY ONLY <1>2, <1>7, <2>1, RisingDropped
  <1> QED
    BY <1>1, <1>6, <1>8 DEF InHand

\* The receiver composes a request.
LEMMA InHandNext ==
    ASSUME NEW C \in Seq(Nat), NEW P \in Seq(EToks), NEW Y \in Seq(EToks), NEW lens \in Seq(Nat),
           NEW whole, InHand(C, P, Y, lens, whole), NEW x \in Nat,
           NEW r, r = Event!RequestTokens(Len(lens) + 1, x)
    PROVE  InHand(C, P, Y \o r, Append(lens, x), whole)
  <1>1. PICK M, n, V, A : M = Marks(C) /\ n = Len(lens) /\ V = EToks /\ A = P \o Y
    OBVIOUS
  <1>2. n \in Nat
    BY <1>1
  <1>3. RequestOf(r, n + 1, x) /\ r \in Seq(EToks)
    <2>1. n + 1 \in Nat
      BY <1>2
    <2> QED
      BY <1>1, <2>1, RequestShape DEF RequestOf
  <1>4. M \in Seq(V) /\ P \in Seq(V) /\ Y \in Seq(V) /\ r \in Seq(V)
    BY <1>1, <1>3, MarksType
  <1>5. A \in Seq(V)
    BY ONLY <1>1, <1>4, Concatenation
  <1>6. PICK B : B = M \o A
    OBVIOUS
  <1>7. B \in Seq(V)
    BY ONLY <1>4, <1>5, <1>6, Concatenation
  <1>8. P \o (Y \o r) = A \o r /\ M \o (A \o r) = B \o r
    <2>1. Associates(P, Y, r) /\ Associates(M, A, r)
      BY <1>4, <1>5, Associate
    <2> QED
      BY <1>1, <1>6, <2>1 DEF Associates
  <1>9. Rising(B, n)
    BY <1>1, <1>6 DEF InHand
  <1>10. ASSUME NEW i \in 1 .. Len(r), Cseq(r, i) PROVE i = 1 /\ r[i].n = n + 1
    <2>1. /\ r \in Seq(EToks) /\ Len(r) = HeadLen(x) + x
          /\ r[1] = Event!Token("cseq", n + 1) /\ r[HeadLen(x)] = Event!Token("end", 0)
          /\ (x > 0 => r[2] = Event!Token("length", x))
          /\ \A k \in HeadLen(x) + 1 .. HeadLen(x) + x : r[k] = Event!Token("body", n + 1)
      BY <1>3 DEF RequestOf
    <2>2. PICK l : l = HeadLen(x)
      OBVIOUS
    <2>3. (l = 3 /\ x > 0) \/ (l = 2 /\ x = 0)
      BY <2>2 DEF HeadLen
    <2>4. i = 1 \/ (i = 2 /\ x > 0) \/ i = l \/ i \in l + 1 .. l + x
      BY <2>1, <2>2, <2>3
    <2>5. r[i].line = "cseq"
      BY <1>10 DEF Cseq
    <2>6. CASE i = 1
      BY <2>1, <2>6 DEF Event!Token
    <2>7. CASE i # 1
      <3>1. r[i].line \in {"length", "end", "body"}
        BY <2>1, <2>2, <2>4, <2>7 DEF Event!Token
      <3> QED
        BY <2>5, <3>1
    <2> QED
      BY <2>6, <2>7
  <1>11. Rising(B \o r, n + 1)
    <2>1. B \in Seq(EToks) /\ r \in Seq(EToks)
      BY <1>1, <1>3, <1>7
    <2> QED
      BY <1>2, <1>9, <1>10, <2>1, RisingNext
  <1>12. Len(Append(lens, x)) = n + 1
    BY <1>1
  <1>13. ASSUME whole
         PROVE  /\ Len(C) <= n + 1 /\ (\A i \in 1 .. Len(C) : C[i] = i)
                /\ A \o r = RequestsAfter(Append(lens, x), Len(C))
    <2>1. /\ Len(C) <= n /\ (\A i \in 1 .. Len(C) : C[i] = i) /\ A = RequestsAfter(lens, Len(C))
          /\ Len(C) \in Nat
      BY <1>1, <1>13 DEF InHand
    <2>2. PICK h : h = Len(C)
      OBVIOUS
    <2>3. h \in 0 .. Len(lens)
      BY <1>1, <1>2, <2>1, <2>2
    <2>4. RequestsAfter(Append(lens, x), h) = RequestsAfter(lens, h) \o Event!RequestTokens(Len(lens) + 1, x)
      BY <2>3, RequestsNext
    <2> QED
      BY <1>2, <2>1, <2>2, <2>4
  <1> QED
    BY <1>1, <1>8, <1>11, <1>12, <1>13 DEF InHand

\* The halves of the event channel's frames.
EItems == ItemSet(EToks)

\* I: the halves in the buffer and on their way; P: the plaintext in the buffer;
\* U: the tokens not sent; C: the CSeqs answered; recv: the receive counter.
FlowTyped(I, P, U, lens, frames, C, recv, key) ==
    /\ I \in Seq(EItems) /\ P \in Seq(EToks) /\ U \in Seq(EToks) /\ lens \in Seq(Nat)
    /\ frames \in Nat /\ C \in Seq(Nat) /\ recv \in Nat /\ key \in Nat

\* What holds of the stream: halves in turn, rising CSeqs and, as long as nothing is
\* damaged (whole), intact frames under the receive counter and no request left waiting.
Flow(I, P, U, lens, frames, C, recv, key, whole) ==
    /\ Alternating(I)
    /\ InHand(C, P, Carried(I) \o U, lens, whole)
    /\ whole => /\ Framed(I, key, recv) /\ Intact(I) /\ frames = recv + Complete(I)
                /\ ~Event!HasRequest(P)

\* The receiver composes a request: what it has not sent grows.
LEMMA FlowAsk ==
    ASSUME NEW I, NEW P, NEW U, NEW lens, NEW frames, NEW C, NEW recv, NEW key, NEW whole,
           FlowTyped(I, P, U, lens, frames, C, recv, key),
           Flow(I, P, U, lens, frames, C, recv, key, whole), NEW x \in Nat,
           NEW r, r = Event!RequestTokens(Len(lens) + 1, x)
    PROVE  /\ Flow(I, P, U \o r, Append(lens, x), frames, C, recv, key, whole)
           /\ FlowTyped(I, P, U \o r, Append(lens, x), frames, C, recv, key)
  <1>1. /\ I \in Seq(EItems) /\ P \in Seq(EToks) /\ U \in Seq(EToks) /\ lens \in Seq(Nat)
        /\ frames \in Nat /\ C \in Seq(Nat) /\ recv \in Nat /\ key \in Nat
    BY DEF FlowTyped
  <1>2. PICK V, K : V = EToks /\ K = Carried(I)
    OBVIOUS
  <1>3. K \in Seq(V) /\ U \in Seq(V) /\ r \in Seq(V)
    <2>1. Len(lens) + 1 \in Nat
      BY <1>1
    <2> QED
      BY <1>1, <1>2, <2>1, PiecesType, RequestType DEF EItems
  <1>4. PICK Y : Y = K \o U
    OBVIOUS
  <1>5. Y \in Seq(V) /\ U \o r \in Seq(V)
    BY ONLY <1>3, <1>4, Concatenation
  <1>6. K \o (U \o r) = Y \o r
    <2>1. Associates(K, U, r)
      BY <1>3, Associate
    <2> QED
      BY <1>4, <2>1 DEF Associates
  <1>7. InHand(C, P, Y, lens, whole)
    BY <1>2, <1>4 DEF Flow
  <1>8. InHand(C, P, Y \o r, Append(lens, x), whole)
    <2>1. Y \in Seq(EToks)
      BY <1>2, <1>5
    <2> QED
      BY <1>1, <1>7, <2>1, InHandNext
  <1>9. Flow(I, P, U \o r, Append(lens, x), frames, C, recv, key, whole)
    BY <1>2, <1>6, <1>8 DEF Flow
  <1>10. Append(lens, x) \in Seq(Nat)
    BY <1>1
  <1> QED
    BY <1>1, <1>2, <1>5, <1>9, <1>10 DEF FlowTyped

\* The receiver sends a frame, damaged or not.
LEMMA FlowFrame ==
    ASSUME NEW I, NEW P, NEW U, NEW lens, NEW frames, NEW C, NEW recv, NEW key, NEW whole,
           FlowTyped(I, P, U, lens, frames, C, recv, key),
           Flow(I, P, U, lens, frames, C, recv, key, whole), NEW k \in 1 .. Len(U),
           NEW ok \in BOOLEAN,
           NEW f, f = [Frame(key, frames, SubSeq(U, 1, k)) EXCEPT !.intact = ok],
           NEW whole2, whole2 => whole /\ ok
    PROVE  /\ Flow(I \o Halves(f), P, SubSeq(U, k + 1, Len(U)), lens, frames + 1, C, recv, key, whole2)
           /\ FlowTyped(I \o Halves(f), P, SubSeq(U, k + 1, Len(U)), lens, frames + 1, C, recv, key)
           /\ Halves(f) \in Seq(EItems)
  <1>1. /\ I \in Seq(EItems) /\ P \in Seq(EToks) /\ U \in Seq(EToks) /\ lens \in Seq(Nat)
        /\ frames \in Nat /\ C \in Seq(Nat) /\ recv \in Nat /\ key \in Nat
    BY DEF FlowTyped
  <1>2. PICK V, K, A, B : /\ V = EToks /\ K = Carried(I) /\ A = SubSeq(U, 1, k)
                          /\ B = SubSeq(U, k + 1, Len(U))
    OBVIOUS
  <1>3. A \in Seq(V) /\ B \in Seq(V) /\ A \o B = U
    <2>1. U \in Seq(V) /\ k \in 0 .. Len(U)
      BY <1>1, <1>2
    <2> QED
      BY ONLY <1>2, <2>1, UpTo, From
  <1>4. K \in Seq(V)
    BY <1>1, <1>2, PiecesType DEF EItems
  <1>5. f = [key |-> key, ctr |-> frames, plain |-> A, intact |-> ok]
    BY <1>2 DEF Frame
  <1>6. f \in FrameSet(EToks) /\ f.plain = A /\ f.key = key /\ f.ctr = frames /\ f.intact = ok
    <2>1. A \in Seq(EToks)
      BY <1>2, <1>3
    <2>2. /\ f.plain = A /\ f.key = key /\ f.ctr = frames /\ f.intact = ok
      BY <1>5
    <2>3. f \in FrameSet(EToks)
      <3>1. PICK W : W = Seq(EToks)
        OBVIOUS
      <3>2. A \in W /\ key \in Nat /\ frames \in Nat /\ ok \in BOOLEAN
        BY <1>1, <2>1, <3>1
      <3>3. f \in [key : Nat, ctr : Nat, plain : W, intact : BOOLEAN]
        BY ONLY <1>5, <3>2
      <3> QED
        BY <3>1, <3>3 DEF FrameSet
    <2> QED
      BY <2>2, <2>3
  <1>7. Alternating(I)
    BY DEF Flow
  <1>8. /\ Alternating(I \o Halves(f)) /\ I \o Halves(f) \in Seq(ItemSet(EToks))
        /\ Carried(I \o Halves(f)) = Carried(I) \o f.plain
    BY <1>1, <1>6, <1>7, AlternatingNext DEF EItems
  <1>9. Halves(f) \in Seq(EItems)
    BY <1>6, HalvesType DEF EItems
  <1>10. Carried(I \o Halves(f)) \o B = K \o U
    <2>1. Associates(K, A, B)
      BY <1>3, <1>4, Associate
    <2> QED
      BY <1>2, <1>3, <1>6, <1>8, <2>1 DEF Associates
  <1>11. InHand(C, P, K \o U, lens, whole2)
    BY <1>2 DEF Flow, InHand
  <1>12. ASSUME whole2
         PROVE  /\ Framed(I \o Halves(f), key, recv) /\ Intact(I \o Halves(f))
                /\ frames + 1 = recv + Complete(I \o Halves(f)) /\ ~Event!HasRequest(P)
    <2>1. /\ whole /\ ok /\ Framed(I, key, recv) /\ Intact(I) /\ frames = recv + Complete(I)
          /\ ~Event!HasRequest(P)
      BY <1>12 DEF Flow
    <2>2. /\ Framed(I \o Halves(f), key, recv) /\ Intact(I \o Halves(f))
          /\ Complete(I \o Halves(f)) = Complete(I) + 1
      <3>1. /\ I \in Seq(ItemSet(EToks)) /\ recv \in Nat /\ f \in FrameSet(EToks) /\ f.key = key
            /\ f.ctr = recv + Complete(I) /\ f.intact
        BY <1>1, <1>6, <2>1 DEF EItems
      <3> QED
        BY ONLY <2>1, <3>1, FramedNext, SMTT(60)
    <2>3. Complete(I) \in Nat
      BY <1>1, CompleteHalf DEF EItems
    <2> QED
      BY <1>1, <2>1, <2>2, <2>3
  <1>13. Flow(I \o Halves(f), P, B, lens, frames + 1, C, recv, key, whole2)
    BY <1>8, <1>10, <1>11, <1>12 DEF Flow
  <1>14. frames + 1 \in Nat
    BY <1>1
  <1> QED
    BY <1>1, <1>2, <1>3, <1>8, <1>9, <1>13, <1>14 DEF FlowTyped, EItems

\* Where every frame opens under its counter, all of them are opened.
LEMMA OpenedWhole ==
    ASSUME NEW T, NEW I \in Seq(ItemSet(T)), NEW key, NEW c \in Nat,
           \A j \in 1 .. Complete(I) : Opens(FrameAt(I, j), key, c + j - 1)
    PROVE  Opened(I, key, c) = Complete(I)
  <1>1. PICK m : m = Complete(I)
    OBVIOUS
  <1>2. m \in Nat
    BY <1>1, CompleteHalf
  <1> DEFINE S == {n \in 0 .. Complete(I) : \A j \in 1 .. n : Opens(FrameAt(I, j), key, c + j - 1)}
  <1>3. m \in S /\ S \subseteq 0 .. m
    BY <1>1, <1>2
  <1>4. Opened(I, key, c) = Max(S)
    BY DEF Opened
  <1> HIDE DEF S
  <1>5. PICK x : x = Max(S)
    OBVIOUS
  <1>6. x \in S /\ \A y \in S : y <= x
    BY <1>2, <1>3, <1>5, MaxIn
  <1>7. x \in 0 .. m /\ m <= x
    BY <1>3, <1>6
  <1>8. x = m
    BY <1>2, <1>7
  <1> QED
    BY <1>1, <1>4, <1>5, <1>8

\* A buffer B and what is to come.
LEMMA Segments ==
    ASSUME NEW T, NEW B \in Seq(ItemSet(T)), NEW R \in Seq(ItemSet(T)), B # <<>>, Alternating(B \o R)
    PROVE  /\ Carried(B \o R) = Carried(B) \o Carried(R) /\ Alternating(R)
           /\ B \o R \in Seq(ItemSet(T)) /\ (B \o R)[1] = B[1] /\ Len(B \o R) > 0
           /\ Carried(B) \in Seq(T) /\ Carried(R) \in Seq(T)
           /\ Aligned(B) <=> B[1].half = 1
           /\ Aligned(B) => Parity(B \o R) /\ Parity(B)
  <1>1. PICK I, b, r : I = B \o R /\ b = Len(B) /\ r = Len(R)
    OBVIOUS
  <1>2. /\ I \in Seq(ItemSet(T)) /\ Len(I) = b + r /\ b \in Nat /\ r \in Nat
        /\ \A i \in 1 .. b : I[i] = B[i]
    <2>1. PICK V : V = ItemSet(T)
      OBVIOUS
    <2>2. B \in Seq(V) /\ R \in Seq(V)
      BY <2>1
    <2>3. /\ I \in Seq(V) /\ Len(I) = b + r /\ b \in Nat /\ r \in Nat
          /\ \A i \in 1 .. b : I[i] = B[i]
      BY ONLY <1>1, <2>2, Concatenation
    <2> QED
      BY <2>1, <2>3
  <1>3. b > 0
    BY <1>1, EmptySeq
  <1>4. I[1] = B[1] /\ Len(I) > 0
    BY <1>2, <1>3
  <1>5. Alternating(R)
    <2>1. PICK V : V = ItemSet(T)
      OBVIOUS
    <2>2. B \in Seq(V) /\ R \in Seq(V)
      BY <2>1
    <2>3. SubSeq(B \o R, Len(B) + 1, Len(B \o R)) = R
      BY ONLY <2>2, SecondPart
    <2>4. b \in 0 .. Len(I)
      BY <1>2
    <2>5. Alternating(SubSeq(I, b + 1, Len(I)))
      BY <1>1, <1>2, <2>4, AlternatingFrom
    <2> QED
      BY <1>1, <2>3, <2>5
  <1>6. Head(B) = B[1]
    OBVIOUS
  <1>7. Aligned(B) <=> B[1].half = 1
    BY <1>6 DEF Aligned
  <1>8. ASSUME Aligned(B) PROVE Parity(I) /\ Parity(B)
    <2>1. I[1].half = 1
      BY <1>4, <1>7, <1>8
    <2>2. Parity(I)
      BY <1>1, <1>2, <2>1, AlternatingParity DEF Parity
    <2>3. ASSUME NEW i \in 1 .. Len(B) PROVE B[i].half = IF i % 2 = 1 THEN 1 ELSE 2
      <3>1. i \in 1 .. Len(I) /\ i \in 1 .. b
        BY <1>1, <1>2
      <3>2. I[i].half = IF i % 2 = 1 THEN 1 ELSE 2
        BY <2>2, <3>1 DEF Parity
      <3> QED
        BY <1>2, <3>1, <3>2
    <2> QED
      BY <2>2, <2>3 DEF Parity
  <1> QED
    BY <1>1, <1>2, <1>4, <1>5, <1>7, <1>8, CarriedConcat, PiecesType

\* Where nothing is damaged every frame of the buffer opens.
LEMMA WholeOpens ==
    ASSUME NEW T, NEW B \in Seq(ItemSet(T)), NEW R \in Seq(ItemSet(T)), B # <<>>, Alternating(B \o R),
           NEW key, NEW c \in Nat, Framed(B \o R, key, c), Intact(B \o R)
    PROVE  Aligned(B) /\ Opened(B, key, c) = Complete(B)
  <1>1. PICK I, m : I = B \o R /\ m = Complete(B)
    OBVIOUS
  <1>2. (B \o R)[1] = B[1] /\ Len(B \o R) > 0 /\ (Aligned(B) <=> B[1].half = 1)
    BY Segments
  <1>3. Aligned(B)
    <2>1. Len(I) \in Nat /\ 1 \in 1 .. Len(I)
      BY <1>1, <1>2, Segments
    <2>2. I[1].half = IF 1 % 2 = 1 THEN 1 ELSE 2
      BY <1>1, <2>1 DEF Framed
    <2> QED
      BY <1>1, <1>2, <2>2
  <1>4. m \in Nat /\ m \in 0 .. Complete(B)
    BY <1>1, CompleteHalf
  <1>5. (\A j \in 1 .. m : FrameAt(I, j) = FrameAt(B, j)) /\ m <= Complete(I)
    BY <1>1, <1>4, PlainPrefix
  <1>6. Complete(I) \in Nat
    BY <1>1, Segments, CompleteHalf
  <1>7. ASSUME NEW j \in 1 .. Complete(B) PROVE Opens(FrameAt(B, j), key, c + j - 1)
    <2>1. j \in 1 .. Complete(I) /\ FrameAt(B, j) = FrameAt(I, j)
      BY <1>1, <1>4, <1>5, <1>6
    <2> QED
      BY <1>1, <2>1 DEF Framed, Intact, Opens
  <1> QED
    BY <1>3, <1>7, OpenedWhole

\* All the frames of the buffer are opened; the buffer is dropped behind n of them.
Opening(B, n, P, Q) == n = Complete(B) /\ Q = P \o Plain(B, n)
Dropping(B, n, key, recv) ==
    \/ Aligned(B) /\ n = Opened(B, key, recv) /\ n < Complete(B)
    \/ ~Aligned(B) /\ n = 0

\* The whole buffer opens.
LEMMA FlowOpens ==
    ASSUME NEW B, NEW R, NEW P, NEW U, NEW lens, NEW frames, NEW C, NEW recv, NEW key,
           NEW whole \in BOOLEAN, B \in Seq(EItems), R \in Seq(EItems), B # <<>>,
           FlowTyped(B \o R, P, U, lens, frames, C, recv, key),
           Flow(B \o R, P, U, lens, frames, C, recv, key, whole), Aligned(B),
           NEW n, NEW Q, Opening(B, n, P, Q)
    PROVE  /\ Rest(B, n) \in Seq(EItems)
           /\ \A s \in Event!Served(Q) :
                 /\ Flow(Rest(B, n) \o R, s.rest, U, lens, frames, C \o s.cseqs, recv + n, key, whole)
                 /\ FlowTyped(Rest(B, n) \o R, s.rest, U, lens, frames, C \o s.cseqs, recv + n, key)
                 /\ s.cseqs \in Seq(Nat)
  <1>0. n = Complete(B) /\ Q = P \o Plain(B, n)
    BY DEF Opening
  <1>1. /\ B \o R \in Seq(EItems) /\ P \in Seq(EToks) /\ U \in Seq(EToks) /\ lens \in Seq(Nat)
        /\ frames \in Nat /\ C \in Seq(Nat) /\ recv \in Nat /\ key \in Nat
    BY DEF FlowTyped
  <1>2. PICK I, V, A, J : I = B \o R /\ V = EToks /\ A = Plain(B, n) /\ J = Rest(B, n) \o R
    OBVIOUS
  <1>3. B \in Seq(ItemSet(EToks)) /\ R \in Seq(ItemSet(EToks)) /\ I \in Seq(ItemSet(EToks))
    BY <1>1, <1>2 DEF EItems
  <1>4. /\ Alternating(I) /\ InHand(C, P, Carried(I) \o U, lens, whole)
        /\ (whole => /\ Framed(I, key, recv) /\ Intact(I) /\ frames = recv + Complete(I))
    BY <1>2 DEF Flow
  <1>5. Parity(I)
    BY <1>2, <1>3, <1>4, Segments
  <1>6. n \in Nat /\ n \in 0 .. Complete(B) /\ 2 * n \in Nat
    BY <1>0, <1>3, CompleteHalf
  <1>7. Plain(I, n) = A /\ Rest(I, n) = J /\ n <= Complete(I)
    BY <1>2, <1>3, <1>6, PlainPrefix
  <1>8. Complete(I) \in Nat /\ n \in 0 .. Complete(I) /\ 2 * n \in 0 .. Len(I)
    <2>1. Complete(I) \in Nat /\ 2 * Complete(I) <= Len(I)
      BY <1>3, CompleteHalf
    <2> QED
      BY <1>6, <1>7, <2>1, <1>3
  <1>9. /\ Carried(I) = A \o Carried(J) /\ A \in Seq(EToks) /\ J \in Seq(ItemSet(EToks))
    BY <1>3, <1>5, <1>7, <1>8, CarriedOpened
  <1>10. Carried(J) \in Seq(EToks)
    BY <1>9, PiecesType
  <1>11. Alternating(J)
    <2>1. J = SubSeq(I, 2 * n + 1, Len(I))
      BY <1>7 DEF Rest
    <2> QED
      BY <1>3, <1>4, <1>8, <2>1, AlternatingFrom
  <1>12. PICK K, Y : K = Carried(J) /\ Y = K \o U
    OBVIOUS
  <1>13. K \in Seq(V) /\ P \in Seq(V) /\ A \in Seq(V) /\ U \in Seq(V)
    BY <1>1, <1>2, <1>9, <1>10, <1>12
  <1>14. Y \in Seq(V) /\ Q \in Seq(V)
    BY ONLY <1>0, <1>2, <1>12, <1>13, Concatenation
  <1>15. InHand(C, Q, Y, lens, whole)
    <2>1. Regrouped(P, A, K, U)
      BY <1>13, Regroup
    <2>2. Q \o Y = P \o (Carried(I) \o U)
      BY <1>0, <1>2, <1>9, <1>12, <2>1 DEF Regrouped
    <2> QED
      BY <1>4, <2>2, InHandMoved
  <1>16. \A s \in Event!Served(Q) :
              /\ s.rest \in Seq(EToks) /\ s.cseqs \in Seq(Nat)
              /\ InHand(C \o s.cseqs, s.rest, Y, lens, whole)
              /\ ~Event!HasRequest(s.rest)
    <2>1. /\ Q \in Seq(EToks) /\ Y \in Seq(EToks) /\ C \in Seq(Nat) /\ lens \in Seq(Nat)
          /\ whole \in BOOLEAN
      BY <1>1, <1>2, <1>14
    <2> QED
      BY ONLY <1>15, <2>1, AnswersLeave
  <1>17. whole => /\ Framed(J, key, recv + n) /\ Intact(J) /\ frames = (recv + n) + Complete(J)
    <2> SUFFICES ASSUME whole
                 PROVE  Framed(J, key, recv + n) /\ Intact(J) /\ frames = (recv + n) + Complete(J)
      OBVIOUS
    <2>1. /\ Framed(Rest(I, n), key, recv + n) /\ Complete(Rest(I, n)) = Complete(I) - n
          /\ Intact(Rest(I, n))
      BY <1>1, <1>3, <1>4, <1>8, FramedRest
    <2>2. Framed(J, key, recv + n) /\ Intact(J) /\ Complete(J) = Complete(I) - n
      BY <1>7, <2>1
    <2>3. PICK x, y : x = Complete(I) /\ y = Complete(J)
      OBVIOUS
    <2>4. x \in Nat /\ y = x - n /\ frames = recv + x /\ n \in Nat /\ recv \in Nat
      BY <1>1, <1>4, <1>6, <1>8, <2>2, <2>3
    <2>5. frames = (recv + n) + y
      BY ONLY <2>4
    <2> QED
      BY <2>2, <2>3, <2>5
  <1>18. Rest(B, n) \in Seq(EItems)
    BY <1>3, <1>6, RestShape DEF EItems
  <1>19. ASSUME NEW s \in Event!Served(Q)
         PROVE  /\ Flow(J, s.rest, U, lens, frames, C \o s.cseqs, recv + n, key, whole)
                /\ FlowTyped(J, s.rest, U, lens, frames, C \o s.cseqs, recv + n, key)
                /\ s.cseqs \in Seq(Nat)
    <2>1. /\ s.rest \in Seq(EToks) /\ s.cseqs \in Seq(Nat)
          /\ InHand(C \o s.cseqs, s.rest, Y, lens, whole) /\ ~Event!HasRequest(s.rest)
      BY <1>16
    <2>2. Flow(J, s.rest, U, lens, frames, C \o s.cseqs, recv + n, key, whole)
      BY <1>11, <1>12, <1>17, <2>1 DEF Flow
    <2>3. C \o s.cseqs \in Seq(Nat)
      <3>1. PICK D : D = s.cseqs
        OBVIOUS
      <3>2. C \in Seq(Nat) /\ D \in Seq(Nat)
        BY <1>1, <2>1, <3>1
      <3>3. C \o D \in Seq(Nat)
        BY ONLY <3>2, Concatenation
      <3> QED
        BY <3>1, <3>3
    <2>4. recv + n \in Nat
      BY <1>1, <1>6
    <2> QED
      BY <1>1, <1>9, <2>1, <2>2, <2>3, <2>4 DEF FlowTyped, EItems
  <1> QED
    BY <1>2, <1>18, <1>19

\* The buffer is dropped behind the frames that open.
LEMMA FlowDrops ==
    ASSUME NEW B, NEW R, NEW P, NEW U, NEW lens, NEW frames, NEW C, NEW recv, NEW key,
           NEW whole \in BOOLEAN, B \in Seq(EItems), R \in Seq(EItems), B # <<>>,
           FlowTyped(B \o R, P, U, lens, frames, C, recv, key),
           Flow(B \o R, P, U, lens, frames, C, recv, key, whole),
           NEW n, Dropping(B, n, key, recv)
    PROVE  /\ ~whole
           /\ Flow(R, P \o Plain(B, n), U, lens, frames, C, recv + n + 1, key, FALSE)
           /\ FlowTyped(R, P \o Plain(B, n), U, lens, frames, C, recv + n + 1, key)
  <1>0. \/ Aligned(B) /\ n = Opened(B, key, recv) /\ n < Complete(B)
        \/ ~Aligned(B) /\ n = 0
    BY DEF Dropping
  <1>1. /\ B \o R \in Seq(EItems) /\ P \in Seq(EToks) /\ U \in Seq(EToks) /\ lens \in Seq(Nat)
        /\ frames \in Nat /\ C \in Seq(Nat) /\ recv \in Nat /\ key \in Nat
    BY DEF FlowTyped
  <1>2. PICK I, V, A : I = B \o R /\ V = EToks /\ A = Plain(B, n)
    OBVIOUS
  <1>3. B \in Seq(ItemSet(EToks)) /\ R \in Seq(ItemSet(EToks)) /\ I \in Seq(ItemSet(EToks))
    BY <1>1, <1>2 DEF EItems
  <1>4. /\ Alternating(I) /\ InHand(C, P, Carried(I) \o U, lens, whole)
        /\ (whole => Framed(I, key, recv) /\ Intact(I))
    BY <1>2 DEF Flow
  <1>5. ~whole
    <2> SUFFICES ASSUME whole PROVE FALSE
      OBVIOUS
    <2>1. Aligned(B) /\ Opened(B, key, recv) = Complete(B)
      BY <1>1, <1>2, <1>3, <1>4, WholeOpens
    <2>2. Complete(B) \in Nat
      BY <1>3, CompleteHalf
    <2> QED
      BY <1>0, <2>1, <2>2
  <1>6. /\ Carried(I) = Carried(B) \o Carried(R) /\ Alternating(R)
        /\ Carried(B) \in Seq(EToks) /\ Carried(R) \in Seq(EToks) /\ (Aligned(B) => Parity(B))
    BY <1>2, <1>3, <1>4, Segments
  <1>7. n \in Nat /\ A \in Seq(EToks) /\ \E D \in Seq(EToks) : Carried(B) = A \o D
    <2>1. CASE Aligned(B)
      <3>1. n \in 0 .. Complete(B)
        BY <1>0, <1>3, <2>1, OpenedRange
      <3>2. /\ Carried(B) = Plain(B, n) \o Carried(Rest(B, n))
            /\ Plain(B, n) \in Seq(EToks) /\ Rest(B, n) \in Seq(ItemSet(EToks))
        BY <1>3, <1>6, <2>1, <3>1, CarriedOpened
      <3>3. Carried(Rest(B, n)) \in Seq(EToks)
        BY <3>2, PiecesType
      <3>4. PICK D : D = Carried(Rest(B, n))
        OBVIOUS
      <3>5. D \in Seq(EToks) /\ Carried(B) = A \o D /\ A \in Seq(EToks)
        BY <1>2, <3>2, <3>3, <3>4
      <3>6. \E E \in Seq(EToks) : Carried(B) = A \o E
        BY <3>5, Zenon
      <3>7. Complete(B) \in Nat
        BY <1>3, CompleteHalf
      <3>8. n \in Nat
        BY <3>1, <3>7
      <3> QED
        BY <3>5, <3>6, <3>8
    <2>2. CASE ~Aligned(B)
      <3>1. n = 0 /\ Plain(B, 0) = FlattenSeq(Payload(B, 0)) /\ Payload(B, 0) = <<>>
        BY <1>0, <2>2 DEF Plain, Payload
      <3>2. A = <<>>
        BY <1>2, <3>1, FlattenEmpty
      <3>3. PICK D : D = Carried(B)
        OBVIOUS
      <3>4. D \in Seq(EToks) /\ A \o D = D /\ A \in Seq(EToks)
        BY <1>6, <3>2, <3>3, ConcatEmptySeq
      <3>5. Carried(B) = A \o D
        BY <3>3, <3>4
      <3>6. \E E \in Seq(EToks) : Carried(B) = A \o E
        BY <3>4, <3>5, Zenon
      <3>7. n \in Nat
        BY <3>1
      <3> QED
        BY <3>4, <3>6, <3>7
    <2> QED
      BY <2>1, <2>2
  <1>8. PICK D \in Seq(EToks) : Carried(B) = A \o D
    BY <1>7
  <1>9. PICK K, L, Q, Y, W : /\ K = Carried(R) /\ L = D \o K /\ Q = P \o A /\ Y = K \o U
                             /\ W = L \o U
    OBVIOUS
  <1>10. K \in Seq(V) /\ D \in Seq(V) /\ A \in Seq(V) /\ P \in Seq(V) /\ U \in Seq(V)
    BY <1>1, <1>2, <1>6, <1>7, <1>8, <1>9
  <1>11. L \in Seq(V) /\ Q \in Seq(V) /\ Y \in Seq(V)
    BY ONLY <1>9, <1>10, Concatenation
  <1>12. Carried(I) = A \o L
    <2>1. Associates(A, D, K)
      BY <1>10, Associate
    <2> QED
      BY <1>6, <1>8, <1>9, <2>1 DEF Associates
  <1>13. InHand(C, Q, W, lens, whole)
    <2>1. Regrouped(P, A, L, U)
      BY <1>10, <1>11, Regroup
    <2>2. Q \o W = P \o (Carried(I) \o U)
      BY <1>9, <1>12, <2>1 DEF Regrouped
    <2> QED
      BY <1>4, <2>2, InHandMoved
  <1>14. InHand(C, Q, Y, lens, FALSE)
    <2>1. W = D \o Y
      <3>1. Associates(D, K, U)
        BY <1>10, Associate
      <3> QED
        BY <1>9, <3>1 DEF Associates
    <2>2. Q \in Seq(EToks) /\ Y \in Seq(EToks) /\ C \in Seq(Nat) /\ D \in Seq(EToks)
      BY <1>1, <1>2, <1>11, <1>8
    <2> QED
      BY ONLY <1>13, <2>1, <2>2, InHandDropped
  <1>15. Flow(R, Q, U, lens, frames, C, recv + n + 1, key, FALSE)
    BY <1>6, <1>9, <1>14 DEF Flow
  <1>16. recv + n + 1 \in Nat
    BY <1>1, <1>7
  <1> QED
    BY <1>1, <1>2, <1>3, <1>5, <1>9, <1>11, <1>15, <1>16 DEF FlowTyped, EItems

\* The buffer does not start with a frame, and more is waited for.
LEMMA FlowWaits ==
    ASSUME NEW B, NEW R, NEW P, NEW U, NEW lens, NEW frames, NEW C, NEW recv, NEW key,
           NEW whole \in BOOLEAN, B \in Seq(EItems), R \in Seq(EItems), B # <<>>,
           FlowTyped(B \o R, P, U, lens, frames, C, recv, key),
           Flow(B \o R, P, U, lens, frames, C, recv, key, whole), ~Aligned(B)
    PROVE  /\ ~whole
           /\ \A s \in Event!Served(P) :
                 /\ Flow(B \o R, s.rest, U, lens, frames, C \o s.cseqs, recv, key, whole)
                 /\ FlowTyped(B \o R, s.rest, U, lens, frames, C \o s.cseqs, recv, key)
                 /\ s.cseqs \in Seq(Nat)
  <1>1. /\ B \o R \in Seq(EItems) /\ P \in Seq(EToks) /\ U \in Seq(EToks) /\ lens \in Seq(Nat)
        /\ frames \in Nat /\ C \in Seq(Nat) /\ recv \in Nat /\ key \in Nat
    BY DEF FlowTyped
  <1>2. PICK I, V, K, Y : I = B \o R /\ V = EToks /\ K = Carried(I) /\ Y = K \o U
    OBVIOUS
  <1>3. B \in Seq(ItemSet(EToks)) /\ R \in Seq(ItemSet(EToks)) /\ I \in Seq(ItemSet(EToks))
    BY <1>1, <1>2 DEF EItems
  <1>4. /\ Alternating(I) /\ InHand(C, P, Y, lens, whole)
        /\ (whole => Framed(I, key, recv) /\ Intact(I))
    BY <1>2 DEF Flow
  <1>5. ~whole
    BY <1>1, <1>2, <1>3, <1>4, WholeOpens
  <1>6. K \in Seq(V) /\ U \in Seq(V)
    BY <1>1, <1>2, <1>3, PiecesType
  <1>7. Y \in Seq(V)
    BY ONLY <1>2, <1>6, Concatenation
  <1>8. \A s \in Event!Served(P) :
              /\ s.rest \in Seq(EToks) /\ s.cseqs \in Seq(Nat)
              /\ InHand(C \o s.cseqs, s.rest, Y, lens, whole)
    <2>1. Y \in Seq(EToks)
      BY <1>2, <1>7
    <2> QED
      BY <1>1, <1>4, <2>1, AnswersLeave
  <1>9. ASSUME NEW s \in Event!Served(P)
        PROVE  /\ Flow(I, s.rest, U, lens, frames, C \o s.cseqs, recv, key, whole)
               /\ FlowTyped(I, s.rest, U, lens, frames, C \o s.cseqs, recv, key)
               /\ s.cseqs \in Seq(Nat)
    <2>1. /\ s.rest \in Seq(EToks) /\ s.cseqs \in Seq(Nat)
          /\ InHand(C \o s.cseqs, s.rest, Y, lens, whole)
      BY <1>8
    <2>2. Flow(I, s.rest, U, lens, frames, C \o s.cseqs, recv, key, whole)
      BY <1>2, <1>4, <1>5, <2>1 DEF Flow
    <2>3. C \o s.cseqs \in Seq(Nat)
      <3>1. PICK D : D = s.cseqs
        OBVIOUS
      <3>2. C \in Seq(Nat) /\ D \in Seq(Nat)
        BY <1>1, <2>1, <3>1
      <3>3. C \o D \in Seq(Nat)
        BY ONLY <3>2, Concatenation
      <3> QED
        BY <3>1, <3>3
    <2> QED
      BY <1>1, <1>2, <2>1, <2>2, <2>3 DEF FlowTyped
  <1> QED
    BY <1>2, <1>5, <1>9

\* The answers that have been sent, and their CSeqs.
AnswerSet == [key : Nat, ctr : Nat, cseq : Nat]
CSeqs(A) == [i \in 1 .. Len(A) |-> A[i].cseq]

\* The CSeqs of the answers.
LEMMA CSeqsType ==
    ASSUME NEW A \in Seq(AnswerSet)
    PROVE  /\ CSeqs(A) \in Seq(Nat) /\ Len(CSeqs(A)) = Len(A)
           /\ \A i \in 1 .. Len(A) : CSeqs(A)[i] = A[i].cseq
  <1>1. PICK m : m = Len(A)
    OBVIOUS
  <1>2. m \in Nat /\ CSeqs(A) = [i \in 1 .. m |-> A[i].cseq]
    BY <1>1 DEF CSeqs
  <1>3. \A i \in 1 .. m : A[i].cseq \in Nat
    <2> SUFFICES ASSUME NEW i \in 1 .. Len(A) PROVE A[i].cseq \in Nat
      BY <1>1
    <2>1. A[i] \in AnswerSet
      BY ElementOfSeq
    <2> QED
      BY <2>1 DEF AnswerSet
  <1>4. CSeqs(A) \in Seq(Nat) /\ Len(CSeqs(A)) = m /\ \A i \in 1 .. m : CSeqs(A)[i] = A[i].cseq
    BY ONLY <1>2, <1>3
  <1> QED
    BY <1>1, <1>4

\* The answers to cs, sealed with the counters from c on.
Answering(key, c, cs) ==
    [i \in DOMAIN cs |-> [key |-> key, ctr |-> c + i - 1, cseq |-> cs[i]]]
\* Answers under their counters, with the session's key.
InTurn(A, key) == \A i \in 1 .. Len(A) : A[i].key = key /\ A[i].ctr = i - 1

\* Answers follow under the next counters, sealed with the session's key.
LEMMA AnswersNext ==
    ASSUME NEW A \in Seq(AnswerSet), NEW key \in Nat, InTurn(A, key), NEW cs \in Seq(Nat),
           NEW E, E = A \o Answering(key, Len(A), cs)
    PROVE  /\ E \in Seq(AnswerSet) /\ Len(E) = Len(A) + Len(cs) /\ InTurn(E, key)
           /\ CSeqs(E) = CSeqs(A) \o cs
  <1>1. PICK a, m, B, V : /\ a = Len(A) /\ m = Len(cs) /\ B = Answering(key, a, cs) /\ V = AnswerSet
    OBVIOUS
  <1>2. a \in Nat /\ m \in Nat
    BY <1>1
  <1>3. B = [i \in 1 .. m |-> [key |-> key, ctr |-> a + i - 1, cseq |-> cs[i]]]
    <2>1. DOMAIN cs = 1 .. m
      BY <1>1
    <2> QED
      BY <1>1, <2>1 DEF Answering
  <1>4. ASSUME NEW i \in 1 .. m
        PROVE  [key |-> key, ctr |-> a + i - 1, cseq |-> cs[i]] \in V
    <2>1. cs[i] \in Nat
      BY <1>1, ElementOfSeq
    <2>2. a + i - 1 \in Nat
      BY <1>2
    <2> QED
      BY <1>1, <2>1, <2>2 DEF AnswerSet
  <1>5. /\ B \in Seq(V) /\ Len(B) = m
        /\ \A i \in 1 .. m : B[i] = [key |-> key, ctr |-> a + i - 1, cseq |-> cs[i]]
    BY ONLY <1>2, <1>3, <1>4
  <1>6. /\ E \in Seq(V) /\ Len(E) = a + m
        /\ \A i \in 1 .. a : E[i] = A[i]
        /\ \A i \in a + 1 .. a + m : E[i] = B[i - a]
    <2>1. A \in Seq(V) /\ B \in Seq(V) /\ E = A \o B
      BY <1>1, <1>5
    <2>2. /\ E \in Seq(V) /\ Len(E) = Len(A) + Len(B)
          /\ \A i \in 1 .. Len(A) : E[i] = A[i]
          /\ \A i \in Len(A) + 1 .. Len(A) + Len(B) : E[i] = B[i - Len(A)]
      BY ONLY <2>1, Concatenation
    <2> QED
      BY <1>1, <1>5, <2>2
  <1>7. ASSUME NEW i \in a + 1 .. a + m
        PROVE  /\ E[i].key = key /\ E[i].ctr = i - 1 /\ E[i].cseq = cs[i - a]
    <2>1. i - a \in 1 .. m /\ a + (i - a) - 1 = i - 1
      BY <1>2
    <2>2. E[i] = [key |-> key, ctr |-> a + (i - a) - 1, cseq |-> cs[i - a]]
      BY <1>5, <1>6, <2>1
    <2> QED
      BY <2>1, <2>2
  <1>8. InTurn(E, key)
    <2> SUFFICES ASSUME NEW i \in 1 .. Len(E) PROVE E[i].key = key /\ E[i].ctr = i - 1
      BY DEF InTurn
    <2>1. i \in 1 .. a \/ i \in a + 1 .. a + m
      BY <1>2, <1>6
    <2>2. CASE i \in 1 .. a
      BY <1>1, <1>6, <2>2 DEF InTurn
    <2> QED
      BY <1>7, <2>1, <2>2
  <1>9. CSeqs(E) = CSeqs(A) \o cs
    <2>1. PICK F, G : F = CSeqs(E) /\ G = CSeqs(A)
      OBVIOUS
    <2>2. F \in Seq(Nat) /\ Len(F) = a + m /\ \A i \in 1 .. a + m : F[i] = E[i].cseq
      BY <1>1, <1>6, <2>1, CSeqsType, ZenonT(60)
    <2>3. G \in Seq(Nat) /\ Len(G) = a /\ \A i \in 1 .. a : G[i] = A[i].cseq
      BY <1>1, <2>1, CSeqsType
    <2>4. PICK H : H = G \o cs
      OBVIOUS
    <2>5. /\ H \in Seq(Nat) /\ Len(H) = a + m
          /\ \A i \in 1 .. a : H[i] = G[i]
          /\ \A i \in a + 1 .. a + m : H[i] = cs[i - a]
      <3>1. G \in Seq(Nat) /\ cs \in Seq(Nat)
        BY <2>3
      <3>2. /\ H \in Seq(Nat) /\ Len(H) = Len(G) + Len(cs)
            /\ \A i \in 1 .. Len(G) : H[i] = G[i]
            /\ \A i \in Len(G) + 1 .. Len(G) + Len(cs) : H[i] = cs[i - Len(G)]
        BY ONLY <2>4, <3>1, Concatenation
      <3> QED
        BY <1>1, <2>3, <3>2
    <2>6. ASSUME NEW i \in 1 .. a + m PROVE F[i] = H[i]
      <3>1. i \in 1 .. a \/ i \in a + 1 .. a + m
        BY <1>2
      <3>2. CASE i \in 1 .. a
        <4>1. E[i] = A[i] /\ F[i] = E[i].cseq /\ H[i] = G[i] /\ G[i] = A[i].cseq
          BY <1>6, <2>2, <2>3, <2>5, <3>2
        <4> QED
          BY <4>1
      <3>3. CASE i \in a + 1 .. a + m
        <4>1. F[i] = E[i].cseq /\ H[i] = cs[i - a]
          BY <2>2, <2>5, <3>3
        <4>2. E[i].cseq = cs[i - a]
          BY <1>7, <3>3
        <4> QED
          BY <4>1, <4>2
      <3> QED
        BY <3>1, <3>2, <3>3
    <2>7. F = H
      BY <2>2, <2>5, <2>6, SeqEqual
    <2> QED
      BY <2>1, <2>4, <2>7
  <1> QED
    BY <1>1, <1>6, <1>8, <1>9

\* What the receiver keeps.
PeerSet == [lens : Seq(BodyLens), unsent : Seq(EToks), frames : 0 .. MaxFrames]
\* Nothing is in the clear.
HalvesOnly(B) == \A i \in 1 .. Len(B) : B[i].half \in {1, 2}

\* The bounds are numbers.
LEMMA EventNumbers ==
    /\ MaxDamage \in Nat /\ MaxFrames \in Nat /\ MaxAsked \in Nat /\ MaxSessions \in Nat
    /\ BodyLens \subseteq Nat
  BY EventBounds DEF Event!EventAssumption

\* Lengths of bodies are numbers.
LEMMA LensNatural ==
    ASSUME NEW lens \in Seq(BodyLens)
    PROVE  lens \in Seq(Nat)
  BY EventNumbers, SeqMonotonic

\* What is in the buffer is halves of frames.
LEMMA AlternatingHalves ==
    ASSUME NEW B, NEW R, B \in Seq(EItems), R \in Seq(EItems), Alternating(B \o R)
    PROVE  HalvesOnly(B)
  <1>1. PICK I, b, r : I = B \o R /\ b = Len(B) /\ r = Len(R)
    OBVIOUS
  <1>2. Len(I) = b + r /\ b \in Nat /\ r \in Nat /\ \A i \in 1 .. b : I[i] = B[i]
    BY <1>1, Concatenation
  <1>3. ASSUME NEW i \in 1 .. b PROVE B[i].half \in {1, 2}
    <2>1. i \in 1 .. Len(I)
      BY <1>2
    <2>2. I[i].half \in {1, 2}
      BY <1>1, <2>1 DEF Alternating
    <2> QED
      BY <1>2, <2>2
  <1> QED
    BY <1>1, <1>3 DEF HalvesOnly

\* The state has the types that the lemmas on the stream ask for.
LEMMA StateFlow ==
    ASSUME NEW B, NEW R, NEW P, NEW p, NEW A, NEW recv, NEW key,
           B \in Seq(EItems), R \in Seq(EItems), P \in Seq(EToks), p \in PeerSet, A \in Seq(AnswerSet),
           recv \in Nat, key \in Nat
    PROVE  FlowTyped(B \o R, P, p.unsent, p.lens, p.frames, CSeqs(A), recv, key)
  <1>1. p.lens \in Seq(BodyLens) /\ p.unsent \in Seq(EToks) /\ p.frames \in 0 .. MaxFrames
    BY DEF PeerSet
  <1>2. p.lens \in Seq(Nat) /\ p.frames \in Nat
    BY <1>1, LensNatural, EventNumbers
  <1>3. B \o R \in Seq(EItems)
    BY Concatenation
  <1>4. CSeqs(A) \in Seq(Nat)
    BY CSeqsType
  <1> QED
    BY <1>1, <1>2, <1>3, <1>4 DEF FlowTyped

\* The invariant: types;
EvTyped ==
    /\ eSession \in 0 .. MaxSessions /\ eLive \in BOOLEAN /\ eDamaged \in 0 .. MaxDamage
    /\ eventRecvCtr_ \in Nat /\ eventSendCtr_ \in Nat /\ answers \in Seq(AnswerSet)
    /\ peer \in PeerSet /\ Len(peer.lens) <= MaxAsked
    /\ eventEncBuf_ \in Seq(EItems) /\ HalvesOnly(eventEncBuf_) /\ net \in Seq(EItems)
    /\ eventPlainBuf_ \in Seq(EToks)
\* answers belong to the session, and their frames are numbered as sent;
EvSent == (~eLive => answers = <<>>) /\ InTurn(answers, eSession)
\* and on a living session the stream holds what is not answered yet.
EvFlow == eLive =>
    /\ eventSendCtr_ = Len(answers)
    /\ Flow(eventEncBuf_ \o net, eventPlainBuf_, peer.unsent, peer.lens, peer.frames,
            CSeqs(answers), eventRecvCtr_, eSession, eDamaged = 0)

EventInv == EvTyped /\ EvSent /\ EvFlow

\* Where the invariant starts from on a living session.
LEMMA EventFlow ==
    ASSUME EventInv, eLive
    PROVE  /\ eventSendCtr_ = Len(answers)
           /\ FlowTyped(eventEncBuf_ \o net, eventPlainBuf_, peer.unsent, peer.lens, peer.frames,
                        CSeqs(answers), eventRecvCtr_, eSession)
           /\ Flow(eventEncBuf_ \o net, eventPlainBuf_, peer.unsent, peer.lens, peer.frames,
                   CSeqs(answers), eventRecvCtr_, eSession, eDamaged = 0)
           /\ eSession \in Nat
  <1>1. EvTyped
    BY DEF EventInv
  <1>2. eSession \in Nat
    BY <1>1, EventNumbers DEF EvTyped
  <1>3. FlowTyped(eventEncBuf_ \o net, eventPlainBuf_, peer.unsent, peer.lens, peer.frames,
                  CSeqs(answers), eventRecvCtr_, eSession)
    BY <1>1, <1>2, StateFlow DEF EvTyped
  <1> QED
    BY <1>2, <1>3 DEF EventInv, EvFlow

\* The receiver composing a request keeps the invariant.
LEMMA AskKeeps ==
    ASSUME EventInv, NEW len \in BodyLens, Event!Ask(len)
    PROVE  EventInv'
  <1>1. /\ eLive /\ Len(peer.lens) < MaxAsked
        /\ peer' = [peer EXCEPT !.lens = Append(@, len),
                                !.unsent = @ \o Event!RequestTokens(Len(peer.lens) + 1, len)]
        /\ eSession' = eSession /\ eLive' = eLive /\ eDamaged' = eDamaged /\ net' = net
        /\ eventEncBuf_' = eventEncBuf_ /\ eventPlainBuf_' = eventPlainBuf_
        /\ eventRecvCtr_' = eventRecvCtr_ /\ eventSendCtr_' = eventSendCtr_ /\ answers' = answers
    BY DEF Event!Ask, Event!Asked, Event!buffers
  <1>2. EvTyped /\ EvSent
    BY DEF EventInv
  <1>3. len \in Nat
    BY EventNumbers
  <1>4. PICK r : r = Event!RequestTokens(Len(peer.lens) + 1, len)
    OBVIOUS
  <1>5. /\ Flow(eventEncBuf_ \o net, eventPlainBuf_, peer.unsent \o r, Append(peer.lens, len),
                peer.frames, CSeqs(answers), eventRecvCtr_, eSession, eDamaged = 0)
        /\ FlowTyped(eventEncBuf_ \o net, eventPlainBuf_, peer.unsent \o r, Append(peer.lens, len),
                     peer.frames, CSeqs(answers), eventRecvCtr_, eSession)
    BY <1>1, <1>3, <1>4, EventFlow, FlowAsk
  <1>6. peer.lens \in Seq(BodyLens) /\ peer.frames \in 0 .. MaxFrames /\ peer.unsent \in Seq(EToks)
    BY <1>2 DEF EvTyped, PeerSet
  <1>7. Append(peer.lens, len) \in Seq(BodyLens) /\ Len(Append(peer.lens, len)) = Len(peer.lens) + 1
        /\ Len(peer.lens) \in Nat
    BY <1>6
  <1>8. peer.unsent \o r \in Seq(EToks)
    BY <1>5 DEF FlowTyped
  <1>9. peer' = [lens |-> Append(peer.lens, len), unsent |-> peer.unsent \o r, frames |-> peer.frames]
    BY <1>1, <1>2, <1>4 DEF EvTyped, PeerSet
  <1>10. peer'.lens = Append(peer.lens, len) /\ peer'.unsent = peer.unsent \o r /\ peer'.frames = peer.frames
    BY <1>9
  <1>11. peer' \in PeerSet
    <2>1. PICK S, T : S = Seq(BodyLens) /\ T = Seq(EToks)
      OBVIOUS
    <2>2. peer' \in [lens : S, unsent : T, frames : 0 .. MaxFrames]
      BY <1>6, <1>7, <1>8, <1>9, <2>1
    <2> QED
      BY <2>1, <2>2 DEF PeerSet
  <1>12. Len(peer'.lens) <= MaxAsked
    BY <1>1, <1>7, <1>10, EventNumbers
  <1>13. EvTyped'
    BY <1>1, <1>2, <1>11, <1>12 DEF EvTyped
  <1>14. EvSent'
    BY <1>1, <1>2 DEF EvSent
  <1>15. EvFlow'
    <2>1. eventSendCtr_' = Len(answers')
      BY <1>1, EventFlow
    <2> QED
      BY <1>1, <1>5, <1>10, <2>1 DEF EvFlow
  <1> QED
    BY <1>13, <1>14, <1>15 DEF EventInv

\* So does its sending a frame, damaged or not.
LEMMA FrameKeeps ==
    ASSUME EventInv, NEW k \in 1 .. Len(peer.unsent), NEW ok \in BOOLEAN, Event!SendFrame(k, ok)
    PROVE  EventInv'
  <1>1. PICK f : f = [Frame(eSession, peer.frames, SubSeq(peer.unsent, 1, k)) EXCEPT !.intact = ok]
    OBVIOUS
  <1>2. Event!Frame(eSession, peer.frames, SubSeq(peer.unsent, 1, k))
            = Frame(eSession, peer.frames, SubSeq(peer.unsent, 1, k))
        /\ Event!Halves(f) = Halves(f)
    BY DEF Event!Frame, Frame, Event!Halves, Halves
  <1>3. /\ eLive /\ peer.frames < MaxFrames /\ (ok \/ eDamaged < MaxDamage)
        /\ net' = net \o Halves(f)
        /\ peer' = [peer EXCEPT !.frames = @ + 1, !.unsent = SubSeq(@, k + 1, Len(@))]
        /\ eDamaged' = eDamaged + (IF ok THEN 0 ELSE 1)
        /\ eSession' = eSession /\ eLive' = eLive
        /\ eventEncBuf_' = eventEncBuf_ /\ eventPlainBuf_' = eventPlainBuf_
        /\ eventRecvCtr_' = eventRecvCtr_ /\ eventSendCtr_' = eventSendCtr_ /\ answers' = answers
    BY <1>1, <1>2 DEF Event!SendFrame, Event!buffers
  <1>4. EvTyped /\ EvSent
    BY DEF EventInv
  <1>5. eDamaged' \in 0 .. MaxDamage /\ (eDamaged' = 0 => eDamaged = 0 /\ ok)
    BY <1>3, <1>4, EventNumbers, SMTT(60) DEF EvTyped
  <1>6. PICK I, U : I = eventEncBuf_ \o net /\ U = SubSeq(peer.unsent, k + 1, Len(peer.unsent))
    OBVIOUS
  <1>7. /\ Flow(I \o Halves(f), eventPlainBuf_, U, peer.lens, peer.frames + 1, CSeqs(answers),
                eventRecvCtr_, eSession, eDamaged' = 0)
        /\ FlowTyped(I \o Halves(f), eventPlainBuf_, U, peer.lens, peer.frames + 1, CSeqs(answers),
                     eventRecvCtr_, eSession)
        /\ Halves(f) \in Seq(EItems)
    <2>1. /\ FlowTyped(I, eventPlainBuf_, peer.unsent, peer.lens, peer.frames, CSeqs(answers),
                       eventRecvCtr_, eSession)
          /\ Flow(I, eventPlainBuf_, peer.unsent, peer.lens, peer.frames, CSeqs(answers),
                  eventRecvCtr_, eSession, eDamaged = 0)
      BY <1>3, <1>6, EventFlow
    <2> QED
      BY <1>1, <1>5, <1>6, <2>1, FlowFrame, ZenonT(60)
  <1>8. (eventEncBuf_ \o net) \o Halves(f) = eventEncBuf_ \o (net \o Halves(f))
        /\ net \o Halves(f) \in Seq(EItems)
    <2>1. PICK H, V : H = Halves(f) /\ V = EItems
      OBVIOUS
    <2>2. eventEncBuf_ \in Seq(V) /\ net \in Seq(V) /\ H \in Seq(V)
      BY <1>4, <1>7, <2>1 DEF EvTyped
    <2>3. Associates(eventEncBuf_, net, H)
      BY <2>2, Associate
    <2>4. net \o H \in Seq(V)
      BY ONLY <2>2, Concatenation
    <2> QED
      BY <2>1, <2>3, <2>4 DEF Associates
  <1>9. peer.lens \in Seq(BodyLens) /\ peer.frames \in 0 .. MaxFrames /\ peer.unsent \in Seq(EToks)
    BY <1>4 DEF EvTyped, PeerSet
  <1>10. U \in Seq(EToks)
    BY <1>7 DEF FlowTyped
  <1>11. peer' = [lens |-> peer.lens, unsent |-> U, frames |-> peer.frames + 1]
    BY <1>3, <1>4, <1>6 DEF EvTyped, PeerSet
  <1>12. peer'.lens = peer.lens /\ peer'.unsent = U /\ peer'.frames = peer.frames + 1
    BY <1>11
  <1>13. peer' \in PeerSet
    <2>1. PICK S, T : S = Seq(BodyLens) /\ T = Seq(EToks)
      OBVIOUS
    <2>2. peer.frames + 1 \in 0 .. MaxFrames
      BY <1>3, <1>9, EventNumbers
    <2>3. peer' \in [lens : S, unsent : T, frames : 0 .. MaxFrames]
      BY <1>9, <1>10, <1>11, <2>1, <2>2
    <2> QED
      BY <2>1, <2>3 DEF PeerSet
  <1>14. EvTyped'
    BY <1>3, <1>4, <1>5, <1>8, <1>12, <1>13 DEF EvTyped
  <1>15. EvSent'
    BY <1>3, <1>4 DEF EvSent
  <1>16. EvFlow'
    <2>1. eventSendCtr_' = Len(answers')
      BY <1>3, EventFlow
    <2> QED
      BY <1>3, <1>6, <1>7, <1>8, <1>12, <2>1 DEF EvFlow
  <1> QED
    BY <1>14, <1>15, <1>16 DEF EventInv

\* The event channel's frames are those of HapFrames.
LEMMA EventFrames ==
    ASSUME NEW b, NEW n, NEW key, NEW c
    PROVE  /\ Event!Opened(b, key, c) = Opened(b, key, c)
           /\ \A m : Event!Plain(b, m) = Plain(b, m)
           /\ Event!Complete(b) = Complete(b) /\ (Event!Aligned(b) <=> Aligned(b))
           /\ Event!Rest(b, n) = Rest(b, n)
  <1>1. \A S : Event!FlattenSeq(S) = FlattenSeq(S)
    BY DEF Event!FlattenSeq, FlattenSeq
  <1>2. \A S : Event!Max(S) = Max(S)
    BY DEF Event!Max, Max
  <1>3. Event!Opened(b, key, c) = Opened(b, key, c)
    BY <1>2, Zenon DEF Event!Opened, Opened, Event!Opens, Opens, Event!FrameAt, FrameAt,
                       Event!Complete, Complete
  <1>4. \A m : Event!Plain(b, m) = Plain(b, m)
    BY <1>1, Zenon DEF Event!Plain, Plain, Event!FrameAt, FrameAt
  <1>5. Event!Complete(b) = Complete(b) /\ (Event!Aligned(b) <=> Aligned(b))
        /\ Event!Rest(b, n) = Rest(b, n)
    BY DEF Event!Rest, Rest, Event!Complete, Complete, Event!Aligned, Aligned
  <1> QED
    BY <1>3, <1>4, <1>5

\* Where the answers are sent.
LEMMA AnswerIs ==
    ASSUME NEW p, Event!Answer(p)
    PROVE  \E s \in Event!Served(p) :
              /\ eventPlainBuf_' = s.rest
              /\ answers' = answers \o Answering(eSession, eventSendCtr_, s.cseqs)
              /\ eventSendCtr_' = eventSendCtr_ + Len(s.cseqs)
  BY Zenon DEF Event!Answer, Answering

\* What is left to show after a read.
LEMMA ReadLeaves ==
    ASSUME EventInv, eLive, NEW B, B \in Seq(EItems), NEW R, R \in Seq(EItems), NEW P, NEW recv,
           NEW s, s \in Seq(Nat), NEW whole, eDamaged = 0 => whole,
           FlowTyped(B \o R, P, peer.unsent, peer.lens, peer.frames, CSeqs(answers) \o s, recv, eSession),
           Flow(B \o R, P, peer.unsent, peer.lens, peer.frames, CSeqs(answers) \o s, recv, eSession, whole),
           eventEncBuf_' = B, net' = R, eventPlainBuf_' = P, eventRecvCtr_' = recv,
           answers' = answers \o Answering(eSession, eventSendCtr_, s),
           eventSendCtr_' = eventSendCtr_ + Len(s),
           eSession' = eSession, eLive' = eLive, peer' = peer, eDamaged' = eDamaged
    PROVE  EventInv'
  <1>1. EvTyped /\ EvSent
    BY DEF EventInv
  <1>2. eventSendCtr_ = Len(answers) /\ eSession \in Nat
    BY EventFlow
  <1>3. answers \in Seq(AnswerSet) /\ InTurn(answers, eSession)
    BY <1>1 DEF EvTyped, EvSent
  <1>4. /\ answers' \in Seq(AnswerSet) /\ Len(answers') = Len(answers) + Len(s)
        /\ InTurn(answers', eSession) /\ CSeqs(answers') = CSeqs(answers) \o s
    <2>1. PICK E, a : E = answers' /\ a = Answering(eSession, Len(answers), s)
      OBVIOUS
    <2>2. E = answers \o a
      BY <1>2, <2>1
    <2>3. /\ E \in Seq(AnswerSet) /\ Len(E) = Len(answers) + Len(s) /\ InTurn(E, eSession)
          /\ CSeqs(E) = CSeqs(answers) \o s
      BY <1>2, <1>3, <2>1, <2>2, AnswersNext
    <2> QED
      BY <2>1, <2>3
  <1>5. P \in Seq(EToks) /\ recv \in Nat
    BY DEF FlowTyped
  <1>6. HalvesOnly(B)
    BY AlternatingHalves DEF Flow
  <1>7. eventSendCtr_' = Len(answers') /\ eventSendCtr_' \in Nat
    <2>1. Len(answers) \in Nat /\ Len(s) \in Nat
      BY <1>3
    <2> QED
      BY <1>2, <1>4, <2>1
  <1>8. EvTyped'
    BY <1>1, <1>4, <1>5, <1>6, <1>7 DEF EvTyped
  <1>9. EvSent'
    BY <1>4 DEF EvSent
  <1>10. Flow(B \o R, P, peer.unsent, peer.lens, peer.frames, CSeqs(answers'), recv, eSession, eDamaged = 0)
    BY <1>4 DEF Flow, InHand
  <1>11. EvFlow'
    BY <1>7, <1>10 DEF EvFlow
  <1> QED
    BY <1>8, <1>9, <1>11 DEF EventInv

\* What has arrived and what has not.
LEMMA Arrived ==
    ASSUME EventInv, NEW j \in 1 .. Len(net), NEW B, B = eventEncBuf_ \o SubSeq(net, 1, j),
           NEW R, R = SubSeq(net, j + 1, Len(net))
    PROVE  /\ B \in Seq(EItems) /\ R \in Seq(EItems) /\ B # <<>>
           /\ B \o R = eventEncBuf_ \o net
  <1>1. PICK V, e, w, a : V = EItems /\ e = eventEncBuf_ /\ w = net /\ a = SubSeq(net, 1, j)
    OBVIOUS
  <1>2. e \in Seq(V) /\ w \in Seq(V)
    BY <1>1 DEF EventInv, EvTyped
  <1>3. j \in 0 .. Len(w)
    BY <1>1
  <1>4. a \in Seq(V) /\ Len(a) = j /\ a \o R = w /\ R \in Seq(V)
    <2>1. a = SubSeq(w, 1, j) /\ R = SubSeq(w, j + 1, Len(w))
      BY <1>1
    <2> QED
      BY ONLY <1>2, <1>3, <2>1, UpTo, From
  <1>5. B = e \o a
    BY <1>1
  <1>6. B \in Seq(V) /\ Len(B) = Len(e) + Len(a) /\ Len(e) \in Nat
    BY ONLY <1>2, <1>4, <1>5, Concatenation
  <1>7. B # <<>>
    <2>1. Len(B) > 0
      BY <1>4, <1>6
    <2> SUFFICES ASSUME B = <<>> PROVE FALSE
      OBVIOUS
    <2>2. Len(B) = 0
      OBVIOUS
    <2> QED
      BY <2>1, <2>2
  <1>8. B \o R = e \o w
    <2>1. Associates(e, a, R)
      BY <1>2, <1>4, Associate
    <2> QED
      BY <1>4, <1>5, <2>1 DEF Associates
  <1> QED
    BY <1>1, <1>4, <1>6, <1>7, <1>8

\* onEventReadyRead_ keeps the invariant: the whole buffer opens, or it is dropped
\* behind the frames that open, or more is waited for.
LEMMA ReadKeeps ==
    ASSUME EventInv, NEW j \in 1 .. Len(net), Event!onEventReadyRead_(j)
    PROVE  EventInv'
  <1>1. PICK B, R, n : /\ B = eventEncBuf_ \o SubSeq(net, 1, j) /\ R = SubSeq(net, j + 1, Len(net))
                       /\ n = Opened(B, eSession, eventRecvCtr_)
    OBVIOUS
  <1>2. /\ Event!Opened(B, eSession, eventRecvCtr_) = n
        /\ \A m : Event!Plain(B, m) = Plain(B, m)
        /\ Event!Complete(B) = Complete(B) /\ (Event!Aligned(B) <=> Aligned(B))
        /\ Event!Rest(B, n) = Rest(B, n)
    BY <1>1, EventFrames
  <1>3. /\ eLive /\ net' = R
        /\ \/ /\ Aligned(B) /\ n = Complete(B)
              /\ eventEncBuf_' = Rest(B, n)
              /\ eventRecvCtr_' = eventRecvCtr_ + n
              /\ Event!Answer(eventPlainBuf_ \o Plain(B, n))
           \/ Aligned(B) /\ n < Complete(B) /\ Event!Drop(B, n)
           \/ ~Aligned(B) /\ Event!Drop(B, 0)
           \/ /\ ~Aligned(B)
              /\ eventEncBuf_' = B
              /\ Event!Answer(eventPlainBuf_)
              /\ eventRecvCtr_' = eventRecvCtr_
        /\ eSession' = eSession /\ eLive' = eLive /\ peer' = peer /\ eDamaged' = eDamaged
    BY <1>1, <1>2, Zenon DEF Event!onEventReadyRead_, Event!Kept
  <1>4. B \in Seq(EItems) /\ R \in Seq(EItems) /\ B # <<>> /\ B \o R = eventEncBuf_ \o net
    BY <1>1, Arrived
  <1>5. PICK w \in BOOLEAN : w <=> eDamaged = 0
    OBVIOUS
  <1>6. /\ FlowTyped(B \o R, eventPlainBuf_, peer.unsent, peer.lens, peer.frames,
                     CSeqs(answers), eventRecvCtr_, eSession)
        /\ Flow(B \o R, eventPlainBuf_, peer.unsent, peer.lens, peer.frames,
                CSeqs(answers), eventRecvCtr_, eSession, w)
    <2>1. /\ FlowTyped(eventEncBuf_ \o net, eventPlainBuf_, peer.unsent, peer.lens, peer.frames,
                       CSeqs(answers), eventRecvCtr_, eSession)
          /\ Flow(eventEncBuf_ \o net, eventPlainBuf_, peer.unsent, peer.lens, peer.frames,
                  CSeqs(answers), eventRecvCtr_, eSession, eDamaged = 0)
      BY <1>3, EventFlow
    <2>2. Flow(eventEncBuf_ \o net, eventPlainBuf_, peer.unsent, peer.lens, peer.frames,
               CSeqs(answers), eventRecvCtr_, eSession, w)
      BY <1>5, <2>1 DEF Flow, InHand
    <2> QED
      BY <1>4, <2>1, <2>2
  <1>7. CASE /\ Aligned(B) /\ n = Complete(B)
             /\ eventEncBuf_' = Rest(B, n)
             /\ eventRecvCtr_' = eventRecvCtr_ + n
             /\ Event!Answer(eventPlainBuf_ \o Plain(B, n))
    <2>1. PICK Q : Q = eventPlainBuf_ \o Plain(B, n)
      OBVIOUS
    <2>2. PICK s \in Event!Served(Q) :
              /\ eventPlainBuf_' = s.rest
              /\ answers' = answers \o Answering(eSession, eventSendCtr_, s.cseqs)
              /\ eventSendCtr_' = eventSendCtr_ + Len(s.cseqs)
      BY <1>7, <2>1, AnswerIs
    <2>3. /\ Rest(B, n) \in Seq(EItems)
          /\ Flow(Rest(B, n) \o R, s.rest, peer.unsent, peer.lens, peer.frames,
                  CSeqs(answers) \o s.cseqs, eventRecvCtr_ + n, eSession, w)
          /\ FlowTyped(Rest(B, n) \o R, s.rest, peer.unsent, peer.lens, peer.frames,
                       CSeqs(answers) \o s.cseqs, eventRecvCtr_ + n, eSession)
          /\ s.cseqs \in Seq(Nat)
      <3>1. /\ B \in Seq(EItems) /\ R \in Seq(EItems) /\ B # <<>> /\ Aligned(B)
            /\ w \in BOOLEAN /\ Opening(B, n, eventPlainBuf_, Q) /\ s \in Event!Served(Q)
        BY <1>4, <1>5, <1>7, <2>1, <2>2 DEF Opening
      <3> QED
        BY ONLY <1>6, <3>1, FlowOpens
    <2> QED
      BY <1>3, <1>4, <1>5, <1>7, <2>2, <2>3, ReadLeaves
  <1>8. ASSUME NEW m, Event!Drop(B, m),
               \/ Aligned(B) /\ m = Opened(B, eSession, eventRecvCtr_) /\ m < Complete(B)
               \/ ~Aligned(B) /\ m = 0
        PROVE  EventInv'
    <2>1. /\ eventEncBuf_' = <<>> /\ eventRecvCtr_' = eventRecvCtr_ + m + 1
          /\ eventPlainBuf_' = eventPlainBuf_ \o Plain(B, m)
          /\ eventSendCtr_' = eventSendCtr_ /\ answers' = answers
      BY <1>2, <1>8 DEF Event!Drop
    <2>2. PICK P : P = eventPlainBuf_ \o Plain(B, m)
      OBVIOUS
    <2>3. /\ ~w
          /\ Flow(R, P, peer.unsent, peer.lens, peer.frames, CSeqs(answers), eventRecvCtr_ + m + 1,
                  eSession, FALSE)
          /\ FlowTyped(R, P, peer.unsent, peer.lens, peer.frames, CSeqs(answers),
                       eventRecvCtr_ + m + 1, eSession)
      <3>1. /\ B \in Seq(EItems) /\ R \in Seq(EItems) /\ B # <<>> /\ w \in BOOLEAN
            /\ Dropping(B, m, eSession, eventRecvCtr_)
        BY <1>4, <1>5, <1>8 DEF Dropping
      <3>2. /\ ~w
            /\ Flow(R, eventPlainBuf_ \o Plain(B, m), peer.unsent, peer.lens, peer.frames,
                    CSeqs(answers), eventRecvCtr_ + m + 1, eSession, FALSE)
            /\ FlowTyped(R, eventPlainBuf_ \o Plain(B, m), peer.unsent, peer.lens, peer.frames,
                         CSeqs(answers), eventRecvCtr_ + m + 1, eSession)
        BY ONLY <1>6, <3>1, FlowDrops
      <3> QED
        BY <2>2, <3>2
    <2>4. PICK b, s : b = <<>> /\ s = <<>>
      OBVIOUS
    <2>5. EvTyped /\ eventSendCtr_ = Len(answers) /\ eSession \in Nat
      BY <1>3, EventFlow DEF EventInv
    <2>6. b \in Seq(EItems) /\ b \o R = R /\ s \in Seq(Nat) /\ Len(s) = 0
      BY <1>4, <2>4, ConcatEmptySeq
    <2>7. CSeqs(answers) \o s = CSeqs(answers)
      BY <2>4, <2>5, CSeqsType, ConcatEmptySeq DEF EvTyped
    <2>8. answers \o Answering(eSession, eventSendCtr_, s) = answers
      <3>1. Answering(eSession, eventSendCtr_, s) = <<>>
        BY <2>4 DEF Answering
      <3> QED
        BY <2>5, <3>1, ConcatEmptySeq DEF EvTyped
    <2>9. eventSendCtr_' = eventSendCtr_ + Len(s)
      BY <2>1, <2>5, <2>6 DEF EvTyped
    <2>10. /\ Flow(b \o R, P, peer.unsent, peer.lens, peer.frames, CSeqs(answers) \o s,
                   eventRecvCtr_ + m + 1, eSession, FALSE)
           /\ FlowTyped(b \o R, P, peer.unsent, peer.lens, peer.frames, CSeqs(answers) \o s,
                        eventRecvCtr_ + m + 1, eSession)
      BY <2>3, <2>6, <2>7
    <2>11. eventEncBuf_' = b /\ eventPlainBuf_' = P
           /\ answers' = answers \o Answering(eSession, eventSendCtr_, s)
      BY <2>1, <2>2, <2>4, <2>8
    <2>12. eDamaged = 0 => FALSE
      BY <1>5, <2>3
    <2> QED
      BY <1>3, <1>4, <2>1, <2>6, <2>9, <2>10, <2>11, <2>12, ReadLeaves
  <1>9. CASE Aligned(B) /\ n < Complete(B) /\ Event!Drop(B, n)
    BY <1>1, <1>8, <1>9
  <1>10. CASE ~Aligned(B) /\ Event!Drop(B, 0)
    BY <1>8, <1>10
  <1>11. CASE /\ ~Aligned(B)
              /\ eventEncBuf_' = B
              /\ Event!Answer(eventPlainBuf_)
              /\ eventRecvCtr_' = eventRecvCtr_
    <2>1. PICK s \in Event!Served(eventPlainBuf_) :
              /\ eventPlainBuf_' = s.rest
              /\ answers' = answers \o Answering(eSession, eventSendCtr_, s.cseqs)
              /\ eventSendCtr_' = eventSendCtr_ + Len(s.cseqs)
      BY <1>11, AnswerIs
    <2>2. /\ Flow(B \o R, s.rest, peer.unsent, peer.lens, peer.frames,
                  CSeqs(answers) \o s.cseqs, eventRecvCtr_, eSession, w)
          /\ FlowTyped(B \o R, s.rest, peer.unsent, peer.lens, peer.frames,
                       CSeqs(answers) \o s.cseqs, eventRecvCtr_, eSession)
          /\ s.cseqs \in Seq(Nat)
      BY <1>4, <1>6, <1>11, <2>1, FlowWaits, ZenonT(60)
    <2> QED
      BY <1>3, <1>4, <1>5, <1>11, <2>1, <2>2, ReadLeaves
  <1> QED
    BY <1>3, <1>7, <1>9, <1>10, <1>11

\* No session, no requests.
LEMMA NothingYet ==
    ASSUME NEW key
    PROVE  /\ Event!NewPeer \in PeerSet /\ Event!NewPeer.lens = <<>> /\ Event!NewPeer.unsent = <<>>
           /\ Event!NewPeer.frames = 0 /\ Len(<<>>) = 0
           /\ <<>> \in Seq(EItems) /\ <<>> \in Seq(EToks) /\ <<>> \in Seq(AnswerSet)
           /\ HalvesOnly(<<>>) /\ InTurn(<<>>, key)
  <1>1. <<>> \in Seq(BodyLens) /\ <<>> \in Seq(EToks) /\ 0 \in 0 .. MaxFrames
    BY EventNumbers
  <1>2. Event!NewPeer = [lens |-> <<>>, unsent |-> <<>>, frames |-> 0]
    BY DEF Event!NewPeer
  <1>3. Event!NewPeer \in PeerSet
    <2>1. PICK S, T, e : S = Seq(BodyLens) /\ T = Seq(EToks) /\ e = <<>>
      OBVIOUS
    <2>2. e \in S /\ e \in T /\ Event!NewPeer = [lens |-> e, unsent |-> e, frames |-> 0]
      BY <1>1, <1>2, <2>1
    <2>3. Event!NewPeer \in [lens : S, unsent : T, frames : 0 .. MaxFrames]
      BY <1>1, <2>2
    <2> QED
      BY <2>1, <2>3 DEF PeerSet
  <1>4. HalvesOnly(<<>>) /\ InTurn(<<>>, key)
    BY DEF HalvesOnly, InTurn
  <1> QED
    BY <1>1, <1>2, <1>3, <1>4

\* The initial states.
LEMMA InitEvent ==
    ASSUME Event!Init
    PROVE  EventInv
  <1>1. /\ eSession = 0 /\ eLive = FALSE /\ eventEncBuf_ = <<>> /\ eventPlainBuf_ = <<>>
        /\ eventRecvCtr_ = 0 /\ eventSendCtr_ = 0 /\ answers = <<>> /\ peer = Event!NewPeer
        /\ net = <<>> /\ eDamaged = 0
    BY DEF Event!Init
  <1>2. EvTyped
    <2>1. /\ peer \in PeerSet /\ peer.lens = <<>> /\ Len(<<>>) = 0
          /\ eventEncBuf_ \in Seq(EItems) /\ net \in Seq(EItems) /\ eventPlainBuf_ \in Seq(EToks)
          /\ answers \in Seq(AnswerSet) /\ HalvesOnly(eventEncBuf_)
      BY <1>1, NothingYet
    <2>2. Len(peer.lens) <= MaxAsked
      BY <2>1, EventNumbers
    <2>3. eSession \in 0 .. MaxSessions /\ eDamaged \in 0 .. MaxDamage
      BY <1>1, EventNumbers
    <2> QED
      BY <1>1, <2>1, <2>2, <2>3 DEF EvTyped
  <1>3. EvSent
    BY <1>1, NothingYet DEF EvSent
  <1> QED
    BY <1>1, <1>2, <1>3 DEF EventInv, EvFlow

\* startEventChannel_ begins with empty buffers and counters at 0.
LEMMA StartEvent ==
    ASSUME EventInv, Event!Start
    PROVE  EventInv'
  <1>1. /\ eSession < MaxSessions /\ eSession' = eSession + 1 /\ eLive' = TRUE
        /\ eventEncBuf_' = <<>> /\ eventPlainBuf_' = <<>> /\ eventRecvCtr_' = 0 /\ eventSendCtr_' = 0
        /\ answers' = <<>> /\ peer' = Event!NewPeer /\ net' = <<>> /\ eDamaged' = 0
    BY DEF Event!Start
  <1>2. EvTyped
    BY DEF EventInv
  <1>3. eSession' \in 0 .. MaxSessions
    BY <1>1, <1>2, EventNumbers DEF EvTyped
  <1>4. EvTyped'
    BY <1>1, <1>3, NothingYet, EventNumbers DEF EvTyped
  <1>5. EvSent'
    BY <1>1, NothingYet DEF EvSent
  <1>6. Flow(<<>>, <<>>, <<>>, <<>>, 0, <<>>, 0, eSession', TRUE)
    <2>1. PICK e : e = <<>>
      OBVIOUS
    <2>2. Len(e) = 0 /\ e \in Seq(Nat) /\ e \in Seq(EToks) /\ e \o e = e /\ DOMAIN e = {}
          /\ e \in Seq(ItemSet(EToks))
      BY <2>1
    <2>3. Complete(e) = 0
      BY <2>2 DEF Complete
    <2>4. Alternating(e) /\ Framed(e, eSession', 0) /\ Intact(e)
      BY <2>2, <2>3 DEF Alternating, Framed, Intact
    <2>5. Carried(e) = e
      <3>1. Pieces(e) = <<>>
        BY <2>2 DEF Pieces
      <3> QED
        BY <2>1, <3>1, FlattenEmpty DEF Carried
    <2>6. Marks(e) = e
      BY <2>1, <2>2 DEF Marks
    <2>7. RequestsAfter(e, Len(e)) = e
      BY <2>1, <2>2, RequestsNone
    <2>8. Rising(e, 0)
      BY <2>2 DEF Rising
    <2>9. InHand(e, e, Carried(e) \o e, e, TRUE)
      <3>1. PICK q : q = RequestsAfter(e, Len(e))
        OBVIOUS
      <3>2. q = e /\ e \o (Carried(e) \o e) = e /\ Marks(e) \o (e \o (Carried(e) \o e)) = e
        BY <2>2, <2>5, <2>6, <2>7, <3>1
      <3>3. Rising(Marks(e) \o (e \o (Carried(e) \o e)), Len(e))
        BY <2>2, <2>8, <3>2
      <3>4. Len(e) <= Len(e) /\ \A i \in 1 .. Len(e) : e[i] = i
        BY <2>2
      <3> QED
        BY <3>1, <3>2, <3>3, <3>4 DEF InHand
    <2>10. ~Event!HasRequest(e)
      <3> SUFFICES ASSUME Event!HasRequest(e) PROVE FALSE
        OBVIOUS
      <3>1. Len(e) > 0
        BY <2>2, EmptyHas
      <3> QED
        BY <2>2, <3>1
    <2>11. Flow(e, e, e, e, 0, e, 0, eSession', TRUE)
      <3>1. 0 = 0 + Complete(e)
        BY <2>3
      <3> QED
        BY <2>4, <2>9, <2>10, <3>1 DEF Flow
    <2> QED
      BY <2>1, <2>11
  <1>7. EvFlow'
    <2>1. /\ eventEncBuf_' \o net' = <<>> /\ CSeqs(answers') = <<>> /\ Len(answers') = 0
          /\ peer'.lens = <<>> /\ peer'.unsent = <<>> /\ peer'.frames = 0
      <3>1. <<>> \o <<>> = <<>> /\ CSeqs(<<>>) = <<>>
        BY DEF CSeqs
      <3> QED
        BY <1>1, <3>1, NothingYet
    <2>2. PICK w \in BOOLEAN : w <=> eDamaged' = 0
      OBVIOUS
    <2>3. w = TRUE
      BY <1>1, <2>2
    <2>4. Flow(eventEncBuf_' \o net', eventPlainBuf_', peer'.unsent, peer'.lens, peer'.frames,
               CSeqs(answers'), eventRecvCtr_', eSession', eDamaged' = 0)
      BY <1>1, <1>6, <2>1 DEF Flow, InHand
    <2> QED
      BY <1>1, <2>1, <2>4 DEF EvFlow
  <1> QED
    BY <1>4, <1>5, <1>7 DEF EventInv

\* The end of a session drops what was on its way.
LEMMA EndEvent ==
    ASSUME EventInv, Event!End
    PROVE  EventInv'
  <1>1. /\ eLive' = FALSE /\ answers' = <<>> /\ peer' = Event!NewPeer /\ net' = <<>> /\ eDamaged' = 0
        /\ eSession' = eSession /\ eventEncBuf_' = eventEncBuf_ /\ eventPlainBuf_' = eventPlainBuf_
        /\ eventRecvCtr_' = eventRecvCtr_ /\ eventSendCtr_' = eventSendCtr_
    BY DEF Event!End
  <1>2. EvTyped
    BY DEF EventInv
  <1>3. EvTyped'
    <2>1. /\ peer' \in PeerSet /\ peer'.lens = <<>> /\ Len(<<>>) = 0
          /\ net' \in Seq(EItems) /\ answers' \in Seq(AnswerSet)
      BY <1>1, NothingYet
    <2>2. Len(peer'.lens) <= MaxAsked
      BY <2>1, EventNumbers
    <2>3. eDamaged' \in 0 .. MaxDamage
      BY <1>1, EventNumbers
    <2> QED
      BY <1>1, <1>2, <2>1, <2>2, <2>3 DEF EvTyped
  <1>4. EvSent'
    BY <1>1, NothingYet DEF EvSent
  <1> QED
    BY <1>1, <1>3, <1>4 DEF EventInv, EvFlow

\* Every step of the event channel keeps the invariant.
LEMMA NextEvent ==
    ASSUME EventInv, Event!Next
    PROVE  EventInv'
  <1>1. CASE \E len \in BodyLens : Event!Ask(len)
    BY <1>1, AskKeeps
  <1>2. CASE Event!SendSome
    BY <1>2, FrameKeeps DEF Event!SendSome
  <1>3. CASE Event!ReadSome
    BY <1>3, ReadKeeps DEF Event!ReadSome
  <1>4. CASE Event!Start
    BY <1>4, StartEvent
  <1>5. CASE Event!End
    BY <1>5, EndEvent
  <1> QED
    BY <1>1, <1>2, <1>3, <1>4, <1>5 DEF Event!Next

\* Steps of the control channel leave the event channel alone.
LEMMA StutterEvent ==
    ASSUME EventInv, UNCHANGED eventVars
    PROVE  EventInv'
  BY DEF EventInv, eventVars, EvTyped, EvSent, EvFlow

\* What has been answered rises.
LEMMA AnswersRise ==
    ASSUME EventInv
    PROVE  /\ \A i \in DOMAIN answers : answers[i].cseq \in 0 .. MaxAsked
           /\ Event!NoAnswerTwice
  <1>1. EvTyped /\ EvSent
    BY DEF EventInv
  <1>2. CASE ~eLive
    BY <1>1, <1>2 DEF EvSent, Event!NoAnswerTwice
  <1>3. CASE eLive
    <2>1. PICK C, Y, n : /\ C = CSeqs(answers) /\ n = Len(peer.lens)
                         /\ Y = eventPlainBuf_ \o (Carried(eventEncBuf_ \o net) \o peer.unsent)
      OBVIOUS
    <2>2. Rising(Marks(C) \o Y, n)
      BY <1>3, <2>1, EventFlow DEF Flow, InHand
    <2>3. /\ C \in Seq(Nat) /\ Len(C) = Len(answers) /\ n \in Nat /\ n <= MaxAsked
          /\ \A i \in 1 .. Len(answers) : C[i] = answers[i].cseq
          /\ DOMAIN answers = 1 .. Len(answers)
      BY <1>1, <2>1, CSeqsType, LenProperties DEF EvTyped, PeerSet
    <2>4. Y \in Seq(EToks)
      <3>1. PICK V, I, K, U, P : /\ V = EToks /\ I = eventEncBuf_ \o net /\ K = Carried(I)
                                 /\ U = peer.unsent /\ P = eventPlainBuf_
        OBVIOUS
      <3>2. I \in Seq(ItemSet(EToks)) /\ U \in Seq(V) /\ P \in Seq(V)
        BY <1>3, <3>1, EventFlow DEF FlowTyped, EItems
      <3>3. K \in Seq(V)
        BY <3>1, <3>2, PiecesType
      <3>4. PICK X : X = K \o U
        OBVIOUS
      <3>5. X \in Seq(V)
        BY ONLY <3>2, <3>3, <3>4, Concatenation
      <3>6. P \o X \in Seq(V)
        BY ONLY <3>2, <3>5, Concatenation
      <3> QED
        BY <2>1, <3>1, <3>4, <3>6
    <2>5. PICK Z, m : Z = Marks(C) \o Y /\ m = Len(C)
      OBVIOUS
    <2>6. m \in Nat /\ Len(Z) \in Nat /\ m <= Len(Z) /\ \A i \in 1 .. m : Z[i] = Mark(C[i]) /\ C[i] \in Nat
      <3>1. PICK M, V : M = Marks(C) /\ V = EToks
        OBVIOUS
      <3>2. M \in Seq(V) /\ Len(M) = m /\ \A i \in 1 .. m : M[i] = Mark(C[i])
        BY <2>3, <2>5, <3>1, MarksType
      <3>3. Y \in Seq(V)
        BY <2>4, <3>1
      <3>4. Z = M \o Y
        BY <2>5, <3>1
      <3>5. /\ Len(Z) = Len(M) + Len(Y) /\ Len(M) \in Nat /\ Len(Y) \in Nat
            /\ \A i \in 1 .. Len(M) : Z[i] = M[i]
        BY ONLY <3>2, <3>3, <3>4, Concatenation
      <3>6. \A i \in 1 .. m : C[i] \in Nat
        BY <2>3, <2>5, ElementOfSeq
      <3> QED
        BY <3>2, <3>5, <3>6
    <2>7. ASSUME NEW i \in 1 .. m, C[i] # 0
          PROVE  i \in 1 .. Len(Z) /\ Cseq(Z, i) /\ Z[i].n = C[i]
      <3>1. Mark(C[i]).line = "cseq" /\ Mark(C[i]).n = C[i]
        BY <2>6, <2>7, MarkType
      <3> QED
        BY <2>6, <3>1 DEF Cseq
    <2>8. ASSUME NEW i \in 1 .. m PROVE C[i] \in 0 .. MaxAsked
      <3>1. CASE C[i] = 0
        BY <3>1, EventNumbers
      <3>2. CASE C[i] # 0
        <4>1. Z[i].n \in 1 .. n /\ Z[i].n = C[i]
          BY <2>2, <2>5, <2>7, <3>2 DEF Rising
        <4> QED
          BY <2>3, <4>1, EventNumbers
      <3> QED
        BY <3>1, <3>2
    <2>9. ASSUME NEW i \in 1 .. m, NEW j \in 1 .. m, i < j, C[i] # 0, C[j] # 0
          PROVE  C[i] < C[j]
      <3>1. /\ i \in 1 .. Len(Z) /\ Cseq(Z, i) /\ Z[i].n = C[i]
            /\ j \in 1 .. Len(Z) /\ Cseq(Z, j) /\ Z[j].n = C[j]
        BY <2>7, <2>9
      <3> QED
        BY <2>2, <2>5, <2>9, <3>1 DEF Rising
    <2>10. m = Len(answers)
      BY <2>3, <2>5
    <2>11. Event!NoAnswerTwice
      BY <2>3, <2>9, <2>10 DEF Event!NoAnswerTwice
    <2> QED
      BY <2>3, <2>8, <2>10, <2>11
  <1> QED
    BY <1>2, <1>3

\* What is in the buffers and on its way is what has not been answered.
LEMMA FlightIs ==
    ASSUME EventInv, eLive
    PROVE  /\ Event!InFlight = eventPlainBuf_ \o (Carried(eventEncBuf_ \o net) \o peer.unsent)
           /\ Event!Unanswered = RequestsAfter(peer.lens, Len(answers))
  <1>1. \A S : Event!FlattenSeq(S) = FlattenSeq(S)
    BY DEF Event!FlattenSeq, FlattenSeq
  <1>2. PICK V, I, K, U, P : /\ V = EToks /\ I = eventEncBuf_ \o net /\ K = Carried(I)
                             /\ U = peer.unsent /\ P = eventPlainBuf_
    OBVIOUS
  <1>3. I \in Seq(ItemSet(EToks)) /\ U \in Seq(V) /\ P \in Seq(V)
    BY <1>2, EventFlow DEF FlowTyped, EItems
  <1>4. K \in Seq(V)
    BY <1>2, <1>3, PiecesType
  <1>5. (P \o K) \o U = P \o (K \o U)
    <2>1. Associates(P, K, U)
      BY <1>3, <1>4, Associate
    <2> QED
      BY <2>1 DEF Associates
  <1>6. Event!InFlight = (P \o K) \o U
    <2>1. DOMAIN I = 1 .. Len(I)
      BY <1>3, LenProperties
    <2>2. [i \in DOMAIN I |-> LET h == I[i] IN IF h.half = 1 THEN h.frame.plain ELSE <<>>] = Pieces(I)
      BY <2>1, Zenon DEF Pieces
    <2>3. Event!InFlight = (P \o FlattenSeq([i \in DOMAIN I |-> LET h == I[i]
                               IN IF h.half = 1 THEN h.frame.plain ELSE <<>>])) \o U
      BY <1>1, <1>2, Zenon DEF Event!InFlight
    <2> QED
      BY <1>2, <2>2, <2>3, Zenon DEF Carried
  <1>7. Event!Unanswered = RequestsAfter(peer.lens, Len(answers))
    BY <1>1, Zenon DEF Event!Unanswered, Event!Asked, RequestsAfter, Asking
  <1> QED
    BY <1>2, <1>5, <1>6, <1>7

\* The invariant gives the property.
LEMMA EventSafe ==
    ASSUME EventInv
    PROVE  AnsweredOnce
  <1>1. EvTyped /\ EvSent /\ EvFlow
    BY DEF EventInv
  <1>2. DOMAIN answers = 1 .. Len(answers)
    BY <1>1, LenProperties DEF EvTyped
  <1>3. Event!TypeOK
    <2>1. \A i \in DOMAIN eventEncBuf_ : eventEncBuf_[i].half \in {1, 2}
      <3>1. DOMAIN eventEncBuf_ = 1 .. Len(eventEncBuf_)
        BY <1>1, LenProperties DEF EvTyped
      <3> QED
        BY <1>1, <3>1 DEF EvTyped, HalvesOnly
    <2>2. \A i \in DOMAIN eventPlainBuf_ : eventPlainBuf_[i].line \in {"cseq", "length", "end", "body"}
      <3> SUFFICES ASSUME NEW i \in DOMAIN eventPlainBuf_
                   PROVE  eventPlainBuf_[i].line \in {"cseq", "length", "end", "body"}
        OBVIOUS
      <3>1. eventPlainBuf_ \in Seq(EToks) /\ DOMAIN eventPlainBuf_ = 1 .. Len(eventPlainBuf_)
        BY <1>1, LenProperties DEF EvTyped
      <3>2. eventPlainBuf_[i] \in EToks
        BY <3>1, ElementOfSeq
      <3> QED
        BY <3>2 DEF EToks, ELines
    <2>3. peer.lens \in Seq(BodyLens) /\ peer.frames \in 0 .. MaxFrames
      BY <1>1 DEF EvTyped, PeerSet
    <2> QED
      BY <1>1, <2>1, <2>2, <2>3, AnswersRise DEF EvTyped, Event!TypeOK, Event!Asked
  <1>4. Event!OneAnswerEach
    <2>1. \A i \in DOMAIN answers : answers[i].key = eSession /\ answers[i].ctr = i - 1
      BY <1>1, <1>2 DEF EvSent, InTurn
    <2>2. ASSUME eLive, eDamaged = 0
          PROVE  /\ \A i \in DOMAIN answers : answers[i].cseq = i
                 /\ Event!InFlight = Event!Unanswered
                 /\ ~Event!HasRequest(eventPlainBuf_)
      <3>1. PICK C : C = CSeqs(answers)
        OBVIOUS
      <3>2. /\ Len(C) = Len(answers) /\ \A i \in 1 .. Len(answers) : C[i] = answers[i].cseq
        BY <1>1, <3>1, CSeqsType DEF EvTyped
      <3>3. /\ \A i \in 1 .. Len(C) : C[i] = i
            /\ eventPlainBuf_ \o (Carried(eventEncBuf_ \o net) \o peer.unsent)
                   = RequestsAfter(peer.lens, Len(C))
            /\ ~Event!HasRequest(eventPlainBuf_)
        BY <2>2, <3>1, EventFlow DEF Flow, InHand
      <3>4. Event!InFlight = Event!Unanswered
        BY <2>2, <3>2, <3>3, FlightIs
      <3> QED
        BY <1>2, <3>2, <3>3, <3>4
    <2> QED
      BY <2>1, <2>2 DEF Event!OneAnswerEach
  <1> QED
    BY <1>3, <1>4, AnswersRise DEF AnsweredOnce

\* Every reachable state of the event channel satisfies the invariant: the
\* plaintext buffer, the frames buffered or on their way and what the receiver
\* has not sent are, in this order, the requests that onEventReadyRead_ has not
\* answered, and after damage still hold rising CSeqs above all those answered.
THEOREM EventHolds == ChannelsSpec => []EventInv
  <1>1. ChannelsInit => EventInv
    BY InitEvent DEF ChannelsInit
  <1>2. EventInv /\ [ChannelsNext]_<<vars, eventVars, part>> => EventInv'
    <2> SUFFICES ASSUME EventInv, [ChannelsNext]_<<vars, eventVars, part>>
                 PROVE  EventInv'
      OBVIOUS
    <2>1. CASE ChannelsNext
      <3>1. Event!Next \/ UNCHANGED eventVars
        BY <2>1, Zenon DEF ChannelsNext
      <3> QED
        BY <3>1, NextEvent, StutterEvent
    <2>2. CASE UNCHANGED <<vars, eventVars, part>>
      <3>1. UNCHANGED eventVars
        BY <2>2
      <3> QED
        BY <3>1, StutterEvent
    <2> QED
      BY <2>1, <2>2
  <1>3. ChannelsSpec => ChannelsInit /\ [][ChannelsNext]_<<vars, eventVars, part>>
    BY PTL DEF ChannelsSpec
  <1> QED
    BY <1>1, <1>2, <1>3, PTL

\* onEventReadyRead_ answers no request twice and none out of order, whatever is
\* damaged and wherever the stream is cut; on an undamaged channel every request
\* is answered with its own CSeq, or is still on its way in full (AnsweredOnce).
THEOREM RequestsAnsweredOnce == ChannelsSpec => []AnsweredOnce
  <1>1. EventInv => AnsweredOnce
    BY EventSafe
  <1> QED
    BY <1>1, EventHolds, PTL
=============================================================================
