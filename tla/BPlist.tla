------------------------------- MODULE BPlist -------------------------------
(***************************************************************************)
(* Binary property lists (namespace bplist of airplay_crypto.cpp), the     *)
(* bodies of the AirPlay 2 SETUP requests and answers.  A value is a pair  *)
(* of its type and content; bytes are numbers; an Int is its eight bytes,  *)
(* most significant first.  The state is a value, built from the inside    *)
(* out, that one side encodes and the other decodes.                       *)
(*                                                                         *)
(* The sender writes references and offsets of four bytes.  A receiver     *)
(* writes what it likes, and strings in UTF-16, so the encoder takes the   *)
(* layout as a parameter; either way object 0 is the root, as decode       *)
(* assumes.                                                                *)
(***************************************************************************)
EXTENDS Naturals, Sequences, SequencesExt, FiniteSetsExt

CONSTANTS
    Leaves,      \* values that hold no others
    First, Second,    \* the leaves that join a value in an array or dictionary
    Keys,        \* keys of dictionaries
    Layouts,     \* records [offsetSize, refSize] in use
    MaxDepth,    \* 32, the deepest object decode reads
    MaxWidth,    \* bound on the children of a value
    MaxNest      \* bound on the nesting

VARIABLE value

none == <<>>

\* What appendRef writes.
sender == [offsetSize |-> 4, refSize |-> 4]

----------------------------------------------------------------------------
(* Encoder *)

\* n < 2^31 as width bytes.
BE(n, width) ==
    [i \in 1..width |-> IF width - i > 3 THEN 0 ELSE (n \div 256^(width - i)) % 256]

\* Does the value of these eight bytes, not negative, fit into width bytes?
Fits(bytes, width) == \A i \in 1..8 - width : bytes[i] = 0

\* The smallest of the four widths that holds the value.
encodeInt(bytes) ==
    LET width == Min({w \in {1, 2, 4, 8} : Fits(bytes, w)})
        log   == CHOOSE k \in 0..3 : 2^k = width
    IN  <<16 + log>> \o SubSeq(bytes, 9 - width, 8)

encodeMarkerLen(marker, len) ==
    IF len < 15 THEN <<marker + len>> ELSE <<marker + 15>> \o encodeInt(BE(len, 8))

\* Mutant: keys and values as they come, in turn.
RefOrder_InTurn(refs) == refs

\* The references of a dictionary: all its keys, then all its values.
RefOrder(refs) ==
    LET cnt == Len(refs) \div 2
    IN  [i \in 1..2 * cnt |-> IF i <= cnt THEN refs[2 * i - 1] ELSE refs[2 * (i - cnt)]]

appendRefs(refs, size) == FlattenSeq([i \in DOMAIN refs |-> BE(refs[i], size)])

RECURSIVE add(_, _, _)

\* The objects of several values, the first of them number at, and their
\* numbers.
addAll(vs, at, size) ==
    FoldLeft(LAMBDA done, v :
                 LET ref == at + Len(done.objects)
                 IN  [objects |-> done.objects \o add(v, ref, size),
                      refs    |-> Append(done.refs, ref)],
             [objects |-> <<>>, refs |-> <<>>], vs)

\* Object number at, which is v, and the objects under it.
add(v, at, size) ==
    CASE v[1] = "Bool"  -> << <<IF v[2] THEN 9 ELSE 8>> >>
      [] v[1] = "Int"   -> << encodeInt(v[2]) >>
      [] v[1] = "Real"  -> << <<35>> \o v[2] >>
      [] v[1] = "Str"   -> << encodeMarkerLen(80, Len(v[2])) \o v[2] >>
      [] v[1] = "Utf16" -> << encodeMarkerLen(96, Len(v[2]))
                                  \o FlattenSeq([i \in DOMAIN v[2] |-> <<0, v[2][i]>>]) >>
      [] v[1] = "Data"  -> << encodeMarkerLen(64, Len(v[2])) \o v[2] >>
      [] v[1] = "Arr"   ->
            LET sub == addAll(v[2], at + 1, size)
            IN  << encodeMarkerLen(160, Len(v[2])) \o appendRefs(sub.refs, size) >>
                    \o sub.objects
      [] v[1] = "Dict"  ->
            LET sub == addAll(FlattenSeq([i \in DOMAIN v[2] |->
                                  << <<"Str", v[2][i][1]>>, v[2][i][2] >>]), at + 1, size)
            IN  << encodeMarkerLen(208, Len(v[2]))
                       \o appendRefs(RefOrder(sub.refs), size) >>
                    \o sub.objects

header == <<98, 112, 108, 105, 115, 116, 48, 48>>    \* bplist00

encode(root, layout) ==
    LET objects == add(root, 0, layout.refSize)
        \* where each object starts, and where the last one ends
        starts  == FoldLeft(LAMBDA s, o : Append(s, Last(s) + Len(o)), <<8>>, objects)
        offsets == SubSeq(starts, 1, Len(objects))
    IN  header \o FlattenSeq(objects)
            \o FlattenSeq([i \in DOMAIN offsets |-> BE(offsets[i], layout.offsetSize)])
            \o <<0, 0, 0, 0, 0, 0, layout.offsetSize, layout.refSize>>
            \o BE(Len(objects), 8) \o BE(0, 8) \o BE(Last(starts), 8)

----------------------------------------------------------------------------
(* Decoder.  Positions count from 0, as in the code. *)

\* n bytes at position at, as a number (its low 23 bits: the sizes, offsets and
\* references of the files here are smaller).
readBE(d, at, n) ==
    FoldLeft(LAMBDA v, b : (v * 256 + b) % 2^23, 0, SubSeq(d, at + 1, at + n))

\* The parsed trailer, or none.
parseTrailer(d) ==
    LET tr    == Len(d) - 32
        os    == d[tr + 7]
        rs    == d[tr + 8]
        num   == readBE(d, tr + 8, 8)
        start == readBE(d, tr + 24, 8)
        valid == {1, 2, 4, 8}
    IN  IF /\ Len(d) >= 8 + 32
           /\ SubSeq(d, 1, 8) = header
           /\ os \in valid /\ rs \in valid
           /\ start <= Len(d) /\ num <= Len(d) /\ num <= (Len(d) - start) \div os
        THEN <<[refSize |-> rs,
                offsets |-> [i \in 1..num |-> readBE(d, start + (i - 1) * os, os)]]>>
        ELSE none

TooDeep(depth) == depth > MaxDepth

\* A count, and where what is counted starts.
readCount(d, pos, lo) ==
    IF lo # 15 THEN [count |-> lo, pos |-> pos]
    ELSE LET n == 2^(d[pos + 1] % 16)
         IN  [count |-> readBE(d, pos + 1, n), pos |-> pos + 1 + n]

asStr(v) == IF v[1] = "Str" THEN v[2] ELSE <<>>

RECURSIVE object(_, _, _, _)

\* The objects that n references at position pos name, or none.
objects(d, t, pos, n, depth) ==
    LET subs == [i \in 1..n |->
                    object(d, t, readBE(d, pos + (i - 1) * t.refSize, t.refSize), depth)]
    IN  IF \E i \in 1..n : subs[i] = none THEN none
        ELSE <<[i \in 1..n |-> subs[i][1]]>>

\* Object number ref, or none.
object(d, t, ref, depth) ==
    IF TooDeep(depth) \/ ref >= Len(t.offsets) THEN none
    ELSE
    LET at     == t.offsets[ref + 1]
        marker == d[at + 1]
        hi     == marker \div 16
        lo     == marker % 16
        c      == readCount(d, at + 1, lo)
        fits   == c.count <= Len(d) /\ c.pos + c.count <= Len(d)
        bytes  == SubSeq(d, c.pos + 1, c.pos + c.count)
    IN  CASE hi = 0  -> << <<"Bool", marker = 9>> >>
          [] hi = 1  -> << <<"Int", BE(0, 8 - 2^lo) \o SubSeq(d, at + 2, at + 1 + 2^lo)>> >>
          [] hi = 2  -> << <<"Real", SubSeq(d, at + 2, at + 9)>> >>
          [] hi = 4  -> IF fits THEN << <<"Data", bytes>> >> ELSE none
          [] hi = 5  -> IF fits THEN << <<"Str", bytes>> >> ELSE none
          [] hi = 6  -> IF c.count > Len(d) THEN none
                        ELSE << <<"Str", [i \in 1..c.count |-> d[c.pos + 2 * i]]>> >>
          [] hi = 10 ->
                IF c.count > Len(t.offsets) \/ c.pos + c.count * t.refSize > Len(d) THEN none
                ELSE LET subs == objects(d, t, c.pos, c.count, depth + 1)
                     IN  IF subs = none THEN none ELSE << <<"Arr", subs[1]>> >>
          [] hi = 13 ->
                IF c.count > Len(t.offsets) \/ c.pos + 2 * c.count * t.refSize > Len(d)
                THEN none
                ELSE LET subs == objects(d, t, c.pos, 2 * c.count, depth + 1)
                     IN  IF subs = none THEN none
                         ELSE << <<"Dict", [i \in 1..c.count |->
                                    <<asStr(subs[1][i]), subs[1][c.count + i]>>]>> >>
          [] OTHER   -> none

decode(d) ==
    LET t == parseTrailer(d) IN IF t = none THEN none ELSE object(d, t[1], 0, 0)

\* The first entry of a dictionary with the key, or none.
find(v, key) ==
    IF v[1] # "Dict" THEN none
    ELSE LET i == SelectInSeq(v[2], LAMBDA e : e[1] = key)
         IN  IF i = 0 THEN none ELSE <<v[2][i][2]>>

----------------------------------------------------------------------------
(* Building a value *)

RECURSIVE Nesting(_)

\* How deep the objects of v lie under it; the keys of a dictionary are objects
\* too.
Nesting(v) ==
    CASE v[1] = "Arr"  -> Max({0} \cup {1 + Nesting(v[2][i]) : i \in DOMAIN v[2]})
      [] v[1] = "Dict" -> Max({0} \cup {1 + Nesting(v[2][i][2]) : i \in DOMAIN v[2]})
      [] OTHER         -> 0

Init == value \in Leaves \cup {<<"Arr", <<>> >>, <<"Dict", <<>> >>}

InArray == Nesting(value) < MaxNest /\ value' = <<"Arr", <<value>> >>

InDict ==
    /\ Nesting(value) < MaxNest
    /\ \E key \in Keys : value' = <<"Dict", << <<key, value>> >> >>

Joins(leaf, front) ==
    /\ value[1] \in {"Arr", "Dict"} /\ Len(value[2]) < MaxWidth
    /\ \E key \in Keys :
          LET new == IF value[1] = "Arr" THEN leaf ELSE <<key, leaf>>
          IN  value' = [value EXCEPT ![2] = IF front THEN <<new>> \o @ ELSE Append(@, new)]

Next == InArray \/ InDict \/ Joins(First, TRUE) \/ Joins(Second, FALSE)

Spec == Init /\ [][Next]_value

----------------------------------------------------------------------------
(* Properties *)

\* Type invariant: what encode writes are bytes, with a trailer decode accepts.
TypeOK ==
    \A layout \in Layouts \cup {sender} :
        \E d \in {encode(value, layout)} :
            /\ \A i \in DOMAIN d : d[i] \in 0..255
            /\ parseTrailer(d) # none

RECURSIVE Ascii(_)

\* v as the sender sees it: no string in UTF-16.
Ascii(v) ==
    CASE v[1] = "Utf16" -> <<"Str", v[2]>>
      [] v[1] = "Arr"   -> <<"Arr", [i \in DOMAIN v[2] |-> Ascii(v[2][i])]>>
      [] v[1] = "Dict"  -> <<"Dict", [i \in DOMAIN v[2] |-> <<v[2][i][1], Ascii(v[2][i][2])>>]>>
      [] OTHER          -> v

\* What one side encodes, in any layout, the other decodes to the same value, and
\* finds under a key the first value it was given; a value nested deeper than
\* decode reads is refused whole.
RoundTrip ==
    \A layout \in Layouts \cup {sender} :
        \E got \in {decode(encode(value, layout))} :
            IF Nesting(value) > MaxDepth THEN got = none
            ELSE /\ got = <<Ascii(value)>>
                 /\ \A key \in Keys : find(got[1], key) = find(Ascii(value), key)

=============================================================================
