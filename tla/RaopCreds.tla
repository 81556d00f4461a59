----------------------------- MODULE RaopCreds ------------------------------
(***************************************************************************)
(* The stored pairing (raop_creds.h): raopCredsToJson writes it, the host  *)
(* keeps the text between runs, raopCredsFromJson reads it back.  In       *)
(* between the text may be edited by hand or by another program that keeps *)
(* its meaning as JSON, or be cut off by a crash while it is written.      *)
(*                                                                         *)
(* Characters are their ASCII codes.  The names of the four fields are one *)
(* character each: the reader only compares them.                          *)
(***************************************************************************)
EXTENDS Naturals, Sequences, SequencesExt, FiniteSetsExt

CONSTANTS
    Creds,      \* the pairings stored
    Foreign,    \* members of other programs: records [key, text]
    MaxEdits    \* bound on the edits of one text

VARIABLES
    creds,      \* the pairing that was stored
    members,    \* the members of the object, in order: records [key, text]
    blank,      \* is there whitespace between the tokens?
    edits,
    text        \* what the host has stored

vars == <<creds, members, blank, edits, text>>

none == <<>>

atvId == <<105>>
clientId == <<99>>
ltpk == <<112>>
ltsk == <<115>>
Fields == {atvId, clientId, ltpk, ltsk}

quote == 34
backslash == 92
Ch == [colon |-> 58, comma |-> 44, open |-> 123, close |-> 125, lbrack |-> 91, rbrack |-> 93]
Blanks == {32, 9, 10, 13}

----------------------------------------------------------------------------
(* Writing *)

kHex(n) == IF n < 10 THEN 48 + n ELSE 87 + n

raopHexEncode(bytes) ==
    FlattenSeq([i \in DOMAIN bytes |-> <<kHex(bytes[i] \div 16), kHex(bytes[i] % 16)>>])

Escaped(c) ==
    CASE c \in {quote, backslash} -> <<backslash, c>>
      [] c = 10 -> <<backslash, 110>>
      [] c = 13 -> <<backslash, 114>>
      [] c = 9  -> <<backslash, 116>>
      [] c < 32 /\ c \notin {9, 10, 13} ->
            <<backslash, 117, 48, 48, kHex(c \div 16), kHex(c % 16)>>
      [] OTHER  -> <<c>>

Quoted(s) == <<quote>> \o s \o <<quote>>

jsonEscape(s) == FlattenSeq([i \in DOMAIN s |-> Escaped(s[i])])

\* The members in the order of the writer.
Written(c) ==
    << [key |-> atvId,    text |-> Quoted(raopHexEncode(c.atvId))],
       [key |-> clientId, text |-> Quoted(jsonEscape(c.clientId))],
       [key |-> ltpk,     text |-> Quoted(raopHexEncode(c.ltpk))],
       [key |-> ltsk,     text |-> Quoted(raopHexEncode(c.ltsk))] >>

Text(ms, spaced) ==
    LET sp == IF spaced THEN <<10, 32>> ELSE <<>>
        member(i) == sp \o Quoted(ms[i].key) \o sp \o <<Ch.colon>> \o sp \o ms[i].text \o sp
    IN  sp \o <<Ch.open>>
           \o FlattenSeq([i \in DOMAIN ms |->
                 (IF i > 1 THEN <<Ch.comma>> ELSE <<>>) \o member(i)])
           \o <<Ch.close>> \o sp

raopCredsToJson(c) == Text(Written(c), FALSE)

----------------------------------------------------------------------------
(* Reading.  A cursor is a position, from 1; 0 says that parsing failed. *)

ws(s, i) ==
    LET after == {j \in i..Len(s) : \A k \in i..j : s[k] \in Blanks}
    IN  IF after = {} THEN i ELSE Max(after) + 1

\* The position after the character c, or 0.
eat(s, i, c) ==
    LET j == ws(s, i) IN IF j <= Len(s) /\ s[j] = c THEN j + 1 ELSE 0

nib(c) ==
    CASE c \in 48..57  -> <<c - 48>>
      [] c \in 97..102 -> <<c - 87>>
      [] c \in 65..70  -> <<c - 55>>
      [] OTHER         -> none

HexBytes(hex) ==
    [i \in 1..Len(hex) \div 2 |-> 16 * nib(hex[2 * i - 1])[1] + nib(hex[2 * i])[1]]

\* Mutant: the digit left over is dropped.
raopHexDecode_Odd(hex) ==
    IF \E i \in DOMAIN hex : nib(hex[i]) = none THEN none ELSE <<HexBytes(hex)>>

raopHexDecode(hex) ==
    IF Len(hex) % 2 # 0 \/ \E i \in DOMAIN hex : nib(hex[i]) = none THEN none
    ELSE <<HexBytes(hex)>>

\* The one-character escapes.
Escapes == { <<quote, quote>>, <<backslash, backslash>>, <<47, 47>>, <<98, 8>>,
             <<102, 12>>, <<110, 10>>, <<114, 13>>, <<116, 9>> }

\* The bytes of a code point in UTF-8.
Utf8(cp) ==
    CASE cp < 128 -> <<cp>>
      [] cp >= 128 /\ cp < 2048 -> <<192 + (cp \div 64), 128 + (cp % 64)>>
      [] OTHER -> <<224 + (cp \div 4096), 128 + ((cp \div 64) % 64), 128 + (cp % 64)>>

Failed == [pos |-> 0, val |-> <<>>]

RECURSIVE rest(_, _, _)

\* The rest of a string from position i on, after out.
rest(s, i, out) ==
    IF i > Len(s) THEN Failed
    ELSE IF s[i] = quote THEN [pos |-> i + 1, val |-> out]
    ELSE IF s[i] # backslash THEN rest(s, i + 1, Append(out, s[i]))
    ELSE IF i + 1 > Len(s) THEN Failed
    ELSE IF \E e \in Escapes : e[1] = s[i + 1]
         THEN rest(s, i + 2, Append(out, (CHOOSE e \in Escapes : e[1] = s[i + 1])[2]))
    ELSE IF s[i + 1] = 117 /\ i + 5 <= Len(s) /\ \A k \in i + 2..i + 5 : nib(s[k]) # none
         THEN rest(s, i + 6, out \o Utf8(FoldLeft(LAMBDA cp, c : 16 * cp + nib(c)[1], 0,
                                                  SubSeq(s, i + 2, i + 5))))
    ELSE Failed

\* A string at the cursor.
str(s, i) ==
    LET j == ws(s, i)
    IN  IF j > Len(s) \/ s[j] # quote THEN Failed ELSE rest(s, j + 1, <<>>)

RECURSIVE nested(_, _, _, _)

\* The position after the object or array that is depth levels open, or 0.
nested(s, i, depth, inStr) ==
    IF i > Len(s) THEN 0
    ELSE IF inStr
         THEN nested(s, IF s[i] = backslash THEN i + 2 ELSE i + 1, depth, s[i] # quote)
    ELSE IF s[i] = quote THEN nested(s, i + 1, depth, TRUE)
    ELSE IF s[i] \in {Ch.open, Ch.lbrack} THEN nested(s, i + 1, depth + 1, FALSE)
    ELSE IF s[i] \in {Ch.close, Ch.rbrack}
         THEN IF depth = 1 THEN i + 1 ELSE nested(s, i + 1, depth - 1, FALSE)
    ELSE nested(s, i + 1, depth, FALSE)

\* Mutant: a nested value is skipped like a number.
skipValue_Flat(s, i) ==
    LET j    == ws(s, i)
        ends == {k \in j..Len(s) : s[k] \in {Ch.comma, Ch.close, Ch.rbrack}}
    IN  IF j > Len(s) THEN 0
        ELSE IF s[j] = quote THEN str(s, j).pos
        ELSE IF ends = {} THEN Len(s) + 1 ELSE Min(ends)

\* The position after a value of any type, or 0.
skipValue(s, i) ==
    LET j    == ws(s, i)
        ends == {k \in j..Len(s) : s[k] \in {Ch.comma, Ch.close, Ch.rbrack}}
    IN  IF j > Len(s) THEN 0
        ELSE IF s[j] = quote THEN str(s, j).pos
        ELSE IF s[j] \in {Ch.open, Ch.lbrack} THEN nested(s, j, 0, FALSE)
        ELSE IF ends = {} THEN Len(s) + 1 ELSE Min(ends)

RECURSIVE object(_, _, _)

\* The fields the object holds from position i on, added to got; none if the
\* text is no object.
object(s, i, got) ==
    LET key   == str(s, i)
        value == eat(s, key.pos, Ch.colon)
        known == key.val \in Fields
        val   == str(s, value)
        end   == IF known THEN val.pos ELSE skipValue(s, value)
        found == IF known THEN [got EXCEPT ![key.val] = <<val.val>>] ELSE got
        comma == eat(s, end, Ch.comma)
    IN  IF key.pos = 0 \/ value = 0 \/ end = 0 THEN none
        ELSE IF comma # 0 THEN object(s, comma, found)
        ELSE IF eat(s, end, Ch.close) # 0 THEN <<found>>
        ELSE none

raopCredsFromJson(json) ==
    LET open == eat(json, 1, Ch.open)
        none4 == [f \in Fields |-> none]
        got  == IF open = 0 THEN none
                ELSE IF eat(json, open, Ch.close) # 0 THEN <<none4>>
                ELSE object(json, open, none4)
        hex(f) == raopHexDecode(got[1][f][1])
    IN  IF got = none \/ \E f \in Fields : got[1][f] = none THEN none
        ELSE IF \E f \in Fields \ {clientId} : hex(f) = none THEN none
        ELSE <<[atvId |-> hex(atvId)[1], clientId |-> got[1][clientId][1],
                ltpk |-> hex(ltpk)[1], ltsk |-> hex(ltsk)[1]]>>

----------------------------------------------------------------------------
(* What happens to the text *)

Init ==
    /\ creds \in Creds
    /\ members = Written(creds) /\ blank = FALSE /\ edits = 0
    /\ text = raopCredsToJson(creds)

Edit(ms, spaced) ==
    /\ edits < MaxEdits /\ text = Text(members, blank)
    /\ members' = ms /\ blank' = spaced /\ edits' = edits + 1
    /\ text' = Text(ms, spaced)
    /\ UNCHANGED creds

Reformat == ~blank /\ Edit(members, TRUE)

Reorder == \E i \in 1..Len(members) - 1 :
    Edit([members EXCEPT ![i] = members[i + 1], ![i + 1] = members[i]], blank)

AddMember == \E m \in Foreign, i \in 0..Len(members) : Edit(InsertAt(members, i + 1, m), blank)

Upper(c) == IF c \in 97..102 THEN c - 32 ELSE c

Capitals == \E i \in DOMAIN members :
    /\ members[i].key \in Fields \ {clientId}
    /\ Edit([members EXCEPT ![i].text = [k \in DOMAIN @ |-> Upper(@[k])]], blank)

\* The text breaks off before character n.
Cut == \E n \in 1..Len(text) :
    /\ text = Text(members, blank)
    /\ text' = SubSeq(text, 1, n - 1)
    /\ UNCHANGED <<creds, members, blank, edits>>

\* One character of a key is lost.
LoseDigit == \E i \in DOMAIN members :
    /\ text = Text(members, blank) /\ members[i].key \in {ltsk, ltpk}
    /\ Len(members[i].text) > 2
    /\ text' = Text([members EXCEPT ![i].text = <<Head(@)>> \o SubSeq(@, 3, Len(@))], blank)
    /\ UNCHANGED <<creds, members, blank, edits>>

Next == Reformat \/ Reorder \/ AddMember \/ Capitals \/ Cut \/ LoseDigit

Spec == Init /\ [][Next]_vars

----------------------------------------------------------------------------
(* Properties *)

\* Type invariant: the text is printable but for the whitespace between tokens.
TypeOK ==
    /\ creds \in Creds /\ blank \in BOOLEAN /\ edits \in 0..MaxEdits
    /\ \A i \in DOMAIN text : text[i] \in 32..126 \cup (IF blank THEN Blanks ELSE {})

\* As long as nothing is lost the text loads as the pairing that was stored,
\* whatever its order, spacing, case and other members.
EditsHarmless ==
    text = Text(members, blank) => raopCredsFromJson(text) = <<creds>>

\* A text that lost its end or a character of a key is refused: it never loads as
\* another pairing. (Only whitespace after the object may be missing.)
DamageRefused ==
    \/ text = Text(members, blank)
    \/ raopCredsFromJson(text) = none
    \/ raopCredsFromJson(text) = <<creds>> /\ Last(text) \in {Ch.close} \cup Blanks

=============================================================================
