-------------------------------- MODULE Tlv8 --------------------------------
(***************************************************************************)
(* HomeKit TLV8 (namespace tlv of airplay_crypto.cpp): what tlv::encode    *)
(* makes of a list of items, and what tlv::decode and tlv::get make of     *)
(* the bytes, all of them or those that arrived.  The state is the list,   *)
(* built item by item.                                                     *)
(***************************************************************************)
EXTENDS Naturals, Sequences, SequencesExt

CONSTANTS
    Tags,
    MaxChunk,    \* 255, the longest fragment
    MaxItems,    \* bound on the items
    MaxLen       \* bound on the length of a value

SizesAssumption == Tags \subseteq Nat /\ MaxChunk \in Nat \ {0}

VARIABLE items    \* tlv::Map

Item(tag, value) == [tag |-> tag, value |-> value]

\* Fragment i of value, from 0.
Fragment(value, i) ==
    SubSeq(value, i * MaxChunk + 1,
           IF (i + 1) * MaxChunk < Len(value) THEN (i + 1) * MaxChunk ELSE Len(value))

\* Mutant: an empty value has no fragment.
Fragments_While(value) == (Len(value) + MaxChunk - 1) \div MaxChunk

\* An empty value still makes one record.
Fragments(value) ==
    IF value = <<>> THEN 1 ELSE (Len(value) + MaxChunk - 1) \div MaxChunk

encode(map) ==
    FlattenSeq([n \in DOMAIN map |->
        FlattenSeq([i \in 1..Fragments(map[n].value) |->
            LET f == Fragment(map[n].value, i - 1)
            IN  <<map[n].tag, Len(f)>> \o f])])

\* Is there a whole record at position i?
Whole(data, i) == i + 1 <= Len(data) /\ i + 1 + data[i + 1] <= Len(data)

\* Mutant: a record that is cut off is kept as far as it goes.
Records_Clamped(data) ==
    LET from[i \in 1..Len(data) + 1] ==
            IF i + 1 <= Len(data)
            THEN LET end == Min({i + 1 + data[i + 1], Len(data)})
                 IN  <<Item(data[i], SubSeq(data, i + 2, end))>> \o from[end + 1]
            ELSE <<>>
    IN  from[1]

Records(data) ==
    LET from[i \in 1..Len(data) + 1] ==
            IF Whole(data, i)
            THEN LET end == i + 1 + data[i + 1]
                 IN  <<Item(data[i], SubSeq(data, i + 2, end))>> \o from[end + 1]
            ELSE <<>>
    IN  from[1]

\* A record with the tag of the one before continues its value.
Join(map, r) ==
    IF map # <<>> /\ Last(map).tag = r.tag
    THEN [map EXCEPT ![Len(map)].value = @ \o r.value]
    ELSE Append(map, r)

decode(data) == FoldLeft(Join, <<>>, Records(data))

\* The first item with the tag, as a sequence of at most one value.
get(map, tag) ==
    LET i == SelectInSeq(map, LAMBDA r : r.tag = tag)
    IN  IF i = 0 THEN <<>> ELSE <<map[i].value>>

----------------------------------------------------------------------------

Init == items = <<>>

\* Values whose bytes look like tags and lengths.
Add(tag, len) ==
    /\ Len(items) < MaxItems
    /\ items' = Append(items, Item(tag, [i \in 1..len |-> i % (MaxChunk + 1)]))

Next == \E tag \in Tags, len \in 0..MaxLen : Add(tag, len)

Spec == Init /\ [][Next]_items

----------------------------------------------------------------------------
(* Properties. *)

\* Type invariant: the lengths on the wire are bytes.
TypeOK ==
    /\ items \in Seq([tag : Tags, value : Seq(0..MaxChunk)]) /\ Len(items) <= MaxItems
    /\ \A i \in DOMAIN encode(items) : encode(items)[i] \in Tags \cup 0..MaxChunk

\* No message of the pairing has two items of one tag in a row.
Proper == \A i \in 1..Len(items) - 1 : items[i].tag # items[i + 1].tag

\* decode inverts encode for every length of value: empty, one fragment, exactly
\* full fragments, one byte more.
RoundTrip ==
    Proper => /\ decode(encode(items)) = items
              /\ \A tag \in Tags : get(decode(encode(items)), tag) = get(items, tag)

\* A message cut off anywhere decodes to a beginning of what was sent: whole
\* items, the last one perhaps short of some whole fragments, never a value
\* that breaks off inside a fragment.
CutIsBeginning ==
    Proper => \A n \in 0..Len(encode(items)) :
        \E got \in {decode(SubSeq(encode(items), 1, n))} :
            /\ Len(got) <= Len(items)
            /\ \A i \in 1..Len(got) :
                  /\ got[i].tag = items[i].tag
                  /\ IsPrefix(got[i].value, items[i].value)
                  /\ \/ got[i].value = items[i].value
                     \/ /\ i = Len(got)
                        /\ got[i].value # <<>>
                        /\ Len(got[i].value) % MaxChunk = 0

=============================================================================
