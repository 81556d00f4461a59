------------------------------ MODULE MCCrypto ------------------------------
(* Small instances of what airplay_crypto.cpp and raop_creds.h compute: the  *)
(* pairing, the TLV8 and property list encodings and the stored credentials. *)
(* A behaviour exercises one part: the pairing stays as it starts in the      *)
(* others, and the variables of a codec are unused.                          *)
EXTENDS HapPairing

VARIABLES
    part,
    items,                                  \* Tlv8
    value,                                  \* BPlist
    stored, members, blank, edits, text     \* RaopCreds

storedVars == <<stored, members, blank, edits, text>>

unused == <<>>
NoPairing == Init /\ ~rcv.transientOk /\ ~rcv.pinOk
NoTlv     == items = unused
NoPlist   == value = unused
NoStored  == /\ stored = unused /\ members = unused /\ blank = unused /\ edits = unused
             /\ text = unused

----------------------------------------------------------------------------

\* Small hashes: exponents of the group of order 22 modulo 23.
MCHu(A, B) == (3 * A + 5 * B) % 11
MCHx(salt, pin) == ((7 * salt + 4 * pin) % 11) + 1

\* Fragments of 3 bytes instead of 255, values of up to three fragments.
Tlv == INSTANCE Tlv8 WITH Tags <- {0, 6}, MaxChunk <- 3, MaxItems <- 3, MaxLen <- 7

Zeros(n) == [i \in 1..n |-> 0]
Run(n) == [i \in 1..n |-> i % 256]

\* Integers at the edges of the four widths, and a negative one; contents with
\* lengths around the one that no longer fits into the marker.
MCLeaves ==
    {<<"Bool", TRUE>>, <<"Bool", FALSE>>, <<"Real", Run(8)>>,
     <<"Int", Zeros(8)>>, <<"Int", Zeros(7) \o <<255>> >>,
     <<"Int", Zeros(5) \o <<1, 0, 0>> >>, <<"Int", Zeros(3) \o <<1, 0, 0, 0, 0>> >>,
     <<"Int", [i \in 1..8 |-> 255]>>,
     <<"Data", <<>> >>, <<"Data", Run(15)>>, <<"Data", Run(260)>>,
     <<"Str", <<65>> >>, <<"Str", Run(16)>>, <<"Utf16", <<65, 66>> >>}

Plist == INSTANCE BPlist WITH
    Leaves <- MCLeaves,
    First <- <<"Int", Zeros(6) \o <<1, 0>> >>, Second <- <<"Utf16", <<65, 66>> >>,
    Keys <- {<<107>>, Run(15)},
    Layouts <- {[offsetSize |-> 2, refSize |-> 1], [offsetSize |-> 4, refSize |-> 2]},
    MaxDepth <- 2, MaxWidth <- 2, MaxNest <- 3

quote == 34
backslash == 92

\* Keys of two bytes; an identifier with every kind of character that is escaped.
MCCreds ==
    { [atvId |-> <<>>, clientId |-> <<65, 45, 97>>, ltpk |-> <<171, 9>>, ltsk |-> <<16, 255>>],
      [atvId |-> <<76>>, clientId |-> <<quote, 98, backslash, 10, 1>>,
       ltpk |-> <<13, 14>>, ltsk |-> <<13, 14>>] }

\* "x":{"i":["}\"",{}]}  and  "y":-1  and  "z":"\u00e9,"
MCForeign ==
    { [key |-> <<120>>, text |-> <<123, quote, 105, quote, 58, 91, quote, 125, backslash, quote,
                                   quote, 44, 123, 125, 93, 125>>],
      [key |-> <<121>>, text |-> <<45, 49>>],
      [key |-> <<122>>, text |-> <<quote, backslash, 117, 48, 48, 101, 57, 44, quote>>] }

Stored == INSTANCE RaopCreds WITH
    Creds <- MCCreds, Foreign <- MCForeign, MaxEdits <- 2, creds <- stored

ASSUME InstancesAssumption == Tlv!SizesAssumption

----------------------------------------------------------------------------

CryptoInit ==
    \/ part = "pairing" /\ Init /\ NoTlv /\ NoPlist /\ NoStored
    \/ part = "tlv" /\ Tlv!Init /\ NoPairing /\ NoPlist /\ NoStored
    \/ part = "plist" /\ Plist!Init /\ NoPairing /\ NoTlv /\ NoStored
    \/ part = "stored" /\ Stored!Init /\ NoPairing /\ NoTlv /\ NoPlist

CryptoNext ==
    /\ \/ part = "pairing" /\ Next /\ UNCHANGED <<items, value, storedVars>>
       \/ part = "tlv" /\ Tlv!Next /\ UNCHANGED <<vars, value, storedVars>>
       \/ part = "plist" /\ Plist!Next /\ UNCHANGED <<vars, items, storedVars>>
       \/ part = "stored" /\ Stored!Next /\ UNCHANGED <<vars, items, value>>
    /\ UNCHANGED part

CryptoSpec == CryptoInit /\ [][CryptoNext]_<<part, vars, items, value, storedVars>>

----------------------------------------------------------------------------

\* Decoding gives back what was encoded: TLV8 items, a beginning of them when the
\* message is cut off; a property list in the sender's layout and in those of a
\* receiver, unless it is refused for its depth; the stored credentials after any
\* harmless edit, and after damage those or none (tlv::decode, bplist::decode,
\* raopCredsFromJson).
CodecsInvert ==
    CASE part = "tlv"     -> Tlv!TypeOK /\ Tlv!RoundTrip /\ Tlv!CutIsBeginning
      [] part = "plist"   -> Plist!TypeOK /\ Plist!RoundTrip
      [] part = "stored"  -> Stored!TypeOK /\ Stored!EditsHarmless /\ Stored!DamageRefused
      [] part = "pairing" -> TRUE
=============================================================================
