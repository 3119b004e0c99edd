----------------------------- MODULE FBDKASN1Com -----------------------------
(***************************************************************************)
(* The FBDK ASN.1 encoding of the runtime's management protocol, as        *)
(* FBDKASN1ComSerializer writes and reads it: a string is its tag, its     *)
(* length in two bytes and its characters, and a command is two strings,   *)
(* the resource it is for and the request.                                 *)
(***************************************************************************)
EXTENDS Integers, Sequences

CONSTANT ByteBase    \* what a length byte can hold: 256

ASSUME ByteAssumption == ByteBase \in Nat /\ ByteBase > 1

(* Members of EASN1TagClass, EASN1EncodingType and EDataTypeTags. *)
e_APPLICATION == 64
e_CONSTRUCTED == 32
e_STRING_TAG == 16

(* csmADataTags of a string; the encoding is primitive, which adds nothing. *)
GetTagCode == e_APPLICATION + e_STRING_TAG

(* type & ~e_APPLICATION & ~e_CONSTRUCTED *)
Without(bit, type) == IF (type \div bit) % 2 = 1 THEN type - bit ELSE type
AppType(type) == Without(e_CONSTRUCTED, Without(e_APPLICATION, type))

High(n) == (n \div ByteBase) % ByteBase
Low(n) == n % ByteBase
Length(high, low) == high * ByteBase + low

EncodeString(s) == <<GetTagCode, High(Len(s)), Low(Len(s))>> \o s

SerializeAsString(payload, sResIdent) ==
    EncodeString(sResIdent) \o EncodeString(payload)

(* An index beyond the end; the content is flushed before the next use. *)
OutOfRange == [threw |-> TRUE, content |-> <<>>]

(* A plausible error: a string that ends too early is taken as it is. *)
DeserializeWhatIsThere(bytes) ==
    LET From[i \in Nat] ==
            IF i + 2 > Len(bytes) THEN [threw |-> FALSE, content |-> <<>>]
            ELSE LET last == i + 2 + Length(bytes[i + 1], bytes[i + 2])
                     end == IF last > Len(bytes) THEN Len(bytes) ELSE last
                 IN [From[last + 1] EXCEPT !.content = SubSeq(bytes, i + 3, end) \o @]
    IN From[1]

(***************************************************************************)
(* Deserialize, and what the consumer then has: the characters of all the  *)
(* strings in bytes.  Take() cuts a chunk that is shorter than announced,  *)
(* and the index is then beyond the end at the next turn.                  *)
(***************************************************************************)
Deserialize(bytes) ==
    LET From[i \in Nat] ==
            IF i = Len(bytes) + 1 THEN [threw |-> FALSE, content |-> <<>>]
            ELSE IF i + 2 > Len(bytes) THEN OutOfRange
            ELSE LET last == i + 2 + Length(bytes[i + 1], bytes[i + 2])
                     rest == From[last + 1]
                 IN IF rest.threw \/ AppType(bytes[i]) # e_STRING_TAG THEN rest
                    ELSE [rest EXCEPT !.content = SubSeq(bytes, i + 3, last) \o @]
    IN From[1]
=============================================================================
