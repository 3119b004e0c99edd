-------------------------- MODULE MCFbootPublisher --------------------------
(* Two blocks, a file for each of the ways to parse: all of it, none of    *)
(* it, a part, whose block is started before it is created; and one that   *)
(* has a block twice.  An answer of two symbols is shorter than a chunk of *)
(* six, one of three is a whole chunk, one of four needs two reads.        *)
EXTENDS FbootPublisher, TLC

CONSTANTS both, twice, part, bad

Group(n, d) == [name |-> n, defect |-> d, actions |-> <<"CREATE", "START">>]
A == 65
B == 66

MCNames == {A, B}
MCFiles == {both, twice, part, bad}
MCGroups == (both :> <<Group(A, "none"), Group(B, "none")>>)
         @@ (twice :> <<Group(A, "none"), Group(A, "none")>>)
         @@ (part :> <<Group(A, "garbled"),
                        [Group(B, "none") EXCEPT !.actions = <<"START", "CREATE">>]>>)
         @@ (bad :> <<Group(A, "none"), Group(B, "error")>>)

(* A command is read back whole up to the largest length that two bytes    *)
(* hold, and comes back as something else beyond it.                       *)
Text(n, c) == [i \in 1 .. n |-> c]
ReadBack(n, m) ==
    Deserialize(SerializeAsString(Text(n, A), Text(m, B)))
        = [threw |-> FALSE, content |-> Text(m, B) \o Text(n, A)]

ASSUME LengthAssumption ==
    LET limit == ByteBase * ByteBase
    IN /\ \A n \in {0, 1, ByteBase - 1, ByteBase, limit - 1}, m \in {0, ByteBase + 1} :
              ReadBack(n, m)
       /\ ~ReadBack(limit, 0)
=============================================================================
