------------------------ MODULE FbootPublisher_proofs ------------------------
(***************************************************************************)
(* Proofs about FbootPublisher, for any files, blocks, chunk size and base *)
(* of the length bytes, in this order:                                     *)
(*                                                                         *)
(*   1. the codec: a command is read back whole, and what is read of a     *)
(*      stream of answers is a rejected part of it, or whole answers;      *)
(*   2. the commands of a file: where each stands in the flattened list;   *)
(*   3. the types and Execute()'s own state (TypeInv);                     *)
(*   4. what was read and what is unread are whole answers (StreamInv);    *)
(*   5. every request comes from the file it was published for (OriginInv); *)
(*   6. as long as answers are not late there is one request or answer at  *)
(*      a time, and after the query's the runtime's blocks are known       *)
(*      (PromptInv);                                                       *)
(*   7. before a block is created, what removes it was asked for (SafeInv); *)
(*   8. what becomes of every block of the file (LoadInv).                 *)
(*                                                                         *)
(* Deserialize and FlattenSeq are functions defined by recursion.  The     *)
(* facts about them are proved by induction over a set of naturals that    *)
(* has 0 and every successor (SetInduction).                               *)
(***************************************************************************)
EXTENDS FbootPublisher, SequenceTheorems, FiniteSetTheorems, WellFoundedInduction, TLAPS

-----------------------------------------------------------------------------
(***************************************************************************)
(* Induction over the naturals, for sets instead of predicates.            *)
(***************************************************************************)
LEMMA SetInduction ==
  ASSUME NEW S, 0 \in S, \A n \in Nat : n \in S => n + 1 \in S
  PROVE  Nat \subseteq S
<1> DEFINE T == Nat \ S
           R == OpToRel(<, Nat)
<1> SUFFICES ASSUME T # {} PROVE FALSE
  OBVIOUS
<1>1. IsWellFoundedOn(R, Nat)
  BY NatLessThanWellFounded
<1>2. \E x \in T : \A y \in T : <<y, x>> \notin R
  <2> HIDE DEF R
  <2>1. T \subseteq Nat
    OBVIOUS
  <2> HIDE DEF T
  <2>2. QED
    BY <1>1, <2>1, WFMin
<1>3. \E x \in T : \A y \in T : ~(y < x)
  BY <1>2 DEF OpToRel
<1>4. QED
  BY <1>3

(***************************************************************************)
(* Deserialize is well defined: one turn of the loop uses what the turns   *)
(* further on return, and beyond the end every turn throws.                *)
(***************************************************************************)
Turn(bytes, From, i) ==
    IF i = Len(bytes) + 1 THEN [threw |-> FALSE, content |-> <<>>]
    ELSE IF i + 2 > Len(bytes) THEN OutOfRange
    ELSE LET last == i + 2 + Length(bytes[i + 1], bytes[i + 2])
             rest == From[last + 1]
         IN IF rest.threw \/ AppType(bytes[i]) # e_STRING_TAG THEN rest
            ELSE [rest EXCEPT !.content = SubSeq(bytes, i + 3, last) \o @]

Results == [threw : BOOLEAN, content : Seq(Nat)]

LEMMA LengthType ==
  ASSUME NEW high \in Nat, NEW low \in Nat
  PROVE  Length(high, low) \in Nat
BY ByteAssumption DEF Length

LEMMA TurnType ==
  ASSUME NEW bytes \in Seq(Nat), NEW From, NEW i \in Nat,
         \A j \in Nat : j > i => From[j] \in Results,
         \A j \in Nat : j > Len(bytes) + 1 => From[j] = OutOfRange
  PROVE  Turn(bytes, From, i) \in Results
<1> DEFINE last == i + 2 + Length(bytes[i + 1], bytes[i + 2])
<1>1. CASE i + 2 > Len(bytes)
  BY <1>1 DEF Turn, Results, OutOfRange
<1>2. CASE i + 2 <= Len(bytes)
  <2>1. bytes[i + 1] \in Nat /\ bytes[i + 2] \in Nat
    BY <1>2
  <2>2. last \in Nat /\ last >= i + 2
    <3>1. Length(bytes[i + 1], bytes[i + 2]) \in Nat
      BY <2>1, LengthType
    <3>2. QED
      BY <3>1
  <2> HIDE DEF last
  <2>3. From[last + 1] \in Results
    BY <2>2
  <2>4. CASE From[last + 1].threw \/ AppType(bytes[i]) # e_STRING_TAG
    BY <1>2, <2>3, <2>4 DEF Turn, last
  <2>5. CASE ~From[last + 1].threw /\ AppType(bytes[i]) = e_STRING_TAG
    <3>1. last <= Len(bytes)
      BY <2>2, <2>5 DEF OutOfRange
    <3>2. SubSeq(bytes, i + 3, last) \in Seq(Nat)
      BY <3>1, <2>2
    <3>3. SubSeq(bytes, i + 3, last) \o From[last + 1].content \in Seq(Nat)
      <4>1. From[last + 1].content \in Seq(Nat)
        BY <2>3 DEF Results
      <4>2. QED
        BY <3>2, <4>1, ConcatProperties
    <3>4. Turn(bytes, From, i) =
            [From[last + 1] EXCEPT !.content = SubSeq(bytes, i + 3, last) \o @]
      BY <1>2, <2>5 DEF Turn, last
    <3>5. QED
      BY <3>3, <3>4, <2>3 DEF Results
  <2>6. QED
    BY <2>4, <2>5
<1>3. QED
  BY <1>1, <1>2

(* The turns from the i-th on are those of the loop. *)
TurnsFrom(bytes, From, i) ==
    \A j \in Nat : j >= i => From[j] = Turn(bytes, From, j)

LEMMA FromExists ==
  ASSUME NEW bytes \in Seq(Nat)
  PROVE  \E From \in [Nat -> Results] : From = [i \in Nat |-> Turn(bytes, From, i)]
<1> DEFINE L == Len(bytes) + 2
           S == {k \in Nat : \E From \in [Nat -> Results] : TurnsFrom(bytes, From, L - k)}
<1>0. L \in Nat
  OBVIOUS
<1>1. 0 \in S
  <2> DEFINE F == [i \in Nat |-> OutOfRange]
  <2>1. F \in [Nat -> Results]
    BY DEF OutOfRange, Results
  <2>2. TurnsFrom(bytes, F, L)
    BY DEF TurnsFrom, Turn
  <2>3. QED
    BY <2>1, <2>2
<1>2. ASSUME NEW k \in Nat, k \in S PROVE k + 1 \in S
  <2>1. PICK F \in [Nat -> Results] : TurnsFrom(bytes, F, L - k)
    BY <1>2
  <2>2. \A j \in Nat : j > Len(bytes) + 1 => F[j] = OutOfRange
    BY <2>1 DEF TurnsFrom, Turn
  <2> DEFINE m == L - (k + 1)
  <2>3. CASE m \notin Nat
    <3>1. \A j \in Nat : j >= L - (k + 1) => j >= L - k
      BY <2>3
    <3>2. TurnsFrom(bytes, F, L - (k + 1))
      BY <2>1, <3>1 DEF TurnsFrom
    <3>3. QED
      BY <3>2
  <2>4. CASE m \in Nat
    <3> DEFINE G == [F EXCEPT ![m] = Turn(bytes, F, m)]
    <3>1. Turn(bytes, F, m) \in Results
      BY <2>2, <2>4, TurnType
    <3>2. G \in [Nat -> Results]
      BY <3>1
    <3>3. ASSUME NEW j \in Nat, j >= m PROVE Turn(bytes, G, j) = Turn(bytes, F, j)
      <4> DEFINE last == j + 2 + Length(bytes[j + 1], bytes[j + 2])
      <4>1. CASE j + 2 > Len(bytes)
        BY <4>1 DEF Turn
      <4>2. CASE j + 2 <= Len(bytes)
        <5>1. last \in Nat /\ last >= j + 2
          <6>1. bytes[j + 1] \in Nat /\ bytes[j + 2] \in Nat
            BY <4>2
          <6>2. Length(bytes[j + 1], bytes[j + 2]) \in Nat
            BY <6>1, LengthType
          <6>3. QED
            BY <6>2
        <5> HIDE DEF last
        <5>2. last + 1 # m /\ last + 1 \in Nat
          BY <5>1, <3>3, <2>4
        <5> HIDE DEF m
        <5>3. G[last + 1] = F[last + 1]
          BY <5>2
        <5> HIDE DEF G
        <5>4. QED
          BY <5>3 DEF Turn, last
      <4>3. QED
        BY <4>1, <4>2
    <3>4. ASSUME NEW j \in Nat, j >= m PROVE G[j] = Turn(bytes, F, j)
      <4>1. CASE j = m
        BY <4>1, <2>4
      <4>2. CASE j # m
        <5>1. j >= L - k
          BY <4>2, <3>4, <2>4
        <5>2. G[j] = F[j]
          BY <4>2
        <5>3. QED
          BY <5>1, <5>2, <2>1 DEF TurnsFrom
      <4>3. QED
        BY <4>1, <4>2
    <3> HIDE DEF G
    <3>5. TurnsFrom(bytes, G, m)
      BY <3>3, <3>4 DEF TurnsFrom
    <3>6. QED
      BY <3>2, <3>5
  <2>5. QED
    BY <2>3, <2>4
<1>3. L \in S
  <2> HIDE DEF S, L
  <2>1. \A n \in Nat : n \in S => n + 1 \in S
    BY <1>2
  <2>2. QED
    BY <1>0, <1>1, <2>1, SetInduction
<1>4. PICK F \in [Nat -> Results] : TurnsFrom(bytes, F, L - L)
  BY <1>3
<1>5. \A j \in Nat : F[j] = Turn(bytes, F, j)
  BY <1>4, <1>0 DEF TurnsFrom
<1>6. F = [i \in Nat |-> Turn(bytes, F, i)]
  BY <1>5
<1>7. QED
  BY <1>6

(* From is the function that Deserialize defines. *)
Turns(bytes, From) ==
    /\ From \in [Nat -> Results]
    /\ \A i \in Nat : From[i] = Turn(bytes, From, i)

LEMMA DeserializeTurns ==
  ASSUME NEW bytes \in Seq(Nat)
  PROVE  \E From : Turns(bytes, From) /\ Deserialize(bytes) = From[1]
<1> DEFINE F == CHOOSE From : From = [i \in Nat |-> Turn(bytes, From, i)]
<1>1. F = [i \in Nat |-> Turn(bytes, F, i)]
  BY FromExists
<1>2. Deserialize(bytes) = F[1]
  BY DEF Deserialize, Turn
<1> HIDE DEF F
<1>3. \A i \in Nat : F[i] = Turn(bytes, F, i)
  BY <1>1
<1>4. \A i \in Nat : F[i] \in Results
  <2> DEFINE L == Len(bytes) + 2
             S == {k \in Nat : \A j \in Nat : j >= L - k => F[j] \in Results}
  <2>1. \A j \in Nat : j > Len(bytes) + 1 => F[j] = OutOfRange
    <3> TAKE j \in Nat
    <3> HAVE j > Len(bytes) + 1
    <3>1. Turn(bytes, F, j) = OutOfRange
      BY DEF Turn
    <3>2. QED
      BY <1>3, <3>1
  <2>2. 0 \in S
    <3>1. OutOfRange \in Results
      BY DEF OutOfRange, Results
    <3>2. QED
      BY <2>1, <3>1
  <2>3. ASSUME NEW k \in Nat, k \in S PROVE k + 1 \in S
    <3> SUFFICES ASSUME NEW j \in Nat, j >= L - (k + 1) PROVE F[j] \in Results
      OBVIOUS
    <3>1. \A i \in Nat : i > j => F[i] \in Results
      BY <2>3
    <3>2. Turn(bytes, F, j) \in Results
      BY <2>1, <3>1, TurnType
    <3>3. QED
      BY <1>3, <3>2
  <2>4. L \in S
    <3>1. L \in Nat
      OBVIOUS
    <3> HIDE DEF S, L
    <3>2. QED
      BY <2>2, <2>3, <3>1, SetInduction
  <2>5. QED
    BY <2>4
<1>5. QED
  BY <1>1, <1>2, <1>3, <1>4 DEF Turns

(***************************************************************************)
(* Two bytes hold the length of a text shorter than the square of their    *)
(* base, and the three bytes before the text are what Deserialize expects. *)
(***************************************************************************)
LEMMA LengthReadBack ==
  ASSUME NEW n \in Nat, n < ByteBase * ByteBase
  PROVE  Length(High(n), Low(n)) = n
<1> USE ByteAssumption
<1> DEFINE q == n \div ByteBase
<1>1. q < ByteBase
  OBVIOUS
<1>2. q >= 0 /\ q \in Int
  OBVIOUS
<1>3. q % ByteBase = q
  <2> HIDE DEF q
  <2>1. QED
    BY <1>1, <1>2
<1>4. n = (q * ByteBase) + (n % ByteBase)
  OBVIOUS
<1>5. QED
  BY <1>3, <1>4 DEF Length, High, Low

LEMMA HeaderType ==
  ASSUME NEW n \in Nat
  PROVE  High(n) \in Nat /\ Low(n) \in Nat
BY ByteAssumption DEF High, Low

LEMMA StringTag == GetTagCode = 80 /\ AppType(80) = e_STRING_TAG
BY DEF GetTagCode, AppType, Without, e_APPLICATION, e_CONSTRUCTED, e_STRING_TAG

LEMMA ConcatAt ==
  ASSUME NEW S, NEW s \in Seq(S), NEW t \in Seq(S)
  PROVE  /\ s \o t \in Seq(S)
         /\ Len(s \o t) = Len(s) + Len(t)
         /\ \A i \in 1 .. Len(s) : (s \o t)[i] = s[i]
         /\ \A i \in 1 .. Len(t) : (s \o t)[Len(s) + i] = t[i]
<1>1. s \o t \in Seq(S) /\ Len(s \o t) = Len(s) + Len(t)
  BY ConcatProperties
<1>2. \A i \in 1 .. Len(s) : (s \o t)[i] = s[i]
  BY ConcatProperties
<1>3. \A i \in 1 .. Len(t) : (s \o t)[Len(s) + i] = t[i]
  BY ConcatProperties
<1>4. QED
  BY <1>1, <1>2, <1>3

LEMMA EncodeStringShape ==
  ASSUME NEW s \in Seq(Nat)
  PROVE  /\ EncodeString(s) \in Seq(Nat)
         /\ Len(EncodeString(s)) = 3 + Len(s)
         /\ EncodeString(s)[1] = 80
         /\ EncodeString(s)[2] = High(Len(s))
         /\ EncodeString(s)[3] = Low(Len(s))
         /\ \A i \in 1 .. Len(s) : EncodeString(s)[3 + i] = s[i]
<1> DEFINE h == <<80, High(Len(s)), Low(Len(s))>>
<1>1. EncodeString(s) = h \o s
  BY StringTag DEF EncodeString
<1>2. h \in Seq(Nat) /\ Len(h) = 3
  BY HeaderType
<1>3. h[1] = 80 /\ h[2] = High(Len(s)) /\ h[3] = Low(Len(s))
  OBVIOUS
<1> HIDE DEF h
<1>4. /\ h \o s \in Seq(Nat)
      /\ Len(h \o s) = Len(h) + Len(s)
      /\ \A i \in 1 .. Len(h) : (h \o s)[i] = h[i]
      /\ \A i \in 1 .. Len(s) : (h \o s)[Len(h) + i] = s[i]
  <2>1. h \in Seq(Nat)
    BY <1>2
  <2>2. h \o s \in Seq(Nat) /\ Len(h \o s) = Len(h) + Len(s)
    BY <2>1, ConcatAt
  <2>3. \A i \in 1 .. Len(h) : (h \o s)[i] = h[i]
    BY <2>1, ConcatAt
  <2>4. \A i \in 1 .. Len(s) : (h \o s)[Len(h) + i] = s[i]
    BY <2>1, ConcatAt
  <2>5. QED
    BY <2>2, <2>3, <2>4
<1>5. /\ Len(h \o s) = 3 + Len(s)
      /\ (h \o s)[1] = h[1] /\ (h \o s)[2] = h[2] /\ (h \o s)[3] = h[3]
      /\ \A i \in 1 .. Len(s) : (h \o s)[3 + i] = s[i]
  BY <1>2, <1>4
<1>6. QED
  BY <1>1, <1>3, <1>4, <1>5

Joined(s, t) == s \o t

(* Two bytes hold the length of s. *)
Fits(s) == Len(s) < ByteBase * ByteBase

(* s stands in bytes from i on, as far as they go. *)
StandsAt(bytes, i, s) ==
    \A j \in 1 .. Len(s) + 3 :
        i - 1 + j <= Len(bytes) => bytes[i - 1 + j] = EncodeString(s)[j]

(***************************************************************************)
(* A turn of Deserialize on a string that is there, and on one that is not *)
(* there in full.                                                          *)
(***************************************************************************)
LEMMA WholeTurn ==
  ASSUME NEW bytes \in Seq(Nat), NEW From, NEW s \in Seq(Nat), NEW i \in Nat,
         Turns(bytes, From), StandsAt(bytes, i, s),
         Fits(s), i > 0, i + 2 + Len(s) <= Len(bytes),
         NEW next, next = i + 3 + Len(s)
  PROVE  /\ From[next].threw => From[i].threw
         /\ ~From[next].threw =>
              ~From[i].threw /\ From[i].content = Joined(s, From[next].content)
<1>0. \A j \in 1 .. Len(s) + 3 : bytes[i - 1 + j] = EncodeString(s)[j]
  BY DEF StandsAt
<1>1. bytes[i] = 80 /\ bytes[i + 1] = High(Len(s)) /\ bytes[i + 2] = Low(Len(s))
  <2>1. 1 \in 1 .. Len(s) + 3 /\ 2 \in 1 .. Len(s) + 3 /\ 3 \in 1 .. Len(s) + 3
    OBVIOUS
  <2>2. /\ bytes[i - 1 + 1] = EncodeString(s)[1]
        /\ bytes[i - 1 + 2] = EncodeString(s)[2]
        /\ bytes[i - 1 + 3] = EncodeString(s)[3]
    BY <1>0, <2>1
  <2>3. i - 1 + 1 = i /\ i - 1 + 2 = i + 1 /\ i - 1 + 3 = i + 2
    OBVIOUS
  <2>4. QED
    BY <2>2, <2>3, EncodeStringShape
<1>2. Length(bytes[i + 1], bytes[i + 2]) = Len(s)
  BY <1>1, LengthReadBack DEF Fits
<1>3. SubSeq(bytes, i + 3, i + 2 + Len(s)) = s
  <2>1. \A j \in 1 .. Len(s) : bytes[i + 2 + j] = s[j]
    <3> TAKE j \in 1 .. Len(s)
    <3>1. 3 + j \in 1 .. Len(s) + 3 /\ i - 1 + (3 + j) = i + 2 + j
      OBVIOUS
    <3>2. bytes[i - 1 + (3 + j)] = EncodeString(s)[3 + j]
      BY <1>0, <3>1
    <3>3. QED
      BY <3>1, <3>2, EncodeStringShape
  <2> DEFINE t == SubSeq(bytes, i + 3, i + 2 + Len(s))
  <2>2. t \in Seq(Nat) /\ Len(t) = Len(s)
    <3>1. \A j \in i + 3 .. i + 2 + Len(s) : bytes[j] \in Nat
      OBVIOUS
    <3>2. QED
      BY <3>1, SubSeqProperties
  <2>3. \A j \in 1 .. Len(s) : t[j] = bytes[i + 2 + j]
    OBVIOUS
  <2> HIDE DEF t
  <2>4. t = s
    BY <2>1, <2>2, <2>3, SeqEqual
  <2>5. QED
    BY <2>4 DEF t
<1>4. Turn(bytes, From, i) = IF From[next].threw THEN From[next]
                             ELSE [From[next] EXCEPT !.content = s \o @]
  <2>1. i + 2 + Len(s) + 1 = next /\ i # Len(bytes) + 1 /\ ~(i + 2 > Len(bytes))
    OBVIOUS
  <2>2. AppType(bytes[i]) = e_STRING_TAG
    BY <1>1, StringTag
  <2>3. QED
    BY <1>2, <1>3, <2>1, <2>2 DEF Turn
<1>5. From[i] = Turn(bytes, From, i)
  BY DEF Turns
<1>6. From[next] \in Results
  BY DEF Turns
<1>7. From[next].threw => From[i].threw
  BY <1>4, <1>5
<1>8. ASSUME ~From[next].threw
      PROVE  ~From[i].threw /\ From[i].content = Joined(s, From[next].content)
  <2>1. From[i] = [From[next] EXCEPT !.content = s \o @]
    BY <1>4, <1>5, <1>8
  <2>2. QED
    BY <1>6, <1>8, <2>1 DEF Results, Joined
<1>9. QED
  BY <1>7, <1>8

LEMMA EndTurns ==
  ASSUME NEW bytes \in Seq(Nat), NEW From, Turns(bytes, From)
  PROVE  /\ From[Len(bytes) + 1] = [threw |-> FALSE, content |-> <<>>]
         /\ \A j \in Nat : j + 2 > Len(bytes) /\ j # Len(bytes) + 1 => From[j] = OutOfRange
<1>1. Len(bytes) + 1 \in Nat
  OBVIOUS
<1>2. QED
  BY <1>1 DEF Turn, Turns

LEMMA CutTurn ==
  ASSUME NEW bytes \in Seq(Nat), NEW From, NEW s \in Seq(Nat), NEW i \in Nat,
         Turns(bytes, From), StandsAt(bytes, i, s),
         Fits(s), i > 0, i <= Len(bytes), i + 2 + Len(s) > Len(bytes)
  PROVE  From[i].threw
<1>0. \A j \in Nat : j + 2 > Len(bytes) /\ j # Len(bytes) + 1 => From[j].threw
  <2>1. \A j \in Nat : j + 2 > Len(bytes) /\ j # Len(bytes) + 1 => From[j] = OutOfRange
    BY EndTurns
  <2>2. OutOfRange.threw
    BY DEF OutOfRange
  <2>3. QED
    BY <2>1, <2>2
<1>1. CASE i + 2 > Len(bytes)
  BY <1>0, <1>1
<1>2. CASE i + 2 <= Len(bytes)
  <2>1. bytes[i + 1] = High(Len(s)) /\ bytes[i + 2] = Low(Len(s))
    <3>1. 2 \in 1 .. Len(s) + 3 /\ 3 \in 1 .. Len(s) + 3
      OBVIOUS
    <3>2. i - 1 + 2 <= Len(bytes) /\ i - 1 + 3 <= Len(bytes)
      BY <1>2
    <3>3. bytes[i - 1 + 2] = EncodeString(s)[2] /\ bytes[i - 1 + 3] = EncodeString(s)[3]
      BY <3>1, <3>2 DEF StandsAt
    <3>4. i - 1 + 2 = i + 1 /\ i - 1 + 3 = i + 2
      OBVIOUS
    <3>5. QED
      BY <3>3, <3>4, EncodeStringShape
  <2>2. Length(bytes[i + 1], bytes[i + 2]) = Len(s)
    BY <2>1, LengthReadBack DEF Fits
  <2>3. From[i + 2 + Len(s) + 1].threw
    BY <1>0
  <2>4. From[i] = Turn(bytes, From, i) /\ i # Len(bytes) + 1 /\ ~(i + 2 > Len(bytes))
    BY <1>2 DEF Turns
  <2>5. Turn(bytes, From, i) = From[i + 2 + Len(s) + 1]
    BY <2>2, <2>3, <2>4 DEF Turn
  <2>6. QED
    BY <2>3, <2>4, <2>5
<1>3. QED
  BY <1>1, <1>2

(***************************************************************************)
(* What SerializeAsString writes is read back whole, up to the length that *)
(* two bytes hold.                                                         *)
(***************************************************************************)
THEOREM CommandReadBack ==
  ASSUME NEW payload \in Seq(Nat), NEW sResIdent \in Seq(Nat),
         Fits(payload), Fits(sResIdent)
  PROVE  LET received == Deserialize(SerializeAsString(payload, sResIdent))
         IN ~received.threw /\ received.content = sResIdent \o payload
<1> DEFINE a == EncodeString(sResIdent)
           b == EncodeString(payload)
           bytes == SerializeAsString(payload, sResIdent)
           m == 4 + Len(sResIdent)
<1>1. /\ a \in Seq(Nat) /\ b \in Seq(Nat)
      /\ Len(a) = 3 + Len(sResIdent) /\ Len(b) = 3 + Len(payload)
  BY EncodeStringShape
<1>2. bytes = a \o b
  BY DEF SerializeAsString
<1> HIDE DEF a, b, bytes
<1>3. /\ bytes \in Seq(Nat) /\ Len(bytes) = Len(a) + Len(b)
      /\ \A j \in 1 .. Len(a) : bytes[j] = a[j]
      /\ \A j \in 1 .. Len(b) : bytes[Len(a) + j] = b[j]
  <2>1. a \o b \in Seq(Nat) /\ Len(a \o b) = Len(a) + Len(b)
    BY <1>1, ConcatProperties
  <2>2. \A j \in 1 .. Len(a) : (a \o b)[j] = a[j]
    BY <1>1, ConcatProperties
  <2>3. \A j \in 1 .. Len(b) : (a \o b)[Len(a) + j] = b[j]
    BY <1>1, ConcatProperties
  <2>4. QED
    BY <1>2, <2>1, <2>2, <2>3
<1>4. PICK From : Turns(bytes, From) /\ Deserialize(bytes) = From[1]
  BY <1>3, DeserializeTurns
<1>5. ~From[m].threw /\ From[m].content = payload
  <2> DEFINE next == m + 3 + Len(payload)
  <2>1. ~From[next].threw /\ From[next].content = <<>>
    <3>1. next = Len(bytes) + 1
      BY <1>1, <1>3
    <3>2. From[Len(bytes) + 1] = [threw |-> FALSE, content |-> <<>>]
      BY <1>3, <1>4, EndTurns
    <3>3. QED
      BY <3>1, <3>2
  <2>2. StandsAt(bytes, m, payload)
    BY <1>1, <1>3 DEF b, StandsAt
  <2>3. m \in Nat /\ m > 0 /\ m + 2 + Len(payload) <= Len(bytes)
    BY <1>1, <1>3
  <2>4. next = m + 3 + Len(payload)
    OBVIOUS
  <2> HIDE DEF m, next
  <2>5. ~From[m].threw /\ From[m].content = Joined(payload, From[next].content)
    <3>1. ~From[next].threw => ~From[m].threw
      BY <1>3, <1>4, <2>2, <2>3, <2>4, WholeTurn
    <3>2. ~From[next].threw => From[m].content = Joined(payload, From[next].content)
      BY <1>3, <1>4, <2>2, <2>3, <2>4, WholeTurn
    <3>3. QED
      BY <2>1, <3>1, <3>2
  <2>6. payload \o <<>> = payload
    BY ConcatEmptySeq
  <2>7. QED
    BY <2>1, <2>5, <2>6 DEF Joined
<1>6. ~From[1].threw /\ From[1].content = sResIdent \o payload
  <2>1. m = 1 + 3 + Len(sResIdent)
    OBVIOUS
  <2>2. StandsAt(bytes, 1, sResIdent)
    BY <1>1, <1>3 DEF a, StandsAt
  <2>3. 1 \in Nat /\ 1 > 0 /\ 1 + 2 + Len(sResIdent) <= Len(bytes)
    BY <1>1, <1>3
  <2> HIDE DEF m
  <2>4. ~From[1].threw /\ From[1].content = Joined(sResIdent, From[m].content)
    BY <1>3, <1>4, <1>5, <2>1, <2>2, <2>3, WholeTurn
  <2>5. QED
    BY <1>5, <2>4 DEF Joined
<1>7. QED
  BY <1>4, <1>6 DEF bytes

(***************************************************************************)
(* The answers of the runtime, and what it may have sent: one whole answer *)
(* after the other, the smallest set that has no bytes and, with some      *)
(* answers, those answers after another one.                               *)
(***************************************************************************)
Texts == {t \in Seq(Nat) : Len(t) >= 2 /\ Fits(t) /\ OneElement(t)}

ClosedUnderAnswers(S) ==
    /\ <<>> \in S
    /\ \A t \in Texts, s \in S : EncodeString(t) \o s \in S

Streams == {s \in Seq(Nat) : \A S \in SUBSET Seq(Nat) : ClosedUnderAnswers(S) => s \in S}

LEMMA EncodedTextType ==
  ASSUME NEW t \in Texts
  PROVE  t \in Seq(Nat) /\ EncodeString(t) \in Seq(Nat)
BY EncodeStringShape DEF Texts

LEMMA StreamsClosed == ClosedUnderAnswers(Streams)
<1>1. <<>> \in Streams
  BY DEF Streams, ClosedUnderAnswers
<1>2. ASSUME NEW t \in Texts, NEW s \in Streams PROVE EncodeString(t) \o s \in Streams
  <2>1. EncodeString(t) \o s \in Seq(Nat)
    BY EncodedTextType, ConcatProperties DEF Streams
  <2>2. ASSUME NEW S \in SUBSET Seq(Nat), ClosedUnderAnswers(S)
        PROVE  EncodeString(t) \o s \in S
    <3>1. s \in S
      BY <2>2 DEF Streams
    <3>2. QED
      BY <2>2, <3>1 DEF ClosedUnderAnswers
  <2>3. QED
    BY <2>1, <2>2 DEF Streams
<1>3. QED
  BY <1>1, <1>2 DEF ClosedUnderAnswers

LEMMA StreamsInduction ==
  ASSUME NEW T \in SUBSET Streams, ClosedUnderAnswers(T)
  PROVE  Streams \subseteq T
BY DEF Streams

LEMMA StreamsInversion ==
  ASSUME NEW s \in Streams
  PROVE  s = <<>> \/ \E t \in Texts, r \in Streams : s = EncodeString(t) \o r
<1> DEFINE T == {u \in Streams :
                    u = <<>> \/ \E t \in Texts, r \in Streams : u = EncodeString(t) \o r}
<1>1. <<>> \in T
  BY StreamsClosed DEF ClosedUnderAnswers
<1>2. \A t \in Texts, u \in T : EncodeString(t) \o u \in T
  BY StreamsClosed DEF ClosedUnderAnswers
<1>3. Streams \subseteq T
  <2>1. ClosedUnderAnswers(T)
    BY <1>1, <1>2 DEF ClosedUnderAnswers
  <2>2. T \in SUBSET Streams
    OBVIOUS
  <2> HIDE DEF T
  <2>3. QED
    BY <2>1, <2>2, StreamsInduction
<1>4. QED
  BY <1>3

LEMMA StreamsAppend ==
  ASSUME NEW s \in Streams, NEW t \in Texts
  PROVE  s \o EncodeString(t) \in Streams
<1> DEFINE T == {u \in Streams : u \o EncodeString(t) \in Streams}
<1>1. <<>> \in T
  <2>1. EncodeString(t) \o <<>> \in Streams
    BY StreamsClosed DEF ClosedUnderAnswers
  <2>2. EncodeString(t) \o <<>> = <<>> \o EncodeString(t)
    BY EncodedTextType, ConcatEmptySeq
  <2>3. <<>> \in Streams
    BY StreamsClosed DEF ClosedUnderAnswers
  <2>4. QED
    BY <2>1, <2>2, <2>3
<1>2. ASSUME NEW a \in Texts, NEW u \in T PROVE EncodeString(a) \o u \in T
  <2>1. u \in Streams /\ u \o EncodeString(t) \in Streams
    OBVIOUS
  <2>2. EncodeString(a) \o u \in Streams
    BY <2>1, StreamsClosed DEF ClosedUnderAnswers
  <2>3. EncodeString(a) \o (u \o EncodeString(t)) \in Streams
    BY <2>1, StreamsClosed DEF ClosedUnderAnswers
  <2>4. (EncodeString(a) \o u) \o EncodeString(t) = EncodeString(a) \o (u \o EncodeString(t))
    <3>1. u \in Seq(Nat)
      BY <2>1 DEF Streams
    <3>2. EncodeString(a) \in Seq(Nat) /\ EncodeString(t) \in Seq(Nat)
      BY EncodedTextType
    <3>3. QED
      BY <3>1, <3>2, ConcatAssociative
  <2>5. QED
    BY <2>2, <2>3, <2>4
<1>3. Streams \subseteq T
  <2>1. ClosedUnderAnswers(T)
    BY <1>1, <1>2 DEF ClosedUnderAnswers
  <2>2. T \in SUBSET Streams
    OBVIOUS
  <2> HIDE DEF T
  <2>3. QED
    BY <2>1, <2>2, StreamsInduction
<1>4. QED
  BY <1>3

LEMMA ConcatSplits ==
  ASSUME NEW a \in Seq(Nat), NEW b \in Seq(Nat), NEW c \in Seq(Nat), NEW d \in Seq(Nat),
         a \o b = c \o d, Len(a) = Len(c)
  PROVE  a = c /\ b = d
<1>1. \A i \in 1 .. Len(a) : (a \o b)[i] = a[i]
  BY ConcatAt
<1>2. \A i \in 1 .. Len(c) : (c \o d)[i] = c[i]
  BY ConcatAt
<1>3. a = c
  BY <1>1, <1>2, SeqEqual
<1>4. QED
  BY <1>3, ConcatSimplifications

(***************************************************************************)
(* The answers that bytes starts with stand in it as far as it goes.       *)
(***************************************************************************)
LEMMA FirstStandsAt ==
  ASSUME NEW bytes \in Seq(Nat), NEW rest \in Seq(Nat), NEW t \in Seq(Nat),
         NEW r \in Seq(Nat), NEW i \in Nat, i > 0, i <= Len(bytes) + 1,
         NEW front \in Seq(Nat), Len(front) = i - 1,
         bytes \o rest = front \o (EncodeString(t) \o r)
  PROVE  StandsAt(bytes, i, t)
<1> DEFINE e == EncodeString(t)
<1>1. e \in Seq(Nat) /\ Len(e) = Len(t) + 3
  BY EncodeStringShape
<1> SUFFICES ASSUME NEW j \in 1 .. Len(t) + 3, i - 1 + j <= Len(bytes)
             PROVE  bytes[i - 1 + j] = e[j]
  BY DEF StandsAt
<1> HIDE DEF e
<1>2. e \o r \in Seq(Nat) /\ Len(e \o r) = Len(e) + Len(r) /\ (e \o r)[j] = e[j]
  <2>1. e \o r \in Seq(Nat) /\ Len(e \o r) = Len(e) + Len(r)
    BY <1>1, ConcatAt
  <2>2. j \in 1 .. Len(e)
    BY <1>1
  <2>3. (e \o r)[j] = e[j]
    BY <1>1, <2>2, ConcatAt
  <2>4. QED
    BY <2>1, <2>3
<1>3. j \in 1 .. Len(e \o r)
  BY <1>1, <1>2
<1>4. (front \o (e \o r))[Len(front) + j] = (e \o r)[j]
  BY <1>2, <1>3, ConcatAt
<1>5. (bytes \o rest)[i - 1 + j] = bytes[i - 1 + j]
  <2>1. i - 1 + j \in 1 .. Len(bytes)
    OBVIOUS
  <2>2. QED
    BY <2>1, ConcatAt
<1>6. QED
  BY <1>2, <1>4, <1>5 DEF e

(***************************************************************************)
(* What was received of a stream is no answer, or one whole answer: when   *)
(* it is cut, Deserialize throws, and when there is more than one answer,  *)
(* the text is more than one element.                                      *)
(***************************************************************************)
LEMMA ReceivedOfStream ==
  ASSUME NEW bytes \in Seq(Nat), NEW rest \in Seq(Nat), bytes # <<>>,
         bytes \o rest \in Streams, ~Unreadable(Deserialize(bytes))
  PROVE  \E t \in Texts : /\ bytes = EncodeString(t)
                          /\ rest \in Streams
                          /\ ~Deserialize(bytes).threw
                          /\ Deserialize(bytes).content = t
<1>1. PICK From : Turns(bytes, From) /\ Deserialize(bytes) = From[1]
  BY DeserializeTurns
<1>2. ~From[1].threw /\ (From[1].content # <<>> => OneElement(From[1].content))
  BY <1>1 DEF Unreadable
<1>3. bytes \o rest # <<>>
  BY ConcatEqualIffEmpty
<1>4. PICK t \in Texts, r \in Streams : bytes \o rest = EncodeString(t) \o r
  BY <1>3, StreamsInversion
<1>5. /\ t \in Seq(Nat) /\ r \in Seq(Nat) /\ Fits(t) /\ Len(t) >= 2
      /\ EncodeString(t) \in Seq(Nat) /\ Len(EncodeString(t)) = 3 + Len(t)
  BY EncodeStringShape DEF Texts, Streams
<1>6. StandsAt(bytes, 1, t)
  <2>1. <<>> \in Seq(Nat) /\ Len(<<>>) = 1 - 1
    OBVIOUS
  <2>2. bytes \o rest = <<>> \o (EncodeString(t) \o r)
    BY <1>4, <1>5, ConcatProperties, ConcatEmptySeq
  <2>3. 1 \in Nat /\ 1 > 0 /\ 1 <= Len(bytes) + 1
    OBVIOUS
  <2>4. QED
    BY <1>5, <2>1, <2>2, <2>3, FirstStandsAt
<1>7. Len(bytes) >= 3 + Len(t)
  <2> SUFFICES ASSUME 1 + 2 + Len(t) > Len(bytes) PROVE FALSE
    BY <1>5
  <2>1. 1 \in Nat /\ 1 > 0 /\ 1 <= Len(bytes)
    BY EmptySeq
  <2>2. From[1].threw
    BY <1>1, <1>5, <1>6, <2>1, CutTurn
  <2>3. QED
    BY <1>2, <2>2
<1> DEFINE i == 4 + Len(t)
<1>8. i \in Nat /\ i > 0 /\ i <= Len(bytes) + 1 /\ i = 1 + 3 + Len(t)
  BY <1>5, <1>7
<1> HIDE DEF i
<1>9. ~From[i].threw /\ From[1].content = Joined(t, From[i].content)
  <2>1. 1 \in Nat /\ 1 > 0 /\ 1 + 2 + Len(t) <= Len(bytes) /\ i = 1 + 3 + Len(t)
    BY <1>5, <1>7, <1>8
  <2>2. t \in Seq(Nat) /\ Fits(t) /\ Turns(bytes, From)
    BY <1>1, <1>5
  <2>3. From[i].threw => From[1].threw
    BY <1>6, <2>1, <2>2, WholeTurn
  <2>4. ~From[i].threw => From[1].content = Joined(t, From[i].content)
    BY <1>6, <2>1, <2>2, WholeTurn
  <2>5. QED
    BY <1>2, <2>3, <2>4
<1>10. CASE i = Len(bytes) + 1
  <2>1. bytes = EncodeString(t) /\ rest = r
    <3>1. Len(bytes) = Len(EncodeString(t))
      BY <1>5, <1>8, <1>10
    <3>2. QED
      BY <1>4, <1>5, <3>1, ConcatSplits
  <2>2. From[i].content = <<>>
    BY <1>1, <1>10, EndTurns
  <2>3. t \o <<>> = t
    BY <1>5, ConcatEmptySeq
  <2>4. From[1].content = t
    BY <1>9, <2>2, <2>3 DEF Joined
  <2>5. QED
    BY <1>1, <1>2, <2>1, <2>4
<1>11. CASE i <= Len(bytes)
  <2>1. r # <<>>
    <3>1. Len(bytes \o rest) = Len(bytes) + Len(rest)
      BY ConcatProperties
    <3>2. Len(EncodeString(t) \o r) = 3 + Len(t) + Len(r)
      BY <1>5, ConcatProperties
    <3>3. QED
      BY <1>4, <1>5, <1>8, <1>11, <3>1, <3>2
  <2>2. PICK u \in Texts, v \in Streams : r = EncodeString(u) \o v
    BY <2>1, StreamsInversion
  <2>3. u \in Seq(Nat) /\ v \in Seq(Nat) /\ Fits(u) /\ Len(u) >= 2 /\ u[1] = Element
    BY <2>2 DEF Texts, Streams, OneElement
  <2>4. StandsAt(bytes, i, u)
    <3>1. Len(EncodeString(t)) = i - 1
      BY <1>5, <1>8
    <3>2. bytes \o rest = EncodeString(t) \o (EncodeString(u) \o v)
      BY <1>4, <2>2
    <3>3. QED
      BY <1>5, <1>8, <2>3, <3>1, <3>2, FirstStandsAt
  <2>5. i + 2 + Len(u) <= Len(bytes)
    <3>1. i + 2 + Len(u) > Len(bytes) => From[i].threw
      BY <1>1, <1>8, <1>11, <2>3, <2>4, CutTurn
    <3>2. QED
      BY <1>8, <1>9, <2>3, <3>1
  <2> DEFINE k == i + 3 + Len(u)
  <2>6. k = i + 3 + Len(u) /\ k \in Nat
    BY <1>8, <2>3
  <2> HIDE DEF k
  <2>7. From[i].content = Joined(u, From[k].content) /\ From[k] \in Results
    <3>0. u \in Seq(Nat) /\ Fits(u) /\ Turns(bytes, From) /\ i \in Nat /\ i > 0
      BY <1>1, <1>8, <2>3
    <3>1. From[k].threw => From[i].threw
      BY <3>0, <2>4, <2>5, <2>6, WholeTurn
    <3>2. ~From[k].threw => From[i].content = Joined(u, From[k].content)
      BY <3>0, <2>4, <2>5, <2>6, WholeTurn
    <3>3. From[k] \in Results
      BY <1>1, <2>6 DEF Turns
    <3>4. QED
      BY <1>9, <3>1, <3>2, <3>3
  <2> DEFINE w == From[i].content
             x == From[k].content
  <2>8. w \in Seq(Nat) /\ Len(w) >= 2 /\ w[1] = Element
    <3>1. x \in Seq(Nat)
      BY <2>7 DEF Results
    <3>2. w = u \o x
      BY <2>7 DEF Joined
    <3> HIDE DEF w, x
    <3>3. u \o x \in Seq(Nat) /\ Len(u \o x) = Len(u) + Len(x)
      BY <2>3, <3>1, ConcatAt
    <3>4. 1 \in 1 .. Len(u)
      BY <2>3
    <3>5. (u \o x)[1] = u[1]
      BY <2>3, <3>1, <3>4, ConcatAt
    <3>6. QED
      BY <2>3, <3>1, <3>2, <3>3, <3>5
  <2> DEFINE y == From[1].content
  <2>9. y = t \o w
    BY <1>9 DEF Joined
  <2> HIDE DEF w, y
  <2>10. y \in Seq(Nat) /\ Len(y) = Len(t) + Len(w)
    BY <1>5, <2>8, <2>9, ConcatAt
  <2>11. y[Len(t) + 1] = Element
    <3>1. 1 \in 1 .. Len(w)
      BY <2>8
    <3>2. QED
      BY <1>5, <2>8, <2>9, <3>1, ConcatAt
  <2>12. ~OneElement(y) /\ y # <<>>
    <3>1. Len(t) + 1 \in DOMAIN y /\ Len(t) + 1 # 1
      <4>1. Len(w) \in Nat /\ Len(t) \in Nat
        <5>1. w \in Seq(Nat) /\ t \in Seq(Nat)
          BY <1>5, <2>8
        <5>2. QED
          BY <5>1, LenProperties
      <4>2. Len(t) + 1 \in 1 .. Len(y) /\ Len(t) + 1 # 1
        <5>1. Len(t) >= 2 /\ Len(w) >= 2 /\ Len(y) = Len(t) + Len(w)
          BY <1>5, <2>8, <2>10
        <5>2. QED
          BY <4>1, <5>1
      <4>3. DOMAIN y = 1 .. Len(y)
        BY <2>10
      <4>4. QED
        BY <4>2, <4>3
    <3>2. y # <<>>
      BY <3>1
    <3>3. QED
      BY <2>11, <3>1, <3>2 DEF OneElement
  <2>13. QED
    BY <1>2, <2>12 DEF y
<1>12. QED
  BY <1>8, <1>10, <1>11

-----------------------------------------------------------------------------
(***************************************************************************)
(* FlattenSeq is well defined, and every part stands in it as a whole: the *)
(* k-th after the first off[k] elements.                                   *)
(***************************************************************************)
FlattenStep(ss, F, i) == IF i = 1 THEN ss[i] ELSE F[i - 1] \o ss[i]

LEMMA FlattenLater ==
  ASSUME NEW ss, NEW F, NEW i, i # 1
  PROVE  FlattenStep(ss, F, i) = F[i - 1] \o ss[i]
BY Zenon DEF FlattenStep

LEMMA FlattenExists ==
  ASSUME NEW S, NEW ss \in Seq(Seq(S))
  PROVE  \E F : F = [i \in 1 .. Len(ss) |-> FlattenStep(ss, F, i)]
<1> DEFINE n == Len(ss)
           T == {k \in Nat : \E F \in [1 .. n -> Seq(S)] :
                                \A i \in 1 .. n : i <= k => F[i] = FlattenStep(ss, F, i)}
<1>0. n \in Nat
  OBVIOUS
<1>1. 0 \in T
  <2>1. [i \in 1 .. n |-> ss[i]] \in [1 .. n -> Seq(S)]
    OBVIOUS
  <2>2. QED
    BY <2>1
<1>2. ASSUME NEW k \in Nat, k \in T PROVE k + 1 \in T
  <2>1. PICK F \in [1 .. n -> Seq(S)] : \A i \in 1 .. n : i <= k => F[i] = FlattenStep(ss, F, i)
    BY <1>2
  <2>2. CASE k + 1 \notin 1 .. n
    <3>1. \A i \in 1 .. n : i <= k + 1 => i <= k
      BY <2>2
    <3>2. QED
      BY <2>1, <3>1
  <2>3. CASE k + 1 \in 1 .. n
    <3> DEFINE G == [F EXCEPT ![k + 1] = FlattenStep(ss, F, k + 1)]
    <3>1. FlattenStep(ss, F, k + 1) \in Seq(S)
      <4>1. ss[k + 1] \in Seq(S)
        BY <2>3
      <4>2. CASE k = 0
        BY <4>1, <4>2 DEF FlattenStep
      <4>3. CASE k # 0
        <5>1. k \in 1 .. n /\ k + 1 - 1 = k /\ k + 1 # 1
          BY <2>3, <4>3
        <5>2. F[k] \in Seq(S)
          BY <5>1
        <5>3. F[k] \o ss[k + 1] \in Seq(S)
          BY <4>1, <5>2, ConcatProperties
        <5>4. QED
          BY <5>1, <5>3 DEF FlattenStep
      <4>4. QED
        BY <4>2, <4>3
    <3>2. G \in [1 .. n -> Seq(S)]
      BY <3>1
    <3>3. ASSUME NEW i \in 1 .. n, i <= k + 1 PROVE G[i] = FlattenStep(ss, G, i)
      <4>1. i # 1 => G[i - 1] = F[i - 1]
        BY <3>3
      <4>2. FlattenStep(ss, G, i) = FlattenStep(ss, F, i)
        BY <4>1 DEF FlattenStep
      <4>3. G[i] = FlattenStep(ss, F, i)
        <5>1. CASE i = k + 1
          BY <5>1, <2>3
        <5>2. CASE i # k + 1
          <6>1. G[i] = F[i] /\ i <= k
            BY <5>2, <3>3
          <6>2. QED
            BY <6>1, <2>1
        <5>3. QED
          BY <5>1, <5>2
      <4>4. QED
        BY <4>2, <4>3
    <3> HIDE DEF G
    <3>4. QED
      BY <3>2, <3>3
  <2>4. QED
    BY <2>2, <2>3
<1>3. n \in T
  <2> HIDE DEF T, n
  <2>1. \A k \in Nat : k \in T => k + 1 \in T
    BY <1>2
  <2>2. QED
    BY <1>0, <1>1, <2>1, SetInduction
<1>4. PICK F \in [1 .. n -> Seq(S)] : \A i \in 1 .. n : i <= n => F[i] = FlattenStep(ss, F, i)
  BY <1>3
<1>5. F = [i \in 1 .. n |-> FlattenStep(ss, F, i)]
  BY <1>4
<1>6. QED
  BY <1>5

Tiles(ss, flat, off) ==
    /\ off \in [1 .. Len(ss) -> Nat]
    /\ \A k \in 1 .. Len(ss) : \A p \in 1 .. Len(ss[k]) :
          off[k] + p \in 1 .. Len(flat) /\ flat[off[k] + p] = ss[k][p]
    /\ \A i \in 1 .. Len(flat) : \E k \in 1 .. Len(ss) : \E p \in 1 .. Len(ss[k]) : i = off[k] + p

LEMMA FlattenShape ==
  ASSUME NEW S, NEW ss \in Seq(Seq(S))
  PROVE  /\ FlattenSeq(ss) \in Seq(S)
         /\ \E off : Tiles(ss, FlattenSeq(ss), off)
<1> DEFINE n == Len(ss)
<1>0. n \in Nat /\ \A k \in 1 .. n : ss[k] \in Seq(S)
  OBVIOUS
<1>1. CASE n = 0
  <2>1. FlattenSeq(ss) = ss /\ ss = <<>>
    BY <1>1, EmptySeq DEF FlattenSeq
  <2>2. [k \in 1 .. Len(ss) |-> 0] \in [1 .. Len(ss) -> Nat]
    OBVIOUS
  <2>3. 1 .. Len(ss) = {} /\ 1 .. Len(FlattenSeq(ss)) = {}
    BY <1>1, <2>1
  <2>4. FlattenSeq(ss) \in Seq(S)
    BY <2>1
  <2>5. QED
    BY <2>2, <2>3, <2>4 DEF Tiles
<1>2. CASE n # 0
  <2> DEFINE F == CHOOSE F : F = [i \in 1 .. n |-> FlattenStep(ss, F, i)]
  <2>1. F = [i \in 1 .. n |-> FlattenStep(ss, F, i)]
    BY FlattenExists
  <2>2. FlattenSeq(ss) = F[n]
    BY <1>2 DEF FlattenSeq, FlattenStep
  <2> HIDE DEF F
  <2>3. \A i \in 1 .. n : F[i] = FlattenStep(ss, F, i)
    BY <2>1
  <2> DEFINE off == [k \in 1 .. n |-> IF k = 1 THEN 0 ELSE Len(F[k - 1])]
             Holds(m) == \A k \in 1 .. m : \A p \in 1 .. Len(ss[k]) :
                           off[k] + p \in 1 .. Len(F[m]) /\ F[m][off[k] + p] = ss[k][p]
             Covers(m) == \A i \in 1 .. Len(F[m]) :
                           \E k \in 1 .. m : \E p \in 1 .. Len(ss[k]) : i = off[k] + p
             T == {m \in Nat : m + 1 \in 1 .. n =>
                       F[m + 1] \in Seq(S) /\ Holds(m + 1) /\ Covers(m + 1)}
  <2>4. 0 \in T
    <3>1. F[1] = ss[1] /\ off[1] = 0
      BY <1>0, <1>2, <2>3 DEF FlattenStep
    <3>2. F[1] \in Seq(S)
      BY <1>0, <1>2, <3>1
    <3> HIDE DEF off
    <3>3. Holds(1) /\ Covers(1)
      BY <3>1, <3>2
    <3>4. QED
      BY <3>2, <3>3
  <2>5. ASSUME NEW m \in Nat, m \in T PROVE m + 1 \in T
    <3> SUFFICES ASSUME m + 2 \in 1 .. n
                 PROVE  F[m + 2] \in Seq(S) /\ Holds(m + 2) /\ Covers(m + 2)
      <4>1. m + 1 + 1 = m + 2
        OBVIOUS
      <4> HIDE DEF Holds, Covers
      <4>2. QED
        BY <4>1
    <3>1. m + 1 \in 1 .. n
      BY <1>0
    <3>2. F[m + 1] \in Seq(S) /\ Holds(m + 1) /\ Covers(m + 1)
      <4> HIDE DEF Holds, Covers
      <4>1. QED
        BY <2>5, <3>1
    <3>3. off[m + 2] = Len(F[m + 1])
      <4>1. m + 2 # 1 /\ m + 2 - 1 = m + 1
        OBVIOUS
      <4>2. QED
        BY <4>1
    <3>4. F[m + 2] = F[m + 1] \o ss[m + 2]
      <4>1. ASSUME NEW i, NEW j, i = m + 2, j = m + 1 PROVE F[i] = F[j] \o ss[i]
        <5>1. i # 1 /\ i - 1 = j /\ i \in 1 .. n
          BY <4>1
        <5>2. F[i] = FlattenStep(ss, F, i)
          BY <2>3, <5>1
        <5>3. FlattenStep(ss, F, i) = F[i - 1] \o ss[i]
          BY <5>1, FlattenLater, Zenon
        <5>4. QED
          BY <5>1, <5>2, <5>3, Zenon
      <4>2. QED
        BY <4>1, Zenon
    <3>5. ss[m + 2] \in Seq(S)
      BY <1>0
    <3> DEFINE a == F[m + 1]
               b == ss[m + 2]
               c == F[m + 2]
    <3>6. a \in Seq(S) /\ b \in Seq(S) /\ c = a \o b
      BY <3>2, <3>4, <3>5
    <3> HIDE DEF a, b, c
    <3>7. /\ c \in Seq(S) /\ Len(c) = Len(a) + Len(b)
          /\ Len(a) \in Nat /\ Len(b) \in Nat
      BY <3>6, ConcatAt, LenProperties
    <3>8. \A i \in 1 .. Len(a) : c[i] = a[i]
      BY <3>6, ConcatAt
    <3>9. \A i \in 1 .. Len(b) : c[Len(a) + i] = b[i]
      BY <3>6, ConcatAt
    <3> HIDE DEF off
    <3>10. Holds(m + 2)
      <4> SUFFICES ASSUME NEW k \in 1 .. m + 2, NEW p \in 1 .. Len(ss[k])
                   PROVE  off[k] + p \in 1 .. Len(c) /\ c[off[k] + p] = ss[k][p]
        BY DEF c
      <4>1. CASE k = m + 2
        <5>1. p \in 1 .. Len(b) /\ off[k] = Len(a) /\ ss[k][p] = b[p]
          BY <4>1, <3>3 DEF a, b
        <5>2. QED
          BY <5>1, <3>7, <3>9
      <4>2. CASE k # m + 2
        <5>1. k \in 1 .. m + 1
          BY <4>2
        <5>2. off[k] + p \in 1 .. Len(a) /\ a[off[k] + p] = ss[k][p]
          BY <5>1, <3>2 DEF a
        <5>3. QED
          BY <5>2, <3>7, <3>8
      <4>3. QED
        BY <4>1, <4>2
    <3>11. Covers(m + 2)
      <4> SUFFICES ASSUME NEW i \in 1 .. Len(c)
                   PROVE  \E k \in 1 .. m + 2 : \E p \in 1 .. Len(ss[k]) : i = off[k] + p
        BY DEF c
      <4>1. CASE i <= Len(a)
        <5>1. i \in 1 .. Len(a)
          BY <4>1, <3>7
        <5>2. PICK k \in 1 .. m + 1 : \E p \in 1 .. Len(ss[k]) : i = off[k] + p
          BY <5>1, <3>2 DEF a
        <5>3. k \in 1 .. m + 2
          OBVIOUS
        <5>4. QED
          BY <5>2, <5>3
      <4>2. CASE i > Len(a)
        <5>1. i - Len(a) \in 1 .. Len(b) /\ i = Len(a) + (i - Len(a))
          BY <4>2, <3>7
        <5>2. m + 2 \in 1 .. m + 2 /\ off[m + 2] = Len(a)
          BY <3>3 DEF a
        <5>3. QED
          BY <5>1, <5>2 DEF b
      <4>3. QED
        BY <4>1, <4>2, <3>7
    <3>12. QED
      <4> HIDE DEF Holds, Covers
      <4>1. QED
        BY <3>7, <3>10, <3>11 DEF c
  <2>6. n - 1 \in Nat /\ n \in 1 .. n /\ (n - 1) + 1 = n
    BY <1>0, <1>2
  <2>7. n - 1 \in T
    <3> HIDE DEF T, n
    <3>1. \A m \in Nat : m \in T => m + 1 \in T
      BY <2>5
    <3>2. QED
      BY <2>4, <2>6, <3>1, SetInduction
  <2>8. F[n] \in Seq(S) /\ Holds(n) /\ Covers(n)
    <3> HIDE DEF Holds, Covers, n
    <3>1. QED
      BY <2>6, <2>7
  <2>9. off \in [1 .. n -> Nat]
    <3> SUFFICES ASSUME NEW k \in 1 .. n, k # 1 PROVE Len(F[k - 1]) \in Nat
      OBVIOUS
    <3>1. k - 2 \in Nat /\ (k - 2) + 1 = k - 1 /\ k - 1 \in 1 .. n
      BY <1>0
    <3>2. k - 2 \in T
      <4> HIDE DEF T, n
      <4>1. \A m \in Nat : m \in T => m + 1 \in T
        BY <2>5
      <4>2. QED
        BY <2>4, <3>1, <4>1, SetInduction
    <3>3. F[k - 1] \in Seq(S)
      <4> HIDE DEF Holds, Covers, n
      <4>1. QED
        BY <3>1, <3>2
    <3>4. QED
      BY <3>3, LenProperties
  <2> HIDE DEF off
  <2>10. \A k \in 1 .. n : \A p \in 1 .. Len(ss[k]) :
            off[k] + p \in 1 .. Len(F[n]) /\ F[n][off[k] + p] = ss[k][p]
    BY <2>8
  <2>11. \A i \in 1 .. Len(F[n]) :
            \E k \in 1 .. n : \E p \in 1 .. Len(ss[k]) : i = off[k] + p
    BY <2>8
  <2>12. QED
    <3>1. FlattenSeq(ss) \in Seq(S)
      BY <2>2, <2>8
    <3>2. Tiles(ss, F[n], off)
      BY <2>9, <2>10, <2>11 DEF Tiles
    <3>3. QED
      BY <2>2, <3>1, <3>2
<1>3. QED
  BY <1>1, <1>2

(***************************************************************************)
(* The answers of the runtime.                                             *)
(***************************************************************************)
LEMMA SetToSeqShape ==
  ASSUME NEW S, IsFiniteSet(S)
  PROVE  /\ SetToSeq(S) \in Seq(S)
         /\ Len(SetToSeq(S)) = Cardinality(S)
         /\ \A x \in S : \E i \in 1 .. Len(SetToSeq(S)) : SetToSeq(S)[i] = x
<1> DEFINE N == Cardinality(S)
           f == SetToSeq(S)
<1>1. N \in Nat /\ ExistsBijection(1 .. N, S)
  BY FS_CardinalityType
<1>2. \E g \in [1 .. N -> S] : IsInjective(g)
  BY <1>1 DEF ExistsBijection, Bijection, Injection
<1>3. f \in [1 .. N -> S] /\ IsInjective(f)
  BY <1>2 DEF SetToSeq
<1>4. IsFiniteSet(1 .. N) /\ Cardinality(1 .. N) = N
  BY <1>1, FS_Interval
<1> HIDE DEF f, N
<1>5. f \in Injection(1 .. N, S)
  BY <1>3 DEF Injection
<1>6. f \in Surjection(1 .. N, S)
  BY <1>4, <1>5, FS_Injection DEF N
<1>7. \A x \in S : \E i \in 1 .. N : f[i] = x
  BY <1>6 DEF Surjection, Range
<1>8. f \in Seq(S) /\ Len(f) = N
  BY <1>1, <1>3
<1>9. QED
  BY <1>7, <1>8 DEF f, N

Cmds == [action : Actions, name : Names, from : Files \cup {NoFile}]

LEMMA Ids == \A a \in Actions : Id[a] \in Nat /\ Id[a] # Element
BY DEF Actions, Id, Element

(* A text starts with the element and the id; what follows is a reason or  *)
(* names.                                                                  *)
LEMMA TextShape ==
  ASSUME NEW a \in Actions, NEW s \in Seq(Nat \ {Element}), Len(s) + 2 < ByteBase * ByteBase
  PROVE  /\ <<Element, Id[a]>> \o s \in Texts
         /\ Len(<<Element, Id[a]>> \o s) = Len(s) + 2
         /\ \A i \in 1 .. Len(s) : (<<Element, Id[a]>> \o s)[i + 2] = s[i]
<1> DEFINE h == <<Element, Id[a]>>
           t == h \o s
<1>1. h \in Seq(Nat) /\ Len(h) = 2 /\ h[1] = Element /\ h[2] # Element
  BY Ids DEF Element
<1>2. s \in Seq(Nat) /\ \A i \in 1 .. Len(s) : s[i] # Element
  OBVIOUS
<1> HIDE DEF h
<1>3. t \in Seq(Nat) /\ Len(t) = 2 + Len(s) /\ Len(s) \in Nat
  <2>1. t \in Seq(Nat) /\ Len(t) = Len(h) + Len(s)
    BY <1>1, <1>2, ConcatAt
  <2>2. Len(s) \in Nat
    BY <1>2, LenProperties
  <2>3. QED
    BY <1>1, <2>1, <2>2
<1>4. t[1] = Element /\ t[2] # Element
  <2>1. 1 \in 1 .. Len(h) /\ 2 \in 1 .. Len(h)
    BY <1>1
  <2>2. h \in Seq(Nat)
    BY <1>1
  <2>3. \A i \in 1 .. Len(h) : t[i] = h[i]
    BY <1>2, <2>2, ConcatAt
  <2>4. QED
    BY <1>1, <2>1, <2>3
<1>5. \A i \in 1 .. Len(s) : t[2 + i] = s[i]
  <2>1. h \in Seq(Nat)
    BY <1>1
  <2>2. \A i \in 1 .. Len(s) : t[Len(h) + i] = s[i]
    BY <1>2, <2>1, ConcatAt
  <2>3. QED
    BY <1>1, <2>2
<1> HIDE DEF t
<1>6. OneElement(t)
  <2> SUFFICES ASSUME NEW i \in 1 .. Len(t) PROVE t[i] = Element <=> i = 1
    BY <1>3 DEF OneElement
  <2>1. CASE i > 2
    <3>1. i - 2 \in 1 .. Len(s) /\ 2 + (i - 2) = i
      BY <1>3, <2>1
    <3>2. t[i] = s[i - 2]
      BY <1>5, <3>1
    <3>3. QED
      BY <1>2, <2>1, <3>1, <3>2
  <2>2. CASE i <= 2
    <3>1. i = 1 \/ i = 2
      BY <2>2
    <3>2. QED
      BY <3>1, <1>4
  <2>3. QED
    BY <2>1, <2>2
<1>7. Fits(t) /\ Len(t) >= 2
  BY <1>3 DEF Fits
<1>8. t \in Texts
  BY <1>3, <1>6, <1>7 DEF Texts
<1>9. \A i \in 1 .. Len(s) : t[i + 2] = s[i]
  <2>1. \A i \in 1 .. Len(s) : i + 2 = 2 + i
    OBVIOUS
  <2>2. QED
    BY <1>5, <2>1
<1>10. QED
  BY <1>3, <1>8, <1>9 DEF t, h

(* The answer to a query names the blocks there are. *)
LEMMA QueryAnswer ==
  \E t \in Texts : Answer(Query) = EncodeString(t) /\ ResponseFbList(t) = {n \in Names : Exists(n)}
<1> DEFINE S == {n \in Names : Exists(n)}
           s == SetToSeq(S)
           t == <<Element, Id["QUERY"]>> \o s
<1>1. IsFiniteSet(S) /\ Cardinality(S) <= Cardinality(Names) /\ Cardinality(S) \in Nat
  BY FS_Subset, FS_CardinalityType, NamesAssumption
<1>2. s \in Seq(S) /\ Len(s) = Cardinality(S) /\ \A x \in S : \E i \in 1 .. Len(s) : s[i] = x
  BY <1>1, SetToSeqShape
<1>3. s \in Seq(Nat \ {Element})
  <2>1. S \subseteq Nat \ {Element}
    BY NamesAssumption
  <2> HIDE DEF S, s
  <2>2. QED
    BY <1>2, <2>1, SeqMonotonic
<1>4. Len(s) + 2 < ByteBase * ByteBase
  <2>1. Cardinality(Names) \in Nat /\ Cardinality(Names) + 2 < ByteBase * ByteBase
    BY FS_CardinalityType, NamesAssumption
  <2>2. ByteBase * ByteBase \in Nat
    BY ByteAssumption
  <2> DEFINE limit == ByteBase * ByteBase
             names == Cardinality(Names)
  <2> HIDE DEF limit, names
  <2>3. QED
    BY <1>1, <1>2, <2>1, <2>2 DEF limit, names
<1>5. "QUERY" \in Actions
  BY DEF Actions
<1> HIDE DEF s
<1>6. t \in Texts /\ Len(t) = Len(s) + 2 /\ \A i \in 1 .. Len(s) : t[i + 2] = s[i]
  BY <1>3, <1>4, <1>5, TextShape
<1>7. Answer(Query) = EncodeString(t)
  BY DEF Answer, Query, Command, s
<1> HIDE DEF t
<1>8. ResponseFbList(t) = S
  <2> HIDE DEF S
  <2>1. ASSUME NEW n \in S PROVE \E i \in 3 .. Len(t) : t[i] = n
    <3>1. PICK i \in 1 .. Len(s) : s[i] = n
      BY <1>2
    <3>2. i + 2 \in 3 .. Len(t) /\ t[i + 2] = n
      BY <1>2, <1>3, <1>6, <3>1
    <3>3. QED
      BY <3>2
  <2>2. ASSUME NEW i \in 3 .. Len(t) PROVE t[i] \in S
    <3>1. i - 2 \in 1 .. Len(s) /\ (i - 2) + 2 = i
      BY <1>3, <1>6
    <3>2. t[i] = s[i - 2]
      BY <1>6, <3>1
    <3>3. QED
      BY <1>2, <3>1, <3>2
  <2>3. S \subseteq Names
    BY DEF S
  <2>4. QED
    BY <2>1, <2>2, <2>3 DEF ResponseFbList
<1>9. QED
  BY <1>6, <1>7, <1>8

LEMMA AnswerText ==
  ASSUME NEW c, c.action \in Actions
  PROVE  \E t \in Texts : Answer(c) = EncodeString(t)
<1>1. CASE c.action = "QUERY"
  <2>1. Answer(c) = Answer(Query)
    BY <1>1 DEF Answer, Query, Command
  <2>2. QED
    BY <2>1, QueryAnswer
<1>2. CASE c.action # "QUERY"
  <2> DEFINE s == IF Accepts(c) THEN <<>> ELSE <<Reason>>
  <2>1. s \in Seq(Nat \ {Element}) /\ Len(s) <= 1 /\ Len(s) \in Nat
    <3>1. CASE Accepts(c)
      <4>1. s = <<>>
        BY <3>1
      <4>2. QED
        BY <4>1
    <3>2. CASE ~Accepts(c)
      <4>1. s = <<Reason>> /\ Reason \in Nat \ {Element}
        BY <3>2 DEF Reason, Element
      <4>2. s \in Seq(Nat \ {Element}) /\ Len(s) = 1
        <5> HIDE DEF s
        <5>1. Len(<<Reason>>) = 1 /\ \A S : Reason \in S => <<Reason>> \in Seq(S)
          OBVIOUS
        <5>2. QED
          BY <4>1, <5>1
      <4>3. QED
        BY <4>2
    <3>3. QED
      BY <3>1, <3>2
  <2>2. Len(s) + 2 < ByteBase * ByteBase
    <3>1. ByteBase \in Nat /\ ByteBase >= 2
      BY ByteAssumption
    <3>2. ByteBase * ByteBase >= 4 /\ ByteBase * ByteBase \in Nat
      BY <3>1
    <3> DEFINE limit == ByteBase * ByteBase
    <3> HIDE DEF limit, s
    <3>3. QED
      BY <2>1, <3>2 DEF limit
  <2>3. Answer(c) = EncodeString(<<Element, Id[c.action]>> \o s)
    BY <1>2 DEF Answer
  <2> HIDE DEF s
  <2>4. <<Element, Id[c.action]>> \o s \in Texts
    BY <2>1, <2>2, TextShape
  <2>5. QED
    BY <2>3, <2>4
<1>3. QED
  BY <1>1, <1>2

(* An answer is nothing else than itself followed by nothing. *)
LEMMA WholeAnswer ==
  ASSUME NEW t \in Texts, NEW u \in Texts, NEW rest \in Seq(Nat),
         EncodeString(t) \o rest = EncodeString(u)
  PROVE  t = u /\ rest = <<>>
<1> DEFINE a == EncodeString(t)
           b == EncodeString(u)
<1>1. /\ t \in Seq(Nat) /\ Len(t) \in Nat /\ Len(t) < ByteBase * ByteBase
      /\ u \in Seq(Nat) /\ Len(u) \in Nat /\ Len(u) < ByteBase * ByteBase
  BY LenProperties DEF Texts, Fits
<1>2. a \in Seq(Nat) /\ Len(a) = 3 + Len(t) /\ a[2] = High(Len(t)) /\ a[3] = Low(Len(t))
  BY <1>1, EncodeStringShape
<1>3. b \in Seq(Nat) /\ Len(b) = 3 + Len(u) /\ b[2] = High(Len(u)) /\ b[3] = Low(Len(u))
  BY <1>1, EncodeStringShape
<1>4. \A i \in 1 .. Len(t) : a[3 + i] = t[i]
  BY <1>1, EncodeStringShape
<1>5. \A i \in 1 .. Len(u) : b[3 + i] = u[i]
  BY <1>1, EncodeStringShape
<1> HIDE DEF a, b
<1>6. a \o rest = b
  BY DEF a, b
<1>7. Len(b) = Len(a) + Len(rest) /\ Len(rest) \in Nat
  BY <1>2, <1>6, ConcatAt, LenProperties
<1>8. b[2] = a[2] /\ b[3] = a[3]
  <2>1. 2 \in 1 .. Len(a) /\ 3 \in 1 .. Len(a)
    BY <1>1, <1>2
  <2>2. QED
    BY <1>2, <1>6, <2>1, ConcatAt
<1>9. Len(t) = Len(u)
  <2>1. Length(High(Len(t)), Low(Len(t))) = Len(t)
    BY <1>1, LengthReadBack
  <2>2. Length(High(Len(u)), Low(Len(u))) = Len(u)
    BY <1>1, LengthReadBack
  <2>3. QED
    BY <1>2, <1>3, <1>8, <2>1, <2>2
<1>10. rest = <<>>
  <2>1. Len(rest) = 0
    BY <1>1, <1>2, <1>3, <1>7, <1>9
  <2>2. QED
    BY <2>1, EmptySeq
<1>11. a = b
  BY <1>2, <1>6, <1>10, ConcatEmptySeq
<1>12. t = u
  BY <1>1, <1>4, <1>5, <1>9, <1>11, SeqEqual
<1>13. QED
  BY <1>10, <1>12

(***************************************************************************)
(* The commands of a file.                                                 *)
(***************************************************************************)
Count(f) == Len(Groups[f])
Tasks(k, f) == TaskCommands(Groups[f][k], f)

(* The commands that go before those of the file. *)
Replaced(g) == IF g.name \in fbList THEN 2 ELSE 0

LEMMA GroupType ==
  ASSUME NEW f \in Files
  PROVE  /\ Count(f) \in Nat
         /\ DOMAIN Groups[f] = 1 .. Count(f)
         /\ Range(Groups[f]) = {Groups[f][k] : k \in 1 .. Count(f)}
         /\ \A k \in 1 .. Count(f) :
               /\ Groups[f][k].name \in Names
               /\ Groups[f][k].actions \in Seq({"CREATE", "START"})
               /\ Groups[f][k].name \in NamesOf(f)
<1> DEFINE R == [name : Names, defect : Defects, actions : Seq({"CREATE", "START"})]
<1>1. Groups[f] \in Seq(R)
  BY FilesAssumption
<1> HIDE DEF R
<1>2. Count(f) \in Nat /\ DOMAIN Groups[f] = 1 .. Count(f)
  BY <1>1 DEF Count
<1>3. Range(Groups[f]) = {Groups[f][k] : k \in 1 .. Count(f)}
  BY <1>2 DEF Range
<1>4. \A k \in 1 .. Count(f) :
         Groups[f][k].name \in Names /\ Groups[f][k].actions \in Seq({"CREATE", "START"})
  <2>1. \A k \in 1 .. Count(f) : Groups[f][k] \in R
    BY <1>1, ElementOfSeq DEF Count
  <2>2. QED
    BY <2>1 DEF R
<1>5. \A k \in 1 .. Count(f) : Groups[f][k].name \in NamesOf(f)
  BY <1>3 DEF NamesOf
<1>6. QED
  BY <1>2, <1>3, <1>4, <1>5

LEMMA TaskCommandsShape ==
  ASSUME NEW f \in Files, NEW k \in 1 .. Count(f), NEW g, g = Groups[f][k], NEW cs, cs = TaskCommands(g, f)
  PROVE  /\ cs \in Seq(Cmds)
         /\ Len(cs) = Replaced(g) + Len(g.actions)
         /\ Len(g.actions) \in Nat
         /\ g.name \in fbList => cs[1] = Command("KILL", g.name, f) /\ cs[2] = Command("DELETE", g.name, f)
         /\ \A p \in 1 .. Len(g.actions) : cs[Replaced(g) + p] = Command(g.actions[p], g.name, f)
<1> DEFINE old == IF g.name \in fbList
                  THEN <<Command("KILL", g.name, f), Command("DELETE", g.name, f)>> ELSE <<>>
           new == [i \in DOMAIN g.actions |-> Command(g.actions[i], g.name, f)]
<1>1. g.name \in Names /\ g.actions \in Seq({"CREATE", "START"})
  BY GroupType
<1>2. \A a \in Actions : Command(a, g.name, f) \in Cmds
  BY <1>1 DEF Command, Cmds
<1>3. old \in Seq(Cmds) /\ Len(old) = Replaced(g)
  <2>1. Command("KILL", g.name, f) \in Cmds /\ Command("DELETE", g.name, f) \in Cmds
    BY <1>2 DEF Actions
  <2>2. CASE g.name \in fbList
    BY <2>1, <2>2 DEF Replaced
  <2>3. CASE g.name \notin fbList
    BY <2>3 DEF Replaced
  <2>4. QED
    BY <2>2, <2>3
<1>4. g.name \in fbList => old[1] = Command("KILL", g.name, f) /\ old[2] = Command("DELETE", g.name, f)
  OBVIOUS
<1>5. DOMAIN g.actions = 1 .. Len(g.actions) /\ Len(g.actions) \in Nat
  BY <1>1
<1>6. \A i \in 1 .. Len(g.actions) : Command(g.actions[i], g.name, f) \in Cmds
  <2>1. \A i \in 1 .. Len(g.actions) : g.actions[i] \in Actions
    BY <1>1 DEF Actions
  <2>2. QED
    BY <2>1, <1>2
<1>7. new \in Seq(Cmds) /\ Len(new) = Len(g.actions)
  BY <1>5, <1>6
<1>8. \A p \in 1 .. Len(g.actions) : new[p] = Command(g.actions[p], g.name, f)
  BY <1>5
<1>9. cs = old \o new
  BY DEF TaskCommands
<1> HIDE DEF old, new
<1>10. cs \in Seq(Cmds) /\ Len(cs) = Len(old) + Len(new)
  BY <1>3, <1>7, <1>9, ConcatAt
<1>11. g.name \in fbList => cs[1] = old[1] /\ cs[2] = old[2]
  <2>1. \A i \in 1 .. Len(old) : cs[i] = old[i]
    BY <1>3, <1>7, <1>9, ConcatAt
  <2>2. QED
    BY <1>3, <2>1 DEF Replaced
<1>12. \A p \in 1 .. Len(g.actions) : cs[Replaced(g) + p] = new[p]
  <2>1. \A p \in 1 .. Len(new) : cs[Len(old) + p] = new[p]
    BY <1>3, <1>7, <1>9, ConcatAt
  <2>2. QED
    BY <1>3, <1>7, <2>1
<1>13. \A p \in 1 .. Len(g.actions) : cs[Replaced(g) + p] = Command(g.actions[p], g.name, f)
  BY <1>8, <1>12
<1>14. Len(cs) = Replaced(g) + Len(g.actions)
  BY <1>3, <1>7, <1>10
<1>15. g.name \in fbList => cs[1] = Command("KILL", g.name, f) /\ cs[2] = Command("DELETE", g.name, f)
  BY <1>4, <1>11
<1>16. QED
  BY <1>5, <1>10, <1>13, <1>14, <1>15

(* Every command of a task names the block of its group. *)
LEMMA TaskCommandsOwn ==
  ASSUME NEW f \in Files, NEW k \in 1 .. Count(f), NEW g, g = Groups[f][k], NEW cs, cs = TaskCommands(g, f),
         NEW p \in 1 .. Len(cs)
  PROVE  /\ cs[p].name = g.name /\ cs[p].from = f
         /\ p <= Replaced(g) => /\ g.name \in fbList
                                /\ p = 1 => cs[p].action = "KILL"
                                /\ p = 2 => cs[p].action = "DELETE"
                                /\ p \in 1 .. 2
         /\ p > Replaced(g) => /\ p - Replaced(g) \in 1 .. Len(g.actions)
                               /\ cs[p].action = g.actions[p - Replaced(g)]
                               /\ cs[p].action \in {"CREATE", "START"}
<1>1. Len(cs) = Replaced(g) + Len(g.actions) /\ Len(g.actions) \in Nat
  BY TaskCommandsShape
<1>2. g.name \in fbList => cs[1] = Command("KILL", g.name, f) /\ cs[2] = Command("DELETE", g.name, f)
  BY TaskCommandsShape
<1>3. \A q \in 1 .. Len(g.actions) : cs[Replaced(g) + q] = Command(g.actions[q], g.name, f)
  BY TaskCommandsShape
<1>4. Replaced(g) \in {0, 2} /\ (Replaced(g) = 2 => g.name \in fbList)
  BY DEF Replaced
<1>5. CASE p <= Replaced(g)
  <2>1. g.name \in fbList /\ p \in 1 .. 2
    BY <1>4, <1>5
  <2>2. p = 1 => cs[p].name = g.name /\ cs[p].from = f /\ cs[p].action = "KILL"
    BY <1>2, <2>1 DEF Command
  <2>3. p = 2 => cs[p].name = g.name /\ cs[p].from = f /\ cs[p].action = "DELETE"
    BY <1>2, <2>1 DEF Command
  <2>4. p = 1 \/ p = 2
    BY <2>1
  <2>5. ~(p > Replaced(g))
    BY <1>4, <1>5
  <2>6. QED
    BY <2>1, <2>2, <2>3, <2>4, <2>5
<1>6. CASE p > Replaced(g)
  <2> DEFINE q == p - Replaced(g)
  <2>1. q \in 1 .. Len(g.actions) /\ p = Replaced(g) + q
    BY <1>1, <1>4, <1>6
  <2> HIDE DEF q
  <2>2. cs[p] = Command(g.actions[q], g.name, f)
    BY <1>3, <2>1
  <2>3. cs[p].name = g.name /\ cs[p].from = f /\ cs[p].action = g.actions[q]
    BY <2>2 DEF Command
  <2>4. g.actions[q] \in {"CREATE", "START"}
    <3>1. g.actions \in Seq({"CREATE", "START"})
      BY GroupType
    <3>2. QED
      BY <2>1, <3>1
  <2>5. ~(p <= Replaced(g))
    BY <1>4, <1>6
  <2>6. QED
    BY <2>1, <2>3, <2>4, <2>5 DEF q
<1>7. QED
  BY <1>4, <1>5, <1>6

(* Each task stands in the commands of the file as a whole. *)
Stands(f, cs, off) ==
    /\ off \in [1 .. Count(f) -> Nat]
    /\ \A k \in GetExecTasks(f) : \A p \in 1 .. Len(Tasks(k, f)) :
          off[k] + p \in 1 .. Len(cs) /\ cs[off[k] + p] = Tasks(k, f)[p]
    /\ \A i \in 1 .. Len(cs) : \E k \in GetExecTasks(f) : \E p \in 1 .. Len(Tasks(k, f)) :
          i = off[k] + p

LEMMA ExecTasksType ==
  ASSUME NEW f \in Files
  PROVE  GetExecTasks(f) \subseteq 1 .. Count(f)
BY GroupType DEF GetExecTasks

LEMMA PublishShape ==
  ASSUME NEW f \in Files
  PROVE  PublishCommands(f) \in Seq(Cmds) /\ \E off : Stands(f, PublishCommands(f), off)
<1> DEFINE ss == [i \in DOMAIN Groups[f] |->
                     IF i \in GetExecTasks(f) THEN TaskCommands(Groups[f][i], f) ELSE <<>>]
           cs == PublishCommands(f)
<1>1. DOMAIN Groups[f] = 1 .. Count(f) /\ Count(f) \in Nat
  BY GroupType
<1>2. \A k \in 1 .. Count(f) : Tasks(k, f) \in Seq(Cmds)
  BY TaskCommandsShape DEF Tasks
<1>3. ss \in Seq(Seq(Cmds)) /\ Len(ss) = Count(f)
  <2> DEFINE part(k) == IF k \in GetExecTasks(f) THEN Tasks(k, f) ELSE <<>>
  <2>1. ss = [k \in 1 .. Count(f) |-> part(k)]
    BY <1>1 DEF Tasks
  <2>2. \A k \in 1 .. Count(f) : part(k) \in Seq(Cmds)
    BY <1>2
  <2> HIDE DEF part, ss
  <2>3. QED
    BY <1>1, <2>1, <2>2
<1>4. \A k \in 1 .. Count(f) : /\ k \in GetExecTasks(f) => ss[k] = Tasks(k, f)
                               /\ k \notin GetExecTasks(f) => ss[k] = <<>>
  BY <1>1 DEF Tasks
<1>5. cs = FlattenSeq(ss)
  BY DEF PublishCommands
<1> HIDE DEF ss, cs
<1>6. cs \in Seq(Cmds)
  BY <1>3, <1>5, FlattenShape
<1>7. PICK off : Tiles(ss, cs, off)
  BY <1>3, <1>5, FlattenShape
<1>8. ASSUME NEW k \in GetExecTasks(f), NEW p \in 1 .. Len(Tasks(k, f))
      PROVE  off[k] + p \in 1 .. Len(cs) /\ cs[off[k] + p] = Tasks(k, f)[p]
  <2>1. k \in 1 .. Len(ss) /\ ss[k] = Tasks(k, f)
    BY <1>3, <1>4, ExecTasksType
  <2>2. QED
    BY <1>7, <2>1 DEF Tiles
<1>9. ASSUME NEW i \in 1 .. Len(cs)
      PROVE  \E k \in GetExecTasks(f) : \E p \in 1 .. Len(Tasks(k, f)) : i = off[k] + p
  <2>1. PICK k \in 1 .. Count(f) : \E p \in 1 .. Len(ss[k]) : i = off[k] + p
    BY <1>3, <1>7 DEF Tiles
  <2>2. k \in GetExecTasks(f)
    BY <1>4, <2>1
  <2>3. QED
    BY <1>4, <2>1, <2>2
<1>10. Stands(f, cs, off)
  <2>1. off \in [1 .. Count(f) -> Nat]
    BY <1>3, <1>7 DEF Tiles
  <2>2. QED
    BY <1>8, <1>9, <2>1 DEF Stands
<1>11. QED
  BY <1>6, <1>10 DEF cs

-----------------------------------------------------------------------------
(***************************************************************************)
(* The types, and what Execute() keeps of its own state.                   *)
(***************************************************************************)
OwnState ==
    /\ pc # "idle" => file \in Files
    /\ pc \notin {"read", "receive"} => resultData = <<>>
    /\ pc \in Ended <=> connection = "closed"
    /\ pc \in Ended => socket = <<>>
    /\ connection = "broken" => requests = <<>>
    /\ pc = "publish" => content = file

TypeInv == TypeOK /\ OwnState

States == {"none", "idle", "running", "killed"}
Blocks == [state : States, from : Files \cup {NoFile}]

LEMMA QueryType == Query \in Cmds /\ Query.action = "QUERY" /\ Query.name \in Names
<1>1. AnyName \in Names
  BY NamesAssumption DEF AnyName
<1>2. QED
  BY <1>1 DEF Query, Command, Cmds, Actions

LEMMA TypeFacts ==
  ASSUME TypeOK
  PROVE  /\ commands \in Seq(Cmds) /\ requests \in Seq(Cmds)
         /\ blocks \in [Names -> Blocks]
BY DEF TypeOK, Cmds, Blocks, States

(* Leave leaves nothing behind. *)
LEMMA LeaveType ==
  ASSUME TypeInv, NEW result \in {"idle", "true", "false", "threw"}, Leave(result),
         file' \in Files \cup {NoFile}, result # "idle" => file' \in Files,
         isValid' \in BOOLEAN, content' \in Files \cup {NoFile}, fbList' \subseteq Names,
         UNCHANGED requests, UNCHANGED blocks, disturbed' \in BOOLEAN
  PROVE  TypeInv'
<1>1. /\ pc' = result /\ connection' = "closed" /\ socket' = <<>>
      /\ commands' = <<>> /\ resultData' = <<>>
  BY DEF Leave
<1>2. result \in Labels /\ result \in Ended /\ result \notin {"parse", "publish"}
      /\ result \notin {"send", "read", "receive"}
  BY DEF Labels, Ended
<1>3. TypeOK'
  BY <1>1, <1>2 DEF TypeInv, TypeOK
<1>4. OwnState'
  BY <1>1, <1>2 DEF OwnState
<1>5. QED
  BY <1>3, <1>4 DEF TypeInv

LEMMA AfterType ==
  ASSUME TypeOK, NEW c \in Cmds
  PROVE  After(c) \in Blocks
<1>1. blocks[c.name] \in Blocks
  BY TypeFacts DEF Cmds
<1>2. c.from \in Files \cup {NoFile}
  BY DEF Cmds
<1>3. blocks[c.name].from \in Files \cup {NoFile}
  BY <1>1 DEF Blocks
<1>4. \A s \in States : [blocks[c.name] EXCEPT !.state = s] \in Blocks
  BY <1>1 DEF Blocks
<1>5. CASE c.action = "KILL"
  BY <1>4, <1>5 DEF After, States
<1>6. CASE c.action = "DELETE"
  BY <1>6 DEF After, NoBlock, Blocks, States
<1>7. CASE c.action = "CREATE"
  BY <1>2, <1>7 DEF After, Blocks, States
<1>8. CASE c.action = "START"
  BY <1>4, <1>8 DEF After, States
<1>9. CASE c.action \notin {"KILL", "DELETE", "CREATE", "START"}
  BY <1>1, <1>9 DEF After
<1>10. QED
  BY <1>5, <1>6, <1>7, <1>8, <1>9

LEMMA AnswerType ==
  ASSUME NEW c \in Cmds
  PROVE  Answer(c) \in Seq(Nat)
BY AnswerText, EncodedTextType DEF Cmds

LEMMA StepKeepsType == TypeInv /\ [Next]_vars => TypeInv'
<1> SUFFICES ASSUME TypeInv, [Next]_vars PROVE TypeInv'
  OBVIOUS
<1>0. TypeOK /\ OwnState /\ commands \in Seq(Cmds) /\ requests \in Seq(Cmds) /\ blocks \in [Names -> Blocks]
  BY TypeFacts DEF TypeInv
<1>1. ASSUME NEW f \in Files, Connect(f) PROVE TypeInv'
  <2>1. CASE Leave("threw")
    BY <1>0, <1>1, <2>1, LeaveType DEF Connect, TypeOK, runtime
  <2>2. CASE requests = <<>> /\ pc' = "send" /\ connection' = "live" /\ commands' = <<Query>>
             /\ UNCHANGED <<socket, resultData>>
    <3>1. pc \notin {"read", "receive"}
      BY <1>1 DEF Connect, Ended
    <3>2. <<Query>> \in Seq(Cmds) /\ <<Query>> # <<>>
      BY QueryType
    <3>3. TypeOK'
      BY <1>0, <1>1, <2>2, <3>2 DEF Connect, TypeOK, runtime, Labels, Cmds
    <3>4. OwnState'
      BY <1>0, <1>1, <2>2, <3>1 DEF Connect, OwnState, runtime, Ended
    <3>5. QED
      BY <3>3, <3>4 DEF TypeInv
  <2>3. QED
    BY <1>1, <2>1, <2>2 DEF Connect
<1>2. CASE Write
  <2>1. CASE Leave("threw") /\ UNCHANGED requests
    BY <1>0, <1>2, <2>1, LeaveType DEF Write, TypeOK, OwnState
  <2>2. CASE connection = "live" /\ requests' = Append(requests, Head(commands)) /\ pc' = "read"
             /\ UNCHANGED <<connection, socket, commands>>
    <3>1. Head(commands) \in Cmds
      BY <1>0, <1>2 DEF Write, TypeOK
    <3>2. requests' \in Seq(Cmds)
      BY <1>0, <2>2, <3>1
    <3>3. TypeOK'
      BY <1>0, <1>2, <2>2, <3>2 DEF Write, TypeOK, Labels, Cmds
    <3>4. OwnState'
      BY <1>0, <1>2, <2>2 DEF Write, OwnState, Ended
    <3>5. QED
      BY <3>3, <3>4 DEF TypeInv
  <2>3. CASE pc' \in {"read", "receive"} /\ UNCHANGED <<connection, socket, commands, requests>>
    <3>3. TypeOK'
      BY <1>0, <1>2, <2>3 DEF Write, TypeOK, Labels
    <3>4. OwnState'
      BY <1>0, <1>2, <2>3 DEF Write, OwnState, Ended
    <3>5. QED
      BY <3>3, <3>4 DEF TypeInv
  <2>4. QED
    BY <1>2, <2>1, <2>2, <2>3 DEF Write
<1>3. ASSUME NEW n \in 1 .. CHUNK_SIZE, Read(n) PROVE TypeInv'
  <2>1. n \in Nat /\ n <= Len(socket) /\ socket \in Seq(Nat) /\ resultData \in Seq(Nat)
    BY <1>0, <1>3, ChunkAssumption DEF Read, TypeOK
  <2>2. SubSeq(socket, 1, n) \in Seq(Nat) /\ SubSeq(socket, n + 1, Len(socket)) \in Seq(Nat)
    BY <2>1
  <2>3. resultData' \in Seq(Nat) /\ socket' \in Seq(Nat)
    BY <1>3, <2>1, <2>2, ConcatProperties DEF Read
  <2>4. pc = "read" /\ pc' \in {"read", "receive"}
    BY <1>3 DEF Read
  <2>5. UNCHANGED <<isValid, content, file, fbList, commands, connection, requests, blocks, disturbed>>
    BY <1>3 DEF Read, runtime
  <2>6. TypeOK'
    BY <1>0, <2>3, <2>4, <2>5 DEF TypeOK, Labels
  <2>7. OwnState'
    BY <1>0, <2>4, <2>5 DEF OwnState, Ended
  <2>8. QED
    BY <2>6, <2>7 DEF TypeInv
<1>4. CASE Timeout
  <2>1. TypeOK'
    BY <1>0, <1>4 DEF Timeout, TypeOK, Labels, client, runtime
  <2>2. OwnState'
    BY <1>0, <1>4 DEF Timeout, OwnState, Ended, client, runtime
  <2>3. QED
    BY <2>1, <2>2 DEF TypeInv
<1>5. CASE OnQueryResponse
  <2>0. pc = "receive" /\ UNCHANGED <<isValid, content, file, requests, blocks, disturbed>>
    BY <1>5 DEF OnQueryResponse, runtime
  <2>1. CASE (Leave("threw") \/ Leave("false")) /\ UNCHANGED fbList
    BY <1>0, <2>0, <2>1, LeaveType DEF TypeOK, OwnState
  <2>2. CASE /\ fbList' \subseteq Names /\ pc' = "parse" /\ commands' = <<>>
             /\ resultData' = <<>> /\ UNCHANGED <<connection, socket>>
    <3>1. TypeOK'
      BY <1>0, <2>0, <2>2 DEF TypeOK, Labels, OwnState
    <3>2. OwnState'
      BY <1>0, <2>0, <2>2 DEF OwnState, Ended
    <3>3. QED
      BY <3>1, <3>2 DEF TypeInv
  <2>3. \A text : ResponseFbList(text) \subseteq Names
    BY DEF ResponseFbList
  <2>4. QED
    BY <1>5, <2>1, <2>2, <2>3 DEF OnQueryResponse
<1>6. CASE Parse
  <2>0. pc = "parse" /\ UNCHANGED <<file, fbList, requests, blocks, disturbed>> /\ file \in Files
        /\ isValid' \in BOOLEAN /\ content' \in Files \cup {NoFile} /\ (isValid' => content' = file)
    BY <1>0, <1>6 DEF Parse, runtime, TypeOK
  <2>1. CASE Leave("threw")
    BY <1>0, <2>0, <2>1, LeaveType DEF TypeOK
  <2>2. CASE isValid' /\ pc' = "publish" /\ UNCHANGED <<connection, socket, commands, resultData>>
    <3>1. TypeOK'
      BY <1>0, <2>0, <2>2 DEF TypeOK, Labels
    <3>2. OwnState'
      BY <1>0, <2>0, <2>2 DEF OwnState, Ended
    <3>3. QED
      BY <3>1, <3>2 DEF TypeInv
  <2>3. QED
    BY <1>6, <2>1, <2>2 DEF Parse
<1>7. CASE OnPublish
  <2>0. /\ pc = "publish" /\ UNCHANGED <<content, file, fbList, requests, blocks, disturbed>>
        /\ isValid' \in BOOLEAN /\ file \in Files /\ content \in Files
    BY <1>0, <1>7 DEF OnPublish, runtime, TypeOK
  <2>1. CASE Leave("true")
    BY <1>0, <2>0, <2>1, LeaveType DEF TypeOK
  <2>2. CASE /\ PublishCommands(content) # <<>> /\ pc' = "send" /\ commands' = PublishCommands(content)
             /\ UNCHANGED <<connection, socket, resultData>>
    <3>1. commands' \in Seq(Cmds)
      BY <2>0, <2>2, PublishShape
    <3>2. TypeOK'
      BY <1>0, <2>0, <2>2, <3>1 DEF TypeOK, Labels, Cmds
    <3>3. OwnState'
      BY <1>0, <2>0, <2>2 DEF OwnState, Ended
    <3>4. QED
      BY <3>2, <3>3 DEF TypeInv
  <2>3. QED
    BY <1>7, <2>1, <2>2 DEF OnPublish
<1>8. CASE OnCommandResponse
  <2>0. pc = "receive" /\ UNCHANGED <<isValid, content, file, fbList, requests, blocks, disturbed>>
    BY <1>8 DEF OnCommandResponse, runtime
  <2>1. CASE Leave("threw") \/ Leave("true")
    BY <1>0, <2>0, <2>1, LeaveType DEF TypeOK, OwnState
  <2>2. CASE /\ Len(commands) # 1 /\ pc' = "send" /\ commands' = Tail(commands) /\ resultData' = <<>>
             /\ UNCHANGED <<connection, socket>>
    <3>1. commands # <<>>
      BY <1>0, <2>0 DEF TypeOK
    <3>2. commands' \in Seq(Cmds) /\ commands' # <<>>
      <4>1. Len(commands) \in Nat /\ Len(commands) # 0
        BY <1>0, <3>1, EmptySeq, LenProperties
      <4>2. Tail(commands) \in Seq(Cmds) /\ Len(Tail(commands)) = Len(commands) - 1
        BY <1>0, <3>1, HeadTailProperties
      <4>3. Len(Tail(commands)) # 0
        BY <2>2, <4>1, <4>2
      <4>4. QED
        <5> DEFINE rest == Tail(commands)
        <5> HIDE DEF rest
        <5>1. rest \in Seq(Cmds) /\ Len(rest) # 0
          BY <4>2, <4>3 DEF rest
        <5>2. rest # <<>>
          BY <5>1
        <5>3. QED
          BY <2>2, <5>1, <5>2 DEF rest
    <3>3. TypeOK'
      BY <1>0, <2>0, <2>2, <3>2 DEF TypeOK, Labels, Cmds
    <3>4. OwnState'
      BY <1>0, <2>0, <2>2 DEF OwnState, Ended
    <3>5. QED
      BY <3>3, <3>4 DEF TypeInv
  <2>3. QED
    BY <1>8, <2>1, <2>2 DEF OnCommandResponse
<1>9. CASE ExecuteRequest
  <2> DEFINE c == Head(requests)
  <2>0. /\ requests # <<>> /\ UNCHANGED <<isValid, content, file, fbList, commands, resultData>>
        /\ UNCHANGED <<connection, pc, disturbed>> /\ requests' = Tail(requests)
        /\ blocks' = IF Accepts(c) THEN [blocks EXCEPT ![c.name] = After(c)] ELSE blocks
        /\ socket' = IF connection = "live" THEN socket \o Answer(c) ELSE socket
    BY <1>9 DEF ExecuteRequest, client
  <2>1. c \in Cmds /\ requests' \in Seq(Cmds)
    BY <1>0, <2>0
  <2> HIDE DEF c
  <2>2. After(c) \in Blocks /\ c.name \in Names
    BY <1>0, <2>1, AfterType DEF Cmds
  <2>3. blocks' \in [Names -> Blocks]
    BY <1>0, <2>0, <2>2
  <2>4. socket' \in Seq(Nat)
    <3>1. socket \in Seq(Nat) /\ Answer(c) \in Seq(Nat)
      BY <1>0, <2>1, AnswerType DEF TypeOK
    <3>2. socket \o Answer(c) \in Seq(Nat)
      BY <3>1, ConcatProperties
    <3>3. QED
      BY <2>0, <3>1, <3>2
  <2>5. TypeOK'
    BY <1>0, <2>0, <2>1, <2>3, <2>4 DEF TypeOK, Cmds, Blocks, States
  <2>6. OwnState'
    BY <1>0, <2>0 DEF OwnState, Ended
  <2>7. QED
    BY <2>5, <2>6 DEF TypeInv
<1>10. CASE DropRequests
  <2>1. TypeOK'
    BY <1>0, <1>10 DEF DropRequests, TypeOK, client
  <2>2. OwnState'
    BY <1>0, <1>10 DEF DropRequests, OwnState, client
  <2>3. QED
    BY <2>1, <2>2 DEF TypeInv
<1>11. CASE RuntimeRestarts
  <2>1. blocks' \in [Names -> Blocks] /\ requests' \in Seq(Cmds) /\ requests' = <<>>
    BY <1>11 DEF RuntimeRestarts, NoBlock, Blocks, States
  <2>2. TypeOK'
    BY <1>0, <1>11, <2>1 DEF RuntimeRestarts, TypeOK, client, Cmds, Blocks, States
  <2>3. OwnState'
    BY <1>0, <1>11, <2>1 DEF RuntimeRestarts, OwnState, client
  <2>4. QED
    BY <2>2, <2>3 DEF TypeInv
<1>12. CASE Restart
  BY <1>0, <1>12, LeaveType DEF Restart, TypeOK, runtime
<1>13. CASE UNCHANGED vars
  <2>1. TypeOK'
    BY <1>0, <1>13 DEF vars, TypeOK
  <2>2. OwnState'
    BY <1>0, <1>13 DEF vars, OwnState
  <2>3. QED
    BY <2>1, <2>2 DEF TypeInv
<1>14. QED
  BY <1>1, <1>2, <1>3, <1>4, <1>5, <1>6, <1>7, <1>8, <1>9, <1>10, <1>11, <1>12, <1>13
  DEF Next, ClientStep

LEMMA InitType == Init => TypeInv
<1> SUFFICES ASSUME Init PROVE TypeInv
  OBVIOUS
<1>1. blocks \in [Names -> Blocks]
  BY DEF Init, NoBlock, Blocks, States
<1>2. commands \in Seq(Cmds) /\ requests \in Seq(Cmds) /\ socket \in Seq(Nat) /\ resultData \in Seq(Nat)
  BY DEF Init
<1>3. TypeOK
  BY <1>1, <1>2 DEF Init, TypeOK, Labels, Blocks, States, Cmds
<1>4. OwnState
  BY DEF Init, OwnState, Ended
<1>5. QED
  BY <1>3, <1>4 DEF TypeInv

LEMMA TypeInvariant == Spec => []TypeInv
BY InitType, StepKeepsType, PTL DEF Spec

(***************************************************************************)
(* The state of the parser, the client, the stream and the runtime keeps   *)
(* its types: each step sends commands of a file, reads bytes, and leaves  *)
(* the blocks in states that the runtime has.                              *)
(***************************************************************************)
THEOREM TypeCorrect == Spec => []TypeOK
BY TypeInvariant, PTL DEF TypeInv

(***************************************************************************)
(* Whatever Execute() met - a refused or broken connection, an unreadable  *)
(* answer, a bad file, a restart - it leaves the shared client closed.     *)
(***************************************************************************)
THEOREM ConnectionClosedAlways == Spec => []ConnectionClosed
<1>1. TypeInv => ConnectionClosed
  BY DEF TypeInv, OwnState, ConnectionClosed
<1>2. QED
  BY <1>1, TypeInvariant, PTL

-----------------------------------------------------------------------------
(***************************************************************************)
(* What was read and what was not read yet are whole answers together.     *)
(***************************************************************************)
StreamInv == resultData \o socket \in Streams

LEMMA NothingIsStream == <<>> \in Streams /\ <<>> \o <<>> \in Streams
<1>1. <<>> \in Streams
  BY StreamsClosed DEF ClosedUnderAnswers
<1>2. <<>> \o <<>> = <<>>
  BY ConcatEmptySeq
<1>3. QED
  BY <1>1, <1>2

LEMMA BytesAssociative ==
  ASSUME NEW a \in Seq(Nat), NEW b \in Seq(Nat), NEW c \in Seq(Nat)
  PROVE  (a \o b) \o c = a \o (b \o c)
BY ConcatAssociative

LEMMA CutConcat ==
  ASSUME NEW s \in Seq(Nat), NEW n \in Nat, n <= Len(s)
  PROVE  SubSeq(s, 1, n) \o SubSeq(s, n + 1, Len(s)) = s
<1> DEFINE a == SubSeq(s, 1, n)
           b == SubSeq(s, n + 1, Len(s))
<1>0. Len(s) \in Nat
  BY LenProperties
<1>1. a \in Seq(Nat) /\ Len(a) = n /\ \A i \in 1 .. n : a[i] = s[i]
  BY <1>0
<1>2. b \in Seq(Nat) /\ Len(b) = Len(s) - n /\ \A i \in 1 .. Len(s) - n : b[i] = s[n + i]
  <2>1. b \in Seq(Nat) /\ Len(b) = Len(s) - n
    BY <1>0
  <2>2. \A i \in 1 .. Len(s) - n : b[i] = s[n + 1 + i - 1]
    BY <1>0
  <2>3. \A i \in 1 .. Len(s) - n : n + 1 + i - 1 = n + i
    BY <1>0
  <2>4. QED
    BY <2>1, <2>2, <2>3
<1> HIDE DEF a, b
<1>a. a \in Seq(Nat) /\ b \in Seq(Nat)
  BY <1>1, <1>2
<1> DEFINE c == a \o b
<1>3. c \in Seq(Nat) /\ Len(c) = Len(a) + Len(b)
  BY <1>a, ConcatAt
<1>4. \A i \in 1 .. Len(a) : c[i] = a[i]
  BY <1>a, ConcatAt
<1>5. \A i \in 1 .. Len(b) : c[Len(a) + i] = b[i]
  BY <1>a, ConcatAt
<1> HIDE DEF c
<1>6. c \in Seq(Nat) /\ Len(c) = Len(s)
  BY <1>0, <1>1, <1>2, <1>3
<1>7. ASSUME NEW i \in 1 .. Len(s) PROVE c[i] = s[i]
  <2>1. CASE i <= n
    <3>1. i \in 1 .. n
      BY <2>1
    <3>2. c[i] = a[i] /\ a[i] = s[i]
      BY <1>1, <1>4, <3>1
    <3>3. QED
      BY <3>2
  <2>2. CASE i > n
    <3>1. i - n \in 1 .. Len(s) - n /\ n + (i - n) = i
      BY <1>0, <2>2
    <3> DEFINE j == i - n
    <3>2. j \in 1 .. Len(b) /\ n + j = i /\ j \in 1 .. Len(s) - n
      BY <1>2, <3>1
    <3> HIDE DEF j
    <3>3. b[j] = s[n + j]
      BY <1>2, <3>2
    <3>4. c[Len(a) + j] = b[j]
      BY <1>5, <3>2
    <3>5. Len(a) + j = i /\ n + j = i
      BY <1>1, <3>2
    <3>6. QED
      BY <3>3, <3>4, <3>5, Zenon
  <2>3. i \in Int
    BY <1>0
  <2>4. QED
    BY <2>1, <2>2, <2>3
<1>8. c = s
  BY <1>6, <1>7, SeqEqual
<1>9. QED
  BY <1>8 DEF a, b, c

(* A read moves bytes over, and changes nothing of the whole. *)
LEMMA ReadKeepsStream ==
  ASSUME TypeOK, NEW n \in 1 .. CHUNK_SIZE, Read(n)
  PROVE  resultData' \o socket' = resultData \o socket
<1> DEFINE a == SubSeq(socket, 1, n)
           b == SubSeq(socket, n + 1, Len(socket))
<1>1. n \in Nat /\ n <= Len(socket) /\ socket \in Seq(Nat) /\ resultData \in Seq(Nat)
  BY ChunkAssumption DEF Read, TypeOK
<1>2. a \in Seq(Nat) /\ b \in Seq(Nat)
  BY <1>1
<1>3. a \o b = socket
  BY <1>1, CutConcat
<1>4. resultData' = resultData \o a /\ socket' = b
  BY DEF Read
<1> HIDE DEF a, b
<1>5. (resultData \o a) \o b = resultData \o (a \o b)
  BY <1>1, <1>2, BytesAssociative
<1>6. QED
  BY <1>3, <1>4, <1>5

LEMMA LeaveStream ==
  ASSUME NEW result, Leave(result)
  PROVE  StreamInv'
BY NothingIsStream DEF Leave, StreamInv

LEMMA ReceivedWhole ==
  ASSUME TypeOK, StreamInv, resultData # <<>>, ~Unreadable(Deserialize(resultData))
  PROVE  \E t \in Texts : /\ resultData = EncodeString(t)
                          /\ socket \in Streams
                          /\ ~Deserialize(resultData).threw
                          /\ Deserialize(resultData).content = t
BY ReceivedOfStream DEF TypeOK, StreamInv

(* The answer is done with, or there was none. *)
LEMMA AcceptedStream ==
  ASSUME TypeOK, StreamInv, ~(resultData # <<>> /\ Unreadable(Deserialize(resultData))),
         resultData' = <<>>, socket' = socket
  PROVE  StreamInv'
<1>1. socket \in Seq(Nat) /\ <<>> \o socket = socket
  <2>1. socket \in Seq(Nat)
    BY DEF TypeOK
  <2>2. QED
    BY <2>1, ConcatEmptySeq
<1>2. socket \in Streams
  <2>1. CASE resultData = <<>>
    BY <1>1, <2>1 DEF StreamInv
  <2>2. CASE resultData # <<>>
    BY <2>2, ReceivedWhole
  <2>3. QED
    BY <2>1, <2>2
<1>3. QED
  BY <1>1, <1>2 DEF StreamInv

LEMMA StepKeepsStream == TypeInv /\ StreamInv /\ [Next]_vars => StreamInv'
<1> SUFFICES ASSUME TypeInv, StreamInv, [Next]_vars PROVE StreamInv'
  OBVIOUS
<1>0. TypeOK /\ OwnState
  BY DEF TypeInv
<1>u. UNCHANGED <<resultData, socket>> => StreamInv'
  BY DEF StreamInv
<1>1. ASSUME NEW f \in Files, Connect(f) PROVE StreamInv'
  BY <1>1, <1>u, LeaveStream DEF Connect
<1>2. CASE Write
  <2>1. UNCHANGED <<resultData, socket>> \/ Leave("threw")
    BY <1>0, <1>2 DEF Write, OwnState
  <2>2. QED
    BY <1>u, <2>1, LeaveStream
<1>3. ASSUME NEW n \in 1 .. CHUNK_SIZE, Read(n) PROVE StreamInv'
  BY <1>0, <1>3, ReadKeepsStream DEF StreamInv
<1>4. CASE Timeout
  BY <1>4, <1>u DEF Timeout, client
<1>5. CASE OnQueryResponse
  <2>1. \/ Leave("threw") \/ Leave("false")
        \/ /\ ~(resultData # <<>> /\ Unreadable(Deserialize(resultData)))
           /\ resultData' = <<>> /\ socket' = socket
    BY <1>5 DEF OnQueryResponse
  <2>2. QED
    BY <1>0, <2>1, LeaveStream, AcceptedStream
<1>6. CASE Parse
  BY <1>6, <1>u, LeaveStream DEF Parse
<1>7. CASE OnPublish
  BY <1>7, <1>u, LeaveStream DEF OnPublish
<1>8. CASE OnCommandResponse
  <2>1. \/ Leave("threw") \/ Leave("true")
        \/ /\ ~(resultData # <<>> /\ Unreadable(Deserialize(resultData)))
           /\ resultData' = <<>> /\ socket' = socket
    BY <1>8 DEF OnCommandResponse
  <2>2. QED
    BY <1>0, <2>1, LeaveStream, AcceptedStream
<1>9. CASE ExecuteRequest
  <2> DEFINE c == Head(requests)
  <2>1. resultData' = resultData /\ (socket' = socket \/ socket' = socket \o Answer(c)) /\ requests # <<>>
    BY <1>9 DEF ExecuteRequest, client
  <2>2. c \in Cmds
    BY <1>0, <2>1, TypeFacts
  <2> HIDE DEF c
  <2>3. CASE socket' = socket \o Answer(c)
    <3>1. PICK t \in Texts : Answer(c) = EncodeString(t)
      BY <2>2, AnswerText DEF Cmds
    <3>2. resultData \in Seq(Nat) /\ socket \in Seq(Nat) /\ EncodeString(t) \in Seq(Nat)
      BY <1>0, EncodedTextType DEF TypeOK
    <3>3. (resultData \o socket) \o EncodeString(t) = resultData \o (socket \o EncodeString(t))
      BY <3>2, BytesAssociative
    <3>4. (resultData \o socket) \o EncodeString(t) \in Streams
      BY StreamsAppend DEF StreamInv
    <3>5. QED
      BY <2>1, <2>3, <3>1, <3>3, <3>4 DEF StreamInv
  <2>4. QED
    BY <1>u, <2>1, <2>3
<1>10. CASE DropRequests
  BY <1>10, <1>u DEF DropRequests, client
<1>11. CASE RuntimeRestarts
  BY <1>11, <1>u DEF RuntimeRestarts, client
<1>12. CASE Restart
  BY <1>12, LeaveStream DEF Restart
<1>13. CASE UNCHANGED vars
  BY <1>13, <1>u DEF vars
<1>14. QED
  BY <1>1, <1>2, <1>3, <1>4, <1>5, <1>6, <1>7, <1>8, <1>9, <1>10, <1>11, <1>12, <1>13
  DEF Next, ClientStep

LEMMA StreamCutsNothing == TypeInv /\ StreamInv => NoCutAnswerAccepted
BY ReceivedWhole DEF TypeInv, NoCutAnswerAccepted

(***************************************************************************)
(* However the reads and the time-outs of SendData cut the stream, what    *)
(* Deserialize takes for an answer is one whole answer of the runtime.     *)
(***************************************************************************)
THEOREM NoCutAnswerAcceptedAlways == Spec => []NoCutAnswerAccepted
<1>1. Init => TypeInv /\ StreamInv
  BY InitType, NothingIsStream DEF Init, StreamInv
<1>2. TypeInv /\ StreamInv /\ [Next]_vars => TypeInv' /\ StreamInv'
  BY StepKeepsType, StepKeepsStream
<1>3. QED
  BY <1>1, <1>2, StreamCutsNothing, PTL DEF Spec

-----------------------------------------------------------------------------
(***************************************************************************)
(* Where a request comes from.                                             *)
(***************************************************************************)
Own(c) == c.action # "QUERY" /\ c.from \in Files /\ c.name \in NamesOf(c.from)

AllOwn(cs, f) == \A i \in 1 .. Len(cs) : Own(cs[i]) /\ cs[i].from = f

Sent(c) == c = Query \/ (Own(c) /\ (connection = "live" => c.from = file))

(* A request still with the runtime may be an earlier deployment's, unless *)
(* the connection lives; the commands to send are of the file deployed.    *)
OriginInv ==
    /\ \A i \in 1 .. Len(requests) : Sent(requests[i])
    /\ commands = <<Query>> \/ AllOwn(commands, file)

LEMMA PublishOwn ==
  ASSUME NEW f \in Files
  PROVE  AllOwn(PublishCommands(f), f)
<1> DEFINE cs == PublishCommands(f)
<1>1. PICK off : Stands(f, cs, off)
  BY PublishShape
<1> HIDE DEF cs
<1>2. ASSUME NEW i \in 1 .. Len(cs) PROVE Own(cs[i]) /\ cs[i].from = f
  <2>0. PICK k \in GetExecTasks(f) : \E p \in 1 .. Len(Tasks(k, f)) : i = off[k] + p
    BY <1>1 DEF Stands
  <2>1. PICK p \in 1 .. Len(Tasks(k, f)) : i = off[k] + p
    BY <2>0
  <2>2. cs[i] = Tasks(k, f)[p]
    BY <1>1, <2>1 DEF Stands
  <2> DEFINE g == Groups[f][k]
             ts == TaskCommands(g, f)
  <2>3. k \in 1 .. Count(f) /\ p \in 1 .. Len(ts) /\ cs[i] = ts[p]
    BY <2>2, ExecTasksType DEF Tasks
  <2>4. g.name \in NamesOf(f)
    BY <2>3, GroupType
  <2>5. ts[p].name = g.name /\ ts[p].from = f
    BY <2>3, TaskCommandsOwn
  <2>6. ts[p].action # "QUERY"
    <3>1. p <= Replaced(g) => p \in 1 .. 2 /\ (p = 1 => ts[p].action = "KILL") /\ (p = 2 => ts[p].action = "DELETE")
      BY <2>3, TaskCommandsOwn
    <3>2. p > Replaced(g) => ts[p].action \in {"CREATE", "START"}
      BY <2>3, TaskCommandsOwn
    <3>3. Replaced(g) \in Int
      BY DEF Replaced
    <3> HIDE DEF g, ts
    <3>4. p <= Replaced(g) \/ p > Replaced(g)
      BY <3>3
    <3>5. p \in 1 .. 2 => p = 1 \/ p = 2
      OBVIOUS
    <3>6. QED
      BY <3>1, <3>2, <3>4, <3>5
  <2> HIDE DEF g, ts
  <2>7. QED
    BY <2>3, <2>4, <2>5, <2>6 DEF Own
<1>3. QED
  BY <1>2 DEF AllOwn, cs

LEMMA SentTail ==
  ASSUME TypeOK, OriginInv, requests # <<>>
  PROVE  /\ Sent(Head(requests)) /\ Head(requests) \in Cmds
         /\ \A i \in 1 .. Len(Tail(requests)) : Sent(Tail(requests)[i])
<1>1. requests \in Seq(Cmds)
  BY TypeFacts
<1>2. Head(requests) \in Cmds /\ 1 \in 1 .. Len(requests) /\ Head(requests) = requests[1]
  BY <1>1
<1>3. \A i \in 1 .. Len(Tail(requests)) : i + 1 \in 1 .. Len(requests) /\ Tail(requests)[i] = requests[i + 1]
  BY <1>1
<1>4. QED
  BY <1>2, <1>3 DEF OriginInv

LEMMA LeaveOrigin ==
  ASSUME OriginInv, NEW result, Leave(result), UNCHANGED requests
  PROVE  OriginInv'
<1>1. connection' = "closed" /\ commands' = <<>>
  BY DEF Leave
<1>2. AllOwn(<<>>, file')
  BY DEF AllOwn
<1>3. (\A i \in 1 .. Len(requests) : Sent(requests[i]))'
  BY <1>1 DEF OriginInv, Sent
<1>4. QED
  BY <1>1, <1>2, <1>3 DEF OriginInv

LEMMA SameOrigin ==
  ASSUME OriginInv, UNCHANGED <<connection, file, requests, commands>>
  PROVE  OriginInv'
BY DEF OriginInv, Sent

LEMMA StepKeepsOrigin == TypeInv /\ OriginInv /\ [Next]_vars => OriginInv'
<1> SUFFICES ASSUME TypeInv, OriginInv, [Next]_vars PROVE OriginInv'
  OBVIOUS
<1>0. TypeOK /\ OwnState
  BY DEF TypeInv
<1>t. commands \in Seq(Cmds) /\ requests \in Seq(Cmds)
  BY <1>0, TypeFacts
<1>1. ASSUME NEW f \in Files, Connect(f) PROVE OriginInv'
  <2>1. CASE Leave("threw")
    BY <1>1, <2>1, LeaveOrigin DEF Connect, runtime
  <2>2. CASE requests = <<>> /\ commands' = <<Query>>
    BY <1>1, <2>2 DEF Connect, runtime, OriginInv
  <2>3. QED
    BY <1>1, <2>1, <2>2 DEF Connect
<1>2. CASE Write
  <2>1. CASE Leave("threw") /\ UNCHANGED requests
    BY <2>1, LeaveOrigin
  <2>2. CASE connection = "live" /\ requests' = Append(requests, Head(commands))
             /\ UNCHANGED <<connection, commands>>
    <3> DEFINE c == Head(commands)
    <3>1. commands # <<>> /\ file' = file
      BY <1>0, <1>2 DEF Write, TypeOK
    <3>2. c = commands[1] /\ 1 \in 1 .. Len(commands)
      BY <1>t, <3>1
    <3>3. Sent(c)
      BY <3>2 DEF OriginInv, AllOwn, Sent
    <3> HIDE DEF c
    <3>4. \A i \in 1 .. Len(requests') : requests'[i] = c \/ (i \in 1 .. Len(requests) /\ requests'[i] = requests[i])
      BY <1>t, <2>2 DEF c
    <3>5. \A i \in 1 .. Len(requests') : Sent(requests'[i])
      BY <3>3, <3>4 DEF OriginInv
    <3>6. (\A i \in 1 .. Len(requests) : Sent(requests[i]))'
      BY <2>2, <3>1, <3>5 DEF Sent
    <3>7. QED
      BY <2>2, <3>1, <3>6 DEF OriginInv
  <2>3. CASE UNCHANGED <<connection, requests, commands>>
    <3>1. file' = file
      BY <1>2 DEF Write
    <3>2. QED
      BY <2>3, <3>1, SameOrigin
  <2>4. QED
    BY <1>2, <2>1, <2>2, <2>3 DEF Write
<1>3. ASSUME NEW n \in 1 .. CHUNK_SIZE, Read(n) PROVE OriginInv'
  BY <1>3, SameOrigin DEF Read, runtime
<1>4. CASE Timeout
  BY <1>4, SameOrigin DEF Timeout, client, runtime
<1>5. CASE OnQueryResponse
  <2>0. UNCHANGED <<file, requests>>
    BY <1>5 DEF OnQueryResponse, runtime
  <2>1. \/ Leave("threw") \/ Leave("false")
        \/ commands' = <<>> /\ connection' = connection
    BY <1>5 DEF OnQueryResponse
  <2>2. CASE commands' = <<>> /\ connection' = connection
    BY <2>0, <2>2 DEF OriginInv, Sent, AllOwn
  <2>3. QED
    BY <2>0, <2>1, <2>2, LeaveOrigin
<1>6. CASE Parse
  BY <1>6, LeaveOrigin, SameOrigin DEF Parse, runtime
<1>7. CASE OnPublish
  <2>0. UNCHANGED <<file, requests>> /\ content = file /\ file \in Files
    BY <1>0, <1>7 DEF OnPublish, runtime, TypeOK, OwnState
  <2>1. CASE Leave("true")
    BY <2>0, <2>1, LeaveOrigin
  <2>2. CASE commands' = PublishCommands(content) /\ connection' = connection
    <3>1. AllOwn(commands', file')
      BY <2>0, <2>2, PublishOwn
    <3>2. QED
      BY <2>0, <2>2, <3>1 DEF OriginInv, Sent
  <2>3. QED
    BY <1>7, <2>1, <2>2 DEF OnPublish
<1>8. CASE OnCommandResponse
  <2>0. UNCHANGED <<file, requests>> /\ commands # <<Query>> /\ commands # <<>>
    BY <1>0, <1>8 DEF OnCommandResponse, runtime, TypeOK
  <2>1. CASE Leave("threw") \/ Leave("true")
    BY <2>0, <2>1, LeaveOrigin
  <2>2. CASE commands' = Tail(commands) /\ connection' = connection
    <3>1. \A i \in 1 .. Len(Tail(commands)) : i + 1 \in 1 .. Len(commands) /\ Tail(commands)[i] = commands[i + 1]
      BY <1>t, <2>0
    <3>2. AllOwn(Tail(commands), file)
      BY <2>0, <3>1 DEF OriginInv, AllOwn
    <3>3. QED
      BY <2>0, <2>2, <3>2 DEF OriginInv, Sent
  <2>3. QED
    BY <1>8, <2>1, <2>2 DEF OnCommandResponse
<1>9. CASE ExecuteRequest
  <2>1. requests # <<>> /\ requests' = Tail(requests) /\ UNCHANGED <<connection, file, commands>>
    BY <1>9 DEF ExecuteRequest, client
  <2>2. \A i \in 1 .. Len(Tail(requests)) : Sent(Tail(requests)[i])
    BY <1>0, <2>1, SentTail
  <2>3. QED
    BY <2>1, <2>2 DEF OriginInv, Sent
<1>10. CASE DropRequests
  BY <1>10 DEF DropRequests, client, OriginInv
<1>11. CASE RuntimeRestarts
  BY <1>11 DEF RuntimeRestarts, client, OriginInv
<1>12. CASE Restart
  BY <1>12, LeaveOrigin DEF Restart, runtime
<1>13. CASE UNCHANGED vars
  BY <1>13, SameOrigin DEF vars
<1>14. QED
  BY <1>1, <1>2, <1>3, <1>4, <1>5, <1>6, <1>7, <1>8, <1>9, <1>10, <1>11, <1>12, <1>13
  DEF Next, ClientStep

(* Only a request changes a block, and only the one it names. *)
LEMMA BlocksChange ==
  ASSUME [Next]_vars, UNCHANGED blocks => FALSE
  PROVE  ExecuteRequest \/ RuntimeRestarts
<1>1. ASSUME NEW f \in Files, Connect(f) PROVE UNCHANGED blocks
  BY <1>1 DEF Connect, runtime
<1>2. ClientStep => UNCHANGED blocks
  BY DEF ClientStep, Write, Read, Timeout, OnQueryResponse, Parse, OnPublish, OnCommandResponse, runtime
<1>3. DropRequests \/ Restart \/ UNCHANGED vars => UNCHANGED blocks
  BY DEF DropRequests, Restart, vars, runtime
<1>4. QED
  BY <1>1, <1>2, <1>3 DEF Next

LEMMA StepReplacesOwn ==
  ASSUME TypeInv, OriginInv, [Next]_vars,
         ~RuntimeRestarts, NEW n \in Names, blocks'[n] # blocks[n]
  PROVE  n \in NamesOf(Head(requests).from) /\ (connection = "live" => Head(requests).from = file)
<1>0. TypeOK /\ blocks \in [Names -> Blocks]
  BY TypeFacts DEF TypeInv
<1>1. ExecuteRequest
  BY BlocksChange
<1> DEFINE c == Head(requests)
<1>2. requests # <<>> /\ blocks' = IF Accepts(c) THEN [blocks EXCEPT ![c.name] = After(c)] ELSE blocks
  BY <1>1 DEF ExecuteRequest
<1>3. Sent(c) /\ c \in Cmds
  BY <1>0, <1>2, SentTail
<1> HIDE DEF c
<1>4. c.name = n /\ blocks'[n] = After(c)
  BY <1>0, <1>2
<1>5. c # Query
  <2>1. c = Query => After(c) = blocks[c.name]
    BY QueryType DEF After
  <2>2. QED
    BY <1>4, <2>1
<1>6. QED
  BY <1>3, <1>4, <1>5 DEF Sent, Own, c

(***************************************************************************)
(* No publication touches a block that its file does not name, and none    *)
(* sends the file that an earlier deployment left in the parser.           *)
(***************************************************************************)
THEOREM OnlyNamedBlocksAlways == Spec => OnlyNamedBlocks
<1>1. Init => TypeInv /\ OriginInv
  <2>1. Init => OriginInv
    BY DEF Init, OriginInv, AllOwn
  <2>2. QED
    BY <2>1, InitType
<1>2. TypeInv /\ OriginInv /\ [Next]_vars => TypeInv' /\ OriginInv'
  BY StepKeepsType, StepKeepsOrigin
<1>3. TypeInv /\ OriginInv /\ [Next]_vars =>
         [~RuntimeRestarts =>
              \A n \in Names : blocks'[n] # blocks[n] =>
                  LET f == Head(requests).from
                  IN n \in NamesOf(f) /\ (connection = "live" => f = file)]_vars
  BY StepReplacesOwn
<1>4. QED
  BY <1>1, <1>2, <1>3, PTL DEF Spec, OnlyNamedBlocks

-----------------------------------------------------------------------------
(***************************************************************************)
(* One request at a time, as long as the answers are not late.             *)
(***************************************************************************)
Prompt == connection = "live" /\ (commands = <<Query>> \/ ~disturbed)

(* The request under way is with the runtime, or its answer is under way: *)
(* one whole answer, and to a query the names of the blocks there are.     *)
Asked == requests = <<Head(commands)>> /\ resultData = <<>> /\ socket = <<>>

There == {n \in Names : Exists(n)}

Answered ==
    /\ requests = <<>>
    /\ \E t \in Texts : /\ resultData \o socket = EncodeString(t)
                        /\ commands = <<Query>> => ResponseFbList(t) = There

PromptInv ==
    /\ Prompt /\ pc = "send" => requests = <<>> /\ socket = <<>>
    /\ Prompt /\ pc \in {"read", "receive"} => Asked \/ Answered
    /\ connection = "live" /\ pc \in {"parse", "publish"} =>
          requests = <<>> /\ socket = <<>> /\ fbList = There

(* Without a late answer or a restart the connection lives until the end,  *)
(* and every request was executed.                                         *)
Undisturbed ==
    ~disturbed => /\ pc \notin Ended => connection = "live"
                  /\ pc = "receive" => resultData # <<>>
                  /\ pc = "true" => requests = <<>>

LEMMA NothingDeserialized == Deserialize(<<>>).content = <<>>
<1>1. <<>> \in Seq(Nat) /\ Len(<<>>) = 0
  OBVIOUS
<1>2. PICK From : Turns(<<>>, From) /\ Deserialize(<<>>) = From[1]
  BY <1>1, DeserializeTurns
<1>3. 1 = Len(<<>>) + 1
  BY <1>1
<1>4. From[1].content = <<>>
  <2>1. From[Len(<<>>) + 1] = [threw |-> FALSE, content |-> <<>>]
    BY <1>1, <1>2, EndTurns
  <2>2. From[Len(<<>>) + 1].content = <<>>
    BY <2>1
  <2>3. QED
    BY <1>3, <2>2
<1>5. QED
  BY <1>2, <1>4

(* An answer that is accepted is the whole of what the runtime sent.       *)
LEMMA AcceptedAnswer ==
  ASSUME TypeOK, StreamInv, Asked \/ Answered, resultData # <<>>, ~Unreadable(Deserialize(resultData))
  PROVE  /\ requests = <<>> /\ socket = <<>>
         /\ commands = <<Query>> => ResponseFbList(Deserialize(resultData).content) = There
<1>1. Answered
  BY DEF Asked
<1>2. PICK u \in Texts : /\ resultData \o socket = EncodeString(u)
                         /\ commands = <<Query>> => ResponseFbList(u) = There
  BY <1>1 DEF Answered
<1>3. PICK t \in Texts : resultData = EncodeString(t) /\ Deserialize(resultData).content = t
  BY ReceivedWhole
<1>4. socket \in Seq(Nat)
  BY DEF TypeOK
<1>5. EncodeString(t) \o socket = EncodeString(u)
  BY <1>2, <1>3
<1>6. t = u /\ socket = <<>>
  BY <1>4, <1>5, WholeAnswer
<1>7. QED
  BY <1>1, <1>2, <1>3, <1>6 DEF Answered

LEMMA LeavePrompt ==
  ASSUME Undisturbed, NEW result \in {"idle", "true", "false", "threw"}, Leave(result),
         UNCHANGED requests, result = "true" /\ ~disturbed' => requests = <<>>
  PROVE  PromptInv' /\ Undisturbed'
<1>1. pc' = result /\ connection' = "closed"
  BY DEF Leave
<1>2. pc' \in Ended /\ pc' # "receive"
  BY <1>1 DEF Ended
<1>3. PromptInv'
  BY <1>1 DEF PromptInv, Prompt
<1>4. Undisturbed'
  BY <1>1, <1>2 DEF Undisturbed
<1>5. QED
  BY <1>3, <1>4

(* Answered and Asked are about these variables only. *)
LEMMA SameAnswer ==
  ASSUME UNCHANGED <<requests, commands, blocks>>, resultData' \o socket' = resultData \o socket
  PROVE  Answered => Answered'
BY DEF Answered, There, Exists

LEMMA SamePrompt ==
  ASSUME PromptInv, UNCHANGED <<requests, commands, blocks, resultData, socket, connection, pc, fbList, disturbed>>
  PROVE  PromptInv'
<1>1. Answered => Answered'
  BY SameAnswer
<1>2. Asked => Asked'
  BY DEF Asked
<1>3. Prompt' = Prompt
  BY DEF Prompt
<1>4. There' = There
  BY DEF There, Exists
<1>5. QED
  BY <1>1, <1>2, <1>3, <1>4 DEF PromptInv

(* The only changes of pc while an answer is read. *)
LEMMA ReadingPrompt ==
  ASSUME pc' \in {"read", "receive"}, Prompt' => Asked' \/ Answered'
  PROVE  PromptInv'
BY DEF PromptInv

LEMMA WritePrompt ==
  ASSUME TypeInv, PromptInv, Undisturbed, Write
  PROVE  PromptInv' /\ Undisturbed'
<1>0. TypeOK /\ OwnState
  BY DEF TypeInv
<1>1. CASE Leave("threw") /\ UNCHANGED requests
  BY <1>1, LeavePrompt
<1>2. CASE /\ connection = "live" /\ requests' = Append(requests, Head(commands)) /\ pc' = "read"
           /\ UNCHANGED <<connection, socket, commands>>
  <2>1. pc = "send" /\ resultData' = <<>> /\ disturbed' = disturbed
    BY DEF Write
  <2>2. Prompt' => Prompt
    BY <1>2, <2>1 DEF Prompt
  <2>3. Prompt => Asked'
    <3>1. Prompt => requests = <<>> /\ socket = <<>>
      BY <2>1 DEF PromptInv
    <3>2. requests = <<>> => Append(requests, Head(commands)) = <<Head(commands)>>
      OBVIOUS
    <3>3. QED
      BY <1>2, <2>1, <3>1, <3>2 DEF Asked
  <2>4. PromptInv'
    BY <1>2, <2>2, <2>3, ReadingPrompt
  <2>5. Undisturbed'
    BY <1>2, <2>1 DEF Undisturbed, Ended
  <2>6. QED
    BY <2>4, <2>5
<1>3. CASE connection = "broken" /\ pc' \in {"read", "receive"} /\ UNCHANGED <<connection, socket, commands>>
  <2>1. ~Prompt'
    BY <1>3 DEF Prompt
  <2>2. PromptInv'
    BY <1>3, <2>1, ReadingPrompt
  <2>3. disturbed
    BY <1>3 DEF Write, Undisturbed, Ended
  <2>4. Undisturbed'
    BY <2>3 DEF Write, Undisturbed
  <2>5. QED
    BY <2>2, <2>4
<1>4. QED
  BY <1>1, <1>2, <1>3 DEF Write

LEMMA ReadPrompt ==
  ASSUME TypeInv, PromptInv, Undisturbed, NEW n \in 1 .. CHUNK_SIZE, Read(n)
  PROVE  PromptInv' /\ Undisturbed'
<1>0. TypeOK /\ n \in Nat /\ n >= 1
  BY ChunkAssumption DEF TypeInv
<1>1. /\ pc = "read" /\ pc' \in {"read", "receive"} /\ n <= Len(socket)
      /\ UNCHANGED <<fbList, commands, connection, requests, blocks, disturbed>>
  BY DEF Read, runtime
<1>2. resultData' \o socket' = resultData \o socket
  BY <1>0, ReadKeepsStream
<1>3. socket # <<>>
  BY <1>0, <1>1
<1>4. Prompt' = Prompt
  BY <1>1 DEF Prompt
<1>5. Prompt => Answered
  BY <1>1, <1>3 DEF PromptInv, Asked
<1>6. Answered => Answered'
  BY <1>1, <1>2, SameAnswer
<1>7. PromptInv'
  BY <1>1, <1>4, <1>5, <1>6, ReadingPrompt
<1>8. resultData' # <<>>
  <2> DEFINE a == SubSeq(socket, 1, n)
  <2>1. socket \in Seq(Nat) /\ resultData \in Seq(Nat)
    BY <1>0 DEF TypeOK
  <2>2. a \in Seq(Nat) /\ Len(a) = n
    BY <1>0, <1>1, <2>1
  <2>3. resultData' = resultData \o a
    BY DEF Read
  <2> HIDE DEF a
  <2>4. a # <<>>
    BY <1>0, <2>2
  <2>5. QED
    BY <2>1, <2>2, <2>3, <2>4, ConcatEqualIffEmpty
<1>9. Undisturbed'
  BY <1>1, <1>8 DEF Undisturbed, Ended
<1>10. QED
  BY <1>7, <1>9

LEMMA TimeoutPrompt ==
  ASSUME TypeInv, PromptInv, Undisturbed, Timeout
  PROVE  PromptInv' /\ Undisturbed'
<1>1. /\ pc = "read" /\ pc' = "receive"
      /\ disturbed' = (disturbed \/ socket # <<>> \/ resultData = <<>>)
      /\ UNCHANGED <<commands, connection, requests, blocks, resultData, socket>>
  BY DEF Timeout, client, runtime
<1>2. Prompt' => Prompt
  BY <1>1 DEF Prompt
<1>3. Asked => Asked'
  BY <1>1 DEF Asked
<1>4. Answered => Answered'
  BY <1>1, SameAnswer
<1>5. PromptInv'
  <2>1. Prompt => Asked \/ Answered
    BY <1>1 DEF PromptInv
  <2>2. QED
    BY <1>1, <1>2, <1>3, <1>4, <2>1, ReadingPrompt
<1>6. Undisturbed'
  BY <1>1 DEF Undisturbed, Ended
<1>7. QED
  BY <1>5, <1>6

LEMMA QueryResponsePrompt ==
  ASSUME TypeInv, StreamInv, PromptInv, Undisturbed, OnQueryResponse
  PROVE  PromptInv' /\ Undisturbed'
<1>0. TypeOK /\ pc = "receive" /\ commands = <<Query>> /\ UNCHANGED <<requests, blocks, disturbed>>
  BY DEF TypeInv, OnQueryResponse, runtime
<1> DEFINE answer == Deserialize(resultData)
<1>1. CASE Leave("threw") \/ Leave("false")
  BY <1>0, <1>1, LeavePrompt
<1>2. CASE /\ ~(resultData # <<>> /\ Unreadable(answer)) /\ answer.content # <<>>
           /\ fbList' = ResponseFbList(answer.content) /\ pc' = "parse"
           /\ UNCHANGED <<connection, socket>>
  <2>1. resultData # <<>>
    BY <1>2, NothingDeserialized
  <2>2. ASSUME connection = "live"
        PROVE  requests = <<>> /\ socket = <<>> /\ ResponseFbList(answer.content) = There
    <3>1. Asked \/ Answered
      BY <1>0, <2>2 DEF PromptInv, Prompt
    <3>2. QED
      BY <1>0, <1>2, <2>1, <3>1, AcceptedAnswer
  <2> HIDE DEF answer
  <2>3. There' = There
    BY <1>0 DEF There, Exists
  <2>4. PromptInv'
    BY <1>0, <1>2, <2>2, <2>3 DEF PromptInv
  <2>5. Undisturbed'
    BY <1>0, <1>2 DEF Undisturbed, Ended
  <2>6. QED
    BY <2>4, <2>5
<1>3. QED
  BY <1>1, <1>2 DEF OnQueryResponse

LEMMA ParsePrompt ==
  ASSUME TypeInv, PromptInv, Undisturbed, Parse
  PROVE  PromptInv' /\ Undisturbed'
<1>0. pc = "parse" /\ UNCHANGED <<fbList, requests, blocks, disturbed>>
  BY DEF Parse, runtime
<1>1. CASE Leave("threw")
  BY <1>0, <1>1, LeavePrompt
<1>2. CASE pc' = "publish" /\ UNCHANGED <<connection, socket>>
  <2>1. There' = There
    BY <1>0 DEF There, Exists
  <2>2. PromptInv'
    BY <1>0, <1>2, <2>1 DEF PromptInv
  <2>3. Undisturbed'
    BY <1>0, <1>2 DEF Undisturbed, Ended
  <2>4. QED
    BY <2>2, <2>3
<1>3. QED
  BY <1>1, <1>2 DEF Parse

LEMMA PublishPrompt ==
  ASSUME TypeInv, PromptInv, Undisturbed, OnPublish
  PROVE  PromptInv' /\ Undisturbed'
<1>0. pc = "publish" /\ UNCHANGED <<requests, disturbed>>
  BY DEF OnPublish, runtime
<1>1. ~disturbed => connection = "live" /\ requests = <<>>
  BY <1>0 DEF Undisturbed, Ended, PromptInv
<1>2. CASE Leave("true")
  BY <1>0, <1>1, <1>2, LeavePrompt
<1>3. CASE pc' = "send" /\ UNCHANGED <<connection, socket>>
  <2>1. PromptInv'
    BY <1>0, <1>3 DEF PromptInv, Prompt
  <2>2. Undisturbed'
    BY <1>0, <1>3 DEF Undisturbed, Ended
  <2>3. QED
    BY <2>1, <2>2
<1>4. QED
  BY <1>2, <1>3 DEF OnPublish

LEMMA CommandResponsePrompt ==
  ASSUME TypeInv, StreamInv, OriginInv, OriginInv', PromptInv, Undisturbed, OnCommandResponse
  PROVE  PromptInv' /\ Undisturbed'
<1>0. TypeOK /\ pc = "receive" /\ commands # <<Query>> /\ UNCHANGED <<requests, file, disturbed>>
  BY DEF TypeInv, OnCommandResponse, runtime
<1>1. CASE Leave("threw")
  BY <1>0, <1>1, LeavePrompt
<1>2. ASSUME ~disturbed, ~(resultData # <<>> /\ Unreadable(Deserialize(resultData)))
      PROVE  requests = <<>> /\ socket = <<>>
  <2>1. Prompt /\ resultData # <<>>
    BY <1>0, <1>2 DEF Undisturbed, Ended, Prompt
  <2>2. Asked \/ Answered
    BY <1>0, <2>1 DEF PromptInv
  <2>3. QED
    BY <1>0, <1>2, <2>1, <2>2, AcceptedAnswer
<1>3. CASE ~(resultData # <<>> /\ Unreadable(Deserialize(resultData))) /\ Leave("true")
  BY <1>0, <1>2, <1>3, LeavePrompt
<1>4. CASE /\ ~(resultData # <<>> /\ Unreadable(Deserialize(resultData))) /\ pc' = "send"
           /\ commands' = Tail(commands) /\ UNCHANGED <<connection, socket>>
  <2>1. commands' # <<Query>>
    <3>1. commands \in Seq(Cmds) /\ commands # <<>>
      BY <1>0, TypeFacts DEF TypeOK
    <3>2. ASSUME Tail(commands) = <<Query>> PROVE FALSE
      <4> DEFINE rest == Tail(commands)
      <4>0. /\ Len(rest) = Len(commands) - 1 /\ Len(commands) \in Nat
            /\ \A i \in 1 .. Len(rest) : rest[i] = commands[i + 1]
        BY <3>1, HeadTailProperties, LenProperties
      <4> HIDE DEF rest
      <4>1. Len(rest) = 1 /\ rest[1] = Query
        <5>1. rest = <<Query>>
          BY <3>2 DEF rest
        <5>2. Len(<<Query>>) = 1 /\ <<Query>>[1] = Query
          OBVIOUS
        <5>3. QED
          BY <5>1, <5>2
      <4>2. Len(commands) = 2 /\ commands[2] = Query
        <5>1. rest[1] = commands[1 + 1]
          BY <4>0, <4>1
        <5>2. commands[2] = Query
          BY <4>1, <5>1
        <5>3. Len(commands) = 2
          <6>1. Len(commands) - 1 = 1 /\ Len(commands) \in Nat
            BY <4>0, <4>1
          <6> DEFINE l == Len(commands)
          <6>2. l - 1 = 1 /\ l \in Nat
            BY <6>1
          <6> HIDE DEF l
          <6>3. l = 2
            BY <6>2
          <6>4. QED
            BY <6>3 DEF l
        <5>4. QED
          BY <5>2, <5>3
      <4>3. Own(commands[2])
        BY <1>0, <4>2 DEF OriginInv, AllOwn
      <4>4. QED
        BY <4>2, <4>3, QueryType DEF Own
    <3>3. QED
      BY <1>4, <3>2
  <2>2. PromptInv'
    BY <1>0, <1>2, <1>4, <2>1 DEF PromptInv, Prompt
  <2>3. Undisturbed'
    BY <1>0, <1>4 DEF Undisturbed, Ended
  <2>4. QED
    BY <2>2, <2>3
<1>5. QED
  BY <1>1, <1>3, <1>4 DEF OnCommandResponse

LEMMA ExecutePrompt ==
  ASSUME TypeInv, PromptInv, Undisturbed, ExecuteRequest
  PROVE  PromptInv' /\ Undisturbed'
<1>0. TypeOK /\ OwnState /\ requests \in Seq(Cmds) /\ blocks \in [Names -> Blocks]
  BY TypeFacts DEF TypeInv
<1> DEFINE c == Head(requests)
<1>1. /\ requests # <<>> /\ requests' = Tail(requests)
      /\ UNCHANGED <<commands, resultData, connection, pc, fbList, disturbed>>
      /\ blocks' = IF Accepts(c) THEN [blocks EXCEPT ![c.name] = After(c)] ELSE blocks
      /\ socket' = IF connection = "live" THEN socket \o Answer(c) ELSE socket
  BY DEF ExecuteRequest, client
<1>2. c \in Cmds
  BY <1>0, <1>1
<1> HIDE DEF c
<1>3. Prompt' = Prompt
  BY <1>1 DEF Prompt
<1>4. ASSUME Prompt, pc \in {"read", "receive"} PROVE Answered'
  <2>1. Asked
    BY <1>1, <1>4 DEF PromptInv, Answered
  <2>2. c = Head(commands) /\ requests' = <<>> /\ connection = "live"
    BY <1>1, <1>4, <2>1 DEF Asked, Prompt, c
  <2>3. socket' = Answer(c)
    <3>1. Answer(c) \in Seq(Nat)
      BY <1>2, AnswerType
    <3>2. <<>> \o Answer(c) = Answer(c)
      BY <3>1, ConcatEmptySeq
    <3>3. QED
      BY <1>1, <2>1, <2>2, <3>2 DEF Asked
  <2>4. resultData' \o socket' = Answer(c)
    <3>1. Answer(c) \in Seq(Nat)
      BY <1>2, AnswerType
    <3>2. <<>> \o Answer(c) = Answer(c)
      BY <3>1, ConcatEmptySeq
    <3>3. QED
      BY <1>1, <2>1, <2>3, <3>2 DEF Asked
  <2>5. CASE commands = <<Query>>
    <3>1. c = Query
      BY <2>2, <2>5
    <3>2. blocks' = blocks
      <4>1. After(c) = blocks[c.name] /\ c.name \in Names
        BY <3>1, QueryType DEF After
      <4>2. QED
        BY <1>0, <1>1, <4>1
    <3>3. PICK t \in Texts : Answer(Query) = EncodeString(t) /\ ResponseFbList(t) = There
      BY QueryAnswer DEF There
    <3>4. There' = There
      BY <3>2 DEF There, Exists
    <3>5. QED
      BY <2>2, <2>4, <3>1, <3>3, <3>4 DEF Answered
  <2>6. CASE commands # <<Query>>
    <3>1. PICK t \in Texts : Answer(c) = EncodeString(t)
      BY <1>2, AnswerText DEF Cmds
    <3>2. QED
      BY <1>1, <2>2, <2>4, <2>6, <3>1 DEF Answered
  <2>7. QED
    BY <2>5, <2>6
<1>5. PromptInv'
  BY <1>1, <1>3, <1>4 DEF PromptInv
<1>6. Undisturbed'
  BY <1>1 DEF Undisturbed
<1>7. QED
  BY <1>5, <1>6

LEMMA StepKeepsPrompt ==
  ASSUME TypeInv, StreamInv, OriginInv, OriginInv', PromptInv, Undisturbed, [Next]_vars
  PROVE  PromptInv' /\ Undisturbed'
<1>0. OwnState
  BY DEF TypeInv
<1>1. ASSUME NEW f \in Files, Connect(f) PROVE PromptInv' /\ Undisturbed'
  <2>1. CASE Leave("threw")
    BY <1>1, <2>1, LeavePrompt DEF Connect, runtime
  <2>2. CASE requests = <<>> /\ pc' = "send" /\ connection' = "live" /\ UNCHANGED socket
    <3>1. requests' = <<>> /\ socket' = <<>>
      BY <1>0, <1>1, <2>2 DEF Connect, runtime, OwnState
    <3>2. QED
      BY <2>2, <3>1 DEF PromptInv, Undisturbed
  <2>3. QED
    BY <1>1, <2>1, <2>2 DEF Connect
<1>2. CASE ClientStep
  BY <1>2, WritePrompt, ReadPrompt, TimeoutPrompt, QueryResponsePrompt, ParsePrompt, PublishPrompt,
     CommandResponsePrompt DEF ClientStep
<1>3. CASE ExecuteRequest
  BY <1>3, ExecutePrompt
<1>4. CASE DropRequests
  <2>1. connection' # "live" /\ requests' = <<>> /\ UNCHANGED <<pc, disturbed, connection, resultData>>
    BY <1>4 DEF DropRequests, client
  <2>2. QED
    BY <2>1 DEF PromptInv, Prompt, Undisturbed
<1>5. CASE RuntimeRestarts
  <2>1. connection' # "live" /\ disturbed'
    BY <1>5 DEF RuntimeRestarts
  <2>2. QED
    BY <2>1 DEF PromptInv, Prompt, Undisturbed
<1>6. CASE Restart
  BY <1>6, LeavePrompt DEF Restart, runtime
<1>7. CASE UNCHANGED vars
  <2>1. PromptInv'
    BY <1>7, SamePrompt DEF vars
  <2>2. Undisturbed'
    BY <1>7 DEF vars, Undisturbed
  <2>3. QED
    BY <2>1, <2>2
<1>8. QED
  BY <1>1, <1>2, <1>3, <1>4, <1>5, <1>6, <1>7 DEF Next

(***************************************************************************)
(* All of it.                                                              *)
(***************************************************************************)
RequestInv == TypeInv /\ StreamInv /\ OriginInv /\ PromptInv /\ Undisturbed

LEMMA InitRequest == Init => RequestInv
<1> SUFFICES ASSUME Init PROVE RequestInv
  OBVIOUS
<1>1. OriginInv
  BY DEF Init, OriginInv, AllOwn
<1>2. StreamInv
  BY NothingIsStream DEF Init, StreamInv
<1>3. PromptInv
  BY DEF Init, PromptInv, Prompt
<1>4. Undisturbed
  BY DEF Init, Undisturbed, Ended
<1>5. QED
  BY <1>1, <1>2, <1>3, <1>4, InitType DEF RequestInv

LEMMA StepKeepsRequest == RequestInv /\ [Next]_vars => RequestInv'
<1> SUFFICES ASSUME RequestInv, [Next]_vars PROVE RequestInv'
  OBVIOUS
<1>0. TypeInv /\ StreamInv /\ OriginInv /\ PromptInv /\ Undisturbed
  BY DEF RequestInv
<1>1. TypeInv'
  BY <1>0, StepKeepsType
<1>2. StreamInv'
  BY <1>0, StepKeepsStream
<1>3. OriginInv'
  BY <1>0, StepKeepsOrigin
<1>4. PromptInv' /\ Undisturbed'
  BY <1>0, <1>3, StepKeepsPrompt
<1>5. QED
  BY <1>1, <1>2, <1>3, <1>4 DEF RequestInv

(***************************************************************************)
(* When OnPublish decides which blocks to replace, the answer it decides   *)
(* from is still true, unless the connection is gone meanwhile.            *)
(***************************************************************************)
THEOREM PublishKnowsBlocksAlways == Spec => []PublishKnowsBlocks
<1>1. RequestInv => PublishKnowsBlocks
  BY DEF RequestInv, PromptInv, PublishKnowsBlocks, There
<1>2. QED
  BY <1>1, InitRequest, StepKeepsRequest, PTL DEF Spec

-----------------------------------------------------------------------------
(***************************************************************************)
(* The requests to come: those the runtime has, then those that Execute()  *)
(* has not sent on this connection.                                        *)
(***************************************************************************)
Unsent ==
    IF connection # "live" THEN <<>>
    ELSE IF pc = "send" THEN commands
    ELSE IF pc \in {"read", "receive"} THEN Tail(commands)
    ELSE <<>>

Pending == requests \o Unsent

(* Before its i-th request, P deletes the block which that one creates.    *)
Removed(P, B, i) ==
    \E d \in 1 .. i - 1 :
        /\ P[d].action = "DELETE" /\ P[d].name = P[i].name
        /\ \A e \in 1 .. d - 1 : P[e].name = P[i].name => P[e].action \in {"KILL", "QUERY"}
        /\ B[P[i].name].state = "running" =>
              \E e \in 1 .. d - 1 : P[e].name = P[i].name /\ P[e].action = "KILL"

SafeCreate(P, B, i) ==
    /\ \A j \in 1 .. i - 1 : ~(P[j].action = "CREATE" /\ P[j].name = P[i].name)
    /\ B[P[i].name].state # "none" => Removed(P, B, i)

Safe(P, B) ==
    \A i \in 1 .. Len(P) :
        P[i].action = "CREATE" /\ CreatesOnce(P[i].from) => SafeCreate(P, B, i)

SafeInv == Safe(Pending, blocks)

Prefix(Q, P) == Len(Q) <= Len(P) /\ \A i \in 1 .. Len(Q) : Q[i] = P[i]

LEMMA SafePrefix ==
  ASSUME NEW P \in Seq(Cmds), NEW Q \in Seq(Cmds), NEW B, Safe(P, B), Prefix(Q, P)
  PROVE  Safe(Q, B)
<1> SUFFICES ASSUME NEW i \in 1 .. Len(Q), Q[i].action = "CREATE", CreatesOnce(Q[i].from)
             PROVE  SafeCreate(Q, B, i)
  BY DEF Safe
<1>1. i \in 1 .. Len(P) /\ \A j \in 1 .. i : Q[j] = P[j]
  BY DEF Prefix
<1>2. SafeCreate(P, B, i)
  BY <1>1 DEF Safe
<1>3. \A j \in 1 .. i - 1 : Q[j] = P[j]
  BY <1>1
<1>4. Q[i] = P[i]
  BY <1>1
<1>5. Removed(P, B, i) => Removed(Q, B, i)
  <2> SUFFICES ASSUME Removed(P, B, i) PROVE Removed(Q, B, i)
    OBVIOUS
  <2>1. PICK d \in 1 .. i - 1 :
        /\ P[d].action = "DELETE" /\ P[d].name = P[i].name
        /\ \A e \in 1 .. d - 1 : P[e].name = P[i].name => P[e].action \in {"KILL", "QUERY"}
        /\ B[P[i].name].state = "running" =>
              \E e \in 1 .. d - 1 : P[e].name = P[i].name /\ P[e].action = "KILL"
    BY DEF Removed
  <2>2. \A e \in 1 .. d - 1 : e \in 1 .. i - 1
    OBVIOUS
  <2>3. QED
    BY <1>3, <1>4, <2>1, <2>2 DEF Removed
<1>6. QED
  BY <1>2, <1>3, <1>4, <1>5 DEF SafeCreate

(* What a request does to the blocks. *)
LEMMA BlocksAfter ==
  ASSUME TypeOK, NEW c \in Cmds, NEW n \in Names,
         blocks' = IF Accepts(c) THEN [blocks EXCEPT ![c.name] = After(c)] ELSE blocks
  PROVE  /\ c.name # n \/ c.action = "QUERY" => blocks'[n] = blocks[n]
         /\ c.name = n /\ c.action = "KILL" =>
               blocks'[n].state = IF blocks[n].state = "running" THEN "killed" ELSE blocks[n].state
         /\ c.name = n /\ c.action = "DELETE" /\ blocks[n].state # "running" => blocks'[n].state = "none"
         /\ c.name = n /\ c.action = "START" /\ blocks[n].state = "none" => blocks'[n].state = "none"
<1>1. blocks \in [Names -> Blocks] /\ c.name \in Names
  BY TypeFacts DEF Cmds
<1>2. blocks[n] \in Blocks /\ blocks[n].state \in States
  BY <1>1 DEF Blocks
<1>3. c.name # n => blocks'[n] = blocks[n]
  BY <1>1
<1>4. c.name = n => blocks'[n] = IF Accepts(c) THEN After(c) ELSE blocks[n]
  BY <1>1
<1>5. CASE c.name = n /\ c.action = "QUERY"
  <2>1. After(c) = blocks[n]
    BY <1>5 DEF After
  <2>2. QED
    BY <1>4, <1>5, <2>1
<1>6. CASE c.name = n /\ c.action = "KILL"
  <2>1. Accepts(c) <=> blocks[n].state = "running"
    BY <1>6 DEF Accepts
  <2>2. After(c).state = "killed"
    BY <1>2, <1>6 DEF After, Blocks
  <2>3. QED
    BY <1>4, <1>6, <2>1, <2>2
<1>7. CASE c.name = n /\ c.action = "DELETE"
  <2>1. Accepts(c) <=> blocks[n].state \in {"idle", "killed"}
    BY <1>7 DEF Accepts
  <2>2. After(c).state = "none"
    BY <1>7 DEF After, NoBlock
  <2>3. QED
    BY <1>2, <1>4, <1>7, <2>1, <2>2 DEF States
<1>8. CASE c.name = n /\ c.action = "START"
  <2>1. Accepts(c) <=> blocks[n].state = "idle"
    BY <1>8 DEF Accepts
  <2>2. QED
    BY <1>4, <1>8, <2>1
<1>9. QED
  BY <1>3, <1>5, <1>6, <1>7, <1>8

Shifted(Q, P) == Len(Q) = Len(P) - 1 /\ \A i \in 1 .. Len(Q) : Q[i] = P[i + 1]

LEMMA SafeStep ==
  ASSUME TypeOK, NEW P \in Seq(Cmds), NEW Q \in Seq(Cmds), NEW c, P # <<>>, c = P[1], Shifted(Q, P),
         Safe(P, blocks),
         blocks' = IF Accepts(c) THEN [blocks EXCEPT ![c.name] = After(c)] ELSE blocks
  PROVE  Safe(Q, blocks')
<1> SUFFICES ASSUME NEW i \in 1 .. Len(Q), Q[i].action = "CREATE", CreatesOnce(Q[i].from)
             PROVE  SafeCreate(Q, blocks', i)
  BY DEF Safe
<1>0. Len(P) \in Nat /\ Len(P) >= 1 /\ Len(Q) \in Nat /\ Len(Q) = Len(P) - 1
  <2>1. Len(P) \in Nat /\ Len(Q) \in Nat
    BY LenProperties
  <2>2. Len(P) # 0
    BY EmptySeq
  <2>3. QED
    BY <2>1, <2>2 DEF Shifted
<1> DEFINE k == i + 1
           n == P[k].name
<1>1. k \in 1 .. Len(P) /\ Q[i] = P[k] /\ 1 \in 1 .. Len(P) /\ i \in Nat /\ i >= 1
  BY <1>0 DEF Shifted
<1>2. \A j \in 1 .. i - 1 : Q[j] = P[j + 1] /\ j + 1 \in 1 .. k - 1
  BY <1>0 DEF Shifted
<1>3. c \in Cmds /\ n \in Names
  <2>1. P[1] \in Cmds /\ P[k] \in Cmds
    BY <1>1, ElementOfSeq
  <2>2. QED
    BY <2>1 DEF Cmds
<1>4. SafeCreate(P, blocks, k)
  BY <1>1 DEF Safe
<1>k. k = i + 1 /\ k \in Nat
  BY <1>1
<1> HIDE DEF k
<1>5. \A j \in 1 .. i - 1 : ~(Q[j].action = "CREATE" /\ Q[j].name = Q[i].name)
  BY <1>1, <1>2, <1>4 DEF SafeCreate
<1>6. ASSUME blocks'[n].state # "none" PROVE Removed(Q, blocks', i)
  <2>1. ~(c.name = n /\ c.action = "CREATE")
    <3>1. 1 \in 1 .. k - 1
      BY <1>1, <1>k
    <3>2. QED
      BY <1>4, <3>1 DEF SafeCreate
  <2>2. blocks[n].state # "none"
    <3>1. c.action \in Actions
      BY <1>3 DEF Cmds
    <3>2. c.name # n \/ c.action = "QUERY" => blocks'[n] = blocks[n]
      BY <1>3, BlocksAfter
    <3>3. c.name = n /\ c.action = "KILL" => (blocks[n].state = "none" => blocks'[n].state = "none")
      <4>1. c.name = n /\ c.action = "KILL" =>
               blocks'[n].state = IF blocks[n].state = "running" THEN "killed" ELSE blocks[n].state
        BY <1>3, BlocksAfter
      <4> HIDE DEF n
      <4>2. QED
        BY <4>1
    <3>4. c.name = n /\ c.action = "DELETE" => (blocks[n].state = "none" => blocks'[n].state = "none")
      BY <1>3, BlocksAfter
    <3>5. c.name = n /\ c.action = "START" => (blocks[n].state = "none" => blocks'[n].state = "none")
      BY <1>3, BlocksAfter
    <3> HIDE DEF n
    <3>6. QED
      BY <1>6, <2>1, <3>1, <3>2, <3>3, <3>4, <3>5 DEF Actions
  <2>3. PICK d \in 1 .. k - 1 :
        /\ P[d].action = "DELETE" /\ P[d].name = n
        /\ \A e \in 1 .. d - 1 : P[e].name = n => P[e].action \in {"KILL", "QUERY"}
        /\ blocks[n].state = "running" => \E e \in 1 .. d - 1 : P[e].name = n /\ P[e].action = "KILL"
    BY <1>4, <2>2 DEF SafeCreate, Removed
  <2> HIDE DEF n
  <2>4. d # 1
    <3> SUFFICES ASSUME d = 1 PROVE FALSE
      OBVIOUS
    <3>1. c.name = n /\ c.action = "DELETE"
      BY <2>3
    <3>2. 1 .. d - 1 = {}
      OBVIOUS
    <3>3. blocks[n].state # "running"
      BY <2>3, <3>2
    <3>4. blocks'[n].state = "none"
      BY <1>3, <3>1, <3>3, BlocksAfter
    <3>5. QED
      BY <1>6, <3>4
  <2>5. c.name = n => c.action \in {"KILL", "QUERY"}
    <3>1. 1 \in 1 .. d - 1
      BY <2>4, <1>k
    <3>2. QED
      BY <2>3, <3>1
  <2>6. blocks'[n].state = "running" =>
            blocks[n].state = "running" /\ ~(c.name = n /\ c.action = "KILL")
    <3>1. c.name # n \/ c.action = "QUERY" => blocks'[n] = blocks[n]
      BY <1>3, BlocksAfter
    <3>2. c.name = n /\ c.action = "KILL" => blocks'[n].state # "running"
      <4>1. c.name = n /\ c.action = "KILL" =>
               blocks'[n].state = IF blocks[n].state = "running" THEN "killed" ELSE blocks[n].state
        BY <1>3, BlocksAfter
      <4>2. QED
        BY <4>1
    <3>3. QED
      BY <2>5, <3>1, <3>2
  <2> DEFINE b == d - 1
  <2>7. b \in 1 .. i - 1 /\ d = b + 1 /\ d \in Nat
    BY <2>4, <1>1, <1>k
  <2> HIDE DEF b
  <2>8. Q[b].action = "DELETE" /\ Q[b].name = n
    BY <1>2, <2>3, <2>7
  <2>9. \A e \in 1 .. b - 1 : Q[e] = P[e + 1] /\ e + 1 \in 1 .. d - 1
    BY <1>1, <1>2, <2>7
  <2>10. \A e \in 1 .. b - 1 : Q[e].name = n => Q[e].action \in {"KILL", "QUERY"}
    BY <2>3, <2>9
  <2>11. ASSUME blocks'[n].state = "running"
         PROVE  \E e \in 1 .. b - 1 : Q[e].name = n /\ Q[e].action = "KILL"
    <3>1. PICK e \in 1 .. d - 1 : P[e].name = n /\ P[e].action = "KILL"
      BY <2>3, <2>6, <2>11
    <3>2. e # 1
      BY <2>6, <2>11, <3>1
    <3> DEFINE a == e - 1
    <3>3. a \in 1 .. b - 1 /\ e = a + 1
      BY <2>7, <3>2
    <3> HIDE DEF a
    <3>4. Q[a] = P[e]
      BY <2>9, <3>3
    <3>5. QED
      BY <3>1, <3>3, <3>4
  <2>12. n = Q[i].name
    BY <1>1 DEF n
  <2>13. QED
    BY <2>7, <2>8, <2>10, <2>11, <2>12 DEF Removed
<1>7. n = Q[i].name
  BY <1>1
<1>8. QED
  BY <1>5, <1>6, <1>7 DEF SafeCreate

(***************************************************************************)
(* The commands of a file, by the groups they come from.                   *)
(***************************************************************************)
TaskOf(f, cs, off, i, k, p) ==
    LET g == Groups[f][k]
        r == Replaced(g)
    IN /\ k \in GetExecTasks(f) /\ p \in 1 .. Len(Tasks(k, f))
       /\ i = off[k] + p /\ cs[i] = Tasks(k, f)[p]
       /\ cs[i].name = g.name /\ cs[i].from = f
       /\ p <= r => (p = 1 /\ cs[i].action = "KILL") \/ (p = 2 /\ cs[i].action = "DELETE")
       /\ p > r => p - r \in 1 .. Len(g.actions) /\ cs[i].action = g.actions[p - r]

LEMMA TaskAt ==
  ASSUME NEW f \in Files, NEW cs, NEW off, Stands(f, cs, off), NEW i \in 1 .. Len(cs)
  PROVE  \E k, p : TaskOf(f, cs, off, i, k, p)
<1>1. PICK k \in GetExecTasks(f) : \E p \in 1 .. Len(Tasks(k, f)) : i = off[k] + p
  BY DEF Stands
<1>2. PICK p \in 1 .. Len(Tasks(k, f)) : i = off[k] + p
  BY <1>1
<1> DEFINE g == Groups[f][k]
           ts == Tasks(k, f)
<1>3. cs[i] = ts[p]
  BY <1>2 DEF Stands
<1>4. k \in 1 .. Count(f) /\ p \in 1 .. Len(ts) /\ ts = TaskCommands(g, f)
  BY ExecTasksType DEF Tasks
<1>5. ts[p].name = g.name /\ ts[p].from = f
  BY <1>4, TaskCommandsOwn
<1>6. p <= Replaced(g) => /\ p = 1 => ts[p].action = "KILL"
                          /\ p = 2 => ts[p].action = "DELETE"
                          /\ p \in 1 .. 2
  BY <1>4, TaskCommandsOwn
<1>7. p > Replaced(g) => /\ p - Replaced(g) \in 1 .. Len(g.actions)
                         /\ ts[p].action = g.actions[p - Replaced(g)]
  BY <1>4, TaskCommandsOwn
<1>8. p \in 1 .. 2 => p = 1 \/ p = 2
  OBVIOUS
<1>9. p <= Replaced(g) => (p = 1 /\ ts[p].action = "KILL") \/ (p = 2 /\ ts[p].action = "DELETE")
  BY <1>6, <1>8
<1> HIDE DEF g, ts
<1>10. QED
  <2>1. TaskOf(f, cs, off, i, k, p)
    BY <1>2, <1>3, <1>5, <1>7, <1>9 DEF g, ts, TaskOf
  <2>2. QED
    BY <2>1

(* The position of a command in its task decides it: what goes before a    *)
(* command of the same block is of the same task, and stands before it     *)
(* there.                                                                  *)
LEMMA PublishSafe ==
  ASSUME TypeOK, NEW f \in Files, fbList = There
  PROVE  Safe(PublishCommands(f), blocks)
<1> DEFINE cs == PublishCommands(f)
<1>1. PICK off : Stands(f, cs, off)
  BY PublishShape
<1> HIDE DEF cs
<1> SUFFICES ASSUME NEW i \in 1 .. Len(cs), cs[i].action = "CREATE", CreatesOnce(cs[i].from)
             PROVE  SafeCreate(cs, blocks, i)
  BY DEF Safe, cs
<1>2. PICK k, p : TaskOf(f, cs, off, i, k, p)
  BY <1>1, TaskAt
<1> DEFINE g == Groups[f][k]
           r == Replaced(g)
<1>p. /\ k \in GetExecTasks(f) /\ p \in 1 .. Len(Tasks(k, f))
      /\ i = off[k] + p
      /\ cs[i].name = g.name /\ cs[i].from = f
      /\ p <= r => (p = 1 /\ cs[i].action = "KILL") \/ (p = 2 /\ cs[i].action = "DELETE")
      /\ p > r => p - r \in 1 .. Len(g.actions) /\ cs[i].action = g.actions[p - r]
  BY <1>2 DEF TaskOf
<1>3. /\ i = off[k] + p
      /\ cs[i].name = g.name /\ cs[i].from = f
      /\ p <= r => cs[i].action # "CREATE"
      /\ p > r => p - r \in 1 .. Len(g.actions) /\ cs[i].action = g.actions[p - r]
  <2> HIDE DEF g, r
  <2>1. QED
    BY <1>p
<1>4. k \in 1 .. Count(f) /\ off[k] \in Nat /\ r \in {0, 2} /\ DOMAIN Groups[f] = 1 .. Count(f)
  BY <1>1, <1>p, ExecTasksType, GroupType DEF Stands, Replaced
<1>5. DOMAIN g.actions = 1 .. Len(g.actions)
  <2>1. g.actions \in Seq({"CREATE", "START"})
    BY <1>4, GroupType
  <2>2. QED
    BY <2>1
<1>c. CreatesOnce(f)
  BY <1>3
<1>i. p \in Nat
  BY <1>p
<1> HIDE DEF r
<1>6. p > r /\ p - r \in DOMAIN g.actions /\ g.actions[p - r] = "CREATE"
  BY <1>3, <1>4, <1>5, <1>i
(* Another command of the block is in the same task. *)
<1>7. ASSUME NEW j \in 1 .. Len(cs), cs[j].name = g.name
      PROVE  \E q : TaskOf(f, cs, off, j, k, q)
  <2>1. PICK l, q : TaskOf(f, cs, off, j, l, q)
    BY <1>1, TaskAt
  <2>2. Groups[f][l].name = g.name /\ l \in GetExecTasks(f)
    BY <1>7, <2>1 DEF TaskOf
  <2>3. l \in 1 .. Count(f)
    BY <2>2, ExecTasksType
  <2>4. l = k
    BY <1>4, <1>c, <2>2, <2>3 DEF CreatesOnce
  <2>5. TaskOf(f, cs, off, j, k, q)
    BY <2>1, <2>4
  <2>6. QED
    BY <2>5
<1>8. ASSUME NEW j \in 1 .. i - 1, cs[j].action = "CREATE", cs[j].name = g.name PROVE FALSE
  <2>1. j \in 1 .. Len(cs)
    OBVIOUS
  <2>a. PICK q : TaskOf(f, cs, off, j, k, q)
    BY <1>7, <1>8, <2>1
  <2>b. /\ q \in 1 .. Len(Tasks(k, f)) /\ j = off[k] + q
        /\ q <= r => (q = 1 /\ cs[j].action = "KILL") \/ (q = 2 /\ cs[j].action = "DELETE")
        /\ q > r => q - r \in 1 .. Len(g.actions) /\ cs[j].action = g.actions[q - r]
    BY <2>a DEF TaskOf, r
  <2>2. /\ j = off[k] + q
        /\ q <= r => cs[j].action # "CREATE"
        /\ q > r => q - r \in DOMAIN g.actions /\ cs[j].action = g.actions[q - r]
    <3> HIDE DEF g
    <3>1. QED
      BY <1>5, <2>b
  <2>3. q \in Nat /\ p \in Nat
    BY <1>p, <2>b
  <2>4. q > r /\ q - r \in DOMAIN g.actions /\ g.actions[q - r] = "CREATE"
    BY <1>4, <1>8, <2>2, <2>3
  <2>5. q - r = p - r
    BY <1>4, <1>6, <1>c, <2>4 DEF CreatesOnce
  <2>6. q = p
    BY <1>4, <2>3, <2>5
  <2>7. QED
    BY <1>3, <1>4, <2>2, <2>3, <2>6
<1>9. ASSUME blocks[g.name].state # "none" PROVE Removed(cs, blocks, i)
  <2>1. g.name \in fbList
    <3>1. g.name \in Names
      BY <1>4, GroupType
    <3>2. QED
      BY <1>9, <3>1 DEF There, Exists
  <2>2. r = 2
    BY <2>1 DEF r, Replaced
  <2> DEFINE ts == Tasks(k, f)
             d == off[k] + 2
             e1 == off[k] + 1
  <2>3. /\ ts[1] = Command("KILL", g.name, f) /\ ts[2] = Command("DELETE", g.name, f)
        /\ Len(ts) \in Nat /\ p <= Len(ts) /\ p \in Nat
    <3>1. ts = TaskCommands(g, f)
      BY DEF Tasks
    <3>2. ts \in Seq(Cmds)
      BY <1>4, <3>1, TaskCommandsShape
    <3>3. Len(ts) \in Nat
      BY <3>2, LenProperties
    <3>4. ts[1] = Command("KILL", g.name, f) /\ ts[2] = Command("DELETE", g.name, f)
      BY <1>4, <2>1, <3>1, TaskCommandsShape
    <3>5. p \in 1 .. Len(ts)
      BY <1>p
    <3>6. QED
      BY <3>3, <3>4, <3>5
  <2> HIDE DEF ts
  <2>4. 1 \in 1 .. Len(ts) /\ 2 \in 1 .. Len(ts)
    BY <1>6, <2>2, <2>3
  <2>5. cs[e1] = ts[1] /\ cs[d] = ts[2]
    BY <1>1, <1>p, <2>4 DEF Stands, ts
  <2>6. d \in 1 .. i - 1 /\ e1 \in 1 .. d - 1
    <3> DEFINE o == off[k]
    <3>1. o \in Nat /\ i = o + p /\ p > 2 /\ p \in Nat /\ d = o + 2 /\ e1 = o + 1
      BY <1>3, <1>4, <1>6, <2>2, <2>3
    <3> HIDE DEF o, d, e1
    <3>2. QED
      BY <3>1
  <2>7. cs[e1].name = g.name /\ cs[e1].action = "KILL" /\ cs[d].name = g.name /\ cs[d].action = "DELETE"
    BY <2>3, <2>5 DEF Command
  <2>8. ASSUME NEW e \in 1 .. d - 1, cs[e].name = g.name PROVE cs[e].action \in {"KILL", "QUERY"}
    <3>1. e \in 1 .. Len(cs)
      BY <2>6
    <3>q. PICK q : TaskOf(f, cs, off, e, k, q)
      BY <1>7, <2>8, <3>1
    <3>2. q \in 1 .. Len(ts) /\ e = off[k] + q
      BY <3>q DEF ts, TaskOf
    <3>3. q = 1
      BY <1>4, <3>2
    <3>4. e = e1
      BY <3>2, <3>3
    <3> HIDE DEF e1
    <3>5. QED
      BY <2>7, <3>4
  <2> HIDE DEF d, e1
  <2>9. QED
    BY <1>3, <2>6, <2>7, <2>8 DEF Removed
<1>10. QED
  BY <1>3, <1>8, <1>9 DEF SafeCreate

LEMMA PendingType ==
  ASSUME TypeOK
  PROVE  Unsent \in Seq(Cmds) /\ Pending \in Seq(Cmds) /\ requests \in Seq(Cmds) /\ commands \in Seq(Cmds)
<1>1. commands \in Seq(Cmds) /\ requests \in Seq(Cmds)
  BY TypeFacts
<1>2. pc \in {"read", "receive"} => Tail(commands) \in Seq(Cmds)
  BY <1>1, HeadTailProperties DEF TypeOK
<1>3. Unsent \in Seq(Cmds)
  BY <1>1, <1>2 DEF Unsent
<1>4. QED
  BY <1>1, <1>3, ConcatProperties DEF Pending

LEMMA RequestsPrefix ==
  ASSUME TypeOK
  PROVE  Prefix(requests, Pending)
<1>1. requests \in Seq(Cmds) /\ Unsent \in Seq(Cmds)
  BY PendingType
<1>2. Len(Pending) = Len(requests) + Len(Unsent) /\ \A i \in 1 .. Len(requests) : Pending[i] = requests[i]
  <2>1. Len(requests \o Unsent) = Len(requests) + Len(Unsent)
    BY <1>1, ConcatAt
  <2>2. \A i \in 1 .. Len(requests) : (requests \o Unsent)[i] = requests[i]
    BY <1>1, ConcatAt
  <2>3. QED
    BY <2>1, <2>2 DEF Pending
<1>3. Len(requests) \in Nat /\ Len(Unsent) \in Nat
  BY <1>1, LenProperties
<1>4. QED
  BY <1>2, <1>3 DEF Prefix

(* On the way out nothing more is sent. *)
LEMMA NothingMoreSent ==
  ASSUME TypeOK, UNCHANGED requests,
         connection' # "live" \/ pc' \notin {"send", "read", "receive"}
  PROVE  Pending' = requests
<1>1. Unsent' = <<>>
  BY DEF Unsent
<1>2. requests \o <<>> = requests
  BY PendingType, ConcatEmptySeq
<1>3. QED
  BY <1>1, <1>2 DEF Pending

(* What is executed leaves the requests to come, the others stay. *)
LEMMA ExecutedPending ==
  ASSUME TypeOK, requests # <<>>, requests' = Tail(requests), UNCHANGED <<connection, pc, commands>>
  PROVE  Pending # <<>> /\ Pending[1] = Head(requests) /\ Shifted(Pending', Pending)
<1> DEFINE R == requests
           T == Tail(requests)
           U == Unsent
<1>1. R \in Seq(Cmds) /\ U \in Seq(Cmds)
  BY PendingType
<1>2. T \in Seq(Cmds) /\ Len(T) = Len(R) - 1 /\ \A i \in 1 .. Len(T) : T[i] = R[i + 1]
  BY <1>1, HeadTailProperties
<1>3. Head(requests) = R[1] /\ Len(R) \in Nat /\ Len(R) # 0 /\ Len(U) \in Nat
  BY <1>1, LenProperties, EmptySeq
<1>4. Pending' = T \o U
  BY DEF Pending, Unsent
<1>5. Pending = R \o U
  BY DEF Pending
<1> HIDE DEF R, T, U
<1> DEFINE P == R \o U
           Q == T \o U
<1>6. Len(P) = Len(R) + Len(U) /\ (\A i \in 1 .. Len(R) : P[i] = R[i])
      /\ (\A i \in 1 .. Len(U) : P[Len(R) + i] = U[i])
  <2>1. Len(P) = Len(R) + Len(U)
    BY <1>1, ConcatAt
  <2>2. \A i \in 1 .. Len(R) : P[i] = R[i]
    BY <1>1, ConcatAt
  <2>3. \A i \in 1 .. Len(U) : P[Len(R) + i] = U[i]
    BY <1>1, ConcatAt
  <2>4. QED
    BY <2>1, <2>2, <2>3
<1>7. Len(Q) = Len(T) + Len(U) /\ (\A i \in 1 .. Len(T) : Q[i] = T[i])
      /\ (\A i \in 1 .. Len(U) : Q[Len(T) + i] = U[i])
  <2>0. T \in Seq(Cmds)
    BY <1>2
  <2>1. Len(Q) = Len(T) + Len(U)
    BY <1>1, <2>0, ConcatAt
  <2>2. \A i \in 1 .. Len(T) : Q[i] = T[i]
    BY <1>1, <2>0, ConcatAt
  <2>3. \A i \in 1 .. Len(U) : Q[Len(T) + i] = U[i]
    BY <1>1, <2>0, ConcatAt
  <2>4. QED
    BY <2>1, <2>2, <2>3
<1>p. P \in Seq(Cmds)
  BY <1>1, ConcatProperties
<1> DEFINE lr == Len(R)
           lu == Len(U)
           lt == Len(T)
<1>8. lr \in Nat /\ lr >= 1 /\ lu \in Nat /\ lt = lr - 1
  BY <1>2, <1>3
<1> HIDE DEF P, Q
<1>9. Len(P) = lr + lu /\ Len(Q) = lr + lu - 1
  <2>1. Len(P) = lr + lu /\ Len(Q) = lt + lu
    BY <1>6, <1>7
  <2> HIDE DEF lr, lt, lu
  <2>2. QED
    BY <1>8, <2>1
<1>10. P # <<>> /\ P[1] = R[1]
  <2>1. 1 \in 1 .. lr
    BY <1>8
  <2>2. P[1] = R[1]
    BY <1>6, <2>1
  <2>3. Len(P) # 0
    <3> HIDE DEF lr, lt, lu
    <3>1. QED
      BY <1>8, <1>9
  <2>4. QED
    BY <1>p, <2>2, <2>3, EmptySeq
<1>11. ASSUME NEW i \in 1 .. Len(Q) PROVE Q[i] = P[i + 1]
  <2>0. i \in 1 .. lr + lu - 1
    BY <1>9
  <2>1. CASE i <= lt
    <3>1. i \in 1 .. lt /\ i + 1 \in 1 .. lr
      <4> HIDE DEF lr, lt, lu
      <4>1. QED
        BY <1>8, <2>0, <2>1
    <3>2. Q[i] = T[i] /\ T[i] = R[i + 1]
      BY <1>2, <1>7, <3>1
    <3>3. P[i + 1] = R[i + 1]
      BY <1>6, <3>1
    <3>4. QED
      BY <3>2, <3>3
  <2>2. CASE i > lt
    <3> DEFINE j == i - lt
    <3>1. j \in 1 .. lu /\ lt + j = i /\ lr + j = i + 1
      <4> HIDE DEF lr, lt, lu
      <4>1. QED
        BY <1>8, <2>0, <2>2
    <3> HIDE DEF j
    <3>2. Q[lt + j] = U[j]
      BY <1>7, <3>1
    <3>3. P[lr + j] = U[j]
      BY <1>6, <3>1
    <3> HIDE DEF lr, lt
    <3>4. QED
      BY <3>1, <3>2, <3>3
  <2>3. i \in Int /\ lt \in Int
    <3> HIDE DEF lr, lt, lu
    <3>1. QED
      BY <1>8, <2>0
  <2> HIDE DEF lt
  <2>4. QED
    BY <2>1, <2>2, <2>3
<1>12. Len(Q) = Len(P) - 1
  <2> HIDE DEF lr, lu
  <2>1. QED
    BY <1>8, <1>9
<1>13. Shifted(Q, P)
  BY <1>11, <1>12 DEF Shifted
<1>14. QED
  BY <1>3, <1>4, <1>5, <1>10, <1>13 DEF P, Q

LEMMA SafeSame ==
  ASSUME TypeOK, SafeInv, Pending' = Pending, UNCHANGED blocks
  PROVE  SafeInv'
BY DEF SafeInv, Safe, SafeCreate, Removed

LEMMA SafeNothingMore ==
  ASSUME TypeOK, SafeInv, UNCHANGED <<requests, blocks>>,
         connection' # "live" \/ pc' \notin {"send", "read", "receive"}
  PROVE  SafeInv'
<1>1. Pending' = requests
  BY NothingMoreSent
<1>2. Safe(requests, blocks)
  BY PendingType, RequestsPrefix, SafePrefix DEF SafeInv
<1>3. QED
  BY <1>1, <1>2 DEF SafeInv, Safe, SafeCreate, Removed

LEMMA LeaveSafe ==
  ASSUME TypeOK, SafeInv, UNCHANGED <<requests, blocks>>, NEW result, Leave(result)
  PROVE  SafeInv'
<1>1. connection' # "live"
  BY DEF Leave
<1>2. QED
  BY <1>1, SafeNothingMore

LEMMA WriteKeepsPending ==
  ASSUME TypeInv, Write, connection = "live", requests' = Append(requests, Head(commands)),
         pc' = "read", UNCHANGED <<connection, commands>>
  PROVE  Pending' = Pending
<1>1. requests \in Seq(Cmds) /\ commands \in Seq(Cmds) /\ commands # <<>>
  BY TypeFacts DEF TypeInv, Write, TypeOK
<1>2. Head(commands) \in Cmds /\ Tail(commands) \in Seq(Cmds) /\ commands = <<Head(commands)>> \o Tail(commands)
  BY <1>1
<1>3. Append(requests, Head(commands)) = requests \o <<Head(commands)>>
  BY <1>1, <1>2
<1>4. <<Head(commands)>> \in Seq(Cmds)
  BY <1>2
<1> DEFINE R == requests
           h == <<Head(commands)>>
           T == Tail(commands)
<1>5. (R \o h) \o T = R \o (h \o T)
  BY <1>1, <1>2, <1>4, ConcatAssociative
<1>6. Unsent = commands /\ Unsent' = Tail(commands)
  BY DEF Write, Unsent
<1>7. QED
  BY <1>2, <1>3, <1>5, <1>6 DEF Pending

LEMMA StepKeepsSafe == RequestInv /\ SafeInv /\ [Next]_vars => SafeInv'
<1> SUFFICES ASSUME RequestInv, SafeInv, [Next]_vars PROVE SafeInv'
  OBVIOUS
<1>0. TypeInv /\ TypeOK /\ OwnState /\ PromptInv /\ commands \in Seq(Cmds) /\ requests \in Seq(Cmds)
  BY TypeFacts DEF RequestInv, TypeInv
<1>1. ASSUME NEW f \in Files, Connect(f) PROVE SafeInv'
  <2>1. CASE Leave("threw")
    BY <1>0, <1>1, <2>1, LeaveSafe DEF Connect, runtime
  <2>2. CASE requests = <<>> /\ pc' = "send" /\ connection' = "live" /\ commands' = <<Query>>
    <3>1. Pending' = <<>> \o <<Query>> /\ <<Query>> \in Seq(Cmds)
      BY <1>1, <2>2, QueryType DEF Connect, runtime, Pending, Unsent
    <3>2. Pending' = <<Query>>
      BY <3>1, ConcatEmptySeq
    <3>3. \A i \in 1 .. Len(<<Query>>) : <<Query>>[i].action # "CREATE"
      BY QueryType
    <3>4. QED
      BY <3>2, <3>3 DEF SafeInv, Safe
  <2>3. QED
    BY <1>1, <2>1, <2>2 DEF Connect
<1>2. CASE Write
  <2>0. UNCHANGED blocks
    BY <1>2 DEF Write
  <2>1. CASE Leave("threw") /\ UNCHANGED requests
    BY <1>0, <2>0, <2>1, LeaveSafe
  <2>2. CASE /\ connection = "live" /\ requests' = Append(requests, Head(commands)) /\ pc' = "read"
             /\ UNCHANGED <<connection, commands>>
    BY <1>0, <1>2, <2>0, <2>2, WriteKeepsPending, SafeSame
  <2>3. CASE connection = "broken" /\ UNCHANGED <<connection, requests>>
    BY <1>0, <2>0, <2>3, SafeNothingMore
  <2>4. QED
    BY <1>2, <2>1, <2>2, <2>3 DEF Write
<1>3. ASSUME NEW n \in 1 .. CHUNK_SIZE, Read(n) PROVE SafeInv'
  <2>1. Pending' = Pending /\ UNCHANGED blocks
    BY <1>3 DEF Read, runtime, Pending, Unsent
  <2>2. QED
    BY <1>0, <2>1, SafeSame
<1>4. CASE Timeout
  <2>1. Pending' = Pending /\ UNCHANGED blocks
    BY <1>4 DEF Timeout, client, runtime, Pending, Unsent
  <2>2. QED
    BY <1>0, <2>1, SafeSame
<1>5. CASE OnQueryResponse
  <2>0. UNCHANGED <<requests, blocks>>
    BY <1>5 DEF OnQueryResponse, runtime
  <2>1. Leave("threw") \/ Leave("false") \/ pc' = "parse"
    BY <1>5 DEF OnQueryResponse
  <2>2. QED
    BY <1>0, <2>0, <2>1, LeaveSafe, SafeNothingMore
<1>6. CASE Parse
  <2>0. UNCHANGED <<requests, blocks>>
    BY <1>6 DEF Parse, runtime
  <2>1. Leave("threw") \/ pc' = "publish"
    BY <1>6 DEF Parse
  <2>2. QED
    BY <1>0, <2>0, <2>1, LeaveSafe, SafeNothingMore
<1>7. CASE OnPublish
  <2>0. UNCHANGED <<requests, blocks>> /\ pc = "publish" /\ content = file /\ file \in Files
    BY <1>0, <1>7 DEF OnPublish, runtime, OwnState, TypeOK
  <2>1. CASE Leave("true")
    BY <1>0, <2>0, <2>1, LeaveSafe
  <2>2. CASE pc' = "send" /\ commands' = PublishCommands(content) /\ UNCHANGED connection
    <3>1. CASE connection = "live"
      <4>1. requests = <<>> /\ fbList = There
        BY <1>0, <2>0, <3>1 DEF PromptInv
      <4>2. Safe(PublishCommands(file), blocks)
        BY <1>0, <2>0, <4>1, PublishSafe
      <4>3. PublishCommands(file) \in Seq(Cmds)
        BY <2>0, PublishShape
      <4>4. Pending' = <<>> \o PublishCommands(file)
        BY <2>0, <2>2, <3>1, <4>1 DEF Pending, Unsent
      <4>5. Pending' = PublishCommands(file)
        BY <4>3, <4>4, ConcatEmptySeq
      <4>6. QED
        BY <2>0, <4>2, <4>5 DEF SafeInv
    <3>2. CASE connection # "live"
      BY <1>0, <2>0, <2>2, <3>2, SafeNothingMore
    <3>3. QED
      BY <3>1, <3>2
  <2>3. QED
    BY <1>7, <2>1, <2>2 DEF OnPublish
<1>8. CASE OnCommandResponse
  <2>0. UNCHANGED <<requests, blocks>> /\ pc = "receive"
    BY <1>8 DEF OnCommandResponse, runtime
  <2>1. CASE Leave("threw") \/ Leave("true")
    BY <1>0, <2>0, <2>1, LeaveSafe
  <2>2. CASE pc' = "send" /\ commands' = Tail(commands) /\ UNCHANGED connection
    <3>1. Pending' = Pending
      BY <2>0, <2>2 DEF Pending, Unsent
    <3>2. QED
      BY <1>0, <2>0, <3>1, SafeSame
  <2>3. QED
    BY <1>8, <2>1, <2>2 DEF OnCommandResponse
<1>9. CASE ExecuteRequest
  <2> DEFINE c == Head(requests)
  <2>1. /\ requests # <<>> /\ requests' = Tail(requests) /\ UNCHANGED <<connection, pc, commands>>
        /\ blocks' = IF Accepts(c) THEN [blocks EXCEPT ![c.name] = After(c)] ELSE blocks
    BY <1>9 DEF ExecuteRequest, client
  <2>2. Pending # <<>> /\ Pending[1] = c /\ Shifted(Pending', Pending)
    BY <1>0, <2>1, ExecutedPending
  <2>3. Pending \in Seq(Cmds)
    BY <1>0, PendingType
  <2>4. Pending' \in Seq(Cmds)
    <3>1. Pending' = Tail(requests) \o Unsent
      BY <2>1 DEF Pending, Unsent
    <3>2. Tail(requests) \in Seq(Cmds) /\ Unsent \in Seq(Cmds)
      BY <1>0, <2>1, PendingType, HeadTailProperties
    <3>3. QED
      BY <3>1, <3>2, ConcatProperties
  <2>5. Safe(Pending, blocks)
    BY DEF SafeInv
  <2> HIDE DEF c
  <2>6. Safe(Pending', blocks')
    BY <1>0, <2>1, <2>2, <2>3, <2>4, <2>5, SafeStep
  <2>7. QED
    BY <2>6 DEF SafeInv
<1>10. CASE DropRequests \/ RuntimeRestarts
  <2>1. requests' = <<>> /\ connection' # "live"
    BY <1>10 DEF DropRequests, RuntimeRestarts, client
  <2>2. Pending' = <<>> \o <<>>
    BY <2>1 DEF Pending, Unsent
  <2>3. Len(Pending') = 0
    BY <2>2
  <2>4. QED
    BY <2>3 DEF SafeInv, Safe
<1>11. CASE Restart
  BY <1>0, <1>11, LeaveSafe DEF Restart, runtime
<1>12. CASE UNCHANGED vars
  <2>1. Pending' = Pending /\ UNCHANGED blocks
    BY <1>12 DEF vars, Pending, Unsent
  <2>2. QED
    BY <1>0, <2>1, SafeSame
<1>13. QED
  BY <1>1, <1>2, <1>3, <1>4, <1>5, <1>6, <1>7, <1>8, <1>9, <1>10, <1>11, <1>12
  DEF Next, ClientStep

LEMMA InitSafe == Init => SafeInv
<1> SUFFICES ASSUME Init PROVE SafeInv
  OBVIOUS
<1>1. Pending = <<>> \o <<>>
  BY DEF Init, Pending, Unsent
<1>2. Len(Pending) = 0
  BY <1>1
<1>3. QED
  BY <1>2 DEF SafeInv, Safe

(* The first of the requests to come is the first request. *)
LEMMA SafeAccepts == RequestInv /\ SafeInv => CreateAccepted
<1> SUFFICES ASSUME RequestInv, SafeInv, requests # <<>>, Head(requests).action = "CREATE",
                    CreatesOnce(Head(requests).from)
             PROVE  Accepts(Head(requests))
  BY DEF CreateAccepted
<1> DEFINE c == Head(requests)
<1>0. TypeOK /\ requests \in Seq(Cmds) /\ blocks \in [Names -> Blocks]
  BY TypeFacts DEF RequestInv, TypeInv
<1>1. c = requests[1] /\ c \in Cmds /\ 1 \in 1 .. Len(requests)
  BY <1>0
<1>2. Safe(requests, blocks)
  BY <1>0, PendingType, RequestsPrefix, SafePrefix DEF SafeInv
<1>3. SafeCreate(requests, blocks, 1)
  BY <1>1, <1>2 DEF Safe
<1>4. ~Removed(requests, blocks, 1)
  <2>1. 1 .. 1 - 1 = {}
    OBVIOUS
  <2>2. QED
    BY <2>1 DEF Removed
<1>5. blocks[c.name].state = "none"
  BY <1>1, <1>3, <1>4 DEF SafeCreate
<1> HIDE DEF c
<1>6. c.action = "CREATE"
  BY DEF c
<1>7. Accepts(c)
  BY <1>5, <1>6 DEF Accepts
<1>8. QED
  BY <1>7 DEF c

(***************************************************************************)
(* The runtime never refuses to create a block because an old one is left, *)
(* if the file creates it once: late answers, requests that go on being    *)
(* executed after their connection, and restarts included.                 *)
(***************************************************************************)
THEOREM CreateAcceptedAlways == Spec => []CreateAccepted
<1>1. Init => RequestInv /\ SafeInv
  BY InitRequest, InitSafe
<1>2. RequestInv /\ SafeInv /\ [Next]_vars => RequestInv' /\ SafeInv'
  BY StepKeepsRequest, StepKeepsSafe
<1>3. QED
  BY <1>1, <1>2, SafeAccepts, PTL DEF Spec

-----------------------------------------------------------------------------
(***************************************************************************)
(* What became of a block of the file: it runs and nothing more is asked   *)
(* for it; it was created and is started once; or it is created, and only  *)
(* then started, after what removes an old one.                            *)
(***************************************************************************)
Loadable(f) == WellFormed(f) /\ CreatesOnce(f) /\ StartsBlocks(f)

Done(P, B, f, n) ==
    /\ B[n] = [state |-> "running", from |-> f]
    /\ \A i \in 1 .. Len(P) : P[i].name # n

StartsAt(P, n, s) ==
    /\ s \in 1 .. Len(P) /\ P[s].action = "START" /\ P[s].name = n
    /\ \A i \in 1 .. Len(P) : P[i].name = n => i = s

Created(P, B, f, n) ==
    /\ B[n] = [state |-> "idle", from |-> f]
    /\ \E s : StartsAt(P, n, s)

CreatesAt(P, f, n, b, s) ==
    /\ b \in 1 .. Len(P) /\ s \in 1 .. Len(P) /\ b < s
    /\ P[b].action = "CREATE" /\ P[b].name = n /\ P[b].from = f
    /\ P[s].action = "START" /\ P[s].name = n
    /\ \A i \in 1 .. Len(P) : P[i].name = n =>
          i = b \/ i = s \/ (i < b /\ P[i].action \in {"KILL", "DELETE"})

Awaited(P, f, n) == \E b, s : CreatesAt(P, f, n, b, s)

Loading(P, B, f, n) == Done(P, B, f, n) \/ Created(P, B, f, n) \/ Awaited(P, f, n)

LoadInv ==
    ~disturbed /\ pc \in {"send", "read", "receive"} /\ commands # <<Query>> /\ Loadable(file)
        => \A n \in NamesOf(file) : Loading(Pending, blocks, file, n)

(* A file that can be loaded creates and starts each of its blocks. *)
LEMMA PublishLoads ==
  ASSUME NEW f \in Files, Loadable(f), NEW n \in NamesOf(f)
  PROVE  Awaited(PublishCommands(f), f, n)
<1> DEFINE cs == PublishCommands(f)
<1>1. PICK off : Stands(f, cs, off)
  BY PublishShape
<1> HIDE DEF cs
<1>2. PICK k \in 1 .. Count(f) : Groups[f][k].name = n
  <2>1. PICK h \in Range(Groups[f]) : h.name = n
    BY DEF NamesOf
  <2>2. \E k \in 1 .. Count(f) : h = Groups[f][k]
    BY GroupType
  <2>3. QED
    BY <2>1, <2>2
<1> DEFINE g == Groups[f][k]
           r == Replaced(g)
           ts == Tasks(k, f)
<1>3. DOMAIN Groups[f] = 1 .. Count(f) /\ g \in Range(Groups[f])
  BY GroupType
<1>4. k \in GetExecTasks(f)
  <2>1. \A h \in Range(Groups[f]) : h.defect = "none"
    BY DEF Loadable, WellFormed
  <2>2. g.defect = "none" /\ ~(\E h \in Range(Groups[f]) : h.defect \in {"unnamed", "error"})
    BY <1>3, <2>1
  <2> HIDE DEF g
  <2>3. QED
    BY <1>3, <2>2 DEF GetExecTasks, g
<1>5. g.actions = <<"CREATE", "START">>
  BY <1>3 DEF Loadable, StartsBlocks
<1>6. Len(g.actions) = 2 /\ g.actions[1] = "CREATE" /\ g.actions[2] = "START"
  BY <1>5
<1>7. ts = TaskCommands(g, f)
  BY DEF Tasks
<1>8. Len(ts) = r + 2 /\ r \in {0, 2}
  <2>1. Len(ts) = r + Len(g.actions)
    BY <1>7, TaskCommandsShape
  <2>2. r \in {0, 2}
    BY DEF Replaced
  <2> HIDE DEF ts, r
  <2>3. QED
    BY <1>6, <2>1, <2>2
<1>9. ts[r + 1] = Command("CREATE", n, f) /\ ts[r + 2] = Command("START", n, f)
  <2>1. \A p \in 1 .. Len(g.actions) : ts[r + p] = Command(g.actions[p], g.name, f)
    BY <1>7, TaskCommandsShape
  <2>2. 1 \in 1 .. Len(g.actions) /\ 2 \in 1 .. Len(g.actions)
    BY <1>6
  <2>3. ts[r + 1] = Command(g.actions[1], g.name, f) /\ ts[r + 2] = Command(g.actions[2], g.name, f)
    BY <2>1, <2>2
  <2>4. QED
    BY <1>2, <1>6, <2>3
<1> DEFINE o == off[k]
           b == o + r + 1
           s == o + r + 2
<1>10. o \in Nat
  BY <1>1, <1>4, ExecTasksType DEF Stands
<1> HIDE DEF r, ts
<1>11. r + 1 \in 1 .. Len(ts) /\ r + 2 \in 1 .. Len(ts)
  BY <1>8
<1>12. /\ o + (r + 1) \in 1 .. Len(cs) /\ cs[o + (r + 1)] = ts[r + 1]
       /\ o + (r + 2) \in 1 .. Len(cs) /\ cs[o + (r + 2)] = ts[r + 2]
  BY <1>1, <1>4, <1>11 DEF Stands, ts
<1> HIDE DEF o
<1>13. b = o + (r + 1) /\ s = o + (r + 2) /\ b < s
  BY <1>8, <1>10
<1> HIDE DEF b, s
<1>14. cs[b] = Command("CREATE", n, f) /\ cs[s] = Command("START", n, f)
  BY <1>9, <1>12, <1>13
<1>15. ASSUME NEW i \in 1 .. Len(cs), cs[i].name = n
       PROVE  i = b \/ i = s \/ (i < b /\ cs[i].action \in {"KILL", "DELETE"})
  <2>1. PICK l, q : TaskOf(f, cs, off, i, l, q)
    BY <1>1, TaskAt
  <2>2. Groups[f][l].name = g.name /\ l \in 1 .. Count(f)
    BY <1>2, <1>15, <2>1, ExecTasksType DEF TaskOf
  <2>3. l = k
    BY <1>3, <2>2 DEF Loadable, CreatesOnce
  <2>4. TaskOf(f, cs, off, i, k, q)
    BY <2>1, <2>3
  <2>5. /\ q \in 1 .. Len(ts) /\ i = o + q
        /\ q <= r => (q = 1 /\ cs[i].action = "KILL") \/ (q = 2 /\ cs[i].action = "DELETE")
        /\ q > r => q - r \in 1 .. Len(g.actions)
    BY <2>4 DEF TaskOf, ts, o, r
  <2> HIDE DEF g
  <2>6. CASE q <= r
    <3>1. cs[i].action \in {"KILL", "DELETE"}
      BY <2>5, <2>6
    <3>2. i < b
      BY <1>8, <1>10, <1>13, <2>5, <2>6
    <3>3. QED
      BY <3>1, <3>2
  <2>7. CASE q > r
    <3>1. q - r \in 1 .. 2
      BY <1>6, <2>5, <2>7
    <3>2. q = r + 1 \/ q = r + 2
      BY <1>8, <2>5, <3>1
    <3>3. QED
      BY <1>13, <2>5, <3>2
  <2>8. q \in Int /\ r \in Int
    BY <1>8, <2>5
  <2>9. QED
    BY <2>6, <2>7, <2>8
<1>16. CreatesAt(cs, f, n, b, s)
  <2>1. cs[b].action = "CREATE" /\ cs[b].name = n /\ cs[b].from = f
    BY <1>14 DEF Command
  <2>2. cs[s].action = "START" /\ cs[s].name = n
    BY <1>14 DEF Command
  <2>3. QED
    BY <1>12, <1>13, <1>15, <2>1, <2>2 DEF CreatesAt
<1>17. QED
  BY <1>16 DEF Awaited, cs

(* A request for a block that was awaited or created brings it on. *)
LEMMA LoadStep ==
  ASSUME TypeOK, NEW P \in Seq(Cmds), NEW Q \in Seq(Cmds), NEW c, P # <<>>, c = P[1], Shifted(Q, P),
         blocks' = IF Accepts(c) THEN [blocks EXCEPT ![c.name] = After(c)] ELSE blocks,
         NEW f \in Files, NEW n \in Names, Loading(P, blocks, f, n),
         c.action = "CREATE" /\ c.from = f => Accepts(c)
  PROVE  Loading(Q, blocks', f, n)
<1>0. Len(P) \in Nat /\ Len(P) >= 1 /\ Len(Q) \in Nat /\ Len(Q) = Len(P) - 1
  <2>1. Len(P) \in Nat /\ Len(Q) \in Nat
    BY LenProperties
  <2>2. Len(P) # 0
    BY EmptySeq
  <2>3. QED
    BY <2>1, <2>2 DEF Shifted
<1>1. \A i \in 1 .. Len(Q) : Q[i] = P[i + 1] /\ i + 1 \in 1 .. Len(P) /\ i + 1 # 1
  BY <1>0 DEF Shifted
<1>2. 1 \in 1 .. Len(P) /\ c \in Cmds /\ c.name \in Names
  <2>1. 1 \in 1 .. Len(P)
    BY <1>0
  <2>2. P[1] \in Cmds
    BY <2>1, ElementOfSeq
  <2>3. QED
    BY <2>1, <2>2 DEF Cmds
<1>3. blocks \in [Names -> Blocks]
  BY TypeFacts
<1>4. c.name # n => blocks'[n] = blocks[n]
  BY <1>2, <1>3
<1>5. c.name = n /\ Accepts(c) => blocks'[n] = After(c)
  BY <1>2, <1>3
<1>6. CASE Done(P, blocks, f, n)
  <2>1. c.name # n
    BY <1>2, <1>6 DEF Done
  <2>2. \A i \in 1 .. Len(Q) : Q[i].name # n
    BY <1>1, <1>6 DEF Done
  <2>3. blocks'[n] = [state |-> "running", from |-> f]
    BY <1>4, <1>6, <2>1 DEF Done
  <2>4. Done(Q, blocks', f, n)
    BY <2>2, <2>3 DEF Done
  <2>5. QED
    BY <2>4 DEF Loading
<1>7. CASE Created(P, blocks, f, n)
  <2>1. PICK s : StartsAt(P, n, s)
    BY <1>7 DEF Created
  <2>2. blocks[n] = [state |-> "idle", from |-> f]
    BY <1>7 DEF Created
  <2>3. CASE s = 1
    <3>1. c.action = "START" /\ c.name = n
      BY <2>1, <2>3 DEF StartsAt
    <3>2. Accepts(c)
      BY <2>2, <3>1 DEF Accepts
    <3>3. After(c) = [blocks[n] EXCEPT !.state = "running"]
      BY <3>1 DEF After
    <3>4. blocks'[n] = [state |-> "running", from |-> f]
      BY <1>5, <2>2, <3>1, <3>2, <3>3
    <3>5. \A i \in 1 .. Len(Q) : Q[i].name # n
      BY <1>1, <2>1, <2>3 DEF StartsAt
    <3>6. Done(Q, blocks', f, n)
      BY <3>4, <3>5 DEF Done
    <3>7. QED
      BY <3>6 DEF Loading
  <2>4. CASE s # 1
    <3>1. c.name # n
      BY <1>2, <2>1, <2>4 DEF StartsAt
    <3>2. blocks'[n] = [state |-> "idle", from |-> f]
      BY <1>4, <2>2, <3>1
    <3> DEFINE t == s - 1
    <3>3. t \in 1 .. Len(Q) /\ t + 1 = s
      BY <1>0, <2>1, <2>4 DEF StartsAt
    <3> HIDE DEF t
    <3>4. Q[t].action = "START" /\ Q[t].name = n
      BY <1>1, <2>1, <3>3 DEF StartsAt
    <3>5. ASSUME NEW i \in 1 .. Len(Q), Q[i].name = n PROVE i = t
      <4>1. i + 1 = s
        BY <1>1, <2>1, <3>5 DEF StartsAt
      <4>2. QED
        BY <1>0, <3>3, <4>1
    <3>6. StartsAt(Q, n, t)
      BY <3>3, <3>4, <3>5 DEF StartsAt
    <3>7. Created(Q, blocks', f, n)
      BY <3>2, <3>6 DEF Created
    <3>8. QED
      BY <3>7 DEF Loading
  <2>5. QED
    BY <2>3, <2>4
<1>8. CASE Awaited(P, f, n)
  <2>1. PICK b, s : CreatesAt(P, f, n, b, s)
    BY <1>8 DEF Awaited
  <2>2. b \in 1 .. Len(P) /\ s \in 1 .. Len(P) /\ b < s
    BY <2>1 DEF CreatesAt
  <2> DEFINE t == s - 1
             a == b - 1
  <2>3. t \in 1 .. Len(Q) /\ t + 1 = s
    BY <1>0, <2>2
  <2>4. a + 1 = b /\ (b # 1 => a \in 1 .. Len(Q) /\ a < t)
    BY <1>0, <2>2
  <2> HIDE DEF t, a
  <2>5. Q[t].action = "START" /\ Q[t].name = n
    BY <1>1, <2>1, <2>3 DEF CreatesAt
  <2>6. CASE b = 1
    <3>1. c.action = "CREATE" /\ c.name = n /\ c.from = f
      BY <2>1, <2>6 DEF CreatesAt
    <3>2. After(c) = [state |-> "idle", from |-> f]
      BY <3>1 DEF After
    <3>3. blocks'[n] = [state |-> "idle", from |-> f]
      BY <1>5, <3>1, <3>2
    <3>4. ASSUME NEW i \in 1 .. Len(Q), Q[i].name = n PROVE i = t
      <4>1. i + 1 = b \/ i + 1 = s \/ i + 1 < b
        BY <1>1, <2>1, <3>4 DEF CreatesAt
      <4>2. QED
        BY <1>0, <2>3, <2>6, <4>1
    <3>5. StartsAt(Q, n, t)
      BY <2>3, <2>5, <3>4 DEF StartsAt
    <3>6. Created(Q, blocks', f, n)
      BY <3>3, <3>5 DEF Created
    <3>7. QED
      BY <3>6 DEF Loading
  <2>7. CASE b # 1
    <3>1. Q[a].action = "CREATE" /\ Q[a].name = n /\ Q[a].from = f
      BY <1>1, <2>1, <2>4, <2>7 DEF CreatesAt
    <3>2. ASSUME NEW i \in 1 .. Len(Q), Q[i].name = n
          PROVE  i = a \/ i = t \/ (i < a /\ Q[i].action \in {"KILL", "DELETE"})
      <4>1. i + 1 = b \/ i + 1 = s \/ (i + 1 < b /\ Q[i].action \in {"KILL", "DELETE"})
        BY <1>1, <2>1, <3>2 DEF CreatesAt
      <4>2. (i + 1 = b => i = a) /\ (i + 1 = s => i = t) /\ (i + 1 < b => i < a)
        BY <1>0, <2>3, <2>4, <2>7
      <4>3. QED
        BY <4>1, <4>2
    <3>3. CreatesAt(Q, f, n, a, t)
      BY <2>3, <2>4, <2>5, <2>7, <3>1, <3>2 DEF CreatesAt
    <3>4. QED
      BY <3>3 DEF Loading, Awaited
  <2>8. QED
    BY <2>6, <2>7
<1>9. QED
  BY <1>6, <1>7, <1>8 DEF Loading

(* Nothing more to come: the block runs. *)
LEMMA LoadEnds ==
  ASSUME NEW P, Len(P) = 0, NEW f, NEW n, Loading(P, blocks, f, n)
  PROVE  blocks[n] = [state |-> "running", from |-> f]
<1>1. 1 .. Len(P) = {}
  OBVIOUS
<1>2. QED
  BY <1>1 DEF Loading, Done, Created, StartsAt, Awaited, CreatesAt

(* The whole invariant. *)
AllInv == RequestInv /\ SafeInv /\ LoadInv /\ LoadedWhenPrompt

LEMMA LoadSame ==
  ASSUME LoadInv, UNCHANGED <<blocks, file, commands>>, Pending' = Pending,
         ~disturbed' => ~disturbed, pc \in {"send", "read", "receive"}
  PROVE  LoadInv'
BY DEF LoadInv, Loading, Done, Created, StartsAt, Awaited, CreatesAt

LEMMA LoadIdle ==
  ASSUME pc' \notin {"send", "read", "receive"}
  PROVE  LoadInv'
BY DEF LoadInv

LEMMA LoadedSame ==
  ASSUME LoadedWhenPrompt, UNCHANGED <<pc, blocks, file, disturbed>>
  PROVE  LoadedWhenPrompt'
BY DEF LoadedWhenPrompt, Loaded

LEMMA LeaveLoad ==
  ASSUME NEW result, result \notin {"send", "read", "receive", "true"}, Leave(result)
  PROVE  LoadInv' /\ LoadedWhenPrompt'
BY DEF Leave, LoadInv, LoadedWhenPrompt

(* Nothing is pending any more. *)
LEMMA LeaveLoaded ==
  ASSUME TypeOK, file \in Files, LoadInv, pc = "receive", commands # <<Query>>, Len(commands) = 1,
         UNCHANGED <<requests, file, blocks, disturbed>>, Leave("true"),
         ~disturbed => requests = <<>>
  PROVE  LoadInv' /\ LoadedWhenPrompt'
<1>1. pc' = "true"
  BY DEF Leave
<1>2. ASSUME ~disturbed, Loadable(file), NEW g \in Range(Groups[file])
      PROVE  blocks[g.name] = [state |-> "running", from |-> file]
  <2>1. g.name \in NamesOf(file)
    BY DEF NamesOf
  <2>2. Loading(Pending, blocks, file, g.name)
    BY <1>2, <2>1 DEF LoadInv
  <2>3. Unsent \in Seq(Cmds) /\ commands \in Seq(Cmds) /\ commands # <<>>
    BY PendingType DEF TypeOK
  <2>4. Len(Tail(commands)) = 0 /\ Tail(commands) \in Seq(Cmds)
    BY <2>3
  <2>5. Unsent = <<>>
    <3>1. Unsent = <<>> \/ Unsent = Tail(commands)
      BY DEF Unsent
    <3>2. QED
      BY <2>4, <3>1, EmptySeq
  <2>6. Len(Pending) = 0
    BY <1>2, <2>5 DEF Pending
  <2>7. QED
    BY <2>2, <2>6, LoadEnds
<1>3. ~disturbed' /\ WellFormed(file') /\ CreatesOnce(file') /\ StartsBlocks(file') => Loaded'
  BY <1>2 DEF Loaded, Loadable
<1>4. LoadedWhenPrompt'
  BY <1>3 DEF LoadedWhenPrompt
<1>5. QED
  BY <1>1, <1>4, LoadIdle

LEMMA PublishLoad ==
  ASSUME RequestInv, OnPublish
  PROVE  LoadInv' /\ LoadedWhenPrompt'
<1>0. TypeOK /\ OwnState /\ PromptInv /\ Undisturbed
  BY DEF RequestInv, TypeInv
<1>1. UNCHANGED <<requests, file, disturbed>> /\ pc = "publish" /\ content = file /\ file \in Files
  BY <1>0 DEF OnPublish, runtime, OwnState, TypeOK
<1> DEFINE cs == PublishCommands(file)
<1>2. CASE cs = <<>> /\ Leave("true")
  <2>1. ASSUME Loadable(file), NEW g \in Range(Groups[file]) PROVE FALSE
    <3>1. g.name \in NamesOf(file)
      BY DEF NamesOf
    <3>2. Awaited(cs, file, g.name)
      BY <1>1, <2>1, <3>1, PublishLoads
    <3>3. \E b : b \in 1 .. Len(cs)
      BY <3>2 DEF Awaited, CreatesAt
    <3> HIDE DEF cs
    <3>4. QED
      BY <1>2, <3>3
  <2>2. LoadedWhenPrompt'
    BY <1>1, <2>1 DEF LoadedWhenPrompt, Loaded, Loadable
  <2>3. pc' = "true"
    BY <1>2 DEF Leave
  <2>4. QED
    BY <2>2, <2>3, LoadIdle
<1>3. CASE pc' = "send" /\ commands' = cs /\ UNCHANGED connection
  <2>1. ASSUME ~disturbed, Loadable(file), NEW n \in NamesOf(file)
        PROVE  Loading(Pending', blocks', file, n)
    <3>1. connection = "live" /\ requests = <<>>
      BY <1>0, <1>1, <2>1 DEF Undisturbed, Ended, PromptInv
    <3>2. Pending' = <<>> \o cs
      BY <1>1, <1>3, <3>1 DEF Pending, Unsent
    <3>3. Pending' = cs
      BY <1>1, <3>2, PublishShape, ConcatEmptySeq
    <3>4. Awaited(cs, file, n)
      BY <1>1, <2>1, PublishLoads
    <3> HIDE DEF cs
    <3>5. QED
      BY <3>3, <3>4 DEF Loading
  <2>2. LoadInv'
    BY <1>1, <2>1 DEF LoadInv
  <2>3. LoadedWhenPrompt'
    BY <1>3 DEF LoadedWhenPrompt
  <2>4. QED
    BY <2>2, <2>3
<1>4. QED
  BY <1>1, <1>2, <1>3 DEF OnPublish

LEMMA ExecuteLoad ==
  ASSUME RequestInv, SafeInv, LoadInv, LoadedWhenPrompt, ExecuteRequest
  PROVE  LoadInv' /\ LoadedWhenPrompt'
<1> DEFINE c == Head(requests)
<1>0. TypeOK /\ OwnState /\ Undisturbed /\ requests \in Seq(Cmds)
  BY TypeFacts DEF RequestInv, TypeInv
<1>1. /\ requests # <<>> /\ requests' = Tail(requests)
      /\ UNCHANGED <<connection, pc, commands, file, disturbed>>
      /\ blocks' = IF Accepts(c) THEN [blocks EXCEPT ![c.name] = After(c)] ELSE blocks
  BY DEF ExecuteRequest, client
<1>2. Pending # <<>> /\ Pending[1] = c /\ Shifted(Pending', Pending)
  BY <1>0, <1>1, ExecutedPending
<1>3. Pending \in Seq(Cmds)
  BY <1>0, PendingType
<1>4. Pending' \in Seq(Cmds)
  <2>1. Pending' = Tail(requests) \o Unsent
    BY <1>1 DEF Pending, Unsent
  <2>2. Tail(requests) \in Seq(Cmds) /\ Unsent \in Seq(Cmds)
    BY <1>0, <1>1, PendingType, HeadTailProperties
  <2>3. QED
    BY <2>1, <2>2, ConcatProperties
<1>5. CreateAccepted
  BY SafeAccepts
<1> HIDE DEF c
<1>6. ASSUME ~disturbed, pc \in {"send", "read", "receive"}, commands # <<Query>>, Loadable(file),
             NEW n \in NamesOf(file)
      PROVE  Loading(Pending', blocks', file, n)
  <2>1. file \in Files
    BY <1>0, <1>6 DEF OwnState
  <2>2. n \in Names
    <3>1. PICK g \in Range(Groups[file]) : g.name = n
      BY DEF NamesOf
    <3>2. \E k \in 1 .. Count(file) : g = Groups[file][k]
      BY <2>1, GroupType
    <3>3. QED
      BY <2>1, <3>1, <3>2, GroupType
  <2>3. c.action = "CREATE" /\ c.from = file => Accepts(c)
    BY <1>1, <1>5, <1>6 DEF CreateAccepted, Loadable, c
  <2>4. Loading(Pending, blocks, file, n)
    BY <1>6 DEF LoadInv
  <2>5. QED
    BY <1>0, <1>1, <1>2, <1>3, <1>4, <2>1, <2>2, <2>3, <2>4, LoadStep
<1>7. LoadInv'
  BY <1>1, <1>6 DEF LoadInv
<1>8. LoadedWhenPrompt'
  BY <1>0, <1>1 DEF LoadedWhenPrompt, Undisturbed
<1>9. QED
  BY <1>7, <1>8

LEMMA StepKeepsLoad == AllInv /\ [Next]_vars => LoadInv' /\ LoadedWhenPrompt'
<1> SUFFICES ASSUME AllInv, [Next]_vars PROVE LoadInv' /\ LoadedWhenPrompt'
  OBVIOUS
<1>0. /\ RequestInv /\ SafeInv /\ LoadInv /\ LoadedWhenPrompt
      /\ TypeInv /\ TypeOK /\ OwnState /\ StreamInv /\ OriginInv /\ PromptInv /\ Undisturbed
  BY DEF AllInv, RequestInv, TypeInv
<1>r. RequestInv'
  BY <1>0, StepKeepsRequest
<1>1. ASSUME NEW f \in Files, Connect(f) PROVE LoadInv' /\ LoadedWhenPrompt'
  <2>1. CASE Leave("threw")
    BY <2>1, LeaveLoad
  <2>2. CASE pc' = "send" /\ commands' = <<Query>>
    BY <2>2 DEF LoadInv, LoadedWhenPrompt
  <2>3. QED
    BY <1>1, <2>1, <2>2 DEF Connect
<1>2. CASE Write
  <2>0. pc = "send" /\ UNCHANGED <<blocks, file, disturbed>>
    BY <1>2 DEF Write
  <2>1. CASE Leave("threw")
    BY <2>1, LeaveLoad
  <2>2. CASE /\ connection = "live" /\ requests' = Append(requests, Head(commands)) /\ pc' = "read"
             /\ UNCHANGED <<connection, commands>>
    <3>1. Pending' = Pending
      BY <1>0, <1>2, <2>2, WriteKeepsPending
    <3>2. LoadInv'
      BY <1>0, <2>0, <2>2, <3>1, LoadSame
    <3>3. QED
      BY <2>2, <3>2 DEF LoadedWhenPrompt
  <2>3. CASE connection = "broken" /\ pc' \in {"read", "receive"}
    <3>1. disturbed
      BY <1>0, <2>0, <2>3 DEF Undisturbed, Ended
    <3>2. QED
      BY <2>0, <2>3, <3>1 DEF LoadInv, LoadedWhenPrompt
  <2>4. QED
    BY <1>2, <2>1, <2>2, <2>3 DEF Write
<1>3. ASSUME NEW n \in 1 .. CHUNK_SIZE, Read(n) PROVE LoadInv' /\ LoadedWhenPrompt'
  <2>1. /\ pc = "read" /\ pc' \in {"read", "receive"}
        /\ UNCHANGED <<connection, requests, blocks, file, commands, disturbed>>
    BY <1>3 DEF Read, runtime
  <2>2. Pending' = Pending
    BY <2>1 DEF Pending, Unsent
  <2>3. LoadInv'
    BY <1>0, <2>1, <2>2, LoadSame
  <2>4. QED
    BY <2>1, <2>3 DEF LoadedWhenPrompt
<1>4. CASE Timeout
  <2>1. /\ pc = "read" /\ pc' = "receive" /\ (~disturbed' => ~disturbed)
        /\ UNCHANGED <<connection, requests, blocks, file, commands>>
    BY <1>4 DEF Timeout, client, runtime
  <2>2. Pending' = Pending
    BY <2>1 DEF Pending, Unsent
  <2>3. LoadInv'
    BY <1>0, <2>1, <2>2, LoadSame
  <2>4. QED
    BY <2>1, <2>3 DEF LoadedWhenPrompt
<1>5. CASE OnQueryResponse
  <2>1. Leave("threw") \/ Leave("false") \/ pc' = "parse"
    BY <1>5 DEF OnQueryResponse
  <2>2. QED
    BY <2>1, LeaveLoad DEF LoadInv, LoadedWhenPrompt
<1>6. CASE Parse
  <2>1. Leave("threw") \/ pc' = "publish"
    BY <1>6 DEF Parse
  <2>2. QED
    BY <2>1, LeaveLoad DEF LoadInv, LoadedWhenPrompt
<1>7. CASE OnPublish
  BY <1>0, <1>7, PublishLoad
<1>8. CASE OnCommandResponse
  <2>0. pc = "receive" /\ commands # <<Query>> /\ UNCHANGED <<requests, blocks, file, disturbed>>
    BY <1>8 DEF OnCommandResponse, runtime
  <2>1. CASE Leave("threw")
    BY <2>1, LeaveLoad
  <2>2. CASE Len(commands) = 1 /\ Leave("true")
    <3>1. pc' = "true"
      BY <2>2 DEF Leave
    <3>2. ~disturbed => requests = <<>>
      BY <1>r, <2>0, <3>1 DEF RequestInv, Undisturbed
    <3>3. file \in Files
      BY <1>0, <2>0 DEF OwnState
    <3>4. QED
      BY <1>0, <2>0, <2>2, <3>2, <3>3, LeaveLoaded
  <2>3. CASE pc' = "send" /\ commands' = Tail(commands) /\ UNCHANGED connection
    <3>1. Pending' = Pending
      BY <2>0, <2>3 DEF Pending, Unsent
    <3>2. LoadInv'
      BY <1>0, <2>0, <2>3, <3>1 DEF LoadInv, Loading, Done, Created, StartsAt, Awaited, CreatesAt
    <3>3. QED
      BY <2>3, <3>2 DEF LoadedWhenPrompt
  <2>4. QED
    BY <1>8, <2>1, <2>2, <2>3 DEF OnCommandResponse
<1>9. CASE ExecuteRequest
  BY <1>0, <1>9, ExecuteLoad
<1>10. CASE DropRequests
  <2>1. connection # "live" /\ UNCHANGED <<pc, blocks, file, disturbed>>
    BY <1>10 DEF DropRequests, client
  <2>2. LoadInv'
    BY <1>0, <2>1 DEF LoadInv, Undisturbed, Ended
  <2>3. QED
    BY <1>0, <2>1, <2>2, LoadedSame
<1>11. CASE RuntimeRestarts
  BY <1>11 DEF RuntimeRestarts, LoadInv, LoadedWhenPrompt
<1>12. CASE Restart
  BY <1>12, LeaveLoad DEF Restart
<1>13. CASE UNCHANGED vars
  <2>1. UNCHANGED <<connection, requests, pc, blocks, file, commands, disturbed>>
    BY <1>13 DEF vars
  <2>2. Pending' = Pending
    BY <2>1 DEF Pending, Unsent
  <2>3. LoadInv'
    BY <1>0, <2>1, <2>2 DEF LoadInv, Loading, Done, Created, StartsAt, Awaited, CreatesAt
  <2>4. QED
    BY <1>0, <2>1, <2>3, LoadedSame
<1>14. QED
  BY <1>1, <1>2, <1>3, <1>4, <1>5, <1>6, <1>7, <1>8, <1>9, <1>10, <1>11, <1>12, <1>13
  DEF Next, ClientStep

(***************************************************************************)
(* The TRUE of Execute() is right if the runtime was prompt: the blocks of *)
(* a well-formed file that creates and starts each once are loaded, and    *)
(* they run, although no handler looks at what the runtime answers.        *)
(***************************************************************************)
THEOREM LoadedWhenPromptAlways == Spec => []LoadedWhenPrompt
<1>1. Init => AllInv
  <2>1. Init => LoadInv /\ LoadedWhenPrompt
    BY DEF Init, LoadInv, LoadedWhenPrompt
  <2>2. QED
    BY <2>1, InitRequest, InitSafe DEF AllInv
<1>2. AllInv /\ [Next]_vars => AllInv'
  BY StepKeepsRequest, StepKeepsSafe, StepKeepsLoad DEF AllInv
<1>3. AllInv => LoadedWhenPrompt
  BY DEF AllInv
<1>4. QED
  BY <1>1, <1>2, <1>3, PTL DEF Spec
=============================================================================
