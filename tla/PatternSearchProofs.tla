------------------------- MODULE PatternSearchProofs -------------------------
(***************************************************************************)
(* Proof that the search finds the first occurrence of a pattern of whole  *)
(* bytes, and never a range outside the section, whatever the pattern and  *)
(* the section.  Compiled says what the loop of compile_pattern keeps: the *)
(* nibbles read so far are, in order, those of cp and of the byte b.       *)
(***************************************************************************)
EXTENDS PatternSearch, FiniteSetTheorems, WellFoundedInduction, TLAPS

Chars == Nibble \union {Wildcard, Separator}
PatternByte == [value : [Shifts -> Nibble], mask : [Shifts -> {0, 15}]]

\* Nibble s of a compiled byte stands for the character c.
Gives(byte, s, c) ==
  IF c = Wildcard THEN byte.mask[s] = 0 ELSE byte.mask[s] = 15 /\ byte.value[s] = c

\* Where nibble k of a pattern goes: byte Place(k), shift Side(k).
Place(k) == (k + 1) \div 2
Side(k)  == IF k % 2 = 1 THEN 4 ELSE 0

\* After r characters of p the bytes of c are whole, and byte holds one more
\* nibble when the next one is a low one.
Compiled(p, r, c, byte, s) ==
  /\ Ordinal(p, r) = 2 * Len(c) + (IF s = 0 THEN 1 ELSE 0)
  /\ \A k \in 1 .. Ordinal(p, r) :
       \E n \in 1 .. r : p[n] # Separator /\ Ordinal(p, n) = k
  /\ \A n \in 1 .. r : p[n] # Separator =>
       Gives(IF Ordinal(p, n) <= 2 * Len(c) THEN c[Place(Ordinal(p, n))] ELSE byte,
             Side(Ordinal(p, n)), p[n])

\* The rest of the byte being put together is clear.
Fresh(byte, s) ==
  /\ byte \in PatternByte
  /\ byte.value[0] = 0 /\ byte.mask[0] = 15
  /\ s = 4 => byte.value[4] = 0 /\ byte.mask[4] = 15

NumberRead == Len(pattern) - Len(text)

Inv ==
  /\ pattern \in Seq(Chars) /\ data \in Seq(Byte) /\ text \in Seq(Chars)
  /\ cp \in Seq(PatternByte) /\ shift \in Shifts
  /\ NumberRead \in Nat
  /\ \A m \in 1 .. Len(text) : text[m] = pattern[NumberRead + m]
  /\ found = Nowhere => Fresh(b, shift) /\ Compiled(pattern, NumberRead, cp, b, shift)
  /\ found # Nowhere => text = <<>>
  /\ FindsFirstOccurrence
  /\ RangeInsideSection

-----------------------------------------------------------------------------
(* Counting the nibbles of a text. *)

\* Counting gives a number, and none before the first character.
LEMMA OrdinalType ==
  ASSUME NEW p, NEW n \in Nat
  PROVE  /\ Ordinal(p, n) \in Nat
         /\ IsFiniteSet({m \in 1 .. n : p[m] # Separator})
         /\ Ordinal(p, 0) = 0
<1>1. IsFiniteSet(1 .. n)
  BY FS_Interval
<1>2. IsFiniteSet({m \in 1 .. n : p[m] # Separator})
  BY <1>1, FS_Subset
<1>3. {m \in 1 .. 0 : p[m] # Separator} = {}
  OBVIOUS
<1> QED BY <1>2, <1>3, FS_CardinalityType, FS_EmptySet DEF Ordinal

\* A character that is no separator gives one nibble more.
LEMMA OrdinalStep ==
  ASSUME NEW p, NEW n \in Nat
  PROVE  Ordinal(p, n + 1) = Ordinal(p, n) + (IF p[n + 1] = Separator THEN 0 ELSE 1)
<1> DEFINE S == {m \in 1 .. n : p[m] # Separator}
           T == {m \in 1 .. n + 1 : p[m] # Separator}
<1>1. IsFiniteSet(S) /\ Cardinality(S) \in Nat
  BY OrdinalType, FS_CardinalityType
<1>a. n + 1 \notin S
  OBVIOUS
<1>2. CASE p[n + 1] = Separator
  <2>1. S = T
    BY <1>2
  <2> QED BY <2>1, <1>2, <1>1 DEF Ordinal
<1>3. CASE p[n + 1] # Separator
  <2>1. T = S \union {n + 1}
    BY <1>3
  <2>2. Cardinality(S \union {n + 1}) = Cardinality(S) + 1
    BY <1>1, <1>a, FS_AddElement
  <2> QED BY <2>1, <2>2, <1>3 DEF Ordinal
<1> QED BY <1>2, <1>3

\* Later characters have later nibbles.
LEMMA OrdinalMonotone ==
  ASSUME NEW p, NEW r \in Nat, NEW n \in 1 .. r
  PROVE  /\ Ordinal(p, n) <= Ordinal(p, r)
         /\ p[n] # Separator => Ordinal(p, n) \in 1 .. Ordinal(p, r)
<1>1. {m \in 1 .. n : p[m] # Separator} \subseteq {m \in 1 .. r : p[m] # Separator}
  OBVIOUS
<1>2. Ordinal(p, n) <= Ordinal(p, r) /\ Ordinal(p, n) \in Nat /\ Ordinal(p, r) \in Nat
  BY <1>1, OrdinalType, FS_Subset DEF Ordinal
<1>3. n - 1 \in Nat /\ (n - 1) + 1 = n
  OBVIOUS
<1>4. Ordinal(p, n) = Ordinal(p, n - 1) + (IF p[n] = Separator THEN 0 ELSE 1)
  BY <1>3, OrdinalStep
<1>5. Ordinal(p, n - 1) \in Nat
  BY <1>3, OrdinalType
<1> QED BY <1>2, <1>4, <1>5

\* A set of numbers that is not empty has a least one, which is Min's.
LEMMA MinIsLeast ==
  ASSUME NEW S \in SUBSET Nat, S # {}
  PROVE  Min(S) \in S /\ \A n \in S : Min(S) <= n
<1>1. PICK x \in S : \A y \in S : <<y, x>> \notin OpToRel(<, Nat)
  BY NatLessThanWellFounded, WFMin
<1>2. ASSUME NEW y \in S PROVE x <= y
  <2>1. x \in Nat /\ y \in Nat
    OBVIOUS
  <2>2. <<y, x>> \in OpToRel(<, Nat) <=> y < x
    BY <2>1 DEF OpToRel
  <2>3. <<y, x>> \notin OpToRel(<, Nat)
    BY <1>1
  <2>4. ~(y < x)
    BY <2>2, <2>3, Zenon
  <2> QED BY <2>1, <2>4
<1> QED BY <1>2 DEF Min
-----------------------------------------------------------------------------
(* The loop of compile_pattern. *)

\* The nibbles of a compiled byte.
LEMMA CompiledType ==
  ASSUME NEW c \in Seq(PatternByte), NEW j \in 1 .. Len(c), NEW s \in Shifts
  PROVE  c[j] \in PatternByte /\ c[j].mask[s] \in {0, 15} /\ c[j].value[s] \in Nibble
<1>1. c[j] \in PatternByte
  OBVIOUS
<1> QED BY <1>1 DEF PatternByte

\* Two nibbles go to each byte, the high one first.
LEMMA PlaceAndSide ==
  ASSUME NEW k \in Nat, k >= 1, NEW l \in Nat
  PROVE  /\ Place(k) \in Nat /\ Place(k) >= 1 /\ Side(k) \in Shifts
         /\ k <= 2 * l => Place(k) <= l
         /\ k = 2 * l + 1 => Place(k) = l + 1 /\ Side(k) = 4
         /\ k = 2 * l + 2 => Place(k) = l + 1 /\ Side(k) = 0
  BY DEF Place, Side, Shifts

\* A separator gives nothing.
LEMMA SeparatorKeeps ==
  ASSUME NEW p, NEW r \in Nat, NEW c \in Seq(PatternByte), NEW byte, NEW s \in Shifts,
         Compiled(p, r, c, byte, s), p[r + 1] = Separator
  PROVE  Compiled(p, r + 1, c, byte, s)
<1>1. Ordinal(p, r + 1) = Ordinal(p, r)
  <2>1. Ordinal(p, r) \in Nat
    BY OrdinalType
  <2>2. Ordinal(p, r + 1) = Ordinal(p, r) + 0
    BY OrdinalStep
  <2> QED BY <2>1, <2>2
<1>2. \A n \in 1 .. r + 1 : p[n] # Separator => n \in 1 .. r
  OBVIOUS
<1>3. \A n \in 1 .. r : n \in 1 .. r + 1
  OBVIOUS
<1> QED BY <1>1, <1>2, <1>3 DEF Compiled

\* A high nibble goes to the byte, a low one ends it.
LEMMA NibbleAdds ==
  ASSUME NEW p, NEW r \in Nat, NEW c \in Seq(PatternByte), NEW s \in Shifts,
         NEW byte, NEW more \in PatternByte, NEW next,
         Compiled(p, r, c, byte, s), p[r + 1] # Separator,
         Gives(more, s, p[r + 1]),
         s = 0 => more.value[4] = byte.value[4] /\ more.mask[4] = byte.mask[4]
  PROVE  /\ s = 4 => Compiled(p, r + 1, c, more, 0)
         /\ s = 0 => Compiled(p, r + 1, Append(c, more), next, 4)
<1> DEFINE L == Len(c)
           Whole == Append(c, more)
<1>1. /\ Ordinal(p, r) \in Nat /\ Ordinal(p, r + 1) = Ordinal(p, r) + 1
      /\ Ordinal(p, r) = 2 * L + (IF s = 0 THEN 1 ELSE 0) /\ L \in Nat
  BY OrdinalType, OrdinalStep DEF Compiled
<1>2. \A k \in 1 .. Ordinal(p, r + 1) :
        \E n \in 1 .. r + 1 : p[n] # Separator /\ Ordinal(p, n) = k
  <2> SUFFICES ASSUME NEW k \in 1 .. Ordinal(p, r + 1)
               PROVE  \E n \in 1 .. r + 1 : p[n] # Separator /\ Ordinal(p, n) = k
    OBVIOUS
  <2>1. CASE k \in 1 .. Ordinal(p, r)
    <3>1. PICK n \in 1 .. r : p[n] # Separator /\ Ordinal(p, n) = k
      BY <2>1 DEF Compiled
    <3>2. n \in 1 .. r + 1
      OBVIOUS
    <3> QED BY <3>1, <3>2
  <2>2. CASE k = Ordinal(p, r + 1)
    BY <2>2
  <2> QED BY <1>1, <2>1, <2>2
<1>3. \A n \in 1 .. r + 1 : p[n] # Separator =>
        \/ /\ n \in 1 .. r /\ Ordinal(p, n) \in Nat /\ Ordinal(p, n) >= 1
           /\ Ordinal(p, n) <= Ordinal(p, r)
           /\ Gives(IF Ordinal(p, n) <= 2 * L THEN c[Place(Ordinal(p, n))] ELSE byte,
                    Side(Ordinal(p, n)), p[n])
        \/ n = r + 1 /\ Ordinal(p, n) = 2 * L + (IF s = 0 THEN 2 ELSE 1)
  <2> SUFFICES ASSUME NEW n \in 1 .. r + 1, p[n] # Separator, n # r + 1
               PROVE  /\ n \in 1 .. r /\ Ordinal(p, n) \in Nat /\ Ordinal(p, n) >= 1
                      /\ Ordinal(p, n) <= Ordinal(p, r)
                      /\ Gives(IF Ordinal(p, n) <= 2 * L THEN c[Place(Ordinal(p, n))]
                               ELSE byte, Side(Ordinal(p, n)), p[n])
    BY <1>1
  <2>1. n \in 1 .. r
    OBVIOUS
  <2>2. Ordinal(p, n) \in 1 .. Ordinal(p, r)
    BY <2>1, OrdinalMonotone
  <2> QED BY <1>1, <2>1, <2>2 DEF Compiled
<1>4. ASSUME s = 4
      PROVE  Compiled(p, r + 1, c, more, 0)
  <2>1. ASSUME NEW n \in 1 .. r + 1, p[n] # Separator
        PROVE  Gives(IF Ordinal(p, n) <= 2 * L THEN c[Place(Ordinal(p, n))] ELSE more,
                     Side(Ordinal(p, n)), p[n])
    <3>1. CASE n = r + 1
      <4>1. PICK k \in Nat : k = Ordinal(p, n) /\ k = 2 * L + 1
        BY <1>1, <1>4, <3>1
      <4>2. ~(Ordinal(p, n) <= 2 * L) /\ Side(Ordinal(p, n)) = 4
        BY <1>1, <4>1, PlaceAndSide
      <4> QED BY <1>4, <3>1, <4>2
    <3>2. CASE n # r + 1
      BY <1>1, <1>3, <1>4, <2>1, <3>2
    <3> QED BY <3>1, <3>2
  <2>2. Ordinal(p, r + 1) = 2 * L + 1
    BY <1>1, <1>4
  <2> QED BY <1>2, <2>1, <2>2 DEF Compiled
<1>5. ASSUME s = 0
      PROVE  Compiled(p, r + 1, Whole, next, 4)
  <2>1. /\ Len(Whole) = L + 1 /\ Whole[L + 1] = more
        /\ \A j \in 1 .. L : Whole[j] = c[j]
    OBVIOUS
  <2>2. ASSUME NEW n \in 1 .. r + 1, p[n] # Separator
        PROVE  /\ Ordinal(p, n) <= 2 * Len(Whole)
               /\ Gives(Whole[Place(Ordinal(p, n))], Side(Ordinal(p, n)), p[n])
    <3>1. CASE n = r + 1
      <4>1. PICK k \in Nat : k = Ordinal(p, n) /\ k = 2 * L + 2
        BY <1>1, <1>5, <3>1
      <4>2. Place(Ordinal(p, n)) = L + 1 /\ Side(Ordinal(p, n)) = 0
        BY <1>1, <4>1, PlaceAndSide
      <4> QED BY <1>1, <1>5, <2>1, <3>1, <4>1, <4>2
    <3>2. CASE n # r + 1
      <4>1. PICK k \in Nat : k = Ordinal(p, n) /\ k >= 1 /\ k <= 2 * L + 1
        BY <1>1, <1>3, <1>5, <2>2, <3>2
      <4>2. Gives(IF k <= 2 * L THEN c[Place(k)] ELSE byte, Side(k), p[n])
        BY <1>3, <2>2, <3>2, <4>1
      <4>3. CASE k <= 2 * L
        <5>1. Place(k) \in 1 .. L
          BY <1>1, <4>1, <4>3, PlaceAndSide
        <5> QED BY <1>1, <2>1, <4>1, <4>2, <4>3, <5>1
      <4>4. CASE k = 2 * L + 1
        <5>1. Place(k) = L + 1 /\ Side(k) = 4 /\ ~(k <= 2 * L)
          BY <1>1, <4>1, <4>4, PlaceAndSide
        <5>2. Gives(more, 4, p[n])
          BY <1>5, <4>2, <5>1 DEF Gives
        <5>3. Whole[Place(k)] = more
          BY <2>1, <5>1
        <5> QED BY <1>1, <2>1, <4>1, <4>4, <5>1, <5>2, <5>3
      <4>5. k <= 2 * L \/ k = 2 * L + 1
        BY <1>1, <4>1
      <4> QED BY <4>3, <4>4, <4>5, Zenon
    <3> QED BY <3>1, <3>2
  <2>3. Ordinal(p, r + 1) = 2 * Len(Whole)
    BY <1>1, <1>5, <2>1
  <2> HIDE DEF Whole
  <2> QED BY <1>1, <1>2, <2>2, <2>3, 4 # 0 DEF Compiled
<1> QED BY <1>4, <1>5

\* The bytes compiled from a text match where its nibbles occur.
LEMMA MatchIsOccurrence ==
  ASSUME NEW p, NEW l \in Nat, NEW d \in Seq(Byte), NEW c \in Seq(PatternByte), NEW byte,
         Compiled(p, l, c, byte, 4), NEW i \in Nat, i + Len(c) <= Len(d)
  PROVE  (\A j \in 1 .. Len(c) : Equal(c[j], d[i + j])) <=>
         (\A n \in 1 .. l : p[n] # Separator =>
            p[n] \in {Wildcard, d[i + Place(Ordinal(p, n))][Side(Ordinal(p, n))]})
<1>1. Ordinal(p, l) = 2 * Len(c) /\ Len(c) \in Nat
  BY DEF Compiled
<1>2. ASSUME NEW n \in 1 .. l, p[n] # Separator
      PROVE  /\ Ordinal(p, n) \in 1 .. 2 * Len(c)
             /\ Place(Ordinal(p, n)) \in 1 .. Len(c) /\ Side(Ordinal(p, n)) \in Shifts
             /\ Gives(c[Place(Ordinal(p, n))], Side(Ordinal(p, n)), p[n])
  <2>1. Ordinal(p, n) \in 1 .. 2 * Len(c)
    BY <1>1, <1>2, OrdinalMonotone
  <2>2. Place(Ordinal(p, n)) \in 1 .. Len(c) /\ Side(Ordinal(p, n)) \in Shifts
    BY <1>1, <2>1, PlaceAndSide
  <2> QED BY <1>1, <1>2, <2>1, <2>2 DEF Compiled
<1>3. ASSUME \A j \in 1 .. Len(c) : Equal(c[j], d[i + j]),
             NEW n \in 1 .. l, p[n] # Separator
      PROVE  p[n] \in {Wildcard, d[i + Place(Ordinal(p, n))][Side(Ordinal(p, n))]}
  <2>1. PICK k : k = Ordinal(p, n)
    OBVIOUS
  <2>2. Place(k) \in 1 .. Len(c) /\ Side(k) \in Shifts /\ Gives(c[Place(k)], Side(k), p[n])
    BY <1>2, <1>3, <2>1
  <2>3. Equal(c[Place(k)], d[i + Place(k)])
    BY <1>3, <2>2
  <2> QED BY <2>1, <2>2, <2>3 DEF Equal, Gives
<1>4. ASSUME \A n \in 1 .. l : p[n] # Separator =>
               p[n] \in {Wildcard, d[i + Place(Ordinal(p, n))][Side(Ordinal(p, n))]},
             NEW j \in 1 .. Len(c), NEW s \in Shifts, c[j].mask[s] # 0
      PROVE  c[j].value[s] = d[i + j][s]
  <2>1. PICK k \in Nat : k = IF s = 4 THEN 2 * (j - 1) + 1 ELSE 2 * (j - 1) + 2
    OBVIOUS
  <2>a. j - 1 \in Nat /\ k >= 1 /\ k <= 2 * Len(c) /\ s \in {4, 0}
    BY <1>1, <2>1 DEF Shifts
  <2>2. k \in 1 .. 2 * Len(c) /\ Place(k) = j /\ Side(k) = s
    <3>1. CASE s = 4
      <4>1. Place(k) = (j - 1) + 1 /\ Side(k) = 4
        BY <2>1, <2>a, <3>1, PlaceAndSide
      <4> QED BY <1>1, <2>a, <3>1, <4>1
    <3>2. CASE s = 0
      <4>1. Place(k) = (j - 1) + 1 /\ Side(k) = 0
        BY <2>1, <2>a, <3>2, PlaceAndSide
      <4> QED BY <1>1, <2>a, <3>2, <4>1
    <3> QED BY <2>a, <3>1, <3>2
  <2>3. PICK n \in 1 .. l : p[n] # Separator /\ Ordinal(p, n) = k
    BY <1>1, <2>2 DEF Compiled
  <2>4. Gives(c[j], s, p[n])
    BY <1>2, <2>2, <2>3
  <2>5. p[n] \in {Wildcard, d[i + j][s]}
    BY <1>4, <2>2, <2>3
  <2> QED BY <1>4, <2>4, <2>5 DEF Gives
<1>5. (\A j \in 1 .. Len(c) : Equal(c[j], d[i + j])) <=>
      (\A j \in 1 .. Len(c) : \A s \in Shifts :
         c[j].mask[s] # 0 => c[j].value[s] = d[i + j][s])
  BY DEF Equal
<1> QED BY <1>3, <1>4, <1>5
-----------------------------------------------------------------------------
(* The search. *)

\* A hit is a place with room for the whole pattern.
LEMMA HitsInSection ==
  ASSUME data \in Seq(Byte), NEW c \in Seq(PatternByte), NEW i
  PROVE  i \in Hits(c) <=>
           /\ i \in Nat /\ i + Len(c) <= Len(data)
           /\ \A j \in 1 .. Len(c) : Equal(c[j], data[i + j])
<1>1. Len(c) \in Nat /\ Len(data) \in Nat
  OBVIOUS
<1>2. i \in 0 .. Len(data) - Len(c) <=> i \in Nat /\ i + Len(c) <= Len(data)
  BY <1>1
<1> QED BY <1>2 DEF Hits

\* A range that is found lies inside the section.
LEMMA RangeFound ==
  ASSUME data \in Seq(Byte), NEW c \in Seq(PatternByte)
  PROVE  \E x, y \in Nat : FoundRange(c) = <<x, y>> /\ x <= y /\ y <= Len(data)
<1>1. Len(c) \in Nat /\ Len(data) \in Nat
  OBVIOUS
<1>2. CASE data = <<>> \/ Hits(c) = {}
  BY <1>1, <1>2 DEF FoundRange
<1>3. CASE ~(data = <<>> \/ Hits(c) = {})
  <2>1. Hits(c) \in SUBSET Nat
    BY HitsInSection
  <2>2. PICK m : m = Min(Hits(c))
    OBVIOUS
  <2>3. m \in Hits(c)
    BY <1>3, <2>1, <2>2, MinIsLeast
  <2>4. m \in Nat /\ m + Len(c) <= Len(data)
    BY <2>3, HitsInSection
  <2>5. FoundRange(c) = <<m, m + Len(c)>>
    BY <1>3, <2>2 DEF FoundRange
  <2>6. m + Len(c) \in Nat /\ m <= m + Len(c)
    BY <1>1, <2>4
  <2> QED BY <2>4, <2>5, <2>6
<1> QED BY <1>2, <1>3

\* The places std::search compares equal are those where the text occurs.
LEMMA HitsAreOccurrences ==
  ASSUME pattern \in Seq(Chars), data \in Seq(Byte), NEW c \in Seq(PatternByte), NEW byte,
         Compiled(pattern, Len(pattern), c, byte, 4)
  PROVE  Hits(c) = {i \in 0 .. Len(data) - Len(c) : OccursAt(i)}
<1>1. Len(c) \in Nat /\ Len(data) \in Nat /\ Len(pattern) \in Nat
      /\ DOMAIN pattern = 1 .. Len(pattern)
  OBVIOUS
<1>2. ASSUME NEW i \in 0 .. Len(data) - Len(c)
      PROVE  (\A j \in 1 .. Len(c) : Equal(c[j], data[i + j])) <=> OccursAt(i)
  <2>1. i \in Nat /\ i + Len(c) <= Len(data)
    BY <1>1
  <2>2. (\A j \in 1 .. Len(c) : Equal(c[j], data[i + j])) <=>
        (\A n \in 1 .. Len(pattern) : pattern[n] # Separator =>
           pattern[n] \in {Wildcard, data[i + Place(Ordinal(pattern, n))]
                                        [Side(Ordinal(pattern, n))]})
    BY <1>1, <2>1, MatchIsOccurrence
  <2> QED BY <1>1, <2>2 DEF OccursAt, DataNibble, Place, Side
<1> QED BY <1>2 DEF Hits

\* In an empty section only an empty pattern occurs, at its beginning.
LEMMA FirstFound ==
  ASSUME pattern \in Seq(Chars), data \in Seq(Byte), NEW c \in Seq(PatternByte), NEW byte,
         Compiled(pattern, Len(pattern), c, byte, 4)
  PROVE  LET size   == Ordinal(pattern, Len(pattern)) \div 2
             places == {i \in 0 .. Len(data) - size : OccursAt(i)}
         IN  FoundRange(c) = IF places = {} THEN <<Len(data), Len(data)>>
                             ELSE <<Min(places), Min(places) + size>>
<1>1. Len(c) \in Nat /\ Len(data) \in Nat /\ Ordinal(pattern, Len(pattern)) = 2 * Len(c)
  BY DEF Compiled
<1>2. Ordinal(pattern, Len(pattern)) \div 2 = Len(c)
  BY <1>1
<1>3. Hits(c) = {i \in 0 .. Len(data) - Len(c) : OccursAt(i)}
  BY HitsAreOccurrences
<1>4. FoundRange(c) = IF Hits(c) = {} THEN <<Len(data), Len(data)>>
                      ELSE <<Min(Hits(c)), Min(Hits(c)) + Len(c)>>
  <2>1. CASE data = <<>> /\ Hits(c) # {}
    <3>1. Hits(c) \in SUBSET Nat
      BY HitsInSection
    <3>2. PICK m : m = Min(Hits(c))
      OBVIOUS
    <3>3. m \in Hits(c)
      BY <2>1, <3>1, <3>2, MinIsLeast
    <3>4. m \in Nat /\ m + Len(c) <= 0
      BY <2>1, <3>3, HitsInSection
    <3>5. m = 0 /\ m + Len(c) = 0 /\ Len(data) = 0
      BY <1>1, <2>1, <3>4
    <3> QED BY <2>1, <3>2, <3>5 DEF FoundRange
  <2>2. CASE ~(data = <<>> /\ Hits(c) # {})
    BY <2>2 DEF FoundRange
  <2> QED BY <2>1, <2>2
<1> QED BY <1>2, <1>3, <1>4

-----------------------------------------------------------------------------
(* The invariant. *)

\* Nothing is read yet.
LEMMA InvInit == Init => Inv
<1> SUFFICES ASSUME Init PROVE Inv
  OBVIOUS
<1>1. pattern \in Seq(Chars) /\ data \in Seq(Byte) /\ text = pattern
  BY PatternsAssumption, SectionsAssumption DEF Init, Chars
<1>2. NumberRead = 0
  BY <1>1 DEF NumberRead
<1>3. Clear \in PatternByte
  BY DEF Clear, PatternByte, Nibble
<1>4. Fresh(b, shift) /\ shift \in Shifts
  BY <1>3 DEF Init, Fresh, Clear, Shifts
<1>5. Compiled(pattern, 0, cp, b, shift)
  <2>1. Ordinal(pattern, 0) = 0 /\ cp = <<>> /\ shift = 4
    BY OrdinalType DEF Init
  <2> QED BY <2>1 DEF Compiled
<1>6. found = Nowhere /\ cp \in Seq(PatternByte)
  BY DEF Init
<1>7. FindsFirstOccurrence /\ RangeInsideSection
  BY <1>6 DEF FindsFirstOccurrence, RangeInsideSection
<1> QED BY <1>1, <1>2, <1>4, <1>5, <1>6, <1>7 DEF Inv

\* A character read is the next one of the pattern.
LEMMA NextCharacter ==
  ASSUME Inv, text # <<>>, text' = Tail(text), pattern' = pattern
  PROVE  /\ NumberRead' = NumberRead + 1 /\ NumberRead + 1 <= Len(pattern)
         /\ Head(text) = pattern[NumberRead + 1] /\ Head(text) \in Chars
         /\ text' \in Seq(Chars) /\ NumberRead' \in Nat
         /\ \A m \in 1 .. Len(text') : text'[m] = pattern'[NumberRead' + m]
         /\ found = Nowhere
<1>1. /\ text \in Seq(Chars) /\ Len(pattern) \in Nat /\ NumberRead \in Nat
      /\ \A m \in 1 .. Len(text) : text[m] = pattern[NumberRead + m]
  BY DEF Inv
<1>2. Len(text) \in Nat /\ Len(text) >= 1 /\ Head(text) = text[1] /\ Head(text) \in Chars
  BY <1>1
<1>3. /\ text' \in Seq(Chars) /\ Len(text') = Len(text) - 1
      /\ \A m \in 1 .. Len(text') : text'[m] = text[m + 1]
  BY <1>1
<1>4. NumberRead' = NumberRead + 1 /\ NumberRead + 1 <= Len(pattern)
  BY <1>1, <1>2, <1>3 DEF NumberRead
<1>5. ASSUME NEW m \in 1 .. Len(text')
      PROVE  text'[m] = pattern'[NumberRead' + m]
  <2>1. m + 1 \in 1 .. Len(text) /\ NumberRead' + m = NumberRead + (m + 1)
    BY <1>1, <1>2, <1>3, <1>4
  <2> QED BY <1>1, <1>3, <2>1
<1>6. found = Nowhere
  BY DEF Inv
<1> QED BY <1>1, <1>2, <1>3, <1>4, <1>5, <1>6

\* A character that gives a nibble keeps the invariant.
LEMMA TakeKeeps ==
  ASSUME Inv, text # <<>>, Head(text) # Separator, NEW byte \in PatternByte, Take(byte),
         Gives(byte, shift, Head(text)), byte.value[0] = 0 \/ shift = 0,
         byte.mask[0] = 15 \/ shift = 0,
         shift = 0 => byte.value[4] = b.value[4] /\ byte.mask[4] = b.mask[4]
  PROVE  Inv'
<1>1. text' = Tail(text) /\ pattern' = pattern /\ data' = data /\ found' = found
      /\ shift' = 4 - shift
  BY DEF Take
<1>2. found = Nowhere
  BY NextCharacter, <1>1
<1>3. /\ cp \in Seq(PatternByte) /\ shift \in Shifts /\ NumberRead \in Nat
      /\ Compiled(pattern, NumberRead, cp, b, shift)
      /\ pattern \in Seq(Chars) /\ data \in Seq(Byte)
  BY <1>2 DEF Inv
<1>4. NumberRead' = NumberRead + 1 /\ Head(text) = pattern[NumberRead + 1]
  BY NextCharacter, <1>1
<1>5. /\ shift = 4 => Compiled(pattern, NumberRead + 1, cp, byte, 0)
      /\ shift = 0 => Compiled(pattern, NumberRead + 1, Append(cp, byte), Clear, 4)
  BY <1>3, <1>4, NibbleAdds
<1>6. Fresh(Clear, 4)
  BY DEF Fresh, Clear, PatternByte, Nibble, Shifts
<1>7. /\ cp' \in Seq(PatternByte) /\ shift' \in Shifts /\ Fresh(b', shift')
      /\ Compiled(pattern, NumberRead + 1, cp', b', shift')
  <2>1. CASE shift = 4
    <3>1. cp' = cp /\ shift' = 0 /\ b' = byte
      BY <2>1 DEF Take
    <3>2. Fresh(byte, 0)
      BY <2>1 DEF Fresh
    <3> QED BY <1>3, <1>5, <2>1, <3>1, <3>2 DEF Shifts
  <2>2. CASE shift = 0
    <3>1. cp' = Append(cp, byte) /\ shift' = 4 /\ b' = Clear
      BY <2>2 DEF Take, NextByte
    <3>2. Append(cp, byte) \in Seq(PatternByte)
      BY <1>3
    <3> QED BY <1>5, <1>6, <2>2, <3>1, <3>2 DEF Shifts
  <2> QED BY <1>3, <2>1, <2>2 DEF Shifts
<1>8. (FindsFirstOccurrence /\ RangeInsideSection)'
  BY <1>1, <1>2 DEF FindsFirstOccurrence, RangeInsideSection, Nowhere
<1>9. pattern' \in Seq(Chars) /\ data' \in Seq(Byte) /\ found' = Nowhere
  BY <1>1, <1>2, <1>3
<1>10. /\ text' \in Seq(Chars) /\ NumberRead' \in Nat
       /\ \A m \in 1 .. Len(text') : text'[m] = pattern'[NumberRead' + m]
  BY NextCharacter, <1>1
<1>11. Fresh(b', shift') /\ Compiled(pattern', NumberRead', cp', b', shift')
  BY <1>1, <1>4, <1>7
<1> QED BY <1>7, <1>8, <1>9, <1>10, <1>11 DEF Inv

\* The search, whatever was compiled, keeps it.
LEMMA SearchKeeps ==
  ASSUME Inv, Search
  PROVE  Inv'
<1>1. /\ pattern' = pattern /\ data' = data /\ text' = text /\ shift' = shift /\ b' = b
      /\ text = <<>> /\ found = Nowhere /\ found' = FoundRange(cp')
  BY DEF Search
<1>2. /\ pattern \in Seq(Chars) /\ data \in Seq(Byte) /\ cp \in Seq(PatternByte)
      /\ shift \in Shifts /\ Fresh(b, shift) /\ Len(pattern) \in Nat
      /\ NumberRead = Len(pattern)
      /\ Compiled(pattern, Len(pattern), cp, b, shift)
  <2>1. NumberRead = Len(pattern) /\ Len(pattern) \in Nat
    BY <1>1 DEF Inv, NumberRead
  <2> QED BY <1>1, <2>1 DEF Inv
<1>3. cp' \in Seq(PatternByte)
  <2>1. HighOnly \in PatternByte
    BY <1>2 DEF HighOnly, Fresh, PatternByte, Shifts
  <2> QED BY <1>2, <2>1 DEF Search
<1>4. PICK x \in Nat, y \in Nat : FoundRange(cp') = <<x, y>> /\ x <= y /\ y <= Len(data)
  BY <1>2, <1>3, RangeFound
<1>5. found' = <<x, y>> /\ found' # Nowhere
  BY <1>1, <1>4 DEF Nowhere
<1>6. RangeInsideSection'
  BY <1>1, <1>4, <1>5 DEF RangeInsideSection
<1>7. FindsFirstOccurrence'
  <2>1. CASE shift = 0
    <3>1. Ordinal(pattern, Len(pattern)) = 2 * Len(cp) + 1 /\ Len(cp) \in Nat
      BY <1>2, <2>1 DEF Compiled
    <3>2. Ordinal(pattern, Len(pattern)) % 2 # 0
      BY <3>1
    <3> QED BY <1>1, <3>2 DEF FindsFirstOccurrence
  <2>2. CASE shift = 4
    <3>1. cp' = cp
      BY <2>2 DEF Search
    <3>2. found' = FoundRange(cp)
      BY <1>1, <3>1
    <3>3. LET size   == Ordinal(pattern, Len(pattern)) \div 2
              places == {i \in 0 .. Len(data) - size : OccursAt(i)}
          IN  FoundRange(cp) = IF places = {} THEN <<Len(data), Len(data)>>
                               ELSE <<Min(places), Min(places) + size>>
      BY <1>2, <2>2, FirstFound
    <3> QED BY <1>1, <3>2, <3>3 DEF FindsFirstOccurrence, OccursAt, DataNibble
  <2> QED BY <1>2, <2>1, <2>2 DEF Shifts
<1>8. NumberRead' = NumberRead
  BY <1>1 DEF NumberRead
<1> QED BY <1>1, <1>2, <1>3, <1>5, <1>6, <1>7, <1>8 DEF Inv

\* Every step keeps it.
LEMMA InvNext == Inv /\ [Next]_vars => Inv'
<1> SUFFICES ASSUME Inv, [Next]_vars PROVE Inv'
  OBVIOUS
<1>1. CASE ReadWildcard
  <2>1. text # <<>> /\ Head(text) = Wildcard /\ found = Nowhere
    BY <1>1 DEF ReadWildcard, Inv
  <2>2. PICK byte : byte = [b EXCEPT !.mask[shift] = 0]
    OBVIOUS
  <2>3. Take(byte)
    BY <1>1, <2>2 DEF ReadWildcard
  <2>4. Fresh(b, shift) /\ shift \in Shifts
    BY <2>1 DEF Inv
  <2>5. /\ byte \in PatternByte /\ byte.mask[shift] = 0
        /\ byte.value = b.value /\ (shift = 0 => byte.mask[4] = b.mask[4])
        /\ byte.value[0] = 0 /\ (byte.mask[0] = 15 \/ shift = 0)
    BY <2>2, <2>4 DEF Fresh, PatternByte, Shifts
  <2>6. Gives(byte, shift, Head(text))
    BY <2>1, <2>5 DEF Gives
  <2>7. Head(text) # Separator
    BY <2>1, CharsAssumption
  <2> QED BY <2>1, <2>3, <2>5, <2>6, <2>7, TakeKeeps
<1>2. CASE ReadDigit
  <2>1. text # <<>> /\ Head(text) \in Nibble /\ found = Nowhere
    BY <1>2 DEF ReadDigit, Inv
  <2>2. PICK byte : byte = [b EXCEPT !.value[shift] = Head(text)]
    OBVIOUS
  <2>3. Take(byte)
    BY <1>2, <2>2 DEF ReadDigit
  <2>4. Fresh(b, shift) /\ shift \in Shifts
    BY <2>1 DEF Inv
  <2>5. /\ byte \in PatternByte /\ byte.value[shift] = Head(text)
        /\ byte.mask = b.mask /\ (shift = 0 => byte.value[4] = b.value[4])
        /\ byte.mask[0] = 15
        /\ (byte.value[0] = 0 \/ shift = 0)
    BY <2>1, <2>2, <2>4 DEF Fresh, PatternByte, Shifts
  <2>6. byte.mask[shift] = 15
    BY <2>4, <2>5 DEF Fresh, Shifts
  <2>7. Head(text) # Separator /\ Head(text) # Wildcard
    BY <2>1, CharsAssumption
  <2>8. Gives(byte, shift, Head(text))
    BY <2>5, <2>6, <2>7 DEF Gives
  <2> QED BY <2>1, <2>3, <2>5, <2>7, <2>8, TakeKeeps
<1>3. CASE ReadSeparator
  <2>1. /\ text # <<>> /\ text' = Tail(text) /\ Head(text) = Separator /\ pattern' = pattern
        /\ data' = data /\ b' = b /\ shift' = shift /\ cp' = cp /\ found' = found
    BY <1>3 DEF ReadSeparator
  <2>2. /\ found = Nowhere /\ NumberRead' = NumberRead + 1
        /\ Head(text) = pattern[NumberRead + 1]
        /\ text' \in Seq(Chars) /\ NumberRead' \in Nat
        /\ \A m \in 1 .. Len(text') : text'[m] = pattern'[NumberRead' + m]
    BY <2>1, NextCharacter
  <2>3. /\ Fresh(b, shift) /\ Compiled(pattern, NumberRead, cp, b, shift)
        /\ NumberRead \in Nat /\ cp \in Seq(PatternByte) /\ shift \in Shifts
    BY <2>2 DEF Inv
  <2>4. Compiled(pattern, NumberRead + 1, cp, b, shift)
    BY <2>1, <2>2, <2>3, SeparatorKeeps
  <2>5. Fresh(b', shift') /\ Compiled(pattern', NumberRead', cp', b', shift')
    BY <2>1, <2>2, <2>3, <2>4
  <2>6. (FindsFirstOccurrence /\ RangeInsideSection)'
    BY <2>1, <2>2 DEF FindsFirstOccurrence, RangeInsideSection
  <2> QED BY <2>1, <2>2, <2>5, <2>6 DEF Inv
<1>4. CASE Search
  BY <1>4, SearchKeeps
<1>5. CASE UNCHANGED vars
  <2>1. /\ pattern' = pattern /\ data' = data /\ text' = text /\ b' = b /\ shift' = shift
        /\ cp' = cp /\ found' = found
    BY <1>5 DEF vars
  <2>2. NumberRead' = NumberRead
    BY <2>1 DEF NumberRead
  <2>3. (FindsFirstOccurrence <=> FindsFirstOccurrence')
        /\ (RangeInsideSection <=> RangeInsideSection')
    BY <2>1 DEF FindsFirstOccurrence, RangeInsideSection, OccursAt, DataNibble
  <2>5. found' = Nowhere =>
          Fresh(b', shift') /\ Compiled(pattern', NumberRead', cp', b', shift')
    BY <2>1, <2>2 DEF Inv
  <2> QED BY <2>1, <2>2, <2>3, <2>5 DEF Inv
<1> QED BY <1>1, <1>2, <1>3, <1>4, <1>5 DEF Next

-----------------------------------------------------------------------------
(* Theorems. *)

\* What compile_pattern has compiled is what it has read, and what the search found
\* is right.
THEOREM InvHolds == Spec => []Inv
<1> QED BY InvInit, InvNext, PTL DEF Spec

\* A pattern of whole bytes, whatever its digits, wildcards and separators, is
\* found at its first occurrence in the code section, and nowhere when it does
\* not occur (compile_pattern, pattern_searcher).
THEOREM FirstOccurrence == Spec => []FindsFirstOccurrence
<1>1. Inv => FindsFirstOccurrence
  BY DEF Inv
<1> QED BY <1>1, InvHolds, PTL

\* The range a search gives lies inside the code section, whatever the pattern,
\* half a byte at its end included (pattern_searcher::operator()).
THEOREM RangeInside == Spec => []RangeInsideSection
<1>1. Inv => RangeInsideSection
  BY DEF Inv
<1> QED BY <1>1, InvHolds, PTL
=============================================================================
