-------------------------- MODULE VersionInfoProofs --------------------------
(***************************************************************************)
(* Proofs about the walk of a version resource: it stays inside it and finds *)
(* the block the path addresses, whatever blocks of whatever lengths the   *)
(* resource holds and whatever path is asked for.                          *)
(***************************************************************************)
EXTENDS VersionInfo, SequenceTheorems, WellFoundedInduction, TLAPS

\* Bytes o .. o + wTotLen of the resource are a block, with its key.
IsBlock(o) ==
  /\ o \in Places(resource)
  /\ End(o) <= resource.size
  /\ KeyFits(o)

\* The value of the block reached ends inside it; the head's ends with the head.
ValueOfBlock ==
  /\ off = ValueAt(block) /\ len = off + At(block).wValLen
  /\ len <= At(block).wTotLen
  /\ block = 0 => len = sizeofVERHEAD

Inside ==
  /\ resource \in Resources
  /\ pc \in {"head", "segment", "search", "done", "error"}
  /\ pc = "head" => block = 0
  /\ pc \in {"segment", "search"} => IsBlock(block)
  /\ pc = "segment" => ValueOfBlock
  /\ pc = "search" => sub \in Nat /\ sub >= sizeofVERHEAD /\ sub % 4 = 0
  /\ reach \in Nat
  /\ StaysInResource

\* Rounding up to four.
LEMMA DwordUp ==
  ASSUME NEW n \in Nat
  PROVE  DWORDUP(n) \in Nat /\ DWORDUP(n) >= n /\ DWORDUP(n) % 4 = 0
  BY DEF DWORDUP

\* What is read at a place of the resource is a block's header and key.
LEMMA BlockAt ==
  ASSUME resource \in Resources, NEW o \in Places(resource)
  PROVE  /\ o \in Nat /\ o % 4 = 0 /\ resource.size \in Nat
         /\ At(o).wTotLen \in Nat /\ At(o).wValLen \in Nat /\ KeyBytes[At(o).szKey] \in Nat
         /\ ValueAt(o) \in Nat /\ ValueAt(o) >= sizeofVERBLOCK + KeyBytes[At(o).szKey]
<1>1. At(o) \in Block /\ resource.size \in Nat
  BY ResourcesAssumption DEF At
<1>2. o \in Nat /\ o % 4 = 0
  BY <1>1 DEF Places, sizeofVERHEAD, sizeofVERBLOCK
<1>3. At(o).wTotLen \in Nat /\ At(o).wValLen \in Nat /\ KeyBytes[At(o).szKey] \in Nat
  BY <1>1, KeysAssumption DEF Block, Keys
<1>4. sizeofVERBLOCK + KeyBytes[At(o).szKey] \in Nat
  BY <1>3 DEF sizeofVERBLOCK
<1>5. ValueAt(o) \in Nat /\ ValueAt(o) >= sizeofVERBLOCK + KeyBytes[At(o).szKey]
  BY <1>4, DwordUp DEF ValueAt
<1> QED BY <1>1, <1>2, <1>3, <1>5

LEMMA MaxOfTwo ==
  ASSUME NEW m \in Nat, NEW n \in Nat
  PROVE  Max({m, n}) \in {m, n}
<1>1. \E x \in {m, n} : \A y \in {m, n} : x >= y
  OBVIOUS
<1> QED BY <1>1 DEF Max

\* The loop only looks at a block that has room in its parent for a header.
LEMMA LookedAt ==
  ASSUME Inside, pc = "search", HasHeader(sub, End(block))
  PROVE  sub \in Places(resource) /\ block \in Places(resource) /\ End(block) \in Nat
         /\ End(block) <= resource.size
<1>1. /\ resource \in Resources /\ block \in Places(resource) /\ End(block) <= resource.size
      /\ sub \in Nat /\ sub >= sizeofVERHEAD /\ sub % 4 = 0
  BY DEF Inside, IsBlock
<1>2. resource.size \in Nat /\ End(block) \in Nat
  BY <1>1, BlockAt DEF End
<1>3. sub <= resource.size - sizeofVERBLOCK
  BY <1>1, <1>2 DEF HasHeader, sizeofVERBLOCK
<1>4. sub \in sizeofVERHEAD .. resource.size - sizeofVERBLOCK
  BY <1>1, <1>2, <1>3 DEF sizeofVERHEAD, sizeofVERBLOCK
<1> QED BY <1>1, <1>2, <1>4 DEF Places

\* The tests of the loop read no further than the parent goes.
LEMMA TestsStayInside ==
  ASSUME Inside, pc = "search"
  PROVE  /\ Max({reach, ReadTo(sub, End(block))}) \in Nat
         /\ Max({reach, ReadTo(sub, End(block))}) <= resource.size
<1>1. reach \in Nat /\ reach <= resource.size /\ resource \in Resources /\ sub \in Nat
  BY DEF Inside, StaysInResource
<1>2. ReadTo(sub, End(block)) \in Nat /\ ReadTo(sub, End(block)) <= resource.size
  <2>1. CASE ~HasHeader(sub, End(block))
    <3>1. resource.size \in Nat
      BY <1>1, ResourcesAssumption
    <3> QED BY <2>1, <3>1 DEF ReadTo
  <2>2. CASE HasHeader(sub, End(block))
    <3>1. /\ sub \in Places(resource) /\ End(block) \in Nat /\ End(block) <= resource.size
      BY <2>2, LookedAt
    <3>2. At(sub).wTotLen \in Nat /\ resource.size \in Nat
      BY <1>1, <3>1, BlockAt
    <3>3. CASE HasBlock(sub, End(block))
      BY <1>1, <2>2, <3>1, <3>2, <3>3 DEF ReadTo, HasBlock, End, sizeofVERBLOCK
    <3>4. CASE ~HasBlock(sub, End(block))
      BY <1>1, <2>2, <3>1, <3>2, <3>4 DEF ReadTo, HasHeader, sizeofVERBLOCK
    <3> QED BY <3>3, <3>4
  <2> QED BY <2>1, <2>2
<1> QED BY <1>1, <1>2, MaxOfTwo

LEMMA InsideInit == Init => Inside
<1> SUFFICES ASSUME Init PROVE Inside
  OBVIOUS
<1>1. resource.size \in Nat
  BY ResourcesAssumption DEF Init
<1> QED BY <1>1 DEF Init, Inside, StaysInResource

LEMMA InsideStep == Inside /\ [Next]_vars => Inside'
<1> SUFFICES ASSUME Inside, [Next]_vars PROVE Inside'
  OBVIOUS
<1>0. /\ resource \in Resources /\ reach \in Nat /\ reach <= resource.size
      /\ ppv # Failed => ppv.at + ppv.length <= resource.size
      /\ resource.size \in Nat
  BY ResourcesAssumption DEF Inside, StaysInResource
<1>1. CASE CheckHead
  <2>1. UNCHANGED <<resource, block, sub, ppv>>
    BY <1>1 DEF CheckHead
  <2>2. CASE pc' = "error" /\ UNCHANGED reach
    BY <1>0, <2>1, <2>2 DEF Inside, StaysInResource
  <2>3. CASE /\ HeadIsValid /\ pc = "head" /\ pc' = "segment" /\ reach' = sizeofVERHEAD
             /\ off' = offsetofVsf /\ len' = offsetofVsf + At(0).wValLen
             /\ block = 0
    <3>1. 0 \in Places(resource) /\ At(0).wTotLen \in Nat /\ At(0).wValLen = 52
      BY <1>0, <2>3, BlockAt DEF Places, HeadIsValid, sizeofVERHEAD, offsetofVsf
    <3>2. /\ At(0).wTotLen <= resource.size /\ sizeofVERHEAD <= resource.size
          /\ sizeofVERHEAD <= At(0).wTotLen
      BY <1>0, <2>3, <3>1 DEF HeadIsValid, sizeofVERHEAD
    <3>3. IsBlock(block)'
      BY <2>1, <2>3, <3>1, <3>2 DEF IsBlock, End, At, KeyFits, HeadIsValid, Places
    <3>4. ValueOfBlock'
      BY <2>1, <2>3, <3>1, <3>2 DEF ValueOfBlock, HeadIsValid, ValueAt, At, offsetofVsf, sizeofVERHEAD
    <3>5. reach' \in Nat /\ StaysInResource'
      BY <1>0, <2>1, <2>3, <3>2 DEF StaysInResource, sizeofVERHEAD
    <3> QED BY <1>0, <2>1, <2>3, <3>3, <3>4, <3>5 DEF Inside
  <2> QED BY <1>1, <2>2, <2>3 DEF CheckHead, Inside
<1>2. CASE StartSegment
  <2>1. /\ pc = "segment" /\ pc' = "search" /\ sub' = block + DWORDUP(len)
        /\ UNCHANGED <<resource, block, ppv, reach>> /\ IsBlock(block) /\ ValueOfBlock
    BY <1>2 DEF StartSegment, Inside
  <2>2. IsBlock(block)' /\ StaysInResource'
    BY <1>0, <2>1 DEF IsBlock, Places, End, At, KeyFits, StaysInResource
  <2>3. block \in Nat /\ block % 4 = 0 /\ len \in Nat
    BY <1>0, <2>1, BlockAt DEF IsBlock, ValueOfBlock
  <2>4. DWORDUP(len) \in Nat /\ DWORDUP(len) >= len /\ DWORDUP(len) % 4 = 0
    BY <2>3, DwordUp
  <2>5. sub' \in Nat /\ sub' % 4 = 0
    BY <2>1, <2>3, <2>4
  <2>6. sub' >= sizeofVERHEAD
    <3>1. CASE block = 0
      <4>1. len = sizeofVERHEAD
        BY <2>1, <3>1 DEF ValueOfBlock
      <4>2. sub' >= len
        BY <2>1, <2>3, <2>4
      <4> QED BY <4>1, <4>2
    <3>2. CASE block # 0
      <4>1. block >= sizeofVERHEAD
        BY <1>0, <2>1, <3>2 DEF IsBlock, Places, sizeofVERHEAD, sizeofVERBLOCK
      <4> QED BY <2>1, <2>3, <2>4, <4>1 DEF sizeofVERHEAD
    <3> QED BY <3>1, <3>2
  <2> QED BY <1>0, <2>1, <2>2, <2>5, <2>6 DEF Inside
<1>3. CASE LookAtSub
  <2>1. /\ pc = "search" /\ Fits(sub, End(block)) /\ off' = ValueAt(sub) /\ len' = off' + At(sub).wValLen
        /\ reach' = Max({reach, ReadTo(sub, End(block))})
        /\ UNCHANGED <<resource, ppv>>
    BY <1>3 DEF LookAtSub
  <2>2. reach' \in Nat /\ StaysInResource'
    BY <1>0, <2>1, TestsStayInside DEF StaysInResource
  <2>3. /\ sub \in Places(resource) /\ End(block) \in Nat /\ End(block) <= resource.size
        /\ sub \in Nat /\ sub >= sizeofVERHEAD /\ sub % 4 = 0
    BY <2>1, LookedAt DEF Fits, Inside
  <2>4. /\ At(sub).wTotLen \in Nat /\ At(sub).wValLen \in Nat /\ ValueAt(sub) \in Nat
    BY <1>0, <2>3, BlockAt
  <2>5. CASE IsWanted /\ block' = sub /\ pc' = "segment"
    <3>1. End(sub) <= resource.size
      BY <1>0, <2>1, <2>3, <2>4 DEF Fits, HasBlock, End, sizeofVERBLOCK
    <3>2. IsBlock(block)'
      BY <2>1, <2>3, <2>5, <3>1 DEF IsBlock, Places, End, At, KeyFits, Fits
    <3>3. ValueOfBlock'
      <4>1. ValueAt(block)' = ValueAt(sub) /\ At(block)' = At(sub)
        BY <2>1, <2>5 DEF ValueAt, At
      <4>2. sub # 0
        BY <2>3 DEF sizeofVERHEAD
      <4> QED BY <2>1, <2>5, <4>1, <4>2 DEF ValueOfBlock, Fits, ValueFits
    <3> QED BY <1>0, <2>1, <2>2, <2>5, <3>2, <3>3 DEF Inside
  <2>6. CASE sub' = Sibling /\ UNCHANGED <<block, pc>>
    <3>1. DWORDUP(At(sub).wTotLen) \in Nat /\ DWORDUP(At(sub).wTotLen) % 4 = 0
      BY <2>4, DwordUp
    <3>2. sub' \in Nat /\ sub' >= sizeofVERHEAD /\ sub' % 4 = 0
      BY <2>3, <2>6, <3>1 DEF Sibling, sizeofVERHEAD
    <3>3. IsBlock(block)'
      BY <2>1, <2>6 DEF Inside, IsBlock, Places, End, At, KeyFits
    <3> QED BY <1>0, <2>1, <2>2, <2>6, <3>2, <3>3 DEF Inside
  <2> QED BY <1>3, <2>5, <2>6 DEF LookAtSub
<1>4. CASE NoneLeft
  <2>1. /\ pc = "search" /\ pc' = "done" /\ reach' = Max({reach, ReadTo(sub, End(block))})
        /\ UNCHANGED <<resource, ppv>>
    BY <1>4 DEF NoneLeft
  <2> QED BY <1>0, <2>1, TestsStayInside DEF Inside, StaysInResource
<1>5. CASE CompareFails
  BY <1>0, <1>5 DEF CompareFails, Inside, StaysInResource
<1>6. CASE Return
  <2>1. /\ pc = "segment" /\ pc' = "done" /\ ppv' = Value(block, off) /\ UNCHANGED <<resource, reach>>
        /\ IsBlock(block) /\ ValueOfBlock
    BY <1>6 DEF Return, Inside
  <2>2. /\ block \in Nat /\ At(block).wTotLen \in Nat /\ At(block).wValLen \in Nat
        /\ KeyBytes[At(block).szKey] \in Nat /\ ValueAt(block) \in Nat
    BY <1>0, <2>1, BlockAt DEF IsBlock
  <2>3. Value(block, off).at + Value(block, off).length <= resource.size
    <3>1. block + At(block).wTotLen <= resource.size
      BY <2>1 DEF IsBlock, End
    <3>2. CASE off < At(block).wTotLen
      BY <1>0, <2>1, <2>2, <3>1, <3>2 DEF Value, ValueOfBlock
    <3>3. CASE ~(off < At(block).wTotLen)
      <4>1. At(block).wValLen = 0
        BY <2>1, <2>2, <3>3 DEF ValueOfBlock
      <4> QED BY <1>0, <2>1, <2>2, <3>1, <3>3, <4>1 DEF Value, IsBlock, KeyFits, sizeofVERBLOCK
    <3> QED BY <3>2, <3>3
  <2> QED BY <1>0, <2>1, <2>3 DEF Inside, StaysInResource
<1>7. CASE UNCHANGED vars
  BY <1>7 DEF vars, Inside, IsBlock, Places, End, At, KeyFits, ValueOfBlock, ValueAt, StaysInResource
<1> QED BY <1>1, <1>2, <1>3, <1>4, <1>5, <1>6, <1>7 DEF Next, Walk

\* Whatever lengths a resource holds, the walk reads nothing behind it, and the value
\* it returns lies in it.
THEOREM StaysInside == Spec => []StaysInResource
<1>1. Inside => StaysInResource
  BY DEF Inside
<1> QED BY <1>1, InsideInit, InsideStep, PTL DEF Spec

-----------------------------------------------------------------------------
(* How long a walk is. *)

\* What is ahead of the walk: it looks at later and later places of the resource, and
\* comes to each at most twice, as a sub-block and as the block reached.
Ahead ==
  IF pc \in {"done", "error"} THEN 0
  ELSE 2 * (resource.size + 4 - IF pc = "search" THEN sub ELSE block)
         + (IF pc = "segment" THEN 0 ELSE 1)

\* The place looked at is at most the alignment behind the end.
NotBeyond == pc = "search" => sub <= resource.size + 3

LEMMA AlignedUp ==
  ASSUME NEW n \in Nat
  PROVE  DWORDUP(n) <= n + 3
  BY DEF DWORDUP

LEMMA AheadType == Inside /\ NotBeyond => Ahead \in Nat /\ (pc \notin {"done", "error"} => Ahead > 1)
<1> SUFFICES ASSUME Inside, NotBeyond, pc \notin {"done", "error"}
             PROVE  Ahead \in Nat /\ Ahead > 1
  BY DEF Ahead
<1>1. resource \in Resources /\ resource.size \in Nat
  BY ResourcesAssumption DEF Inside
<1>2. CASE pc = "search"
  BY <1>1, <1>2 DEF Inside, NotBeyond, Ahead
<1>3. CASE pc \in {"head", "segment"}
  <2>1. block \in Nat /\ block <= resource.size
    <3>1. CASE pc = "head"
      BY <1>1, <3>1 DEF Inside
    <3>2. CASE pc = "segment"
      <4>1. block \in Places(resource) /\ End(block) <= resource.size
        BY <3>2 DEF Inside, IsBlock
      <4> QED BY <1>1, <4>1, BlockAt DEF End
    <3> QED BY <1>3, <3>1, <3>2
  <2> QED BY <1>1, <1>3, <2>1 DEF Ahead
<1> QED BY <1>2, <1>3 DEF Inside

LEMMA AheadShrinks ==
  ASSUME Inside, NotBeyond, Next, Inside'
  PROVE  NotBeyond' /\ Ahead' < Ahead
<1>1. resource \in Resources /\ resource' = resource /\ resource.size \in Nat
  BY ResourcesAssumption DEF Inside, Next, Walk, CheckHead, StartSegment, LookAtSub, NoneLeft,
                             CompareFails, Return
<1>2. Ahead \in Nat /\ (pc \notin {"done", "error"} => Ahead > 1)
  BY AheadType
<1>3. CASE pc' \in {"done", "error"}
  <2>1. pc \notin {"done", "error"}
    BY DEF Next, Walk, CheckHead, StartSegment, LookAtSub, NoneLeft, CompareFails, Return
  <2> QED BY <1>2, <1>3, <2>1 DEF NotBeyond, Ahead
<1>4. CASE CheckHead /\ pc' = "segment"
  <2>1. pc = "head" /\ block = 0 /\ block' = 0
    BY <1>4 DEF CheckHead, Inside
  <2> QED BY <1>1, <1>4, <2>1 DEF NotBeyond, Ahead
<1>5. CASE StartSegment
  <2>1. /\ pc = "segment" /\ pc' = "search" /\ sub' = block + DWORDUP(len)
        /\ block \in Places(resource) /\ End(block) <= resource.size
        /\ len = ValueAt(block) + At(block).wValLen /\ len <= At(block).wTotLen
    BY <1>5 DEF StartSegment, Inside, IsBlock, ValueOfBlock
  <2>2. /\ block \in Nat /\ len \in Nat /\ len >= sizeofVERBLOCK /\ block + len <= resource.size
    BY <1>1, <2>1, BlockAt DEF End, sizeofVERBLOCK
  <2>3. DWORDUP(len) \in Nat /\ DWORDUP(len) >= len /\ DWORDUP(len) <= len + 3
    BY <2>2, DwordUp, AlignedUp
  <2>4. sub' <= resource.size + 3 /\ sub' >= block + 8
    BY <1>1, <2>1, <2>2, <2>3 DEF sizeofVERBLOCK
  <2>5. sub' \in Nat
    BY <2>1, <2>2, <2>3
  <2> QED BY <1>1, <2>1, <2>2, <2>4, <2>5 DEF NotBeyond, Ahead
<1>6. CASE LookAtSub
  <2>1. /\ pc = "search" /\ Fits(sub, End(block)) /\ sub \in Nat
        /\ \/ block' = sub /\ pc' = "segment"
           \/ sub' = Sibling /\ pc' = "search"
    BY <1>6 DEF LookAtSub, Inside
  <2>2. /\ sub \in Places(resource) /\ End(block) \in Nat /\ End(block) <= resource.size
    BY <2>1, LookedAt DEF Fits
  <2>3. At(sub).wTotLen \in Nat /\ At(sub).wTotLen >= 8 /\ sub + At(sub).wTotLen <= resource.size
    BY <1>1, <2>1, <2>2, BlockAt DEF Fits, HasBlock, sizeofVERBLOCK
  <2>4. /\ DWORDUP(At(sub).wTotLen) \in Nat /\ DWORDUP(At(sub).wTotLen) >= At(sub).wTotLen
        /\ DWORDUP(At(sub).wTotLen) <= At(sub).wTotLen + 3
    BY <2>3, DwordUp, AlignedUp
  <2>5. CASE block' = sub /\ pc' = "segment"
    BY <1>1, <2>1, <2>5 DEF NotBeyond, Ahead
  <2>6. CASE sub' = Sibling /\ pc' = "search"
    <3>1. sub' \in Nat /\ sub' >= sub + 8 /\ sub' <= resource.size + 3
      BY <1>1, <2>1, <2>3, <2>4, <2>6 DEF Sibling
    <3> QED BY <1>1, <2>1, <2>6, <3>1 DEF NotBeyond, Ahead
  <2> QED BY <2>1, <2>5, <2>6
<1> QED BY <1>3, <1>4, <1>5, <1>6 DEF Next, Walk, CheckHead, NoneLeft, CompareFails, Return

\* Every step of a walk leaves less ahead of it, whatever lengths the resource holds, so
\* that no walk takes more steps than twice the bytes of the resource and nine (the
\* loop's tests of wTotLen, versioninfo.c).  WalkEnds asks for no more than that a step
\* which can be taken is.
THEOREM WalkShortens == Spec => [](Ahead \in Nat) /\ [][Ahead' < Ahead]_vars
<1>1. Init => Inside /\ NotBeyond
  BY InsideInit DEF Init, NotBeyond
<1>2. (Inside /\ NotBeyond) /\ [Next]_vars => (Inside /\ NotBeyond)' /\ [Ahead' < Ahead]_vars
  <2> SUFFICES ASSUME Inside, NotBeyond, [Next]_vars
               PROVE  (Inside /\ NotBeyond)' /\ [Ahead' < Ahead]_vars
    OBVIOUS
  <2>1. Inside'
    BY InsideStep
  <2>2. CASE Next
    BY <2>1, <2>2, AheadShrinks
  <2>3. CASE UNCHANGED vars
    <3>1. NotBeyond'
      BY <2>3 DEF vars, NotBeyond
    <3> QED BY <2>1, <2>3, <3>1
  <2> QED BY <2>2, <2>3
<1>3. Inside /\ NotBeyond => Ahead \in Nat
  BY AheadType
<1> QED BY <1>1, <1>2, <1>3, PTL DEF Spec

-----------------------------------------------------------------------------
(* What a path addresses. *)

\* A set of numbers that is not empty has a least one, which is Min's. The proofs about
\* the recursive definitions take the least number for which they would fail.
LEMMA MinIsLeast ==
  ASSUME NEW S \in SUBSET Nat, S # {}
  PROVE  Min(S) \in S /\ \A n \in S : Min(S) <= n
<1>1. PICK x \in S : \A y \in S : <<y, x>> \notin OpToRel(<, Nat)
  BY NatLessThanWellFounded, WFMin
<1>2. ASSUME NEW y \in S PROVE x <= y
  <2>1. x \in Nat /\ y \in Nat
    OBVIOUS
  <2>2. <<y, x>> \in OpToRel(<, Nat) <=> y < x
    BY <2>1 DEF OpToRel
  <2>3. <<y, x>> \notin OpToRel(<, Nat)
    BY <1>1
  <2>4. ~(y < x)
    BY <2>2, <2>3, Zenon
  <2> QED BY <2>1, <2>4
<1> QED BY <1>2 DEF Min

\* Where the block after the one at o is looked for.
Behind(o) == o + DWORDUP(At(o).wTotLen)

\* A block that fits in its parent leads to a later one.
LEMMA FitsInParent ==
  ASSUME NEW e \in Nat, NEW o \in Nat, Fits(o, e)
  PROVE  /\ At(o).wTotLen \in Nat /\ o < e
         /\ Behind(o) \in Nat /\ Behind(o) > o
<1>1. At(o).wTotLen \in 8 .. e - o
  BY DEF Fits, HasBlock, sizeofVERBLOCK
<1>2. At(o).wTotLen \in Nat /\ At(o).wTotLen >= 8 /\ o < e
  BY <1>1
<1>3. DWORDUP(At(o).wTotLen) \in Nat /\ DWORDUP(At(o).wTotLen) >= At(o).wTotLen
  BY <1>2, DwordUp
<1> QED BY <1>2, <1>3 DEF Behind

\* f[o] is the list of the blocks from o on in a parent that ends at e.
Lists(f, e) ==
  /\ f \in [Nat -> Seq(Nat)]
  /\ \A o \in Nat : f[o] = IF Fits(o, e) THEN <<o>> \o f[Behind(o)] ELSE <<>>

\* The equation that defines PartsFrom has a solution: only blocks before e fit.
LEMMA ListExists ==
  ASSUME NEW e \in Nat
  PROVE  \E f : Lists(f, e)
<1> DEFINE Step(f, o) == IF Fits(o, e) THEN <<o>> \o f[Behind(o)] ELSE <<>>
           Ok(f, k) == /\ f \in [Nat -> Seq(Nat)]
                       /\ \A o \in Nat : o + k >= e => f[o] = Step(f, o)
           Bad == {k \in Nat : ~ \E f : Ok(f, k)}
<1>1. \E f : Ok(f, 0)
  <2>1. Ok([o \in Nat |-> <<>>], 0)
    <3>1. ASSUME NEW o \in Nat, o >= e PROVE ~Fits(o, e)
      BY <3>1, FitsInParent
    <3> QED BY <3>1
  <2> QED BY <2>1
<1>2. ASSUME NEW k \in Nat, NEW f, Ok(f, k)
      PROVE  \E g : Ok(g, k + 1)
  <2>1. CASE k + 1 > e
    <3>1. \A o \in Nat : o + k >= e
      BY <2>1
    <3>2. Ok(f, k + 1)
      <4> HIDE DEF Step
      <4> QED BY <1>2, <3>1
    <3> QED BY <3>2
  <2>2. CASE ~(k + 1 > e)
    <3>1. PICK a \in Nat : a = e - (k + 1)
      BY <2>2
    <3>2. Step(f, a) \in Seq(Nat)
      <4>1. CASE Fits(a, e)
        <5>1. f[Behind(a)] \in Seq(Nat)
          BY <1>2, <4>1, FitsInParent
        <5> QED BY <4>1, <5>1
      <4>2. CASE ~Fits(a, e)
        BY <4>2
      <4> QED BY <4>1, <4>2
    <3>3. PICK g : g = [f EXCEPT ![a] = Step(f, a)]
      OBVIOUS
    <3>4. g \in [Nat -> Seq(Nat)] /\ g[a] = Step(f, a) /\ \A o \in Nat : o # a => g[o] = f[o]
      <4> HIDE DEF Step
      <4> QED BY <1>2, <3>2, <3>3
    <3>5. ASSUME NEW o \in Nat, o + (k + 1) >= e
          PROVE  g[o] = Step(g, o)
      <4>1. o >= a /\ (o # a => o + k >= e)
        BY <3>1, <3>5
      <4>2. Step(f, o) = Step(g, o)
        <5>1. CASE Fits(o, e)
          <6>1. Behind(o) \in Nat /\ Behind(o) > a
            BY <4>1, <5>1, FitsInParent
          <6>2. g[Behind(o)] = f[Behind(o)]
            BY <3>4, <6>1
          <6> QED BY <6>2
        <5>2. CASE ~Fits(o, e)
          BY <5>2
        <5> QED BY <5>1, <5>2
      <4>3. g[o] = Step(f, o)
        <5> HIDE DEF Step
        <5> QED BY <1>2, <3>4, <4>1
      <4> QED BY <4>2, <4>3
    <3> QED BY <3>4, <3>5
  <2> QED BY <2>1, <2>2
<1>3. Bad = {}
  <2> SUFFICES ASSUME Bad # {} PROVE FALSE
    OBVIOUS
  <2>1. PICK m : m \in Bad /\ \A n \in Bad : m <= n
    BY MinIsLeast
  <2>2. m # 0
    BY <1>1, <2>1
  <2>3. m - 1 \in Nat /\ m - 1 \notin Bad /\ (m - 1) + 1 = m
    <3>1. m \in Nat
      BY <2>1
    <3> HIDE DEF Bad
    <3> QED BY <2>1, <2>2, <3>1
  <2>4. PICK f : Ok(f, m - 1)
    BY <2>3
  <2>5. \E g : Ok(g, (m - 1) + 1)
    BY <1>2, <2>3, <2>4
  <2> QED BY <2>1, <2>3, <2>5
<1>4. PICK f : Ok(f, e)
  BY <1>3
<1>5. Lists(f, e)
  <2>1. \A o \in Nat : o + e >= e
    OBVIOUS
  <2> QED BY <1>4, <2>1 DEF Lists
<1> QED BY <1>5

\* PartsFrom lists offsets, by its equation.
LEMMA PartsListed ==
  ASSUME NEW e \in Nat
  PROVE  Lists(PartsFrom(e), e)
<1>1. PICK f : Lists(f, e)
  BY ListExists
<1>2. f = [o \in Nat |-> IF Fits(o, e) THEN <<o>> \o f[o + DWORDUP(At(o).wTotLen)] ELSE <<>>]
  BY <1>1 DEF Lists, Behind
<1>3. PICK p : p = PartsFrom(e)
  OBVIOUS
<1>4. p = [o \in Nat |-> IF Fits(o, e) THEN <<o>> \o p[o + DWORDUP(At(o).wTotLen)] ELSE <<>>]
  BY <1>2, <1>3 DEF PartsFrom
<1>5. \A o \in Nat : p[o] = IF Fits(o, e) THEN <<o>> \o p[Behind(o)] ELSE <<>>
  BY <1>4 DEF Behind
<1> DEFINE Bad == {k \in Nat : k <= e /\ p[e - k] \notin Seq(Nat)}
<1>a. \A o \in Nat : ~Fits(o, e) => p[o] = <<>>
  BY <1>5
<1>b. <<>> \in Seq(Nat)
  OBVIOUS
<1>6. ASSUME NEW o \in Nat, o >= e
      PROVE  p[o] \in Seq(Nat)
  <2>1. ~Fits(o, e)
    BY <1>6, FitsInParent
  <2> QED BY <1>a, <1>b, <2>1, Zenon
<1>7. Bad = {}
  <2> SUFFICES ASSUME Bad # {} PROVE FALSE
    OBVIOUS
  <2>1. PICK m : m \in Bad /\ \A n \in Bad : m <= n
    BY MinIsLeast
  <2>2. PICK o \in Nat : o = e - m /\ m \in Nat /\ p[o] \notin Seq(Nat)
    BY <2>1
  <2>3. Fits(o, e)
    BY <1>a, <1>b, <2>2, Zenon
  <2>4. Behind(o) \in Nat /\ Behind(o) > o
    BY <2>3, FitsInParent
  <2>5. p[Behind(o)] \in Seq(Nat)
    <3>1. CASE Behind(o) >= e
      BY <1>6, <2>4, <3>1
    <3>2. CASE ~(Behind(o) >= e)
      <4>1. PICK k \in Nat : k = e - Behind(o) /\ Behind(o) = e - k /\ k < m /\ k <= e
        BY <2>2, <2>4, <3>2
      <4>2. k \notin Bad
        <5> HIDE DEF Bad
        <5> QED BY <2>1, <2>2, <4>1
      <4> QED BY <4>1, <4>2
    <3> QED BY <3>1, <3>2
  <2>6. p[o] = <<o>> \o p[Behind(o)]
    BY <1>5, <2>3
  <2>7. <<o>> \o p[Behind(o)] \in Seq(Nat)
    BY <2>5
  <2> QED BY <2>2, <2>6, <2>7
<1>8. ASSUME NEW o \in Nat
      PROVE  p[o] \in Seq(Nat)
  <2>1. CASE o < e
    <3>1. PICK k \in Nat : k = e - o /\ o = e - k /\ k <= e
      BY <2>1
    <3> QED BY <1>7, <3>1
  <2> QED BY <1>6, <2>1
<1>9. p \in [Nat -> Seq(Nat)]
  BY <1>4, <1>8
<1> QED BY <1>3, <1>5, <1>9 DEF Lists

\* A path leads where it says, one level after the other.
LEMMA ReachedLevels ==
  ASSUME Len(path) \in Nat
  PROVE  /\ Reached[0] = 0
         /\ \A i \in 1 .. Len(path) :
              Reached[i] = IF Reached[i - 1] = -1 THEN -1
                           ELSE Named(Parts(Reached[i - 1]), path[i])
<1> DEFINE l == Len(path)
           Step(f, i) == IF f[i - 1] = -1 THEN -1 ELSE Named(Parts(f[i - 1]), path[i])
           Ok(f, k) == /\ DOMAIN f = 0 .. l
                       /\ f[0] = 0
                       /\ \A i \in 1 .. l : i <= k => f[i] = Step(f, i)
           Bad == {k \in Nat : ~ \E f : Ok(f, k)}
<1>1. \E f : Ok(f, 0)
  <2>1. Ok([i \in 0 .. l |-> 0], 0)
    <3> HIDE DEF Step
    <3> QED OBVIOUS
  <2> QED BY <2>1
<1>2. ASSUME NEW k \in Nat, NEW f, Ok(f, k)
      PROVE  \E g : Ok(g, k + 1)
  <2>1. CASE k + 1 > l
    <3>1. Ok(f, k + 1)
      <4> HIDE DEF Step
      <4> QED BY <1>2, <2>1
    <3> QED BY <3>1
  <2>2. CASE ~(k + 1 > l)
    <3>1. PICK v : v = Step(f, k + 1)
      OBVIOUS
    <3>2. PICK g : g = [i \in 0 .. l |-> IF i = k + 1 THEN v ELSE f[i]]
      OBVIOUS
    <3>3. /\ DOMAIN g = 0 .. l /\ g[k + 1] = v
          /\ \A i \in 0 .. l : i # k + 1 => g[i] = f[i]
      BY <2>2, <3>2
    <3>4. ASSUME NEW i \in 1 .. l, i <= k + 1
          PROVE  g[i] = Step(g, i)
      <4>1. i - 1 \in 0 .. l /\ i - 1 # k + 1
        BY <3>4
      <4>2. g[i - 1] = f[i - 1]
        BY <3>3, <4>1
      <4>3. Step(g, i) = Step(f, i)
        BY <4>2
      <4>4. g[i] = Step(f, i)
        <5> HIDE DEF Step
        <5>1. CASE i = k + 1
          BY <3>1, <3>3, <5>1
        <5>2. CASE i # k + 1
          <6>1. i <= k /\ i \in 0 .. l
            BY <3>4, <5>2
          <6> QED BY <1>2, <3>3, <5>2, <6>1
        <5> QED BY <5>1, <5>2
      <4> QED BY <4>3, <4>4
    <3>5. g[0] = 0
      BY <1>2, <3>3
    <3>6. Ok(g, k + 1)
      <4> HIDE DEF Step
      <4> QED BY <3>3, <3>4, <3>5
    <3> QED BY <3>6
  <2> QED BY <2>1, <2>2
<1>3. Bad = {}
  <2> SUFFICES ASSUME Bad # {} PROVE FALSE
    OBVIOUS
  <2>1. PICK m : m \in Bad /\ \A n \in Bad : m <= n
    BY MinIsLeast
  <2>2. m # 0
    BY <1>1, <2>1
  <2>3. m - 1 \in Nat /\ m - 1 \notin Bad /\ (m - 1) + 1 = m
    <3>1. m \in Nat
      BY <2>1
    <3> HIDE DEF Bad
    <3> QED BY <2>1, <2>2, <3>1
  <2>4. PICK f : Ok(f, m - 1)
    BY <2>3
  <2>5. \E g : Ok(g, (m - 1) + 1)
    BY <1>2, <2>3, <2>4
  <2> QED BY <2>1, <2>3, <2>5
<1>4. PICK f : Ok(f, l)
  BY <1>3
<1>5. PICK h : h = [i \in 0 .. l |-> IF i = 0 THEN 0 ELSE IF f[i - 1] = -1 THEN -1
                                    ELSE Named(Parts(f[i - 1]), path[i])]
  OBVIOUS
<1>6. \A i \in 0 .. l : f[i] = h[i]
  BY <1>4, <1>5
<1>7. f = h
  <2>1. DOMAIN f = 0 .. l /\ DOMAIN h = 0 .. l
    BY <1>4, <1>5
  <2> QED BY <1>6, <2>1
<1>8. PICK r : r = Reached
  OBVIOUS
<1>9. r = [i \in 0 .. Len(path) |-> IF i = 0 THEN 0 ELSE IF r[i - 1] = -1 THEN -1
                                   ELSE Named(Parts(r[i - 1]), path[i])]
  BY <1>5, <1>7, <1>8 DEF Reached
<1> QED BY <1>8, <1>9

\* f lists the blocks in a parent by where it ends, R is where a path leads.
Leads(f, R) ==
  /\ R[0] = 0
  /\ \A i \in 0 .. Len(path) : End(R[i]) \in Nat => Lists(f[End(R[i])], End(R[i]))
  /\ \A i \in 1 .. Len(path) :
       R[i] = IF R[i - 1] = -1 THEN -1
              ELSE Named(f[End(R[i - 1])][First(R[i - 1])], path[i])

\* Reached is where the path leads.
LEMMA LeadsExists ==
  ASSUME Len(path) \in Nat
  PROVE  \E f : Leads(f, Reached)
<1>1. PICK R : R = Reached
  OBVIOUS
<1>2. PICK f : f = [e \in {End(R[i]) : i \in 0 .. Len(path)} |-> PartsFrom(e)]
  OBVIOUS
<1>3. \A i \in 0 .. Len(path) : f[End(R[i])] = PartsFrom(End(R[i]))
  BY <1>2
<1>4. \A i \in 1 .. Len(path) : i - 1 \in 0 .. Len(path)
  OBVIOUS
<1>5. \A i \in 1 .. Len(path) : f[End(R[i - 1])][First(R[i - 1])] = Parts(R[i - 1])
  BY <1>3, <1>4 DEF Parts
<1>6. R[0] = 0 /\ \A i \in 1 .. Len(path) :
        R[i] = IF R[i - 1] = -1 THEN -1 ELSE Named(Parts(R[i - 1]), path[i])
  BY <1>1, ReachedLevels
<1>7. \A i \in 0 .. Len(path) : End(R[i]) \in Nat => Lists(f[End(R[i])], End(R[i]))
  BY <1>3, PartsListed
<1> QED BY <1>1, <1>5, <1>6, <1>7 DEF Leads

\* Where a path leads only depends on the resource and the path.
LEMMA LeadsStays ==
  ASSUME resource' = resource, path' = path, NEW f, NEW R
  PROVE  Leads(f, R)' <=> Leads(f, R)
  BY DEF Leads, Lists, Behind, Named, Hits, First, Fits, HasHeader, HasBlock, KeyFits,
         ValueFits, ValueAt, End, At

\* Segments of the path that are behind the walk.
Walked == Len(path) - Len(rest)

\* The blocks of the level before the one looked at are not the one wanted.
Passed(s, segment) ==
  IF IndexOf(segment) >= 0
  THEN index \in Nat /\ Len(s) + index = IndexOf(segment)
  ELSE index = IndexOf(segment) /\ \A m \in 1 .. Len(s) : segment # <<At(s[m]).szKey>>

\* The blocks before sub are passed, and the list goes on with the one at sub.
Searching(f, R) ==
  LET listed == f[End(R[Walked])] IN
  \E s \in Seq(Nat) : listed[First(R[Walked])] = s \o listed[sub] /\ Passed(s, Head(rest))

Returned(R) ==
  ppv = IF R[Len(path)] = -1 THEN Failed ELSE Value(R[Len(path)], ValueAt(R[Len(path)]))

\* The invariant, for every f and R that the path leads along: they are constants of
\* a step, so that nothing must be known about PartsFrom and Reached until the end.
OnPath ==
  /\ path \in Seq(Segments) /\ rest \in Seq(Segments) /\ Walked \in Nat
  /\ \A m \in 1 .. Len(rest) : rest[m] = path[Walked + m]
  /\ pc = "head" => rest = path
  /\ pc = "search" => rest # <<>>
  /\ pc # "done" => ppv = Failed
  /\ \A f, R : Leads(f, R) =>
       /\ pc \in {"segment", "search"} => R[Walked] = block
       /\ pc = "search" => Searching(f, R)
       /\ pc = "done" => Returned(R)

\* An element moved from the front of one sequence to the end of another.
LEMMA ConcatStep ==
  ASSUME NEW s \in Seq(Nat), NEW x \in Nat, NEW t \in Seq(Nat)
  PROVE  /\ s \o (<<x>> \o t) = Append(s, x) \o t
         /\ Append(s, x) \in Seq(Nat) /\ Len(Append(s, x)) = Len(s) + 1
         /\ Append(s, x)[Len(s) + 1] = x
         /\ \A m \in 1 .. Len(s) : Append(s, x)[m] = s[m]
         /\ DOMAIN (Append(s, x) \o t) = 1 .. Len(s) + 1 + Len(t)
         /\ (Append(s, x) \o t)[Len(s) + 1] = x
         /\ \A m \in 1 .. Len(s) : (Append(s, x) \o t)[m] = s[m]
<1>1. PICK a : a = Append(s, x) /\ a \in Seq(Nat)
  BY AppendProperties
<1>2. /\ Len(a) = Len(s) + 1 /\ a[Len(s) + 1] = x /\ Len(s) \in Nat /\ Len(t) \in Nat
      /\ \A m \in 1 .. Len(s) : a[m] = s[m]
  BY <1>1, AppendProperties
<1>3. PICK b : b = a \o t /\ b \in Seq(Nat)
  BY <1>1, ConcatProperties
<1>4. Len(b) = Len(a) + Len(t) /\ \A m \in 1 .. Len(a) : b[m] = a[m]
  BY <1>1, <1>3
<1>5. s \o (<<x>> \o t) = (s \o <<x>>) \o t
  <2>1. <<x>> \in Seq(Nat)
    OBVIOUS
  <2> QED BY <2>1, ConcatAssociative
<1>6. s \o <<x>> = Append(s, x)
  BY AppendIsConcat
<1>7. Len(s) + 1 \in 1 .. Len(a) /\ \A m \in 1 .. Len(s) : m \in 1 .. Len(a)
  BY <1>2
<1>8. DOMAIN b = 1 .. Len(s) + 1 + Len(t)
  BY <1>2, <1>3, <1>4
<1> QED BY <1>1, <1>2, <1>3, <1>4, <1>5, <1>6, <1>7, <1>8

\* A segment's index is a number.
LEMMA IndexType ==
  ASSUME NEW segment \in Segments
  PROVE  IndexOf(segment) \in Int
<1>1. CASE segment = <<"*">>
  BY <1>1 DEF IndexOf
<1>2. CASE segment \in {"#"} \X Int
  BY <1>2 DEF IndexOf
<1>3. CASE segment \in {<<k>> : k \in Keys \ {"*", "#"}}
  BY <1>3 DEF IndexOf
<1> QED BY <1>1, <1>2, <1>3 DEF Segments

\* What follows a level that no segment names.
LEMMA NoWayOn ==
  ASSUME NEW f, NEW R, Leads(f, R), Len(path) \in Nat, NEW i \in 0 .. Len(path), R[i] = -1
  PROVE  R[Len(path)] = -1
<1> DEFINE Bad == {j \in Nat : i <= j /\ j <= Len(path) /\ R[j] # -1}
<1>1. CASE Bad = {}
  BY <1>1
<1>2. CASE Bad # {}
  <2>1. PICK m : m \in Bad /\ \A n \in Bad : m <= n
    BY <1>2, MinIsLeast
  <2>2. m \in Nat /\ i <= m /\ m <= Len(path) /\ R[m] # -1 /\ m # i
    BY <2>1
  <2>3. m \in 1 .. Len(path) /\ m - 1 \in Nat /\ i <= m - 1 /\ m - 1 <= Len(path)
    BY <2>2
  <2>4. R[m - 1] = -1
    <3>1. m - 1 \notin Bad
      <4> HIDE DEF Bad
      <4> QED BY <2>1, <2>2
    <3> QED BY <2>3, <3>1
  <2>5. R[m] = -1
    BY <2>3, <2>4 DEF Leads
  <2> QED BY <2>2, <2>5
<1> QED BY <1>1, <1>2

\* The first block of a level is looked at where the value before it ends.
LEMMA BlockReached ==
  ASSUME Inside, pc \in {"segment", "search"}
  PROVE  /\ block \in Nat /\ End(block) \in Nat /\ First(block) \in Nat
         /\ pc = "segment" => First(block) = block + DWORDUP(len)
<1>1. resource \in Resources /\ IsBlock(block) /\ block \in Places(resource)
  BY DEF Inside, IsBlock
<1>2. /\ block \in Nat /\ At(block).wTotLen \in Nat /\ At(block).wValLen \in Nat
      /\ ValueAt(block) \in Nat
  BY <1>1, BlockAt
<1>3. DWORDUP(ValueAt(block) + At(block).wValLen) \in Nat
  BY <1>2, DwordUp
<1> QED BY <1>2, <1>3 DEF End, First, Inside, ValueOfBlock

\* What the loop has in hand while it searches a level.
LEMMA LevelSearched ==
  ASSUME Inside, OnPath, pc = "search", NEW f, NEW R, Leads(f, R)
  PROVE  /\ Walked \in Nat /\ Walked + 1 \in 1 .. Len(path) /\ Len(path) \in Nat
         /\ Head(rest) = path[Walked + 1] /\ Head(rest) \in Segments
         /\ R[Walked] = block /\ Lists(f[End(block)], End(block)) /\ sub \in Nat
         /\ R[Walked + 1] = Named(f[End(block)][First(block)], Head(rest))
         /\ \E s \in Seq(Nat) :
              f[End(block)][First(block)] = s \o f[End(block)][sub] /\ Passed(s, Head(rest))
<1>1. /\ path \in Seq(Segments) /\ rest \in Seq(Segments) /\ rest # <<>> /\ Walked \in Nat
      /\ \A m \in 1 .. Len(rest) : rest[m] = path[Walked + m]
      /\ R[Walked] = block /\ Searching(f, R)
  BY DEF OnPath
<1>2. Len(rest) \in Nat /\ Len(rest) >= 1 /\ Head(rest) = rest[1] /\ Head(rest) \in Segments
      /\ Len(path) \in Nat
  BY <1>1
<1>3. Walked + 1 \in 1 .. Len(path) /\ Walked \in 0 .. Len(path)
  BY <1>1, <1>2 DEF Walked
<1>4. Head(rest) = path[Walked + 1]
  BY <1>1, <1>2
<1>5. block \in Nat /\ End(block) \in Nat /\ sub \in Nat
  BY BlockReached DEF Inside
<1>6. Lists(f[End(block)], End(block))
  BY <1>1, <1>3, <1>5 DEF Leads
<1>7. R[Walked + 1] = Named(f[End(block)][First(block)], Head(rest))
  <2>1. (Walked + 1) - 1 = Walked /\ block # -1
    BY <1>1, <1>5
  <2>2. PICK k \in 1 .. Len(path) : k = Walked + 1 /\ k - 1 = Walked
    BY <1>3, <2>1
  <2>3. R[k] = IF R[k - 1] = -1 THEN -1
               ELSE Named(f[End(R[k - 1])][First(R[k - 1])], path[k])
    BY DEF Leads
  <2> QED BY <1>1, <1>4, <2>1, <2>2, <2>3
<1> QED BY <1>1, <1>2, <1>3, <1>4, <1>5, <1>6, <1>7 DEF Searching

\* The block at which the loop stops is the one that the segment names.
LEMMA WantedIsNamed ==
  ASSUME NEW s \in Seq(Nat), NEW t \in Seq(Nat), sub \in Nat, Head(rest) \in Segments,
         Passed(s, Head(rest)), IsWanted
  PROVE  Named(Append(s, sub) \o t, Head(rest)) = sub
<1>1. PICK parts : parts = Append(s, sub) \o t
  OBVIOUS
<1>2. PICK n \in Nat : n = Len(s) + 1
  OBVIOUS
<1>3. /\ DOMAIN parts = 1 .. n + Len(t) /\ parts[n] = sub /\ Len(t) \in Nat
      /\ \A m \in 1 .. Len(s) : parts[m] = s[m]
  BY <1>1, <1>2, ConcatStep
<1>4. PICK hits : hits = Hits(parts, Head(rest))
  OBVIOUS
<1>5. IndexOf(Head(rest)) \in Int
  BY IndexType
<1>6. hits \in SUBSET Nat
  BY <1>3, <1>4 DEF Hits
<1>7. n \in hits /\ \A m \in hits : n <= m
  <2>1. n \in DOMAIN parts /\ \A m \in DOMAIN parts : m \in Nat /\ (~(n <= m) => m \in 1 .. Len(s))
    BY <1>2, <1>3
  <2>2. CASE IndexOf(Head(rest)) >= 0
    <3>1. index \in Nat /\ Len(s) + index = IndexOf(Head(rest))
      BY <2>2 DEF Passed
    <3>2. IndexOf(Head(rest)) + 1 = n
      BY <1>2, <3>1 DEF IsWanted
    <3>3. hits = {m \in DOMAIN parts : m = n}
      BY <1>4, <2>2, <3>2 DEF Hits
    <3> QED BY <1>2, <2>1, <3>3
  <2>3. CASE ~(IndexOf(Head(rest)) >= 0)
    <3>1. /\ index = IndexOf(Head(rest))
          /\ \A m \in 1 .. Len(s) : Head(rest) # <<At(s[m]).szKey>>
      BY <2>3 DEF Passed
    <3>2. Head(rest) = <<At(sub).szKey>>
      BY <2>3, <3>1 DEF IsWanted
    <3>3. hits = {m \in DOMAIN parts : Head(rest) = <<At(parts[m]).szKey>>}
      BY <1>4, <2>3 DEF Hits
    <3> QED BY <1>3, <2>1, <3>1, <3>2, <3>3
  <2> QED BY <2>2, <2>3
<1>8. PICK low : low = Min(hits)
  OBVIOUS
<1>9. low \in hits /\ low <= n
  BY <1>6, <1>7, <1>8, MinIsLeast
<1>10. low = n
  BY <1>6, <1>7, <1>9
<1> QED BY <1>1, <1>3, <1>4, <1>7, <1>8, <1>10 DEF Named

\* When the loop comes to the end of a level, the segment names none of its blocks.
LEMMA NoneIsNamed ==
  ASSUME NEW s \in Seq(Nat), NEW segment \in Segments, Passed(s, segment)
  PROVE  Named(s, segment) = -1
<1>1. DOMAIN s = 1 .. Len(s) /\ Len(s) \in Nat
  OBVIOUS
<1>2. Hits(s, segment) = {}
  <2>1. CASE IndexOf(segment) >= 0
    <3>1. index \in Nat /\ Len(s) + index = IndexOf(segment)
      BY <2>1 DEF Passed
    <3>2. IndexOf(segment) + 1 \notin DOMAIN s
      BY <1>1, <3>1
    <3> QED BY <2>1, <3>2 DEF Hits
  <2>2. CASE ~(IndexOf(segment) >= 0)
    BY <1>1, <2>2 DEF Passed, Hits
  <2> QED BY <2>1, <2>2
<1> QED BY <1>2 DEF Named

\* A walk starts at the head, with the whole path to go.
LEMMA OnPathInit == Init => OnPath
<1> SUFFICES ASSUME Init PROVE OnPath
  OBVIOUS
<1>1. path \in Seq(Segments) /\ rest = path /\ pc = "head" /\ ppv = Failed
  BY PathsAssumption DEF Init
<1>2. Walked = 0
  BY <1>1 DEF Walked
<1>3. \A m \in 1 .. Len(rest) : rest[m] = path[Walked + m]
  BY <1>1, <1>2
<1> QED BY <1>1, <1>2, <1>3 DEF OnPath

\* Every step of the walk goes along the path.
LEMMA OnPathStep == Inside /\ OnPath /\ [Next]_vars => OnPath'
<1> SUFFICES ASSUME Inside, OnPath, [Next]_vars PROVE OnPath'
  OBVIOUS
<1>1. resource' = resource /\ path' = path
  BY DEF Next, Walk, CheckHead, StartSegment, LookAtSub, NoneLeft, Return, CompareFails, vars
<1>2. \A f, R : Leads(f, R)' => Leads(f, R)
  BY <1>1, LeadsStays
<1>3. /\ path \in Seq(Segments) /\ rest \in Seq(Segments) /\ Walked \in Nat /\ Len(path) \in Nat
      /\ \A m \in 1 .. Len(rest) : rest[m] = path[Walked + m]
  BY DEF OnPath
<1>4. rest' = rest => Walked' = Walked
  BY <1>1 DEF Walked
<1>5. CASE CheckHead
  <2>1. pc = "head" /\ pc' \in {"error", "segment"} /\ rest' = rest /\ block' = block /\ ppv' = ppv
    BY <1>5 DEF CheckHead
  <2>2. block = 0 /\ rest = path /\ ppv = Failed
    BY <2>1 DEF Inside, OnPath
  <2>3. Walked' = 0
    BY <1>3, <1>4, <2>1, <2>2 DEF Walked
  <2>4. ASSUME NEW f, NEW R, Leads(f, R)'
        PROVE  R[Walked'] = block'
    BY <1>2, <2>1, <2>2, <2>3, <2>4 DEF Leads
  <2> QED BY <1>1, <1>3, <1>4, <2>1, <2>2, <2>4 DEF OnPath
<1>6. CASE StartSegment
  <2>1. /\ pc = "segment" /\ rest # <<>> /\ pc' = "search" /\ rest' = rest /\ block' = block
        /\ ppv' = ppv /\ sub' = block + DWORDUP(len) /\ index' = IndexOf(Head(rest))
    BY <1>6 DEF StartSegment
  <2>2. block \in Nat /\ End(block) \in Nat /\ sub' = First(block) /\ First(block) \in Nat
    BY <2>1, BlockReached
  <2>3. Head(rest) \in Segments
    BY <1>3, <2>1
  <2>4. Passed(<<>>, Head(rest))'
    <3>1. IndexOf(Head(rest)) \in Int
      BY <2>3, IndexType
    <3> QED BY <2>1, <3>1 DEF Passed
  <2>5. ASSUME NEW f, NEW R, Leads(f, R)'
        PROVE  R[Walked'] = block' /\ Searching(f, R)'
    <3>1. Leads(f, R) /\ R[Walked] = block /\ Walked \in 0 .. Len(path)
      BY <1>2, <1>3, <2>1, <2>5 DEF OnPath, Walked
    <3>2. Lists(f[End(block)], End(block))
      BY <2>2, <3>1 DEF Leads
    <3>3. f[End(block)][First(block)] \in Seq(Nat)
      BY <2>2, <3>2 DEF Lists
    <3>4. f[End(block)][First(block)] = <<>> \o f[End(block)][First(block)]
      BY <3>3, ConcatEmptySeq
    <3>6. R[Walked'] = block'
      BY <1>4, <2>1, <3>1
    <3>5. End(R[Walked])' = End(block) /\ First(R[Walked])' = First(block)
      BY <1>1, <2>1, <3>6 DEF End, First, ValueAt, At
    <3>8. <<>> \in Seq(Nat)
      OBVIOUS
    <3>7. Searching(f, R)'
      BY <2>2, <2>4, <3>4, <3>5, <3>8 DEF Searching
    <3> QED BY <3>6, <3>7
  <2> QED BY <1>1, <1>3, <1>4, <2>1, <2>5 DEF OnPath
<1>7. CASE LookAtSub
  <2>1. pc = "search" /\ Fits(sub, End(block)) /\ ppv' = ppv
    BY <1>7 DEF LookAtSub
  <2>2. block \in Nat /\ End(block) \in Nat /\ sub \in Nat
    BY <2>1, BlockReached DEF Inside
  <2>3. Behind(sub) \in Nat
    BY <2>1, <2>2, FitsInParent
  <2>4. ASSUME NEW f, NEW R, Leads(f, R)'
        PROVE  /\ Leads(f, R) /\ R[Walked] = block
               /\ R[Walked + 1] = Named(f[End(block)][First(block)], Head(rest))
               /\ \E s \in Seq(Nat) :
                    /\ Passed(s, Head(rest)) /\ f[End(block)][Behind(sub)] \in Seq(Nat)
                    /\ f[End(block)][First(block)] =
                         Append(s, sub) \o f[End(block)][Behind(sub)]
    <3>1. Leads(f, R)
      BY <1>2, <2>4
    <3>2. /\ R[Walked] = block /\ Lists(f[End(block)], End(block))
          /\ R[Walked + 1] = Named(f[End(block)][First(block)], Head(rest))
      BY <2>1, <3>1, LevelSearched
    <3>3. PICK s \in Seq(Nat) :
            f[End(block)][First(block)] = s \o f[End(block)][sub] /\ Passed(s, Head(rest))
      BY <2>1, <3>1, LevelSearched
    <3>4. /\ f[End(block)][sub] = <<sub>> \o f[End(block)][Behind(sub)]
          /\ f[End(block)][Behind(sub)] \in Seq(Nat)
      BY <2>1, <2>2, <2>3, <3>2 DEF Lists
    <3>5. f[End(block)][First(block)] = Append(s, sub) \o f[End(block)][Behind(sub)]
      <4>1. PICK t \in Seq(Nat) : t = f[End(block)][Behind(sub)]
        BY <3>4
      <4>2. s \o (<<sub>> \o t) = Append(s, sub) \o t
        BY <2>2, ConcatStep
      <4> QED BY <3>3, <3>4, <4>1, <4>2
    <3> QED BY <3>1, <3>2, <3>3, <3>4, <3>5
  <2>5. CASE IsWanted /\ block' = sub /\ rest' = Tail(rest) /\ pc' = "segment"
    <3>1. rest # <<>> /\ Head(rest) \in Segments
      BY <1>3, <2>1 DEF OnPath
    <3>2. /\ rest' \in Seq(Segments) /\ Len(rest) \in Nat /\ Len(rest') = Len(rest) - 1
          /\ \A m \in 1 .. Len(rest') : m + 1 \in 1 .. Len(rest) /\ rest'[m] = rest[m + 1]
      BY <1>3, <2>5, <3>1
    <3>3. Walked' = Walked + 1
      BY <1>1, <1>3, <3>2 DEF Walked
    <3>4. ASSUME NEW m \in 1 .. Len(rest')
          PROVE  rest'[m] = path'[Walked' + m]
      <4>1. m + 1 \in 1 .. Len(rest) /\ Walked' + m = Walked + (m + 1)
        BY <1>3, <3>2, <3>3
      <4> QED BY <1>1, <1>3, <3>2, <4>1
    <3>5. ASSUME NEW f, NEW R, Leads(f, R)'
          PROVE  R[Walked'] = block'
      <4>1. PICK s \in Seq(Nat) :
              /\ Passed(s, Head(rest)) /\ f[End(block)][Behind(sub)] \in Seq(Nat)
              /\ f[End(block)][First(block)] = Append(s, sub) \o f[End(block)][Behind(sub)]
        BY <2>4, <3>5
      <4>2. Named(f[End(block)][First(block)], Head(rest)) = sub
        BY <2>2, <2>5, <3>1, <4>1, WantedIsNamed
      <4> QED BY <2>4, <2>5, <3>3, <3>5, <4>2
    <3>6. ppv = Failed
      BY <2>1 DEF OnPath
    <3> QED BY <1>1, <1>3, <2>1, <2>5, <3>2, <3>3, <3>4, <3>5, <3>6 DEF OnPath
  <2>6. CASE /\ ~IsWanted /\ sub' = Sibling /\ index' = IF index > 0 THEN index - 1 ELSE index
             /\ block' = block /\ rest' = rest /\ pc' = pc
    <3>1. sub' = Behind(sub)
      BY <2>6 DEF Sibling, Behind
    <3>2. rest # <<>> /\ Head(rest) \in Segments /\ IndexOf(Head(rest)) \in Int
      BY <1>3, <2>1, IndexType DEF OnPath
    <3>3. ASSUME NEW s \in Seq(Nat), Passed(s, Head(rest)), NEW a, a = Append(s, sub)
          PROVE  Passed(a, Head(rest))'
      <4>2. Len(a) = Len(s) + 1 /\ a[Len(s) + 1] = sub /\ Len(s) \in Nat
            /\ \A m \in 1 .. Len(s) : a[m] = s[m]
        BY <2>2, <3>3, AppendProperties
      <4>3. CASE IndexOf(Head(rest)) >= 0
        <5>1. index \in Nat /\ Len(s) + index = IndexOf(Head(rest))
          BY <3>3, <4>3 DEF Passed
        <5>2. index > 0 /\ index' = index - 1
          BY <2>6, <5>1 DEF IsWanted
        <5>3. index' \in Nat /\ Len(a) + index' = IndexOf(Head(rest))
          BY <4>2, <5>1, <5>2
        <5> QED BY <2>6, <4>3, <5>3 DEF Passed
      <4>4. CASE ~(IndexOf(Head(rest)) >= 0)
        <5>1. /\ index = IndexOf(Head(rest))
              /\ \A m \in 1 .. Len(s) : Head(rest) # <<At(s[m]).szKey>>
          BY <3>3, <4>4 DEF Passed
        <5>2. index' = IndexOf(Head(rest)) /\ Head(rest) # <<At(sub).szKey>>
          BY <2>6, <3>2, <4>4, <5>1 DEF IsWanted
        <5>3. \A m \in 1 .. Len(a) : Head(rest) # <<At(a[m]).szKey>>
          BY <4>2, <5>1, <5>2
        <5> QED BY <1>1, <2>6, <4>4, <5>2, <5>3 DEF Passed, At
      <4> QED BY <4>3, <4>4
    <3>4. ASSUME NEW f, NEW R, Leads(f, R)'
          PROVE  R[Walked'] = block' /\ Searching(f, R)'
      <4>1. PICK s \in Seq(Nat) :
              /\ Passed(s, Head(rest)) /\ f[End(block)][Behind(sub)] \in Seq(Nat)
              /\ f[End(block)][First(block)] = Append(s, sub) \o f[End(block)][Behind(sub)]
        BY <2>4, <3>4
      <4>2. PICK a : a = Append(s, sub) /\ a \in Seq(Nat)
        BY <2>2, ConcatStep
      <4>5. Passed(a, Head(rest))'
        BY <3>3, <4>1, <4>2
      <4>3. R[Walked'] = block' /\ block' = block
        BY <1>4, <2>4, <2>6, <3>4
      <4>4. End(R[Walked])' = End(block) /\ First(R[Walked])' = First(block)
        BY <1>1, <4>3 DEF End, First, ValueAt, At
      <4>6. f[End(block)][First(block)] = a \o f[End(block)][sub']
        BY <3>1, <4>1, <4>2
      <4>7. Searching(f, R)'
        BY <4>2, <4>4, <4>5, <4>6 DEF Searching
      <4> QED BY <4>3, <4>7
    <3> QED BY <1>1, <1>3, <1>4, <2>1, <2>6, <3>2, <3>4 DEF OnPath
  <2> QED BY <1>7, <2>5, <2>6 DEF LookAtSub
<1>8. CASE NoneLeft
  <2>1. pc = "search" /\ ~Fits(sub, End(block)) /\ pc' = "done" /\ ppv' = ppv /\ rest' = rest
    BY <1>8 DEF NoneLeft
  <2>2. ASSUME NEW f, NEW R, Leads(f, R)'
        PROVE  Returned(R)'
    <3>1. Leads(f, R)
      BY <1>2, <2>2
    <3>2. /\ Lists(f[End(block)], End(block)) /\ sub \in Nat /\ Head(rest) \in Segments
          /\ R[Walked + 1] = Named(f[End(block)][First(block)], Head(rest))
          /\ Walked + 1 \in 1 .. Len(path)
      BY <2>1, <3>1, LevelSearched
    <3>3. PICK s \in Seq(Nat) :
            f[End(block)][First(block)] = s \o f[End(block)][sub] /\ Passed(s, Head(rest))
      BY <2>1, <3>1, LevelSearched
    <3>4. f[End(block)][sub] = <<>>
      BY <2>1, <3>2 DEF Lists
    <3>5. f[End(block)][First(block)] = s
      BY <3>3, <3>4, ConcatEmptySeq
    <3>6. R[Walked + 1] = -1 /\ Walked + 1 \in 0 .. Len(path)
      BY <3>2, <3>3, <3>5, NoneIsNamed
    <3>7. R[Len(path)] = -1
      BY <1>3, <3>1, <3>6, NoWayOn
    <3>8. ppv' = Failed
      BY <2>1 DEF OnPath
    <3> QED BY <1>1, <3>7, <3>8 DEF Returned
  <2> QED BY <1>1, <1>3, <1>4, <2>1, <2>2 DEF OnPath
<1>9. CASE CompareFails
  <2>1. pc = "search" /\ pc' = "error" /\ ppv' = ppv /\ rest' = rest
    BY <1>9 DEF CompareFails
  <2> QED BY <1>1, <1>3, <1>4, <2>1 DEF OnPath
<1>10. CASE Return
  <2>1. /\ pc = "segment" /\ rest = <<>> /\ ppv' = Value(block, off) /\ pc' = "done"
        /\ rest' = rest
    BY <1>10 DEF Return
  <2>2. off = ValueAt(block) /\ block \in Nat
    BY <2>1, BlockReached DEF Inside, ValueOfBlock
  <2>3. Walked = Len(path)
    BY <1>3, <2>1 DEF Walked
  <2>4. ASSUME NEW f, NEW R, Leads(f, R)'
        PROVE  Returned(R)'
    <3>1. R[Len(path)] = block /\ block # -1
      BY <1>2, <2>1, <2>2, <2>3, <2>4 DEF OnPath
    <3> QED BY <1>1, <2>1, <2>2, <3>1 DEF Returned, Value, ValueAt, At
  <2> QED BY <1>1, <1>3, <1>4, <2>1, <2>4 DEF OnPath
<1>11. CASE UNCHANGED vars
  <2>1. UNCHANGED <<rest, block, sub, index, pc, ppv>>
    BY <1>11 DEF vars
  <2>2. ASSUME NEW f, NEW R, Leads(f, R)'
        PROVE  /\ pc' \in {"segment", "search"} => R[Walked'] = block'
               /\ pc' = "search" => Searching(f, R)'
               /\ pc' = "done" => Returned(R)'
    <3>1. Leads(f, R)
      BY <1>2, <2>2
    <3>2. /\ pc \in {"segment", "search"} => R[Walked] = block
          /\ pc = "search" => Searching(f, R)
          /\ pc = "done" => Returned(R)
      BY <3>1 DEF OnPath
    <3>3. Searching(f, R)' <=> Searching(f, R)
      BY <1>1, <1>4, <2>1 DEF Searching, Passed, End, First, ValueAt, At
    <3>4. Returned(R)' <=> Returned(R)
      BY <1>1, <2>1 DEF Returned, Value, ValueAt, At
    <3> QED BY <1>4, <2>1, <3>2, <3>3, <3>4
  <2> QED BY <1>1, <1>3, <1>4, <2>1, <2>2 DEF OnPath
<1> QED BY <1>5, <1>6, <1>7, <1>8, <1>9, <1>10, <1>11 DEF Next, Walk

\* OnPath holds for PartsFrom and Reached in particular.
LEMMA Found == OnPath => FindsAddressed
<1> SUFFICES ASSUME OnPath, pc = "done"
             PROVE  ppv = IF Addressed = -1 THEN Failed ELSE Value(Addressed, ValueAt(Addressed))
  BY DEF FindsAddressed
<1>1. Len(path) \in Nat
  BY DEF OnPath
<1>2. PICK f : Leads(f, Reached)
  BY <1>1, LeadsExists
<1>3. Returned(Reached)
  BY <1>2 DEF OnPath
<1> QED BY <1>3 DEF Returned, Addressed

\* The value returned is the one of the block the path addresses, and there is none
\* exactly when the path addresses no block (GetModuleVersionInfo): for every resource,
\* blocks of any lengths included, and every path.
THEOREM AddressedFound == Spec => []FindsAddressed
<1>1. Init => Inside /\ OnPath
  BY InsideInit, OnPathInit
<1>2. (Inside /\ OnPath) /\ [Next]_vars => (Inside /\ OnPath)'
  BY InsideStep, OnPathStep
<1>3. Inside /\ OnPath => FindsAddressed
  BY Found
<1> QED BY <1>1, <1>2, <1>3, PTL DEF Spec
=============================================================================
