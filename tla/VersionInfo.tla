----------------------------- MODULE VersionInfo -----------------------------
(***************************************************************************)
(* GetModuleVersionInfo (versioninfo.c): the walk of a version resource, a *)
(* tree of blocks laid out one behind the other, along a path of names,    *)
(* '*' (the first block) and '#n' (the block with index n).  The resource  *)
(* may hold anything.  Offsets are bytes from the head of the resource.    *)
(***************************************************************************)
EXTENDS Integers, Sequences, SequencesExt, FiniteSetsExt

CONSTANTS
  Resources,   \* resources: their size, and the block read at each offset, also behind it
  Paths,       \* paths: <<"*">>, <<"#", n>> (n < 0: not a number) and <<name>>
  KeyBytes     \* bytes of each key, without its terminator

sizeofVERBLOCK == 8
sizeofVERHEAD  == 92
offsetofVsf    == 40
MAXSHORT       == 32767

Keys == DOMAIN KeyBytes
Block == [wTotLen : Nat, wValLen : Nat, szKey : Keys]
Segments == {<<"*">>} \union ({"#"} \X Int) \union {<<k>> : k \in Keys \ {"*", "#"}}

ASSUME KeysAssumption == \A k \in Keys : KeyBytes[k] \in Nat
ASSUME PathsAssumption == Paths \subseteq Seq(Segments)

\* Where a walk that starts behind the head, aligned as it is, may find a block.
Places(r) == {0} \union {o \in sizeofVERHEAD .. r.size - sizeofVERBLOCK : o % 4 = 0}

ASSUME ResourcesAssumption ==
  \A r \in Resources : r.size \in Nat /\ Places(r) \subseteq DOMAIN r.at
                       /\ \A o \in DOMAIN r.at : r.at[o] \in Block

VARIABLES
  resource, path,     \* the arguments
  rest,               \* the segments of the path not walked yet
  block,              \* the block reached, an offset
  sub,                \* the block looked at
  off, len,           \* where the value of the last block looked at starts and ends
  index,              \* blocks to pass before the one wanted; negative: search by name
  pc,
  ppv,                \* what is returned: -1, or where the value starts and its length
  reach               \* history: the last byte of the resource that was read

vars == <<resource, path, rest, block, sub, off, len, index, pc, ppv, reach>>

Failed == [at |-> -1, length |-> -1]

DWORDUP(n) == ((n + 3) \div 4) * 4
At(o)      == resource.at[o]
ValueAt(o) == DWORDUP(sizeofVERBLOCK + KeyBytes[At(o).szKey])
End(o)     == o + At(o).wTotLen

\* StringCbLengthW finds the end of the key inside the block.
KeyFits(o) == sizeofVERBLOCK + KeyBytes[At(o).szKey] <= At(o).wTotLen

Init ==
  /\ resource \in Resources /\ path \in Paths
  /\ rest = path
  /\ block = 0 /\ sub = 0 /\ off = 0 /\ len = 0 /\ index = -1
  /\ pc = "head"
  /\ ppv = Failed
  /\ reach = 0

-----------------------------------------------------------------------------
HeadIsValid ==
  /\ At(0).wTotLen \in sizeofVERHEAD .. resource.size /\ At(0).wTotLen <= MAXSHORT
  /\ At(0).wValLen = sizeofVERHEAD - offsetofVsf
  /\ KeyFits(0) /\ ValueAt(0) = offsetofVsf
  /\ offsetofVsf + At(0).wValLen <= At(0).wTotLen

\* The module may have no such resource, or one of another type or signature.
CheckHead ==
  /\ pc = "head"
  /\ \/ pc' = "error" /\ UNCHANGED <<off, len, reach>>
     \/ /\ HeadIsValid
        /\ pc' = "segment"
        /\ off' = offsetofVsf /\ len' = offsetofVsf + At(0).wValLen
        /\ reach' = sizeofVERHEAD
  /\ UNCHANGED <<resource, path, rest, block, sub, index, ppv>>

IndexOf(segment) == CASE segment[1] = "*" -> 0
                      [] segment[1] = "#" -> segment[2]
                      [] OTHER -> -1

StartSegment ==
  /\ pc = "segment" /\ rest # <<>>
  /\ sub' = block + DWORDUP(len)
  /\ index' = IndexOf(Head(rest))
  /\ pc' = "search"
  /\ UNCHANGED <<resource, path, rest, block, off, len, ppv, reach>>

\* The conditions of the loop, in their order.  end - o is unsigned: below zero
\* UIntPtrSub fails.  Mutant: the first of them is forgotten.
AnyRoom(o, end) == TRUE

HasHeader(o, end) == end - o >= sizeofVERBLOCK

HasBlock(o, end) == At(o).wTotLen \in sizeofVERBLOCK .. end - o

ValueFits(o) == ValueAt(o) + At(o).wValLen <= At(o).wTotLen

Fits(o, end) == HasHeader(o, end) /\ HasBlock(o, end) /\ KeyFits(o) /\ ValueFits(o)

\* What testing them reads: the header, and then the key, within the block.
ReadTo(o, end) == IF ~HasHeader(o, end) THEN 0
                  ELSE IF HasBlock(o, end) THEN End(o) ELSE o + sizeofVERBLOCK

\* Mutant: the block before the one wanted is taken.
IsWantedEarly == IF index >= 0 THEN index <= 1 ELSE Head(rest) = <<At(sub).szKey>>

IsWanted == IF index >= 0 THEN index = 0 ELSE Head(rest) = <<At(sub).szKey>>

\* Mutant: the walk goes on behind the value.
BehindValue == sub + DWORDUP(At(sub).wValLen)

Sibling == sub + DWORDUP(At(sub).wTotLen)

LookAtSub ==
  /\ pc = "search" /\ Fits(sub, End(block))
  /\ off' = ValueAt(sub) /\ len' = off' + At(sub).wValLen
  /\ reach' = Max({reach, ReadTo(sub, End(block))})
  /\ \/ /\ IsWanted
        /\ block' = sub /\ rest' = Tail(rest) /\ pc' = "segment"
        /\ UNCHANGED <<sub, index>>
     \/ /\ ~IsWanted
        /\ sub' = Sibling /\ index' = IF index > 0 THEN index - 1 ELSE index
        /\ UNCHANGED <<block, rest, pc>>
  /\ UNCHANGED <<resource, path, ppv>>

NoneLeft ==
  /\ pc = "search" /\ ~Fits(sub, End(block))
  /\ pc' = "done"
  /\ reach' = Max({reach, ReadTo(sub, End(block))})
  /\ UNCHANGED <<resource, path, rest, block, sub, off, len, index, ppv>>

\* CompareStringEx fails.
CompareFails ==
  /\ pc = "search" /\ Fits(sub, End(block)) /\ index < 0
  /\ pc' = "error"
  /\ UNCHANGED <<resource, path, rest, block, sub, off, len, index, ppv, reach>>

\* The value, or the empty string at the end of the key when there is none.
Value(o, start) ==
  [at |-> IF start < At(o).wTotLen THEN o + start
          ELSE o + sizeofVERBLOCK - 2 + KeyBytes[At(o).szKey],
   length |-> At(o).wValLen]

Return ==
  /\ pc = "segment" /\ rest = <<>>
  /\ ppv' = Value(block, off)
  /\ pc' = "done"
  /\ UNCHANGED <<resource, path, rest, block, sub, off, len, index, reach>>

Walk == CheckHead \/ StartSegment \/ LookAtSub \/ NoneLeft \/ Return
Next == Walk \/ CompareFails

Spec == Init /\ [][Next]_vars /\ WF_vars(Walk)
-----------------------------------------------------------------------------
(* Properties. *)

\* Whatever the resource holds, nothing behind its end is read, and the value that
\* is returned, its length taken for bytes as the code does, lies in it.
StaysInResource ==
  /\ reach <= resource.size
  /\ ppv # Failed => ppv.at + ppv.length <= resource.size

\* What a path means: the blocks of a parent, in order, and the first that the
\* segment names, level by level.
First(parent) == parent + DWORDUP(ValueAt(parent) + At(parent).wValLen)

PartsFrom(end) ==
  LET from[o \in Nat] == IF Fits(o, end) THEN <<o>> \o from[o + DWORDUP(At(o).wTotLen)] ELSE <<>>
  IN  from
Parts(parent) == PartsFrom(End(parent))[First(parent)]

Hits(parts, segment) ==
  {i \in DOMAIN parts : IF IndexOf(segment) >= 0 THEN i = IndexOf(segment) + 1
                        ELSE segment = <<At(parts[i]).szKey>>}
Named(parts, segment) ==
  IF Hits(parts, segment) = {} THEN -1 ELSE parts[Min(Hits(parts, segment))]

Reached ==
  LET to[i \in 0 .. Len(path)] == IF i = 0 THEN 0 ELSE IF to[i - 1] = -1 THEN -1
                                 ELSE Named(Parts(to[i - 1]), path[i])
  IN  to
Addressed == Reached[Len(path)]

\* The value returned is the one of the block the path addresses, and there is none
\* exactly when the path addresses no block: no length, offset or index of one
\* level is left over at the next.
FindsAddressed ==
  pc = "done" => ppv = IF Addressed = -1 THEN Failed ELSE Value(Addressed, ValueAt(Addressed))

\* The walk ends, whatever lengths the resource holds.
WalkEnds == <>(pc \in {"done", "error"})
=============================================================================
