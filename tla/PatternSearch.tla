---------------------------- MODULE PatternSearch ----------------------------
(***************************************************************************)
(* How the plugin finds a client function: compile_pattern turns the text  *)
(* of a byte pattern into values and masks, and pattern_searcher looks for *)
(* them in the client's code section (deps/searchers.h).  A byte is a pair *)
(* of nibbles, indexed by the shift that leads to them: 4 is the high one. *)
(***************************************************************************)
EXTENDS Naturals, FiniteSets, Sequences, SequencesExt, FiniteSetsExt

CONSTANTS
  Patterns,    \* texts of patterns: sequences of digits, Wildcard and Separator
  Sections,    \* contents of a code section: sequences of bytes
  Wildcard,    \* '?' or '.'
  Separator    \* any other character that is not a hexadecimal digit

Nibble == 0 .. 15
Shifts == {4, 0}
Byte   == [Shifts -> Nibble]

ASSUME PatternsAssumption == Patterns \subseteq Seq(Nibble \union {Wildcard, Separator})
ASSUME SectionsAssumption == Sections \subseteq Seq(Byte)
ASSUME CharsAssumption == {Wildcard, Separator} \intersect Nibble = {} /\ Wildcard # Separator

VARIABLES
  pattern,   \* the pattern as it was given
  data,      \* the code section
  text,      \* characters not read yet
  b, shift,  \* the byte being put together, and its next nibble
  cp,        \* the compiled pattern
  found      \* the range found, by offsets, or Nowhere while the search is on

vars == <<pattern, data, text, b, shift, cp, found>>

Nowhere == <<>>

\* patternbyte: nibbles, and which of them count.
Clear == [value |-> [s \in Shifts |-> 0], mask |-> [s \in Shifts |-> 15]]

Init ==
  /\ pattern \in Patterns /\ data \in Sections
  /\ text = pattern
  /\ b = Clear /\ shift = 4
  /\ cp = <<>>
  /\ found = Nowhere

-----------------------------------------------------------------------------
(* compile_pattern *)

\* Mutant: the mask of the byte before is kept.
KeepMask == [Clear EXCEPT !.mask = b.mask]

NextByte == Clear

\* The nibble is in: after a low one the byte is done.
Take(byte) ==
  /\ text' = Tail(text)
  /\ shift' = 4 - shift
  /\ IF shift = 0
     THEN cp' = Append(cp, byte) /\ b' = NextByte
     ELSE b' = byte /\ UNCHANGED cp
  /\ UNCHANGED <<pattern, data, found>>

ReadWildcard ==
  /\ text # <<>> /\ Head(text) = Wildcard
  /\ Take([b EXCEPT !.mask[shift] = 0])

\* The nibble is or-ed to a cleared one.
ReadDigit ==
  /\ text # <<>> /\ Head(text) \in Nibble
  /\ Take([b EXCEPT !.value[shift] = Head(text)])

ReadSeparator ==
  /\ text # <<>> /\ Head(text) = Separator
  /\ text' = Tail(text)
  /\ UNCHANGED <<pattern, data, b, shift, cp, found>>

\* b.mask &= 0xf: of a byte with a high nibble only, the low one counts, which was
\* never given.  No pattern of the plugin ends in the middle of a byte.
HighOnly == [b EXCEPT !.mask[4] = 0]

-----------------------------------------------------------------------------
(* pattern_searcher *)

\* operator==
Equal(byte, d) == \A s \in Shifts : byte.mask[s] # 0 => byte.value[s] = d[s]

\* Where std::search finds the bytes of p: offsets from the first byte of data.
Hits(p) == {i \in 0 .. Len(data) - Len(p) : \A j \in 1 .. Len(p) : Equal(p[j], data[i + j])}

\* Mutant: a search that reaches the end is taken for a hit there.
RangeUnchecked(p) ==
  LET it == IF Hits(p) = {} THEN Len(data) ELSE Min(Hits(p)) IN <<it, it + Len(p)>>

FoundRange(p) ==
  IF data = <<>> \/ Hits(p) = {} THEN <<Len(data), Len(data)>>
  ELSE <<Min(Hits(p)), Min(Hits(p)) + Len(p)>>

Search ==
  /\ text = <<>> /\ found = Nowhere
  /\ cp' = IF shift = 0 THEN Append(cp, HighOnly) ELSE cp
  /\ found' = FoundRange(cp')
  /\ UNCHANGED <<pattern, data, text, b, shift>>

Next == ReadWildcard \/ ReadDigit \/ ReadSeparator \/ Search

Spec == Init /\ [][Next]_vars
-----------------------------------------------------------------------------
(* Properties. *)

\* What a pattern means, from its text: its nibbles in order, whatever separates
\* them, occur in the section from byte i on.  Ordinal(p, n) nibbles are given by
\* the first n characters of p.
Ordinal(p, n) == Cardinality({m \in 1 .. n : p[m] # Separator})
DataNibble(i, k) == data[i + (k + 1) \div 2][IF k % 2 = 1 THEN 4 ELSE 0]
OccursAt(i) ==
  \A n \in DOMAIN pattern : pattern[n] # Separator =>
    pattern[n] \in {Wildcard, DataNibble(i, Ordinal(pattern, n))}

\* A pattern of whole bytes is found at its first occurrence, the range is as long
\* as the pattern, and a pattern that does not occur gives the end of the section.
FindsFirstOccurrence ==
  LET nibbles == Ordinal(pattern, Len(pattern))
      size    == nibbles \div 2
      places  == {i \in 0 .. Len(data) - size : OccursAt(i)}
      first   == Min(places)
  IN  (found # Nowhere /\ nibbles % 2 = 0) =>
        found = IF places = {} THEN <<Len(data), Len(data)>> ELSE <<first, first + size>>

\* Whatever the pattern, the range found lies inside the section.
RangeInsideSection ==
  found # Nowhere => found[1] <= found[2] /\ found[2] <= Len(data)
=============================================================================
