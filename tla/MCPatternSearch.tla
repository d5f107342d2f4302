--------------------------- MODULE MCPatternSearch ---------------------------
(* Small instances of PatternSearch for TLC. *)
EXTENDS PatternSearch

\* Every pattern of up to five characters over two digits, and every section of
\* up to three bytes over three bytes that differ in one nibble or in both.
MCPatterns == BoundedSeq({0, 10, Wildcard, Separator}, 5)
TwoNibbles(high, low) == [s \in Shifts |-> IF s = 4 THEN high ELSE low]
MCSections == BoundedSeq({TwoNibbles(0, 0), TwoNibbles(0, 10), TwoNibbles(10, 10)}, 3)
=============================================================================
