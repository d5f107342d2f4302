\* Bounded patterns and sections; the search ends.
SPECIFICATION Spec
CONSTANTS
  Wildcard = Wildcard
  Separator = Separator
  Patterns <- MCPatterns
  Sections <- MCSections
INVARIANTS FindsFirstOccurrence RangeInsideSection
CHECK_DEADLOCK FALSE
