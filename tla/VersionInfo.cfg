\* Every path in every bounded resource, well formed or not; the walk ends.
SPECIFICATION Spec
CONSTANTS
  KeyBytes <- MCKeyBytes
  Resources <- MCResources
  Paths <- MCPaths
INVARIANTS StaysInResource FindsAddressed
PROPERTIES WalkEnds
CHECK_DEADLOCK FALSE
