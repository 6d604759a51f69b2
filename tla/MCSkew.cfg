\* Leaders whose clocks differ, and a TTL of which the wire truncates a fraction: as
\* much as the margin covers.
SPECIFICATION Spec
SYMMETRY Symmetry
VIEW StateView
\* A bounded run ends; the candidates themselves never do.
CHECK_DEADLOCK FALSE
CONSTANTS
  NoHolder = NoHolder
  Node = {a, b}
  MsUnit = 3
  TTL = 4
  Margin = 2
  RenewEvery = 1
  PollEvery = 1
  ForeignValues = {}
  MaxSkew = 1
  FetchLag = 0
  CompactionLag = 1
  Faults = {}
  MaxTime = 3
  MaxLog = 3
INVARIANTS MutualExclusion BeliefBackedByLog
