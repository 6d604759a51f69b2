\* Two clusters, three terms, status answers and records of any age.
SPECIFICATION Spec
\* A bounded run ends; the workloads themselves never do.
CHECK_DEADLOCK FALSE
CONSTANTS
  Node = {a, b}
  NoHolder = NoHolder
  MaxEpoch = 2
  MaxTime = 2
  MaxBeats = 4
INVARIANTS FencedHandover ReportMatches
