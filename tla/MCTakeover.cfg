\* Requests fail or land late, processes stop, another takes over.
SPECIFICATION Spec
SYMMETRY Symmetry
VIEW StateView
\* A bounded run ends; the candidates themselves never do.
CHECK_DEADLOCK FALSE
CONSTANTS
  NoHolder = NoHolder
  Node = {a, b}
  MsUnit = 1
  TTL = 2
  Margin = 0
  RenewEvery = 1
  PollEvery = 1
  ForeignValues = {}
  MaxSkew = 0
  FetchLag = 0
  CompactionLag = 1
  Faults = {"delivery", "stop"}
  MaxTime = 4
  MaxLog = 3
INVARIANTS TypeOK MutualExclusion BeliefBackedByLog FencingToken BeliefMatchesView OneRequestInFlight InFlightAhead ReleasedNotHolding
PROPERTIES TermsEndRightly ImplementsLease
