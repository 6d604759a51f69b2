\* A status request notes a transition while Watch does.
SPECIFICATION Spec
CONSTANTS
  Stream = {}
  Request = {r1}
  MaxChanges = 3
INVARIANT TransitionsReal
