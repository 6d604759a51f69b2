\* One process with a stream and Watch, from start to exit.
SPECIFICATION ProcSpec
CONSTANTS
  Stream = {s1}
  Request = {}
  MaxChanges = 2
INVARIANTS LeavesReleased CleanExit
PROPERTIES StreamFollows Terminates
