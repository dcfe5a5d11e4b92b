\* One batch run: the timeout leaves the container running.
SPECIFICATION Spec
CONSTANTS
  Runs = {p1}
  Ids = {i1}
  NoId = NoId
INVARIANTS
  NoRunawayJob
CHECK_DEADLOCK FALSE
