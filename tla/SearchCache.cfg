SPECIFICATION Spec
CONSTANTS
  Runs = {r1, r2}
  Releases = {"old", "new"}
  Sessions = {"session"}
  Docs = {"a", "b"}
  MaxEdits = 3
INVARIANTS
  IndexIsCurrent
  OwnReleaseUnlessMixed
CHECK_DEADLOCK FALSE
