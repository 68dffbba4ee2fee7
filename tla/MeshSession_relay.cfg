SPECIFICATION Spec
CONSTANTS
  LateStart = TRUE
  TagCollisions = TRUE
  MaxSends = 2
  MaxRestarts = 1
INVARIANTS InOrder SameSession NothingStranded RestartedIsAnswered
CHECK_DEADLOCK FALSE
