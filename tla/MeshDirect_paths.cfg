SPECIFICATION Spec
CONSTANT Instances <- MCInstances
INVARIANTS DirectSafe Converged DedupIsHarmless
PROPERTY PunchingSpends
CHECK_DEADLOCK FALSE
