SPECIFICATION Spec
CONSTANT MaxTasks = 4
INVARIANTS TypeOK OnlyTheLatestSleeps
PROPERTY ImplementsOneShot
CHECK_DEADLOCK FALSE
