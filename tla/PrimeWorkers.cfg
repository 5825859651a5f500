CONSTANTS
    Workers = {w1, w2, w3}
    MaxCount = 10
SPECIFICATION Spec
INVARIANTS FoundOnce NothingMissed
CHECK_DEADLOCK FALSE
