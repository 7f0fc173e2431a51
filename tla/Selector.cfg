CONSTANTS
    Callers = {c1, c2}
    MaxServers = 3
    Metas = {NoWeight, 0, 2}
    Rtts = {0, 199, 201, 1000}
    MaxSelects = 6
    MaxRaced = 3
    MaxUpdates = 1
    NoWeight = NoWeight
SPECIFICATION Spec
INVARIANTS  RoundRobinTurns WeightedShare
PROPERTIES KeyMovesIfItMust
CHECK_DEADLOCK FALSE
