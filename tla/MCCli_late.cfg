SPECIFICATION Spec
CONSTANTS MaxTurns = 2 WatchesLog = FALSE LateJoin = TRUE
INVARIANT InterruptIsOfTurn
CHECK_DEADLOCK FALSE
