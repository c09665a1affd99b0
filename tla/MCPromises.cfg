SPECIFICATION FairSpec
PROPERTIES TurnsEnd WorkIsServed
CHECK_DEADLOCK FALSE
