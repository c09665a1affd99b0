SPECIFICATION FairSpec
CONSTANTS t1 = t1 t2 = t2 th1 = th1 th2 = th2
CONSTANTS Topics = {t1} Threads = {th1} Workers = {"x"} Codes = {} Existing = {t1} Blocked = {t1}
CONSTANTS MaxFlows = 2 MaxSessions = 2 MaxMessages = 0 MaxAttempts = 1 MaxFaults = 0
PROPERTY PreparedIsDelivered
CHECK_DEADLOCK FALSE
