SPECIFICATION MessagesSpec
CONSTANTS
    MaxJobs = 1
    MaxParts = 3
    MaxTokens = 5
    AttemptLimit = 2
    Topics = {t1}
    t1 = t1
    TopicOf <- MCTopicOf
    Senders = {s1, s2}
SYMMETRY MCSymmetry
INVARIANTS PartsOnceInOrder DeliveredIsShown AdmissionIsExact RetriedOnce
PROPERTIES DispositionIsFinal DeliverySpec EvidenceIsSound FilesAreAccounted
           SharesAreFair
CHECK_DEADLOCK FALSE
