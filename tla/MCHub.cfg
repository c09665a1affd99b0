SPECIFICATION Spec
CONSTANTS
    Onboardings <- HubOnboardings
    Editings <- HubEditings
    Connects <- HubConnects
    Drains <- HubDrains
    Windows <- HubWindows
INVARIANTS GroupsAreAccounted DrainIsHonest
PROPERTIES  AttachIsExact WindowIsOrderly
CHECK_DEADLOCK FALSE
