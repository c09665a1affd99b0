SPECIFICATION Spec
CONSTANTS Procs = {"hub", "dm"} Owners = {"o"} Projects = {"p"} Names = {"n"} Roots = {"r1", "r2"}
CONSTANTS NewGroups = {} MaxEdits = 1 MaxWork = 1 MaxCrashes = 1
PROPERTY WorkBlocksRelocation
CHECK_DEADLOCK FALSE
