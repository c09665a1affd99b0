SPECIFICATION Spec
INVARIANTS AlertsAreTrue
PROPERTIES NoticesAreTrue ProgressIsExact IncidentsAreReal
           IncidentsToldOnce
CHECK_DEADLOCK FALSE
