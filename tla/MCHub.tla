-------------------------------- MODULE MCHub --------------------------------
(***************************************************************************)
(* The hub's own procedures: registering a project (Onboarding), changing  *)
(* it (ProjectEditing), connecting a session (SessionConnect), draining a  *)
(* worker (WorkerDrain) and the maintenance window (Maintenance). The      *)
(* components share no state here, so a behaviour picks one instance,      *)
(* "part", runs that one and leaves the variables of every other component *)
(* at Off: what holds of this module holds of each instance, and the other *)
(* way round.                                                              *)
(***************************************************************************)
EXTENDS Integers, Sequences, FiniteSets

CONSTANTS
    Onboardings,    \* the constants of each instance of Onboarding
    Editings,       \* the constants of each instance of ProjectEditing
    Connects,       \* the constants of each instance of SessionConnect
    Drains,         \* the constants of each instance of WorkerDrain
    Windows         \* the constants of each instance of Maintenance

VARIABLES part, nth    \* what this behaviour runs: a component, and which instance of it
VARIABLES wf, bindings, registry, note, obWorker, net, groups, cfg, obFaults    \* Onboarding
VARIABLES edit, reg, bind, scope, edWork, edControl, joining, proc, cache, lock,
          count    \* ProjectEditing
VARIABLES flow, out, ses, scWork, used, topics, code, scWorker, sender, admin,
          making, inbox, given, perm, clock, scFaults    \* SessionConnect
VARIABLES inc, wdPc, active, tracked, draining, stop, sock, retired, fallback,
          endpoint, path, req, told, cycles, wdFaults    \* WorkerDrain
VARIABLES up, was, initial, mwPc, stopped, queue, result, started, at, trouble    \* Maintenance

-----------------------------------------------------------------------------
\* The components, for every value of their constants.
Onb(i) == INSTANCE Onboarding WITH
    Owners <- Onboardings[i].Owners, Projects <- Onboardings[i].Projects,
    MaxWorkflows <- Onboardings[i].MaxWorkflows,
    MaxFaults <- Onboardings[i].MaxFaults,
    MaxEdits <- Onboardings[i].MaxEdits, Careful <- Onboardings[i].Careful,
    worker <- obWorker, faults <- obFaults
Edit(i) == INSTANCE ProjectEditing WITH
    Procs <- Editings[i].Procs, Owners <- Editings[i].Owners,
    Projects <- Editings[i].Projects, Names <- Editings[i].Names,
    Roots <- Editings[i].Roots, NewGroups <- Editings[i].NewGroups, MaxEdits <- Editings[i].MaxEdits,
    MaxWork <- Editings[i].MaxWork, MaxCrashes <- Editings[i].MaxCrashes,
    work <- edWork, control <- edControl
Con(i) == INSTANCE SessionConnect WITH
    Topics <- Connects[i].Topics, Threads <- Connects[i].Threads,
    Workers <- Connects[i].Workers, Codes <- Connects[i].Codes,
    Existing <- Connects[i].Existing, Blocked <- Connects[i].Blocked,
    MaxFlows <- Connects[i].MaxFlows, MaxSessions <- Connects[i].MaxSessions,
    MaxMessages <- Connects[i].MaxMessages,
    MaxAttempts <- Connects[i].MaxAttempts,
    MaxFaults <- Connects[i].MaxFaults, work <- scWork, worker <- scWorker,
    faults <- scFaults
Drain(i) == INSTANCE WorkerDrain WITH
    Requesters <- Drains[i].Requesters, MaxInc <- Drains[i].MaxInc,
    MaxCycles <- Drains[i].MaxCycles, MaxFaults <- Drains[i].MaxFaults,
    pc <- wdPc, faults <- wdFaults
Win(i) == INSTANCE Maintenance WITH
    Units <- Windows[i].Units, Admission <- Windows[i].Admission,
    MaxTrouble <- Windows[i].MaxTrouble, pc <- mwPc

ASSUME InstancesAllowed ==
    /\ \A i \in DOMAIN Onboardings : Onb(i)!OnboardingBounds
    /\ \A i \in DOMAIN Editings : Edit(i)!EditingBounds
    /\ \A i \in DOMAIN Connects : Con(i)!ConnectBounds
    /\ \A i \in DOMAIN Drains : Drain(i)!DrainBounds
    /\ \A i \in DOMAIN Windows : Win(i)!MaintenanceBounds

-----------------------------------------------------------------------------
\* What runs, and what stays idle.
Off == 0
OnboardingVars == <<wf, bindings, registry, note, obWorker, net, groups, cfg,
                    obFaults>>
ProjectEditingVars == <<edit, reg, bind, scope, edWork, edControl, joining,
                        proc, cache, lock, count>>
SessionConnectVars == <<flow, out, ses, scWork, used, topics, code, scWorker,
                        sender, admin, making, inbox, given, perm, clock,
                        scFaults>>
WorkerDrainVars == <<inc, wdPc, active, tracked, draining, stop, sock,
                     retired, fallback, endpoint, path, req, told, cycles,
                     wdFaults>>
MaintenanceVars == <<up, was, initial, mwPc, stopped, queue, result, started,
                     at, trouble>>
vars == <<part, nth, OnboardingVars, ProjectEditingVars, SessionConnectVars,
          WorkerDrainVars, MaintenanceVars>>

OnboardingOff == /\ wf = Off /\ bindings = Off /\ registry = Off
                 /\ note = Off /\ obWorker = Off /\ net = Off /\ groups = Off
                 /\ cfg = Off /\ obFaults = Off
ProjectEditingOff == /\ edit = Off /\ reg = Off /\ bind = Off /\ scope = Off
                     /\ edWork = Off /\ edControl = Off /\ joining = Off
                     /\ proc = Off /\ cache = Off /\ lock = Off /\ count = Off
SessionConnectOff == /\ flow = Off /\ out = Off /\ ses = Off /\ scWork = Off
                     /\ used = Off /\ topics = Off /\ code = Off
                     /\ scWorker = Off /\ sender = Off /\ admin = Off
                     /\ making = Off /\ inbox = Off /\ given = Off
                     /\ perm = Off /\ clock = Off /\ scFaults = Off
WorkerDrainOff == /\ inc = Off /\ wdPc = Off /\ active = Off /\ tracked = Off
                  /\ draining = Off /\ stop = Off /\ sock = Off
                  /\ retired = Off /\ fallback = Off /\ endpoint = Off
                  /\ path = Off /\ req = Off /\ told = Off /\ cycles = Off
                  /\ wdFaults = Off
MaintenanceOff == /\ up = Off /\ was = Off /\ initial = Off /\ mwPc = Off
                  /\ stopped = Off /\ queue = Off /\ result = Off
                  /\ started = Off /\ at = Off /\ trouble = Off

Runs(p, i) == part = p /\ nth = i

Parts ==
    \/ part = "onboarding" /\ nth \in DOMAIN Onboardings
    \/ part = "editing" /\ nth \in DOMAIN Editings
    \/ part = "connect" /\ nth \in DOMAIN Connects
    \/ part = "drain" /\ nth \in DOMAIN Drains
    \/ part = "window" /\ nth \in DOMAIN Windows

Init ==
    /\ Parts
    /\ \/ \E i \in DOMAIN Onboardings : Runs("onboarding", i) /\ Onb(i)!Init
       \/ part # "onboarding" /\ OnboardingOff
    /\ \/ \E i \in DOMAIN Editings : Runs("editing", i) /\ Edit(i)!Init
       \/ part # "editing" /\ ProjectEditingOff
    /\ \/ \E i \in DOMAIN Connects : Runs("connect", i) /\ Con(i)!Init
       \/ part # "connect" /\ SessionConnectOff
    /\ \/ \E i \in DOMAIN Drains : Runs("drain", i) /\ Drain(i)!Init
       \/ part # "drain" /\ WorkerDrainOff
    /\ \/ \E i \in DOMAIN Windows : Runs("window", i) /\ Win(i)!Init
       \/ part # "window" /\ MaintenanceOff

Next ==
    /\ UNCHANGED <<part, nth>>
    /\ \/ \E i \in DOMAIN Onboardings : Runs("onboarding", i) /\ Onb(i)!Next
       \/ part # "onboarding" /\ UNCHANGED OnboardingVars
    /\ \/ \E i \in DOMAIN Editings : Runs("editing", i) /\ Edit(i)!Next
       \/ part # "editing" /\ UNCHANGED ProjectEditingVars
    /\ \/ \E i \in DOMAIN Connects : Runs("connect", i) /\ Con(i)!Next
       \/ part # "connect" /\ UNCHANGED SessionConnectVars
    /\ \/ \E i \in DOMAIN Drains : Runs("drain", i) /\ Drain(i)!Next
       \/ part # "drain" /\ UNCHANGED WorkerDrainVars
    /\ \/ \E i \in DOMAIN Windows : Runs("window", i) /\ Win(i)!Next
       \/ part # "window" /\ UNCHANGED MaintenanceVars

Spec == Init /\ [][Next]_vars

-----------------------------------------------------------------------------
\* Properties.

\* Wherever the provisioner dies or its deadline passes, a workflow creates at
\* most one group, no created group is forgotten, a project is bound only to a
\* group that is fully configured, the owner is told how a workflow ended, and
\* two workflows never hold one project (project_onboarding.py,
\* project_provisioner.py).
GroupsAreAccounted ==
    \A i \in DOMAIN Onboardings : Runs("onboarding", i) =>
          /\ Onb(i)!TypeOK
          /\ Onb(i)!OneGroupPerWorkflow
          /\ Onb(i)!NoGroupIsForgotten
          /\ Onb(i)!BoundGroupIsReady
          /\ Onb(i)!OwnerIsTold
          /\ Onb(i)!ProjectsAreReserved

\* Whichever service processes apply, recover and serve: no two projects are
\* registered with one directory, an edit reported as completed was applied to
\* the registry, a project's topics and its group's binding move only together
\* and to the directory the registry names, and the registry itself is changed
\* only while the project has no unfinished work (project_editing.py).  That
\* the topics, too, move only then is refuted: run edits_work.
EditsAreWhole ==
    /\ [](\A i \in DOMAIN Editings : Runs("editing", i) =>
                Edit(i)!TypeOK /\ Edit(i)!RootsAreDistinct)
    /\ [][\A i \in DOMAIN Editings : Runs("editing", i) =>
                /\ Edit(i)!CompletedIsApplied
                /\ Edit(i)!MovesTogether
                /\ Edit(i)!FileMovesIdle]_vars

\* Connecting a session sends its marker once, starts no work of the archived
\* session and takes only input written after the marker, an ended workflow
\* changes nothing and an expired one is told, and neither a thread nor a code
\* is used twice (session_connect.py, session_adoption_state.py).
AttachIsExact ==
    /\ [](\A i \in DOMAIN Connects : Runs("connect", i) =>
                /\ Con(i)!TypeOK
                /\ Con(i)!NoWorkOfArchived
                /\ Con(i)!MarkerSentOnce
                /\ Con(i)!InputAfterMarker
                /\ Con(i)!ThreadBoundOnce
                /\ Con(i)!CodeUsedOnce)
    /\ [][\A i \in DOMAIN Connects : Runs("connect", i) =>
                Con(i)!EndedChangesNothing /\ Con(i)!ExpiryIsTold]_vars

\* A requester is told that a worker process is drained only when no operation,
\* thread or socket of that process is left, one request drains a process, and
\* its database is closed after its last user (worker_activity_barrier.py,
\* worker_control_socket.py).
DrainIsHonest ==
    \A i \in DOMAIN Drains : Runs("drain", i) =>
          /\ Drain(i)!TypeOK
          /\ Drain(i)!OneRequest
          /\ Drain(i)!CloseIsLast
          /\ Drain(i)!DrainAckIsTrue
          /\ Drain(i)!SocketAckIsTrue

\* The maintenance window starts a unit at most once and only one it stopped
\* itself, and lets work in only behind consumers that were all seen ready
\* (maintenance_window.py).
WindowIsOrderly ==
    /\ [](\A i \in DOMAIN Windows : Runs("window", i) =>
                Win(i)!TypeOK /\ Win(i)!StartsOnlyStopped)
    /\ [][\A i \in DOMAIN Windows : Runs("window", i) =>
                Win(i)!AdmissionLast]_vars

-----------------------------------------------------------------------------
\* The instances that are checked.

HubOnboardings ==
    <<[Owners |-> {"alice"}, Projects |-> {"p1", "p2"}, MaxWorkflows |-> 1,
       MaxFaults |-> 3, MaxEdits |-> 1, Careful |-> FALSE],
      [Owners |-> {"alice", "bob"}, Projects |-> {"p1"}, MaxWorkflows |-> 2,
       MaxFaults |-> 1, MaxEdits |-> 0, Careful |-> FALSE]>>
HubEditings ==
    <<[Procs |-> {"hub", "dm"}, Owners |-> {"alice"}, Projects |-> {"p1"},
       Names |-> {"n1", "n2"}, Roots |-> {"r1", "r2"},
       NewGroups |-> {"p1"}, MaxEdits |-> 2, MaxWork |-> 1, MaxCrashes |-> 1],
      [Procs |-> {"hub", "dm"}, Owners |-> {"alice", "bob"},
       Projects |-> {"p1", "p2"}, Names |-> {"n1"},
       Roots |-> {"r1", "r2", "r3"}, NewGroups |-> {}, MaxEdits |-> 2,
       MaxWork |-> 0, MaxCrashes |-> 0]>>
HubConnects ==
    <<[Topics |-> {"t1"}, Threads |-> {"th1"}, Workers |-> {"x"}, Codes |-> {},
       Existing |-> {"t1"}, Blocked |-> {}, MaxFlows |-> 1,
       MaxSessions |-> 3, MaxMessages |-> 2, MaxAttempts |-> 2,
       MaxFaults |-> 1],
      [Topics |-> {"t1", "t2"}, Threads |-> {"th1"}, Workers |-> {"x"},
       Codes |-> {"c"}, Existing |-> {"t1"}, Blocked |-> {},
       MaxFlows |-> 2, MaxSessions |-> 1, MaxMessages |-> 0,
       MaxAttempts |-> 1, MaxFaults |-> 0]>>
HubDrains ==
    <<[Requesters |-> {"r1", "r2"}, MaxInc |-> 1, MaxCycles |-> 1,
       MaxFaults |-> 1],
      [Requesters |-> {"r1"}, MaxInc |-> 2, MaxCycles |-> 1, MaxFaults |-> 1]>>
HubWindows ==
    <<[Units |-> {"ingress", "codex", "sender"}, Admission |-> {"ingress"},
       MaxTrouble |-> 3]>>
==============================================================================
