------------------------------- MODULE MCWatch -------------------------------
(***************************************************************************)
(* What the owner is told of work and of the installation: notices of      *)
(* waiting jobs (TaskNotices), progress messages (ProgressDelivery), the   *)
(* incident journal (IncidentMonitor), its notices (IncidentNotices) and   *)
(* the health of the processes (RuntimeHealth). The components share no    *)
(* state here, so a behaviour picks one instance, "part", runs that one and*)
(* leaves the variables of every other component at Off: what holds of this*)
(* module holds of each instance, and the other way round.                 *)
(***************************************************************************)
EXTENDS Naturals, Sequences, FiniteSets

VARIABLE part    \* the instance that this behaviour runs
VARIABLES tnJob, outsider, tnRow, log, tnProc, arrived, begun, tnFaults    \* TaskNotices
VARIABLES pgJob, pgTold, pgRow, recent, attempts, receipts, disposed, sender,
          pgChat, pgFaults    \* ProgressDelivery
VARIABLES bad, hidden, gateway, clock, journal, seed, moLock, claims, repair,
          health, event, moProc, moFaults, moTold, well, restarts    \* IncidentMonitor
VARIABLES episode, file, cursor, ixLock, gate, retired, flaps, ixFaults,
          ixChat, ixTold, history, burst    \* IncidentNotices
VARIABLES heProc, heRow, want, approvals, hist, born    \* RuntimeHealth

\* The worst impact is 4; key 9 is the monitor's own health.
Impacts == [k \in {1, 9} |-> 3]
MixedImpacts == [k \in {1, 2, 3, 9} |-> IF k = 1 THEN 4 ELSE IF k = 2 THEN 2 ELSE 3]

-----------------------------------------------------------------------------
\* The instances.
Sends == INSTANCE TaskNotices WITH
    Jobs <- {1}, Topics <- {1},
    TopicOf <- [j \in {1} |-> IF j <= 2 THEN 1 ELSE 2], Senders <- {1},
    MaxAttempts <- 1, MaxSends <- 1, MaxFaults <- 1, job <- tnJob,
    row <- tnRow, proc <- tnProc, faults <- tnFaults
Overlap == INSTANCE TaskNotices WITH
    Jobs <- {1}, Topics <- {1},
    TopicOf <- [j \in {1} |-> IF j <= 2 THEN 1 ELSE 2], Senders <- {1, 2},
    MaxAttempts <- 1, MaxSends <- 1, MaxFaults <- 0, job <- tnJob,
    row <- tnRow, proc <- tnProc, faults <- tnFaults
Retries == INSTANCE TaskNotices WITH
    Jobs <- {1}, Topics <- {1},
    TopicOf <- [j \in {1} |-> IF j <= 2 THEN 1 ELSE 2], Senders <- {1},
    MaxAttempts <- 2, MaxSends <- 2, MaxFaults <- 0, job <- tnJob,
    row <- tnRow, proc <- tnProc, faults <- tnFaults
OneTopic == INSTANCE TaskNotices WITH
    Jobs <- {1, 2}, Topics <- {1},
    TopicOf <- [j \in {1, 2} |-> IF j <= 2 THEN 1 ELSE 2], Senders <- {},
    MaxAttempts <- 1, MaxSends <- 1, MaxFaults <- 1, job <- tnJob,
    row <- tnRow, proc <- tnProc, faults <- tnFaults
Topics == INSTANCE TaskNotices WITH
    Jobs <- {1, 3}, Topics <- {1, 2},
    TopicOf <- [j \in {1, 3} |-> IF j <= 2 THEN 1 ELSE 2], Senders <- {},
    MaxAttempts <- 1, MaxSends <- 1, MaxFaults <- 1, job <- tnJob,
    row <- tnRow, proc <- tnProc, faults <- tnFaults
TwoSenders == INSTANCE ProgressDelivery WITH
    Senders <- {"s1", "s2"}, Jobs <- {"j1"}, Items <- <<"j1">>,
    MaxAttempts <- 2, MaxFaults <- 1, job <- pgJob, told <- pgTold,
    row <- pgRow, chat <- pgChat, faults <- pgFaults
TwoItems == INSTANCE ProgressDelivery WITH
    Senders <- {"s1"}, Jobs <- {"j1"}, Items <- <<"j1", "j1">>,
    MaxAttempts <- 2, MaxFaults <- 1, job <- pgJob, told <- pgTold,
    row <- pgRow, chat <- pgChat, faults <- pgFaults
Journal == INSTANCE IncidentMonitor WITH
    Procs <- {"timer"}, Notifiers <- {}, Repairers <- {}, Keys <- {1, 9},
    MonitorKey <- 9, Access <- {1}, Surface <- {}, Workers <- {},
    Impact <- Impacts, LockUsable <- TRUE, Mortal <- TRUE,
    LostReplies <- FALSE, MaxEpisodes <- 2, Retention <- 1, Threshold <- 2,
    MaxStreak <- 2, MaxClock <- 2, MaxFaults <- 1, lock <- moLock,
    proc <- moProc, faults <- moFaults, told <- moTold
Told == INSTANCE IncidentMonitor WITH
    Procs <- {"timer", "hand"}, Notifiers <- {"timer", "hand"},
    Repairers <- {"timer"}, Keys <- {1, 9}, MonitorKey <- 9, Access <- {1},
    Surface <- {}, Workers <- {}, Impact <- Impacts, LockUsable <- TRUE,
    Mortal <- TRUE, LostReplies <- FALSE, MaxEpisodes <- 1, Retention <- 0,
    Threshold <- 2, MaxStreak <- 2, MaxClock <- 1, MaxFaults <- 1,
    lock <- moLock, proc <- moProc, faults <- moFaults, told <- moTold
Repair == INSTANCE IncidentMonitor WITH
    Procs <- {"timer", "hand"}, Notifiers <- {},
    Repairers <- {"timer", "hand"}, Keys <- {1, 9}, MonitorKey <- 9,
    Access <- {}, Surface <- {}, Workers <- {}, Impact <- Impacts,
    LockUsable <- FALSE, Mortal <- TRUE, LostReplies <- FALSE,
    MaxEpisodes <- 1, Retention <- 0, Threshold <- 2, MaxStreak <- 2,
    MaxClock <- 1, MaxFaults <- 2, lock <- moLock, proc <- moProc,
    faults <- moFaults, told <- moTold
Bound == INSTANCE IncidentMonitor WITH
    Procs <- {"timer"}, Notifiers <- {}, Repairers <- {},
    Keys <- {1, 2, 3, 9}, MonitorKey <- 9, Access <- {}, Surface <- {1},
    Workers <- {2, 3}, Impact <- MixedImpacts, LockUsable <- TRUE,
    Mortal <- TRUE, LostReplies <- FALSE, MaxEpisodes <- 1, Retention <- 1,
    Threshold <- 2, MaxStreak <- 2, MaxClock <- 1, MaxFaults <- 1,
    lock <- moLock, proc <- moProc, faults <- moFaults, told <- moTold
Journaled == INSTANCE IncidentNotices WITH
    Gates <- {"g1"}, Ids <- {1}, Leaves <- TRUE,
    Past <- {"none", "open", "resolved"}, max_cards <- 1, MAX_DELIVERIES <- 2,
    MaxAttempts <- 1, MaxFlaps <- 1, MaxFaults <- 1, Retires <- TRUE,
    lock <- ixLock, faults <- ixFaults, chat <- ixChat, told <- ixTold
TwoGates == INSTANCE IncidentNotices WITH
    Gates <- {"g1", "g2"}, Ids <- {1}, Leaves <- FALSE, Past <- {"none"},
    max_cards <- 1, MAX_DELIVERIES <- 2, MaxAttempts <- 2, MaxFlaps <- 0,
    MaxFaults <- 1, Retires <- FALSE, lock <- ixLock, faults <- ixFaults,
    chat <- ixChat, told <- ixTold
Storm == INSTANCE IncidentNotices WITH
    Gates <- {"g1"}, Ids <- {1, 2}, Leaves <- FALSE, Past <- {"none"},
    max_cards <- 1, MAX_DELIVERIES <- 2, MaxAttempts <- 1, MaxFlaps <- 0,
    MaxFaults <- 1, Retires <- FALSE, lock <- ixLock, faults <- ixFaults,
    chat <- ixChat, told <- ixTold
Fleet == INSTANCE RuntimeHealth WITH
    Claude <- {"claude-1"}, Codex <- {}, Demand <- {}, Links <- {},
    Plain <- {"monitor"}, Releases <- {"r1", "r2", "tree"}, Dirty <- {"tree"},
    Runtimes <- {"claude", "codex"}, Limit <- 1, Threshold <- 1,
    proc <- heProc, row <- heRow
Executing == INSTANCE RuntimeHealth WITH
    Claude <- {"claude-1"}, Codex <- {}, Demand <- {"claude-1"}, Links <- {},
    Plain <- {}, Releases <- {"r1"}, Dirty <- {}, Runtimes <- {"claude"},
    Limit <- 3, Threshold <- 1, proc <- heProc, row <- heRow
SenderLinks == INSTANCE RuntimeHealth WITH
    Claude <- {}, Codex <- {"codex-1"}, Demand <- {}, Links <- {"sender"},
    Plain <- {}, Releases <- {"r1"}, Dirty <- {}, Runtimes <- {"codex"},
    Limit <- 1, Threshold <- 1, proc <- heProc, row <- heRow

\* Every instance is one that its component allows.
ASSUME InstancesAllowed ==
    /\ Sends!JobsAssumption /\ Sends!BoundsAssumption
    /\ Overlap!JobsAssumption /\ Overlap!BoundsAssumption
    /\ Retries!JobsAssumption /\ Retries!BoundsAssumption
    /\ OneTopic!JobsAssumption /\ OneTopic!BoundsAssumption
    /\ Topics!JobsAssumption /\ Topics!BoundsAssumption
    /\ TwoSenders!Bounds
    /\ TwoItems!Bounds
    /\ Journal!Bounds
    /\ Told!Bounds
    /\ Repair!Bounds
    /\ Bound!Bounds
    /\ Journaled!Bounds
    /\ TwoGates!Bounds
    /\ Storm!Bounds
    /\ Fleet!HealthTypes
    /\ Executing!HealthTypes
    /\ SenderLinks!HealthTypes

-----------------------------------------------------------------------------
\* What runs, and what stays idle.
Off == 0
TaskNoticesVars == <<tnJob, outsider, tnRow, log, tnProc, arrived, begun,
                     tnFaults>>
ProgressDeliveryVars == <<pgJob, pgTold, pgRow, recent, attempts, receipts,
                          disposed, sender, pgChat, pgFaults>>
IncidentMonitorVars == <<bad, hidden, gateway, clock, journal, seed, moLock,
                         claims, repair, health, event, moProc, moFaults,
                         moTold, well, restarts>>
IncidentNoticesVars == <<episode, file, cursor, ixLock, gate, retired, flaps,
                         ixFaults, ixChat, ixTold, history, burst>>
RuntimeHealthVars == <<heProc, heRow, want, approvals, hist, born>>
vars == <<part, TaskNoticesVars, ProgressDeliveryVars, IncidentMonitorVars,
          IncidentNoticesVars, RuntimeHealthVars>>

TaskNoticesOff == /\ tnJob = Off /\ outsider = Off /\ tnRow = Off
                  /\ log = Off /\ tnProc = Off /\ arrived = Off
                  /\ begun = Off /\ tnFaults = Off
ProgressDeliveryOff == /\ pgJob = Off /\ pgTold = Off /\ pgRow = Off
                       /\ recent = Off /\ attempts = Off /\ receipts = Off
                       /\ disposed = Off /\ sender = Off /\ pgChat = Off
                       /\ pgFaults = Off
IncidentMonitorOff == /\ bad = Off /\ hidden = Off /\ gateway = Off
                      /\ clock = Off /\ journal = Off /\ seed = Off
                      /\ moLock = Off /\ claims = Off /\ repair = Off
                      /\ health = Off /\ event = Off /\ moProc = Off
                      /\ moFaults = Off /\ moTold = Off /\ well = Off
                      /\ restarts = Off
IncidentNoticesOff == /\ episode = Off /\ file = Off /\ cursor = Off
                      /\ ixLock = Off /\ gate = Off /\ retired = Off
                      /\ flaps = Off /\ ixFaults = Off /\ ixChat = Off
                      /\ ixTold = Off /\ history = Off /\ burst = Off
RuntimeHealthOff == /\ heProc = Off /\ heRow = Off /\ want = Off
                    /\ approvals = Off /\ hist = Off /\ born = Off

Parts == {"sends", "overlap", "retries", "one topic", "topics", "two senders",
          "two items", "journal", "told", "repair", "bound", "journaled",
          "gates", "storm", "fleet", "executing", "links"}

Init ==
    /\ part \in Parts
    /\ CASE part = "sends" -> Sends!Init
         [] part = "overlap" -> Overlap!Init
         [] part = "retries" -> Retries!Init
         [] part = "one topic" -> OneTopic!Init
         [] part = "topics" -> Topics!Init
         [] OTHER -> TaskNoticesOff
    /\ CASE part = "two senders" -> TwoSenders!Init
         [] part = "two items" -> TwoItems!Init
         [] OTHER -> ProgressDeliveryOff
    /\ CASE part = "journal" -> Journal!Init
         [] part = "told" -> Told!Init
         [] part = "repair" -> Repair!Init
         [] part = "bound" -> Bound!Init
         [] OTHER -> IncidentMonitorOff
    /\ CASE part = "journaled" -> Journaled!Init
         [] part = "gates" -> TwoGates!Init
         [] part = "storm" -> Storm!Init
         [] OTHER -> IncidentNoticesOff
    /\ CASE part = "fleet" -> Fleet!Init
         [] part = "executing" -> Executing!Init
         [] part = "links" -> SenderLinks!Init
         [] OTHER -> RuntimeHealthOff

Next ==
    /\ part' = part
    /\ CASE part = "sends" -> Sends!Next
         [] part = "overlap" -> Overlap!Next
         [] part = "retries" -> Retries!Next
         [] part = "one topic" -> OneTopic!Next
         [] part = "topics" -> Topics!Next
         [] OTHER -> UNCHANGED TaskNoticesVars
    /\ CASE part = "two senders" -> TwoSenders!Next
         [] part = "two items" -> TwoItems!Next
         [] OTHER -> UNCHANGED ProgressDeliveryVars
    /\ CASE part = "journal" -> Journal!Next
         [] part = "told" -> Told!Next
         [] part = "repair" -> Repair!Next
         [] part = "bound" -> Bound!Next
         [] OTHER -> UNCHANGED IncidentMonitorVars
    /\ CASE part = "journaled" -> Journaled!Next
         [] part = "gates" -> TwoGates!Next
         [] part = "storm" -> Storm!Next
         [] OTHER -> UNCHANGED IncidentNoticesVars
    /\ CASE part = "fleet" -> Fleet!Next
         [] part = "executing" -> Executing!Next
         [] part = "links" -> SenderLinks!Next
         [] OTHER -> UNCHANGED RuntimeHealthVars

Spec == Init /\ [][Next]_vars

-----------------------------------------------------------------------------
\* Properties.

\* A notice of a waiting job is posted once, says what was so when it was sent,
\* is not followed by one that unsays a start, and gives the reason for which
\* the lease passes the job over (task_lifecycle.py, queue_visibility.py).
NoticesAreTrue ==
    /\ [](/\ part = "sends" =>
                /\ Sends!TypeOK
                /\ Sends!PostedOnce
                /\ Sends!OutcomeIsTrue
          /\ part = "overlap" =>
                /\ Overlap!TypeOK
                /\ Overlap!PostedOnce
                /\ Overlap!OutcomeIsTrue
          /\ part = "retries" =>
                /\ Retries!TypeOK
                /\ Retries!PostedOnce
                /\ Retries!OutcomeIsTrue
          /\ part = "one topic" => OneTopic!TypeOK /\ OneTopic!ReasonIsWhy
          /\ part = "topics" => Topics!TypeOK /\ Topics!ReasonIsWhy)
    /\ [][/\ part = "sends" => Sends!StartIsNotUnsaid
          /\ part = "overlap" => Overlap!StartIsNotUnsaid
          /\ part = "retries" => Retries!StartIsNotUnsaid
          /\ part = "one topic" => OneTopic!StartIsNotUnsaid]_vars

\* Overlapping senders, lapsed leases and lost replies post a commentary at
\* most once, what is recorded as shown is shown, a waiting row has an attempt
\* left, a disposed delivery stays as the owner left it, and no commentary
\* follows the final answer (state_delivery.py, progress_delivery_sender.py).
ProgressIsExact ==
    /\ [](/\ part = "two senders" =>
                /\ TwoSenders!TypeOK
                /\ TwoSenders!PostedOnce
                /\ TwoSenders!ShownIsKnown
                /\ TwoSenders!PendingHasAttempts
          /\ part = "two items" =>
                /\ TwoItems!TypeOK
                /\ TwoItems!PostedOnce
                /\ TwoItems!ShownIsKnown
                /\ TwoItems!PendingHasAttempts)
    /\ [][/\ part = "two senders" => TwoSenders!DisposedIsPinned
          /\ part = "two items" =>
                /\ TwoItems!DisposedIsPinned
                /\ TwoItems!FinalIsLast]_vars

\* Wherever a cycle dies and whatever probe fails, the journal stays readable,
\* a recovery follows an outage and was observed, a condition is told once,
\* what blocks the owner is kept under the journal's bound, and two cycles do
\* not repair at once (incident_journal.py, monitoring.py).
IncidentsAreReal ==
    /\ [](/\ part = "journal" =>
                /\ Journal!TypeOK
                /\ Journal!JournalStaysReadable
                /\ Journal!ToldOnce
          /\ part = "told" =>
                /\ Told!TypeOK
                /\ Told!JournalStaysReadable
                /\ Told!ToldOnce
                /\ Told!RepairIsRare
          /\ part = "repair" => Repair!TypeOK /\ Repair!RepairIsRare
          /\ part = "bound" => Bound!TypeOK /\ Bound!BlockerIsKept)
    /\ [][/\ part = "journal" =>
                /\ Journal!RecoveryIsReal
                /\ Journal!RecoveryFollowsOutage
          /\ part = "told" =>
                /\ Told!RecoveryIsReal
                /\ Told!RecoveryFollowsOutage]_vars

\* Two gateways, failing writes and restarts between the mark of an attempt and
\* its outcome never send a notice twice, advance past one that was not noted,
\* exceed the burst, drop an attempted one, or tell a hidden one
\* (hermes_incident_notices.py).
IncidentsToldOnce ==
    /\ [](/\ part = "journaled" =>
                /\ Journaled!TypeOK
                /\ Journaled!SentOnce
                /\ Journaled!NotedIsTold
                /\ Journaled!BurstIsBounded
          /\ part = "gates" =>
                /\ TwoGates!TypeOK
                /\ TwoGates!SentOnce
                /\ TwoGates!NotedIsTold
                /\ TwoGates!BurstIsBounded
          /\ part = "storm" =>
                /\ Storm!TypeOK
                /\ Storm!SentOnce
                /\ Storm!NotedIsTold
                /\ Storm!BurstIsBounded)
    /\ [][/\ part = "journaled" =>
                /\ Journaled!EvidenceIsKept
                /\ Journaled!HiddenStaysQuiet
          /\ part = "gates" =>
                /\ TwoGates!EvidenceIsKept
                /\ TwoGates!HiddenStaysQuiet
          /\ part = "storm" => Storm!EvidenceIsKept /\ Storm!HiddenStaysQuiet]_vars

\* No row of an earlier process, overlapping publication or failed probe makes
\* the deployment look clear while it is not, a provider that keeps refusing
\* becomes an alert, and a single failure does not (runtime_health.py,
\* state_runtime_health.py).
AlertsAreTrue ==
    /\ part = "fleet" => Fleet!TypeOK /\ Fleet!AllClearIsTrue
    /\ part = "executing" =>
          /\ Executing!TypeOK
          /\ Executing!OutageIsSeen
          /\ Executing!BlipIsQuiet
    /\ part = "links" =>
          /\ SenderLinks!TypeOK
          /\ SenderLinks!OutageIsSeen
          /\ SenderLinks!BlipIsQuiet
==============================================================================
