------------------------------- MODULE MCTurns -------------------------------
(***************************************************************************)
(* A provider's turn: its control, transports and corrections (Turns),     *)
(* what the owner is told of it (TurnActivity), the Codex client           *)
(* (CodexClient), and the Claude processes and permissions                 *)
(* (ClaudePermissions, ClaudeProcess, CliProcess). The components share no *)
(* state here, so a behaviour picks one instance,                          *)
(* "part", runs that one and leaves the variables of every other component *)
(* at Off: what holds of this module holds of each instance, and the other *)
(* way round.                                                              *)
(***************************************************************************)
EXTENDS Turns

VARIABLES taJob, scope, early, act, entry, notice, epoch, taCl, taWire,
          taAsked, heard, sentAt, taFaults    \* TurnActivity
VARIABLES ccCl, reqs, owed, ccWire, turns, channel, res, upd, seen, shown    \* CodexClient
VARIABLES peJob, session, launch, req, old, hook, thr, wrk, srv, cfg, grants,
          tlive, card, moved, inc, peSaid, gave, peLate, begun, ran, peFaults    \* ClaudePermissions
VARIABLES cpTurn, fresh, stopReq, cpMon, cpAsked, cpFlag, cpLock, cpActive,
          stopProc, cpP, cpR, outcome, cpHit    \* ClaudeProcess
VARIABLES clTurn, clStop, clMon, clAsked, clFlag, clLock, clActive, leader, code,
          clSaid, log, watch, limit, pc, verdict, clOut, clHit    \* CliProcess

\* Two file operations of one turn, and a command in each of two turns.
OneGen == <<1>>
SameGen == <<1, 1>>
OfOne == [h \in {"h1", "h2"} |-> 1]
OfFirst == [h \in {"h1"} |-> 1]
Files == [h \in {"h1", "h2"} |-> "File"]
Command == [h \in {"h1"} |-> "Bash"]

\* Database and native faults; the owner's switch and a stop; two workers and
\* lapsing leases.
TurnsCorrections ==
    [faults |-> [Workers |-> {"w1"}, NumJobs |-> 2, LeaseTime |-> 1,
                 MaxFaults |-> 2, MaxSwitches |-> 0, MaxStops |-> 0],
     switches |-> [Workers |-> {"w1"}, NumJobs |-> 2, LeaseTime |-> 1,
                   MaxFaults |-> 1, MaxSwitches |-> 1, MaxStops |-> 1],
     leases |-> [Workers |-> {"w1", "w2"}, NumJobs |-> 2, LeaseTime |-> 2,
                 MaxFaults |-> 0, MaxSwitches |-> 0, MaxStops |-> 0]]

-----------------------------------------------------------------------------
\* The instances.
Activity == INSTANCE TurnActivity WITH
    Jobs <- {1}, Requests <- {1, 2}, Foreign <- {2}, MaxBuffer <- 2,
    MaxEntries <- 9, MaxEvents <- 3, MaxFaults <- 1, job <- taJob, cl <- taCl,
    wire <- taWire, asked <- taAsked, faults <- taFaults
Slots == INSTANCE TurnActivity WITH
    Jobs <- {1, 2}, Requests <- {1}, Foreign <- {}, MaxBuffer <- 1,
    MaxEntries <- 2, MaxEvents <- 1, MaxFaults <- 1, job <- taJob, cl <- taCl,
    wire <- taWire, asked <- taAsked, faults <- taFaults
Turn == INSTANCE CodexClient WITH
    Kinds <- {"foreign", "repeat", "old"}, MaxTurns <- 1, MaxItems <- 2,
    MaxWire <- 2, MaxNotes <- 2, MaxEarly <- 1, MaxUpdates <- 0,
    RpcTicks <- 2, QuietTicks <- 1, DrainTicks <- 2, Retires <- TRUE,
    cl <- ccCl, wire <- ccWire
Limits == INSTANCE CodexClient WITH
    Kinds <- {"limits"}, MaxTurns <- 2, MaxItems <- 0, MaxWire <- 2,
    MaxNotes <- 2, MaxEarly <- 1, MaxUpdates <- 2, RpcTicks <- 2,
    QuietTicks <- 1, DrainTicks <- 2, Retires <- FALSE, cl <- ccCl,
    wire <- ccWire
Drift == INSTANCE CodexClient WITH
    Kinds <- {"settings", "fault", "old", "chatter"}, MaxTurns <- 1,
    MaxItems <- 1, MaxWire <- 2, MaxNotes <- 2, MaxEarly <- 1,
    MaxUpdates <- 0, RpcTicks <- 2, QuietTicks <- 1, DrainTicks <- 2,
    Retires <- TRUE, cl <- ccCl, wire <- ccWire
Goal == INSTANCE CodexClient WITH
    Kinds <- {"goal"}, MaxTurns <- 1, MaxItems <- 1, MaxWire <- 2,
    MaxNotes <- 2, MaxEarly <- 1, MaxUpdates <- 0, RpcTicks <- 2,
    QuietTicks <- 1, DrainTicks <- 2, Retires <- FALSE, cl <- ccCl,
    wire <- ccWire
FilesTurn == INSTANCE ClaudePermissions WITH
    Jobs <- {1}, Gen <- OneGen, Hooks <- {"h1", "h2"}, Of <- OfOne,
    Tool <- Files, Profile <- "editor", Modes <- {"files"}, MaxRequests <- 2,
    MaxFaults <- 1, job <- peJob, said <- peSaid, late <- peLate,
    faults <- peFaults
TwoModes == INSTANCE ClaudePermissions WITH
    Jobs <- {1, 2}, Gen <- SameGen, Hooks <- {"h1"}, Of <- OfFirst,
    Tool <- Command, Profile <- "developer", Modes <- {"files", "text"},
    MaxRequests <- 1, MaxFaults <- 2, job <- peJob, said <- peSaid,
    late <- peLate, faults <- peFaults
Claude == INSTANCE ClaudeProcess WITH
    MaxTurns <- 1, MaxEvents <- 1, Work <- 2, Credit <- 0, StopTicks <- 1,
    LateJoin <- FALSE, Stuck <- TRUE, Kinds <- {"text", "ok", "err"},
    Forks <- TRUE, turn <- cpTurn, mon <- cpMon, asked <- cpAsked,
    flag <- cpFlag, lock <- cpLock, active <- cpActive, p <- cpP, r <- cpR,
    hit <- cpHit
NextTurn == INSTANCE ClaudeProcess WITH
    MaxTurns <- 2, MaxEvents <- 0, Work <- 1, Credit <- 0, StopTicks <- 1,
    LateJoin <- TRUE, Stuck <- FALSE, Kinds <- {}, Forks <- FALSE,
    turn <- cpTurn, mon <- cpMon, asked <- cpAsked, flag <- cpFlag,
    lock <- cpLock, active <- cpActive, p <- cpP, r <- cpR, hit <- cpHit
Waits == INSTANCE ClaudeProcess WITH
    MaxTurns <- 1, MaxEvents <- 1, Work <- 1, Credit <- 1, StopTicks <- 1,
    LateJoin <- FALSE, Stuck <- TRUE, Kinds <- {"ok"}, Forks <- TRUE,
    turn <- cpTurn, mon <- cpMon, asked <- cpAsked, flag <- cpFlag,
    lock <- cpLock, active <- cpActive, p <- cpP, r <- cpR, hit <- cpHit
Cli == INSTANCE CliProcess WITH
    MaxTurns <- 2, WatchesLog <- TRUE, LateJoin <- FALSE, turn <- clTurn,
    stopReq <- clStop, mon <- clMon, asked <- clAsked, flag <- clFlag,
    lock <- clLock, active <- clActive, said <- clSaid, outcome <- clOut,
    hit <- clHit
NextCli == INSTANCE CliProcess WITH
    MaxTurns <- 2, WatchesLog <- FALSE, LateJoin <- TRUE, turn <- clTurn,
    stopReq <- clStop, mon <- clMon, asked <- clAsked, flag <- clFlag,
    lock <- clLock, active <- clActive, said <- clSaid, outcome <- clOut,
    hit <- clHit

\* Every instance is one that its component allows.
ASSUME InstancesAllowed ==
    /\ Activity!ConstAssumption
    /\ Slots!ConstAssumption
    /\ Turn!ConstAssumption
    /\ Limits!ConstAssumption
    /\ Drift!ConstAssumption
    /\ Goal!ConstAssumption
    /\ FilesTurn!PermissionsAssumption
    /\ TwoModes!PermissionsAssumption
    /\ Claude!BoundsAssumption
    /\ NextTurn!BoundsAssumption
    /\ Waits!BoundsAssumption
    /\ Cli!CliAssumption
    /\ NextCli!CliAssumption

-----------------------------------------------------------------------------
\* What runs, and what stays idle.
TurnActivityVars == <<taJob, scope, early, act, entry, notice, epoch, taCl,
                      taWire, taAsked, heard, sentAt, taFaults>>
CodexClientVars == <<ccCl, reqs, owed, ccWire, turns, channel, res, upd, seen,
                     shown>>
ClaudePermissionsVars == <<peJob, session, launch, req, old, hook, thr, wrk,
                           srv, cfg, grants, tlive, card, moved, inc, peSaid,
                           gave, peLate, begun, ran, peFaults>>
ClaudeProcessVars == <<cpTurn, fresh, stopReq, cpMon, cpAsked, cpFlag, cpLock,
                       cpActive, stopProc, cpP, cpR, outcome, cpHit>>
CliProcessVars == <<clTurn, clStop, clMon, clAsked, clFlag, clLock, clActive,
                    leader, code, clSaid, log, watch, limit, pc, verdict,
                    clOut, clHit>>
vars == <<TurnsVars, TurnActivityVars, CodexClientVars, ClaudePermissionsVars,
          ClaudeProcessVars, CliProcessVars>>

TurnActivityOff == /\ taJob = Off /\ scope = Off /\ early = Off /\ act = Off
                   /\ entry = Off /\ notice = Off /\ epoch = Off
                   /\ taCl = Off /\ taWire = Off /\ taAsked = Off
                   /\ heard = Off /\ sentAt = Off /\ taFaults = Off
CodexClientOff == /\ ccCl = Off /\ reqs = Off /\ owed = Off /\ ccWire = Off
                  /\ turns = Off /\ channel = Off /\ res = Off /\ upd = Off
                  /\ seen = Off /\ shown = Off
ClaudePermissionsOff == /\ peJob = Off /\ session = Off /\ launch = Off
                        /\ req = Off /\ old = Off /\ hook = Off /\ thr = Off
                        /\ wrk = Off /\ srv = Off /\ cfg = Off
                        /\ grants = Off /\ tlive = Off /\ card = Off
                        /\ moved = Off /\ inc = Off /\ peSaid = Off
                        /\ gave = Off /\ peLate = Off /\ begun = Off
                        /\ ran = Off /\ peFaults = Off
ClaudeProcessOff == /\ cpTurn = Off /\ fresh = Off /\ stopReq = Off
                    /\ cpMon = Off /\ cpAsked = Off /\ cpFlag = Off
                    /\ cpLock = Off /\ cpActive = Off /\ stopProc = Off
                    /\ cpP = Off /\ cpR = Off /\ outcome = Off /\ cpHit = Off
CliProcessOff == /\ clTurn = Off /\ clStop = Off /\ clMon = Off
                 /\ clAsked = Off /\ clFlag = Off /\ clLock = Off
                 /\ clActive = Off /\ leader = Off /\ code = Off
                 /\ clSaid = Off /\ log = Off /\ watch = Off /\ limit = Off
                 /\ pc = Off /\ verdict = Off /\ clOut = Off /\ clHit = Off
Parts == {"control", "activity", "slots", "turn", "limits", "drift", "goal",
          "stdio", "socket", "files", "modes", "claude", "next turn", "waits",
          "cli", "next cli"} \cup DOMAIN Corrections

Init ==
    /\ part \in Parts /\ TurnsInit
    /\ CASE part = "activity" -> Activity!Init
         [] part = "slots" -> Slots!Init
         [] OTHER -> TurnActivityOff
    /\ CASE part = "turn" -> Turn!Init
         [] part = "limits" -> Limits!Init
         [] part = "drift" -> Drift!Init
         [] part = "goal" -> Goal!Init
         [] OTHER -> CodexClientOff
    /\ CASE part = "files" -> FilesTurn!Init
         [] part = "modes" -> TwoModes!Init
         [] OTHER -> ClaudePermissionsOff
    /\ CASE part = "claude" -> Claude!Init
         [] part = "next turn" -> NextTurn!Init
         [] part = "waits" -> Waits!Init
         [] OTHER -> ClaudeProcessOff
    /\ CASE part = "cli" -> Cli!Init
         [] part = "next cli" -> NextCli!Init
         [] OTHER -> CliProcessOff

Next ==
    /\ TurnsNext
    /\ CASE part = "activity" -> Activity!Next
         [] part = "slots" -> Slots!Next
         [] OTHER -> UNCHANGED TurnActivityVars
    /\ CASE part = "turn" -> Turn!Next
         [] part = "limits" -> Limits!Next
         [] part = "drift" -> Drift!Next
         [] part = "goal" -> Goal!Next
         [] OTHER -> UNCHANGED CodexClientVars
    /\ CASE part = "files" -> FilesTurn!Next
         [] part = "modes" -> TwoModes!Next
         [] OTHER -> UNCHANGED ClaudePermissionsVars
    /\ CASE part = "claude" -> Claude!Next
         [] part = "next turn" -> NextTurn!Next
         [] part = "waits" -> Waits!Next
         [] OTHER -> UNCHANGED ClaudeProcessVars
    /\ CASE part = "cli" -> Cli!Next
         [] part = "next cli" -> NextCli!Next
         [] OTHER -> UNCHANGED CliProcessVars

Spec == Init /\ [][Next]_vars

-----------------------------------------------------------------------------
\* Properties.

\* A request for approval that arrives before, during or after the acceptance
\* of its turn is stored and announced only while it waits, and an open scope
\* belongs to the turn that runs (preacceptance_approvals.py,
\* task_activity.py).
ApprovalsAreKnown ==
    /\ [](/\ part = "activity" =>
                /\ Activity!TypeOK
                /\ Activity!WaitingIsKnown
                /\ Activity!OpenScopeIsCurrent
          /\ part = "slots" =>
                /\ Slots!TypeOK
                /\ Slots!WaitingIsKnown
                /\ Slots!OpenScopeIsCurrent)
    /\ [][/\ part = "activity" => Activity!AnsweredIsNotAnnounced
          /\ part = "slots" => Slots!AnsweredIsNotAnnounced]_vars

\* A turn that the client reports as accepted was started by its own request,
\* its answer has every item of that turn and no other's, a refused permission
\* is refused, and the goal and the limit windows shown with it are not older
\* than the turn (codex_appserver.py).
ResultIsOfTurn ==
    /\ [](/\ part = "turn" =>
                /\ Turn!TypeOK
                /\ Turn!AnswerIsWhole
                /\ Turn!AcceptedIsStarted
          /\ part = "limits" =>
                /\ Limits!TypeOK
                /\ Limits!AnswerIsWhole
                /\ Limits!AcceptedIsStarted
          /\ part = "drift" =>
                /\ Drift!TypeOK
                /\ Drift!AnswerIsWhole
                /\ Drift!AcceptedIsStarted
                /\ Drift!DriftIsRefused
          /\ part = "goal" =>
                /\ Goal!TypeOK
                /\ Goal!AnswerIsWhole
                /\ Goal!AcceptedIsStarted
                /\ Goal!GoalIsOfTurn)
    /\ [][/\ part = "limits" => Limits!WindowsAreCurrent]_vars

\* A tool runs only with the owner's consent to this request or this session,
\* no consent is used after the turn was stopped, rebound or closed, a turn
\* shows one card at a time, a session keeps its permission mode and its native
\* identity starts once (claude_permission_host.py,
\* claude_permissions_journal.py).
ConsentIsOwn ==
    /\ [](/\ part = "files" =>
                /\ FilesTurn!TypeOK
                /\ FilesTurn!LateAnswerIsRefused
                /\ FilesTurn!OneCard
          /\ part = "modes" =>
                /\ TwoModes!TypeOK
                /\ TwoModes!LateAnswerIsRefused
                /\ TwoModes!SessionKeepsMode)
    /\ [][/\ part = "files" =>
                /\ FilesTurn!AllowedByOwner
                /\ FilesTurn!ClosedIsFinal
          /\ part = "modes" =>
                /\ TwoModes!AllowedByOwner
                /\ TwoModes!ClosedIsFinal
                /\ TwoModes!StartedOnce]_vars

\* A stop that is recorded as confirmed killed its own process group, no signal
\* of a Claude turn reaches a recycled group and nothing of the group is left
\* behind, a result is whole and its own, a job is cancelled only for a stop of
\* its own although the monitor of the turn before may still be at work, and
\* where the monitors end in time no turn is interrupted for another's stop
\* (external_runtime.py, external_worker.py).
TurnsAreSeparate ==
    /\ part = "claude" =>
          /\ Claude!TypeOK
          /\ Claude!NoStrangerIsSignalled
          /\ Claude!StopIsProven
          /\ Claude!NothingIsLeft
          /\ Claude!ResultIsWhole
          /\ Claude!CancelledIsSafe
    /\ part = "next turn" =>
          /\ NextTurn!TypeOK
          /\ NextTurn!NoStrangerIsSignalled
          /\ NextTurn!StopIsProven
          /\ NextTurn!NothingIsLeft
          /\ NextTurn!ResultIsWhole
          /\ NextTurn!CancelledIsSafe
    /\ part = "waits" =>
          /\ Waits!TypeOK
          /\ Waits!NoStrangerIsSignalled
          /\ Waits!StopIsProven
          /\ Waits!NothingIsLeft
          /\ Waits!ResultIsWhole
          /\ Waits!CancelledIsSafe
    /\ part = "cli" =>
          /\ Cli!TypeOK
          /\ Cli!ResultIsOwn
          /\ Cli!CancelIsOwn
          /\ Cli!StrangerNeedsRace
          /\ Cli!InterruptIsOfTurn
    /\ part = "next cli" =>
          /\ NextCli!TypeOK
          /\ NextCli!ResultIsOwn
          /\ NextCli!CancelIsOwn
          /\ NextCli!StrangerNeedsRace
==============================================================================
