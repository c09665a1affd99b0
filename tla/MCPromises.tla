----------------------------- MODULE MCPromises ------------------------------
(***************************************************************************)
(* What must happen in the end, of the components whose threads, processes *)
(* or leases could wait for ever. The components share no state here, so a *)
(* behaviour picks one instance, "part", runs that one and leaves the      *)
(* variables of every other component at Off: what holds of this module    *)
(* holds of each instance, and the other way round. The instances are      *)
(* small: a temporal property is checked on the whole graph of states.     *)
(***************************************************************************)
EXTENDS Naturals, Sequences, FiniteSets

VARIABLE part    \* the instance that this behaviour runs
VARIABLES out, stInb, first, wfail, stClosed, writer, reader, stCaller,
          stProc, pipeIn, pipeOut, sent, stGot, wrote, rcvd, stTold    \* StdioTransport
VARIABLES outq, wsInb, done, wsClosed, oev, cev, cb, snd, rcv, thread,
          wsCaller, late, peer, landed, wsGot, barred    \* WebSocketTransport
VARIABLES ccCl, reqs, owed, ccWire, turns, channel, res, upd, ccSeen, shown    \* CodexClient
VARIABLES turn, fresh, stopReq, mon, cpAsked, flag, cpLock, cpActive,
          stopProc, cpP, cpR, outcome, hit    \* ClaudeProcess
VARIABLES row, oxJob, evidence, resolved, disposed, sends, receipts, tokens,
          sender, chat    \* Outbox
VARIABLES arrived, forgotten, offset, poller, inSeen, refused, quotes, stops,
          jobs, inWorker, leases, blocked    \* Ingress
VARIABLES edit, reg, bind, edScope, work, edControl, joining, edProc, cache,
          edLock, count    \* ProjectEditing
VARIABLES up, was, initial, mwPc, stopped, queue, result, started, at, trouble    \* Maintenance
VARIABLES inc, wdPc, wdActive, tracked, draining, stop, sock, retired,
          fallback, endpoint, path, req, wdTold, cycles, wdFaults    \* WorkerDrain
VARIABLES taJob, taScope, early, act, entry, notice, epoch, taCl, taWire,
          taAsked, heard, sentAt, taFaults    \* TurnActivity
VARIABLES fsJob, line, granted, fsWorker, health, decl, passed, crashes    \* FairShare

\* Two parts of one album; one job for each of two agents, on one root.
Album == <<"album", "album">>
FairAgentOf == [w \in {"wa", "wb"} |-> IF w = "wb" THEN "b" ELSE "a"]
FairJobAgent == [j \in {"ja", "jb"} |-> IF j = "jb" THEN "b" ELSE "a"]
FairJobRoot == [j \in {"ja", "jb"} |-> "r1"]

-----------------------------------------------------------------------------
\* The instances.
Stdio == INSTANCE StdioTransport WITH
    MaxOut <- 1, MaxIn <- 1, PipeSize <- 1, MaxSends <- 2, MaxLines <- 2,
    inb <- stInb, closed <- stClosed, caller <- stCaller, proc <- stProc,
    got <- stGot, told <- stTold
Socket == INSTANCE WebSocketTransport WITH
    MaxOut <- 1, MaxIn <- 1, MaxSends <- 1, MaxFrames <- 1, inb <- wsInb,
    closed <- wsClosed, caller <- wsCaller, got <- wsGot
Client == INSTANCE CodexClient WITH
    Kinds <- {"chatter", "fault"}, MaxTurns <- 1, MaxItems <- 1, MaxWire <- 2,
    MaxNotes <- 2, MaxEarly <- 1, MaxUpdates <- 0, RpcTicks <- 2,
    QuietTicks <- 1, DrainTicks <- 2, Retires <- FALSE, cl <- ccCl,
    wire <- ccWire, seen <- ccSeen
Claude == INSTANCE ClaudeProcess WITH
    MaxTurns <- 1, MaxEvents <- 0, Work <- 1, Credit <- 0, StopTicks <- 1,
    LateJoin <- FALSE, Stuck <- FALSE, Kinds <- {}, Forks <- TRUE,
    asked <- cpAsked, lock <- cpLock, active <- cpActive, p <- cpP, r <- cpR
Rows == INSTANCE Outbox WITH
    MaxJobs <- 1, MaxParts <- 1, MaxTokens <- 2, AttemptLimit <- 2,
    Topics <- {"t1"}, TopicOf <- [j \in {1} |-> "t1"], Senders <- {"s1"},
    job <- oxJob
Albums == INSTANCE Ingress WITH
    Kind <- Album, Pollers <- {"p1"}, Workers <- {"w1"}, MaxJobs <- 2,
    MaxParts <- 2, MaxLeases <- 3, seen <- inSeen, worker <- inWorker
Editing == INSTANCE ProjectEditing WITH
    Procs <- {"hub", "direct"}, Owners <- {"alice"}, Projects <- {"p1"},
    Names <- {"n1"}, Roots <- {"r1", "r2"}, NewGroups <- {"p1"},
    MaxEdits <- 1, MaxWork <- 1, MaxCrashes <- 2, scope <- edScope,
    control <- edControl, proc <- edProc, lock <- edLock
Window == INSTANCE Maintenance WITH
    Units <- {"ingress", "codex"}, Admission <- {"ingress"}, MaxTrouble <- 3,
    pc <- mwPc
Drain == INSTANCE WorkerDrain WITH
    Requesters <- {"r1"}, MaxInc <- 1, MaxCycles <- 1, MaxFaults <- 0,
    pc <- wdPc, active <- wdActive, told <- wdTold, faults <- wdFaults
Activity == INSTANCE TurnActivity WITH
    Jobs <- {1}, Requests <- {1}, Foreign <- {}, MaxBuffer <- 1,
    MaxEntries <- 9, MaxEvents <- 2, MaxFaults <- 1, job <- taJob,
    scope <- taScope, cl <- taCl, wire <- taWire, asked <- taAsked,
    faults <- taFaults
Shares == INSTANCE FairShare WITH
    Agents <- {"a", "b"}, Workers <- {"wa", "wb"}, Jobs <- {"ja", "jb"},
    Roots <- {"r1"}, AgentOf <- FairAgentOf, JobAgent <- FairJobAgent,
    JobRoot <- FairJobRoot, AgentCap <- [a \in {"a", "b"} |-> 1],
    Capacities <- {1}, MaxCrashes <- 1, job <- fsJob, worker <- fsWorker

\* Every instance is one that its component allows.
ASSUME InstancesAllowed ==
    /\ Stdio!ConstAssumption
    /\ Socket!ConstAssumption
    /\ Client!ConstAssumption
    /\ Claude!BoundsAssumption
    /\ Rows!DeliveryAssumption
    /\ Albums!IngressAssumption
    /\ Editing!EditingBounds
    /\ Window!MaintenanceBounds
    /\ Drain!DrainBounds
    /\ Activity!ConstAssumption
    /\ Shares!FairShareTypes

-----------------------------------------------------------------------------
\* What runs, and what stays idle.
Off == 0
StdioTransportVars == <<out, stInb, first, wfail, stClosed, writer, reader,
                        stCaller, stProc, pipeIn, pipeOut, sent, stGot, wrote,
                        rcvd, stTold>>
WebSocketTransportVars == <<outq, wsInb, done, wsClosed, oev, cev, cb, snd,
                            rcv, thread, wsCaller, late, peer, landed, wsGot,
                            barred>>
CodexClientVars == <<ccCl, reqs, owed, ccWire, turns, channel, res, upd,
                     ccSeen, shown>>
ClaudeProcessVars == <<turn, fresh, stopReq, mon, cpAsked, flag, cpLock,
                       cpActive, stopProc, cpP, cpR, outcome, hit>>
OutboxVars == <<row, oxJob, evidence, resolved, disposed, sends, receipts,
                tokens, sender, chat>>
IngressVars == <<arrived, forgotten, offset, poller, inSeen, refused, quotes,
                 stops, jobs, inWorker, leases, blocked>>
ProjectEditingVars == <<edit, reg, bind, edScope, work, edControl, joining,
                        edProc, cache, edLock, count>>
MaintenanceVars == <<up, was, initial, mwPc, stopped, queue, result, started,
                     at, trouble>>
WorkerDrainVars == <<inc, wdPc, wdActive, tracked, draining, stop, sock,
                     retired, fallback, endpoint, path, req, wdTold, cycles,
                     wdFaults>>
TurnActivityVars == <<taJob, taScope, early, act, entry, notice, epoch, taCl,
                      taWire, taAsked, heard, sentAt, taFaults>>
FairShareVars == <<fsJob, line, granted, fsWorker, health, decl, passed,
                   crashes>>
vars == <<part, StdioTransportVars, WebSocketTransportVars, CodexClientVars,
          ClaudeProcessVars, OutboxVars, IngressVars, ProjectEditingVars,
          MaintenanceVars, WorkerDrainVars, TurnActivityVars, FairShareVars>>

StdioTransportOff == /\ out = Off /\ stInb = Off /\ first = Off
                     /\ wfail = Off /\ stClosed = Off /\ writer = Off
                     /\ reader = Off /\ stCaller = Off /\ stProc = Off
                     /\ pipeIn = Off /\ pipeOut = Off /\ sent = Off
                     /\ stGot = Off /\ wrote = Off /\ rcvd = Off
                     /\ stTold = Off
WebSocketTransportOff == /\ outq = Off /\ wsInb = Off /\ done = Off
                         /\ wsClosed = Off /\ oev = Off /\ cev = Off
                         /\ cb = Off /\ snd = Off /\ rcv = Off
                         /\ thread = Off /\ wsCaller = Off /\ late = Off
                         /\ peer = Off /\ landed = Off /\ wsGot = Off
                         /\ barred = Off
CodexClientOff == /\ ccCl = Off /\ reqs = Off /\ owed = Off /\ ccWire = Off
                  /\ turns = Off /\ channel = Off /\ res = Off /\ upd = Off
                  /\ ccSeen = Off /\ shown = Off
ClaudeProcessOff == /\ turn = Off /\ fresh = Off /\ stopReq = Off
                    /\ mon = Off /\ cpAsked = Off /\ flag = Off
                    /\ cpLock = Off /\ cpActive = Off /\ stopProc = Off
                    /\ cpP = Off /\ cpR = Off /\ outcome = Off /\ hit = Off
OutboxOff == /\ row = Off /\ oxJob = Off /\ evidence = Off /\ resolved = Off
             /\ disposed = Off /\ sends = Off /\ receipts = Off
             /\ tokens = Off /\ sender = Off /\ chat = Off
IngressOff == /\ arrived = Off /\ forgotten = Off /\ offset = Off
              /\ poller = Off /\ inSeen = Off /\ refused = Off
              /\ quotes = Off /\ stops = Off /\ jobs = Off /\ inWorker = Off
              /\ leases = Off /\ blocked = Off
ProjectEditingOff == /\ edit = Off /\ reg = Off /\ bind = Off
                     /\ edScope = Off /\ work = Off /\ edControl = Off
                     /\ joining = Off /\ edProc = Off /\ cache = Off
                     /\ edLock = Off /\ count = Off
MaintenanceOff == /\ up = Off /\ was = Off /\ initial = Off /\ mwPc = Off
                  /\ stopped = Off /\ queue = Off /\ result = Off
                  /\ started = Off /\ at = Off /\ trouble = Off
WorkerDrainOff == /\ inc = Off /\ wdPc = Off /\ wdActive = Off
                  /\ tracked = Off /\ draining = Off /\ stop = Off
                  /\ sock = Off /\ retired = Off /\ fallback = Off
                  /\ endpoint = Off /\ path = Off /\ req = Off
                  /\ wdTold = Off /\ cycles = Off /\ wdFaults = Off
TurnActivityOff == /\ taJob = Off /\ taScope = Off /\ early = Off
                   /\ act = Off /\ entry = Off /\ notice = Off /\ epoch = Off
                   /\ taCl = Off /\ taWire = Off /\ taAsked = Off
                   /\ heard = Off /\ sentAt = Off /\ taFaults = Off
FairShareOff == /\ fsJob = Off /\ line = Off /\ granted = Off
                /\ fsWorker = Off /\ health = Off /\ decl = Off
                /\ passed = Off /\ crashes = Off

Parts == {"stdio", "socket", "client", "claude", "outbox", "input", "editing",
          "window", "drain", "activity", "shares"}

Init ==
    /\ part \in Parts
    /\ CASE part = "stdio" -> Stdio!Init
         [] OTHER -> StdioTransportOff
    /\ CASE part = "socket" -> Socket!Init
         [] OTHER -> WebSocketTransportOff
    /\ CASE part = "client" -> Client!Init
         [] OTHER -> CodexClientOff
    /\ CASE part = "claude" -> Claude!Init
         [] OTHER -> ClaudeProcessOff
    /\ CASE part = "outbox" -> Rows!Init
         [] OTHER -> OutboxOff
    /\ CASE part = "input" -> Albums!Init
         [] OTHER -> IngressOff
    /\ CASE part = "editing" -> Editing!Init
         [] OTHER -> ProjectEditingOff
    /\ CASE part = "window" -> Window!Init
         [] OTHER -> MaintenanceOff
    /\ CASE part = "drain" -> Drain!Init
         [] OTHER -> WorkerDrainOff
    /\ CASE part = "activity" -> Activity!Init
         [] OTHER -> TurnActivityOff
    /\ CASE part = "shares" -> Shares!Init
         [] OTHER -> FairShareOff

Next ==
    /\ part' = part
    /\ CASE part = "stdio" -> Stdio!Next
         [] OTHER -> UNCHANGED StdioTransportVars
    /\ CASE part = "socket" -> Socket!Next
         [] OTHER -> UNCHANGED WebSocketTransportVars
    /\ CASE part = "client" -> Client!Next
         [] OTHER -> UNCHANGED CodexClientVars
    /\ CASE part = "claude" -> Claude!Next
         [] OTHER -> UNCHANGED ClaudeProcessVars
    /\ CASE part = "outbox" -> Rows!Next
         [] OTHER -> UNCHANGED OutboxVars
    /\ CASE part = "input" -> Albums!Next
         [] OTHER -> UNCHANGED IngressVars
    /\ CASE part = "editing" -> Editing!Next
         [] OTHER -> UNCHANGED ProjectEditingVars
    /\ CASE part = "window" -> Window!Next
         [] OTHER -> UNCHANGED MaintenanceVars
    /\ CASE part = "drain" -> Drain!Next
         [] OTHER -> UNCHANGED WorkerDrainVars
    /\ CASE part = "activity" -> Activity!Next
         [] OTHER -> UNCHANGED TurnActivityVars
    /\ CASE part = "shares" -> Shares!Next
         [] OTHER -> UNCHANGED FairShareVars

Spec == Init /\ [][Next]_vars

\* The fairness of every component, each while its instance runs.
FairSpec ==
    /\ Spec
    \* threads of the transports and of the client
    /\ WF_StdioTransportVars(part = "stdio" /\ Stdio!Writer)
    /\ WF_StdioTransportVars(part = "stdio" /\ Stdio!Reader)
    /\ WF_StdioTransportVars(part = "stdio" /\ Stdio!StopProcess)
    /\ WF_StdioTransportVars(part = "stdio" /\ Stdio!Closed)
    /\ WF_CodexClientVars(part = "client" /\ Client!Tick)
    /\ WF_CodexClientVars(part = "client" /\ Client!Expire)
    /\ WF_CodexClientVars(part = "client" /\ Client!Receives)
    \* the runner of a turn, its monitor and the process that was told to die
    /\ WF_ClaudeProcessVars(part = "claude" /\ Claude!Runner)
    /\ WF_ClaudeProcessVars(part = "claude" /\ Claude!Die)
    /\ \A t \in 1..1 : WF_ClaudeProcessVars(part = "claude" /\ Claude!Monitor(t))
    \* senders, their leases and the receipts of the broker
    /\ WF_OutboxVars(part = "outbox" /\ Rows!SenderStep("s1"))
    /\ WF_OutboxVars(part = "outbox" /\ \E j \in {1} : Rows!LeaseOutbox("s1", j))
    /\ WF_OutboxVars(part = "outbox" /\ Rows!Abandoned(1) /\ Rows!LeaseExpires(1))
    /\ WF_OutboxVars(part = "outbox" /\ \E a \in receipts : Rows!SettlePending(a))
    /\ WF_OutboxVars(part = "outbox" /\ Rows!RecoverStale)
    \* pollers, workers and the clock of the collecting window
    /\ WF_IngressVars(part = "input" /\ Albums!PollerStep("p1"))
    /\ WF_IngressVars(part = "input" /\ Albums!Start("w1"))
    /\ WF_IngressVars(part = "input" /\ Albums!Finish("w1"))
    /\ \A j \in 1..2 :
        /\ WF_IngressVars(part = "input" /\ j \in DOMAIN jobs /\ Albums!WindowCloses(j))
        /\ WF_IngressVars(part = "input" /\ j \in DOMAIN jobs /\ Albums!DeadlinePasses(j))
        /\ WF_IngressVars(part = "input" /\ j \in DOMAIN jobs /\ Albums!Lease("w1", j))
    \* the services that recover an edit, and work that ends
    /\ \A x \in {"hub", "direct"} : WF_ProjectEditingVars(part = "editing" /\ Editing!ProcessStep(x))
    /\ WF_ProjectEditingVars(part = "editing" /\ Editing!FinishWork("p1"))
    \* the maintenance window
    /\ WF_MaintenanceVars(
        /\ part = "window"
        /\ \/ Window!Prerequisite \/ Window!Observe \/ Window!Start
           \/ Window!Recheck \/ Window!Ready \/ Window!Finish
           \/ \E u \in {"ingress", "codex"} : Window!Take(u))
    \* the tasks of the event loop and the caller
    /\ WF_WebSocketTransportVars(part = "socket" /\ Socket!RunCallback)
    /\ WF_WebSocketTransportVars(part = "socket" /\ Socket!SenderWakes)
    /\ WF_WebSocketTransportVars(part = "socket" /\ Socket!SenderTurns)
    /\ WF_WebSocketTransportVars(part = "socket" /\ Socket!SenderClears)
    /\ WF_WebSocketTransportVars(part = "socket" /\ Socket!SenderGets)
    /\ WF_WebSocketTransportVars(part = "socket" /\ Socket!SenderLooks)
    /\ WF_WebSocketTransportVars(part = "socket" /\ Socket!SenderSends)
    /\ SF_WebSocketTransportVars(part = "socket" /\ Socket!ReceiverReads)
    /\ SF_WebSocketTransportVars(part = "socket" /\ Socket!ReceiverWakes)
    /\ WF_WebSocketTransportVars(part = "socket" /\ Socket!ReceiverClears)
    /\ WF_WebSocketTransportVars(part = "socket" /\ Socket!ReceiverPuts)
    /\ SF_WebSocketTransportVars(part = "socket" /\ Socket!Cancel)
    /\ WF_WebSocketTransportVars(part = "socket" /\ Socket!Enqueued)
    /\ WF_WebSocketTransportVars(part = "socket" /\ Socket!Received)
    /\ WF_WebSocketTransportVars(part = "socket" /\ Socket!Receive)
    /\ WF_WebSocketTransportVars(part = "socket" /\ Socket!Join)
    \* the threads of a worker process, and a requester
    /\ \A t \in Drain!Threads :
        /\ WF_WorkerDrainVars(part = "drain" /\ Drain!Leave(t))
        /\ WF_WorkerDrainVars(part = "drain" /\ Drain!Finish(t))
        /\ WF_WorkerDrainVars(part = "drain" /\ Drain!End(t))
        /\ WF_WorkerDrainVars(part = "drain" /\ Drain!LeaveLoop(t))
    /\ \A c \in Drain!Clients :
        /\ WF_WorkerDrainVars(part = "drain" /\ Drain!CloseClient(c))
        /\ WF_WorkerDrainVars(part = "drain" /\ Drain!SocketThreadEnds(c))
    /\ WF_WorkerDrainVars(
        /\ part = "drain"
        /\ \/ Drain!Boot \/ Drain!RefusedCycle \/ Drain!Retire
           \/ Drain!LeaveMainLoop \/ Drain!Join \/ Drain!CloseEndpoint)
    /\ WF_WorkerDrainVars(
        /\ part = "drain"
        /\ Drain!RequestDrain \/ Drain!CloseOwned \/ Drain!CloseState)
    /\ WF_WorkerDrainVars(
        /\ part = "drain"
        /\ Drain!Accept("r1") \/ Drain!Observe("r1") \/ Drain!Answer("r1"))
    \* the worker that reads a turn's events and the sender of the notices
    /\ WF_TurnActivityVars(
        /\ part = "activity"
        /\ \/ Activity!ReceiveEarly \/ Activity!ReceiveAccepted \/ Activity!Accepted
           \/ Activity!Replay \/ Activity!Receive)
    /\ \A k \in Activity!Keys : /\ WF_TurnActivityVars(part = "activity" /\ Activity!Lease(k))
                                /\ WF_TurnActivityVars(part = "activity" /\ Activity!Begin(k))
    \* the workers of the agents, and time
    /\ \A w \in {"wa", "wb"} : /\ WF_FairShareVars(part = "shares" /\ Shares!WorkerStep(w))
                               /\ WF_FairShareVars(part = "shares" /\ Shares!HealthAges(w))
    /\ \A j \in {"ja", "jb"} : /\ WF_FairShareVars(part = "shares" /\ Shares!LeaseExpires(j))
                               /\ WF_FairShareVars(part = "shares" /\ Shares!Resolve(j))

-----------------------------------------------------------------------------
\* Properties.

\* Closing ends both threads, also one blocked on a full inbox or on a pipe
\* that nobody empties, so that their streams can be closed.
CloseEndsThreads ==
    (part = "stdio" /\ stClosed)
        ~> (part = "stdio" /\ writer.pc = "done" /\ reader.pc = "done" /\ stCaller = "gone")

\* A frame that was admitted is written, unless the connection ends: its wake-
\* up is not lost however admission and the sender's check cross.
AdmittedIsWritten ==
    (part = "socket" /\ outq # << >>)
        ~> (part = "socket" /\ (outq = << >> \/ done \/ wsClosed))

\* No request waits for ever: frames of others do not renew its deadline.
RequestEnds ==
    (part = "client" /\ ccCl.pc = "rpc")
        ~> (part = "client" /\ ccCl.pc # "rpc")

\* A stop ends its turn without the help of any deadline, also when it arrives
\* between the preparation of the turn, the start of the process and its
\* registration.
StopEndsTurn ==
    (part = "claude" /\ turn > 0 /\ Claude!Pending(turn) /\ mon[turn] # "off")
        ~> (part = "claude" /\ cpR.pc = "idle")

\* No crash, lost reply or stale lease strands a message: it is delivered,
\* fails, or ends in the unknown state the owner is shown.
RowsEnd ==
    (part = "outbox" /\ row[1].st \in {"pending", "sending"})
        ~> (part = "outbox" /\ (row[1].st \notin {"pending", "sending"} \/ Rows!AwaitsOwner(1)))

\* A job is taken or cancelled in the end: neither a stream of album parts that
\* fail to download nor appended messages can keep its window open past the
\* deadline.
BatchIsTaken ==
    \A j \in 1..2 :
        (part = "input" /\ j \in DOMAIN jobs /\ jobs[j].status = "queued")
            ~> (part = "input" /\ j \in DOMAIN jobs /\ jobs[j].status # "queued")

\* An edit that is being applied does not stay so: processes that start finish
\* it.  A registration that is neither the old nor the new one and a binding the
\* edit did not start from are, by ADR 0027 and
\* test_recovery_binding_conflict_remains_a_startup_barrier, barriers a person
\* must remove, and a control operation bars it until its sender is known to be
\* through.
ApplyingEnds ==
    (part = "editing" /\ edit[1].stage = "applying")
        ~> (part = "editing" /\ (\/ edit[1].stage # "applying"
                                  \/ reg["p1"] \notin {edit[1].old, Editing!Target(1)}
                                  \/ ~Editing!BindingFits(1)
                                  \/ ~Editing!ControlClear(1)))

\* The restoration ends, whatever fails.
RestorationEnds ==
    (part = "window" /\ mwPc = "restoring")
        ~> (part = "window" /\ mwPc \in {"done", "interrupted"})

\* A drain that was accepted is reached, unless the process goes away.
DrainIsReached ==
    (part = "drain" /\ endpoint.key # "none")
        ~> (part = "drain" /\ (Drain!Drained \/ ~Drain!Alive))

\* A stored waiting request is announced, unless it is answered or the hub
\* stops observing the turn first.
WaitingIsTold ==
    (part = "activity" /\ entry[1][1] = "pending")
        ~> (part = "activity" /\ (\/ entry[1][1] # "pending" \/ ~Activity!Live(1)
                                   \/ notice[<<"approval", 1, 1>>] = "sent"))

\* An agent that waits, with a worker that runs, is granted a lease, whatever
\* the other agents ask and whoever dies: a dead worker does not keep its
\* agent's turn.  Only an execution whose worker died keeps its root, until
\* that worker's own agent recovers it.
WaitingAgentIsServed ==
    \A a \in {"a", "b"} :
        (part = "shares" /\ Shares!Wants(a))
            ~> (part = "shares" /\ Shares!Served(a))

\* No turn is left waiting by its client, its transport or its process:
\* requests and stopped turns end, admitted frames are written and closing ends
\* the threads (codex_appserver.py, codex_transports.py, external_runtime.py).
TurnsEnd ==
    /\ CloseEndsThreads
    /\ AdmittedIsWritten
    /\ RequestEnds
    /\ StopEndsTurn

\* Nothing that waits for a loop, a lease or a sender waits for ever, although
\* processes die: messages, batches, edits, maintenance windows, drains,
\* requests for approval and the jobs of every agent.
WorkIsServed ==
    /\ RowsEnd
    /\ BatchIsTaken
    /\ ApplyingEnds
    /\ RestorationEnds
    /\ DrainIsReached
    /\ WaitingIsTold
    /\ WaitingAgentIsServed
==============================================================================
