-------------------------------- MODULE Turns --------------------------------
(***************************************************************************)
(* Interrupting a turn (TurnControl), the transports of the Codex client   *)
(* (StdioTransport, WebSocketTransport) and the corrections of a Claude    *)
(* turn (ClaudeCorrections), for every value of their constants. A         *)
(* behaviour runs one of them, "part", or none; MCTurns adds the other     *)
(* components of a turn, Turns_proofs and Corrections_proofs have the      *)
(* theorems.                                                               *)
(***************************************************************************)
EXTENDS Naturals, Sequences, FiniteSets

CONSTANTS ControlLate, ControlReads, ControlTries, ControlStops,    \* TurnControl
          StdioOut, StdioIn, StdioPipe, StdioSends, StdioLines,    \* StdioTransport
          SocketOut, SocketIn, SocketSends, SocketFrames,    \* WebSocketTransport
          Corrections    \* the constants of each instance of ClaudeCorrections, by its part

VARIABLE part    \* the instance that this behaviour runs
VARIABLES tcTurn, tcJob, evidence, tcResolved, tcStops, control, th, rpc, due,
          other    \* TurnControl
VARIABLES out, stInb, first, wfail, stClosed, writer, reader, stCaller, proc,
          pipeIn, pipeOut, sent, stGot, wrote, rcvd, told    \* StdioTransport
VARIABLES outq, wsInb, done, wsClosed, oev, cev, cb, snd, rcv, thread,
          wsCaller, wsLate, peer, landed, wsGot, barred    \* WebSocketTransport
VARIABLES coJob, run, child, text, cur, plain, stopped, coResolved, wk, nat,
          coFaults, switches, coStops, given    \* ClaudeCorrections

-----------------------------------------------------------------------------
\* The components.
Control == INSTANCE TurnControl WITH
    Late <- ControlLate, MaxReads <- ControlReads, MaxTries <- ControlTries,
    MaxStops <- ControlStops,
    turn <- tcTurn, job <- tcJob, resolved <- tcResolved, stops <- tcStops
Stdio == INSTANCE StdioTransport WITH
    MaxOut <- StdioOut, MaxIn <- StdioIn, PipeSize <- StdioPipe,
    MaxSends <- StdioSends, MaxLines <- StdioLines,
    inb <- stInb, closed <- stClosed, caller <- stCaller, got <- stGot
Socket == INSTANCE WebSocketTransport WITH
    MaxOut <- SocketOut, MaxIn <- SocketIn, MaxSends <- SocketSends,
    MaxFrames <- SocketFrames, inb <- wsInb,
    closed <- wsClosed, caller <- wsCaller, late <- wsLate, got <- wsGot
Cor(i) == INSTANCE ClaudeCorrections WITH
    Workers <- Corrections[i].Workers, NumJobs <- Corrections[i].NumJobs,
    LeaseTime <- Corrections[i].LeaseTime,
    MaxFaults <- Corrections[i].MaxFaults,
    MaxSwitches <- Corrections[i].MaxSwitches,
    MaxStops <- Corrections[i].MaxStops, job <- coJob,
    resolved <- coResolved, faults <- coFaults, stops <- coStops

ASSUME TurnsAllowed ==
    /\ Control!ControlAssumption
    /\ Stdio!ConstAssumption
    /\ Socket!ConstAssumption
    /\ \A i \in DOMAIN Corrections : Cor(i)!Bounds

-----------------------------------------------------------------------------
\* What runs, and what stays idle.
Off == 0
TurnControlVars == <<tcTurn, tcJob, evidence, tcResolved, tcStops, control,
                     th, rpc, due, other>>
StdioTransportVars == <<out, stInb, first, wfail, stClosed, writer, reader,
                        stCaller, proc, pipeIn, pipeOut, sent, stGot, wrote,
                        rcvd, told>>
WebSocketTransportVars == <<outq, wsInb, done, wsClosed, oev, cev, cb, snd,
                            rcv, thread, wsCaller, wsLate, peer, landed,
                            wsGot, barred>>
ClaudeCorrectionsVars == <<coJob, run, child, text, cur, plain, stopped,
                           coResolved, wk, nat, coFaults, switches, coStops,
                           given>>
TurnsVars == <<part, TurnControlVars, StdioTransportVars,
               WebSocketTransportVars, ClaudeCorrectionsVars>>

TurnControlOff == /\ tcTurn = Off /\ tcJob = Off /\ evidence = Off
                  /\ tcResolved = Off /\ tcStops = Off /\ control = Off
                  /\ th = Off /\ rpc = Off /\ due = Off /\ other = Off
StdioTransportOff == /\ out = Off /\ stInb = Off /\ first = Off
                     /\ wfail = Off /\ stClosed = Off /\ writer = Off
                     /\ reader = Off /\ stCaller = Off /\ proc = Off
                     /\ pipeIn = Off /\ pipeOut = Off /\ sent = Off
                     /\ stGot = Off /\ wrote = Off /\ rcvd = Off
                     /\ told = Off
WebSocketTransportOff == /\ outq = Off /\ wsInb = Off /\ done = Off
                         /\ wsClosed = Off /\ oev = Off /\ cev = Off
                         /\ cb = Off /\ snd = Off /\ rcv = Off
                         /\ thread = Off /\ wsCaller = Off /\ wsLate = Off
                         /\ peer = Off /\ landed = Off /\ wsGot = Off
                         /\ barred = Off
ClaudeCorrectionsOff == /\ coJob = Off /\ run = Off /\ child = Off
                        /\ text = Off /\ cur = Off /\ plain = Off
                        /\ stopped = Off /\ coResolved = Off /\ wk = Off
                        /\ nat = Off /\ coFaults = Off /\ switches = Off
                        /\ coStops = Off /\ given = Off

TurnsInit ==
    /\ IF part = "control" THEN Control!Init ELSE TurnControlOff
    /\ IF part = "stdio" THEN Stdio!Init ELSE StdioTransportOff
    /\ IF part = "socket" THEN Socket!Init ELSE WebSocketTransportOff
    /\ \/ \E i \in DOMAIN Corrections : part = i /\ Cor(i)!Init
       \/ part \notin DOMAIN Corrections /\ ClaudeCorrectionsOff

TurnsNext ==
    /\ part' = part
    /\ IF part = "control" THEN Control!Next ELSE UNCHANGED TurnControlVars
    /\ IF part = "stdio" THEN Stdio!Next ELSE UNCHANGED StdioTransportVars
    /\ IF part = "socket" THEN Socket!Next ELSE UNCHANGED WebSocketTransportVars
    /\ \/ \E i \in DOMAIN Corrections : part = i /\ Cor(i)!Next
       \/ part \notin DOMAIN Corrections /\ UNCHANGED ClaudeCorrectionsVars

TurnsSpec == TurnsInit /\ [][TurnsNext]_TurnsVars

-----------------------------------------------------------------------------
\* Properties.

\* The live observer, the late reader, the owner's stops and the ingress
\* precaution send at most one interrupt of a turn, only while someone wants it
\* stopped, and what is recorded of its outcome was observed
\* (codex_turn_controls.py, codex_control_recovery.py).
InterruptIsExact ==
    /\ part = "control" =>
          /\ Control!TypeOK
          /\ Control!InterruptedOnce
          /\ Control!NoStrayInterrupt
          /\ Control!OutcomeIsEvidence

\* The stdio transport loses and reorders no line, reads what the child wrote
\* before its pipe broke, and writes nothing after it recorded a failure
\* (codex_transports.py StdioTransport).
LinesAreKept ==
    /\ [](/\ part = "stdio" =>
                /\ Stdio!TypeOK
                /\ Stdio!TailIsRead
                /\ Stdio!KeptInOrder)
    /\ [][/\ part = "stdio" => Stdio!NoWriteAfterFailure]_TurnsVars

\* The web socket transport hands over the received frames in order, and never
\* writes a frame that was still queued when its send-start deadline passed or
\* when the caller closed (codex_transports.py UnixWebSocketTransport).
FramesAreKept ==
    /\ part = "socket" =>
          /\ Socket!TypeOK
          /\ Socket!ReceivedInOrder
          /\ Socket!LateIsNotWritten

\* However a correction crosses results, stops, lapsing leases and failing
\* commits, its text is given to the provider at most once, an answer is
\* published only with the receipt that it is of the corrected input, the pair
\* of jobs ends together, and a stop cancels only what it covers
\* (claude_corrections.py, claude_correction_state.py).
CorrectionIsExact ==
    \A i \in DOMAIN Corrections : part = i =>
          /\ Cor(i)!TypeOK
          /\ Cor(i)!AnsweredIsConfirmed
          /\ Cor(i)!InputOnce
          /\ Cor(i)!PairEndsTogether
          /\ Cor(i)!CancelledIsCovered
          /\ Cor(i)!OrderIsKept
==============================================================================
