----------------------------- MODULE TurnControl -----------------------------
(***************************************************************************)
(* Interrupting one accepted Codex turn. Four kinds of actors may want to:  *)
(* the live observer beside the worker (owner's stop, or Telegram ingress   *)
(* that is due), the worker itself after it lost its stream, and the late   *)
(* maintenance threads of worker processes once the job is indeterminate.   *)
(* Each reads the turn, fences the send in one transaction, sends one RPC,   *)
(* settles the outcome and reads again; processes die and replies are lost   *)
(* anywhere. Another job of the same root waits for the sender to be quiet.  *)
(***************************************************************************)
EXTENDS Naturals, FiniteSets

CONSTANTS
    Late,      \* maintenance threads, one per worker process
    MaxReads,  \* late_read_attempts allowed: 3
    MaxTries,  \* observations of the live observer that send nothing: 3
    MaxStops   \* bound on owner stop requests

ControlAssumption ==
    /\ {MaxReads, MaxTries, MaxStops} \subseteq Nat \ {0}
    /\ Late \cap {"live", "worker", "none"} = {}

Threads == Late \cup {"live", "worker"}

VARIABLES
    turn,      \* the turn as the provider knows it
    job,       \* provider_jobs row with its checkpoint
    evidence,  \* provider_turn_terminal_evidence
    resolved,  \* provider_job_resolutions
    stops,     \* provider_stop_requests covering the job
    control,   \* codex_turn_controls row
    th,        \* the actors
    rpc,       \* interrupts sent, on the wire, and answered
    due,       \* an ingress episode is past its deadline
    other      \* another job of the root has started

vars == <<turn, job, evidence, resolved, stops, control, th, rpc, due, other>>
jobVars == <<turn, job, evidence, resolved, stops>>

NoClaim == 0
Resting == [pc |-> "idle", mode |-> "stop", claim |-> NoClaim, result |-> "unknown", tries |-> 0]

Init ==
    /\ turn = "active"
    /\ job = [status |-> "executing", lease |-> TRUE, saved |-> FALSE]
    /\ evidence = FALSE /\ resolved = FALSE
    /\ stops = [s \in 1..MaxStops |-> "none"]
    /\ control = [accepted |-> FALSE, started |-> FALSE, owner |-> "none", ingress |-> FALSE,
                  outcome |-> "none", quiesced |-> FALSE, stop |-> 0,
                  reads |-> 0, claim |-> NoClaim, fresh |-> FALSE]
    /\ th = [t \in Threads |-> IF t = "worker" THEN [Resting EXCEPT !.pc = "accept"] ELSE Resting]
    /\ rpc = [sent |-> 0, flying |-> 0, answer |-> "none"]
    /\ due = FALSE /\ other = FALSE

At(t, pc) == th[t].pc = pc
Goto(t, pc) == th' = [th EXCEPT ![t].pc = pc]

(***************************************************************************)
(* The job, its stops and the owner                                         *)
(***************************************************************************)

Pending == {s \in 1..MaxStops : stops[s] = "pending"}
Oldest(S) == CHOOSE s \in S : \A r \in S : s <= r
(* bind_covering_stops: the first covering stop is bound once.               *)
Bound(S) == IF control.accepted /\ control.stop = 0 /\ S # {} THEN Oldest(S) ELSE control.stop
CompletedStops == [s \in 1..MaxStops |-> IF stops[s] = "pending" THEN "done" ELSE stops[s]]

(* record_turn: the identity is saved; authority is granted only when the    *)
(* session, the topic and the checkpoint still agree.                         *)
Accept(coherent) ==
    /\ At("worker", "accept") /\ job.lease
    /\ control' = [control EXCEPT !.accepted = coherent,
                                  !.stop = IF coherent /\ Pending # {} THEN Oldest(Pending) ELSE 0]
    /\ Goto("worker", IF coherent THEN "run" ELSE "read")
    /\ UNCHANGED <<jobVars, rpc, due, other>>

RequestStop(s) ==
    /\ stops[s] = "none" /\ \A r \in 1..(s - 1) : stops[r] # "none"
    /\ LET live == \/ job.status = "executing"
                   \/ job.status = "indeterminate" /\ ~evidence /\ ~resolved IN
       /\ stops' = [stops EXCEPT ![s] = IF live THEN "pending" ELSE "done"]
       /\ control' = [control EXCEPT !.stop = Bound(IF live THEN Pending \cup {s} ELSE Pending)]
    /\ UNCHANGED <<turn, job, evidence, resolved, th, rpc, due, other>>

TurnEnds ==
    /\ turn = "active"
    /\ turn' = "completed"
    /\ UNCHANGED <<job, evidence, resolved, stops, control, th, rpc, due, other>>

IngressTurns == due' = ~due /\ UNCHANGED <<jobVars, control, th, rpc, other>>

(* The job ends; a stop completes with the work it covers.                   *)
EndJob(status, terminal) ==
    /\ job' = [job EXCEPT !.status = status, !.lease = FALSE]
    /\ evidence' = terminal
    /\ stops' = IF status = "closed" \/ terminal THEN CompletedStops ELSE stops
    /\ UNCHANGED <<turn, resolved>>

(* What the worker saw decides: a completed turn commits, an interrupted or  *)
(* failed one is cancelled by its stop or kept with its evidence, anything   *)
(* else stays indeterminate.                                                  *)
WorkerFinish ==
    /\ At("worker", "finish")
    /\ Goto("worker", "dead")
    /\ IF job.status # "executing" \/ ~job.lease THEN UNCHANGED jobVars
       ELSE CASE th["worker"].result = "completed" -> EndJob("closed", FALSE)
              [] th["worker"].result = "interrupted" ->
                   IF Pending # {} THEN EndJob("closed", FALSE) ELSE EndJob("indeterminate", TRUE)
              [] OTHER -> EndJob("indeterminate", FALSE)
    /\ UNCHANGED <<control, rpc, due, other>>

LeaseExpires ==
    /\ job.status = "executing" /\ job.lease
    /\ job' = [job EXCEPT !.lease = FALSE]
    /\ UNCHANGED <<turn, evidence, resolved, stops, control, th, rpc, due, other>>

(* claim_stale and reconcile_codex_completion without an interrupt.          *)
RecoverStale(seen) ==
    /\ job.status = "executing" /\ ~job.lease
    /\ seen \in {"unknown", turn}
    /\ CASE job.saved \/ seen = "completed" -> EndJob("closed", FALSE)
         [] ~job.saved /\ seen = "interrupted" -> EndJob("indeterminate", TRUE)
         [] OTHER -> EndJob("indeterminate", FALSE)
    /\ UNCHANGED <<control, th, rpc, due, other>>

ResolveIndeterminate ==
    /\ job.status = "indeterminate" /\ ~resolved
    /\ resolved' = TRUE /\ stops' = CompletedStops
    /\ UNCHANGED <<turn, job, evidence, control, th, rpc, due, other>>

(***************************************************************************)
(* The gate for other work of the root                                      *)
(***************************************************************************)

OwnerClosed == /\ control.claim = NoClaim /\ job.status = "indeterminate"
               /\ resolved /\ evidence
UnsettledUntilResolved == control.started /\ ~control.quiesced /\ ~resolved
Unsettled == control.started /\ ~control.quiesced /\ ~OwnerClosed

StartOther ==
    /\ ~other /\ job.status # "executing"
    /\ job.status = "indeterminate" => resolved
    /\ ~Unsettled
    /\ other' = TRUE
    /\ UNCHANGED <<jobVars, control, th, rpc, due>>

(***************************************************************************)
(* The actors                                                               *)
(***************************************************************************)

(* The stream delivers the result, or breaks and the worker reconciles with a *)
(* protective interrupt; the live observer may outlive the join.              *)
WorkerWakes ==
    /\ At("worker", "run")
    /\ \/ /\ turn # "active"
          /\ th' = [th EXCEPT !["worker"].pc = "finish", !["worker"].result = turn]
          /\ job' = [job EXCEPT !.saved = @ \/ (turn = "completed" /\ job.lease)]
       \/ /\ th' = [th EXCEPT !["worker"].pc = "read", !["worker"].mode = "protective"]
          /\ UNCHANGED job
    /\ UNCHANGED <<turn, evidence, resolved, stops, control, rpc, due, other>>

LiveStart(mode) ==
    /\ At("live", "idle") /\ At("worker", "run") /\ control.accepted
    /\ IF mode = "stop" THEN Pending # {} ELSE Pending = {} /\ due
    /\ th' = [th EXCEPT !["live"].pc = IF control.started THEN "dead" ELSE "read",
                        !["live"].mode = mode]
    /\ UNCHANGED <<jobVars, control, rpc, due, other>>

(* A free claim: none, or one whose 30 seconds are over.                      *)
ClaimableAgain == control.claim = NoClaim \/ ~control.fresh
ClaimableHeld == control.claim = NoClaim /\ control.reads < MaxReads
Claimable == (control.claim = NoClaim \/ ~control.fresh) /\ control.reads < MaxReads
Coherent == ~job.saved /\ ~evidence /\ ~resolved

LateClaim(t, mode) ==
    LET bound == Bound(Pending) IN
    /\ At(t, "idle") /\ control.accepted
    /\ job.status = "indeterminate" /\ Coherent /\ Claimable
    /\ IF mode = "stop" THEN bound \in Pending ELSE Pending = {} /\ due
    /\ control' = [control EXCEPT !.stop = bound, !.reads = @ + 1, !.claim = control.reads + 1,
                                  !.fresh = TRUE]
    /\ th' = [th EXCEPT ![t].pc = "read", ![t].mode = mode, ![t].claim = control.reads + 1]
    /\ UNCHANGED <<jobVars, rpc, due, other>>

ClaimExpires ==
    /\ control.claim # NoClaim /\ control.fresh
    /\ control' = [control EXCEPT !.fresh = FALSE]
    /\ UNCHANGED <<jobVars, th, rpc, due, other>>

(* The try ends: a late actor still has to give its claim back, the live      *)
(* observer tries again until a send has started or its tries are used, the   *)
(* worker goes on to report the failure.                                      *)
Leave(t) ==
    LET tried == th[t].tries + 1 IN
    th' = [th EXCEPT ![t] =
             CASE t \in Late -> [Resting EXCEPT !.pc = "exit", !.claim = th[t].claim]
               [] t = "worker" -> [Resting EXCEPT !.pc = "finish"]
               [] OTHER -> IF ~control.started /\ tried < MaxTries
                           THEN [Resting EXCEPT !.tries = tried]
                           ELSE [Resting EXCEPT !.pc = "dead"]]

(* The first native read: an active turn proves that there is something to    *)
(* interrupt, a failed read ends the try.                                     *)
Read(t, active) ==
    /\ At(t, "read")
    /\ IF active THEN turn = "active" /\ Goto(t, "proved") ELSE Leave(t)
    /\ UNCHANGED <<jobVars, control, rpc, due, other>>

(* _validated_target_in_transaction: nothing sent yet, and exactly one kind   *)
(* of authority.                                                              *)
ValidTargetAgain(t) ==
    /\ control.accepted /\ Coherent
    /\ IF t \in Late
       THEN job.status = "indeterminate" /\ control.claim = th[t].claim /\ control.fresh
       ELSE job.status = "executing" /\ job.lease /\ control.claim = NoClaim
ValidTarget(t) ==
    /\ control.accepted /\ ~control.started /\ Coherent
    /\ IF t \in Late
       THEN job.status = "indeterminate" /\ control.claim = th[t].claim /\ control.fresh
       ELSE job.status = "executing" /\ job.lease /\ control.claim = NoClaim

Permitted(t) ==
    CASE th[t].mode = "stop" -> control.stop \in Pending
      [] th[t].mode = "ingress" -> Pending = {} /\ due
      [] OTHER -> TRUE

Fence(t) ==
    /\ At(t, "proved") /\ ValidTarget(t) /\ Permitted(t)
    /\ control' = [control EXCEPT !.started = TRUE, !.owner = t,
                                  !.ingress = th[t].mode = "ingress"]
    /\ th' = [th EXCEPT ![t].pc = "fenced", ![t].mode = "stop"]
    /\ UNCHANGED <<jobVars, rpc, due, other>>

(* An ingress reservation that finds a stop binds it and tries as a stop.     *)
PreferStop(t) ==
    /\ At(t, "proved") /\ th[t].mode = "ingress" /\ Pending # {}
    /\ control' = [control EXCEPT !.stop = Bound(Pending)]
    /\ th' = [th EXCEPT ![t].mode = "stop"]
    /\ UNCHANGED <<jobVars, rpc, due, other>>

(* Refused, or the five seconds of the proof were over.                       *)
FenceRefused(t) ==
    /\ At(t, "proved")
    /\ Leave(t)
    /\ UNCHANGED <<jobVars, control, rpc, due, other>>

Settling(t, outcome) == th' = [th EXCEPT ![t].pc = "settle", ![t].result = outcome]

(* The proof may have aged across the commit: then nothing is sent.           *)
NotSent(t) ==
    /\ At(t, "fenced")
    /\ Settling(t, "not_sent")
    /\ UNCHANGED <<jobVars, control, rpc, due, other>>
Send(t) ==
    /\ At(t, "fenced")
    /\ rpc' = [rpc EXCEPT !.sent = @ + 1, !.flying = @ + 1, !.answer = "none"]
    /\ Goto(t, "waiting")
    /\ UNCHANGED <<jobVars, control, due, other>>

(* The provider handles an interrupt whenever it arrives; its answer may be   *)
(* lost with the connection.                                                  *)
Handle(answered) ==
    /\ rpc.flying > 0
    /\ turn' = IF turn = "active" THEN "interrupted" ELSE turn
    /\ rpc' = [rpc EXCEPT !.flying = @ - 1,
                 !.answer = IF ~answered THEN "none"
                            ELSE IF turn = "active" THEN "matched_ack" ELSE "matched_rejection"]
    /\ UNCHANGED <<job, evidence, resolved, stops, control, th, due, other>>

Answered(t) ==
    /\ At(t, "waiting") /\ rpc.answer # "none"
    /\ Settling(t, rpc.answer)
    /\ rpc' = [rpc EXCEPT !.answer = "none"]
    /\ UNCHANGED <<jobVars, control, due, other>>
NoAnswerNotSent(t) ==
    /\ At(t, "waiting")
    /\ Settling(t, "not_sent")
    /\ UNCHANGED <<jobVars, control, rpc, due, other>>
NoAnswer(t) ==
    /\ At(t, "waiting")
    /\ Settling(t, "unknown")
    /\ UNCHANGED <<jobVars, control, rpc, due, other>>

(* finish_interrupt, or two seconds of contention and nothing is written.     *)
Settle(t) ==
    /\ At(t, "settle")
    /\ th' = [th EXCEPT ![t].pc = "reread", ![t].result = "unknown"]
    /\ \/ /\ control.owner = t /\ control.outcome \in {"none", "unknown", th[t].result}
          /\ control' = [control EXCEPT !.outcome = th[t].result,
                                        !.quiesced = @ \/ th[t].result # "unknown"]
       \/ UNCHANGED control
    /\ UNCHANGED <<jobVars, rpc, due, other>>

RereadFails(t) ==
    /\ At(t, "reread")
    /\ Leave(t)
    /\ UNCHANGED <<jobVars, control, rpc, due, other>>

(* A read that finds the turn over: apply_outcome of a late actor, or the     *)
(* completion that the live observer and the worker save. A job whose notice   *)
(* is being sent, or that another writer follows, is left alone.               *)
Observe(t) ==
    /\ At(t, "read") \/ At(t, "reread")
    /\ turn # "active"
    /\ IF t \in Late
       THEN /\ Leave(t)
            /\ \/ UNCHANGED jobVars
               \/ /\ job.status = "indeterminate" /\ ~resolved /\ ~evidence /\ ~other
                  /\ IF turn = "completed" /\ Pending = {} THEN EndJob("closed", FALSE)
                     ELSE EndJob("indeterminate", TRUE)
       ELSE /\ th' = [th EXCEPT ![t] = IF t = "live" THEN [Resting EXCEPT !.pc = "dead"]
                                       ELSE [Resting EXCEPT !.pc = "finish", !.result = turn]]
            /\ job' = [job EXCEPT !.saved = @ \/ (turn = "completed" /\ job.lease)]
            /\ UNCHANGED <<evidence, stops, resolved, turn>>
    /\ UNCHANGED <<control, rpc, due, other>>

(* finish_late_read                                                            *)
Exit(t) ==
    /\ At(t, "exit")
    /\ control' = IF control.claim = th[t].claim
                  THEN [control EXCEPT !.claim = NoClaim, !.fresh = FALSE] ELSE control
    /\ th' = [th EXCEPT ![t] = Resting]
    /\ UNCHANGED <<jobVars, rpc, due, other>>

(* A process dies with everything its threads were doing.                     *)
CrashLate(t) ==
    /\ ~At(t, "idle")
    /\ th' = [th EXCEPT ![t] = Resting]
    /\ UNCHANGED <<jobVars, control, rpc, due, other>>
CrashWorker ==
    /\ ~At("worker", "dead")
    /\ th' = [th EXCEPT !["worker"] = [Resting EXCEPT !.pc = "dead"],
                        !["live"] = [Resting EXCEPT !.pc = "dead"]]
    /\ UNCHANGED <<jobVars, control, rpc, due, other>>

Step(t) ==
    \/ \E active \in BOOLEAN : Read(t, active)
    \/ Fence(t) \/ PreferStop(t) \/ FenceRefused(t) \/ NotSent(t) \/ Send(t)
    \/ Answered(t) \/ NoAnswer(t) \/ Settle(t) \/ RereadFails(t) \/ Observe(t) \/ Exit(t)

Recover == \E seen \in {"unknown", "active", "completed", "interrupted"} : RecoverStale(seen)

Next ==
    \/ \E c \in BOOLEAN : Accept(c) \/ Handle(c)
    \/ \E s \in 1..MaxStops : RequestStop(s)
    \/ TurnEnds \/ IngressTurns \/ LeaseExpires \/ Recover \/ ResolveIndeterminate \/ StartOther
    \/ WorkerWakes \/ WorkerFinish \/ CrashWorker \/ ClaimExpires
    \/ \E mode \in {"stop", "ingress"} : LiveStart(mode) \/ \E t \in Late : LateClaim(t, mode)
    \/ \E t \in Threads : Step(t)
    \/ \E t \in Late : CrashLate(t)

Spec == Init /\ [][Next]_vars

(***************************************************************************)
(* Properties                                                               *)
(***************************************************************************)

(* Every variable has its type; the native reads spent on the turn stay       *)
(* within their allowance.                                                    *)
TypeOK ==
    /\ turn \in {"active", "completed", "interrupted"}
    /\ job.status \in {"executing", "indeterminate", "closed"}
    /\ stops \in [1..MaxStops -> {"none", "pending", "done"}]
    /\ control.reads \in 0..MaxReads /\ control.claim \in 0..MaxReads
    /\ control.stop \in 0..MaxStops /\ control.owner \in Threads \cup {"none"}
    /\ {evidence, resolved, due, other, control.started, control.quiesced} \subseteq BOOLEAN
    /\ \A t \in Threads : th[t].pc \in {"idle", "accept", "run", "read", "proved", "fenced",
           "waiting", "settle", "reread", "exit", "finish", "dead"}

(* Whoever wants it and whoever dies, one accepted turn receives at most one  *)
(* interrupt.                                                                 *)
InterruptedOnce == rpc.sent <= 1

(* Once another job of the root runs, no interrupt of the earlier turn is on  *)
(* the wire or about to be sent, unless that turn is over and can no longer   *)
(* be hit.                                                                    *)
NoStrayInterrupt ==
    other /\ turn = "active" => rpc.flying = 0 /\ \A t \in Threads : ~At(t, "fenced")

(* The recorded outcome is evidence: "not sent" means nothing was sent, and a *)
(* quiesced sender means no interrupt is under way.                            *)
OutcomeIsEvidence ==
    /\ control.outcome = "not_sent" => rpc.sent = 0
    /\ control.quiesced => rpc.flying = 0

-----------------------------------------------------------------------------
(* Why the properties hold: an inductive invariant, part by part.             *)
Steps == {"idle", "accept", "run", "read", "proved", "fenced", "waiting", "settle",
          "reread", "exit", "finish", "dead"}
Sending == {"fenced", "waiting", "settle", "reread"}
Answers == {"matched_ack", "matched_rejection"}
Outcomes == {"unknown", "not_sent"} \cup Answers
Over == {"completed", "interrupted"}
Actor == [pc : Steps, mode : {"stop", "ingress", "protective"}, claim : 0..MaxReads,
          result : Outcomes \cup Over, tries : Nat]
Controls == [accepted : BOOLEAN, started : BOOLEAN, owner : Threads \cup {"none"},
             ingress : BOOLEAN, outcome : Outcomes \cup {"none"}, quiesced : BOOLEAN,
             stop : 0..MaxStops, reads : 0..MaxReads, claim : 0..MaxReads, fresh : BOOLEAN]
Jobs == [status : {"executing", "indeterminate", "closed"}, lease : BOOLEAN, saved : BOOLEAN]
Wires == [sent : Nat, flying : Nat, answer : Answers \cup {"none"}]

Typed ==
    /\ turn \in {"active"} \cup Over
    /\ job \in Jobs
    /\ evidence \in BOOLEAN /\ resolved \in BOOLEAN /\ due \in BOOLEAN /\ other \in BOOLEAN
    /\ stops \in [1..MaxStops -> {"none", "pending", "done"}]
    /\ control \in Controls
    /\ th \in [Threads -> Actor]
    /\ rpc \in Wires

(* Whoever is between its fence and its last read is the one who fenced.       *)
OneSender == \A t \in Threads : th[t].pc \in Sending => control.started /\ control.owner = t

(* One interrupt, sent after the fence and before an outcome is recorded; an   *)
(* answer means that it has arrived.                                           *)
SentOnce ==
    /\ rpc.sent <= 1 /\ rpc.flying <= rpc.sent
    /\ ~control.started => rpc.sent = 0
    /\ rpc.answer # "none" => rpc.flying = 0
    /\ \A t \in Threads : At(t, "fenced") => rpc.sent = 0
    /\ control.outcome # "none" =>
          control.started /\ \A t \in Threads : th[t].pc \notin {"fenced", "waiting"}

(* What is about to be recorded is evidence already, and stays so.             *)
OutcomeFits ==
    /\ \A t \in Threads : At(t, "settle") =>
          /\ th[t].result \in Outcomes
          /\ th[t].result = "not_sent" => rpc.sent = 0
          /\ th[t].result # "unknown" => rpc.flying = 0
    /\ control.outcome = "not_sent" => rpc.sent = 0
    /\ control.quiesced => control.outcome # "none" /\ rpc.flying = 0

(* Evidence that a turn is over, or a result a worker saw, is of a turn that is *)
(* over.                                                                       *)
EvidenceFits == evidence \/ th["worker"].result \in Over => turn # "active"

(* Other work waits for the end of the job; no fence is passed after it.       *)
OtherWaits == other => (job.status = "closed" \/ (job.status = "indeterminate" /\ resolved))

ControlInv ==
    Typed /\ OneSender /\ SentOnce /\ OutcomeFits /\ EvidenceFits /\ OtherWaits /\ NoStrayInterrupt

=============================================================================
