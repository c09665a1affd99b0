---------------------------- MODULE TaskNotices ----------------------------
(***************************************************************************)
(* The notices the hub sends about a task that waits, starts, is stopped   *)
(* or leaves an unconfirmed result: task_lifecycle.py keeps the rows,      *)
(* queue_visibility.py prepares and withdraws them inside the queue's own  *)
(* transactions, delivery_wait.py adds the ones about an unknown delivery, *)
(* task_notice_sender.py makes one attempt, and OutboxSender.run_cycle     *)
(* gives every class of delivery its turn.                                 *)
(*                                                                         *)
(* All jobs share one execution root; a job's number is its creation order *)
(* and its topic sequence.  Clock readings appear as what a comparison     *)
(* with them decides: a lease has lapsed or not, a row is due or not.      *)
(***************************************************************************)
EXTENDS Naturals, Sequences, FiniteSets, SequencesExt

CONSTANTS Jobs,       \* job numbers
          Topics,     \* Telegram topics
          TopicOf,    \* the topic of a job
          Senders,    \* outbox sender processes that ever run
          MaxAttempts,\* max_attempts of a job
          MaxSends,   \* MAX_NOTICE_ATTEMPTS (the code has 5)
          MaxFaults   \* bound: crashes, lapses and owner interventions

JobsAssumption == Jobs \subseteq Nat /\ TopicOf \in [Jobs -> Topics]
BoundsAssumption == MaxSends \in Nat \ {0} /\ MaxAttempts \in Nat /\ MaxFaults \in Nat

VARIABLES job,     \* provider_jobs with the rows that hang on them
          outsider,\* who else owns the root: a local writer or a dispatch
          row,     \* task_lifecycle_notices by event key
          log,     \* the event keys in created_at order
          proc,    \* each sender process
          arrived, \* history: messages Telegram really posted, by event key
          begun,   \* history: jobs whose provider work ever began
          faults   \* bound on faults

vars == <<job, outsider, row, log, proc, arrived, begun, faults>>

Kinds == {"accepted", "queued", "executing", "delivery_wait"}
Keys == (Kinds \X Jobs \X (0..MaxAttempts)) \cup ({"stop"} \X Topics \X {0})
Reasons == {"none", "held", "delivery_unknown", "topic_fifo", "root_held_fifo", "root_uncertain",
            "root_active", "root_writer", "root_dispatch", "retry_deadline", "collecting",
            "worker_unknown"}
Waiting == {"queued", "retry_wait"}
Closed == {"completed", "failed", "cancelled", "indeterminate"}
Settled == {"delivered", "unknown", "failed", "superseded"}

Absent == [status |-> "absent", sends |-> 0, token |-> 0, live |-> FALSE, started |-> FALSE,
           due |-> FALSE, reason |-> "none"]
NewJob == [status |-> "new", tries |-> 0, live |-> FALSE, later |-> FALSE, held |-> FALSE,
           resolved |-> FALSE, outbox |-> "none", released |-> FALSE]
Idle == [pc |-> "idle", key |-> <<"stop", 0, 0>>, token |-> 0, cursor |-> 0]

Init ==
  /\ job = [j \in Jobs |-> NewJob]
  /\ outsider = "none"
  /\ row = [k \in Keys |-> Absent]
  /\ log = << >>
  /\ proc = [s \in Senders |-> Idle]
  /\ arrived = [k \in Keys |-> 0]
  /\ begun = {}
  /\ faults = 0

Status(js, j) == js[j].status
Exists(rows, k) == rows[k].status # "absent"

-----------------------------------------------------------------------------
\* Why a job waits.

\* job_blocks_topic_fifo
BlocksFifo(js, j) ==
  /\ Status(js, j) \notin Closed \cup {"new"}
  /\ ~(Status(js, j) = "result_ready" /\ js[j].outbox = "unknown" /\ js[j].released)

EarlierInTopic(js, j) == {e \in Jobs : e < j /\ TopicOf[e] = TopicOf[j] /\ BlocksFifo(js, e)}
HeldBefore(js, j) == {e \in Jobs : e < j /\ js[e].held /\ Status(js, e) \in Waiting}
ActiveOnRoot(js, j) ==
  {o \in Jobs \ {j} : \/ Status(js, o) = "executing"
                      \/ Status(js, o) = "leased" /\ js[o].live
                      \/ Status(js, o) = "indeterminate" /\ ~js[o].resolved}

First(S) == CHOOSE x \in S : \A y \in S : x <= y

BadWaitSnapshot(js, out, j) ==
  LET earlier == EarlierInTopic(js, j)
      active == ActiveOnRoot(js, j)
  IN CASE js[j].held -> "held"
       [] earlier # {} -> "topic_fifo"
       [] active # {} -> "root_active"
       [] OTHER ->
            IF out = "writer" THEN "root_writer"
            ELSE IF js[j].later THEN "collecting"
            ELSE "worker_unknown"

\* QueueVisibilityState.wait_snapshot, without a capacity
WaitSnapshot(js, out, j) ==
  LET earlier == EarlierInTopic(js, j)
      active == ActiveOnRoot(js, j)
  IN CASE js[j].held -> "held"
       [] earlier # {} ->
            IF /\ Status(js, First(earlier)) = "result_ready"
               /\ js[First(earlier)].outbox = "unknown"
            THEN "delivery_unknown" ELSE "topic_fifo"
       [] earlier = {} /\ HeldBefore(js, j) # {} -> "root_held_fifo"
       [] earlier = {} /\ HeldBefore(js, j) = {} /\ active # {} ->
            IF Status(js, First(active)) = "indeterminate" THEN "root_uncertain" ELSE "root_active"
       [] OTHER ->
            IF out = "writer" THEN "root_writer"
            ELSE IF out = "dispatch" THEN "root_dispatch"
            ELSE IF js[j].later /\ Status(js, j) = "retry_wait" THEN "retry_deadline"
            ELSE IF js[j].later THEN "collecting"
            ELSE "worker_unknown"

\* _ELIGIBLE_PROVIDER_JOB_SQL: the scheduler's own conditions
Eligible(j) ==
  /\ job[j].status \in Waiting /\ ~job[j].later /\ job[j].tries < MaxAttempts
  /\ ~job[j].held
  /\ \A e \in Jobs : e < j =>
       /\ ~(TopicOf[e] = TopicOf[j] /\ BlocksFifo(job, e))
       /\ ~(job[e].status \in Waiting /\ job[e].held)
  /\ \A o \in Jobs \ {j} :
       /\ job[o].status # "executing"
       /\ ~(job[o].status = "leased" /\ job[o].live)
       /\ ~(job[o].status = "indeterminate" /\ ~job[o].resolved)
  /\ outsider = "none"

-----------------------------------------------------------------------------
\* Preparing and withdrawing notices, inside the transaction of the caller.

\* QueueVisibilityState._prepare and TaskLifecycleState.prepare_notice_in_transaction:
\* one row per event key, its content never replaced
PrepareRow(rows, k, reason) ==
  IF Exists(rows, k) THEN rows
  ELSE [rows EXCEPT ![k] = [Absent EXCEPT !.status = "pending", !.due = TRUE, !.reason = reason]]

Logged(rows, k) == IF Exists(rows, k) THEN << >> ELSE <<k>>

Withdrawable(n) == n.status \in {"pending", "leased"} /\ ~n.started /\ n.sends = 0

\* the kinds that a job's new status makes stale (sync_job_in_transaction)
StaleKinds(status) ==
  CASE status = "executing" -> {"accepted", "queued"}
    [] status \in Waiting -> {"executing"}
    [] status = "leased" -> {}
    [] OTHER -> {"accepted", "queued", "executing"}

SyncKeepsOld(rows, j, status) == rows

SyncTakesBegun(rows, j, status) ==
  [k \in Keys |->
     IF /\ k[1] \in StaleKinds(status) /\ k[2] = j
        /\ rows[k].status \in {"pending", "leased"}
     THEN [rows[k] EXCEPT !.status = "superseded", !.token = 0, !.live = FALSE]
     ELSE rows[k]]

SyncJob(rows, j, status) ==
  [k \in Keys |->
     IF /\ Exists(rows, <<"accepted", j, 0>>)      \* enabled
        /\ k[1] \in StaleKinds(status) /\ k[2] = j
        /\ Withdrawable(rows[k])
     THEN [rows[k] EXCEPT !.status = "superseded", !.token = 0, !.live = FALSE]
     ELSE rows[k]]

-----------------------------------------------------------------------------
\* The queue's transactions that touch notices.

\* provider admission: the job, then its accepted and queued notices
Admit(j) ==
  /\ job[j].status = "new"
  /\ \A e \in Jobs : e < j => job[e].status # "new"
  /\ \E later \in BOOLEAN :
       /\ job' = [job EXCEPT ![j].status = "queued", ![j].later = later]
       /\ row' = PrepareRow(PrepareRow(row, <<"accepted", j, 0>>, "none"), <<"queued", j, 0>>,
                            WaitSnapshot(job', outsider, j))
  /\ log' = log \o <<<<"accepted", j, 0>>, <<"queued", j, 0>>>>
  /\ UNCHANGED <<outsider, proc, arrived, begun, faults>>

\* next_attempt_at passes
InputDue(j) ==
  /\ job[j].later
  /\ job' = [job EXCEPT ![j].later = FALSE]
  /\ UNCHANGED <<outsider, row, log, proc, arrived, begun, faults>>

LeaseJob(j) ==
  /\ Eligible(j)
  /\ job' = [job EXCEPT ![j].status = "leased", ![j].live = TRUE]
  /\ UNCHANGED <<outsider, row, log, proc, arrived, begun, faults>>

\* _start_leased with executing_in_transaction
StartJob(j) ==
  /\ job[j].status = "leased" /\ job[j].live /\ job[j].tries < MaxAttempts
  /\ LET k == <<"executing", j, job[j].tries + 1>>
         synced == SyncJob(row, j, "executing")
     IN /\ row' = PrepareRow(synced, k, "none")
        /\ log' = log \o Logged(synced, k)
  /\ job' = [job EXCEPT ![j].status = "executing", ![j].tries = @ + 1]
  /\ begun' = begun \cup {j}
  /\ UNCHANGED <<outsider, proc, arrived, faults>>

\* release_lease, and recover_stale of a lease that never started
GiveBackJob(j) ==
  /\ job[j].status = "leased"
  /\ faults < MaxFaults /\ faults' = faults + 1
  /\ job' = [job EXCEPT ![j].status = "queued", ![j].live = FALSE]
  /\ UNCHANGED <<outsider, row, log, proc, arrived, begun>>

LapseJob(j) ==
  /\ job[j].status = "leased" /\ job[j].live
  /\ faults < MaxFaults /\ faults' = faults + 1
  /\ job' = [job EXCEPT ![j].live = FALSE]
  /\ UNCHANGED <<outsider, row, log, proc, arrived, begun>>

\* the end of an attempt: a saved result, a failure, a retry, an uncertain end
EndJob(j) ==
  /\ job[j].status = "executing"
  /\ \E s \in {"result_ready", "failed", "indeterminate", "retry_wait", "cancelled"} :
       /\ s = "retry_wait" => job[j].tries < MaxAttempts
       /\ job' = [job EXCEPT ![j] = [@ EXCEPT !.status = s, !.live = FALSE,
                                              !.later = (s = "retry_wait"),
                                              !.outbox = IF s = "result_ready" THEN "pending" ELSE @]]
       /\ row' = SyncJob(row, j, s)
  /\ UNCHANGED <<outsider, log, proc, arrived, begun, faults>>

\* the outbox confirms the saved result, or loses track of it
DeliverResult(j) ==
  /\ job[j].status = "result_ready" /\ job[j].outbox = "pending"
  /\ job' = [job EXCEPT ![j].status = "completed", ![j].outbox = "delivered"]
  /\ row' = SyncJob(row, j, "completed")
  /\ UNCHANGED <<outsider, log, proc, arrived, begun, faults>>

LoseDelivery(j) ==
  /\ job[j].status = "result_ready" /\ job[j].outbox = "pending"
  /\ job' = [job EXCEPT ![j].outbox = "unknown"]
  /\ UNCHANGED <<outsider, row, log, proc, arrived, begun, faults>>

\* the owner's decisions: a delivery hold released, an uncertain turn resolved,
\* a job held for review and resumed, a local writer or dispatch on the root
ReleaseDelivery(j) ==
  /\ job[j].status = "result_ready" /\ job[j].outbox = "unknown" /\ ~job[j].released
  /\ job' = [job EXCEPT ![j].released = TRUE]
  /\ UNCHANGED <<outsider, row, log, proc, arrived, begun, faults>>

ResolveJob(j) ==
  /\ job[j].status = "indeterminate" /\ ~job[j].resolved
  /\ job' = [job EXCEPT ![j].resolved = TRUE]
  /\ UNCHANGED <<outsider, row, log, proc, arrived, begun, faults>>

HoldJob(j) ==
  /\ job[j].status \in Waiting /\ ~job[j].held
  /\ faults < MaxFaults /\ faults' = faults + 1
  /\ job' = [job EXCEPT ![j].held = TRUE]
  /\ UNCHANGED <<outsider, row, log, proc, arrived, begun>>

ResumeJob(j) ==
  /\ job[j].held
  /\ job' = [job EXCEPT ![j].held = FALSE]
  /\ UNCHANGED <<outsider, row, log, proc, arrived, begun, faults>>

TakeRoot ==
  /\ outsider = "none" /\ ActiveOnRoot(job, 0) = {}
  /\ faults < MaxFaults /\ faults' = faults + 1
  /\ outsider' \in {"writer", "dispatch"}
  /\ UNCHANGED <<job, row, log, proc, arrived, begun>>

LeaveRoot ==
  /\ outsider # "none" /\ outsider' = "none"
  /\ UNCHANGED <<job, row, log, proc, arrived, begun, faults>>

\* an emergency stop: cancel_unstarted_for_stop, and the notice of the stop
StopTopic(t) ==
  LET hit == {j \in Jobs : TopicOf[j] = t /\ job[j].status \in Waiting /\ ~job[j].held}
      synced == [k \in Keys |-> IF k[2] \in hit /\ k[1] # "stop"
                                THEN SyncJob(row, k[2], "cancelled")[k] ELSE row[k]]
  IN /\ ~Exists(row, <<"stop", t, 0>>)
     /\ faults < MaxFaults /\ faults' = faults + 1
     /\ job' = [j \in Jobs |-> IF j \in hit THEN [job[j] EXCEPT !.status = "cancelled", !.later = FALSE]
                               ELSE job[j]]
     /\ row' = PrepareRow(synced, <<"stop", t, 0>>, "none")
     /\ log' = Append(log, <<"stop", t, 0>>)
     /\ UNCHANGED <<outsider, proc, arrived, begun>>

-----------------------------------------------------------------------------
\* The sender.  A cycle first prepares the delivery waits, then lets the first
\* class with work, counted from its cursor, deliver one row.

TaskClass == 0
Classes == 3

Blocking(j) == job[j].status = "result_ready" /\ job[j].outbox = "unknown" /\ BlocksFifo(job, j)

PrepareWaitEarly(s) ==
  /\ proc[s].pc = "idle"
  /\ \E j \in Jobs :
       /\ job[j].outbox = "pending" /\ ~Exists(row, <<"delivery_wait", j, 0>>)
       /\ row' = PrepareRow(row, <<"delivery_wait", j, 0>>, "none")
       /\ log' = Append(log, <<"delivery_wait", j, 0>>)
  /\ UNCHANGED <<job, outsider, proc, arrived, begun, faults>>

\* prepare_delivery_waits
PrepareWait(s) ==
  /\ proc[s].pc = "idle"
  /\ \E j \in Jobs :
       /\ Blocking(j) /\ ~Exists(row, <<"delivery_wait", j, 0>>)
       /\ row' = PrepareRow(row, <<"delivery_wait", j, 0>>, "none")
       /\ log' = Append(log, <<"delivery_wait", j, 0>>)
  /\ UNCHANGED <<job, outsider, proc, arrived, begun, faults>>

\* recover_expired_notices, the first statement of deliver_task_notice
RecoverKeepsToken(rows) ==
  [k \in Keys |-> IF rows[k].status = "leased" /\ ~rows[k].live
                  THEN [rows[k] EXCEPT !.status = IF rows[k].started THEN "unknown" ELSE "pending"]
                  ELSE rows[k]]

ResendsExpired(rows) ==
  [k \in Keys |-> IF rows[k].status = "leased" /\ ~rows[k].live
                  THEN [rows[k] EXCEPT !.status = "pending", !.token = 0] ELSE rows[k]]

RecoverExpired(rows) ==
  [k \in Keys |-> IF rows[k].status = "leased" /\ ~rows[k].live
                  THEN [rows[k] EXCEPT !.status = IF rows[k].started THEN "unknown" ELSE "pending",
                                       !.token = 0]
                  ELSE rows[k]]

\* the order of lease_notice: notices of a stop first, then the oldest
Ready(rows) == SelectSeq(log, LAMBDA k : rows[k].status = "pending" /\ rows[k].due)
Next1(rows) == LET stops == SelectSeq(Ready(rows), LAMBDA k : k[1] = "stop")
               IN IF stops # << >> THEN Head(stops) ELSE Head(Ready(rows))

\* a delivery of another class comes before the task notices in this cycle
Before(c, d, cursor) == (c + Classes - cursor) % Classes < (d + Classes - cursor) % Classes

WrapsToOne(s, c) ==
  /\ proc[s].pc = "idle"
  /\ c # TaskClass
  /\ Before(TaskClass, c, proc[s].cursor) => Ready(RecoverExpired(row)) = << >>
  /\ row' = IF Before(TaskClass, c, proc[s].cursor) THEN RecoverExpired(row) ELSE row
  /\ proc' = [proc EXCEPT ![s].cursor = IF c = Classes - 1 THEN 1 ELSE c + 1]
  /\ UNCHANGED <<job, outsider, log, arrived, begun, faults>>

\* run_cycle: a root blocker notice or a final result is delivered instead
ServeOther(s, c) ==
  /\ proc[s].pc = "idle"
  /\ c # TaskClass
  /\ Before(TaskClass, c, proc[s].cursor) => Ready(RecoverExpired(row)) = << >>
  /\ row' = IF Before(TaskClass, c, proc[s].cursor) THEN RecoverExpired(row) ELSE row
  /\ proc' = [proc EXCEPT ![s].cursor = (c + 1) % Classes]
  /\ UNCHANGED <<job, outsider, log, arrived, begun, faults>>

\* a cycle in which no class has work still recovers expired rows
EmptyCycle(s) ==
  /\ proc[s].pc = "idle"
  /\ Ready(RecoverExpired(row)) = << >> /\ RecoverExpired(row) # row
  /\ row' = RecoverExpired(row)
  /\ UNCHANGED <<job, outsider, log, proc, arrived, begun, faults>>

Token(s) == CHOOSE n \in 1..(Cardinality(Senders) + MaxFaults + 1) :
              \A k \in Keys : \A p \in Senders : row[k].token # n /\ (p # s => proc[p].token # n)

\* deliver_task_notice: recover, then lease_notice
LeaseNotice(s) ==
  /\ proc[s].pc = "idle"
  /\ LET rows == RecoverExpired(row)
         k == Next1(rows)
         token == Token(s)
     IN /\ Ready(rows) # << >>
        /\ row' = [rows EXCEPT ![k] = [@ EXCEPT !.status = "leased", !.token = token, !.live = TRUE,
                                                !.started = FALSE]]
        /\ proc' = [proc EXCEPT ![s] = [pc |-> "leased", key |-> k, token |-> token,
                                        cursor |-> (TaskClass + 1) % Classes]]
  /\ UNCHANGED <<job, outsider, log, arrived, begun, faults>>

\* begin_send finds an unattempted notice that no longer tells the truth
ValidStates(kind) ==
  IF kind \in {"accepted", "queued"} THEN {"queued", "retry_wait", "leased"} ELSE {"executing"}

Obsolete(k) ==
  /\ row[k].sends = 0 /\ k[1] # "stop"
  /\ IF k[1] = "delivery_wait" THEN ~Blocking(k[2]) ELSE job[k[2]].status \notin ValidStates(k[1])

Holds(s) == LET n == row[proc[s].key] IN n.status = "leased" /\ n.token = proc[s].token

ToIdle(s) == [proc EXCEPT ![s] = [Idle EXCEPT !.cursor = proc[s].cursor]]

BeginSend(s) ==
  LET k == proc[s].key
  IN /\ proc[s].pc = "leased"
     /\ IF Holds(s) /\ row[k].live /\ ~row[k].started
        THEN IF Obsolete(k)
             THEN /\ row' = [row EXCEPT ![k] = [@ EXCEPT !.status = "superseded", !.token = 0, !.live = FALSE]]
                  /\ proc' = ToIdle(s)
             ELSE /\ row' = [row EXCEPT ![k] = [@ EXCEPT !.started = TRUE, !.sends = @ + 1]]
                  /\ proc' = [proc EXCEPT ![s].pc = "sending"]
        ELSE proc' = ToIdle(s) /\ UNCHANGED row    \* superseded meanwhile, or the lease was lost
     /\ UNCHANGED <<job, outsider, log, arrived, begun, faults>>

\* Telegram posts the message; whether the sender hears of it is another matter
Post(s) ==
  /\ proc[s].pc = "sending"
  /\ arrived' = [arrived EXCEPT ![proc[s].key] = @ + 1]
  /\ proc' = [proc EXCEPT ![s].pc = "posted"]
  /\ UNCHANGED <<job, outsider, row, log, begun, faults>>

\* complete_send under the live lease; without it mark_send_unknown follows,
\* which needs the matching begun attempt and raises otherwise
CompleteSend(s) ==
  LET k == proc[s].key
  IN /\ proc[s].pc = "posted"
     /\ row' = [row EXCEPT ![k] =
                  IF Holds(s) /\ row[k].started
                  THEN [@ EXCEPT !.status = IF row[k].live THEN "delivered" ELSE "unknown",
                                 !.token = 0, !.live = FALSE]
                  ELSE @]
     /\ proc' = ToIdle(s)
     /\ UNCHANGED <<job, outsider, log, arrived, begun, faults>>

\* an exception after the request left: no proof either way, posted or not
SendLost(s) ==
  LET k == proc[s].key
  IN /\ proc[s].pc \in {"sending", "posted"}
     /\ faults < MaxFaults /\ faults' = faults + 1
     /\ row' = [row EXCEPT ![k] = IF Holds(s) /\ row[k].started
                                  THEN [@ EXCEPT !.status = "unknown", !.token = 0, !.live = FALSE]
                                  ELSE @]
     /\ proc' = ToIdle(s)
     /\ UNCHANGED <<job, outsider, log, arrived, begun>>

\* Telegram refuses the message: retry_rejected, which needs the live lease
RejectSend(s) ==
  LET k == proc[s].key
  IN /\ proc[s].pc = "sending"
     /\ row' = [row EXCEPT ![k] =
                  IF Holds(s) /\ row[k].live /\ row[k].started
                  THEN [@ EXCEPT !.status = IF row[k].sends >= MaxSends THEN "failed" ELSE "pending",
                                 !.token = 0, !.live = FALSE, !.due = FALSE]
                  ELSE @]
     /\ proc' = ToIdle(s)
     /\ UNCHANGED <<job, outsider, log, arrived, begun, faults>>

RetryDue(k) ==
  /\ row[k].status = "pending" /\ ~row[k].due
  /\ row' = [row EXCEPT ![k].due = TRUE]
  /\ UNCHANGED <<job, outsider, log, proc, arrived, begun, faults>>

\* the lease of a row runs out: its sender is slow ...
LapseNotice(k) ==
  /\ row[k].status = "leased" /\ row[k].live
  /\ faults < MaxFaults /\ faults' = faults + 1
  /\ row' = [row EXCEPT ![k].live = FALSE]
  /\ UNCHANGED <<job, outsider, log, proc, arrived, begun>>

\* ... or dead, and its row is left behind for the successor
Orphan(k) == /\ row[k].status = "leased" /\ row[k].live
             /\ \A s \in Senders : proc[s].pc = "idle" \/ proc[s].key # k \/ proc[s].token # row[k].token

LapseOrphan(k) ==
  /\ Orphan(k)
  /\ row' = [row EXCEPT ![k].live = FALSE]
  /\ UNCHANGED <<job, outsider, log, proc, arrived, begun, faults>>

Crash(s) ==
  /\ proc[s].pc # "idle"
  /\ faults < MaxFaults /\ faults' = faults + 1
  /\ proc' = [proc EXCEPT ![s] = Idle]
  /\ UNCHANGED <<job, outsider, row, log, arrived, begun>>

QueueStep(j) ==
  \/ Admit(j) \/ InputDue(j) \/ LeaseJob(j) \/ StartJob(j) \/ GiveBackJob(j) \/ LapseJob(j)
  \/ EndJob(j) \/ DeliverResult(j) \/ LoseDelivery(j) \/ ReleaseDelivery(j) \/ ResolveJob(j)
  \/ HoldJob(j) \/ ResumeJob(j)

\* what the sender's loop does next; it never waits for anything else
Cycle(s) == \/ LeaseNotice(s) \/ EmptyCycle(s)
            \/ \E c \in 1..(Classes - 1) : ServeOther(s, c)
Attempt(s) == BeginSend(s) \/ Post(s) \/ CompleteSend(s) \/ RejectSend(s)
SenderStep(s) == PrepareWait(s) \/ Cycle(s) \/ Attempt(s) \/ SendLost(s) \/ Crash(s)

Next ==
  \/ \E j \in Jobs : QueueStep(j)
  \/ TakeRoot \/ LeaveRoot
  \/ \E t \in Topics : StopTopic(t)
  \/ \E s \in Senders : SenderStep(s)
  \/ \E k \in Keys : RetryDue(k) \/ LapseNotice(k) \/ LapseOrphan(k)

Spec == Init /\ [][Next]_vars

-----------------------------------------------------------------------------
\* Properties.

RowType == [status : Settled \cup {"absent", "pending", "leased"}, sends : Nat,
            token : 0..(Cardinality(Senders) + MaxFaults + 1), live : BOOLEAN, started : BOOLEAN,
            due : BOOLEAN, reason : Reasons]

(* Every stored notice is well formed: a leased row and only a leased row   *)
(* carries a token, and the creation log names every stored row once.       *)
TypeOK ==
  /\ row \in [Keys -> RowType]
  /\ \A k \in Keys : (row[k].status = "leased") <=> (row[k].token # 0)
  /\ Len(log) = Cardinality({k \in Keys : Exists(row, k)})
  /\ \A k \in Keys : Exists(row, k) => \E i \in DOMAIN log : log[i] = k

(* A notice is posted at most once, however often its sender crashes, loses *)
(* its lease or hears nothing back: only a send that Telegram refused is    *)
(* tried again (recover_expired_notices and mark_send_unknown keep a begun  *)
(* attempt out of the queue).                                               *)
PostedOnce == \A k \in Keys : arrived[k] <= 1

(* The stored outcome tells the truth: delivered means the owner has the    *)
(* message; superseded means that no request ever left, so withdrawing a    *)
(* stale notice never hides one that is already on its way.                 *)
OutcomeIsTrue ==
  \A k \in Keys : /\ row[k].status = "delivered" => arrived[k] = 1
                  /\ row[k].status \in {"superseded", "absent"} =>
                       /\ arrived[k] = 0
                       /\ \A s \in Senders : proc[s].pc = "sending" => proc[s].key # k

(* Once provider work on a job has begun, no untried notice says that it    *)
(* waits: the accepted and queued notices are withdrawn in the transaction  *)
(* that starts the job, and a job that is queued again for a retry does not *)
(* bring them back.                                                         *)
StartIsNotUnsaid ==
    \A j \in begun : \A k \in Keys :
      (k[1] \in {"accepted", "queued"} /\ k[2] = j /\ row[k].sends = 0) => row'[k].sends = 0

(* What a waiting job is told agrees with the scheduler: the notice says    *)
(* that only a worker is missing exactly when the lease query would pick    *)
(* the job, and otherwise names a condition that really holds it back.      *)
ReasonIsWhy ==
  \A j \in Jobs : (job[j].status \in Waiting /\ job[j].tries < MaxAttempts) =>
    LET why == WaitSnapshot(job, outsider, j)
    IN /\ (why = "worker_unknown") <=> Eligible(j)
       /\ why = "root_uncertain" =>
            \E o \in Jobs : job[o].status = "indeterminate" /\ ~job[o].resolved
       /\ why = "delivery_unknown" =>
            \E e \in Jobs : e < j /\ TopicOf[e] = TopicOf[j] /\ Blocking(e)
       /\ why \in {"retry_deadline", "collecting"} => job[j].later

=============================================================================
