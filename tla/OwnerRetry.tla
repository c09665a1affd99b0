----------------------------- MODULE OwnerRetry -----------------------------
(***************************************************************************)
(* The owner's plain "retry" reply.  A Codex job whose preparation failed  *)
(* on the transport leaves a ticket beside its failure notice; a reply to  *)
(* that notice turns the saved text into one new job of the same session,  *)
(* and the worker checks the ticket once more before it prepares that job. *)
(* A reply to another notice of a task only reports on the task.           *)
(*                                                                         *)
(* preexecution_retry_state.py, work_retry_state.py, controller_retry.py,  *)
(* codex_retry_policy.py, and the parts of worker_execution.py, state.py   *)
(* and external_worker.py that prepare, submit and fail a Codex job.       *)
(* Continuations of a turn that is known to have stopped are ProviderQueue.*)
(***************************************************************************)
EXTENDS Naturals, FiniteSets

CONSTANTS
    Jobs,        \* 1..n, in the order of admission
    Replies,     \* the owner's "retry" messages
    Pollers,     \* processes that handle Telegram updates
    MaxAncestry, \* ancestors a retry is followed through (64 in the code)
    MaxFaults,   \* bound: crashes, lost leases and failed calls
    Owner,       \* what else the owner does: OwnerActs
    Legacy       \* job 1 has a ticket of a release that did not check context

OwnerActs == {"materials", "stop", "select", "writer", "lifecycle"}

OwnerAssumption == Owner \subseteq OwnerActs
JobsAreNumbered == IsFiniteSet(Jobs) /\ Jobs = 1..Cardinality(Jobs)

VARIABLES
    job,      \* [Jobs -> row of provider_jobs with the checkpoint's thread]
    run,      \* [Jobs -> the worker that executes the job]
    sess,     \* the row of agent_sessions: provider thread, selection, writer
    ticket,   \* [Jobs -> row of provider_preexecution_retry_tickets]
    child,    \* [Jobs -> provider_preexecution_retries, 0 for no row]
    asked,    \* [Replies -> the notice replied to]
    observed, \* observed_messages
    control,  \* [Replies -> provider_preexecution_retry_controls, 0: no row]
    report,   \* [Replies -> what the retry report says, "none": no report]
    hand,     \* [Pollers -> the update being handled]
    acked,    \* [Pollers -> updates it has confirmed to Telegram]
    turns,    \* history, [Jobs -> threads in which its text was submitted]
    effects,  \* history, [Replies -> committed effects of the message]
    fresh,    \* the next thread identity the provider gives out
    faults    \* faults so far

vars == <<job, run, sess, ticket, child, asked, observed, control, report,
          hand, acked, turns, effects, fresh, faults>>

stored  == <<sess, ticket, child, observed, control, report>>
ingress == <<asked, observed, control, report, hand, acked, effects>>

Selections == {"a", "b"}      \* generation, model, effort, profile, root, route
Threads == 0..(2 * Cardinality(Jobs) + 2)   \* 0: no provider thread yet

Free     == [status |-> "none", code |-> "none", thread |-> 0, select |-> "a",
             parent |-> 0, by |-> 0, saved |-> 0, evidence |-> FALSE,
             materials |-> FALSE, notice |-> "none", stop |-> FALSE]
Idle     == [step |-> "idle", thread |-> 0, error |-> "none"]
NoTicket == [made |-> FALSE, thread |-> 0, select |-> "a"]
NoNotice == [kind |-> "none", job |-> 0]
NoHand   == [step |-> "idle", reply |-> 0, source |-> 0]

Live == {"leased", "executing"}

TypeOK ==
    /\ job \in [Jobs -> [status : {"none", "queued", "failed", "indeterminate",
                                   "cancelled", "done"} \cup Live,
                         code : {"none", "preparation", "binding", "ambiguous"},
                         thread : Threads, select : Selections,
                         parent : Jobs \cup {0}, by : Replies \cup {0},
                         saved : Threads, evidence : BOOLEAN,
                         materials : BOOLEAN, stop : BOOLEAN,
                         notice : {"none", "pending", "delivered"}]]
    /\ run \in [Jobs -> [step : {"idle", "leased", "start", "checked", "opened",
                                 "recorded", "sent", "turn", "failed"},
                         thread : Threads,
                         error : {"none", "transport", "preparation", "binding",
                                  "ambiguous"}]]
    /\ sess \in [thread : Threads, select : Selections,
                 writer : {"telegram", "local"}]
    /\ ticket \in [Jobs -> [made : BOOLEAN, thread : Threads, select : Selections]]
    /\ child \in [Jobs -> Jobs \cup {0}]
    /\ asked \in [Replies -> [kind : {"none", "failure", "lifecycle"},
                              job : Jobs \cup {0}]]
    /\ observed \subseteq Replies
    /\ control \in [Replies -> Jobs \cup {0}]
    /\ report \in [Replies -> {"none", "changed", "running", "queued",
                               "unconfirmed", "ready", "stopped"}]
    /\ hand \in [Pollers -> [step : {"idle", "read", "done"},
                             reply : Replies \cup {0}, source : Jobs \cup {0}]]
    /\ acked \in [Pollers -> SUBSET Replies]
    /\ turns \in [Jobs -> SUBSET Threads]
    /\ effects \in [Replies -> Nat]
    /\ fresh \in Threads
    /\ faults \in 0..MaxFaults
    /\ \A j \in Jobs : child[j] # 0 => job[child[j]].parent = j

\* The ticket of an earlier release, whose preparation replaced thread 1 by 2
\* and saved no context with it; its child may be waiting already, or may have
\* failed the same way.
LegacyJob    == [Free EXCEPT !.status = "failed", !.code = "preparation",
                             !.thread = 1, !.saved = 2, !.notice = "delivered"]
LegacyTicket == [made |-> TRUE, thread |-> 2, select |-> "a"]
LegacyChild(status) ==
    [Free EXCEPT !.status = status, !.thread = 2, !.parent = 1,
                 !.code = IF status = "failed" THEN "preparation" ELSE "none",
                 !.notice = IF status = "failed" THEN "delivered" ELSE "none"]

Init ==
    /\ \E status \in (IF Legacy THEN {"none", "queued", "failed"} ELSE {"none"}) :
        /\ job = [j \in Jobs |->
                    CASE Legacy /\ j = 1 -> LegacyJob
                      [] j = 2 /\ status # "none" -> LegacyChild(status)
                      [] OTHER -> Free]
        /\ child = [j \in Jobs |-> IF j = 1 /\ status # "none" THEN 2 ELSE 0]
        /\ ticket = [j \in Jobs |->
                       IF Legacy /\ (j = 1 \/ (j = 2 /\ status = "failed"))
                       THEN LegacyTicket ELSE NoTicket]
    /\ sess = [thread |-> IF Legacy THEN 2 ELSE 0, select |-> "a",
               writer |-> "telegram"]
    /\ fresh = IF Legacy THEN 3 ELSE 1
    /\ run = [j \in Jobs |-> Idle]
    /\ asked = [r \in Replies |-> NoNotice]
    /\ observed = {}
    /\ control = [r \in Replies |-> 0]
    /\ report = [r \in Replies |-> "none"]
    /\ hand = [p \in Pollers |-> NoHand]
    /\ acked = [p \in Pollers |-> {}]
    /\ turns = [j \in Jobs |-> {}]
    /\ effects = [r \in Replies |-> 0]
    /\ faults = 0

----------------------------------------------------------------------------
\* What a retry needs

\* The d-th ancestor of a job along its retries, 0 beyond the first request.
Ancestor[d \in 0..Cardinality(Jobs), j \in Jobs \cup {0}] ==
    IF d = 0 \/ j = 0 THEN j ELSE Ancestor[d - 1, job[j].parent]

ContextKept_nearest(source, prepared) ==
    job[source].thread \in {0, prepared}

\* _context_refusal returns None: from the job back to the first request, each
\* kept the thread its text was written for.
ContextKept(source, prepared) ==
    \E d \in 0..(MaxAncestry - 1) :
        /\ d <= Cardinality(Jobs)
        /\ Ancestor[d, source] # 0
        /\ job[Ancestor[d, source]].parent = 0
        /\ \A i \in 0..d :
            LET a == Ancestor[i, source] IN
            /\ i > 0 => ticket[a].made
            /\ job[a].thread \in {0, IF i = 0 THEN prepared ELSE ticket[a].thread}

\* record_ticket_in_transaction finds nothing to refuse.
CanSave(j) ==
    /\ ~job[j].materials
    /\ sess.select = job[j].select
    /\ sess.writer = "telegram"
    /\ sess.thread = IF job[j].saved = 0 THEN job[j].thread ELSE job[j].saved
    /\ ContextKept(j, sess.thread)

\* _validate accepts the ticket of the source.
Validates(source) ==
    /\ ticket[source].made
    /\ ~job[source].materials
    /\ job[source].status = "failed"
    /\ job[source].code = "preparation"
    /\ ~job[source].evidence
    /\ ticket[source].select = job[source].select
    /\ ticket[source].select = sess.select
    /\ sess.writer = "telegram"
    /\ sess.thread = ticket[source].thread
    /\ ContextKept(source, ticket[source].thread)

\* require_execution_binding: the child is still what the ticket saved.
ChildIsBound(j) ==
    LET source == job[j].parent IN
    /\ Validates(source)
    /\ job[j].select = ticket[source].select
    /\ ~job[j].materials
    /\ job[j].thread = ticket[source].thread

----------------------------------------------------------------------------
\* Admission

\* persistent_root_blocker and the writer, as admit_in_transaction sees them.
Admits == /\ sess.writer = "telegram"
          /\ \A j \in Jobs : job[j].status # "indeterminate"

Unused   == {j \in Jobs : job[j].status = "none"}
Next1    == CHOOSE j \in Unused : \A k \in Unused : j <= k
Waiting  == {r \in Replies : asked[r].kind # "none" /\ r \notin observed}

Queued_orphan(parent, reply, materials) ==
    [Free EXCEPT !.status = "queued", !.thread = sess.thread,
                 !.select = sess.select, !.by = reply, !.materials = materials]

Queued(parent, reply, materials) ==
    [Free EXCEPT !.status = "queued", !.thread = sess.thread,
                 !.select = sess.select, !.parent = parent, !.by = reply,
                 !.materials = materials]

\* An ordinary request of the owner.
OwnerAsks(materials) ==
    /\ Cardinality(Unused) > Cardinality(Waiting)
    /\ materials => "materials" \in Owner
    /\ Admits
    /\ job' = [job EXCEPT ![Next1] = Queued(0, 0, materials)]
    /\ UNCHANGED <<run, sess, ticket, child, ingress, turns, fresh, faults>>

OwnerStops(j) ==
    /\ "stop" \in Owner
    /\ job[j].status \in {"queued"} \cup Live
    /\ ~job[j].stop
    /\ job' = [job EXCEPT ![j].stop = TRUE,
                          ![j].status = IF @ = "queued" THEN "cancelled" ELSE @]
    /\ UNCHANGED <<run, sess, ticket, child, ingress, turns, fresh, faults>>

\* /model, /effort, another profile or route, and back.
OwnerSelects ==
    /\ "select" \in Owner
    /\ sess' = [sess EXCEPT !.select = IF @ = "a" THEN "b" ELSE "a"]
    /\ faults < MaxFaults
    /\ faults' = faults + 1
    /\ UNCHANGED <<job, run, ticket, child, ingress, turns, fresh>>

\* /local and /return.
OwnerMovesWriter ==
    /\ "writer" \in Owner
    /\ \A j \in Jobs : job[j].status \notin Live
    /\ sess' = [sess EXCEPT !.writer = IF @ = "local" THEN "telegram" ELSE "local"]
    /\ sess.writer = "telegram" => faults < MaxFaults
    /\ faults' = IF sess.writer = "telegram" THEN faults + 1 ELSE faults
    /\ UNCHANGED <<job, run, ticket, child, ingress, turns, fresh>>

----------------------------------------------------------------------------
\* The worker

Working == <<ticket, child, ingress>>

Lease(j) ==
    /\ job[j].status = "queued"
    /\ \A k \in Jobs : job[k].status \notin Live \cup {"indeterminate"}
    /\ \A k \in Jobs : job[k].status = "queued" => j <= k
    /\ job' = [job EXCEPT ![j].status = "leased"]
    /\ run' = [run EXCEPT ![j].step = "leased"]
    /\ UNCHANGED <<sess, Working, turns, fresh, faults>>

\* mark_provider_job_executing with honor_stop.
Execute(j) ==
    /\ run[j].step = "leased"
    /\ job[j].status = "leased"
    /\ job' = [job EXCEPT ![j].status = IF job[j].stop THEN "cancelled" ELSE "executing"]
    /\ run' = [run EXCEPT ![j].step = IF job[j].stop THEN "idle" ELSE "start"]
    /\ UNCHANGED <<sess, Working, turns, fresh, faults>>

Failing(j, error) == run' = [run EXCEPT ![j].step = "failed", ![j].error = error]

\* validate_provider_worker_binding.
CheckBinding(j) ==
    /\ run[j].step = "start"
    /\ IF job[j].parent = 0 \/ ChildIsBound(j)
       THEN run' = [run EXCEPT ![j].step = "checked"]
       ELSE Failing(j, "binding")
    /\ UNCHANGED <<job, sess, Working, turns, fresh, faults>>

\* open_codex_provider_thread; on the fallback transport an ordinary job gets a
\* substitute thread, and a saved retry refuses one.
OpenThread(j, fallback) ==
    /\ run[j].step = "checked"
    /\ fallback => job[j].thread # 0
    /\ IF fallback /\ job[j].parent # 0
       THEN Failing(j, "binding") /\ UNCHANGED fresh
       ELSE IF fallback \/ job[j].thread = 0
       THEN /\ run' = [run EXCEPT ![j].step = "opened", ![j].thread = fresh]
            /\ fresh' = fresh + 1
       ELSE /\ run' = [run EXCEPT ![j].step = "opened", ![j].thread = job[j].thread]
            /\ UNCHANGED fresh
    /\ UNCHANGED <<job, sess, Working, turns, faults>>

\* ExecutionJournal.record_thread, under the job's lease.
RecordThread(j) ==
    /\ run[j].step = "opened"
    /\ IF job[j].status = "executing" /\ sess.writer = "telegram"
                                      /\ sess.select = job[j].select
       THEN /\ job' = [job EXCEPT ![j].saved = run[j].thread]
            /\ sess' = [sess EXCEPT !.thread = run[j].thread]
            /\ run' = [run EXCEPT ![j].step = "recorded"]
       ELSE Failing(j, "preparation") /\ UNCHANGED <<job, sess>>
    /\ UNCHANGED <<Working, turns, fresh, faults>>

\* A call of the preparation fails: lost transport, or anything else.
PreparationFails(j, error) ==
    /\ run[j].step \in {"checked", "opened", "recorded"}
    /\ faults < MaxFaults
    /\ faults' = faults + 1
    /\ Failing(j, error)
    /\ UNCHANGED <<job, sess, Working, turns, fresh>>

\* turn/start leaves the worker.
Submit(j) ==
    /\ run[j].step = "recorded"
    /\ turns' = [turns EXCEPT ![j] = @ \cup {run[j].thread}]
    /\ run' = [run EXCEPT ![j].step = "sent"]
    /\ UNCHANGED <<job, sess, Working, fresh, faults>>

\* An approval is asked for before turn/start is answered.
EarlyRequest(j) ==
    /\ run[j].step = "sent"
    /\ job[j].status = "executing"
    /\ ~job[j].evidence
    /\ job' = [job EXCEPT ![j].evidence = TRUE]
    /\ UNCHANGED <<run, sess, Working, turns, fresh, faults>>

\* turn/start is answered: ExecutionJournal.record_turn, under the lease.
Accepted(j) ==
    /\ run[j].step = "sent"
    /\ IF job[j].status = "executing"
       THEN /\ job' = [job EXCEPT ![j].evidence = TRUE]
            /\ run' = [run EXCEPT ![j].step = "turn"]
       ELSE Failing(j, "ambiguous") /\ UNCHANGED job
    /\ UNCHANGED <<sess, Working, turns, fresh, faults>>

TurnIsLost_prepared(j) ==
    /\ run[j].step \in {"sent", "turn"}
    /\ faults < MaxFaults
    /\ faults' = faults + 1
    /\ Failing(j, IF run[j].step = "sent" THEN "transport" ELSE "ambiguous")
    /\ UNCHANGED <<job, sess, Working, turns, fresh>>

\* The answer to turn/start, or the turn, is lost.
TurnIsLost(j) ==
    /\ run[j].step \in {"sent", "turn"}
    /\ faults < MaxFaults
    /\ faults' = faults + 1
    /\ Failing(j, "ambiguous")
    /\ UNCHANGED <<job, sess, Working, turns, fresh>>

Finish(j) ==
    /\ run[j].step = "turn"
    /\ run' = [run EXCEPT ![j] = Idle]
    /\ job' = [job EXCEPT ![j].status = IF @ = "executing" THEN "done" ELSE @]
    /\ UNCHANGED <<sess, Working, turns, fresh, faults>>

\* preparation_retry_binding: only a lost transport gives a ticket.
GivesTicket(error) == error = "transport"

\* classify_worker_failure: these never reached turn/start.
PreExecution(error) == error \in {"transport", "preparation", "binding"}

\* terminate_provider_job_with_notice, in one transaction.
RecordFailure(j) ==
    LET error  == run[j].error
        failed == PreExecution(error) /\ ~job[j].evidence IN
    /\ run[j].step = "failed"
    /\ run' = [run EXCEPT ![j] = Idle]
    /\ IF job[j].status # "executing"
       THEN UNCHANGED <<job, ticket>>
       ELSE IF failed /\ job[j].stop
       THEN job' = [job EXCEPT ![j].status = "cancelled"] /\ UNCHANGED ticket
       ELSE /\ job' = [job EXCEPT
                  ![j].status = IF failed THEN "failed" ELSE "indeterminate",
                  ![j].code = IF ~failed THEN "ambiguous"
                              ELSE IF error = "binding" THEN "binding"
                              ELSE "preparation",
                  ![j].notice = "pending"]
            /\ ticket' = IF failed /\ GivesTicket(error) /\ CanSave(j)
                         THEN [ticket EXCEPT ![j] = [made |-> TRUE,
                                                     thread |-> sess.thread,
                                                     select |-> job[j].select]]
                         ELSE ticket
    /\ UNCHANGED <<sess, child, ingress, turns, fresh, faults>>

WorkerDies(j) ==
    /\ run[j].step # "idle"
    /\ faults < MaxFaults
    /\ faults' = faults + 1
    /\ run' = [run EXCEPT ![j] = Idle]
    /\ UNCHANGED <<job, sess, Working, turns, fresh>>

\* The lease runs out, of a dead worker or of one that is only slow: a leased
\* job is queued again, an executing one is unconfirmed.
LeaseExpires(j) ==
    /\ job[j].status \in Live
    /\ run[j].step # "idle" => faults < MaxFaults
    /\ faults' = IF run[j].step # "idle" THEN faults + 1 ELSE faults
    /\ job' = [job EXCEPT ![j].status = IF @ = "executing" THEN "indeterminate"
                                        ELSE IF job[j].stop THEN "cancelled"
                                        ELSE "queued",
                          ![j].code = IF job[j].status = "executing"
                                      THEN "ambiguous" ELSE @,
                          ![j].notice = IF job[j].status = "executing"
                                        THEN "pending" ELSE @]
    /\ run' = IF job[j].status = "leased" THEN [run EXCEPT ![j] = Idle] ELSE run
    /\ UNCHANGED <<sess, Working, turns, fresh>>

DeliverNotice(j) ==
    /\ job[j].notice = "pending"
    /\ job' = [job EXCEPT ![j].notice = "delivered"]
    /\ UNCHANGED <<run, sess, Working, turns, fresh, faults>>

----------------------------------------------------------------------------
\* The owner's reply

OwnerReplies(r, kind, j) ==
    /\ asked[r].kind = "none"
    /\ kind = "lifecycle" => kind \in Owner
    /\ Cardinality(Unused) > Cardinality(Waiting)
    /\ job[j].status # "none"
    /\ kind = "failure" => job[j].notice = "delivered"
    /\ asked' = [asked EXCEPT ![r] = [kind |-> kind, job |-> j]]
    /\ UNCHANGED <<job, run, stored, hand, acked, turns, effects, fresh, faults>>

\* PreexecutionRetryState.source_for_notice.
Source(r) ==
    LET j == asked[r].job IN
    IF /\ asked[r].kind = "failure"
       /\ job[j].notice = "delivered"
       /\ job[j].status = "failed"
    THEN j ELSE 0

\* ControllerRetryOrchestrator.handle, up to its first write.
TakeReply(p, r) ==
    /\ hand[p].step = "idle"
    /\ asked[r].kind # "none"
    /\ r \notin acked[p]
    /\ hand' = [hand EXCEPT ![p] =
                   IF r \in observed
                   THEN [step |-> "done", reply |-> r, source |-> 0]
                   ELSE [step |-> "read", reply |-> r, source |-> Source(r)]]
    /\ UNCHANGED <<job, run, stored, asked, acked, turns, effects, fresh, faults>>

Handled(p) == hand' = [hand EXCEPT ![p].step = "done"]

\* Written(r): the transaction observes the message and has an effect.
Written(r) ==
    /\ observed' = observed \cup {r}
    /\ effects' = [effects EXCEPT ![r] = @ + 1]

Rejected_unclaimed(r) == UNCHANGED <<observed, effects, job, child, control, report>>

\* _reject: the message is claimed unless it was handled meanwhile.
Rejected(r) ==
    /\ IF r \in observed THEN UNCHANGED <<observed, effects>> ELSE Written(r)
    /\ UNCHANGED <<job, child, control, report>>

CanRetry_observed(r, source) ==
    /\ Source(r) = source
    /\ Validates(source)
    /\ Admits

\* The reply and its earlier use agree, as _control and the admission check.
CanRetry(r, source) ==
    /\ Source(r) = source
    /\ Validates(source)
    /\ r \notin observed
    /\ Admits

\* retry_from_notice, one transaction; a refusal is claimed in another.
DecideRetry(p) ==
    LET r == hand[p].reply
        source == hand[p].source IN
    /\ hand[p].step = "read"
    /\ source # 0
    /\ IF Source(r) = source /\ child[source] # 0
       THEN /\ IF control[r] # 0 \/ r \in observed
               THEN UNCHANGED <<observed, effects, control>>
               ELSE Written(r) /\ control' = [control EXCEPT ![r] = source]
            /\ UNCHANGED <<job, child, report>>
       ELSE IF CanRetry(r, source)
       THEN /\ job' = [job EXCEPT ![Next1] = Queued(source, r, FALSE)]
            /\ child' = [child EXCEPT ![source] = Next1]
            /\ control' = [control EXCEPT ![r] = source]
            /\ Written(r)
            /\ UNCHANGED report
       ELSE Rejected(r)
    /\ Handled(p)
    /\ UNCHANGED <<run, sess, ticket, asked, acked, turns, fresh, faults>>

\* WorkRetryState._text
ReportText(j) ==
    IF sess.select # job[j].select \/ sess.writer # "telegram"
       \/ job[j].thread \notin {0, sess.thread} THEN "changed"
    ELSE CASE job[j].status = "executing" -> IF run[j].step = "idle" THEN "unconfirmed"
                                             ELSE "running"
           [] job[j].status \in {"queued", "leased"} -> "queued"
           [] job[j].status = "indeterminate" -> "unconfirmed"
           [] job[j].status = "done" -> "ready"
           [] OTHER -> "stopped"

\* report_from_notice, or the rejection of a reply that names no task.
DecideReport(p) ==
    LET r == hand[p].reply IN
    /\ hand[p].step = "read"
    /\ hand[p].source = 0
    /\ IF asked[r].kind = "lifecycle"
       THEN /\ IF report[r] # "none" \/ r \in observed
               THEN UNCHANGED <<observed, effects, report>>
               ELSE /\ Written(r)
                    /\ report' = [report EXCEPT ![r] = ReportText(asked[r].job)]
            /\ UNCHANGED <<job, child, control>>
       ELSE Rejected(r)
    /\ Handled(p)
    /\ UNCHANGED <<run, sess, ticket, asked, acked, turns, fresh, faults>>

\* The update is confirmed to Telegram by the next poll.
Confirm(p) ==
    /\ hand[p].step = "done"
    /\ hand' = [hand EXCEPT ![p] = NoHand]
    /\ acked' = [acked EXCEPT ![p] = @ \cup {hand[p].reply}]
    /\ UNCHANGED <<job, run, stored, asked, turns, effects, fresh, faults>>

\* The process dies, or the database refuses the transaction: the update comes
\* again.
PollerFails(p) ==
    /\ hand[p].step # "idle"
    /\ faults < MaxFaults
    /\ faults' = faults + 1
    /\ hand' = [hand EXCEPT ![p] = NoHand]
    /\ UNCHANGED <<job, run, stored, asked, acked, turns, effects, fresh>>

Handle(p) == \/ \E r \in Replies : TakeReply(p, r)
             \/ DecideRetry(p)
             \/ DecideReport(p)
             \/ Confirm(p)

Work(j) == \/ Lease(j)
           \/ Execute(j)
           \/ CheckBinding(j)
           \/ \E fallback \in BOOLEAN : OpenThread(j, fallback)
           \/ RecordThread(j)
           \/ Submit(j)
           \/ Accepted(j)
           \/ Finish(j)
           \/ RecordFailure(j)
           \/ DeliverNotice(j)

Next ==
    \/ \E materials \in BOOLEAN : OwnerAsks(materials)
    \/ OwnerSelects
    \/ OwnerMovesWriter
    \/ \E j \in Jobs :
        \/ Work(j)
        \/ OwnerStops(j)
        \/ \E error \in {"transport", "preparation"} : PreparationFails(j, error)
        \/ EarlyRequest(j)
        \/ TurnIsLost(j)
        \/ WorkerDies(j)
        \/ LeaseExpires(j)
        \/ \E r \in Replies, kind \in {"failure", "lifecycle"} :
            OwnerReplies(r, kind, j)
    \/ \E p \in Pollers : Handle(p) \/ PollerFails(p)

Spec == Init /\ [][Next]_vars

----------------------------------------------------------------------------
\* Properties

Origin(j) == LET d == CHOOSE d \in 0..Cardinality(Jobs) :
                          Ancestor[d, j] # 0 /\ job[Ancestor[d, j]].parent = 0
             IN Ancestor[d, j]

Asked == {j \in Jobs : job[j].status # "none"}

\* One request is submitted to the provider at most once, however often its
\* preparation is retried, replies are repeated, and workers die or lose their
\* lease between preparing, submitting and recording the outcome.
RunOnce ==
    \A j, k \in Asked :
        /\ Cardinality(turns[j]) <= 1
        /\ turns[j] # {} /\ turns[k] # {} /\ Origin(j) = Origin(k) => j = k

\* A retried text is submitted only in the thread whose conversation it was
\* written for; a text written for a new thread may run in any.
ContextIsWhole ==
    \A j \in Asked :
        job[j].parent # 0 /\ job[Origin(j)].thread # 0
            => turns[j] \subseteq {job[Origin(j)].thread}

\* A reply has one committed effect: a retry, a note that there is one already,
\* a report or a refusal, also when two processes handle it or it comes again.
RepliedOnce == \A r \in Replies : effects[r] <= 1

============================================================================
