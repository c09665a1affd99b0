----------------------------- MODULE ProviderQueue -----------------------------
(***************************************************************************)
(* The durable provider-job queue of the Hub: the SQLite job table, the    *)
(* worker processes that lease jobs from it and call a provider, same-turn *)
(* steering, emergency stops, holds, owner resolutions and writer          *)
(* transfers.  Every database operation of the source is one immediate     *)
(* SQLite transaction and so one atomic step here; what a worker does      *)
(* between two transactions (a provider call, a crash) is a step of its    *)
(* own.                                                                    *)
(*                                                                         *)
(* Job identifiers are 1..MaxJobs in creation order, so that the order of  *)
(* created_at, and of topic_sequence inside a topic, is the order of the   *)
(* numbers.  Clocks are abstracted to two flags: "due" (next_attempt_at is *)
(* null or has passed) and the lease's "exp" (lease_expires_at has         *)
(* passed).  An operation that samples its clock before it waits for the   *)
(* write lock (commit, terminate, retry, indeterminate) can still pass its *)
(* expiry test after the lease ran out, so it has no guard on exp; one     *)
(* that samples inside the lock (mark_executing, start_steer) has.         *)
(***************************************************************************)
EXTENDS Naturals, FiniteSets

CONSTANTS
    MaxJobs,        \* bound on the jobs ever admitted
    MaxStops,       \* bound on the emergency stops ever requested
    MaxTokens,      \* bound on the leases (uuid tokens) granted per job
    MaxAttempts,    \* provider_jobs.max_attempts of an ordinary job
    Topics,         \* Telegram topics
    Scopes,         \* execution scopes (canonical roots)
    ScopeOf,        \* [Topics -> Scopes]
    Agents,         \* configured provider agents
    Bindings,       \* agent, session, generation, model, effort, ingress of a job
    AgentOf,        \* [Bindings -> Agents]
    Workers,        \* worker processes
    NoWorker,       \* a lease without a worker (null, or a steering lease)
    WorkerAgent,    \* [Workers -> Agents]
    Resolutions,    \* an owner's classifications of an uncertain job
    AvailableNow,   \* {TRUE}, or BOOLEAN where input may wait for its batch window
    JournalAgents,  \* agents with an execution journal (codex and claude)
    SteerAgents,    \* agents whose transport can steer a running turn
    MaxRoots,       \* max_parallel_roots
    Capacity        \* [Agents -> parallel jobs of the agent]

Jobs == 1..MaxJobs
Stops == 1..MaxStops
Waiting == {"queued", "retry_wait"}
Active == {"leased", "executing"}
Settled == {"completed", "failed", "cancelled"}
Status == Waiting \cup Active \cup Settled
              \cup {"absent", "result_ready", "indeterminate"}

ASSUME BoundsAssumption ==
    /\ MaxJobs \in Nat
    /\ MaxStops \in Nat
    /\ MaxTokens \in Nat
    /\ MaxAttempts \in Nat \ {0}
    /\ MaxRoots \in Nat \ {0}
ASSUME TopologyAssumption ==
    /\ ScopeOf \in [Topics -> Scopes]
    /\ AgentOf \in [Bindings -> Agents]
    /\ WorkerAgent \in [Workers -> Agents]
    /\ Capacity \in [Agents -> Nat]
    /\ JournalAgents \subseteq Agents
    /\ SteerAgents \subseteq Agents
    /\ NoWorker \notin Workers
    /\ "none" \notin Resolutions
    /\ AvailableNow \subseteq BOOLEAN
    /\ Topics # {}
    /\ Bindings # {}

VARIABLES
    status,      \* provider_jobs.status, "absent" before admission
    topic,       \* provider_jobs.topic_id
    binding,     \* the fields steering compares: agent, session, model, ...
    cont,        \* the job an owner-requested continuation continues, or 0
    mailed,      \* jobs with a telegram_outbox row: a result or a notice
    attempts,    \* provider_jobs.attempt_count
    due,         \* next_attempt_at is null or has passed
    lease,       \* lease_token, lease_owner and whether it has expired
    tokens,      \* leases granted so far per job: the supply of fresh tokens
    hold,        \* provider_job_holds.decision
    evidence,    \* jobs with a provider_turn_terminal_evidence row
    resolution,  \* provider_job_resolutions
    parked,      \* operator disposition of a saved, undelivered result
    checkpoint,  \* jobs with a journaled provider turn
    stop,        \* provider_stop_requests and the jobs each one covers
    writer,      \* topics whose session is written locally, not by Telegram
    worker,      \* what each worker process believes it is doing
    steer,       \* the steering thread of each worker
    calls,       \* provider inputs of the job that may have been accepted
    live         \* jobs whose own provider turn is running now

rowVars == <<topic, binding, cont, mailed>>
leaseVars == <<attempts, due, lease, tokens>>
ownerVars == <<hold, evidence, resolution, parked>>
procVars == <<worker, steer>>
provVars == <<calls, live, checkpoint>>
vars == <<status, rowVars, leaseVars, ownerVars, stop, writer, procVars, provVars>>

-----------------------------------------------------------------------------
NoLease == [tok |-> 0, own |-> NoWorker, exp |-> FALSE]
NoWork == [ph |-> "idle", job |-> 0, tok |-> 0]
NoSteer == [ph |-> "idle", job |-> 0, tok |-> 0, par |-> 0]
SteerOff == [ph |-> "off", job |-> 0, tok |-> 0, par |-> 0]
NullTopic == CHOOSE t \in Topics : TRUE       \* of a row that does not exist yet
NullBinding == CHOOSE b \in Bindings : TRUE
NoStop == [state |-> "absent", topic |-> NullTopic, covered |-> {}]

WorkerPhases == {"leased", "started", "called", "turn", "recover"}
SteerPhases == {"leased", "started", "accepted", "rejected", "unknown"}

LeaseTable == [Jobs -> [tok : Nat, own : Workers \cup {NoWorker}, exp : BOOLEAN]]
HoldTable == [Jobs -> {"none", "pending", "confirmed", "cancelled"}]
StopTable == [Stops -> [state : {"absent", "pending", "completed"},
                        topic : Topics, covered : SUBSET Jobs]]
WorkerTable == [Workers -> {NoWork} \cup [ph : WorkerPhases, job : Jobs, tok : Nat]]
SteerTable == [Workers -> {NoSteer, SteerOff}
                  \cup [ph : SteerPhases, job : Jobs, tok : Nat, par : Jobs]]

TypeOK ==
    /\ status \in [Jobs -> Status]
    /\ topic \in [Jobs -> Topics]
    /\ binding \in [Jobs -> Bindings]
    /\ cont \in [Jobs -> Jobs \cup {0}]
    /\ mailed \subseteq Jobs
    /\ attempts \in [Jobs -> Nat]
    /\ due \in [Jobs -> BOOLEAN]
    /\ lease \in LeaseTable
    /\ tokens \in [Jobs -> Nat]
    /\ hold \in HoldTable
    /\ evidence \subseteq Jobs
    /\ resolution \in [Jobs -> Resolutions \cup {"none"}]
    /\ parked \in [Jobs -> {"no", "released", "reconciled"}]
    /\ checkpoint \subseteq Jobs
    /\ stop \in StopTable
    /\ writer \subseteq Topics
    /\ worker \in WorkerTable
    /\ steer \in SteerTable
    /\ calls \in [Jobs -> Nat]
    /\ live \subseteq Jobs

Init ==
    /\ status = [j \in Jobs |-> "absent"]
    /\ topic = [j \in Jobs |-> NullTopic]
    /\ binding = [j \in Jobs |-> NullBinding]
    /\ cont = [j \in Jobs |-> 0]
    /\ mailed = {}
    /\ attempts = [j \in Jobs |-> 0]
    /\ due = [j \in Jobs |-> TRUE]
    /\ lease = [j \in Jobs |-> NoLease]
    /\ tokens = [j \in Jobs |-> 0]
    /\ hold = [j \in Jobs |-> "none"]
    /\ evidence = {}
    /\ resolution = [j \in Jobs |-> "none"]
    /\ parked = [j \in Jobs |-> "no"]
    /\ checkpoint = {}
    /\ stop = [s \in Stops |-> NoStop]
    /\ writer = {}
    /\ worker = [w \in Workers |-> NoWork]
    /\ steer = [w \in Workers |-> NoSteer]
    /\ calls = [j \in Jobs |-> 0]
    /\ live = {}

-----------------------------------------------------------------------------
(* Predicates shared by the transactions.                                    *)

Scope(j) == ScopeOf[topic[j]]
Agent(j) == AgentOf[binding[j]]
Exists(j) == status[j] # "absent"
MaxAttemptsOf(j) == IF cont[j] # 0 THEN 1 ELSE MaxAttempts

\* Mutant: a journaled turn counts as settled.
UncertainUnlessJournaled(j) == /\ status[j] = "indeterminate"
                               /\ j \notin evidence \cup checkpoint
                               /\ resolution[j] = "none"

\* An indeterminate job nobody has resolved and no evidence has settled.
Uncertain(j) == /\ status[j] = "indeterminate"
                /\ j \notin evidence
                /\ resolution[j] = "none"

\* persistent_root_blocker: a local writer or an unresolved uncertain job.
RootBlocked(sc) == \/ \E t \in writer : ScopeOf[t] = sc
                   \/ \E j \in Jobs : Uncertain(j) /\ Scope(j) = sc

\* job_blocks_topic_fifo
BlocksFifo(j) == /\ status[j] \notin Settled \cup {"absent", "indeterminate"}
                 /\ ~(status[j] = "result_ready" /\ parked[j] # "no")

Unheld(j) == hold[j] # "pending"
LiveLease(j) == status[j] \in Active /\ ~lease[j].exp

\* Work of a stop that can still start or run, in the tables st, ev and res.
Unfinished(j, st, ev, res) ==
    \/ st[j] \in Waiting \cup Active
    \/ st[j] = "indeterminate" /\ j \notin ev /\ res[j] = "none"

\* complete_finished_stops on the topics ts.
CompleteStops(stp, ts, st, ev, res) ==
    [s \in Stops |->
        IF /\ stp[s].state = "pending"
           /\ stp[s].topic \in ts
           /\ \A j \in stp[s].covered : ~Unfinished(j, st, ev, res)
        THEN [stp[s] EXCEPT !.state = "completed"]
        ELSE stp[s]]

\* Mutants: the lookup misses leased, or executing, jobs.
PendingStopNotLeased(j) ==
    \E s \in Stops : stop[s].state = "pending" /\ j \in stop[s].covered /\ status[j] # "leased"
PendingStopNotRunning(j) ==
    \E s \in Stops : stop[s].state = "pending" /\ j \in stop[s].covered /\ status[j] # "executing"

\* pending_stop_for_job
PendingStop(j) == \E s \in Stops : stop[s].state = "pending" /\ j \in stop[s].covered

\* Mutant: a saved result that is not delivered yet does not block its topic.
FifoHeadSkipsResults(j) ==
    ~\E k \in Jobs : k < j /\ topic[k] = topic[j] /\ BlocksFifo(k) /\ status[k] # "result_ready"

\* First in its topic, and behind no held job of its scope.
FifoHead(j) ==
    /\ ~\E k \in Jobs : k < j /\ topic[k] = topic[j] /\ BlocksFifo(k)
    /\ ~\E k \in Jobs : /\ k < j /\ Exists(k) /\ Scope(k) = Scope(j)
                        /\ status[k] \in Waiting /\ ~Unheld(k)

\* Mutants: only running jobs, or only jobs with a lease, keep the root.
RootBusyExecuting(j) ==
    \E k \in Jobs \ {j} : Scope(k) = Scope(j) /\ (status[k] = "executing" \/ Uncertain(k))
RootBusyLeased(j) ==
    \E k \in Jobs \ {j} : /\ Scope(k) = Scope(j)
                          /\ status[k] = "executing" \/ (status[k] = "leased" /\ ~lease[k].exp)

\* Another job of the scope runs, is about to, or may still be running.
RootBusy(j) ==
    \E k \in Jobs \ {j} :
        /\ Exists(k) /\ Scope(k) = Scope(j)
        /\ \/ status[k] = "executing"
           \/ status[k] = "leased" /\ ~lease[k].exp
           \/ Uncertain(k)

\* _ELIGIBLE_PROVIDER_JOB_SQL
Eligible(j) ==
    /\ status[j] \in Waiting
    /\ due[j]
    /\ attempts[j] < MaxAttemptsOf(j)
    /\ Unheld(j)
    /\ cont[j] # 0 \/ FifoHead(j)
    /\ ~RootBusy(j)
    /\ ~\E t \in writer : ScopeOf[t] = Scope(j)

OccupiedRoots == {Scope(j) : j \in {k \in Jobs : LiveLease(k)}}
AgentLoad(a) == Cardinality({j \in Jobs : LiveLease(j) /\ Agent(j) = a})
WorkerBusy(w) == \E j \in Jobs : LiveLease(j) /\ lease[j].own = w

\* Mutant: the reason of the hold lands in the column of its decision.
HoldAllReason(js) == [j \in Jobs |->
    IF j \in js /\ status[j] \in Waiting /\ hold[j] = "none" THEN "uncertainty" ELSE hold[j]]

\* The hold rows a transaction inserts for the jobs in js that have none.
HoldAll(js) == [j \in Jobs |->
    IF j \in js /\ status[j] \in Waiting /\ hold[j] = "none" THEN "pending" ELSE hold[j]]

-----------------------------------------------------------------------------
(* Admission.                                                                *)

Free(j) == status[j] = "absent" /\ \A k \in Jobs : k < j => Exists(k)

Insert(j, t, b, now) ==
    /\ Free(j)
    /\ status' = [status EXCEPT ![j] = "queued"]
    /\ topic' = [topic EXCEPT ![j] = t]
    /\ binding' = [binding EXCEPT ![j] = b]
    /\ due' = [due EXCEPT ![j] = now]
    /\ UNCHANGED <<mailed, attempts, lease, tokens, ownerVars, stop, procVars, provVars>>

\* enqueue_provider_job: refused behind a local writer or an uncertain job.
\* A batched input becomes available later (now = FALSE).
Enqueue(j, t, b, now) ==
    /\ ~RootBlocked(ScopeOf[t])
    /\ Insert(j, t, b, now)
    /\ UNCHANGED <<cont, writer>>

\* The take_local_writer admission: a Telegram message returns the topic's
\* session to Telegram and is queued in the same transaction.
EnqueueTakeover(j, t, b) ==
    /\ t \in writer
    /\ ~\E k \in Jobs : /\ topic[k] = t
                        /\ status[k] \in Waiting \cup Active \cup {"result_ready"}
                        /\ ~(status[k] = "result_ready" /\ parked[k] = "reconciled")
    /\ Insert(j, t, b, TRUE)
    /\ writer' = writer \ {t}
    /\ UNCHANGED cont

\* continue_from_notice: one new turn after confirmed terminal evidence for an
\* old one, ahead of the held queue of the scope.
Continue(src, j) ==
    /\ status[src] = "indeterminate"
    /\ src \in evidence
    /\ topic[src] \notin writer
    /\ ~\E k \in Jobs : cont[k] = src
    /\ ~\E k \in Jobs \ {src} :
          /\ Exists(k) /\ Scope(k) = Scope(src)
          /\ \/ status[k] \in Active
             \/ status[k] = "result_ready" /\ parked[k] # "reconciled"
             \/ status[k] \in Waiting /\ Unheld(k)
             \/ Uncertain(k)
    /\ ~\E t \in writer : ScopeOf[t] = Scope(src)
    /\ Insert(j, topic[src], binding[src], TRUE)
    /\ cont' = [cont EXCEPT ![j] = src]
    /\ UNCHANGED writer

\* The batch window or the retry delay of a job runs out.
BecomeDue(j) ==
    /\ status[j] \in Waiting
    /\ ~due[j]
    /\ due' = [due EXCEPT ![j] = TRUE]
    /\ UNCHANGED <<status, rowVars, attempts, lease, tokens, ownerVars, stop, writer,
                   procVars, provVars>>

\* cancel: only waiting work.
Cancel(j) ==
    /\ status[j] \in Waiting
    /\ status' = [status EXCEPT ![j] = "cancelled"]
    /\ due' = [due EXCEPT ![j] = TRUE]
    /\ stop' = CompleteStops(stop, {topic[j]}, status', evidence, resolution)
    /\ UNCHANGED <<rowVars, attempts, lease, tokens, ownerVars, writer, procVars, provVars>>

-----------------------------------------------------------------------------
(* A worker's cycle: lease, start, call the provider, commit the outcome.     *)

JobOf(w) == worker[w].job
\* The lease token the worker still holds is the one in the table.
Owns(w) == worker[w].ph # "idle" /\ lease[JobOf(w)].tok = worker[w].tok
OwnsIn(w, st) == Owns(w) /\ status[JobOf(w)] = st
SteerQuiet(w) == steer[w].ph \in {"idle", "off"}

\* The worker is done with its job.  It has asked its steering thread to stop; a
\* thread that does not end in time (stop_and_join) is left to itself.
Rest(w) == /\ worker' = [worker EXCEPT ![w] = NoWork]
           /\ steer' = [steer EXCEPT ![w] = IF SteerQuiet(w) THEN NoSteer ELSE @]

SteerDone(w, rec) == steer' = [steer EXCEPT ![w] = rec]

\* The row update of every transaction that takes a job out of a lease.
Leave(j, st) == /\ status' = [status EXCEPT ![j] = st]
                /\ lease' = [lease EXCEPT ![j] = NoLease]

\* lease: capacity, idle worker, agent capacity, then the oldest eligible job.
Lease(w, j) ==
    /\ worker[w].ph = "idle"
    /\ Cardinality(OccupiedRoots) < MaxRoots
    /\ ~WorkerBusy(w)
    /\ AgentLoad(WorkerAgent[w]) < Capacity[WorkerAgent[w]]
    /\ Eligible(j) /\ Agent(j) = WorkerAgent[w]
    /\ \A k \in Jobs : Eligible(k) /\ Agent(k) = WorkerAgent[w] => j <= k
    /\ tokens[j] < MaxTokens
    /\ status' = [status EXCEPT ![j] = "leased"]
    /\ tokens' = [tokens EXCEPT ![j] = @ + 1]
    /\ lease' = [lease EXCEPT ![j] = [tok |-> tokens'[j], own |-> w, exp |-> FALSE]]
    /\ worker' = [worker EXCEPT ![w] = [ph |-> "leased", job |-> j, tok |-> tokens'[j]]]
    /\ UNCHANGED <<rowVars, attempts, due, ownerVars, stop, writer, steer, provVars>>

\* release_lease: the worker is told to drain between lease and start.
ReleaseLease(w) ==
    /\ worker[w].ph = "leased"
    /\ OwnsIn(w, "leased")
    /\ Leave(JobOf(w), "queued")
    /\ Rest(w)
    /\ UNCHANGED <<rowVars, attempts, due, tokens, ownerVars, stop, writer, provVars>>

\* mark_executing(honor_stop): a covering stop cancels the job, otherwise an
\* unexpired lease starts it.
MarkExecuting(w) ==
    LET j == JobOf(w) IN
    /\ worker[w].ph = "leased"
    /\ OwnsIn(w, "leased")
    /\ IF PendingStop(j)
       THEN /\ Leave(j, "cancelled")
            /\ stop' = CompleteStops(stop, {topic[j]}, status', evidence, resolution)
            /\ Rest(w)
            /\ UNCHANGED attempts
       ELSE /\ ~lease[j].exp
            /\ attempts[j] < MaxAttemptsOf(j)
            /\ status' = [status EXCEPT ![j] = "executing"]
            /\ attempts' = [attempts EXCEPT ![j] = @ + 1]
            /\ worker' = [worker EXCEPT ![w].ph = "started"]
            /\ UNCHANGED <<lease, stop, steer>>
    /\ UNCHANGED <<rowVars, due, tokens, ownerVars, writer, provVars>>

\* start_codex_provider_turn / invoke_external_provider_turn: the input may be
\* accepted and run, or be refused.  The call does not look at the lease.
CallProvider(w, accepted) ==
    LET j == JobOf(w) IN
    /\ worker[w].ph = "started"
    /\ worker' = [worker EXCEPT ![w].ph = "called"]
    /\ IF accepted THEN /\ calls' = [calls EXCEPT ![j] = @ + 1]
                        /\ live' = live \cup {j}
                   ELSE UNCHANGED <<calls, live>>
    /\ UNCHANGED <<status, rowVars, leaseVars, ownerVars, stop, writer, steer, checkpoint>>

\* record_turn: the accepted turn's identity is journaled under a live lease.
RecordTurn(w) ==
    LET j == JobOf(w) IN
    /\ worker[w].ph = "called"
    /\ calls[j] > 0
    /\ OwnsIn(w, "executing")
    /\ ~lease[j].exp
    /\ worker' = [worker EXCEPT ![w].ph = "turn"]
    /\ checkpoint' = checkpoint \cup {j}
    /\ UNCHANGED <<status, rowVars, leaseVars, ownerVars, stop, writer, steer, calls, live>>

\* A provider turn ends by itself, fails or is interrupted.
TurnEnds(j) ==
    /\ j \in live
    /\ live' = live \ {j}
    /\ UNCHANGED <<status, rowVars, leaseVars, ownerVars, stop, writer, procVars, calls,
                   checkpoint>>

\* commit_provider_result, by the worker of the turn or by its recovery: the
\* last stop check and the publication are one transaction.
CommitResult(w) ==
    LET j == JobOf(w) IN
    /\ worker[w].ph \in {"turn", "recover"}
    /\ j \in checkpoint /\ j \notin live
    /\ OwnsIn(w, "executing")
    /\ IF PendingStop(j)
       THEN /\ Leave(j, "cancelled")
            /\ stop' = CompleteStops(stop, {topic[j]}, status', evidence, resolution)
            /\ UNCHANGED mailed
       ELSE /\ Leave(j, "result_ready")
            /\ mailed' = mailed \cup {j}
            /\ UNCHANGED stop
    /\ Rest(w)
    /\ UNCHANGED <<topic, binding, cont, attempts, due, tokens, ownerVars, writer, provVars>>

\* cancel_active: the turn ended after the worker interrupted it for a stop.
CancelActive(w) ==
    LET j == JobOf(w) IN
    /\ worker[w].ph = "turn"
    /\ j \notin live
    /\ \E s \in Stops : j \in stop[s].covered
    /\ OwnsIn(w, "executing")
    /\ Leave(j, "cancelled")
    /\ stop' = CompleteStops(stop, {topic[j]}, status', evidence, resolution)
    /\ Rest(w)
    /\ UNCHANGED <<rowVars, attempts, due, tokens, ownerVars, writer, provVars>>

\* terminate_provider_job_with_notice(status="failed"): a known failure, before
\* the provider ran or after its turn ended.  A covering stop cancels instead.
TerminateFailed(w) ==
    LET j == JobOf(w) IN
    /\ worker[w].ph \in {"leased", "started", "called", "turn"}
    /\ j \notin live
    /\ OwnsIn(w, IF worker[w].ph = "leased" THEN "leased" ELSE "executing")
    /\ Leave(j, IF PendingStop(j) THEN "cancelled" ELSE "failed")
    /\ mailed' = IF PendingStop(j) THEN mailed ELSE mailed \cup {j}
    /\ stop' = CompleteStops(stop, {topic[j]}, status', evidence, resolution)
    /\ Rest(w)
    /\ UNCHANGED <<topic, binding, cont, attempts, due, tokens, ownerVars, writer, provVars>>

\* terminate_provider_job_with_notice(status="indeterminate"): the outcome is
\* unknown, or (proof) the journaled turn is known to have failed or been
\* interrupted, which holds the waiting jobs of the scope.
TerminateIndeterminate(w, proof) ==
    LET j == JobOf(w) IN
    /\ worker[w].ph \in {"started", "called", "turn", "recover"}
    /\ OwnsIn(w, "executing")
    /\ proof => j \in checkpoint /\ j \notin live /\ topic[j] \notin writer
    /\ Leave(j, "indeterminate")
    /\ mailed' = mailed \cup {j}
    /\ evidence' = IF proof THEN evidence \cup {j} ELSE evidence
    /\ hold' = IF proof THEN HoldAll({k \in Jobs : Scope(k) = Scope(j)}) ELSE hold
    /\ stop' = CompleteStops(stop, {topic[j]}, status', evidence', resolution)
    /\ Rest(w)
    /\ UNCHANGED <<topic, binding, cont, attempts, due, tokens, resolution, parked, writer,
                   provVars>>

\* schedule_retry: a transient failure before execution.
ScheduleRetry(w) ==
    LET j == JobOf(w)
        last == attempts[j] + 1 >= MaxAttemptsOf(j) IN
    /\ worker[w].ph = "leased"
    /\ OwnsIn(w, "leased")
    /\ Leave(j, IF last THEN "failed" ELSE "retry_wait")
    /\ attempts' = [attempts EXCEPT ![j] = @ + 1]
    /\ due' = [due EXCEPT ![j] = last]
    /\ stop' = CompleteStops(stop, {topic[j]}, status', evidence, resolution)
    /\ Rest(w)
    /\ UNCHANGED <<rowVars, tokens, ownerVars, writer, provVars>>

\* The worker process dies, or gives the job up because a transaction refused
\* it; the tables stay as they are.
WorkerDrops(w) ==
    /\ worker[w].ph # "idle"
    /\ worker' = [worker EXCEPT ![w] = NoWork]
    /\ SteerDone(w, NoSteer)
    /\ UNCHANGED <<status, rowVars, leaseVars, ownerVars, stop, writer, provVars>>

-----------------------------------------------------------------------------
(* Leases that run out, and what recovers them.                              *)

\* lease_expires_at passes: no heartbeat renewed the lease in time.  (A renewal
\* needs an unexpired lease, so it leaves this state unchanged.)
LeaseExpires(j) ==
    /\ LiveLease(j)
    /\ lease' = [lease EXCEPT ![j].exp = TRUE]
    /\ UNCHANGED <<status, rowVars, attempts, due, tokens, ownerVars, stop, writer,
                   procVars, provVars>>

\* Mutants: every expired job is queued again; an expired lease is only cleared.
RecoveredRequeues(st) == "queued"
RecoveredKeepsLeased(st) == IF st = "leased" THEN "leased" ELSE "indeterminate"

\* What becomes of a job whose lease ran out.
Recovered(st) == IF st = "leased" THEN "queued" ELSE "indeterminate"

\* recover_stale for one agent: expired leases return to the queue, expired
\* executions become indeterminate; stops are completed in the topics of the
\* latter.
RecoverStale(a) ==
    LET stale == {j \in Jobs : status[j] \in Active /\ lease[j].exp /\ Agent(j) = a} IN
    /\ stale # {}
    /\ status' = [j \in Jobs |-> IF j \in stale THEN Recovered(status[j]) ELSE status[j]]
    /\ lease' = [j \in Jobs |-> IF j \in stale THEN NoLease ELSE lease[j]]
    /\ stop' = CompleteStops(stop, {topic[j] : j \in {k \in stale : status[k] = "executing"}},
                             status', evidence, resolution)
    /\ UNCHANGED <<rowVars, attempts, due, tokens, ownerVars, writer, procVars, provVars>>

\* claim_stale: a worker takes over the oldest expired execution of its agent,
\* with a token that only authorizes committing an outcome that already exists.
ClaimStale(w, j) ==
    LET stale == {k \in Jobs : /\ status[k] = "executing" /\ lease[k].exp
                               /\ Agent(k) = WorkerAgent[w]} IN
    /\ worker[w].ph = "idle"
    /\ WorkerAgent[w] \in JournalAgents
    /\ j \in stale /\ \A k \in stale : j <= k
    /\ tokens[j] < MaxTokens
    /\ tokens' = [tokens EXCEPT ![j] = @ + 1]
    /\ lease' = [lease EXCEPT ![j] = [tok |-> tokens'[j], own |-> w, exp |-> FALSE]]
    /\ worker' = [worker EXCEPT ![w] = [ph |-> "recover", job |-> j, tok |-> tokens'[j]]]
    /\ UNCHANGED <<status, rowVars, attempts, due, ownerVars, stop, writer, steer, provVars>>

\* TurnObservation / _commit_terminal: a read-only check proves how the
\* journaled turn of an uncertain job ended.  A completed turn is published
\* unless a stop covers it or (keep) its old notice is in unknown delivery;
\* otherwise the evidence is retained.  Waiting jobs of the scope are held.
ObserveOutcome(j, completed, keep) ==
    /\ Uncertain(j)
    /\ j \in checkpoint /\ j \notin live
    /\ j \in mailed
    /\ topic[j] \notin writer
    /\ ~\E k \in Jobs \ {j} : status[k] \in Active /\ Scope(k) = Scope(j)
    /\ hold' = HoldAll({k \in Jobs : Scope(k) = Scope(j)})
    /\ IF completed /\ ~keep /\ ~PendingStop(j)
       THEN status' = [status EXCEPT ![j] = "result_ready"] /\ UNCHANGED evidence
       ELSE evidence' = evidence \cup {j} /\ UNCHANGED status
    /\ stop' = CompleteStops(stop, {topic[j]}, status', evidence', resolution)
    /\ UNCHANGED <<rowVars, leaseVars, resolution, parked, writer, procVars, provVars>>

-----------------------------------------------------------------------------
(* Same-turn steering: the worker's control thread joins the next queued     *)
(* message of the topic to the running turn.                                 *)

Child(w) == steer[w].job
OwnsChild(w, st) == /\ lease[Child(w)].tok = steer[w].tok
                    /\ status[Child(w)] = st
Parent(w) == steer[w].par
SteerTo(w, ph) == steer' = [steer EXCEPT ![w].ph = ph]
\* Mutant: after a failure the thread goes on steering.
SteerResumes(w) == SteerDone(w, NoSteer)

\* After a failure the thread steers no more in this turn (_steering_rejected);
\* a thread its worker has left behind just ends.
SteerFails(w) == SteerDone(w, IF JobOf(w) = Parent(w) THEN SteerOff ELSE NoSteer)

\* lease_steer_followup: the FIFO successor of an executing parent.
LeaseSteer(w, c) ==
    LET p == JobOf(w) IN
    /\ worker[w].ph = "turn" /\ steer[w].ph = "idle"
    /\ WorkerAgent[w] \in SteerAgents
    /\ status[p] = "executing"
    /\ ~PendingStop(p)
    /\ c > p /\ topic[c] = topic[p] /\ BlocksFifo(c)
    /\ \A k \in Jobs : k > p /\ topic[k] = topic[p] /\ BlocksFifo(k) => c <= k
    /\ binding[c] = binding[p]
    /\ status[c] = "queued" /\ Unheld(c) /\ due[c]
    /\ tokens[c] < MaxTokens
    /\ status' = [status EXCEPT ![c] = "leased"]
    /\ tokens' = [tokens EXCEPT ![c] = @ + 1]
    /\ lease' = [lease EXCEPT ![c] = [tok |-> tokens'[c], own |-> NoWorker, exp |-> FALSE]]
    /\ SteerDone(w, [ph |-> "leased", job |-> c, tok |-> tokens'[c], par |-> p])
    /\ UNCHANGED <<rowVars, attempts, due, ownerVars, stop, writer, worker, provVars>>

\* start_steer: cancelled by its own stop, returned to the queue when the
\* parent is stopped or gone, started otherwise.
StartSteer(w) ==
    LET c == Child(w)
        p == Parent(w) IN
    /\ steer[w].ph = "leased"
    /\ OwnsChild(w, "leased")
    /\ \/ /\ PendingStop(c)
          /\ Leave(c, "cancelled")
          /\ stop' = CompleteStops(stop, {topic[c]}, status', evidence, resolution)
          /\ SteerDone(w, NoSteer)
          /\ UNCHANGED attempts
       \/ /\ ~PendingStop(c)
          /\ status[p] # "executing" \/ PendingStop(p)
          /\ Leave(c, "queued")
          /\ SteerDone(w, NoSteer)
          /\ UNCHANGED <<attempts, stop>>
       \/ /\ ~PendingStop(c)
          /\ status[p] = "executing" /\ ~PendingStop(p)
          /\ ~lease[c].exp /\ attempts[c] < MaxAttemptsOf(c)
          /\ status' = [status EXCEPT ![c] = "executing"]
          /\ attempts' = [attempts EXCEPT ![c] = @ + 1]
          /\ SteerTo(w, "started")
          /\ UNCHANGED <<lease, stop>>
    /\ UNCHANGED <<rowVars, due, tokens, ownerVars, writer, worker, provVars>>

\* The control thread is stopping: release_lease of a child it did not start.
ReleaseSteer(w) ==
    /\ steer[w].ph = "leased"
    /\ OwnsChild(w, "leased")
    /\ Leave(Child(w), "queued")
    /\ SteerFails(w)
    /\ UNCHANGED <<rowVars, attempts, due, tokens, ownerVars, stop, writer, worker, provVars>>

\* _invoke_steer: the input is accepted by the running turn, refused (or never
\* sent), or its acceptance is unknown.  The request may
\* be in flight while the worker gives its parent up.
InvokeSteer(w, outcome) ==
    /\ steer[w].ph = "started"
    /\ outcome = "accepted" => Parent(w) \in live
    /\ calls' = IF outcome = "rejected" THEN calls
                ELSE [calls EXCEPT ![Child(w)] = @ + 1]
    /\ SteerTo(w, outcome)
    /\ UNCHANGED <<status, rowVars, leaseVars, ownerVars, stop, writer, worker, live,
                   checkpoint>>

\* complete_steered: child and parent still execute, the child is absorbed; if
\* they no longer do, its outcome is recorded as unknown next.
CompleteSteered(w) ==
    LET c == Child(w)
        p == Parent(w) IN
    /\ steer[w].ph = "accepted"
    /\ IF OwnsChild(w, "executing") /\ status[p] = "executing"
       THEN /\ Leave(c, "completed")
            /\ stop' = CompleteStops(stop, {topic[c]}, status', evidence, resolution)
            /\ SteerDone(w, NoSteer)
       ELSE /\ SteerTo(w, "unknown")
            /\ UNCHANGED <<status, lease, stop>>
    /\ UNCHANGED <<rowVars, attempts, due, tokens, ownerVars, writer, worker, provVars>>

\* reject_unaccepted_steer: provably not accepted, so it returns to the queue.
\* The thread steers on only if it sent nothing.
RejectSteer(w) ==
    LET c == Child(w) IN
    /\ steer[w].ph = "rejected"
    /\ OwnsChild(w, "executing")
    /\ Leave(c, "queued")
    /\ attempts' = [attempts EXCEPT ![c] = IF @ > 0 THEN @ - 1 ELSE 0]
    /\ SteerDone(w, NoSteer) \/ SteerFails(w)
    /\ UNCHANGED <<rowVars, due, tokens, ownerVars, stop, writer, worker, provVars>>

\* mark_indeterminate of a child whose steering outcome is unknown.
SteerUnknown(w) ==
    LET c == Child(w) IN
    /\ steer[w].ph = "unknown"
    /\ OwnsChild(w, "executing")
    /\ Leave(c, "indeterminate")
    /\ stop' = CompleteStops(stop, {topic[c]}, status', evidence, resolution)
    /\ SteerFails(w)
    /\ UNCHANGED <<rowVars, attempts, due, tokens, ownerVars, writer, worker, provVars>>

\* A refused state write, or a contended one while the thread is stopping, ends
\* its work on the child.
SteerDrops(w) ==
    /\ ~SteerQuiet(w)
    /\ SteerFails(w)
    /\ UNCHANGED <<status, rowVars, leaseVars, ownerVars, stop, writer, worker, provVars>>

-----------------------------------------------------------------------------
(* The owner: stops, resolutions, held jobs, writer transfers, deliveries.   *)

\* StopState.request: cancels the topic's unheld waiting jobs and stays pending
\* while the topic still has active or uncertain work.  stop_covers: the jobs
\* admitted before the stop, without those held at that moment.
RequestStop(s, t) ==
    LET mine == {j \in Jobs : Exists(j) /\ topic[j] = t}
        drop == {j \in mine : status[j] \in Waiting /\ Unheld(j)}
        busy == \E j \in mine : status[j] \in Active \/ Uncertain(j) IN
    /\ stop[s].state = "absent" /\ \A r \in Stops : r < s => stop[r].state # "absent"
    /\ status' = [j \in Jobs |-> IF j \in drop THEN "cancelled" ELSE status[j]]
    /\ due' = [j \in Jobs |-> IF j \in drop THEN TRUE ELSE due[j]]
    /\ stop' = CompleteStops(
                 [stop EXCEPT ![s] = [state |-> IF busy THEN "pending" ELSE "completed",
                                      topic |-> t,
                                      covered |-> {j \in mine : Unheld(j)}]],
                 {t}, status', evidence, resolution)
    /\ UNCHANGED <<rowVars, attempts, lease, tokens, ownerVars, writer, procVars, provVars>>

\* Mutant: the resolution does not complete the stops.
ResolveOnly(j, r) ==
    /\ status[j] = "indeterminate"
    /\ resolution[j] = "none"
    /\ resolution' = [resolution EXCEPT ![j] = r]
    /\ UNCHANGED <<status, rowVars, leaseVars, hold, evidence, parked, stop, writer, procVars,
                   provVars>>

\* resolve_indeterminate: immutable owner classification.
ResolveIndeterminate(j, r) ==
    /\ status[j] = "indeterminate"
    /\ resolution[j] = "none"
    /\ resolution' = [resolution EXCEPT ![j] = r]
    /\ stop' = CompleteStops(stop, {topic[j]}, status, evidence, resolution')
    /\ UNCHANGED <<status, rowVars, leaseVars, hold, evidence, parked, writer, procVars,
                   provVars>>

\* materialize_held_jobs: waiting jobs behind a blocked root are paused.
MaterializeHeld ==
    /\ hold' = HoldAll({j \in Jobs : RootBlocked(Scope(j))})
    /\ hold' # hold
    /\ UNCHANGED <<status, rowVars, leaseVars, evidence, resolution, parked, stop, writer,
                   procVars, provVars>>

\* decide_held_job: the owner confirms (only with a free root) or cancels.
DecideHeld(j, decision) ==
    /\ hold[j] = "pending" /\ status[j] \in Waiting
    /\ decision = "confirmed" => ~RootBlocked(Scope(j))
    /\ hold' = [hold EXCEPT ![j] = decision]
    /\ IF decision = "cancelled"
       THEN /\ status' = [status EXCEPT ![j] = "cancelled"]
            /\ due' = [due EXCEPT ![j] = TRUE]
            /\ stop' = CompleteStops(stop, {topic[j]}, status', evidence, resolution)
       ELSE UNCHANGED <<status, due, stop>>
    /\ UNCHANGED <<rowVars, attempts, lease, tokens, evidence, resolution, parked, writer,
                   procVars, provVars>>

\* set_writer_mode(local): the scope must hold no other writer and no work that
\* is neither finished nor held.
TakeLocalWriter(t) ==
    /\ ~\E u \in writer : ScopeOf[u] = ScopeOf[t]
    /\ ~\E j \in Jobs :
          /\ Exists(j) /\ Scope(j) = ScopeOf[t]
          /\ \/ /\ status[j] \in Waiting \cup Active \cup {"result_ready"}
                /\ ~(status[j] = "result_ready" /\ parked[j] = "reconciled")
                /\ Unheld(j)
             \/ Uncertain(j)
    /\ writer' = writer \cup {t}
    /\ UNCHANGED <<status, rowVars, leaseVars, ownerVars, stop, procVars, provVars>>

\* set_writer_mode(telegram): the scope's waiting jobs are held first.
ReturnLocalWriter(t) ==
    /\ t \in writer
    /\ writer' = writer \ {t}
    /\ hold' = HoldAll({j \in Jobs : Scope(j) = ScopeOf[t]})
    /\ UNCHANGED <<status, rowVars, leaseVars, evidence, resolution, parked, stop, procVars,
                   provVars>>

\* The delivery side settles a saved result the operator has not disposed of ...
SettleDelivery(j, st) ==
    /\ status[j] = "result_ready" /\ parked[j] = "no"
    /\ status' = [status EXCEPT ![j] = st]
    /\ UNCHANGED <<rowVars, leaseVars, ownerVars, stop, writer, procVars, provVars>>

\* ... or the operator releases one whose delivery is unknown, and may still
\* reconcile it later.
ParkDelivery(j, how) ==
    /\ status[j] = "result_ready"
    /\ parked[j] = "no" \/ (parked[j] = "released" /\ how = "reconciled")
    /\ parked' = [parked EXCEPT ![j] = how]
    /\ UNCHANGED <<status, rowVars, leaseVars, hold, evidence, resolution, stop, writer,
                   procVars, provVars>>

-----------------------------------------------------------------------------
Admission ==
    \E j \in Jobs :
        \/ \E t \in Topics, b \in Bindings :
              (\E now \in AvailableNow : Enqueue(j, t, b, now)) \/ EnqueueTakeover(j, t, b)
        \/ \E src \in Jobs : Continue(src, j)
        \/ BecomeDue(j)
        \/ Cancel(j)

WorkerStep(w) ==
    \/ MarkExecuting(w)
    \/ \E accepted \in BOOLEAN : CallProvider(w, accepted)
    \/ RecordTurn(w)
    \/ CommitResult(w)
    \/ CancelActive(w)
    \/ TerminateFailed(w)
    \/ \E proof \in BOOLEAN : TerminateIndeterminate(w, proof)
    \/ ScheduleRetry(w)
    \/ ReleaseLease(w)
    \/ WorkerDrops(w)

SteerStep(w) ==
    \/ StartSteer(w)
    \/ \E outcome \in {"accepted", "rejected", "unknown"} : InvokeSteer(w, outcome)
    \/ CompleteSteered(w)
    \/ RejectSteer(w)
    \/ SteerUnknown(w)
    \/ ReleaseSteer(w)
    \/ SteerDrops(w)

Acquire(w) == \E j \in Jobs : Lease(w, j) \/ ClaimStale(w, j) \/ LeaseSteer(w, j)

World ==
    \/ \E j \in Jobs : TurnEnds(j) \/ LeaseExpires(j)
    \/ \E a \in Agents : RecoverStale(a)
    \/ \E j \in Jobs, completed, keep \in BOOLEAN : ObserveOutcome(j, completed, keep)

Owner ==
    \/ \E s \in Stops, t \in Topics : RequestStop(s, t)
    \/ \E j \in Jobs, r \in Resolutions : ResolveIndeterminate(j, r)
    \/ MaterializeHeld
    \/ \E j \in Jobs, decision \in {"confirmed", "cancelled"} : DecideHeld(j, decision)
    \/ \E t \in Topics : TakeLocalWriter(t) \/ ReturnLocalWriter(t)
    \/ \E j \in Jobs, st \in {"completed", "failed"} : SettleDelivery(j, st)
    \/ \E j \in Jobs, how \in {"released", "reconciled"} : ParkDelivery(j, how)

Next ==
    \/ Admission
    \/ \E w \in Workers : Acquire(w) \/ WorkerStep(w) \/ SteerStep(w)
    \/ World
    \/ Owner

Spec == Init /\ [][Next]_vars

\* A lease nobody renews any more: its worker (or steering thread) moved on.
Abandoned(j) == /\ \A w \in Workers : worker[w].job # j
                /\ \A w \in Workers : steer[w].job # j

\* The worker and steering loops keep stepping, turns end (the provider call
\* has a timeout), abandoned leases run out, delays pass, and an idle worker
\* polls: stale recovery and lease are called in every cycle.  Nothing is
\* assumed of the owner or of the delivery side.
Fairness ==
    /\ \A w \in Workers : /\ WF_vars(WorkerStep(w))
                          /\ WF_vars(SteerStep(w))
                          /\ WF_vars(\E j \in Jobs : Lease(w, j))
    /\ \A j \in Jobs : /\ WF_vars(TurnEnds(j))
                       /\ WF_vars(BecomeDue(j))
                       /\ WF_vars(Abandoned(j) /\ LeaseExpires(j))
    /\ \A a \in Agents : WF_vars(RecoverStale(a))

FairSpec == Spec /\ Fairness

-----------------------------------------------------------------------------
(* What the queue promises.                                                  *)

\* A provider sees the input of a job at most once, whatever the workers, their
\* leases, retries, recovery and steering do (lease, mark_executing,
\* start_steer, reject_unaccepted_steer, recover_stale, claim_stale).
AtMostOnce == \A j \in Jobs : calls[j] <= 1

\* A job that occupies its root: running, or about to run under a live lease.
Occupies(j) == status[j] = "executing" \/ (status[j] = "leased" /\ ~lease[j].exp)

\* Two jobs occupy one execution scope only as a turn and a message steered
\* into it: same topic and same session binding (lease, lease_steer_followup).
RootExclusion ==
    \A j, k \in Jobs : j # k /\ Occupies(j) /\ Occupies(k) /\ Scope(j) = Scope(k)
                          => topic[j] = topic[k] /\ binding[j] = binding[k]

\* Two provider turns really run in one scope, or one runs while a session of
\* the scope is written locally, only after the owner resolved the older one by
\* hand: an expired lease, a crash or a recovery never opens the root.
TurnExclusion ==
    \A j \in live : resolution[j] = "none" =>
        /\ \A k \in live \ {j} : Scope(k) = Scope(j) => resolution[k] # "none"
        /\ \A t \in writer : ScopeOf[t] # Scope(j)

\* An emergency stop is pending exactly as long as a job it covers can still
\* start, run or publish: no transaction that finishes covered work forgets to
\* complete the stop, and no covered work outlives it.
StopTracksWork ==
    \A s \in Stops : stop[s].state # "absent" =>
        (stop[s].state = "pending"
            <=> \E j \in stop[s].covered : Unfinished(j, status, evidence, resolution))

\* A result is never published for a job that a stop covers, however the
\* commit, the recovery or a later observation races with the stop.
StopBeforePublication ==
    [][\A j \in Jobs : status[j] # "result_ready" /\ status'[j] = "result_ready"
          => ~\E s \in Stops : j \in stop[s].covered]_vars

\* A job covered by a stop never starts after the stop.
StopBeforeStart ==
    [][\A j \in Jobs : status[j] # "executing" /\ status'[j] = "executing"
          => ~\E s \in Stops : j \in stop[s].covered]_vars

\* Messages of a topic start in order: a job starts only when every earlier
\* message of the topic is finished, held for the owner or, for a steered
\* message, part of the running turn.  A continuation goes first by design, and
\* so do the messages steered into it.
TopicOrder ==
    [][\A j, k \in Jobs :
          /\ status[j] = "leased" /\ status'[j] = "executing"
          /\ k < j /\ topic[k] = topic[j] /\ BlocksFifo(k)
          => \/ status[k] = "executing"
             \/ \E p \in Jobs : cont[p] # 0 /\ topic[p] = topic[j] /\ k <= p /\ p <= j]_vars

\* What the owner paused waits for the owner: a job never starts while held,
\* nor while its root is written locally or has an unresolved uncertain job
\* of another turn.
StartsOnFreeRoot ==
    [][\A j \in Jobs :
          status[j] = "leased" /\ status'[j] = "executing"
             => Unheld(j) /\ ~RootBlocked(Scope(j))]_vars

\* What a waiting job may legitimately wait for: the owner (a blocked root, a
\* held job), the delivery of an earlier result of its topic, or a lease that
\* the bound MaxTokens no longer grants.
AwaitsOthers(j) ==
    \/ RootBlocked(Scope(j))
    \/ \E k \in Jobs : /\ k <= j /\ Scope(k) = Scope(j) /\ status[k] \in Waiting
                       /\ ~Unheld(k) \/ tokens[k] = MaxTokens
    \/ \E k \in Jobs : k < j /\ topic[k] = topic[j] /\ status[k] = "result_ready"

\* Crashes, expired leases, steering and stops never strand a job: waiting or
\* running work comes to an end unless it waits for the owner or a delivery.
JobsEnd ==
    \A j \in Jobs : status[j] \in Waiting \cup Active
                        ~> (status[j] \notin Waiting \cup Active \/ AwaitsOthers(j))

\* An emergency stop completes unless a job it covers waits for the owner.
StopsComplete ==
    \A s \in Stops : stop[s].state = "pending"
        ~> \/ stop[s].state = "completed"
           \/ \E j \in stop[s].covered : Uncertain(j) \/ AwaitsOthers(j)

-----------------------------------------------------------------------------
(* The inductive invariants behind the promises.                             *)

NotStarted == {"absent", "leased"} \cup Waiting

\* A process that has started the job and not yet given its input away (or has
\* learnt that the input was refused and may requeue it).
StartedBy(w, j) == worker[w].ph = "started" /\ worker[w].job = j
SteeredBy(w, j) == steer[w].ph \in {"started", "rejected"} /\ steer[w].job = j

\* The right to send a job's input is exclusive and is used up by sending.
OneSender ==
    \A j \in Jobs :
        /\ status[j] \in NotStarted =>
              /\ calls[j] = 0
              /\ \A w \in Workers : ~StartedBy(w, j) /\ ~SteeredBy(w, j)
        /\ \A w \in Workers : StartedBy(w, j) \/ SteeredBy(w, j) => calls[j] = 0
        /\ \A v, w \in Workers : /\ StartedBy(v, j) /\ StartedBy(w, j) => v = w
                                 /\ SteeredBy(v, j) /\ SteeredBy(w, j) => v = w
                                 /\ ~(StartedBy(v, j) /\ SteeredBy(w, j))

\* The jobs a stop covers exist and belong to its topic, the only one in which
\* complete_finished_stops looks for it.
CoverIsStable ==
    \A s \in Stops :
        /\ stop[s].state = "absent" => stop[s].covered = {}
        /\ \A j \in stop[s].covered : j \in Jobs /\ Exists(j) /\ topic[j] = stop[s].topic

\* A lease token is granted once, to one process, and zero is no token.
TokensAreFresh ==
    /\ \A j \in Jobs : lease[j].tok <= tokens[j]
    /\ \A w \in Workers : worker[w].ph # "idle" =>
          /\ worker[w].tok > 0 /\ worker[w].tok <= tokens[JobOf(w)]
          /\ Owns(w) => lease[JobOf(w)].own = w
    /\ \A w \in Workers : ~SteerQuiet(w) =>
          steer[w].tok > 0 /\ steer[w].tok <= tokens[Child(w)]

\* A worker runs the job as a turn of its own; a thread steers it into another.
Runs(w, j) == worker[w].ph \in {"started", "called", "turn"} /\ JobOf(w) = j
Joins(w, j) == steer[w].ph \in SteerPhases \ {"leased"} /\ Child(w) = j

\* A job runs as one turn of one worker or is steered by one thread, from the
\* moment it starts, and only the thread that steers it can requeue it.
OneRun ==
    \A j \in Jobs :
        /\ status[j] \in NotStarted => \A w \in Workers : ~Runs(w, j) /\ ~Joins(w, j)
        /\ \A v, w \in Workers : /\ Runs(v, j) /\ Runs(w, j) => v = w
                                 /\ Joins(v, j) /\ Joins(w, j) => v = w
                                 /\ ~(Runs(v, j) /\ Joins(w, j))
        /\ \A w \in Workers : Joins(w, j) => j \notin live

\* What a provider may be doing is in the tables: a journaled or a running turn
\* was called, evidence settles only uncertain jobs, and a turn that runs or is
\* about to is executing or uncertain, whatever became of its lease.
TurnsAreTracked ==
    /\ \A j \in checkpoint \cup live : calls[j] > 0
    /\ \A w \in Workers : worker[w].ph = "turn" => JobOf(w) \in checkpoint
    /\ \A j \in evidence : status[j] = "indeterminate"
    /\ \A j \in Jobs : j \in live \/ (\E w \in Workers : StartedBy(w, j)) =>
          \/ status[j] = "executing"
          \/ status[j] = "indeterminate" /\ j \notin evidence

\* A job under a worker's live lease is the only work of its root.
LeasedAlone(j) == status[j] = "leased" /\ ~lease[j].exp /\ lease[j].own # NoWorker

\* No lease is granted on, and nobody takes, an occupied or uncertain root.
RootIsGuarded ==
    /\ \A j \in Jobs : status[j] \in Active => Unheld(j)
    /\ \A t \in writer, j \in Jobs :
          Scope(j) = ScopeOf[t] => status[j] \notin Active /\ ~Uncertain(j)
    /\ \A j, k \in Jobs : LeasedAlone(j) /\ k # j /\ Scope(k) = Scope(j)
                              => ~Occupies(k) /\ ~Uncertain(k)

\* Of two turns that run, or are about to, in one scope the owner has resolved one.
MayRun(j) == j \in live \/ \E w \in Workers : StartedBy(w, j)
OneTurn ==
    \A j, k \in Jobs : j # k /\ MayRun(j) /\ MayRun(k) /\ Scope(j) = Scope(k)
                          => resolution[j] # "none" \/ resolution[k] # "none"

\* A job that runs, or ran, as a turn of its own.
Main(j) == j \in checkpoint \/ \E w \in Workers : Runs(w, j)

\* A steering thread works for the turn of its worker: its child follows the
\* parent in the same topic, and while the parent runs the worker watches it.
SteerIsBound ==
    \A w \in Workers : ~SteerQuiet(w) =>
        /\ Parent(w) \in checkpoint
        /\ Exists(Child(w)) /\ Exists(Parent(w))
        /\ Parent(w) < Child(w) /\ topic[Parent(w)] = topic[Child(w)]
        /\ status[Parent(w)] = "executing" => worker[w].ph = "turn" /\ JobOf(w) = Parent(w)

\* Beside a running turn its scope holds only what its worker steers into it;
\* once an uncertain message is left behind there, nothing more is steered.
TurnIsAlone ==
    /\ \A j, k \in Jobs : /\ status[j] = "executing" /\ Main(j)
                           /\ status[k] = "executing" /\ Main(k)
                           /\ Scope(j) = Scope(k)
                           => j = k
    /\ \A w \in Workers, j, k \in Jobs :
          /\ Runs(w, j) /\ status[j] = "executing"
          /\ k # j /\ Scope(k) = Scope(j) /\ (status[k] = "executing" \/ Uncertain(k))
          => steer[w].ph = "off" \/ (Joins(w, k) /\ Parent(w) = j)

\* The message a lease is granted to is the head of its topic and stays it; a
\* message leased for steering follows its parent with nothing in between.
Heads(j) == \A k \in Jobs : k < j /\ topic[k] = topic[j] => ~BlocksFifo(k)
HeadsAreKept ==
    /\ \A j, k \in Jobs : Exists(j) /\ k < j => Exists(k)
    /\ \A j \in Jobs :
          \/ status[j] = "leased" /\ lease[j].own # NoWorker
          \/ status[j] = "executing" /\ Main(j)
          => cont[j] # 0 \/ Heads(j)
    /\ \A w \in Workers, k \in Jobs :
          /\ steer[w].ph = "leased" /\ OwnsChild(w, "leased")
          /\ Parent(w) < k /\ k < Child(w) /\ topic[k] = topic[Child(w)]
          => ~BlocksFifo(k)
=============================================================================
