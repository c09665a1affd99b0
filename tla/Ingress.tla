------------------------------- MODULE Ingress -------------------------------
(***************************************************************************)
(* Telegram updates of one topic on their way into the provider queue: the *)
(* polling loop and its durable offset, duplicate suppression, refusal of  *)
(* input for a blocked root, collecting a burst or an album into one job,  *)
(* and the worker that takes the job while the burst may still grow.       *)
(* Update m has message m; an update is handled by several transactions,   *)
(* and two pollers may handle it at once (an old process that lingers).    *)
(***************************************************************************)
EXTENDS Naturals, Sequences, FiniteSets, SequencesExt

CONSTANTS
    Kind,       \* the kind of each update, in arrival order
    Pollers,    \* controller processes polling with one identity
    Workers,    \* provider workers
    MaxJobs,    \* bound on jobs
    MaxParts,   \* parts that fit the 20000 characters of a payload
    MaxLeases   \* bound on leases

Kinds == {"text", "album", "long", "forward", "stop", "command"}
Updates == 1..Len(Kind)

IngressAssumption ==
    /\ Kind \in Seq(Kinds)
    /\ {MaxJobs, MaxParts, MaxLeases} \subseteq Nat \ {0}

VARIABLES
    arrived,    \* updates Telegram has received
    forgotten,  \* updates below this one are confirmed and no longer offered
    offset,     \* bot_offsets.next_update_id
    poller,     \* what each polling loop believes
    seen,       \* observed_messages
    refused,    \* messages refused with a durable notice
    quotes,     \* forwarded messages kept as passive context
    stops,      \* messages that requested an emergency stop
    jobs,       \* provider_jobs with provider_job_inputs, in topic order
    worker,     \* the lease and the payload each worker holds
    leases,     \* lease tokens handed out
    blocked     \* the root has a persistent blocker, or the selection changed

vars == <<arrived, forgotten, offset, poller, seen, refused, quotes, stops,
          jobs, worker, leases, blocked>>
queueVars == <<jobs, worker, leases>>
inputVars == <<seen, refused, quotes, stops>>

(* Free text and albums are the input a provider runs; only these are        *)
(* offered again after a failure without a durable disposition.              *)
Productive(m) == Kind[m] \in {"text", "album", "long"}

PollerSteps == {"idle", "handle", "refuse", "hold", "fetch", "sample",
                "append", "enqueue", "reject", "claim", "advance"}
Resting == [pc |-> "idle", next |-> 1, at |-> 1, upto |-> 0, shut |-> {}]
NoLease == [job |-> 0, token |-> 0, payload |-> <<>>]

(* window: next_attempt_at lies ahead ("open"), has passed ("lapsed"), or was *)
(* cleared by a lease ("none").                                               *)
JobOf(m, window) ==
    [inputs |-> <<m>>, group |-> Kind[m], status |-> "queued", window |-> window,
     aged |-> FALSE, token |-> 0, ran |-> <<>>]

Init ==
    /\ arrived = 0 /\ forgotten = 1 /\ offset = 1
    /\ poller = [p \in Pollers |-> Resting]
    /\ seen = {} /\ refused = {} /\ quotes = {} /\ stops = {}
    /\ jobs = <<>> /\ leases = 0 /\ blocked = FALSE
    /\ worker = [w \in Workers |-> NoLease]

InJob(m, j) == m \in Range(jobs[j].inputs)
InputOf(m) == \E j \in DOMAIN jobs : InJob(m, j)

(* The poller goes on to a step of its update, or gives the batch up.        *)
Goto(p, step) == poller' = [poller EXCEPT ![p].pc = step]
At(p, step) == poller[p].pc = step
Current(p) == poller[p].at

(***************************************************************************)
(* Telegram and the polling loop                                           *)
(***************************************************************************)

Arrive ==
    /\ arrived < Len(Kind)
    /\ arrived' = arrived + 1
    /\ UNCHANGED <<forgotten, offset, poller, inputVars, queueVars, blocked>>

(* Asking with an offset confirms everything below it; Telegram returns the  *)
(* updates it still has, and the loop goes through them in order.            *)
FirstOffered(p) == IF poller[p].next > forgotten THEN poller[p].next ELSE forgotten
PollEmpty(p) ==
    /\ At(p, "idle")
    /\ forgotten' = FirstOffered(p)
    /\ poller' = [poller EXCEPT ![p].pc = "handle", ![p].at = FirstOffered(p),
                                ![p].upto = arrived]
    /\ UNCHANGED <<arrived, offset, inputVars, queueVars, blocked>>
Poll(p) ==
    /\ At(p, "idle")
    /\ forgotten' = FirstOffered(p)
    /\ \/ /\ FirstOffered(p) <= arrived
          /\ poller' = [poller EXCEPT ![p].pc = "handle", ![p].at = FirstOffered(p),
                                      ![p].upto = arrived]
       \/ FirstOffered(p) > arrived /\ UNCHANGED poller
    /\ UNCHANGED <<arrived, offset, inputVars, queueVars, blocked>>

MaxOf(a, b) == IF a > b THEN a ELSE b

(* The durable offset moves before the local one.                            *)
Advance(p) ==
    LET n == Current(p) + 1
        more == n <= poller[p].upto IN
    /\ At(p, "advance")
    /\ offset' = MaxOf(offset, n)
    /\ poller' = [poller EXCEPT ![p].next = n, ![p].shut = {},
                                ![p].at = IF more THEN n ELSE @,
                                ![p].pc = IF more THEN "handle" ELSE "idle"]
    /\ UNCHANGED <<arrived, forgotten, inputVars, queueVars, blocked>>

(* Giving the batch up without advancing makes Telegram offer the update      *)
(* again on the next poll.                                                    *)
GiveUpOne(p) ==
    LET more == Current(p) < poller[p].upto IN
    poller' = [poller EXCEPT ![p].shut = {}, ![p].at = IF more THEN @ + 1 ELSE @,
                             ![p].pc = IF more THEN "handle" ELSE "idle"]
GiveUp(p) == poller' = [poller EXCEPT ![p].pc = "idle", ![p].shut = {}]

(* A database error: productive input is retained, everything else counts as *)
(* a failed update and is passed over; a failure to store the offset gives   *)
(* the batch up.                                                             *)
DatabaseError(p) ==
    /\ ~At(p, "idle")
    /\ IF Productive(Current(p)) \/ At(p, "advance") THEN GiveUp(p) ELSE Goto(p, "advance")
    /\ UNCHANGED <<arrived, forgotten, offset, inputVars, queueVars, blocked>>

(* The process dies anywhere and starts again from the durable offset.       *)
Restart(p) ==
    /\ ~At(p, "idle")
    /\ poller' = [poller EXCEPT ![p] = [Resting EXCEPT !.next = offset]]
    /\ UNCHANGED <<arrived, forgotten, offset, inputVars, queueVars, blocked>>

(***************************************************************************)
(* Passive and control updates                                             *)
(***************************************************************************)

(* A forwarded message becomes passive context; its material is fetched first.*)
Forward(p) ==
    LET m == Current(p) IN
    /\ Kind[m] = "forward"
    /\ \/ /\ At(p, "handle")
          /\ Goto(p, IF m \in seen THEN "advance" ELSE "fetch")
          /\ UNCHANGED <<seen, quotes>>
       \/ /\ At(p, "sample")
          /\ seen' = seen \cup {m}
          /\ quotes' = IF m \in seen THEN quotes ELSE quotes \cup {m}
          /\ Goto(p, "advance")
    /\ UNCHANGED <<arrived, forgotten, offset, refused, stops, queueVars, blocked>>

(* One transaction claims the stop and cancels what has not started; a       *)
(* repeated stop message cancels nothing.                                    *)
Stop(p) ==
    LET m == Current(p) IN
    /\ Kind[m] = "stop" /\ At(p, "handle")
    /\ stops' = stops \cup {m}
    /\ seen' = seen \cup {m}
    /\ jobs' = [j \in DOMAIN jobs |->
            IF m \notin stops /\ jobs[j].status = "queued"
            THEN [jobs[j] EXCEPT !.status = "cancelled"] ELSE jobs[j]]
    /\ Goto(p, "advance")
    /\ UNCHANGED <<arrived, forgotten, offset, refused, quotes, worker, leases, blocked>>

(* A command first closes the open burst, then claims its message.           *)
Command(p) ==
    LET m == Current(p) IN
    /\ Kind[m] = "command"
    /\ \/ /\ At(p, "handle")
          /\ jobs' = [j \in DOMAIN jobs |->
                IF jobs[j].status = "queued" /\ jobs[j].window = "open"
                THEN [jobs[j] EXCEPT !.window = "lapsed"] ELSE jobs[j]]
          /\ Goto(p, "claim")
          /\ UNCHANGED seen
       \/ /\ At(p, "claim")
          /\ seen' = seen \cup {m}
          /\ Goto(p, "advance")
          /\ UNCHANGED jobs
    /\ UNCHANGED <<arrived, forgotten, offset, refused, quotes, stops, worker, leases, blocked>>

(***************************************************************************)
(* Productive input: durable admission                                     *)
(***************************************************************************)

(* A message already observed is a duplicate; one that is too long is only   *)
(* claimed, and answered.                                                    *)
Admit(p) ==
    LET m == Current(p) IN
    /\ Productive(m) /\ At(p, "handle")
    /\ seen' = IF Kind[m] = "long" THEN seen \cup {m} ELSE seen
    /\ Goto(p, IF m \in seen \/ Kind[m] = "long" THEN "advance" ELSE "refuse")
    /\ UNCHANGED <<arrived, forgotten, offset, refused, quotes, stops, queueVars, blocked>>

(* reject_blocked_input and reject_changed_input: claim the message and       *)
(* prepare one notice in one transaction.                                     *)
CanRefuse(m) == m \in refused \/ (blocked /\ m \notin seen)
RefuseToAndGoOn(p, step) ==
    LET m == Current(p) IN
    /\ refused' = IF CanRefuse(m) THEN refused \cup {m} ELSE refused
    /\ seen' = IF CanRefuse(m) THEN seen \cup {m} ELSE seen
    /\ Goto(p, step)
    /\ UNCHANGED <<arrived, forgotten, offset, quotes, stops, queueVars, blocked>>
RefuseTo(p, step) ==
    LET m == Current(p) IN
    /\ refused' = IF CanRefuse(m) THEN refused \cup {m} ELSE refused
    /\ seen' = IF CanRefuse(m) THEN seen \cup {m} ELSE seen
    /\ IF CanRefuse(m) THEN Goto(p, "advance")
       ELSE IF step = "idle" THEN GiveUp(p) ELSE Goto(p, step)
    /\ UNCHANGED <<arrived, forgotten, offset, quotes, stops, queueVars, blocked>>

Refuse(p) ==
    /\ At(p, "refuse")
    /\ RefuseTo(p, IF Kind[Current(p)] = "album" THEN "hold" ELSE "sample")

(* The blocker appeared after the first look.  When it is gone again the      *)
(* update stays unclaimed and is offered again.                               *)
RefuseLate(p) == At(p, "reject") /\ RefuseTo(p, "idle")

IsTailAny(j) == j \in DOMAIN jobs
IsTail(j) == j = Len(jobs)

(* An album whose earlier part waits is kept unavailable while this part is   *)
(* downloaded, but never past the deadline counted from its creation.         *)
ExtendableLate(j) == IsTail(j) /\ jobs[j].status = "queued"
Extendable(j) == IsTail(j) /\ jobs[j].status = "queued" /\ ~jobs[j].aged
HoldGroup(p) ==
    /\ At(p, "hold")
    /\ jobs' = [j \in DOMAIN jobs |->
            IF jobs[j].group = "album" /\ Extendable(j)
            THEN [jobs[j] EXCEPT !.window = "open"] ELSE jobs[j]]
    /\ Goto(p, "fetch")
    /\ UNCHANGED <<arrived, forgotten, offset, inputVars, worker, leases, blocked>>

Fetch(p) ==
    /\ At(p, "fetch")
    /\ Goto(p, "sample") \/ GiveUp(p)
    /\ UNCHANGED <<arrived, forgotten, offset, inputVars, queueVars, blocked>>

(* The clock of the append is read before its transaction begins: windows     *)
(* that close while it waits for the write lock still look open.              *)
Sample(p) ==
    /\ At(p, "sample") /\ Productive(Current(p))
    /\ poller' = [poller EXCEPT ![p].pc = "append",
                                ![p].shut = {j \in DOMAIN jobs : jobs[j].window # "open"}]
    /\ UNCHANGED <<arrived, forgotten, offset, inputVars, queueVars, blocked>>

CandidateLeased(p, j) ==
    /\ IsTail(j) /\ jobs[j].status \in {"queued", "leased"}
    /\ jobs[j].group = Kind[Current(p)] /\ j \notin poller[p].shut
Candidate(p, j) ==
    /\ IsTail(j) /\ jobs[j].status = "queued" /\ jobs[j].group = Kind[Current(p)]
    /\ jobs[j].window = "open" \/ (jobs[j].window = "lapsed" /\ j \notin poller[p].shut)

(* First transaction: append to the open burst at the tail of the topic.      *)
Append1(p) ==
    LET m == Current(p)
        fits == {j \in DOMAIN jobs : Candidate(p, j) /\ Len(jobs[j].inputs) < MaxParts} IN
    /\ At(p, "append")
    /\ \/ /\ InputOf(m) /\ Goto(p, "advance")
          /\ UNCHANGED <<seen, jobs>>
       \/ /\ ~InputOf(m) /\ blocked /\ Goto(p, "reject")
          /\ UNCHANGED <<seen, jobs>>
       \/ /\ ~InputOf(m) /\ ~blocked /\ fits = {} /\ Goto(p, "enqueue")
          /\ UNCHANGED <<seen, jobs>>
       \/ /\ ~InputOf(m) /\ ~blocked /\ fits # {} /\ m \in seen /\ GiveUp(p)
          /\ UNCHANGED <<seen, jobs>>
       \/ /\ ~InputOf(m) /\ ~blocked /\ m \notin seen
          /\ \E j \in fits, after \in {"open", "lapsed"} :
                /\ jobs[j].aged => after = "lapsed"
                /\ jobs' = [jobs EXCEPT ![j].inputs = Append(@, m), ![j].window = after]
          /\ seen' = seen \cup {m}
          /\ Goto(p, "advance")
    /\ UNCHANGED <<arrived, forgotten, offset, refused, quotes, stops, worker, leases, blocked>>

(* Second transaction: a job of its own.  Its idempotency key is the message; *)
(* the input's primary key rejects one that another job already carries.      *)
Keyed(m) == \E j \in DOMAIN jobs : Head(jobs[j].inputs) = m
EnqueueBlind(p) ==
    LET m == Current(p) IN
    /\ At(p, "enqueue") /\ ~blocked /\ ~Keyed(m) /\ Len(jobs) < MaxJobs
    /\ jobs' = Append(jobs, JobOf(m, "open"))
    /\ seen' = seen \cup {m}
    /\ Goto(p, "advance")
    /\ UNCHANGED <<arrived, forgotten, offset, refused, quotes, stops, worker, leases, blocked>>
Enqueue(p) ==
    LET m == Current(p) IN
    /\ At(p, "enqueue")
    /\ \/ /\ Keyed(m) /\ Goto(p, "advance")
          /\ UNCHANGED <<seen, jobs>>
       \/ /\ ~Keyed(m) /\ blocked /\ Goto(p, "reject")
          /\ UNCHANGED <<seen, jobs>>
       \/ /\ ~Keyed(m) /\ ~blocked /\ InputOf(m) /\ GiveUp(p)
          /\ UNCHANGED <<seen, jobs>>
       \/ /\ ~blocked /\ ~InputOf(m) /\ Len(jobs) < MaxJobs
          /\ \E window \in {"open", "lapsed"} : jobs' = Append(jobs, JobOf(m, window))
          /\ seen' = seen \cup {m}
          /\ Goto(p, "advance")
    /\ UNCHANGED <<arrived, forgotten, offset, refused, quotes, stops, worker, leases, blocked>>

(***************************************************************************)
(* The queue behind it: time, leases, turns, the blocker                   *)
(***************************************************************************)

(* The quiet time of a burst is over, or the deadline from its creation.      *)
WindowCloses(j) ==
    /\ jobs[j].window = "open"
    /\ jobs' = [jobs EXCEPT ![j].window = "lapsed"]
    /\ UNCHANGED <<arrived, forgotten, offset, poller, inputVars, worker, leases, blocked>>

DeadlinePasses(j) ==
    /\ ~jobs[j].aged
    /\ jobs' = [jobs EXCEPT ![j].aged = TRUE,
                            ![j].window = IF @ = "open" THEN "lapsed" ELSE @]
    /\ UNCHANGED <<arrived, forgotten, offset, poller, inputVars, worker, leases, blocked>>

Due(j) == jobs[j].status = "queued" /\ jobs[j].window # "open"
FirstOfTopic(j) == \A k \in 1..(j - 1) : jobs[k].status \in {"done", "cancelled"}

(* The lease returns the payload as it is now.                                *)
Lease(w, j) ==
    /\ worker[w] = NoLease /\ leases < MaxLeases
    /\ Due(j) /\ FirstOfTopic(j)
    /\ leases' = leases + 1
    /\ worker' = [worker EXCEPT ![w] =
            [job |-> j, token |-> leases + 1, payload |-> jobs[j].inputs]]
    /\ jobs' = [jobs EXCEPT ![j].status = "leased", ![j].token = leases + 1,
                            ![j].window = "none"]
    /\ UNCHANGED <<arrived, forgotten, offset, poller, inputVars, blocked>>

Owns(w) == worker[w] # NoLease /\ jobs[worker[w].job].token = worker[w].token

(* The lease is returned by its worker, or recovered after it expired under   *)
(* it; the job is due again and may be held for another album part.           *)
Unlease(w) ==
    LET j == worker[w].job IN
    /\ Owns(w) /\ jobs[j].status = "leased"
    /\ leases + MaxJobs <= MaxLeases
    /\ jobs' = [jobs EXCEPT ![j].status = "queued", ![j].token = 0]
    /\ \/ worker' = [worker EXCEPT ![w] = NoLease]
       \/ UNCHANGED worker
    /\ UNCHANGED <<arrived, forgotten, offset, poller, inputVars, leases, blocked>>

Start(w) ==
    LET j == worker[w].job IN
    /\ Owns(w) /\ jobs[j].status = "leased"
    /\ jobs' = [jobs EXCEPT ![j].status = "executing", ![j].ran = worker[w].payload]
    /\ UNCHANGED <<arrived, forgotten, offset, poller, inputVars, worker, leases, blocked>>

Finish(w) ==
    /\ worker[w] # NoLease
    /\ \/ ~Owns(w) /\ UNCHANGED jobs
       \/ /\ Owns(w) /\ jobs[worker[w].job].status = "executing"
          /\ jobs' = [jobs EXCEPT ![worker[w].job].status = "done"]
    /\ worker' = [worker EXCEPT ![w] = NoLease]
    /\ UNCHANGED <<arrived, forgotten, offset, poller, inputVars, leases, blocked>>

(* A local writer or an uncertain turn takes the root, or frees it.           *)
Toggle ==
    /\ blocked' = ~blocked
    /\ UNCHANGED <<arrived, forgotten, offset, poller, inputVars, queueVars>>

PollerStep(p) ==
    \/ Poll(p) \/ Advance(p) \/ Forward(p) \/ Stop(p) \/ Command(p)
    \/ Admit(p) \/ Refuse(p) \/ RefuseLate(p) \/ HoldGroup(p) \/ Fetch(p)
    \/ Sample(p) \/ Append1(p) \/ Enqueue(p)

Next ==
    \/ Arrive \/ Toggle
    \/ \E p \in Pollers : PollerStep(p) \/ DatabaseError(p) \/ Restart(p)
    \/ \E j \in DOMAIN jobs : WindowCloses(j) \/ DeadlinePasses(j)
    \/ \E w \in Workers :
          \/ Unlease(w) \/ Start(w) \/ Finish(w)
          \/ \E j \in DOMAIN jobs : Lease(w, j)

Spec == Init /\ [][Next]_vars

(***************************************************************************)
(* Properties                                                              *)
(***************************************************************************)

(* Every variable has its type.                                             *)
TypeOK ==
    /\ arrived \in 0..Len(Kind) /\ offset \in 1..(Len(Kind) + 1)
    /\ forgotten \in 1..(Len(Kind) + 1)
    /\ poller \in [Pollers -> [pc : PollerSteps, next : 1..(Len(Kind) + 1), at : Updates,
                              upto : 0..Len(Kind), shut : SUBSET (1..MaxJobs)]]
    /\ UNION {seen, refused, quotes, stops} \subseteq Updates
    /\ Len(jobs) <= MaxJobs
    /\ \A j \in DOMAIN jobs :
        /\ Range(jobs[j].inputs) \subseteq Updates /\ Len(jobs[j].inputs) \in 1..MaxParts
        /\ jobs[j].status \in {"queued", "leased", "executing", "done", "cancelled"}
        /\ jobs[j].window \in {"open", "lapsed", "none"}
    /\ leases \in 0..MaxLeases

(* Redelivered updates, two pollers on one message and a restart between the *)
(* transactions of an admission never make a message the input of two jobs,  *)
(* or of one job twice (state.py enqueue_or_append_provider_job).            *)
AdmittedOnce ==
    \A j, k \in DOMAIN jobs : \A a \in DOMAIN jobs[j].inputs, b \in DOMAIN jobs[k].inputs :
        jobs[j].inputs[a] = jobs[k].inputs[b] => j = k /\ a = b

(* What Telegram will not offer again is disposed of: a productive update    *)
(* below the confirmed offset is the input of a job, was refused with a      *)
(* durable notice or was claimed as too long (service.py run_forever).       *)
NothingSkipped ==
    \A m \in 1..(forgotten - 1) :
        Productive(m) => InputOf(m) \/ m \in refused \/ (Kind[m] = "long" /\ m \in seen)

(* A turn is given every message admitted into its job: no part of a burst   *)
(* is recorded as an input after the payload was read (state.py append       *)
(* against state_provider_jobs.py lease and mark_executing).                 *)
WholeBatchIsRun ==
    \A j \in DOMAIN jobs : jobs[j].status \in {"executing", "done"} => jobs[j].ran = jobs[j].inputs

(* With one poller, messages enter the topic in the order they arrived, even *)
(* across failed admissions and restarts.                                    *)
AdmittedInOrder ==
    \A j, k \in DOMAIN jobs : \A a \in DOMAIN jobs[j].inputs, b \in DOMAIN jobs[k].inputs :
        j < k \/ (j = k /\ a < b) => jobs[j].inputs[a] < jobs[k].inputs[b]

(* With one poller, a message whose refusal the owner is told is never run.   *)
RefusedIsNotRun == \A m \in refused : ~InputOf(m)

=============================================================================
