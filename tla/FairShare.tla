------------------------------ MODULE FairShare ------------------------------
(***************************************************************************)
(* How the workers of several agents share the limit on parallel roots     *)
(* (ProviderJobs.lease, provider_queue_capacity.py, the worker's cycle).   *)
(* ProviderQueue models what a lease protects; this module models who gets *)
(* the next one.  Every worker process decides for itself, inside one      *)
(* transaction, from what the others have published: the capacity they     *)
(* declared, their idle heartbeats, and the order of the last grants.      *)
(*                                                                         *)
(* A job slot stands for a topic with one job at a time; `line' keeps the  *)
(* waiting jobs in order of creation and `granted' the agents in order of  *)
(* last_grant_sequence, of which the code only uses the comparison.        *)
(***************************************************************************)
EXTENDS Naturals, FiniteSets, Sequences, SequencesExt

CONSTANTS Agents, Workers, Jobs, Roots,
          AgentOf,    \* worker -> agent
          JobAgent,   \* job slot -> agent
          JobRoot,    \* job slot -> root
          AgentCap,   \* agent -> workers it may keep busy (agent_capacities)
          Capacities, \* values max_parallel_roots may be configured to
          MaxCrashes  \* bound: worker deaths

FairShareTypes ==
    /\ AgentOf \in [Workers -> Agents] /\ JobAgent \in [Jobs -> Agents]
    /\ JobRoot \in [Jobs -> Roots] /\ AgentCap \in [Agents -> Nat \ {0}]
    /\ Capacities \subseteq Nat \ {0} /\ MaxCrashes \in Nat

VARIABLES
    job,      \* slot -> status, lease owner, lease not expired
    line,     \* waiting jobs, oldest first
    granted,  \* agents ever granted, least recent first
    worker,   \* process -> what it does and its configured capacity
    health,   \* runtime_health: heartbeat fresh, and whether a job is named
    decl,     \* execution_scheduler_workers: fresh declared capacities, 0 none
    passed,   \* history: agent -> grants to others while it contended
    crashes

vars == <<job, line, granted, worker, health, decl, passed, crashes>>

Nobody == "nobody"
NoJob == "no job"
Free == [status |-> "none", owner |-> Nobody, live |-> FALSE]

Init ==
    /\ job = [j \in Jobs |-> Free]
    /\ line = <<>> /\ granted = <<>>
    /\ \E cap \in [Workers -> Capacities] :
        worker = [w \in Workers |-> [pc |-> "idle", job |-> NoJob, cap |-> cap[w]]]
    /\ health = [w \in Workers |-> [fresh |-> FALSE, busy |-> FALSE]]
    /\ decl = [w \in Workers |-> 0]
    /\ passed = [a \in Agents |-> 0]
    /\ crashes = 0

Enqueue(j) ==
    /\ job[j].status = "none"
    /\ job' = [job EXCEPT ![j].status = "queued"]
    /\ line' = Append(line, j)
    /\ UNCHANGED <<granted, worker, health, decl, passed, crashes>>

-----------------------------------------------------------------------------
\* What read_queue_capacity and the selection read.
Live(j) == job[j].status \in {"leased", "executing"} /\ job[j].live
OccupiedRoots == {JobRoot[j] : j \in {i \in Jobs : Live(i)}}
BusyWorkers == {job[j].owner : j \in {i \in Jobs : Live(i)}}
Load(a) == Cardinality({j \in Jobs : Live(j) /\ JobAgent[j] = a})

OwnLimit(w) == worker[w].cap

\* The least of this worker's limit and the limits declared lately.
Limit(w) ==
    LET caps == {worker[w].cap} \cup {decl[v] : v \in {u \in Workers : decl[u] > 0}} IN
    CHOOSE c \in caps : \A d \in caps : c <= d

\* A root is held by a live lease, by every job that executes, and by one
\* whose outcome is unknown.
Blocks(j) == \/ job[j].status \in {"executing", "unknown"}
             \/ job[j].status = "leased" /\ job[j].live
Eligible(j) == /\ job[j].status = "queued"
               /\ \A i \in Jobs \ {j} : JobRoot[i] = JobRoot[j] => ~Blocks(i)
Candidates(a) == SelectSeq(line, LAMBDA j : JobAgent[j] = a /\ Eligible(j))
Candidate(a) == Candidates(a)[1]

IdleOnce(w) == ~health[w].busy /\ w \notin BusyWorkers

IdleWorker(w) == health[w].fresh /\ ~health[w].busy /\ w \notin BusyWorkers

\* An agent contends for the next grant: a worker of it is live and idle, it
\* is below its own capacity and it has a job that could start.
Contends(a) ==
    /\ \E w \in Workers : AgentOf[w] = a /\ IdleWorker(w)
    /\ Load(a) < AgentCap[a]
    /\ Candidates(a) # <<>>

Position(s, x) == IF x \in Range(s) THEN CHOOSE i \in DOMAIN s : s[i] = x ELSE 0
Rank(a) == Position(granted, a)
Place(j) == Position(line, j)

OldestJobWins(a, b) == Place(Candidate(a)) <= Place(Candidate(b))

\* The least recently granted agent goes first; between agents never granted,
\* the older job.
Precedes(a, b) ==
    Rank(a) < Rank(b) \/ (Rank(a) = Rank(b) /\ Place(Candidate(a)) <= Place(Candidate(b)))

RegrantedAgain(a) == Append(granted, a)

\* The grant order after a grant to a: its sequence number is the greatest.
Regranted(a) == Append(SelectSeq(granted, LAMBDA b : b # a), a)

-----------------------------------------------------------------------------
\* One cycle of a worker: publish an idle heartbeat, recover the agent's lost
\* leases, try to lease, execute, publish again.
Publish(w) ==
    /\ worker[w].pc = "idle"
    /\ worker' = [worker EXCEPT ![w].pc = "recover"]
    /\ health' = [health EXCEPT ![w] = [fresh |-> TRUE, busy |-> FALSE]]
    /\ UNCHANGED <<job, line, granted, decl, passed, crashes>>

\* recover_stale, restricted to the worker's own agent: an expired lease goes
\* back to its place in the queue, an execution becomes an unknown outcome.
Recover(w) ==
    /\ worker[w].pc = "recover"
    /\ LET lost == {j \in Jobs : /\ JobAgent[j] = AgentOf[w] /\ ~job[j].live
                                 /\ job[j].status \in {"leased", "executing"}} IN
       job' = [j \in Jobs |->
                 IF j \notin lost THEN job[j]
                 ELSE [Free EXCEPT !.status = IF job[j].status = "leased" THEN "queued" ELSE "unknown"]]
    /\ worker' = [worker EXCEPT ![w].pc = "lease"]
    /\ UNCHANGED <<line, granted, health, decl, passed, crashes>>

CanLease(w) ==
    LET a == AgentOf[w] IN
    /\ Cardinality(OccupiedRoots) < Limit(w)
    /\ w \notin BusyWorkers /\ Load(a) < AgentCap[a]
    /\ Candidates(a) # <<>>
    /\ \A b \in Agents \ {a} : Contends(b) => Precedes(a, b)

\* The limit is declared whatever the outcome.
Lease(w) ==
    LET a == AgentOf[w] IN
    /\ worker[w].pc = "lease"
    /\ decl' = [decl EXCEPT ![w] = worker[w].cap]
    /\ IF CanLease(w)
       THEN /\ job' = [job EXCEPT ![Candidate(a)] = [status |-> "leased", owner |-> w, live |-> TRUE]]
            /\ worker' = [worker EXCEPT ![w].pc = "leased", ![w].job = Candidate(a)]
            /\ granted' = Regranted(a)
            /\ passed' = [b \in Agents |-> IF b = a THEN 0
                                           ELSE IF Contends(b) THEN passed[b] + 1 ELSE passed[b]]
       ELSE /\ worker' = [worker EXCEPT ![w].pc = "idle"]
            /\ UNCHANGED <<job, granted, passed>>
    /\ UNCHANGED <<line, health, crashes>>

\* mark_executing, if the lease is still this worker's.
Execute(w) ==
    LET j == worker[w].job IN
    /\ worker[w].pc = "leased"
    /\ health' = [health EXCEPT ![w] = [fresh |-> TRUE, busy |-> TRUE]]
    /\ IF job[j].owner = w /\ Live(j)
       THEN /\ job' = [job EXCEPT ![j].status = "executing"]
            /\ line' = SelectSeq(line, LAMBDA i : i # j)
            /\ worker' = [worker EXCEPT ![w].pc = "executing"]
       ELSE /\ worker' = [worker EXCEPT ![w].pc = "idle", ![w].job = NoJob]
            /\ UNCHANGED <<job, line>>
    /\ UNCHANGED <<granted, decl, passed, crashes>>

\* The turn ends; the heartbeat still names the job until the next one.
Finish(w) ==
    LET j == worker[w].job IN
    /\ worker[w].pc = "executing"
    /\ job' = [job EXCEPT ![j] = IF job[j].status = "executing" /\ job[j].owner = w THEN Free ELSE @]
    /\ worker' = [worker EXCEPT ![w].pc = "idle", ![w].job = NoJob]
    /\ UNCHANGED <<line, granted, health, decl, passed, crashes>>

-----------------------------------------------------------------------------
\* Deaths and time.  A process is started again, perhaps with another limit.
Crash(w) ==
    /\ worker[w].pc # "down" /\ crashes < MaxCrashes
    /\ worker' = [worker EXCEPT ![w].pc = "down", ![w].job = NoJob]
    /\ crashes' = crashes + 1
    /\ UNCHANGED <<job, line, granted, health, decl, passed>>

Restart(w, cap) ==
    /\ worker[w].pc = "down"
    /\ worker' = [worker EXCEPT ![w].pc = "idle", ![w].cap = cap]
    /\ UNCHANGED <<job, line, granted, health, decl, passed, crashes>>

\* Two minutes without a sign of the process.
HealthAges(w) ==
    /\ worker[w].pc = "down" /\ (health[w].fresh \/ decl[w] > 0)
    /\ health' = [health EXCEPT ![w].fresh = FALSE]
    /\ decl' = [decl EXCEPT ![w] = 0]
    /\ UNCHANGED <<job, line, granted, worker, passed, crashes>>

\* The lease of a worker that no longer renews it expires.
LeaseExpires(j) ==
    /\ Live(j) /\ worker[job[j].owner].job # j
    /\ job' = [job EXCEPT ![j].live = FALSE]
    /\ UNCHANGED <<line, granted, worker, health, decl, passed, crashes>>

\* The recovery of a turn, or the owner, settles an unknown outcome.
Resolve(j) ==
    /\ job[j].status = "unknown"
    /\ job' = [job EXCEPT ![j] = Free]
    /\ UNCHANGED <<line, granted, worker, health, decl, passed, crashes>>

WorkerStep(w) == Publish(w) \/ Recover(w) \/ Lease(w) \/ Execute(w) \/ Finish(w)
Passage(w) == HealthAges(w) \/ \E cap \in Capacities : Restart(w, cap)

Next ==
    \/ \E w \in Workers : WorkerStep(w) \/ Crash(w) \/ Passage(w)
    \/ \E j \in Jobs : Enqueue(j) \/ LeaseExpires(j) \/ Resolve(j)

Spec == Init /\ [][Next]_vars

-----------------------------------------------------------------------------
TypeOK ==
    /\ \A j \in Jobs : /\ job[j].status \in {"none", "queued", "leased", "executing", "unknown"}
                       /\ job[j].owner \in Workers \cup {Nobody} /\ job[j].live \in BOOLEAN
    /\ \A j \in Jobs : job[j].status \in {"queued", "leased"} <=> j \in Range(line)
    /\ \A i, k \in DOMAIN line : i # k => line[i] # line[k]
    /\ \A i, k \in DOMAIN granted : i # k => granted[i] # granted[k]

\* While an agent contends, every other agent is granted at most one lease
\* before it: no agent starves behind another's queue.
BoundedBypass == \A a \in Agents : passed[a] < Cardinality(Agents)

\* A worker configured with a smaller limit lowers everyone's: no lease is
\* granted beyond the least limit a running worker has declared.
ReductionHolds ==
    \A w \in Workers : worker[w].pc = "lease" /\ worker'[w].pc = "leased" =>
     \A v \in Workers : decl[v] > 0 => Cardinality(OccupiedRoots') <= decl[v]

\* An agent has a job that waits.
Wants(a) == \E j \in Jobs : JobAgent[j] = a /\ job[j].status = "queued"

\* It is granted a lease; or no worker of it runs; or the executing job of a dead
\* worker holds its root.
Served(a) ==
    \/ \E j \in Jobs : JobAgent[j] = a /\ job[j].status = "leased"
    \/ \A w \in Workers : AgentOf[w] = a => worker[w].pc = "down"
    \/ \E j \in Jobs : job[j].status = "executing" /\ worker[job[j].owner].job # j

=============================================================================
