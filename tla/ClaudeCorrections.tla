------------------------- MODULE ClaudeCorrections -------------------------
(***************************************************************************)
(* A streamed Claude turn that takes one correction from the queue.        *)
(*                                                                         *)
(* A Claude job is given to a process whose input stays open.  Until the   *)
(* first native result, the head of the topic's queue may be written to    *)
(* the same process as a correction: the reservation row and the child's   *)
(* executing status commit before the first byte.  The process echoes a    *)
(* receipt for every input it has taken in and ends each of its turns with *)
(* a result; an input receipted after the first result belongs to the      *)
(* second.  The pair is settled together: by the saved completion, by the  *)
(* failure of the turn, by a stop, or by the recovery of a lapsed lease.   *)
(*                                                                         *)
(* Jobs 1..NumJobs are one topic's queue in its order.  Lease time is      *)
(* counted down by Tick; a worker that dies loses its process and comes    *)
(* back idle.                                                              *)
(***************************************************************************)
EXTENDS Naturals, Sequences, FiniteSets

CONSTANTS Workers,      \* worker processes of the Claude agent
          NumJobs,      \* messages the topic receives
          LeaseTime,    \* ticks of a lease (120 s in the code)
          MaxFaults,    \* database faults, native faults and dead workers
          MaxSwitches,  \* owner's changes of model or session
          MaxStops      \* emergency stops

Bounds == /\ IsFiniteSet(Workers)
          /\ {NumJobs, LeaseTime} \subseteq Nat \ {0}
          /\ {MaxFaults, MaxSwitches, MaxStops} \subseteq Nat

Jobs == 1 .. NumJobs

VARIABLES job,      \* provider_jobs: status, lease token, time left, snapshot
          run,      \* claude_input_runs of a job: receipt and result boundaries
          child,    \* claude_input_children: correction of a job and its token, job 0 for none
          text,     \* completed_text: inputs its saved answer covers, {} for none
          cur,      \* the session's generation and model
          plain,    \* jobs a running turn can take as text
          stopped,  \* jobs a stop covers
          resolved, \* uncertain jobs the owner has resolved
          wk,       \* a worker: its step, job, token and ClaudeCorrectionInput
          nat,      \* the native process of a worker
          faults, switches, stops,
          given     \* times a job's text was written to a process

vars == <<job, run, child, text, cur, plain, stopped, resolved, wk, nat,
          faults, switches, stops, given>>

inputVars == <<run, child, text>>
ownerVars == <<cur, plain, stopped, resolved, switches, stops>>

NoRun == [on |-> FALSE, first |-> 0, second |-> 0, results |-> 0, valid |-> FALSE]
NoChild == [job |-> 0, tok |-> 0]
NoJob == [st |-> "none", tok |-> 0, left |-> 0, gen |-> 0, model |-> 0]
Idle == [pc |-> "idle", job |-> 0, tok |-> 0, frames |-> << >>, receipts |-> << >>,
            results |-> 0, failed |-> FALSE, answers |-> {}, sealed |-> FALSE,
            complete |-> FALSE, why |-> "none"]
NoNative == [on |-> FALSE, in |-> << >>, acked |-> 0, covered |-> 0, out |-> << >>]
Event(k, j, ok, a) == [k |-> k, j |-> j, ok |-> ok, answers |-> a]

Init ==
  /\ job = [j \in Jobs |-> NoJob]
  /\ run = [j \in Jobs |-> NoRun]
  /\ child = [j \in Jobs |-> NoChild]
  /\ text = [j \in Jobs |-> {}]
  /\ cur = [gen |-> 0, model |-> 0]
  /\ plain \in SUBSET Jobs
  /\ stopped = {} /\ resolved = {}
  /\ wk = [w \in Workers |-> Idle]
  /\ nat = [w \in Workers |-> NoNative]
  /\ faults = 0 /\ switches = 0 /\ stops = 0
  /\ given = [j \in Jobs |-> 0]

----------------------------------------------------------------------------
\* Reading the tables.

Executing(j) == job[j].st = "executing"
\* The row of a live lease held under token t.
Leased(j, t) == Executing(j) /\ job[j].tok = t /\ job[j].left > 0
\* A token no row and no worker holds (a new UUID).
Tokens == 1 .. 2 * NumJobs + 2 * Cardinality(Workers) + 1
Held == {job[j].tok : j \in Jobs} \cup {child[j].tok : j \in Jobs} \cup {wk[w].tok : w \in Workers}
Fresh == CHOOSE t \in Tokens : t \notin Held /\ \A u \in Tokens \ Held : t <= u
IsChild(j) == \E p \in Jobs : child[p].job = j
Bound(j) == job[j].gen = cur.gen

\* _owner: the invocation lease, its binding, and no saved completion yet.
Owner(p, t) == Leased(p, t) /\ Bound(p) /\ text[p] = {}

\* Work that keeps later work of the topic waiting (job_blocks_topic_fifo).
Blocks(j) == job[j].st \in {"queued", "executing", "result_ready"}

\* The next message of the topic after p that is not over.
Heads_any(p) == {j \in Jobs : j > p /\ job[j].st = "queued"}
Heads(p) == {j \in Jobs : /\ j > p /\ Blocks(j)
                          /\ \A k \in Jobs : k > p /\ Blocks(k) => j <= k}

\* claim: what keeps the turn from taking more input, and the candidate.
Admits_unstopped(p, t) ==
  /\ Owner(p, t)
  /\ run[p].on /\ run[p].results = 0 /\ child[p].job = 0
  /\ job[p].model = cur.model
Admits(p, t) ==
  /\ Owner(p, t)
  /\ run[p].on /\ run[p].results = 0 /\ child[p].job = 0
  /\ job[p].model = cur.model
  /\ p \notin stopped
Compatible(p, c) ==
  /\ job[c].st = "queued" /\ c \in plain /\ c \notin stopped
  /\ job[c].gen = job[p].gen /\ job[c].model = job[p].model
Candidates(p, t) ==
  IF Admits(p, t) THEN {c \in Heads(p) : Compatible(p, c)} ELSE {}

\* Every input is receipted, and by a result that has arrived (0: no receipt).
Whole_some(boundaries, n) == n > 0 /\ \E b \in boundaries : b # 0 /\ b <= n
Whole(boundaries, n) == n > 0 /\ \A b \in boundaries : b # 0 /\ b <= n

\* validate_completion over the rows of the run and its child.
Confirmed(p) ==
  ~run[p].on \/ Whole({run[p].first} \cup (IF child[p].job = 0 THEN {} ELSE {run[p].second}),
                      run[p].results)

----------------------------------------------------------------------------
\* Settling a pair: the parent's row and, in the same transaction, its child.

ChildOutcome_requeued(s) ==
  IF s = "result_ready" THEN "completed" ELSE IF s = "cancelled" THEN s ELSE "queued"
ChildOutcome(s) ==
  IF s = "result_ready" THEN "completed" ELSE IF s = "cancelled" THEN s ELSE "indeterminate"

\* settle raises, and the whole transaction is rolled back, when the child's
\* row is no longer the executing one, or an answer was not validated.
Settleable(p, s) ==
  child[p].job # 0 => /\ Executing(child[p].job) /\ job[child[p].job].tok = child[p].tok
                      /\ s = "result_ready" => run[p].valid /\ text[p] # {}

Ended_leased(j, s) == [job[j] EXCEPT !.st = s, !.left = 0]
Ended(j, s) == [job[j] EXCEPT !.st = s, !.tok = 0, !.left = 0]
Settled(p, s) ==
  [j \in Jobs |-> IF j = p THEN Ended(j, s)
                  ELSE IF j = child[p].job THEN Ended(j, ChildOutcome(s))
                  ELSE job[j]]

\* heartbeat and claim_stale renew the lease of the pair.
Renewed_parent(p, t) ==
  [job EXCEPT ![p].tok = t, ![p].left = LeaseTime]
Renewed(p, t) ==
  [j \in Jobs |-> IF j = p THEN [job[j] EXCEPT !.tok = t, !.left = LeaseTime]
                  ELSE IF j = child[p].job /\ Executing(j) THEN [job[j] EXCEPT !.left = LeaseTime]
                  ELSE job[j]]

----------------------------------------------------------------------------
\* The owner and the clock.

Arrive(j) ==
  /\ job[j].st = "none" /\ \A k \in 1 .. j - 1 : job[k].st # "none"
  /\ job' = [job EXCEPT ![j] = [NoJob EXCEPT !.st = "queued", !.gen = cur.gen,
                                             !.model = cur.model]]
  /\ UNCHANGED <<ownerVars, inputVars, wk, nat, faults, given>>

Switch ==
  /\ switches < MaxSwitches
  /\ switches' = switches + 1
  /\ \/ cur' = [cur EXCEPT !.gen = @ + 1]
     \/ cur' = [cur EXCEPT !.model = @ + 1]
  /\ UNCHANGED <<job, inputVars, plain, stopped, resolved, stops, wk, nat, faults, given>>

\* An emergency stop covers the work there is and cancels what waits.
Stop ==
  /\ stops < MaxStops /\ \E j \in Jobs : Executing(j)
  /\ stops' = stops + 1
  /\ stopped' = stopped \cup {j \in Jobs : job[j].st # "none"}
  /\ job' = [j \in Jobs |-> IF job[j].st = "queued" THEN Ended(j, "cancelled") ELSE job[j]]
  /\ UNCHANGED <<inputVars, cur, plain, resolved, switches, wk, nat, faults, given>>

Resolve(j) ==
  /\ job[j].st = "indeterminate" /\ j \notin resolved
  /\ resolved' = resolved \cup {j}
  /\ UNCHANGED <<job, inputVars, cur, plain, stopped, switches, stops, wk, nat, faults, given>>

Deliver(j) ==
  /\ job[j].st = "result_ready"
  /\ job' = [job EXCEPT ![j].st = "completed"]
  /\ UNCHANGED <<inputVars, ownerVars, wk, nat, faults, given>>

Tick ==
  /\ \E j \in Jobs : job[j].left > 0
  /\ job' = [j \in Jobs |-> [job[j] EXCEPT !.left = IF @ > 0 THEN @ - 1 ELSE 0]]
  /\ UNCHANGED <<inputVars, ownerVars, wk, nat, faults, given>>

----------------------------------------------------------------------------
\* A worker's cycle: recover one saved outcome, recover in bulk, then lease.

Stale == {j \in Jobs : Executing(j) /\ job[j].left = 0}

\* claim_stale takes the oldest lapsed job that is no correction, under a new
\* token; it never queues it again.
Scan(w) ==
  /\ wk[w].pc = "idle"
  /\ LET found == {j \in Stale : ~IsChild(j)}
     IN IF found = {}
        THEN wk' = [wk EXCEPT ![w].pc = "bulk"] /\ UNCHANGED job
        ELSE \E j \in found :
               /\ \A k \in found : j <= k
               /\ job' = Renewed(j, Fresh)
               /\ wk' = [wk EXCEPT ![w] = [Idle EXCEPT !.pc = "recover", !.job = j,
                                                       !.tok = Fresh]]
  /\ UNCHANGED <<inputVars, ownerVars, nat, faults, given>>

\* recover_stale makes every lapsed executing job uncertain.
Bulk(w) ==
  /\ wk[w].pc = "bulk"
  /\ job' = [j \in Jobs |-> IF j \in Stale THEN Ended(j, "indeterminate") ELSE job[j]]
  /\ wk' = [wk EXCEPT ![w].pc = "lease"]
  /\ UNCHANGED <<inputVars, ownerVars, nat, faults, given>>

\* The root is free when nothing executes and no uncertain job is unresolved.
RootIsFree == \A j \in Jobs : ~Executing(j) /\ (job[j].st = "indeterminate" => j \in resolved)
Next1(j) == /\ job[j].st = "queued" /\ RootIsFree
            /\ \A k \in 1 .. j - 1 : ~Blocks(k)

\* The next job is leased, started and prepared: its run row is committed and
\* its text written to the new process.  A failed preparation writes nothing.
Launch(w, j) ==
  /\ wk[w].pc = "lease" /\ Next1(j)
  /\ job' = [job EXCEPT ![j].st = "executing", ![j].tok = Fresh, ![j].left = LeaseTime]
  /\ \/ /\ wk' = [wk EXCEPT ![w] = [Idle EXCEPT !.pc = "turn", !.job = j, !.tok = Fresh,
                                                !.frames = <<j>>]]
        /\ run' = [run EXCEPT ![j].on = TRUE]
        /\ nat' = [nat EXCEPT ![w] = [NoNative EXCEPT !.on = TRUE, !.in = <<j>>]]
        /\ given' = [given EXCEPT ![j] = @ + 1]
        /\ UNCHANGED faults
     \/ /\ faults < MaxFaults /\ faults' = faults + 1
        /\ wk' = [wk EXCEPT ![w] = [Idle EXCEPT !.pc = "fail", !.job = j, !.tok = Fresh,
                                                !.why = "known"]]
        /\ UNCHANGED <<run, nat, given>>
  /\ UNCHANGED <<child, text, ownerVars>>

NoLaunch(w) ==
  /\ wk[w].pc = "lease" /\ ~\E j \in Jobs : Next1(j)
  /\ wk' = [wk EXCEPT ![w] = Idle]
  /\ UNCHANGED <<job, inputVars, ownerVars, nat, faults, given>>

----------------------------------------------------------------------------
\* The turn: polling for a correction and reading the stream.

Running(w) == wk[w].pc = "turn"
\* The stream fails: the process is killed and the failure recorded next.
Broken(w, why) == /\ wk' = [wk EXCEPT ![w] = [@ EXCEPT !.pc = "fail", !.why = why]]
                  /\ nat' = [nat EXCEPT ![w] = NoNative]

\* The claim transaction: the reservation and the child's lease, a copy of
\* its parent's, under a token of its own.
Reserved(p, c) ==
  /\ child' = [child EXCEPT ![p] = [job |-> c, tok |-> Fresh]]
  /\ job' = [job EXCEPT ![c].st = "executing", ![c].tok = Fresh, ![c].left = job[p].left]

Polls(w) == /\ Running(w) /\ ~wk[w].sealed /\ ~wk[w].complete /\ Len(wk[w].frames) = 1
            /\ \E j \in Jobs : j > wk[w].job /\ job[j].st = "queued"

\* The head of the queue is reserved, then its text is written.
Take(w, c) ==
  /\ Polls(w) /\ c \in Candidates(wk[w].job, wk[w].tok)
  /\ Reserved(wk[w].job, c)
  /\ wk' = [wk EXCEPT ![w].frames = Append(@, c)]
  /\ nat' = [nat EXCEPT ![w].in = Append(@, c)]
  /\ given' = [given EXCEPT ![c] = @ + 1]
  /\ UNCHANGED <<run, text, ownerVars, faults>>

\* Nothing can be taken, or the attempt fails without a reservation: the rest
\* of the queue keeps its order and the turn goes on.
Seal(w) ==
  /\ Polls(w)
  /\ \/ Candidates(wk[w].job, wk[w].tok) = {} /\ UNCHANGED faults
     \/ faults < MaxFaults /\ faults' = faults + 1
  /\ wk' = [wk EXCEPT ![w].sealed = TRUE]
  /\ UNCHANGED <<job, inputVars, ownerVars, nat, given>>

\* The commit of the reservation reports an error although it happened.
AmbiguousTake(w, c) ==
  /\ Polls(w) /\ c \in Candidates(wk[w].job, wk[w].tok)
  /\ faults < MaxFaults /\ faults' = faults + 1
  /\ Reserved(wk[w].job, c)
  /\ Broken(w, "unknown")
  /\ UNCHANGED <<run, text, ownerVars, given>>

\* observe of a replayed input: it must be the next one, and its row must take
\* the boundary, the result it will belong to.
Expected(w, j) ==
  /\ ~wk[w].complete
  /\ Len(wk[w].receipts) < Len(wk[w].frames)
  /\ j = wk[w].frames[Len(wk[w].receipts) + 1]
Receiptable(w, j, b) ==
  LET p == wk[w].job
  IN /\ Owner(p, wk[w].tok) /\ b = run[p].results + 1
     /\ \/ j = p /\ b = 1 /\ run[p].first = 0
        \/ j = child[p].job /\ run[p].first = 1 /\ run[p].second = 0

ReadReceipt(w, e) ==
  LET p == wk[w].job
      b == wk[w].results + 1
  IN IF Expected(w, e.j) /\ Receiptable(w, e.j, b)
     THEN /\ run' = [run EXCEPT ![p] = IF e.j = p THEN [@ EXCEPT !.first = b]
                                                  ELSE [@ EXCEPT !.second = b]]
          /\ wk' = [wk EXCEPT ![w].receipts = Append(@, b)]
          /\ nat' = [nat EXCEPT ![w].out = Tail(@)]
     ELSE Broken(w, "unknown") /\ UNCHANGED run

\* observe of a result: what it must follow, and when the turn is complete.
Owned(w) ==
  /\ ~wk[w].complete /\ wk[w].results < 2
  /\ Len(wk[w].receipts) > 0 /\ wk[w].receipts[1] = 1
  /\ wk[w].results = 1 => \E i \in DOMAIN wk[w].receipts : wk[w].receipts[i] = 2
Boundaries(w) ==
  {IF i <= Len(wk[w].receipts) THEN wk[w].receipts[i] ELSE 0 : i \in DOMAIN wk[w].frames}

ReadResult(w, e) ==
  LET p == wk[w].job
      n == wk[w].results + 1
      whole == Whole(Boundaries(w), n)
      bad == wk[w].failed \/ ~e.ok
  IN IF ~Owned(w) \/ ~Owner(p, wk[w].tok) \/ run[p].results # n - 1
     THEN Broken(w, "unknown") /\ UNCHANGED run
     ELSE /\ run' = [run EXCEPT ![p].results = n]
          /\ IF whole /\ bad /\ Len(wk[w].frames) = 2
             THEN Broken(w, "unknown")
             ELSE /\ wk' = [wk EXCEPT ![w] = [@ EXCEPT !.results = n, !.sealed = TRUE,
                                !.complete = whole, !.failed = bad,
                                !.answers = wk[w].answers \cup e.answers]]
                  /\ nat' = [nat EXCEPT ![w].out = Tail(@)]

\* The end of the output: an incomplete exchange fails, a complete one is
\* either the native failure of a lone input or an answer to save.
ReadEnd(w) ==
  IF ~wk[w].complete \/ wk[w].failed
  THEN Broken(w, IF wk[w].complete THEN "known" ELSE "unknown")
  ELSE /\ wk' = [wk EXCEPT ![w].pc = "save"]
       /\ nat' = [nat EXCEPT ![w] = NoNative]

Read(w) ==
  /\ Running(w) /\ nat[w].out # << >>
  /\ LET e == Head(nat[w].out)
     IN \/ e.k = "receipt" /\ ReadReceipt(w, e)
        \/ e.k = "result" /\ ReadResult(w, e)
        \/ e.k = "end" /\ ReadEnd(w) /\ UNCHANGED run
  /\ UNCHANGED <<job, child, text, ownerVars, faults, given>>

\* A callback's transaction fails, or the process's deadline passes.
StreamFault(w) ==
  /\ Running(w)
  /\ faults < MaxFaults /\ faults' = faults + 1
  /\ Broken(w, "unknown")
  /\ UNCHANGED <<job, inputVars, ownerVars, given>>
Deadline(w) ==
  /\ Running(w) /\ Broken(w, "unknown")
  /\ UNCHANGED <<job, inputVars, ownerVars, faults, given>>

\* The stop monitor interrupts the turn; the kill is proven or it is not.
Interrupt(w) ==
  /\ Running(w) /\ wk[w].job \in stopped
  /\ \/ Broken(w, "stop")
     \/ Broken(w, "unknown")
  /\ UNCHANGED <<job, inputVars, ownerVars, faults, given>>

Heartbeat(w) ==
  /\ wk[w].pc \in {"turn", "save", "publish", "fail"}
  /\ Leased(wk[w].job, wk[w].tok)
  /\ job[wk[w].job].left < LeaseTime
  /\ job' = Renewed(wk[w].job, wk[w].tok)
  /\ UNCHANGED <<inputVars, ownerVars, wk, nat, faults, given>>

----------------------------------------------------------------------------
\* The native process (not part of the repository).  Receipts follow the order
\* of the input; a result answers what was receipted since the last one.

Emit(w, e) == nat[w].out \o <<e>>
NativeReceipt(w) ==
  /\ nat[w].on /\ nat[w].acked < Len(nat[w].in)
  /\ nat' = [nat EXCEPT ![w] = [@ EXCEPT !.acked = nat[w].acked + 1,
               !.out = Emit(w, Event("receipt", nat[w].in[nat[w].acked + 1], TRUE, {}))]]
  /\ UNCHANGED <<job, inputVars, ownerVars, wk, faults, given>>
NativeResult(w, ok) ==
  /\ nat[w].on /\ nat[w].covered < nat[w].acked
  /\ nat' = [nat EXCEPT ![w] = [@ EXCEPT !.covered = nat[w].acked,
               !.out = Emit(w, Event("result", 0, ok,
                         {nat[w].in[i] : i \in nat[w].covered + 1 .. nat[w].acked}))]]
  /\ UNCHANGED <<job, inputVars, ownerVars, wk, faults, given>>
\* Once the exchange is complete the input is closed and the process ends.
NativeEnd(w) ==
  /\ nat[w].on /\ wk[w].complete
  /\ nat' = [nat EXCEPT ![w] = [@ EXCEPT !.on = FALSE, !.out = Emit(w, Event("end", 0, TRUE, {}))]]
  /\ UNCHANGED <<job, inputVars, ownerVars, wk, faults, given>>
\* A process that repeats a receipt or a result, or ends early.
NativeFault(w) ==
  LET repeats == {Event("receipt", nat[w].in[i], TRUE, {}) : i \in 1 .. nat[w].acked}
      results == {Event("result", 0, TRUE, {}) : i \in {nat[w].covered} \cap {nat[w].acked}}
  IN /\ nat[w].on /\ faults < MaxFaults /\ faults' = faults + 1
     /\ \E e \in repeats \cup results \cup {Event("end", 0, TRUE, {})} :
          nat' = [nat EXCEPT ![w] = [@ EXCEPT !.on = (e.k # "end"), !.out = Emit(w, e)]]
     /\ UNCHANGED <<job, inputVars, ownerVars, wk, given>>

----------------------------------------------------------------------------
\* The end of a turn.

Go(w, pc, why) == wk' = [wk EXCEPT ![w] = IF pc = "idle" THEN Idle
                                          ELSE [@ EXCEPT !.pc = pc, !.why = why]]

\* record_claude_completion: the answer and its validation, in one transaction.
Save(w) ==
  LET p == wk[w].job
      saves == Leased(p, wk[w].tok) /\ Bound(p) /\ Confirmed(p)
  IN /\ wk[w].pc = "save"
     /\ \/ /\ saves
           /\ text' = [text EXCEPT ![p] = wk[w].answers]
           /\ run' = [run EXCEPT ![p].valid = TRUE]
           /\ Go(w, "publish", "none")
           /\ UNCHANGED faults
        \/ /\ ~saves /\ UNCHANGED <<text, run, faults>>
           /\ Go(w, "fail", "unknown")
        \/ /\ faults < MaxFaults /\ faults' = faults + 1
           /\ Go(w, "fail", "unknown") /\ UNCHANGED <<text, run>>
     /\ UNCHANGED <<job, child, ownerVars, nat, given>>

\* commit_provider_result: a covering stop cancels instead; else the lease
\* must still be the invocation's.
Commits(p, t) ==
  IF p \in stopped
  THEN Executing(p) /\ job[p].tok = t /\ Settleable(p, "cancelled") /\ job' = Settled(p, "cancelled")
  ELSE Leased(p, t) /\ Settleable(p, "result_ready") /\ job' = Settled(p, "result_ready")
CanCommit(p, t) ==
  IF p \in stopped THEN Executing(p) /\ job[p].tok = t /\ Settleable(p, "cancelled")
                   ELSE Leased(p, t) /\ Settleable(p, "result_ready")

Publish(w) ==
  LET p == wk[w].job
  IN /\ wk[w].pc = "publish"
     /\ \/ /\ Commits(p, wk[w].tok) /\ Go(w, "idle", "none") /\ UNCHANGED faults
        \/ /\ ~CanCommit(p, wk[w].tok) /\ Go(w, "fail", "unknown")
           /\ UNCHANGED <<job, faults>>
        \/ /\ faults < MaxFaults /\ faults' = faults + 1
           /\ Go(w, "fail", "unknown") /\ UNCHANGED job
     /\ UNCHANGED <<inputVars, ownerVars, nat, given>>

\* terminate_provider_job_with_notice: a known failure yields to a stop, an
\* uncertain one does not; both need the live lease, or nothing is recorded.
Terminates(p, t, s) ==
  LET end == IF s = "failed" /\ p \in stopped THEN "cancelled" ELSE s
  IN IF (end = "cancelled" \/ Leased(p, t)) /\ Executing(p) /\ job[p].tok = t /\ Settleable(p, end)
     THEN job' = Settled(p, end)
     ELSE UNCHANGED job

\* _recover_leased_claude_job: without a valid binding or a saved answer the
\* job becomes uncertain; once the answer is proven, a local failure leaves it
\* to the next recovery of its lease.
RecoverLeased_held(p, t) ==
  IF Leased(p, t) /\ Bound(p) /\ text[p] # {}
  THEN \/ Commits(p, t) /\ UNCHANGED faults
       \/ faults < MaxFaults /\ faults' = faults + 1 /\ UNCHANGED job
  ELSE UNCHANGED <<job, faults>>
RecoverLeased(p, t) ==
  IF Leased(p, t) /\ Bound(p) /\ text[p] # {}
  THEN \/ Commits(p, t) /\ UNCHANGED faults
       \/ faults < MaxFaults /\ faults' = faults + 1 /\ UNCHANGED job
  ELSE Terminates(p, t, "indeterminate") /\ UNCHANGED faults

Recover(w) ==
  /\ wk[w].pc = "recover"
  /\ RecoverLeased(wk[w].job, wk[w].tok)
  /\ Go(w, "idle", "none")
  /\ UNCHANGED <<inputVars, ownerVars, nat, given>>

\* _record_failure: a saved answer is published under the turn's own lease;
\* otherwise the stop, the known failure or the uncertainty is recorded.
RecordFailure(w) ==
  LET p == wk[w].job
      t == wk[w].tok
  IN /\ wk[w].pc = "fail"
     /\ IF Executing(p) /\ job[p].tok = t /\ text[p] # {}
        THEN RecoverLeased(p, t)
        ELSE /\ UNCHANGED faults
             /\ CASE wk[w].why = "stop" ->
                       IF Executing(p) /\ job[p].tok = t /\ Settleable(p, "cancelled")
                       THEN job' = Settled(p, "cancelled") ELSE UNCHANGED job
                  [] wk[w].why = "known" -> Terminates(p, t, "failed")
                  [] OTHER -> Terminates(p, t, "indeterminate")
     /\ Go(w, "idle", "none")
     /\ UNCHANGED <<inputVars, ownerVars, nat, given>>

Die(w) ==
  /\ wk[w].pc \notin {"idle", "bulk", "lease"}
  /\ faults < MaxFaults /\ faults' = faults + 1
  /\ wk' = [wk EXCEPT ![w] = Idle]
  /\ nat' = [nat EXCEPT ![w] = NoNative]
  /\ UNCHANGED <<job, inputVars, ownerVars, given>>

----------------------------------------------------------------------------
Native(w) == \/ NativeReceipt(w)
             \/ \E ok \in BOOLEAN : NativeResult(w, ok)
             \/ NativeEnd(w)
             \/ NativeFault(w)

Step(w) == \/ Scan(w) \/ Bulk(w) \/ NoLaunch(w)
           \/ \E j \in Jobs : Launch(w, j)
           \/ Read(w) \/ Save(w) \/ Publish(w) \/ Recover(w) \/ RecordFailure(w)

Poll(w) == Seal(w) \/ \E c \in Jobs : Take(w, c) \/ AmbiguousTake(w, c)

OwnerSteps == \/ Switch \/ Stop
              \/ \E j \in Jobs : Arrive(j) \/ Resolve(j) \/ Deliver(j)

Next == \/ OwnerSteps
        \/ Tick
        \/ \E w \in Workers : \/ Step(w) \/ Poll(w) \/ Native(w) \/ Heartbeat(w)
                              \/ StreamFault(w) \/ Deadline(w) \/ Interrupt(w) \/ Die(w)

Spec == Init /\ [][Next]_vars

\* Workers run their cycle and time passes; the adapter's deadline ends a turn.
\* A recovery is local work of moments under a lease of two minutes, so it is
\* not outlived by its lease for ever.
PromptRecover(w) == Recover(w) /\ Leased(wk[w].job, wk[w].tok)

----------------------------------------------------------------------------
TypeOK ==
  /\ \A j \in Jobs :
       /\ job[j].st \in {"none", "queued", "executing", "result_ready", "completed",
                         "failed", "cancelled", "indeterminate"}
       /\ job[j].tok \in {0} \cup Tokens /\ job[j].left \in 0 .. LeaseTime
       /\ Executing(j) <=> job[j].tok # 0
       /\ run[j].first \in 0 .. 1 /\ run[j].second \in 0 .. 2 /\ run[j].results \in 0 .. 2
       /\ child[j].job \in {0} \cup (j + 1 .. NumJobs)
       /\ text[j] \subseteq Jobs
  /\ \A w \in Workers : Len(wk[w].frames) <= 2 /\ Len(wk[w].receipts) <= Len(wk[w].frames)
  /\ faults <= MaxFaults

\* A message reaches a Claude process at most once: a correction whose turn
\* failed, was recovered or could not be confirmed is never run from the queue.
InputOnce == \A j \in Jobs : given[j] <= 1

\* A turn and its correction run and end together, whoever ends them: the
\* worker, a stop, the recovery of a saved answer, or the bulk recovery.
PairEndsTogether ==
  \A p \in Jobs : child[p].job # 0 =>
    LET c == job[child[p].job].st
    IN CASE job[p].st = "executing" -> c = "executing"
         [] job[p].st \in {"result_ready", "completed"} -> c = "completed"
         [] job[p].st = "cancelled" -> c = "cancelled"
         [] OTHER -> c = "indeterminate"

\* A message that ends as answered is covered by the answer its turn published:
\* the native process receipted it and ended a turn of its own with it.
AnsweredIsConfirmed ==
  \A p \in Jobs : job[p].st \in {"result_ready", "completed"} /\ ~IsChild(p) =>
    {p} \cup ({child[p].job} \ {0}) \subseteq text[p]

\* A correction never overtakes: when a message is given to a process, every
\* earlier message of the topic has been given or is over.
OrderIsKept ==
  \A j \in Jobs : given[j] > 0 =>
    \A k \in 1 .. j - 1 : given[k] > 0 \/ job[k].st \notin {"none", "queued"}

\* Only work a stop covers is cancelled: a message sent after the stop is not
\* taken into the turn being stopped, to be cancelled with it.
CancelledIsCovered == \A j \in Jobs : job[j].st = "cancelled" => j \in stopped

\* A saved answer is never turned into uncertainty while its session stands:
\* it is published, or cancelled by a stop.
SavedIsPublished ==
  \A p \in Jobs : text[p] # {} /\ Bound(p) => job[p].st # "indeterminate"

----------------------------------------------------------------------------
\* Why the properties hold: an inductive invariant, part by part.
Steps == {"idle", "bulk", "lease", "turn", "save", "publish", "fail", "recover"}
Stages == {"none", "queued", "executing", "result_ready", "completed", "failed", "cancelled",
           "indeterminate"}
Some == {0} \cup Tokens
JobRow == [st : Stages, tok : Some, left : 0 .. LeaseTime, gen : Nat, model : Nat]
RunRow == [on : BOOLEAN, first : 0 .. 1, second : 0 .. 2, results : 0 .. 2, valid : BOOLEAN]
ChildRow == [job : 0 .. NumJobs, tok : Some]
Seat == [pc : Steps, job : 0 .. NumJobs, tok : Some, frames : Seq(Jobs), receipts : Seq(1 .. 2),
         results : 0 .. 2, failed : BOOLEAN, answers : SUBSET Jobs, sealed : BOOLEAN,
         complete : BOOLEAN, why : {"none", "known", "unknown", "stop"}]
Events == [k : {"receipt", "result", "end"}, j : 0 .. NumJobs, ok : BOOLEAN, answers : SUBSET Jobs]
Process == [on : BOOLEAN, in : Seq(Jobs), acked : Nat, covered : Nat, out : Seq(Events)]
Typed ==
  /\ job \in [Jobs -> JobRow] /\ run \in [Jobs -> RunRow] /\ child \in [Jobs -> ChildRow]
  /\ text \in [Jobs -> SUBSET Jobs] /\ given \in [Jobs -> Nat]
  /\ cur \in [gen : Nat, model : Nat] /\ stopped \subseteq Jobs
  /\ wk \in [Workers -> Seat] /\ nat \in [Workers -> Process]
  /\ faults \in 0 .. MaxFaults
  /\ \A w \in Workers : nat[w].acked <= Len(nat[w].in)

(* A message that was begun never waits again, and so did every earlier one.  *)
Begun(j) == job[j].st \notin {"none", "queued"}
QueueFits ==
  /\ \A j \in Jobs : /\ Executing(j) <=> job[j].tok # 0
                     /\ given[j] <= 1 /\ (given[j] # 0 => Begun(j))
  /\ \A j, k \in Jobs : k < j /\ job[j].st # "none" => job[k].st # "none"
  /\ \A j, k \in Jobs : k < j /\ Begun(j) => Begun(k)

(* A correction belongs to one turn and takes none itself.                    *)
ChildrenFit ==
  /\ \A p \in Jobs : child[p].job # 0 =>
        /\ p < child[p].job /\ Begun(p) /\ Begun(child[p].job)
        /\ child[child[p].job].job = 0
        /\ p \in stopped => child[p].job \in stopped
        /\ Executing(p) => job[child[p].job].left = job[p].left
  /\ \A p, q \in Jobs : child[p].job # 0 /\ child[p].job = child[q].job => p = q

(* A saved answer covers the turn's inputs, and no other turn is answered.    *)
TextsFit ==
  /\ \A p \in Jobs : text[p] # {} => {p} \cup ({child[p].job} \ {0}) \subseteq text[p]
  /\ \A p \in Jobs : job[p].st \in {"result_ready", "completed"} /\ ~IsChild(p) => text[p] # {}

(* What a worker has in hand.                                                  *)
InTurn(w) == wk[w].pc \in {"turn", "save"}
SeatFits(w) ==
  /\ wk[w].job # 0 => Begun(wk[w].job) /\ ~IsChild(wk[w].job)
  /\ wk[w].pc \in {"turn", "save", "publish", "fail", "recover"} => wk[w].job # 0
  /\ Len(wk[w].frames) <= 2 /\ Len(wk[w].receipts) <= Len(wk[w].frames)
  /\ wk[w].pc = "publish" => text[wk[w].job] # {}
  /\ wk[w].pc = "fail" /\ wk[w].why = "stop" => wk[w].job \in stopped
  /\ InTurn(w) =>
       /\ wk[w].frames = IF child[wk[w].job].job = 0 THEN <<wk[w].job>>
                         ELSE <<wk[w].job, child[wk[w].job].job>>
       /\ wk[w].results = 2 => wk[w].complete
       /\ wk[w].pc = "save" => wk[w].complete
       /\ wk[w].complete => \A n \in DOMAIN wk[w].frames : wk[w].frames[n] \in wk[w].answers
SeatsFit ==
  /\ \A w \in Workers : SeatFits(w)
  /\ \A v, w \in Workers : InTurn(v) /\ InTurn(w) /\ wk[v].job = wk[w].job => v = w

(* What the native process has receipted before a result of its output is      *)
(* answered by that result or an earlier one.                                  *)
Receipted(w, k, x) ==
  \/ \E n \in 1 .. Len(wk[w].receipts) : nat[w].in[n] = x
  \/ \E n \in 1 .. k - 1 : nat[w].out[n].k = "receipt" /\ nat[w].out[n].j = x
Answered(w, k, x) == x \in wk[w].answers \/ \E n \in 1 .. k : x \in nat[w].out[n].answers
EventFits(w, k) ==
  LET e == nat[w].out[k]
  IN /\ e.k = "receipt" => \E n \in 1 .. nat[w].acked : nat[w].in[n] = e.j
     /\ e.k = "result" => \A x \in Jobs : Receipted(w, k, x) => Answered(w, k, x)
     /\ e.k # "result" => e.answers = {}
StreamFits(w) ==
  wk[w].pc = "turn" =>
    /\ nat[w].in = wk[w].frames
    /\ Len(wk[w].receipts) <= nat[w].acked /\ nat[w].covered <= nat[w].acked
    /\ \A k \in 1 .. Len(nat[w].out) : EventFits(w, k)
    /\ \A n \in 1 .. nat[w].covered : Answered(w, Len(nat[w].out), nat[w].in[n])

CorrectionInv ==
  /\ Typed /\ QueueFits /\ ChildrenFit /\ PairEndsTogether /\ TextsFit /\ CancelledIsCovered
  /\ SeatsFit /\ \A w \in Workers : StreamFits(w)
=============================================================================
