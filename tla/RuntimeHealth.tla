---------------------------- MODULE RuntimeHealth ----------------------------
(***************************************************************************)
(* The runtime-health cache: what each process publishes about itself      *)
(* (state_runtime_health.py and the _publish_health of every component),   *)
(* how the rows are classified and projected (runtime_health.py) and which *)
(* of them become alerts (alerts.py).  Publication is best effort and the  *)
(* readers look at nothing but the rows, so the module is about the        *)
(* difference between a row and the process it speaks for.                 *)
(*                                                                         *)
(* An age of 0 is a heartbeat within degraded_after, 1 one within          *)
(* stale_after and 2 an older one; a row ages in its own component's unit  *)
(* (the monitor's is minutes).  Timestamps, activity and quota columns, and*)
(* the runtime events, decide no status and are left out.                  *)
(***************************************************************************)
EXTENDS Naturals, FiniteSets

CONSTANTS Claude, Codex,   \* provider workers by runtime
          Demand,          \* workers that jobs arrive for
          Links,           \* components with a Telegram link: "controller", "sender"
          Plain,           \* "monitor", "project_provisioner"
          Releases, Dirty, \* builds a process may be of; those not of a clean tree
          Runtimes,        \* runtimes a worker's agent may be configured with
          Limit,           \* REPEATED_REFUSAL_LIMIT
          Threshold        \* TELEGRAM_HEALTH_FAILURE_THRESHOLD

HealthTypes ==
    /\ Limit \in Nat \ {0} /\ Threshold \in Nat \ {0}
    /\ Dirty \subseteq Releases /\ Demand \subseteq Claude \cup Codex

Workers == Claude \cup Codex
Components == Workers \cup Links \cup Plain

VARIABLES
    proc,      \* component -> its process and what it remembers
    row,       \* component -> its runtime_health row
    want,      \* component -> runtime the configuration expects of it
    approvals, \* supervisor.human_approvals_available()
    hist,      \* history: component -> failures in a row, latest outcome
    born       \* history: component -> age of its process, counted as a row's

vars == <<proc, row, want, approvals, hist, born>>

\* No row, no snapshot: a view of no release.
Nothing == [rel |-> "none", rt |-> "none", code |-> "none", prov |-> "unknown", fails |-> 0]
Codes == {"none", "refusal", "fault", "link", "cycle"}
Views == [rel : Releases, rt : Runtimes, code : Codes \cup {"approvals"},
          prov : {"unknown", "ready", "limited", "unavailable"}, fails : 0..Threshold]

Dead == [up |-> FALSE, rel |-> CHOOSE r \in Releases : TRUE, rt |-> CHOOSE t \in Runtimes : TRUE,
         code |-> "none", prov |-> "unknown", streak |-> 0, fails |-> 0,
         stage |-> "idle", beat |-> FALSE, snap |-> Nothing]

Init ==
    /\ proc = [c \in Components |-> Dead]
    /\ row = [c \in Components |-> [age |-> 0, view |-> Nothing]]
    /\ want = [c \in Components |-> CHOOSE t \in Runtimes : TRUE]
    /\ approvals = TRUE
    /\ hist = [c \in Components |-> [run |-> 0, fault |-> FALSE, last |-> "none"]]
    /\ born = [c \in Components |-> 0]

Capped(n, cap) == IF n < cap THEN n ELSE cap

-----------------------------------------------------------------------------
\* What a process publishes, and the row that keeps it.

\* The arguments of upsert_runtime_health for what process p of c remembers.
View(c, p) ==
    [rel |-> p.rel, rt |-> p.rt, prov |-> p.prov, fails |-> p.fails,
     code |-> IF c \in Codex /\ p.code = "none" /\ ~approvals THEN "approvals" ELSE p.code]

Upsert_identity(c, v) ==
    row' = [row EXCEPT ![c] = [age |-> 0, view |->
               IF @.view = Nothing THEN v ELSE [v EXCEPT !.rel = row[c].view.rel]]]
Upsert(c, v) == row' = [row EXCEPT ![c] = [age |-> 0, view |-> v]]

\* The process goes on as p and tries to publish: a failed write is survived.
Publishes(c, p) ==
    /\ proc' = [proc EXCEPT ![c] = p]
    /\ \/ Upsert(c, View(c, p))
       \/ UNCHANGED row

Notes(c, h) == hist' = [hist EXCEPT ![c] = h]

-----------------------------------------------------------------------------
\* Processes.  The worker's lock allows one process for an instance id.

Boot(c, rel) ==
    /\ ~proc[c].up
    /\ Publishes(c, [Dead EXCEPT !.up = TRUE, !.rel = rel, !.rt = want[c]])
    /\ Notes(c, [run |-> 0, fault |-> FALSE, last |-> "none"])
    /\ born' = [born EXCEPT ![c] = 0]
    /\ UNCHANGED <<want, approvals>>

Crash(c) ==
    /\ proc[c].up
    /\ proc' = [proc EXCEPT ![c] = Dead]
    /\ UNCHANGED <<row, want, approvals, hist, born>>

\* The heartbeat at the top of every loop.
Publish(c) ==
    /\ proc[c].up /\ proc[c].stage = "idle"
    /\ Publishes(c, proc[c])
    /\ UNCHANGED <<want, approvals, hist, born>>

Age(c) ==
    /\ row' = [row EXCEPT ![c].age = Capped(@ + 1, 2)]
    /\ born' = [born EXCEPT ![c] = Capped(@ + 1, 2)]
    /\ UNCHANGED <<proc, want, approvals, hist>>

\* The operator gives a worker's agent another runtime.
Reconfigure(w) ==
    /\ \E t \in Runtimes \ {want[w]} : want' = [want EXCEPT ![w] = t]
    /\ UNCHANGED <<proc, row, approvals, hist, born>>

ApprovalsChange ==
    /\ Codex # {}
    /\ approvals' = ~approvals
    /\ UNCHANGED <<proc, row, want, hist, born>>

-----------------------------------------------------------------------------
\* A provider worker's turn.

\* run_cycle publishes the lease, _execute the execution and starts the
\* thread that renews the lease and publishes in the turn's stead.
Lease(w) ==
    /\ w \in Demand /\ proc[w].up /\ proc[w].stage = "idle"
    /\ Publishes(w, [proc[w] EXCEPT !.stage = "leased"])
    /\ UNCHANGED <<want, approvals, hist, born>>

Execute(w) ==
    /\ proc[w].stage = "leased"
    /\ Publishes(w, [proc[w] EXCEPT !.stage = "executing", !.beat = TRUE])
    /\ UNCHANGED <<want, approvals, hist, born>>

\* The lease thread reads the worker's fields and writes them later; it is
\* given two seconds to end, so its write may come after the turn's own.
Beat(w) ==
    /\ proc[w].beat /\ proc[w].stage = "executing" /\ proc[w].snap = Nothing
    /\ proc' = [proc EXCEPT ![w].snap = View(w, proc[w])]
    /\ UNCHANGED <<row, want, approvals, hist, born>>

BeatWrites(w) ==
    /\ proc[w].snap # Nothing
    /\ proc' = [proc EXCEPT ![w].snap = Nothing]
    /\ Upsert(w, proc[w].snap) \/ UNCHANGED row
    /\ UNCHANGED <<want, approvals, hist, born>>

\* A renewal that fails for another reason than contention ends the thread.
BeatStops(w) ==
    /\ proc[w].beat /\ proc[w].stage = "executing" /\ proc[w].snap = Nothing
    /\ proc' = [proc EXCEPT ![w].beat = FALSE]
    /\ UNCHANGED <<row, want, approvals, hist, born>>

\* The turn is over and the process remembers p of it; the cycle publishes.
Ends(w, p, h) ==
    /\ Publishes(w, [p EXCEPT !.stage = "idle", !.beat = FALSE])
    /\ Notes(w, h)
    /\ UNCHANGED <<want, approvals, born>>

RecordUnavailable_late(p, refused) ==
    IF refused /\ p.streak < Limit THEN [p EXCEPT !.code = "refusal", !.streak = Capped(@ + 1, Limit)]
    ELSE [p EXCEPT !.code = IF refused THEN "refusal" ELSE "fault", !.prov = "unavailable"]
RecordUnavailable_once(p, refused) ==
    [p EXCEPT !.code = IF refused THEN "refusal" ELSE "fault", !.prov = "unavailable"]
RecordUnavailable(p, refused) ==
    LET q == [p EXCEPT !.code = IF refused THEN "refusal" ELSE "fault",
                       !.streak = IF refused THEN Capped(@ + 1, Limit) ELSE @]
    IN  IF refused /\ q.streak < Limit THEN q ELSE [q EXCEPT !.prov = "unavailable"]

\* run_cycle after a turn whose job is result_ready.
Succeeds_state(w) ==
    /\ proc[w].stage = "executing"
    /\ Ends(w, [proc[w] EXCEPT !.code = "none", !.streak = 0],
            [run |-> 0, fault |-> FALSE, last |-> "success"])
Succeeds_null(w) ==
    /\ proc[w].stage = "executing"
    /\ Ends(w, [proc[w] EXCEPT !.code = "null", !.streak = 0, !.prov = "ready"],
            [run |-> 0, fault |-> FALSE, last |-> "success"])
Succeeds(w) ==
    /\ proc[w].stage = "executing"
    /\ Ends(w, [proc[w] EXCEPT !.code = "none", !.streak = 0, !.prov = "ready"],
            [run |-> 0, fault |-> FALSE, last |-> "success"])

\* One of REQUEST_REFUSAL_CODES: only the external runtimes raise them.
Refused(w) ==
    /\ w \in Claude /\ proc[w].stage = "executing"
    /\ Ends(w, RecordUnavailable(proc[w], TRUE),
            [hist[w] EXCEPT !.run = Capped(@ + 1, Limit), !.last = "refusal"])

\* A component failure, an uncertain execution, or a saved completion that
\* is recovered later or that failed (then no code is kept).
Fails(w) ==
    /\ proc[w].stage = "executing"
    /\ \E code \in {"fault", "none"} :
        Ends(w, [RecordUnavailable(proc[w], FALSE) EXCEPT !.code = code],
             [hist[w] EXCEPT !.fault = TRUE, !.last = "fault"])

Limited(w) ==
    /\ proc[w].stage = "executing"
    /\ Ends(w, [proc[w] EXCEPT !.code = "fault", !.prov = "limited"],
            [hist[w] EXCEPT !.fault = TRUE, !.last = "fault"])

\* The project binding does not resolve: the turn ends before it executes.
NoTarget(w) ==
    /\ proc[w].stage = "leased"
    /\ Ends(w, [proc[w] EXCEPT !.code = "fault", !.prov = "unavailable"],
            [hist[w] EXCEPT !.fault = TRUE, !.last = "fault"])

\* A stop before the execution is marked leaves the memory alone.
StoppedEarly(w) ==
    /\ proc[w].stage = "leased"
    /\ Ends(w, proc[w], hist[w])

\* The provider's turn was interrupted by the owner's stop.
Stopped(w) ==
    /\ proc[w].stage = "executing"
    /\ Ends(w, [proc[w] EXCEPT !.code = "none", !.prov = "ready"],
            [hist[w] EXCEPT !.fault = FALSE, !.last = "stop"])

\* The execution failed and a covering stop won the commit of its failure.
FailureIsCancelled(w) ==
    /\ proc[w].stage = "executing"
    /\ Ends(w, [proc[w] EXCEPT !.code = "none", !.prov = "ready"],
            [hist[w] EXCEPT !.fault = FALSE, !.last = "failed"])

-----------------------------------------------------------------------------
\* The controller's polls and the sender's deliveries.

TransportFailure(p) ==
    [p EXCEPT !.fails = Capped(@ + 1, Threshold),
              !.code = IF p.fails + 1 >= Threshold THEN "link" ELSE @]
TransportSuccess_code(p) == [p EXCEPT !.code = "none"]
TransportSuccess(p) == [p EXCEPT !.fails = 0, !.code = "none"]

LinkFails(c) ==
    /\ proc[c].up
    /\ Publishes(c, TransportFailure(proc[c]))
    /\ Notes(c, [hist[c] EXCEPT !.run = Capped(@ + 1, Threshold)])
    /\ UNCHANGED <<want, approvals, born>>

LinkWorks(c) ==
    /\ proc[c].up
    /\ Publishes(c, TransportSuccess(proc[c]))
    /\ Notes(c, [run |-> 0, fault |-> FALSE, last |-> "success"])
    /\ UNCHANGED <<want, approvals, born>>

\* An update that raises (controller), a delivery that fails for another
\* reason than Telegram (sender), a step of a workflow that fails.
Errs(c) ==
    /\ c \notin Workers /\ proc[c].up
    /\ Publishes(c, [proc[c] EXCEPT !.code = "fault"])
    /\ Notes(c, [hist[c] EXCEPT !.fault = TRUE])
    /\ UNCHANGED <<want, approvals, born>>

\* The sender's cycle raises; a later complete cycle proves the queue again.
CycleFails(c) ==
    /\ c = "sender" /\ proc[c].up
    /\ Publishes(c, [proc[c] EXCEPT !.code = "cycle"])
    /\ Notes(c, [hist[c] EXCEPT !.fault = TRUE])
    /\ UNCHANGED <<want, approvals, born>>

CycleEnds(c) ==
    /\ c = "sender" /\ proc[c].up /\ proc[c].code = "cycle"
    /\ Publishes(c, [proc[c] EXCEPT !.code = "none"])
    /\ UNCHANGED <<want, approvals, hist, born>>

\* A workflow completes, or a monitor cycle does.
Recovers(c) ==
    /\ c \in Plain /\ proc[c].up /\ proc[c].code = "fault"
    /\ Publishes(c, [proc[c] EXCEPT !.code = "none"])
    /\ Notes(c, [hist[c] EXCEPT !.fault = FALSE])
    /\ UNCHANGED <<want, approvals, born>>

-----------------------------------------------------------------------------
\* The readers: nothing but rows and configuration.

Status_code(c) ==
    LET r == row[c] IN
    CASE r.view = Nothing -> "unknown"
      [] r.age = 2 -> "stale"
      [] r.age = 1 \/ r.view.code \notin {"none", "refusal"} -> "degraded"
      [] OTHER -> "healthy"
Status_ageless(c) ==
    LET r == row[c] IN
    CASE r.view = Nothing -> "unknown"
      [] \/ r.view.code \notin {"none", "refusal"} \/ r.view.fails >= Threshold
         \/ r.view.prov \in {"limited", "unavailable"} -> "degraded"
      [] OTHER -> "healthy"
Status(c) ==
    LET r == row[c] IN
    CASE r.view = Nothing -> "unknown"
      [] r.age = 2 -> "stale"
      [] \/ r.age = 1
         \/ r.view.code \notin {"none", "refusal"} \/ r.view.fails >= Threshold
         \/ r.view.prov \in {"limited", "unavailable"} -> "degraded"
      [] OTHER -> "healthy"

\* A row written under an expected key by another runtime.
Mismatch(c) == row[c].view # Nothing /\ row[c].view.rt # want[c]

Projected(c) == IF Mismatch(c) THEN "degraded" ELSE Status(c)

Deployment ==
    LET rels == {row[c].view.rel : c \in {d \in Components : row[d].view # Nothing}} IN
    CASE \E c \in Components : row[c].view = Nothing \/ Mismatch(c) \/ row[c].view.rel \in Dirty -> "unknown"
      [] Cardinality(rels) = 1 -> "converged"
      [] OTHER -> "mixed"

\* evaluate_operational_alerts looks at every row but the provisioner's.
Watched == Components \ {"project_provisioner"}
Alerts ==
    {c \in Watched : Projected(c) # "healthy"}
        \cup (IF Deployment = "converged" THEN {} ELSE {"deployment:revision"})

-----------------------------------------------------------------------------
Turn(w) ==
    \/ Lease(w) \/ Execute(w) \/ Beat(w) \/ BeatWrites(w) \/ BeatStops(w)
    \/ Succeeds(w) \/ Refused(w) \/ Fails(w) \/ Limited(w) \/ NoTarget(w)
    \/ StoppedEarly(w) \/ Stopped(w) \/ FailureIsCancelled(w)

Service(c) ==
    \/ c \in Links /\ (LinkFails(c) \/ LinkWorks(c))
    \/ Errs(c) \/ CycleFails(c) \/ CycleEnds(c) \/ Recovers(c)

Next ==
    \/ \E c \in Components :
        \/ \E rel \in Releases : Boot(c, rel)
        \/ Crash(c) \/ Publish(c) \/ Age(c) \/ Service(c)
    \/ \E w \in Workers : Turn(w) \/ Reconfigure(w)
    \/ ApprovalsChange

Spec == Init /\ [][Next]_vars

\* Time passes; a process that keeps trying publishes in the end, idle or in
\* a turn: contention is retried by the next cycle or the next renewal.
Lands(c) == Publish(c) /\ row'[c] = [age |-> 0, view |-> View(c, proc[c])]
BeatLands(w) == BeatWrites(w) /\ row' # row

-----------------------------------------------------------------------------
TypeOK ==
    /\ proc \in [Components -> [up : BOOLEAN, rel : Releases, rt : Runtimes, code : Codes,
            prov : {"unknown", "ready", "limited", "unavailable"}, streak : 0..Limit,
            fails : 0..Threshold, stage : {"idle", "leased", "executing"}, beat : BOOLEAN,
            snap : Views \cup {Nothing}]]
    /\ row \in [Components -> [age : 0..2, view : Views \cup {Nothing}]]
    /\ want \in [Components -> Runtimes] /\ approvals \in BOOLEAN

\* The row says what the process remembers now.
Told(c) == proc[c].up /\ row[c].view = View(c, proc[c])

\* All clear is true of the processes and not only of the rows: no running
\* process older than degraded_after has another release or runtime than the
\* one the rows show, however many publications failed and however often its
\* predecessors were replaced (upsert_runtime_health, project_runtime_health).
AllClearIsTrue ==
    Alerts = {} => \A c, d \in Watched :
        proc[c].up /\ proc[d].up /\ born[c] > 0 /\ born[d] > 0 =>
            proc[c].rel = proc[d].rel /\ proc[c].rel \notin Dirty /\ proc[c].rt = want[c]

\* A published outage is never called healthy: a component failure, the third
\* refusal since the last success, three link failures in a row, whatever
\* other errors came and were cleared in between (_record_unavailable,
\* _record_transport_failure, runtime_health_status).
OutageIsSeen ==
    \A c \in Components :
        /\ Told(c)
        /\ \/ hist[c].last = "fault"
           \/ hist[c].last = "refusal" /\ (hist[c].run >= Limit \/ hist[c].fault)
           \/ c \in Links /\ hist[c].run >= Threshold
        => Status(c) # "healthy"

\* A refusal of one request, or one failed Telegram request, does not degrade
\* a live component: with fewer than the limit since the last success and no
\* other failure, a fresh row is healthy (ADR 0015, REQUEST_REFUSAL_CODES).
BlipIsQuiet ==
    \A c \in Components :
        /\ Told(c) /\ row[c].age = 0 /\ (c \in Codex => approvals)
        /\ ~hist[c].fault /\ hist[c].run < (IF c \in Links THEN Threshold ELSE Limit)
        => Status(c) = "healthy"

=============================================================================
