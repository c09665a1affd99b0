-------------------------- MODULE IncidentMonitor --------------------------
(***************************************************************************)
(* The monitor's cycle: evaluate alerts, project them into the incident    *)
(* journal, and tell the Operations topic about new ones.                  *)
(*                                                                         *)
(* A cycle is a short process started by a timer or by hand.  Whole cycles *)
(* are serialized by a file lock; a cycle that finds the lock unusable     *)
(* goes on without the journal.  Each alert key stands for a condition of  *)
(* the installation that the cycle sees, does not see, or cannot observe   *)
(* this time.  Keys are numbers, whose order is the order of the opaque    *)
(* tokens derived from them.  The monitor's own health is one key: it is   *)
(* bad while its published streak of failed Telegram probes is at the      *)
(* threshold.                                                              *)
(***************************************************************************)
EXTENDS Naturals, FiniteSets

CONSTANTS Procs,       \* monitor processes
          Notifiers,   \* the ones started with --notify
          Repairers,   \* the ones started with --repair
          Keys,        \* alert keys
          MonitorKey,  \* the key of the monitor's own health
          Access,      \* keys of bot access probes, which may be unobserved
          Surface,     \* the approval surface, which may be unobserved
          Workers,     \* keys of the workers of one agent
          Impact,      \* catalogue impact of a key: 1 blocking ... 4 diagnostic
          LockUsable,  \* the lock file can be opened
          Mortal,      \* cycles may die
          LostReplies, \* a send that fails may have reached the chat
          MaxEpisodes, \* MAX_EPISODES (500 in the code)
          Retention,   \* RETENTION, in clock steps
          Threshold,   \* TELEGRAM_HEALTH_FAILURE_THRESHOLD
          MaxStreak,   \* cap of the failure streak (1,000,000 in the code)
          MaxClock,    \* bound of the clock
          MaxFaults    \* dead cycles, failed evaluations, sends and writes

Bounds == /\ Keys \subseteq Nat \ {0} /\ MonitorKey \in Keys
                 /\ Notifiers \subseteq Procs /\ Repairers \subseteq Procs
                 /\ Access \cup Surface \cup Workers \subseteq Keys \ {MonitorKey}
                 /\ Impact \in [Keys -> 1 .. 4]
                 /\ Threshold <= MaxStreak

VARIABLES bad,     \* conditions of the installation that hold now
          hidden,  \* keys whose probe gets no determinate answer now
          gateway, \* the Hermes gateway answers and follows the group policy
          clock,
          journal, \* incident-journal.json
          seed,    \* incident-journal.seed: none, short or whole
          lock,    \* holder of incident-journal.lock, a set of at most one
          claims,  \* alert_deliveries rows of the operations transitions
          repair,  \* alert_deliveries row of the repair: none, hot or cool
          health,  \* runtime_health row of the monitor
          event,   \* last transport event recorded for the monitor
          proc,    \* a cycle's step and what it carries
          faults,
          told,    \* messages about a key since a cycle last saw it good
          well,    \* keys whose condition was good since their last observation
          restarts \* restarts of the gateway under the current repair claim

world == <<bad, hidden, gateway, clock>>
files == <<journal, seed>>
rows == <<claims, repair, health, event>>
ghosts == <<told, well, restarts>>
vars == <<bad, hidden, gateway, clock, journal, seed, lock, claims, repair,
          health, event, proc, faults, told, well, restarts>>

Blocking == 1
Degraded == 3
ACTIONABLE_IMPACTS == {1, 2}

Resting == [ph |-> "idle", journal |-> FALSE, alerts |-> {}, unseen |-> {}, due |-> {},
            todo |-> {}, fails |-> 0, hermes |-> FALSE, status |-> "none"]

Init ==
  /\ bad = {} /\ hidden = {} /\ gateway = TRUE /\ clock = 1
  /\ journal = [exists |-> FALSE, updated |-> 0, rows |-> {}, omitted |-> [i \in 1 .. 4 |-> 0]]
  /\ seed = "none" /\ lock = {}
  /\ claims = {} /\ repair = "none"
  /\ health = [fails |-> 0, code |-> "none", success |-> FALSE] /\ event = "none"
  /\ proc = [p \in Procs |-> Resting]
  /\ faults = 0
  /\ told = [k \in Keys |-> 0] /\ well = Keys /\ restarts = 0
----------------------------------------------------------------------------
\* The installation and its clock.

Change(k) ==
  /\ k # MonitorKey
  /\ bad' = IF k \in bad THEN bad \ {k} ELSE bad \cup {k}
  /\ well' = IF k \in bad THEN well \cup {k} ELSE well
  /\ UNCHANGED <<hidden, gateway, clock, files, lock, rows, proc, faults, told, restarts>>

Veil(k) ==
  /\ k \in Access \cup Surface
  /\ hidden' = IF k \in hidden THEN hidden \ {k} ELSE hidden \cup {k}
  /\ UNCHANGED <<bad, gateway, clock, files, lock, rows, proc, faults, ghosts>>

GatewayFails ==
  /\ gateway /\ Repairers # {}
  /\ gateway' = FALSE
  /\ UNCHANGED <<bad, hidden, clock, files, lock, rows, proc, faults, ghosts>>

\* The wall clock; a backward step is one of the faults.
Tick ==
  /\ \/ /\ clock < MaxClock /\ clock' = clock + 1 /\ faults' = faults
     \/ /\ clock > 1 /\ faults < MaxFaults
        /\ clock' = clock - 1 /\ faults' = faults + 1
  /\ UNCHANGED <<bad, hidden, gateway, files, lock, rows, proc, ghosts>>

\* The hour of the cooldown is long against the seconds of a restart.
CooldownEnds ==
  /\ repair = "hot" /\ \A p \in Procs : proc[p].ph # "restart"
  /\ repair' = "cool" /\ restarts' = 0
  /\ UNCHANGED <<world, files, lock, claims, health, event, proc, faults, told, well>>
----------------------------------------------------------------------------
\* Entering a cycle, its first health row and the repair.

Goes(p, ph) == proc' = [proc EXCEPT ![p].ph = ph]

Enter(p) ==
  /\ proc[p].ph = "idle"
  /\ lock = {} \/ ~LockUsable          \* IncidentJournalBusy: the cycle is skipped
  /\ lock' = IF LockUsable THEN {p} ELSE lock
  /\ proc' = [proc EXCEPT ![p].ph = "start", ![p].journal = LockUsable]
  /\ UNCHANGED <<world, files, rows, faults, ghosts>>

\* MonitorHealth takes over the streak of the previous cycle and publishes.
Start(p) ==
  /\ proc[p].ph = "start"
  /\ health' = [fails |-> health.fails, code |-> "none", success |-> FALSE]
  /\ proc' = [proc EXCEPT ![p].ph = IF p \in Repairers /\ ~gateway THEN "repair" ELSE "probe",
                          ![p].fails = health.fails]
  /\ UNCHANGED <<world, files, lock, claims, repair, event, faults, ghosts>>

Claim_always(p) ==
  /\ proc[p].ph = "repair"
  /\ repair' = "hot" /\ Goes(p, "restart")
  /\ UNCHANGED <<world, files, lock, claims, health, event, faults, ghosts>>

\* claim_alert_delivery: once per cooldown.
ClaimRepair(p) ==
  /\ proc[p].ph = "repair"
  /\ IF repair = "hot"
     THEN repair' = repair /\ Goes(p, "probe")
     ELSE repair' = "hot" /\ Goes(p, "restart")
  /\ UNCHANGED <<world, files, lock, claims, health, event, faults, ghosts>>

Restart(p) ==
  /\ proc[p].ph = "restart"
  /\ \/ gateway' = TRUE /\ faults' = faults
     \/ gateway' = gateway /\ faults < MaxFaults /\ faults' = faults + 1
  /\ restarts' = restarts + 1
  /\ Goes(p, "probe")
  /\ UNCHANGED <<bad, hidden, clock, files, lock, rows, told, well>>
----------------------------------------------------------------------------
\* Probes, the failure streak and the evaluation.

CapStreak(n) == IF n > MaxStreak THEN MaxStreak ELSE n
Unseen == hidden

\* What observe records: the crossing of the threshold and the recovery.
EventAfter_early(before, after) ==
  IF after > 0 THEN IF after = Threshold THEN "error" ELSE event
  ELSE IF before > 0 /\ Access # {} THEN "recovered" ELSE event

EventAfter(before, after) ==
  IF after > 0 THEN IF after = Threshold THEN "error" ELSE event
  ELSE IF before >= Threshold /\ Access # {} THEN "recovered" ELSE event

\* One failed cycle is one failure, however many groups could not be asked.
Probe(p) ==
  /\ proc[p].ph = "probe"
  /\ LET fails == IF Unseen \cap Access # {} THEN CapStreak(proc[p].fails + 1) ELSE 0
     IN  /\ event' = EventAfter(proc[p].fails, fails)
         /\ proc' = [proc EXCEPT ![p].ph = "publish", ![p].fails = fails,
                                 ![p].unseen = Unseen,
                                 ![p].alerts = bad \ Unseen, ![p].hermes = gateway]
  /\ told' = [k \in Keys |-> IF k \in bad \cup Unseen THEN told[k] ELSE 0]
  /\ UNCHANGED <<world, files, lock, claims, repair, health, faults, well, restarts>>

\* The streak is published before the monitor's own row is evaluated.
Evaluate(p) ==
  /\ proc[p].ph = "publish"
  /\ health' = [fails |-> proc[p].fails, code |-> "none", success |-> FALSE]
  /\ proc' = [proc EXCEPT ![p].ph = "project",
                          ![p].alerts = @ \cup IF proc[p].fails >= Threshold
                                               THEN {MonitorKey} ELSE {}]
  /\ UNCHANGED <<world, files, lock, claims, repair, event, faults, ghosts>>

\* An exception in a check ends the cycle; its health row says so.
EvaluationFails(p) ==
  /\ proc[p].ph \in {"probe", "publish"} /\ faults < MaxFaults
  /\ faults' = faults + 1
  /\ Goes(p, "error")
  /\ UNCHANGED <<world, files, lock, rows, ghosts>>
----------------------------------------------------------------------------
\* The projection of the alerts into the journal.

\* classify_alerts: a failed worker blocks only when its agent has none left.
ImpactOf(k, alerts) ==
  IF k \in Workers THEN IF Workers \subseteq alerts THEN Blocking ELSE Degraded
  ELSE Impact[k]

\* _load accepts it.
Readable(j) ==
  /\ Cardinality(j.rows) <= MaxEpisodes
  /\ \A r \in j.rows : /\ r.opened <= r.seen /\ r.seen <= j.updated
                       /\ r.resolved # 0 => r.seen <= r.resolved /\ r.resolved <= j.updated
  /\ \A r, s \in j.rows : r.resolved = 0 /\ s.resolved = 0 /\ r.key = s.key => r = s

FreshId(rs, k) == CHOOSE n \in 1 .. MaxEpisodes + 1 :
                    /\ \A r \in rs : r.key = k => r.id # n
                    /\ \A m \in 1 .. n - 1 : \E r \in rs : r.key = k /\ r.id = m

Stays_alerts(r, alerts, unseen) == r.resolved = 0 /\ r.key \in alerts
\* An open row stays open while its alert holds or could not be observed.
Stays(r, alerts, unseen) == r.resolved = 0 /\ r.key \in alerts \cup unseen

Before_token(a, i, b, j) == a < b
\* The most actionable first, then by token.
Before(a, i, b, j) == i < j \/ (i = j /\ a < b)

\* Newest first.
Later(r, s) == \/ r.resolved > s.resolved
               \/ r.resolved = s.resolved /\ (r.key > s.key \/ (r.key = s.key /\ r.id > s.id))

\* _project: what a cycle with these alerts publishes in place of the journal.
Projected(alerts, unseen) ==
  LET active == {r \in journal.rows : Stays(r, alerts, unseen)}
      RowOf(k) == CHOOSE r \in active : r.key = k
      known == {r.key : r \in active}
      closed == {[r EXCEPT !.resolved = IF @ = 0 THEN clock ELSE @] :
                   r \in journal.rows \ active}
      recent == {r \in closed : r.resolved + Retention >= clock}
      cands == alerts \cup known
      impact(k) == IF k \in alerts THEN ImpactOf(k, alerts) ELSE RowOf(k).impact
      picked == {k \in cands : Cardinality({j \in cands : Before(j, impact(j), k, impact(k))})
                                 < MaxEpisodes}
      row(k) == IF k \notin alerts THEN RowOf(k)
                ELSE [key |-> k, resolved |-> 0, seen |-> clock, impact |-> impact(k),
                      id |-> IF k \in known THEN RowOf(k).id ELSE FreshId(journal.rows, k),
                      opened |-> IF k \in known THEN RowOf(k).opened ELSE clock]
      room == MaxEpisodes - Cardinality(picked)
      kept == {r \in recent : Cardinality({s \in recent : Later(s, r)}) < room}
  IN  [exists |-> TRUE, updated |-> clock, rows |-> {row(k) : k \in picked} \cup kept,
       omitted |-> [i \in 1 .. 4 |-> Cardinality({k \in cands \ picked : impact(k) = i})]]

\* The journal refuses a clock behind its own and a seed that was cut short.
Accepts_clock == /\ Readable(journal) /\ seed # "short"
                 /\ journal.exists => seed = "whole"
Accepts == /\ Readable(journal) /\ seed # "short"
           /\ journal.exists => seed = "whole" /\ journal.updated <= clock

omitted_actionable(j) == \E i \in ACTIONABLE_IMPACTS : j.omitted[i] > 0
Status(j) == IF omitted_actionable(j) THEN "saturated" ELSE "updated"

\* A row just observed as bad is good again only from here on.
Observed(alerts) == well' = (well \ alerts) \cup (alerts \ (bad \cup {MonitorKey}))

Project(p) ==
  /\ proc[p].ph = "project" /\ proc[p].journal /\ Accepts
  /\ LET new == Projected(proc[p].alerts, proc[p].unseen)
     IN  /\ journal' = new /\ seed' = "whole"
         /\ \/ faults' = faults /\ proc' = [proc EXCEPT ![p].ph = "reconcile", ![p].status = Status(new)]
            \* replaced, but the directory could not be synced
            \/ /\ faults < MaxFaults /\ faults' = faults + 1
               /\ proc' = [proc EXCEPT ![p].ph = "reconcile", ![p].status = "unavailable"]
  /\ Observed(proc[p].alerts)
  /\ UNCHANGED <<world, lock, rows, told, restarts>>

\* Refused, without the lock, or the replacement failed: the old bytes stay.
ProjectFails(p) ==
  /\ proc[p].ph = "project"
  /\ \/ ~proc[p].journal /\ faults' = faults
     \/ proc[p].journal /\ ~Accepts /\ faults' = faults
     \/ proc[p].journal /\ Accepts /\ faults < MaxFaults /\ faults' = faults + 1
  /\ proc' = [proc EXCEPT ![p].ph = "reconcile", ![p].status = "unavailable"]
  /\ seed' = IF proc[p].journal /\ Accepts /\ seed = "none" THEN "whole" ELSE seed
  /\ UNCHANGED <<world, journal, lock, rows, ghosts>>
----------------------------------------------------------------------------
\* Telling the Operations topic.

Armed_alerts(alerts, unseen) == claims \cap alerts
\* reconcile_alert_transitions: what was observed to be over is re-armed.
Armed(alerts, unseen) == claims \cap (alerts \cup unseen)

Reconcile(p) ==
  /\ proc[p].ph = "reconcile"
  /\ claims' = IF p \in Notifiers THEN Armed(proc[p].alerts, proc[p].unseen) ELSE claims
  /\ proc' = [proc EXCEPT ![p].ph = IF p \in Notifiers /\ proc[p].alerts # {}
                                    THEN "claim" ELSE "finish",
                          ![p].todo = proc[p].alerts]
  /\ UNCHANGED <<world, files, lock, repair, health, event, faults, ghosts>>

\* claim_alert_transition, one transaction for each alert.
Claim(p) ==
  /\ proc[p].ph = "claim"
  /\ LET k == CHOOSE x \in proc[p].todo : \A y \in proc[p].todo : x <= y
         due == IF k \in claims THEN proc[p].due ELSE proc[p].due \cup {k}
     IN  /\ claims' = claims \cup {k}
         /\ proc' = [proc EXCEPT ![p].due = due, ![p].todo = @ \ {k},
                                 ![p].ph = IF proc[p].todo # {k} THEN "claim"
                                           ELSE IF due = {} THEN "finish" ELSE "send"]
  /\ UNCHANGED <<world, files, lock, repair, health, event, faults, ghosts>>

Post(p) == told' = [k \in Keys |-> IF k \in proc[p].due /\ told[k] < 2
                                   THEN told[k] + 1 ELSE told[k]]

Send(p) ==
  /\ proc[p].ph = "send"
  /\ \/ Post(p) /\ Goes(p, "finish") /\ faults' = faults
     \/ /\ faults < MaxFaults /\ faults' = faults + 1
        /\ (LostReplies /\ Post(p)) \/ told' = told
        /\ Goes(p, "fallback")
  /\ UNCHANGED <<world, files, lock, rows, well, restarts>>

\* The same destination through Hermes, if the recovery plane is enabled (as for
\* repairs) and this cycle found it well.
Fallback(p) ==
  /\ proc[p].ph = "fallback"
  /\ \/ /\ p \in Repairers /\ proc[p].hermes /\ Post(p) /\ Goes(p, "finish")
        /\ faults' = faults
     \/ /\ \/ faults' = faults /\ ~(p \in Repairers /\ proc[p].hermes)
           \/ faults < MaxFaults /\ faults' = faults + 1
        /\ (LostReplies /\ Post(p)) \/ told' = told
        /\ proc' = [proc EXCEPT ![p].ph = "release", ![p].todo = proc[p].due]
  /\ UNCHANGED <<world, files, lock, rows, well, restarts>>

Release_keep(p) ==
  /\ proc[p].ph = "release"
  /\ Goes(p, "error")
  /\ UNCHANGED <<world, files, lock, rows, faults, ghosts>>

\* release_alert_delivery, one transaction for each alert.
Release(p) ==
  /\ proc[p].ph = "release"
  /\ LET k == CHOOSE x \in proc[p].todo : \A y \in proc[p].todo : x <= y
     IN  /\ claims' = claims \ {k}
         /\ proc' = [proc EXCEPT ![p].todo = @ \ {k},
                                 ![p].ph = IF proc[p].todo = {k} THEN "error" ELSE "release"]
  /\ UNCHANGED <<world, files, lock, repair, health, event, faults, ghosts>>

Ends_locked(p) == proc' = [proc EXCEPT ![p] = Resting] /\ lock' = lock
Ends(p) == proc' = [proc EXCEPT ![p] = Resting] /\ lock' = lock \ {p}

Finish(p) ==
  /\ proc[p].ph = "finish"
  /\ health' = [fails |-> proc[p].fails,
                code |-> IF proc[p].status = "updated" THEN "none" ELSE proc[p].status,
                success |-> proc[p].status = "updated"]
  /\ Ends(p)
  /\ UNCHANGED <<world, files, claims, repair, event, faults, ghosts>>

FailedCycle(p) ==
  /\ proc[p].ph = "error"
  /\ health' = [fails |-> proc[p].fails, code |-> "monitor_cycle_error", success |-> FALSE]
  /\ Ends(p)
  /\ UNCHANGED <<world, files, claims, repair, event, faults, ghosts>>

\* The process dies; a seed being written may stay short.
Die(p) ==
  /\ Mortal /\ proc[p].ph # "idle" /\ faults < MaxFaults
  /\ faults' = faults + 1
  /\ Ends(p)
  /\ \/ seed' = seed
     \/ /\ proc[p].ph = "project" /\ proc[p].journal /\ Accepts /\ seed = "none"
        /\ seed' = "short"
  /\ UNCHANGED <<world, journal, rows, ghosts>>

Step(p) ==
  \/ Start(p) \/ ClaimRepair(p) \/ Restart(p) \/ Probe(p) \/ Evaluate(p)
  \/ Project(p) \/ ProjectFails(p) \/ Reconcile(p) \/ Claim(p)
  \/ Send(p) \/ Fallback(p) \/ Release(p) \/ Finish(p) \/ FailedCycle(p)

Next ==
  \/ \E k \in Keys : Change(k) \/ Veil(k)
  \/ GatewayFails \/ Tick \/ CooldownEnds
  \/ \E p \in Procs : Enter(p) \/ Step(p) \/ EvaluationFails(p) \/ Die(p)

Spec == Init /\ [][Next]_vars

----------------------------------------------------------------------------
\* Properties.

Phases == {"idle", "start", "repair", "restart", "probe", "publish", "project", "reconcile",
           "claim", "send", "fallback", "release", "finish", "error"}

\* Every variable has its type and the lock names the one serialized cycle.
TypeOK ==
  /\ bad \subseteq Keys \ {MonitorKey} /\ hidden \subseteq Access \cup Surface
  /\ gateway \in BOOLEAN /\ clock \in 1 .. MaxClock
  /\ seed \in {"none", "short", "whole"} /\ journal.exists => seed = "whole"
  /\ lock = {p \in Procs : proc[p].journal} /\ Cardinality(lock) <= 1
  /\ claims \subseteq Keys /\ repair \in {"none", "hot", "cool"}
  /\ health.fails \in 0 .. MaxStreak /\ event \in {"none", "error", "recovered"}
  /\ \A p \in Procs : proc[p].ph \in Phases /\ proc[p].alerts \cap proc[p].unseen = {}
  /\ faults \in 0 .. MaxFaults

\* Whatever the clock does and whoever dies, the published journal is one the
\* next cycle can load: within its bound, one open episode for a key, and every
\* time in order.  A journal that failed this would be refused for ever.
JournalStaysReadable == Readable(journal)

\* An episode is closed only after its condition was really good at some time
\* since it was last seen bad: no answer is not a recovery.
RecoveryIsReal ==
    \A r \in journal.rows : \A s \in journal'.rows :
      r.key = s.key /\ r.id = s.id /\ r.resolved = 0 /\ s.resolved # 0 /\ r.key # MonitorKey
        => r.key \in well

\* When the bound forces episodes out, blocking and awaiting ones are kept
\* first, and a cycle that reports success has lost none of them.
BlockerIsKept ==
  /\ omitted_actionable(journal) =>
       \A r \in journal.rows : r.resolved = 0 => r.impact \in ACTIONABLE_IMPACTS
  /\ \A p \in Procs :
       proc[p].ph \in {"claim", "send", "finish"} /\ proc[p].status = "updated" =>
         \A k \in proc[p].alerts :
           ImpactOf(k, proc[p].alerts) \in ACTIONABLE_IMPACTS =>
             \E r \in journal.rows : r.key = k /\ r.resolved = 0

\* Until a cycle sees the condition good again it is told at most once, whatever
\* becomes unobservable, fails or dies on the way.
ToldOnce == \A k \in Keys \ {MonitorKey} : told[k] <= 1

\* The gateway is restarted at most once in a cooldown, even by cycles that
\* run at the same time because the lock is unusable.
RepairIsRare == restarts <= 1

\* A recovery of the transport is recorded only after an outage was, and an
\* outage only when so many cycles in a row have failed.
RecoveryFollowsOutage ==
    event' # event => \/ event' = "error"
                      \/ event' = "recovered" /\ event = "error"

=============================================================================
