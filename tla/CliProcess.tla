----------------------------- MODULE CliProcess -----------------------------
(***************************************************************************)
(* A turn of a provider other than Claude (external_runtime.run_turn): the *)
(* CLI is run with communicate(), a thread watches its log for an          *)
(* exhausted quota, and the monitor thread of the worker's turn interrupts *)
(* it for a stop (external_worker.py).  The adapter is shared by the turns *)
(* of the worker, and neither thread is waited for longer than its join:   *)
(* it may still be at work when the next turn runs.                        *)
(***************************************************************************)
EXTENDS Naturals

CONSTANTS
  MaxTurns,    \* turns the worker runs one after the other
  WatchesLog,  \* the runtime is OpenCode, whose log is watched
  LateJoin     \* a monitor and a watcher may outlive their join

CliAssumption == MaxTurns \in Nat \ {0} /\ WatchesLog \in BOOLEAN /\ LateJoin \in BOOLEAN

VARIABLES
  turn,     \* the turn in progress, or the last one
  stopReq,  \* turns whose job the owner asked to stop
  mon,      \* each turn's monitor thread
  asked,    \* turns whose monitor noted the request it interrupted for
  flag,     \* _interrupt_requested
  lock,     \* whether interrupt() holds _process_lock across steps
  active,   \* turn whose process is _active_process, or 0
  leader,   \* each turn's process: none, run, dying, zombie, reaped, recycled
  code,     \* the exit code of the turn's process
  said,     \* what its output holds: nothing, text, or a limit notice
  log,      \* whether a limit notice was appended to the log since the turn's start
  watch,    \* each turn's limit watcher
  limit,    \* turns whose watcher found a notice (detected_limit)
  pc,       \* the runner
  verdict,  \* what run_turn of the turn in progress returned or raised
  outcome,  \* the durable outcome of each turn's job
  hit       \* a signal reached a process group of a stranger

vars == <<turn, stopReq, mon, asked, flag, lock, active, leader, code, said, log, watch, limit,
          pc, verdict, outcome, hit>>

\* What the runner, the stop, the watcher and the CLI leave to the others.
adapter == <<flag, lock, active>>
cli == <<code, said, log>>
stops == <<stopReq, mon, asked>>
found == <<watch, limit>>
job == <<verdict, outcome>>

Turns == 1..MaxTurns

Init ==
  /\ turn = 0 /\ stopReq = {} /\ asked = {}
  /\ mon = [t \in Turns |-> "off"] /\ watch = [t \in Turns |-> "off"]
  /\ flag = FALSE /\ lock = FALSE /\ active = 0
  /\ leader = [t \in Turns |-> "none"] /\ code = "none" /\ said = "none"
  /\ log = FALSE /\ limit = {}
  /\ pc = "idle" /\ verdict = "none" /\ outcome = [t \in Turns |-> "none"] /\ hit = FALSE

\* pending_emergency_stop_for_job: the request of a job that is settled is complete.
Pending(t) == t \in stopReq /\ outcome[t] = "none"

\* killpg: the group dies unless its number has been given away.
Strike(t) ==
  /\ leader' = [leader EXCEPT ![t] = IF @ = "run" THEN "dying" ELSE @]
  /\ hit' = (hit \/ leader[t] = "recycled")

\* Popen.poll and communicate reap a process that has exited.
Polled(t) == IF leader[t] = "zombie" THEN "reaped" ELSE leader[t]
Running(t) == leader[t] \in {"run", "dying"}

----------------------------------------------------------------------------
\* The CLI and the kernel.

CliWorks ==
  /\ turn > 0 /\ leader[turn] = "run"
  /\ \/ said = "none" /\ said' \in {"text", "limit"} /\ UNCHANGED <<leader, code, log>>
     \/ ~log /\ log' = TRUE /\ UNCHANGED <<leader, code, said>>
     \/ /\ leader' = [leader EXCEPT ![turn] = "zombie"] /\ code' \in {"zero", "fail"}
        /\ UNCHANGED <<said, log>>
  /\ UNCHANGED <<turn, stops, adapter, found, pc, job, hit>>

Die(t) ==
  /\ leader[t] = "dying" /\ leader' = [leader EXCEPT ![t] = "zombie"]
  /\ code' = IF t = turn THEN "kill" ELSE code
  /\ UNCHANGED <<turn, stops, adapter, said, log, found, pc, job, hit>>

Recycle(t) ==
  /\ leader[t] = "reaped" /\ leader' = [leader EXCEPT ![t] = "recycled"]
  /\ UNCHANGED <<turn, stops, adapter, cli, found, pc, job, hit>>

----------------------------------------------------------------------------
\* The stop: the owner asks, the turn's monitor interrupts whatever the adapter runs.

OwnerStops ==
  /\ turn > 0 /\ outcome[turn] = "none" /\ turn \notin stopReq
  /\ stopReq' = stopReq \cup {turn}
  /\ UNCHANGED <<turn, mon, asked, adapter, leader, cli, found, pc, job, hit>>

MonitorReads(t) ==
  /\ mon[t] = "watch" /\ Pending(t)
  /\ mon' = [mon EXCEPT ![t] = "found"]
  /\ UNCHANGED <<turn, stopReq, asked, adapter, leader, cli, found, pc, job, hit>>

\* interrupt(): the flag is set before the lock is taken.
InterruptFlags(t) ==
  /\ mon[t] = "found"
  /\ flag' = TRUE /\ mon' = [mon EXCEPT ![t] = "lock"]
  /\ UNCHANGED <<turn, stopReq, asked, lock, active, leader, cli, found, pc, job, hit>>

\* interrupt(): under the lock, a process that poll() finds running is about to be signalled.
InterruptObserves(t) ==
  /\ mon[t] = "lock" /\ ~lock
  /\ leader' = IF active = 0 THEN leader ELSE [leader EXCEPT ![active] = Polled(active)]
  /\ IF active # 0 /\ Running(active)
     THEN lock' = TRUE /\ mon' = [mon EXCEPT ![t] = "kill"]
     ELSE mon' = [mon EXCEPT ![t] = "note"] /\ UNCHANGED lock
  /\ UNCHANGED <<turn, stopReq, asked, flag, active, cli, found, pc, job, hit>>

InterruptKills(t) ==
  /\ mon[t] = "kill"
  /\ Strike(active)
  /\ lock' = FALSE /\ mon' = [mon EXCEPT ![t] = "note"]
  /\ UNCHANGED <<turn, stopReq, asked, flag, active, cli, found, pc, job>>

MonitorNotes(t) ==
  /\ mon[t] = "note"
  /\ asked' = asked \cup {t} /\ mon' = [mon EXCEPT ![t] = "off"]
  /\ UNCHANGED <<turn, stopReq, adapter, leader, cli, found, pc, job, hit>>

----------------------------------------------------------------------------
\* The turn.

\* prepare_interruptible_turn clears the flag of an earlier turn; the monitor is started.
Prepare ==
  /\ pc = "idle" /\ turn < MaxTurns /\ ~lock
  /\ turn' = turn + 1
  /\ flag' = FALSE
  /\ mon' = [mon EXCEPT ![turn + 1] = "watch"]
  /\ code' = "none" /\ said' = "none" /\ log' = FALSE /\ verdict' = "none"
  /\ pc' = "start"
  /\ UNCHANGED <<stopReq, asked, lock, active, leader, found, outcome, hit>>

Start ==
  /\ pc = "start"
  /\ \/ leader' = [leader EXCEPT ![turn] = "run"] /\ pc' = "register" /\ UNCHANGED verdict
     \/ verdict' = "failed" /\ pc' = "join" /\ UNCHANGED leader
  /\ UNCHANGED <<turn, stops, adapter, cli, found, outcome, hit>>

\* The process is registered, then the watcher is started.
Register ==
  /\ pc = "register" /\ ~lock
  /\ active' = turn
  /\ watch' = [watch EXCEPT ![turn] = IF WatchesLog THEN "wait" ELSE "off"]
  /\ pc' = "communicate"
  /\ UNCHANGED <<turn, stops, flag, lock, leader, cli, limit, job, hit>>

\* watch_opencode_limit: a limit notice appended since the start ends the CLI.
WatchReads(t) ==
  /\ watch[t] = "wait" /\ log
  /\ limit' = limit \cup {t} /\ watch' = [watch EXCEPT ![t] = "kill"]
  /\ UNCHANGED <<turn, stops, adapter, leader, cli, pc, job, hit>>

WatchKills(t) ==
  /\ watch[t] = "kill"
  /\ Strike(t) /\ watch' = [watch EXCEPT ![t] = "off"]
  /\ UNCHANGED <<turn, stops, adapter, cli, limit, pc, job>>

\* communicate(timeout): the output is read to its end and the process reaped, without the
\* lock of interrupt().
Communicate ==
  /\ pc = "communicate"
  /\ IF Running(turn) THEN pc' = "term" /\ UNCHANGED leader
     ELSE pc' = "release" /\ leader' = [leader EXCEPT ![turn] = Polled(turn)]
  /\ UNCHANGED <<turn, stops, adapter, cli, found, job, hit>>

\* The timeout: SIGTERM, five seconds, SIGKILL, five seconds, an error in any case.
Terminate ==
  /\ pc = "term"
  /\ Strike(turn) /\ pc' = "lastwait"
  /\ UNCHANGED <<turn, stops, adapter, cli, found, job>>

LastWait ==
  /\ pc = "lastwait"
  /\ leader' = [leader EXCEPT ![turn] = Polled(turn)] /\ verdict' = "timeout" /\ pc' = "release"
  /\ UNCHANGED <<turn, stops, adapter, cli, found, outcome, hit>>

\* The finally clause: the watcher is told to stop and joined for a second.
Release ==
  /\ pc = "release" /\ ~lock
  /\ watch[turn] # "kill" \/ LateJoin
  /\ watch' = [watch EXCEPT ![turn] = IF @ = "wait" THEN "off" ELSE @]
  /\ active' = 0 /\ pc' = "ended"
  /\ UNCHANGED <<turn, stops, flag, lock, leader, cli, limit, job, hit>>

\* _parse_result of a process that was neither interrupted nor ended for its quota.
Parsed ==
  CASE code # "zero" -> IF said = "limit" THEN "limit" ELSE "failed"
    [] code = "zero" /\ said = "none" -> "failed"
    [] OTHER -> "result"

\* The stop wins over a detected limit, the limit over the output.
Ended ==
  CASE verdict = "timeout" -> "timeout"
    [] verdict # "timeout" /\ flag -> "interrupted"
    [] verdict # "timeout" /\ ~flag /\ turn \in limit -> "limit"
    [] OTHER -> Parsed

Return ==
  /\ pc = "ended"
  /\ verdict' = Ended /\ pc' = "join"
  /\ UNCHANGED <<turn, stops, adapter, leader, cli, found, outcome, hit>>

\* The monitor is told to stop and joined for two seconds.
Join ==
  /\ pc = "join"
  /\ mon[turn] \in {"off", "watch"} \/ LateJoin
  /\ mon' = [mon EXCEPT ![turn] = IF @ = "watch" THEN "off" ELSE @]
  /\ pc' = "settle"
  /\ UNCHANGED <<turn, stopReq, asked, adapter, leader, cli, found, job, hit>>

\* A stop noted by the monitor, or pending by now, wins over a completed turn; the commit of
\* any other outcome honours a pending stop.  What was interrupted or failed is uncertain.
SettledAs ==
  CASE turn \in asked /\ verdict = "result" -> "cancelled"
    [] Pending(turn) -> "cancelled"
    [] ~Pending(turn) /\ turn \notin asked /\ verdict = "result" -> "result"
    [] ~Pending(turn) /\ verdict = "limit" -> "failed"
    [] OTHER -> "indeterminate"

Settle ==
  /\ pc = "settle"
  /\ outcome' = [outcome EXCEPT ![turn] = SettledAs]
  /\ pc' = "idle"
  /\ UNCHANGED <<turn, stops, adapter, leader, cli, found, verdict, hit>>

----------------------------------------------------------------------------

Runner == \/ Prepare \/ Start \/ Register \/ Communicate \/ Terminate \/ LastWait \/ Release
          \/ Return \/ Join \/ Settle

Thread(t) ==
  \/ MonitorReads(t) \/ InterruptFlags(t) \/ InterruptObserves(t) \/ InterruptKills(t)
  \/ MonitorNotes(t) \/ WatchReads(t) \/ WatchKills(t) \/ Die(t) \/ Recycle(t)

Next == Runner \/ (\E t \in Turns : Thread(t)) \/ OwnerStops \/ CliWorks

Spec == Init /\ [][Next]_vars

----------------------------------------------------------------------------
\* Properties.

\* Every variable stays in its range; a process is registered only while its turn runs.
TypeOK ==
  /\ turn \in 0..MaxTurns /\ flag \in BOOLEAN /\ lock \in BOOLEAN /\ log \in BOOLEAN
  /\ stopReq \subseteq Turns /\ asked \subseteq Turns  /\ limit \subseteq Turns
  /\ leader \in [Turns -> {"none", "run", "dying", "zombie", "reaped", "recycled"}]
  /\ code \in {"none", "zero", "fail", "kill"} /\ said \in {"none", "text", "limit"}
  /\ mon \in [Turns -> {"off", "watch", "found", "lock", "kill", "note"}]
  /\ watch \in [Turns -> {"off", "wait", "kill"}]
  /\ pc \in {"idle", "start", "register", "communicate", "term", "lastwait", "release", "ended",
             "join", "settle"}
  /\ active = IF pc \in {"communicate", "term", "lastwait", "release"} THEN turn ELSE 0
  /\ lock <=> \E t \in Turns : mon[t] = "kill"

\* A result is published only for a job nobody asked to stop, from its own process that ended
\* by itself with success, also when a late thread of the turn before races its output.
ResultIsOwn ==
  (turn > 0 /\ outcome[turn] = "result") =>
    /\ turn \notin stopReq /\ code = "zero" /\ said # "none"
    /\ leader[turn] \in {"reaped", "recycled"}

\* A job is cancelled only for a stop of its own, whatever monitors of earlier turns do to
\* its process and to the flag.
CancelIsOwn == \A t \in Turns : outcome[t] = "cancelled" => t \in stopReq

\* A job that nobody asked to stop is not uncertain because of a stop: no turn but one whose
\* owner asked returns as interrupted.
InterruptIsOfTurn == verdict = "interrupted" => turn \in stopReq

\* Only a stop or a quota notice that races the end of a process can signal a stranger: the
\* turn itself, its timeout included, signals only what it has not reaped.
StrangerNeedsRace == hit => stopReq # {} \/ limit # {}

=============================================================================
