--------------------------- MODULE ClaudeProcess ---------------------------
(***************************************************************************)
(* The owned Claude CLI process of one worker (external_runtime.py): a     *)
(* turn starts the process, drains its stream, judges its terminal event   *)
(* and reaps it, while a monitor thread of the same turn turns the owner's *)
(* stop request into a signal (external_worker.py).  The adapter is shared *)
(* by the worker's successive turns, so what one turn leaves behind (a     *)
(* flag, a process, a monitor that outlives its join) meets the next one.  *)
(*                                                                         *)
(* A process is its leader and whatever it forked, all in one process      *)
(* group whose number is the leader's pid: the pid is reserved until the   *)
(* leader is reaped and may belong to a stranger afterwards.               *)
(***************************************************************************)
EXTENDS Naturals, Sequences

CONSTANTS
  MaxTurns,   \* turns the worker runs one after the other
  MaxEvents,  \* stream events one process writes
  Work,       \* ticks of productive time a turn has
  Credit,     \* ticks of human permission wait that are not charged
  StopTicks,  \* ticks a stopped process gets for the drain of its pipes
  LateJoin,   \* a monitor may outlive the join of its turn
  Stuck,      \* a killed leader may stay unreapable past the wait
  Forks,      \* the process may leave descendants in its group
  Kinds       \* the kinds of stream event the CLI writes

\* Harmless events, prompt suggestions, the two terminal events, and whatever is refused.
Events == {"text", "hint", "ok", "err", "bad"}

BoundsAssumption ==
  /\ MaxTurns \in Nat \ {0} /\ MaxEvents \in Nat
  /\ Work \in Nat \ {0} /\ Credit \in Nat /\ StopTicks \in Nat \ {0}
  /\ LateJoin \in BOOLEAN /\ Stuck \in BOOLEAN /\ Forks \in BOOLEAN
  /\ Kinds \subseteq Events

VARIABLES
  turn,      \* the turn in progress, or the last one
  fresh,     \* whether the turn's session is new (its identity unestablished)
  stopReq,   \* turns whose job the owner asked to stop
  mon,       \* each turn's monitor thread
  asked,     \* turns whose monitor noted the request it interrupted for
  flag,      \* _interrupt_requested
  lock,      \* holder of _process_lock across steps
  active,    \* turn whose process is _active_process, or 0
  stopProc,  \* turn whose process is _claude_stop_process, or 0
  p,         \* the turn's process
  r,         \* the turn's runner
  outcome,   \* the durable outcome of each turn's job
  hit        \* a signal reached a process group of a stranger

vars == <<turn, fresh, stopReq, mon, asked, flag, lock, active, stopProc, p, r, outcome, hit>>

Turns == 1..MaxTurns
NoStop == StopTicks + 1
Terminals == {"ok", "err"}

NoProcess == [leader |-> "none", code |-> "none", rest |-> "none", closed |-> FALSE,
              out |-> <<>>, tail |-> "none", wrote |-> 0, spoke |-> "no"]

IdleRunner == [pc |-> "idle", pend |-> "none", seen |-> "no", draining |-> FALSE,
               work |-> Work, credit |-> Credit, stop |-> NoStop, waiting |-> FALSE]

Init ==
  /\ turn = 0
  /\ fresh \in [Turns -> BOOLEAN]
  /\ stopReq = {} /\ asked = {}
  /\ mon = [t \in Turns |-> "off"]
  /\ flag = FALSE /\ lock = "none" /\ active = 0 /\ stopProc = 0
  /\ p = NoProcess /\ r = IdleRunner
  /\ outcome = [t \in Turns |-> "none"]
  /\ hit = FALSE

\* pending_emergency_stop_for_job: the request of a job that is settled is complete.
Pending(t) == t \in stopReq /\ outcome[t] = "none"

Go(pc) == r' = [r EXCEPT !.pc = pc]
Raise(e) == r' = [r EXCEPT !.pc = "finally", !.pend = e]

----------------------------------------------------------------------------
\* The process group.

Alive(q) == q.leader \in {"run", "dying"}
Waitable(q) == q.leader = "zombie"
Reaped(q) == q.leader \in {"reaped", "recycled"}

\* killpg(pid, SIGKILL): every member is doomed; the leader stays a zombie until reaped.
Killed(q) ==
  [q EXCEPT !.leader = IF @ = "run" THEN "dying" ELSE @,
            !.rest = IF @ \in {"holds", "quiet"} THEN "dying" ELSE @]

\* A signal to a number the kernel has given to someone else.
Signalled(q) == hit' = (hit \/ q.leader = "recycled")

\* The CLI writes its events byte by byte, forks, closes its output, exits or is killed.
WriteEvent ==
  /\ p.leader = "run" /\ ~p.closed
  /\ \/ p.tail = "none" /\ p.wrote < MaxEvents
        /\ p' = [p EXCEPT !.tail = "frag", !.wrote = @ + 1]
     \/ p.tail = "frag"
        /\ \E e \in Kinds :
             p' = [p EXCEPT !.tail = e,
                            !.spoke = IF @ = "no" /\ e \in Terminals THEN e ELSE @]
     \/ p.tail \in Events
        /\ p' = [p EXCEPT !.tail = "none", !.out = Append(@, p.tail)]
  /\ UNCHANGED <<turn, fresh, stopReq, mon, asked, flag, lock, active, stopProc, r, outcome, hit>>

Fork ==
  /\ Forks /\ p.leader = "run" /\ p.rest = "none"
  /\ \E k \in {"holds", "quiet"} : p' = [p EXCEPT !.rest = k]
  /\ UNCHANGED <<turn, fresh, stopReq, mon, asked, flag, lock, active, stopProc, r, outcome, hit>>

LeaderEnds ==
  /\ \/ /\ p.leader = "run"
        /\ \E c \in {"zero", "fail", "kill"} : p' = [p EXCEPT !.leader = "zombie", !.code = c]
     \/ /\ p.leader = "run" /\ ~p.closed
        /\ p' = [p EXCEPT !.closed = TRUE]
  /\ UNCHANGED <<turn, fresh, stopReq, mon, asked, flag, lock, active, stopProc, r, outcome, hit>>

\* A killed leader dies; killed descendants die.
Die ==
  /\ \/ p.leader = "dying" /\ p' = [p EXCEPT !.leader = "zombie", !.code = "kill"]
     \/ p.rest = "dying" /\ p' = [p EXCEPT !.rest = "gone"]
  /\ UNCHANGED <<turn, fresh, stopReq, mon, asked, flag, lock, active, stopProc, r, outcome, hit>>

\* The kernel may reuse the pid of a reaped leader once its group is empty.
Recycle ==
  /\ p.leader = "reaped" /\ p.rest \in {"none", "gone"}
  /\ p' = [p EXCEPT !.leader = "recycled"]
  /\ UNCHANGED <<turn, fresh, stopReq, mon, asked, flag, lock, active, stopProc, r, outcome, hit>>

----------------------------------------------------------------------------
\* The deadline: productive time, minus the human waits the host reports.

Remaining == r.work > 0 /\ r.stop > 0

Draining == r.pc \in {"loop", "read", "exitwait", "killwait", "exitkill", "judge"}

\* Mutant of Tick: the credit for human waits has no end.
Tick_unbounded ==
  /\ Draining /\ Remaining
  /\ r' = [r EXCEPT !.credit = IF r.waiting /\ @ > 0 THEN @ - 1 ELSE @,
                    !.work = IF r.waiting THEN @ ELSE @ - 1,
                    !.stop = IF @ = NoStop THEN @ ELSE @ - 1]
  /\ UNCHANGED <<turn, fresh, stopReq, mon, asked, flag, lock, active, stopProc, p, outcome, hit>>

Tick ==
  /\ Draining /\ Remaining
  /\ r' = [r EXCEPT !.credit = IF r.waiting /\ @ > 0 THEN @ - 1 ELSE @,
                    !.work = IF r.waiting /\ r.credit > 0 THEN @ ELSE @ - 1,
                    !.stop = IF @ = NoStop THEN @ ELSE @ - 1]
  /\ UNCHANGED <<turn, fresh, stopReq, mon, asked, flag, lock, active, stopProc, p, outcome, hit>>

\* PermissionWaitClock.waiting: the permission host enters and leaves a human wait.
HostWaits ==
  /\ Draining /\ Credit > 0
  /\ r' = [r EXCEPT !.waiting = ~@]
  /\ UNCHANGED <<turn, fresh, stopReq, mon, asked, flag, lock, active, stopProc, p, outcome, hit>>

\* ProductiveDeadline.stop_within
StopWithin(x) == [x EXCEPT !.stop = IF x.work < StopTicks THEN x.work ELSE StopTicks,
                           !.draining = TRUE]

----------------------------------------------------------------------------
\* The stop: the owner asks, the turn's monitor thread signals.

OwnerStops ==
  /\ turn > 0 /\ outcome[turn] = "none" /\ turn \notin stopReq
  /\ stopReq' = stopReq \cup {turn}
  /\ UNCHANGED <<turn, fresh, mon, asked, flag, lock, active, stopProc, p, r, outcome, hit>>

\* One turn of the monitor's loop: it reads the request once it is past its wait.
MonitorReads(t) ==
  /\ mon[t] = "watch"
  /\ Pending(t)
  /\ mon' = [mon EXCEPT ![t] = "found"]
  /\ UNCHANGED <<turn, fresh, stopReq, asked, flag, lock, active, stopProc, p, r, outcome, hit>>

\* interrupt(): the flag is set before the lock is taken.
InterruptFlags(t) ==
  /\ mon[t] = "found"
  /\ flag' = TRUE
  /\ mon' = [mon EXCEPT ![t] = "lock"]
  /\ UNCHANGED <<turn, fresh, stopReq, asked, lock, active, stopProc, p, r, outcome, hit>>

\* interrupt(): under the lock, only a process that is still running is signalled.
InterruptObserves(t) ==
  /\ mon[t] = "lock" /\ lock = "none"
  /\ IF active # 0 /\ Alive(p)
     THEN /\ lock' = "monitor"
          /\ mon' = [mon EXCEPT ![t] = "kill"]
     ELSE /\ mon' = [mon EXCEPT ![t] = "note"]
          /\ UNCHANGED lock
  /\ UNCHANGED <<turn, fresh, stopReq, asked, flag, active, stopProc, p, r, outcome, hit>>

InterruptKills(t) ==
  /\ mon[t] = "kill"
  /\ p' = Killed(p)
  /\ Signalled(p)
  /\ stopProc' = active
  /\ lock' = "none"
  /\ mon' = [mon EXCEPT ![t] = "note"]
  /\ UNCHANGED <<turn, fresh, stopReq, asked, flag, active, r, outcome>>

MonitorNotes(t) ==
  /\ mon[t] = "note"
  /\ asked' = asked \cup {t}
  /\ mon' = [mon EXCEPT ![t] = "off"]
  /\ UNCHANGED <<turn, fresh, stopReq, flag, lock, active, stopProc, p, r, outcome, hit>>

----------------------------------------------------------------------------
\* The turn: preparation, capability probe and start.

ClearInterrupt == flag' = FALSE /\ stopProc' = 0

\* prepare_interruptible_turn, then the monitor is started.
Prepare ==
  /\ r.pc = "idle" /\ turn < MaxTurns /\ lock = "none" /\ active = 0
  /\ turn' = turn + 1
  /\ ClearInterrupt
  /\ mon' = [mon EXCEPT ![turn + 1] = "watch"]
  /\ p' = NoProcess
  /\ r' = [IdleRunner EXCEPT !.pc = "verify"]
  /\ UNCHANGED <<fresh, stopReq, asked, lock, active, outcome, hit>>

\* The prompt, images and corrections of the turn are refused before anything is started.
RefuseInput ==
  /\ r.pc = "verify"
  /\ Raise("unavailable")
  /\ UNCHANGED <<turn, fresh, stopReq, mon, asked, flag, lock, active, stopProc, p, outcome, hit>>

\* _read_help: what the inspection of the executable's help comes to.  The flag ends it
\* early; a help process whose end is unconfirmed outweighs everything else.
HelpOutcomes == {"refused", "unclean"} \cup (IF flag THEN {} ELSE {"read"})

\* ClaudeCliCapabilities.require: a cached inspection, or a new one of an executable that
\* exists, stays unchanged and advertises the controls.
ProbeOutcomes ==
  (IF "read" \in HelpOutcomes THEN {"verified", "missing"} ELSE {}) \cup (HelpOutcomes \ {"read"})

\* _verified_claude_argv: an unconfirmed cleanup is never a stop.
Verify ==
  /\ r.pc = "verify"
  /\ \/ flag /\ Raise("interrupted")
     \/ "verified" \in ProbeOutcomes /\ Go("launch")
     \/ "missing" \in ProbeOutcomes /\ Raise("unavailable")
     \/ "refused" \in ProbeOutcomes
        /\ IF flag THEN Raise("interrupted") ELSE Raise("unavailable")
     \/ "unclean" \in ProbeOutcomes /\ Raise("error")
  /\ UNCHANGED <<turn, fresh, stopReq, mon, asked, flag, lock, active, stopProc, p, outcome, hit>>

\* _run_claude_process up to Popen.
Launch ==
  /\ r.pc = "launch"
  /\ \/ flag /\ Raise("interrupted") /\ UNCHANGED p
     \/ ~flag /\ Raise("unavailable") /\ UNCHANGED p
     \/ ~flag /\ Go("register") /\ p' = [p EXCEPT !.leader = "run"]
  /\ UNCHANGED <<turn, fresh, stopReq, mon, asked, flag, lock, active, stopProc, outcome, hit>>

\* The process becomes the adapter's active one only now.
Register ==
  /\ r.pc = "register" /\ lock = "none"
  /\ active' = turn
  /\ Go("loop")
  /\ UNCHANGED <<turn, fresh, stopReq, mon, asked, flag, lock, stopProc, p, outcome, hit>>

----------------------------------------------------------------------------
\* The drain of both pipes.

\* Mutants of Strike: the group is signalled after the reap; the lock is let go before it.
Strike_reaped(next, done) ==
  /\ lock = "none"
  /\ IF p.leader = "none"
     THEN Go(done) /\ UNCHANGED <<p, hit, stopProc, lock>>
     ELSE /\ p' = Killed(p)
          /\ Signalled(p)
          /\ stopProc' = IF Alive(p) /\ flag THEN turn ELSE stopProc
          /\ lock' = "runner"
          /\ Go(next)

Strike_unlocked(next, done) ==
  /\ lock = "none"
  /\ IF Reaped(p)
     THEN Go(done) /\ UNCHANGED <<p, hit, stopProc, lock>>
     ELSE /\ p' = Killed(p)
          /\ Signalled(p)
          /\ stopProc' = IF Alive(p) /\ flag THEN turn ELSE stopProc
          /\ lock' = "none"
          /\ Go(next)

\* _terminate_claude_process(graceful=False) up to its wait: nothing once reaped.
Strike(next, done) ==
  /\ lock = "none"
  /\ IF Reaped(p)
     THEN Go(done) /\ UNCHANGED <<p, hit, stopProc, lock>>
     ELSE /\ p' = Killed(p)
          /\ Signalled(p)
          /\ stopProc' = IF Alive(p) /\ flag THEN turn ELSE stopProc
          /\ lock' = "runner"
          /\ Go(next)

\* Mutant of LoopHead: the stop is left to the monitor's signal.
LoopHead_nostop ==
  /\ r.pc = "loop"
  /\ IF Remaining THEN Go("read") ELSE Go("timeout")
  /\ UNCHANGED <<p, hit, stopProc, lock>>
  /\ UNCHANGED <<turn, fresh, stopReq, mon, asked, flag, active, outcome>>

\* The loop's head: a stop ends the process once, then the deadline is looked at.
LoopHead ==
  /\ r.pc = "loop"
  /\ \/ /\ flag /\ ~r.draining
        /\ Strike("killwait", "loop")
     \/ /\ ~flag \/ r.draining
        /\ IF Remaining THEN Go("read") ELSE Go("timeout")
        /\ UNCHANGED <<p, hit, stopProc, lock>>
  /\ UNCHANGED <<turn, fresh, stopReq, mon, asked, flag, active, outcome>>

\* process.wait(timeout=5) under the lock: reaped, or not in time.
ReapedNow == [p EXCEPT !.leader = "reaped"]

KillWait ==
  /\ r.pc \in {"killwait", "exitkill"}
  /\ \/ /\ Waitable(p)
        /\ p' = ReapedNow
        /\ r' = IF r.pc = "killwait" THEN [StopWithin(r) EXCEPT !.pc = "loop"]
                ELSE [r EXCEPT !.pc = "judge"]
     \/ /\ Stuck /\ p.leader = "dying"
        /\ Go("timeout") /\ UNCHANGED p
  /\ lock' = "none"
  /\ UNCHANGED <<turn, fresh, stopReq, mon, asked, flag, active, stopProc, outcome, hit>>

\* ClaudeStreamReader._line: a refused event, or any event after the terminal one
\* but a prompt suggestion, ends the turn without an outcome.
Refuses(seen, e) == e = "bad" \/ (seen # "no" /\ e # "hint")
SeenAfter(seen, e) == IF e \in Terminals THEN e ELSE seen

EndOfStream ==
  /\ p.out = <<>>
  /\ p.closed \/ ~Alive(p)
  /\ p.rest \notin {"holds", "dying"}

Read ==
  /\ r.pc = "read"
  /\ \/ /\ p.out # <<>>
        /\ p' = [p EXCEPT !.out = SubSeq(@, 2, Len(@))]
        /\ IF Refuses(r.seen, p.out[1]) THEN Raise("error")
           ELSE r' = [r EXCEPT !.pc = "loop", !.seen = SeenAfter(@, p.out[1])]
     \/ /\ EndOfStream
        /\ Go("exitwait") /\ UNCHANGED p
     \/ /\ p.out = <<>> /\ ~EndOfStream
        /\ Go("loop") /\ UNCHANGED p
  /\ UNCHANGED <<turn, fresh, stopReq, mon, asked, flag, lock, active, stopProc, outcome, hit>>

\* After the end of both pipes: the exit is observed without reaping it.
ExitWait ==
  /\ r.pc = "exitwait"
  /\ \/ /\ ~Remaining /\ Go("timeout")
        /\ UNCHANGED <<p, hit, stopProc, lock>>
     \/ /\ Remaining /\ ~Alive(p) /\ Go("judge")
        /\ UNCHANGED <<p, hit, stopProc, lock>>
     \/ /\ Remaining /\ Alive(p) /\ flag
        /\ Strike("exitkill", "judge")
  /\ UNCHANGED <<turn, fresh, stopReq, mon, asked, flag, active, outcome>>

----------------------------------------------------------------------------
\* The verdict on an exited process.

\* The turn was ended by its own stop: only then may a cut last line be dropped.
StoppedByUs == flag /\ stopProc = turn /\ p.code = "kill"

\* validate_interrupted_tail: a complete last event counts even without its newline.
TailRefused == p.tail \in Events /\ Refuses(r.seen, p.tail)
\* Mutant of SeenWithTail: a last event without its newline is dropped.
SeenWithTail_cut == r.seen

SeenWithTail == IF p.tail \in Events THEN SeenAfter(r.seen, p.tail) ELSE r.seen
Unspoken == StoppedByUs /\ ~TailRefused /\ SeenWithTail = "no"

\* Mutant of Parsed: the exit code is not looked at.
Parsed_anycode(seen) ==
  CASE seen = "no" -> "error"
    [] seen = "err" -> "failed"
    [] OTHER -> "ok"

\* _parse_result of a complete stream.
Parsed(seen) ==
  CASE seen = "no" -> "error"
    [] seen = "err" -> "failed"
    [] seen = "ok" /\ p.code # "zero" -> "error"
    [] OTHER -> "ok"

Judge ==
  /\ r.pc = "judge"
  /\ CASE TailRefused -> Raise("error")
       [] Unspoken -> Raise("interrupted")
       [] ~TailRefused /\ ~Unspoken /\ p.tail = "frag" -> Raise("error")
       [] OTHER -> IF Remaining THEN Raise(Parsed(SeenWithTail)) ELSE Go("timeout")
  /\ UNCHANGED <<turn, fresh, stopReq, mon, asked, flag, lock, active, stopProc, p, outcome, hit>>

\* _terminate_claude_process(graceful=True): the lock is kept from the first signal to
\* the reap; the stop flag shortens the wait.
TimeoutTerm ==
  /\ r.pc = "timeout" /\ lock = "none"
  /\ IF Reaped(p) THEN Raise("error") /\ UNCHANGED lock
     ELSE lock' = "runner" /\ Go("grace")
  /\ UNCHANGED <<turn, fresh, stopReq, mon, asked, flag, active, stopProc, p, outcome, hit>>

GraceKill ==
  /\ r.pc = "grace"
  /\ p' = Killed(p)
  /\ Signalled(p)
  /\ Go("gracewait")
  /\ UNCHANGED <<turn, fresh, stopReq, mon, asked, flag, lock, active, stopProc, outcome>>

GraceWait ==
  /\ r.pc = "gracewait"
  /\ \/ Waitable(p) /\ p' = ReapedNow
     \/ Stuck /\ p.leader = "dying" /\ UNCHANGED p
  /\ lock' = "none"
  /\ Raise("error")
  /\ UNCHANGED <<turn, fresh, stopReq, mon, asked, flag, active, stopProc, outcome, hit>>

\* Mutant of CleanUp: a turn that has its terminal event leaves the group alone.
CleanUp_kept ==
  /\ r.pc = "finally"
  /\ IF p.leader = "none" \/ r.seen # "no"
     THEN Go("close") /\ UNCHANGED <<p, hit, stopProc, lock>>
     ELSE Strike("finalwait", "close")
  /\ UNCHANGED <<turn, fresh, stopReq, mon, asked, flag, active, outcome>>

\* The finally clause: the group is killed and its leader reaped on every way out.
CleanUp ==
  /\ r.pc = "finally"
  /\ IF p.leader = "none"
     THEN Go("close") /\ UNCHANGED <<p, hit, stopProc, lock>>
     ELSE Strike("finalwait", "close")
  /\ UNCHANGED <<turn, fresh, stopReq, mon, asked, flag, active, outcome>>

\* An error of the cleanup itself supersedes whatever the turn had established.
FinalWait ==
  /\ r.pc = "finalwait"
  /\ \/ /\ Waitable(p) /\ p' = ReapedNow /\ Go("close")
     \/ /\ Stuck /\ p.leader = "dying"
        /\ r' = [r EXCEPT !.pc = "close", !.pend = "error"] /\ UNCHANGED p
  /\ lock' = "none"
  /\ UNCHANGED <<turn, fresh, stopReq, mon, asked, flag, active, stopProc, outcome, hit>>

\* The process is no longer the adapter's; an interruption becomes ClaudeProcessStopped.
Verdict ==
  /\ r.pc = "close" /\ lock = "none"
  /\ active' = 0
  /\ r' = [r EXCEPT !.pc = "invoked",
                    !.pend = IF @ = "interrupted" THEN "stopped" ELSE @]
  /\ UNCHANGED <<turn, fresh, stopReq, mon, asked, flag, lock, stopProc, p, outcome, hit>>

----------------------------------------------------------------------------
\* The worker: what the verdict means for the job.

\* Mutant of Invoked: a stopped process is taken for the stop of this job.
Invoked_unasked ==
  /\ r.pc = "invoked"
  /\ \/ /\ r.pend = "ok" /\ Go("join")
     \/ /\ r.pend = "ok" /\ r' = [r EXCEPT !.pc = "join", !.pend = "error"]
     \/ /\ r.pend # "ok"
        /\ r' = [r EXCEPT !.pc = "join",
                          !.pend = IF @ = "stopped" /\ ~fresh[turn]
                                   THEN "turn_stopped" ELSE @]
  /\ UNCHANGED <<turn, fresh, stopReq, mon, asked, flag, lock, active, stopProc, p, outcome, hit>>

\* invoke_external_provider_turn and record_claude_completion
Invoked ==
  /\ r.pc = "invoked"
  /\ \/ /\ r.pend = "ok" /\ Go("join")
     \/ /\ r.pend = "ok" /\ r' = [r EXCEPT !.pc = "join", !.pend = "error"]
     \/ /\ r.pend # "ok"
        /\ r' = [r EXCEPT !.pc = "join",
                          !.pend = IF @ = "stopped" /\ ~fresh[turn] /\ Pending(turn)
                                   THEN "turn_stopped" ELSE @]
  /\ UNCHANGED <<turn, fresh, stopReq, mon, asked, flag, lock, active, stopProc, p, outcome, hit>>

\* The monitor is told to stop and joined for two seconds.
Join ==
  /\ r.pc = "join"
  /\ mon[turn] \in {"off", "watch"} \/ LateJoin
  /\ mon' = [mon EXCEPT ![turn] = IF @ = "watch" THEN "off" ELSE @]
  /\ Go("settle")
  /\ UNCHANGED <<turn, fresh, stopReq, asked, flag, lock, active, stopProc, p, outcome, hit>>

\* A stop noted by the monitor, or pending by now, wins over a completed turn.
Stopped == turn \in asked \/ Pending(turn)

\* _record_failure and the publication, each one transaction that honours a covering stop
\* where the turn is proven over.
SettledAs ==
  CASE r.pend = "ok" -> IF Stopped THEN "cancelled" ELSE "result"
    [] r.pend = "turn_stopped" -> "cancelled"
    [] r.pend \in {"failed", "unavailable"} -> IF Pending(turn) THEN "cancelled" ELSE "failed"
    [] OTHER -> "indeterminate"

Settle ==
  /\ r.pc = "settle"
  /\ outcome' = [outcome EXCEPT ![turn] = SettledAs]
  /\ Go("idle")
  /\ UNCHANGED <<turn, fresh, stopReq, mon, asked, flag, lock, active, stopProc, p, hit>>

----------------------------------------------------------------------------

Runner ==
  \/ Prepare \/ RefuseInput \/ Verify \/ Launch \/ Register \/ LoopHead \/ KillWait
  \/ Read \/ ExitWait \/ Judge \/ TimeoutTerm \/ GraceKill \/ GraceWait
  \/ CleanUp \/ FinalWait \/ Verdict \/ Invoked \/ Join \/ Settle

Monitor(t) ==
  \/ MonitorReads(t) \/ InterruptFlags(t) \/ InterruptObserves(t)
  \/ InterruptKills(t) \/ MonitorNotes(t)

Next ==
  \/ Runner
  \/ \E t \in Turns : Monitor(t)
  \/ OwnerStops \/ WriteEvent \/ Fork \/ LeaderEnds \/ Die \/ Recycle \/ Tick \/ HostWaits

Spec == Init /\ [][Next]_vars

----------------------------------------------------------------------------
\* Properties.

RunnerPcs == {"idle", "verify", "launch", "register", "loop", "read", "killwait", "exitwait",
              "exitkill", "judge", "timeout", "grace", "gracewait", "finally", "finalwait",
              "close", "invoked", "join", "settle"}

\* Every variable stays in its range; the lock is held across steps only by a runner that
\* waits for its process and by a monitor that is about to signal it.
TypeOK ==
  /\ turn \in 0..MaxTurns /\ stopReq \subseteq Turns /\ asked \subseteq Turns
  /\ fresh \in [Turns -> BOOLEAN]
  /\ mon \in [Turns -> {"off", "watch", "found", "lock", "kill", "note"}]
  /\ flag \in BOOLEAN /\ hit \in BOOLEAN
  /\ active \in {0, turn} /\ stopProc \in {0, turn}
  /\ p.leader \in {"none", "run", "dying", "zombie", "reaped", "recycled"}
  /\ p.code \in {"none", "zero", "fail", "kill"}
  /\ p.rest \in {"none", "holds", "quiet", "dying", "gone"}
  /\ r.pc \in RunnerPcs
  /\ r.work \in 0..Work /\ r.credit \in 0..Credit /\ r.stop \in 0..NoStop
  /\ (lock = "runner") <=> (r.pc \in {"killwait", "exitkill", "grace", "gracewait", "finalwait"})
  /\ (lock = "monitor") <=> (\E t \in Turns : mon[t] = "kill")

\* No signal ever reaches a process group whose number the kernel has given to someone
\* else: the leader stays unreaped until the last signal, and observation and signal of the
\* emergency stop are under the lock that also covers the reap.
NoStrangerIsSignalled == ~hit

\* ClaudeProcessStopped is a proof: the process was never started, or its group was killed
\* and its leader reaped, and no complete terminal event it wrote was thrown away, not even
\* one whose newline was cut off by the kill.
StopIsProven ==
  (r.pc \in {"invoked", "join", "settle"} /\ r.pend \in {"stopped", "turn_stopped"}) =>
    \/ p.leader = "none"
    \/ /\ Reaped(p) /\ p.code = "kill"
       /\ p.rest \notin {"holds", "quiet"}
       /\ p.spoke = "no"

\* A job is cancelled only for a stop its owner asked of that very job, whatever monitors of
\* earlier turns still do, and only once nothing of its process is left running.
CancelledIsSafe ==
  (turn > 0 /\ outcome[turn] = "cancelled") =>
    /\ turn \in stopReq
    /\ ~Alive(p) /\ p.rest \notin {"holds", "quiet"}

\* A published result is the successful terminal event of a process that exited cleanly and
\* whose whole stream was read, even when a stop raced its last event.
ResultIsWhole ==
  (turn > 0 /\ outcome[turn] = "result") =>
    p.spoke = "ok" /\ p.code = "zero" /\ p.out = <<>> /\ p.tail # "frag"

\* A turn that has returned leaves no member of its process group unsignalled, on every way
\* out: success, refusal of an event, timeout, stop.
NothingIsLeft ==
  r.pc \in {"invoked", "join", "settle", "idle"} =>
    p.leader # "run" /\ p.rest \notin {"holds", "quiet"} /\ active = 0

=============================================================================
