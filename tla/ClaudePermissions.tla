-------------------------- MODULE ClaudePermissions --------------------------
(***************************************************************************)
(* Permissions of a hosted Claude turn.  The native CLI runs a hook for an *)
(* operation it may not do by itself; the hook asks a server the worker    *)
(* opened for this turn, the server writes the request to the journal,     *)
(* asks the owner through the tlive daemon, and commits the decision       *)
(* before the hook hears of it.  A consent to all Bash commands lives in   *)
(* the worker's memory only.                                               *)
(*                                                                         *)
(* claude_permission_host.py, claude_permissions_journal.py,               *)
(* claude_permission_hook.py, claude_bash_grants.py, tlive_permissions.py, *)
(* and the session identity of execution_journal.py.  One worker runs the  *)
(* turns of one topic one after another.                                   *)
(***************************************************************************)
EXTENDS Naturals, FiniteSets

CONSTANTS
    Jobs,        \* 1..n, in the order they are run
    Gen,         \* [Jobs -> session generation]
    Hooks,       \* native requests, each with a nonce of its own
    Of,          \* [Hooks -> Jobs]
    Tool,        \* [Hooks -> {"Bash", "File"}]
    Profile,     \* "editor", "developer" or "workstation"
    Modes,       \* configurations a worker may start with: "files", "text"
    MaxRequests, \* requests of a launch (128)
    MaxFaults    \* bound: crashes, restarts, failed calls, changed bindings

Gens == {Gen[j] : j \in Jobs}

PermissionsAssumption ==
    /\ Profile \in {"editor", "developer", "workstation"}
    /\ Modes \subseteq {"files", "text"} /\ Modes # {}
    /\ \A h \in Hooks : Of[h] \in Jobs /\ Tool[h] \in {"Bash", "File"}

VARIABLES
    job,     \* [Jobs -> status, a stop since its start, binding as it was]
    session, \* [Gens -> native identity and pinned mode]
    launch,  \* [Jobs -> row of claude_permission_launches]
    req,     \* [Hooks -> row of claude_permission_requests]
    old,     \* requests past their expiry
    hook,    \* [Hooks -> the hook and its connection]
    thr,     \* [Hooks -> the server's thread of the connection]
    wrk,     \* the worker: its step, job, new session or not
    srv,     \* the turn's server: open, stopped, tlive epoch at the launch
    cfg,     \* the configured mode of the running process
    grants,  \* BASH_GRANTS: [Gens -> tlive epoch, 0 none]
    tlive,   \* epoch of the daemon
    card,    \* [Hooks -> the owner's card]
    moved,   \* the registry's root is not the launch's any more
    inc,     \* incarnation of the worker process
    said,    \* history: [Hooks -> the owner's decision]
    gave,    \* history: consents to all Bash: <<generation, inc, epoch>>
    late,    \* history: the turn had lost its authority when the answer came
    begun,   \* history: [Gens -> the CLI was started for the identity]
    ran,     \* history: [Gens -> modes its turns ran in]
    faults

db     == <<job, session, launch, req, old>>
native == <<hook, begun, ran>>
host   == <<thr, wrk, srv, cfg, grants, inc>>
owner  == <<tlive, card, said, gave>>
vars   == <<db, native, host, owner, moved, late, faults>>

NoThread == [step |-> "none", ans |-> "none", epoch |-> 0, granted |-> FALSE]
NoServer == [open |-> FALSE, stop |-> FALSE, epoch |-> 0]
Idle     == [step |-> "idle", job |-> 0, new |-> FALSE]

Connected == {"backlog", "held", "served"}

TypeOK ==
    /\ job \in [Jobs -> [status : {"queued", "executing", "refused", "ended", "lost"},
                         stop : BOOLEAN, bound : BOOLEAN]]
    /\ session \in [Gens -> [native : BOOLEAN, pin : Modes \cup {"none"}]]
    /\ launch \in [Jobs -> {"none", "active", "closed"}]
    /\ req \in [Hooks -> {"none", "pending", "allow", "deny", "revoked"}]
    /\ old \subseteq Hooks
    /\ hook \in [Hooks -> Connected \cup {"idle", "allow", "deny", "gone"}]
    /\ thr \in [Hooks -> [step : {"none", "read", "check", "prepare", "ask", "wait",
                                  "recheck", "consume", "remember", "revoke", "reply"},
                          ans : {"none", "allow", "deny", "always"},
                          epoch : 0..(MaxFaults + 1), granted : BOOLEAN]]
    /\ wrk.step \in {"idle", "bind", "open", "turn", "close", "join", "journal",
                     "publish"}
    /\ srv.open => wrk.step \in {"turn", "close", "join", "journal"}
    /\ cfg \in Modes
    /\ grants \in [Gens -> 0..(MaxFaults + 1)]
    /\ tlive \in 1..(MaxFaults + 1)
    /\ faults \in 0..MaxFaults

Init ==
    /\ job = [j \in Jobs |-> [status |-> "queued", stop |-> FALSE, bound |-> TRUE]]
    /\ session = [g \in Gens |-> [native |-> FALSE, pin |-> "none"]]
    /\ launch = [j \in Jobs |-> "none"]
    /\ req = [h \in Hooks |-> "none"] /\ old = {}
    /\ hook = [h \in Hooks |-> "idle"]
    /\ thr = [h \in Hooks |-> NoThread]
    /\ wrk = Idle /\ srv = NoServer /\ cfg \in Modes
    /\ grants = [g \in Gens |-> 0]
    /\ tlive = 1 /\ card = [h \in Hooks |-> "none"]
    /\ moved = FALSE /\ inc = 1
    /\ said = [h \in Hooks |-> "none"] /\ gave = {} /\ late = {}
    /\ begun = [g \in Gens |-> FALSE] /\ ran = [g \in Gens |-> {}]
    /\ faults = 0

Fault == faults < MaxFaults /\ faults' = faults + 1

\* ClaudePermissionJournal._binding: lease, session, writer and root as they were,
\* and no stop since the start.
Bound(j) == job[j].status = "executing" /\ job[j].bound /\ ~job[j].stop

----------------------------------------------------------------------------
\* The launch

Ended(j, status) ==
    /\ job' = [job EXCEPT ![j].status = IF @ = "executing" THEN status ELSE @]
    /\ wrk' = Idle

IsNew_allocated(g) == \A j \in Jobs : Gen[j] = g => job[j].status # "ended"

\* prepare_claude_session: an identity is new while every earlier job that had
\* it is known to have ended before the CLI was started.
IsNew(g) ==
    \/ ~session[g].native
    \/ \A j \in Jobs : Gen[j] = g => job[j].status \in {"queued", "refused"}

StartJob(j) ==
    LET g == Gen[j] IN
    /\ wrk.step = "idle"
    /\ job[j].status = "queued"
    /\ \A k \in Jobs : k < j => job[k].status \notin {"queued", "executing"}
    /\ job' = [job EXCEPT ![j].status = "executing"]
    /\ wrk' = [step |-> "bind", job |-> j, new |-> IsNew(g)]
    /\ session' = [session EXCEPT ![g].native = TRUE]
    /\ UNCHANGED <<launch, req, old, native, thr, srv, cfg, grants, inc, owner,
                   moved, late, faults>>

ModeFits_any(g, new) == TRUE

\* bind_session_mode: an identity keeps its first mode; an old one without a
\* pin can only stay without tools.
ModeFits(g, new) == IF session[g].pin = "none" THEN new \/ cfg = "text"
                                               ELSE session[g].pin = cfg

BindMode ==
    LET j == wrk.job
        g == Gen[j] IN
    /\ wrk.step = "bind"
    /\ IF Bound(j) /\ ModeFits(g, wrk.new)
       THEN /\ session' = [session EXCEPT ![g].pin = IF @ = "none" THEN cfg ELSE @]
            /\ wrk' = [wrk EXCEPT !.step = IF cfg = "files" THEN "open" ELSE "turn"]
            /\ begun' = [begun EXCEPT ![g] = cfg = "text" \/ @]
            /\ ran' = [ran EXCEPT ![g] = IF cfg = "text" THEN @ \cup {cfg} ELSE @]
            /\ UNCHANGED job
       ELSE Ended(j, "refused") /\ UNCHANGED <<session, begun, ran>>
    /\ UNCHANGED <<launch, req, old, hook, thr, srv, cfg, grants, inc, owner,
                   moved, late, faults>>

\* hosted_claude_launch: hello, open_launch, the server, and the CLI.
OpenLaunch ==
    LET j == wrk.job
        g == Gen[j] IN
    /\ wrk.step = "open"
    /\ IF Bound(j) /\ launch[j] = "none"
       THEN /\ launch' = [launch EXCEPT ![j] = "active"]
            /\ srv' = [open |-> TRUE, stop |-> FALSE, epoch |-> tlive]
            /\ wrk' = [wrk EXCEPT !.step = "turn"]
            /\ begun' = [begun EXCEPT ![g] = TRUE]
            /\ ran' = [ran EXCEPT ![g] = @ \cup {cfg}]
            /\ UNCHANGED job
       ELSE Ended(j, "refused") /\ UNCHANGED <<launch, srv, begun, ran>>
    /\ UNCHANGED <<session, req, old, hook, thr, cfg, grants, inc, owner, moved,
                   late, faults>>

\* An unreachable daemon or an unverified sandbox: nothing was started.
LaunchFails ==
    /\ wrk.step = "open"
    /\ Fault
    /\ \E opened \in BOOLEAN :
         launch' = IF opened /\ launch[wrk.job] = "none" /\ Bound(wrk.job)
                   THEN [launch EXCEPT ![wrk.job] = "closed"] ELSE launch
    /\ Ended(wrk.job, "refused")
    /\ UNCHANGED <<session, req, old, native, thr, srv, cfg, grants, inc, owner,
                   moved, late>>

\* The CLI ends or is killed; its hooks may notice later.
TurnEnds ==
    /\ wrk.step = "turn"
    /\ wrk' = [wrk EXCEPT !.step = IF srv.open THEN "close" ELSE "publish"]
    /\ UNCHANGED <<db, native, thr, srv, cfg, grants, inc, owner, moved, late, faults>>

\* PermissionServer.close: the listener is closed, with the hooks it has not
\* accepted.
CloseServer ==
    /\ wrk.step = "close"
    /\ srv' = [srv EXCEPT !.stop = TRUE]
    /\ hook' = [h \in Hooks |-> IF hook[h] = "backlog" THEN "deny" ELSE hook[h]]
    /\ wrk' = [wrk EXCEPT !.step = "join"]
    /\ UNCHANGED <<db, begun, ran, thr, cfg, grants, inc, owner, moved, late, faults>>

Inflight == \E h \in Hooks : Of[h] = wrk.job /\ thr[h].step # "none"

\* The server of h's turn was told to stop; a thread may outlive it.
Stopped(h) == ~srv.open \/ srv.stop \/ wrk.job # Of[h]

\* The joins; a thread that does not end in time leaves the cleanup unconfirmed.
JoinServer ==
    /\ wrk.step = "join"
    /\ \/ /\ ~Inflight
          /\ \A h \in Hooks : hook[h] # "held"
          /\ UNCHANGED faults
       \/ Inflight /\ Fault
    /\ wrk' = [wrk EXCEPT !.step = "journal"]
    /\ UNCHANGED <<db, native, thr, srv, cfg, grants, inc, owner, moved, late>>

CloseLaunch_open ==
    /\ wrk.step = "journal"
    /\ launch' = [launch EXCEPT ![wrk.job] = "closed"]
    /\ wrk' = [wrk EXCEPT !.step = "publish"]
    /\ UNCHANGED <<job, session, req, old, native, thr, srv, cfg, grants, inc, owner,
                   moved, late, faults>>

\* close_launch
CloseLaunch ==
    LET j == wrk.job IN
    /\ wrk.step = "journal"
    /\ launch' = [launch EXCEPT ![j] = "closed"]
    /\ req' = [h \in Hooks |-> IF Of[h] = j /\ req[h] = "pending"
                               THEN "revoked" ELSE req[h]]
    /\ srv' = [srv EXCEPT !.open = FALSE]
    /\ wrk' = [wrk EXCEPT !.step = "publish"]
    /\ UNCHANGED <<job, session, old, native, thr, cfg, grants, inc, owner, moved,
                   late, faults>>

\* The result or the failure of the turn is committed.
Publish ==
    /\ wrk.step = "publish"
    /\ Ended(wrk.job, "ended")
    /\ UNCHANGED <<session, launch, req, old, native, thr, srv, cfg, grants, inc,
                   owner, moved, late, faults>>

----------------------------------------------------------------------------
\* The hook and the server's threads

AskHost(h) ==
    /\ hook[h] = "idle"
    /\ wrk.step = "turn" /\ wrk.job = Of[h] /\ srv.open
    /\ hook' = [hook EXCEPT ![h] = "backlog"]
    /\ UNCHANGED <<db, begun, ran, host, owner, moved, late, faults>>

\* The hook's own deadline, or the CLI gives the operation up.
HookLeaves(h) ==
    /\ hook[h] \in Connected
    /\ hook' = [hook EXCEPT ![h] = "gone"]
    /\ UNCHANGED <<db, begun, ran, host, owner, moved, late, faults>>

Served(h) ==
    /\ hook' = [hook EXCEPT ![h] = "served"]
    /\ thr' = [thr EXCEPT ![h] = [NoThread EXCEPT !.step = "read"]]

Busy_never == FALSE

Busy == Inflight

\* _serve: one request at a time; the others are refused, or, with the
\* workstation profile, wait with the listener.
Accept(h) ==
    /\ ~Stopped(h)
    /\ hook[h] = "backlog"
    /\ \A k \in Hooks : hook[k] # "held"
    /\ IF ~Busy THEN Served(h)
       ELSE /\ hook' = [hook EXCEPT ![h] = IF Profile = "workstation"
                                           THEN "held" ELSE "deny"]
            /\ UNCHANGED thr
    /\ UNCHANGED <<db, begun, ran, wrk, srv, cfg, grants, inc, owner, moved, late,
                   faults>>

AcceptHeld(h) ==
    /\ hook[h] = "held"
    /\ \/ ~Stopped(h) /\ ~Inflight /\ Served(h)
       \/ Stopped(h) /\ hook' = [hook EXCEPT ![h] = "deny"] /\ UNCHANGED thr
    /\ UNCHANGED <<db, begun, ran, wrk, srv, cfg, grants, inc, owner, moved, late,
                   faults>>

\* _HookWait.is_set
Cancelled(h) == Stopped(h) \/ hook[h] # "served"

Goes(h, step) == thr' = [thr EXCEPT ![h].step = step]
Fails(h) == thr' = [thr EXCEPT ![h].step = "revoke", ![h].ans = "deny"]

Read(h) ==
    /\ thr[h].step = "read"
    /\ Goes(h, "check")
    /\ UNCHANGED <<db, native, wrk, srv, cfg, grants, inc, owner, moved, late, faults>>

\* The database cannot be opened or the request is not valid.
ReadFails(h) ==
    /\ thr[h].step = "read"
    /\ Fault
    /\ thr' = [thr EXCEPT ![h] = NoThread]
    /\ hook' = [hook EXCEPT ![h] = IF @ = "served" THEN "deny" ELSE @]
    /\ UNCHANGED <<db, begun, ran, wrk, srv, cfg, grants, inc, owner, moved, late>>

Allows_any(g, epoch) == grants[g] # 0

\* BashGrantCache.allows
Allows(g, epoch) == grants[g] = epoch

\* _decision up to the journal: the connection, the root, a fresh hello for a
\* cached consent.
Check(h) ==
    LET g == Gen[Of[h]]
        cached == Profile = "developer" /\ Tool[h] = "Bash"
        granted == Tool[h] = "Bash" /\ (Profile = "workstation"
                                        \/ (cached /\ Allows(g, tlive))) IN
    /\ thr[h].step = "check"
    /\ IF Cancelled(h) \/ moved
       THEN Fails(h) /\ UNCHANGED grants
       ELSE /\ thr' = [thr EXCEPT ![h] =
                 [step |-> "prepare", ans |-> IF granted THEN "allow" ELSE "none",
                  epoch |-> IF cached THEN tlive ELSE srv.epoch,
                  granted |-> granted]]
            /\ grants' = IF cached /\ grants[g] # tlive
                         THEN [grants EXCEPT ![g] = 0] ELSE grants
    /\ UNCHANGED <<db, native, wrk, srv, cfg, inc, owner, moved, late, faults>>

Current_open(h) == Bound(Of[h])

\* _current
Current(h) == Bound(Of[h]) /\ launch[Of[h]] = "active"

\* ClaudePermissionJournal.prepare
Prepare(h) ==
    /\ thr[h].step = "prepare"
    /\ IF /\ Current(h)
          /\ req[h] = "none"
          /\ Cardinality({k \in Hooks : Of[k] = Of[h] /\ req[k] # "none"}) < MaxRequests
       THEN /\ req' = [req EXCEPT ![h] = "pending"]
            /\ Goes(h, IF thr[h].granted THEN "recheck" ELSE "ask")
       ELSE Fails(h) /\ UNCHANGED req
    /\ UNCHANGED <<job, session, launch, old, native, wrk, srv, cfg, grants, inc,
                   owner, moved, late, faults>>

\* ProtectedTliveClient.request: the daemon takes only requests of its epoch.
AskOwner(h) ==
    /\ thr[h].step = "ask"
    /\ IF Cancelled(h) \/ h \in old \/ thr[h].epoch # tlive
       THEN Fails(h) /\ UNCHANGED card
       ELSE Goes(h, "wait") /\ card' = [card EXCEPT ![h] = "shown"]
    /\ UNCHANGED <<db, native, wrk, srv, cfg, grants, inc, tlive, said, gave, moved,
                   late, faults>>

\* The answer comes, authenticated for this payload and epoch.
Answered(h) ==
    /\ thr[h].step = "wait"
    /\ card[h] \in {"allow", "deny", "always"}
    /\ thr' = [thr EXCEPT ![h].step = "recheck", ![h].ans = card[h]]
    /\ late' = IF Bound(Of[h]) /\ ~moved THEN late ELSE late \cup {h}
    /\ UNCHANGED <<db, native, wrk, srv, cfg, grants, inc, owner, moved, faults>>

WaitFails_asked(h) ==
    /\ thr[h].step = "wait"
    /\ Cancelled(h) \/ card[h] = "lost"
    /\ Fails(h)
    /\ UNCHANGED <<db, native, wrk, srv, cfg, grants, inc, owner, moved, late, faults>>

\* The wait ends without one.
WaitFails(h) ==
    /\ thr[h].step = "wait"
    /\ Cancelled(h) \/ h \in old \/ card[h] = "lost"
    /\ Fails(h)
    /\ UNCHANGED <<db, native, wrk, srv, cfg, grants, inc, owner, moved, late, faults>>

Recheck_never(h) == Goes(h, "consume")

Recheck(h) == IF Cancelled(h) \/ moved THEN Fails(h) ELSE Goes(h, "consume")

RecheckRoot(h) ==
    /\ thr[h].step = "recheck"
    /\ Recheck(h)
    /\ UNCHANGED <<db, native, wrk, srv, cfg, grants, inc, owner, moved, late, faults>>

\* ClaudePermissionJournal.consume, before the hook hears of it.
Consume(h) ==
    /\ thr[h].step = "consume"
    /\ IF Current(h) /\ req[h] = "pending" /\ h \notin old
       THEN /\ req' = [req EXCEPT ![h] = IF thr[h].ans = "deny" THEN "deny" ELSE "allow"]
            /\ Goes(h, IF thr[h].ans = "always" THEN "remember" ELSE "reply")
       ELSE Fails(h) /\ UNCHANGED req
    /\ UNCHANGED <<job, session, launch, old, native, wrk, srv, cfg, grants, inc,
                   owner, moved, late, faults>>

\* BashGrantCache.remember, only for a turn that still waits.
Remember(h) ==
    /\ thr[h].step = "remember"
    /\ IF Cancelled(h) \/ Profile # "developer"
       THEN Fails(h) /\ UNCHANGED grants
       ELSE Goes(h, "reply") /\ grants' = [grants EXCEPT ![Gen[Of[h]]] = thr[h].epoch]
    /\ UNCHANGED <<db, native, wrk, srv, cfg, inc, owner, moved, late, faults>>

\* revoke_request; the refusal holds also when it cannot be written.
Revoke(h) ==
    /\ thr[h].step = "revoke"
    /\ Goes(h, "reply")
    /\ \/ /\ req' = [req EXCEPT ![h] = IF @ = "pending" THEN "revoked" ELSE @]
          /\ UNCHANGED faults
       \/ Fault /\ UNCHANGED req
    /\ UNCHANGED <<job, session, launch, old, native, wrk, srv, cfg, grants, inc,
                   owner, moved, late>>

\* The reply, and what the hook tells the CLI.
Reply(h) ==
    /\ thr[h].step = "reply"
    /\ hook' = [hook EXCEPT ![h] = IF @ # "served" THEN @
                                   ELSE IF thr[h].ans = "deny" THEN "deny" ELSE "allow"]
    /\ thr' = [thr EXCEPT ![h] = NoThread]
    /\ UNCHANGED <<db, begun, ran, wrk, srv, cfg, grants, inc, owner, moved, late,
                   faults>>

----------------------------------------------------------------------------
\* The owner, the daemon and the rest of the program

Decide(h, d) ==
    /\ card[h] = "shown"
    /\ d = "always" => Tool[h] = "Bash"
    /\ card' = [card EXCEPT ![h] = d]
    /\ said' = [said EXCEPT ![h] = d]
    /\ gave' = IF d = "always" THEN gave \cup {<<Gen[Of[h]], inc, tlive>>} ELSE gave
    /\ UNCHANGED <<db, native, host, tlive, moved, late, faults>>

TliveRestarts ==
    /\ Fault
    /\ tlive' = tlive + 1
    /\ card' = [h \in Hooks |-> IF card[h] = "none" THEN "none" ELSE "lost"]
    /\ UNCHANGED <<db, native, host, said, gave, moved, late>>

Expire(h) ==
    /\ req[h] = "pending" /\ h \notin old
    /\ old' = old \cup {h}
    /\ UNCHANGED <<job, session, launch, req, native, host, owner, moved, late, faults>>

OwnerStops(j) ==
    /\ job[j].status = "executing" /\ ~job[j].stop
    /\ job' = [job EXCEPT ![j].stop = TRUE]
    /\ UNCHANGED <<session, launch, req, old, native, host, owner, moved, late, faults>>

\* The lease is lost, or the session gets another writer.
BindingChanges(j) ==
    /\ job[j].status = "executing" /\ job[j].bound
    /\ Fault
    /\ job' = [job EXCEPT ![j].bound = FALSE]
    /\ UNCHANGED <<session, launch, req, old, native, host, owner, moved, late>>

RootMoves ==
    /\ ~moved
    /\ Fault
    /\ moved' = TRUE
    /\ UNCHANGED <<db, native, host, owner, late>>

\* The worker dies; a later recovery takes the job's lease.
WorkerDies(mode) ==
    /\ Fault
    /\ wrk' = Idle /\ srv' = NoServer
    /\ thr' = [h \in Hooks |-> NoThread]
    /\ hook' = [h \in Hooks |-> IF hook[h] \in Connected THEN "deny" ELSE hook[h]]
    /\ grants' = [g \in Gens |-> 0]
    /\ inc' = inc + 1
    /\ cfg' = mode
    /\ job' = [j \in Jobs |-> IF job[j].status = "executing"
                              THEN [job[j] EXCEPT !.status = "lost", !.bound = FALSE]
                              ELSE job[j]]
    /\ UNCHANGED <<session, launch, req, old, begun, ran, owner, moved, late>>

----------------------------------------------------------------------------
Host(h) == \/ Accept(h) \/ AcceptHeld(h) \/ Read(h) \/ Check(h) \/ Prepare(h)
           \/ AskOwner(h) \/ Answered(h) \/ WaitFails(h) \/ RecheckRoot(h)
           \/ Consume(h) \/ Remember(h) \/ Revoke(h) \/ Reply(h)

Next ==
    \/ \E j \in Jobs : StartJob(j) \/ OwnerStops(j) \/ BindingChanges(j)
    \/ BindMode \/ OpenLaunch \/ LaunchFails
    \/ TurnEnds \/ CloseServer \/ JoinServer \/ CloseLaunch \/ Publish
    \/ \E h \in Hooks : \/ AskHost(h) \/ HookLeaves(h) \/ ReadFails(h) \/ Host(h)
                        \/ Expire(h)
                        \/ \E d \in {"allow", "deny", "always"} : Decide(h, d)
    \/ TliveRestarts \/ RootMoves
    \/ \E mode \in Modes : WorkerDies(mode)

Spec == Init /\ [][Next]_vars

----------------------------------------------------------------------------
\* Properties

\* An operation the CLI may do was allowed by the owner: for this request, or,
\* for a command, by a consent given to this worker process in this session and
\* this run of the daemon, or by the workstation profile.
AllowedByOwner ==
    \A h \in Hooks : hook'[h] = "allow" /\ hook[h] # "allow" =>
       /\ req[h] = "allow"
       /\ \/ said[h] \in {"allow", "always"}
          \/ /\ Tool[h] = "Bash"
             /\ \/ Profile = "workstation"
                \/ <<Gen[Of[h]], inc, thr[h].epoch>> \in gave

\* An answer that comes after a stop, a lost lease or a moved root allows nothing.
LateAnswerIsRefused == \A h \in late : req[h] # "allow" /\ hook[h] # "allow"

\* A closed launch is final: none of its requests waits, and none is allowed
\* later, also when the server's thread outlives its join.
ClosedIsFinal ==
    \A h \in Hooks : launch[Of[h]] = "closed" =>
       req'[h] # "pending" /\ (req'[h] = "allow" => req[h] = "allow")

\* The owner has one card of a turn at a time.
OneCard == Cardinality({h \in Hooks : thr[h].step = "wait"}) <= 1

\* All turns of a native session run with the same tools.
SessionKeepsMode == \A g \in Gens : Cardinality(ran[g]) <= 1

\* An identity the CLI was once started with is never started as a new one.
StartedOnce ==
    \A g \in Gens : begun[g] /\ wrk.step = "bind" /\ Gen[wrk.job] = g /\ wrk.new
       => wrk'.step \notin {"open", "turn"}

==============================================================================
