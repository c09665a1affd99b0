---------------------------- MODULE WorkerDrain -----------------------------
(***************************************************************************)
(* Draining and stopping one worker process: the admission barrier         *)
(* (worker_activity_barrier.py), the threads of ExternalQueueWorker, the   *)
(* tracked socket threads of the Codex supervisor, the private control     *)
(* endpoint (worker_control_socket.py) and the local requesters who are    *)
(* told that the worker is drained.  Processes crash and are replaced,     *)
(* replies are lost, thread joins and client closes time out.              *)
(*                                                                         *)
(* The main thread runs cycles, the control and connect threads loop, a    *)
(* heartbeat thread is a child of one cycle.  A requester's binding (pid,  *)
(* start ticks, boot id, nonce, release) is the number of the incarnation. *)
(***************************************************************************)
EXTENDS Integers, FiniteSets

CONSTANTS Requesters,
          MaxInc,      \* bound: processes started
          MaxCycles,   \* bound: operations of all threads in one process
          MaxFaults    \* bound: crashes, lost replies, close errors, fallbacks

DrainBounds ==
    /\ MaxInc \in Nat \ {0} /\ {MaxCycles, MaxFaults} \subseteq Nat
    /\ "none" \notin Requesters

Loops == {"control", "connect"}
Threads == Loops \cup {"main", "heartbeat"}
Clients == Loops \cup {"main"}

VARIABLES
    inc,        \* number of the process
    pc,         \* of every thread
    active,     \* WorkerActivityBarrier._active
    tracked,    \* WorkerActivityBarrier._threads
    draining,   \* WorkerActivityBarrier._draining
    stop,       \* ExternalQueueWorker._stop
    sock,       \* socket transport thread of every client: none, live, closing
    retired,    \* the supervisor's socket barrier drains
    fallback,   \* _socket_ineligible: a stdio peer was used
    endpoint,   \* control endpoint: listening, key of the accepted request
    path,       \* incarnation that bound the socket path, or 0
    req,        \* requesters: where, incarnation they mean, what they saw
    told,       \* history: what a requester was told of an incarnation
    cycles, faults

process == <<pc, active, tracked, draining, stop, sock, retired, fallback, cycles>>
vars == <<inc, process, endpoint, path, req, told, faults>>

NoEndpoint == [on |-> FALSE, key |-> "none"]
NoRequest == [pc |-> "idle", inc |-> 0, ops |-> FALSE, socks |-> FALSE]
Fresh == [t \in Threads |-> IF t = "main" THEN "boot" ELSE "off"]

Init ==
    /\ inc = 1 /\ pc = Fresh /\ active = 0 /\ tracked = {} /\ draining = FALSE /\ stop = FALSE
    /\ sock = [c \in Clients |-> "none"] /\ retired = FALSE /\ fallback = FALSE
    /\ endpoint = [on |-> TRUE, key |-> "none"] /\ path = 1
    /\ req = [r \in Requesters |-> NoRequest]
    /\ told = {} /\ cycles = 0 /\ faults = 0

Fault == faults < MaxFaults /\ faults' = faults + 1
Step == UNCHANGED faults
Outside == UNCHANGED <<inc, endpoint, path, req, told>>
Alive == pc["main"] # "gone"
Inside == {"op", "ending"}
Working == Inside \cup {"finishing"}

-----------------------------------------------------------------------------
\* WorkerActivityBarrier: _retain, _release, drained.
Retain(t) == ~draining \/ pc[t] \in Inside
QuietWithoutThreads == draining /\ active = 0
Drained == draining /\ active = 0 /\ tracked = {}
SocketsUp == {c \in Clients : sock[c] # "none"}
RetiredSockets == retired
SocketsDrained == retired /\ SocketsUp = {}

\* operation(): the whole claim, execution and cleanup is admitted at once.
Enter(t) ==
    /\ t \in Clients /\ pc[t] = "loop" /\ ~stop /\ cycles < MaxCycles /\ Retain(t) /\ Step
    /\ pc' = [pc EXCEPT ![t] = "op"] /\ active' = active + 1 /\ cycles' = cycles + 1
    /\ UNCHANGED <<tracked, draining, stop, sock, retired, fallback>> /\ Outside

\* The operation ends; a loop thread closes its client first, the main thread
\* keeps its own.
Leave(t) ==
    /\ t \in Clients /\ pc[t] \in Inside /\ (t \in Loops => sock[t] # "live") /\ Step
    /\ pc' = [pc EXCEPT ![t] = IF t = "main" THEN "after" ELSE "loop"] /\ active' = active - 1
    /\ UNCHANGED <<tracked, draining, stop, sock, retired, fallback, cycles>> /\ Outside

\* A child of admitted work may start after drain; it counts before it runs.
\* A start that raises after the reservation keeps it for ever.
StartUncounted ==
    /\ pc["main"] = "op" /\ pc["heartbeat"] = "off" /\ Retain("main") /\ Step
    /\ pc' = [pc EXCEPT !["heartbeat"] = "op"] /\ tracked' = tracked \cup {"heartbeat"}
    /\ UNCHANGED <<active, draining, stop, sock, retired, fallback, cycles>> /\ Outside

StartHeartbeat ==
    /\ pc["main"] = "op" /\ pc["heartbeat"] = "off" /\ Retain("main") /\ Step
    /\ pc' = [pc EXCEPT !["heartbeat"] = "op"] /\ active' = active + 1 /\ tracked' = tracked \cup {"heartbeat"}
    /\ UNCHANGED <<draining, stop, sock, retired, fallback, cycles>> /\ Outside

\* run(): _run_finished is set, the count released, then the thread ends; the
\* join of the cycle may have given up before.
Finish(t) ==
    /\ t # "main" /\ (pc[t] = "exit" \/ (t = "heartbeat" /\ pc[t] = "op")) /\ Step
    /\ pc' = [pc EXCEPT ![t] = "finishing"] /\ active' = active - 1
    /\ UNCHANGED <<tracked, draining, stop, sock, retired, fallback, cycles>> /\ Outside

\* The finished thread's end is seen by the next pruning of _threads.
End(t) ==
    /\ t # "main" /\ pc[t] = "finishing" /\ Step
    /\ pc' = [pc EXCEPT ![t] = IF t = "heartbeat" THEN "off" ELSE "gone"] /\ tracked' = tracked \ {t}
    /\ UNCHANGED <<active, draining, stop, sock, retired, fallback, cycles>> /\ Outside

-----------------------------------------------------------------------------
\* The supervisor's clients.
OpenClient(c) ==
    /\ c \in Clients /\ pc[c] = "op" /\ sock[c] = "none" /\ ~retired /\ Step
    /\ c \in Loops \/ ~fallback
    /\ sock' = [sock EXCEPT ![c] = "live"]
    /\ UNCHANGED <<pc, active, tracked, draining, stop, retired, fallback, cycles>> /\ Outside

\* Only the main thread may fall back to a stdio peer.
OpenStdio ==
    /\ pc["main"] = "op" /\ sock["main"] = "none" /\ ~retired /\ ~fallback /\ Fault
    /\ fallback' = TRUE
    /\ UNCHANGED <<pc, active, tracked, draining, stop, sock, retired, cycles>> /\ Outside

Closed(c) == [sock EXCEPT ![c] = IF @ = "live" THEN "closing" ELSE @]
CloseClient(c) ==
    /\ c \in Clients /\ pc[c] = "op" /\ sock[c] = "live" /\ Step
    /\ sock' = Closed(c) /\ pc' = [pc EXCEPT ![c] = "ending"]
    /\ UNCHANGED <<active, tracked, draining, stop, retired, fallback, cycles>> /\ Outside

SocketThreadEnds(c) ==
    /\ sock[c] = "closing" /\ Step
    /\ sock' = [sock EXCEPT ![c] = "none"]
    /\ UNCHANGED <<pc, active, tracked, draining, stop, retired, fallback, cycles>> /\ Outside

-----------------------------------------------------------------------------
\* run_forever.
Boot ==
    /\ pc["main"] = "boot" /\ Step
    /\ IF Retain("main") /\ ~stop
       THEN /\ pc' = [pc EXCEPT !["main"] = "loop", !["control"] = "loop", !["connect"] = "loop"]
            /\ active' = active + 2 /\ tracked' = tracked \cup Loops
       ELSE /\ pc' = [pc EXCEPT !["main"] = "join"] /\ UNCHANGED <<active, tracked>>
    /\ UNCHANGED <<draining, stop, sock, retired, fallback, cycles>> /\ Outside

\* After a cycle, and after one that was not admitted.
RefusedCycle ==
    /\ pc["main"] = "loop" /\ ~Retain("main") /\ ~stop /\ Step
    /\ pc' = [pc EXCEPT !["main"] = "after"]
    /\ UNCHANGED <<active, tracked, draining, stop, sock, retired, fallback, cycles>> /\ Outside

\* _retire_idle_socket_client, once, and the next turn of the loop.
Retire ==
    /\ pc["main"] = "after" /\ Step
    /\ pc' = [pc EXCEPT !["main"] = "loop"]
    /\ IF Drained /\ ~retired
       THEN retired' = TRUE /\ sock' = IF fallback THEN sock ELSE Closed("main")
       ELSE UNCHANGED <<retired, sock>>
    /\ UNCHANGED <<active, tracked, draining, stop, fallback, cycles>> /\ Outside

OnlyDrain(t) == draining
OnlyStop(t) == stop
LoopEnds(t) == stop \/ draining
LeaveLoop(t) ==
    /\ t \in Loops /\ pc[t] = "loop" /\ LoopEnds(t) /\ Step
    /\ pc' = [pc EXCEPT ![t] = "exit"]
    /\ UNCHANGED <<active, tracked, draining, stop, sock, retired, fallback, cycles>> /\ Outside

Signal ==
    /\ Alive /\ ~stop /\ stop' = TRUE /\ Fault
    /\ UNCHANGED <<pc, active, tracked, draining, sock, retired, fallback, cycles>> /\ Outside

LeaveMainLoop ==
    /\ pc["main"] \in {"loop", "after"} /\ stop /\ Step
    /\ pc' = [pc EXCEPT !["main"] = "join"]
    /\ UNCHANGED <<active, tracked, draining, stop, sock, retired, fallback, cycles>> /\ Outside

\* The loop threads are joined, then the control endpoint is closed and its
\* path unlinked.
Join ==
    /\ pc["main"] = "join" /\ \A t \in Loops : pc[t] \in {"off", "gone"} /\ Step
    /\ stop' = TRUE
    /\ pc' = [pc EXCEPT !["main"] = "unlisten"]
    /\ UNCHANGED <<active, tracked, draining, sock, retired, fallback, cycles>> /\ Outside

CloseEndpoint ==
    /\ pc["main"] = "unlisten" /\ Step
    /\ pc' = [pc EXCEPT !["main"] = "close"]
    /\ endpoint' = [endpoint EXCEPT !.on = FALSE]
    /\ path' = IF path = inc THEN 0 ELSE path
    /\ UNCHANGED <<active, tracked, draining, stop, sock, retired, fallback, cycles, inc, req, told>>

\* close(): drain, wait for every owner, retire the sockets, close the client,
\* wait for the socket threads, close the state.
RequestDrain ==
    /\ pc["main"] = "close" /\ draining' = TRUE /\ Step
    /\ pc' = [pc EXCEPT !["main"] = "waiting"]
    /\ UNCHANGED <<active, tracked, stop, sock, retired, fallback, cycles>> /\ Outside

CloseSoon ==
    /\ pc["main"] = "waiting" /\ Step
    /\ retired' = TRUE /\ sock' = Closed("main")
    /\ pc' = [pc EXCEPT !["main"] = "sockets"]
    /\ UNCHANGED <<active, tracked, draining, stop, fallback, cycles>> /\ Outside
CloseOwned ==
    /\ pc["main"] = "waiting" /\ Drained /\ Step
    /\ retired' = TRUE /\ sock' = Closed("main")
    /\ pc' = [pc EXCEPT !["main"] = "sockets"]
    /\ UNCHANGED <<active, tracked, draining, stop, fallback, cycles>> /\ Outside

\* With a receipt, or without one when the client's close failed.
CloseState ==
    /\ pc["main"] = "sockets" /\ SocketsDrained
    /\ \/ pc' = [pc EXCEPT !["main"] = "closed"] /\ Step
       \/ pc' = [pc EXCEPT !["main"] = "failed"] /\ Fault
    /\ UNCHANGED <<active, tracked, draining, stop, sock, retired, fallback, cycles>> /\ Outside

\* The process ends, or dies anywhere; a socket path it had bound stays when
\* it dies.
Gone ==
    /\ pc' = [t \in Threads |-> "gone"] /\ endpoint' = NoEndpoint
    /\ sock' = [c \in Clients |-> "none"]
    /\ UNCHANGED <<active, tracked, draining, stop, retired, fallback, cycles, inc, path, told>>
Exit == pc["main"] \in {"closed", "failed"} /\ Gone /\ Step /\ UNCHANGED req
Crash == Alive /\ pc["main"] \notin {"closed", "failed"} /\ Gone /\ Fault /\ UNCHANGED req

\* The supervisor starts a replacement, under the slot lock; a path that
\* exists refuses the new endpoint and the worker with it.
Restart ==
    /\ ~Alive /\ inc < MaxInc /\ path = 0 /\ Step
    /\ inc' = inc + 1 /\ pc' = Fresh /\ active' = 0 /\ tracked' = {} /\ draining' = FALSE /\ stop' = FALSE
    /\ sock' = [c \in Clients |-> "none"] /\ retired' = FALSE /\ fallback' = FALSE /\ cycles' = 0
    /\ endpoint' = [on |-> TRUE, key |-> "none"] /\ path' = inc + 1
    /\ UNCHANGED <<req, told>>

OperatorRemovesPath ==
    /\ ~Alive /\ path # 0 /\ path' = 0 /\ Step
    /\ UNCHANGED <<inc, process, endpoint, req, told>>

-----------------------------------------------------------------------------
\* The requesters.  A request names the incarnation that was inspected.
Prepare(r) ==
    /\ req[r].pc = "idle" /\ endpoint.on /\ Step
    /\ req' = [req EXCEPT ![r] = [NoRequest EXCEPT !.pc = "ready", !.inc = inc]]
    /\ UNCHANGED <<inc, process, endpoint, path, told>>

\* _dispatch of drain or status; another process, another accepted request or
\* a stopping endpoint refuse it.
AnyKey(r) == endpoint.on /\ ~stop /\ req[r].inc = inc
Matching(r) == endpoint.on /\ ~stop /\ req[r].inc = inc /\ endpoint.key \in {"none", r}
Accept(r) ==
    /\ req[r].pc = "ready" /\ Step
    /\ IF Matching(r)
       THEN /\ endpoint' = [endpoint EXCEPT !.key = r] /\ draining' = TRUE
            /\ req' = [req EXCEPT ![r].pc = "accepted"]
       ELSE /\ req' = [req EXCEPT ![r] = NoRequest] /\ UNCHANGED <<endpoint, draining>>
    /\ UNCHANGED <<inc, pc, active, tracked, stop, sock, retired, fallback, cycles, path, told>>

\* expires_ns passes before the request is accepted.
Expire(r) ==
    /\ req[r].pc = "ready" /\ endpoint.key # r /\ Step
    /\ req' = [req EXCEPT ![r] = NoRequest]
    /\ UNCHANGED <<inc, process, endpoint, path, told>>

\* The endpoint reads the two observations one after the other.
Observe(r) ==
    /\ Step
    /\ \/ /\ req[r].pc = "accepted" /\ req[r].inc = inc /\ endpoint.on
          /\ req' = [req EXCEPT ![r].pc = "seen", ![r].ops = Drained]
       \/ /\ req[r].pc = "seen" /\ req[r].inc = inc /\ endpoint.on
          /\ req' = [req EXCEPT ![r].pc = "reply", ![r].socks = ~fallback /\ SocketsDrained /\ req[r].ops]
    /\ UNCHANGED <<inc, process, endpoint, path, told>>

\* The reply is checked against the process that is connected; a lost one or
\* a changed process leaves the request unconfirmed, to be asked again.
Answer(r) ==
    /\ req[r].pc = "reply" /\ Step
    /\ told' = told \cup {[r |-> r, inc |-> req[r].inc, ops |-> req[r].ops, socks |-> req[r].socks]}
    /\ req' = [req EXCEPT ![r].pc = "ready", ![r].ops = FALSE, ![r].socks = FALSE]
    /\ UNCHANGED <<inc, process, endpoint, path>>

LoseReply(r) ==
    /\ req[r].pc \in {"accepted", "seen", "reply"}
    /\ IF req[r].inc = inc /\ endpoint.on THEN Fault ELSE Step
    /\ req' = [req EXCEPT ![r].pc = "ready", ![r].ops = FALSE, ![r].socks = FALSE]
    /\ UNCHANGED <<inc, process, endpoint, path, told>>

-----------------------------------------------------------------------------
ThreadStep ==
    \/ \E t \in Threads : Leave(t) \/ Finish(t) \/ End(t) \/ LeaveLoop(t)
    \/ \E c \in Clients : CloseClient(c) \/ SocketThreadEnds(c)
    \/ Boot \/ RefusedCycle \/ Retire \/ LeaveMainLoop \/ Join \/ CloseEndpoint
    \/ RequestDrain \/ CloseOwned \/ CloseState \/ Exit
Work == StartHeartbeat \/ OpenStdio \/ (\E c \in Clients : Enter(c) \/ OpenClient(c))
Ask == \E r \in Requesters : Prepare(r) \/ Accept(r) \/ Expire(r) \/ Observe(r) \/ Answer(r) \/ LoseReply(r)

Next == ThreadStep \/ Work \/ Ask \/ Signal \/ Crash \/ Restart \/ OperatorRemovesPath

Spec == Init /\ [][Next]_vars

-----------------------------------------------------------------------------
\* The barrier's count is the number of admitted operations and of tracked
\* threads that have not finished, in every interleaving.
TypeOK ==
    /\ inc \in 1..MaxInc /\ path \in 0..MaxInc /\ tracked \subseteq Threads /\ cycles \in 0..MaxCycles
    /\ Alive => active = Cardinality({t \in Clients : pc[t] \in Inside})
                         + Cardinality({t \in tracked : pc[t] # "finishing"})

\* A requester who was told that operations are drained can rely on it: in
\* that process nothing admitted or tracked is alive, then or later.
DrainAckIsTrue ==
    \A a \in told : a.ops /\ a.inc = inc /\ Alive =>
        (\A t \in Threads : pc[t] \notin Working) /\ \A t \in Loops : pc[t] \in {"off", "gone"}

\* ...and one told that the socket threads are drained: no transport thread of
\* that process is alive, and no stdio peer stood in for one.
SocketAckIsTrue == \A a \in told : a.socks /\ a.inc = inc => SocketsUp = {} /\ ~fallback

\* One request drains a process; no second requester is told that his was.
OneRequest == \A a, b \in told : a.inc = b.inc => a.r = b.r

\* Resources are not closed beneath live owners: the database handle is closed
\* when no operation, thread or socket of the process is left.
CloseIsLast ==
    pc["main"] \in {"closed", "failed"} =>
        (\A t \in Threads : pc[t] \notin Working) /\ SocketsUp = {}

-----------------------------------------------------------------------------
(* What makes these inductive.                                               *)

LoopStates == {"off", "loop", "op", "ending", "exit", "finishing", "gone"}
MainStates == {"boot", "loop", "op", "ending", "after", "join", "unlisten", "close",
               "waiting", "sockets", "closed", "failed", "gone"}
Endpoint == [on : BOOLEAN, key : Requesters \cup {"none"}]
Request == [pc : {"idle", "ready", "accepted", "seen", "reply"},
            inc : Nat, ops : BOOLEAN, socks : BOOLEAN]
Acknowledgement == [r : Requesters, inc : Nat, ops : BOOLEAN, socks : BOOLEAN]
Typed ==
    /\ inc \in 1..MaxInc /\ path \in 0..MaxInc /\ cycles \in 0..MaxCycles /\ active \in Int
    /\ pc \in [Threads -> LoopStates \cup MainStates]
    /\ pc["main"] \in MainStates /\ \A t \in Loops : pc[t] \in LoopStates
    /\ pc["heartbeat"] \in {"off", "op", "finishing", "gone"}
    /\ sock \in [Clients -> {"none", "live", "closing"}]
    /\ draining \in BOOLEAN /\ stop \in BOOLEAN /\ retired \in BOOLEAN /\ fallback \in BOOLEAN
    /\ endpoint \in Endpoint
    /\ req \in [Requesters -> Request]
    /\ told \subseteq Acknowledgement

\* The barrier counts an admitted operation, and a thread that it tracks until
\* the thread has finished; the loop threads are started once.
One(b) == IF b THEN 1 ELSE 0
Tracked(t) == IF t = "heartbeat" THEN pc[t] \in {"op", "finishing"}
              ELSE t \in Loops /\ pc[t] \in {"loop", "op", "ending", "exit", "finishing"}
Counts(t) == One(t \in Clients /\ pc[t] \in Inside) + One(Tracked(t) /\ pc[t] # "finishing")
Counted ==
    /\ tracked \subseteq Threads
    /\ pc["main"] = "boot" => \A t \in Loops : pc[t] = "off"
    /\ Alive => /\ \A t \in Threads : t \in tracked <=> Tracked(t)
                /\ active = Counts("main") + Counts("control") + Counts("connect")
                            + Counts("heartbeat")

\* Nothing admitted or tracked is alive, and the barrier admits nothing more.
Idle == /\ draining
        /\ \A t \in Threads : pc[t] \notin Working
        /\ \A t \in Loops : pc[t] \in {"off", "gone"}

\* close() goes on only when the barrier is idle and the sockets are retired.
ClosingIsIdle ==
    /\ pc["main"] \in {"waiting", "sockets", "closed", "failed"} => draining
    /\ pc["main"] \in {"sockets", "closed", "failed"} => Idle /\ retired
    /\ pc["main"] \in {"closed", "failed"} => SocketsUp = {}

\* What a requester has seen of the process, or was told of it, is still so.
StaysTold(ops, socks) ==
    /\ ops /\ Alive => Idle
    /\ socks => retired /\ SocketsUp = {} /\ ~fallback
SeenIsSo ==
    /\ \A r \in Requesters : req[r].inc = inc => StaysTold(req[r].ops, req[r].socks)
    /\ \A a \in told : a.inc = inc => StaysTold(a.ops, a.socks)

\* Who was admitted to drain a process, or was told so; the endpoint of the
\* running process holds his key.
Claims(r, n) == \/ req[r].inc = n /\ req[r].pc \in {"accepted", "seen", "reply"}
                \/ \E a \in told : a.r = r /\ a.inc = n
OneClaim ==
    /\ \A r \in Requesters : req[r].inc <= inc
    /\ \A a \in told : a.inc <= inc
    /\ \A r, q \in Requesters : \A n \in Nat : Claims(r, n) /\ Claims(q, n) => r = q
    /\ \A r \in Requesters : endpoint.on /\ Claims(r, inc) => endpoint.key = r

DrainInv == Typed /\ Counted /\ ClosingIsIdle /\ SeenIsSo /\ OneClaim

=============================================================================
