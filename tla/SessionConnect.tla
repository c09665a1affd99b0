--------------------------- MODULE SessionConnect ---------------------------
(***************************************************************************)
(* Connecting a saved Codex thread to a topic (session_connect.py,         *)
(* session_adoption_state.py, codex_session_adoption.py).  The controller  *)
(* serves the owner's choices, the worker's metadata threads search and    *)
(* recheck, the sender publishes a marker message, and only the marker's   *)
(* message id lets one transaction archive the old session, attach the     *)
(* thread and move the boundary before which no message reaches it.  The   *)
(* local administrator may attach a thread meanwhile, the owner may write, *)
(* reset or take the session to a terminal, and every process may die.     *)
(*                                                                         *)
(* One project: its topics share one root.  Labels, models and efforts are *)
(* left out.  Attempts of the sender are counted up to MaxAttempts, the    *)
(* schema's CHECK (20), beyond which the lease of a row is refused.        *)
(***************************************************************************)
EXTENDS Naturals, FiniteSets

CONSTANTS Topics, Threads, Workers, Codes,
          Existing,    \* topics that exist at the start
          Blocked,     \* topics that refuse the bot's messages for ever
          MaxFlows, MaxSessions, MaxMessages, MaxAttempts,
          MaxFaults    \* bound: process deaths, lapses, failures, changes of policy

ConnectBounds ==
    /\ Existing \subseteq Topics /\ Blocked \subseteq Topics
    /\ {MaxFlows, MaxSessions, MaxMessages, MaxAttempts, MaxFaults} \subseteq Nat

None == "none"
Flows == 1..MaxFlows
Sessions == 1..MaxSessions
Kinds == {"menu", "marker", "result", "notice"}
Over == {"completed", "cancelled", "expired", "failed"}
Searching == {"discovering", "activation_requested"}

VARIABLES
    flow,     \* session_connect_workflows
    out,      \* session_connect_outbox: one row per workflow and kind
    ses,      \* agent_sessions with their codex_session_origins row
    work,     \* sessions with unfinished work or delivery
    used,     \* topics that ever had work
    topics,   \* topics the hub knows
    code,     \* session_connect_codes: claiming workflow, consumed
    worker,   \* metadata threads: workflow in hand
    sender,   \* the sender: row in hand and the answer it has
    admin,    \* the administrator's attach: topic, thread, session it saw
    making,   \* workflow whose topic the controller is creating, or 0
    inbox,    \* owner's messages not yet admitted
    given,    \* history: session and message of every admission
    perm,     \* the configured permission profile
    clock, faults

data == <<ses, work, used, topics, code, given, perm>>
vars == <<flow, out, data, worker, sender, admin, making, inbox, clock, faults>>

NoFlow == [stage |-> "unused", dest |-> None, src |-> None, expect |-> 0, code |-> None,
           lease |-> None, live |-> FALSE, due |-> FALSE, perm |-> 1, markers |-> 0]
NoRow == [status |-> "none", attempts |-> 0]
NoSession == [topic |-> None, status |-> "none", thread |-> None, writer |-> "telegram",
              origin |-> FALSE, repl |-> 0, act |-> 0, by |-> 0, marker |-> 0]
AtRest == [w |-> 0, kind |-> None, id |-> 0, pc |-> "idle"]
NoAdmin == [pc |-> "idle", topic |-> None, thread |-> None, expect |-> 0]

Init ==
    /\ flow = [w \in Flows |-> NoFlow]
    /\ out = [w \in Flows |-> [k \in Kinds |-> NoRow]]
    /\ ses = [s \in Sessions |-> NoSession]
    /\ work = {} /\ used = {} /\ topics = Existing
    /\ code = [c \in Codes |-> [claim |-> 0, consumed |-> FALSE, live |-> TRUE]]
    /\ worker = [x \in Workers |-> 0]
    /\ sender = AtRest /\ admin = NoAdmin /\ making = 0
    /\ inbox = {} /\ given = {} /\ perm = 1 /\ clock = 0 /\ faults = 0

Active(t) == IF \E s \in Sessions : ses[s].topic = t /\ ses[s].status = "active"
             THEN CHOOSE s \in Sessions : ses[s].topic = t /\ ses[s].status = "active" ELSE 0
FreeSession == IF \E s \in Sessions : ses[s].status = "none"
               THEN CHOOSE s \in Sessions : ses[s].status = "none" /\ \A r \in 1..(s - 1) : ses[r].status # "none"
               ELSE 0
Writable(t) == Active(t) # 0 => ses[Active(t)].writer = "telegram"
Put(w, k) == [out EXCEPT ![w][k] = [NoRow EXCEPT !.status = "prepared"]]
Fault == faults < MaxFaults /\ faults' = faults + 1
Step == UNCHANGED faults

-----------------------------------------------------------------------------
\* Whether a thread may be attached to a topic in place of a session: preview.
OriginOf(th) == {s \in Sessions : ses[s].origin /\ ses[s].thread = th}
TopicIdle(t) == /\ \A s \in work : ses[s].topic # t
                /\ \A s \in Sessions : ses[s].topic = t /\ ses[s].status = "active" => ses[s].writer = "telegram"

VerdictBusy(t, th, repl) ==
    IF t \notin topics \/ (OriginOf(th) # {} /\ Active(t) \notin OriginOf(th)) THEN "binding_superseded"
    ELSE IF OriginOf(th) # {} THEN "attached"
    ELSE IF repl # 0 /\ Active(t) # repl THEN "target_changed" ELSE "ok"

VerdictBlind(t, th, repl) ==
    IF t \notin topics THEN "topic_mismatch"
    ELSE IF repl # 0 /\ Active(t) # repl THEN "target_changed"
    ELSE IF \E u \in topics : ~TopicIdle(u) THEN "target_busy"
    ELSE IF repl = 0 /\ Active(t) # 0 THEN "target_not_empty" ELSE "ok"

Verdict(t, th, repl) ==
    IF t \notin topics THEN "topic_mismatch"
    ELSE IF OriginOf(th) # {}
    THEN IF Active(t) \notin OriginOf(th) THEN "binding_superseded"
         ELSE IF ses[Active(t)].repl # repl THEN "binding_conflict" ELSE "attached"
    ELSE IF repl # 0 /\ Active(t) # repl THEN "target_changed"
    ELSE IF repl # 0 /\ ses[repl].thread = th THEN "attached"
    ELSE IF repl = 0 /\ Active(t) # 0 /\ ses[Active(t)].thread # None THEN "target_not_empty"
    ELSE IF \E s \in Sessions : ses[s].thread = th THEN "source_already_bound"
    ELSE IF \E u \in topics : ~TopicIdle(u) THEN "target_busy"
    ELSE IF repl = 0 /\ (t \in used \/ \E s \in Sessions : ses[s].topic = t /\ ses[s].status = "archived")
    THEN "target_not_empty" ELSE "ok"

\* _attach_locked: the binding must be the one the request was made for.
MayAttach(t, th, repl, expect) ==
    /\ Active(t) = expect \/ OriginOf(th) # {}
    /\ Verdict(t, th, repl) = "attached" \/ (Verdict(t, th, repl) = "ok" /\ Active(t) = expect)

AttachedBeside(t, th, repl, by, mode) ==
    [ses EXCEPT ![FreeSession] = [NoSession EXCEPT !.topic = t, !.status = "active", !.thread = th, !.writer = mode,
                                                   !.origin = TRUE, !.repl = repl, !.by = by]]

Attached(t, th, repl, by, mode) ==
    IF Verdict(t, th, repl) = "attached" THEN ses
    ELSE [s \in Sessions |->
            IF s = FreeSession
            THEN [NoSession EXCEPT !.topic = t, !.status = "active", !.thread = th, !.writer = mode,
                                   !.origin = TRUE, !.repl = repl, !.by = by]
            ELSE IF s = Active(t) THEN [ses[s] EXCEPT !.status = "archived"] ELSE ses[s]]

-----------------------------------------------------------------------------
\* The owner's side, served by the controller one update at a time.
Serving == making = 0
Quiet == UNCHANGED <<out, data, worker, sender, admin, making, inbox, clock>>

\* A new workflow cancels the owner's others, whose code claims stay.
Fresh(w) == flow[w].stage = "unused" /\ \A v \in 1..(w - 1) : flow[v].stage # "unused"
Replacing(w, row) ==
    [v \in Flows |-> IF v = w THEN row
                     ELSE IF flow[v].stage \in Over \cup {"unused", "marker_unknown"} THEN flow[v]
                     ELSE [flow[v] EXCEPT !.stage = "cancelled"]]

StartTopic(w, t) ==
    /\ Serving /\ Fresh(w) /\ t \in topics /\ Writable(t) /\ Step
    /\ flow' = Replacing(w, [NoFlow EXCEPT !.stage = "discovering", !.dest = t,
                                           !.expect = Active(t), !.perm = perm])
    /\ Quiet

\* start_direct, then select_project: the only project.
StartDirect(w) ==
    /\ Serving /\ Fresh(w) /\ Step
    /\ flow' = Replacing(w, [NoFlow EXCEPT !.stage = "choosing_project", !.perm = perm])
    /\ Quiet

Set(w, row) == flow' = [flow EXCEPT ![w] = row] /\ Quiet /\ Step

SelectProject(w) ==
    /\ Serving /\ flow[w].stage = "choosing_project"
    /\ Set(w, [flow[w] EXCEPT !.stage = "discovering"])

\* A code names its thread; it is claimed by one workflow at a time, and one
\* whose workflow is over may be claimed again.
ThreadOf(c) == CHOOSE th \in Threads : TRUE
ClaimableByAll(c) == code[c].live
Claimable(c) ==
    /\ code[c].live /\ ~code[c].consumed
    /\ code[c].claim \in {w \in Flows : flow[w].stage \in {"cancelled", "expired", "failed"}} \cup {0}

Redeem(w, c, t) ==
    /\ Serving /\ Fresh(w) /\ Claimable(c) /\ Step
    /\ t = None \/ (t \in topics /\ Writable(t))
    /\ flow' = Replacing(w, [NoFlow EXCEPT !.stage = IF t = None THEN "choosing_destination" ELSE "confirming",
                                           !.dest = t, !.src = ThreadOf(c), !.code = c, !.perm = perm,
                                           !.expect = IF t = None THEN 0 ELSE Active(t)])
    /\ code' = [code EXCEPT ![c].claim = w]
    /\ UNCHANGED <<out, ses, work, used, topics, given, perm, worker, sender, admin, making, inbox, clock>>

SelectCandidate(w, th) ==
    /\ Serving /\ flow[w].stage = "choosing_source"
    /\ Set(w, [flow[w] EXCEPT !.src = th,
                              !.stage = IF flow[w].dest = None THEN "choosing_destination" ELSE "confirming"])

SelectDestination(w, t) ==
    /\ Serving /\ flow[w].stage = "choosing_destination" /\ t \in topics /\ Writable(t)
    /\ Set(w, [flow[w] EXCEPT !.dest = t, !.expect = Active(t), !.stage = "confirming"])

\* request_new_topic, the title and begin_topic_creation: the controller then
\* waits for Telegram.
BeginTopicCreation(w) ==
    /\ Serving /\ flow[w].stage = "choosing_destination" /\ Step
    /\ flow' = [flow EXCEPT ![w].stage = "creating_topic"]
    /\ making' = w
    /\ UNCHANGED <<out, data, worker, sender, admin, inbox, clock>>

\* The answer: a topic, a proven refusal, or no knowledge; or the controller
\* dies.  The workflow may have expired meanwhile.
EndTopicCreation(w, t) ==
    /\ making = w /\ making' = 0 /\ Step
    /\ \/ /\ t \in Topics \ topics
          /\ IF flow[w].stage = "creating_topic"
             THEN /\ topics' = topics \cup {t}
                  /\ flow' = [flow EXCEPT ![w] = [@ EXCEPT !.dest = t, !.expect = 0, !.stage = "confirming"]]
             ELSE UNCHANGED <<topics, flow>>
       \/ /\ t = None /\ UNCHANGED topics
          /\ flow' = IF flow[w].stage # "creating_topic" THEN flow
                     ELSE [flow EXCEPT ![w].stage = "topic_create_unknown"]
       \/ t = None /\ UNCHANGED topics /\ flow[w].stage = "creating_topic" /\ flow' = [flow EXCEPT ![w].stage = "failed"]
    /\ UNCHANGED <<out, ses, work, used, code, given, perm, worker, sender, admin, inbox, clock>>

ControllerDies ==
    /\ making # 0 /\ making' = 0 /\ Fault
    /\ UNCHANGED <<flow, out, data, worker, sender, admin, inbox, clock>>

RequestActivation(w) ==
    /\ Serving /\ flow[w].stage = "confirming"
    /\ Verdict(flow[w].dest, flow[w].src, flow[w].expect) \in {"ok", "attached"}
    /\ Active(flow[w].dest) = flow[w].expect \/ Verdict(flow[w].dest, flow[w].src, flow[w].expect) = "attached"
    /\ Set(w, [flow[w] EXCEPT !.stage = "activation_requested"])

Cancel(w) ==
    /\ Serving /\ flow[w].stage \notin Over \cup {"unused", "marker_unknown"} /\ Step
    /\ flow' = [flow EXCEPT ![w].stage = "cancelled"]
    /\ code' = [c \in Codes |-> IF code[c].claim = w /\ ~code[c].consumed
                                THEN [code[c] EXCEPT !.claim = 0] ELSE code[c]]
    /\ UNCHANGED <<out, ses, work, used, topics, given, perm, worker, sender, admin, making, inbox, clock>>

Deadline(w) ==
    /\ flow[w].stage \notin Over \cup {"unused", "marker_unknown"} /\ ~flow[w].due
    /\ flow' = [flow EXCEPT ![w].due = TRUE]
    /\ Fault /\ Quiet

\* The deadline of every workflow that waits for a worker is announced.
NoSearches == {}
ExpiredSearches == {w \in Flows : flow[w].due /\ flow[w].stage \in Searching}
ExpiryNotices ==
    [w \in Flows |-> IF w \in ExpiredSearches THEN [out[w] EXCEPT !["notice"] = [NoRow EXCEPT !.status = "prepared"]]
                     ELSE out[w]]
ExpiredFlows(which) ==
    [w \in Flows |-> IF w \in which THEN [flow[w] EXCEPT !.stage = "expired",
                                                         !.lease = IF w \in ExpiredSearches THEN None ELSE @]
                     ELSE flow[w]]

\* active_for_owner, on the owner's next private message.
OwnerSeesExpiry(w) ==
    /\ Serving /\ flow[w].due /\ flow[w].stage \notin Over \cup {"unused"} /\ Step
    /\ flow' = ExpiredFlows(ExpiredSearches \cup {w})
    /\ out' = ExpiryNotices
    /\ UNCHANGED <<data, worker, sender, admin, making, inbox, clock>>

-----------------------------------------------------------------------------
\* The metadata threads.
HeldForEver(w) == flow[w].lease # None
Held(w) == flow[w].lease # None /\ flow[w].live
LeaseWorker(x, w) ==
    /\ worker[x] = 0 /\ Step
    /\ LET gone == ExpiredSearches \cup {v \in Flows : flow[v].due /\ flow[v].stage \notin Over \cup {"unused", "marker_unknown"}} IN
       /\ IF w # 0
          THEN /\ w \notin gone /\ flow[w].stage \in Searching /\ ~Held(w)
               /\ \A v \in 1..(w - 1) : v \in gone \/ flow[v].stage \notin Searching \/ Held(v)
               /\ flow' = [ExpiredFlows(gone) EXCEPT ![w].lease = x, ![w].live = TRUE]
               /\ worker' = [worker EXCEPT ![x] = w]
          ELSE gone # {} /\ flow' = ExpiredFlows(gone) /\ UNCHANGED worker
       /\ out' = ExpiryNotices
    /\ UNCHANGED <<data, sender, admin, making, inbox, clock>>

Owns(x) == worker[x] # 0 /\ flow[worker[x]].lease = x

FinishDiscovery(x, found) ==
    LET w == worker[x] IN
    /\ Owns(x) /\ flow[w].stage = "discovering" /\ flow[w].perm = perm /\ Step
    /\ flow' = [flow EXCEPT ![w].stage = IF found THEN "choosing_source" ELSE "failed", ![w].lease = None]
    /\ out' = Put(w, IF found THEN "menu" ELSE "notice")
    /\ worker' = [worker EXCEPT ![x] = 0]
    /\ UNCHANGED <<data, sender, admin, making, inbox, clock>>

\* What the worker's recheck refuses.
Refused(w) == \/ flow[w].perm # perm
              \/ /\ flow[w].stage = "activation_requested"
                 /\ Verdict(flow[w].dest, flow[w].src, flow[w].expect) \notin {"ok", "attached"}

PrepareMarker(x) ==
    LET w == worker[x] IN
    /\ Owns(x) /\ flow[w].stage = "activation_requested" /\ ~Refused(w) /\ Step
    /\ flow' = [flow EXCEPT ![w].stage = "marker_ready", ![w].lease = None]
    /\ out' = Put(w, "marker")
    /\ worker' = [worker EXCEPT ![x] = 0]
    /\ UNCHANGED <<data, sender, admin, making, inbox, clock>>

\* Any error: the workflow fails with a notice, unless it is no longer this
\* worker's.
FailWorker(x) ==
    LET w == worker[x] IN
    /\ worker[x] # 0 /\ worker' = [worker EXCEPT ![x] = 0]
    /\ IF Owns(x) /\ flow[w].stage \in Searching
       THEN /\ IF Refused(w) THEN Step ELSE Fault
            /\ out' = Put(w, "notice")
            /\ flow' = [flow EXCEPT ![w].stage = "failed", ![w].lease = None]
       ELSE Step /\ UNCHANGED <<flow, out>>
    /\ UNCHANGED <<data, sender, admin, making, inbox, clock>>

WorkerDies(x) ==
    /\ worker[x] # 0 /\ Fault
    /\ worker' = [worker EXCEPT ![x] = 0]
    /\ UNCHANGED <<flow, out, data, sender, admin, making, inbox, clock>>

LeaseLapses(w) ==
    /\ Held(w) /\ flow[w].stage \in Searching
    /\ (\E x \in Workers : worker[x] = w) => faults < MaxFaults
    /\ faults' = IF \E x \in Workers : worker[x] = w THEN faults + 1 ELSE faults
    /\ flow' = [flow EXCEPT ![w].live = FALSE]
    /\ Quiet

-----------------------------------------------------------------------------
\* The sender: recover, lease a row (markers first), recheck, send, record.
Ready == {r \in Flows \X Kinds : out[r[1]][r[2]].status = "prepared"}
Chosen(r) == /\ r \in Ready
             /\ r[2] # "marker" => \A q \in Ready : q[2] # "marker"
             /\ \A q \in Ready : (q[2] = "marker") = (r[2] = "marker") => r[1] <= q[1]
Place(w, k) == IF k = "marker" \/ flow[w].dest # None THEN flow[w].dest ELSE "private"

\* The row is leased; the schema refuses an attempt beyond its CHECK, and the
\* cycle ends in an error.
LeaseOutbox(r) ==
    /\ sender.pc = "idle" /\ Chosen(r) /\ out[r[1]][r[2]].attempts < MaxAttempts /\ Step
    /\ out' = [out EXCEPT ![r[1]][r[2]] = [status |-> "leased", attempts |-> @.attempts + 1]]
    /\ sender' = [w |-> r[1], kind |-> r[2], id |-> 0, pc |-> "leased"]
    /\ UNCHANGED <<flow, data, worker, admin, making, inbox, clock>>

AnyMarker(w) == TRUE
MarkerGood(w) == flow[w].stage = "marker_ready" /\ flow[w].perm = perm

RefuseMarker ==
    LET w == sender.w IN
    /\ sender.pc = "leased" /\ sender.kind = "marker" /\ ~MarkerGood(w) /\ Step
    /\ out' = [out EXCEPT ![w]["marker"].status = "failed",
                          ![w]["notice"] = IF flow[w].stage = "marker_ready" THEN [NoRow EXCEPT !.status = "prepared"] ELSE @]
    /\ flow' = [flow EXCEPT ![w].stage = IF @ = "marker_ready" THEN "failed" ELSE @]
    /\ sender' = AtRest
    /\ UNCHANGED <<data, worker, admin, making, inbox, clock>>

\* Telegram takes the message, with or without the answer arriving.
Send(answered) ==
    LET w == sender.w IN
    /\ sender.pc = "leased" /\ sender.kind = "marker" => MarkerGood(w)
    /\ sender.pc = "leased" /\ Place(w, sender.kind) \notin Blocked
    /\ clock' = clock + 1
    /\ answered \/ faults < MaxFaults
    /\ faults' = IF answered THEN faults ELSE faults + 1
    /\ sender' = [sender EXCEPT !.pc = IF answered THEN "sent" ELSE "failed", !.id = clock + 1]
    /\ flow' = IF sender.kind = "marker" THEN [flow EXCEPT ![w].markers = @ + 1] ELSE flow
    /\ UNCHANGED <<out, data, worker, admin, making, inbox>>

\* Nothing was sent: a fault, or the chat refuses.
SendFails ==
    /\ sender.pc = "leased" /\ sender.kind = "marker" => MarkerGood(sender.w)
    /\ sender.pc = "leased"
    /\ IF Place(sender.w, sender.kind) \in Blocked THEN Step ELSE Fault
    /\ sender' = [sender EXCEPT !.pc = "failed"]
    /\ UNCHANGED <<flow, out, data, worker, admin, making, inbox, clock>>

Leased(w, k) == out[w][k].status = "leased"

\* complete_marker: one transaction.
CompleteMarker ==
    LET w == sender.w  t == flow[w].dest IN
    /\ sender.pc = "sent" /\ sender.kind = "marker" /\ Leased(w, "marker") /\ MarkerGood(w) /\ Step
    /\ MayAttach(t, flow[w].src, flow[w].expect, flow[w].expect)
    /\ Verdict(t, flow[w].src, flow[w].expect) = "attached" \/ FreeSession # 0
    /\ LET after == Attached(t, flow[w].src, flow[w].expect, w, "telegram")
           s == IF Verdict(t, flow[w].src, flow[w].expect) = "attached" THEN Active(t) ELSE FreeSession IN
       ses' = [after EXCEPT ![s].act = IF after[s].origin /\ @ = 0 THEN sender.id ELSE @,
                            ![s].writer = "telegram", ![s].marker = sender.id]
    /\ flow' = [flow EXCEPT ![w].stage = "completed"]
    /\ out' = [out EXCEPT ![w]["marker"].status = "delivered", ![w]["result"] = [NoRow EXCEPT !.status = "prepared"]]
    /\ code' = [c \in Codes |-> IF flow[w].code = c /\ code[c].claim = w THEN [code[c] EXCEPT !.consumed = TRUE] ELSE code[c]]
    /\ sender' = AtRest
    /\ UNCHANGED <<work, used, topics, given, perm, worker, admin, making, inbox, clock>>

\* complete_marker is refused or the send failed: the marker's outcome is
\* recorded as unknown and it is not sent again.
MarkMarkerUnknown ==
    LET w == sender.w  t == flow[w].dest IN
    /\ sender.kind = "marker" /\ Step
    /\ \/ sender.pc = "failed"
       \/ /\ sender.pc = "sent"
          /\ ~(Leased(w, "marker") /\ MarkerGood(w) /\ MayAttach(t, flow[w].src, flow[w].expect, flow[w].expect))
    /\ out' = IF Leased(w, "marker") THEN [out EXCEPT ![w]["marker"].status = "unknown"] ELSE out
    /\ flow' = [flow EXCEPT ![w].stage = IF @ = "marker_ready" THEN "marker_unknown" ELSE @]
    /\ sender' = AtRest
    /\ UNCHANGED <<data, worker, admin, making, inbox, clock>>

\* complete_outbox and retry_outbox for the other rows.
Record ==
    /\ sender.pc \in {"sent", "failed"} /\ sender.kind # "marker" /\ Step
    /\ out' = IF ~Leased(sender.w, sender.kind) THEN out
              ELSE [out EXCEPT ![sender.w][sender.kind].status = IF sender.pc = "sent" THEN "delivered" ELSE "waiting"]
    /\ sender' = AtRest
    /\ UNCHANGED <<flow, data, worker, admin, making, inbox, clock>>

\* available_at of a row to be retried passes.
RetryIsDue(w, k) ==
    /\ out[w][k].status = "waiting" /\ Step
    /\ out' = [out EXCEPT ![w][k].status = "prepared"]
    /\ UNCHANGED <<flow, data, worker, sender, admin, making, inbox, clock>>

\* The sender dies; its lease expires and recover_stale_outbox, by a new
\* sender, takes a marker as possibly sent and offers other rows again.
SenderDies ==
    /\ sender.pc # "idle" /\ Fault
    /\ sender' = AtRest
    /\ UNCHANGED <<flow, out, data, worker, admin, making, inbox, clock>>

RecoverAll(w, k) ==
    /\ sender.pc = "idle" /\ Leased(w, k) /\ Step
    /\ out' = [out EXCEPT ![w][k].status = "prepared"]
    /\ UNCHANGED <<flow, data, worker, sender, admin, making, inbox, clock>>

RecoverStaleOutbox(w, k) ==
    /\ sender.pc = "idle" /\ Leased(w, k) /\ Step
    /\ out' = [out EXCEPT ![w][k].status = IF k = "marker" THEN "unknown" ELSE "prepared"]
    /\ flow' = [flow EXCEPT ![w].stage = IF k = "marker" /\ @ = "marker_ready" THEN "marker_unknown" ELSE @]
    /\ UNCHANGED <<data, worker, sender, admin, making, inbox, clock>>

-----------------------------------------------------------------------------
\* What else touches the topic's session.
Write(t) ==
    /\ t \in topics /\ clock < MaxMessages /\ Step
    /\ clock' = clock + 1 /\ inbox' = inbox \cup {<<t, clock + 1>>}
    /\ UNCHANGED <<flow, out, data, worker, sender, admin, making>>

\* require_admission: a connected session takes nothing up to its boundary.
AdmitsActivated(s, id) == ses[s].origin => ses[s].act # 0
Admits(s, id) == ses[s].origin => (ses[s].act # 0 /\ id > ses[s].act)

Admit(m) ==
    LET t == m[1]  s == Active(t) IN
    /\ Serving /\ m \in inbox /\ inbox' = inbox \ {m} /\ Step
    /\ IF s = 0
       THEN /\ FreeSession # 0
            /\ ses' = [ses EXCEPT ![FreeSession] = [NoSession EXCEPT !.topic = t, !.status = "active"]]
            /\ work' = work \cup {FreeSession} /\ used' = used \cup {t}
            /\ given' = given \cup {<<FreeSession, m[2]>>}
       ELSE IF ses[s].writer = "telegram" /\ Admits(s, m[2])
       THEN work' = work \cup {s} /\ used' = used \cup {t} /\ given' = given \cup {<<s, m[2]>>} /\ UNCHANGED ses
       ELSE UNCHANGED <<ses, work, used, given>>
    /\ UNCHANGED <<flow, out, topics, code, perm, worker, sender, admin, making, clock>>

WorkEnds(s) ==
    /\ s \in work /\ work' = work \ {s} /\ Step
    /\ UNCHANGED <<flow, out, ses, used, topics, code, given, perm, worker, sender, admin, making, inbox, clock>>

\* /new, with its control snapshot.
NewSession(t) ==
    LET s == Active(t) IN
    /\ Serving /\ s # 0 /\ ses[s].writer = "telegram" /\ TopicIdle(t) /\ FreeSession # 0 /\ Step
    /\ ses' = [ses EXCEPT ![s].status = "archived",
                          ![FreeSession] = [NoSession EXCEPT !.topic = t, !.status = "active"]]
    /\ UNCHANGED <<flow, out, work, used, topics, code, given, perm, worker, sender, admin, making, inbox, clock>>

\* /local and /return of a session with a thread.
TakeLocal(t) ==
    LET s == Active(t) IN
    /\ Serving /\ s # 0 /\ ses[s].thread # None /\ ses[s].writer = "telegram" /\ Step
    /\ \A u \in topics : TopicIdle(u)
    /\ ses' = [ses EXCEPT ![s].writer = "local"]
    /\ UNCHANGED <<flow, out, work, used, topics, code, given, perm, worker, sender, admin, making, inbox, clock>>

ReturnLocal(m) ==
    LET s == Active(m[1]) IN
    /\ Serving /\ m \in inbox /\ s # 0 /\ ses[s].writer = "local" /\ Step
    /\ ses' = [ses EXCEPT ![s].writer = "telegram", ![s].act = IF ses[s].origin /\ @ = 0 THEN m[2] ELSE @]
    /\ inbox' = inbox \ {m}
    /\ UNCHANGED <<flow, out, work, used, topics, code, given, perm, worker, sender, admin, making, clock>>

\* attach-codex: preview, inspect the thread, attach.
AdminPreview(t, th) ==
    /\ admin.pc = "idle" /\ t \in topics /\ Fault
    /\ Verdict(t, th, Active(t)) = "ok"
    /\ admin' = [pc |-> "seen", topic |-> t, thread |-> th, expect |-> Active(t)]
    /\ UNCHANGED <<flow, out, data, worker, sender, making, inbox, clock>>

AdminAttach ==
    /\ admin.pc = "seen" /\ admin' = NoAdmin /\ Step
    /\ ses' = IF MayAttach(admin.topic, admin.thread, admin.expect, admin.expect) /\ FreeSession # 0
              THEN Attached(admin.topic, admin.thread, admin.expect, 0, "local") ELSE ses
    /\ UNCHANGED <<flow, out, work, used, topics, code, given, perm, worker, sender, making, inbox, clock>>

ChangePermissions ==
    /\ perm = 1 /\ perm' = 2 /\ Fault
    /\ UNCHANGED <<flow, out, ses, work, used, topics, code, given, worker, sender, admin, making, inbox, clock>>

CodeExpires(c) ==
    /\ code[c].live /\ code' = [code EXCEPT ![c].live = FALSE] /\ Fault
    /\ UNCHANGED <<flow, out, ses, work, used, topics, given, perm, worker, sender, admin, making, inbox, clock>>

-----------------------------------------------------------------------------
Owner ==
    \/ \E w \in Flows :
        \/ StartDirect(w) \/ SelectProject(w) \/ BeginTopicCreation(w) \/ RequestActivation(w)
        \/ Cancel(w) \/ OwnerSeesExpiry(w)
        \/ \E t \in Topics : StartTopic(w, t) \/ SelectDestination(w, t)
        \/ \E th \in Threads : SelectCandidate(w, th)
        \/ \E c \in Codes, t \in Topics \cup {None} : Redeem(w, c, t)
    \/ \E t \in Topics : Write(t) \/ NewSession(t) \/ TakeLocal(t)
    \/ \E m \in inbox : ReturnLocal(m)
Controller == (\E m \in inbox : Admit(m)) \/ (\E w \in Flows, t \in Topics \cup {None} : EndTopicCreation(w, t))
WorkerStep(x) == (\E w \in Flows \cup {0} : LeaseWorker(x, w)) \/ PrepareMarker(x) \/ FailWorker(x)
                 \/ \E found \in BOOLEAN : FinishDiscovery(x, found)
SenderStep == \/ \E r \in Ready : LeaseOutbox(r)
              \/ RefuseMarker \/ Send(TRUE) \/ CompleteMarker \/ MarkMarkerUnknown \/ Record
              \/ \E w \in Flows, k \in Kinds : RecoverStaleOutbox(w, k) \/ RetryIsDue(w, k)
Trouble ==
    \/ ControllerDies \/ SenderDies \/ ChangePermissions \/ SendFails \/ Send(FALSE)
    \/ \E x \in Workers : WorkerDies(x)
    \/ \E w \in Flows : Deadline(w) \/ LeaseLapses(w)
    \/ \E t \in Topics, th \in Threads : AdminPreview(t, th)
    \/ \E c \in Codes : CodeExpires(c)
Other == AdminAttach \/ \E s \in Sessions : WorkEnds(s)

Next == Owner \/ Controller \/ (\E x \in Workers : WorkerStep(x)) \/ SenderStep \/ Trouble \/ Other

Spec == Init /\ [][Next]_vars

\* The loops of the sender and of the metadata threads run, leases lapse when
\* nobody holds them, and a chat that refuses does so at once.
FairSpec ==
    /\ Spec /\ WF_vars(SenderStep \/ (SendFails /\ UNCHANGED faults))
    /\ \A x \in Workers : WF_vars(WorkerStep(x))
    /\ \A w \in Flows : WF_vars(LeaseLapses(w) /\ UNCHANGED faults)

-----------------------------------------------------------------------------
TypeOK ==
    /\ \A w \in Flows :
        /\ flow[w].stage \in Over \cup Searching \cup {"unused", "choosing_project", "choosing_source",
              "choosing_destination", "creating_topic", "topic_create_unknown", "confirming",
              "marker_ready", "marker_unknown"}
        /\ flow[w].dest \in Topics \cup {None} /\ flow[w].src \in Threads \cup {None}
        /\ flow[w].stage \in {"confirming", "activation_requested", "marker_ready", "completed"} =>
              flow[w].dest # None /\ flow[w].src # None
        /\ \A k \in Kinds : out[w][k].attempts <= MaxAttempts
    /\ \A t \in Topics : Cardinality({s \in Sessions : ses[s].topic = t /\ ses[s].status = "active"}) <= 1

\* A saved thread is bound to one session for ever, however workflows, codes
\* and the administrator compete for it.
ThreadBoundOnce == \A th \in Threads : Cardinality({s \in Sessions : ses[s].thread = th}) <= 1

\* No session is archived under its unfinished work: work admitted between the
\* owner's confirmation and the marker stops the attachment.
NoWorkOfArchived == \A s \in work : ses[s].status = "active"

\* A connected session is given only messages written after the boundary the
\* owner saw in the topic, although older ones may be admitted late.
InputAfterMarker == \A g \in given : ses[g[1]].marker # 0 /\ ses[g[1]].by # 0 => g[2] > ses[g[1]].marker

\* The marker is an irreversible visible effect: it is sent once at most,
\* whatever dies in between (ADR 0023).
MarkerSentOnce == \A w \in Flows : flow[w].markers <= 1

\* What the owner was told is final: a workflow that was cancelled, failed or
\* expired never connects afterwards, also when its marker is already on the
\* way, and a connected session keeps the workflow that connected it.
EndedChangesNothing ==
    /\ \A w \in Flows : flow[w].stage \in Over => flow'[w].stage = flow[w].stage
    /\ \A s \in Sessions : ses'[s].by # ses[s].by => flow[ses'[s].by].stage = "marker_ready"

\* A code is spent by exactly the workflow that connected with it, also when
\* it was claimed by others before.
CodeUsedOnce ==
    /\ \A c \in Codes : code[c].consumed => code[c].claim \in {w \in Flows : flow[w].stage = "completed"}
    /\ \A w \in Flows : flow[w].stage = "completed" /\ flow[w].code # None =>
            code[flow[w].code].consumed /\ code[flow[w].code].claim = w

\* "Expired worker requests receive one durable outbox notice" (ADR 0023).
ExpiryIsTold ==
    \A w \in Flows : flow[w].stage \in Searching /\ flow'[w].stage = "expired"
         => out'[w]["notice"].status = "prepared"

\* "Recover stale leases and fairly deliver at most one prepared row"
\* (run_cycle): a row for a chat that accepts messages is delivered.
PreparedIsDelivered ==
    \A w \in Flows : \A k \in {"menu", "notice", "result"} :
        out[w][k].status = "prepared" /\ Place(w, k) \notin Blocked ~> out[w][k].status # "prepared"
=============================================================================
