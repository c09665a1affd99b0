---------------------------- MODULE TurnActivity ----------------------------
(***************************************************************************)
(* What the hub observes of a running Codex turn, and what it tells the    *)
(* owner about it: a permission request that waits, and a turn that makes  *)
(* no progress.  Four parts interact:                                      *)
(*  - the app-server client (codex_appserver.py) sorts the messages of one *)
(*    connection; before turn/start is answered it passes permission       *)
(*    requests on at once and keeps every activity for later;              *)
(*  - worker_activity.py installs its callbacks around one turn and gives  *)
(*    up observing, never the turn, when one of them fails;                *)
(*  - preacceptance_approvals.py and task_activity.py store what was seen  *)
(*    before and after acceptance, in SQLite transactions;                 *)
(*  - the outbox sender evaluates quiet turns and sends the notices.       *)
(*                                                                         *)
(* One worker slot runs the jobs one after the other.  cur stands for the  *)
(* whole binding a row must still match (executing, lease alive, telegram  *)
(* writer, same profile, no covering stop); it is lost once and for all.   *)
(***************************************************************************)
EXTENDS Naturals, Sequences, FiniteSets

CONSTANTS Jobs,       \* jobs 1..n, run in this order by one slot
          Requests,   \* native permission request identities
          Foreign,    \* the requests that belong to another turn of the thread
          MaxBuffer,  \* MAX_PENDING_ACTIVITY (the code has 128)
          MaxEntries, \* MAX_ACTIVITY_ENTRIES (the code has 512)
          MaxEvents,  \* bound: messages the provider sends per turn
          MaxFaults   \* bound: crashes, lost bindings and failed clean-ups

ConstAssumption == /\ Jobs \subseteq Nat \ {0} /\ Requests \subseteq Nat \ {0}
                          /\ Foreign \subseteq Requests
                          /\ {MaxBuffer, MaxEntries, MaxEvents, MaxFaults} \subseteq Nat

VARIABLES job,     \* provider_jobs with the execution checkpoint
          scope,   \* preacceptance_scopes, one per job
          early,   \* preacceptance_requests
          act,     \* task_activity, one row per job
          entry,   \* task_activity_entries of kind approval and tool
          notice,  \* approval_wait and no_progress rows of task_lifecycle_notices
          epoch,   \* preacceptance_runtime_epochs of the slot
          cl,      \* the worker's callbacks and its client
          wire,    \* messages of the app-server not yet received
          asked,   \* the provider's own requests: "no", "open" or "answered"
          heard,   \* history: <<job, request>> whose answer the callbacks handled
          sentAt,  \* history: what the store knew when a notice first left
          faults

vars == <<job, scope, early, act, entry, notice, epoch, cl, wire, asked, heard, sentAt, faults>>

Tool == 0                                  \* the one tool item of a turn
Items == Requests \cup {Tool}
Keys == ({"approval"} \X Jobs \X Requests) \cup ({"quiet"} \X Jobs \X (0..MaxEvents))
NoAct == [bound |-> FALSE, mode |-> "ordinary", episode |-> 0, told |-> FALSE, quiet |-> FALSE]
NoClient == [pc |-> "off", job |-> 0, observing |-> FALSE, scoped |-> FALSE, promoted |-> FALSE,
             buffer |-> << >>, pending |-> {}, resolved |-> {}, sent |-> 0, epoch |-> 0]
Unsent == {"pending", "leased"}

Init ==
  /\ job = [j \in Jobs |-> [st |-> "leased", cur |-> TRUE, turn |-> FALSE]]
  /\ scope = [j \in Jobs |-> [st |-> "none", epoch |-> 0]]
  /\ early = [j \in Jobs |-> [r \in Requests |-> "none"]]
  /\ act = [j \in Jobs |-> NoAct]
  /\ entry = [j \in Jobs |-> [i \in Items |-> "none"]]
  /\ notice = [k \in Keys |-> "absent"]
  /\ epoch = 1
  /\ cl = [NoClient EXCEPT !.epoch = 1]
  /\ wire = << >>
  /\ asked = [r \in Requests |-> "no"]
  /\ heard = {} /\ sentAt = {} /\ faults = 0

Fault == faults < MaxFaults /\ faults' = faults + 1
Live(j) == job[j].st = "executing" /\ job[j].cur

-----------------------------------------------------------------------------
\* Stored rows and the transactions on them.

\* _supersede: only a notice that was never tried
Withdraw(ns, K) == [k \in Keys |-> IF k \in K /\ ns[k] \in Unsent THEN "superseded" ELSE ns[k]]
Prepare(ns, k) == IF ns[k] = "absent" THEN [ns EXCEPT ![k] = "pending"] ELSE ns

ApprovalKeys(j) == {k \in Keys : k[1] = "approval" /\ k[2] = j}
QuietKeys(j) == {k \in Keys : k[1] = "quiet" /\ k[2] = j}

\* the mode of a turn after its entries changed
IgnoresApprovals(es) == IF es[Tool] = "active" THEN "tool" ELSE "ordinary"
ModeOf(es) == IF \E r \in Requests : es[r] = "pending" THEN "approval"
              ELSE IF es[Tool] = "active" THEN "tool" ELSE "ordinary"

\* a meaningful observation opens a new episode
Meaningful(a, es) ==
  [a EXCEPT !.mode = ModeOf(es), !.episode = a.episode + 1, !.told = FALSE, !.quiet = FALSE]

Stored(j) == Cardinality({i \in Items : entry[j][i] # "none"})
             + Cardinality({r \in Requests : early[j][r] # "none"})

\* PreacceptanceApprovalState._retire, of the open scopes among S
RetireScopes(sc, ea, ns, S) ==
  LET T == {j \in S : sc[j].st = "open"}
  IN <<[j \in Jobs |-> IF j \in T THEN [sc[j] EXCEPT !.st = "retired"] ELSE sc[j]],
       [j \in Jobs |-> IF j \in T
                       THEN [r \in Requests |-> IF ea[j][r] = "none" THEN "none" ELSE "retired"]
                       ELSE ea[j]],
       Withdraw(ns, {k \in Keys : k[1] = "approval" /\ k[2] \in T /\ ea[k[2]][k[3]] # "none"})>>

KeepsEntries(ac, en, ns, j) ==
  IF ~ac[j].bound THEN <<ac, en, ns>>
  ELSE <<[ac EXCEPT ![j] = [NoAct EXCEPT !.episode = ac[j].episode]], en,
         Withdraw(ns, ApprovalKeys(j) \cup QuietKeys(j))>>

\* TaskActivityState.retire_observation
RetireActivity(ac, en, ns, j) ==
  IF ~ac[j].bound THEN <<ac, en, ns>>
  ELSE <<[ac EXCEPT ![j] = [NoAct EXCEPT !.episode = ac[j].episode]],
         [en EXCEPT ![j] = [i \in Items |-> "none"]],
         Withdraw(ns, ApprovalKeys(j) \cup QuietKeys(j))>>

\* retire_activity() and retire_scope(), each of which may fail and is survived
CleanUp(c, lostActivity, lostScope) ==
  LET j == c.job
      a == IF lostActivity \/ c.observing THEN <<act, entry, notice>>
           ELSE RetireActivity(act, entry, notice, j)
      s == IF lostScope \/ c.promoted \/ ~c.scoped THEN <<scope, early, a[3]>>
           ELSE RetireScopes(scope, early, a[3], {j})
  IN act' = a[1] /\ entry' = a[2] /\ scope' = s[1] /\ early' = s[2] /\ notice' = s[3]

SurvivedCleanUp(c) ==
  \/ CleanUp(c, FALSE, FALSE) /\ UNCHANGED faults
  \/ Fault /\ \E a, s \in BOOLEAN : (a \/ s) /\ CleanUp(c, a, s)

\* disable(): stop observing for the rest of the turn
GiveUp(c) ==
  LET d == [c EXCEPT !.observing = FALSE]
  IN cl' = d /\ SurvivedCleanUp(d)

-----------------------------------------------------------------------------
\* The worker opens a turn: mark the job executing, journal the thread, open
\* the scope, install the callbacks, send turn/start.

\* the open scopes of the slot that a new scope finds
OpenScopes == {j \in Jobs : scope[j].st = "open"}

\* open_scope keeps out of the way of a scope that is still bound to live work
OpenTurn(j) ==
  LET c == [NoClient EXCEPT !.pc = "starting", !.job = j, !.observing = TRUE, !.epoch = cl.epoch]
      t == RetireScopes(scope, early, notice, OpenScopes)
  IN /\ cl.pc = "off" /\ job[j].st = "leased" /\ \A i \in Jobs : i < j => job[i].st = "ended"
     /\ job' = [job EXCEPT ![j].st = "executing"]
     /\ wire' = << >> /\ asked' = [r \in Requests |-> "no"]
     /\ \/ /\ \A o \in OpenScopes : ~Live(o)
           /\ cl.epoch = epoch
           /\ scope' = [t[1] EXCEPT ![j] = [st |-> "open", epoch |-> epoch]]
           /\ early' = t[2] /\ notice' = t[3]
           /\ cl' = [c EXCEPT !.scoped = TRUE]
           /\ UNCHANGED faults
        \/ /\ \E o \in OpenScopes : Live(o)
           /\ cl' = c
           /\ UNCHANGED <<scope, early, notice, faults>>
        \/ /\ Fault                        \* open_scope raises: observe nothing
           /\ cl' = [c EXCEPT !.observing = FALSE]
           /\ UNCHANGED <<scope, early, notice>>
     /\ UNCHANGED <<act, entry, epoch, heard, sentAt>>

-----------------------------------------------------------------------------
\* The provider.  It may ask before it answers turn/start.

Say(e) == cl.sent < MaxEvents /\ wire' = Append(wire, e) /\ cl' = [cl EXCEPT !.sent = @ + 1]

ProviderAsks(r) ==
  /\ cl.pc \in {"starting", "recorded", "waiting"} /\ asked[r] = "no"
  /\ Say([k |-> "ask", i |-> r]) /\ asked' = [asked EXCEPT ![r] = "open"]
  /\ UNCHANGED <<job, scope, early, act, entry, notice, epoch, heard, sentAt, faults>>

ProviderResolves(r) ==
  /\ asked[r] = "open" /\ cl.pc \in {"starting", "recorded", "waiting"}
  /\ Say([k |-> "answer", i |-> r]) /\ asked' = [asked EXCEPT ![r] = "answered"]
  /\ UNCHANGED <<job, scope, early, act, entry, notice, epoch, heard, sentAt, faults>>

ProviderWorks ==
  /\ cl.pc \in {"starting", "recorded", "waiting"}
  /\ \E k \in {"tool", "tooldone"} : Say([k |-> k, i |-> Tool])
  /\ UNCHANGED <<job, scope, early, act, entry, notice, epoch, asked, heard, sentAt, faults>>

ProviderAccepts ==
  /\ cl.pc = "starting" /\ ~\E n \in DOMAIN wire : wire[n].k = "accept"
  /\ wire' = Append(wire, [k |-> "accept", i |-> Tool])
  /\ UNCHANGED <<job, scope, early, act, entry, notice, epoch, cl, asked, heard, sentAt, faults>>

-----------------------------------------------------------------------------
\* The client receives the next message.

\* CodexActivityRequests: a request is reported once, a resolution only of a
\* known request
Tracked(c, e) ==
  CASE e.k = "ask" -> [c EXCEPT !.pending = @ \cup {e.i}]
    [] e.k = "answer" -> [c EXCEPT !.pending = @ \ {e.i}, !.resolved = @ \cup {e.i}]
    [] OTHER -> c
Reported(c, e) ==
  CASE e.k = "ask" -> e.i \notin c.pending \cup c.resolved
    [] e.k = "answer" -> e.i \in c.pending
    [] OTHER -> TRUE

StoresSilently(ea, ns, j, e) ==
  CASE e.k = "answer" /\ ea[j][e.i] = "pending" ->
         <<[ea EXCEPT ![j][e.i] = "resolved"], Withdraw(ns, {<<"approval", j, e.i>>})>>
    [] e.k = "ask" /\ ea[j][e.i] = "none" /\ Stored(j) < MaxEntries ->
         <<[ea EXCEPT ![j][e.i] = "pending"], ns>>
    [] OTHER -> <<ea, ns>>

\* PreacceptanceApprovalState.observe, after its binding was checked
ObserveEarly(ea, ns, j, e) ==
  CASE e.k = "answer" /\ ea[j][e.i] = "pending" ->
         <<[ea EXCEPT ![j][e.i] = "resolved"], Withdraw(ns, {<<"approval", j, e.i>>})>>
    [] e.k = "ask" /\ ea[j][e.i] = "none" /\ Stored(j) < MaxEntries ->
         <<[ea EXCEPT ![j][e.i] = "pending"], Prepare(ns, <<"approval", j, e.i>>)>>
    [] OTHER -> <<ea, ns>>

\* a message that arrives while turn/start is unanswered
ReceiveEarly ==
  LET e == Head(wire)
      c == Tracked(cl, e)
      j == cl.job
      o == ObserveEarly(early, notice, j, e)
      t == RetireScopes(scope, early, notice, {j})
      kept == [c EXCEPT !.buffer = Append(@, e)]
  IN /\ cl.pc = "starting" /\ wire # << >> /\ e.k # "accept"
     /\ wire' = Tail(wire)
     /\ IF ~cl.observing \/ ~Reported(cl, e)
        THEN cl' = cl /\ UNCHANGED <<scope, early, act, entry, notice, heard, faults>>
        ELSE IF Len(cl.buffer) >= MaxBuffer
        THEN GiveUp([c EXCEPT !.buffer = << >>]) /\ UNCHANGED heard
        ELSE /\ cl' = kept
             /\ heard' = IF e.k = "answer" /\ cl.scoped /\ scope[j].st = "open" /\ Live(j)
                         THEN heard \cup {<<j, e.i>>} ELSE heard
             /\ IF e.k \notin {"ask", "answer"} \/ ~cl.scoped \/ scope[j].st # "open"
                THEN UNCHANGED <<scope, early, notice>>
                ELSE IF Live(j) /\ scope[j].epoch = epoch
                THEN early' = o[1] /\ notice' = o[2] /\ UNCHANGED scope
                ELSE scope' = t[1] /\ early' = t[2] /\ notice' = t[3]
             /\ UNCHANGED <<act, entry, faults>>
     /\ UNCHANGED <<job, epoch, asked, sentAt>>

\* the answer to turn/start, and journal.record_turn
ReceiveAccepted ==
  /\ cl.pc = "starting" /\ wire # << >> /\ Head(wire).k = "accept"
  /\ wire' = Tail(wire)
  /\ cl' = [cl EXCEPT !.pc = "recorded"]
  /\ job' = [job EXCEPT ![cl.job].turn = TRUE]
  /\ UNCHANGED <<scope, early, act, entry, notice, epoch, asked, heard, sentAt, faults>>

\* accepted(): bind the turn and promote the early requests in one transaction
DropsPending(es, j) == es
Promote(es, j) == [i \in Items |->
  IF i \in Requests \ Foreign /\ early[j][i] \in {"pending", "resolved"} THEN early[j][i] ELSE es[i]]

Imported(j) == {r \in Requests \ Foreign : early[j][r] \in {"pending", "resolved"}}

Accepted ==
  LET j == cl.job
      es == Promote(entry[j], j)
      promote == cl.scoped /\ scope[j].st = "open" /\ scope[j].epoch = epoch
      bound == [act[j] EXCEPT !.bound = TRUE, !.quiet = FALSE]
  IN /\ cl.pc = "recorded"
     /\ \/ /\ ~cl.observing
           /\ cl' = [cl EXCEPT !.pc = "waiting"]
           /\ UNCHANGED <<scope, early, act, entry, notice, faults>>
        \/ /\ cl.observing /\ ~Live(j)     \* bind_accepted raises
           /\ GiveUp([cl EXCEPT !.pc = "waiting"])
        \/ /\ cl.observing /\ Live(j)
           /\ cl' = [cl EXCEPT !.pc = "waiting", !.promoted = promote]
           /\ IF promote
              THEN /\ entry' = [entry EXCEPT ![j] = es]
                   /\ act' = [act EXCEPT ![j] =
                        [bound EXCEPT !.mode = ModeOf(es),
                                      !.episode = @ + Cardinality(Imported(j))]]
                   /\ scope' = [scope EXCEPT ![j].st = "promoted"]
                   /\ early' = [early EXCEPT ![j] =
                        [r \in Requests |-> IF r \in Foreign /\ @[r] # "none" THEN "retired" ELSE @[r]]]
                   /\ notice' = Withdraw(notice, {k \in ApprovalKeys(j) : k[3] \in Foreign})
              ELSE act' = [act EXCEPT ![j] = bound] /\ UNCHANGED <<entry, scope, early, notice>>
           /\ UNCHANGED faults
     /\ UNCHANGED <<job, epoch, wire, asked, heard, sentAt>>

IgnoresAnswers(s, k) ==
  CASE k = "ask" /\ s = "none" -> "pending"
    [] k = "tool" /\ s = "none" -> "active"
    [] k = "tooldone" /\ s \in {"none", "active"} -> "completed"
    [] OTHER -> "same"

\* what one event makes of the entry it names; "same" when it says nothing new
EntryAfter(s, k) ==
  CASE k = "ask" /\ s = "none" -> "pending"
    [] k = "answer" /\ s = "pending" -> "resolved"
    [] k = "tool" /\ s = "none" -> "active"
    [] k = "tooldone" /\ s \in {"none", "active"} -> "completed"
    [] OTHER -> "same"

\* record_activity_in_transaction
Record(e, c) ==
  LET j == cl.job
      s == EntryAfter(entry[j][e.i], e.k)
      es == [entry[j] EXCEPT ![e.i] = s]
      calm == Withdraw(notice, QuietKeys(j))
  IN IF ~cl.observing THEN cl' = c /\ UNCHANGED <<scope, early, act, entry, notice, heard, faults>>
     ELSE IF ~(Live(j) /\ act[j].bound) THEN GiveUp(c) /\ UNCHANGED heard
     ELSE /\ cl' = c
          /\ heard' = IF e.k = "answer" THEN heard \cup {<<j, e.i>>} ELSE heard
          /\ IF s = "same" \/ (entry[j][e.i] = "none" /\ Stored(j) >= MaxEntries)
             THEN UNCHANGED <<act, entry, notice>>
             ELSE /\ entry' = [entry EXCEPT ![j] = es]
                  /\ act' = [act EXCEPT ![j] = Meaningful(@, es)]
                  /\ notice' = CASE e.k = "answer" -> Withdraw(calm, {<<"approval", j, e.i>>})
                                 [] e.k = "ask" -> Prepare(calm, <<"approval", j, e.i>>)
                                 [] OTHER -> calm
          /\ UNCHANGED <<scope, early, faults>>

\* _wait_for_turn first replays what was kept; an event of another turn is dropped
Replay ==
  /\ cl.pc = "waiting" /\ cl.buffer # << >>
  /\ LET e == Head(cl.buffer)
         c == [cl EXCEPT !.buffer = Tail(@)]
     IN IF e.i \in Foreign THEN cl' = c /\ UNCHANGED <<scope, early, act, entry, notice, heard, faults>>
        ELSE Record(e, c)
  /\ UNCHANGED <<job, epoch, wire, asked, sentAt>>

Receive ==
  /\ cl.pc = "waiting" /\ cl.buffer = << >> /\ wire # << >>
  /\ wire' = Tail(wire)
  /\ LET e == Head(wire)
     IN IF e.i \in Foreign \/ ~Reported(cl, e)
        THEN UNCHANGED <<cl, scope, early, act, entry, notice, heard, faults>>
        ELSE Record(e, Tracked(cl, e))
  /\ UNCHANGED <<job, epoch, asked, sentAt>>

\* the turn ends, well or badly; the callbacks are cleared on every exit
EndTurn ==
  LET j == cl.job
  IN /\ cl.pc \in {"starting", "recorded", "waiting"}
     /\ job' = [job EXCEPT ![j].st = "ended"]
     /\ SurvivedCleanUp(cl)
     /\ cl' = [NoClient EXCEPT !.epoch = cl.epoch]
     /\ wire' = << >>
     /\ UNCHANGED <<epoch, asked, heard, sentAt>>

\* the binding is lost: a stop, a new writer, another profile, a lapsed lease
LoseBinding(j) ==
  /\ Live(j) /\ Fault
  /\ job' = [job EXCEPT ![j].cur = FALSE]
  /\ UNCHANGED <<scope, early, act, entry, notice, epoch, cl, wire, asked, heard, sentAt>>

\* the process dies; its successor registers the next epoch and retires scopes
KeepsOpenScopes == <<scope, early, notice>>
RegisterRuntime == RetireScopes(scope, early, notice, OpenScopes)

Crash ==
  /\ Fault
  /\ LET t == RegisterRuntime IN scope' = t[1] /\ early' = t[2] /\ notice' = t[3]
  /\ epoch' = epoch + 1
  /\ job' = IF cl.job = 0 THEN job ELSE [job EXCEPT ![cl.job].st = "ended"]   \* recovered as indeterminate
  /\ cl' = [NoClient EXCEPT !.epoch = epoch + 1]
  /\ wire' = << >>
  /\ UNCHANGED <<act, entry, asked, heard, sentAt>>

-----------------------------------------------------------------------------
\* The outbox sender.

\* the no-progress threshold passes without a meaningful observation
GrowQuiet(j) ==
  /\ act[j].bound /\ ~act[j].quiet
  /\ act' = [act EXCEPT ![j].quiet = TRUE]
  /\ UNCHANGED <<job, scope, early, entry, notice, epoch, cl, wire, asked, heard, sentAt, faults>>

\* TaskActivityState.evaluate_in_transaction
Evaluate(j) ==
  /\ Live(j) /\ act[j].bound /\ act[j].quiet /\ act[j].mode # "approval" /\ ~act[j].told
  /\ notice' = Prepare(notice, <<"quiet", j, act[j].episode>>)
  /\ act' = [act EXCEPT ![j].told = TRUE]
  /\ UNCHANGED <<job, scope, early, entry, epoch, cl, wire, asked, heard, sentAt, faults>>

Lease(k) ==
  /\ notice[k] = "pending"
  /\ notice' = [notice EXCEPT ![k] = "leased"]
  /\ UNCHANGED <<job, scope, early, act, entry, epoch, cl, wire, asked, heard, sentAt, faults>>

\* activity_notice_is_current and preacceptance_notice_is_current
ActivityCurrent(k) ==
  LET j == k[2]
  IN /\ Live(j) /\ act[j].bound
     /\ IF k[1] = "quiet" THEN act[j].mode # "approval" /\ act[j].told /\ k[3] = act[j].episode
        ELSE act[j].mode = "approval" /\ entry[j][k[3]] = "pending"

NoticeCurrent(k) ==
  LET j == k[2]
  IN IF k[1] = "approval" /\ early[j][k[3]] # "none"
     THEN /\ scope[j].st # "retired" /\ early[j][k[3]] = "pending" /\ Live(j)
          /\ IF scope[j].st = "open" THEN scope[j].epoch = epoch /\ (job[j].turn => k[3] \notin Foreign)
             ELSE k[3] \notin Foreign /\ ActivityCurrent(k)
     ELSE ActivityCurrent(k)

\* begin_send: the first request for this notice leaves, or it is withdrawn
Begin(k) ==
  /\ notice[k] = "leased"
  /\ IF NoticeCurrent(k)
     THEN /\ notice' = [notice EXCEPT ![k] = "sent"]
          /\ sentAt' = sentAt \cup {k}
     ELSE notice' = [notice EXCEPT ![k] = "superseded"] /\ UNCHANGED sentAt
  /\ UNCHANGED <<job, scope, early, act, entry, epoch, cl, wire, asked, heard, faults>>

ProviderStep == \/ \E r \in Requests : ProviderAsks(r) \/ ProviderResolves(r)
                \/ ProviderWorks \/ ProviderAccepts
WorkerStep == \/ \E j \in Jobs : OpenTurn(j)
              \/ ReceiveEarly \/ ReceiveAccepted \/ Accepted \/ Replay \/ Receive \/ EndTurn
SenderStep == \/ \E j \in Jobs : Evaluate(j)
              \/ \E k \in Keys : Lease(k) \/ Begin(k)

Next == ProviderStep \/ WorkerStep \/ SenderStep \/ Crash
        \/ \E j \in Jobs : LoseBinding(j) \/ GrowQuiet(j)

Spec == Init /\ [][Next]_vars

-----------------------------------------------------------------------------
\* Properties.

(* The stored rows are well formed; the slot has at most one open scope.    *)
TypeOK ==
  /\ notice \in [Keys -> {"absent", "pending", "leased", "sent", "superseded"}]
  /\ \A j \in Jobs : /\ scope[j].st \in {"none", "open", "promoted", "retired"}
                     /\ \A r \in Requests : early[j][r] \in {"none", "pending", "resolved", "retired"}
                     /\ \A i \in Items : entry[j][i] # "none" => act[j].bound
                     /\ act[j].mode \in {"ordinary", "tool", "approval"}
  /\ Cardinality(OpenScopes) <= 1

(* An open scope belongs to the process that now owns the slot: a successor *)
(* retires what its predecessor left open before it observes anything.      *)
OpenScopeIsCurrent == \A j \in Jobs : scope[j].st = "open" => scope[j].epoch = epoch

(* A permission request that the hub knows to be answered is never          *)
(* announced afterwards, whether it was seen before acceptance, promoted,   *)
(* replayed from the buffer or observed live.                               *)
AnsweredIsNotAnnounced ==
    \A k \in sentAt' \ sentAt : k[1] = "approval" => <<k[2], k[3]>> \notin heard

(* Nothing waits unseen: while a live turn is observed and the client has   *)
(* worked off its buffer, every open request it has read is stored as       *)
(* pending with a notice that was not withdrawn, however acceptance and     *)
(* the request crossed.                                                     *)
WaitingIsKnown ==
  LET j == cl.job
  IN (cl.pc = "waiting" /\ cl.observing /\ cl.buffer = << >> /\ Live(j)) =>
       \A r \in cl.pending \ Foreign :
         /\ entry[j][r] = "pending"
         /\ notice[<<"approval", j, r>>] \in {"pending", "leased", "sent"}

=============================================================================
