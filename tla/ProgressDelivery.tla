-------------------------- MODULE ProgressDelivery --------------------------
(***************************************************************************)
(* Delivery of a running job's visible commentary.                         *)
(*                                                                         *)
(* The journal of an executing job stores each completed commentary item   *)
(* and, when the last row is old enough, a progress row with it.  The      *)
(* sender's cycle recovers lapsed leases, settles recorded receipts,       *)
(* supersedes what belongs to finished jobs, delivers a final result if    *)
(* there is one, and only then leases a progress row and sends it behind   *)
(* the same fence as a result: the attempt is committed before the         *)
(* request, and a row whose request may have left is never sent again.     *)
(*                                                                         *)
(* Items[i] is the job of item i.  Restarted senders overlap as Senders;   *)
(* lease expiry, availability and the enqueue interval are events.         *)
(***************************************************************************)
EXTENDS Naturals, Sequences, FiniteSets

CONSTANTS Senders,      \* sender processes
          Jobs,         \* jobs whose commentary is delivered
          Items,        \* job of each commentary item, a sequence
          MaxAttempts,  \* MAX_PROGRESS_ATTEMPTS (20 in the code)
          MaxFaults     \* dead senders, failed commits, stop requests

Bounds == /\ Items \in Seq(Jobs)
                 /\ MaxAttempts \in Nat \ {0}
                 /\ MaxFaults \in Nat

Rows == 1 .. Len(Items)

VARIABLES job,      \* provider_jobs.status: executing, result_ready, completed
          told,     \* the final result is in the chat
          row,      \* provider_progress_deliveries
          recent,   \* jobs with a row younger than the enqueue interval
          attempts, \* telegram_send_attempts of a row, oldest first
          receipts, \* telegram_send_receipts: attempts with a message id
          disposed, \* rows the owner has consented to leave unconfirmed
          sender,   \* a sender's step, row and token
          chat,     \* times the row's text was accepted by Telegram
          faults

vars == <<job, told, row, recent, attempts, receipts, disposed, sender, chat, faults>>
proofVars == <<attempts, receipts, disposed>>
jobVars == <<job, told, recent>>

NoRow == [st |-> "none", att |-> 0, tok |-> 0, live |-> FALSE, due |-> FALSE, started |-> 0]
Resting == [ph |-> "idle", row |-> 0, tok |-> 0]

Init ==
  /\ job = [j \in Jobs |-> "executing"] /\ told = {}
  /\ row = [i \in Rows |-> NoRow]
  /\ recent = {}
  /\ attempts = [i \in Rows |-> << >>] /\ receipts = {} /\ disposed = {}
  /\ sender = [s \in Senders |-> Resting]
  /\ chat = [i \in Rows |-> 0]
  /\ faults = 0

Elements(q) == {q[n] : n \in DOMAIN q}
\* A token no row, sender or attempt has (a new UUID).
Tokens == 1 .. Len(Items) * (MaxAttempts + 1) + Cardinality(Senders) + 1
Held == {row[i].tok : i \in Rows} \cup {sender[s].tok : s \in Senders}
          \cup UNION {Elements(attempts[i]) : i \in Rows}
Fresh == CHOOSE t \in Tokens : t \notin Held /\ \A u \in Tokens \ Held : t <= u

\* The row is sent under the sender's own token.
Owns(s, i) == row[i].st = "sending" /\ row[i].tok = sender[s].tok

Unleased(i, st) == [row[i] EXCEPT !.st = st, !.tok = 0, !.live = FALSE]

----------------------------------------------------------------------------
\* The journal and the environment.

\* record_item: item i of its executing job; the interval drops the row.
Enqueue(i) ==
  LET j == Items[i]
  IN /\ job[j] = "executing" /\ row[i].st = "none"
     /\ \A k \in 1 .. i - 1 : Items[k] = j => row[k].st # "none"
     /\ IF j \in recent
        THEN row' = [row EXCEPT ![i].st = "dropped"] /\ UNCHANGED recent
        ELSE /\ row' = [row EXCEPT ![i] = [NoRow EXCEPT !.st = "pending", !.due = TRUE]]
             /\ recent' = recent \cup {j}
  /\ UNCHANGED <<job, told, proofVars, sender, chat, faults>>

IntervalPasses(j) ==
  /\ j \in recent /\ recent' = recent \ {j}
  /\ UNCHANGED <<job, told, row, proofVars, sender, chat, faults>>

JobEnds(j) ==
  /\ job[j] = "executing"
  /\ job' = [job EXCEPT ![j] = "result_ready"]
  /\ UNCHANGED <<told, recent, row, proofVars, sender, chat, faults>>

LeaseExpires(i) ==
  /\ row[i].st = "sending" /\ row[i].live
  /\ row' = [row EXCEPT ![i].live = FALSE]
  /\ UNCHANGED <<jobVars, proofVars, sender, chat, faults>>

BecomesDue(i) ==
  /\ row[i].st = "pending" /\ ~row[i].due
  /\ row' = [row EXCEPT ![i].due = TRUE]
  /\ UNCHANGED <<jobVars, proofVars, sender, chat, faults>>

\* The owner's consent to an unconfirmed or exhausted delivery.
Dispose(i) ==
  /\ row[i].st \in {"unknown", "failed"} /\ i \notin disposed
  /\ disposed' = disposed \cup {i}
  /\ UNCHANGED <<jobVars, row, attempts, receipts, sender, chat, faults>>

----------------------------------------------------------------------------
\* The sender's maintenance: lapsed leases, receipts, finished jobs.

Move(s, ph) == sender' = [sender EXCEPT ![s].ph = ph]

Recovered_paid(i) ==
  IF row[i].started = 0 THEN Unleased(i, "pending") ELSE Unleased(i, "unknown")
Recovered(i) ==
  IF row[i].started = 0
  THEN [Unleased(i, "pending") EXCEPT !.att = IF @ > 0 THEN @ - 1 ELSE 0]
  ELSE Unleased(i, "unknown")

RecoverStale(s) ==
  /\ sender[s].ph = "idle"
  /\ row' = [i \in Rows |-> IF row[i].st = "sending" /\ ~row[i].live THEN Recovered(i) ELSE row[i]]
  /\ Move(s, "settle")
  /\ UNCHANGED <<jobVars, proofVars, chat, faults>>

\* settle: only the newest attempt of an undisposed row that still stands on
\* that attempt turns its receipt into a delivery.
CanSettle_any(i, t) ==
  /\ t \in receipts /\ t \in Elements(attempts[i])
  /\ row[i].st \in {"sending", "unknown"} /\ row[i].started = t
CanSettle(i, t) ==
  /\ t \in receipts
  /\ attempts[i] # << >> /\ attempts[i][Len(attempts[i])] = t
  /\ i \notin disposed
  /\ row[i].st \in {"sending", "unknown"} /\ row[i].started = t
  /\ row[i].st = "sending" => row[i].tok = t
Settled(i) == [row EXCEPT ![i] = Unleased(i, "delivered")]

Pending == {i \in Rows : \E t \in receipts : CanSettle(i, t)}
SettlePending(s, i) ==
  /\ sender[s].ph = "settle" /\ i \in Pending
  /\ row' = Settled(i)
  /\ UNCHANGED <<jobVars, proofVars, sender, chat, faults>>
SettledAll(s) ==
  /\ sender[s].ph = "settle" /\ Pending = {}
  /\ Move(s, "supersede")
  /\ UNCHANGED <<jobVars, row, proofVars, chat, faults>>

\* The job whose commentary this is still runs.
Current_always(i) == TRUE
Current(i) == job[Items[i]] = "executing"

Supersede_late(s) ==
  /\ sender[s].ph = "supersede"
  /\ Move(s, "deliver")
  /\ UNCHANGED <<jobVars, row, proofVars, chat, faults>>
Supersede(s) ==
  /\ sender[s].ph = "supersede"
  /\ row' = [i \in Rows |-> IF row[i].st = "pending" /\ ~Current(i)
                            THEN Unleased(i, "superseded") ELSE row[i]]
  /\ Move(s, "deliver")
  /\ UNCHANGED <<jobVars, proofVars, chat, faults>>

----------------------------------------------------------------------------
\* One delivery a cycle: a final result first, else the oldest progress row.

DeliverFinal(s, j) ==
  /\ sender[s].ph = "deliver" /\ job[j] = "result_ready"
  /\ job' = [job EXCEPT ![j] = "completed"] /\ told' = told \cup {j}
  /\ Move(s, "idle")
  /\ UNCHANGED <<recent, row, proofVars, chat, faults>>

NoFinal(s) ==
  /\ sender[s].ph = "deliver" /\ \A j \in Jobs : job[j] # "result_ready"
  /\ Move(s, "progress")
  /\ UNCHANGED <<jobVars, row, proofVars, chat, faults>>

Leasable(i) == /\ row[i].st = "pending" /\ row[i].due /\ row[i].att < MaxAttempts
               /\ Current(i)
LeaseProgress(s) ==
  /\ sender[s].ph = "progress"
  /\ LET ready == {i \in Rows : Leasable(i)}
     IN IF ready = {}
        THEN Move(s, "idle") /\ UNCHANGED row
        ELSE \E i \in ready :
               /\ \A k \in ready : i <= k
               /\ row' = [row EXCEPT ![i] = [@ EXCEPT !.st = "sending", !.att = @ + 1,
                             !.tok = Fresh, !.live = TRUE, !.started = 0]]
               /\ sender' = [sender EXCEPT ![s] = [ph |-> "leased", row |-> i, tok |-> Fresh]]
  /\ UNCHANGED <<jobVars, proofVars, chat, faults>>

\* A stopping sender gives an unsent row back; the row must still be its own.
ReleaseProgress(s) ==
  LET i == sender[s].row
  IN /\ sender[s].ph = "leased" /\ faults < MaxFaults /\ faults' = faults + 1
     /\ row' = IF Owns(s, i) /\ row[i].started = 0
               THEN [row EXCEPT ![i] = [Unleased(i, "pending") EXCEPT !.att = @ - 1]] ELSE row
     /\ sender' = [sender EXCEPT ![s] = Resting]
     /\ UNCHANGED <<jobVars, proofVars, chat>>

\* begin_progress_send: the fence and the attempt, before the request leaves.
MayBegin_any(s, i) == row[i].st = "sending" /\ row[i].live
MayBegin(s, i) == Owns(s, i) /\ row[i].live /\ row[i].started = 0
BeginSend(s) ==
  LET i == sender[s].row
  IN /\ sender[s].ph = "leased"
     /\ IF MayBegin(s, i)
        THEN /\ row' = [row EXCEPT ![i].started = sender[s].tok]
             /\ attempts' = [attempts EXCEPT ![i] = Append(@, sender[s].tok)]
             /\ Move(s, "begun")
        ELSE sender' = [sender EXCEPT ![s] = Resting] /\ UNCHANGED <<row, attempts>>
     /\ UNCHANGED <<jobVars, receipts, disposed, chat, faults>>

\* Telegram answers, rejects before anything is shown, or leaves it unknown.
Accepted(s) ==
  /\ sender[s].ph = "begun"
  /\ chat' = [chat EXCEPT ![sender[s].row] = @ + 1]
  /\ Move(s, "answered")
  /\ UNCHANGED <<jobVars, row, proofVars, faults>>

\* retry_progress: a proven rejection waits for its delay or, at the limit,
\* fails; a lapsed lease makes it raise and leave the row to the recovery.
Retried_leased(i) ==
  [row[i] EXCEPT !.st = IF row[i].att >= MaxAttempts THEN "failed" ELSE "pending",
                 !.due = FALSE, !.started = 0]
Retried(i) ==
  [Unleased(i, IF row[i].att >= MaxAttempts THEN "failed" ELSE "pending")
     EXCEPT !.due = FALSE, !.started = 0]
Rejected(s) ==
  LET i == sender[s].row
  IN /\ sender[s].ph = "begun"
     /\ row' = IF Owns(s, i) /\ row[i].live THEN [row EXCEPT ![i] = Retried(i)] ELSE row
     /\ sender' = [sender EXCEPT ![s] = Resting]
     /\ UNCHANGED <<jobVars, proofVars, chat, faults>>

\* mark_progress_unknown: only for the attempt still in the row.
Unknown_pending(s, i) ==
  IF Owns(s, i) /\ row[i].started # 0 THEN [row EXCEPT ![i] = Retried(i)] ELSE row
Unknown(s, i) ==
  IF Owns(s, i) /\ row[i].started # 0 THEN [row EXCEPT ![i] = Unleased(i, "unknown")] ELSE row
NoReply(s) ==
  LET i == sender[s].row
  IN /\ sender[s].ph = "begun"
     /\ chat' \in {chat, [chat EXCEPT ![i] = @ + 1]}
     /\ row' = Unknown(s, i)
     /\ sender' = [sender EXCEPT ![s] = Resting]
     /\ UNCHANGED <<jobVars, proofVars, faults>>

\* mark_progress_delivered: the receipt, then in its own transaction the row.
RecordReceipt(s) ==
  /\ sender[s].ph = "answered"
  /\ receipts' = receipts \cup {sender[s].tok}
  /\ Move(s, "recorded")
  /\ UNCHANGED <<jobVars, row, attempts, disposed, chat, faults>>
SettleOwn(s) ==
  LET i == sender[s].row
  IN /\ sender[s].ph = "recorded"
     /\ row' = IF CanSettle(i, sender[s].tok) THEN Settled(i) ELSE row
     /\ sender' = [sender EXCEPT ![s] = Resting]
     /\ UNCHANGED <<jobVars, proofVars, chat, faults>>
\* Three failed commits: the row is unknown, whether or not the receipt is in.
ReceiptFails(s) ==
  /\ sender[s].ph \in {"answered", "recorded"}
  /\ faults < MaxFaults /\ faults' = faults + 1
  /\ row' = Unknown(s, sender[s].row)
  /\ sender' = [sender EXCEPT ![s] = Resting]
  /\ UNCHANGED <<jobVars, proofVars, chat>>

\* A sender dies; a request it had begun may have been shown.
Die(s) ==
  /\ sender[s].ph \in {"leased", "begun", "answered", "recorded"}
  /\ faults < MaxFaults /\ faults' = faults + 1
  /\ chat' \in IF sender[s].ph = "begun"
               THEN {chat, [chat EXCEPT ![sender[s].row] = @ + 1]} ELSE {chat}
  /\ sender' = [sender EXCEPT ![s] = Resting]
  /\ UNCHANGED <<jobVars, row, proofVars>>

----------------------------------------------------------------------------
Cycle(s) == \/ RecoverStale(s) \/ SettledAll(s) \/ Supersede(s) \/ NoFinal(s)
            \/ LeaseProgress(s) \/ BeginSend(s) \/ RecordReceipt(s) \/ SettleOwn(s)
            \/ \E i \in Rows : SettlePending(s, i)
            \/ \E j \in Jobs : DeliverFinal(s, j)
Answer(s) == Accepted(s) \/ Rejected(s) \/ NoReply(s)
Fault(s) == ReleaseProgress(s) \/ ReceiptFails(s) \/ Die(s)

Next == \/ \E s \in Senders : Cycle(s) \/ Answer(s) \/ Fault(s)
        \/ \E i \in Rows : Enqueue(i) \/ LeaseExpires(i) \/ BecomesDue(i) \/ Dispose(i)
        \/ \E j \in Jobs : IntervalPasses(j) \/ JobEnds(j)

Spec == Init /\ [][Next]_vars

----------------------------------------------------------------------------
TypeOK ==
  \A i \in Rows :
    /\ row[i].st \in {"none", "dropped", "pending", "sending", "delivered", "superseded",
                      "failed", "unknown"}
    /\ row[i].att \in 0 .. MaxAttempts
    /\ row[i].tok \in {0} \cup Tokens /\ row[i].started \in {0} \cup Tokens
    /\ row[i].st = "sending" <=> row[i].tok # 0

\* A commentary item is shown at most once, however its senders lapse, die,
\* lose replies or fail to commit the receipt.
PostedOnce == \A i \in Rows : chat[i] <= 1

\* A row marked delivered was shown; a row that was shown is never treated as
\* unsent: it is on its way, delivered, or unknown until its receipt is in.
ShownIsKnown ==
  \A i \in Rows : /\ row[i].st = "delivered" => chat[i] = 1
                  /\ chat[i] = 1 => row[i].st \in {"sending", "delivered", "unknown"}

\* A row that waits can be leased: recovered and returned leases give their
\* attempt back, so no crash consumes a row's last attempt.
PendingHasAttempts == \A i \in Rows : row[i].st = "pending" => row[i].att < MaxAttempts

\* With one sender, commentary never follows the final result of its job.
FinalIsLast ==
    \A i \in Rows : chat'[i] > chat[i] => Items[i] \notin told

\* The owner's consent pins the row: no late receipt changes it afterwards.
DisposedIsPinned ==
    \A i \in disposed : row'[i] = row[i]

=============================================================================
