-------------------------------- MODULE Outbox --------------------------------
(***************************************************************************)
(* The delivery of final messages to Telegram: the telegram_outbox rows    *)
(* that publish a job's result or a notice about it, the senders that      *)
(* lease a row and send its next part, the fence and the receipts around   *)
(* the send, stale-lease and receipt recovery, the owner's dispositions of *)
(* deliveries nobody can confirm, and the replacement of a notice by what  *)
(* a later observation of the turn found.                                  *)
(*                                                                         *)
(* Every database operation is one SQLite transaction and one step.        *)
(* Telegram is external: a send is accepted, refused, or neither is known. *)
(* Job identifiers are in topic_sequence order.  An operation that samples *)
(* its clock before it waits for the write lock can pass its expiry test   *)
(* after the lease ran out, so no operation has a guard on exp; the delay  *)
(* of available_at is not modelled: a pending row may be leased at once.   *)
(***************************************************************************)
EXTENDS Naturals, Sequences

CONSTANTS
    MaxJobs,        \* bound on the jobs with a row
    MaxParts,       \* bound on the parts of a message
    MaxTokens,      \* bound on the sender leases granted per job
    AttemptLimit,   \* the 20 attempts after which a delivery fails
    Topics,         \* Telegram topics
    TopicOf,        \* [Jobs -> Topics]
    Senders         \* sender processes

Jobs == 1..MaxJobs
Parts == 1..MaxParts
Editions == 1..2

ASSUME DeliveryAssumption ==
    /\ MaxJobs \in Nat
    /\ MaxParts \in Nat \ {0}
    /\ MaxTokens \in Nat
    /\ AttemptLimit \in Nat \ {0}
    /\ TopicOf \in [Jobs -> Topics]

VARIABLES
    row,        \* the telegram_outbox row of a job and how many parts have receipts
    job,        \* provider_jobs.status, as far as the delivery reads or writes it
    evidence,   \* jobs with a provider_turn_terminal_evidence row
    resolved,   \* jobs with a provider_job_resolutions row
    disposed,   \* rows with an owner disposition (delivery hold or delivery control)
    sends,      \* telegram_send_attempts
    receipts,   \* telegram_send_receipts: the attempts with a message id
    tokens,     \* sender leases granted so far per job: the supply of fresh tokens
    sender,     \* what each sender process believes it is doing
    chat        \* the parts the topic shows, per job and edition of its row

factVars == <<evidence, resolved, disposed>>
proofVars == <<sends, receipts>>
vars == <<row, job, factVars, proofVars, tokens, sender, chat>>

-----------------------------------------------------------------------------
\* started is send_started_at: the token of the attempt begun under the last
\* lease, or 0.
NoRow == [st |-> "absent", kind |-> "notice", ed |-> 1, size |-> 1, done |-> 0,
          att |-> 0, tok |-> 0, started |-> 0, exp |-> FALSE]
NoSend == [ph |-> "idle", job |-> 0, tok |-> 0, ed |-> 0, part |-> 0]

RowStatus == {"absent", "pending", "sending", "delivered", "failed", "unknown"}
JobStatus == {"none", "result_ready", "failed", "indeterminate", "completed"}
SendPhases == {"leased", "begun", "accepted", "unproven", "refused", "recorded"}
Attempts == [job : Jobs, ed : Editions, part : Nat, tok : Nat]

Rows == [st : RowStatus, kind : {"result", "notice"}, ed : Editions, size : Parts,
         done : Nat, att : Nat, tok : Nat, started : Nat, exp : BOOLEAN]
Deliveries == [ph : SendPhases, job : Jobs, tok : Nat, ed : Editions, part : Nat]

TypeOK ==
    /\ row \in [Jobs -> Rows]
    /\ job \in [Jobs -> JobStatus]
    /\ evidence \subseteq Jobs
    /\ resolved \subseteq Jobs
    /\ disposed \subseteq Jobs
    /\ sends \subseteq Attempts
    /\ receipts \subseteq Attempts
    /\ tokens \in [Jobs -> Nat]
    /\ sender \in [Senders -> Deliveries \cup {NoSend}]
    /\ chat \in [Jobs \X Editions -> Seq(Nat)]

Init ==
    /\ row = [j \in Jobs |-> NoRow]
    /\ job = [j \in Jobs |-> "none"]
    /\ evidence = {} /\ resolved = {} /\ disposed = {}
    /\ sends = {} /\ receipts = {}
    /\ tokens = [j \in Jobs |-> 0]
    /\ sender = [s \in Senders |-> NoSend]
    /\ chat = [m \in Jobs \X Editions |-> <<>>]

Sent(j) == chat[<<j, row[j].ed>>]

-----------------------------------------------------------------------------
(* Publication, and what later facts make of it.                             *)

NewRow(kind, ed, n) == [NoRow EXCEPT !.st = "pending", !.kind = kind, !.ed = ed, !.size = n]

\* commit_provider_result: the saved result and its row are one transaction.
PublishResult(j, n) ==
    /\ job[j] = "none"
    /\ job' = [job EXCEPT ![j] = "result_ready"]
    /\ row' = [row EXCEPT ![j] = NewRow("result", 1, n)]
    /\ UNCHANGED <<factVars, proofVars, tokens, sender, chat>>

\* terminate_provider_job_with_notice, with (proof) or without evidence of how
\* the turn ended.
PublishNotice(j, n, st, proof) ==
    /\ job[j] = "none"
    /\ proof => st = "indeterminate"
    /\ job' = [job EXCEPT ![j] = st]
    /\ row' = [row EXCEPT ![j] = NewRow("notice", 1, n)]
    /\ evidence' = IF proof THEN evidence \cup {j} ELSE evidence
    /\ UNCHANGED <<resolved, disposed, proofVars, tokens, sender, chat>>

\* resolve_indeterminate: the owner classifies an uncertain job.
Resolve(j) ==
    /\ job[j] = "indeterminate"
    /\ j \notin resolved
    /\ resolved' = resolved \cup {j}
    /\ UNCHANGED <<row, job, evidence, disposed, proofVars, tokens, sender, chat>>

\* Mutant: an unconfirmed delivery is replaced like any other.
ReplaceableEvenUnknown(j) == row[j].st # "sending"

\* A row with no send whose outcome is open.
Replaceable(j) == row[j].st \notin {"sending", "unknown"}

\* _commit_terminal: the observation of an uncertain job's turn.  It waits while
\* a sender has the row, keeps a row in unknown delivery and only retains the
\* evidence, and otherwise replaces the row by a message about the outcome.
Observe(j, kind, n) ==
    /\ job[j] = "indeterminate"
    /\ j \notin evidence \cup resolved
    /\ row[j].st \notin {"absent", "sending"}
    /\ row' = IF Replaceable(j) THEN [row EXCEPT ![j] = NewRow(kind, 2, n)] ELSE row
    /\ IF Replaceable(j) /\ kind = "result"
       THEN job' = [job EXCEPT ![j] = "result_ready"] /\ UNCHANGED evidence
       ELSE evidence' = evidence \cup {j} /\ UNCHANGED job
    /\ UNCHANGED <<resolved, disposed, proofVars, tokens, sender, chat>>

-----------------------------------------------------------------------------
(* The sender of one row.                                                    *)

\* Mutant: an unconfirmed notice holds back the rest of its topic.
HoldsBackNotices(k) == /\ row[k].st \notin {"absent", "delivered", "failed"}
                       /\ ~(row[k].st = "unknown" /\ k \in disposed)

\* An earlier row of the topic that is neither finished, nor released or
\* reconciled by the owner, nor an unconfirmed notice.
HoldsBack(k) == /\ row[k].st \notin {"absent", "delivered", "failed"}
                /\ ~(row[k].st = "unknown" /\ (k \in disposed \/ row[k].kind = "notice"))

SenderTo(s, ph) == sender' = [sender EXCEPT ![s].ph = ph]
SenderRests(s) == sender' = [sender EXCEPT ![s] = NoSend]

\* The sender's lease is current: status = 'sending' and the token matches.
Owns(s) == LET j == sender[s].job IN row[j].st = "sending" /\ row[j].tok = sender[s].tok

\* Dropping, and setting, the lease columns of a row.
Unleased(r, st) == [r EXCEPT !.st = st, !.tok = 0, !.exp = FALSE]

\* Mutant: the status of a leased provider job instead of a leased row's.
LeasedLikeJob(r, t) == [r EXCEPT !.st = "leased", !.att = r.att + 1, !.tok = t, !.started = 0]

Leased(r, t) == [r EXCEPT !.st = "sending", !.att = r.att + 1, !.tok = t, !.started = 0]
Refund(n) == IF n > 0 THEN n - 1 ELSE 0
Started(r, t) == [r EXCEPT !.started = t]
Retried(r, st) == [Unleased(r, st) EXCEPT !.started = 0]
Released(r) == [Unleased(r, "pending") EXCEPT !.att = Refund(r.att)]

\* lease_outbox and the next_outbox_part that follows.  Which of several
\* eligible rows goes first is left open.
LeaseOutbox(s, j) ==
    /\ sender[s].ph = "idle"
    /\ row[j].st = "pending"
    /\ row[j].att < AttemptLimit
    /\ ~\E k \in Jobs : k < j /\ TopicOf[k] = TopicOf[j] /\ HoldsBack(k)
    /\ tokens[j] < MaxTokens
    /\ tokens' = [tokens EXCEPT ![j] = @ + 1]
    /\ row' = [row EXCEPT ![j] = Leased(@, tokens'[j])]
    /\ sender' = [sender EXCEPT ![s] = [ph |-> "leased", job |-> j, tok |-> tokens'[j],
                                        ed |-> row[j].ed, part |-> row[j].done + 1]]
    /\ UNCHANGED <<job, factVars, proofVars, chat>>

\* release_outbox_lease: the sender is told to drain before it sends.
ReleaseOutbox(s) ==
    LET j == sender[s].job IN
    /\ sender[s].ph = "leased"
    /\ Owns(s) /\ row[j].started = 0
    /\ row' = [row EXCEPT ![j] = Released(@)]
    /\ SenderRests(s)
    /\ UNCHANGED <<job, factVars, proofVars, tokens, chat>>

\* retry_outbox, after a local failure before the send or a proven rejection.
RetryOutbox(s) ==
    LET j == sender[s].job
        spent == row[j].att >= AttemptLimit IN
    /\ sender[s].ph \in {"leased", "refused"}
    /\ Owns(s)
    /\ row' = [row EXCEPT ![j] = Retried(@, IF spent THEN "failed" ELSE "pending")]
    /\ job' = IF spent /\ job[j] = "result_ready" THEN [job EXCEPT ![j] = "failed"] ELSE job
    /\ SenderRests(s)
    /\ UNCHANGED <<factVars, proofVars, tokens, chat>>

\* begin_outbox_send: the durable fence before the network call.  A sender that
\* does not learn whether its commit succeeded (ack = FALSE) sends nothing.
BeginSend(s, ack) ==
    LET j == sender[s].job IN
    /\ sender[s].ph = "leased"
    /\ Owns(s) /\ row[j].started = 0
    /\ sender[s].part = row[j].done + 1
    /\ row' = [row EXCEPT ![j] = Started(@, sender[s].tok)]
    /\ sends' = sends \cup {[job |-> j, ed |-> row[j].ed, part |-> sender[s].part,
                             tok |-> sender[s].tok]}
    /\ IF ack THEN SenderTo(s, "begun") ELSE SenderRests(s)
    /\ UNCHANGED <<job, factVars, receipts, tokens, chat>>

\* send_html / send_document: Telegram shows the part and the message id
\* returns, or is lost; or the part is provably refused, or lost unseen.
\* The call does not look at the lease.
Send(s, shown, known) ==
    LET m == <<sender[s].job, sender[s].ed>> IN
    /\ sender[s].ph = "begun"
    /\ chat' = IF shown THEN [chat EXCEPT ![m] = Append(@, sender[s].part)] ELSE chat
    /\ SenderTo(s, IF ~known THEN "unproven" ELSE IF shown THEN "accepted" ELSE "refused")
    /\ UNCHANGED <<row, job, factVars, proofVars, tokens>>

\* mark_outbox_unknown: the outcome of the send, or of recording it, is unknown.
MarkUnknown(s) ==
    LET j == sender[s].job IN
    /\ sender[s].ph \in {"unproven", "accepted", "recorded"}
    /\ Owns(s) /\ row[j].started # 0
    /\ sender[s].part = row[j].done + 1
    /\ row' = [row EXCEPT ![j] = Unleased(@, "unknown")]
    /\ SenderRests(s)
    /\ UNCHANGED <<job, factVars, proofVars, tokens, chat>>

AttemptOf(s) == [job |-> sender[s].job, ed |-> sender[s].ed, part |-> sender[s].part,
                 tok |-> sender[s].tok]

\* The first transaction of mark_outbox_delivered: record the receipt, whatever
\* became of the row meanwhile.
RecordReceipt(s) ==
    /\ sender[s].ph = "accepted"
    /\ AttemptOf(s) \in sends
    /\ receipts' = receipts \cup {AttemptOf(s)}
    /\ SenderTo(s, "recorded")
    /\ UNCHANGED <<row, job, factVars, sends, tokens, chat>>

-----------------------------------------------------------------------------
(* Settling receipts, by the sender or by recovery.                          *)

\* Mutants: a disposed row is settled; only a row still being sent is.
CanSettleDisposed(a) ==
    LET r == row[a.job] IN
    /\ r.ed = a.ed /\ r.started = a.tok /\ a.part = r.done + 1
    /\ r.st = "unknown" \/ (r.st = "sending" /\ r.tok = a.tok)
CanSettleSending(a) ==
    LET r == row[a.job] IN
    /\ r.ed = a.ed /\ r.started = a.tok /\ a.part = r.done + 1
    /\ a.job \notin disposed
    /\ r.st = "sending" /\ r.tok = a.tok

\* The conditions under which DeliveryReceipts.settle applies a receipt: same
\* row, no newer attempt at the part, no disposition, the attempt the row
\* started last, and the next part without a receipt.
CanSettle(a) ==
    LET r == row[a.job] IN
    /\ r.ed = a.ed
    /\ ~\E b \in sends : b.job = a.job /\ b.ed = a.ed /\ b.part = a.part /\ b.tok > a.tok
    /\ a.job \notin disposed
    /\ r.st = "unknown" \/ (r.st = "sending" /\ r.tok = a.tok)
    /\ r.started = a.tok
    /\ job[a.job] \in {"result_ready", "failed", "indeterminate"}
    /\ a.part = r.done + 1

\* Mutant: the last receipt is any receipt.
SettledAtOnce(r) == [Unleased(r, "delivered") EXCEPT !.done = r.done + 1]

\* The row after a receipt: the next part is pending, or all is delivered.
SettledRow(r) ==
    IF r.done + 1 < r.size
    THEN [Unleased(r, "pending") EXCEPT !.done = r.done + 1, !.att = Refund(r.att),
                                        !.started = 0]
    ELSE [Unleased(r, "delivered") EXCEPT !.done = r.done + 1]

Settle(a) ==
    LET j == a.job IN
    /\ row' = [row EXCEPT ![j] = SettledRow(@)]
    /\ job' = IF SettledRow(row[j]).st = "delivered" /\ job[j] = "result_ready"
              THEN [job EXCEPT ![j] = "completed"] ELSE job

\* The second transaction of mark_outbox_delivered; a receipt that cannot be
\* applied is kept and the sender goes on.
SettleOwn(s) ==
    /\ sender[s].ph = "recorded"
    /\ IF CanSettle(AttemptOf(s)) THEN Settle(AttemptOf(s)) ELSE UNCHANGED <<row, job>>
    /\ SenderRests(s)
    /\ UNCHANGED <<factVars, proofVars, tokens, chat>>

\* recover_receipts: every maintenance cycle pages through recorded receipts.
SettlePending(a) ==
    /\ a \in receipts
    /\ CanSettle(a)
    /\ Settle(a)
    /\ UNCHANGED <<factVars, proofVars, tokens, sender, chat>>

-----------------------------------------------------------------------------
(* Lost senders, stale leases and the owner.                                 *)

\* lease_expires_at passes (a heartbeat only prolongs an unexpired lease).
LeaseExpires(j) ==
    /\ row[j].st = "sending" /\ ~row[j].exp
    /\ row' = [row EXCEPT ![j].exp = TRUE]
    /\ UNCHANGED <<job, factVars, proofVars, tokens, sender, chat>>

\* Mutants: a begun send counts as not sent; an expired row stays leased.
RecoveredUnsent(r) == Released(r)
RecoveredNot(r) == IF r.started = 0 THEN r ELSE Unleased(r, "unknown")

\* A row whose sender is lost: nothing was sent, or nobody knows.
Recovered(r) ==
    IF r.started = 0 THEN Released(r)
    ELSE Unleased(r, "unknown")

\* recover_stale_outbox (its recover_receipts is SettlePending).
RecoverStale ==
    LET stale == {j \in Jobs : row[j].st = "sending" /\ row[j].exp} IN
    /\ stale # {}
    /\ row' = [j \in Jobs |-> IF j \in stale THEN Recovered(row[j]) ELSE row[j]]
    /\ UNCHANGED <<job, factVars, proofVars, tokens, sender, chat>>

\* The sender process dies or gives up, because a transaction refused it.
SenderDrops(s) ==
    /\ sender[s].ph # "idle"
    /\ SenderRests(s)
    /\ UNCHANGED <<row, job, factVars, proofVars, tokens, chat>>

HasOutcome(j) == job[j] \in {"result_ready", "failed", "indeterminate"}

\* DeliveryHoldState.release accepts an unconfirmed row.
Releasable(j) == row[j].st = "unknown" /\ HasOutcome(j)

\* DeliveryControlState.apply_in_transaction also accepts a row that used up its
\* attempts; a notice about an uncertain turn only once the turn is settled.
Reconcilable(j) ==
    /\ \/ row[j].st = "unknown"
       \/ /\ row[j].st = "failed" /\ row[j].att = AttemptLimit
          /\ job[j] = "indeterminate" => j \in evidence \cup resolved
    /\ HasOutcome(j)

\* The owner, having seen exactly this state, goes on without the delivery.
Dispose(j) ==
    /\ j \notin disposed
    /\ Releasable(j) \/ Reconcilable(j)
    /\ disposed' = disposed \cup {j}
    /\ UNCHANGED <<row, job, evidence, resolved, proofVars, tokens, sender, chat>>

-----------------------------------------------------------------------------
Publication ==
    \E j \in Jobs, n \in Parts :
        \/ PublishResult(j, n)
        \/ \E st \in {"failed", "indeterminate"}, proof \in BOOLEAN :
              PublishNotice(j, n, st, proof)
        \/ \E kind \in {"result", "notice"} : Observe(j, kind, n)

SenderStep(s) ==
    \/ ReleaseOutbox(s)
    \/ RetryOutbox(s)
    \/ \E ack \in BOOLEAN : BeginSend(s, ack)
    \/ \E shown, known \in BOOLEAN : Send(s, shown, known)
    \/ MarkUnknown(s)
    \/ RecordReceipt(s)
    \/ SettleOwn(s)
    \/ SenderDrops(s)

Next ==
    \/ Publication
    \/ \E s \in Senders : (\E j \in Jobs : LeaseOutbox(s, j)) \/ SenderStep(s)
    \/ \E a \in receipts : SettlePending(a)
    \/ \E j \in Jobs : LeaseExpires(j) \/ Resolve(j) \/ Dispose(j)
    \/ RecoverStale

Spec == Init /\ [][Next]_vars

\* A lease whose sender died or moved on.
Abandoned(j) == \A s \in Senders : sender[s].job # j

-----------------------------------------------------------------------------
(* What the delivery promises.                                               *)

\* Every part of a message becomes visible at most once and in order, whatever
\* leases expire, senders crash, replies get lost or receipts arrive late
\* (begin_outbox_send, recover_stale_outbox, retry_outbox, settle).
PartsOnceInOrder ==
    \A m \in Jobs \X Editions : \A i \in 1..Len(chat[m]) : chat[m][i] = i

\* A row is delivered, and a job completed, only when every part is visible; a
\* row is failed only when its last attempted part is not.
DeliveredIsShown ==
    \A j \in Jobs :
        /\ row[j].st = "delivered" => Len(Sent(j)) = row[j].size
        /\ job[j] = "completed" => row[j].st = "delivered"
        /\ row[j].st = "failed" => Len(Sent(j)) = row[j].done /\ row[j].done < row[j].size

\* What the owner disposed of stays as the owner saw it: no late receipt,
\* recovery, sender or observation changes the row or completes the job.
DisposedStays ==
    \A j \in disposed : row'[j] = row[j] /\ (job'[j] = "completed" => job[j] = "completed")
DispositionIsFinal == [][DisposedStays]_vars

\* What a row is to the reader of the topic: a delivery in doubt is still open.
MailOf(st) == CASE st = "absent" -> "none"
                [] st \in {"delivered", "failed"} -> st
                [] OTHER -> "open"

\* The rows and the chat implement the abstract delivery.
Delivery == INSTANCE OrderedDelivery WITH
    Messages <- Jobs,
    mail <- [j \in Jobs |-> MailOf(row[j].st)],
    edition <- [j \in Jobs |-> row[j].ed],
    size <- [j \in Jobs |-> row[j].size]

\* Every step of the delivery is a step, or a stutter, of the abstract one.
DeliverySpec == Delivery!DSpec

\* An earlier result of the topic in unknown delivery, for which the topic
\* waits until the owner decides; or a row for which the bound on leases is
\* used up.
AwaitsOwner(j) ==
    \E k \in Jobs : /\ k <= j /\ TopicOf[k] = TopicOf[j]
                    /\ \/ row[k].st = "unknown" /\ row[k].kind = "result" /\ k \notin disposed
                       \/ row[k].st = "pending" /\ tokens[k] = MaxTokens

-----------------------------------------------------------------------------
(* The inductive invariant behind the promises.                              *)

\* A row whose last send may still be confirmed.
InDoubt(r) == r.st \in {"sending", "unknown"}

\* The columns of a row agree with each other and with its job.
RowOK(j) ==
    /\ row[j].st = "absent" <=> job[j] = "none"
    /\ row[j].st = "absent" => row[j].ed = 1 /\ row[j].done = 0
    /\ row[j].st # "delivered" => row[j].done < row[j].size
    /\ row[j].st = "delivered" => row[j].done = row[j].size
    /\ row[j].tok <= tokens[j] /\ row[j].started <= tokens[j]
    /\ row[j].st = "sending" => row[j].tok # 0 /\ row[j].started \in {0, row[j].tok}
    /\ row[j].st = "unknown" => row[j].started # 0
    /\ job[j] = "completed" => row[j].st = "delivered"
    /\ row[j].ed = 2 => job[j] # "indeterminate" \/ j \in evidence

\* The chat shows the parts with receipts, and at most the one in doubt.
ShownOK(j) ==
    /\ \/ Len(Sent(j)) = row[j].done
       \/ InDoubt(row[j]) /\ row[j].started # 0 /\ Len(Sent(j)) = row[j].done + 1
    /\ row[j].ed = 1 => Len(chat[<<j, 2>>]) = 0

\* A sender with an open send has the row's last attempt and nothing of it is
\* shown; an accepted part is shown.
SenderOK(s) ==
    LET j == sender[s].job IN
    /\ sender[s].tok # 0 /\ sender[s].tok <= tokens[j]
    /\ sender[s].ph = "leased" => \A a \in receipts : a.job = j => a.tok # sender[s].tok
    /\ sender[s].ph = "leased" /\ Owns(s) => row[j].started = 0 /\ sender[s].ed = row[j].ed
    /\ sender[s].ph \in {"begun", "refused"} =>
          /\ InDoubt(row[j]) /\ row[j].started = sender[s].tok /\ sender[s].ed = row[j].ed
          /\ sender[s].part = row[j].done + 1 /\ Len(Sent(j)) = row[j].done
    /\ sender[s].ph \in {"accepted", "recorded"} /\ InDoubt(row[j])
       /\ row[j].started = sender[s].tok
          => Len(Sent(j)) = row[j].done + 1

\* A receipt proves that the part in doubt is shown.
ReceiptOK(a) ==
    /\ a.tok # 0 /\ a.tok <= tokens[a.job]
    /\ InDoubt(row[a.job]) /\ row[a.job].started = a.tok
          => Len(Sent(a.job)) = row[a.job].done + 1

\* A disposed row is one that no operation works on any more.
ParkedOK(j) ==
    \/ row[j].st = "unknown"
    \/ /\ row[j].st = "failed"
       /\ job[j] = "indeterminate" => j \in evidence \cup resolved

\* No two senders have the same lease.
OneSenderPerLease ==
    \A s, u \in Senders :
        /\ s # u /\ sender[s].ph # "idle" /\ sender[u].ph # "idle"
        /\ sender[s].job = sender[u].job
        => sender[s].tok # sender[u].tok

Inv ==
    /\ \A j \in Jobs : RowOK(j) /\ ShownOK(j)
    /\ \A s \in Senders : sender[s].ph # "idle" => SenderOK(s)
    /\ \A a \in receipts : ReceiptOK(a)
    /\ \A j \in disposed : ParkedOK(j)
    /\ OneSenderPerLease
=============================================================================
