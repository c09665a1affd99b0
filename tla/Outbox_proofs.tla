---------------------------- MODULE Outbox_proofs ----------------------------
(***************************************************************************)
(* Proofs about Outbox, for every number of jobs, parts, leases, attempts, *)
(* topics and senders.                                                     *)
(***************************************************************************)
EXTENDS Outbox, TLAPS

-----------------------------------------------------------------------------
(* The rows the transactions write.                                          *)

\* A row without its lease columns is a row.
LEMMA UnleasedRow ==
    ASSUME NEW r \in Rows, NEW st \in RowStatus
    PROVE  /\ Unleased(r, st) \in Rows
           /\ Unleased(r, st).st = st /\ Unleased(r, st).tok = 0
           /\ Unleased(r, st).ed = r.ed /\ Unleased(r, st).size = r.size
           /\ Unleased(r, st).done = r.done /\ Unleased(r, st).started = r.started
BY DEF Unleased, Rows

\* A new row has no part with a receipt and no begun send.
LEMMA FreshRow ==
    ASSUME NEW kind \in {"result", "notice"}, NEW ed \in Editions, NEW n \in Parts
    PROVE  /\ NewRow(kind, ed, n) \in Rows
           /\ NewRow(kind, ed, n).st = "pending" /\ NewRow(kind, ed, n).tok = 0
           /\ NewRow(kind, ed, n).ed = ed /\ NewRow(kind, ed, n).size = n
           /\ NewRow(kind, ed, n).done = 0 /\ NewRow(kind, ed, n).started = 0
<1>1. 1 \in Parts
      BY DeliveryAssumption DEF Parts
<1> QED BY <1>1 DEF NewRow, NoRow, Rows, RowStatus, Editions

\* The row of a job that has none.
LEMMA EmptyRow == /\ NoRow \in Rows /\ NoRow.st = "absent" /\ NoRow.ed = 1 /\ NoRow.done = 0
                  /\ NoRow.size = 1 /\ NoRow.tok = 0 /\ NoRow.started = 0
<1>1. 1 \in Parts
      BY DeliveryAssumption DEF Parts
<1> QED BY <1>1 DEF NoRow, Rows, RowStatus, Editions

\* Refunding an attempt.
LEMMA RefundType == ASSUME NEW n \in Nat PROVE Refund(n) \in Nat
BY DEF Refund

\* Counting attempts touches nothing else.
LEMMA AttemptRow ==
    ASSUME NEW r \in Rows, NEW n \in Nat
    PROVE  LET q == [r EXCEPT !.att = n] IN
           /\ q \in Rows /\ q.st = r.st /\ q.tok = r.tok /\ q.ed = r.ed /\ q.size = r.size
           /\ q.done = r.done /\ q.started = r.started
BY DEF Rows

\* Counting receipts touches nothing else.
LEMMA DoneRow ==
    ASSUME NEW r \in Rows, NEW n \in Nat
    PROVE  LET q == [r EXCEPT !.done = n] IN
           /\ q \in Rows /\ q.st = r.st /\ q.tok = r.tok /\ q.ed = r.ed /\ q.size = r.size
           /\ q.done = n /\ q.started = r.started
BY DEF Rows

\* The row of a released lease.
LEMMA ReleasedRow ==
    ASSUME NEW r \in Rows
    PROVE  LET q == Released(r) IN
           /\ q \in Rows /\ q.st = "pending" /\ q.tok = 0 /\ q.ed = r.ed /\ q.size = r.size
           /\ q.done = r.done /\ q.started = r.started
BY RefundType DEF Released, Unleased, Rows, RowStatus

\* The row after a retry.
LEMMA RetriedRow ==
    ASSUME NEW r \in Rows, NEW st \in RowStatus
    PROVE  LET q == Retried(r, st) IN
           /\ q \in Rows /\ q.st = st /\ q.tok = 0 /\ q.ed = r.ed /\ q.size = r.size
           /\ q.done = r.done /\ q.started = 0
BY DEF Retried, Unleased, Rows

\* The row under a new lease.
LEMMA LeasedRow ==
    ASSUME NEW r \in Rows, NEW t \in Nat
    PROVE  LET q == Leased(r, t) IN
           /\ q \in Rows /\ q.st = "sending" /\ q.tok = t /\ q.ed = r.ed /\ q.size = r.size
           /\ q.done = r.done /\ q.started = 0
<1> DEFINE q == [r EXCEPT !.st = "sending", !.tok = t, !.started = 0]
<1>1. q \in Rows /\ q.st = "sending" /\ q.tok = t /\ q.started = 0
      BY DEF Rows, RowStatus
<1>2. q.ed = r.ed /\ q.size = r.size /\ q.done = r.done /\ r.att + 1 \in Nat
      BY DEF Rows
<1>3. Leased(r, t) = [q EXCEPT !.att = r.att + 1]
      BY DEF Leased, Rows
<1> HIDE DEF q
<1> QED BY <1>1, <1>2, <1>3, AttemptRow

\* The row behind the fence.
LEMMA StartedRow ==
    ASSUME NEW r \in Rows, NEW t \in Nat
    PROVE  LET q == Started(r, t) IN
           /\ q \in Rows /\ q.st = r.st /\ q.tok = r.tok /\ q.ed = r.ed /\ q.size = r.size
           /\ q.done = r.done /\ q.started = t
BY DEF Started, Rows

\* The row after a receipt.
LEMMA SettledFields ==
    ASSUME NEW r \in Rows
    PROVE  LET q == SettledRow(r) IN
           /\ q \in Rows /\ q.tok = 0 /\ q.ed = r.ed /\ q.size = r.size /\ q.done = r.done + 1
           /\ r.done + 1 < r.size => q.st = "pending" /\ q.started = 0
           /\ ~(r.done + 1 < r.size) => q.st = "delivered" /\ q.started = r.started
<1>1. r.done + 1 \in Nat /\ Refund(r.att) \in Nat
      BY RefundType DEF Rows
<1>2. CASE r.done + 1 < r.size
  <2> DEFINE q == Retried(r, "pending")
             p == [q EXCEPT !.att = Refund(r.att)]
  <2>1. q \in Rows /\ q.st = "pending" /\ q.tok = 0 /\ q.ed = r.ed /\ q.size = r.size
        /\ q.started = 0
    BY RetriedRow DEF RowStatus
  <2>2. p \in Rows /\ p.st = "pending" /\ p.tok = 0 /\ p.ed = r.ed /\ p.size = r.size
        /\ p.started = 0
    <3> HIDE DEF q
    <3> QED BY <1>1, <2>1, AttemptRow
  <2>3. SettledRow(r) = [p EXCEPT !.done = r.done + 1]
    BY <1>2 DEF SettledRow, Retried, Unleased, Rows
  <2> HIDE DEF p
  <2> QED BY <1>1, <1>2, <2>2, <2>3, DoneRow
<1>3. CASE ~(r.done + 1 < r.size)
  <2>1. SettledRow(r) = [Unleased(r, "delivered") EXCEPT !.done = r.done + 1]
    BY <1>3 DEF SettledRow
  <2> QED BY <1>1, <1>3, <2>1, DoneRow, UnleasedRow DEF RowStatus
<1> QED BY <1>2, <1>3

\* The row after stale recovery.
LEMMA RecoveredFields ==
    ASSUME NEW r \in Rows
    PROVE  LET q == Recovered(r) IN
           /\ q \in Rows /\ q.tok = 0 /\ q.ed = r.ed /\ q.size = r.size /\ q.done = r.done
           /\ q.started = r.started
           /\ q.st = IF r.started = 0 THEN "pending" ELSE "unknown"
BY ReleasedRow, UnleasedRow DEF Recovered, RowStatus

\* A row whose lease ran out.
LEMMA ExpiredRow ==
    ASSUME NEW r \in Rows
    PROVE  LET q == [r EXCEPT !.exp = TRUE] IN
           /\ q \in Rows /\ q.st = r.st /\ q.tok = r.tok /\ q.ed = r.ed /\ q.size = r.size
           /\ q.done = r.done /\ q.started = r.started
BY DEF Rows

\* A sender outside its idle phase works on a job of the table.
LEMMA BusySender ==
    ASSUME TypeOK, NEW s \in Senders, sender[s].ph # "idle"
    PROVE  sender[s] \in Deliveries /\ sender[s].job \in Jobs
BY DEF TypeOK, NoSend, Deliveries

\* A sender that moves to another phase of the same row.
LEMMA PhaseSender ==
    ASSUME TypeOK, NEW s \in Senders, sender[s].ph # "idle", NEW ph \in SendPhases,
           SenderTo(s, ph)
    PROVE  /\ sender' \in [Senders -> Deliveries \cup {NoSend}]
           /\ sender'[s].ph = ph /\ sender'[s].job = sender[s].job
           /\ sender'[s].tok = sender[s].tok /\ sender'[s].ed = sender[s].ed
           /\ sender'[s].part = sender[s].part
           /\ \A u \in Senders : u # s => sender'[u] = sender[u]
<1>1. sender[s] \in Deliveries
      BY BusySender
<1>2. [sender[s] EXCEPT !.ph = ph] \in Deliveries
      BY <1>1 DEF Deliveries
<1>3. sender' = [sender EXCEPT ![s] = [sender[s] EXCEPT !.ph = ph]]
      BY DEF SenderTo
<1> QED BY <1>1, <1>2, <1>3 DEF TypeOK, Deliveries

\* A sender that has finished.
LEMMA RestingSender ==
    ASSUME TypeOK, NEW s \in Senders, SenderRests(s)
    PROVE  /\ sender' \in [Senders -> Deliveries \cup {NoSend}]
           /\ sender'[s].ph = "idle"
           /\ \A u \in Senders : u # s => sender'[u] = sender[u]
BY DEF TypeOK, SenderRests, NoSend

-----------------------------------------------------------------------------
(* Type correctness.                                                         *)

\* The tables are well formed at the start.
LEMMA InitType == Init => TypeOK
BY EmptyRow DEF Init, TypeOK, JobStatus

\* Every action keeps the tables well formed.
LEMMA StepType == TypeOK /\ [Next]_vars => TypeOK'
<1> SUFFICES ASSUME TypeOK, [Next]_vars PROVE TypeOK'
    OBVIOUS
<1> USE DEF factVars, proofVars
<1>1. ASSUME NEW j \in Jobs, NEW n \in Parts, PublishResult(j, n) PROVE TypeOK'
      BY <1>1, FreshRow DEF PublishResult, TypeOK, JobStatus, Editions
<1>2. ASSUME NEW j \in Jobs, NEW n \in Parts, NEW st \in {"failed", "indeterminate"},
             NEW proof \in BOOLEAN, PublishNotice(j, n, st, proof)
      PROVE  TypeOK'
      BY <1>2, FreshRow DEF PublishNotice, TypeOK, JobStatus, Editions
<1>3. ASSUME NEW j \in Jobs, NEW n \in Parts, NEW kind \in {"result", "notice"},
             Observe(j, kind, n)
      PROVE  TypeOK'
      BY <1>3, FreshRow DEF Observe, TypeOK, JobStatus, Editions
<1>4. ASSUME NEW s \in Senders, NEW j \in Jobs, LeaseOutbox(s, j) PROVE TypeOK'
  <2>1. tokens' \in [Jobs -> Nat] /\ tokens'[j] \in Nat
    BY <1>4 DEF LeaseOutbox, TypeOK
  <2>2. row' \in [Jobs -> Rows]
    BY <1>4, <2>1, LeasedRow DEF LeaseOutbox, TypeOK
  <2>3. row[j].ed \in Editions /\ row[j].done + 1 \in Nat
    BY DEF TypeOK, Rows
  <2>4. sender' \in [Senders -> Deliveries \cup {NoSend}]
    BY <1>4, <2>1, <2>3 DEF LeaseOutbox, TypeOK, Deliveries, SendPhases
  <2> QED BY <1>4, <2>1, <2>2, <2>4 DEF LeaseOutbox, TypeOK
<1>5. ASSUME NEW s \in Senders, ReleaseOutbox(s) PROVE TypeOK'
      BY <1>5, ReleasedRow, BusySender, RestingSender DEF ReleaseOutbox, TypeOK
<1>6. ASSUME NEW s \in Senders, RetryOutbox(s) PROVE TypeOK'
  <2>1. row' \in [Jobs -> Rows]
    BY <1>6, RetriedRow, BusySender DEF RetryOutbox, TypeOK, RowStatus
  <2>2. job' \in [Jobs -> JobStatus]
    BY <1>6 DEF RetryOutbox, TypeOK, JobStatus
  <2> QED BY <1>6, <2>1, <2>2, RestingSender DEF RetryOutbox, TypeOK
<1>7. ASSUME NEW s \in Senders, NEW ack \in BOOLEAN, BeginSend(s, ack) PROVE TypeOK'
  <2>1. sender[s] \in Deliveries /\ sender[s].job \in Jobs
    BY <1>7, BusySender DEF BeginSend
  <2>2. row' \in [Jobs -> Rows]
    BY <1>7, <2>1, StartedRow DEF BeginSend, TypeOK, Deliveries
  <2>3. sends' \subseteq Attempts
    BY <1>7, <2>1 DEF BeginSend, TypeOK, Deliveries, Attempts, Rows
  <2>4. sender' \in [Senders -> Deliveries \cup {NoSend}]
    BY <1>7, PhaseSender, RestingSender DEF BeginSend, SendPhases
  <2> QED BY <1>7, <2>2, <2>3, <2>4 DEF BeginSend, TypeOK
<1>8. ASSUME NEW s \in Senders, NEW shown \in BOOLEAN, NEW known \in BOOLEAN,
             Send(s, shown, known)
      PROVE  TypeOK'
  <2>1. sender[s] \in Deliveries /\ sender[s].job \in Jobs
    BY <1>8, BusySender DEF Send
  <2>2. chat' \in [Jobs \X Editions -> Seq(Nat)]
    BY <1>8, <2>1 DEF Send, TypeOK, Deliveries
  <2>3. sender' \in [Senders -> Deliveries \cup {NoSend}]
    BY <1>8, PhaseSender DEF Send, SendPhases
  <2> QED BY <1>8, <2>2, <2>3 DEF Send, TypeOK
<1>9. ASSUME NEW s \in Senders, MarkUnknown(s) PROVE TypeOK'
      BY <1>9, UnleasedRow, BusySender, RestingSender DEF MarkUnknown, TypeOK, RowStatus
<1>10. ASSUME NEW s \in Senders, RecordReceipt(s) PROVE TypeOK'
  <2>1. sender' \in [Senders -> Deliveries \cup {NoSend}]
    BY <1>10, PhaseSender DEF RecordReceipt, SendPhases
  <2> QED BY <1>10, <2>1 DEF RecordReceipt, TypeOK
<1>11. ASSUME NEW a \in Attempts, Settle(a)
       PROVE  row' \in [Jobs -> Rows] /\ job' \in [Jobs -> JobStatus]
  <2>1. a.job \in Jobs
    BY DEF Attempts
  <2> QED BY <1>11, <2>1, SettledFields DEF Settle, TypeOK, JobStatus
<1>12. ASSUME NEW s \in Senders, SettleOwn(s) PROVE TypeOK'
  <2>1. AttemptOf(s) \in Attempts
    BY <1>12, BusySender DEF SettleOwn, AttemptOf, Attempts, Deliveries
  <2>2. row' \in [Jobs -> Rows] /\ job' \in [Jobs -> JobStatus]
    BY <1>11, <1>12, <2>1 DEF SettleOwn, TypeOK
  <2> QED BY <1>12, <2>2, RestingSender DEF SettleOwn, TypeOK
<1>13. ASSUME NEW a \in receipts, SettlePending(a) PROVE TypeOK'
      BY <1>11, <1>13 DEF SettlePending, TypeOK
<1>14. ASSUME NEW j \in Jobs, LeaseExpires(j) PROVE TypeOK'
  <2>1. row' = [row EXCEPT ![j] = [row[j] EXCEPT !.exp = TRUE]]
    BY <1>14 DEF LeaseExpires
  <2> QED BY <1>14, <2>1, ExpiredRow DEF LeaseExpires, TypeOK
<1>15. ASSUME RecoverStale PROVE TypeOK'
      BY <1>15, RecoveredFields DEF RecoverStale, TypeOK
<1>16. ASSUME NEW s \in Senders, SenderDrops(s) PROVE TypeOK'
      BY <1>16, RestingSender DEF SenderDrops, TypeOK
<1>17. ASSUME NEW j \in Jobs, Resolve(j) \/ Dispose(j) PROVE TypeOK'
      BY <1>17 DEF Resolve, Dispose, TypeOK
<1>18. CASE UNCHANGED vars
      BY <1>18 DEF vars, TypeOK
<1> QED BY <1>1, <1>2, <1>3, <1>4, <1>5, <1>6, <1>7, <1>8, <1>9, <1>10, <1>12, <1>13,
           <1>14, <1>15, <1>16, <1>17, <1>18
        DEF Next, Publication, SenderStep

\* Every reachable state of the delivery is well typed.
THEOREM TypeCorrect == Spec => []TypeOK
<1> QED BY InitType, StepType, PTL DEF Spec

-----------------------------------------------------------------------------
(* The inductive invariant.                                                  *)

\* The empty tables satisfy the invariant.
LEMMA InitInv == Init => Inv
<1> SUFFICES ASSUME Init PROVE Inv
    OBVIOUS
<1>1. \A j \in Jobs : row[j] = NoRow /\ job[j] = "none" /\ tokens[j] = 0
      BY DEF Init
<1>2. \A m \in Jobs \X Editions : Len(chat[m]) = 0
      BY DEF Init
<1>3. \A j \in Jobs : <<j, 1>> \in Jobs \X Editions /\ <<j, 2>> \in Jobs \X Editions
      BY DEF Editions
<1>4. \A j \in Jobs : RowOK(j)
      BY <1>1, EmptyRow DEF RowOK
<1>5. \A j \in Jobs : ShownOK(j)
      BY <1>1, <1>2, <1>3, EmptyRow DEF ShownOK, Sent
<1>6. \A s \in Senders : sender[s].ph = "idle"
      BY DEF Init, NoSend
<1>7. receipts = {} /\ disposed = {}
      BY DEF Init
<1> QED BY <1>4, <1>5, <1>6, <1>7 DEF Inv, OneSenderPerLease

\* The types of the fields the invariant talks about.
LEMMA FieldTypes ==
    ASSUME TypeOK
    PROVE  /\ \A j \in Jobs : /\ row[j] \in Rows /\ tokens[j] \in Nat
                              /\ row[j].done \in Nat /\ row[j].tok \in Nat
                              /\ row[j].started \in Nat /\ row[j].size \in Nat
                              /\ row[j].ed \in {1, 2}
                              /\ Len(chat[<<j, 1>>]) \in Nat /\ Len(chat[<<j, 2>>]) \in Nat
           /\ \A a \in receipts : a.job \in Jobs /\ a.tok \in Nat
           /\ \A s \in Senders : sender[s].tok \in Nat
           /\ \A s \in Senders : sender[s].ph # "idle" => sender[s].job \in Jobs
<1>1. \A j \in Jobs : /\ row[j] \in Rows /\ tokens[j] \in Nat
                      /\ row[j].done \in Nat /\ row[j].tok \in Nat
                      /\ row[j].started \in Nat /\ row[j].size \in Nat /\ row[j].ed \in {1, 2}
      BY DEF TypeOK, Rows, Parts, Editions
<1>2. \A j \in Jobs : Len(chat[<<j, 1>>]) \in Nat /\ Len(chat[<<j, 2>>]) \in Nat
      BY DEF TypeOK, Editions
<1>3. \A a \in receipts : a.job \in Jobs /\ a.tok \in Nat
      BY DEF TypeOK, Attempts
<1>4. \A s \in Senders : sender[s].tok \in Nat
      BY DEF TypeOK, Deliveries, NoSend
<1> QED BY <1>1, <1>2, <1>3, <1>4, BusySender

\* The columns, the chat and the lease counter of a job.
Same(k) == /\ row'[k] = row[k] /\ job'[k] = job[k] /\ tokens'[k] = tokens[k]
           /\ chat'[<<k, 1>>] = chat[<<k, 1>>] /\ chat'[<<k, 2>>] = chat[<<k, 2>>]

\* A job that a step leaves alone stays in order.
LEMMA SameJob ==
    ASSUME TypeOK, NEW k \in Jobs, RowOK(k), ShownOK(k), Same(k), evidence \subseteq evidence'
    PROVE  RowOK(k)' /\ ShownOK(k)'
<1>1. row[k].ed \in {1, 2}
      BY FieldTypes
<1>2. RowOK(k)'
      BY DEF RowOK, Same
<1>3. ShownOK(k)'
      BY <1>1 DEF ShownOK, Sent, InDoubt, Same
<1> QED BY <1>2, <1>3

\* So do its senders, as long as its receipts stay the same.
LEMMA SameSender ==
    ASSUME TypeOK, NEW u \in Senders, sender[u].ph # "idle", SenderOK(u),
           sender'[u] = sender[u], Same(sender[u].job),
           \A a \in receipts' : a.job = sender[u].job => a \in receipts
    PROVE  SenderOK(u)'
<1>1. sender[u].job \in Jobs /\ row[sender[u].job].ed \in {1, 2}
      BY FieldTypes
<1> QED BY <1>1 DEF SenderOK, Owns, Sent, InDoubt, Same

\* And its receipts.
LEMMA SameReceipt ==
    ASSUME TypeOK, NEW a \in receipts, ReceiptOK(a), Same(a.job)
    PROVE  ReceiptOK(a)'
<1>1. a.job \in Jobs /\ row[a.job].ed \in {1, 2}
      BY FieldTypes
<1> QED BY <1>1 DEF ReceiptOK, Sent, InDoubt, Same

\* A step that touches one job keeps the invariant if that job, its senders and
\* its receipts stay in order.
LEMMA LocalStep ==
    ASSUME TypeOK, Inv, NEW j \in Jobs,
           \A k \in Jobs : k # j => Same(k),
           evidence \subseteq evidence', resolved \subseteq resolved',
           \A a \in receipts' : a \in receipts \/ a.job = j,
           disposed' \subseteq disposed \cup {j}, disposed \subseteq Jobs,
           \A u \in Senders : \/ sender'[u] = sender[u] \/ sender'[u].ph = "idle"
                              \/ sender'[u].job = j,
           RowOK(j)', ShownOK(j)',
           \A u \in Senders : sender'[u].ph # "idle" /\ sender'[u].job = j => SenderOK(u)',
           \A a \in receipts' : a.job = j => ReceiptOK(a)',
           j \in disposed' => ParkedOK(j)',
           OneSenderPerLease'
    PROVE  Inv'
<1>1. ASSUME NEW k \in Jobs PROVE RowOK(k)' /\ ShownOK(k)'
      BY <1>1, SameJob DEF Inv
<1>2. ASSUME NEW u \in Senders, sender'[u].ph # "idle" PROVE SenderOK(u)'
  <2>1. CASE sender'[u].job = j
    BY <1>2, <2>1
  <2>2. CASE sender'[u].job # j
    <3>1. sender'[u] = sender[u] /\ sender[u].job \in Jobs
      BY <1>2, <2>2, FieldTypes
    <3>2. \A a \in receipts' : a.job = sender[u].job => a \in receipts
      BY <2>2, <3>1
    <3> QED BY <1>2, <2>2, <3>1, <3>2, SameSender DEF Inv
  <2> QED BY <2>1, <2>2
<1>3. ASSUME NEW a \in receipts' PROVE ReceiptOK(a)'
  <2>1. CASE a.job = j
    BY <1>3, <2>1
  <2>2. CASE a.job # j
    BY <1>3, <2>2, SameReceipt, FieldTypes DEF Inv
  <2> QED BY <2>1, <2>2
<1>4. ASSUME NEW k \in disposed' PROVE ParkedOK(k)'
  <2>1. CASE k = j
    BY <1>4, <2>1
  <2>2. CASE k # j
    BY <1>4, <2>2 DEF Inv, ParkedOK, Same
  <2> QED BY <2>1, <2>2
<1> QED BY <1>1, <1>2, <1>3, <1>4 DEF Inv

\* Publishing a result or a notice: the job had no row.
LEMMA PublishInv ==
    ASSUME TypeOK, Inv, NEW j \in Jobs, NEW n \in Parts, NEW kind \in {"result", "notice"},
           job[j] = "none", job'[j] \notin {"none", "completed"},
           row' = [row EXCEPT ![j] = NewRow(kind, 1, n)],
           \A k \in Jobs : k # j => job'[k] = job[k],
           evidence \subseteq evidence',
           UNCHANGED <<resolved, disposed, receipts, tokens, sender, chat>>
    PROVE  Inv'
<1>1. /\ row'[j].st = "pending" /\ row'[j].tok = 0 /\ row'[j].ed = 1 /\ row'[j].size = n
      /\ row'[j].done = 0 /\ row'[j].started = 0 /\ n \in Nat /\ n > 0
      BY FreshRow DEF TypeOK, Editions, Parts
<1>2. RowOK(j) /\ ShownOK(j) /\ row[j].st = "absent" /\ row[j].ed = 1 /\ row[j].done = 0
      BY DEF Inv, RowOK
<1>t. tokens'[j] \in Nat
      BY FieldTypes
<1>3. RowOK(j)'
      BY <1>1, <1>t DEF RowOK
<1>4. ShownOK(j)'
      BY <1>1, <1>2 DEF ShownOK, Sent, InDoubt
<1>5. ASSUME NEW u \in Senders, sender[u].ph # "idle", sender[u].job = j PROVE SenderOK(u)'
      BY <1>1, <1>2, <1>5 DEF Inv, SenderOK, Owns, Sent, InDoubt
<1>6. ASSUME NEW a \in receipts, a.job = j PROVE ReceiptOK(a)'
      BY <1>1, <1>6 DEF Inv, ReceiptOK, InDoubt
<1>7. j \notin disposed
      BY <1>2 DEF Inv, ParkedOK
<1>8. \A k \in Jobs : k # j => Same(k)
      BY DEF Same, TypeOK
<1>9. OneSenderPerLease'
      BY DEF Inv, OneSenderPerLease
<1> QED BY <1>3, <1>4, <1>5, <1>6, <1>7, <1>8, <1>9, LocalStep DEF TypeOK

\* Observing how the turn of an uncertain job ended.
LEMMA ObserveInv ==
    ASSUME TypeOK, Inv, NEW j \in Jobs, NEW kind \in {"result", "notice"}, NEW n \in Parts,
           Observe(j, kind, n)
    PROVE  Inv'
<1> USE DEF factVars, proofVars
<1>1. RowOK(j) /\ ShownOK(j)
      BY DEF Inv
<1>2. UNCHANGED <<resolved, disposed, receipts, tokens, sender, chat>>
      /\ evidence \subseteq evidence' /\ job[j] = "indeterminate"
      /\ \A k \in Jobs : k # j => Same(k)
      BY DEF Observe, Same, TypeOK
<1>3. OneSenderPerLease'
      BY <1>2 DEF Inv, OneSenderPerLease
<1>4. CASE ~Replaceable(j)
  <2>1. UNCHANGED <<row, job>> /\ j \in evidence'
    BY <1>4 DEF Observe
  <2>2. Same(j)
    BY <1>2, <2>1 DEF Same
  <2>3. ParkedOK(j) => ParkedOK(j)'
    BY <1>2, <2>1 DEF ParkedOK
  <2>4. ASSUME NEW u \in Senders, sender[u].ph # "idle", sender[u].job = j PROVE SenderOK(u)'
    BY <1>2, <2>2, <2>4, SameSender DEF Inv
  <2>5. RowOK(j)' /\ ShownOK(j)'
    BY <1>1, <1>2, <2>2, SameJob
  <2>6. ASSUME NEW a \in receipts, a.job = j PROVE ReceiptOK(a)'
    BY <1>2, <2>2, <2>6, SameReceipt DEF Inv
  <2>7. j \in disposed => ParkedOK(j)'
    BY <2>3 DEF Inv
  <2> QED BY <1>2, <1>3, <2>4, <2>5, <2>6, <2>7, LocalStep DEF TypeOK
<1>5. CASE Replaceable(j)
  <2>1. row[j].ed = 1 /\ Len(chat[<<j, 2>>]) = 0 /\ ~InDoubt(row[j])
    BY <1>1, <1>5, FieldTypes DEF Observe, Replaceable, RowOK, ShownOK, InDoubt
  <2>2. /\ row'[j].st = "pending" /\ row'[j].tok = 0 /\ row'[j].ed = 2 /\ row'[j].size = n
        /\ row'[j].done = 0 /\ row'[j].started = 0 /\ n \in Nat /\ n > 0
    BY <1>5, FreshRow DEF Observe, TypeOK, Editions, Parts
  <2>3. job'[j] = "result_ready" \/ (job'[j] = "indeterminate" /\ j \in evidence')
    BY <1>2, <1>5 DEF Observe, TypeOK
  <2>t. tokens'[j] \in Nat
    BY <1>2, FieldTypes
  <2>4. RowOK(j)'
    BY <2>2, <2>3, <2>t DEF RowOK
  <2>5. ShownOK(j)'
    BY <1>2, <2>1, <2>2 DEF ShownOK, Sent, InDoubt
  <2>6. ASSUME NEW u \in Senders, sender[u].ph # "idle", sender[u].job = j PROVE SenderOK(u)'
    BY <1>2, <2>1, <2>2, <2>6 DEF Inv, SenderOK, Owns, Sent, InDoubt
  <2>7. ASSUME NEW a \in receipts, a.job = j PROVE ReceiptOK(a)'
    BY <1>2, <2>2, <2>7 DEF Inv, ReceiptOK, InDoubt
  <2>8. j \notin disposed
    BY <1>2, <1>5 DEF Inv, ParkedOK, Observe, Replaceable
  <2> QED BY <1>2, <1>3, <2>4, <2>5, <2>6, <2>7, <2>8, LocalStep DEF TypeOK
<1> QED BY <1>4, <1>5

\* A fresh lease: its token is new to every sender and every receipt.
LEMMA LeaseInv ==
    ASSUME TypeOK, Inv, NEW s \in Senders, NEW j \in Jobs, LeaseOutbox(s, j)
    PROVE  Inv'
<1> USE DEF factVars, proofVars
<1>1. RowOK(j) /\ ShownOK(j) /\ row[j].st = "pending"
      BY DEF Inv, LeaseOutbox
<1>2. UNCHANGED <<job, evidence, resolved, disposed, receipts, chat>>
      /\ tokens'[j] = tokens[j] + 1 /\ tokens[j] \in Nat
      /\ \A k \in Jobs : k # j => Same(k)
      BY FieldTypes DEF LeaseOutbox, Same, TypeOK
<1>3. /\ row'[j].st = "sending" /\ row'[j].tok = tokens'[j] /\ row'[j].ed = row[j].ed
      /\ row'[j].size = row[j].size /\ row'[j].done = row[j].done /\ row'[j].started = 0
  <2>1. row[j] \in Rows /\ tokens'[j] \in Nat
    BY <1>2 DEF TypeOK
  <2>2. row' = [row EXCEPT ![j] = Leased(row[j], tokens'[j])]
    BY Zenon DEF LeaseOutbox
  <2>3. row'[j] = Leased(row[j], tokens'[j])
    BY <2>2 DEF TypeOK
  <2> QED BY <2>1, <2>3, LeasedRow
<1>4. /\ sender[s].ph = "idle"
      /\ sender'[s].ph = "leased" /\ sender'[s].job = j /\ sender'[s].tok = tokens'[j]
      /\ sender'[s].ed = row[j].ed
      /\ \A u \in Senders : u # s => sender'[u] = sender[u]
      BY DEF LeaseOutbox, TypeOK
<1>5. RowOK(j)'
      BY <1>1, <1>2, <1>3, FieldTypes DEF RowOK
<1>6. ShownOK(j)'
      BY <1>1, <1>2, <1>3 DEF ShownOK, Sent, InDoubt
<1>7. ASSUME NEW a \in receipts, a.job = j PROVE ReceiptOK(a)' /\ a.tok # tokens'[j]
      BY <1>2, <1>3, <1>7, FieldTypes DEF Inv, ReceiptOK, InDoubt
<1>8. SenderOK(s)'
      BY <1>2, <1>3, <1>4, <1>7 DEF SenderOK, Owns
<1>9. ASSUME NEW u \in Senders, u # s, sender[u].ph # "idle", sender[u].job = j
      PROVE  SenderOK(u)' /\ sender[u].tok # tokens'[j]
  <2>1. SenderOK(u) /\ sender'[u] = sender[u] /\ sender[u].tok \in Nat
    BY <1>4, <1>9, FieldTypes DEF Inv
  <2>2. sender[u].tok <= tokens[j] /\ sender[u].ph \notin {"begun", "refused"}
    BY <1>1, <1>9, <2>1 DEF SenderOK, InDoubt
  <2>3. sender[u].tok # tokens'[j] /\ sender[u].tok <= tokens'[j]
    BY <1>2, <2>1, <2>2
  <2> QED BY <1>2, <1>3, <1>9, <2>1, <2>2, <2>3 DEF SenderOK, Owns, InDoubt
<1>10. OneSenderPerLease'
      BY <1>4, <1>9 DEF Inv, OneSenderPerLease
<1>11. j \notin disposed
      BY <1>1 DEF Inv, ParkedOK
<1>12. \A u \in Senders : sender'[u].ph # "idle" /\ sender'[u].job = j => SenderOK(u)'
      BY <1>4, <1>8, <1>9
<1> QED BY <1>2, <1>4, <1>5, <1>6, <1>7, <1>10, <1>11, <1>12, LocalStep DEF TypeOK

\* A step that ends the lease of a row whose shown parts all have receipts.
LEMMA BackInv ==
    ASSUME TypeOK, Inv, NEW s \in Senders, NEW j \in Jobs, NEW r \in Rows,
           sender[s].ph \in {"leased", "refused"}, sender[s].job = j, Owns(s),
           r.st \in {"pending", "failed"}, r.tok = 0, r.started = 0,
           r.ed = row[j].ed, r.size = row[j].size, r.done = row[j].done,
           row' = [row EXCEPT ![j] = r],
           job'[j] = job[j] \/ (job[j] = "result_ready" /\ job'[j] = "failed"),
           \A k \in Jobs : k # j => job'[k] = job[k],
           SenderRests(s),
           UNCHANGED <<evidence, resolved, disposed, receipts, tokens, chat>>
    PROVE  Inv'
<1>1. RowOK(j) /\ ShownOK(j) /\ SenderOK(s) /\ row[j].st = "sending"
      BY DEF Inv, Owns
<1>2. Len(Sent(j)) = row[j].done
      BY <1>1, FieldTypes DEF SenderOK, ShownOK
<1>3. row'[j] = r /\ tokens'[j] \in Nat
      BY FieldTypes DEF TypeOK
<1>4. RowOK(j)'
      BY <1>1, <1>3 DEF RowOK
<1>5. ShownOK(j)'
      BY <1>1, <1>2, <1>3 DEF ShownOK, Sent
<1>6. sender'[s].ph = "idle" /\ \A u \in Senders : u # s => sender'[u] = sender[u]
      BY RestingSender
<1>7. ASSUME NEW u \in Senders, u # s, sender[u].ph # "idle", sender[u].job = j
      PROVE  SenderOK(u)'
  <2>1. SenderOK(u) /\ sender'[u] = sender[u] /\ sender[u].tok # sender[s].tok
    BY <1>6, <1>7 DEF Inv, OneSenderPerLease
  <2>2. sender[u].ph \notin {"begun", "refused"}
    BY <1>1, <1>7, <2>1 DEF SenderOK, RowOK, Owns
  <2> QED BY <1>3, <1>7, <2>1, <2>2 DEF SenderOK, Owns, InDoubt
<1>8. ASSUME NEW a \in receipts, a.job = j PROVE ReceiptOK(a)'
      BY <1>3, <1>8 DEF Inv, ReceiptOK, InDoubt
<1>9. j \notin disposed
      BY <1>1 DEF Inv, ParkedOK
<1>10. \A k \in Jobs : k # j => Same(k)
      BY DEF Same, TypeOK
<1>11. OneSenderPerLease'
      BY <1>6 DEF Inv, OneSenderPerLease
<1>12. \A u \in Senders : sender'[u].ph # "idle" /\ sender'[u].job = j => SenderOK(u)'
      BY <1>6, <1>7
<1> QED BY <1>4, <1>5, <1>6, <1>8, <1>9, <1>10, <1>11, <1>12, LocalStep DEF TypeOK

\* The fence before a send.
LEMMA BeginInv ==
    ASSUME TypeOK, Inv, NEW s \in Senders, NEW ack \in BOOLEAN, BeginSend(s, ack)
    PROVE  Inv'
<1> USE DEF factVars
<1>9. PICK j \in Jobs : sender[s].job = j
      BY FieldTypes DEF BeginSend
<1>1. sender[s].tok \in Nat /\ row[j] \in Rows /\ tokens[j] \in Nat
      BY FieldTypes DEF BeginSend
<1>2. /\ RowOK(j) /\ ShownOK(j) /\ SenderOK(s) /\ Owns(s) /\ row[j].st = "sending"
      /\ row[j].started = 0 /\ sender[s].ph = "leased" /\ sender[s].part = row[j].done + 1
      BY <1>9 DEF Inv, BeginSend, Owns
<1>3. UNCHANGED <<job, evidence, resolved, disposed, receipts, tokens, chat>>
      BY DEF BeginSend
<1>4. row' = [row EXCEPT ![j] = Started(row[j], sender[s].tok)]
      BY <1>9 DEF BeginSend
<1>5. row'[j] = Started(row[j], sender[s].tok)
      BY <1>1, <1>4 DEF TypeOK
<1>6. /\ row'[j].st = "sending" /\ row'[j].tok = row[j].tok /\ row'[j].ed = row[j].ed
      /\ row'[j].size = row[j].size /\ row'[j].done = row[j].done
      /\ row'[j].started = sender[s].tok
  <2>1. row[j].st = "sending"
    BY <1>2
  <2>2. row[j] \in Rows /\ sender[s].tok \in Nat
    BY <1>1
  <2>3. LET q == Started(row[j], sender[s].tok) IN
        /\ q.st = row[j].st /\ q.tok = row[j].tok /\ q.ed = row[j].ed
        /\ q.size = row[j].size /\ q.done = row[j].done /\ q.started = sender[s].tok
    BY <2>2, StartedRow
  <2> QED BY <1>5, <2>1, <2>3
<1>7. /\ sender'[s].ph = "idle" \/ /\ sender'[s].ph = "begun" /\ sender'[s].job = j
                                   /\ sender'[s].tok = sender[s].tok
                                   /\ sender'[s].ed = sender[s].ed
                                   /\ sender'[s].part = sender[s].part
      /\ \A u \in Senders : u # s => sender'[u] = sender[u]
      BY <1>2, <1>9, PhaseSender, RestingSender DEF BeginSend, SendPhases
<1>8. Len(Sent(j)) = row[j].done /\ Sent(j)' = Sent(j)
      BY <1>2, <1>3, <1>6 DEF ShownOK, Sent
<1>10. RowOK(j)'
      BY <1>1, <1>2, <1>3, <1>6, <1>9 DEF RowOK, Owns
<1>11. ShownOK(j)'
      BY <1>2, <1>3, <1>6, <1>8 DEF ShownOK
<1>12. ASSUME sender'[s].ph # "idle" PROVE SenderOK(s)'
      BY <1>2, <1>3, <1>6, <1>7, <1>8, <1>9, <1>12 DEF SenderOK, InDoubt
<1>13. ASSUME NEW u \in Senders, u # s, sender[u].ph # "idle", sender[u].job = j
       PROVE  SenderOK(u)'
  <2>1. SenderOK(u) /\ sender'[u] = sender[u] /\ sender[u].tok # sender[s].tok
    BY <1>2, <1>7, <1>9, <1>13 DEF Inv, OneSenderPerLease
  <2>2. sender[u].ph \notin {"begun", "refused"}
    BY <1>2, <1>13, <2>1 DEF SenderOK
  <2>3. ~Owns(u)
    BY <1>2, <1>9, <1>13, <2>1 DEF Owns
  <2> QED BY <1>2, <1>3, <1>6, <1>9, <1>13, <2>1, <2>2, <2>3 DEF SenderOK, Owns
<1>14. ASSUME NEW a \in receipts, a.job = j PROVE ReceiptOK(a)'
  <2>1. a.tok # sender[s].tok /\ ReceiptOK(a)
    BY <1>2, <1>9, <1>14 DEF Inv, SenderOK
  <2> QED BY <1>3, <1>6, <1>14, <2>1 DEF ReceiptOK
<1>15. j \notin disposed
      BY <1>2 DEF Inv, ParkedOK
<1>16. \A k \in Jobs : k # j => Same(k)
      BY <1>3, <1>4 DEF Same, TypeOK
<1>17. OneSenderPerLease'
      BY <1>2, <1>7, <1>9 DEF Inv, OneSenderPerLease
<1>18. \A u \in Senders : sender'[u].ph # "idle" /\ sender'[u].job = j => SenderOK(u)'
      BY <1>7, <1>12, <1>13
<1>19. \A u \in Senders : sender'[u] = sender[u] \/ sender'[u].ph = "idle" \/ sender'[u].job = j
      BY <1>7
<1> QED BY <1>1, <1>3, <1>10, <1>11, <1>14, <1>15, <1>16, <1>17, <1>18, <1>19, LocalStep
        DEF TypeOK

\* The send itself: only the sender of the last attempt can add to the chat.
LEMMA SendInv ==
    ASSUME TypeOK, Inv, NEW s \in Senders, NEW shown \in BOOLEAN, NEW known \in BOOLEAN,
           Send(s, shown, known)
    PROVE  Inv'
<1> USE DEF factVars, proofVars
<1>0. PICK j \in Jobs : sender[s].job = j
      BY FieldTypes DEF Send
<1>m. PICK m : m = <<j, sender[s].ed>>
      OBVIOUS
<1>1. sender[s].tok \in Nat /\ row[j].ed \in {1, 2} /\ row[j].done \in Nat
      BY FieldTypes
<1>2. /\ RowOK(j) /\ ShownOK(j) /\ SenderOK(s) /\ sender[s].ph = "begun"
      /\ InDoubt(row[j]) /\ row[j].started = sender[s].tok /\ sender[s].ed = row[j].ed
      /\ sender[s].part = row[j].done + 1 /\ Len(Sent(j)) = row[j].done
      BY <1>0 DEF Inv, Send, SenderOK
<1>3. UNCHANGED <<row, job, evidence, resolved, disposed, receipts, tokens>>
      BY DEF Send
<1>4. m \in Jobs \X Editions /\ chat[m] \in Seq(Nat) /\ m = <<j, row[j].ed>>
      BY <1>1, <1>2, <1>m DEF TypeOK, Editions
<1>5. Len(Sent(j)') = IF shown THEN row[j].done + 1 ELSE row[j].done
  <2>1. CASE shown
    <3>1. chat'[m] = Append(chat[m], sender[s].part)
      BY <1>0, <1>m, <1>4, <2>1 DEF Send, TypeOK
    <3> QED BY <1>1, <1>2, <1>3, <1>4, <2>1, <3>1 DEF Sent
  <2>2. CASE ~shown
    BY <1>2, <1>3, <2>2 DEF Send, Sent
  <2> QED BY <2>1, <2>2
<1>6. \A x \in Jobs \X Editions : x # m => chat'[x] = chat[x]
      BY <1>0, <1>m, <1>4 DEF Send, TypeOK
<1>7. /\ sender'[s].ph \in {"unproven", "accepted", "refused"} /\ sender'[s].job = j
      /\ sender'[s].tok = sender[s].tok /\ sender'[s].ed = sender[s].ed
      /\ sender'[s].part = sender[s].part
      /\ sender'[s].ph = "accepted" => shown
      /\ sender'[s].ph = "refused" => ~shown
      /\ \A u \in Senders : u # s => sender'[u] = sender[u]
      BY <1>0, <1>2, PhaseSender DEF Send, SendPhases
<1>8. sender[s].job = j /\ sender[s].tok # 0
      BY <1>0, <1>2 DEF SenderOK
<1>9. RowOK(j)'
      BY <1>2, <1>3 DEF RowOK
<1>10. ShownOK(j)'
  <2>1. row[j].ed = 1 => chat'[<<j, 2>>] = chat[<<j, 2>>]
    BY <1>1, <1>4, <1>6 DEF Editions
  <2> QED BY <1>2, <1>3, <1>5, <1>8, <2>1 DEF ShownOK
<1>11. SenderOK(s)'
      BY <1>2, <1>3, <1>5, <1>7, <1>8 DEF SenderOK
<1>12. ASSUME NEW u \in Senders, u # s, sender[u].ph # "idle", sender[u].job = j
       PROVE  SenderOK(u)'
  <2>1. SenderOK(u) /\ sender'[u] = sender[u] /\ sender[u].tok # sender[s].tok
    BY <1>2, <1>7, <1>8, <1>12 DEF Inv, OneSenderPerLease
  <2>2. sender[u].ph \notin {"begun", "refused"}
    BY <1>2, <1>12, <2>1 DEF SenderOK
  <2> QED BY <1>2, <1>3, <1>12, <2>1, <2>2 DEF SenderOK, Owns
<1>13. ASSUME NEW a \in receipts, a.job = j PROVE ReceiptOK(a)'
  <2>1. a.tok # sender[s].tok /\ ReceiptOK(a)
    BY <1>1, <1>2, <1>13 DEF Inv, ReceiptOK
  <2> QED BY <1>2, <1>3, <1>13, <2>1 DEF ReceiptOK
<1>14. j \in disposed => ParkedOK(j)'
      BY <1>3 DEF Inv, ParkedOK
<1>15. \A k \in Jobs : k # j => Same(k)
      BY <1>3, <1>4, <1>6 DEF Same, Editions
<1>16. OneSenderPerLease'
      BY <1>2, <1>7, <1>8 DEF Inv, OneSenderPerLease
<1>17. \A u \in Senders : sender'[u].ph # "idle" /\ sender'[u].job = j => SenderOK(u)'
      BY <1>7, <1>11, <1>12
<1>18. \A u \in Senders : sender'[u] = sender[u] \/ sender'[u].ph = "idle" \/ sender'[u].job = j
      BY <1>7
<1> QED BY <1>1, <1>3, <1>9, <1>10, <1>13, <1>14, <1>15, <1>16, <1>17, <1>18, LocalStep
        DEF TypeOK

\* Giving up on knowing what became of a begun send.
LEMMA UnknownInv ==
    ASSUME TypeOK, Inv, NEW s \in Senders, MarkUnknown(s)
    PROVE  Inv'
<1> USE DEF factVars, proofVars
<1>0. PICK j \in Jobs : sender[s].job = j
      BY FieldTypes DEF MarkUnknown
<1>1. RowOK(j) /\ ShownOK(j) /\ SenderOK(s)
      BY <1>0 DEF Inv, MarkUnknown
<1>2. row[j].st = "sending" /\ row[j].started # 0 /\ row[j].tok = sender[s].tok
      BY <1>0 DEF MarkUnknown, Owns
<1>3. UNCHANGED <<job, evidence, resolved, disposed, receipts, tokens, chat>>
      BY DEF MarkUnknown
<1>4. row' = [row EXCEPT ![j] = Unleased(row[j], "unknown")]
      BY <1>0 DEF MarkUnknown
<1>5. row'[j] = Unleased(row[j], "unknown") /\ row[j] \in Rows /\ tokens[j] \in Nat
      BY <1>4 DEF TypeOK
<1>6. /\ row'[j].st = "unknown" /\ row'[j].tok = 0 /\ row'[j].ed = row[j].ed
      /\ row'[j].size = row[j].size /\ row'[j].done = row[j].done
      /\ row'[j].started = row[j].started
      BY <1>5, UnleasedRow DEF RowStatus
<1>7. sender'[s].ph = "idle" /\ \A u \in Senders : u # s => sender'[u] = sender[u]
      BY RestingSender DEF MarkUnknown
<1>8. RowOK(j)'
      BY <1>1, <1>2, <1>3, <1>5, <1>6 DEF RowOK
<1>9. ShownOK(j)'
      BY <1>1, <1>2, <1>3, <1>6 DEF ShownOK, Sent, InDoubt
<1>10. ASSUME NEW u \in Senders, u # s, sender[u].ph # "idle", sender[u].job = j
       PROVE  SenderOK(u)'
  <2>1. SenderOK(u) /\ sender'[u] = sender[u]
    BY <1>7, <1>10 DEF Inv
  <2> QED BY <1>2, <1>3, <1>6, <1>10, <2>1 DEF SenderOK, Owns, Sent, InDoubt
<1>11. ASSUME NEW a \in receipts, a.job = j PROVE ReceiptOK(a)'
  <2>1. ReceiptOK(a)
    BY DEF Inv
  <2> QED BY <1>2, <1>3, <1>6, <1>11, <2>1 DEF ReceiptOK, Sent, InDoubt
<1>12. j \notin disposed
      BY <1>2 DEF Inv, ParkedOK
<1>13. \A k \in Jobs : k # j => Same(k)
      BY <1>3, <1>4 DEF Same, TypeOK
<1>14. OneSenderPerLease'
      BY <1>7 DEF Inv, OneSenderPerLease
<1>15. \A u \in Senders : sender'[u].ph # "idle" /\ sender'[u].job = j => SenderOK(u)'
      BY <1>7, <1>10
<1>16. \A u \in Senders : sender'[u] = sender[u] \/ sender'[u].ph = "idle" \/ sender'[u].job = j
      BY <1>7
<1> QED BY <1>3, <1>8, <1>9, <1>11, <1>12, <1>13, <1>14, <1>15, <1>16, LocalStep
        DEF TypeOK

\* Recording the receipt of an accepted send.
LEMMA RecordInv ==
    ASSUME TypeOK, Inv, NEW s \in Senders, RecordReceipt(s)
    PROVE  Inv'
<1> USE DEF factVars
<1>0. PICK j \in Jobs : sender[s].job = j
      BY FieldTypes DEF RecordReceipt
<1>1. RowOK(j) /\ ShownOK(j) /\ SenderOK(s) /\ sender[s].ph = "accepted"
      BY <1>0 DEF Inv, RecordReceipt
<1>2. UNCHANGED <<row, job, evidence, resolved, disposed, tokens, chat>>
      BY DEF RecordReceipt
<1>3. receipts' = receipts \cup {AttemptOf(s)}
      BY DEF RecordReceipt
<1>4. AttemptOf(s).job = j /\ AttemptOf(s).tok = sender[s].tok
      BY <1>0 DEF AttemptOf
<1>5. /\ sender'[s].ph = "recorded" /\ sender'[s].job = j /\ sender'[s].tok = sender[s].tok
      /\ \A u \in Senders : u # s => sender'[u] = sender[u]
      BY <1>0, <1>1, PhaseSender DEF RecordReceipt, SendPhases
<1>6. RowOK(j)' /\ ShownOK(j)'
      BY <1>1, <1>2 DEF RowOK, ShownOK, Sent, InDoubt
<1>7. SenderOK(s)'
      BY <1>0, <1>1, <1>2, <1>5 DEF SenderOK, Sent, InDoubt
<1>8. ASSUME NEW u \in Senders, u # s, sender[u].ph # "idle", sender[u].job = j
      PROVE  SenderOK(u)'
  <2>1. SenderOK(u) /\ sender'[u] = sender[u] /\ sender[u].tok # sender[s].tok
    BY <1>0, <1>1, <1>5, <1>8 DEF Inv, OneSenderPerLease
  <2> QED BY <1>2, <1>3, <1>4, <1>8, <2>1 DEF SenderOK, Owns, Sent, InDoubt
<1>9. ASSUME NEW a \in receipts', a.job = j PROVE ReceiptOK(a)'
  <2>1. CASE a \in receipts
    BY <1>2, <2>1 DEF Inv, ReceiptOK, Sent, InDoubt
  <2>2. CASE a = AttemptOf(s)
    BY <1>0, <1>1, <1>2, <1>4, <2>2 DEF SenderOK, ReceiptOK, Sent, InDoubt
  <2> QED BY <1>3, <1>9, <2>1, <2>2
<1>10. j \in disposed => ParkedOK(j)'
      BY <1>2 DEF Inv, ParkedOK
<1>11. \A k \in Jobs : k # j => Same(k)
      BY <1>2 DEF Same
<1>12. OneSenderPerLease'
      BY <1>0, <1>1, <1>5 DEF Inv, OneSenderPerLease
<1>13. \A u \in Senders : sender'[u].ph # "idle" /\ sender'[u].job = j => SenderOK(u)'
      BY <1>5, <1>7, <1>8
<1>14. \A u \in Senders : sender'[u] = sender[u] \/ sender'[u].ph = "idle" \/ sender'[u].job = j
      BY <1>5
<1>15. \A a \in receipts' : a \in receipts \/ a.job = j
      BY <1>3, <1>4
<1> QED BY <1>2, <1>6, <1>9, <1>10, <1>11, <1>12, <1>13, <1>14, <1>15, LocalStep
        DEF TypeOK

\* Applying a receipt: the part in doubt was shown.
LEMMA SettleInv ==
    ASSUME TypeOK, Inv, NEW a \in Attempts, CanSettle(a), Settle(a),
           Len(Sent(a.job)) = row[a.job].done + 1,
           \A u \in Senders : sender'[u] = sender[u] \/ sender'[u].ph = "idle",
           UNCHANGED <<evidence, resolved, disposed, receipts, tokens, chat>>
    PROVE  Inv'
<1>0. PICK j \in Jobs : a.job = j
      BY DEF Attempts
<1>1. RowOK(j) /\ ShownOK(j)
      BY DEF Inv
<1>2. /\ InDoubt(row[j]) /\ row[j].started = a.tok /\ j \notin disposed
      /\ job[j] \in {"result_ready", "failed", "indeterminate"}
      /\ Len(Sent(j)) = row[j].done + 1
      BY <1>0 DEF CanSettle, InDoubt
<1>3. row' = [row EXCEPT ![j] = SettledRow(row[j])]
      BY <1>0 DEF Settle
<1>4. /\ row[j] \in Rows /\ row[j].done \in Nat /\ row[j].size \in Nat /\ tokens[j] \in Nat
      /\ row[j].started \in Nat
      BY FieldTypes
<1>5. LET q == SettledRow(row[j]) IN
      /\ q.tok = 0 /\ q.ed = row[j].ed /\ q.size = row[j].size /\ q.done = row[j].done + 1
      /\ row[j].done + 1 < row[j].size => q.st = "pending" /\ q.started = 0
      /\ ~(row[j].done + 1 < row[j].size) => q.st = "delivered" /\ q.started = row[j].started
      BY <1>4, SettledFields
<1>6. row'[j] = SettledRow(row[j])
      BY <1>3 DEF TypeOK
<1>7. /\ job'[j] = job[j] \/ (job'[j] = "completed" /\ SettledRow(row[j]).st = "delivered")
      /\ \A k \in Jobs : k # j => job'[k] = job[k]
      BY <1>0 DEF Settle, TypeOK
<1>8. ~InDoubt(row'[j]) /\ row'[j].st \notin {"absent", "sending"}
      BY <1>5, <1>6 DEF InDoubt
<1>9. RowOK(j)'
  <2>1. row[j].done < row[j].size
    BY <1>1, <1>2 DEF RowOK, InDoubt
  <2> QED BY <1>1, <1>2, <1>4, <1>5, <1>6, <1>7, <2>1 DEF RowOK, InDoubt
<1>10. ShownOK(j)'
      BY <1>1, <1>2, <1>5, <1>6 DEF ShownOK, Sent
<1>11. ASSUME NEW u \in Senders, sender'[u].ph # "idle", sender'[u].job = j
       PROVE  SenderOK(u)'
  <2>1. SenderOK(u) /\ sender'[u] = sender[u] /\ sender[u].job = j
    BY <1>11 DEF Inv
  <2>2. sender[u].ph \notin {"begun", "refused"}
    BY <1>2, <1>4, <2>1 DEF SenderOK
  <2> QED BY <1>8, <2>1, <2>2 DEF SenderOK, Owns
<1>12. ASSUME NEW b \in receipts, b.job = j PROVE ReceiptOK(b)'
      BY <1>8, <1>12 DEF Inv, ReceiptOK
<1>13. \A k \in Jobs : k # j => Same(k)
      BY <1>3, <1>7 DEF Same, TypeOK
<1>14. OneSenderPerLease'
      BY DEF Inv, OneSenderPerLease
<1> QED BY <1>2, <1>9, <1>10, <1>11, <1>12, <1>13, <1>14, LocalStep DEF TypeOK

\* Steps that change no row, job, chat, receipt or disposition, and only let
\* senders rest.
LEMMA QuietInv ==
    ASSUME TypeOK, Inv, UNCHANGED <<row, job, disposed, receipts, tokens, chat>>,
           evidence \subseteq evidence', resolved \subseteq resolved',
           \A u \in Senders : sender'[u] = sender[u] \/ sender'[u].ph = "idle"
    PROVE  Inv'
<1>1. \A k : Same(k)
      BY DEF Same
<1>2. ASSUME NEW k \in Jobs PROVE RowOK(k)' /\ ShownOK(k)'
      BY <1>1, SameJob DEF Inv
<1>3. ASSUME NEW u \in Senders, sender'[u].ph # "idle" PROVE SenderOK(u)'
      BY <1>1, <1>3, SameSender DEF Inv
<1>4. ASSUME NEW a \in receipts PROVE ReceiptOK(a)'
      BY <1>1, SameReceipt DEF Inv
<1>5. ASSUME NEW k \in disposed PROVE ParkedOK(k)'
      BY DEF Inv, ParkedOK
<1>6. OneSenderPerLease'
      BY DEF Inv, OneSenderPerLease
<1> QED BY <1>2, <1>3, <1>4, <1>5, <1>6 DEF Inv

\* Leases that run out and stale recovery: the row keeps its edition, its parts
\* and its last attempt, and an open send stays in doubt.
LEMMA StaleInv ==
    ASSUME TypeOK, TypeOK', Inv,
           \A j \in Jobs :
              /\ row'[j].ed = row[j].ed /\ row'[j].size = row[j].size
              /\ row'[j].done = row[j].done /\ row'[j].started = row[j].started
              /\ \/ row'[j].st = row[j].st /\ row'[j].tok = row[j].tok
                 \/ /\ row[j].st = "sending" /\ row'[j].tok = 0
                    /\ row'[j].st = IF row[j].started = 0 THEN "pending" ELSE "unknown",
           UNCHANGED <<job, evidence, resolved, disposed, receipts, tokens, sender, chat>>
    PROVE  Inv'
<1>1. ASSUME NEW j \in Jobs PROVE RowOK(j)' /\ ShownOK(j)'
  <2>1. RowOK(j) /\ ShownOK(j) /\ tokens[j] \in Nat
    BY FieldTypes DEF Inv
  <2>2. RowOK(j)'
    BY <2>1 DEF RowOK
  <2>3. ShownOK(j)'
    BY <2>1 DEF ShownOK, Sent, InDoubt
  <2> QED BY <2>2, <2>3
<1>2. ASSUME NEW u \in Senders, sender[u].ph # "idle" PROVE SenderOK(u)'
  <2>1. PICK j \in Jobs : sender[u].job = j
    BY <1>2, FieldTypes
  <2>2. SenderOK(u) /\ RowOK(j)
    BY <1>2 DEF Inv
  <2> QED BY <2>1, <2>2 DEF SenderOK, RowOK, Owns, Sent, InDoubt
<1>3. ASSUME NEW a \in receipts PROVE ReceiptOK(a)'
  <2>1. PICK j \in Jobs : a.job = j
    BY FieldTypes
  <2>2. ReceiptOK(a) /\ RowOK(j)
    BY DEF Inv
  <2> QED BY <2>1, <2>2 DEF ReceiptOK, RowOK, Sent, InDoubt
<1>4. ASSUME NEW k \in disposed PROVE ParkedOK(k)'
  <2>1. ParkedOK(k) /\ k \in Jobs
    BY DEF Inv, TypeOK
  <2> QED BY <2>1 DEF ParkedOK
<1>5. OneSenderPerLease'
      BY DEF Inv, OneSenderPerLease
<1> QED BY <1>1, <1>2, <1>3, <1>4, <1>5 DEF Inv

\* Every action preserves the invariant.
LEMMA StepInv == TypeOK /\ TypeOK' /\ Inv /\ [Next]_vars => Inv'
<1> SUFFICES ASSUME TypeOK, TypeOK', Inv, [Next]_vars PROVE Inv'
    OBVIOUS
<1> USE DEF factVars, proofVars
<1>1. ASSUME NEW j \in Jobs, NEW n \in Parts, PublishResult(j, n) PROVE Inv'
      BY <1>1, PublishInv DEF PublishResult, TypeOK
<1>2. ASSUME NEW j \in Jobs, NEW n \in Parts, NEW st \in {"failed", "indeterminate"},
             NEW proof \in BOOLEAN, PublishNotice(j, n, st, proof)
      PROVE  Inv'
      BY <1>2, PublishInv DEF PublishNotice, TypeOK
<1>3. ASSUME NEW j \in Jobs, NEW n \in Parts, NEW kind \in {"result", "notice"},
             Observe(j, kind, n)
      PROVE  Inv'
      BY <1>3, ObserveInv
<1>4. ASSUME NEW s \in Senders, NEW j \in Jobs, LeaseOutbox(s, j) PROVE Inv'
      BY <1>4, LeaseInv
<1>5. ASSUME NEW s \in Senders, ReleaseOutbox(s) PROVE Inv'
  <2>1. PICK j \in Jobs : sender[s].job = j
    BY <1>5, FieldTypes DEF ReleaseOutbox
  <2>2. row[j] \in Rows /\ row[j].started = 0 /\ row' = [row EXCEPT ![j] = Released(row[j])]
    BY <1>5, <2>1 DEF ReleaseOutbox, TypeOK
  <2>3. LET q == Released(row[j]) IN
        /\ q \in Rows /\ q.st = "pending" /\ q.tok = 0 /\ q.ed = row[j].ed
        /\ q.size = row[j].size /\ q.done = row[j].done /\ q.started = 0
    BY <2>2, ReleasedRow
  <2>4. /\ sender[s].ph \in {"leased", "refused"} /\ Owns(s) /\ SenderRests(s)
        /\ UNCHANGED <<job, evidence, resolved, disposed, receipts, tokens, chat>>
    BY <1>5 DEF ReleaseOutbox
  <2> QED BY <2>1, <2>2, <2>3, <2>4, BackInv
<1>6. ASSUME NEW s \in Senders, RetryOutbox(s) PROVE Inv'
  <2>1. PICK j \in Jobs : sender[s].job = j
    BY <1>6, FieldTypes DEF RetryOutbox
  <2>2. PICK st \in {"pending", "failed"} : row' = [row EXCEPT ![j] = Retried(row[j], st)]
    BY <1>6, <2>1 DEF RetryOutbox
  <2>3. LET q == Retried(row[j], st) IN
        /\ q \in Rows /\ q.st = st /\ q.tok = 0 /\ q.ed = row[j].ed
        /\ q.size = row[j].size /\ q.done = row[j].done /\ q.started = 0
    BY RetriedRow DEF TypeOK, RowStatus
  <2>4. /\ sender[s].ph \in {"leased", "refused"} /\ Owns(s) /\ SenderRests(s)
        /\ UNCHANGED <<evidence, resolved, disposed, receipts, tokens, chat>>
    BY <1>6 DEF RetryOutbox
  <2>5. /\ job'[j] = job[j] \/ (job[j] = "result_ready" /\ job'[j] = "failed")
        /\ \A k \in Jobs : k # j => job'[k] = job[k]
    BY <1>6, <2>1 DEF RetryOutbox, TypeOK
  <2> QED BY <2>1, <2>2, <2>3, <2>4, <2>5, BackInv
<1>7. ASSUME NEW s \in Senders, NEW ack \in BOOLEAN, BeginSend(s, ack) PROVE Inv'
      BY <1>7, BeginInv
<1>8. ASSUME NEW s \in Senders, NEW shown \in BOOLEAN, NEW known \in BOOLEAN,
             Send(s, shown, known)
      PROVE  Inv'
      BY <1>8, SendInv
<1>9. ASSUME NEW s \in Senders, MarkUnknown(s) PROVE Inv'
      BY <1>9, UnknownInv
<1>10. ASSUME NEW s \in Senders, RecordReceipt(s) PROVE Inv'
      BY <1>10, RecordInv
<1>11. ASSUME NEW s \in Senders, SettleOwn(s) PROVE Inv'
  <2>1. /\ sender[s].ph = "recorded" /\ AttemptOf(s) \in Attempts
        /\ AttemptOf(s).job = sender[s].job /\ AttemptOf(s).tok = sender[s].tok
    BY <1>11, BusySender DEF SettleOwn, AttemptOf, Attempts, Deliveries
  <2>2. /\ UNCHANGED <<evidence, resolved, disposed, receipts, tokens, chat>>
        /\ \A u \in Senders : sender'[u] = sender[u] \/ sender'[u].ph = "idle"
    BY <1>11, RestingSender DEF SettleOwn
  <2>3. CASE CanSettle(AttemptOf(s))
    <3>1. SenderOK(s)
      BY <2>1 DEF Inv
    <3>2. Len(Sent(AttemptOf(s).job)) = row[AttemptOf(s).job].done + 1
      BY <2>1, <2>3, <3>1 DEF CanSettle, SenderOK, InDoubt
    <3>3. Settle(AttemptOf(s))
      BY <1>11, <2>3 DEF SettleOwn
    <3> QED BY <2>1, <2>2, <2>3, <3>2, <3>3, SettleInv
  <2>4. CASE ~CanSettle(AttemptOf(s))
    BY <1>11, <2>2, <2>4, QuietInv DEF SettleOwn
  <2> QED BY <2>3, <2>4
<1>12. ASSUME NEW a \in receipts, SettlePending(a) PROVE Inv'
  <2>1. Len(Sent(a.job)) = row[a.job].done + 1
    BY <1>12 DEF Inv, ReceiptOK, SettlePending, CanSettle, InDoubt
  <2> QED BY <1>12, <2>1, SettleInv DEF SettlePending, TypeOK
<1>13. ASSUME NEW j \in Jobs, LeaseExpires(j) PROVE Inv'
  <2>1. row' = [row EXCEPT ![j] = [row[j] EXCEPT !.exp = TRUE]]
    BY <1>13 DEF LeaseExpires
  <2>2. LET q == [row[j] EXCEPT !.exp = TRUE] IN
        /\ q.st = row[j].st /\ q.tok = row[j].tok /\ q.ed = row[j].ed
        /\ q.size = row[j].size /\ q.done = row[j].done /\ q.started = row[j].started
    BY ExpiredRow DEF TypeOK
  <2>3. \A k \in Jobs :
           /\ row'[k].st = row[k].st /\ row'[k].tok = row[k].tok /\ row'[k].ed = row[k].ed
           /\ row'[k].size = row[k].size /\ row'[k].done = row[k].done
           /\ row'[k].started = row[k].started
    BY <2>1, <2>2 DEF TypeOK
  <2> QED BY <1>13, <2>3, StaleInv DEF LeaseExpires
<1>14. ASSUME RecoverStale PROVE Inv'
  <2>1. ASSUME NEW k \in Jobs
        PROVE  row'[k] = row[k] \/ (row[k].st = "sending" /\ row'[k] = Recovered(row[k]))
    BY <1>14 DEF RecoverStale
  <2>2. ASSUME NEW k \in Jobs
        PROVE  LET q == Recovered(row[k]) IN
               /\ q.tok = 0 /\ q.ed = row[k].ed /\ q.size = row[k].size
               /\ q.done = row[k].done /\ q.started = row[k].started
               /\ q.st = IF row[k].started = 0 THEN "pending" ELSE "unknown"
    BY RecoveredFields DEF TypeOK
  <2> QED BY <1>14, <2>1, <2>2, StaleInv DEF RecoverStale
<1>15. ASSUME NEW s \in Senders, SenderDrops(s) PROVE Inv'
      BY <1>15, RestingSender, QuietInv DEF SenderDrops
<1>16. ASSUME NEW j \in Jobs, Resolve(j) PROVE Inv'
      BY <1>16, QuietInv DEF Resolve
<1>17. ASSUME NEW j \in Jobs, Dispose(j) PROVE Inv'
  <2>1. /\ UNCHANGED <<row, job, evidence, resolved, receipts, tokens, sender, chat>>
        /\ disposed' = disposed \cup {j} /\ ParkedOK(j)
    BY <1>17 DEF Dispose, Releasable, Reconcilable, ParkedOK
  <2>2. /\ \A k : Same(k)
        /\ ParkedOK(j)'
    BY <2>1 DEF Same, ParkedOK
  <2>3. RowOK(j)' /\ ShownOK(j)'
    BY <2>1, <2>2, SameJob DEF Inv
  <2>4. ASSUME NEW u \in Senders, sender[u].ph # "idle" PROVE SenderOK(u)'
    BY <2>1, <2>2, <2>4, SameSender DEF Inv
  <2>5. ASSUME NEW a \in receipts PROVE ReceiptOK(a)'
    BY <2>1, <2>2, SameReceipt DEF Inv
  <2>6. OneSenderPerLease'
    BY <2>1 DEF Inv, OneSenderPerLease
  <2> QED BY <2>1, <2>2, <2>3, <2>4, <2>5, <2>6, LocalStep DEF TypeOK
<1>18. CASE UNCHANGED vars
      BY <1>18, QuietInv DEF vars
<1> QED BY <1>1, <1>2, <1>3, <1>4, <1>5, <1>6, <1>7, <1>8, <1>9, <1>10, <1>11, <1>12,
           <1>13, <1>14, <1>15, <1>16, <1>17, <1>18
        DEF Next, Publication, SenderStep

\* The invariant holds in every reachable state.
THEOREM InvariantHolds == Spec => [](TypeOK /\ Inv)
<1>1. Init => TypeOK /\ Inv
      BY InitType, InitInv
<1>2. TypeOK /\ Inv /\ [Next]_vars => (TypeOK /\ Inv)'
      BY StepType, StepInv
<1> QED BY <1>1, <1>2, PTL DEF Spec

-----------------------------------------------------------------------------
(* What the reader and the owner may rely on.                                *)

\* Only a send adds to the chat, and it adds the next part.
LEMMA ChatStep ==
    ASSUME TypeOK, Inv, [Next]_vars
    PROVE  \/ chat' = chat
           \/ \E j \in Jobs : /\ row' = row /\ InDoubt(row[j])
                              /\ Len(Sent(j)) = row[j].done /\ row[j].done < row[j].size
                              /\ chat' = [chat EXCEPT ![<<j, row[j].ed>>]
                                                = Append(@, Len(@) + 1)]
<1> USE DEF factVars, proofVars
<1>1. ASSUME NEW s \in Senders, NEW shown \in BOOLEAN, NEW known \in BOOLEAN,
             Send(s, shown, known), shown
      PROVE  \E j \in Jobs : /\ row' = row /\ InDoubt(row[j])
                             /\ Len(Sent(j)) = row[j].done /\ row[j].done < row[j].size
                             /\ chat' = [chat EXCEPT ![<<j, row[j].ed>>] = Append(@, Len(@) + 1)]
  <2>1. PICK j \in Jobs : sender[s].job = j
    BY <1>1, FieldTypes DEF Send
  <2>2. /\ RowOK(j) /\ InDoubt(row[j]) /\ sender[s].ed = row[j].ed
        /\ sender[s].part = row[j].done + 1 /\ Len(Sent(j)) = row[j].done
    BY <1>1, <2>1 DEF Inv, Send, SenderOK
  <2>3. row[j].done < row[j].size
    BY <2>2 DEF RowOK, InDoubt
  <2>4. chat' = [chat EXCEPT ![<<j, row[j].ed>>] = Append(@, row[j].done + 1)] /\ row' = row
    BY <1>1, <2>1, <2>2 DEF Send
  <2>5. chat' = [chat EXCEPT ![<<j, row[j].ed>>] = Append(@, Len(@) + 1)]
    BY <2>2, <2>4 DEF Sent
  <2> QED BY <2>2, <2>3, <2>4, <2>5
<1>2. ASSUME NEW s \in Senders, NEW shown \in BOOLEAN, NEW known \in BOOLEAN,
             Send(s, shown, known), ~shown
      PROVE  chat' = chat
      BY <1>2 DEF Send
<1>3. ASSUME NEW s \in Senders, SenderStep(s),
             ~\E shown, known \in BOOLEAN : Send(s, shown, known)
      PROVE  chat' = chat
      BY <1>3 DEF SenderStep, ReleaseOutbox, RetryOutbox, BeginSend, MarkUnknown, RecordReceipt,
                  SettleOwn, SenderDrops
<1>4. CASE Publication \/ UNCHANGED vars
      BY <1>4 DEF Publication, PublishResult, PublishNotice, Observe, vars
<1>5. ASSUME NEW s \in Senders, NEW j \in Jobs, LeaseOutbox(s, j) PROVE chat' = chat
      BY <1>5 DEF LeaseOutbox
<1>6. ASSUME NEW a \in receipts, SettlePending(a) PROVE chat' = chat
      BY <1>6 DEF SettlePending
<1>7. ASSUME NEW j \in Jobs, LeaseExpires(j) \/ Resolve(j) \/ Dispose(j) PROVE chat' = chat
      BY <1>7 DEF LeaseExpires, Resolve, Dispose
<1>8. CASE RecoverStale
      BY <1>8 DEF RecoverStale
<1> QED BY <1>1, <1>2, <1>3, <1>4, <1>5, <1>6, <1>7, <1>8 DEF Next

\* Every part of every message becomes visible at most once and in order, for
\* any number of senders, crashes, lost replies, expired leases and retries.
THEOREM PartsAppearOnceInOrder == Spec => []PartsOnceInOrder
<1>1. Init => PartsOnceInOrder
      BY DEF Init, PartsOnceInOrder
<1>2. TypeOK /\ Inv /\ PartsOnceInOrder /\ [Next]_vars => PartsOnceInOrder'
  <2> SUFFICES ASSUME TypeOK, Inv, PartsOnceInOrder, [Next]_vars PROVE PartsOnceInOrder'
      OBVIOUS
  <2>1. CASE chat' = chat
    BY <2>1 DEF PartsOnceInOrder
  <2>2. ASSUME NEW j \in Jobs,
               chat' = [chat EXCEPT ![<<j, row[j].ed>>] = Append(@, Len(@) + 1)]
        PROVE  PartsOnceInOrder'
    <3>0. row[j].ed \in Editions
      BY DEF TypeOK, Rows
    <3>1. PICK n \in Jobs \X Editions : n = <<j, row[j].ed>>
      BY <3>0
    <3>2. chat[n] \in Seq(Nat) /\ chat'[n] = Append(chat[n], Len(chat[n]) + 1)
      BY <2>2, <3>1 DEF TypeOK
    <3>3. \A i \in 1..Len(chat'[n]) : chat'[n][i] = i
      BY <3>1, <3>2 DEF PartsOnceInOrder
    <3>4. \A m \in Jobs \X Editions : m # n => chat'[m] = chat[m]
      BY <2>2, <3>1 DEF TypeOK
    <3> QED BY <3>3, <3>4 DEF PartsOnceInOrder
  <2> QED BY <2>1, <2>2, ChatStep
<1> QED BY <1>1, <1>2, InvariantHolds, PTL DEF Spec

\* A row is delivered, and a job completed, only when all parts are visible; a
\* row fails only when its next part is not.
THEOREM DeliveredMeansShown == Spec => []DeliveredIsShown
<1>1. TypeOK /\ Inv => DeliveredIsShown
  <2> SUFFICES ASSUME TypeOK, Inv, NEW j \in Jobs
               PROVE  /\ row[j].st = "delivered" => Len(Sent(j)) = row[j].size
                      /\ job[j] = "completed" => row[j].st = "delivered"
                      /\ row[j].st = "failed" => /\ Len(Sent(j)) = row[j].done
                                                 /\ row[j].done < row[j].size
      BY DEF DeliveredIsShown
  <2>1. RowOK(j) /\ ShownOK(j)
    BY DEF Inv
  <2> QED BY <2>1 DEF RowOK, ShownOK, InDoubt
<1> QED BY <1>1, InvariantHolds, PTL

\* After the owner's disposition no receipt, retry, recovery or observation
\* changes the row or completes the job.
THEOREM DispositionsAreFinal == Spec => DispositionIsFinal
<1>1. TypeOK /\ Inv /\ [Next]_vars => [DisposedStays]_vars
  <2> SUFFICES ASSUME TypeOK, Inv, Next, NEW k \in disposed
               PROVE  row'[k] = row[k] /\ (job'[k] = "completed" => job[k] = "completed")
      BY DEF vars, DisposedStays
  <2> USE DEF factVars, proofVars
  <2>1. k \in Jobs /\ ParkedOK(k) /\ RowOK(k)
    BY DEF TypeOK, Inv
  <2>2. job[k] # "none" /\ row[k].st # "sending" /\ row[k].st # "pending"
    BY <2>1 DEF ParkedOK, RowOK
  <2>3. ASSUME NEW j \in Jobs, NEW n \in Parts, PublishResult(j, n)
        PROVE  row'[k] = row[k] /\ job'[k] = job[k]
    BY <2>1, <2>2, <2>3 DEF PublishResult, TypeOK
  <2>4. ASSUME NEW j \in Jobs, NEW n \in Parts, NEW st \in {"failed", "indeterminate"},
               NEW proof \in BOOLEAN, PublishNotice(j, n, st, proof)
        PROVE  row'[k] = row[k] /\ job'[k] = job[k]
    BY <2>1, <2>2, <2>4 DEF PublishNotice, TypeOK
  <2>5. ASSUME NEW j \in Jobs, NEW n \in Parts, NEW kind \in {"result", "notice"},
               Observe(j, kind, n)
        PROVE  row'[k] = row[k] /\ job'[k] = job[k]
    <3>1. CASE j # k
      BY <2>1, <2>5, <3>1 DEF Observe, TypeOK
    <3>2. CASE j = k
      <4>1. row[k].st = "unknown"
        BY <2>1, <2>5, <3>2 DEF Observe, ParkedOK
      <4> QED BY <2>5, <3>2, <4>1 DEF Observe, Replaceable
    <3> QED BY <3>1, <3>2
  <2>6. ASSUME NEW s \in Senders, NEW j \in Jobs, LeaseOutbox(s, j)
        PROVE  row'[k] = row[k] /\ job'[k] = job[k]
    BY <2>1, <2>2, <2>6 DEF LeaseOutbox, TypeOK
  <2>7. ASSUME NEW s \in Senders,
               ReleaseOutbox(s) \/ MarkUnknown(s) \/ \E ack \in BOOLEAN : BeginSend(s, ack)
        PROVE  row'[k] = row[k] /\ job'[k] = job[k]
    BY <2>1, <2>2, <2>7 DEF ReleaseOutbox, MarkUnknown, BeginSend, Owns, TypeOK
  <2>8. ASSUME NEW s \in Senders, RetryOutbox(s)
        PROVE  row'[k] = row[k] /\ job'[k] = job[k]
    BY <2>1, <2>2, <2>8 DEF RetryOutbox, Owns, TypeOK
  <2>9. ASSUME NEW a, CanSettle(a), Settle(a)
        PROVE  row'[k] = row[k] /\ job'[k] = job[k]
    BY <2>1, <2>9 DEF CanSettle, Settle, TypeOK
  <2>10. ASSUME NEW s \in Senders, SettleOwn(s)
         PROVE  row'[k] = row[k] /\ job'[k] = job[k]
    BY <2>9, <2>10 DEF SettleOwn
  <2>11. ASSUME NEW a \in receipts, SettlePending(a)
         PROVE  row'[k] = row[k] /\ job'[k] = job[k]
    BY <2>9, <2>11 DEF SettlePending
  <2>12. ASSUME NEW s \in Senders,
                \/ \E shown, known \in BOOLEAN : Send(s, shown, known)
                \/ RecordReceipt(s) \/ SenderDrops(s)
         PROVE  row'[k] = row[k] /\ job'[k] = job[k]
    BY <2>12 DEF Send, RecordReceipt, SenderDrops
  <2>13. ASSUME NEW j \in Jobs, LeaseExpires(j) \/ Resolve(j) \/ Dispose(j)
         PROVE  row'[k] = row[k] /\ job'[k] = job[k]
    BY <2>1, <2>2, <2>13 DEF LeaseExpires, Resolve, Dispose, TypeOK
  <2>14. ASSUME RecoverStale PROVE row'[k] = row[k] /\ job'[k] = job[k]
    BY <2>1, <2>2, <2>14 DEF RecoverStale
  <2> QED BY <2>3, <2>4, <2>5, <2>6, <2>7, <2>8, <2>10, <2>11, <2>12, <2>13, <2>14
          DEF Next, Publication, SenderStep
<1> QED BY <1>1, InvariantHolds, PTL DEF Spec, DispositionIsFinal

-----------------------------------------------------------------------------
(* The rows and the chat implement OrderedDelivery.                          *)

\* A step that changes nothing the reader can tell.
Unseen(k) == /\ MailOf(row'[k].st) = MailOf(row[k].st)
             /\ row'[k].ed = row[k].ed /\ row'[k].size = row[k].size

\* Such a step is a stutter of the abstract delivery.
LEMMA StutterStep ==
    ASSUME chat' = chat, \A k \in Jobs : Unseen(k)
    PROVE  UNCHANGED Delivery!dVars
BY DEF Delivery!dVars, Unseen

\* A first row is an offer.
LEMMA OfferStep ==
    ASSUME NEW j \in Jobs, NEW n \in Parts, chat' = chat,
           \A k \in Jobs : k # j => row'[k] = row[k],
           row[j].st = "absent", row'[j].st = "pending", row'[j].ed = row[j].ed,
           row'[j].size = n
    PROVE  Delivery!DNext
<1>1. Delivery!Offer(j, n)
      BY DEF Delivery!Offer, MailOf
<1> QED BY <1>1 DEF Delivery!DNext, Parts

\* A second row is a revision.
LEMMA ReviseStep ==
    ASSUME NEW j \in Jobs, NEW n \in Parts, chat' = chat,
           \A k \in Jobs : k # j => row'[k] = row[k],
           row[j].st # "absent", row[j].st \in RowStatus, row[j].ed = 1,
           row'[j].st = "pending", row'[j].ed = 2, row'[j].size = n
    PROVE  Delivery!DNext
<1>1. Delivery!Revise(j, n)
      BY DEF Delivery!Revise, MailOf
<1> QED BY <1>1 DEF Delivery!DNext, Parts

\* A row that ends is confirmed or given up.
LEMMA EndStep ==
    ASSUME NEW j \in Jobs, chat' = chat, \A k \in Jobs : k # j => row'[k] = row[k],
           row[j].st = "sending" \/ row[j].st = "unknown",
           row'[j].ed = row[j].ed, row'[j].size = row[j].size,
           \/ row'[j].st = "delivered" /\ Len(Sent(j)) = row[j].size
           \/ row'[j].st = "failed" /\ Len(Sent(j)) < row[j].size
    PROVE  Delivery!DNext
<1>1. CASE row'[j].st = "delivered" /\ Len(Sent(j)) = row[j].size
  <2>1. Delivery!Confirm(j)
    BY <1>1 DEF Delivery!Confirm, Delivery!Shown, Sent, MailOf
  <2> QED BY <2>1 DEF Delivery!DNext
<1>2. CASE row'[j].st = "failed" /\ Len(Sent(j)) < row[j].size
  <2>1. Delivery!GiveUp(j)
    BY <1>2 DEF Delivery!GiveUp, Delivery!Shown, Sent, MailOf
  <2> QED BY <2>1 DEF Delivery!DNext
<1> QED BY <1>1, <1>2

\* A part that becomes visible.
LEMMA ShowStep ==
    ASSUME NEW j \in Jobs, row' = row, InDoubt(row[j]),
           Len(Sent(j)) = row[j].done, row[j].done < row[j].size,
           chat' = [chat EXCEPT ![<<j, row[j].ed>>] = Append(@, Len(@) + 1)]
    PROVE  Delivery!DNext
<1>1. Delivery!Show(j)
      BY DEF Delivery!Show, Delivery!Shown, Sent, InDoubt, MailOf
<1> QED BY <1>1 DEF Delivery!DNext

\* Applying a receipt confirms the last part, or changes nothing to the reader.
LEMMA SettleStep ==
    ASSUME TypeOK, NEW j \in Jobs, RowOK(j), InDoubt(row[j]), chat' = chat,
           Len(Sent(j)) = row[j].done + 1, row' = [row EXCEPT ![j] = SettledRow(@)]
    PROVE  Delivery!DNext \/ UNCHANGED Delivery!dVars
<1>1. /\ row[j] \in Rows /\ row'[j] = SettledRow(row[j])
      /\ \A k \in Jobs : k # j => row'[k] = row[k]
      /\ row[j].done \in Nat /\ row[j].size \in Nat
      BY FieldTypes DEF TypeOK
<1>2. /\ row'[j].ed = row[j].ed /\ row'[j].size = row[j].size
      /\ row[j].done + 1 < row[j].size => row'[j].st = "pending"
      /\ ~(row[j].done + 1 < row[j].size) => row'[j].st = "delivered"
      BY <1>1, SettledFields
<1>3. CASE row[j].done + 1 < row[j].size
  <2>1. \A k \in Jobs : Unseen(k)
    BY <1>1, <1>2, <1>3 DEF Unseen, InDoubt, MailOf
  <2> QED BY <2>1, StutterStep
<1>4. CASE ~(row[j].done + 1 < row[j].size)
  <2>1. Len(Sent(j)) = row[j].size
    BY <1>1, <1>4 DEF RowOK, InDoubt
  <2> QED BY <1>1, <1>2, <1>4, <2>1, EndStep DEF InDoubt
<1> QED BY <1>3, <1>4

\* Every step of the delivery is a step, or a stutter, of the abstract one.
LEMMA AbstractStep ==
    ASSUME TypeOK, Inv, [Next]_vars
    PROVE  Delivery!DNext \/ UNCHANGED Delivery!dVars
<1> DEFINE Goal == Delivery!DNext \/ UNCHANGED Delivery!dVars
<1> SUFFICES Goal
    OBVIOUS
<1> HIDE DEF Goal
<1> USE DEF factVars, proofVars
<1>1. ASSUME NEW j \in Jobs, NEW n \in Parts, NEW kind \in {"result", "notice"},
             chat' = chat, row' = [row EXCEPT ![j] = NewRow(kind, 1, n)], job[j] = "none"
      PROVE  Goal
  <2>1. row[j].st = "absent" /\ row[j].ed = 1
    BY <1>1 DEF Inv, RowOK
  <2>2. /\ row'[j] = NewRow(kind, 1, n) /\ \A k \in Jobs : k # j => row'[k] = row[k]
    BY <1>1 DEF TypeOK
  <2>3. row'[j].st = "pending" /\ row'[j].ed = 1 /\ row'[j].size = n
    BY <2>2, FreshRow DEF Editions
  <2> QED BY <1>1, <2>1, <2>2, <2>3, OfferStep DEF Goal
<1>2. ASSUME NEW j \in Jobs, NEW n \in Parts, NEW kind \in {"result", "notice"},
             Observe(j, kind, n)
      PROVE  Goal
  <2>1. CASE Replaceable(j)
    <3>1. /\ row'[j] = NewRow(kind, 2, n) /\ \A k \in Jobs : k # j => row'[k] = row[k]
      BY <1>2, <2>1 DEF Observe, TypeOK
    <3>2. row'[j].st = "pending" /\ row'[j].ed = 2 /\ row'[j].size = n
      BY <3>1, FreshRow DEF Editions
    <3>3. row[j].ed # 2
      BY <1>2 DEF Observe, Inv, RowOK
    <3>4. row[j].ed = 1 /\ row[j].st \in RowStatus
      BY <3>3, FieldTypes DEF Rows
    <3> QED BY <1>2, <3>1, <3>2, <3>4, ReviseStep DEF Observe, Goal
  <2>2. CASE ~Replaceable(j)
    BY <1>2, <2>2, StutterStep DEF Observe, Unseen, Goal
  <2> QED BY <2>1, <2>2
<1>3. ASSUME NEW s \in Senders, NEW j \in Jobs, LeaseOutbox(s, j) PROVE Goal
  <2>1. /\ row[j] \in Rows /\ tokens'[j] \in Nat /\ row'[j] = Leased(row[j], tokens'[j])
        /\ \A k \in Jobs : k # j => row'[k] = row[k]
    BY <1>3 DEF LeaseOutbox, TypeOK
  <2>2. row'[j].st = "sending" /\ row'[j].ed = row[j].ed /\ row'[j].size = row[j].size
    BY <2>1, LeasedRow
  <2>3. \A k \in Jobs : Unseen(k)
    BY <1>3, <2>1, <2>2 DEF LeaseOutbox, Unseen, MailOf
  <2> QED BY <1>3, <2>3, StutterStep DEF LeaseOutbox, Goal
<1>4. ASSUME NEW s \in Senders, NEW q \in Rows, sender[s].ph # "idle", Owns(s), chat' = chat,
             row' = [row EXCEPT ![sender[s].job] = q],
             q.st \in {"pending", "sending", "unknown"},
             q.ed = row[sender[s].job].ed, q.size = row[sender[s].job].size
      PROVE  Goal
  <2>1. PICK j \in Jobs : j = sender[s].job
    BY <1>4, FieldTypes
  <2>2. /\ row'[j] = q /\ \A k \in Jobs : k # j => row'[k] = row[k]
        /\ row[j].st = "sending" /\ q.ed = row[j].ed /\ q.size = row[j].size
    BY <1>4, <2>1 DEF TypeOK, Owns
  <2>3. \A k \in Jobs : Unseen(k)
    BY <1>4, <2>2 DEF Unseen, MailOf
  <2> QED BY <1>4, <2>3, StutterStep DEF Goal
<1>5. ASSUME NEW s \in Senders, ReleaseOutbox(s) PROVE Goal
  <2>1. row[sender[s].job] \in Rows
    BY <1>5, FieldTypes DEF ReleaseOutbox
  <2> QED BY <1>4, <1>5, <2>1, ReleasedRow DEF ReleaseOutbox
<1>6. ASSUME NEW s \in Senders, NEW ack \in BOOLEAN, BeginSend(s, ack) PROVE Goal
  <2>1. row[sender[s].job] \in Rows /\ sender[s].tok \in Nat
    BY <1>6, FieldTypes DEF BeginSend
  <2> QED BY <1>4, <1>6, <2>1, StartedRow, ZenonT(30) DEF BeginSend, Owns
<1>7. ASSUME NEW s \in Senders, MarkUnknown(s) PROVE Goal
  <2>1. row[sender[s].job] \in Rows
    BY <1>7, FieldTypes DEF MarkUnknown
  <2> QED BY <1>4, <1>7, <2>1, UnleasedRow DEF MarkUnknown, RowStatus
<1>8. ASSUME NEW s \in Senders, RetryOutbox(s) PROVE Goal
  <2>1. PICK j \in Jobs : j = sender[s].job
    BY <1>8, FieldTypes DEF RetryOutbox
  <2>2. PICK st \in {"failed", "pending"} : row' = [row EXCEPT ![j] = Retried(@, st)]
    BY <1>8, <2>1 DEF RetryOutbox
  <2>3. row[j] \in Rows /\ row[j].done \in Nat /\ row[j].size \in Nat
    BY FieldTypes
  <2>4. /\ row'[j] = Retried(row[j], st) /\ \A k \in Jobs : k # j => row'[k] = row[k]
        /\ row[j].st = "sending" /\ chat' = chat
    BY <1>8, <2>1, <2>2 DEF TypeOK, Owns, RetryOutbox
  <2>5. row'[j].st = st /\ row'[j].ed = row[j].ed /\ row'[j].size = row[j].size
    BY <2>3, <2>4, RetriedRow DEF RowStatus
  <2>6. CASE st = "pending"
    <3>1. \A k \in Jobs : Unseen(k)
      BY <2>4, <2>5, <2>6 DEF Unseen, MailOf
    <3> QED BY <2>4, <3>1, StutterStep DEF Goal
  <2>7. CASE st = "failed"
    <3>1. SenderOK(s) /\ RowOK(j) /\ ShownOK(j)
      BY <1>8 DEF Inv, RetryOutbox
    <3>2. Len(Sent(j)) = row[j].done
      BY <1>8, <2>1, <3>1 DEF RetryOutbox, SenderOK, ShownOK
    <3>3. Len(Sent(j)) < row[j].size
      BY <2>3, <2>4, <3>1, <3>2 DEF RowOK
    <3> QED BY <2>4, <2>5, <2>7, <3>3, EndStep DEF Goal
  <2> QED BY <2>6, <2>7
<1>9. ASSUME NEW s \in Senders, SettleOwn(s) PROVE Goal
  <2>1. CASE ~CanSettle(AttemptOf(s))
    BY <1>9, <2>1, StutterStep DEF SettleOwn, Unseen, Goal
  <2>2. CASE CanSettle(AttemptOf(s))
    <3>1. PICK j \in Jobs : j = sender[s].job
      BY <1>9, FieldTypes DEF SettleOwn
    <3>2. AttemptOf(s).job = j /\ AttemptOf(s).tok = sender[s].tok
      BY <3>1 DEF AttemptOf
    <3>3. InDoubt(row[j]) /\ row[j].started = sender[s].tok
      BY <2>2, <3>2 DEF CanSettle, InDoubt
    <3>4. RowOK(j) /\ SenderOK(s)
      BY <1>9 DEF Inv, SettleOwn
    <3>5. Len(Sent(j)) = row[j].done + 1
      BY <1>9, <3>1, <3>3, <3>4 DEF SenderOK, SettleOwn
    <3>6. chat' = chat /\ row' = [row EXCEPT ![j] = SettledRow(@)]
      BY <1>9, <2>2, <3>2 DEF SettleOwn, Settle
    <3> QED BY <3>3, <3>4, <3>5, <3>6, SettleStep DEF Goal
  <2> QED BY <2>1, <2>2
<1>10. ASSUME NEW a \in receipts, SettlePending(a) PROVE Goal
  <2>1. PICK j \in Jobs : j = a.job
    BY FieldTypes
  <2>2. InDoubt(row[j]) /\ row[j].started = a.tok
    BY <1>10, <2>1 DEF SettlePending, CanSettle, InDoubt
  <2>3. RowOK(j) /\ ReceiptOK(a)
    BY DEF Inv
  <2>4. Len(Sent(j)) = row[j].done + 1
    BY <2>1, <2>2, <2>3 DEF ReceiptOK
  <2>5. chat' = chat /\ row' = [row EXCEPT ![j] = SettledRow(@)]
    BY <1>10, <2>1 DEF SettlePending, Settle
  <2> QED BY <2>2, <2>3, <2>4, <2>5, SettleStep DEF Goal
<1>11. ASSUME NEW j \in Jobs, LeaseExpires(j) PROVE Goal
  <2>1. /\ row[j] \in Rows /\ row'[j] = [row[j] EXCEPT !.exp = TRUE]
        /\ \A k \in Jobs : k # j => row'[k] = row[k]
    BY <1>11 DEF LeaseExpires, TypeOK
  <2>2. row'[j].st = row[j].st /\ row'[j].ed = row[j].ed /\ row'[j].size = row[j].size
    BY <2>1, ExpiredRow
  <2>3. \A k \in Jobs : Unseen(k)
    BY <2>1, <2>2 DEF Unseen
  <2> QED BY <1>11, <2>3, StutterStep DEF LeaseExpires, Goal
<1>12. CASE RecoverStale
  <2>1. ASSUME NEW k \in Jobs PROVE Unseen(k)
    <3>1. row[k] \in Rows
      BY FieldTypes
    <3>2. CASE row[k].st = "sending" /\ row'[k] = Recovered(row[k])
      BY <3>1, <3>2, RecoveredFields DEF Unseen, MailOf
    <3>3. CASE row'[k] = row[k]
      BY <3>3 DEF Unseen
    <3> QED BY <1>12, <3>2, <3>3 DEF RecoverStale
  <2> QED BY <1>12, <2>1, StutterStep DEF RecoverStale, Goal
<1>13. ASSUME NEW s \in Senders, NEW shown \in BOOLEAN, NEW known \in BOOLEAN,
              Send(s, shown, known)
       PROVE  Goal
  <2>1. CASE chat' = chat
    BY <1>13, <2>1, StutterStep DEF Send, Unseen, Goal
  <2> QED BY <2>1, ChatStep, ShowStep DEF Goal
<1>14. CASE row' = row /\ chat' = chat
  BY <1>14, StutterStep DEF Unseen, Goal
<1>15. ASSUME NEW j \in Jobs, NEW n \in Parts, PublishResult(j, n) PROVE Goal
  BY <1>1, <1>15 DEF PublishResult
<1>16. ASSUME NEW j \in Jobs, NEW n \in Parts, NEW st \in {"failed", "indeterminate"},
              NEW proof \in BOOLEAN, PublishNotice(j, n, st, proof)
       PROVE  Goal
  BY <1>1, <1>16 DEF PublishNotice
<1>17. ASSUME NEW s \in Senders, RecordReceipt(s) \/ SenderDrops(s) PROVE Goal
  BY <1>14, <1>17 DEF RecordReceipt, SenderDrops
<1>18. ASSUME NEW j \in Jobs, Resolve(j) \/ Dispose(j) PROVE Goal
  BY <1>14, <1>18 DEF Resolve, Dispose
<1>19. CASE UNCHANGED vars
  BY <1>14, <1>19 DEF vars
<1> QED BY <1>2, <1>3, <1>5, <1>6, <1>7, <1>8, <1>9, <1>10, <1>11, <1>12, <1>13, <1>15,
           <1>16, <1>17, <1>18, <1>19
        DEF Next, Publication, SenderStep

\* Outbox implements OrderedDelivery: to the reader of a topic the leases, the
\* fence, the receipts, the recovery and the crashes are not there.
THEOREM ImplementsDelivery == Spec => DeliverySpec
<1>1. Init => Delivery!DInit
      BY EmptyRow DEF Init, Delivery!DInit, Delivery!Editions, Editions, MailOf
<1>2. TypeOK /\ Inv /\ [Next]_vars => [Delivery!DNext]_(Delivery!dVars)
      BY AbstractStep
<1> QED BY <1>1, <1>2, InvariantHolds, PTL DEF Spec, DeliverySpec, Delivery!DSpec

=============================================================================
