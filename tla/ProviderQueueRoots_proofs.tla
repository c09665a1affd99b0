----------------------- MODULE ProviderQueueRoots_proofs -----------------------
(***************************************************************************)
(* Proofs about ProviderQueue: real provider turns exclude each other in   *)
(* a root, work starts only on a free root, and the messages of a topic    *)
(* start in order, for every number of jobs, workers, topics and scopes.   *)
(*                                                                         *)
(* The first part says, table by table, what any step of the queue can do  *)
(* to one entry; each invariant of the second part follows from those      *)
(* facts without looking at the actions again.                             *)
(***************************************************************************)
EXTENDS ProviderQueue_proofs

-----------------------------------------------------------------------------
(* What a step can do to one entry of each table.                            *)

\* The worker starts the job it leased; the thread starts its child.
WorkerStarts(w, j) ==
    /\ worker[w].ph = "leased" /\ JobOf(w) = j
    /\ OwnsIn(w, "leased") /\ ~lease[j].exp
    /\ worker' = [worker EXCEPT ![w].ph = "started"]
    /\ UNCHANGED steer
SteerStarts(w, j) ==
    /\ steer[w].ph = "leased" /\ Child(w) = j
    /\ OwnsChild(w, "leased") /\ ~lease[j].exp
    /\ status[Parent(w)] = "executing"
    /\ steer' = [steer EXCEPT ![w].ph = "started"]
    /\ UNCHANGED worker

\* The turn of the job is known to be over, or it was no turn of its own.
Finishes(j) ==
    \/ j \in checkpoint /\ j \notin live
    \/ j \notin live /\ \E w \in Workers : Runs(w, j) /\ worker'[w] = NoWork
    \/ \E w \in Workers : Joins(w, j)

StatusMove(j) ==
    \/ status'[j] = status[j]
    \/ status[j] = "absent" /\ status'[j] = "queued"
    \/ status[j] \in Waiting /\ status'[j] = "cancelled"
    \/ status[j] \in Waiting /\ status'[j] = "leased"
          /\ \E w \in Workers : Lease(w, j) \/ LeaseSteer(w, j)
    \/ status[j] = "leased" /\ status'[j] \in Waiting \cup Settled
    \/ status[j] = "leased" /\ status'[j] = "executing"
          /\ \E w \in Workers : WorkerStarts(w, j) \/ SteerStarts(w, j)
    \/ status[j] = "executing" /\ status'[j] = "indeterminate"
    \/ status[j] = "executing" /\ status'[j] \in Settled \cup {"result_ready"} /\ Finishes(j)
    \/ status[j] = "executing" /\ status'[j] = "queued"
          /\ \E w \in Workers : RejectSteer(w) /\ Child(w) = j
    \/ status[j] = "indeterminate" /\ status'[j] = "result_ready"
          /\ \E completed, keep \in BOOLEAN : ObserveOutcome(j, completed, keep)
    \/ status[j] = "result_ready" /\ parked[j] = "no" /\ status'[j] \in Settled

RowMove(j) ==
    \/ /\ topic'[j] = topic[j] /\ cont'[j] = cont[j]
       /\ status'[j] = "absent" <=> status[j] = "absent"
    \/ Free(j) /\ status'[j] = "queued"

OwnerMove(j) ==
    /\ parked[j] # "no" => parked'[j] # "no"
    /\ resolution[j] # "none" => resolution'[j] # "none"
    /\ hold'[j] = hold[j] \/ (status[j] \in Waiting /\ status'[j] \notin Active)
    /\ j \in evidence => j \in evidence'
    /\ j \in evidence' =>
          j \in evidence \/ (j \in checkpoint /\ j \notin live /\ status'[j] = "indeterminate")

ProviderMove(j) ==
    /\ calls'[j] >= calls[j]
    /\ j \in checkpoint => j \in checkpoint'
    /\ j \in checkpoint' =>
          j \in checkpoint \/ (calls[j] > 0 /\ \E w \in Workers : Runs(w, j))
    /\ j \in live' =>
          \/ j \in live
          \/ calls'[j] > 0 /\ \E w \in Workers : StartedBy(w, j) /\ worker'[w].ph = "called"

Granted(j, w) == /\ tokens'[j] = tokens[j] + 1
                 /\ lease'[j] = [tok |-> tokens'[j], own |-> w, exp |-> FALSE]

LeaseMove(j) ==
    /\ tokens'[j] >= tokens[j]
    /\ \/ lease'[j] = lease[j]
       \/ lease'[j] = NoLease /\ status'[j] \notin Active
       \/ lease'[j] = [lease[j] EXCEPT !.exp = TRUE] /\ status'[j] = status[j]
       \/ Granted(j, NoWorker) /\ \E w \in Workers : LeaseSteer(w, j)
       \/ \E w \in Workers : Granted(j, w) /\ (Lease(w, j) \/ status[j] = "executing")

WorkerMove(w) ==
    \/ worker'[w] = worker[w]
    \/ worker'[w] = NoWork /\ (steer'[w] = NoSteer \/ status'[JobOf(w)] # "executing")
    \/ \E j \in Jobs, ph \in {"leased", "recover"} :
          /\ worker[w].ph = "idle" /\ Granted(j, w)
          /\ worker'[w] = [ph |-> ph, job |-> j, tok |-> tokens'[j]]
    \/ /\ worker'[w] = [worker[w] EXCEPT !.ph = "started"]
       /\ WorkerStarts(w, JobOf(w)) /\ status'[JobOf(w)] = "executing"
    \/ worker[w].ph = "started" /\ worker'[w] = [worker[w] EXCEPT !.ph = "called"]
    \/ /\ worker[w].ph = "called" /\ worker'[w] = [worker[w] EXCEPT !.ph = "turn"]
       /\ JobOf(w) \in checkpoint'

SteerMove(w) ==
    \/ steer'[w] = steer[w]
    \/ steer'[w] = SteerOff
    \/ steer'[w] = NoSteer
          /\ \/ worker'[w] = NoWork
             \/ ~SteerQuiet(w) /\ JobOf(w) # Parent(w)
             \/ ~SteerQuiet(w) /\ status'[Child(w)] \notin {"executing", "indeterminate"}
    \/ \E c \in Jobs : /\ LeaseSteer(w, c) /\ Granted(c, NoWorker)
                       /\ steer'[w] = [ph |-> "leased", job |-> c, tok |-> tokens'[c],
                                      par |-> JobOf(w)]
    \/ /\ steer'[w] = [steer[w] EXCEPT !.ph = "started"]
       /\ SteerStarts(w, Child(w)) /\ status'[Child(w)] = "executing"
    \/ \E ph \in {"accepted", "rejected", "unknown"} :
          Joins(w, Child(w)) /\ steer'[w] = [steer[w] EXCEPT !.ph = ph]

\* A job changes its status only along the edges of StatusMove.
LEMMA StatusMoves == ASSUME TypeOK, [Next]_vars, NEW i \in Jobs PROVE StatusMove(i)
<1>1. ASSUME NEW j \in Jobs,
             \/ BecomeDue(j) \/ TurnEnds(j) \/ LeaseExpires(j)
             \/ (\E r \in Resolutions : ResolveIndeterminate(j, r))
             \/ (\E how \in {"released", "reconciled"} : ParkDelivery(j, how))
      PROVE  StatusMove(i)
    BY <1>1
    DEF BecomeDue, TurnEnds, LeaseExpires, ResolveIndeterminate, ParkDelivery,
        StatusMove, rowVars, leaseVars, ownerVars, procVars, provVars
<1>2. ASSUME NEW w \in Workers,
             \/ (\E accepted \in BOOLEAN : CallProvider(w, accepted)) \/ RecordTurn(w)
             \/ WorkerDrops(w) \/ (\E j \in Jobs : ClaimStale(w, j))
             \/ (\E outcome \in {"accepted", "rejected", "unknown"} : InvokeSteer(w, outcome))
             \/ SteerDrops(w)
      PROVE  StatusMove(i)
    BY <1>2
    DEF CallProvider, RecordTurn, WorkerDrops, ClaimStale, InvokeSteer, SteerDrops,
        StatusMove, rowVars, leaseVars, ownerVars, procVars, provVars
<1>3. ASSUME MaterializeHeld
      PROVE  StatusMove(i)
    BY <1>3
    DEF MaterializeHeld, StatusMove, rowVars, leaseVars, ownerVars, procVars, provVars
<1>4. ASSUME NEW t \in Topics,
             \/ TakeLocalWriter(t) \/ ReturnLocalWriter(t)
      PROVE  StatusMove(i)
    BY <1>4
    DEF TakeLocalWriter, ReturnLocalWriter, StatusMove, rowVars, leaseVars, ownerVars,
        procVars, provVars
<1>5. ASSUME NEW j \in Jobs,
             \/ (\E t \in Topics, b \in Bindings, now \in AvailableNow : Enqueue(j, t, b, now))
             \/ (\E t \in Topics, b \in Bindings : EnqueueTakeover(j, t, b))
             \/ (\E src \in Jobs : Continue(src, j))
      PROVE  StatusMove(i)
    BY <1>5
    DEF Enqueue, EnqueueTakeover, Continue, StatusMove, TypeOK, Waiting, Active,
        Settled, Insert, Free, rowVars, leaseVars, ownerVars, procVars, provVars
<1>6. ASSUME NEW j \in Jobs,
             \/ Cancel(j) \/ (\E st \in {"completed", "failed"} : SettleDelivery(j, st))
      PROVE  StatusMove(i)
    BY <1>6
    DEF Cancel, SettleDelivery, StatusMove, TypeOK, Waiting, Active, Settled, rowVars,
        leaseVars, ownerVars, procVars, provVars
<1>7. ASSUME NEW s \in Stops, NEW t \in Topics, RequestStop(s, t)
      PROVE  StatusMove(i)
    BY <1>7
    DEF RequestStop, StatusMove, TypeOK, Waiting, Active, Settled, rowVars, leaseVars,
        ownerVars, procVars, provVars
<1>8. ASSUME NEW j \in Jobs, NEW decision \in {"confirmed", "cancelled"},
             DecideHeld(j, decision)
      PROVE  StatusMove(i)
    BY <1>8
    DEF DecideHeld, StatusMove, TypeOK, Waiting, Active, Settled, rowVars, leaseVars,
        ownerVars, procVars, provVars
<1>9. ASSUME NEW w \in Workers, NEW j \in Jobs, Lease(w, j)
      PROVE  StatusMove(i)
    BY <1>9
    DEF Lease, StatusMove, TypeOK, Waiting, Active, Settled, Eligible, rowVars,
        leaseVars, ownerVars, procVars, provVars
<1>10. ASSUME NEW w \in Workers, NEW c \in Jobs, LeaseSteer(w, c)
      PROVE  StatusMove(i)
    BY <1>10
    DEF LeaseSteer, StatusMove, TypeOK, Waiting, Active, Settled, rowVars, leaseVars,
        ownerVars, procVars, provVars
<1>11. ASSUME NEW w \in Workers,
             \/ ReleaseLease(w) \/ ScheduleRetry(w)
      PROVE  StatusMove(i)
    BY <1>11, WorkType
    DEF ReleaseLease, ScheduleRetry, StatusMove, TypeOK, Waiting, Active, Settled,
        Leave, OwnsIn, JobOf, rowVars, leaseVars, ownerVars, procVars, provVars
<1>12. ASSUME NEW w \in Workers, MarkExecuting(w)
      PROVE  StatusMove(i)
    BY <1>12, WorkType
    DEF MarkExecuting, StatusMove, TypeOK, Waiting, Active, Settled, WorkerStarts,
        Leave, OwnsIn, Owns, JobOf, rowVars, leaseVars, ownerVars, procVars, provVars
<1>13. ASSUME NEW w \in Workers, CommitResult(w)
      PROVE  StatusMove(i)
    BY <1>13, WorkType
    DEF CommitResult, StatusMove, TypeOK, Waiting, Active, Settled, Leave, OwnsIn,
        JobOf, Finishes, rowVars, leaseVars, ownerVars, procVars, provVars
<1>14. ASSUME NEW w \in Workers, CancelActive(w)
      PROVE  StatusMove(i)
    BY <1>14, WorkType
    DEF CancelActive, StatusMove, TypeOK, Waiting, Active, Settled, Leave, OwnsIn,
        JobOf, Finishes, Runs, Rest, WorkerTable, rowVars, leaseVars, ownerVars,
        procVars, provVars
<1>15. ASSUME NEW w \in Workers, TerminateFailed(w)
      PROVE  StatusMove(i)
    BY <1>15, WorkType
    DEF TerminateFailed, StatusMove, TypeOK, Waiting, Active, Settled, Leave, OwnsIn,
        JobOf, Finishes, Runs, Rest, WorkerTable, rowVars, leaseVars, ownerVars,
        procVars, provVars
<1>16. ASSUME NEW w \in Workers, NEW proof \in BOOLEAN, TerminateIndeterminate(w,
             proof)
      PROVE  StatusMove(i)
    BY <1>16, WorkType
    DEF TerminateIndeterminate, StatusMove, TypeOK, Waiting, Active, Settled, Leave,
        OwnsIn, JobOf, rowVars, leaseVars, ownerVars, procVars, provVars
<1>17. ASSUME NEW w \in Workers, SteerUnknown(w)
      PROVE  StatusMove(i)
    BY <1>17, ChildType
    DEF SteerUnknown, StatusMove, TypeOK, Waiting, Active, Settled, Leave, OwnsChild,
        SteerQuiet, rowVars, leaseVars, ownerVars, procVars, provVars
<1>18. ASSUME NEW a \in Agents, RecoverStale(a)
      PROVE  StatusMove(i)
    BY <1>18
    DEF RecoverStale, StatusMove, TypeOK, Waiting, Active, Settled, Recovered, rowVars,
        leaseVars, ownerVars, procVars, provVars
<1>19. ASSUME NEW j \in Jobs, NEW completed \in BOOLEAN, NEW keep \in BOOLEAN,
             ObserveOutcome(j, completed, keep)
      PROVE  StatusMove(i)
  <2>1. CASE i = j
    BY <1>19, <2>1 DEF StatusMove, ObserveOutcome, Uncertain, TypeOK
  <2>2. CASE i # j
    BY <1>19, <2>2 DEF StatusMove, ObserveOutcome, TypeOK
  <2> QED BY <2>1, <2>2
<1>20. ASSUME NEW w \in Workers, StartSteer(w)
      PROVE  StatusMove(i)
    BY <1>20, ChildType
    DEF StartSteer, StatusMove, TypeOK, Waiting, Active, Settled, Leave, OwnsChild,
        SteerTo, SteerStarts, SteerQuiet, rowVars, leaseVars, ownerVars, procVars,
        provVars
<1>21. ASSUME NEW w \in Workers, ReleaseSteer(w)
      PROVE  StatusMove(i)
    BY <1>21, ChildType
    DEF ReleaseSteer, StatusMove, TypeOK, Waiting, Active, Settled, Leave, OwnsChild,
        SteerQuiet, rowVars, leaseVars, ownerVars, procVars, provVars
<1>22. ASSUME NEW w \in Workers, CompleteSteered(w)
      PROVE  StatusMove(i)
    BY <1>22, ChildType
    DEF CompleteSteered, StatusMove, TypeOK, Waiting, Active, Settled, Leave, OwnsChild,
        Finishes, Joins, SteerQuiet, SteerPhases, rowVars, leaseVars, ownerVars,
        procVars, provVars
<1>23. ASSUME NEW w \in Workers, RejectSteer(w)
      PROVE  StatusMove(i)
    BY <1>23, ChildType
    DEF RejectSteer, StatusMove, TypeOK, Waiting, Active, Settled, Leave, OwnsChild,
        SteerQuiet, rowVars, leaseVars, ownerVars, procVars, provVars
<1>24. CASE UNCHANGED vars
    BY <1>24 DEF StatusMove, vars
<1> QED BY <1>1, <1>2, <1>3, <1>4, <1>5, <1>6, <1>7, <1>8, <1>9, <1>10, <1>11, <1>12,
        <1>13, <1>14, <1>15, <1>16, <1>17, <1>18, <1>19, <1>20, <1>21, <1>22, <1>23,
        <1>24
    DEF Next, Admission, Acquire, WorkerStep, SteerStep, World, Owner

\* A row is inserted once and keeps its topic and its source.
LEMMA RowMoves == ASSUME TypeOK, [Next]_vars, NEW i \in Jobs PROVE RowMove(i)
<1>1. ASSUME NEW j \in Jobs,
             \/ BecomeDue(j) \/ TurnEnds(j) \/ LeaseExpires(j)
             \/ (\E r \in Resolutions : ResolveIndeterminate(j, r))
             \/ (\E how \in {"released", "reconciled"} : ParkDelivery(j, how))
      PROVE  RowMove(i)
    BY <1>1
    DEF BecomeDue, TurnEnds, LeaseExpires, ResolveIndeterminate, ParkDelivery, RowMove,
        rowVars, leaseVars, ownerVars, procVars, provVars
<1>2. ASSUME NEW w \in Workers,
             \/ (\E accepted \in BOOLEAN : CallProvider(w, accepted)) \/ RecordTurn(w)
             \/ WorkerDrops(w) \/ (\E j \in Jobs : ClaimStale(w, j))
             \/ (\E outcome \in {"accepted", "rejected", "unknown"} : InvokeSteer(w, outcome))
             \/ SteerDrops(w)
      PROVE  RowMove(i)
    BY <1>2
    DEF CallProvider, RecordTurn, WorkerDrops, ClaimStale, InvokeSteer, SteerDrops,
        RowMove, rowVars, leaseVars, ownerVars, procVars, provVars
<1>3. ASSUME MaterializeHeld
      PROVE  RowMove(i)
    BY <1>3
    DEF MaterializeHeld, RowMove, rowVars, leaseVars, ownerVars, procVars, provVars
<1>4. ASSUME NEW t \in Topics,
             \/ TakeLocalWriter(t) \/ ReturnLocalWriter(t)
      PROVE  RowMove(i)
    BY <1>4
    DEF TakeLocalWriter, ReturnLocalWriter, RowMove, rowVars, leaseVars, ownerVars,
        procVars, provVars
<1>5. ASSUME NEW j \in Jobs,
             \/ (\E t \in Topics, b \in Bindings, now \in AvailableNow : Enqueue(j, t, b, now))
             \/ (\E t \in Topics, b \in Bindings : EnqueueTakeover(j, t, b))
             \/ (\E src \in Jobs : Continue(src, j))
      PROVE  RowMove(i)
    BY <1>5
    DEF Enqueue, EnqueueTakeover, Continue, RowMove, TypeOK, Insert, Free, rowVars,
        leaseVars, ownerVars, procVars, provVars
<1>6. ASSUME NEW w \in Workers,
             \/ ReleaseLease(w) \/ ScheduleRetry(w) \/ CommitResult(w)
             \/ CancelActive(w) \/ TerminateFailed(w)
             \/ (\E proof \in BOOLEAN : TerminateIndeterminate(w, proof))
             \/ MarkExecuting(w)
      PROVE  RowMove(i)
    BY <1>6, WorkType, ZenonT(30)
    DEF ReleaseLease, ScheduleRetry, CommitResult, CancelActive, TerminateFailed,
        TerminateIndeterminate, MarkExecuting, RowMove, TypeOK, Leave, OwnsIn, JobOf,
        rowVars, leaseVars, ownerVars, procVars, provVars
<1>7. ASSUME NEW w \in Workers,
             \/ StartSteer(w) \/ ReleaseSteer(w) \/ CompleteSteered(w) \/ RejectSteer(w)
             \/ SteerUnknown(w)
      PROVE  RowMove(i)
    BY <1>7, ChildType
    DEF StartSteer, ReleaseSteer, CompleteSteered, RejectSteer, SteerUnknown, RowMove,
        TypeOK, Leave, OwnsChild, SteerQuiet, rowVars, leaseVars, ownerVars, procVars,
        provVars
<1>8. ASSUME NEW a \in Agents, RecoverStale(a)
      PROVE  RowMove(i)
    BY <1>8
    DEF RecoverStale, RowMove, TypeOK, Recovered, Active, rowVars, leaseVars, ownerVars,
        procVars, provVars
<1>9. ASSUME NEW w \in Workers, NEW j \in Jobs, Lease(w, j)
      PROVE  RowMove(i)
    BY <1>9
    DEF Lease, RowMove, TypeOK, Eligible, Waiting, rowVars, leaseVars, ownerVars,
        procVars, provVars
<1>10. ASSUME NEW w \in Workers, NEW c \in Jobs, LeaseSteer(w, c)
      PROVE  RowMove(i)
    BY <1>10
    DEF LeaseSteer, RowMove, TypeOK, Waiting, rowVars, leaseVars, ownerVars, procVars,
        provVars
<1>11. ASSUME NEW j \in Jobs,
             \/ Cancel(j)
             \/ (\E completed \in BOOLEAN, keep \in BOOLEAN : ObserveOutcome(j, completed, keep))
             \/ (\E decision \in {"confirmed", "cancelled"} : DecideHeld(j, decision))
             \/ (\E st \in {"completed", "failed"} : SettleDelivery(j, st))
      PROVE  RowMove(i)
    BY <1>11
    DEF Cancel, ObserveOutcome, DecideHeld, SettleDelivery, RowMove, TypeOK, Waiting,
        Uncertain, rowVars, leaseVars, ownerVars, procVars, provVars
<1>12. ASSUME NEW s \in Stops, (\E t \in Topics : RequestStop(s, t))
      PROVE  RowMove(i)
    BY <1>12
    DEF RequestStop, RowMove, TypeOK, Waiting, Uncertain, rowVars, leaseVars, ownerVars,
        procVars, provVars
<1>13. CASE UNCHANGED vars
    BY <1>13 DEF RowMove, vars, rowVars, leaseVars, ownerVars, procVars, provVars
<1> QED BY <1>1, <1>2, <1>3, <1>4, <1>5, <1>6, <1>7, <1>8, <1>9, <1>10, <1>11, <1>12, <1>13
    DEF Next, Admission, Acquire, WorkerStep, SteerStep, World, Owner

\* Owner decisions, holds and evidence are only added, and holds only to waiting jobs.
LEMMA OwnerMoves == ASSUME TypeOK, [Next]_vars, NEW i \in Jobs PROVE OwnerMove(i)
<1>1. ASSUME NEW j \in Jobs,
             \/ BecomeDue(j) \/ Cancel(j) \/ TurnEnds(j) \/ LeaseExpires(j)
             \/ (\E st \in {"completed", "failed"} : SettleDelivery(j, st))
      PROVE  OwnerMove(i)
    BY <1>1
    DEF BecomeDue, Cancel, TurnEnds, LeaseExpires, SettleDelivery, OwnerMove, rowVars,
        leaseVars, ownerVars, procVars, provVars
<1>2. ASSUME NEW w \in Workers,
             \/ (\E j \in Jobs : Lease(w, j)) \/ ReleaseLease(w) \/ MarkExecuting(w)
             \/ (\E accepted \in BOOLEAN : CallProvider(w, accepted)) \/ RecordTurn(w)
             \/ CommitResult(w) \/ CancelActive(w) \/ TerminateFailed(w)
             \/ ScheduleRetry(w) \/ WorkerDrops(w) \/ (\E j \in Jobs : ClaimStale(w, j))
             \/ (\E c \in Jobs : LeaseSteer(w, c)) \/ StartSteer(w) \/ ReleaseSteer(w)
             \/ (\E outcome \in {"accepted", "rejected", "unknown"} : InvokeSteer(w, outcome))
             \/ CompleteSteered(w) \/ RejectSteer(w) \/ SteerUnknown(w) \/ SteerDrops(w)
      PROVE  OwnerMove(i)
    BY <1>2
    DEF Lease, ReleaseLease, MarkExecuting, CallProvider, RecordTurn, CommitResult,
        CancelActive, TerminateFailed, ScheduleRetry, WorkerDrops, ClaimStale,
        LeaseSteer, StartSteer, ReleaseSteer, InvokeSteer, CompleteSteered, RejectSteer,
        SteerUnknown, SteerDrops, OwnerMove, rowVars, leaseVars, ownerVars, procVars,
        provVars
<1>3. ASSUME NEW a \in Agents, RecoverStale(a)
      PROVE  OwnerMove(i)
    BY <1>3
    DEF RecoverStale, OwnerMove, rowVars, leaseVars, ownerVars, procVars, provVars
<1>4. ASSUME NEW s \in Stops, (\E t \in Topics : RequestStop(s, t))
      PROVE  OwnerMove(i)
    BY <1>4
    DEF RequestStop, OwnerMove, rowVars, leaseVars, ownerVars, procVars, provVars
<1>5. ASSUME NEW t \in Topics, TakeLocalWriter(t)
      PROVE  OwnerMove(i)
    BY <1>5
    DEF TakeLocalWriter, OwnerMove, rowVars, leaseVars, ownerVars, procVars, provVars
<1>6. ASSUME NEW j \in Jobs,
             \/ (\E t \in Topics, b \in Bindings, now \in AvailableNow : Enqueue(j, t, b, now))
             \/ (\E t \in Topics, b \in Bindings : EnqueueTakeover(j, t, b))
             \/ (\E src \in Jobs : Continue(src, j))
      PROVE  OwnerMove(i)
    BY <1>6
    DEF Enqueue, EnqueueTakeover, Continue, OwnerMove, Insert, rowVars, leaseVars,
        ownerVars, procVars, provVars
<1>7. ASSUME NEW j \in Jobs, NEW completed \in BOOLEAN, NEW keep \in BOOLEAN,
             ObserveOutcome(j, completed, keep)
      PROVE  OwnerMove(i)
    BY <1>7
    DEF ObserveOutcome, OwnerMove, TypeOK, HoldAll, HoldTable, Uncertain, Waiting,
        Active, rowVars, leaseVars, ownerVars, procVars, provVars
<1>8. ASSUME NEW w \in Workers, NEW proof \in BOOLEAN, TerminateIndeterminate(w,
             proof)
      PROVE  OwnerMove(i)
    BY <1>8, WorkType
    DEF TerminateIndeterminate, OwnerMove, TypeOK, HoldAll, HoldTable, Leave, OwnsIn,
        Waiting, Active, JobOf, rowVars, leaseVars, ownerVars, procVars, provVars
<1>9. ASSUME NEW j \in Jobs,
             \/ (\E r \in Resolutions : ResolveIndeterminate(j, r))
             \/ (\E how \in {"released", "reconciled"} : ParkDelivery(j, how))
      PROVE  OwnerMove(i)
    BY <1>9, TopologyAssumption
    DEF ResolveIndeterminate, ParkDelivery, OwnerMove, TypeOK, rowVars, leaseVars,
        ownerVars, procVars, provVars
<1>10. ASSUME MaterializeHeld
      PROVE  OwnerMove(i)
    BY <1>10
    DEF MaterializeHeld, OwnerMove, TypeOK, HoldAll, HoldTable, Waiting, Active,
        rowVars, leaseVars, ownerVars, procVars, provVars
<1>11. ASSUME NEW t \in Topics, ReturnLocalWriter(t)
      PROVE  OwnerMove(i)
    BY <1>11
    DEF ReturnLocalWriter, OwnerMove, TypeOK, HoldAll, HoldTable, Waiting, Active,
        rowVars, leaseVars, ownerVars, procVars, provVars
<1>12. ASSUME NEW j \in Jobs, NEW decision \in {"confirmed", "cancelled"},
             DecideHeld(j, decision)
      PROVE  OwnerMove(i)
    BY <1>12
    DEF DecideHeld, OwnerMove, TypeOK, HoldTable, Waiting, Active, rowVars, leaseVars,
        ownerVars, procVars, provVars
<1>13. CASE UNCHANGED vars
    BY <1>13 DEF OwnerMove, vars, rowVars, leaseVars, ownerVars, procVars, provVars
<1> QED BY <1>1, <1>2, <1>3, <1>4, <1>5, <1>6, <1>7, <1>8, <1>9, <1>10, <1>11, <1>12, <1>13
    DEF Next, Admission, Acquire, WorkerStep, SteerStep, World, Owner

\* A turn is journaled and becomes live only from the worker that runs it.
LEMMA ProviderMoves == ASSUME TypeOK, [Next]_vars, NEW i \in Jobs PROVE ProviderMove(i)
<1>1. ASSUME NEW j \in Jobs,
             \/ BecomeDue(j) \/ Cancel(j) \/ LeaseExpires(j)
             \/ (\E completed \in BOOLEAN, keep \in BOOLEAN : ObserveOutcome(j, completed, keep))
             \/ (\E r \in Resolutions : ResolveIndeterminate(j, r))
             \/ (\E decision \in {"confirmed", "cancelled"} : DecideHeld(j, decision))
             \/ (\E st \in {"completed", "failed"} : SettleDelivery(j, st))
             \/ (\E how \in {"released", "reconciled"} : ParkDelivery(j, how))
      PROVE  UNCHANGED provVars
    BY <1>1
    DEF BecomeDue, Cancel, LeaseExpires, ObserveOutcome, ResolveIndeterminate,
        DecideHeld, SettleDelivery, ParkDelivery, rowVars, leaseVars, ownerVars,
        procVars, provVars
<1>2. ASSUME NEW w \in Workers,
             \/ (\E j \in Jobs : Lease(w, j)) \/ ReleaseLease(w) \/ MarkExecuting(w)
             \/ CommitResult(w) \/ CancelActive(w) \/ TerminateFailed(w)
             \/ (\E proof \in BOOLEAN : TerminateIndeterminate(w, proof))
             \/ ScheduleRetry(w) \/ WorkerDrops(w) \/ (\E j \in Jobs : ClaimStale(w, j))
             \/ (\E c \in Jobs : LeaseSteer(w, c)) \/ StartSteer(w) \/ ReleaseSteer(w)
             \/ CompleteSteered(w) \/ RejectSteer(w) \/ SteerUnknown(w) \/ SteerDrops(w)
      PROVE  UNCHANGED provVars
    BY <1>2
    DEF Lease, ReleaseLease, MarkExecuting, CommitResult, CancelActive, TerminateFailed,
        TerminateIndeterminate, ScheduleRetry, WorkerDrops, ClaimStale, LeaseSteer,
        StartSteer, ReleaseSteer, CompleteSteered, RejectSteer, SteerUnknown,
        SteerDrops, rowVars, leaseVars, ownerVars, procVars, provVars
<1>3. ASSUME NEW a \in Agents, RecoverStale(a)
      PROVE  UNCHANGED provVars
    BY <1>3
    DEF RecoverStale, rowVars, leaseVars, ownerVars, procVars, provVars
<1>4. ASSUME NEW s \in Stops, (\E t \in Topics : RequestStop(s, t))
      PROVE  UNCHANGED provVars
    BY <1>4
    DEF RequestStop, rowVars, leaseVars, ownerVars, procVars, provVars
<1>5. ASSUME MaterializeHeld
      PROVE  UNCHANGED provVars
    BY <1>5
    DEF MaterializeHeld, rowVars, leaseVars, ownerVars, procVars, provVars
<1>6. ASSUME NEW t \in Topics,
             \/ TakeLocalWriter(t) \/ ReturnLocalWriter(t)
      PROVE  UNCHANGED provVars
    BY <1>6
    DEF TakeLocalWriter, ReturnLocalWriter, rowVars, leaseVars, ownerVars, procVars,
        provVars
<1>7. ASSUME NEW j \in Jobs,
             \/ (\E t \in Topics, b \in Bindings, now \in AvailableNow : Enqueue(j, t, b, now))
             \/ (\E t \in Topics, b \in Bindings : EnqueueTakeover(j, t, b))
             \/ (\E src \in Jobs : Continue(src, j))
      PROVE  UNCHANGED provVars
    BY <1>7
    DEF Enqueue, EnqueueTakeover, Continue, Insert, rowVars, leaseVars, ownerVars,
        procVars, provVars
<1>8. ASSUME NEW w \in Workers, NEW accepted \in BOOLEAN, CallProvider(w, accepted)
      PROVE  ProviderMove(i)
    BY <1>8, WorkType
    DEF CallProvider, ProviderMove, TypeOK, StartedBy, JobOf, WorkerTable, rowVars,
        leaseVars, ownerVars, procVars, provVars
<1>9. ASSUME NEW w \in Workers, RecordTurn(w)
      PROVE  ProviderMove(i)
    BY <1>9, WorkType
    DEF RecordTurn, ProviderMove, TypeOK, Runs, JobOf, rowVars, leaseVars, ownerVars,
        procVars, provVars
<1>10. ASSUME NEW j \in Jobs, TurnEnds(j)
      PROVE  ProviderMove(i)
    BY <1>10
    DEF TurnEnds, ProviderMove, TypeOK, rowVars, leaseVars, ownerVars, procVars,
        provVars
<1>11. ASSUME NEW w \in Workers, NEW outcome \in {"accepted", "rejected", "unknown"},
             InvokeSteer(w, outcome)
      PROVE  ProviderMove(i)
    BY <1>11, ChildType
    DEF InvokeSteer, ProviderMove, TypeOK, SteerQuiet, rowVars, leaseVars, ownerVars,
        procVars, provVars
<1>12. ASSUME UNCHANGED vars
      PROVE  UNCHANGED provVars
    BY <1>12 DEF vars, rowVars, leaseVars, ownerVars, procVars, provVars
<1>13. ASSUME UNCHANGED provVars
      PROVE  ProviderMove(i)
    BY <1>13
    DEF ProviderMove, TypeOK, rowVars, leaseVars, ownerVars, procVars, provVars
<1> QED BY <1>1, <1>2, <1>3, <1>4, <1>5, <1>6, <1>7, <1>8, <1>9, <1>10, <1>11, <1>12, <1>13
    DEF Next, Admission, Acquire, WorkerStep, SteerStep, World, Owner


\* Tokens only grow, and a lease is granted with a new one or it is cleared or expires.
LEMMA LeaseMoves == ASSUME TypeOK, [Next]_vars, NEW i \in Jobs PROVE LeaseMove(i)
<1>1. ASSUME NEW j \in Jobs,
             \/ BecomeDue(j) \/ Cancel(j) \/ TurnEnds(j)
             \/ (\E completed \in BOOLEAN, keep \in BOOLEAN : ObserveOutcome(j, completed, keep))
             \/ (\E r \in Resolutions : ResolveIndeterminate(j, r))
             \/ (\E decision \in {"confirmed", "cancelled"} : DecideHeld(j, decision))
             \/ (\E st \in {"completed", "failed"} : SettleDelivery(j, st))
             \/ (\E how \in {"released", "reconciled"} : ParkDelivery(j, how))
      PROVE  lease' = lease /\ tokens' = tokens
    BY <1>1
    DEF BecomeDue, Cancel, TurnEnds, ObserveOutcome, ResolveIndeterminate, DecideHeld,
        SettleDelivery, ParkDelivery, rowVars, leaseVars, ownerVars, procVars, provVars
<1>2. ASSUME NEW w \in Workers,
             \/ (\E accepted \in BOOLEAN : CallProvider(w, accepted)) \/ RecordTurn(w)
             \/ WorkerDrops(w)
             \/ (\E outcome \in {"accepted", "rejected", "unknown"} : InvokeSteer(w, outcome))
             \/ SteerDrops(w)
      PROVE  lease' = lease /\ tokens' = tokens
    BY <1>2
    DEF CallProvider, RecordTurn, WorkerDrops, InvokeSteer, SteerDrops, rowVars,
        leaseVars, ownerVars, procVars, provVars
<1>3. ASSUME NEW s \in Stops, (\E t \in Topics : RequestStop(s, t))
      PROVE  lease' = lease /\ tokens' = tokens
    BY <1>3
    DEF RequestStop, rowVars, leaseVars, ownerVars, procVars, provVars
<1>4. ASSUME MaterializeHeld
      PROVE  lease' = lease /\ tokens' = tokens
    BY <1>4
    DEF MaterializeHeld, rowVars, leaseVars, ownerVars, procVars, provVars
<1>5. ASSUME NEW t \in Topics,
             \/ TakeLocalWriter(t) \/ ReturnLocalWriter(t)
      PROVE  lease' = lease /\ tokens' = tokens
    BY <1>5
    DEF TakeLocalWriter, ReturnLocalWriter, rowVars, leaseVars, ownerVars, procVars,
        provVars
<1>6. ASSUME NEW j \in Jobs,
             \/ (\E t \in Topics, b \in Bindings, now \in AvailableNow : Enqueue(j, t, b, now))
             \/ (\E t \in Topics, b \in Bindings : EnqueueTakeover(j, t, b))
             \/ (\E src \in Jobs : Continue(src, j))
      PROVE  lease' = lease /\ tokens' = tokens
    BY <1>6
    DEF Enqueue, EnqueueTakeover, Continue, Insert, rowVars, leaseVars, ownerVars,
        procVars, provVars
<1>7. ASSUME NEW w \in Workers,
             \/ ReleaseLease(w) \/ CommitResult(w) \/ CancelActive(w)
             \/ TerminateFailed(w)
             \/ (\E proof \in BOOLEAN : TerminateIndeterminate(w, proof))
             \/ ScheduleRetry(w)
      PROVE  /\ tokens' = tokens
             /\ \E x \in Jobs : /\ lease' \in {lease, [lease EXCEPT ![x] = NoLease]}
                                /\ lease' = lease \/ status'[x] \notin Active
    BY <1>7, WorkType
    DEF ReleaseLease, CommitResult, CancelActive, TerminateFailed,
        TerminateIndeterminate, ScheduleRetry, TypeOK, OwnsIn, Owns, Active, Waiting,
        Leave, rowVars, leaseVars, ownerVars, procVars, provVars
<1>8. ASSUME NEW w \in Workers, MarkExecuting(w)
      PROVE  /\ tokens' = tokens
             /\ \E x \in Jobs : /\ lease' \in {lease, [lease EXCEPT ![x] = NoLease]}
                                /\ lease' = lease \/ status'[x] \notin Active
    BY <1>8, WorkType
    DEF MarkExecuting, TypeOK, OwnsIn, Owns, Active, Waiting, Leave, rowVars, leaseVars,
        ownerVars, procVars, provVars
<1>9. ASSUME NEW w \in Workers,
             \/ StartSteer(w) \/ ReleaseSteer(w) \/ CompleteSteered(w) \/ RejectSteer(w)
             \/ SteerUnknown(w)
      PROVE  /\ tokens' = tokens
             /\ \E x \in Jobs : /\ lease' \in {lease, [lease EXCEPT ![x] = NoLease]}
                                /\ lease' = lease \/ status'[x] \notin Active
    BY <1>9, ChildType
    DEF StartSteer, ReleaseSteer, CompleteSteered, RejectSteer, SteerUnknown, TypeOK,
        SteerQuiet, Active, Waiting, Leave, rowVars, leaseVars, ownerVars, procVars,
        provVars
<1>10. ASSUME NEW a \in Agents, RecoverStale(a)
      PROVE  LeaseMove(i)
    BY <1>10
    DEF RecoverStale, LeaseMove, TypeOK, LeaseTable, Recovered, Active, rowVars,
        leaseVars, ownerVars, procVars, provVars
<1>11. ASSUME NEW j \in Jobs, LeaseExpires(j)
      PROVE  LeaseMove(i)
  <2>1. CASE i = j
    BY <1>11, <2>1 DEF LeaseExpires, LeaseMove, TypeOK, LeaseTable
  <2>2. CASE i # j
    BY <1>11, <2>2 DEF LeaseExpires, LeaseMove, TypeOK, LeaseTable
  <2> QED BY <2>1, <2>2
<1>12. ASSUME NEW w \in Workers, NEW j \in Jobs, Lease(w, j)
      PROVE  LeaseMove(i)
  <2>1. CASE i = j
    <3>1. Granted(i, w)
      BY <1>12, <2>1 DEF Lease, Granted, TypeOK, LeaseTable
    <3>2. tokens'[i] >= tokens[i]
      BY <3>1 DEF Granted, TypeOK
    <3> QED BY <1>12, <2>1, <3>1, <3>2 DEF LeaseMove
  <2>2. CASE i # j
    BY <1>12, <2>2 DEF Lease, LeaseMove, TypeOK, LeaseTable
  <2> QED BY <2>1, <2>2
<1>13. ASSUME NEW w \in Workers, NEW c \in Jobs, LeaseSteer(w, c)
      PROVE  LeaseMove(i)
  <2>1. CASE i = c
    <3>1. Granted(i, NoWorker)
      BY <1>13, <2>1 DEF LeaseSteer, Granted, TypeOK, LeaseTable
    <3>2. tokens'[i] >= tokens[i]
      BY <3>1 DEF Granted, TypeOK
    <3> QED BY <1>13, <2>1, <3>1, <3>2 DEF LeaseMove
  <2>2. CASE i # c
    BY <1>13, <2>2 DEF LeaseSteer, LeaseMove, TypeOK, LeaseTable
  <2> QED BY <2>1, <2>2
<1>14. ASSUME NEW w \in Workers, NEW j \in Jobs, ClaimStale(w, j)
      PROVE  LeaseMove(i)
  <2>1. CASE i = j
    <3>1. Granted(i, w)
      BY <1>14, <2>1 DEF ClaimStale, Granted, TypeOK, LeaseTable
    <3>2. tokens'[i] >= tokens[i]
      BY <3>1 DEF Granted, TypeOK
    <3> QED BY <1>14, <2>1, <3>1, <3>2 DEF LeaseMove, ClaimStale
  <2>2. CASE i # j
    BY <1>14, <2>2 DEF ClaimStale, LeaseMove, TypeOK, LeaseTable
  <2> QED BY <2>1, <2>2
<1>15. ASSUME UNCHANGED vars
      PROVE  lease' = lease /\ tokens' = tokens
    BY <1>15 DEF vars, rowVars, leaseVars, ownerVars, procVars, provVars
<1>16. ASSUME lease' = lease /\ tokens' = tokens
      PROVE  LeaseMove(i)
    BY <1>16
    DEF LeaseMove, TypeOK, LeaseTable, rowVars, leaseVars, ownerVars, procVars, provVars
<1>17. ASSUME /\ tokens' = tokens
             /\ \E x \in Jobs : /\ lease' \in {lease, [lease EXCEPT ![x] = NoLease]}
                                /\ lease' = lease \/ status'[x] \notin Active
      PROVE  LeaseMove(i)
    BY <1>17
    DEF LeaseMove, TypeOK, LeaseTable
<1> QED BY <1>1, <1>2, <1>3, <1>4, <1>5, <1>6, <1>7, <1>8, <1>9, <1>10, <1>11, <1>12,
        <1>13, <1>14, <1>15, <1>16, <1>17
    DEF Next, Admission, Acquire, WorkerStep, SteerStep, World, Owner

\* What a worker that rests does to the processes.
LEMMA RestMoves == ASSUME TypeOK, NEW w \in Workers, Rest(w), NEW v \in Workers,
                          status'[JobOf(w)] # "executing"
                   PROVE  WorkerMove(v) /\ SteerMove(v)
BY DEF Rest, WorkerMove, SteerMove, SteerQuiet, TypeOK, WorkerTable, SteerTable

\* A worker takes a fresh lease, goes through the phases of its job, or rests.
LEMMA WorkerMoves == ASSUME TypeOK, [Next]_vars, NEW v \in Workers PROVE WorkerMove(v)
<1>1. ASSUME NEW j \in Jobs,
             \/ BecomeDue(j) \/ Cancel(j) \/ TurnEnds(j) \/ LeaseExpires(j)
             \/ (\E completed \in BOOLEAN, keep \in BOOLEAN : ObserveOutcome(j, completed, keep))
             \/ (\E r \in Resolutions : ResolveIndeterminate(j, r))
             \/ (\E decision \in {"confirmed", "cancelled"} : DecideHeld(j, decision))
             \/ (\E st \in {"completed", "failed"} : SettleDelivery(j, st))
             \/ (\E how \in {"released", "reconciled"} : ParkDelivery(j, how))
      PROVE  worker' = worker
    BY <1>1
    DEF BecomeDue, Cancel, TurnEnds, LeaseExpires, ObserveOutcome, ResolveIndeterminate,
        DecideHeld, SettleDelivery, ParkDelivery, rowVars, leaseVars, ownerVars,
        procVars, provVars
<1>2. ASSUME NEW a \in Agents, RecoverStale(a)
      PROVE  worker' = worker
    BY <1>2
    DEF RecoverStale, rowVars, leaseVars, ownerVars, procVars, provVars
<1>3. ASSUME NEW w \in Workers,
             \/ (\E c \in Jobs : LeaseSteer(w, c)) \/ StartSteer(w) \/ ReleaseSteer(w)
             \/ (\E outcome \in {"accepted", "rejected", "unknown"} : InvokeSteer(w, outcome))
             \/ CompleteSteered(w) \/ RejectSteer(w) \/ SteerUnknown(w) \/ SteerDrops(w)
      PROVE  worker' = worker
    BY <1>3
    DEF LeaseSteer, StartSteer, ReleaseSteer, InvokeSteer, CompleteSteered, RejectSteer,
        SteerUnknown, SteerDrops, rowVars, leaseVars, ownerVars, procVars, provVars
<1>4. ASSUME NEW s \in Stops, (\E t \in Topics : RequestStop(s, t))
      PROVE  worker' = worker
    BY <1>4
    DEF RequestStop, rowVars, leaseVars, ownerVars, procVars, provVars
<1>5. ASSUME MaterializeHeld
      PROVE  worker' = worker
    BY <1>5
    DEF MaterializeHeld, rowVars, leaseVars, ownerVars, procVars, provVars
<1>6. ASSUME NEW t \in Topics,
             \/ TakeLocalWriter(t) \/ ReturnLocalWriter(t)
      PROVE  worker' = worker
    BY <1>6
    DEF TakeLocalWriter, ReturnLocalWriter, rowVars, leaseVars, ownerVars, procVars,
        provVars
<1>7. ASSUME NEW j \in Jobs,
             \/ (\E t \in Topics, b \in Bindings, now \in AvailableNow : Enqueue(j, t, b, now))
             \/ (\E t \in Topics, b \in Bindings : EnqueueTakeover(j, t, b))
             \/ (\E src \in Jobs : Continue(src, j))
      PROVE  worker' = worker
    BY <1>7
    DEF Enqueue, EnqueueTakeover, Continue, Insert, rowVars, leaseVars, ownerVars,
        procVars, provVars
<1>8. ASSUME NEW w \in Workers,
             \/ ReleaseLease(w) \/ CommitResult(w) \/ CancelActive(w)
             \/ TerminateFailed(w)
             \/ (\E proof \in BOOLEAN : TerminateIndeterminate(w, proof))
             \/ ScheduleRetry(w)
      PROVE  WorkerMove(v)
    BY <1>8, RestMoves, WorkType
    DEF ReleaseLease, CommitResult, CancelActive, TerminateFailed,
        TerminateIndeterminate, ScheduleRetry, TypeOK, OwnsIn, Owns, Leave, rowVars,
        leaseVars, ownerVars, procVars, provVars
<1>9. ASSUME NEW w \in Workers, WorkerDrops(w)
      PROVE  WorkerMove(v)
    BY <1>9
    DEF WorkerDrops, WorkerMove, TypeOK, WorkerTable, SteerDone, SteerTable, rowVars,
        leaseVars, ownerVars, procVars, provVars
<1>10. ASSUME NEW w \in Workers, MarkExecuting(w)
      PROVE  WorkerMove(v)
  <2>1. CASE PendingStop(JobOf(w))
    BY <1>10, <2>1, RestMoves, WorkType DEF MarkExecuting, Leave, TypeOK
  <2>2. CASE ~PendingStop(JobOf(w)) /\ v = w
    <3>1. JobOf(w) \in Jobs
      BY <1>10, WorkType DEF MarkExecuting
    <3>2. WorkerStarts(w, JobOf(w))
      BY <1>10, <2>2 DEF MarkExecuting, WorkerStarts
    <3>3. status'[JobOf(w)] = "executing"
      BY <1>10, <2>2, <3>1 DEF MarkExecuting, TypeOK
    <3>4. worker'[w] = [worker[w] EXCEPT !.ph = "started"]
      BY <3>2 DEF WorkerStarts, TypeOK, WorkerTable
    <3> QED BY <2>2, <3>2, <3>3, <3>4 DEF WorkerMove
  <2>3. CASE ~PendingStop(JobOf(w)) /\ v # w
    BY <1>10, <2>3 DEF MarkExecuting, WorkerMove, TypeOK, WorkerTable
  <2> QED BY <2>1, <2>2, <2>3
<1>11. ASSUME NEW w \in Workers, NEW accepted \in BOOLEAN, CallProvider(w, accepted)
      PROVE  WorkerMove(v)
    BY <1>11
    DEF CallProvider, WorkerMove, TypeOK, WorkerTable, rowVars, leaseVars, ownerVars,
        procVars, provVars
<1>12. ASSUME NEW w \in Workers, RecordTurn(w)
      PROVE  WorkerMove(v)
    BY <1>12
    DEF RecordTurn, WorkerMove, TypeOK, WorkerTable, JobOf, rowVars, leaseVars,
        ownerVars, procVars, provVars
<1>13. ASSUME NEW w \in Workers, NEW j \in Jobs, Lease(w, j)
      PROVE  WorkerMove(v)
  <2>1. Granted(j, w)
    BY <1>13 DEF Lease, Granted, TypeOK, LeaseTable
  <2> QED BY <1>13, <2>1 DEF Lease, WorkerMove, TypeOK, WorkerTable
<1>14. ASSUME NEW w \in Workers, NEW j \in Jobs, ClaimStale(w, j)
      PROVE  WorkerMove(v)
  <2>1. Granted(j, w)
    BY <1>14 DEF ClaimStale, Granted, TypeOK, LeaseTable
  <2> QED BY <1>14, <2>1 DEF ClaimStale, WorkerMove, TypeOK, WorkerTable
<1>15. ASSUME UNCHANGED vars
      PROVE  worker' = worker
    BY <1>15 DEF vars, rowVars, leaseVars, ownerVars, procVars, provVars
<1>16. ASSUME worker' = worker
      PROVE  WorkerMove(v)
    BY <1>16
    DEF WorkerMove, rowVars, leaseVars, ownerVars, procVars, provVars
<1> QED BY <1>1, <1>2, <1>3, <1>4, <1>5, <1>6, <1>7, <1>8, <1>9, <1>10, <1>11, <1>12,
        <1>13, <1>14, <1>15, <1>16
    DEF Next, Admission, Acquire, WorkerStep, SteerStep, World, Owner

\* A steering thread leases a child, goes through its phases, fails or is done with it.
LEMMA SteerMoves == ASSUME TypeOK, [Next]_vars, NEW v \in Workers PROVE SteerMove(v)
<1>1. ASSUME NEW j \in Jobs,
             \/ BecomeDue(j) \/ Cancel(j) \/ TurnEnds(j) \/ LeaseExpires(j)
             \/ (\E completed \in BOOLEAN, keep \in BOOLEAN : ObserveOutcome(j, completed, keep))
             \/ (\E r \in Resolutions : ResolveIndeterminate(j, r))
             \/ (\E decision \in {"confirmed", "cancelled"} : DecideHeld(j, decision))
             \/ (\E st \in {"completed", "failed"} : SettleDelivery(j, st))
             \/ (\E how \in {"released", "reconciled"} : ParkDelivery(j, how))
      PROVE  steer' = steer
    BY <1>1
    DEF BecomeDue, Cancel, TurnEnds, LeaseExpires, ObserveOutcome, ResolveIndeterminate,
        DecideHeld, SettleDelivery, ParkDelivery, rowVars, leaseVars, ownerVars,
        procVars, provVars
<1>2. ASSUME NEW w \in Workers,
             \/ (\E j \in Jobs : Lease(w, j))
             \/ (\E accepted \in BOOLEAN : CallProvider(w, accepted)) \/ RecordTurn(w)
             \/ (\E j \in Jobs : ClaimStale(w, j))
      PROVE  steer' = steer
    BY <1>2
    DEF Lease, CallProvider, RecordTurn, ClaimStale, rowVars, leaseVars, ownerVars,
        procVars, provVars
<1>3. ASSUME NEW a \in Agents, RecoverStale(a)
      PROVE  steer' = steer
    BY <1>3
    DEF RecoverStale, rowVars, leaseVars, ownerVars, procVars, provVars
<1>4. ASSUME NEW s \in Stops, (\E t \in Topics : RequestStop(s, t))
      PROVE  steer' = steer
    BY <1>4
    DEF RequestStop, rowVars, leaseVars, ownerVars, procVars, provVars
<1>5. ASSUME MaterializeHeld
      PROVE  steer' = steer
    BY <1>5
    DEF MaterializeHeld, rowVars, leaseVars, ownerVars, procVars, provVars
<1>6. ASSUME NEW t \in Topics,
             \/ TakeLocalWriter(t) \/ ReturnLocalWriter(t)
      PROVE  steer' = steer
    BY <1>6
    DEF TakeLocalWriter, ReturnLocalWriter, rowVars, leaseVars, ownerVars, procVars,
        provVars
<1>7. ASSUME NEW j \in Jobs,
             \/ (\E t \in Topics, b \in Bindings, now \in AvailableNow : Enqueue(j, t, b, now))
             \/ (\E t \in Topics, b \in Bindings : EnqueueTakeover(j, t, b))
             \/ (\E src \in Jobs : Continue(src, j))
      PROVE  steer' = steer
    BY <1>7
    DEF Enqueue, EnqueueTakeover, Continue, Insert, rowVars, leaseVars, ownerVars,
        procVars, provVars
<1>8. ASSUME NEW w \in Workers,
             \/ ReleaseLease(w) \/ CommitResult(w) \/ CancelActive(w)
             \/ TerminateFailed(w)
             \/ (\E proof \in BOOLEAN : TerminateIndeterminate(w, proof))
             \/ ScheduleRetry(w)
      PROVE  SteerMove(v)
    BY <1>8, RestMoves, WorkType
    DEF ReleaseLease, CommitResult, CancelActive, TerminateFailed,
        TerminateIndeterminate, ScheduleRetry, TypeOK, OwnsIn, Owns, Leave, rowVars,
        leaseVars, ownerVars, procVars, provVars
<1>9. ASSUME NEW w \in Workers, MarkExecuting(w)
      PROVE  SteerMove(v)
  <2>1. CASE PendingStop(JobOf(w))
    BY <1>9, <2>1, RestMoves, WorkType DEF MarkExecuting, Leave, TypeOK
  <2>2. CASE ~PendingStop(JobOf(w))
    BY <1>9, <2>2 DEF MarkExecuting, SteerMove
  <2> QED BY <2>1, <2>2
<1>10. ASSUME NEW w \in Workers, WorkerDrops(w)
      PROVE  SteerMove(v)
    BY <1>10
    DEF WorkerDrops, SteerMove, TypeOK, SteerTable, SteerDone, WorkerTable, rowVars,
        leaseVars, ownerVars, procVars, provVars
<1>11. ASSUME NEW w \in Workers, NEW outcome \in {"accepted", "rejected", "unknown"},
             InvokeSteer(w, outcome)
      PROVE  SteerMove(v)
    BY <1>11, ChildType
    DEF InvokeSteer, SteerMove, TypeOK, SteerTable, SteerTo, Joins, SteerPhases,
        SteerQuiet, Child, rowVars, leaseVars, ownerVars, procVars, provVars
<1>12. ASSUME NEW w \in Workers, StartSteer(w)
      PROVE  SteerMove(v)
  <2>1. Child(w) \in Jobs
    BY <1>12, ChildType DEF StartSteer, SteerQuiet
  <2>2. CASE v # w
    BY <1>12, <2>2 DEF StartSteer, SteerTo, SteerDone, SteerMove, TypeOK, SteerTable
  <2>3. CASE v = w /\ steer' = [steer EXCEPT ![w] = NoSteer]
    <3>1. ~SteerTo(w, "started")
      BY <2>3 DEF SteerTo, TypeOK, SteerTable, NoSteer
    <3>2. status'[Child(w)] \in {"cancelled", "queued"}
      BY <1>12, <2>1, <3>1 DEF StartSteer, Leave, TypeOK
    <3>3. ~SteerQuiet(w) /\ steer'[w] = NoSteer
      BY <1>12, <2>3 DEF StartSteer, SteerQuiet, TypeOK, SteerTable
    <3> QED BY <2>3, <3>2, <3>3 DEF SteerMove
  <2>4. CASE v = w /\ SteerTo(w, "started")
    <3>1. SteerStarts(w, Child(w)) /\ status'[Child(w)] = "executing"
      BY <1>12, <2>1, <2>4 DEF StartSteer, SteerTo, SteerDone, SteerStarts, TypeOK, SteerTable,
                              NoSteer
    <3>2. steer'[w] = [steer[w] EXCEPT !.ph = "started"]
      BY <2>4 DEF SteerTo, TypeOK, SteerTable
    <3> QED BY <2>4, <3>1, <3>2 DEF SteerMove
  <2> QED BY <1>12, <2>2, <2>3, <2>4 DEF StartSteer, SteerDone
<1>13. ASSUME NEW w \in Workers, CompleteSteered(w)
      PROVE  SteerMove(v)
    BY <1>13, ChildType, ZenonT(30)
    DEF CompleteSteered, SteerMove, TypeOK, SteerTable, Leave, SteerTo, SteerDone,
        SteerQuiet, Joins, SteerPhases, rowVars, leaseVars, ownerVars, procVars,
        provVars
<1>14. ASSUME NEW w \in Workers, RejectSteer(w)
      PROVE  SteerMove(v)
    BY <1>14, ChildType
    DEF RejectSteer, SteerMove, TypeOK, SteerTable, Leave, SteerDone, SteerFails,
        SteerQuiet, rowVars, leaseVars, ownerVars, procVars, provVars
<1>15. ASSUME NEW w \in Workers,
             \/ ReleaseSteer(w) \/ SteerUnknown(w) \/ SteerDrops(w)
      PROVE  SteerMove(v)
    BY <1>15
    DEF ReleaseSteer, SteerUnknown, SteerDrops, SteerMove, TypeOK, SteerTable,
        SteerFails, SteerDone, SteerQuiet, rowVars, leaseVars, ownerVars, procVars,
        provVars
<1>16. ASSUME NEW w \in Workers, NEW c \in Jobs, LeaseSteer(w, c)
      PROVE  SteerMove(v)
  <2>1. Granted(c, NoWorker)
    BY <1>16 DEF LeaseSteer, Granted, TypeOK, LeaseTable
  <2>2. CASE v = w
    <3>1. steer'[v] = [ph |-> "leased", job |-> c, tok |-> tokens'[c], par |-> JobOf(v)]
      BY <1>16, <2>2 DEF LeaseSteer, SteerDone, TypeOK, SteerTable
    <3> QED BY <1>16, <2>1, <2>2, <3>1 DEF SteerMove
  <2>3. CASE v # w
    BY <1>16, <2>3 DEF LeaseSteer, SteerDone, SteerMove, TypeOK, SteerTable
  <2> QED BY <2>2, <2>3
<1>17. ASSUME UNCHANGED vars
      PROVE  steer' = steer
    BY <1>17 DEF vars, rowVars, leaseVars, ownerVars, procVars, provVars
<1>18. ASSUME steer' = steer
      PROVE  SteerMove(v)
    BY <1>18
    DEF SteerMove, rowVars, leaseVars, ownerVars, procVars, provVars
<1> QED BY <1>1, <1>2, <1>3, <1>4, <1>5, <1>6, <1>7, <1>8, <1>9, <1>10, <1>11, <1>12,
        <1>13, <1>14, <1>15, <1>16, <1>17, <1>18
    DEF Next, Admission, Acquire, WorkerStep, SteerStep, World, Owner

\* A topic gets a local writer only from set_writer_mode.
LEMMA WriterMoves == ASSUME TypeOK, [Next]_vars, NEW u \in writer', u \notin writer
                     PROVE  TakeLocalWriter(u) /\ u \in Topics
<1>1. ASSUME NEW j \in Jobs,
             \/ BecomeDue(j) \/ Cancel(j) \/ TurnEnds(j) \/ LeaseExpires(j)
             \/ (\E completed \in BOOLEAN, keep \in BOOLEAN : ObserveOutcome(j, completed, keep))
             \/ (\E r \in Resolutions : ResolveIndeterminate(j, r))
             \/ (\E decision \in {"confirmed", "cancelled"} : DecideHeld(j, decision))
             \/ (\E st \in {"completed", "failed"} : SettleDelivery(j, st))
             \/ (\E how \in {"released", "reconciled"} : ParkDelivery(j, how))
      PROVE  writer' \subseteq writer
    BY <1>1
    DEF BecomeDue, Cancel, TurnEnds, LeaseExpires, ObserveOutcome, ResolveIndeterminate,
        DecideHeld, SettleDelivery, ParkDelivery, rowVars, leaseVars, ownerVars,
        procVars, provVars
<1>2. ASSUME NEW w \in Workers,
             \/ (\E j \in Jobs : Lease(w, j)) \/ ReleaseLease(w) \/ MarkExecuting(w)
             \/ (\E accepted \in BOOLEAN : CallProvider(w, accepted)) \/ RecordTurn(w)
             \/ CommitResult(w) \/ CancelActive(w) \/ TerminateFailed(w)
             \/ (\E proof \in BOOLEAN : TerminateIndeterminate(w, proof))
             \/ ScheduleRetry(w) \/ WorkerDrops(w) \/ (\E j \in Jobs : ClaimStale(w, j))
             \/ (\E c \in Jobs : LeaseSteer(w, c)) \/ StartSteer(w) \/ ReleaseSteer(w)
             \/ (\E outcome \in {"accepted", "rejected", "unknown"} : InvokeSteer(w, outcome))
             \/ CompleteSteered(w) \/ RejectSteer(w) \/ SteerUnknown(w) \/ SteerDrops(w)
      PROVE  writer' \subseteq writer
    BY <1>2
    DEF Lease, ReleaseLease, MarkExecuting, CallProvider, RecordTurn, CommitResult,
        CancelActive, TerminateFailed, TerminateIndeterminate, ScheduleRetry,
        WorkerDrops, ClaimStale, LeaseSteer, StartSteer, ReleaseSteer, InvokeSteer,
        CompleteSteered, RejectSteer, SteerUnknown, SteerDrops, rowVars, leaseVars,
        ownerVars, procVars, provVars
<1>3. ASSUME NEW a \in Agents, RecoverStale(a)
      PROVE  writer' \subseteq writer
    BY <1>3
    DEF RecoverStale, rowVars, leaseVars, ownerVars, procVars, provVars
<1>4. ASSUME NEW s \in Stops, (\E t \in Topics : RequestStop(s, t))
      PROVE  writer' \subseteq writer
    BY <1>4
    DEF RequestStop, rowVars, leaseVars, ownerVars, procVars, provVars
<1>5. ASSUME MaterializeHeld
      PROVE  writer' \subseteq writer
    BY <1>5
    DEF MaterializeHeld, rowVars, leaseVars, ownerVars, procVars, provVars
<1>6. ASSUME NEW j \in Jobs,
             \/ (\E t \in Topics, b \in Bindings, now \in AvailableNow : Enqueue(j, t, b, now))
             \/ (\E src \in Jobs : Continue(src, j))
      PROVE  writer' \subseteq writer
    BY <1>6
    DEF Enqueue, Continue, Insert, rowVars, leaseVars, ownerVars, procVars, provVars
<1>7. ASSUME NEW j \in Jobs, NEW t \in Topics, NEW b \in Bindings, EnqueueTakeover(j,
             t, b)
      PROVE  writer' \subseteq writer
    BY <1>7
    DEF EnqueueTakeover, Insert, rowVars, leaseVars, ownerVars, procVars, provVars
<1>8. ASSUME NEW t \in Topics, ReturnLocalWriter(t)
      PROVE  writer' \subseteq writer
    BY <1>8
    DEF ReturnLocalWriter, rowVars, leaseVars, ownerVars, procVars, provVars
<1>9. ASSUME NEW t \in Topics, TakeLocalWriter(t)
      PROVE  writer' \subseteq writer \cup {t}
    BY <1>9
    DEF TakeLocalWriter, rowVars, leaseVars, ownerVars, procVars, provVars
<1>10. ASSUME UNCHANGED vars
      PROVE  writer' \subseteq writer
    BY <1>10 DEF vars, rowVars, leaseVars, ownerVars, procVars, provVars
<1> QED BY <1>1, <1>2, <1>3, <1>4, <1>5, <1>6, <1>7, <1>8, <1>9, <1>10
    DEF Next, Admission, Acquire, WorkerStep, SteerStep, World, Owner

-----------------------------------------------------------------------------
(* What the moves mean for the predicates of the invariants.                 *)

\* A process comes to run or to steer a job only by starting it.
LEMMA RunsMove ==
    ASSUME TypeOK, [Next]_vars, NEW v \in Workers, NEW i \in Jobs
    PROVE  /\ Runs(v, i)' =>
                 Runs(v, i) \/ (WorkerStarts(v, i) /\ status'[i] = "executing")
           /\ StartedBy(v, i)' =>
                 StartedBy(v, i) \/ (WorkerStarts(v, i) /\ status'[i] = "executing")
           /\ Joins(v, i)' =>
                 Joins(v, i) \/ (SteerStarts(v, i) /\ status'[i] = "executing")
<1>1. WorkerMove(v) /\ SteerMove(v)
  BY WorkerMoves, SteerMoves
<1>2. ASSUME worker[v].ph # "idle", NEW ph, worker'[v] = [worker[v] EXCEPT !.ph = ph]
      PROVE  worker'[v].ph = ph /\ JobOf(v)' = JobOf(v)
  BY <1>2, WorkType DEF JobOf
<1>3. ASSUME worker'[v].ph \in {"started", "called", "turn"}
      PROVE  \/ worker'[v] = worker[v]
             \/ /\ worker'[v].ph = "started" /\ WorkerStarts(v, JobOf(v))
                /\ status'[JobOf(v)] = "executing" /\ JobOf(v)' = JobOf(v)
             \/ worker'[v].ph = "called" /\ worker[v].ph = "started" /\ JobOf(v)' = JobOf(v)
             \/ worker'[v].ph = "turn" /\ worker[v].ph = "called" /\ JobOf(v)' = JobOf(v)
  <2>1. WorkerStarts(v, JobOf(v)) => worker[v].ph # "idle"
    BY DEF WorkerStarts
  <2>2. CASE worker'[v] = [worker[v] EXCEPT !.ph = "started"] /\ WorkerStarts(v, JobOf(v))
               /\ status'[JobOf(v)] = "executing"
    BY <1>2, <2>1, <2>2
  <2>3. CASE worker[v].ph = "started" /\ worker'[v] = [worker[v] EXCEPT !.ph = "called"]
    BY <1>2, <2>3
  <2>4. CASE worker[v].ph = "called" /\ worker'[v] = [worker[v] EXCEPT !.ph = "turn"]
    BY <1>2, <2>4
  <2>5. CASE worker'[v] = NoWork
    BY <1>3, <2>5 DEF NoWork
  <2>6. CASE \E j \in Jobs, ph \in {"leased", "recover"} :
                worker'[v] = [ph |-> ph, job |-> j, tok |-> tokens'[j]]
    BY <1>3, <2>6
  <2> QED BY <1>1, <2>2, <2>3, <2>4, <2>5, <2>6 DEF WorkerMove
<1>4. Runs(v, i)' => Runs(v, i) \/ (WorkerStarts(v, i) /\ status'[i] = "executing")
  BY <1>3 DEF Runs, JobOf
<1>5. StartedBy(v, i)' => StartedBy(v, i) \/ (WorkerStarts(v, i) /\ status'[i] = "executing")
  BY <1>3 DEF StartedBy, JobOf
<1>6. ASSUME ~SteerQuiet(v), NEW ph, steer'[v] = [steer[v] EXCEPT !.ph = ph]
      PROVE  steer'[v].ph = ph /\ Child(v)' = Child(v)
  BY <1>6, ChildType DEF Child
<1>7. ASSUME steer'[v].ph \in SteerPhases \ {"leased"}
      PROVE  \/ steer'[v] = steer[v]
             \/ /\ SteerStarts(v, Child(v)) /\ status'[Child(v)] = "executing"
                /\ Child(v)' = Child(v)
             \/ Joins(v, Child(v)) /\ Child(v)' = Child(v)
  <2>1. SteerStarts(v, Child(v)) \/ Joins(v, Child(v)) => ~SteerQuiet(v)
    BY DEF SteerStarts, Joins, SteerQuiet, SteerPhases
  <2>2. CASE steer'[v] = [steer[v] EXCEPT !.ph = "started"] /\ SteerStarts(v, Child(v))
               /\ status'[Child(v)] = "executing"
    BY <1>6, <2>1, <2>2
  <2>3. CASE \E ph \in {"accepted", "rejected", "unknown"} :
               Joins(v, Child(v)) /\ steer'[v] = [steer[v] EXCEPT !.ph = ph]
    BY <1>6, <2>1, <2>3
  <2>4. CASE steer'[v] \in {NoSteer, SteerOff}
    BY <1>7, <2>4 DEF NoSteer, SteerOff, SteerPhases
  <2>5. CASE \E c \in Jobs : steer'[v] = [ph |-> "leased", job |-> c, tok |-> tokens'[c],
                                          par |-> JobOf(v)]
    BY <1>7, <2>5
  <2> QED BY <1>1, <2>2, <2>3, <2>4, <2>5 DEF SteerMove
<1>8. Joins(v, i)' => Joins(v, i) \/ (SteerStarts(v, i) /\ status'[i] = "executing")
  BY <1>7 DEF Joins, Child
<1> QED BY <1>4, <1>5, <1>8

\* A job that exists keeps its place.
LEMMA RowKept ==
    ASSUME TypeOK, [Next]_vars, NEW i \in Jobs, Exists(i)
    PROVE  Exists(i)' /\ topic'[i] = topic[i] /\ cont'[i] = cont[i] /\ Scope(i)' = Scope(i)
<1>1. RowMove(i)
  BY RowMoves
<1> QED BY <1>1 DEF RowMove, Exists, Free, Scope

\* A job becomes uncertain only from running.
LEMMA UncertainMove ==
    ASSUME TypeOK, [Next]_vars, NEW i \in Jobs, Uncertain(i)'
    PROVE  Uncertain(i) \/ status[i] = "executing"
<1>1. StatusMove(i) /\ OwnerMove(i)
  BY StatusMoves, OwnerMoves
<1> QED BY <1>1 DEF StatusMove, OwnerMove, Uncertain, Waiting, Settled

\* Lease tokens stay fresh.
LEMMA StepTokens ==
    ASSUME TypeOK, TypeOK', [Next]_vars, TokensAreFresh PROVE TokensAreFresh'
<1>1. ASSUME NEW i \in Jobs
      PROVE  LeaseMove(i) /\ lease'[i].tok <= tokens'[i]
  <2>1. LeaseMove(i) /\ lease[i].tok <= tokens[i]
    BY LeaseMoves DEF TokensAreFresh
  <2>2. lease[i].tok \in Nat /\ tokens[i] \in Nat /\ tokens'[i] \in Nat
    BY DEF TypeOK, LeaseTable
  <2> QED BY <2>1, <2>2 DEF LeaseMove, Granted, NoLease, TypeOK, LeaseTable
<1>2. ASSUME NEW v \in Workers, worker'[v].ph # "idle"
      PROVE  /\ worker'[v].tok > 0 /\ worker'[v].tok <= tokens'[JobOf(v)']
             /\ Owns(v)' => lease'[JobOf(v)'].own = v
  <2>1. CASE worker'[v] \in {worker[v], [worker[v] EXCEPT !.ph = "started"],
                             [worker[v] EXCEPT !.ph = "called"], [worker[v] EXCEPT !.ph = "turn"]}
               /\ worker[v].ph # "idle"
    <3>1. /\ JobOf(v) \in Jobs /\ worker[v].tok \in Nat
          /\ worker'[v].job = JobOf(v) /\ worker'[v].tok = worker[v].tok
      BY <2>1, WorkType DEF JobOf
    <3>2. /\ worker[v].tok > 0 /\ worker[v].tok <= tokens[JobOf(v)]
          /\ Owns(v) => lease[JobOf(v)].own = v
      BY <2>1 DEF TokensAreFresh
    <3>3. LeaseMove(JobOf(v)) /\ tokens[JobOf(v)] \in Nat /\ tokens'[JobOf(v)] \in Nat
      BY <1>1, <3>1 DEF TypeOK
    <3>4. worker[v].tok <= tokens'[JobOf(v)]
      BY <3>1, <3>2, <3>3 DEF LeaseMove
    <3>5. ASSUME Owns(v)' PROVE lease'[JobOf(v)].own = v
      <4>1. lease'[JobOf(v)].tok = worker[v].tok
        BY <3>1, <3>5 DEF Owns, JobOf
      <4>2. /\ lease'[JobOf(v)].tok = lease[JobOf(v)].tok
            /\ lease'[JobOf(v)].own = lease[JobOf(v)].own
        BY <3>1, <3>2, <3>3, <4>1 DEF LeaseMove, Granted, NoLease, TypeOK, LeaseTable
      <4> QED BY <2>1, <3>1, <3>2, <4>1, <4>2 DEF Owns
    <3> QED BY <3>1, <3>2, <3>4, <3>5 DEF JobOf
  <2>2. CASE \E j \in Jobs, ph \in {"leased", "recover"} :
                worker'[v] = [ph |-> ph, job |-> j, tok |-> tokens'[j]] /\ Granted(j, v)
    BY <2>2 DEF Granted, JobOf, TypeOK
  <2>3. WorkerMove(v)
    BY WorkerMoves
  <2> QED BY <1>2, <2>1, <2>2, <2>3 DEF WorkerMove, NoWork, WorkerStarts
<1>3. ASSUME NEW v \in Workers, ~SteerQuiet(v)'
      PROVE  steer'[v].tok > 0 /\ steer'[v].tok <= tokens'[Child(v)']
  <2>1. CASE \E c \in Jobs : /\ Granted(c, NoWorker)
                             /\ steer'[v] = [ph |-> "leased", job |-> c, tok |-> tokens'[c],
                                             par |-> JobOf(v)]
    BY <2>1 DEF Granted, Child, TypeOK
  <2>2. CASE /\ ~SteerQuiet(v)
             /\ steer'[v].job = Child(v) /\ steer'[v].tok = steer[v].tok
    <3>1. Child(v) \in Jobs /\ steer[v].tok \in Nat
      BY <2>2, ChildType
    <3>2. LeaseMove(Child(v)) /\ tokens[Child(v)] \in Nat /\ tokens'[Child(v)] \in Nat
      BY <1>1, <3>1 DEF TypeOK
    <3> QED BY <2>2, <3>1, <3>2 DEF LeaseMove, TokensAreFresh, Child
  <2>3. CASE \E ph \in SteerPhases : ~SteerQuiet(v) /\ steer'[v] = [steer[v] EXCEPT !.ph = ph]
    BY <2>2, <2>3, ChildType DEF Child
  <2>4. SteerMove(v)
    BY SteerMoves
  <2>5. CASE steer'[v] = steer[v]
    BY <1>3, <2>2, <2>5 DEF SteerQuiet, Child
  <2> QED BY <1>3, <2>1, <2>3, <2>4, <2>5
          DEF SteerMove, SteerQuiet, NoSteer, SteerOff, SteerStarts, Joins, SteerPhases
<1> QED BY <1>1, <1>2, <1>3 DEF TokensAreFresh

\* A start changes one process.
LEMMA StartIsLocal ==
    ASSUME TypeOK, NEW w \in Workers, NEW i
    PROVE  /\ WorkerStarts(w, i) => /\ worker[w].ph = "leased" /\ worker'[w].ph = "started"
                                   /\ \A v \in Workers \ {w} : worker'[v] = worker[v]
           /\ SteerStarts(w, i) => /\ steer[w].ph = "leased" /\ steer'[w].ph = "started"
                                  /\ \A v \in Workers \ {w} : steer'[v] = steer[v]
<1>1. WorkerStarts(w, i) => worker'[w].ph = "started"
  BY WorkType DEF WorkerStarts, TypeOK, WorkerTable
<1>2. SteerStarts(w, i) => steer'[w].ph = "started"
  BY ChildType DEF SteerStarts, SteerQuiet, TypeOK, SteerTable
<1>3. WorkerStarts(w, i) => \A v \in Workers \ {w} : worker'[v] = worker[v]
  BY DEF WorkerStarts, TypeOK, WorkerTable
<1>4. SteerStarts(w, i) => \A v \in Workers \ {w} : steer'[v] = steer[v]
  BY DEF SteerStarts, TypeOK, SteerTable
<1> QED BY <1>1, <1>2, <1>3, <1>4 DEF WorkerStarts, SteerStarts

\* A started job, and what may still start, in terms of the old state.
LEMMA MayRunMove ==
    ASSUME TypeOK, [Next]_vars, NEW i \in Jobs, MayRun(i)'
    PROVE  \/ MayRun(i)
           \/ status'[i] = "executing" /\ \E w \in Workers : WorkerStarts(w, i)
<1>1. ProviderMove(i)
  BY ProviderMoves
<1> QED BY <1>1, RunsMove DEF MayRun, ProviderMove

\* A job keeps running, or being steered, in one place.
LEMMA StepOneRun ==
    ASSUME TypeOK, [Next]_vars, OneRun, TurnsAreTracked PROVE OneRun'
<1> SUFFICES ASSUME NEW i \in Jobs
             PROVE  /\ status'[i] \in NotStarted =>
                          \A w \in Workers : ~Runs(w, i)' /\ ~Joins(w, i)'
                    /\ \A v, w \in Workers : /\ Runs(v, i)' /\ Runs(w, i)' => v = w
                                             /\ Joins(v, i)' /\ Joins(w, i)' => v = w
                                             /\ ~(Runs(v, i)' /\ Joins(w, i)')
                    /\ \A w \in Workers : Joins(w, i)' => i \notin live'
    BY DEF OneRun
<1>1. ASSUME NEW w \in Workers, WorkerStarts(w, i) \/ SteerStarts(w, i)
      PROVE  status[i] = "leased" /\ \A v \in Workers : ~Runs(v, i) /\ ~Joins(v, i)
  BY <1>1 DEF WorkerStarts, SteerStarts, OwnsIn, OwnsChild, OneRun, NotStarted
<1>2. ASSUME status'[i] \in NotStarted, NEW w \in Workers
      PROVE  ~Runs(w, i)' /\ ~Joins(w, i)'
  <2>1. status'[i] # "executing"
    BY <1>2 DEF NotStarted, Waiting
  <2>2. CASE status[i] \in NotStarted
    BY <2>1, <2>2, RunsMove DEF OneRun
  <2>3. CASE status[i] = "executing" /\ \E v \in Workers : RejectSteer(v) /\ Child(v) = i
    <3>1. PICK v \in Workers : RejectSteer(v) /\ Child(v) = i
      BY <2>3
    <3>2. Joins(v, i) /\ ~Joins(v, i)'
      BY <3>1 DEF RejectSteer, Joins, SteerPhases, SteerDone, SteerFails, NoSteer, SteerOff,
                  TypeOK, SteerTable
    <3>3. ~Runs(w, i) /\ (Joins(w, i) => w = v)
      BY <3>2 DEF OneRun
    <3> QED BY <2>1, <3>2, <3>3, RunsMove
  <2>4. StatusMove(i)
    BY StatusMoves
  <2> QED BY <1>2, <2>2, <2>3, <2>4 DEF StatusMove, NotStarted, Waiting, Settled
<1>3. ASSUME NEW v \in Workers, NEW w \in Workers, Runs(v, i)', Runs(w, i)'
      PROVE  v = w
  <2>1. CASE WorkerStarts(v, i) /\ WorkerStarts(w, i)
    BY <2>1, StartIsLocal
  <2>2. CASE Runs(v, i) /\ Runs(w, i)
    BY <2>2 DEF OneRun
  <2> QED BY <1>1, <1>3, <2>1, <2>2, RunsMove
<1>4. ASSUME NEW v \in Workers, NEW w \in Workers, Joins(v, i)', Joins(w, i)'
      PROVE  v = w
  <2>1. CASE SteerStarts(v, i) /\ SteerStarts(w, i)
    BY <2>1, StartIsLocal
  <2>2. CASE Joins(v, i) /\ Joins(w, i)
    BY <2>2 DEF OneRun
  <2> QED BY <1>1, <1>4, <2>1, <2>2, RunsMove
<1>5. ASSUME NEW v \in Workers, NEW w \in Workers, Runs(v, i)', Joins(w, i)'
      PROVE  FALSE
  <2>1. CASE WorkerStarts(v, i) /\ SteerStarts(w, i)
    BY <2>1, StartIsLocal DEF WorkerStarts, SteerStarts
  <2>2. CASE Runs(v, i) /\ Joins(w, i)
    BY <2>2 DEF OneRun
  <2> QED BY <1>1, <1>5, <2>1, <2>2, RunsMove
<1>6. ASSUME NEW w \in Workers, Joins(w, i)'
      PROVE  i \notin live'
  <2>1. i \notin live /\ \A v \in Workers : ~Runs(v, i)
    <3>1. CASE Joins(w, i)
      BY <3>1 DEF OneRun
    <3>2. CASE SteerStarts(w, i)
      BY <1>1, <3>2 DEF TurnsAreTracked, TypeOK
    <3> QED BY <1>6, <3>1, <3>2, RunsMove
  <2>2. ProviderMove(i)
    BY ProviderMoves
  <2> QED BY <2>1, <2>2 DEF ProviderMove, Runs, StartedBy, JobOf
<1> QED BY <1>2, <1>3, <1>4, <1>5, <1>6

\* Turns stay tracked.
LEMMA StepTracked ==
    ASSUME TypeOK, TypeOK', [Next]_vars, OneRun, OneSender, TurnsAreTracked
    PROVE  TurnsAreTracked'
<1>1. ASSUME NEW i \in checkpoint' \cup live'
      PROVE  calls'[i] > 0
  <2>1. i \in Jobs
    BY DEF TypeOK
  <2>2. ProviderMove(i) /\ calls[i] \in Nat /\ calls'[i] \in Nat
    BY <2>1, ProviderMoves DEF TypeOK
  <2> QED BY <2>1, <2>2 DEF ProviderMove, TurnsAreTracked
<1>2. ASSUME NEW w \in Workers, worker'[w].ph = "turn"
      PROVE  JobOf(w)' \in checkpoint'
  <2>1. CASE worker'[w] = worker[w]
    <3>1. JobOf(w) \in Jobs /\ JobOf(w) \in checkpoint /\ JobOf(w)' = JobOf(w)
      BY <1>2, <2>1, WorkType DEF TurnsAreTracked, JobOf
    <3> QED BY <3>1, ProviderMoves DEF ProviderMove
  <2>2. CASE worker[w].ph = "called" /\ worker'[w] = [worker[w] EXCEPT !.ph = "turn"]
               /\ JobOf(w) \in checkpoint'
    BY <2>2, WorkType DEF JobOf
  <2>3. CASE worker'[w] = [worker[w] EXCEPT !.ph = "started"] /\ WorkerStarts(w, JobOf(w))
    BY <1>2, <2>3, WorkType DEF WorkerStarts
  <2>4. CASE worker[w].ph = "started" /\ worker'[w] = [worker[w] EXCEPT !.ph = "called"]
    BY <1>2, <2>4, WorkType
  <2>5. WorkerMove(w)
    BY WorkerMoves
  <2>6. CASE worker'[w] = NoWork
    BY <1>2, <2>6 DEF NoWork
  <2>7. CASE \E j \in Jobs, ph \in {"leased", "recover"} :
                worker'[w] = [ph |-> ph, job |-> j, tok |-> tokens'[j]]
    BY <1>2, <2>7
  <2> QED BY <2>1, <2>2, <2>3, <2>4, <2>5, <2>6, <2>7 DEF WorkerMove
<1>3. ASSUME NEW i \in evidence'
      PROVE  status'[i] = "indeterminate"
  <2>1. i \in Jobs
    BY DEF TypeOK
  <2>2. StatusMove(i) /\ OwnerMove(i)
    BY <2>1, StatusMoves, OwnerMoves
  <2> QED BY <2>2 DEF StatusMove, OwnerMove, TurnsAreTracked, ObserveOutcome, Uncertain, Waiting
<1>4. ASSUME NEW i \in Jobs, MayRun(i)'
      PROVE  \/ status'[i] = "executing"
             \/ status'[i] = "indeterminate" /\ i \notin evidence'
  <2> SUFFICES ASSUME MayRun(i), status'[i] # "executing"
               PROVE  status'[i] = "indeterminate" /\ i \notin evidence'
      BY <1>4, MayRunMove
  <2>1. status[i] = "executing" \/ (status[i] = "indeterminate" /\ i \notin evidence)
    BY DEF MayRun, TurnsAreTracked
  <2>2. ~(i \in checkpoint /\ i \notin live)
    BY DEF MayRun, TurnsAreTracked, OneSender, TypeOK
  <2>3. \A w \in Workers : ~Joins(w, i)
    BY DEF MayRun, OneRun, Runs, StartedBy, JobOf
  <2>4. ~\E w \in Workers : RejectSteer(w) /\ Child(w) = i
    BY <2>3 DEF RejectSteer, Joins, SteerPhases
  <2>5. ASSUME status[i] = "executing", i \notin live, NEW w \in Workers, Runs(w, i),
               worker'[w] = NoWork
        PROVE  FALSE
    <3>1. ProviderMove(i)
      BY ProviderMoves
    <3>2. \A v \in Workers : StartedBy(v, i) => v = w
      BY <2>5 DEF OneRun, StartedBy, Runs, JobOf
    <3>3. i \notin live'
      BY <2>5, <3>1, <3>2 DEF ProviderMove, NoWork
    <3>4. PICK v \in Workers : StartedBy(v, i)'
      BY <1>4, <3>3 DEF MayRun
    <3>5. ~WorkerStarts(v, i)
      BY <2>5 DEF WorkerStarts, OwnsIn
    <3>6. v = w
      BY <3>2, <3>4, <3>5, RunsMove
    <3> QED BY <2>5, <3>4, <3>6 DEF StartedBy, NoWork
  <2>6. ~(status[i] = "executing" /\ Finishes(i))
    BY <2>2, <2>3, <2>5 DEF Finishes
  <2>7. StatusMove(i) /\ OwnerMove(i)
    BY StatusMoves, OwnerMoves
  <2>8. status'[i] = "indeterminate"
    BY <2>1, <2>2, <2>4, <2>6, <2>7 DEF StatusMove, ObserveOutcome, Waiting
  <2>9. i \notin evidence
    BY <2>1 DEF TurnsAreTracked
  <2> QED BY <2>2, <2>7, <2>8, <2>9 DEF OwnerMove
<1> QED BY <1>1, <1>2, <1>3, <1>4 DEF TurnsAreTracked, MayRun

\* A worker's start is the start of the only work of its root.
LEMMA StartsAlone ==
    ASSUME TypeOK, TokensAreFresh, NEW w \in Workers, NEW i \in Jobs, WorkerStarts(w, i)
    PROVE  LeasedAlone(i) /\ lease[i].own = w
<1>1. Owns(w) /\ JobOf(w) = i /\ status[i] = "leased" /\ ~lease[i].exp
  BY DEF WorkerStarts, OwnsIn
<1>2. lease[i].own = w
  BY <1>1 DEF TokensAreFresh, Owns
<1> QED BY <1>1, <1>2, TopologyAssumption DEF LeasedAlone

\* Work comes to occupy a root by a new lease only.
LEMMA OccupiesMove ==
    ASSUME TypeOK, [Next]_vars, NEW i \in Jobs, Occupies(i)'
    PROVE  Occupies(i) \/ \E w \in Workers : Lease(w, i) \/ LeaseSteer(w, i)
<1>1. StatusMove(i) /\ LeaseMove(i)
  BY StatusMoves, LeaseMoves
<1>2. CASE status'[i] = "executing"
  BY <1>1, <1>2 DEF StatusMove, Occupies, WorkerStarts, SteerStarts, OwnsIn, OwnsChild,
                    Waiting, Settled
<1>3. CASE status'[i] = "leased" /\ ~lease'[i].exp /\ status[i] = "leased"
  <2>1. lease'[i] # [lease[i] EXCEPT !.exp = TRUE]
    BY <1>3 DEF TypeOK, LeaseTable
  <2> QED BY <1>1, <1>3, <2>1 DEF LeaseMove, Occupies, Active
<1>4. CASE status'[i] = "leased" /\ status[i] # "leased"
  BY <1>1, <1>4 DEF StatusMove, Waiting, Settled
<1> QED BY <1>2, <1>3, <1>4 DEF Occupies

\* Leases, holds and writers keep guarding the roots.
LEMMA StepGuarded ==
    ASSUME TypeOK, TypeOK', [Next]_vars, RootIsGuarded PROVE RootIsGuarded'
<1>1. ASSUME NEW i \in Jobs, status'[i] \in Active
      PROVE  Unheld(i)'
  <2>1. StatusMove(i) /\ OwnerMove(i)
    BY StatusMoves, OwnerMoves
  <2>2. hold'[i] = hold[i]
    BY <1>1, <2>1 DEF OwnerMove
  <2>3. CASE status[i] \in Active
    BY <2>2, <2>3 DEF RootIsGuarded, Unheld
  <2>4. CASE \E w \in Workers : Lease(w, i) \/ LeaseSteer(w, i)
    BY <2>2, <2>4 DEF Lease, LeaseSteer, Eligible, Unheld
  <2> QED BY <1>1, <2>1, <2>3, <2>4 DEF StatusMove, Active, Waiting, Settled
<1>2. ASSUME NEW w \in Workers, NEW i \in Jobs, LeaseSteer(w, i)
      PROVE  \E p \in Jobs : status[p] = "executing" /\ p # i /\ Scope(p) = Scope(i)
  <2>1. JobOf(w) \in Jobs
    BY <1>2, WorkType DEF LeaseSteer
  <2> QED BY <1>2, <2>1 DEF LeaseSteer, Scope
<1>3. ASSUME NEW t \in writer', NEW i \in Jobs, Scope(i)' = ScopeOf[t]
      PROVE  status'[i] \notin Active /\ ~Uncertain(i)'
  <2>1. CASE ~Exists(i)
    <3>1. RowMove(i)
      BY RowMoves
    <3> QED BY <2>1, <3>1 DEF RowMove, Exists, Active, Uncertain
  <2>2. CASE Exists(i) /\ t \in writer
    <3>1. Scope(i) = ScopeOf[t]
      BY <1>3, <2>2, RowKept
    <3>2. status[i] \notin Active /\ ~Uncertain(i)
      BY <2>2, <3>1 DEF RootIsGuarded
    <3>3. ~\E w \in Workers : Lease(w, i)
      BY <2>2, <3>1 DEF Lease, Eligible
    <3>4. ~\E w \in Workers : LeaseSteer(w, i)
      BY <1>2, <2>2, <3>1 DEF RootIsGuarded, Active
    <3>5. StatusMove(i)
      BY StatusMoves
    <3>6. status'[i] \notin Active
      BY <3>2, <3>3, <3>4, <3>5 DEF StatusMove, Active, Waiting, Settled
    <3> QED BY <3>2, <3>6, UncertainMove DEF Active
  <2>3. CASE Exists(i) /\ t \notin writer
    <3>1. TakeLocalWriter(t)
      BY <2>3, WriterMoves
    <3>2. Scope(i) = ScopeOf[t]
      BY <1>3, <2>3, RowKept
    <3>3. ~(status[i] \in Active /\ Unheld(i)) /\ ~Uncertain(i)
      BY <2>3, <3>1, <3>2 DEF TakeLocalWriter, Active
    <3>4. status[i] \notin Active
      BY <3>3 DEF RootIsGuarded
    <3> QED BY <3>1, <3>3, <3>4 DEF TakeLocalWriter, Uncertain, ownerVars
  <2> QED BY <2>1, <2>2, <2>3
<1>4. ASSUME NEW j \in Jobs, NEW k \in Jobs, LeasedAlone(j)', k # j, Scope(k)' = Scope(j)'
      PROVE  ~Occupies(k)' /\ ~Uncertain(k)'
  <2>1. RowMove(j) /\ RowMove(k) /\ StatusMove(j) /\ LeaseMove(j) /\ StatusMove(k)
    BY RowMoves, StatusMoves, LeaseMoves
  <2>2. Exists(j) /\ Scope(j)' = Scope(j)
    BY <1>4, <2>1, RowKept DEF RowMove, LeasedAlone, Exists
  <2>3. CASE ~Exists(k)
    BY <2>1, <2>3 DEF RowMove, Exists, Occupies, Uncertain
  <2>4. CASE Exists(k) /\ LeasedAlone(j)
    <3>1. Scope(k) = Scope(j)
      BY <1>4, <2>2, <2>4, RowKept
    <3>2. ~Occupies(k) /\ ~Uncertain(k)
      BY <1>4, <2>4, <3>1 DEF RootIsGuarded
    <3>3. ~\E w \in Workers : Lease(w, k)
      BY <1>4, <2>2, <2>4, <3>1 DEF Lease, Eligible, RootBusy, LeasedAlone
    <3>4. ASSUME NEW w \in Workers, LeaseSteer(w, k) PROVE FALSE
      <4>1. PICK p \in Jobs : status[p] = "executing" /\ Scope(p) = Scope(k)
        BY <1>2, <3>4
      <4> QED BY <2>4, <3>1, <4>1 DEF RootIsGuarded, LeasedAlone, Occupies
    <3>5. ~Occupies(k)'
      BY <3>2, <3>3, <3>4, OccupiesMove
    <3> QED BY <3>2, <3>5, UncertainMove DEF Occupies
  <2>5. CASE Exists(k) /\ \E w \in Workers : Lease(w, j)
    <3>1. PICK w \in Workers : Lease(w, j)
      BY <2>5
    <3>2. Scope(k) = Scope(j)
      BY <1>4, <2>2, <2>5, RowKept
    <3>3. ~Occupies(k) /\ ~Uncertain(k)
      BY <1>4, <2>5, <3>1, <3>2 DEF Lease, Eligible, RootBusy, Occupies
    <3>4. status'[k] = status[k] /\ lease'[k] = lease[k]
      BY <1>4, <3>1 DEF Lease, TypeOK, LeaseTable
    <3> QED BY <3>1, <3>3, <3>4 DEF Lease, Occupies, Uncertain, ownerVars
  <2>6. LeasedAlone(j) \/ \E w \in Workers : Lease(w, j)
    <3>1. CASE status[j] = "leased"
      <4>1. lease'[j] # [lease[j] EXCEPT !.exp = TRUE]
        BY <1>4 DEF LeasedAlone, TypeOK, LeaseTable
      <4>2. ~Granted(j, NoWorker)
        BY <1>4 DEF Granted, LeasedAlone
      <4> QED BY <1>4, <2>1, <3>1, <4>1, <4>2 DEF LeaseMove, LeasedAlone, Active
    <3>2. CASE status[j] # "leased"
      <4>1. ASSUME NEW w \in Workers, LeaseSteer(w, j) PROVE FALSE
        BY <1>4, <4>1 DEF LeaseSteer, LeasedAlone, TypeOK, LeaseTable
      <4> QED BY <1>4, <2>1, <3>2, <4>1 DEF StatusMove, LeasedAlone, Waiting, Settled
    <3> QED BY <3>1, <3>2
  <2> QED BY <2>3, <2>4, <2>5, <2>6
<1> QED BY <1>1, <1>3, <1>4 DEF RootIsGuarded

\* Two unresolved turns never come to share a scope.
LEMMA StepOneTurn ==
    ASSUME TypeOK, [Next]_vars, TokensAreFresh, TurnsAreTracked, RootIsGuarded, OneTurn
    PROVE  OneTurn'
<1> SUFFICES ASSUME NEW j \in Jobs, NEW k \in Jobs, j # k, MayRun(j)', MayRun(k)',
                    Scope(j)' = Scope(k)'
             PROVE  resolution'[j] # "none" \/ resolution'[k] # "none"
    BY DEF OneTurn
<1>1. ASSUME NEW i \in Jobs, MayRun(i)'
      PROVE  /\ Exists(i) /\ Scope(i)' = Scope(i)
             /\ resolution[i] # "none" => resolution'[i] # "none"
  <2>1. Exists(i)
    BY <1>1, MayRunMove DEF MayRun, TurnsAreTracked, WorkerStarts, OwnsIn, Exists
  <2> QED BY <2>1, RowKept, OwnerMoves DEF OwnerMove
<1>2. Scope(j) = Scope(k)
  BY <1>1
<1>3. ASSUME NEW i \in Jobs, NEW h \in Jobs, i # h, Scope(i) = Scope(h), MayRun(h)',
             NEW w \in Workers, WorkerStarts(w, i)
      PROVE  resolution[h] # "none"
  <2>1. ~Occupies(h) /\ ~Uncertain(h)
    BY <1>3, StartsAlone DEF RootIsGuarded
  <2>2. MayRun(h)
    <3>1. ASSUME NEW v \in Workers, WorkerStarts(v, h) PROVE Occupies(h)
      BY <3>1 DEF WorkerStarts, OwnsIn, Occupies
    <3> QED BY <1>3, <2>1, <3>1, MayRunMove
  <2> QED BY <2>1, <2>2 DEF MayRun, TurnsAreTracked, Occupies, Uncertain
<1>4. CASE MayRun(j) /\ MayRun(k)
  BY <1>1, <1>2, <1>4 DEF OneTurn
<1>5. CASE \E w \in Workers : WorkerStarts(w, j)
  BY <1>1, <1>2, <1>3, <1>5
<1>6. CASE \E w \in Workers : WorkerStarts(w, k)
  BY <1>1, <1>2, <1>3, <1>6
<1> QED BY <1>4, <1>5, <1>6, MayRunMove

-----------------------------------------------------------------------------
(* Real provider turns exclude each other.                                   *)

\* What the exclusion of turns rests on.
TurnInv == TypeOK /\ OneSender /\ AtMostOnce /\ TokensAreFresh /\ OneRun /\ TurnsAreTracked
              /\ RootIsGuarded /\ OneTurn

\* The empty queue satisfies the invariant.
LEMMA InitTurnInv == Init => TurnInv
<1> SUFFICES ASSUME Init PROVE TurnInv
    OBVIOUS
<1>1. TypeOK /\ OneSender /\ AtMostOnce
  BY InitType, InitOneSender
<1>2. TokensAreFresh
  BY DEF Init, TokensAreFresh, NoLease, NoWork, NoSteer, SteerQuiet
<1>3. OneRun
  BY DEF Init, OneRun, Runs, Joins, NoWork, NoSteer, SteerPhases
<1>4. TurnsAreTracked
  BY DEF Init, TurnsAreTracked, StartedBy, NoWork
<1>5. RootIsGuarded
  BY DEF Init, RootIsGuarded, Active, LeasedAlone
<1>6. OneTurn
  BY DEF Init, OneTurn, MayRun, StartedBy, NoWork
<1> QED BY <1>1, <1>2, <1>3, <1>4, <1>5, <1>6 DEF TurnInv

\* Every step keeps it.
LEMMA StepTurnInv == TurnInv /\ [Next]_vars => TurnInv'
<1> SUFFICES ASSUME TurnInv, [Next]_vars PROVE TurnInv'
    OBVIOUS
<1>1. TypeOK' /\ OneSender' /\ AtMostOnce'
  BY StepType, StepOneSender DEF TurnInv
<1>2. TokensAreFresh'
  BY <1>1, StepTokens DEF TurnInv
<1>3. OneRun' /\ TurnsAreTracked'
  BY <1>1, StepOneRun, StepTracked DEF TurnInv
<1>4. RootIsGuarded' /\ OneTurn'
  BY <1>1, StepGuarded, StepOneTurn DEF TurnInv
<1> QED BY <1>1, <1>2, <1>3, <1>4 DEF TurnInv

\* Two provider turns run in one scope, or one runs beside a local writer, only
\* after the owner resolved the older one: no expired lease, crash or recovery
\* (recover_stale, claim_stale) opens a root to a second writer.
THEOREM TurnsExclude == Spec => []TurnExclusion
<1>1. ASSUME TurnInv PROVE TurnExclusion
  <2> SUFFICES ASSUME NEW j \in live, resolution[j] = "none"
               PROVE  /\ \A k \in live \ {j} : Scope(k) = Scope(j) => resolution[k] # "none"
                      /\ \A t \in writer : ScopeOf[t] # Scope(j)
      BY DEF TurnExclusion
  <2>1. j \in Jobs /\ MayRun(j) /\ \A k \in live : k \in Jobs /\ MayRun(k)
    BY <1>1 DEF TurnInv, TypeOK, MayRun
  <2>2. status[j] \in Active \/ Uncertain(j)
    BY <1>1, <2>1 DEF TurnInv, TurnsAreTracked, Uncertain, Active
  <2> QED BY <1>1, <2>1, <2>2 DEF TurnInv, OneTurn, RootIsGuarded
<1> QED BY <1>1, InitTurnInv, StepTurnInv, PTL DEF Spec

-----------------------------------------------------------------------------
(* Work starts on a free root, and in the order of its topic.                *)

\* What has a turn of its own was started by a worker and never waits again.
LEMMA MainMove ==
    ASSUME TypeOK, [Next]_vars, OneSender, OneRun, TurnsAreTracked, NEW i \in Jobs
    PROVE  /\ Main(i) => status[i] \notin NotStarted
           /\ Main(i) /\ status'[i] = "executing" => status[i] = "executing"
           /\ Main(i)' => Main(i) \/ \E w \in Workers : WorkerStarts(w, i)
<1>1. Main(i) => status[i] \notin NotStarted
  BY DEF Main, OneRun, OneSender, TurnsAreTracked
<1>2. ASSUME Main(i), status'[i] = "executing"
      PROVE  status[i] = "executing"
  <2>1. StatusMove(i)
    BY StatusMoves
  <2> QED BY <1>1, <1>2, <2>1 DEF StatusMove, NotStarted, Waiting, Settled
<1>3. Main(i)' => Main(i) \/ \E w \in Workers : WorkerStarts(w, i)
  BY RunsMove, ProviderMoves DEF Main, ProviderMove
<1> QED BY <1>1, <1>2, <1>3

\* What a steering thread on a child does next.
LEMMA ChildMove ==
    ASSUME TypeOK, [Next]_vars, NEW v \in Workers, ~SteerQuiet(v)'
    PROVE  \/ /\ ~SteerQuiet(v) /\ Child(v)' = Child(v) /\ Parent(v)' = Parent(v)
              /\ steer'[v].tok = steer[v].tok
              /\ steer'[v].ph = "leased" => steer[v].ph = "leased"
           \/ \E c \in Jobs : /\ LeaseSteer(v, c) /\ Child(v)' = c /\ Parent(v)' = JobOf(v)
<1>1. SteerMove(v)
  BY SteerMoves
<1>2. CASE steer'[v] = steer[v]
  BY <1>2 DEF SteerQuiet, Child, Parent
<1>3. CASE \E ph \in SteerPhases \ {"leased"} :
             ~SteerQuiet(v) /\ steer'[v] = [steer[v] EXCEPT !.ph = ph]
  BY <1>3, ChildType DEF Child, Parent
<1>4. CASE \E c \in Jobs : /\ LeaseSteer(v, c)
                           /\ steer'[v] = [ph |-> "leased", job |-> c, tok |-> tokens'[c],
                                           par |-> JobOf(v)]
  BY <1>4 DEF Child, Parent
<1>5. SteerStarts(v, Child(v)) \/ Joins(v, Child(v)) => ~SteerQuiet(v)
  BY DEF SteerStarts, Joins, SteerQuiet, SteerPhases
<1>6. CASE steer'[v] \in {NoSteer, SteerOff}
  BY <1>6 DEF SteerQuiet, NoSteer, SteerOff
<1> QED BY <1>1, <1>2, <1>3, <1>4, <1>5, <1>6 DEF SteerMove, SteerPhases

\* A steering thread stays bound to its parent's turn.
LEMMA StepBound ==
    ASSUME TypeOK, TypeOK', [Next]_vars, OneSender, OneRun, TurnsAreTracked, SteerIsBound
    PROVE  SteerIsBound'
<1> SUFFICES ASSUME NEW v \in Workers, ~SteerQuiet(v)'
             PROVE  /\ Parent(v)' \in checkpoint'
                    /\ Exists(Child(v))' /\ Exists(Parent(v))'
                    /\ Parent(v)' < Child(v)' /\ topic'[Parent(v)'] = topic'[Child(v)']
                    /\ status'[Parent(v)'] = "executing" =>
                          worker'[v].ph = "turn" /\ JobOf(v)' = Parent(v)'
    BY DEF SteerIsBound
<1>1. CASE /\ ~SteerQuiet(v) /\ Child(v)' = Child(v) /\ Parent(v)' = Parent(v)
  <2>1. /\ Parent(v) \in checkpoint /\ Exists(Child(v)) /\ Exists(Parent(v))
        /\ Parent(v) < Child(v) /\ topic[Parent(v)] = topic[Child(v)]
        /\ status[Parent(v)] = "executing" => worker[v].ph = "turn" /\ JobOf(v) = Parent(v)
    BY <1>1 DEF SteerIsBound
  <2>2. Child(v) \in Jobs /\ Parent(v) \in Jobs
    BY <1>1, <2>1, ChildType DEF TypeOK
  <2>3. Parent(v) \in checkpoint'
    BY <2>1, <2>2, ProviderMoves DEF ProviderMove
  <2>4. /\ Exists(Child(v))' /\ Exists(Parent(v))'
        /\ topic'[Parent(v)] = topic'[Child(v)]
    BY <1>1, <2>1, <2>2, RowKept DEF Exists
  <2>5. ASSUME status'[Parent(v)] = "executing"
        PROVE  worker'[v].ph = "turn" /\ JobOf(v)' = Parent(v)
    <3>1. status[Parent(v)] = "executing"
      BY <2>1, <2>2, <2>5, MainMove DEF Main
    <3>2. worker[v].ph = "turn" /\ JobOf(v) = Parent(v)
      BY <2>1, <3>1
    <3>3. worker'[v] = worker[v]
      <4>1. steer'[v] # NoSteer
        BY DEF SteerQuiet, NoSteer
      <4>2. WorkerMove(v)
        BY WorkerMoves
      <4> QED BY <2>5, <3>2, <4>1, <4>2 DEF WorkerMove, WorkerStarts
    <3> QED BY <3>2, <3>3 DEF JobOf
  <2> QED BY <1>1, <2>1, <2>3, <2>4, <2>5
<1>2. CASE \E c \in Jobs : LeaseSteer(v, c) /\ Child(v)' = c /\ Parent(v)' = JobOf(v)
  <2>1. PICK c \in Jobs : LeaseSteer(v, c) /\ Child(v)' = c /\ Parent(v)' = JobOf(v)
    BY <1>2
  <2>2. JobOf(v) \in Jobs /\ JobOf(v) \in checkpoint
    BY <2>1, WorkType DEF LeaseSteer, TurnsAreTracked
  <2>3. /\ checkpoint' = checkpoint /\ worker' = worker /\ topic' = topic
        /\ JobOf(v) < c /\ topic[c] = topic[JobOf(v)] /\ worker[v].ph = "turn"
    BY <2>1, <2>2 DEF LeaseSteer, rowVars, provVars
  <2>4. Exists(c) /\ Exists(JobOf(v))
    BY <2>1 DEF LeaseSteer, Exists
  <2>5. status'[c] # "absent" /\ status'[JobOf(v)] # "absent"
    BY <2>2, <2>4, RowKept DEF Exists
  <2> QED BY <2>1, <2>2, <2>3, <2>5 DEF JobOf, Exists
<1> QED BY <1>1, <1>2, ChildMove

\* Beside a running turn there is only what its worker steers into it.
LEMMA StepAlone ==
    ASSUME TypeOK, TypeOK', [Next]_vars, OneSender, TokensAreFresh, OneRun, TurnsAreTracked,
           RootIsGuarded, SteerIsBound, TurnIsAlone
    PROVE  TurnIsAlone'
<1>1. ASSUME NEW i \in Jobs, status'[i] \in {"executing", "indeterminate"}
      PROVE  Exists(i) /\ Scope(i)' = Scope(i)
  <2>1. Exists(i)
    BY <1>1, RowMoves DEF RowMove, Exists
  <2> QED BY <2>1, RowKept
<1>2. ASSUME NEW w \in Workers, NEW j \in Jobs, WorkerStarts(w, j), NEW k \in Jobs, k # j,
             Scope(k) = Scope(j), status'[k] = "executing" \/ Uncertain(k)'
      PROVE  FALSE
  <2>1. ~Occupies(k) /\ ~Uncertain(k)
    BY <1>2, StartsAlone DEF RootIsGuarded
  <2>2. StatusMove(k)
    BY StatusMoves
  <2>3. ASSUME NEW v \in Workers, WorkerStarts(v, k) \/ SteerStarts(v, k) PROVE Occupies(k)
    BY <2>3 DEF WorkerStarts, SteerStarts, OwnsIn, OwnsChild, Occupies
  <2>4. status'[k] # "executing"
    BY <2>1, <2>2, <2>3 DEF StatusMove, Occupies, Waiting, Settled
  <2> QED BY <1>2, <2>1, <2>4, UncertainMove DEF Occupies
<1>3. ASSUME NEW j \in Jobs, NEW k \in Jobs, status'[j] = "executing", Main(j)',
             status'[k] = "executing", Main(k)', Scope(j)' = Scope(k)'
      PROVE  j = k
  <2>1. Scope(j) = Scope(k)
    BY <1>1, <1>3
  <2>2. CASE Main(j) /\ Main(k)
    BY <1>3, <2>1, <2>2, MainMove DEF TurnIsAlone
  <2>3. CASE \E w \in Workers : WorkerStarts(w, j)
    BY <1>2, <1>3, <2>1, <2>3
  <2>4. CASE \E w \in Workers : WorkerStarts(w, k)
    BY <1>2, <1>3, <2>1, <2>4
  <2> QED BY <1>3, <2>2, <2>3, <2>4, MainMove
<1>4. ASSUME NEW w \in Workers, NEW j \in Jobs, NEW k \in Jobs,
             Runs(w, j)', status'[j] = "executing", k # j, Scope(k)' = Scope(j)',
             status'[k] = "executing" \/ Uncertain(k)'
      PROVE  steer'[w].ph = "off" \/ (Joins(w, k)' /\ Parent(w)' = j)
  <2>1. Scope(k) = Scope(j) /\ status'[k] \in {"executing", "indeterminate"}
    BY <1>1, <1>4 DEF Uncertain
  <2>2. Runs(w, j)
    BY <1>2, <1>4, <2>1, RunsMove
  <2>3. status[j] = "executing" /\ worker'[w] # NoWork
    BY <1>4, <2>2, MainMove DEF Main, Runs, NoWork
  <2>4. CASE status[k] = "executing" \/ Uncertain(k)
    <3>1. steer[w].ph = "off" \/ (Joins(w, k) /\ Parent(w) = j)
      BY <1>4, <2>1, <2>2, <2>3, <2>4 DEF TurnIsAlone
    <3>2. SteerMove(w)
      BY SteerMoves
    <3>3. CASE steer[w].ph = "off"
      <4>1. SteerQuiet(w) /\ ~Joins(w, Child(w)) /\ ~SteerStarts(w, Child(w))
        BY <3>3 DEF SteerQuiet, Joins, SteerStarts, SteerPhases
      <4>2. ~\E c \in Jobs : LeaseSteer(w, c)
        BY <3>3 DEF LeaseSteer
      <4>3. ~\E ph \in {"accepted", "rejected", "unknown"} :
                Joins(w, Child(w)) /\ steer'[w] = [steer[w] EXCEPT !.ph = ph]
        BY <4>1
      <4>4. steer'[w] = steer[w] \/ steer'[w] = SteerOff
        BY <2>3, <3>2, <4>1, <4>2, <4>3 DEF SteerMove
      <4> QED BY <3>3, <4>4 DEF SteerOff
    <3>4. CASE Joins(w, k) /\ Parent(w) = j
      <4>1. Child(w) = k /\ JobOf(w) = Parent(w) /\ ~SteerQuiet(w)
        BY <2>2, <3>4 DEF Joins, Runs, SteerQuiet, SteerPhases
      <4>2. ~SteerStarts(w, Child(w)) /\ ~\E c \in Jobs : LeaseSteer(w, c)
        BY <3>4 DEF Joins, SteerStarts, LeaseSteer, SteerPhases
      <4>3. CASE \E ph \in {"accepted", "rejected", "unknown"} :
                    steer'[w] = [steer[w] EXCEPT !.ph = ph]
        BY <3>4, <4>1, <4>3, ChildType DEF Joins, Child, Parent, SteerPhases
      <4>4. CASE steer'[w] = steer[w]
        BY <3>4, <4>4 DEF Joins, Child, Parent
      <4>5. \/ steer'[w] \in {steer[w], SteerOff}
            \/ \E ph \in {"accepted", "rejected", "unknown"} :
                  steer'[w] = [steer[w] EXCEPT !.ph = ph]
        <5>1. status'[Child(w)] \in {"executing", "indeterminate"} /\ JobOf(w) = Parent(w)
          BY <2>1, <4>1
        <5> QED BY <2>3, <3>2, <4>2, <5>1 DEF SteerMove
      <4> QED BY <4>3, <4>4, <4>5 DEF SteerOff
    <3> QED BY <3>1, <3>3, <3>4
  <2>5. CASE ~(status[k] = "executing" \/ Uncertain(k))
    <3>1. status'[k] = "executing" /\ status[k] # "executing"
      BY <1>4, <2>5, UncertainMove
    <3>2. StatusMove(k)
      BY StatusMoves
    <3>3. ASSUME NEW v \in Workers, WorkerStarts(v, k) PROVE FALSE
      BY <1>2, <1>4, <2>1, <3>3
    <3>4. PICK v \in Workers : SteerStarts(v, k)
      BY <3>1, <3>2, <3>3 DEF StatusMove, Waiting, Settled
    <3>5. ~SteerQuiet(v) /\ Child(v) = k /\ status[Parent(v)] = "executing"
      BY <3>4 DEF SteerStarts, SteerQuiet
    <3>6. /\ Parent(v) \in checkpoint /\ topic[Parent(v)] = topic[k]
          /\ worker[v].ph = "turn" /\ JobOf(v) = Parent(v)
      BY <3>5 DEF SteerIsBound
    <3>7. Parent(v) \in Jobs /\ Scope(Parent(v)) = Scope(j) /\ Main(Parent(v)) /\ Main(j)
      BY <2>1, <2>2, <3>6 DEF TypeOK, Scope, Main
    <3>8. Parent(v) = j
      BY <2>3, <3>5, <3>7 DEF TurnIsAlone
    <3>9. v = w
      BY <2>2, <3>6, <3>8 DEF OneRun, Runs
    <3>10. steer'[w] = [steer[w] EXCEPT !.ph = "started"]
      BY <3>4, <3>9 DEF SteerStarts, TypeOK, SteerTable
    <3> QED BY <3>5, <3>8, <3>9, <3>10, ChildType DEF Joins, Child, Parent, SteerPhases
  <2> QED BY <2>4, <2>5
<1> QED BY <1>3, <1>4 DEF TurnIsAlone

\* A job that no longer holds up its topic holds it up again only when the
\* outcome of an uncertain job is observed, and then its scope is at rest.
LEMMA BlocksMove ==
    ASSUME TypeOK, [Next]_vars, NEW i \in Jobs, NEW k \in Jobs, k # i,
           status[i] \in Active, Exists(k), Scope(k) = Scope(i), ~BlocksFifo(k)
    PROVE  ~BlocksFifo(k)'
<1>1. StatusMove(k) /\ OwnerMove(k)
  BY StatusMoves, OwnerMoves
<1>2. ~\E completed, keep \in BOOLEAN : ObserveOutcome(k, completed, keep)
  BY DEF ObserveOutcome
<1>3. CASE status[k] \in Settled \cup {"indeterminate"}
  BY <1>1, <1>2, <1>3 DEF StatusMove, BlocksFifo, Settled, Waiting
<1>4. CASE status[k] = "result_ready" /\ parked[k] # "no"
  BY <1>1, <1>4 DEF StatusMove, OwnerMove, BlocksFifo, Settled, Waiting
<1> QED BY <1>3, <1>4 DEF BlocksFifo, Exists

\* The head of a topic that a lease was granted to stays the head.
LEMMA StepHeads ==
    ASSUME TypeOK, TypeOK', [Next]_vars, OneSender, TokensAreFresh, OneRun, TurnsAreTracked,
           SteerIsBound, HeadsAreKept
    PROVE  HeadsAreKept'
<1> DEFINE Held(j) == \/ status[j] = "leased" /\ lease[j].own # NoWorker
                      \/ status[j] = "executing" /\ Main(j)
<1>1. ASSUME NEW j \in Jobs, NEW k \in Jobs, Exists(j)', k < j
      PROVE  Exists(k)'
  <2>1. RowMove(j) /\ RowMove(k)
    BY RowMoves
  <2>2. Exists(k)
    BY <1>1, <2>1 DEF RowMove, HeadsAreKept, Exists, Free
  <2> QED BY <2>2, RowKept
<1>2. ASSUME NEW j \in Jobs, Held(j)'
      PROVE  Held(j) \/ \E w \in Workers : Lease(w, j)
  <2>1. StatusMove(j) /\ LeaseMove(j)
    BY StatusMoves, LeaseMoves
  <2>2. CASE status'[j] = "executing" /\ Main(j)'
    <3>1. Main(j) => Held(j)
      BY <2>2, MainMove
    <3>2. ASSUME NEW w \in Workers, WorkerStarts(w, j) PROVE Held(j)
      BY <3>2, StartsAlone DEF LeasedAlone
    <3> QED BY <2>2, <3>1, <3>2, MainMove
  <2>3. CASE status'[j] = "leased" /\ lease'[j].own # NoWorker /\ status[j] = "leased"
    <3>1. lease'[j] = [lease[j] EXCEPT !.exp = TRUE] => lease'[j].own = lease[j].own
      BY DEF TypeOK, LeaseTable
    <3>2. ~Granted(j, NoWorker)
      BY <2>3 DEF Granted
    <3> QED BY <2>1, <2>3, <3>1, <3>2 DEF LeaseMove, Active
  <2>4. CASE status'[j] = "leased" /\ lease'[j].own # NoWorker /\ status[j] # "leased"
    <3>1. ASSUME NEW w \in Workers, LeaseSteer(w, j) PROVE FALSE
      BY <2>4, <3>1 DEF LeaseSteer, TypeOK, LeaseTable
    <3> QED BY <2>1, <2>4, <3>1 DEF StatusMove, Waiting, Settled
  <2> QED BY <1>2, <2>2, <2>3, <2>4
<1>3. ASSUME NEW j \in Jobs, Held(j)'
      PROVE  cont'[j] # 0 \/ Heads(j)'
  <2>1. Exists(j) /\ (Held(j) => status[j] \in Active)
    BY <1>2, <1>3 DEF Exists, Active, Lease, Eligible, Waiting
  <2>2. \A k \in Jobs : k < j => Exists(k) /\ topic'[k] = topic[k]
    BY <2>1, RowKept DEF HeadsAreKept
  <2>3. cont'[j] = cont[j] /\ topic'[j] = topic[j]
    BY <2>1, RowKept
  <2>4. CASE Held(j)
    <3>1. cont[j] # 0 \/ Heads(j)
      BY <2>4 DEF HeadsAreKept
    <3>2. ASSUME Heads(j), NEW k \in Jobs, k < j, topic'[k] = topic'[j]
          PROVE  ~BlocksFifo(k)'
      <4>1. Exists(k) /\ Scope(k) = Scope(j) /\ ~BlocksFifo(k) /\ k # j
        BY <2>2, <2>3, <3>2 DEF Heads, Scope, Jobs
      <4> QED BY <2>1, <2>4, <4>1, BlocksMove
    <3> QED BY <2>3, <3>1, <3>2 DEF Heads
  <2>5. CASE \E w \in Workers : Lease(w, j)
    <3>1. PICK w \in Workers : Lease(w, j)
      BY <2>5
    <3>2. cont[j] # 0 \/ FifoHead(j)
      BY <3>1 DEF Lease, Eligible
    <3>3. ASSUME FifoHead(j), NEW k \in Jobs, k < j, topic'[k] = topic'[j]
          PROVE  ~BlocksFifo(k)'
      <4>1. ~BlocksFifo(k) /\ k # j
        BY <2>2, <2>3, <3>3 DEF FifoHead, Jobs
      <4> QED BY <3>1, <4>1 DEF Lease, BlocksFifo, TypeOK, ownerVars
    <3> QED BY <2>3, <3>2, <3>3 DEF Heads
  <2> QED BY <1>2, <1>3, <2>4, <2>5
<1>4. ASSUME NEW w \in Workers, NEW k \in Jobs, steer'[w].ph = "leased",
             OwnsChild(w, "leased")', Parent(w)' < k, k < Child(w)',
             topic'[k] = topic'[Child(w)']
      PROVE  ~BlocksFifo(k)'
  <2>1. CASE /\ ~SteerQuiet(w) /\ Child(w)' = Child(w) /\ Parent(w)' = Parent(w)
             /\ steer'[w].tok = steer[w].tok /\ steer[w].ph = "leased"
    <3> DEFINE c == Child(w)
    <3>1. c \in Jobs /\ Exists(c) /\ steer[w].tok \in Nat
      BY <2>1, ChildType DEF SteerIsBound
    <3>2. steer[w].tok > 0 /\ steer[w].tok <= tokens[c]
      BY <2>1 DEF TokensAreFresh
    <3>3. status'[c] = "leased" /\ lease'[c].tok = steer[w].tok
      BY <1>4, <2>1 DEF OwnsChild
    <3>4. LeaseMove(c) /\ StatusMove(c)
      BY <3>1, LeaseMoves, StatusMoves
    <3>5. ASSUME NEW v, Granted(c, v) PROVE FALSE
      BY <3>1, <3>2, <3>3, <3>5 DEF Granted, TypeOK, LeaseTable
    <3>6. lease[c].tok = steer[w].tok
      BY <3>1, <3>3, <3>4, <3>5 DEF LeaseMove, Active, TypeOK, LeaseTable
    <3>7. ASSUME NEW v \in Workers, Lease(v, c) \/ LeaseSteer(v, c) PROVE FALSE
      BY <3>1, <3>5, <3>7 DEF Lease, LeaseSteer, Granted, TypeOK, LeaseTable
    <3>8. status[c] = "leased"
      BY <3>3, <3>4, <3>7 DEF StatusMove, Waiting, Settled
    <3>9. Exists(k) /\ topic'[k] = topic[k] /\ topic'[c] = topic[c] /\ k # c
      BY <1>4, <2>1, <3>1, RowKept DEF HeadsAreKept, Jobs
    <3>10. ~BlocksFifo(k)
      BY <1>4, <2>1, <3>6, <3>8, <3>9 DEF HeadsAreKept, OwnsChild
    <3> QED BY <1>4, <2>1, <3>1, <3>8, <3>9, <3>10, BlocksMove DEF Scope, Active
  <2>2. CASE \E c \in Jobs : LeaseSteer(w, c) /\ Child(w)' = c /\ Parent(w)' = JobOf(w)
    <3>1. PICK c \in Jobs : LeaseSteer(w, c) /\ Child(w)' = c /\ Parent(w)' = JobOf(w)
      BY <2>2
    <3>2. topic' = topic /\ topic[c] = topic[JobOf(w)] /\ k # c
      BY <1>4, <3>1 DEF LeaseSteer, rowVars, Jobs
    <3>3. ~BlocksFifo(k)
      BY <1>4, <3>1, <3>2 DEF LeaseSteer, Jobs
    <3> QED BY <3>1, <3>2, <3>3 DEF LeaseSteer, BlocksFifo, TypeOK, ownerVars
  <2>3. ~SteerQuiet(w)'
    BY <1>4 DEF SteerQuiet
  <2> QED BY <1>4, <2>1, <2>2, <2>3, ChildMove
<1> QED BY <1>1, <1>3, <1>4 DEF HeadsAreKept

\* What the starts rest on.
StartInv == TurnInv /\ SteerIsBound /\ TurnIsAlone /\ HeadsAreKept

\* The empty queue satisfies the invariant.
LEMMA InitStartInv == Init => StartInv
<1> SUFFICES ASSUME Init PROVE StartInv
    OBVIOUS
<1>1. SteerIsBound
  BY DEF Init, SteerIsBound, SteerQuiet, NoSteer
<1>2. TurnIsAlone
  BY DEF Init, TurnIsAlone, Runs, NoWork
<1>3. HeadsAreKept
  BY DEF Init, HeadsAreKept, Exists, NoSteer
<1> QED BY <1>1, <1>2, <1>3, InitTurnInv DEF StartInv

\* Every step keeps it.
LEMMA StepStartInv == StartInv /\ [Next]_vars => StartInv'
<1> SUFFICES ASSUME StartInv, [Next]_vars PROVE StartInv'
    OBVIOUS
<1>1. TurnInv' /\ TypeOK'
  BY StepTurnInv DEF StartInv, TurnInv
<1>2. SteerIsBound' /\ TurnIsAlone' /\ HeadsAreKept'
  BY <1>1, StepBound, StepAlone, StepHeads DEF StartInv, TurnInv
<1> QED BY <1>1, <1>2 DEF StartInv

\* A job starts by its worker or by a steering thread.
LEMMA StartedHow ==
    ASSUME TypeOK, [Next]_vars, NEW j \in Jobs, status[j] = "leased", status'[j] = "executing"
    PROVE  \E w \in Workers : WorkerStarts(w, j) \/ SteerStarts(w, j)
BY StatusMoves DEF StatusMove, Waiting, Settled

\* A thread starts a message beside its parent's turn only.
LEMMA SteersBesideParent ==
    ASSUME StartInv, NEW w \in Workers, NEW j \in Jobs, SteerStarts(w, j)
    PROVE  /\ Parent(w) \in Jobs /\ Parent(w) < j /\ topic[Parent(w)] = topic[j]
           /\ status[Parent(w)] = "executing" /\ Main(Parent(w)) /\ Runs(w, Parent(w))
           /\ Child(w) = j /\ steer[w].ph = "leased" /\ OwnsChild(w, "leased")
<1>1. /\ Child(w) = j /\ steer[w].ph = "leased" /\ OwnsChild(w, "leased")
      /\ status[Parent(w)] = "executing" /\ ~SteerQuiet(w)
  BY DEF SteerStarts, SteerQuiet
<1>2. /\ Parent(w) \in checkpoint /\ Parent(w) < j /\ topic[Parent(w)] = topic[j]
      /\ worker[w].ph = "turn" /\ JobOf(w) = Parent(w)
  BY <1>1 DEF StartInv, SteerIsBound
<1> QED BY <1>1, <1>2 DEF Main, Runs, StartInv, TurnInv, TypeOK

\* What a starting job finds: no hold, no local writer, no uncertain job.
LEMMA StartFindsFreeRoot ==
    ASSUME StartInv, [Next]_vars, NEW j \in Jobs,
           status[j] = "leased", status'[j] = "executing"
    PROVE  Unheld(j) /\ ~RootBlocked(Scope(j))
<1>1. Unheld(j) /\ ~\E t \in writer : ScopeOf[t] = Scope(j)
  BY DEF StartInv, TurnInv, RootIsGuarded, Active
<1>2. ASSUME NEW k \in Jobs, Uncertain(k), Scope(k) = Scope(j) PROVE FALSE
  <2>1. k # j
    BY <1>2 DEF Uncertain
  <2>2. PICK w \in Workers : WorkerStarts(w, j) \/ SteerStarts(w, j)
    BY StartedHow DEF StartInv, TurnInv
  <2>3. CASE WorkerStarts(w, j)
    <3>1. LeasedAlone(j)
      BY <2>3, StartsAlone DEF StartInv, TurnInv
    <3> QED BY <1>2, <2>1, <3>1 DEF StartInv, TurnInv, RootIsGuarded
  <2>4. CASE SteerStarts(w, j)
    <3>1. /\ Parent(w) \in Jobs /\ topic[Parent(w)] = topic[j] /\ status[Parent(w)] = "executing"
          /\ Runs(w, Parent(w)) /\ steer[w].ph = "leased"
      BY <2>4, SteersBesideParent
    <3>2. k # Parent(w) /\ Scope(k) = Scope(Parent(w))
      BY <1>2, <3>1 DEF Uncertain, Scope
    <3>3. steer[w].ph = "off" \/ Joins(w, k)
      BY <1>2, <3>1, <3>2 DEF StartInv, TurnIsAlone
    <3> QED BY <3>1, <3>3 DEF Joins
  <2> QED BY <2>2, <2>3, <2>4
<1> QED BY <1>1, <1>2 DEF RootBlocked

\* What the owner paused waits for the owner: no job starts while it is held,
\* or on a root that is written locally or holds an unresolved uncertain job,
\* by a lease (mark_executing) or by steering (start_steer).
THEOREM JobsStartOnFreeRoots == Spec => StartsOnFreeRoot
<1>1. StartInv /\ [Next]_vars =>
         [\A j \in Jobs :
             status[j] = "leased" /\ status'[j] = "executing"
                => Unheld(j) /\ ~RootBlocked(Scope(j))]_vars
  BY StartFindsFreeRoot
<1> QED BY <1>1, InitStartInv, StepStartInv, PTL DEF Spec, StartsOnFreeRoot

\* What a starting job leaves behind it in its topic.
LEMMA StartIsInOrder ==
    ASSUME StartInv, [Next]_vars, NEW j \in Jobs, NEW k \in Jobs,
           status[j] = "leased", status'[j] = "executing",
           k < j, topic[k] = topic[j], BlocksFifo(k)
    PROVE  \/ status[k] = "executing"
           \/ \E p \in Jobs : cont[p] # 0 /\ topic[p] = topic[j] /\ k <= p /\ p <= j
<1>1. PICK w \in Workers : WorkerStarts(w, j) \/ SteerStarts(w, j)
  BY StartedHow DEF StartInv, TurnInv
<1>2. CASE WorkerStarts(w, j)
  <2>1. status[j] = "leased" /\ lease[j].own # NoWorker
    BY <1>2, StartsAlone DEF StartInv, TurnInv, LeasedAlone
  <2>2. cont[j] # 0
    BY <2>1 DEF StartInv, HeadsAreKept, Heads
  <2> QED BY <2>2 DEF Jobs
<1>3. CASE SteerStarts(w, j)
  <2>1. /\ Parent(w) \in Jobs /\ Parent(w) < j /\ topic[Parent(w)] = topic[j]
        /\ status[Parent(w)] = "executing" /\ Main(Parent(w))
        /\ Child(w) = j /\ steer[w].ph = "leased" /\ OwnsChild(w, "leased")
    BY <1>3, SteersBesideParent
  <2>2. ~(Parent(w) < k)
    BY <2>1 DEF StartInv, HeadsAreKept
  <2>3. CASE k = Parent(w)
    BY <2>1, <2>3
  <2>4. CASE k < Parent(w)
    <3>1. cont[Parent(w)] # 0
      BY <2>1, <2>4 DEF StartInv, HeadsAreKept, Heads
    <3> QED BY <2>1, <2>4, <3>1 DEF Jobs
  <2> QED BY <2>1, <2>2, <2>3, <2>4 DEF Jobs
<1> QED BY <1>1, <1>2, <1>3

\* Messages of a topic start in order, except that a continuation the owner
\* asked for, and what is steered into it, goes first.
THEOREM TopicsKeepOrder == Spec => TopicOrder
<1>1. StartInv /\ [Next]_vars =>
         [\A j, k \in Jobs :
             /\ status[j] = "leased" /\ status'[j] = "executing"
             /\ k < j /\ topic[k] = topic[j] /\ BlocksFifo(k)
             => \/ status[k] = "executing"
                \/ \E p \in Jobs : cont[p] # 0 /\ topic[p] = topic[j] /\ k <= p /\ p <= j]_vars
  BY StartIsInOrder
<1> QED BY <1>1, InitStartInv, StepStartInv, PTL DEF Spec, TopicOrder

=============================================================================
