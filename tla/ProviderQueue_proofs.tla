------------------------- MODULE ProviderQueue_proofs -------------------------
(***************************************************************************)
(* Proofs about ProviderQueue, for every number of jobs, stops, workers,   *)
(* topics and scopes.                                                      *)
(***************************************************************************)
EXTENDS ProviderQueue, TLAPS

-----------------------------------------------------------------------------
(* Lemmas about the helpers of the transactions.                             *)

\* complete_finished_stops keeps the table of stops well formed.
LEMMA CompleteStopsType ==
    ASSUME NEW stp \in StopTable, NEW ts, NEW st, NEW ev, NEW res
    PROVE  CompleteStops(stp, ts, st, ev, res) \in StopTable
<1>1. ASSUME NEW s \in Stops
      PROVE  [stp[s] EXCEPT !.state = "completed"]
               \in [state : {"absent", "pending", "completed"},
                    topic : Topics, covered : SUBSET Jobs]
      BY DEF StopTable
<1> QED BY <1>1 DEF CompleteStops, StopTable

\* Inserting hold rows keeps the table of holds well formed.
LEMMA HoldAllType ==
    ASSUME TypeOK, NEW js
    PROVE  HoldAll(js) \in HoldTable
BY DEF TypeOK, HoldAll, HoldTable

\* The values of a row and of a lease that do not exist.
LEMMA NullTypes == /\ NullTopic \in Topics /\ NullBinding \in Bindings
                   /\ NoLease \in [tok : Nat, own : Workers \cup {NoWorker}, exp : BOOLEAN]
<1>1. NullTopic \in Topics /\ NullBinding \in Bindings
      BY TopologyAssumption DEF NullTopic, NullBinding
<1> QED BY <1>1 DEF NoLease

\* Taking a job out of its lease.
LEMMA LeaveType ==
    ASSUME TypeOK, NEW j, NEW st \in Status, Leave(j, st)
    PROVE  status' \in [Jobs -> Status] /\ lease' \in LeaseTable
BY NullTypes DEF TypeOK, Leave, LeaseTable

\* Granting a fresh lease.
LEMMA GrantType ==
    ASSUME TypeOK, NEW j \in Jobs, NEW w \in Workers \cup {NoWorker},
           tokens' = [tokens EXCEPT ![j] = @ + 1],
           lease' = [lease EXCEPT ![j] = [tok |-> tokens'[j], own |-> w, exp |-> FALSE]]
    PROVE  tokens' \in [Jobs -> Nat] /\ tokens'[j] \in Nat /\ lease' \in LeaseTable
<1>1. tokens' \in [Jobs -> Nat] /\ tokens'[j] \in Nat
      BY DEF TypeOK
<1>2. [tok |-> tokens'[j], own |-> w, exp |-> FALSE]
         \in [tok : Nat, own : Workers \cup {NoWorker}, exp : BOOLEAN]
      BY <1>1
<1> QED BY <1>1, <1>2 DEF TypeOK, LeaseTable

\* A worker that rests.
LEMMA RestType ==
    ASSUME TypeOK, NEW w, Rest(w)
    PROVE  worker' \in WorkerTable /\ steer' \in SteerTable
BY DEF TypeOK, Rest, WorkerTable, SteerTable

\* A worker outside its idle phase is at work on a job of the table.
LEMMA WorkType ==
    ASSUME TypeOK, NEW w \in Workers, worker[w].ph # "idle"
    PROVE  worker[w] \in [ph : WorkerPhases, job : Jobs, tok : Nat] /\ JobOf(w) \in Jobs
BY DEF TypeOK, WorkerTable, NoWork, JobOf

\* A busy steering thread is at work on a job of the table.
LEMMA ChildType ==
    ASSUME TypeOK, NEW w \in Workers, ~SteerQuiet(w)
    PROVE  steer[w] \in [ph : SteerPhases, job : Jobs, tok : Nat,
        par : Jobs] /\ Child(w) \in Jobs
BY DEF TypeOK, SteerTable, NoSteer, SteerOff, SteerQuiet, Child

\* A worker that moves to another phase of the same job.
LEMMA PhaseType ==
    ASSUME TypeOK, NEW w \in Workers, worker[w].ph # "idle", NEW ph \in WorkerPhases,
           worker' = [worker EXCEPT ![w].ph = ph]
    PROVE  worker' \in WorkerTable
BY WorkType DEF TypeOK, WorkerTable

\* A steering thread that turns to, or away from, a child.
LEMMA SteerDoneType ==
    ASSUME TypeOK, NEW w \in Workers,
           NEW rec \in {NoSteer, SteerOff} \cup [ph : SteerPhases, job : Jobs, tok : Nat,
               par : Jobs],
           SteerDone(w, rec)
    PROVE  steer' \in SteerTable
BY DEF TypeOK, SteerDone, SteerTable

\* A steering thread that moves to another phase of the same child.
LEMMA SteerToType ==
    ASSUME TypeOK, NEW w \in Workers, ~SteerQuiet(w), NEW ph \in SteerPhases, SteerTo(w, ph)
    PROVE  steer' \in SteerTable
BY ChildType DEF TypeOK, SteerTo, SteerTable

\* The tables are well formed in the empty database.
LEMMA InitType == Init => TypeOK
<1> SUFFICES ASSUME Init PROVE TypeOK
    OBVIOUS
<1>1. stop \in StopTable
      BY NullTypes DEF Init, NoStop, StopTable
<1>2. status \in [Jobs -> Status]
      BY DEF Init, Status
<1> QED BY <1>1, <1>2, NullTypes
        DEF Init, TypeOK, LeaseTable, HoldTable, WorkerTable, SteerTable

\* Every action keeps the tables well formed.
LEMMA StepType == TypeOK /\ [Next]_vars => TypeOK'
<1> SUFFICES ASSUME TypeOK, [Next]_vars
             PROVE  TypeOK'
    OBVIOUS
<1>1. ASSUME NEW j \in Jobs, NEW t \in Topics, NEW b \in Bindings,
             NEW now \in AvailableNow, Enqueue(j, t, b, now)
      PROVE  TypeOK'
  <2>1. status' \in [Jobs -> Status]
    BY <1>1 DEF Enqueue, Insert, TypeOK, Status, Waiting, Active, Settled
  <2>2. now \in BOOLEAN
    BY TopologyAssumption
  <2>3. due' \in [Jobs -> BOOLEAN]
    BY <1>1, <2>2 DEF Enqueue, Insert, TypeOK
  <2> QED BY <1>1, <2>1, <2>3
          DEF Enqueue, Insert, TypeOK, rowVars, leaseVars, ownerVars, procVars, provVars
<1>2. ASSUME NEW j \in Jobs, NEW t \in Topics, NEW b \in Bindings, EnqueueTakeover(j, t, b)
      PROVE  TypeOK'
  <2>1. status' \in [Jobs -> Status]
    BY <1>2 DEF EnqueueTakeover, Insert, TypeOK, Status, Waiting, Active, Settled
  <2> QED BY <1>2, <2>1 DEF EnqueueTakeover, Insert, TypeOK, rowVars, leaseVars, ownerVars,
        procVars, provVars
<1>3. ASSUME NEW src \in Jobs, NEW j \in Jobs, Continue(src, j)
      PROVE  TypeOK'
  <2>1. status' \in [Jobs -> Status]
    BY <1>3 DEF Continue, Insert, TypeOK, Status, Waiting, Active, Settled
  <2> QED BY <1>3, <2>1 DEF Continue, Insert, TypeOK, rowVars, leaseVars, ownerVars,
        procVars, provVars
<1>4. ASSUME NEW j \in Jobs, BecomeDue(j)
      PROVE  TypeOK'
    BY <1>4 DEF BecomeDue, TypeOK, rowVars, leaseVars, ownerVars, procVars, provVars
<1>5. ASSUME NEW j \in Jobs, Cancel(j)
      PROVE  TypeOK'
  <2>1. status' \in [Jobs -> Status]
    BY <1>5 DEF Cancel, TypeOK, Status, Waiting, Active, Settled
  <2>2. stop' \in StopTable
    BY <1>5, CompleteStopsType DEF Cancel, TypeOK
  <2> QED BY <1>5, <2>1, <2>2 DEF Cancel, TypeOK, rowVars, leaseVars, ownerVars, procVars,
        provVars
<1>6. ASSUME NEW w \in Workers, NEW j \in Jobs, Lease(w, j)
      PROVE  TypeOK'
  <2>1. status' \in [Jobs -> Status]
    BY <1>6 DEF Lease, TypeOK, Status, Waiting, Active, Settled
  <2>2. tokens' \in [Jobs -> Nat] /\ lease' \in LeaseTable
    BY <1>6, GrantType DEF Lease
  <2>3. worker' \in WorkerTable
    BY <1>6, GrantType DEF Lease, TypeOK, WorkerTable, WorkerPhases
  <2> QED BY <1>6, <2>1, <2>2, <2>3
        DEF Lease, TypeOK, rowVars, leaseVars, ownerVars, procVars, provVars
<1>7. ASSUME NEW w \in Workers, ReleaseLease(w)
      PROVE  TypeOK'
  <2>1. status' \in [Jobs -> Status] /\ lease' \in LeaseTable
    BY <1>7, LeaveType DEF ReleaseLease, Status, Waiting, Active, Settled
  <2>2. worker' \in WorkerTable /\ steer' \in SteerTable
    BY <1>7, RestType DEF ReleaseLease
  <2> QED BY <1>7, <2>1, <2>2 DEF ReleaseLease, TypeOK, rowVars, leaseVars, ownerVars,
        procVars, provVars
<1>8. ASSUME NEW w \in Workers, MarkExecuting(w)
      PROVE  TypeOK'
  <2>1. status' \in [Jobs -> Status] /\ lease' \in LeaseTable
    BY <1>8, LeaveType DEF MarkExecuting, TypeOK, Status, Waiting, Active, Settled,
        rowVars, leaseVars, ownerVars, procVars, provVars
  <2>2. worker' \in WorkerTable /\ steer' \in SteerTable
    BY <1>8, RestType, PhaseType
        DEF MarkExecuting, TypeOK, WorkerPhases, rowVars, leaseVars, ownerVars, procVars,
            provVars
  <2>3. stop' \in StopTable
    BY <1>8, CompleteStopsType DEF MarkExecuting, TypeOK, rowVars, leaseVars, ownerVars,
        procVars, provVars
  <2> QED BY <1>8, <2>1, <2>2, <2>3
        DEF MarkExecuting, TypeOK, rowVars, leaseVars, ownerVars, procVars, provVars
<1>9. ASSUME NEW w \in Workers, NEW accepted \in BOOLEAN, CallProvider(w, accepted)
      PROVE  TypeOK'
  <2>1. worker' \in WorkerTable
    BY <1>9, PhaseType DEF CallProvider, WorkerPhases
  <2>2. calls' \in [Jobs -> Nat] /\ live' \subseteq Jobs
    BY <1>9, WorkType DEF CallProvider, TypeOK
  <2> QED BY <1>9, <2>1, <2>2 DEF CallProvider, TypeOK, rowVars, leaseVars, ownerVars,
        procVars, provVars
<1>10. ASSUME NEW w \in Workers, RecordTurn(w)
      PROVE  TypeOK'
  <2>1. worker' \in WorkerTable
    BY <1>10, PhaseType DEF RecordTurn, WorkerPhases
  <2>2. checkpoint' \subseteq Jobs
    BY <1>10, WorkType DEF RecordTurn, TypeOK
  <2> QED BY <1>10, <2>1, <2>2 DEF RecordTurn, TypeOK, rowVars, leaseVars, ownerVars,
        procVars, provVars
<1>11. ASSUME NEW j \in Jobs, TurnEnds(j)
      PROVE  TypeOK'
    BY <1>11 DEF TurnEnds, TypeOK, rowVars, leaseVars, ownerVars, procVars, provVars
<1>12. ASSUME NEW w \in Workers, CommitResult(w)
      PROVE  TypeOK'
  <2>1. status' \in [Jobs -> Status] /\ lease' \in LeaseTable
    BY <1>12, LeaveType DEF CommitResult, Status, Waiting, Active, Settled, rowVars,
        leaseVars, ownerVars, procVars, provVars, TypeOK
  <2>2. worker' \in WorkerTable /\ steer' \in SteerTable
    BY <1>12, RestType DEF CommitResult, rowVars, leaseVars, ownerVars, procVars, provVars,
        TypeOK
  <2>3. stop' \in StopTable
    BY <1>12, CompleteStopsType
        DEF CommitResult, TypeOK, rowVars, leaseVars, ownerVars, procVars, provVars
  <2> QED BY <1>12, <2>1, <2>2, <2>3
        DEF CommitResult, TypeOK, rowVars, leaseVars, ownerVars, procVars, provVars
<1>13. ASSUME NEW w \in Workers, CancelActive(w)
      PROVE  TypeOK'
  <2>1. status' \in [Jobs -> Status] /\ lease' \in LeaseTable
    BY <1>13, LeaveType DEF CancelActive, Status, Waiting, Active, Settled
  <2>2. worker' \in WorkerTable /\ steer' \in SteerTable
    BY <1>13, RestType DEF CancelActive
  <2>3. stop' \in StopTable
    BY <1>13, CompleteStopsType DEF CancelActive, TypeOK
  <2> QED BY <1>13, <2>1, <2>2, <2>3
        DEF CancelActive, TypeOK, rowVars, leaseVars, ownerVars, procVars, provVars
<1>14. ASSUME NEW w \in Workers, TerminateFailed(w)
      PROVE  TypeOK'
  <2>1. status' \in [Jobs -> Status] /\ lease' \in LeaseTable
    BY <1>14, LeaveType DEF TerminateFailed, Status, Waiting, Active, Settled
  <2>2. worker' \in WorkerTable /\ steer' \in SteerTable
    BY <1>14, RestType DEF TerminateFailed
  <2>3. stop' \in StopTable
    BY <1>14, CompleteStopsType DEF TerminateFailed, TypeOK
  <2>4. mailed' \subseteq Jobs
    BY <1>14, WorkType DEF TerminateFailed, TypeOK
  <2> QED BY <1>14, <2>1, <2>2, <2>3, <2>4
        DEF TerminateFailed, TypeOK, rowVars, leaseVars, ownerVars, procVars, provVars
<1>15. ASSUME NEW w \in Workers, NEW proof \in BOOLEAN, TerminateIndeterminate(w, proof)
      PROVE  TypeOK'
  <2>1. status' \in [Jobs -> Status] /\ lease' \in LeaseTable
    BY <1>15, LeaveType DEF TerminateIndeterminate, Status, Waiting, Active, Settled
  <2>2. worker' \in WorkerTable /\ steer' \in SteerTable
    BY <1>15, RestType DEF TerminateIndeterminate
  <2>3. stop' \in StopTable
    BY <1>15, CompleteStopsType DEF TerminateIndeterminate, TypeOK
  <2>4. hold' \in HoldTable
    BY <1>15, HoldAllType DEF TerminateIndeterminate, TypeOK
  <2>5. mailed' \subseteq Jobs
    BY <1>15, WorkType DEF TerminateIndeterminate, TypeOK
  <2> QED BY <1>15, <2>1, <2>2, <2>3, <2>4, <2>5
        DEF TerminateIndeterminate, TypeOK, rowVars, leaseVars, ownerVars, procVars,
            provVars
<1>16. ASSUME NEW w \in Workers, ScheduleRetry(w)
      PROVE  TypeOK'
  <2>1. status' \in [Jobs -> Status] /\ lease' \in LeaseTable
    BY <1>16, LeaveType DEF ScheduleRetry, Status, Waiting, Active, Settled
  <2>2. worker' \in WorkerTable /\ steer' \in SteerTable
    BY <1>16, RestType DEF ScheduleRetry
  <2>3. stop' \in StopTable
    BY <1>16, CompleteStopsType DEF ScheduleRetry, TypeOK
  <2>4. attempts' \in [Jobs -> Nat]
    BY <1>16, WorkType DEF ScheduleRetry, TypeOK
  <2> QED BY <1>16, <2>1, <2>2, <2>3, <2>4
        DEF ScheduleRetry, TypeOK, rowVars, leaseVars, ownerVars, procVars, provVars
<1>17. ASSUME NEW w \in Workers, WorkerDrops(w)
      PROVE  TypeOK'
  <2>1. worker' \in WorkerTable /\ steer' \in SteerTable
    BY <1>17, SteerDoneType DEF WorkerDrops, TypeOK, WorkerTable
  <2> QED BY <1>17, <2>1 DEF WorkerDrops, TypeOK, rowVars, leaseVars, ownerVars, procVars,
        provVars
<1>18. ASSUME NEW j \in Jobs, LeaseExpires(j)
      PROVE  TypeOK'
  <2>1. lease' \in LeaseTable
    BY <1>18 DEF LeaseExpires, TypeOK, LeaseTable
  <2> QED BY <1>18, <2>1 DEF LeaseExpires, TypeOK, rowVars, leaseVars, ownerVars, procVars,
        provVars
<1>19. ASSUME NEW a \in Agents, RecoverStale(a)
      PROVE  TypeOK'
  <2>1. status' \in [Jobs -> Status] /\ lease' \in LeaseTable
    BY <1>19, NullTypes DEF RecoverStale, Recovered, TypeOK, LeaseTable, Status, Waiting,
        Active, Settled
  <2>2. stop' \in StopTable
    BY <1>19, CompleteStopsType DEF RecoverStale, Recovered, Active, TypeOK
  <2> QED BY <1>19, <2>1, <2>2 DEF RecoverStale, Recovered, Active, TypeOK, rowVars,
        leaseVars, ownerVars, procVars, provVars
<1>20. ASSUME NEW w \in Workers, NEW j \in Jobs, ClaimStale(w, j)
      PROVE  TypeOK'
  <2>1. tokens' \in [Jobs -> Nat] /\ lease' \in LeaseTable
    BY <1>20, GrantType DEF ClaimStale
  <2>2. worker' \in WorkerTable
    BY <1>20, GrantType DEF ClaimStale, TypeOK, WorkerTable, WorkerPhases
  <2> QED BY <1>20, <2>1, <2>2 DEF ClaimStale, TypeOK, rowVars, leaseVars, ownerVars,
        procVars, provVars
<1>21. ASSUME NEW j \in Jobs, NEW completed \in BOOLEAN, NEW keep \in BOOLEAN,
             ObserveOutcome(j, completed, keep)
      PROVE  TypeOK'
  <2>1. status' \in [Jobs -> Status]
    BY <1>21 DEF ObserveOutcome, TypeOK, Status, Waiting, Active, Settled, rowVars,
        leaseVars, ownerVars, procVars, provVars
  <2>2. stop' \in StopTable
    BY <1>21, CompleteStopsType
        DEF ObserveOutcome, TypeOK, rowVars, leaseVars, ownerVars, procVars, provVars
  <2>3. hold' \in HoldTable
    BY <1>21, HoldAllType DEF ObserveOutcome, TypeOK, rowVars, leaseVars, ownerVars,
        procVars, provVars
  <2> QED BY <1>21, <2>1, <2>2, <2>3
        DEF ObserveOutcome, TypeOK, rowVars, leaseVars, ownerVars, procVars, provVars
<1>22. ASSUME NEW w \in Workers, NEW c \in Jobs, LeaseSteer(w, c)
      PROVE  TypeOK'
  <2>1. status' \in [Jobs -> Status]
    BY <1>22 DEF LeaseSteer, TypeOK, Status, Waiting, Active, Settled
  <2>2. tokens' \in [Jobs -> Nat] /\ lease' \in LeaseTable
    BY <1>22, GrantType DEF LeaseSteer
  <2>3. steer' \in SteerTable
    BY <1>22, GrantType, WorkType, SteerDoneType DEF LeaseSteer, SteerPhases
  <2> QED BY <1>22, <2>1, <2>2, <2>3
        DEF LeaseSteer, TypeOK, rowVars, leaseVars, ownerVars, procVars, provVars
<1>23. ASSUME NEW w \in Workers, StartSteer(w)
      PROVE  TypeOK'
  <2>1. status' \in [Jobs -> Status] /\ lease' \in LeaseTable
    BY <1>23, LeaveType DEF StartSteer, TypeOK, Status, Waiting, Active, Settled, rowVars,
        leaseVars, ownerVars, procVars, provVars
  <2>2. steer' \in SteerTable
    BY <1>23, SteerDoneType, SteerToType
        DEF StartSteer, SteerPhases, SteerQuiet, rowVars, leaseVars, ownerVars, procVars,
            provVars, TypeOK
  <2>3. stop' \in StopTable
    BY <1>23, CompleteStopsType
        DEF StartSteer, TypeOK, rowVars, leaseVars, ownerVars, procVars, provVars
  <2> QED BY <1>23, <2>1, <2>2, <2>3
        DEF StartSteer, TypeOK, rowVars, leaseVars, ownerVars, procVars, provVars
<1>24. ASSUME NEW w \in Workers, ReleaseSteer(w)
      PROVE  TypeOK'
  <2>1. status' \in [Jobs -> Status] /\ lease' \in LeaseTable
    BY <1>24, LeaveType DEF ReleaseSteer, SteerFails, Status, Waiting, Active, Settled
  <2>2. steer' \in SteerTable
    BY <1>24, SteerDoneType DEF ReleaseSteer, SteerFails
  <2> QED BY <1>24, <2>1, <2>2 DEF ReleaseSteer, SteerFails, TypeOK, rowVars, leaseVars, ownerVars,
        procVars, provVars
<1>25. ASSUME NEW w \in Workers, NEW outcome \in {"accepted", "rejected", "unknown"},
             InvokeSteer(w, outcome)
      PROVE  TypeOK'
  <2>1. steer' \in SteerTable
    BY <1>25, SteerToType DEF InvokeSteer, SteerPhases, SteerQuiet
  <2>2. calls' \in [Jobs -> Nat]
    BY <1>25, ChildType DEF InvokeSteer, TypeOK, SteerQuiet
  <2> QED BY <1>25, <2>1, <2>2 DEF InvokeSteer, TypeOK, rowVars, leaseVars, ownerVars,
        procVars, provVars
<1>26. ASSUME NEW w \in Workers, CompleteSteered(w)
      PROVE  TypeOK'
  <2>1. status' \in [Jobs -> Status] /\ lease' \in LeaseTable
    BY <1>26, LeaveType DEF CompleteSteered, Status, Waiting, Active, Settled, rowVars,
        leaseVars, ownerVars, procVars, provVars, TypeOK
  <2>2. steer' \in SteerTable
    BY <1>26, SteerDoneType, SteerToType
        DEF CompleteSteered, SteerPhases, SteerQuiet, rowVars, leaseVars, ownerVars,
            procVars, provVars, TypeOK
  <2>3. stop' \in StopTable
    BY <1>26, CompleteStopsType
        DEF CompleteSteered, TypeOK, rowVars, leaseVars, ownerVars, procVars, provVars
  <2> QED BY <1>26, <2>1, <2>2, <2>3
        DEF CompleteSteered, TypeOK, rowVars, leaseVars, ownerVars, procVars, provVars
<1>27. ASSUME NEW w \in Workers, RejectSteer(w)
      PROVE  TypeOK'
  <2>1. status' \in [Jobs -> Status] /\ lease' \in LeaseTable
    BY <1>27, LeaveType DEF RejectSteer, Status, Waiting, Active, Settled
  <2>2. steer' \in SteerTable
    BY <1>27, SteerDoneType DEF RejectSteer, SteerFails
  <2>3. attempts' \in [Jobs -> Nat]
    BY <1>27, ChildType DEF RejectSteer, TypeOK, SteerQuiet
  <2> QED BY <1>27, <2>1, <2>2, <2>3
        DEF RejectSteer, TypeOK, rowVars, leaseVars, ownerVars, procVars, provVars
<1>28. ASSUME NEW w \in Workers, SteerUnknown(w)
      PROVE  TypeOK'
  <2>1. status' \in [Jobs -> Status] /\ lease' \in LeaseTable
    BY <1>28, LeaveType DEF SteerUnknown, Status, Waiting, Active, Settled
  <2>2. steer' \in SteerTable
    BY <1>28, SteerDoneType DEF SteerUnknown, SteerFails
  <2>3. stop' \in StopTable
    BY <1>28, CompleteStopsType DEF SteerUnknown, TypeOK
  <2> QED BY <1>28, <2>1, <2>2, <2>3
        DEF SteerUnknown, TypeOK, rowVars, leaseVars, ownerVars, procVars, provVars
<1>29. ASSUME NEW w \in Workers, SteerDrops(w)
      PROVE  TypeOK'
  <2>1. steer' \in SteerTable
    BY <1>29, SteerDoneType DEF SteerDrops, SteerFails
  <2> QED BY <1>29, <2>1 DEF SteerDrops, TypeOK, rowVars, leaseVars, ownerVars, procVars,
        provVars
<1>30. ASSUME NEW s \in Stops, NEW t \in Topics, RequestStop(s, t)
      PROVE  TypeOK'
  <2> DEFINE mine == {j \in Jobs : Exists(j) /\ topic[j] = t}
             busy == \E j \in mine : status[j] \in Active \/ Uncertain(j)
             new == [state |-> IF busy THEN "pending" ELSE "completed", topic |-> t,
                     covered |-> {j \in mine : Unheld(j)}]
  <2>1. status' \in [Jobs -> Status]
    BY <1>30 DEF RequestStop, TypeOK, Status, Waiting, Active, Settled
  <2>2. [stop EXCEPT ![s] = new] \in StopTable
    <3>1. new \in [state : {"absent", "pending", "completed"}, topic : Topics,
                   covered : SUBSET Jobs]
      OBVIOUS
    <3> HIDE DEF new
    <3> QED BY <3>1 DEF TypeOK, StopTable
  <2>3. stop' \in StopTable
    BY <1>30, <2>2, CompleteStopsType DEF RequestStop
  <2> QED BY <1>30, <2>1, <2>3 DEF RequestStop, TypeOK, rowVars, leaseVars, ownerVars,
        procVars, provVars
<1>31. ASSUME NEW j \in Jobs, NEW r \in Resolutions, ResolveIndeterminate(j, r)
      PROVE  TypeOK'
  <2>1. stop' \in StopTable
    BY <1>31, CompleteStopsType DEF ResolveIndeterminate, TypeOK
  <2> QED BY <1>31, <2>1 DEF ResolveIndeterminate, TypeOK, rowVars, leaseVars, ownerVars,
        procVars, provVars
<1>32. ASSUME MaterializeHeld
      PROVE  TypeOK'
  <2>1. hold' \in HoldTable
    BY <1>32, HoldAllType DEF MaterializeHeld, TypeOK
  <2> QED BY <1>32, <2>1 DEF MaterializeHeld, TypeOK, rowVars, leaseVars, ownerVars,
        procVars, provVars
<1>33. ASSUME NEW j \in Jobs, NEW decision \in {"confirmed", "cancelled"},
             DecideHeld(j, decision)
      PROVE  TypeOK'
  <2>1. status' \in [Jobs -> Status]
    BY <1>33 DEF DecideHeld, TypeOK, Status, Waiting, Active, Settled, rowVars, leaseVars,
        ownerVars, procVars, provVars
  <2>2. hold' \in HoldTable
    BY <1>33 DEF DecideHeld, TypeOK, HoldTable, rowVars, leaseVars, ownerVars, procVars,
        provVars
  <2>3. stop' \in StopTable
    BY <1>33, CompleteStopsType
        DEF DecideHeld, TypeOK, rowVars, leaseVars, ownerVars, procVars, provVars
  <2> QED BY <1>33, <2>1, <2>2, <2>3
        DEF DecideHeld, TypeOK, rowVars, leaseVars, ownerVars, procVars, provVars
<1>34. ASSUME NEW t \in Topics, TakeLocalWriter(t)
      PROVE  TypeOK'
    BY <1>34 DEF TakeLocalWriter, TypeOK, rowVars, leaseVars, ownerVars, procVars, provVars
<1>35. ASSUME NEW t \in Topics, ReturnLocalWriter(t)
      PROVE  TypeOK'
  <2>1. hold' \in HoldTable
    BY <1>35, HoldAllType DEF ReturnLocalWriter, TypeOK
  <2> QED BY <1>35, <2>1 DEF ReturnLocalWriter, TypeOK, rowVars, leaseVars, ownerVars,
        procVars, provVars
<1>36. ASSUME NEW j \in Jobs, NEW st \in {"completed", "failed"}, SettleDelivery(j, st)
      PROVE  TypeOK'
  <2>1. status' \in [Jobs -> Status]
    BY <1>36 DEF SettleDelivery, TypeOK, Status, Waiting, Active, Settled
  <2> QED BY <1>36, <2>1 DEF SettleDelivery, TypeOK, rowVars, leaseVars, ownerVars,
        procVars, provVars
<1>37. ASSUME NEW j \in Jobs, NEW how \in {"released", "reconciled"}, ParkDelivery(j, how)
      PROVE  TypeOK'
    BY <1>37 DEF ParkDelivery, TypeOK, rowVars, leaseVars, ownerVars, procVars, provVars
<1>38. CASE UNCHANGED vars
      BY <1>38 DEF TypeOK, vars, rowVars, leaseVars, ownerVars, procVars, provVars
<1> QED BY <1>1, <1>2, <1>3, <1>4, <1>5, <1>6, <1>7, <1>8, <1>9, <1>10, <1>11, <1>12,
      <1>13, <1>14, <1>15, <1>16, <1>17, <1>18, <1>19, <1>20, <1>21, <1>22, <1>23, <1>24,
            <1>25, <1>26, <1>27, <1>28, <1>29, <1>30, <1>31, <1>32, <1>33, <1>34, <1>35,
                  <1>36, <1>37, <1>38
    DEF Next, Admission, Acquire, WorkerStep, SteerStep, World, Owner

\* Type correctness: every reachable state of the queue is well formed.
THEOREM TypeCorrect == Spec => []TypeOK
BY InitType, StepType, PTL DEF Spec

-----------------------------------------------------------------------------
(* At most one provider call per job.                                        *)

\* A step that sends nothing, makes no process a sender and returns no started
\* job to the queue keeps senders exclusive.
LEMMA QuietStep ==
    ASSUME TypeOK, OneSender, AtMostOnce, calls' = calls,
           \A j \in Jobs : status'[j] \in NotStarted => status[j] \in NotStarted,
           \A w \in Workers, j \in Jobs : StartedBy(w, j)' => StartedBy(w, j),
           \A w \in Workers, j \in Jobs : SteeredBy(w, j)' => SteeredBy(w, j)
    PROVE  OneSender' /\ AtMostOnce'
<1>1. AtMostOnce'
      BY DEF AtMostOnce
<1>2. OneSender'
      BY DEF OneSender
<1> QED BY <1>1, <1>2

\* No action sends a job's input twice.
LEMMA StepOneSender ==
    TypeOK /\ OneSender /\ AtMostOnce /\ [Next]_vars => OneSender' /\ AtMostOnce'
<1> SUFFICES ASSUME TypeOK, OneSender, AtMostOnce, [Next]_vars
             PROVE  OneSender' /\ AtMostOnce'
    OBVIOUS
<1>1. ASSUME NEW j \in Jobs, NEW t \in Topics, NEW b \in Bindings,
             NEW now \in AvailableNow, Enqueue(j, t, b, now)
      PROVE  OneSender' /\ AtMostOnce'
  <2>1. \A k \in Jobs : status'[k] \in NotStarted => status[k] \in NotStarted
    BY <1>1 DEF Enqueue, Insert, TypeOK, Free, NotStarted, Waiting
  <2>2. /\ \A v \in Workers, k \in Jobs : StartedBy(v, k)' => StartedBy(v, k)
        /\ \A v \in Workers, k \in Jobs : SteeredBy(v, k)' => SteeredBy(v, k)
    BY <1>1 DEF Enqueue, Insert, TypeOK, StartedBy, SteeredBy, rowVars, leaseVars,
        ownerVars, procVars, provVars
  <2> QED BY <1>1, <2>1, <2>2, QuietStep
        DEF Enqueue, Insert, rowVars, leaseVars, ownerVars, procVars, provVars
<1>2. ASSUME NEW j \in Jobs, NEW t \in Topics, NEW b \in Bindings, EnqueueTakeover(j, t, b)
      PROVE  OneSender' /\ AtMostOnce'
  <2>1. \A k \in Jobs : status'[k] \in NotStarted => status[k] \in NotStarted
    BY <1>2 DEF EnqueueTakeover, Insert, TypeOK, Free, NotStarted, Waiting
  <2>2. /\ \A v \in Workers, k \in Jobs : StartedBy(v, k)' => StartedBy(v, k)
        /\ \A v \in Workers, k \in Jobs : SteeredBy(v, k)' => SteeredBy(v, k)
    BY <1>2 DEF EnqueueTakeover, Insert, TypeOK, StartedBy, SteeredBy, rowVars, leaseVars,
        ownerVars, procVars, provVars
  <2> QED BY <1>2, <2>1, <2>2, QuietStep
        DEF EnqueueTakeover, Insert, rowVars, leaseVars, ownerVars, procVars, provVars
<1>3. ASSUME NEW src \in Jobs, NEW j \in Jobs, Continue(src, j)
      PROVE  OneSender' /\ AtMostOnce'
  <2>1. \A k \in Jobs : status'[k] \in NotStarted => status[k] \in NotStarted
    BY <1>3 DEF Continue, Insert, TypeOK, Free, NotStarted, Waiting
  <2>2. /\ \A v \in Workers, k \in Jobs : StartedBy(v, k)' => StartedBy(v, k)
        /\ \A v \in Workers, k \in Jobs : SteeredBy(v, k)' => SteeredBy(v, k)
    BY <1>3 DEF Continue, Insert, TypeOK, StartedBy, SteeredBy, rowVars, leaseVars,
        ownerVars, procVars, provVars
  <2> QED BY <1>3, <2>1, <2>2, QuietStep
        DEF Continue, Insert, rowVars, leaseVars, ownerVars, procVars, provVars
<1>4. ASSUME NEW j \in Jobs, BecomeDue(j)
      PROVE  OneSender' /\ AtMostOnce'
  <2>1. \A k \in Jobs : status'[k] \in NotStarted => status[k] \in NotStarted
    BY <1>4 DEF BecomeDue, rowVars, leaseVars, ownerVars, procVars, provVars
  <2>2. /\ \A v \in Workers, k \in Jobs : StartedBy(v, k)' => StartedBy(v, k)
        /\ \A v \in Workers, k \in Jobs : SteeredBy(v, k)' => SteeredBy(v, k)
    BY <1>4 DEF BecomeDue, TypeOK, StartedBy, SteeredBy, rowVars, leaseVars, ownerVars,
        procVars, provVars
  <2> QED BY <1>4, <2>1, <2>2, QuietStep
        DEF BecomeDue, rowVars, leaseVars, ownerVars, procVars, provVars
<1>5. ASSUME NEW j \in Jobs, Cancel(j)
      PROVE  OneSender' /\ AtMostOnce'
  <2>1. \A k \in Jobs : status'[k] \in NotStarted => status[k] \in NotStarted
    BY <1>5 DEF Cancel, TypeOK, NotStarted, Waiting
  <2>2. /\ \A v \in Workers, k \in Jobs : StartedBy(v, k)' => StartedBy(v, k)
        /\ \A v \in Workers, k \in Jobs : SteeredBy(v, k)' => SteeredBy(v, k)
    BY <1>5 DEF Cancel, TypeOK, StartedBy, SteeredBy, rowVars, leaseVars, ownerVars,
        procVars, provVars
  <2> QED BY <1>5, <2>1, <2>2, QuietStep
        DEF Cancel, rowVars, leaseVars, ownerVars, procVars, provVars
<1>6. ASSUME NEW w \in Workers, NEW j \in Jobs, Lease(w, j)
      PROVE  OneSender' /\ AtMostOnce'
  <2>1. \A k \in Jobs : status'[k] \in NotStarted => status[k] \in NotStarted
    BY <1>6 DEF Lease, TypeOK, Eligible, NotStarted, Waiting
  <2>2. /\ \A v \in Workers, k \in Jobs : StartedBy(v, k)' => StartedBy(v, k)
        /\ \A v \in Workers, k \in Jobs : SteeredBy(v, k)' => SteeredBy(v, k)
    BY <1>6 DEF Lease, TypeOK, StartedBy, SteeredBy, WorkerTable, SteerTable, NoWork,
        NoSteer,
           SteerOff, rowVars, leaseVars, ownerVars, procVars, provVars
  <2> QED BY <1>6, <2>1, <2>2, QuietStep
        DEF Lease, rowVars, leaseVars, ownerVars, procVars, provVars
<1>7. ASSUME NEW w \in Workers, ReleaseLease(w)
      PROVE  OneSender' /\ AtMostOnce'
  <2>1. \A k \in Jobs : status'[k] \in NotStarted => status[k] \in NotStarted
    BY <1>7 DEF ReleaseLease, Leave, TypeOK, OwnsIn, JobOf, NotStarted, Waiting
  <2>2. /\ \A v \in Workers, k \in Jobs : StartedBy(v, k)' => StartedBy(v, k)
        /\ \A v \in Workers, k \in Jobs : SteeredBy(v, k)' => SteeredBy(v, k)
    BY <1>7 DEF ReleaseLease, Rest, TypeOK, StartedBy, SteeredBy, WorkerTable, SteerTable,
        NoWork, NoSteer,
           SteerOff, rowVars, leaseVars, ownerVars, procVars, provVars
  <2> QED BY <1>7, <2>1, <2>2, QuietStep
        DEF ReleaseLease, rowVars, leaseVars, ownerVars, procVars, provVars
<1>8. ASSUME NEW w \in Workers, MarkExecuting(w)
      PROVE  OneSender' /\ AtMostOnce'
  <2>1. CASE PendingStop(JobOf(w))
    <3>1. \A k \in Jobs : status'[k] \in NotStarted => status[k] \in NotStarted
      BY <1>8, <2>1 DEF MarkExecuting, Leave, TypeOK, OwnsIn, JobOf, NotStarted, Waiting
    <3>2. /\ \A v \in Workers, k \in Jobs : StartedBy(v, k)' => StartedBy(v, k)
          /\ \A v \in Workers, k \in Jobs : SteeredBy(v, k)' => SteeredBy(v, k)
      BY <1>8, <2>1 DEF MarkExecuting, Rest, TypeOK, StartedBy, SteeredBy, WorkerTable,
        SteerTable, NoWork, NoSteer
    <3> QED BY <1>8, <3>1, <3>2, QuietStep DEF MarkExecuting, provVars
  <2>2. CASE ~PendingStop(JobOf(w))
    <3>1. /\ JobOf(w) \in Jobs /\ status[JobOf(w)] = "leased"
          /\ status' = [status EXCEPT ![JobOf(w)] = "executing"]
          /\ worker' = [worker EXCEPT ![w].ph = "started"]
          /\ calls' = calls /\ steer' = steer
      BY <1>8, <2>2, WorkType DEF MarkExecuting, OwnsIn, provVars
    <3>2. \A v \in Workers, k \in Jobs :
             /\ StartedBy(v, k)' => StartedBy(v, k) \/ (v = w /\ k = JobOf(w))
             /\ SteeredBy(v, k)' => SteeredBy(v, k)
      BY <3>1, WorkType DEF StartedBy, SteeredBy, TypeOK, WorkerTable, JobOf
    <3>3. /\ calls[JobOf(w)] = 0
          /\ \A v \in Workers : ~StartedBy(v, JobOf(w)) /\ ~SteeredBy(v, JobOf(w))
      BY <3>1 DEF OneSender, NotStarted
    <3>4. \A k \in Jobs : status'[k] \in NotStarted => status[k] \in NotStarted /\ k # JobOf(w)
      BY <3>1 DEF TypeOK, NotStarted, Waiting
    <3>5. OneSender'
      BY <3>1, <3>2, <3>3, <3>4 DEF OneSender
    <3> QED BY <3>1, <3>5 DEF AtMostOnce
  <2> QED BY <2>1, <2>2
<1>9. ASSUME NEW w \in Workers, NEW accepted \in BOOLEAN, CallProvider(w, accepted)
      PROVE  OneSender' /\ AtMostOnce'
  <2>1. /\ JobOf(w) \in Jobs /\ StartedBy(w, JobOf(w))
        /\ status' = status /\ steer' = steer
        /\ worker' = [worker EXCEPT ![w].ph = "called"]
        /\ calls' = calls \/ calls' = [calls EXCEPT ![JobOf(w)] = @ + 1]
    BY <1>9, WorkType DEF CallProvider, StartedBy, JobOf, TypeOK
  <2>2. \A v \in Workers, k \in Jobs : /\ StartedBy(v, k)' => StartedBy(v, k) /\ v # w
                                       /\ SteeredBy(v, k)' => SteeredBy(v, k)
    BY <2>1 DEF StartedBy, SteeredBy, TypeOK, WorkerTable
  <2>3. /\ calls[JobOf(w)] = 0 /\ status[JobOf(w)] \notin NotStarted
        /\ \A v \in Workers : ~SteeredBy(v, JobOf(w)) /\ (StartedBy(v, JobOf(w)) => v = w)
    BY <2>1 DEF OneSender
  <2>4. \A k \in Jobs : /\ k # JobOf(w) => calls'[k] = calls[k]
                        /\ calls'[JobOf(w)] <= 1
    BY <2>1, <2>3 DEF TypeOK
  <2>5. OneSender'
    BY <2>1, <2>2, <2>3, <2>4 DEF OneSender
  <2> QED BY <2>1, <2>4, <2>5 DEF AtMostOnce
<1>10. ASSUME NEW w \in Workers, RecordTurn(w)
      PROVE  OneSender' /\ AtMostOnce'
  <2>1. \A k \in Jobs : status'[k] \in NotStarted => status[k] \in NotStarted
    BY <1>10 DEF RecordTurn, rowVars, leaseVars, ownerVars, procVars, provVars
  <2>2. /\ \A v \in Workers, k \in Jobs : StartedBy(v, k)' => StartedBy(v, k)
        /\ \A v \in Workers, k \in Jobs : SteeredBy(v, k)' => SteeredBy(v, k)
    BY <1>10 DEF RecordTurn, TypeOK, StartedBy, SteeredBy, WorkerTable, SteerTable, NoWork,
        NoSteer,
           SteerOff, rowVars, leaseVars, ownerVars, procVars, provVars
  <2> QED BY <1>10, <2>1, <2>2, QuietStep
        DEF RecordTurn, rowVars, leaseVars, ownerVars, procVars, provVars
<1>11. ASSUME NEW j \in Jobs, TurnEnds(j)
      PROVE  OneSender' /\ AtMostOnce'
  <2>1. \A k \in Jobs : status'[k] \in NotStarted => status[k] \in NotStarted
    BY <1>11 DEF TurnEnds, rowVars, leaseVars, ownerVars, procVars, provVars
  <2>2. /\ \A v \in Workers, k \in Jobs : StartedBy(v, k)' => StartedBy(v, k)
        /\ \A v \in Workers, k \in Jobs : SteeredBy(v, k)' => SteeredBy(v, k)
    BY <1>11 DEF TurnEnds, TypeOK, StartedBy, SteeredBy, rowVars, leaseVars, ownerVars,
        procVars, provVars
  <2> QED BY <1>11, <2>1, <2>2, QuietStep
        DEF TurnEnds, rowVars, leaseVars, ownerVars, procVars, provVars
<1>12. ASSUME NEW w \in Workers, CommitResult(w)
      PROVE  OneSender' /\ AtMostOnce'
  <2>1. \A k \in Jobs : status'[k] \in NotStarted => status[k] \in NotStarted
    BY <1>12 DEF CommitResult, Leave, TypeOK, OwnsIn, JobOf, NotStarted, Waiting
  <2>2. /\ \A v \in Workers, k \in Jobs : StartedBy(v, k)' => StartedBy(v, k)
        /\ \A v \in Workers, k \in Jobs : SteeredBy(v, k)' => SteeredBy(v, k)
    BY <1>12 DEF CommitResult, Rest, TypeOK, StartedBy, SteeredBy, WorkerTable, SteerTable,
        NoWork, NoSteer,
           SteerOff, rowVars, leaseVars, ownerVars, procVars, provVars
  <2> QED BY <1>12, <2>1, <2>2, QuietStep
        DEF CommitResult, rowVars, leaseVars, ownerVars, procVars, provVars
<1>13. ASSUME NEW w \in Workers, CancelActive(w)
      PROVE  OneSender' /\ AtMostOnce'
  <2>1. \A k \in Jobs : status'[k] \in NotStarted => status[k] \in NotStarted
    BY <1>13 DEF CancelActive, Leave, TypeOK, OwnsIn, JobOf, NotStarted, Waiting
  <2>2. /\ \A v \in Workers, k \in Jobs : StartedBy(v, k)' => StartedBy(v, k)
        /\ \A v \in Workers, k \in Jobs : SteeredBy(v, k)' => SteeredBy(v, k)
    BY <1>13 DEF CancelActive, Rest, TypeOK, StartedBy, SteeredBy, WorkerTable, SteerTable,
        NoWork, NoSteer,
           SteerOff, rowVars, leaseVars, ownerVars, procVars, provVars
  <2> QED BY <1>13, <2>1, <2>2, QuietStep
        DEF CancelActive, rowVars, leaseVars, ownerVars, procVars, provVars
<1>14. ASSUME NEW w \in Workers, TerminateFailed(w)
      PROVE  OneSender' /\ AtMostOnce'
  <2>1. \A k \in Jobs : status'[k] \in NotStarted => status[k] \in NotStarted
    BY <1>14 DEF TerminateFailed, Leave, TypeOK, OwnsIn, JobOf, NotStarted, Waiting
  <2>2. /\ \A v \in Workers, k \in Jobs : StartedBy(v, k)' => StartedBy(v, k)
        /\ \A v \in Workers, k \in Jobs : SteeredBy(v, k)' => SteeredBy(v, k)
    BY <1>14 DEF TerminateFailed, Rest, TypeOK, StartedBy, SteeredBy, WorkerTable,
        SteerTable, NoWork, NoSteer,
           SteerOff, rowVars, leaseVars, ownerVars, procVars, provVars
  <2> QED BY <1>14, <2>1, <2>2, QuietStep
        DEF TerminateFailed, rowVars, leaseVars, ownerVars, procVars, provVars
<1>15. ASSUME NEW w \in Workers, NEW proof \in BOOLEAN, TerminateIndeterminate(w, proof)
      PROVE  OneSender' /\ AtMostOnce'
  <2>1. \A k \in Jobs : status'[k] \in NotStarted => status[k] \in NotStarted
    BY <1>15 DEF TerminateIndeterminate, Leave, TypeOK, OwnsIn, JobOf, NotStarted, Waiting
  <2>2. /\ \A v \in Workers, k \in Jobs : StartedBy(v, k)' => StartedBy(v, k)
        /\ \A v \in Workers, k \in Jobs : SteeredBy(v, k)' => SteeredBy(v, k)
    BY <1>15 DEF TerminateIndeterminate, Rest, TypeOK, StartedBy, SteeredBy, WorkerTable,
        SteerTable, NoWork, NoSteer,
           SteerOff, rowVars, leaseVars, ownerVars, procVars, provVars
  <2> QED BY <1>15, <2>1, <2>2, QuietStep
        DEF TerminateIndeterminate, rowVars, leaseVars, ownerVars, procVars, provVars
<1>16. ASSUME NEW w \in Workers, ScheduleRetry(w)
      PROVE  OneSender' /\ AtMostOnce'
  <2>1. \A k \in Jobs : status'[k] \in NotStarted => status[k] \in NotStarted
    BY <1>16 DEF ScheduleRetry, Leave, TypeOK, OwnsIn, JobOf, NotStarted, Waiting
  <2>2. /\ \A v \in Workers, k \in Jobs : StartedBy(v, k)' => StartedBy(v, k)
        /\ \A v \in Workers, k \in Jobs : SteeredBy(v, k)' => SteeredBy(v, k)
    BY <1>16 DEF ScheduleRetry, Rest, TypeOK, StartedBy, SteeredBy, WorkerTable,
        SteerTable, NoWork, NoSteer,
           SteerOff, rowVars, leaseVars, ownerVars, procVars, provVars
  <2> QED BY <1>16, <2>1, <2>2, QuietStep
        DEF ScheduleRetry, rowVars, leaseVars, ownerVars, procVars, provVars
<1>17. ASSUME NEW w \in Workers, WorkerDrops(w)
      PROVE  OneSender' /\ AtMostOnce'
  <2>1. \A k \in Jobs : status'[k] \in NotStarted => status[k] \in NotStarted
    BY <1>17 DEF WorkerDrops, rowVars, leaseVars, ownerVars, procVars, provVars
  <2>2. /\ \A v \in Workers, k \in Jobs : StartedBy(v, k)' => StartedBy(v, k)
        /\ \A v \in Workers, k \in Jobs : SteeredBy(v, k)' => SteeredBy(v, k)
    BY <1>17 DEF WorkerDrops, SteerDone, TypeOK, StartedBy, SteeredBy, WorkerTable,
        SteerTable, NoWork, NoSteer,
           SteerOff, rowVars, leaseVars, ownerVars, procVars, provVars
  <2> QED BY <1>17, <2>1, <2>2, QuietStep
        DEF WorkerDrops, rowVars, leaseVars, ownerVars, procVars, provVars
<1>18. ASSUME NEW j \in Jobs, LeaseExpires(j)
      PROVE  OneSender' /\ AtMostOnce'
  <2>1. \A k \in Jobs : status'[k] \in NotStarted => status[k] \in NotStarted
    BY <1>18 DEF LeaseExpires, rowVars, leaseVars, ownerVars, procVars, provVars
  <2>2. /\ \A v \in Workers, k \in Jobs : StartedBy(v, k)' => StartedBy(v, k)
        /\ \A v \in Workers, k \in Jobs : SteeredBy(v, k)' => SteeredBy(v, k)
    BY <1>18 DEF LeaseExpires, TypeOK, StartedBy, SteeredBy, rowVars, leaseVars, ownerVars,
        procVars, provVars
  <2> QED BY <1>18, <2>1, <2>2, QuietStep
        DEF LeaseExpires, rowVars, leaseVars, ownerVars, procVars, provVars
<1>19. ASSUME NEW a \in Agents, RecoverStale(a)
      PROVE  OneSender' /\ AtMostOnce'
  <2>1. \A k \in Jobs : status'[k] \in NotStarted => status[k] \in NotStarted
    BY <1>19 DEF RecoverStale, Recovered, Active, TypeOK, NotStarted, Waiting
  <2>2. /\ \A v \in Workers, k \in Jobs : StartedBy(v, k)' => StartedBy(v, k)
        /\ \A v \in Workers, k \in Jobs : SteeredBy(v, k)' => SteeredBy(v, k)
    BY <1>19 DEF RecoverStale, Recovered, Active, TypeOK, StartedBy, SteeredBy, rowVars,
        leaseVars, ownerVars, procVars, provVars
  <2> QED BY <1>19, <2>1, <2>2, QuietStep
        DEF RecoverStale, Recovered, Active, rowVars, leaseVars, ownerVars, procVars,
            provVars
<1>20. ASSUME NEW w \in Workers, NEW j \in Jobs, ClaimStale(w, j)
      PROVE  OneSender' /\ AtMostOnce'
  <2>1. \A k \in Jobs : status'[k] \in NotStarted => status[k] \in NotStarted
    BY <1>20 DEF ClaimStale, rowVars, leaseVars, ownerVars, procVars, provVars
  <2>2. /\ \A v \in Workers, k \in Jobs : StartedBy(v, k)' => StartedBy(v, k)
        /\ \A v \in Workers, k \in Jobs : SteeredBy(v, k)' => SteeredBy(v, k)
    BY <1>20 DEF ClaimStale, TypeOK, StartedBy, SteeredBy, WorkerTable, SteerTable, NoWork,
        NoSteer,
           SteerOff, rowVars, leaseVars, ownerVars, procVars, provVars
  <2> QED BY <1>20, <2>1, <2>2, QuietStep
        DEF ClaimStale, rowVars, leaseVars, ownerVars, procVars, provVars
<1>21. ASSUME NEW j \in Jobs, NEW completed \in BOOLEAN, NEW keep \in BOOLEAN,
             ObserveOutcome(j, completed, keep)
      PROVE  OneSender' /\ AtMostOnce'
  <2>1. \A k \in Jobs : status'[k] \in NotStarted => status[k] \in NotStarted
    BY <1>21 DEF ObserveOutcome, TypeOK, NotStarted, Waiting
  <2>2. /\ \A v \in Workers, k \in Jobs : StartedBy(v, k)' => StartedBy(v, k)
        /\ \A v \in Workers, k \in Jobs : SteeredBy(v, k)' => SteeredBy(v, k)
    BY <1>21 DEF ObserveOutcome, TypeOK, StartedBy, SteeredBy, rowVars, leaseVars,
        ownerVars, procVars, provVars
  <2> QED BY <1>21, <2>1, <2>2, QuietStep
        DEF ObserveOutcome, rowVars, leaseVars, ownerVars, procVars, provVars
<1>22. ASSUME NEW w \in Workers, NEW c \in Jobs, LeaseSteer(w, c)
      PROVE  OneSender' /\ AtMostOnce'
  <2>1. \A k \in Jobs : status'[k] \in NotStarted => status[k] \in NotStarted
    BY <1>22 DEF LeaseSteer, TypeOK, OwnsChild, Child, NotStarted, Waiting
  <2>2. /\ \A v \in Workers, k \in Jobs : StartedBy(v, k)' => StartedBy(v, k)
        /\ \A v \in Workers, k \in Jobs : SteeredBy(v, k)' => SteeredBy(v, k)
    BY <1>22 DEF LeaseSteer, SteerDone, TypeOK, StartedBy, SteeredBy, WorkerTable,
        SteerTable, NoWork, NoSteer,
           SteerOff, rowVars, leaseVars, ownerVars, procVars, provVars
  <2> QED BY <1>22, <2>1, <2>2, QuietStep
        DEF LeaseSteer, rowVars, leaseVars, ownerVars, procVars, provVars
<1>23. ASSUME NEW w \in Workers, StartSteer(w)
      PROVE  OneSender' /\ AtMostOnce'
  <2> DEFINE c == Child(w)
  <2>1. c \in Jobs /\ status[c] = "leased" /\ calls' = calls /\ worker' = worker
    BY <1>23, ChildType DEF StartSteer, OwnsChild, SteerQuiet, provVars
  <2>2. CASE Leave(c, "cancelled") \/ Leave(c, "queued")
    <3>1. \A k \in Jobs : status'[k] \in NotStarted => status[k] \in NotStarted
      BY <2>1, <2>2 DEF Leave, TypeOK, NotStarted, Waiting
    <3>2. \A v \in Workers, k \in Jobs : SteeredBy(v, k)' => SteeredBy(v, k)
      <4>1. steer' = [steer EXCEPT ![w] = NoSteer]
        BY <1>23, <2>1, <2>2 DEF StartSteer, SteerDone, Leave, TypeOK
      <4> QED BY <4>1 DEF SteeredBy, TypeOK, SteerTable, NoSteer
    <3> QED BY <2>1, <3>1, <3>2, QuietStep DEF StartedBy
  <2>3. CASE /\ status' = [status EXCEPT ![c] = "executing"]
             /\ SteerTo(w, "started")
    <3>1. \A v \in Workers, k \in Jobs : SteeredBy(v, k)' =>
          SteeredBy(v, k) \/ (v = w /\ k = c)
      BY <2>1, <2>3 DEF SteerTo, SteeredBy, TypeOK, SteerTable, Child
    <3>2. /\ calls[c] = 0
          /\ \A v \in Workers : ~StartedBy(v, c) /\ ~SteeredBy(v, c)
      BY <2>1 DEF OneSender, NotStarted
    <3>3. \A k \in Jobs : status'[k] \in NotStarted => status[k] \in NotStarted /\ k # c
      BY <2>1, <2>3 DEF TypeOK, NotStarted, Waiting
    <3>4. \A v \in Workers, k \in Jobs : StartedBy(v, k)' <=> StartedBy(v, k)
      BY <2>1 DEF StartedBy
    <3> HIDE DEF c
    <3>5. OneSender'
      BY <2>1, <3>1, <3>2, <3>3, <3>4 DEF OneSender
    <3> QED BY <2>1, <3>5 DEF AtMostOnce
  <2> QED BY <1>23, <2>2, <2>3 DEF StartSteer
<1>24. ASSUME NEW w \in Workers, ReleaseSteer(w)
      PROVE  OneSender' /\ AtMostOnce'
  <2>1. \A k \in Jobs : status'[k] \in NotStarted => status[k] \in NotStarted
    BY <1>24 DEF ReleaseSteer, SteerFails, Leave, TypeOK, OwnsChild, Child, NotStarted, Waiting
  <2>2. /\ \A v \in Workers, k \in Jobs : StartedBy(v, k)' => StartedBy(v, k)
        /\ \A v \in Workers, k \in Jobs : SteeredBy(v, k)' => SteeredBy(v, k)
    BY <1>24 DEF ReleaseSteer, SteerFails, SteerDone, TypeOK, StartedBy, SteeredBy, WorkerTable,
        SteerTable, NoWork, NoSteer,
           SteerOff, rowVars, leaseVars, ownerVars, procVars, provVars
  <2> QED BY <1>24, <2>1, <2>2, QuietStep
        DEF ReleaseSteer, SteerFails, rowVars, leaseVars, ownerVars, procVars, provVars
<1>25. ASSUME NEW w \in Workers, NEW outcome \in {"accepted", "rejected", "unknown"},
             InvokeSteer(w, outcome)
      PROVE  OneSender' /\ AtMostOnce'
  <2> DEFINE c == Child(w)
  <2>1. /\ c \in Jobs /\ SteeredBy(w, c)
        /\ status' = status /\ worker' = worker
        /\ steer' = [steer EXCEPT ![w].ph = outcome]
        /\ calls' = IF outcome = "rejected" THEN calls ELSE [calls EXCEPT ![c] = @ + 1]
    BY <1>25, ChildType DEF InvokeSteer, SteerTo, SteerQuiet, SteeredBy, Child
  <2>2. \A v \in Workers, k \in Jobs :
           SteeredBy(v, k)' => SteeredBy(v, k) /\ (v = w => outcome = "rejected" /\ k = c)
    BY <2>1 DEF SteeredBy, TypeOK, SteerTable, Child
  <2>3. /\ calls[c] = 0 /\ status[c] \notin NotStarted
        /\ \A v \in Workers : ~StartedBy(v, c) /\ (SteeredBy(v, c) => v = w)
    BY <2>1 DEF OneSender
  <2>4. /\ \A k \in Jobs : k # c \/ outcome = "rejected" => calls'[k] = calls[k]
        /\ calls'[c] <= 1
    BY <2>1, <2>3 DEF TypeOK
  <2>5. \A v \in Workers, k \in Jobs : StartedBy(v, k)' <=> StartedBy(v, k)
    BY <2>1 DEF StartedBy
  <2> HIDE DEF c
  <2>6. OneSender'
    BY <2>1, <2>2, <2>3, <2>4, <2>5 DEF OneSender
  <2> QED BY <2>1, <2>4, <2>6 DEF AtMostOnce
<1>26. ASSUME NEW w \in Workers, CompleteSteered(w)
      PROVE  OneSender' /\ AtMostOnce'
  <2>1. \A k \in Jobs : status'[k] \in NotStarted => status[k] \in NotStarted
    BY <1>26 DEF CompleteSteered, Leave, TypeOK, OwnsChild, Child, NotStarted, Waiting
  <2>2. /\ \A v \in Workers, k \in Jobs : StartedBy(v, k)' => StartedBy(v, k)
        /\ \A v \in Workers, k \in Jobs : SteeredBy(v, k)' => SteeredBy(v, k)
    BY <1>26 DEF CompleteSteered, SteerDone, SteerTo, TypeOK, StartedBy, SteeredBy,
        WorkerTable, SteerTable, NoWork, NoSteer,
           SteerOff, rowVars, leaseVars, ownerVars, procVars, provVars
  <2> QED BY <1>26, <2>1, <2>2, QuietStep
        DEF CompleteSteered, rowVars, leaseVars, ownerVars, procVars, provVars
<1>27. ASSUME NEW w \in Workers, RejectSteer(w)
      PROVE  OneSender' /\ AtMostOnce'
  <2> DEFINE c == Child(w)
  <2>1. /\ c \in Jobs /\ SteeredBy(w, c)
        /\ status' = [status EXCEPT ![c] = "queued"]
        /\ worker' = worker /\ calls' = calls
        /\ \/ steer' = [steer EXCEPT ![w] = NoSteer]
           \/ steer' = [steer EXCEPT ![w] = SteerOff]
    BY <1>27, ChildType DEF RejectSteer, Leave, SteerFails, SteerDone, SteerQuiet,
        SteeredBy, Child, provVars
  <2>2. \A v \in Workers, k \in Jobs : SteeredBy(v, k)' => SteeredBy(v, k) /\ v # w
    BY <2>1 DEF SteeredBy, NoSteer, SteerOff, TypeOK, SteerTable
  <2>3. /\ calls[c] = 0
        /\ \A v \in Workers : ~StartedBy(v, c) /\ (SteeredBy(v, c) => v = w)
    BY <2>1 DEF OneSender
  <2>4. \A k \in Jobs : k # c => status'[k] = status[k]
    BY <2>1 DEF TypeOK
  <2>5. \A v \in Workers, k \in Jobs : StartedBy(v, k)' <=> StartedBy(v, k)
    BY <2>1 DEF StartedBy
  <2> HIDE DEF c
  <2>6. OneSender'
    BY <2>1, <2>2, <2>3, <2>4, <2>5 DEF OneSender
  <2> QED BY <2>1, <2>6 DEF AtMostOnce
<1>28. ASSUME NEW w \in Workers, SteerUnknown(w)
      PROVE  OneSender' /\ AtMostOnce'
  <2>1. \A k \in Jobs : status'[k] \in NotStarted => status[k] \in NotStarted
    BY <1>28 DEF SteerUnknown, Leave, TypeOK, OwnsChild, Child, NotStarted, Waiting
  <2>2. /\ \A v \in Workers, k \in Jobs : StartedBy(v, k)' => StartedBy(v, k)
        /\ \A v \in Workers, k \in Jobs : SteeredBy(v, k)' => SteeredBy(v, k)
    BY <1>28 DEF SteerUnknown, SteerFails, SteerDone, TypeOK, StartedBy, SteeredBy,
        WorkerTable, SteerTable, NoWork, NoSteer,
           SteerOff, rowVars, leaseVars, ownerVars, procVars, provVars
  <2> QED BY <1>28, <2>1, <2>2, QuietStep
        DEF SteerUnknown, rowVars, leaseVars, ownerVars, procVars, provVars
<1>29. ASSUME NEW w \in Workers, SteerDrops(w)
      PROVE  OneSender' /\ AtMostOnce'
  <2>1. \A k \in Jobs : status'[k] \in NotStarted => status[k] \in NotStarted
    BY <1>29 DEF SteerDrops, rowVars, leaseVars, ownerVars, procVars, provVars
  <2>2. /\ \A v \in Workers, k \in Jobs : StartedBy(v, k)' => StartedBy(v, k)
        /\ \A v \in Workers, k \in Jobs : SteeredBy(v, k)' => SteeredBy(v, k)
    BY <1>29 DEF SteerDrops, SteerFails, SteerDone, TypeOK, StartedBy, SteeredBy,
        WorkerTable, SteerTable, NoWork, NoSteer,
           SteerOff, rowVars, leaseVars, ownerVars, procVars, provVars
  <2> QED BY <1>29, <2>1, <2>2, QuietStep
        DEF SteerDrops, rowVars, leaseVars, ownerVars, procVars, provVars
<1>30. ASSUME NEW s \in Stops, NEW t \in Topics, RequestStop(s, t)
      PROVE  OneSender' /\ AtMostOnce'
  <2>1. \A k \in Jobs : status'[k] \in NotStarted => status[k] \in NotStarted
    BY <1>30 DEF RequestStop, TypeOK, NotStarted, Waiting
  <2>2. /\ \A v \in Workers, k \in Jobs : StartedBy(v, k)' => StartedBy(v, k)
        /\ \A v \in Workers, k \in Jobs : SteeredBy(v, k)' => SteeredBy(v, k)
    BY <1>30 DEF RequestStop, TypeOK, StartedBy, SteeredBy, rowVars, leaseVars, ownerVars,
        procVars, provVars
  <2> QED BY <1>30, <2>1, <2>2, QuietStep
        DEF RequestStop, rowVars, leaseVars, ownerVars, procVars, provVars
<1>31. ASSUME NEW j \in Jobs, NEW r \in Resolutions, ResolveIndeterminate(j, r)
      PROVE  OneSender' /\ AtMostOnce'
  <2>1. \A k \in Jobs : status'[k] \in NotStarted => status[k] \in NotStarted
    BY <1>31 DEF ResolveIndeterminate, rowVars, leaseVars, ownerVars, procVars, provVars
  <2>2. /\ \A v \in Workers, k \in Jobs : StartedBy(v, k)' => StartedBy(v, k)
        /\ \A v \in Workers, k \in Jobs : SteeredBy(v, k)' => SteeredBy(v, k)
    BY <1>31 DEF ResolveIndeterminate, TypeOK, StartedBy, SteeredBy, rowVars, leaseVars,
        ownerVars, procVars, provVars
  <2> QED BY <1>31, <2>1, <2>2, QuietStep
        DEF ResolveIndeterminate, rowVars, leaseVars, ownerVars, procVars, provVars
<1>32. ASSUME MaterializeHeld
      PROVE  OneSender' /\ AtMostOnce'
  <2>1. \A k \in Jobs : status'[k] \in NotStarted => status[k] \in NotStarted
    BY <1>32 DEF MaterializeHeld, rowVars, leaseVars, ownerVars, procVars, provVars
  <2>2. /\ \A v \in Workers, k \in Jobs : StartedBy(v, k)' => StartedBy(v, k)
        /\ \A v \in Workers, k \in Jobs : SteeredBy(v, k)' => SteeredBy(v, k)
    BY <1>32 DEF MaterializeHeld, TypeOK, StartedBy, SteeredBy, rowVars, leaseVars,
        ownerVars, procVars, provVars
  <2> QED BY <1>32, <2>1, <2>2, QuietStep
        DEF MaterializeHeld, rowVars, leaseVars, ownerVars, procVars, provVars
<1>33. ASSUME NEW j \in Jobs, NEW decision \in {"confirmed", "cancelled"},
             DecideHeld(j, decision)
      PROVE  OneSender' /\ AtMostOnce'
  <2>1. \A k \in Jobs : status'[k] \in NotStarted => status[k] \in NotStarted
    BY <1>33 DEF DecideHeld, TypeOK, NotStarted, Waiting
  <2>2. /\ \A v \in Workers, k \in Jobs : StartedBy(v, k)' => StartedBy(v, k)
        /\ \A v \in Workers, k \in Jobs : SteeredBy(v, k)' => SteeredBy(v, k)
    BY <1>33 DEF DecideHeld, TypeOK, StartedBy, SteeredBy, rowVars, leaseVars, ownerVars,
        procVars, provVars
  <2> QED BY <1>33, <2>1, <2>2, QuietStep
        DEF DecideHeld, rowVars, leaseVars, ownerVars, procVars, provVars
<1>34. ASSUME NEW t \in Topics, TakeLocalWriter(t)
      PROVE  OneSender' /\ AtMostOnce'
  <2>1. \A k \in Jobs : status'[k] \in NotStarted => status[k] \in NotStarted
    BY <1>34 DEF TakeLocalWriter, rowVars, leaseVars, ownerVars, procVars, provVars
  <2>2. /\ \A v \in Workers, k \in Jobs : StartedBy(v, k)' => StartedBy(v, k)
        /\ \A v \in Workers, k \in Jobs : SteeredBy(v, k)' => SteeredBy(v, k)
    BY <1>34 DEF TakeLocalWriter, TypeOK, StartedBy, SteeredBy, rowVars, leaseVars,
        ownerVars, procVars, provVars
  <2> QED BY <1>34, <2>1, <2>2, QuietStep
        DEF TakeLocalWriter, rowVars, leaseVars, ownerVars, procVars, provVars
<1>35. ASSUME NEW t \in Topics, ReturnLocalWriter(t)
      PROVE  OneSender' /\ AtMostOnce'
  <2>1. \A k \in Jobs : status'[k] \in NotStarted => status[k] \in NotStarted
    BY <1>35 DEF ReturnLocalWriter, rowVars, leaseVars, ownerVars, procVars, provVars
  <2>2. /\ \A v \in Workers, k \in Jobs : StartedBy(v, k)' => StartedBy(v, k)
        /\ \A v \in Workers, k \in Jobs : SteeredBy(v, k)' => SteeredBy(v, k)
    BY <1>35 DEF ReturnLocalWriter, TypeOK, StartedBy, SteeredBy, rowVars, leaseVars,
        ownerVars, procVars, provVars
  <2> QED BY <1>35, <2>1, <2>2, QuietStep
        DEF ReturnLocalWriter, rowVars, leaseVars, ownerVars, procVars, provVars
<1>36. ASSUME NEW j \in Jobs, NEW st \in {"completed", "failed"}, SettleDelivery(j, st)
      PROVE  OneSender' /\ AtMostOnce'
  <2>1. \A k \in Jobs : status'[k] \in NotStarted => status[k] \in NotStarted
    BY <1>36 DEF SettleDelivery, TypeOK, NotStarted, Waiting
  <2>2. /\ \A v \in Workers, k \in Jobs : StartedBy(v, k)' => StartedBy(v, k)
        /\ \A v \in Workers, k \in Jobs : SteeredBy(v, k)' => SteeredBy(v, k)
    BY <1>36 DEF SettleDelivery, TypeOK, StartedBy, SteeredBy, rowVars, leaseVars,
        ownerVars, procVars, provVars
  <2> QED BY <1>36, <2>1, <2>2, QuietStep
        DEF SettleDelivery, rowVars, leaseVars, ownerVars, procVars, provVars
<1>37. ASSUME NEW j \in Jobs, NEW how \in {"released", "reconciled"}, ParkDelivery(j, how)
      PROVE  OneSender' /\ AtMostOnce'
  <2>1. \A k \in Jobs : status'[k] \in NotStarted => status[k] \in NotStarted
    BY <1>37 DEF ParkDelivery, rowVars, leaseVars, ownerVars, procVars, provVars
  <2>2. /\ \A v \in Workers, k \in Jobs : StartedBy(v, k)' => StartedBy(v, k)
        /\ \A v \in Workers, k \in Jobs : SteeredBy(v, k)' => SteeredBy(v, k)
    BY <1>37 DEF ParkDelivery, TypeOK, StartedBy, SteeredBy, rowVars, leaseVars, ownerVars,
        procVars, provVars
  <2> QED BY <1>37, <2>1, <2>2, QuietStep
        DEF ParkDelivery, rowVars, leaseVars, ownerVars, procVars, provVars
<1>38. CASE UNCHANGED vars
      BY <1>38 DEF OneSender, AtMostOnce, StartedBy, SteeredBy, vars, rowVars, leaseVars,
          ownerVars, procVars, provVars
<1> QED BY <1>1, <1>2, <1>3, <1>4, <1>5, <1>6, <1>7, <1>8, <1>9, <1>10, <1>11, <1>12,
      <1>13, <1>14, <1>15, <1>16, <1>17, <1>18, <1>19, <1>20, <1>21, <1>22, <1>23, <1>24,
            <1>25, <1>26, <1>27, <1>28, <1>29, <1>30, <1>31, <1>32, <1>33, <1>34, <1>35,
                  <1>36, <1>37, <1>38
    DEF Next, Admission, Acquire, WorkerStep, SteerStep, World, Owner

\* Nothing is sent before a job exists.
LEMMA InitOneSender == Init => OneSender /\ AtMostOnce
BY DEF Init, OneSender, AtMostOnce, StartedBy, SteeredBy, NoWork, NoSteer

\* For any number of jobs and workers, and whatever leases expire, workers
\* crash, recoveries run or messages are steered, a provider is given the input
\* of a job at most once.
THEOREM ProviderCalledAtMostOnce == Spec => []AtMostOnce
<1>1. Init => TypeOK /\ OneSender /\ AtMostOnce
      BY InitType, InitOneSender
<1>2. (TypeOK /\ OneSender /\ AtMostOnce) /\ [Next]_vars => (TypeOK /\ OneSender /\ AtMostOnce)'
      BY StepType, StepOneSender
<1> QED BY <1>1, <1>2, PTL DEF Spec

-----------------------------------------------------------------------------
(* One turn per execution scope.                                             *)

\* A step after which nothing new occupies a root keeps roots exclusive.
LEMMA NoNewOccupant ==
    ASSUME RootExclusion,
           \A j \in Jobs : Occupies(j)' =>
               Occupies(j) /\ topic'[j] = topic[j] /\ binding'[j] = binding[j]
    PROVE  RootExclusion'
BY DEF RootExclusion, Scope

\* No action lets a second turn into a scope.
LEMMA StepRootExclusion == TypeOK /\ RootExclusion /\ [Next]_vars => RootExclusion'
<1> SUFFICES ASSUME TypeOK, RootExclusion, [Next]_vars
             PROVE  RootExclusion'
    OBVIOUS
<1>1. ASSUME NEW j \in Jobs, NEW t \in Topics, NEW b \in Bindings,
             NEW now \in AvailableNow, Enqueue(j, t, b, now)
      PROVE  RootExclusion'
    BY <1>1, NoNewOccupant
    DEF Enqueue, Insert, Occupies, TypeOK, LeaseTable, Free, rowVars, leaseVars, ownerVars,
        procVars, provVars
<1>2. ASSUME NEW j \in Jobs, NEW t \in Topics, NEW b \in Bindings, EnqueueTakeover(j, t, b)
      PROVE  RootExclusion'
    BY <1>2, NoNewOccupant
    DEF EnqueueTakeover, Insert, Occupies, TypeOK, LeaseTable, Free, rowVars, leaseVars,
        ownerVars, procVars, provVars
<1>3. ASSUME NEW src \in Jobs, NEW j \in Jobs, Continue(src, j)
      PROVE  RootExclusion'
    BY <1>3, NoNewOccupant
    DEF Continue, Insert, Occupies, TypeOK, LeaseTable, Free, rowVars, leaseVars,
        ownerVars, procVars, provVars
<1>4. ASSUME NEW j \in Jobs, BecomeDue(j)
      PROVE  RootExclusion'
    BY <1>4, NoNewOccupant
    DEF BecomeDue, Occupies, TypeOK, LeaseTable, rowVars, leaseVars, ownerVars, procVars,
        provVars
<1>5. ASSUME NEW j \in Jobs, Cancel(j)
      PROVE  RootExclusion'
    BY <1>5, NoNewOccupant
    DEF Cancel, Occupies, TypeOK, LeaseTable, Waiting, rowVars, leaseVars, ownerVars,
        procVars, provVars
<1>6. ASSUME NEW w \in Workers, NEW j \in Jobs, Lease(w, j)
      PROVE  RootExclusion'
  <2>1. /\ status' = [status EXCEPT ![j] = "leased"]
        /\ \A k \in Jobs : k # j => lease'[k] = lease[k]
        /\ topic' = topic /\ binding' = binding
    BY <1>6 DEF Lease, TypeOK, LeaseTable, rowVars
  <2>2. \A k \in Jobs : Occupies(k)' => Occupies(k) \/ k = j
    BY <2>1 DEF Occupies, TypeOK
  <2>3. \A k \in Jobs : Occupies(k) /\ k # j => Scope(k) # Scope(j)
    BY <1>6 DEF Lease, Eligible, RootBusy, Occupies, Exists
  <2> QED BY <2>1, <2>2, <2>3 DEF RootExclusion, Scope
<1>7. ASSUME NEW w \in Workers, ReleaseLease(w)
      PROVE  RootExclusion'
    BY <1>7, NoNewOccupant
    DEF ReleaseLease, Leave, Occupies, TypeOK, LeaseTable, OwnsIn, NoLease, rowVars,
        leaseVars, ownerVars, procVars, provVars
<1>8. ASSUME NEW w \in Workers, MarkExecuting(w)
      PROVE  RootExclusion'
    BY <1>8, NoNewOccupant
    DEF MarkExecuting, Leave, Occupies, TypeOK, LeaseTable, OwnsIn, NoLease, rowVars,
        leaseVars, ownerVars, procVars, provVars
<1>9. ASSUME NEW w \in Workers, NEW accepted \in BOOLEAN, CallProvider(w, accepted)
      PROVE  RootExclusion'
    BY <1>9, NoNewOccupant
    DEF CallProvider, Occupies, TypeOK, LeaseTable, rowVars, leaseVars, ownerVars,
        procVars, provVars
<1>10. ASSUME NEW w \in Workers, RecordTurn(w)
      PROVE  RootExclusion'
    BY <1>10, NoNewOccupant
    DEF RecordTurn, Occupies, TypeOK, LeaseTable, rowVars, leaseVars, ownerVars, procVars,
        provVars
<1>11. ASSUME NEW j \in Jobs, TurnEnds(j)
      PROVE  RootExclusion'
    BY <1>11, NoNewOccupant
    DEF TurnEnds, Occupies, TypeOK, LeaseTable, rowVars, leaseVars, ownerVars, procVars,
        provVars
<1>12. ASSUME NEW w \in Workers, CommitResult(w)
      PROVE  RootExclusion'
    BY <1>12, NoNewOccupant
    DEF CommitResult, Leave, Occupies, TypeOK, LeaseTable, OwnsIn, NoLease, rowVars,
        leaseVars, ownerVars, procVars, provVars
<1>13. ASSUME NEW w \in Workers, CancelActive(w)
      PROVE  RootExclusion'
    BY <1>13, NoNewOccupant
    DEF CancelActive, Leave, Occupies, TypeOK, LeaseTable, OwnsIn, NoLease, rowVars,
        leaseVars, ownerVars, procVars, provVars
<1>14. ASSUME NEW w \in Workers, TerminateFailed(w)
      PROVE  RootExclusion'
    BY <1>14, NoNewOccupant
    DEF TerminateFailed, Leave, Occupies, TypeOK, LeaseTable, OwnsIn, NoLease, rowVars,
        leaseVars, ownerVars, procVars, provVars
<1>15. ASSUME NEW w \in Workers, NEW proof \in BOOLEAN, TerminateIndeterminate(w, proof)
      PROVE  RootExclusion'
    BY <1>15, NoNewOccupant
    DEF TerminateIndeterminate, Leave, Occupies, TypeOK, LeaseTable, OwnsIn, NoLease,
        rowVars, leaseVars, ownerVars, procVars, provVars
<1>16. ASSUME NEW w \in Workers, ScheduleRetry(w)
      PROVE  RootExclusion'
    BY <1>16, NoNewOccupant
    DEF ScheduleRetry, Leave, Occupies, TypeOK, LeaseTable, OwnsIn, NoLease, rowVars,
        leaseVars, ownerVars, procVars, provVars
<1>17. ASSUME NEW w \in Workers, WorkerDrops(w)
      PROVE  RootExclusion'
    BY <1>17, NoNewOccupant
    DEF WorkerDrops, Occupies, TypeOK, LeaseTable, OwnsIn, rowVars, leaseVars, ownerVars,
        procVars, provVars
<1>18. ASSUME NEW j \in Jobs, LeaseExpires(j)
      PROVE  RootExclusion'
    BY <1>18, NoNewOccupant
    DEF LeaseExpires, Occupies, TypeOK, LeaseTable, rowVars, leaseVars, ownerVars,
        procVars, provVars
<1>19. ASSUME NEW a \in Agents, RecoverStale(a)
      PROVE  RootExclusion'
    BY <1>19, NoNewOccupant
    DEF RecoverStale, Recovered, Active, Occupies, TypeOK, LeaseTable, NoLease, rowVars,
        leaseVars, ownerVars, procVars, provVars
<1>20. ASSUME NEW w \in Workers, NEW j \in Jobs, ClaimStale(w, j)
      PROVE  RootExclusion'
    BY <1>20, NoNewOccupant
    DEF ClaimStale, Occupies, TypeOK, LeaseTable, rowVars, leaseVars, ownerVars, procVars,
        provVars
<1>21. ASSUME NEW j \in Jobs, NEW completed \in BOOLEAN, NEW keep \in BOOLEAN,
             ObserveOutcome(j, completed, keep)
      PROVE  RootExclusion'
    BY <1>21, NoNewOccupant
    DEF ObserveOutcome, Occupies, TypeOK, LeaseTable, rowVars, leaseVars, ownerVars,
        procVars, provVars
<1>22. ASSUME NEW w \in Workers, NEW c \in Jobs, LeaseSteer(w, c)
      PROVE  RootExclusion'
  <2> DEFINE p == JobOf(w)
  <2>1. /\ status' = [status EXCEPT ![c] = "leased"]
        /\ \A k \in Jobs : k # c => lease'[k] = lease[k]
        /\ topic' = topic /\ binding' = binding
        /\ p \in Jobs /\ status[p] = "executing"
        /\ topic[c] = topic[p] /\ binding[c] = binding[p]
    BY <1>22, WorkType DEF LeaseSteer, TypeOK, LeaseTable, rowVars
  <2>2. \A k \in Jobs : Occupies(k)' => Occupies(k) \/ k = c
    BY <2>1 DEF Occupies, TypeOK
  <2>3. \A k \in Jobs : Occupies(k) /\ Scope(k) = Scope(c)
                           => topic[k] = topic[c] /\ binding[k] = binding[c]
    BY <2>1 DEF RootExclusion, Occupies, Scope
  <2> HIDE DEF p
  <2> QED BY <2>1, <2>2, <2>3 DEF RootExclusion, Scope
<1>23. ASSUME NEW w \in Workers, StartSteer(w)
      PROVE  RootExclusion'
    BY <1>23, NoNewOccupant
    DEF StartSteer, Leave, Occupies, TypeOK, LeaseTable, OwnsChild, NoLease, rowVars,
        leaseVars, ownerVars, procVars, provVars
<1>24. ASSUME NEW w \in Workers, ReleaseSteer(w)
      PROVE  RootExclusion'
    BY <1>24, NoNewOccupant
    DEF ReleaseSteer, SteerFails, Leave, Occupies, TypeOK, LeaseTable, OwnsChild, NoLease, rowVars,
        leaseVars, ownerVars, procVars, provVars
<1>25. ASSUME NEW w \in Workers, NEW outcome \in {"accepted", "rejected", "unknown"},
             InvokeSteer(w, outcome)
      PROVE  RootExclusion'
    BY <1>25, NoNewOccupant
    DEF InvokeSteer, Occupies, TypeOK, LeaseTable, OwnsChild, rowVars, leaseVars,
        ownerVars, procVars, provVars
<1>26. ASSUME NEW w \in Workers, CompleteSteered(w)
      PROVE  RootExclusion'
    BY <1>26, NoNewOccupant
    DEF CompleteSteered, Leave, Occupies, TypeOK, LeaseTable, OwnsChild, NoLease, rowVars,
        leaseVars, ownerVars, procVars, provVars
<1>27. ASSUME NEW w \in Workers, RejectSteer(w)
      PROVE  RootExclusion'
    BY <1>27, NoNewOccupant
    DEF RejectSteer, Leave, Occupies, TypeOK, LeaseTable, OwnsChild, NoLease, rowVars,
        leaseVars, ownerVars, procVars, provVars
<1>28. ASSUME NEW w \in Workers, SteerUnknown(w)
      PROVE  RootExclusion'
    BY <1>28, NoNewOccupant
    DEF SteerUnknown, Leave, Occupies, TypeOK, LeaseTable, OwnsChild, NoLease, rowVars,
        leaseVars, ownerVars, procVars, provVars
<1>29. ASSUME NEW w \in Workers, SteerDrops(w)
      PROVE  RootExclusion'
    BY <1>29, NoNewOccupant
    DEF SteerDrops, Occupies, TypeOK, LeaseTable, OwnsChild, rowVars, leaseVars, ownerVars,
        procVars, provVars
<1>30. ASSUME NEW s \in Stops, NEW t \in Topics, RequestStop(s, t)
      PROVE  RootExclusion'
    BY <1>30, NoNewOccupant
    DEF RequestStop, Occupies, TypeOK, LeaseTable, Waiting, rowVars, leaseVars, ownerVars,
        procVars, provVars
<1>31. ASSUME NEW j \in Jobs, NEW r \in Resolutions, ResolveIndeterminate(j, r)
      PROVE  RootExclusion'
    BY <1>31, NoNewOccupant
    DEF ResolveIndeterminate, Occupies, TypeOK, LeaseTable, rowVars, leaseVars, ownerVars,
        procVars, provVars
<1>32. ASSUME MaterializeHeld
      PROVE  RootExclusion'
    BY <1>32, NoNewOccupant
    DEF MaterializeHeld, Occupies, TypeOK, LeaseTable, rowVars, leaseVars, ownerVars,
        procVars, provVars
<1>33. ASSUME NEW j \in Jobs, NEW decision \in {"confirmed", "cancelled"},
             DecideHeld(j, decision)
      PROVE  RootExclusion'
    BY <1>33, NoNewOccupant
    DEF DecideHeld, Occupies, TypeOK, LeaseTable, Waiting, rowVars, leaseVars, ownerVars,
        procVars, provVars
<1>34. ASSUME NEW t \in Topics, TakeLocalWriter(t)
      PROVE  RootExclusion'
    BY <1>34, NoNewOccupant
    DEF TakeLocalWriter, Occupies, TypeOK, LeaseTable, rowVars, leaseVars, ownerVars,
        procVars, provVars
<1>35. ASSUME NEW t \in Topics, ReturnLocalWriter(t)
      PROVE  RootExclusion'
    BY <1>35, NoNewOccupant
    DEF ReturnLocalWriter, Occupies, TypeOK, LeaseTable, rowVars, leaseVars, ownerVars,
        procVars, provVars
<1>36. ASSUME NEW j \in Jobs, NEW st \in {"completed", "failed"}, SettleDelivery(j, st)
      PROVE  RootExclusion'
    BY <1>36, NoNewOccupant
    DEF SettleDelivery, Occupies, TypeOK, LeaseTable, rowVars, leaseVars, ownerVars,
        procVars, provVars
<1>37. ASSUME NEW j \in Jobs, NEW how \in {"released", "reconciled"}, ParkDelivery(j, how)
      PROVE  RootExclusion'
    BY <1>37, NoNewOccupant
    DEF ParkDelivery, Occupies, TypeOK, LeaseTable, rowVars, leaseVars, ownerVars,
        procVars, provVars
<1>38. CASE UNCHANGED vars
      BY <1>38 DEF RootExclusion, Occupies, Scope, vars, rowVars, leaseVars, ownerVars,
          procVars, provVars
<1> QED BY <1>1, <1>2, <1>3, <1>4, <1>5, <1>6, <1>7, <1>8, <1>9, <1>10, <1>11, <1>12,
      <1>13, <1>14, <1>15, <1>16, <1>17, <1>18, <1>19, <1>20, <1>21, <1>22, <1>23, <1>24,
            <1>25, <1>26, <1>27, <1>28, <1>29, <1>30, <1>31, <1>32, <1>33, <1>34, <1>35,
                  <1>36, <1>37, <1>38
    DEF Next, Admission, Acquire, WorkerStep, SteerStep, World, Owner

\* For any number of jobs, workers and agents, two jobs occupy one execution
\* scope only as a turn and a message steered into that same session's turn.
THEOREM RootIsExclusive == Spec => []RootExclusion
<1>1. Init => TypeOK /\ RootExclusion
      BY InitType DEF Init, RootExclusion, Occupies
<1>2. (TypeOK /\ RootExclusion) /\ [Next]_vars => (TypeOK /\ RootExclusion)'
      BY StepType, StepRootExclusion
<1> QED BY <1>1, <1>2, PTL DEF Spec

-----------------------------------------------------------------------------
(* The emergency stops: a stop is pending exactly as long as work it covers  *)
(* is unfinished, and so covered work neither starts nor publishes.          *)

\* Work that is unfinished now.
Open(j) == Unfinished(j, status, evidence, resolution)

-----------------------------------------------------------------------------
(* Two ways for a step to keep the stops exact.                              *)

\* The step leaves the stops alone and finishes or reopens nothing they cover.
LEMMA StopsUntouched ==
    ASSUME CoverIsStable, StopTracksWork, stop' = stop,
           \A j \in Jobs : Exists(j) => Exists(j)' /\ topic'[j] = topic[j],
           \A s \in Stops, j \in Jobs : j \in stop[s].covered => (Open(j)' <=> Open(j))
    PROVE  CoverIsStable' /\ StopTracksWork'
<1>1. CoverIsStable'
      BY DEF CoverIsStable
<1>2. \A s \in Stops : stop[s].covered \subseteq Jobs
      BY DEF CoverIsStable
<1>3. StopTracksWork'
      BY <1>2 DEF StopTracksWork, Open
<1> QED BY <1>1, <1>3

\* The step reopens nothing and completes the finished stops of every topic in
\* which it finished something.
LEMMA StopsCompleted ==
    ASSUME TypeOK, CoverIsStable, StopTracksWork, NEW ts,
           stop' = CompleteStops(stop, ts, status', evidence', resolution'),
           \A j \in Jobs : Exists(j) => Exists(j)' /\ topic'[j] = topic[j],
           \A j \in Jobs : Exists(j) /\ Open(j)' => Open(j),
           \A j \in Jobs : Open(j) /\ ~Open(j)' => topic[j] \in ts
    PROVE  CoverIsStable' /\ StopTracksWork'
<1>1. ASSUME NEW s \in Stops
      PROVE  /\ stop'[s].topic = stop[s].topic /\ stop'[s].covered = stop[s].covered
             /\ stop'[s].state = IF /\ stop[s].state = "pending"
                                    /\ stop[s].topic \in ts
                                    /\ \A j \in stop[s].covered : ~Open(j)'
                                 THEN "completed" ELSE stop[s].state
      BY DEF CompleteStops, Open, TypeOK, StopTable
<1>2. CoverIsStable'
      BY <1>1 DEF CoverIsStable
<1>3. ASSUME NEW s \in Stops, stop'[s].state # "absent"
      PROVE  stop'[s].state = "pending" <=> \E j \in stop'[s].covered : Open(j)'
  <2>1. stop[s].state # "absent"
    BY <1>1, <1>3
  <2>2. stop[s].state = "pending" <=> \E j \in stop[s].covered : Open(j)
    BY <2>1 DEF StopTracksWork, Open
  <2>3. \A j \in stop[s].covered : j \in Jobs /\ Exists(j) /\ topic[j] = stop[s].topic
    BY DEF CoverIsStable
  <2>4. CASE \A j \in stop[s].covered : ~Open(j)'
    BY <1>1, <2>2, <2>3, <2>4
  <2>5. CASE \E j \in stop[s].covered : Open(j)'
    BY <1>1, <2>2, <2>3, <2>5
  <2> QED BY <2>4, <2>5
<1>4. StopTracksWork'
      BY <1>3 DEF StopTracksWork, Open
<1> QED BY <1>2, <1>4

\* Open work changes status, and the finished stops of its topic are completed.
LEMMA ChangeCompletes ==
    ASSUME TypeOK, CoverIsStable, StopTracksWork, NEW j \in Jobs, NEW st,
           status[j] \in Waiting \cup Active, st # "absent",
           status' = [status EXCEPT ![j] = st],
           topic' = topic, evidence' = evidence, resolution' = resolution,
           stop' = CompleteStops(stop, {topic[j]}, status', evidence', resolution')
    PROVE  CoverIsStable' /\ StopTracksWork'
<1>1. \A k \in Jobs : k # j => status'[k] = status[k] /\ (Open(k)' <=> Open(k))
      BY DEF TypeOK, Open, Unfinished
<1>2. Open(j) /\ Exists(j)'
      BY DEF TypeOK, Open, Unfinished, Exists
<1>3. \A k \in Jobs : /\ Exists(k) => Exists(k)' /\ topic'[k] = topic[k]
                      /\ Exists(k) /\ Open(k)' => Open(k)
                      /\ Open(k) /\ ~Open(k)' => topic[k] \in {topic[j]}
      BY <1>1, <1>2 DEF Exists
<1> QED BY <1>3, StopsCompleted

\* Open work changes status and stays open; the stops are left alone.
LEMMA ChangeStaysOpen ==
    ASSUME TypeOK, CoverIsStable, StopTracksWork, NEW j \in Jobs,
        NEW st \in Waiting \cup Active,
           status[j] \in Waiting \cup Active,
           status' = [status EXCEPT ![j] = st],
           topic' = topic, evidence' = evidence, resolution' = resolution, stop' = stop
    PROVE  CoverIsStable' /\ StopTracksWork'
<1>1. \A k \in Jobs : k # j => status'[k] = status[k] /\ (Open(k)' <=> Open(k))
      BY DEF TypeOK, Open, Unfinished
<1>2. Open(j) /\ Open(j)' /\ Exists(j)'
      BY DEF TypeOK, Open, Unfinished, Exists, Waiting, Active
<1>3. \A k \in Jobs : /\ Exists(k) => Exists(k)' /\ topic'[k] = topic[k]
                      /\ Open(k)' <=> Open(k)
      BY <1>1, <1>2 DEF Exists
<1> QED BY <1>3, StopsUntouched

\* An unfinished job that no pending stop covers is covered by no stop at all.
LEMMA NotCovered ==
    ASSUME TypeOK, CoverIsStable, StopTracksWork, NEW j \in Jobs, Open(j), ~PendingStop(j),
           NEW s \in Stops
    PROVE  j \notin stop[s].covered
<1>1. stop[s].state = "absent" => stop[s].covered = {}
      BY DEF CoverIsStable
<1> QED BY <1>1 DEF StopTracksWork, Open, PendingStop

\* Every action keeps the stops exact.
LEMMA StepStops ==
    TypeOK /\ CoverIsStable /\ StopTracksWork /\ [Next]_vars => CoverIsStable' /\ StopTracksWork'
<1> SUFFICES ASSUME TypeOK, CoverIsStable, StopTracksWork, [Next]_vars
             PROVE  CoverIsStable' /\ StopTracksWork'
    OBVIOUS
<1>1. ASSUME NEW j \in Jobs, NEW t \in Topics, NEW b \in Bindings,
             NEW now \in AvailableNow, Enqueue(j, t, b, now)
      PROVE  CoverIsStable' /\ StopTracksWork'
    BY <1>1, StopsUntouched DEF Enqueue, Insert, Free, CoverIsStable, Open, Unfinished,
        Exists, TypeOK, rowVars, leaseVars, ownerVars, procVars, provVars
<1>2. ASSUME NEW j \in Jobs, NEW t \in Topics, NEW b \in Bindings, EnqueueTakeover(j, t, b)
      PROVE  CoverIsStable' /\ StopTracksWork'
    BY <1>2, StopsUntouched DEF EnqueueTakeover, Insert, Free, CoverIsStable, Open,
        Unfinished, Exists, TypeOK, rowVars, leaseVars, ownerVars, procVars, provVars
<1>3. ASSUME NEW src \in Jobs, NEW j \in Jobs, Continue(src, j)
      PROVE  CoverIsStable' /\ StopTracksWork'
    BY <1>3, StopsUntouched DEF Continue, Insert, Free, CoverIsStable, Open, Unfinished,
        Exists, TypeOK, rowVars, leaseVars, ownerVars, procVars, provVars
<1>4. ASSUME NEW j \in Jobs, BecomeDue(j)
      PROVE  CoverIsStable' /\ StopTracksWork'
    BY <1>4, StopsUntouched DEF BecomeDue, Open, Unfinished, Exists, rowVars, leaseVars,
        ownerVars, procVars, provVars
<1>5. ASSUME NEW j \in Jobs, Cancel(j)
      PROVE  CoverIsStable' /\ StopTracksWork'
  <2>1. topic' = topic /\ evidence' = evidence /\ resolution' = resolution
    BY <1>5 DEF Cancel, rowVars, ownerVars
  <2> QED BY <1>5, <2>1, ChangeCompletes DEF Cancel
<1>6. ASSUME NEW w \in Workers, NEW j \in Jobs, Lease(w, j)
      PROVE  CoverIsStable' /\ StopTracksWork'
    BY <1>6, StopsUntouched
    DEF Lease, Eligible, Open, Unfinished, Exists, TypeOK, Waiting, Active, rowVars,
        leaseVars, ownerVars, procVars, provVars
<1>7. ASSUME NEW w \in Workers, ReleaseLease(w)
      PROVE  CoverIsStable' /\ StopTracksWork'
    BY <1>7, StopsUntouched
    DEF ReleaseLease, Leave, OwnsIn, Open, Unfinished, Exists, TypeOK, Waiting, Active,
        rowVars, leaseVars, ownerVars, procVars, provVars
<1>8. ASSUME NEW w \in Workers, MarkExecuting(w)
      PROVE  CoverIsStable' /\ StopTracksWork'
  <2>1. /\ JobOf(w) \in Jobs /\ status[JobOf(w)] = "leased"
        /\ topic' = topic /\ evidence' = evidence /\ resolution' = resolution
    BY <1>8, WorkType DEF MarkExecuting, OwnsIn, rowVars, ownerVars
  <2>2. CASE PendingStop(JobOf(w))
    BY <1>8, <2>1, <2>2, ChangeCompletes DEF MarkExecuting, Leave, Active
  <2>3. CASE ~PendingStop(JobOf(w))
    BY <1>8, <2>1, <2>3, ChangeStaysOpen DEF MarkExecuting, Active
  <2> QED BY <2>2, <2>3
<1>9. ASSUME NEW w \in Workers, NEW accepted \in BOOLEAN, CallProvider(w, accepted)
      PROVE  CoverIsStable' /\ StopTracksWork'
    BY <1>9, StopsUntouched DEF CallProvider, Open, Unfinished, Exists, rowVars, leaseVars,
        ownerVars, procVars, provVars
<1>10. ASSUME NEW w \in Workers, RecordTurn(w)
      PROVE  CoverIsStable' /\ StopTracksWork'
    BY <1>10, StopsUntouched DEF RecordTurn, Open, Unfinished, Exists, rowVars, leaseVars,
        ownerVars, procVars, provVars
<1>11. ASSUME NEW j \in Jobs, TurnEnds(j)
      PROVE  CoverIsStable' /\ StopTracksWork'
    BY <1>11, StopsUntouched DEF TurnEnds, Open, Unfinished, Exists, rowVars, leaseVars,
        ownerVars, procVars, provVars
<1>12. ASSUME NEW w \in Workers, CommitResult(w)
      PROVE  CoverIsStable' /\ StopTracksWork'
  <2> DEFINE j == JobOf(w)
  <2>1. j \in Jobs /\ status[j] = "executing" /\ topic' = topic
    BY <1>12, WorkType DEF CommitResult, OwnsIn, rowVars
  <2>2. CASE PendingStop(j)
    BY <1>12, <2>1, <2>2, ChangeCompletes DEF CommitResult, Leave, Active, ownerVars
  <2>3. CASE ~PendingStop(j)
    <3>1. \A s \in Stops : j \notin stop[s].covered
      BY <2>1, <2>3, NotCovered DEF Open, Unfinished, Active
    <3>2. \A k \in Jobs : k # j => status'[k] = status[k]
      BY <1>12, <2>1, <2>3 DEF CommitResult, Leave, TypeOK
    <3>3. \A k \in Jobs : Exists(k) => Exists(k)'
      BY <1>12, <2>1, <2>3 DEF CommitResult, Leave, TypeOK, Exists
    <3>4. stop' = stop /\ evidence' = evidence /\ resolution' = resolution
      BY <1>12, <2>3 DEF CommitResult, ownerVars
    <3>5. \A k \in Jobs : k # j => (Open(k)' <=> Open(k))
      BY <3>2, <3>4 DEF Open, Unfinished
    <3> HIDE DEF j
    <3> QED BY <2>1, <3>1, <3>3, <3>4, <3>5, StopsUntouched
  <2> QED BY <2>2, <2>3
<1>13. ASSUME NEW w \in Workers, CancelActive(w)
      PROVE  CoverIsStable' /\ StopTracksWork'
  <2>1. /\ JobOf(w) \in Jobs /\ status[JobOf(w)] \in Active
        /\ topic' = topic /\ evidence' = evidence /\ resolution' = resolution
    BY <1>13, WorkType DEF CancelActive, OwnsIn, Active, rowVars, ownerVars
  <2>2. PICK st \in Status : st # "absent" /\ status' = [status EXCEPT ![JobOf(w)] = st]
    BY <1>13 DEF CancelActive, Leave, Status, Settled
  <2>3. stop' = CompleteStops(stop, {topic[JobOf(w)]}, status', evidence', resolution')
    BY <1>13, <2>1 DEF CancelActive
  <2> QED BY <2>1, <2>2, <2>3, ChangeCompletes
<1>14. ASSUME NEW w \in Workers, TerminateFailed(w)
      PROVE  CoverIsStable' /\ StopTracksWork'
  <2>1. /\ JobOf(w) \in Jobs /\ status[JobOf(w)] \in Active
        /\ topic' = topic /\ evidence' = evidence /\ resolution' = resolution
    BY <1>14, WorkType DEF TerminateFailed, OwnsIn, Active, rowVars, ownerVars
  <2>2. PICK st \in Status : st # "absent" /\ status' = [status EXCEPT ![JobOf(w)] = st]
    BY <1>14 DEF TerminateFailed, Leave, Status, Settled
  <2>3. stop' = CompleteStops(stop, {topic[JobOf(w)]}, status', evidence', resolution')
    BY <1>14, <2>1 DEF TerminateFailed
  <2> QED BY <2>1, <2>2, <2>3, ChangeCompletes
<1>15. ASSUME NEW w \in Workers, NEW proof \in BOOLEAN, TerminateIndeterminate(w, proof)
      PROVE  CoverIsStable' /\ StopTracksWork'
  <2>j. PICK j \in Jobs : j = JobOf(w)
    BY <1>15, WorkType DEF TerminateIndeterminate
  <2>1. status[j] = "executing" /\ topic' = topic /\ resolution' = resolution
    BY <1>15, <2>j DEF TerminateIndeterminate, OwnsIn, rowVars
  <2>2. /\ status' = [status EXCEPT ![j] = "indeterminate"]
        /\ evidence' = evidence \/ evidence' = evidence \cup {j}
        /\ stop' = CompleteStops(stop, {topic[j]}, status', evidence', resolution')
    BY <1>15, <2>j, <2>1 DEF TerminateIndeterminate, Leave
  <2>3. \A k \in Jobs : k # j => status'[k] = status[k] /\ (k \in evidence' <=> k \in evidence)
    BY <2>1, <2>2 DEF TypeOK
  <2>4. Open(j) /\ Exists(j) /\ Exists(j)'
    BY <2>1, <2>2 DEF TypeOK, Open, Unfinished, Exists, Active
  <2>5. \A k \in Jobs : k # j => (Open(k)' <=> Open(k)) /\ (Exists(k)' <=> Exists(k))
    BY <2>1, <2>3 DEF Open, Unfinished, Exists
  <2>6. \A k \in Jobs : /\ Exists(k) => Exists(k)' /\ topic'[k] = topic[k]
                        /\ Exists(k) /\ Open(k)' => Open(k)
                        /\ Open(k) /\ ~Open(k)' => topic[k] \in {topic[j]}
    BY <2>1, <2>4, <2>5
  <2> QED BY <2>1, <2>2, <2>6, StopsCompleted
<1>16. ASSUME NEW w \in Workers, ScheduleRetry(w)
      PROVE  CoverIsStable' /\ StopTracksWork'
  <2>1. /\ JobOf(w) \in Jobs /\ status[JobOf(w)] = "leased"
        /\ topic' = topic /\ evidence' = evidence /\ resolution' = resolution
    BY <1>16, WorkType DEF ScheduleRetry, OwnsIn, rowVars, ownerVars
  <2> QED BY <1>16, <2>1, ChangeCompletes DEF ScheduleRetry, Leave, Active
<1>17. ASSUME NEW w \in Workers, WorkerDrops(w)
      PROVE  CoverIsStable' /\ StopTracksWork'
    BY <1>17, StopsUntouched DEF WorkerDrops, Open, Unfinished, Exists, rowVars, leaseVars,
        ownerVars, procVars, provVars
<1>18. ASSUME NEW j \in Jobs, LeaseExpires(j)
      PROVE  CoverIsStable' /\ StopTracksWork'
    BY <1>18, StopsUntouched DEF LeaseExpires, Open, Unfinished, Exists, rowVars,
        leaseVars, ownerVars, procVars, provVars
<1>19. ASSUME NEW a \in Agents, RecoverStale(a)
      PROVE  CoverIsStable' /\ StopTracksWork'
  <2> DEFINE stale == {x \in Jobs : /\ status[x] \in Active
                                    /\ lease[x].exp /\ Agent(x) = a}
             ran == {topic[k] : k \in {x \in stale : status[x] = "executing"}}
  <2>1. topic' = topic /\ evidence' = evidence /\ resolution' = resolution
    BY <1>19 DEF RecoverStale, rowVars, ownerVars
  <2>2. stop' = CompleteStops(stop, ran, status', evidence', resolution')
    BY <1>19, <2>1 DEF RecoverStale
  <2>3. status' = [x \in Jobs |-> IF x \in stale THEN Recovered(status[x]) ELSE status[x]]
    BY <1>19 DEF RecoverStale
  <2>4. \A k \in Jobs : k \notin stale => status'[k] = status[k]
    BY <2>3
  <2>5. ASSUME NEW k \in stale, status[k] = "leased"
        PROVE  status'[k] = "queued"
    BY <2>3, <2>5 DEF Recovered
  <2>6. ASSUME NEW k \in stale, status[k] # "leased"
        PROVE  status[k] = "executing" /\ status'[k] = "indeterminate" /\ topic[k] \in ran
    BY <2>3, <2>6 DEF Recovered, Active
  <2> HIDE DEF stale, ran
  <2>7. \A k \in Jobs : /\ Exists(k) => Exists(k)' /\ topic'[k] = topic[k]
                        /\ Exists(k) /\ Open(k)' => Open(k)
                        /\ Open(k) /\ ~Open(k)' => topic[k] \in ran
    BY <2>1, <2>4, <2>5, <2>6 DEF Open, Unfinished, Exists, Waiting, Active
  <2> QED BY <2>2, <2>7, StopsCompleted
<1>20. ASSUME NEW w \in Workers, NEW j \in Jobs, ClaimStale(w, j)
      PROVE  CoverIsStable' /\ StopTracksWork'
    BY <1>20, StopsUntouched DEF ClaimStale, Open, Unfinished, Exists, rowVars, leaseVars,
        ownerVars, procVars, provVars
<1>21. ASSUME NEW j \in Jobs, NEW completed \in BOOLEAN, NEW keep \in BOOLEAN,
             ObserveOutcome(j, completed, keep)
      PROVE  CoverIsStable' /\ StopTracksWork'
  <2>1. /\ Uncertain(j) /\ topic' = topic /\ resolution' = resolution
        /\ stop' = CompleteStops(stop, {topic[j]}, status', evidence', resolution')
    BY <1>21 DEF ObserveOutcome, rowVars
  <2>2. \/ status' = [status EXCEPT ![j] = "result_ready"] /\ evidence' = evidence
        \/ status' = status /\ evidence' = evidence \cup {j}
    BY <1>21 DEF ObserveOutcome
  <2>3. \A k \in Jobs : k # j => status'[k] = status[k] /\ (k \in evidence' <=> k \in evidence)
    BY <2>2 DEF TypeOK
  <2>4. Open(j) /\ Exists(j) /\ Exists(j)'
    BY <2>1, <2>2 DEF TypeOK, Uncertain, Open, Unfinished, Exists
  <2>5. \A k \in Jobs : k # j => (Open(k)' <=> Open(k)) /\ (Exists(k)' <=> Exists(k))
    BY <2>1, <2>3 DEF Open, Unfinished, Exists
  <2>6. \A k \in Jobs : /\ Exists(k) => Exists(k)' /\ topic'[k] = topic[k]
                        /\ Exists(k) /\ Open(k)' => Open(k)
                        /\ Open(k) /\ ~Open(k)' => topic[k] \in {topic[j]}
    BY <2>1, <2>4, <2>5
  <2> QED BY <2>1, <2>6, StopsCompleted
<1>22. ASSUME NEW w \in Workers, NEW c \in Jobs, LeaseSteer(w, c)
      PROVE  CoverIsStable' /\ StopTracksWork'
    BY <1>22, StopsUntouched
    DEF LeaseSteer, OwnsChild, Open, Unfinished, Exists, TypeOK, Waiting, Active, rowVars,
        leaseVars, ownerVars, procVars, provVars
<1>23. ASSUME NEW w \in Workers, StartSteer(w)
      PROVE  CoverIsStable' /\ StopTracksWork'
  <2>1. /\ Child(w) \in Jobs /\ status[Child(w)] = "leased"
        /\ topic' = topic /\ evidence' = evidence /\ resolution' = resolution
    BY <1>23, ChildType DEF StartSteer, OwnsChild, SteerQuiet, rowVars, ownerVars
  <2>2. CASE /\ Leave(Child(w), "cancelled")
             /\ stop' = CompleteStops(stop, {topic[Child(w)]}, status', evidence, resolution)
    BY <2>1, <2>2, ChangeCompletes DEF Leave, Active
  <2>3. CASE /\ Leave(Child(w), "queued")
             /\ stop' = stop
    BY <2>1, <2>3, ChangeStaysOpen DEF Leave, Waiting, Active
  <2>4. CASE /\ status' = [status EXCEPT ![Child(w)] = "executing"]
             /\ stop' = stop
    BY <2>1, <2>4, ChangeStaysOpen DEF Active
  <2> QED BY <1>23, <2>2, <2>3, <2>4 DEF StartSteer
<1>24. ASSUME NEW w \in Workers, ReleaseSteer(w)
      PROVE  CoverIsStable' /\ StopTracksWork'
    BY <1>24, StopsUntouched
    DEF ReleaseSteer, Leave, OwnsChild, Open, Unfinished, Exists, TypeOK, Waiting, Active,
        rowVars, leaseVars, ownerVars, procVars, provVars
<1>25. ASSUME NEW w \in Workers, NEW outcome \in {"accepted", "rejected", "unknown"},
             InvokeSteer(w, outcome)
      PROVE  CoverIsStable' /\ StopTracksWork'
    BY <1>25, StopsUntouched DEF InvokeSteer, Open, Unfinished, Exists, rowVars, leaseVars,
        ownerVars, procVars, provVars
<1>26. ASSUME NEW w \in Workers, CompleteSteered(w)
      PROVE  CoverIsStable' /\ StopTracksWork'
  <2>1. /\ Child(w) \in Jobs
        /\ topic' = topic /\ evidence' = evidence /\ resolution' = resolution
    BY <1>26, ChildType DEF CompleteSteered, SteerQuiet, rowVars, ownerVars
  <2>2. CASE OwnsChild(w, "executing") /\ status[Parent(w)] = "executing"
    BY <1>26, <2>1, <2>2, ChangeCompletes DEF CompleteSteered, OwnsChild, Leave, Active
  <2>3. CASE ~(OwnsChild(w, "executing") /\ status[Parent(w)] = "executing")
    BY <1>26, <2>1, <2>3, StopsUntouched DEF CompleteSteered, Open, Unfinished, Exists
  <2> QED BY <2>2, <2>3
<1>27. ASSUME NEW w \in Workers, RejectSteer(w)
      PROVE  CoverIsStable' /\ StopTracksWork'
    BY <1>27, StopsUntouched
    DEF RejectSteer, Leave, OwnsChild, Open, Unfinished, Exists, TypeOK, Waiting, Active,
        rowVars, leaseVars, ownerVars, procVars, provVars
<1>28. ASSUME NEW w \in Workers, SteerUnknown(w)
      PROVE  CoverIsStable' /\ StopTracksWork'
  <2>1. /\ Child(w) \in Jobs /\ status[Child(w)] = "executing"
        /\ topic' = topic /\ evidence' = evidence /\ resolution' = resolution
    BY <1>28, ChildType DEF SteerUnknown, OwnsChild, SteerQuiet, rowVars, ownerVars
  <2> QED BY <1>28, <2>1, ChangeCompletes DEF SteerUnknown, Leave, Active
<1>29. ASSUME NEW w \in Workers, SteerDrops(w)
      PROVE  CoverIsStable' /\ StopTracksWork'
    BY <1>29, StopsUntouched DEF SteerDrops, Open, Unfinished, Exists, rowVars, leaseVars,
        ownerVars, procVars, provVars
<1>30. ASSUME NEW s \in Stops, NEW t \in Topics, RequestStop(s, t)
      PROVE  CoverIsStable' /\ StopTracksWork'
  <2> DEFINE mine == {j \in Jobs : Exists(j) /\ topic[j] = t}
             drop == {j \in mine : status[j] \in Waiting /\ Unheld(j)}
             busy == \E j \in mine : status[j] \in Active \/ Uncertain(j)
             new == [state |-> IF busy THEN "pending" ELSE "completed", topic |-> t,
                     covered |-> {j \in mine : Unheld(j)}]
             stp == [stop EXCEPT ![s] = new]
  <2>1. /\ stop' = CompleteStops(stp, {t}, status', evidence', resolution')
        /\ status' = [j \in Jobs |-> IF j \in drop THEN "cancelled" ELSE status[j]]
        /\ evidence' = evidence /\ resolution' = resolution /\ topic' = topic
        /\ stop[s].state = "absent"
    BY <1>30 DEF RequestStop, ownerVars, rowVars
  <2>2. /\ \A j \in Jobs : Exists(j) => Exists(j)'
        /\ \A j \in Jobs : Exists(j) /\ Open(j)' => Open(j)
        /\ \A j \in Jobs : Open(j) /\ ~Open(j)' => topic[j] = t
        /\ \A j \in mine : Unheld(j) /\ Open(j)' => status[j] \in Active \/ Uncertain(j)
    BY <2>1 DEF Exists, Open, Unfinished, Uncertain, Waiting, Active, TypeOK
  <2>3. /\ stp[s] = new
        /\ new.topic = t /\ new.covered = {j \in mine : Unheld(j)}
        /\ new.state = IF busy THEN "pending" ELSE "completed"
        /\ \A r \in Stops : r # s => stp[r] = stop[r]
    BY DEF TypeOK, StopTable
  <2> HIDE DEF new, stp, busy
  <2>4. ASSUME NEW r \in Stops
        PROVE  /\ stop'[r].topic = stp[r].topic /\ stop'[r].covered = stp[r].covered
               /\ stop'[r].state = IF /\ stp[r].state = "pending"
                                      /\ stp[r].topic \in {t}
                                      /\ \A j \in stp[r].covered : ~Open(j)'
                                   THEN "completed" ELSE stp[r].state
    <3>1. stp \in StopTable
      <4>1. new \in [state : {"absent", "pending", "completed"}, topic : Topics,
                     covered : SUBSET Jobs]
        BY DEF new
      <4> QED BY <4>1 DEF stp, TypeOK, StopTable
    <3> QED BY <2>1, <3>1 DEF CompleteStops, Open, StopTable
  <2>5. \A r \in Stops : \A j \in stp[r].covered : j \in Jobs /\ Exists(j) /\ topic[j] = stp[r].topic
    BY <2>3 DEF CoverIsStable
  <2>6. CoverIsStable'
    <3>1. \A r \in Stops : stop'[r].state = "absent" => stop'[r].covered = {}
      BY <2>3, <2>4 DEF CoverIsStable
    <3>2. \A r \in Stops : \A j \in stop'[r].covered :
             j \in Jobs /\ Exists(j)' /\ topic'[j] = stop'[r].topic
      BY <2>1, <2>2, <2>4, <2>5
    <3> QED BY <3>1, <3>2 DEF CoverIsStable
  <2>7. ASSUME NEW r \in Stops, stop'[r].state # "absent"
        PROVE  stop'[r].state = "pending" <=> \E j \in stop'[r].covered : Open(j)'
    <3>1. CASE r = s
      <4>1. (\E j \in new.covered : Open(j)') => busy
        BY <2>2, <2>3 DEF busy
      <4> QED BY <2>3, <2>4, <3>1, <4>1
    <3>2. CASE r # s
      <4>1. stop[r].state # "absent" /\ stp[r] = stop[r]
        BY <2>3, <2>4, <2>7, <3>2
      <4>2. stop[r].state = "pending" <=> \E j \in stop[r].covered : Open(j)
        BY <4>1 DEF StopTracksWork, Open
      <4>3. CASE \A j \in stop[r].covered : ~Open(j)'
        BY <2>2, <2>4, <2>5, <4>1, <4>2, <4>3
      <4>4. CASE \E j \in stop[r].covered : Open(j)'
        BY <2>2, <2>4, <2>5, <4>1, <4>2, <4>4
      <4> QED BY <4>3, <4>4
    <3> QED BY <3>1, <3>2
  <2>8. StopTracksWork'
    BY <2>7 DEF StopTracksWork, Open
  <2> QED BY <2>6, <2>8
<1>31. ASSUME NEW j \in Jobs, NEW r \in Resolutions, ResolveIndeterminate(j, r)
      PROVE  CoverIsStable' /\ StopTracksWork'
  <2>1. /\ status' = status /\ topic' = topic /\ evidence' = evidence
        /\ resolution' = [resolution EXCEPT ![j] = r]
        /\ stop' = CompleteStops(stop, {topic[j]}, status', evidence', resolution')
    BY <1>31 DEF ResolveIndeterminate, rowVars
  <2>2. \A k \in Jobs : k # j => (Open(k)' <=> Open(k))
    BY <2>1 DEF TypeOK, Open, Unfinished
  <2>3. status[j] = "indeterminate" /\ resolution[j] = "none"
    BY <1>31 DEF ResolveIndeterminate
  <2>4. \A k \in Jobs : Exists(k) /\ Open(k)' => Open(k)
    BY <2>1, <2>2, <2>3 DEF Open, Unfinished
  <2>5. \A k \in Jobs : Open(k) /\ ~Open(k)' => topic[k] \in {topic[j]}
    BY <2>2
  <2>6. \A k \in Jobs : Exists(k) => Exists(k)' /\ topic'[k] = topic[k]
    BY <2>1 DEF Exists
  <2> QED BY <2>1, <2>4, <2>5, <2>6, StopsCompleted
<1>32. ASSUME MaterializeHeld
      PROVE  CoverIsStable' /\ StopTracksWork'
    BY <1>32, StopsUntouched DEF MaterializeHeld, Open, Unfinished, Exists, rowVars,
        leaseVars, ownerVars, procVars, provVars
<1>33. ASSUME NEW j \in Jobs, NEW decision \in {"confirmed", "cancelled"},
             DecideHeld(j, decision)
      PROVE  CoverIsStable' /\ StopTracksWork'
  <2>1. /\ status[j] \in Waiting
        /\ topic' = topic /\ evidence' = evidence /\ resolution' = resolution
    BY <1>33 DEF DecideHeld, rowVars
  <2>2. CASE decision = "cancelled"
    BY <1>33, <2>1, <2>2, ChangeCompletes DEF DecideHeld
  <2>3. CASE decision # "cancelled"
    BY <1>33, <2>1, <2>3, StopsUntouched DEF DecideHeld, Open, Unfinished, Exists
  <2> QED BY <2>2, <2>3
<1>34. ASSUME NEW t \in Topics, TakeLocalWriter(t)
      PROVE  CoverIsStable' /\ StopTracksWork'
    BY <1>34, StopsUntouched DEF TakeLocalWriter, Open, Unfinished, Exists, rowVars,
        leaseVars, ownerVars, procVars, provVars
<1>35. ASSUME NEW t \in Topics, ReturnLocalWriter(t)
      PROVE  CoverIsStable' /\ StopTracksWork'
    BY <1>35, StopsUntouched DEF ReturnLocalWriter, Open, Unfinished, Exists, rowVars,
        leaseVars, ownerVars, procVars, provVars
<1>36. ASSUME NEW j \in Jobs, NEW st \in {"completed", "failed"}, SettleDelivery(j, st)
      PROVE  CoverIsStable' /\ StopTracksWork'
    BY <1>36, StopsUntouched
    DEF SettleDelivery, Open, Unfinished, Exists, TypeOK, Waiting, Active, rowVars,
        leaseVars, ownerVars, procVars, provVars
<1>37. ASSUME NEW j \in Jobs, NEW how \in {"released", "reconciled"}, ParkDelivery(j, how)
      PROVE  CoverIsStable' /\ StopTracksWork'
    BY <1>37, StopsUntouched DEF ParkDelivery, Open, Unfinished, Exists, rowVars,
        leaseVars, ownerVars, procVars, provVars
<1>38. CASE UNCHANGED vars
      BY <1>38, StopsUntouched DEF Open, Unfinished, Exists, vars, rowVars, leaseVars,
          ownerVars, procVars, provVars
<1> QED BY <1>1, <1>2, <1>3, <1>4, <1>5, <1>6, <1>7, <1>8, <1>9, <1>10, <1>11, <1>12,
      <1>13, <1>14, <1>15, <1>16, <1>17, <1>18, <1>19, <1>20, <1>21, <1>22, <1>23, <1>24,
            <1>25, <1>26, <1>27, <1>28, <1>29, <1>30, <1>31, <1>32, <1>33, <1>34, <1>35,
                  <1>36, <1>37, <1>38
    DEF Next, Admission, Acquire, WorkerStep, SteerStep, World, Owner

\* There is no stop in the empty database.
LEMMA InitStops == Init => CoverIsStable /\ StopTracksWork
BY DEF Init, NoStop, CoverIsStable, StopTracksWork

\* For any number of jobs and stops, a stop is pending exactly as long as a job
\* it covers is unfinished.
THEOREM StopsAreExact == Spec => []StopTracksWork
<1>1. Init => TypeOK /\ CoverIsStable /\ StopTracksWork
      BY InitType, InitStops
<1>2. (TypeOK /\ CoverIsStable /\ StopTracksWork) /\ [Next]_vars
         => (TypeOK /\ CoverIsStable /\ StopTracksWork)'
      BY StepType, StepStops
<1> QED BY <1>1, <1>2, PTL DEF Spec

-----------------------------------------------------------------------------
(* Covered work neither starts nor publishes.                                *)

\* The job that a step starts or publishes was open and no pending stop covered
\* it: the check and the change are one transaction.
LEMMA StepChecksStop ==
    ASSUME TypeOK, [Next]_vars, NEW k \in Jobs,
           status'[k] \in {"executing", "result_ready"}, status'[k] # status[k]
    PROVE  Open(k) /\ ~PendingStop(k)
<1>1. ASSUME NEW j \in Jobs, NEW t \in Topics, NEW b \in Bindings,
             NEW now \in AvailableNow, Enqueue(j, t, b, now)
      PROVE  Open(k) /\ ~PendingStop(k)
    BY <1>1 DEF Enqueue, Insert, TypeOK
<1>2. ASSUME NEW j \in Jobs, NEW t \in Topics, NEW b \in Bindings, EnqueueTakeover(j, t, b)
      PROVE  Open(k) /\ ~PendingStop(k)
    BY <1>2 DEF EnqueueTakeover, Insert, TypeOK
<1>3. ASSUME NEW src \in Jobs, NEW j \in Jobs, Continue(src, j)
      PROVE  Open(k) /\ ~PendingStop(k)
    BY <1>3 DEF Continue, Insert, TypeOK
<1>4. ASSUME NEW j \in Jobs, BecomeDue(j)
      PROVE  Open(k) /\ ~PendingStop(k)
    BY <1>4 DEF BecomeDue
<1>5. ASSUME NEW j \in Jobs, Cancel(j)
      PROVE  Open(k) /\ ~PendingStop(k)
    BY <1>5 DEF Cancel, TypeOK
<1>6. ASSUME NEW w \in Workers, NEW j \in Jobs, Lease(w, j)
      PROVE  Open(k) /\ ~PendingStop(k)
    BY <1>6 DEF Lease, TypeOK
<1>7. ASSUME NEW w \in Workers, ReleaseLease(w)
      PROVE  Open(k) /\ ~PendingStop(k)
    BY <1>7 DEF ReleaseLease, Leave, TypeOK
<1>8. ASSUME NEW w \in Workers, MarkExecuting(w)
      PROVE  Open(k) /\ ~PendingStop(k)
    BY <1>8, WorkType DEF MarkExecuting, Leave, OwnsIn, Open, Unfinished, TypeOK, Active
<1>9. ASSUME NEW w \in Workers, NEW accepted \in BOOLEAN, CallProvider(w, accepted)
      PROVE  Open(k) /\ ~PendingStop(k)
    BY <1>9 DEF CallProvider
<1>10. ASSUME NEW w \in Workers, RecordTurn(w)
      PROVE  Open(k) /\ ~PendingStop(k)
    BY <1>10 DEF RecordTurn
<1>11. ASSUME NEW j \in Jobs, TurnEnds(j)
      PROVE  Open(k) /\ ~PendingStop(k)
    BY <1>11 DEF TurnEnds
<1>12. ASSUME NEW w \in Workers, CommitResult(w)
      PROVE  Open(k) /\ ~PendingStop(k)
    BY <1>12, WorkType DEF CommitResult, Leave, OwnsIn, Open, Unfinished, TypeOK, Active
<1>13. ASSUME NEW w \in Workers, CancelActive(w)
      PROVE  Open(k) /\ ~PendingStop(k)
    BY <1>13 DEF CancelActive, Leave, TypeOK
<1>14. ASSUME NEW w \in Workers, TerminateFailed(w)
      PROVE  Open(k) /\ ~PendingStop(k)
    BY <1>14 DEF TerminateFailed, Leave, TypeOK
<1>15. ASSUME NEW w \in Workers, NEW proof \in BOOLEAN, TerminateIndeterminate(w, proof)
      PROVE  Open(k) /\ ~PendingStop(k)
    BY <1>15 DEF TerminateIndeterminate, Leave, TypeOK
<1>16. ASSUME NEW w \in Workers, ScheduleRetry(w)
      PROVE  Open(k) /\ ~PendingStop(k)
    BY <1>16 DEF ScheduleRetry, Leave, TypeOK
<1>17. ASSUME NEW w \in Workers, WorkerDrops(w)
      PROVE  Open(k) /\ ~PendingStop(k)
    BY <1>17 DEF WorkerDrops
<1>18. ASSUME NEW j \in Jobs, LeaseExpires(j)
      PROVE  Open(k) /\ ~PendingStop(k)
    BY <1>18 DEF LeaseExpires
<1>19. ASSUME NEW a \in Agents, RecoverStale(a)
      PROVE  Open(k) /\ ~PendingStop(k)
    BY <1>19 DEF RecoverStale, Recovered, Active, TypeOK
<1>20. ASSUME NEW w \in Workers, NEW j \in Jobs, ClaimStale(w, j)
      PROVE  Open(k) /\ ~PendingStop(k)
    BY <1>20 DEF ClaimStale
<1>21. ASSUME NEW j \in Jobs, NEW completed \in BOOLEAN, NEW keep \in BOOLEAN,
             ObserveOutcome(j, completed, keep)
      PROVE  Open(k) /\ ~PendingStop(k)
    BY <1>21 DEF ObserveOutcome, Uncertain, Open, Unfinished, TypeOK
<1>22. ASSUME NEW w \in Workers, NEW c \in Jobs, LeaseSteer(w, c)
      PROVE  Open(k) /\ ~PendingStop(k)
    BY <1>22 DEF LeaseSteer, TypeOK
<1>23. ASSUME NEW w \in Workers, StartSteer(w)
      PROVE  Open(k) /\ ~PendingStop(k)
    BY <1>23, ChildType DEF StartSteer, Leave, OwnsChild, SteerQuiet, Open, Unfinished,
        TypeOK, Active
<1>24. ASSUME NEW w \in Workers, ReleaseSteer(w)
      PROVE  Open(k) /\ ~PendingStop(k)
    BY <1>24 DEF ReleaseSteer, Leave, TypeOK
<1>25. ASSUME NEW w \in Workers, NEW outcome \in {"accepted", "rejected", "unknown"},
             InvokeSteer(w, outcome)
      PROVE  Open(k) /\ ~PendingStop(k)
    BY <1>25 DEF InvokeSteer
<1>26. ASSUME NEW w \in Workers, CompleteSteered(w)
      PROVE  Open(k) /\ ~PendingStop(k)
    BY <1>26 DEF CompleteSteered, Leave, TypeOK
<1>27. ASSUME NEW w \in Workers, RejectSteer(w)
      PROVE  Open(k) /\ ~PendingStop(k)
    BY <1>27 DEF RejectSteer, Leave, TypeOK
<1>28. ASSUME NEW w \in Workers, SteerUnknown(w)
      PROVE  Open(k) /\ ~PendingStop(k)
    BY <1>28 DEF SteerUnknown, Leave, TypeOK
<1>29. ASSUME NEW w \in Workers, SteerDrops(w)
      PROVE  Open(k) /\ ~PendingStop(k)
    BY <1>29 DEF SteerDrops
<1>30. ASSUME NEW s \in Stops, NEW t \in Topics, RequestStop(s, t)
      PROVE  Open(k) /\ ~PendingStop(k)
    BY <1>30 DEF RequestStop, TypeOK
<1>31. ASSUME NEW j \in Jobs, NEW r \in Resolutions, ResolveIndeterminate(j, r)
      PROVE  Open(k) /\ ~PendingStop(k)
    BY <1>31 DEF ResolveIndeterminate
<1>32. ASSUME MaterializeHeld
      PROVE  Open(k) /\ ~PendingStop(k)
    BY <1>32 DEF MaterializeHeld
<1>33. ASSUME NEW j \in Jobs, NEW decision \in {"confirmed", "cancelled"},
             DecideHeld(j, decision)
      PROVE  Open(k) /\ ~PendingStop(k)
    BY <1>33 DEF DecideHeld, TypeOK
<1>34. ASSUME NEW t \in Topics, TakeLocalWriter(t)
      PROVE  Open(k) /\ ~PendingStop(k)
    BY <1>34 DEF TakeLocalWriter
<1>35. ASSUME NEW t \in Topics, ReturnLocalWriter(t)
      PROVE  Open(k) /\ ~PendingStop(k)
    BY <1>35 DEF ReturnLocalWriter
<1>36. ASSUME NEW j \in Jobs, NEW st \in {"completed", "failed"}, SettleDelivery(j, st)
      PROVE  Open(k) /\ ~PendingStop(k)
    BY <1>36 DEF SettleDelivery, TypeOK
<1>37. ASSUME NEW j \in Jobs, NEW how \in {"released", "reconciled"}, ParkDelivery(j, how)
      PROVE  Open(k) /\ ~PendingStop(k)
    BY <1>37 DEF ParkDelivery
<1>38. CASE UNCHANGED vars
      BY <1>38 DEF vars
<1> QED BY <1>1, <1>2, <1>3, <1>4, <1>5, <1>6, <1>7, <1>8, <1>9, <1>10, <1>11, <1>12,
      <1>13, <1>14, <1>15, <1>16, <1>17, <1>18, <1>19, <1>20, <1>21, <1>22, <1>23, <1>24,
            <1>25, <1>26, <1>27, <1>28, <1>29, <1>30, <1>31, <1>32, <1>33, <1>34, <1>35,
                  <1>36, <1>37, <1>38
    DEF Next, Admission, Acquire, WorkerStep, SteerStep, World, Owner

\* A result is never published for a job that a stop covers, in any run of any
\* number of workers, stops and recoveries.
THEOREM StopPreventsPublication == Spec => StopBeforePublication
<1>1. TypeOK /\ CoverIsStable /\ StopTracksWork /\ [Next]_vars =>
         [\A j \in Jobs : status[j] # "result_ready" /\ status'[j] = "result_ready"
             => ~\E s \in Stops : j \in stop[s].covered]_vars
      BY StepChecksStop, NotCovered
<1>2. Init => TypeOK /\ CoverIsStable /\ StopTracksWork
      BY InitType, InitStops
<1>3. (TypeOK /\ CoverIsStable /\ StopTracksWork) /\ [Next]_vars
         => (TypeOK /\ CoverIsStable /\ StopTracksWork)'
      BY StepType, StepStops
<1> QED BY <1>1, <1>2, <1>3, PTL DEF Spec, StopBeforePublication

\* A job that a stop covers never starts, in any run.
THEOREM StopPreventsStart == Spec => StopBeforeStart
<1>1. TypeOK /\ CoverIsStable /\ StopTracksWork /\ [Next]_vars =>
         [\A j \in Jobs : status[j] # "executing" /\ status'[j] = "executing"
             => ~\E s \in Stops : j \in stop[s].covered]_vars
      BY StepChecksStop, NotCovered
<1>2. Init => TypeOK /\ CoverIsStable /\ StopTracksWork
      BY InitType, InitStops
<1>3. (TypeOK /\ CoverIsStable /\ StopTracksWork) /\ [Next]_vars
         => (TypeOK /\ CoverIsStable /\ StopTracksWork)'
      BY StepType, StepStops
<1> QED BY <1>1, <1>2, <1>3, PTL DEF Spec, StopBeforeStart
=============================================================================
