----------------------------- MODULE Hub_proofs ------------------------------
(***************************************************************************)
(* Proofs about the hub's own procedures, for every number of instances of *)
(* every component and for every value of their constants.                 *)
(***************************************************************************)
EXTENDS MCHub, TLAPS, FiniteSetTheorems

-----------------------------------------------------------------------------
(* The maintenance window.                                                   *)

\* A window opens with nothing stopped, queued or started.
LEMMA WindowOpens ==
    ASSUME NEW i \in DOMAIN Windows, Win(i)!Init
    PROVE  Win(i)!WindowInv
BY DEF Win!Init, Win!WindowInv, Win!TypeOK, Win!BeforeRestoring, Win!UnitAtHand,
       Win!StartedIsSeen, Win!NoUnit, Win!Steps, Win!Eligible

\* Every callback, stop and death keeps the books of the restoration.
LEMMA WindowStep ==
    ASSUME NEW i \in DOMAIN Windows, Win(i)!WindowInv, Win(i)!Next
    PROVE  Win(i)!WindowInv'
<1> USE DEF Win!WindowInv, Win!TypeOK, Win!BeforeRestoring, Win!UnitAtHand,
            Win!StartedIsSeen, Win!NoUnit, Win!Steps, Win!Eligible, Win!Calm,
            Win!Trouble, Win!Settle, Win!Startable, Win!ConsumersReady, Win!Consumers
<1>1. CASE Win(i)!Enter
  BY <1>1 DEF Win!Enter
<1>2. CASE Win(i)!Body
  BY <1>2 DEF Win!Body
<1>3. CASE Win(i)!Fails
  BY <1>3 DEF Win!Fails
<1>4. CASE Win(i)!Prerequisite
  BY <1>4 DEF Win!Prerequisite
<1>5. CASE Win(i)!Observe
  BY <1>5 DEF Win!Observe
<1>6. CASE Win(i)!Start
  BY <1>6 DEF Win!Start
<1>7. CASE Win(i)!Recheck
  BY <1>7 DEF Win!Recheck
<1>8. CASE Win(i)!Ready
  BY <1>8 DEF Win!Ready
<1>9. CASE Win(i)!Finish
  BY <1>9 DEF Win!Finish
<1>10. CASE Win(i)!Interrupt
  BY <1>10 DEF Win!Interrupt
<1>11. ASSUME NEW u \in Windows[i].Units, Win(i)!Stop(u) PROVE Win(i)!WindowInv'
  BY <1>11 DEF Win!Stop
<1>12. ASSUME NEW u \in Windows[i].Units, Win(i)!Take(u) PROVE Win(i)!WindowInv'
  BY <1>12 DEF Win!Take
<1>13. ASSUME NEW u \in Windows[i].Units, Win(i)!UnitDies(u) PROVE Win(i)!WindowInv'
  BY <1>13 DEF Win!UnitDies
<1> QED
  BY <1>1, <1>2, <1>3, <1>4, <1>5, <1>6, <1>7, <1>8, <1>9, <1>10, <1>11, <1>12, <1>13
     DEF Win!Next

\* A unit that is started is the one at hand, which is out of the restored
\* ones, and its admission stands behind ready consumers.
LEMMA WindowStarts ==
    ASSUME NEW i \in DOMAIN Windows, Win(i)!WindowInv, Win(i)!Next
    PROVE  Win(i)!AdmissionLast
<1> SUFFICES ASSUME NEW u \in Windows[i].Admission, started'[u] > started[u]
             PROVE  \A c \in was \ Windows[i].Admission : result[c] = "ready"
  BY DEF Win!AdmissionLast
<1>0. u \in Windows[i].Units /\ started[u] \in 0..1
  BY InstancesAllowed DEF Win!MaintenanceBounds, Win!WindowInv, Win!TypeOK
<1>1. Win(i)!Start
  BY <1>0 DEF Win!Next, Win!Enter, Win!Body, Win!Fails, Win!Prerequisite, Win!Observe,
         Win!Recheck, Win!Ready, Win!Finish, Win!Interrupt, Win!Stop, Win!Take,
         Win!UnitDies
<1>2. u = at.unit /\ at # Win(i)!NoUnit
  BY <1>0, <1>1 DEF Win!Start, Win!WindowInv, Win!TypeOK, Win!NoUnit, Win!Steps
<1> QED
  BY <1>2 DEF Win!WindowInv, Win!UnitAtHand, Win!BeforeRestoring, Win!ConsumersReady,
              Win!Consumers, Win!Eligible

\* A window starts a unit at most once and only one it stopped, and lets work
\* in only behind consumers that were all seen ready (maintenance_window.py).
THEOREM WindowsAreOrderly == Spec => WindowIsOrderly
<1> DEFINE Inv == \A i \in DOMAIN Windows : Runs("window", i) => Win(i)!WindowInv
<1>1. Init => Inv
  BY WindowOpens DEF Init, Runs
<1>2. Inv /\ [Next]_vars => Inv'
  <2>1. ASSUME Inv, Next PROVE Inv'
    BY <2>1, WindowStep DEF Next, Runs
  <2>2. ASSUME Inv, UNCHANGED vars PROVE Inv'
    BY <2>2 DEF vars, MaintenanceVars, Runs, Win!WindowInv, Win!TypeOK,
       Win!BeforeRestoring, Win!UnitAtHand, Win!StartedIsSeen, Win!Eligible,
       Win!Startable, Win!ConsumersReady, Win!Consumers, Win!NoUnit, Win!Steps
  <2> QED
    BY <2>1, <2>2
<1>3. Inv => \A i \in DOMAIN Windows : Runs("window", i) =>
                Win(i)!TypeOK /\ Win(i)!StartsOnlyStopped
  BY DEF Win!WindowInv, Win!StartsOnlyStopped, Win!StartedIsSeen, Win!TypeOK
<1>4. Inv /\ [Next]_vars =>
        [\A i \in DOMAIN Windows : Runs("window", i) => Win(i)!AdmissionLast]_vars
  BY WindowStarts DEF Next, Runs
<1> QED
  BY <1>1, <1>2, <1>3, <1>4, PTL DEF Spec, WindowIsOrderly

-----------------------------------------------------------------------------
(* Draining a worker.                                                       *)

\* The constants of every instance meet the module's assumption.
LEMMA DrainAllowed ==
    ASSUME NEW i \in DOMAIN Drains
    PROVE  Drain(i)!DrainBounds
BY InstancesAllowed

\* What the handlers write into a request and into the endpoint is of their types.
LEMMA DrainRequest ==
    ASSUME NEW i \in DOMAIN Drains, Drain(i)!Typed, NEW r \in Drains[i].Requesters
    PROVE  /\ req[r].inc \in Nat /\ req[r].ops \in BOOLEAN /\ req[r].socks \in BOOLEAN
           /\ [req[r] EXCEPT !.pc = "accepted"] \in Drain(i)!Request
           /\ [req[r] EXCEPT !.pc = "ready", !.ops = FALSE, !.socks = FALSE]
                 \in Drain(i)!Request
           /\ Drain(i)!NoRequest \in Drain(i)!Request
           /\ inc \in Nat
           /\ [endpoint EXCEPT !.key = r] \in Drain(i)!Endpoint
           /\ [Drain(i)!NoRequest EXCEPT !.pc = "ready", !.inc = inc]
                 \in Drain(i)!Request
<1>1. req[r] \in Drain(i)!Request
   BY DEF Drain!Typed
<1>2. inc \in Nat 
   BY DrainAllowed DEF Drain!Typed, Drain!DrainBounds
<1>3. endpoint \in Drain(i)!Endpoint
  BY DEF Drain!Typed
<1> QED BY <1>1, <1>2, <1>3 DEF Drain!Request, Drain!NoRequest, Drain!Endpoint



\* Every step of every actor keeps the types.
LEMMA DrainTyped ==
    ASSUME NEW i \in DOMAIN Drains, Drain(i)!Typed, Drain(i)!Next
    PROVE  Drain(i)!Typed'
<1> USE DrainAllowed DEF Drain!Outside, Drain!process, Drain!DrainBounds, Drain!Typed
<1>1. ASSUME NEW r \in Drains[i].Requesters, Drain(i)!Prepare(r) PROVE Drain(i)!Typed'
  <2>1. req' \in [Drains[i].Requesters -> Drain(i)!Request]
    BY <1>1, DrainRequest DEF Drain!Prepare
  <2> QED
    BY <1>1, <2>1 DEF Drain!Prepare
<1>2. ASSUME NEW r \in Drains[i].Requesters, Drain(i)!Accept(r) PROVE Drain(i)!Typed'
  <2>1. req' \in [Drains[i].Requesters -> Drain(i)!Request]
    BY <1>2, DrainRequest DEF Drain!Accept
  <2>2. endpoint' \in Drain(i)!Endpoint
    BY <1>2, DrainRequest DEF Drain!Accept
  <2> QED
    BY <1>2, <2>1, <2>2 DEF Drain!Accept
<1>3. ASSUME NEW r \in Drains[i].Requesters, Drain(i)!Expire(r) PROVE Drain(i)!Typed'
  BY <1>3, DrainRequest DEF Drain!Expire
<1>4. ASSUME NEW r \in Drains[i].Requesters, Drain(i)!Observe(r) PROVE Drain(i)!Typed'
  <2>1. req' \in [Drains[i].Requesters -> Drain(i)!Request]
    <3>1. /\ [req[r] EXCEPT !.pc = "seen", !.ops = Drain(i)!Drained]
                \in Drain(i)!Request
          /\ [req[r] EXCEPT !.pc = "reply",
                             !.socks = ~fallback /\ Drain(i)!SocketsDrained /\ req[r].ops]
                \in Drain(i)!Request
      BY DEF Drain!Request, Drain!Drained, Drain!SocketsDrained
    <3> QED
      BY <1>4, <3>1 DEF Drain!Observe
  <2> QED
    BY <1>4, <2>1 DEF Drain!Observe
<1>5. ASSUME NEW r \in Drains[i].Requesters, Drain(i)!Answer(r) PROVE Drain(i)!Typed'
  <2>1. req' \in [Drains[i].Requesters -> Drain(i)!Request]
    BY <1>5, DrainRequest DEF Drain!Answer
  <2>2. told' \subseteq Drain(i)!Acknowledgement
    <3>1. [r |-> r, inc |-> req[r].inc, ops |-> req[r].ops, socks |-> req[r].socks]
             \in Drain(i)!Acknowledgement
      BY DrainRequest DEF Drain!Acknowledgement
    <3> QED
      BY <1>5, <3>1 DEF Drain!Answer
  <2> QED
    BY <1>5, <2>1, <2>2 DEF Drain!Answer
<1>6. ASSUME NEW r \in Drains[i].Requesters, Drain(i)!LoseReply(r) PROVE Drain(i)!Typed'
  <2>1. req' \in [Drains[i].Requesters -> Drain(i)!Request]
    BY <1>6, DrainRequest DEF Drain!LoseReply
  <2> QED
    BY <1>6, <2>1 DEF Drain!LoseReply
<1>7. CASE Drain(i)!CloseEndpoint
  <2>1. endpoint' \in Drain(i)!Endpoint
    BY <1>7 DEF Drain!CloseEndpoint, Drain!Endpoint
  <2>2. /\ wdPc' = [wdPc EXCEPT !["main"] = "close"]
        /\ wdPc' \in [Drain(i)!Threads -> Drain(i)!LoopStates \cup Drain(i)!MainStates]
    BY <1>7 DEF Drain!CloseEndpoint, Drain!LoopStates, Drain!MainStates, Drain!Threads
  <2> QED
    BY <1>7, <2>1, <2>2 DEF Drain!CloseEndpoint, Drain!LoopStates, Drain!MainStates,
         Drain!Threads, Drain!Loops
<1>8. CASE Drain(i)!Restart
  <2>1. endpoint' \in Drain(i)!Endpoint
    BY <1>8 DEF Drain!Restart, Drain!Endpoint
  <2>2. wdPc' \in [Drain(i)!Threads -> Drain(i)!LoopStates \cup Drain(i)!MainStates]
    BY <1>8 DEF Drain!Restart, Drain!Fresh, Drain!LoopStates, Drain!MainStates,
         Drain!Threads
  <2>3. inc' \in 1..Drains[i].MaxInc /\ path' \in 0..Drains[i].MaxInc
    BY <1>8 DEF Drain!Restart
  <2>5. cycles' \in 0..Drains[i].MaxCycles
    BY <1>8 DEF Drain!Restart
  <2>6. /\ wdPc'["main"] \in Drain(i)!MainStates
        /\ \A t \in Drain(i)!Loops : wdPc'[t] \in Drain(i)!LoopStates
        /\ wdPc'["heartbeat"] \in {"off", "op", "finishing", "gone"}
    BY <1>8 DEF Drain!Restart, Drain!Fresh, Drain!Threads, Drain!Loops,
         Drain!LoopStates, Drain!MainStates
  <2>7. /\ draining' \in BOOLEAN /\ stop' \in BOOLEAN /\ retired' \in BOOLEAN
        /\ fallback' \in BOOLEAN
    BY <1>8, Zenon DEF Drain!Restart
  <2>9. active' \in Int
    BY <1>8 DEF Drain!Restart
  <2>8. /\ req' \in [Drains[i].Requesters -> Drain(i)!Request]
        /\ told' \subseteq Drain(i)!Acknowledgement
    BY <1>8 DEF Drain!Restart
  <2>4. sock' \in [Drain(i)!Clients -> {"none", "live", "closing"}]
    BY <1>8 DEF Drain!Restart
  <2> QED
    BY <2>1, <2>2, <2>3, <2>4, <2>5, <2>6, <2>7, <2>8, <2>9
<1> USE DEF Drain!Alive, Drain!Loops, Drain!Threads, Drain!Clients, Drain!LoopStates,
     Drain!MainStates, Drain!Inside, Drain!Endpoint
<1>9. ASSUME NEW t \in Drain(i)!Threads, Drain(i)!Leave(t) PROVE Drain(i)!Typed'
  BY <1>9 DEF Drain!Leave
<1>10. ASSUME NEW t \in Drain(i)!Threads, Drain(i)!Finish(t) PROVE Drain(i)!Typed'
  BY <1>10 DEF Drain!Finish
<1>11. ASSUME NEW t \in Drain(i)!Threads, Drain(i)!End(t) PROVE Drain(i)!Typed'
  BY <1>11 DEF Drain!End
<1>12. ASSUME NEW t \in Drain(i)!Threads, Drain(i)!LeaveLoop(t) PROVE Drain(i)!Typed'
  BY <1>12 DEF Drain!LeaveLoop, Drain!LoopEnds
<1>13. ASSUME NEW c \in Drain(i)!Clients, Drain(i)!CloseClient(c) PROVE Drain(i)!Typed'
  BY <1>13 DEF Drain!CloseClient, Drain!Closed
<1>14. ASSUME NEW c \in Drain(i)!Clients, Drain(i)!SocketThreadEnds(c)
     PROVE Drain(i)!Typed'
  BY <1>14 DEF Drain!SocketThreadEnds
<1>15. ASSUME NEW c \in Drain(i)!Clients, Drain(i)!Enter(c) PROVE Drain(i)!Typed'
  BY <1>15 DEF Drain!Enter, Drain!Retain
<1>16. ASSUME NEW c \in Drain(i)!Clients, Drain(i)!OpenClient(c) PROVE Drain(i)!Typed'
  BY <1>16 DEF Drain!OpenClient
<1>17. CASE Drain(i)!Boot
  BY <1>17 DEF Drain!Boot, Drain!Retain, Drain!Fresh
<1>18. CASE Drain(i)!RefusedCycle
  BY <1>18 DEF Drain!RefusedCycle, Drain!Retain
<1>19. CASE Drain(i)!Retire
  <2>1. /\ sock' \in [Drain(i)!Clients -> {"none", "live", "closing"}]
        /\ retired' \in BOOLEAN
    BY <1>19 DEF Drain!Retire, Drain!Closed
  <2> QED
    BY <1>19, <2>1 DEF Drain!Retire
<1>20. CASE Drain(i)!LeaveMainLoop
  BY <1>20 DEF Drain!LeaveMainLoop
<1>21. CASE Drain(i)!Join
  BY <1>21 DEF Drain!Join
<1>22. CASE Drain(i)!RequestDrain
  BY <1>22 DEF Drain!RequestDrain
<1>23. CASE Drain(i)!CloseOwned
  BY <1>23 DEF Drain!CloseOwned, Drain!Drained, Drain!Closed
<1>24. CASE Drain(i)!CloseState
  BY <1>24 DEF Drain!CloseState, Drain!SocketsDrained, Drain!SocketsUp
<1>25. CASE Drain(i)!Exit
  BY <1>25 DEF Drain!Exit, Drain!Gone, Drain!NoEndpoint
<1>26. CASE Drain(i)!StartHeartbeat
  BY <1>26 DEF Drain!StartHeartbeat, Drain!Retain
<1>27. CASE Drain(i)!OpenStdio
  BY <1>27 DEF Drain!OpenStdio
<1>28. CASE Drain(i)!Signal
  BY <1>28 DEF Drain!Signal
<1>29. CASE Drain(i)!Crash
  BY <1>29 DEF Drain!Crash, Drain!Gone, Drain!NoEndpoint
<1>30. CASE Drain(i)!OperatorRemovesPath
  BY <1>30 DEF Drain!OperatorRemovesPath
<1> QED
  BY <1>1, <1>2, <1>3, <1>4, <1>5, <1>6, <1>7, <1>8, <1>9, <1>10, <1>11, <1>12, <1>13,
       <1>14, <1>15, <1>16, <1>17, <1>18, <1>19, <1>20, <1>21, <1>22, <1>23, <1>24,
       <1>25, <1>26, <1>27, <1>28, <1>29, <1>30
     DEF Drain!Next, Drain!ThreadStep, Drain!Work, Drain!Ask

\* The barrier's count stays the number of admitted operations and of tracked
\* threads that have not finished.
LEMMA DrainCounted ==
    ASSUME NEW i \in DOMAIN Drains, Drain(i)!Typed, Drain(i)!Counted, Drain(i)!Next
    PROVE  Drain(i)!Counted'
<1> USE DrainAllowed DEF Drain!Outside, Drain!process, Drain!Alive, Drain!Inside,
     Drain!Working, Drain!Loops, Drain!Threads, Drain!Clients, Drain!Typed,
     Drain!Counted, Drain!Counts, Drain!Tracked, Drain!One, Drain!LoopStates,
     Drain!MainStates
<1>1. ASSUME NEW t \in Drain(i)!Threads, Drain(i)!Leave(t) PROVE Drain(i)!Counted'
  BY <1>1 DEF Drain!Leave
<1>2. ASSUME NEW t \in Drain(i)!Threads, Drain(i)!Finish(t) PROVE Drain(i)!Counted'
  BY <1>2 DEF Drain!Finish
<1>3. ASSUME NEW t \in Drain(i)!Threads, Drain(i)!End(t) PROVE Drain(i)!Counted'
  BY <1>3 DEF Drain!End
<1>4. ASSUME NEW t \in Drain(i)!Threads, Drain(i)!LeaveLoop(t) PROVE Drain(i)!Counted'
  BY <1>4 DEF Drain!LeaveLoop, Drain!LoopEnds
<1>5. ASSUME NEW c \in Drain(i)!Clients, Drain(i)!CloseClient(c) PROVE Drain(i)!Counted'
  BY <1>5 DEF Drain!CloseClient, Drain!Closed
<1>6. ASSUME NEW c \in Drain(i)!Clients, Drain(i)!SocketThreadEnds(c)
     PROVE Drain(i)!Counted'
  BY <1>6 DEF Drain!SocketThreadEnds
<1>7. ASSUME NEW c \in Drain(i)!Clients, Drain(i)!Enter(c) PROVE Drain(i)!Counted'
  BY <1>7 DEF Drain!Enter, Drain!Retain
<1>8. ASSUME NEW c \in Drain(i)!Clients, Drain(i)!OpenClient(c) PROVE Drain(i)!Counted'
  BY <1>8 DEF Drain!OpenClient
<1>9. ASSUME NEW r \in Drains[i].Requesters, Drain(i)!Prepare(r) PROVE Drain(i)!Counted'
  BY <1>9 DEF Drain!Prepare
<1>10. ASSUME NEW r \in Drains[i].Requesters, Drain(i)!Accept(r) PROVE Drain(i)!Counted'
  BY <1>10 DEF Drain!Accept
<1>11. ASSUME NEW r \in Drains[i].Requesters, Drain(i)!Expire(r) PROVE Drain(i)!Counted'
  BY <1>11 DEF Drain!Expire
<1>12. ASSUME NEW r \in Drains[i].Requesters, Drain(i)!Observe(r)
     PROVE Drain(i)!Counted'
  BY <1>12 DEF Drain!Observe
<1>13. ASSUME NEW r \in Drains[i].Requesters, Drain(i)!Answer(r) PROVE Drain(i)!Counted'
  BY <1>13 DEF Drain!Answer
<1>14. ASSUME NEW r \in Drains[i].Requesters, Drain(i)!LoseReply(r)
     PROVE Drain(i)!Counted'
  BY <1>14 DEF Drain!LoseReply
<1>15. CASE Drain(i)!Boot
  <2>1. CASE ~draining /\ ~stop
    <3>1. /\ wdPc'["main"] = "loop" /\ wdPc'["control"] = "loop"
          /\ wdPc'["connect"] = "loop"
          /\ wdPc'["heartbeat"] = wdPc["heartbeat"] /\ active' = active + 2
          /\ tracked' = tracked \cup {"control", "connect"}
      BY <1>15, <2>1 DEF Drain!Boot, Drain!Retain
    <3>2. wdPc["main"] = "boot" /\ wdPc["control"] = "off" /\ wdPc["connect"] = "off"
      BY <1>15 DEF Drain!Boot
    <3> QED
      BY <3>1, <3>2
  <2>2. CASE draining \/ stop
    BY <1>15, <2>2, ZenonT(30) DEF Drain!Boot, Drain!Retain
  <2> QED
    BY <2>1, <2>2
<1>16. CASE Drain(i)!RefusedCycle
  BY <1>16 DEF Drain!RefusedCycle, Drain!Retain
<1>17. CASE Drain(i)!Retire
  BY <1>17 DEF Drain!Retire, Drain!Drained, Drain!Closed
<1>18. CASE Drain(i)!LeaveMainLoop
  BY <1>18 DEF Drain!LeaveMainLoop
<1>19. CASE Drain(i)!Join
  BY <1>19 DEF Drain!Join
<1>20. CASE Drain(i)!CloseEndpoint
  BY <1>20 DEF Drain!CloseEndpoint
<1>21. CASE Drain(i)!RequestDrain
  BY <1>21 DEF Drain!RequestDrain
<1>22. CASE Drain(i)!CloseOwned
  BY <1>22 DEF Drain!CloseOwned, Drain!Drained, Drain!Closed
<1>23. CASE Drain(i)!CloseState
  BY <1>23 DEF Drain!CloseState, Drain!SocketsDrained, Drain!SocketsUp
<1>24. CASE Drain(i)!Exit
  BY <1>24 DEF Drain!Exit, Drain!Gone, Drain!NoEndpoint
<1>25. CASE Drain(i)!StartHeartbeat
  BY <1>25 DEF Drain!StartHeartbeat, Drain!Retain
<1>26. CASE Drain(i)!OpenStdio
  BY <1>26 DEF Drain!OpenStdio
<1>27. CASE Drain(i)!Signal
  BY <1>27 DEF Drain!Signal
<1>28. CASE Drain(i)!Crash
  BY <1>28 DEF Drain!Crash, Drain!Gone, Drain!NoEndpoint
<1>29. CASE Drain(i)!Restart
  BY <1>29 DEF Drain!Restart, Drain!Fresh
<1>30. CASE Drain(i)!OperatorRemovesPath
  BY <1>30 DEF Drain!OperatorRemovesPath
<1> QED
  BY <1>1, <1>2, <1>3, <1>4, <1>5, <1>6, <1>7, <1>8, <1>9, <1>10, <1>11, <1>12, <1>13,
       <1>14, <1>15, <1>16, <1>17, <1>18, <1>19, <1>20, <1>21, <1>22, <1>23, <1>24,
       <1>25, <1>26, <1>27, <1>28, <1>29, <1>30
     DEF Drain!Next, Drain!ThreadStep, Drain!Work, Drain!Ask

\* close() passes its waits only when nothing admitted is left, and nothing
\* is admitted after them.
LEMMA DrainClosing ==
    ASSUME NEW i \in DOMAIN Drains, Drain(i)!Typed, Drain(i)!Counted,
           Drain(i)!ClosingIsIdle, Drain(i)!Next
    PROVE  Drain(i)!ClosingIsIdle'
<1> USE DrainAllowed DEF Drain!Outside, Drain!process, Drain!Alive, Drain!Inside,
     Drain!Working, Drain!Loops, Drain!Threads, Drain!Clients, Drain!Typed,
     Drain!Counted, Drain!Counts, Drain!Tracked, Drain!One, Drain!LoopStates,
     Drain!MainStates, Drain!ClosingIsIdle, Drain!Idle, Drain!SocketsUp
<1>1. ASSUME NEW t \in Drain(i)!Threads, Drain(i)!Leave(t) PROVE Drain(i)!ClosingIsIdle'
  BY <1>1 DEF Drain!Leave
<1>2. ASSUME NEW t \in Drain(i)!Threads, Drain(i)!Finish(t)
     PROVE Drain(i)!ClosingIsIdle'
  BY <1>2 DEF Drain!Finish
<1>3. ASSUME NEW t \in Drain(i)!Threads, Drain(i)!End(t) PROVE Drain(i)!ClosingIsIdle'
  BY <1>3 DEF Drain!End
<1>4. ASSUME NEW t \in Drain(i)!Threads, Drain(i)!LeaveLoop(t)
     PROVE Drain(i)!ClosingIsIdle'
  BY <1>4 DEF Drain!LeaveLoop, Drain!LoopEnds
<1>5. ASSUME NEW c \in Drain(i)!Clients, Drain(i)!CloseClient(c)
     PROVE Drain(i)!ClosingIsIdle'
  BY <1>5 DEF Drain!CloseClient, Drain!Closed
<1>6. ASSUME NEW c \in Drain(i)!Clients, Drain(i)!SocketThreadEnds(c)
     PROVE Drain(i)!ClosingIsIdle'
  BY <1>6 DEF Drain!SocketThreadEnds
<1>7. ASSUME NEW c \in Drain(i)!Clients, Drain(i)!Enter(c) PROVE Drain(i)!ClosingIsIdle'
  BY <1>7 DEF Drain!Enter, Drain!Retain
<1>8. ASSUME NEW c \in Drain(i)!Clients, Drain(i)!OpenClient(c)
     PROVE Drain(i)!ClosingIsIdle'
  BY <1>8 DEF Drain!OpenClient
<1>9. ASSUME NEW r \in Drains[i].Requesters, Drain(i)!Prepare(r)
     PROVE Drain(i)!ClosingIsIdle'
  BY <1>9 DEF Drain!Prepare
<1>10. ASSUME NEW r \in Drains[i].Requesters, Drain(i)!Accept(r)
     PROVE Drain(i)!ClosingIsIdle'
  BY <1>10 DEF Drain!Accept
<1>11. ASSUME NEW r \in Drains[i].Requesters, Drain(i)!Expire(r)
     PROVE Drain(i)!ClosingIsIdle'
  BY <1>11 DEF Drain!Expire
<1>12. ASSUME NEW r \in Drains[i].Requesters, Drain(i)!Observe(r)
     PROVE Drain(i)!ClosingIsIdle'
  BY <1>12 DEF Drain!Observe
<1>13. ASSUME NEW r \in Drains[i].Requesters, Drain(i)!Answer(r)
     PROVE Drain(i)!ClosingIsIdle'
  BY <1>13 DEF Drain!Answer
<1>14. ASSUME NEW r \in Drains[i].Requesters, Drain(i)!LoseReply(r)
     PROVE Drain(i)!ClosingIsIdle'
  BY <1>14 DEF Drain!LoseReply
<1>15. CASE Drain(i)!Boot
  BY <1>15 DEF Drain!Boot, Drain!Retain, Drain!Fresh
<1>16. CASE Drain(i)!RefusedCycle
  BY <1>16 DEF Drain!RefusedCycle, Drain!Retain
<1>17. CASE Drain(i)!Retire
  BY <1>17 DEF Drain!Retire, Drain!Drained, Drain!Closed
<1>18. CASE Drain(i)!LeaveMainLoop
  BY <1>18 DEF Drain!LeaveMainLoop
<1>19. CASE Drain(i)!Join
  BY <1>19 DEF Drain!Join
<1>20. CASE Drain(i)!CloseEndpoint
  BY <1>20 DEF Drain!CloseEndpoint
<1>21. CASE Drain(i)!RequestDrain
  BY <1>21 DEF Drain!RequestDrain
<1>22. CASE Drain(i)!CloseOwned
  BY <1>22 DEF Drain!CloseOwned, Drain!Drained, Drain!Closed
<1>23. CASE Drain(i)!CloseState
  BY <1>23 DEF Drain!CloseState, Drain!SocketsDrained, Drain!SocketsUp
<1>24. CASE Drain(i)!Exit
  BY <1>24 DEF Drain!Exit, Drain!Gone, Drain!NoEndpoint
<1>25. CASE Drain(i)!StartHeartbeat
  BY <1>25 DEF Drain!StartHeartbeat, Drain!Retain
<1>26. CASE Drain(i)!OpenStdio
  BY <1>26 DEF Drain!OpenStdio
<1>27. CASE Drain(i)!Signal
  BY <1>27 DEF Drain!Signal
<1>28. CASE Drain(i)!Crash
  BY <1>28 DEF Drain!Crash, Drain!Gone, Drain!NoEndpoint
<1>29. CASE Drain(i)!Restart
  BY <1>29 DEF Drain!Restart, Drain!Fresh
<1>30. CASE Drain(i)!OperatorRemovesPath
  BY <1>30 DEF Drain!OperatorRemovesPath
<1> QED
  BY <1>1, <1>2, <1>3, <1>4, <1>5, <1>6, <1>7, <1>8, <1>9, <1>10, <1>11, <1>12, <1>13,
       <1>14, <1>15, <1>16, <1>17, <1>18, <1>19, <1>20, <1>21, <1>22, <1>23, <1>24,
       <1>25, <1>26, <1>27, <1>28, <1>29, <1>30
     DEF Drain!Next, Drain!ThreadStep, Drain!Work, Drain!Ask

\* What a requester has seen of the process, or was told, stays so.
LEMMA DrainSeen ==
    ASSUME NEW i \in DOMAIN Drains, Drain(i)!Typed, Drain(i)!Counted,
           Drain(i)!ClosingIsIdle, Drain(i)!SeenIsSo, Drain(i)!OneClaim,
           Drain(i)!Next
    PROVE  Drain(i)!SeenIsSo'
<1> USE DrainAllowed DEF Drain!Outside, Drain!process, Drain!Alive, Drain!Inside,
     Drain!Working, Drain!Loops, Drain!Threads, Drain!Clients, Drain!Typed,
     Drain!Counted, Drain!Counts, Drain!Tracked, Drain!One, Drain!LoopStates,
     Drain!MainStates, Drain!ClosingIsIdle, Drain!Idle, Drain!SocketsUp, Drain!SeenIsSo,
     Drain!StaysTold, Drain!OneClaim, Drain!Request, Drain!Acknowledgement
<1>1. ASSUME NEW t \in Drain(i)!Threads, Drain(i)!Leave(t) PROVE Drain(i)!SeenIsSo'
  BY <1>1 DEF Drain!Leave
<1>2. ASSUME NEW t \in Drain(i)!Threads, Drain(i)!Finish(t) PROVE Drain(i)!SeenIsSo'
  BY <1>2 DEF Drain!Finish
<1>3. ASSUME NEW t \in Drain(i)!Threads, Drain(i)!End(t) PROVE Drain(i)!SeenIsSo'
  BY <1>3 DEF Drain!End
<1>4. ASSUME NEW t \in Drain(i)!Threads, Drain(i)!LeaveLoop(t) PROVE Drain(i)!SeenIsSo'
  BY <1>4 DEF Drain!LeaveLoop, Drain!LoopEnds
<1>5. ASSUME NEW c \in Drain(i)!Clients, Drain(i)!CloseClient(c)
     PROVE Drain(i)!SeenIsSo'
  BY <1>5 DEF Drain!CloseClient, Drain!Closed
<1>6. ASSUME NEW c \in Drain(i)!Clients, Drain(i)!SocketThreadEnds(c)
     PROVE Drain(i)!SeenIsSo'
  BY <1>6 DEF Drain!SocketThreadEnds
<1>7. ASSUME NEW c \in Drain(i)!Clients, Drain(i)!Enter(c) PROVE Drain(i)!SeenIsSo'
  BY <1>7 DEF Drain!Enter, Drain!Retain
<1>8. ASSUME NEW c \in Drain(i)!Clients, Drain(i)!OpenClient(c) PROVE Drain(i)!SeenIsSo'
  BY <1>8 DEF Drain!OpenClient
<1>9. ASSUME NEW r \in Drains[i].Requesters, Drain(i)!Prepare(r)
     PROVE Drain(i)!SeenIsSo'
  BY <1>9 DEF Drain!Prepare, Drain!NoRequest
<1>10. ASSUME NEW r \in Drains[i].Requesters, Drain(i)!Accept(r)
     PROVE Drain(i)!SeenIsSo'
  BY <1>10 DEF Drain!Accept, Drain!Matching, Drain!NoRequest
<1>11. ASSUME NEW r \in Drains[i].Requesters, Drain(i)!Expire(r)
     PROVE Drain(i)!SeenIsSo'
  BY <1>11 DEF Drain!Expire, Drain!NoRequest
<1>12. ASSUME NEW r \in Drains[i].Requesters, Drain(i)!Observe(r)
     PROVE Drain(i)!SeenIsSo'
  BY <1>12 DEF Drain!Observe, Drain!Drained, Drain!SocketsDrained, Drain!SocketsUp
<1>13. ASSUME NEW r \in Drains[i].Requesters, Drain(i)!Answer(r)
     PROVE Drain(i)!SeenIsSo'
  BY <1>13 DEF Drain!Answer
<1>14. ASSUME NEW r \in Drains[i].Requesters, Drain(i)!LoseReply(r)
     PROVE Drain(i)!SeenIsSo'
  BY <1>14 DEF Drain!LoseReply
<1>15. CASE Drain(i)!Boot
  BY <1>15 DEF Drain!Boot, Drain!Retain, Drain!Fresh
<1>16. CASE Drain(i)!RefusedCycle
  BY <1>16 DEF Drain!RefusedCycle, Drain!Retain
<1>17. CASE Drain(i)!Retire
  BY <1>17 DEF Drain!Retire, Drain!Drained, Drain!Closed
<1>18. CASE Drain(i)!LeaveMainLoop
  BY <1>18 DEF Drain!LeaveMainLoop
<1>19. CASE Drain(i)!Join
  BY <1>19 DEF Drain!Join
<1>20. CASE Drain(i)!CloseEndpoint
  BY <1>20 DEF Drain!CloseEndpoint
<1>21. CASE Drain(i)!RequestDrain
  BY <1>21 DEF Drain!RequestDrain
<1>22. CASE Drain(i)!CloseOwned
  BY <1>22 DEF Drain!CloseOwned, Drain!Drained, Drain!Closed
<1>23. CASE Drain(i)!CloseState
  BY <1>23 DEF Drain!CloseState, Drain!SocketsDrained, Drain!SocketsUp
<1>24. CASE Drain(i)!Exit
  BY <1>24 DEF Drain!Exit, Drain!Gone, Drain!NoEndpoint
<1>25. CASE Drain(i)!StartHeartbeat
  BY <1>25 DEF Drain!StartHeartbeat, Drain!Retain
<1>26. CASE Drain(i)!OpenStdio
  BY <1>26 DEF Drain!OpenStdio
<1>27. CASE Drain(i)!Signal
  BY <1>27 DEF Drain!Signal
<1>28. CASE Drain(i)!Crash
  BY <1>28 DEF Drain!Crash, Drain!Gone, Drain!NoEndpoint
<1>29. CASE Drain(i)!Restart
  BY <1>29 DEF Drain!Restart, Drain!Fresh
<1>30. CASE Drain(i)!OperatorRemovesPath
  BY <1>30 DEF Drain!OperatorRemovesPath
<1> QED
  BY <1>1, <1>2, <1>3, <1>4, <1>5, <1>6, <1>7, <1>8, <1>9, <1>10, <1>11, <1>12, <1>13,
       <1>14, <1>15, <1>16, <1>17, <1>18, <1>19, <1>20, <1>21, <1>22, <1>23, <1>24,
       <1>25, <1>26, <1>27, <1>28, <1>29, <1>30
     DEF Drain!Next, Drain!ThreadStep, Drain!Work, Drain!Ask

\* At most one requester is admitted to drain a process.
LEMMA DrainClaims ==
    ASSUME NEW i \in DOMAIN Drains, Drain(i)!Typed, Drain(i)!OneClaim, Drain(i)!Next
    PROVE  Drain(i)!OneClaim'
<1> USE DrainAllowed DEF Drain!Outside, Drain!process, Drain!Alive, Drain!Inside,
     Drain!Working, Drain!Loops, Drain!Threads, Drain!Clients, Drain!DrainBounds,
     Drain!Typed, Drain!OneClaim, Drain!Claims, Drain!Endpoint, Drain!Request,
     Drain!Acknowledgement
<1>1. ASSUME NEW t \in Drain(i)!Threads, Drain(i)!Leave(t) PROVE Drain(i)!OneClaim'
  BY <1>1 DEF Drain!Leave
<1>2. ASSUME NEW t \in Drain(i)!Threads, Drain(i)!Finish(t) PROVE Drain(i)!OneClaim'
  BY <1>2 DEF Drain!Finish
<1>3. ASSUME NEW t \in Drain(i)!Threads, Drain(i)!End(t) PROVE Drain(i)!OneClaim'
  BY <1>3 DEF Drain!End
<1>4. ASSUME NEW t \in Drain(i)!Threads, Drain(i)!LeaveLoop(t) PROVE Drain(i)!OneClaim'
  BY <1>4 DEF Drain!LeaveLoop, Drain!LoopEnds
<1>5. ASSUME NEW c \in Drain(i)!Clients, Drain(i)!CloseClient(c)
     PROVE Drain(i)!OneClaim'
  BY <1>5 DEF Drain!CloseClient, Drain!Closed
<1>6. ASSUME NEW c \in Drain(i)!Clients, Drain(i)!SocketThreadEnds(c)
     PROVE Drain(i)!OneClaim'
  BY <1>6 DEF Drain!SocketThreadEnds
<1>7. ASSUME NEW c \in Drain(i)!Clients, Drain(i)!Enter(c) PROVE Drain(i)!OneClaim'
  BY <1>7 DEF Drain!Enter, Drain!Retain
<1>8. ASSUME NEW c \in Drain(i)!Clients, Drain(i)!OpenClient(c) PROVE Drain(i)!OneClaim'
  BY <1>8 DEF Drain!OpenClient
<1>9. ASSUME NEW r \in Drains[i].Requesters, Drain(i)!Prepare(r)
     PROVE Drain(i)!OneClaim'
  BY <1>9 DEF Drain!Prepare, Drain!NoRequest
<1>10. ASSUME NEW r \in Drains[i].Requesters, Drain(i)!Accept(r)
     PROVE Drain(i)!OneClaim'
  <2>1. CASE ~Drain(i)!Matching(r)
    BY <1>10, <2>1 DEF Drain!Accept, Drain!NoRequest
  <2>2. CASE Drain(i)!Matching(r)
    <3>1. \A q \in Drains[i].Requesters : Drain(i)!Claims(q, inc) => q = r
      BY <2>2 DEF Drain!Matching
    <3>2. \A q \in Drains[i].Requesters : \A n \in Nat :
             Drain(i)!Claims(q, n)' => Drain(i)!Claims(q, n) \/ (q = r /\ n = inc)
      BY <1>10, <2>2 DEF Drain!Accept, Drain!Matching
    <3>3. /\ inc' = inc /\ told' = told /\ endpoint'.key = r
          /\ \A q \in Drains[i].Requesters : req'[q].inc = req[q].inc
      <4>1. /\ endpoint' = [endpoint EXCEPT !.key = r] /\ req' = [req EXCEPT ![r].pc = "accepted"]
            /\ inc' = inc /\ told' = told
        BY <1>10, <2>2 DEF Drain!Accept
      <4>2. endpoint'.key = r
        BY <4>1
      <4>3. \A q \in Drains[i].Requesters : req'[q].inc = req[q].inc
        BY <4>1
      <4> QED
        BY <4>1, <4>2, <4>3
    <3>4. inc \in Nat
      OBVIOUS
    <3> HIDE DEF Drain!Claims, Drain!Typed
    <3> QED
      BY <3>1, <3>2, <3>3, <3>4
  <2> QED
    BY <2>1, <2>2
<1>11. ASSUME NEW r \in Drains[i].Requesters, Drain(i)!Expire(r)
     PROVE Drain(i)!OneClaim'
  BY <1>11 DEF Drain!Expire, Drain!NoRequest
<1>12. ASSUME NEW r \in Drains[i].Requesters, Drain(i)!Observe(r)
     PROVE Drain(i)!OneClaim'
  BY <1>12 DEF Drain!Observe, Drain!Drained, Drain!SocketsDrained, Drain!SocketsUp
<1>13. ASSUME NEW r \in Drains[i].Requesters, Drain(i)!Answer(r)
     PROVE Drain(i)!OneClaim'
  BY <1>13 DEF Drain!Answer
<1>14. ASSUME NEW r \in Drains[i].Requesters, Drain(i)!LoseReply(r)
     PROVE Drain(i)!OneClaim'
  BY <1>14, SMTT(30) DEF Drain!LoseReply
<1>15. CASE Drain(i)!Boot
  BY <1>15 DEF Drain!Boot, Drain!Retain, Drain!Fresh
<1>16. CASE Drain(i)!RefusedCycle
  BY <1>16 DEF Drain!RefusedCycle, Drain!Retain
<1>17. CASE Drain(i)!Retire
  BY <1>17 DEF Drain!Retire, Drain!Drained, Drain!Closed
<1>18. CASE Drain(i)!LeaveMainLoop
  BY <1>18 DEF Drain!LeaveMainLoop
<1>19. CASE Drain(i)!Join
  BY <1>19 DEF Drain!Join
<1>20. CASE Drain(i)!CloseEndpoint
  BY <1>20 DEF Drain!CloseEndpoint
<1>21. CASE Drain(i)!RequestDrain
  BY <1>21 DEF Drain!RequestDrain
<1>22. CASE Drain(i)!CloseOwned
  BY <1>22 DEF Drain!CloseOwned, Drain!Drained, Drain!Closed
<1>23. CASE Drain(i)!CloseState
  BY <1>23 DEF Drain!CloseState, Drain!SocketsDrained, Drain!SocketsUp
<1>24. CASE Drain(i)!Exit
  BY <1>24 DEF Drain!Exit, Drain!Gone, Drain!NoEndpoint
<1>25. CASE Drain(i)!StartHeartbeat
  BY <1>25 DEF Drain!StartHeartbeat, Drain!Retain
<1>26. CASE Drain(i)!OpenStdio
  BY <1>26 DEF Drain!OpenStdio
<1>27. CASE Drain(i)!Signal
  BY <1>27 DEF Drain!Signal
<1>28. CASE Drain(i)!Crash
  BY <1>28 DEF Drain!Crash, Drain!Gone, Drain!NoEndpoint
<1>29. CASE Drain(i)!Restart
  BY <1>29 DEF Drain!Restart, Drain!Fresh
<1>30. CASE Drain(i)!OperatorRemovesPath
  BY <1>30 DEF Drain!OperatorRemovesPath
<1> QED
  BY <1>1, <1>2, <1>3, <1>4, <1>5, <1>6, <1>7, <1>8, <1>9, <1>10, <1>11, <1>12, <1>13,
       <1>14, <1>15, <1>16, <1>17, <1>18, <1>19, <1>20, <1>21, <1>22, <1>23, <1>24,
       <1>25, <1>26, <1>27, <1>28, <1>29, <1>30
     DEF Drain!Next, Drain!ThreadStep, Drain!Work, Drain!Ask
\* A process that has just started is drained of nothing and asked for nothing.
LEMMA DrainOpens ==
    ASSUME NEW i \in DOMAIN Drains, Drain(i)!Init
    PROVE  Drain(i)!DrainInv
<1> USE DrainAllowed DEF Drain!Init, Drain!Fresh, Drain!Threads, Drain!Loops,
     Drain!Clients
<1>1. Drain(i)!Typed
  <2>1. req \in [Drains[i].Requesters -> Drain(i)!Request]
    BY DEF Drain!Request, Drain!NoRequest
  <2>2. endpoint \in Drain(i)!Endpoint
    BY DEF Drain!Endpoint
  <2>3. /\ inc \in 1..Drains[i].MaxInc /\ path \in 0..Drains[i].MaxInc
        /\ cycles \in 0..Drains[i].MaxCycles
    BY DEF Drain!DrainBounds
  <2>4. /\ wdPc \in [Drain(i)!Threads -> Drain(i)!LoopStates \cup Drain(i)!MainStates]
        /\ wdPc["main"] \in Drain(i)!MainStates
        /\ \A t \in Drain(i)!Loops : wdPc[t] \in Drain(i)!LoopStates
        /\ wdPc["heartbeat"] \in {"off", "op", "finishing", "gone"}
    BY DEF Drain!LoopStates, Drain!MainStates
  <2>5. /\ sock \in [Drain(i)!Clients -> {"none", "live", "closing"}] /\ told = {}
        /\ active \in Int
    OBVIOUS
  <2>6. /\ draining \in BOOLEAN /\ stop \in BOOLEAN /\ retired \in BOOLEAN
        /\ fallback \in BOOLEAN
    BY Zenon DEF Drain!Init
  <2> HIDE DEF Drain!Init
  <2> QED
    BY <2>1, <2>2, <2>3, <2>4, <2>5, <2>6 DEF Drain!Typed
<1>2. Drain(i)!Counted
  BY DEF Drain!Counted, Drain!Counts, Drain!Tracked, Drain!One, Drain!Inside,
       Drain!Alive
<1>3. Drain(i)!ClosingIsIdle
  BY DEF Drain!ClosingIsIdle
<1>4. Drain(i)!SeenIsSo /\ Drain(i)!OneClaim
  BY DEF Drain!SeenIsSo, Drain!StaysTold, Drain!OneClaim, Drain!Claims, Drain!NoRequest
<1> QED
  BY <1>1, <1>2, <1>3, <1>4 DEF Drain!DrainInv

\* Taking an element out of a finite set takes one off its count.
LEMMA CountWithout ==
    ASSUME NEW S, IsFiniteSet(S), NEW x
    PROVE  /\ IsFiniteSet(S \ {x})
           /\ Cardinality(S) = Cardinality(S \ {x}) + (IF x \in S THEN 1 ELSE 0)
<1>1. Cardinality(S) \in Nat
  BY FS_CardinalityType
<1>2. /\ IsFiniteSet(S \ {x})
      /\ Cardinality(S \ {x}) = IF x \in S THEN Cardinality(S) - 1 ELSE Cardinality(S)
  BY FS_RemoveElement
<1> QED
  BY <1>1, <1>2

\* The count of a set of threads is the sum over the threads.
LEMMA CountThreads ==
    ASSUME NEW S \in SUBSET {"main", "control", "connect", "heartbeat"}
    PROVE  Cardinality(S) = (IF "main" \in S THEN 1 ELSE 0)
                            + (IF "control" \in S THEN 1 ELSE 0)
                            + (IF "connect" \in S THEN 1 ELSE 0)
                            + (IF "heartbeat" \in S THEN 1 ELSE 0)
<1> DEFINE A == S \ {"main"}
           B == A \ {"control"}
           C == B \ {"connect"}
<1>1. IsFiniteSet(S)
  <2> DEFINE T == {"main", "control", "connect"}
  <2>1. IsFiniteSet({"main"} \cup {"control"})
    BY FS_Singleton, FS_AddElement
  <2>2. IsFiniteSet(({"main"} \cup {"control"}) \cup {"connect"})
    BY <2>1, FS_AddElement
  <2>3. IsFiniteSet(T)
    <3>1. T = ({"main"} \cup {"control"}) \cup {"connect"}
      OBVIOUS
    <3> QED
      BY <2>2, <3>1
  <2>4. IsFiniteSet(T \cup {"heartbeat"})
    BY <2>3, FS_AddElement
  <2>5. S \in SUBSET (T \cup {"heartbeat"})
    OBVIOUS
  <2> QED
    BY <2>4, <2>5, FS_Subset
<1>2. /\ IsFiniteSet(A)
      /\ Cardinality(S) = Cardinality(A) + (IF "main" \in S THEN 1 ELSE 0)
  BY <1>1, CountWithout
<1>3. /\ IsFiniteSet(B)
      /\ Cardinality(A) = Cardinality(B) + (IF "control" \in A THEN 1 ELSE 0)
  BY <1>2, CountWithout
<1>4. /\ IsFiniteSet(C)
      /\ Cardinality(B) = Cardinality(C) + (IF "connect" \in B THEN 1 ELSE 0)
  BY <1>3, CountWithout
<1>5. Cardinality(C) = Cardinality(C \ {"heartbeat"})
                      + (IF "heartbeat" \in C THEN 1 ELSE 0)
  BY <1>4, CountWithout
<1>6. C \ {"heartbeat"} = {}
  OBVIOUS
<1>7. Cardinality({}) = 0
  BY FS_EmptySet
<1>8. /\ "control" \in A <=> "control" \in S
      /\ "connect" \in B <=> "connect" \in S
      /\ "heartbeat" \in C <=> "heartbeat" \in S
  OBVIOUS
<1> HIDE DEF A, B, C
<1> QED
  BY <1>2, <1>3, <1>4, <1>5, <1>6, <1>7, <1>8

\* The component counts as this module does.
LEMMA DrainCardinality ==
    ASSUME NEW i \in DOMAIN Drains, NEW S
    PROVE  Drain(i)!Cardinality(S) = Cardinality(S)
BY DEF Drain!Cardinality, Cardinality

\* What the properties ask for follows from the invariant.
LEMMA DrainSays ==
    ASSUME NEW i \in DOMAIN Drains, Drain(i)!DrainInv
    PROVE  /\ Drain(i)!TypeOK
           /\ Drain(i)!OneRequest
           /\ Drain(i)!CloseIsLast
           /\ Drain(i)!DrainAckIsTrue
           /\ Drain(i)!SocketAckIsTrue
<1> USE DEF Drain!DrainInv
<1>1. Drain(i)!TypeOK
  <2> DEFINE Ops == {t \in Drain(i)!Clients : wdPc[t] \in Drain(i)!Inside}
             Kept == {t \in tracked : wdPc[t] # "finishing"}
  <2>1. CASE Drain(i)!Alive
    <3>1. /\ Cardinality(Ops) = (IF "main" \in Ops THEN 1 ELSE 0)
                                + (IF "control" \in Ops THEN 1 ELSE 0)
                                + (IF "connect" \in Ops THEN 1 ELSE 0)
          /\ Cardinality(Kept) = (IF "main" \in Kept THEN 1 ELSE 0)
                                 + (IF "control" \in Kept THEN 1 ELSE 0)
                                 + (IF "connect" \in Kept THEN 1 ELSE 0)
                                 + (IF "heartbeat" \in Kept THEN 1 ELSE 0)
      <4>1. /\ Ops \in SUBSET {"main", "control", "connect", "heartbeat"}
            /\ "heartbeat" \notin Ops
            /\ Kept \in SUBSET {"main", "control", "connect", "heartbeat"}
        BY DEF Drain!Counted, Drain!Threads, Drain!Loops, Drain!Clients
      <4> QED
        BY <4>1, CountThreads
    <3>2. active = Cardinality(Ops) + Cardinality(Kept)
      BY <2>1, <3>1 DEF Drain!Counted, Drain!Counts, Drain!Tracked, Drain!One,
                   Drain!Threads, Drain!Loops, Drain!Clients
    <3> QED
      BY <3>2, DrainCardinality DEF Drain!TypeOK, Drain!Typed, Drain!Counted
  <2>2. CASE ~Drain(i)!Alive
    BY <2>2 DEF Drain!TypeOK, Drain!Typed, Drain!Counted
  <2> QED
    BY <2>1, <2>2
<1>2. Drain(i)!OneRequest
  <2> SUFFICES ASSUME NEW a \in told, NEW b \in told, a.inc = b.inc
               PROVE  a.r = b.r
    BY DEF Drain!OneRequest
  <2>1. /\ a.r \in Drains[i].Requesters /\ b.r \in Drains[i].Requesters
        /\ a.inc \in Nat
    BY DEF Drain!Typed, Drain!Acknowledgement
  <2> QED
    BY <2>1 DEF Drain!OneClaim, Drain!Claims
<1>3. Drain(i)!CloseIsLast
  BY DEF Drain!CloseIsLast, Drain!ClosingIsIdle, Drain!Idle
<1>4. Drain(i)!DrainAckIsTrue /\ Drain(i)!SocketAckIsTrue
  BY DEF Drain!DrainAckIsTrue, Drain!SocketAckIsTrue, Drain!SeenIsSo, Drain!StaysTold,
         Drain!Idle
<1> QED
  BY <1>1, <1>2, <1>3, <1>4

\* Whatever crashes, is lost, fails or times out, a requester is told that a
\* process is drained only when nothing of it is left, one request drains a
\* process, and its database is closed after its last user
\* (worker_activity_barrier.py, worker_control_socket.py).
THEOREM DrainsAreHonest == Spec => []DrainIsHonest
<1> DEFINE Inv == \A i \in DOMAIN Drains : Runs("drain", i) => Drain(i)!DrainInv
<1>1. Init => Inv
  BY DrainOpens DEF Init, Runs
<1>2. Inv /\ [Next]_vars => Inv'
  <2>1. ASSUME Inv, Next PROVE Inv'
    BY <2>1, DrainTyped, DrainCounted, DrainClosing, DrainSeen, DrainClaims
       DEF Next, Runs, Drain!DrainInv
  <2>2. ASSUME Inv, UNCHANGED vars PROVE Inv'
    BY <2>2 DEF vars, WorkerDrainVars, Runs, Drain!DrainInv, Drain!Typed, Drain!Counted,
       Drain!Counts, Drain!Tracked, Drain!Alive, Drain!ClosingIsIdle, Drain!Idle,
       Drain!SocketsUp, Drain!SeenIsSo, Drain!StaysTold, Drain!OneClaim, Drain!Claims
  <2> QED
    BY <2>1, <2>2
<1>3. Inv => DrainIsHonest
  BY DrainSays DEF DrainIsHonest
<1> QED
  BY <1>1, <1>2, <1>3, PTL DEF Spec
==============================================================================
