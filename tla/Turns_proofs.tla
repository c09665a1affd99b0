----------------------------- MODULE Turns_proofs -----------------------------
(***************************************************************************)
(* Theorems about the interrupts of a turn and about both transports, for  *)
(* every bound. Of each: the types first; then what a step leaves alone,   *)
(* or the alternatives a step takes with everything it changes             *)
(* (StdioSteps, SocketSteps); one lemma per action or per part of the      *)
(* invariant.                                                              *)
(***************************************************************************)
EXTENDS Turns, TLAPS, WellFoundedInduction

\* The constants meet the module's assumption.
LEMMA ControlAllowed ==
    /\ ControlStops \in Nat /\ ControlReads \in Nat /\ ControlReads # 0 /\ ControlStops # 0
    /\ "live" \notin ControlLate /\ "worker" \notin ControlLate /\ "none" \notin ControlLate
BY TurnsAllowed DEF Control!ControlAssumption

\* What the variables hold, field by field.
LEMMA ControlFields ==
    ASSUME Control!Typed
    PROVE  /\ control.accepted \in BOOLEAN /\ control.started \in BOOLEAN
           /\ control.owner \in Control!Threads \cup {"none"}
           /\ control.outcome \in Control!Outcomes \cup {"none"}
           /\ control.quiesced \in BOOLEAN /\ control.stop \in 0..ControlStops
           /\ control.reads \in 0..ControlReads /\ control.claim \in 0..ControlReads
           /\ \A t \in Control!Threads :
                 /\ th[t] \in Control!Actor
                 /\ th[t].pc \in Control!Steps
                 /\ th[t].claim \in 0..ControlReads
                 /\ th[t].result \in Control!Outcomes \cup Control!Over
                 /\ th[t].tries \in Nat
BY DEF Control!Typed, Control!Controls, Control!Actor

\* What the actors write is of its type.
LEMMA ControlActor ==
    /\ Control!Resting \in Control!Actor
    /\ \A a \in Control!Actor :
          /\ \A p \in Control!Steps : [a EXCEPT !.pc = p] \in Control!Actor
          /\ \A m \in {"stop", "ingress", "protective"} : [a EXCEPT !.mode = m] \in Control!Actor
          /\ \A c \in 0..ControlReads : [a EXCEPT !.claim = c] \in Control!Actor
          /\ \A r \in Control!Outcomes \cup Control!Over : [a EXCEPT !.result = r] \in Control!Actor
          /\ \A n \in Nat : [a EXCEPT !.tries = n] \in Control!Actor
BY ControlAllowed DEF Control!Actor, Control!Resting, Control!NoClaim, Control!Steps, Control!Outcomes

LEMMA ControlMoves ==
    ASSUME Control!Typed, NEW t \in Control!Threads, NEW p \in Control!Steps
    PROVE  /\ \A a \in Control!Actor : [th EXCEPT ![t] = a] \in [Control!Threads -> Control!Actor]
           /\ [th EXCEPT ![t].pc = p] \in [Control!Threads -> Control!Actor]
           /\ \A m \in {"stop", "ingress", "protective"} :
                 /\ [th EXCEPT ![t].pc = p, ![t].mode = m] \in [Control!Threads -> Control!Actor]
                 /\ [th EXCEPT ![t].mode = m] \in [Control!Threads -> Control!Actor]
                 /\ \A c \in 0..ControlReads :
                       [th EXCEPT ![t].pc = p, ![t].mode = m, ![t].claim = c]
                          \in [Control!Threads -> Control!Actor]
           /\ \A r \in Control!Outcomes \cup Control!Over :
                 [th EXCEPT ![t].pc = p, ![t].result = r] \in [Control!Threads -> Control!Actor]
BY ControlActor DEF Control!Typed

\* A try that ends leaves an actor, whoever it was.
LEMMA ControlLeaves ==
    ASSUME Control!Typed, NEW t \in Control!Threads, Control!Leave(t)
    PROVE  th' \in [Control!Threads -> Control!Actor]
<1>1. PICK a : th' = [th EXCEPT ![t] = a] /\ a \in Control!Actor
  <2>0. /\ "exit" \in Control!Steps /\ "finish" \in Control!Steps /\ "dead" \in Control!Steps
        /\ th[t].tries + 1 \in Nat /\ th[t].claim \in 0..ControlReads
    BY ControlFields DEF Control!Steps
  <2>1. CASE t \in ControlLate
    <3>1. [Control!Resting EXCEPT !.pc = "exit"] \in Control!Actor
      BY <2>0, ControlActor
    <3>2. [Control!Resting EXCEPT !.pc = "exit", !.claim = th[t].claim] \in Control!Actor
      BY <2>0, <3>1, ControlActor
    <3>3. th' = [th EXCEPT ![t] = [Control!Resting EXCEPT !.pc = "exit", !.claim = th[t].claim]]
      BY <2>1, ControlAllowed DEF Control!Leave
    <3> QED
      BY <3>2, <3>3
  <2>2. CASE t = "worker"
    <3>1. th' = [th EXCEPT ![t] = [Control!Resting EXCEPT !.pc = "finish"]]
      BY <2>2, ControlAllowed DEF Control!Leave
    <3> QED
      BY <2>0, <3>1, ControlActor
  <2>3. CASE t \notin ControlLate /\ t # "worker"
    <3>1. \/ th' = [th EXCEPT ![t] = [Control!Resting EXCEPT !.tries = th[t].tries + 1]]
          \/ th' = [th EXCEPT ![t] = [Control!Resting EXCEPT !.pc = "dead"]]
      BY <2>3 DEF Control!Leave
    <3> QED
      BY <2>0, <3>1, ControlActor
  <2> QED
    BY <2>1, <2>2, <2>3
<1> QED
  BY <1>1, ControlMoves DEF Control!Steps

\* What is written of the control is of its type.
LEMMA ControlRecord ==
    ASSUME NEW c \in Control!Controls
    PROVE  /\ \A b \in BOOLEAN :
                 /\ [c EXCEPT !.accepted = b] \in Control!Controls
                 /\ [c EXCEPT !.started = b] \in Control!Controls
                 /\ [c EXCEPT !.ingress = b] \in Control!Controls
                 /\ [c EXCEPT !.quiesced = b] \in Control!Controls
                 /\ [c EXCEPT !.fresh = b] \in Control!Controls
           /\ \A t \in Control!Threads : [c EXCEPT !.owner = t] \in Control!Controls
           /\ \A r \in Control!Outcomes : [c EXCEPT !.outcome = r] \in Control!Controls
           /\ \A n \in 0..ControlStops : [c EXCEPT !.stop = n] \in Control!Controls
           /\ \A n \in 0..ControlReads :
                 /\ [c EXCEPT !.reads = n] \in Control!Controls
                 /\ [c EXCEPT !.claim = n] \in Control!Controls
BY DEF Control!Controls

\* The stop that is bound is one of the pending ones.
LEMMA ControlBinds ==
    ASSUME NEW S \in SUBSET (1..ControlStops), S # {}
    PROVE  Control!Oldest(S) \in S
<1>1. S \subseteq Nat
  BY ControlAllowed
<1>2. PICK s \in S : \A r \in S : ~(<<r, s>> \in OpToRel(<, Nat))
  BY <1>1, NatLessThanWellFounded, WFMin
<1>3. \A r \in S : s <= r
  <2>1. SUFFICES ASSUME NEW r \in S PROVE s <= r
    OBVIOUS
  <2>2. ~(r < s) /\ r \in Nat /\ s \in Nat
    BY <1>1, <1>2 DEF OpToRel
  <2> QED
    BY <2>2
<1> QED
  BY <1>3 DEF Control!Oldest

\* So is the stop that is bound.
LEMMA ControlBound ==
    ASSUME Control!Typed, NEW S \in SUBSET (1..ControlStops)
    PROVE  /\ S # {} => Control!Oldest(S) \in 0..ControlStops
           /\ Control!Bound(S) \in 0..ControlStops
           /\ Control!Pending \in SUBSET (1..ControlStops)
           /\ Control!CompletedStops \in [1..ControlStops -> {"none", "pending", "done"}]
<1>1. S # {} => Control!Oldest(S) \in 0..ControlStops
  <2>1. ASSUME S # {} PROVE Control!Oldest(S) \in 1..ControlStops
    BY <2>1, ControlBinds
  <2>2. 1..ControlStops \subseteq 0..ControlStops
    BY ControlAllowed
  <2> QED
    BY <2>1, <2>2
<1>2. Control!Bound(S) \in 0..ControlStops
  BY <1>1, ControlFields DEF Control!Bound
<1>3. Control!CompletedStops \in [1..ControlStops -> {"none", "pending", "done"}]
  BY DEF Control!CompletedStops, Control!Typed
<1>4. Control!Pending \in SUBSET (1..ControlStops)
  BY DEF Control!Pending
<1> QED
  BY <1>1, <1>2, <1>3, <1>4

\* A job that ends is a job.
LEMMA ControlEnds ==
    ASSUME Control!Typed, NEW x \in {"closed", "indeterminate"}, NEW b \in BOOLEAN,
           Control!EndJob(x, b)
    PROVE  /\ tcJob' \in Control!Jobs
           /\ tcStops' \in [1..ControlStops -> {"none", "pending", "done"}]
           /\ evidence' \in BOOLEAN /\ tcTurn' = tcTurn /\ tcResolved' = tcResolved
BY ControlBound DEF Control!EndJob, Control!Typed, Control!Jobs

\* What is on the wire, field by field, and what the actors make of it.
LEMMA ControlWire ==
    ASSUME Control!Typed
    PROVE  /\ rpc.sent \in Nat /\ rpc.flying \in Nat /\ rpc.answer \in Control!Answers \cup {"none"}
           /\ \A m, n \in Nat, a \in Control!Answers \cup {"none"} :
                 [rpc EXCEPT !.sent = m, !.flying = n, !.answer = a] \in Control!Wires
           /\ \A n \in Nat, a \in Control!Answers \cup {"none"} :
                 [rpc EXCEPT !.flying = n, !.answer = a] \in Control!Wires
           /\ \A a \in Control!Answers \cup {"none"} : [rpc EXCEPT !.answer = a] \in Control!Wires
BY DEF Control!Typed, Control!Wires

\* A result that is saved is saved in the job.
LEMMA ControlSaves ==
    ASSUME Control!Typed
    PROVE  [tcJob EXCEPT !.saved = tcJob.saved \/ (tcTurn = "completed" /\ tcJob.lease)]
              \in Control!Jobs
<1>1. (tcJob.saved \/ (tcTurn = "completed" /\ tcJob.lease)) \in BOOLEAN
  OBVIOUS
<1>2. \A b \in BOOLEAN : [tcJob EXCEPT !.saved = b] \in Control!Jobs
  BY DEF Control!Typed, Control!Jobs
<1> QED
  BY <1>1, <1>2

\* Every step of every actor keeps the types.
LEMMA ControlTyped ==
    ASSUME Control!Typed, Control!OutcomeFits, Control!Next
    PROVE  Control!Typed'
<1>1. ASSUME NEW c \in BOOLEAN, Control!Accept(c) PROVE Control!Typed'
  <2>1. th' \in [Control!Threads -> Control!Actor]
    <3>1. PICK p \in {"run", "read"} : th' = [th EXCEPT !["worker"].pc = p]
      <4>1. CASE c
        <5>1. th' = [th EXCEPT !["worker"].pc = "run"]
          BY <1>1, <4>1, Zenon DEF Control!Accept, Control!Goto
        <5> QED
          BY <5>1
      <4>2. CASE ~c
        <5>1. th' = [th EXCEPT !["worker"].pc = "read"]
          BY <1>1, <4>2, Zenon DEF Control!Accept, Control!Goto
        <5> QED
          BY <5>1
      <4> QED
        BY <4>1, <4>2
    <3>2. p \in Control!Steps /\ "worker" \in Control!Threads
      BY <3>1 DEF Control!Steps, Control!Threads
    <3> QED
      BY <3>1, <3>2, ControlMoves
  <2>0. 0 \in 0..ControlStops /\ (Control!Pending # {} => Control!Oldest(Control!Pending) \in 0..ControlStops)
    <3>1. Control!Pending \in SUBSET (1..ControlStops)
      BY DEF Control!Pending
    <3>2. Control!Pending # {} => Control!Oldest(Control!Pending) \in 0..ControlStops
      BY <3>1, ControlBound
    <3> QED
      BY <3>2, ControlAllowed
  <2>2. PICK n \in 0..ControlStops : control' = [control EXCEPT !.accepted = c, !.stop = n]
    <3> DEFINE n == IF c /\ Control!Pending # {} THEN Control!Oldest(Control!Pending) ELSE 0
    <3>1. n \in 0..ControlStops
      BY <2>0
    <3>2. control' = [control EXCEPT !.accepted = c, !.stop = n]
      BY <1>1 DEF Control!Accept
    <3> HIDE DEF n
    <3> QED
      BY <3>1, <3>2
  <2>3. control' \in Control!Controls
    BY <2>2, ControlRecord DEF Control!Typed
  <2> QED
    BY <1>1, <2>1, <2>3 DEF Control!Accept, Control!Typed, Control!jobVars
<1>2. ASSUME NEW c \in BOOLEAN, Control!Handle(c) PROVE Control!Typed'
  <2>0. rpc.flying \in Nat /\ rpc.flying > 0
    BY <1>2, ControlWire DEF Control!Handle
  <2>1. rpc.flying - 1 \in Nat
    BY <2>0
  <2>2. rpc' \in Control!Wires
    BY <1>2, <2>1, ControlWire DEF Control!Handle, Control!Answers
  <2> QED
    BY <1>2, <2>2 DEF Control!Handle, Control!Typed, Control!Over
<1>3. ASSUME NEW s \in 1..ControlStops, Control!RequestStop(s) PROVE Control!Typed'
  <2>1. \A b \in BOOLEAN : [tcStops EXCEPT ![s] = IF b THEN "pending" ELSE "done"]
                  \in [1..ControlStops -> {"none", "pending", "done"}]
    BY DEF Control!Typed
  <2>2. control' \in Control!Controls
    <3>1. PICK S \in SUBSET (1..ControlStops) : control' = [control EXCEPT !.stop = Control!Bound(S)]
      BY <1>3, ControlBound DEF Control!RequestStop
    <3> QED
      BY <3>1, ControlRecord, ControlBound DEF Control!Typed
  <2> QED
    BY <1>3, <2>1, <2>2 DEF Control!RequestStop, Control!Typed
<1>4. ASSUME Control!TurnEnds PROVE Control!Typed'
  BY <1>4, ControlAllowed DEF Control!TurnEnds, Control!Typed, Control!Controls, Control!Actor,
            Control!At, Control!Goto, Control!jobVars, Control!Threads, Control!Resting,
            Control!Outcomes, Control!Over, Control!Answers, Control!Steps,
            Control!NoClaim, Control!CompletedStops
<1>5. ASSUME Control!IngressTurns PROVE Control!Typed'
  BY <1>5, ControlAllowed DEF Control!IngressTurns, Control!Typed, Control!Controls, Control!Actor,
            Control!At, Control!Goto, Control!jobVars, Control!Threads, Control!Resting,
            Control!Outcomes, Control!Over, Control!Answers, Control!Steps,
            Control!NoClaim, Control!CompletedStops
<1>6. ASSUME Control!LeaseExpires PROVE Control!Typed'
  <2>1. tcJob' \in Control!Jobs
    BY <1>6 DEF Control!LeaseExpires, Control!Typed, Control!Jobs
  <2> QED
    BY <1>6, <2>1 DEF Control!LeaseExpires, Control!Typed
<1>7. ASSUME NEW seenT \in {"unknown", "active", "completed", "interrupted"}, Control!RecoverStale(seenT) PROVE Control!Typed'
  <2>1. \E x \in {"closed", "indeterminate"}, b \in BOOLEAN : Control!EndJob(x, b)
    BY <1>7 DEF Control!RecoverStale
  <2> QED
    BY <1>7, <2>1, ControlEnds DEF Control!RecoverStale, Control!Typed
<1>8. ASSUME Control!ResolveIndeterminate PROVE Control!Typed'
  BY <1>8, ControlAllowed DEF Control!ResolveIndeterminate, Control!Typed, Control!Controls,
            Control!Actor, Control!At, Control!Goto, Control!jobVars, Control!Threads,
            Control!Resting, Control!Outcomes, Control!Over, Control!Answers,
            Control!Steps, Control!NoClaim, Control!CompletedStops
<1>9. ASSUME Control!StartOther PROVE Control!Typed'
  BY <1>9, ControlAllowed DEF Control!StartOther, Control!Unsettled, Control!OwnerClosed,
            Control!Typed, Control!Controls, Control!Actor, Control!At, Control!Goto,
            Control!jobVars, Control!Threads, Control!Resting, Control!Outcomes,
            Control!Over, Control!Answers, Control!Steps, Control!NoClaim,
            Control!CompletedStops
<1>10. ASSUME Control!WorkerWakes PROVE Control!Typed'
  <2>1. th' \in [Control!Threads -> Control!Actor]
    <3>1. "worker" \in Control!Threads /\ "finish" \in Control!Steps /\ "read" \in Control!Steps
      BY DEF Control!Threads, Control!Steps
    <3>2. \/ /\ th' = [th EXCEPT !["worker"].pc = "finish", !["worker"].result = tcTurn]
             /\ tcTurn \in Control!Over
          \/ th' = [th EXCEPT !["worker"].pc = "read", !["worker"].mode = "protective"]
      BY <1>10 DEF Control!WorkerWakes, Control!Typed
    <3>3. CASE th' = [th EXCEPT !["worker"].pc = "read", !["worker"].mode = "protective"]
      BY <3>1, <3>3, ControlMoves
    <3>4. CASE /\ th' = [th EXCEPT !["worker"].pc = "finish", !["worker"].result = tcTurn]
               /\ tcTurn \in Control!Over
      BY <3>1, <3>4, ControlMoves
    <3> QED
      BY <3>2, <3>3, <3>4
  <2>2. tcJob' \in Control!Jobs
    BY <1>10, ControlSaves DEF Control!WorkerWakes, Control!Typed
  <2> QED
    BY <1>10, <2>1, <2>2 DEF Control!WorkerWakes, Control!Typed
<1>11. ASSUME Control!WorkerFinish PROVE Control!Typed'
  <2>1. th' \in [Control!Threads -> Control!Actor]
    BY <1>11, ControlMoves DEF Control!WorkerFinish, Control!Goto, Control!Steps, Control!Threads
  <2>2. \/ UNCHANGED <<tcTurn, tcJob, evidence, tcResolved, tcStops>>
        \/ \E x \in {"closed", "indeterminate"}, b \in BOOLEAN : Control!EndJob(x, b)
    BY <1>11 DEF Control!WorkerFinish, Control!jobVars
  <2> QED
    BY <1>11, <2>1, <2>2, ControlEnds DEF Control!WorkerFinish, Control!Typed
<1>12. ASSUME Control!CrashWorker PROVE Control!Typed'
  <2>1. th' \in [Control!Threads -> Control!Actor]
    <3>1. [Control!Resting EXCEPT !.pc = "dead"] \in Control!Actor
      BY ControlActor DEF Control!Steps
    <3> QED
      BY <1>12, <3>1 DEF Control!CrashWorker, Control!Typed
  <2> QED
    BY <1>12, <2>1 DEF Control!CrashWorker, Control!Typed, Control!jobVars
<1>13. ASSUME Control!ClaimExpires PROVE Control!Typed'
  BY <1>13, ControlAllowed DEF Control!ClaimExpires, Control!Typed, Control!Controls, Control!Actor,
            Control!At, Control!Goto, Control!jobVars, Control!Threads, Control!Resting,
            Control!Outcomes, Control!Over, Control!Answers, Control!Steps,
            Control!NoClaim, Control!CompletedStops
<1>14. ASSUME NEW mode \in {"stop", "ingress"}, Control!LiveStart(mode) PROVE Control!Typed'
  <2>1. th' \in [Control!Threads -> Control!Actor]
    <3>1. PICK p \in {"dead", "read"} :
             th' = [th EXCEPT !["live"].pc = p, !["live"].mode = mode]
      <4>1. CASE control.started
        <5>1. th' = [th EXCEPT !["live"].pc = "dead", !["live"].mode = mode]
          BY <1>14, <4>1, Zenon DEF Control!LiveStart
        <5> QED
          BY <5>1
      <4>2. CASE ~control.started
        <5>1. th' = [th EXCEPT !["live"].pc = "read", !["live"].mode = mode]
          BY <1>14, <4>2, Zenon DEF Control!LiveStart
        <5> QED
          BY <5>1
      <4> QED
        BY <4>1, <4>2
    <3>2. /\ p \in Control!Steps /\ "live" \in Control!Threads
          /\ mode \in {"stop", "ingress", "protective"}
      BY <1>14, <3>1 DEF Control!Steps, Control!Threads
    <3> QED
      BY <3>1, <3>2, ControlMoves
  <2> QED
    BY <1>14, <2>1 DEF Control!LiveStart, Control!Typed, Control!jobVars
<1>15. ASSUME NEW t \in ControlLate, NEW mode \in {"stop", "ingress"}, Control!LateClaim(t, mode) PROVE Control!Typed'
  <2>0. control.reads + 1 \in 0..ControlReads /\ t \in Control!Threads
    BY <1>15, ControlFields, ControlAllowed DEF Control!LateClaim, Control!Claimable, Control!Threads
  <2>1. th' \in [Control!Threads -> Control!Actor]
    <3>1. mode \in {"stop", "ingress", "protective"} /\ "read" \in Control!Steps
      BY DEF Control!Steps
    <3>2. th' = [th EXCEPT ![t].pc = "read", ![t].mode = mode, ![t].claim = control.reads + 1]
      BY <1>15 DEF Control!LateClaim
    <3>3. [[th[t] EXCEPT !.pc = "read"] EXCEPT !.mode = mode] \in Control!Actor
      BY <2>0, <3>1, ControlActor, ControlFields
    <3>4. [[[th[t] EXCEPT !.pc = "read"] EXCEPT !.mode = mode] EXCEPT !.claim = control.reads + 1]
             \in Control!Actor
      BY <2>0, <3>3, ControlActor
    <3>5. th' = [th EXCEPT ![t] = [[[th[t] EXCEPT !.pc = "read"] EXCEPT !.mode = mode]
                                     EXCEPT !.claim = control.reads + 1]]
      BY <2>0, <3>2, ControlFields DEF Control!Typed, Control!Actor
    <3> QED
      BY <3>4, <3>5 DEF Control!Typed
  <2>2. control' \in Control!Controls
    BY <1>15, <2>0, ControlRecord, ControlBound, ControlFields DEF Control!LateClaim, Control!Typed
  <2> QED
    BY <1>15, <2>1, <2>2 DEF Control!LateClaim, Control!Typed, Control!jobVars
<1>16. ASSUME NEW t \in Control!Threads, NEW b \in BOOLEAN, Control!Read(t, b) PROVE Control!Typed'
  <2>1. th' \in [Control!Threads -> Control!Actor]
    <3>1. CASE b
      <4>1. Control!Goto(t, "proved")
        BY <1>16, <3>1, Zenon DEF Control!Read
      <4> QED
        BY <4>1, ControlMoves DEF Control!Goto, Control!Steps
    <3>2. CASE ~b
      BY <1>16, <3>2, ControlLeaves DEF Control!Read
    <3> QED
      BY <3>1, <3>2
  <2> QED
    BY <1>16, <2>1 DEF Control!Read, Control!Typed, Control!jobVars
<1>17. ASSUME NEW t \in Control!Threads, Control!Fence(t) PROVE Control!Typed'
  <2>1. th' \in [Control!Threads -> Control!Actor]
    <3>1. th' = [th EXCEPT ![t].pc = "fenced", ![t].mode = "stop"] /\ "fenced" \in Control!Steps
      BY <1>17 DEF Control!Fence, Control!Steps
    <3> QED
      BY <3>1, ControlMoves
  <2>2. control' \in Control!Controls
    BY <1>17, ControlRecord, ControlBound, ControlFields, ControlAllowed
       DEF Control!Fence, Control!Typed, Control!NoClaim, Control!Threads
  <2> QED
    BY <1>17, <2>1, <2>2 DEF Control!Fence, Control!Typed, Control!jobVars
<1>18. ASSUME NEW t \in Control!Threads, Control!PreferStop(t) PROVE Control!Typed'
  <2>1. th' \in [Control!Threads -> Control!Actor]
    <3>1. th' = [th EXCEPT ![t].mode = "stop"] /\ "proved" \in Control!Steps
      BY <1>18 DEF Control!PreferStop, Control!Steps
    <3> QED
      BY <3>1, ControlMoves
  <2>2. control' \in Control!Controls
    BY <1>18, ControlRecord, ControlBound, ControlFields, ControlAllowed
       DEF Control!PreferStop, Control!Typed, Control!NoClaim, Control!Threads
  <2> QED
    BY <1>18, <2>1, <2>2 DEF Control!PreferStop, Control!Typed, Control!jobVars
<1>19. ASSUME NEW t \in Control!Threads, Control!FenceRefused(t) PROVE Control!Typed'
  <2>1. th' \in [Control!Threads -> Control!Actor]
    BY <1>19, ControlLeaves DEF Control!FenceRefused
  <2> QED
    BY <1>19, <2>1 DEF Control!FenceRefused, Control!Typed, Control!jobVars
<1>20. ASSUME NEW t \in Control!Threads, Control!NotSent(t) PROVE Control!Typed'
  <2>1. th' \in [Control!Threads -> Control!Actor]
    <3>1. /\ th' = [th EXCEPT ![t].pc = "settle", ![t].result = "not_sent"]
          /\ "settle" \in Control!Steps /\ "not_sent" \in Control!Outcomes \cup Control!Over
      BY <1>20 DEF Control!NotSent, Control!Settling, Control!Steps, Control!Outcomes
    <3> QED
      BY <3>1, ControlMoves
  <2> QED
    BY <1>20, <2>1 DEF Control!NotSent, Control!Typed, Control!jobVars
<1>21. ASSUME NEW t \in Control!Threads, Control!Send(t) PROVE Control!Typed'
  <2>1. th' \in [Control!Threads -> Control!Actor]
    <3>1. th' = [th EXCEPT ![t].pc = "waiting"] /\ "waiting" \in Control!Steps
      BY <1>21 DEF Control!Send, Control!Goto, Control!Steps
    <3> QED
      BY <3>1, ControlMoves
  <2>3. rpc' \in Control!Wires
    <3>0. rpc.sent \in Nat /\ rpc.flying \in Nat
      BY ControlWire
    <3>1. /\ rpc.sent + 1 \in Nat /\ rpc.flying + 1 \in Nat
          /\ "none" \in Control!Answers \cup {"none"}
      BY <3>0
    <3>2. rpc' = [rpc EXCEPT !.sent = rpc.sent + 1, !.flying = rpc.flying + 1, !.answer = "none"]
      BY <1>21 DEF Control!Send
    <3> QED
      BY <3>1, <3>2, ControlWire
  <2> QED
    BY <1>21, <2>1, <2>3 DEF Control!Send, Control!Typed, Control!jobVars
<1>22. ASSUME NEW t \in Control!Threads, Control!Answered(t) PROVE Control!Typed'
  <2>0. rpc.answer \in Control!Outcomes \cup Control!Over
    BY <1>22, ControlWire DEF Control!Answered, Control!Outcomes
  <2>1. th' = [th EXCEPT ![t].pc = "settle", ![t].result = rpc.answer] /\ "settle" \in Control!Steps
    BY <1>22 DEF Control!Answered, Control!Settling, Control!Steps
  <2>2. th' \in [Control!Threads -> Control!Actor]
    BY <2>0, <2>1, ControlMoves
  <2>3. rpc' \in Control!Wires
    BY <1>22, ControlWire DEF Control!Answered
  <2> QED
    BY <1>22, <2>2, <2>3 DEF Control!Answered, Control!Typed, Control!jobVars
<1>23. ASSUME NEW t \in Control!Threads, Control!NoAnswer(t) PROVE Control!Typed'
  <2>1. th' \in [Control!Threads -> Control!Actor]
    <3>1. /\ th' = [th EXCEPT ![t].pc = "settle", ![t].result = "unknown"]
          /\ "settle" \in Control!Steps /\ "unknown" \in Control!Outcomes \cup Control!Over
      BY <1>23 DEF Control!NoAnswer, Control!Settling, Control!Steps, Control!Outcomes
    <3> QED
      BY <3>1, ControlMoves
  <2> QED
    BY <1>23, <2>1 DEF Control!NoAnswer, Control!Typed, Control!jobVars
<1>24. ASSUME NEW t \in Control!Threads, Control!Settle(t) PROVE Control!Typed'
  <2>1. th' \in [Control!Threads -> Control!Actor]
    <3>1. /\ th' = [th EXCEPT ![t].pc = "reread", ![t].result = "unknown"]
          /\ "reread" \in Control!Steps /\ "unknown" \in Control!Outcomes \cup Control!Over
      BY <1>24 DEF Control!Settle, Control!Steps, Control!Outcomes
    <3>2. [th EXCEPT ![t].pc = "reread", ![t].result = "unknown"]
             \in [Control!Threads -> Control!Actor]
      <4>1. \A r \in Control!Outcomes \cup Control!Over :
               [th EXCEPT ![t].pc = "reread", ![t].result = r] \in [Control!Threads -> Control!Actor]
        BY <3>1, ControlMoves, Zenon
      <4> QED
        BY <3>1, <4>1, Zenon
    <3> QED
      BY <3>1, <3>2
<2>2. control' \in Control!Controls
    <3>1. CASE UNCHANGED control
      BY <3>1 DEF Control!Typed
    <3>2. CASE control' = [control EXCEPT !.outcome = th[t].result,
                             !.quiesced = control.quiesced \/ th[t].result # "unknown"]
      <4>1. th[t].result \in Control!Outcomes
        BY <1>24 DEF Control!Settle, Control!At, Control!OutcomeFits
      <4>2. (control.quiesced \/ th[t].result # "unknown") \in BOOLEAN
        OBVIOUS
      <4> QED
        BY <3>2, <4>1, <4>2, ControlRecord DEF Control!Typed
    <3> QED
      BY <1>24, <3>1, <3>2 DEF Control!Settle
  <2> QED
    BY <1>24, <2>1, <2>2 DEF Control!Settle, Control!Typed, Control!jobVars
<1>25. ASSUME NEW t \in Control!Threads, Control!RereadFails(t) PROVE Control!Typed'
  <2>1. th' \in [Control!Threads -> Control!Actor]
    BY <1>25, ControlLeaves DEF Control!RereadFails
  <2> QED
    BY <1>25, <2>1 DEF Control!RereadFails, Control!Typed, Control!jobVars
<1>26. ASSUME NEW t \in Control!Threads, Control!Observe(t) PROVE Control!Typed'
  <2>1. CASE t \in ControlLate
    <3>1. th' \in [Control!Threads -> Control!Actor]
      BY <1>26, <2>1, ControlLeaves DEF Control!Observe
    <3>2. \/ UNCHANGED <<tcTurn, tcJob, evidence, tcResolved, tcStops>>
          \/ \E x \in {"closed", "indeterminate"}, b \in BOOLEAN : Control!EndJob(x, b)
      BY <1>26, <2>1 DEF Control!Observe, Control!jobVars
    <3> QED
      BY <1>26, <3>1, <3>2, ControlEnds DEF Control!Observe, Control!Typed
  <2>2. CASE t \notin ControlLate
    <3>1. \/ th' = [th EXCEPT ![t] = [Control!Resting EXCEPT !.pc = "dead"]]
          \/ th' = [th EXCEPT ![t] = [Control!Resting EXCEPT !.pc = "finish", !.result = tcTurn]]
      BY <1>26, <2>2 DEF Control!Observe
    <3>2. /\ [Control!Resting EXCEPT !.pc = "dead"] \in Control!Actor
          /\ [Control!Resting EXCEPT !.pc = "finish"] \in Control!Actor
      BY ControlActor DEF Control!Steps
    <3>3. tcTurn \in Control!Over
      BY <1>26 DEF Control!Observe, Control!Typed
    <3>4. [Control!Resting EXCEPT !.pc = "finish", !.result = tcTurn] \in Control!Actor
      BY <3>2, <3>3, ControlActor
    <3>5. th' \in [Control!Threads -> Control!Actor]
      BY <3>1, <3>2, <3>4, ControlFields DEF Control!Typed
    <3>6. tcJob' \in Control!Jobs
      BY <1>26, <2>2, ControlSaves DEF Control!Observe
    <3> QED
      BY <1>26, <2>2, <3>5, <3>6 DEF Control!Observe, Control!Typed
  <2> QED
    BY <2>1, <2>2
<1>27. ASSUME NEW t \in Control!Threads, Control!Exit(t) PROVE Control!Typed'
  <2>1. th' \in [Control!Threads -> Control!Actor]
    BY <1>27, ControlMoves, ControlActor DEF Control!Exit, Control!Steps
  <2>2. \/ UNCHANGED control
        \/ control' = [control EXCEPT !.claim = 0, !.fresh = FALSE]
    BY <1>27 DEF Control!Exit, Control!NoClaim
  <2>0. 0 \in 0..ControlReads
    BY ControlAllowed
  <2>3. [control EXCEPT !.claim = 0] \in Control!Controls
    BY <2>0, ControlRecord DEF Control!Typed
  <2>4. control' \in Control!Controls
    BY <2>2, <2>3, ControlRecord DEF Control!Typed
  <2> QED
    BY <1>27, <2>1, <2>4 DEF Control!Exit, Control!Typed, Control!jobVars
<1>28. ASSUME NEW t \in ControlLate, Control!CrashLate(t) PROVE Control!Typed'
  <2>1. th' \in [Control!Threads -> Control!Actor]
    <3>1. Control!Resting \in Control!Actor
      BY ControlActor
    <3> QED
      BY <1>28, <3>1 DEF Control!CrashLate, Control!Typed
  <2> QED
    BY <1>28, <2>1 DEF Control!CrashLate, Control!Typed, Control!jobVars
<1> QED
  BY <1>1, <1>2, <1>3, <1>4, <1>5, <1>6, <1>7, <1>8, <1>9, <1>10, <1>11, <1>12,
     <1>13, <1>14, <1>15, <1>16, <1>17, <1>18, <1>19, <1>20, <1>21, <1>22,
     <1>23, <1>24, <1>25, <1>26, <1>27, <1>28
     DEF Control!Next, Control!Step, Control!Recover

\* What a step leaves alone.
ControlKept ==
    /\ control'.started = control.started /\ control'.owner = control.owner
    /\ control'.outcome = control.outcome /\ control'.quiesced = control.quiesced
OthersKeep(t) == \A q \in Control!Threads : q # t => th'[q] = th[q]
JobKept ==
    /\ tcJob'.status = tcJob.status /\ tcResolved' = tcResolved
    /\ evidence' = evidence /\ other' = other
\* The end of the job: no other work runs yet, and evidence is of a turn that is over.
JobEnded == ~other /\ ~other' /\ (evidence' => tcTurn # "active")

\* The parts of ControlInv after the types.
ControlParts ==
    /\ Control!OneSender /\ Control!SentOnce /\ Control!OutcomeFits
    /\ Control!EvidenceFits /\ Control!OtherWaits /\ Control!NoStrayInterrupt

\* A try that ends leaves the other actors alone and has no result.
LEMMA ControlLeft ==
    ASSUME Control!Typed, NEW t \in Control!Threads, Control!Leave(t)
    PROVE  /\ OthersKeep(t) /\ th'[t].pc \in {"exit", "finish", "idle", "dead"}
           /\ th'[t].result = "unknown"
<1>1. th \in [Control!Threads -> Control!Actor]
  BY DEF Control!Typed
<1>2. PICK a : /\ th' = [th EXCEPT ![t] = a] /\ a.result = "unknown"
               /\ a.pc \in {"exit", "finish", "idle", "dead"}
  <2>1. CASE t \in ControlLate
    <3>1. th' = [th EXCEPT ![t] = [Control!Resting EXCEPT !.pc = "exit", !.claim = th[t].claim]]
      BY <2>1, ControlAllowed DEF Control!Leave
    <3>2. /\ [Control!Resting EXCEPT !.pc = "exit", !.claim = th[t].claim].result = "unknown"
          /\ [Control!Resting EXCEPT !.pc = "exit", !.claim = th[t].claim].pc
                \in {"exit", "finish", "idle", "dead"}
      BY DEF Control!Resting
    <3> QED
      BY <3>1, <3>2
  <2>2. CASE t = "worker"
    <3>1. th' = [th EXCEPT ![t] = [Control!Resting EXCEPT !.pc = "finish"]]
      BY <2>2, ControlAllowed DEF Control!Leave
    <3>2. /\ [Control!Resting EXCEPT !.pc = "finish"].result = "unknown"
          /\ [Control!Resting EXCEPT !.pc = "finish"].pc
                \in {"exit", "finish", "idle", "dead"}
      BY DEF Control!Resting
    <3> QED
      BY <3>1, <3>2
  <2>3. CASE t \notin ControlLate /\ t # "worker"
    <3>1. \/ th' = [th EXCEPT ![t] = [Control!Resting EXCEPT !.tries = th[t].tries + 1]]
          \/ th' = [th EXCEPT ![t] = [Control!Resting EXCEPT !.pc = "dead"]]
      BY <2>3 DEF Control!Leave
    <3> QED
      BY <3>1 DEF Control!Resting
  <2> QED
    BY <2>1, <2>2, <2>3
<1> QED
  BY <1>1, <1>2 DEF OthersKeep

\* The accepted identity is saved.
LEMMA ControlAccept ==
    ASSUME Control!ControlInv, NEW c \in BOOLEAN, Control!Accept(c)
    PROVE  ControlParts'
<1>0. Control!Typed /\ ControlParts
  BY DEF Control!ControlInv, ControlParts
<1>1. /\ OthersKeep("worker") /\ th'["worker"].pc \in {"run", "read"} /\ th'["worker"].result = th["worker"].result
  BY <1>0, ControlAllowed
     DEF Control!Accept, Control!Typed, Control!Actor, OthersKeep, Control!Goto,
         Control!Threads
<1>2. ControlKept
  BY <1>0 DEF Control!Accept, Control!Typed, Control!Controls, ControlKept,
            Control!jobVars
<1>3. /\ rpc' = rpc
      /\ tcTurn' = tcTurn
      /\ JobKept
  BY <1>0 DEF Control!Accept, Control!Typed, Control!Jobs, Control!Wires, JobKept,
            JobEnded, ControlParts, Control!OutcomeFits, Control!OtherWaits,
            Control!EvidenceFits, Control!jobVars
<1>4. Control!OneSender'
  BY <1>0, <1>1, <1>2
     DEF ControlParts, Control!OneSender, Control!Sending, OthersKeep,
         ControlKept
<1>5. Control!SentOnce'
  BY <1>0, <1>1, <1>2, <1>3, ControlWire
     DEF ControlParts, Control!SentOnce, Control!OneSender, Control!Sending,
         Control!At, Control!Answers, OthersKeep, ControlKept
<1>6. Control!OutcomeFits'
  BY <1>0, <1>1, <1>2, <1>3, ControlWire
     DEF ControlParts, Control!OutcomeFits, Control!OneSender, Control!Sending,
         Control!SentOnce, Control!At, Control!Outcomes, Control!Answers, OthersKeep,
         ControlKept
<1>7. Control!EvidenceFits'
  BY <1>0, <1>1, <1>3
     DEF ControlParts, Control!EvidenceFits, Control!Over, Control!Answers,
         OthersKeep, Control!Threads, JobKept, JobEnded
<1>8. Control!OtherWaits'
  BY <1>0, <1>3
     DEF ControlParts, Control!OtherWaits, JobKept, JobEnded
<1>9. Control!NoStrayInterrupt'
  BY <1>0, <1>1, <1>2, <1>3, ControlWire
     DEF ControlParts, Control!NoStrayInterrupt, Control!OneSender,
         Control!SentOnce, Control!OutcomeFits, Control!EvidenceFits, Control!OtherWaits,
         Control!Sending, Control!At, OthersKeep, ControlKept, JobKept, JobEnded
<1> QED
  BY <1>4, <1>5, <1>6, <1>7, <1>8, <1>9 DEF ControlParts

\* The provider handles the interrupt.
LEMMA ControlHandle ==
    ASSUME Control!ControlInv, NEW c \in BOOLEAN, Control!Handle(c)
    PROVE  ControlParts'
<1>0. Control!Typed /\ ControlParts
  BY DEF Control!ControlInv, ControlParts
<1>1. /\ th' = th
  BY DEF Control!Handle
<1>2. ControlKept
  BY <1>0 DEF Control!Handle, Control!Typed, Control!Controls, ControlKept
<1>3. /\ rpc'.sent = 1 /\ rpc.sent = 1 /\ rpc'.flying = 0
      /\ tcTurn' # "active"
      /\ JobKept
  <2>1. /\ rpc'.sent = rpc.sent /\ rpc'.flying = rpc.flying - 1 /\ rpc.flying > 0
        /\ tcTurn' # "active" /\ JobKept
    BY <1>0 DEF Control!Handle, Control!Typed, Control!Wires, JobKept
  <2>2. /\ rpc.sent \in Nat /\ rpc.flying \in Nat /\ rpc.sent <= 1 /\ rpc.flying <= rpc.sent
    BY <1>0, ControlWire DEF ControlParts, Control!SentOnce
  <2>3. rpc.flying - 1 = 0 /\ rpc.sent = 1
    BY <2>1, <2>2
  <2> QED
    BY <2>1, <2>3
<1>4. Control!OneSender'
  BY <1>0, <1>1, <1>2
     DEF ControlParts, Control!OneSender, Control!Sending, OthersKeep,
         ControlKept
<1>5. Control!SentOnce'
  BY <1>0, <1>1, <1>2, <1>3
     DEF ControlParts, Control!SentOnce, Control!OneSender, Control!Sending,
         Control!At, Control!Answers, OthersKeep, ControlKept
<1>6. Control!OutcomeFits'
  BY <1>0, <1>1, <1>2, <1>3, ControlWire
     DEF ControlParts, Control!OutcomeFits, Control!OneSender, Control!Sending,
         Control!SentOnce, Control!At, Control!Outcomes, Control!Answers, OthersKeep,
         ControlKept
<1>7. Control!EvidenceFits'
  BY <1>0, <1>1, <1>3
     DEF ControlParts, Control!EvidenceFits, Control!Over, Control!Answers,
         OthersKeep, Control!Threads, JobKept, JobEnded
<1>8. Control!OtherWaits'
  BY <1>0, <1>3
     DEF ControlParts, Control!OtherWaits, JobKept, JobEnded
<1>9. Control!NoStrayInterrupt'
  BY <1>0, <1>1, <1>2, <1>3, ControlWire
     DEF ControlParts, Control!NoStrayInterrupt, Control!OneSender,
         Control!SentOnce, Control!OutcomeFits, Control!EvidenceFits, Control!OtherWaits,
         Control!Sending, Control!At, OthersKeep, ControlKept, JobKept, JobEnded
<1> QED
  BY <1>4, <1>5, <1>6, <1>7, <1>8, <1>9 DEF ControlParts

\* The owner asks for a stop.
LEMMA ControlRequestStop ==
    ASSUME Control!ControlInv, NEW s \in 1..ControlStops, Control!RequestStop(s)
    PROVE  ControlParts'
<1>0. Control!Typed /\ ControlParts
  BY DEF Control!ControlInv, ControlParts
<1>1. /\ th' = th
  BY DEF Control!RequestStop
<1>2. ControlKept
  BY <1>0 DEF Control!RequestStop, Control!Typed, Control!Controls, ControlKept
<1>3. /\ rpc' = rpc
      /\ tcTurn' = tcTurn
      /\ JobKept
  BY <1>0 DEF Control!RequestStop, Control!Typed, Control!Jobs, Control!Wires, JobKept,
            JobEnded, ControlParts, Control!OutcomeFits, Control!OtherWaits,
            Control!EvidenceFits
<1>4. Control!OneSender'
  BY <1>0, <1>1, <1>2
     DEF ControlParts, Control!OneSender, Control!Sending, OthersKeep,
         ControlKept
<1>5. Control!SentOnce'
  BY <1>0, <1>1, <1>2, <1>3, ControlWire
     DEF ControlParts, Control!SentOnce, Control!OneSender, Control!Sending,
         Control!At, Control!Answers, OthersKeep, ControlKept
<1>6. Control!OutcomeFits'
  BY <1>0, <1>1, <1>2, <1>3, ControlWire
     DEF ControlParts, Control!OutcomeFits, Control!OneSender, Control!Sending,
         Control!SentOnce, Control!At, Control!Outcomes, Control!Answers, OthersKeep,
         ControlKept
<1>7. Control!EvidenceFits'
  BY <1>0, <1>1, <1>3
     DEF ControlParts, Control!EvidenceFits, Control!Over, Control!Answers,
         OthersKeep, Control!Threads, JobKept, JobEnded
<1>8. Control!OtherWaits'
  BY <1>0, <1>3
     DEF ControlParts, Control!OtherWaits, JobKept, JobEnded
<1>9. Control!NoStrayInterrupt'
  BY <1>0, <1>1, <1>2, <1>3, ControlWire
     DEF ControlParts, Control!NoStrayInterrupt, Control!OneSender,
         Control!SentOnce, Control!OutcomeFits, Control!EvidenceFits, Control!OtherWaits,
         Control!Sending, Control!At, OthersKeep, ControlKept, JobKept, JobEnded
<1> QED
  BY <1>4, <1>5, <1>6, <1>7, <1>8, <1>9 DEF ControlParts

\* The turn ends by itself.
LEMMA ControlTurnEnds ==
    ASSUME Control!ControlInv, Control!TurnEnds
    PROVE  ControlParts'
<1>0. Control!Typed /\ ControlParts
  BY DEF Control!ControlInv, ControlParts
<1>1. /\ th' = th
  BY DEF Control!TurnEnds
<1>2. ControlKept
  BY <1>0 DEF Control!TurnEnds, Control!Typed, Control!Controls, ControlKept
<1>3. /\ rpc' = rpc
      /\ tcTurn' # "active"
      /\ JobKept
  BY <1>0 DEF Control!TurnEnds, Control!Typed, Control!Jobs, Control!Wires, JobKept,
            JobEnded, ControlParts, Control!OutcomeFits, Control!OtherWaits,
            Control!EvidenceFits
<1>4. Control!OneSender'
  BY <1>0, <1>1, <1>2
     DEF ControlParts, Control!OneSender, Control!Sending, OthersKeep,
         ControlKept
<1>5. Control!SentOnce'
  BY <1>0, <1>1, <1>2, <1>3, ControlWire
     DEF ControlParts, Control!SentOnce, Control!OneSender, Control!Sending,
         Control!At, Control!Answers, OthersKeep, ControlKept
<1>6. Control!OutcomeFits'
  BY <1>0, <1>1, <1>2, <1>3, ControlWire
     DEF ControlParts, Control!OutcomeFits, Control!OneSender, Control!Sending,
         Control!SentOnce, Control!At, Control!Outcomes, Control!Answers, OthersKeep,
         ControlKept
<1>7. Control!EvidenceFits'
  BY <1>0, <1>1, <1>3
     DEF ControlParts, Control!EvidenceFits, Control!Over, Control!Answers,
         OthersKeep, Control!Threads, JobKept, JobEnded
<1>8. Control!OtherWaits'
  BY <1>0, <1>3
     DEF ControlParts, Control!OtherWaits, JobKept, JobEnded
<1>9. Control!NoStrayInterrupt'
  BY <1>0, <1>1, <1>2, <1>3, ControlWire
     DEF ControlParts, Control!NoStrayInterrupt, Control!OneSender,
         Control!SentOnce, Control!OutcomeFits, Control!EvidenceFits, Control!OtherWaits,
         Control!Sending, Control!At, OthersKeep, ControlKept, JobKept, JobEnded
<1> QED
  BY <1>4, <1>5, <1>6, <1>7, <1>8, <1>9 DEF ControlParts

\* An ingress episode passes its deadline, or ends.
LEMMA ControlIngressTurns ==
    ASSUME Control!ControlInv, Control!IngressTurns
    PROVE  ControlParts'
<1>0. Control!Typed /\ ControlParts
  BY DEF Control!ControlInv, ControlParts
<1>1. /\ th' = th
  BY DEF Control!IngressTurns
<1>2. ControlKept
  BY <1>0 DEF Control!IngressTurns, Control!Typed, Control!Controls, ControlKept
<1>3. /\ rpc' = rpc
      /\ tcTurn' = tcTurn
      /\ JobKept
  BY <1>0 DEF Control!IngressTurns, Control!Typed, Control!Jobs, Control!Wires, JobKept,
            JobEnded, ControlParts, Control!OutcomeFits, Control!OtherWaits,
            Control!EvidenceFits, Control!jobVars
<1>4. Control!OneSender'
  BY <1>0, <1>1, <1>2
     DEF ControlParts, Control!OneSender, Control!Sending, OthersKeep,
         ControlKept
<1>5. Control!SentOnce'
  BY <1>0, <1>1, <1>2, <1>3, ControlWire
     DEF ControlParts, Control!SentOnce, Control!OneSender, Control!Sending,
         Control!At, Control!Answers, OthersKeep, ControlKept
<1>6. Control!OutcomeFits'
  BY <1>0, <1>1, <1>2, <1>3, ControlWire
     DEF ControlParts, Control!OutcomeFits, Control!OneSender, Control!Sending,
         Control!SentOnce, Control!At, Control!Outcomes, Control!Answers, OthersKeep,
         ControlKept
<1>7. Control!EvidenceFits'
  BY <1>0, <1>1, <1>3
     DEF ControlParts, Control!EvidenceFits, Control!Over, Control!Answers,
         OthersKeep, Control!Threads, JobKept, JobEnded
<1>8. Control!OtherWaits'
  BY <1>0, <1>3
     DEF ControlParts, Control!OtherWaits, JobKept, JobEnded
<1>9. Control!NoStrayInterrupt'
  BY <1>0, <1>1, <1>2, <1>3, ControlWire
     DEF ControlParts, Control!NoStrayInterrupt, Control!OneSender,
         Control!SentOnce, Control!OutcomeFits, Control!EvidenceFits, Control!OtherWaits,
         Control!Sending, Control!At, OthersKeep, ControlKept, JobKept, JobEnded
<1> QED
  BY <1>4, <1>5, <1>6, <1>7, <1>8, <1>9 DEF ControlParts

\* The lease of the worker lapses.
LEMMA ControlLeaseExpires ==
    ASSUME Control!ControlInv, Control!LeaseExpires
    PROVE  ControlParts'
<1>0. Control!Typed /\ ControlParts
  BY DEF Control!ControlInv, ControlParts
<1>1. /\ th' = th
  BY DEF Control!LeaseExpires
<1>2. ControlKept
  BY <1>0 DEF Control!LeaseExpires, Control!Typed, Control!Controls, ControlKept
<1>3. /\ rpc' = rpc
      /\ tcTurn' = tcTurn
      /\ JobKept
  BY <1>0 DEF Control!LeaseExpires, Control!Typed, Control!Jobs, Control!Wires, JobKept,
            JobEnded, ControlParts, Control!OutcomeFits, Control!OtherWaits,
            Control!EvidenceFits
<1>4. Control!OneSender'
  BY <1>0, <1>1, <1>2
     DEF ControlParts, Control!OneSender, Control!Sending, OthersKeep,
         ControlKept
<1>5. Control!SentOnce'
  BY <1>0, <1>1, <1>2, <1>3, ControlWire
     DEF ControlParts, Control!SentOnce, Control!OneSender, Control!Sending,
         Control!At, Control!Answers, OthersKeep, ControlKept
<1>6. Control!OutcomeFits'
  BY <1>0, <1>1, <1>2, <1>3, ControlWire
     DEF ControlParts, Control!OutcomeFits, Control!OneSender, Control!Sending,
         Control!SentOnce, Control!At, Control!Outcomes, Control!Answers, OthersKeep,
         ControlKept
<1>7. Control!EvidenceFits'
  BY <1>0, <1>1, <1>3
     DEF ControlParts, Control!EvidenceFits, Control!Over, Control!Answers,
         OthersKeep, Control!Threads, JobKept, JobEnded
<1>8. Control!OtherWaits'
  BY <1>0, <1>3
     DEF ControlParts, Control!OtherWaits, JobKept, JobEnded
<1>9. Control!NoStrayInterrupt'
  BY <1>0, <1>1, <1>2, <1>3, ControlWire
     DEF ControlParts, Control!NoStrayInterrupt, Control!OneSender,
         Control!SentOnce, Control!OutcomeFits, Control!EvidenceFits, Control!OtherWaits,
         Control!Sending, Control!At, OthersKeep, ControlKept, JobKept, JobEnded
<1> QED
  BY <1>4, <1>5, <1>6, <1>7, <1>8, <1>9 DEF ControlParts

\* A job whose lease lapsed is recovered.
LEMMA ControlRecoverStale ==
    ASSUME Control!ControlInv, NEW seenT \in {"unknown", "active", "completed",
           "interrupted"}, Control!RecoverStale(seenT)
    PROVE  ControlParts'
<1>0. Control!Typed /\ ControlParts
  BY DEF Control!ControlInv, ControlParts
<1>1. /\ th' = th
  BY DEF Control!RecoverStale
<1>2. ControlKept
  BY <1>0 DEF Control!RecoverStale, Control!Typed, Control!Controls, ControlKept
<1>3. /\ rpc' = rpc
      /\ tcTurn' = tcTurn
      /\ JobEnded
  BY <1>0 DEF Control!RecoverStale, Control!Typed, Control!Jobs, Control!Wires, JobKept,
            JobEnded, ControlParts, Control!OutcomeFits, Control!OtherWaits,
            Control!EvidenceFits, Control!EndJob
<1>4. Control!OneSender'
  BY <1>0, <1>1, <1>2
     DEF ControlParts, Control!OneSender, Control!Sending, OthersKeep,
         ControlKept
<1>5. Control!SentOnce'
  BY <1>0, <1>1, <1>2, <1>3, ControlWire
     DEF ControlParts, Control!SentOnce, Control!OneSender, Control!Sending,
         Control!At, Control!Answers, OthersKeep, ControlKept
<1>6. Control!OutcomeFits'
  BY <1>0, <1>1, <1>2, <1>3, ControlWire
     DEF ControlParts, Control!OutcomeFits, Control!OneSender, Control!Sending,
         Control!SentOnce, Control!At, Control!Outcomes, Control!Answers, OthersKeep,
         ControlKept
<1>7. Control!EvidenceFits'
  BY <1>0, <1>1, <1>3
     DEF ControlParts, Control!EvidenceFits, Control!Over, Control!Answers,
         OthersKeep, Control!Threads, JobKept, JobEnded
<1>8. Control!OtherWaits'
  BY <1>0, <1>3
     DEF ControlParts, Control!OtherWaits, JobKept, JobEnded
<1>9. Control!NoStrayInterrupt'
  BY <1>0, <1>1, <1>2, <1>3, ControlWire
     DEF ControlParts, Control!NoStrayInterrupt, Control!OneSender,
         Control!SentOnce, Control!OutcomeFits, Control!EvidenceFits, Control!OtherWaits,
         Control!Sending, Control!At, OthersKeep, ControlKept, JobKept, JobEnded
<1> QED
  BY <1>4, <1>5, <1>6, <1>7, <1>8, <1>9 DEF ControlParts

\* The owner resolves the job.
LEMMA ControlResolveIndeterminate ==
    ASSUME Control!ControlInv, Control!ResolveIndeterminate
    PROVE  ControlParts'
<1>0. Control!Typed /\ ControlParts
  BY DEF Control!ControlInv, ControlParts
<1>1. /\ th' = th
  BY DEF Control!ResolveIndeterminate
<1>2. ControlKept
  BY <1>0 DEF Control!ResolveIndeterminate, Control!Typed, Control!Controls, ControlKept
<1>3. /\ rpc' = rpc
      /\ tcTurn' = tcTurn
      /\ other' = other /\ tcJob' = tcJob /\ evidence' = evidence /\ tcJob.status = "indeterminate" /\ tcResolved'
  BY <1>0 DEF Control!ResolveIndeterminate, Control!Typed, Control!Jobs, Control!Wires,
            JobKept, JobEnded, ControlParts, Control!OutcomeFits,
            Control!OtherWaits, Control!EvidenceFits
<1>4. Control!OneSender'
  BY <1>0, <1>1, <1>2
     DEF ControlParts, Control!OneSender, Control!Sending, OthersKeep,
         ControlKept
<1>5. Control!SentOnce'
  BY <1>0, <1>1, <1>2, <1>3, ControlWire
     DEF ControlParts, Control!SentOnce, Control!OneSender, Control!Sending,
         Control!At, Control!Answers, OthersKeep, ControlKept
<1>6. Control!OutcomeFits'
  BY <1>0, <1>1, <1>2, <1>3, ControlWire
     DEF ControlParts, Control!OutcomeFits, Control!OneSender, Control!Sending,
         Control!SentOnce, Control!At, Control!Outcomes, Control!Answers, OthersKeep,
         ControlKept
<1>7. Control!EvidenceFits'
  BY <1>0, <1>1, <1>3
     DEF ControlParts, Control!EvidenceFits, Control!Over, Control!Answers,
         OthersKeep, Control!Threads, JobKept, JobEnded
<1>8. Control!OtherWaits'
  BY <1>0, <1>3
     DEF ControlParts, Control!OtherWaits, JobKept, JobEnded
<1>9. Control!NoStrayInterrupt'
  BY <1>0, <1>1, <1>2, <1>3, ControlWire
     DEF ControlParts, Control!NoStrayInterrupt, Control!OneSender,
         Control!SentOnce, Control!OutcomeFits, Control!EvidenceFits, Control!OtherWaits,
         Control!Sending, Control!At, OthersKeep, ControlKept, JobKept, JobEnded
<1> QED
  BY <1>4, <1>5, <1>6, <1>7, <1>8, <1>9 DEF ControlParts

\* Another job of the root starts.
LEMMA ControlStartOther ==
    ASSUME Control!ControlInv, Control!StartOther
    PROVE  ControlParts'
<1>0. Control!Typed /\ ControlParts
  BY DEF Control!ControlInv, ControlParts
<1>1. /\ th' = th
  BY DEF Control!StartOther
<1>2. ControlKept
  BY <1>0 DEF Control!StartOther, Control!Typed, Control!Controls, ControlKept
<1>3. /\ rpc' = rpc
      /\ tcTurn' = tcTurn
      /\ tcJob' = tcJob /\ evidence' = evidence /\ tcResolved' = tcResolved
      /\ (tcJob.status = "closed" \/ (tcJob.status = "indeterminate" /\ tcResolved))
      /\ (control.started => control.quiesced \/ evidence)
  BY <1>0 DEF Control!StartOther, Control!Typed, Control!Jobs, Control!Wires, JobKept,
            JobEnded, ControlParts, Control!Unsettled, Control!OwnerClosed,
            Control!OutcomeFits, Control!OtherWaits, Control!EvidenceFits, Control!jobVars
<1>4. Control!OneSender'
  BY <1>0, <1>1, <1>2
     DEF ControlParts, Control!OneSender, Control!Sending, OthersKeep,
         ControlKept
<1>5. Control!SentOnce'
  BY <1>0, <1>1, <1>2, <1>3, ControlWire
     DEF ControlParts, Control!SentOnce, Control!OneSender, Control!Sending,
         Control!At, Control!Answers, OthersKeep, ControlKept
<1>6. Control!OutcomeFits'
  BY <1>0, <1>1, <1>2, <1>3, ControlWire
     DEF ControlParts, Control!OutcomeFits, Control!OneSender, Control!Sending,
         Control!SentOnce, Control!At, Control!Outcomes, Control!Answers, OthersKeep,
         ControlKept
<1>7. Control!EvidenceFits'
  BY <1>0, <1>1, <1>3
     DEF ControlParts, Control!EvidenceFits, Control!Over, Control!Answers,
         OthersKeep, Control!Threads, JobKept, JobEnded
<1>8. Control!OtherWaits'
  BY <1>0, <1>3
     DEF ControlParts, Control!OtherWaits, JobKept, JobEnded
<1>9. Control!NoStrayInterrupt'
  <2>1. ASSUME other', tcTurn' = "active", NEW t \in Control!Threads
        PROVE  rpc'.flying = 0 /\ th'[t].pc # "fenced"
    <3>0. rpc.sent \in Nat /\ rpc.flying \in Nat /\ rpc.flying <= rpc.sent
      BY <1>0, ControlWire DEF ControlParts, Control!SentOnce
    <3>1. ~evidence
      BY <1>0, <1>3, <2>1 DEF ControlParts, Control!EvidenceFits
    <3>2. CASE ~control.started
      <4>1. rpc.sent = 0 /\ th[t].pc \notin Control!Sending
        BY <1>0, <3>2, <2>1 DEF ControlParts, Control!OneSender, Control!SentOnce
      <4>2. rpc.flying = 0
        BY <3>0, <4>1
      <4> QED
        BY <1>1, <1>3, <4>1, <4>2 DEF Control!Sending
    <3>3. CASE control.quiesced
      BY <1>0, <1>1, <1>3, <3>3, <2>1 DEF ControlParts, Control!OutcomeFits, Control!SentOnce
    <3> QED
      BY <1>3, <3>1, <3>2, <3>3
  <2>2. Control!Threads # {}
    BY DEF Control!Threads
  <2> QED
    BY <2>1, <2>2 DEF Control!NoStrayInterrupt, Control!At
<1> QED
  BY <1>4, <1>5, <1>6, <1>7, <1>8, <1>9 DEF ControlParts

\* The worker has its result, or lost its stream.
LEMMA ControlWorkerWakes ==
    ASSUME Control!ControlInv, Control!WorkerWakes
    PROVE  ControlParts'
<1>0. Control!Typed /\ ControlParts
  BY DEF Control!ControlInv, ControlParts
<1>1. /\ OthersKeep("worker") /\ th'["worker"].pc \in {"finish", "read"} /\ (th'["worker"].result = th["worker"].result \/ tcTurn # "active")
  BY <1>0, ControlAllowed
     DEF Control!WorkerWakes, Control!Typed, Control!Actor, OthersKeep, Control!Threads
<1>2. ControlKept
  BY <1>0 DEF Control!WorkerWakes, Control!Typed, Control!Controls, ControlKept
<1>3. /\ rpc' = rpc
      /\ tcTurn' = tcTurn
      /\ JobKept
  BY <1>0 DEF Control!WorkerWakes, Control!Typed, Control!Jobs, Control!Wires, JobKept,
            JobEnded, ControlParts, Control!OutcomeFits, Control!OtherWaits,
            Control!EvidenceFits
<1>4. Control!OneSender'
  BY <1>0, <1>1, <1>2
     DEF ControlParts, Control!OneSender, Control!Sending, OthersKeep,
         ControlKept
<1>5. Control!SentOnce'
  BY <1>0, <1>1, <1>2, <1>3, ControlWire
     DEF ControlParts, Control!SentOnce, Control!OneSender, Control!Sending,
         Control!At, Control!Answers, OthersKeep, ControlKept
<1>6. Control!OutcomeFits'
  BY <1>0, <1>1, <1>2, <1>3, ControlWire
     DEF ControlParts, Control!OutcomeFits, Control!OneSender, Control!Sending,
         Control!SentOnce, Control!At, Control!Outcomes, Control!Answers, OthersKeep,
         ControlKept
<1>7. Control!EvidenceFits'
  BY <1>0, <1>1, <1>3
     DEF ControlParts, Control!EvidenceFits, Control!Over, Control!Answers,
         OthersKeep, Control!Threads, JobKept, JobEnded
<1>8. Control!OtherWaits'
  BY <1>0, <1>3
     DEF ControlParts, Control!OtherWaits, JobKept, JobEnded
<1>9. Control!NoStrayInterrupt'
  BY <1>0, <1>1, <1>2, <1>3, ControlWire
     DEF ControlParts, Control!NoStrayInterrupt, Control!OneSender,
         Control!SentOnce, Control!OutcomeFits, Control!EvidenceFits, Control!OtherWaits,
         Control!Sending, Control!At, OthersKeep, ControlKept, JobKept, JobEnded
<1> QED
  BY <1>4, <1>5, <1>6, <1>7, <1>8, <1>9 DEF ControlParts

\* The worker reports what it saw.
LEMMA ControlWorkerFinish ==
    ASSUME Control!ControlInv, Control!WorkerFinish
    PROVE  ControlParts'
<1>0. Control!Typed /\ ControlParts
  BY DEF Control!ControlInv, ControlParts
<1>1. /\ OthersKeep("worker") /\ th'["worker"].pc = "dead" /\ th'["worker"].result = th["worker"].result
  BY <1>0, ControlAllowed
     DEF Control!WorkerFinish, Control!Typed, Control!Actor, OthersKeep, Control!Goto,
         Control!Threads
<1>2. ControlKept
  BY <1>0 DEF Control!WorkerFinish, Control!Typed, Control!Controls, ControlKept
<1>3. /\ rpc' = rpc
      /\ tcTurn' = tcTurn
      /\ (JobKept \/ JobEnded)
  <2>1. rpc' = rpc /\ tcTurn' = tcTurn
    BY DEF Control!WorkerFinish, Control!jobVars, Control!EndJob
  <2>2. \/ UNCHANGED <<tcJob, tcResolved, evidence>> /\ other' = other
        \/ /\ tcJob.status = "executing" /\ other' = other
           /\ evidence' => evidence \/ th["worker"].result = "interrupted"
    BY DEF Control!WorkerFinish, Control!jobVars, Control!EndJob
  <2>3. tcJob.status = "executing" => ~other
    BY <1>0 DEF ControlParts, Control!OtherWaits
  <2>4. evidence \/ th["worker"].result = "interrupted" => tcTurn # "active"
    BY <1>0 DEF ControlParts, Control!EvidenceFits, Control!Over
  <2> QED
    BY <2>1, <2>2, <2>3, <2>4 DEF JobKept, JobEnded
<1>4. Control!OneSender'
  BY <1>0, <1>1, <1>2
     DEF ControlParts, Control!OneSender, Control!Sending, OthersKeep,
         ControlKept
<1>5. Control!SentOnce'
  BY <1>0, <1>1, <1>2, <1>3, ControlWire
     DEF ControlParts, Control!SentOnce, Control!OneSender, Control!Sending,
         Control!At, Control!Answers, OthersKeep, ControlKept
<1>6. Control!OutcomeFits'
  BY <1>0, <1>1, <1>2, <1>3, ControlWire
     DEF ControlParts, Control!OutcomeFits, Control!OneSender, Control!Sending,
         Control!SentOnce, Control!At, Control!Outcomes, Control!Answers, OthersKeep,
         ControlKept
<1>7. Control!EvidenceFits'
  BY <1>0, <1>1, <1>3
     DEF ControlParts, Control!EvidenceFits, Control!Over, Control!Answers,
         OthersKeep, Control!Threads, JobKept, JobEnded
<1>8. Control!OtherWaits'
  BY <1>0, <1>3
     DEF ControlParts, Control!OtherWaits, JobKept, JobEnded
<1>9. Control!NoStrayInterrupt'
  BY <1>0, <1>1, <1>2, <1>3, ControlWire
     DEF ControlParts, Control!NoStrayInterrupt, Control!OneSender,
         Control!SentOnce, Control!OutcomeFits, Control!EvidenceFits, Control!OtherWaits,
         Control!Sending, Control!At, OthersKeep, ControlKept, JobKept, JobEnded
<1> QED
  BY <1>4, <1>5, <1>6, <1>7, <1>8, <1>9 DEF ControlParts

\* The worker process dies.
LEMMA ControlCrashWorker ==
    ASSUME Control!ControlInv, Control!CrashWorker
    PROVE  ControlParts'
<1>0. Control!Typed /\ ControlParts
  BY DEF Control!ControlInv, ControlParts
<1>1. \A q \in Control!Threads :
           th'[q] = th[q] \/ (th'[q].pc = "dead" /\ th'[q].result = "unknown")
  BY <1>0, ControlAllowed
     DEF Control!CrashWorker, Control!Typed, Control!Actor, OthersKeep, Control!Threads,
         Control!Resting
<1>2. ControlKept
  BY <1>0 DEF Control!CrashWorker, Control!Typed, Control!Controls, ControlKept
<1>3. /\ rpc' = rpc
      /\ tcTurn' = tcTurn
      /\ JobKept
  BY <1>0 DEF Control!CrashWorker, Control!Typed, Control!Jobs, Control!Wires, JobKept,
            JobEnded, ControlParts, Control!OutcomeFits, Control!OtherWaits,
            Control!EvidenceFits, Control!jobVars
<1>4. Control!OneSender'
  BY <1>0, <1>1, <1>2
     DEF ControlParts, Control!OneSender, Control!Sending, OthersKeep,
         ControlKept
<1>5. Control!SentOnce'
  BY <1>0, <1>1, <1>2, <1>3, ControlWire
     DEF ControlParts, Control!SentOnce, Control!OneSender, Control!Sending,
         Control!At, Control!Answers, OthersKeep, ControlKept
<1>6. Control!OutcomeFits'
  BY <1>0, <1>1, <1>2, <1>3, ControlWire
     DEF ControlParts, Control!OutcomeFits, Control!OneSender, Control!Sending,
         Control!SentOnce, Control!At, Control!Outcomes, Control!Answers, OthersKeep,
         ControlKept
<1>7. Control!EvidenceFits'
  BY <1>0, <1>1, <1>3
     DEF ControlParts, Control!EvidenceFits, Control!Over, Control!Answers,
         OthersKeep, Control!Threads, JobKept, JobEnded
<1>8. Control!OtherWaits'
  BY <1>0, <1>3
     DEF ControlParts, Control!OtherWaits, JobKept, JobEnded
<1>9. Control!NoStrayInterrupt'
  BY <1>0, <1>1, <1>2, <1>3, ControlWire
     DEF ControlParts, Control!NoStrayInterrupt, Control!OneSender,
         Control!SentOnce, Control!OutcomeFits, Control!EvidenceFits, Control!OtherWaits,
         Control!Sending, Control!At, OthersKeep, ControlKept, JobKept, JobEnded
<1> QED
  BY <1>4, <1>5, <1>6, <1>7, <1>8, <1>9 DEF ControlParts

\* The claim of a late actor lapses.
LEMMA ControlClaimExpires ==
    ASSUME Control!ControlInv, Control!ClaimExpires
    PROVE  ControlParts'
<1>0. Control!Typed /\ ControlParts
  BY DEF Control!ControlInv, ControlParts
<1>1. /\ th' = th
  BY DEF Control!ClaimExpires
<1>2. ControlKept
  BY <1>0 DEF Control!ClaimExpires, Control!Typed, Control!Controls, ControlKept
<1>3. /\ rpc' = rpc
      /\ tcTurn' = tcTurn
      /\ JobKept
  BY <1>0 DEF Control!ClaimExpires, Control!Typed, Control!Jobs, Control!Wires, JobKept,
            JobEnded, ControlParts, Control!OutcomeFits, Control!OtherWaits,
            Control!EvidenceFits, Control!jobVars
<1>4. Control!OneSender'
  BY <1>0, <1>1, <1>2
     DEF ControlParts, Control!OneSender, Control!Sending, OthersKeep,
         ControlKept
<1>5. Control!SentOnce'
  BY <1>0, <1>1, <1>2, <1>3, ControlWire
     DEF ControlParts, Control!SentOnce, Control!OneSender, Control!Sending,
         Control!At, Control!Answers, OthersKeep, ControlKept
<1>6. Control!OutcomeFits'
  BY <1>0, <1>1, <1>2, <1>3, ControlWire
     DEF ControlParts, Control!OutcomeFits, Control!OneSender, Control!Sending,
         Control!SentOnce, Control!At, Control!Outcomes, Control!Answers, OthersKeep,
         ControlKept
<1>7. Control!EvidenceFits'
  BY <1>0, <1>1, <1>3
     DEF ControlParts, Control!EvidenceFits, Control!Over, Control!Answers,
         OthersKeep, Control!Threads, JobKept, JobEnded
<1>8. Control!OtherWaits'
  BY <1>0, <1>3
     DEF ControlParts, Control!OtherWaits, JobKept, JobEnded
<1>9. Control!NoStrayInterrupt'
  BY <1>0, <1>1, <1>2, <1>3, ControlWire
     DEF ControlParts, Control!NoStrayInterrupt, Control!OneSender,
         Control!SentOnce, Control!OutcomeFits, Control!EvidenceFits, Control!OtherWaits,
         Control!Sending, Control!At, OthersKeep, ControlKept, JobKept, JobEnded
<1> QED
  BY <1>4, <1>5, <1>6, <1>7, <1>8, <1>9 DEF ControlParts

\* The live observer starts a try.
LEMMA ControlLiveStart ==
    ASSUME Control!ControlInv, NEW mode \in {"stop", "ingress"},
           Control!LiveStart(mode)
    PROVE  ControlParts'
<1>0. Control!Typed /\ ControlParts
  BY DEF Control!ControlInv, ControlParts
<1>1. /\ OthersKeep("live") /\ th'["live"].pc \in {"dead", "read"} /\ th'["live"].result = th["live"].result
  BY <1>0, ControlAllowed
     DEF Control!LiveStart, Control!Typed, Control!Actor, OthersKeep, Control!Threads
<1>2. ControlKept
  BY <1>0 DEF Control!LiveStart, Control!Typed, Control!Controls, ControlKept
<1>3. /\ rpc' = rpc
      /\ tcTurn' = tcTurn
      /\ JobKept
  BY <1>0 DEF Control!LiveStart, Control!Typed, Control!Jobs, Control!Wires, JobKept,
            JobEnded, ControlParts, Control!OutcomeFits, Control!OtherWaits,
            Control!EvidenceFits, Control!jobVars
<1>4. Control!OneSender'
  BY <1>0, <1>1, <1>2
     DEF ControlParts, Control!OneSender, Control!Sending, OthersKeep,
         ControlKept
<1>5. Control!SentOnce'
  BY <1>0, <1>1, <1>2, <1>3, ControlWire
     DEF ControlParts, Control!SentOnce, Control!OneSender, Control!Sending,
         Control!At, Control!Answers, OthersKeep, ControlKept
<1>6. Control!OutcomeFits'
  BY <1>0, <1>1, <1>2, <1>3, ControlWire
     DEF ControlParts, Control!OutcomeFits, Control!OneSender, Control!Sending,
         Control!SentOnce, Control!At, Control!Outcomes, Control!Answers, OthersKeep,
         ControlKept
<1>7. Control!EvidenceFits'
  BY <1>0, <1>1, <1>3
     DEF ControlParts, Control!EvidenceFits, Control!Over, Control!Answers,
         OthersKeep, Control!Threads, JobKept, JobEnded
<1>8. Control!OtherWaits'
  BY <1>0, <1>3
     DEF ControlParts, Control!OtherWaits, JobKept, JobEnded
<1>9. Control!NoStrayInterrupt'
  BY <1>0, <1>1, <1>2, <1>3, ControlWire
     DEF ControlParts, Control!NoStrayInterrupt, Control!OneSender,
         Control!SentOnce, Control!OutcomeFits, Control!EvidenceFits, Control!OtherWaits,
         Control!Sending, Control!At, OthersKeep, ControlKept, JobKept, JobEnded
<1> QED
  BY <1>4, <1>5, <1>6, <1>7, <1>8, <1>9 DEF ControlParts

\* A late actor claims the turn.
LEMMA ControlLateClaim ==
    ASSUME Control!ControlInv, NEW t \in ControlLate, NEW mode \in {"stop",
           "ingress"}, Control!LateClaim(t, mode)
    PROVE  ControlParts'
<1>0. Control!Typed /\ ControlParts
  BY DEF Control!ControlInv, ControlParts
<1>1. /\ OthersKeep(t) /\ th'[t].pc = "read" /\ th'[t].result = th[t].result
  BY <1>0, ControlAllowed
     DEF Control!LateClaim, Control!Typed, Control!Actor, OthersKeep, Control!Threads
<1>2. ControlKept
  BY <1>0 DEF Control!LateClaim, Control!Typed, Control!Controls, ControlKept
<1>3. /\ rpc' = rpc
      /\ tcTurn' = tcTurn
      /\ JobKept
  BY <1>0 DEF Control!LateClaim, Control!Typed, Control!Jobs, Control!Wires, JobKept,
            JobEnded, ControlParts, Control!OutcomeFits, Control!OtherWaits,
            Control!EvidenceFits, Control!jobVars
<1>4. Control!OneSender'
  BY <1>0, <1>1, <1>2
     DEF ControlParts, Control!OneSender, Control!Sending, OthersKeep,
         ControlKept
<1>5. Control!SentOnce'
  BY <1>0, <1>1, <1>2, <1>3, ControlWire
     DEF ControlParts, Control!SentOnce, Control!OneSender, Control!Sending,
         Control!At, Control!Answers, OthersKeep, ControlKept
<1>6. Control!OutcomeFits'
  BY <1>0, <1>1, <1>2, <1>3, ControlWire
     DEF ControlParts, Control!OutcomeFits, Control!OneSender, Control!Sending,
         Control!SentOnce, Control!At, Control!Outcomes, Control!Answers, OthersKeep,
         ControlKept
<1>7. Control!EvidenceFits'
  BY <1>0, <1>1, <1>3
     DEF ControlParts, Control!EvidenceFits, Control!Over, Control!Answers,
         OthersKeep, Control!Threads, JobKept, JobEnded
<1>8. Control!OtherWaits'
  BY <1>0, <1>3
     DEF ControlParts, Control!OtherWaits, JobKept, JobEnded
<1>9. Control!NoStrayInterrupt'
  BY <1>0, <1>1, <1>2, <1>3, ControlWire
     DEF ControlParts, Control!NoStrayInterrupt, Control!OneSender,
         Control!SentOnce, Control!OutcomeFits, Control!EvidenceFits, Control!OtherWaits,
         Control!Sending, Control!At, OthersKeep, ControlKept, JobKept, JobEnded
<1> QED
  BY <1>4, <1>5, <1>6, <1>7, <1>8, <1>9 DEF ControlParts

\* An actor reads the turn.
LEMMA ControlRead ==
    ASSUME Control!ControlInv, NEW t \in Control!Threads, NEW b \in BOOLEAN,
           Control!Read(t, b)
    PROVE  ControlParts'
<1>0. Control!Typed /\ ControlParts
  BY DEF Control!ControlInv, ControlParts
<1>1. /\ OthersKeep(t) /\ th'[t].pc \in {"proved", "exit", "finish", "idle", "dead"}
        /\ (th'[t].result = th[t].result \/ th'[t].result = "unknown")
  <2>1. CASE b
    <3>1. th' = [th EXCEPT ![t].pc = "proved"]
      BY <2>1, Zenon DEF Control!Read, Control!Goto
    <3> QED
      BY <1>0, <3>1 DEF OthersKeep, Control!Typed, Control!Actor
  <2>2. CASE ~b
    BY <1>0, <2>2, ControlLeft DEF Control!Read
  <2> QED
    BY <2>1, <2>2
<1>2. ControlKept
  BY <1>0 DEF Control!Read, Control!Typed, Control!Controls, ControlKept
<1>3. /\ rpc' = rpc
      /\ tcTurn' = tcTurn
      /\ JobKept
  BY <1>0 DEF Control!Read, Control!Typed, Control!Jobs, Control!Wires, JobKept, JobEnded,
            ControlParts, Control!OutcomeFits, Control!OtherWaits,
            Control!EvidenceFits, Control!jobVars
<1>4. Control!OneSender'
  BY <1>0, <1>1, <1>2
     DEF ControlParts, Control!OneSender, Control!Sending, OthersKeep,
         ControlKept
<1>5. Control!SentOnce'
  BY <1>0, <1>1, <1>2, <1>3, ControlWire
     DEF ControlParts, Control!SentOnce, Control!OneSender, Control!Sending,
         Control!At, Control!Answers, OthersKeep, ControlKept
<1>6. Control!OutcomeFits'
  BY <1>0, <1>1, <1>2, <1>3, ControlWire
     DEF ControlParts, Control!OutcomeFits, Control!OneSender, Control!Sending,
         Control!SentOnce, Control!At, Control!Outcomes, Control!Answers, OthersKeep,
         ControlKept
<1>7. Control!EvidenceFits'
  BY <1>0, <1>1, <1>3
     DEF ControlParts, Control!EvidenceFits, Control!Over, Control!Answers,
         OthersKeep, Control!Threads, JobKept, JobEnded
<1>8. Control!OtherWaits'
  BY <1>0, <1>3
     DEF ControlParts, Control!OtherWaits, JobKept, JobEnded
<1>9. Control!NoStrayInterrupt'
  BY <1>0, <1>1, <1>2, <1>3, ControlWire
     DEF ControlParts, Control!NoStrayInterrupt, Control!OneSender,
         Control!SentOnce, Control!OutcomeFits, Control!EvidenceFits, Control!OtherWaits,
         Control!Sending, Control!At, OthersKeep, ControlKept, JobKept, JobEnded
<1> QED
  BY <1>4, <1>5, <1>6, <1>7, <1>8, <1>9 DEF ControlParts

\* An actor fences its send.
LEMMA ControlFence ==
    ASSUME Control!ControlInv, NEW t \in Control!Threads, Control!Fence(t)
    PROVE  ControlParts'
<1>0. Control!Typed /\ ControlParts
  BY DEF Control!ControlInv, ControlParts
<1>1. /\ OthersKeep(t) /\ th'[t].pc = "fenced" /\ th'[t].result = th[t].result
  BY <1>0, ControlAllowed
     DEF Control!Fence, Control!Typed, Control!Actor, OthersKeep
<1>2. /\ control'.started /\ control'.owner = t /\ control'.outcome = control.outcome
        /\ control'.quiesced = control.quiesced /\ ~control.started
  BY <1>0 DEF Control!Fence, Control!Typed, Control!Controls, ControlKept,
            Control!ValidTarget
<1>3. /\ rpc' = rpc
      /\ tcTurn' = tcTurn
      /\ JobKept
      /\ ~tcResolved /\ tcJob.status # "closed"
  BY <1>0 DEF Control!Fence, Control!Typed, Control!Jobs, Control!Wires, JobKept,
            JobEnded, ControlParts, Control!OutcomeFits, Control!OtherWaits,
            Control!EvidenceFits, Control!jobVars, Control!ValidTarget, Control!Coherent
<1>4. Control!OneSender'
  BY <1>0, <1>1, <1>2
     DEF ControlParts, Control!OneSender, Control!Sending, OthersKeep,
         ControlKept
<1>5. Control!SentOnce'
  BY <1>0, <1>1, <1>2, <1>3, ControlWire
     DEF ControlParts, Control!SentOnce, Control!OneSender, Control!Sending,
         Control!At, Control!Answers, OthersKeep, ControlKept
<1>6. Control!OutcomeFits'
  BY <1>0, <1>1, <1>2, <1>3, ControlWire
     DEF ControlParts, Control!OutcomeFits, Control!OneSender, Control!Sending,
         Control!SentOnce, Control!At, Control!Outcomes, Control!Answers, OthersKeep,
         ControlKept
<1>7. Control!EvidenceFits'
  BY <1>0, <1>1, <1>3
     DEF ControlParts, Control!EvidenceFits, Control!Over, Control!Answers,
         OthersKeep, Control!Threads, JobKept, JobEnded
<1>8. Control!OtherWaits'
  BY <1>0, <1>3
     DEF ControlParts, Control!OtherWaits, JobKept, JobEnded
<1>9. Control!NoStrayInterrupt'
  BY <1>0, <1>1, <1>2, <1>3, ControlWire
     DEF ControlParts, Control!NoStrayInterrupt, Control!OneSender,
         Control!SentOnce, Control!OutcomeFits, Control!EvidenceFits, Control!OtherWaits,
         Control!Sending, Control!At, OthersKeep, ControlKept, JobKept, JobEnded
<1> QED
  BY <1>4, <1>5, <1>6, <1>7, <1>8, <1>9 DEF ControlParts

\* An ingress reservation becomes a stop.
LEMMA ControlPreferStop ==
    ASSUME Control!ControlInv, NEW t \in Control!Threads, Control!PreferStop(t)
    PROVE  ControlParts'
<1>0. Control!Typed /\ ControlParts
  BY DEF Control!ControlInv, ControlParts
<1>1. /\ OthersKeep(t) /\ th'[t].pc = "proved" /\ th'[t].result = th[t].result
  BY <1>0, ControlAllowed
     DEF Control!PreferStop, Control!Typed, Control!Actor, OthersKeep, Control!At
<1>2. ControlKept
  BY <1>0 DEF Control!PreferStop, Control!Typed, Control!Controls, ControlKept
<1>3. /\ rpc' = rpc
      /\ tcTurn' = tcTurn
      /\ JobKept
  BY <1>0 DEF Control!PreferStop, Control!Typed, Control!Jobs, Control!Wires, JobKept,
            JobEnded, ControlParts, Control!OutcomeFits, Control!OtherWaits,
            Control!EvidenceFits, Control!jobVars
<1>4. Control!OneSender'
  BY <1>0, <1>1, <1>2
     DEF ControlParts, Control!OneSender, Control!Sending, OthersKeep,
         ControlKept
<1>5. Control!SentOnce'
  BY <1>0, <1>1, <1>2, <1>3, ControlWire
     DEF ControlParts, Control!SentOnce, Control!OneSender, Control!Sending,
         Control!At, Control!Answers, OthersKeep, ControlKept
<1>6. Control!OutcomeFits'
  BY <1>0, <1>1, <1>2, <1>3, ControlWire
     DEF ControlParts, Control!OutcomeFits, Control!OneSender, Control!Sending,
         Control!SentOnce, Control!At, Control!Outcomes, Control!Answers, OthersKeep,
         ControlKept
<1>7. Control!EvidenceFits'
  BY <1>0, <1>1, <1>3
     DEF ControlParts, Control!EvidenceFits, Control!Over, Control!Answers,
         OthersKeep, Control!Threads, JobKept, JobEnded
<1>8. Control!OtherWaits'
  BY <1>0, <1>3
     DEF ControlParts, Control!OtherWaits, JobKept, JobEnded
<1>9. Control!NoStrayInterrupt'
  BY <1>0, <1>1, <1>2, <1>3, ControlWire
     DEF ControlParts, Control!NoStrayInterrupt, Control!OneSender,
         Control!SentOnce, Control!OutcomeFits, Control!EvidenceFits, Control!OtherWaits,
         Control!Sending, Control!At, OthersKeep, ControlKept, JobKept, JobEnded
<1> QED
  BY <1>4, <1>5, <1>6, <1>7, <1>8, <1>9 DEF ControlParts

\* The fence is refused.
LEMMA ControlFenceRefused ==
    ASSUME Control!ControlInv, NEW t \in Control!Threads, Control!FenceRefused(t)
    PROVE  ControlParts'
<1>0. Control!Typed /\ ControlParts
  BY DEF Control!ControlInv, ControlParts
<1>1. /\ OthersKeep(t) /\ th'[t].pc \in {"exit", "finish", "idle", "dead"}
        /\ th'[t].result = "unknown"
  BY <1>0, ControlLeft DEF Control!FenceRefused
<1>2. ControlKept
  BY <1>0 DEF Control!FenceRefused, Control!Typed, Control!Controls, ControlKept
<1>3. /\ rpc' = rpc
      /\ tcTurn' = tcTurn
      /\ JobKept
  BY <1>0 DEF Control!FenceRefused, Control!Typed, Control!Jobs, Control!Wires, JobKept,
            JobEnded, ControlParts, Control!OutcomeFits, Control!OtherWaits,
            Control!EvidenceFits, Control!jobVars
<1>4. Control!OneSender'
  BY <1>0, <1>1, <1>2
     DEF ControlParts, Control!OneSender, Control!Sending, OthersKeep,
         ControlKept
<1>5. Control!SentOnce'
  BY <1>0, <1>1, <1>2, <1>3, ControlWire
     DEF ControlParts, Control!SentOnce, Control!OneSender, Control!Sending,
         Control!At, Control!Answers, OthersKeep, ControlKept
<1>6. Control!OutcomeFits'
  BY <1>0, <1>1, <1>2, <1>3, ControlWire
     DEF ControlParts, Control!OutcomeFits, Control!OneSender, Control!Sending,
         Control!SentOnce, Control!At, Control!Outcomes, Control!Answers, OthersKeep,
         ControlKept
<1>7. Control!EvidenceFits'
  BY <1>0, <1>1, <1>3
     DEF ControlParts, Control!EvidenceFits, Control!Over, Control!Answers,
         OthersKeep, Control!Threads, JobKept, JobEnded
<1>8. Control!OtherWaits'
  BY <1>0, <1>3
     DEF ControlParts, Control!OtherWaits, JobKept, JobEnded
<1>9. Control!NoStrayInterrupt'
  BY <1>0, <1>1, <1>2, <1>3, ControlWire
     DEF ControlParts, Control!NoStrayInterrupt, Control!OneSender,
         Control!SentOnce, Control!OutcomeFits, Control!EvidenceFits, Control!OtherWaits,
         Control!Sending, Control!At, OthersKeep, ControlKept, JobKept, JobEnded
<1> QED
  BY <1>4, <1>5, <1>6, <1>7, <1>8, <1>9 DEF ControlParts

\* The proof has aged and nothing is sent.
LEMMA ControlNotSent ==
    ASSUME Control!ControlInv, NEW t \in Control!Threads, Control!NotSent(t)
    PROVE  ControlParts'
<1>0. Control!Typed /\ ControlParts
  BY DEF Control!ControlInv, ControlParts
<1>1. /\ OthersKeep(t) /\ th'[t].pc = "settle" /\ th'[t].result = "not_sent" /\ th[t].pc = "fenced"
  BY <1>0, ControlAllowed
     DEF Control!NotSent, Control!Typed, Control!Actor, OthersKeep, Control!Settling,
         Control!At
<1>2. ControlKept
  BY <1>0 DEF Control!NotSent, Control!Typed, Control!Controls, ControlKept
<1>3. /\ rpc' = rpc
      /\ tcTurn' = tcTurn
      /\ JobKept
      /\ rpc.sent = 0 /\ rpc.flying = 0
  <2>1. rpc' = rpc /\ tcTurn' = tcTurn /\ JobKept
    BY DEF Control!NotSent, JobKept, Control!jobVars
  <2>2. /\ rpc.sent \in Nat /\ rpc.flying \in Nat /\ rpc.sent = 0 /\ rpc.flying <= rpc.sent
    BY <1>0, <1>1, ControlWire DEF ControlParts, Control!SentOnce, Control!At
  <2> QED
    BY <2>1, <2>2
<1>4. Control!OneSender'
  BY <1>0, <1>1, <1>2
     DEF ControlParts, Control!OneSender, Control!Sending, OthersKeep,
         ControlKept
<1>5. Control!SentOnce'
  BY <1>0, <1>1, <1>2, <1>3, ControlWire
     DEF ControlParts, Control!SentOnce, Control!OneSender, Control!Sending,
         Control!At, Control!Answers, OthersKeep, ControlKept
<1>6. Control!OutcomeFits'
  BY <1>0, <1>1, <1>2, <1>3, ControlWire
     DEF ControlParts, Control!OutcomeFits, Control!OneSender, Control!Sending,
         Control!SentOnce, Control!At, Control!Outcomes, Control!Answers, OthersKeep,
         ControlKept
<1>7. Control!EvidenceFits'
  BY <1>0, <1>1, <1>3
     DEF ControlParts, Control!EvidenceFits, Control!Over, Control!Answers,
         OthersKeep, Control!Threads, JobKept, JobEnded
<1>8. Control!OtherWaits'
  BY <1>0, <1>3
     DEF ControlParts, Control!OtherWaits, JobKept, JobEnded
<1>9. Control!NoStrayInterrupt'
  BY <1>0, <1>1, <1>2, <1>3, ControlWire
     DEF ControlParts, Control!NoStrayInterrupt, Control!OneSender,
         Control!SentOnce, Control!OutcomeFits, Control!EvidenceFits, Control!OtherWaits,
         Control!Sending, Control!At, OthersKeep, ControlKept, JobKept, JobEnded
<1> QED
  BY <1>4, <1>5, <1>6, <1>7, <1>8, <1>9 DEF ControlParts

\* The interrupt is sent.
LEMMA ControlSend ==
    ASSUME Control!ControlInv, NEW t \in Control!Threads, Control!Send(t)
    PROVE  ControlParts'
<1>0. Control!Typed /\ ControlParts
  BY DEF Control!ControlInv, ControlParts
<1>1. /\ OthersKeep(t) /\ th'[t].pc = "waiting" /\ th'[t].result = th[t].result /\ th[t].pc = "fenced"
  BY <1>0, ControlAllowed
     DEF Control!Send, Control!Typed, Control!Actor, OthersKeep, Control!Goto,
         Control!At
<1>2. ControlKept
  BY <1>0 DEF Control!Send, Control!Typed, Control!Controls, ControlKept
<1>3. /\ rpc.sent = 0 /\ rpc'.sent = 1 /\ rpc'.flying = 1 /\ rpc'.answer = "none"
      /\ tcTurn' = tcTurn
      /\ JobKept
  <2>1. /\ rpc'.sent = rpc.sent + 1 /\ rpc'.flying = rpc.flying + 1 /\ rpc'.answer = "none"
        /\ tcTurn' = tcTurn /\ JobKept
    BY <1>0 DEF Control!Send, Control!Typed, Control!Wires, JobKept, Control!jobVars
  <2>2. /\ rpc.sent \in Nat /\ rpc.flying \in Nat /\ rpc.sent = 0 /\ rpc.flying <= rpc.sent
    BY <1>0, <1>1, ControlWire DEF ControlParts, Control!SentOnce, Control!At
  <2>3. rpc.flying + 1 = 1 /\ rpc.sent + 1 = 1
    BY <2>2
  <2> QED
    BY <2>1, <2>2, <2>3
<1>4. Control!OneSender'
  BY <1>0, <1>1, <1>2
     DEF ControlParts, Control!OneSender, Control!Sending, OthersKeep,
         ControlKept
<1>5. Control!SentOnce'
  BY <1>0, <1>1, <1>2, <1>3
     DEF ControlParts, Control!SentOnce, Control!OneSender, Control!Sending,
         Control!At, Control!Answers, OthersKeep, ControlKept
<1>6. Control!OutcomeFits'
  BY <1>0, <1>1, <1>2, <1>3, ControlWire
     DEF ControlParts, Control!OutcomeFits, Control!OneSender, Control!Sending,
         Control!SentOnce, Control!At, Control!Outcomes, Control!Answers, OthersKeep,
         ControlKept
<1>7. Control!EvidenceFits'
  BY <1>0, <1>1, <1>3
     DEF ControlParts, Control!EvidenceFits, Control!Over, Control!Answers,
         OthersKeep, Control!Threads, JobKept, JobEnded
<1>8. Control!OtherWaits'
  BY <1>0, <1>3
     DEF ControlParts, Control!OtherWaits, JobKept, JobEnded
<1>9. Control!NoStrayInterrupt'
  BY <1>0, <1>1, <1>2, <1>3, ControlWire
     DEF ControlParts, Control!NoStrayInterrupt, Control!OneSender,
         Control!SentOnce, Control!OutcomeFits, Control!EvidenceFits, Control!OtherWaits,
         Control!Sending, Control!At, OthersKeep, ControlKept, JobKept, JobEnded
<1> QED
  BY <1>4, <1>5, <1>6, <1>7, <1>8, <1>9 DEF ControlParts

\* The answer of the provider arrives.
LEMMA ControlAnswered ==
    ASSUME Control!ControlInv, NEW t \in Control!Threads, Control!Answered(t)
    PROVE  ControlParts'
<1>0. Control!Typed /\ ControlParts
  BY DEF Control!ControlInv, ControlParts
<1>1. /\ OthersKeep(t) /\ th'[t].pc = "settle" /\ th'[t].result = rpc.answer /\ th[t].pc = "waiting"
  BY <1>0, ControlAllowed
     DEF Control!Answered, Control!Typed, Control!Actor, OthersKeep, Control!Settling,
         Control!At
<1>2. ControlKept
  BY <1>0 DEF Control!Answered, Control!Typed, Control!Controls, ControlKept
<1>3. /\ rpc'.sent = rpc.sent /\ rpc'.flying = rpc.flying /\ rpc'.answer = "none" /\ rpc.answer # "none"
      /\ tcTurn' = tcTurn
      /\ JobKept
  BY <1>0 DEF Control!Answered, Control!Typed, Control!Jobs, Control!Wires, JobKept,
            JobEnded, ControlParts, Control!OutcomeFits, Control!OtherWaits,
            Control!EvidenceFits, Control!jobVars
<1>4. Control!OneSender'
  BY <1>0, <1>1, <1>2
     DEF ControlParts, Control!OneSender, Control!Sending, OthersKeep,
         ControlKept
<1>5. Control!SentOnce'
  BY <1>0, <1>1, <1>2, <1>3, ControlWire
     DEF ControlParts, Control!SentOnce, Control!OneSender, Control!Sending,
         Control!At, Control!Answers, OthersKeep, ControlKept
<1>6. Control!OutcomeFits'
  BY <1>0, <1>1, <1>2, <1>3, ControlWire
     DEF ControlParts, Control!OutcomeFits, Control!OneSender, Control!Sending,
         Control!SentOnce, Control!At, Control!Outcomes, Control!Answers, OthersKeep,
         ControlKept
<1>7. Control!EvidenceFits'
  BY <1>0, <1>1, <1>3, ControlWire
     DEF ControlParts, Control!EvidenceFits, Control!Over, Control!Answers,
         OthersKeep, Control!Threads, JobKept, JobEnded
<1>8. Control!OtherWaits'
  BY <1>0, <1>3
     DEF ControlParts, Control!OtherWaits, JobKept, JobEnded
<1>9. Control!NoStrayInterrupt'
  BY <1>0, <1>1, <1>2, <1>3, ControlWire
     DEF ControlParts, Control!NoStrayInterrupt, Control!OneSender,
         Control!SentOnce, Control!OutcomeFits, Control!EvidenceFits, Control!OtherWaits,
         Control!Sending, Control!At, OthersKeep, ControlKept, JobKept, JobEnded
<1> QED
  BY <1>4, <1>5, <1>6, <1>7, <1>8, <1>9 DEF ControlParts

\* No answer arrives in time.
LEMMA ControlNoAnswer ==
    ASSUME Control!ControlInv, NEW t \in Control!Threads, Control!NoAnswer(t)
    PROVE  ControlParts'
<1>0. Control!Typed /\ ControlParts
  BY DEF Control!ControlInv, ControlParts
<1>1. /\ OthersKeep(t) /\ th'[t].pc = "settle" /\ th'[t].result = "unknown" /\ th[t].pc = "waiting"
  BY <1>0, ControlAllowed
     DEF Control!NoAnswer, Control!Typed, Control!Actor, OthersKeep, Control!Settling,
         Control!At
<1>2. ControlKept
  BY <1>0 DEF Control!NoAnswer, Control!Typed, Control!Controls, ControlKept
<1>3. /\ rpc' = rpc
      /\ tcTurn' = tcTurn
      /\ JobKept
  BY <1>0 DEF Control!NoAnswer, Control!Typed, Control!Jobs, Control!Wires, JobKept,
            JobEnded, ControlParts, Control!OutcomeFits, Control!OtherWaits,
            Control!EvidenceFits, Control!jobVars
<1>4. Control!OneSender'
  BY <1>0, <1>1, <1>2
     DEF ControlParts, Control!OneSender, Control!Sending, OthersKeep,
         ControlKept
<1>5. Control!SentOnce'
  BY <1>0, <1>1, <1>2, <1>3, ControlWire
     DEF ControlParts, Control!SentOnce, Control!OneSender, Control!Sending,
         Control!At, Control!Answers, OthersKeep, ControlKept
<1>6. Control!OutcomeFits'
  BY <1>0, <1>1, <1>2, <1>3, ControlWire
     DEF ControlParts, Control!OutcomeFits, Control!OneSender, Control!Sending,
         Control!SentOnce, Control!At, Control!Outcomes, Control!Answers, OthersKeep,
         ControlKept
<1>7. Control!EvidenceFits'
  BY <1>0, <1>1, <1>3
     DEF ControlParts, Control!EvidenceFits, Control!Over, Control!Answers,
         OthersKeep, Control!Threads, JobKept, JobEnded
<1>8. Control!OtherWaits'
  BY <1>0, <1>3
     DEF ControlParts, Control!OtherWaits, JobKept, JobEnded
<1>9. Control!NoStrayInterrupt'
  BY <1>0, <1>1, <1>2, <1>3, ControlWire
     DEF ControlParts, Control!NoStrayInterrupt, Control!OneSender,
         Control!SentOnce, Control!OutcomeFits, Control!EvidenceFits, Control!OtherWaits,
         Control!Sending, Control!At, OthersKeep, ControlKept, JobKept, JobEnded
<1> QED
  BY <1>4, <1>5, <1>6, <1>7, <1>8, <1>9 DEF ControlParts

\* The outcome of the send is recorded.
LEMMA ControlSettle ==
    ASSUME Control!ControlInv, NEW t \in Control!Threads, Control!Settle(t)
    PROVE  ControlParts'
<1>0. Control!Typed /\ ControlParts
  BY DEF Control!ControlInv, ControlParts
<1>1. /\ OthersKeep(t) /\ th'[t].pc = "reread" /\ th'[t].result = "unknown" /\ th[t].pc = "settle"
  BY <1>0, ControlAllowed
     DEF Control!Settle, Control!Typed, Control!Actor, OthersKeep, Control!At
<1>2. \/ ControlKept
        \/ /\ control'.started = control.started /\ control'.owner = control.owner
           /\ control.owner = t /\ control'.outcome = th[t].result
           /\ control'.quiesced = (control.quiesced \/ th[t].result # "unknown")
  BY <1>0 DEF Control!Settle, Control!Typed, Control!Controls, ControlKept
<1>3. /\ rpc' = rpc
      /\ tcTurn' = tcTurn
      /\ JobKept
  BY <1>0 DEF Control!Settle, Control!Typed, Control!Jobs, Control!Wires, JobKept,
            JobEnded, ControlParts, Control!OutcomeFits, Control!OtherWaits,
            Control!EvidenceFits, Control!jobVars
<1>4. Control!OneSender'
  BY <1>0, <1>1, <1>2
     DEF ControlParts, Control!OneSender, Control!Sending, OthersKeep,
         ControlKept
<1>5. Control!SentOnce'
  BY <1>0, <1>1, <1>2, <1>3, ControlWire
     DEF ControlParts, Control!SentOnce, Control!OneSender, Control!Sending,
         Control!At, Control!Answers, OthersKeep, ControlKept
<1>6. Control!OutcomeFits'
  BY <1>0, <1>1, <1>2, <1>3, ControlWire
     DEF ControlParts, Control!OutcomeFits, Control!OneSender, Control!Sending,
         Control!SentOnce, Control!At, Control!Outcomes, Control!Answers, OthersKeep,
         ControlKept
<1>7. Control!EvidenceFits'
  BY <1>0, <1>1, <1>3
     DEF ControlParts, Control!EvidenceFits, Control!Over, Control!Answers,
         OthersKeep, Control!Threads, JobKept, JobEnded
<1>8. Control!OtherWaits'
  BY <1>0, <1>3
     DEF ControlParts, Control!OtherWaits, JobKept, JobEnded
<1>9. Control!NoStrayInterrupt'
  BY <1>0, <1>1, <1>2, <1>3, ControlWire
     DEF ControlParts, Control!NoStrayInterrupt, Control!OneSender,
         Control!SentOnce, Control!OutcomeFits, Control!EvidenceFits, Control!OtherWaits,
         Control!Sending, Control!At, OthersKeep, ControlKept, JobKept, JobEnded
<1> QED
  BY <1>4, <1>5, <1>6, <1>7, <1>8, <1>9 DEF ControlParts

\* The read after the send fails.
LEMMA ControlRereadFails ==
    ASSUME Control!ControlInv, NEW t \in Control!Threads, Control!RereadFails(t)
    PROVE  ControlParts'
<1>0. Control!Typed /\ ControlParts
  BY DEF Control!ControlInv, ControlParts
<1>1. /\ OthersKeep(t) /\ th'[t].pc \in {"exit", "finish", "idle", "dead"}
        /\ th'[t].result = "unknown"
  BY <1>0, ControlLeft DEF Control!RereadFails
<1>2. ControlKept
  BY <1>0 DEF Control!RereadFails, Control!Typed, Control!Controls, ControlKept
<1>3. /\ rpc' = rpc
      /\ tcTurn' = tcTurn
      /\ JobKept
  BY <1>0 DEF Control!RereadFails, Control!Typed, Control!Jobs, Control!Wires, JobKept,
            JobEnded, ControlParts, Control!OutcomeFits, Control!OtherWaits,
            Control!EvidenceFits, Control!jobVars
<1>4. Control!OneSender'
  BY <1>0, <1>1, <1>2
     DEF ControlParts, Control!OneSender, Control!Sending, OthersKeep,
         ControlKept
<1>5. Control!SentOnce'
  BY <1>0, <1>1, <1>2, <1>3, ControlWire
     DEF ControlParts, Control!SentOnce, Control!OneSender, Control!Sending,
         Control!At, Control!Answers, OthersKeep, ControlKept
<1>6. Control!OutcomeFits'
  BY <1>0, <1>1, <1>2, <1>3, ControlWire
     DEF ControlParts, Control!OutcomeFits, Control!OneSender, Control!Sending,
         Control!SentOnce, Control!At, Control!Outcomes, Control!Answers, OthersKeep,
         ControlKept
<1>7. Control!EvidenceFits'
  BY <1>0, <1>1, <1>3
     DEF ControlParts, Control!EvidenceFits, Control!Over, Control!Answers,
         OthersKeep, Control!Threads, JobKept, JobEnded
<1>8. Control!OtherWaits'
  BY <1>0, <1>3
     DEF ControlParts, Control!OtherWaits, JobKept, JobEnded
<1>9. Control!NoStrayInterrupt'
  BY <1>0, <1>1, <1>2, <1>3, ControlWire
     DEF ControlParts, Control!NoStrayInterrupt, Control!OneSender,
         Control!SentOnce, Control!OutcomeFits, Control!EvidenceFits, Control!OtherWaits,
         Control!Sending, Control!At, OthersKeep, ControlKept, JobKept, JobEnded
<1> QED
  BY <1>4, <1>5, <1>6, <1>7, <1>8, <1>9 DEF ControlParts

\* A read finds the turn over.
LEMMA ControlObserve ==
    ASSUME Control!ControlInv, NEW t \in Control!Threads, Control!Observe(t)
    PROVE  ControlParts'
<1>0. Control!Typed /\ ControlParts
  BY DEF Control!ControlInv, ControlParts
<1>1. /\ OthersKeep(t) /\ th'[t].pc \in {"exit", "finish", "idle", "dead"}
        /\ (th'[t].result = "unknown" \/ tcTurn # "active")
  <2>1. CASE t \in ControlLate
    BY <1>0, <2>1, ControlLeft DEF Control!Observe
  <2>2. CASE t \notin ControlLate
    <3>1. PICK a : /\ th' = [th EXCEPT ![t] = a] /\ a.pc \in {"dead", "finish"}
                   /\ (a.result = "unknown" \/ tcTurn # "active")
      BY <2>2 DEF Control!Observe, Control!Resting
    <3> QED
      BY <1>0, <3>1 DEF OthersKeep, Control!Typed
  <2> QED
    BY <2>1, <2>2
<1>2. ControlKept
  BY <1>0 DEF Control!Observe, Control!Typed, Control!Controls, ControlKept
<1>3. /\ rpc' = rpc
      /\ tcTurn' = tcTurn
      /\ (JobKept \/ JobEnded)
      /\ tcTurn # "active"
  BY <1>0 DEF Control!Observe, Control!Typed, Control!Jobs, Control!Wires, JobKept,
            JobEnded, ControlParts, Control!OutcomeFits, Control!OtherWaits,
            Control!EvidenceFits, Control!EndJob, Control!jobVars
<1>4. Control!OneSender'
  BY <1>0, <1>1, <1>2
     DEF ControlParts, Control!OneSender, Control!Sending, OthersKeep,
         ControlKept
<1>5. Control!SentOnce'
  BY <1>0, <1>1, <1>2, <1>3, ControlWire
     DEF ControlParts, Control!SentOnce, Control!OneSender, Control!Sending,
         Control!At, Control!Answers, OthersKeep, ControlKept
<1>6. Control!OutcomeFits'
  BY <1>0, <1>1, <1>2, <1>3, ControlWire
     DEF ControlParts, Control!OutcomeFits, Control!OneSender, Control!Sending,
         Control!SentOnce, Control!At, Control!Outcomes, Control!Answers, OthersKeep,
         ControlKept
<1>7. Control!EvidenceFits'
  BY <1>0, <1>1, <1>3
     DEF ControlParts, Control!EvidenceFits, Control!Over, Control!Answers,
         OthersKeep, Control!Threads, JobKept, JobEnded
<1>8. Control!OtherWaits'
  <2>1. CASE JobKept
    BY <1>0, <2>1 DEF ControlParts, Control!OtherWaits, JobKept
  <2>2. CASE JobEnded
    BY <2>2 DEF Control!OtherWaits, JobEnded
  <2> QED
    BY <1>3, <2>1, <2>2
<1>9. Control!NoStrayInterrupt'
  BY <1>0, <1>1, <1>2, <1>3, ControlWire
     DEF ControlParts, Control!NoStrayInterrupt, Control!OneSender,
         Control!SentOnce, Control!OutcomeFits, Control!EvidenceFits, Control!OtherWaits,
         Control!Sending, Control!At, OthersKeep, ControlKept, JobKept, JobEnded
<1> QED
  BY <1>4, <1>5, <1>6, <1>7, <1>8, <1>9 DEF ControlParts

\* A late actor gives its claim back.
LEMMA ControlExit ==
    ASSUME Control!ControlInv, NEW t \in Control!Threads, Control!Exit(t)
    PROVE  ControlParts'
<1>0. Control!Typed /\ ControlParts
  BY DEF Control!ControlInv, ControlParts
<1>1. /\ OthersKeep(t) /\ th'[t].pc = "idle" /\ th'[t].result = "unknown"
  BY <1>0, ControlAllowed
     DEF Control!Exit, Control!Typed, Control!Actor, OthersKeep, Control!Resting
<1>2. ControlKept
  BY <1>0 DEF Control!Exit, Control!Typed, Control!Controls, ControlKept
<1>3. /\ rpc' = rpc
      /\ tcTurn' = tcTurn
      /\ JobKept
  BY <1>0 DEF Control!Exit, Control!Typed, Control!Jobs, Control!Wires, JobKept, JobEnded,
            ControlParts, Control!OutcomeFits, Control!OtherWaits,
            Control!EvidenceFits, Control!jobVars
<1>4. Control!OneSender'
  BY <1>0, <1>1, <1>2
     DEF ControlParts, Control!OneSender, Control!Sending, OthersKeep,
         ControlKept
<1>5. Control!SentOnce'
  BY <1>0, <1>1, <1>2, <1>3, ControlWire
     DEF ControlParts, Control!SentOnce, Control!OneSender, Control!Sending,
         Control!At, Control!Answers, OthersKeep, ControlKept
<1>6. Control!OutcomeFits'
  BY <1>0, <1>1, <1>2, <1>3, ControlWire
     DEF ControlParts, Control!OutcomeFits, Control!OneSender, Control!Sending,
         Control!SentOnce, Control!At, Control!Outcomes, Control!Answers, OthersKeep,
         ControlKept
<1>7. Control!EvidenceFits'
  BY <1>0, <1>1, <1>3
     DEF ControlParts, Control!EvidenceFits, Control!Over, Control!Answers,
         OthersKeep, Control!Threads, JobKept, JobEnded
<1>8. Control!OtherWaits'
  BY <1>0, <1>3
     DEF ControlParts, Control!OtherWaits, JobKept, JobEnded
<1>9. Control!NoStrayInterrupt'
  BY <1>0, <1>1, <1>2, <1>3, ControlWire
     DEF ControlParts, Control!NoStrayInterrupt, Control!OneSender,
         Control!SentOnce, Control!OutcomeFits, Control!EvidenceFits, Control!OtherWaits,
         Control!Sending, Control!At, OthersKeep, ControlKept, JobKept, JobEnded
<1> QED
  BY <1>4, <1>5, <1>6, <1>7, <1>8, <1>9 DEF ControlParts

\* The process of a late actor dies.
LEMMA ControlCrashLate ==
    ASSUME Control!ControlInv, NEW t \in ControlLate, Control!CrashLate(t)
    PROVE  ControlParts'
<1>0. Control!Typed /\ ControlParts
  BY DEF Control!ControlInv, ControlParts
<1>1. /\ OthersKeep(t) /\ th'[t].pc = "idle" /\ th'[t].result = "unknown"
  BY <1>0, ControlAllowed
     DEF Control!CrashLate, Control!Typed, Control!Actor, OthersKeep, Control!Resting,
         Control!Threads
<1>2. ControlKept
  BY <1>0 DEF Control!CrashLate, Control!Typed, Control!Controls, ControlKept
<1>3. /\ rpc' = rpc
      /\ tcTurn' = tcTurn
      /\ JobKept
  BY <1>0 DEF Control!CrashLate, Control!Typed, Control!Jobs, Control!Wires, JobKept,
            JobEnded, ControlParts, Control!OutcomeFits, Control!OtherWaits,
            Control!EvidenceFits, Control!jobVars
<1>4. Control!OneSender'
  BY <1>0, <1>1, <1>2
     DEF ControlParts, Control!OneSender, Control!Sending, OthersKeep,
         ControlKept
<1>5. Control!SentOnce'
  BY <1>0, <1>1, <1>2, <1>3, ControlWire
     DEF ControlParts, Control!SentOnce, Control!OneSender, Control!Sending,
         Control!At, Control!Answers, OthersKeep, ControlKept
<1>6. Control!OutcomeFits'
  BY <1>0, <1>1, <1>2, <1>3, ControlWire
     DEF ControlParts, Control!OutcomeFits, Control!OneSender, Control!Sending,
         Control!SentOnce, Control!At, Control!Outcomes, Control!Answers, OthersKeep,
         ControlKept
<1>7. Control!EvidenceFits'
  BY <1>0, <1>1, <1>3
     DEF ControlParts, Control!EvidenceFits, Control!Over, Control!Answers,
         OthersKeep, Control!Threads, JobKept, JobEnded
<1>8. Control!OtherWaits'
  BY <1>0, <1>3
     DEF ControlParts, Control!OtherWaits, JobKept, JobEnded
<1>9. Control!NoStrayInterrupt'
  BY <1>0, <1>1, <1>2, <1>3, ControlWire
     DEF ControlParts, Control!NoStrayInterrupt, Control!OneSender,
         Control!SentOnce, Control!OutcomeFits, Control!EvidenceFits, Control!OtherWaits,
         Control!Sending, Control!At, OthersKeep, ControlKept, JobKept, JobEnded
<1> QED
  BY <1>4, <1>5, <1>6, <1>7, <1>8, <1>9 DEF ControlParts

\* Every step keeps the invariant.
LEMMA ControlStep ==
    ASSUME Control!ControlInv, Control!Next
    PROVE  Control!ControlInv'
<1>1. Control!Typed'
  BY ControlTyped DEF Control!ControlInv
<1>2. ControlParts'
  <2>1. ASSUME NEW t \in Control!Threads, Control!Step(t) PROVE ControlParts'
    <3>1. ASSUME NEW b \in BOOLEAN, Control!Read(t, b) PROVE ControlParts'
      BY <3>1, ControlRead
    <3> QED
      BY <2>1, <3>1, ControlFence, ControlPreferStop, ControlFenceRefused, ControlNotSent,
         ControlSend, ControlAnswered, ControlNoAnswer, ControlSettle, ControlRereadFails,
         ControlObserve, ControlExit DEF Control!Step
  <2>2. ASSUME Control!Recover PROVE ControlParts'
    BY <2>2, ControlRecoverStale DEF Control!Recover
  <2>3. ASSUME NEW mode \in {"stop", "ingress"},
               Control!LiveStart(mode) \/ \E t \in ControlLate : Control!LateClaim(t, mode)
        PROVE  ControlParts'
    BY <2>3, ControlLiveStart, ControlLateClaim
  <2>4. ASSUME NEW c \in BOOLEAN, Control!Accept(c) \/ Control!Handle(c) PROVE ControlParts'
    BY <2>4, ControlAccept, ControlHandle
  <2>5. ASSUME NEW s \in 1..ControlStops, Control!RequestStop(s) PROVE ControlParts'
    BY <2>5, ControlRequestStop
  <2>6. ASSUME NEW t \in ControlLate, Control!CrashLate(t) PROVE ControlParts'
    BY <2>6, ControlCrashLate
  <2> QED
    BY <2>1, <2>2, <2>3, <2>4, <2>5, <2>6, ControlTurnEnds, ControlIngressTurns,
       ControlLeaseExpires, ControlResolveIndeterminate, ControlStartOther, ControlWorkerWakes,
       ControlWorkerFinish, ControlCrashWorker, ControlClaimExpires
       DEF Control!Next
<1> QED
  BY <1>1, <1>2 DEF Control!ControlInv, ControlParts

\* A behaviour starts with nothing sent and nobody sending.
LEMMA ControlStart ==
    ASSUME Control!Init
    PROVE  Control!ControlInv
<1>1. Control!Resting \in Control!Actor /\ [Control!Resting EXCEPT !.pc = "accept"] \in Control!Actor
  BY ControlActor DEF Control!Steps
<1>2. /\ 0 \in 0..ControlReads /\ 0 \in 0..ControlStops /\ 0 \in Nat
  BY ControlAllowed
<1>3. th \in [Control!Threads -> Control!Actor]
  BY <1>1 DEF Control!Init
<1>4. control \in Control!Controls
  BY <1>2 DEF Control!Init, Control!Controls, Control!NoClaim
<1>5. Control!Typed
  BY <1>2, <1>3, <1>4 DEF Control!Init, Control!Typed, Control!Jobs, Control!Wires, Control!Over
<1>6. \A t \in Control!Threads : th[t].pc \in {"idle", "accept"} /\ th[t].result = "unknown"
  BY DEF Control!Init, Control!Resting
<1>7. /\ Control!OneSender /\ Control!SentOnce /\ Control!OutcomeFits /\ Control!EvidenceFits
  <2>1. /\ rpc = [sent |-> 0, flying |-> 0, answer |-> "none"] /\ control.outcome = "none"
        /\ ~control.quiesced /\ ~evidence
    BY DEF Control!Init
  <2>2. Control!OneSender /\ Control!EvidenceFits
    BY <1>6, <2>1
       DEF Control!OneSender, Control!EvidenceFits, Control!Sending, Control!Over,
           Control!Threads
  <2>3. Control!SentOnce /\ Control!OutcomeFits
    BY <1>2, <1>6, <2>1 DEF Control!SentOnce, Control!OutcomeFits, Control!At
  <2> QED
    BY <2>2, <2>3
<1>8. Control!OtherWaits /\ Control!NoStrayInterrupt
  BY DEF Control!Init, Control!OtherWaits, Control!NoStrayInterrupt
<1> QED
  BY <1>5, <1>7, <1>8 DEF Control!ControlInv

\* The invariant says what is promised of an interrupt.
LEMMA ControlPromises ==
    ASSUME Control!ControlInv
    PROVE  /\ Control!TypeOK /\ Control!InterruptedOnce
           /\ Control!NoStrayInterrupt /\ Control!OutcomeIsEvidence
<1>1. Control!Typed
  BY DEF Control!ControlInv
<1>2. {evidence, tcResolved, due, other, control.started, control.quiesced} \subseteq BOOLEAN
  BY <1>1, ControlFields DEF Control!Typed
<1>3. /\ tcTurn \in {"active", "completed", "interrupted"}
      /\ tcJob.status \in {"executing", "indeterminate", "closed"}
      /\ tcStops \in [1..ControlStops -> {"none", "pending", "done"}]
  BY <1>1 DEF Control!Typed, Control!Over, Control!Jobs
<1>4. Control!TypeOK
  BY <1>1, <1>2, <1>3, ControlFields DEF Control!TypeOK, Control!Steps
<1>5. Control!InterruptedOnce /\ Control!NoStrayInterrupt /\ Control!OutcomeIsEvidence
  BY DEF Control!ControlInv, Control!SentOnce, Control!OutcomeFits, Control!InterruptedOnce,
         Control!OutcomeIsEvidence
<1> QED
  BY <1>4, <1>5

\* What runs keeps its invariant; what is idle stays as it is.
ControlHolds == part = "control" => Control!ControlInv

LEMMA ControlStays ==
    ASSUME Control!ControlInv, UNCHANGED TurnControlVars
    PROVE  Control!ControlInv'
<1>1. Control!Typed'
  BY DEF Control!ControlInv, Control!Typed, TurnControlVars
<1>2. /\ Control!OneSender' /\ Control!SentOnce' /\ Control!OutcomeFits' /\ Control!EvidenceFits'
  BY DEF Control!ControlInv, Control!OneSender, Control!SentOnce, Control!OutcomeFits,
         Control!EvidenceFits, Control!At, TurnControlVars
<1>3. Control!OtherWaits' /\ Control!NoStrayInterrupt'
  BY DEF Control!ControlInv, Control!OtherWaits, Control!NoStrayInterrupt, Control!At,
         TurnControlVars
<1> QED
  BY <1>1, <1>2, <1>3 DEF Control!ControlInv

\* Whatever the live observer, the worker, the late readers and the owner do,
\* and wherever they die: a turn is sent at most one interrupt, only while
\* someone wants it stopped, and what is recorded of it was observed
\* (codex_turn_controls.py, codex_control_recovery.py).
THEOREM InterruptsAreExact == TurnsSpec => []InterruptIsExact
<1>1. TurnsInit => ControlHolds
  BY ControlStart DEF TurnsInit, ControlHolds
<1>2. ControlHolds /\ [TurnsNext]_TurnsVars => ControlHolds'
  <2>1. ASSUME ControlHolds, TurnsNext, part = "control" PROVE ControlHolds'
    BY <2>1, ControlStep DEF TurnsNext, ControlHolds
  <2>2. ASSUME ControlHolds, TurnsNext, part # "control" PROVE ControlHolds'
    BY <2>2 DEF TurnsNext, ControlHolds
  <2>3. ASSUME ControlHolds, UNCHANGED TurnsVars PROVE ControlHolds'
    BY <2>3, ControlStays DEF TurnsVars, ControlHolds
  <2> QED
    BY <2>1, <2>2, <2>3
<1>3. ControlHolds => InterruptIsExact
  BY ControlPromises DEF ControlHolds, InterruptIsExact
<1> QED
  BY <1>1, <1>2, <1>3, PTL DEF TurnsSpec

-----------------------------------------------------------------------------
\* The constants meet the module's assumption.
LEMMA StdioAllowed ==
    /\ StdioOut \in Nat /\ StdioIn \in Nat /\ StdioPipe \in Nat /\ StdioSends \in Nat
    /\ StdioLines \in Nat
BY TurnsAllowed DEF Stdio!ConstAssumption

\* Counting the frames of a stream on both sides of a step.
LEMMA Counts ==
    ASSUME NEW a \in Nat, NEW b \in Nat, NEW c \in Nat
    PROVE  /\ (a + 1) + (b - 1) = a + b /\ a + (b + 1) + 0 = a + b + 1
           /\ b # 0 => a + 1 <= a + b /\ a + 1 + (b - 1) = a + b
           /\ a + b + 1 <= a + b + 1 + c
OBVIOUS

\* A numbered sequence that goes on, and one whose first frame is taken.
LEMMA FollowsAppend ==
    ASSUME NEW s \in Seq(Nat), NEW n \in Nat, Stdio!Follows(s, n),
           NEW x \in Nat, x = n + Len(s) + 1
    PROVE  /\ Stdio!Follows(Append(s, x), n) /\ Append(s, x) \in Seq(Nat)
           /\ Len(Append(s, x)) = Len(s) + 1
<1>1. /\ Len(Append(s, x)) = Len(s) + 1 /\ Len(s) \in Nat /\ Append(s, x) \in Seq(Nat)
      /\ \A i \in 1..Len(s) : Append(s, x)[i] = s[i]
      /\ Append(s, x)[Len(s) + 1] = x
  OBVIOUS
<1>2. \A i \in 1..(Len(s) + 1) : i \in 1..Len(s) \/ i = Len(s) + 1
  BY <1>1
<1>3. ASSUME NEW i \in 1..(Len(s) + 1) PROVE Append(s, x)[i] = n + i
  <2>1. CASE i \in 1..Len(s)
    BY <1>1, <2>1 DEF Stdio!Follows
  <2>2. CASE i = Len(s) + 1
    BY <1>1, <2>2
  <2> QED
    BY <1>2, <2>1, <2>2
<1> QED
  BY <1>1, <1>3 DEF Stdio!Follows

LEMMA FollowsTail ==
    ASSUME NEW s \in Seq(Nat), NEW n \in Nat, Stdio!Follows(s, n), s # << >>
    PROVE  /\ Head(s) = n + 1 /\ Stdio!Follows(Tail(s), n + 1) /\ Tail(s) \in Seq(Nat)
           /\ Len(s) \in Nat /\ Len(s) # 0 /\ Len(Tail(s)) = Len(s) - 1
<1>1. /\ Head(s) = s[1] /\ Len(s) \in Nat /\ Len(s) # 0 /\ Tail(s) \in Seq(Nat)
      /\ Len(Tail(s)) = Len(s) - 1
      /\ \A i \in 1..(Len(s) - 1) : Tail(s)[i] = s[i + 1]
  OBVIOUS
<1>2. s[1] = n + 1
  BY <1>1 DEF Stdio!Follows
<1>3. ASSUME NEW i \in 1..(Len(s) - 1) PROVE Tail(s)[i] = (n + 1) + i
  <2>1. i + 1 \in 1..Len(s) /\ i \in Nat
    BY <1>1
  <2>2. s[i + 1] = n + (i + 1)
    BY <2>1 DEF Stdio!Follows
  <2> QED
    BY <1>1, <2>1, <2>2
<1> QED
  BY <1>1, <1>2, <1>3 DEF Stdio!Follows

\* What an inbox is after each of its operations.
LEMMA StdioInbox ==
    ASSUME NEW b \in Stdio!Inboxes
    PROVE  /\ b.q \in Seq(Nat) /\ b.term \in Stdio!Ends
           /\ \A x \in Nat : /\ Stdio!Put(b, x) \in Stdio!Inboxes
                             /\ Stdio!Put(b, x).q = Append(b.q, x)
                             /\ Stdio!Put(b, x).term = b.term
           /\ b.q # << >> => /\ Stdio!Rest(b) \in Stdio!Inboxes
                             /\ Stdio!Rest(b).q = Tail(b.q)
                             /\ Stdio!Rest(b).term = b.term
           /\ \A e \in Stdio!Ends : /\ Stdio!Finish(b, e) \in Stdio!Inboxes
                                    /\ Stdio!Finish(b, e).q = b.q
                                    /\ b.term # "none" => Stdio!Finish(b, e).term = b.term
                                    /\ b.term = "none" => Stdio!Finish(b, e).term = e
<1>1. b.q \in Seq(Nat) /\ b.term \in Stdio!Ends
  BY DEF Stdio!Inboxes
<1>2. \A s \in Seq(Nat) : /\ [b EXCEPT !.q = s] \in Stdio!Inboxes
                          /\ [b EXCEPT !.q = s].q = s /\ [b EXCEPT !.q = s].term = b.term
  BY DEF Stdio!Inboxes
<1>3. \A e \in Stdio!Ends :
         /\ [b EXCEPT !.term = e] \in Stdio!Inboxes
         /\ [b EXCEPT !.term = e].q = b.q /\ [b EXCEPT !.term = e].term = e
  BY DEF Stdio!Inboxes
<1>4. \A x \in Nat : /\ Stdio!Put(b, x) \in Stdio!Inboxes
                     /\ Stdio!Put(b, x).q = Append(b.q, x)
                     /\ Stdio!Put(b, x).term = b.term
  <2> SUFFICES ASSUME NEW x \in Nat
               PROVE  /\ Stdio!Put(b, x) \in Stdio!Inboxes
                      /\ Stdio!Put(b, x).q = Append(b.q, x)
                      /\ Stdio!Put(b, x).term = b.term
    OBVIOUS
  <2>1. Append(b.q, x) \in Seq(Nat)
    BY <1>1
  <2>2. /\ [b EXCEPT !.q = Append(b.q, x)] \in Stdio!Inboxes
        /\ [b EXCEPT !.q = Append(b.q, x)].q = Append(b.q, x)
        /\ [b EXCEPT !.q = Append(b.q, x)].term = b.term
    BY <1>2, <2>1
  <2> QED
    BY <2>2 DEF Stdio!Put
<1>5. b.q # << >> => /\ Stdio!Rest(b) \in Stdio!Inboxes /\ Stdio!Rest(b).q = Tail(b.q)
                     /\ Stdio!Rest(b).term = b.term
  <2> SUFFICES ASSUME b.q # << >>
               PROVE  /\ Stdio!Rest(b) \in Stdio!Inboxes /\ Stdio!Rest(b).q = Tail(b.q)
                      /\ Stdio!Rest(b).term = b.term
    OBVIOUS
  <2>1. Tail(b.q) \in Seq(Nat)
    BY <1>1
  <2>2. /\ [b EXCEPT !.q = Tail(b.q)] \in Stdio!Inboxes
        /\ [b EXCEPT !.q = Tail(b.q)].q = Tail(b.q) /\ [b EXCEPT !.q = Tail(b.q)].term = b.term
    BY <1>2, <2>1
  <2> QED
    BY <2>2 DEF Stdio!Rest
<1>6. \A e : /\ b.term # "none" => Stdio!Finish(b, e) = b
             /\ b.term = "none" => Stdio!Finish(b, e) = [b EXCEPT !.term = e]
  BY DEF Stdio!Finish, Stdio!Ended
<1>7. \A e \in Stdio!Ends : /\ Stdio!Finish(b, e) \in Stdio!Inboxes
                            /\ Stdio!Finish(b, e).q = b.q
                            /\ b.term # "none" => Stdio!Finish(b, e).term = b.term
                            /\ b.term = "none" => Stdio!Finish(b, e).term = e
  BY <1>3, <1>6
<1> QED
  BY <1>1, <1>4, <1>5, <1>7

\* An end that is recorded keeps the first error and what the inboxes hold; a broken
\* stdin leaves the inbound one open.
StdioEnding(w) ==
    /\ first' \in Stdio!Ends /\ first' # "none" /\ wfail' \in BOOLEAN
    /\ out' \in Stdio!Inboxes /\ out'.q = out.q /\ out'.term # "none"
    /\ stInb' \in Stdio!Inboxes /\ stInb'.q = stInb.q
    /\ IF w THEN stInb' = stInb ELSE stInb'.term # "none"

LEMMA StdioFinish ==
    ASSUME Stdio!Typed, NEW e \in Stdio!Ends, e # "none", NEW w \in BOOLEAN,
           Stdio!FinishWith(e, w)
    PROVE  StdioEnding(w)
<1>1. PICK r \in Stdio!Ends \ {"none"} :
         /\ first' = r /\ out' = Stdio!Finish(out, r)
         /\ stInb' = IF w THEN stInb ELSE Stdio!Finish(stInb, r)
  <2>1. first \in Stdio!Ends
    BY DEF Stdio!Typed
  <2>2. CASE first = "none"
    BY <2>2 DEF Stdio!FinishWith
  <2>3. CASE first # "none"
    BY <2>1, <2>3 DEF Stdio!FinishWith
  <2> QED
    BY <2>2, <2>3
<1>2. wfail' \in BOOLEAN
  BY DEF Stdio!FinishWith, Stdio!Typed
<1>3. out \in Stdio!Inboxes /\ stInb \in Stdio!Inboxes
  BY DEF Stdio!Typed
<1>4. /\ out' \in Stdio!Inboxes /\ out'.q = out.q /\ out'.term # "none"
  <2>1. PICK e0 \in Stdio!Ends \ {"none"} : out' = Stdio!Finish(out, e0)
    BY <1>1
  <2>2. /\ Stdio!Finish(out, e0) \in Stdio!Inboxes /\ Stdio!Finish(out, e0).q = out.q
        /\ out.term # "none" => Stdio!Finish(out, e0).term = out.term
        /\ out.term = "none" => Stdio!Finish(out, e0).term = e0
    BY <1>3, <2>1, StdioInbox
  <2> QED
    BY <2>1, <2>2
<1>5. CASE w
  BY <1>1, <1>2, <1>3, <1>4, <1>5 DEF StdioEnding
<1>6. CASE ~w
  <2>1. stInb' = Stdio!Finish(stInb, first')
    BY <1>1, <1>6
  <2>2. /\ Stdio!Finish(stInb, first') \in Stdio!Inboxes
        /\ Stdio!Finish(stInb, first').q = stInb.q
        /\ stInb.term # "none" => Stdio!Finish(stInb, first').term = stInb.term
        /\ stInb.term = "none" => Stdio!Finish(stInb, first').term = first'
    BY <1>1, <1>3, StdioInbox
  <2>3. stInb' \in Stdio!Inboxes /\ stInb'.q = stInb.q /\ stInb'.term # "none"
    BY <1>1, <2>1, <2>2
  <2> QED
    BY <1>1, <1>2, <1>4, <1>6, <2>3 DEF StdioEnding
<1> QED
  BY <1>5, <1>6

\* The steps, alternative by alternative, with what they do to the inboxes.
StdioWriterTakes ==
    /\ writer.pc = "get" /\ out.q # << >>
    /\ writer' = [pc |-> "check", f |-> Head(out.q)] /\ out' \in Stdio!Inboxes
    /\ out'.q = Tail(out.q) /\ out'.term = out.term
    /\ UNCHANGED <<stInb, first, wfail, stClosed, reader, stCaller, proc,
                  pipeIn, pipeOut, sent, stGot, wrote, rcvd, told>>
StdioWriterEnds ==
    /\ writer.pc = "get" /\ out.term # "none" /\ writer' = [pc |-> "done", f |-> 0]
    /\ StdioEnding(FALSE)
    /\ UNCHANGED <<stClosed, reader, stCaller, proc, pipeIn, pipeOut, sent,
                  stGot, wrote, rcvd, told>>
StdioWriterStops ==
    /\ writer.pc = "check" /\ writer' = [pc |-> "done", f |-> 0]
    /\ (stClosed \/ first # "none")
    /\ UNCHANGED <<out, stInb, first, wfail, stClosed, reader, stCaller,
                  proc, pipeIn, pipeOut, sent, stGot, wrote, rcvd, told>>
StdioWriterGoesOn ==
    /\ writer.pc = "check" /\ writer' = [pc |-> "write", f |-> writer.f]
    /\ first = "none"
    /\ UNCHANGED <<out, stInb, first, wfail, stClosed, reader, stCaller,
                  proc, pipeIn, pipeOut, sent, stGot, wrote, rcvd, told>>
StdioWriterPuts ==
    /\ writer.pc = "write" /\ writer' = [pc |-> "get", f |-> 0]
    /\ pipeIn' = Append(pipeIn, writer.f)
    /\ UNCHANGED <<out, stInb, first, wfail, stClosed, reader, stCaller,
                  proc, pipeOut, sent, stGot, wrote, rcvd, told>>
StdioWriterFails ==
    /\ writer.pc = "write" /\ writer' = [pc |-> "done", f |-> 0]
    /\ StdioEnding(TRUE)
    /\ UNCHANGED <<stClosed, reader, stCaller, proc, pipeIn, pipeOut, sent,
                  stGot, wrote, rcvd, told>>
StdioReaderTakes ==
    /\ reader.pc = "read" /\ pipeOut # << >>
    /\ reader' = [pc |-> "put", f |-> Head(pipeOut)] /\ pipeOut' = Tail(pipeOut)
    /\ UNCHANGED <<out, stInb, first, wfail, stClosed, writer, stCaller,
                  proc, pipeIn, sent, stGot, wrote, rcvd, told>>
StdioReaderEnds ==
    /\ reader.pc = "read" /\ pipeOut = << >> /\ ~proc.stdout
    /\ reader' = [pc |-> "done", f |-> 0] /\ StdioEnding(FALSE)
    /\ UNCHANGED <<stClosed, writer, stCaller, proc, pipeIn, pipeOut, sent,
                  stGot, wrote, rcvd, told>>
StdioReaderStops ==
    /\ reader.pc = "put" /\ stInb.term # "none"
    /\ reader' = [pc |-> "done", f |-> 0] /\ StdioEnding(FALSE)
    /\ UNCHANGED <<stClosed, writer, stCaller, proc, pipeIn, pipeOut, sent,
                  stGot, wrote, rcvd, told>>
StdioReaderPuts ==
    /\ reader.pc = "put" /\ stInb.term = "none" /\ Len(stInb.q) < StdioIn
    /\ reader' = [pc |-> "read", f |-> 0] /\ stInb' \in Stdio!Inboxes
    /\ stInb'.q = Append(stInb.q, reader.f) /\ stInb'.term = stInb.term
    /\ UNCHANGED <<out, first, wfail, stClosed, writer, stCaller, proc,
                  pipeIn, pipeOut, sent, stGot, wrote, rcvd, told>>
StdioAdmits ==
    /\ Len(out.q) < StdioOut /\ first = "none" /\ out' \in Stdio!Inboxes
    /\ out'.q = Append(out.q, sent + 1) /\ out'.term = out.term /\ sent' = sent + 1
    /\ UNCHANGED <<stInb, first, wfail, stClosed, writer, reader, stCaller,
                  proc, pipeIn, pipeOut, stGot, wrote, rcvd, told>>
StdioReturns ==
    /\ stInb.q # << >> /\ rcvd' = Append(rcvd, Head(stInb.q))
    /\ stInb' \in Stdio!Inboxes /\ stInb'.q = Tail(stInb.q)
    /\ stInb'.term = stInb.term
    /\ UNCHANGED <<out, first, wfail, stClosed, writer, reader, proc,
                  pipeIn, pipeOut, sent, stGot, wrote, told>>
StdioTells ==
    /\ stInb.q = << >> /\ stInb.term # "none" /\ told' = stInb.term
    /\ UNCHANGED <<out, stInb, first, wfail, stClosed, writer, reader, proc,
                  pipeIn, pipeOut, sent, stGot, wrote, rcvd>>
StdioShuts ==
    /\ stClosed' /\ StdioEnding(FALSE) /\ wfail' = wfail
    /\ UNCHANGED <<writer, reader, proc, pipeIn, pipeOut, sent, stGot,
                  wrote, rcvd, told>>
StdioWaits ==
    /\ UNCHANGED <<out, stInb, first, wfail, stClosed, writer, reader, proc,
                  pipeIn, pipeOut, sent, stGot, wrote, rcvd, told>>
StdioProcEnds ==
    /\ proc' \in [alive : BOOLEAN, stdin : BOOLEAN, stdout : BOOLEAN]
    /\ ~proc.stdout => ~proc'.stdout
    /\ UNCHANGED <<out, stInb, first, wfail, stClosed, writer, reader,
                  stCaller, pipeIn, pipeOut, sent, stGot, wrote, rcvd, told>>
StdioProcReads ==
    /\ pipeIn # << >> /\ stGot' = Append(stGot, Head(pipeIn))
    /\ pipeIn' = Tail(pipeIn)
    /\ UNCHANGED <<out, stInb, first, wfail, stClosed, writer, reader,
                  stCaller, proc, pipeOut, sent, wrote, rcvd, told>>
StdioProcWrites ==
    /\ proc.stdout /\ wrote' = wrote + 1 /\ pipeOut' = Append(pipeOut, wrote + 1)
    /\ UNCHANGED <<out, stInb, first, wfail, stClosed, writer, reader,
                  stCaller, proc, pipeIn, sent, stGot, rcvd, told>>

LEMMA StdioSteps ==
    ASSUME Stdio!Typed, Stdio!Next
    PROVE  \/ StdioWriterTakes \/ StdioWriterEnds \/ StdioWriterStops \/ StdioWriterGoesOn
           \/ StdioWriterPuts \/ StdioWriterFails \/ StdioReaderTakes \/ StdioReaderEnds
           \/ StdioReaderStops \/ StdioReaderPuts \/ StdioAdmits \/ StdioReturns \/ StdioTells
           \/ StdioShuts \/ StdioWaits \/ StdioProcEnds \/ StdioProcReads \/ StdioProcWrites
<1>0. /\ out \in Stdio!Inboxes /\ stInb \in Stdio!Inboxes /\ sent \in Nat
      /\ out.term \in Stdio!Ends /\ stInb.term \in Stdio!Ends /\ reader.f \in Nat
  BY StdioInbox DEF Stdio!Typed
<1>1. CASE Stdio!WriterGets
  <2>1. CASE /\ out.q # << >> /\ out' = Stdio!Rest(out)
             /\ writer' = [pc |-> "check", f |-> Head(out.q)]
    <3>1. out' \in Stdio!Inboxes /\ out'.q = Tail(out.q) /\ out'.term = out.term
      BY <1>0, <2>1, StdioInbox
    <3> QED
      BY <1>1, <2>1, <3>1 DEF Stdio!WriterGets, Stdio!Exhausted, StdioWriterTakes
  <2>2. CASE /\ out.term # "none" /\ Stdio!FinishWith(out.term, FALSE)
             /\ writer' = [pc |-> "done", f |-> 0]
    <3>1. FALSE \in BOOLEAN /\ StdioEnding(FALSE)
      BY <1>0, <2>2, StdioFinish
    <3> QED
      BY <1>1, <2>2, <3>1 DEF Stdio!WriterGets, StdioWriterEnds
  <2> QED
    BY <1>1, <2>1, <2>2, Zenon
       DEF Stdio!WriterGets, Stdio!Gettable, Stdio!Exhausted, Stdio!Ended
<1>2. CASE Stdio!WriterLooks
  BY <1>2 DEF Stdio!WriterLooks, Stdio!WriterChecks, Stdio!Typed, StdioWriterStops,
              StdioWriterGoesOn
<1>3. CASE Stdio!WriterWrites
  <2>1. CASE Stdio!FinishWith("write", TRUE)
    <3>1. StdioEnding(TRUE)
      BY <2>1, StdioFinish DEF Stdio!Ends
    <3> QED
      BY <1>3, <3>1 DEF Stdio!WriterWrites, StdioWriterPuts, StdioWriterFails
  <2>2. CASE ~Stdio!FinishWith("write", TRUE)
    BY <1>3, <2>2 DEF Stdio!WriterWrites, StdioWriterPuts
  <2> QED
    BY <2>1, <2>2
<1>4. CASE Stdio!ReaderReads
  <2>1. CASE Stdio!FinishWith("eof", FALSE)
    <3>1. StdioEnding(FALSE)
      BY <2>1, StdioFinish DEF Stdio!Ends
    <3> QED
      BY <1>4, <3>1 DEF Stdio!ReaderReads, StdioReaderTakes, StdioReaderEnds
  <2>2. CASE ~Stdio!FinishWith("eof", FALSE)
    BY <1>4, <2>2 DEF Stdio!ReaderReads, StdioReaderTakes
  <2> QED
    BY <2>1, <2>2
<1>5. CASE Stdio!ReaderPuts
  <2>1. CASE stInb.term # "none"
    <3>1. Stdio!FinishWith(stInb.term, FALSE)
      BY <1>5, <2>1 DEF Stdio!ReaderPuts, Stdio!Ended
    <3>2. StdioEnding(FALSE)
      BY <1>0, <2>1, <3>1, StdioFinish
    <3> QED
      BY <1>5, <2>1, <3>2 DEF Stdio!ReaderPuts, Stdio!Ended, StdioReaderStops
  <2>2. CASE stInb.term = "none"
    <3>1. stInb' = Stdio!Put(stInb, reader.f) /\ Len(stInb.q) < StdioIn
      BY <1>5, <2>2 DEF Stdio!ReaderPuts, Stdio!Wakes, Stdio!Puttable, Stdio!HasRoom, Stdio!Ended
    <3>2. /\ stInb' \in Stdio!Inboxes /\ stInb'.q = Append(stInb.q, reader.f)
          /\ stInb'.term = stInb.term
      BY <1>0, <3>1, StdioInbox
    <3> QED
      BY <1>5, <2>2, <3>1, <3>2 DEF Stdio!ReaderPuts, Stdio!Ended, StdioReaderPuts
  <2> QED
    BY <2>1, <2>2
<1>6. CASE Stdio!Send
  <2>1. out' \in Stdio!Inboxes /\ out'.q = Append(out.q, sent + 1) /\ out'.term = out.term
    <3>1. out' = Stdio!Put(out, sent + 1) /\ sent + 1 \in Nat
      BY <1>0, <1>6 DEF Stdio!Send
    <3> QED
      BY <1>0, <3>1, StdioInbox
  <2> QED
    BY <1>6, <2>1 DEF Stdio!Send, Stdio!HasRoom, StdioAdmits
<1>7. CASE Stdio!Received
  <2>1. CASE stInb.q # << >> /\ stInb' = Stdio!Rest(stInb)
    <3>1. stInb' \in Stdio!Inboxes /\ stInb'.q = Tail(stInb.q) /\ stInb'.term = stInb.term
      BY <1>0, <2>1, StdioInbox
    <3> QED
      BY <1>7, <2>1, <3>1 DEF Stdio!Received, Stdio!Exhausted, Stdio!Gettable, StdioReturns
  <2>2. CASE ~(stInb.q # << >> /\ stInb' = Stdio!Rest(stInb))
    BY <1>7, <2>2 DEF Stdio!Received, Stdio!Gettable, Stdio!Exhausted, Stdio!Ended, StdioTells, StdioWaits
  <2> QED
    BY <2>1, <2>2
<1>8. CASE Stdio!Close
  <2>1. first' \in Stdio!Ends /\ first' # "none"
    BY <1>8 DEF Stdio!Close, Stdio!Typed, Stdio!Ends
  <2>2. out' = Stdio!Finish(out, first') /\ stInb' = Stdio!Finish(stInb, first')
    BY <1>8 DEF Stdio!Close
  <2>3. /\ out' \in Stdio!Inboxes /\ out'.q = out.q /\ out'.term # "none"
        /\ stInb' \in Stdio!Inboxes /\ stInb'.q = stInb.q /\ stInb'.term # "none"
    BY <1>0, <2>1, <2>2, StdioInbox
  <2>4. StdioEnding(FALSE)
    BY <1>8, <2>1, <2>3 DEF Stdio!Close, Stdio!Typed, StdioEnding
  <2> QED
    BY <1>8, <2>4 DEF Stdio!Close, StdioShuts
<1>9. CASE Stdio!Receive \/ Stdio!Closed
  BY <1>9 DEF Stdio!Receive, Stdio!Closed, StdioWaits
<1>10. CASE Stdio!StopProcess \/ Stdio!ProcBreaks
  <2>1. proc \in [alive : BOOLEAN, stdin : BOOLEAN, stdout : BOOLEAN]
    BY DEF Stdio!Typed
  <2>2. \/ proc' = [alive |-> FALSE, stdin |-> FALSE, stdout |-> FALSE]
        \/ proc' = [proc EXCEPT !.stdin = FALSE]
    BY <1>10 DEF Stdio!StopProcess, Stdio!ProcBreaks
  <2>3. /\ proc' \in [alive : BOOLEAN, stdin : BOOLEAN, stdout : BOOLEAN]
        /\ ~proc.stdout => ~proc'.stdout
    <3>1. CASE proc' = [alive |-> FALSE, stdin |-> FALSE, stdout |-> FALSE]
      <4>1. /\ [alive |-> FALSE, stdin |-> FALSE, stdout |-> FALSE]
                  \in [alive : BOOLEAN, stdin : BOOLEAN, stdout : BOOLEAN]
            /\ ~[alive |-> FALSE, stdin |-> FALSE, stdout |-> FALSE].stdout
        OBVIOUS
      <4> QED
        BY <3>1, <4>1, Zenon
    <3>2. CASE proc' = [proc EXCEPT !.stdin = FALSE]
      <4>1. [proc EXCEPT !.stdin = FALSE] \in [alive : BOOLEAN, stdin : BOOLEAN, stdout : BOOLEAN]
        BY <2>1
      <4>2. [proc EXCEPT !.stdin = FALSE].stdout = proc.stdout
        BY <2>1
      <4> QED
        BY <3>2, <4>1, <4>2, Zenon
    <3> QED
      BY <2>2, <3>1, <3>2
  <2> QED
    BY <1>10, <2>3 DEF Stdio!StopProcess, Stdio!ProcBreaks, StdioProcEnds
<1>11. CASE Stdio!ProcReads
  BY <1>11 DEF Stdio!ProcReads, StdioProcReads
<1>12. CASE Stdio!ProcWrites
  BY <1>12 DEF Stdio!ProcWrites, StdioProcWrites
<1> QED
  BY <1>1, <1>2, <1>3, <1>4, <1>5, <1>6, <1>7, <1>8, <1>9, <1>10, <1>11, <1>12
     DEF Stdio!Next, Stdio!Writer, Stdio!Reader

\* Every step keeps the types.
LEMMA StdioTyped ==
    ASSUME Stdio!Typed, Stdio!Next
    PROVE  Stdio!Typed'
<1>1. ASSUME StdioWriterTakes PROVE Stdio!Typed'
  <2>1. Head(out.q) \in Nat
    <3>1. out.q # << >>
      BY <1>1 DEF StdioWriterTakes
    <3>2. out.q \in Seq(Nat)
      BY StdioInbox DEF Stdio!Typed
    <3> QED
      BY <3>1, <3>2
  <2> QED
    BY <1>1, <2>1 DEF StdioWriterTakes, Stdio!Typed
<1>2. ASSUME StdioWriterEnds PROVE Stdio!Typed'
  BY <1>2
     DEF StdioWriterEnds, Stdio!Typed, Stdio!Ends, StdioEnding
<1>3. ASSUME StdioWriterStops PROVE Stdio!Typed'
  BY <1>3
     DEF StdioWriterStops, Stdio!Typed, Stdio!Ends
<1>4. ASSUME StdioWriterGoesOn PROVE Stdio!Typed'
  BY <1>4
     DEF StdioWriterGoesOn, Stdio!Typed, Stdio!Ends
<1>5. ASSUME StdioWriterPuts PROVE Stdio!Typed'
  BY <1>5
     DEF StdioWriterPuts, Stdio!Typed, Stdio!Ends
<1>6. ASSUME StdioWriterFails PROVE Stdio!Typed'
  BY <1>6
     DEF StdioWriterFails, Stdio!Typed, Stdio!Ends, StdioEnding
<1>7. ASSUME StdioReaderTakes PROVE Stdio!Typed'
  <2>1. Head(pipeOut) \in Nat /\ Tail(pipeOut) \in Seq(Nat)
    BY <1>7 DEF StdioReaderTakes, Stdio!Typed
  <2> QED
    BY <1>7, <2>1 DEF StdioReaderTakes, Stdio!Typed
<1>8. ASSUME StdioReaderEnds PROVE Stdio!Typed'
  BY <1>8
     DEF StdioReaderEnds, Stdio!Typed, Stdio!Ends, StdioEnding
<1>9. ASSUME StdioReaderStops PROVE Stdio!Typed'
  BY <1>9
     DEF StdioReaderStops, Stdio!Typed, Stdio!Ends, StdioEnding
<1>10. ASSUME StdioReaderPuts PROVE Stdio!Typed'
  BY <1>10
     DEF StdioReaderPuts, Stdio!Typed, Stdio!Ends
<1>11. ASSUME StdioAdmits PROVE Stdio!Typed'
  BY <1>11
     DEF StdioAdmits, Stdio!Typed, Stdio!Ends
<1>12. ASSUME StdioReturns PROVE Stdio!Typed'
  <2>1. Head(stInb.q) \in Nat
    <3>1. stInb \in Stdio!Inboxes
      BY DEF Stdio!Typed
    <3>2. stInb.q \in Seq(Nat) /\ stInb.q # << >>
      BY <1>12, <3>1, StdioInbox DEF StdioReturns
    <3> QED
      BY <3>2
  <2>2. Append(rcvd, Head(stInb.q)) \in Seq(Nat)
    BY <2>1 DEF Stdio!Typed
  <2> QED
    BY <1>12, <2>2 DEF StdioReturns, Stdio!Typed
<1>13. ASSUME StdioTells PROVE Stdio!Typed'
  <2>1. stInb.term \in Stdio!Ends
    BY StdioInbox DEF Stdio!Typed
  <2> QED
    BY <1>13, <2>1 DEF StdioTells, Stdio!Typed
<1>14. ASSUME StdioShuts PROVE Stdio!Typed'
  BY <1>14
     DEF StdioShuts, Stdio!Typed, Stdio!Ends, StdioEnding
<1>15. ASSUME StdioWaits PROVE Stdio!Typed'
  BY <1>15
     DEF StdioWaits, Stdio!Typed, Stdio!Ends
<1>16. ASSUME StdioProcEnds PROVE Stdio!Typed'
  BY <1>16
     DEF StdioProcEnds, Stdio!Typed, Stdio!Ends
<1>17. ASSUME StdioProcReads PROVE Stdio!Typed'
  BY <1>17
     DEF StdioProcReads, Stdio!Typed, Stdio!Ends
<1>18. ASSUME StdioProcWrites PROVE Stdio!Typed'
  BY <1>18
     DEF StdioProcWrites, Stdio!Typed, Stdio!Ends
<1> QED
  BY StdioSteps, <1>1, <1>2, <1>3, <1>4, <1>5, <1>6, <1>7, <1>8, <1>9, <1>10, <1>11,
     <1>12, <1>13, <1>14, <1>15, <1>16, <1>17, <1>18

\* The inboxes keep their bounds, and the recorded failures agree.
LEMMA StdioBounds ==
    ASSUME Stdio!Typed, Stdio!TypeOK, Stdio!Next
    PROVE  Stdio!TypeOK'
<1>1. ASSUME StdioWriterTakes PROVE Stdio!TypeOK'
  <2>0. out.q \in Seq(Nat) /\ stInb.q \in Seq(Nat)
    BY StdioInbox DEF Stdio!Typed
  <2>1. Len(Tail(out.q)) <= Len(out.q)
    BY <1>1, <2>0 DEF StdioWriterTakes
  <2>2. Len(Tail(out.q)) <= StdioOut
    BY <1>1, <2>0, <2>1, StdioAllowed DEF StdioWriterTakes, Stdio!TypeOK
  <2> QED
    BY <1>1, <2>2 DEF StdioWriterTakes, Stdio!TypeOK, Stdio!Ended
<1>2. ASSUME StdioWriterEnds PROVE Stdio!TypeOK'
  BY <1>2
     DEF StdioWriterEnds, Stdio!TypeOK, Stdio!Typed, Stdio!Inboxes, Stdio!Ends, Stdio!Ended, StdioEnding
<1>3. ASSUME StdioWriterStops PROVE Stdio!TypeOK'
  BY <1>3
     DEF StdioWriterStops, Stdio!TypeOK, Stdio!Typed, Stdio!Inboxes, Stdio!Ends, Stdio!Ended
<1>4. ASSUME StdioWriterGoesOn PROVE Stdio!TypeOK'
  BY <1>4
     DEF StdioWriterGoesOn, Stdio!TypeOK, Stdio!Typed, Stdio!Inboxes, Stdio!Ends, Stdio!Ended
<1>5. ASSUME StdioWriterPuts PROVE Stdio!TypeOK'
  BY <1>5
     DEF StdioWriterPuts, Stdio!TypeOK, Stdio!Typed, Stdio!Inboxes, Stdio!Ends, Stdio!Ended
<1>6. ASSUME StdioWriterFails PROVE Stdio!TypeOK'
  BY <1>6
     DEF StdioWriterFails, Stdio!TypeOK, Stdio!Typed, Stdio!Inboxes, Stdio!Ends, Stdio!Ended, StdioEnding
<1>7. ASSUME StdioReaderTakes PROVE Stdio!TypeOK'
  BY <1>7
     DEF StdioReaderTakes, Stdio!TypeOK, Stdio!Typed, Stdio!Inboxes, Stdio!Ends, Stdio!Ended
<1>8. ASSUME StdioReaderEnds PROVE Stdio!TypeOK'
  BY <1>8
     DEF StdioReaderEnds, Stdio!TypeOK, Stdio!Typed, Stdio!Inboxes, Stdio!Ends, Stdio!Ended, StdioEnding
<1>9. ASSUME StdioReaderStops PROVE Stdio!TypeOK'
  BY <1>9
     DEF StdioReaderStops, Stdio!TypeOK, Stdio!Typed, Stdio!Inboxes, Stdio!Ends, Stdio!Ended, StdioEnding
<1>10. ASSUME StdioReaderPuts PROVE Stdio!TypeOK'
  <2>0. out.q \in Seq(Nat) /\ stInb.q \in Seq(Nat)
    BY StdioInbox DEF Stdio!Typed
  <2>1. Len(Append(stInb.q, reader.f)) = Len(stInb.q) + 1
    BY <2>0 DEF Stdio!Typed
  <2>2. Len(Append(stInb.q, reader.f)) <= StdioIn
    BY <1>10, <2>0, <2>1, StdioAllowed DEF StdioReaderPuts
  <2> QED
    BY <1>10, <2>2 DEF StdioReaderPuts, Stdio!TypeOK, Stdio!Ended
<1>11. ASSUME StdioAdmits PROVE Stdio!TypeOK'
  <2>0. out.q \in Seq(Nat) /\ stInb.q \in Seq(Nat)
    BY StdioInbox DEF Stdio!Typed
  <2>1. Len(Append(out.q, sent + 1)) = Len(out.q) + 1
    BY <2>0 DEF Stdio!Typed
  <2>2. Len(Append(out.q, sent + 1)) <= StdioOut
    BY <1>11, <2>0, <2>1, StdioAllowed DEF StdioAdmits
  <2> QED
    BY <1>11, <2>2 DEF StdioAdmits, Stdio!TypeOK, Stdio!Ended
<1>12. ASSUME StdioReturns PROVE Stdio!TypeOK'
  <2>0. out.q \in Seq(Nat) /\ stInb.q \in Seq(Nat)
    BY StdioInbox DEF Stdio!Typed
  <2>1. Len(Tail(stInb.q)) <= Len(stInb.q)
    BY <1>12, <2>0 DEF StdioReturns
  <2>2. Len(Tail(stInb.q)) <= StdioIn
    BY <1>12, <2>0, <2>1, StdioAllowed DEF StdioReturns, Stdio!TypeOK
  <2> QED
    BY <1>12, <2>2 DEF StdioReturns, Stdio!TypeOK, Stdio!Ended
<1>13. ASSUME StdioTells PROVE Stdio!TypeOK'
  BY <1>13
     DEF StdioTells, Stdio!TypeOK, Stdio!Typed, Stdio!Inboxes, Stdio!Ends, Stdio!Ended
<1>14. ASSUME StdioShuts PROVE Stdio!TypeOK'
  BY <1>14
     DEF StdioShuts, Stdio!TypeOK, Stdio!Typed, Stdio!Inboxes, Stdio!Ends, Stdio!Ended, StdioEnding
<1>15. ASSUME StdioWaits PROVE Stdio!TypeOK'
  BY <1>15
     DEF StdioWaits, Stdio!TypeOK, Stdio!Typed, Stdio!Inboxes, Stdio!Ends, Stdio!Ended
<1>16. ASSUME StdioProcEnds PROVE Stdio!TypeOK'
  BY <1>16
     DEF StdioProcEnds, Stdio!TypeOK, Stdio!Typed, Stdio!Inboxes, Stdio!Ends, Stdio!Ended
<1>17. ASSUME StdioProcReads PROVE Stdio!TypeOK'
  BY <1>17
     DEF StdioProcReads, Stdio!TypeOK, Stdio!Typed, Stdio!Inboxes, Stdio!Ends, Stdio!Ended
<1>18. ASSUME StdioProcWrites PROVE Stdio!TypeOK'
  BY <1>18
     DEF StdioProcWrites, Stdio!TypeOK, Stdio!Typed, Stdio!Inboxes, Stdio!Ends, Stdio!Ended
<1> QED
  BY StdioSteps, <1>1, <1>2, <1>3, <1>4, <1>5, <1>6, <1>7, <1>8, <1>9, <1>10, <1>11,
     <1>12, <1>13, <1>14, <1>15, <1>16, <1>17, <1>18

\* What was admitted reaches the process in order.
LEMMA StdioSent ==
    ASSUME Stdio!Typed, Stdio!SentInOrder, Stdio!Next
    PROVE  Stdio!SentInOrder'
<1>1. ASSUME StdioWriterTakes PROVE Stdio!SentInOrder'
  <2>0. out.q \in Seq(Nat) /\ stInb.q \in Seq(Nat)
    BY StdioInbox DEF Stdio!Typed
  <2>1. /\ Stdio!Held(writer) = 0 /\ Stdio!Held(writer') = 1
        /\ writer'.pc = "check" /\ writer'.f = Head(out.q)
    BY <1>1 DEF StdioWriterTakes, Stdio!Held
  <2>2. Len(stGot) \in Nat /\ Len(pipeIn) \in Nat /\ Len(stGot) + Len(pipeIn) \in Nat
    BY DEF Stdio!Typed
  <2>3. /\ Stdio!Follows(out.q, Len(stGot) + Len(pipeIn))
        /\ Len(stGot) + Len(pipeIn) + Len(out.q) = sent
    <3>1. Len(stGot) + Len(pipeIn) + 0 = Len(stGot) + Len(pipeIn)
      BY <2>2
    <3>2. /\ Stdio!Follows(out.q, Len(stGot) + Len(pipeIn) + 0)
          /\ Len(stGot) + Len(pipeIn) + 0 + Len(out.q) = sent
      BY <1>1, <2>1 DEF StdioWriterTakes, Stdio!SentInOrder
    <3> QED
      BY <3>1, <3>2
  <2>4. /\ Head(out.q) = Len(stGot) + Len(pipeIn) + 1
        /\ Stdio!Follows(Tail(out.q), Len(stGot) + Len(pipeIn) + 1)
        /\ Len(Tail(out.q)) = Len(out.q) - 1 /\ Len(out.q) \in Nat /\ Len(out.q) # 0
    BY <1>1, <2>0, <2>2, <2>3, FollowsTail DEF StdioWriterTakes
  <2>5. /\ Len(stGot) + Len(pipeIn) + 1 <= sent
        /\ Len(stGot) + Len(pipeIn) + 1 + Len(Tail(out.q)) = sent
    <3>1. /\ Len(stGot) + Len(pipeIn) + 1 <= Len(stGot) + Len(pipeIn) + Len(out.q)
          /\ Len(stGot) + Len(pipeIn) + 1 + (Len(out.q) - 1)
                = Len(stGot) + Len(pipeIn) + Len(out.q)
      BY <2>2, <2>4, Counts
    <3> QED
      BY <2>3, <2>4, <3>1, Zenon
  <2> QED
    BY <1>1, <2>1, <2>4, <2>5 DEF StdioWriterTakes, Stdio!SentInOrder
<1>2. ASSUME StdioWriterEnds PROVE Stdio!SentInOrder'
  BY <1>2
     DEF StdioWriterEnds, Stdio!SentInOrder, Stdio!Typed, Stdio!Held, StdioEnding
<1>3. ASSUME StdioWriterStops PROVE Stdio!SentInOrder'
  BY <1>3
     DEF StdioWriterStops, Stdio!SentInOrder, Stdio!Typed, Stdio!Held
<1>4. ASSUME StdioWriterGoesOn PROVE Stdio!SentInOrder'
  BY <1>4
     DEF StdioWriterGoesOn, Stdio!SentInOrder, Stdio!Typed, Stdio!Held
<1>5. ASSUME StdioWriterPuts PROVE Stdio!SentInOrder'
  <2>0. out.q \in Seq(Nat) /\ stInb.q \in Seq(Nat)
    BY StdioInbox DEF Stdio!Typed
  <2>1. Stdio!Held(writer) = 1 /\ Stdio!Held(writer') = 0 /\ writer'.pc = "get"
    BY <1>5 DEF StdioWriterPuts, Stdio!Held
  <2>2. Len(stGot) \in Nat /\ Len(pipeIn) \in Nat /\ Len(out.q) \in Nat /\ pipeIn \in Seq(Nat)
    BY <2>0 DEF Stdio!Typed
  <2>3. /\ Stdio!Follows(pipeIn, Len(stGot)) /\ writer.f = Len(stGot) + Len(pipeIn) + 1
        /\ Stdio!Follows(out.q, Len(stGot) + Len(pipeIn) + 1)
        /\ Len(stGot) + Len(pipeIn) + 1 + Len(out.q) = sent
    BY <1>5, <2>1 DEF StdioWriterPuts, Stdio!SentInOrder
  <2>4. /\ Stdio!Follows(pipeIn', Len(stGot)) /\ Len(pipeIn') = Len(pipeIn) + 1
    <3>1. writer.f \in Nat /\ pipeIn' = Append(pipeIn, writer.f)
      BY <1>5 DEF StdioWriterPuts, Stdio!Typed
    <3> QED
      BY <2>2, <2>3, <3>1, FollowsAppend
  <2>5. /\ Len(stGot) + Len(pipeIn') + 0 = Len(stGot) + Len(pipeIn) + 1
        /\ Len(stGot) + Len(pipeIn) + 1 <= sent
    <3>1. /\ Len(stGot) + (Len(pipeIn) + 1) + 0 = Len(stGot) + Len(pipeIn) + 1
          /\ Len(stGot) + Len(pipeIn) + 1 <= Len(stGot) + Len(pipeIn) + 1 + Len(out.q)
      <4>1. Len(stGot) \in Nat /\ Len(pipeIn) \in Nat /\ Len(out.q) \in Nat
        BY <2>2
      <4> QED
        BY <4>1, Counts
    <3> QED
      BY <2>3, <2>4, <3>1
  <2>6. /\ Stdio!Follows(out'.q, Len(stGot') + Len(pipeIn') + Stdio!Held(writer'))
        /\ Len(stGot') + Len(pipeIn') + Stdio!Held(writer') + Len(out'.q) = sent'
        /\ Len(stGot') + Len(pipeIn') + Stdio!Held(writer') <= sent'
    <3>1. out' = out /\ stGot' = stGot /\ sent' = sent
      BY <1>5 DEF StdioWriterPuts
    <3> QED
      BY <2>1, <2>3, <2>5, <3>1
  <2>7. Stdio!Follows(stGot', 0) /\ Stdio!Follows(pipeIn', Len(stGot'))
    BY <1>5, <2>4 DEF StdioWriterPuts, Stdio!SentInOrder
  <2>8. Stdio!Held(writer') # 1
    BY <2>1
  <2> QED
    BY <2>6, <2>7, <2>8, Zenon DEF Stdio!SentInOrder
<1>6. ASSUME StdioWriterFails PROVE Stdio!SentInOrder'
  BY <1>6
     DEF StdioWriterFails, Stdio!SentInOrder, Stdio!Typed, Stdio!Held, StdioEnding
<1>7. ASSUME StdioReaderTakes PROVE Stdio!SentInOrder'
  BY <1>7
     DEF StdioReaderTakes, Stdio!SentInOrder, Stdio!Typed, Stdio!Held
<1>8. ASSUME StdioReaderEnds PROVE Stdio!SentInOrder'
  BY <1>8
     DEF StdioReaderEnds, Stdio!SentInOrder, Stdio!Typed, Stdio!Held, StdioEnding
<1>9. ASSUME StdioReaderStops PROVE Stdio!SentInOrder'
  BY <1>9
     DEF StdioReaderStops, Stdio!SentInOrder, Stdio!Typed, Stdio!Held, StdioEnding
<1>10. ASSUME StdioReaderPuts PROVE Stdio!SentInOrder'
  BY <1>10
     DEF StdioReaderPuts, Stdio!SentInOrder, Stdio!Typed, Stdio!Held
<1>11. ASSUME StdioAdmits PROVE Stdio!SentInOrder'
  <2>0. out.q \in Seq(Nat) /\ stInb.q \in Seq(Nat)
    BY StdioInbox DEF Stdio!Typed
  <2>1. Len(stGot) \in Nat /\ Len(pipeIn) \in Nat /\ Len(out.q) \in Nat /\ sent \in Nat
    BY <2>0 DEF Stdio!Typed
  <2>2. Stdio!Held(writer) \in {0, 1}
    BY DEF Stdio!Held
  <2> DEFINE n == Len(stGot) + Len(pipeIn) + Stdio!Held(writer)
  <2>3. n \in Nat /\ n <= sent /\ sent + 1 \in Nat /\ n <= sent + 1
    BY <2>1, <2>2 DEF Stdio!SentInOrder
  <2>4. ASSUME writer.pc # "done"
        PROVE  /\ Stdio!Follows(Append(out.q, sent + 1), n)
               /\ n + Len(Append(out.q, sent + 1)) = sent + 1
    <3>1. Stdio!Follows(out.q, n) /\ n + Len(out.q) = sent
      BY <2>4 DEF Stdio!SentInOrder
    <3>2. sent + 1 = n + Len(out.q) + 1
      BY <3>1
    <3> HIDE DEF n
    <3>3. /\ Stdio!Follows(Append(out.q, sent + 1), n)
          /\ Len(Append(out.q, sent + 1)) = Len(out.q) + 1
      BY <2>0, <2>3, <3>1, <3>2, FollowsAppend
    <3> QED
      BY <2>1, <2>3, <3>2, <3>3
  <2> QED
    BY <1>11, <2>3, <2>4 DEF StdioAdmits, Stdio!SentInOrder
<1>12. ASSUME StdioReturns PROVE Stdio!SentInOrder'
  BY <1>12
     DEF StdioReturns, Stdio!SentInOrder, Stdio!Typed, Stdio!Held
<1>13. ASSUME StdioTells PROVE Stdio!SentInOrder'
  BY <1>13
     DEF StdioTells, Stdio!SentInOrder, Stdio!Typed, Stdio!Held
<1>14. ASSUME StdioShuts PROVE Stdio!SentInOrder'
  BY <1>14
     DEF StdioShuts, Stdio!SentInOrder, Stdio!Typed, Stdio!Held, StdioEnding
<1>15. ASSUME StdioWaits PROVE Stdio!SentInOrder'
  BY <1>15
     DEF StdioWaits, Stdio!SentInOrder, Stdio!Typed, Stdio!Held
<1>16. ASSUME StdioProcEnds PROVE Stdio!SentInOrder'
  BY <1>16
     DEF StdioProcEnds, Stdio!SentInOrder, Stdio!Typed, Stdio!Held
<1>17. ASSUME StdioProcReads PROVE Stdio!SentInOrder'
  <2>0. out.q \in Seq(Nat) /\ stInb.q \in Seq(Nat)
    BY StdioInbox DEF Stdio!Typed
  <2>1. /\ Len(stGot) \in Nat /\ Len(pipeIn) \in Nat /\ pipeIn \in Seq(Nat) /\ stGot \in Seq(Nat)
        /\ Len(out.q) \in Nat
    BY <2>0 DEF Stdio!Typed
  <2>2. /\ Head(pipeIn) = Len(stGot) + 1 /\ Stdio!Follows(Tail(pipeIn), Len(stGot) + 1)
        /\ Len(Tail(pipeIn)) = Len(pipeIn) - 1
    BY <1>17, <2>1, FollowsTail DEF StdioProcReads, Stdio!SentInOrder
  <2>3. Len(stGot) + 1 \in Nat /\ Len(stGot) + 1 = 0 + Len(stGot) + 1 /\ 0 \in Nat
    BY <2>1
  <2>4. /\ Stdio!Follows(Append(stGot, Len(stGot) + 1), 0)
        /\ Len(Append(stGot, Len(stGot) + 1)) = Len(stGot) + 1
    BY <2>1, <2>3, FollowsAppend DEF Stdio!SentInOrder
  <2>5. Stdio!Follows(stGot', 0) /\ Len(stGot') = Len(stGot) + 1 /\ Stdio!Follows(pipeIn', Len(stGot'))
    BY <1>17, <2>2, <2>4 DEF StdioProcReads
  <2>6. Len(stGot') + Len(pipeIn') = Len(stGot) + Len(pipeIn)
    <3>1. (Len(stGot) + 1) + (Len(pipeIn) - 1) = Len(stGot) + Len(pipeIn)
      BY <2>1
    <3> QED
      BY <1>17, <2>2, <2>5, <3>1 DEF StdioProcReads
  <2> QED
    BY <1>17, <2>5, <2>6 DEF StdioProcReads, Stdio!SentInOrder
<1>18. ASSUME StdioProcWrites PROVE Stdio!SentInOrder'
  BY <1>18
     DEF StdioProcWrites, Stdio!SentInOrder, Stdio!Typed, Stdio!Held
<1> QED
  BY StdioSteps, <1>1, <1>2, <1>3, <1>4, <1>5, <1>6, <1>7, <1>8, <1>9, <1>10, <1>11,
     <1>12, <1>13, <1>14, <1>15, <1>16, <1>17, <1>18

\* What the process wrote reaches the caller in order.
LEMMA StdioRead ==
    ASSUME Stdio!Typed, Stdio!ReadInOrder, Stdio!EndIsReal, Stdio!Next
    PROVE  Stdio!ReadInOrder'
<1>1. ASSUME StdioWriterTakes PROVE Stdio!ReadInOrder'
  BY <1>1
     DEF StdioWriterTakes, Stdio!ReadInOrder, Stdio!Typed, Stdio!Held
<1>2. ASSUME StdioWriterEnds PROVE Stdio!ReadInOrder'
  BY <1>2
     DEF StdioWriterEnds, Stdio!ReadInOrder, Stdio!Typed, Stdio!Held, StdioEnding
<1>3. ASSUME StdioWriterStops PROVE Stdio!ReadInOrder'
  BY <1>3
     DEF StdioWriterStops, Stdio!ReadInOrder, Stdio!Typed, Stdio!Held
<1>4. ASSUME StdioWriterGoesOn PROVE Stdio!ReadInOrder'
  BY <1>4
     DEF StdioWriterGoesOn, Stdio!ReadInOrder, Stdio!Typed, Stdio!Held
<1>5. ASSUME StdioWriterPuts PROVE Stdio!ReadInOrder'
  BY <1>5
     DEF StdioWriterPuts, Stdio!ReadInOrder, Stdio!Typed, Stdio!Held
<1>6. ASSUME StdioWriterFails PROVE Stdio!ReadInOrder'
  BY <1>6
     DEF StdioWriterFails, Stdio!ReadInOrder, Stdio!Typed, Stdio!Held, StdioEnding
<1>7. ASSUME StdioReaderTakes PROVE Stdio!ReadInOrder'
  <2>0. out.q \in Seq(Nat) /\ stInb.q \in Seq(Nat)
    BY StdioInbox DEF Stdio!Typed
  <2>1. /\ Stdio!Held(reader) = 0 /\ Stdio!Held(reader') = 1
        /\ reader'.pc = "put" /\ reader'.f = Head(pipeOut)
    BY <1>7 DEF StdioReaderTakes, Stdio!Held
  <2>2. /\ Len(rcvd) \in Nat /\ Len(stInb.q) \in Nat /\ Len(rcvd) + Len(stInb.q) \in Nat
        /\ pipeOut \in Seq(Nat)
    BY <2>0 DEF Stdio!Typed
  <2>3. /\ Stdio!Follows(pipeOut, Len(rcvd) + Len(stInb.q))
        /\ Len(rcvd) + Len(stInb.q) + Len(pipeOut) = wrote
    <3>1. Len(rcvd) + Len(stInb.q) + 0 = Len(rcvd) + Len(stInb.q)
      BY <2>2
    <3>2. /\ Stdio!Follows(pipeOut, Len(rcvd) + Len(stInb.q) + 0)
          /\ Len(rcvd) + Len(stInb.q) + 0 + Len(pipeOut) = wrote
      BY <1>7, <2>1 DEF StdioReaderTakes, Stdio!ReadInOrder
    <3> QED
      BY <3>1, <3>2
  <2>4. /\ Head(pipeOut) = Len(rcvd) + Len(stInb.q) + 1
        /\ Stdio!Follows(Tail(pipeOut), Len(rcvd) + Len(stInb.q) + 1)
        /\ Len(Tail(pipeOut)) = Len(pipeOut) - 1 /\ Len(pipeOut) \in Nat /\ Len(pipeOut) # 0
    BY <1>7, <2>2, <2>3, FollowsTail DEF StdioReaderTakes
  <2>5. Len(rcvd) + Len(stInb.q) + 1 + Len(Tail(pipeOut)) = wrote
    BY <2>2, <2>3, <2>4, Counts
  <2> QED
    BY <1>7, <2>1, <2>4, <2>5 DEF StdioReaderTakes, Stdio!ReadInOrder
<1>8. ASSUME StdioReaderEnds PROVE Stdio!ReadInOrder'
  BY <1>8
     DEF StdioReaderEnds, Stdio!ReadInOrder, Stdio!Typed, Stdio!Held, StdioEnding
<1>9. ASSUME StdioReaderStops PROVE Stdio!ReadInOrder'
  BY <1>9
     DEF StdioReaderStops, Stdio!ReadInOrder, Stdio!Typed, Stdio!Held, StdioEnding
<1>10. ASSUME StdioReaderPuts PROVE Stdio!ReadInOrder'
  <2>0. out.q \in Seq(Nat) /\ stInb.q \in Seq(Nat)
    BY StdioInbox DEF Stdio!Typed
  <2>1. Stdio!Held(reader) = 1 /\ Stdio!Held(reader') = 0 /\ reader'.pc = "read"
    BY <1>10 DEF StdioReaderPuts, Stdio!Held
  <2>2. Len(rcvd) \in Nat /\ Len(stInb.q) \in Nat /\ Len(pipeOut) \in Nat /\ reader.f \in Nat
    BY <2>0 DEF Stdio!Typed
  <2>3. /\ Stdio!Follows(stInb.q, Len(rcvd)) /\ reader.f = Len(rcvd) + Len(stInb.q) + 1
        /\ Stdio!Follows(pipeOut, Len(rcvd) + Len(stInb.q) + 1)
        /\ Len(rcvd) + Len(stInb.q) + 1 + Len(pipeOut) = wrote
    BY <1>10, <2>1 DEF StdioReaderPuts, Stdio!ReadInOrder
  <2>4. /\ Stdio!Follows(stInb'.q, Len(rcvd)) /\ Len(stInb'.q) = Len(stInb.q) + 1
    <3>1. stInb'.q = Append(stInb.q, reader.f)
      BY <1>10 DEF StdioReaderPuts
    <3> QED
      BY <2>0, <2>2, <2>3, <3>1, FollowsAppend
  <2>5. Len(rcvd) + Len(stInb'.q) + 0 = Len(rcvd) + Len(stInb.q) + 1
    BY <2>2, <2>4
  <2> QED
    BY <1>10, <2>1, <2>3, <2>4, <2>5 DEF StdioReaderPuts, Stdio!ReadInOrder
<1>11. ASSUME StdioAdmits PROVE Stdio!ReadInOrder'
  BY <1>11
     DEF StdioAdmits, Stdio!ReadInOrder, Stdio!Typed, Stdio!Held
<1>12. ASSUME StdioReturns PROVE Stdio!ReadInOrder'
  <2>0. out.q \in Seq(Nat) /\ stInb.q \in Seq(Nat)
    BY StdioInbox DEF Stdio!Typed
  <2>1. /\ Len(rcvd) \in Nat /\ Len(stInb.q) \in Nat /\ rcvd \in Seq(Nat)
    BY <2>0 DEF Stdio!Typed
  <2>2. /\ Head(stInb.q) = Len(rcvd) + 1 /\ Stdio!Follows(Tail(stInb.q), Len(rcvd) + 1)
        /\ Len(Tail(stInb.q)) = Len(stInb.q) - 1
    BY <1>12, <2>0, <2>1, FollowsTail DEF StdioReturns, Stdio!ReadInOrder
  <2>3. Len(rcvd) + 1 \in Nat /\ Len(rcvd) + 1 = 0 + Len(rcvd) + 1 /\ 0 \in Nat
    BY <2>1
  <2>4. /\ Stdio!Follows(Append(rcvd, Len(rcvd) + 1), 0)
        /\ Len(Append(rcvd, Len(rcvd) + 1)) = Len(rcvd) + 1
    BY <2>1, <2>3, FollowsAppend DEF Stdio!ReadInOrder
  <2>5. Stdio!Follows(rcvd', 0) /\ Len(rcvd') = Len(rcvd) + 1 /\ Stdio!Follows(stInb'.q, Len(rcvd'))
    BY <1>12, <2>2, <2>4 DEF StdioReturns
  <2>6. Len(rcvd') + Len(stInb'.q) = Len(rcvd) + Len(stInb.q)
    <3>1. (Len(rcvd) + 1) + (Len(stInb.q) - 1) = Len(rcvd) + Len(stInb.q)
      BY <2>1, Counts
    <3> QED
      BY <1>12, <2>2, <2>5, <3>1 DEF StdioReturns
  <2> QED
    BY <1>12, <2>5, <2>6 DEF StdioReturns, Stdio!ReadInOrder
<1>13. ASSUME StdioTells PROVE Stdio!ReadInOrder'
  BY <1>13
     DEF StdioTells, Stdio!ReadInOrder, Stdio!Typed, Stdio!Held
<1>14. ASSUME StdioShuts PROVE Stdio!ReadInOrder'
  BY <1>14
     DEF StdioShuts, Stdio!ReadInOrder, Stdio!Typed, Stdio!Held, StdioEnding
<1>15. ASSUME StdioWaits PROVE Stdio!ReadInOrder'
  BY <1>15
     DEF StdioWaits, Stdio!ReadInOrder, Stdio!Typed, Stdio!Held
<1>16. ASSUME StdioProcEnds PROVE Stdio!ReadInOrder'
  BY <1>16
     DEF StdioProcEnds, Stdio!ReadInOrder, Stdio!Typed, Stdio!Held
<1>17. ASSUME StdioProcReads PROVE Stdio!ReadInOrder'
  BY <1>17
     DEF StdioProcReads, Stdio!ReadInOrder, Stdio!Typed, Stdio!Held
<1>18. ASSUME StdioProcWrites PROVE Stdio!ReadInOrder'
  <2>0. out.q \in Seq(Nat) /\ stInb.q \in Seq(Nat)
    BY StdioInbox DEF Stdio!Typed
  <2>1. Len(rcvd) \in Nat /\ Len(stInb.q) \in Nat /\ pipeOut \in Seq(Nat) /\ wrote \in Nat
    BY <2>0 DEF Stdio!Typed
  <2>2. Stdio!Held(reader) \in {0, 1}
    BY DEF Stdio!Held
  <2> DEFINE n == Len(rcvd) + Len(stInb.q) + Stdio!Held(reader)
  <2>3. n \in Nat /\ wrote + 1 \in Nat
    BY <2>1, <2>2
  <2>4. ASSUME reader.pc # "done"
        PROVE  /\ Stdio!Follows(Append(pipeOut, wrote + 1), n)
               /\ n + Len(Append(pipeOut, wrote + 1)) = wrote + 1
    <3>1. Stdio!Follows(pipeOut, n) /\ n + Len(pipeOut) = wrote
      BY <2>4 DEF Stdio!ReadInOrder
    <3>2. wrote + 1 = n + Len(pipeOut) + 1
      BY <3>1
    <3> HIDE DEF n
    <3>3. /\ Stdio!Follows(Append(pipeOut, wrote + 1), n)
          /\ Len(Append(pipeOut, wrote + 1)) = Len(pipeOut) + 1
      BY <2>1, <2>3, <3>1, <3>2, FollowsAppend
    <3> QED
      BY <2>1, <2>3, <3>2, <3>3
  <2> QED
    BY <1>18, <2>3, <2>4 DEF StdioProcWrites, Stdio!ReadInOrder
<1> QED
  BY StdioSteps, <1>1, <1>2, <1>3, <1>4, <1>5, <1>6, <1>7, <1>8, <1>9, <1>10, <1>11,
     <1>12, <1>13, <1>14, <1>15, <1>16, <1>17, <1>18

\* An end is the end of stdout, or a close.
LEMMA StdioEnd ==
    ASSUME Stdio!Typed, Stdio!ReadInOrder, Stdio!EndIsReal, Stdio!Next
    PROVE  Stdio!EndIsReal'
<1>1. ASSUME StdioWriterTakes PROVE Stdio!EndIsReal'
  BY <1>1
     DEF StdioWriterTakes, Stdio!EndIsReal, Stdio!ReadInOrder, Stdio!Typed, Stdio!Held, Stdio!Ended
<1>2. ASSUME StdioWriterEnds PROVE Stdio!EndIsReal'
  BY <1>2
     DEF StdioWriterEnds, Stdio!EndIsReal, Stdio!ReadInOrder, Stdio!Typed, Stdio!Held, Stdio!Ended,
         StdioEnding
<1>3. ASSUME StdioWriterStops PROVE Stdio!EndIsReal'
  BY <1>3
     DEF StdioWriterStops, Stdio!EndIsReal, Stdio!ReadInOrder, Stdio!Typed, Stdio!Held, Stdio!Ended
<1>4. ASSUME StdioWriterGoesOn PROVE Stdio!EndIsReal'
  BY <1>4
     DEF StdioWriterGoesOn, Stdio!EndIsReal, Stdio!ReadInOrder, Stdio!Typed, Stdio!Held, Stdio!Ended
<1>5. ASSUME StdioWriterPuts PROVE Stdio!EndIsReal'
  BY <1>5
     DEF StdioWriterPuts, Stdio!EndIsReal, Stdio!ReadInOrder, Stdio!Typed, Stdio!Held, Stdio!Ended
<1>6. ASSUME StdioWriterFails PROVE Stdio!EndIsReal'
  BY <1>6
     DEF StdioWriterFails, Stdio!EndIsReal, Stdio!ReadInOrder, Stdio!Typed, Stdio!Held, Stdio!Ended,
         StdioEnding
<1>7. ASSUME StdioReaderTakes PROVE Stdio!EndIsReal'
  BY <1>7
     DEF StdioReaderTakes, Stdio!EndIsReal, Stdio!ReadInOrder, Stdio!Typed, Stdio!Held, Stdio!Ended
<1>8. ASSUME StdioReaderEnds PROVE Stdio!EndIsReal'
  BY <1>8
     DEF StdioReaderEnds, Stdio!EndIsReal, Stdio!ReadInOrder, Stdio!Typed, Stdio!Held, Stdio!Ended,
         StdioEnding
<1>9. ASSUME StdioReaderStops PROVE Stdio!EndIsReal'
  BY <1>9
     DEF StdioReaderStops, Stdio!EndIsReal, Stdio!ReadInOrder, Stdio!Typed, Stdio!Held, Stdio!Ended,
         StdioEnding
<1>10. ASSUME StdioReaderPuts PROVE Stdio!EndIsReal'
  BY <1>10
     DEF StdioReaderPuts, Stdio!EndIsReal, Stdio!ReadInOrder, Stdio!Typed, Stdio!Held, Stdio!Ended
<1>11. ASSUME StdioAdmits PROVE Stdio!EndIsReal'
  BY <1>11
     DEF StdioAdmits, Stdio!EndIsReal, Stdio!ReadInOrder, Stdio!Typed, Stdio!Held, Stdio!Ended
<1>12. ASSUME StdioReturns PROVE Stdio!EndIsReal'
  <2>0. out.q \in Seq(Nat) /\ stInb.q \in Seq(Nat)
    BY StdioInbox DEF Stdio!Typed
  <2>1. /\ Len(rcvd) \in Nat /\ Len(stInb.q) \in Nat
        /\ Len(Append(rcvd, Head(stInb.q))) = Len(rcvd) + 1
        /\ Len(Tail(stInb.q)) = Len(stInb.q) - 1
    <3>1. rcvd \in Seq(Nat) /\ stInb.q # << >>
      BY <1>12 DEF StdioReturns, Stdio!Typed
    <3>2. Head(stInb.q) \in Nat
      BY <2>0, <3>1
    <3> QED
      BY <2>0, <3>1, <3>2
  <2>2. (Len(rcvd) + 1) + (Len(stInb.q) - 1) = Len(rcvd) + Len(stInb.q)
    BY <2>1, Counts
  <2>3. Len(rcvd') + Len(stInb'.q) = Len(rcvd) + Len(stInb.q)
    BY <1>12, <2>1, <2>2 DEF StdioReturns
  <2> QED
    BY <1>12, <2>3 DEF StdioReturns, Stdio!EndIsReal, Stdio!Ended
<1>13. ASSUME StdioTells PROVE Stdio!EndIsReal'
  BY <1>13
     DEF StdioTells, Stdio!EndIsReal, Stdio!ReadInOrder, Stdio!Typed, Stdio!Held, Stdio!Ended
<1>14. ASSUME StdioShuts PROVE Stdio!EndIsReal'
  BY <1>14
     DEF StdioShuts, Stdio!EndIsReal, Stdio!ReadInOrder, Stdio!Typed, Stdio!Held, Stdio!Ended,
         StdioEnding
<1>15. ASSUME StdioWaits PROVE Stdio!EndIsReal'
  BY <1>15
     DEF StdioWaits, Stdio!EndIsReal, Stdio!ReadInOrder, Stdio!Typed, Stdio!Held, Stdio!Ended
<1>16. ASSUME StdioProcEnds PROVE Stdio!EndIsReal'
  BY <1>16
     DEF StdioProcEnds, Stdio!EndIsReal, Stdio!ReadInOrder, Stdio!Typed, Stdio!Held, Stdio!Ended
<1>17. ASSUME StdioProcReads PROVE Stdio!EndIsReal'
  BY <1>17
     DEF StdioProcReads, Stdio!EndIsReal, Stdio!ReadInOrder, Stdio!Typed, Stdio!Held, Stdio!Ended
<1>18. ASSUME StdioProcWrites PROVE Stdio!EndIsReal'
  BY <1>18
     DEF StdioProcWrites, Stdio!EndIsReal, Stdio!ReadInOrder, Stdio!Typed, Stdio!Held, Stdio!Ended
<1> QED
  BY StdioSteps, <1>1, <1>2, <1>3, <1>4, <1>5, <1>6, <1>7, <1>8, <1>9, <1>10, <1>11,
     <1>12, <1>13, <1>14, <1>15, <1>16, <1>17, <1>18

\* Every step keeps the invariant.
LEMMA StdioStep ==
    ASSUME Stdio!StdioInv, Stdio!Next
    PROVE  Stdio!StdioInv'
BY StdioTyped, StdioBounds, StdioSent, StdioRead, StdioEnd DEF Stdio!StdioInv

\* A behaviour starts with empty inboxes and pipes.
LEMMA StdioStart ==
    ASSUME Stdio!Init
    PROVE  Stdio!StdioInv
<1>1. /\ << >> \in Seq(Nat) /\ Len(<< >>) = 0 /\ Stdio!NewInbox \in Stdio!Inboxes
      /\ Stdio!NewInbox.q = << >> /\ Stdio!NewInbox.term = "none"
  BY DEF Stdio!NewInbox, Stdio!Inboxes, Stdio!Ends
<1>2. \A n : Stdio!Follows(<< >>, n)
  BY DEF Stdio!Follows
<1>3. Stdio!Typed
  BY <1>1 DEF Stdio!Init, Stdio!Typed, Stdio!Ends
<1>4. Stdio!TypeOK
  BY <1>1, StdioAllowed DEF Stdio!Init, Stdio!TypeOK, Stdio!Ended
<1>5. Stdio!Held(writer) = 0 /\ Stdio!Held(reader) = 0
  BY DEF Stdio!Init, Stdio!Held
<1>6. Stdio!SentInOrder /\ Stdio!ReadInOrder
  BY <1>1, <1>2, <1>5 DEF Stdio!Init, Stdio!SentInOrder, Stdio!ReadInOrder
<1>7. Stdio!EndIsReal
  BY <1>1 DEF Stdio!Init, Stdio!EndIsReal, Stdio!Ended
<1> QED
  BY <1>3, <1>4, <1>6, <1>7 DEF Stdio!StdioInv

\* A numbered stream is its own numbering.
LEMMA FollowsIs ==
    ASSUME NEW s \in Seq(Nat), Stdio!Follows(s, 0)
    PROVE  s = [i \in DOMAIN s |-> i]
<1>1. DOMAIN s = 1..Len(s) /\ s = [i \in DOMAIN s |-> s[i]]
  OBVIOUS
<1>2. \A i \in DOMAIN s : s[i] = i
  <2>1. SUFFICES ASSUME NEW i \in 1..Len(s) PROVE s[i] = i
    BY <1>1
  <2>2. s[i] = 0 + i /\ i \in Nat
    BY DEF Stdio!Follows
  <2> QED
    BY <2>2
<1> QED
  BY <1>1, <1>2

\* The invariant says that no line is lost or out of order.
LEMMA StdioPromises ==
    ASSUME Stdio!StdioInv
    PROVE  Stdio!TypeOK /\ Stdio!TailIsRead /\ Stdio!KeptInOrder
<1>0. /\ Stdio!Typed /\ Stdio!TypeOK /\ Stdio!SentInOrder /\ Stdio!ReadInOrder /\ Stdio!EndIsReal
  BY DEF Stdio!StdioInv
<1>1. Stdio!TailIsRead
  <2>1. SUFFICES ASSUME told # "none", ~stClosed PROVE Len(rcvd) = wrote
    BY DEF Stdio!TailIsRead
  <2>2. /\ stInb.q = << >> /\ Len(rcvd) + Len(stInb.q) = wrote
    BY <1>0, <2>1 DEF Stdio!EndIsReal
  <2>3. Len(rcvd) \in Nat /\ Len(<< >>) = 0
    BY <1>0 DEF Stdio!Typed
  <2> QED
    BY <2>2, <2>3
<1>2. stGot = [i \in DOMAIN stGot |-> i] /\ rcvd = [i \in DOMAIN rcvd |-> i]
  BY <1>0, FollowsIs DEF Stdio!Typed, Stdio!SentInOrder, Stdio!ReadInOrder
<1>3. Len(stGot) <= sent
  <2>1. Len(stGot) \in Nat /\ Len(pipeIn) \in Nat /\ sent \in Nat /\ Stdio!Held(writer) \in {0, 1}
    BY <1>0 DEF Stdio!Typed, Stdio!Held
  <2>2. Len(stGot) + Len(pipeIn) + Stdio!Held(writer) <= sent
    BY <1>0 DEF Stdio!SentInOrder
  <2> QED
    BY <2>1, <2>2
<1> QED
  BY <1>0, <1>1, <1>2, <1>3 DEF Stdio!KeptInOrder

\* After a failure only the write under way lands.
LEMMA StdioLands ==
    ASSUME Stdio!Typed, Stdio!Next, first # "none"
    PROVE  Stdio!Landed' <= Stdio!Landed
<1> DEFINE w == IF writer.pc = "write" THEN 1 ELSE 0
<1>0. /\ Len(stGot) \in Nat /\ Len(pipeIn) \in Nat /\ w \in {0, 1}
      /\ Stdio!Landed = Len(stGot) + Len(pipeIn) + w
      /\ Stdio!Landed' = Len(stGot') + Len(pipeIn') + (IF writer'.pc = "write" THEN 1 ELSE 0)
  BY DEF Stdio!Typed, Stdio!Landed
<1>1. CASE StdioWriterPuts
  <2>1. /\ w = 1 /\ writer'.pc # "write" /\ Len(pipeIn') = Len(pipeIn) + 1 /\ stGot' = stGot
    BY <1>1 DEF StdioWriterPuts, Stdio!Typed
  <2> QED
    BY <1>0, <2>1
<1>2. CASE StdioProcReads
  <2>1. /\ Len(stGot') = Len(stGot) + 1 /\ Len(pipeIn') = Len(pipeIn) - 1
        /\ writer' = writer
    <3>1. Head(pipeIn) \in Nat
      BY <1>2 DEF StdioProcReads, Stdio!Typed
    <3> QED
      BY <1>2, <3>1 DEF StdioProcReads, Stdio!Typed
  <2> QED
    BY <1>0, <2>1
<1>3. CASE ~StdioWriterPuts /\ ~StdioProcReads
  <2>1. /\ stGot' = stGot /\ pipeIn' = pipeIn
        /\ (writer' = writer \/ writer'.pc \in {"check", "done"})
    <3>1. CASE \/ StdioWriterTakes \/ StdioWriterEnds \/ StdioWriterStops
               \/ StdioWriterGoesOn \/ StdioWriterFails
      <4>1. CASE StdioWriterTakes
        BY <4>1 DEF StdioWriterTakes
      <4>2. CASE StdioWriterEnds
        BY <4>2 DEF StdioWriterEnds
      <4>3. CASE StdioWriterStops
        BY <4>3 DEF StdioWriterStops
      <4>4. CASE StdioWriterGoesOn
        BY <4>4 DEF StdioWriterGoesOn
      <4>5. CASE StdioWriterFails
        BY <4>5 DEF StdioWriterFails
      <4> QED
        BY <3>1, <4>1, <4>2, <4>3, <4>4, <4>5
    <3>2. CASE \/ StdioReaderTakes \/ StdioReaderEnds \/ StdioReaderStops \/ StdioReaderPuts
               \/ StdioAdmits \/ StdioReturns \/ StdioTells
      BY <3>2 DEF StdioReaderTakes, StdioReaderEnds, StdioReaderStops, StdioReaderPuts,
                  StdioAdmits, StdioReturns, StdioTells
    <3>3. CASE StdioShuts \/ StdioWaits \/ StdioProcEnds \/ StdioProcWrites
      BY <3>3 DEF StdioShuts, StdioWaits, StdioProcEnds, StdioProcWrites
    <3> QED
      BY <1>3, <3>1, <3>2, <3>3, StdioSteps
  <2> QED
    BY <1>0, <2>1
<1> QED
  BY <1>1, <1>2, <1>3

\* What runs keeps its invariant; what is idle stays as it is.
StdioHolds == part = "stdio" => Stdio!StdioInv

LEMMA StdioStays ==
    ASSUME Stdio!StdioInv, UNCHANGED StdioTransportVars
    PROVE  Stdio!StdioInv'
<1>1. Stdio!Typed' /\ Stdio!TypeOK'
  BY DEF Stdio!StdioInv, Stdio!Typed, Stdio!TypeOK, StdioTransportVars
<1>2. Stdio!SentInOrder' /\ Stdio!ReadInOrder' /\ Stdio!EndIsReal'
  BY DEF Stdio!StdioInv, Stdio!SentInOrder, Stdio!ReadInOrder, Stdio!EndIsReal,
         StdioTransportVars
<1> QED
  BY <1>1, <1>2 DEF Stdio!StdioInv

\* Whatever the writer and reader threads, the caller and the process do: no
\* line is lost or reordered, the tail that the process wrote before its pipe
\* broke is read, and nothing is written after a failure was recorded
\* (codex_transports.py StdioTransport).
THEOREM NoLineIsLost == TurnsSpec => LinesAreKept
<1> DEFINE Kept == part = "stdio" =>
                      Stdio!TypeOK /\ Stdio!TailIsRead /\ Stdio!KeptInOrder
           Lands == part = "stdio" => Stdio!NoWriteAfterFailure
<1>1. TurnsInit => StdioHolds
  BY StdioStart DEF TurnsInit, StdioHolds
<1>2. StdioHolds /\ [TurnsNext]_TurnsVars => StdioHolds'
  <2>1. ASSUME StdioHolds, TurnsNext, part = "stdio" PROVE StdioHolds'
    BY <2>1, StdioStep DEF TurnsNext, StdioHolds
  <2>2. ASSUME StdioHolds, TurnsNext, part # "stdio" PROVE StdioHolds'
    BY <2>2 DEF TurnsNext, StdioHolds
  <2>3. ASSUME StdioHolds, UNCHANGED TurnsVars PROVE StdioHolds'
    BY <2>3, StdioStays DEF TurnsVars, StdioHolds
  <2> QED
    BY <2>1, <2>2, <2>3
<1>3. StdioHolds => Kept
  BY StdioPromises DEF StdioHolds
<1>4. StdioHolds /\ [TurnsNext]_TurnsVars => [Lands]_TurnsVars
  <2>1. ASSUME StdioHolds, TurnsNext, part = "stdio", first # "none"
        PROVE  Stdio!Landed' <= Stdio!Landed
    BY <2>1, StdioLands DEF TurnsNext, StdioHolds, Stdio!StdioInv
  <2> QED
    BY <2>1 DEF Stdio!NoWriteAfterFailure
<1> QED
  BY <1>1, <1>2, <1>3, <1>4, PTL DEF TurnsSpec, LinesAreKept

-----------------------------------------------------------------------------
\* The constants meet the module's assumption.
LEMMA SocketAllowed ==
    SocketOut \in Nat /\ SocketIn \in Nat /\ SocketSends \in Nat /\ SocketFrames \in Nat
BY TurnsAllowed DEF Socket!ConstAssumption

\* The elements of a sequence that goes on, and of one whose first is taken.
LEMMA AppendElements ==
    ASSUME NEW S, NEW s \in Seq(S), NEW x \in S
    PROVE  /\ Append(s, x) \in Seq(S) /\ Len(s) \in Nat /\ Len(Append(s, x)) = Len(s) + 1
           /\ \A i \in 1..Len(s) : Append(s, x)[i] = s[i]
           /\ Append(s, x)[Len(s) + 1] = x
           /\ \A i \in 1..Len(Append(s, x)) : i \in 1..Len(s) \/ i = Len(s) + 1
<1>1. /\ Append(s, x) \in Seq(S) /\ Len(s) \in Nat /\ Len(Append(s, x)) = Len(s) + 1
      /\ \A i \in 1..Len(s) : Append(s, x)[i] = s[i]
      /\ Append(s, x)[Len(s) + 1] = x
  OBVIOUS
<1>2. \A i \in 1..(Len(s) + 1) : i \in 1..Len(s) \/ i = Len(s) + 1
  BY <1>1
<1> QED
  BY <1>1, <1>2

LEMMA TailElements ==
    ASSUME NEW S, NEW s \in Seq(S), s # << >>
    PROVE  /\ Tail(s) \in Seq(S) /\ Len(Tail(s)) = Len(s) - 1 /\ Len(s) \in Nat /\ Len(s) # 0
           /\ Head(s) = s[1] /\ 1 \in 1..Len(s)
           /\ \A i \in 1..Len(Tail(s)) :
                 /\ i + 1 \in 1..Len(s) /\ 1 < i + 1 /\ i \in Nat
                 /\ Tail(s)[i] = s[i + 1]
<1>1. /\ Tail(s) \in Seq(S) /\ Len(Tail(s)) = Len(s) - 1 /\ Len(s) \in Nat /\ Len(s) # 0
      /\ Head(s) = s[1]
      /\ \A i \in 1..(Len(s) - 1) : Tail(s)[i] = s[i + 1]
  OBVIOUS
<1>2. /\ 1 \in 1..Len(s)
      /\ \A i \in 1..(Len(s) - 1) : i + 1 \in 1..Len(s) /\ 1 < i + 1 /\ i \in Nat
  BY <1>1
<1> QED
  BY <1>1, <1>2

\* Both transports number their frames.
LEMMA SocketFollows ==
    \A s, n : Socket!Follows(s, n) <=> Stdio!Follows(s, n)
BY DEF Socket!Follows, Stdio!Follows

\* What the variables hold.
SocketBoxes == [q : Seq(Nat), term : {"none", "eof", "late", "closed"}]
SocketTasks == [pc : {"reading", "clear", "putting", "waiting", "woken", "off"}, f : Nat]
SocketCallers == [pc : {"free", "sending", "sendingLimited", "received", "joining", "gone"}, f : Nat]
SocketPeers == [n : Nat, next : Nat, up : BOOLEAN]

LEMMA SocketFields ==
    ASSUME Socket!Typed
    PROVE  /\ outq \in Seq(Socket!Frame) /\ Len(outq) \in Nat
           /\ wsInb \in SocketBoxes /\ wsInb.q \in Seq(Nat)
           /\ rcv \in SocketTasks /\ rcv.f \in Nat
           /\ wsCaller \in SocketCallers /\ wsCaller.f \in Nat
           /\ peer \in SocketPeers /\ peer.next \in Nat
           /\ landed \in Seq(Nat) /\ wsGot \in Seq(Nat) /\ barred \subseteq Nat
           /\ Len(wsGot) \in Nat /\ Len(wsInb.q) \in Nat
           /\ \A j \in 1..Len(outq) : outq[j] \in Socket!Frame
           /\ \A i \in 1..Len(landed) : landed[i] \in Nat
           /\ \A f \in Socket!Frame : f[1] \in Nat /\ f[2] \in BOOLEAN
<1>1. /\ outq \in Seq(Socket!Frame) /\ wsInb \in SocketBoxes /\ rcv \in SocketTasks
      /\ wsCaller \in SocketCallers /\ peer \in SocketPeers
      /\ landed \in Seq(Nat) /\ wsGot \in Seq(Nat) /\ barred \subseteq Nat
  BY DEF Socket!Typed, SocketBoxes, SocketTasks, SocketCallers, SocketPeers
<1>2. wsInb.q \in Seq(Nat)
  BY <1>1 DEF SocketBoxes
<1>3. rcv.f \in Nat /\ wsCaller.f \in Nat /\ peer.next \in Nat
  BY <1>1 DEF SocketTasks, SocketCallers, SocketPeers
<1>4. \A f \in Socket!Frame : f[1] \in Nat /\ f[2] \in BOOLEAN
  BY DEF Socket!Frame
<1>5. /\ Len(outq) \in Nat /\ Len(wsGot) \in Nat /\ Len(wsInb.q) \in Nat
      /\ \A j \in 1..Len(outq) : outq[j] \in Socket!Frame
      /\ \A i \in 1..Len(landed) : landed[i] \in Nat
  BY <1>1, <1>2
<1> QED
  BY <1>1, <1>2, <1>3, <1>4, <1>5

\* What the inbox is after each of its operations.
LEMMA SocketInbox ==
    ASSUME NEW b \in SocketBoxes
    PROVE  /\ \A x \in Nat : /\ Socket!Put(b, x) \in SocketBoxes
                             /\ Socket!Put(b, x).q = Append(b.q, x)
                             /\ Socket!Put(b, x).term = b.term
           /\ b.q # << >> => /\ Socket!Rest(b) \in SocketBoxes
                             /\ Socket!Rest(b).q = Tail(b.q)
                             /\ Socket!Rest(b).term = b.term
           /\ \A e \in {"eof", "late", "closed"} :
                 /\ Socket!Finish(b, e) \in SocketBoxes
                 /\ Socket!Finish(b, e).q = b.q
                 /\ Socket!Finish(b, e).term # "none"
<1>1. b.q \in Seq(Nat)
  BY DEF SocketBoxes
<1>2. \A s \in Seq(Nat) : /\ [b EXCEPT !.q = s] \in SocketBoxes
                          /\ [b EXCEPT !.q = s].q = s /\ [b EXCEPT !.q = s].term = b.term
  BY DEF SocketBoxes
<1>3. \A e \in {"eof", "late", "closed"} :
         /\ [b EXCEPT !.term = e] \in SocketBoxes
         /\ [b EXCEPT !.term = e].q = b.q /\ [b EXCEPT !.term = e].term = e
  BY DEF SocketBoxes
<1>4. ASSUME NEW x \in Nat
      PROVE  /\ Socket!Put(b, x) \in SocketBoxes
             /\ Socket!Put(b, x).q = Append(b.q, x)
             /\ Socket!Put(b, x).term = b.term
  <2>1. Append(b.q, x) \in Seq(Nat)
    BY <1>1
  <2>2. /\ [b EXCEPT !.q = Append(b.q, x)] \in SocketBoxes
        /\ [b EXCEPT !.q = Append(b.q, x)].q = Append(b.q, x)
        /\ [b EXCEPT !.q = Append(b.q, x)].term = b.term
    BY <1>2, <2>1
  <2> QED
    BY <2>2 DEF Socket!Put
<1>5. ASSUME b.q # << >>
      PROVE  /\ Socket!Rest(b) \in SocketBoxes /\ Socket!Rest(b).q = Tail(b.q)
             /\ Socket!Rest(b).term = b.term
  <2>1. Tail(b.q) \in Seq(Nat)
    BY <1>1, <1>5
  <2>2. /\ [b EXCEPT !.q = Tail(b.q)] \in SocketBoxes
        /\ [b EXCEPT !.q = Tail(b.q)].q = Tail(b.q) /\ [b EXCEPT !.q = Tail(b.q)].term = b.term
    BY <1>2, <2>1
  <2> QED
    BY <2>2 DEF Socket!Rest
<1>6. ASSUME NEW e \in {"eof", "late", "closed"}
      PROVE  /\ Socket!Finish(b, e) \in SocketBoxes /\ Socket!Finish(b, e).q = b.q
             /\ Socket!Finish(b, e).term # "none"
  <2>1. CASE b.term # "none"
    BY <2>1 DEF Socket!Finish, Socket!Ended
  <2>2. CASE b.term = "none"
    <3>1. Socket!Finish(b, e) = [b EXCEPT !.term = e]
      BY <2>2 DEF Socket!Finish, Socket!Ended
    <3> QED
      BY <1>3, <3>1
  <2> QED
    BY <2>1, <2>2
<1> QED
  BY <1>4, <1>5, <1>6

\* The sender, and the receiver with a frame in hand, go on; neither moves once
\* the run is over.
SocketRests == snd' = snd \/ (snd'.pc \in Socket!SenderSteps /\ snd' = [pc |-> snd'.pc, f |-> snd'.f])
SocketMid == {"clear", "putting", "waiting", "woken"}
SocketGoesOn ==
    \/ rcv' = rcv
    \/ rcv' \in SocketTasks /\ rcv'.f = rcv.f /\ rcv.pc \in SocketMid /\ rcv'.pc \in SocketMid
SocketEnding ==
    wsInb' \in SocketBoxes /\ wsInb'.q = wsInb.q /\ (wsInb.term # "none" => wsInb'.term # "none")

\* The steps, alternative by alternative.
SocketQuiet ==
    /\ SocketRests /\ SocketGoesOn /\ (thread = "over" => snd' = snd /\ rcv' = rcv)
    /\ wsCaller' \in SocketCallers /\ wsCaller'.f = wsCaller.f
    /\ peer' \in SocketPeers /\ peer'.next = peer.next
    /\ UNCHANGED <<outq, wsInb, done, wsClosed, thread, wsLate, landed, wsGot, barred>>
SocketTakes ==
    /\ snd.pc = "get" /\ outq # << >>
    /\ snd' = [pc |-> "holding", f |-> Head(outq)] /\ outq' = Tail(outq)
    /\ UNCHANGED <<wsInb, done, wsClosed, rcv, thread, wsCaller, wsLate, peer, landed, wsGot,
                   barred>>
SocketRefuses ==
    /\ snd.pc = "holding" /\ SocketRests /\ snd'.pc \in Socket!SenderSteps /\ SocketEnding
    /\ UNCHANGED <<outq, done, wsClosed, rcv, thread, wsCaller, wsLate, peer, landed, wsGot,
                   barred>>
SocketCommits ==
    /\ snd.pc = "holding" /\ ~Socket!Refuses(snd.f) /\ snd' = [pc |-> "writing", f |-> snd.f]
    /\ UNCHANGED <<outq, wsInb, done, wsClosed, rcv, thread, wsCaller, wsLate, peer, landed,
                   wsGot, barred>>
SocketWrites ==
    /\ snd.pc = "writing" /\ landed' = Append(landed, snd.f[1])
    /\ snd' = [pc |-> "draining", f |-> 0]
    /\ UNCHANGED <<outq, wsInb, done, wsClosed, rcv, thread, wsCaller, wsLate, peer, wsGot,
                   barred>>
SocketReads ==
    /\ rcv.pc = "reading" /\ rcv' = [pc |-> "clear", f |-> peer.next]
    /\ peer' \in SocketPeers /\ peer'.next = peer.next + 1
    /\ UNCHANGED <<outq, wsInb, done, wsClosed, snd, thread, wsCaller, wsLate, landed, wsGot,
                   barred>>
SocketEnds ==
    /\ SocketEnding /\ wsInb'.term # "none" /\ done' = TRUE /\ rcv' = Socket!Off /\ SocketRests
    /\ (thread' = "over" => snd' = Socket!Off)
    /\ UNCHANGED <<outq, wsClosed, wsCaller, wsLate, peer, landed, wsGot, barred>>
SocketPuts ==
    /\ rcv.pc = "putting" /\ wsInb.term = "none" /\ Len(wsInb.q) < SocketIn
    /\ wsInb' \in SocketBoxes /\ wsInb'.q = Append(wsInb.q, rcv.f) /\ wsInb'.term = wsInb.term
    /\ rcv' = [pc |-> "reading", f |-> 0]
    /\ UNCHANGED <<outq, done, wsClosed, snd, thread, wsCaller, wsLate, peer, landed, wsGot,
                   barred>>
SocketAdmits(l) ==
    /\ ~wsClosed /\ ~(wsLate /\ l) /\ Len(outq) < SocketOut
    /\ outq' = Append(outq, <<wsCaller.f + 1, l>>)
    /\ wsCaller' \in SocketCallers /\ wsCaller'.f = wsCaller.f + 1
    /\ UNCHANGED <<wsInb, done, wsClosed, snd, rcv, thread, wsLate, peer, landed, wsGot, barred>>
SocketReturns ==
    /\ wsInb.q # << >> /\ wsGot' = Append(wsGot, Head(wsInb.q))
    /\ wsInb' \in SocketBoxes /\ wsInb'.q = Tail(wsInb.q) /\ wsInb'.term = wsInb.term
    /\ wsCaller' \in SocketCallers /\ wsCaller'.f = wsCaller.f
    /\ UNCHANGED <<outq, done, wsClosed, snd, rcv, thread, wsLate, peer, landed, barred>>
SocketShuts ==
    /\ wsClosed' = TRUE /\ done' = TRUE /\ SocketEnding
    /\ barred' = barred \cup {outq[i][1] : i \in DOMAIN outq}
    /\ wsCaller' \in SocketCallers /\ wsCaller'.f = wsCaller.f
    /\ UNCHANGED <<outq, snd, rcv, thread, wsLate, peer, landed, wsGot>>
SocketExpires ==
    /\ wsLate' = TRUE
    /\ barred' = barred \cup {outq[i][1] : i \in {k \in DOMAIN outq : outq[k][2]}}
    /\ UNCHANGED <<outq, wsInb, done, wsClosed, snd, rcv, thread, wsCaller, peer, landed, wsGot>>

\* A step takes one of the alternatives.
LEMMA SocketSteps ==
    ASSUME Socket!Typed, Socket!TypeOK, Socket!Next
    PROVE  \/ SocketQuiet \/ SocketTakes \/ SocketRefuses \/ SocketCommits \/ SocketWrites
           \/ SocketReads \/ SocketEnds \/ SocketPuts \/ (\E l \in BOOLEAN : SocketAdmits(l))
           \/ SocketReturns \/ SocketShuts \/ SocketExpires
<1>0. /\ snd = [pc |-> snd.pc, f |-> snd.f] /\ wsInb \in SocketBoxes /\ rcv \in SocketTasks
      /\ rcv.f \in Nat /\ wsCaller \in SocketCallers /\ wsCaller.f \in Nat
      /\ peer \in SocketPeers /\ peer.next \in Nat
  BY SocketFields DEF Socket!Typed
<1>a. /\ \A p : [snd EXCEPT !.pc = p] = [pc |-> p, f |-> snd.f]
      /\ \A p : /\ [snd EXCEPT !.pc = p].pc = p
                /\ [snd EXCEPT !.pc = p] = [pc |-> [snd EXCEPT !.pc = p].pc,
                                            f |-> [snd EXCEPT !.pc = p].f]
  BY <1>0
<1>b. \A p \in SocketMid : /\ [rcv EXCEPT !.pc = p] \in SocketTasks
                           /\ [rcv EXCEPT !.pc = p].f = rcv.f /\ [rcv EXCEPT !.pc = p].pc = p
  BY <1>0 DEF SocketTasks, SocketMid
<1>c. \A p \in {"free", "received", "joining", "gone"} :
         [wsCaller EXCEPT !.pc = p] \in SocketCallers /\ [wsCaller EXCEPT !.pc = p].f = wsCaller.f
  BY <1>0 DEF SocketCallers
<1>d. thread = "over" => snd.pc = "off" /\ rcv.pc = "off"
  BY DEF Socket!TypeOK, Socket!Off
<1>1. CASE Socket!RunCallback
  <2>1. PICK x : /\ snd' = IF x = "out" /\ snd.pc = "waiting" THEN [snd EXCEPT !.pc = "woken"] ELSE snd
                 /\ rcv' = IF x = "cap" /\ rcv.pc = "waiting" THEN [rcv EXCEPT !.pc = "woken"] ELSE rcv
    BY <1>1 DEF Socket!RunCallback
  <2>2. SocketRests
    <3>1. snd' = snd \/ snd' = [snd EXCEPT !.pc = "woken"]
      BY <2>1
    <3>2. CASE snd' = snd
      BY <3>2 DEF SocketRests
    <3>3. CASE snd' = [snd EXCEPT !.pc = "woken"]
      BY <1>a, <3>3 DEF SocketRests, Socket!SenderSteps
    <3> QED
      BY <3>1, <3>2, <3>3
  <2>3. SocketGoesOn
    <3>1. rcv' = rcv \/ (rcv.pc = "waiting" /\ rcv' = [rcv EXCEPT !.pc = "woken"])
      BY <2>1
    <3> QED
      BY <1>b, <3>1 DEF SocketGoesOn, SocketMid
  <2> QED
    BY <1>0, <1>1, <2>2, <2>3 DEF Socket!RunCallback, Socket!LoopVars, SocketQuiet
<1>2. CASE Socket!SenderWakes
  <2>1. SocketRests
    BY <1>2, <1>a DEF Socket!SenderWakes, SocketRests, Socket!SenderSteps
  <2> QED
    BY <1>0, <1>2, <1>d, <2>1 DEF Socket!SenderWakes, SocketQuiet, SocketGoesOn
<1>3. CASE Socket!SenderTurns
  <2>1. SocketRests
    <3>1. snd' = Socket!Off \/ snd' = [snd EXCEPT !.pc = "clear"]
      BY <1>3 DEF Socket!SenderTurns
    <3>2. CASE snd' = Socket!Off
      BY <3>2 DEF SocketRests, Socket!SenderSteps, Socket!Off
    <3>3. CASE snd' = [snd EXCEPT !.pc = "clear"]
      BY <1>a, <3>3 DEF SocketRests, Socket!SenderSteps
    <3> QED
      BY <3>1, <3>2, <3>3
  <2> QED
    BY <1>0, <1>3, <1>d, <2>1 DEF Socket!SenderTurns, SocketQuiet, SocketGoesOn
<1>4. CASE Socket!SenderClears
  <2>1. SocketRests
    BY <1>4, <1>a DEF Socket!SenderClears, SocketRests, Socket!SenderSteps
  <2> QED
    BY <1>0, <1>4, <1>d, <2>1 DEF Socket!SenderClears, SocketQuiet, SocketGoesOn
<1>5. CASE Socket!SenderGets
  <2>1. CASE outq = << >>
    <3>1. snd' = [snd EXCEPT !.pc = "waiting"] /\ outq' = outq
      BY <1>5, <2>1 DEF Socket!SenderGets
    <3>2. SocketRests
      BY <3>1, <1>a DEF SocketRests, Socket!SenderSteps
    <3> QED
      BY <1>0, <1>5, <1>d, <3>1, <3>2 DEF Socket!SenderGets, SocketQuiet, SocketGoesOn
  <2>2. CASE outq # << >>
    BY <1>5, <2>2 DEF Socket!SenderGets, SocketTakes
  <2> QED
    BY <2>1, <2>2
<1>6. CASE Socket!SenderLooks
  <2>1. CASE wsClosed \/ done
    <3>1. snd' = Socket!Off /\ wsInb' = wsInb
      BY <1>6, <2>1 DEF Socket!SenderLooks, Socket!SenderChecks
    <3>2. SocketRests /\ snd'.pc \in Socket!SenderSteps
      BY <3>1 DEF SocketRests, Socket!SenderSteps, Socket!Off
    <3>3. SocketEnding
      BY <1>0, <3>1 DEF SocketEnding
    <3> QED
      BY <1>6, <3>2, <3>3 DEF Socket!SenderLooks, SocketRefuses
  <2>2. CASE ~(wsClosed \/ done) /\ wsLate /\ snd.f[2]
    <3>1. snd' = [pc |-> "failed", f |-> 0] /\ wsInb' = Socket!Finish(wsInb, "late")
      BY <1>6, <2>2 DEF Socket!SenderLooks, Socket!SenderChecks
    <3>2. SocketRests /\ snd'.pc \in Socket!SenderSteps
      BY <3>1 DEF SocketRests, Socket!SenderSteps
    <3>3. SocketEnding
      BY <1>0, <3>1, SocketInbox DEF SocketEnding
    <3> QED
      BY <1>6, <3>2, <3>3 DEF Socket!SenderLooks, SocketRefuses
  <2>3. CASE ~(wsClosed \/ done) /\ ~(wsLate /\ snd.f[2])
    <3>1. snd' = [snd EXCEPT !.pc = "writing"] /\ wsInb' = wsInb
      BY <1>6, <2>3 DEF Socket!SenderLooks, Socket!SenderChecks
    <3>2. snd' = [pc |-> "writing", f |-> snd.f] /\ ~Socket!Refuses(snd.f)
      BY <1>a, <2>3, <3>1 DEF Socket!Refuses
    <3> QED
      BY <1>6, <3>1, <3>2 DEF Socket!SenderLooks, SocketCommits
  <2> QED
    BY <2>1, <2>2, <2>3
<1>7. CASE Socket!SenderSends
  BY <1>7 DEF Socket!SenderSends, SocketWrites
<1>8. ASSUME NEW e \in {"eof", "late", "closed"}, Socket!ReceiverEnds(e), rcv.pc # "off",
             UNCHANGED <<outq, wsClosed, thread, wsCaller, wsLate, peer, landed, wsGot, barred>>
      PROVE  SocketEnds
  <2>1. wsInb' = Socket!Finish(wsInb, e) /\ done' = TRUE /\ rcv' = Socket!Off
    BY <1>8 DEF Socket!ReceiverEnds
  <2>2. SocketRests
    <3>1. snd' = snd \/ snd' = [snd EXCEPT !.pc = "woken"]
      BY <1>8 DEF Socket!ReceiverEnds
    <3>2. CASE snd' = snd
      BY <3>2 DEF SocketRests
    <3>3. CASE snd' = [snd EXCEPT !.pc = "woken"]
      BY <1>a, <3>3 DEF SocketRests, Socket!SenderSteps
    <3> QED
      BY <3>1, <3>2, <3>3
  <2>3. SocketEnding /\ wsInb'.term # "none"
    BY <1>0, <1>8, <2>1, SocketInbox DEF SocketEnding
  <2> QED
    BY <1>8, <1>d, <2>1, <2>2, <2>3 DEF SocketEnds
<1>9. CASE Socket!ReceiverReads
  <2>1. CASE Socket!ReceiverEnds("eof") /\ UNCHANGED peer
    BY <1>8, <1>9, <2>1 DEF Socket!ReceiverReads
  <2>2. CASE /\ rcv' = [pc |-> "clear", f |-> peer.next]
             /\ peer' = [peer EXCEPT !.next = @ + 1] /\ UNCHANGED <<wsInb, done, oev, snd>>
    <3>1. peer.next + 1 \in Nat /\ peer' = [peer EXCEPT !.next = peer.next + 1]
      BY <1>0, <2>2
    <3>2. peer' \in SocketPeers /\ peer'.next = peer.next + 1
      BY <1>0, <3>1 DEF SocketPeers
    <3> QED
      BY <1>9, <2>2, <3>2 DEF Socket!ReceiverReads, SocketReads
  <2> QED
    BY <1>9, <2>1, <2>2 DEF Socket!ReceiverReads
<1>10. CASE Socket!ReceiverWakes \/ Socket!ReceiverClears
  <2>1. PICK p \in SocketMid : rcv' = [rcv EXCEPT !.pc = p] /\ rcv.pc \in SocketMid
    BY <1>10 DEF Socket!ReceiverWakes, Socket!ReceiverClears, SocketMid
  <2>2. SocketGoesOn
    BY <1>b, <2>1 DEF SocketGoesOn
  <2>3. thread # "over"
    BY <1>d, <2>1 DEF SocketMid
  <2> QED
    BY <1>0, <1>10, <2>2, <2>3
       DEF Socket!ReceiverWakes, Socket!ReceiverClears, SocketQuiet, SocketRests
<1>11. CASE Socket!ReceiverPuts
  <2>1. CASE wsInb.term # "none"
    <3>1. Socket!ReceiverEnds("eof")
      BY <1>11, <2>1 DEF Socket!ReceiverPuts, Socket!Ended
    <3> QED
      BY <1>8, <1>11, <3>1 DEF Socket!ReceiverPuts
  <2>2. CASE wsInb.term = "none" /\ Len(wsInb.q) < SocketIn
    <3>1. wsInb' = Socket!Put(wsInb, rcv.f) /\ rcv' = [pc |-> "reading", f |-> 0]
      BY <1>11, <2>2
         DEF Socket!ReceiverPuts, Socket!Ended, Socket!HasRoom, Socket!WaitsWhenFull
    <3>2. /\ wsInb' \in SocketBoxes /\ wsInb'.q = Append(wsInb.q, rcv.f)
          /\ wsInb'.term = wsInb.term
      BY <1>0, <3>1, SocketInbox
    <3> QED
      BY <1>11, <2>2, <3>1, <3>2 DEF Socket!ReceiverPuts, Socket!Ended, SocketPuts
  <2>3. CASE wsInb.term = "none" /\ ~(Len(wsInb.q) < SocketIn)
    <3>1. wsInb' = wsInb /\ rcv' = [rcv EXCEPT !.pc = "waiting"]
      BY <1>11, <2>3
         DEF Socket!ReceiverPuts, Socket!Ended, Socket!HasRoom, Socket!WaitsWhenFull
    <3>2. SocketGoesOn /\ thread # "over"
      BY <1>11, <1>b, <1>d, <3>1 DEF Socket!ReceiverPuts, SocketGoesOn, SocketMid
    <3> QED
      BY <1>0, <1>11, <2>3, <3>1, <3>2
         DEF Socket!ReceiverPuts, Socket!Ended, SocketQuiet, SocketRests
  <2> QED
    BY <2>1, <2>2, <2>3
<1>12. CASE Socket!Cancel
  <2>1. SocketRests
    BY <1>12 DEF Socket!Cancel, SocketRests, Socket!SenderSteps, Socket!Off
  <2>2. SocketEnding /\ wsInb'.term # "none"
    BY <1>0, <1>12, SocketInbox DEF Socket!Cancel, SocketEnding
  <2> QED
    BY <1>12, <2>1, <2>2 DEF Socket!Cancel, SocketEnds
<1>13. CASE Socket!Enqueue
  <2>1. PICK l \in BOOLEAN :
           /\ ~(l /\ wsLate) /\ outq' = Append(outq, <<wsCaller.f + 1, l>>)
           /\ wsCaller' = [pc |-> IF l THEN "sendingLimited" ELSE "sending", f |-> wsCaller.f + 1]
    BY <1>13 DEF Socket!Enqueue, Socket!EnqueueStep, Socket!Order
  <2>2. wsCaller' \in SocketCallers /\ wsCaller'.f = wsCaller.f + 1
    BY <1>0, <2>1 DEF SocketCallers
  <2> QED
    BY <1>13, <2>1, <2>2 DEF Socket!Enqueue, SocketAdmits
<1>14. CASE Socket!Enqueued \/ Socket!Received \/ Socket!Join
  <2>1. PICK p \in {"free", "received", "joining", "gone"} : wsCaller' = [wsCaller EXCEPT !.pc = p]
    BY <1>14 DEF Socket!Enqueued, Socket!Received, Socket!Join
  <2>2. outq' = outq
    BY <1>14
       DEF Socket!Enqueued, Socket!Received, Socket!Join, Socket!EnqueueStep, Socket!Order
  <2> QED
    BY <1>0, <1>14, <1>c, <2>1, <2>2
       DEF Socket!Enqueued, Socket!Received, Socket!Join, SocketQuiet, SocketRests, SocketGoesOn
<1>15. CASE Socket!Receive
  <2>1. wsInb.q # << >> /\ wsInb' = Socket!Rest(wsInb)
    BY <1>15 DEF Socket!Receive, Socket!Gettable
  <2>2. wsInb' \in SocketBoxes /\ wsInb'.q = Tail(wsInb.q) /\ wsInb'.term = wsInb.term
    BY <1>0, <2>1, SocketInbox
  <2> QED
    BY <1>15, <1>c, <2>1, <2>2 DEF Socket!Receive, SocketReturns
<1>16. CASE Socket!Close
  <2>1. SocketEnding
    BY <1>0, <1>16, SocketInbox DEF Socket!Close, SocketEnding
  <2> QED
    BY <1>16, <1>c, <2>1 DEF Socket!Close, SocketShuts
<1>17. CASE Socket!PeerSends \/ Socket!PeerLeaves
  <2>1. CASE Socket!PeerSends
    <3>1. peer.n + 1 \in Nat /\ peer' = [peer EXCEPT !.n = peer.n + 1]
      BY <1>0, <2>1 DEF Socket!PeerSends, SocketPeers
    <3>2. peer' \in SocketPeers /\ peer'.next = peer.next
      BY <1>0, <3>1 DEF SocketPeers
    <3> QED
      BY <1>0, <2>1, <3>2 DEF Socket!PeerSends, SocketQuiet, SocketRests, SocketGoesOn
  <2>2. CASE Socket!PeerLeaves
    <3>1. peer' \in SocketPeers /\ peer'.next = peer.next
      BY <1>0, <2>2 DEF Socket!PeerLeaves, SocketPeers
    <3> QED
      BY <1>0, <2>2, <3>1 DEF Socket!PeerLeaves, SocketQuiet, SocketRests, SocketGoesOn
  <2> QED
    BY <1>17, <2>1, <2>2
<1>18. CASE Socket!TimePasses
  BY <1>18 DEF Socket!TimePasses, SocketExpires
<1> QED
  BY <1>1, <1>2, <1>3, <1>4, <1>5, <1>6, <1>7, <1>9, <1>10, <1>11, <1>12, <1>13, <1>14,
     <1>15, <1>16, <1>17, <1>18
     DEF Socket!Next, Socket!Loop

\* Every step keeps the types.
LEMMA SocketTyped ==
    ASSUME Socket!Typed, Socket!TypeOK, Socket!Next
    PROVE  Socket!Typed'
<1>0. /\ outq \in Seq(Socket!Frame) /\ wsInb \in SocketBoxes /\ rcv \in SocketTasks
      /\ wsCaller \in SocketCallers /\ peer \in SocketPeers /\ landed \in Seq(Nat)
      /\ wsGot \in Seq(Nat) /\ barred \subseteq Nat
      /\ done \in BOOLEAN /\ wsClosed \in BOOLEAN /\ wsLate \in BOOLEAN
  BY SocketFields DEF Socket!Typed
<1>1. /\ outq' \in Seq(Socket!Frame) /\ wsInb' \in SocketBoxes /\ rcv' \in SocketTasks
      /\ wsCaller' \in SocketCallers /\ peer' \in SocketPeers
      /\ done' \in BOOLEAN /\ wsClosed' \in BOOLEAN /\ wsLate' \in BOOLEAN
  <2> DEFINE T == /\ outq' \in Seq(Socket!Frame) /\ wsInb' \in SocketBoxes /\ rcv' \in SocketTasks
                  /\ wsCaller' \in SocketCallers /\ peer' \in SocketPeers
                  /\ done' \in BOOLEAN /\ wsClosed' \in BOOLEAN /\ wsLate' \in BOOLEAN
  <2>1. SocketQuiet => T
    BY <1>0 DEF SocketQuiet, SocketGoesOn
  <2>2. SocketTakes => T
    BY <1>0, TailElements DEF SocketTakes
  <2>3. SocketRefuses \/ SocketCommits \/ SocketWrites => T
    BY <1>0 DEF SocketRefuses, SocketCommits, SocketWrites, SocketEnding
  <2>4. SocketReads => T
    <3>1. [pc |-> "clear", f |-> peer.next] \in SocketTasks
      BY SocketFields DEF SocketTasks
    <3> QED
      BY <1>0, <3>1 DEF SocketReads
  <2>5. SocketEnds => T
    BY <1>0 DEF SocketEnds, SocketEnding, Socket!Off, SocketTasks
  <2>6. SocketPuts => T
    <3>1. [pc |-> "reading", f |-> 0] \in SocketTasks
      BY DEF SocketTasks
    <3> QED
      BY <1>0, <3>1 DEF SocketPuts
  <2>7. ASSUME NEW l \in BOOLEAN, SocketAdmits(l) PROVE T
    <3>1. <<wsCaller.f + 1, l>> \in Socket!Frame
      BY SocketFields DEF Socket!Frame
    <3>2. outq' \in Seq(Socket!Frame)
      BY <1>0, <2>7, <3>1, AppendElements DEF SocketAdmits
    <3> QED
      BY <1>0, <2>7, <3>2 DEF SocketAdmits
  <2>8. SocketReturns \/ SocketShuts \/ SocketExpires => T
    BY <1>0 DEF SocketReturns, SocketShuts, SocketExpires, SocketEnding
  <2> QED
    BY <2>1, <2>2, <2>3, <2>4, <2>5, <2>6, <2>7, <2>8, SocketSteps
<1>2. landed' \in Seq(Nat) /\ wsGot' \in Seq(Nat)
  <2> DEFINE T == landed' \in Seq(Nat) /\ wsGot' \in Seq(Nat)
  <2>1. SocketWrites => T
    <3>1. snd.pc = "writing" => snd.f[1] \in Nat
      BY SocketFields DEF Socket!Typed
    <3> QED
      BY <1>0, <3>1 DEF SocketWrites
  <2>2. SocketReturns => T
    <3>1. wsInb.q # << >> => Head(wsInb.q) \in Nat
      BY SocketFields
    <3> QED
      BY <1>0, <3>1 DEF SocketReturns
  <2>3. \/ SocketQuiet \/ SocketTakes \/ SocketRefuses \/ SocketCommits \/ SocketReads
        \/ SocketEnds \/ SocketPuts \/ (\E l \in BOOLEAN : SocketAdmits(l))
        \/ SocketShuts \/ SocketExpires
        => T
    BY <1>0 DEF SocketQuiet, SocketTakes, SocketRefuses, SocketCommits, SocketReads,
                SocketEnds, SocketPuts, SocketAdmits, SocketShuts, SocketExpires
  <2> QED
    BY <2>1, <2>2, <2>3, SocketSteps
<1>3. barred' \subseteq Nat
  <2>1. \A i \in DOMAIN outq : outq[i][1] \in Nat
    BY <1>0, SocketFields
  <2>2. SocketShuts => barred' \subseteq Nat
    <3>1. {outq[i][1] : i \in DOMAIN outq} \subseteq Nat
      BY <2>1
    <3> QED
      BY <1>0, <3>1 DEF SocketShuts
  <2>3. SocketExpires => barred' \subseteq Nat
    <3>1. {outq[i][1] : i \in {k \in DOMAIN outq : outq[k][2]}} \subseteq Nat
      BY <2>1
    <3> QED
      BY <1>0, <3>1 DEF SocketExpires
  <2> QED
    BY <1>0, <2>2, <2>3, SocketSteps
       DEF SocketQuiet, SocketTakes, SocketRefuses, SocketCommits, SocketReads, SocketWrites,
           SocketEnds, SocketPuts, SocketAdmits, SocketReturns
<1>4. /\ snd' = [pc |-> snd'.pc, f |-> snd'.f]
      /\ snd'.pc \in Socket!SenderSteps \cup {"holding", "writing"}
      /\ snd'.pc \in {"holding", "writing"} => snd'.f \in Socket!Frame
  <2> DEFINE T == /\ snd' = [pc |-> snd'.pc, f |-> snd'.f]
                  /\ snd'.pc \in Socket!SenderSteps \cup {"holding", "writing"}
                  /\ snd'.pc \in {"holding", "writing"} => snd'.f \in Socket!Frame
  <2>1. SocketRests => T
    BY DEF SocketRests, Socket!Typed, Socket!SenderSteps
  <2>2. UNCHANGED snd => T
    BY DEF Socket!Typed
  <2>3. SocketTakes => T
    <3>1. outq # << >> => Head(outq) \in Socket!Frame
      BY <1>0
    <3> QED
      BY <3>1 DEF SocketTakes
  <2>4. SocketCommits => T
    BY DEF SocketCommits, Socket!Typed
  <2>5. SocketWrites => T
    BY DEF SocketWrites, Socket!SenderSteps
  <2> QED
    BY <2>1, <2>2, <2>3, <2>4, <2>5, SocketSteps
       DEF SocketQuiet, SocketRefuses, SocketReads, SocketEnds, SocketPuts, SocketAdmits,
           SocketReturns, SocketShuts, SocketExpires
<1> QED
  BY <1>1, <1>2, <1>3, <1>4
     DEF Socket!Typed, SocketBoxes, SocketTasks, SocketCallers, SocketPeers

\* Every step keeps the bounds of the queues, and no task outlives the run.
LEMMA SocketBounds ==
    ASSUME Socket!Typed, Socket!TypeOK, Socket!Next
    PROVE  Socket!TypeOK'
<1>0. /\ SocketOut \in Nat /\ SocketIn \in Nat /\ Len(outq) \in Nat /\ Len(wsInb.q) \in Nat
      /\ outq \in Seq(Socket!Frame) /\ wsInb.q \in Seq(Nat)
  BY SocketAllowed, SocketFields
<1>1. /\ Len(outq) <= SocketOut /\ Len(wsInb.q) <= SocketIn
      /\ thread = "over" => snd = Socket!Off /\ rcv = Socket!Off /\ wsInb.term # "none"
      /\ rcv.pc = "off" => done
  BY DEF Socket!TypeOK, Socket!Ended
<1> DEFINE Q == Len(outq') <= SocketOut
           B == Len(wsInb'.q) <= SocketIn
           O == thread' = "over" => snd' = Socket!Off /\ rcv' = Socket!Off /\ wsInb'.term # "none"
           D == rcv'.pc = "off" => done'
<1>2. ASSUME SocketQuiet PROVE Q /\ B /\ O /\ D
  BY <1>1, <1>2 DEF SocketQuiet, SocketGoesOn, SocketMid
<1>3. ASSUME SocketTakes PROVE Q /\ B /\ O /\ D
  <2>1. Len(outq') = Len(outq) - 1
    BY <1>0, <1>3, TailElements DEF SocketTakes
  <2>2. Q
    BY <1>0, <1>1, <2>1
  <2> QED
    BY <1>1, <1>3, <2>2 DEF SocketTakes, Socket!Off
<1>4. ASSUME SocketRefuses PROVE Q /\ B /\ O /\ D
  BY <1>1, <1>4 DEF SocketRefuses, SocketEnding, Socket!Off
<1>5. ASSUME SocketCommits PROVE Q /\ B /\ O /\ D
  BY <1>1, <1>5 DEF SocketCommits, Socket!Off
<1>6. ASSUME SocketWrites PROVE Q /\ B /\ O /\ D
  BY <1>1, <1>6 DEF SocketWrites, Socket!Off
<1>7. ASSUME SocketReads PROVE Q /\ B /\ O /\ D
  BY <1>1, <1>7 DEF SocketReads, Socket!Off
<1>8. ASSUME SocketEnds PROVE Q /\ B /\ O /\ D
  BY <1>1, <1>8 DEF SocketEnds, SocketEnding
<1>9. ASSUME SocketPuts PROVE Q /\ B /\ O /\ D
  <2>1. Len(wsInb'.q) = Len(wsInb.q) + 1
    <3>1. wsInb'.q = Append(wsInb.q, rcv.f) /\ rcv.f \in Nat
      BY <1>9, SocketFields DEF SocketPuts
    <3> QED
      BY <1>0, <3>1, AppendElements
  <2>2. B
    BY <1>0, <1>9, <2>1 DEF SocketPuts
  <2> QED
    BY <1>1, <1>9, <2>2 DEF SocketPuts, Socket!Off
<1>10. ASSUME NEW l \in BOOLEAN, SocketAdmits(l) PROVE Q /\ B /\ O /\ D
  <2>1. Len(outq') = Len(outq) + 1
    <3>1. <<wsCaller.f + 1, l>> \in Socket!Frame
      BY SocketFields DEF Socket!Frame
    <3> QED
      BY <1>0, <1>10, <3>1, AppendElements DEF SocketAdmits
  <2>2. Q
    BY <1>0, <1>10, <2>1 DEF SocketAdmits
  <2> QED
    BY <1>1, <1>10, <2>2 DEF SocketAdmits
<1>11. ASSUME SocketReturns PROVE Q /\ B /\ O /\ D
  <2>1. Len(wsInb'.q) = Len(wsInb.q) - 1
    BY <1>0, <1>11, TailElements DEF SocketReturns
  <2>2. B
    BY <1>0, <1>1, <2>1
  <2> QED
    BY <1>1, <1>11, <2>2 DEF SocketReturns
<1>12. ASSUME SocketShuts PROVE Q /\ B /\ O /\ D
  BY <1>1, <1>12 DEF SocketShuts, SocketEnding
<1>13. ASSUME SocketExpires PROVE Q /\ B /\ O /\ D
  BY <1>1, <1>13 DEF SocketExpires
<1>14. Q /\ B /\ O /\ D
  BY SocketSteps, <1>2, <1>3, <1>4, <1>5, <1>6, <1>7, <1>8, <1>9, <1>10, <1>11, <1>12, <1>13
<1> QED
  BY <1>14 DEF Socket!TypeOK, Socket!Ended

\* Every step keeps the frames that were read in order: handed out, in the
\* inbox, or held by the receiver.
LEMMA SocketRead ==
    ASSUME Socket!Typed, Socket!TypeOK, Socket!ReadInOrder, Socket!Next
    PROVE  Socket!ReadInOrder'
<1> DEFINE n == Len(wsGot)
           k == Len(wsInb.q)
           H == rcv.pc \in SocketMid => rcv.f = n + k + 1 /\ peer.next = n + k + 2
           R == rcv.pc = "reading" => peer.next = n + k + 1
<1>0. /\ wsInb.q \in Seq(Nat) /\ wsGot \in Seq(Nat) /\ n \in Nat /\ k \in Nat
      /\ rcv.f \in Nat /\ peer.next \in Nat
  BY SocketFields
<1>1. Stdio!Follows(wsGot, 0) /\ Stdio!Follows(wsInb.q, n) /\ H /\ R
  BY SocketFollows DEF Socket!ReadInOrder, SocketMid
<1>2. SUFFICES Stdio!Follows(wsGot', 0) /\ Stdio!Follows(wsInb'.q, n') /\ H' /\ R'
  BY SocketFollows DEF Socket!ReadInOrder, SocketMid
<1> DEFINE K == Stdio!Follows(wsGot', 0) /\ Stdio!Follows(wsInb'.q, n') /\ H' /\ R'
<1>3. ASSUME SocketQuiet PROVE K
  BY <1>1, <1>3 DEF SocketQuiet, SocketGoesOn, SocketMid
<1>4. ASSUME SocketTakes \/ SocketRefuses \/ SocketCommits \/ SocketWrites PROVE K
  BY <1>1, <1>4 DEF SocketTakes, SocketRefuses, SocketCommits, SocketWrites, SocketEnding
<1>5. ASSUME SocketReads PROVE K
  <2>1. rcv'.pc = "clear" /\ rcv'.f = n + k + 1 /\ peer'.next = (n + k + 1) + 1
    BY <1>1, <1>5 DEF SocketReads
  <2>2. (n + k + 1) + 1 = n + k + 2
    BY <1>0
  <2> QED
    BY <1>1, <1>5, <2>1, <2>2 DEF SocketReads
<1>6. ASSUME SocketEnds PROVE K
  BY <1>1, <1>6 DEF SocketEnds, SocketEnding, Socket!Off, SocketMid
<1>7. ASSUME SocketPuts PROVE K
  <2>1. rcv.f = n + k + 1 /\ peer.next = n + k + 2
    BY <1>1, <1>7 DEF SocketPuts, SocketMid
  <2>2. Stdio!Follows(wsInb'.q, n) /\ Len(wsInb'.q) = k + 1
    <3>1. wsInb'.q = Append(wsInb.q, rcv.f)
      BY <1>7 DEF SocketPuts
    <3> QED
      BY <1>0, <1>1, <2>1, <3>1, FollowsAppend
  <2>3. n + k + 2 = n + (k + 1) + 1
    BY <1>0
  <2>4. wsGot' = wsGot /\ rcv'.pc = "reading" /\ peer' = peer
    BY <1>7 DEF SocketPuts
  <2> QED
    BY <1>1, <2>1, <2>2, <2>3, <2>4 DEF SocketMid
<1>8. ASSUME NEW l \in BOOLEAN, SocketAdmits(l) PROVE K
  BY <1>1, <1>8 DEF SocketAdmits
<1>9. ASSUME SocketReturns PROVE K
  <2>1. /\ Head(wsInb.q) = n + 1 /\ Stdio!Follows(Tail(wsInb.q), n + 1)
        /\ Len(Tail(wsInb.q)) = k - 1
    BY <1>0, <1>1, <1>9, FollowsTail DEF SocketReturns
  <2>2. n + 1 \in Nat /\ n + 1 = 0 + n + 1 /\ 0 \in Nat
    BY <1>0
  <2>3. Stdio!Follows(Append(wsGot, n + 1), 0) /\ Len(Append(wsGot, n + 1)) = n + 1
    BY <1>0, <1>1, <2>2, FollowsAppend
  <2>4. /\ Stdio!Follows(wsGot', 0) /\ Len(wsGot') = n + 1
        /\ wsInb'.q = Tail(wsInb.q) /\ Len(wsInb'.q) = k - 1 /\ rcv' = rcv /\ peer' = peer
    BY <1>9, <2>1, <2>3 DEF SocketReturns
  <2>5. (n + 1) + (k - 1) = n + k
    BY <1>0, Counts
  <2> QED
    BY <1>1, <2>1, <2>4, <2>5
<1>10. ASSUME SocketShuts \/ SocketExpires PROVE K
  BY <1>1, <1>10 DEF SocketShuts, SocketExpires, SocketEnding
<1> QED
  BY SocketSteps, <1>3, <1>4, <1>5, <1>6, <1>7, <1>8, <1>9, <1>10

\* Every step keeps the frames to be written in the order of their numbers.
LEMMA SocketQueued ==
    ASSUME Socket!Typed, Socket!TypeOK, Socket!QueuedInOrder, Socket!Next
    PROVE  Socket!QueuedInOrder'
<1> DEFINE Sorted == \A i, j \in 1..Len(outq) : i < j => outq[i][1] < outq[j][1]
           Ahead == \A j \in 1..Len(outq) :
                       /\ outq[j][1] <= wsCaller.f
                       /\ \A i \in 1..Len(landed) : landed[i] < outq[j][1]
           Behind == \A j \in 1..Len(outq) : Socket!Holds => snd.f[1] < outq[j][1]
           Known == /\ \A i \in 1..Len(landed) : landed[i] <= wsCaller.f
                    /\ Socket!Holds => snd.f[1] <= wsCaller.f
           K == Sorted' /\ Ahead' /\ Behind' /\ Known'
<1>0. /\ outq \in Seq(Socket!Frame) /\ Len(outq) \in Nat /\ wsCaller.f \in Nat
      /\ landed \in Seq(Nat) /\ Len(landed) \in Nat
      /\ \A i \in 1..Len(landed) : landed[i] \in Nat
      /\ \A j \in 1..Len(outq) : outq[j] \in Socket!Frame /\ outq[j][1] \in Nat
  BY SocketFields
<1>1. Sorted /\ Ahead /\ Behind /\ Known
  BY DEF Socket!QueuedInOrder
<1>2. SUFFICES K
  BY DEF Socket!QueuedInOrder
<1>3. ASSUME UNCHANGED <<outq, landed>>, wsCaller'.f = wsCaller.f, UNCHANGED snd \/ ~Socket!Holds'
      PROVE  K
  BY <1>1, <1>3 DEF Socket!Holds
<1>4. SocketRests => UNCHANGED snd \/ ~Socket!Holds'
  BY DEF SocketRests, Socket!SenderSteps, Socket!Holds
<1>5. ASSUME SocketQuiet \/ SocketRefuses \/ SocketEnds PROVE K
  <2>1. UNCHANGED <<outq, landed>> /\ wsCaller'.f = wsCaller.f /\ SocketRests
    BY <1>5 DEF SocketQuiet, SocketRefuses, SocketEnds
  <2> QED
    BY <1>3, <1>4, <2>1
<1>6. ASSUME SocketReads \/ SocketPuts \/ SocketReturns \/ SocketShuts \/ SocketExpires PROVE K
  <2>1. UNCHANGED <<outq, landed, snd>> /\ wsCaller'.f = wsCaller.f
    BY <1>6 DEF SocketReads, SocketPuts, SocketReturns, SocketShuts, SocketExpires
  <2> QED
    BY <1>3, <2>1
<1>7. ASSUME SocketCommits PROVE K
  <2>1. UNCHANGED <<outq, landed>> /\ wsCaller'.f = wsCaller.f
        /\ Socket!Holds /\ snd'.f = snd.f
    BY <1>7 DEF SocketCommits, Socket!Holds
  <2> QED
    BY <1>1, <2>1
<1>8. ASSUME SocketTakes PROVE K
  <2>1. /\ outq' = Tail(outq) /\ Len(outq') = Len(outq) - 1 /\ Len(outq) # 0
        /\ 1 \in 1..Len(outq) /\ snd'.f = outq[1]
        /\ \A i \in 1..Len(outq') : i + 1 \in 1..Len(outq) /\ 1 < i + 1 /\ i \in Nat
                                    /\ outq'[i] = outq[i + 1]
    BY <1>0, <1>8, TailElements DEF SocketTakes
  <2>2. landed' = landed /\ wsCaller' = wsCaller
    BY <1>8 DEF SocketTakes
  <2>3. Sorted'
    <3>1. SUFFICES ASSUME NEW i \in 1..Len(outq'), NEW j \in 1..Len(outq'), i < j
                   PROVE  outq'[i][1] < outq'[j][1]
      OBVIOUS
    <3>2. i + 1 \in 1..Len(outq) /\ j + 1 \in 1..Len(outq) /\ i \in Nat /\ j \in Nat
          /\ outq'[i] = outq[i + 1] /\ outq'[j] = outq[j + 1]
      BY <2>1
    <3>3. i + 1 < j + 1
      BY <3>1, <3>2
    <3> QED
      BY <1>1, <3>2, <3>3
  <2>4. Ahead'
    BY <1>1, <2>1, <2>2
  <2>5. Behind'
    BY <1>1, <2>1
  <2>6. Known'
    BY <1>1, <2>1, <2>2
  <2> QED
    BY <2>3, <2>4, <2>5, <2>6
<1>9. ASSUME SocketWrites PROVE K
  <2>1. /\ outq' = outq /\ wsCaller' = wsCaller /\ ~Socket!Holds' /\ Socket!Holds
        /\ landed' = Append(landed, snd.f[1]) /\ snd.f[1] \in Nat
    BY <1>9, SocketFields DEF SocketWrites, Socket!Holds, Socket!Typed
  <2>2. /\ \A i \in 1..Len(landed) : landed'[i] = landed[i]
        /\ landed'[Len(landed) + 1] = snd.f[1]
        /\ \A i \in 1..Len(landed') : i \in 1..Len(landed) \/ i = Len(landed) + 1
    BY <1>0, <2>1, AppendElements
  <2>3. Sorted' /\ Behind'
    BY <1>1, <2>1
  <2>4. Ahead'
    <3>1. SUFFICES ASSUME NEW j \in 1..Len(outq), NEW i \in 1..Len(landed')
                   PROVE  landed'[i] < outq[j][1]
      BY <1>1, <2>1
    <3>2. CASE i \in 1..Len(landed)
      BY <1>1, <2>2, <3>2
    <3>3. CASE i = Len(landed) + 1
      BY <1>1, <2>1, <2>2, <3>3
    <3> QED
      BY <2>2, <3>2, <3>3
  <2>5. Known'
    <3>1. SUFFICES ASSUME NEW i \in 1..Len(landed')
                   PROVE  landed'[i] <= wsCaller.f
      BY <2>1
    <3>2. CASE i \in 1..Len(landed)
      BY <1>1, <2>2, <3>2
    <3>3. CASE i = Len(landed) + 1
      BY <1>1, <2>1, <2>2, <3>3
    <3> QED
      BY <2>2, <3>2, <3>3
  <2> QED
    BY <2>3, <2>4, <2>5
<1>10. ASSUME NEW l \in BOOLEAN, SocketAdmits(l) PROVE K
  <2> DEFINE f == wsCaller.f + 1
  <2>1. /\ outq' = Append(outq, <<f, l>>) /\ landed' = landed /\ snd' = snd /\ wsCaller'.f = f
    BY <1>10 DEF SocketAdmits
  <2>2. <<f, l>> \in Socket!Frame /\ <<f, l>>[1] = f
    BY <1>0 DEF Socket!Frame
  <2>3. /\ \A i \in 1..Len(outq) : outq'[i] = outq[i]
        /\ outq'[Len(outq) + 1] = <<f, l>>
        /\ \A i \in 1..Len(outq') : i \in 1..Len(outq) \/ i = Len(outq) + 1
    BY <1>0, <2>1, <2>2, AppendElements
  <2>4. /\ \A j \in 1..Len(outq) : outq[j][1] < f /\ outq[j][1] <= f
        /\ \A i \in 1..Len(landed) : landed[i] < f /\ landed[i] <= f
        /\ Socket!Holds => snd.f[1] < f /\ snd.f[1] <= f
    <3>1. \A x \in Nat : x <= wsCaller.f => x < f /\ x <= f
      BY <1>0
    <3>2. Socket!Holds => snd.f[1] \in Nat
      BY SocketFields DEF Socket!Typed, Socket!Holds
    <3> QED
      BY <1>0, <1>1, <3>1, <3>2
  <2>5. Sorted'
    <3>1. SUFFICES ASSUME NEW i \in 1..Len(outq'), NEW j \in 1..Len(outq'), i < j
                   PROVE  outq'[i][1] < outq'[j][1]
      OBVIOUS
    <3>2. i \in 1..Len(outq)
      <4>1. i # Len(outq) + 1
        <5>1. \A n \in Nat : \A x \in 1..n : ~(n + 1 < x)
          OBVIOUS
        <5>2. \A n \in Nat : ~(n + 1 < n + 1)
          OBVIOUS
        <5> QED
          BY <1>0, <2>3, <3>1, <5>1, <5>2
      <4> QED
        BY <2>3, <4>1
    <3>3. CASE j \in 1..Len(outq)
      BY <1>1, <2>3, <3>1, <3>2, <3>3
    <3>4. CASE j = Len(outq) + 1
      <4>1. outq'[j][1] = f /\ outq'[i][1] = outq[i][1]
        BY <2>2, <2>3, <3>2, <3>4
      <4> QED
        BY <2>4, <3>2, <4>1
    <3> QED
      BY <2>3, <3>3, <3>4
  <2>6. ASSUME NEW j \in 1..Len(outq')
        PROVE  /\ outq'[j][1] <= f
               /\ \A i \in 1..Len(landed) : landed[i] < outq'[j][1]
               /\ Socket!Holds => snd.f[1] < outq'[j][1]
    <3>1. CASE j \in 1..Len(outq)
      BY <1>1, <2>3, <2>4, <3>1
    <3>2. CASE j = Len(outq) + 1
      <4>1. outq'[j][1] = f /\ f <= f
        BY <1>0, <2>2, <2>3, <3>2
      <4> QED
        BY <2>4, <4>1
    <3> QED
      BY <2>3, <3>1, <3>2
  <2>7. Socket!Holds' <=> Socket!Holds
    BY <2>1 DEF Socket!Holds
  <2>8. Ahead' /\ Behind'
    BY <2>1, <2>6, <2>7
  <2>9. Known'
    BY <2>1, <2>4, <2>7
  <2> QED
    BY <2>5, <2>8, <2>9
<1> QED
  BY SocketSteps, <1>5, <1>6, <1>7, <1>8, <1>9, <1>10

\* What a close or a deadline bars is a number that is queued, after what is
\* written or held.
LEMMA SocketBars ==
    ASSUME Socket!Typed, Socket!QueuedInOrder, SocketShuts \/ SocketExpires
    PROVE  \A b \in barred' \ barred :
              /\ \E j \in 1..Len(outq) : b = outq[j][1] /\ (SocketExpires => outq[j][2])
              /\ b \in Nat /\ b <= wsCaller.f
              /\ \A i \in 1..Len(landed) : b # landed[i]
              /\ Socket!Holds => b # snd.f[1]
<1>0. /\ outq \in Seq(Socket!Frame) /\ DOMAIN outq = 1..Len(outq)
      /\ \A j \in 1..Len(outq) : outq[j][1] \in Nat
      /\ \A i \in 1..Len(landed) : landed[i] \in Nat
      /\ Socket!Holds => snd.f[1] \in Nat
  BY SocketFields DEF Socket!Typed, Socket!Holds
<1>1. \A x, y \in Nat : x < y => y # x
  OBVIOUS
<1>2. SUFFICES ASSUME NEW b \in barred' \ barred
               PROVE  /\ \E j \in 1..Len(outq) : b = outq[j][1] /\ (SocketExpires => outq[j][2])
                      /\ b \in Nat /\ b <= wsCaller.f
                      /\ \A i \in 1..Len(landed) : b # landed[i]
                      /\ Socket!Holds => b # snd.f[1]
  OBVIOUS
<1>3. PICK j \in 1..Len(outq) : b = outq[j][1] /\ (SocketExpires => outq[j][2])
  <2>1. CASE SocketExpires
    <3>1. b \in {outq[i][1] : i \in {k \in DOMAIN outq : outq[k][2]}}
      BY <2>1 DEF SocketExpires
    <3>2. PICK i \in {k \in DOMAIN outq : outq[k][2]} : b = outq[i][1]
      BY <3>1
    <3> QED
      BY <1>0, <3>2
  <2>2. CASE SocketShuts /\ ~SocketExpires
    <3>1. b \in {outq[i][1] : i \in DOMAIN outq}
      BY <2>2 DEF SocketShuts
    <3>2. PICK i \in DOMAIN outq : b = outq[i][1]
      BY <3>1
    <3> QED
      BY <1>0, <2>2, <3>2
  <2> QED
    BY <2>1, <2>2
<1>4. /\ b <= wsCaller.f /\ b \in Nat /\ (Socket!Holds => snd.f[1] < b)
      /\ \A i \in 1..Len(landed) : landed[i] < b
  BY <1>0, <1>3 DEF Socket!QueuedInOrder
<1> QED
  BY <1>0, <1>1, <1>3, <1>4

\* Every step keeps a frame that was barred among the refused.
LEMMA SocketBarred ==
    ASSUME Socket!Typed, Socket!TypeOK, Socket!QueuedInOrder, Socket!BarredIsRefused, Socket!Next
    PROVE  Socket!BarredIsRefused'
<1> DEFINE Known == \A b \in barred : b <= wsCaller.f
           Queued == \A j \in 1..Len(outq) : outq[j][1] \in barred => Socket!Refuses(outq[j])
           Held == snd.pc = "holding" /\ snd.f[1] \in barred => Socket!Refuses(snd.f)
           Sent == snd.pc = "writing" => snd.f[1] \notin barred
           K == Known' /\ Queued' /\ Held' /\ Sent'
<1>0. /\ outq \in Seq(Socket!Frame) /\ Len(outq) \in Nat /\ wsCaller.f \in Nat
      /\ barred \subseteq Nat
      /\ \A j \in 1..Len(outq) : outq[j][1] \in Nat
  BY SocketFields
<1>1. Known /\ Queued /\ Held /\ Sent
  BY DEF Socket!BarredIsRefused
<1>2. SUFFICES K
  BY DEF Socket!BarredIsRefused
<1>3. ASSUME UNCHANGED <<outq, wsClosed, wsLate, barred>>, wsCaller'.f = wsCaller.f,
             UNCHANGED snd \/ ~Socket!Holds'
      PROVE  K
  <2>1. Known' /\ Queued'
    BY <1>1, <1>3 DEF Socket!Refuses
  <2>2. Held' /\ Sent'
    BY <1>1, <1>3 DEF Socket!Holds, Socket!Refuses
  <2> QED
    BY <2>1, <2>2
<1>4. SocketRests => UNCHANGED snd \/ ~Socket!Holds'
  BY DEF SocketRests, Socket!SenderSteps, Socket!Holds
<1>5. ASSUME SocketQuiet \/ SocketRefuses \/ SocketEnds PROVE K
  <2>1. /\ UNCHANGED <<outq, wsClosed, wsLate, barred>> /\ wsCaller'.f = wsCaller.f
        /\ SocketRests
    BY <1>5 DEF SocketQuiet, SocketRefuses, SocketEnds
  <2> QED
    BY <1>3, <1>4, <2>1
<1>6. ASSUME SocketReads \/ SocketPuts \/ SocketReturns \/ SocketWrites PROVE K
  <2>1. /\ UNCHANGED <<outq, wsClosed, wsLate, barred>> /\ wsCaller'.f = wsCaller.f
        /\ (UNCHANGED snd \/ ~Socket!Holds')
    BY <1>6 DEF SocketReads, SocketPuts, SocketReturns, SocketWrites, Socket!Holds
  <2> QED
    BY <1>3, <2>1
<1>7. ASSUME SocketCommits PROVE K
  <2>1. /\ UNCHANGED <<outq, wsClosed, wsLate, barred>> /\ wsCaller' = wsCaller
        /\ snd.pc = "holding" /\ ~Socket!Refuses(snd.f)
        /\ snd'.pc = "writing" /\ snd'.f = snd.f
    BY <1>7 DEF SocketCommits
  <2>2. Known' /\ Queued'
    BY <1>1, <2>1 DEF Socket!Refuses
  <2> QED
    BY <1>1, <2>1, <2>2
<1>8. ASSUME SocketTakes PROVE K
  <2>1. /\ \A i \in 1..Len(outq') : i + 1 \in 1..Len(outq) /\ outq'[i] = outq[i + 1]
        /\ 1 \in 1..Len(outq) /\ snd'.f = outq[1] /\ snd'.pc = "holding"
        /\ UNCHANGED <<wsClosed, wsLate, barred, wsCaller>>
    BY <1>0, <1>8, TailElements DEF SocketTakes
  <2>2. Queued' /\ Held'
    BY <1>1, <2>1 DEF Socket!Refuses
  <2> QED
    BY <1>1, <2>1, <2>2
<1>9. ASSUME NEW l \in BOOLEAN, SocketAdmits(l) PROVE K
  <2> DEFINE f == wsCaller.f + 1
  <2>1. /\ outq' = Append(outq, <<f, l>>) /\ wsCaller'.f = f
        /\ UNCHANGED <<wsClosed, wsLate, barred, snd>>
    BY <1>9 DEF SocketAdmits
  <2>2. <<f, l>> \in Socket!Frame /\ <<f, l>>[1] = f
    BY <1>0 DEF Socket!Frame
  <2>3. /\ \A i \in 1..Len(outq) : outq'[i] = outq[i]
        /\ outq'[Len(outq) + 1] = <<f, l>>
        /\ \A i \in 1..Len(outq') : i \in 1..Len(outq) \/ i = Len(outq) + 1
    BY <1>0, <2>1, <2>2, AppendElements
  <2>4. f \notin barred /\ \A b \in barred : b <= f
    BY <1>0, <1>1
  <2>5. Queued'
    <3>1. SUFFICES ASSUME NEW j \in 1..Len(outq'), outq'[j][1] \in barred
                   PROVE  wsClosed' \/ (wsLate' /\ outq'[j][2])
      BY <2>1 DEF Socket!Refuses
    <3>2. j \in 1..Len(outq)
      BY <2>2, <2>3, <2>4, <3>1
    <3>3. Socket!Refuses(outq[j]) /\ outq'[j] = outq[j]
      BY <1>1, <2>3, <3>1, <3>2
    <3> QED
      BY <2>1, <3>3 DEF Socket!Refuses
  <2>6. Held' /\ Sent'
    BY <1>1, <2>1 DEF Socket!Refuses
  <2> QED
    BY <2>1, <2>4, <2>5, <2>6
<1>10. ASSUME SocketShuts PROVE K
  <2>1. /\ wsClosed' = TRUE /\ UNCHANGED <<outq, snd>> /\ wsCaller'.f = wsCaller.f
    BY <1>10 DEF SocketShuts
  <2>2. \A b \in barred' \ barred : b <= wsCaller.f /\ (Socket!Holds => b # snd.f[1])
    BY <1>10, SocketBars
  <2>3. Known' /\ Sent'
    BY <1>1, <2>1, <2>2 DEF Socket!Holds
  <2>4. Queued' /\ Held'
    BY <2>1 DEF Socket!Refuses
  <2> QED
    BY <2>3, <2>4
<1>11. ASSUME SocketExpires PROVE K
  <2>1. wsLate' = TRUE /\ UNCHANGED <<outq, snd, wsCaller, wsClosed>>
    BY <1>11 DEF SocketExpires
  <2>2. \A b \in barred' \ barred :
           /\ \E j \in 1..Len(outq) : b = outq[j][1] /\ outq[j][2]
           /\ b <= wsCaller.f /\ (Socket!Holds => b # snd.f[1])
    BY <1>11, SocketBars
  <2>3. \A g : Socket!Refuses(g) => Socket!Refuses(g)'
    BY <2>1 DEF Socket!Refuses
  <2>4. Known' /\ Sent'
    BY <1>1, <2>1, <2>2 DEF Socket!Holds
  <2>5. Held'
    BY <1>1, <2>1, <2>2 DEF Socket!Holds, Socket!Refuses
  <2>6. Queued'
    <3>1. SUFFICES ASSUME NEW j \in 1..Len(outq), outq[j][1] \in barred'
                   PROVE  Socket!Refuses(outq[j])'
      BY <2>1
    <3>2. CASE outq[j][1] \in barred
      BY <1>1, <2>1, <3>2 DEF Socket!Refuses
    <3>3. CASE outq[j][1] \notin barred
      <4>1. PICK i \in 1..Len(outq) : outq[j][1] = outq[i][1] /\ outq[i][2]
        BY <2>2, <3>1, <3>3
      <4>2. i = j
        <5>1. i < j => outq[i][1] < outq[j][1]
          BY DEF Socket!QueuedInOrder
        <5>2. j < i => outq[j][1] < outq[i][1]
          BY DEF Socket!QueuedInOrder
        <5>3. outq[i][1] \in Nat /\ outq[j][1] \in Nat
          BY <1>0
        <5> QED
          BY <4>1, <5>1, <5>2, <5>3
      <4> QED
        BY <2>1, <4>1, <4>2 DEF Socket!Refuses
    <3> QED
      BY <3>2, <3>3
  <2> QED
    BY <2>4, <2>5, <2>6
<1> QED
  BY SocketSteps, <1>5, <1>6, <1>7, <1>8, <1>9, <1>10, <1>11

\* Every step keeps a frame that was barred from being written.
LEMMA SocketLate ==
    ASSUME Socket!Typed, Socket!TypeOK, Socket!QueuedInOrder, Socket!BarredIsRefused,
           Socket!LateIsNotWritten, Socket!Next
    PROVE  Socket!LateIsNotWritten'
<1>0. landed \in Seq(Nat) /\ DOMAIN landed = 1..Len(landed)
  BY SocketFields
<1>1. \A i \in 1..Len(landed) : landed[i] \notin barred
  BY <1>0 DEF Socket!LateIsNotWritten
<1>2. ASSUME SocketWrites PROVE Socket!LateIsNotWritten'
  <2>1. /\ landed' = Append(landed, snd.f[1]) /\ snd.f[1] \in Nat /\ snd.f[1] \notin barred
        /\ barred' = barred
    BY <1>2, SocketFields DEF SocketWrites, Socket!Typed, Socket!BarredIsRefused
  <2>2. /\ landed' \in Seq(Nat)
        /\ \A i \in 1..Len(landed) : landed'[i] = landed[i]
        /\ landed'[Len(landed) + 1] = snd.f[1]
        /\ \A i \in 1..Len(landed') : i \in 1..Len(landed) \/ i = Len(landed) + 1
    BY <1>0, <2>1, AppendElements
  <2>3. DOMAIN landed' = 1..Len(landed')
    BY <2>2
  <2> QED
    BY <1>1, <2>1, <2>2, <2>3 DEF Socket!LateIsNotWritten
<1>3. ASSUME SocketShuts \/ SocketExpires PROVE Socket!LateIsNotWritten'
  <2>1. landed' = landed
    BY <1>3 DEF SocketShuts, SocketExpires
  <2>2. \A b \in barred' \ barred : \A i \in 1..Len(landed) : b # landed[i]
    BY <1>3, SocketBars
  <2> QED
    BY <1>0, <1>1, <2>1, <2>2 DEF Socket!LateIsNotWritten
<1>4. ASSUME UNCHANGED <<landed, barred>> PROVE Socket!LateIsNotWritten'
  BY <1>4 DEF Socket!LateIsNotWritten
<1>5. \/ SocketQuiet \/ SocketTakes \/ SocketRefuses \/ SocketCommits \/ SocketReads
      \/ SocketEnds \/ SocketPuts \/ (\E l \in BOOLEAN : SocketAdmits(l)) \/ SocketReturns
      => UNCHANGED <<landed, barred>>
  BY DEF SocketQuiet, SocketTakes, SocketRefuses, SocketCommits, SocketReads, SocketEnds,
         SocketPuts, SocketAdmits, SocketReturns
<1> QED
  BY SocketSteps, <1>2, <1>3, <1>4, <1>5

\* Every step keeps the invariant.
LEMMA SocketStep ==
    ASSUME Socket!SocketInv, Socket!Next
    PROVE  Socket!SocketInv'
BY SocketTyped, SocketBounds, SocketRead, SocketQueued, SocketBarred, SocketLate
   DEF Socket!SocketInv

\* A behaviour starts with empty queues.
LEMMA SocketStart ==
    ASSUME Socket!Init
    PROVE  Socket!SocketInv
<1>1. /\ << >> \in Seq(Nat) /\ << >> \in Seq(Socket!Frame) /\ Len(<< >>) = 0 /\ 1..0 = {}
      /\ Socket!NewInbox \in SocketBoxes
      /\ Socket!NewInbox.q = << >> /\ Socket!NewInbox.term = "none"
  BY DEF Socket!NewInbox, SocketBoxes
<1>2. \A n : Socket!Follows(<< >>, n)
  BY <1>1 DEF Socket!Follows
<1>3. /\ outq = << >> /\ wsInb = Socket!NewInbox /\ landed = << >> /\ wsGot = << >>
      /\ barred = {} /\ ~done /\ ~wsClosed /\ ~wsLate /\ thread = "up"
      /\ done \in BOOLEAN /\ wsClosed \in BOOLEAN /\ wsLate \in BOOLEAN
      /\ snd = [pc |-> "top", f |-> 0] /\ rcv = [pc |-> "reading", f |-> 0]
      /\ wsCaller = [pc |-> "free", f |-> 0] /\ peer = [n |-> 0, next |-> 1, up |-> TRUE]
  BY DEF Socket!Init
<1>4. Socket!Typed
  <2>1. rcv \in SocketTasks /\ wsCaller \in SocketCallers /\ peer \in SocketPeers
    BY <1>3 DEF SocketTasks, SocketCallers, SocketPeers
  <2> QED
    BY <1>1, <1>3, <2>1
       DEF Socket!Typed, Socket!SenderSteps, SocketBoxes, SocketTasks, SocketCallers, SocketPeers
<1>5. Socket!TypeOK
  BY <1>1, <1>3, SocketAllowed DEF Socket!TypeOK, Socket!Ended
<1>6. Socket!ReadInOrder
  BY <1>1, <1>2, <1>3 DEF Socket!ReadInOrder
<1>7. Socket!QueuedInOrder /\ Socket!BarredIsRefused /\ Socket!LateIsNotWritten
  BY <1>1, <1>3 DEF Socket!QueuedInOrder, Socket!BarredIsRefused, Socket!LateIsNotWritten,
                    Socket!Holds
<1> QED
  BY <1>4, <1>5, <1>6, <1>7 DEF Socket!SocketInv

\* The invariant says what is promised of the frames.
LEMMA SocketPromises ==
    ASSUME Socket!SocketInv
    PROVE  Socket!TypeOK /\ Socket!ReceivedInOrder /\ Socket!LateIsNotWritten
<1>1. wsGot \in Seq(Nat) /\ Stdio!Follows(wsGot, 0)
  BY SocketFields, SocketFollows DEF Socket!SocketInv, Socket!ReadInOrder
<1>2. wsGot = [i \in DOMAIN wsGot |-> i]
  BY <1>1, FollowsIs
<1> QED
  BY <1>2 DEF Socket!SocketInv, Socket!ReceivedInOrder

\* What runs keeps its invariant; what is idle stays as it is.
SocketHolds == part = "socket" => Socket!SocketInv

LEMMA SocketStays ==
    ASSUME Socket!SocketInv, UNCHANGED WebSocketTransportVars
    PROVE  Socket!SocketInv'
<1>1. Socket!Typed' /\ Socket!TypeOK'
  BY DEF Socket!SocketInv, Socket!Typed, Socket!TypeOK, WebSocketTransportVars
<1>2. Socket!ReadInOrder' /\ Socket!QueuedInOrder' /\ Socket!LateIsNotWritten'
  BY DEF Socket!SocketInv, Socket!ReadInOrder, Socket!QueuedInOrder, Socket!LateIsNotWritten,
         Socket!Holds, WebSocketTransportVars
<1>3. Socket!BarredIsRefused'
  BY DEF Socket!SocketInv, Socket!BarredIsRefused, Socket!Refuses, WebSocketTransportVars
<1> QED
  BY <1>1, <1>2, <1>3 DEF Socket!SocketInv

\* Whatever the sender and receiver tasks, the caller, the server and the clock
\* do: receive() returns the server's frames in order and without gaps, and a
\* frame that was still queued when its deadline passed, or when the caller
\* closed, is never written (codex_transports.py UnixWebSocketTransport).
THEOREM NoLateFrameIsWritten == TurnsSpec => []FramesAreKept
<1>1. TurnsInit => SocketHolds
  BY SocketStart DEF TurnsInit, SocketHolds
<1>2. SocketHolds /\ [TurnsNext]_TurnsVars => SocketHolds'
  <2>1. ASSUME SocketHolds, TurnsNext, part = "socket" PROVE SocketHolds'
    BY <2>1, SocketStep DEF TurnsNext, SocketHolds
  <2>2. ASSUME SocketHolds, TurnsNext, part # "socket" PROVE SocketHolds'
    BY <2>2 DEF TurnsNext, SocketHolds
  <2>3. ASSUME SocketHolds, UNCHANGED TurnsVars PROVE SocketHolds'
    BY <2>3, SocketStays DEF TurnsVars, SocketHolds
  <2> QED
    BY <2>1, <2>2, <2>3
<1>3. SocketHolds => FramesAreKept
  BY SocketPromises DEF SocketHolds, FramesAreKept
<1> QED
  BY <1>1, <1>2, <1>3, PTL DEF TurnsSpec
===============================================================================
