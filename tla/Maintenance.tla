---------------------------- MODULE Maintenance -----------------------------
(***************************************************************************)
(* One finite maintenance window (maintenance_window.py): reviewed units   *)
(* are observed, stopped in an order that closes admission first, and      *)
(* restored once, consumers before admission, whatever the body of the     *)
(* window or a callback did.  A callback may fail, its effect may land all *)
(* the same, and a unit may die by itself.                                 *)
(***************************************************************************)
EXTENDS Naturals, FiniteSets

CONSTANTS Units, Admission,
          MaxTrouble   \* bound: failing callbacks and units that die

MaintenanceBounds == Admission \subseteq Units /\ MaxTrouble \in Nat

VARIABLES
    up,        \* units that really run
    was,       \* units that ran when the window was opened (history)
    initial,   \* MaintenanceWindow.initial, as observed: active units
    pc,        \* opening, open, restoring, done, refused
    stopped,   \* MaintenanceWindow.stopped
    queue,     \* units still to be restored
    result,    \* outcome of every unit in the report
    started,   \* history: number of starts sent to every unit
    at,        \* step of the unit being restored
    trouble

vars == <<up, was, initial, pc, stopped, queue, result, started, at, trouble>>

NoUnit == [unit |-> "none", step |-> "none"]
Init ==
    /\ up \in SUBSET Units /\ was = up /\ initial = {} /\ pc = "opening" /\ stopped = {} /\ queue = {}
    /\ result = [u \in Units |-> "none"] /\ started = [u \in Units |-> 0]
    /\ at = NoUnit /\ trouble = 0

Trouble == trouble < MaxTrouble /\ trouble' = trouble + 1
Calm == UNCHANGED trouble

\* __enter__: every unit is observed, or the window is refused.
Enter ==
    /\ pc = "opening"
    /\ \/ pc' = "open" /\ initial' = up /\ was' = up /\ Calm
       \/ pc' = "refused" /\ Trouble /\ UNCHANGED <<initial, was>>
    /\ UNCHANGED <<up, stopped, queue, result, started, at>>

\* stop(): consumers only after admission is seen to be closed; recorded before
\* it is sent, because a failing stop may have worked.
MayStop(u) == u \in Admission \/ Admission \cap up = {}
Stop(u) ==
    /\ pc = "open" /\ u \in initial \ stopped /\ MayStop(u)
    /\ stopped' = stopped \cup {u}
    /\ \/ up' = up \ {u} /\ Calm
       \/ up' \in {up, up \ {u}} /\ Trouble
    /\ UNCHANGED <<was, initial, pc, queue, result, started, at>>

\* The body ends, normally or not; nothing is restored when nothing was
\* stopped.  Admission that was not stopped is left alone.
Eligible == {u \in initial : u \notin Admission \/ u \in stopped}
Body ==
    /\ pc = "open" /\ Calm
    /\ IF stopped = {} THEN pc' = "done" /\ UNCHANGED <<queue, result>>
       ELSE /\ pc' = "restoring" /\ queue' = Eligible
            /\ result' = [u \in Units |-> IF u \in Eligible THEN "unknown" ELSE "none"]
    /\ UNCHANGED <<up, was, initial, stopped, started, at>>

Consumers == Eligible \ Admission
StoppedReady == \A u \in Consumers \cap stopped : result[u] = "ready"
ConsumersReady == \A u \in Consumers : result[u] = "ready"
Settle(u, outcome) ==
    /\ result' = [result EXCEPT ![u] = outcome] /\ queue' = queue \ {u} /\ at' = NoUnit

\* The next unit, consumers first; admission behind a consumer that is not
\* ready is not touched.
Take(u) ==
    /\ pc = "restoring" /\ at = NoUnit /\ u \in queue /\ Calm
    /\ u \in Admission => queue \subseteq Admission
    /\ IF u \in Admission /\ ~ConsumersReady
       THEN Settle(u, "blocked")
       ELSE at' = [unit |-> u, step |-> "prerequisite"] /\ UNCHANGED <<result, queue>>
    /\ UNCHANGED <<up, was, initial, pc, stopped, started>>

\* _restore_unit, one callback at a time; any of them may fail.
Fails ==
    /\ at.step \in {"prerequisite", "observe", "recheck", "ready"} /\ Trouble
    /\ Settle(at.unit, "blocked")
    /\ UNCHANGED <<up, was, initial, pc, stopped, started>>

Prerequisite ==
    /\ at.step = "prerequisite" /\ Calm
    /\ at' = [at EXCEPT !.step = "observe"]
    /\ UNCHANGED <<up, was, initial, pc, stopped, queue, result, started>>

StartableAny(u) == TRUE
Startable(u) == u \in stopped
Observe ==
    /\ at.step = "observe" /\ Calm
    /\ IF at.unit \in up THEN at' = [at EXCEPT !.step = "ready"] /\ UNCHANGED <<result, queue>>
       ELSE IF Startable(at.unit) THEN at' = [at EXCEPT !.step = "start"] /\ UNCHANGED <<result, queue>>
       ELSE Settle(at.unit, "unknown")
    /\ UNCHANGED <<up, was, initial, pc, stopped, started>>

\* One start, whose failure is kept while the unit is observed again.
Start ==
    /\ at.step = "start"
    /\ started' = [started EXCEPT ![at.unit] = @ + 1]
    /\ at' = [at EXCEPT !.step = "recheck"]
    /\ \/ up' = up \cup {at.unit} /\ Calm
       \/ up' \in {up, up \cup {at.unit}} /\ Trouble
    /\ UNCHANGED <<was, initial, pc, stopped, queue, result>>

RecheckAgain ==
    /\ at.step = "recheck" /\ Calm
    /\ at' = [at EXCEPT !.step = IF at.unit \in up THEN "ready" ELSE "start"]
    /\ UNCHANGED <<up, was, initial, pc, stopped, queue, result, started>>

RecheckWaits ==
    /\ at.step = "recheck" /\ Calm /\ at.unit \in up
    /\ at' = [at EXCEPT !.step = "ready"]
    /\ UNCHANGED <<up, was, initial, pc, stopped, queue, result, started>>

Recheck ==
    /\ at.step = "recheck" /\ Calm
    /\ IF at.unit \in up THEN at' = [at EXCEPT !.step = "ready"] /\ UNCHANGED <<result, queue>>
       ELSE Settle(at.unit, "unknown")
    /\ UNCHANGED <<up, was, initial, pc, stopped, started>>

\* ready() raises for a unit that is not up.
Ready ==
    /\ at.step = "ready" /\ Calm
    /\ Settle(at.unit, IF at.unit \in up THEN "ready" ELSE "blocked")
    /\ UNCHANGED <<up, was, initial, pc, stopped, started>>

\* The last unit, or an interruption that is not an Exception.
Finish ==
    /\ pc = "restoring" /\ at = NoUnit /\ queue = {} /\ pc' = "done" /\ Calm
    /\ UNCHANGED <<up, was, initial, stopped, queue, result, started, at>>
Interrupt ==
    /\ pc = "restoring" /\ pc' = "interrupted" /\ at' = NoUnit /\ Trouble
    /\ UNCHANGED <<up, was, initial, stopped, queue, result, started>>

UnitDies(u) ==
    /\ u \in up /\ up' = up \ {u} /\ Trouble /\ pc \in {"opening", "open", "restoring"}
    /\ UNCHANGED <<was, initial, pc, stopped, queue, result, started, at>>

Next ==
    \/ Enter \/ Body \/ Fails \/ Prerequisite \/ Observe \/ Start \/ Recheck \/ Ready \/ Finish \/ Interrupt
    \/ \E u \in Units : Stop(u) \/ Take(u) \/ UnitDies(u)

Spec == Init /\ [][Next]_vars

-----------------------------------------------------------------------------
Steps == {"prerequisite", "observe", "start", "recheck", "ready"}
TypeOK ==
    /\ up \subseteq Units /\ was \subseteq Units /\ initial \subseteq was
    /\ stopped \subseteq initial /\ queue \subseteq Units
    /\ pc \in {"opening", "open", "restoring", "done", "refused", "interrupted"}
    /\ result \in [Units -> {"none", "unknown", "blocked", "ready"}]
    /\ started \in [Units -> 0..1]
    /\ at \in [unit : Units, step : Steps] \cup {NoUnit}

\* "At most one attempt", and only of a unit this window stopped: a unit that
\* was off, or that died by itself, is never switched on by the restoration.
StartsOnlyStopped == \A u \in Units : started[u] > 0 => u \in stopped \cap was

\* Work is let in again only behind consumers that were seen ready, all of
\* those that ran before, also the ones this window did not stop.
AdmissionLast ==
    \A u \in Admission : started'[u] > started[u] => \A c \in was \ Admission : result[c] = "ready"

-----------------------------------------------------------------------------
(* What makes these inductive.                                               *)

\* Before the restoration nothing is queued or started; from the opening on,
\* the window knows what ran.
BeforeRestoring ==
    /\ pc \in {"opening", "refused"} => stopped = {}
    /\ pc \in {"opening", "open", "refused"} =>
          queue = {} /\ \A u \in Units : started[u] = 0
    /\ pc \notin {"opening", "refused"} => initial = was

\* The unit at hand waits in the queue; its start is due only if this window
\* stopped it, and admission is at hand only behind ready consumers.
UnitAtHand ==
    /\ queue \subseteq Eligible
    /\ at # NoUnit =>
          /\ pc = "restoring" /\ at.unit \in queue
          /\ at.step = "start" => Startable(at.unit)
          /\ at.unit \in Admission => ConsumersReady

\* A unit that was started is being looked at again, or is done with.
StartedIsSeen ==
    \A u \in Units : started[u] > 0 =>
        /\ u \in stopped
        /\ pc = "restoring" /\ u \in queue => at.unit = u /\ at.step \in {"recheck", "ready"}

WindowInv == TypeOK /\ BeforeRestoring /\ UnitAtHand /\ StartedIsSeen

=============================================================================
