---------------------------- MODULE CodexClient ----------------------------
(***************************************************************************)
(* The client of one Codex app-server connection (codex_appserver.py and   *)
(* the helpers it owns), driven by the worker: resume the thread, start a  *)
(* turn, wait for it, read the account limits, retire the connection.      *)
(*                                                                         *)
(* One thread of control waits either for the answer to a request or for   *)
(* the end of a turn.  The server answers in any order, sends the events   *)
(* of a turn before it answers turn/start, repeats an item, and reports    *)
(* other turns and other threads on the same connection.  Older servers    *)
(* leave the thread out of an event.  The response channel to the server   *)
(* (stdin of a stdio server) may break while its events still arrive.      *)
(*                                                                         *)
(* Ticks measure deadlines.  Turn numbers 1..MaxTurns are the turns this   *)
(* worker starts, Foreign is a turn of the same thread started elsewhere.  *)
(***************************************************************************)
EXTENDS Naturals, Sequences, FiniteSets, SequencesExt

CONSTANTS Kinds,      \* what else the server may send: a subset of AllKinds
          MaxTurns,   \* bound: turns the server accepts
          MaxItems,   \* bound: visible items of one turn
          MaxWire,    \* bound: messages under way
          MaxNotes,   \* the notification buffer (the code has 1024)
          MaxEarly,   \* MAX_EARLY_GOAL_TURNS (the code has 8)
          MaxUpdates, \* bound: rate-limit updates
          RpcTicks,   \* DEFAULT_RPC_RESPONSE_SECONDS
          QuietTicks, \* DEFAULT_RPC_QUIET_SECONDS, shorter
          DrainTicks, \* RESPONSE_FAILURE_DRAIN_SECONDS
          Retires     \* retire_completed_connection: a disposable socket connection

AllKinds == {"foreign", "repeat", "old", "settings", "limits", "goal", "fault", "chatter"}

ConstAssumption ==
  /\ Kinds \subseteq AllKinds /\ Retires \in BOOLEAN
  /\ {MaxTurns, MaxItems, MaxWire, MaxNotes, MaxEarly, MaxUpdates} \subseteq Nat
  /\ {RpcTicks, QuietTicks, DrainTicks} \subseteq Nat \ {0} /\ QuietTicks < RpcTicks

VARIABLES cl,      \* the client
          reqs,    \* requests on their way to the server
          owed,    \* answers the server has still to send
          wire,    \* messages on their way to the client
          turns,   \* the server's turns
          channel, \* the response channel: "up" or "down"
          res,     \* what the last wait returned, NoResult when it raised
          upd,     \* history: rate-limit updates sent, in order, by their limit
          seen,    \* history: updates received during the current turn
          shown    \* history: <<update, limit>> a read presented

vars == <<cl, reqs, owed, wire, turns, channel, res, upd, seen, shown>>

Foreign == MaxTurns + 1
TurnIds == 1..Foreign
Limits == {"codex", "other"}
NoResult == [t |-> 0, items |-> << >>, goal |-> "none"]
NoTurn == [st |-> "none", n |-> 0, id |-> 0, goal |-> "none", drift |-> FALSE]
NoEarly == [t \in TurnIds |-> "unset"]
Fresh == [pc |-> "idle", step |-> "resume", id |-> 0, next |-> 1, turn |-> 0, attends |-> FALSE,
          notes |-> << >>, items |-> << >>, left |-> 0, quiet |-> 0,
          fault |-> FALSE, drain |-> 0, preparing |-> FALSE, badPrep |-> FALSE, drift |-> FALSE,
          collect |-> FALSE, rolling |-> [l \in Limits |-> 0], observed |-> [l \in Limits |-> 0],
          proof |-> 0, early |-> NoEarly, goal |-> "none", retired |-> FALSE]

Init ==
  /\ cl = Fresh /\ reqs = << >> /\ owed = {} /\ wire = << >>
  /\ turns = [t \in 1..MaxTurns |-> NoTurn]
  /\ channel = "up" /\ res = NoResult /\ upd = << >> /\ seen = {} /\ shown = {}

-----------------------------------------------------------------------------
\* The server.  It is external: what the client's code expects of it.

Msg(k, th, tu, x) == [k |-> k, th |-> th, tu |-> tu, x |-> x]
CanSend == Len(wire) < MaxWire
Running == {t \in 1..MaxTurns : turns[t].st = "run"}
Unused == {t \in 1..MaxTurns : turns[t].st = "none"}
Threads == {"own"} \cup (IF "old" \in Kinds THEN {"absent"} ELSE {})
ServerOnly == UNCHANGED <<cl, reqs, owed, channel, res, seen, shown>>

\* the next request is taken; turn/start creates a turn unless it is refused
ServerTakes ==
  /\ reqs # << >> /\ reqs' = Tail(reqs)
  /\ LET r == Head(reqs)
     IN \/ /\ r.m = "start" /\ Unused # {}
           /\ LET t == CHOOSE u \in Unused : \A v \in Unused : u <= v
              IN /\ turns' = [turns EXCEPT ![t] = [NoTurn EXCEPT !.st = "run", !.id = r.id]]
                 /\ owed' = owed \cup {[id |-> r.id, x |-> t]}
        \/ /\ r.m # "start"
           /\ \E x \in (IF r.m = "limits" THEN 0..2 ELSE 0..1) : owed' = owed \cup {[id |-> r.id, x |-> x]}
           /\ UNCHANGED turns
        \/ r.m = "start" /\ owed' = owed \cup {[id |-> r.id, x |-> 0]} /\ UNCHANGED turns
  /\ UNCHANGED <<cl, wire, channel, res, upd, seen, shown>>

ServerAnswers ==
  /\ CanSend
  /\ \E o \in owed : /\ owed' = owed \ {o}
                     /\ wire' = Append(wire, Msg("answer", "own", o.id, o.x))
  /\ UNCHANGED <<cl, reqs, turns, channel, res, upd, seen, shown>>

ServerItem ==
  /\ CanSend
  /\ \E t \in Running, th \in Threads :
       \/ /\ turns[t].n < MaxItems
          /\ wire' = Append(wire, Msg("item", th, t, turns[t].n + 1))
          /\ turns' = [turns EXCEPT ![t].n = @ + 1]
       \/ /\ "repeat" \in Kinds /\ turns[t].n > 0
          /\ wire' = Append(wire, Msg("item", th, t, turns[t].n)) /\ UNCHANGED turns
  /\ ServerOnly /\ UNCHANGED upd

ServerEnds ==
  /\ CanSend
  /\ \E t \in Running, th \in Threads, s \in {"completed", "failed", "error"} :
       /\ turns' = [turns EXCEPT ![t].st = IF s = "completed" THEN s ELSE "failed"]
       /\ wire' = Append(wire, Msg(IF s = "error" THEN "error" ELSE "done", th, t, s))
  /\ ServerOnly /\ UNCHANGED upd

\* events of other turns and threads, and a retrying error of an own turn
ServerElsewhere ==
  /\ CanSend /\ "foreign" \in Kinds
  /\ \/ wire' = Append(wire, Msg("item", "own", Foreign, 1))
     \/ wire' = Append(wire, Msg("done", "own", Foreign, "completed"))
     \/ \E t \in Running : \/ wire' = Append(wire, Msg("item", "other", t, 1))
                          \/ wire' = Append(wire, Msg("done", "other", t, "completed"))
                          \/ wire' = Append(wire, Msg("error", "own", t, "retry"))
  /\ ServerOnly /\ UNCHANGED <<turns, upd>>

\* frames that concern nobody here
ServerChatter ==
  /\ CanSend /\ "chatter" \in Kinds
  /\ wire' = Append(wire, Msg("other", "other", 0, 0))
  /\ ServerOnly /\ UNCHANGED <<turns, upd>>

ServerSettings ==
  /\ CanSend /\ "settings" \in Kinds
  /\ \E ok \in BOOLEAN :
       /\ wire' = Append(wire, Msg("settings", "own", 0, ok))
       /\ turns' = [t \in 1..MaxTurns |->
                     IF t \in Running /\ ~ok THEN [turns[t] EXCEPT !.drift = TRUE] ELSE turns[t]]
  /\ ServerOnly /\ UNCHANGED upd

ServerLimits ==
  /\ CanSend /\ "limits" \in Kinds /\ Len(upd) < MaxUpdates
  /\ \E l \in Limits : /\ wire' = Append(wire, Msg("limits", "own", Len(upd) + 1, l))
                       /\ upd' = Append(upd, l)
  /\ ServerOnly /\ UNCHANGED turns

\* a goal event of one turn, or one that names none (cleared, or unbound)
ServerGoal ==
  /\ CanSend /\ "goal" \in Kinds
  /\ \E t \in Running \cup {Foreign, 0}, s \in {"active", "paused"} :
       /\ wire' = Append(wire, Msg("goal", "own", t, s))
       /\ turns' = [u \in 1..MaxTurns |->
                     IF u \in Running /\ t \in {0, u}
                     THEN [turns[u] EXCEPT !.goal = IF t = 0 THEN "none" ELSE s] ELSE turns[u]]
  /\ ServerOnly /\ UNCHANGED upd

\* the stdin of a stdio server breaks; its stdout does not
ChannelBreaks ==
  /\ "fault" \in Kinds /\ channel = "up" /\ channel' = "down" /\ reqs' = << >>
  /\ UNCHANGED <<cl, owed, wire, turns, res, upd, seen, shown>>

-----------------------------------------------------------------------------
\* What every received message does to the client's own observers.

\* CodexResponseDrain.observe at every look at the remaining time
Watch(c) == IF channel = "down" /\ ~c.fault THEN [c EXCEPT !.fault = TRUE, !.drain = DrainTicks] ELSE c

ModesOfAnyTurn(c, e) ==
  IF e.k # "goal" \/ c.retired \/ ~c.attends THEN c
  ELSE IF e.tu = 0 THEN [c EXCEPT !.early = NoEarly, !.goal = "none"]
  ELSE IF c.turn # 0 THEN [c EXCEPT !.goal = e.x]
  ELSE [c EXCEPT !.early[e.tu] = e.x]

\* CodexTurnModes.observe
Modes(c, e) ==
  IF e.k # "goal" \/ c.retired \/ ~c.attends THEN c
  ELSE IF e.tu = 0 THEN [c EXCEPT !.early = NoEarly, !.goal = "none"]
  ELSE IF c.turn # 0 THEN [c EXCEPT !.goal = IF e.tu = c.turn THEN e.x ELSE @]
  ELSE IF c.early[e.tu] = "unset" /\ Cardinality({t \in TurnIds : c.early[t] # "unset"}) >= MaxEarly
  THEN [c EXCEPT !.retired = TRUE, !.early = NoEarly, !.goal = "none"]
  ELSE [c EXCEPT !.early[e.tu] = e.x]

\* CodexTurnModes.accept
AcceptModes(c, t) ==
  [c EXCEPT !.goal = IF c.early[t] = "unset" THEN "none" ELSE c.early[t], !.early = NoEarly]

SettingsOfPreparationOnly(c, e) ==
  IF e.k = "settings" /\ c.preparing THEN [c EXCEPT !.badPrep = @ \/ ~e.x] ELSE c

\* _observe_permission_settings: kept while preparing, a drift afterwards
Settings(c, e) ==
  IF e.k # "settings" THEN c
  ELSE IF c.preparing THEN [c EXCEPT !.badPrep = @ \/ ~e.x]
  ELSE [c EXCEPT !.drift = @ \/ ~e.x]

\* _observe_rate_limits, only from turn/start until the turn ends
Collect(c, e) == IF e.k = "limits" /\ c.collect THEN [c EXCEPT !.rolling[e.x] = e.tu] ELSE c

Observed(c, e) == Collect(Settings(Modes(c, e), e), e)

InTurn == cl.step \in {"start", "wait"} /\ cl.pc # "idle"
Noted(e) == seen' = IF e.k = "limits" /\ InTurn THEN seen \cup {e.tu} ELSE seen

RetainedOnceAccepted(c, e) ==
  /\ c.attends /\ e.k \in {"item", "done", "error"} /\ e.th # "other"
  /\ c.turn = e.tu

\* retain_turn_notification: only what the current turn's collector will use
Retained(c, e) ==
  /\ c.attends /\ e.k \in {"item", "done", "error"} /\ e.th # "other"
  /\ c.turn \in {0, e.tu}

-----------------------------------------------------------------------------
\* The worker's calls.

\* _clear_activity
Detached(c) == [c EXCEPT !.attends = FALSE, !.turn = 0, !.early = NoEarly, !.goal = "none", !.retired = FALSE]

\* _request sends only while the channel takes frames
Submit(c, m, quiet) ==
  LET d == [Watch(c) EXCEPT !.pc = "rpc", !.step = m, !.id = c.next, !.next = c.next + 1,
                            !.left = RpcTicks, !.quiet = quiet]
  IN /\ channel = "up" /\ cl' = d /\ reqs' = Append(reqs, [m |-> m, id |-> c.next])

\* a failed call makes the worker discard the client and its connection
Discard == /\ cl' = Fresh /\ reqs' = << >> /\ owed' = {} /\ wire' = << >> /\ channel' = "up"

Refused(c) == c.step = "start" /\ c.drift        \* start_turn refuses a drifted binding

\* start_thread or resume_thread, with its permission preparation
CallResume ==
  /\ cl.pc = "idle" /\ cl.step = "resume" /\ Unused # {}
  /\ Submit([Detached(cl) EXCEPT !.proof = 0, !.preparing = TRUE, !.badPrep = FALSE,
                                 !.drift = FALSE], "resume", QuietTicks)
  /\ UNCHANGED <<owed, wire, turns, channel, res, upd, seen, shown>>

CallStart ==
  /\ cl.pc = "idle" /\ cl.step = "start" /\ ~Refused(cl)
  /\ Submit([Detached(cl) EXCEPT !.proof = 0, !.notes = << >>, !.fault = FALSE, !.drain = 0,
                                 !.rolling = [l \in Limits |-> 0], !.collect = TRUE,
                                 !.attends = TRUE], "start", RpcTicks)
  /\ seen' = {}
  /\ UNCHANGED <<owed, wire, turns, channel, res, upd, shown>>

CallWait ==
  /\ cl.pc = "idle" /\ cl.step = "wait"
  /\ cl' = [cl EXCEPT !.pc = "turn", !.proof = 0, !.items = << >>]
  /\ res' = NoResult
  /\ UNCHANGED <<reqs, owed, wire, turns, channel, upd, seen, shown>>

\* read_rate_limits: the turn's windows are taken out before the request
CallLimits ==
  /\ cl.pc = "idle" /\ cl.step = "limits"
  /\ Submit([cl EXCEPT !.observed = cl.rolling, !.rolling = [l \in Limits |-> 0]], "limits", RpcTicks)
  /\ UNCHANGED <<owed, wire, turns, channel, res, upd, seen, shown>>

\* retire_completed_connection after the result was published
CallRetire ==
  /\ cl.pc = "idle" /\ cl.step = "retire"
  /\ IF Retires /\ cl.proof = res.t /\ res.t # 0
     THEN Discard
     ELSE cl' = [cl EXCEPT !.step = "resume", !.proof = 0] /\ UNCHANGED <<reqs, owed, wire, channel>>
  /\ UNCHANGED <<turns, res, upd, seen, shown>>

\* a call that cannot be sent, or start_turn on a drifted binding; a failed
\* limits read is survived, and presents what the turn reported
CallFails ==
  /\ cl.pc = "idle" /\ cl.step \in {"resume", "start", "limits"}
  /\ channel = "down" \/ Refused(cl)
  /\ IF cl.step = "limits"
     THEN /\ shown' = IF cl.rolling["codex"] = 0 THEN shown ELSE shown \cup {<<cl.rolling["codex"], "codex">>}
          /\ cl' = [cl EXCEPT !.step = "retire", !.rolling = [l \in Limits |-> 0]]
          /\ UNCHANGED <<reqs, owed, wire, channel>>
     ELSE Discard /\ UNCHANGED shown
  /\ UNCHANGED <<turns, res, upd, seen>>

-----------------------------------------------------------------------------
\* Waiting for the answer to a request.

Present(n, l) == shown' = IF n = 0 THEN shown ELSE shown \cup {<<n, l>>}

\* the raise of a request or of a wait
Raise ==
  IF cl.step = "limits"
  THEN /\ cl' = [cl EXCEPT !.pc = "idle", !.step = "retire"]
       /\ Present(cl.observed["codex"], "codex")
       /\ UNCHANGED <<reqs, owed, wire, channel, res>>
  ELSE Discard /\ res' = NoResult /\ UNCHANGED shown

AnyRolling(l) == CHOOSE n \in {cl.observed[k] : k \in Limits} : \A k \in Limits : n >= cl.observed[k]
\* only windows of the same limit may complete a read
RollingOf(l) == cl.observed[l]

AnyAnswer(e) == e.k = "answer"
IsMine(e) == e.k = "answer" /\ e.tu = cl.id

\* the answer to this request; 0 is a refusal or an unsafe setting
Answered(e) ==
  LET c == [Watch(cl) EXCEPT !.pc = "idle"]
  IN CASE cl.step = "limits" ->             \* 1: no windows, 2: the windows of a limit
            /\ cl' = [c EXCEPT !.step = "retire"]
            /\ \E l \in Limits : Present(IF e.x = 2 THEN 0 ELSE IF e.x = 1 THEN RollingOf(l)
                                         ELSE cl.observed["codex"], IF e.x = 1 THEN l ELSE "codex")
            /\ UNCHANGED <<reqs, owed, channel, res>> /\ wire' = Tail(wire)
       [] cl.step # "limits" /\ e.x = 0 -> Raise
       [] cl.step = "resume" /\ e.x # 0 ->
            /\ IF cl.badPrep THEN Raise
               ELSE /\ cl' = [c EXCEPT !.step = "start", !.preparing = FALSE]
                    /\ wire' = Tail(wire) /\ UNCHANGED <<reqs, owed, channel, res, shown>>
       [] cl.step = "start" /\ e.x # 0 ->
            /\ cl' = AcceptModes([c EXCEPT !.step = "wait", !.turn = e.x], e.x)
            /\ wire' = Tail(wire) /\ UNCHANGED <<reqs, owed, channel, res, shown>>

ReceiveRpc ==
  LET e == Head(wire)
      c == Watch(Observed(cl, e))
  IN /\ cl.pc = "rpc" /\ wire # << >> /\ cl.left > 0 /\ (cl.fault => cl.drain > 0)
     /\ Noted(e)
     /\ IF IsMine(e) THEN Answered(e)
        ELSE IF Retained(cl, e) /\ Len(cl.notes) >= MaxNotes THEN Raise
        ELSE /\ cl' = [c EXCEPT !.notes = IF Retained(cl, e) THEN Append(@, e) ELSE @,
                                !.quiet = IF cl.step = "resume" THEN QuietTicks ELSE RpcTicks]
             /\ wire' = Tail(wire)
             /\ UNCHANGED <<reqs, owed, channel, res, shown>>
     /\ UNCHANGED <<turns, upd>>

QuietOrDrained == \/ cl.fault /\ cl.drain = 0
                  \/ cl.pc = "rpc" /\ cl.quiet = 0 /\ cl.step = "resume"
DeadlineOnly == cl.pc = "rpc" /\ (cl.left = 0 \/ cl.quiet = 0)

\* the deadline, the quiet ceiling or the drain of a broken channel is over
Expired == \/ cl.fault /\ cl.drain = 0
           \/ cl.pc = "rpc" /\ (cl.left = 0 \/ cl.quiet = 0)
Expire ==
  /\ cl.pc \in {"rpc", "turn"} /\ Expired
  /\ Raise /\ UNCHANGED <<turns, upd, seen>>

\* an hour passes without any message of a turn
HourOfSilence ==
  /\ cl.pc = "turn" /\ cl.notes = << >> /\ wire = << >>
  /\ Raise /\ UNCHANGED <<turns, upd, seen>>

Less(n) == IF n = 0 THEN 0 ELSE n - 1

\* time passes while the client waits; a wait for a turn has no total deadline
Tick ==
  /\ cl.pc \in {"rpc", "turn"} /\ ~Expired
  /\ cl' = [Watch(cl) EXCEPT !.left = IF cl.pc = "rpc" THEN Less(@) ELSE @,
                             !.quiet = IF cl.pc = "rpc" THEN Less(@) ELSE @,
                             !.drain = IF cl.fault THEN Less(@) ELSE @]
  /\ UNCHANGED <<reqs, owed, wire, turns, channel, res, upd, seen, shown>>

-----------------------------------------------------------------------------
\* Waiting for the end of the accepted turn.

\* CodexResponseDrain.proves_completed
Proven(c, e) == c.fault => e.th = "own" /\ c.turn = e.tu

\* CompletedConnectionProof.observe
ProofOf(c, e) == IF Retires /\ e.th = "own" /\ e.tu = c.turn THEN c.turn ELSE 0

Take(c) == IF c.notes # << >> THEN [c EXCEPT !.notes = Tail(@)] ELSE c
NextEvent == IF cl.notes # << >> THEN Head(cl.notes) ELSE Head(wire)
StaysAttached(c) == [c EXCEPT !.pc = "idle", !.step = "limits", !.collect = FALSE, !.notes = << >>]
LeaveTurn(c) == [Detached(c) EXCEPT !.pc = "idle", !.step = "limits", !.collect = FALSE, !.notes = << >>]

NewItem(c, e) == e.x \notin ToSet(c.items)

ReceiveTurn ==
  LET e == NextEvent
      c == Watch(Take(IF cl.notes # << >> THEN cl ELSE Observed(cl, e)))
      mine == e.th # "other" /\ e.tu = c.turn
      rest == IF cl.notes # << >> THEN wire ELSE Tail(wire)
  IN /\ cl.pc = "turn" /\ (cl.notes # << >> \/ wire # << >>) /\ ~Expired
     /\ Noted(e)
     /\ IF c.drift \/ (mine /\ (\/ (e.k = "done" /\ e.x = "failed") \/ (e.k = "error" /\ e.x # "retry")
                                \/ (e.k = "done" /\ ~Proven(c, e))))
        THEN Raise
        ELSE /\ wire' = rest
             /\ cl' = IF mine /\ e.k = "done"
                      THEN [LeaveTurn(c) EXCEPT !.proof = ProofOf(c, e)]
                      ELSE IF mine /\ e.k = "item" /\ NewItem(c, e)
                      THEN [c EXCEPT !.items = Append(@, e.x)] ELSE c
             /\ res' = IF mine /\ e.k = "done" THEN [t |-> c.turn, items |-> c.items, goal |-> c.goal]
                       ELSE res
             /\ UNCHANGED <<reqs, owed, channel, shown>>
     /\ UNCHANGED <<turns, upd>>

-----------------------------------------------------------------------------

ServerStep == \/ ServerTakes \/ ServerAnswers \/ ServerItem \/ ServerEnds \/ ServerElsewhere
              \/ ServerChatter \/ ServerSettings \/ ServerLimits \/ ServerGoal \/ ChannelBreaks
Calls == CallResume \/ CallStart \/ CallWait \/ CallLimits \/ CallRetire \/ CallFails
Receives == ReceiveRpc \/ ReceiveTurn

Next == ServerStep \/ Calls \/ Receives \/ Tick \/ Expire \/ HourOfSilence

Spec == Init /\ [][Next]_vars

-----------------------------------------------------------------------------
\* Properties.

(* Control state and buffers stay within their bounds; only a call that is  *)
(* part of a turn attends to the thread.                                    *)
TypeOK ==
  /\ cl.pc \in {"idle", "rpc", "turn"} /\ cl.step \in {"resume", "start", "wait", "limits", "retire"}
  /\ Len(cl.notes) <= MaxNotes /\ cl.next > cl.id
  /\ cl.attends => cl.step \in {"start", "wait"}
  /\ cl.turn # 0 => cl.step = "wait"

(* A result is the whole visible answer of the turn that this worker        *)
(* started: every item the server sent for it, once and in order, also the  *)
(* ones sent before turn/start was answered, and nothing of another turn or *)
(* thread; and the server did complete that turn.                           *)
AnswerIsWhole ==
  res.t # 0 => /\ turns[res.t].st = "completed"
               /\ res.items = [i \in 1..turns[res.t].n |-> i]

(* The turn the client waits for is the one its own turn/start created,     *)
(* whatever late answers of earlier requests still arrive.                  *)
AcceptedIsStarted ==
  (cl.step = "wait" /\ cl.pc \in {"idle", "turn"}) =>
     /\ turns[cl.turn].st # "none" /\ turns[cl.turn].id = cl.next - 1

(* A turn during which the thread's permission settings drifted never       *)
(* counts as completed, however the report and the completion are mixed     *)
(* with the answer to turn/start.                                           *)
DriftIsRefused == res.t # 0 => ~turns[res.t].drift

(* The account windows that a read presents come from the turn just run,    *)
(* belong to the limit they are shown for and are presented once.           *)
WindowsAreCurrent ==
    \A s \in shown' \ shown : /\ s[1] \in seen /\ upd[s[1]] = s[2]
                              /\ \A o \in shown : o[1] # s[1]

(* The goal status of a result is the last one reported for exactly that    *)
(* turn, or unknown.                                                        *)
GoalIsOfTurn == res.t # 0 => res.goal \in {"none", turns[res.t].goal}

=============================================================================
