------------------------- MODULE WebSocketTransport -------------------------
(***************************************************************************)
(* UnixWebSocketTransport (codex_transports.py): a synchronous caller and  *)
(* an event-loop thread with a sender and a receiver task.  A task runs    *)
(* from one await to the next; the caller's thread interleaves anywhere.   *)
(* The caller wakes a task by scheduling event.set on the loop, which runs *)
(* it when no task is running.  Deadlines of frames are one flag: late.    *)
(***************************************************************************)
EXTENDS BoundedInbox

CONSTANTS MaxOut,    \* the outbound queue (the code has 16 frames)
          MaxIn,     \* the inbound inbox (the code has 1024 frames)
          MaxSends,  \* bound: frames the caller sends
          MaxFrames  \* bound: frames the server sends

ConstAssumption == {MaxOut, MaxIn, MaxSends, MaxFrames} \subseteq Nat

VARIABLES outq, inb,   \* outbound queue of <<number, limited>>, inbound inbox
          done,        \* _receiver_done
          closed,      \* _closed
          oev, cev,    \* outbound_event and capacity_event
          cb,          \* callbacks scheduled on the loop: subset of {"out", "cap", "cancel"}
          snd, rcv,    \* the tasks: [pc, f]
          thread,      \* "up", or "over" once _run has returned
          caller,      \* the caller: [pc, f]
          late,        \* the send-start deadlines have passed
          peer,        \* the server: frames it sent, and whether it is there
          landed, got, \* history: frames written, frames returned by receive()
          barred       \* history: frames still queued when closed or when their time was up

vars == <<outq, inb, done, closed, oev, cev, cb, snd, rcv, thread, caller, late, peer, landed, got, barred>>

Off == [pc |-> "off", f |-> 0]
Init ==
  /\ outq = << >> /\ inb = NewInbox /\ done = FALSE /\ closed = FALSE /\ oev = FALSE /\ cev = FALSE
  /\ cb = {} /\ snd = [pc |-> "top", f |-> 0] /\ rcv = [pc |-> "reading", f |-> 0] /\ thread = "up"
  /\ caller = [pc |-> "free", f |-> 0] /\ late = FALSE
  /\ peer = [n |-> 0, next |-> 1, up |-> TRUE] /\ landed = << >> /\ got = << >> /\ barred = {}

\* a task that is between two awaits keeps the loop busy
Busy(t) == t.pc \in {"top", "clear", "get", "holding", "writing", "putting"}
Idle == ~Busy(snd) /\ ~Busy(rcv)
LoopVars == <<outq, inb, done, closed, thread, caller, late, peer, landed, got, barred>>

\* _wake_event
Schedule(x) == cb' = IF thread = "up" THEN cb \cup {x} ELSE cb

-----------------------------------------------------------------------------
\* The loop runs a scheduled callback.

RunCallback ==
  /\ thread = "up" /\ Idle
  /\ \E x \in cb \ {"cancel"} :
       /\ cb' = cb \ {x}
       /\ oev' = (oev \/ x = "out") /\ cev' = (cev \/ x = "cap")
       /\ snd' = IF x = "out" /\ snd.pc = "waiting" THEN [snd EXCEPT !.pc = "woken"] ELSE snd
       /\ rcv' = IF x = "cap" /\ rcv.pc = "waiting" THEN [rcv EXCEPT !.pc = "woken"] ELSE rcv
  /\ UNCHANGED LoopVars

-----------------------------------------------------------------------------
\* The sender task.

SenderWakes ==
  /\ Idle /\ snd.pc \in {"woken", "draining"}
  /\ snd' = [snd EXCEPT !.pc = "top"]
  /\ UNCHANGED <<outq, inb, done, closed, oev, cev, cb, rcv, thread, caller, late, peer, landed, got, barred>>

SenderTurns ==
  /\ snd.pc = "top" /\ ~Busy(rcv)
  /\ snd' = IF done THEN Off ELSE [snd EXCEPT !.pc = "clear"]
  /\ UNCHANGED <<outq, inb, done, closed, oev, cev, cb, rcv, thread, caller, late, peer, landed, got, barred>>

SenderClears ==
  /\ snd.pc = "clear" /\ oev' = FALSE /\ snd' = [snd EXCEPT !.pc = "get"]
  /\ UNCHANGED <<outq, inb, done, closed, cev, cb, rcv, thread, caller, late, peer, landed, got, barred>>

SenderGets ==
  /\ snd.pc = "get"
  /\ IF outq = << >>
     THEN snd' = [snd EXCEPT !.pc = "waiting"] /\ UNCHANGED outq
     ELSE snd' = [pc |-> "holding", f |-> Head(outq)] /\ outq' = Tail(outq)
  /\ UNCHANGED <<inb, done, closed, oev, cev, cb, rcv, thread, caller, late, peer, landed, got, barred>>

WritesAnyway == snd' = [snd EXCEPT !.pc = "writing"] /\ UNCHANGED inb
\* the frame is dropped by a close, and refused when late
SenderChecks ==
  IF closed \/ done THEN snd' = Off /\ UNCHANGED inb
  ELSE IF late /\ snd.f[2]
  THEN snd' = [pc |-> "failed", f |-> 0] /\ inb' = Finish(inb, "late")
  ELSE snd' = [snd EXCEPT !.pc = "writing"] /\ UNCHANGED inb

SenderLooks ==
  /\ snd.pc = "holding" /\ SenderChecks
  /\ UNCHANGED <<outq, done, closed, oev, cev, cb, rcv, thread, caller, late, peer, landed, got, barred>>

\* the frame is written before the first await of send_str
SenderSends ==
  /\ snd.pc = "writing"
  /\ landed' = Append(landed, snd.f[1]) /\ snd' = [pc |-> "draining", f |-> 0]
  /\ UNCHANGED <<outq, inb, done, closed, oev, cev, cb, rcv, thread, caller, late, peer, got, barred>>

-----------------------------------------------------------------------------
\* The receiver task.

ForgetsDone(why) ==
  /\ inb' = Finish(inb, why) /\ done' = done /\ rcv' = Off /\ oev' = TRUE
  /\ snd' = IF snd.pc = "waiting" THEN [snd EXCEPT !.pc = "woken"] ELSE snd

\* its finally: the end is recorded and the sender is woken directly
ReceiverEnds(why) ==
  /\ inb' = Finish(inb, why) /\ done' = TRUE /\ rcv' = Off
  /\ oev' = TRUE
  /\ snd' = IF snd.pc = "waiting" THEN [snd EXCEPT !.pc = "woken"] ELSE snd

ReceiverReads ==
  /\ rcv.pc = "reading" /\ Idle
  /\ \/ /\ peer.next <= peer.n
        /\ rcv' = [pc |-> "clear", f |-> peer.next] /\ peer' = [peer EXCEPT !.next = @ + 1]
        /\ UNCHANGED <<inb, done, oev, snd>>
     \/ /\ peer.next > peer.n /\ ~peer.up /\ ReceiverEnds("eof") /\ UNCHANGED peer
  /\ UNCHANGED <<outq, closed, cev, cb, thread, caller, late, landed, got, barred>>

ReceiverWakes ==
  /\ rcv.pc = "woken" /\ Idle /\ rcv' = [rcv EXCEPT !.pc = "clear"]
  /\ UNCHANGED <<outq, inb, done, closed, oev, cev, cb, snd, thread, caller, late, peer, landed, got, barred>>

ReceiverClears ==
  /\ rcv.pc = "clear" /\ cev' = FALSE /\ rcv' = [rcv EXCEPT !.pc = "putting"]
  /\ UNCHANGED <<outq, inb, done, closed, oev, cb, snd, thread, caller, late, peer, landed, got, barred>>

DropsWhenFull == rcv' = [pc |-> "reading", f |-> 0]
WaitsWhenFull == rcv' = IF HasRoom(inb, MaxIn) THEN [pc |-> "reading", f |-> 0] ELSE [rcv EXCEPT !.pc = "waiting"]

ReceiverPuts ==
  /\ rcv.pc = "putting"
  /\ IF Ended(inb) THEN ReceiverEnds("eof")
     ELSE /\ WaitsWhenFull
          /\ inb' = IF HasRoom(inb, MaxIn) THEN Put(inb, rcv.f) ELSE inb
          /\ UNCHANGED <<done, oev, snd>>
  /\ UNCHANGED <<outq, closed, cev, cb, thread, caller, late, peer, landed, got, barred>>

-----------------------------------------------------------------------------
\* The end of _run: a failed task or a cancelled run cancels what is left.

Cancel ==
  /\ thread = "up" /\ Idle
  /\ \/ "cancel" \in cb \/ snd.pc = "failed" \/ (snd.pc = "off" /\ rcv.pc = "off")
  /\ snd' = Off /\ rcv' = Off /\ inb' = Finish(inb, "eof") /\ done' = TRUE
  /\ thread' = "over" /\ cb' = {}
  /\ UNCHANGED <<outq, closed, oev, cev, caller, late, peer, landed, got, barred>>

-----------------------------------------------------------------------------
\* The caller.

\* _enqueue: admission first, then the wake-up
WakeFirst == <<"wake", "put">>
Order == <<"put", "wake">>

EnqueueStep(s, f) ==
  IF s = "put" THEN outq' = Append(outq, f) /\ UNCHANGED cb
  ELSE Schedule("out") /\ UNCHANGED outq

Enqueue ==
  /\ caller.pc = "free" /\ ~closed /\ ~done /\ Len(outq) < MaxOut /\ caller.f < MaxSends
  /\ \E limited \in BOOLEAN : /\ ~(limited /\ late)
                              /\ EnqueueStep(Order[1], <<caller.f + 1, limited>>)
                              /\ caller' = [pc |-> IF limited THEN "sendingLimited" ELSE "sending", f |-> caller.f + 1]
  /\ UNCHANGED <<inb, done, closed, oev, cev, snd, rcv, thread, late, peer, landed, got, barred>>

Enqueued ==
  /\ caller.pc \in {"sending", "sendingLimited"}
  /\ EnqueueStep(Order[2], <<caller.f, caller.pc = "sendingLimited">>)
  /\ caller' = [caller EXCEPT !.pc = "free"]
  /\ UNCHANGED <<inb, done, closed, oev, cev, snd, rcv, thread, late, peer, landed, got, barred>>

\* BoundedInbox.get, then its capacity callback outside the lock
Receive ==
  /\ caller.pc = "free" /\ Gettable(inb)
  /\ got' = Append(got, Head(inb.q)) /\ inb' = Rest(inb)
  /\ caller' = [caller EXCEPT !.pc = "received"]
  /\ UNCHANGED <<outq, done, closed, oev, cev, cb, snd, rcv, thread, late, peer, landed, barred>>

NoCallback == UNCHANGED cb
CapacityCallback == Schedule("cap")

Received ==
  /\ caller.pc = "received" /\ CapacityCallback
  /\ caller' = [caller EXCEPT !.pc = "free"]
  /\ UNCHANGED <<outq, inb, done, closed, oev, cev, snd, rcv, thread, late, peer, landed, got, barred>>

NoCancel == {"out", "cap"}
CloseCallbacks == {"out", "cap", "cancel"}

\* close: refuse sends, end the inbox, cancel the run, join for a while
Close ==
  /\ caller.pc = "free" /\ ~closed /\ closed' = TRUE /\ inb' = Finish(inb, "closed") /\ done' = TRUE
  /\ cb' = IF thread = "up" THEN cb \cup CloseCallbacks ELSE cb
  /\ barred' = barred \cup {outq[i][1] : i \in DOMAIN outq}
  /\ caller' = [caller EXCEPT !.pc = "joining"]
  /\ UNCHANGED <<outq, oev, cev, snd, rcv, thread, late, peer, landed, got>>

\* an unconfirmed end is reported, and a later close can confirm it
Join ==
  /\ caller.pc = "joining" /\ thread = "over" /\ caller' = [caller EXCEPT !.pc = "gone"]
  /\ UNCHANGED <<outq, inb, done, closed, oev, cev, cb, snd, rcv, thread, late, peer, landed, got, barred>>

-----------------------------------------------------------------------------
\* The server, and time.  Both are external.

PeerSends ==
  /\ peer.up /\ peer.n < MaxFrames /\ peer' = [peer EXCEPT !.n = @ + 1]
  /\ UNCHANGED <<outq, inb, done, closed, oev, cev, cb, snd, rcv, thread, caller, late, landed, got, barred>>
PeerLeaves ==
  /\ peer.up /\ peer' = [peer EXCEPT !.up = FALSE]
  /\ UNCHANGED <<outq, inb, done, closed, oev, cev, cb, snd, rcv, thread, caller, late, landed, got, barred>>
TimePasses ==
  /\ ~late /\ late' = TRUE
  /\ barred' = barred \cup {outq[i][1] : i \in {k \in DOMAIN outq : outq[k][2]}}
  /\ UNCHANGED <<outq, inb, done, closed, oev, cev, cb, snd, rcv, thread, caller, peer, landed, got>>

Loop == RunCallback \/ SenderWakes \/ SenderTurns \/ SenderClears \/ SenderGets \/ SenderLooks \/ SenderSends
        \/ ReceiverReads \/ ReceiverWakes \/ ReceiverClears \/ ReceiverPuts \/ Cancel
Next == Loop \/ Enqueue \/ Enqueued \/ Receive \/ Received \/ Close \/ Join
        \/ PeerSends \/ PeerLeaves \/ TimePasses

Spec == Init /\ [][Next]_vars

-----------------------------------------------------------------------------
\* Properties.

(* Queues keep their bounds, and no task outlives the run.                  *)
TypeOK ==
  /\ Len(outq) <= MaxOut /\ Len(inb.q) <= MaxIn
  /\ thread = "over" => (snd = Off /\ rcv = Off /\ Ended(inb))
  /\ rcv.pc = "off" => done

(* What receive() returns is what the server sent, in order and without     *)
(* gaps, however the inbox filled up and emptied on the way.                *)
ReceivedInOrder == got = [i \in DOMAIN got |-> i]

(* A frame whose send-start deadline passed while it was queued is never    *)
(* written, and neither is one that was still queued when the caller closed *)
(* the connection.                                                          *)
LateIsNotWritten == \A i \in DOMAIN landed : landed[i] \notin barred

-----------------------------------------------------------------------------
\* Why the properties hold: an inductive invariant, part by part.
Frame == Nat \X BOOLEAN
SenderSteps == {"top", "clear", "get", "waiting", "woken", "draining", "failed", "off"}
Typed ==
  /\ outq \in Seq(Frame) /\ inb \in [q : Seq(Nat), term : {"none", "eof", "late", "closed"}]
  /\ done \in BOOLEAN /\ closed \in BOOLEAN /\ late \in BOOLEAN
  /\ snd = [pc |-> snd.pc, f |-> snd.f] /\ snd.pc \in SenderSteps \cup {"holding", "writing"}
  /\ snd.pc \in {"holding", "writing"} => snd.f \in Frame
  /\ rcv \in [pc : {"reading", "clear", "putting", "waiting", "woken", "off"}, f : Nat]
  /\ caller \in [pc : {"free", "sending", "sendingLimited", "received", "joining", "gone"}, f : Nat]
  /\ peer \in [n : Nat, next : Nat, up : BOOLEAN]
  /\ landed \in Seq(Nat) /\ got \in Seq(Nat) /\ barred \subseteq Nat

(* What was read is handed out, in the inbox, or held by the receiver.      *)
Follows(s, n) == \A i \in 1..Len(s) : s[i] = n + i
ReadInOrder ==
  /\ Follows(got, 0) /\ Follows(inb.q, Len(got))
  /\ rcv.pc \in {"clear", "putting", "waiting", "woken"} =>
       rcv.f = Len(got) + Len(inb.q) + 1 /\ peer.next = Len(got) + Len(inb.q) + 2
  /\ rcv.pc = "reading" => peer.next = Len(got) + Len(inb.q) + 1

(* Frames are written in the order of their numbers, so what is written or  *)
(* held came before what is queued.                                         *)
Holds == snd.pc \in {"holding", "writing"}
QueuedInOrder ==
  /\ \A i, j \in 1..Len(outq) : i < j => outq[i][1] < outq[j][1]
  /\ \A j \in 1..Len(outq) :
       /\ outq[j][1] <= caller.f
       /\ \A i \in 1..Len(landed) : landed[i] < outq[j][1]
       /\ Holds => snd.f[1] < outq[j][1]
  /\ \A i \in 1..Len(landed) : landed[i] <= caller.f
  /\ Holds => snd.f[1] <= caller.f

(* A frame that was barred is still queued or held, and will be refused, or *)
(* is gone.                                                                 *)
Refuses(f) == closed \/ (late /\ f[2])
BarredIsRefused ==
  /\ \A b \in barred : b <= caller.f
  /\ \A j \in 1..Len(outq) : outq[j][1] \in barred => Refuses(outq[j])
  /\ snd.pc = "holding" /\ snd.f[1] \in barred => Refuses(snd.f)
  /\ snd.pc = "writing" => snd.f[1] \notin barred

SocketInv == Typed /\ TypeOK /\ ReadInOrder /\ QueuedInOrder /\ BarredIsRefused /\ LateIsNotWritten

=============================================================================
