---------------------------- MODULE BoundedInbox ----------------------------
(***************************************************************************)
(* codex_inbox.py: a bounded FIFO whose terminal state never takes the     *)
(* place of a message.  Each operator is one critical section of the       *)
(* condition; a thread that waits on it is a guard in the using module.    *)
(* Sizes in bytes are left out: a frame takes one place.                   *)
(***************************************************************************)
EXTENDS Naturals, Sequences

NewInbox == [q |-> << >>, term |-> "none"]

\* try_put: refused by the terminal, else admitted while there is room
Ended(b) == b.term # "none"
HasRoom(b, max) == Len(b.q) < max
PutFirst(b, x) == [b EXCEPT !.q = <<x>> \o @]
Put(b, x) == [b EXCEPT !.q = Append(@, x)]

\* a blocked producer is woken by room and by the end
Puttable(b, max) == Ended(b) \/ HasRoom(b, max)

\* get: messages first, then the terminal
Gettable(b) == b.q # << >>
Exhausted(b) == b.q = << >> /\ Ended(b)
Rest(b) == [b EXCEPT !.q = Tail(@)]

\* finish: the first error stays
Finish(b, e) == IF Ended(b) THEN b ELSE [b EXCEPT !.term = e]
=============================================================================
