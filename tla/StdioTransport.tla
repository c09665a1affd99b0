--------------------------- MODULE StdioTransport ---------------------------
(***************************************************************************)
(* StdioJsonLineTransport (codex_transports.py): the caller, a writer      *)
(* thread and a reader thread around a codex process that the hub owns.    *)
(* Frames are numbered; the process reads its stdin and writes its stdout  *)
(* through pipes of limited size, so each side may block on the other.     *)
(* The stdin may break on its own while the stdout still has a tail.       *)
(***************************************************************************)
EXTENDS BoundedInbox, SequencesExt

CONSTANTS MaxOut,   \* the outbound inbox (the code has 16 frames)
          MaxIn,    \* the inbound inbox (the code has 1024 frames)
          PipeSize, \* bound: frames a pipe holds
          MaxSends, \* bound: frames the caller sends
          MaxLines  \* bound: frames the process writes

ConstAssumption == {MaxOut, MaxIn, PipeSize, MaxSends, MaxLines} \subseteq Nat

VARIABLES out, inb,      \* the two inboxes
          first,         \* _first_error: "none", "eof", "write" or "closed"
          wfail,         \* _writer_failure
          closed,        \* _closed
          writer,        \* writer thread: [pc, f]
          reader,        \* reader thread: [pc, f]
          caller,        \* "free", "receiving", "closing" or "gone"
          proc,          \* the process: [alive, stdin, stdout]
          pipeIn, pipeOut,
          sent, got,     \* history: frames admitted by send(), frames the process read
          wrote, rcvd,   \* history: frames the process wrote, frames receive() returned
          told           \* the error receive() raised last

vars == <<out, inb, first, wfail, closed, writer, reader, caller, proc, pipeIn, pipeOut,
          sent, got, wrote, rcvd, told>>

Init ==
  /\ out = NewInbox /\ inb = NewInbox /\ first = "none" /\ wfail = FALSE /\ closed = FALSE
  /\ writer = [pc |-> "get", f |-> 0] /\ reader = [pc |-> "read", f |-> 0]
  /\ caller = "free" /\ proc = [alive |-> TRUE, stdin |-> TRUE, stdout |-> TRUE]
  /\ pipeIn = << >> /\ pipeOut = << >> /\ sent = 0 /\ got = << >> /\ wrote = 0 /\ rcvd = << >> /\ told = "none"

ForgetsWriteError(e, writerFailed) ==
  LET r == IF first = "none" THEN e ELSE first
  IN /\ first' = IF writerFailed THEN first ELSE r
     /\ wfail' = (wfail \/ (writerFailed /\ ~closed))
     /\ inb' = IF writerFailed THEN inb ELSE Finish(inb, r)
     /\ out' = Finish(out, r)
EndsBoth(e, writerFailed) ==
  LET r == IF first = "none" THEN e ELSE first
  IN /\ first' = r
     /\ wfail' = (wfail \/ (writerFailed /\ ~closed))
     /\ inb' = Finish(inb, r) /\ out' = Finish(out, r)
\* _finish: a broken stdin does not terminate stdout
FinishWith(e, writerFailed) ==
  LET r == IF first = "none" THEN e ELSE first
  IN /\ first' = r
     /\ wfail' = (wfail \/ (writerFailed /\ ~closed))
     /\ inb' = IF writerFailed THEN inb ELSE Finish(inb, r)
     /\ out' = Finish(out, r)

-----------------------------------------------------------------------------
\* The writer thread.

WriterGets ==
  /\ writer.pc = "get"
  /\ \/ /\ Gettable(out)
        /\ writer' = [pc |-> "check", f |-> Head(out.q)] /\ out' = Rest(out)
        /\ UNCHANGED <<first, wfail, inb>>
     \/ /\ Exhausted(out)
        /\ writer' = [pc |-> "done", f |-> 0] /\ FinishWith(out.term, FALSE)
  /\ UNCHANGED <<closed, reader, caller, proc, pipeIn, pipeOut, sent, got, wrote, rcvd, told>>

\* nothing is written once an error is recorded
SkipsCheck == writer' = [writer EXCEPT !.pc = "write"]
WriterChecks == writer' = IF closed \/ first # "none" THEN [pc |-> "done", f |-> 0]
                          ELSE [writer EXCEPT !.pc = "write"]
WriterLooks ==
  /\ writer.pc = "check" /\ WriterChecks
  /\ UNCHANGED <<out, inb, first, wfail, closed, reader, caller, proc, pipeIn, pipeOut, sent, got, wrote, rcvd, told>>

WriterWrites ==
  /\ writer.pc = "write"
  /\ \/ /\ proc.stdin /\ Len(pipeIn) < PipeSize
        /\ pipeIn' = Append(pipeIn, writer.f) /\ writer' = [pc |-> "get", f |-> 0]
        /\ UNCHANGED <<out, inb, first, wfail>>
     \/ /\ ~proc.stdin
        /\ writer' = [pc |-> "done", f |-> 0] /\ FinishWith("write", TRUE) /\ UNCHANGED pipeIn
  /\ UNCHANGED <<closed, reader, caller, proc, pipeOut, sent, got, wrote, rcvd, told>>

-----------------------------------------------------------------------------
\* The reader thread.

ReaderReads ==
  /\ reader.pc = "read"
  /\ \/ /\ pipeOut # << >>
        /\ reader' = [pc |-> "put", f |-> Head(pipeOut)] /\ pipeOut' = Tail(pipeOut)
        /\ UNCHANGED <<out, inb, first, wfail>>
     \/ /\ pipeOut = << >> /\ ~proc.stdout
        /\ reader' = [pc |-> "done", f |-> 0] /\ FinishWith("eof", FALSE) /\ UNCHANGED pipeOut
  /\ UNCHANGED <<closed, writer, caller, proc, pipeIn, sent, got, wrote, rcvd, told>>

OnlyRoom(b, max) == HasRoom(b, max)
Wakes(b, max) == Puttable(b, max)

ReaderPuts ==
  /\ reader.pc = "put" /\ Wakes(inb, MaxIn)
  /\ IF Ended(inb)
     THEN reader' = [pc |-> "done", f |-> 0] /\ FinishWith(inb.term, FALSE)
     ELSE /\ inb' = Put(inb, reader.f) /\ reader' = [pc |-> "read", f |-> 0]
          /\ UNCHANGED <<out, first, wfail>>
  /\ UNCHANGED <<closed, writer, caller, proc, pipeIn, pipeOut, sent, got, wrote, rcvd, told>>

-----------------------------------------------------------------------------
\* The caller.

\* send: admission only, never blocking; a full or finished outbox raises
Send ==
  /\ caller = "free" /\ ~closed /\ first = "none" /\ HasRoom(out, MaxOut) /\ sent < MaxSends
  /\ out' = Put(out, sent + 1) /\ sent' = sent + 1
  /\ UNCHANGED <<inb, first, wfail, closed, writer, reader, caller, proc, pipeIn, pipeOut, got, wrote, rcvd, told>>

Receive ==
  /\ caller = "free" /\ told = "none" /\ caller' = "receiving"
  /\ UNCHANGED <<out, inb, first, wfail, closed, writer, reader, proc, pipeIn, pipeOut, sent, got, wrote, rcvd, told>>

\* a frame, the recorded terminal, or the caller's time limit
Received ==
  /\ caller = "receiving" /\ caller' = "free"
  /\ \/ /\ Gettable(inb) /\ rcvd' = Append(rcvd, Head(inb.q)) /\ inb' = Rest(inb) /\ UNCHANGED told
     \/ /\ Exhausted(inb) /\ told' = inb.term /\ UNCHANGED <<inb, rcvd>>
     \/ /\ ~Gettable(inb) /\ ~Exhausted(inb) /\ UNCHANGED <<inb, rcvd, told>>
  /\ UNCHANGED <<out, first, wfail, closed, writer, reader, proc, pipeIn, pipeOut, sent, got, wrote>>

\* close, by the caller or by a controlling thread: record, then stop the process
Close ==
  /\ ~closed /\ closed' = TRUE /\ caller' = "closing"
  /\ first' = IF first = "none" THEN "closed" ELSE first
  /\ inb' = Finish(inb, first') /\ out' = Finish(out, first')
  /\ UNCHANGED <<wfail, writer, reader, proc, pipeIn, pipeOut, sent, got, wrote, rcvd, told>>

\* terminate, and kill when that takes too long
StopProcess ==
  /\ caller = "closing" /\ proc.alive
  /\ proc' = [alive |-> FALSE, stdin |-> FALSE, stdout |-> FALSE]
  /\ UNCHANGED <<out, inb, first, wfail, closed, writer, reader, caller, pipeIn, pipeOut, sent, got, wrote, rcvd, told>>

\* both joins are limited; a stream is closed only when its thread has ended
Closed ==
  /\ caller = "closing" /\ ~proc.alive /\ caller' = "gone"
  /\ UNCHANGED <<out, inb, first, wfail, closed, writer, reader, proc, pipeIn, pipeOut, sent, got, wrote, rcvd, told>>

-----------------------------------------------------------------------------
\* The process.  It is external.

ProcReads ==
  /\ proc.alive /\ proc.stdin /\ pipeIn # << >>
  /\ got' = Append(got, Head(pipeIn)) /\ pipeIn' = Tail(pipeIn)
  /\ UNCHANGED <<out, inb, first, wfail, closed, writer, reader, caller, proc, pipeOut, sent, wrote, rcvd, told>>

ProcWrites ==
  /\ proc.alive /\ proc.stdout /\ wrote < MaxLines /\ Len(pipeOut) < PipeSize
  /\ wrote' = wrote + 1 /\ pipeOut' = Append(pipeOut, wrote + 1)
  /\ UNCHANGED <<out, inb, first, wfail, closed, writer, reader, caller, proc, pipeIn, sent, got, rcvd, told>>

\* stdin breaks, or the process ends and leaves its output behind
ProcBreaks ==
  /\ proc.alive
  /\ \/ proc.stdin /\ proc' = [proc EXCEPT !.stdin = FALSE]
     \/ proc' = [alive |-> FALSE, stdin |-> FALSE, stdout |-> FALSE]
  /\ UNCHANGED <<out, inb, first, wfail, closed, writer, reader, caller, pipeIn, pipeOut, sent, got, wrote, rcvd, told>>

Writer == WriterGets \/ WriterLooks \/ WriterWrites
Reader == ReaderReads \/ ReaderPuts
Next == \/ Writer \/ Reader
        \/ Send \/ Receive \/ Received \/ Close \/ StopProcess \/ Closed
        \/ ProcReads \/ ProcWrites \/ ProcBreaks

Spec == Init /\ [][Next]_vars

-----------------------------------------------------------------------------
\* Properties.

(* The inboxes keep their bounds and the recorded failures agree: a writer  *)
(* failure is only ever recorded together with a first error.               *)
TypeOK ==
  /\ Len(out.q) <= MaxOut /\ Len(inb.q) <= MaxIn
  /\ {first, out.term, inb.term, told} \subseteq {"none", "eof", "write", "closed"}
  /\ (wfail \/ Ended(out) \/ Ended(inb)) => first # "none"

(* The end of the stream is told only after every line that the process     *)
(* wrote was handed out, also when its stdin broke first; closing is the    *)
(* one exception.                                                           *)
TailIsRead == (told # "none" /\ ~closed) => Len(rcvd) = wrote

(* Frames reach the process, and lines reach the caller, in the order they  *)
(* were admitted, without gaps or repetitions, whatever fails in between.   *)
KeptInOrder == /\ got = [i \in DOMAIN got |-> i] /\ Len(got) <= sent
               /\ rcvd = [i \in DOMAIN rcvd |-> i]

Landed == Len(got) + Len(pipeIn) + (IF writer.pc = "write" THEN 1 ELSE 0)

(* Once a failure or the close is recorded, a frame that was only admitted  *)
(* is not written any more: at most the write under way still lands.        *)
NoWriteAfterFailure ==
    first # "none" => Landed' <= Landed

-----------------------------------------------------------------------------
\* Why the properties hold: an inductive invariant, part by part.
Ends == {"none", "eof", "write", "closed"}
Inboxes == [q : Seq(Nat), term : Ends]
Typed ==
  /\ out \in Inboxes /\ inb \in Inboxes /\ first \in Ends /\ told \in Ends
  /\ wfail \in BOOLEAN /\ closed \in BOOLEAN
  /\ writer \in [pc : {"get", "check", "write", "done"}, f : Nat]
  /\ reader \in [pc : {"read", "put", "done"}, f : Nat]
  /\ proc \in [alive : BOOLEAN, stdin : BOOLEAN, stdout : BOOLEAN]
  /\ pipeIn \in Seq(Nat) /\ pipeOut \in Seq(Nat) /\ got \in Seq(Nat) /\ rcvd \in Seq(Nat)
  /\ sent \in Nat /\ wrote \in Nat

(* s is the part of a stream of numbered frames that follows its first n.   *)
Follows(s, n) == \A i \in 1..Len(s) : s[i] = n + i
Held(t) == IF t.pc \in {"check", "write", "put"} THEN 1 ELSE 0

(* From the caller to the process: read, in the pipe, held, admitted.       *)
SentInOrder ==
  /\ Follows(got, 0) /\ Follows(pipeIn, Len(got)) /\ Len(got) + Len(pipeIn) + Held(writer) <= sent
  /\ Held(writer) = 1 => writer.f = Len(got) + Len(pipeIn) + 1
  /\ writer.pc # "done" =>
       /\ Follows(out.q, Len(got) + Len(pipeIn) + Held(writer))
       /\ Len(got) + Len(pipeIn) + Held(writer) + Len(out.q) = sent

(* From the process to the caller: handed out, in the inbox, held, in the   *)
(* pipe; a reader that has ended leaves what it did not put.                *)
ReadInOrder ==
  /\ Follows(rcvd, 0) /\ Follows(inb.q, Len(rcvd))
  /\ reader.pc = "put" => reader.f = Len(rcvd) + Len(inb.q) + 1
  /\ reader.pc # "done" =>
       /\ Follows(pipeOut, Len(rcvd) + Len(inb.q) + Held(reader))
       /\ Len(rcvd) + Len(inb.q) + Held(reader) + Len(pipeOut) = wrote

(* An end that was recorded without a close is the end of stdout.           *)
EndIsReal ==
  /\ reader.pc = "done" => Ended(inb)
  /\ Ended(out) => Ended(inb) \/ writer.pc = "done"
  /\ Ended(inb) /\ ~closed =>
       reader.pc = "done" /\ ~proc.stdout /\ Len(rcvd) + Len(inb.q) = wrote
  /\ told # "none" /\ ~closed => Ended(inb) /\ inb.q = << >>

StdioInv == Typed /\ TypeOK /\ SentInOrder /\ ReadInOrder /\ EndIsReal

=============================================================================
