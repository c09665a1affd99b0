-------------------------- MODULE IncidentNotices --------------------------
(***************************************************************************)
(* The private incident notices of the Hermes gateway.                     *)
(*                                                                         *)
(* A timer of the gateway polls the incident journal.  Under a file lock   *)
(* it compares the journal with its cursor file, saves the notices that    *)
(* follow from the difference, and sends the ones that are due, each       *)
(* behind a fence: the attempt is written before the request, and an       *)
(* attempt whose outcome is not proven is never sent again.  The owner's   *)
(* Hide button marks an episode in the same file.                          *)
(*                                                                         *)
(* The journal is the environment: episodes open, are closed and leave it  *)
(* (IncidentMonitor), and the file may be old or unreadable.  Episode ids  *)
(* are numbers; a notice is its text kind and its members.                 *)
(***************************************************************************)
EXTENDS Naturals, Sequences, FiniteSets
LOCAL INSTANCE SequencesExt

CONSTANTS Gates,         \* gateway processes that may meet at the cursor
          Ids,           \* episode ids
          Past,          \* what the journal may hold of them when the cursor is seeded
          Leaves,        \* episodes may leave the bounded journal
          max_cards,     \* attempts in a window
          MAX_DELIVERIES,\* rows of the cursor (128 in the code)
          MaxAttempts,   \* proven rejections of one notice (3 in the code)
          MaxFlaps,      \* changes of the journal's readability and age
          MaxFaults,     \* dead gateways, failed writes and lost answers
          Retires        \* the configuration may change

Bounds == /\ Past \subseteq {"none", "open", "resolved"}
                 /\ Ids \subseteq Nat \ {0} /\ IsFiniteSet(Ids)
                 /\ max_cards \in Nat \ {0} /\ MAX_DELIVERIES \in Nat \ {0}

VARIABLES episode, \* in the journal: none, open, resolved or gone
          file,    \* the journal file: fresh, stale or down
          cursor,  \* the cursor file
          lock,    \* holder of the cursor's lock, a set of at most one
          gate,    \* a gateway's step and the value it carries
          retired, \* the configuration has changed
          flaps, faults,
          chat,    \* requests with this token that reached the chat
          told,    \* ids that were a member of some saved notice
          history, \* ids already closed when the cursor was seeded
          burst    \* requests since the cursor's window began

env == <<episode, file, flaps>>
ghosts == <<told, history>>
vars == <<episode, file, cursor, lock, gate, retired, flaps, faults, chat, told, history, burst>>

\* Enough for the rows of the file and the ones a poll adds.
Tokens == 1 .. 2 * MAX_DELIVERIES + Cardinality(Ids) + 2
Unseen == [known |-> FALSE, resolved |-> FALSE, hidden |-> FALSE]
EmptyCursor == [boot |-> FALSE, quiet |-> FALSE, used |-> 0, old |-> FALSE, full |-> FALSE,
                seen |-> [i \in Ids |-> Unseen], rows |-> << >>]
Resting == [ph |-> "idle", value |-> EmptyCursor, todo |-> {}, row |-> 0]

Init ==
  /\ episode \in [Ids -> Past] /\ file = "fresh"
  /\ cursor = EmptyCursor
  /\ lock = {} /\ gate = [g \in Gates |-> Resting] /\ retired = FALSE
  /\ flaps = 0 /\ faults = 0
  /\ chat = [t \in Tokens |-> 0] /\ told = {} /\ history = {} /\ burst = 0

Pending(r) == r.st = "pending"
----------------------------------------------------------------------------
\* The journal, the window and the deadlines of proven rejections.  Only the
\* start of a tick reads them, so they change between ticks: what changes during
\* one is noticed by the next.

Between == lock = {}

Episode(i) ==
  /\ Between
  /\ \/ episode[i] = "none" /\ episode' = [episode EXCEPT ![i] = "open"]
     \/ episode[i] = "open" /\ episode' = [episode EXCEPT ![i] = "resolved"]
     \/ Leaves /\ episode[i] \in {"open", "resolved"} /\ episode' = [episode EXCEPT ![i] = "gone"]
  /\ UNCHANGED <<file, cursor, lock, gate, retired, flaps, faults, chat, ghosts, burst>>

FileChanges ==
  /\ Between /\ flaps < MaxFlaps /\ flaps' = flaps + 1
  /\ file' \in {"fresh", "stale", "down"} \ {file}
  /\ UNCHANGED <<episode, cursor, lock, gate, retired, faults, chat, ghosts, burst>>

WindowPasses_never == FALSE /\ UNCHANGED vars
\* The window of the saved start has passed.
WindowPasses ==
  /\ Between /\ cursor.used > 0 /\ ~cursor.old
  /\ cursor' = [cursor EXCEPT !.old = TRUE]
  /\ UNCHANGED <<env, lock, gate, retired, faults, chat, ghosts, burst>>

\* retry_at of a rejected notice is reached.
RetryDue(n) ==
  /\ Between /\ n \in DOMAIN cursor.rows /\ ~cursor.rows[n].due
  /\ cursor' = [cursor EXCEPT !.rows[n].due = TRUE]
  /\ UNCHANGED <<env, lock, gate, retired, faults, chat, ghosts, burst>>

ConfigChanges ==
  /\ Retires /\ ~retired /\ retired' = TRUE
  /\ UNCHANGED <<env, cursor, lock, gate, faults, chat, ghosts, burst>>
----------------------------------------------------------------------------
\* What a poll of the journal adds to the cursor.

Without(q, n) == SubSeq(q, 1, n - 1) \o SubSeq(q, n + 1, Len(q))

\* Only proven sent rows may go.
Evictable(r) == r.st = "sent"

\* fit_deliveries: the oldest proven row leaves, or the projection is refused.
Fit(v) ==
  LET sent == {n \in DOMAIN v.rows : Evictable(v.rows[n])}
  IN  IF Len(v.rows) <= MAX_DELIVERIES THEN v
      ELSE IF sent = {} THEN [v EXCEPT !.full = TRUE]
      ELSE [v EXCEPT !.rows = Without(@, CHOOSE n \in sent : \A m \in sent : n <= m)]

\* A token neither the file nor the new rows have (a UUID in the code).
TokensOf(v) == {v.rows[n].tok : n \in DOMAIN v.rows}
Fresh(v) == CHOOSE t \in Tokens : /\ t \notin TokensOf(v) \cup TokensOf(cursor)
                                  /\ \A u \in 1 .. t - 1 : u \in TokensOf(v) \cup TokensOf(cursor)

\* A health notice replaces the ones of its kind that were never attempted.
Enqueue(v, text, members) ==
  LET keeps(r) == ~(text = "health" /\ r.text = "health" /\ Pending(r) /\ r.att = 0)
      new == [tok |-> Fresh(v), text |-> text, members |-> members, st |-> "pending",
              att |-> 0, due |-> TRUE]
  IN  Fit([v EXCEPT !.rows = Append(SelectSeq(@, keeps), new)])

Health(v, quiet) ==
  LET told1 == IF quiet # v.quiet THEN Enqueue(v, "health", {}) ELSE v
  IN  [told1 EXCEPT !.quiet = quiet]

Listed(i) == episode[i] \in {"open", "resolved"}
New(v) == {i \in Ids : Listed(i) /\ ~v.seen[i].known}

\* Closures the owner has not hidden.
Closed(v) == {i \in Ids : /\ episode[i] = "resolved" /\ v.seen[i].known
                          /\ ~v.seen[i].resolved /\ ~v.seen[i].hidden}

\* The changes in journal order; the first poll reports only what is open.
Changes(v) ==
  IF ~v.boot THEN << [text |-> "summary", members |-> {i \in Ids : episode[i] = "open"}] >>
  ELSE [n \in 1 .. Cardinality(New(v) \cup Closed(v)) |->
          LET i == SetToSortSeq(New(v) \cup Closed(v), <)[n]
          IN  [text |-> IF i \in New(v) THEN "card" ELSE "close", members |-> {i}]]

Deferred_all(r) == Pending(r) /\ r.text # "health"
\* Only what was never attempted may be merged into a summary.
Deferred(r) == Pending(r) /\ r.att = 0 /\ r.text # "health"

Announce(v) ==
  LET changes == Changes(v)
      waits == SelectSeq(v.rows, Deferred)
      members == UNION ({waits[n].members : n \in DOMAIN waits} \cup
                        {changes[n].members : n \in DOMAIN changes})
      keeps(r) == ~Deferred(r)
      add(w, c) == Enqueue(w, c.text, c.members)
  IN  IF changes # << >> /\ Len(changes) + Len(waits) + v.used > max_cards
      THEN Enqueue([v EXCEPT !.rows = SelectSeq(@, keeps)], "summary", members)
      ELSE FoldLeft(add, v, changes)

Seen(v) == [i \in Ids |-> IF ~Listed(i) THEN Unseen
                          ELSE [known |-> TRUE, resolved |-> episode[i] = "resolved",
                                hidden |-> v.seen[i].hidden]]

Project(v) ==
  IF file = "down" THEN Health(v, TRUE)
  ELSE LET healthy == Health(v, file = "stale")
       IN  [Announce(healthy) EXCEPT !.boot = TRUE, !.seen = Seen(v)]
----------------------------------------------------------------------------
\* A tick: projection, then one fenced request after another.

Fenced_pending(r) == IF r.st = "attempted" THEN [r EXCEPT !.st = "pending"] ELSE r
\* What an earlier process attempted without recording an outcome.
Fenced(r) == IF r.st = "attempted" THEN [r EXCEPT !.st = "unknown"] ELSE r

Saved_seen(candidate) ==
  IF candidate.full THEN [cursor EXCEPT !.boot = TRUE, !.seen = candidate.seen] ELSE candidate
\* A refused projection is not written and advances nothing.
Saved(candidate) == IF candidate.full THEN cursor ELSE candidate

Free(g) == lock = {}

\* Lock, read, project and write.  After a refused projection what is already
\* saved may still be sent.
Prepare(g) ==
  /\ gate[g].ph = "idle" /\ ~retired /\ Free(g)
  /\ \E value \in {[cursor EXCEPT !.rows = [n \in DOMAIN @ |-> Fenced(@[n])],
                                  !.used = IF cursor.old THEN 0 ELSE @, !.old = FALSE]} :
     \E candidate \in {Project(value)} :
     \E next \in {IF candidate.full THEN value ELSE candidate} :
       /\ cursor' = Saved(candidate)
       /\ gate' = [gate EXCEPT ![g] = [ph |-> "ready", value |-> next, row |-> 0,
                                       todo |-> TokensOf(next)]]
  /\ told' = told \cup UNION {cursor'.rows[n].members : n \in DOMAIN cursor'.rows}
  /\ history' = IF cursor.boot = cursor'.boot THEN history
                ELSE {i \in Ids : episode[i] = "resolved"}
  /\ lock' = lock \cup {g}
  /\ burst' = IF cursor.old THEN 0 ELSE burst
  /\ chat' = [t \in Tokens |-> IF t \in TokensOf(cursor) THEN chat[t] ELSE 0]
  /\ UNCHANGED <<env, retired, faults>>

Rows(g) == gate[g].value.rows
Due(g) == {n \in DOMAIN Rows(g) : /\ Rows(g)[n].tok \in gate[g].todo
                                  /\ Pending(Rows(g)[n]) /\ Rows(g)[n].due}
First(S) == CHOOSE n \in S : \A m \in S : n <= m

Write_memory(v) == cursor' = [v EXCEPT !.used = cursor.used]
Write(v) == cursor' = v

\* The attempt is counted and written before the request.
Fence(g) ==
  /\ gate[g].ph = "ready" /\ Due(g) # {} /\ gate[g].value.used < max_cards
  /\ LET n == First(Due(g))
         v == [gate[g].value EXCEPT !.rows[n].st = "attempted", !.rows[n].att = @ + 1,
                                    !.used = @ + 1]
     IN  /\ Write(v)
         /\ gate' = [gate EXCEPT ![g].ph = "fenced", ![g].value = v, ![g].row = n,
                                 ![g].todo = @ \ {v.rows[n].tok}]
  /\ UNCHANGED <<env, lock, retired, faults, chat, ghosts, burst>>

Land(t) == chat' = [chat EXCEPT ![t] = IF @ < 2 THEN @ + 1 ELSE @]

\* The request and its outcome, still in memory.
Request(g) ==
  /\ gate[g].ph = "fenced"
  /\ LET r == Rows(g)[gate[g].row]
         ends(st, due) ==
           gate' = [gate EXCEPT ![g].ph = "settled",
                      ![g].value.rows[gate[g].row].st = st,
                      ![g].value.rows[gate[g].row].due = due]
     IN  \/ ~retired /\ Land(r.tok) /\ ends("sent", TRUE) /\ faults' = faults
         \* a proven rejection, retried after its deadline
         \/ /\ ~retired /\ chat' = chat /\ faults' = faults
            /\ IF r.att < MaxAttempts THEN ends("pending", FALSE) ELSE ends("rejected", TRUE)
         \* a timeout, an SDK error, a bad receipt: the request may have landed
         \/ /\ ~retired /\ faults < MaxFaults /\ faults' = faults + 1
            /\ Land(r.tok) \/ chat' = chat
            /\ ends("unknown", TRUE)
         \* the configuration has changed: no request, the fence stays
         \/ retired /\ chat' = chat /\ faults' = faults /\ ends("unknown", TRUE)
  /\ burst' = burst + 1
  /\ UNCHANGED <<env, cursor, lock, retired, ghosts>>

\* The outcome is written and the loop goes on.
Record(g) ==
  /\ gate[g].ph = "settled"
  /\ Write(gate[g].value)
  /\ gate' = [gate EXCEPT ![g].ph = "ready"]
  /\ UNCHANGED <<env, lock, retired, faults, chat, ghosts, burst>>

Ends_locked(g) == gate' = [gate EXCEPT ![g] = Resting] /\ lock' = lock
Ends(g) == gate' = [gate EXCEPT ![g] = Resting] /\ lock' = lock \ {g}

EndTick(g) ==
  /\ gate[g].ph = "ready" /\ (Due(g) = {} \/ gate[g].value.used >= max_cards)
  /\ Ends(g)
  /\ UNCHANGED <<env, cursor, retired, faults, chat, ghosts, burst>>

\* A write fails, or the gateway dies: what was not written is lost.
Die(g) ==
  /\ gate[g].ph # "idle" /\ faults < MaxFaults
  /\ faults' = faults + 1
  /\ Ends(g)
  /\ UNCHANGED <<env, cursor, retired, chat, ghosts, burst>>

Hides_unlocked == TRUE
Hides == lock = {}
\* The owner hides the episodes of a receipted notice with an open member.
Dismiss(n) ==
  /\ n \in DOMAIN cursor.rows /\ cursor.rows[n].st = "sent" /\ ~retired /\ Hides
  /\ LET ms == cursor.rows[n].members
     IN  /\ \E i \in ms : cursor.seen[i].known /\ ~cursor.seen[i].resolved
         /\ cursor' = [cursor EXCEPT !.seen = [i \in Ids |->
                         IF i \in ms /\ @[i].known THEN [@[i] EXCEPT !.hidden = TRUE] ELSE @[i]]]
  /\ UNCHANGED <<env, lock, gate, retired, faults, chat, ghosts, burst>>

Tick(g) == Prepare(g) \/ Fence(g) \/ Request(g) \/ Record(g) \/ EndTick(g)

Next ==
  \/ \E i \in Ids : Episode(i)
  \/ FileChanges \/ WindowPasses \/ ConfigChanges
  \/ \E n \in 1 .. MAX_DELIVERIES : RetryDue(n) \/ Dismiss(n)
  \/ \E g \in Gates : Tick(g) \/ Die(g)

Spec == Init /\ [][Next]_vars

----------------------------------------------------------------------------
\* Properties.

States == {"pending", "attempted", "sent", "unknown", "rejected"}

\* Every variable has its type, and the cursor is one that _validate accepts.
TypeOK ==
  /\ file \in {"fresh", "stale", "down"}
  /\ lock = {g \in Gates : gate[g].ph # "idle"} /\ Cardinality(lock) <= 1
  /\ cursor.used \in 0 .. max_cards /\ Len(cursor.rows) <= MAX_DELIVERIES /\ ~cursor.full
  /\ \A n \in DOMAIN cursor.rows :
       LET r == cursor.rows[n]
       IN  /\ r.st \in States /\ r.tok \in Tokens /\ r.att \in 0 .. MaxAttempts
           /\ r.st # "pending" => r.att > 0
           /\ r.st = "pending" => r.att < MaxAttempts
           /\ r.st = "rejected" => r.att = MaxAttempts
  /\ \A i \in Ids : cursor.seen[i].hidden => cursor.seen[i].known

\* No notice reaches the owner twice: an attempt is repeated only when it was
\* proven rejected, across deaths, failed writes and gateways that meet.
SentOnce == \A t \in Tokens : chat[t] <= 1

\* A notice that was ever attempted keeps its row and its members until it is
\* proven sent: neither a storm's summary nor the bound erases the evidence.
EvidenceIsKept ==
    \A n \in DOMAIN cursor.rows :
      cursor.rows[n].att > 0 /\ cursor.rows[n].st # "sent" =>
        \E m \in DOMAIN cursor'.rows :
          /\ cursor'.rows[m].tok = cursor.rows[n].tok
          /\ cursor'.rows[m].members = cursor.rows[n].members

\* An episode the cursor has taken note of was a member of some saved notice,
\* unless it was over before the cursor was seeded.
NotedIsTold == \A i \in Ids : cursor.seen[i].known => i \in told \cup history

\* No window sees more requests than it allows, whoever dies in between.
BurstIsBounded == burst <= max_cards

\* What the owner has hidden stays hidden, and its closure is not announced.
HiddenStaysQuiet ==
    \A i \in Ids : cursor.seen[i].hidden =>
      /\ cursor'.seen[i].known => cursor'.seen[i].hidden
      /\ \A m \in DOMAIN cursor'.rows :
           cursor'.rows[m].text = "close" /\ i \in cursor'.rows[m].members =>
             cursor'.rows[m].tok \in TokensOf(cursor)

=============================================================================
