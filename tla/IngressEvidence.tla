--------------------------- MODULE IngressEvidence ---------------------------
(***************************************************************************)
(* Evidence that the owner can still reach a running turn through Telegram. *)
(* Controller processes record the outcome of their polls in one fenced     *)
(* ledger row and its watermark; for every accepted turn the worker's       *)
(* observer assesses that evidence and keeps an outage episode with a       *)
(* deadline, after which the turn may be interrupted as a precaution.       *)
(* Time is an integer clock; a process uses a time it sampled up to Lag     *)
(* earlier, so transactions commit out of clock order.                      *)
(***************************************************************************)
EXTENDS Naturals, FiniteSets, FiniteSetsExt

CONSTANTS
    Instances,     \* controller processes, each starts once
    Jobs,          \* accepted turns with a Telegram target
    Fresh,         \* a poll is recent for 60 seconds
    Grace,         \* a silent ingress is due after 120 more
    FailGrace,     \* failing polls are due after 30
    FailureLimit,  \* consecutive failures that open an episode: 3
    Lag,           \* how old a sampled time may be when it is used
    MaxClock, MaxPolls  \* bounds on time and on polls per process

EvidenceAssumption ==
    /\ {Fresh, Grace, FailGrace, Lag} \subseteq Nat
    /\ {FailureLimit, MaxClock, MaxPolls} \subseteq Nat \ {0}

VARIABLES
    clock,
    inst,      \* ControllerIngressPolls of each process
    ledger,    \* telegram_group_ingress
    mark,      \* telegram_ingress_watermarks
    accepted,  \* codex_turn_controls.accepted_at, 0 before acceptance
    row,       \* codex_telegram_ingress_assessments
    good       \* history: recorded polls, and which of them succeeded last

vars == <<clock, inst, ledger, mark, accepted, row, good>>

Absent == 0                 \* a NULL time; the clock starts at 1
NoCursor == <<0, 0>>        \* a NULL cursor; epochs start at 1
Before(a, b) == a[1] < b[1] \/ (a[1] = b[1] /\ a[2] < b[2])
AtMost(a, b) == a = b \/ Before(a, b)
Later(a, b) == Max({a, b})

NoCause == [reason |-> "none", since |-> Absent, deadline |-> Absent,
            recovery |-> Absent, cutoff |-> NoCursor, source |-> NoCursor]
NoLedger == [epoch |-> 0, token |-> "none", registered |-> Absent, seq |-> 0,
             polled |-> Absent, ok |-> FALSE, success |-> Absent,
             confirmed |-> Absent, streak |-> 0, threshold |-> Absent]

Init ==
    /\ clock = 1
    /\ inst = [i \in Instances |-> [phase |-> "new", prev |-> 0, epoch |-> 0, seq |-> 0]]
    /\ ledger = NoLedger
    /\ mark = [success |-> NoCursor, at |-> Absent, failure |-> NoCursor, threshold |-> Absent]
    /\ accepted = [j \in Jobs |-> Absent]
    /\ row = [j \in Jobs |-> [at |-> Absent, read |-> NoCursor, confirmed |-> Absent,
                              recent |-> FALSE, generation |-> 0, cause |-> NoCause]]
    /\ good = [polls |-> 0, last |-> 0, opened |-> [j \in Jobs |-> 0]]

Tick ==
    /\ clock < MaxClock
    /\ clock' = clock + 1
    /\ UNCHANGED <<inst, ledger, mark, accepted, row, good>>

Sampled == {t \in 1..clock : clock <= t + Lag}
Cursor == <<ledger.epoch, ledger.seq>>
Heartbeat == IF ledger.polled = Absent THEN ledger.registered ELSE ledger.polled

(***************************************************************************)
(* The controller: one captured epoch, one compare-and-set, then polls      *)
(***************************************************************************)

Capture(i) ==
    /\ inst[i].phase = "new"
    /\ inst' = [inst EXCEPT ![i].phase = "pending", ![i].prev = ledger.epoch]
    /\ UNCHANGED <<clock, ledger, mark, accepted, row, good>>

(* A clock behind the ledger leaves the registration pending; a changed      *)
(* epoch retires the process for good.                                       *)
RegisterAnyway(i, t) ==
    /\ inst[i].phase = "pending" /\ t >= Heartbeat
    /\ ledger' = [NoLedger EXCEPT !.epoch = inst[i].prev + 1, !.token = i, !.registered = t,
                                  !.confirmed = ledger.confirmed]
    /\ inst' = [inst EXCEPT ![i].phase = "owner", ![i].epoch = inst[i].prev + 1]
    /\ UNCHANGED <<clock, mark, accepted, row, good>>
Register(i, t) ==
    /\ inst[i].phase = "pending"
    /\ \/ /\ ledger.epoch # inst[i].prev
          /\ inst' = [inst EXCEPT ![i].phase = "retired"]
          /\ UNCHANGED ledger
       \/ /\ ledger.epoch = inst[i].prev /\ t >= Heartbeat
          /\ ledger' = [NoLedger EXCEPT !.epoch = inst[i].prev + 1, !.token = i,
                                        !.registered = t, !.confirmed = ledger.confirmed]
          /\ inst' = [inst EXCEPT ![i].phase = "owner", ![i].epoch = inst[i].prev + 1]
    /\ UNCHANGED <<clock, mark, accepted, row, good>>

(* The poll is counted even when it cannot be written: the gap breaks the    *)
(* consecutiveness of failures.                                              *)
LosePoll(i) ==
    /\ inst[i].phase \in {"pending", "owner"} /\ inst[i].seq < MaxPolls
    /\ inst' = [inst EXCEPT ![i].seq = @ + 1]
    /\ UNCHANGED <<clock, ledger, mark, accepted, row, good>>

Streak(n, ok) ==
    IF ok THEN 0 ELSE IF n = ledger.seq + 1 THEN ledger.streak + 1 ELSE 1
Threshold(streak, t) ==
    IF streak < FailureLimit THEN Absent
    ELSE IF ledger.threshold = Absent THEN t ELSE ledger.threshold

(* A success clears the failure witness; a failure past the limit is         *)
(* witnessed once.                                                           *)
MarkedBeside(cursor, ok, t, threshold) ==
    IF ok THEN [mark EXCEPT !.success = cursor, !.at = t]
    ELSE IF mark.failure = NoCursor /\ threshold # Absent
    THEN [mark EXCEPT !.failure = cursor, !.threshold = threshold]
    ELSE mark
Marked(cursor, ok, t, threshold) ==
    IF ok THEN [success |-> cursor, at |-> t, failure |-> NoCursor, threshold |-> Absent]
    ELSE IF mark.failure = NoCursor /\ threshold # Absent
    THEN [mark EXCEPT !.failure = cursor, !.threshold = threshold]
    ELSE mark

RecordPoll(i, ok, t) ==
    LET n == inst[i].seq + 1
        streak == Streak(n, ok)
        threshold == Threshold(streak, t)
        kept == IF ledger.threshold = Absent THEN threshold ELSE ledger.threshold IN
    /\ inst[i].phase = "owner" /\ inst[i].seq < MaxPolls
    /\ \/ /\ ledger.token # i
          /\ inst' = [inst EXCEPT ![i].seq = n, ![i].phase = "retired"]
          /\ UNCHANGED <<ledger, mark, good>>
       \/ /\ ledger.token = i /\ t >= Heartbeat
          /\ inst' = [inst EXCEPT ![i].seq = n]
          /\ ledger' = [ledger EXCEPT !.seq = n, !.polled = t, !.ok = ok,
                                      !.success = IF ok THEN t ELSE @,
                                      !.confirmed = IF ok THEN t ELSE @,
                                      !.streak = streak, !.threshold = threshold]
          /\ mark' = Marked(<<ledger.epoch, n>>, ok, t, kept)
          /\ good' = [good EXCEPT !.polls = @ + 1, !.last = IF ok THEN good.polls + 1 ELSE @]
    /\ UNCHANGED <<clock, accepted, row>>

(***************************************************************************)
(* What a reader of the evidence refuses to work with                       *)
(***************************************************************************)

ValidEvidence(now) ==
    LET times == {ledger.polled, ledger.success, ledger.threshold} \ {Absent} IN
    /\ \A t \in times : ledger.registered <= t /\ t <= Heartbeat
    /\ \A t \in times \cup {ledger.registered} : t <= now + Lag
    /\ ledger.success # Absent => ledger.polled # Absent /\ ledger.success <= ledger.polled
    /\ IF ledger.streak >= FailureLimit
       THEN /\ ledger.threshold # Absent /\ ledger.polled # Absent
            /\ ledger.threshold <= ledger.polled /\ ledger.threshold >= ledger.success
       ELSE ledger.threshold = Absent
    /\ ledger.confirmed <= Heartbeat

CoherentMark ==
    /\ (mark.success = NoCursor) = (mark.at = Absent)
    /\ (mark.failure = NoCursor) = (mark.threshold = Absent)
    /\ AtMost(mark.success, Cursor) /\ AtMost(mark.failure, Cursor)
    /\ mark.at <= ledger.confirmed /\ mark.threshold <= Heartbeat
    /\ mark.failure # NoCursor => /\ Before(mark.success, mark.failure)
                                  /\ mark.threshold >= mark.at

Readable(now) == ledger.epoch > 0 => ValidEvidence(now) /\ CoherentMark

(***************************************************************************)
(* The assessment of one accepted turn                                      *)
(***************************************************************************)

Accept(j, t) ==
    /\ accepted[j] = Absent
    /\ accepted' = [accepted EXCEPT ![j] = t]
    /\ UNCHANGED <<clock, inst, ledger, mark, row, good>>

(* A cause ends with a success that is later both by cursor and by clock.    *)
SurvivesByClock(cause) == cause # NoCause /\ mark.at < cause.recovery
Survives(cause) ==
    /\ cause # NoCause
    /\ ~(Before(cause.cutoff, mark.success) /\ mark.at >= cause.recovery)

EarlierOrNewer(prior, candidate) ==
    IF prior # NoCause /\ prior.deadline < candidate.deadline THEN prior ELSE candidate
Earlier(prior, candidate) ==
    IF prior # NoCause /\ prior.deadline <= candidate.deadline THEN prior ELSE candidate
Witnessed ==
    [reason |-> "poll_failures", since |-> mark.threshold,
     deadline |-> mark.threshold + FailGrace, recovery |-> mark.threshold,
     cutoff |-> mark.failure, source |-> mark.failure]

(* The candidate of assess_ingress; it stands for the cursor just read.      *)
SilentNow(j, confirmed, now) ==
    [reason |-> IF confirmed = Absent THEN "never_confirmed" ELSE "stale_or_missing",
     since |-> now, deadline |-> now + Grace, recovery |-> now, cutoff |-> Cursor,
     source |-> NoCursor]
Silent(j, confirmed, now) ==
    LET since == IF confirmed = Absent THEN accepted[j]
                 ELSE Later(accepted[j], confirmed + Fresh) IN
    [reason |-> IF confirmed = Absent THEN "never_confirmed" ELSE "stale_or_missing",
     since |-> since, deadline |-> since + Grace, recovery |-> now, cutoff |-> Cursor,
     source |-> NoCursor]
Failing ==
    [reason |-> "poll_failures", since |-> ledger.threshold,
     deadline |-> ledger.threshold + FailGrace, recovery |-> ledger.threshold,
     cutoff |-> Cursor, source |-> NoCursor]

Recent(t, now) == t # Absent /\ now <= t + Fresh
Polling(now) == ledger.epoch > 0 /\ Recent(ledger.polled, now)
Confirmed(now) ==
    Polling(now) /\ Recent(ledger.success, now) /\ ledger.streak < FailureLimit

(* The retained cause, or the witnessed failure if that is due sooner.       *)
Selected(surviving) ==
    IF mark.failure = NoCursor THEN surviving ELSE Earlier(surviving, Witnessed)

(* The cause the assessment keeps: confirmed polling only ends a cause that  *)
(* the watermark has already recovered.                                      *)
Judged(j, selected, confirmed, now) ==
    IF Confirmed(now) THEN selected
    ELSE Earlier(selected, IF Polling(now) /\ ledger.streak >= FailureLimit
                           THEN Failing ELSE Silent(j, confirmed, now))

Assess(j, now) ==
    LET surviving == IF Survives(row[j].cause) THEN row[j].cause ELSE NoCause
        confirmed == ledger.confirmed
        cause == Judged(j, Selected(surviving), confirmed, now)
        opens == cause # NoCause /\ surviving = NoCause IN
    /\ accepted[j] # Absent /\ now >= row[j].at /\ accepted[j] <= now + Lag
    /\ Readable(now)
    /\ AtMost(row[j].read, Cursor) /\ confirmed >= row[j].confirmed
    /\ row' = [row EXCEPT ![j] =
                 [at |-> now, read |-> Cursor, confirmed |-> confirmed,
                  recent |-> cause = NoCause,
                  generation |-> IF opens THEN row[j].generation + 1 ELSE row[j].generation,
                  cause |-> cause]]
    /\ good' = IF opens THEN [good EXCEPT !.opened[j] = good.polls] ELSE good
    /\ UNCHANGED <<clock, inst, ledger, mark, accepted>>

Next ==
    \/ Tick
    \/ \E i \in Instances : Capture(i) \/ LosePoll(i)
    \/ \E i \in Instances, t \in Sampled : Register(i, t)
    \/ \E i \in Instances, t \in Sampled, ok \in BOOLEAN : RecordPoll(i, ok, t)
    \/ \E j \in Jobs, t \in Sampled : Accept(j, t) \/ Assess(j, t)

Spec == Init /\ [][Next]_vars

(***************************************************************************)
(* Properties                                                               *)
(***************************************************************************)

Times == 0..(MaxClock + Fresh + Grace + FailGrace)
Cursors == (0..Cardinality(Instances)) \X (0..MaxPolls)
Causes == [reason : {"none", "never_confirmed", "stale_or_missing", "poll_failures"},
           since : Times, deadline : Times, recovery : Times, cutoff : Cursors, source : Cursors]

(* Every variable has its type; in particular the ledger of an epoch belongs *)
(* to the one process that won that epoch's registration.                    *)
TypeOK ==
    /\ clock \in 1..MaxClock
    /\ inst \in [Instances -> [phase : {"new", "pending", "owner", "retired"},
                               prev : Nat, epoch : Nat, seq : 0..MaxPolls]]
    /\ Cursor \in Cursors /\ ledger.token \in Instances \cup {"none"}
    /\ ledger.token \in Instances => inst[ledger.token].epoch = ledger.epoch
    /\ \A i, k \in Instances : inst[i].epoch = inst[k].epoch => i = k \/ inst[i].epoch = 0
    /\ \A j \in Jobs : row[j].cause \in Causes /\ row[j].read \in Cursors

(* Whatever interleaving of registrations, lost samples, late clocks and     *)
(* polls wrote it, the retained evidence passes the checks of its readers:   *)
(* a turn is never left without an assessment because the ledger and the     *)
(* watermark contradict each other.                                          *)
EvidenceStaysReadable == Readable(clock)

(* What the triggers and CHECKs of the schema let through.                   *)
AssessmentFence(old, new) ==
    /\ new.at >= old.at /\ AtMost(old.read, new.read) /\ new.confirmed >= old.confirmed
    /\ new.generation \in {old.generation, old.generation + 1}
    /\ old.cause = NoCause /\ new.cause # NoCause => new.generation = old.generation + 1
    /\ new.cause = NoCause => new.generation = old.generation
    /\ old.cause # NoCause /\ new.cause # NoCause /\ new.generation = old.generation =>
         new.cause.deadline < old.cause.deadline \/ new.cause = old.cause
    /\ new.cause # NoCause => /\ new.cause.deadline >= new.cause.since
                              /\ ~new.recent /\ AtMost(new.cause.cutoff, new.read)
WatermarkFence(old, new) ==
    /\ AtMost(old.success, new.success) /\ new.at >= old.at
    /\ old.failure # NoCursor =>
         \/ new.failure = old.failure /\ new.threshold = old.threshold
         \/ /\ new.failure = NoCursor
            /\ Before(old.failure, new.success) /\ new.at >= old.threshold

(* The schema's fences accept every row the code computes: within one         *)
(* generation the deadline never moves back, an equal deadline keeps its      *)
(* cause, and a failure watermark is cleared only by a later success. A       *)
(* refused write would leave the turn without assessments for ever.           *)
FencesAccept ==
    /\ \A j \in Jobs : row'[j] # row[j] => AssessmentFence(row[j], row'[j])
    /\ mark' # mark => WatermarkFence(mark, mark')

(* An episode ends, or gives way to a new generation, only after a poll that *)
(* was recorded as successful after the episode was opened: not a success    *)
(* recorded earlier, whatever its time says.                                  *)
RecoveryIsConfirmed ==
    \A j \in Jobs :
      row[j].cause # NoCause
        /\ (row'[j].cause = NoCause \/ row'[j].generation # row[j].generation)
      => good.last > good.opened[j]

(* Silence is noticed in time: an assessment made Fresh + Grace after the    *)
(* last confirmed poll, and Grace after acceptance, has an episode that is   *)
(* due within FailGrace and the lag of a clock (polls that fail only now may  *)
(* name the cause); no restart, lost sample or new reason puts it off.        *)
OutageIsDue ==
    \A j \in Jobs :
        /\ row[j].at # Absent
        /\ row[j].at >= accepted[j] + Grace
        /\ row[j].confirmed = Absent \/ row[j].at >= row[j].confirmed + Fresh + Grace
        => row[j].cause # NoCause /\ row[j].cause.deadline <= row[j].at + FailGrace + Lag
=============================================================================
