------------------------- MODULE Corrections_proofs -------------------------
(***************************************************************************)
(* The theorem about Claude's corrections, for every number of jobs,       *)
(* workers and faults. The tables first: what a step may do to the jobs    *)
(* (CorSame ... CorSettles), and that each of these keeps what holds of    *)
(* them (CorJobsFit). Then the workers: one lemma per action, which names  *)
(* what the action does to the tables and shows that the worker's row, and *)
(* its process's, still fit them (CorSeatDone). The types last.            *)
(***************************************************************************)
EXTENDS Turns, TLAPS, FiniteSetTheorems, FunctionTheorems, NaturalsInduction,
        SequenceTheorems

\* What the constants are.
LEMMA CorSizes ==
    ASSUME NEW i \in DOMAIN Corrections
    PROVE  /\ Corrections[i].NumJobs \in Nat /\ Corrections[i].NumJobs > 0
           /\ Corrections[i].LeaseTime \in Nat /\ Corrections[i].LeaseTime > 0
           /\ Corrections[i].MaxFaults \in Nat
           /\ IsFiniteSet(Corrections[i].Workers) /\ Cardinality(Corrections[i].Workers) \in Nat
           /\ Cor(i)!Jobs \subseteq Nat \ {0} /\ Cor(i)!Tokens \subseteq Nat \ {0}
           /\ Cor(i)!Some \subseteq Nat
           /\ 0 .. Corrections[i].LeaseTime \subseteq Nat
<1>1. Corrections[i].NumJobs \in Nat /\ Corrections[i].NumJobs > 0
      /\ Corrections[i].LeaseTime \in Nat /\ Corrections[i].LeaseTime > 0
      /\ Corrections[i].MaxFaults \in Nat /\ IsFiniteSet(Corrections[i].Workers)
  BY TurnsAllowed DEF Cor!Bounds, Cor!IsFiniteSet, IsFiniteSet
<1>2. Cardinality(Corrections[i].Workers) \in Nat
  BY <1>1, FS_CardinalityType
<1> QED
  BY <1>1, <1>2 DEF Cor!Jobs, Cor!Tokens, Cor!Some

\* What the invariant says of a job's rows.
LEMMA CorRows ==
    ASSUME NEW i \in DOMAIN Corrections,
           Cor(i)!Typed, NEW j \in Cor(i)!Jobs
    PROVE  /\ coJob[j].st \in Cor(i)!Stages /\ coJob[j].tok \in Cor(i)!Some
           /\ coJob[j].left \in 0 .. Corrections[i].LeaseTime
           /\ coJob[j].gen \in Nat /\ coJob[j].model \in Nat
           /\ run[j].on \in BOOLEAN /\ run[j].first \in 0 .. 1 /\ run[j].second \in 0 .. 2
           /\ run[j].results \in 0 .. 2 /\ run[j].valid \in BOOLEAN
           /\ child[j].job \in 0 .. Corrections[i].NumJobs /\ child[j].tok \in Cor(i)!Some
           /\ text[j] \subseteq Cor(i)!Jobs /\ given[j] \in Nat
<1>1. coJob[j] \in Cor(i)!JobRow /\ run[j] \in Cor(i)!RunRow /\ child[j] \in Cor(i)!ChildRow
  BY DEF Cor!Typed
<1>2. text[j] \subseteq Cor(i)!Jobs /\ given[j] \in Nat
  BY DEF Cor!Typed
<1> QED
  BY <1>1, <1>2 DEF Cor!JobRow, Cor!RunRow, Cor!ChildRow

\* What it says of a worker and its process.
LEMMA CorSeats ==
    ASSUME NEW i \in DOMAIN Corrections,
           Cor(i)!Typed, NEW w \in Corrections[i].Workers
    PROVE  /\ wk[w].pc \in Cor(i)!Steps /\ wk[w].job \in 0 .. Corrections[i].NumJobs
           /\ wk[w].tok \in Cor(i)!Some
           /\ wk[w].frames \in Seq(Cor(i)!Jobs) /\ wk[w].receipts \in Seq(1 .. 2)
           /\ wk[w].results \in 0 .. 2 /\ wk[w].failed \in BOOLEAN
           /\ wk[w].answers \in SUBSET Cor(i)!Jobs /\ wk[w].sealed \in BOOLEAN
           /\ wk[w].complete \in BOOLEAN /\ wk[w].why \in {"none", "known", "unknown", "stop"}
           /\ wk[w] \in Cor(i)!Seat /\ nat[w] \in Cor(i)!Process
           /\ nat[w].on \in BOOLEAN /\ nat[w].in \in Seq(Cor(i)!Jobs) /\ nat[w].acked \in Nat
           /\ nat[w].covered \in Nat /\ nat[w].out \in Seq(Cor(i)!Events)
           /\ nat[w].acked <= Len(nat[w].in)
<1>1. wk[w] \in Cor(i)!Seat /\ nat[w] \in Cor(i)!Process /\ nat[w].acked <= Len(nat[w].in)
  BY DEF Cor!Typed
<1> QED
  BY <1>1 DEF Cor!Seat, Cor!Process

\* A token that nobody holds exists: there are more than the holders.
LEMMA CorHolders ==
    ASSUME NEW i \in DOMAIN Corrections,
           Cor(i)!Typed
    PROVE  IsFiniteSet(Cor(i)!Held)
           /\ Cardinality(Cor(i)!Held)
                <= 2 * Corrections[i].NumJobs + Cardinality(Corrections[i].Workers)
<1> DEFINE A == {coJob[j].tok : j \in Cor(i)!Jobs}
           B == {child[j].tok : j \in Cor(i)!Jobs}
           C == {wk[w].tok : w \in Corrections[i].Workers}
<1>1. IsFiniteSet(Cor(i)!Jobs) /\ Cardinality(Cor(i)!Jobs) = Corrections[i].NumJobs
  <2> DEFINE n == Corrections[i].NumJobs
  <2>1. n \in Nat /\ n > 0 /\ Cor(i)!Jobs = 1 .. n
    BY CorSizes DEF Cor!Jobs
  <2> HIDE DEF n
  <2>2. IsFiniteSet(1 .. n) /\ Cardinality(1 .. n) = n
    BY <2>1, FS_Interval
  <2> QED
    BY <2>1, <2>2 DEF n
<1>2. IsFiniteSet(A) /\ Cardinality(A) <= Corrections[i].NumJobs
  <2>1. [j \in Cor(i)!Jobs |-> coJob[j].tok] \in Surjection(Cor(i)!Jobs, A)
    BY DEF Surjection
  <2> QED
    BY <2>1, <1>1, FS_Surjection
<1>3. IsFiniteSet(B) /\ Cardinality(B) <= Corrections[i].NumJobs
  <2>1. [j \in Cor(i)!Jobs |-> child[j].tok] \in Surjection(Cor(i)!Jobs, B)
    BY DEF Surjection
  <2> QED
    BY <2>1, <1>1, FS_Surjection
<1>4. IsFiniteSet(C) /\ Cardinality(C) <= Cardinality(Corrections[i].Workers)
  <2>1. [w \in Corrections[i].Workers |-> wk[w].tok] \in Surjection(Corrections[i].Workers, C)
    BY DEF Surjection
  <2> QED
    BY <2>1, CorSizes, FS_Surjection
<1>5. IsFiniteSet(A \cup B) /\ Cardinality(A \cup B) <= 2 * Corrections[i].NumJobs
  <2>1. IsFiniteSet(A \cap B)
    BY <1>2, FS_Subset
  <2>2. /\ Cardinality(A \cap B) \in Nat /\ Cardinality(A) \in Nat /\ Cardinality(B) \in Nat
    BY <1>2, <1>3, <2>1, FS_CardinalityType
  <2>3. IsFiniteSet(A \cup B)
        /\ Cardinality(A \cup B) = Cardinality(A) + Cardinality(B) - Cardinality(A \cap B)
    BY <1>2, <1>3, FS_Union
  <2> HIDE DEF A, B
  <2> QED
    BY <1>2, <1>3, <2>2, <2>3, CorSizes
<1>6. IsFiniteSet((A \cup B) \cup C)
      /\ Cardinality((A \cup B) \cup C)
           <= 2 * Corrections[i].NumJobs + Cardinality(Corrections[i].Workers)
  <2>1. IsFiniteSet((A \cup B) \cap C)
    BY <1>4, <1>5, FS_Subset
  <2>2. /\ Cardinality((A \cup B) \cap C) \in Nat /\ Cardinality(A \cup B) \in Nat
        /\ Cardinality(C) \in Nat
    BY <1>4, <1>5, <2>1, FS_CardinalityType
  <2>3. IsFiniteSet((A \cup B) \cup C)
        /\ Cardinality((A \cup B) \cup C)
             = Cardinality(A \cup B) + Cardinality(C) - Cardinality((A \cup B) \cap C)
    BY <1>4, <1>5, FS_Union
  <2> HIDE DEF A, B, C
  <2> QED
    BY <1>4, <1>5, <2>2, <2>3, CorSizes
<1> QED
  BY <1>6 DEF Cor!Held

\* A launch or a reservation finds a token that nobody holds.
LEMMA CorFresh ==
    ASSUME NEW i \in DOMAIN Corrections,
           Cor(i)!Typed
    PROVE  Cor(i)!Fresh \in Cor(i)!Tokens /\ Cor(i)!Fresh \in Cor(i)!Some /\ Cor(i)!Fresh # 0
<1>1. \E t \in Cor(i)!Tokens : t \notin Cor(i)!Held
  <2>1. SUFFICES ASSUME Cor(i)!Tokens \subseteq Cor(i)!Held PROVE FALSE
    OBVIOUS
  <2>2. Cardinality(Cor(i)!Tokens) <= Cardinality(Cor(i)!Held)
    BY <2>1, CorHolders, FS_Subset
  <2>3. Cardinality(Cor(i)!Tokens)
          = 2 * Corrections[i].NumJobs + 2 * Cardinality(Corrections[i].Workers) + 1
    <3> DEFINE n == 2 * Corrections[i].NumJobs + 2 * Cardinality(Corrections[i].Workers) + 1
    <3>1. Cor(i)!Tokens = 1 .. n
      BY DEF Cor!Tokens, Cor!Cardinality, Cardinality
    <3>2. n \in Nat /\ n > 0
      BY CorSizes
    <3> HIDE DEF n
    <3>3. Cardinality(1 .. n) = n
      BY <3>2, FS_Interval
    <3> QED
      BY <3>1, <3>3 DEF n
  <2>4. Cardinality(Cor(i)!Held) \in Nat
    BY CorHolders, FS_CardinalityType
  <2> QED
    BY <2>2, <2>3, <2>4, CorHolders, CorSizes
<1> DEFINE S == Cor(i)!Tokens \ Cor(i)!Held
<1>2. S # {} /\ S \subseteq Nat
  BY <1>1, CorSizes
<1>3. PICK t \in S : \A u \in S : ~(<<u, t>> \in OpToRel(<, Nat))
  BY <1>2, NatLessThanWellFounded, WFMin
<1>4. \A u \in S : t <= u
  <2>1. SUFFICES ASSUME NEW u \in S PROVE t <= u
    OBVIOUS
  <2>2. ~(u < t) /\ u \in Nat /\ t \in Nat
    BY <1>2, <1>3 DEF OpToRel
  <2> QED
    BY <2>2
<1>5. Cor(i)!Fresh \in Cor(i)!Tokens
  BY <1>3, <1>4 DEF Cor!Fresh
<1> QED
  BY <1>5, CorSizes DEF Cor!Some

-----------------------------------------------------------------------------
(* The jobs of the topic.                                                    *)

\* What holds of the tables, whatever the workers do.
CorJobsFit(i) == Cor(i)!QueueFits /\ Cor(i)!ChildrenFit /\ Cor(i)!PairEndsTogether
                 /\ Cor(i)!TextsFit /\ Cor(i)!CancelledIsCovered

\* What a step does to the tables, the run's boundaries aside: nothing.
CorSame(i) == UNCHANGED <<coJob, child, text, stopped, given>>

\* A heartbeat.
CorRenews(i, p, t) ==
    /\ Cor(i)!Executing(p) /\ ~Cor(i)!IsChild(p) /\ t \in Cor(i)!Tokens
    /\ coJob' = Cor(i)!Renewed(p, t) /\ UNCHANGED <<child, text, stopped, given>>

\* The end of every job whose lease lapsed.
CorBulk(i) ==
    /\ coJob' = [j \in Cor(i)!Jobs |-> IF j \in Cor(i)!Stale
             THEN Cor(i)!Ended(j, "indeterminate") ELSE coJob[j]]
    /\ UNCHANGED <<child, text, stopped, given>>

\* A launch.
CorLaunches(i, j) ==
    /\ Cor(i)!Next1(j)
    /\ coJob' = [coJob EXCEPT ![j].st = "executing", ![j].tok = Cor(i)!Fresh,
             ![j].left = Corrections[i].LeaseTime]
    /\ given' \in {given, [given EXCEPT ![j] = @ + 1]}
    /\ UNCHANGED <<child, text, stopped>>

\* The reservation of a correction.
CorReserves(i, p, t, c) ==
    /\ c \in Cor(i)!Candidates(p, t) /\ ~Cor(i)!IsChild(p) /\ Cor(i)!Reserved(p, c)
    /\ given' \in {given, [given EXCEPT ![c] = @ + 1]}
    /\ UNCHANGED <<text, stopped>>

\* The save of an answer.
CorSaves(i, p, a) ==
    /\ Cor(i)!Executing(p) /\ {p} \cup ({child[p].job} \ {0}) \subseteq a /\ a \subseteq Cor(i)!Jobs
    /\ text' = [text EXCEPT ![p] = a]
    /\ UNCHANGED <<coJob, child, stopped, given>>

\* The settlement of a job.
CorSettles(i, p, s) ==
    /\ Cor(i)!Executing(p) /\ ~Cor(i)!IsChild(p) /\ Cor(i)!Settleable(p, s)
    /\ s \in {"result_ready", "cancelled", "indeterminate", "failed"}
    /\ s = "result_ready" => text[p] # {}
    /\ s = "cancelled" => p \in stopped
    /\ coJob' = Cor(i)!Settled(p, s) /\ UNCHANGED <<child, text, stopped, given>>

\* What was begun stays begun, what is stopped stays stopped, and a saved answer
\* stays saved.
CorOnward(i) ==
    /\ \A j \in Cor(i)!Jobs : Cor(i)!Begun(j) => Cor(i)!Begun(j)'
    /\ \A j \in Cor(i)!Jobs : text[j] # {} => text'[j] # {}
    /\ stopped \subseteq stopped'

\* Steps that neither begin a job nor bind one: each row keeps its place in the
\* queue.
LEMMA CorRowsKeep ==
    ASSUME NEW i \in DOMAIN Corrections,
           Cor(i)!Typed, CorJobsFit(i), UNCHANGED <<child, stopped, given, text>>,
           \A j \in Cor(i)!Jobs : /\ coJob'[j].st = "none" <=> coJob[j].st = "none"
                                  /\ coJob'[j].st = "queued" <=> coJob[j].st = "queued"
                                  /\ coJob'[j].st = "executing" <=> coJob'[j].tok # 0
                                  /\ coJob'[j].st = "cancelled" => j \in stopped
                                  /\ coJob'[j].st \in {"result_ready", "completed"}
                                         /\ ~Cor(i)!IsChild(j)
                                       => text[j] # {},
           \A p \in Cor(i)!Jobs : child[p].job # 0 /\ coJob'[p].st = "executing"
                                    => coJob'[child[p].job].left = coJob'[p].left,
           Cor(i)!PairEndsTogether'
    PROVE  CorJobsFit(i)' /\ CorOnward(i)
<1>1. \A j \in Cor(i)!Jobs : Cor(i)!Begun(j)' <=> Cor(i)!Begun(j)
  BY DEF Cor!Begun
<1>2. Cor(i)!QueueFits'
  BY <1>1 DEF CorJobsFit, Cor!QueueFits, Cor!Executing
<1>3. Cor(i)!ChildrenFit'
  <2>1. \A p \in Cor(i)!Jobs : child[p].job # 0 => child[p].job \in Cor(i)!Jobs
    BY CorRows, CorSizes DEF Cor!Jobs
  <2> QED
    BY <1>1, <2>1 DEF CorJobsFit, Cor!ChildrenFit, Cor!Executing
<1>4. Cor(i)!TextsFit'
  BY DEF CorJobsFit, Cor!TextsFit, Cor!IsChild
<1>5. Cor(i)!CancelledIsCovered'
  BY DEF Cor!CancelledIsCovered
<1> QED
  BY <1>1, <1>2, <1>3, <1>4, <1>5 DEF CorJobsFit, CorOnward

\* A pair that is unlike the ones of its kind is none.
LEMMA CorPair ==
    ASSUME NEW i \in DOMAIN Corrections,
           Cor(i)!Typed, CorJobsFit(i), NEW p \in Cor(i)!Jobs, child[p].job # 0
    PROVE  /\ child[p].job \in Cor(i)!Jobs /\ p < child[p].job /\ p # child[p].job
           /\ Cor(i)!Begun(p) /\ Cor(i)!Begun(child[p].job)
           /\ child[child[p].job].job = 0 /\ Cor(i)!IsChild(child[p].job) /\ ~Cor(i)!IsChild(p)
           /\ (p \in stopped => child[p].job \in stopped)
           /\ (Cor(i)!Executing(p) => coJob[child[p].job].left = coJob[p].left)
           /\ \A q \in Cor(i)!Jobs : child[q].job = child[p].job => q = p
<1>1. child[p].job \in Cor(i)!Jobs
  BY CorRows, CorSizes DEF Cor!Jobs
<1> QED
  BY <1>1, CorSizes DEF CorJobsFit, Cor!ChildrenFit, Cor!IsChild

\* A renewed lease leaves the tables fit.
LEMMA CorRenewal ==
    ASSUME NEW i \in DOMAIN Corrections,
           Cor(i)!Typed, CorJobsFit(i), NEW p \in Cor(i)!Jobs, NEW t, CorRenews(i, p, t)
    PROVE  CorJobsFit(i)' /\ CorOnward(i)
<1>1. \A j \in Cor(i)!Jobs : /\ coJob'[j].st = coJob[j].st
                             /\ coJob'[j].tok = (IF j = p THEN t ELSE coJob[j].tok)
                             /\ coJob'[j].left = IF j = p
                                    \/ (j = child[p].job /\ Cor(i)!Executing(j))
                                                 THEN Corrections[i].LeaseTime ELSE coJob[j].left
  BY DEF CorRenews, Cor!Renewed, Cor!Typed, Cor!JobRow
<1>2. t # 0 /\ coJob[p].st = "executing"
  BY CorSizes DEF CorRenews, Cor!Executing
<1>3. Cor(i)!PairEndsTogether'
  BY <1>1, CorPair DEF CorRenews, CorJobsFit, Cor!PairEndsTogether
<1>4. \A q \in Cor(i)!Jobs : child[q].job # 0 /\ coJob'[q].st = "executing"
                                => coJob'[child[q].job].left = coJob'[q].left
  BY <1>1, <1>2, CorPair DEF CorRenews, CorJobsFit, Cor!PairEndsTogether, Cor!Executing, Cor!IsChild
<1>5. \A j \in Cor(i)!Jobs : /\ coJob'[j].st = "executing" <=> coJob'[j].tok # 0
                             /\ coJob'[j].st = "cancelled" => j \in stopped
                             /\ coJob'[j].st \in {"result_ready", "completed"} /\ ~Cor(i)!IsChild(j)
                                  => text[j] # {}
  BY <1>1, <1>2 DEF CorJobsFit, Cor!QueueFits, Cor!CancelledIsCovered, Cor!TextsFit, Cor!Executing
<1> QED
  BY <1>1, <1>3, <1>4, <1>5, CorRowsKeep DEF CorRenews

\* Recovery ends the jobs whose lease lapsed, a parent with its correction.
LEMMA CorBulkEnds ==
    ASSUME NEW i \in DOMAIN Corrections,
           Cor(i)!Typed, CorJobsFit(i), CorBulk(i)
    PROVE  CorJobsFit(i)' /\ CorOnward(i)
<1>1. \A j \in Cor(i)!Jobs :
         /\ j \in Cor(i)!Stale => /\ coJob'[j].st = "indeterminate" /\ coJob'[j].tok = 0
                                  /\ coJob'[j].left = 0
         /\ j \notin Cor(i)!Stale => coJob'[j] = coJob[j]
  BY DEF CorBulk, Cor!Ended, Cor!Typed, Cor!JobRow
<1>2. \A q \in Cor(i)!Jobs : child[q].job # 0
          => (q \in Cor(i)!Stale <=> child[q].job \in Cor(i)!Stale)
  BY CorPair DEF CorJobsFit, Cor!PairEndsTogether, Cor!Executing, Cor!Stale
<1>3. Cor(i)!PairEndsTogether'
  BY <1>1, <1>2, CorPair DEF CorBulk, CorJobsFit, Cor!PairEndsTogether, Cor!Stale, Cor!Executing
<1>4. \A q \in Cor(i)!Jobs : child[q].job # 0 /\ coJob'[q].st = "executing"
                                => coJob'[child[q].job].left = coJob'[q].left
  BY <1>1, <1>2, CorPair DEF Cor!Executing
<1>5. \A j \in Cor(i)!Jobs : /\ coJob'[j].st = "none" <=> coJob[j].st = "none"
                             /\ coJob'[j].st = "queued" <=> coJob[j].st = "queued"
                             /\ coJob'[j].st = "executing" <=> coJob'[j].tok # 0
                             /\ coJob'[j].st = "cancelled" => j \in stopped
                             /\ coJob'[j].st \in {"result_ready", "completed"} /\ ~Cor(i)!IsChild(j)
                                  => text[j] # {}
  BY <1>1 DEF CorJobsFit, Cor!QueueFits, Cor!CancelledIsCovered, Cor!TextsFit, Cor!Executing,
       Cor!Stale
<1> QED
  BY <1>3, <1>4, <1>5, CorRowsKeep DEF CorBulk

\* A settlement ends a parent and its correction alike.
LEMMA CorSettlement ==
    ASSUME NEW i \in DOMAIN Corrections,
           Cor(i)!Typed, CorJobsFit(i), NEW p \in Cor(i)!Jobs, NEW s, CorSettles(i, p, s)
    PROVE  CorJobsFit(i)' /\ CorOnward(i)
<1> DEFINE c == child[p].job
<1>1. c # 0 => c \in Cor(i)!Jobs /\ c # p /\ Cor(i)!IsChild(c) /\ Cor(i)!Executing(c)
          /\ child[c].job = 0
                /\ (s = "cancelled" => c \in stopped)
  BY CorPair DEF CorSettles, Cor!Settleable
<1>2. \A j \in Cor(i)!Jobs :
         /\ j = p => coJob'[j].st = s /\ coJob'[j].tok = 0
         /\ j = c => coJob'[j].st = Cor(i)!ChildOutcome(s) /\ coJob'[j].tok = 0
         /\ j # p /\ j # c => coJob'[j] = coJob[j]
  <2>1. \A j \in Cor(i)!Jobs : \A x : Cor(i)!Ended(j, x).st = x /\ Cor(i)!Ended(j, x).tok = 0
    BY DEF Cor!Ended, Cor!Typed, Cor!JobRow
  <2>2. \A j \in Cor(i)!Jobs :
           coJob'[j] = IF j = p THEN Cor(i)!Ended(j, s)
                       ELSE IF j = c THEN Cor(i)!Ended(j, Cor(i)!ChildOutcome(s)) ELSE coJob[j]
    BY DEF CorSettles, Cor!Settled
  <2>3. c # p
    BY <1>1, CorSizes DEF Cor!Jobs
  <2> QED
    BY <2>1, <2>2, <2>3
<1>3. Cor(i)!PairEndsTogether'
  <2>1. \A q \in Cor(i)!Jobs : q # p /\ child[q].job # 0
            => child[q].job # p /\ child[q].job # c /\ q # c
    BY <1>1, CorPair DEF CorSettles, Cor!IsChild
  <2> QED
    BY <1>1, <1>2, <2>1, CorPair DEF CorSettles, CorJobsFit, Cor!PairEndsTogether, Cor!ChildOutcome
<1>4. \A q \in Cor(i)!Jobs : child[q].job # 0 /\ coJob'[q].st = "executing"
                                => coJob'[child[q].job].left = coJob'[q].left
  <2>1. \A q \in Cor(i)!Jobs : child[q].job # 0 /\ coJob'[q].st = "executing"
                                  => q # p /\ q # c /\ child[q].job # p /\ child[q].job # c
    BY <1>1, <1>2, CorPair DEF CorSettles, Cor!IsChild, Cor!ChildOutcome
  <2> QED
    BY <1>2, <2>1, CorPair DEF Cor!Executing
<1>5. \A j \in Cor(i)!Jobs : /\ coJob'[j].st = "none" <=> coJob[j].st = "none"
                             /\ coJob'[j].st = "queued" <=> coJob[j].st = "queued"
                             /\ coJob'[j].st = "executing" <=> coJob'[j].tok # 0
                             /\ coJob'[j].st = "cancelled" => j \in stopped
                             /\ coJob'[j].st \in {"result_ready", "completed"} /\ ~Cor(i)!IsChild(j)
                                  => text[j] # {}
  <2>1. SUFFICES ASSUME NEW j \in Cor(i)!Jobs
                 PROVE  /\ coJob'[j].st = "none" <=> coJob[j].st = "none"
                        /\ coJob'[j].st = "queued" <=> coJob[j].st = "queued"
                        /\ coJob'[j].st = "executing" <=> coJob'[j].tok # 0
                        /\ coJob'[j].st = "cancelled" => j \in stopped
                        /\ coJob'[j].st \in {"result_ready", "completed"} /\ ~Cor(i)!IsChild(j)
                             => text[j] # {}
    OBVIOUS
  <2>2. CASE j = p
    BY <1>2, <2>2 DEF CorSettles, Cor!Executing
  <2>3. CASE j = c
    BY <1>1, <1>2, <2>3, CorSizes DEF CorSettles, Cor!ChildOutcome, Cor!Executing
  <2>4. CASE j # p /\ j # c
    BY <1>2, <2>4 DEF CorJobsFit, Cor!QueueFits, Cor!CancelledIsCovered, Cor!TextsFit, Cor!Executing
  <2> QED
    BY <2>2, <2>3, <2>4
<1> QED
  BY <1>3, <1>4, <1>5, CorRowsKeep DEF CorSettles

\* Time shortens the leases and touches nothing else.
LEMMA CorTick ==
    ASSUME NEW i \in DOMAIN Corrections,
           Cor(i)!Typed, CorJobsFit(i), Cor(i)!Tick
    PROVE  CorJobsFit(i)' /\ CorOnward(i)
<1>1. \A j \in Cor(i)!Jobs : /\ coJob'[j].st = coJob[j].st /\ coJob'[j].tok = coJob[j].tok
                             /\ coJob'[j].left = IF coJob[j].left > 0 THEN coJob[j].left - 1 ELSE 0
  BY DEF Cor!Tick, Cor!Typed, Cor!JobRow
<1>2. Cor(i)!PairEndsTogether'
  <2>1. child' = child
    BY DEF Cor!Tick, Cor!inputVars
  <2>2. \A q \in Cor(i)!Jobs : child[q].job # 0 => child[q].job \in Cor(i)!Jobs
    BY CorPair
  <2> QED
    BY <1>1, <2>1, <2>2 DEF CorJobsFit, Cor!PairEndsTogether
<1>3. \A q \in Cor(i)!Jobs : child[q].job # 0 /\ coJob'[q].st = "executing"
                                => coJob'[child[q].job].left = coJob'[q].left
  BY <1>1, CorPair DEF Cor!Executing
<1>4. \A j \in Cor(i)!Jobs : /\ coJob'[j].st = "executing" <=> coJob'[j].tok # 0
                             /\ coJob'[j].st = "cancelled" => j \in stopped
                             /\ coJob'[j].st \in {"result_ready", "completed"} /\ ~Cor(i)!IsChild(j)
                                  => text[j] # {}
  BY <1>1 DEF CorJobsFit, Cor!QueueFits, Cor!CancelledIsCovered, Cor!TextsFit, Cor!Executing
<1> QED
  BY <1>1, <1>2, <1>3, <1>4, CorRowsKeep DEF Cor!Tick, Cor!inputVars, Cor!ownerVars

\* A delivered answer completes its job.
LEMMA CorDelivery ==
    ASSUME NEW i \in DOMAIN Corrections,
           Cor(i)!Typed, CorJobsFit(i), NEW d \in Cor(i)!Jobs, Cor(i)!Deliver(d)
    PROVE  CorJobsFit(i)' /\ CorOnward(i)
<1>1. \A j \in Cor(i)!Jobs : /\ j = d => coJob'[j].st = "completed" /\ coJob[j].st = "result_ready"
                             /\ j # d => coJob'[j].st = coJob[j].st
                             /\ coJob'[j].tok = coJob[j].tok /\ coJob'[j].left = coJob[j].left
  BY DEF Cor!Deliver, Cor!Typed, Cor!JobRow
<1>2. ~Cor(i)!IsChild(d)
  BY CorPair, CorSizes DEF Cor!Deliver, CorJobsFit, Cor!PairEndsTogether, Cor!IsChild
<1>3. Cor(i)!PairEndsTogether'
  BY <1>1, <1>2, CorPair DEF Cor!Deliver, Cor!inputVars, CorJobsFit, Cor!PairEndsTogether,
       Cor!IsChild
<1>4. \A q \in Cor(i)!Jobs : child[q].job # 0 /\ coJob'[q].st = "executing"
                                => coJob'[child[q].job].left = coJob'[q].left
  BY <1>1, CorPair DEF Cor!Executing
<1>5. \A j \in Cor(i)!Jobs : /\ coJob'[j].st = "executing" <=> coJob'[j].tok # 0
                             /\ coJob'[j].st = "cancelled" => j \in stopped
                             /\ coJob'[j].st \in {"result_ready", "completed"} /\ ~Cor(i)!IsChild(j)
                                  => text[j] # {}
  BY <1>1 DEF CorJobsFit, Cor!QueueFits, Cor!CancelledIsCovered, Cor!TextsFit, Cor!Executing
<1> QED
  BY <1>1, <1>3, <1>4, <1>5, CorRowsKeep DEF Cor!Deliver, Cor!inputVars, Cor!ownerVars

\* A new job goes behind all that were begun.
LEMMA CorArrival ==
    ASSUME NEW i \in DOMAIN Corrections,
           Cor(i)!Typed, CorJobsFit(i), NEW a \in Cor(i)!Jobs, Cor(i)!Arrive(a)
    PROVE  CorJobsFit(i)' /\ CorOnward(i)
<1>1. \A j \in Cor(i)!Jobs : /\ j = a => /\ coJob'[j].st = "queued" /\ coJob'[j].tok = 0
                                          /\ coJob[j].st = "none"
                             /\ j # a => coJob'[j] = coJob[j]
  BY DEF Cor!Arrive, Cor!Typed, Cor!JobRow, Cor!NoJob
<1>2. UNCHANGED <<child, text, stopped, given>>
  BY DEF Cor!Arrive, Cor!inputVars, Cor!ownerVars
<1>3. \A j \in Cor(i)!Jobs : Cor(i)!Begun(j)' <=> Cor(i)!Begun(j)
  BY <1>1 DEF Cor!Begun
<1>4. \A k \in Cor(i)!Jobs : k < a => coJob[k].st # "none"
  BY CorSizes DEF Cor!Arrive, Cor!Jobs
<1>5. Cor(i)!QueueFits'
  <2>1. \A j \in Cor(i)!Jobs : Cor(i)!Executing(j)' <=> coJob'[j].tok # 0
    BY <1>1 DEF CorJobsFit, Cor!QueueFits, Cor!Executing
  <2>2. \A j, k \in Cor(i)!Jobs : k < j /\ coJob'[j].st # "none" => coJob'[k].st # "none"
    BY <1>1, <1>4, CorSizes DEF CorJobsFit, Cor!QueueFits
  <2> QED
    BY <1>2, <1>3, <2>1, <2>2 DEF CorJobsFit, Cor!QueueFits
<1>6. Cor(i)!ChildrenFit'
  <2>1. \A p \in Cor(i)!Jobs : child[p].job # 0 => p # a /\ child[p].job # a
    BY <1>1, CorPair DEF Cor!Begun
  <2> QED
    BY <1>1, <1>2, <1>3, <2>1, CorPair DEF CorJobsFit, Cor!ChildrenFit, Cor!Executing
<1>7. Cor(i)!PairEndsTogether'
  BY <1>1, <1>2, CorPair DEF CorJobsFit, Cor!PairEndsTogether, Cor!Begun
<1>8. Cor(i)!TextsFit' /\ Cor(i)!CancelledIsCovered'
  BY <1>1, <1>2 DEF CorJobsFit, Cor!TextsFit, Cor!CancelledIsCovered, Cor!IsChild
<1> QED
  BY <1>2, <1>3, <1>5, <1>6, <1>7, <1>8 DEF CorJobsFit, CorOnward

\* A stop cancels what is queued and covers every job there is.
LEMMA CorStop ==
    ASSUME NEW i \in DOMAIN Corrections,
           Cor(i)!Typed, CorJobsFit(i), Cor(i)!Stop
    PROVE  CorJobsFit(i)' /\ CorOnward(i)
<1>1. \A j \in Cor(i)!Jobs : /\ coJob[j].st = "queued"
                                    => coJob'[j].st = "cancelled" /\ coJob'[j].tok = 0
                             /\ coJob[j].st # "queued" => coJob'[j] = coJob[j]
  BY DEF Cor!Stop, Cor!Ended, Cor!Typed, Cor!JobRow
<1>2. /\ UNCHANGED <<child, text, given>>
      /\ \A j \in Cor(i)!Jobs : j \in stopped' <=> j \in stopped \/ coJob[j].st # "none"
      /\ stopped \subseteq stopped'
  BY DEF Cor!Stop, Cor!inputVars
<1>3. \A j \in Cor(i)!Jobs : Cor(i)!Begun(j)' <=> coJob[j].st # "none"
  BY <1>1 DEF Cor!Begun
<1>4. \A j \in Cor(i)!Jobs : Cor(i)!Begun(j) => Cor(i)!Begun(j)'
  BY <1>3 DEF Cor!Begun
<1>5. Cor(i)!QueueFits'
  <2>1. \A j \in Cor(i)!Jobs : Cor(i)!Executing(j)' <=> coJob'[j].tok # 0
    BY <1>1 DEF CorJobsFit, Cor!QueueFits, Cor!Executing
  <2>2. \A j \in Cor(i)!Jobs : coJob'[j].st = "none" <=> coJob[j].st = "none"
    BY <1>1
  <2> QED
    BY <1>2, <1>3, <1>4, <2>1, <2>2 DEF CorJobsFit, Cor!QueueFits
<1>6. Cor(i)!ChildrenFit'
  BY <1>1, <1>2, <1>4, CorPair DEF CorJobsFit, Cor!ChildrenFit, Cor!Executing, Cor!Begun
<1>7. Cor(i)!PairEndsTogether'
  BY <1>1, <1>2, CorPair DEF CorJobsFit, Cor!PairEndsTogether, Cor!Begun
<1>8. Cor(i)!TextsFit' /\ Cor(i)!CancelledIsCovered'
  BY <1>1, <1>2 DEF CorJobsFit, Cor!TextsFit, Cor!CancelledIsCovered, Cor!IsChild
<1> QED
  BY <1>2, <1>4, <1>5, <1>6, <1>7, <1>8 DEF CorJobsFit, CorOnward

\* The job that is launched is the next of the queue, and no correction.
LEMMA CorLaunch ==
    ASSUME NEW i \in DOMAIN Corrections,
           Cor(i)!Typed, CorJobsFit(i), NEW b \in Cor(i)!Jobs, CorLaunches(i, b)
    PROVE  /\ CorJobsFit(i)' /\ CorOnward(i)
           /\ Cor(i)!Begun(b)' /\ ~Cor(i)!Begun(b) /\ child[b].job = 0 /\ ~Cor(i)!IsChild(b)
<1>1. \A j \in Cor(i)!Jobs : /\ j = b => /\ coJob'[j].st = "executing" /\ coJob'[j].tok # 0
                                          /\ coJob[j].st = "queued"
                             /\ j # b => coJob'[j] = coJob[j] /\ ~Cor(i)!Executing(j)
  <2>1. /\ coJob[b].st = "queued" /\ \A j \in Cor(i)!Jobs : ~Cor(i)!Executing(j)
    BY DEF CorLaunches, Cor!Next1, Cor!RootIsFree
  <2>2. coJob \in [Cor(i)!Jobs -> Cor(i)!JobRow]
    BY DEF Cor!Typed
  <2>3. coJob' = [coJob EXCEPT ![b] = [@ EXCEPT !.st = "executing", !.tok = Cor(i)!Fresh,
                                               !.left = Corrections[i].LeaseTime]]
    BY <2>2 DEF CorLaunches, Cor!JobRow
  <2>4. /\ coJob'[b].st = "executing" /\ coJob'[b].tok = Cor(i)!Fresh
        /\ \A j \in Cor(i)!Jobs : j # b => coJob'[j] = coJob[j]
    BY <2>2, <2>3 DEF Cor!JobRow
  <2> QED
    BY <2>1, <2>4, CorFresh
<1>2. UNCHANGED <<child, text, stopped>>
  BY DEF CorLaunches
<1>3. \A j \in Cor(i)!Jobs : Cor(i)!Begun(j)' <=> Cor(i)!Begun(j) \/ j = b
  BY <1>1 DEF Cor!Begun
<1>4. ~Cor(i)!Begun(b) /\ child[b].job = 0 /\ ~Cor(i)!IsChild(b)
  <2>1. ~Cor(i)!Begun(b)
    BY <1>1 DEF Cor!Begun
  <2>2. child[b].job = 0
    BY <2>1, CorPair
  <2>3. ~Cor(i)!IsChild(b)
    BY <2>1, CorPair, CorSizes DEF Cor!IsChild
  <2> QED
    BY <2>1, <2>2, <2>3
<1>5. \A k \in Cor(i)!Jobs : k < b => Cor(i)!Begun(k)
  <2>1. SUFFICES ASSUME NEW k \in Cor(i)!Jobs, k < b PROVE Cor(i)!Begun(k)
    OBVIOUS
  <2>2. coJob[k].st # "none"
    BY <1>1, <2>1 DEF CorJobsFit, Cor!QueueFits
  <2>3. ~Cor(i)!Blocks(k)
    BY <2>1, CorSizes DEF CorLaunches, Cor!Next1, Cor!Jobs
  <2> QED
    BY <2>2, <2>3 DEF Cor!Blocks, Cor!Begun
<1>6. Cor(i)!QueueFits'
  <2>1. \A j \in Cor(i)!Jobs : Cor(i)!Executing(j)' <=> coJob'[j].tok # 0
    BY <1>1 DEF CorJobsFit, Cor!QueueFits, Cor!Executing
  <2>2. \A j \in Cor(i)!Jobs : given'[j] <= 1 /\ (given'[j] # 0 => Cor(i)!Begun(j)')
    <3>1. given[b] = 0
      BY <1>4 DEF CorJobsFit, Cor!QueueFits
    <3>2. \A j \in Cor(i)!Jobs : (j # b => given'[j] = given[j]) /\ given'[b] \in {0, 1}
      BY <3>1 DEF CorLaunches, Cor!Typed
    <3> QED
      BY <1>3, <3>2 DEF CorJobsFit, Cor!QueueFits
  <2>3. \A j, k \in Cor(i)!Jobs : k < j /\ Cor(i)!Begun(j)' => Cor(i)!Begun(k)'
    BY <1>3, <1>5 DEF CorJobsFit, Cor!QueueFits
  <2>4. \A j \in Cor(i)!Jobs : coJob'[j].st = "none" <=> coJob[j].st = "none"
    BY <1>1
  <2> QED
    BY <2>1, <2>2, <2>3, <2>4 DEF CorJobsFit, Cor!QueueFits
<1>7. Cor(i)!ChildrenFit'
  <2>1. \A p \in Cor(i)!Jobs : child[p].job # 0 => p # b /\ child[p].job # b
    BY <1>4, CorPair DEF Cor!IsChild
  <2> QED
    BY <1>1, <1>2, <1>3, <2>1, CorPair DEF CorJobsFit, Cor!ChildrenFit, Cor!Executing
<1>8. Cor(i)!PairEndsTogether'
  <2>1. \A p \in Cor(i)!Jobs : child[p].job # 0 => p # b /\ child[p].job # b
    BY <1>4, CorPair DEF Cor!IsChild
  <2> QED
    BY <1>1, <1>2, <2>1, CorPair DEF CorJobsFit, Cor!PairEndsTogether
<1>9. Cor(i)!TextsFit' /\ Cor(i)!CancelledIsCovered'
  BY <1>1, <1>2 DEF CorJobsFit, Cor!TextsFit, Cor!CancelledIsCovered, Cor!IsChild
<1> QED
  BY <1>2, <1>3, <1>4, <1>6, <1>7, <1>8, <1>9 DEF CorJobsFit, CorOnward

\* A reserved correction is the next of the queue, bound to the parent alone.
LEMMA CorReservation ==
    ASSUME NEW i \in DOMAIN Corrections,
           Cor(i)!Typed, CorJobsFit(i), NEW p \in Cor(i)!Jobs, NEW t, NEW c \in Cor(i)!Jobs,
           CorReserves(i, p, t, c)
    PROVE  /\ CorJobsFit(i)' /\ CorOnward(i) /\ Cor(i)!Begun(c)' /\ ~Cor(i)!Begun(c)
           /\ child[p].job = 0 /\ p < c /\ p # c
           /\ \A j \in Cor(i)!Jobs : Cor(i)!IsChild(j)' <=> Cor(i)!IsChild(j) \/ j = c
           /\ \A j \in Cor(i)!Jobs : child'[j].job = IF j = p THEN c ELSE child[j].job
<1>1. /\ Cor(i)!Executing(p) /\ text[p] = {} /\ child[p].job = 0 /\ p \notin stopped
      /\ p < c /\ coJob[c].st = "queued" /\ \A k \in Cor(i)!Jobs : k > p /\ Cor(i)!Blocks(k)
             => c <= k
  BY DEF CorReserves, Cor!Candidates, Cor!Admits, Cor!Owner, Cor!Leased, Cor!Heads, Cor!Compatible
<1>2. p # c /\ Cor(i)!Begun(p) /\ ~Cor(i)!Begun(c)
  BY <1>1, CorSizes DEF Cor!Executing, Cor!Begun
<1>3. \A j \in Cor(i)!Jobs : /\ j = c => /\ coJob'[j].st = "executing" /\ coJob'[j].tok # 0
                                          /\ coJob'[j].left = coJob[p].left
                             /\ j # c => coJob'[j] = coJob[j]
  <2>1. coJob \in [Cor(i)!Jobs -> Cor(i)!JobRow]
    BY DEF Cor!Typed
  <2>2. coJob' = [coJob EXCEPT ![c] = [@ EXCEPT !.st = "executing", !.tok = Cor(i)!Fresh,
                                               !.left = coJob[p].left]]
    BY <2>1 DEF CorReserves, Cor!Reserved, Cor!JobRow
  <2>3. /\ coJob'[c].st = "executing" /\ coJob'[c].tok = Cor(i)!Fresh
        /\ coJob'[c].left = coJob[p].left
        /\ \A j \in Cor(i)!Jobs : j # c => coJob'[j] = coJob[j]
    BY <2>1, <2>2 DEF Cor!JobRow
  <2> QED
    BY <2>3, CorFresh
<1>4. \A j \in Cor(i)!Jobs : child'[j].job = IF j = p THEN c ELSE child[j].job
  BY DEF CorReserves, Cor!Reserved, Cor!Typed, Cor!ChildRow
<1>5. UNCHANGED <<text, stopped>>
  BY DEF CorReserves
<1>6. \A j \in Cor(i)!Jobs : Cor(i)!Begun(j)' <=> Cor(i)!Begun(j) \/ j = c
  BY <1>3 DEF Cor!Begun
<1>7. \A q \in Cor(i)!Jobs : child[q].job # 0 =>
         q # p /\ q # c /\ child[q].job # p /\ child[q].job # c
  BY <1>1, <1>2, CorPair DEF CorReserves, Cor!IsChild
<1>8. child[c].job = 0
  BY <1>7
<1>9. \A k \in Cor(i)!Jobs : k < c => Cor(i)!Begun(k)
  <2>1. SUFFICES ASSUME NEW k \in Cor(i)!Jobs, k < c PROVE Cor(i)!Begun(k)
    OBVIOUS
  <2>2. CASE k < p
    BY <1>2, <2>2 DEF CorJobsFit, Cor!QueueFits
  <2>3. CASE k = p
    BY <1>2, <2>3
  <2>4. CASE k > p
    <3>1. ~Cor(i)!Blocks(k) /\ coJob[k].st # "none"
      BY <1>1, <2>1, <2>4, CorSizes DEF CorJobsFit, Cor!QueueFits
    <3> QED
      BY <3>1 DEF Cor!Blocks, Cor!Begun
  <2> QED
    BY <2>2, <2>3, <2>4, CorSizes
<1>10. Cor(i)!QueueFits'
  <2>1. \A j \in Cor(i)!Jobs : Cor(i)!Executing(j)' <=> coJob'[j].tok # 0
    BY <1>3 DEF CorJobsFit, Cor!QueueFits, Cor!Executing
  <2>2. \A j \in Cor(i)!Jobs : given'[j] <= 1 /\ (given'[j] # 0 => Cor(i)!Begun(j)')
    <3>1. given[c] = 0
      BY <1>2 DEF CorJobsFit, Cor!QueueFits
    <3>2. \A j \in Cor(i)!Jobs : (j # c => given'[j] = given[j]) /\ given'[c] \in {0, 1}
      BY <3>1 DEF CorReserves, Cor!Typed
    <3> QED
      BY <1>6, <3>2 DEF CorJobsFit, Cor!QueueFits
  <2>3. \A j, k \in Cor(i)!Jobs : k < j /\ Cor(i)!Begun(j)' => Cor(i)!Begun(k)'
    BY <1>6, <1>9 DEF CorJobsFit, Cor!QueueFits
  <2>4. \A j \in Cor(i)!Jobs : coJob'[j].st = "none" <=> coJob[j].st = "none"
    BY <1>1, <1>3
  <2> QED
    BY <2>1, <2>2, <2>3, <2>4 DEF CorJobsFit, Cor!QueueFits
<1>11. Cor(i)!ChildrenFit'
  <2>1. SUFFICES ASSUME NEW q \in Cor(i)!Jobs, child'[q].job # 0
                 PROVE  (/\ q < child[q].job /\ Cor(i)!Begun(q) /\ Cor(i)!Begun(child[q].job)
                         /\ child[child[q].job].job = 0
                         /\ q \in stopped => child[q].job \in stopped
                         /\ Cor(i)!Executing(q) => coJob[child[q].job].left = coJob[q].left)'
    <3>1. \A q, r \in Cor(i)!Jobs : child'[q].job # 0 /\ child'[q].job = child'[r].job => q = r
      BY <1>4, <1>7, CorPair, CorSizes
    <3> QED
      BY <3>1, Zenon DEF Cor!ChildrenFit
  <2>2. CASE q = p
    <3>1. child'[q].job = c
      BY <1>4, <2>2
    <3>2. Cor(i)!Begun(q)' /\ Cor(i)!Begun(c)' /\ child'[c].job = 0 /\ q \notin stopped'
      BY <1>1, <1>2, <1>4, <1>5, <1>6, <1>8, <2>2
    <3>3. coJob'[c].left = coJob'[q].left
      BY <1>2, <1>3, <2>2
    <3> QED
      BY <1>1, <2>2, <3>1, <3>2, <3>3 DEF Cor!Begun
  <2>3. CASE q # p
    <3>1. child'[q].job = child[q].job /\ child[q].job # 0 /\ child[q].job \in Cor(i)!Jobs
          /\ child[q].job # p /\ child[q].job # c /\ q # c
      BY <1>4, <1>7, <2>1, <2>3, CorPair
    <3>2. Cor(i)!Begun(q)' /\ coJob'[child[q].job].st \notin {"none", "queued"}
          /\ child'[child[q].job].job = 0
      BY <1>3, <1>4, <1>6, <3>1, CorPair DEF Cor!Begun
    <3>3. Cor(i)!Executing(q)' => coJob'[child[q].job].left = coJob'[q].left
      BY <1>3, <3>1, CorPair DEF Cor!Executing
    <3>4. q < child[q].job /\ (q \in stopped' => child[q].job \in stopped')
      BY <1>5, <3>1, CorPair
    <3> QED
      BY <3>1, <3>2, <3>3, <3>4 DEF Cor!Begun
  <2> QED
    BY <2>2, <2>3
<1>12. Cor(i)!PairEndsTogether'
  <2>1. SUFFICES ASSUME NEW q \in Cor(i)!Jobs, child'[q].job # 0
                 PROVE  LET x == coJob'[child'[q].job].st
                        IN CASE coJob'[q].st = "executing" -> x = "executing"
                             [] coJob'[q].st \in {"result_ready", "completed"} -> x = "completed"
                             [] coJob'[q].st = "cancelled" -> x = "cancelled"
                             [] OTHER -> x = "indeterminate"
    BY Zenon DEF Cor!PairEndsTogether
  <2>2. CASE q = p
    BY <1>1, <1>2, <1>3, <1>4, <2>2 DEF Cor!Executing
  <2>3. CASE q # p
    <3>1. child'[q] .job = child[q].job /\ child[q].job # 0 /\ child[q].job \in Cor(i)!Jobs
          /\ child[q].job # p /\ child[q].job # c /\ q # c
      BY <1>4, <1>7, <2>1, <2>3, CorPair
    <3> QED
      BY <1>3, <3>1 DEF CorJobsFit, Cor!PairEndsTogether
  <2> QED
    BY <2>2, <2>3
<1>13. \A j \in Cor(i)!Jobs : Cor(i)!IsChild(j)' <=> Cor(i)!IsChild(j) \/ j = c
  BY <1>1, <1>4, <1>7, CorSizes DEF Cor!IsChild
<1>14. Cor(i)!TextsFit'
  BY <1>1, <1>3, <1>4, <1>5, <1>13 DEF CorJobsFit, Cor!TextsFit
<1>15. Cor(i)!CancelledIsCovered'
  BY <1>3, <1>5 DEF CorJobsFit, Cor!CancelledIsCovered
<1> QED
  BY <1>1, <1>2, <1>4, <1>5, <1>6, <1>10, <1>11, <1>12, <1>13, <1>14, <1>15
     DEF CorJobsFit, CorOnward

\* The saved answer is of the parent and of the correction it has.
LEMMA CorSaving ==
    ASSUME NEW i \in DOMAIN Corrections,
           Cor(i)!Typed, CorJobsFit(i), NEW p \in Cor(i)!Jobs, NEW a, CorSaves(i, p, a)
    PROVE  CorJobsFit(i)' /\ CorOnward(i)
<1>1. UNCHANGED <<coJob, child, stopped, given>>
      /\ \A j \in Cor(i)!Jobs : text'[j] = IF j = p THEN a ELSE text[j]
  BY DEF CorSaves, Cor!Typed
<1>2. Cor(i)!QueueFits' /\ Cor(i)!CancelledIsCovered'
  BY <1>1 DEF CorJobsFit, Cor!QueueFits, Cor!CancelledIsCovered, Cor!Begun, Cor!Executing
<1>3. Cor(i)!ChildrenFit'
  BY <1>1 DEF CorJobsFit, Cor!ChildrenFit, Cor!Begun, Cor!Executing
<1>4. Cor(i)!PairEndsTogether'
  BY <1>1 DEF CorJobsFit, Cor!PairEndsTogether
<1>5. Cor(i)!TextsFit' /\ CorOnward(i)
  BY <1>1 DEF CorSaves, CorJobsFit, Cor!TextsFit, Cor!IsChild, CorOnward, Cor!Begun
<1> QED
  BY <1>2, <1>3, <1>4, <1>5 DEF CorJobsFit

\* Tables that stay as they are stay fit.
LEMMA CorStill ==
    ASSUME NEW i \in DOMAIN Corrections,
           CorJobsFit(i), CorSame(i)
    PROVE  CorJobsFit(i)' /\ CorOnward(i)
<1>1. Cor(i)!QueueFits' /\ Cor(i)!CancelledIsCovered'
  BY DEF CorSame, CorJobsFit, Cor!QueueFits, Cor!CancelledIsCovered, Cor!Begun, Cor!Executing
<1>2. Cor(i)!ChildrenFit'
  BY DEF CorSame, CorJobsFit, Cor!ChildrenFit, Cor!Begun, Cor!Executing
<1>3. Cor(i)!PairEndsTogether'
  BY DEF CorSame, CorJobsFit, Cor!PairEndsTogether
<1>4. Cor(i)!TextsFit' /\ CorOnward(i)
  BY DEF CorSame, CorJobsFit, Cor!TextsFit, Cor!IsChild, CorOnward, Cor!Begun
<1> QED
  BY <1>1, <1>2, <1>3, <1>4 DEF CorJobsFit

-----------------------------------------------------------------------------
(* The workers.                                                              *)

\* The others stay where they are.
CorOthers(i, w) == \A v \in Corrections[i].Workers : v # w => wk'[v] = wk[v] /\ nat'[v] = nat[v]

\* What a worker has in hand is touched by another's step only as far as the
\* tables are.
LEMMA CorSeatStays ==
    ASSUME NEW i \in DOMAIN Corrections,
           NEW v \in Corrections[i].Workers, Cor(i)!SeatFits(v), wk'[v] = wk[v],
           CorOnward(i), child' = child, Cor(i)!Typed
    PROVE  Cor(i)!SeatFits(v)'
<1>1. wk[v].job # 0 => wk[v].job \in Cor(i)!Jobs
  BY CorSeats, CorSizes DEF Cor!Jobs
<1>2. wk[v].job # 0 => Cor(i)!Begun(wk[v].job)' /\ ~Cor(i)!IsChild(wk[v].job)'
  BY <1>1 DEF CorOnward, Cor!SeatFits, Cor!IsChild, Cor!Begun
<1>3. wk[v].pc = "publish" => text'[wk[v].job] # {}
  BY <1>1 DEF CorOnward, Cor!SeatFits
<1>4. wk[v].pc = "fail" /\ wk[v].why = "stop" => wk[v].job \in stopped'
  BY DEF CorOnward, Cor!SeatFits
<1>5. Cor(i)!InTurn(v)' <=> Cor(i)!InTurn(v)
  BY DEF Cor!InTurn
<1> QED
  BY <1>2, <1>3, <1>4, <1>5 DEF Cor!SeatFits, Cor!Begun, Cor!IsChild

\* A worker's row still fits when another one reserves a correction.
LEMMA CorSeatWaits ==
    ASSUME NEW i \in DOMAIN Corrections,
           NEW v \in Corrections[i].Workers, Cor(i)!SeatFits(v), wk'[v] = wk[v], Cor(i)!Typed,
           CorJobsFit(i),
           NEW p \in Cor(i)!Jobs, NEW t, NEW c \in Cor(i)!Jobs, CorReserves(i, p, t, c),
           Cor(i)!InTurn(v) => wk[v].job # p
    PROVE  Cor(i)!SeatFits(v)'
<1>1. wk[v].job # 0 => wk[v].job \in Cor(i)!Jobs
  BY CorSeats, CorSizes DEF Cor!Jobs
<1>2. wk[v].job # 0 => Cor(i)!Begun(wk[v].job)' /\ ~Cor(i)!IsChild(wk[v].job)'
  BY <1>1, CorReservation DEF CorOnward, Cor!SeatFits, Cor!Begun
<1>3. wk[v].pc = "publish" => text'[wk[v].job] # {}
  BY <1>1, CorReservation DEF CorOnward, Cor!SeatFits
<1>4. wk[v].pc = "fail" /\ wk[v].why = "stop" => wk[v].job \in stopped'
  BY CorReservation DEF CorOnward, Cor!SeatFits
<1>5. Cor(i)!InTurn(v)' <=> Cor(i)!InTurn(v)
  BY DEF Cor!InTurn
<1>6. Cor(i)!InTurn(v) => child'[wk[v].job].job = child[wk[v].job].job
  BY <1>1, CorReservation DEF Cor!SeatFits, Cor!InTurn
<1> QED
  BY <1>2, <1>3, <1>4, <1>5, <1>6 DEF Cor!SeatFits, Cor!Begun, Cor!IsChild

\* A worker that leaves its turn.
LEMMA CorLeaves ==
    ASSUME NEW i \in DOMAIN Corrections,
           NEW w \in Corrections[i].Workers, Cor(i)!SeatFits(w), Cor(i)!Typed, CorOnward(i),
           wk'[w].job = wk[w].job, wk'[w].frames = wk[w].frames,
           wk'[w].receipts = wk[w].receipts,
           wk[w].job # 0 => ~Cor(i)!IsChild(wk[w].job)',
           \/ wk'[w].pc = "fail" /\ (wk'[w].why = "stop" => wk[w].job \in stopped)
           \/ wk'[w].pc = "publish" /\ text'[wk[w].job] # {}
           \/ wk'[w].pc \in {"bulk", "lease"},
           wk'[w].pc \in {"fail", "publish"} => wk[w].job # 0
    PROVE  Cor(i)!SeatFits(w)' /\ Cor(i)!StreamFits(w)' /\ ~Cor(i)!InTurn(w)'
<1>1. wk[w].job # 0 => wk[w].job \in Cor(i)!Jobs
  BY CorSeats, CorSizes DEF Cor!Jobs
<1>2. wk[w].job # 0 => Cor(i)!Begun(wk[w].job)'
  BY <1>1 DEF CorOnward, Cor!SeatFits, Cor!Begun
<1>3. ~Cor(i)!InTurn(w)'
  BY DEF Cor!InTurn
<1>4. Cor(i)!StreamFits(w)'
  BY DEF Cor!StreamFits
<1>5. wk'[w].pc = "fail" /\ wk'[w].why = "stop" => wk'[w].job \in stopped'
  BY DEF CorOnward
<1>6. Len(wk'[w].frames) <= 2 /\ Len(wk'[w].receipts) <= Len(wk'[w].frames)
  BY DEF Cor!SeatFits
<1>7. wk'[w].job # 0 => (Cor(i)!Begun(wk[w].job) /\ ~Cor(i)!IsChild(wk[w].job))'
  BY <1>2 DEF Cor!Begun, Cor!IsChild
<1>8. wk'[w].pc = "publish" => text'[wk'[w].job] # {}
  OBVIOUS
<1> QED
  BY <1>3, <1>4, <1>5, <1>6, <1>7, <1>8 DEF Cor!SeatFits

\* An idle worker has no turn, and its process has nothing to say.
LEMMA CorRests ==
    ASSUME NEW i \in DOMAIN Corrections,
           NEW w \in Corrections[i].Workers, NEW x \in {"idle", "bulk", "lease"},
           wk'[w] = [Cor(i)!Idle EXCEPT !.pc = x]
    PROVE  Cor(i)!SeatFits(w)' /\ Cor(i)!StreamFits(w)' /\ ~Cor(i)!InTurn(w)'
<1>1. /\ wk'[w].pc = x /\ wk'[w].job = 0 /\ wk'[w].frames = << >> /\ wk'[w].receipts = << >>
  BY DEF Cor!Idle
<1> QED
  BY <1>1 DEF Cor!SeatFits, Cor!StreamFits, Cor!InTurn

\* What a failure leaves of a turn.
LEMMA CorBreaks ==
    ASSUME NEW i \in DOMAIN Corrections,
           Cor(i)!Typed, NEW w \in Corrections[i].Workers, NEW y, Cor(i)!Broken(w, y)
    PROVE  /\ CorOthers(i, w)
           /\ wk'[w].job = wk[w].job /\ wk'[w].frames = wk[w].frames
           /\ wk'[w].receipts = wk[w].receipts
           /\ wk'[w].pc = "fail" /\ wk'[w].why = y
<1>1. wk'[w] = [wk[w] EXCEPT !.pc = "fail", !.why = y]
  BY DEF Cor!Broken, Cor!Typed
<1>2. CorOthers(i, w)
  BY DEF Cor!Broken, Cor!Typed, CorOthers
<1> QED
  BY <1>1, <1>2, CorSeats DEF Cor!Seat

\* A worker that goes on, or goes idle, over a process that stays as it is.
LEMMA CorGoes ==
    ASSUME NEW i \in DOMAIN Corrections,
           Cor(i)!Typed, NEW w \in Corrections[i].Workers, NEW x, NEW y, Cor(i)!Go(w, x, y),
           nat' = nat
    PROVE  /\ CorOthers(i, w)
           /\ x = "idle" => wk'[w] = [Cor(i)!Idle EXCEPT !.pc = "idle"]
           /\ x # "idle" => /\ wk'[w].job = wk[w].job /\ wk'[w].frames = wk[w].frames
                            /\ wk'[w].receipts = wk[w].receipts
                            /\ wk'[w].pc = x /\ wk'[w].why = y
<1>1. /\ x = "idle" => wk'[w] = Cor(i)!Idle
      /\ x # "idle" => wk'[w] = [wk[w] EXCEPT !.pc = x, !.why = y]
  BY DEF Cor!Go, Cor!Typed
<1>2. CorOthers(i, w)
  BY DEF Cor!Go, Cor!Typed, CorOthers
<1>3. Cor(i)!Idle = [Cor(i)!Idle EXCEPT !.pc = "idle"]
  BY DEF Cor!Idle
<1>4. x # "idle" => /\ wk'[w].job = wk[w].job /\ wk'[w].frames = wk[w].frames
                    /\ wk'[w].receipts = wk[w].receipts
                    /\ wk'[w].pc = x /\ wk'[w].why = y
  BY <1>1, CorSeats DEF Cor!Seat
<1> QED
  BY <1>1, <1>2, <1>3, <1>4

\* A worker that goes on keeps its job and what it has written and read.
LEMMA CorGoesOn ==
    ASSUME NEW i \in DOMAIN Corrections,
           Cor(i)!Typed, NEW w \in Corrections[i].Workers, NEW x, NEW y, x # "idle",
           Cor(i)!Go(w, x, y), nat' = nat
    PROVE  /\ wk'[w].job = wk[w].job /\ wk'[w].frames = wk[w].frames
           /\ wk'[w].receipts = wk[w].receipts
           /\ wk'[w].pc = x /\ wk'[w].why = y
<1>1. wk'[w] = [wk[w] EXCEPT !.pc = x, !.why = y]
  BY DEF Cor!Go, Cor!Typed
<1> QED
  BY <1>1, CorSeats DEF Cor!Seat

\* A worker and a process that stay as they are fit each other as they did.
LEMMA CorStreamStays ==
    ASSUME NEW i \in DOMAIN Corrections,
           NEW v \in Corrections[i].Workers, Cor(i)!StreamFits(v), wk'[v] = wk[v], nat'[v] = nat[v]
    PROVE  Cor(i)!StreamFits(v)'
<1>1. \A k, x : /\ Cor(i)!Receipted(v, k, x)' <=> Cor(i)!Receipted(v, k, x)
                /\ Cor(i)!Answered(v, k, x)' <=> Cor(i)!Answered(v, k, x)
  BY DEF Cor!Receipted, Cor!Answered
<1>2. \A k : Cor(i)!EventFits(v, k)' <=> Cor(i)!EventFits(v, k)
  BY <1>1 DEF Cor!EventFits
<1> QED
  BY <1>1, <1>2 DEF Cor!StreamFits

\* What a worker's step has to show.
CorSeatDone(i, w) ==
    /\ CorJobsFit(i)' /\ CorOthers(i, w)
    /\ Cor(i)!SeatFits(w)' /\ Cor(i)!StreamFits(w)'
    /\ \A v \in Corrections[i].Workers : v # w => Cor(i)!SeatFits(v)'
    /\ Cor(i)!InTurn(w)' => \A v \in Corrections[i].Workers : v # w /\ Cor(i)!InTurn(v)
           => wk[v].job # wk'[w].job

\* The invariant, the types aside.
CorAllFit(i) ==
    /\ CorJobsFit(i) /\ Cor(i)!SeatsFit
    /\ \A w \in Corrections[i].Workers : Cor(i)!StreamFits(w)

\* What a step has to show is enough.
LEMMA CorSeatEnds ==
    ASSUME NEW i \in DOMAIN Corrections,
           CorAllFit(i), NEW w \in Corrections[i].Workers, CorSeatDone(i, w)
    PROVE  CorAllFit(i)'
<1>1. \A v \in Corrections[i].Workers : Cor(i)!SeatFits(v)'
  BY DEF CorSeatDone
<1>2. \A u, v \in Corrections[i].Workers : Cor(i)!InTurn(u)' /\ Cor(i)!InTurn(v)'
          /\ wk'[u].job = wk'[v].job => u = v
  BY DEF CorAllFit, CorSeatDone, Cor!SeatsFit, CorOthers, Cor!InTurn
<1>3. \A v \in Corrections[i].Workers : Cor(i)!StreamFits(v)'
  <2>1. SUFFICES ASSUME NEW v \in Corrections[i].Workers, v # w PROVE Cor(i)!StreamFits(v)'
    BY DEF CorSeatDone
  <2>2. Cor(i)!StreamFits(v) /\ wk'[v] = wk[v] /\ nat'[v] = nat[v]
    BY <2>1 DEF CorAllFit, CorSeatDone, CorOthers
  <2> QED
    BY <2>2, CorStreamStays
<1> QED
  BY <1>1, <1>2, <1>3 DEF CorAllFit, CorSeatDone, Cor!SeatsFit

\* A step that leaves the bindings alone.
LEMMA CorActs ==
    ASSUME NEW i \in DOMAIN Corrections,
           Cor(i)!Typed, CorAllFit(i), NEW w \in Corrections[i].Workers,
           CorJobsFit(i)', CorOnward(i), child' = child, CorOthers(i, w),
           Cor(i)!SeatFits(w)', Cor(i)!StreamFits(w)',
           ~Cor(i)!InTurn(w)' \/ (Cor(i)!InTurn(w) /\ wk'[w].job = wk[w].job)
    PROVE  CorSeatDone(i, w)
<1>1. \A v \in Corrections[i].Workers : v # w => Cor(i)!SeatFits(v)'
  BY CorSeatStays DEF CorAllFit, Cor!SeatsFit, CorOthers
<1>2. Cor(i)!InTurn(w)' => \A v \in Corrections[i].Workers : v # w /\ Cor(i)!InTurn(v)
          => wk[v].job # wk'[w].job
  BY DEF CorAllFit, Cor!SeatsFit
<1> QED
  BY <1>1, <1>2 DEF CorSeatDone

\* A step of the owner, the clock or the database alone.
LEMMA CorAlone ==
    ASSUME NEW i \in DOMAIN Corrections,
           Cor(i)!Typed, CorAllFit(i), CorJobsFit(i)', CorOnward(i), child' = child, wk' = wk,
           nat' = nat
    PROVE  CorAllFit(i)'
<1>1. \A v \in Corrections[i].Workers : Cor(i)!SeatFits(v)'
  BY CorSeatStays DEF CorAllFit, Cor!SeatsFit
<1>2. Cor(i)!SeatsFit'
  BY <1>1 DEF CorAllFit, Cor!SeatsFit, Cor!InTurn
<1>3. ASSUME NEW v \in Corrections[i].Workers PROVE Cor(i)!StreamFits(v)'
  <2>1. Cor(i)!StreamFits(v) /\ wk'[v] = wk[v] /\ nat'[v] = nat[v]
    BY DEF CorAllFit
  <2> QED
    BY <2>1, CorStreamStays
<1> QED
  BY <1>2, <1>3 DEF CorAllFit

\* Who is at work has a job of the topic, which is no correction.
LEMMA CorWorks ==
    ASSUME NEW i \in DOMAIN Corrections,
           Cor(i)!Typed, CorAllFit(i), NEW w \in Corrections[i].Workers
    PROVE  /\ Cor(i)!SeatFits(w) /\ Cor(i)!StreamFits(w) /\ CorJobsFit(i)
           /\ wk[w].job # 0 => wk[w].job \in Cor(i)!Jobs /\ ~Cor(i)!IsChild(wk[w].job)
                  /\ Cor(i)!Begun(wk[w].job)
           /\ wk[w].pc \in {"turn", "save", "publish", "fail", "recover"} => wk[w].job # 0
<1>1. Cor(i)!SeatFits(w) /\ Cor(i)!StreamFits(w) /\ CorJobsFit(i)
  BY DEF CorAllFit, Cor!SeatsFit
<1>2. wk[w].job # 0 => wk[w].job \in Cor(i)!Jobs
  BY CorSeats, CorSizes DEF Cor!Jobs
<1> QED
  BY <1>1, <1>2 DEF Cor!SeatFits

\* The search for lapsed leases.
LEMMA CorScan ==
    ASSUME NEW i \in DOMAIN Corrections,
           Cor(i)!Typed, CorAllFit(i), NEW w \in Corrections[i].Workers, Cor(i)!Scan(w)
    PROVE  CorSeatDone(i, w)
<1> DEFINE found == {j \in Cor(i)!Stale : ~Cor(i)!IsChild(j)}
<1>1. UNCHANGED <<child, text, stopped, given>> /\ nat' = nat
  BY DEF Cor!Scan, Cor!inputVars, Cor!ownerVars
<1>2. CASE found = {}
  <2>1. wk' = [wk EXCEPT ![w].pc = "bulk"] /\ coJob' = coJob
    BY <1>2 DEF Cor!Scan
  <2>2. /\ CorOthers(i, w) /\ wk'[w].job = wk[w].job /\ wk'[w].frames = wk[w].frames
        /\ wk'[w].receipts = wk[w].receipts /\ wk'[w].pc = "bulk"
    BY <1>1, <2>1, CorSeats DEF CorOthers, Cor!Typed, Cor!Seat
  <2>3. CorJobsFit(i)' /\ CorOnward(i)
    BY <1>1, <2>1, CorWorks, CorStill DEF CorSame
  <2>4. wk[w].job # 0 => ~Cor(i)!IsChild(wk[w].job)'
    BY <1>1, <2>2, CorWorks DEF Cor!IsChild
  <2>5. Cor(i)!SeatFits(w)' /\ Cor(i)!StreamFits(w)' /\ ~Cor(i)!InTurn(w)'
    BY <2>2, <2>3, <2>4, CorWorks, CorLeaves
  <2> QED
    BY <1>1, <2>2, <2>3, <2>5, CorActs
<1>3. CASE found # {}
  <2>1. PICK j \in found :
           /\ coJob' = Cor(i)!Renewed(j, Cor(i)!Fresh)
           /\ wk' = [wk EXCEPT ![w] = [Cor(i)!Idle EXCEPT !.pc = "recover", !.job = j,
                    !.tok = Cor(i)!Fresh]]
    BY <1>3 DEF Cor!Scan
  <2>2. j \in Cor(i)!Jobs /\ Cor(i)!Executing(j) /\ ~Cor(i)!IsChild(j)
    BY DEF Cor!Stale
  <2>3. CorRenews(i, j, Cor(i)!Fresh)
    BY <1>1, <2>1, <2>2, CorFresh DEF CorRenews
  <2>4. CorJobsFit(i)' /\ CorOnward(i)
    BY <2>2, <2>3, CorWorks, CorRenewal
  <2>5. /\ CorOthers(i, w) /\ wk'[w].job = j /\ wk'[w].frames = << >> /\ wk'[w].receipts = << >>
        /\ wk'[w].pc = "recover"
    BY <1>1, <2>1 DEF CorOthers, Cor!Typed, Cor!Idle
  <2>6. Cor(i)!Begun(j)' /\ ~Cor(i)!IsChild(j)'
    BY <1>1, <2>2, <2>4 DEF CorOnward, Cor!Begun, Cor!Executing, Cor!IsChild
  <2>7. Cor(i)!SeatFits(w)' /\ Cor(i)!StreamFits(w)' /\ ~Cor(i)!InTurn(w)'
    BY <2>2, <2>5, <2>6, CorSizes DEF Cor!SeatFits, Cor!StreamFits, Cor!InTurn, Cor!Begun,
         Cor!IsChild
  <2> QED
    BY <1>1, <2>4, <2>5, <2>7, CorActs
<1> QED
  BY <1>2, <1>3

\* The recovery of the jobs whose lease lapsed.
LEMMA CorBulkStep ==
    ASSUME NEW i \in DOMAIN Corrections,
           Cor(i)!Typed, CorAllFit(i), NEW w \in Corrections[i].Workers, Cor(i)!Bulk(w)
    PROVE  CorSeatDone(i, w)
<1>1. UNCHANGED <<child, text, stopped, given>> /\ nat' = nat
  BY DEF Cor!Bulk, Cor!inputVars, Cor!ownerVars
<1>2. CorJobsFit(i)' /\ CorOnward(i)
  BY <1>1, CorWorks, CorBulkEnds DEF Cor!Bulk, CorBulk
<1>3. /\ CorOthers(i, w) /\ wk'[w].job = wk[w].job /\ wk'[w].frames = wk[w].frames
      /\ wk'[w].receipts = wk[w].receipts /\ wk'[w].pc = "lease"
  BY <1>1, CorSeats DEF Cor!Bulk, CorOthers, Cor!Typed, Cor!Seat
<1>4. wk[w].job # 0 => ~Cor(i)!IsChild(wk[w].job)'
  BY <1>1, <1>3, CorWorks DEF Cor!IsChild
<1>5. Cor(i)!SeatFits(w)' /\ Cor(i)!StreamFits(w)' /\ ~Cor(i)!InTurn(w)'
  BY <1>2, <1>3, <1>4, CorWorks, CorLeaves
<1> QED
  BY <1>1, <1>2, <1>3, <1>5, CorActs

\* A worker that goes idle over tables that fit.
LEMMA CorGone ==
    ASSUME NEW i \in DOMAIN Corrections,
           Cor(i)!Typed, CorAllFit(i), NEW w \in Corrections[i].Workers, CorJobsFit(i)',
           CorOnward(i), child' = child,
           CorOthers(i, w), wk'[w] = Cor(i)!Idle
    PROVE  CorSeatDone(i, w)
<1>1. wk'[w] = [Cor(i)!Idle EXCEPT !.pc = "idle"]
  BY DEF Cor!Idle
<1>2. Cor(i)!SeatFits(w)' /\ Cor(i)!StreamFits(w)' /\ ~Cor(i)!InTurn(w)'
  BY <1>1, CorRests
<1> QED
  BY <1>2, CorActs

\* A worker that finds nothing to launch, or dies.
LEMMA CorNoLaunch ==
    ASSUME NEW i \in DOMAIN Corrections,
           Cor(i)!Typed, CorAllFit(i), NEW w \in Corrections[i].Workers,
           Cor(i)!NoLaunch(w) \/ Cor(i)!Die(w)
    PROVE  CorSeatDone(i, w)
<1>1. CorSame(i) /\ CorOthers(i, w) /\ wk'[w] = Cor(i)!Idle
  BY DEF Cor!NoLaunch, Cor!Die, CorSame, CorOthers, Cor!inputVars, Cor!ownerVars, Cor!Typed
<1>2. CorJobsFit(i)' /\ CorOnward(i)
  BY <1>1, CorWorks, CorStill
<1> QED
  BY <1>1, <1>2, CorGone DEF CorSame

\* A failure of the stream, and what follows it.
LEMMA CorBroken ==
    ASSUME NEW i \in DOMAIN Corrections,
           Cor(i)!Typed, CorAllFit(i), NEW w \in Corrections[i].Workers, NEW y,
           Cor(i)!Broken(w, y), Cor(i)!Running(w), CorSame(i),
           y = "stop" => wk[w].job \in stopped
    PROVE  CorSeatDone(i, w)
<1>1. CorJobsFit(i)' /\ CorOnward(i) /\ child' = child
  BY CorWorks, CorStill DEF CorSame
<1>2. wk[w].job # 0 /\ ~Cor(i)!IsChild(wk[w].job)'
  BY <1>1, CorBreaks, CorWorks DEF Cor!IsChild, Cor!Running
<1>3. Cor(i)!SeatFits(w)' /\ Cor(i)!StreamFits(w)' /\ ~Cor(i)!InTurn(w)'
  BY <1>1, <1>2, CorBreaks, CorWorks, CorLeaves
<1> QED
  BY <1>1, <1>3, CorBreaks, CorActs

\* A broken stream, a deadline and an interrupt end the turn.
LEMMA CorFaults ==
    ASSUME NEW i \in DOMAIN Corrections,
           Cor(i)!Typed, CorAllFit(i), NEW w \in Corrections[i].Workers,
           Cor(i)!StreamFault(w) \/ Cor(i)!Deadline(w) \/ Cor(i)!Interrupt(w)
    PROVE  CorSeatDone(i, w)
<1>1. CorSame(i) /\ Cor(i)!Running(w)
  BY DEF Cor!StreamFault, Cor!Deadline, Cor!Interrupt, CorSame, Cor!inputVars, Cor!ownerVars
<1>2. PICK y \in {"unknown", "stop"} : Cor(i)!Broken(w, y) /\ (y = "stop" => wk[w].job \in stopped)
  BY DEF Cor!StreamFault, Cor!Deadline, Cor!Interrupt
<1> QED
  BY <1>1, <1>2, CorBroken

\* Every way a turn is settled is a settlement.
LEMMA CorCommits ==
    ASSUME NEW i \in DOMAIN Corrections,
           Cor(i)!Typed, CorAllFit(i), NEW p \in Cor(i)!Jobs, NEW t, ~Cor(i)!IsChild(p),
           text[p] # {},
           Cor(i)!Commits(p, t), UNCHANGED <<child, text, stopped, given>>
    PROVE  \E s : CorSettles(i, p, s)
<1>1. CASE p \in stopped
  BY <1>1 DEF Cor!Commits, CorSettles
<1>2. CASE p \notin stopped
  BY <1>2 DEF Cor!Commits, CorSettles, Cor!Leased
<1> QED
  BY <1>1, <1>2

\* The end of a leased job changes nothing or settles it.
LEMMA CorTerminates ==
    ASSUME NEW i \in DOMAIN Corrections,
           Cor(i)!Typed, CorAllFit(i), NEW p \in Cor(i)!Jobs, NEW t, ~Cor(i)!IsChild(p),
           NEW x \in {"failed", "indeterminate"},
           Cor(i)!Terminates(p, t, x), UNCHANGED <<child, text, stopped, given>>
    PROVE  CorSame(i) \/ \E s : CorSettles(i, p, s)
<1> DEFINE end == IF x = "failed" /\ p \in stopped THEN "cancelled" ELSE x
           now == /\ end = "cancelled" \/ Cor(i)!Leased(p, t)
                  /\ Cor(i)!Executing(p) /\ coJob[p].tok = t /\ Cor(i)!Settleable(p, end)
<1>1. CASE now
  <2>1. coJob' = Cor(i)!Settled(p, end)
    BY <1>1 DEF Cor!Terminates
  <2>2. end \in {"cancelled", "indeterminate", "failed"} /\ (end = "cancelled" => p \in stopped)
    OBVIOUS
  <2> HIDE DEF end
  <2>3. CorSettles(i, p, end)
    BY <1>1, <2>1, <2>2 DEF CorSettles
  <2> QED
    BY <2>3
<1>2. CASE ~now
  BY <1>2 DEF Cor!Terminates, CorSame
<1> QED
  BY <1>1, <1>2

\* The recovery of a leased job changes nothing or settles it.
LEMMA CorRecovers ==
    ASSUME NEW i \in DOMAIN Corrections,
           Cor(i)!Typed, CorAllFit(i), NEW p \in Cor(i)!Jobs, NEW t, ~Cor(i)!IsChild(p),
           Cor(i)!RecoverLeased(p, t), UNCHANGED <<child, text, stopped, given>>
    PROVE  CorSame(i) \/ \E s : CorSettles(i, p, s)
<1>1. CASE Cor(i)!Leased(p, t) /\ Cor(i)!Bound(p) /\ text[p] # {} /\ Cor(i)!Commits(p, t)
  BY <1>1, CorCommits
<1>2. CASE Cor(i)!Terminates(p, t, "indeterminate")
  BY <1>2, CorTerminates
<1>3. CASE coJob' = coJob
  BY <1>3 DEF CorSame
<1> QED
  BY <1>1, <1>2, <1>3 DEF Cor!RecoverLeased

\* A worker that settles its job, or leaves it, and goes idle.
LEMMA CorSettlesAndGoes ==
    ASSUME NEW i \in DOMAIN Corrections,
           Cor(i)!Typed, CorAllFit(i), NEW w \in Corrections[i].Workers, NEW p \in Cor(i)!Jobs,
           CorSame(i) \/ \E s : CorSettles(i, p, s), Cor(i)!Go(w, "idle", "none"), nat' = nat
    PROVE  CorSeatDone(i, w)
<1>1. CorJobsFit(i)' /\ CorOnward(i) /\ child' = child
  BY CorWorks, CorStill, CorSettlement DEF CorSame, CorSettles
<1>2. CorOthers(i, w) /\ wk'[w] = Cor(i)!Idle
  BY CorGoes DEF Cor!Go, Cor!Typed
<1> QED
  BY <1>1, <1>2, CorGone

\* A worker's recovery of the job it holds.
LEMMA CorRecover ==
    ASSUME NEW i \in DOMAIN Corrections,
           Cor(i)!Typed, CorAllFit(i), NEW w \in Corrections[i].Workers, Cor(i)!Recover(w)
    PROVE  CorSeatDone(i, w)
<1>1. UNCHANGED <<child, text, stopped, given>> /\ nat' = nat
  BY DEF Cor!Recover, Cor!inputVars, Cor!ownerVars
<1>2. wk[w].job \in Cor(i)!Jobs /\ ~Cor(i)!IsChild(wk[w].job)
  BY CorWorks DEF Cor!Recover
<1>3. CorSame(i) \/ \E s : CorSettles(i, wk[w].job, s)
  BY <1>1, <1>2, CorRecovers DEF Cor!Recover
<1> QED
  BY <1>1, <1>2, <1>3, CorSettlesAndGoes DEF Cor!Recover

\* The record of a failed turn.
LEMMA CorRecordFailure ==
    ASSUME NEW i \in DOMAIN Corrections,
           Cor(i)!Typed, CorAllFit(i), NEW w \in Corrections[i].Workers, Cor(i)!RecordFailure(w)
    PROVE  CorSeatDone(i, w)
<1> DEFINE p == wk[w].job
           t == wk[w].tok
<1>1. UNCHANGED <<child, text, stopped, given>> /\ nat' = nat
  BY DEF Cor!RecordFailure, Cor!inputVars, Cor!ownerVars
<1>2. p \in Cor(i)!Jobs /\ ~Cor(i)!IsChild(p) /\ (wk[w].why = "stop" => p \in stopped)
  BY CorWorks DEF Cor!RecordFailure, Cor!SeatFits
<1>3. \/ Cor(i)!RecoverLeased(p, t)
      \/ /\ wk[w].why = "stop"
         /\ IF Cor(i)!Executing(p) /\ coJob[p].tok = t /\ Cor(i)!Settleable(p, "cancelled")
            THEN coJob' = Cor(i)!Settled(p, "cancelled") ELSE UNCHANGED coJob
      \/ Cor(i)!Terminates(p, t, "failed") \/ Cor(i)!Terminates(p, t, "indeterminate")
  BY DEF Cor!RecordFailure
<1>4. CorSame(i) \/ \E s : CorSettles(i, p, s)
  <2>1. CASE Cor(i)!RecoverLeased(p, t)
    BY <1>1, <1>2, <2>1, CorRecovers
  <2>2. CASE /\ wk[w].why = "stop"
             /\ IF Cor(i)!Executing(p) /\ coJob[p].tok = t /\ Cor(i)!Settleable(p, "cancelled")
                THEN coJob' = Cor(i)!Settled(p, "cancelled") ELSE UNCHANGED coJob
    BY <1>1, <1>2, <2>2 DEF CorSettles, CorSame
  <2>3. CASE Cor(i)!Terminates(p, t, "failed") \/ Cor(i)!Terminates(p, t, "indeterminate")
    BY <1>1, <1>2, <2>3, CorTerminates
  <2> QED
    BY <1>3, <2>1, <2>2, <2>3
<1> QED
  BY <1>1, <1>2, <1>4, CorSettlesAndGoes DEF Cor!RecordFailure

\* The publication of an answer.
LEMMA CorPublish ==
    ASSUME NEW i \in DOMAIN Corrections,
           Cor(i)!Typed, CorAllFit(i), NEW w \in Corrections[i].Workers, Cor(i)!Publish(w)
    PROVE  CorSeatDone(i, w)
<1> DEFINE p == wk[w].job
<1>1. UNCHANGED <<child, text, stopped, given>> /\ nat' = nat
  BY DEF Cor!Publish, Cor!inputVars, Cor!ownerVars
<1>2. p \in Cor(i)!Jobs /\ ~Cor(i)!IsChild(p) /\ text[p] # {}
  BY CorWorks DEF Cor!Publish, Cor!SeatFits
<1>3. CASE Cor(i)!Commits(p, wk[w].tok) /\ Cor(i)!Go(w, "idle", "none")
  BY <1>1, <1>2, <1>3, CorCommits, CorSettlesAndGoes
<1>4. CASE coJob' = coJob /\ Cor(i)!Go(w, "fail", "unknown")
  <2>1. CorJobsFit(i)' /\ CorOnward(i)
    BY <1>1, <1>4, CorWorks, CorStill DEF CorSame
  <2>2. /\ wk'[w].job = wk[w].job /\ wk'[w].frames = wk[w].frames
        /\ wk'[w].receipts = wk[w].receipts /\ wk'[w].pc = "fail" /\ wk'[w].why = "unknown"
    <3>1. Cor(i)!Go(w, "fail", "unknown") /\ nat' = nat /\ "fail" # "idle"
      BY <1>1, <1>4
    <3> QED
      BY <3>1, CorGoesOn
  <2>3. Cor(i)!SeatFits(w)' /\ Cor(i)!StreamFits(w)' /\ ~Cor(i)!InTurn(w)'
    <3>1. ~Cor(i)!IsChild(wk[w].job)' /\ wk[w].job # 0
      BY <1>1, <1>2, <2>2, CorSizes DEF Cor!IsChild
    <3>2. Cor(i)!SeatFits(w)
      BY CorWorks
    <3> QED
      BY <2>1, <2>2, <3>1, <3>2, CorLeaves
  <2> QED
    BY <1>1, <1>4, <2>1, <2>3, CorGoes, CorActs
<1> QED
  BY <1>3, <1>4 DEF Cor!Publish

\* Sequences of at most two jobs, and what is put behind or taken from an output.
LEMMA CorShort ==
    ASSUME NEW i \in DOMAIN Corrections
    PROVE  /\ \A a : Len(<<a>>) = 1 /\ <<a>>[1] = a
           /\ \A a, b : Len(<<a, b>>) = 2 /\ <<a, b>>[1] = a /\ <<a, b>>[2] = b
           /\ \A a, b \in Cor(i)!Jobs : Append(<<a>>, b) = <<a, b>>
<1>1. \A a : Len(<<a>>) = 1 /\ <<a>>[1] = a
  OBVIOUS
<1>2. \A a, b : Len(<<a, b>>) = 2 /\ <<a, b>>[1] = a /\ <<a, b>>[2] = b
  OBVIOUS
<1>3. ASSUME NEW a \in Cor(i)!Jobs, NEW b \in Cor(i)!Jobs PROVE Append(<<a>>, b) = <<a, b>>
  <2>1. <<a>> \in Seq(Cor(i)!Jobs) /\ <<a, b>> \in Seq(Cor(i)!Jobs)
        /\ Append(<<a>>, b) \in Seq(Cor(i)!Jobs)
    OBVIOUS
  <2>2. /\ Len(Append(<<a>>, b)) = 2 /\ Append(<<a>>, b)[1] = a /\ Append(<<a>>, b)[2] = b
    BY AppendProperties
  <2>3. Len(Append(<<a>>, b)) = Len(<<a, b>>)
    BY <1>2, <2>2
  <2>4. \A n \in 1 .. Len(Append(<<a>>, b)) : Append(<<a>>, b)[n] = <<a, b>>[n]
    <3>1. \A n \in 1 .. 2 : n = 1 \/ n = 2
      OBVIOUS
    <3> QED
      BY <1>2, <2>2, <3>1
  <2> QED
    BY <2>1, <2>3, <2>4, SeqEqual
<1> QED
  BY <1>1, <1>2, <1>3

\* What is put behind a sequence leaves its elements where they are.
LEMMA CorAppended ==
    ASSUME NEW i \in DOMAIN Corrections,
           NEW S, NEW o \in Seq(S), NEW e \in S
    PROVE  /\ o \o <<e>> \in Seq(S) /\ Append(o, e) \in Seq(S)
           /\ Len(o) \in Nat /\ Len(o \o <<e>>) = Len(o) + 1 /\ Len(Append(o, e)) = Len(o) + 1
           /\ \A k \in 1 .. Len(o) : (o \o <<e>>)[k] = o[k] /\ Append(o, e)[k] = o[k]
           /\ (o \o <<e>>)[Len(o) + 1] = e /\ Append(o, e)[Len(o) + 1] = e
OBVIOUS

\* What is taken from a sequence moves the others up by one.
LEMMA CorTaken ==
    ASSUME NEW i \in DOMAIN Corrections,
           NEW S, NEW o \in Seq(S), o # << >>
    PROVE  /\ Head(o) \in S /\ Head(o) = o[1] /\ Tail(o) \in Seq(S)
           /\ Len(o) \in Nat /\ Len(o) >= 1 /\ Len(Tail(o)) = Len(o) - 1
           /\ \A k \in 1 .. Len(o) - 1 : Tail(o)[k] = o[k + 1]
OBVIOUS

\* The launch: the job becomes the only input of a new turn.
LEMMA CorLaunchStep ==
    ASSUME NEW i \in DOMAIN Corrections,
           Cor(i)!Typed, CorAllFit(i), NEW w \in Corrections[i].Workers, NEW b \in Cor(i)!Jobs,
           Cor(i)!Launch(w, b)
    PROVE  CorSeatDone(i, w)
<1>1. CorLaunches(i, b)
  BY DEF Cor!Launch, CorLaunches, Cor!ownerVars
<1>2. /\ CorJobsFit(i)' /\ CorOnward(i)
      /\ Cor(i)!Begun(b)' /\ ~Cor(i)!Begun(b) /\ child[b].job = 0 /\ ~Cor(i)!IsChild(b)
      /\ child' = child
  BY <1>1, CorWorks, CorLaunch DEF CorLaunches
<1>3. ~Cor(i)!IsChild(b)' /\ b # 0
  BY <1>2, CorSizes DEF Cor!IsChild
<1>4. CorOthers(i, w)
  BY DEF Cor!Launch, CorOthers, Cor!Typed
<1>5. Cor(i)!SeatFits(w)' /\ Cor(i)!StreamFits(w)' /\ wk'[w].job = b
  <2>1. CASE /\ wk' = [wk EXCEPT ![w] = [Cor(i)!Idle EXCEPT !.pc = "turn", !.job = b,
                      !.tok = Cor(i)!Fresh,
                                                            !.frames = <<b>>]]
             /\ nat' = [nat EXCEPT ![w] = [Cor(i)!NoNative EXCEPT !.on = TRUE, !.in = <<b>>]]
    <3>1. /\ wk'[w].pc = "turn" /\ wk'[w].job = b /\ wk'[w].frames = <<b>>
          /\ wk'[w].receipts = << >> /\ wk'[w].results = 0 /\ ~wk'[w].complete
          /\ nat'[w].in = <<b>> /\ nat'[w].acked = 0 /\ nat'[w].covered = 0
          /\ nat'[w].out = << >>
      BY <2>1 DEF Cor!Typed, Cor!Idle, Cor!NoNative
    <3>2. Cor(i)!SeatFits(w)'
      BY <1>2, <1>3, <3>1, CorShort DEF Cor!SeatFits, Cor!InTurn, Cor!Begun, Cor!IsChild
    <3>3. Cor(i)!StreamFits(w)'
      BY <3>1, CorShort DEF Cor!StreamFits
    <3> QED
      BY <3>1, <3>2, <3>3
  <2>2. CASE wk' = [wk EXCEPT ![w] = [Cor(i)!Idle EXCEPT !.pc = "fail", !.job = b,
                   !.tok = Cor(i)!Fresh,
                                                        !.why = "known"]]
    <3>1. /\ wk'[w].pc = "fail" /\ wk'[w].job = b /\ wk'[w].frames = << >>
          /\ wk'[w].receipts = << >> /\ wk'[w].why = "known"
      BY <2>2 DEF Cor!Typed, Cor!Idle
    <3>2. Cor(i)!SeatFits(w)'
      BY <1>2, <1>3, <3>1, CorShort DEF Cor!SeatFits, Cor!InTurn, Cor!Begun, Cor!IsChild
    <3>3. Cor(i)!StreamFits(w)'
      BY <3>1 DEF Cor!StreamFits
    <3> QED
      BY <3>1, <3>2, <3>3
  <2> QED
    BY <2>1, <2>2 DEF Cor!Launch
<1>6. \A v \in Corrections[i].Workers : v # w => Cor(i)!SeatFits(v)'
  BY <1>2, <1>4, CorWorks, CorSeatStays DEF CorOthers
<1>7. \A v \in Corrections[i].Workers : v # w /\ Cor(i)!InTurn(v) => wk[v].job # wk'[w].job
  BY <1>2, <1>5, CorWorks DEF Cor!InTurn
<1> QED
  BY <1>2, <1>4, <1>5, <1>6, <1>7 DEF CorSeatDone

\* The seal of the input.
LEMMA CorSeal ==
    ASSUME NEW i \in DOMAIN Corrections,
           Cor(i)!Typed, CorAllFit(i), NEW w \in Corrections[i].Workers, Cor(i)!Seal(w)
    PROVE  CorSeatDone(i, w)
<1>1. CorSame(i) /\ nat' = nat /\ wk' = [wk EXCEPT ![w].sealed = TRUE]
  BY DEF Cor!Seal, CorSame, Cor!inputVars, Cor!ownerVars
<1>2. /\ CorOthers(i, w) /\ wk'[w].pc = wk[w].pc /\ wk'[w].job = wk[w].job
      /\ wk'[w].frames = wk[w].frames /\ wk'[w].receipts = wk[w].receipts
      /\ wk'[w].results = wk[w].results /\ wk'[w].complete = wk[w].complete
      /\ wk'[w].answers = wk[w].answers /\ wk'[w].why = wk[w].why /\ nat'[w] = nat[w]
  BY <1>1, CorSeats DEF CorOthers, Cor!Typed, Cor!Seat
<1>3. CorJobsFit(i)' /\ CorOnward(i)
  BY <1>1, CorWorks, CorStill
<1>4. Cor(i)!SeatFits(w)'
  BY <1>1, <1>2, CorWorks DEF Cor!SeatFits, CorSame, Cor!Begun, Cor!IsChild, Cor!InTurn
<1>5. Cor(i)!StreamFits(w)'
  <2>1. \A k, x : /\ Cor(i)!Receipted(w, k, x)' <=> Cor(i)!Receipted(w, k, x)
                  /\ Cor(i)!Answered(w, k, x)' <=> Cor(i)!Answered(w, k, x)
    BY <1>2 DEF Cor!Receipted, Cor!Answered
  <2>2. \A k : Cor(i)!EventFits(w, k)' <=> Cor(i)!EventFits(w, k)
    BY <1>2, <2>1 DEF Cor!EventFits
  <2> QED
    BY <1>2, <2>1, <2>2, CorWorks DEF Cor!StreamFits
<1>6. Cor(i)!InTurn(w)' => Cor(i)!InTurn(w)
  BY <1>2 DEF Cor!InTurn
<1> QED
  BY <1>1, <1>2, <1>3, <1>4, <1>5, <1>6, CorActs DEF CorSame

\* The heartbeat renews the lease of the job.
LEMMA CorHeartbeat ==
    ASSUME NEW i \in DOMAIN Corrections,
           Cor(i)!Typed, CorAllFit(i), NEW w \in Corrections[i].Workers, Cor(i)!Heartbeat(w)
    PROVE  CorAllFit(i)'
<1>1. UNCHANGED <<child, text, stopped, given, wk, nat>>
  BY DEF Cor!Heartbeat, Cor!inputVars, Cor!ownerVars
<1>2. wk[w].job \in Cor(i)!Jobs /\ ~Cor(i)!IsChild(wk[w].job)
  BY CorWorks DEF Cor!Heartbeat
<1>3. Cor(i)!Executing(wk[w].job) /\ wk[w].tok \in Cor(i)!Tokens
  <2>1. coJob[wk[w].job].tok # 0 /\ coJob[wk[w].job].tok = wk[w].tok
    BY <1>2, CorWorks DEF Cor!Heartbeat, Cor!Leased, CorJobsFit, Cor!QueueFits
  <2> QED
    BY <1>2, <2>1, CorRows DEF Cor!Heartbeat, Cor!Leased, Cor!Some
<1>4. CorRenews(i, wk[w].job, wk[w].tok)
  BY <1>1, <1>2, <1>3 DEF Cor!Heartbeat, CorRenews
<1>5. CorJobsFit(i)' /\ CorOnward(i)
  BY <1>2, <1>4, CorWorks, CorRenewal
<1> QED
  BY <1>1, <1>5, CorAlone

\* The save of the answer, with every input it confirms.
LEMMA CorSaveStep ==
    ASSUME NEW i \in DOMAIN Corrections,
           Cor(i)!Typed, CorAllFit(i), NEW w \in Corrections[i].Workers, Cor(i)!Save(w)
    PROVE  CorSeatDone(i, w)
<1> DEFINE p == wk[w].job
<1>1. UNCHANGED <<coJob, child, stopped, given>> /\ nat' = nat
  BY DEF Cor!Save, Cor!inputVars, Cor!ownerVars
<1>2. p \in Cor(i)!Jobs /\ ~Cor(i)!IsChild(p) /\ wk[w].pc = "save"
  BY CorWorks DEF Cor!Save
<1>3. CASE /\ Cor(i)!Leased(p, wk[w].tok) /\ text' = [text EXCEPT ![p] = wk[w].answers]
           /\ Cor(i)!Go(w, "publish", "none")
  <2>1. {p} \cup ({child[p].job} \ {0}) \subseteq wk[w].answers
    <3>1. /\ wk[w].frames = IF child[p].job = 0 THEN <<p>> ELSE <<p, child[p].job>>
          /\ \A n \in DOMAIN wk[w].frames : wk[w].frames[n] \in wk[w].answers
      BY <1>2, CorWorks DEF Cor!SeatFits, Cor!InTurn
    <3>2. CASE child[p].job = 0
      BY <3>1, <3>2
    <3>3. CASE child[p].job # 0
      BY <3>1, <3>3
    <3> QED
      BY <3>2, <3>3
  <2>2. CorSaves(i, p, wk[w].answers)
    BY <1>1, <1>3, <2>1, CorSeats DEF CorSaves, Cor!Leased
  <2>3. CorJobsFit(i)' /\ CorOnward(i)
    BY <1>2, <2>2, CorWorks, CorSaving
  <2>4. text'[p] # {}
    BY <1>2, <1>3, <2>1 DEF Cor!Typed
  <2>5. /\ wk'[w].job = wk[w].job /\ wk'[w].frames = wk[w].frames
        /\ wk'[w].receipts = wk[w].receipts /\ wk'[w].pc = "publish"
    <3>1. Cor(i)!Go(w, "publish", "none") /\ nat' = nat /\ "publish" # "idle"
      BY <1>1, <1>3
    <3> QED
      BY <3>1, CorGoesOn
  <2>6. Cor(i)!SeatFits(w)' /\ Cor(i)!StreamFits(w)' /\ ~Cor(i)!InTurn(w)'
    <3>1. ~Cor(i)!IsChild(wk[w].job)' /\ wk[w].job # 0
      BY <1>1, <1>2, <2>5, CorSizes DEF Cor!IsChild
    <3>2. Cor(i)!SeatFits(w)
      BY CorWorks
    <3> QED
      BY <2>3, <2>4, <2>5, <3>1, <3>2, CorLeaves
  <2> QED
    BY <1>1, <1>3, <2>3, <2>6, CorGoes, CorActs
<1>4. CASE text' = text /\ Cor(i)!Go(w, "fail", "unknown")
  <2>1. CorJobsFit(i)' /\ CorOnward(i)
    BY <1>1, <1>4, CorWorks, CorStill DEF CorSame
  <2>2. /\ wk'[w].job = wk[w].job /\ wk'[w].frames = wk[w].frames
        /\ wk'[w].receipts = wk[w].receipts /\ wk'[w].pc = "fail" /\ wk'[w].why = "unknown"
    <3>1. Cor(i)!Go(w, "fail", "unknown") /\ nat' = nat /\ "fail" # "idle"
      BY <1>1, <1>4
    <3> QED
      BY <3>1, CorGoesOn
  <2>3. Cor(i)!SeatFits(w)' /\ Cor(i)!StreamFits(w)' /\ ~Cor(i)!InTurn(w)'
    <3>1. ~Cor(i)!IsChild(wk[w].job)' /\ wk[w].job # 0
      BY <1>1, <1>2, <2>2, CorSizes DEF Cor!IsChild
    <3>2. Cor(i)!SeatFits(w)
      BY CorWorks
    <3> QED
      BY <2>1, <2>2, <3>1, <3>2, CorLeaves
  <2> QED
    BY <1>1, <1>4, <2>1, <2>3, CorGoes, CorActs
<1> QED
  BY <1>3, <1>4 DEF Cor!Save

\* The inputs of a turn are its job and its correction, which differ.
LEMMA CorFrames ==
    ASSUME NEW i \in DOMAIN Corrections,
           Cor(i)!Typed, CorAllFit(i), NEW w \in Corrections[i].Workers, Cor(i)!InTurn(w)
    PROVE  /\ wk[w].job \in Cor(i)!Jobs /\ wk[w].frames \in Seq(Cor(i)!Jobs)
           /\ Len(wk[w].frames) \in {1, 2}
           /\ wk[w].frames[1] = wk[w].job
           /\ child[wk[w].job].job = 0 => wk[w].frames = <<wk[w].job>>
           /\ child[wk[w].job].job # 0 => wk[w].frames = <<wk[w].job, child[wk[w].job].job>>
           /\ \A m, n \in 1 .. Len(wk[w].frames) :
                 wk[w].frames[m] = wk[w].frames[n] => m = n
<1>1. wk[w].job \in Cor(i)!Jobs /\ wk[w].frames \in Seq(Cor(i)!Jobs) /\ CorJobsFit(i)
  BY CorWorks, CorSeats DEF Cor!InTurn
<1>2. /\ child[wk[w].job].job = 0 => wk[w].frames = <<wk[w].job>>
      /\ child[wk[w].job].job # 0 => wk[w].frames = <<wk[w].job, child[wk[w].job].job>>
  BY CorWorks DEF Cor!SeatFits
<1>3. child[wk[w].job].job # wk[w].job
  BY <1>1, CorPair, CorSizes
<1>4. CASE child[wk[w].job].job = 0
  <2>1. wk[w].frames[1] = wk[w].job /\ Len(wk[w].frames) = 1
    BY <1>2, <1>4, CorShort
  <2>2. \A m \in 1 .. 1 : m = 1
    OBVIOUS
  <2> QED
    BY <1>1, <1>2, <1>4, <2>1, <2>2
<1>5. CASE child[wk[w].job].job # 0
  <2>1. /\ wk[w].frames[1] = wk[w].job /\ wk[w].frames[2] = child[wk[w].job].job
        /\ Len(wk[w].frames) = 2
    BY <1>2, <1>5, CorShort
  <2>2. \A m \in 1 .. 2 : m = 1 \/ m = 2
    OBVIOUS
  <2> QED
    BY <1>1, <1>2, <1>3, <1>5, <2>1, <2>2
<1> QED
  BY <1>4, <1>5

\* How far the process of a turn is with them.
LEMMA CorStreams ==
    ASSUME NEW i \in DOMAIN Corrections,
           Cor(i)!Typed, CorAllFit(i), NEW w \in Corrections[i].Workers, wk[w].pc = "turn"
    PROVE  /\ nat[w].in = wk[w].frames /\ Len(wk[w].receipts) \in Nat
           /\ nat[w].acked \in Nat /\ nat[w].covered \in Nat /\ Len(nat[w].out) \in Nat
           /\ Len(wk[w].receipts) <= nat[w].acked /\ nat[w].covered <= nat[w].acked
           /\ nat[w].acked <= Len(wk[w].frames)
           /\ \A k \in 1 .. Len(nat[w].out) : Cor(i)!EventFits(w, k)
           /\ \A n \in 1 .. nat[w].covered : Cor(i)!Answered(w, Len(nat[w].out), nat[w].in[n])
<1>1. Cor(i)!StreamFits(w)
  BY CorWorks
<1>2. /\ Len(wk[w].receipts) \in Nat /\ nat[w].acked \in Nat /\ nat[w].covered \in Nat
      /\ Len(nat[w].out) \in Nat /\ nat[w].acked <= Len(nat[w].in)
  BY CorSeats
<1> QED
  BY <1>1, <1>2 DEF Cor!StreamFits

\* A correction is reserved and written to the process.
LEMMA CorTake ==
    ASSUME NEW i \in DOMAIN Corrections,
           Cor(i)!Typed, CorAllFit(i), NEW w \in Corrections[i].Workers, NEW c \in Cor(i)!Jobs,
           Cor(i)!Take(w, c)
    PROVE  CorSeatDone(i, w)
<1> DEFINE p == wk[w].job
           t == wk[w].tok
<1>1. /\ wk[w].pc = "turn" /\ Cor(i)!InTurn(w) /\ ~wk[w].complete /\ Len(wk[w].frames) = 1
      /\ p \in Cor(i)!Jobs /\ ~Cor(i)!IsChild(p)
  BY CorWorks DEF Cor!Take, Cor!Polls, Cor!Running, Cor!InTurn
<1>2. CorReserves(i, p, t, c)
  BY <1>1 DEF Cor!Take, CorReserves, Cor!ownerVars
<1>3. /\ CorJobsFit(i)' /\ CorOnward(i) /\ Cor(i)!Begun(c)' /\ ~Cor(i)!Begun(c)
      /\ child[p].job = 0 /\ p < c /\ p # c
      /\ \A j \in Cor(i)!Jobs : Cor(i)!IsChild(j)' <=> Cor(i)!IsChild(j) \/ j = c
      /\ \A j \in Cor(i)!Jobs : child'[j].job = IF j = p THEN c ELSE child[j].job
  BY <1>1, <1>2, CorWorks, CorReservation
<1>4. /\ CorOthers(i, w) /\ wk'[w].pc = "turn" /\ wk'[w].job = p
      /\ wk'[w].frames = Append(wk[w].frames, c) /\ wk'[w].receipts = wk[w].receipts
      /\ wk'[w].results = wk[w].results /\ wk'[w].complete = wk[w].complete
      /\ wk'[w].answers = wk[w].answers /\ wk'[w].why = wk[w].why
      /\ nat'[w].in = Append(nat[w].in, c) /\ nat'[w].acked = nat[w].acked
      /\ nat'[w].covered = nat[w].covered /\ nat'[w].out = nat[w].out
  <2>1. /\ wk' = [wk EXCEPT ![w] = [wk[w] EXCEPT !.frames = Append(wk[w].frames, c)]]
        /\ nat' = [nat EXCEPT ![w] = [nat[w] EXCEPT !.in = Append(nat[w].in, c)]]
    BY DEF Cor!Take
  <2>2. CorOthers(i, w)
    BY <2>1 DEF CorOthers, Cor!Typed
  <2>3. /\ wk'[w] = [wk[w] EXCEPT !.frames = Append(wk[w].frames, c)] /\ wk[w] \in Cor(i)!Seat
        /\ nat'[w] = [nat[w] EXCEPT !.in = Append(nat[w].in, c)] /\ nat[w] \in Cor(i)!Process
    BY <2>1, CorSeats DEF Cor!Typed
  <2>4. /\ wk'[w].pc = wk[w].pc /\ wk'[w].job = p
        /\ wk'[w].frames = Append(wk[w].frames, c) /\ wk'[w].receipts = wk[w].receipts
        /\ wk'[w].results = wk[w].results /\ wk'[w].complete = wk[w].complete
        /\ wk'[w].answers = wk[w].answers /\ wk'[w].why = wk[w].why
    BY <2>3 DEF Cor!Seat
  <2>5. /\ nat'[w].in = Append(nat[w].in, c) /\ nat'[w].acked = nat[w].acked
        /\ nat'[w].covered = nat[w].covered /\ nat'[w].out = nat[w].out
    BY <2>3 DEF Cor!Process
  <2> QED
    BY <1>1, <2>2, <2>4, <2>5
<1>5. wk'[w].frames = <<p, c>> /\ wk[w].frames = <<p>>
  <2>1. wk[w].frames = <<p>>
    BY <1>1, <1>3, CorFrames
  <2> QED
    BY <1>1, <1>4, <2>1, CorShort
<1>6. Cor(i)!SeatFits(w)'
  <2>1. (Cor(i)!Begun(wk[w].job) /\ ~Cor(i)!IsChild(wk[w].job))'
    BY <1>1, <1>3, <1>4, CorWorks DEF CorOnward, Cor!Begun, Cor!IsChild
  <2>2. Len(wk'[w].frames) = 2 /\ Len(wk[w].receipts) <= 1
    BY <1>1, <1>5, CorShort, CorWorks DEF Cor!SeatFits
  <2>3. c # 0 /\ child'[wk'[w].job].job = c
    BY <1>1, <1>3, <1>4, CorSizes
  <2>4. Len(wk[w].receipts) \in Nat
    BY CorSeats
  <2>5. (wk[w].frames = IF child[wk[w].job].job = 0 THEN <<wk[w].job>>
                        ELSE <<wk[w].job, child[wk[w].job].job>>)'
    BY <1>4, <1>5, <2>3
  <2>6. wk'[w].results # 2 /\ ~wk'[w].complete /\ p # 0
    BY <1>1, <1>4, CorWorks, CorSizes DEF Cor!SeatFits
  <2>7. Len(wk'[w].frames) <= 2 /\ Len(wk'[w].receipts) <= Len(wk'[w].frames)
    BY <1>4, <2>2, <2>4
  <2> QED
    BY <1>4, <2>1, <2>5, <2>6, <2>7 DEF Cor!SeatFits
<1>7. Cor(i)!StreamFits(w)'
  <2>1. nat[w].in = wk[w].frames /\ nat'[w].in = wk'[w].frames
    BY <1>1, <1>4, CorWorks DEF Cor!StreamFits
  <2>2. /\ Len(wk[w].receipts) <= nat[w].acked /\ nat[w].covered <= nat[w].acked
        /\ nat[w].acked <= 1 /\ Len(nat'[w].in) = 2 /\ nat[w].acked \in Nat
        /\ Len(wk[w].receipts) \in Nat /\ nat[w].covered \in Nat
    <3>1. Len(wk'[w].frames) = 2 /\ Len(wk[w].frames) = 1
      BY <1>1, <1>5, CorShort
    <3>2. /\ Len(wk[w].receipts) <= nat[w].acked /\ nat[w].covered <= nat[w].acked
          /\ nat[w].acked <= Len(wk[w].frames) /\ nat[w].acked \in Nat
          /\ Len(wk[w].receipts) \in Nat /\ nat[w].covered \in Nat
      BY <1>1, CorStreams
    <3> QED
      BY <2>1, <3>1, <3>2
  <2>3. \A n \in 1 .. nat[w].acked : nat'[w].in[n] = nat[w].in[n]
    BY <1>5, <2>1, <2>2, CorShort
  <2>4. \A k, x : /\ Cor(i)!Receipted(w, k, x)' <=> Cor(i)!Receipted(w, k, x)
                  /\ Cor(i)!Answered(w, k, x)' <=> Cor(i)!Answered(w, k, x)
    BY <1>4, <2>2, <2>3 DEF Cor!Receipted, Cor!Answered
  <2>5. \A k \in 1 .. Len(nat[w].out) : Cor(i)!EventFits(w, k)'
    BY <1>1, <1>4, <2>2, <2>3, <2>4, CorWorks DEF Cor!StreamFits, Cor!EventFits
  <2>6. \A n \in 1 .. nat[w].covered : Cor(i)!Answered(w, Len(nat[w].out), nat[w].in[n])
    BY <1>1, CorWorks DEF Cor!StreamFits
  <2>7. \A n \in 1 .. nat[w].covered : Cor(i)!Answered(w, Len(nat[w].out), nat[w].in[n])'
    BY <1>4, <2>2, <2>3, <2>6 DEF Cor!Answered
  <2> QED
    BY <1>4, <2>1, <2>2, <2>5, <2>7 DEF Cor!StreamFits
<1>8. \A v \in Corrections[i].Workers : v # w
          => Cor(i)!SeatFits(v)' /\ (Cor(i)!InTurn(v) => wk[v].job # p)
  <2>1. \A v \in Corrections[i].Workers : v # w /\ Cor(i)!InTurn(v) => wk[v].job # p
    BY <1>1 DEF CorAllFit, Cor!SeatsFit
  <2> QED
    BY <1>1, <1>2, <1>4, <2>1, CorWorks, CorSeatWaits DEF CorOthers
<1> QED
  BY <1>3, <1>4, <1>6, <1>7, <1>8 DEF CorSeatDone

\* A reservation whose commit fails on the way back ends the turn.
LEMMA CorAmbiguousTake ==
    ASSUME NEW i \in DOMAIN Corrections,
           Cor(i)!Typed, CorAllFit(i), NEW w \in Corrections[i].Workers, NEW c \in Cor(i)!Jobs,
           Cor(i)!AmbiguousTake(w, c)
    PROVE  CorSeatDone(i, w)
<1> DEFINE p == wk[w].job
           t == wk[w].tok
<1>1. wk[w].pc = "turn" /\ Cor(i)!InTurn(w) /\ p \in Cor(i)!Jobs /\ ~Cor(i)!IsChild(p)
  BY CorWorks DEF Cor!AmbiguousTake, Cor!Polls, Cor!Running, Cor!InTurn
<1>2. CorReserves(i, p, t, c) /\ Cor(i)!Broken(w, "unknown")
  BY <1>1 DEF Cor!AmbiguousTake, CorReserves, Cor!ownerVars
<1>3. /\ CorJobsFit(i)' /\ CorOnward(i) /\ p # c
      /\ \A j \in Cor(i)!Jobs : Cor(i)!IsChild(j)' <=> Cor(i)!IsChild(j) \/ j = c
  BY <1>1, <1>2, CorWorks, CorReservation
<1>4. wk[w].job # 0 => ~Cor(i)!IsChild(wk[w].job)'
  BY <1>1, <1>2, <1>3, CorBreaks DEF Cor!IsChild
<1>5. Cor(i)!SeatFits(w)' /\ Cor(i)!StreamFits(w)' /\ ~Cor(i)!InTurn(w)'
  BY <1>1, <1>2, <1>3, <1>4, CorBreaks, CorWorks, CorLeaves
<1>6. \A v \in Corrections[i].Workers : v # w => Cor(i)!SeatFits(v)'
  <2>1. \A v \in Corrections[i].Workers : v # w /\ Cor(i)!InTurn(v) => wk[v].job # p
    BY <1>1 DEF CorAllFit, Cor!SeatsFit
  <2> QED
    BY <1>1, <1>2, <2>1, CorBreaks, CorWorks, CorSeatWaits DEF CorOthers
<1> QED
  BY <1>2, <1>3, <1>5, <1>6, CorBreaks DEF CorSeatDone

\* What is read is the first event of the output.
LEMMA CorReadHead ==
    ASSUME NEW i \in DOMAIN Corrections,
           Cor(i)!Typed, CorAllFit(i), NEW w \in Corrections[i].Workers, wk[w].pc = "turn",
           nat[w].out # << >>
    PROVE  /\ Head(nat[w].out) = nat[w].out[1] /\ Head(nat[w].out) \in Cor(i)!Events
           /\ Len(nat[w].out) \in Nat /\ Len(nat[w].out) >= 1
           /\ Tail(nat[w].out) \in Seq(Cor(i)!Events)
           /\ Len(Tail(nat[w].out)) = Len(nat[w].out) - 1
           /\ \A k \in 1 .. Len(nat[w].out) - 1 : Tail(nat[w].out)[k] = nat[w].out[k + 1]
           /\ Cor(i)!EventFits(w, 1)
<1>1. nat[w].out \in Seq(Cor(i)!Events)
  BY CorSeats
<1>2. /\ Head(nat[w].out) = nat[w].out[1] /\ Head(nat[w].out) \in Cor(i)!Events
      /\ Len(nat[w].out) \in Nat /\ Len(nat[w].out) >= 1
      /\ Tail(nat[w].out) \in Seq(Cor(i)!Events)
      /\ Len(Tail(nat[w].out)) = Len(nat[w].out) - 1
      /\ \A k \in 1 .. Len(nat[w].out) - 1 : Tail(nat[w].out)[k] = nat[w].out[k + 1]
  BY <1>1, CorTaken
<1> QED
  BY <1>2, CorStreams

\* A receipt confirms the first input that has none.
LEMMA CorReceipt ==
    ASSUME NEW i \in DOMAIN Corrections,
           Cor(i)!Typed, CorAllFit(i), NEW w \in Corrections[i].Workers, wk[w].pc = "turn",
           nat[w].out # << >>,
           Head(nat[w].out).k = "receipt", Cor(i)!Expected(w, Head(nat[w].out).j), CorSame(i),
           NEW b \in 1 .. 2,
           wk' = [wk EXCEPT ![w].receipts = Append(@, b)],
           nat' = [nat EXCEPT ![w].out = Tail(@)]
    PROVE  CorSeatDone(i, w)
<1> DEFINE e == Head(nat[w].out)
           n == Len(wk[w].receipts)
<1>1. /\ CorOthers(i, w) /\ wk'[w].pc = "turn" /\ wk'[w].job = wk[w].job
      /\ wk'[w].frames = wk[w].frames /\ wk'[w].receipts = Append(wk[w].receipts, b)
      /\ wk'[w].results = wk[w].results /\ wk'[w].complete = wk[w].complete
      /\ wk'[w].answers = wk[w].answers /\ wk'[w].why = wk[w].why
      /\ nat'[w].in = nat[w].in /\ nat'[w].acked = nat[w].acked
      /\ nat'[w].covered = nat[w].covered /\ nat'[w].out = Tail(nat[w].out)
  <2>1. /\ wk' = [wk EXCEPT ![w] = [wk[w] EXCEPT !.receipts = Append(wk[w].receipts, b)]]
        /\ nat' = [nat EXCEPT ![w] = [nat[w] EXCEPT !.out = Tail(nat[w].out)]]
    OBVIOUS
  <2>2. CorOthers(i, w)
    BY <2>1 DEF CorOthers, Cor!Typed
  <2>3. /\ wk'[w] = [wk[w] EXCEPT !.receipts = Append(wk[w].receipts, b)] /\ wk[w] \in Cor(i)!Seat
        /\ nat'[w] = [nat[w] EXCEPT !.out = Tail(nat[w].out)] /\ nat[w] \in Cor(i)!Process
    BY <2>1, CorSeats DEF Cor!Typed
  <2>4. /\ wk'[w].pc = wk[w].pc /\ wk'[w].job = wk[w].job
        /\ wk'[w].frames = wk[w].frames /\ wk'[w].receipts = Append(wk[w].receipts, b)
        /\ wk'[w].results = wk[w].results /\ wk'[w].complete = wk[w].complete
        /\ wk'[w].answers = wk[w].answers /\ wk'[w].why = wk[w].why
    BY <2>3 DEF Cor!Seat
  <2>5. /\ nat'[w].in = nat[w].in /\ nat'[w].acked = nat[w].acked
        /\ nat'[w].covered = nat[w].covered /\ nat'[w].out = Tail(nat[w].out)
    BY <2>3 DEF Cor!Process
  <2> QED
    BY <2>2, <2>4, <2>5
<1>2. Cor(i)!InTurn(w) /\ Cor(i)!InTurn(w)'
  BY <1>1 DEF Cor!InTurn
<1>3. CorJobsFit(i)' /\ CorOnward(i) /\ child' = child
  BY CorWorks, CorStill DEF CorSame
<1>4. n \in Nat /\ Len(wk'[w].receipts) = n + 1
  BY <1>1, CorSeats, CorAppended
<1>5. n < Len(wk[w].frames) /\ e.j = wk[w].frames[n + 1] /\ Len(wk[w].frames) \in {1, 2}
  BY <1>2, CorFrames DEF Cor!Expected
<1>6. Cor(i)!SeatFits(w)'
  <2>1. (Cor(i)!Begun(wk[w].job) /\ ~Cor(i)!IsChild(wk[w].job))' /\ wk[w].job # 0
    BY <1>1, <1>3, CorWorks DEF CorOnward, Cor!Begun, Cor!IsChild
  <2>2. (wk[w].frames = IF child[wk[w].job].job = 0 THEN <<wk[w].job>>
                        ELSE <<wk[w].job, child[wk[w].job].job>>)'
    BY <1>1, <1>2, <1>3, CorWorks DEF Cor!SeatFits
  <2>3. /\ wk[w].results = 2 => wk[w].complete
        /\ wk[w].complete => \A m \in DOMAIN wk[w].frames : wk[w].frames[m] \in wk[w].answers
    BY <1>2, CorWorks DEF Cor!SeatFits
  <2>4. Len(wk'[w].frames) <= 2 /\ Len(wk'[w].receipts) <= Len(wk'[w].frames)
    <3>1. Len(wk'[w].frames) = Len(wk[w].frames) /\ Len(wk[w].frames) \in {1, 2}
      BY <1>1, <1>5
    <3>2. \A x \in Nat, y \in {1, 2} : x < y => y <= 2 /\ x + 1 <= y
      OBVIOUS
    <3>3. Len(wk[w].frames) <= 2 /\ n + 1 <= Len(wk[w].frames)
      BY <1>4, <1>5, <3>2
    <3> HIDE DEF n
    <3> QED
      BY <1>4, <3>1, <3>3
  <2> QED
    BY <1>1, <2>1, <2>2, <2>3, <2>4 DEF Cor!SeatFits
<1>7. Cor(i)!StreamFits(w)'
  <2>1. /\ nat[w].in = wk[w].frames /\ nat[w].acked \in Nat /\ nat[w].covered \in Nat
        /\ n <= nat[w].acked /\ nat[w].covered <= nat[w].acked
        /\ nat[w].acked <= Len(wk[w].frames)
        /\ \A k \in 1 .. Len(nat[w].out) : Cor(i)!EventFits(w, k)
        /\ \A m \in 1 .. nat[w].covered : Cor(i)!Answered(w, Len(nat[w].out), nat[w].in[m])
    BY CorStreams
  <2>2. /\ e = nat[w].out[1] /\ Len(nat[w].out) \in Nat /\ Len(nat[w].out) >= 1
        /\ Len(nat'[w].out) = Len(nat[w].out) - 1
        /\ \A k \in 1 .. Len(nat[w].out) - 1 : nat'[w].out[k] = nat[w].out[k + 1]
        /\ Cor(i)!EventFits(w, 1)
    BY <1>1, CorReadHead
  <2>3. n < nat[w].acked
    <3>1. PICK m \in 1 .. nat[w].acked : nat[w].in[m] = e.j
      BY <2>2 DEF Cor!EventFits
    <3>2. m \in 1 .. Len(wk[w].frames) /\ n + 1 \in 1 .. Len(wk[w].frames)
      BY <1>4, <1>5, <2>1
    <3>3. wk[w].frames[m] = wk[w].frames[n + 1]
      BY <1>5, <2>1, <3>1
    <3>4. m = n + 1
      BY <1>2, <3>2, <3>3, CorFrames
    <3> QED
      BY <1>4, <2>1, <3>4
  <2>4. e.answers = {}
    BY <2>2 DEF Cor!EventFits
  <2>5. \A k \in 1 .. Len(nat'[w].out) : \A x : Cor(i)!Receipted(w, k, x)'
            => Cor(i)!Receipted(w, k + 1, x)
    <3>1. SUFFICES ASSUME NEW k \in 1 .. Len(nat'[w].out), NEW x, Cor(i)!Receipted(w, k, x)'
                   PROVE  Cor(i)!Receipted(w, k + 1, x)
      BY Zenon
    <3>2. CASE \E m \in 1 .. n + 1 : nat[w].in[m] = x
      <4>1. PICK m \in 1 .. n + 1 : nat[w].in[m] = x
        BY <3>2
      <4>2. CASE m \in 1 .. n
        BY <4>1, <4>2 DEF Cor!Receipted
      <4>3. CASE m = n + 1
        <5>1. nat[w].out[1].k = "receipt" /\ nat[w].out[1].j = x
          BY <1>5, <2>1, <2>2, <4>1, <4>3
        <5>2. 1 \in 1 .. (k + 1) - 1
          BY <2>2, <3>1
        <5>3. \E l \in 1 .. (k + 1) - 1 : nat[w].out[l].k = "receipt" /\ nat[w].out[l].j = x
          BY <5>1, <5>2
        <5> QED
          BY <5>3 DEF Cor!Receipted
      <4> QED
        BY <1>4, <4>2, <4>3
    <3>3. CASE \E m \in 1 .. k - 1 : nat'[w].out[m].k = "receipt" /\ nat'[w].out[m].j = x
      <4>1. PICK m \in 1 .. k - 1 : nat'[w].out[m].k = "receipt" /\ nat'[w].out[m].j = x
        BY <3>3
      <4>2. m + 1 \in 1 .. k + 1 - 1 /\ nat'[w].out[m] = nat[w].out[m + 1]
        BY <2>2, <3>1
      <4> QED
        BY <4>1, <4>2 DEF Cor!Receipted
    <3> QED
      BY <1>1, <1>4, <3>1, <3>2, <3>3 DEF Cor!Receipted
  <2>6. \A k \in 0 .. Len(nat'[w].out) : \A x : Cor(i)!Answered(w, k + 1, x)
            => Cor(i)!Answered(w, k, x)'
    <3>1. SUFFICES ASSUME NEW k \in 0 .. Len(nat'[w].out), NEW x, Cor(i)!Answered(w, k + 1, x)
                   PROVE  Cor(i)!Answered(w, k, x)'
      BY Zenon
    <3>2. CASE x \in wk[w].answers
      BY <1>1, <3>2 DEF Cor!Answered
    <3>3. CASE \E m \in 1 .. k + 1 : x \in nat[w].out[m].answers
      <4>1. PICK m \in 1 .. k + 1 : x \in nat[w].out[m].answers
        BY <3>3
      <4>2. m # 1
        BY <2>2, <2>4, <4>1
      <4>3. m - 1 \in 1 .. k /\ nat'[w].out[m - 1] = nat[w].out[m]
        BY <2>2, <3>1, <4>2
      <4> QED
        BY <4>1, <4>3 DEF Cor!Answered
    <3> QED
      BY <3>1, <3>2, <3>3 DEF Cor!Answered
  <2>7. \A k \in 1 .. Len(nat'[w].out) : Cor(i)!EventFits(w, k)'
    <3>1. SUFFICES ASSUME NEW k \in 1 .. Len(nat'[w].out) PROVE Cor(i)!EventFits(w, k)'
      BY Zenon
    <3>2. k + 1 \in 1 .. Len(nat[w].out) /\ nat'[w].out[k] = nat[w].out[k + 1]
      BY <2>2, <3>1
    <3>3. Cor(i)!EventFits(w, k + 1)
      BY <2>1, <3>2
    <3>4. \A x : /\ Cor(i)!Receipted(w, k, x)' => Cor(i)!Receipted(w, k + 1, x)
                 /\ Cor(i)!Answered(w, k + 1, x) => Cor(i)!Answered(w, k, x)'
      BY <2>5, <2>6, <2>2
    <3> QED
      BY <1>1, <3>2, <3>3, <3>4 DEF Cor!EventFits
  <2>8. \A m \in 1 .. nat[w].covered : Cor(i)!Answered(w, Len(nat[w].out), nat[w].in[m])'
    <3>1. SUFFICES ASSUME NEW m \in 1 .. nat[w].covered
                   PROVE  Cor(i)!Answered(w, Len(nat[w].out), nat[w].in[m])'
      BY Zenon
    <3>2. Cor(i)!Answered(w, Len(nat[w].out), nat[w].in[m])
      BY <2>1
    <3>3. Len(nat'[w].out) \in 0 .. Len(nat'[w].out) /\ Len(nat'[w].out) + 1 = Len(nat[w].out)
      BY <2>2
    <3>4. \A x : Cor(i)!Answered(w, Len(nat[w].out), x) =>
             x \in wk'[w].answers \/ \E l \in 1 .. Len(nat'[w].out) : x \in nat'[w].out[l].answers
      BY <2>6, <3>3 DEF Cor!Answered
    <3> QED
      BY <1>1, <3>2, <3>4 DEF Cor!Answered
  <2> QED
    BY <1>1, <1>4, <2>1, <2>2, <2>3, <2>7, <2>8 DEF Cor!StreamFits
<1> QED
  BY <1>1, <1>2, <1>3, <1>6, <1>7, CorActs

\* A result answers the inputs that are receipted.
LEMMA CorResult ==
    ASSUME NEW i \in DOMAIN Corrections,
           Cor(i)!Typed, CorAllFit(i), NEW w \in Corrections[i].Workers, wk[w].pc = "turn",
           nat[w].out # << >>,
           Head(nat[w].out).k = "result", CorSame(i),
           NEW r \in 1 .. 2, NEW f \in BOOLEAN,
           wk' = [wk EXCEPT ![w] = [@ EXCEPT !.results = r, !.sealed = TRUE,
                     !.complete = Cor(i)!Whole(Cor(i)!Boundaries(w), r), !.failed = f,
                     !.answers = wk[w].answers \cup Head(nat[w].out).answers]],
           r = 2 => Cor(i)!Whole(Cor(i)!Boundaries(w), r),
           nat' = [nat EXCEPT ![w].out = Tail(@)]
    PROVE  CorSeatDone(i, w)
<1> DEFINE e == Head(nat[w].out)
           n == Len(wk[w].receipts)
<1>1. /\ CorOthers(i, w) /\ wk'[w].pc = "turn" /\ wk'[w].job = wk[w].job
      /\ wk'[w].frames = wk[w].frames /\ wk'[w].receipts = wk[w].receipts
      /\ wk'[w].results = r /\ wk'[w].complete = Cor(i)!Whole(Cor(i)!Boundaries(w), r)
      /\ wk'[w].answers = wk[w].answers \cup e.answers /\ wk'[w].why = wk[w].why
      /\ nat'[w].in = nat[w].in /\ nat'[w].acked = nat[w].acked
      /\ nat'[w].covered = nat[w].covered /\ nat'[w].out = Tail(nat[w].out)
  BY CorSeats DEF CorOthers, Cor!Typed, Cor!Seat, Cor!Process
<1>2. Cor(i)!InTurn(w) /\ Cor(i)!InTurn(w)'
  BY <1>1 DEF Cor!InTurn
<1>3. CorJobsFit(i)' /\ CorOnward(i) /\ child' = child
  BY CorWorks, CorStill DEF CorSame
<1>4. n \in Nat /\ wk[w].frames \in Seq(Cor(i)!Jobs) /\ Len(wk[w].frames) \in Nat
      /\ n <= Len(wk[w].frames)
  <2>1. Len(wk[w].receipts) \in Nat /\ wk[w].frames \in Seq(Cor(i)!Jobs)
        /\ Len(wk[w].frames) \in Nat
    BY CorSeats
  <2>2. Len(wk[w].receipts) <= Len(wk[w].frames)
    BY CorWorks DEF Cor!SeatFits
  <2> QED
    BY <2>1, <2>2
<1>5. /\ nat[w].in = wk[w].frames /\ nat[w].acked \in Nat /\ nat[w].covered \in Nat
      /\ n <= nat[w].acked /\ nat[w].covered <= nat[w].acked
      /\ nat[w].acked <= Len(wk[w].frames)
      /\ \A k \in 1 .. Len(nat[w].out) : Cor(i)!EventFits(w, k)
      /\ \A m \in 1 .. nat[w].covered : Cor(i)!Answered(w, Len(nat[w].out), nat[w].in[m])
  BY CorStreams
<1>6. /\ e = nat[w].out[1] /\ Len(nat[w].out) \in Nat /\ Len(nat[w].out) >= 1
      /\ Len(nat'[w].out) = Len(nat[w].out) - 1
      /\ \A k \in 1 .. Len(nat[w].out) - 1 : nat'[w].out[k] = nat[w].out[k + 1]
      /\ Cor(i)!EventFits(w, 1)
  <2>1. nat'[w].out = Tail(nat[w].out)
    BY <1>1
  <2>2. /\ e = nat[w].out[1] /\ Len(nat[w].out) \in Nat /\ Len(nat[w].out) >= 1
        /\ Len(Tail(nat[w].out)) = Len(nat[w].out) - 1
        /\ \A k \in 1 .. Len(nat[w].out) - 1 : Tail(nat[w].out)[k] = nat[w].out[k + 1]
        /\ Cor(i)!EventFits(w, 1)
    BY CorReadHead
  <2> QED
    BY <2>1, <2>2
<1>7. wk'[w].complete => \A m \in DOMAIN wk[w].frames : wk[w].frames[m] \in wk'[w].answers
  <2>1. SUFFICES ASSUME Cor(i)!Whole(Cor(i)!Boundaries(w), r), NEW m \in 1 .. Len(wk[w].frames)
                 PROVE  wk[w].frames[m] \in wk'[w].answers
    BY <1>1, <1>4
  <2>2. m <= n
    <3>1. SUFFICES ASSUME ~(m <= n) PROVE FALSE
      OBVIOUS
    <3>2. 0 \in Cor(i)!Boundaries(w)
      BY <1>4, <2>1, <3>1 DEF Cor!Boundaries
    <3> QED
      BY <2>1, <3>2 DEF Cor!Whole
  <2>3. m \in 1 .. n /\ nat[w].in[m] = wk[w].frames[m] /\ wk[w].frames[m] \in Cor(i)!Jobs
    BY <1>4, <1>5, <2>1, <2>2
  <2>4. Cor(i)!Receipted(w, 1, wk[w].frames[m])
    BY <2>3 DEF Cor!Receipted
  <2>5. Cor(i)!Answered(w, 1, wk[w].frames[m])
    BY <1>6, <2>3, <2>4 DEF Cor!EventFits
  <2>6. \A l \in 1 .. 1 : l = 1
    OBVIOUS
  <2> QED
    BY <1>1, <1>6, <2>5, <2>6 DEF Cor!Answered
<1>8. Cor(i)!SeatFits(w)'
  <2>1. (Cor(i)!Begun(wk[w].job) /\ ~Cor(i)!IsChild(wk[w].job))' /\ wk[w].job # 0
    BY <1>1, <1>3, CorWorks DEF CorOnward, Cor!Begun, Cor!IsChild
  <2>2. (wk[w].frames = IF child[wk[w].job].job = 0 THEN <<wk[w].job>>
                        ELSE <<wk[w].job, child[wk[w].job].job>>)'
    <3>1. wk[w].frames = IF child[wk[w].job].job = 0 THEN <<wk[w].job>>
                         ELSE <<wk[w].job, child[wk[w].job].job>>
      BY <1>2, CorWorks DEF Cor!SeatFits
    <3>2. wk'[w].frames = wk[w].frames /\ wk'[w].job = wk[w].job /\ child' = child
      BY <1>1, <1>3
    <3> QED
      BY <3>1, <3>2
  <2>3. Len(wk'[w].frames) <= 2 /\ Len(wk'[w].receipts) <= Len(wk'[w].frames)
    BY <1>1, CorWorks DEF Cor!SeatFits
  <2>4. wk'[w].results = 2 => wk'[w].complete
    BY <1>1
  <2> QED
    BY <1>1, <1>7, <2>1, <2>2, <2>3, <2>4 DEF Cor!SeatFits
<1>9. Cor(i)!StreamFits(w)'
  <2>1. \A k \in 1 .. Len(nat'[w].out) : \A x : Cor(i)!Receipted(w, k, x)'
            => Cor(i)!Receipted(w, k + 1, x)
    <3>1. SUFFICES ASSUME NEW k \in 1 .. Len(nat'[w].out), NEW x, Cor(i)!Receipted(w, k, x)'
                   PROVE  Cor(i)!Receipted(w, k + 1, x)
      BY Zenon
    <3>2. CASE \E m \in 1 .. n : nat[w].in[m] = x
      BY <3>2 DEF Cor!Receipted
    <3>3. CASE \E m \in 1 .. k - 1 : nat'[w].out[m].k = "receipt" /\ nat'[w].out[m].j = x
      <4>1. PICK m \in 1 .. k - 1 : nat'[w].out[m].k = "receipt" /\ nat'[w].out[m].j = x
        BY <3>3
      <4>2. m + 1 \in 1 .. k + 1 - 1 /\ nat'[w].out[m] = nat[w].out[m + 1]
        BY <1>6, <3>1
      <4> QED
        BY <4>1, <4>2 DEF Cor!Receipted
    <3> QED
      BY <1>1, <3>1, <3>2, <3>3 DEF Cor!Receipted
  <2>2. \A k \in 0 .. Len(nat'[w].out) : \A x : Cor(i)!Answered(w, k + 1, x)
            => Cor(i)!Answered(w, k, x)'
    <3>1. SUFFICES ASSUME NEW k \in 0 .. Len(nat'[w].out), NEW x, Cor(i)!Answered(w, k + 1, x)
                   PROVE  Cor(i)!Answered(w, k, x)'
      BY Zenon
    <3>2. CASE x \in wk[w].answers
      BY <1>1, <3>2 DEF Cor!Answered
    <3>3. CASE \E m \in 1 .. k + 1 : x \in nat[w].out[m].answers
      <4>1. PICK m \in 1 .. k + 1 : x \in nat[w].out[m].answers
        BY <3>3
      <4>2. CASE m = 1
        BY <1>1, <1>6, <4>1, <4>2 DEF Cor!Answered
      <4>3. CASE m # 1
        <5>1. m - 1 \in 1 .. k /\ m - 1 \in 1 .. Len(nat[w].out) - 1 /\ m - 1 + 1 = m
          BY <1>6, <3>1, <4>3
        <5>2. nat'[w].out[m - 1] = nat[w].out[m]
          BY <1>6, <5>1
        <5> QED
          BY <4>1, <5>1, <5>2 DEF Cor!Answered
      <4> QED
        BY <4>2, <4>3
    <3> QED
      BY <3>1, <3>2, <3>3 DEF Cor!Answered
  <2>3. \A k \in 1 .. Len(nat'[w].out) : Cor(i)!EventFits(w, k)'
    <3>1. SUFFICES ASSUME NEW k \in 1 .. Len(nat'[w].out) PROVE Cor(i)!EventFits(w, k)'
      BY Zenon
    <3>2. k + 1 \in 1 .. Len(nat[w].out) /\ nat'[w].out[k] = nat[w].out[k + 1]
      BY <1>6, <3>1
    <3>3. Cor(i)!EventFits(w, k + 1)
      BY <1>5, <3>2
    <3>4. \A x : /\ Cor(i)!Receipted(w, k, x)' => Cor(i)!Receipted(w, k + 1, x)
                 /\ Cor(i)!Answered(w, k + 1, x) => Cor(i)!Answered(w, k, x)'
      BY <1>6, <2>1, <2>2
    <3> QED
      BY <1>1, <3>2, <3>3, <3>4 DEF Cor!EventFits
  <2>4. \A m \in 1 .. nat[w].covered : Cor(i)!Answered(w, Len(nat[w].out), nat[w].in[m])'
    <3>1. SUFFICES ASSUME NEW m \in 1 .. nat[w].covered
                   PROVE  Cor(i)!Answered(w, Len(nat[w].out), nat[w].in[m])'
      BY Zenon
    <3>2. Cor(i)!Answered(w, Len(nat[w].out), nat[w].in[m])
      BY <1>5
    <3>3. Len(nat'[w].out) \in 0 .. Len(nat'[w].out) /\ Len(nat'[w].out) + 1 = Len(nat[w].out)
      BY <1>6
    <3>4. \A x : Cor(i)!Answered(w, Len(nat[w].out), x) =>
             x \in wk'[w].answers \/ \E l \in 1 .. Len(nat'[w].out) : x \in nat'[w].out[l].answers
      BY <2>2, <3>3 DEF Cor!Answered
    <3> QED
      BY <1>1, <3>2, <3>4 DEF Cor!Answered
  <2> QED
    BY <1>1, <1>5, <2>3, <2>4 DEF Cor!StreamFits
<1> QED
  BY <1>1, <1>2, <1>3, <1>8, <1>9, CorActs

\* A complete turn ends with its process gone.
LEMMA CorEnd ==
    ASSUME NEW i \in DOMAIN Corrections,
           Cor(i)!Typed, CorAllFit(i), NEW w \in Corrections[i].Workers, wk[w].pc = "turn",
           CorSame(i), wk[w].complete,
           wk' = [wk EXCEPT ![w].pc = "save"], nat' = [nat EXCEPT ![w] = Cor(i)!NoNative]
    PROVE  CorSeatDone(i, w)
<1>1. /\ CorOthers(i, w) /\ wk'[w].pc = "save" /\ wk'[w].job = wk[w].job
      /\ wk'[w].frames = wk[w].frames /\ wk'[w].receipts = wk[w].receipts
      /\ wk'[w].results = wk[w].results /\ wk'[w].complete = wk[w].complete
      /\ wk'[w].answers = wk[w].answers /\ wk'[w].why = wk[w].why
  BY CorSeats DEF CorOthers, Cor!Typed, Cor!Seat
<1>2. Cor(i)!InTurn(w) /\ Cor(i)!InTurn(w)'
  BY <1>1 DEF Cor!InTurn
<1>3. CorJobsFit(i)' /\ CorOnward(i) /\ child' = child
  BY CorWorks, CorStill DEF CorSame
<1>4. Cor(i)!SeatFits(w)'
  <2>1. (Cor(i)!Begun(wk[w].job) /\ ~Cor(i)!IsChild(wk[w].job))' /\ wk[w].job # 0
    BY <1>1, <1>3, CorWorks DEF CorOnward, Cor!Begun, Cor!IsChild
  <2>2. (wk[w].frames = IF child[wk[w].job].job = 0 THEN <<wk[w].job>>
                        ELSE <<wk[w].job, child[wk[w].job].job>>)'
    <3>1. wk[w].frames = IF child[wk[w].job].job = 0 THEN <<wk[w].job>>
                         ELSE <<wk[w].job, child[wk[w].job].job>>
      BY <1>2, CorWorks DEF Cor!SeatFits
    <3>2. wk'[w].frames = wk[w].frames /\ wk'[w].job = wk[w].job /\ child' = child
      BY <1>1, <1>3
    <3> QED
      BY <3>1, <3>2
  <2>3. Len(wk'[w].frames) <= 2 /\ Len(wk'[w].receipts) <= Len(wk'[w].frames)
    BY <1>1, CorWorks DEF Cor!SeatFits
  <2>4. \A m \in DOMAIN wk[w].frames : wk[w].frames[m] \in wk[w].answers
    BY <1>2, CorWorks DEF Cor!SeatFits
  <2> QED
    BY <1>1, <2>1, <2>2, <2>3, <2>4 DEF Cor!SeatFits
<1>5. Cor(i)!StreamFits(w)'
  BY <1>1 DEF Cor!StreamFits
<1> QED
  BY <1>1, <1>2, <1>3, <1>4, <1>5, CorActs

\* A second result is of a turn whose inputs are all receipted.
LEMMA CorSecond ==
    ASSUME NEW i \in DOMAIN Corrections,
           Cor(i)!Typed, CorAllFit(i), NEW w \in Corrections[i].Workers, wk[w].pc = "turn",
           Cor(i)!Owned(w), wk[w].results + 1 = 2,
           wk[w].results \in 0 .. 2
    PROVE  Cor(i)!Whole(Cor(i)!Boundaries(w), 2)
<1>1. PICK m \in DOMAIN wk[w].receipts : wk[w].receipts[m] = 2
  BY DEF Cor!Owned
<1>2. wk[w].receipts \in Seq(1 .. 2) /\ Len(wk[w].receipts) \in Nat /\ wk[w].receipts[1] = 1
      /\ wk[w].frames \in Seq(Cor(i)!Jobs) /\ Len(wk[w].frames) \in Nat
  BY CorSeats DEF Cor!Owned
<1>3. Len(wk[w].frames) <= 2 /\ Len(wk[w].receipts) <= Len(wk[w].frames)
  BY CorWorks DEF Cor!SeatFits
<1>4. Len(wk[w].receipts) = 2 /\ Len(wk[w].frames) = 2
  <2>1. m \in 1 .. Len(wk[w].receipts) /\ m # 1
    BY <1>1, <1>2
  <2>2. \A x, y \in Nat : x <= y /\ y <= 2 /\ m \in 1 .. x /\ m # 1 => x = 2 /\ y = 2
    OBVIOUS
  <2> QED
    BY <1>2, <1>3, <2>1, <2>2
<1>5. \A l \in 1 .. 2 : wk[w].receipts[l] \in 1 .. 2
  BY <1>2, <1>4
<1>6. \A b \in Cor(i)!Boundaries(w) : b \in 1 .. 2
  BY <1>2, <1>4, <1>5 DEF Cor!Boundaries
<1> QED
  BY <1>6 DEF Cor!Whole

\* A worker reads the next event of its process.
LEMMA CorRead ==
    ASSUME NEW i \in DOMAIN Corrections,
           Cor(i)!Typed, CorAllFit(i), NEW w \in Corrections[i].Workers, Cor(i)!Read(w)
    PROVE  CorSeatDone(i, w)
<1> DEFINE e == Head(nat[w].out)
<1>1. CorSame(i) /\ Cor(i)!Running(w) /\ wk[w].pc = "turn" /\ nat[w].out # << >>
  BY DEF Cor!Read, CorSame, Cor!ownerVars, Cor!Running
<1>2. ASSUME NEW y, Cor(i)!Broken(w, y), y # "stop" PROVE CorSeatDone(i, w)
  BY <1>1, <1>2, CorBroken
<1>3. wk[w].results \in 0 .. 2 /\ (wk[w].results = 2 => wk[w].complete)
  BY <1>1, CorWorks, CorSeats DEF Cor!SeatFits, Cor!InTurn
<1>4. ASSUME e.k = "receipt", Cor(i)!ReadReceipt(w, e) PROVE CorSeatDone(i, w)
  <2>1. CASE Cor(i)!Broken(w, "unknown")
    BY <1>2, <2>1
  <2>2. CASE ~Cor(i)!Broken(w, "unknown")
    <3>1. /\ Cor(i)!Expected(w, e.j)
          /\ wk' = [wk EXCEPT ![w].receipts = Append(@, wk[w].results + 1)]
          /\ nat' = [nat EXCEPT ![w].out = Tail(@)]
      BY <1>4, <2>2 DEF Cor!ReadReceipt
    <3>2. wk[w].results + 1 \in 1 .. 2
      BY <1>3, <3>1 DEF Cor!Expected
    <3> QED
      BY <1>1, <1>4, <3>1, <3>2, CorReceipt
  <2> QED
    BY <2>1, <2>2
<1>5. ASSUME e.k = "result", Cor(i)!ReadResult(w, e) PROVE CorSeatDone(i, w)
  <2> DEFINE n == wk[w].results + 1
             whole == Cor(i)!Whole(Cor(i)!Boundaries(w), n)
             bad == wk[w].failed \/ ~e.ok
  <2>1. CASE Cor(i)!Broken(w, "unknown")
    BY <1>2, <2>1
  <2>2. CASE ~Cor(i)!Broken(w, "unknown")
    <3>1. /\ Cor(i)!Owned(w)
          /\ wk' = [wk EXCEPT ![w] = [@ EXCEPT !.results = n, !.sealed = TRUE,
                       !.complete = whole, !.failed = bad,
                       !.answers = wk[w].answers \cup e.answers]]
          /\ nat' = [nat EXCEPT ![w].out = Tail(@)]
      BY <1>5, <2>2 DEF Cor!ReadResult
    <3>2. n \in 1 .. 2 /\ bad \in BOOLEAN
      BY <1>3, <3>1 DEF Cor!Owned
    <3>3. n = 2 => whole
      BY <1>1, <1>3, <3>1, CorSecond
    <3> QED
      BY <1>1, <1>5, <3>1, <3>2, <3>3, CorResult
  <2> QED
    BY <2>1, <2>2
<1>6. ASSUME Cor(i)!ReadEnd(w) PROVE CorSeatDone(i, w)
  <2>1. CASE ~wk[w].complete \/ wk[w].failed
    BY <1>2, <1>6, <2>1 DEF Cor!ReadEnd
  <2>2. CASE ~(~wk[w].complete \/ wk[w].failed)
    BY <1>1, <1>6, <2>2, CorEnd DEF Cor!ReadEnd
  <2> QED
    BY <2>1, <2>2
<1> QED
  BY <1>4, <1>5, <1>6 DEF Cor!Read

\* What the process adds to its output is fit for it.
LEMMA CorEmits ==
    ASSUME NEW i \in DOMAIN Corrections,
           Cor(i)!Typed, CorAllFit(i), NEW w \in Corrections[i].Workers, CorSame(i), wk' = wk,
           NEW e \in Cor(i)!Events, NEW a \in Nat, NEW c \in Nat,
           CorOthers(i, w), nat'[w].in = nat[w].in, nat'[w].acked = a, nat'[w].covered = c,
           nat'[w].out = nat[w].out \o <<e>>,
           nat[w].acked <= a, a <= Len(nat[w].in), c \in {nat[w].covered, a},
           e.k = "receipt" => \E n \in 1 .. a : nat[w].in[n] = e.j,
           e.k # "result" => e.answers = {} /\ c = nat[w].covered,
           e.k = "result" => /\ a = nat[w].acked /\ c = a
                             /\ \A n \in 1 .. a : n > nat[w].covered => nat[w].in[n] \in e.answers
    PROVE  CorSeatDone(i, w)
<1>1. /\ CorOthers(i, w) /\ wk'[w] = wk[w] /\ nat'[w].in = nat[w].in /\ nat'[w].acked = a
      /\ nat'[w].covered = c /\ nat'[w].out = nat[w].out \o <<e>>
  OBVIOUS
<1>2. Cor(i)!InTurn(w) <=> Cor(i)!InTurn(w)'
  BY <1>1 DEF Cor!InTurn
<1>3. CorJobsFit(i)' /\ CorOnward(i) /\ child' = child
  BY CorWorks, CorStill DEF CorSame
<1>4. Cor(i)!SeatFits(w)'
  BY <1>1, <1>3, CorWorks, CorSeatStays
<1>5. ASSUME wk[w].pc = "turn" PROVE Cor(i)!StreamFits(w)'
  <2>1. /\ nat[w].in = wk[w].frames /\ nat[w].acked \in Nat /\ nat[w].covered \in Nat
        /\ Len(wk[w].receipts) \in Nat /\ Len(nat[w].out) \in Nat
        /\ Len(wk[w].receipts) <= nat[w].acked /\ nat[w].covered <= nat[w].acked
        /\ nat[w].acked <= Len(wk[w].frames)
        /\ \A k \in 1 .. Len(nat[w].out) : Cor(i)!EventFits(w, k)
        /\ \A m \in 1 .. nat[w].covered : Cor(i)!Answered(w, Len(nat[w].out), nat[w].in[m])
    BY <1>5, CorStreams
  <2>2. /\ Len(nat'[w].out) = Len(nat[w].out) + 1
        /\ \A k \in 1 .. Len(nat[w].out) : nat'[w].out[k] = nat[w].out[k]
        /\ nat'[w].out[Len(nat[w].out) + 1] = e
    BY <1>1, CorSeats, CorAppended
  <2>3. \A k \in 1 .. Len(nat[w].out) + 1 : \A x : Cor(i)!Receipted(w, k, x)'
            <=> Cor(i)!Receipted(w, k, x)
    <3>1. SUFFICES ASSUME NEW k \in 1 .. Len(nat[w].out) + 1, NEW x
                   PROVE  Cor(i)!Receipted(w, k, x)' <=> Cor(i)!Receipted(w, k, x)
      BY Zenon
    <3>2. \A n \in 1 .. k - 1 : nat'[w].out[n] = nat[w].out[n]
      BY <2>1, <2>2, <3>1
    <3> QED
      BY <1>1, <3>2 DEF Cor!Receipted
  <2>4. \A k \in 1 .. Len(nat[w].out) : \A x : Cor(i)!Answered(w, k, x)'
            <=> Cor(i)!Answered(w, k, x)
    <3>1. SUFFICES ASSUME NEW k \in 1 .. Len(nat[w].out), NEW x
                   PROVE  Cor(i)!Answered(w, k, x)' <=> Cor(i)!Answered(w, k, x)
      BY Zenon
    <3>2. \A n \in 1 .. k : nat'[w].out[n] = nat[w].out[n]
      BY <2>1, <2>2, <3>1
    <3> QED
      BY <1>1, <3>2 DEF Cor!Answered
  <2>5. \A x : /\ Cor(i)!Answered(w, Len(nat[w].out), x)
                    => \/ x \in wk'[w].answers
                       \/ \E l \in 1 .. Len(nat[w].out) + 1 : x \in nat'[w].out[l].answers
               /\ x \in e.answers
                    => \E l \in 1 .. Len(nat[w].out) + 1 : x \in nat'[w].out[l].answers
    <3>1. \A l \in 1 .. Len(nat[w].out) : l \in 1 .. Len(nat[w].out) + 1
      BY <2>1
    <3>2. Len(nat[w].out) + 1 \in 1 .. Len(nat[w].out) + 1
      BY <2>1
    <3>3. ASSUME NEW x, Cor(i)!Answered(w, Len(nat[w].out), x)
          PROVE  \/ x \in wk'[w].answers
                 \/ \E l \in 1 .. Len(nat[w].out) + 1 : x \in nat'[w].out[l].answers
      BY <1>1, <2>2, <3>1, <3>3 DEF Cor!Answered
    <3>4. ASSUME NEW x, x \in e.answers
          PROVE  \E l \in 1 .. Len(nat[w].out) + 1 : x \in nat'[w].out[l].answers
      BY <2>2, <3>2, <3>4
    <3> QED
      BY <3>3, <3>4
  <2>6. \A m \in 1 .. c : \/ nat[w].in[m] \in wk'[w].answers
                          \/ \E l \in 1 .. Len(nat[w].out) + 1 :
                                nat[w].in[m] \in nat'[w].out[l].answers
    <3>1. SUFFICES ASSUME NEW m \in 1 .. c
                   PROVE  \/ nat[w].in[m] \in wk'[w].answers
                          \/ \E l \in 1 .. Len(nat[w].out) + 1 :
                                nat[w].in[m] \in nat'[w].out[l].answers
      BY Zenon
    <3>2. CASE m \in 1 .. nat[w].covered
      BY <2>1, <2>5, <3>2
    <3>3. CASE m \notin 1 .. nat[w].covered
      <4>1. e.k = "result" /\ c = a /\ m > nat[w].covered /\ m \in 1 .. a
        BY <2>1, <3>1, <3>3
      <4>2. nat[w].in[m] \in e.answers
        BY <4>1
      <4> QED
        BY <2>5, <4>2
    <3> QED
      BY <3>2, <3>3
  <2>7. \A k \in 1 .. Len(nat[w].out) : Cor(i)!EventFits(w, k)'
    <3>1. SUFFICES ASSUME NEW k \in 1 .. Len(nat[w].out) PROVE Cor(i)!EventFits(w, k)'
      BY Zenon
    <3>2. Cor(i)!EventFits(w, k) /\ nat'[w].out[k] = nat[w].out[k]
      BY <2>1, <2>2
    <3>3. \A n \in 1 .. nat[w].acked : n \in 1 .. nat'[w].acked
      BY <1>1, <2>1
    <3>4. \A x : /\ Cor(i)!Receipted(w, k, x)' => Cor(i)!Receipted(w, k, x)
                 /\ Cor(i)!Answered(w, k, x) => Cor(i)!Answered(w, k, x)'
      BY <2>1, <2>3, <2>4
    <3> QED
      BY <1>1, <3>2, <3>3, <3>4 DEF Cor!EventFits
  <2>8. \A x : e.k = "result" /\ Cor(i)!Receipted(w, Len(nat[w].out) + 1, x)
                => \E m \in 1 .. c : nat[w].in[m] = x
    <3>1. SUFFICES ASSUME NEW x, e.k = "result", Cor(i)!Receipted(w, Len(nat[w].out) + 1, x)
                   PROVE  \E m \in 1 .. c : nat[w].in[m] = x
      BY Zenon
    <3>2. c = nat[w].acked
      BY <3>1
    <3>3. CASE \E n \in 1 .. Len(wk[w].receipts) : nat[w].in[n] = x
      BY <2>1, <3>2, <3>3
    <3>4. CASE \E n \in 1 .. Len(nat[w].out) :
                 nat[w].out[n].k = "receipt" /\ nat[w].out[n].j = x
      BY <2>1, <3>2, <3>4 DEF Cor!EventFits
    <3> QED
      BY <2>1, <3>1, <3>3, <3>4 DEF Cor!Receipted
  <2>9. ASSUME NEW k, k = Len(nat[w].out) + 1 PROVE Cor(i)!EventFits(w, k)'
    <3>1. nat'[w].out[k] = e /\ k \in 1 .. Len(nat[w].out) + 1
      BY <2>1, <2>2, <2>9
    <3>2. e.k = "result" => \A x : Cor(i)!Receipted(w, k, x)' => Cor(i)!Answered(w, k, x)'
      <4>1. SUFFICES ASSUME e.k = "result", NEW x,
                            Cor(i)!Receipted(w, k, x)' PROVE Cor(i)!Answered(w, k, x)'
        BY Zenon
      <4>2. \E m \in 1 .. c : nat[w].in[m] = x
        BY <2>3, <2>8, <2>9, <3>1, <4>1
      <4> QED
        BY <2>6, <2>9, <4>2 DEF Cor!Answered
    <3> QED
      BY <1>1, <3>1, <3>2 DEF Cor!EventFits
  <2>10. \A k \in 1 .. Len(nat'[w].out) : Cor(i)!EventFits(w, k)'
    BY <2>1, <2>2, <2>7, <2>9
  <2>11. \A n \in 1 .. nat'[w].covered : Cor(i)!Answered(w, Len(nat[w].out), nat[w].in[n])'
    BY <1>1, <2>2, <2>6 DEF Cor!Answered
  <2>12. /\ nat'[w].in = wk'[w].frames /\ Len(wk'[w].receipts) <= nat'[w].acked
         /\ nat'[w].covered <= nat'[w].acked /\ nat'[w].acked <= Len(nat'[w].in)
    BY <1>1, <2>1
  <2> QED
    BY <2>10, <2>11, <2>12 DEF Cor!StreamFits
<1>6. Cor(i)!StreamFits(w)'
  BY <1>1, <1>5 DEF Cor!StreamFits
<1> QED
  BY <1>1, <1>2, <1>3, <1>4, <1>6, CorActs

\* A repeated result answers nothing new, and nothing is left to answer.
LEMMA CorRepeats ==
    ASSUME NEW i \in DOMAIN Corrections,
           Cor(i)!Typed, CorAllFit(i), NEW w \in Corrections[i].Workers, CorSame(i), wk' = wk,
           nat[w].covered = nat[w].acked,
           nat' = [nat EXCEPT ![w] = [@ EXCEPT !.on = TRUE,
                     !.out = nat[w].out \o <<Cor(i)!Event("result", 0, TRUE, {})>>]]
    PROVE  CorSeatDone(i, w)
<1> DEFINE e == Cor(i)!Event("result", 0, TRUE, {})
<1>1. nat[w].acked \in Nat /\ nat[w] \in Cor(i)!Process /\ nat[w].acked <= Len(nat[w].in)
  BY CorSeats
<1>2. /\ CorOthers(i, w) /\ nat'[w].in = nat[w].in /\ nat'[w].acked = nat[w].acked
      /\ nat'[w].covered = nat[w].acked /\ nat'[w].out = nat[w].out \o <<e>>
  BY <1>1 DEF CorOthers, Cor!Typed, Cor!Process
<1>3. e \in Cor(i)!Events /\ e.k = "result"
  BY CorSizes DEF Cor!Event, Cor!Events
<1>4. \A n \in 1 .. nat[w].acked : n > nat[w].covered => nat[w].in[n] \in e.answers
  BY <1>1
<1>5. nat[w].acked <= nat[w].acked /\ nat[w].acked \in {nat[w].covered, nat[w].acked}
  BY <1>1
<1> HIDE DEF e
<1> QED
  BY <1>1, <1>2, <1>3, <1>4, <1>5, CorEmits

\* The process receipts an input or gives a result.
LEMMA CorNative ==
    ASSUME NEW i \in DOMAIN Corrections,
           Cor(i)!Typed, CorAllFit(i), NEW w \in Corrections[i].Workers, Cor(i)!Native(w)
    PROVE  CorSeatDone(i, w)
<1> DEFINE p == nat[w]
<1>1. CorSame(i) /\ wk' = wk
  BY DEF Cor!Native, Cor!NativeReceipt, Cor!NativeResult, Cor!NativeEnd, Cor!NativeFault,
       CorSame, Cor!inputVars,
         Cor!ownerVars
<1>2. p.in \in Seq(Cor(i)!Jobs) /\ p.acked \in Nat /\ p.covered \in Nat /\ p \in Cor(i)!Process
      /\ p.acked <= Len(p.in) /\ Len(p.in) \in Nat
  BY CorSeats
<1>4. CASE Cor(i)!NativeReceipt(w)
  <2> DEFINE e == Cor(i)!Event("receipt", p.in[p.acked + 1], TRUE, {})
  <2>1. nat' = [nat EXCEPT ![w] = [@ EXCEPT !.acked = p.acked + 1, !.out = p.out \o <<e>>]]
        /\ p.acked < Len(p.in)
    BY <1>4 DEF Cor!NativeReceipt, Cor!Emit
  <2>2. /\ CorOthers(i, w) /\ nat'[w].in = p.in /\ nat'[w].acked = p.acked + 1
        /\ nat'[w].covered = p.covered /\ nat'[w].out = p.out \o <<e>>
    BY <1>1, <1>2, <2>1 DEF CorOthers, Cor!Typed, Cor!Process
  <2>3. p.in[p.acked + 1] \in Cor(i)!Jobs /\ p.acked + 1 <= Len(p.in) /\ p.acked + 1 \in Nat
        /\ p.acked <= p.acked + 1
    BY <1>2, <2>1
  <2>4. /\ e \in Cor(i)!Events /\ e.k = "receipt" /\ e.j = p.in[p.acked + 1] /\ e.answers = {}
    BY <2>3 DEF Cor!Event, Cor!Events, Cor!Jobs
  <2> HIDE DEF e
  <2>5. p.acked + 1 \in 1 .. p.acked + 1
    BY <1>2
  <2>6. \E l \in 1 .. p.acked + 1 : p.in[l] = e.j
    BY <2>4, <2>5
  <2> QED
    BY <1>1, <1>2, <2>2, <2>3, <2>4, <2>6, CorEmits
<1>5. ASSUME NEW ok \in BOOLEAN, Cor(i)!NativeResult(w, ok) PROVE CorSeatDone(i, w)
  <2> DEFINE a == {p.in[l] : l \in p.covered + 1 .. p.acked}
             e == Cor(i)!Event("result", 0, ok, a)
  <2>1. nat' = [nat EXCEPT ![w] = [@ EXCEPT !.covered = p.acked, !.out = p.out \o <<e>>]]
    BY <1>5 DEF Cor!NativeResult, Cor!Emit
  <2>2. /\ CorOthers(i, w) /\ nat'[w].in = p.in /\ nat'[w].acked = p.acked
        /\ nat'[w].covered = p.acked /\ nat'[w].out = p.out \o <<e>>
    BY <1>1, <1>2, <2>1 DEF CorOthers, Cor!Typed, Cor!Process
  <2>3. a \subseteq Cor(i)!Jobs
    BY <1>2
  <2>4. e \in Cor(i)!Events /\ e.k = "result" /\ e.answers = a
    BY <2>3, CorSizes DEF Cor!Event, Cor!Events
  <2>5. \A l \in 1 .. p.acked : l > p.covered => p.in[l] \in e.answers
    <3>1. \A l \in 1 .. p.acked : l > p.covered => l \in p.covered + 1 .. p.acked
      BY <1>2
    <3>2. e.answers = a
      BY <2>4
    <3> HIDE DEF e, p
    <3> QED
      BY <3>1, <3>2
  <2>6. p.acked <= p.acked /\ p.acked \in {p.covered, p.acked} /\ p.acked \in Nat
    BY <1>2
  <2> HIDE DEF e
  <2>7. (e.k = "result") /\ (e.k # "receipt")
    BY <2>4
  <2> QED
    BY <1>1, <1>2, <2>2, <2>4, <2>5, <2>6, <2>7, CorEmits
<1>6. CASE Cor(i)!NativeEnd(w)
  <2> DEFINE e == Cor(i)!Event("end", 0, TRUE, {})
  <2>1. nat' = [nat EXCEPT ![w] = [@ EXCEPT !.on = FALSE, !.out = p.out \o <<e>>]]
    BY <1>6 DEF Cor!NativeEnd, Cor!Emit
  <2>2. /\ CorOthers(i, w) /\ nat'[w].in = p.in /\ nat'[w].acked = p.acked
        /\ nat'[w].covered = p.covered /\ nat'[w].out = p.out \o <<e>>
    BY <1>1, <1>2, <2>1 DEF CorOthers, Cor!Typed, Cor!Process
  <2>3. e \in Cor(i)!Events /\ e.k = "end" /\ e.answers = {}
    BY CorSizes DEF Cor!Event, Cor!Events
  <2> HIDE DEF e
  <2>4. /\ e.k # "receipt" /\ e.k # "result" /\ p.acked <= p.acked
        /\ p.covered \in {p.covered, p.acked}
    BY <1>2, <2>3
  <2> QED
    BY <1>1, <1>2, <2>2, <2>3, <2>4, CorEmits
<1>7. CASE Cor(i)!NativeFault(w)
  <2>1. PICK e :
          /\ e \in {Cor(i)!Event("receipt", p.in[l], TRUE, {}) : l \in 1 .. p.acked}
                    \cup {Cor(i)!Event("result", 0, TRUE, {}) : l \in {p.covered} \cap {p.acked}}
                    \cup {Cor(i)!Event("end", 0, TRUE, {})}
          /\ nat' = [nat EXCEPT ![w] = [@ EXCEPT !.on = (e.k # "end"), !.out = p.out \o <<e>>]]
    BY <1>7 DEF Cor!NativeFault, Cor!Emit
  <2>2. /\ CorOthers(i, w) /\ nat'[w].in = p.in /\ nat'[w].acked = p.acked
        /\ nat'[w].covered = p.covered /\ nat'[w].out = p.out \o <<e>>
    BY <1>1, <1>2, <2>1 DEF CorOthers, Cor!Typed, Cor!Process
  <2>3. CASE e \in {Cor(i)!Event("receipt", p.in[l], TRUE, {}) : l \in 1 .. p.acked}
    <3>1. PICK l \in 1 .. p.acked : e = Cor(i)!Event("receipt", p.in[l], TRUE, {})
      BY <2>3
    <3>2. p.in[l] \in Cor(i)!Jobs
      BY <1>2, <3>1
    <3>3. e \in Cor(i)!Events /\ e.k = "receipt" /\ e.j = p.in[l] /\ e.answers = {}
      BY <3>1, <3>2 DEF Cor!Event, Cor!Events, Cor!Jobs
    <3>4. \E m \in 1 .. p.acked : p.in[m] = e.j
      BY <3>1, <3>3
    <3>5. e.k # "result" /\ p.acked <= p.acked /\ p.covered \in {p.covered, p.acked}
      BY <1>2, <3>3
    <3> QED
      BY <1>1, <1>2, <2>2, <3>3, <3>4, <3>5, CorEmits
  <2>4. CASE e \in {Cor(i)!Event("result", 0, TRUE, {}) : l \in {p.covered} \cap {p.acked}}
    <3>1. p.covered = p.acked /\ e = Cor(i)!Event("result", 0, TRUE, {})
      BY <2>4
    <3>2. nat' = [nat EXCEPT ![w] = [@ EXCEPT !.on = TRUE,
                     !.out = p.out \o <<Cor(i)!Event("result", 0, TRUE, {})>>]]
      BY <2>1, <3>1 DEF Cor!Event
    <3>3. nat[w].covered = nat[w].acked
      BY <3>1
    <3> QED
      BY <1>1, <3>2, <3>3, CorRepeats
  <2>5. CASE e = Cor(i)!Event("end", 0, TRUE, {})
    <3>1. e \in Cor(i)!Events /\ e.k = "end" /\ e.answers = {}
      BY <2>5, CorSizes DEF Cor!Event, Cor!Events
    <3>2. /\ e.k # "receipt" /\ e.k # "result" /\ p.acked <= p.acked
          /\ p.covered \in {p.covered, p.acked}
      BY <1>2, <3>1
    <3> QED
      BY <1>1, <1>2, <2>2, <3>1, <3>2, CorEmits
  <2> QED
    BY <2>1, <2>3, <2>4, <2>5
<1> QED
  BY <1>4, <1>5, <1>6, <1>7 DEF Cor!Native
-----------------------------------------------------------------------------
(* Every step keeps the types.                                               *)

\* The tables, a worker and its process.
CorTables(i) ==
    /\ coJob \in [Cor(i)!Jobs -> Cor(i)!JobRow] /\ run \in [Cor(i)!Jobs -> Cor(i)!RunRow]
    /\ child \in [Cor(i)!Jobs -> Cor(i)!ChildRow]
    /\ text \in [Cor(i)!Jobs -> SUBSET Cor(i)!Jobs] /\ given \in [Cor(i)!Jobs -> Nat]
    /\ cur \in [gen : Nat, model : Nat] /\ stopped \subseteq Cor(i)!Jobs
    /\ coFaults \in 0 .. Corrections[i].MaxFaults

\* A process receipts no more than it was written.
CorAcks(i, n) == n.acked <= Len(n.in)

\* The type invariant, taken apart.
LEMMA CorTypedParts ==
    ASSUME NEW i \in DOMAIN Corrections
    PROVE  Cor(i)!Typed <=> /\ CorTables(i)
                            /\ wk \in [Corrections[i].Workers -> Cor(i)!Seat]
                            /\ nat \in [Corrections[i].Workers -> Cor(i)!Process]
                            /\ \A w \in Corrections[i].Workers : CorAcks(i, nat[w])
BY DEF Cor!Typed, CorTables, CorAcks

\* A step of a worker and its process.
LEMMA CorTypedStep ==
    ASSUME NEW i \in DOMAIN Corrections,
           Cor(i)!Typed, CorTables(i)', NEW w \in Corrections[i].Workers, NEW s \in Cor(i)!Seat,
           NEW n \in Cor(i)!Process, CorAcks(i, n),
           wk' = [wk EXCEPT ![w] = s], nat' = [nat EXCEPT ![w] = n]
    PROVE  Cor(i)!Typed'
<1>1. wk' \in [Corrections[i].Workers -> Cor(i)!Seat]
      /\ nat' \in [Corrections[i].Workers -> Cor(i)!Process]
  BY DEF Cor!Typed
<1>2. \A v \in Corrections[i].Workers : CorAcks(i, nat'[v])
  BY DEF Cor!Typed, CorAcks
<1> QED
  BY <1>1, <1>2 DEF Cor!Typed, CorTables, CorAcks

\* A step of a worker alone.
LEMMA CorTypedSeat ==
    ASSUME NEW i \in DOMAIN Corrections,
           Cor(i)!Typed, CorTables(i)', NEW w \in Corrections[i].Workers, NEW s \in Cor(i)!Seat,
           wk' = [wk EXCEPT ![w] = s], nat' = nat
    PROVE  Cor(i)!Typed'
<1>1. wk' \in [Corrections[i].Workers -> Cor(i)!Seat]
  BY DEF Cor!Typed
<1> QED
  BY <1>1 DEF Cor!Typed, CorTables

\* A step of neither.
LEMMA CorTypedAlone ==
    ASSUME NEW i \in DOMAIN Corrections,
           Cor(i)!Typed, CorTables(i)', wk' = wk, nat' = nat
    PROVE  Cor(i)!Typed'
BY DEF Cor!Typed, CorTables

\* The first rows are rows.
LEMMA CorFixed ==
    ASSUME NEW i \in DOMAIN Corrections
    PROVE  /\ Cor(i)!Idle \in Cor(i)!Seat /\ Cor(i)!NoNative \in Cor(i)!Process
           /\ CorAcks(i, Cor(i)!NoNative)
           /\ Cor(i)!NoJob \in Cor(i)!JobRow /\ Cor(i)!NoRun \in Cor(i)!RunRow
           /\ Cor(i)!NoChild \in Cor(i)!ChildRow
<1>1. << >> \in Seq(Cor(i)!Jobs) /\ << >> \in Seq(1 .. 2) /\ << >> \in Seq(Cor(i)!Events)
      /\ Len(<< >>) = 0
  OBVIOUS
<1>2. 0 \in Cor(i)!Some /\ 0 \in 0 .. Corrections[i].NumJobs /\ 0 \in 0 .. Corrections[i].LeaseTime
  BY CorSizes DEF Cor!Some
<1>3. Cor(i)!Idle \in Cor(i)!Seat
  BY <1>1, <1>2 DEF Cor!Idle, Cor!Seat, Cor!Steps
<1>4. Cor(i)!NoNative \in Cor(i)!Process /\ CorAcks(i, Cor(i)!NoNative)
  BY <1>1 DEF Cor!NoNative, Cor!Process, CorAcks
<1>5. Cor(i)!NoJob \in Cor(i)!JobRow
  BY <1>2 DEF Cor!NoJob, Cor!JobRow, Cor!Stages
<1> QED
  BY <1>2, <1>3, <1>4, <1>5 DEF Cor!NoRun, Cor!RunRow, Cor!NoChild, Cor!ChildRow

\* What becomes of a job's row is a row.
LEMMA CorRowTyped ==
    ASSUME NEW i \in DOMAIN Corrections,
           Cor(i)!Typed, NEW j \in Cor(i)!Jobs
    PROVE  /\ \A s \in Cor(i)!Stages : Cor(i)!Ended(j, s) \in Cor(i)!JobRow
           /\ \A s \in Cor(i)!Stages : Cor(i)!ChildOutcome(s) \in Cor(i)!Stages
           /\ \A t \in Cor(i)!Some, l \in 0 .. Corrections[i].LeaseTime :
                 [coJob[j] EXCEPT !.tok = t, !.left = l] \in Cor(i)!JobRow
           /\ \A l \in 0 .. Corrections[i].LeaseTime :
                 [coJob[j] EXCEPT !.left = l] \in Cor(i)!JobRow
           /\ \A s \in Cor(i)!Stages : [coJob[j] EXCEPT !.st = s] \in Cor(i)!JobRow
           /\ \A s \in Cor(i)!Stages, t \in Cor(i)!Some, l \in 0 .. Corrections[i].LeaseTime :
                 [coJob[j] EXCEPT !.st = s, !.tok = t, !.left = l] \in Cor(i)!JobRow
           /\ Corrections[i].LeaseTime \in 0 .. Corrections[i].LeaseTime
<1>1. coJob[j] \in Cor(i)!JobRow
  BY DEF Cor!Typed
<1>2. 0 \in Cor(i)!Some /\ 0 \in 0 .. Corrections[i].LeaseTime
      /\ Corrections[i].LeaseTime \in 0 .. Corrections[i].LeaseTime
  BY CorSizes DEF Cor!Some
<1>3. \A s \in Cor(i)!Stages : Cor(i)!ChildOutcome(s) \in Cor(i)!Stages
  BY DEF Cor!ChildOutcome, Cor!Stages
<1> QED
  BY <1>1, <1>2, <1>3 DEF Cor!JobRow, Cor!Ended

\* What becomes of the jobs' table is such a table.
LEMMA CorJobTyped ==
    ASSUME NEW i \in DOMAIN Corrections,
           Cor(i)!Typed
    PROVE  /\ \A p \in Cor(i)!Jobs, t \in Cor(i)!Some :
                 Cor(i)!Renewed(p, t) \in [Cor(i)!Jobs -> Cor(i)!JobRow]
           /\ \A p \in Cor(i)!Jobs, s \in Cor(i)!Stages :
                 Cor(i)!Settled(p, s) \in [Cor(i)!Jobs -> Cor(i)!JobRow]
           /\ [j \in Cor(i)!Jobs |-> IF j \in Cor(i)!Stale THEN Cor(i)!Ended(j, "indeterminate")
                    ELSE coJob[j]]
                 \in [Cor(i)!Jobs -> Cor(i)!JobRow]
           /\ [j \in Cor(i)!Jobs |-> IF coJob[j].st = "queued" THEN Cor(i)!Ended(j, "cancelled")
                    ELSE coJob[j]]
                 \in [Cor(i)!Jobs -> Cor(i)!JobRow]
           /\ [j \in Cor(i)!Jobs |-> [coJob[j] EXCEPT !.left = IF @ > 0 THEN @ - 1 ELSE 0]]
                 \in [Cor(i)!Jobs -> Cor(i)!JobRow]
           /\ \A j \in Cor(i)!Jobs, t \in Cor(i)!Some, l \in 0 .. Corrections[i].LeaseTime :
                 [coJob EXCEPT ![j].st = "executing", ![j].tok = t, ![j].left = l]
                   \in [Cor(i)!Jobs -> Cor(i)!JobRow]
           /\ \A j \in Cor(i)!Jobs :
                 [coJob EXCEPT ![j].st = "completed"] \in [Cor(i)!Jobs -> Cor(i)!JobRow]
           /\ \A j \in Cor(i)!Jobs, r \in Cor(i)!JobRow :
                 [coJob EXCEPT ![j] = r] \in [Cor(i)!Jobs -> Cor(i)!JobRow]
<1>1. \A j \in Cor(i)!Jobs : coJob[j] \in Cor(i)!JobRow
  BY DEF Cor!Typed
<1>2. {"indeterminate", "cancelled", "completed", "executing"} \subseteq Cor(i)!Stages
  BY DEF Cor!Stages
<1>3. \A p \in Cor(i)!Jobs, t \in Cor(i)!Some :
         Cor(i)!Renewed(p, t) \in [Cor(i)!Jobs -> Cor(i)!JobRow]
  BY <1>1, CorRowTyped DEF Cor!Renewed
<1>4. \A p \in Cor(i)!Jobs, s \in Cor(i)!Stages :
         Cor(i)!Settled(p, s) \in [Cor(i)!Jobs -> Cor(i)!JobRow]
  BY <1>1, CorRowTyped DEF Cor!Settled
<1>5. /\ [j \in Cor(i)!Jobs |-> IF j \in Cor(i)!Stale THEN Cor(i)!Ended(j, "indeterminate")
               ELSE coJob[j]]
           \in [Cor(i)!Jobs -> Cor(i)!JobRow]
      /\ [j \in Cor(i)!Jobs |-> IF coJob[j].st = "queued" THEN Cor(i)!Ended(j, "cancelled")
               ELSE coJob[j]]
           \in [Cor(i)!Jobs -> Cor(i)!JobRow]
  BY <1>1, <1>2, CorRowTyped
<1>6. [j \in Cor(i)!Jobs |-> [coJob[j] EXCEPT !.left = IF @ > 0 THEN @ - 1 ELSE 0]]
        \in [Cor(i)!Jobs -> Cor(i)!JobRow]
  <2>1. ASSUME NEW j \in Cor(i)!Jobs
        PROVE  [coJob[j] EXCEPT !.left = IF @ > 0 THEN @ - 1 ELSE 0] \in Cor(i)!JobRow
    <3>1. coJob[j].left \in 0 .. Corrections[i].LeaseTime
      BY CorRows
    <3>2. (IF coJob[j].left > 0 THEN coJob[j].left - 1 ELSE 0) \in 0 .. Corrections[i].LeaseTime
      BY <3>1, CorSizes
    <3> QED
      BY <1>1, <3>2 DEF Cor!JobRow
  <2> QED
    BY <2>1
<1>7. ASSUME NEW j \in Cor(i)!Jobs, NEW r \in Cor(i)!JobRow
      PROVE  [coJob EXCEPT ![j] = r] \in [Cor(i)!Jobs -> Cor(i)!JobRow]
  BY DEF Cor!Typed
<1>8. ASSUME NEW j \in Cor(i)!Jobs, NEW t \in Cor(i)!Some, NEW l \in 0 .. Corrections[i].LeaseTime
      PROVE  [coJob EXCEPT ![j].st = "executing", ![j].tok = t, ![j].left = l]
                \in [Cor(i)!Jobs -> Cor(i)!JobRow]
  <2>1. "executing" \in Cor(i)!Stages
    BY <1>2
  <2>2. [coJob[j] EXCEPT !.st = "executing", !.tok = t, !.left = l] \in Cor(i)!JobRow
    BY <2>1, CorRowTyped
  <2>3. [coJob EXCEPT ![j] = [coJob[j] EXCEPT !.st = "executing", !.tok = t, !.left = l]]
          \in [Cor(i)!Jobs -> Cor(i)!JobRow]
    BY <1>7, <2>2
  <2>4. [coJob EXCEPT ![j].st = "executing", ![j].tok = t, ![j].left = l]
          = [coJob EXCEPT ![j] = [coJob[j] EXCEPT !.st = "executing", !.tok = t, !.left = l]]
    BY DEF Cor!Typed
  <2> QED
    BY <2>3, <2>4
<1>9. ASSUME NEW j \in Cor(i)!Jobs
      PROVE  [coJob EXCEPT ![j].st = "completed"] \in [Cor(i)!Jobs -> Cor(i)!JobRow]
  BY <1>1, <1>2, CorRowTyped DEF Cor!Typed
<1> QED
  BY <1>3, <1>4, <1>5, <1>6, <1>8, <1>9, <1>7

\* The faults are counted to their bound.
LEMMA CorFaultTyped ==
    ASSUME NEW i \in DOMAIN Corrections,
           Cor(i)!Typed, \/ coFaults' = coFaults
                         \/ coFaults < Corrections[i].MaxFaults /\ coFaults' = coFaults + 1
    PROVE  coFaults' \in 0 .. Corrections[i].MaxFaults
BY CorSizes DEF Cor!Typed

\* A step that changes the jobs alone.
LEMMA CorTablesStep ==
    ASSUME NEW i \in DOMAIN Corrections,
           Cor(i)!Typed, coJob' \in [Cor(i)!Jobs -> Cor(i)!JobRow],
           UNCHANGED <<run, child, text, given, cur, stopped>>,
           coFaults' \in 0 .. Corrections[i].MaxFaults
    PROVE  CorTables(i)'
BY DEF Cor!Typed, CorTables

\* A step that changes no table.
LEMMA CorTablesKept ==
    ASSUME NEW i \in DOMAIN Corrections,
           Cor(i)!Typed, UNCHANGED <<coJob, run, child, text, given, cur, stopped>>,
           \/ coFaults' = coFaults
           \/ coFaults < Corrections[i].MaxFaults /\ coFaults' = coFaults + 1
    PROVE  CorTables(i)'
<1>1. coFaults' \in 0 .. Corrections[i].MaxFaults
  BY CorFaultTyped
<1> QED
  BY <1>1 DEF Cor!Typed, CorTables

\* What becomes of the boundaries of a run is a row.
LEMMA CorRunTyped ==
    ASSUME NEW i \in DOMAIN Corrections,
           Cor(i)!Typed, NEW p \in Cor(i)!Jobs
    PROVE  /\ [run EXCEPT ![p].on = TRUE] \in [Cor(i)!Jobs -> Cor(i)!RunRow]
           /\ [run EXCEPT ![p].valid = TRUE] \in [Cor(i)!Jobs -> Cor(i)!RunRow]
           /\ \A n \in 0 .. 2 : [run EXCEPT ![p].results = n] \in [Cor(i)!Jobs -> Cor(i)!RunRow]
<1>1. run \in [Cor(i)!Jobs -> Cor(i)!RunRow] /\ run[p] \in Cor(i)!RunRow
  BY DEF Cor!Typed
<1>2. /\ [run[p] EXCEPT !.on = TRUE] \in Cor(i)!RunRow
      /\ [run[p] EXCEPT !.valid = TRUE] \in Cor(i)!RunRow
      /\ \A n \in 0 .. 2 : [run[p] EXCEPT !.results = n] \in Cor(i)!RunRow
  BY <1>1 DEF Cor!RunRow
<1>3. /\ [run EXCEPT ![p].on = TRUE] = [run EXCEPT ![p] = [run[p] EXCEPT !.on = TRUE]]
      /\ [run EXCEPT ![p].valid = TRUE] = [run EXCEPT ![p] = [run[p] EXCEPT !.valid = TRUE]]
      /\ \A n \in 0 .. 2 : [run EXCEPT ![p].results = n]
                            = [run EXCEPT ![p] = [run[p] EXCEPT !.results = n]]
  OBVIOUS
<1> QED
  BY <1>1, <1>2, <1>3

\* The owner and the clock.
LEMMA CorTypedOwner ==
    ASSUME NEW i \in DOMAIN Corrections,
           Cor(i)!Typed, Cor(i)!OwnerSteps \/ Cor(i)!Tick
    PROVE  Cor(i)!Typed'
<1>1. CASE Cor(i)!Switch
  <2>1. cur' \in [gen : Nat, model : Nat]
    BY <1>1 DEF Cor!Switch, Cor!Typed
  <2>2. CorTables(i)'
    BY <1>1, <2>1 DEF Cor!Switch, Cor!inputVars, Cor!Typed, CorTables
  <2> QED
    BY <1>1, <2>2, CorTypedAlone DEF Cor!Switch
<1>2. CASE Cor(i)!Stop
  <2>1. coJob' \in [Cor(i)!Jobs -> Cor(i)!JobRow] /\ stopped' \subseteq Cor(i)!Jobs
    BY <1>2, CorJobTyped DEF Cor!Stop, Cor!Typed
  <2> QED
    BY <1>2, <2>1, CorTypedAlone DEF Cor!Stop, Cor!inputVars, Cor!Typed, CorTables
<1>3. ASSUME NEW j \in Cor(i)!Jobs, Cor(i)!Arrive(j) PROVE Cor(i)!Typed'
  <2>1. [Cor(i)!NoJob EXCEPT !.st = "queued", !.gen = cur.gen, !.model = cur.model]
          \in Cor(i)!JobRow
    BY CorFixed DEF Cor!NoJob, Cor!JobRow, Cor!Typed, Cor!Stages
  <2>2. coJob' \in [Cor(i)!Jobs -> Cor(i)!JobRow]
    BY <1>3, <2>1, CorJobTyped DEF Cor!Arrive
  <2> QED
    BY <1>3, <2>2, CorTypedAlone DEF Cor!Arrive, Cor!inputVars, Cor!ownerVars, Cor!Typed, CorTables
<1>4. ASSUME NEW j \in Cor(i)!Jobs, Cor(i)!Resolve(j) PROVE Cor(i)!Typed'
  BY <1>4, CorTypedAlone DEF Cor!Resolve, Cor!inputVars, Cor!Typed, CorTables
<1>5. ASSUME NEW j \in Cor(i)!Jobs, Cor(i)!Deliver(j) PROVE Cor(i)!Typed'
  <2>1. coJob' \in [Cor(i)!Jobs -> Cor(i)!JobRow]
    BY <1>5, CorJobTyped DEF Cor!Deliver
  <2> QED
    BY <1>5, <2>1, CorTypedAlone DEF Cor!Deliver, Cor!inputVars, Cor!ownerVars, Cor!Typed, CorTables
<1>6. CASE Cor(i)!Tick
  <2>1. coJob' \in [Cor(i)!Jobs -> Cor(i)!JobRow]
    BY <1>6, CorJobTyped DEF Cor!Tick
  <2> QED
    BY <1>6, <2>1, CorTypedAlone DEF Cor!Tick, Cor!inputVars, Cor!ownerVars, Cor!Typed, CorTables
<1> QED
  BY <1>1, <1>2, <1>3, <1>4, <1>5, <1>6 DEF Cor!OwnerSteps

\* What a worker makes of its own row.
LEMMA CorSeatTyped ==
    ASSUME NEW i \in DOMAIN Corrections,
           Cor(i)!Typed, NEW w \in Corrections[i].Workers
    PROVE  /\ \A x \in Cor(i)!Steps : [wk[w] EXCEPT !.pc = x] \in Cor(i)!Seat
           /\ \A x \in Cor(i)!Steps, y \in {"none", "known", "unknown", "stop"} :
                 [wk[w] EXCEPT !.pc = x, !.why = y] \in Cor(i)!Seat
           /\ [wk[w] EXCEPT !.sealed = TRUE] \in Cor(i)!Seat
           /\ {"idle", "bulk", "lease", "turn", "save", "publish", "fail", "recover"}
                 \subseteq Cor(i)!Steps
<1>1. wk[w] \in Cor(i)!Seat
  BY CorSeats
<1> QED
  BY <1>1 DEF Cor!Seat, Cor!Steps

\* A worker's row at the start of its work.
LEMMA CorSeatBegins ==
    ASSUME NEW i \in DOMAIN Corrections, NEW s \in Cor(i)!Seat,
           NEW j \in 0 .. Corrections[i].NumJobs, NEW t \in Cor(i)!Some,
           NEW f \in Seq(Cor(i)!Jobs)
    PROVE  /\ [s EXCEPT !.pc = "recover", !.job = j, !.tok = t] \in Cor(i)!Seat
           /\ [s EXCEPT !.pc = "turn", !.job = j, !.tok = t, !.frames = f] \in Cor(i)!Seat
           /\ [s EXCEPT !.pc = "fail", !.job = j, !.tok = t, !.why = "known"] \in Cor(i)!Seat
<1>1. {"recover", "turn", "fail"} \subseteq Cor(i)!Steps
  BY DEF Cor!Steps
<1>2. [s EXCEPT !.pc = "recover", !.job = j, !.tok = t] \in Cor(i)!Seat
  BY <1>1 DEF Cor!Seat
<1>3. [s EXCEPT !.pc = "turn", !.job = j, !.tok = t, !.frames = f] \in Cor(i)!Seat
  BY <1>1 DEF Cor!Seat
<1>4. [s EXCEPT !.pc = "fail", !.job = j, !.tok = t, !.why = "known"] \in Cor(i)!Seat
  BY <1>1 DEF Cor!Seat
<1> QED
  BY <1>2, <1>3, <1>4

\* A broken stream.
LEMMA CorTypedBroken ==
    ASSUME NEW i \in DOMAIN Corrections,
           Cor(i)!Typed, CorTables(i)', NEW w \in Corrections[i].Workers,
           NEW y \in {"none", "known", "unknown", "stop"},
           Cor(i)!Broken(w, y)
    PROVE  Cor(i)!Typed'
<1>1. [wk[w] EXCEPT !.pc = "fail", !.why = y] \in Cor(i)!Seat
  BY CorSeatTyped
<1>2. wk' = [wk EXCEPT ![w] = [wk[w] EXCEPT !.pc = "fail", !.why = y]]
  BY DEF Cor!Broken, Cor!Typed
<1> QED
  BY <1>1, <1>2, CorFixed, CorTypedStep DEF Cor!Broken

\* A worker that goes on.
LEMMA CorTypedGoes ==
    ASSUME NEW i \in DOMAIN Corrections,
           Cor(i)!Typed, CorTables(i)', NEW w \in Corrections[i].Workers, NEW x \in Cor(i)!Steps,
           NEW y \in {"none", "known", "unknown", "stop"}, Cor(i)!Go(w, x, y), nat' = nat
    PROVE  Cor(i)!Typed'
<1>1. CASE x = "idle"
  BY <1>1, CorFixed, CorTypedSeat DEF Cor!Go
<1>2. CASE x # "idle"
  <2>1. wk' = [wk EXCEPT ![w] = [wk[w] EXCEPT !.pc = x, !.why = y]]
    BY <1>2 DEF Cor!Go, Cor!Typed
  <2> QED
    BY <2>1, CorSeatTyped, CorTypedSeat
<1> QED
  BY <1>1, <1>2

\* Recovery, publication, failure.
LEMMA CorTypedSettles ==
    ASSUME NEW i \in DOMAIN Corrections,
           Cor(i)!Typed, NEW p \in Cor(i)!Jobs, NEW t,
           \/ Cor(i)!Commits(p, t) \/ Cor(i)!Terminates(p, t, "failed")
           \/ Cor(i)!Terminates(p, t, "indeterminate")
           \/ coJob' = Cor(i)!Settled(p, "cancelled") \/ Cor(i)!RecoverLeased(p, t)
           \/ coJob' = coJob
    PROVE  coJob' \in [Cor(i)!Jobs -> Cor(i)!JobRow]
<1>1. {"cancelled", "result_ready", "failed", "indeterminate"} \subseteq Cor(i)!Stages
      /\ coJob \in [Cor(i)!Jobs -> Cor(i)!JobRow]
  BY DEF Cor!Stages, Cor!Typed
<1>2. \A s \in {"cancelled", "result_ready", "failed", "indeterminate"} :
         Cor(i)!Settled(p, s) \in [Cor(i)!Jobs -> Cor(i)!JobRow]
  BY <1>1, CorJobTyped
<1>3. \/ coJob' = coJob \/ \E s \in {"cancelled", "result_ready", "failed", "indeterminate"} :
                              coJob' = Cor(i)!Settled(p, s)
  BY DEF Cor!Commits, Cor!Terminates, Cor!RecoverLeased
<1> QED
  BY <1>1, <1>2, <1>3

\* The steps that end a turn.
LEMMA CorTypedEnds ==
    ASSUME NEW i \in DOMAIN Corrections,
           Cor(i)!Typed, CorAllFit(i), NEW w \in Corrections[i].Workers,
           Cor(i)!Publish(w) \/ Cor(i)!Recover(w) \/ Cor(i)!RecordFailure(w)
    PROVE  Cor(i)!Typed'
<1>1. wk[w].job \in Cor(i)!Jobs
  BY CorWorks DEF Cor!Publish, Cor!Recover, Cor!RecordFailure
<1>2. UNCHANGED <<run, child, text, given, cur, stopped, nat>>
  BY DEF Cor!Publish, Cor!Recover, Cor!RecordFailure, Cor!inputVars, Cor!ownerVars
<1>3. coFaults' = coFaults \/ (coFaults < Corrections[i].MaxFaults /\ coFaults' = coFaults + 1)
  BY DEF Cor!Publish, Cor!Recover, Cor!RecordFailure, Cor!RecoverLeased
<1>4. coJob' \in [Cor(i)!Jobs -> Cor(i)!JobRow]
  <2>1. \/ Cor(i)!Commits(wk[w].job, wk[w].tok)
        \/ Cor(i)!Terminates(wk[w].job, wk[w].tok, "failed")
        \/ Cor(i)!Terminates(wk[w].job, wk[w].tok, "indeterminate")
        \/ coJob' = Cor(i)!Settled(wk[w].job, "cancelled")
        \/ Cor(i)!RecoverLeased(wk[w].job, wk[w].tok)
        \/ coJob' = coJob
    BY DEF Cor!Publish, Cor!Recover, Cor!RecordFailure
  <2> QED
    BY <1>1, <2>1, CorTypedSettles
<1>5. CorTables(i)'
  BY <1>2, <1>3, <1>4, CorFaultTyped, CorTablesStep
<1>6. Cor(i)!Go(w, "idle", "none") \/ Cor(i)!Go(w, "fail", "unknown")
  BY DEF Cor!Publish, Cor!Recover, Cor!RecordFailure
<1> QED
  BY <1>2, <1>5, <1>6, CorSeatTyped, CorTypedGoes

\* A worker's cycle.
LEMMA CorTypedCycle ==
    ASSUME NEW i \in DOMAIN Corrections,
           Cor(i)!Typed, CorAllFit(i), NEW w \in Corrections[i].Workers,
           Cor(i)!Scan(w) \/ Cor(i)!Bulk(w) \/ Cor(i)!NoLaunch(w) \/ Cor(i)!Heartbeat(w)
           \/ Cor(i)!Die(w)
    PROVE  Cor(i)!Typed'
<1>1. CASE Cor(i)!Scan(w)
  <2>1. CASE wk' = [wk EXCEPT ![w].pc = "bulk"] /\ coJob' = coJob
    <3>1. CorTables(i)'
      BY <1>1, <2>1, CorTablesKept DEF Cor!Scan, Cor!inputVars, Cor!ownerVars
    <3>2. wk' = [wk EXCEPT ![w] = [wk[w] EXCEPT !.pc = "bulk"]]
      BY <2>1
    <3> QED
      BY <1>1, <3>1, <3>2, CorSeatTyped, CorTypedSeat DEF Cor!Scan
  <2>2. ASSUME NEW j \in Cor(i)!Stale, coJob' = Cor(i)!Renewed(j, Cor(i)!Fresh),
               wk' = [wk EXCEPT ![w] = [Cor(i)!Idle EXCEPT !.pc = "recover", !.job = j,
                     !.tok = Cor(i)!Fresh]]
        PROVE  Cor(i)!Typed'
    <3>1. coJob' \in [Cor(i)!Jobs -> Cor(i)!JobRow]
      BY <2>2, CorFresh, CorJobTyped DEF Cor!Stale
    <3>2. CorTables(i)'
      BY <1>1, <3>1, CorFaultTyped, CorTablesStep DEF Cor!Scan, Cor!inputVars, Cor!ownerVars
    <3>3. j \in 0 .. Corrections[i].NumJobs
      BY CorSizes DEF Cor!Stale, Cor!Jobs
    <3>4. [Cor(i)!Idle EXCEPT !.pc = "recover", !.job = j, !.tok = Cor(i)!Fresh] \in Cor(i)!Seat
      <4>1. Cor(i)!Idle \in Cor(i)!Seat /\ Cor(i)!Fresh \in Cor(i)!Some
        BY CorFixed, CorFresh
      <4>2. << >> \in Seq(Cor(i)!Jobs)
        OBVIOUS
      <4> QED
        BY <3>3, <4>1, <4>2, CorSeatBegins
    <3> QED
      BY <1>1, <2>2, <3>2, <3>4, CorTypedSeat DEF Cor!Scan
  <2> QED
    BY <1>1, <2>1, <2>2 DEF Cor!Scan
<1>2. CASE Cor(i)!Bulk(w)
  <2>1. coJob' \in [Cor(i)!Jobs -> Cor(i)!JobRow]
    BY <1>2, CorJobTyped DEF Cor!Bulk
  <2>2. CorTables(i)'
    BY <1>2, <2>1, CorFaultTyped, CorTablesStep DEF Cor!Bulk, Cor!inputVars, Cor!ownerVars
  <2>3. wk' = [wk EXCEPT ![w] = [wk[w] EXCEPT !.pc = "lease"]]
    BY <1>2 DEF Cor!Bulk
  <2> QED
    BY <1>2, <2>2, <2>3, CorSeatTyped, CorTypedSeat DEF Cor!Bulk
<1>3. CASE Cor(i)!NoLaunch(w)
  <2>1. CorTables(i)'
    BY <1>3, CorTablesKept DEF Cor!NoLaunch, Cor!inputVars, Cor!ownerVars
  <2> QED
    BY <1>3, <2>1, CorFixed, CorTypedSeat DEF Cor!NoLaunch
<1>4. CASE Cor(i)!Heartbeat(w)
  <2>1. wk[w].job \in Cor(i)!Jobs /\ wk[w].tok \in Cor(i)!Some
    BY <1>4, CorWorks, CorSeats DEF Cor!Heartbeat
  <2>2. coJob' \in [Cor(i)!Jobs -> Cor(i)!JobRow]
    BY <1>4, <2>1, CorJobTyped DEF Cor!Heartbeat
  <2>3. CorTables(i)'
    BY <1>4, <2>2, CorFaultTyped, CorTablesStep DEF Cor!Heartbeat, Cor!inputVars, Cor!ownerVars
  <2> QED
    BY <1>4, <2>3, CorTypedAlone DEF Cor!Heartbeat
<1>5. CASE Cor(i)!Die(w)
  <2>1. CorTables(i)'
    BY <1>5, CorTablesKept DEF Cor!Die, Cor!inputVars, Cor!ownerVars
  <2> QED
    BY <1>5, <2>1, CorFixed, CorTypedStep DEF Cor!Die
<1> QED
  BY <1>1, <1>2, <1>3, <1>4, <1>5

\* The launch.
LEMMA CorTypedLaunch ==
    ASSUME NEW i \in DOMAIN Corrections,
           Cor(i)!Typed, NEW w \in Corrections[i].Workers, NEW j \in Cor(i)!Jobs,
           Cor(i)!Launch(w, j)
    PROVE  Cor(i)!Typed'
<1>1. coJob' \in [Cor(i)!Jobs -> Cor(i)!JobRow] /\ UNCHANGED <<child, text, cur, stopped>>
  BY CorFresh, CorRowTyped, CorJobTyped DEF Cor!Launch, Cor!ownerVars
<1>2. j \in 0 .. Corrections[i].NumJobs /\ <<j>> \in Seq(Cor(i)!Jobs) /\ Len(<<j>>) = 1
  BY CorSizes DEF Cor!Jobs
<1>3. Cor(i)!Idle \in Cor(i)!Seat /\ Cor(i)!Fresh \in Cor(i)!Some
  BY CorFixed, CorFresh
<1>4. CASE /\ wk' = [wk EXCEPT ![w] = [Cor(i)!Idle EXCEPT !.pc = "turn", !.job = j,
                                          !.tok = Cor(i)!Fresh, !.frames = <<j>>]]
           /\ run' = [run EXCEPT ![j].on = TRUE]
           /\ nat' = [nat EXCEPT ![w] = [Cor(i)!NoNative EXCEPT !.on = TRUE, !.in = <<j>>]]
           /\ given' = [given EXCEPT ![j] = @ + 1]
           /\ UNCHANGED coFaults
  <2>1. run' \in [Cor(i)!Jobs -> Cor(i)!RunRow] /\ given' \in [Cor(i)!Jobs -> Nat]
    <3>1. run' \in [Cor(i)!Jobs -> Cor(i)!RunRow]
      BY <1>4, CorRunTyped
    <3>2. given' \in [Cor(i)!Jobs -> Nat]
      BY <1>4 DEF Cor!Typed
    <3> QED
      BY <3>1, <3>2
  <2>2. CorTables(i)'
    BY <1>1, <1>4, <2>1 DEF CorTables, Cor!Typed
  <2>3. [Cor(i)!Idle EXCEPT !.pc = "turn", !.job = j, !.tok = Cor(i)!Fresh, !.frames = <<j>>]
          \in Cor(i)!Seat
    BY <1>2, <1>3, CorSeatBegins
  <2>4. /\ [Cor(i)!NoNative EXCEPT !.on = TRUE, !.in = <<j>>] \in Cor(i)!Process
        /\ CorAcks(i, [Cor(i)!NoNative EXCEPT !.on = TRUE, !.in = <<j>>])
    <3>1. Cor(i)!NoNative \in Cor(i)!Process /\ Cor(i)!NoNative.acked = 0
      BY CorFixed DEF Cor!NoNative
    <3>2. /\ [Cor(i)!NoNative EXCEPT !.on = TRUE, !.in = <<j>>] \in Cor(i)!Process
          /\ [Cor(i)!NoNative EXCEPT !.on = TRUE, !.in = <<j>>].acked = 0
          /\ [Cor(i)!NoNative EXCEPT !.on = TRUE, !.in = <<j>>].in = <<j>>
      BY <1>2, <3>1 DEF Cor!Process
    <3> QED
      BY <1>2, <3>2 DEF CorAcks
  <2> QED
    BY <1>4, <2>2, <2>3, <2>4, CorTypedStep
<1>5. CASE /\ coFaults < Corrections[i].MaxFaults /\ coFaults' = coFaults + 1
           /\ wk' = [wk EXCEPT ![w] = [Cor(i)!Idle EXCEPT !.pc = "fail", !.job = j,
                                          !.tok = Cor(i)!Fresh, !.why = "known"]]
           /\ UNCHANGED <<run, nat, given>>
  <2>1. CorTables(i)'
    BY <1>1, <1>5, CorFaultTyped, CorTablesStep
  <2>2. [Cor(i)!Idle EXCEPT !.pc = "fail", !.job = j, !.tok = Cor(i)!Fresh, !.why = "known"]
          \in Cor(i)!Seat
    BY <1>2, <1>3, CorSeatBegins
  <2> QED
    BY <1>5, <2>1, <2>2, CorTypedSeat
<1> QED
  BY <1>4, <1>5 DEF Cor!Launch

\* The reservation's rows.
LEMMA CorTypedReserved ==
    ASSUME NEW i \in DOMAIN Corrections,
           Cor(i)!Typed, NEW p \in Cor(i)!Jobs, NEW c \in Cor(i)!Jobs, Cor(i)!Reserved(p, c)
    PROVE  coJob' \in [Cor(i)!Jobs -> Cor(i)!JobRow] /\ child' \in [Cor(i)!Jobs -> Cor(i)!ChildRow]
<1>1. coJob[p].left \in 0 .. Corrections[i].LeaseTime
  BY CorRows
<1>2. [job |-> c, tok |-> Cor(i)!Fresh] \in Cor(i)!ChildRow
  BY CorSizes, CorFresh DEF Cor!ChildRow, Cor!Jobs
<1> QED
  BY <1>1, <1>2, CorFresh, CorJobTyped DEF Cor!Reserved, Cor!Typed

\* The poll for a correction.
LEMMA CorTypedPoll ==
    ASSUME NEW i \in DOMAIN Corrections,
           Cor(i)!Typed, CorAllFit(i), NEW w \in Corrections[i].Workers, Cor(i)!Poll(w)
    PROVE  Cor(i)!Typed'
<1>1. wk[w].job \in Cor(i)!Jobs
  BY CorWorks DEF Cor!Poll, Cor!Seal, Cor!Take, Cor!AmbiguousTake, Cor!Polls, Cor!Running
<1>2. CASE Cor(i)!Seal(w)
  <2>1. CorTables(i)'
    BY <1>2, CorTablesKept DEF Cor!Seal, Cor!inputVars, Cor!ownerVars
  <2>2. wk' = [wk EXCEPT ![w] = [wk[w] EXCEPT !.sealed = TRUE]]
    BY <1>2 DEF Cor!Seal
  <2> QED
    BY <1>2, <2>1, <2>2, CorSeatTyped, CorTypedSeat DEF Cor!Seal
<1>3. ASSUME NEW c \in Cor(i)!Jobs, Cor(i)!Take(w, c) PROVE Cor(i)!Typed'
  <2>1. coJob' \in [Cor(i)!Jobs -> Cor(i)!JobRow] /\ child' \in [Cor(i)!Jobs -> Cor(i)!ChildRow]
    BY <1>1, <1>3, CorTypedReserved DEF Cor!Take
  <2>2. given' \in [Cor(i)!Jobs -> Nat]
    BY <1>3 DEF Cor!Take, Cor!Typed
  <2>3. CorTables(i)'
    BY <1>3, <2>1, <2>2 DEF Cor!Take, Cor!ownerVars, CorTables, Cor!Typed
  <2>4. /\ Append(wk[w].frames, c) \in Seq(Cor(i)!Jobs) /\ Append(nat[w].in, c) \in Seq(Cor(i)!Jobs)
        /\ Len(Append(nat[w].in, c)) = Len(nat[w].in) + 1 /\ Len(nat[w].in) \in Nat
        /\ nat[w].acked \in Nat /\ nat[w].acked <= Len(nat[w].in)
    BY CorSeats, CorAppended
  <2>5. nat[w].acked <= Len(Append(nat[w].in, c))
    BY <2>4
  <2>6. /\ [wk[w] EXCEPT !.frames = Append(wk[w].frames, c)] \in Cor(i)!Seat
        /\ [nat[w] EXCEPT !.in = Append(nat[w].in, c)] \in Cor(i)!Process
        /\ CorAcks(i, [nat[w] EXCEPT !.in = Append(nat[w].in, c)])
    <3>1. wk[w] \in Cor(i)!Seat /\ nat[w] \in Cor(i)!Process
      BY CorSeats
    <3>2. [wk[w] EXCEPT !.frames = Append(wk[w].frames, c)] \in Cor(i)!Seat
      BY <2>4, <3>1 DEF Cor!Seat
    <3>3. [nat[w] EXCEPT !.in = Append(nat[w].in, c)] \in Cor(i)!Process
      BY <2>4, <3>1 DEF Cor!Process
    <3>4. CorAcks(i, [nat[w] EXCEPT !.in = Append(nat[w].in, c)])
      BY <2>5, <3>1 DEF Cor!Process, CorAcks
    <3> QED
      BY <3>2, <3>3, <3>4
  <2>7. /\ wk' = [wk EXCEPT ![w] = [wk[w] EXCEPT !.frames = Append(wk[w].frames, c)]]
        /\ nat' = [nat EXCEPT ![w] = [nat[w] EXCEPT !.in = Append(nat[w].in, c)]]
    BY <1>3 DEF Cor!Take, Cor!Typed
  <2> QED
    BY <2>3, <2>6, <2>7, CorTypedStep
<1>4. ASSUME NEW c \in Cor(i)!Jobs, Cor(i)!AmbiguousTake(w, c) PROVE Cor(i)!Typed'
  <2>1. coJob' \in [Cor(i)!Jobs -> Cor(i)!JobRow] /\ child' \in [Cor(i)!Jobs -> Cor(i)!ChildRow]
    BY <1>1, <1>4, CorTypedReserved DEF Cor!AmbiguousTake
  <2>2. coFaults' \in 0 .. Corrections[i].MaxFaults
    BY <1>4, CorFaultTyped DEF Cor!AmbiguousTake
  <2>3. CorTables(i)'
    BY <1>4, <2>1, <2>2 DEF Cor!AmbiguousTake, Cor!ownerVars, CorTables, Cor!Typed
  <2> QED
    BY <1>4, <2>3, CorTypedBroken DEF Cor!AmbiguousTake
<1> QED
  BY <1>2, <1>3, <1>4 DEF Cor!Poll

\* The faults of a turn.
LEMMA CorTypedFaults ==
    ASSUME NEW i \in DOMAIN Corrections,
           Cor(i)!Typed, NEW w \in Corrections[i].Workers,
           Cor(i)!StreamFault(w) \/ Cor(i)!Deadline(w) \/ Cor(i)!Interrupt(w)
    PROVE  Cor(i)!Typed'
<1>1. CorTables(i)'
  BY CorTablesKept DEF Cor!StreamFault, Cor!Deadline, Cor!Interrupt, Cor!inputVars, Cor!ownerVars
<1>2. PICK y \in {"none", "known", "unknown", "stop"} : Cor(i)!Broken(w, y)
  BY DEF Cor!StreamFault, Cor!Deadline, Cor!Interrupt
<1> QED
  BY <1>1, <1>2, CorTypedBroken

\* The save.
LEMMA CorTypedSave ==
    ASSUME NEW i \in DOMAIN Corrections,
           Cor(i)!Typed, CorAllFit(i), NEW w \in Corrections[i].Workers, Cor(i)!Save(w)
    PROVE  Cor(i)!Typed'
<1> DEFINE p == wk[w].job
<1>1. p \in Cor(i)!Jobs /\ wk[w].answers \in SUBSET Cor(i)!Jobs
  BY CorWorks, CorSeats DEF Cor!Save
<1>2. UNCHANGED <<coJob, child, given, cur, stopped, nat>>
  BY DEF Cor!Save, Cor!ownerVars
<1>3. coFaults' \in 0 .. Corrections[i].MaxFaults
  BY CorFaultTyped DEF Cor!Save
<1>4. text' \in [Cor(i)!Jobs -> SUBSET Cor(i)!Jobs] /\ run' \in [Cor(i)!Jobs -> Cor(i)!RunRow]
  <2>1. \/ text' = text /\ run' = run
        \/ /\ text' = [text EXCEPT ![p] = wk[w].answers]
           /\ run' = [run EXCEPT ![p].valid = TRUE]
    BY DEF Cor!Save
  <2>2. text' \in [Cor(i)!Jobs -> SUBSET Cor(i)!Jobs]
    BY <1>1, <2>1 DEF Cor!Typed
  <2>3. run' \in [Cor(i)!Jobs -> Cor(i)!RunRow]
    <3>1. run \in [Cor(i)!Jobs -> Cor(i)!RunRow]
      BY DEF Cor!Typed
    <3>2. [run EXCEPT ![p].valid = TRUE] \in [Cor(i)!Jobs -> Cor(i)!RunRow]
      BY <1>1, CorRunTyped
    <3> QED
      BY <2>1, <3>1, <3>2
  <2> QED
    BY <2>2, <2>3
<1>5. CorTables(i)'
  BY <1>2, <1>3, <1>4 DEF CorTables, Cor!Typed
<1>6. Cor(i)!Go(w, "publish", "none") \/ Cor(i)!Go(w, "fail", "unknown")
  BY DEF Cor!Save
<1> QED
  BY <1>2, <1>5, <1>6, CorSeatTyped, CorTypedGoes

\* The reading of the stream.
LEMMA CorTypedRead ==
    ASSUME NEW i \in DOMAIN Corrections,
           Cor(i)!Typed, CorAllFit(i), NEW w \in Corrections[i].Workers, Cor(i)!Read(w)
    PROVE  Cor(i)!Typed'
<1> DEFINE e == Head(nat[w].out)
           p == wk[w].job
           b == wk[w].results + 1
<1>1. /\ wk[w].pc = "turn" /\ nat[w].out # << >> /\ p \in Cor(i)!Jobs
      /\ UNCHANGED <<coJob, child, text, given, cur, stopped, coFaults>>
  BY CorWorks DEF Cor!Read, Cor!ownerVars, Cor!Running
<1>2. /\ wk[w].results \in 0 .. 2 /\ (wk[w].results = 2 => wk[w].complete)
      /\ e \in Cor(i)!Events /\ Tail(nat[w].out) \in Seq(Cor(i)!Events)
      /\ wk[w].receipts \in Seq(1 .. 2) /\ nat[w] \in Cor(i)!Process /\ wk[w] \in Cor(i)!Seat
      /\ nat[w].acked <= Len(nat[w].in) /\ wk[w].answers \in SUBSET Cor(i)!Jobs
      /\ wk[w].failed \in BOOLEAN
  BY <1>1, CorWorks, CorSeats, CorReadHead DEF Cor!SeatFits, Cor!InTurn
<1>3. /\ [nat[w] EXCEPT !.out = Tail(nat[w].out)] \in Cor(i)!Process
      /\ CorAcks(i, [nat[w] EXCEPT !.out = Tail(nat[w].out)])
  BY <1>2 DEF Cor!Process, CorAcks
<1>4. ASSUME run' \in [Cor(i)!Jobs -> Cor(i)!RunRow], NEW y \in {"known", "unknown"},
             Cor(i)!Broken(w, y) PROVE Cor(i)!Typed'
  <2>1. CorTables(i)'
    BY <1>1, <1>4 DEF CorTables, Cor!Typed
  <2> QED
    BY <1>4, <2>1, CorTypedBroken
<1>5. ASSUME Cor(i)!ReadReceipt(w, e) PROVE Cor(i)!Typed'
  <2>1. CASE Cor(i)!Broken(w, "unknown") /\ run' = run
    BY <1>4, <2>1 DEF Cor!Typed
  <2>2. CASE ~(Cor(i)!Broken(w, "unknown") /\ run' = run)
    <3>1. /\ Cor(i)!Expected(w, e.j) /\ Cor(i)!Receiptable(w, e.j, b)
          /\ run' = [run EXCEPT ![p] = IF e.j = p THEN [@ EXCEPT !.first = b]
                                                  ELSE [@ EXCEPT !.second = b]]
          /\ wk' = [wk EXCEPT ![w].receipts = Append(@, b)]
          /\ nat' = [nat EXCEPT ![w].out = Tail(@)]
      BY <1>5, <2>2 DEF Cor!ReadReceipt
    <3>2. b \in 1 .. 2
      BY <1>2, <3>1 DEF Cor!Expected
    <3>3. e.j = p => b \in 0 .. 1
      BY <1>1, <3>1, CorPair, CorWorks, CorSizes DEF Cor!Receiptable, Cor!Jobs
    <3>4. [run[p] EXCEPT !.second = b] \in Cor(i)!RunRow
          /\ (b \in 0 .. 1 => [run[p] EXCEPT !.first = b] \in Cor(i)!RunRow)
      <4>1. run[p] \in Cor(i)!RunRow
        BY <1>1 DEF Cor!Typed
      <4>2. b \in 0 .. 2
        BY <3>2
      <4> QED
        BY <4>1, <4>2 DEF Cor!RunRow
    <3>5. run' \in [Cor(i)!Jobs -> Cor(i)!RunRow]
      BY <3>1, <3>3, <3>4 DEF Cor!Typed
    <3>6. CorTables(i)'
      BY <1>1, <3>5 DEF CorTables, Cor!Typed
    <3>7. Append(wk[w].receipts, b) \in Seq(1 .. 2)
      BY <1>2, <3>2, CorAppended
    <3>8. [wk[w] EXCEPT !.receipts = Append(wk[w].receipts, b)] \in Cor(i)!Seat
      BY <1>2, <3>7 DEF Cor!Seat
    <3>9. /\ wk' = [wk EXCEPT ![w] = [wk[w] EXCEPT !.receipts = Append(wk[w].receipts, b)]]
          /\ nat' = [nat EXCEPT ![w] = [nat[w] EXCEPT !.out = Tail(nat[w].out)]]
      BY <3>1 DEF Cor!Typed
    <3> QED
      BY <1>3, <3>6, <3>8, <3>9, CorTypedStep
  <2> QED
    BY <2>1, <2>2
<1>6. ASSUME Cor(i)!ReadResult(w, e) PROVE Cor(i)!Typed'
  <2>1. CASE Cor(i)!Broken(w, "unknown") /\ run' = run
    BY <1>4, <2>1 DEF Cor!Typed
  <2>2. CASE ~(Cor(i)!Broken(w, "unknown") /\ run' = run)
    <3>1. /\ Cor(i)!Owned(w) /\ run' = [run EXCEPT ![p].results = b]
          /\ \/ Cor(i)!Broken(w, "unknown")
             \/ /\ wk' = [wk EXCEPT ![w] = [@ EXCEPT !.results = b, !.sealed = TRUE,
                             !.complete = Cor(i)!Whole(Cor(i)!Boundaries(w), b),
                             !.failed = (wk[w].failed \/ ~e.ok),
                             !.answers = wk[w].answers \cup e.answers]]
                /\ nat' = [nat EXCEPT ![w].out = Tail(@)]
      BY <1>6, <2>2 DEF Cor!ReadResult
    <3>2. b \in 0 .. 2
      BY <1>2, <3>1 DEF Cor!Owned
    <3>3. run' \in [Cor(i)!Jobs -> Cor(i)!RunRow]
      BY <1>1, <3>1, <3>2, CorRunTyped
    <3>4. CorTables(i)'
      BY <1>1, <3>3 DEF CorTables, Cor!Typed
    <3>5. e.answers \in SUBSET Cor(i)!Jobs /\ Cor(i)!Whole(Cor(i)!Boundaries(w), b) \in BOOLEAN
          /\ (wk[w].failed \/ ~e.ok) \in BOOLEAN
      BY <1>2 DEF Cor!Events, Cor!Whole
    <3>6. [wk[w] EXCEPT !.results = b, !.sealed = TRUE,
                !.complete = Cor(i)!Whole(Cor(i)!Boundaries(w), b),
                        !.failed = (wk[w].failed \/ ~e.ok),
                        !.answers = wk[w].answers \cup e.answers] \in Cor(i)!Seat
      BY <1>2, <3>2, <3>5 DEF Cor!Seat
    <3>7. CASE Cor(i)!Broken(w, "unknown")
      BY <1>4, <3>3, <3>7
    <3>8. CASE ~Cor(i)!Broken(w, "unknown")
      <4>1. /\ wk' = [wk EXCEPT ![w] = [wk[w] EXCEPT !.results = b, !.sealed = TRUE,
                         !.complete = Cor(i)!Whole(Cor(i)!Boundaries(w), b),
                         !.failed = (wk[w].failed \/ ~e.ok),
                         !.answers = wk[w].answers \cup e.answers]]
            /\ nat' = [nat EXCEPT ![w] = [nat[w] EXCEPT !.out = Tail(nat[w].out)]]
        BY <3>1, <3>8 DEF Cor!Typed
      <4> QED
        BY <1>3, <3>4, <3>6, <4>1, CorTypedStep
    <3> QED
      BY <3>7, <3>8
  <2> QED
    BY <2>1, <2>2
<1>7. ASSUME Cor(i)!ReadEnd(w), run' = run PROVE Cor(i)!Typed'
  <2>1. run' \in [Cor(i)!Jobs -> Cor(i)!RunRow] /\ CorTables(i)'
    BY <1>1, <1>7 DEF CorTables, Cor!Typed
  <2>2. CASE wk' = [wk EXCEPT ![w].pc = "save"] /\ nat' = [nat EXCEPT ![w] = Cor(i)!NoNative]
    <3>1. wk' = [wk EXCEPT ![w] = [wk[w] EXCEPT !.pc = "save"]]
      BY <2>2
    <3> QED
      BY <2>1, <2>2, <3>1, CorSeatTyped, CorFixed, CorTypedStep
  <2>3. CASE Cor(i)!Broken(w, "known") \/ Cor(i)!Broken(w, "unknown")
    BY <1>4, <2>1, <2>3
  <2> QED
    BY <1>7, <2>2, <2>3 DEF Cor!ReadEnd
<1> QED
  BY <1>5, <1>6, <1>7 DEF Cor!Read

\* The process.
LEMMA CorTypedNative ==
    ASSUME NEW i \in DOMAIN Corrections,
           Cor(i)!Typed, NEW w \in Corrections[i].Workers, Cor(i)!Native(w)
    PROVE  Cor(i)!Typed'
<1> DEFINE p == nat[w]
<1>1. /\ p \in Cor(i)!Process /\ p.in \in Seq(Cor(i)!Jobs) /\ Len(p.in) \in Nat /\ p.acked \in Nat
      /\ p.covered \in Nat /\ p.out \in Seq(Cor(i)!Events) /\ p.acked <= Len(p.in)
  BY CorSeats
<1>2. CorTables(i)' /\ wk' = wk
  BY CorTablesKept DEF Cor!Native, Cor!NativeReceipt, Cor!NativeResult, Cor!NativeEnd,
       Cor!NativeFault,
       Cor!inputVars, Cor!ownerVars
<1>3. ASSUME NEW a \in Nat, NEW c \in Nat, NEW o \in BOOLEAN, NEW e \in Cor(i)!Events,
             a <= Len(p.in),
             nat' = [nat EXCEPT ![w] = [p EXCEPT !.acked = a, !.covered = c, !.on = o,
                                                 !.out = p.out \o <<e>>]]
      PROVE  Cor(i)!Typed'
  <2> DEFINE n == [p EXCEPT !.acked = a, !.covered = c, !.on = o, !.out = p.out \o <<e>>]
  <2>1. p.out \o <<e>> \in Seq(Cor(i)!Events)
    BY <1>1, CorAppended
  <2>2. n \in Cor(i)!Process /\ CorAcks(i, n)
    BY <1>1, <1>3, <2>1 DEF Cor!Process, CorAcks
  <2>3. wk' = [wk EXCEPT ![w] = wk[w]] /\ wk[w] \in Cor(i)!Seat
    BY <1>2, CorSeats DEF Cor!Typed
  <2> HIDE DEF n
  <2>4. nat' = [nat EXCEPT ![w] = n]
    BY <1>3 DEF n
  <2> QED
    BY <1>2, <2>2, <2>3, <2>4, CorTypedStep
<1>4. /\ \A j \in Cor(i)!Jobs : Cor(i)!Event("receipt", j, TRUE, {}) \in Cor(i)!Events
      /\ \A ok \in BOOLEAN, a \in SUBSET Cor(i)!Jobs :
            Cor(i)!Event("result", 0, ok, a) \in Cor(i)!Events
      /\ Cor(i)!Event("end", 0, TRUE, {}) \in Cor(i)!Events
  BY CorSizes DEF Cor!Event, Cor!Events, Cor!Jobs
<1>5. CASE Cor(i)!NativeReceipt(w)
  <2>1. p.in[p.acked + 1] \in Cor(i)!Jobs /\ p.acked + 1 \in Nat /\ p.acked + 1 <= Len(p.in)
    BY <1>1, <1>5 DEF Cor!NativeReceipt
  <2>2. nat' = [nat EXCEPT ![w] = [p EXCEPT !.acked = p.acked + 1, !.covered = p.covered,
                  !.on = p.on,
                  !.out = p.out \o <<Cor(i)!Event("receipt", p.in[p.acked + 1], TRUE, {})>>]]
    BY <1>1, <1>5 DEF Cor!NativeReceipt, Cor!Emit, Cor!Process, Cor!Typed
  <2>3. p.on \in BOOLEAN /\ Cor(i)!Event("receipt", p.in[p.acked + 1], TRUE, {}) \in Cor(i)!Events
    BY <1>1, <1>4, <2>1 DEF Cor!Process
  <2> QED
    BY <1>1, <1>3, <2>1, <2>2, <2>3
<1>6. ASSUME NEW ok \in BOOLEAN, Cor(i)!NativeResult(w, ok) PROVE Cor(i)!Typed'
  <2> DEFINE e == Cor(i)!Event("result", 0, ok, {p.in[l] : l \in p.covered + 1 .. p.acked})
  <2>1. {p.in[l] : l \in p.covered + 1 .. p.acked} \in SUBSET Cor(i)!Jobs
    BY <1>1
  <2>2. p.on \in BOOLEAN /\ e \in Cor(i)!Events
    BY <1>1, <1>4, <2>1 DEF Cor!Process
  <2>3. nat' = [nat EXCEPT ![w] = [p EXCEPT !.acked = p.acked, !.covered = p.acked,
                  !.on = p.on, !.out = p.out \o <<e>>]]
    BY <1>1, <1>6 DEF Cor!NativeResult, Cor!Emit, Cor!Process, Cor!Typed
  <2> HIDE DEF e
  <2> QED
    BY <1>1, <1>3, <2>2, <2>3
<1>7. CASE Cor(i)!NativeEnd(w)
  <2>1. nat' = [nat EXCEPT ![w] = [p EXCEPT !.acked = p.acked, !.covered = p.covered,
                  !.on = FALSE, !.out = p.out \o <<Cor(i)!Event("end", 0, TRUE, {})>>]]
    BY <1>1, <1>7 DEF Cor!NativeEnd, Cor!Emit, Cor!Process, Cor!Typed
  <2> QED
    BY <1>1, <1>3, <1>4, <2>1
<1>8. CASE Cor(i)!NativeFault(w)
  <2>1. PICK e \in {Cor(i)!Event("receipt", p.in[l], TRUE, {}) : l \in 1 .. p.acked}
                    \cup {Cor(i)!Event("result", 0, TRUE, {}) : l \in {p.covered} \cap {p.acked}}
                    \cup {Cor(i)!Event("end", 0, TRUE, {})} :
          nat' = [nat EXCEPT ![w] = [@ EXCEPT !.on = (e.k # "end"), !.out = p.out \o <<e>>]]
    BY <1>8 DEF Cor!NativeFault, Cor!Emit
  <2>2. \A l \in 1 .. p.acked : p.in[l] \in Cor(i)!Jobs
    BY <1>1
  <2>3. e \in Cor(i)!Events
    BY <1>4, <2>1, <2>2
  <2>4. nat' = [nat EXCEPT ![w] = [p EXCEPT !.acked = p.acked, !.covered = p.covered,
                  !.on = (e.k # "end"), !.out = p.out \o <<e>>]]
    BY <1>1, <2>1 DEF Cor!Process, Cor!Typed
  <2>5. (e.k # "end") \in BOOLEAN
    OBVIOUS
  <2> QED
    BY <1>1, <1>3, <2>3, <2>4, <2>5
<1> QED
  BY <1>5, <1>6, <1>7, <1>8 DEF Cor!Native

-----------------------------------------------------------------------------
(* The invariant of the whole.                                               *)

\* The steps of the owner and of the clock.
LEMMA CorOwner ==
    ASSUME NEW i \in DOMAIN Corrections,
           Cor(i)!Typed, CorAllFit(i), Cor(i)!OwnerSteps \/ Cor(i)!Tick
    PROVE  CorAllFit(i)'
<1>1. CorJobsFit(i)
  BY DEF CorAllFit
<1>2. child' = child /\ wk' = wk /\ nat' = nat
  BY DEF Cor!OwnerSteps, Cor!Tick, Cor!Switch, Cor!Stop, Cor!Arrive, Cor!Resolve, Cor!Deliver,
       Cor!inputVars
<1>3. CASE Cor(i)!Switch
  BY <1>1, <1>2, <1>3, CorStill, CorAlone DEF Cor!Switch, Cor!inputVars, CorSame
<1>4. CASE Cor(i)!Stop
  BY <1>1, <1>2, <1>4, CorStop, CorAlone
<1>5. ASSUME NEW j \in Cor(i)!Jobs, Cor(i)!Arrive(j) PROVE CorAllFit(i)'
  BY <1>1, <1>2, <1>5, CorArrival, CorAlone
<1>6. ASSUME NEW j \in Cor(i)!Jobs, Cor(i)!Resolve(j) PROVE CorAllFit(i)'
  BY <1>1, <1>2, <1>6, CorStill, CorAlone DEF Cor!Resolve, Cor!inputVars, CorSame
<1>7. ASSUME NEW j \in Cor(i)!Jobs, Cor(i)!Deliver(j) PROVE CorAllFit(i)'
  BY <1>1, <1>2, <1>7, CorDelivery, CorAlone
<1>8. CASE Cor(i)!Tick
  BY <1>1, <1>2, <1>8, CorTick, CorAlone
<1> QED
  BY <1>3, <1>4, <1>5, <1>6, <1>7, <1>8 DEF Cor!OwnerSteps

\* The steps of a worker, of its process and of what befalls them.
LEMMA CorWorker ==
    ASSUME NEW i \in DOMAIN Corrections,
           Cor(i)!Typed, CorAllFit(i), NEW w \in Corrections[i].Workers,
           \/ Cor(i)!Step(w) \/ Cor(i)!Poll(w) \/ Cor(i)!Native(w) \/ Cor(i)!Heartbeat(w)
           \/ Cor(i)!StreamFault(w) \/ Cor(i)!Deadline(w) \/ Cor(i)!Interrupt(w) \/ Cor(i)!Die(w)
    PROVE  Cor(i)!Typed' /\ CorAllFit(i)'
<1>1. CASE Cor(i)!Heartbeat(w)
  BY <1>1, CorHeartbeat, CorTypedCycle
<1>2. CASE Cor(i)!Scan(w)
  BY <1>2, CorScan, CorSeatEnds, CorTypedCycle
<1>3. CASE Cor(i)!Bulk(w)
  BY <1>3, CorBulkStep, CorSeatEnds, CorTypedCycle
<1>4. CASE Cor(i)!NoLaunch(w) \/ Cor(i)!Die(w)
  BY <1>4, CorNoLaunch, CorSeatEnds, CorTypedCycle
<1>5. ASSUME NEW j \in Cor(i)!Jobs, Cor(i)!Launch(w, j) PROVE Cor(i)!Typed' /\ CorAllFit(i)'
  BY <1>5, CorLaunchStep, CorSeatEnds, CorTypedLaunch
<1>6. CASE Cor(i)!Read(w)
  BY <1>6, CorRead, CorSeatEnds, CorTypedRead
<1>7. CASE Cor(i)!Save(w)
  BY <1>7, CorSaveStep, CorSeatEnds, CorTypedSave
<1>8. CASE Cor(i)!Publish(w)
  BY <1>8, CorPublish, CorSeatEnds, CorTypedEnds
<1>9. CASE Cor(i)!Recover(w)
  BY <1>9, CorRecover, CorSeatEnds, CorTypedEnds
<1>10. CASE Cor(i)!RecordFailure(w)
  BY <1>10, CorRecordFailure, CorSeatEnds, CorTypedEnds
<1>11. CASE Cor(i)!Poll(w)
  <2>1. Cor(i)!Typed'
    BY <1>11, CorTypedPoll
  <2>2. CASE Cor(i)!Seal(w)
    BY <2>1, <2>2, CorSeal, CorSeatEnds
  <2>3. ASSUME NEW c \in Cor(i)!Jobs, Cor(i)!Take(w, c) PROVE CorAllFit(i)'
    BY <2>3, CorTake, CorSeatEnds
  <2>4. ASSUME NEW c \in Cor(i)!Jobs, Cor(i)!AmbiguousTake(w, c) PROVE CorAllFit(i)'
    BY <2>4, CorAmbiguousTake, CorSeatEnds
  <2> QED
    BY <1>11, <2>1, <2>2, <2>3, <2>4 DEF Cor!Poll
<1>12. CASE Cor(i)!Native(w)
  BY <1>12, CorNative, CorSeatEnds, CorTypedNative
<1>13. CASE Cor(i)!StreamFault(w) \/ Cor(i)!Deadline(w) \/ Cor(i)!Interrupt(w)
  BY <1>13, CorFaults, CorSeatEnds, CorTypedFaults
<1> QED
  BY <1>1, <1>2, <1>3, <1>4, <1>5, <1>6, <1>7, <1>8, <1>9, <1>10, <1>11, <1>12, <1>13 DEF Cor!Step

\* The invariant, taken apart.
LEMMA CorParts ==
    ASSUME NEW i \in DOMAIN Corrections
    PROVE  Cor(i)!CorrectionInv <=> Cor(i)!Typed /\ CorAllFit(i)
BY DEF Cor!CorrectionInv, CorAllFit, CorJobsFit

\* Every step keeps the invariant.
LEMMA CorNext ==
    ASSUME NEW i \in DOMAIN Corrections,
           Cor(i)!CorrectionInv, Cor(i)!Next
    PROVE  Cor(i)!CorrectionInv'
<1>1. Cor(i)!Typed /\ CorAllFit(i)
  BY CorParts
<1>2. CASE Cor(i)!OwnerSteps \/ Cor(i)!Tick
  <2>1. Cor(i)!Typed' /\ CorAllFit(i)'
    BY <1>1, <1>2, CorOwner, CorTypedOwner
  <2> QED
    BY <2>1 DEF Cor!CorrectionInv, CorAllFit, CorJobsFit
<1>3. ASSUME NEW w \in Corrections[i].Workers,
             \/ Cor(i)!Step(w) \/ Cor(i)!Poll(w) \/ Cor(i)!Native(w) \/ Cor(i)!Heartbeat(w)
             \/ Cor(i)!StreamFault(w) \/ Cor(i)!Deadline(w) \/ Cor(i)!Interrupt(w) \/ Cor(i)!Die(w)
      PROVE  Cor(i)!CorrectionInv'
  <2>1. Cor(i)!Typed' /\ CorAllFit(i)'
    BY <1>1, <1>3, CorWorker
  <2> QED
    BY <2>1 DEF Cor!CorrectionInv, CorAllFit, CorJobsFit
<1> QED
  BY <1>2, <1>3 DEF Cor!Next

\* So does a step that changes nothing.
LEMMA CorStutter ==
    ASSUME NEW i \in DOMAIN Corrections,
           Cor(i)!CorrectionInv, Cor(i)!vars' = Cor(i)!vars
    PROVE  Cor(i)!CorrectionInv'
<1>1. Cor(i)!Typed /\ CorAllFit(i)
  BY CorParts
<1>2. UNCHANGED <<coJob, run, child, text, cur, stopped, wk, nat, coFaults, given>>
  BY DEF Cor!vars
<1>3. CorAllFit(i)'
  BY <1>1, <1>2, CorStill, CorAlone DEF CorSame, CorAllFit
<1>4. Cor(i)!Typed'
  BY <1>1, <1>2 DEF Cor!Typed
<1> QED
  BY <1>3, <1>4 DEF Cor!CorrectionInv, CorAllFit, CorJobsFit

\* The invariant holds at first.
LEMMA CorStart ==
    ASSUME NEW i \in DOMAIN Corrections,
           Cor(i)!Init
    PROVE  Cor(i)!CorrectionInv
<1>1. \A j \in Cor(i)!Jobs : /\ coJob[j] = Cor(i)!NoJob /\ coJob[j].st = "none" /\ coJob[j].tok = 0
                             /\ child[j] = Cor(i)!NoChild /\ child[j].job = 0 /\ text[j] = {}
                             /\ given[j] = 0
                             /\ run[j] = Cor(i)!NoRun
  BY DEF Cor!Init, Cor!NoJob, Cor!NoChild
<1>2. \A w \in Corrections[i].Workers : /\ wk[w] = Cor(i)!Idle /\ wk[w].pc = "idle" /\ wk[w].job = 0
                                        /\ wk[w].frames = << >> /\ wk[w].receipts = << >>
                                        /\ nat[w] = Cor(i)!NoNative /\ nat[w].acked = 0
                                        /\ nat[w].in = << >>
  BY DEF Cor!Init, Cor!Idle, Cor!NoNative
<1>3. Cor(i)!Typed
  BY <1>2, CorFixed, CorSizes DEF Cor!Init, Cor!Typed
<1>4. CorJobsFit(i)
  BY <1>1 DEF CorJobsFit, Cor!QueueFits, Cor!ChildrenFit, Cor!PairEndsTogether, Cor!TextsFit,
       Cor!CancelledIsCovered,
       Cor!Begun, Cor!Executing
<1>5. Cor(i)!SeatsFit /\ \A w \in Corrections[i].Workers : Cor(i)!StreamFits(w)
  BY <1>2 DEF Cor!SeatsFit, Cor!SeatFits, Cor!StreamFits, Cor!InTurn
<1> QED
  BY <1>3, <1>4, <1>5, CorParts DEF CorAllFit

\* What the invariant promises of a correction.
LEMMA CorPromises ==
    ASSUME NEW i \in DOMAIN Corrections,
           Cor(i)!CorrectionInv
    PROVE  /\ Cor(i)!TypeOK /\ Cor(i)!AnsweredIsConfirmed /\ Cor(i)!InputOnce
           /\ Cor(i)!PairEndsTogether
           /\ Cor(i)!CancelledIsCovered /\ Cor(i)!OrderIsKept
<1>1. Cor(i)!Typed /\ CorAllFit(i) /\ CorJobsFit(i)
  BY CorParts DEF CorAllFit
<1>2. Cor(i)!InputOnce
  BY <1>1 DEF CorJobsFit, Cor!QueueFits, Cor!InputOnce
<1>3. Cor(i)!AnsweredIsConfirmed
  BY <1>1 DEF CorJobsFit, Cor!TextsFit, Cor!AnsweredIsConfirmed
<1>4. Cor(i)!OrderIsKept
  <2>1. ASSUME NEW j \in Cor(i)!Jobs, given[j] > 0, NEW k \in 1 .. j - 1
        PROVE  coJob[k].st \notin {"none", "queued"}
    <3>1. k \in Cor(i)!Jobs /\ k < j /\ given[j] # 0
      BY <2>1, CorSizes DEF Cor!Jobs
    <3> QED
      BY <1>1, <3>1 DEF CorJobsFit, Cor!QueueFits, Cor!Begun
  <2> QED
    BY <2>1 DEF Cor!OrderIsKept
<1>5. Cor(i)!TypeOK
  <2>1. ASSUME NEW j \in Cor(i)!Jobs
        PROVE  child[j].job \in {0} \cup (j + 1 .. Corrections[i].NumJobs)
    <3>1. child[j].job = 0 \/ j < child[j].job
      BY <1>1, CorPair
    <3> QED
      BY <1>1, <3>1, CorRows, CorSizes DEF Cor!Jobs
  <2>2. \A j \in Cor(i)!Jobs : Cor(i)!Executing(j) <=> coJob[j].tok # 0
    BY <1>1 DEF CorJobsFit, Cor!QueueFits
  <2>3. coFaults <= Corrections[i].MaxFaults
    BY <1>1, CorSizes DEF Cor!Typed
  <2>4. \A w \in Corrections[i].Workers : Len(wk[w].frames) <= 2
            /\ Len(wk[w].receipts) <= Len(wk[w].frames)
    BY <1>1 DEF CorAllFit, Cor!SeatsFit, Cor!SeatFits
  <2> QED
    BY <1>1, <2>1, <2>2, <2>3, <2>4, CorRows DEF Cor!TypeOK, Cor!Stages, Cor!Some
<1> QED
  BY <1>1, <1>2, <1>3, <1>4, <1>5 DEF CorJobsFit

-----------------------------------------------------------------------------
(* The theorem.                                                              *)

\* The invariant of the instance that this behaviour runs.
CorrectionsHold ==
    \A i \in DOMAIN Corrections : part = i => Cor(i)!CorrectionInv

\* However a correction crosses results, stops, lapsing leases and failing
\* commits: its text is given to the provider at most once, an answer is
\* published only with the receipt that it is of the corrected input, the pair
\* of jobs ends together, no message overtakes an earlier one, and a stop
\* cancels only what it covers (claude_corrections.py,
\* claude_correction_state.py).
THEOREM CorrectionsAreExact == TurnsSpec => []CorrectionIsExact
<1>1. TurnsInit => CorrectionsHold
  BY CorStart DEF TurnsInit, CorrectionsHold
<1>2. CorrectionsHold /\ [TurnsNext]_TurnsVars => CorrectionsHold'
  <2>1. ASSUME CorrectionsHold, TurnsNext, NEW i \in DOMAIN Corrections, part' = i
        PROVE  Cor(i)!CorrectionInv'
    <3>1. part = i /\ Cor(i)!Next
      BY <2>1 DEF TurnsNext
    <3> QED
      BY <2>1, <3>1, CorNext DEF CorrectionsHold
  <2>2. ASSUME CorrectionsHold, UNCHANGED TurnsVars,
               NEW i \in DOMAIN Corrections, part' = i
        PROVE  Cor(i)!CorrectionInv'
    <3>1. part = i /\ Cor(i)!vars' = Cor(i)!vars
      BY <2>2 DEF TurnsVars, ClaudeCorrectionsVars, Cor!vars
    <3> QED
      BY <2>2, <3>1, CorStutter DEF CorrectionsHold
  <2> QED
    BY <2>1, <2>2 DEF CorrectionsHold
<1>3. CorrectionsHold => CorrectionIsExact
  BY CorPromises DEF CorrectionsHold, CorrectionIsExact
<1> QED
  BY <1>1, <1>2, <1>3, PTL DEF TurnsSpec
=============================================================================
