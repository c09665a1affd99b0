------------------------------ MODULE MCMessages ------------------------------
(***************************************************************************)
(* The way of an owner's message into the queue: polling and admission     *)
(* (Ingress), what is known of the polls (IngressEvidence), files          *)
(* (Materials), retries by reply (OwnerRetry) and the share of the agents  *)
(* (FairShare), and the way of an answer to the topic (Outbox). The        *)
(* components share no state here, so a behaviour picks one instance,      *)
(* "part", runs that one, leaves the outbox as it starts and the variables *)
(* of every other component at Off: what holds of this module holds of     *)
(* each instance, and the other way round.                                 *)
(***************************************************************************)
EXTENDS MCOutbox, FiniteSets

VARIABLE part    \* the instance that this behaviour runs
VARIABLES arrived, forgotten, offset, poller, seen, refused, quotes, stops,
          jobs, inWorker, leases, blocked    \* Ingress
VARIABLES clock, inst, ledger, mark, accepted, evRow, good    \* IngressEvidence
VARIABLES maRow, file, maJob, work, active, maObserved, maAcked, up, hurt,
          maFaults    \* Materials
VARIABLES reJob, run, sess, ticket, child, asked, reObserved, control, report,
          hand, reAcked, turns, effects, fresh, reFaults    \* OwnerRetry
VARIABLES fsJob, line, granted, fsWorker, health, decl, passed, crashes    \* FairShare

\* Streams of updates: an album; an album, then a text and a command; messages
\* of which one is a stop, one a forward and one too long.
Album == <<"album", "album">>
Batch == <<"album", "text", "album", "command">>
Control == <<"text", "stop", "forward", "long", "text">>

\* A message with a file, a forward whose file is too much for the job, and a
\* message without files; an album of which the second file is too much, and a
\* forward.
FewParts == << <<"f1">>, <<"f2">>, << >> >>
FewSize == [f \in {"f1", "f2"} |-> 1]
AlbumParts == << <<"f1", "f2">>, <<"f3">> >>
AlbumSize == [f \in {"f1", "f2", "f3"} |-> IF f = "f2" THEN 2 ELSE 1]

\* Agent a has two topics, one on each root; b has one on the first root.
FairAgentOf == [w \in {"wa", "wb"} |-> IF w = "wb" THEN "b" ELSE "a"]
FairJobAgent == [j \in {"ja", "ja2", "jb"} |-> IF j = "jb" THEN "b" ELSE "a"]
FairJobRoot == [j \in {"ja", "ja2", "jb"} |-> IF j = "ja2" THEN "r2" ELSE "r1"]

-----------------------------------------------------------------------------
\* The instances.
TwoPollers == INSTANCE Ingress WITH
    Kind <- Album, Pollers <- {"p1", "p2"}, Workers <- {"w1"}, MaxJobs <- 2,
    MaxParts <- 2, MaxLeases <- 2, worker <- inWorker
Batches == INSTANCE Ingress WITH
    Kind <- Batch, Pollers <- {"p1"}, Workers <- {"w1"}, MaxJobs <- 2,
    MaxParts <- 2, MaxLeases <- 3, worker <- inWorker
Controls == INSTANCE Ingress WITH
    Kind <- Control, Pollers <- {"p1"}, Workers <- {"w1"}, MaxJobs <- 2,
    MaxParts <- 2, MaxLeases <- 2, worker <- inWorker
Restarts == INSTANCE IngressEvidence WITH
    Instances <- {"a", "b"}, Jobs <- {"j"}, Fresh <- 1, Grace <- 2,
    FailGrace <- 1, FailureLimit <- 2, Lag <- 0, MaxClock <- 3, MaxPolls <- 2,
    row <- evRow
Lagging == INSTANCE IngressEvidence WITH
    Instances <- {"a"}, Jobs <- {"j"}, Fresh <- 1, Grace <- 2, FailGrace <- 1,
    FailureLimit <- 2, Lag <- 1, MaxClock <- 4, MaxPolls <- 3, row <- evRow
Forwards == INSTANCE Materials WITH
    Messages <- {1, 2, 3}, Forwarded <- {2}, Parts <- FewParts,
    Size <- FewSize, Unreadable <- {"f2"}, Jobs <- {1},
    Sessions <- {"a", "b"}, MaxParts <- 2, MaxBytes <- 1, MaxFaults <- 1,
    row <- maRow, job <- maJob, observed <- maObserved, acked <- maAcked,
    faults <- maFaults
Albums == INSTANCE Materials WITH
    Messages <- {1, 2}, Forwarded <- {2}, Parts <- AlbumParts,
    Size <- AlbumSize, Unreadable <- {"f3"}, Jobs <- {1, 2},
    Sessions <- {"a", "b"}, MaxParts <- 2, MaxBytes <- 2, MaxFaults <- 1,
    row <- maRow, job <- maJob, observed <- maObserved, acked <- maAcked,
    faults <- maFaults
Chain == INSTANCE OwnerRetry WITH
    Jobs <- {1, 2, 3}, Replies <- {1, 2}, Pollers <- {"p"}, MaxAncestry <- 3,
    MaxFaults <- 1, Owner <- {"stop"}, Legacy <- FALSE, job <- reJob,
    observed <- reObserved, acked <- reAcked, faults <- reFaults
Racing == INSTANCE OwnerRetry WITH
    Jobs <- {1, 2}, Replies <- {1}, Pollers <- {"p", "q"}, MaxAncestry <- 3,
    MaxFaults <- 2, Owner <- {"writer", "select"}, Legacy <- FALSE,
    job <- reJob, observed <- reObserved, acked <- reAcked, faults <- reFaults
OldTickets == INSTANCE OwnerRetry WITH
    Jobs <- {1, 2, 3}, Replies <- {1, 2}, Pollers <- {"p"}, MaxAncestry <- 3,
    MaxFaults <- 1, Owner <- {"materials", "select"}, Legacy <- TRUE,
    job <- reJob, observed <- reObserved, acked <- reAcked, faults <- reFaults
Shares == INSTANCE FairShare WITH
    Agents <- {"a", "b"}, Workers <- {"wa", "wb"},
    Jobs <- {"ja", "ja2", "jb"}, Roots <- {"r1", "r2"},
    AgentOf <- FairAgentOf, JobAgent <- FairJobAgent, JobRoot <- FairJobRoot,
    AgentCap <- [a \in {"a", "b"} |-> 1], Capacities <- {1, 2},
    MaxCrashes <- 1, job <- fsJob, worker <- fsWorker

\* Every instance is one that its component allows.
ASSUME InstancesAllowed ==
    /\ TwoPollers!IngressAssumption
    /\ Batches!IngressAssumption
    /\ Controls!IngressAssumption
    /\ Restarts!EvidenceAssumption
    /\ Lagging!EvidenceAssumption
    /\ Forwards!MaterialsAssumption
    /\ Albums!MaterialsAssumption
    /\ Chain!OwnerAssumption /\ Chain!JobsAreNumbered
    /\ Racing!OwnerAssumption /\ Racing!JobsAreNumbered
    /\ OldTickets!OwnerAssumption /\ OldTickets!JobsAreNumbered
    /\ Shares!FairShareTypes

-----------------------------------------------------------------------------
\* What runs, and what stays idle.
Off == 0
IngressVars == <<arrived, forgotten, offset, poller, seen, refused, quotes,
                 stops, jobs, inWorker, leases, blocked>>
IngressEvidenceVars == <<clock, inst, ledger, mark, accepted, evRow, good>>
MaterialsVars == <<maRow, file, maJob, work, active, maObserved, maAcked, up,
                   hurt, maFaults>>
OwnerRetryVars == <<reJob, run, sess, ticket, child, asked, reObserved,
                    control, report, hand, reAcked, turns, effects, fresh,
                    reFaults>>
FairShareVars == <<fsJob, line, granted, fsWorker, health, decl, passed,
                   crashes>>
messageVars == <<part, vars, IngressVars, IngressEvidenceVars, MaterialsVars,
                 OwnerRetryVars, FairShareVars>>

IngressOff == /\ arrived = Off /\ forgotten = Off /\ offset = Off
              /\ poller = Off /\ seen = Off /\ refused = Off /\ quotes = Off
              /\ stops = Off /\ jobs = Off /\ inWorker = Off /\ leases = Off
              /\ blocked = Off
IngressEvidenceOff == /\ clock = Off /\ inst = Off /\ ledger = Off
                      /\ mark = Off /\ accepted = Off /\ evRow = Off
                      /\ good = Off
MaterialsOff == /\ maRow = Off /\ file = Off /\ maJob = Off /\ work = Off
                /\ active = Off /\ maObserved = Off /\ maAcked = Off
                /\ up = Off /\ hurt = Off /\ maFaults = Off
OwnerRetryOff == /\ reJob = Off /\ run = Off /\ sess = Off /\ ticket = Off
                 /\ child = Off /\ asked = Off /\ reObserved = Off
                 /\ control = Off /\ report = Off /\ hand = Off
                 /\ reAcked = Off /\ turns = Off /\ effects = Off
                 /\ fresh = Off /\ reFaults = Off
FairShareOff == /\ fsJob = Off /\ line = Off /\ granted = Off
                /\ fsWorker = Off /\ health = Off /\ decl = Off
                /\ passed = Off /\ crashes = Off

Instances == {"pollers", "batches", "controls", "restarts", "lagging", "forwards",
              "albums", "chain", "racing", "old tickets", "shares", "outbox"}

MessagesInit ==
    /\ part \in Instances /\ Init
    /\ CASE part = "pollers" -> TwoPollers!Init
         [] part = "batches" -> Batches!Init
         [] part = "controls" -> Controls!Init
         [] OTHER -> IngressOff
    /\ CASE part = "restarts" -> Restarts!Init
         [] part = "lagging" -> Lagging!Init
         [] OTHER -> IngressEvidenceOff
    /\ CASE part = "forwards" -> Forwards!Init
         [] part = "albums" -> Albums!Init
         [] OTHER -> MaterialsOff
    /\ CASE part = "chain" -> Chain!Init
         [] part = "racing" -> Racing!Init
         [] part = "old tickets" -> OldTickets!Init
         [] OTHER -> OwnerRetryOff
    /\ CASE part = "shares" -> Shares!Init
         [] OTHER -> FairShareOff

MessagesNext ==
    /\ part' = part
    /\ IF part = "outbox" THEN Next ELSE UNCHANGED vars
    /\ CASE part = "pollers" -> TwoPollers!Next
         [] part = "batches" -> Batches!Next
         [] part = "controls" -> Controls!Next
         [] OTHER -> UNCHANGED IngressVars
    /\ CASE part = "restarts" -> Restarts!Next
         [] part = "lagging" -> Lagging!Next
         [] OTHER -> UNCHANGED IngressEvidenceVars
    /\ CASE part = "forwards" -> Forwards!Next
         [] part = "albums" -> Albums!Next
         [] OTHER -> UNCHANGED MaterialsVars
    /\ CASE part = "chain" -> Chain!Next
         [] part = "racing" -> Racing!Next
         [] part = "old tickets" -> OldTickets!Next
         [] OTHER -> UNCHANGED OwnerRetryVars
    /\ CASE part = "shares" -> Shares!Next
         [] OTHER -> UNCHANGED FairShareVars

MessagesSpec == MessagesInit /\ [][MessagesNext]_messageVars

-----------------------------------------------------------------------------
\* Properties.

\* Redelivered updates, two pollers on one message, failed admissions and
\* restarts between the transactions of an admission never run a message twice,
\* reorder the messages of one poller, run one whose refusal was told, lose one
\* that Telegram will not offer again, or record a part of a burst after its
\* payload was read (service.py run_forever, state.py
\* enqueue_or_append_provider_job).
AdmissionIsExact ==
    /\ part = "pollers" =>
          /\ TwoPollers!TypeOK
          /\ TwoPollers!AdmittedOnce
          /\ TwoPollers!NothingSkipped
          /\ TwoPollers!WholeBatchIsRun
    /\ part = "batches" =>
          /\ Batches!TypeOK
          /\ Batches!AdmittedOnce
          /\ Batches!NothingSkipped
          /\ Batches!WholeBatchIsRun
          /\ Batches!AdmittedInOrder
          /\ Batches!RefusedIsNotRun
    /\ part = "controls" =>
          /\ Controls!TypeOK
          /\ Controls!AdmittedOnce
          /\ Controls!NothingSkipped
          /\ Controls!WholeBatchIsRun
          /\ Controls!AdmittedInOrder
          /\ Controls!RefusedIsNotRun

\* Whatever registrations, lost samples, late clocks and polls wrote it, the
\* retained evidence of an ingress outage can be read, silence is due in time,
\* the schema's fences accept every row the code computes, and an episode ends
\* only after a poll that succeeded after it was opened
\* (telegram_ingress_ledger.py, codex_ingress_assessments.py).
EvidenceIsSound ==
    /\ [](/\ part = "restarts" =>
                /\ Restarts!TypeOK
                /\ Restarts!EvidenceStaysReadable
                /\ Restarts!OutageIsDue
          /\ part = "lagging" =>
                /\ Lagging!TypeOK
                /\ Lagging!EvidenceStaysReadable
                /\ Lagging!OutageIsDue)
    /\ [][/\ part = "restarts" =>
                /\ Restarts!FencesAccept
                /\ Restarts!RecoveryIsConfirmed
          /\ part = "lagging" =>
                /\ Lagging!FencesAccept
                /\ Lagging!RecoveryIsConfirmed]_messageVars

\* A published result accounts for every file of its messages, a job with an
\* unconfirmed outcome keeps its files, a forwarded file stays in its session,
\* and a turn starts only with content as it was admitted, whatever is lost,
\* damaged or over the bounds and wherever the controller dies
\* (incoming_materials.py, state_incoming_materials.py).
FilesAreAccounted ==
    /\ [](/\ part = "forwards" =>
                /\ Forwards!TypeOK
                /\ Forwards!Explained
                /\ Forwards!UncertainKeepsMaterials
                /\ Forwards!ForwardStaysInSession
          /\ part = "albums" =>
                /\ Albums!TypeOK
                /\ Albums!Explained
                /\ Albums!UncertainKeepsMaterials
                /\ Albums!ForwardStaysInSession)
    /\ [][/\ part = "forwards" => Forwards!VerifiedContent
          /\ part = "albums" => Albums!VerifiedContent]_messageVars

\* However often replies are repeated and workers die or lose their lease
\* around a retry, a request is submitted at most once, only in the
\* conversation it was written for, and a reply has one effect
\* (preexecution_retry_state.py, controller_retry.py).
RetriedOnce ==
    /\ part = "chain" =>
          /\ Chain!TypeOK
          /\ Chain!RunOnce
          /\ Chain!ContextIsWhole
          /\ Chain!RepliedOnce
    /\ part = "racing" =>
          /\ Racing!TypeOK
          /\ Racing!RunOnce
          /\ Racing!ContextIsWhole
          /\ Racing!RepliedOnce
    /\ part = "old tickets" =>
          /\ OldTickets!TypeOK
          /\ OldTickets!RunOnce
          /\ OldTickets!ContextIsWhole
          /\ OldTickets!RepliedOnce

\* No agent is passed over twice by another while it contends, and no lease is
\* granted beyond the least limit a running worker has declared
\* (state_provider_jobs.py lease, provider_queue_capacity.py).
SharesAreFair ==
    /\ [](/\ part = "shares" => Shares!TypeOK /\ Shares!BoundedBypass)
    /\ [][/\ part = "shares" => Shares!ReductionHolds]_messageVars
==============================================================================
