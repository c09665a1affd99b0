------------------------------ MODULE Materials ------------------------------
(***************************************************************************)
(* Files that arrive with Telegram messages.  The controller downloads     *)
(* them into a private spool before it admits the message; a row per file  *)
(* binds it to the job, or, for a forwarded message, waits for the next    *)
(* job of the same session.  The worker verifies and copies the files, the *)
(* published result consumes them, and every later update removes what no  *)
(* job can use any more.  Files and rows change in different steps.        *)
(*                                                                         *)
(* incoming_materials.py, state_incoming_materials.py, and the parts of    *)
(* service.py, state.py, controller_admission.py, worker_execution.py and  *)
(* controller_result_publication.py that call them.  One controller owns   *)
(* the bot's updates of a topic; one topic is modelled.                    *)
(***************************************************************************)
EXTENDS Naturals, FiniteSets, Sequences

CONSTANTS
    Messages,   \* the owner's messages, 1..n
    Forwarded,  \* the messages that are forwards
    Parts,      \* [Messages -> sequence of files], no file twice
    Size,       \* [Files -> Nat], bytes of a file
    Unreadable, \* files the selected provider has no input for
    Jobs,       \* 1..k, in the order of admission
    Sessions,   \* session generations of the topic
    MaxParts,   \* MAX_INCOMING_MATERIALS_PER_JOB
    MaxBytes,   \* MAX_INCOMING_JOB_BYTES
    MaxFaults   \* bound: crashes, lost leases, damaged files, failed calls

Range1(s) == {s[i] : i \in 1..Len(s)}
Files == UNION {Range1(Parts[m]) : m \in Messages}

MaterialsAssumption ==
    /\ Forwarded \subseteq Messages
    /\ \A m \in Messages : Cardinality(Range1(Parts[m])) = Len(Parts[m])
    /\ \A f \in Files : Size[f] \in Nat

VARIABLES
    row,      \* [Files -> row of incoming_materials]
    file,     \* [Files -> the raw spool: "none", "whole", "damaged"]
    job,      \* [Jobs -> row of provider_jobs and what its turn was given]
    work,     \* [Jobs -> the worker's step]
    active,   \* the topic's active session
    observed, \* observed_messages
    acked,    \* updates confirmed to Telegram
    up,       \* the controller's handling of one update
    hurt,     \* history: files damaged or lost outside the program
    faults

vars == <<row, file, job, work, active, observed, acked, up, hurt, faults>>

NoRow   == [at |-> "none", session |-> "none", job |-> 0, status |-> "none"]
NoJob   == [status |-> "none", session |-> "none", inputs |-> {},
            given |-> {}, told |-> {}]
Updates == Messages \cup {0}     \* 0: any other message, a command or a stop
NoUpdate == [step |-> "idle", msg |-> 0, kind |-> "none", index |-> 0,
             drafts |-> [f \in Files |-> "none"], list |-> {}, gone |-> {},
             all |-> FALSE]

Terminal == {"done", "failed", "cancelled"}

TypeOK ==
    /\ row \in [Files -> [at : {"none", "pending", "job"},
                          session : Sessions \cup {"none"},
                          job : Jobs \cup {0},
                          status : {"none", "stored", "unavailable", "consumed"}]]
    /\ \A f \in Files : (row[f].at = "none") <=> (row[f].status = "none")
    /\ file \in [Files -> {"none", "whole", "damaged"}]
    /\ job \in [Jobs -> [status : {"none", "queued", "leased", "executing",
                                   "indeterminate"} \cup Terminal,
                         session : Sessions \cup {"none"},
                         inputs : SUBSET Messages,
                         given : SUBSET Files, told : SUBSET Files]]
    /\ work \in [Jobs -> {"idle", "leased", "prepare", "turn", "clean"}]
    /\ active \in Sessions
    /\ observed \subseteq Messages /\ acked \subseteq Messages
    /\ up.step \in {"idle", "pending", "terminal", "route", "download", "admit",
                    "stopped", "done"}
    /\ hurt \subseteq Files
    /\ faults \in 0..MaxFaults

Init ==
    /\ row = [f \in Files |-> NoRow]
    /\ file = [f \in Files |-> "none"]
    /\ job = [j \in Jobs |-> NoJob]
    /\ work = [j \in Jobs |-> "idle"]
    /\ active = CHOOSE s \in Sessions : TRUE
    /\ observed = {} /\ acked = {} /\ hurt = {}
    /\ up = NoUpdate
    /\ faults = 0

RowsOf(j) == {f \in Files : row[f].at = "job" /\ row[f].job = j}
PendingOf(s) == {f \in Files : row[f].at = "pending" /\ row[f].session = s}

----------------------------------------------------------------------------
\* Every update first removes what is of no use any more.

\* What the next update is: one of the owner's messages, or another one.
TakeUpdate(m, kind) ==
    /\ up.step = "idle"
    /\ m \notin acked
    /\ (kind = "message") <=> (m # 0)
    /\ up' = [NoUpdate EXCEPT !.step = "pending", !.msg = m, !.kind = kind,
                 !.list = {f \in Files : row[f].at = "pending"
                                         /\ row[f].session # active}]
    /\ UNCHANGED <<row, file, job, work, active, observed, acked, hurt, faults>>

\* _discard_pending_materials after a stop keeps no session's files.
TakeAll ==
    /\ up.step = "stopped"
    /\ up' = [up EXCEPT !.step = "pending", !.all = TRUE, !.gone = {},
                        !.list = {f \in Files : row[f].at = "pending"}]
    /\ UNCHANGED <<row, file, job, work, active, observed, acked, hurt, faults>>

\* cleanup_pending_raw_inputs, one file: a verified file is removed; a file that
\* is gone or differs from its row is left, and so is its row.
Unlink(f) ==
    /\ up.step \in {"pending", "terminal"}
    /\ f \in up.list
    /\ LET mine == row[f].status = "unavailable" \/ file[f] = "whole" IN
       /\ up' = [up EXCEPT !.list = @ \ {f},
                           !.gone = IF mine THEN @ \cup {f} ELSE @]
       /\ file' = IF row[f].status # "unavailable" /\ file[f] = "whole"
                  THEN [file EXCEPT ![f] = "none"] ELSE file
    /\ UNCHANGED <<row, job, work, active, observed, acked, hurt, faults>>

Expendable_uncertain(status) == status \in Terminal \cup {"indeterminate"}

\* stored_for_terminal_jobs: an unconfirmed outcome keeps its materials.
Expendable(status) == status \in Terminal

Listed_stored(f) == row[f].at = "job" /\ row[f].status = "stored"

Listed(f) == row[f].at = "job" /\ row[f].status \in {"stored", "consumed"}

\* delete_pending, then the list of the terminal jobs' files.
DeletePending ==
    /\ up.step = "pending"
    /\ up.list = {}
    /\ row' = [f \in Files |-> IF f \in up.gone /\ row[f].at = "pending"
                               THEN NoRow ELSE row[f]]
    /\ up' = [up EXCEPT !.step = "terminal", !.gone = {},
                 !.list = {f \in Files :
                             Listed(f) /\ Expendable(job[row[f].job].status)}]
    /\ UNCHANGED <<file, job, work, active, observed, acked, hurt, faults>>

\* mark_discarded
MarkDiscarded ==
    /\ up.step = "terminal"
    /\ up.list = {}
    /\ row' = [f \in Files |-> IF f \in up.gone /\ row[f].status = "stored"
                               THEN [row[f] EXCEPT !.status = "unavailable"]
                               ELSE row[f]]
    /\ up' = [up EXCEPT !.step = IF up.all THEN "done" ELSE "route", !.gone = {}]
    /\ UNCHANGED <<file, job, work, active, observed, acked, hurt, faults>>

----------------------------------------------------------------------------
\* Routing, download and admission

\* A message goes on to its download unless it was handled before; another
\* update may switch the session, or stop the topic's work.
Route ==
    /\ up.step = "route"
    /\ up.kind = "message"
    /\ up' = [up EXCEPT !.step = IF up.msg \in observed THEN "done" ELSE "download"]
    /\ UNCHANGED <<row, file, job, work, active, observed, acked, hurt, faults>>

RouteSwitch(s) ==
    /\ up.step = "route"
    /\ up.kind = "switch"
    /\ s # active
    /\ active' = s
    /\ up' = [up EXCEPT !.step = "done"]
    /\ UNCHANGED <<row, file, job, work, observed, acked, hurt, faults>>

RouteStop ==
    /\ up.step = "route"
    /\ up.kind = "stop"
    /\ job' = [j \in Jobs |-> IF job[j].status = "queued"
                              THEN [job[j] EXCEPT !.status = "cancelled"] ELSE job[j]]
    /\ up' = [up EXCEPT !.step = "stopped"]
    /\ UNCHANGED <<row, file, work, active, observed, acked, hurt, faults>>

RouteOther ==
    /\ up.step = "route"
    /\ up.kind = "other"
    /\ up' = [up EXCEPT !.step = "done"]
    /\ UNCHANGED <<row, file, job, work, active, observed, acked, hurt, faults>>

\* receive_incoming_materials, one attachment: stored, or unavailable because
\* of its size, type, content or a refused download.
Download(outcome) ==
    /\ up.step = "download"
    /\ up.index < Len(Parts[up.msg])
    /\ LET f == Parts[up.msg][up.index + 1] IN
       /\ up' = [up EXCEPT !.index = @ + 1, !.drafts[f] = outcome]
       /\ file' = [file EXCEPT ![f] = IF outcome = "stored" THEN "whole" ELSE @]
    /\ UNCHANGED <<row, job, work, active, observed, acked, hurt, faults>>

Downloaded_early ==
    /\ up.step = "download"
    /\ up' = [up EXCEPT !.step = "admit"]
    /\ UNCHANGED <<row, file, job, work, active, observed, acked, hurt, faults>>

Downloaded ==
    /\ up.step = "download"
    /\ up.index = Len(Parts[up.msg])
    /\ up' = [up EXCEPT !.step = "admit"]
    /\ UNCHANGED <<row, file, job, work, active, observed, acked, hurt, faults>>

BytesOf(S) ==
    LET Sum[T \in SUBSET S] == IF T = {} THEN 0
                               ELSE LET f == CHOOSE f \in T : TRUE
                                    IN Size[f] + Sum[T \ {f}]
    IN Sum[S]

\* bound_material_drafts: the parts of message m that fit beside what is there.
Fitting(m, drafts, there) ==
    LET count == Cardinality(there)
        bytes == BytesOf({f \in there : row[f].status = "stored"})
        F[i \in 0..Len(Parts[m])] ==
            IF i = 0 THEN [bytes |-> bytes, kept |-> {}]
            ELSE LET p == F[i - 1]
                     f == Parts[m][i]
                     size == IF drafts[f] = "stored" THEN Size[f] ELSE 0 IN
                 IF count + i - 1 >= MaxParts \/ p.bytes + size > MaxBytes
                 THEN p
                 ELSE [bytes |-> p.bytes + size, kept |-> p.kept \cup {f}]
    IN F[Len(Parts[m])].kept

\* IncomingMaterialsStateFacade.insert: a row for every part; a part beyond the
\* bounds is unavailable, and its file is removed.
NewRow_bounded(m, f, at, j) ==
    IF f \notin Fitting(m, up.drafts, IF at = "job" THEN RowsOf(j) ELSE PendingOf(active))
    THEN NoRow
    ELSE [at |-> at, session |-> active, job |-> j, status |-> up.drafts[f]]

NewRow(m, f, at, j) ==
    LET there == IF at = "job" THEN RowsOf(j) \cup PendingOf(active)
                               ELSE PendingOf(active) IN
    [at |-> at, session |-> active, job |-> j,
     status |-> IF f \in Fitting(m, up.drafts, there)
                THEN up.drafts[f] ELSE "unavailable"]

\* attach_forwarded: the session's waiting rows go with the job.
Attached_any(f, j) == IF row[f].at = "pending"
                      THEN [row[f] EXCEPT !.at = "job", !.job = j] ELSE row[f]

Attached(f, j) == IF row[f].at = "pending" /\ row[f].session = active
                  THEN [row[f] EXCEPT !.at = "job", !.job = j] ELSE row[f]

Inserted(m, at, j) ==
    /\ row' = [f \in Files |->
                 IF f \in Range1(Parts[m]) THEN NewRow(m, f, at, j)
                 ELSE IF at = "job" THEN Attached(f, j) ELSE row[f]]
    /\ file' = [f \in Files |->
                 IF f \in Range1(Parts[m]) /\ up.drafts[f] = "stored"
                                           /\ row'[f].status # "stored"
                 THEN "none" ELSE file[f]]
    /\ observed' = observed \cup {m}
    /\ up' = [up EXCEPT !.step = "done"]

\* record_forwarded_quote: the files wait for the session's next job.
AdmitForward ==
    /\ up.step = "admit"
    /\ up.msg \in Forwarded
    /\ Inserted(up.msg, "pending", 0)
    /\ UNCHANGED <<job, work, active, acked, hurt, faults>>

Unused == {j \in Jobs : job[j].status = "none"}
TailJob == {j \in Jobs : job[j].status # "none" /\ \A k \in Jobs \ Unused : k <= j}

Admits == \A j \in Jobs : job[j].status # "indeterminate"

\* enqueue_or_append_provider_job: a new job, or the tail job still collecting.
Admit(j) ==
    /\ up.step = "admit"
    /\ up.msg \notin Forwarded
    /\ Admits
    /\ \/ /\ j \in Unused
          /\ \A k \in Unused : j <= k
          /\ job' = [job EXCEPT ![j] = [NoJob EXCEPT !.status = "queued",
                                                     !.session = active,
                                                     !.inputs = {up.msg}]]
       \/ /\ j \in TailJob
          /\ job[j].status = "queued"
          /\ job[j].session = active
          /\ job' = [job EXCEPT ![j].inputs = @ \cup {up.msg}]
    /\ Inserted(up.msg, "job", j)
    /\ UNCHANGED <<work, active, acked, hurt, faults>>

\* A blocked root refuses the message; its downloaded files stay in the spool.
Refuse ==
    /\ up.step = "admit"
    /\ up.msg \notin Forwarded
    /\ ~Admits
    /\ observed' = observed \cup {up.msg}
    /\ up' = [up EXCEPT !.step = "done"]
    /\ UNCHANGED <<row, file, job, work, active, acked, hurt, faults>>

Confirm ==
    /\ up.step = "done"
    /\ up' = NoUpdate
    /\ acked' = acked \cup ({up.msg} \ {0})
    /\ UNCHANGED <<row, file, job, work, active, observed, hurt, faults>>

\* The process dies, a download meets a lost network or a transaction fails:
\* the update comes again.
ControllerFails ==
    /\ up.step # "idle"
    /\ faults < MaxFaults
    /\ faults' = faults + 1
    /\ up' = NoUpdate
    /\ UNCHANGED <<row, file, job, work, active, observed, acked, hurt>>

----------------------------------------------------------------------------
\* The worker

Lease(j) ==
    /\ job[j].status = "queued"
    /\ \A k \in Jobs : job[k].status \notin {"leased", "executing", "indeterminate"}
    /\ \A k \in Jobs : job[k].status = "queued" => j <= k
    /\ job' = [job EXCEPT ![j].status = "leased"]
    /\ work' = [work EXCEPT ![j] = "leased"]
    /\ UNCHANGED <<row, file, active, observed, acked, up, hurt, faults>>

Execute(j) ==
    /\ work[j] = "leased"
    /\ job[j].status = "leased"
    /\ job' = [job EXCEPT ![j].status = "executing"]
    /\ work' = [work EXCEPT ![j] = "prepare"]
    /\ UNCHANGED <<row, file, active, observed, acked, up, hurt, faults>>

Verified_present(f) == file[f] # "none"

\* _verified_raw_path and the check of the copy.
Verified(f) == file[f] = "whole"

\* prepare_incoming_materials: what the prompt holds, and what it and the
\* visible notice call unavailable; a file that is not as it was admitted ends
\* the job before the provider is asked.
Prepare(j) ==
    LET stored == {f \in RowsOf(j) : row[f].status = "stored"} IN
    /\ work[j] = "prepare"
    /\ IF \A f \in stored : Verified(f)
       THEN /\ job' = [job EXCEPT
                  ![j].given = stored \ Unreadable,
                  ![j].told = (stored \cap Unreadable) \cup
                      {f \in RowsOf(j) : row[f].status = "unavailable"}]
            /\ work' = [work EXCEPT ![j] = "turn"]
       ELSE /\ job' = [job EXCEPT ![j].status =
                           IF @ = "executing" THEN "failed" ELSE @]
            /\ work' = [work EXCEPT ![j] = "idle"]
    /\ UNCHANGED <<row, file, active, observed, acked, up, hurt, faults>>

\* The result is committed with mark_job_consumed; a lost lease commits nothing.
Publish(j) ==
    /\ work[j] = "turn"
    /\ IF job[j].status = "executing"
       THEN /\ job' = [job EXCEPT ![j].status = "done"]
            /\ row' = [f \in Files |->
                         IF f \in RowsOf(j) /\ row[f].status = "stored"
                         THEN [row[f] EXCEPT !.status = "consumed"] ELSE row[f]]
            /\ work' = [work EXCEPT ![j] = "clean"]
       ELSE work' = [work EXCEPT ![j] = "idle"] /\ UNCHANGED <<job, row>>
    /\ UNCHANGED <<file, active, observed, acked, up, hurt, faults>>

\* cleanup_consumed_raw_inputs, after the commit.
RemoveConsumed(j) ==
    /\ work[j] = "clean"
    /\ file' = [f \in Files |-> IF f \in RowsOf(j) /\ row[f].status = "consumed"
                                THEN "none" ELSE file[f]]
    /\ work' = [work EXCEPT ![j] = "idle"]
    /\ UNCHANGED <<row, job, active, observed, acked, up, hurt, faults>>

\* The turn fails, known to have ended or not.
TurnFails(j, status) ==
    /\ work[j] = "turn"
    /\ faults < MaxFaults
    /\ faults' = faults + 1
    /\ job' = [job EXCEPT ![j].status = IF @ = "executing" THEN status ELSE @]
    /\ work' = [work EXCEPT ![j] = "idle"]
    /\ UNCHANGED <<row, file, active, observed, acked, up, hurt>>

WorkerDies(j) ==
    /\ work[j] # "idle"
    /\ faults < MaxFaults
    /\ faults' = faults + 1
    /\ work' = [work EXCEPT ![j] = "idle"]
    /\ UNCHANGED <<row, file, job, active, observed, acked, up, hurt>>

LeaseExpires(j) ==
    /\ job[j].status \in {"leased", "executing"}
    /\ work[j] # "idle" => faults < MaxFaults
    /\ faults' = IF work[j] # "idle" THEN faults + 1 ELSE faults
    /\ job' = [job EXCEPT ![j].status = IF @ = "leased" THEN "queued"
                                        ELSE "indeterminate"]
    /\ work' = IF job[j].status = "leased" THEN [work EXCEPT ![j] = "idle"] ELSE work
    /\ UNCHANGED <<row, file, active, observed, acked, up, hurt>>

\* A file of the spool is lost or changed outside the program.
Damage(f) ==
    /\ file[f] = "whole"
    /\ faults < MaxFaults
    /\ faults' = faults + 1
    /\ \E left \in {"none", "damaged"} : file' = [file EXCEPT ![f] = left]
    /\ hurt' = hurt \cup {f}
    /\ UNCHANGED <<row, job, work, active, observed, acked, up>>

----------------------------------------------------------------------------
Control == \/ \E m \in Updates, kind \in {"message", "switch", "stop", "other"} :
                 TakeUpdate(m, kind)
           \/ TakeAll
           \/ \E f \in Files : Unlink(f)
           \/ DeletePending
           \/ MarkDiscarded
           \/ Route
           \/ \E s \in Sessions : RouteSwitch(s)
           \/ RouteStop
           \/ RouteOther
           \/ \E outcome \in {"stored", "unavailable"} : Download(outcome)
           \/ Downloaded
           \/ AdmitForward
           \/ \E j \in Jobs : Admit(j)
           \/ Refuse
           \/ Confirm

Next == \/ Control
        \/ ControllerFails
        \/ \E j \in Jobs :
            \/ Lease(j) \/ Execute(j) \/ Prepare(j) \/ Publish(j)
            \/ RemoveConsumed(j)
            \/ \E status \in {"failed", "indeterminate"} : TurnFails(j, status)
            \/ WorkerDies(j) \/ LeaseExpires(j)
        \/ \E f \in Files : Damage(f)

Spec == Init /\ [][Next]_vars

----------------------------------------------------------------------------
\* Properties

\* A published result accounts for every file of every message of its job: the
\* provider was given it as it was admitted, or its absence was told, whatever
\* was lost, refused, over the bounds or discarded on the way.
Explained ==
    \A j \in Jobs : job[j].status = "done" =>
        /\ \A m \in job[j].inputs : Range1(Parts[m]) \subseteq job[j].given \cup job[j].told
        /\ RowsOf(j) = job[j].given \cup job[j].told

\* A turn starts only with content as it was admitted: a file damaged before
\* the preparation is in no prompt.
VerifiedContent ==
    \A j \in Jobs : work[j] = "prepare" /\ work'[j] = "turn"
       => \A f \in job'[j].given : file[f] = "whole"

\* A job with an unconfirmed outcome keeps the files it was given.
UncertainKeepsMaterials ==
    \A j \in Jobs : job[j].status = "indeterminate" =>
        \A f \in job[j].given : file[f] # "none" \/ f \in hurt

\* A forwarded file reaches only a job of the session it was forwarded to, also
\* when the session changes and the discarding of its files is interrupted.
ForwardStaysInSession ==
    \A j \in Jobs : \A f \in RowsOf(j) : row[f].session = job[j].session

==============================================================================
