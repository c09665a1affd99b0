----------------------------- MODULE Onboarding -----------------------------
(***************************************************************************)
(* Creating a project group from the owner's direct chat: the wizard of    *)
(* project_onboarding.py, the provisioner process that claims one          *)
(* confirmed workflow at a time, prepares the directory, creates and       *)
(* configures a Telegram group and binds it, and the local operator who    *)
(* reconciles what the provisioner could not decide.  The provisioner may  *)
(* stop, crash or lose its lease between any two steps, and a Telegram     *)
(* request may be carried out after its caller has given up.               *)
(*                                                                         *)
(* Workflows are numbered in the order of created_at.  A project's folder  *)
(* is named after it, so one value stands for project_id and, under the    *)
(* chosen base root, for canonical_root.  Titles, option rows and texts    *)
(* are left out.  The session file's flock admits one provisioner, whose   *)
(* lease token is therefore the only one that can be presented.            *)
(***************************************************************************)
EXTENDS Naturals, FiniteSets

CONSTANTS Owners,        \* owner_user_ids
          Projects,      \* folder names, which become project ids
          MaxWorkflows,  \* bound: workflows ever started
          MaxFaults,     \* bound: crashes, stops, lapsed leases and repairs together
          MaxEdits,      \* bound: changes of the configuration and the registry
          Careful        \* the operator gives a workflow no group of another one

Workflows == 1..MaxWorkflows
None == "none"
NoChat == <<0, "none">>

OnboardingBounds ==
    /\ MaxWorkflows \in Nat \ {0} /\ MaxFaults \in Nat /\ MaxEdits \in Nat /\ Careful \in BOOLEAN
    /\ None \notin Projects

WizardStages == {"awaiting_name", "choosing_root", "awaiting_folder", "confirming"}
LeasedStages == {"preparing_root", "creating_group", "configuring_group", "committing_binding"}
UnknownStages == {"group_unknown", "configuration_unknown"}
ClosedStages == {"completed", "cancelled", "expired"}

\* Parts of a usable group, in the order configure_group installs them.
Parts == {"owners", "bots", "hub"}
\* The group a workflow's request makes, a second one, and one made by hand.
Origins == {"made", "again", "hand"}
Groups == Workflows \X Origins

VARIABLES
    wf,        \* project_onboarding_workflows
    bindings,  \* project_group_bindings
    registry,  \* project -> root it is registered with in the registry file
    note,      \* the outcome the last notice in the outbox tells the owner of
    worker,    \* the provisioner: what it is doing, on which workflow
    net,       \* create requests on their way to Telegram
    groups,    \* Telegram groups that exist, with the parts installed in them
    cfg,       \* version of the configured owner list
    faults     \* faults and repairs so far

vars == <<wf, bindings, registry, note, worker, net, groups, cfg, faults>>

NoWorkflow == [stage |-> "unused", owner |-> None, project |-> None, chat |-> NoChat,
               lease |-> None, resume |-> None, fresh |-> TRUE, snapshot |-> 0]
Idle == [pc |-> "idle", w |-> 0, todo |-> {}]

Init ==
    /\ wf = [w \in Workflows |-> NoWorkflow]
    /\ bindings = {}
    /\ registry = [p \in Projects |-> None]
    /\ note = [w \in Workflows |-> None]
    /\ worker = Idle
    /\ net = {}
    /\ groups = [g \in {} |-> {}]
    /\ cfg = 0
    /\ faults = 0

Exists == DOMAIN groups
Fault == faults < MaxFaults /\ faults' = faults + 1

\* The partial unique indexes: rows that reserve their project and root.
Reserves(row) ==
    /\ row.stage \notin ClosedStages \cup {"unused"}
    /\ row.stage = "failed" => row.resume # None

Conflict(w, p) ==
    \/ \E b \in bindings : b.project = p
    \/ \E v \in Workflows \ {w} : Reserves(wf[v]) /\ wf[v].project = p

-----------------------------------------------------------------------------
\* The wizard.
\* start: the owner's open wizard is cancelled, a new one opens.
Start(o) ==
    /\ \E w \in Workflows :
        /\ wf[w].stage = "unused"
        /\ \A v \in 1..(w - 1) : wf[v].stage # "unused"
        /\ wf' = [v \in Workflows |->
                    IF v = w THEN [NoWorkflow EXCEPT !.stage = "awaiting_name", !.owner = o]
                    ELSE IF wf[v].owner = o /\ wf[v].stage \in WizardStages
                    THEN [wf[v] EXCEPT !.stage = "cancelled"]
                    ELSE wf[v]]
    /\ UNCHANGED <<bindings, registry, note, worker, net, groups, cfg, faults>>

\* The thirty minutes of a wizard pass; its next use finds it out of date.
OutOfTime(w) ==
    /\ wf[w].stage \in WizardStages /\ wf[w].fresh
    /\ Fault
    /\ wf' = [wf EXCEPT ![w].fresh = FALSE]
    /\ UNCHANGED <<bindings, registry, note, worker, net, groups, cfg>>

\* A wizard step on a row whose time is over expires it.
Advance(w, from, row) ==
    /\ wf[w].stage = from
    /\ wf' = [wf EXCEPT ![w] = IF wf[w].fresh THEN row ELSE [wf[w] EXCEPT !.stage = "expired"]]
    /\ UNCHANGED <<bindings, registry, note, worker, net, groups, cfg, faults>>

SetName(w) == Advance(w, "awaiting_name", [wf[w] EXCEPT !.stage = "choosing_root"])
SelectRoot(w) == Advance(w, "choosing_root", [wf[w] EXCEPT !.stage = "awaiting_folder"])

\* set_folder refuses a project that is bound or reserved, before it looks at the time.
SetFolder(w, p) ==
    /\ ~Conflict(w, p)
    /\ Advance(w, "awaiting_folder", [wf[w] EXCEPT !.stage = "confirming", !.project = p])

\* confirm: the conflicts again, and the owner list of the moment.  A repeated
\* confirmation of a workflow under way changes nothing.
Confirm(w) ==
    /\ ~Conflict(w, wf[w].project)
    /\ Advance(w, "confirming", [wf[w] EXCEPT !.stage = "queued", !.snapshot = cfg])

Cancel(w) ==
    /\ wf[w].stage \in WizardStages
    /\ wf' = [wf EXCEPT ![w].stage = "cancelled"]
    /\ UNCHANGED <<bindings, registry, note, worker, net, groups, cfg, faults>>

\* What the owner's messages and buttons in the direct chat do.
OwnerStep ==
    \/ \E o \in Owners : Start(o)
    \/ \E w \in Workflows :
        SetName(w) \/ SelectRoot(w) \/ (\E p \in Projects : SetFolder(w, p))
            \/ Confirm(w) \/ Cancel(w)

-----------------------------------------------------------------------------
\* The provisioner.
Holds(w, stage) == wf[w].stage = stage /\ wf[w].lease = "live"

Released(row, stage) == [row EXCEPT !.stage = stage, !.lease = None]

\* claim_next, part one: workflows whose worker was lost.  Nothing outside has
\* been touched while the root was prepared; any later stage is not known.
Recovered(row) ==
    CASE row.lease = "expired" /\ row.stage = "preparing_root" -> Released(row, "queued")
      [] row.lease = "expired" /\ row.stage = "creating_group" -> Released(row, "group_unknown")
      [] row.lease = "expired" /\ row.stage = "configuring_group" ->
            Released(row, "configuration_unknown")
      [] OTHER -> row

Remaining == [w \in Workflows |-> Recovered(wf[w])]

\* Each workflow that becomes unknown here leaves a notice.
LossNotices ==
    [w \in Workflows |->
        IF Remaining[w].stage # wf[w].stage /\ Remaining[w].stage \in UnknownStages
        THEN Remaining[w].stage ELSE note[w]]

\* Part two: unless one is worked on, the oldest workflow that is queued, or
\* whose binding was being written.
Ready(row) ==
    \/ row.stage = "queued"
    \/ row.stage = "committing_binding" /\ row.lease = "expired"

Busy == \E w \in Workflows : Remaining[w].stage \in LeasedStages /\ Remaining[w].lease = "live"

Leased(row) ==
    [row EXCEPT !.lease = "live", !.stage = IF @ = "queued" THEN "preparing_root" ELSE @]

ClaimNext ==
    /\ worker.pc = "idle"
    /\ note' = LossNotices
    /\ \/ /\ Busy \/ \A w \in Workflows : ~Ready(Remaining[w])
          /\ Remaining # wf /\ wf' = Remaining
          /\ UNCHANGED worker
       \/ \E next \in Workflows :
          /\ ~Busy /\ Ready(Remaining[next])
          /\ \A w \in Workflows : Ready(Remaining[w]) => next <= w
          /\ wf' = [Remaining EXCEPT ![next] = Leased(@)]
          /\ worker' = [Idle EXCEPT !.pc = "check", !.w = next]
    /\ UNCHANGED <<bindings, registry, net, groups, cfg, faults>>

\* _terminal_notice and block: only the holder of an unexpired lease ends the
\* workflow, and the notice is written with it.  Otherwise the exception ends
\* the cycle, and the process.
Park(w, from, stage, resume) ==
    /\ worker' = Idle
    /\ IF Holds(w, from)
       THEN /\ wf' = [wf EXCEPT ![w] = [Released(wf[w], stage) EXCEPT !.resume = resume]]
            /\ note' = [note EXCEPT ![w] = stage]
       ELSE UNCHANGED <<wf, note>>

Block(w) ==
    Park(w, wf[w].stage, "failed", IF wf[w].chat # NoChat THEN "configuring_group" ELSE "preparing_root")
Fail(w, from) == Park(w, from, "failed", None)

\* _leased_transition.
Move(w, from, row, pc) ==
    IF Holds(w, from)
    THEN /\ wf' = [wf EXCEPT ![w] = row]
         /\ worker' = [worker EXCEPT !.pc = pc, !.todo = IF pc = "configure" THEN Parts ELSE {}]
    ELSE worker' = Idle /\ UNCHANGED wf

\* _run_claimed begins: a changed owner list stops the workflow before any work.
CheckOwners ==
    LET w == worker.w IN
    /\ worker.pc = "check"
    /\ IF wf[w].snapshot # cfg
       THEN Block(w)
       ELSE worker' = [worker EXCEPT !.pc = IF wf[w].stage = "preparing_root" THEN "root" ELSE "register"]
            /\ UNCHANGED <<wf, note>>
    /\ UNCHANGED <<bindings, registry, net, groups, cfg, faults>>

\* mark_root_ready: a group that is known is only configured.
AfterRoot(w) == IF wf[w].chat # NoChat THEN "configuring_group" ELSE "creating_group"

\* _prepare_root and mark_root_ready.  The directory may be unusable, or the
\* project registered with another root.
PrepareRoot ==
    LET w == worker.w IN
    /\ worker.pc = "root"
    /\ \/ /\ registry[wf[w].project] \in {None, wf[w].project}
          /\ \A p \in Projects \ {wf[w].project} : registry[p] # wf[w].project
          /\ Move(w, "preparing_root",
                  [wf[w] EXCEPT !.stage = AfterRoot(w)], "connect")
          /\ UNCHANGED note
       \/ Fail(w, "preparing_root")
    /\ UNCHANGED <<bindings, registry, net, groups, cfg, faults>>

\* _guard when the process is told to stop: what was not begun outside goes
\* back to the queue.
GuardStops(w) ==
    /\ Fault
    /\ worker' = Idle
    /\ wf' = [wf EXCEPT ![w] = IF wf[w].lease = "live" THEN Released(wf[w], "queued") ELSE wf[w]]
    /\ UNCHANGED note

\* Connecting, the identity check and preflight_members only read: an error of
\* any class, a refusal or silence, blocks the workflow before anything is made.
PreflightFails(w) == Block(w) /\ UNCHANGED faults

PreflightPasses(w) ==
    /\ Move(w, wf[w].stage, wf[w], IF wf[w].stage = "creating_group" THEN "create" ELSE "configure")
    /\ UNCHANGED <<note, faults>>

Connect ==
    /\ worker.pc = "connect"
    /\ GuardStops(worker.w) \/ PreflightFails(worker.w) \/ PreflightPasses(worker.w)
    /\ UNCHANGED <<bindings, registry, net, groups, cfg>>

\* The create request leaves after the guard and the reservation check.
SendCreate ==
    LET w == worker.w IN
    /\ worker.pc = "create"
    /\ \/ /\ GuardStops(w)
          /\ UNCHANGED net
       \/ /\ IF Holds(w, "creating_group") /\ ~Conflict(w, wf[w].project)
             THEN net' = net \cup {w} /\ worker' = [worker EXCEPT !.pc = "creating"]
             ELSE worker' = Idle /\ UNCHANGED net
          /\ UNCHANGED <<wf, note, faults>>
    /\ UNCHANGED <<bindings, registry, groups, cfg>>

\* External: Telegram carries a request out, whoever still waits for it.
TelegramCreates(w) ==
    LET g == IF <<w, "made">> \in Exists THEN <<w, "again">> ELSE <<w, "made">> IN
    /\ w \in net
    /\ net' = net \ {w}
    /\ groups' = [h \in Exists \cup {g} |-> IF h = g THEN {} ELSE groups[h]]
    /\ IF worker.pc = "creating" /\ worker.w = w
       THEN worker' = [worker EXCEPT !.pc = "created"] ELSE UNCHANGED worker
    /\ UNCHANGED <<wf, bindings, registry, note, cfg, faults>>

\* External: Telegram refuses, or the request is lost on the way.
TelegramRefuses(w) ==
    /\ w \in net /\ worker.pc = "creating" /\ worker.w = w
    /\ net' = net \ {w}
    /\ Block(w)
    /\ UNCHANGED <<bindings, registry, groups, cfg, faults>>

RequestLost(w) ==
    /\ w \in net
    /\ net' = net \ {w}
    /\ UNCHANGED <<wf, bindings, registry, note, worker, groups, cfg, faults>>

CreateUnknownBlocks ==
    /\ worker.pc \in {"creating", "created"}
    /\ Block(worker.w)
    /\ UNCHANGED <<bindings, registry, net, groups, cfg, faults>>

\* The deadline of the request passes, the connection breaks or the answer
\* cannot be read: ProvisioningUnknown.
CreateUnknown ==
    /\ worker.pc \in {"creating", "created"}
    /\ Park(worker.w, "creating_group", "group_unknown", None)
    /\ UNCHANGED <<bindings, registry, net, groups, cfg, faults>>

MarkGroupCreated ==
    LET w == worker.w
        g == IF <<w, "again">> \in Exists THEN <<w, "again">> ELSE <<w, "made">> IN
    /\ worker.pc = "created"
    /\ Move(w, "creating_group", [wf[w] EXCEPT !.stage = "configuring_group", !.chat = g], "configure")
    /\ UNCHANGED <<bindings, registry, note, net, groups, cfg, faults>>

\* configure_group: every part is asked for in turn, each behind the guard.
\* Telegram may accept a request and yet not have installed the part.
NextPart(todo) ==
    IF "owners" \in todo THEN "owners" ELSE IF "bots" \in todo THEN "bots" ELSE "hub"

Install ==
    LET w == worker.w  x == NextPart(worker.todo)  g == wf[w].chat IN
    /\ worker.pc = "configure" /\ worker.todo # {}
    /\ \/ GuardStops(w) /\ UNCHANGED groups
       \/ /\ \E took \in BOOLEAN :
                groups' = IF took THEN [groups EXCEPT ![g] = @ \cup {x}] ELSE groups
          /\ UNCHANGED faults
          /\ \/ /\ Holds(w, "configuring_group")
                /\ worker' = [worker EXCEPT !.todo = @ \ {x}]
                /\ UNCHANGED <<wf, note>>
             \/ Park(w, "configuring_group", "configuration_unknown", None)
             \/ Block(w)
    /\ UNCHANGED <<bindings, registry, net, cfg>>

\* The last pass reads the group back before the workflow moves on.
Verify ==
    LET w == worker.w IN
    /\ worker.pc = "configure" /\ worker.todo = {}
    /\ IF groups[wf[w].chat] = Parts
       THEN /\ Move(w, "configuring_group", [wf[w] EXCEPT !.stage = "committing_binding"], "register")
            /\ UNCHANGED note
       ELSE Park(w, "configuring_group", "configuration_unknown", None)
    /\ UNCHANGED <<bindings, registry, net, groups, cfg, faults>>

\* ensure_project under the registry lock; a conflict or an error fails the workflow.
EnsureProject ==
    LET w == worker.w  p == wf[w].project IN
    /\ worker.pc = "register"
    /\ \/ /\ Holds(w, "committing_binding")
          /\ registry[p] \in {None, p} /\ \A q \in Projects \ {p} : registry[q] # p
          /\ registry' = [registry EXCEPT ![p] = p]
          /\ worker' = [worker EXCEPT !.pc = "bind"]
          /\ UNCHANGED <<wf, note>>
       \/ /\ Fail(w, "committing_binding")
          /\ UNCHANGED registry
    /\ UNCHANGED <<bindings, net, groups, cfg, faults>>

\* complete: the binding, the stage and the notice are one transaction.  A
\* binding that is in the way is an error no handler catches.
Binding(w) == [project |-> wf[w].project, chat |-> wf[w].chat, wf |-> w]
Overlaps(a, b) == a.project = b.project \/ a.chat = b.chat

Complete ==
    LET w == worker.w IN
    /\ worker.pc = "bind"
    /\ worker' = Idle
    /\ IF Holds(w, "committing_binding") /\ \A b \in bindings : Overlaps(b, Binding(w)) => b = Binding(w)
       THEN /\ bindings' = bindings \cup {Binding(w)}
            /\ wf' = [wf EXCEPT ![w] = Released(wf[w], "completed")]
            /\ note' = [note EXCEPT ![w] = "completed"]
       ELSE UNCHANGED <<wf, bindings, note>>
    /\ UNCHANGED <<registry, net, groups, cfg, faults>>

\* One cycle of the provisioner, step by step.
ProvisionerStep ==
    \/ ClaimNext \/ CheckOwners \/ PrepareRoot \/ Connect \/ SendCreate
    \/ CreateUnknown \/ MarkGroupCreated \/ Install \/ Verify
    \/ EnsureProject \/ Complete

\* The process dies and starts again.  A lease also lapses under a process that
\* is alive but held up, when the heartbeat cannot be written in time.
Crash ==
    /\ worker # Idle
    /\ Fault
    /\ worker' = Idle
    /\ UNCHANGED <<wf, bindings, registry, note, net, groups, cfg>>

LeaseLapses(w) ==
    /\ wf[w].lease = "live"
    /\ wf' = [wf EXCEPT ![w].lease = "expired"]
    /\ IF worker.pc # "idle" /\ worker.w = w THEN Fault ELSE UNCHANGED faults
    /\ UNCHANGED <<bindings, registry, note, worker, net, groups, cfg>>

-----------------------------------------------------------------------------
\* The local operator.
\* reconcile_unknown: the operator has looked, and names a group that exists,
\* found or made by hand.
Reconcile(w, g) ==
    /\ wf[w].stage \in UnknownStages
    /\ w \notin net
    /\ g \in Exists \cup {<<w, "hand">>}
    /\ Careful => g[1] = w
    /\ Fault
    /\ ~Conflict(w, wf[w].project) /\ \A b \in bindings : b.chat # g
    /\ wf' = [wf EXCEPT ![w] = [wf[w] EXCEPT !.stage = "queued", !.chat = g, !.snapshot = cfg]]
    /\ groups' = [h \in Exists \cup {g} |-> IF h \in Exists THEN groups[h] ELSE {}]
    /\ UNCHANGED <<bindings, registry, note, worker, net, cfg>>

ResumeBlocked(w) ==
    /\ wf[w].stage = "failed" /\ wf[w].resume # None
    /\ ~Conflict(w, wf[w].project)
    /\ Fault
    /\ wf' = [wf EXCEPT ![w] = [wf[w] EXCEPT !.stage = "queued", !.resume = None, !.snapshot = cfg]]
    /\ UNCHANGED <<bindings, registry, note, worker, net, groups, cfg>>

\* The configured owners change; the provisioner and the hub start again.
ChangeOwners ==
    /\ worker = Idle /\ cfg < MaxEdits
    /\ cfg' = cfg + 1
    /\ UNCHANGED <<wf, bindings, registry, note, worker, net, groups, faults>>

\* project-add: a project is registered by hand, with any directory no other has.
AddProject(p, root) ==
    /\ registry[p] = None /\ \A q \in Projects : registry[q] # root
    /\ cfg < MaxEdits /\ cfg' = cfg + 1
    /\ registry' = [registry EXCEPT ![p] = root]
    /\ UNCHANGED <<wf, bindings, note, worker, net, groups, faults>>

Outside ==
    \/ Crash \/ ChangeOwners
    \/ \E w \in Workflows : TelegramCreates(w) \/ TelegramRefuses(w) \/ RequestLost(w)
                            \/ LeaseLapses(w) \/ OutOfTime(w) \/ ResumeBlocked(w)
    \/ \E w \in Workflows, g \in Groups : Reconcile(w, g)
    \/ \E p, r \in Projects : AddProject(p, r)

Next == OwnerStep \/ ProvisionerStep \/ Outside

Spec == Init /\ [][Next]_vars

-----------------------------------------------------------------------------
\* Properties.
TypeOK ==
    /\ \A w \in Workflows :
        /\ wf[w].stage \in WizardStages \cup LeasedStages \cup UnknownStages \cup ClosedStages
                           \cup {"unused", "queued", "failed"}
        /\ wf[w].owner \in Owners \cup {None}
        /\ wf[w].project \in Projects \cup {None}
        /\ wf[w].chat \in Exists \cup {NoChat}
        /\ wf[w].lease \in {None, "live", "expired"}
        /\ wf[w].lease # None => wf[w].stage \in LeasedStages
        /\ wf[w].resume # None => wf[w].stage = "failed"
    /\ bindings \subseteq [project : Projects, chat : Exists, wf : Workflows]
    /\ \A w \in Workflows : note[w] \in UnknownStages \cup {None, "failed", "completed"}
    /\ worker.w \in Workflows \cup {0} /\ worker.todo \subseteq Parts
    /\ net \subseteq Workflows
    /\ \A g \in Exists : groups[g] \subseteq Parts

\* A workflow never makes Telegram create a second group, whatever crashes,
\* lapsed leases, stops and late answers come between ("повторное нажатие не
\* создаст вторую группу"): only the operator can supply another one.
OneGroupPerWorkflow == \A w \in Workflows : <<w, "again">> \notin Exists

\* A group Telegram created is never lost from sight: the workflow records it,
\* or stands in a stage that sends the operator to look for it.
NoGroupIsForgotten ==
    \A w \in Workflows :
        <<w, "made">> \in Exists =>
            \/ wf[w].chat # NoChat
            \/ wf[w].stage \in {"creating_group", "group_unknown"}

\* Two open workflows never hold one project, and a project or a group is bound
\* once: the partial unique indexes and the binding table never refuse a write.
ProjectsAreReserved ==
    /\ \A v, w \in Workflows :
        v # w /\ Reserves(wf[v]) /\ Reserves(wf[w]) /\ wf[v].project # None
            => wf[v].project # wf[w].project
    /\ \A a, b \in bindings : a # b => ~Overlaps(a, b)

\* A bound project is registered with its own directory, and its group was read
\* back with every part in place before it was bound.
BoundGroupIsReady ==
    \A b \in bindings : groups[b.chat] = Parts /\ registry[b.project] = b.project

\* Whatever ends or parks a confirmed workflow leaves a notice of that outcome
\* for the owner, the recovery of a dead worker's workflow included.
OwnerIsTold ==
    \A w \in Workflows :
        wf[w].stage \in UnknownStages \cup {"failed", "completed"} => note[w] = wf[w].stage

-----------------------------------------------------------------------------
\* Why the properties hold: an inductive invariant, part by part.
Stages == WizardStages \cup LeasedStages \cup UnknownStages \cup ClosedStages
          \cup {"unused", "queued", "failed"}
Outcomes == UnknownStages \cup {"failed", "completed"}
Row == [stage : Stages, owner : Owners \cup {None}, project : Projects \cup {None},
        chat : Groups \cup {NoChat}, lease : {None, "live", "expired"},
        resume : {None, "configuring_group", "preparing_root"},
        fresh : BOOLEAN, snapshot : Nat]

\* The stages at which the provisioner may stand at each of its steps.
StagesAt ==
    [idle |-> Stages, check |-> {"preparing_root", "committing_binding"},
     root |-> {"preparing_root"}, connect |-> {"creating_group", "configuring_group"},
     create |-> {"creating_group"}, creating |-> {"creating_group"},
     created |-> {"creating_group"}, configure |-> {"configuring_group"},
     register |-> {"committing_binding"}, bind |-> {"committing_binding"}]
Desk == [pc : DOMAIN StagesAt, w : Workflows \cup {0}, todo : SUBSET Parts]

Typed ==
    /\ wf \in [Workflows -> Row]
    /\ bindings \subseteq [project : Projects, chat : Exists, wf : Workflows]
    /\ registry \in [Projects -> Projects \cup {None}]
    /\ note \in [Workflows -> Outcomes \cup {None}]
    /\ worker \in Desk
    /\ net \subseteq Workflows
    /\ Exists \subseteq Groups /\ groups \in [Exists -> SUBSET Parts]
    /\ cfg \in Nat

\* What a row holds at its stage: a lease while it is worked on, a project once
\* it is named, a group once one is known, a complete group before it is bound,
\* and a notice of the outcome.
RowFits(w) ==
    /\ wf[w].lease # None => wf[w].stage \in LeasedStages
    /\ wf[w].resume # None => wf[w].stage = "failed"
    /\ wf[w].stage \in LeasedStages \cup Outcomes \cup {"confirming", "queued"} => wf[w].project \in Projects
    /\ wf[w].chat \in Exists \cup {NoChat}
    /\ wf[w].stage \in {"unused", "creating_group", "group_unknown"} => wf[w].chat = NoChat
    /\ wf[w].stage \in {"configuring_group", "configuration_unknown", "committing_binding"}
          => wf[w].chat # NoChat
    /\ wf[w].stage = "committing_binding" => groups[wf[w].chat] = Parts
    /\ wf[w].stage \in Outcomes => note[w] = wf[w].stage

RowsFit == \A w \in Workflows : RowFits(w)

\* Nobody moves the workflow the provisioner works on.
AtHand ==
    worker.pc # "idle" =>
        /\ worker.w \in Workflows
        /\ wf[worker.w].stage \in StagesAt[worker.pc]
        /\ worker.pc = "bind" => registry[wf[worker.w].project] = wf[worker.w].project
        /\ worker.pc = "created" => <<worker.w, "made">> \in Exists

\* A create request is under way, or has made its group, only where the
\* workflow says that one may exist; and never twice.
Stands(w, pcs) == worker.w = w /\ worker.pc \in pcs

RequestFits(w) ==
    /\ <<w, "again">> \notin Exists
    /\ w \in net =>
          /\ <<w, "made">> \notin Exists
          /\ wf[w].stage \in {"creating_group", "group_unknown"}
          /\ ~Stands(w, {"connect", "create", "created"})
    /\ <<w, "made">> \in Exists =>
          \/ wf[w].chat # NoChat
          \/ wf[w].stage = "group_unknown"
          \/ wf[w].stage = "creating_group" /\ ~Stands(w, {"connect", "create", "creating"})

RequestsFit == \A w \in Workflows : RequestFits(w)

OnboardingInv ==
    Typed /\ RowsFit /\ AtHand /\ RequestsFit /\ BoundGroupIsReady /\ ProjectsAreReserved

=============================================================================
