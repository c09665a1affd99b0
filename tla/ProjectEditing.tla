--------------------------- MODULE ProjectEditing ---------------------------
(***************************************************************************)
(* Renaming or relocating a registered project from the owner's chat       *)
(* (project_editing.py).  An edit changes two stores that no transaction   *)
(* spans: the registry file, replaced atomically under a file lock, and    *)
(* the database rows that must agree with it, the group's binding and the  *)
(* execution scope of the project's topics.  The hub process applies a     *)
(* confirmed edit; every service process that starts first finishes the    *)
(* edits it finds in 'applying'.  Processes may die between the two stores.*)
(*                                                                         *)
(* The sessions, jobs, deliveries and lanes that _assert_relocation_idle   *)
(* asks about are one fact here: the root the project's unfinished work    *)
(* belongs to.  Option rows, labels and directory preparation are left out.*)
(***************************************************************************)
EXTENDS Naturals, FiniteSets

CONSTANTS Procs,      \* service processes; "hub" serves the owner's chat
          Owners, Projects, Names, Roots,
          NewGroups,  \* bound: projects the provisioner gives a group meanwhile
          MaxEdits,   \* bound: edits ever started
          MaxWork,    \* bound: pieces of work ever admitted
          MaxCrashes  \* bound: process deaths and failed writes

None == "none"
EditingBounds ==
    /\ "hub" \in Procs /\ None \notin Procs \cup Projects \cup Roots
    /\ MaxEdits \in Nat \ {0} /\ MaxWork \in Nat /\ MaxCrashes \in Nat

Edits == 1..MaxEdits
WizardStages == {"choosing_project", "choosing_operation", "awaiting_name", "choosing_root", "confirming"}

VARIABLES
    edit,    \* project_edit_workflows
    reg,     \* the registry file: project -> name and root
    bind,    \* project_group_bindings: project -> canonical_root, or none
    scope,   \* topics.execution_scope: project -> root
    work,    \* project -> root of its unfinished work, or none
    control, \* roots with a native control operation not known to be over
    joining, \* project -> root its new group is about to be bound to, or none
    proc,    \* each process: what it does, for which edit, still to recover
    cache,   \* each process's copy of the registry's roots
    lock,    \* holder of the registry's file lock
    count    \* edits, work and crashes so far

vars == <<edit, reg, bind, scope, work, control, joining, proc, cache, lock, count>>

NoEntry == [name |-> None, root |-> None]
NoEdit == [stage |-> "unused", owner |-> None, project |-> None, op |-> None,
           old |-> NoEntry, oldBind |-> None, target |-> NoEntry, fresh |-> TRUE]
Idle == [pc |-> "idle", e |-> 0, todo |-> {}]
Down == [pc |-> "down", e |-> 0, todo |-> {}]

Init ==
    /\ edit = [e \in Edits |-> NoEdit]
    /\ \E name \in Names : \E root \in [Projects -> Roots] :
        /\ \A p, q \in Projects : p # q => root[p] # root[q]
        /\ reg = [p \in Projects |-> [name |-> name, root |-> root[p]]]
        /\ scope = root
        /\ \E bound \in SUBSET Projects : bind = [p \in Projects |-> IF p \in bound THEN root[p] ELSE None]
    /\ work = [p \in Projects |-> None]
    /\ control = {}
    /\ joining = [p \in Projects |-> None]
    /\ proc = [x \in Procs |-> Idle]
    /\ cache = [x \in Procs |-> scope]
    /\ lock = None
    /\ count = [work |-> 0, crash |-> 0]

\* An immediate transaction is open while a process stands between its
\* registry write and its commit: no other process writes the database then.
DatabaseFree == \A x \in Procs : proc[x].pc # "wrote"
Serves == proc["hub"].pc = "idle" /\ DatabaseFree
Set(e, row) ==
    /\ edit' = [edit EXCEPT ![e] = row]
    /\ UNCHANGED <<reg, bind, scope, work, control, joining, proc, cache, lock, count>>

-----------------------------------------------------------------------------
\* The owner's dialogue, served by the hub.
Start(o) ==
    /\ Serves
    /\ \E e \in Edits :
        /\ edit[e].stage = "unused" /\ \A d \in 1..(e - 1) : edit[d].stage # "unused"
        /\ edit' = [d \in Edits |->
                      IF d = e THEN [NoEdit EXCEPT !.stage = "choosing_project", !.owner = o]
                      ELSE IF edit[d].owner = o /\ edit[d].stage \in WizardStages
                      THEN [edit[d] EXCEPT !.stage = "cancelled"] ELSE edit[d]]
    /\ UNCHANGED <<reg, bind, scope, work, control, joining, proc, cache, lock, count>>

\* select_project remembers the registration the edit starts from.
SelectProject(e, p) ==
    /\ Serves /\ edit[e].stage = "choosing_project" /\ edit[e].fresh
    /\ Set(e, [edit[e] EXCEPT !.stage = "choosing_operation", !.project = p,
                              !.old = reg[p], !.oldBind = bind[p]])

ChooseRename(e) ==
    /\ Serves /\ edit[e].stage = "choosing_operation" /\ edit[e].fresh
    /\ Set(e, [edit[e] EXCEPT !.stage = "awaiting_name", !.op = "rename"])

SetName(e, n) ==
    /\ Serves /\ edit[e].stage = "awaiting_name" /\ edit[e].fresh
    /\ n # edit[e].old.name
    /\ Set(e, [edit[e] EXCEPT !.stage = "confirming", !.target = [edit[e].old EXCEPT !.name = n]])

\* choose_relocation offers directories no registered project uses.
Offered == Roots \ {reg[p].root : p \in Projects}

ChooseRelocation(e) ==
    /\ Serves /\ edit[e].stage = "choosing_operation" /\ edit[e].fresh
    /\ Offered # {}
    /\ Set(e, [edit[e] EXCEPT !.stage = "choosing_root", !.op = "relocate"])

SelectRoot(e, r) ==
    /\ Serves /\ edit[e].stage = "choosing_root" /\ edit[e].fresh
    /\ r # edit[e].old.root
    /\ Set(e, [edit[e] EXCEPT !.stage = "confirming", !.target = [edit[e].old EXCEPT !.root = r]])

Cancel(e) ==
    /\ Serves /\ edit[e].stage \in WizardStages
    /\ Set(e, [edit[e] EXCEPT !.stage = "cancelled"])

\* The thirty minutes pass; active_for_owner expires what is not being applied.
Expire(e) ==
    /\ edit[e].stage \in WizardStages /\ DatabaseFree
    /\ \/ edit[e].fresh /\ Set(e, [edit[e] EXCEPT !.fresh = FALSE])
       \/ ~edit[e].fresh /\ Serves /\ Set(e, [edit[e] EXCEPT !.stage = "expired"])

\* confirm, then apply in the same callback.
Confirm(e) ==
    /\ Serves /\ edit[e].stage = "confirming" /\ edit[e].fresh
    /\ edit' = [edit EXCEPT ![e].stage = "applying"]
    /\ proc' = [proc EXCEPT !["hub"] = [Idle EXCEPT !.pc = "apply", !.e = e]]
    /\ UNCHANGED <<reg, bind, scope, work, control, joining, lock, count, cache>>

Dialogue ==
    \/ \E o \in Owners : Start(o)
    \/ \E e \in Edits :
        \/ ChooseRename(e) \/ ChooseRelocation(e) \/ Cancel(e) \/ Expire(e) \/ Confirm(e)
        \/ \E p \in Projects : SelectProject(e, p)
        \/ \E n \in Names : SetName(e, n)
        \/ \E r \in Roots : SelectRoot(e, r)

-----------------------------------------------------------------------------
\* apply, and recover_pending when a process starts.
Recovering(x) == proc[x].todo # {}
Rest(x) == IF Recovering(x) /\ proc[x].todo # {proc[x].e}
           THEN [Idle EXCEPT !.pc = "boot", !.todo = proc[x].todo \ {proc[x].e}] ELSE Idle

\* A process that has recovered what it found loads the registry and serves.
LoadRegistry(x) ==
    cache' = IF proc'[x].pc = "idle" THEN [cache EXCEPT ![x] = [p \in Projects |-> reg[p].root]] ELSE cache

\* A starting process lists the edits in 'applying', before it takes any lock.
Boot(x) ==
    /\ proc[x].pc = "down"
    /\ LET pending == {e \in Edits : edit[e].stage = "applying"} IN
       proc' = [proc EXCEPT ![x] = IF pending = {} THEN Idle
                                   ELSE [Idle EXCEPT !.pc = "boot", !.todo = pending]]
    /\ LoadRegistry(x)
    /\ UNCHANGED <<edit, reg, bind, scope, work, control, joining, lock, count>>

\* recover_pending reads one edit; apply refuses one that is no longer under
\* way, and the error ends the process that was starting.
Recovered(x, e) ==
    IF edit[e].stage = "applying" THEN [proc[x] EXCEPT !.pc = "apply", !.e = e]
    ELSE IF edit[e].stage # "completed" THEN Down
    ELSE IF proc[x].todo = {e} THEN Idle ELSE [proc[x] EXCEPT !.todo = @ \ {e}]

ReadForRecovery(x) ==
    /\ proc[x].pc = "boot"
    /\ \E e \in proc[x].todo :
        /\ \A d \in proc[x].todo : e <= d
        /\ proc' = [proc EXCEPT ![x] = Recovered(x, e)]
    /\ LoadRegistry(x)
    /\ UNCHANGED <<edit, reg, bind, scope, work, control, joining, lock, count>>

TakeLock(x) ==
    /\ proc[x].pc = "apply" /\ lock = None
    /\ lock' = x
    /\ proc' = [proc EXCEPT ![x].pc = "locked"]
    /\ UNCHANGED <<edit, reg, bind, scope, work, control, joining, count, cache>>

Target(e) == edit[e].target
Written(e) == reg[edit[e].project] = Target(e)
Moves(e) == edit[e].op = "relocate"

\* validate_relocation_target: no other project is registered with the directory.
TargetFree(e) == \A q \in Projects \ {edit[e].project} : reg[q].root # Target(e).root

\* _assert_relocation_idle, and the target validated again.
MayMove(e) == Moves(e) => work[edit[e].project] = None /\ TargetFree(e)

\* require_control_scope_clear of both directories, whether or not the file is written.
ControlClear(e) == Moves(e) => {edit[e].old.root, Target(e).root} \cap control = {}

Unchanged(e) == reg[edit[e].project] = edit[e].old

\* The binding is the one the edit started from, or the one it asks for.
BindingFits(e) ==
    Moves(e) => IF edit[e].oldBind = None THEN bind[edit[e].project] = None
                ELSE bind[edit[e].project] \in {edit[e].oldBind, Target(e).root}

\* The registry file is replaced; the transaction stays open.
WriteRegistry(x) ==
    LET e == proc[x].e IN
    /\ proc[x].pc = "locked" /\ DatabaseFree
    /\ ControlClear(e) /\ ~Written(e) /\ Unchanged(e) /\ MayMove(e)
    /\ reg' = [reg EXCEPT ![edit[e].project] = Target(e)]
    /\ proc' = [proc EXCEPT ![x].pc = "wrote"]
    /\ UNCHANGED <<edit, bind, scope, work, control, joining, lock, count, cache>>

\* A check fails before this process has written anything: unfinished work may
\* end, the rest is final.
MayApply(e) ==
    /\ ControlClear(e)
    /\ IF Written(e) THEN BindingFits(e) ELSE Unchanged(e) /\ MayMove(e)
WorkBlocks(e) ==
    ControlClear(e) /\ ~Written(e) /\ Unchanged(e) /\ Moves(e) /\ work[edit[e].project] # None

Refuse(x) ==
    LET e == proc[x].e IN
    /\ proc[x].pc = "locked" /\ DatabaseFree /\ ~MayApply(e)
    /\ proc' = [proc EXCEPT ![x].pc = IF WorkBlocks(e) THEN "retryable" ELSE "final"]
    /\ UNCHANGED <<edit, reg, bind, scope, work, control, joining, lock, count, cache>>

\* The binding and the topics follow the registry in the committing transaction.
ScopesMoved(e) == [scope EXCEPT ![edit[e].project] = Target(e).root]
BindingMoved(e) == IF edit[e].oldBind = None THEN bind
                   ELSE [bind EXCEPT ![edit[e].project] = Target(e).root]

CommitUnwritten(x) ==
    LET e == proc[x].e IN
    /\ proc[x].pc = "wrote" \/ (proc[x].pc = "locked" /\ DatabaseFree /\ Recovering(x))
    /\ IF Moves(e) THEN bind' = BindingMoved(e) /\ scope' = ScopesMoved(e)
                   ELSE UNCHANGED <<bind, scope>>
    /\ edit' = [edit EXCEPT ![e].stage = IF @ = "applying" THEN "completed" ELSE @]
    /\ proc' = [proc EXCEPT ![x] = Rest(x)]
    /\ lock' = None
    /\ LoadRegistry(x)
    /\ UNCHANGED <<reg, work, control, joining, count>>

\* The commit of an edit whose registry entry is written, by this process or
\* by one that died: only the first has asked whether the project is idle.
Commit(x) ==
    LET e == proc[x].e IN
    /\ \/ proc[x].pc = "wrote" /\ BindingFits(e)
       \/ proc[x].pc = "locked" /\ DatabaseFree /\ Written(e) /\ MayApply(e)
    /\ IF Moves(e) THEN bind' = BindingMoved(e) /\ scope' = ScopesMoved(e)
                   ELSE UNCHANGED <<bind, scope>>
    /\ edit' = [edit EXCEPT ![e].stage = IF @ = "applying" THEN "completed" ELSE @]
    /\ proc' = [proc EXCEPT ![x] = Rest(x)]
    /\ lock' = None
    /\ LoadRegistry(x)
    /\ UNCHANGED <<reg, work, control, joining, count>>

\* An error after the write, or a binding that changed, puts the old document back.
WriteFails(x) ==
    LET e == proc[x].e IN
    /\ proc[x].pc = "wrote"
    /\ \/ ~BindingFits(e) /\ UNCHANGED count
       \/ count.crash < MaxCrashes /\ count' = [count EXCEPT !.crash = @ + 1]
    /\ reg' = [reg EXCEPT ![edit[e].project] = edit[e].old]
    /\ proc' = [proc EXCEPT ![x].pc = "retryable"]
    /\ UNCHANGED <<edit, bind, scope, work, control, joining, lock, cache>>

\* The second transaction of the error path; recovery keeps the edit under way
\* and the error ends the process that was starting.
RecordFailure(x) ==
    LET e == proc[x].e IN
    /\ proc[x].pc \in {"retryable", "final"} /\ DatabaseFree
    /\ edit' = [edit EXCEPT ![e].stage =
                 IF @ # "applying" \/ Recovering(x) THEN @
                 ELSE IF proc[x].pc = "retryable" THEN "confirming" ELSE "failed"]
    /\ proc' = [proc EXCEPT ![x] = IF Recovering(x) THEN Down ELSE Idle]
    /\ lock' = None
    /\ UNCHANGED <<reg, bind, scope, work, control, joining, count, cache>>

Crash(x) ==
    /\ proc[x].pc # "down" /\ count.crash < MaxCrashes
    /\ count' = [count EXCEPT !.crash = @ + 1]
    /\ proc' = [proc EXCEPT ![x] = Down]
    /\ lock' = IF lock = x THEN None ELSE lock
    /\ UNCHANGED <<edit, reg, bind, scope, work, control, joining, cache>>

ProcessStep(x) ==
    \/ Boot(x) \/ ReadForRecovery(x) \/ TakeLock(x) \/ WriteRegistry(x) \/ Refuse(x)
    \/ Commit(x) \/ RecordFailure(x)

-----------------------------------------------------------------------------
\* Work is admitted by a process that serves, when the root it knows is the
\* topic's scope.  The hub reads the registry for each message of a group, and
\* a group's binding must name the same root; a provider's service in its own
\* direct chat goes by the registry it loaded.
RootKnown(x, p) == IF x = "hub" THEN reg[p].root ELSE cache[x][p]

AdmitWork(x, p) ==
    /\ proc[x].pc = "idle" /\ DatabaseFree
    /\ RootKnown(x, p) = scope[p]
    /\ x = "hub" => bind[p] \in {None, reg[p].root}
    /\ work[p] = None /\ count.work < MaxWork
    /\ work' = [work EXCEPT ![p] = scope[p]]
    /\ count' = [count EXCEPT !.work = @ + 1]
    /\ UNCHANGED <<edit, reg, bind, scope, control, joining, proc, cache, lock>>

FinishWork(p) ==
    /\ work[p] # None /\ DatabaseFree
    /\ work' = [work EXCEPT ![p] = None]
    /\ UNCHANGED <<edit, reg, bind, scope, control, joining, proc, cache, lock, count>>

\* A control operation is sent to the turn that works in a root, and may outlast
\* the work until it is known to be over.
SendControl(p) ==
    /\ work[p] # None /\ DatabaseFree
    /\ control' = control \cup {work[p]}
    /\ UNCHANGED <<edit, reg, bind, scope, work, joining, proc, cache, lock, count>>

QuiesceControl(r) ==
    /\ r \in control /\ DatabaseFree
    /\ control' = control \ {r}
    /\ UNCHANGED <<edit, reg, bind, scope, work, joining, proc, cache, lock, count>>

\* The provisioner gives a registered project its group: ensure_project looks at
\* the registry under its lock, then complete inserts the binding.
EnsureProject(p) ==
    /\ p \in NewGroups /\ lock = None /\ bind[p] = None /\ joining[p] = None
    /\ joining' = [joining EXCEPT ![p] = reg[p].root]
    /\ UNCHANGED <<edit, reg, bind, scope, work, control, proc, cache, lock, count>>

BindGroup(p) ==
    /\ joining[p] # None /\ DatabaseFree
    /\ joining' = [joining EXCEPT ![p] = None]
    /\ bind' = IF \A q \in Projects : bind[q] # joining[p]
               THEN [bind EXCEPT ![p] = joining[p]] ELSE bind
    /\ UNCHANGED <<edit, reg, scope, work, control, proc, cache, lock, count>>

Next ==
    \/ Dialogue
    \/ \E x \in Procs : ProcessStep(x) \/ WriteFails(x) \/ Crash(x) \/ \E p \in Projects : AdmitWork(x, p)
    \/ \E p \in Projects : FinishWork(p) \/ SendControl(p) \/ EnsureProject(p) \/ BindGroup(p)
    \/ \E r \in Roots : QuiesceControl(r)

Spec == Init /\ [][Next]_vars

-----------------------------------------------------------------------------
TypeOK ==
    /\ \A e \in Edits :
        /\ edit[e].stage \in WizardStages \cup {"unused", "applying", "completed", "cancelled", "expired", "failed"}
        /\ edit[e].owner \in Owners \cup {None} /\ edit[e].project \in Projects \cup {None}
    /\ reg \in [Projects -> [name : Names, root : Roots]]
    /\ bind \in [Projects -> Roots \cup {None}] /\ scope \in [Projects -> Roots]
    /\ work \in [Projects -> Roots \cup {None}]
    /\ control \subseteq Roots /\ joining \in [Projects -> Roots \cup {None}]
    /\ lock \in Procs \cup {None}
    /\ \A x \in Procs : lock = x <=> proc[x].pc \in {"locked", "wrote", "retryable", "final"}

\* Two projects are never registered with one directory, whatever edits and
\* recoveries compete for it.
RootsAreDistinct == \A p, q \in Projects : p # q => reg[p].root # reg[q].root

\* An edit is recorded as completed only when the registry holds what was asked,
\* also where another process wrote it and died.
CompletedIsApplied ==
    \A e \in Edits : edit[e].stage = "applying" /\ edit'[e].stage = "completed"
         => reg'[edit[e].project] = Target(e)

\* The database follows the file: the topics of a project move only to the
\* directory the registry names, and its group's binding moves with them.
MovesTogether ==
    \A p \in Projects : scope'[p] # scope[p] =>
         scope'[p] = reg'[p].root /\ bind'[p] \in {None, reg'[p].root}

\* The registry moves a project, or moves it back, only while the project has
\* no unfinished work.
FileMovesIdle ==
    \A p \in Projects : reg'[p].root # reg[p].root => work[p] = None

\* "Connected sessions and unfinished work block the operation"
\* (confirmation_text): a project is not moved under its unfinished work.
WorkBlocksRelocation == [][\A p \in Projects : scope'[p] # scope[p] => work[p] = None]_vars

-----------------------------------------------------------------------------
\* Why the properties hold: an inductive invariant, part by part.
EditStages == WizardStages \cup {"unused", "applying", "completed", "cancelled", "expired", "failed"}
Registered == [name : Names, root : Roots]
Entry == [name : Names \cup {None}, root : Roots \cup {None}]
Row == [stage : EditStages, owner : Owners \cup {None}, project : Projects \cup {None},
        op : {None, "rename", "relocate"}, old : Entry, oldBind : Roots \cup {None},
        target : Entry, fresh : BOOLEAN]
Holding == {"locked", "wrote", "retryable", "final"}
Busy == Holding \cup {"apply"}
Desk == [pc : Busy \cup {"idle", "down", "boot"}, e : Edits \cup {0}, todo : SUBSET Edits]

Typed ==
    /\ edit \in [Edits -> Row]
    /\ reg \in [Projects -> Registered]
    /\ bind \in [Projects -> Roots \cup {None}] /\ scope \in [Projects -> Roots]
    /\ work \in [Projects -> Roots \cup {None}]
    /\ control \subseteq Roots /\ joining \in [Projects -> Roots \cup {None}]
    /\ proc \in [Procs -> Desk]
    /\ lock \in Procs \cup {None}

\* The file lock has one holder: who stands between taking and releasing it.
LockIsHeld == \A x \in Procs : lock = x <=> proc[x].pc \in Holding

\* What an edit asks for stands once it is confirmed, and a rename keeps the root.
Chosen(e) == edit[e].project \in Projects /\ edit[e].old \in Registered
Confirmed(e) ==
    /\ Chosen(e) /\ Target(e) \in Registered
    /\ ~Moves(e) => Target(e).root = edit[e].old.root

EditFits(e) ==
    /\ edit[e].stage \in {"unused", "choosing_project"} => edit[e].project = None
    /\ edit[e].stage \in (WizardStages \ {"confirming"}) \cup {"unused"} => Target(e) = NoEntry
    /\ edit[e].stage \in {"choosing_operation", "awaiting_name", "choosing_root"} => Chosen(e)
    /\ edit[e].stage = "choosing_root" => Moves(e)
    /\ edit[e].stage \in {"confirming", "applying", "completed", "failed"} => Confirmed(e)

EditsFit == \A e \in Edits : EditFits(e)

\* What a process that applies an edit knows: the edit was confirmed; between
\* its write and its commit nobody else touches the registry or admits work.
DeskFits(x) ==
    LET e == proc[x].e IN
    /\ proc[x].pc \in Busy => e \in Edits /\ Confirmed(e)
    /\ proc[x].pc = "wrote" =>
          /\ Written(e)
          /\ \A q \in Projects \ {edit[e].project} : reg[q].root # edit[e].old.root
          /\ Moves(e) => work[edit[e].project] = None

DesksFit == \A x \in Procs : DeskFits(x)

EditingInv == Typed /\ LockIsHeld /\ EditsFit /\ DesksFit /\ RootsAreDistinct

=============================================================================
