--------------------------- MODULE Editing_proofs ---------------------------
(***************************************************************************)
(* Proofs of what editing a registered project promises (ProjectEditing),  *)
(* for every number of instances and every value of their constants,       *)
(* whichever processes serve, recover and die.  Per conjunct of EditingInv *)
(* that every action keeps it; what a step may do to the stores; then the  *)
(* theorem.                                                                *)
(***************************************************************************)
EXTENDS MCHub, TLAPS

\* The constants of every instance meet the module's assumption.
LEMMA EditingAllowed ==
    ASSUME NEW i \in DOMAIN Editings
    PROVE  /\ "hub" \in Editings[i].Procs
           /\ Edit(i)!None \notin Editings[i].Procs
           /\ Edit(i)!None \notin Editings[i].Projects
           /\ Edit(i)!None \notin Editings[i].Roots
BY InstancesAllowed DEF Edit!EditingBounds

\* Whatever the dialogue writes into a row is a row.
LEMMA EditingRow ==
    ASSUME NEW i \in DOMAIN Editings
    PROVE  /\ Edit(i)!NoEdit \in Edit(i)!Row
           /\ \A r \in Edit(i)!Row :
                /\ \A s \in Edit(i)!EditStages : [r EXCEPT !.stage = s] \in Edit(i)!Row
                /\ \A s \in Edit(i)!EditStages, o \in Editings[i].Owners :
                      [r EXCEPT !.stage = s, !.owner = o] \in Edit(i)!Row
                /\ [r EXCEPT !.fresh = FALSE] \in Edit(i)!Row
                /\ \A s \in Edit(i)!EditStages, u \in {"rename", "relocate"} :
                      [r EXCEPT !.stage = s, !.op = u] \in Edit(i)!Row
                /\ \A s \in Edit(i)!EditStages, t \in Edit(i)!Entry :
                      [r EXCEPT !.stage = s, !.target = t] \in Edit(i)!Row
                /\ \A s \in Edit(i)!EditStages, p \in Editings[i].Projects,
                      t \in Edit(i)!Entry, b \in Editings[i].Roots \cup {Edit(i)!None} :
                      [r EXCEPT !.stage = s, !.project = p, !.old = t, !.oldBind = b] \in Edit(i)!Row
<1> USE DEF Edit!Row
<1>1. Edit(i)!NoEdit \in Edit(i)!Row
  BY DEF Edit!NoEdit, Edit!NoEntry, Edit!Entry, Edit!EditStages, Edit!None
<1>2. ASSUME NEW r \in Edit(i)!Row, NEW s \in Edit(i)!EditStages
      PROVE  /\ [r EXCEPT !.stage = s] \in Edit(i)!Row
             /\ \A o \in Editings[i].Owners : [r EXCEPT !.stage = s, !.owner = o] \in Edit(i)!Row
  OBVIOUS
<1>3. ASSUME NEW r \in Edit(i)!Row PROVE [r EXCEPT !.fresh = FALSE] \in Edit(i)!Row
  OBVIOUS
<1>4. ASSUME NEW r \in Edit(i)!Row, NEW s \in Edit(i)!EditStages,
             NEW u \in {"rename", "relocate"}
      PROVE  [r EXCEPT !.stage = s, !.op = u] \in Edit(i)!Row
  OBVIOUS
<1>5. ASSUME NEW r \in Edit(i)!Row, NEW s \in Edit(i)!EditStages,
             NEW t \in Edit(i)!Entry
      PROVE  [r EXCEPT !.stage = s, !.target = t] \in Edit(i)!Row
  OBVIOUS
<1>6. ASSUME NEW r \in Edit(i)!Row, NEW s \in Edit(i)!EditStages,
             NEW p \in Editings[i].Projects,
             NEW t \in Edit(i)!Entry, NEW b \in Editings[i].Roots \cup {Edit(i)!None}
      PROVE  [r EXCEPT !.stage = s, !.project = p, !.old = t, !.oldBind = b] \in Edit(i)!Row
  OBVIOUS
<1> HIDE DEF Edit!Row
<1> QED
  BY <1>1, <1>2, <1>3, <1>4, <1>5, <1>6, Zenon

\* What a process stands at.
LEMMA EditingDesk ==
    ASSUME NEW i \in DOMAIN Editings
    PROVE  /\ Edit(i)!Idle \in Edit(i)!Desk /\ Edit(i)!Down \in Edit(i)!Desk
           /\ Edit(i)!Idle.pc = "idle" /\ Edit(i)!Down.pc = "down"
           /\ \A d \in Edit(i)!Desk : \A c \in Edit(i)!Busy : [d EXCEPT !.pc = c] \in Edit(i)!Desk
           /\ \A d \in Edit(i)!Desk, e \in Edit(i)!Edits :
                 [d EXCEPT !.pc = "apply", !.e = e] \in Edit(i)!Desk
           /\ \A d \in Edit(i)!Desk, s \in SUBSET Edit(i)!Edits : [d EXCEPT !.todo = s] \in Edit(i)!Desk
           /\ \A e \in Edit(i)!Edits : [Edit(i)!Idle EXCEPT !.pc = "apply", !.e = e] \in Edit(i)!Desk
           /\ \A s \in SUBSET Edit(i)!Edits : [Edit(i)!Idle EXCEPT !.pc = "boot", !.todo = s] \in Edit(i)!Desk
BY DEF Edit!Desk, Edit!Idle, Edit!Down, Edit!Busy, Edit!Holding

\* What the fields of an edit are.
LEMMA EditingFields ==
    ASSUME NEW i \in DOMAIN Editings, Edit(i)!Typed, NEW e \in Edit(i)!Edits
    PROVE  /\ edit[e] \in Edit(i)!Row /\ edit[e].stage \in Edit(i)!EditStages
           /\ edit[e].owner \in Editings[i].Owners \cup {Edit(i)!None}
           /\ edit[e].project \in Editings[i].Projects \cup {Edit(i)!None}
           /\ edit[e].op \in {Edit(i)!None, "rename", "relocate"}
           /\ edit[e].old \in Edit(i)!Entry /\ edit[e].target \in Edit(i)!Entry
           /\ edit[e].oldBind \in Editings[i].Roots \cup {Edit(i)!None}
           /\ edit[e].fresh \in BOOLEAN
BY DEF Edit!Typed, Edit!Row

\* A registered name and root, changed in one of them.
LEMMA EditingEntries ==
    ASSUME NEW i \in DOMAIN Editings
    PROVE  /\ Edit(i)!Registered \subseteq Edit(i)!Entry
           /\ \A t \in Edit(i)!Registered : t.root \in Editings[i].Roots
           /\ \A t \in Edit(i)!Registered : t.name \in Editings[i].Names
           /\ \A t \in Edit(i)!Registered, n \in Editings[i].Names :
            [t EXCEPT !.name = n] \in Edit(i)!Registered
           /\ \A t \in Edit(i)!Registered, r \in Editings[i].Roots :
            [t EXCEPT !.root = r] \in Edit(i)!Registered
           /\ \A t \in Edit(i)!Registered, n \in Editings[i].Names : [t EXCEPT !.name = n].root = t.root
           /\ Edit(i)!NoEntry \notin Edit(i)!Registered
<1>1. Edit(i)!None \notin Editings[i].Roots
  BY EditingAllowed
<1> QED
  BY <1>1 DEF Edit!Registered, Edit!Entry, Edit!NoEntry

\* Every step keeps the types.
LEMMA EditingTyped ==
    ASSUME NEW i \in DOMAIN Editings, Edit(i)!Typed, Edit(i)!EditsFit,
           Edit(i)!DesksFit, Edit(i)!Next
    PROVE  Edit(i)!Typed'
<1> USE DEF Edit!Typed, Edit!WizardStages, Edit!EditStages
<1>a. /\ Edit(i)!NoEdit \in Edit(i)!Row
      /\ \A r \in Edit(i)!Row :
           /\ \A s \in Edit(i)!EditStages : [r EXCEPT !.stage = s] \in Edit(i)!Row
           /\ \A s \in Edit(i)!EditStages, o \in Editings[i].Owners :
                 [r EXCEPT !.stage = s, !.owner = o] \in Edit(i)!Row
           /\ [r EXCEPT !.fresh = FALSE] \in Edit(i)!Row
           /\ \A s \in Edit(i)!EditStages, u \in {"rename", "relocate"} :
                 [r EXCEPT !.stage = s, !.op = u] \in Edit(i)!Row
           /\ \A s \in Edit(i)!EditStages, t \in Edit(i)!Entry :
                 [r EXCEPT !.stage = s, !.target = t] \in Edit(i)!Row
           /\ \A s \in Edit(i)!EditStages, p \in Editings[i].Projects, t \in Edit(i)!Entry,
                 b \in Editings[i].Roots \cup {Edit(i)!None} :
                 [r EXCEPT !.stage = s, !.project = p, !.old = t, !.oldBind = b] \in Edit(i)!Row
  BY EditingRow, Zenon
<1>b. /\ Edit(i)!Idle \in Edit(i)!Desk /\ Edit(i)!Down \in Edit(i)!Desk
      /\ \A d \in Edit(i)!Desk : \A c \in Edit(i)!Busy : [d EXCEPT !.pc = c] \in Edit(i)!Desk
      /\ \A d \in Edit(i)!Desk, e \in Edit(i)!Edits : [d EXCEPT !.pc = "apply", !.e = e] \in Edit(i)!Desk
      /\ \A d \in Edit(i)!Desk, s \in SUBSET Edit(i)!Edits : [d EXCEPT !.todo = s] \in Edit(i)!Desk
      /\ \A e \in Edit(i)!Edits : [Edit(i)!Idle EXCEPT !.pc = "apply", !.e = e] \in Edit(i)!Desk
      /\ \A s \in SUBSET Edit(i)!Edits : [Edit(i)!Idle EXCEPT !.pc = "boot", !.todo = s] \in Edit(i)!Desk
  BY EditingDesk, Zenon
<1>c. /\ Edit(i)!Registered \subseteq Edit(i)!Entry
      /\ \A t \in Edit(i)!Registered : t.root \in Editings[i].Roots
      /\ \A t \in Edit(i)!Registered, n \in Editings[i].Names :
            [t EXCEPT !.name = n] \in Edit(i)!Registered
      /\ \A t \in Edit(i)!Registered, r \in Editings[i].Roots :
            [t EXCEPT !.root = r] \in Edit(i)!Registered
  BY EditingEntries, Zenon
<1>d. \A e \in Edit(i)!Edits :
         /\ edit[e] \in Edit(i)!Row /\ edit[e].stage \in Edit(i)!EditStages
         /\ edit[e].stage \in {"awaiting_name", "choosing_root"} => edit[e].old \in Edit(i)!Registered
  BY EditingFields DEF Edit!EditsFit, Edit!EditFits, Edit!Chosen
<1>e. \A x \in Editings[i].Procs :
         /\ proc[x] \in Edit(i)!Desk /\ proc[x].todo \in SUBSET Edit(i)!Edits
         /\ proc[x].pc \in {"apply", "locked", "wrote", "retryable", "final"} =>
               /\ proc[x].e \in Edit(i)!Edits /\ edit[proc[x].e].project \in Editings[i].Projects
               /\ edit[proc[x].e].old \in Edit(i)!Registered
               /\ edit[proc[x].e].target \in Edit(i)!Registered
  BY DEF Edit!DesksFit, Edit!DeskFits, Edit!Desk, Edit!Confirmed, Edit!Chosen,
         Edit!Target, Edit!Busy, Edit!Holding
<1>f. {"apply", "locked", "wrote", "retryable", "final"} \subseteq Edit(i)!Busy
  BY DEF Edit!Busy, Edit!Holding
<1>1. ASSUME NEW o \in Editings[i].Owners, Edit(i)!Start(o)
      PROVE  Edit(i)!Typed'
  <2>1. PICK e \in Edit(i)!Edits :
           edit' = [d \in Edit(i)!Edits |->
                      IF d = e
                      THEN [Edit(i)!NoEdit EXCEPT !.stage = "choosing_project", !.owner = o]
                      ELSE IF edit[d].owner = o /\ edit[d].stage \in Edit(i)!WizardStages
                      THEN [edit[d] EXCEPT !.stage = "cancelled"] ELSE edit[d]]
    BY <1>1 DEF Edit!Start
  <2>2. [Edit(i)!NoEdit EXCEPT !.stage = "choosing_project", !.owner = o] \in Edit(i)!Row
    BY <1>a
  <2>3. \A d \in Edit(i)!Edits : [edit[d] EXCEPT !.stage = "cancelled"] \in Edit(i)!Row
    BY <1>a, <1>d
  <2> QED
    BY <1>1, <1>d, <2>1, <2>2, <2>3 DEF Edit!Start
<1>2. ASSUME NEW e \in Edit(i)!Edits, NEW p \in Editings[i].Projects,
             Edit(i)!SelectProject(e, p)
      PROVE  Edit(i)!Typed'
  BY <1>2, <1>a, <1>c DEF Edit!SelectProject, Edit!Set, Edit!Serves, Edit!DatabaseFree
<1>3. ASSUME NEW e \in Edit(i)!Edits, Edit(i)!ChooseRename(e)
      PROVE  Edit(i)!Typed'
  BY <1>3, <1>a DEF Edit!ChooseRename, Edit!Set, Edit!Serves, Edit!DatabaseFree
<1>4. ASSUME NEW e \in Edit(i)!Edits, NEW n \in Editings[i].Names, Edit(i)!SetName(e, n)
      PROVE  Edit(i)!Typed'
  BY <1>4, <1>a, <1>c, <1>d DEF Edit!SetName, Edit!Set, Edit!Serves, Edit!DatabaseFree
<1>5. ASSUME NEW e \in Edit(i)!Edits, Edit(i)!ChooseRelocation(e)
      PROVE  Edit(i)!Typed'
  BY <1>5, <1>a DEF Edit!ChooseRelocation, Edit!Set, Edit!Serves, Edit!DatabaseFree
<1>6. ASSUME NEW e \in Edit(i)!Edits, NEW r \in Editings[i].Roots,
             Edit(i)!SelectRoot(e, r)
      PROVE  Edit(i)!Typed'
  BY <1>6, <1>a, <1>c, <1>d
     DEF Edit!SelectRoot, Edit!Set, Edit!Serves, Edit!DatabaseFree
<1>7. ASSUME NEW e \in Edit(i)!Edits, Edit(i)!Cancel(e)
      PROVE  Edit(i)!Typed'
  BY <1>7, <1>a DEF Edit!Cancel, Edit!Set, Edit!Serves, Edit!DatabaseFree
<1>8. ASSUME NEW e \in Edit(i)!Edits, Edit(i)!Expire(e)
      PROVE  Edit(i)!Typed'
  <2>1. /\ [edit[e] EXCEPT !.fresh = FALSE] \in Edit(i)!Row
        /\ [edit[e] EXCEPT !.stage = "expired"] \in Edit(i)!Row
    BY <1>a, <1>d
  <2> QED
    BY <1>8, <2>1 DEF Edit!Expire, Edit!Set
<1>9. ASSUME NEW e \in Edit(i)!Edits, Edit(i)!Confirm(e)
      PROVE  Edit(i)!Typed'
  BY <1>9, <1>a, <1>b, <1>e, <1>f DEF Edit!Confirm, Edit!Serves, Edit!DatabaseFree
<1>10. ASSUME NEW x \in Editings[i].Procs, Edit(i)!Boot(x)
      PROVE  Edit(i)!Typed'
  BY <1>10, <1>b, <1>e, <1>f DEF Edit!Boot
<1>11. ASSUME NEW x \in Editings[i].Procs, Edit(i)!ReadForRecovery(x)
      PROVE  Edit(i)!Typed'
  <2>1. \A e \in proc[x].todo : Edit(i)!Recovered(x, e) \in Edit(i)!Desk
    BY <1>b, <1>e DEF Edit!Recovered
  <2> QED
    BY <1>11, <2>1 DEF Edit!ReadForRecovery
<1>12. ASSUME NEW x \in Editings[i].Procs, Edit(i)!TakeLock(x)
      PROVE  Edit(i)!Typed'
  BY <1>12, <1>b, <1>e, <1>f DEF Edit!TakeLock
<1>13. ASSUME NEW x \in Editings[i].Procs, Edit(i)!WriteRegistry(x)
      PROVE  Edit(i)!Typed'
  BY <1>13, <1>b, <1>c, <1>e, <1>f
     DEF Edit!WriteRegistry, Edit!DatabaseFree, Edit!Target
<1>14. ASSUME NEW x \in Editings[i].Procs, Edit(i)!Refuse(x)
      PROVE  Edit(i)!Typed'
  BY <1>14, <1>b, <1>e, <1>f DEF Edit!Refuse, Edit!DatabaseFree
<1>15. ASSUME NEW x \in Editings[i].Procs, Edit(i)!Commit(x)
      PROVE  Edit(i)!Typed'
  BY <1>15, <1>a, <1>b, <1>c, <1>d, <1>e, <1>f
     DEF Edit!Commit, Edit!DatabaseFree, Edit!Rest, Edit!Recovering, Edit!Target,
         Edit!BindingMoved, Edit!ScopesMoved
<1>16. ASSUME NEW x \in Editings[i].Procs, Edit(i)!WriteFails(x)
      PROVE  Edit(i)!Typed'
  BY <1>16, <1>b, <1>c, <1>e, <1>f DEF Edit!WriteFails
<1>17. ASSUME NEW x \in Editings[i].Procs, Edit(i)!RecordFailure(x)
      PROVE  Edit(i)!Typed'
  BY <1>17, <1>a, <1>b, <1>d, <1>e, <1>f
     DEF Edit!RecordFailure, Edit!DatabaseFree, Edit!Recovering
<1>18. ASSUME NEW x \in Editings[i].Procs, Edit(i)!Crash(x)
      PROVE  Edit(i)!Typed'
  BY <1>18, <1>b, <1>e, <1>f DEF Edit!Crash
<1>19. ASSUME NEW x \in Editings[i].Procs, NEW p \in Editings[i].Projects,
              Edit(i)!AdmitWork(x, p)
      PROVE  Edit(i)!Typed'
  BY <1>19 DEF Edit!AdmitWork, Edit!DatabaseFree, Edit!RootKnown
<1>20. ASSUME NEW p \in Editings[i].Projects, Edit(i)!FinishWork(p)
      PROVE  Edit(i)!Typed'
  BY <1>20 DEF Edit!FinishWork, Edit!DatabaseFree
<1>21. ASSUME NEW p \in Editings[i].Projects, Edit(i)!SendControl(p)
      PROVE  Edit(i)!Typed'
  BY <1>21 DEF Edit!SendControl, Edit!DatabaseFree
<1>22. ASSUME NEW r \in Editings[i].Roots, Edit(i)!QuiesceControl(r)
      PROVE  Edit(i)!Typed'
  BY <1>22 DEF Edit!QuiesceControl, Edit!DatabaseFree
<1>23. ASSUME NEW p \in Editings[i].Projects, Edit(i)!EnsureProject(p)
      PROVE  Edit(i)!Typed'
  BY <1>23, <1>c DEF Edit!EnsureProject
<1>24. ASSUME NEW p \in Editings[i].Projects, Edit(i)!BindGroup(p)
      PROVE  Edit(i)!Typed'
  BY <1>24 DEF Edit!BindGroup, Edit!DatabaseFree
<1> QED
  BY <1>1, <1>2, <1>3, <1>4, <1>5, <1>6, <1>7, <1>8, <1>9, <1>10, <1>11, <1>12,
     <1>13, <1>14, <1>15, <1>16, <1>17, <1>18, <1>19, <1>20, <1>21, <1>22, <1>23,
     <1>24
     DEF Edit!Next, Edit!Dialogue, Edit!ProcessStep

\* The lock has one holder.
LEMMA EditingLock ==
    ASSUME NEW i \in DOMAIN Editings, Edit(i)!Typed, Edit(i)!LockIsHeld, Edit(i)!Next
    PROVE  Edit(i)!LockIsHeld'
<1> USE DEF Edit!LockIsHeld, Edit!Holding
<1>a. /\ proc \in [Editings[i].Procs -> Edit(i)!Desk]
      /\ lock \in Editings[i].Procs \cup {Edit(i)!None}
  BY DEF Edit!Typed
<1>1. ASSUME NEW o \in Editings[i].Owners, Edit(i)!Start(o)
      PROVE  Edit(i)!LockIsHeld'
  BY <1>1, <1>a, EditingAllowed DEF Edit!Start, Edit!Serves, Edit!DatabaseFree
<1>2. ASSUME NEW e \in Edit(i)!Edits, NEW p \in Editings[i].Projects,
             Edit(i)!SelectProject(e, p)
      PROVE  Edit(i)!LockIsHeld'
  BY <1>2, <1>a, EditingAllowed
     DEF Edit!SelectProject, Edit!Set, Edit!Serves, Edit!DatabaseFree
<1>3. ASSUME NEW e \in Edit(i)!Edits, Edit(i)!ChooseRename(e)
      PROVE  Edit(i)!LockIsHeld'
  BY <1>3, <1>a, EditingAllowed
     DEF Edit!ChooseRename, Edit!Set, Edit!Serves, Edit!DatabaseFree
<1>4. ASSUME NEW e \in Edit(i)!Edits, NEW n \in Editings[i].Names, Edit(i)!SetName(e, n)
      PROVE  Edit(i)!LockIsHeld'
  BY <1>4, <1>a, EditingAllowed
     DEF Edit!SetName, Edit!Set, Edit!Serves, Edit!DatabaseFree
<1>5. ASSUME NEW e \in Edit(i)!Edits, Edit(i)!ChooseRelocation(e)
      PROVE  Edit(i)!LockIsHeld'
  BY <1>5, <1>a, EditingAllowed
     DEF Edit!ChooseRelocation, Edit!Set, Edit!Serves, Edit!DatabaseFree
<1>6. ASSUME NEW e \in Edit(i)!Edits, NEW r \in Editings[i].Roots,
             Edit(i)!SelectRoot(e, r)
      PROVE  Edit(i)!LockIsHeld'
  BY <1>6, <1>a, EditingAllowed
     DEF Edit!SelectRoot, Edit!Set, Edit!Serves, Edit!DatabaseFree
<1>7. ASSUME NEW e \in Edit(i)!Edits, Edit(i)!Cancel(e)
      PROVE  Edit(i)!LockIsHeld'
  BY <1>7, <1>a, EditingAllowed
     DEF Edit!Cancel, Edit!Set, Edit!Serves, Edit!DatabaseFree
<1>8. ASSUME NEW e \in Edit(i)!Edits, Edit(i)!Expire(e)
      PROVE  Edit(i)!LockIsHeld'
  BY <1>8, <1>a, EditingAllowed
     DEF Edit!Expire, Edit!Set, Edit!Serves, Edit!DatabaseFree
<1>9. ASSUME NEW e \in Edit(i)!Edits, Edit(i)!Confirm(e)
      PROVE  Edit(i)!LockIsHeld'
  BY <1>9, <1>a, EditingAllowed
     DEF Edit!Confirm, Edit!Serves, Edit!DatabaseFree, Edit!Idle
<1>10. ASSUME NEW x \in Editings[i].Procs, Edit(i)!Boot(x)
      PROVE  Edit(i)!LockIsHeld'
  BY <1>10, <1>a, EditingAllowed DEF Edit!Boot, Edit!Idle
<1>11. ASSUME NEW x \in Editings[i].Procs, Edit(i)!ReadForRecovery(x)
      PROVE  Edit(i)!LockIsHeld'
  BY <1>11, <1>a, EditingAllowed
     DEF Edit!ReadForRecovery, Edit!Recovered, Edit!Idle, Edit!Down
<1>12. ASSUME NEW x \in Editings[i].Procs, Edit(i)!TakeLock(x)
      PROVE  Edit(i)!LockIsHeld'
  BY <1>12, <1>a, EditingAllowed DEF Edit!TakeLock
<1>13. ASSUME NEW x \in Editings[i].Procs, Edit(i)!WriteRegistry(x)
      PROVE  Edit(i)!LockIsHeld'
  BY <1>13, <1>a, EditingAllowed DEF Edit!WriteRegistry, Edit!DatabaseFree
<1>14. ASSUME NEW x \in Editings[i].Procs, Edit(i)!Refuse(x)
      PROVE  Edit(i)!LockIsHeld'
  BY <1>14, <1>a, EditingAllowed DEF Edit!Refuse, Edit!DatabaseFree
<1>15. ASSUME NEW x \in Editings[i].Procs, Edit(i)!Commit(x)
      PROVE  Edit(i)!LockIsHeld'
  BY <1>15, <1>a, EditingAllowed
     DEF Edit!Commit, Edit!DatabaseFree, Edit!Rest, Edit!Recovering, Edit!Idle
<1>16. ASSUME NEW x \in Editings[i].Procs, Edit(i)!WriteFails(x)
      PROVE  Edit(i)!LockIsHeld'
  BY <1>16, <1>a, EditingAllowed DEF Edit!WriteFails
<1>17. ASSUME NEW x \in Editings[i].Procs, Edit(i)!RecordFailure(x)
      PROVE  Edit(i)!LockIsHeld'
  BY <1>17, <1>a, EditingAllowed
     DEF Edit!RecordFailure, Edit!DatabaseFree, Edit!Recovering, Edit!Idle,
         Edit!Down
<1>18. ASSUME NEW x \in Editings[i].Procs, Edit(i)!Crash(x)
      PROVE  Edit(i)!LockIsHeld'
  BY <1>18, <1>a, EditingAllowed DEF Edit!Crash, Edit!Down
<1>19. ASSUME NEW x \in Editings[i].Procs, NEW p \in Editings[i].Projects,
              Edit(i)!AdmitWork(x, p)
      PROVE  Edit(i)!LockIsHeld'
  BY <1>19, <1>a, EditingAllowed DEF Edit!AdmitWork, Edit!DatabaseFree, Edit!RootKnown
<1>20. ASSUME NEW p \in Editings[i].Projects, Edit(i)!FinishWork(p)
      PROVE  Edit(i)!LockIsHeld'
  BY <1>20, <1>a, EditingAllowed DEF Edit!FinishWork, Edit!DatabaseFree
<1>21. ASSUME NEW p \in Editings[i].Projects, Edit(i)!SendControl(p)
      PROVE  Edit(i)!LockIsHeld'
  BY <1>21, <1>a, EditingAllowed DEF Edit!SendControl, Edit!DatabaseFree
<1>22. ASSUME NEW r \in Editings[i].Roots, Edit(i)!QuiesceControl(r)
      PROVE  Edit(i)!LockIsHeld'
  BY <1>22, <1>a, EditingAllowed DEF Edit!QuiesceControl, Edit!DatabaseFree
<1>23. ASSUME NEW p \in Editings[i].Projects, Edit(i)!EnsureProject(p)
      PROVE  Edit(i)!LockIsHeld'
  BY <1>23, <1>a, EditingAllowed DEF Edit!EnsureProject
<1>24. ASSUME NEW p \in Editings[i].Projects, Edit(i)!BindGroup(p)
      PROVE  Edit(i)!LockIsHeld'
  BY <1>24, <1>a, EditingAllowed DEF Edit!BindGroup, Edit!DatabaseFree
<1> QED
  BY <1>1, <1>2, <1>3, <1>4, <1>5, <1>6, <1>7, <1>8, <1>9, <1>10, <1>11, <1>12,
     <1>13, <1>14, <1>15, <1>16, <1>17, <1>18, <1>19, <1>20, <1>21, <1>22, <1>23,
     <1>24
     DEF Edit!Next, Edit!Dialogue, Edit!ProcessStep

\* Between a process's write and its commit nobody else changes either store.
LEMMA EditingWrote ==
    ASSUME NEW i \in DOMAIN Editings, Edit(i)!Typed, Edit(i)!LockIsHeld,
           NEW y \in Editings[i].Procs, proc'[y].pc = "wrote", Edit(i)!Next
    PROVE  \/ Edit(i)!WriteRegistry(y)
           \/ proc'[y] = proc[y] /\ UNCHANGED <<edit, reg, bind, scope, edWork>>
<1> DEFINE Goal == \/ Edit(i)!WriteRegistry(y)
                   \/ proc'[y] = proc[y] /\ UNCHANGED <<edit, reg, bind, scope, edWork>>
<1> USE DEF Edit!Holding
<1>a. proc \in [Editings[i].Procs -> Edit(i)!Desk]
  BY DEF Edit!Typed
<1>b. \A x \in Editings[i].Procs :
         proc[x].pc \in Edit(i)!Holding /\ proc[y].pc \in Edit(i)!Holding => x = y
  BY DEF Edit!LockIsHeld
<1>1. ASSUME NEW o \in Editings[i].Owners, Edit(i)!Start(o)
      PROVE  Goal
  BY <1>1, <1>a DEF Edit!Start, Edit!Serves, Edit!DatabaseFree
<1>2. ASSUME NEW e \in Edit(i)!Edits, NEW p \in Editings[i].Projects,
             Edit(i)!SelectProject(e, p)
      PROVE  Goal
  BY <1>2, <1>a DEF Edit!SelectProject, Edit!Set, Edit!Serves, Edit!DatabaseFree
<1>3. ASSUME NEW e \in Edit(i)!Edits, Edit(i)!ChooseRename(e)
      PROVE  Goal
  BY <1>3, <1>a DEF Edit!ChooseRename, Edit!Set, Edit!Serves, Edit!DatabaseFree
<1>4. ASSUME NEW e \in Edit(i)!Edits, NEW n \in Editings[i].Names, Edit(i)!SetName(e, n)
      PROVE  Goal
  BY <1>4, <1>a DEF Edit!SetName, Edit!Set, Edit!Serves, Edit!DatabaseFree
<1>5. ASSUME NEW e \in Edit(i)!Edits, Edit(i)!ChooseRelocation(e)
      PROVE  Goal
  BY <1>5, <1>a DEF Edit!ChooseRelocation, Edit!Set, Edit!Serves, Edit!DatabaseFree
<1>6. ASSUME NEW e \in Edit(i)!Edits, NEW r \in Editings[i].Roots,
             Edit(i)!SelectRoot(e, r)
      PROVE  Goal
  BY <1>6, <1>a DEF Edit!SelectRoot, Edit!Set, Edit!Serves, Edit!DatabaseFree
<1>7. ASSUME NEW e \in Edit(i)!Edits, Edit(i)!Cancel(e)
      PROVE  Goal
  BY <1>7, <1>a DEF Edit!Cancel, Edit!Set, Edit!Serves, Edit!DatabaseFree
<1>8. ASSUME NEW e \in Edit(i)!Edits, Edit(i)!Expire(e)
      PROVE  Goal
  BY <1>8, <1>a DEF Edit!Expire, Edit!Set, Edit!Serves, Edit!DatabaseFree
<1>9. ASSUME NEW e \in Edit(i)!Edits, Edit(i)!Confirm(e)
      PROVE  Goal
  BY <1>9, <1>a DEF Edit!Confirm, Edit!Serves, Edit!DatabaseFree, Edit!Idle
<1>10. ASSUME NEW x \in Editings[i].Procs, Edit(i)!Boot(x)
      PROVE  Goal
  BY <1>10, <1>a DEF Edit!Boot, Edit!Idle
<1>11. ASSUME NEW x \in Editings[i].Procs, Edit(i)!ReadForRecovery(x)
      PROVE  Goal
  BY <1>11, <1>a DEF Edit!ReadForRecovery, Edit!Recovered, Edit!Idle, Edit!Down
<1>12. ASSUME NEW x \in Editings[i].Procs, Edit(i)!TakeLock(x)
      PROVE  Goal
  BY <1>12, <1>a DEF Edit!TakeLock
<1>13. ASSUME NEW x \in Editings[i].Procs, Edit(i)!WriteRegistry(x)
      PROVE  Goal
  <2>1. CASE x = y
    <3>1. Edit(i)!WriteRegistry(y)
      BY <1>13, <2>1 DEF Edit!WriteRegistry
    <3> QED
      BY <3>1
  <2>2. CASE x # y
    BY <1>13, <1>a, <2>2 DEF Edit!WriteRegistry, Edit!DatabaseFree
  <2> QED
    BY <2>1, <2>2
<1>14. ASSUME NEW x \in Editings[i].Procs, Edit(i)!Refuse(x)
      PROVE  Goal
  BY <1>14, <1>a DEF Edit!Refuse, Edit!DatabaseFree
<1>15. ASSUME NEW x \in Editings[i].Procs, Edit(i)!Commit(x)
      PROVE  Goal
  BY <1>15, <1>a, <1>b
     DEF Edit!Commit, Edit!DatabaseFree, Edit!Rest, Edit!Recovering, Edit!Idle
<1>16. ASSUME NEW x \in Editings[i].Procs, Edit(i)!WriteFails(x)
      PROVE  Goal
  BY <1>16, <1>a, <1>b DEF Edit!WriteFails
<1>17. ASSUME NEW x \in Editings[i].Procs, Edit(i)!RecordFailure(x)
      PROVE  Goal
  BY <1>17, <1>a, <1>b
     DEF Edit!RecordFailure, Edit!DatabaseFree, Edit!Recovering, Edit!Idle,
         Edit!Down
<1>18. ASSUME NEW x \in Editings[i].Procs, Edit(i)!Crash(x)
      PROVE  Goal
  BY <1>18, <1>a DEF Edit!Crash, Edit!Down
<1>19. ASSUME NEW x \in Editings[i].Procs, NEW p \in Editings[i].Projects,
              Edit(i)!AdmitWork(x, p)
      PROVE  Goal
  BY <1>19, <1>a DEF Edit!AdmitWork, Edit!DatabaseFree, Edit!RootKnown
<1>20. ASSUME NEW p \in Editings[i].Projects, Edit(i)!FinishWork(p)
      PROVE  Goal
  BY <1>20, <1>a DEF Edit!FinishWork, Edit!DatabaseFree
<1>21. ASSUME NEW p \in Editings[i].Projects, Edit(i)!SendControl(p)
      PROVE  Goal
  BY <1>21, <1>a DEF Edit!SendControl, Edit!DatabaseFree
<1>22. ASSUME NEW r \in Editings[i].Roots, Edit(i)!QuiesceControl(r)
      PROVE  Goal
  BY <1>22, <1>a DEF Edit!QuiesceControl, Edit!DatabaseFree
<1>23. ASSUME NEW p \in Editings[i].Projects, Edit(i)!EnsureProject(p)
      PROVE  Goal
  BY <1>23, <1>a DEF Edit!EnsureProject
<1>24. ASSUME NEW p \in Editings[i].Projects, Edit(i)!BindGroup(p)
      PROVE  Goal
  BY <1>24, <1>a DEF Edit!BindGroup, Edit!DatabaseFree
<1> QED
  BY <1>1, <1>2, <1>3, <1>4, <1>5, <1>6, <1>7, <1>8, <1>9, <1>10, <1>11, <1>12,
     <1>13, <1>14, <1>15, <1>16, <1>17, <1>18, <1>19, <1>20, <1>21, <1>22, <1>23,
     <1>24
     DEF Edit!Next, Edit!Dialogue, Edit!ProcessStep

\* What was confirmed stays as it is.
LEMMA EditingKept ==
    ASSUME NEW i \in DOMAIN Editings, Edit(i)!Typed, Edit(i)!EditsFit,
           NEW f \in Edit(i)!Edits, Edit(i)!Confirmed(f), Edit(i)!Next
    PROVE  /\ edit'[f].project = edit[f].project /\ edit'[f].old = edit[f].old
           /\ edit'[f].oldBind = edit[f].oldBind /\ edit'[f].op = edit[f].op
           /\ edit'[f].target = edit[f].target
<1> DEFINE Goal == /\ edit'[f].project = edit[f].project /\ edit'[f].old = edit[f].old
                   /\ edit'[f].oldBind = edit[f].oldBind /\ edit'[f].op = edit[f].op
                   /\ edit'[f].target = edit[f].target
<1> USE DEF Edit!WizardStages
<1>a. edit \in [Edit(i)!Edits -> Edit(i)!Row] /\ edit[f] \in Edit(i)!Row
  BY DEF Edit!Typed
<1>b. edit[f].stage \notin {"unused", "choosing_project", "choosing_operation",
                          "awaiting_name", "choosing_root"}
  <2>1. Edit(i)!Target(f) # Edit(i)!NoEntry
    BY EditingEntries DEF Edit!Confirmed
  <2>2. edit[f].stage \notin (Edit(i)!WizardStages \ {"confirming"}) \cup {"unused"}
    BY <2>1 DEF Edit!EditsFit, Edit!EditFits
  <2> QED
    BY <2>2 DEF Edit!WizardStages
<1>c. edit[f].project \in Editings[i].Projects
  BY DEF Edit!Confirmed, Edit!Chosen
<1>1. ASSUME NEW o \in Editings[i].Owners, Edit(i)!Start(o)
      PROVE  Goal
  BY <1>1, <1>a, <1>b DEF Edit!Start, Edit!Serves, Edit!DatabaseFree
<1>2. ASSUME NEW e \in Edit(i)!Edits, NEW p \in Editings[i].Projects,
             Edit(i)!SelectProject(e, p)
      PROVE  Goal
  BY <1>2, <1>a, <1>b DEF Edit!SelectProject, Edit!Set, Edit!Serves, Edit!DatabaseFree
<1>3. ASSUME NEW e \in Edit(i)!Edits, Edit(i)!ChooseRename(e)
      PROVE  Goal
  BY <1>3, <1>a, <1>b DEF Edit!ChooseRename, Edit!Set, Edit!Serves, Edit!DatabaseFree
<1>4. ASSUME NEW e \in Edit(i)!Edits, NEW n \in Editings[i].Names, Edit(i)!SetName(e, n)
      PROVE  Goal
  BY <1>4, <1>a, <1>b DEF Edit!SetName, Edit!Set, Edit!Serves, Edit!DatabaseFree
<1>5. ASSUME NEW e \in Edit(i)!Edits, Edit(i)!ChooseRelocation(e)
      PROVE  Goal
  BY <1>5, <1>a, <1>b
     DEF Edit!ChooseRelocation, Edit!Set, Edit!Serves, Edit!DatabaseFree
<1>6. ASSUME NEW e \in Edit(i)!Edits, NEW r \in Editings[i].Roots,
             Edit(i)!SelectRoot(e, r)
      PROVE  Goal
  BY <1>6, <1>a, <1>b DEF Edit!SelectRoot, Edit!Set, Edit!Serves, Edit!DatabaseFree
<1>7. ASSUME NEW e \in Edit(i)!Edits, Edit(i)!Cancel(e)
      PROVE  Goal
  BY <1>7, <1>a, <1>b DEF Edit!Cancel, Edit!Set, Edit!Serves, Edit!DatabaseFree
<1>8. ASSUME NEW e \in Edit(i)!Edits, Edit(i)!Expire(e)
      PROVE  Goal
  <2>1. \/ edit' = [edit EXCEPT ![e] = [edit[e] EXCEPT !.fresh = FALSE]]
        \/ /\ edit' = [edit EXCEPT ![e] = [edit[e] EXCEPT !.stage = "expired"]]
           /\ edit[e].stage \in Edit(i)!WizardStages
    BY <1>8, Zenon DEF Edit!Expire, Edit!Set
  <2>2. UNCHANGED <<reg, bind, scope, edWork, proc, cache, lock, count>>
    BY <1>8, Zenon DEF Edit!Expire, Edit!Set
  <2>3. \A g \in Edit(i)!Edits :
            /\ edit'[g].project = edit[g].project /\ edit'[g].old = edit[g].old
            /\ edit'[g].oldBind = edit[g].oldBind /\ edit'[g].op = edit[g].op
            /\ edit'[g].target = edit[g].target
            /\ edit'[g].stage # edit[g].stage =>
                  edit[g].stage \in Edit(i)!WizardStages /\ edit'[g].stage = "expired"
    <3>1. CASE edit' = [edit EXCEPT ![e] = [edit[e] EXCEPT !.fresh = FALSE]]
      BY <1>a, <3>1
    <3>2. CASE /\ edit' = [edit EXCEPT ![e] = [edit[e] EXCEPT !.stage = "expired"]]
               /\ edit[e].stage \in Edit(i)!WizardStages
      BY <1>a, <3>2
    <3> QED
      BY <2>1, <3>1, <3>2
  <2> QED
    BY <2>3
<1>9. ASSUME NEW e \in Edit(i)!Edits, Edit(i)!Confirm(e)
      PROVE  Goal
  BY <1>9, <1>a, <1>b DEF Edit!Confirm, Edit!Serves, Edit!DatabaseFree, Edit!Idle
<1>10. ASSUME NEW x \in Editings[i].Procs, Edit(i)!Boot(x)
      PROVE  Goal
  BY <1>10, <1>a DEF Edit!Boot, Edit!Idle
<1>11. ASSUME NEW x \in Editings[i].Procs, Edit(i)!ReadForRecovery(x)
      PROVE  Goal
  BY <1>11, <1>a DEF Edit!ReadForRecovery, Edit!Recovered, Edit!Idle, Edit!Down
<1>12. ASSUME NEW x \in Editings[i].Procs, Edit(i)!TakeLock(x)
      PROVE  Goal
  BY <1>12, <1>a DEF Edit!TakeLock
<1>13. ASSUME NEW x \in Editings[i].Procs, Edit(i)!WriteRegistry(x)
      PROVE  Goal
  BY <1>13, <1>a DEF Edit!WriteRegistry, Edit!DatabaseFree
<1>14. ASSUME NEW x \in Editings[i].Procs, Edit(i)!Refuse(x)
      PROVE  Goal
  BY <1>14, <1>a DEF Edit!Refuse, Edit!DatabaseFree
<1>15. ASSUME NEW x \in Editings[i].Procs, Edit(i)!Commit(x)
      PROVE  Goal
  BY <1>15, <1>a
     DEF Edit!Commit, Edit!DatabaseFree, Edit!Rest, Edit!Recovering, Edit!Idle
<1>16. ASSUME NEW x \in Editings[i].Procs, Edit(i)!WriteFails(x)
      PROVE  Goal
  BY <1>16, <1>a DEF Edit!WriteFails
<1>17. ASSUME NEW x \in Editings[i].Procs, Edit(i)!RecordFailure(x)
      PROVE  Goal
  BY <1>17, <1>a
     DEF Edit!RecordFailure, Edit!DatabaseFree, Edit!Recovering, Edit!Idle,
         Edit!Down
<1>18. ASSUME NEW x \in Editings[i].Procs, Edit(i)!Crash(x)
      PROVE  Goal
  BY <1>18, <1>a DEF Edit!Crash, Edit!Down
<1>19. ASSUME NEW x \in Editings[i].Procs, NEW p \in Editings[i].Projects,
              Edit(i)!AdmitWork(x, p)
      PROVE  Goal
  BY <1>19, <1>a DEF Edit!AdmitWork, Edit!DatabaseFree, Edit!RootKnown
<1>20. ASSUME NEW p \in Editings[i].Projects, Edit(i)!FinishWork(p)
      PROVE  Goal
  BY <1>20, <1>a DEF Edit!FinishWork, Edit!DatabaseFree
<1>21. ASSUME NEW p \in Editings[i].Projects, Edit(i)!SendControl(p)
      PROVE  Goal
  BY <1>21, <1>a DEF Edit!SendControl, Edit!DatabaseFree
<1>22. ASSUME NEW r \in Editings[i].Roots, Edit(i)!QuiesceControl(r)
      PROVE  Goal
  BY <1>22, <1>a DEF Edit!QuiesceControl, Edit!DatabaseFree
<1>23. ASSUME NEW p \in Editings[i].Projects, Edit(i)!EnsureProject(p)
      PROVE  Goal
  BY <1>23, <1>a DEF Edit!EnsureProject
<1>24. ASSUME NEW p \in Editings[i].Projects, Edit(i)!BindGroup(p)
      PROVE  Goal
  BY <1>24, <1>a DEF Edit!BindGroup, Edit!DatabaseFree
<1> QED
  BY <1>1, <1>2, <1>3, <1>4, <1>5, <1>6, <1>7, <1>8, <1>9, <1>10, <1>11, <1>12,
     <1>13, <1>14, <1>15, <1>16, <1>17, <1>18, <1>19, <1>20, <1>21, <1>22, <1>23,
     <1>24
     DEF Edit!Next, Edit!Dialogue, Edit!ProcessStep

\* Every step leaves edits that fit their stage.
LEMMA EditingEdits ==
    ASSUME NEW i \in DOMAIN Editings, Edit(i)!Typed, Edit(i)!EditsFit,
           Edit(i)!DesksFit, NEW f \in Edit(i)!Edits, Edit(i)!Next
    PROVE  Edit(i)!EditFits(f)'
<1> USE DEF Edit!EditFits, Edit!Target, Edit!Moves, Edit!Chosen, Edit!Confirmed,
            Edit!WizardStages
<1>a. edit \in [Edit(i)!Edits -> Edit(i)!Row] /\ edit[f] \in Edit(i)!Row
  BY DEF Edit!Typed
<1>b. Edit(i)!EditFits(f)
  BY DEF Edit!EditsFit
<1>c. /\ \A t \in Edit(i)!Registered, n \in Editings[i].Names :
            [t EXCEPT !.name = n] \in Edit(i)!Registered
      /\ \A t \in Edit(i)!Registered, r \in Editings[i].Roots :
            [t EXCEPT !.root = r] \in Edit(i)!Registered
      /\ \A t \in Edit(i)!Registered, n \in Editings[i].Names : [t EXCEPT !.name = n].root = t.root
      /\ Edit(i)!NoEntry \notin Edit(i)!Registered
  BY EditingEntries, Zenon
<1>1. ASSUME NEW o \in Editings[i].Owners, Edit(i)!Start(o)
      PROVE  Edit(i)!EditFits(f)'
  <2>1. PICK e \in Edit(i)!Edits :
           /\ edit[e].stage = "unused"
           /\ edit' = [d \in Edit(i)!Edits |->
                      IF d = e
                      THEN [Edit(i)!NoEdit EXCEPT !.stage = "choosing_project", !.owner = o]
                      ELSE IF edit[d].owner = o /\ edit[d].stage \in Edit(i)!WizardStages
                      THEN [edit[d] EXCEPT !.stage = "cancelled"] ELSE edit[d]]
    BY <1>1, Zenon DEF Edit!Start
  <2>2. UNCHANGED <<reg, bind, scope, edWork, proc, cache, lock, count>>
    BY <1>1, Zenon DEF Edit!Start

  <2>3. [Edit(i)!NoEdit EXCEPT !.stage = "choosing_project", !.owner = o] \in Edit(i)!Row
    BY EditingRow DEF Edit!EditStages, Edit!WizardStages
  <2>4. CASE f = e
    <3>1. /\ edit'[f].stage = "choosing_project" /\ edit'[f].project = Edit(i)!None
          /\ edit'[f].target = Edit(i)!NoEntry
      BY <2>1, <2>4 DEF Edit!NoEdit
    <3> QED
      BY <3>1
  <2>5. CASE f # e
    BY <1>a, <1>b, <2>1, <2>2, <2>5
  <2> QED
    BY <2>4, <2>5
<1>2. ASSUME NEW e \in Edit(i)!Edits, NEW p \in Editings[i].Projects,
             Edit(i)!SelectProject(e, p)
      PROVE  Edit(i)!EditFits(f)'
  <2>1. /\ edit' = [edit EXCEPT ![e] = [edit[e] EXCEPT !.stage = "choosing_operation",
                       !.project = p, !.old = reg[p], !.oldBind = bind[p]]]
        /\ edit[e].stage = "choosing_project" /\ bind' = bind
    BY <1>2, Zenon DEF Edit!SelectProject, Edit!Set
  <2>2. reg[p] \in Edit(i)!Registered
    BY DEF Edit!Typed
  <2>3. CASE f = e
    <3>1. /\ edit'[f].stage = "choosing_operation" /\ edit'[f].project = p
          /\ edit'[f].old = reg[p] /\ edit'[f].oldBind = bind[p]
          /\ edit'[f].target = edit[f].target
      BY <1>a, <2>1, <2>3
    <3> QED
      BY <1>b, <2>1, <2>2, <2>3, <3>1
  <2>4. CASE f # e
    BY <1>a, <1>b, <2>1, <2>4
  <2> QED
    BY <2>3, <2>4
<1>3. ASSUME NEW e \in Edit(i)!Edits, Edit(i)!ChooseRename(e)
      PROVE  Edit(i)!EditFits(f)'
  BY <1>3, <1>a, <1>b, <1>c
     DEF Edit!ChooseRename, Edit!Set, Edit!Serves, Edit!DatabaseFree
<1>4. ASSUME NEW e \in Edit(i)!Edits, NEW n \in Editings[i].Names, Edit(i)!SetName(e, n)
      PROVE  Edit(i)!EditFits(f)'
  BY <1>4, <1>a, <1>b, <1>c DEF Edit!SetName, Edit!Set, Edit!Serves, Edit!DatabaseFree
<1>5. ASSUME NEW e \in Edit(i)!Edits, Edit(i)!ChooseRelocation(e)
      PROVE  Edit(i)!EditFits(f)'
  BY <1>5, <1>a, <1>b, <1>c
     DEF Edit!ChooseRelocation, Edit!Set, Edit!Serves, Edit!DatabaseFree
<1>6. ASSUME NEW e \in Edit(i)!Edits, NEW r \in Editings[i].Roots,
             Edit(i)!SelectRoot(e, r)
      PROVE  Edit(i)!EditFits(f)'
  BY <1>6, <1>a, <1>b, <1>c
     DEF Edit!SelectRoot, Edit!Set, Edit!Serves, Edit!DatabaseFree
<1>7. ASSUME NEW e \in Edit(i)!Edits, Edit(i)!Cancel(e)
      PROVE  Edit(i)!EditFits(f)'
  BY <1>7, <1>a, <1>b, <1>c DEF Edit!Cancel, Edit!Set, Edit!Serves, Edit!DatabaseFree
<1>8. ASSUME NEW e \in Edit(i)!Edits, Edit(i)!Expire(e)
      PROVE  Edit(i)!EditFits(f)'
  <2>1. \/ edit' = [edit EXCEPT ![e] = [edit[e] EXCEPT !.fresh = FALSE]]
        \/ /\ edit' = [edit EXCEPT ![e] = [edit[e] EXCEPT !.stage = "expired"]]
           /\ edit[e].stage \in Edit(i)!WizardStages
    BY <1>8, Zenon DEF Edit!Expire, Edit!Set
  <2>2. UNCHANGED <<reg, bind, scope, edWork, proc, cache, lock, count>>
    BY <1>8, Zenon DEF Edit!Expire, Edit!Set
  <2>3. \A g \in Edit(i)!Edits :
            /\ edit'[g].project = edit[g].project /\ edit'[g].old = edit[g].old
            /\ edit'[g].oldBind = edit[g].oldBind /\ edit'[g].op = edit[g].op
            /\ edit'[g].target = edit[g].target
            /\ edit'[g].stage # edit[g].stage =>
                  edit[g].stage \in Edit(i)!WizardStages /\ edit'[g].stage = "expired"
    <3>1. CASE edit' = [edit EXCEPT ![e] = [edit[e] EXCEPT !.fresh = FALSE]]
      BY <1>a, <3>1
    <3>2. CASE /\ edit' = [edit EXCEPT ![e] = [edit[e] EXCEPT !.stage = "expired"]]
               /\ edit[e].stage \in Edit(i)!WizardStages
      BY <1>a, <3>2
    <3> QED
      BY <2>1, <3>1, <3>2
  <2> QED
    BY <1>b, <2>2, <2>3
<1>9. ASSUME NEW e \in Edit(i)!Edits, Edit(i)!Confirm(e)
      PROVE  Edit(i)!EditFits(f)'
  BY <1>9, <1>a, <1>b, <1>c DEF Edit!Confirm, Edit!Serves, Edit!DatabaseFree, Edit!Idle
<1>10. ASSUME NEW x \in Editings[i].Procs, Edit(i)!Boot(x)
      PROVE  Edit(i)!EditFits(f)'
  BY <1>10, <1>a, <1>b DEF Edit!Boot, Edit!Idle
<1>11. ASSUME NEW x \in Editings[i].Procs, Edit(i)!ReadForRecovery(x)
      PROVE  Edit(i)!EditFits(f)'
  BY <1>11, <1>a, <1>b DEF Edit!ReadForRecovery, Edit!Recovered, Edit!Idle, Edit!Down
<1>12. ASSUME NEW x \in Editings[i].Procs, Edit(i)!TakeLock(x)
      PROVE  Edit(i)!EditFits(f)'
  BY <1>12, <1>a, <1>b DEF Edit!TakeLock
<1>13. ASSUME NEW x \in Editings[i].Procs, Edit(i)!WriteRegistry(x)
      PROVE  Edit(i)!EditFits(f)'
  BY <1>13, <1>a, <1>b DEF Edit!WriteRegistry, Edit!DatabaseFree
<1>14. ASSUME NEW x \in Editings[i].Procs, Edit(i)!Refuse(x)
      PROVE  Edit(i)!EditFits(f)'
  BY <1>14, <1>a, <1>b DEF Edit!Refuse, Edit!DatabaseFree
<1>15. ASSUME NEW x \in Editings[i].Procs, Edit(i)!Commit(x)
      PROVE  Edit(i)!EditFits(f)'
  <2>1. \A g \in Edit(i)!Edits :
           /\ edit'[g].project = edit[g].project /\ edit'[g].old = edit[g].old
           /\ edit'[g].oldBind = edit[g].oldBind /\ edit'[g].op = edit[g].op
           /\ edit'[g].target = edit[g].target
           /\ edit'[g].stage # edit[g].stage =>
                 edit[g].stage = "applying" /\ edit'[g].stage = "completed"
    BY <1>15, <1>a DEF Edit!Commit
  <2> QED
    BY <1>b, <2>1
<1>16. ASSUME NEW x \in Editings[i].Procs, Edit(i)!WriteFails(x)
      PROVE  Edit(i)!EditFits(f)'
  BY <1>16, <1>a, <1>b DEF Edit!WriteFails
<1>17. ASSUME NEW x \in Editings[i].Procs, Edit(i)!RecordFailure(x)
      PROVE  Edit(i)!EditFits(f)'
  BY <1>17, <1>a, <1>b
     DEF Edit!RecordFailure, Edit!DatabaseFree, Edit!Recovering, Edit!Idle,
         Edit!Down
<1>18. ASSUME NEW x \in Editings[i].Procs, Edit(i)!Crash(x)
      PROVE  Edit(i)!EditFits(f)'
  BY <1>18, <1>a, <1>b DEF Edit!Crash, Edit!Down
<1>19. ASSUME NEW x \in Editings[i].Procs, NEW p \in Editings[i].Projects,
              Edit(i)!AdmitWork(x, p)
      PROVE  Edit(i)!EditFits(f)'
  BY <1>19, <1>a, <1>b DEF Edit!AdmitWork, Edit!DatabaseFree, Edit!RootKnown
<1>20. ASSUME NEW p \in Editings[i].Projects, Edit(i)!FinishWork(p)
      PROVE  Edit(i)!EditFits(f)'
  BY <1>20, <1>a, <1>b DEF Edit!FinishWork, Edit!DatabaseFree
<1>21. ASSUME NEW p \in Editings[i].Projects, Edit(i)!SendControl(p)
      PROVE  Edit(i)!EditFits(f)'
  BY <1>21, <1>a, <1>b DEF Edit!SendControl, Edit!DatabaseFree
<1>22. ASSUME NEW r \in Editings[i].Roots, Edit(i)!QuiesceControl(r)
      PROVE  Edit(i)!EditFits(f)'
  BY <1>22, <1>a, <1>b DEF Edit!QuiesceControl, Edit!DatabaseFree
<1>23. ASSUME NEW p \in Editings[i].Projects, Edit(i)!EnsureProject(p)
      PROVE  Edit(i)!EditFits(f)'
  BY <1>23, <1>a, <1>b DEF Edit!EnsureProject
<1>24. ASSUME NEW p \in Editings[i].Projects, Edit(i)!BindGroup(p)
      PROVE  Edit(i)!EditFits(f)'
  BY <1>24, <1>a, <1>b DEF Edit!BindGroup, Edit!DatabaseFree
<1> QED
  BY <1>1, <1>2, <1>3, <1>4, <1>5, <1>6, <1>7, <1>8, <1>9, <1>10, <1>11, <1>12,
     <1>13, <1>14, <1>15, <1>16, <1>17, <1>18, <1>19, <1>20, <1>21, <1>22, <1>23,
     <1>24
     DEF Edit!Next, Edit!Dialogue, Edit!ProcessStep

\* Who stands in an edit stood there before, or begins it while it is being applied.
LEMMA EditingBusy ==
    ASSUME NEW i \in DOMAIN Editings, Edit(i)!Typed, NEW y \in Editings[i].Procs,
           proc'[y].pc \in Edit(i)!Busy, Edit(i)!Next
    PROVE  \/ proc[y].pc \in Edit(i)!Busy /\ proc'[y].e = proc[y].e
           \/ /\ proc'[y].e \in Edit(i)!Edits
              /\ edit'[proc'[y].e].stage = "applying"
<1> DEFINE Goal == \/ proc[y].pc \in Edit(i)!Busy /\ proc'[y].e = proc[y].e
                   \/ /\ proc'[y].e \in Edit(i)!Edits
                      /\ edit'[proc'[y].e].stage = "applying"
<1> USE DEF Edit!Busy, Edit!Holding
<1>a. /\ proc \in [Editings[i].Procs -> Edit(i)!Desk]
      /\ \A x \in Editings[i].Procs : proc[x].todo \subseteq Edit(i)!Edits
      /\ edit \in [Edit(i)!Edits -> Edit(i)!Row]
  BY DEF Edit!Typed, Edit!Desk
<1>1. ASSUME NEW o \in Editings[i].Owners, Edit(i)!Start(o)
      PROVE  Goal
  BY <1>1, <1>a DEF Edit!Start, Edit!Serves, Edit!DatabaseFree
<1>2. ASSUME NEW e \in Edit(i)!Edits, NEW p \in Editings[i].Projects,
             Edit(i)!SelectProject(e, p)
      PROVE  Goal
  BY <1>2, <1>a DEF Edit!SelectProject, Edit!Set, Edit!Serves, Edit!DatabaseFree
<1>3. ASSUME NEW e \in Edit(i)!Edits, Edit(i)!ChooseRename(e)
      PROVE  Goal
  BY <1>3, <1>a DEF Edit!ChooseRename, Edit!Set, Edit!Serves, Edit!DatabaseFree
<1>4. ASSUME NEW e \in Edit(i)!Edits, NEW n \in Editings[i].Names, Edit(i)!SetName(e, n)
      PROVE  Goal
  BY <1>4, <1>a DEF Edit!SetName, Edit!Set, Edit!Serves, Edit!DatabaseFree
<1>5. ASSUME NEW e \in Edit(i)!Edits, Edit(i)!ChooseRelocation(e)
      PROVE  Goal
  BY <1>5, <1>a DEF Edit!ChooseRelocation, Edit!Set, Edit!Serves, Edit!DatabaseFree
<1>6. ASSUME NEW e \in Edit(i)!Edits, NEW r \in Editings[i].Roots,
             Edit(i)!SelectRoot(e, r)
      PROVE  Goal
  BY <1>6, <1>a DEF Edit!SelectRoot, Edit!Set, Edit!Serves, Edit!DatabaseFree
<1>7. ASSUME NEW e \in Edit(i)!Edits, Edit(i)!Cancel(e)
      PROVE  Goal
  BY <1>7, <1>a DEF Edit!Cancel, Edit!Set, Edit!Serves, Edit!DatabaseFree
<1>8. ASSUME NEW e \in Edit(i)!Edits, Edit(i)!Expire(e)
      PROVE  Goal
  BY <1>8, <1>a DEF Edit!Expire, Edit!Set, Edit!Serves, Edit!DatabaseFree
<1>9. ASSUME NEW e \in Edit(i)!Edits, Edit(i)!Confirm(e)
      PROVE  Goal
  BY <1>9, <1>a DEF Edit!Confirm, Edit!Serves, Edit!DatabaseFree, Edit!Idle
<1>10. ASSUME NEW x \in Editings[i].Procs, Edit(i)!Boot(x)
      PROVE  Goal
  BY <1>10, <1>a DEF Edit!Boot, Edit!Idle
<1>11. ASSUME NEW x \in Editings[i].Procs, Edit(i)!ReadForRecovery(x)
      PROVE  Goal
  BY <1>11, <1>a DEF Edit!ReadForRecovery, Edit!Recovered, Edit!Idle, Edit!Down
<1>12. ASSUME NEW x \in Editings[i].Procs, Edit(i)!TakeLock(x)
      PROVE  Goal
  BY <1>12, <1>a DEF Edit!TakeLock
<1>13. ASSUME NEW x \in Editings[i].Procs, Edit(i)!WriteRegistry(x)
      PROVE  Goal
  BY <1>13, <1>a DEF Edit!WriteRegistry, Edit!DatabaseFree
<1>14. ASSUME NEW x \in Editings[i].Procs, Edit(i)!Refuse(x)
      PROVE  Goal
  BY <1>14, <1>a DEF Edit!Refuse, Edit!DatabaseFree
<1>15. ASSUME NEW x \in Editings[i].Procs, Edit(i)!Commit(x)
      PROVE  Goal
  BY <1>15, <1>a
     DEF Edit!Commit, Edit!DatabaseFree, Edit!Rest, Edit!Recovering, Edit!Idle
<1>16. ASSUME NEW x \in Editings[i].Procs, Edit(i)!WriteFails(x)
      PROVE  Goal
  BY <1>16, <1>a DEF Edit!WriteFails
<1>17. ASSUME NEW x \in Editings[i].Procs, Edit(i)!RecordFailure(x)
      PROVE  Goal
  BY <1>17, <1>a
     DEF Edit!RecordFailure, Edit!DatabaseFree, Edit!Recovering, Edit!Idle,
         Edit!Down
<1>18. ASSUME NEW x \in Editings[i].Procs, Edit(i)!Crash(x)
      PROVE  Goal
  BY <1>18, <1>a DEF Edit!Crash, Edit!Down
<1>19. ASSUME NEW x \in Editings[i].Procs, NEW p \in Editings[i].Projects,
              Edit(i)!AdmitWork(x, p)
      PROVE  Goal
  BY <1>19, <1>a DEF Edit!AdmitWork, Edit!DatabaseFree, Edit!RootKnown
<1>20. ASSUME NEW p \in Editings[i].Projects, Edit(i)!FinishWork(p)
      PROVE  Goal
  BY <1>20, <1>a DEF Edit!FinishWork, Edit!DatabaseFree
<1>21. ASSUME NEW p \in Editings[i].Projects, Edit(i)!SendControl(p)
      PROVE  Goal
  BY <1>21, <1>a DEF Edit!SendControl, Edit!DatabaseFree
<1>22. ASSUME NEW r \in Editings[i].Roots, Edit(i)!QuiesceControl(r)
      PROVE  Goal
  BY <1>22, <1>a DEF Edit!QuiesceControl, Edit!DatabaseFree
<1>23. ASSUME NEW p \in Editings[i].Projects, Edit(i)!EnsureProject(p)
      PROVE  Goal
  BY <1>23, <1>a DEF Edit!EnsureProject
<1>24. ASSUME NEW p \in Editings[i].Projects, Edit(i)!BindGroup(p)
      PROVE  Goal
  BY <1>24, <1>a DEF Edit!BindGroup, Edit!DatabaseFree
<1> QED
  BY <1>1, <1>2, <1>3, <1>4, <1>5, <1>6, <1>7, <1>8, <1>9, <1>10, <1>11, <1>12,
     <1>13, <1>14, <1>15, <1>16, <1>17, <1>18, <1>19, <1>20, <1>21, <1>22, <1>23,
     <1>24
     DEF Edit!Next, Edit!Dialogue, Edit!ProcessStep

\* No two projects come to share a root.
LEMMA EditingRoots ==
    ASSUME NEW i \in DOMAIN Editings, Edit(i)!Typed, Edit(i)!EditsFit,
           Edit(i)!DesksFit, Edit(i)!RootsAreDistinct, Edit(i)!Next
    PROVE  Edit(i)!RootsAreDistinct'
<1> USE DEF Edit!RootsAreDistinct
<1>a. /\ reg \in [Editings[i].Projects -> Edit(i)!Registered]
      /\ \A x \in Editings[i].Procs : proc[x].pc \in {"locked", "wrote"} =>
            /\ edit[proc[x].e].project \in Editings[i].Projects
            /\ edit[proc[x].e].op # "relocate" =>
                  edit[proc[x].e].target.root = edit[proc[x].e].old.root
      /\ \A x \in Editings[i].Procs : proc[x].pc = "wrote" =>
            \A q \in Editings[i].Projects \ {edit[proc[x].e].project} :
               reg[q].root # edit[proc[x].e].old.root
  BY DEF Edit!Typed, Edit!DesksFit, Edit!DeskFits, Edit!Busy, Edit!Holding,
         Edit!Confirmed, Edit!Chosen, Edit!Target, Edit!Moves
<1>1. ASSUME NEW o \in Editings[i].Owners, Edit(i)!Start(o)
      PROVE  Edit(i)!RootsAreDistinct'
  BY <1>1 DEF Edit!Start, Edit!Serves, Edit!DatabaseFree
<1>2. ASSUME NEW e \in Edit(i)!Edits, NEW p \in Editings[i].Projects,
             Edit(i)!SelectProject(e, p)
      PROVE  Edit(i)!RootsAreDistinct'
  BY <1>2 DEF Edit!SelectProject, Edit!Set, Edit!Serves, Edit!DatabaseFree
<1>3. ASSUME NEW e \in Edit(i)!Edits, Edit(i)!ChooseRename(e)
      PROVE  Edit(i)!RootsAreDistinct'
  BY <1>3 DEF Edit!ChooseRename, Edit!Set, Edit!Serves, Edit!DatabaseFree
<1>4. ASSUME NEW e \in Edit(i)!Edits, NEW n \in Editings[i].Names, Edit(i)!SetName(e, n)
      PROVE  Edit(i)!RootsAreDistinct'
  BY <1>4 DEF Edit!SetName, Edit!Set, Edit!Serves, Edit!DatabaseFree
<1>5. ASSUME NEW e \in Edit(i)!Edits, Edit(i)!ChooseRelocation(e)
      PROVE  Edit(i)!RootsAreDistinct'
  BY <1>5 DEF Edit!ChooseRelocation, Edit!Set, Edit!Serves, Edit!DatabaseFree
<1>6. ASSUME NEW e \in Edit(i)!Edits, NEW r \in Editings[i].Roots,
             Edit(i)!SelectRoot(e, r)
      PROVE  Edit(i)!RootsAreDistinct'
  BY <1>6 DEF Edit!SelectRoot, Edit!Set, Edit!Serves, Edit!DatabaseFree
<1>7. ASSUME NEW e \in Edit(i)!Edits, Edit(i)!Cancel(e)
      PROVE  Edit(i)!RootsAreDistinct'
  BY <1>7 DEF Edit!Cancel, Edit!Set, Edit!Serves, Edit!DatabaseFree
<1>8. ASSUME NEW e \in Edit(i)!Edits, Edit(i)!Expire(e)
      PROVE  Edit(i)!RootsAreDistinct'
  BY <1>8 DEF Edit!Expire, Edit!Set, Edit!Serves, Edit!DatabaseFree
<1>9. ASSUME NEW e \in Edit(i)!Edits, Edit(i)!Confirm(e)
      PROVE  Edit(i)!RootsAreDistinct'
  BY <1>9 DEF Edit!Confirm, Edit!Serves, Edit!DatabaseFree, Edit!Idle
<1>10. ASSUME NEW x \in Editings[i].Procs, Edit(i)!Boot(x)
      PROVE  Edit(i)!RootsAreDistinct'
  BY <1>10 DEF Edit!Boot, Edit!Idle
<1>11. ASSUME NEW x \in Editings[i].Procs, Edit(i)!ReadForRecovery(x)
      PROVE  Edit(i)!RootsAreDistinct'
  BY <1>11 DEF Edit!ReadForRecovery, Edit!Recovered, Edit!Idle, Edit!Down
<1>12. ASSUME NEW x \in Editings[i].Procs, Edit(i)!TakeLock(x)
      PROVE  Edit(i)!RootsAreDistinct'
  BY <1>12 DEF Edit!TakeLock
<1>13. ASSUME NEW x \in Editings[i].Procs, Edit(i)!WriteRegistry(x)
      PROVE  Edit(i)!RootsAreDistinct'
  <2> DEFINE p == edit[proc[x].e].project
             t == edit[proc[x].e].target
  <2>1. p \in Editings[i].Projects /\ reg' = [reg EXCEPT ![p] = t]
    BY <1>13, <1>a DEF Edit!WriteRegistry, Edit!Target
  <2>2. \A q \in Editings[i].Projects \ {p} : reg[q].root # t.root
    BY <1>13, <1>a, <2>1
       DEF Edit!WriteRegistry, Edit!Unchanged, Edit!MayMove, Edit!TargetFree,
           Edit!Moves, Edit!Target
  <2> HIDE DEF p, t
  <2> QED
    BY <1>a, <2>1, <2>2
<1>14. ASSUME NEW x \in Editings[i].Procs, Edit(i)!Refuse(x)
      PROVE  Edit(i)!RootsAreDistinct'
  BY <1>14 DEF Edit!Refuse, Edit!DatabaseFree
<1>15. ASSUME NEW x \in Editings[i].Procs, Edit(i)!Commit(x)
      PROVE  Edit(i)!RootsAreDistinct'
  BY <1>15 DEF Edit!Commit, Edit!DatabaseFree, Edit!Rest, Edit!Recovering, Edit!Idle
<1>16. ASSUME NEW x \in Editings[i].Procs, Edit(i)!WriteFails(x)
      PROVE  Edit(i)!RootsAreDistinct'
  <2> DEFINE p == edit[proc[x].e].project
             t == edit[proc[x].e].old
  <2>1. p \in Editings[i].Projects /\ reg' = [reg EXCEPT ![p] = t]
    BY <1>16, <1>a DEF Edit!WriteFails
  <2>2. \A q \in Editings[i].Projects \ {p} : reg[q].root # t.root
    BY <1>16, <1>a, <2>1 DEF Edit!WriteFails
  <2> HIDE DEF p, t
  <2> QED
    BY <1>a, <2>1, <2>2
<1>17. ASSUME NEW x \in Editings[i].Procs, Edit(i)!RecordFailure(x)
      PROVE  Edit(i)!RootsAreDistinct'
  BY <1>17
     DEF Edit!RecordFailure, Edit!DatabaseFree, Edit!Recovering, Edit!Idle,
         Edit!Down
<1>18. ASSUME NEW x \in Editings[i].Procs, Edit(i)!Crash(x)
      PROVE  Edit(i)!RootsAreDistinct'
  BY <1>18 DEF Edit!Crash, Edit!Down
<1>19. ASSUME NEW x \in Editings[i].Procs, NEW p \in Editings[i].Projects,
              Edit(i)!AdmitWork(x, p)
      PROVE  Edit(i)!RootsAreDistinct'
  BY <1>19 DEF Edit!AdmitWork, Edit!DatabaseFree, Edit!RootKnown
<1>20. ASSUME NEW p \in Editings[i].Projects, Edit(i)!FinishWork(p)
      PROVE  Edit(i)!RootsAreDistinct'
  BY <1>20 DEF Edit!FinishWork, Edit!DatabaseFree
<1>21. ASSUME NEW p \in Editings[i].Projects, Edit(i)!SendControl(p)
      PROVE  Edit(i)!RootsAreDistinct'
  BY <1>21 DEF Edit!SendControl, Edit!DatabaseFree
<1>22. ASSUME NEW r \in Editings[i].Roots, Edit(i)!QuiesceControl(r)
      PROVE  Edit(i)!RootsAreDistinct'
  BY <1>22 DEF Edit!QuiesceControl, Edit!DatabaseFree
<1>23. ASSUME NEW p \in Editings[i].Projects, Edit(i)!EnsureProject(p)
      PROVE  Edit(i)!RootsAreDistinct'
  BY <1>23 DEF Edit!EnsureProject
<1>24. ASSUME NEW p \in Editings[i].Projects, Edit(i)!BindGroup(p)
      PROVE  Edit(i)!RootsAreDistinct'
  BY <1>24 DEF Edit!BindGroup, Edit!DatabaseFree
<1> QED
  BY <1>1, <1>2, <1>3, <1>4, <1>5, <1>6, <1>7, <1>8, <1>9, <1>10, <1>11, <1>12,
     <1>13, <1>14, <1>15, <1>16, <1>17, <1>18, <1>19, <1>20, <1>21, <1>22, <1>23,
     <1>24
     DEF Edit!Next, Edit!Dialogue, Edit!ProcessStep

\* A process knows what it wrote, and that the project was idle.
LEMMA EditingDesks ==
    ASSUME NEW i \in DOMAIN Editings, Edit(i)!EditingInv, Edit(i)!Next
    PROVE  Edit(i)!DesksFit'
<1> USE DEF Edit!EditingInv
<1> SUFFICES ASSUME NEW y \in Editings[i].Procs PROVE Edit(i)!DeskFits(y)'
  BY DEF Edit!DesksFit
<1>1. ASSUME proc'[y].pc \in Edit(i)!Busy
      PROVE  proc'[y].e \in Edit(i)!Edits /\ Edit(i)!Confirmed(proc[y].e)'
  <2>1. CASE proc[y].pc \in Edit(i)!Busy /\ proc'[y].e = proc[y].e
    <3>1. proc[y].e \in Edit(i)!Edits /\ Edit(i)!Confirmed(proc[y].e)
      BY <2>1 DEF Edit!DesksFit, Edit!DeskFits
    <3> QED
      BY <2>1, <3>1, EditingKept
         DEF Edit!Confirmed, Edit!Chosen, Edit!Target, Edit!Moves
  <2>2. CASE proc'[y].e \in Edit(i)!Edits /\ edit'[proc'[y].e].stage = "applying"
    <3>1. \A f \in Edit(i)!Edits : Edit(i)!EditFits(f)'
      BY EditingEdits
    <3> QED
      BY <2>2, <3>1 DEF Edit!EditFits
  <2> QED
    BY <1>1, <2>1, <2>2, EditingBusy
<1>2. ASSUME proc'[y].pc = "wrote"
      PROVE  /\ proc'[y].e = proc[y].e
             /\ reg'[edit'[proc[y].e].project] = edit'[proc[y].e].target
             /\ \A q \in Editings[i].Projects \ {edit'[proc[y].e].project} :
                   reg'[q].root # edit'[proc[y].e].old.root
             /\ edit'[proc[y].e].op = "relocate" =>
                   edWork'[edit'[proc[y].e].project] = Edit(i)!None
  <2>0. /\ proc \in [Editings[i].Procs -> Edit(i)!Desk]
        /\ reg \in [Editings[i].Projects -> Edit(i)!Registered]
    BY DEF Edit!Typed
  <2>1. CASE Edit(i)!WriteRegistry(y)
    <3>1. edit[proc[y].e].project \in Editings[i].Projects
      BY <2>1
         DEF Edit!WriteRegistry, Edit!DesksFit, Edit!DeskFits, Edit!Busy,
             Edit!Holding, Edit!Confirmed, Edit!Chosen
    <3>2. /\ edit' = edit /\ edWork' = edWork /\ proc'[y].e = proc[y].e
          /\ reg[edit[proc[y].e].project] = edit[proc[y].e].old
          /\ reg' = [reg EXCEPT ![edit[proc[y].e].project] = edit[proc[y].e].target]
          /\ edit[proc[y].e].op = "relocate" => edWork[edit[proc[y].e].project] = Edit(i)!None
      BY <2>0, <2>1 DEF Edit!WriteRegistry, Edit!Unchanged, Edit!MayMove, Edit!Moves, Edit!Target
    <3>3. \A q \in Editings[i].Projects \ {edit[proc[y].e].project} :
             reg[q].root # edit[proc[y].e].old.root
      BY <3>1, <3>2 DEF Edit!RootsAreDistinct
    <3> QED
      BY <2>0, <3>1, <3>2, <3>3
  <2>2. CASE proc'[y] = proc[y] /\ UNCHANGED <<edit, reg, bind, scope, edWork>>
    <3>1. proc[y].pc = "wrote" /\ Edit(i)!DeskFits(y)
      BY <1>2, <2>2 DEF Edit!DesksFit
    <3> QED
      BY <2>2, <3>1 DEF Edit!DeskFits, Edit!Written, Edit!Moves, Edit!Target
  <2> QED
    BY <1>2, <2>1, <2>2, EditingWrote
<1> QED
  BY <1>1, <1>2 DEF Edit!DeskFits, Edit!Written, Edit!Moves, Edit!Target

\* Only a commit completes an edit.
LEMMA EditingCommits ==
    ASSUME NEW i \in DOMAIN Editings, Edit(i)!Typed, NEW f \in Edit(i)!Edits,
           edit[f].stage = "applying",
           edit'[f].stage = "completed", Edit(i)!Next
    PROVE  \E y \in Editings[i].Procs : Edit(i)!Commit(y) /\ proc[y].e = f
<1> USE DEF Edit!WizardStages
<1>a. edit \in [Edit(i)!Edits -> Edit(i)!Row]
  BY DEF Edit!Typed
<1>1. ASSUME NEW o \in Editings[i].Owners, Edit(i)!Start(o)
      PROVE  \E y \in Editings[i].Procs : Edit(i)!Commit(y) /\ proc[y].e = f
  BY <1>1, <1>a DEF Edit!Start, Edit!Serves, Edit!DatabaseFree
<1>2. ASSUME NEW e \in Edit(i)!Edits, NEW p \in Editings[i].Projects,
             Edit(i)!SelectProject(e, p)
      PROVE  \E y \in Editings[i].Procs : Edit(i)!Commit(y) /\ proc[y].e = f
  BY <1>2, <1>a DEF Edit!SelectProject, Edit!Set, Edit!Serves, Edit!DatabaseFree
<1>3. ASSUME NEW e \in Edit(i)!Edits, Edit(i)!ChooseRename(e)
      PROVE  \E y \in Editings[i].Procs : Edit(i)!Commit(y) /\ proc[y].e = f
  BY <1>3, <1>a DEF Edit!ChooseRename, Edit!Set, Edit!Serves, Edit!DatabaseFree
<1>4. ASSUME NEW e \in Edit(i)!Edits, NEW n \in Editings[i].Names, Edit(i)!SetName(e, n)
      PROVE  \E y \in Editings[i].Procs : Edit(i)!Commit(y) /\ proc[y].e = f
  BY <1>4, <1>a DEF Edit!SetName, Edit!Set, Edit!Serves, Edit!DatabaseFree
<1>5. ASSUME NEW e \in Edit(i)!Edits, Edit(i)!ChooseRelocation(e)
      PROVE  \E y \in Editings[i].Procs : Edit(i)!Commit(y) /\ proc[y].e = f
  BY <1>5, <1>a DEF Edit!ChooseRelocation, Edit!Set, Edit!Serves, Edit!DatabaseFree
<1>6. ASSUME NEW e \in Edit(i)!Edits, NEW r \in Editings[i].Roots,
             Edit(i)!SelectRoot(e, r)
      PROVE  \E y \in Editings[i].Procs : Edit(i)!Commit(y) /\ proc[y].e = f
  BY <1>6, <1>a DEF Edit!SelectRoot, Edit!Set, Edit!Serves, Edit!DatabaseFree
<1>7. ASSUME NEW e \in Edit(i)!Edits, Edit(i)!Cancel(e)
      PROVE  \E y \in Editings[i].Procs : Edit(i)!Commit(y) /\ proc[y].e = f
  BY <1>7, <1>a DEF Edit!Cancel, Edit!Set, Edit!Serves, Edit!DatabaseFree
<1>8. ASSUME NEW e \in Edit(i)!Edits, Edit(i)!Expire(e)
      PROVE  \E y \in Editings[i].Procs : Edit(i)!Commit(y) /\ proc[y].e = f
  BY <1>8, <1>a DEF Edit!Expire, Edit!Set, Edit!Serves, Edit!DatabaseFree
<1>9. ASSUME NEW e \in Edit(i)!Edits, Edit(i)!Confirm(e)
      PROVE  \E y \in Editings[i].Procs : Edit(i)!Commit(y) /\ proc[y].e = f
  BY <1>9, <1>a DEF Edit!Confirm, Edit!Serves, Edit!DatabaseFree, Edit!Idle
<1>10. ASSUME NEW x \in Editings[i].Procs, Edit(i)!Boot(x)
      PROVE  \E y \in Editings[i].Procs : Edit(i)!Commit(y) /\ proc[y].e = f
  BY <1>10, <1>a DEF Edit!Boot, Edit!Idle
<1>11. ASSUME NEW x \in Editings[i].Procs, Edit(i)!ReadForRecovery(x)
      PROVE  \E y \in Editings[i].Procs : Edit(i)!Commit(y) /\ proc[y].e = f
  BY <1>11, <1>a DEF Edit!ReadForRecovery, Edit!Recovered, Edit!Idle, Edit!Down
<1>12. ASSUME NEW x \in Editings[i].Procs, Edit(i)!TakeLock(x)
      PROVE  \E y \in Editings[i].Procs : Edit(i)!Commit(y) /\ proc[y].e = f
  BY <1>12, <1>a DEF Edit!TakeLock
<1>13. ASSUME NEW x \in Editings[i].Procs, Edit(i)!WriteRegistry(x)
      PROVE  \E y \in Editings[i].Procs : Edit(i)!Commit(y) /\ proc[y].e = f
  BY <1>13, <1>a DEF Edit!WriteRegistry, Edit!DatabaseFree
<1>14. ASSUME NEW x \in Editings[i].Procs, Edit(i)!Refuse(x)
      PROVE  \E y \in Editings[i].Procs : Edit(i)!Commit(y) /\ proc[y].e = f
  BY <1>14, <1>a DEF Edit!Refuse, Edit!DatabaseFree
<1>15. ASSUME NEW x \in Editings[i].Procs, Edit(i)!Commit(x)
      PROVE  \E y \in Editings[i].Procs : Edit(i)!Commit(y) /\ proc[y].e = f
  BY <1>15, <1>a
     DEF Edit!Commit, Edit!DatabaseFree, Edit!Rest, Edit!Recovering, Edit!Idle
<1>16. ASSUME NEW x \in Editings[i].Procs, Edit(i)!WriteFails(x)
      PROVE  \E y \in Editings[i].Procs : Edit(i)!Commit(y) /\ proc[y].e = f
  BY <1>16, <1>a DEF Edit!WriteFails
<1>17. ASSUME NEW x \in Editings[i].Procs, Edit(i)!RecordFailure(x)
      PROVE  \E y \in Editings[i].Procs : Edit(i)!Commit(y) /\ proc[y].e = f
  BY <1>17, <1>a
     DEF Edit!RecordFailure, Edit!DatabaseFree, Edit!Recovering, Edit!Idle,
         Edit!Down
<1>18. ASSUME NEW x \in Editings[i].Procs, Edit(i)!Crash(x)
      PROVE  \E y \in Editings[i].Procs : Edit(i)!Commit(y) /\ proc[y].e = f
  BY <1>18, <1>a DEF Edit!Crash, Edit!Down
<1>19. ASSUME NEW x \in Editings[i].Procs, NEW p \in Editings[i].Projects,
              Edit(i)!AdmitWork(x, p)
      PROVE  \E y \in Editings[i].Procs : Edit(i)!Commit(y) /\ proc[y].e = f
  BY <1>19, <1>a DEF Edit!AdmitWork, Edit!DatabaseFree, Edit!RootKnown
<1>20. ASSUME NEW p \in Editings[i].Projects, Edit(i)!FinishWork(p)
      PROVE  \E y \in Editings[i].Procs : Edit(i)!Commit(y) /\ proc[y].e = f
  BY <1>20, <1>a DEF Edit!FinishWork, Edit!DatabaseFree
<1>21. ASSUME NEW p \in Editings[i].Projects, Edit(i)!SendControl(p)
      PROVE  \E y \in Editings[i].Procs : Edit(i)!Commit(y) /\ proc[y].e = f
  BY <1>21, <1>a DEF Edit!SendControl, Edit!DatabaseFree
<1>22. ASSUME NEW r \in Editings[i].Roots, Edit(i)!QuiesceControl(r)
      PROVE  \E y \in Editings[i].Procs : Edit(i)!Commit(y) /\ proc[y].e = f
  BY <1>22, <1>a DEF Edit!QuiesceControl, Edit!DatabaseFree
<1>23. ASSUME NEW p \in Editings[i].Projects, Edit(i)!EnsureProject(p)
      PROVE  \E y \in Editings[i].Procs : Edit(i)!Commit(y) /\ proc[y].e = f
  BY <1>23, <1>a DEF Edit!EnsureProject
<1>24. ASSUME NEW p \in Editings[i].Projects, Edit(i)!BindGroup(p)
      PROVE  \E y \in Editings[i].Procs : Edit(i)!Commit(y) /\ proc[y].e = f
  BY <1>24, <1>a DEF Edit!BindGroup, Edit!DatabaseFree
<1> QED
  BY <1>1, <1>2, <1>3, <1>4, <1>5, <1>6, <1>7, <1>8, <1>9, <1>10, <1>11, <1>12,
     <1>13, <1>14, <1>15, <1>16, <1>17, <1>18, <1>19, <1>20, <1>21, <1>22, <1>23,
     <1>24
     DEF Edit!Next, Edit!Dialogue, Edit!ProcessStep

\* Every step keeps the invariant.
LEMMA EditingStep ==
    ASSUME NEW i \in DOMAIN Editings, Edit(i)!EditingInv, Edit(i)!Next
    PROVE  Edit(i)!EditingInv'
<1>1. Edit(i)!Typed' /\ Edit(i)!LockIsHeld' /\ Edit(i)!RootsAreDistinct'
  BY EditingTyped, EditingLock, EditingRoots DEF Edit!EditingInv
<1>2. Edit(i)!EditsFit'
  <2>1. \A f \in Edit(i)!Edits : Edit(i)!EditFits(f)'
    BY EditingEdits DEF Edit!EditingInv
  <2> QED
    BY <2>1 DEF Edit!EditsFit
<1>3. Edit(i)!DesksFit'
  BY EditingDesks
<1> QED
  BY <1>1, <1>2, <1>3 DEF Edit!EditingInv

\* An edit is recorded as completed when its entry is written.
LEMMA EditingCompletes ==
    ASSUME NEW i \in DOMAIN Editings, Edit(i)!EditingInv, Edit(i)!Next
    PROVE  Edit(i)!CompletedIsApplied
<1> SUFFICES ASSUME NEW e \in Edit(i)!Edits, edit[e].stage = "applying",
                    edit'[e].stage = "completed"
             PROVE  reg'[edit[e].project] = Edit(i)!Target(e)
  BY DEF Edit!CompletedIsApplied
<1>1. edit \in [Edit(i)!Edits -> Edit(i)!Row]
  BY DEF Edit!EditingInv, Edit!Typed
<1>2. PICK x \in Editings[i].Procs : Edit(i)!Commit(x) /\ proc[x].e = e
  BY EditingCommits DEF Edit!EditingInv
<1>3. Edit(i)!Written(e) /\ reg' = reg
  BY <1>2 DEF Edit!Commit, Edit!EditingInv, Edit!DesksFit, Edit!DeskFits
<1> QED
  BY <1>3 DEF Edit!Written

\* Only a commit moves topics, and only a write or its undoing moves the registry.
LEMMA EditingChanges ==
    ASSUME NEW i \in DOMAIN Editings, Edit(i)!Next
    PROVE  /\ scope' = scope \/ \E x \in Editings[i].Procs : Edit(i)!Commit(x)
           /\ reg' = reg \/ \E x \in Editings[i].Procs : Edit(i)!WriteRegistry(x) \/ Edit(i)!WriteFails(x)
<1>1. Edit(i)!Dialogue => UNCHANGED <<scope, reg>>
  BY DEF Edit!Dialogue, Edit!Start, Edit!SelectProject, Edit!ChooseRename, Edit!SetName,
         Edit!ChooseRelocation, Edit!SelectRoot, Edit!Cancel, Edit!Expire, Edit!Confirm, Edit!Set
<1>2. ASSUME NEW x \in Editings[i].Procs, Edit(i)!ProcessStep(x)
      PROVE  /\ scope' = scope \/ Edit(i)!Commit(x)
             /\ reg' = reg \/ Edit(i)!WriteRegistry(x)
  <2>1. Edit(i)!WriteRegistry(x) => scope' = scope
    BY DEF Edit!WriteRegistry
  <2>2. Edit(i)!Commit(x) => reg' = reg
    BY DEF Edit!Commit
  <2>3. \/ Edit(i)!Boot(x) \/ Edit(i)!ReadForRecovery(x) \/ Edit(i)!TakeLock(x)
        \/ Edit(i)!Refuse(x) \/ Edit(i)!RecordFailure(x)
        => UNCHANGED <<scope, reg>>
    BY DEF Edit!Boot, Edit!ReadForRecovery, Edit!TakeLock, Edit!Refuse, Edit!RecordFailure
  <2> QED
    BY <1>2, <2>1, <2>2, <2>3 DEF Edit!ProcessStep
<1>3. \A x \in Editings[i].Procs : Edit(i)!WriteFails(x) => scope' = scope
  BY DEF Edit!WriteFails
<1>4. \A x \in Editings[i].Procs :
         Edit(i)!Crash(x) \/ (\E p \in Editings[i].Projects : Edit(i)!AdmitWork(x, p))
         => UNCHANGED <<scope, reg>>
  BY DEF Edit!Crash, Edit!AdmitWork
<1>5. \A p \in Editings[i].Projects :
         \/ Edit(i)!FinishWork(p) \/ Edit(i)!SendControl(p)
         \/ Edit(i)!EnsureProject(p) \/ Edit(i)!BindGroup(p)
         => UNCHANGED <<scope, reg>>
  BY DEF Edit!FinishWork, Edit!SendControl, Edit!EnsureProject, Edit!BindGroup
<1>6. \A r \in Editings[i].Roots : Edit(i)!QuiesceControl(r) => UNCHANGED <<scope, reg>>
  BY DEF Edit!QuiesceControl
<1> QED
  BY <1>1, <1>2, <1>3, <1>4, <1>5, <1>6 DEF Edit!Next

\* A commit finds its entry written and a binding it may move, so what it moves
\* agrees with the registry.
LEMMA EditingFollows ==
    ASSUME NEW i \in DOMAIN Editings, Edit(i)!EditingInv, Edit(i)!Next
    PROVE  Edit(i)!MovesTogether
<1> SUFFICES ASSUME NEW p \in Editings[i].Projects, scope'[p] # scope[p]
             PROVE  scope'[p] = reg'[p].root /\ bind'[p] \in {Edit(i)!None, reg'[p].root}
  BY DEF Edit!MovesTogether
<1>1. PICK x \in Editings[i].Procs : Edit(i)!Commit(x)
  BY EditingChanges
<1> DEFINE e == proc[x].e
<1>2. /\ scope \in [Editings[i].Projects -> Editings[i].Roots]
      /\ bind \in [Editings[i].Projects -> Editings[i].Roots \cup {Edit(i)!None}]
  BY DEF Edit!EditingInv, Edit!Typed
<1>3. Edit(i)!Written(e) /\ Edit(i)!BindingFits(e) /\ reg' = reg
  BY <1>1 DEF Edit!Commit, Edit!MayApply, Edit!EditingInv, Edit!DesksFit, Edit!DeskFits
<1>4. /\ Edit(i)!Moves(e)
      /\ scope' = [scope EXCEPT ![edit[e].project] = Edit(i)!Target(e).root]
      /\ bind' = Edit(i)!BindingMoved(e)
  BY <1>1 DEF Edit!Commit, Edit!ScopesMoved
<1> HIDE DEF e
<1>5. p = edit[e].project /\ scope'[p] = Edit(i)!Target(e).root
  BY <1>2, <1>4
<1>6. reg'[p].root = Edit(i)!Target(e).root
  BY <1>3, <1>5 DEF Edit!Written
<1>7. bind'[p] \in {Edit(i)!None, Edit(i)!Target(e).root}
  BY <1>2, <1>3, <1>4, <1>5 DEF Edit!BindingFits, Edit!BindingMoved
<1> QED
  BY <1>5, <1>6, <1>7

\* A write asked whether the project is idle, and an undoing is inside the
\* transaction of its write.
LEMMA EditingIdle ==
    ASSUME NEW i \in DOMAIN Editings, Edit(i)!EditingInv, Edit(i)!Next
    PROVE  Edit(i)!FileMovesIdle
<1> SUFFICES ASSUME NEW p \in Editings[i].Projects, reg'[p].root # reg[p].root
             PROVE  edWork[p] = Edit(i)!None
  BY DEF Edit!FileMovesIdle
<1>1. PICK x \in Editings[i].Procs : Edit(i)!WriteRegistry(x) \/ Edit(i)!WriteFails(x)
  BY EditingChanges
<1> DEFINE e == proc[x].e
<1>2. reg \in [Editings[i].Projects -> Edit(i)!Registered]
  BY DEF Edit!EditingInv, Edit!Typed
<1>3. Edit(i)!Confirmed(e) /\ Edit(i)!DeskFits(x)
  BY <1>1
     DEF Edit!WriteRegistry, Edit!WriteFails, Edit!EditingInv, Edit!DesksFit,
         Edit!DeskFits, Edit!Busy, Edit!Holding
<1>4. CASE Edit(i)!WriteRegistry(x)
  <2>1. /\ Edit(i)!Unchanged(e) /\ Edit(i)!MayMove(e)
        /\ reg' = [reg EXCEPT ![edit[e].project] = Edit(i)!Target(e)]
    BY <1>4 DEF Edit!WriteRegistry
  <2> HIDE DEF e
  <2>2. p = edit[e].project /\ Edit(i)!Target(e).root # edit[e].old.root
    BY <1>2, <2>1 DEF Edit!Unchanged
  <2> QED
    BY <1>3, <2>1, <2>2 DEF Edit!Confirmed, Edit!MayMove
<1>5. CASE Edit(i)!WriteFails(x)
  <2>1. /\ Edit(i)!Written(e)
        /\ Edit(i)!Moves(e) => edWork[edit[e].project] = Edit(i)!None
        /\ reg' = [reg EXCEPT ![edit[e].project] = edit[e].old]
    BY <1>3, <1>5 DEF Edit!WriteFails, Edit!DeskFits
  <2> HIDE DEF e
  <2>2. p = edit[e].project /\ Edit(i)!Target(e).root # edit[e].old.root
    BY <1>2, <2>1 DEF Edit!Written
  <2> QED
    BY <1>3, <2>1, <2>2 DEF Edit!Confirmed
<1> QED
  BY <1>1, <1>4, <1>5

\* The registry and the database start out in agreement, with no edit begun.
LEMMA EditingOpens ==
    ASSUME NEW i \in DOMAIN Editings, Edit(i)!Init
    PROVE  Edit(i)!EditingInv
<1>1. PICK name \in Editings[i].Names :
         \E root \in [Editings[i].Projects -> Editings[i].Roots] :
         /\ \A p, q \in Editings[i].Projects : p # q => root[p] # root[q]
         /\ reg = [p \in Editings[i].Projects |-> [name |-> name, root |-> root[p]]]
         /\ scope = root
         /\ \E bound \in SUBSET Editings[i].Projects :
               bind = [p \in Editings[i].Projects |-> IF p \in bound THEN root[p] ELSE Edit(i)!None]
  BY DEF Edit!Init
<1>2. /\ edit = [e \in Edit(i)!Edits |-> Edit(i)!NoEdit]
      /\ edWork = [p \in Editings[i].Projects |-> Edit(i)!None]
      /\ edControl = {} /\ joining = [p \in Editings[i].Projects |-> Edit(i)!None]
      /\ proc = [x \in Editings[i].Procs |-> Edit(i)!Idle] /\ lock = Edit(i)!None
  BY DEF Edit!Init
<1>3. Edit(i)!Typed
  <2>0. scope \in [Editings[i].Projects -> Editings[i].Roots]
      /\ bind \in [Editings[i].Projects -> Editings[i].Roots \cup {Edit(i)!None}]
    BY <1>1
  <2>1. reg \in [Editings[i].Projects -> Edit(i)!Registered]
    BY <1>1 DEF Edit!Registered
  <2> QED
    BY <1>2, <2>0, <2>1, EditingRow, EditingDesk DEF Edit!Typed
<1>4. Edit(i)!LockIsHeld /\ Edit(i)!DesksFit
  BY <1>2, EditingAllowed
     DEF Edit!LockIsHeld, Edit!DesksFit, Edit!DeskFits, Edit!Busy, Edit!Holding,
         Edit!Idle
<1>5. Edit(i)!EditsFit
  <2>1. /\ Edit(i)!NoEdit.stage = "unused" /\ Edit(i)!NoEdit.project = Edit(i)!None
        /\ Edit(i)!NoEdit.target = Edit(i)!NoEntry
    BY DEF Edit!NoEdit
  <2> QED
    BY <1>2, <2>1 DEF Edit!EditsFit, Edit!EditFits, Edit!Target
<1>6. Edit(i)!RootsAreDistinct
  BY <1>1 DEF Edit!RootsAreDistinct
<1> QED
  BY <1>3, <1>4, <1>5, <1>6 DEF Edit!EditingInv

\* What the properties ask for follows from the invariants.
LEMMA EditingTypeOK ==
    ASSUME NEW i \in DOMAIN Editings, Edit(i)!EditingInv
    PROVE  Edit(i)!TypeOK
<1>1. \A e \in Edit(i)!Edits :
         /\ edit[e].stage \in Edit(i)!EditStages
         /\ edit[e].owner \in Editings[i].Owners \cup {Edit(i)!None}
         /\ edit[e].project \in Editings[i].Projects \cup {Edit(i)!None}
  BY EditingFields DEF Edit!EditingInv
<1> QED
  BY <1>1
     DEF Edit!TypeOK, Edit!EditingInv, Edit!Typed, Edit!LockIsHeld, Edit!Holding,
         Edit!Registered, Edit!EditStages

\* A step of another component leaves the invariant as it is.
LEMMA EditingRests ==
    ASSUME NEW i \in DOMAIN Editings, Edit(i)!EditingInv, UNCHANGED ProjectEditingVars
    PROVE  Edit(i)!EditingInv'
<1> USE DEF ProjectEditingVars
<1>1. Edit(i)!Typed' /\ Edit(i)!LockIsHeld' /\ Edit(i)!EditsFit' /\ Edit(i)!RootsAreDistinct'
  BY DEF Edit!EditingInv, Edit!Typed, Edit!LockIsHeld, Edit!EditsFit, Edit!EditFits,
         Edit!RootsAreDistinct, Edit!Target, Edit!Moves, Edit!Chosen, Edit!Confirmed
<1>2. Edit(i)!DesksFit'
  BY DEF Edit!EditingInv, Edit!DesksFit, Edit!DeskFits, Edit!Written, Edit!Target,
         Edit!Moves, Edit!Chosen, Edit!Confirmed
<1> QED
  BY <1>1, <1>2 DEF Edit!EditingInv

-----------------------------------------------------------------------------
\* Whichever processes apply, recover, serve and die: two projects never share a
\* directory, an edit recorded as completed is in the registry, the topics and
\* the binding of a project move only together and to the directory the registry
\* names, and the registry is changed only while the project has no unfinished
\* work (project_editing.py).
THEOREM RegistryIsSound ==
    Spec => EditsAreWhole
<1> DEFINE Inv == \A i \in DOMAIN Editings : Runs("editing", i) => Edit(i)!EditingInv
           Good == \A i \in DOMAIN Editings : Runs("editing", i) =>
                      Edit(i)!TypeOK /\ Edit(i)!RootsAreDistinct
           Steps == \A i \in DOMAIN Editings : Runs("editing", i) =>
                      /\ Edit(i)!CompletedIsApplied
                      /\ Edit(i)!MovesTogether
                      /\ Edit(i)!FileMovesIdle
<1>1. Init => Inv
  BY EditingOpens DEF Init, Runs
<1>2. Inv /\ [Next]_vars => Inv'
  <2>1. ASSUME Inv, Next PROVE Inv'
    BY <2>1, EditingStep, EditingRests DEF Next, Runs
  <2>2. ASSUME Inv, UNCHANGED vars PROVE Inv'
    BY <2>2, EditingRests DEF vars, Runs
  <2> QED
    BY <2>1, <2>2
<1>3. Inv => Good
  BY EditingTypeOK DEF Runs, Edit!EditingInv
<1>4. Inv /\ [Next]_vars => [Steps]_vars
  BY EditingCompletes, EditingFollows, EditingIdle DEF Next, Runs
<1> QED
  BY <1>1, <1>2, <1>3, <1>4, PTL DEF Spec, EditsAreWhole

==============================================================================
