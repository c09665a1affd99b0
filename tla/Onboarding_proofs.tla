------------------------- MODULE Onboarding_proofs --------------------------
(***************************************************************************)
(* Proof of what creating a project's group promises (Onboarding), for     *)
(* every number of instances and every value of their constants.  First    *)
(* what the ways a step can end (parked, moved on, returned) do to a row   *)
(* and to the provisioner; then, per conjunct of OnboardingInv, that every *)
(* action keeps it; then the theorem.                                      *)
(***************************************************************************)
EXTENDS MCHub, TLAPS

\* The constants of every instance meet the module's assumption.
LEMMA OnboardingAllowed ==
    ASSUME NEW i \in DOMAIN Onboardings
    PROVE  Onb(i)!OnboardingBounds
BY InstancesAllowed

\* Whatever a handler writes into a row is a row.
LEMMA OnboardingRow ==
    ASSUME NEW i \in DOMAIN Onboardings
    PROVE  /\ Onb(i)!NoWorkflow \in Onb(i)!Row
           /\ \A r \in Onb(i)!Row :
                /\ r.stage \in Onb(i)!Stages
                /\ \A s \in Onb(i)!Stages : [r EXCEPT !.stage = s] \in Onb(i)!Row
                /\ \A l \in {"none", "live", "expired"} :
                      [r EXCEPT !.lease = l] \in Onb(i)!Row
                /\ \A u \in {"none", "configuring_group", "preparing_root"} :
                      [r EXCEPT !.resume = u] \in Onb(i)!Row
                /\ \A p \in Onboardings[i].Projects : [r EXCEPT !.project = p] \in Onb(i)!Row
                /\ \A n \in Nat : [r EXCEPT !.snapshot = n] \in Onb(i)!Row
                /\ \A c \in Onb(i)!Groups : [r EXCEPT !.chat = c] \in Onb(i)!Row
                /\ \A o \in Onboardings[i].Owners : [r EXCEPT !.owner = o] \in Onb(i)!Row
                /\ [r EXCEPT !.fresh = FALSE] \in Onb(i)!Row
<1>1. Onb(i)!NoWorkflow \in Onb(i)!Row
  BY DEF Onb!Row, Onb!NoWorkflow, Onb!None, Onb!NoChat, Onb!Stages
<1>2. ASSUME NEW r \in Onb(i)!Row PROVE r.stage \in Onb(i)!Stages
  BY DEF Onb!Row
<1>3. ASSUME NEW r \in Onb(i)!Row, NEW s \in Onb(i)!Stages
      PROVE  [r EXCEPT !.stage = s] \in Onb(i)!Row
  BY DEF Onb!Row
<1>4. ASSUME NEW r \in Onb(i)!Row, NEW l \in {"none", "live", "expired"}
      PROVE  [r EXCEPT !.lease = l] \in Onb(i)!Row
  BY DEF Onb!Row, Onb!None
<1>5. ASSUME NEW r \in Onb(i)!Row,
             NEW u \in {"none", "configuring_group", "preparing_root"}
      PROVE  [r EXCEPT !.resume = u] \in Onb(i)!Row
  BY DEF Onb!Row, Onb!None
<1>6. ASSUME NEW r \in Onb(i)!Row, NEW p \in Onboardings[i].Projects
      PROVE  [r EXCEPT !.project = p] \in Onb(i)!Row
  BY DEF Onb!Row
<1>7. ASSUME NEW r \in Onb(i)!Row, NEW n \in Nat
      PROVE  [r EXCEPT !.snapshot = n] \in Onb(i)!Row
  BY DEF Onb!Row
<1>8. ASSUME NEW r \in Onb(i)!Row, NEW c \in Onb(i)!Groups
      PROVE  [r EXCEPT !.chat = c] \in Onb(i)!Row
  BY DEF Onb!Row
<1>9. ASSUME NEW r \in Onb(i)!Row, NEW o \in Onboardings[i].Owners
      PROVE  [r EXCEPT !.owner = o] \in Onb(i)!Row
  BY DEF Onb!Row
<1>10. ASSUME NEW r \in Onb(i)!Row PROVE [r EXCEPT !.fresh = FALSE] \in Onb(i)!Row
  BY DEF Onb!Row
<1> QED
  BY <1>1, <1>2, <1>3, <1>4, <1>5, <1>6, <1>7, <1>8, <1>9, <1>10

\* The same of the provisioner's own state.
LEMMA OnboardingDesk ==
    ASSUME NEW i \in DOMAIN Onboardings
    PROVE  /\ Onb(i)!Idle \in Onb(i)!Desk
           /\ \A d \in Onb(i)!Desk :
                /\ \A c \in {"idle", "check", "root", "connect", "create", "creating", "created",
                             "configure", "register", "bind"} :
                      [d EXCEPT !.pc = c] \in Onb(i)!Desk
                /\ \A w \in Onb(i)!Workflows : [d EXCEPT !.w = w] \in Onb(i)!Desk
                /\ [d EXCEPT !.todo = Onb(i)!Parts] \in Onb(i)!Desk
                /\ [d EXCEPT !.todo = {}] \in Onb(i)!Desk
                /\ \A x : [d EXCEPT !.todo = d.todo \ {x}] \in Onb(i)!Desk
<1>1. Onb(i)!Idle \in Onb(i)!Desk
  BY DEF Onb!Idle, Onb!Desk, Onb!StagesAt
<1>2. ASSUME NEW d \in Onb(i)!Desk,
             NEW c \in {"idle", "check", "root", "connect", "create", "creating", "created",
                        "configure", "register", "bind"}
      PROVE  [d EXCEPT !.pc = c] \in Onb(i)!Desk
  <2>1. c \in DOMAIN Onb(i)!StagesAt
    BY DEF Onb!StagesAt
  <2> QED
    BY <2>1 DEF Onb!Desk
<1>3. ASSUME NEW d \in Onb(i)!Desk, NEW w \in Onb(i)!Workflows
      PROVE  [d EXCEPT !.w = w] \in Onb(i)!Desk
  BY DEF Onb!Desk
<1>4. ASSUME NEW d \in Onb(i)!Desk
      PROVE  /\ [d EXCEPT !.todo = Onb(i)!Parts] \in Onb(i)!Desk
             /\ [d EXCEPT !.todo = {}] \in Onb(i)!Desk
  BY DEF Onb!Desk
<1>5. ASSUME NEW d \in Onb(i)!Desk, NEW x
      PROVE  [d EXCEPT !.todo = d.todo \ {x}] \in Onb(i)!Desk
  BY DEF Onb!Desk
<1> QED
  BY <1>1, <1>2, <1>3, <1>4, <1>5

\* The stages by name, and what the sets of them share.
LEMMA OnboardingSets ==
    ASSUME NEW i \in DOMAIN Onboardings
    PROVE  /\ Onb(i)!LeasedStages = {"preparing_root", "creating_group", "configuring_group",
                                     "committing_binding"}
           /\ Onb(i)!UnknownStages = {"group_unknown", "configuration_unknown"}
           /\ Onb(i)!Outcomes = Onb(i)!UnknownStages \cup {"failed", "completed"}
           /\ Onb(i)!LeasedStages \subseteq Onb(i)!Stages
           /\ Onb(i)!Outcomes \subseteq Onb(i)!Stages
           /\ Onb(i)!None = "none"
BY DEF Onb!Outcomes, Onb!UnknownStages, Onb!LeasedStages, Onb!Stages, Onb!None,
       Onb!ClosedStages

\* The types of the three variables a step of the provisioner may change.
LEMMA OnboardingTypes ==
    ASSUME NEW i \in DOMAIN Onboardings, Onb(i)!Typed
    PROVE  /\ wf \in [Onb(i)!Workflows -> Onb(i)!Row] /\ obWorker \in Onb(i)!Desk
           /\ note \in [Onb(i)!Workflows -> Onb(i)!Outcomes \cup {Onb(i)!None}]
BY DEF Onb!Typed

\* The provisioner works on a workflow.
LEMMA OnboardingAtHand ==
    ASSUME NEW i \in DOMAIN Onboardings, Onb(i)!Typed, Onb(i)!AtHand,
           obWorker.pc # "idle"
    PROVE  /\ obWorker.w \in Onb(i)!Workflows
           /\ wf[obWorker.w] \in Onb(i)!Row
BY DEF Onb!Typed, Onb!AtHand

\* The three ways a step of the provisioner ends keep the types: it parks the
\* workflow, moves it on, or returns it when told to stop.
LEMMA OnboardingParks ==
    ASSUME NEW i \in DOMAIN Onboardings, Onb(i)!Typed, NEW w \in Onb(i)!Workflows,
           NEW from, NEW s \in Onb(i)!Outcomes,
           NEW u \in {"none", "configuring_group", "preparing_root"},
           Onb(i)!Park(w, from, s, u)
    PROVE  /\ wf' \in [Onb(i)!Workflows -> Onb(i)!Row]
           /\ note' \in [Onb(i)!Workflows -> Onb(i)!Outcomes \cup {Onb(i)!None}]
           /\ obWorker' \in Onb(i)!Desk
<1>1. s \in Onb(i)!Stages
  BY DEF Onb!Outcomes, Onb!Stages, Onb!UnknownStages, Onb!ClosedStages
<1>2. wf[w] \in Onb(i)!Row
  BY DEF Onb!Typed
<1>3. [Onb(i)!Released(wf[w], s) EXCEPT !.resume = u] \in Onb(i)!Row
  BY <1>1, <1>2, OnboardingRow DEF Onb!Released, Onb!None
<1>4. wf' \in [Onb(i)!Workflows -> Onb(i)!Row]
  BY <1>3 DEF Onb!Typed, Onb!Park
<1>5. note' \in [Onb(i)!Workflows -> Onb(i)!Outcomes \cup {Onb(i)!None}]
  BY DEF Onb!Typed, Onb!Park
<1> QED
  BY <1>4, <1>5, OnboardingDesk DEF Onb!Park

\* Moving a workflow on keeps the types.
LEMMA OnboardingMoves ==
    ASSUME NEW i \in DOMAIN Onboardings, Onb(i)!Typed, NEW w \in Onb(i)!Workflows,
           NEW from, NEW r \in Onb(i)!Row,
           NEW c \in {"connect", "create", "configure", "register"},
           Onb(i)!Move(w, from, r, c)
    PROVE  /\ wf' \in [Onb(i)!Workflows -> Onb(i)!Row]
           /\ obWorker' \in Onb(i)!Desk
<1>1. wf' \in [Onb(i)!Workflows -> Onb(i)!Row]
  BY DEF Onb!Typed, Onb!Move
<1>2. CASE Onb(i)!Holds(w, from)
  <2> DEFINE d == [obWorker EXCEPT !.pc = c]
             t == IF c = "configure" THEN Onb(i)!Parts ELSE {}
  <2>1. d \in Onb(i)!Desk
    BY OnboardingDesk DEF Onb!Typed
  <2>2. obWorker' = [d EXCEPT !.todo = t]
    BY <1>2 DEF Onb!Move
  <2> HIDE DEF d
  <2> QED
    BY <1>1, <2>1, <2>2, OnboardingDesk
<1>3. CASE ~Onb(i)!Holds(w, from)
  BY <1>1, <1>3, OnboardingDesk DEF Onb!Move
<1> QED
  BY <1>2, <1>3

\* So does returning it when the process is told to stop.
LEMMA OnboardingStops ==
    ASSUME NEW i \in DOMAIN Onboardings, Onb(i)!Typed, NEW w \in Onb(i)!Workflows,
           Onb(i)!GuardStops(w)
    PROVE  /\ wf' \in [Onb(i)!Workflows -> Onb(i)!Row]
           /\ obWorker' \in Onb(i)!Desk
           /\ note' = note
<1>1. "queued" \in Onb(i)!Stages
  BY DEF Onb!Stages
<1>2. wf[w] \in Onb(i)!Row
  BY DEF Onb!Typed
<1>3. Onb(i)!Released(wf[w], "queued") \in Onb(i)!Row
  BY <1>1, <1>2, OnboardingRow DEF Onb!Released, Onb!None
<1> QED
  BY <1>3, OnboardingDesk DEF Onb!Typed, Onb!GuardStops

\* What the three do to the workflow at hand, and that they leave the others.
LEMMA OnboardingParked ==
    ASSUME NEW i \in DOMAIN Onboardings, Onb(i)!Typed, NEW w \in Onb(i)!Workflows,
           NEW from, NEW s, NEW u, Onb(i)!Park(w, from, s, u)
    PROVE  /\ obWorker' = Onb(i)!Idle
           /\ \A v \in Onb(i)!Workflows \ {w} : wf'[v] = wf[v] /\ note'[v] = note[v]
           /\ \/ wf'[w] = wf[w] /\ note'[w] = note[w]
              \/ /\ wf[w].stage = from
                 /\ wf'[w].stage = s /\ note'[w] = s
                 /\ wf'[w].lease = Onb(i)!None /\ wf'[w].resume = u
                 /\ wf'[w].project = wf[w].project /\ wf'[w].chat = wf[w].chat
<1>1. wf[w] \in Onb(i)!Row /\ w \in DOMAIN wf /\ w \in DOMAIN note
  BY DEF Onb!Typed
<1> DEFINE q == [Onb(i)!Released(wf[w], s) EXCEPT !.resume = u]
<1>2. /\ q.stage = s /\ q.lease = Onb(i)!None /\ q.resume = u
      /\ q.project = wf[w].project /\ q.chat = wf[w].chat
  BY <1>1 DEF Onb!Row, Onb!Released
<1> HIDE DEF q
<1>3. obWorker' = Onb(i)!Idle
  BY DEF Onb!Park
<1>4. CASE Onb(i)!Holds(w, from)
  <2>1. wf' = [wf EXCEPT ![w] = q] /\ note' = [note EXCEPT ![w] = s] /\ wf[w].stage = from
    BY <1>4 DEF Onb!Park, Onb!Holds, q
  <2> QED
    BY <1>1, <1>2, <1>3, <2>1 DEF Onb!Typed
<1>5. CASE ~Onb(i)!Holds(w, from)
  BY <1>3, <1>5 DEF Onb!Park
<1> QED
  BY <1>4, <1>5

\* What moving it on does: the row asked for, or nothing and the provisioner at rest.
LEMMA OnboardingMoved ==
    ASSUME NEW i \in DOMAIN Onboardings, Onb(i)!Typed, NEW w \in Onb(i)!Workflows,
           NEW from, NEW r, NEW c, Onb(i)!Move(w, from, r, c)
    PROVE  /\ \A v \in Onb(i)!Workflows \ {w} : wf'[v] = wf[v]
           /\ \/ obWorker' = Onb(i)!Idle /\ wf'[w] = wf[w]
              \/ /\ wf[w].stage = from /\ wf'[w] = r
                 /\ obWorker'.pc = c /\ obWorker'.w = obWorker.w
<1>1. w \in DOMAIN wf /\ obWorker \in Onb(i)!Desk
  BY DEF Onb!Typed
<1>2. CASE Onb(i)!Holds(w, from)
  BY <1>1, <1>2 DEF Onb!Move, Onb!Holds, Onb!Typed, Onb!Desk
<1>3. CASE ~Onb(i)!Holds(w, from)
  BY <1>3 DEF Onb!Move
<1> QED
  BY <1>2, <1>3

\* What returning it does: it is queued again if its lease is live.
LEMMA OnboardingReturned ==
    ASSUME NEW i \in DOMAIN Onboardings, Onb(i)!Typed, NEW w \in Onb(i)!Workflows,
           Onb(i)!GuardStops(w)
    PROVE  /\ obWorker' = Onb(i)!Idle /\ note' = note
           /\ \A v \in Onb(i)!Workflows \ {w} : wf'[v] = wf[v]
           /\ \/ wf'[w] = wf[w]
              \/ /\ wf'[w].stage = "queued" /\ wf[w].lease = "live"
                 /\ wf'[w].lease = Onb(i)!None /\ wf'[w].resume = wf[w].resume
                 /\ wf'[w].project = wf[w].project /\ wf'[w].chat = wf[w].chat
<1>1. wf[w] \in Onb(i)!Row /\ w \in DOMAIN wf
  BY DEF Onb!Typed
<1> DEFINE q == Onb(i)!Released(wf[w], "queued")
<1>2. /\ q.stage = "queued" /\ q.lease = Onb(i)!None /\ q.resume = wf[w].resume
      /\ q.project = wf[w].project /\ q.chat = wf[w].chat
  BY <1>1 DEF Onb!Row, Onb!Released
<1>3. /\ obWorker' = Onb(i)!Idle /\ note' = note
      /\ wf' = [wf EXCEPT ![w] = IF wf[w].lease = "live" THEN q ELSE wf[w]]
  BY DEF Onb!GuardStops
<1> HIDE DEF q
<1> QED
  BY <1>1, <1>2, <1>3 DEF Onb!Typed

\* What the recovery of a lost worker's workflow does to its row.
LEMMA OnboardingRecovered ==
    ASSUME NEW i \in DOMAIN Onboardings, NEW r \in Onb(i)!Row
    PROVE  /\ Onb(i)!Recovered(r) \in Onb(i)!Row
           /\ Onb(i)!Recovered(r).project = r.project
           /\ Onb(i)!Recovered(r).chat = r.chat
           /\ Onb(i)!Recovered(r).resume = r.resume
           /\ \/ Onb(i)!Recovered(r) = r
              \/ /\ Onb(i)!Recovered(r).lease = Onb(i)!None
                 /\ <<r.stage, Onb(i)!Recovered(r).stage>> \in
                       {<<"preparing_root", "queued">>, <<"creating_group", "group_unknown">>,
                        <<"configuring_group", "configuration_unknown">>}
<1>1. /\ "queued" \in Onb(i)!Stages /\ "group_unknown" \in Onb(i)!Stages
      /\ "configuration_unknown" \in Onb(i)!Stages /\ Onb(i)!None = "none"
  BY DEF Onb!Stages, Onb!UnknownStages, Onb!None
<1>2. Onb(i)!Recovered(r) \in Onb(i)!Row
  BY <1>1, OnboardingRow DEF Onb!Recovered, Onb!Released
<1>3. ASSUME NEW s
      PROVE  /\ Onb(i)!Released(r, s).project = r.project
             /\ Onb(i)!Released(r, s).chat = r.chat
             /\ Onb(i)!Released(r, s).resume = r.resume
             /\ Onb(i)!Released(r, s).stage = s
             /\ Onb(i)!Released(r, s).lease = Onb(i)!None
  BY DEF Onb!Released, Onb!Row
<1> QED
  BY <1>2, <1>3 DEF Onb!Recovered

\* What claim_next does to each row and to the provisioner.
LEMMA OnboardingClaimed ==
    ASSUME NEW i \in DOMAIN Onboardings, Onb(i)!Typed, Onb(i)!ClaimNext
    PROVE  /\ obWorker.pc = "idle" /\ UNCHANGED <<bindings, registry, net, groups, cfg>>
           /\ wf' \in [Onb(i)!Workflows -> Onb(i)!Row] /\ obWorker' \in Onb(i)!Desk
           /\ note' \in [Onb(i)!Workflows -> Onb(i)!Outcomes \cup {Onb(i)!None}]
           /\ \/ obWorker' = obWorker
              \/ /\ obWorker'.pc = "check" /\ obWorker'.w \in Onb(i)!Workflows
                 /\ wf'[obWorker'.w].stage \in {"preparing_root", "committing_binding"}
           /\ \A v \in Onb(i)!Workflows :
                /\ wf'[v].project = wf[v].project /\ wf'[v].chat = wf[v].chat
                /\ wf'[v].resume = wf[v].resume
                /\ \/ wf'[v] = wf[v] /\ note'[v] = note[v]
                   \/ /\ wf[v].stage = "preparing_root" /\ wf'[v].stage = "queued"
                      /\ wf'[v].lease = Onb(i)!None /\ note'[v] = note[v]
                   \/ /\ <<wf[v].stage, wf'[v].stage>> \in
                            {<<"creating_group", "group_unknown">>,
                             <<"configuring_group", "configuration_unknown">>}
                      /\ wf'[v].lease = Onb(i)!None /\ note'[v] = wf'[v].stage
                   \/ /\ wf[v].stage \in {"queued", "preparing_root"}
                      /\ wf'[v].stage = "preparing_root" /\ note'[v] = note[v]
                   \/ /\ wf[v].stage = "committing_binding"
                      /\ wf'[v].stage = "committing_binding" /\ note'[v] = note[v]
<1> DEFINE R == Onb(i)!Remaining
<1>1. ASSUME NEW v \in Onb(i)!Workflows
      PROVE  /\ R[v] = Onb(i)!Recovered(wf[v]) /\ wf[v] \in Onb(i)!Row
             /\ R[v] \in Onb(i)!Row
  BY OnboardingRecovered DEF Onb!Remaining, Onb!Typed
<1>2. R \in [Onb(i)!Workflows -> Onb(i)!Row]
  BY <1>1 DEF Onb!Remaining
<1>3. \/ wf' = R /\ obWorker' = obWorker
      \/ \E n \in Onb(i)!Workflows :
            /\ Onb(i)!Ready(R[n])
            /\ wf' = [R EXCEPT ![n] = Onb(i)!Leased(R[n])]
            /\ obWorker' = [Onb(i)!Idle EXCEPT !.pc = "check", !.w = n]
  BY DEF Onb!ClaimNext
<1>4. note' = Onb(i)!LossNotices /\ obWorker.pc = "idle"
      /\ UNCHANGED <<bindings, registry, net, groups, cfg>>
  BY DEF Onb!ClaimNext
<1>5. ASSUME NEW v \in Onb(i)!Workflows
      PROVE  note'[v] = IF R[v].stage # wf[v].stage /\ R[v].stage \in Onb(i)!UnknownStages
                        THEN R[v].stage ELSE note[v]
  BY <1>4 DEF Onb!LossNotices
<1>6. note' \in [Onb(i)!Workflows -> Onb(i)!Outcomes \cup {Onb(i)!None}]
  BY <1>4 DEF Onb!LossNotices, Onb!Typed, Onb!Outcomes
<1>7. ASSUME NEW r \in Onb(i)!Row, Onb(i)!Ready(r)
      PROVE  /\ Onb(i)!Leased(r) \in Onb(i)!Row
             /\ Onb(i)!Leased(r).project = r.project /\ Onb(i)!Leased(r).chat = r.chat
             /\ Onb(i)!Leased(r).resume = r.resume
             /\ \/ r.stage = "queued" /\ Onb(i)!Leased(r).stage = "preparing_root"
                \/ /\ r.stage = "committing_binding"
                   /\ Onb(i)!Leased(r).stage = "committing_binding"
  <2> DEFINE q == [r EXCEPT !.lease = "live"]
             t == IF r.stage = "queued" THEN "preparing_root" ELSE r.stage
  <2>1. q \in Onb(i)!Row
    BY OnboardingRow
  <2>2. t \in Onb(i)!Stages
    BY OnboardingRow DEF Onb!Stages, Onb!LeasedStages
  <2>3. Onb(i)!Leased(r) = [q EXCEPT !.stage = t]
    BY DEF Onb!Leased, Onb!Row
  <2>4. /\ Onb(i)!Leased(r).project = r.project /\ Onb(i)!Leased(r).chat = r.chat
        /\ Onb(i)!Leased(r).resume = r.resume /\ Onb(i)!Leased(r).stage = t
    BY DEF Onb!Leased, Onb!Row
  <2>5. \/ t = "preparing_root" /\ r.stage = "queued"
        \/ t = r.stage /\ r.stage = "committing_binding"
    BY <1>7 DEF Onb!Ready
  <2> HIDE DEF q, t
  <2>6. Onb(i)!Leased(r) \in Onb(i)!Row
    <3>1. \A x \in Onb(i)!Row : \A y \in Onb(i)!Stages : [x EXCEPT !.stage = y] \in Onb(i)!Row
      BY OnboardingRow
    <3> QED
      BY <2>1, <2>2, <2>3, <3>1
  <2> QED
    BY <2>4, <2>5, <2>6
<1> HIDE DEF R
<1>8. wf' \in [Onb(i)!Workflows -> Onb(i)!Row]
  <2>1. ASSUME NEW n \in Onb(i)!Workflows, Onb(i)!Ready(R[n]),
               wf' = [R EXCEPT ![n] = Onb(i)!Leased(R[n])]
        PROVE  wf' \in [Onb(i)!Workflows -> Onb(i)!Row]
    <3>1. Onb(i)!Leased(R[n]) \in Onb(i)!Row
      BY <1>1, <1>7, <2>1
    <3> QED
      BY <1>2, <2>1, <3>1
  <2> QED
    BY <1>2, <1>3, <2>1
<1>9. obWorker' \in Onb(i)!Desk
  <2>1. obWorker \in Onb(i)!Desk /\ Onb(i)!Idle \in Onb(i)!Desk
    BY OnboardingDesk DEF Onb!Typed
  <2>2. [Onb(i)!Idle EXCEPT !.pc = "check"] \in Onb(i)!Desk
    BY <2>1, OnboardingDesk
  <2>3. \A n \in Onb(i)!Workflows :
            [[Onb(i)!Idle EXCEPT !.pc = "check"] EXCEPT !.w = n] \in Onb(i)!Desk
    BY <2>2, OnboardingDesk
  <2> QED
    BY <1>3, <2>1, <2>3
<1>10. \/ obWorker' = obWorker
       \/ /\ obWorker'.pc = "check" /\ obWorker'.w \in Onb(i)!Workflows
          /\ wf'[obWorker'.w].stage \in {"preparing_root", "committing_binding"}
  <2> SUFFICES ASSUME NEW n \in Onb(i)!Workflows, Onb(i)!Ready(R[n]),
                      wf' = [R EXCEPT ![n] = Onb(i)!Leased(R[n])],
                      obWorker' = [Onb(i)!Idle EXCEPT !.pc = "check", !.w = n]
               PROVE  /\ obWorker'.pc = "check" /\ obWorker'.w = n
                      /\ wf'[n].stage \in {"preparing_root", "committing_binding"}
    BY <1>3
  <2>1. obWorker'.pc = "check" /\ obWorker'.w = n
    BY DEF Onb!Idle
  <2>2. wf'[n] = Onb(i)!Leased(R[n])
    BY <1>2
  <2> QED
    BY <1>1, <1>7, <2>1, <2>2
<1>11. ASSUME NEW v \in Onb(i)!Workflows
       PROVE  wf'[v] = R[v] \/ (Onb(i)!Ready(R[v]) /\ wf'[v] = Onb(i)!Leased(R[v]))
  BY <1>2, <1>3
<1>12. ASSUME NEW v \in Onb(i)!Workflows
       PROVE  /\ wf'[v].project = wf[v].project /\ wf'[v].chat = wf[v].chat
              /\ wf'[v].resume = wf[v].resume
              /\ \/ wf'[v] = wf[v] /\ note'[v] = note[v]
                 \/ /\ wf[v].stage = "preparing_root" /\ wf'[v].stage = "queued"
                    /\ wf'[v].lease = Onb(i)!None /\ note'[v] = note[v]
                 \/ /\ <<wf[v].stage, wf'[v].stage>> \in
                          {<<"creating_group", "group_unknown">>,
                           <<"configuring_group", "configuration_unknown">>}
                    /\ wf'[v].lease = Onb(i)!None /\ note'[v] = wf'[v].stage
                 \/ /\ wf[v].stage \in {"queued", "preparing_root"}
                    /\ wf'[v].stage = "preparing_root" /\ note'[v] = note[v]
                 \/ /\ wf[v].stage = "committing_binding"
                    /\ wf'[v].stage = "committing_binding" /\ note'[v] = note[v]
  <2>1. /\ R[v].project = wf[v].project /\ R[v].chat = wf[v].chat /\ R[v].resume = wf[v].resume
        /\ \/ R[v] = wf[v]
           \/ /\ R[v].lease = Onb(i)!None
              /\ <<wf[v].stage, R[v].stage>> \in
                    {<<"preparing_root", "queued">>, <<"creating_group", "group_unknown">>,
                     <<"configuring_group", "configuration_unknown">>}
    BY <1>1, OnboardingRecovered
  <2>2. CASE wf'[v] = R[v]
    BY <1>5, <2>1, <2>2, OnboardingSets
  <2>3. CASE Onb(i)!Ready(R[v]) /\ wf'[v] = Onb(i)!Leased(R[v])
    BY <1>1, <1>5, <1>7, <2>1, <2>3, OnboardingSets DEF Onb!Ready
  <2> QED
    BY <1>11, <2>2, <2>3
<1> QED
  BY <1>4, <1>6, <1>8, <1>9, <1>10, <1>12

\* Every step leaves the groups there are, and complete ones complete.
LEMMA OnboardingGroups ==
    ASSUME NEW i \in DOMAIN Onboardings, Onb(i)!Typed, Onb(i)!RequestsFit, Onb(i)!Next
    PROVE  /\ Onb(i)!Exists \subseteq Onb(i)!Exists'
           /\ \A g \in Onb(i)!Exists :
                 groups[g] = Onb(i)!Parts => groups'[g] = Onb(i)!Parts
<1> USE DEF Onb!Exists
<1>1. ASSUME NEW w \in Onb(i)!Workflows, Onb(i)!TelegramCreates(w)
      PROVE  \A g \in DOMAIN groups : g \in DOMAIN groups' /\ groups'[g] = groups[g]
  BY <1>1 DEF Onb!TelegramCreates, Onb!RequestsFit, Onb!RequestFits
<1>2. ASSUME NEW w \in Onb(i)!Workflows, NEW g \in Onb(i)!Groups, Onb(i)!Reconcile(w, g)
      PROVE  \A h \in DOMAIN groups : h \in DOMAIN groups' /\ groups'[h] = groups[h]
  BY <1>2 DEF Onb!Reconcile
<1>3. ASSUME Onb(i)!Install
      PROVE  \A h \in DOMAIN groups :
                h \in DOMAIN groups' /\ (groups[h] = Onb(i)!Parts => groups'[h] = Onb(i)!Parts)
  <2>1. PICK x \in Onb(i)!Parts :
           \E g : groups' \in {groups, [groups EXCEPT ![g] = @ \cup {x}]}
    <3>1. "hub" \in Onb(i)!Parts
      BY DEF Onb!Parts
    <3> QED
      BY <1>3, <3>1 DEF Onb!Install, Onb!NextPart, Onb!Parts
  <2> SUFFICES ASSUME NEW h \in DOMAIN groups
               PROVE  /\ h \in DOMAIN groups'
                      /\ groups[h] = Onb(i)!Parts => groups'[h] = Onb(i)!Parts
    OBVIOUS
  <2>2. \/ groups' = groups
        \/ DOMAIN groups' = DOMAIN groups /\ groups'[h] \in {groups[h], groups[h] \cup {x}}
    BY <2>1
  <2> QED
    BY <2>2
<1>4. \/ groups' = groups
      \/ Onb(i)!Install
      \/ (\E w \in Onb(i)!Workflows : Onb(i)!TelegramCreates(w))
      \/ (\E w \in Onb(i)!Workflows, g \in Onb(i)!Groups : Onb(i)!Reconcile(w, g))
  BY Zenon DEF Onb!Next, Onb!OwnerStep, Onb!ProvisionerStep, Onb!Outside, Onb!Start,
         Onb!SetName, Onb!SelectRoot, Onb!SetFolder, Onb!Confirm, Onb!Advance,
         Onb!Cancel, Onb!OutOfTime,
         Onb!ClaimNext, Onb!CheckOwners, Onb!PrepareRoot, Onb!Connect, Onb!SendCreate,
         Onb!CreateUnknown, Onb!MarkGroupCreated, Onb!Verify, Onb!EnsureProject,
         Onb!Complete, Onb!Crash, Onb!ChangeOwners, Onb!TelegramRefuses, Onb!RequestLost,
         Onb!LeaseLapses, Onb!ResumeBlocked, Onb!AddProject
<1> QED
  BY <1>1, <1>2, <1>3, <1>4

\* A row nobody writes still fits.
LEMMA OnboardingOthers ==
    ASSUME NEW i \in DOMAIN Onboardings, Onb(i)!Typed, Onb(i)!RowsFit, Onb(i)!RequestsFit,
           Onb(i)!Next, NEW v \in Onb(i)!Workflows, wf'[v] = wf[v], note'[v] = note[v]
    PROVE  Onb(i)!RowFits(v)'
<1>1. Onb(i)!RowFits(v)
  BY DEF Onb!RowsFit
<1>2. wf[v].chat # Onb(i)!NoChat => wf[v].chat \in Onb(i)!Exists
  BY <1>1 DEF Onb!RowFits
<1>3. wf[v].stage = "committing_binding" => groups'[wf[v].chat] = Onb(i)!Parts
  BY <1>1, <1>2, OnboardingGroups DEF Onb!RowFits
<1> QED
  BY <1>1, <1>3, OnboardingGroups DEF Onb!RowFits, Onb!LeasedStages, Onb!Outcomes,
     Onb!NoChat, Onb!None

\* A workflow that is parked, moved on or returned fits its new stage.
LEMMA OnboardingParkFits ==
    ASSUME NEW i \in DOMAIN Onboardings, Onb(i)!Typed, Onb(i)!RowsFit, Onb(i)!RequestsFit,
           Onb(i)!Next, NEW w \in Onb(i)!Workflows, NEW from \in Onb(i)!LeasedStages,
           NEW s \in {"failed", "group_unknown", "configuration_unknown"},
           NEW u, u # Onb(i)!None => s = "failed",
           s = "group_unknown" => from = "creating_group",
           s = "configuration_unknown" => from = "configuring_group",
           Onb(i)!Park(w, from, s, u)
    PROVE  Onb(i)!RowsFit'
<1>1. /\ \A v \in Onb(i)!Workflows \ {w} : wf'[v] = wf[v] /\ note'[v] = note[v]
      /\ \/ wf'[w] = wf[w] /\ note'[w] = note[w]
         \/ /\ wf[w].stage = from
            /\ wf'[w].stage = s /\ note'[w] = s
            /\ wf'[w].lease = Onb(i)!None /\ wf'[w].resume = u
            /\ wf'[w].project = wf[w].project /\ wf'[w].chat = wf[w].chat
  BY OnboardingParked
<1>2. Onb(i)!RowFits(w)
  BY DEF Onb!RowsFit
<1>3. ASSUME wf'[w] # wf[w] \/ note'[w] # note[w] PROVE Onb(i)!RowFits(w)'
  BY <1>1, <1>2, <1>3, OnboardingGroups
     DEF Onb!RowFits, Onb!LeasedStages, Onb!Outcomes, Onb!UnknownStages, Onb!None
<1> QED
  BY <1>1, <1>3, OnboardingOthers DEF Onb!RowsFit

\* The same of a workflow that moves on to another leased stage.
LEMMA OnboardingMoveFits ==
    ASSUME NEW i \in DOMAIN Onboardings, Onb(i)!Typed, Onb(i)!RowsFit, Onb(i)!RequestsFit,
           Onb(i)!Next, NEW w \in Onb(i)!Workflows, NEW from \in Onb(i)!LeasedStages,
           NEW r, NEW c, Onb(i)!Move(w, from, r, c), note' = note,
           r.stage \in Onb(i)!LeasedStages, r.resume = wf[w].resume,
           r.project = wf[w].project, r.chat \in Onb(i)!Exists \cup {Onb(i)!NoChat},
           r.stage = "creating_group" => r.chat = Onb(i)!NoChat,
           r.stage \in {"configuring_group", "committing_binding"} => r.chat # Onb(i)!NoChat,
           r.stage = "committing_binding" => groups[r.chat] = Onb(i)!Parts
    PROVE  Onb(i)!RowsFit'
<1>1. /\ \A v \in Onb(i)!Workflows \ {w} : wf'[v] = wf[v]
      /\ wf'[w] = wf[w] \/ (wf[w].stage = from /\ wf'[w] = r)
  BY OnboardingMoved
<1>2. Onb(i)!RowFits(w)
  BY DEF Onb!RowsFit
<1>3. r.stage = "committing_binding" => groups'[r.chat] = Onb(i)!Parts
  BY OnboardingGroups
<1>4. ASSUME wf[w].stage = from, wf'[w] = r PROVE Onb(i)!RowFits(w)'
  BY <1>2, <1>3, <1>4, OnboardingGroups
     DEF Onb!RowFits, Onb!LeasedStages, Onb!Outcomes, Onb!UnknownStages, Onb!None,
         Onb!NoChat
<1> QED
  BY <1>1, <1>4, OnboardingOthers DEF Onb!RowsFit

\* And of one that goes back to the queue.
LEMMA OnboardingStopFits ==
    ASSUME NEW i \in DOMAIN Onboardings, Onb(i)!Typed, Onb(i)!RowsFit, Onb(i)!RequestsFit,
           Onb(i)!Next, NEW w \in Onb(i)!Workflows, Onb(i)!GuardStops(w)
    PROVE  Onb(i)!RowsFit'
<1>1. /\ note' = note
      /\ \A v \in Onb(i)!Workflows \ {w} : wf'[v] = wf[v]
      /\ \/ wf'[w] = wf[w]
         \/ /\ wf'[w].stage = "queued" /\ wf[w].lease = "live"
            /\ wf'[w].lease = Onb(i)!None /\ wf'[w].resume = wf[w].resume
            /\ wf'[w].project = wf[w].project /\ wf'[w].chat = wf[w].chat
  BY OnboardingReturned
<1>2. Onb(i)!RowFits(w)
  BY DEF Onb!RowsFit
<1>3. ASSUME wf'[w] # wf[w] PROVE Onb(i)!RowFits(w)'
  BY <1>1, <1>2, <1>3, OnboardingGroups
     DEF Onb!RowFits, Onb!LeasedStages, Onb!Outcomes, Onb!UnknownStages, Onb!None
<1> QED
  BY <1>1, <1>3, OnboardingOthers DEF Onb!RowsFit

\* The provisioner at rest has nothing at hand.
LEMMA OnboardingRests ==
    ASSUME NEW i \in DOMAIN Onboardings, obWorker' = Onb(i)!Idle
    PROVE  Onb(i)!AtHand'
BY DEF Onb!AtHand, Onb!Idle

\* A workflow at hand stays so while its row and the provisioner keep their places.
LEMMA OnboardingStays ==
    ASSUME NEW i \in DOMAIN Onboardings, Onb(i)!Typed, Onb(i)!AtHand,
           NEW v, v = obWorker.w, obWorker' = obWorker, registry' = registry,
           Onb(i)!Exists \subseteq Onb(i)!Exists',
           obWorker.pc # "idle" =>
              wf'[v].stage = wf[v].stage /\ wf'[v].project = wf[v].project
    PROVE  Onb(i)!AtHand'
BY DEF Onb!AtHand

\* What is known of a workflow's request stays known while the groups, the
\* requests and its row do, and the provisioner comes no closer to it.
LEMMA OnboardingAsks ==
    ASSUME NEW i \in DOMAIN Onboardings, Onb(i)!RequestsFit, NEW v \in Onb(i)!Workflows,
           \A x \in {"made", "again"} :
              <<v, x>> \in Onb(i)!Exists' => <<v, x>> \in Onb(i)!Exists,
           v \in net' => v \in net,
           wf'[v].stage = wf[v].stage, wf'[v].chat = wf[v].chat,
           \/ obWorker' = obWorker
           \/ obWorker'.pc \notin {"connect", "create", "creating", "created"}
           \/ obWorker'.w # v
    PROVE  Onb(i)!RequestFits(v)'
<1>1. Onb(i)!RequestFits(v)
  BY DEF Onb!RequestsFit
<1> QED
  BY <1>1 DEF Onb!RequestFits, Onb!Stands, Onb!Exists, Onb!NoChat

\* A workflow without a request under way, whose group is known if there is one.
LEMMA OnboardingKnows ==
    ASSUME NEW i \in DOMAIN Onboardings, Onb(i)!RequestsFit, NEW v \in Onb(i)!Workflows,
           <<v, "again">> \in Onb(i)!Exists' => <<v, "again">> \in Onb(i)!Exists,
           v \notin net',
           <<v, "made">> \in Onb(i)!Exists' => wf'[v].chat # Onb(i)!NoChat
    PROVE  Onb(i)!RequestFits(v)'
BY DEF Onb!RequestsFit, Onb!RequestFits, Onb!NoChat

\* The same for the steps that park, move on or return a workflow.
LEMMA OnboardingParkAsks ==
    ASSUME NEW i \in DOMAIN Onboardings, Onb(i)!Typed, Onb(i)!RowsFit, Onb(i)!RequestsFit,
           NEW w \in Onb(i)!Workflows, NEW from, NEW s, NEW u, Onb(i)!Park(w, from, s, u),
           from \in Onb(i)!LeasedStages, Onb(i)!Exists' = Onb(i)!Exists, net' \subseteq net,
           from = "creating_group" =>
              s = "group_unknown" \/ (<<w, "made">> \notin Onb(i)!Exists /\ w \notin net')
    PROVE  Onb(i)!RequestsFit'
<1>1. /\ obWorker' = Onb(i)!Idle
      /\ \A v \in Onb(i)!Workflows \ {w} : wf'[v] = wf[v] /\ note'[v] = note[v]
      /\ \/ wf'[w] = wf[w] /\ note'[w] = note[w]
         \/ /\ wf[w].stage = from
            /\ wf'[w].stage = s /\ note'[w] = s
            /\ wf'[w].lease = Onb(i)!None /\ wf'[w].resume = u
            /\ wf'[w].project = wf[w].project /\ wf'[w].chat = wf[w].chat
  BY OnboardingParked
<1>2. obWorker'.pc = "idle"
  BY <1>1 DEF Onb!Idle
<1>3. ASSUME NEW v \in Onb(i)!Workflows, wf'[v] = wf[v] PROVE Onb(i)!RequestFits(v)'
  BY <1>2, <1>3, OnboardingAsks
<1>4. ASSUME wf[w].stage = from, wf'[w].stage = s, wf'[w].chat = wf[w].chat
      PROVE  Onb(i)!RequestFits(w)'
  <2>1. Onb(i)!RequestFits(w)
    BY DEF Onb!RequestsFit
  <2>2. CASE s = "group_unknown" /\ from = "creating_group"
    BY <1>2, <1>4, <2>1, <2>2 DEF Onb!RequestFits, Onb!Stands
  <2>3. CASE ~(s = "group_unknown" /\ from = "creating_group")
    <3>1. w \notin net' /\ (<<w, "made">> \in Onb(i)!Exists => wf[w].chat # Onb(i)!NoChat)
      BY <1>4, <2>1, <2>3 DEF Onb!RequestFits, Onb!LeasedStages
    <3> QED
      BY <1>4, <3>1, OnboardingKnows
  <2> QED
    BY <2>2, <2>3
<1> QED
  BY <1>1, <1>3, <1>4 DEF Onb!RequestsFit

\* The same of moving a workflow on.
LEMMA OnboardingMoveAsks ==
    ASSUME NEW i \in DOMAIN Onboardings, Onb(i)!Typed, Onb(i)!RequestsFit,
           NEW w \in Onb(i)!Workflows, w = obWorker.w, NEW from, NEW r, NEW c,
           Onb(i)!Move(w, from, r, c), Onb(i)!Exists' = Onb(i)!Exists, net' = net,
           w \notin net, <<w, "made">> \in Onb(i)!Exists => r.chat # Onb(i)!NoChat
    PROVE  Onb(i)!RequestsFit'
<1>1. /\ \A v \in Onb(i)!Workflows \ {w} : wf'[v] = wf[v]
      /\ \/ obWorker' = Onb(i)!Idle /\ wf'[w] = wf[w]
         \/ /\ wf[w].stage = from /\ wf'[w] = r
            /\ obWorker'.pc = c /\ obWorker'.w = obWorker.w
  BY OnboardingMoved
<1>2. obWorker'.pc = "idle" \/ obWorker'.w = w
  BY <1>1 DEF Onb!Idle
<1>3. ASSUME NEW v \in Onb(i)!Workflows, v # w PROVE Onb(i)!RequestFits(v)'
  BY <1>1, <1>2, <1>3, OnboardingAsks
<1>4. CASE wf'[w] = wf[w] /\ obWorker' = Onb(i)!Idle
  <2>1. Onb(i)!RequestFits(w)'
    BY <1>4, OnboardingAsks DEF Onb!Idle
  <2> QED
    BY <1>3, <2>1 DEF Onb!RequestsFit
<1>5. CASE wf'[w] = r
  <2>1. Onb(i)!RequestFits(w)'
    BY <1>5, OnboardingKnows
  <2> QED
    BY <1>3, <2>1 DEF Onb!RequestsFit
<1> QED
  BY <1>1, <1>4, <1>5

\* And of returning one.
LEMMA OnboardingStopAsks ==
    ASSUME NEW i \in DOMAIN Onboardings, Onb(i)!Typed, Onb(i)!RequestsFit,
           NEW w \in Onb(i)!Workflows, Onb(i)!GuardStops(w),
           Onb(i)!Exists' = Onb(i)!Exists, net' = net, w \notin net,
           <<w, "made">> \in Onb(i)!Exists => wf[w].chat # Onb(i)!NoChat
    PROVE  Onb(i)!RequestsFit'
<1>1. /\ obWorker' = Onb(i)!Idle
      /\ \A v \in Onb(i)!Workflows \ {w} : wf'[v] = wf[v]
      /\ wf'[w].chat = wf[w].chat
  BY OnboardingReturned
<1>2. obWorker'.pc = "idle"
  BY <1>1 DEF Onb!Idle
<1>3. ASSUME NEW v \in Onb(i)!Workflows, v # w PROVE Onb(i)!RequestFits(v)'
  BY <1>1, <1>2, <1>3, OnboardingAsks
<1>4. Onb(i)!RequestFits(w)'
  BY <1>1, OnboardingKnows
<1> QED
  BY <1>3, <1>4 DEF Onb!RequestsFit

\* A leased workflow reserves its project; and whatever parks, moves on or
\* returns it reserves nothing new.
LEMMA OnboardingParkClaims ==
    ASSUME NEW i \in DOMAIN Onboardings, Onb(i)!Typed, NEW w \in Onb(i)!Workflows,
           NEW from \in Onb(i)!LeasedStages, NEW s, NEW u, Onb(i)!Park(w, from, s, u)
    PROVE  \A v \in Onb(i)!Workflows : Onb(i)!Reserves(wf'[v]) =>
              Onb(i)!Reserves(wf[v]) /\ wf'[v].project = wf[v].project
<1>1. /\ \A v \in Onb(i)!Workflows \ {w} : wf'[v] = wf[v]
      /\ wf'[w] = wf[w] \/ (wf[w].stage = from /\ wf'[w].project = wf[w].project)
  BY OnboardingParked
<1>2. wf[w].stage = from => Onb(i)!Reserves(wf[w])
  BY DEF Onb!Reserves, Onb!LeasedStages, Onb!ClosedStages
<1> QED
  BY <1>1, <1>2

\* Moving it on reserves nothing new.
LEMMA OnboardingMoveClaims ==
    ASSUME NEW i \in DOMAIN Onboardings, Onb(i)!Typed, NEW w \in Onb(i)!Workflows,
           NEW from \in Onb(i)!LeasedStages, NEW r, NEW c, Onb(i)!Move(w, from, r, c),
           r.project = wf[w].project
    PROVE  \A v \in Onb(i)!Workflows : Onb(i)!Reserves(wf'[v]) =>
              Onb(i)!Reserves(wf[v]) /\ wf'[v].project = wf[v].project
<1>1. /\ \A v \in Onb(i)!Workflows \ {w} : wf'[v] = wf[v]
      /\ wf'[w] = wf[w] \/ (wf[w].stage = from /\ wf'[w] = r)
  BY OnboardingMoved
<1>2. wf[w].stage = from => Onb(i)!Reserves(wf[w])
  BY DEF Onb!Reserves, Onb!LeasedStages, Onb!ClosedStages
<1> QED
  BY <1>1, <1>2

\* Nor does returning it.
LEMMA OnboardingStopClaims ==
    ASSUME NEW i \in DOMAIN Onboardings, Onb(i)!Typed, Onb(i)!RowsFit,
           NEW w \in Onb(i)!Workflows, Onb(i)!GuardStops(w)
    PROVE  \A v \in Onb(i)!Workflows : Onb(i)!Reserves(wf'[v]) =>
              Onb(i)!Reserves(wf[v]) /\ wf'[v].project = wf[v].project
<1>1. /\ \A v \in Onb(i)!Workflows \ {w} : wf'[v] = wf[v]
      /\ wf'[w] = wf[w] \/ (wf[w].lease = "live" /\ wf'[w].project = wf[w].project)
  BY OnboardingReturned
<1>2. wf[w].lease = "live" => wf[w].stage \in Onb(i)!LeasedStages
  BY DEF Onb!RowsFit, Onb!RowFits, Onb!None
<1>3. wf[w].lease = "live" => Onb(i)!Reserves(wf[w])
  BY <1>2 DEF Onb!Reserves, Onb!LeasedStages, Onb!ClosedStages
<1> QED
  BY <1>1, <1>3


\* Every step keeps the types.
LEMMA OnboardingTyped ==
    ASSUME NEW i \in DOMAIN Onboardings, Onb(i)!Typed, Onb(i)!RowsFit,
           Onb(i)!AtHand, Onb(i)!Next
    PROVE  Onb(i)!Typed'
<1> USE OnboardingAllowed
<1>1. ASSUME NEW o \in Onboardings[i].Owners,
             Onb(i)!Start(o)
      PROVE  Onb(i)!Typed'
  <2>1. ASSUME NEW w \in Onb(i)!Workflows PROVE wf'[w] \in Onb(i)!Row
    <3>1. /\ wf[w] \in Onb(i)!Row /\ "cancelled" \in Onb(i)!Stages
          /\ "awaiting_name" \in Onb(i)!Stages
      BY DEF Onb!Typed, Onb!Stages, Onb!ClosedStages, Onb!WizardStages
    <3>2. /\ [wf[w] EXCEPT !.stage = "cancelled"] \in Onb(i)!Row
          /\ [Onb(i)!NoWorkflow EXCEPT !.stage = "awaiting_name", !.owner = o] \in Onb(i)!Row
      BY <3>1, OnboardingRow
    <3> QED
      BY <1>1, <3>1, <3>2 DEF Onb!Start
  <2>2. wf' \in [Onb(i)!Workflows -> Onb(i)!Row]
    BY <1>1, <2>1 DEF Onb!Start
  <2> QED
    BY <1>1, <2>2 DEF Onb!Start, Onb!Typed, Onb!Exists
<1>2. ASSUME NEW w \in Onb(i)!Workflows,
             Onb(i)!OutOfTime(w)
      PROVE  Onb(i)!Typed'
  <2>1. wf' \in [Onb(i)!Workflows -> Onb(i)!Row]
    BY <1>2, OnboardingRow
       DEF Onb!OutOfTime, Onb!Fault, Onb!WizardStages, Onb!LeasedStages,
           Onb!UnknownStages, Onb!ClosedStages, Onb!Stages, Onb!None, Onb!Typed,
           Onb!Exists, Onb!OnboardingBounds
  <2> QED
    BY <1>2, <2>1
       DEF Onb!OutOfTime, Onb!Fault, Onb!Typed, Onb!Exists, Onb!OnboardingBounds
<1>3. ASSUME NEW w \in Onb(i)!Workflows,
             Onb(i)!SetName(w)
      PROVE  Onb(i)!Typed'
  <2>1. wf' \in [Onb(i)!Workflows -> Onb(i)!Row]
    BY <1>3, OnboardingRow
       DEF Onb!SetName, Onb!Advance, Onb!WizardStages, Onb!LeasedStages,
           Onb!UnknownStages, Onb!ClosedStages, Onb!Stages, Onb!None, Onb!Typed,
           Onb!Exists, Onb!OnboardingBounds
  <2> QED
    BY <1>3, <2>1
       DEF Onb!SetName, Onb!Advance, Onb!Typed, Onb!Exists, Onb!OnboardingBounds
<1>4. ASSUME NEW w \in Onb(i)!Workflows,
             Onb(i)!SelectRoot(w)
      PROVE  Onb(i)!Typed'
  <2>1. wf' \in [Onb(i)!Workflows -> Onb(i)!Row]
    BY <1>4, OnboardingRow
       DEF Onb!SelectRoot, Onb!Advance, Onb!WizardStages, Onb!LeasedStages,
           Onb!UnknownStages, Onb!ClosedStages, Onb!Stages, Onb!None, Onb!Typed,
           Onb!Exists, Onb!OnboardingBounds
  <2> QED
    BY <1>4, <2>1
       DEF Onb!SelectRoot, Onb!Advance, Onb!Typed, Onb!Exists, Onb!OnboardingBounds
<1>5. ASSUME NEW w \in Onb(i)!Workflows, NEW p \in Onboardings[i].Projects,
             Onb(i)!SetFolder(w, p)
      PROVE  Onb(i)!Typed'
  <2>1. wf' \in [Onb(i)!Workflows -> Onb(i)!Row]
    BY <1>5, OnboardingRow
       DEF Onb!SetFolder, Onb!Advance, Onb!Conflict, Onb!Reserves, Onb!WizardStages,
           Onb!LeasedStages, Onb!UnknownStages, Onb!ClosedStages, Onb!Stages, Onb!None,
           Onb!Typed, Onb!Exists, Onb!OnboardingBounds
  <2> QED
    BY <1>5, <2>1
       DEF Onb!SetFolder, Onb!Advance, Onb!Conflict, Onb!Reserves, Onb!Typed,
           Onb!Exists, Onb!OnboardingBounds
<1>6. ASSUME NEW w \in Onb(i)!Workflows,
             Onb(i)!Confirm(w)
      PROVE  Onb(i)!Typed'
  <2>1. wf' \in [Onb(i)!Workflows -> Onb(i)!Row]
    BY <1>6, OnboardingRow
       DEF Onb!Confirm, Onb!Advance, Onb!Conflict, Onb!Reserves, Onb!WizardStages,
           Onb!LeasedStages, Onb!UnknownStages, Onb!ClosedStages, Onb!Stages, Onb!None,
           Onb!Typed, Onb!Exists, Onb!OnboardingBounds
  <2> QED
    BY <1>6, <2>1
       DEF Onb!Confirm, Onb!Advance, Onb!Conflict, Onb!Reserves, Onb!Typed, Onb!Exists,
           Onb!OnboardingBounds
<1>7. ASSUME NEW w \in Onb(i)!Workflows,
             Onb(i)!Cancel(w)
      PROVE  Onb(i)!Typed'
  <2>1. wf' \in [Onb(i)!Workflows -> Onb(i)!Row]
    BY <1>7, OnboardingRow
       DEF Onb!Cancel, Onb!WizardStages, Onb!LeasedStages, Onb!UnknownStages,
           Onb!ClosedStages, Onb!Stages, Onb!None, Onb!Typed, Onb!Exists,
           Onb!OnboardingBounds
  <2> QED
    BY <1>7, <2>1 DEF Onb!Cancel, Onb!Typed, Onb!Exists, Onb!OnboardingBounds
<1>8. CASE Onb(i)!ClaimNext
  BY <1>8, OnboardingClaimed DEF Onb!Typed, Onb!Exists
<1>9. CASE Onb(i)!CheckOwners
  <2>0. /\ obWorker.w \in Onb(i)!Workflows /\ wf[obWorker.w] \in Onb(i)!Row
        /\ wf[obWorker.w].stage \in Onb(i)!Stages
    BY <1>9, OnboardingAtHand, OnboardingRow DEF Onb!CheckOwners
  <2>7. /\ [obWorker EXCEPT !.pc = "root"] \in Onb(i)!Desk
        /\ [obWorker EXCEPT !.pc = "register"] \in Onb(i)!Desk
    BY OnboardingTypes, OnboardingDesk
  <2>1. /\ wf' \in [Onb(i)!Workflows -> Onb(i)!Row]
        /\ note' \in [Onb(i)!Workflows -> Onb(i)!Outcomes \cup {Onb(i)!None}]
        /\ obWorker' \in Onb(i)!Desk
    BY <1>9, <2>0, OnboardingTypes, OnboardingSets, OnboardingParks, <2>7
       DEF Onb!CheckOwners, Onb!Block
  <2> QED
    BY <1>9, <2>1 DEF Onb!CheckOwners, Onb!Typed, Onb!Exists
<1>10. CASE Onb(i)!PrepareRoot
  <2>0. /\ obWorker.w \in Onb(i)!Workflows /\ wf[obWorker.w] \in Onb(i)!Row
        /\ wf[obWorker.w].stage \in Onb(i)!Stages
    BY <1>10, OnboardingAtHand, OnboardingRow DEF Onb!PrepareRoot
  <2>7. [wf[obWorker.w] EXCEPT !.stage = Onb(i)!AfterRoot(obWorker.w)] \in Onb(i)!Row
    BY <2>0, OnboardingSets, OnboardingRow DEF Onb!AfterRoot
  <2>1. /\ wf' \in [Onb(i)!Workflows -> Onb(i)!Row]
        /\ note' \in [Onb(i)!Workflows -> Onb(i)!Outcomes \cup {Onb(i)!None}]
        /\ obWorker' \in Onb(i)!Desk
    BY <1>10, <2>0, OnboardingTypes, OnboardingSets, OnboardingParks, OnboardingMoves, <2>7
       DEF Onb!PrepareRoot, Onb!Fail
  <2> QED
    BY <1>10, <2>1 DEF Onb!PrepareRoot, Onb!Typed, Onb!Exists
<1>11. CASE Onb(i)!Connect
  <2>0. /\ obWorker.w \in Onb(i)!Workflows /\ wf[obWorker.w] \in Onb(i)!Row
        /\ wf[obWorker.w].stage \in Onb(i)!Stages
    BY <1>11, OnboardingAtHand, OnboardingRow DEF Onb!Connect
  <2>1. /\ wf' \in [Onb(i)!Workflows -> Onb(i)!Row]
        /\ note' \in [Onb(i)!Workflows -> Onb(i)!Outcomes \cup {Onb(i)!None}]
        /\ obWorker' \in Onb(i)!Desk
    BY <1>11, <2>0, OnboardingTypes, OnboardingSets, OnboardingParks, OnboardingMoves,
       OnboardingStops
       DEF Onb!Connect, Onb!PreflightFails, Onb!PreflightPasses, Onb!Block
  <2> QED
    BY <1>11, <2>1 DEF Onb!Connect, Onb!Typed, Onb!Exists
<1>12. CASE Onb(i)!SendCreate
  <2>0. /\ obWorker.w \in Onb(i)!Workflows /\ wf[obWorker.w] \in Onb(i)!Row
        /\ wf[obWorker.w].stage \in Onb(i)!Stages
    BY <1>12, OnboardingAtHand, OnboardingRow DEF Onb!SendCreate
  <2>7. [obWorker EXCEPT !.pc = "creating"] \in Onb(i)!Desk /\ Onb(i)!Idle \in Onb(i)!Desk
    BY OnboardingTypes, OnboardingDesk
  <2>1. /\ wf' \in [Onb(i)!Workflows -> Onb(i)!Row]
        /\ note' \in [Onb(i)!Workflows -> Onb(i)!Outcomes \cup {Onb(i)!None}]
        /\ obWorker' \in Onb(i)!Desk
    BY <1>12, <2>0, OnboardingTypes, OnboardingSets, OnboardingStops, <2>7
       DEF Onb!SendCreate
  <2>2. net' \subseteq Onb(i)!Workflows
    BY <1>12, <2>0 DEF Onb!SendCreate, Onb!Typed
  <2> QED
    BY <1>12, <2>1, <2>2 DEF Onb!SendCreate, Onb!Typed, Onb!Exists
<1>13. ASSUME NEW w \in Onb(i)!Workflows,
             Onb(i)!TelegramCreates(w)
      PROVE  Onb(i)!Typed'
  <2>1. obWorker' \in Onb(i)!Desk
    BY <1>13, OnboardingDesk
       DEF Onb!TelegramCreates, Onb!Typed, Onb!Exists, Onb!OnboardingBounds
  <2>2. net' \subseteq Onb(i)!Workflows
    BY <1>13
       DEF Onb!TelegramCreates, Onb!AtHand, Onb!StagesAt, Onb!Typed, Onb!Exists,
           Onb!OnboardingBounds
  <2>3. /\ Onb(i)!Exists' \subseteq Onb(i)!Groups
        /\ groups' \in [Onb(i)!Exists' -> SUBSET Onb(i)!Parts]
        /\ Onb(i)!Exists \subseteq Onb(i)!Exists'
    BY <1>13
       DEF Onb!TelegramCreates, Onb!Exists, Onb!Groups, Onb!Origins, Onb!AtHand,
           Onb!RowsFit, Onb!RowFits, Onb!StagesAt, Onb!LeasedStages, Onb!NoChat,
           Onb!Typed, Onb!OnboardingBounds
  <2> QED
    BY <1>13, <2>1, <2>2, <2>3
       DEF Onb!TelegramCreates, Onb!Typed, Onb!Exists, Onb!OnboardingBounds
<1>14. ASSUME NEW w \in Onb(i)!Workflows,
             Onb(i)!TelegramRefuses(w)
      PROVE  Onb(i)!Typed'
  <2>0. /\ obWorker.w \in Onb(i)!Workflows /\ wf[obWorker.w] \in Onb(i)!Row
        /\ wf[obWorker.w].stage \in Onb(i)!Stages
    BY <1>14, OnboardingAtHand, OnboardingRow DEF Onb!TelegramRefuses
  <2>1. /\ wf' \in [Onb(i)!Workflows -> Onb(i)!Row]
        /\ note' \in [Onb(i)!Workflows -> Onb(i)!Outcomes \cup {Onb(i)!None}]
        /\ obWorker' \in Onb(i)!Desk
    BY <1>14, <2>0, OnboardingTypes, OnboardingSets, OnboardingParks
       DEF Onb!TelegramRefuses, Onb!Block
  <2> QED
    BY <1>14, <2>1 DEF Onb!TelegramRefuses, Onb!Typed, Onb!Exists
<1>15. ASSUME NEW w \in Onb(i)!Workflows,
             Onb(i)!RequestLost(w)
      PROVE  Onb(i)!Typed'
  <2>1. net' \subseteq Onb(i)!Workflows
    BY <1>15
       DEF Onb!RequestLost, Onb!AtHand, Onb!StagesAt, Onb!Typed, Onb!Exists,
           Onb!OnboardingBounds
  <2> QED
    BY <1>15, <2>1 DEF Onb!RequestLost, Onb!Typed, Onb!Exists, Onb!OnboardingBounds
<1>16. CASE Onb(i)!CreateUnknown
  <2>0. /\ obWorker.w \in Onb(i)!Workflows /\ wf[obWorker.w] \in Onb(i)!Row
        /\ wf[obWorker.w].stage \in Onb(i)!Stages
    BY <1>16, OnboardingAtHand, OnboardingRow DEF Onb!CreateUnknown
  <2>1. /\ wf' \in [Onb(i)!Workflows -> Onb(i)!Row]
        /\ note' \in [Onb(i)!Workflows -> Onb(i)!Outcomes \cup {Onb(i)!None}]
        /\ obWorker' \in Onb(i)!Desk
    BY <1>16, <2>0, OnboardingTypes, OnboardingSets, OnboardingParks DEF Onb!CreateUnknown
  <2> QED
    BY <1>16, <2>1 DEF Onb!CreateUnknown, Onb!Typed, Onb!Exists
<1>17. CASE Onb(i)!MarkGroupCreated
  <2>0. /\ obWorker.w \in Onb(i)!Workflows /\ wf[obWorker.w] \in Onb(i)!Row
        /\ wf[obWorker.w].stage \in Onb(i)!Stages
    BY <1>17, OnboardingAtHand, OnboardingRow DEF Onb!MarkGroupCreated
  <2>7. \A g \in Onb(i)!Groups :
            [wf[obWorker.w] EXCEPT !.stage = "configuring_group", !.chat = g] \in Onb(i)!Row
    BY <2>0, OnboardingSets, OnboardingRow
  <2>6. /\ <<obWorker.w, "again">> \in Onb(i)!Groups
        /\ <<obWorker.w, "made">> \in Onb(i)!Groups
    BY <2>0 DEF Onb!Groups, Onb!Origins
  <2>1. /\ wf' \in [Onb(i)!Workflows -> Onb(i)!Row]
        /\ note' \in [Onb(i)!Workflows -> Onb(i)!Outcomes \cup {Onb(i)!None}]
        /\ obWorker' \in Onb(i)!Desk
    BY <1>17, <2>0, OnboardingTypes, OnboardingSets, OnboardingMoves, <2>6, <2>7
       DEF Onb!MarkGroupCreated
  <2> QED
    BY <1>17, <2>1 DEF Onb!MarkGroupCreated, Onb!Typed, Onb!Exists
<1>18. CASE Onb(i)!Install
  <2>0. /\ obWorker.w \in Onb(i)!Workflows /\ wf[obWorker.w] \in Onb(i)!Row
        /\ wf[obWorker.w].stage \in Onb(i)!Stages
    BY <1>18, OnboardingAtHand, OnboardingRow DEF Onb!Install
  <2>7. \A x : [obWorker EXCEPT !.todo = obWorker.todo \ {x}] \in Onb(i)!Desk
    BY OnboardingTypes, OnboardingDesk
  <2>1. /\ wf' \in [Onb(i)!Workflows -> Onb(i)!Row]
        /\ note' \in [Onb(i)!Workflows -> Onb(i)!Outcomes \cup {Onb(i)!None}]
        /\ obWorker' \in Onb(i)!Desk
    BY <1>18, <2>0, OnboardingTypes, OnboardingSets, OnboardingParks, OnboardingStops, <2>7
       DEF Onb!Install, Onb!Block
  <2>2. /\ DOMAIN groups' = DOMAIN groups
        /\ groups' \in [DOMAIN groups -> SUBSET Onb(i)!Parts]
    BY <1>18, <2>0 DEF Onb!Install, Onb!Typed, Onb!Exists, Onb!NextPart, Onb!Parts
  <2> QED
    BY <1>18, <2>1, <2>2 DEF Onb!Install, Onb!Typed, Onb!Exists
<1>19. CASE Onb(i)!Verify
  <2>0. /\ obWorker.w \in Onb(i)!Workflows /\ wf[obWorker.w] \in Onb(i)!Row
        /\ wf[obWorker.w].stage \in Onb(i)!Stages
    BY <1>19, OnboardingAtHand, OnboardingRow DEF Onb!Verify
  <2>7. [wf[obWorker.w] EXCEPT !.stage = "committing_binding"] \in Onb(i)!Row
    BY <2>0, OnboardingSets, OnboardingRow
  <2>1. /\ wf' \in [Onb(i)!Workflows -> Onb(i)!Row]
        /\ note' \in [Onb(i)!Workflows -> Onb(i)!Outcomes \cup {Onb(i)!None}]
        /\ obWorker' \in Onb(i)!Desk
    BY <1>19, <2>0, OnboardingTypes, OnboardingSets, OnboardingParks, OnboardingMoves, <2>7
       DEF Onb!Verify
  <2> QED
    BY <1>19, <2>1 DEF Onb!Verify, Onb!Typed, Onb!Exists
<1>20. CASE Onb(i)!EnsureProject
  <2>0. /\ obWorker.w \in Onb(i)!Workflows /\ wf[obWorker.w] \in Onb(i)!Row
        /\ wf[obWorker.w].stage \in Onb(i)!Stages
    BY <1>20, OnboardingAtHand, OnboardingRow DEF Onb!EnsureProject
  <2>7. [obWorker EXCEPT !.pc = "bind"] \in Onb(i)!Desk
    BY OnboardingTypes, OnboardingDesk
  <2>1. /\ wf' \in [Onb(i)!Workflows -> Onb(i)!Row]
        /\ note' \in [Onb(i)!Workflows -> Onb(i)!Outcomes \cup {Onb(i)!None}]
        /\ obWorker' \in Onb(i)!Desk
    BY <1>20, <2>0, OnboardingTypes, OnboardingSets, OnboardingParks, <2>7
       DEF Onb!EnsureProject, Onb!Fail
  <2>2. registry' \in [Onboardings[i].Projects -> Onboardings[i].Projects \cup {Onb(i)!None}]
    BY <1>20, <2>0
       DEF Onb!EnsureProject, Onb!Typed, Onb!Holds, Onb!RowsFit, Onb!RowFits,
           Onb!LeasedStages
  <2> QED
    BY <1>20, <2>1, <2>2 DEF Onb!EnsureProject, Onb!Typed, Onb!Exists
<1>21. CASE Onb(i)!Complete
  <2>0. /\ obWorker.w \in Onb(i)!Workflows /\ wf[obWorker.w] \in Onb(i)!Row
        /\ wf[obWorker.w].stage \in Onb(i)!Stages
    BY <1>21, OnboardingAtHand, OnboardingRow DEF Onb!Complete
  <2>1. Onb(i)!Released(wf[obWorker.w], "completed") \in Onb(i)!Row
    BY <2>0, OnboardingSets, OnboardingRow DEF Onb!Released
  <2>2. obWorker' \in Onb(i)!Desk
    BY <1>21, OnboardingDesk DEF Onb!Complete
  <2>3. CASE UNCHANGED <<wf, bindings, note>>
    BY <1>21, <2>2, <2>3 DEF Onb!Complete, Onb!Typed, Onb!Exists
  <2>4. CASE ~UNCHANGED <<wf, bindings, note>>
    <3>1. /\ Onb(i)!Holds(obWorker.w, "committing_binding")
          /\ bindings' = bindings \cup {Onb(i)!Binding(obWorker.w)}
          /\ wf' = [wf EXCEPT ![obWorker.w] = Onb(i)!Released(wf[obWorker.w], "completed")]
          /\ note' = [note EXCEPT ![obWorker.w] = "completed"]
      BY <1>21, <2>4 DEF Onb!Complete
    <3>2. /\ wf' \in [Onb(i)!Workflows -> Onb(i)!Row]
          /\ note' \in [Onb(i)!Workflows -> Onb(i)!Outcomes \cup {Onb(i)!None}]
      BY <2>1, OnboardingTypes, OnboardingSets, <3>1
    <3>3. Onb(i)!Binding(obWorker.w)
             \in [project : Onboardings[i].Projects, chat : Onb(i)!Exists, wf : Onb(i)!Workflows]
      BY <2>0, <3>1 DEF Onb!Holds, Onb!Binding, Onb!RowsFit, Onb!RowFits, Onb!LeasedStages
    <3> QED
      BY <1>21, <2>2, <3>1, <3>2, <3>3 DEF Onb!Complete, Onb!Typed, Onb!Exists
  <2> QED
    BY <2>3, <2>4
<1>22. CASE Onb(i)!Crash
  <2>1. obWorker' \in Onb(i)!Desk
    BY <1>22, OnboardingDesk
       DEF Onb!Crash, Onb!Fault, Onb!Idle, Onb!Typed, Onb!Exists, Onb!OnboardingBounds
  <2> QED
    BY <1>22, <2>1
       DEF Onb!Crash, Onb!Fault, Onb!Idle, Onb!Typed, Onb!Exists, Onb!OnboardingBounds
<1>23. ASSUME NEW w \in Onb(i)!Workflows,
             Onb(i)!LeaseLapses(w)
      PROVE  Onb(i)!Typed'
  <2>1. wf' \in [Onb(i)!Workflows -> Onb(i)!Row]
    BY <1>23, OnboardingRow
       DEF Onb!LeaseLapses, Onb!Fault, Onb!WizardStages, Onb!LeasedStages,
           Onb!UnknownStages, Onb!ClosedStages, Onb!Stages, Onb!None, Onb!Typed,
           Onb!Exists, Onb!OnboardingBounds
  <2> QED
    BY <1>23, <2>1
       DEF Onb!LeaseLapses, Onb!Fault, Onb!Typed, Onb!Exists, Onb!OnboardingBounds
<1>24. ASSUME NEW w \in Onb(i)!Workflows, NEW g \in Onb(i)!Groups,
             Onb(i)!Reconcile(w, g)
      PROVE  Onb(i)!Typed'
  <2>1. wf' \in [Onb(i)!Workflows -> Onb(i)!Row]
    BY <1>24, OnboardingRow
       DEF Onb!Reconcile, Onb!Fault, Onb!WizardStages, Onb!LeasedStages,
           Onb!UnknownStages, Onb!ClosedStages, Onb!Stages, Onb!None, Onb!Typed,
           Onb!Exists, Onb!OnboardingBounds
  <2>2. /\ Onb(i)!Exists' \subseteq Onb(i)!Groups
        /\ groups' \in [Onb(i)!Exists' -> SUBSET Onb(i)!Parts]
        /\ Onb(i)!Exists \subseteq Onb(i)!Exists'
    BY <1>24
       DEF Onb!Reconcile, Onb!Fault, Onb!Exists, Onb!Groups, Onb!Origins, Onb!AtHand,
           Onb!RowsFit, Onb!RowFits, Onb!StagesAt, Onb!LeasedStages, Onb!NoChat,
           Onb!Typed, Onb!OnboardingBounds
  <2> QED
    BY <1>24, <2>1, <2>2
       DEF Onb!Reconcile, Onb!Fault, Onb!Typed, Onb!Exists, Onb!OnboardingBounds
<1>25. ASSUME NEW w \in Onb(i)!Workflows,
             Onb(i)!ResumeBlocked(w)
      PROVE  Onb(i)!Typed'
  <2>1. wf' \in [Onb(i)!Workflows -> Onb(i)!Row]
    BY <1>25, OnboardingRow
       DEF Onb!ResumeBlocked, Onb!Fault, Onb!WizardStages, Onb!LeasedStages,
           Onb!UnknownStages, Onb!ClosedStages, Onb!Stages, Onb!None, Onb!Typed,
           Onb!Exists, Onb!OnboardingBounds
  <2> QED
    BY <1>25, <2>1
       DEF Onb!ResumeBlocked, Onb!Fault, Onb!Typed, Onb!Exists, Onb!OnboardingBounds
<1>26. CASE Onb(i)!ChangeOwners
  <2>1. cfg' \in Nat
    BY <1>26 DEF Onb!ChangeOwners, Onb!Idle, Onb!Typed, Onb!Exists, Onb!OnboardingBounds
  <2> QED
    BY <1>26, <2>1
       DEF Onb!ChangeOwners, Onb!Idle, Onb!Typed, Onb!Exists, Onb!OnboardingBounds
<1>27. ASSUME NEW p \in Onboardings[i].Projects, NEW r \in Onboardings[i].Projects,
             Onb(i)!AddProject(p, r)
      PROVE  Onb(i)!Typed'
  <2>1. registry' \in [Onboardings[i].Projects -> Onboardings[i].Projects \cup {Onb(i)!None}]
    BY <1>27
       DEF Onb!AddProject, Onb!AtHand, Onb!RowsFit, Onb!RowFits, Onb!StagesAt, Onb!None,
           Onb!LeasedStages, Onb!Typed, Onb!Exists, Onb!OnboardingBounds
  <2>2. cfg' \in Nat
    BY <1>27 DEF Onb!AddProject, Onb!Typed, Onb!Exists, Onb!OnboardingBounds
  <2> QED
    BY <1>27, <2>1, <2>2 DEF Onb!AddProject, Onb!Typed, Onb!Exists, Onb!OnboardingBounds
<1> QED
  BY <1>1, <1>2, <1>3, <1>4, <1>5, <1>6, <1>7, <1>8, <1>9, <1>10, <1>11, <1>12, <1>13,
     <1>14, <1>15, <1>16, <1>17, <1>18, <1>19, <1>20, <1>21, <1>22, <1>23, <1>24, <1>25,
     <1>26, <1>27
     DEF Onb!Next, Onb!OwnerStep, Onb!ProvisionerStep, Onb!Outside

\* Every step leaves each workflow with what its stage asks for: a lease, a project,
\* a group, a complete group, a notice.
LEMMA OnboardingRows ==
    ASSUME NEW i \in DOMAIN Onboardings, Onb(i)!Typed, Onb(i)!RowsFit,
           Onb(i)!AtHand, Onb(i)!RequestsFit, Onb(i)!Next
    PROVE  Onb(i)!RowsFit'
<1> USE OnboardingAllowed
<1>1. ASSUME NEW o \in Onboardings[i].Owners,
             Onb(i)!Start(o)
      PROVE  Onb(i)!RowsFit'
  <2> SUFFICES ASSUME NEW v \in Onb(i)!Workflows PROVE Onb(i)!RowFits(v)'
    BY DEF Onb!RowsFit
  <2>1. wf[v] \in Onb(i)!Row /\ Onb(i)!RowFits(v)
    BY DEF Onb!Typed, Onb!RowsFit
  <2>2. CASE wf'[v] = wf[v]
    BY <1>1, <2>2, OnboardingOthers DEF Onb!Start
  <2>3. CASE wf'[v] = [wf[v] EXCEPT !.stage = "cancelled"] /\ wf[v].stage \in Onb(i)!WizardStages
    <3>1. /\ wf'[v].stage = "cancelled" /\ wf'[v].lease = wf[v].lease
          /\ wf'[v].resume = wf[v].resume /\ wf'[v].chat = wf[v].chat
      BY <2>1, <2>3 DEF Onb!Row
    <3> QED
      BY <2>1, <2>3, <3>1, OnboardingGroups
         DEF Onb!RowFits, Onb!Outcomes, Onb!UnknownStages, Onb!LeasedStages,
             Onb!WizardStages
  <2>4. CASE wf'[v] = [Onb(i)!NoWorkflow EXCEPT !.stage = "awaiting_name", !.owner = o]
    <3>1. /\ wf'[v].stage = "awaiting_name" /\ wf'[v].lease = Onb(i)!None
          /\ wf'[v].resume = Onb(i)!None /\ wf'[v].chat = Onb(i)!NoChat
      BY <2>4 DEF Onb!NoWorkflow
    <3> QED
      BY <3>1 DEF Onb!RowFits, Onb!Outcomes, Onb!UnknownStages, Onb!LeasedStages
  <2> QED
    BY <1>1, <2>2, <2>3, <2>4 DEF Onb!Start
<1>2. ASSUME NEW w \in Onb(i)!Workflows,
             Onb(i)!OutOfTime(w)
      PROVE  Onb(i)!RowsFit'
  <2>1. /\ \A v \in Onb(i)!Workflows \ {w} : wf'[v] = wf[v] /\ note'[v] = note[v]
    BY <1>2 DEF Onb!OutOfTime, Onb!Typed
  <2>2. wf[w] \in Onb(i)!Row /\ w \in DOMAIN wf /\ Onb(i)!RowFits(w)
    BY <1>2 DEF Onb!Typed, Onb!RowsFit
  <2>3. Onb(i)!RowFits(w)'
    BY <1>2, <2>2, OnboardingGroups
       DEF Onb!OutOfTime, Onb!WizardStages, Onb!LeasedStages, Onb!UnknownStages,
           Onb!Outcomes, Onb!None, Onb!NoChat, Onb!RowFits, Onb!Row
  <2> QED
    BY <2>1, <2>3, OnboardingOthers DEF Onb!RowsFit
<1>3. ASSUME NEW w \in Onb(i)!Workflows,
             Onb(i)!SetName(w)
      PROVE  Onb(i)!RowsFit'
  <2>1. /\ \A v \in Onb(i)!Workflows \ {w} : wf'[v] = wf[v] /\ note'[v] = note[v]
    BY <1>3 DEF Onb!SetName, Onb!Advance, Onb!Typed
  <2>2. wf[w] \in Onb(i)!Row /\ w \in DOMAIN wf /\ Onb(i)!RowFits(w)
    BY <1>3 DEF Onb!Typed, Onb!RowsFit
  <2>3. Onb(i)!RowFits(w)'
    BY <1>3, <2>2, OnboardingGroups
       DEF Onb!SetName, Onb!Advance, Onb!WizardStages, Onb!LeasedStages,
           Onb!UnknownStages, Onb!Outcomes, Onb!None, Onb!NoChat, Onb!RowFits, Onb!Row
  <2> QED
    BY <2>1, <2>3, OnboardingOthers DEF Onb!RowsFit
<1>4. ASSUME NEW w \in Onb(i)!Workflows,
             Onb(i)!SelectRoot(w)
      PROVE  Onb(i)!RowsFit'
  <2>1. /\ \A v \in Onb(i)!Workflows \ {w} : wf'[v] = wf[v] /\ note'[v] = note[v]
    BY <1>4 DEF Onb!SelectRoot, Onb!Advance, Onb!Typed
  <2>2. wf[w] \in Onb(i)!Row /\ w \in DOMAIN wf /\ Onb(i)!RowFits(w)
    BY <1>4 DEF Onb!Typed, Onb!RowsFit
  <2>3. Onb(i)!RowFits(w)'
    BY <1>4, <2>2, OnboardingGroups
       DEF Onb!SelectRoot, Onb!Advance, Onb!WizardStages, Onb!LeasedStages,
           Onb!UnknownStages, Onb!Outcomes, Onb!None, Onb!NoChat, Onb!RowFits, Onb!Row
  <2> QED
    BY <2>1, <2>3, OnboardingOthers DEF Onb!RowsFit
<1>5. ASSUME NEW w \in Onb(i)!Workflows, NEW p \in Onboardings[i].Projects,
             Onb(i)!SetFolder(w, p)
      PROVE  Onb(i)!RowsFit'
  <2>1. /\ \A v \in Onb(i)!Workflows \ {w} : wf'[v] = wf[v] /\ note'[v] = note[v]
    BY <1>5 DEF Onb!SetFolder, Onb!Advance, Onb!Typed
  <2>2. wf[w] \in Onb(i)!Row /\ w \in DOMAIN wf /\ Onb(i)!RowFits(w)
    BY <1>5 DEF Onb!Typed, Onb!RowsFit
  <2>3. Onb(i)!RowFits(w)'
    BY <1>5, <2>2, OnboardingGroups
       DEF Onb!SetFolder, Onb!Advance, Onb!WizardStages, Onb!LeasedStages,
           Onb!UnknownStages, Onb!Outcomes, Onb!None, Onb!NoChat, Onb!RowFits, Onb!Row
  <2> QED
    BY <2>1, <2>3, OnboardingOthers DEF Onb!RowsFit
<1>6. ASSUME NEW w \in Onb(i)!Workflows,
             Onb(i)!Confirm(w)
      PROVE  Onb(i)!RowsFit'
  <2>1. /\ \A v \in Onb(i)!Workflows \ {w} : wf'[v] = wf[v] /\ note'[v] = note[v]
    BY <1>6 DEF Onb!Confirm, Onb!Advance, Onb!Typed
  <2>2. wf[w] \in Onb(i)!Row /\ w \in DOMAIN wf /\ Onb(i)!RowFits(w)
    BY <1>6 DEF Onb!Typed, Onb!RowsFit
  <2>3. Onb(i)!RowFits(w)'
    BY <1>6, <2>2, OnboardingGroups
       DEF Onb!Confirm, Onb!Advance, Onb!WizardStages, Onb!LeasedStages,
           Onb!UnknownStages, Onb!Outcomes, Onb!None, Onb!NoChat, Onb!RowFits, Onb!Row
  <2> QED
    BY <2>1, <2>3, OnboardingOthers DEF Onb!RowsFit
<1>7. ASSUME NEW w \in Onb(i)!Workflows,
             Onb(i)!Cancel(w)
      PROVE  Onb(i)!RowsFit'
  <2>1. /\ \A v \in Onb(i)!Workflows \ {w} : wf'[v] = wf[v] /\ note'[v] = note[v]
    BY <1>7 DEF Onb!Cancel, Onb!Typed
  <2>2. wf[w] \in Onb(i)!Row /\ w \in DOMAIN wf /\ Onb(i)!RowFits(w)
    BY <1>7 DEF Onb!Typed, Onb!RowsFit
  <2>3. Onb(i)!RowFits(w)'
    BY <1>7, <2>2, OnboardingGroups
       DEF Onb!Cancel, Onb!WizardStages, Onb!LeasedStages, Onb!UnknownStages,
           Onb!Outcomes, Onb!None, Onb!NoChat, Onb!RowFits, Onb!Row
  <2> QED
    BY <2>1, <2>3, OnboardingOthers DEF Onb!RowsFit
<1>8. CASE Onb(i)!ClaimNext
  <2> SUFFICES ASSUME NEW v \in Onb(i)!Workflows PROVE Onb(i)!RowFits(v)'
    BY DEF Onb!RowsFit
  <2>1. Onb(i)!RowFits(v) /\ groups' = groups
    BY <1>8, OnboardingClaimed DEF Onb!RowsFit
  <2>2. CASE wf'[v] = wf[v] /\ note'[v] = note[v]
    BY <2>2, OnboardingOthers
  <2>3. CASE wf'[v] # wf[v] \/ note'[v] # note[v]
    BY <1>8, <2>1, <2>3, OnboardingClaimed, OnboardingSets DEF Onb!RowFits, Onb!Exists
  <2> QED
    BY <2>2, <2>3
<1>9. CASE Onb(i)!CheckOwners
  <2>0. /\ obWorker.w \in Onb(i)!Workflows /\ wf[obWorker.w] \in Onb(i)!Row
        /\ obWorker.w \in DOMAIN wf
        /\ wf[obWorker.w].stage \in Onb(i)!StagesAt[obWorker.pc] /\ Onb(i)!RowFits(obWorker.w)
    BY <1>9, OnboardingAtHand DEF Onb!CheckOwners, Onb!AtHand, Onb!Typed, Onb!RowsFit
  <2>1. wf[obWorker.w].stage \in Onb(i)!LeasedStages
    BY <1>9, <2>0, OnboardingSets DEF Onb!CheckOwners, Onb!StagesAt
  <2> QED
    BY <1>9, <2>0, <2>1, OnboardingSets, OnboardingParkFits, OnboardingOthers
       DEF Onb!CheckOwners, Onb!Block, Onb!RowsFit
<1>10. CASE Onb(i)!PrepareRoot
  <2>0. /\ obWorker.w \in Onb(i)!Workflows /\ wf[obWorker.w] \in Onb(i)!Row
        /\ obWorker.w \in DOMAIN wf
        /\ wf[obWorker.w].stage \in Onb(i)!StagesAt[obWorker.pc] /\ Onb(i)!RowFits(obWorker.w)
    BY <1>10, OnboardingAtHand DEF Onb!PrepareRoot, Onb!AtHand, Onb!Typed, Onb!RowsFit
  <2>1. CASE Onb(i)!Fail(obWorker.w, "preparing_root")
    BY <2>0, <2>1, OnboardingSets, OnboardingParkFits DEF Onb!Fail
  <2> DEFINE r == [wf[obWorker.w] EXCEPT !.stage = Onb(i)!AfterRoot(obWorker.w)]
  <2>2. /\ r.resume = wf[obWorker.w].resume /\ r.project = wf[obWorker.w].project
        /\ r.chat = wf[obWorker.w].chat /\ r.stage = Onb(i)!AfterRoot(obWorker.w)
    BY <2>0 DEF Onb!Row
  <2> HIDE DEF r
  <2>3. CASE note' = note /\ Onb(i)!Move(obWorker.w, "preparing_root", r, "connect")
    BY <2>0, <2>2, <2>3, OnboardingSets, OnboardingMoveFits DEF Onb!AfterRoot, Onb!RowFits
  <2> QED
    BY <1>10, <2>1, <2>3 DEF Onb!PrepareRoot, r
<1>11. CASE Onb(i)!Connect
  <2>0. /\ obWorker.w \in Onb(i)!Workflows /\ wf[obWorker.w] \in Onb(i)!Row
        /\ obWorker.w \in DOMAIN wf
        /\ wf[obWorker.w].stage \in Onb(i)!StagesAt[obWorker.pc] /\ Onb(i)!RowFits(obWorker.w)
    BY <1>11, OnboardingAtHand DEF Onb!Connect, Onb!AtHand, Onb!Typed, Onb!RowsFit
  <2>1. wf[obWorker.w].stage \in {"creating_group", "configuring_group"}
    BY <1>11, <2>0 DEF Onb!Connect, Onb!StagesAt
  <2>2. CASE Onb(i)!GuardStops(obWorker.w)
    BY <2>0, <2>2, OnboardingStopFits
  <2>3. CASE Onb(i)!PreflightFails(obWorker.w)
    BY <2>0, <2>1, <2>3, OnboardingSets, OnboardingParkFits
       DEF Onb!PreflightFails, Onb!Block
  <2>4. CASE Onb(i)!PreflightPasses(obWorker.w)
    BY <2>0, <2>1, <2>4, OnboardingSets, OnboardingMoveFits
       DEF Onb!PreflightPasses, Onb!RowFits
  <2> QED
    BY <1>11, <2>2, <2>3, <2>4 DEF Onb!Connect
<1>12. CASE Onb(i)!SendCreate
  <2>0. /\ obWorker.w \in Onb(i)!Workflows /\ wf[obWorker.w] \in Onb(i)!Row
        /\ obWorker.w \in DOMAIN wf
        /\ wf[obWorker.w].stage \in Onb(i)!StagesAt[obWorker.pc] /\ Onb(i)!RowFits(obWorker.w)
    BY <1>12, OnboardingAtHand DEF Onb!SendCreate, Onb!AtHand, Onb!Typed, Onb!RowsFit
  <2>1. CASE Onb(i)!GuardStops(obWorker.w)
    BY <2>0, <2>1, OnboardingStopFits
  <2>2. CASE wf' = wf /\ note' = note
    BY <2>2, OnboardingOthers DEF Onb!RowsFit
  <2> QED
    BY <1>12, <2>1, <2>2 DEF Onb!SendCreate
<1>13. ASSUME NEW w \in Onb(i)!Workflows,
             Onb(i)!TelegramCreates(w)
      PROVE  Onb(i)!RowsFit'
  BY <1>13, OnboardingOthers DEF Onb!TelegramCreates, Onb!RowsFit
<1>14. ASSUME NEW w \in Onb(i)!Workflows,
             Onb(i)!TelegramRefuses(w)
      PROVE  Onb(i)!RowsFit'
  <2>0. /\ obWorker.w \in Onb(i)!Workflows /\ wf[obWorker.w] \in Onb(i)!Row
        /\ obWorker.w \in DOMAIN wf
        /\ wf[obWorker.w].stage \in Onb(i)!StagesAt[obWorker.pc] /\ Onb(i)!RowFits(obWorker.w)
    BY <1>14, OnboardingAtHand DEF Onb!TelegramRefuses, Onb!AtHand, Onb!Typed, Onb!RowsFit
  <2>1. wf[obWorker.w].stage = "creating_group"
    BY <1>14, <2>0 DEF Onb!TelegramRefuses, Onb!StagesAt
  <2> QED
    BY <1>14, <2>0, <2>1, OnboardingSets, OnboardingParkFits
       DEF Onb!TelegramRefuses, Onb!Block
<1>15. ASSUME NEW w \in Onb(i)!Workflows,
             Onb(i)!RequestLost(w)
      PROVE  Onb(i)!RowsFit'
  BY <1>15, OnboardingOthers DEF Onb!RequestLost, Onb!RowsFit
<1>16. CASE Onb(i)!CreateUnknown
  <2>0. /\ obWorker.w \in Onb(i)!Workflows /\ wf[obWorker.w] \in Onb(i)!Row
        /\ obWorker.w \in DOMAIN wf
        /\ wf[obWorker.w].stage \in Onb(i)!StagesAt[obWorker.pc] /\ Onb(i)!RowFits(obWorker.w)
    BY <1>16, OnboardingAtHand DEF Onb!CreateUnknown, Onb!AtHand, Onb!Typed, Onb!RowsFit
  <2> QED
    BY <1>16, <2>0, OnboardingSets, OnboardingParkFits DEF Onb!CreateUnknown
<1>17. CASE Onb(i)!MarkGroupCreated
  <2>0. /\ obWorker.w \in Onb(i)!Workflows /\ wf[obWorker.w] \in Onb(i)!Row
        /\ obWorker.w \in DOMAIN wf
        /\ wf[obWorker.w].stage \in Onb(i)!StagesAt[obWorker.pc] /\ Onb(i)!RowFits(obWorker.w)
    BY <1>17, OnboardingAtHand
       DEF Onb!MarkGroupCreated, Onb!AtHand, Onb!Typed, Onb!RowsFit
  <2>1. PICK g \in {<<obWorker.w, "again">>, <<obWorker.w, "made">>} :
            /\ g \in Onb(i)!Exists
            /\ Onb(i)!Move(obWorker.w, "creating_group",
                   [wf[obWorker.w] EXCEPT !.stage = "configuring_group", !.chat = g], "configure")
    BY <1>17 DEF Onb!MarkGroupCreated, Onb!AtHand
  <2>2. g # Onb(i)!NoChat
    BY <2>0, OnboardingAllowed DEF Onb!NoChat, Onb!Workflows, Onb!OnboardingBounds
  <2> DEFINE r == [wf[obWorker.w] EXCEPT !.stage = "configuring_group", !.chat = g]
  <2>3. /\ r.resume = wf[obWorker.w].resume /\ r.project = wf[obWorker.w].project
        /\ r.chat = g /\ r.stage = "configuring_group"
    BY <2>0 DEF Onb!Row
  <2>4. note' = note /\ Onb(i)!Move(obWorker.w, "creating_group", r, "configure")
    BY <1>17, <2>1 DEF Onb!MarkGroupCreated
  <2> HIDE DEF r
  <2> QED
    BY <2>0, <2>1, <2>2, <2>3, <2>4, OnboardingSets, OnboardingMoveFits
<1>18. CASE Onb(i)!Install
  <2>0. /\ obWorker.w \in Onb(i)!Workflows /\ wf[obWorker.w] \in Onb(i)!Row
        /\ obWorker.w \in DOMAIN wf
        /\ wf[obWorker.w].stage \in Onb(i)!StagesAt[obWorker.pc] /\ Onb(i)!RowFits(obWorker.w)
    BY <1>18, OnboardingAtHand DEF Onb!Install, Onb!AtHand, Onb!Typed, Onb!RowsFit
  <2>1. CASE Onb(i)!GuardStops(obWorker.w)
    BY <2>0, <2>1, OnboardingStopFits
  <2>2. wf[obWorker.w].stage = "configuring_group"
    BY <1>18, <2>0 DEF Onb!Install, Onb!StagesAt
  <2>3. CASE Onb(i)!Block(obWorker.w)
    BY <2>0, <2>2, <2>3, OnboardingSets, OnboardingParkFits DEF Onb!Block
  <2>4. CASE Onb(i)!Park(obWorker.w, "configuring_group", "configuration_unknown", Onb(i)!None)
    BY <2>0, <2>4, OnboardingSets, OnboardingParkFits
  <2>5. CASE wf' = wf /\ note' = note
    BY <2>5, OnboardingOthers DEF Onb!RowsFit
  <2> QED
    BY <1>18, <2>1, <2>3, <2>4, <2>5 DEF Onb!Install
<1>19. CASE Onb(i)!Verify
  <2>0. /\ obWorker.w \in Onb(i)!Workflows /\ wf[obWorker.w] \in Onb(i)!Row
        /\ obWorker.w \in DOMAIN wf
        /\ wf[obWorker.w].stage \in Onb(i)!StagesAt[obWorker.pc] /\ Onb(i)!RowFits(obWorker.w)
    BY <1>19, OnboardingAtHand DEF Onb!Verify, Onb!AtHand, Onb!Typed, Onb!RowsFit
  <2>1. CASE Onb(i)!Park(obWorker.w, "configuring_group", "configuration_unknown", Onb(i)!None)
    BY <2>0, <2>1, OnboardingSets, OnboardingParkFits
  <2> DEFINE r == [wf[obWorker.w] EXCEPT !.stage = "committing_binding"]
  <2>2. /\ r.resume = wf[obWorker.w].resume /\ r.project = wf[obWorker.w].project
        /\ r.chat = wf[obWorker.w].chat /\ r.stage = "committing_binding"
    BY <2>0 DEF Onb!Row
  <2>3. wf[obWorker.w].stage = "configuring_group"
    BY <1>19, <2>0 DEF Onb!Verify, Onb!StagesAt
  <2>5. /\ wf[obWorker.w].chat \in Onb(i)!Exists \cup {Onb(i)!NoChat}
        /\ wf[obWorker.w].chat # Onb(i)!NoChat
    BY <2>0, <2>3 DEF Onb!RowFits
  <2> HIDE DEF r
  <2>4. CASE /\ groups[wf[obWorker.w].chat] = Onb(i)!Parts /\ note' = note
             /\ Onb(i)!Move(obWorker.w, "configuring_group", r, "register")
    BY <2>0, <2>2, <2>3, <2>4, <2>5, OnboardingSets, OnboardingMoveFits
  <2> QED
    BY <1>19, <2>1, <2>4 DEF Onb!Verify, r
<1>20. CASE Onb(i)!EnsureProject
  <2>0. /\ obWorker.w \in Onb(i)!Workflows /\ wf[obWorker.w] \in Onb(i)!Row
        /\ obWorker.w \in DOMAIN wf
        /\ wf[obWorker.w].stage \in Onb(i)!StagesAt[obWorker.pc] /\ Onb(i)!RowFits(obWorker.w)
    BY <1>20, OnboardingAtHand DEF Onb!EnsureProject, Onb!AtHand, Onb!Typed, Onb!RowsFit
  <2>1. CASE Onb(i)!Fail(obWorker.w, "committing_binding")
    BY <2>0, <2>1, OnboardingSets, OnboardingParkFits DEF Onb!Fail
  <2>2. CASE wf' = wf /\ note' = note
    BY <2>2, OnboardingOthers DEF Onb!RowsFit
  <2> QED
    BY <1>20, <2>1, <2>2 DEF Onb!EnsureProject
<1>21. CASE Onb(i)!Complete
  <2>0. /\ obWorker.w \in Onb(i)!Workflows /\ wf[obWorker.w] \in Onb(i)!Row
        /\ obWorker.w \in DOMAIN wf
        /\ wf[obWorker.w].stage \in Onb(i)!StagesAt[obWorker.pc] /\ Onb(i)!RowFits(obWorker.w)
    BY <1>21, OnboardingAtHand DEF Onb!Complete, Onb!AtHand, Onb!Typed, Onb!RowsFit
  <2>1. CASE wf' = wf /\ note' = note
    BY <2>1, OnboardingOthers DEF Onb!RowsFit
  <2>2. CASE /\ Onb(i)!Holds(obWorker.w, "committing_binding")
             /\ wf' = [wf EXCEPT ![obWorker.w] = Onb(i)!Released(wf[obWorker.w], "completed")]
             /\ note' = [note EXCEPT ![obWorker.w] = "completed"]
    <3>0. PICK w \in Onb(i)!Workflows : w = obWorker.w
      BY <2>0
    <3>1. \A v \in Onb(i)!Workflows \ {w} : wf'[v] = wf[v] /\ note'[v] = note[v]
      BY <2>2, <3>0 DEF Onb!Typed
    <3>2. /\ wf'[w].stage = "completed" /\ wf'[w].lease = Onb(i)!None
          /\ wf'[w].resume = wf[w].resume
          /\ wf'[w].project = wf[w].project
          /\ wf'[w].chat = wf[w].chat
          /\ note'[w] = "completed" /\ wf[w].stage = "committing_binding"
      BY <2>0, <2>2, <3>0 DEF Onb!Row, Onb!Released, Onb!Typed, Onb!Holds
    <3>3. Onb(i)!RowFits(w)'
      BY <2>0, <3>0, <3>2, OnboardingGroups
         DEF Onb!RowFits, Onb!Outcomes, Onb!UnknownStages, Onb!LeasedStages, Onb!None
    <3> QED
      BY <3>1, <3>3, OnboardingOthers DEF Onb!RowsFit
  <2> QED
    BY <1>21, <2>1, <2>2 DEF Onb!Complete
<1>22. CASE Onb(i)!Crash
  BY <1>22, OnboardingOthers DEF Onb!Crash, Onb!RowsFit
<1>23. ASSUME NEW w \in Onb(i)!Workflows,
             Onb(i)!LeaseLapses(w)
      PROVE  Onb(i)!RowsFit'
  <2>1. /\ \A v \in Onb(i)!Workflows \ {w} : wf'[v] = wf[v] /\ note'[v] = note[v]
    BY <1>23 DEF Onb!LeaseLapses, Onb!Typed
  <2>2. wf[w] \in Onb(i)!Row /\ w \in DOMAIN wf /\ Onb(i)!RowFits(w)
    BY <1>23 DEF Onb!Typed, Onb!RowsFit
  <2>3. Onb(i)!RowFits(w)'
    BY <1>23, <2>2, OnboardingGroups
       DEF Onb!LeaseLapses, Onb!WizardStages, Onb!LeasedStages, Onb!UnknownStages,
           Onb!Outcomes, Onb!None, Onb!NoChat, Onb!RowFits, Onb!Row
  <2> QED
    BY <2>1, <2>3, OnboardingOthers DEF Onb!RowsFit
<1>24. ASSUME NEW w \in Onb(i)!Workflows, NEW g \in Onb(i)!Groups,
             Onb(i)!Reconcile(w, g)
      PROVE  Onb(i)!RowsFit'
  <2>1. /\ \A v \in Onb(i)!Workflows \ {w} : wf'[v] = wf[v] /\ note'[v] = note[v]
    BY <1>24 DEF Onb!Reconcile, Onb!Typed
  <2>2. wf[w] \in Onb(i)!Row /\ w \in DOMAIN wf /\ Onb(i)!RowFits(w)
    BY <1>24 DEF Onb!Typed, Onb!RowsFit
  <2>3. Onb(i)!RowFits(w)'
    BY <1>24, <2>2, OnboardingGroups
       DEF Onb!Reconcile, Onb!WizardStages, Onb!LeasedStages, Onb!UnknownStages,
           Onb!Outcomes, Onb!None, Onb!NoChat, Onb!Exists, Onb!RowFits, Onb!Row
  <2> QED
    BY <2>1, <2>3, OnboardingOthers DEF Onb!RowsFit
<1>25. ASSUME NEW w \in Onb(i)!Workflows,
             Onb(i)!ResumeBlocked(w)
      PROVE  Onb(i)!RowsFit'
  <2>1. /\ \A v \in Onb(i)!Workflows \ {w} : wf'[v] = wf[v] /\ note'[v] = note[v]
    BY <1>25 DEF Onb!ResumeBlocked, Onb!Typed
  <2>2. wf[w] \in Onb(i)!Row /\ w \in DOMAIN wf /\ Onb(i)!RowFits(w)
    BY <1>25 DEF Onb!Typed, Onb!RowsFit
  <2>3. Onb(i)!RowFits(w)'
    BY <1>25, <2>2, OnboardingGroups
       DEF Onb!ResumeBlocked, Onb!WizardStages, Onb!LeasedStages, Onb!UnknownStages,
           Onb!Outcomes, Onb!None, Onb!NoChat, Onb!RowFits, Onb!Row
  <2> QED
    BY <2>1, <2>3, OnboardingOthers DEF Onb!RowsFit
<1>26. CASE Onb(i)!ChangeOwners
  BY <1>26, OnboardingOthers DEF Onb!ChangeOwners, Onb!RowsFit
<1>27. ASSUME NEW p \in Onboardings[i].Projects, NEW r \in Onboardings[i].Projects,
             Onb(i)!AddProject(p, r)
      PROVE  Onb(i)!RowsFit'
  BY <1>27, OnboardingOthers DEF Onb!AddProject, Onb!RowsFit
<1> QED
  BY <1>1, <1>2, <1>3, <1>4, <1>5, <1>6, <1>7, <1>8, <1>9, <1>10, <1>11, <1>12, <1>13,
     <1>14, <1>15, <1>16, <1>17, <1>18, <1>19, <1>20, <1>21, <1>22, <1>23, <1>24, <1>25,
     <1>26, <1>27
     DEF Onb!Next, Onb!OwnerStep, Onb!ProvisionerStep, Onb!Outside

\* Every step leaves the provisioner on a workflow that is at the stage it works on.
LEMMA OnboardingHand ==
    ASSUME NEW i \in DOMAIN Onboardings, Onb(i)!Typed, Onb(i)!RowsFit,
           Onb(i)!AtHand, Onb(i)!Next
    PROVE  Onb(i)!AtHand'
<1> USE OnboardingAllowed
<1>1. ASSUME NEW o \in Onboardings[i].Owners,
             Onb(i)!Start(o)
      PROVE  Onb(i)!AtHand'
  <2>1. PICK v : v = obWorker.w
    OBVIOUS
  <2>2. obWorker.pc # "idle" => v \in Onb(i)!Workflows /\ wf[v].stage \in Onb(i)!LeasedStages
                             /\ wf[v] \in Onb(i)!Row
    BY <2>1 DEF Onb!AtHand, Onb!StagesAt, Onb!LeasedStages, Onb!Typed, Onb!Desk
  <2>3. obWorker.pc # "idle" => wf'[v].stage = wf[v].stage /\ wf'[v].project = wf[v].project
    BY <1>1, <2>2 DEF Onb!Start, Onb!WizardStages, Onb!LeasedStages, Onb!Typed
  <2> QED
    BY <1>1, <2>1, <2>3, OnboardingStays DEF Onb!Start, Onb!WizardStages, Onb!Exists
<1>2. ASSUME NEW w \in Onb(i)!Workflows,
             Onb(i)!OutOfTime(w)
      PROVE  Onb(i)!AtHand'
  <2>1. PICK v : v = obWorker.w
    OBVIOUS
  <2>2. obWorker.pc # "idle" => v \in Onb(i)!Workflows /\ wf[v].stage \in Onb(i)!LeasedStages
                             /\ wf[v] \in Onb(i)!Row
    BY <2>1 DEF Onb!AtHand, Onb!StagesAt, Onb!LeasedStages, Onb!Typed, Onb!Desk
  <2>3. obWorker.pc # "idle" => wf'[v].stage = wf[v].stage /\ wf'[v].project = wf[v].project
    BY <1>2, <2>2 DEF Onb!OutOfTime, Onb!WizardStages, Onb!LeasedStages, Onb!Typed
  <2> QED
    BY <1>2, <2>1, <2>3, OnboardingStays DEF Onb!OutOfTime, Onb!WizardStages, Onb!Exists
<1>3. ASSUME NEW w \in Onb(i)!Workflows,
             Onb(i)!SetName(w)
      PROVE  Onb(i)!AtHand'
  <2>1. PICK v : v = obWorker.w
    OBVIOUS
  <2>2. obWorker.pc # "idle" => v \in Onb(i)!Workflows /\ wf[v].stage \in Onb(i)!LeasedStages
                             /\ wf[v] \in Onb(i)!Row
    BY <2>1 DEF Onb!AtHand, Onb!StagesAt, Onb!LeasedStages, Onb!Typed, Onb!Desk
  <2>3. obWorker.pc # "idle" => wf'[v].stage = wf[v].stage /\ wf'[v].project = wf[v].project
    BY <1>3, <2>2
       DEF Onb!SetName, Onb!Advance, Onb!WizardStages, Onb!LeasedStages, Onb!Typed
  <2> QED
    BY <1>3, <2>1, <2>3, OnboardingStays
       DEF Onb!SetName, Onb!Advance, Onb!WizardStages, Onb!Exists
<1>4. ASSUME NEW w \in Onb(i)!Workflows,
             Onb(i)!SelectRoot(w)
      PROVE  Onb(i)!AtHand'
  <2>1. PICK v : v = obWorker.w
    OBVIOUS
  <2>2. obWorker.pc # "idle" => v \in Onb(i)!Workflows /\ wf[v].stage \in Onb(i)!LeasedStages
                             /\ wf[v] \in Onb(i)!Row
    BY <2>1 DEF Onb!AtHand, Onb!StagesAt, Onb!LeasedStages, Onb!Typed, Onb!Desk
  <2>3. obWorker.pc # "idle" => wf'[v].stage = wf[v].stage /\ wf'[v].project = wf[v].project
    BY <1>4, <2>2
       DEF Onb!SelectRoot, Onb!Advance, Onb!WizardStages, Onb!LeasedStages, Onb!Typed
  <2> QED
    BY <1>4, <2>1, <2>3, OnboardingStays
       DEF Onb!SelectRoot, Onb!Advance, Onb!WizardStages, Onb!Exists
<1>5. ASSUME NEW w \in Onb(i)!Workflows, NEW p \in Onboardings[i].Projects,
             Onb(i)!SetFolder(w, p)
      PROVE  Onb(i)!AtHand'
  <2>1. PICK v : v = obWorker.w
    OBVIOUS
  <2>2. obWorker.pc # "idle" => v \in Onb(i)!Workflows /\ wf[v].stage \in Onb(i)!LeasedStages
                             /\ wf[v] \in Onb(i)!Row
    BY <2>1 DEF Onb!AtHand, Onb!StagesAt, Onb!LeasedStages, Onb!Typed, Onb!Desk
  <2>3. obWorker.pc # "idle" => wf'[v].stage = wf[v].stage /\ wf'[v].project = wf[v].project
    BY <1>5, <2>2
       DEF Onb!SetFolder, Onb!Advance, Onb!WizardStages, Onb!LeasedStages, Onb!Typed
  <2> QED
    BY <1>5, <2>1, <2>3, OnboardingStays
       DEF Onb!SetFolder, Onb!Advance, Onb!WizardStages, Onb!Exists
<1>6. ASSUME NEW w \in Onb(i)!Workflows,
             Onb(i)!Confirm(w)
      PROVE  Onb(i)!AtHand'
  <2>1. PICK v : v = obWorker.w
    OBVIOUS
  <2>2. obWorker.pc # "idle" => v \in Onb(i)!Workflows /\ wf[v].stage \in Onb(i)!LeasedStages
                             /\ wf[v] \in Onb(i)!Row
    BY <2>1 DEF Onb!AtHand, Onb!StagesAt, Onb!LeasedStages, Onb!Typed, Onb!Desk
  <2>3. obWorker.pc # "idle" => wf'[v].stage = wf[v].stage /\ wf'[v].project = wf[v].project
    BY <1>6, <2>2
       DEF Onb!Confirm, Onb!Advance, Onb!WizardStages, Onb!LeasedStages, Onb!Typed
  <2> QED
    BY <1>6, <2>1, <2>3, OnboardingStays
       DEF Onb!Confirm, Onb!Advance, Onb!WizardStages, Onb!Exists
<1>7. ASSUME NEW w \in Onb(i)!Workflows,
             Onb(i)!Cancel(w)
      PROVE  Onb(i)!AtHand'
  <2>1. PICK v : v = obWorker.w
    OBVIOUS
  <2>2. obWorker.pc # "idle" => v \in Onb(i)!Workflows /\ wf[v].stage \in Onb(i)!LeasedStages
                             /\ wf[v] \in Onb(i)!Row
    BY <2>1 DEF Onb!AtHand, Onb!StagesAt, Onb!LeasedStages, Onb!Typed, Onb!Desk
  <2>3. obWorker.pc # "idle" => wf'[v].stage = wf[v].stage /\ wf'[v].project = wf[v].project
    BY <1>7, <2>2 DEF Onb!Cancel, Onb!WizardStages, Onb!LeasedStages, Onb!Typed
  <2> QED
    BY <1>7, <2>1, <2>3, OnboardingStays DEF Onb!Cancel, Onb!WizardStages, Onb!Exists
<1>8. CASE Onb(i)!ClaimNext
  BY <1>8, OnboardingClaimed DEF Onb!AtHand, Onb!StagesAt
<1>9. CASE Onb(i)!CheckOwners
  <2>0. /\ obWorker.w \in Onb(i)!Workflows /\ wf[obWorker.w] \in Onb(i)!Row
        /\ obWorker.w \in DOMAIN wf
        /\ wf[obWorker.w].stage \in Onb(i)!StagesAt[obWorker.pc] /\ Onb(i)!RowFits(obWorker.w)
    BY <1>9, OnboardingAtHand DEF Onb!CheckOwners, Onb!AtHand, Onb!Typed, Onb!RowsFit
  <2>1. CASE Onb(i)!Block(obWorker.w)
    BY <2>1, OnboardingRests DEF Onb!Block, Onb!Park
  <2>2. CASE /\ obWorker' = [obWorker EXCEPT !.pc =
                   IF wf[obWorker.w].stage = "preparing_root" THEN "root" ELSE "register"]
             /\ wf' = wf
    <3>1. /\ obWorker'.w = obWorker.w
          /\ obWorker'.pc = IF wf[obWorker.w].stage = "preparing_root" THEN "root" ELSE "register"
      BY <2>2 DEF Onb!Typed, Onb!Desk
    <3>2. wf[obWorker.w].stage \in {"preparing_root", "committing_binding"}
      BY <1>9, <2>0 DEF Onb!CheckOwners, Onb!StagesAt
    <3> QED
      BY <2>0, <2>2, <3>1, <3>2 DEF Onb!AtHand, Onb!StagesAt
  <2> QED
    BY <1>9, <2>1, <2>2 DEF Onb!CheckOwners
<1>10. CASE Onb(i)!PrepareRoot
  <2>0. /\ obWorker.w \in Onb(i)!Workflows /\ wf[obWorker.w] \in Onb(i)!Row
        /\ obWorker.w \in DOMAIN wf
        /\ wf[obWorker.w].stage \in Onb(i)!StagesAt[obWorker.pc] /\ Onb(i)!RowFits(obWorker.w)
    BY <1>10, OnboardingAtHand DEF Onb!PrepareRoot, Onb!AtHand, Onb!Typed, Onb!RowsFit
  <2> DEFINE r == [wf[obWorker.w] EXCEPT !.stage = Onb(i)!AfterRoot(obWorker.w)]
  <2>1. r.stage \in {"creating_group", "configuring_group"}
    BY <1>10, <2>0 DEF Onb!PrepareRoot, Onb!StagesAt, Onb!Row, Onb!AfterRoot
  <2>2. ASSUME NEW w \in Onb(i)!Workflows, w = obWorker.w,
               Onb(i)!Move(w, "preparing_root", r, "connect")
        PROVE  Onb(i)!AtHand'
    <3> HIDE DEF r
    <3>1. \/ obWorker' = Onb(i)!Idle
          \/ wf'[w] = r /\ obWorker'.pc = "connect" /\ obWorker'.w = w
      BY <2>2, OnboardingMoved
    <3> QED
      BY <2>1, <3>1, OnboardingRests DEF Onb!AtHand, Onb!StagesAt
  <2>3. CASE Onb(i)!Fail(obWorker.w, "preparing_root")
    BY <2>3, OnboardingRests DEF Onb!Fail, Onb!Park
  <2> QED
    BY <1>10, <2>0, <2>2, <2>3 DEF Onb!PrepareRoot
<1>11. CASE Onb(i)!Connect
  <2>0. /\ obWorker.w \in Onb(i)!Workflows /\ wf[obWorker.w] \in Onb(i)!Row
        /\ obWorker.w \in DOMAIN wf
        /\ wf[obWorker.w].stage \in Onb(i)!StagesAt[obWorker.pc] /\ Onb(i)!RowFits(obWorker.w)
    BY <1>11, OnboardingAtHand DEF Onb!Connect, Onb!AtHand, Onb!Typed, Onb!RowsFit
  <2> DEFINE r == wf[obWorker.w]
  <2>1. r.stage \in {"creating_group", "configuring_group"}
    BY <1>11, <2>0 DEF Onb!Connect, Onb!StagesAt, Onb!Row, Onb!AfterRoot
  <2>2. ASSUME NEW w \in Onb(i)!Workflows, w = obWorker.w,
               Onb(i)!Move(w, wf[w].stage, r,
                  IF r.stage = "creating_group" THEN "create" ELSE "configure")
        PROVE  Onb(i)!AtHand'
    <3> HIDE DEF r
    <3>1. \/ obWorker' = Onb(i)!Idle
          \/ /\ wf'[w] = r /\ obWorker'.w = w
             /\ obWorker'.pc = IF r.stage = "creating_group" THEN "create" ELSE "configure"
      BY <2>2, OnboardingMoved
    <3> QED
      BY <2>1, <3>1, OnboardingRests DEF Onb!AtHand, Onb!StagesAt
  <2>3. CASE Onb(i)!GuardStops(obWorker.w)
    BY <2>3, OnboardingRests DEF Onb!GuardStops
  <2>4. CASE Onb(i)!PreflightFails(obWorker.w)
    BY <2>4, OnboardingRests DEF Onb!PreflightFails, Onb!Block, Onb!Park
  <2>5. CASE Onb(i)!PreflightPasses(obWorker.w)
    BY <2>0, <2>2, <2>5 DEF Onb!PreflightPasses
  <2> QED
    BY <1>11, <2>3, <2>4, <2>5 DEF Onb!Connect
<1>12. CASE Onb(i)!SendCreate
  <2>0. /\ obWorker.w \in Onb(i)!Workflows /\ wf[obWorker.w] \in Onb(i)!Row
        /\ obWorker.w \in DOMAIN wf
        /\ wf[obWorker.w].stage \in Onb(i)!StagesAt[obWorker.pc] /\ Onb(i)!RowFits(obWorker.w)
    BY <1>12, OnboardingAtHand DEF Onb!SendCreate, Onb!AtHand, Onb!Typed, Onb!RowsFit
  <2>1. CASE obWorker' = Onb(i)!Idle
    BY <2>1, OnboardingRests
  <2>2. CASE obWorker' = [obWorker EXCEPT !.pc = "creating"] /\ wf' = wf
    <3>1. obWorker'.pc = "creating" /\ obWorker'.w = obWorker.w
      BY <2>2 DEF Onb!Typed, Onb!Desk
    <3>2. wf[obWorker.w].stage = "creating_group"
      BY <1>12, <2>0 DEF Onb!SendCreate, Onb!StagesAt
    <3> QED
      BY <2>0, <2>2, <3>1, <3>2 DEF Onb!AtHand, Onb!StagesAt
  <2> QED
    BY <1>12, <2>1, <2>2 DEF Onb!SendCreate, Onb!GuardStops
<1>13. ASSUME NEW w \in Onb(i)!Workflows,
             Onb(i)!TelegramCreates(w)
      PROVE  Onb(i)!AtHand'
  <2>0. /\ DOMAIN groups \subseteq DOMAIN groups'
        /\ <<w, "made">> \in DOMAIN groups'
    BY <1>13 DEF Onb!TelegramCreates, Onb!Exists
  <2>1. CASE obWorker.pc = "creating" /\ obWorker.w = w
    <3>1. obWorker'.pc = "created" /\ obWorker'.w = w /\ wf' = wf
      BY <1>13, <2>1 DEF Onb!TelegramCreates, Onb!Typed, Onb!Desk
    <3> QED
      BY <1>13, <2>0, <2>1, <3>1 DEF Onb!AtHand, Onb!StagesAt, Onb!Exists
  <2>2. CASE ~(obWorker.pc = "creating" /\ obWorker.w = w)
    BY <1>13, <2>0, <2>2, OnboardingStays DEF Onb!TelegramCreates, Onb!Exists
  <2> QED
    BY <2>1, <2>2
<1>14. ASSUME NEW w \in Onb(i)!Workflows,
             Onb(i)!TelegramRefuses(w)
      PROVE  Onb(i)!AtHand'
  BY <1>14, OnboardingRests DEF Onb!TelegramRefuses, Onb!Block, Onb!Park
<1>15. ASSUME NEW w \in Onb(i)!Workflows,
             Onb(i)!RequestLost(w)
      PROVE  Onb(i)!AtHand'
  <2>1. PICK v : v = obWorker.w
    OBVIOUS
  <2>2. obWorker.pc # "idle" => v \in Onb(i)!Workflows /\ wf[v].stage \in Onb(i)!LeasedStages
                             /\ wf[v] \in Onb(i)!Row
    BY <2>1 DEF Onb!AtHand, Onb!StagesAt, Onb!LeasedStages, Onb!Typed, Onb!Desk
  <2>3. obWorker.pc # "idle" => wf'[v].stage = wf[v].stage /\ wf'[v].project = wf[v].project
    BY <1>15, <2>2 DEF Onb!RequestLost, Onb!LeasedStages, Onb!Typed
  <2> QED
    BY <1>15, <2>1, <2>3, OnboardingStays DEF Onb!RequestLost, Onb!Exists
<1>16. CASE Onb(i)!CreateUnknown
  BY <1>16, OnboardingRests DEF Onb!CreateUnknown, Onb!Park
<1>17. CASE Onb(i)!MarkGroupCreated
  <2>0. /\ obWorker.w \in Onb(i)!Workflows /\ wf[obWorker.w] \in Onb(i)!Row
        /\ obWorker.w \in DOMAIN wf
        /\ wf[obWorker.w].stage \in Onb(i)!StagesAt[obWorker.pc] /\ Onb(i)!RowFits(obWorker.w)
    BY <1>17, OnboardingAtHand
       DEF Onb!MarkGroupCreated, Onb!AtHand, Onb!Typed, Onb!RowsFit
  <2>1. PICK g :
            Onb(i)!Move(obWorker.w, "creating_group",
               [wf[obWorker.w] EXCEPT !.stage = "configuring_group", !.chat = g], "configure")
    BY <1>17 DEF Onb!MarkGroupCreated
  <2> DEFINE r == [wf[obWorker.w] EXCEPT !.stage = "configuring_group", !.chat = g]
  <2>2. r.stage = "configuring_group"
    BY <2>0 DEF Onb!Row
  <2>3. PICK w \in Onb(i)!Workflows :
            w = obWorker.w /\ Onb(i)!Move(w, "creating_group", r, "configure")
    BY <2>0, <2>1
  <2> HIDE DEF r
  <2>4. \/ obWorker' = Onb(i)!Idle
        \/ wf'[w] = r /\ obWorker'.pc = "configure" /\ obWorker'.w = w
    BY <2>3, OnboardingMoved
  <2> QED
    BY <2>2, <2>4, OnboardingRests DEF Onb!AtHand, Onb!StagesAt
<1>18. CASE Onb(i)!Install
  <2>0. /\ obWorker.w \in Onb(i)!Workflows /\ wf[obWorker.w] \in Onb(i)!Row
        /\ obWorker.w \in DOMAIN wf
        /\ wf[obWorker.w].stage \in Onb(i)!StagesAt[obWorker.pc] /\ Onb(i)!RowFits(obWorker.w)
    BY <1>18, OnboardingAtHand DEF Onb!Install, Onb!AtHand, Onb!Typed, Onb!RowsFit
  <2>1. CASE obWorker' = Onb(i)!Idle
    BY <2>1, OnboardingRests
  <2>2. CASE /\ \E x : obWorker' = [obWorker EXCEPT !.todo = @ \ {x}]
             /\ wf' = wf
    <3>1. obWorker'.pc = "configure" /\ obWorker'.w = obWorker.w
      BY <1>18, <2>2 DEF Onb!Install, Onb!Typed, Onb!Desk
    <3>2. wf[obWorker.w].stage = "configuring_group"
      BY <1>18, <2>0 DEF Onb!Install, Onb!StagesAt
    <3> QED
      BY <2>0, <2>2, <3>1, <3>2 DEF Onb!AtHand, Onb!StagesAt
  <2> QED
    BY <1>18, <2>1, <2>2 DEF Onb!Install, Onb!GuardStops, Onb!Park, Onb!Block
<1>19. CASE Onb(i)!Verify
  <2>0. /\ obWorker.w \in Onb(i)!Workflows /\ wf[obWorker.w] \in Onb(i)!Row
        /\ obWorker.w \in DOMAIN wf
        /\ wf[obWorker.w].stage \in Onb(i)!StagesAt[obWorker.pc] /\ Onb(i)!RowFits(obWorker.w)
    BY <1>19, OnboardingAtHand DEF Onb!Verify, Onb!AtHand, Onb!Typed, Onb!RowsFit
  <2> DEFINE r == [wf[obWorker.w] EXCEPT !.stage = "committing_binding"]
  <2>1. r.stage \in {"committing_binding"}
    BY <1>19, <2>0 DEF Onb!Verify, Onb!StagesAt, Onb!Row, Onb!AfterRoot
  <2>2. ASSUME NEW w \in Onb(i)!Workflows, w = obWorker.w,
               Onb(i)!Move(w, "configuring_group", r, "register")
        PROVE  Onb(i)!AtHand'
    <3> HIDE DEF r
    <3>1. \/ obWorker' = Onb(i)!Idle
          \/ wf'[w] = r /\ obWorker'.pc = "register" /\ obWorker'.w = w
      BY <2>2, OnboardingMoved
    <3> QED
      BY <2>1, <3>1, OnboardingRests DEF Onb!AtHand, Onb!StagesAt
  <2>3. CASE Onb(i)!Park(obWorker.w, "configuring_group", "configuration_unknown", Onb(i)!None)
    BY <2>3, OnboardingRests DEF Onb!Park
  <2> QED
    BY <1>19, <2>0, <2>2, <2>3 DEF Onb!Verify
<1>20. CASE Onb(i)!EnsureProject
  <2>0. /\ obWorker.w \in Onb(i)!Workflows /\ wf[obWorker.w] \in Onb(i)!Row
        /\ obWorker.w \in DOMAIN wf
        /\ wf[obWorker.w].stage \in Onb(i)!StagesAt[obWorker.pc] /\ Onb(i)!RowFits(obWorker.w)
    BY <1>20, OnboardingAtHand DEF Onb!EnsureProject, Onb!AtHand, Onb!Typed, Onb!RowsFit
  <2>1. CASE Onb(i)!Fail(obWorker.w, "committing_binding")
    BY <2>1, OnboardingRests DEF Onb!Fail, Onb!Park
  <2>2. CASE /\ Onb(i)!Holds(obWorker.w, "committing_binding")
             /\ registry' = [registry EXCEPT ![wf[obWorker.w].project] = wf[obWorker.w].project]
             /\ obWorker' = [obWorker EXCEPT !.pc = "bind"] /\ wf' = wf
    <3>1. obWorker'.pc = "bind" /\ obWorker'.w = obWorker.w
      BY <2>2 DEF Onb!Typed, Onb!Desk
    <3>2. wf[obWorker.w].stage = "committing_binding"
      BY <1>20, <2>0 DEF Onb!EnsureProject, Onb!StagesAt
    <3>3. registry'[wf[obWorker.w].project] = wf[obWorker.w].project
      BY <2>0, <2>2, OnboardingSets, <3>2 DEF Onb!Typed, Onb!RowFits
    <3> QED
      BY <2>0, <2>2, <3>1, <3>2, <3>3 DEF Onb!AtHand, Onb!StagesAt
  <2> QED
    BY <1>20, <2>1, <2>2 DEF Onb!EnsureProject
<1>21. CASE Onb(i)!Complete
  BY <1>21, OnboardingRests DEF Onb!Complete
<1>22. CASE Onb(i)!Crash
  BY <1>22, OnboardingRests DEF Onb!Crash
<1>23. ASSUME NEW w \in Onb(i)!Workflows,
             Onb(i)!LeaseLapses(w)
      PROVE  Onb(i)!AtHand'
  <2>1. PICK v : v = obWorker.w
    OBVIOUS
  <2>2. obWorker.pc # "idle" => v \in Onb(i)!Workflows /\ wf[v].stage \in Onb(i)!LeasedStages
                             /\ wf[v] \in Onb(i)!Row
    BY <2>1 DEF Onb!AtHand, Onb!StagesAt, Onb!LeasedStages, Onb!Typed, Onb!Desk
  <2>3. obWorker.pc # "idle" => wf'[v].stage = wf[v].stage /\ wf'[v].project = wf[v].project
    BY <1>23, <2>2 DEF Onb!LeaseLapses, Onb!Row, Onb!LeasedStages, Onb!Typed
  <2> QED
    BY <1>23, <2>1, <2>3, OnboardingStays DEF Onb!LeaseLapses, Onb!Row, Onb!Exists
<1>24. ASSUME NEW w \in Onb(i)!Workflows, NEW g \in Onb(i)!Groups,
             Onb(i)!Reconcile(w, g)
      PROVE  Onb(i)!AtHand'
  <2>1. PICK v : v = obWorker.w
    OBVIOUS
  <2>2. obWorker.pc # "idle" => v \in Onb(i)!Workflows /\ wf[v].stage \in Onb(i)!LeasedStages
                             /\ wf[v] \in Onb(i)!Row
    BY <2>1 DEF Onb!AtHand, Onb!StagesAt, Onb!LeasedStages, Onb!Typed, Onb!Desk
  <2>3. obWorker.pc # "idle" => wf'[v].stage = wf[v].stage /\ wf'[v].project = wf[v].project
    BY <1>24, <2>2 DEF Onb!Reconcile, Onb!UnknownStages, Onb!LeasedStages, Onb!Typed
  <2> QED
    BY <1>24, <2>1, <2>3, OnboardingStays DEF Onb!Reconcile, Onb!UnknownStages, Onb!Exists
<1>25. ASSUME NEW w \in Onb(i)!Workflows,
             Onb(i)!ResumeBlocked(w)
      PROVE  Onb(i)!AtHand'
  <2>1. PICK v : v = obWorker.w
    OBVIOUS
  <2>2. obWorker.pc # "idle" => v \in Onb(i)!Workflows /\ wf[v].stage \in Onb(i)!LeasedStages
                             /\ wf[v] \in Onb(i)!Row
    BY <2>1 DEF Onb!AtHand, Onb!StagesAt, Onb!LeasedStages, Onb!Typed, Onb!Desk
  <2>3. obWorker.pc # "idle" => wf'[v].stage = wf[v].stage /\ wf'[v].project = wf[v].project
    BY <1>25, <2>2 DEF Onb!ResumeBlocked, Onb!LeasedStages, Onb!Typed
  <2> QED
    BY <1>25, <2>1, <2>3, OnboardingStays DEF Onb!ResumeBlocked, Onb!Exists
<1>26. CASE Onb(i)!ChangeOwners
  BY <1>26, OnboardingStays DEF Onb!ChangeOwners, Onb!Exists
<1>27. ASSUME NEW p \in Onboardings[i].Projects, NEW r \in Onboardings[i].Projects,
             Onb(i)!AddProject(p, r)
      PROVE  Onb(i)!AtHand'
  <2>1. obWorker.pc = "bind" => wf[obWorker.w].project \in Onboardings[i].Projects
    BY DEF Onb!AtHand, Onb!StagesAt, Onb!RowsFit, Onb!RowFits, Onb!LeasedStages
  <2> QED
    BY <1>27, <2>1, OnboardingAllowed
       DEF Onb!AddProject, Onb!AtHand, Onb!Exists, Onb!Typed, Onb!OnboardingBounds
<1> QED
  BY <1>1, <1>2, <1>3, <1>4, <1>5, <1>6, <1>7, <1>8, <1>9, <1>10, <1>11, <1>12, <1>13,
     <1>14, <1>15, <1>16, <1>17, <1>18, <1>19, <1>20, <1>21, <1>22, <1>23, <1>24, <1>25,
     <1>26, <1>27
     DEF Onb!Next, Onb!OwnerStep, Onb!ProvisionerStep, Onb!Outside

\* Every step keeps the account of create requests and of the groups they make: none is
\* made twice, and none where the workflow does not say so.
LEMMA OnboardingRequests ==
    ASSUME NEW i \in DOMAIN Onboardings, Onb(i)!Typed, Onb(i)!RowsFit,
           Onb(i)!AtHand, Onb(i)!RequestsFit, Onb(i)!Next
    PROVE  Onb(i)!RequestsFit'
<1> USE OnboardingAllowed
<1>1. ASSUME NEW o \in Onboardings[i].Owners,
             Onb(i)!Start(o)
      PROVE  Onb(i)!RequestsFit'
  <2>1. ASSUME NEW v \in Onb(i)!Workflows PROVE Onb(i)!RequestFits(v)'
    <3>1. wf[v] \in Onb(i)!Row /\ Onb(i)!RequestFits(v)
      BY DEF Onb!Typed, Onb!RequestsFit
    <3>0. wf[v].stage = "unused" => wf[v].chat = Onb(i)!NoChat
      BY DEF Onb!RowsFit, Onb!RowFits
    <3>2. CASE wf'[v] = wf[v]
      BY <1>1, <3>2, OnboardingAsks DEF Onb!Start, Onb!NoWorkflow, Onb!Exists
    <3>3. CASE wf'[v] # wf[v]
      <4>1. wf'[v].chat = wf[v].chat /\ wf[v].stage \notin {"creating_group", "group_unknown"}
        BY <1>1, <3>0, <3>1, <3>3
           DEF Onb!Start, Onb!NoWorkflow, Onb!Row, Onb!WizardStages, Onb!Typed
      <4>2. v \notin net /\ (<<v, "made">> \in Onb(i)!Exists => wf[v].chat # Onb(i)!NoChat)
        BY <3>1, <4>1 DEF Onb!RequestFits
      <4> QED
        BY <1>1, <4>1, <4>2, OnboardingKnows DEF Onb!Start, Onb!NoWorkflow, Onb!Exists
    <3> QED
      BY <3>2, <3>3
  <2> QED
    BY <2>1 DEF Onb!RequestsFit
<1>2. ASSUME NEW w \in Onb(i)!Workflows,
             Onb(i)!OutOfTime(w)
      PROVE  Onb(i)!RequestsFit'
  <2>1. ASSUME NEW v \in Onb(i)!Workflows PROVE Onb(i)!RequestFits(v)'
    <3>1. wf[v] \in Onb(i)!Row /\ Onb(i)!RequestFits(v)
      BY DEF Onb!Typed, Onb!RequestsFit
    <3>2. CASE wf'[v] = wf[v]
      BY <1>2, <3>2, OnboardingAsks DEF Onb!OutOfTime, Onb!Exists
    <3>3. CASE wf'[v] # wf[v]
      <4>1. wf'[v].chat = wf[v].chat /\ wf[v].stage \notin {"creating_group", "group_unknown"}
        BY <1>2, <3>1, <3>3 DEF Onb!OutOfTime, Onb!Row, Onb!WizardStages, Onb!Typed
      <4>2. v \notin net /\ (<<v, "made">> \in Onb(i)!Exists => wf[v].chat # Onb(i)!NoChat)
        BY <3>1, <4>1 DEF Onb!RequestFits
      <4> QED
        BY <1>2, <4>1, <4>2, OnboardingKnows DEF Onb!OutOfTime, Onb!Exists
    <3> QED
      BY <3>2, <3>3
  <2> QED
    BY <2>1 DEF Onb!RequestsFit
<1>3. ASSUME NEW w \in Onb(i)!Workflows,
             Onb(i)!SetName(w)
      PROVE  Onb(i)!RequestsFit'
  <2>1. ASSUME NEW v \in Onb(i)!Workflows PROVE Onb(i)!RequestFits(v)'
    <3>1. wf[v] \in Onb(i)!Row /\ Onb(i)!RequestFits(v)
      BY DEF Onb!Typed, Onb!RequestsFit
    <3>2. CASE wf'[v] = wf[v]
      BY <1>3, <3>2, OnboardingAsks DEF Onb!SetName, Onb!Advance, Onb!Exists
    <3>3. CASE wf'[v] # wf[v]
      <4>1. wf'[v].chat = wf[v].chat /\ wf[v].stage \notin {"creating_group", "group_unknown"}
        BY <1>3, <3>1, <3>3
           DEF Onb!SetName, Onb!Advance, Onb!Row, Onb!WizardStages, Onb!Typed
      <4>2. v \notin net /\ (<<v, "made">> \in Onb(i)!Exists => wf[v].chat # Onb(i)!NoChat)
        BY <3>1, <4>1 DEF Onb!RequestFits
      <4> QED
        BY <1>3, <4>1, <4>2, OnboardingKnows DEF Onb!SetName, Onb!Advance, Onb!Exists
    <3> QED
      BY <3>2, <3>3
  <2> QED
    BY <2>1 DEF Onb!RequestsFit
<1>4. ASSUME NEW w \in Onb(i)!Workflows,
             Onb(i)!SelectRoot(w)
      PROVE  Onb(i)!RequestsFit'
  <2>1. ASSUME NEW v \in Onb(i)!Workflows PROVE Onb(i)!RequestFits(v)'
    <3>1. wf[v] \in Onb(i)!Row /\ Onb(i)!RequestFits(v)
      BY DEF Onb!Typed, Onb!RequestsFit
    <3>2. CASE wf'[v] = wf[v]
      BY <1>4, <3>2, OnboardingAsks DEF Onb!SelectRoot, Onb!Advance, Onb!Exists
    <3>3. CASE wf'[v] # wf[v]
      <4>1. wf'[v].chat = wf[v].chat /\ wf[v].stage \notin {"creating_group", "group_unknown"}
        BY <1>4, <3>1, <3>3
           DEF Onb!SelectRoot, Onb!Advance, Onb!Row, Onb!WizardStages, Onb!Typed
      <4>2. v \notin net /\ (<<v, "made">> \in Onb(i)!Exists => wf[v].chat # Onb(i)!NoChat)
        BY <3>1, <4>1 DEF Onb!RequestFits
      <4> QED
        BY <1>4, <4>1, <4>2, OnboardingKnows DEF Onb!SelectRoot, Onb!Advance, Onb!Exists
    <3> QED
      BY <3>2, <3>3
  <2> QED
    BY <2>1 DEF Onb!RequestsFit
<1>5. ASSUME NEW w \in Onb(i)!Workflows, NEW p \in Onboardings[i].Projects,
             Onb(i)!SetFolder(w, p)
      PROVE  Onb(i)!RequestsFit'
  <2>1. ASSUME NEW v \in Onb(i)!Workflows PROVE Onb(i)!RequestFits(v)'
    <3>1. wf[v] \in Onb(i)!Row /\ Onb(i)!RequestFits(v)
      BY DEF Onb!Typed, Onb!RequestsFit
    <3>2. CASE wf'[v] = wf[v]
      BY <1>5, <3>2, OnboardingAsks DEF Onb!SetFolder, Onb!Advance, Onb!Exists
    <3>3. CASE wf'[v] # wf[v]
      <4>1. wf'[v].chat = wf[v].chat /\ wf[v].stage \notin {"creating_group", "group_unknown"}
        BY <1>5, <3>1, <3>3
           DEF Onb!SetFolder, Onb!Advance, Onb!Row, Onb!WizardStages, Onb!Typed
      <4>2. v \notin net /\ (<<v, "made">> \in Onb(i)!Exists => wf[v].chat # Onb(i)!NoChat)
        BY <3>1, <4>1 DEF Onb!RequestFits
      <4> QED
        BY <1>5, <4>1, <4>2, OnboardingKnows DEF Onb!SetFolder, Onb!Advance, Onb!Exists
    <3> QED
      BY <3>2, <3>3
  <2> QED
    BY <2>1 DEF Onb!RequestsFit
<1>6. ASSUME NEW w \in Onb(i)!Workflows,
             Onb(i)!Confirm(w)
      PROVE  Onb(i)!RequestsFit'
  <2>1. ASSUME NEW v \in Onb(i)!Workflows PROVE Onb(i)!RequestFits(v)'
    <3>1. wf[v] \in Onb(i)!Row /\ Onb(i)!RequestFits(v)
      BY DEF Onb!Typed, Onb!RequestsFit
    <3>2. CASE wf'[v] = wf[v]
      BY <1>6, <3>2, OnboardingAsks DEF Onb!Confirm, Onb!Advance, Onb!Exists
    <3>3. CASE wf'[v] # wf[v]
      <4>1. wf'[v].chat = wf[v].chat /\ wf[v].stage \notin {"creating_group", "group_unknown"}
        BY <1>6, <3>1, <3>3
           DEF Onb!Confirm, Onb!Advance, Onb!Row, Onb!WizardStages, Onb!Typed
      <4>2. v \notin net /\ (<<v, "made">> \in Onb(i)!Exists => wf[v].chat # Onb(i)!NoChat)
        BY <3>1, <4>1 DEF Onb!RequestFits
      <4> QED
        BY <1>6, <4>1, <4>2, OnboardingKnows DEF Onb!Confirm, Onb!Advance, Onb!Exists
    <3> QED
      BY <3>2, <3>3
  <2> QED
    BY <2>1 DEF Onb!RequestsFit
<1>7. ASSUME NEW w \in Onb(i)!Workflows,
             Onb(i)!Cancel(w)
      PROVE  Onb(i)!RequestsFit'
  <2>1. ASSUME NEW v \in Onb(i)!Workflows PROVE Onb(i)!RequestFits(v)'
    <3>1. wf[v] \in Onb(i)!Row /\ Onb(i)!RequestFits(v)
      BY DEF Onb!Typed, Onb!RequestsFit
    <3>2. CASE wf'[v] = wf[v]
      BY <1>7, <3>2, OnboardingAsks DEF Onb!Cancel, Onb!Exists
    <3>3. CASE wf'[v] # wf[v]
      <4>1. wf'[v].chat = wf[v].chat /\ wf[v].stage \notin {"creating_group", "group_unknown"}
        BY <1>7, <3>1, <3>3 DEF Onb!Cancel, Onb!Row, Onb!WizardStages, Onb!Typed
      <4>2. v \notin net /\ (<<v, "made">> \in Onb(i)!Exists => wf[v].chat # Onb(i)!NoChat)
        BY <3>1, <4>1 DEF Onb!RequestFits
      <4> QED
        BY <1>7, <4>1, <4>2, OnboardingKnows DEF Onb!Cancel, Onb!Exists
    <3> QED
      BY <3>2, <3>3
  <2> QED
    BY <2>1 DEF Onb!RequestsFit
<1>8. CASE Onb(i)!ClaimNext
  <2> SUFFICES ASSUME NEW v \in Onb(i)!Workflows PROVE Onb(i)!RequestFits(v)'
    BY DEF Onb!RequestsFit
  <2>1. /\ obWorker'.pc \in {"idle", "check"} /\ Onb(i)!RequestFits(v) /\ wf'[v].chat = wf[v].chat
        /\ Onb(i)!Exists' = Onb(i)!Exists /\ net' = net
    BY <1>8, OnboardingClaimed DEF Onb!Exists, Onb!RequestsFit
  <2>2. \/ wf'[v].stage = wf[v].stage
        \/ wf[v].stage = "creating_group" /\ wf'[v].stage = "group_unknown"
        \/ wf[v].stage \notin {"creating_group", "group_unknown"}
    BY <1>8, OnboardingClaimed
  <2> QED
    BY <2>1, <2>2 DEF Onb!RequestFits, Onb!Stands
<1>9. CASE Onb(i)!CheckOwners
  <2>0. /\ obWorker.w \in Onb(i)!Workflows /\ wf[obWorker.w] \in Onb(i)!Row
        /\ obWorker.w \in DOMAIN wf
        /\ wf[obWorker.w].stage \in Onb(i)!StagesAt[obWorker.pc] /\ Onb(i)!RowFits(obWorker.w)
    BY <1>9, OnboardingAtHand DEF Onb!CheckOwners, Onb!AtHand, Onb!Typed, Onb!RowsFit
  <2>8. /\ Onb(i)!RequestFits(obWorker.w)
        /\ wf[obWorker.w].stage \notin {"creating_group", "group_unknown"} =>
              obWorker.w \notin net
              /\ (<<obWorker.w, "made">> \in Onb(i)!Exists => wf[obWorker.w].chat # Onb(i)!NoChat)
        /\ obWorker.pc \in {"connect", "create"} =>
              obWorker.w \notin net
              /\ (<<obWorker.w, "made">> \in Onb(i)!Exists => wf[obWorker.w].chat # Onb(i)!NoChat)
    BY <2>0 DEF Onb!RequestsFit, Onb!RequestFits, Onb!Stands, Onb!StagesAt
  <2>1. wf[obWorker.w].stage \in {"preparing_root", "committing_binding"}
    BY <1>9, <2>0 DEF Onb!CheckOwners, Onb!StagesAt
  <2>2. CASE Onb(i)!Block(obWorker.w)
    BY <1>9, <2>0, <2>1, <2>2, OnboardingSets, OnboardingParkAsks
       DEF Onb!CheckOwners, Onb!Block, Onb!Exists
  <2>3. CASE wf' = wf /\ obWorker'.pc \in {"root", "register"}
    BY <1>9, <2>3, OnboardingAsks DEF Onb!CheckOwners, Onb!Exists, Onb!RequestsFit
  <2> QED
    BY <1>9, <2>2, <2>3 DEF Onb!CheckOwners, Onb!Typed, Onb!Desk
<1>10. CASE Onb(i)!PrepareRoot
  <2>0. /\ obWorker.w \in Onb(i)!Workflows /\ wf[obWorker.w] \in Onb(i)!Row
        /\ obWorker.w \in DOMAIN wf
        /\ wf[obWorker.w].stage \in Onb(i)!StagesAt[obWorker.pc] /\ Onb(i)!RowFits(obWorker.w)
    BY <1>10, OnboardingAtHand DEF Onb!PrepareRoot, Onb!AtHand, Onb!Typed, Onb!RowsFit
  <2>8. /\ Onb(i)!RequestFits(obWorker.w)
        /\ wf[obWorker.w].stage \notin {"creating_group", "group_unknown"} =>
              obWorker.w \notin net
              /\ (<<obWorker.w, "made">> \in Onb(i)!Exists => wf[obWorker.w].chat # Onb(i)!NoChat)
        /\ obWorker.pc \in {"connect", "create"} =>
              obWorker.w \notin net
              /\ (<<obWorker.w, "made">> \in Onb(i)!Exists => wf[obWorker.w].chat # Onb(i)!NoChat)
    BY <2>0 DEF Onb!RequestsFit, Onb!RequestFits, Onb!Stands, Onb!StagesAt
  <2> DEFINE r == [wf[obWorker.w] EXCEPT !.stage = Onb(i)!AfterRoot(obWorker.w)]
  <2>1. wf[obWorker.w].stage = "preparing_root" /\ r.chat = wf[obWorker.w].chat
    BY <1>10, <2>0 DEF Onb!PrepareRoot, Onb!StagesAt, Onb!Row
  <2> HIDE DEF r
  <2>2. CASE Onb(i)!Fail(obWorker.w, "preparing_root")
    BY <1>10, <2>0, <2>1, <2>2, OnboardingSets, OnboardingParkAsks
       DEF Onb!PrepareRoot, Onb!Fail, Onb!Exists
  <2>3. CASE Onb(i)!Move(obWorker.w, "preparing_root", r, "connect")
    BY <1>10, <2>0, <2>1, <2>3, <2>8, OnboardingMoveAsks DEF Onb!PrepareRoot, Onb!Exists
  <2> QED
    BY <1>10, <2>2, <2>3 DEF Onb!PrepareRoot, r
<1>11. CASE Onb(i)!Connect
  <2>0. /\ obWorker.w \in Onb(i)!Workflows /\ wf[obWorker.w] \in Onb(i)!Row
        /\ obWorker.w \in DOMAIN wf
        /\ wf[obWorker.w].stage \in Onb(i)!StagesAt[obWorker.pc] /\ Onb(i)!RowFits(obWorker.w)
    BY <1>11, OnboardingAtHand DEF Onb!Connect, Onb!AtHand, Onb!Typed, Onb!RowsFit
  <2>8. /\ Onb(i)!RequestFits(obWorker.w)
        /\ wf[obWorker.w].stage \notin {"creating_group", "group_unknown"} =>
              obWorker.w \notin net
              /\ (<<obWorker.w, "made">> \in Onb(i)!Exists => wf[obWorker.w].chat # Onb(i)!NoChat)
        /\ obWorker.pc \in {"connect", "create"} =>
              obWorker.w \notin net
              /\ (<<obWorker.w, "made">> \in Onb(i)!Exists => wf[obWorker.w].chat # Onb(i)!NoChat)
    BY <2>0 DEF Onb!RequestsFit, Onb!RequestFits, Onb!Stands, Onb!StagesAt
  <2>1. /\ Onb(i)!Exists' = Onb(i)!Exists /\ net' = net /\ obWorker.pc = "connect"
        /\ wf[obWorker.w].stage \in Onb(i)!LeasedStages
    BY <1>11, <2>0, OnboardingSets DEF Onb!Connect, Onb!StagesAt, Onb!Exists
  <2>2. CASE Onb(i)!GuardStops(obWorker.w)
    BY <2>0, <2>1, <2>2, <2>8, OnboardingStopAsks
  <2>3. CASE Onb(i)!PreflightFails(obWorker.w)
    <3>1. wf[obWorker.w].stage = "creating_group" => wf[obWorker.w].chat = Onb(i)!NoChat
      BY <2>0 DEF Onb!RowFits
    <3> QED
      BY <2>0, <2>1, <2>3, <2>8, <3>1, OnboardingParkAsks
         DEF Onb!PreflightFails, Onb!Block
  <2>4. CASE Onb(i)!PreflightPasses(obWorker.w)
    BY <2>0, <2>1, <2>4, <2>8, OnboardingMoveAsks DEF Onb!PreflightPasses
  <2> QED
    BY <1>11, <2>2, <2>3, <2>4 DEF Onb!Connect
<1>12. CASE Onb(i)!SendCreate
  <2>0. /\ obWorker.w \in Onb(i)!Workflows /\ wf[obWorker.w] \in Onb(i)!Row
        /\ obWorker.w \in DOMAIN wf
        /\ wf[obWorker.w].stage \in Onb(i)!StagesAt[obWorker.pc] /\ Onb(i)!RowFits(obWorker.w)
    BY <1>12, OnboardingAtHand DEF Onb!SendCreate, Onb!AtHand, Onb!Typed, Onb!RowsFit
  <2>8. /\ Onb(i)!RequestFits(obWorker.w)
        /\ wf[obWorker.w].stage \notin {"creating_group", "group_unknown"} =>
              obWorker.w \notin net
              /\ (<<obWorker.w, "made">> \in Onb(i)!Exists => wf[obWorker.w].chat # Onb(i)!NoChat)
        /\ obWorker.pc \in {"connect", "create"} =>
              obWorker.w \notin net
              /\ (<<obWorker.w, "made">> \in Onb(i)!Exists => wf[obWorker.w].chat # Onb(i)!NoChat)
    BY <2>0 DEF Onb!RequestsFit, Onb!RequestFits, Onb!Stands, Onb!StagesAt
  <2>1. /\ Onb(i)!Exists' = Onb(i)!Exists /\ obWorker.pc = "create"
        /\ wf[obWorker.w].stage = "creating_group"
    BY <1>12, <2>0 DEF Onb!SendCreate, Onb!StagesAt, Onb!Exists
  <2>2. CASE Onb(i)!GuardStops(obWorker.w) /\ net' = net
    BY <2>0, <2>1, <2>2, <2>8, OnboardingStopAsks
  <2>3. CASE wf' = wf /\ obWorker' = Onb(i)!Idle /\ net' = net
    BY <2>1, <2>3, OnboardingAsks DEF Onb!Idle, Onb!RequestsFit
  <2>4. CASE /\ wf' = wf /\ net' = net \cup {obWorker.w}
             /\ obWorker' = [obWorker EXCEPT !.pc = "creating"]
    <3>0. PICK w \in Onb(i)!Workflows : w = obWorker.w
      BY <2>0
    <3>1. obWorker'.w = w /\ obWorker'.pc = "creating"
      BY <2>4, <3>0 DEF Onb!Typed, Onb!Desk
    <3>2. ASSUME NEW v \in Onb(i)!Workflows, v # w PROVE Onb(i)!RequestFits(v)'
      BY <2>1, <2>4, <3>0, <3>1, <3>2, OnboardingAsks
    <3>3. <<w, "made">> \notin Onb(i)!Exists
      BY <2>0, <2>1, <2>8, <3>0 DEF Onb!RowFits
    <3>4. Onb(i)!RequestFits(w)'
      BY <2>1, <2>4, <2>8, <3>0, <3>1, <3>3 DEF Onb!RequestFits, Onb!Stands
    <3> QED
      BY <3>2, <3>4 DEF Onb!RequestsFit
  <2> QED
    BY <1>12, <2>2, <2>3, <2>4 DEF Onb!SendCreate
<1>13. ASSUME NEW w \in Onb(i)!Workflows,
             Onb(i)!TelegramCreates(w)
      PROVE  Onb(i)!RequestsFit'
  <2>0. /\ w \in net /\ <<w, "made">> \notin Onb(i)!Exists
        /\ wf[w].stage \in {"creating_group", "group_unknown"}
        /\ ~Onb(i)!Stands(w, {"connect", "create", "created"})
    BY <1>13 DEF Onb!TelegramCreates, Onb!RequestsFit, Onb!RequestFits
  <2>1. /\ Onb(i)!Exists' = Onb(i)!Exists \cup {<<w, "made">>} /\ net' = net \ {w} /\ wf' = wf
        /\ obWorker' = IF obWorker.pc = "creating" /\ obWorker.w = w
                       THEN [obWorker EXCEPT !.pc = "created"] ELSE obWorker
    BY <1>13, <2>0 DEF Onb!TelegramCreates, Onb!Exists
  <2>2. obWorker'.w = obWorker.w
    BY <2>1 DEF Onb!Typed, Onb!Desk
  <2>3. ASSUME NEW v \in Onb(i)!Workflows, v # w PROVE Onb(i)!RequestFits(v)'
    BY <2>1, <2>2, <2>3, OnboardingAsks
  <2>4. Onb(i)!RequestFits(w)'
    <3>1. <<w, "again">> \notin Onb(i)!Exists'
      BY <2>1 DEF Onb!RequestsFit, Onb!RequestFits
    <3>2. ~Onb(i)!Stands(w, {"connect", "create", "creating"})'
      BY <2>0, <2>1 DEF Onb!Stands, Onb!Typed, Onb!Desk
    <3> QED
      BY <2>0, <2>1, <3>1, <3>2 DEF Onb!RequestFits
  <2> QED
    BY <2>3, <2>4 DEF Onb!RequestsFit
<1>14. ASSUME NEW w \in Onb(i)!Workflows,
             Onb(i)!TelegramRefuses(w)
      PROVE  Onb(i)!RequestsFit'
  <2>2. obWorker.pc = "creating" /\ obWorker.w = w /\ w \in net /\ net' = net \ {w}
        /\ groups' = groups
    BY <1>14 DEF Onb!TelegramRefuses
  <2>3. wf[w].stage = "creating_group"
    BY <2>2 DEF Onb!AtHand, Onb!StagesAt
  <2>4. <<w, "made">> \notin Onb(i)!Exists
    BY <2>2 DEF Onb!RequestsFit, Onb!RequestFits
  <2>0. obWorker.w = w /\ wf[w].stage = "creating_group" /\ net' = net \ {w}
        /\ Onb(i)!Exists' = Onb(i)!Exists /\ <<w, "made">> \notin Onb(i)!Exists
    BY <2>2, <2>3, <2>4 DEF Onb!Exists
  <2>1. "creating_group" \in Onb(i)!LeasedStages
    BY DEF Onb!LeasedStages
  <2> QED
    BY <1>14, <2>0, <2>1, OnboardingParkAsks DEF Onb!TelegramRefuses, Onb!Block
<1>15. ASSUME NEW w \in Onb(i)!Workflows,
             Onb(i)!RequestLost(w)
      PROVE  Onb(i)!RequestsFit'
  BY <1>15, OnboardingAsks DEF Onb!RequestLost, Onb!Exists, Onb!RequestsFit
<1>16. CASE Onb(i)!CreateUnknown
  <2>0. /\ obWorker.w \in Onb(i)!Workflows /\ wf[obWorker.w] \in Onb(i)!Row
        /\ obWorker.w \in DOMAIN wf
        /\ wf[obWorker.w].stage \in Onb(i)!StagesAt[obWorker.pc] /\ Onb(i)!RowFits(obWorker.w)
    BY <1>16, OnboardingAtHand DEF Onb!CreateUnknown, Onb!AtHand, Onb!Typed, Onb!RowsFit
  <2>8. /\ Onb(i)!RequestFits(obWorker.w)
        /\ wf[obWorker.w].stage \notin {"creating_group", "group_unknown"} =>
              obWorker.w \notin net
              /\ (<<obWorker.w, "made">> \in Onb(i)!Exists => wf[obWorker.w].chat # Onb(i)!NoChat)
        /\ obWorker.pc \in {"connect", "create"} =>
              obWorker.w \notin net
              /\ (<<obWorker.w, "made">> \in Onb(i)!Exists => wf[obWorker.w].chat # Onb(i)!NoChat)
    BY <2>0 DEF Onb!RequestsFit, Onb!RequestFits, Onb!Stands, Onb!StagesAt
  <2> QED
    BY <1>16, <2>0, OnboardingSets, OnboardingParkAsks DEF Onb!CreateUnknown, Onb!Exists
<1>17. CASE Onb(i)!MarkGroupCreated
  <2>0. /\ obWorker.w \in Onb(i)!Workflows /\ wf[obWorker.w] \in Onb(i)!Row
        /\ obWorker.w \in DOMAIN wf
        /\ wf[obWorker.w].stage \in Onb(i)!StagesAt[obWorker.pc] /\ Onb(i)!RowFits(obWorker.w)
    BY <1>17, OnboardingAtHand
       DEF Onb!MarkGroupCreated, Onb!AtHand, Onb!Typed, Onb!RowsFit
  <2>8. /\ Onb(i)!RequestFits(obWorker.w)
        /\ wf[obWorker.w].stage \notin {"creating_group", "group_unknown"} =>
              obWorker.w \notin net
              /\ (<<obWorker.w, "made">> \in Onb(i)!Exists => wf[obWorker.w].chat # Onb(i)!NoChat)
        /\ obWorker.pc \in {"connect", "create"} =>
              obWorker.w \notin net
              /\ (<<obWorker.w, "made">> \in Onb(i)!Exists => wf[obWorker.w].chat # Onb(i)!NoChat)
    BY <2>0 DEF Onb!RequestsFit, Onb!RequestFits, Onb!Stands, Onb!StagesAt
  <2>1. PICK g \in {<<obWorker.w, "again">>, <<obWorker.w, "made">>} :
            Onb(i)!Move(obWorker.w, "creating_group",
               [wf[obWorker.w] EXCEPT !.stage = "configuring_group", !.chat = g], "configure")
    BY <1>17 DEF Onb!MarkGroupCreated
  <2>2. g # Onb(i)!NoChat
    BY <2>0, OnboardingAllowed DEF Onb!NoChat, Onb!Workflows, Onb!OnboardingBounds
  <2> DEFINE r == [wf[obWorker.w] EXCEPT !.stage = "configuring_group", !.chat = g]
  <2>3. r.chat = g
    BY <2>0 DEF Onb!Row
  <2>4. Onb(i)!Move(obWorker.w, "creating_group", r, "configure")
    BY <2>1
  <2> HIDE DEF r
  <2>5. obWorker.w \notin net
    BY <1>17, <2>8 DEF Onb!MarkGroupCreated, Onb!RequestFits, Onb!Stands
  <2> QED
    BY <1>17, <2>0, <2>2, <2>3, <2>4, <2>5, OnboardingMoveAsks
       DEF Onb!MarkGroupCreated, Onb!Exists
<1>18. CASE Onb(i)!Install
  <2>0. /\ obWorker.w \in Onb(i)!Workflows /\ wf[obWorker.w] \in Onb(i)!Row
        /\ obWorker.w \in DOMAIN wf
        /\ wf[obWorker.w].stage \in Onb(i)!StagesAt[obWorker.pc] /\ Onb(i)!RowFits(obWorker.w)
    BY <1>18, OnboardingAtHand DEF Onb!Install, Onb!AtHand, Onb!Typed, Onb!RowsFit
  <2>8. /\ Onb(i)!RequestFits(obWorker.w)
        /\ wf[obWorker.w].stage \notin {"creating_group", "group_unknown"} =>
              obWorker.w \notin net
              /\ (<<obWorker.w, "made">> \in Onb(i)!Exists => wf[obWorker.w].chat # Onb(i)!NoChat)
        /\ obWorker.pc \in {"connect", "create"} =>
              obWorker.w \notin net
              /\ (<<obWorker.w, "made">> \in Onb(i)!Exists => wf[obWorker.w].chat # Onb(i)!NoChat)
    BY <2>0 DEF Onb!RequestsFit, Onb!RequestFits, Onb!Stands, Onb!StagesAt
  <2>1. /\ wf[obWorker.w].stage = "configuring_group" /\ net' = net
        /\ Onb(i)!Exists' = Onb(i)!Exists
    BY <1>18, <2>0 DEF Onb!Install, Onb!StagesAt, Onb!Exists
  <2>2. CASE Onb(i)!GuardStops(obWorker.w)
    BY <2>0, <2>1, <2>2, <2>8, OnboardingStopAsks
  <2>3. CASE Onb(i)!Block(obWorker.w)
    BY <2>0, <2>1, <2>3, OnboardingSets, OnboardingParkAsks DEF Onb!Block
  <2>4. CASE Onb(i)!Park(obWorker.w, "configuring_group", "configuration_unknown", Onb(i)!None)
    BY <2>0, <2>1, <2>4, OnboardingSets, OnboardingParkAsks
  <2>5. CASE wf' = wf /\ obWorker'.pc = "configure"
    BY <2>1, <2>5, OnboardingAsks DEF Onb!RequestsFit
  <2> QED
    BY <1>18, <2>2, <2>3, <2>4, <2>5 DEF Onb!Install, Onb!Typed, Onb!Desk
<1>19. CASE Onb(i)!Verify
  <2>0. /\ obWorker.w \in Onb(i)!Workflows /\ wf[obWorker.w] \in Onb(i)!Row
        /\ obWorker.w \in DOMAIN wf
        /\ wf[obWorker.w].stage \in Onb(i)!StagesAt[obWorker.pc] /\ Onb(i)!RowFits(obWorker.w)
    BY <1>19, OnboardingAtHand DEF Onb!Verify, Onb!AtHand, Onb!Typed, Onb!RowsFit
  <2>8. /\ Onb(i)!RequestFits(obWorker.w)
        /\ wf[obWorker.w].stage \notin {"creating_group", "group_unknown"} =>
              obWorker.w \notin net
              /\ (<<obWorker.w, "made">> \in Onb(i)!Exists => wf[obWorker.w].chat # Onb(i)!NoChat)
        /\ obWorker.pc \in {"connect", "create"} =>
              obWorker.w \notin net
              /\ (<<obWorker.w, "made">> \in Onb(i)!Exists => wf[obWorker.w].chat # Onb(i)!NoChat)
    BY <2>0 DEF Onb!RequestsFit, Onb!RequestFits, Onb!Stands, Onb!StagesAt
  <2> DEFINE r == [wf[obWorker.w] EXCEPT !.stage = "committing_binding"]
  <2>1. /\ wf[obWorker.w].stage = "configuring_group" /\ net' = net
        /\ Onb(i)!Exists' = Onb(i)!Exists /\ r.chat = wf[obWorker.w].chat
    BY <1>19, <2>0 DEF Onb!Verify, Onb!StagesAt, Onb!Exists, Onb!Row
  <2> HIDE DEF r
  <2>2. CASE Onb(i)!Park(obWorker.w, "configuring_group", "configuration_unknown", Onb(i)!None)
    BY <2>0, <2>1, <2>2, OnboardingSets, OnboardingParkAsks
  <2>3. CASE Onb(i)!Move(obWorker.w, "configuring_group", r, "register")
    BY <2>0, <2>1, <2>3, <2>8, OnboardingMoveAsks
  <2> QED
    BY <1>19, <2>2, <2>3 DEF Onb!Verify, r
<1>20. CASE Onb(i)!EnsureProject
  <2>0. /\ obWorker.w \in Onb(i)!Workflows /\ wf[obWorker.w] \in Onb(i)!Row
        /\ obWorker.w \in DOMAIN wf
        /\ wf[obWorker.w].stage \in Onb(i)!StagesAt[obWorker.pc] /\ Onb(i)!RowFits(obWorker.w)
    BY <1>20, OnboardingAtHand DEF Onb!EnsureProject, Onb!AtHand, Onb!Typed, Onb!RowsFit
  <2>8. /\ Onb(i)!RequestFits(obWorker.w)
        /\ wf[obWorker.w].stage \notin {"creating_group", "group_unknown"} =>
              obWorker.w \notin net
              /\ (<<obWorker.w, "made">> \in Onb(i)!Exists => wf[obWorker.w].chat # Onb(i)!NoChat)
        /\ obWorker.pc \in {"connect", "create"} =>
              obWorker.w \notin net
              /\ (<<obWorker.w, "made">> \in Onb(i)!Exists => wf[obWorker.w].chat # Onb(i)!NoChat)
    BY <2>0 DEF Onb!RequestsFit, Onb!RequestFits, Onb!Stands, Onb!StagesAt
  <2>1. /\ wf[obWorker.w].stage = "committing_binding" /\ net' = net
        /\ Onb(i)!Exists' = Onb(i)!Exists
    BY <1>20, <2>0 DEF Onb!EnsureProject, Onb!StagesAt, Onb!Exists
  <2>2. CASE Onb(i)!Fail(obWorker.w, "committing_binding")
    BY <2>0, <2>1, <2>2, OnboardingSets, OnboardingParkAsks DEF Onb!Fail
  <2>3. CASE wf' = wf /\ obWorker'.pc = "bind"
    BY <2>1, <2>3, OnboardingAsks DEF Onb!RequestsFit
  <2> QED
    BY <1>20, <2>2, <2>3 DEF Onb!EnsureProject, Onb!Typed, Onb!Desk
<1>21. CASE Onb(i)!Complete
  <2>0. /\ obWorker.w \in Onb(i)!Workflows /\ wf[obWorker.w] \in Onb(i)!Row
        /\ obWorker.w \in DOMAIN wf
        /\ wf[obWorker.w].stage \in Onb(i)!StagesAt[obWorker.pc] /\ Onb(i)!RowFits(obWorker.w)
    BY <1>21, OnboardingAtHand DEF Onb!Complete, Onb!AtHand, Onb!Typed, Onb!RowsFit
  <2>8. /\ Onb(i)!RequestFits(obWorker.w)
        /\ wf[obWorker.w].stage \notin {"creating_group", "group_unknown"} =>
              obWorker.w \notin net
              /\ (<<obWorker.w, "made">> \in Onb(i)!Exists => wf[obWorker.w].chat # Onb(i)!NoChat)
        /\ obWorker.pc \in {"connect", "create"} =>
              obWorker.w \notin net
              /\ (<<obWorker.w, "made">> \in Onb(i)!Exists => wf[obWorker.w].chat # Onb(i)!NoChat)
    BY <2>0 DEF Onb!RequestsFit, Onb!RequestFits, Onb!Stands, Onb!StagesAt
  <2>1. /\ wf[obWorker.w].stage = "committing_binding" /\ net' = net
        /\ Onb(i)!Exists' = Onb(i)!Exists /\ obWorker'.pc = "idle"
    BY <1>21, <2>0 DEF Onb!Complete, Onb!StagesAt, Onb!Exists, Onb!Idle
  <2>2. CASE wf' = wf
    BY <2>1, <2>2, OnboardingAsks DEF Onb!RequestsFit
  <2>3. CASE wf' = [wf EXCEPT ![obWorker.w] = Onb(i)!Released(wf[obWorker.w], "completed")]
    <3>0. PICK w \in Onb(i)!Workflows : w = obWorker.w
      BY <2>0
    <3>1. wf'[w].chat = wf[w].chat /\ \A v \in Onb(i)!Workflows \ {w} : wf'[v] = wf[v]
      BY <2>0, <2>3, <3>0 DEF Onb!Released, Onb!Row, Onb!Typed
    <3>2. Onb(i)!RequestFits(w)'
      BY <2>1, <2>8, <3>0, <3>1, OnboardingKnows
    <3> QED
      BY <2>1, <3>1, <3>2, OnboardingAsks DEF Onb!RequestsFit
  <2> QED
    BY <1>21, <2>2, <2>3 DEF Onb!Complete
<1>22. CASE Onb(i)!Crash
  BY <1>22, OnboardingAsks DEF Onb!Crash, Onb!Idle, Onb!Exists, Onb!RequestsFit
<1>23. ASSUME NEW w \in Onb(i)!Workflows,
             Onb(i)!LeaseLapses(w)
      PROVE  Onb(i)!RequestsFit'
  <2>1. ASSUME NEW v \in Onb(i)!Workflows PROVE Onb(i)!RequestFits(v)'
    <3>1. wf'[v].stage = wf[v].stage /\ wf'[v].chat = wf[v].chat
      BY <1>23 DEF Onb!LeaseLapses, Onb!Typed, Onb!Row
    <3> QED
      BY <1>23, <3>1, OnboardingAsks DEF Onb!LeaseLapses, Onb!Exists
  <2> QED
    BY <2>1 DEF Onb!RequestsFit
<1>24. ASSUME NEW w \in Onb(i)!Workflows, NEW g \in Onb(i)!Groups,
             Onb(i)!Reconcile(w, g)
      PROVE  Onb(i)!RequestsFit'
  <2>1. ASSUME NEW v \in Onb(i)!Workflows PROVE Onb(i)!RequestFits(v)'
    <3>1. \A x \in {"made", "again"} : <<v, x>> \in Onb(i)!Exists' => <<v, x>> \in Onb(i)!Exists
      BY <1>24 DEF Onb!Reconcile, Onb!Exists
    <3>2. CASE v # w
      <4>1. wf'[v] = wf[v]
        BY <1>24, <3>2 DEF Onb!Reconcile, Onb!Typed
      <4> QED
        BY <1>24, <3>1, <4>1, OnboardingAsks DEF Onb!Reconcile
    <3>3. CASE v = w
      <4>1. wf'[v].chat = g /\ v \notin net'
        BY <1>24, <3>3 DEF Onb!Reconcile, Onb!Typed, Onb!Row
      <4>2. g # Onb(i)!NoChat
        BY OnboardingAllowed
           DEF Onb!Groups, Onb!NoChat, Onb!Workflows, Onb!OnboardingBounds
      <4> QED
        BY <3>1, <4>1, <4>2, OnboardingKnows
    <3> QED
      BY <3>2, <3>3
  <2> QED
    BY <2>1 DEF Onb!RequestsFit
<1>25. ASSUME NEW w \in Onb(i)!Workflows,
             Onb(i)!ResumeBlocked(w)
      PROVE  Onb(i)!RequestsFit'
  <2>1. ASSUME NEW v \in Onb(i)!Workflows PROVE Onb(i)!RequestFits(v)'
    <3>1. wf[v] \in Onb(i)!Row /\ Onb(i)!RequestFits(v)
      BY DEF Onb!Typed, Onb!RequestsFit
    <3>2. CASE wf'[v] = wf[v]
      BY <1>25, <3>2, OnboardingAsks DEF Onb!ResumeBlocked, Onb!Exists
    <3>3. CASE wf'[v] # wf[v]
      <4>1. wf'[v].chat = wf[v].chat /\ wf[v].stage \notin {"creating_group", "group_unknown"}
        BY <1>25, <3>1, <3>3 DEF Onb!ResumeBlocked, Onb!Row, Onb!WizardStages, Onb!Typed
      <4>2. v \notin net /\ (<<v, "made">> \in Onb(i)!Exists => wf[v].chat # Onb(i)!NoChat)
        BY <3>1, <4>1 DEF Onb!RequestFits
      <4> QED
        BY <1>25, <4>1, <4>2, OnboardingKnows DEF Onb!ResumeBlocked, Onb!Exists
    <3> QED
      BY <3>2, <3>3
  <2> QED
    BY <2>1 DEF Onb!RequestsFit
<1>26. CASE Onb(i)!ChangeOwners
  BY <1>26, OnboardingAsks DEF Onb!ChangeOwners, Onb!Exists, Onb!RequestsFit
<1>27. ASSUME NEW p \in Onboardings[i].Projects, NEW r \in Onboardings[i].Projects,
             Onb(i)!AddProject(p, r)
      PROVE  Onb(i)!RequestsFit'
  BY <1>27, OnboardingAsks DEF Onb!AddProject, Onb!Exists, Onb!RequestsFit
<1> QED
  BY <1>1, <1>2, <1>3, <1>4, <1>5, <1>6, <1>7, <1>8, <1>9, <1>10, <1>11, <1>12, <1>13,
     <1>14, <1>15, <1>16, <1>17, <1>18, <1>19, <1>20, <1>21, <1>22, <1>23, <1>24, <1>25,
     <1>26, <1>27
     DEF Onb!Next, Onb!OwnerStep, Onb!ProvisionerStep, Onb!Outside

\* A workflow comes to reserve a project only where no other reserves or binds it.
LEMMA OnboardingClaims ==
    ASSUME NEW i \in DOMAIN Onboardings, Onb(i)!Typed, Onb(i)!RowsFit,
           Onb(i)!AtHand, Onb(i)!Next
    PROVE  \A v \in Onb(i)!Workflows : Onb(i)!Reserves(wf'[v]) =>
              \/ Onb(i)!Reserves(wf[v]) /\ wf'[v].project = wf[v].project
              \/ wf'[v].project = Onb(i)!None
              \/ /\ ~Onb(i)!Conflict(v, wf'[v].project)
                 /\ \A u \in Onb(i)!Workflows \ {v} : wf'[u] = wf[u]
<1> USE OnboardingAllowed
<1>1. ASSUME NEW o \in Onboardings[i].Owners,
             Onb(i)!Start(o)
      PROVE  \A v \in Onb(i)!Workflows : Onb(i)!Reserves(wf'[v]) =>
              \/ Onb(i)!Reserves(wf[v]) /\ wf'[v].project = wf[v].project
              \/ wf'[v].project = Onb(i)!None
              \/ /\ ~Onb(i)!Conflict(v, wf'[v].project)
                 /\ \A u \in Onb(i)!Workflows \ {v} : wf'[u] = wf[u]
  <2> SUFFICES ASSUME NEW v \in Onb(i)!Workflows
               PROVE  Onb(i)!Reserves(wf'[v]) =>
              \/ Onb(i)!Reserves(wf[v]) /\ wf'[v].project = wf[v].project
              \/ wf'[v].project = Onb(i)!None
              \/ /\ ~Onb(i)!Conflict(v, wf'[v].project)
                 /\ \A u \in Onb(i)!Workflows \ {v} : wf'[u] = wf[u]
    OBVIOUS
  <2>1. wf[v] \in Onb(i)!Row /\ v \in DOMAIN wf
    BY DEF Onb!Typed
  <2>2. CASE wf'[v] = wf[v]
    BY <2>2
  <2>3. CASE wf'[v] # wf[v]
    BY <1>1, <2>1, <2>3
       DEF Onb!Start, Onb!NoWorkflow, Onb!None, Onb!Reserves, Onb!ClosedStages,
           Onb!WizardStages, Onb!UnknownStages, Onb!LeasedStages, Onb!Row
  <2> QED
    BY <2>2, <2>3
<1>2. ASSUME NEW w \in Onb(i)!Workflows,
             Onb(i)!OutOfTime(w)
      PROVE  \A v \in Onb(i)!Workflows : Onb(i)!Reserves(wf'[v]) =>
              \/ Onb(i)!Reserves(wf[v]) /\ wf'[v].project = wf[v].project
              \/ wf'[v].project = Onb(i)!None
              \/ /\ ~Onb(i)!Conflict(v, wf'[v].project)
                 /\ \A u \in Onb(i)!Workflows \ {v} : wf'[u] = wf[u]
  <2> SUFFICES ASSUME NEW v \in Onb(i)!Workflows
               PROVE  Onb(i)!Reserves(wf'[v]) =>
              \/ Onb(i)!Reserves(wf[v]) /\ wf'[v].project = wf[v].project
              \/ wf'[v].project = Onb(i)!None
              \/ /\ ~Onb(i)!Conflict(v, wf'[v].project)
                 /\ \A u \in Onb(i)!Workflows \ {v} : wf'[u] = wf[u]
    OBVIOUS
  <2>1. wf[v] \in Onb(i)!Row /\ v \in DOMAIN wf
    BY DEF Onb!Typed
  <2>2. CASE wf'[v] = wf[v]
    BY <2>2
  <2>3. CASE wf'[v] # wf[v]
    BY <1>2, <2>1, <2>3
       DEF Onb!OutOfTime, Onb!Reserves, Onb!ClosedStages, Onb!WizardStages,
           Onb!UnknownStages, Onb!LeasedStages, Onb!Row
  <2> QED
    BY <2>2, <2>3
<1>3. ASSUME NEW w \in Onb(i)!Workflows,
             Onb(i)!SetName(w)
      PROVE  \A v \in Onb(i)!Workflows : Onb(i)!Reserves(wf'[v]) =>
              \/ Onb(i)!Reserves(wf[v]) /\ wf'[v].project = wf[v].project
              \/ wf'[v].project = Onb(i)!None
              \/ /\ ~Onb(i)!Conflict(v, wf'[v].project)
                 /\ \A u \in Onb(i)!Workflows \ {v} : wf'[u] = wf[u]
  <2> SUFFICES ASSUME NEW v \in Onb(i)!Workflows
               PROVE  Onb(i)!Reserves(wf'[v]) =>
              \/ Onb(i)!Reserves(wf[v]) /\ wf'[v].project = wf[v].project
              \/ wf'[v].project = Onb(i)!None
              \/ /\ ~Onb(i)!Conflict(v, wf'[v].project)
                 /\ \A u \in Onb(i)!Workflows \ {v} : wf'[u] = wf[u]
    OBVIOUS
  <2>1. wf[v] \in Onb(i)!Row /\ v \in DOMAIN wf
    BY DEF Onb!Typed
  <2>2. CASE wf'[v] = wf[v]
    BY <2>2
  <2>3. CASE wf'[v] # wf[v]
    BY <1>3, <2>1, <2>3
       DEF Onb!SetName, Onb!Advance, Onb!Reserves, Onb!ClosedStages, Onb!WizardStages,
           Onb!UnknownStages, Onb!LeasedStages, Onb!Row
  <2> QED
    BY <2>2, <2>3
<1>4. ASSUME NEW w \in Onb(i)!Workflows,
             Onb(i)!SelectRoot(w)
      PROVE  \A v \in Onb(i)!Workflows : Onb(i)!Reserves(wf'[v]) =>
              \/ Onb(i)!Reserves(wf[v]) /\ wf'[v].project = wf[v].project
              \/ wf'[v].project = Onb(i)!None
              \/ /\ ~Onb(i)!Conflict(v, wf'[v].project)
                 /\ \A u \in Onb(i)!Workflows \ {v} : wf'[u] = wf[u]
  <2> SUFFICES ASSUME NEW v \in Onb(i)!Workflows
               PROVE  Onb(i)!Reserves(wf'[v]) =>
              \/ Onb(i)!Reserves(wf[v]) /\ wf'[v].project = wf[v].project
              \/ wf'[v].project = Onb(i)!None
              \/ /\ ~Onb(i)!Conflict(v, wf'[v].project)
                 /\ \A u \in Onb(i)!Workflows \ {v} : wf'[u] = wf[u]
    OBVIOUS
  <2>1. wf[v] \in Onb(i)!Row /\ v \in DOMAIN wf
    BY DEF Onb!Typed
  <2>2. CASE wf'[v] = wf[v]
    BY <2>2
  <2>3. CASE wf'[v] # wf[v]
    BY <1>4, <2>1, <2>3
       DEF Onb!SelectRoot, Onb!Advance, Onb!Reserves, Onb!ClosedStages,
           Onb!WizardStages, Onb!UnknownStages, Onb!LeasedStages, Onb!Row
  <2> QED
    BY <2>2, <2>3
<1>5. ASSUME NEW w \in Onb(i)!Workflows, NEW p \in Onboardings[i].Projects,
             Onb(i)!SetFolder(w, p)
      PROVE  \A v \in Onb(i)!Workflows : Onb(i)!Reserves(wf'[v]) =>
              \/ Onb(i)!Reserves(wf[v]) /\ wf'[v].project = wf[v].project
              \/ wf'[v].project = Onb(i)!None
              \/ /\ ~Onb(i)!Conflict(v, wf'[v].project)
                 /\ \A u \in Onb(i)!Workflows \ {v} : wf'[u] = wf[u]
  <2> SUFFICES ASSUME NEW v \in Onb(i)!Workflows
               PROVE  Onb(i)!Reserves(wf'[v]) =>
              \/ Onb(i)!Reserves(wf[v]) /\ wf'[v].project = wf[v].project
              \/ wf'[v].project = Onb(i)!None
              \/ /\ ~Onb(i)!Conflict(v, wf'[v].project)
                 /\ \A u \in Onb(i)!Workflows \ {v} : wf'[u] = wf[u]
    OBVIOUS
  <2>1. wf[v] \in Onb(i)!Row /\ v \in DOMAIN wf
    BY DEF Onb!Typed
  <2>2. CASE wf'[v] = wf[v]
    BY <2>2
  <2>3. CASE wf'[v] # wf[v]
    <3>1. v = w /\ \A u \in Onb(i)!Workflows \ {v} : wf'[u] = wf[u]
      BY <1>5, <2>1, <2>3 DEF Onb!SetFolder, Onb!Advance, Onb!Typed
    <3>2. \/ wf'[v] = [wf[v] EXCEPT !.stage = "expired"]
          \/ wf'[v] = [wf[v] EXCEPT !.stage = "confirming", !.project = p]
      BY <1>5, <2>1, <3>1 DEF Onb!SetFolder, Onb!Advance
    <3>3. wf'[v].stage = "expired" \/ wf'[v].project = p
      BY <2>1, <3>2 DEF Onb!Row
    <3>4. wf'[v].stage = "expired" => ~Onb(i)!Reserves(wf'[v])
      BY DEF Onb!Reserves, Onb!ClosedStages
    <3>5. ~Onb(i)!Conflict(w, p)
      BY <1>5 DEF Onb!SetFolder
    <3> QED
      BY <3>1, <3>3, <3>4, <3>5
  <2> QED
    BY <2>2, <2>3
<1>6. ASSUME NEW w \in Onb(i)!Workflows,
             Onb(i)!Confirm(w)
      PROVE  \A v \in Onb(i)!Workflows : Onb(i)!Reserves(wf'[v]) =>
              \/ Onb(i)!Reserves(wf[v]) /\ wf'[v].project = wf[v].project
              \/ wf'[v].project = Onb(i)!None
              \/ /\ ~Onb(i)!Conflict(v, wf'[v].project)
                 /\ \A u \in Onb(i)!Workflows \ {v} : wf'[u] = wf[u]
  <2> SUFFICES ASSUME NEW v \in Onb(i)!Workflows
               PROVE  Onb(i)!Reserves(wf'[v]) =>
              \/ Onb(i)!Reserves(wf[v]) /\ wf'[v].project = wf[v].project
              \/ wf'[v].project = Onb(i)!None
              \/ /\ ~Onb(i)!Conflict(v, wf'[v].project)
                 /\ \A u \in Onb(i)!Workflows \ {v} : wf'[u] = wf[u]
    OBVIOUS
  <2>1. wf[v] \in Onb(i)!Row /\ v \in DOMAIN wf
    BY DEF Onb!Typed
  <2>2. CASE wf'[v] = wf[v]
    BY <2>2
  <2>3. CASE wf'[v] # wf[v]
    BY <1>6, <2>1, <2>3
       DEF Onb!Confirm, Onb!Advance, Onb!Reserves, Onb!ClosedStages, Onb!WizardStages,
           Onb!UnknownStages, Onb!LeasedStages, Onb!Row
  <2> QED
    BY <2>2, <2>3
<1>7. ASSUME NEW w \in Onb(i)!Workflows,
             Onb(i)!Cancel(w)
      PROVE  \A v \in Onb(i)!Workflows : Onb(i)!Reserves(wf'[v]) =>
              \/ Onb(i)!Reserves(wf[v]) /\ wf'[v].project = wf[v].project
              \/ wf'[v].project = Onb(i)!None
              \/ /\ ~Onb(i)!Conflict(v, wf'[v].project)
                 /\ \A u \in Onb(i)!Workflows \ {v} : wf'[u] = wf[u]
  <2> SUFFICES ASSUME NEW v \in Onb(i)!Workflows
               PROVE  Onb(i)!Reserves(wf'[v]) =>
              \/ Onb(i)!Reserves(wf[v]) /\ wf'[v].project = wf[v].project
              \/ wf'[v].project = Onb(i)!None
              \/ /\ ~Onb(i)!Conflict(v, wf'[v].project)
                 /\ \A u \in Onb(i)!Workflows \ {v} : wf'[u] = wf[u]
    OBVIOUS
  <2>1. wf[v] \in Onb(i)!Row /\ v \in DOMAIN wf
    BY DEF Onb!Typed
  <2>2. CASE wf'[v] = wf[v]
    BY <2>2
  <2>3. CASE wf'[v] # wf[v]
    BY <1>7, <2>1, <2>3
       DEF Onb!Cancel, Onb!Reserves, Onb!ClosedStages, Onb!WizardStages,
           Onb!UnknownStages, Onb!LeasedStages, Onb!Row
  <2> QED
    BY <2>2, <2>3
<1>8. CASE Onb(i)!ClaimNext
  <2> SUFFICES ASSUME NEW v \in Onb(i)!Workflows
               PROVE  Onb(i)!Reserves(wf'[v]) =>
                         Onb(i)!Reserves(wf[v]) /\ wf'[v].project = wf[v].project
    OBVIOUS
  <2>1. \/ wf'[v] = wf[v]
        \/ /\ wf[v].stage \in Onb(i)!LeasedStages \cup {"queued"}
           /\ wf'[v].project = wf[v].project
    BY <1>8, OnboardingClaimed, OnboardingSets
  <2> QED
    BY <2>1 DEF Onb!Reserves, Onb!LeasedStages, Onb!ClosedStages
<1>9. CASE Onb(i)!CheckOwners
  <2>0. /\ obWorker.w \in Onb(i)!Workflows /\ wf[obWorker.w] \in Onb(i)!Row
        /\ obWorker.w \in DOMAIN wf
        /\ obWorker.pc # "check" => wf[obWorker.w].stage \in Onb(i)!StagesAt[obWorker.pc]
        /\ wf[obWorker.w].stage \in Onb(i)!LeasedStages /\ Onb(i)!RowFits(obWorker.w)
    BY <1>9, OnboardingAtHand
       DEF Onb!CheckOwners, Onb!AtHand, Onb!Typed, Onb!RowsFit, Onb!StagesAt,
           Onb!LeasedStages
  <2>1. CASE Onb(i)!Block(obWorker.w)
    BY <2>0, <2>1, OnboardingParkClaims DEF Onb!Block
  <2>2. CASE wf' = wf
    BY <2>2
  <2> QED
    BY <1>9, <2>1, <2>2 DEF Onb!CheckOwners
<1>10. CASE Onb(i)!PrepareRoot
  <2>0. /\ obWorker.w \in Onb(i)!Workflows /\ wf[obWorker.w] \in Onb(i)!Row
        /\ obWorker.w \in DOMAIN wf
        /\ obWorker.pc # "check" => wf[obWorker.w].stage \in Onb(i)!StagesAt[obWorker.pc]
        /\ wf[obWorker.w].stage \in Onb(i)!LeasedStages /\ Onb(i)!RowFits(obWorker.w)
    BY <1>10, OnboardingAtHand
       DEF Onb!PrepareRoot, Onb!AtHand, Onb!Typed, Onb!RowsFit, Onb!StagesAt,
           Onb!LeasedStages
  <2> DEFINE r == [wf[obWorker.w] EXCEPT !.stage = Onb(i)!AfterRoot(obWorker.w)]
  <2>1. r.project = wf[obWorker.w].project
    BY <2>0 DEF Onb!Row
  <2> HIDE DEF r
  <2>2. CASE Onb(i)!Fail(obWorker.w, "preparing_root")
    BY <2>0, <2>2, OnboardingSets, OnboardingParkClaims DEF Onb!Fail
  <2>3. CASE Onb(i)!Move(obWorker.w, "preparing_root", r, "connect")
    BY <2>0, <2>1, <2>3, OnboardingSets, OnboardingMoveClaims
  <2> QED
    BY <1>10, <2>2, <2>3 DEF Onb!PrepareRoot, r
<1>11. CASE Onb(i)!Connect
  <2>0. /\ obWorker.w \in Onb(i)!Workflows /\ wf[obWorker.w] \in Onb(i)!Row
        /\ obWorker.w \in DOMAIN wf
        /\ obWorker.pc # "check" => wf[obWorker.w].stage \in Onb(i)!StagesAt[obWorker.pc]
        /\ wf[obWorker.w].stage \in Onb(i)!LeasedStages /\ Onb(i)!RowFits(obWorker.w)
    BY <1>11, OnboardingAtHand
       DEF Onb!Connect, Onb!AtHand, Onb!Typed, Onb!RowsFit, Onb!StagesAt, Onb!LeasedStages
  <2>1. CASE Onb(i)!GuardStops(obWorker.w)
    BY <2>0, <2>1, OnboardingStopClaims
  <2>2. CASE Onb(i)!PreflightFails(obWorker.w)
    BY <2>0, <2>2, OnboardingParkClaims DEF Onb!PreflightFails, Onb!Block
  <2>3. CASE Onb(i)!PreflightPasses(obWorker.w)
    BY <2>0, <2>3, OnboardingMoveClaims DEF Onb!PreflightPasses
  <2> QED
    BY <1>11, <2>1, <2>2, <2>3 DEF Onb!Connect
<1>12. CASE Onb(i)!SendCreate
  <2>0. /\ obWorker.w \in Onb(i)!Workflows /\ wf[obWorker.w] \in Onb(i)!Row
        /\ obWorker.w \in DOMAIN wf
        /\ obWorker.pc # "check" => wf[obWorker.w].stage \in Onb(i)!StagesAt[obWorker.pc]
        /\ wf[obWorker.w].stage \in Onb(i)!LeasedStages /\ Onb(i)!RowFits(obWorker.w)
    BY <1>12, OnboardingAtHand
       DEF Onb!SendCreate, Onb!AtHand, Onb!Typed, Onb!RowsFit, Onb!StagesAt,
           Onb!LeasedStages
  <2>1. CASE Onb(i)!GuardStops(obWorker.w)
    BY <2>0, <2>1, OnboardingStopClaims
  <2>2. CASE wf' = wf
    BY <2>2
  <2> QED
    BY <1>12, <2>1, <2>2 DEF Onb!SendCreate
<1>13. ASSUME NEW w \in Onb(i)!Workflows,
             Onb(i)!TelegramCreates(w)
      PROVE  \A v \in Onb(i)!Workflows : Onb(i)!Reserves(wf'[v]) =>
              \/ Onb(i)!Reserves(wf[v]) /\ wf'[v].project = wf[v].project
              \/ wf'[v].project = Onb(i)!None
              \/ /\ ~Onb(i)!Conflict(v, wf'[v].project)
                 /\ \A u \in Onb(i)!Workflows \ {v} : wf'[u] = wf[u]
  BY <1>13 DEF Onb!TelegramCreates
<1>14. ASSUME NEW w \in Onb(i)!Workflows,
             Onb(i)!TelegramRefuses(w)
      PROVE  \A v \in Onb(i)!Workflows : Onb(i)!Reserves(wf'[v]) =>
              \/ Onb(i)!Reserves(wf[v]) /\ wf'[v].project = wf[v].project
              \/ wf'[v].project = Onb(i)!None
              \/ /\ ~Onb(i)!Conflict(v, wf'[v].project)
                 /\ \A u \in Onb(i)!Workflows \ {v} : wf'[u] = wf[u]
  <2>0. /\ obWorker.w \in Onb(i)!Workflows /\ wf[obWorker.w] \in Onb(i)!Row
        /\ obWorker.w \in DOMAIN wf
        /\ obWorker.pc # "check" => wf[obWorker.w].stage \in Onb(i)!StagesAt[obWorker.pc]
        /\ wf[obWorker.w].stage \in Onb(i)!LeasedStages /\ Onb(i)!RowFits(obWorker.w)
    BY <1>14, OnboardingAtHand
       DEF Onb!TelegramRefuses, Onb!AtHand, Onb!Typed, Onb!RowsFit, Onb!StagesAt,
           Onb!LeasedStages
  <2> QED
    BY <1>14, <2>0, OnboardingParkClaims DEF Onb!TelegramRefuses, Onb!Block
<1>15. ASSUME NEW w \in Onb(i)!Workflows,
             Onb(i)!RequestLost(w)
      PROVE  \A v \in Onb(i)!Workflows : Onb(i)!Reserves(wf'[v]) =>
              \/ Onb(i)!Reserves(wf[v]) /\ wf'[v].project = wf[v].project
              \/ wf'[v].project = Onb(i)!None
              \/ /\ ~Onb(i)!Conflict(v, wf'[v].project)
                 /\ \A u \in Onb(i)!Workflows \ {v} : wf'[u] = wf[u]
  BY <1>15 DEF Onb!RequestLost
<1>16. CASE Onb(i)!CreateUnknown
  <2>0. /\ obWorker.w \in Onb(i)!Workflows /\ wf[obWorker.w] \in Onb(i)!Row
        /\ obWorker.w \in DOMAIN wf
        /\ obWorker.pc # "check" => wf[obWorker.w].stage \in Onb(i)!StagesAt[obWorker.pc]
        /\ wf[obWorker.w].stage \in Onb(i)!LeasedStages /\ Onb(i)!RowFits(obWorker.w)
    BY <1>16, OnboardingAtHand
       DEF Onb!CreateUnknown, Onb!AtHand, Onb!Typed, Onb!RowsFit, Onb!StagesAt,
           Onb!LeasedStages
  <2> QED
    BY <1>16, <2>0, OnboardingSets, OnboardingParkClaims DEF Onb!CreateUnknown
<1>17. CASE Onb(i)!MarkGroupCreated
  <2>0. /\ obWorker.w \in Onb(i)!Workflows /\ wf[obWorker.w] \in Onb(i)!Row
        /\ obWorker.w \in DOMAIN wf
        /\ obWorker.pc # "check" => wf[obWorker.w].stage \in Onb(i)!StagesAt[obWorker.pc]
        /\ wf[obWorker.w].stage \in Onb(i)!LeasedStages /\ Onb(i)!RowFits(obWorker.w)
    BY <1>17, OnboardingAtHand
       DEF Onb!MarkGroupCreated, Onb!AtHand, Onb!Typed, Onb!RowsFit, Onb!StagesAt,
           Onb!LeasedStages
  <2>1. PICK g :
            Onb(i)!Move(obWorker.w, "creating_group",
               [wf[obWorker.w] EXCEPT !.stage = "configuring_group", !.chat = g], "configure")
    BY <1>17 DEF Onb!MarkGroupCreated
  <2>2. [wf[obWorker.w] EXCEPT !.stage = "configuring_group", !.chat = g].project
           = wf[obWorker.w].project
    BY <2>0 DEF Onb!Row
  <2> QED
    BY <2>0, <2>1, <2>2, OnboardingSets, OnboardingMoveClaims
<1>18. CASE Onb(i)!Install
  <2>0. /\ obWorker.w \in Onb(i)!Workflows /\ wf[obWorker.w] \in Onb(i)!Row
        /\ obWorker.w \in DOMAIN wf
        /\ obWorker.pc # "check" => wf[obWorker.w].stage \in Onb(i)!StagesAt[obWorker.pc]
        /\ wf[obWorker.w].stage \in Onb(i)!LeasedStages /\ Onb(i)!RowFits(obWorker.w)
    BY <1>18, OnboardingAtHand
       DEF Onb!Install, Onb!AtHand, Onb!Typed, Onb!RowsFit, Onb!StagesAt, Onb!LeasedStages
  <2>1. CASE Onb(i)!GuardStops(obWorker.w)
    BY <2>0, <2>1, OnboardingStopClaims
  <2>2. CASE Onb(i)!Block(obWorker.w)
    BY <2>0, <2>2, OnboardingParkClaims DEF Onb!Block
  <2>3. CASE Onb(i)!Park(obWorker.w, "configuring_group", "configuration_unknown", Onb(i)!None)
    BY <2>0, <2>3, OnboardingSets, OnboardingParkClaims
  <2>4. CASE wf' = wf
    BY <2>4
  <2> QED
    BY <1>18, <2>1, <2>2, <2>3, <2>4 DEF Onb!Install
<1>19. CASE Onb(i)!Verify
  <2>0. /\ obWorker.w \in Onb(i)!Workflows /\ wf[obWorker.w] \in Onb(i)!Row
        /\ obWorker.w \in DOMAIN wf
        /\ obWorker.pc # "check" => wf[obWorker.w].stage \in Onb(i)!StagesAt[obWorker.pc]
        /\ wf[obWorker.w].stage \in Onb(i)!LeasedStages /\ Onb(i)!RowFits(obWorker.w)
    BY <1>19, OnboardingAtHand
       DEF Onb!Verify, Onb!AtHand, Onb!Typed, Onb!RowsFit, Onb!StagesAt, Onb!LeasedStages
  <2> DEFINE r == [wf[obWorker.w] EXCEPT !.stage = "committing_binding"]
  <2>1. r.project = wf[obWorker.w].project
    BY <2>0 DEF Onb!Row
  <2> HIDE DEF r
  <2>2. CASE Onb(i)!Park(obWorker.w, "configuring_group", "configuration_unknown", Onb(i)!None)
    BY <2>0, <2>2, OnboardingSets, OnboardingParkClaims
  <2>3. CASE Onb(i)!Move(obWorker.w, "configuring_group", r, "register")
    BY <2>0, <2>1, <2>3, OnboardingSets, OnboardingMoveClaims
  <2> QED
    BY <1>19, <2>2, <2>3 DEF Onb!Verify, r
<1>20. CASE Onb(i)!EnsureProject
  <2>0. /\ obWorker.w \in Onb(i)!Workflows /\ wf[obWorker.w] \in Onb(i)!Row
        /\ obWorker.w \in DOMAIN wf
        /\ obWorker.pc # "check" => wf[obWorker.w].stage \in Onb(i)!StagesAt[obWorker.pc]
        /\ wf[obWorker.w].stage \in Onb(i)!LeasedStages /\ Onb(i)!RowFits(obWorker.w)
    BY <1>20, OnboardingAtHand
       DEF Onb!EnsureProject, Onb!AtHand, Onb!Typed, Onb!RowsFit, Onb!StagesAt,
           Onb!LeasedStages
  <2>1. CASE Onb(i)!Fail(obWorker.w, "committing_binding")
    BY <2>0, <2>1, OnboardingSets, OnboardingParkClaims DEF Onb!Fail
  <2>2. CASE wf' = wf
    BY <2>2
  <2> QED
    BY <1>20, <2>1, <2>2 DEF Onb!EnsureProject
<1>21. CASE Onb(i)!Complete
  <2>0. /\ obWorker.w \in Onb(i)!Workflows /\ wf[obWorker.w] \in Onb(i)!Row
        /\ obWorker.w \in DOMAIN wf
        /\ obWorker.pc # "check" => wf[obWorker.w].stage \in Onb(i)!StagesAt[obWorker.pc]
        /\ wf[obWorker.w].stage \in Onb(i)!LeasedStages /\ Onb(i)!RowFits(obWorker.w)
    BY <1>21, OnboardingAtHand
       DEF Onb!Complete, Onb!AtHand, Onb!Typed, Onb!RowsFit, Onb!StagesAt,
           Onb!LeasedStages
  <2>1. CASE wf' = wf
    BY <2>1
  <2>2. CASE wf' = [wf EXCEPT ![obWorker.w] = Onb(i)!Released(wf[obWorker.w], "completed")]
    <3>0. PICK w \in Onb(i)!Workflows : w = obWorker.w
      BY <2>0
    <3>1. /\ wf'[w].stage = "completed"
          /\ \A v \in Onb(i)!Workflows \ {w} : wf'[v] = wf[v]
      BY <2>0, <2>2, <3>0 DEF Onb!Released, Onb!Row, Onb!Typed
    <3> QED
      BY <3>1 DEF Onb!Reserves, Onb!ClosedStages
  <2> QED
    BY <1>21, <2>1, <2>2 DEF Onb!Complete
<1>22. CASE Onb(i)!Crash
  BY <1>22 DEF Onb!Crash
<1>23. ASSUME NEW w \in Onb(i)!Workflows,
             Onb(i)!LeaseLapses(w)
      PROVE  \A v \in Onb(i)!Workflows : Onb(i)!Reserves(wf'[v]) =>
              \/ Onb(i)!Reserves(wf[v]) /\ wf'[v].project = wf[v].project
              \/ wf'[v].project = Onb(i)!None
              \/ /\ ~Onb(i)!Conflict(v, wf'[v].project)
                 /\ \A u \in Onb(i)!Workflows \ {v} : wf'[u] = wf[u]
  <2> SUFFICES ASSUME NEW v \in Onb(i)!Workflows
               PROVE  Onb(i)!Reserves(wf'[v]) =>
              \/ Onb(i)!Reserves(wf[v]) /\ wf'[v].project = wf[v].project
              \/ wf'[v].project = Onb(i)!None
              \/ /\ ~Onb(i)!Conflict(v, wf'[v].project)
                 /\ \A u \in Onb(i)!Workflows \ {v} : wf'[u] = wf[u]
    OBVIOUS
  <2>1. wf[v] \in Onb(i)!Row /\ v \in DOMAIN wf
    BY DEF Onb!Typed
  <2>2. CASE wf'[v] = wf[v]
    BY <2>2
  <2>3. CASE wf'[v] # wf[v]
    BY <1>23, <2>1, <2>3
       DEF Onb!LeaseLapses, Onb!Reserves, Onb!ClosedStages, Onb!WizardStages,
           Onb!UnknownStages, Onb!LeasedStages, Onb!Row
  <2> QED
    BY <2>2, <2>3
<1>24. ASSUME NEW w \in Onb(i)!Workflows, NEW g \in Onb(i)!Groups,
             Onb(i)!Reconcile(w, g)
      PROVE  \A v \in Onb(i)!Workflows : Onb(i)!Reserves(wf'[v]) =>
              \/ Onb(i)!Reserves(wf[v]) /\ wf'[v].project = wf[v].project
              \/ wf'[v].project = Onb(i)!None
              \/ /\ ~Onb(i)!Conflict(v, wf'[v].project)
                 /\ \A u \in Onb(i)!Workflows \ {v} : wf'[u] = wf[u]
  <2> SUFFICES ASSUME NEW v \in Onb(i)!Workflows
               PROVE  Onb(i)!Reserves(wf'[v]) =>
              \/ Onb(i)!Reserves(wf[v]) /\ wf'[v].project = wf[v].project
              \/ wf'[v].project = Onb(i)!None
              \/ /\ ~Onb(i)!Conflict(v, wf'[v].project)
                 /\ \A u \in Onb(i)!Workflows \ {v} : wf'[u] = wf[u]
    OBVIOUS
  <2>1. wf[v] \in Onb(i)!Row /\ v \in DOMAIN wf
    BY DEF Onb!Typed
  <2>2. CASE wf'[v] = wf[v]
    BY <2>2
  <2>3. CASE wf'[v] # wf[v]
    BY <1>24, <2>1, <2>3
       DEF Onb!Reconcile, Onb!Reserves, Onb!ClosedStages, Onb!WizardStages,
           Onb!UnknownStages, Onb!LeasedStages, Onb!Row
  <2> QED
    BY <2>2, <2>3
<1>25. ASSUME NEW w \in Onb(i)!Workflows,
             Onb(i)!ResumeBlocked(w)
      PROVE  \A v \in Onb(i)!Workflows : Onb(i)!Reserves(wf'[v]) =>
              \/ Onb(i)!Reserves(wf[v]) /\ wf'[v].project = wf[v].project
              \/ wf'[v].project = Onb(i)!None
              \/ /\ ~Onb(i)!Conflict(v, wf'[v].project)
                 /\ \A u \in Onb(i)!Workflows \ {v} : wf'[u] = wf[u]
  <2> SUFFICES ASSUME NEW v \in Onb(i)!Workflows
               PROVE  Onb(i)!Reserves(wf'[v]) =>
              \/ Onb(i)!Reserves(wf[v]) /\ wf'[v].project = wf[v].project
              \/ wf'[v].project = Onb(i)!None
              \/ /\ ~Onb(i)!Conflict(v, wf'[v].project)
                 /\ \A u \in Onb(i)!Workflows \ {v} : wf'[u] = wf[u]
    OBVIOUS
  <2>1. wf[v] \in Onb(i)!Row /\ v \in DOMAIN wf
    BY DEF Onb!Typed
  <2>2. CASE wf'[v] = wf[v]
    BY <2>2
  <2>3. CASE wf'[v] # wf[v]
    BY <1>25, <2>1, <2>3
       DEF Onb!ResumeBlocked, Onb!Reserves, Onb!ClosedStages, Onb!WizardStages,
           Onb!UnknownStages, Onb!LeasedStages, Onb!Row
  <2> QED
    BY <2>2, <2>3
<1>26. CASE Onb(i)!ChangeOwners
  BY <1>26 DEF Onb!ChangeOwners
<1>27. ASSUME NEW p \in Onboardings[i].Projects, NEW r \in Onboardings[i].Projects,
             Onb(i)!AddProject(p, r)
      PROVE  \A v \in Onb(i)!Workflows : Onb(i)!Reserves(wf'[v]) =>
              \/ Onb(i)!Reserves(wf[v]) /\ wf'[v].project = wf[v].project
              \/ wf'[v].project = Onb(i)!None
              \/ /\ ~Onb(i)!Conflict(v, wf'[v].project)
                 /\ \A u \in Onb(i)!Workflows \ {v} : wf'[u] = wf[u]
  BY <1>27 DEF Onb!AddProject
<1> QED
  BY <1>1, <1>2, <1>3, <1>4, <1>5, <1>6, <1>7, <1>8, <1>9, <1>10, <1>11, <1>12, <1>13,
     <1>14, <1>15, <1>16, <1>17, <1>18, <1>19, <1>20, <1>21, <1>22, <1>23, <1>24, <1>25,
     <1>26, <1>27
     DEF Onb!Next, Onb!OwnerStep, Onb!ProvisionerStep, Onb!Outside

\* A project that is registered with its own directory stays so.
LEMMA OnboardingRegistered ==
    ASSUME NEW i \in DOMAIN Onboardings, Onb(i)!Typed, Onb(i)!Next,
           NEW p \in Onboardings[i].Projects, registry[p] = p
    PROVE  registry'[p] = p
<1>1. p # Onb(i)!None
  BY OnboardingAllowed DEF Onb!OnboardingBounds
<1>2. CASE registry' = registry
  BY <1>2
<1>3. CASE Onb(i)!EnsureProject
  BY <1>3 DEF Onb!EnsureProject, Onb!Typed
<1>4. ASSUME NEW q \in Onboardings[i].Projects, NEW r \in Onboardings[i].Projects,
             Onb(i)!AddProject(q, r)
      PROVE  registry'[p] = p
  <2>1. registry[q] = Onb(i)!None /\ registry' = [registry EXCEPT ![q] = r]
    BY <1>4 DEF Onb!AddProject
  <2>2. q # p
    BY <1>1, <2>1
  <2> QED
    BY <2>1, <2>2 DEF Onb!Typed
<1>5. \/ registry' = registry \/ Onb(i)!EnsureProject
      \/ \E q, r \in Onboardings[i].Projects : Onb(i)!AddProject(q, r)
  BY Zenon DEF Onb!Next, Onb!OwnerStep, Onb!ProvisionerStep, Onb!Outside, Onb!Start,
         Onb!SetName, Onb!SelectRoot, Onb!SetFolder, Onb!Confirm, Onb!Advance,
         Onb!Cancel, Onb!OutOfTime,
         Onb!ClaimNext, Onb!CheckOwners, Onb!PrepareRoot, Onb!Connect, Onb!SendCreate,
         Onb!CreateUnknown, Onb!MarkGroupCreated, Onb!Install, Onb!Verify, Onb!Complete,
         Onb!Crash, Onb!ChangeOwners, Onb!TelegramCreates, Onb!TelegramRefuses,
         Onb!RequestLost, Onb!LeaseLapses, Onb!ResumeBlocked, Onb!Reconcile
<1> QED
  BY <1>2, <1>3, <1>4, <1>5

\* Only complete adds a binding.
LEMMA OnboardingBinds ==
    ASSUME NEW i \in DOMAIN Onboardings, Onb(i)!Next
    PROVE  bindings' = bindings \/ Onb(i)!Complete
BY Zenon DEF Onb!Next, Onb!OwnerStep, Onb!ProvisionerStep, Onb!Outside, Onb!Start,
       Onb!SetName, Onb!SelectRoot, Onb!SetFolder, Onb!Confirm, Onb!Advance,
       Onb!Cancel, Onb!OutOfTime,
       Onb!ClaimNext, Onb!CheckOwners, Onb!PrepareRoot, Onb!Connect, Onb!SendCreate,
       Onb!CreateUnknown, Onb!MarkGroupCreated, Onb!Install, Onb!Verify, Onb!EnsureProject,
       Onb!Crash, Onb!ChangeOwners, Onb!TelegramCreates, Onb!TelegramRefuses,
       Onb!RequestLost, Onb!LeaseLapses, Onb!ResumeBlocked, Onb!Reconcile, Onb!AddProject

\* A group is bound complete, its project registered, and both stay so.
LEMMA OnboardingBound ==
    ASSUME NEW i \in DOMAIN Onboardings, Onb(i)!Typed, Onb(i)!RowsFit, Onb(i)!AtHand,
           Onb(i)!RequestsFit, Onb(i)!BoundGroupIsReady, Onb(i)!Next
    PROVE  Onb(i)!BoundGroupIsReady'
<1>1. ASSUME NEW b \in bindings
      PROVE  groups'[b.chat] = Onb(i)!Parts /\ registry'[b.project] = b.project
  <2>1. /\ b.project \in Onboardings[i].Projects /\ b.chat \in Onb(i)!Exists
        /\ groups[b.chat] = Onb(i)!Parts /\ registry[b.project] = b.project
    BY DEF Onb!Typed, Onb!BoundGroupIsReady
  <2> QED
    BY <2>1, OnboardingGroups, OnboardingRegistered
<1>2. CASE bindings' = bindings
  BY <1>1, <1>2 DEF Onb!BoundGroupIsReady, Onb!Parts
<1>3. CASE Onb(i)!Complete /\ bindings' # bindings
  <2>0. PICK w : w = obWorker.w
    OBVIOUS
  <2>1. /\ obWorker.pc = "bind" /\ bindings' = bindings \cup {Onb(i)!Binding(w)}
        /\ groups' = groups /\ registry' = registry
    BY <1>3, <2>0 DEF Onb!Complete
  <2>2. /\ w \in Onb(i)!Workflows /\ wf[w].stage = "committing_binding"
        /\ registry[wf[w].project] = wf[w].project
    BY <2>0, <2>1 DEF Onb!AtHand, Onb!StagesAt
  <2>3. groups[wf[w].chat] = Onb(i)!Parts
    BY <2>2 DEF Onb!RowsFit, Onb!RowFits
  <2>4. /\ Onb(i)!Binding(w).chat = wf[w].chat
        /\ Onb(i)!Binding(w).project = wf[w].project
    BY DEF Onb!Binding
  <2>5. ASSUME NEW b \in bindings'
        PROVE  groups'[b.chat] = Onb(i)!Parts /\ registry'[b.project] = b.project
    <3>1. CASE b \in bindings
      BY <1>1, <3>1
    <3>2. CASE b = Onb(i)!Binding(w)
      BY <2>1, <2>2, <2>3, <2>4, <3>2
    <3> QED
      BY <2>1, <3>1, <3>2
  <2> QED
    BY <2>5 DEF Onb!BoundGroupIsReady, Onb!Parts
<1> QED
  BY <1>2, <1>3, OnboardingBinds

\* Open workflows hold different projects, and what is bound is bound once.
LEMMA OnboardingReserved ==
    ASSUME NEW i \in DOMAIN Onboardings, Onb(i)!Typed, Onb(i)!RowsFit, Onb(i)!AtHand,
           Onb(i)!ProjectsAreReserved, Onb(i)!Next
    PROVE  Onb(i)!ProjectsAreReserved'
<1>1. ASSUME NEW v \in Onb(i)!Workflows, NEW w \in Onb(i)!Workflows, v # w,
             Onb(i)!Reserves(wf'[v]), Onb(i)!Reserves(wf'[w]),
             wf'[v].project # Onb(i)!None
      PROVE  wf'[v].project # wf'[w].project
  <2> DEFINE Keeps(u) == Onb(i)!Reserves(wf[u]) /\ wf'[u].project = wf[u].project
             Takes(u) == /\ ~Onb(i)!Conflict(u, wf'[u].project)
                         /\ \A x \in Onb(i)!Workflows \ {u} : wf'[x] = wf[x]
  <2>1. /\ Keeps(v) \/ wf'[v].project = Onb(i)!None \/ Takes(v)
        /\ Keeps(w) \/ wf'[w].project = Onb(i)!None \/ Takes(w)
    BY <1>1, OnboardingClaims
  <2>2. CASE wf'[w].project = Onb(i)!None
    BY <1>1, <2>2
  <2>3. CASE Keeps(v) /\ Keeps(w)
    BY <1>1, <2>3 DEF Onb!ProjectsAreReserved
  <2>4. CASE Takes(v)
    <3>1. wf'[w] = wf[w] /\ wf[w].project # wf'[v].project
      BY <1>1, <2>4 DEF Onb!Conflict
    <3> QED
      BY <3>1
  <2>5. CASE Takes(w)
    <3>1. wf'[v] = wf[v] /\ wf[v].project # wf'[w].project
      BY <1>1, <2>5 DEF Onb!Conflict
    <3> QED
      BY <3>1
  <2> QED
    BY <1>1, <2>1, <2>2, <2>3, <2>4, <2>5
<1>2. ASSUME NEW a \in bindings', NEW b \in bindings', a # b
      PROVE  ~Onb(i)!Overlaps(a, b)
  <2>1. CASE bindings' = bindings
    BY <1>2, <2>1 DEF Onb!ProjectsAreReserved
  <2>2. CASE Onb(i)!Complete /\ bindings' # bindings
    <3>1. PICK c : /\ bindings' = bindings \cup {c}
                   /\ \A x \in bindings : Onb(i)!Overlaps(x, c) => x = c
      BY <2>2 DEF Onb!Complete
    <3>2. \A x, y : Onb(i)!Overlaps(x, y) => Onb(i)!Overlaps(y, x)
      BY DEF Onb!Overlaps
    <3> QED
      BY <1>2, <3>1, <3>2 DEF Onb!ProjectsAreReserved
  <2> QED
    BY <2>1, <2>2, OnboardingBinds
<1> QED
  BY <1>1, <1>2 DEF Onb!ProjectsAreReserved, Onb!Reserves, Onb!Overlaps, Onb!ClosedStages,
     Onb!None

\* Nothing is started, and nothing exists.
LEMMA OnboardingOpens ==
    ASSUME NEW i \in DOMAIN Onboardings, Onb(i)!Init
    PROVE  Onb(i)!OnboardingInv
<1>1. Onb(i)!Typed
  <2>1. /\ wf \in [Onb(i)!Workflows -> Onb(i)!Row] /\ obWorker \in Onb(i)!Desk
        /\ registry \in [Onboardings[i].Projects -> Onboardings[i].Projects \cup {Onb(i)!None}]
        /\ note \in [Onb(i)!Workflows -> Onb(i)!Outcomes \cup {Onb(i)!None}]
    BY OnboardingRow, OnboardingDesk DEF Onb!Init
  <2>2. /\ bindings = {} /\ net = {} /\ cfg = 0
        /\ DOMAIN groups = {} /\ groups \in [{} -> SUBSET Onb(i)!Parts]
    BY DEF Onb!Init
  <2> QED
    BY <2>1, <2>2 DEF Onb!Typed, Onb!Exists
<1>2. \A w \in Onb(i)!Workflows : wf[w] = Onb(i)!NoWorkflow
  BY DEF Onb!Init
<1>3. Onb(i)!RowsFit
  BY <1>2 DEF Onb!RowsFit, Onb!RowFits, Onb!NoWorkflow, Onb!LeasedStages, Onb!Outcomes,
     Onb!UnknownStages
<1>4. Onb(i)!AtHand
  BY DEF Onb!Init, Onb!AtHand, Onb!Idle
<1>5. Onb(i)!RequestsFit
  BY DEF Onb!Init, Onb!RequestsFit, Onb!RequestFits, Onb!Exists
<1>6. Onb(i)!BoundGroupIsReady /\ Onb(i)!ProjectsAreReserved
  BY <1>2 DEF Onb!Init, Onb!BoundGroupIsReady, Onb!ProjectsAreReserved, Onb!Reserves,
     Onb!NoWorkflow
<1> QED
  BY <1>1, <1>3, <1>4, <1>5, <1>6 DEF Onb!OnboardingInv

\* What the properties ask for follows from the invariant.
LEMMA OnboardingSays ==
    ASSUME NEW i \in DOMAIN Onboardings, Onb(i)!OnboardingInv
    PROVE  /\ Onb(i)!TypeOK
           /\ Onb(i)!OneGroupPerWorkflow
           /\ Onb(i)!NoGroupIsForgotten
           /\ Onb(i)!BoundGroupIsReady
           /\ Onb(i)!OwnerIsTold
           /\ Onb(i)!ProjectsAreReserved
<1> USE DEF Onb!OnboardingInv
<1>1. Onb(i)!TypeOK
  <2>1. ASSUME NEW w \in Onb(i)!Workflows
        PROVE  /\ wf[w].stage \in Onb(i)!Stages
               /\ wf[w].owner \in Onboardings[i].Owners \cup {Onb(i)!None}
               /\ wf[w].project \in Onboardings[i].Projects \cup {Onb(i)!None}
               /\ wf[w].chat \in Onb(i)!Exists \cup {Onb(i)!NoChat}
               /\ wf[w].lease \in {Onb(i)!None, "live", "expired"}
               /\ wf[w].lease # Onb(i)!None => wf[w].stage \in Onb(i)!LeasedStages
               /\ wf[w].resume # Onb(i)!None => wf[w].stage = "failed"
    <3>1. wf[w] \in Onb(i)!Row /\ Onb(i)!RowFits(w)
      BY DEF Onb!Typed, Onb!RowsFit
    <3> QED
      BY <3>1 DEF Onb!Row, Onb!RowFits
  <2>2. \A w \in Onb(i)!Workflows :
            note[w] \in Onb(i)!UnknownStages \cup {Onb(i)!None, "failed", "completed"}
    BY DEF Onb!Typed, Onb!Outcomes
  <2>3. obWorker.w \in Onb(i)!Workflows \cup {0} /\ obWorker.todo \subseteq Onb(i)!Parts
    BY DEF Onb!Typed, Onb!Desk
  <2>4. \A g \in Onb(i)!Exists : groups[g] \subseteq Onb(i)!Parts
    BY DEF Onb!Typed
  <2>5. /\ bindings \subseteq [project : Onboardings[i].Projects, chat : Onb(i)!Exists,
                              wf : Onb(i)!Workflows]
        /\ net \subseteq Onb(i)!Workflows
    BY DEF Onb!Typed
  <2> QED
    BY <2>1, <2>2, <2>3, <2>4, <2>5 DEF Onb!TypeOK, Onb!Stages
<1>2. Onb(i)!OneGroupPerWorkflow
  BY DEF Onb!OneGroupPerWorkflow, Onb!RequestsFit, Onb!RequestFits
<1>3. Onb(i)!NoGroupIsForgotten
  BY DEF Onb!NoGroupIsForgotten, Onb!RequestsFit, Onb!RequestFits
<1>4. Onb(i)!OwnerIsTold
  BY DEF Onb!OwnerIsTold, Onb!RowsFit, Onb!RowFits, Onb!Outcomes
<1> QED
  BY <1>1, <1>2, <1>3, <1>4

\* Wherever the provisioner dies, stops or loses its lease, a workflow makes at
\* most one group and no group is forgotten, a project is bound once and only to
\* a group that is complete, two workflows never hold one project, and the owner
\* is told how each ended (project_onboarding.py, project_provisioner.py).
THEOREM GroupsAreKept == Spec => []GroupsAreAccounted
<1> DEFINE Inv == \A i \in DOMAIN Onboardings : Runs("onboarding", i) => Onb(i)!OnboardingInv
<1>1. Init => Inv
  BY OnboardingOpens DEF Init, Runs
<1>2. Inv /\ [Next]_vars => Inv'
  <2>1. ASSUME Inv, Next PROVE Inv'
    BY <2>1, OnboardingTyped, OnboardingRows, OnboardingHand, OnboardingRequests,
       OnboardingBound, OnboardingReserved
       DEF Next, Runs, Onb!OnboardingInv
  <2>2. ASSUME Inv, UNCHANGED vars PROVE Inv'
    BY <2>2 DEF vars, OnboardingVars, Runs, Onb!OnboardingInv, Onb!Typed, Onb!RowsFit,
       Onb!RowFits, Onb!AtHand, Onb!RequestsFit, Onb!RequestFits, Onb!Stands, Onb!Exists,
       Onb!BoundGroupIsReady, Onb!ProjectsAreReserved
  <2> QED
    BY <2>1, <2>2
<1>3. Inv => GroupsAreAccounted
  BY OnboardingSays DEF GroupsAreAccounted
<1> QED
  BY <1>1, <1>2, <1>3, PTL DEF Spec
==============================================================================
