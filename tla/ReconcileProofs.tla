--------------------------- MODULE ReconcileProofs --------------------------
(***************************************************************************)
(* For every set of addresses, every choice of layers, retry policy,       *)
(* classifier and rules: the pool stays within its bounds, a declarative   *)
(* failure is not retried, a success is in the sink, executing once more   *)
(* changes nothing, and every variable keeps its type.                     *)
(***************************************************************************)
EXTENDS Reconcile, FiniteSetTheorems, TLAPS

USE ReconcileAssumption

(* The addresses that a set of changes creates. *)
Created(changes) == {a \in Slots : \E c \in changes : c.action = "Create" /\ c.address = a}

(* What PoolWithinBounds rests on: the pool has room for all that is still *)
(* to be created.                                                          *)
Room ==
  /\ members \in SUBSET Slots
  /\ layers \in LayerChoices
  /\ \A c \in todo : c.address \in Slots
  /\ Cardinality(members \cup Created(todo)) <= Limit

-----------------------------------------------------------------------------
(* A part of a finite set is no larger. *)
LEMMA PartIsSmaller ==
  ASSUME NEW S \in SUBSET Slots, NEW P \in SUBSET S
  PROVE  /\ IsFiniteSet(S) /\ IsFiniteSet(P)
         /\ Cardinality(P) \in Nat /\ Cardinality(S) \in Nat
         /\ Cardinality(P) <= Cardinality(S)
  BY FS_Subset, FS_CardinalityType

(* The settings in force. *)
LEMMA SettingsInForce ==
  ASSUME layers \in LayerChoices
  PROVE  /\ settings.min_size \in Nat /\ settings.max_size \in Nat
         /\ settings.desired_size \in Nat /\ settings.cooldown_secs \in Int
         /\ settings.min_size <= settings.max_size /\ settings.max_size <= Limit
  BY DEF settings, Settings

(* What the reconciler picks. *)
LEMMA Picked ==
  ASSUME NEW S \in SUBSET Slots, NEW n \in 0 .. Limit, NEW F \in Picks(S, n)
  PROVE  F \in SUBSET S /\ Cardinality(F) = n /\ IsFiniteSet(F)
  <1>1. F \subseteq S /\ Cardinality(F) = n
    OBVIOUS
  <1> QED
    BY <1>1, PartIsSmaller

(* The size that decide() steers to. *)
Desired == clamp(settings.desired_size, settings.min_size, settings.max_size)

LEMMA DesiredBounded ==
  ASSUME layers \in LayerChoices
  PROVE  Desired \in 0 .. Limit
  BY SettingsInForce DEF Desired, clamp

(* What decide() asks for, when there are n members. *)
LEMMA SteersToDesired ==
  ASSUME layers \in LayerChoices, NEW n \in 0 .. Limit, NEW since
  PROVE  LET d == decide(Ctx(n, since))
         IN  \/ d = NoOpDecision
             \/ d.kind = "Spawn" /\ d.count \in 0 .. Limit /\ n + d.count = Desired
             \/ d.kind = "ReapExcess" /\ d.count \in 0 .. Limit /\ n - d.count = Desired
  <1>1. Desired \in 0 .. Limit
    BY DesiredBounded
  <1>2. \/ Resize(Ctx(n, since)) = NoOpDecision
        \/ n < Desired /\ Resize(Ctx(n, since)) = Spawn(Desired - n)
        \/ n > Desired /\ Resize(Ctx(n, since)) = ReapExcess(n - Desired)
    BY <1>1 DEF Resize, Ctx, Desired
  <1>3. \/ decide(Ctx(n, since)) = NoOpDecision
        \/ decide(Ctx(n, since)) = Resize(Ctx(n, since))
    BY DEF decide
  <1> QED
    BY <1>1, <1>2, <1>3 DEF Spawn, ReapExcess

LEMMA EffectiveOfPlan ==
  ASSUME NEW cs
  PROVE  effective(Plan("pool", cs)) = {c \in cs : c.action # "NoOp"}
  <1>1. Plan("pool", cs).changes = cs
    BY DEF Plan
  <1> QED
    BY <1>1 DEF effective

(* A plan leaves room for what it creates. *)
LEMMA PlanHasRoom ==
  ASSUME layers \in LayerChoices, NEW world \in SUBSET Slots, Cardinality(world) <= Limit,
         NEW since, NEW p \in Plans(world, since)
  PROVE  /\ \A c \in effective(p) : c.address \in Slots
         /\ Cardinality(world \cup Created(effective(p))) <= Limit
  <1> DEFINE n == Cardinality(world)
             d == decide(Ctx(n, since))
  <1>1. IsFiniteSet(world) /\ n \in 0 .. Limit
    BY PartIsSmaller
  <1>2. ASSUME NEW F \in SUBSET Slots, NEW G
        PROVE  Created(effective(Plan("pool", Changes(world, F, G)))) = F
    <2> DEFINE changes == Changes(world, F, G)
    <2>1. \A a : /\ change(a, "Create").address = a /\ change(a, "Create").action = "Create"
                 /\ change(a, "Delete").action = "Delete" /\ change(a, "NoOp").action = "NoOp"
      BY DEF change, change_with_severity
    <2>2. \A a : (\E c \in changes : c.action = "Create" /\ c.address = a) <=> a \in F
      BY <2>1 DEF Changes
    <2> HIDE DEF changes
    <2>3. \A c : c \in effective(Plan("pool", changes)) <=> c \in changes /\ c.action # "NoOp"
      BY EffectiveOfPlan
    <2>4. \A a : (\E c \in effective(Plan("pool", changes)) :
                     c.action = "Create" /\ c.address = a) <=> a \in F
      BY <2>2, <2>3
    <2> QED  BY <2>4 DEF Created, changes
  <1>3. ASSUME NEW F \in SUBSET Slots, NEW G \in SUBSET Slots
        PROVE  \A c \in effective(Plan("pool", Changes(world, F, G))) : c.address \in Slots
    <2>1. \A a, action : change(a, action).address = a
      BY DEF change, change_with_severity
    <2>2. \A c \in Changes(world, F, G) : c.address \in Slots
      BY <2>1 DEF Changes
    <2> QED  BY <2>2, EffectiveOfPlan
  <1>4. CASE d = NoOpDecision
    <2>1. p = Plan("pool", Changes(world, {}, {}))
      BY <1>4 DEF Plans, NoOpDecision
    <2>2. Created(effective(p)) = {}
      BY <2>1, <1>2
    <2> QED  BY <2>1, <2>2, <1>3
  <1>5. CASE d.kind = "Spawn" /\ d.count \in 0 .. Limit /\ n + d.count = Desired
    <2> DEFINE rest == Slots \ world
               count == d.count
    <2>1. PICK F \in Picks(rest, count) : p = Plan("pool", Changes(world, F, {}))
      BY <1>5 DEF Plans
    <2>2. rest \in SUBSET Slots /\ count \in 0 .. Limit
      BY <1>5
    <2>3. F \in SUBSET rest /\ Cardinality(F) = count /\ IsFiniteSet(F)
      <3> HIDE DEF rest, count, d, n
      <3> QED  BY <2>2, Picked
    <2>4. Created(effective(p)) = F
      BY <2>1, <2>3, <1>2
    <2>5. Cardinality(world \cup F) = n + count - Cardinality(world \cap F)
      <3> HIDE DEF count
      <3> QED  BY <1>1, <2>3, FS_Union
    <2>6. Cardinality(world \cap F) = 0
      BY <2>3, FS_EmptySet
    <2>7. \A c \in effective(p) : c.address \in Slots
      BY <1>3, <2>1, <2>3
    <2>8. Cardinality(world \cup F) <= Limit
      BY <1>1, <1>5, <2>5, <2>6, DesiredBounded
    <2> QED  BY <2>4, <2>7, <2>8
  <1>6. CASE d.kind = "ReapExcess" /\ d.count \in 0 .. Limit
    <2>1. PICK F \in Picks(world, d.count) : p = Plan("pool", Changes(world, {}, F))
      BY <1>6 DEF Plans
    <2>2. Created(effective(p)) = {}
      BY <2>1, <1>2
    <2>3. F \in SUBSET Slots
      BY <1>6
    <2> QED  BY <2>1, <2>2, <2>3, <1>3
  <1> QED
    BY <1>1, <1>4, <1>5, <1>6, SteersToDesired
-----------------------------------------------------------------------------
(* Steps that create nothing that was not to be created keep the room. *)
LEMMA KeepsRoom ==
  ASSUME Room, layers' \in LayerChoices, todo' \in SUBSET todo, members' \in SUBSET Slots,
         members' \cup Created(todo') \in SUBSET (members \cup Created(todo))
  PROVE  Room'
  <1>1. members \cup Created(todo) \in SUBSET Slots
    BY DEF Room, Created
  <1>2. Cardinality(members' \cup Created(todo')) <= Cardinality(members \cup Created(todo))
    BY <1>1, PartIsSmaller
  <1>3. /\ Cardinality(members' \cup Created(todo')) \in Nat
        /\ Cardinality(members \cup Created(todo)) \in Nat
    BY <1>1, PartIsSmaller
  <1> QED
    BY <1>2, <1>3 DEF Room

LEMMA CreatesLess ==
  ASSUME NEW more, NEW less \in SUBSET more
  PROVE  Created(less) \in SUBSET Created(more)
  BY DEF Created

LEMMA RoomInit == Init => Room
  <1> SUFFICES ASSUME Init PROVE Room
    OBVIOUS
  <1>1. members = {} /\ Created(todo) = {}
    BY DEF Init, Created
  <1>2. Cardinality(members \cup Created(todo)) = 0
    BY <1>1, FS_EmptySet
  <1> QED
    BY <1>1, <1>2 DEF Init, Room

LEMMA RoomStep == Room /\ [Next]_vars => Room'
  <1> SUFFICES ASSUME Room, [Next]_vars PROVE Room'
    OBVIOUS
  <1>1. members \in SUBSET Slots /\ layers \in LayerChoices
    BY DEF Room
  <1>2. CASE DetectDrift
    <2>1. /\ plan' \in Plans(members, since_scaled) /\ todo' = effective(plan')
          /\ members' = members /\ layers' = layers
      BY <1>2 DEF DetectDrift, poolVars, envVars
    <2>2. members \in SUBSET (members \cup Created(todo))
          /\ members \cup Created(todo) \in SUBSET Slots
      BY <1>1 DEF Created
    <2>3. Cardinality(members) <= Limit
      BY <2>2, PartIsSmaller DEF Room
    <2> QED  BY <1>1, <2>1, <2>3, PlanHasRoom DEF Room
  <1>3. ASSUME NEW c \in todo, ApplyChange(c) PROVE Room'
    <2>1. /\ todo' = todo \ {c} /\ layers' = layers
          /\ members' = After(members, c)
      BY <1>3 DEF ApplyChange, envVars
    <2>2. Created(todo') \in SUBSET Created(todo)
      BY <2>1, CreatesLess
    <2>3. c.action = "Create" => c.address \in Created(todo)
      BY DEF Room, Created
    <2>4. members' \in SUBSET (members \cup Created(todo))
      BY <2>1, <2>3 DEF After
    <2>5. members' \in SUBSET Slots
      BY <1>1, <2>4 DEF Created
    <2> QED  BY <1>1, <2>1, <2>2, <2>4, <2>5, KeepsRoom
  <1>4. CASE members' \in SUBSET members /\ todo' \in SUBSET todo /\ layers' \in LayerChoices
    BY <1>1, <1>4, KeepsRoom, CreatesLess
  <1>5. CASE Allocate \/ ReadStateFails \/ ApplyAborts \/ BodyErr \/ TimesOut \/ NextFire \/ Restart
    <2>1. members' = members /\ layers' = layers /\ (todo' = {} \/ todo' = todo)
      BY <1>5 DEF Allocate, ReadStateFails, ApplyAborts, BodyErr, TimesOut, Fails, Idle, NextFire, Restart,
                  Renew, poolVars, envVars, bodyVars
    <2> QED  BY <1>1, <1>4, <2>1
  <1>6. CASE EvaluateGates \/ DecideRetry \/ BackoffElapsed \/ BodyOk \/ Record \/ Succeed \/ Hang
               \/ WatchSuspends \/ OperatorResumes \/ OperatorRetries \/ InstallLayers
               \/ ClockAdvances \/ ClockSetBack \/ UNCHANGED vars
    <2>1. members' = members /\ todo' = todo /\ layers' \in LayerChoices
      BY <1>1, <1>6
         DEF EvaluateGates, DecideRetry, BackoffElapsed, BodyOk, Record, Succeed, Hang,
             WatchSuspends, OperatorResumes, OperatorRetries, InstallLayers, ClockAdvances,
             ClockSetBack, vars, poolVars, envVars, bodyVars
    <2> QED  BY <1>4, <2>1
  <1>7. ASSUME NEW c \in todo, ApplyFails(c) PROVE Room'
    BY <1>1, <1>4, <1>7 DEF ApplyFails, poolVars, envVars
  <1>8. ASSUME NEW m \in members, MemberDies(m) PROVE Room'
    BY <1>1, <1>4, <1>8 DEF MemberDies, envVars, bodyVars
  <1> QED
    BY <1>2, <1>3, <1>5, <1>6, <1>7, <1>8 DEF Next, Execute

(* PoolWithinBounds, for every set of addresses and settings. *)
THEOREM PoolBounded == Spec => []PoolWithinBounds
  <1>1. Room => PoolWithinBounds
    <2> SUFFICES ASSUME Room PROVE PoolWithinBounds
      OBVIOUS
    <2>1. members \in SUBSET (members \cup Created(todo))
          /\ members \cup Created(todo) \in SUBSET Slots
      BY DEF Room, Created
    <2> QED  BY <2>1, PartIsSmaller DEF Room, PoolWithinBounds
  <1> QED
    BY <1>1, RoomInit, RoomStep, PTL DEF Spec
-----------------------------------------------------------------------------
(* A Declarative failure is the last record, and the job is on its way to  *)
(* Deadlettered.                                                           *)
Hopeless == broken => phase \in {"Failed", "Deadlettered"} /\ latest.kind = "Declarative"

LEMMA HopelessStep == Hopeless /\ [Next]_vars => Hopeless'
  <1> SUFFICES ASSUME Hopeless, [Next]_vars PROVE Hopeless'
    OBVIOUS
  <1>1. ASSUME NEW signal \in {"ExecutionFailed", "Timeout"}, NEW raw, Fails(signal, raw)
        PROVE  Hopeless'
    <2>1. phase' = "Failed"
      BY <1>1 DEF Fails, Transition, advance, IllegalTransition, Regatable
    <2>2. broken' => latest'.kind = "Declarative"
      BY <1>1 DEF Fails, with_kind
    <2> QED  BY <2>1, <2>2 DEF Hopeless
  <1>2. CASE ReadStateFails \/ ApplyAborts \/ BodyErr \/ TimesOut
    BY <1>1, <1>2 DEF ReadStateFails, ApplyAborts, BodyErr, TimesOut
  <1>3. CASE DecideRetry
    <2>1. CASE broken
      <3>1. latest.kind = "Declarative" /\ phase = "Failed"
        BY <1>3, <2>1 DEF Hopeless, DecideRetry
      <3>2. phase' = "Deadlettered"
        BY <1>3, <3>1 DEF DecideRetry, Transition, Deadletters, advance, Regatable
      <3> QED  BY <1>3, <3>1, <3>2 DEF Hopeless, DecideRetry
    <2>2. CASE ~broken
      BY <1>3, <2>2 DEF Hopeless, DecideRetry
    <2> QED  BY <2>1, <2>2
  <1>4. CASE EvaluateGates \/ Allocate \/ BackoffElapsed
    BY <1>4 DEF Hopeless, EvaluateGates, Allocate, BackoffElapsed
  <1>5. CASE Succeed
    <2>1. phase = "Running"
      BY <1>5 DEF Succeed, Transition, advance, IllegalTransition, Regatable
    <2> QED  BY <1>5, <2>1 DEF Hopeless, Succeed
  <1>6. CASE OperatorRetries \/ Restart
    BY <1>6 DEF Hopeless, OperatorRetries, Restart, Renew
  <1>7. CASE NextFire
    BY <1>7 DEF Hopeless, NextFire, Renew, jobVars
  <1>8. CASE UNCHANGED <<phase, latest, broken>>
    BY <1>8 DEF Hopeless
  <1>9. CASE DetectDrift \/ BodyOk \/ Record \/ Hang \/ WatchSuspends \/ OperatorResumes
               \/ InstallLayers \/ ClockAdvances \/ ClockSetBack \/ UNCHANGED vars
    BY <1>8, <1>9 DEF DetectDrift, BodyOk, Record, Hang, WatchSuspends, OperatorResumes,
         InstallLayers, ClockAdvances, ClockSetBack, vars, jobVars
  <1>10. ASSUME NEW c \in todo, ApplyChange(c) \/ ApplyFails(c) PROVE Hopeless'
    BY <1>8, <1>10 DEF ApplyChange, ApplyFails, jobVars
  <1>11. ASSUME NEW m \in members, MemberDies(m) PROVE Hopeless'
    BY <1>8, <1>11 DEF MemberDies, jobVars
  <1> QED
    BY <1>2, <1>3, <1>4, <1>5, <1>6, <1>7, <1>9, <1>10, <1>11 DEF Next, Execute

(* DeclarativeStops, for every classifier and retry policy. *)
THEOREM DeclarativeFailuresStop == Spec => []DeclarativeStops
  <1>1. Init => Hopeless
    BY DEF Init, Hopeless
  <1>2. Hopeless => DeclarativeStops
    BY DEF Hopeless, DeclarativeStops
  <1> QED
    BY <1>1, <1>2, HopelessStep, PTL DEF Spec

-----------------------------------------------------------------------------
(* Where execute() is, and what has become of the plan's changes so far.   *)
Accounted ==
  /\ stage # "idle" => phase = "Running"
  /\ stage = "detect" => applied = {} /\ failed = {}
  /\ todo \in SUBSET effective(plan)
  /\ \A a \in applied : \E c \in effective(plan) : a = AppliedChange(c)
  /\ failed = {} => \A c \in effective(plan) \ todo : AppliedChange(c) \in applied
  /\ stage \in {"record", "recorded"} \/ phase = "Succeeded" => todo = {} /\ failed = {}
  /\ stage = "recorded" \/ phase = "Succeeded" => sink = {outcome}

LEMMA NothingPlanned == effective(NoPlan) = {}
  BY EffectiveOfPlan DEF NoPlan

(* Outside execute() nothing is accounted for. *)
LEMMA AccountedAfresh ==
  ASSUME Idle, phase' # "Succeeded"
  PROVE  Accounted'
  BY NothingPlanned DEF Idle, Accounted

LEMMA AccountedInit == Init => Accounted
  BY NothingPlanned DEF Init, Accounted

LEMMA AccountedStep == Accounted /\ [Next]_vars => Accounted'
  <1> SUFFICES ASSUME Accounted, [Next]_vars PROVE Accounted'
    OBVIOUS
  <1>1. ASSUME UNCHANGED <<bodyVars, sink>>, phase' # "Succeeded" \/ phase' = phase,
               stage # "idle" => phase' = phase
        PROVE  Accounted'
    BY <1>1 DEF Accounted, bodyVars, outcome
  <1>2. CASE ReadStateFails \/ ApplyAborts \/ BodyErr \/ TimesOut
    <2>1. ASSUME NEW signal \in {"ExecutionFailed", "Timeout"}, NEW raw, Fails(signal, raw)
          PROVE  Accounted'
      <3>1. phase' = "Failed" /\ Idle
        BY <2>1 DEF Fails, Transition, advance, IllegalTransition, Regatable
      <3> QED  BY <3>1, AccountedAfresh
    <2> QED  BY <1>2, <2>1 DEF ReadStateFails, ApplyAborts, BodyErr, TimesOut
  <1>3. CASE EvaluateGates
    <2>1. PICK aggregate \in GateAggregate : phase' = advance(phase, aggregate)
      BY <1>3 DEF EvaluateGates, Transition, reduce, GateAggregate
    <2>2. phase' # "Succeeded"
      BY <1>3, <2>1 DEF EvaluateGates, advance, GateAggregate, Regatable, IllegalTransition
    <2>3. stage = "idle" /\ UNCHANGED <<bodyVars, sink>>
      BY <1>3 DEF EvaluateGates, Accounted
    <2> QED  BY <1>1, <2>2, <2>3
  <1>4. CASE DecideRetry \/ BackoffElapsed \/ OperatorRetries
    <2>1. phase # "Running" /\ phase' \in {"Deadlettered", "Retrying", "Pending"}
          /\ UNCHANGED <<bodyVars, sink>>
      BY <1>4 DEF DecideRetry, BackoffElapsed, OperatorRetries, Transition, advance,
                  Regatable, IllegalTransition
    <2>2. stage = "idle"
      BY <2>1 DEF Accounted
    <2> QED  BY <1>1, <2>1, <2>2
  <1>5. CASE Allocate
    <2>1. phase' = "Running"
      BY <1>5 DEF Allocate, Transition, advance, Regatable
    <2> QED  BY <1>5, <2>1, NothingPlanned DEF Allocate, Accounted
  <1>6. CASE DetectDrift
    <2>1. phase' = "Running" /\ applied' = {} /\ failed' = {} /\ todo' = effective(plan')
          /\ (stage' = "apply" \/ (stage' = "record" /\ todo' = {}))
      BY <1>6 DEF DetectDrift, Accounted, jobVars, is_noop
    <2> QED  BY <2>1 DEF Accounted
  <1>7. ASSUME NEW c \in todo, ApplyChange(c) PROVE Accounted'
    <2>1. /\ todo' = todo \ {c} /\ applied' = applied \cup {AppliedChange(c)}
          /\ UNCHANGED <<phase, stage, plan, failed, sink>> /\ stage = "apply"
          /\ effective(plan') = effective(plan)
      BY <1>7 DEF ApplyChange, jobVars
    <2>2. \A a \in applied' : \E d \in effective(plan) : a = AppliedChange(d)
      BY <2>1 DEF Accounted
    <2>3. ASSUME failed = {}, NEW d \in effective(plan) \ todo'
          PROVE  AppliedChange(d) \in applied'
      <3>1. CASE d = c
        BY <2>1, <3>1
      <3>2. CASE d # c
        <4>1. d \in effective(plan) \ todo
          BY <2>1, <3>2
        <4> QED  BY <2>1, <2>3, <4>1 DEF Accounted
      <3> QED  BY <3>1, <3>2
    <2> QED  BY <2>1, <2>2, <2>3 DEF Accounted
  <1>8. ASSUME NEW c \in todo, ApplyFails(c) PROVE Accounted'
    <2>1. /\ failed' # {} /\ effective(plan') = effective(plan) /\ todo' = todo \ {c}
          /\ UNCHANGED <<phase, stage, applied, sink>> /\ stage = "apply"
      BY <1>8 DEF ApplyFails, jobVars
    <2> QED  BY <2>1 DEF Accounted
  <1>9. CASE BodyOk
    <2>1. /\ todo = {} /\ failed = {} /\ stage' = "record"
          /\ UNCHANGED <<phase, plan, todo, applied, failed, sink>>
      BY <1>9 DEF BodyOk, fully_succeeded, outcome, build_outcome, jobVars
    <2>2. phase = "Running" /\ effective(plan') = effective(plan)
      BY <1>9, <2>1 DEF BodyOk, Accounted
    <2> QED  BY <2>1, <2>2 DEF Accounted
  <1>10. CASE Record
    <2>1. /\ stage' = "recorded" /\ sink' = {outcome} /\ outcome' = outcome
          /\ UNCHANGED <<phase, plan, todo, applied, failed>>
      BY <1>10 DEF Record, jobVars, outcome
    <2>2. phase = "Running" /\ todo = {} /\ failed = {} /\ effective(plan') = effective(plan)
      BY <1>10, <2>1 DEF Record, Accounted
    <2> QED  BY <2>1, <2>2 DEF Accounted
  <1>11. CASE Succeed
    <2>1. /\ stage = "recorded" /\ stage' = "idle" /\ outcome' = outcome
          /\ UNCHANGED <<plan, todo, applied, failed, sink>>
      BY <1>11 DEF Succeed, outcome
    <2>2. effective(plan') = effective(plan)
      BY <2>1
    <2> QED  BY <2>1, <2>2 DEF Accounted
  <1>12. CASE Hang
    <2>1. /\ stage' = "hung" /\ stage \in {"detect", "apply"}
          /\ UNCHANGED <<phase, plan, todo, applied, failed, sink>>
      BY <1>12 DEF Hang, jobVars
    <2>2. phase = "Running" /\ effective(plan') = effective(plan)
      BY <2>1 DEF Accounted
    <2> QED  BY <2>1, <2>2 DEF Accounted
  <1>13. CASE Restart
    BY <1>13, AccountedAfresh DEF Restart, Renew
  <1>14. CASE NextFire
    <2>1. CASE Renew
      BY <2>1, AccountedAfresh DEF Renew
    <2>2. CASE UNCHANGED <<jobVars, bodyVars, sink>>
      BY <1>1, <2>2 DEF jobVars
    <2> QED  BY <1>14, <2>1, <2>2 DEF NextFire
  <1>15. CASE WatchSuspends \/ OperatorResumes \/ InstallLayers \/ ClockAdvances \/ ClockSetBack
                \/ UNCHANGED vars
    BY <1>1, <1>15 DEF WatchSuspends, OperatorResumes, InstallLayers, ClockAdvances,
         ClockSetBack, vars, jobVars
  <1>16. ASSUME NEW m \in members, MemberDies(m) PROVE Accounted'
    BY <1>1, <1>16 DEF MemberDies, jobVars
  <1> QED
    BY <1>2, <1>3, <1>4, <1>5, <1>6, <1>7, <1>8, <1>9, <1>10, <1>11, <1>12, <1>13, <1>14,
       <1>15, <1>16 DEF Next, Execute

(* SuccessIsRecorded, for every reconciler, watcher and operator. *)
THEOREM SuccessRecorded == Spec => []SuccessIsRecorded
  <1>1. Accounted => SuccessIsRecorded
    <2> SUFFICES ASSUME Accounted, phase = "Succeeded" PROVE SuccessIsRecorded
      BY DEF SuccessIsRecorded
    <2>1. sink = {outcome} /\ todo = {} /\ failed = {}
      BY DEF Accounted
    <2>2. applied = {AppliedChange(c) : c \in effective(plan)}
      BY <2>1 DEF Accounted
    <2>3. outcome.plan_id = plan.id /\ outcome.applied = applied /\ fully_succeeded(outcome)
      BY <2>1 DEF outcome, build_outcome, fully_succeeded
    <2> QED  BY <2>1, <2>2, <2>3 DEF SuccessIsRecorded
  <1> QED
    BY <1>1, AccountedInit, AccountedStep, PTL DEF Spec

-----------------------------------------------------------------------------
(* At that size it asks for nothing, in a cooldown or out of one. *)
LEMMA RestsAtDesired ==
  ASSUME layers \in LayerChoices, NEW since
  PROVE  decide(Ctx(Desired, since)) = NoOpDecision
  <1>1. Desired \in 0 .. Limit
    BY DesiredBounded
  <1>2. Resize(Ctx(Desired, since)) = NoOpDecision
    BY <1>1 DEF Resize, Ctx, Desired
  <1> QED
    BY <1>2 DEF decide

(* What a plan makes of the pool. *)
LEMMA PlanApplied ==
  ASSUME NEW world, NEW F, NEW G
  PROVE  /\ AfterPlan(world, Plan("pool", Changes(world, F, G))) = (world \cup F) \ G
         /\ F = {} /\ G = {} => is_noop(Plan("pool", Changes(world, F, G)))
  <1> DEFINE changes == Changes(world, F, G)
  <1>1. \A a : /\ change(a, "Create").address = a /\ change(a, "Create").action = "Create"
               /\ change(a, "Delete").address = a /\ change(a, "Delete").action = "Delete"
               /\ change(a, "NoOp").action = "NoOp"
    BY DEF change, change_with_severity
  <1>2. \A a : /\ (\E c \in changes : c.action = "Create" /\ c.address = a) <=> a \in F
               /\ (\E c \in changes : c.action = "Delete" /\ c.address = a) <=> a \in G
    BY <1>1 DEF Changes
  <1>3. F = {} /\ G = {} => \A c \in changes : c.action = "NoOp"
    BY <1>1 DEF Changes
  <1> HIDE DEF changes
  <1>4. Plan("pool", changes).changes = changes
    BY DEF Plan
  <1>5. AfterPlan(world, Plan("pool", changes)) = (world \cup F) \ G
    BY <1>2, <1>4 DEF AfterPlan
  <1>6. F = {} /\ G = {} => is_noop(Plan("pool", changes))
    BY <1>3, EffectiveOfPlan DEF is_noop
  <1> QED
    BY <1>5, <1>6 DEF changes

(* When nothing is asked for, executing leaves the pool as it is. *)
LEMMA ExecutedNoOp ==
  ASSUME NEW world, NEW since, decide(Ctx(Cardinality(world), since)) = NoOpDecision
  PROVE  Executed(world, since) = {<<world, since>>}
  <1> DEFINE p == Plan("pool", Changes(world, {}, {}))
  <1>1. Plans(world, since) = {p}
    BY DEF Plans, NoOpDecision
  <1>2. AfterPlan(world, p) = world /\ is_noop(p)
    BY PlanApplied
  <1> QED
    BY <1>1, <1>2 DEF Executed

(* Otherwise it brings the pool to its size. *)
LEMMA ExecutedResize ==
  ASSUME layers \in LayerChoices, NEW world \in SUBSET Slots, Cardinality(world) <= Limit,
         NEW since, decide(Ctx(Cardinality(world), since)) # NoOpDecision,
         NEW e \in Executed(world, since)
  PROVE  Cardinality(e[1]) = Desired
  <1> DEFINE n == Cardinality(world)
             d == decide(Ctx(n, since))
  <1>1. IsFiniteSet(world) /\ n \in 0 .. Limit
    BY PartIsSmaller
  <1>2. PICK p \in Plans(world, since) : e[1] = AfterPlan(world, p)
    BY DEF Executed
  <1>7. Slots \ world \in SUBSET Slots
    OBVIOUS
  <1>3. CASE d.kind = "Spawn" /\ d.count \in 0 .. Limit /\ n + d.count = Desired
    <2>1. PICK F \in Picks(Slots \ world, d.count) : p = Plan("pool", Changes(world, F, {}))
      BY <1>2, <1>3 DEF Plans
    <2>2. F \in SUBSET (Slots \ world) /\ Cardinality(F) = d.count /\ IsFiniteSet(F)
      BY <1>3, <1>7, Picked
    <2>3. IsFiniteSet(F)
      BY <2>2
    <2>4. Cardinality(world \cup F) = n + d.count - Cardinality(world \cap F)
      BY <1>1, <2>2, <2>3, FS_Union
    <2>5. Cardinality(world \cap F) = 0
      BY <2>2, FS_EmptySet
    <2>6. e[1] = world \cup F
      BY <1>2, <2>1, PlanApplied
    <2> QED  BY <1>1, <1>3, <2>4, <2>5, <2>6
  <1>4. CASE d.kind = "ReapExcess" /\ d.count \in 0 .. Limit /\ n - d.count = Desired
    <2>1. PICK F \in Picks(world, d.count) : p = Plan("pool", Changes(world, {}, F))
      BY <1>2, <1>4 DEF Plans
    <2>2. F \in SUBSET world /\ Cardinality(F) = d.count
      BY <1>4, Picked
    <2>3. Cardinality(world \ F) = n - Cardinality(world \cap F)
      BY <1>1, FS_Difference
    <2>4. world \cap F = F
      BY <2>2
    <2>5. e[1] = world \ F
      BY <1>2, <2>1, PlanApplied
    <2> QED  BY <1>4, <2>2, <2>3, <2>4, <2>5
  <1> QED
    BY <1>1, <1>3, <1>4, SteersToDesired

(* AcceptedByQuickcheck, for every settings and whatever the reconciler    *)
(* picks.                                                                  *)
THEOREM ExecuteIsIdempotent == Spec => []AcceptedByQuickcheck
  <1>1. ASSUME Room, PoolWithinBounds PROVE AcceptedByQuickcheck
    <2>1. layers \in LayerChoices /\ members \in SUBSET Slots /\ Cardinality(members) <= Limit
      BY <1>1 DEF Room, PoolWithinBounds
    <2>2. CASE decide(Ctx(Cardinality(members), since_scaled)) = NoOpDecision
      BY <2>2, ExecutedNoOp DEF AcceptedByQuickcheck, idempotence_quickcheck
    <2>3. CASE decide(Ctx(Cardinality(members), since_scaled)) # NoOpDecision
      <3>1. ASSUME NEW first \in Executed(members, since_scaled)
            PROVE  Executed(first[1], first[2]) = {<<first[1], first[2]>>}
        <4>1. Cardinality(first[1]) = Desired
          BY <2>1, <2>3, ExecutedResize
        <4> QED  BY <2>1, <4>1, RestsAtDesired, ExecutedNoOp
      <3> QED  BY <3>1 DEF AcceptedByQuickcheck, idempotence_quickcheck
    <2> QED  BY <2>2, <2>3
  <1> QED
    BY <1>1, RoomInit, RoomStep, PoolBounded, PTL DEF Spec
-----------------------------------------------------------------------------
(* Types *)

(* A legal transition leads to a phase, and starts its time. *)
LEMMA TransitionType ==
  ASSUME NEW signal, phase \in JobPhase, Transition(signal)
  PROVE  phase' \in JobPhase /\ in_phase' \in Age
  <1>1. phase' \in JobPhase
    BY DEF Transition, advance, JobPhase, Regatable, IllegalTransition
  <1>2. in_phase' \in Age
    BY DEF Transition, Age
  <1> QED
    BY <1>1, <1>2

(* A plan changes addresses of the pool. *)
LEMMA PlanType ==
  ASSUME layers \in LayerChoices, NEW world \in SUBSET Slots, Cardinality(world) <= Limit,
         NEW since, NEW p \in Plans(world, since)
  PROVE  p.changes \in SUBSET Change
  <1> DEFINE n == Cardinality(world)
             d == decide(Ctx(n, since))
  <1>1. n \in 0 .. Limit
    BY PartIsSmaller
  <1>2. ASSUME NEW F \in SUBSET Slots, NEW G \in SUBSET Slots
        PROVE  Plan("pool", Changes(world, F, G)).changes \in SUBSET Change
    <2>1. Changes(world, F, G) \in SUBSET Change
      BY DEF Changes, Change
    <2> QED  BY <2>1 DEF Plan
  <1>3. CASE d = NoOpDecision
    <2>1. p = Plan("pool", Changes(world, {}, {}))
      BY <1>3 DEF Plans, NoOpDecision
    <2> QED  BY <1>2, <2>1
  <1>4. CASE d.kind = "Spawn" /\ d.count \in 0 .. Limit
    <2> DEFINE rest == Slots \ world
    <2>1. PICK F \in Picks(rest, d.count) : p = Plan("pool", Changes(world, F, {}))
      BY <1>4 DEF Plans
    <2>2. rest \in SUBSET Slots
      OBVIOUS
    <2>3. F \in SUBSET rest
      <3> HIDE DEF rest, d
      <3> QED  BY <1>4, <2>2, Picked
    <2> QED  BY <1>2, <2>1, <2>3
  <1>5. CASE d.kind = "ReapExcess" /\ d.count \in 0 .. Limit
    <2>1. PICK F \in Picks(world, d.count) : p = Plan("pool", Changes(world, {}, F))
      BY <1>5 DEF Plans
    <2>2. F \in SUBSET world
      BY <1>5, Picked
    <2> QED  BY <1>2, <2>1, <2>2
  <1> QED
    BY <1>1, <1>3, <1>4, <1>5, SteersToDesired

(* Nothing is half done while the job is not Running. *)
LEMMA IdleType ==
  ASSUME Idle
  PROVE  /\ stage' = "idle" /\ stage' \in Stages
         /\ plan'.changes \in SUBSET Change /\ todo' \in SUBSET effective(plan')
         /\ \A c \in applied' \cup failed' : c.address \in Slots /\ c.action \in Action
  BY DEF Idle, Stages, NoPlan, Plan

LEMMA TypeInit == Init => TypeOK
  <1> SUFFICES ASSUME Init PROVE TypeOK
    OBVIOUS
  <1>1. plan.changes = {} /\ todo = {} /\ applied = {} /\ failed = {} /\ stage = "idle"
    BY DEF Init, NoPlan, Plan
  <1>2. latest \in [attempt : Nat, kind : FailureKind] /\ phase \in JobPhase
    BY DEF Init, NoRecord, with_kind, FailureKind, JobPhase
  <1>3. since_scaled \in Age /\ since_fire \in Age /\ in_phase \in Age
    BY DEF Init, Age
  <1>4. Cardinality(sink) <= 1
    BY FS_EmptySet DEF Init
  <1> QED
    BY <1>1, <1>2, <1>3, <1>4 DEF Init, TypeOK, Stages

(* The texts of the changes that failed, which BodyErr joins. *)
TextsOK == \A f \in failed : f.error \in Raw

LEMMA TextsStep == TextsOK /\ [Next]_vars => TextsOK'
  <1> SUFFICES ASSUME TextsOK, [Next]_vars PROVE TextsOK'
    OBVIOUS
  <1>1. ASSUME NEW c \in todo, ApplyFails(c) PROVE TextsOK'
    BY <1>1 DEF ApplyFails, FailedChange, TextsOK
  <1>2. CASE failed' = {} \/ failed' = failed
    BY <1>2 DEF TextsOK
  <1>3. CASE Allocate \/ ReadStateFails \/ ApplyAborts \/ BodyErr \/ TimesOut \/ NextFire \/ Restart
    BY <1>2, <1>3 DEF Allocate, ReadStateFails, ApplyAborts, BodyErr, TimesOut, Fails, NextFire, Restart, Renew,
                      Idle, bodyVars
  <1>4. CASE EvaluateGates \/ DecideRetry \/ BackoffElapsed \/ DetectDrift \/ BodyOk \/ Record
               \/ Succeed \/ Hang \/ WatchSuspends \/ OperatorResumes \/ OperatorRetries
               \/ InstallLayers \/ ClockAdvances \/ ClockSetBack \/ UNCHANGED vars
    BY <1>2, <1>4 DEF EvaluateGates, DecideRetry, BackoffElapsed, DetectDrift, BodyOk, Record,
         Succeed, Hang, WatchSuspends, OperatorResumes, OperatorRetries, InstallLayers,
         ClockAdvances, ClockSetBack, vars, bodyVars
  <1>5. ASSUME NEW c \in todo, ApplyChange(c) PROVE TextsOK'
    BY <1>2, <1>5 DEF ApplyChange
  <1>6. ASSUME NEW m \in members, MemberDies(m) PROVE TextsOK'
    BY <1>2, <1>6 DEF MemberDies, bodyVars
  <1> QED
    BY <1>1, <1>3, <1>4, <1>5, <1>6 DEF Next, Execute

LEMMA TypeStep == TypeOK /\ TextsOK /\ Room /\ PoolWithinBounds /\ [Next]_vars => TypeOK'
  <1> SUFFICES ASSUME TypeOK, TextsOK, Room, PoolWithinBounds, [Next]_vars PROVE TypeOK'
    OBVIOUS
  <1>1. ASSUME NEW signal \in {"ExecutionFailed", "Timeout"}, NEW raw \in Raw, Fails(signal, raw)
        PROVE  TypeOK'
    <2>1. /\ Idle /\ phase' \in JobPhase /\ in_phase' \in Age
          /\ UNCHANGED <<poolVars, envVars, sink>>
      BY <1>1, TransitionType DEF Fails, TypeOK
    <2>2. latest' \in [attempt : Nat, kind : FailureKind] /\ broken' \in BOOLEAN
      <3>1. Classify[raw] \in FailureKind
        BY ClassifierAssumption
      <3> QED  BY <1>1, <3>1 DEF Fails, with_kind, TypeOK
    <2> QED  BY <2>1, <2>2, IdleType DEF TypeOK, poolVars, envVars
  <1>2. CASE ReadStateFails \/ ApplyAborts \/ TimesOut
    <2>1. Errors \subseteq Raw /\ {} \in Raw
      BY DEF Raw
    <2> QED  BY <1>1, <1>2, <2>1 DEF ReadStateFails, ApplyAborts, TimesOut
  <1>3. CASE BodyErr
    <2>1. UNION {f.error : f \in failed} \in Raw
      BY DEF TextsOK, Raw
    <2> QED  BY <1>1, <1>3, <2>1 DEF BodyErr
  <1>4. CASE EvaluateGates \/ DecideRetry \/ BackoffElapsed \/ OperatorRetries
    <2>1. PICK signal : Transition(signal)
      BY <1>4 DEF EvaluateGates, DecideRetry, BackoffElapsed, OperatorRetries
    <2>2. phase # "Running" /\ UNCHANGED <<poolVars, latest, bodyVars, envVars, sink>>
          /\ broken' \in BOOLEAN
      BY <1>4 DEF EvaluateGates, DecideRetry, BackoffElapsed, OperatorRetries, TypeOK
    <2>3. stage = "idle" /\ phase' \in JobPhase /\ in_phase' \in Age
      BY <2>1, <2>2, TransitionType DEF TypeOK
    <2> QED  BY <2>2, <2>3 DEF TypeOK, poolVars, bodyVars, envVars
  <1>5. CASE Allocate
    <2>1. phase' = "Running" /\ in_phase' \in Age
      BY <1>5, TransitionType DEF Allocate, Transition, advance, Regatable, TypeOK
    <2> QED
      BY <1>5, <2>1 DEF Allocate, TypeOK, JobPhase, Stages, NoPlan, Plan, poolVars, envVars
  <1>6. CASE DetectDrift
    <2>1. plan'.changes \in SUBSET Change
      BY <1>6, PlanType DEF DetectDrift, TypeOK, PoolWithinBounds
    <2> QED  BY <1>6, <2>1 DEF DetectDrift, TypeOK, Stages, poolVars, jobVars, envVars
  <1>7. ASSUME NEW c \in todo, NEW e \in {AppliedChange(c)} \cup {FailedChange(c, raw) : raw \in Errors}
        PROVE  c.address \in Slots /\ c.action \in Action /\ e.address = c.address /\ e.action = c.action
    <2>1. c \in Change
      BY DEF TypeOK, effective
    <2>2. c.address \in Slots /\ c.action \in Action
      BY <2>1 DEF Change, change, change_with_severity, Action
    <2> QED  BY <2>2 DEF AppliedChange, FailedChange
  <1>8. ASSUME NEW c \in todo, ApplyChange(c) PROVE TypeOK'
    <2>1. /\ todo' = todo \ {c} /\ members' = After(members, c) /\ since_scaled' = 0
          /\ applied' = applied \cup {AppliedChange(c)}
          /\ UNCHANGED <<jobVars, stage, plan, failed, envVars, sink>>
      BY <1>8 DEF ApplyChange
    <2>2. members' \in SUBSET Slots /\ since_scaled' \in Age
      BY <1>7, <2>1 DEF After, TypeOK, Age
    <2>3. \A a \in applied' : a.address \in Slots /\ a.action \in Action
      BY <1>7, <2>1 DEF TypeOK
    <2> QED  BY <2>1, <2>2, <2>3 DEF TypeOK, jobVars, envVars, effective
  <1>9. ASSUME NEW c \in todo, ApplyFails(c) PROVE TypeOK'
    <2>1. PICK raw \in Errors :
            /\ todo' = todo \ {c} /\ failed' = failed \cup {FailedChange(c, raw)}
            /\ UNCHANGED <<poolVars, jobVars, stage, plan, applied, envVars, sink>>
      BY <1>9 DEF ApplyFails
    <2>2. \A f \in failed' : f.address \in Slots /\ f.action \in Action
      BY <1>7, <2>1 DEF TypeOK
    <2> QED  BY <2>1, <2>2 DEF TypeOK, poolVars, jobVars, envVars, effective
  <1>10. CASE BodyOk \/ Hang
    BY <1>10 DEF BodyOk, Hang, TypeOK, Stages, effective, poolVars, jobVars, envVars
  <1>11. CASE Record
    <2>1. Cardinality({outcome}) = 1 /\ sink' = {outcome}
      BY <1>11, FS_Singleton DEF Record
    <2> QED  BY <1>11, <2>1 DEF Record, TypeOK, Stages, effective, poolVars, jobVars, envVars
  <1>12. CASE Succeed
    <2>1. phase' \in JobPhase /\ in_phase' \in Age
      BY <1>12, TransitionType DEF Succeed, TypeOK
    <2> QED  BY <1>12, <2>1 DEF Succeed, TypeOK, Stages, effective, poolVars, envVars
  <1>13. CASE WatchSuspends \/ OperatorResumes \/ InstallLayers \/ UNCHANGED vars
    BY <1>13 DEF WatchSuspends, OperatorResumes, InstallLayers, vars, TypeOK, effective,
                 poolVars, jobVars, bodyVars, envVars
  <1>14. CASE ClockAdvances \/ ClockSetBack
    <2>1. since_fire' \in Age /\ since_scaled' \in Age /\ in_phase' \in Age
      BY <1>14 DEF ClockAdvances, ClockSetBack, Later, Earlier, Age, TypeOK
    <2> QED  BY <1>14, <2>1 DEF ClockAdvances, ClockSetBack, TypeOK, effective, bodyVars
  <1>15. ASSUME Renew
         PROVE  /\ stage' = "idle" /\ stage' \in Stages
                /\ plan'.changes \in SUBSET Change /\ todo' \in SUBSET effective(plan')
                /\ \A c \in applied' \cup failed' : c.address \in Slots /\ c.action \in Action
                /\ phase' \in JobPhase /\ in_phase' \in Age /\ Cardinality(sink') <= 1
                /\ latest' \in [attempt : Nat, kind : FailureKind] /\ broken' \in BOOLEAN
    <2>1. Idle /\ phase' = "Pending" /\ in_phase' = 0 /\ sink' = {} /\ broken' \in BOOLEAN
      BY <1>15 DEF Renew
    <2>2. phase' \in JobPhase /\ in_phase' \in Age
      BY <2>1 DEF JobPhase, Age
    <2>3. latest' \in [attempt : Nat, kind : FailureKind]
      <3>1. [attempt |-> 0, kind |-> "Transient"] \in [attempt : Nat, kind : FailureKind]
        BY DEF FailureKind
      <3> QED  BY <1>15, <3>1 DEF Renew, NoRecord, with_kind
    <2>4. Cardinality(sink') <= 1
      BY <2>1, FS_EmptySet
    <2> QED  BY <2>1, <2>2, <2>3, <2>4, IdleType
  <1>16. CASE NextFire \/ Restart
    <2>1. since_fire' \in Age /\ UNCHANGED <<poolVars, layers, suspended>>
      BY <1>16 DEF NextFire, Restart, envVars, TypeOK, Age
    <2>2. CASE Renew
      BY <1>15, <2>1, <2>2 DEF TypeOK, poolVars
    <2>3. CASE UNCHANGED <<jobVars, bodyVars, sink>>
      BY <2>1, <2>3 DEF TypeOK, poolVars, jobVars, bodyVars, effective
    <2> QED  BY <1>16, <2>2, <2>3 DEF NextFire, Restart
  <1>17. ASSUME NEW m \in members, MemberDies(m) PROVE TypeOK'
    BY <1>17 DEF MemberDies, TypeOK, effective, jobVars, bodyVars, envVars
  <1> QED
    BY <1>2, <1>3, <1>4, <1>5, <1>6, <1>8, <1>9, <1>10, <1>11, <1>12, <1>13, <1>14, <1>16, <1>17
       DEF Next, Execute

(* Every variable of the daemon keeps its type; its body is under way only *)
(* while its job is Running, and the sink never holds two outcomes.        *)
THEOREM TypeCorrect == Spec => []TypeOK
  <1>1. Init => TextsOK
    BY DEF Init, TextsOK
  <1> QED
    BY <1>1, TypeInit, TypeStep, TextsStep, RoomInit, RoomStep, PoolBounded, PTL DEF Spec
=============================================================================
