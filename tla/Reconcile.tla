----------------------------- MODULE Reconcile ------------------------------
(***************************************************************************)
(* The convergence primitives of shigoto-types at work in one consumer: a  *)
(* daemon that keeps a pool of machines at its size.  Its one job is a     *)
(* RecordingJob whose body reads the pool, decides, plans and applies the  *)
(* plan change by change.  The job goes through the phases of advance(),   *)
(* its gates are a ScheduleWindow and an OperatorApproved flag, a failure  *)
(* is classified and recorded with its kind, RetryPolicy::decide gives up  *)
(* or waits, and a TimeoutWatcher looks after the phases.                  *)
(*                                                                         *)
(* The daemon and its reconciler are consumer code: external.  Times are   *)
(* differences: what has passed since the job entered its phase, since the *)
(* pool was last scaled, since the schedule last fired.                    *)
(***************************************************************************)
EXTENDS Gate, Retry, Failures, Converge, Watch, Policies

CONSTANTS
  Slots,         \* the addresses a member of the pool can have
  Limit,         \* no settings allow a larger pool
  Defaults,      \* the settings' hard default
  LayerChoices,  \* the sequences of layers an operator installs
  RetryWith,     \* the RetryPolicy
  Errors,        \* the texts a failing call answers with
  Classify,      \* the daemon's Classifier
  Rules,         \* its WatchRules
  Window,        \* the ScheduleWindow's window
  Period,        \* from one fire of the schedule to the next
  Picks(_, _),   \* which n of some addresses the reconciler may pick
  MaxAge,        \* bound: times are looked at up to here
  MaxAttempts    \* bound: failures before an operator leaves the job alone

Settings == {resolve(layers, Defaults) : layers \in LayerChoices}

ASSUME ReconcileAssumption ==
  /\ IsFiniteSet(Slots) /\ Limit \in Nat /\ LayerChoices # {}
  /\ \A s \in Settings :
       /\ s.min_size \in Nat /\ s.max_size \in Nat /\ s.desired_size \in Nat
       /\ s.min_size <= s.max_size /\ s.max_size <= Limit
       /\ s.cooldown_secs \in Int
  /\ \A S \in SUBSET Slots : \A n \in 0 .. Limit :
       \A F \in Picks(S, n) : F \subseteq S /\ Cardinality(F) = n
  /\ RetryWith \in RetryPolicy
  /\ Errors \subseteq Raw
  /\ Window \in Nat /\ Period \in Nat /\ MaxAge \in Nat /\ MaxAttempts \in Nat
  /\ Window < Period /\ Period <= MaxAge

ASSUME ClassifierAssumption == Classify \in [Raw -> FailureKind]

VARIABLES
  members,      \* the pool: the addresses that are up
  since_scaled, \* now - last_scaled_at, which the pool remembers
  layers,       \* the operator's layers
  since_fire,   \* now - scheduled_at
  phase,
  in_phase,     \* now - the time of the last TransitionEvent
  latest,       \* the last FailureRecord; its attempt counts them
  stage,        \* where execute() is
  plan, todo, applied, failed,   \* its locals
  sink,         \* what InMemorySink holds for the job: at most one outcome
  suspended,    \* the flag that WatchAction::Suspend sets
  broken        \* history variable: a Declarative failure, and no operator since

poolVars == <<members, since_scaled>>
jobVars == <<phase, in_phase, latest, broken>>
bodyVars == <<stage, plan, todo, applied, failed>>
envVars == <<layers, since_fire, suspended>>
vars == <<poolVars, jobVars, bodyVars, envVars, sink>>

Stages == {"idle", "detect", "apply", "hung", "record", "recorded"}
Change == {change(a, action) : a \in Slots, action \in {"Create", "Delete", "NoOp"}}
NoPlan == Plan("pool", {})
NoRecord == with_kind(0, "Transient")
Age == -1 .. MaxAge

TypeOK ==
  /\ members \in SUBSET Slots
  /\ layers \in LayerChoices
  /\ since_scaled \in Age /\ since_fire \in Age /\ in_phase \in Age
  /\ phase \in JobPhase
  /\ latest \in [attempt : Nat, kind : FailureKind]
  /\ stage \in Stages
  /\ plan.changes \in SUBSET Change /\ todo \in SUBSET effective(plan)
  /\ \A c \in applied \cup failed : c.address \in Slots /\ c.action \in Action
  /\ stage # "idle" => phase = "Running"
  /\ Cardinality(sink) <= 1
  /\ suspended \in BOOLEAN /\ broken \in BOOLEAN

Init ==
  /\ members = {} /\ since_scaled = MaxAge
  /\ layers \in LayerChoices
  /\ since_fire = 0
  /\ phase = "Pending" /\ in_phase = 0
  /\ latest = NoRecord
  /\ stage = "idle" /\ plan = NoPlan /\ todo = {} /\ applied = {} /\ failed = {}
  /\ sink = {}
  /\ suspended = FALSE /\ broken = FALSE

-----------------------------------------------------------------------------
(* The reconciler: compute_plan over what read_state found. *)

settings == resolve(layers, Defaults)

Ctx(current, since) ==
  [current_members |-> current, last_scaled_at |-> 0, now |-> since,
   min_size |-> settings.min_size, max_size |-> settings.max_size,
   desired_size |-> settings.desired_size, cooldown_secs |-> settings.cooldown_secs]

(* The plans for a decision; the members that stay are NoOp changes.       *)
Changes(observed, created, deleted) ==
  {change(a, "Create") : a \in created} \cup {change(a, "Delete") : a \in deleted}
    \cup {change(a, "NoOp") : a \in observed \ deleted}

Plans(observed, since) ==
  LET d == decide(Ctx(Cardinality(observed), since))
  IN  CASE d.kind = "Spawn" ->
             {Plan("pool", Changes(observed, F, {})) : F \in Picks(Slots \ observed, d.count)}
        [] d.kind = "ReapExcess" ->
             {Plan("pool", Changes(observed, {}, F)) : F \in Picks(observed, d.count)}
        [] d.kind = "NoOp" -> {Plan("pool", Changes(observed, {}, {}))}

After(world, c) ==
  CASE c.action = "Create" -> world \cup {c.address}
    [] c.action = "Delete" -> world \ {c.address}
    [] OTHER -> world

-----------------------------------------------------------------------------
(* The phases.  Every transition is advance(), and emits the event whose   *)
(* time the watcher measures from.                                         *)

Transition(signal) ==
  /\ advance(phase, signal) # IllegalTransition
  /\ phase' = advance(phase, signal)
  /\ in_phase' = 0

(* OperatorApproved, over the flag that Suspend sets. *)
OperatorApproved == IF suspended THEN "Wait" ELSE "Pass"

(* A fire whose window is closed waits for the next one. *)
WindowGate == IF is_in_window(Window, since_fire) THEN "Pass" ELSE "Wait"

EvaluateGates ==
  LET aggregate == reduce({OperatorApproved, WindowGate})
  IN /\ phase \in {"Pending", "Gated"}
     /\ phase = "Gated" => aggregate # "SomeWaiting"
     /\ Transition(aggregate)
     /\ UNCHANGED <<poolVars, latest, broken, bodyVars, envVars, sink>>

(* One job needs no cap. *)
Allocate ==
  /\ phase = "Ready"
  /\ Transition("AllocateBudget")
  /\ stage' = "detect"
  /\ plan' = NoPlan /\ todo' = {} /\ applied' = {} /\ failed' = {}
  /\ UNCHANGED <<poolVars, latest, broken, envVars, sink>>

DecideRetry ==
  /\ phase = "Failed"
  /\ Transition(IF Deadletters(RetryWith, latest.attempt, latest.kind)
                THEN "RetryDecideDeadletter" ELSE "RetryDecideRetry")
  /\ UNCHANGED <<poolVars, latest, broken, bodyVars, envVars, sink>>

(* in_phase is the time since the transition that computed until_ms. *)
BackoffElapsed ==
  /\ phase = "Retrying"
  /\ \E after \in Delays(RetryWith, latest.attempt) : in_phase >= until_ms(0, after)
  /\ Transition("BackoffElapsed")
  /\ UNCHANGED <<poolVars, latest, broken, bodyVars, envVars, sink>>

-----------------------------------------------------------------------------
(* execute() of the RecordingJob. *)

(* Mutant: it is not seen that execute() is over. *)
StillBusy ==
  /\ plan' = NoPlan /\ todo' = {} /\ applied' = {} /\ failed' = {}
  /\ UNCHANGED stage

Idle ==
  /\ stage' = "idle"
  /\ plan' = NoPlan /\ todo' = {} /\ applied' = {} /\ failed' = {}

(* execute() has failed with this text: it is classified where it happens, *)
(* and recorded with its kind.                                             *)
Fails(signal, raw) ==
  LET kind == Classify[raw]
  IN /\ Transition(signal)
     /\ latest' = with_kind(latest.attempt + 1, kind)
     /\ broken' = (kind = "Declarative")
     /\ Idle
     /\ UNCHANGED <<poolVars, envVars, sink>>

(* detect_drift: read_state, which may be an Err, and compute_plan. *)
ReadStateFails ==
  /\ stage = "detect"
  /\ \E raw \in Errors : Fails("ExecutionFailed", raw)

DetectDrift ==
  /\ stage = "detect"
  /\ plan' \in Plans(members, since_scaled)
  /\ todo' = effective(plan')
  /\ stage' = IF is_noop(plan') THEN "record" ELSE "apply"
  /\ UNCHANGED <<poolVars, jobVars, applied, failed, envVars, sink>>

(* apply: one change succeeds, or fails and the others go on. *)
ApplyChange(c) ==
  /\ stage = "apply" /\ c \in todo
  /\ todo' = todo \ {c}
  /\ members' = After(members, c) /\ since_scaled' = 0
  /\ applied' = applied \cup {AppliedChange(c)}
  /\ UNCHANGED <<jobVars, stage, plan, failed, envVars, sink>>

ApplyFails(c) ==
  /\ stage = "apply" /\ c \in todo
  /\ todo' = todo \ {c}
  /\ \E raw \in Errors : failed' = failed \cup {FailedChange(c, raw)}
  /\ UNCHANGED <<poolVars, jobVars, stage, plan, applied, envVars, sink>>

(* apply itself is an Err: it stops, and the changes it has made stay made. *)
ApplyAborts ==
  /\ stage = "apply"
  /\ \E raw \in Errors : Fails("ExecutionFailed", raw)

outcome == build_outcome(plan, applied, failed)

(* execute_body is Ok for an outcome without failures, else an Err with    *)
(* the texts of all of them.                                               *)
BodyOk ==
  /\ stage = "apply" /\ todo = {} /\ fully_succeeded(outcome)
  /\ stage' = "record"
  /\ UNCHANGED <<poolVars, jobVars, plan, todo, applied, failed, envVars, sink>>

BodyErr ==
  /\ stage = "apply" /\ todo = {} /\ ~fully_succeeded(outcome)
  /\ Fails("ExecutionFailed", UNION {f.error : f \in failed})

(* Mutant: an outcome without changes is not recorded. *)
RecordEffective ==
  /\ stage = "record"
  /\ stage' = "recorded"
  /\ sink' = IF is_noop(plan) THEN sink ELSE {outcome}
  /\ UNCHANGED <<poolVars, jobVars, plan, todo, applied, failed, envVars>>

Record ==
  /\ stage = "record"
  /\ stage' = "recorded"
  /\ sink' = {outcome}
  /\ UNCHANGED <<poolVars, jobVars, plan, todo, applied, failed, envVars>>

(* execute_erased() is Ok(()). *)
Succeed ==
  /\ stage = "recorded"
  /\ Transition("ExecutionSucceeded")
  /\ stage' = "idle"
  /\ UNCHANGED <<poolVars, latest, broken, plan, todo, applied, failed, envVars, sink>>

(* A call of the body does not come back. *)
Hang ==
  /\ stage \in {"detect", "apply"}
  /\ stage' = "hung"
  /\ UNCHANGED <<poolVars, jobVars, plan, todo, applied, failed, envVars, sink>>

(* The timeout drops the future of execute(), wherever it awaits; the text *)
(* of a timeout has none of the phrases.                                   *)
TimesOut ==
  /\ stage # "idle"
  /\ Fails("Timeout", {})

-----------------------------------------------------------------------------
(* The watcher, the operator and the world. *)

Escalation == escalation(Rules, phase, in_phase)

(* Alert and Page only notify. *)
WatchSuspends ==
  /\ Escalation = Suspend /\ ~suspended
  /\ suspended' = TRUE
  /\ UNCHANGED <<poolVars, jobVars, bodyVars, layers, since_fire, sink>>

OperatorResumes ==
  /\ suspended
  /\ suspended' = FALSE
  /\ UNCHANGED <<poolVars, jobVars, bodyVars, layers, since_fire, sink>>

(* The count of the failures survives. *)
OperatorRetries ==
  /\ phase = "Deadlettered" /\ latest.attempt < MaxAttempts
  /\ Transition("OperatorPending")
  /\ broken' = FALSE
  /\ UNCHANGED <<poolVars, latest, bodyVars, envVars, sink>>

InstallLayers ==
  /\ layers' \in LayerChoices
  /\ UNCHANGED <<poolVars, jobVars, bodyVars, since_fire, suspended, sink>>

Later(age) == IF age = MaxAge THEN age ELSE age + 1
Earlier(age) == IF age = MaxAge THEN {age - 1, age} ELSE {age - 1}

ClockAdvances ==
  /\ since_fire < Period
  /\ since_fire' = since_fire + 1
  /\ since_scaled' = Later(since_scaled) /\ in_phase' = Later(in_phase)
  /\ UNCHANGED <<members, phase, latest, broken, bodyVars, layers, suspended, sink>>

(* Someone sets the clock back; at most one step below zero. *)
ClockSetBack ==
  /\ since_fire >= 0 /\ since_scaled >= 0 /\ in_phase >= 0
  /\ since_fire' = since_fire - 1
  /\ since_scaled' \in Earlier(since_scaled) /\ in_phase' \in Earlier(in_phase)
  /\ UNCHANGED <<members, phase, latest, broken, bodyVars, layers, suspended, sink>>

(* The schedule fires again: a job that has succeeded starts over, and its *)
(* output is drained.                                                      *)
Renew ==
  /\ phase' = "Pending" /\ in_phase' = 0 /\ latest' = NoRecord /\ broken' = FALSE
  /\ Idle
  /\ sink' = {}

NextFire ==
  /\ since_fire = Period
  /\ since_fire' = 0
  /\ IF phase = "Succeeded" THEN Renew ELSE UNCHANGED <<jobVars, bodyVars, sink>>
  /\ UNCHANGED <<poolVars, layers, suspended>>

MemberDies(m) ==
  /\ m \in members
  /\ members' = members \ {m}
  /\ UNCHANGED <<since_scaled, jobVars, bodyVars, envVars, sink>>

(* The daemon's process ends, and a new one starts with what is in the     *)
(* world: the pool, the operator's layers and the suspended flag.          *)
Restart ==
  /\ Renew
  /\ UNCHANGED <<poolVars, envVars>>

-----------------------------------------------------------------------------
Execute ==
  \/ ReadStateFails \/ DetectDrift
  \/ \E c \in todo : ApplyChange(c)
  \/ \E c \in todo : ApplyFails(c)
  \/ ApplyAborts \/ BodyOk \/ BodyErr \/ Record \/ Succeed \/ Hang \/ TimesOut

Next ==
  \/ EvaluateGates \/ Allocate \/ DecideRetry \/ BackoffElapsed
  \/ Execute
  \/ WatchSuspends \/ OperatorResumes \/ OperatorRetries \/ InstallLayers
  \/ ClockAdvances \/ ClockSetBack \/ NextFire
  \/ \E m \in members : MemberDies(m)
  \/ Restart

Spec == Init /\ [][Next]_vars

(* The daemon goes on with its job, and comes round oftener than a window  *)
(* is long, so that it cannot miss all of them.  Nothing makes it ask the  *)
(* watcher, nor an operator act.                                           *)
Fairness ==
  /\ SF_vars(EvaluateGates)
  /\ WF_vars(Allocate \/ DecideRetry \/ BackoffElapsed \/ Execute)
  /\ WF_vars(ClockAdvances \/ NextFire)

FairSpec == Spec /\ Fairness

-----------------------------------------------------------------------------
(* shigoto-test: idempotence_quickcheck over the pool, when the body's     *)
(* calls succeed.                                                          *)

AfterPlan(world, p) ==
  (world \cup {c.address : c \in {d \in p.changes : d.action = "Create"}})
    \ {c.address : c \in {d \in p.changes : d.action = "Delete"}}

(* What execute() can leave behind: the members, and since when. *)
Executed(world, since) ==
  {<<AfterPlan(world, p), IF is_noop(p) THEN since ELSE 0>> : p \in Plans(world, since)}

idempotence_quickcheck ==
  \A first \in Executed(members, since_scaled) :
    \A second \in Executed(first[1], first[2]) : second[1] = first[1]

(* Retries and restarts run execute() from wherever the last one stopped:  *)
(* from every state the daemon reaches, in a cooldown or out of one, with  *)
(* part of a plan applied and the layers changed since, executing once     *)
(* more changes nothing (the MUST of RecordingJob::execute_body).          *)
AcceptedByQuickcheck == idempotence_quickcheck

(* However plans are applied in part, retried from a state read earlier,   *)
(* overtaken by deaths and new layers or cut off by a timeout, the pool    *)
(* never outgrows the largest max_size (decide's clamp).                   *)
PoolWithinBounds == Cardinality(members) <= Limit

(* A succeeded job's output is in the sink, is the one of its last         *)
(* execution, and accounts for every effective change of the plan: also    *)
(* for a plan without changes, and after an execution that recorded and    *)
(* then timed out (the blanket Job::execute).                              *)
SuccessIsRecorded ==
  phase = "Succeeded" =>
    \E o \in sink :
      /\ o.plan_id = plan.id /\ fully_succeeded(o)
      /\ o.applied = {AppliedChange(c) : c \in effective(plan)}

(* A failure that is Declarative by the daemon's rules is not retried      *)
(* before an operator says so or the daemon starts anew, whatever budget   *)
(* is left and however many texts the outcome joined (RetryPolicy::decide).*)
DeclarativeStops == broken => phase \in {"Failed", "Deadlettered"}

(* The innermost layer that sets a field, read off the layers themselves.  *)
Innermost(f) ==
  LET setting == {i \in DOMAIN layers : layers[i] # NoLayer /\ layers[i][f] # Unset}
  IN  IF setting = {} THEN Defaults[f] ELSE layers[Max(setting)][f]

Converged ==
  Cardinality(members) =
    clamp(Innermost("desired_size"), Innermost("min_size"), Innermost("max_size"))

(* What the world does to the daemon. *)
Disturbed ==
  \/ ReadStateFails \/ (\E c \in todo : ApplyFails(c)) \/ ApplyAborts \/ Hang
  \/ stage # "hung" /\ TimesOut
  \/ InstallLayers \/ ClockSetBack \/ (\E m \in members : MemberDies(m)) \/ Restart

(* Once the disturbances end, the pool gets and keeps the size that the    *)
(* innermost layers ask for, unless a human has been called: the job is    *)
(* suspended, or given up and paged for.  No cooldown, closed window, hung *)
(* call or clock that was set back delays it for ever.                     *)
Settles ==
  <>[][~Disturbed]_vars =>
    \/ <>[]Converged
    \/ <>[]suspended
    \/ <>[](phase = "Deadlettered" /\ Escalation.kind = "Page" /\ ~is_empty(Escalation.routing))
=============================================================================
