--------------------------- MODULE FrontEndProofs ---------------------------
(***************************************************************************)
(* Theorems about the native path, for all templates, registries, requests *)
(* and any number of edits; and about its composition with the RTLMeter    *)
(* path, which takes nothing from either: every behaviour of the front end *)
(* is one of each, so what is proved of one holds of the two together.     *)
(***************************************************************************)
EXTENDS FrontEnd, RtlmeterProofs, FiniteSetTheorems

ItemRecord == item = [kind |-> item.kind, value |-> item.value]

(* Whatever the step makes, it is of the kind the step leads to, or the    *)
(* path has ended.                                                         *)
LEMMA StepMakes ==
  ASSUME NEW from, NEW to, NEW value, Step(from, to, value)
  PROVE  /\ item.kind = from /\ ItemRecord' /\ item'.kind \in {to, "refused"}
         /\ item'.kind # "refused" => item'.value = value /\ value # None
         /\ UNCHANGED <<asked, other, edits>>
BY DEF Step, Item, Refused, ItemRecord

----------------------------------------------------------------------------
(* The launcher command                                                    *)

LEMMA DirectKeepsContext ==
  ASSUME NEW argv, NEW context, NEW payload, Direct(argv, context, payload) # None
  PROVE  LET d == Direct(argv, context, payload)
         IN  /\ d.context = DirectContext(context)
             /\ d.shape = d.payload.shape
BY DEF Direct, Then, DirectOf

LEMMA NativeKeepsContext ==
  ASSUME NEW req, NEW payload, Native(req, payload) # None
  PROVE  LET n == Native(req, payload)
         IN  /\ n.context.target = req.context.target
             /\ n.context.ref = req.context.ref
             /\ n.shape = n.payload.shape
<1> DEFINE n == Native(req, payload)
<1>1. n = Direct(req.argv, req.context, payload)
  BY DEF Native
<1>2. /\ n.context = DirectContext(req.context)
      /\ n.shape = n.payload.shape
  BY <1>1, DirectKeepsContext
<1>3. /\ DirectContext(req.context).target = req.context.target
      /\ DirectContext(req.context).ref = req.context.ref
  BY DEF DirectContext
<1> QED BY <1>2, <1>3

(* A bridge that is accepted carries the reviewed authority.               *)
LEMMA InvocationIsReviewed ==
  ASSUME NEW native, NEW handed, NEW gate,
         Invocation(native, Bridge(LaunchHandoff(handed)), gate) # None
  PROVE  LET i == Invocation(native, Bridge(LaunchHandoff(handed)), gate)
         IN  /\ native # None
             /\ native.context.target = ReviewedTarget
             /\ native.context.ref = ReviewedRef
             /\ i.command.shape = native.shape /\ i.payload = native.payload
             /\ i.command.template = Registry[ReviewedTarget].template
<1> DEFINE bridge == Bridge(LaunchHandoff(handed))
<1>1. /\ native # None /\ bridge # None
      /\ InScope(native) /\ BridgeAccepted(bridge, native)
  BY DEF Invocation
<1>2. bridge.context = LaunchHandoff(handed).context /\ LaunchHandoff(handed) # None
  BY <1>1 DEF Bridge
<1>3. bridge.context.ref = ReviewedRef
  BY <1>2 DEF LaunchHandoff
<1>4. native.context.ref = ReviewedRef
  BY <1>1, <1>3 DEF BridgeAccepted
<1>5. native.context.template_or_entry.template = Registry[ReviewedTarget].template
  BY <1>1 DEF InScope, NamedTemplate
<1> QED BY <1>1, <1>4, <1>5 DEF InScope, Invocation, LauncherCommand

LaunchInv == ItemRecord /\ LaunchIsReviewed

LEMMA LaunchInit ==
  NativeInit => LaunchInv
BY DEF NativeInit, LaunchInv, ItemRecord, LaunchIsReviewed, Item

LEMMA InvokedIsReviewed ==
  ASSUME NEW payload, NEW handed, NEW gate, InvokedWith(Native(asked, payload), handed, gate)
  PROVE  LaunchInv'
<1> DEFINE native == Native(asked, payload)
           invoked == Invocation(native, Bridge(LaunchHandoff(handed)), gate)
<1>1. /\ ItemRecord' /\ item'.kind \in {"invocation", "refused"} /\ asked' = asked
      /\ item'.kind # "refused" => item'.value = invoked /\ invoked # None
  BY StepMakes DEF InvokedWith
<1>2. CASE item'.kind = "refused"
  BY <1>1, <1>2 DEF LaunchInv, LaunchIsReviewed
<1>3. CASE item'.kind = "invocation"
  <2>1. invoked # None /\ item'.value = invoked
    BY <1>1, <1>3
  <2>2. /\ native # None
        /\ native.context.target = ReviewedTarget
        /\ native.context.ref = ReviewedRef
        /\ invoked.command.shape = native.shape /\ invoked.payload = native.payload
        /\ invoked.command.template = Registry[ReviewedTarget].template
    BY <2>1, InvocationIsReviewed
  <2>3. /\ asked.context.target = ReviewedTarget /\ asked.context.ref = ReviewedRef
        /\ native.shape = native.payload.shape
    BY <2>2, NativeKeepsContext
  <2> QED BY <1>1, <2>1, <2>2, <2>3 DEF LaunchInv, LaunchIsReviewed
<1> QED BY <1>1, <1>2, <1>3

LEMMA LaunchNext ==
  LaunchInv /\ [NativeNext]_nativeVars => LaunchInv'
<1> SUFFICES ASSUME LaunchInv, [NativeNext]_nativeVars PROVE LaunchInv'
  OBVIOUS
<1>1. ASSUME NEW from, NEW to, NEW value, Step(from, to, value), to # "invocation"
      PROVE  LaunchInv'
  BY <1>1, StepMakes DEF LaunchInv, LaunchIsReviewed
<1>2. CASE ParseNative
  BY <1>2, <1>1 DEF ParseNative
<1>3. CASE AdaptPayload
  BY <1>3, <1>1 DEF AdaptPayload
<1>4. CASE ResolvePlan
  BY <1>4, <1>1 DEF ResolvePlan
<1>5. CASE ResolveContract
  BY <1>5, <1>1 DEF ResolveContract
<1>6. CASE ResolveOperatorPlan
  BY <1>6, <1>1 DEF ResolveOperatorPlan
<1>7. CASE DirectFromArgv
  BY <1>7, <1>1 DEF DirectFromArgv
<1>8. CASE DirectFromPayload
  BY <1>8, <1>1 DEF DirectFromPayload
<1>9. CASE MaterializeStagePlan
  BY <1>9, <1>1 DEF MaterializeStagePlan
<1>10. CASE InvokeNative
  BY <1>10, <1>1 DEF InvokeNative
<1>11. CASE HandOffLaunch
  BY <1>11, <1>1 DEF HandOffLaunch
<1>12. CASE BridgeLaunch
  BY <1>12, <1>1 DEF BridgeLaunch
<1>13. CASE \E gate \in Gates : InvokeLauncher(gate)
  <2>1. PICK gate \in Gates : InvokeLauncher(gate)
    BY <1>13
  <2> DEFINE payload == IF item.kind = "payload" THEN item.value ELSE None
  <2>2. \/ InvokedWith(Native(asked, payload), Native(asked, payload), gate)
        \/ InvokedWith(Native(asked, payload), Native(other, None), gate)
    BY <2>1 DEF InvokeLauncher, Invoke
  <2> QED BY <2>2, InvokedIsReviewed
<1>14. CASE \E field \in Fields : EditField(field)
  BY <1>14 DEF EditField, Lend, Editable, LaunchInv, LaunchIsReviewed, ItemRecord
<1>15. CASE AddOwnedField
  BY <1>15 DEF AddOwnedField, Editable, LaunchInv, LaunchIsReviewed, ItemRecord
<1>16. CASE UNCHANGED nativeVars
  BY <1>16 DEF nativeVars, LaunchInv, LaunchIsReviewed, ItemRecord
<1> QED
  BY <1>2, <1>3, <1>4, <1>5, <1>6, <1>7, <1>8, <1>9, <1>10, <1>11, <1>12, <1>13, <1>14,
     <1>15, <1>16 DEF NativeNext

(* A launcher command is only made under the reviewed authority.           *)
THEOREM LaunchesAreReviewed == NativeSpec => []LaunchIsReviewed
<1>1. LaunchInv => LaunchIsReviewed
  BY DEF LaunchInv
<1> QED BY <1>1, LaunchInit, LaunchNext, PTL DEF NativeSpec

----------------------------------------------------------------------------
(* The operator plan.  A stage plan that is planned speaks of the target   *)
(* its template builds; every resolution and every open contract carries   *)
(* such a plan, also after a field was replaced, because the plan is only  *)
(* ever replaced as a whole.                                               *)

Sound(plan) ==
  plan.status = "planned" =>
    LET built == Payloads[Registry[plan.target].template].target
    IN  /\ plan.stages["verilator_build"].mdir = built
        /\ plan.stages["coverage_output_compare"].coverage_target = built

LEMMA NormalizedKeepsTarget ==
  ASSUME NEW template \in DOMAIN Payloads
  PROVE  Normalized(Payloads[template]).target = Payloads[template].target
BY PayloadsAssumption DEF Normalized

LEMMA HybridPlanTarget ==
  ASSUME NEW template, NEW shape, NEW cfg, HybridPlan(template, shape, cfg) # None
  PROVE  HybridPlan(template, shape, cfg).target = Payloads[template].target
<1>1. template \in DOMAIN Payloads
  BY DEF HybridPlan
<1> QED BY <1>1, NormalizedKeepsTarget DEF HybridPlan

LEMMA DetailsOfTarget ==
  ASSUME NEW plan
  PROVE  LET details == AllStageDetails(plan)
         IN  /\ details["verilator_build"].mdir = plan.target
             /\ details["coverage_output_compare"].coverage_target = plan.target
<1>1. /\ StageNames[1] = "verilator_build" /\ 1 \in DOMAIN StageNames
      /\ StageNames[7] = "coverage_output_compare" /\ 7 \in DOMAIN StageNames
  BY DEF StageNames
<1>2. {"verilator_build", "coverage_output_compare"} \subseteq
        {StageNames[i] : i \in DOMAIN StageNames}
  BY <1>1
<1> QED BY <1>2 DEF AllStageDetails, StageDetails

LEMMA TemplatePlanIsSound ==
  ASSUME NEW target, NEW shape, NEW mode, TemplateStagePlan(target, shape, mode) # None
  PROVE  Sound(TemplateStagePlan(target, shape, mode))
<1> DEFINE template == Registry[target].template
           plan == HybridPlan(template, shape, DefaultCfg)
<1>1. /\ plan # None
      /\ TemplateStagePlan(target, shape, mode)
           = PlannedStages(target, shape, mode, template, AllStageDetails(plan))
  BY DEF TemplateStagePlan, TemplateStagePlanOf
<1>2. plan.target = Payloads[template].target
  BY <1>1, HybridPlanTarget
<1> HIDE DEF plan
<1>3. /\ AllStageDetails(plan)["verilator_build"].mdir = plan.target
      /\ AllStageDetails(plan)["coverage_output_compare"].coverage_target = plan.target
  BY DetailsOfTarget
<1> QED BY <1>1, <1>2, <1>3 DEF Sound, PlannedStages, Plan

LEMMA StagePlanIsSound ==
  ASSUME NEW target, NEW shape, NEW mode, NEW limit, NEW phases,
         SidecarStagePlan(target, shape, mode, limit, phases) # None
  PROVE  Sound(SidecarStagePlan(target, shape, mode, limit, phases))
<1> DEFINE plan == SidecarStagePlan(target, shape, mode, limit, phases)
<1>1. \/ plan = MobileVitStagePlan(target, shape, mode, limit)
      \/ plan = Plan(target, shape, mode, Unsupported, None, NoStages, None)
      \/ plan = ResidentStagePlan(target, shape, mode, phases)
      \/ plan = TemplateStagePlan(target, shape, mode)
  BY DEF SidecarStagePlan, Modes
<1>2. CASE plan = MobileVitStagePlan(target, shape, mode, limit)
  BY <1>2 DEF MobileVitStagePlan, Plan, Sound, Unsupported, PlannedNotReady
<1>3. CASE plan = Plan(target, shape, mode, Unsupported, None, NoStages, None)
  BY <1>3 DEF Plan, Sound, Unsupported
<1>4. CASE plan = ResidentStagePlan(target, shape, mode, phases)
  BY <1>4 DEF ResidentStagePlan, Plan, Sound, PlannedNotReady
<1>5. CASE plan = TemplateStagePlan(target, shape, mode)
  BY <1>5, TemplatePlanIsSound
<1> QED BY <1>1, <1>2, <1>3, <1>4, <1>5

ResolutionSound(r) == "stage_plan" \in DOMAIN r /\ Sound(r.stage_plan)

ContractSound(c) ==
  /\ {"stage_plan", "closed"} \subseteq DOMAIN c
  /\ ~c.closed => Sound(c.stage_plan)

LEMMA ResolutionIsSound ==
  ASSUME NEW adapter, NEW context, Resolution(adapter, context) # None
  PROVE  ResolutionSound(Resolution(adapter, context))
<1> DEFINE plan == SidecarStagePlan(context.target, adapter.shape, context.mode, context.limit,
                                    PhasesOf(context))
<1>1. plan # None /\ Resolution(adapter, context) = ResolutionOf(adapter, plan)
  BY DEF Resolution, Then
<1>2. Sound(plan)
  BY <1>1, StagePlanIsSound
<1> HIDE DEF plan
<1>3. ResolutionOf(adapter, plan) # None
  BY <1>1
<1> QED BY <1>1, <1>2, <1>3 DEF ResolutionOf, ResolutionSound

LEMMA ContractIsSound ==
  ASSUME NEW r, ResolutionSound(r), Contract(r) # None
  PROVE  ContractSound(Contract(r))
<1>1. CASE r.status \in {NotReady, Unsupported}
  BY <1>1 DEF Contract, Closed, ContractSound
<1>2. CASE r.status \notin {NotReady, Unsupported}
  <2>1. ResolutionAccepted(r)
    BY <1>2 DEF Contract
  <2>2. /\ {"stage_plan", "closed"} \subseteq DOMAIN Contract(r)
        /\ Contract(r).stage_plan = r.stage_plan
    BY <1>2, <2>1 DEF Contract
  <2> QED BY <2>2 DEF ContractSound, ResolutionSound
<1> QED BY <1>1, <1>2

LEMMA CounterpartIsSound ==
  ASSUME NEW req
  PROVE  /\ Counterpart("resolution", req) # None =>
              ResolutionSound(Counterpart("resolution", req))
         /\ Counterpart("contract", req) # None =>
              ContractSound(Counterpart("contract", req))
<1> DEFINE adapter == Then(Payload(req.argv), Adapter)
           resolution == Then(adapter, LAMBDA a : Resolution(a, req.context))
<1>1. /\ Counterpart("resolution", req) = resolution
      /\ Counterpart("contract", req) = Then(resolution, Contract)
  BY DEF Counterpart
<1>2. resolution # None => ResolutionSound(resolution)
  BY ResolutionIsSound DEF Then
<1> HIDE DEF resolution
<1>3. Then(resolution, Contract) # None => ContractSound(Then(resolution, Contract))
  BY <1>2, ContractIsSound DEF Then
<1> QED BY <1>1, <1>2, <1>3

PlanInv ==
  /\ ItemRecord
  /\ item.kind = "resolution" => ResolutionSound(item.value)
  /\ item.kind = "contract" => ContractSound(item.value)
  /\ CoherentPlan

LEMMA PlanInit ==
  NativeInit => PlanInv
BY DEF NativeInit, PlanInv, ItemRecord, CoherentPlan, OperatorReady, Item

(* What the operator plan of a sound contract says, part by part.          *)
LEMMA OperatorIsCoherent ==
  ASSUME NEW c, ContractSound(c), OperatorPlan(c) # None, ~OperatorPlan(c).closed
  PROVE  LET o == OperatorPlan(c)
         IN  /\ <<o.plan.command.states, o.plan.command.steps>> = o.plan.handoff.shape
             /\ o.plan.estimate.shape = o.plan.handoff.shape
             /\ o.plan.entrypoint = o.plan.handoff.shape
             /\ o.cross.shape = o.plan.handoff.shape
             /\ o.plan.command.mdir = o.plan.handoff.coverage_target
             /\ Payloads[Registry[o.plan.estimate.target].template].target
                  = o.plan.handoff.coverage_target
<1> DEFINE o == OperatorPlan(c)
           plan == c.stage_plan
           run == plan.stages["hybrid_sidecar_run"]
<1>1. ~c.closed
  BY DEF OperatorPlan
<1>2. ContractAccepted(c)
  BY <1>1 DEF OperatorPlan
<1>3. /\ o.cross = c.cross
      /\ o.plan = SidecarOperatorPlan(
                    VerilatorCommandArgv(plan),
                    EfficiencyEstimate(plan.target, plan.shape, plan.mode, 4), c.handoff)
  BY <1>1, <1>2 DEF OperatorPlan
<1>4. /\ o.plan.handoff = c.handoff /\ o.plan.entrypoint = c.handoff.shape
      /\ o.plan.command.states = run.nstates /\ o.plan.command.steps = run.steps
      /\ o.plan.command.mdir = plan.stages["verilator_build"].mdir
      /\ o.plan.estimate.target = plan.target /\ o.plan.estimate.shape = plan.shape
  BY <1>3 DEF SidecarOperatorPlan, VerilatorCommandArgv, EfficiencyEstimate
<1>5. /\ plan.status = "planned" /\ plan.shape = c.handoff.shape
      /\ <<run.nstates, run.steps>> = c.handoff.shape
      /\ c.handoff.coverage_target = plan.stages["coverage_output_compare"].coverage_target
      /\ c.cross.shape = c.handoff.shape
  BY <1>2 DEF ContractAccepted, StagePlanAccepted, StageDetailsAgree, CrossCheckAccepted
<1>6. Sound(plan)
  BY <1>1 DEF ContractSound
<1>7. /\ plan.stages["verilator_build"].mdir = Payloads[Registry[plan.target].template].target
      /\ c.handoff.coverage_target = Payloads[Registry[plan.target].template].target
  BY <1>5, <1>6 DEF Sound
<1> QED BY <1>3, <1>4, <1>5, <1>7

LEMMA EditsKeepSoundness ==
  ASSUME PlanInv, NEW field \in Fields, EditField(field)
  PROVE  PlanInv'
<1> DEFINE lent == Counterpart(item.kind, other)
<1>1. /\ item.kind \in DOMAIN Editable /\ field \in Editable[item.kind]
      /\ item.kind = "contract" => ~item.value.closed
      /\ lent # None
      /\ item.kind = "contract" => ~lent.closed
      /\ item' = [item EXCEPT !.value[field] = lent[field]]
  BY DEF EditField, Lend
<1>2. /\ item'.kind = item.kind
      /\ item'.value = [item.value EXCEPT ![field] = lent[field]]
      /\ ItemRecord'
  BY <1>1 DEF PlanInv, ItemRecord
<1>3. item.kind \notin {"operator"}
  BY <1>1 DEF Editable
<1>4. item.kind = "resolution" => ResolutionSound(item.value')
  <2> SUFFICES ASSUME item.kind = "resolution" PROVE ResolutionSound(item.value')
    OBVIOUS
  <2>1. ResolutionSound(item.value) /\ ResolutionSound(lent)
    BY <1>1, CounterpartIsSound DEF PlanInv
  <2> HIDE DEF lent
  <2>2. CASE field = "stage_plan"
    BY <1>2, <2>1, <2>2 DEF ResolutionSound
  <2>3. CASE field # "stage_plan"
    BY <1>2, <2>1, <2>3 DEF ResolutionSound
  <2> QED BY <2>2, <2>3
<1>5. item.kind = "contract" => ContractSound(item.value')
  <2> SUFFICES ASSUME item.kind = "contract" PROVE ContractSound(item.value')
    OBVIOUS
  <2>1. /\ ContractSound(item.value) /\ ~item.value.closed
        /\ ContractSound(lent) /\ ~lent.closed
    BY <1>1, CounterpartIsSound DEF PlanInv
  <2>2. field # "closed"
    BY <1>1 DEF Editable
  <2> HIDE DEF lent
  <2>3. CASE field = "stage_plan"
    BY <1>2, <2>1, <2>3 DEF ContractSound
  <2>4. CASE field # "stage_plan"
    BY <1>2, <2>1, <2>2, <2>4 DEF ContractSound
  <2> QED BY <2>3, <2>4
<1> QED BY <1>2, <1>3, <1>4, <1>5 DEF PlanInv, CoherentPlan, OperatorReady

LEMMA AddingKeepsSoundness ==
  ASSUME PlanInv, AddOwnedField
  PROVE  PlanInv'
<1>1. /\ item.kind \in DOMAIN Editable
      /\ item' = [item EXCEPT !.value.extra = TRUE]
  BY DEF AddOwnedField
<1>2. /\ item'.kind = item.kind /\ ItemRecord'
      /\ item'.value = [item.value EXCEPT !.extra = TRUE]
  BY <1>1 DEF PlanInv, ItemRecord
<1>3. item.kind \notin {"operator"}
  BY <1>1 DEF Editable
<1>4. item.kind = "resolution" => ResolutionSound(item.value')
  BY <1>2 DEF PlanInv, ResolutionSound
<1>5. item.kind = "contract" => ContractSound(item.value')
  BY <1>2 DEF PlanInv, ContractSound
<1> QED BY <1>2, <1>3, <1>4, <1>5 DEF PlanInv, CoherentPlan, OperatorReady

LEMMA PlanNext ==
  PlanInv /\ [NativeNext]_nativeVars => PlanInv'
<1> SUFFICES ASSUME PlanInv, [NativeNext]_nativeVars PROVE PlanInv'
  OBVIOUS
<1>1. ASSUME NEW from, NEW to, NEW value, Step(from, to, value),
             to \notin {"resolution", "contract", "operator"}
      PROVE  PlanInv'
  BY <1>1, StepMakes DEF PlanInv, CoherentPlan, OperatorReady
<1>2. ASSUME NEW from, NEW value, Step(from, "resolution", value),
             value # None => ResolutionSound(value)
      PROVE  PlanInv'
  BY <1>2, StepMakes DEF PlanInv, CoherentPlan, OperatorReady
<1>3. CASE ParseNative
  BY <1>3, <1>1 DEF ParseNative
<1>4. CASE AdaptPayload
  BY <1>4, <1>1 DEF AdaptPayload
<1>5. CASE ResolvePlan
  BY <1>5, <1>2, ResolutionIsSound DEF ResolvePlan
<1>6. CASE ResolveContract
  <2>1. Contract(item.value) # None => ContractSound(Contract(item.value))
    BY <1>6, ContractIsSound DEF ResolveContract, Step, PlanInv
  <2> QED BY <1>6, <2>1, StepMakes DEF ResolveContract, PlanInv, CoherentPlan, OperatorReady
<1>7. CASE ResolveOperatorPlan
  <2>1. /\ item.kind = "contract" /\ ItemRecord'
        /\ item'.kind \in {"operator", "refused"}
        /\ item'.kind # "refused" =>
             item'.value = OperatorPlan(item.value) /\ OperatorPlan(item.value) # None
    BY <1>7, StepMakes DEF ResolveOperatorPlan
  <2>2. ContractSound(item.value)
    BY <2>1 DEF PlanInv
  <2>3. CASE OperatorReady'
    BY <2>1, <2>2, <2>3, OperatorIsCoherent DEF PlanInv, CoherentPlan, OperatorReady
  <2>4. CASE ~OperatorReady'
    BY <2>1, <2>4 DEF PlanInv, CoherentPlan
  <2> QED BY <2>3, <2>4
<1>8. CASE DirectFromArgv
  BY <1>8, <1>1 DEF DirectFromArgv
<1>9. CASE DirectFromPayload
  BY <1>9, <1>1 DEF DirectFromPayload
<1>10. CASE MaterializeStagePlan
  <2>1. Materialized(item.value) # None => ResolutionSound(Materialized(item.value))
    BY ResolutionIsSound DEF Materialized, Then
  <2> QED BY <1>10, <2>1, <1>2 DEF MaterializeStagePlan
<1>11. CASE InvokeNative
  BY <1>11, <1>1 DEF InvokeNative
<1>12. CASE HandOffLaunch
  BY <1>12, <1>1 DEF HandOffLaunch
<1>13. CASE BridgeLaunch
  BY <1>13, <1>1 DEF BridgeLaunch
<1>14. CASE \E gate \in Gates : InvokeLauncher(gate)
  BY <1>14, <1>1 DEF InvokeLauncher, Invoke, InvokedWith
<1>15. CASE \E field \in Fields : EditField(field)
  BY <1>15, EditsKeepSoundness
<1>16. CASE AddOwnedField
  BY <1>16, AddingKeepsSoundness
<1>17. CASE UNCHANGED nativeVars
  BY <1>17 DEF nativeVars, PlanInv, ItemRecord, CoherentPlan, OperatorReady
<1> QED
  BY <1>3, <1>4, <1>5, <1>6, <1>7, <1>8, <1>9, <1>10, <1>11, <1>12, <1>13, <1>14, <1>15,
     <1>16, <1>17 DEF NativeNext

(* An operator plan that is ready speaks of one run, whatever fields were  *)
(* replaced on the way and however many: command, estimate, handoff and    *)
(* parser schedule have one shape, and command, estimate and handoff one   *)
(* target.                                                                 *)
THEOREM PlansAreCoherent == NativeSpec => []CoherentPlan
<1>1. PlanInv => CoherentPlan
  BY DEF PlanInv
<1> QED BY <1>1, PlanInit, PlanNext, PTL DEF NativeSpec

----------------------------------------------------------------------------
(* What was asked.  The parser stub and the shim read the command line     *)
(* apart from one another; a stage plan that is ready does not depend on   *)
(* the limit and the phases, which are lost on the direct path.            *)

LEMMA ParsedLine ==
  ASSUME NEW argv, Payload(argv) # None
  PROVE  LET states == LastValue(argv, "--sim-accel-states")
             steps == LastValue(argv, "--sim-accel-steps")
         IN  /\ Payload(argv).shape = <<states, steps>>
             /\ Positive(states) /\ Positive(steps)
             /\ LastValue(argv, "--sim-accel") = "sidecar-gpu"
             /\ ~Has(argv, "--sim-accel-shape")
             /\ Has(argv, "--sim-accel-states")
<1> DEFINE failed == {i \in DOMAIN ParserErrors : ParserTest(argv)[ParserErrors[i]]}
<1>1. Parse(argv) # None
  BY DEF Payload, Then
<1>2. ParserError(argv) = None /\ Parse(argv) = ParserPayload(argv)
  BY <1>1 DEF Parse
<1>3. DOMAIN ParserErrors = 1 .. 6
  BY DEF ParserErrors
<1>4. failed = {}
  <2> SUFFICES ASSUME failed # {} PROVE FALSE
    OBVIOUS
  <2>1. failed \subseteq Nat
    BY <1>3
  <2>2. First(failed) \in failed
    <3> HIDE DEF failed
    <3> QED BY <2>1, FirstIsFirst
  <2>3. ParserError(argv) = ParserErrors[First(failed)]
    BY DEF ParserError
  <2> QED BY <1>2, <1>3, <2>2, <2>3, NoneAssumption
<1>5. \A i \in 1 .. 6 : ~ParserTest(argv)[ParserErrors[i]]
  BY <1>3, <1>4
<1>6. /\ ~ParserTest(argv).invalid_sim_accel /\ ~ParserTest(argv).compact_shape_spelling
      /\ ~ParserTest(argv).missing_shape_half /\ ~ParserTest(argv).nonpositive_count
  <2>1. /\ ParserErrors[3] = "invalid_sim_accel" /\ ParserErrors[4] = "compact_shape_spelling"
        /\ ParserErrors[5] = "missing_shape_half" /\ ParserErrors[6] = "nonpositive_count"
    BY DEF ParserErrors
  <2> QED BY <1>5, <2>1
<1>7. /\ LastValue(argv, "--sim-accel") = "sidecar-gpu" /\ ~Has(argv, "--sim-accel-shape")
      /\ LastValue(argv, "--sim-accel-states") # None
      /\ Positive(LastValue(argv, "--sim-accel-states"))
      /\ Positive(LastValue(argv, "--sim-accel-steps"))
  BY <1>6 DEF ParserTest
<1>8. Has(argv, "--sim-accel-states")
  <2>1. Given(argv, "--sim-accel-states") # {}
    BY <1>7 DEF LastValue
  <2> QED BY <2>1 DEF Given, Has
<1>9. Payload(argv).shape
        = <<LastValue(argv, "--sim-accel-states"), LastValue(argv, "--sim-accel-steps")>>
  BY <1>1, <1>2 DEF Payload, Then, ParserPayload
<1> QED BY <1>7, <1>8, <1>9

(* A line the parser stub accepts is one the shim accepts, with the same   *)
(* shape, unless it spells the shape a second time.                        *)
LEMMA ShimReads ==
  ASSUME NEW argv, Payload(argv) # None
  PROVE  /\ ~SimAccelError(argv)
         /\ ShapeError(argv) <=> Has(argv, "--shape")
         /\ ~Has(argv, "--shape") => ResolvedShape(argv) = Payload(argv).shape
<1> DEFINE shape == <<LastValue(argv, "--sim-accel-states"), LastValue(argv, "--sim-accel-steps")>>
<1>1. /\ Payload(argv).shape = shape /\ PositiveShape(shape)
      /\ LastValue(argv, "--sim-accel") = "sidecar-gpu"
      /\ ~Has(argv, "--sim-accel-shape") /\ Has(argv, "--sim-accel-states")
  BY ParsedLine DEF PositiveShape
<1>2. "states_steps" \in ShapeSpellings(argv)
  BY <1>1 DEF ShapeSpellings
<1>3. CASE Has(argv, "--shape")
  <2>1. "--shape" \in ShapeSpellings(argv)
    BY <1>3 DEF ShapeSpellings
  <2>2. ShapeError(argv)
    BY <1>2, <2>1 DEF ShapeError
  <2> QED BY <1>1, <1>3, <2>2 DEF SimAccelError
<1>4. CASE ~Has(argv, "--shape")
  <2>1. ShapeSpellings(argv) = {"states_steps"}
    BY <1>1, <1>4 DEF ShapeSpellings
  <2>2. SpelledShape(argv) = shape
    BY <1>1, <1>4 DEF SpelledShape
  <2>3. ~ShapeError(argv) /\ ResolvedShape(argv) = shape
    BY <1>1, <2>1, <2>2 DEF ShapeError, ResolvedShape
  <2> QED BY <1>1, <1>4, <2>3 DEF SimAccelError
<1> QED BY <1>3, <1>4

ReadyPlan(plan) == plan.status = "planned" /\ plan.readiness = Ready

(* A stage plan that is ready is that of a slice's template, in the        *)
(* template mode, whatever the limit and the phases.                       *)
LEMMA ReadyPlans ==
  ASSUME NEW target, NEW shape, NEW mode, NEW limit, NEW phases,
         SidecarStagePlan(target, shape, mode, limit, phases) # None,
         SidecarStagePlan(target, shape, mode, limit, phases).readiness = Ready
  PROVE  /\ mode = "template"
         /\ target \in DOMAIN Registry /\ Registry[target].kind = "slice"
         /\ SidecarStagePlan(target, shape, mode, limit, phases).status = "planned"
         /\ \A l, p : SidecarStagePlan(target, shape, mode, l, p)
                        = TemplateStagePlan(target, shape, mode)
<1> DEFINE plan == SidecarStagePlan(target, shape, mode, limit, phases)
<1>0. None # Ready /\ NotReady # Ready
  BY ReadyAssumption DEF Ready, NotReady
<1>1. target \in DOMAIN Registry
  BY DEF SidecarStagePlan
<1>2. Registry[target].kind # "mobile_vit"
  <2> SUFFICES ASSUME Registry[target].kind = "mobile_vit" PROVE FALSE
    OBVIOUS
  <2>1. plan = MobileVitStagePlan(target, shape, mode, limit)
    BY <1>1 DEF SidecarStagePlan
  <2>2. plan.readiness \in {None, NotReady}
    BY <2>1 DEF MobileVitStagePlan, Plan
  <2> QED BY <1>0, <2>2
<1>3. Registry[target].kind = "slice"
  BY <1>1, <1>2, RegistryAssumption
<1>4. mode = "template" /\ shape # None
  <2> SUFFICES ASSUME ~(mode = "template" /\ shape # None) PROVE FALSE
    OBVIOUS
  <2>1. \/ plan = Plan(target, shape, mode, Unsupported, None, NoStages, None)
        \/ plan = ResidentStagePlan(target, shape, mode, phases)
    BY <1>1, <1>2 DEF SidecarStagePlan, Modes
  <2>2. plan.readiness \in {None, NotReady}
    BY <2>1 DEF ResidentStagePlan, Plan
  <2> QED BY <1>0, <2>2
<1>5. \A l, p : SidecarStagePlan(target, shape, mode, l, p) = TemplateStagePlan(target, shape, mode)
  BY <1>1, <1>2, <1>4 DEF SidecarStagePlan, Modes, ResidentModes
<1>6. plan.status = "planned"
  <2>1. plan = TemplateStagePlan(target, shape, mode) /\ plan # None
    BY <1>5
  <2> QED BY <2>1 DEF TemplateStagePlan, TemplateStagePlanOf, PlannedStages, Plan
<1> QED BY <1>1, <1>3, <1>4, <1>5, <1>6

LEMMA TemplatePlanSays ==
  ASSUME NEW target, NEW shape, NEW mode, TemplateStagePlan(target, shape, mode) # None
  PROVE  LET plan == TemplateStagePlan(target, shape, mode)
         IN  /\ plan.target = target /\ plan.shape = shape
             /\ SidecarHandoffContract(plan).shape = <<shape[1], shape[2]>>
             /\ SidecarHandoffContract(plan).coverage_target
                  = Payloads[Registry[target].template].target
<1> DEFINE template == Registry[target].template
           hybrid == HybridPlan(template, shape, DefaultCfg)
           plan == TemplateStagePlan(target, shape, mode)
<1>1. hybrid # None /\ plan = PlannedStages(target, shape, mode, template, AllStageDetails(hybrid))
  BY DEF TemplateStagePlan, TemplateStagePlanOf
<1>2. hybrid.target = Payloads[template].target
  BY <1>1, HybridPlanTarget
<1>3. hybrid.nstates = shape[1] /\ hybrid.steps = shape[2]
  BY <1>1 DEF HybridPlan
<1> HIDE DEF hybrid
<1>4. /\ plan.target = target /\ plan.shape = shape
      /\ plan.stages = AllStageDetails(hybrid)
  BY <1>1 DEF PlannedStages, Plan
<1> HIDE DEF plan
<1>5. /\ AllStageDetails(hybrid)["hybrid_sidecar_run"].nstates = hybrid.nstates
      /\ AllStageDetails(hybrid)["hybrid_sidecar_run"].steps = hybrid.steps
      /\ AllStageDetails(hybrid)["coverage_output_compare"].coverage_target = hybrid.target
  <2>1. /\ StageNames[6] = "hybrid_sidecar_run" /\ 6 \in DOMAIN StageNames
        /\ StageNames[7] = "coverage_output_compare" /\ 7 \in DOMAIN StageNames
    BY DEF StageNames
  <2>2. {"hybrid_sidecar_run", "coverage_output_compare"} \subseteq
          {StageNames[i] : i \in DOMAIN StageNames}
    BY <2>1
  <2> QED BY <2>2 DEF AllStageDetails, StageDetails
<1>6. /\ SidecarHandoffContract(plan).shape = <<hybrid.nstates, hybrid.steps>>
      /\ SidecarHandoffContract(plan).coverage_target = hybrid.target
  BY <1>4, <1>5 DEF SidecarHandoffContract
<1> QED BY <1>2, <1>3, <1>4, <1>6 DEF plan

(* The contexts a resolution of the request may be made in: its own, or    *)
(* what the direct path takes along of it.                                 *)
SameRequest(context) ==
  /\ context.target = asked.context.target /\ context.mode = asked.context.mode
  /\ ExplicitTemplate(context) = ExplicitTemplate(asked.context)

OfRequest(r) ==
  /\ Payload(asked.argv) # None /\ r # None
  /\ \E context : SameRequest(context) /\ r = Resolution(Adapter(Payload(asked.argv)), context)

(* Without edits, the artefact in hand is what the steps so far make of    *)
(* the request, whichever way they took.                                   *)
Unedited ==
  /\ item.kind = "argv" => item.value = asked.argv
  /\ item.kind = "payload" => item.value = Payload(asked.argv) /\ item.value # None
  /\ item.kind = "adapter" =>
       item.value = Adapter(Payload(asked.argv)) /\ Payload(asked.argv) # None
  /\ item.kind = "direct" =>
       /\ item.value = DirectOf(Payload(asked.argv), asked.context) /\ item.value # None
       /\ Payload(asked.argv) # None
  /\ item.kind = "resolution" => OfRequest(item.value)
  /\ item.kind = "contract" =>
       \E r : OfRequest(r) /\ item.value = Contract(r) /\ item.value # None
  /\ item.kind = "operator" =>
       \E r : /\ OfRequest(r) /\ Contract(r) # None
             /\ item.value = OperatorPlan(Contract(r)) /\ item.value # None

AskedInv == ItemRecord /\ (edits = {} => Unedited)

LEMMA PayloadParts ==
  ASSUME NEW argv, Payload(argv) # None
  PROVE  LET payload == Payload(argv)
         IN  ~payload.extra /\ Adapter(payload).shape = payload.shape
BY DEF Payload, Then, Adapter

(* The direct path keeps the target, the mode and the template.            *)
LEMMA DirectIsOfRequest ==
  ASSUME NEW d, d = DirectOf(Payload(asked.argv), asked.context), d # None,
         Payload(asked.argv) # None, Materialized(d) # None
  PROVE  OfRequest(Materialized(d))
<1> DEFINE payload == Payload(asked.argv)
           named == TemplateOrEntry(asked.context)
           context == PlanContext(DirectContext(asked.context))
<1>1. d.payload = payload /\ d.context = DirectContext(asked.context) /\ named # None
  BY DEF DirectOf, DirectContextAccepted
<1>2. Materialized(d) = Resolution(Adapter(payload), context)
  BY <1>1 DEF Materialized, Then
<1>3. context.target = asked.context.target /\ context.mode = asked.context.mode
  BY DEF PlanContext, DirectContext
<1>4. ExplicitTemplate(context) = ExplicitTemplate(asked.context)
  <2>1. CASE asked.context.template # None
    <3>1. named.by = "template" /\ named.template = asked.context.template
      BY <2>1 DEF TemplateOrEntry, NamedTemplate
    <3>2. context.template = asked.context.template
      BY <3>1 DEF PlanContext, DirectContext
    <3> QED BY <2>1, <3>2 DEF ExplicitTemplate
  <2>2. CASE asked.context.template = None
    <3>1. asked.context.entry # None
      BY <1>1, <2>2 DEF TemplateOrEntry
    <3>2. named.by = "entry" /\ named.template = asked.context.entry.template
      BY <2>2, <3>1 DEF TemplateOrEntry
    <3>3. context.template = None /\ context.entry = named
      BY <3>2 DEF PlanContext, DirectContext
    <3>4. ExplicitTemplate(context) = named.template
      BY <1>1, <3>3 DEF ExplicitTemplate, EntryTemplate
    <3> QED BY <2>2, <3>1, <3>2, <3>4 DEF ExplicitTemplate, EntryTemplate
  <2> QED BY <2>1, <2>2
<1>5. SameRequest(context)
  BY <1>3, <1>4 DEF SameRequest
<1> HIDE DEF context, payload
<1> QED BY <1>2, <1>5 DEF OfRequest, payload

LEMMA AskedInit == NativeInit => AskedInv
BY DEF NativeInit, AskedInv, ItemRecord, Unedited, Item

LEMMA AskedNext == AskedInv /\ [NativeNext]_nativeVars => AskedInv'
<1> SUFFICES ASSUME AskedInv, [NativeNext]_nativeVars PROVE AskedInv'
  OBVIOUS
<1>1. ASSUME NEW from, NEW to, NEW value, Step(from, to, value),
             to \in {"native", "launch", "bridge", "invocation"}
      PROVE  AskedInv'
  BY <1>1, StepMakes DEF AskedInv, Unedited
<1>2. ASSUME NEW from, NEW to, NEW value, Step(from, to, value)
      PROVE  /\ ItemRecord' /\ UNCHANGED <<asked, edits>> /\ item.kind = from
             /\ \/ item'.kind = "refused"
                \/ item'.kind = to /\ item'.value = value /\ value # None
             /\ edits = {} => Unedited
  BY <1>2, StepMakes DEF AskedInv
<1>3. CASE ParseNative
  <2>1. /\ ItemRecord' /\ UNCHANGED <<asked, edits>> /\ item.kind = "argv"
        /\ \/ item'.kind = "refused"
           \/ /\ item'.kind = "payload" /\ item'.value = Payload(item.value)
              /\ item'.value # None
        /\ edits = {} => Unedited
    BY <1>2, <1>3 DEF ParseNative
  <2> QED BY <2>1 DEF AskedInv, Unedited
<1>4. CASE AdaptPayload
  <2>1. /\ ItemRecord' /\ UNCHANGED <<asked, edits>> /\ item.kind = "payload"
        /\ \/ item'.kind = "refused"
           \/ item'.kind = "adapter" /\ item'.value = Adapter(item.value)
        /\ edits = {} => Unedited
    BY <1>2, <1>4 DEF AdaptPayload
  <2> QED BY <2>1 DEF AskedInv, Unedited
<1>5. CASE ResolvePlan
  <2>1. /\ ItemRecord' /\ UNCHANGED <<asked, edits>> /\ item.kind = "adapter"
        /\ \/ item'.kind = "refused"
           \/ /\ item'.kind = "resolution" /\ item'.value # None
              /\ item'.value = Resolution(item.value, asked.context)
        /\ edits = {} => Unedited
    BY <1>2, <1>5 DEF ResolvePlan
  <2>2. SameRequest(asked.context)
    BY DEF SameRequest
  <2>3. edits = {} /\ item'.kind = "resolution" => OfRequest(item'.value)
    BY <2>1, <2>2 DEF Unedited, OfRequest
  <2>4. OfRequest(item'.value) => OfRequest(item.value)'
    BY <2>1 DEF OfRequest, SameRequest
  <2> QED BY <2>1, <2>3, <2>4 DEF AskedInv, Unedited
<1>6. CASE ResolveContract
  <2>1. /\ ItemRecord' /\ UNCHANGED <<asked, edits>> /\ item.kind = "resolution"
        /\ \/ item'.kind = "refused"
           \/ /\ item'.kind = "contract" /\ item'.value = Contract(item.value)
              /\ item'.value # None
        /\ edits = {} => Unedited
    BY <1>2, <1>6 DEF ResolveContract
  <2>2. edits = {} /\ item'.kind = "contract" =>
          \E r : OfRequest(r)' /\ item'.value = Contract(r) /\ item'.value # None
    <3> SUFFICES ASSUME edits = {}, item'.kind = "contract"
                 PROVE  \E r : OfRequest(r)' /\ item'.value = Contract(r) /\ item'.value # None
      OBVIOUS
    <3>1. PICK r : r = item.value
      OBVIOUS
    <3>2. OfRequest(r)
      BY <2>1, <3>1 DEF Unedited
    <3>3. OfRequest(r)'
      BY <2>1, <3>2 DEF OfRequest, SameRequest
    <3> QED BY <2>1, <3>1, <3>3
  <2> QED BY <2>1, <2>2 DEF AskedInv, Unedited
<1>7. CASE ResolveOperatorPlan
  <2>1. /\ ItemRecord' /\ UNCHANGED <<asked, edits>> /\ item.kind = "contract"
        /\ \/ item'.kind = "refused"
           \/ /\ item'.kind = "operator" /\ item'.value = OperatorPlan(item.value)
              /\ item'.value # None
        /\ edits = {} => Unedited
    BY <1>2, <1>7 DEF ResolveOperatorPlan
  <2>2. edits = {} /\ item'.kind = "operator" =>
          \E r : OfRequest(r)' /\ Contract(r) # None /\ item'.value = OperatorPlan(Contract(r))
    <3> SUFFICES ASSUME edits = {}, item'.kind = "operator"
                 PROVE  \E r : OfRequest(r)' /\ Contract(r) # None /\ item'.value = OperatorPlan(Contract(r))
      OBVIOUS
    <3>1. PICK r : OfRequest(r) /\ item.value = Contract(r) /\ item.value # None
      BY <2>1 DEF Unedited
    <3>2. OfRequest(r)'
      BY <2>1, <3>1 DEF OfRequest, SameRequest
    <3> QED BY <2>1, <3>1, <3>2
  <2> QED BY <2>1, <2>2 DEF AskedInv, Unedited
<1>8. CASE DirectFromArgv
  <2>1. /\ ItemRecord' /\ UNCHANGED <<asked, edits>> /\ item.kind = "argv"
        /\ \/ item'.kind = "refused"
           \/ /\ item'.kind = "direct" /\ item'.value = Direct(item.value, asked.context, None)
              /\ item'.value # None
        /\ edits = {} => Unedited
    BY <1>2, <1>8 DEF DirectFromArgv
  <2>2. Direct(asked.argv, asked.context, None) # None =>
          /\ Direct(asked.argv, asked.context, None)
               = DirectOf(Payload(asked.argv), asked.context)
          /\ Payload(asked.argv) # None
    BY DEF Direct, Then
  <2> QED BY <2>1, <2>2 DEF AskedInv, Unedited
<1>9. CASE DirectFromPayload
  <2>1. /\ ItemRecord' /\ UNCHANGED <<asked, edits>> /\ item.kind = "payload"
        /\ \/ item'.kind = "refused"
           \/ /\ item'.kind = "direct" /\ item'.value = Direct(<<>>, asked.context, item.value)
              /\ item'.value # None
        /\ edits = {} => Unedited
    BY <1>2, <1>9 DEF DirectFromPayload
  <2>2. item.value # None =>
          Direct(<<>>, asked.context, item.value) = DirectOf(item.value, asked.context)
    BY DEF Direct, Then
  <2> QED BY <2>1, <2>2 DEF AskedInv, Unedited
<1>10. CASE MaterializeStagePlan
  <2>1. /\ ItemRecord' /\ UNCHANGED <<asked, edits>> /\ item.kind = "direct"
        /\ \/ item'.kind = "refused"
           \/ /\ item'.kind = "resolution" /\ item'.value = Materialized(item.value)
              /\ item'.value # None
        /\ edits = {} => Unedited
    BY <1>2, <1>10 DEF MaterializeStagePlan
  <2>2. edits = {} /\ item'.kind = "resolution" => OfRequest(item'.value)
    BY <2>1, DirectIsOfRequest DEF Unedited
  <2>3. OfRequest(item'.value) => OfRequest(item.value)'
    BY <2>1 DEF OfRequest, SameRequest
  <2> QED BY <2>1, <2>2, <2>3 DEF AskedInv, Unedited
<1>11. CASE InvokeNative
  BY <1>11, <1>1 DEF InvokeNative
<1>12. CASE HandOffLaunch
  BY <1>12, <1>1 DEF HandOffLaunch
<1>13. CASE BridgeLaunch
  BY <1>13, <1>1 DEF BridgeLaunch
<1>14. CASE \E gate \in Gates : InvokeLauncher(gate)
  BY <1>14, <1>1 DEF InvokeLauncher, Invoke, InvokedWith
<1>15. CASE \E field \in Fields : EditField(field)
  BY <1>15 DEF EditField, Lend, AskedInv, ItemRecord
<1>16. CASE AddOwnedField
  BY <1>16 DEF AddOwnedField, AskedInv, ItemRecord
<1>17. CASE UNCHANGED nativeVars
  BY <1>17 DEF nativeVars, AskedInv, ItemRecord, Unedited, OfRequest, SameRequest
<1> QED
  BY <1>3, <1>4, <1>5, <1>6, <1>7, <1>8, <1>9, <1>10, <1>11, <1>12, <1>13, <1>14, <1>15,
     <1>16, <1>17 DEF NativeNext

(* What a resolution of the request says when it is ready.                 *)
LEMMA ResolutionSays ==
  ASSUME NEW r, OfRequest(r)
  PROVE  LET target == asked.context.target
             shape == Payload(asked.argv).shape
             mode == asked.context.mode
         IN  /\ r.schedule.shape = shape
             /\ \E limit, phases :
                  /\ r.stage_plan = SidecarStagePlan(target, shape, mode, limit, phases)
                  /\ r.stage_plan # None
             /\ r.status = OuterStatus(r.stage_plan)
             /\ target \in DOMAIN Registry
             /\ Registry[target].kind = "slice" =>
                  ExplicitTemplate(asked.context) = Registry[target].template
<1> DEFINE adapter == Adapter(Payload(asked.argv))
<1>1. PICK context : SameRequest(context) /\ r = Resolution(adapter, context)
  BY DEF OfRequest
<1> DEFINE plan == SidecarStagePlan(context.target, adapter.shape, context.mode, context.limit,
                                    PhasesOf(context))
<1>2. /\ ContextAccepted(context) /\ plan # None /\ r = ResolutionOf(adapter, plan)
      /\ r # None /\ Payload(asked.argv) # None
  BY <1>1 DEF OfRequest, Resolution, Then
<1>3. adapter.shape = Payload(asked.argv).shape
  BY <1>2, PayloadParts
<1>4. context.target = asked.context.target /\ context.mode = asked.context.mode
  BY <1>1 DEF SameRequest
<1>5. /\ asked.context.target \in DOMAIN Registry
      /\ Registry[asked.context.target].kind = "slice" =>
           ExplicitTemplate(asked.context) = Registry[asked.context.target].template
  BY <1>1, <1>2, <1>4 DEF ContextAccepted, ContextTemplateAccepted, SameRequest
<1>6. plan = SidecarStagePlan(asked.context.target, Payload(asked.argv).shape,
                              asked.context.mode, context.limit, PhasesOf(context))
  BY <1>3, <1>4
<1> HIDE DEF plan, adapter
<1>7. /\ r.schedule.shape = adapter.shape /\ r.stage_plan = plan
      /\ r.status = OuterStatus(plan)
  BY <1>2 DEF ResolutionOf
<1> QED BY <1>2, <1>3, <1>5, <1>6, <1>7

(* The operator plan made of a resolution of the request is the request's. *)
LEMMA OperatorIsAsked ==
  ASSUME NEW r, OfRequest(r), Contract(r) # None,
         OperatorPlan(Contract(r)) # None, ~OperatorPlan(Contract(r)).closed
  PROVE  LET plan == OperatorPlan(Contract(r)).plan
         IN  /\ plan.handoff.shape = Payload(asked.argv).shape
             /\ plan.estimate.target = asked.context.target
             /\ plan.handoff.coverage_target = Payloads[ExplicitTemplate(asked.context)].target
             /\ asked.context.mode = "template"
<1> DEFINE c == Contract(r)
           target == asked.context.target
           shape == Payload(asked.argv).shape
           mode == asked.context.mode
<1>1. ~c.closed /\ ContractAccepted(c)
  BY DEF OperatorPlan
<1>2. r.status \notin {NotReady, Unsupported} /\ ResolutionAccepted(r)
  <2>1. CASE r.status \in {NotReady, Unsupported}
    BY <1>1, <2>1 DEF Contract, Closed
  <2>2. CASE r.status \notin {NotReady, Unsupported} /\ ~ResolutionAccepted(r)
    <3>1. c = None
      BY <2>2 DEF Contract
    <3> QED BY <3>1
  <2> QED BY <2>1, <2>2
<1>3. c.handoff = SidecarHandoffContract(r.stage_plan) /\ c.stage_plan = r.stage_plan
  BY <1>2 DEF Contract
<1> HIDE DEF c
<1>4. /\ OperatorPlan(c).plan.handoff = c.handoff
      /\ OperatorPlan(c).plan.estimate.target = c.stage_plan.target
  BY <1>1 DEF OperatorPlan, SidecarOperatorPlan, EfficiencyEstimate
<1>5. r.stage_plan.readiness = Ready /\ ShapesAgree(r.schedule, r.stage_plan)
  BY <1>2 DEF ResolutionAccepted
<1>6. r.schedule.shape = shape /\ r.stage_plan # None
  BY ResolutionSays
<1>7. PICK limit, phases : r.stage_plan = SidecarStagePlan(target, shape, mode, limit, phases)
  BY ResolutionSays
<1>8. /\ mode = "template" /\ Registry[target].kind = "slice"
      /\ r.stage_plan = TemplateStagePlan(target, shape, mode)
  BY <1>5, <1>6, <1>7, ReadyPlans
<1>9. /\ r.stage_plan.target = target
      /\ SidecarHandoffContract(r.stage_plan).coverage_target
           = Payloads[Registry[target].template].target
  BY <1>6, <1>8, TemplatePlanSays
<1>10. SidecarHandoffContract(r.stage_plan).shape = shape
  <2>1. LET run == r.stage_plan.stages["hybrid_sidecar_run"]
        IN  SidecarHandoffContract(r.stage_plan).shape = <<run.nstates, run.steps>>
    BY DEF SidecarHandoffContract
  <2> QED BY <1>5, <1>6, <2>1 DEF ShapesAgree
<1>11. ExplicitTemplate(asked.context) = Registry[target].template
  BY <1>8, ResolutionSays
<1> QED BY <1>3, <1>4, <1>8, <1>9, <1>10, <1>11 DEF c

LEMMA AskedWhenReady == AskedInv => PlanIsAsked
<1> SUFFICES ASSUME AskedInv, OperatorReady, edits = {} PROVE PlanIsAsked
  BY DEF PlanIsAsked
<1>1. PICK r : /\ OfRequest(r) /\ Contract(r) # None
               /\ item.value = OperatorPlan(Contract(r)) /\ item.value # None
  BY DEF AskedInv, Unedited, OperatorReady
<1>2. ~OperatorPlan(Contract(r)).closed
  BY <1>1 DEF OperatorReady
<1> QED BY <1>1, <1>2, OperatorIsAsked DEF PlanIsAsked

(* An operator plan that was made without edits is the run that was asked  *)
(* for, by either path: the shape of the command line, the target of the   *)
(* context, and what the template it names builds.                         *)
THEOREM PlansAreAsked == NativeSpec => []PlanIsAsked
BY AskedInit, AskedNext, AskedWhenReady, PTL DEF NativeSpec

ShimRequest(context) ==
  [argv |-> asked.argv, target |-> context.target, mode |-> context.mode,
   limit |-> context.limit, phases |-> PhasesOf(context), stage |-> None,
   modes |-> {"--emit-verilator-command"}]

LEMMA ShimAgreesWith ==
  ASSUME NEW r, OfRequest(r)
  PROVE  Agrees(ShimReport(ShimRequest(asked.context)), r)
<1> DEFINE target == asked.context.target
           shape == Payload(asked.argv).shape
           mode == asked.context.mode
           req == ShimRequest(asked.context)
           printed == ShimReport(req)
           read == ResolvedShape(asked.argv)
           planned == SidecarStagePlan(target, read, mode, req.limit, req.phases)
<1>1. /\ req.argv = asked.argv /\ req.stage = None /\ req.modes = {"--emit-verilator-command"}
      /\ req.target = target /\ req.mode = mode
  BY DEF ShimRequest
<1>2. Payload(asked.argv) # None
  BY DEF OfRequest
<1>3. ShimOptionsRefused(req) <=> Has(asked.argv, "--shape")
  <2>1. req.modes \cap PrintOnlyModes = {}
    BY <1>1 DEF PrintOnlyModes
  <2>2. ~(Cardinality(req.modes \cap PrintOnlyModes) > 1)
    BY <2>1, FS_EmptySet
  <2> HIDE DEF req
  <2> QED BY <1>1, <1>2, <2>2, ShimReads DEF ShimOptionsRefused
<1>4. printed = ShimReportOf(req, read, ShimPlan(req, read))
  BY <1>1 DEF ShimReport
<1> HIDE DEF req
<1>5. PICK limit, phases :
        /\ r.stage_plan = SidecarStagePlan(target, shape, mode, limit, phases)
        /\ r.stage_plan # None
  BY ResolutionSays
<1>6. r.status = OuterStatus(r.stage_plan) /\ r.schedule.shape = shape
  BY ResolutionSays
<1>7. r.status = Ready => ReadyPlan(r.stage_plan)
  BY <1>6 DEF OuterStatus, ReadyPlan, Ready, NotReady, Unsupported
<1>8. ReadyPlan(r.stage_plan) => r.status = Ready
  BY <1>6 DEF OuterStatus, ReadyPlan, Ready, NotReady, Unsupported
<1>9. CASE Has(asked.argv, "--shape")
  <2>1. ShimPlan(req, read) = None
    BY <1>3, <1>9 DEF ShimPlan
  <2>2. printed.exit = 1
    BY <1>4, <2>1 DEF ShimReportOf
  <2> QED BY <1>9, <2>2 DEF Agrees, req
<1>10. CASE ~Has(asked.argv, "--shape")
  <2>1. ShimPlan(req, read) = planned /\ read = shape
    BY <1>1, <1>2, <1>3, <1>10, ShimReads DEF ShimPlan
  <2>2. /\ planned = None => printed.exit = 1
        /\ planned # None =>
             /\ printed.exit = IF planned.readiness = Ready THEN 0 ELSE 2
             /\ planned.readiness = Ready =>
                  printed.operator.handoff = SidecarHandoffContract(planned)
    BY <1>1, <1>4, <2>1 DEF ShimReportOf, CommandModes, SidecarOperatorPlan
  <2>3. ASSUME printed.exit = 0
        PROVE  r.status = Ready /\ printed.operator.handoff.shape = shape
    <3>1. planned # None /\ planned.readiness = Ready
      BY <2>2, <2>3
    <3>2. /\ mode = "template" /\ planned = TemplateStagePlan(target, shape, mode)
          /\ r.stage_plan = TemplateStagePlan(target, shape, mode) /\ planned.status = "planned"
      BY <1>5, <2>1, <3>1, ReadyPlans
    <3>3. SidecarHandoffContract(planned).shape = <<shape[1], shape[2]>>
      BY <3>1, <3>2, TemplatePlanSays
    <3>4. <<shape[1], shape[2]>> = shape
      BY <1>2, ParsedLine
    <3> QED BY <1>8, <2>2, <2>3, <3>1, <3>2, <3>3, <3>4 DEF ReadyPlan
  <2>4. ASSUME r.status = Ready PROVE printed.exit = 0
    <3>1. r.stage_plan.readiness = Ready
      BY <1>7, <2>4 DEF ReadyPlan
    <3>2. planned = r.stage_plan
      BY <1>5, <2>1, <3>1, ReadyPlans
    <3> QED BY <1>5, <2>2, <3>1, <3>2
  <2> QED BY <1>6, <1>10, <2>3, <2>4 DEF Agrees, req
<1> QED BY <1>9, <1>10

LEMMA ShimAgreesWhenResolved == AskedInv => ShimAgrees
<1> SUFFICES ASSUME AskedInv, item.kind = "resolution", edits = {} PROVE ShimAgrees
  BY DEF ShimAgrees
<1>1. OfRequest(item.value)
  BY DEF AskedInv, Unedited
<1>2. Agrees(ShimReport(ShimRequest(asked.context)), item.value)
  BY <1>1, ShimAgreesWith
<1> QED BY <1>2 DEF ShimAgrees, ShimRequest

(* The debug shim and the native path, which read the command line with    *)
(* different code, agree on every line but one that spells the shape with  *)
(* an option of the shim: ready in one is ready in the other, with one     *)
(* shape.                                                                  *)
THEOREM ShimAgreesAlways == NativeSpec => []ShimAgrees
BY AskedInit, AskedNext, ShimAgreesWhenResolved, PTL DEF NativeSpec

----------------------------------------------------------------------------
(* Each way in is a refinement of its own specification: a step along the  *)
(* other way leaves its variables alone.                                   *)
THEOREM FrontImplementsParts == FrontSpec => Spec /\ NativeSpec
<1>1. FrontInit => Init /\ NativeInit
  BY DEF FrontInit
<1>2. [FrontNext]_frontVars => [Next]_vars /\ [NativeNext]_nativeVars
  BY DEF FrontNext, frontVars
<1> QED BY <1>1, <1>2, PTL DEF FrontSpec, Spec, NativeSpec

(* Whichever way a session takes, types hold, a comparison that passed is  *)
(* of this run and no CPU run passes for a GPU run, the readers of the     *)
(* command line agree, plans are coherent and as asked, and launches are   *)
(* reviewed.                                                               *)
THEOREM FrontEndIsSafe ==
  FrontSpec => [](/\ TypeOK /\ PassedComparesThisRun /\ GpuIntentNeverPasses
                  /\ ReadersAgree /\ CoherentPlan /\ PlanIsAsked /\ ShimAgrees
                  /\ LaunchIsReviewed)
BY FrontImplementsParts, TypeCorrect, PassedIsOfThisRun, CpuIsNeverGpu, ReadersAgreeAlways,
   PlansAreCoherent, PlansAreAsked, ShimAgreesAlways, LaunchesAreReviewed, PTL
=============================================================================
