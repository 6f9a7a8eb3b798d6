----------------------------- MODULE NativePath -----------------------------
(***************************************************************************)
(* The native-parser path: from the command line of a Verilator that knew  *)
(* --sim-accel, and an explicit context, to metadata a person reviews.     *)
(* Each step takes the artefact of an earlier one, checks it again, and    *)
(* makes the next:                                                         *)
(*                                                                         *)
(*   argv - payload - adapter - resolution - contract - operator           *)
(*      \      \                 |                                         *)
(*       direct (command) -------+                                         *)
(*        native - launch handoff - bridge - launcher invocation           *)
(*                                                                         *)
(* Artefacts are plain mappings their holder may edit.  An edit is         *)
(* modelled as the contract tests make it: a field is replaced by the one  *)
(* another request has, or a field that a later step owns is added.        *)
(* A step that raises returns None.                                        *)
(***************************************************************************)
EXTENDS StagePlan

CONSTANTS
  NativeRequests,    \* [program, argv, context]: what a user asks
  ReviewedTarget,    \* pulp_ita_mha
  ReviewedShape,     \* 64x1
  ReviewedRef,       \* the reviewed handoff gate a context must cite
  ReviewedGate,      \* the reviewed launcher-run gate
  Gates,             \* the gates a caller may cite
  MaxEdits           \* bounds the edits of an artefact in a behaviour

VARIABLES
  asked,    \* the request
  other,    \* a second request, whose artefacts lend their fields
  item,     \* the artefact in hand: [kind, value]; "refused" ends the path
  edits     \* the fields edited so far

nativeVars == <<asked, other, item, edits>>

----------------------------------------------------------------------------
(* The handoff path                                                        *)

(* A step after one that raised is not taken.                              *)
Then(value, Step1(_)) == IF value = None THEN None ELSE Step1(value)

SameShape(x) == x.shape = <<x.states, x.steps>> /\ PositiveShape(x.shape)

(* extra: it has a field that only a later step may fill in.               *)
Payload(argv) ==
  Then(Parse(argv),
       LAMBDA p : [extra |-> FALSE, states |-> p.states, steps |-> p.steps, shape |-> p.shape,
                   mdir |-> p.mdir, top |-> p.top])

Adapter(payload) ==
  IF payload.extra THEN None
  ELSE [extra |-> FALSE, states |-> payload.states, steps |-> payload.steps,
        shape |-> payload.shape, mdir |-> payload.mdir, top |-> payload.top,
        policy |-> CoveragePolicy]

AdapterAccepted(adapter) ==
  /\ ~adapter.extra
  /\ adapter.policy = CoveragePolicy
  /\ SameShape(adapter)

(* The template the context names, directly or by a registry entry.        *)
EntryTemplate(context) == IF context.entry = None THEN None ELSE context.entry.template

TemplateNamed(context) ==
  /\ context.template # None \/ context.entry # None
  /\ context.template # None /\ EntryTemplate(context) # None =>
       context.template = EntryTemplate(context)
  /\ context.entry # None => context.entry.target \in {None, context.target}

ExplicitTemplate(context) ==
  IF context.template # None THEN context.template ELSE EntryTemplate(context)

AnyTemplateAccepted(context) == context.target \in DOMAIN Registry

(* A slice target is resolved with its registry's template only.           *)
ContextTemplateAccepted(context) ==
  /\ context.target \in DOMAIN Registry
  /\ Registry[context.target].kind = "slice" =>
       ExplicitTemplate(context) = Registry[context.target].template

ContextAccepted(context) ==
  /\ context.target # None /\ context.mode # None /\ context.ref # None
  /\ TemplateNamed(context)
  /\ ContextTemplateAccepted(context)
  /\ context.phases # None => Positive(context.phases)

PhasesOf(context) == IF context.phases = None THEN 4 ELSE context.phases

PlannedIsReady(plan) == IF plan.status = Unsupported THEN Unsupported ELSE Ready

OuterStatus(plan) ==
  CASE plan.status = "planned" /\ plan.readiness = Ready -> Ready
    [] plan.status = Unsupported -> Unsupported
    [] OTHER -> NotReady

ReadinessRecord(plan) ==
  [plan_status |-> plan.status, option |-> plan.readiness,
   ready |-> plan.status = "planned" /\ plan.readiness = Ready]

ResolutionOf(adapter, plan) ==
  IF plan.policy # adapter.policy THEN None
  ELSE [extra |-> FALSE, status |-> OuterStatus(plan), readiness |-> ReadinessRecord(plan),
        schedule |-> [states |-> adapter.states, steps |-> adapter.steps,
                      shape |-> adapter.shape],
        inputs |-> [mdir |-> adapter.mdir, top |-> adapter.top],
        stage_plan |-> plan]

Resolution(adapter, context) ==
  IF ~(AdapterAccepted(adapter) /\ ContextAccepted(context)) THEN None
  ELSE Then(SidecarStagePlan(context.target, adapter.shape, context.mode, context.limit,
                             PhasesOf(context)),
            LAMBDA plan : ResolutionOf(adapter, plan))

----------------------------------------------------------------------------
(* The handoff contract of a resolution that is ready; one that is not, or *)
(* is unsupported, gives a result that stays closed.                       *)

ReadyRecord(readiness) ==
  /\ readiness.ready
  /\ readiness.plan_status = "planned"
  /\ readiness.option = Ready

ShapesAgree(schedule, plan) ==
  /\ SameShape(schedule)
  /\ schedule.shape = plan.shape
  /\ HasStage(plan, "hybrid_sidecar_run") /\ HasStage(plan, "coverage_output_compare")
  /\ LET run == plan.stages["hybrid_sidecar_run"] IN <<run.nstates, run.steps>> = schedule.shape

ResolutionAccepted(r) ==
  /\ ~r.extra
  /\ r.status = Ready
  /\ ReadyRecord(r.readiness)
  /\ r.stage_plan.status = "planned"
  /\ r.stage_plan.readiness = Ready
  /\ ShapesAgree(r.schedule, r.stage_plan)

Closed(status, r) ==
  [extra |-> FALSE, closed |-> TRUE, status |-> status, readiness |-> r.readiness,
   cross |-> None, stage_plan |-> None, handoff |-> None]

Contract(r) ==
  CASE r.status \in {NotReady, Unsupported} -> Closed(r.status, r)
    [] r.status \notin {NotReady, Unsupported} /\ ~ResolutionAccepted(r) -> None
    [] OTHER ->
         LET handoff == SidecarHandoffContract(r.stage_plan)
         IN  [extra |-> FALSE, closed |-> FALSE, status |-> Ready, readiness |-> r.readiness,
              cross |-> [states |-> r.schedule.states, steps |-> r.schedule.steps,
                         shape |-> r.schedule.shape,
                         matches |-> r.schedule.shape = handoff.shape],
              stage_plan |-> r.stage_plan, handoff |-> handoff]

----------------------------------------------------------------------------
(* The operator plan                                                       *)

HandoffAccepted(h) ==
  /\ h.shape = <<h.nstates, h.steps>> /\ PositiveShape(h.shape)
  /\ h.policy = CoveragePolicy

CrossCheckAccepted(cross, handoff) ==
  /\ cross.matches
  /\ cross.shape = handoff.shape
  /\ cross.states = handoff.nstates /\ cross.steps = handoff.steps

ShapesOnly(plan, h) ==
  LET run == plan.stages["hybrid_sidecar_run"] IN <<run.nstates, run.steps>> = h.shape

(* What the contract says of files, labels and target is compared with the *)
(* stage plan, which is where the command comes from.                      *)
StageDetailsAgree(plan, h) ==
  LET run == plan.stages["hybrid_sidecar_run"]
      compare == plan.stages["coverage_output_compare"]
  IN  /\ <<run.nstates, run.steps>> = h.shape
      /\ h.init_state = run.init_state
      /\ h.reference_dump = compare.reference_dump
      /\ h.candidate_dump = compare.candidate_dump
      /\ h.compare_report = compare.json_out
      /\ h.policy = compare.policy
      /\ h.labels = compare.labels
      /\ h.coverage_target = compare.coverage_target

StagePlanAccepted(plan, h) ==
  /\ plan.status = "planned"
  /\ plan.shape = h.shape
  /\ plan.policy = CoveragePolicy
  /\ plan.readiness = Ready
  /\ \A s \in {"verilator_build", "hybrid_sidecar_run", "coverage_output_compare"} :
       HasStage(plan, s)
  /\ StageDetailsAgree(plan, h)

ContractAccepted(c) ==
  /\ ~c.extra
  /\ ReadyRecord(c.readiness)
  /\ HandoffAccepted(c.handoff)
  /\ CrossCheckAccepted(c.cross, c.handoff)
  /\ StagePlanAccepted(c.stage_plan, c.handoff)

(* The phases of the estimate are never those of the context: the plan     *)
(* does not carry them.                                                    *)
OperatorPlan(c) ==
  CASE c.closed -> [closed |-> TRUE, status |-> c.status, plan |-> None, cross |-> None]
    [] ~c.closed /\ ~ContractAccepted(c) -> None
    [] OTHER ->
         [closed |-> FALSE, status |-> Ready, cross |-> c.cross,
          plan |-> SidecarOperatorPlan(
                     VerilatorCommandArgv(c.stage_plan),
                     EfficiencyEstimate(c.stage_plan.target, c.stage_plan.shape,
                                        c.stage_plan.mode, 4),
                     c.handoff)]

----------------------------------------------------------------------------
(* The direct command path                                                 *)

DirectPayloadAccepted(payload) ==
  /\ ~payload.extra
  /\ SameShape(payload)
  /\ payload.mdir # None /\ payload.top # None

(* template_or_target_registry_entry is one field here.                    *)
NamedTemplate(template) == [by |-> "template", target |-> None, template |-> template]

TemplateOrEntry(context) ==
  CASE context.template # None -> NamedTemplate(context.template)
    [] context.template = None /\ context.entry # None ->
         [by |-> "entry", target |-> context.entry.target, template |-> context.entry.template]
    [] OTHER -> None

DirectContextAccepted(context) ==
  /\ context.target # None /\ context.mode # None /\ context.ref # None
  /\ TemplateOrEntry(context) # None

(* Only the four required fields of a context are taken along.             *)
DirectContext(context) ==
  [target |-> context.target, mode |-> context.mode, ref |-> context.ref,
   template_or_entry |-> TemplateOrEntry(context)]

(* A payload that is handed in is used instead of the command line.        *)
DirectOf(used, context) ==
  IF ~(DirectPayloadAccepted(used) /\ DirectContextAccepted(context)) THEN None
  ELSE [extra |-> FALSE, payload |-> used, context |-> DirectContext(context),
        states |-> used.states, steps |-> used.steps, shape |-> used.shape,
        mdir |-> used.mdir, top |-> used.top]

Direct(argv, context, payload) ==
  Then(IF payload # None THEN payload ELSE Payload(argv), LAMBDA used : DirectOf(used, context))

(* The result is checked against the payload it carries.                   *)
DirectAccepted(d) ==
  /\ ~d.extra
  /\ DirectPayloadAccepted(d.payload)
  /\ \A f \in {"states", "steps", "shape", "mdir", "top"} : d[f] = d.payload[f]

PlanContext(context) ==
  LET named == context.template_or_entry
  IN  [target |-> context.target, mode |-> context.mode, ref |-> context.ref,
       template |-> IF named.by = "template" THEN named.template ELSE None,
       entry |-> IF named.by = "entry" THEN named ELSE None,
       limit |-> None, phases |-> None]

Materialized(d) ==
  IF ~DirectAccepted(d) THEN None
  ELSE Then(Adapter(d.payload), LAMBDA a : Resolution(a, PlanContext(d.context)))

----------------------------------------------------------------------------
(* The native invocation, and the bridge to the launcher                   *)

(* Any further field makes the context ambiguous.                          *)
NativeContextAccepted(context) ==
  /\ context.limit = None /\ context.phases = None
  /\ DirectContextAccepted(context)
  /\ context.entry # None /\ context.template = None =>
       context.entry.target \in {None, context.target}

(* The command line is only looked at for its program when a payload comes *)
(* with it.                                                                *)
Native(request, payload) ==
  IF request.program # "verilator" \/ ~NativeContextAccepted(request.context) THEN None
  ELSE Direct(request.argv, request.context, payload)

(* 64x1 of the reviewed target, with its template, under the reviewed      *)
(* authority; the mode is not looked at.                                   *)
InScope(native) ==
  /\ native.context.target = ReviewedTarget
  /\ native.shape = ReviewedShape
  /\ native.context.template_or_entry = NamedTemplate(Registry[ReviewedTarget].template)

LaunchHandoff(native) ==
  IF native # None /\ InScope(native) /\ native.context.ref = ReviewedRef
  THEN [context |-> native.context, ready |-> TRUE] ELSE None

Bridge(launch) ==
  IF launch = None \/ ~launch.ready THEN None
  ELSE [extra |-> FALSE, context |-> launch.context, ready |-> TRUE]

AnyReadyBridge(bridge, native) == bridge.ready /\ ~bridge.extra

BridgeAccepted(bridge, native) ==
  /\ bridge.ready /\ ~bridge.extra
  /\ bridge.context = native.context

LauncherCommand(context, shape) == [template |-> context.template_or_entry.template, shape |-> shape]

Invocation(native, bridge, gate) ==
  IF /\ native # None /\ bridge # None
     /\ gate = ReviewedGate
     /\ InScope(native)
     /\ BridgeAccepted(bridge, native)
  THEN [context |-> native.context, shape |-> native.shape, payload |-> native.payload,
        command |-> LauncherCommand(native.context, native.shape)]
  ELSE None

----------------------------------------------------------------------------
(* The steps a user takes with the artefact in hand.                       *)

Item(kind, value) == [kind |-> kind, value |-> value]
Refused == Item("refused", None)

NativeInit ==
  /\ asked \in NativeRequests
  /\ other \in NativeRequests
  /\ item = Item("argv", asked.argv)
  /\ edits = {}

Step(from, to, value) ==
  /\ item.kind = from
  /\ item' = IF value = None THEN Refused ELSE Item(to, value)
  /\ UNCHANGED <<asked, other, edits>>

ParseNative == Step("argv", "payload", Payload(item.value))

AdaptPayload == Step("payload", "adapter", Adapter(item.value))

ResolvePlan == Step("adapter", "resolution", Resolution(item.value, asked.context))

ResolveContract == Step("resolution", "contract", Contract(item.value))

ResolveOperatorPlan == Step("contract", "operator", OperatorPlan(item.value))

DirectFromArgv == Step("argv", "direct", Direct(item.value, asked.context, None))

DirectFromPayload == Step("payload", "direct", Direct(<<>>, asked.context, item.value))

MaterializeStagePlan == Step("direct", "resolution", Materialized(item.value))

InvokeNative ==
  \/ Step("argv", "native", Native(asked, None))
  \/ Step("payload", "native", Native(asked, item.value))

HandOffLaunch == Step("native", "launch", LaunchHandoff(item.value))

BridgeLaunch == Step("launch", "bridge", Bridge(item.value))

(* The bridge is made on the way, or handed in: then it may be that of the *)
(* other request.                                                          *)
InvokedWith(native, handed, gate) ==
  Step(item.kind, "invocation", Invocation(native, Bridge(LaunchHandoff(handed)), gate))

Invoke(native, gate) ==
  InvokedWith(native, native, gate) \/ InvokedWith(native, Native(other, None), gate)

InvokeLauncher(gate) ==
  /\ item.kind \in {"argv", "payload"}
  /\ Invoke(Native(asked, IF item.kind = "payload" THEN item.value ELSE None), gate)

(* What the request makes of the same step, to take fields from.           *)
Counterpart(kind, request) ==
  LET payload == Payload(request.argv)
      adapter == Then(payload, Adapter)
      resolution == Then(adapter, LAMBDA a : Resolution(a, request.context))
  IN  CASE kind = "payload" -> payload
        [] kind = "adapter" -> adapter
        [] kind = "resolution" -> resolution
        [] kind = "contract" -> Then(resolution, Contract)
        [] kind = "direct" -> Direct(request.argv, request.context, None)
        [] OTHER -> None

Editable ==
  [payload |-> {"shape", "states"}, adapter |-> {"shape", "states"},
   resolution |-> {"status", "readiness", "schedule", "stage_plan"},
   contract |-> {"readiness", "cross", "stage_plan", "handoff"},
   direct |-> {"payload", "context", "shape"}]

Lend(field, lent) ==
  /\ lent # None
  /\ item.kind = "contract" => ~lent.closed
  /\ item' = [item EXCEPT !.value[field] = lent[field]]

EditField(field) ==
  /\ item.kind \in DOMAIN Editable /\ field \in Editable[item.kind]
  /\ Cardinality(edits) < MaxEdits
  /\ item.kind = "contract" => ~item.value.closed
  /\ Lend(field, Counterpart(item.kind, other))
  /\ edits' = edits \cup {<<item.kind, field>>}
  /\ UNCHANGED <<asked, other>>

AddOwnedField ==
  /\ item.kind \in DOMAIN Editable
  /\ Cardinality(edits) < MaxEdits
  /\ item' = [item EXCEPT !.value.extra = TRUE]
  /\ edits' = edits \cup {<<item.kind, "extra">>}
  /\ UNCHANGED <<asked, other>>

Fields == UNION {Editable[k] : k \in DOMAIN Editable}

NativeNext ==
  \/ ParseNative
  \/ AdaptPayload
  \/ ResolvePlan
  \/ ResolveContract
  \/ ResolveOperatorPlan
  \/ DirectFromArgv
  \/ DirectFromPayload
  \/ MaterializeStagePlan
  \/ InvokeNative
  \/ HandOffLaunch
  \/ BridgeLaunch
  \/ \E gate \in Gates : InvokeLauncher(gate)
  \/ \E field \in Fields : EditField(field)
  \/ AddOwnedField

NativeSpec == NativeInit /\ [][NativeNext]_nativeVars

----------------------------------------------------------------------------
OperatorReady == item.kind = "operator" /\ ~item.value.closed

(* Whatever was edited on the way, an operator plan that is ready speaks   *)
(* of one run: its Verilator command, its estimate, its handoff contract   *)
(* and the schedule of the parser have one shape, and the command, the     *)
(* estimate and the contract one target.                                   *)
CoherentPlan ==
  OperatorReady =>
    LET plan == item.value.plan
    IN  /\ <<plan.command.states, plan.command.steps>> = plan.handoff.shape
        /\ plan.estimate.shape = plan.handoff.shape
        /\ plan.entrypoint = plan.handoff.shape
        /\ item.value.cross.shape = plan.handoff.shape
        /\ plan.command.mdir = plan.handoff.coverage_target
        /\ Payloads[Registry[plan.estimate.target].template].target
             = plan.handoff.coverage_target

(* Without edits it is the run that was asked for: the shape of the        *)
(* command line, and the target the context and its template name.         *)
PlanIsAsked ==
  OperatorReady /\ edits = {} =>
    LET plan == item.value.plan
    IN  /\ plan.handoff.shape = Payload(asked.argv).shape
        /\ plan.estimate.target = asked.context.target
        /\ plan.handoff.coverage_target = Payloads[ExplicitTemplate(asked.context)].target
        /\ asked.context.mode = "template"

Agrees(shim, resolution) ==
  /\ shim.exit = 0 <=> resolution.status = Ready /\ ~Has(asked.argv, "--shape")
  /\ shim.exit = 0 => shim.operator.handoff.shape = resolution.schedule.shape

(* The debug shim and the native path read one command line alike: the     *)
(* shim exits with 0 exactly when the native path finds the plan ready.    *)
(* But for --shape: it is an option of the shim, and a second spelling of  *)
(* the shape, while to the native path it is one of Verilator's own.       *)
ShimAgrees ==
  item.kind = "resolution" /\ edits = {} =>
    LET context == asked.context
    IN  Agrees(ShimReport([argv |-> asked.argv, target |-> context.target,
                           mode |-> context.mode, limit |-> context.limit,
                           phases |-> PhasesOf(context), stage |-> None,
                           modes |-> {"--emit-verilator-command"}]),
               item.value)

(* A launcher command is only materialized under the reviewed authority,   *)
(* which the invocation itself never looks at: it relies on the context of *)
(* a bridge, own or handed in.                                             *)
LaunchIsReviewed ==
  item.kind = "invocation" =>
    /\ asked.context.ref = ReviewedRef
    /\ item.value.command.shape = item.value.payload.shape
    /\ Payloads[item.value.command.template].target
         = Payloads[Registry[asked.context.target].template].target
=============================================================================
