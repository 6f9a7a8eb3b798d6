----------------------------- MODULE StagePlan -----------------------------
(***************************************************************************)
(* The stage plan of a benchmark target, and what is derived from it       *)
(* without running anything: readiness, the Verilator command, the handoff *)
(* contract, the efficiency class (hybrid_benchmark_sidecar_plan.py,       *)
(* hybrid_benchmark_sidecar_details.py, hybrid_benchmark_sidecar_operator  *)
(* .py, hybrid_benchmark_efficiency.py), and the debug shim that prints it *)
(* (verilator_sidecar_shim.py).                                            *)
(*                                                                         *)
(* An operation that raises returns None.                                  *)
(***************************************************************************)
EXTENDS TemplatePlan

CONSTANT Registry \* BENCHMARKS: target -> [kind, template, canonical, modes]

ASSUME RegistryAssumption ==
  \A t \in DOMAIN Registry : Registry[t].kind \in {"slice", "mobile_vit"}

ResidentModes == {"resident-state-reuse", "persistent-resident-state-abi"}
Modes == {"template"} \cup ResidentModes
CoveragePolicy == "coverage_output_equivalence"
Ready == "ready_for_verilator_option_shim"
NotReady == "not_ready_for_verilator_option_shim"
PlannedNotReady == "planned_not_ready_for_verilator_option_shim"
Unsupported == "unsupported_for_stage_plan"

ASSUME ReadyAssumption == Ready # None

----------------------------------------------------------------------------
(* Stage plans                                                             *)

Plan(target, shape, mode, status, template, stages, readiness) ==
  [target |-> target, shape |-> shape, mode |-> mode, status |-> status, template |-> template,
   stages |-> stages, readiness |-> readiness, policy |-> CoveragePolicy]

NoStages == [s \in {} |-> None]

(* The details the readiness and the later steps look at.                  *)
StageDetails(p, stage) ==
  CASE stage = "verilator_build" -> [mdir |-> p.target, top |-> p.top, sources |-> TRUE]
    [] stage = "host_probe_build" -> [template |-> p.template]
    [] stage = "cpu_init_state" -> [shape |-> <<1, 1>>, output |-> p.init, cfg |-> p.cfg]
    [] stage = "cpu_reference_output" ->
         [shape |-> <<p.nstates, p.steps>>, output |-> p.reference, cfg |-> p.cfg]
    [] stage = "gpu_artifact_build" -> [mdir |-> p.target]
    [] stage = "hybrid_sidecar_run" ->
         [mdir |-> p.target, nstates |-> p.nstates, steps |-> p.steps,
          init_state |-> p.init, dump_state |-> p.candidate]
    [] stage = "coverage_output_compare" ->
         [reference_dump |-> p.reference, candidate_dump |-> p.candidate,
          labels |-> <<p.nstates, p.steps>>, policy |-> CoveragePolicy,
          coverage_target |-> p.target, json_out |-> p.compareReport]

VerilatorOptionReadiness(stages) ==
  LET build == stages["verilator_build"]
      run == stages["hybrid_sidecar_run"]
      compare == stages["coverage_output_compare"]
  IN  IF /\ build.mdir # None /\ build.top # None /\ build.sources
         /\ stages["gpu_artifact_build"].mdir # None
         /\ run.nstates # None /\ run.steps # None
         /\ run.init_state # None /\ run.dump_state # None
         /\ compare.policy = CoveragePolicy
         /\ compare.reference_dump # None /\ compare.candidate_dump # None
      THEN Ready ELSE "missing_required_inputs"

MobileVitStages == [s \in {"host_preprocess", "rtl_sidecar_proxy_eval"} |-> [limit |-> 128]]

MobileVitStagePlan(target, shape, mode, limit) ==
  IF mode # "template" \/ limit # 128
  THEN Plan(target, shape, mode, Unsupported, None, NoStages, None)
  ELSE Plan(target, shape, mode, PlannedNotReady, None, MobileVitStages, NotReady)

(* The workflow of results_reproduction.py a resident mode stands for; it  *)
(* takes a shape and a phase count, and no target.                         *)
ResidentWorkflow(mode, shape, phases) == [workflow |-> mode, shape |-> shape, phases |-> phases]

ResidentStagePlan(target, shape, mode, phases) ==
  Plan(target, shape, mode, PlannedNotReady, None,
       [s \in {"resident_workflow"} |-> ResidentWorkflow(mode, shape, phases)], NotReady)

AllStageDetails(plan) ==
  [s \in {StageNames[i] : i \in DOMAIN StageNames} |-> StageDetails(plan, s)]

PlannedStages(target, shape, mode, template, details) ==
  Plan(target, shape, mode, "planned", template, details, VerilatorOptionReadiness(details))

TemplateStagePlanOf(target, shape, mode, plan) ==
  IF plan = None THEN None
  ELSE PlannedStages(target, shape, mode, Registry[target].template, AllStageDetails(plan))

TemplateStagePlan(target, shape, mode) ==
  TemplateStagePlanOf(target, shape, mode,
                      HybridPlan(Registry[target].template, shape, DefaultCfg))

(* sidecar_stage_plan: the modes of the target are not looked at.          *)
SidecarStagePlan(target, shape, mode, limit, phases) ==
  CASE target \notin DOMAIN Registry -> None
    [] target \in DOMAIN Registry /\ Registry[target].kind = "mobile_vit" ->
         MobileVitStagePlan(target, shape, mode, limit)
    [] OTHER ->
         CASE mode \notin Modes -> Plan(target, shape, mode, Unsupported, None, NoStages, None)
           [] mode \in Modes /\ shape = None -> None
           [] mode \in ResidentModes /\ shape # None ->
                ResidentStagePlan(target, shape, mode, phases)
           [] mode = "template" /\ shape # None -> TemplateStagePlan(target, shape, mode)

----------------------------------------------------------------------------
(* What is made of a stage plan                                            *)

HasStage(plan, stage) == stage \in DOMAIN plan.stages

VerilatorCommandArgv(plan) ==
  LET build == plan.stages["verilator_build"]
      run == plan.stages["hybrid_sidecar_run"]
  IN  [mdir |-> build.mdir, top |-> build.top, states |-> run.nstates, steps |-> run.steps]

SidecarHandoffContract(plan) ==
  LET run == plan.stages["hybrid_sidecar_run"]
      compare == plan.stages["coverage_output_compare"]
  IN  [shape |-> <<run.nstates, run.steps>>, nstates |-> run.nstates, steps |-> run.steps,
       init_state |-> run.init_state,
       reference_dump |-> compare.reference_dump, candidate_dump |-> compare.candidate_dump,
       policy |-> compare.policy, labels |-> compare.labels,
       coverage_target |-> compare.coverage_target, compare_report |-> compare.json_out]

ShapeClass(shape) ==
  CASE shape = None -> "unknown"
    [] shape # None /\ shape[1] >= 16 /\ shape[2] <= 4 -> "high"
    [] shape # None /\ shape[1] = 1 /\ shape[2] > 1 -> "low"
    [] OTHER -> "medium"

(* Without the reports a template run may have left; their use is modelled *)
(* with the files, in Campaign.                                            *)
EfficiencyEstimate(target, shape, mode, phases) ==
  [target |-> target, shape |-> shape, mode |-> mode, phases |-> phases,
   class |-> IF Registry[target].kind = "slice" THEN ShapeClass(shape) ELSE "unknown"]

SidecarOperatorPlan(command, estimate, handoff) ==
  [command |-> command, estimate |-> estimate, handoff |-> handoff,
   entrypoint |-> handoff.shape, status |-> "planned", authority |-> FALSE]

----------------------------------------------------------------------------
(* The debug shim                                                          *)

PrintOnlyModes ==
  {"--print-verilator-command", "--print-verilator-estimate-command",
   "--print-efficiency-estimate", "--print-operator-plan"}

CommandModes == PrintOnlyModes \ {"--print-efficiency-estimate"}

(* normalize_shim_sidecar_options.                                         *)
ShimOptionsRefused(req) ==
  \/ Cardinality(req.modes \cap PrintOnlyModes) > 1
  \/ SimAccelError(req.argv)
  \/ ShapeError(req.argv)

(* shim_report: the plan, whether a command is emitted, and the exit       *)
(* status; main turns an exception into 1.                                 *)
ShimReportOf(req, shape, plan) ==
  LET emits == req.modes \cap (CommandModes \cup {"--emit-verilator-command"}) # {}
  IN  IF \/ plan = None
         \/ "--emit-command" \in req.modes /\ req.stage = None
         \/ req.stage # None /\ ~HasStage(plan, req.stage)
      THEN [exit |-> 1, plan |-> None, operator |-> None]
      ELSE [exit |-> IF plan.readiness = Ready THEN 0 ELSE 2,
            plan |-> plan,
            operator |-> IF emits /\ plan.readiness = Ready
                         THEN SidecarOperatorPlan(
                                VerilatorCommandArgv(plan),
                                EfficiencyEstimate(req.target, shape, req.mode, req.phases),
                                SidecarHandoffContract(plan))
                         ELSE None]

ShimPlan(req, shape) ==
  IF ShimOptionsRefused(req) THEN None
  ELSE SidecarStagePlan(req.target, shape, req.mode, req.limit, req.phases)

ShimReport(req) ==
  LET shape == ResolvedShape(req.argv) IN ShimReportOf(req, shape, ShimPlan(req, shape))
=============================================================================
