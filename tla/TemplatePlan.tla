---------------------------- MODULE TemplatePlan ----------------------------
(***************************************************************************)
(* A slice template, and the plan run_hybrid_template.py makes of it for a *)
(* shape: seven commands over files that are named by the template's       *)
(* target and the shape (hybrid_template_normalize.py,                     *)
(* hybrid_template_runner.py, hybrid_template_commands.py and the host     *)
(* probe build, hybrid_host_probe_*.py).                                   *)
(*                                                                         *)
(* A file is [kind, target, shape, tag], Plain where the name has no more  *)
(* to it than the first three.  A command is a record of its tool, what it *)
(* is about, the files it reads, the files it writes, and the report its   *)
(* caller redirects stdout to, or None.                                    *)
(***************************************************************************)
EXTENDS SidecarArgs, FiniteSets

CONSTANT Payloads   \* template -> its JSON, see Normalized

ASSUME PayloadsAssumption == \A t \in DOMAIN Payloads : "target" \in DOMAIN Payloads[t]

Unshaped == <<0, 0>>

Named(kind, target, shape, tag) ==
  [kind |-> kind, target |-> target, shape |-> shape, tag |-> tag]

Plain == <<"", "", 0, 0>>

(* Of the cfg_* values a probe is run with, the two that vary: the batch   *)
(* length and the seed.                                                    *)
DefaultCfg == <<64, 1>>

File(kind, target, shape) == Named(kind, target, shape, Plain)

Command(tool, about, reads, writes, stdout) ==
  [tool |-> tool, about |-> about, reads |-> reads, writes |-> writes, stdout |-> stdout]

(* A legacy payload lacks the build section; it is completed in memory,    *)
(* with an overlay, the TLUL gate and the probe builder, but no closure.   *)
Normalized(payload) ==
  IF payload.top # None \/ ~payload.legacy THEN payload
  ELSE [payload EXCEPT !.top = payload.runnerTop, !.sources = TRUE, !.overlay = TRUE,
                       !.gate = "tlul_gate", !.builder = TRUE]

(* load_template_plan, None where it raises.  The files carry the target   *)
(* and the shape but not the cfg_* values the probe is run with.           *)
HybridPlan(template, shape, cfg) ==
  IF template \notin DOMAIN Payloads \/ ~PositiveShape(shape) THEN None
  ELSE LET payload == Normalized(Payloads[template])
           F(kind, s) == File(kind, payload.target, s)
       IN  IF payload.top = None \/ ~(payload.sources \/ payload.overlay) THEN None
           ELSE [template |-> template, target |-> payload.target, top |-> payload.top,
                 gate |-> payload.gate, builder |-> payload.builder,
                 closure |-> IF payload.closure = None THEN "unknown" ELSE payload.closure,
                 nstates |-> shape[1], steps |-> shape[2], cfg |-> cfg,
                 init |-> F("cpu_state", <<1, 1>>),
                 reference |-> F("cpu_state", shape),
                 candidate |-> F("gpu_state", shape),
                 initReport |-> F("cpu_report", <<1, 1>>),
                 cpuReport |-> F("cpu_report", shape),
                 hybridReport |-> F("hybrid_report", shape),
                 compareReport |-> F("compare_report", shape)]

(* A template that says its source closure is not complete is planned, but *)
(* not executed.  One that says nothing is executed.                       *)
ClosureRefusesExecution(plan) == plan.closure \in {"incomplete", "refused"}

----------------------------------------------------------------------------
(* What the commands build once for a target.                              *)
Model(target) == File("model", target, Unshaped)
Probe(target) == File("probe", target, Unshaped)
Cubin(target) == File("cubin", target, Unshaped)

About(target, shape, cfg) == [target |-> target, shape |-> shape, cfg |-> cfg]

VerilatorCommand(plan) ==
  Command("verilator", About(plan.target, Unshaped, None), {}, {Model(plan.target)}, None)

(* build_host_probe.py, or the Makefile's rule for the target: both        *)
(* compile the probe with the model's C++.                                 *)
ProbeCommand(plan) ==
  Command(IF plan.builder THEN "build_host_probe" ELSE "make",
          About(plan.target, Unshaped, None), {Model(plan.target)}, {Probe(plan.target)}, None)

HostProbeRepeat(target, shape, cfg, output, stdout) ==
  Command("host_probe", About(target, shape, cfg), {Probe(target)}, {output}, stdout)

GpuBuildCommand(plan) ==
  Command("build_vl_gpu", About(plan.target, Unshaped, None),
          {Model(plan.target)}, {Cubin(plan.target)}, None)

HybridCommand(plan) ==
  Command("run_vl_hybrid", About(plan.target, <<plan.nstates, plan.steps>>, plan.cfg),
          {Cubin(plan.target), plan.init}, {plan.candidate}, plan.hybridReport)

CompareCommand(plan) ==
  Command("compare", About(plan.target, <<plan.nstates, plan.steps>>, plan.cfg),
          {Model(plan.target), plan.reference, plan.candidate}, {plan.compareReport}, None)

StageNames ==
  <<"verilator_build", "host_probe_build", "cpu_init_state", "cpu_reference_output",
    "gpu_artifact_build", "hybrid_sidecar_run", "coverage_output_compare">>

(* command_plan and the reports run_plan opens for commands 3, 4 and 6.    *)
CommandPlan(plan) ==
  <<VerilatorCommand(plan),
    ProbeCommand(plan),
    HostProbeRepeat(plan.target, <<1, 1>>, plan.cfg, plan.init, plan.initReport),
    HostProbeRepeat(plan.target, <<plan.nstates, plan.steps>>, plan.cfg,
                    plan.reference, plan.cpuReport),
    GpuBuildCommand(plan),
    HybridCommand(plan),
    CompareCommand(plan)>>
=============================================================================
