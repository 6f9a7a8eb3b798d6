----------------------------- MODULE Benchmark ------------------------------
(***************************************************************************)
(* The benchmark front end, run_hybrid_benchmark.py: what a command line   *)
(* is refused for, the commands a target stands for, and the steps of a    *)
(* run (hybrid_benchmark.py, hybrid_benchmark_catalog.py,                  *)
(* run_hybrid_benchmark_dispatch.py, run_hybrid_benchmark_print_modes.py). *)
(*                                                                         *)
(* A request is [target, argv, limit, mode, phases, modes, summary]: argv  *)
(* spells the shape and the sidecar, modes are the flags given, summary is *)
(* None, "auto" or a path.                                                 *)
(***************************************************************************)
EXTENDS StagePlan, Reproduction

----------------------------------------------------------------------------
(* The commands of a target                                                *)

(* benchmark_plan, None where it raises.  The commands are programs, run   *)
(* one after the other: their steps are put in line.                       *)
NestedTemplate(target, shape) == TemplateRun(Registry[target].template, shape, DefaultCfg)

OrRaise(steps) == IF steps = None THEN <<Raise>> ELSE steps

NestedReproduction(mode, shape, phases) ==
  OrRaise(Reproduce([options |-> {IF mode = "resident-state-reuse" THEN "--resident-state-reuse"
                                  ELSE "--persistent-resident-state-abi"},
                     shape |-> shape, phases |-> phases]))

SlicePlan(target, shape, limit, mode, phases) ==
  CASE shape = None \/ limit # None -> None
    [] shape # None /\ limit = None /\ mode = "template" -> NestedTemplate(target, shape)
    [] OTHER -> NestedReproduction(mode, shape, phases)

MobileVitTargetPlan(shape, limit) ==
  IF shape # None \/ limit # 128 THEN None ELSE MobileVitPlan

(* A resident mode is of the targets that list it.                         *)
AnyMode(target, mode) == TRUE
Supports(target, mode) == mode \in Registry[target].modes

BenchmarkPlan(target, shape, limit, mode, phases) ==
  IF \/ target \notin DOMAIN Registry
     \/ phases <= 0
     \/ ~Supports(target, mode)
  THEN None
  ELSE IF Registry[target].kind = "slice" THEN SlicePlan(target, shape, limit, mode, phases)
       ELSE MobileVitTargetPlan(shape, limit)

----------------------------------------------------------------------------
(* What the reports say                                                    *)

(* expected_reports, for its evidence: the comparison of the template's     *)
(* plan, or the aggregate a mode or a data set leaves, which is one file   *)
(* whatever the target, the shape and the phases.                          *)
EvidenceReport(target, shape, mode) ==
  CASE Registry[target].kind = "mobile_vit" -> EvalSummary
    [] Registry[target].kind = "slice" /\ mode = "template" ->
         HybridPlan(Registry[target].template, shape, DefaultCfg).compareReport
    [] Registry[target].kind = "slice" /\ mode = "resident-state-reuse" -> ReuseSummary
    [] Registry[target].kind = "slice" /\ mode = "persistent-resident-state-abi" -> ProbeSummary

(* _observed_template_efficiency: the reports a template run may have left.*)
ObservedReports(target, shape, mode) ==
  IF Registry[target].kind = "slice" /\ mode = "template" /\ shape # None
  THEN LET plan == HybridPlan(Registry[target].template, shape, DefaultCfg)
       IN  {plan.cpuReport, plan.hybridReport}
  ELSE {}

(* _phase_aggregate_evidence_summary: only the aggregate of a resident     *)
(* mode is asked for its shape and its phases.                             *)
AggregateUnread(target, mode) == FALSE
ChecksPhases(target, mode) == Registry[target].kind = "slice" /\ mode \in ResidentModes

(* default_summary_path: the phases are not part of the name.              *)
DefaultSummaryPath(req, shape) ==
  Named("benchmark_summary", req.target, IF shape = None THEN Unshaped ELSE shape,
        <<req.mode, "auto", 0, 0>>)

SummaryPath(req, shape) ==
  IF req.summary \in {None, "auto"} THEN DefaultSummaryPath(req, shape)
  ELSE Named("benchmark_summary", "", Unshaped, <<req.summary, "", 0, 0>>)

----------------------------------------------------------------------------
(* Steps of the script                                                     *)

Asked(req, shape) ==
  [target |-> req.target, shape |-> shape, mode |-> req.mode, phases |-> req.phases]

(* efficiency_estimate looks at the reports when both are there.           *)
Estimate(req, shape) ==
  <<Command("estimate", Asked(req, shape), ObservedReports(req.target, shape, req.mode), {}, None)>>

(* benchmark_summary makes the estimate too, and the evidence.             *)
WriteSummary(req, shape, execution) ==
  <<Command("benchmark_summary",
            [asked |-> Asked(req, shape), execution |-> execution,
             report |-> EvidenceReport(req.target, shape, req.mode),
             checked |-> ChecksPhases(req.target, req.mode)],
            ObservedReports(req.target, shape, req.mode), {SummaryPath(req, shape)}, None)>>

ExitNotReady == <<Command("not_ready", About("", Unshaped, None), {}, {}, None)>>

----------------------------------------------------------------------------
(* The command line                                                        *)

PrintModes == PrintOnlyModes \cup {"--operator-plan-json"}

EstimateFlags ==
  {"--estimate-efficiency", "--estimate-efficiency-json", "--sim-accel-estimate-efficiency"}

Explicit(req) == req.modes \cap EstimateFlags # {}

(* normalize_args with the hint it gives a slice without a shape.          *)
NormalizationRefused(req) ==
  \/ SimAccelError(req.argv)
  \/ ShapeError(req.argv)
  \/ /\ ResolvedShape(req.argv) = None
     /\ SidecarGpuRequested(req.argv, "--preflight" \in req.modes)
          \/ LastValue(req.argv, "--sim-accel") = "sidecar-gpu"
     /\ req.target \in DOMAIN Registry
     /\ Registry[req.target].kind = "slice"

(* An estimate is printed when asked for, and whenever the sidecar is.     *)
EstimateWanted(req) ==
  Explicit(req) \/ SidecarGpuRequested(req.argv, "--preflight" \in req.modes)

(* run_print_only_mode: nothing is run, but the estimate is made.          *)
PrintOnly(req, shape) ==
  LET printing == req.modes \cap PrintModes
      plan == SidecarStagePlan(req.target, shape, req.mode, req.limit, req.phases)
  IN  IF \/ Cardinality(printing) > 1
         \/ req.modes \cap {"--preflight", "--dry-run", "--summary-from-existing"} # {}
         \/ req.summary # None
         \/ Explicit(req) /\ printing \cap {"--operator-plan-json", "--print-operator-plan"} = {}
         \/ plan = None
      THEN None
      ELSE Estimate(req, shape) \o (IF plan.readiness = Ready THEN <<>> ELSE ExitNotReady)

(* The three that follow make the target's commands first, and are refused *)
(* where that raises.                                                      *)
Preflight(req, shape, commands) ==
  IF "--summary-from-existing" \in req.modes \/ Explicit(req) \/ commands = None THEN None
  ELSE Estimate(req, shape)

SummaryFromExisting(req, shape, commands) ==
  IF "--dry-run" \in req.modes \/ commands = None THEN None
  ELSE WriteSummary(req, shape, "existing_evidence")
       \o (IF EstimateWanted(req) THEN Estimate(req, shape) ELSE <<>>)

(* run_benchmark_mode: the commands, then the summary, then the estimate.  *)
BenchmarkMode(req, shape, commands) ==
  LET dry == "--dry-run" \in req.modes
  IN  IF commands = None THEN None
      ELSE (IF dry THEN <<>> ELSE commands)
           \o (IF req.summary = None THEN <<>>
               ELSE WriteSummary(req, shape, IF dry THEN "dry_run" ELSE "executed"))
           \o (IF EstimateWanted(req) THEN Estimate(req, shape) ELSE <<>>)

(* run_with_args, for a target.                                            *)
RunOnTarget(req, shape, commands) ==
  CASE req.modes \cap PrintModes # {} -> PrintOnly(req, shape)
    [] req.modes \cap PrintModes = {} /\ "--preflight" \in req.modes ->
         Preflight(req, shape, commands)
    [] req.modes \cap (PrintModes \cup {"--preflight"}) = {}
         /\ "--summary-from-existing" \in req.modes -> SummaryFromExisting(req, shape, commands)
    [] OTHER -> BenchmarkMode(req, shape, commands)

Planned(req, shape) ==
  RunOnTarget(req, shape, BenchmarkPlan(req.target, shape, req.limit, req.mode, req.phases))

RunWithArgs(req) ==
  IF NormalizationRefused(req) THEN None ELSE Planned(req, ResolvedShape(req.argv))
=============================================================================
