---------------------------- MODULE Reproduction ----------------------------
(***************************************************************************)
(* The workflows of run_results_reproduction.py and of the MobileViT       *)
(* evaluation, as the sequence of steps each of them takes.  A step is a   *)
(* command in the sense of TemplatePlan: a program, or one of the script's *)
(* own steps:                                                              *)
(*                                                                         *)
(*   "summarize"  reads reports, and writes one made of them               *)
(*   "record"     writes a file                                            *)
(*   "raise"      the script dies                                          *)
(*                                                                         *)
(* A summary is computed from samples read when each was taken; here it    *)
(* reads their reports when it is written, since no step of a workflow     *)
(* rewrites the reports of an earlier sample with another run's.  The dry  *)
(* run of a workflow prints its steps and takes none.                      *)
(***************************************************************************)
EXTENDS TemplatePlan, SequencesExt

CONSTANTS ShapePhaseCases, \* of the shape-phase sweep: <<[id, shape, phases, repeat], ...>>
          EvalTemplate,    \* the template of the MobileViT proxy
          ImageCount       \* images of the manifest

Mha == "pulp_ita_mha"
KvScore == "pulp_paged_attention_kv_score"
KvCache == "pulp_paged_kv_cache_large"
FilelistKvScore == "filelist_paged_attention_kv_score"
FilelistMha == "filelist_known_template_pulp_ita_mha"

Raise == Command("raise", About("", Unshaped, None), {}, {}, None)

Summarize(about, parts, output) == Command("summarize", about, parts, {output}, None)

Report(name, sub, index) == Named("summary", "", Unshaped, <<name, sub, 0, index>>)

(* The steps Step(1), ..., Step(n), each a sequence, one after the other.  *)
Each(n, Step(_)) == FlattenSeq([i \in 1..n |-> Step(i)])

----------------------------------------------------------------------------
(* Templates                                                               *)

(* main of run_hybrid_template.py: the plan, the closure, the commands.    *)
TemplateRun(template, shape, cfg) ==
  LET plan == HybridPlan(template, shape, cfg)
  IN  IF plan = None THEN <<Raise>>
      ELSE IF ClosureRefusesExecution(plan) THEN <<Raise>>
      ELSE CommandPlan(plan)

----------------------------------------------------------------------------
(* Workloads                                                               *)

(* tag is the report tag, "" where there is none.                          *)
Workload(target, shape, resident, tag) ==
  [target |-> target, shape |-> shape, resident |-> resident, tag |-> tag]

Steady(target, shape, tag) == Workload(target, shape, FALSE, tag)

(* A report tag is the option's prefix and the workload's name; a file     *)
(* carries the target and the shape beside the tag.                        *)
RepresentativeWorkloads ==
  <<Steady(Mha, <<64, 1>>, ""),
    Steady(Mha, <<1, 64>>, ""),
    Workload(Mha, <<1, 64>>, TRUE, ""),
    Workload(Mha, <<32, 64>>, TRUE, ""),
    Steady(KvScore, <<64, 1>>, "")>>

ShapeBreadthWorkloads ==
  LET tag == "filelist_shape_breadth_repeat"
  IN  <<Steady(FilelistKvScore, <<32, 1>>, tag), Steady(FilelistKvScore, <<1, 32>>, tag),
        Steady(FilelistMha, <<32, 1>>, tag), Steady(FilelistMha, <<1, 32>>, tag)>>

BroaderShapeWorkloads ==
  LET tag == "filelist_broader_shape_repeat"
  IN  <<Steady(FilelistKvScore, <<64, 1>>, tag), Steady(FilelistKvScore, <<1, 64>>, tag),
        Steady(FilelistMha, <<64, 1>>, tag), Steady(FilelistMha, <<1, 64>>, tag)>>

BroaderPolicyWorkloads ==
  LET tag == "filelist_broader_policy_repeat"
  IN  <<Steady(FilelistKvScore, <<64, 1>>, tag), Steady(FilelistMha, <<64, 1>>, tag)>>

(* The three paged sets are one list with three pairs of sizes.            *)
PagedWorkloads(option) ==
  LET n == CASE option = "--paged-kv-repeat-median" -> <<256, 64>>
             [] option = "--paged-kv-continuation-repeat-median" -> <<512, 128>>
             [] option = "--paged-kv-next-shapes-repeat-median" -> <<1024, 256>>
  IN  <<Steady(KvCache, <<n[1], 1>>, option), Steady(KvCache, <<1, n[2]>>, option),
        Steady(KvScore, <<n[1] \div 4, 1>>, option), Steady(KvScore, <<1, n[2]>>, option)>>

ResidentBatchWorkloads(batchStates) ==
  [i \in DOMAIN batchStates |-> Workload(Mha, <<batchStates[i], 64>>, TRUE, "")]

ReuseWorkload(shape) == Workload(Mha, shape, TRUE, "")

----------------------------------------------------------------------------
(* Commands of a workload                                                  *)

CpuRepeat(w, shape, output, report) ==
  HostProbeRepeat(w.target, shape, DefaultCfg, output, report)

Hybrid(w, init, output, report) ==
  Command("run_vl_hybrid", About(w.target, w.shape, DefaultCfg),
          {Cubin(w.target), init}, {output}, report)

(* The stdout of the comparison goes to a file of its own, left out.       *)
Compare(w, shape, reference, candidate, report) ==
  Command("compare", About(w.target, shape, DefaultCfg),
          {Model(w.target), reference, candidate}, {report}, None)

InitStateFile(w) ==
  IF w.tag = "" THEN File("cpu_state", w.target, <<1, 1>>)
  ELSE Named("cpu_state", w.target, <<1, 1>>, <<w.tag, "init", w.shape[1], w.shape[2]>>)

InitReport(w, tag) ==
  Named("cpu_report", w.target, <<1, 1>>,
        IF w.tag = "" THEN <<"", tag, 0, 0>> ELSE <<w.tag, tag, w.shape[1], w.shape[2]>>)

SampleFile(w, sample, kind) ==
  Named(kind, w.target, w.shape,
        <<w.tag, IF w.resident THEN "resident_median_sample" ELSE "median_sample", 0, sample>>)

InitStateApart(w, tag) ==
  CpuRepeat(w, <<1, 1>>, Named("cpu_state", w.target, <<1, 1>>, <<tag, "init", 0, 0>>),
            InitReport(w, tag))
InitState(w, tag) == CpuRepeat(w, <<1, 1>>, InitStateFile(w), InitReport(w, tag))

WorkloadSample(w, sample) ==
  LET F(kind) == SampleFile(w, sample, kind)
  IN  <<CpuRepeat(w, w.shape, F("cpu_state"), F("cpu_report")),
        Hybrid(w, InitStateFile(w), F("gpu_state"), F("hybrid_report")),
        Compare(w, w.shape, F("cpu_state"), F("gpu_state"), F("compare_report"))>>

SampleReports(w, sample) ==
  {SampleFile(w, sample, k) : k \in {"cpu_report", "hybrid_report", "compare_report"}}

----------------------------------------------------------------------------
(* Repeat medians                                                          *)

MedianReport(w, name) == Named("summary", w.target, w.shape, <<w.tag, name, 0, 0>>)

(* The resident workload of the representative set has another name.       *)
MedianReportName(w) == IF w.resident THEN "resident_median" ELSE "median"

(* A workload's init state, its samples and its summary.                   *)
WorkloadMedian(w, repeat, tag, name) ==
  <<InitState(w, tag)>>
  \o Each(repeat, LAMBDA i : WorkloadSample(w, i))
  \o <<Summarize(About(w.target, w.shape, DefaultCfg),
                 UNION {SampleReports(w, i) : i \in 1..repeat}, MedianReport(w, name))>>

WorkloadSet(workloads, repeat, aggregate) ==
  Each(Len(workloads),
       LAMBDA i : WorkloadMedian(workloads[i], repeat, "median", MedianReportName(workloads[i])))
  \o <<Summarize(About("", Unshaped, None),
                 {MedianReport(workloads[i], MedianReportName(workloads[i])) :
                    i \in DOMAIN workloads},
                 aggregate)>>

(* The option's workloads, None for a repeat count that is not positive.   *)
MedianDispatch(option, repeat) ==
  LET workloads ==
        CASE option = "--repeat-median" -> RepresentativeWorkloads
          [] option = "--filelist-shape-breadth-repeat-median" -> ShapeBreadthWorkloads
          [] option = "--filelist-broader-shape-repeat-median" -> BroaderShapeWorkloads
          [] option = "--filelist-broader-policy-repeat-median" -> BroaderPolicyWorkloads
          [] OTHER -> PagedWorkloads(option)
  IN  IF repeat <= 0 THEN None
      ELSE WorkloadSet(workloads, repeat, Report(option, "summary", 0))

(* --resident-batch-sweep: its samples have the names of the samples the   *)
(* representative set takes of the same resident workload.                 *)
ResidentBatchSweep(batchStates, repeat) ==
  LET workloads == ResidentBatchWorkloads(batchStates)
      name == "resident_batch_sweep"
  IN  IF \/ batchStates = <<>> \/ repeat <= 0
         \/ \E i \in DOMAIN batchStates : batchStates[i] <= 0
      THEN None
      ELSE Each(Len(workloads), LAMBDA i : WorkloadMedian(workloads[i], repeat, name, name))
           \o <<Summarize(About("", Unshaped, None),
                          {MedianReport(workloads[i], name) : i \in DOMAIN workloads},
                          Report(name, "summary", 0))>>

----------------------------------------------------------------------------
(* Resident state reuse                                                    *)

OnePhase(shape, phase) == shape
PhasesBefore(shape, phase) == <<shape[1], shape[2] * (phase - 1)>>
Cumulative(shape, phase) == <<shape[1], shape[2] * phase>>

ReuseFile(shape, phase, kind) ==
  Named(kind, Mha, shape, <<"resident_state_reuse", "", phase, 0>>)

(* A phase runs the steps of one phase from the dump of the phase before,  *)
(* and is compared with a CPU run of all the steps so far.                 *)
ReusePhase(shape, phase) ==
  LET w == ReuseWorkload(shape)
      F(kind) == ReuseFile(shape, phase, kind)
      previous == IF phase = 1 THEN InitStateFile(w) ELSE ReuseFile(shape, phase - 1, "gpu_state")
  IN  <<CpuRepeat(w, Cumulative(shape, phase), F("cpu_state"), F("cpu_report")),
        Hybrid(w, previous, F("gpu_state"), F("hybrid_report")),
        Compare(w, Cumulative(shape, phase), F("cpu_state"), F("gpu_state"),
                F("compare_report"))>>

ReuseSummary == Report("resident_state_reuse_experiment", "summary", 0)

(* resident_state_reuse_phase_summary: it calls parse_hybrid_report        *)
(* without the repo_root it requires, and dies on the TypeError.           *)
ReusePhaseSummary == <<Raise>>

ResidentStateReuse(shape, phases) ==
  IF phases <= 0 \/ ~PositiveShape(shape) THEN None
  ELSE <<InitState(ReuseWorkload(shape), "resident_state_reuse")>>
       \o Each(phases, LAMBDA p : ReusePhase(shape, p) \o ReusePhaseSummary)
       \o <<Summarize(About(Mha, shape, phases),
                      {ReuseFile(shape, p, k) : p \in 1..phases, k \in {"compare_report"}},
                      ReuseSummary)>>

----------------------------------------------------------------------------
(* The persistent resident state ABI                                       *)

NoTag == <<"", 0>>

(* A sample tag is a prefix and the sample's number.                       *)
AbiFile(shape, phase, tag, kind) ==
  Named(kind, Mha, shape, <<"persistent_resident_state_abi", tag[1], phase, tag[2]>>)

AbiInit(shape, tag) ==
  CpuRepeat(ReuseWorkload(shape), <<1, 1>>, InitStateFile(ReuseWorkload(shape)),
            Named("cpu_report", Mha, <<1, 1>>,
                  <<"persistent_resident_state_abi", tag[1], 0, tag[2]>>))

AbiHybridReport(shape, tag) == AbiFile(shape, 0, tag, "hybrid_report")

CpuPhase(shape, phase, tag) ==
  <<CpuRepeat(ReuseWorkload(shape), Cumulative(shape, phase),
              AbiFile(shape, phase, tag, "cpu_state"),
              AbiFile(shape, phase, tag, "cpu_report"))>>

(* One launch dumps the state after each phase to the file listed for it;  *)
(* the runtime takes the list, but writes it only when there is more than  *)
(* one phase, and no --dump-state is given.                                *)
HybridMultiphase(shape, phases, tag) ==
  Command("run_vl_hybrid_phases", About(Mha, shape, DefaultCfg),
          {Cubin(Mha), InitStateFile(ReuseWorkload(shape))},
          IF phases > 1 THEN {AbiFile(shape, p, tag, "gpu_state") : p \in 1..phases} ELSE {},
          AbiHybridReport(shape, tag))

ComparePhase(shape, phase, tag) ==
  <<Compare(ReuseWorkload(shape), Cumulative(shape, phase),
            AbiFile(shape, phase, tag, "cpu_state"), AbiFile(shape, phase, tag, "gpu_state"),
            AbiFile(shape, phase, tag, "compare_report"))>>

(* The reports the phases of a probe leave, and its one hybrid report.     *)
AbiReports(shape, phases, tag) ==
  {AbiFile(shape, p, tag, k) : p \in 1..phases, k \in {"cpu_report", "compare_report"}}
    \cup {AbiHybridReport(shape, tag)}

PersistentProbe(shape, phases, tag, summary) ==
  IF phases <= 0 \/ ~PositiveShape(shape) THEN None
  ELSE <<AbiInit(shape, tag)>>
       \o Each(phases, LAMBDA p : CpuPhase(shape, p, tag))
       \o <<HybridMultiphase(shape, phases, tag)>>
       \o Each(phases, LAMBDA p : ComparePhase(shape, p, tag))
       \o <<Summarize(About(Mha, shape, phases), AbiReports(shape, phases, tag), summary)>>

ProbeSummary == Report("persistent_resident_state_abi_probe", "summary", 0)
RepeatSummary == Report("persistent_resident_state_abi_repeat_median", "summary", 0)
SampleSummary(prefix, sample) == Report("persistent_sample", prefix, sample)

(* load_and_annotate_repeat_sample: the probe's summary is read back and   *)
(* rewritten with the timing of its hybrid report.                         *)
AnnotateSample(shape, phases, prefix, sample) ==
  Summarize(About(Mha, shape, phases),
            AbiReports(shape, phases, <<prefix, sample>>), SampleSummary(prefix, sample))

RepeatSample(shape, phases, prefix, sample) ==
  PersistentProbe(shape, phases, <<prefix, sample>>, SampleSummary(prefix, sample))
  \o <<AnnotateSample(shape, phases, prefix, sample)>>

PersistentRepeatMedian(shape, phases, repeat, prefix, summary) ==
  IF repeat <= 0 \/ phases <= 0 \/ ~PositiveShape(shape) THEN None
  ELSE Each(repeat, LAMBDA i : RepeatSample(shape, phases, prefix, i))
       \o <<Summarize(About(Mha, shape, phases),
                      {SampleSummary(prefix, i) : i \in 1..repeat}, summary)>>

CaseSummary(case) == Report("shape_phase_sweep", case.id, 0)

ShapePhaseCase(case) ==
  PersistentRepeatMedian(case.shape, case.phases, case.repeat, case.id, CaseSummary(case))

ShapePhaseSweep ==
  Each(Len(ShapePhaseCases), LAMBDA i : ShapePhaseCase(ShapePhaseCases[i]))
  \o <<Summarize(About(Mha, Unshaped, None),
                 {CaseSummary(ShapePhaseCases[i]) : i \in DOMAIN ShapePhaseCases},
                 Report("shape_phase_sweep", "summary", 0))>>

----------------------------------------------------------------------------
(* The representative results                                              *)

ResidentFile(shape, kind) == Named(kind, Mha, shape, <<"resident", "", 0, 0>>)

(* The reference of the one-state run is the one the template run left.    *)
ResidentRun(n) ==
  LET shape == <<n, 64>>
      w == Workload(Mha, shape, TRUE, "")
      reference == File("cpu_state", Mha, shape)
  IN  (IF n = 1 THEN <<>>
       ELSE <<CpuRepeat(w, shape, reference, File("cpu_report", Mha, shape))>>)
      \o <<Hybrid(w, File("cpu_state", Mha, <<1, 1>>), ResidentFile(shape, "gpu_state"),
                  ResidentFile(shape, "hybrid_report")),
           Compare(w, shape, reference, ResidentFile(shape, "gpu_state"),
                   ResidentFile(shape, "compare_report"))>>

ReproductionPlan ==
  TemplateRun(Mha, <<64, 1>>, DefaultCfg) \o TemplateRun(Mha, <<1, 64>>, DefaultCfg)
  \o ResidentRun(1) \o ResidentRun(32)
  \o TemplateRun(KvScore, <<64, 1>>, DefaultCfg)

----------------------------------------------------------------------------
(* The MobileViT evaluation                                                *)

Manifest == Report("mobile_vit", "manifest", 0)
Predictions == Report("mobile_vit", "cpu_kick_predictions", 0)
Accuracy == Report("mobile_vit", "accuracy", 0)
EvalSummary == Report("mobile_vit", "summary", 0)
MaxRtlProxyBatch == 1024

Record(tool, reads, output) ==
  Command(tool, About(EvalTemplate, <<1, 1>>, None), reads, {output}, None)

WholeBatches(count, size) == [i \in 1..(count \div size) |-> size]
BatchSizes(count, size) ==
  [i \in 1..((count + size - 1) \div size) |->
     IF i * size <= count THEN size ELSE count % size]

(* The probe runs one state for one step; the batch is in its cfg_*        *)
(* values, and its files are named by its number and its size.             *)
ImagenetBatchPlan(index, size, seed) ==
  LET plan == HybridPlan(EvalTemplate, <<1, 1>>, <<size, seed + index - 1>>)
      F(kind, sub) == Named(kind, plan.target, <<1, 1>>, <<"imagenet_batch", sub, index, size>>)
  IN  [plan EXCEPT !.init = F("cpu_state", "init"), !.reference = F("cpu_state", "repeat"),
                   !.candidate = F("gpu_state", ""), !.initReport = F("cpu_report", "init"),
                   !.cpuReport = F("cpu_report", "repeat"),
                   !.hybridReport = F("hybrid_report", ""),
                   !.compareReport = F("compare_report", "")]

HybridBatches(size, seed) ==
  LET sizes == BatchSizes(ImageCount, size)
  IN  Each(Len(sizes), LAMBDA i : CommandPlan(ImagenetBatchPlan(i, sizes[i], seed)))

BatchReports(size) ==
  LET sizes == BatchSizes(ImageCount, size)
  IN  {ImagenetBatchPlan(i, sizes[i], 0).compareReport : i \in DOMAIN sizes}

(* load_or_generate_cpu_kick_predictions: there is no inference backend,   *)
(* and a dry run that would generate writes an empty prediction set over   *)
(* the predictions.                                                        *)
CpuKickPredictions(infer, dry) ==
  CASE ~infer -> <<>>
    [] infer /\ dry -> <<Record("plan_predictions", {Manifest}, Predictions)>>
    [] infer /\ ~dry -> <<Raise>>

(* run_hybrid_imagenet_eval, dry or not.                                   *)
HybridImagenetEval(infer, size, seed, dry) ==
  CpuKickPredictions(infer, dry)
  \o <<Record("accuracy", {Manifest, Predictions}, Accuracy)>>
  \o (IF size <= 0 \/ size > MaxRtlProxyBatch THEN <<Raise>>
      ELSE (IF dry THEN <<>> ELSE HybridBatches(size, seed))
           \o <<Record("eval_summary",
                       {Accuracy} \cup (IF dry THEN {} ELSE BatchReports(size)), EvalSummary)>>)

(* The preflight's report replaces the summary.                            *)
EvalPreflight == <<Record("preflight", {}, EvalSummary)>>

(* mobile_vit_imagenet_128_plan: the evaluation is asked to infer.         *)
MobileVitPlan ==
  <<Record("manifest", {}, Manifest)>> \o HybridImagenetEval(TRUE, 128, 1, FALSE)

----------------------------------------------------------------------------
(* The command line                                                        *)

MedianOptions ==
  {"--paged-kv-repeat-median", "--paged-kv-continuation-repeat-median",
   "--paged-kv-next-shapes-repeat-median", "--filelist-shape-breadth-repeat-median",
   "--filelist-broader-shape-repeat-median", "--filelist-broader-policy-repeat-median",
   "--repeat-median"}

(* Options that plan only: without --dry-run they are refused.             *)
PlanOnlyOptions ==
  {"--public-pack-archive", "--filelist-shape-breadth-gpu-allocation-policy",
   "--filelist-broader-shape-gpu-allocation-policy"}

(* dispatch: the first option given, in this order, takes the run.         *)
DispatchOrder ==
  <<"--public-pack-archive", "--mobile-vit-imagenet-128",
    "--persistent-resident-state-abi-shape-phase-sweep",
    "--persistent-resident-state-abi-repeat-median", "--persistent-resident-state-abi",
    "--resident-state-reuse", "--resident-batch-sweep", "--paged-kv-repeat-median",
    "--paged-kv-continuation-repeat-median", "--paged-kv-next-shapes-repeat-median",
    "--filelist-shape-breadth-repeat-median", "--filelist-broader-shape-repeat-median",
    "--filelist-broader-policy-repeat-median",
    "--filelist-shape-breadth-gpu-allocation-policy",
    "--filelist-broader-shape-gpu-allocation-policy", "--repeat-median">>

Dispatched(options) ==
  LET given == {i \in DOMAIN DispatchOrder : DispatchOrder[i] \in options}
  IN  IF given = {} THEN None ELSE DispatchOrder[First(given)]

(* The steps of a command line, None where it is refused before the first. *)
Reproduce(req) ==
  LET option == Dispatched(req.options)
  IN  CASE option = None -> ReproductionPlan
        [] option \in PlanOnlyOptions -> None
        [] option = "--mobile-vit-imagenet-128" -> MobileVitPlan
        [] option = "--persistent-resident-state-abi-shape-phase-sweep" -> ShapePhaseSweep
        [] option = "--persistent-resident-state-abi-repeat-median" ->
             IF "--persistent-resident-state-abi" \notin req.options THEN None
             ELSE PersistentRepeatMedian(req.shape, req.phases, req.repeat, "sample",
                                         RepeatSummary)
        [] option = "--persistent-resident-state-abi" ->
             PersistentProbe(req.shape, req.phases, NoTag, ProbeSummary)
        [] option = "--resident-state-reuse" -> ResidentStateReuse(req.shape, req.phases)
        [] option = "--resident-batch-sweep" -> ResidentBatchSweep(req.states, req.repeat)
        [] option \in MedianOptions -> MedianDispatch(option, req.repeat)
=============================================================================
