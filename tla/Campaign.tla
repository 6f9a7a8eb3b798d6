------------------------------ MODULE Campaign ------------------------------
(***************************************************************************)
(* A campaign: one invocation after the other of the benchmark front end,  *)
(* of results reproduction, of a template and of the MobileViT evaluation, *)
(* over the one set of files they share.  The artifacts and reports of an  *)
(* earlier invocation stay where they are; any program may fail, and the   *)
(* script then stops at once (check=True).                                 *)
(*                                                                         *)
(* files maps a file to what is in it: the tool that made it, the target,  *)
(* shape and cfg_* values its data are really of, the invocations they     *)
(* come from (runs), the invocation that wrote it (by).  A report a        *)
(* program's stdout was redirected to is truncated before it starts.       *)
(***************************************************************************)
EXTENDS Benchmark

CONSTANTS Asks,         \* the command lines to choose from
          Places,       \* the sets of files a campaign may start with
          MaxExecuted,  \* bound: invocations that run programs
          MaxPlanned,   \* bound: the others
          MaxFailures   \* bound: programs that fail for reasons of their own

ASSUME BoundsAssumption == MaxExecuted \in Nat /\ MaxPlanned \in Nat /\ MaxFailures \in Nat

VARIABLES files,    \* file -> content
          todo,     \* steps the running invocation has left
          running,  \* its number, 0 at rest
          history,  \* the command lines accepted so far
          executed, \* how many of them run programs
          outcome,  \* of the last invocation
          failures  \* programs that failed so far

campaignVars == <<files, todo, running, history, executed, outcome, failures>>

----------------------------------------------------------------------------
(* Contents                                                                *)

Blank ==
  [tool |-> "", target |-> "", shape |-> Unshaped, cfg |-> None, runs |-> {}, by |-> 0,
   parts |-> {}, whole |-> TRUE, like |-> TRUE, passed |-> TRUE, evidence |-> None]

Truncated == [Blank EXCEPT !.whole = FALSE]

Made(c) ==
  [Blank EXCEPT !.tool = c.tool, !.target = c.about.target, !.shape = c.about.shape,
                !.cfg = c.about.cfg, !.runs = {running}, !.by = running]

Builds == {"verilator", "build_host_probe", "make", "build_vl_gpu", "manifest"}
Programs == Builds \cup {"host_probe", "run_vl_hybrid", "run_vl_hybrid_phases", "compare"}

Dumps(c) == {f \in c.reads : f.kind \in {"cpu_state", "gpu_state"}}

Readable(c) == c.reads \subseteq DOMAIN files /\ \A f \in c.reads : files[f].whole

RunsOf(fs) == UNION {files[f].runs : f \in fs}

(* A launch goes on from the steps of the dump it starts with; the init    *)
(* state of a CPU counts for none.                                         *)
GpuDump(c, launches) ==
  LET start == files[CHOOSE f \in Dumps(c) : TRUE]
      done == IF start.tool = "host_probe" THEN 0 ELSE start.shape[2]
  IN  [Made(c) EXCEPT !.shape = <<c.about.shape[1], done + launches * c.about.shape[2]>>,
                      !.cfg = start.cfg, !.runs = {running} \cup start.runs]

CompareReport(c) ==
  [Made(c) EXCEPT !.runs = {running} \cup RunsOf(Dumps(c)),
                  !.like = \A f, g \in Dumps(c) : /\ files[f].target = files[g].target
                                                  /\ files[f].shape = files[g].shape
                                                  /\ files[f].cfg = files[g].cfg]

(* Phase p of a launch is dumped to the p-th file of its list.             *)
Output(c, f) ==
  CASE c.tool \in Builds -> [Made(c) EXCEPT !.runs = {}]
    [] c.tool = "host_probe" -> Made(c)
    [] c.tool = "run_vl_hybrid" -> GpuDump(c, 1)
    [] c.tool = "run_vl_hybrid_phases" -> GpuDump(c, f.tag[3])
    [] c.tool = "compare" -> CompareReport(c)

Stdout(c) == IF c.stdout = None THEN {} ELSE {c.stdout}

Outputs(c) ==
  [f \in c.writes \cup Stdout(c) |-> IF f \in c.writes THEN Output(c, f) ELSE Made(c)]

(* What is written replaces what was there, and leaves the other files.    *)
Overwritten(written) ==
  [f \in DOMAIN written \cup DOMAIN files |->
     IF f \in DOMAIN written THEN written[f] ELSE files[f]]

(* A summary is of the runs its parts are of.                              *)
Summary(c) == [Made(c) EXCEPT !.runs = RunsOf(c.reads), !.parts = c.reads]

(* An accuracy report may be claimed when every image has its prediction.  *)
ComputeAccuracy(c) == [Summary(c) EXCEPT !.passed = files[Predictions].passed]

(* coverage_output_equivalence_complete, and the claim made of it.         *)
HybridImagenetSummary(c) ==
  LET compared == c.reads \ {Accuracy}
  IN  [Summary(c) EXCEPT
         !.passed = /\ compared # {}
                    /\ \A f \in compared : files[f].passed
                    /\ files[Accuracy].passed]

ScriptReports == {"summarize", "plan_predictions", "accuracy", "eval_summary", "preflight"}

ScriptReport(c) ==
  CASE c.tool = "summarize" -> Summary(c)
    [] c.tool \in {"plan_predictions", "preflight"} -> [Made(c) EXCEPT !.passed = FALSE]
    [] c.tool = "accuracy" -> ComputeAccuracy(c)
    [] c.tool = "eval_summary" -> HybridImagenetSummary(c)

----------------------------------------------------------------------------
(* The benchmark's summary                                                 *)

Evidence(status, content) ==
  [status |-> status, target |-> content.target, shape |-> content.shape,
   phases |-> content.cfg, runs |-> content.runs, passed |-> content.passed]

(* evidence_summary: only an invocation that ran something, or that is     *)
(* asked to take what is there, has evidence.                              *)
AnyExecution(execution) == TRUE
Collects(execution) == execution \in {"executed", "existing_evidence"}

EvidenceSummary(about) ==
  LET content == files[about.report]
  IN  CASE ~Collects(about.execution) -> Evidence("not_collected", Blank)
        [] Collects(about.execution) /\ about.report \notin DOMAIN files ->
             Evidence("missing", Blank)
        [] OTHER ->
             Evidence(IF about.checked /\ ( \/ content.shape # about.asked.shape
                                            \/ content.cfg # about.asked.phases)
                      THEN "mismatched_summary" ELSE "collected", content)

(* Both reports are there, or none of them is looked at.                   *)
Observed(c) == IF c.reads \subseteq DOMAIN files THEN c.reads ELSE {}

(* A report whose run failed is an empty file, and no JSON.                *)
EstimateRaises(c) == \E f \in Observed(c) : ~files[f].whole

BenchmarkSummary(c) ==
  [Blank EXCEPT !.tool = "benchmark_summary", !.target = c.about.asked.target, !.by = running,
                !.runs = RunsOf(Observed(c)),
                !.evidence = [asked |-> c.about.asked, execution |-> c.about.execution,
                              found |-> EvidenceSummary(c.about)]]

----------------------------------------------------------------------------
(* The command lines                                                       *)

DryRun(req, steps) == IF req.dry /\ steps # None THEN <<>> ELSE steps

ReproductionSteps(req) ==
  IF req.dry /\ Dispatched(req.options) \in PlanOnlyOptions THEN <<>>
  ELSE DryRun(req, Reproduce(req))

PlannedSteps(req, plan) ==
  IF plan = None \/ (~req.dry /\ ClosureRefusesExecution(plan)) THEN None
  ELSE DryRun(req, CommandPlan(plan))

TemplateSteps(req) == PlannedSteps(req, HybridPlan(req.template, req.shape, req.cfg))

EvalSteps(req) ==
  IF req.preflight THEN EvalPreflight
  ELSE HybridImagenetEval(req.infer, req.size, req.seed, req.dry)

Steps(req) ==
  CASE req.program = "benchmark" -> RunWithArgs(req)
    [] req.program = "reproduction" -> ReproductionSteps(req)
    [] req.program = "template" -> TemplateSteps(req)
    [] req.program = "eval" -> EvalSteps(req)

(* The steps depend on the command line alone, not on what is in place.    *)
Script == [req \in Asks |-> Steps(req)]

(* What is in place before the first invocation was made by none of them:  *)
(* what is built once for a target, the images and their predictions.      *)
ASSUME PlacesAssumption ==
  \A place \in Places : \A f \in DOMAIN place :
    /\ place[f].by = 0 /\ place[f].runs = {}
    /\ place[f].tool \in Builds
    /\ f.kind \in {"model", "probe", "cubin"} \/ f \in {Manifest, Predictions}

(* Counts are integers (type=int), a shape is two of them (parse_shape),   *)
(* or the two halves that were spelled apart, of which one may be missing. *)
ASSUME AsksAssumption ==
  \A req \in Asks :
    \/ /\ req.program = "benchmark"
       /\ req.phases \in Int
       /\ \/ ResolvedShape(req.argv) = None
          \/ ResolvedShape(req.argv) \in (Int \cup {None}) \X (Int \cup {None})
    \/ /\ req.program = "reproduction"
       /\ req.phases \in Int /\ req.repeat \in Int
       /\ req.shape \in Int \X Int /\ req.states \in Seq(Int)
    \/ req.program = "template" /\ req.shape \in Int \X Int
    \/ req.program = "eval" /\ req.size \in Int

(* The templates of the registry and of the evaluation load, and the       *)
(* target of the resident modes is the one the workflows have written in   *)
(* (hybrid_benchmark_specs.py, results_reproduction_workloads.py).         *)
ASSUME TemplatesAssumption ==
  /\ \A t \in DOMAIN Registry :
       /\ Registry[t].modes \subseteq Modes
       /\ Registry[t].kind = "slice" =>
            HybridPlan(Registry[t].template, <<1, 1>>, DefaultCfg) # None
       /\ Registry[t].modes \cap ResidentModes # {} =>
            Registry[t].kind = "slice" /\ Payloads[Registry[t].template].target = Mha
  /\ Mha \in DOMAIN Payloads => Payloads[Mha].target = Mha
  /\ HybridPlan(EvalTemplate, <<1, 1>>, DefaultCfg) # None
  /\ ImageCount \in Nat

(* The cases are written in the source, with two phases or more            *)
(* (results_reproduction_persistent_summaries.py).                         *)
ASSUME CasesAssumption ==
  /\ ShapePhaseCases # <<>>
  /\ ShapePhaseCases \in Seq([id : STRING, shape : Int \X Int, phases : Nat, repeat : Nat])
  /\ \A i \in DOMAIN ShapePhaseCases :
       /\ PositiveShape(ShapePhaseCases[i].shape)
       /\ ShapePhaseCases[i].phases > 1 /\ ShapePhaseCases[i].repeat > 0

(* No option and no file is the absent one.                                *)
ASSUME OptionsAssumption == \A i \in DOMAIN DispatchOrder : DispatchOrder[i] # None

ASSUME FilesAssumption ==
  \A req \in Asks : Script[req] # None =>
    \A i \in DOMAIN Script[req] :
      LET c == Script[req][i]
      IN  /\ None \notin c.reads
          /\ c.tool = "benchmark_summary" => c.about.report # None

Executes(steps) == \E i \in DOMAIN steps : steps[i].tool \in Programs

----------------------------------------------------------------------------
(* Steps                                                                   *)

Init ==
  /\ files \in Places
  /\ todo = <<>>
  /\ running = 0
  /\ history = <<>>
  /\ executed = 0
  /\ outcome = "none"
  /\ failures = 0

AtRest == running = 0
Current == Head(todo)

WithinBounds(steps) ==
  IF Executes(steps) THEN executed < MaxExecuted ELSE Len(history) - executed < MaxPlanned

(* The script checks what it can before its first step.                    *)
Accept(req, steps) ==
  /\ AtRest
  /\ steps # None
  /\ WithinBounds(steps)
  /\ history' = Append(history, req)
  /\ executed' = executed + IF Executes(steps) THEN 1 ELSE 0
  /\ running' = Len(history')
  /\ todo' = steps
  /\ outcome' = "running"
  /\ UNCHANGED <<files, failures>>

Refuse(steps) ==
  /\ AtRest
  /\ steps = None
  /\ outcome' = "error"
  /\ UNCHANGED <<files, todo, running, history, executed, failures>>

Answer(req, steps) == Accept(req, steps) \/ Refuse(steps)

InProgress == ~AtRest /\ todo # <<>>

Proceed == todo' = Tail(todo) /\ UNCHANGED <<running, history, executed, outcome>>

Stop(result) == todo' = <<>> /\ running' = 0 /\ outcome' = result
                /\ UNCHANGED <<history, executed>>

RunProgram ==
  /\ InProgress
  /\ Current.tool \in Programs
  /\ Readable(Current)
  /\ files' = Overwritten(Outputs(Current))
  /\ Proceed
  /\ UNCHANGED failures

(* The comparison writes its report and then exits with its verdict.       *)
RejectCompare ==
  /\ InProgress
  /\ Current.tool = "compare"
  /\ Readable(Current)
  /\ failures < MaxFailures
  /\ failures' = failures + 1
  /\ files' = Overwritten([f \in Current.writes |->
                             [CompareReport(Current) EXCEPT !.passed = FALSE]])
  /\ Stop("error")

(* A program fails before it writes what it was to write, but its report   *)
(* was opened for it.                                                      *)
ProgramFails ==
  /\ InProgress
  /\ Current.tool \in Programs
  /\ ~Readable(Current) \/ failures < MaxFailures
  /\ failures' = IF Readable(Current) THEN failures + 1 ELSE failures
  /\ files' = Overwritten([f \in Stdout(Current) |-> Truncated])

FailUnchecked == ProgramFails /\ Proceed
FailProgram == ProgramFails /\ Stop("error")

WriteReport ==
  /\ InProgress
  /\ Current.tool \in ScriptReports
  /\ Readable(Current)
  /\ files' = Overwritten([f \in Current.writes |-> ScriptReport(Current)])
  /\ Proceed
  /\ UNCHANGED failures

WriteBenchmarkSummary ==
  /\ InProgress
  /\ Current.tool = "benchmark_summary"
  /\ ~EstimateRaises(Current)
  /\ files' = Overwritten([f \in Current.writes |-> BenchmarkSummary(Current)])
  /\ Proceed
  /\ UNCHANGED failures

MakeEstimate ==
  /\ InProgress
  /\ Current.tool = "estimate"
  /\ ~EstimateRaises(Current)
  /\ Proceed
  /\ UNCHANGED <<files, failures>>

(* What the script reads is missing or is no JSON, or the step is none.    *)
ScriptRaises ==
  /\ InProgress
  /\ \/ Current.tool = "raise"
     \/ Current.tool \in ScriptReports /\ ~Readable(Current)
     \/ Current.tool \in {"estimate", "benchmark_summary"} /\ EstimateRaises(Current)
  /\ Stop("error")
  /\ UNCHANGED <<files, failures>>

(* The plan was printed, and it is not ready.                              *)
ExitsNotReady ==
  /\ InProgress
  /\ Current.tool = "not_ready"
  /\ Stop("not_ready")
  /\ UNCHANGED <<files, failures>>

Finish ==
  /\ ~AtRest
  /\ todo = <<>>
  /\ Stop("done")
  /\ UNCHANGED <<files, failures>>

Next ==
  \/ \E req \in Asks : Answer(req, Script[req])
  \/ RunProgram
  \/ RejectCompare
  \/ FailProgram
  \/ WriteReport
  \/ WriteBenchmarkSummary
  \/ MakeEstimate
  \/ ScriptRaises
  \/ ExitsNotReady
  \/ Finish

CampaignSpec == Init /\ [][Next]_campaignVars

----------------------------------------------------------------------------
(* Properties                                                              *)

Here == DOMAIN files

(* Whatever is run, a report or dump that is there is about some number of *)
(* states and of steps, and is of invocations that were made.              *)
TypeOK ==
  /\ running \in 0..Len(history)
  /\ todo # <<>> => running = Len(history)
  /\ executed \in 0..MaxExecuted
  /\ failures \in 0..MaxFailures
  /\ outcome \in {"none", "running", "error", "not_ready", "done"}
  /\ \A f \in Here :
       /\ files[f].by \in 0..Len(history)
       /\ files[f].runs \subseteq 0..Len(history)
       /\ files[f].tool \in {"host_probe", "run_vl_hybrid", "run_vl_hybrid_phases", "compare"} =>
            PositiveShape(files[f].shape)

(* Every comparison in place is of two dumps of the same target, for the   *)
(* same number of states, the same number of steps in all and the same     *)
(* cfg_* values: no workflow compares a phase, a sample or a batch with    *)
(* the reference of another, whatever the invocations before it left.      *)
ComparedLikeWithLike ==
  \A f \in Here : files[f].tool = "compare" => files[f].like

(* A one-phase probe of the persistent ABI is dumped by nobody: what is    *)
(* compared, if anything is there, is an older dump of the first phase.    *)
SinglePhaseProbe(req) ==
  \/ /\ req.program = "benchmark"
     /\ req.mode = "persistent-resident-state-abi"
     /\ req.phases = 1
  \/ /\ req.program = "reproduction"
     /\ "--persistent-resident-state-abi" \in req.options
     /\ req.phases = 1

(* The dumps, the reports and the summaries made of them that an           *)
(* invocation leaves are of its own runs: nothing of an earlier invocation,*)
(* complete or broken off, gets into them, although the names are shared.  *)
ReportsAreOfOneRun ==
  \A f \in Here :
    /\ files[f].by > 0
    /\ files[f].tool \in {"host_probe", "run_vl_hybrid", "run_vl_hybrid_phases", "compare",
                          "summarize"}
    /\ ~SinglePhaseProbe(history[files[f].by])
    => files[f].runs = {files[f].by}

(* The summary of an invocation that is said to have executed, with        *)
(* evidence collected, is of reports this invocation wrote: a stage that   *)
(* failed cannot be covered by the reports of an earlier run.              *)
ExecutedSummaryIsFresh ==
  \A f \in Here :
    LET s == files[f]
    IN  /\ s.tool = "benchmark_summary"
        /\ s.evidence.execution = "executed"
        /\ s.evidence.found.status = "collected"
        /\ ~SinglePhaseProbe(history[s.by])
        => s.evidence.found.runs = {s.by} /\ s.runs \subseteq {s.by}

(* Evidence that counts as collected is of the target, the shape and the   *)
(* phases the summary was asked for, although the aggregates have one name *)
(* for all of them.                                                        *)
EvidenceIsOfTheRequest ==
  \A f \in Here :
    LET s == files[f]
    IN  s.tool = "benchmark_summary" /\ s.evidence.found.status = "collected" =>
          LET asked == s.evidence.asked
              slice == Registry[asked.target].kind = "slice"
          IN  /\ slice => /\ s.evidence.found.target =
                               Payloads[Registry[asked.target].template].target
                          /\ s.evidence.found.shape = asked.shape
              /\ asked.mode # "template" => s.evidence.found.phases = asked.phases

(* An invocation that only plans, prints or checks leaves every model,     *)
(* dump and report as it was: what it may write is its own summary, and    *)
(* that claims no evidence.                                                *)
Planning(req) ==
  \/ req.program \in {"template", "reproduction"} /\ req.dry
  \/ /\ req.program = "benchmark"
     /\ req.modes \cap ({"--dry-run", "--preflight"} \cup PrintModes) # {}

DryRunsAreNoEvidence ==
  [][running > 0 /\ Planning(history[running]) =>
       /\ \A f \in Here : f \in DOMAIN files' /\ ( \/ files'[f] = files[f]
                                                   \/ files'[f].tool = "benchmark_summary")
       /\ \A f \in DOMAIN files' :
            files'[f].by = running =>
              /\ files'[f].tool = "benchmark_summary"
              /\ files'[f].evidence.found.status = "not_collected"]_campaignVars

(* An evaluation is claimed only when its predictions were complete and    *)
(* every image was in a batch that ran and compared equal.                 *)
ClaimsAreBacked ==
  \A f \in Here :
    files[f].tool = "eval_summary" /\ files[f].passed =>
      LET batches == files[f].parts \ {Accuracy}
      IN  /\ MapThenSumSet(LAMBDA b : b.tag[4], batches) = ImageCount
          /\ Accuracy \in files[f].parts

(* Whatever the mode and the flags, a benchmark of a slice runs, writes    *)
(* and compares nothing but the target its template names.                 *)
RunsTheAskedTarget ==
  \A f \in Here :
    LET by == files[f].by
    IN  /\ by > 0
        /\ history[by].program = "benchmark"
        /\ Registry[history[by].target].kind = "slice"
        /\ files[f].whole
        => \/ files[f].target = Payloads[Registry[history[by].target].template].target
           \/ files[f].tool = "benchmark_summary"
=============================================================================
