------------------------------ MODULE Rtlmeter ------------------------------
(***************************************************************************)
(* RTLMeter and the sidecar: the wrapper named `verilator' that RTLMeter   *)
(* finds in PATH (rtlmeter_verilator_wrapper_runtime.py), the handoff and  *)
(* launcher metadata it derives (rtlmeter_sidecar_handoff.py), and the     *)
(* CPU/GPU compare that runs RTLMeter twice                                *)
(* (rtlmeter_cpu_gpu_compare_integration.py).                              *)
(*                                                                         *)
(* RTLMeter itself and the real Verilator are not in the repository: a     *)
(* run of RTLMeter calls the `verilator' its PATH selects with the command *)
(* line the capture describes; when that call succeeds it may execute the  *)
(* simulator, leaving the transcript and the cycle count of this run.      *)
(*                                                                         *)
(* A `verilator' is named by its directory.  "script" is the wrapper       *)
(* write_rtlmeter_verilator_wrapper installs; it execs the runtime module, *)
(* whose argv[0] then is that module and not the script.  "link" is a link *)
(* to the runtime module, whose argv[0] is the link itself.                *)
(***************************************************************************)
EXTENDS SidecarArgs, FiniteSets

CONSTANTS
  Dirs,             \* directories that may hold a `verilator'
  ArtifactDir,      \* artifacts/.../wrapper, where the default wrapper goes
  Installations,    \* what the directories may hold at first
  Environments,     \* the environments a user calls from
  Requests,         \* [execute, writeReport, seed, compileArgs]
  Calls,            \* [argv, context]: direct calls of the wrapper
  Descriptors,      \* design -> None or [configs |-> config -> [top, clock, args]]
  TemplateTarget,   \* template -> the target it names, or None if unreadable
  Observables,      \* transcripts with their cycle counts
  MaxRuns           \* bounds the calls and integration runs of a behaviour

Kinds == {"real", "script", "link", "absent"}

ASSUME InstallationsAssumption ==
  /\ ArtifactDir \in Dirs
  /\ Installations \subseteq [Dirs -> Kinds]
  /\ \A k \in Installations : k[ArtifactDir] \in {"absent", "script"}

ASSUME EnvironmentsAssumption ==
  /\ None \notin Dirs
  /\ \A e \in Environments :
       /\ e.path \in Seq(Dirs)
       /\ e.real \in Dirs \cup {None}
       /\ e.wrapper \in Dirs \cup {None}
  /\ MaxRuns \in Nat

VARIABLES
  kind,        \* Dirs -> Kinds: the `verilator' of each directory
  env,         \* the caller's environment: path, real, wrapper, optIn
  phase,       \* where the integration is; "idle" and "crashed" between runs
  request,     \* the integration's request
  call,        \* the running `verilator': [file, stage, argv, path, context]; NoCall
  code,        \* the exit status of the last call, or None
  observed,    \* what each role's execute directory holds, and of which run
  report,      \* the integration's last report: [run, status]
  handoff,     \* the metadata the wrapper last printed, or None
  invocation,  \* the launcher command last materialized, or None
  runs         \* calls and integration runs so far

NoCall == [file |-> None, stage |-> "none", argv |-> <<>>, path |-> <<>>, context |-> None]

Running == call.stage # "none"

vars == <<kind, env, phase, request, call, code, observed, report, handoff, invocation, runs>>

----------------------------------------------------------------------------
(* Capturing RTLMeter's command line (rtlmeter_verilator_command_capture)  *)

Captures(seed) ==
  /\ seed.design \in DOMAIN Descriptors
  /\ Descriptors[seed.design] # None
  /\ seed.config \in DOMAIN Descriptors[seed.design].configs
  /\ Descriptors[seed.design].configs[seed.config].top # None
  /\ Descriptors[seed.design].configs[seed.config].clock # None

CommandLine(seed, extraArgs) ==
  LET config == Descriptors[seed.design].configs[seed.config]
  IN  <<Option("--cc", ""), Option("--top-module", config.top), Option("-f", "filelist")>>
        \o config.args \o extraArgs

(* The context the integration hands to the wrapper: no template, and its  *)
(* source files are not a closure.                                         *)
ContextCandidate(seed) ==
  [target |-> seed.design, template |-> None, closure |-> "incomplete", rest |-> TRUE]

----------------------------------------------------------------------------
(* The handoff metadata                                                    *)

RequiredContext == {"target", "template", "closure", "rest"}

ContextField(context, field) ==
  CASE field = "target" -> context.target # None
    [] field = "template" -> context.template # None
    [] field = "closure" -> context.closure = "complete"
    [] field = "rest" -> context.rest

MissingContext(argv, context) ==
  {f \in RequiredContext : context = None \/ ~ContextField(context, f)}
    \cup (IF Parse(argv) = None \/ Parse(argv).mdir = None THEN {"mdir"} ELSE {})

Handoff(argv, context) ==
  LET ready == Inspect(argv) = "planning" /\ Schedule(argv) # None
  IN  [status |-> CASE ready /\ MissingContext(argv, context) = {} -> "metadata_ready"
                    [] ready /\ MissingContext(argv, context) # {} -> "blocked"
                    [] OTHER -> "unsupported",
       schedule |-> Schedule(argv),
       parser |-> Parse(argv),
       context |-> context]

(* fail_closed_report has handoff metadata only for an expanded schedule.  *)
FailClosedReport(argv, context) ==
  IF Inspect(argv) = "planning" THEN Handoff(argv, context) ELSE None

LauncherReady(h) ==
  /\ h.status = "metadata_ready"
  /\ h.schedule # None
  /\ h.context # None
  /\ h.context.target # None
  /\ h.context.template \in DOMAIN TemplateTarget
  /\ TemplateTarget[h.context.template] = h.context.target

LauncherInvocation(h) ==
  IF LauncherReady(h) THEN [template |-> h.context.template, shape |-> h.schedule] ELSE None

----------------------------------------------------------------------------
(* Which `verilator' a name stands for                                     *)

Executable(dir) == kind[dir] # "absent"

(* shutil.which, and the search the shell does.                            *)
Which(path) ==
  LET found == {i \in DOMAIN path : Executable(path[i])}
  IN  IF found = {} THEN None ELSE path[First(found)]

(* _same_path(candidate, argv[0]): a script's argv[0] is the runtime       *)
(* module, so that what the test excludes are the links to that module.    *)
NoneIsWrapper(dir) == FALSE
SameAsWrapper(dir) == kind[dir] = "link"

ResolveRealVerilator(path) ==
  IF env.real # None
  THEN IF Executable(env.real) /\ ~SameAsWrapper(env.real) THEN env.real ELSE None
  ELSE LET others == {i \in DOMAIN path : Executable(path[i]) /\ ~SameAsWrapper(path[i])}
       IN  IF others = {} THEN None ELSE path[First(others)]

----------------------------------------------------------------------------
Init ==
  /\ env \in Environments
  /\ kind \in Installations
  /\ phase = "idle"
  /\ request = None
  /\ call = NoCall
  /\ code = None
  /\ observed = [role \in {"cpu", "gpu"} |-> [run |-> 0, value |-> None]]
  /\ report = [run |-> 0, status |-> "none"]
  /\ handoff = None
  /\ invocation = None
  /\ runs = 0

Started(file, argv, path, context) ==
  call' = [file |-> file, stage |-> "exec", argv |-> argv, path |-> path, context |-> context]

AtRest == phase \in {"idle", "crashed"} /\ ~Running

(* A user, or a build of his, calls `verilator'.                           *)
CallVerilator(c) ==
  /\ AtRest /\ runs < MaxRuns
  /\ Which(env.path) # None
  /\ Started(Which(env.path), c.argv, env.path, c.context)
  /\ code' = None
  /\ runs' = runs + 1
  /\ UNCHANGED <<kind, env, phase, request, observed, report, handoff, invocation>>

IsWrapper(file) == kind[file] \in {"script", "link"}

(* The script, or the link, becomes the runtime module.                    *)
StartRuntime ==
  /\ call.stage = "exec" /\ IsWrapper(call.file)
  /\ call' = [call EXCEPT !.stage = "runtime"]
  /\ UNCHANGED <<kind, env, phase, request, code, observed, report, handoff, invocation, runs>>

InRuntime == call.stage = "runtime"

DelegateUnresolved ==
  /\ InRuntime
  /\ Inspect(call.argv) = "delegate"
  /\ call' = [call EXCEPT !.file = ResolveRealVerilator(call.path), !.stage = "exec"]
  /\ code' = code
  /\ UNCHANGED <<kind, env, phase, request, observed, report, handoff, invocation, runs>>

(* The wrapper: without GPU intent it becomes the real Verilator, whose    *)
(* status it returns; 127 when it finds none.                              *)
Delegate ==
  /\ InRuntime
  /\ Inspect(call.argv) = "delegate"
  /\ LET found == ResolveRealVerilator(call.path)
     IN  IF found = None
         THEN call' = NoCall /\ code' = 127
         ELSE call' = [call EXCEPT !.file = found, !.stage = "exec"] /\ code' = code
  /\ UNCHANGED <<kind, env, phase, request, observed, report, handoff, invocation, runs>>

(* With GPU intent it prints its diagnostic and fails.                     *)
FailClosed ==
  /\ InRuntime
  /\ Inspect(call.argv) # "delegate"
  /\ handoff' = FailClosedReport(call.argv, call.context)
  /\ call' = NoCall
  /\ code' = 2
  /\ UNCHANGED <<kind, env, phase, request, observed, report, invocation, runs>>

(* The real Verilator compiles, or refuses; a run of RTLMeter then         *)
(* executes the simulator and leaves its observables.                      *)
RealVerilator(status, value) ==
  /\ call.stage = "exec" /\ kind[call.file] = "real"
  /\ observed' = IF phase \in {"cpu", "gpu"} /\ status = 0
                 THEN [observed EXCEPT ![phase] = [run |-> runs, value |-> value]]
                 ELSE observed
  /\ call' = NoCall
  /\ code' = status
  /\ UNCHANGED <<kind, env, phase, request, report, handoff, invocation, runs>>

Materialize ==
  /\ ~Running /\ handoff # None
  /\ invocation' = LauncherInvocation(handoff)
  /\ UNCHANGED <<kind, env, phase, request, call, code, observed, report, handoff, runs>>

----------------------------------------------------------------------------
(* run_rtlmeter_cpu_gpu_compare_integration                                *)

Enabled(req) == req.execute \/ env.optIn

Conclude(run, status) ==
  /\ report' = [run |-> run, status |-> status]
  /\ phase' = "idle"

Begin(req) ==
  /\ AtRest /\ runs < MaxRuns
  /\ request' = req
  /\ runs' = runs + 1
  /\ code' = None
  /\ CASE ~Enabled(req) -> Conclude(runs', "opt_in_required")
       [] Enabled(req) /\ ~Captures(req.seed) -> Conclude(runs', "cannot_execute")
       [] OTHER -> phase' = "install" /\ UNCHANGED report
  /\ UNCHANGED <<kind, env, call, observed, handoff, invocation>>

SidecarWrapper == IF env.wrapper # None THEN env.wrapper ELSE ArtifactDir

(* The default wrapper is written once the command line is captured; only  *)
(* then the preflight looks for the two `verilator's.                      *)
InstallWrapper ==
  /\ phase = "install"
  /\ kind' = IF env.wrapper # None THEN kind ELSE [kind EXCEPT ![ArtifactDir] = "script"]
  /\ phase' = "preflight"
  /\ UNCHANGED <<env, request, call, code, observed, report, handoff, invocation, runs>>

Preflight ==
  /\ phase = "preflight"
  /\ IF Which(env.path) # None /\ Executable(SidecarWrapper)
     THEN /\ phase' = "cpu"
          /\ Started(Which(env.path), CommandLine(request.seed, <<>>), env.path, None)
          /\ UNCHANGED report
     ELSE Conclude(runs, "cannot_execute") /\ UNCHANGED call
  /\ UNCHANGED <<kind, env, request, code, observed, handoff, invocation, runs>>

CallerPath == env.path
GpuPath == <<SidecarWrapper>> \o env.path

CpuStatusUnread ==
  /\ phase = "cpu" /\ ~Running
  /\ phase' = "gpu"
  /\ Started(Which(GpuPath), CommandLine(request.seed, request.compileArgs), GpuPath,
             ContextCandidate(request.seed))
  /\ code' = None
  /\ UNCHANGED <<kind, env, request, observed, report, handoff, invocation, runs>>

CpuReturns ==
  /\ phase = "cpu" /\ ~Running
  /\ IF code # 0
     THEN Conclude(runs, "cpu_execution_failed") /\ UNCHANGED <<call, code>>
     ELSE /\ phase' = "gpu"
          /\ Started(Which(GpuPath), CommandLine(request.seed, request.compileArgs), GpuPath,
                     ContextCandidate(request.seed))
          /\ code' = None
          /\ UNCHANGED report
  /\ UNCHANGED <<kind, env, request, observed, handoff, invocation, runs>>

(* A seed without its test has no directories: once both runs are done     *)
(* _split_seed raises, as does the reading of a transcript that is not     *)
(* there, and no report is made.                                           *)
Unreadable ==
  \/ request.seed.test = None
  \/ code = 0 /\ \E role \in {"cpu", "gpu"} : observed[role].run = 0

GpuReturns ==
  /\ phase = "gpu" /\ ~Running
  /\ IF Unreadable
     THEN phase' = "crashed" /\ UNCHANGED report
     ELSE Conclude(runs,
                   CASE code # 0 -> "gpu_execution_failed"
                     [] code = 0 /\ observed["cpu"].value = observed["gpu"].value -> "passed"
                     [] OTHER -> "failed")
  /\ UNCHANGED <<kind, env, request, call, code, observed, handoff, invocation, runs>>

----------------------------------------------------------------------------
Returns == \E status \in {0, 1}, value \in Observables : RealVerilator(status, value)

Next ==
  \/ \E c \in Calls : CallVerilator(c)
  \/ StartRuntime
  \/ Delegate
  \/ FailClosed
  \/ Returns
  \/ Materialize
  \/ \E req \in Requests : Begin(req)
  \/ InstallWrapper
  \/ Preflight
  \/ CpuReturns
  \/ GpuReturns

Spec == Init /\ [][Next]_vars

(* Processes that have started get to run.                                 *)
ProcessesRun ==
  /\ WF_vars(StartRuntime) /\ WF_vars(Delegate)
  /\ WF_vars(FailClosed) /\ WF_vars(Returns)
  /\ WF_vars(InstallWrapper) /\ WF_vars(Preflight)
  /\ WF_vars(CpuReturns) /\ WF_vars(GpuReturns)

FairSpec == Spec /\ ProcessesRun

----------------------------------------------------------------------------
Phases == {"idle", "install", "preflight", "cpu", "gpu", "crashed"}

(* Every variable stays in its domain: the files of `verilator', the call  *)
(* that runs, and the run whose observables a directory holds.             *)
TypeOK ==
  /\ kind \in [Dirs -> Kinds]
  /\ phase \in Phases
  /\ Running => call.file \in Dirs
  /\ runs \in 0..MaxRuns
  /\ \A role \in {"cpu", "gpu"} : observed[role].run \in 0..runs
  /\ report.run \in 0..runs

(* A comparison that passed compared what RTLMeter left in this run, in    *)
(* both directories, and not what an earlier run had left in one of them.  *)
PassedComparesThisRun ==
  report.status = "passed" /\ report.run = runs =>
    \A role \in {"cpu", "gpu"} : observed[role].run = runs

(* "CPU execution is never reported as GPU execution": a comparison whose  *)
(* compile arguments ask for the GPU does not pass while the wrapper only  *)
(* captures such requests, whatever is in PATH and in the environment.     *)
GpuIntentNeverPasses ==
  /\ report.status = "passed" /\ report.run = runs
  /\ phase = "idle"
  /\ IsWrapper(SidecarWrapper)
  => ~GpuIntent(CommandLine(request.seed, request.compileArgs))

(* The wrapper and the parser stub read the same command line, each in its *)
(* own way: handoff metadata that is ready carries one schedule, and the   *)
(* launcher command that is made of it runs that schedule on a template of *)
(* the target the context names.                                           *)
ReadersAgree ==
  /\ handoff # None /\ handoff.status = "metadata_ready" =>
       /\ handoff.parser # None
       /\ handoff.schedule = handoff.parser.shape
       /\ PositiveShape(handoff.schedule)
  /\ invocation # None =>
       \E c \in Calls :
         /\ invocation.shape = ParserPayload(c.argv).shape
         /\ c.context # None
         /\ c.context.closure = "complete"
         /\ TemplateTarget[invocation.template] = c.context.target

(* A call of the wrapper ends, when the wrapper cannot take itself for the *)
(* real Verilator: the caller names the real one, or no script is          *)
(* installed, only links, which the search leaves out.                     *)
Distinguished ==
  \/ env.real # None /\ kind[env.real] = "real"
  \/ env.real = None /\ \A dir \in Dirs : kind[dir] # "script"

DelegationEnds == (Running /\ Distinguished) ~> ~Running

(* "no executable real Verilator was found after excluding the wrapper     *)
(* itself": every call of the wrapper ends, with the status of the real    *)
(* Verilator or with 127.                                                  *)
WrapperReturns == Running ~> ~Running
=============================================================================
