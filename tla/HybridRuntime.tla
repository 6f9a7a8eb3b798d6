---------------------------- MODULE HybridRuntime ----------------------------
(***************************************************************************)
(* One run of the hybrid simulator: the launcher (Launcher) starts         *)
(* src/src/hybrid/run_vl_hybrid.c, whose main reads the environment,       *)
(* initialises the device memory, issues every step on the default stream  *)
(* and dumps the memory.  The device (DeviceMemory) works off the stream   *)
(* at its own pace; the host waits for it only where the code calls        *)
(* cuCtxSynchronize or copies memory back.                                 *)
(*                                                                         *)
(* A patch script is given as the steps it spells: that load_patch_script  *)
(* returns blocks which, walked in order, are those steps is the subject   *)
(* of module PatchScript.                                                  *)
(* The device-global dumps and the stack limit are left out.               *)
(***************************************************************************)
EXTENDS Request

CONSTANTS
  Launches,       \* [via : {"launcher", "direct"}, args, ambient]
  PatchKernelName,     \* vl_apply_patch_schedule_gpu
  ReplicateKernelName, \* vl_replicate_init_state_gpu
  Exported,       \* kernels the cubin exports
  MaxTiming,      \* 64 repetitions
  MaxPhases,      \* MAX_PERSISTENT_RESIDENT_PHASES
  DumpPaths,      \* files a run may write
  Old,            \* what a file holds before the run
  Partial         \* what a failed write leaves

PatchLists == Seq(PatchRecords)
InitFiles ==
  [size : {"total"}, data : Images] \cup [size : {"storage", "other"}, data : StateImages]

Given(S) == {Unset} \cup S

ArgsType ==
  [ patches : PatchLists, script : Given(Seq(PatchLists) \ {<<>>}), resident : BOOLEAN,
    handle : BOOLEAN, phase : Given(Int), phases : Given(Int),
    dumps : Given(Seq(DumpPaths)), init : Given(InitFiles), replicate : BOOLEAN,
    timing : Int, steps : Nat, dumpState : Given(DumpPaths),
    kernels : Given(Seq(EvalKernels)) ]

EnvType ==
  [ kernels : Given(Seq(EvalKernels)), dumpState : Given(DumpPaths),
    script : Given(Seq(PatchLists) \ {<<>>}), resident : BOOLEAN, replicate : BOOLEAN,
    timing : Given(Int), handle : BOOLEAN, phase : Given(Int), count : Given(Int),
    dumps : Given(Seq(DumpPaths)), init : Given(InitFiles),
    sync : BOOLEAN, warmup : BOOLEAN ]

ASSUME LaunchesAssumption ==
  Launches \subseteq [via : {"launcher", "direct"}, args : ArgsType, ambient : EnvType]
ASSUME KernelsAssumption ==
  DefaultKernel \in EvalKernels /\ LaunchSequence \in Given(Seq(EvalKernels))
ASSUME UnsetAssumption ==
  Unset \notin Int /\ Unset \notin Seq(EvalKernels) /\ Unset \notin Seq(DumpPaths)
ASSUME FilesAssumption == Old \notin Images
ASSUME BoundsAssumption == MaxTiming \in Nat \ {0} /\ MaxPhases \in Nat \ {0}

VARIABLES
  launch,    \* the invocation
  env,       \* the environment of the runtime
  stage,     \* where main is
  script,    \* script_blocks: the steps the host walks, <<>> for NULL
  schedule,  \* resident_patch_schedule, <<>> when there is none
  steps,     \* steps of a phase
  kernels,   \* the kernel chain of a step
  mem,       \* device storage
  stream,    \* operations issued and not finished
  ran,       \* threads of the head of the stream that are through
  repeat,    \* timing repetitions begun
  phase,     \* phase_idx
  step,      \* steps issued in this phase
  timed,     \* history: steps between the timing events of this repetition
  launches,  \* timing_launch_count
  files      \* contents of the dump files

config == <<launch, env, script, schedule, steps, kernels>>
device == <<mem, stream, ran>>
progress == <<repeat, phase, step, timed>>
outputs == <<launches, files>>
vars == <<config, stage, device, progress, outputs>>

args == launch.args

----------------------------------------------------------------------------
(* The settings main derives from its environment.                         *)
Timing == IF env.timing = Unset THEN 1 ELSE env.timing

Persistent == env.handle

PhaseCount == IF Persistent /\ env.count # Unset THEN env.count ELSE 1

PhaseDumps == IF Persistent /\ env.dumps # Unset THEN env.dumps ELSE <<>>

PersistentSettingsAccepted ==
  Persistent =>
    /\ env.resident
    /\ env.phase # Unset
    /\ env.phase > 0
    /\ PhaseCount \in 1 .. MaxPhases
    /\ env.phase > 1 => PhaseCount > 1
    /\ PhaseDumps # <<>> => Len(PhaseDumps) = PhaseCount

SettingsAccepted == Timing \in 1 .. MaxTiming /\ PersistentSettingsAccepted

(* Combinations main refuses once the script is loaded.                    *)
ModesAccepted(hasScript) ==
  /\ ~(env.resident /\ args.patches # <<>>)
  /\ Timing > 1 =>
       ~(env.resident \/ args.patches # <<>> \/ hasScript \/ env.init # Unset)
  /\ Persistent /\ PhaseCount > 1 => args.patches = <<>> /\ ~hasScript /\ Timing = 1

NeededKernels(chain) ==
  ToSet(chain)
    \cup (IF env.resident /\ script # <<>> THEN {PatchKernelName} ELSE {})
    \cup (IF env.replicate THEN {ReplicateKernelName} ELSE {})

----------------------------------------------------------------------------
Init ==
  /\ launch \in Launches
  /\ env = launch.ambient
  /\ stage = "cli"
  /\ script = <<>>
  /\ schedule = <<>>
  /\ steps = 1
  /\ kernels = <<>>
  /\ mem = Zero
  /\ stream = <<>>
  /\ ran = {}
  /\ repeat = 0
  /\ phase = 0
  /\ step = 0
  /\ timed = 0
  /\ launches = 0
  /\ files = [p \in DumpPaths |-> Old]

(* run_vl_hybrid.py, or a caller who sets the same variables by hand and   *)
(* runs the binary directly.                                               *)
Launch ==
  /\ stage = "cli"
  /\ IF launch.via = "launcher" /\ ~ArgsAccepted(args)
       THEN stage' = "failed" /\ UNCHANGED env
       ELSE stage' = "settings" /\ env' = EnvOf(args, launch.ambient)
  /\ UNCHANGED <<launch, script, schedule, steps, kernels, device, progress, outputs>>

CheckSettings ==
  /\ stage = "settings"
  /\ stage' = IF SettingsAccepted THEN "script" ELSE "failed"
  /\ steps' = IF args.steps > 0 THEN args.steps ELSE 1
  /\ UNCHANGED <<launch, env, script, schedule, kernels, device, progress, outputs>>

LoadScript ==
  /\ stage = "script"
  /\ IF env.script = Unset
       THEN UNCHANGED <<script, steps>>
       ELSE script' = env.script /\ steps' = Len(script')
  /\ stage' = IF ModesAccepted(env.script # Unset) THEN "kernels" ELSE "failed"
  /\ UNCHANGED <<launch, env, schedule, kernels, device, progress, outputs>>

KernelChain == IF env.kernels \in {Unset, <<>>} THEN <<DefaultKernel>> ELSE env.kernels

ResolveKernels ==
  /\ stage = "kernels"
  /\ kernels' = KernelChain
  /\ stage' = IF NeededKernels(KernelChain) \subseteq Exported THEN "alloc" ELSE "failed"
  /\ UNCHANGED <<launch, env, script, schedule, steps, device, progress, outputs>>

Allocate ==
  /\ stage = "alloc"
  /\ stream' = Append(stream, Memset)
  /\ stage' = "init"
  /\ UNCHANGED <<config, mem, ran, progress, outputs>>

(* The init file must be an image of one state or of all of them.          *)
InitFitsTotal == env.init # Unset /\ env.init.size = "total"
InitFitsState == env.init # Unset /\ env.init.size = "storage"
OnDevice == env.replicate /\ NStates > 1

InitOperations ==
  CASE env.init = Unset -> <<>>
    [] InitFitsTotal -> <<Upload(env.init.data)>>
    [] InitFitsState /\ OnDevice -> <<ReplicateKernel(env.init.data)>>
    [] OTHER -> [s \in 1 .. NStates |-> UploadState(s - 1, env.init.data)]

UploadInitState ==
  /\ stage = "init"
  /\ IF env.init = Unset \/ InitFitsTotal \/ InitFitsState
       THEN /\ stream' = stream \o InitOperations
            /\ stage' = IF InitFitsState /\ OnDevice THEN "initsync" ELSE "schedule"
       ELSE /\ stage' = "failed"
            /\ UNCHANGED stream
  /\ UNCHANGED <<config, mem, ran, progress, outputs>>

InitSynchronized ==
  /\ stage = "initsync"
  /\ stream = <<>>
  /\ stage' = "schedule"
  /\ UNCHANGED <<config, device, progress, outputs>>

(* A resident run turns the script into a schedule, checks all its offsets *)
(* and forgets the script.                                                 *)
OffsetsInStorage(patches) == \A i \in DOMAIN patches : patches[i].off < Total

ScriptKept == script
ScriptForgotten == <<>>

BuildSchedule ==
  /\ stage = "schedule"
  /\ IF env.resident /\ script # <<>>
       THEN IF \A i \in DOMAIN script : OffsetsInStorage(script[i])
              THEN schedule' = script /\ script' = ScriptForgotten /\ stage' = "repeat"
              ELSE stage' = "failed" /\ UNCHANGED <<script, schedule>>
       ELSE stage' = "repeat" /\ UNCHANGED <<script, schedule>>
  /\ UNCHANGED <<launch, env, steps, kernels, device, progress, outputs>>
----------------------------------------------------------------------------
(* The launch loop.                                                        *)
Evaluations == [k \in DOMAIN kernels |-> EvalKernel(kernels[k])]

ClearForRepeat == IF Timing > 1 THEN <<Memset>> ELSE <<>>

BeginRepeat ==
  /\ stage = "repeat"
  /\ stream' = stream \o ClearForRepeat \o (IF env.warmup THEN Evaluations ELSE <<>>)
  /\ repeat' = repeat + 1
  /\ phase' = 0
  /\ step' = 0
  /\ timed' = 0
  /\ stage' = IF env.warmup THEN "warmup" ELSE "loop"
  /\ UNCHANGED <<config, mem, ran, outputs>>

WarmedUp ==
  /\ stage = "warmup"
  /\ stream = <<>>
  /\ stage' = "loop"
  /\ UNCHANGED <<config, device, progress, outputs>>

(* Phases exist only on the path that does not synchronise each step and   *)
(* does not walk a script.                                                 *)
Phased == ~env.sync /\ script = <<>> /\ PhaseCount > 1

StepsOfPhase == IF script # <<>> THEN Len(script) ELSE steps

(* Step i of the run counted from 0 (logical_step_index).                  *)
LogicalStep == phase * steps + step

ScriptPatches == IF script # <<>> THEN script[step + 1] ELSE <<>>

ScheduledPatches ==
  IF LogicalStep < Len(schedule) THEN schedule[LogicalStep + 1] ELSE <<>>

HostPatches == args.patches \o ScriptPatches

StepOperations ==
  [i \in DOMAIN HostPatches |-> CopyByte(HostPatches[i])]
    \o (IF ScheduledPatches # <<>> THEN <<PatchKernel(ScheduledPatches)>> ELSE <<>>)
    \o Evaluations

StepsRemainInclusive == step <= StepsOfPhase
StepsRemain == step < StepsOfPhase

IssueStep ==
  /\ stage = "loop"
  /\ StepsRemain
  /\ IF OffsetsInStorage(HostPatches)
       THEN /\ stream' = stream \o StepOperations
            /\ step' = step + 1
            /\ timed' = timed + 1
            /\ stage' = IF env.sync THEN "stepsync" ELSE "loop"
       ELSE /\ stage' = "failed"
            /\ UNCHANGED <<stream, step, timed>>
  /\ UNCHANGED <<config, mem, ran, repeat, phase, outputs>>

StepSynchronized ==
  /\ stage = "stepsync"
  /\ stream = <<>>
  /\ stage' = "loop"
  /\ UNCHANGED <<config, device, progress, outputs>>

AfterStepsWaiting == IF Phased THEN "phasesync" ELSE IF env.sync THEN "stepsync" ELSE "finalsync"
AfterSteps == IF Phased THEN "phasesync" ELSE IF env.sync THEN "repeated" ELSE "finalsync"

EndLoop ==
  /\ stage = "loop"
  /\ ~StepsRemain
  /\ stage' = AfterSteps
  /\ UNCHANGED <<config, device, progress, outputs>>

(* dump_device_storage: the copy back waits for the stream; the write may  *)
(* stop half way, which ends the run.                                      *)
Dump(path, next) ==
  \/ files' = [files EXCEPT ![path] = mem] /\ stage' = next
  \/ files' = [files EXCEPT ![path] = Partial] /\ stage' = "failed"

AfterPhase == IF phase + 1 < PhaseCount THEN "nextphase" ELSE "finalsync"

EndPhase ==
  /\ stage = "phasesync"
  /\ stream = <<>>
  /\ IF phase < Len(PhaseDumps)
       THEN Dump(PhaseDumps[phase + 1], AfterPhase)
       ELSE stage' = AfterPhase /\ UNCHANGED files
  /\ UNCHANGED <<config, device, progress, launches>>

NextPhase ==
  /\ stage = "nextphase"
  /\ phase' = phase + 1
  /\ step' = 0
  /\ stage' = "loop"
  /\ UNCHANGED <<config, device, repeat, timed, outputs>>

FinalSynchronized ==
  /\ stage = "finalsync"
  /\ stream = <<>>
  /\ stage' = "repeated"
  /\ UNCHANGED <<config, device, progress, outputs>>

EndRepeat ==
  /\ stage = "repeated"
  /\ stage' = IF repeat < Timing THEN "repeat" ELSE "report"
  /\ UNCHANGED <<config, device, progress, outputs>>

LaunchCountOfPhase == steps
LaunchCount == IF Persistent /\ PhaseCount > 1 THEN steps * PhaseCount ELSE steps

Report ==
  /\ stage = "report"
  /\ launches' = LaunchCount
  /\ stage' = "dump"
  /\ UNCHANGED <<config, device, progress, files>>

DumpState ==
  /\ stage = "dump"
  /\ IF env.dumpState = Unset
       THEN stage' = "cleanup" /\ UNCHANGED files
       ELSE stream = <<>> /\ Dump(env.dumpState, "cleanup")
  /\ UNCHANGED <<config, device, progress, launches>>

Cleanup ==
  /\ stage = "cleanup"
  /\ stage' = "done"
  /\ UNCHANGED <<config, device, progress, outputs>>

(* Any CUDA call may fail, and the process may be killed.                  *)
Stopped == stage \in {"done", "failed"}

Crash ==
  /\ ~Stopped
  /\ stage' = "failed"
  /\ UNCHANGED <<config, device, progress, outputs>>

Finished == Stopped /\ UNCHANGED vars

----------------------------------------------------------------------------
(* The device: a thread of the operation at the head of the stream runs.   *)
DeviceThread ==
  /\ ~Stopped
  /\ stream # <<>>
  /\ \E t \in Threads(Head(stream)) \ ran :
       /\ mem' = Effect(Head(stream), t, mem)
       /\ IF ran \cup {t} = Threads(Head(stream))
            THEN stream' = Tail(stream) /\ ran' = {}
            ELSE ran' = ran \cup {t} /\ UNCHANGED stream
  /\ UNCHANGED <<config, stage, progress, outputs>>

Setup ==
  \/ Launch
  \/ CheckSettings
  \/ LoadScript
  \/ ResolveKernels
  \/ Allocate
  \/ UploadInitState
  \/ InitSynchronized
  \/ BuildSchedule

Loop ==
  \/ BeginRepeat
  \/ WarmedUp
  \/ IssueStep
  \/ StepSynchronized
  \/ EndLoop
  \/ EndPhase
  \/ NextPhase
  \/ FinalSynchronized
  \/ EndRepeat

Host == Setup \/ Loop \/ Report \/ DumpState \/ Cleanup

Next == Host \/ DeviceThread \/ Crash \/ Finished

Spec == Init /\ [][Next]_vars

(* main is a straight line of loops that never blocks except on the        *)
(* device, and the device always makes progress on a non-empty stream.     *)
FairSpec == Spec /\ WF_vars(Host) /\ WF_vars(DeviceThread)

----------------------------------------------------------------------------
(* What the theorems ask of the launches.  A direct launch is described by *)
(* arguments that its environment can express: without a handle the        *)
(* runtime reads no phases, and no repetition count below one.             *)
Expressible(a) == a.timing > 0 /\ (a.handle \/ a.phases = Unset)

DirectLaunchesExpressible ==
  \A l \in Launches : l.via = "direct" => Expressible(l.args)

(* No shell synchronises each step of a run of several phases: such a run  *)
(* takes the loop without phases.                                          *)
SyncedRunsHaveOnePhase ==
  \A l \in Launches : l.ambient.sync /\ l.args.handle => l.args.phases \in {Unset, 1}

(* No step of a resident script gives one offset two values: its records   *)
(* are written by threads in any order.                                    *)
OneValueEach(patches) ==
  \A i, j \in DOMAIN patches :
    patches[i].off = patches[j].off => patches[i].val = patches[j].val

ResidentStepsAgree ==
  \A l \in Launches :
    l.args.resident /\ l.args.script # Unset =>
      \A i \in DOMAIN l.args.script : OneValueEach(l.args.script[i])

(* No two dumps of a launch share a file, unless they are of the same step. *)
DumpsApart ==
  \A l \in Launches : \A s, t \in JobOf(l.args, l.ambient).saves : s.path = t.path => s.at = t.at

----------------------------------------------------------------------------
Stages ==
  { "cli", "settings", "script", "kernels", "alloc", "init", "initsync", "schedule",
    "repeat", "warmup", "loop", "stepsync", "phasesync", "nextphase", "finalsync",
    "repeated", "report", "dump", "cleanup", "done", "failed" }

(* The host never counts past the steps of a phase, the phases or the      *)
(* repetitions the runtime allows, no operation and no schedule addresses  *)
(* a byte outside the storage, and a partly run operation is the head of   *)
(* the stream.                                                             *)
TypeOK ==
  /\ launch \in Launches
  /\ env \in EnvType
  /\ stage \in Stages
  /\ script \in Seq(PatchLists)
  /\ schedule \in Seq(Seq(DevicePatches))
  /\ steps \in Nat
  /\ kernels \in Seq(EvalKernels)
  /\ mem \in Images
  /\ stream \in Seq(Operations)
  /\ IF stream = <<>> THEN ran = {} ELSE ran \in SUBSET Threads(Head(stream))
  /\ repeat \in 0 .. MaxTiming
  /\ phase \in 0 .. MaxPhases - 1
  /\ step \in 0 .. StepsOfPhase
  /\ timed \in Nat
  /\ launches \in Nat
  /\ files \in [DumpPaths -> Images \cup {Old, Partial}]

(* config/resident_patch_script_semantics.json, per_step_host_copy: once   *)
(* the launch loop of a resident run has begun, no patch is copied from    *)
(* the host, whatever mix of script, argv patches and modes was asked for. *)
ResidentStaysOnDevice ==
  env.resident /\ repeat > 0 => \A i \in DOMAIN stream : stream[i].kind # "copy"

(* The number of launches the report divides the measured time by is the   *)
(* number of steps the timing events enclose, in every mode.               *)
LaunchCountIsTimed == stage \in {"dump", "cleanup", "done"} => launches = timed

(* The run implements the step-by-step meaning of its arguments: the       *)
(* memory, once the stream has drained, is the memory of the sequential    *)
(* run after the steps issued so far.                                      *)
RunStatus ==
  CASE stage = "failed" -> "failed"
    [] stage = "done" -> "done"
    [] stage \notin {"failed", "done"} /\ repeat = 0 -> "idle"
    [] OTHER -> "running"

Job == JobOf(launch.args, launch.ambient)

Sequential == INSTANCE SequentialRun WITH
  job <- Job,
  img <- IF repeat = 0 THEN Zero ELSE Drained(mem, stream, ran),
  taken <- LogicalStep,
  runs <- repeat,
  saved <- files,
  status <- RunStatus

RunsSequentially == Sequential!Spec

(* A dump is the memory after exactly the steps it was asked for, each     *)
(* step's patches written in order.                                        *)
DumpsAreSequential ==
  stage = "done" => \A s \in Job.saves : files[s.path] = ImageAfter(Job, s.at)

(* A run that ends with exit code 0 wrote every phase dump it was given a  *)
(* path for.                                                               *)
PhaseDumpsDelivered ==
  stage = "done" /\ PhaseCount > 1 =>
    \A p \in DOMAIN PhaseDumps : files[PhaseDumps[p]] # Old

(* Every run ends, whichever modes it combines.                            *)
Termination == <>Stopped
=============================================================================
