# A specification of the GPU hybrid RTL simulator

The repository takes the C++ that Verilator generates for an RTL design, turns
its evaluation functions into GPU kernels, and runs many copies ("states") of
the design at once on a GPU, driven step by step by a host program. What it
promises is that the GPU run is the CPU run: it dumps the final state memory of
every copy and compares dumps under explicit acceptance policies.

This directory holds TLA+ modules translated from that source, TLC
configurations that check them on small instances, and TLAPS proofs of theorems
about them for every value of the constants. `PROJECT.json` lists, for every
definition that models code, the source lines it stands for.

    tlc -workers 2 -config MCHybridRuntime.cfg MCHybridRuntime.tla
    tlapm HybridRuntimeProofs.tla

## 1. Inventory

Paths are relative to the repository; `tools/` stands for `src/tools/`.

| component | state it keeps | operations | what makes it hard | what makes it correct |
|---|---|---|---|---|
| Hybrid runtime, `src/hybrid/run_vl_hybrid.c` | settings from the environment, patch blocks, resident schedule, device memory, default stream, loop counters, dump files | load a patch script; check settings; resolve kernels; initialise memory; build the resident schedule; repeat/phase/step loop; synchronise; dump; report | the host runs ahead of the device; threads of one kernel interleave; eight modes that are combined or refused; counters narrowed to 32 bits; CUDA and file failures | a run is the sequential execution of its arguments in every mode; schedule = script; no write outside the storage; reported launch count = launches timed; it ends |
| Runtime launcher, `tools/run_vl_hybrid*.py` | the caller's environment | validate arguments; build the environment and argv; prepare the initial state image | settings of an earlier run left in the shell | what was not asked for does not happen |
| GPU helper kernels, `tools/gen_vl_gpu_kernel*.py` | none of their own | replicate one state to all; apply one step's patches; evaluate a batch | one thread per byte, patch or state, in any order; ragged last block | the effect does not depend on the order |
| GPU build pipeline, `tools/build_vl_gpu*.py` | the build directory: `.ll` per class, `merged.ll`, IR before and after patching, PTX, cubin, kernel manifest, clang marker, metadata | compile, link, measure the storage, generate, patch, optimise, assemble, write metadata, write markers; `--force`, `--reuse-gpu-patched-ll`, `--reuse-ptx`, split kernels | files survive builds, and builds are killed between any two writes; cache decisions look at some inputs only | metadata describe the module; a module is made of one version of the source; a failed rebuild leaves the published module alone |
| State comparison, `tools/compare_vl_hybrid*.py` | two dumps, the dumps of every kernel prefix, first divergent prefix | compare bytes, fields, states; five policies; localise a divergence | counts taken over different ranges, truncated field lists, different numbers of states | policies weaken one another and accept what they say |
| Code generator and passes, `src/passes/*.cpp`, `tools/vl_runtime_filter.py`, `llvm_*.py` | LLVM IR | find reachable code, filter runtime calls, split phases, generate kernels | reachability through indirect calls | no evaluation function is lost |
| CPU host probes, `src/hybrid/*_host_probe.cpp`, `tools/hybrid_host_probe_*` | one model, clock and reset phase, patch blocks | construct, reset, clock, patch, evaluate, dump | a second patch-script loader with other refusals | agrees with the GPU run's sequential meaning |
| Template runner, `tools/hybrid_template_*`, `hybrid_host_probe_*` | models, probes, dumps and reports on disk, named by target and shape | normalise a template; plan seven commands (verilate, build the probe, initial state, CPU reference, GPU build, GPU run, compare); run them | a failing stage leaves files of an earlier run under the same names | a verdict is about this run's files |
| FIFO scaling and CPU baseline, `tools/run_tlul_fifo_sync_*`, `named_patch_lowering.py` | samples and reports | lower named patches to offsets, run cases, gate | samples of different workloads compared | a gate only compares like with like |
| Results reproduction, `tools/results_reproduction*` | samples, summaries and aggregates, with one name for many requests | the workload sets, medians, batch sweep, resident reuse, persistent probe with phases, repeats and shape/phase sweep, archives | all samples of a target start from one file; phase p is compared with a reference of all phases so far; missing or failed samples | every comparison is of like with like, every summary of one invocation |
| Benchmark and sidecar front end, `tools/run_hybrid_benchmark*`, `hybrid_benchmark*`, `verilator_*` | summaries; else none: resolves options to a plan through a chain of plain mappings | parse, resolve, refuse; print modes, preflight, execution, evidence | three readers of one command line; a caller may edit or mix what one step hands to the next; summaries taken from aggregates of other requests | a ready plan is the plan asked for; evidence is of the request; refuse otherwise |
| RTLMeter integration, `tools/rtlmeter_*` | a `verilator` in PATH, execute directories, handoff metadata, a report | install a wrapper, delegate or refuse, capture, run RTLMeter for CPU and for GPU, compare | the wrapper searches the PATH it was found in; directories keep transcripts of earlier runs; CPU and GPU run differ by what PATH selects | CPU execution is never reported as GPU execution; a pass compares this run's observables |
| Staged-file guard, `tools/check_staged_large_files*` | none | filter the git index | - | no large file passes |
| MobileViT evaluation, `tools/mobile_vit_*` | manifest, batches, predictions, accuracy, summary | plan batches, run each through a template, preflight, claim | a ragged last batch, predictions that miss an image | a claim covers every image |
| Overlays, templates, records, tests | data | - | - | - |

Interactions. The launcher starts the runtime as a process; the environment
variables `RUN_VL_HYBRID_*` and the argument vector are the whole interface, and
everything the launcher does not own is inherited from the caller. The runtime
loads the module the build published and its kernels by the names in
`vl_batch_gpu.meta.json`, and puts host copies, patch kernels and evaluation
kernels on one stream. The comparison starts builds and runs as subprocesses and
reads their dumps. The template runner starts the host probe, the build, the
launcher and the comparison as programs; results reproduction and the MobileViT
evaluation start template runs and the same programs with other arguments; the
benchmark front end starts any of these. The RTLMeter wrapper and the native path
of the front end read the same command lines and end in metadata for a person
who then starts a launcher. Components otherwise meet only through files, which
is why stale files are the hazard of half the system.

The hazards list of `PROJECT.json` names the places where this code can go wrong
in a way a test would hardly reach, each with the property that covers it or the
reason why none does.

## 2. Modules

| module | models | state and actions |
|---|---|---|
| `PatchScript` | the loader and the schedule builder of `run_vl_hybrid.c` | the script as a sequence of classified lines; one action per kind of line (`SkipLine`, `OpenBlock`, ...), per refusal, and per step the builder expands; unsigned counters modulo `Word`. History variables keep the script's meaning in unbounded numbers |
| `HostProbe` | the CPU host probe's own loader of the same scripts | pure operators: `ReadLine` folded over the script; `ProbeLoads`, `ProbeApplies` |
| `DeviceMemory` | device storage, stream operations, helper kernels | pure operators: an operation is a set of threads, each with an effect |
| `Launcher` | argument validation and environment of the launcher | pure operators `ArgsAccepted`, `EnvOf` |
| `Request` | what the arguments mean | `JobOf` reads the job off the arguments only, never off the environment |
| `SequentialRun` | abstract specification of a run | one memory, one step at a time; no stream, threads, phases or modes |
| `HybridRuntime` | one run, composing all of the above | `stage` is where `main` is; one action per part of `main`; `DeviceThread` is the device; `Crash` is any CUDA failure or kill |
| `BuildCache` | `run_build_request` over a directory of files | one action per stage, each of which may fail and leave the old file, none, or a torn one; `Kill` between any two; `Regenerate` is Verilator running again |
| `StateCompare` | the pure part of the comparison | fields, mismatches, pairs of states, five policies |
| `Comparison` | `--compare-dumps` and the fresh comparison with its prefix runs | one action per subprocess and decision |
| `SidecarArgs` | the three readers of the sidecar options | pure operators on a command line, a sequence of options: the parser stub, the wrapper, the shared normalisation, each with its own rule for an option given twice or without a value |
| `TemplatePlan` | a template and its seven commands | pure operators: `Normalized`, `TemplateRun`; a command is a tool, what it is about, the files it reads and writes |
| `StagePlan` | stage plans, readiness, the Verilator command, the handoff contract, the debug shim | pure operators; a step that raises returns `None` |
| `NativePath` | the native-parser path, from a command line to a launcher invocation | `item` is the artefact the caller holds, `other` one of another request; one action per step of the chain, `EditField` and `AddOwnedField` for what the caller may do in between |
| `Rtlmeter` | the wrapper, the handoff metadata, the CPU/GPU compare | `kind` says what is installed where, `call` is the running `verilator`, `observed` what the execute directories hold; actions are the delegation steps of a process and the steps of a comparison |
| `FrontEnd` | the two ways in, side by side | a session takes one of them |
| `Reproduction` | the workflows of results reproduction and the MobileViT evaluation | pure operators: a workflow is its sequence of commands and of the script's own steps |
| `Benchmark` | the benchmark command line | refusals, the commands of a target, the steps of every mode |
| `Campaign` | one invocation of any script after the other, over one set of files | `files` says what is in each file and which invocations it is of; a program succeeds (`RunProgram`), rejects a comparison or fails (`FailProgram`), and the script then stops |
| `FoldTheorems` | no code: induction over numbers and finite sets, and what folds over sequences and sets compute | |
| `*Proofs` | theorems about `PatchScript` with `HostProbe`, `HybridRuntime`, `BuildCache`, `Comparison`, `Rtlmeter`, `NativePath` with `FrontEnd`, `Campaign` | |
| `MC*` | instances for TLC | |

Composition: `HybridRuntime` EXTENDS `Request`, which EXTENDS `DeviceMemory` and
`Launcher`; it refines `SequentialRun` (INSTANCE ... WITH at the end of the
module). `Comparison` EXTENDS `StateCompare`. `PatchScript` is about a
file: that it becomes the steps it spells and that the resident schedule has the
same steps, so `HybridRuntime` takes a script to be a sequence of steps.
`HostProbe` EXTENDS `PatchScript` and puts the probe's reading of a file beside
the runtime's. `TemplatePlan` EXTENDS `SidecarArgs`, `StagePlan` EXTENDS
`TemplatePlan`, `NativePath` EXTENDS `StagePlan`; `Rtlmeter` EXTENDS
`SidecarArgs`, and `FrontEnd` EXTENDS `Rtlmeter` and `NativePath`. `Reproduction`
EXTENDS `TemplatePlan`, `Benchmark` EXTENDS `StagePlan` and `Reproduction`, and
`Campaign` EXTENDS `Benchmark`: the plans are pure, and only `Campaign` executes
them. A campaign takes a build, a run or a comparison as one program that
succeeds or fails; what happens inside is the subject of `BuildCache`,
`HybridRuntime` and `Comparison`.

How data are abstracted.

- A patch-script line is what the loader tells apart (blank, repeat header with
  its count, end, step, unreadable); text is not spelled out. A count of 0 stands
  for every count the parser refuses.
- A state image is a function from byte offsets to bytes. What an evaluation
  kernel does to one state is the constant `Eval`, an arbitrary function.
- Device operations run in stream order, each by its threads in any order.
  Within a thread an effect is atomic: the helper kernels write one byte, and an
  evaluation thread touches only its own state. Synchronous copies (`cuMemcpyHtoD`,
  `cuMemsetD8`) are put on the stream too, which allows more interleavings than
  the default stream does.
- A file of the build directory is what it was made from: version of the C++
  and options. A storage size is the version it was measured on, because a
  size only matters by being the right one.
- A file of a campaign is what its data are of: target, shape, `cfg_*` values,
  and the set of invocations that went into it. A comparison records whether its
  two dumps were alike; what a program computes is left out.
- A command line is a sequence of options with values. A count that is not a
  decimal number is one of the counts below 1, which every reader refuses alike.
- An artefact of the native path has the fields a later step looks at, and a
  flag for a field a later step owns. A launcher authority is a name that is the
  reviewed one or is not.
- Dumps in the comparison are real byte sequences, layouts real field lists.

## 3. Runs

| run | states | question | result |
|---|---|---|---|
| `MCPatchScript` | 100,898 | Is every accepted script loaded as the steps it spells (`LoadedFaithfully`), does the resident schedule give every logical step its own patches (`ScheduleIsTheScript`), inside the storage (`ScheduleInBounds`)? Does the CPU probe read the same job from every script the runtime executes resident (`ProbeReadsTheScript`), and which scripts does only the probe run (`OnlyTheProbeRuns`)? | holds |
| `MCHybridRuntime` | 17,282 | Does every combination of modes behave as the sequential run (`RunsSequentially`), without host copies when resident (`ResidentStaysOnDevice`), reporting the launches it timed (`LaunchCountIsTimed`), and end (`Termination`)? | holds |
| `MCSyncedPhases` | small | Does a run that exits 0 write the phase dumps it has paths for? | violated |
| `MCTwicePatched` | small | Do "all patches run each step in order"? | violated |
| `MCBuildCache` | 393,355 | Does a forced build repair any history (`ForcedBuildIsFresh`); do caches never show as long as no build failed (`UnfailedBuildsAreTruthful`); does a rebuild that stops leave the published cubin alone (`PublishedCubinIntact`)? | holds |
| `MCStaleUnits` | - | Is a full build made at the clang level it was given? | violated |
| `MCStaleSequence` | - | Does a recorded launch sequence belong to a module with those kernels? | violated |
| `MCComparison` | 389,682 | Do two byte counts taken by different functions agree on what is internal (`IgnoringInternalsIsExact`); do the policies weaken one another (`PoliciesNested`); is a divergence localised at the right prefix (`DivergenceIsLocalized`); does the truncated list hide no residual (`PhaseBResidualsAreKnown`)? | holds |
| `MCNoStates` | small | Is every state compared when dumps are accepted after normalisation? | violated |
| `MCFrontEnd` | 105,377 | Does a pass compare this run (`PassedComparesThisRun`) and never a CPU run as a GPU run (`GpuIntentNeverPasses`); do all readers of a command line see one plan (`ReadersAgree`, `ShimAgrees`); is a ready plan of one run and the one asked for, whatever is edited on the way (`CoherentPlan`, `PlanIsAsked`); is a launch reviewed (`LaunchIsReviewed`); does delegation end (`DelegationEnds`)? | holds |
| `MCWrapper` | - | Does every call of the wrapper end? | violated |
| `MCCampaign` | 510,569 | Whatever ran before and failed: are like dumps compared (`ComparedLikeWithLike`), are reports and executed summaries of one invocation (`ReportsAreOfOneRun`, `ExecutedSummaryIsFresh`), is evidence of the request (`EvidenceIsOfTheRequest`), is a claim backed by all images (`ClaimsAreBacked`), does a benchmark run its own target (`RunsTheAskedTarget`), and does planning leave everything alone (`DryRunsAreNoEvidence`)? | holds |

Each of the six passing runs also checks its module's type invariant.

### Where the code does not do what it says

- **`MCSyncedPhases`** `RUN_VL_HYBRID_SYNC_EACH_STEP` chooses a loop that knows
  no phases (`run_vl_hybrid.c:1449`). The launcher does not unset it, so a
  two-phase run started from a shell that exports it exits 0 after one phase, with
  no phase dump, and reports twice the launches it made. A comment calls the
  variable a matter of wall-clock time only.
- **`MCTwicePatched`** A resident step that writes one offset twice is executed
  by two threads without an order (`run_vl_hybrid.c:742` on, the kernel in
  `gen_vl_gpu_kernel_templates.py`); the usage comment promises order.
- **`MCStaleUnits`** A build that fails after some `.ll` were emitted at a new
  clang level leaves the marker of the old level; a later build at the old level
  finds every `.ll` and links both.
- **`MCStaleSequence`** `vl_kernel_manifest.json` outlives the split build that
  wrote it; the reuse modes then record its launch sequence for a module without
  those kernels.
- **`MCNoStates`** One state against an empty dump is "compatible" with no pairs,
  and nothing compared means nothing differs: accepted.
- **`MCWrapper`** The installed `verilator` is a shell script that execs Python
  on the runtime module, so the path the wrapper excludes from its search
  (`rtlmeter_verilator_wrapper_runtime.py:160`) is the module and not the script.
  Without `RTLMETER_REAL_VERILATOR` it finds itself and delegates for ever.

Met while modelling, and in the model as the code has them:

- `results_reproduction_resident_reuse_summary.py:48` calls `parse_hybrid_report`
  without its `repo_root`, so resident reuse dies after its first phase;
  `docs/status.md:696` says its four phases pass. `Reproduction` ends the workflow
  with `Raise` there.
- A persistent probe of one phase has a dump to compare that nobody writes: it
  stops, or compares what an earlier run left. `SinglePhaseProbe` names these
  requests, and two properties of `Campaign` leave them out.
- The CPU/GPU compare accepts an RTLMeter case without its test, runs both sides
  of it, and then raises while it looks for their directories, without a report.
- A dry run of the evaluation that is asked to infer writes an empty set over the
  predictions, and its preflight replaces the summary; so `Planning` does not
  count the evaluation's.
- No inference backend exists in the repository, so a MobileViT plan that infers
  always fails; its claim needs predictions made elsewhere.
- The launch handoff does not look at the mode of the plan it is made from; only
  the operator plan does (`PlanIsAsked`).
- The probe runs scripts the runtime refuses: with a line longer than the
  runtime's buffer, a step of too many patches or with something after its dash
  (the probe ignores it), an empty repeat block, more steps than an unsigned
  counts. `OnlyTheProbeRuns` says that there are no others.
- The two loaders also spell numbers differently, which the model leaves out: a
  repeat count `010` is 8 to the runtime (`strtoul`, base 0) and 10 to the probe (a
  decimal stream, which refuses `0x2`); a byte `010` is 10 to the runtime and 8 to
  the probe.
- Resident batch sweep and representative median share the names of their samples,
  which `ReportsAreOfOneRun` shows to be harmless within one invocation.
- `--reuse-gpu-patched-ll` records the clang level of the command line although
  the IR was emitted at an earlier one (`build_vl_gpu_metadata.py:39`), and
  metadata keep only the file name of a module written elsewhere with `--out`
  (line 34), so a launcher looks for it in the wrong place.

### Bounds, and why they are enough

- *Patch scripts.* All scripts of up to three lines over fifteen kinds of line,
  and of up to five over the seven that lead somewhere: every pair of adjacent
  lines, a block after a block, a block with two steps, a step after a block.
  `Word = 8` makes the narrowing bite: repeat counts 8 and 9 wrap to 0 and 1, and
  two blocks overflow the step counter. `MaxPatches = 2` with a line of three;
  `Total = 2` with an offset of 2. The storage is two states of one byte
  (`StateBytes = 1`), so an offset may lie in the second state, which the probe
  does not have.
- *Runs.* Three states in blocks of two threads: the last block is partly idle.
  Two kernels that do not commute, so their order shows. Scripts with an empty
  step, a step of two patches and patches to different states; two repetitions,
  two phases. `MaxTiming` and `MaxPhases` are the runtime's limits of 64 and its
  maximal phase count, taken to be 2, and launches exceed each. A shell with every
  variable left over from another run (`Stale`), one that synchronises every step,
  one that warms up. Every refusal is reached through the launcher, and by hand
  where the environment alone can express it. Launches that combine
  synchronising with several phases, or patch one offset twice in a step, are
  left to the two violation runs, since there the refinement fails.
- *Builds.* Two classes are enough to mix `.ll` files; two clang levels, two
  versions of the C++; three builds, the least number that shows a stale unit
  (old level, failed new level, old level); up to two failures or kills. Histories
  are bounded, so the run stops: deadlock is not checked. `MCStaleUnits` needs one
  failure, `MCStaleSequence` none.
- *Comparisons.* Dumps of no, less than one, one and two states of three bytes
  over two values, all contents; three layouts: bookkeeping, other internal and
  design fields; a two-byte word with an uncovered byte; none. A summary lists
  two fields and one is allowed, which keeps the code's relation of 16 to 4: more
  are listed than may be allowed. Sequences of up to three kernels. A comparison
  ends, so deadlock is not checked.
- *Front end.* Three directories: one each for the wrapper's own, the default
  place and the real Verilator, every arrangement of scripts, links and real
  programs in them, and paths that meet them in either order. Two integration runs
  (`MaxRuns`), the least number that leaves observables behind. Command lines with
  an option twice, a negative count, a missing value, another program; contexts
  with another target, template, mode and reference. `MaxEdits = 1`: one edit
  of one artefact, with the other request's value, is what separates the checks of
  one step from those of the next; the proofs have no such bound. A session comes
  to an end, so deadlock is not checked.
- *Campaigns.* `MaxExecuted = 2` invocations that run programs, the least number
  that leaves files for another; `MaxPlanned = 1`; `MaxFailures = 1`: the first
  failure ends its invocation and leaves part of its files. The command lines are
  chosen to meet in the names of files: one target at one shape by a template
  run with another seed, by a benchmark in each mode, by the resident workflows with
  one, two and three phases, and summaries of what is there. Shapes are 1x1 and
  2x1; three images in batches of two leave a ragged last batch. A campaign starts
  in an empty place, or with everything built. Its invocations are bounded, so
  deadlock is not checked.

### Fairness

`FairSpec` assumes weak fairness of the host's actions together and of
`DeviceThread`. The host is one thread of straight-line code and loops that
waits for nothing but the device, so as long as it has a next statement it
executes one; the device works off a non-empty stream unless it fails, which is
`Crash`, an action without fairness. Nothing else is assumed. `Termination`
holds because every loop counts to a bound that stays fixed while it runs.

`ProcessesRun` (`Rtlmeter`) assumes weak fairness of each step of a process that
has been started: the runtime module of a wrapper, its delegation or refusal, the
return of the real Verilator, and the steps of the compare. They are successive
steps of one operating-system process, which the system schedules; what RTLMeter
itself decides (which files it executes, whether it succeeds) is left open, and
no user is assumed to start anything. `DelegationEnds` needs that the wrapper
can tell itself from the real Verilator, which `Distinguished` spells out and
`MCWrapper` shows to be necessary. A campaign's steps are sequential and its
lists of steps finite; the other modules state no liveness.

## 4. Proofs

Every safety property of a passing run is a theorem, for every value of the
constants. Assumptions are the named ASSUMEs on the constants, which TLC
evaluates on every instance:

- sizes and limits are positive, a state is no larger than the storage, `Eval` is a
  function on state images; launches, requests, scripts and patches are of the
  stated types; values such as `Unset`, `None`, `Torn` and `Old` (a file from before
  the run) are no real ones (`NoneAssumption`, `ReadyAssumption`, `FilesAssumption`);
- a summary lists more fields than are allowed (`LimitAssumption`), and the fields
  of a layout do not overlap (`ApartAssumption`), no more than those of a C++ structure;
- the registry of benchmark targets has slices and the MobileViT evaluation
  (`RegistryAssumption`), its templates load, and only the target the resident
  workflows have written in offers the resident modes (`TemplatesAssumption`); the
  cases of the shape/phase sweep are what the source lists, none with fewer than two
  phases (`CasesAssumption`);
- a campaign starts among files that no invocation has written, models, probes,
  kernels and the data set (`PlacesAssumption`), and its command lines have integers
  where the parsers convert to integers (`AsksAssumption`).

They bound nothing: a script, a stream, a history of builds or of invocations may
be as long as it likes, and counts may be negative or zero wherever the parsers let
them through.

Four theorems about a run have hypotheses besides, each a condition on the launches
alone. `SyncedRunsHaveOnePhase` and `ResidentStepsAgree` exclude what
`MCSyncedPhases` and `MCTwicePatched` refute. `DirectLaunchesExpressible` says that a
launch by hand is described by arguments its environment can express: without a
handle the runtime reads no phases, and no repetition count below one. `DumpsApart`
gives the dumps of different steps different paths; otherwise the last one written
is all that is left. `MCHybridRuntime` evaluates them too (`LaunchesOfTheTheorems`): the
launches of the main run satisfy all of them, and each of the two violation
runs fails only the condition it is about.

| theorem | says | argument |
|---|---|---|
| `PatchScriptProofs!TypeCorrect` | `TypeOK` of the loader and builder | inductive as it stands, with the arithmetic of narrowing and of sequence concatenation as lemmas |
| `PatchScriptProofs!ScheduleStaysInBounds` | no record of a schedule lies outside the storage | `TypeOK` and `RecordsInStorage`, which speaks of the records built so far, not only of a finished schedule |
| `HybridRuntimeProofs!TypeCorrect` | `TypeOK` of a run: counters within what was asked, no operation outside the storage | `TypeInv`: `TypeOK` is not inductive. `repeat <= MaxTiming` and `phase < MaxPhases` need the settings to have been accepted (`Accepted`), the counters untouched before the loop (`NotBegun`), and that another repetition or phase is begun only if one is left (`Counting`). That operations stay inside the storage rests on `OffsetSplit` and on the three places that check offsets |
| `HybridRuntimeProofs!ResidentNeverCopies` | once the loop of a resident run has begun no host copy is on the stream | `ResidentInv`: the whole stream of a resident run is free of copies from the start; argv patches were refused and the script forgotten once the schedule was built |
| `PatchScriptProofs!LoadsFaithfully` | an accepted script is loaded as the steps it spells, copy after copy | `LoadInv`: at every line each block loaded lies in the text where `starts` has it, and `steps` counts the text, as long as the text or every count of the script fits an unsigned (`Kept`) |
| `PatchScriptProofs!SchedulesAreScripts` | slice *i* of the resident schedule is step *i* | `BuildInv`: the slices made so far are the first so many steps of the text, found from block, copy and step by division with rest (`ElementOf`, `FlattenAppends`) |
| `PatchScriptProofs!ProbeAndRuntimeAgree` | the host probe reads a script the runtime executes resident as the same job | `ReadInv`: the probe's fold over the lines, cut at the runtime's position, has the runtime's blocks as its steps (`ReaderReads`, from `FoldIsLast`). It holds of every prefix, so also of the whole |
| `PatchScriptProofs!OnlyTheProbe` | four reasons for which only the probe runs a script, and no others | `ReadInv`: a runtime that gave up did so at a refused line, at an incomplete end or in the builder (`FailedFor`), up to where both had read alike; each such reason that is not one of the four also stops the probe, which once failed stays failed |
| `HybridRuntimeProofs!RunIsSequential` | a run implements `SequentialRun`, step by step | see below |
| `HybridRuntimeProofs!DumpsAreOfTheRequest` | every dump is what the script, executed one step after the other, leaves in every state and byte | `ImageInv`: the memory of the sequential run is the initial image after so many steps of the job; `DumpInv`: what it saved is that image at the step asked for. The refinement carries both over |
| `HybridRuntimeProofs!PhaseDumpsAreDelivered` | a finished phased run saved every phase | `SavedInv`: at each place in the loop, the phases up to there are saved, and after the last dump the final state too |
| `HybridRuntimeProofs!CountIsOfTimedSteps` | the reported number of launches is the number timed, if no launch mixes synchronising with several phases (`SyncedRunsHaveOnePhase`, the combination `MCSyncedPhases` refutes) | `CountInv`: `TimedSteps` says, per place in the loop, how many steps have been timed since the first event: so many whole phases and so many steps of this one |
| `BuildCacheProofs!TypeCorrect` | `TypeOK` of a build directory | `TInv`: every stage also has what it needs of the stages before it (`Supplied`): a stage that reads the storage size has one, and so on |
| `BuildCacheProofs!ForcedBuildsAreFresh` | a forced full build that ends well owes nothing to any earlier build, failure or regeneration | `ForcedInv`: stage by stage, exactly the file the next stage reads is fresh (`FreshSoFar`); everything else in the directory may be stale or torn |
| `BuildCacheProofs!PublishedCubinSurvives` | `PublishedCubinIntact` | inductive with `TInv`: no stage but the assembler touches the cubin (`CubinKept`); a cubin it replaces is unpublished until the metadata name it, and one it tears or removes takes what was published with it (`AssemblePublishes`) |
| `BuildCacheProofs!UnfailedAreTruthful` | as long as nothing failed, caches never show | `TruthInv`: the marker names the level of the `.ll` files and `merged.ll` is made of them; the metadata describe the patched IR and the PTX beside them; and at each stage, which of these the running build has already replaced |
| `ComparisonProofs!TypeCorrect` | `TypeOK` of a comparison | `TInv`: each stage has the dumps it compares (`Supplied`), and prefixes are dumps of runs |
| `ComparisonProofs!DivergencesAreLocalized` | the first divergent prefix is the first that diverges | `LocInv`: the same for the prefixes seen so far, and the last prefix is the candidate |
| `ComparisonProofs!IgnoringIsExact` | ignoring internals accepts exactly what differs nowhere else | both counts are cardinalities of sets of offsets; `MismatchesCounted` puts the listed mismatches in bijection with the offsets that differ |
| `ComparisonProofs!PoliciesAreNested` | what a policy accepts, every weaker one accepts | the policies read counts over the whole dump, lists of fields, and slices of one field: as many internal bytes as differing bytes means that every differing byte is of an internal field (a subset of the same size is the set), and with fields apart, that the slices of all others are equal |
| `ComparisonProofs!ResidualsAreKnown` | phase B accepts no residual outside the allowed fields | a field beyond the list would have a full list of allowed fields before it, more than there are (`ListShowsResidual`); `VerdictInv` ties a verdict to the dumps it was given for |
| `RtlmeterProofs!TypeCorrect` | `TypeOK` of wrapper and compare | `TypeInv`, with the types of records and of the pending call |
| `RtlmeterProofs!PassedIsOfThisRun` | a pass compared this run's observables on both sides | `RunInv`: a side whose call returned 0 has this run's observables from then on |
| `RtlmeterProofs!CpuIsNeverGpu` | a request for the GPU does not pass while the wrapper captures it | `IntentInv`: the GPU side calls the sidecar's wrapper with the asked line, and its status can only be 2 |
| `RtlmeterProofs!ReadersAgreeAlways` | ready metadata and launcher commands carry the plan both readers see | `ReadInv`: ready metadata are those of a user's call, since the compare's own context is incomplete |
| `FrontEndProofs!LaunchesAreReviewed` | a launcher invocation is under the reviewed reference, of the command line's shape and the target's template | `LaunchInv`; the checks of the invocation and of the bridge it is given determine target and template |
| `FrontEndProofs!PlansAreCoherent` | a ready plan speaks of one run | `PlanInv`: a resolution's and a contract's fields that no holder can edit, and what each step checks of those it can (`ResolutionSound`, `ContractSound`) |
| `FrontEndProofs!PlansAreAsked` | an operator plan nobody edited is for the command line's shape, the context's target and what its template builds | `AskedInv`: each unedited artefact is the chain of steps applied to the command line; a plan that is ready does not depend on the limit and the phases, which the direct path drops (`ReadyPlans`) |
| `FrontEndProofs!ShimAgreesAlways` | the debug shim exits 0 exactly when the native path is ready and `--shape` was not given | the same invariant: both readers, applied to the same options, yield the same stage plan |
| `FrontEndProofs!FrontEndIsSafe` | the composition has every safety theorem of its parts | `FrontImplementsParts`: `FrontSpec => Spec /\ NativeSpec`, a step of one part is a stutter of the other |
| `CampaignProofs!PlanningLeavesAlone` | `DryRunsAreNoEvidence` | `PlanInv`: an invocation that plans has only steps left that run no program and write no report (`HarmlessSteps`); `Numbered`: nothing written earlier bears its number |
| `CampaignProofs!ScriptsFeedThemselves` | every step of every workflow finds what it reads left by an earlier step, but for the one-phase probe | static, by cases over the workflows: see below |
| `CampaignProofs!CampaignTypes` | `TypeOK` of a campaign | `CampaignInv` |
| `CampaignProofs!ComparisonsAreOfLike`, `InvocationsDoNotMix`, `EvidenceAnswersTheRequest`, `ExecutedEvidenceIsFresh`, `BenchmarksStayOnTarget` | `ComparedLikeWithLike`, `ReportsAreOfOneRun`, `EvidenceIsOfTheRequest`, `ExecutedSummaryIsFresh`, `RunsTheAskedTarget` | each is a part of `Sound`, what `CampaignInv` says of every file |
| `CampaignProofs!ClaimsCoverEveryImage` | a claimed evaluation rests on batches that hold every image once | the reports a claim collects are those of one batch size, one per batch; the sizes of the first *k* batches sum to *k* times the batch size or to all images, by induction on *k*, and the sum over the set of reports does not depend on their order |

Each proof of an invariant follows `Init => IInv`, `IInv /\ [Next]_vars => IInv'`,
`IInv => Inv`, with one step per action of `Next`.

*The refinement of a run.* The sequential run executes one step at a time; the
hybrid run puts a step's copies and kernels on a stream, goes on, and the device
works them off later, thread by thread in any order. The refinement mapping
therefore gives the sequential run, from the first repetition on, the memory as it
will be once the stream is drained: the fold of the operations on the stream over
the present memory, each by all of its threads. Two facts make that a mapping. The
fold over a stream with one more operation at its end is the operation applied to
the fold (`FoldConcat`), which is what enqueuing does. And the effect of an
operation's threads does not depend on their order (`AnyOrder`, `UnorderedUnique`,
for threads whose effects commute): evaluation threads touch their own state, helper
kernels write one byte each, and two resident patches of one byte agree by
`ResidentStepsAgree`. So a thread that runs changes memory and stream but not the
mapped memory. The four invariants of `Established` say where in the loop the run is,
what settings are in force and how many steps were counted; `StartInv` says that
before the first repetition the stream leads to the initial image, and `SavedInv`
which files are written. Each action of `Next` is then one step of the sequential
run or a stutter.

*Campaigns.* Two arguments meet. The static one is about scripts, without files:
whatever the command line, each step that relies on dumps, reports or aggregates of
its own invocation finds them written by an earlier step of the same script, under
names that say target, shape and `cfg_*` values (`Fed`, `Good`). The dynamic one is
about files: `FlowInv` says that the steps left are fed by what the running
invocation made, `FilesInv` that every file is what its name says, of the invocation
that wrote it (`Sound`). A dump that an earlier invocation left, or that a failing
program tore, does no harm, because no step compares it before its own invocation has
replaced it. The exception is the one-phase persistent probe, which `Orphan` names.

*What proving showed.* A few definitions could not be reasoned about, or a property
was false outside the instance:

- `ReadLine` (`HostProbe`) and `SpelledShape` (`SidecarArgs`) had CASE arms that
  overlapped where TLC takes the first; they are disjoint now, in the code's order.
- `ShimAgrees` was false for a command line with `--shape`, which no line of the
  instance had: to the shim it is an option, to the native path one of Verilator's
  own. The exception is in the property and such lines are in `MCFrontEnd`.
- `PoliciesNested` does not hold of a layout whose fields overlap, where a byte
  counts twice; `ApartAssumption` says that layouts have none.
- `Dispatched` (`Reproduction`), the first option given in the parser's order, is
  stated by the index of that option.

Only model-checked: liveness under fairness, which needs ENABLED: `Termination` and
`DelegationEnds`.

Induction over data is used where the library's theorems, which take an operator as a
parameter, could not be: `FoldTheorems` states it of a set (the numbers for which a
formula holds), and derives what folds over sequences and finite sets return.

No module uses a RECURSIVE operator.

## 5. What is not modelled

- Of the runtime: dumps of device globals, the stack-limit probe and trace
  output, which change no state a property speaks of; the chain of several
  cubins; the wall-clock times themselves.
- Of the launcher: the lookup of the module and its metadata, and the sanitising
  of an initial state image.
- Of the build: `--out` and `--sm`, the Syms state image, phase analysis, and the
  text rewrites of the IR. Files that every build rewrites before reading them are
  left out because they carry nothing from one build to the next. The clang level
  that metadata record after `--reuse-gpu-patched-ll` is in the model, and no
  property speaks of it.
- Of the comparison: the JSON of the reports; validating the coverage gate and
  probing the layout, whose outcomes are inputs.
- Of the CPU host probe: its options, its clock and reset sequencing, its event
  settling and the dumps per edge. What is modelled is its loader of patch
  scripts, its builder's command line and that it writes a dump.
- Of results reproduction: the manifest of results, the arithmetic of medians and
  ratios, printed text. Of the benchmark: the minimal suite, target listings and
  the generator of hybrid configurations. Of RTLMeter: the overlay audit and
  the selection of seeds, which are data and text; RTLMeter and Verilator
  themselves, which are outside the repository. Of MobileViT: making a manifest
  from local files or a remote data set, and the accuracy numbers.
- FIFO scaling and the CPU baseline, which write a fresh directory per case and
  decide on wall-clock ratios; the staged-file guard, a filter without state.
- The LLVM passes, which would need a semantics of the IR; designs, templates,
  records and tests, which are data.

## 6. Plan

Written, in this order: `PatchScript`, `HostProbe`; `DeviceMemory`, `Launcher`, `Request`,
`SequentialRun`, `HybridRuntime`; `BuildCache`; `StateCompare`, `Comparison`;
`SidecarArgs`, `Rtlmeter`; `TemplatePlan`, `StagePlan`, `NativePath`, `FrontEnd`;
`Reproduction`, `Benchmark`, `Campaign`; `FoldTheorems` and the theorems of section 4.

What is left, in order of importance:

1. **Host probes**: the clock and reset sequencing and the evaluation of
   `HostProbe`'s steps, as a state machine. Abstract specification:
   `SequentialRun` again, so that both sides of a comparison are shown to execute
   the same job where both accept it.
2. **Measurements** (`Scaling`): named patches, cases and gates of the FIFO
   sweep; a gate only compares samples of one workload.
3. **Pure functions**: sanitising a state image; phase split and runtime
   filter of `vlgpugen` as functions on call graphs; the staged-file guard.
4. **Theorems**: that a build without failures implements an abstract build
   which has no files but the published ones; `HostProbe`'s steps against
   `SequentialRun`, once they are a state machine.
