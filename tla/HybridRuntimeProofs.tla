------------------------- MODULE HybridRuntimeProofs -------------------------
(* Theorems about a hybrid run, for every set of launches, number of       *)
(* states, storage size, block size, evaluation kernel and limit.          *)
EXTENDS HybridRuntime, FoldTheorems, TLAPS

----------------------------------------------------------------------------
(* Device memory.                                                          *)

(* A byte of the allocation lies in one of the states.                     *)
LEMMA OffsetSplit ==
  ASSUME NEW o \in Offsets
  PROVE  /\ o \div Storage \in States
         /\ o % Storage \in 0 .. Storage - 1
<1>1. Storage \in Nat \ {0} /\ NStates \in Nat \ {0}
  BY SizesAssumption
<1>2. o \in Nat /\ o < Storage * NStates
  BY <1>1 DEF Offsets, Total
<1>3. PICK q \in Nat : q = o \div Storage
  BY <1>1, <1>2
<1>4. PICK r \in 0 .. Storage - 1 : r = o % Storage
  BY <1>1, <1>2
<1>5. o = Storage * q + r
  BY <1>1, <1>2, <1>3, <1>4
<1>6. Storage * q < Storage * NStates
  BY <1>1, <1>2, <1>4, <1>5
<1>7. q < NStates
  BY <1>1, <1>6
<1> QED BY <1>1, <1>3, <1>4, <1>7 DEF States

LEMMA WrittenType ==
  ASSUME NEW m \in Images, NEW o \in Offsets, NEW v \in Byte
  PROVE  Written(m, o, v) \in Images
  BY OffsetSplit DEF Written, Images, StateImages

(* No operation leaves the memory malformed, whichever thread runs.        *)
LEMMA EffectType ==
  ASSUME NEW m \in Images, NEW op \in Operations, NEW t \in Threads(op)
  PROVE  Effect(op, t, m) \in Images
<1>1. CASE op.kind = "memset"
  BY <1>1, ByteAssumption DEF Effect, Zero, Images, StateImages
<1>2. CASE op.kind = "upload"
  BY <1>2 DEF Effect, Operations, Memset
<1>3. CASE op.kind = "uploadState"
  <2>1. op.at \in States /\ op.data \in StateImages
    BY <1>3 DEF Operations, Memset
  <2> QED BY <1>3, <2>1 DEF Effect, Images
<1>4. CASE op.kind = "replicate"
  <2>1. op.data \in StateImages /\ t \in Offsets
    BY <1>4 DEF Operations, Memset, Threads
  <2>2. op.data[t % Storage] \in Byte
    BY <2>1, OffsetSplit DEF StateImages
  <2> QED BY <1>4, <2>1, <2>2, WrittenType DEF Effect
<1>5. CASE op.kind = "copy"
  <2>1. op.patch \in DevicePatches
    BY <1>5 DEF Operations, Memset
  <2> QED BY <1>5, <2>1, WrittenType DEF Effect, DevicePatches
<1>6. CASE op.kind = "patches"
  <2>1. op.recs \in Seq(DevicePatches) /\ t \in 1 .. Len(op.recs)
    BY <1>6 DEF Operations, Memset, Threads
  <2>2. op.recs[t] \in DevicePatches
    BY <2>1
  <2> QED BY <1>6, <2>2, WrittenType DEF Effect, DevicePatches
<1>7. CASE op.kind = "eval"
  <2>1. op.kernel \in EvalKernels /\ t \in EvalThreads
    BY <1>7 DEF Operations, Memset, Threads
  <2>2. t \in States
    BY <2>1, SizesAssumption DEF EvalThreads, States, Grid
  <2>3. Eval[op.kernel][m[t]] \in StateImages
    BY <2>1, <2>2, EvalAssumption DEF Images
  <2> QED BY <1>7, <2>2, <2>3 DEF Effect, Images
<1> QED BY <1>1, <1>2, <1>3, <1>4, <1>5, <1>6, <1>7 DEF Operations, Memset

----------------------------------------------------------------------------
(* Operations the host issues.                                             *)

LEMMA OperationKinds ==
  /\ Memset \in Operations
  /\ \A img \in Images : Upload(img) \in Operations
  /\ \A s \in States, d \in StateImages : UploadState(s, d) \in Operations
  /\ \A d \in StateImages : ReplicateKernel(d) \in Operations
  /\ \A p \in DevicePatches : CopyByte(p) \in Operations
  /\ \A r \in Seq(DevicePatches) : PatchKernel(r) \in Operations
  /\ \A k \in EvalKernels : EvalKernel(k) \in Operations
  BY DEF Operations, Memset, Upload, UploadState, ReplicateKernel, CopyByte, PatchKernel,
    EvalKernel

LEMMA SeqOfElements ==
  ASSUME NEW S, NEW T, NEW s \in Seq(S), \A i \in 1 .. Len(s) : s[i] \in T
  PROVE  s \in Seq(T)
  OBVIOUS

(* Patches whose offsets were checked are patches the device may execute.  *)
LEMMA CheckedPatches ==
  ASSUME NEW p \in PatchLists, OffsetsInStorage(p)
  PROVE  p \in Seq(DevicePatches)
<1>1. Total \in Nat
  BY SizesAssumption DEF Total
<1>2. \A i \in 1 .. Len(p) : p[i] \in DevicePatches
  <2> SUFFICES ASSUME NEW i \in 1 .. Len(p) PROVE p[i] \in DevicePatches
    OBVIOUS
  <2>1. p[i] \in PatchRecords
    BY DEF PatchLists
  <2>2. p[i].off < Total
    BY DEF PatchLists, OffsetsInStorage
  <2>3. p[i].off \in Offsets
    BY <1>1, <2>1, <2>2 DEF PatchRecords, Offsets
  <2> QED BY <2>1, <2>3 DEF PatchRecords, DevicePatches
<1> QED BY <1>2, SeqOfElements DEF PatchLists

LEMMA EvaluationsType ==
  ASSUME kernels \in Seq(EvalKernels)
  PROVE  Evaluations \in Seq(Operations)
<1>1. \A k \in 1 .. Len(kernels) : EvalKernel(kernels[k]) \in Operations
  BY OperationKinds
<1>2. Len(kernels) \in Nat /\ DOMAIN kernels = 1 .. Len(kernels)
  OBVIOUS
<1> QED BY <1>1, <1>2 DEF Evaluations

LEMMA InitDataType ==
  ASSUME env \in EnvType, env.init # Unset
  PROVE  /\ env.init.size = "total" => env.init.data \in Images
         /\ env.init.size = "storage" => env.init.data \in StateImages
<1>1. env.init \in InitFiles
  BY DEF EnvType, Given
<1> QED BY <1>1 DEF InitFiles

LEMMA InitOperationsType ==
  ASSUME env \in EnvType, env.init = Unset \/ InitFitsTotal \/ InitFitsState
  PROVE  InitOperations \in Seq(Operations)
<1>1. CASE env.init = Unset
  BY <1>1 DEF InitOperations, InitFitsTotal, InitFitsState
<1>2. CASE env.init # Unset /\ InitFitsTotal
  <2>1. env.init.data \in Images
    BY <1>2, InitDataType DEF InitFitsTotal
  <2>2. Upload(env.init.data) \in Operations
    BY <2>1, OperationKinds
  <2>3. InitOperations = <<Upload(env.init.data)>>
    BY <1>2 DEF InitOperations, InitFitsTotal, InitFitsState
  <2> QED BY <2>2, <2>3
<1>3. CASE env.init # Unset /\ ~InitFitsTotal /\ InitFitsState
  <2>1. env.init.data \in StateImages
    BY <1>3, InitDataType DEF InitFitsState
  <2>2. CASE OnDevice
    <3>1. InitOperations = <<ReplicateKernel(env.init.data)>>
      BY <1>3, <2>2 DEF InitOperations, InitFitsTotal, InitFitsState
    <3> QED BY <2>1, <3>1, OperationKinds
  <2>3. CASE ~OnDevice
    <3>1. InitOperations = [s \in 1 .. NStates |-> UploadState(s - 1, env.init.data)]
      BY <1>3, <2>3 DEF InitOperations
    <3>2. \A s \in 1 .. NStates : s - 1 \in States
      BY SizesAssumption DEF States
    <3>3. \A s \in 1 .. NStates : UploadState(s - 1, env.init.data) \in Operations
      BY <2>1, <3>2, OperationKinds
    <3>4. NStates \in Nat
      BY SizesAssumption
    <3> QED BY <3>1, <3>3, <3>4
  <2> QED BY <2>2, <2>3
<1> QED BY <1>1, <1>2, <1>3

LEMMA HostPatchesType ==
  ASSUME TypeOK, StepsRemain
  PROVE  HostPatches \in PatchLists
<1>1. args.patches \in PatchLists
  BY LaunchesAssumption DEF TypeOK, args, ArgsType
<1>2. ScriptPatches \in PatchLists
  <2>1. CASE script = <<>>
    BY <2>1 DEF ScriptPatches, PatchLists
  <2>2. CASE script # <<>>
    <3>1. step + 1 \in 1 .. Len(script)
      BY <2>2 DEF TypeOK, StepsRemain, StepsOfPhase
    <3> QED BY <2>2, <3>1 DEF ScriptPatches, TypeOK
  <2> QED BY <2>1, <2>2
<1> QED BY <1>1, <1>2 DEF HostPatches, PatchLists

LEMMA ScheduledPatchesType ==
  ASSUME TypeOK
  PROVE  ScheduledPatches \in Seq(DevicePatches)
<1>1. steps \in Nat /\ phase \in Nat /\ step \in Nat
  BY DEF TypeOK, StepsOfPhase
<1>2. LogicalStep \in Nat
  BY <1>1 DEF LogicalStep
<1>3. CASE LogicalStep < Len(schedule)
  BY <1>2, <1>3 DEF ScheduledPatches, TypeOK
<1>4. CASE ~(LogicalStep < Len(schedule))
  BY <1>4 DEF ScheduledPatches
<1> QED BY <1>3, <1>4

LEMMA StepOperationsType ==
  ASSUME TypeOK, StepsRemain, OffsetsInStorage(HostPatches)
  PROVE  StepOperations \in Seq(Operations)
<1>1. HostPatches \in Seq(DevicePatches)
  BY HostPatchesType, CheckedPatches
<1>2. [i \in DOMAIN HostPatches |-> CopyByte(HostPatches[i])] \in Seq(Operations)
  <2>1. \A i \in 1 .. Len(HostPatches) : CopyByte(HostPatches[i]) \in Operations
    BY <1>1, OperationKinds
  <2>2. DOMAIN HostPatches = 1 .. Len(HostPatches) /\ Len(HostPatches) \in Nat
    BY <1>1
  <2> QED BY <2>1, <2>2
<1>3. (IF ScheduledPatches # <<>> THEN <<PatchKernel(ScheduledPatches)>> ELSE <<>>)
        \in Seq(Operations)
  <2>1. PatchKernel(ScheduledPatches) \in Operations
    BY ScheduledPatchesType, OperationKinds
  <2> QED BY <2>1
<1>4. Evaluations \in Seq(Operations)
  BY EvaluationsType DEF TypeOK
<1> QED BY <1>2, <1>3, <1>4 DEF StepOperations

----------------------------------------------------------------------------
(* Type correctness.  TypeOK is not inductive: that phase and repeat stay  *)
(* below their limits rests on the settings having been checked before the *)
(* loop and on the tests the loop makes before it goes round again, and    *)
(* that step stays within the phase rests on the script and the step count *)
(* not changing once a step was issued.                                    *)

SetupStages ==
  {"cli", "settings", "script", "kernels", "alloc", "init", "initsync", "schedule"}

Accepted == stage \notin {"cli", "settings", "failed"} => SettingsAccepted

NotBegun == stage \in SetupStages => repeat = 0 /\ phase = 0 /\ step = 0

Counting ==
  /\ stage = "repeat" => repeat < Timing
  /\ stage = "nextphase" => phase + 1 < PhaseCount

TypeInv == TypeOK /\ Accepted /\ NotBegun /\ Counting

LEMMA EnvOfType ==
  ASSUME launch \in Launches
  PROVE  EnvOf(args, launch.ambient) \in EnvType
<1>1. args \in ArgsType /\ launch.ambient \in EnvType
  BY LaunchesAssumption DEF args
<1>2. KernelsSetting(args) \in Given(Seq(EvalKernels))
  BY <1>1, KernelsAssumption DEF KernelsSetting, ArgsType
<1>3. /\ args.dumpState \in Given(DumpPaths)
      /\ args.script \in Given(Seq(PatchLists) \ {<<>>})
      /\ args.resident \in BOOLEAN /\ args.replicate \in BOOLEAN /\ args.handle \in BOOLEAN
      /\ args.init \in Given(InitFiles)
  BY <1>1 DEF ArgsType
<1>4. TimingSetting(args) \in Given(Int)
  BY <1>1 DEF ArgsType, TimingSetting, Given
<1>5. /\ PersistentSetting(args, args.phase) \in Given(Int)
      /\ PersistentSetting(args, args.phases) \in Given(Int)
      /\ PersistentSetting(args, args.dumps) \in Given(Seq(DumpPaths))
  BY <1>1 DEF ArgsType, PersistentSetting, Given
<1> QED BY <1>1, <1>2, <1>3, <1>4, <1>5 DEF EnvOf, EnvType

(* Steps that neither touch the loop's counters nor what TypeOK bounds     *)
(* them by.                                                                *)
LEMMA CountersKept ==
  ASSUME TypeInv, UNCHANGED <<launch, env, script, schedule, steps, kernels>>,
         UNCHANGED <<repeat, phase, step, timed>>
  PROVE  /\ repeat' \in 0 .. MaxTiming /\ phase' \in 0 .. MaxPhases - 1
         /\ step' \in 0 .. StepsOfPhase' /\ timed' \in Nat
         /\ launch' \in Launches /\ env' \in EnvType
         /\ script' \in Seq(PatchLists) /\ schedule' \in Seq(Seq(DevicePatches))
         /\ steps' \in Nat /\ kernels' \in Seq(EvalKernels)
         /\ Timing' = Timing /\ PhaseCount' = PhaseCount
         /\ SettingsAccepted' = SettingsAccepted
  BY DEF TypeInv, TypeOK, StepsOfPhase, Timing, PhaseCount, Persistent, PhaseDumps,
    SettingsAccepted, PersistentSettingsAccepted

(* Operations issued in one action are appended in the order of the calls. *)
LEMMA ConcatThree ==
  ASSUME NEW S, NEW a \in Seq(S), NEW b \in Seq(S), NEW c \in Seq(S)
  PROVE  (a \o b) \o c = a \o (b \o c)
OBVIOUS

(* Appending operations keeps the stream and the threads of its head.      *)
LEMMA IssueType ==
  ASSUME TypeOK, NEW ops \in Seq(Operations), stream' = stream \o ops, UNCHANGED ran
  PROVE  /\ stream' \in Seq(Operations)
         /\ IF stream' = <<>> THEN ran' = {} ELSE ran' \in SUBSET Threads(Head(stream'))
<1>1. stream \in Seq(Operations) /\ stream' \in Seq(Operations)
  BY DEF TypeOK
<1>2. CASE stream = <<>>
  <2>1. ran = {}
    BY <1>2 DEF TypeOK
  <2> QED BY <1>1, <2>1
<1>3. CASE stream # <<>>
  <2>1. Head(stream') = Head(stream) /\ stream' # <<>>
    BY <1>1, <1>3
  <2>2. ran \in SUBSET Threads(Head(stream))
    BY <1>3 DEF TypeOK
  <2> QED BY <1>1, <2>1, <2>2
<1> QED BY <1>2, <1>3

(* Steps past the settings that keep the configuration and the counters:   *)
(* what is left to show of them.                                           *)
LEMMA KeptType ==
  ASSUME TypeInv, UNCHANGED <<launch, env, script, schedule, steps, kernels>>,
         UNCHANGED <<repeat, phase, step, timed>>,
         stage \notin {"cli", "settings", "failed"},
         stage' \in Stages,
         stage' \in SetupStages => stage \in SetupStages,
         stage' = "repeat" => repeat < Timing,
         stage' = "nextphase" => phase + 1 < PhaseCount,
         mem' \in Images, stream' \in Seq(Operations),
         IF stream' = <<>> THEN ran' = {} ELSE ran' \in SUBSET Threads(Head(stream')),
         launches' \in Nat, files' \in [DumpPaths -> Images \cup {Old, Partial}]
  PROVE  TypeInv'
<1>1. TypeOK'
  BY CountersKept DEF TypeOK
<1>2. Accepted'
  BY CountersKept DEF TypeInv, Accepted
<1>3. NotBegun' /\ Counting'
  BY CountersKept DEF TypeInv, NotBegun, Counting
<1> QED BY <1>1, <1>2, <1>3 DEF TypeInv

(* Steps that only move on to another stage.                               *)
LEMMA MovedType ==
  ASSUME TypeInv, UNCHANGED <<launch, env, script, schedule, steps, kernels>>,
         UNCHANGED <<repeat, phase, step, timed>>, UNCHANGED <<mem, stream, ran>>,
         stage \notin {"cli", "settings", "failed"},
         stage' \in Stages,
         stage' \in SetupStages => stage \in SetupStages,
         stage' = "repeat" => repeat < Timing,
         stage' = "nextphase" => phase + 1 < PhaseCount,
         launches' \in Nat, files' \in [DumpPaths -> Images \cup {Old, Partial}]
  PROVE  TypeInv'
<1>1. /\ mem' \in Images /\ stream' \in Seq(Operations)
      /\ IF stream' = <<>> THEN ran' = {} ELSE ran' \in SUBSET Threads(Head(stream'))
  BY DEF TypeInv, TypeOK
<1> QED BY <1>1, KeptType

(* What a dump writes is an image or the trace of a failed write.          *)
LEMMA DumpType ==
  ASSUME TypeOK, NEW path \in DumpPaths, NEW next, Dump(path, next)
  PROVE  /\ files' \in [DumpPaths -> Images \cup {Old, Partial}]
         /\ stage' \in {next, "failed"}
  BY DEF Dump, TypeOK

LEMMA TypeInvInit == Init => TypeInv
<1> SUFFICES ASSUME Init PROVE TypeInv
  OBVIOUS
<1>1. env \in EnvType
  BY LaunchesAssumption DEF Init
<1>2. mem \in Images
  BY ByteAssumption DEF Init, Zero, Images, StateImages
<1>3. repeat \in 0 .. MaxTiming /\ phase \in 0 .. MaxPhases - 1
  BY BoundsAssumption DEF Init
<1>4. step \in 0 .. StepsOfPhase
  BY DEF Init, StepsOfPhase
<1>5. files \in [DumpPaths -> Images \cup {Old, Partial}]
  BY DEF Init
<1>6. stage \in Stages
  BY DEF Init, Stages
<1>7. TypeOK
  BY <1>1, <1>2, <1>3, <1>4, <1>5, <1>6 DEF Init, TypeOK
<1> QED BY <1>7 DEF TypeInv, Init, Accepted, NotBegun, Counting, SetupStages

(* What is left to show of a step once the settings and the counters are   *)
(* kept.                                                                   *)
LEMMA TypeInvStep == TypeInv /\ [Next]_vars => TypeInv'
<1> SUFFICES ASSUME TypeInv, [Next]_vars PROVE TypeInv'
  OBVIOUS
<1>type. TypeOK /\ Accepted /\ NotBegun /\ Counting
  BY DEF TypeInv
<1> USE DEF config, device, progress, outputs
<1>1. CASE Launch
  <2>1. env' \in EnvType
    BY <1>1, <1>type, EnvOfType DEF Launch, TypeOK
  <2>2. stage' \in {"settings", "failed"}
    BY <1>1 DEF Launch
  <2>3. TypeOK'
    BY <1>1, <1>type, <2>1, <2>2 DEF Launch, TypeOK, Stages, StepsOfPhase
  <2> QED BY <1>1, <1>type, <2>2, <2>3
    DEF Launch, TypeInv, Accepted, NotBegun, Counting, SetupStages
<1>2. CASE CheckSettings
  <2>1. steps' \in Nat
    BY <1>2, <1>type, LaunchesAssumption DEF CheckSettings, TypeOK, ArgsType, args
  <2>2. step' \in 0 .. StepsOfPhase'
    BY <1>2, <1>type, <2>1 DEF CheckSettings, TypeOK, StepsOfPhase, NotBegun, SetupStages
  <2>3. stage' = (IF SettingsAccepted THEN "script" ELSE "failed")
    BY <1>2 DEF CheckSettings
  <2>4. TypeOK'
    BY <1>2, <1>type, <2>1, <2>2, <2>3 DEF CheckSettings, TypeOK, Stages
  <2>5. Accepted'
    BY <1>2, <2>3 DEF CheckSettings, Accepted, SettingsAccepted, PersistentSettingsAccepted,
      Timing, Persistent, PhaseCount, PhaseDumps
  <2> QED BY <1>2, <1>type, <2>3, <2>4, <2>5
    DEF CheckSettings, TypeInv, NotBegun, Counting, SetupStages
<1>3. CASE LoadScript
  <2>1. script' \in Seq(PatchLists) /\ steps' \in Nat
    <3>1. CASE env.script = Unset
      BY <1>3, <1>type, <3>1 DEF LoadScript, TypeOK
    <3>2. CASE env.script # Unset
      <4>1. env.script \in Seq(PatchLists)
        BY <1>type, <3>2 DEF TypeOK, EnvType, Given
      <4> QED BY <1>3, <3>2, <4>1 DEF LoadScript
    <3> QED BY <3>1, <3>2
  <2>2. step' = 0 /\ step' \in 0 .. StepsOfPhase'
    BY <1>3, <1>type, <2>1 DEF LoadScript, StepsOfPhase, NotBegun, SetupStages
  <2>3. stage' \in {"kernels", "failed"}
    BY <1>3 DEF LoadScript
  <2>4. TypeOK'
    BY <1>3, <1>type, <2>1, <2>2, <2>3 DEF LoadScript, TypeOK, Stages
  <2>5. Accepted'
    BY <1>3, <1>type DEF LoadScript, Accepted, SettingsAccepted, PersistentSettingsAccepted,
      Timing, Persistent, PhaseCount, PhaseDumps
  <2> QED BY <1>3, <1>type, <2>3, <2>4, <2>5
    DEF LoadScript, TypeInv, NotBegun, Counting, SetupStages
<1>4. CASE ResolveKernels
  <2>1. KernelChain \in Seq(EvalKernels)
    <3>1. CASE env.kernels \in {Unset, <<>>}
      BY <3>1, KernelsAssumption DEF KernelChain
    <3>2. CASE env.kernels \notin {Unset, <<>>}
      BY <3>2, <1>type DEF KernelChain, TypeOK, EnvType, Given
    <3> QED BY <3>1, <3>2
  <2>2. stage' \in {"alloc", "failed"}
    BY <1>4 DEF ResolveKernels
  <2>3. TypeOK'
    BY <1>4, <1>type, <2>1, <2>2 DEF ResolveKernels, TypeOK, Stages, StepsOfPhase
  <2>4. Accepted'
    BY <1>4, <1>type DEF ResolveKernels, Accepted, SettingsAccepted,
      PersistentSettingsAccepted, Timing, Persistent, PhaseCount, PhaseDumps
  <2> QED BY <1>4, <1>type, <2>2, <2>3, <2>4
    DEF ResolveKernels, TypeInv, NotBegun, Counting, SetupStages
<1>5. CASE Allocate
  <2>1. <<Memset>> \in Seq(Operations) /\ stream' = stream \o <<Memset>>
    BY <1>5, <1>type, OperationKinds DEF Allocate, TypeOK
  <2>2. /\ stream' \in Seq(Operations)
        /\ IF stream' = <<>> THEN ran' = {} ELSE ran' \in SUBSET Threads(Head(stream'))
    BY <1>5, <1>type, <2>1, IssueType DEF Allocate
  <2>3. mem' \in Images /\ launches' \in Nat /\ files' \in [DumpPaths -> Images \cup {Old, Partial}]
    BY <1>5, <1>type DEF Allocate, TypeOK
  <2> QED BY <1>5, <2>2, <2>3, KeptType DEF Allocate, Stages, SetupStages
<1>6. CASE UploadInitState
  <2>1. mem' \in Images /\ launches' \in Nat /\ files' \in [DumpPaths -> Images \cup {Old, Partial}]
    BY <1>6, <1>type DEF UploadInitState, TypeOK
  <2>2. CASE env.init = Unset \/ InitFitsTotal \/ InitFitsState
    <3>1. InitOperations \in Seq(Operations)
      BY <1>type, <2>2, InitOperationsType DEF TypeOK
    <3>2. stream' = stream \o InitOperations /\ stage' \in {"initsync", "schedule"}
      BY <1>6, <2>2 DEF UploadInitState
    <3>3. /\ stream' \in Seq(Operations)
          /\ IF stream' = <<>> THEN ran' = {} ELSE ran' \in SUBSET Threads(Head(stream'))
      BY <1>6, <1>type, <3>1, <3>2, IssueType DEF UploadInitState
    <3> QED BY <1>6, <2>1, <3>2, <3>3, KeptType DEF UploadInitState, Stages, SetupStages
  <2>3. CASE ~(env.init = Unset \/ InitFitsTotal \/ InitFitsState)
    <3>1. stage' = "failed" /\ UNCHANGED <<mem, stream, ran>>
      BY <1>6, <2>3 DEF UploadInitState
    <3> QED BY <1>6, <2>1, <3>1, MovedType DEF UploadInitState, Stages, SetupStages
  <2> QED BY <2>2, <2>3
<1>7. CASE InitSynchronized
  BY <1>7, <1>type, MovedType DEF InitSynchronized, Stages, SetupStages, TypeOK
<1>8. CASE BuildSchedule
  <2>1. repeat < Timing /\ repeat = 0 /\ step = 0 /\ phase = 0
    BY <1>8, <1>type, BoundsAssumption
    DEF BuildSchedule, Accepted, SettingsAccepted, NotBegun, SetupStages
  <2>2. script' \in Seq(PatchLists) /\ schedule' \in Seq(Seq(DevicePatches))
    <3>1. CASE UNCHANGED <<script, schedule>>
      BY <1>type, <3>1 DEF TypeOK
    <3>2. CASE ~UNCHANGED <<script, schedule>>
      <4>1. /\ schedule' = script /\ script' = <<>>
            /\ \A i \in DOMAIN script : OffsetsInStorage(script[i])
        BY <1>8, <3>2 DEF BuildSchedule, ScriptForgotten
      <4>2. \A i \in 1 .. Len(script) : script[i] \in Seq(DevicePatches)
        BY <1>type, <4>1, CheckedPatches DEF TypeOK
      <4>3. script \in Seq(Seq(DevicePatches))
        BY <1>type, <4>2, SeqOfElements DEF TypeOK
      <4> QED BY <4>1, <4>3
    <3> QED BY <3>1, <3>2
  <2>3. stage' = "repeat" \/ stage' = "failed"
    BY <1>8 DEF BuildSchedule
  <2>4. step' \in 0 .. StepsOfPhase'
    BY <1>8, <1>type, <2>1, <2>2 DEF BuildSchedule, StepsOfPhase, TypeOK
  <2>5. TypeOK'
    BY <1>8, <1>type, <2>2, <2>3, <2>4 DEF BuildSchedule, TypeOK, Stages
  <2>6. Accepted'
    BY <1>8, <1>type DEF BuildSchedule, Accepted, SettingsAccepted,
      PersistentSettingsAccepted, Timing, Persistent, PhaseCount, PhaseDumps
  <2>7. NotBegun' /\ Counting'
    BY <1>8, <2>1, <2>3 DEF BuildSchedule, NotBegun, Counting, SetupStages, Timing
  <2> QED BY <2>5, <2>6, <2>7 DEF TypeInv
<1>9. CASE BeginRepeat
  <2>1. (ClearForRepeat \o (IF env.warmup THEN Evaluations ELSE <<>>)) \in Seq(Operations)
    <3>1. ClearForRepeat \in Seq(Operations)
      BY OperationKinds DEF ClearForRepeat
    <3>2. (IF env.warmup THEN Evaluations ELSE <<>>) \in Seq(Operations)
      BY <1>type, EvaluationsType DEF TypeOK
    <3> QED BY <3>1, <3>2
  <2>2. stream' = stream \o (ClearForRepeat \o (IF env.warmup THEN Evaluations ELSE <<>>))
    <3>1. stream \in Seq(Operations) /\ ClearForRepeat \in Seq(Operations)
      BY <1>type, OperationKinds DEF TypeOK, ClearForRepeat
    <3>2. (IF env.warmup THEN Evaluations ELSE <<>>) \in Seq(Operations)
      BY <1>type, EvaluationsType DEF TypeOK
    <3>3. stream' = (stream \o ClearForRepeat) \o (IF env.warmup THEN Evaluations ELSE <<>>)
      BY <1>9 DEF BeginRepeat
    <3>4. ASSUME NEW w \in Seq(Operations)
          PROVE  (stream \o ClearForRepeat) \o w = stream \o (ClearForRepeat \o w)
      BY <3>1, ConcatThree
    <3> DEFINE Warm == IF env.warmup THEN Evaluations ELSE <<>>
    <3>5. Warm \in Seq(Operations) /\ stream' = (stream \o ClearForRepeat) \o Warm
      BY <3>2, <3>3
    <3> HIDE DEF Warm
    <3>6. stream' = stream \o (ClearForRepeat \o Warm)
      BY <3>4, <3>5
    <3> QED BY <3>6 DEF Warm
  <2>3. /\ stream' \in Seq(Operations)
        /\ IF stream' = <<>> THEN ran' = {} ELSE ran' \in SUBSET Threads(Head(stream'))
    BY <1>9, <1>type, <2>1, <2>2, IssueType DEF BeginRepeat
  <2>4. repeat' \in 0 .. MaxTiming
    <3>1. repeat < Timing /\ Timing \in 1 .. MaxTiming
      BY <1>9, <1>type DEF BeginRepeat, Counting, Accepted, SettingsAccepted
    <3>2. repeat \in Nat /\ MaxTiming \in Nat
      BY <1>type, BoundsAssumption DEF TypeOK
    <3> QED BY <1>9, <3>1, <3>2 DEF BeginRepeat
  <2>5. phase' \in 0 .. MaxPhases - 1 /\ step' \in 0 .. StepsOfPhase' /\ timed' \in Nat
    BY <1>9, <1>type, BoundsAssumption DEF BeginRepeat, TypeOK, StepsOfPhase
  <2>6. stage' = "warmup" \/ stage' = "loop"
    BY <1>9 DEF BeginRepeat
  <2>7. TypeOK'
    BY <1>9, <1>type, <2>3, <2>4, <2>5, <2>6 DEF BeginRepeat, TypeOK, Stages
  <2>8. Accepted'
    BY <1>9, <1>type DEF BeginRepeat, Accepted, SettingsAccepted,
      PersistentSettingsAccepted, Timing, Persistent, PhaseCount, PhaseDumps
  <2> QED BY <2>6, <2>7, <2>8 DEF TypeInv, NotBegun, Counting, SetupStages
<1>10. CASE WarmedUp
  BY <1>10, <1>type, MovedType DEF WarmedUp, Stages, SetupStages, TypeOK
<1>11. CASE IssueStep
  <2>1. CASE OffsetsInStorage(HostPatches)
    <3>1. StepOperations \in Seq(Operations)
      BY <1>11, <1>type, <2>1, StepOperationsType DEF IssueStep
    <3>2. /\ stream' = stream \o StepOperations /\ step' = step + 1 /\ timed' = timed + 1
          /\ stage' \in {"stepsync", "loop"} /\ UNCHANGED ran
      BY <1>11, <2>1 DEF IssueStep
    <3>3. /\ stream' \in Seq(Operations)
          /\ IF stream' = <<>> THEN ran' = {} ELSE ran' \in SUBSET Threads(Head(stream'))
      BY <1>type, <3>1, <3>2, IssueType
    <3>4. step' \in 0 .. StepsOfPhase' /\ timed' \in Nat
      <4>1. StepsOfPhase' = StepsOfPhase /\ StepsOfPhase \in Nat
        BY <1>11, <1>type DEF IssueStep, StepsOfPhase, TypeOK
      <4> QED BY <1>11, <1>type, <3>2, <4>1 DEF IssueStep, StepsRemain, TypeOK
    <3>5. TypeOK'
      BY <1>11, <1>type, <3>2, <3>3, <3>4 DEF IssueStep, TypeOK, Stages
    <3>6. Accepted'
      BY <1>11, <1>type DEF IssueStep, Accepted, SettingsAccepted,
        PersistentSettingsAccepted, Timing, Persistent, PhaseCount, PhaseDumps
    <3> QED BY <3>2, <3>5, <3>6 DEF TypeInv, NotBegun, Counting, SetupStages
  <2>2. CASE ~OffsetsInStorage(HostPatches)
    <3>1. stage' = "failed" /\ UNCHANGED <<stream, step, timed>>
      BY <1>11, <2>2 DEF IssueStep
    <3> QED BY <1>11, <1>type, <3>1, MovedType DEF IssueStep, Stages, SetupStages, TypeOK
  <2> QED BY <2>1, <2>2
<1>12. CASE StepSynchronized
  BY <1>12, <1>type, MovedType DEF StepSynchronized, Stages, SetupStages, TypeOK
<1>13. CASE EndLoop
  BY <1>13, <1>type, MovedType DEF EndLoop, AfterSteps, Stages, SetupStages, TypeOK
<1>14. CASE EndPhase
  <2>1. AfterPhase \in {"nextphase", "finalsync"} /\ (AfterPhase = "nextphase" => phase + 1 < PhaseCount)
    BY DEF AfterPhase
  <2>2. /\ files' \in [DumpPaths -> Images \cup {Old, Partial}]
        /\ stage' \in {AfterPhase, "failed"}
    <3>1. CASE phase < Len(PhaseDumps)
      <4>1. PhaseDumps \in Seq(DumpPaths) /\ phase \in Nat
        BY <1>type DEF PhaseDumps, TypeOK, EnvType, Given
      <4>2. PhaseDumps[phase + 1] \in DumpPaths
        BY <3>1, <4>1
      <4> QED BY <1>14, <1>type, <3>1, <4>2, DumpType DEF EndPhase
    <3>2. CASE ~(phase < Len(PhaseDumps))
      BY <1>14, <1>type, <3>2 DEF EndPhase, TypeOK
    <3> QED BY <3>1, <3>2
  <2>3. launches' \in Nat /\ stage' \in Stages /\ stage' \notin SetupStages /\ stage' # "repeat"
    BY <1>14, <1>type, <2>1, <2>2 DEF EndPhase, TypeOK, Stages, SetupStages
  <2> QED BY <1>14, <2>1, <2>2, <2>3, MovedType DEF EndPhase
<1>15. CASE NextPhase
  <2>1. phase' \in 0 .. MaxPhases - 1
    <3>1. phase + 1 < PhaseCount /\ PhaseCount \in 1 .. MaxPhases
      <4>1. Persistent
        BY <1>15, <1>type, BoundsAssumption DEF NextPhase, Counting, PhaseCount, TypeOK
      <4> QED BY <1>15, <1>type, <4>1
        DEF NextPhase, Counting, Accepted, SettingsAccepted, PersistentSettingsAccepted
    <3> QED BY <1>15, <1>type, <3>1, BoundsAssumption DEF NextPhase, TypeOK
  <2>2. step' \in 0 .. StepsOfPhase' /\ timed' \in Nat
    BY <1>15, <1>type DEF NextPhase, TypeOK, StepsOfPhase
  <2>3. TypeOK'
    BY <1>15, <1>type, <2>1, <2>2 DEF NextPhase, TypeOK, Stages
  <2>4. Accepted'
    BY <1>15, <1>type DEF NextPhase, Accepted, SettingsAccepted,
      PersistentSettingsAccepted, Timing, Persistent, PhaseCount, PhaseDumps
  <2> QED BY <1>15, <2>3, <2>4 DEF NextPhase, TypeInv, NotBegun, Counting, SetupStages
<1>16. CASE FinalSynchronized
  BY <1>16, <1>type, MovedType DEF FinalSynchronized, Stages, SetupStages, TypeOK
<1>17. CASE EndRepeat
  BY <1>17, <1>type, MovedType DEF EndRepeat, Stages, SetupStages, TypeOK
<1>18. CASE Report
  <2>1. launches' \in Nat
    <3>1. steps \in Nat
      BY <1>type DEF TypeOK
    <3>2. CASE Persistent /\ PhaseCount > 1
      <4>1. PhaseCount \in Nat
        BY <1>18, <1>type, <3>2
        DEF Report, Accepted, SettingsAccepted, PersistentSettingsAccepted
      <4> QED BY <1>18, <3>1, <3>2, <4>1 DEF Report, LaunchCount
    <3>3. CASE ~(Persistent /\ PhaseCount > 1)
      BY <1>18, <3>1, <3>3 DEF Report, LaunchCount
    <3> QED BY <3>2, <3>3
  <2> QED BY <1>18, <1>type, <2>1, MovedType DEF Report, Stages, SetupStages, TypeOK
<1>19. CASE DumpState
  <2>1. files' \in [DumpPaths -> Images \cup {Old, Partial}] /\ stage' \in {"cleanup", "failed"}
    <3>1. CASE env.dumpState = Unset
      BY <1>19, <1>type, <3>1 DEF DumpState, TypeOK
    <3>2. CASE env.dumpState # Unset
      <4>1. env.dumpState \in DumpPaths
        BY <1>type, <3>2 DEF TypeOK, EnvType, Given
      <4> QED BY <1>19, <1>type, <3>2, <4>1, DumpType DEF DumpState
    <3> QED BY <3>1, <3>2
  <2>2. launches' \in Nat /\ stage' \in Stages /\ stage' \notin SetupStages
    BY <1>19, <1>type, <2>1 DEF DumpState, TypeOK, Stages, SetupStages
  <2> QED BY <1>19, <2>1, <2>2, MovedType DEF DumpState
<1>20. CASE Cleanup
  BY <1>20, <1>type, MovedType DEF Cleanup, Stages, SetupStages, TypeOK
<1>21. CASE DeviceThread
  <2>1. PICK t \in Threads(Head(stream)) \ ran :
          /\ mem' = Effect(Head(stream), t, mem)
          /\ IF ran \cup {t} = Threads(Head(stream))
               THEN stream' = Tail(stream) /\ ran' = {}
               ELSE ran' = ran \cup {t} /\ UNCHANGED stream
    BY <1>21 DEF DeviceThread
  <2>2. stream \in Seq(Operations) /\ stream # <<>> /\ Head(stream) \in Operations
    BY <1>21, <1>type DEF DeviceThread, TypeOK
  <2>3. mem' \in Images
    BY <1>type, <2>1, <2>2, EffectType DEF TypeOK
  <2>4. /\ stream' \in Seq(Operations)
        /\ IF stream' = <<>> THEN ran' = {} ELSE ran' \in SUBSET Threads(Head(stream'))
    <3>1. CASE ran \cup {t} = Threads(Head(stream))
      BY <2>1, <2>2, <3>1
    <3>2. CASE ran \cup {t} # Threads(Head(stream))
      BY <1>type, <2>1, <2>2, <3>2 DEF TypeOK
    <3> QED BY <3>1, <3>2
  <2>5. UNCHANGED <<config, stage, progress, outputs>>
    BY <1>21 DEF DeviceThread
  <2>6. /\ TypeOK'
        /\ SettingsAccepted' = SettingsAccepted /\ Timing' = Timing /\ PhaseCount' = PhaseCount
    BY <1>type, <2>3, <2>4, <2>5, CountersKept DEF TypeOK
  <2> QED BY <1>type, <2>5, <2>6 DEF TypeInv, Accepted, NotBegun, Counting
<1>22. CASE Crash
  <2>1. /\ TypeOK'
    BY <1>22, <1>type, CountersKept DEF Crash, TypeOK, Stages
  <2> QED BY <1>22, <2>1 DEF Crash, TypeInv, Accepted, NotBegun, Counting, SetupStages
<1>23. CASE UNCHANGED vars
  <2>1. UNCHANGED <<config, stage, device, progress, outputs>>
    BY <1>23 DEF vars
  <2>2. /\ TypeOK'
        /\ SettingsAccepted' = SettingsAccepted /\ Timing' = Timing /\ PhaseCount' = PhaseCount
    BY <1>type, <2>1, CountersKept DEF TypeOK
  <2> QED BY <1>type, <2>1, <2>2 DEF TypeInv, Accepted, NotBegun, Counting
<1> QED
  BY <1>1, <1>2, <1>3, <1>4, <1>5, <1>6, <1>7, <1>8, <1>9, <1>10, <1>11, <1>12, <1>13,
    <1>14, <1>15, <1>16, <1>17, <1>18, <1>19, <1>20, <1>21, <1>22, <1>23
  DEF Next, Host, Setup, Loop, Finished

(* Every state of every run is well formed.  In particular no operation on *)
(* the stream and no entry of the schedule addresses a byte outside the    *)
(* device storage, whatever offsets the patches of a script name.          *)
THEOREM TypeCorrect == Spec => []TypeOK
<1>1. TypeInv => TypeOK
  BY DEF TypeInv
<1> QED BY <1>1, TypeInvInit, TypeInvStep, PTL DEF Spec

----------------------------------------------------------------------------
(* A resident run never copies a patch from the host.  The property is not *)
(* inductive: IssueStep keeps it only because BuildSchedule has taken the  *)
(* script away and LoadScript has refused the patches of the command line. *)

CopyFree(ops) == \A i \in 1 .. Len(ops) : ops[i].kind # "copy"

Refused == stage \notin {"cli", "settings", "script", "failed"} => args.patches = <<>>

Taken == stage \notin SetupStages \cup {"failed"} => script = <<>>

ResidentInv ==
  /\ stage = "cli" => stream = <<>>
  /\ env.resident => CopyFree(stream) /\ Refused /\ Taken

LEMMA CopyFreeOperations ==
  /\ Memset.kind # "copy"
  /\ \A img : Upload(img).kind # "copy"
  /\ \A s, d : UploadState(s, d).kind # "copy"
  /\ \A d : ReplicateKernel(d).kind # "copy"
  /\ \A r : PatchKernel(r).kind # "copy"
  /\ \A k : EvalKernel(k).kind # "copy"
  BY DEF Memset, Upload, UploadState, ReplicateKernel, PatchKernel, EvalKernel

LEMMA CopyFreeConcat ==
  ASSUME NEW S, NEW a \in Seq(S), NEW b \in Seq(S), CopyFree(a), CopyFree(b)
  PROVE  CopyFree(a \o b)
<1> SUFFICES ASSUME NEW i \in 1 .. Len(a \o b) PROVE (a \o b)[i].kind # "copy"
  BY DEF CopyFree
<1>1. CASE i <= Len(a)
  BY <1>1 DEF CopyFree
<1>2. CASE i > Len(a)
  <2>1. i - Len(a) \in 1 .. Len(b) /\ (a \o b)[i] = b[i - Len(a)]
    BY <1>2
  <2> QED BY <2>1 DEF CopyFree
<1> QED BY <1>1, <1>2

LEMMA CopyFreeEvaluations ==
  ASSUME kernels \in Seq(EvalKernels)
  PROVE  CopyFree(Evaluations)
<1>1. DOMAIN kernels = 1 .. Len(kernels) /\ Len(kernels) \in Nat
  OBVIOUS
<1>2. Len(Evaluations) = Len(kernels)
  BY <1>1 DEF Evaluations
<1> QED BY <1>1, <1>2, CopyFreeOperations DEF CopyFree, Evaluations

LEMMA CopyFreeInit ==
  ASSUME env \in EnvType, env.init = Unset \/ InitFitsTotal \/ InitFitsState
  PROVE  CopyFree(InitOperations)
<1>1. CASE InitOperations = <<>>
  BY <1>1 DEF CopyFree
<1>2. CASE InitOperations = <<Upload(env.init.data)>>
  BY <1>2, CopyFreeOperations DEF CopyFree
<1>3. CASE InitOperations = <<ReplicateKernel(env.init.data)>>
  BY <1>3, CopyFreeOperations DEF CopyFree
<1>4. CASE InitOperations = [s \in 1 .. NStates |-> UploadState(s - 1, env.init.data)]
  <2>1. Len(InitOperations) = NStates
    BY <1>4, SizesAssumption
  <2> QED BY <1>4, <2>1, CopyFreeOperations DEF CopyFree
<1>5. \/ InitOperations = <<>>
      \/ InitOperations = <<Upload(env.init.data)>>
      \/ InitOperations = <<ReplicateKernel(env.init.data)>>
      \/ InitOperations = [s \in 1 .. NStates |-> UploadState(s - 1, env.init.data)]
  BY DEF InitOperations, InitFitsTotal, InitFitsState
<1> QED BY <1>1, <1>2, <1>3, <1>4, <1>5

(* A step of a resident run: nothing is left for the host to copy.         *)
LEMMA CopyFreeStep ==
  ASSUME TypeOK, args.patches = <<>>, script = <<>>
  PROVE  CopyFree(StepOperations)
<1>1. HostPatches = <<>>
  BY DEF HostPatches, ScriptPatches
<1>2. StepOperations =
        (IF ScheduledPatches # <<>> THEN <<PatchKernel(ScheduledPatches)>> ELSE <<>>)
          \o Evaluations
  <2>1. [i \in DOMAIN HostPatches |-> CopyByte(HostPatches[i])] = <<>>
    BY <1>1
  <2>2. /\ Evaluations \in Seq(Operations)
        /\ (IF ScheduledPatches # <<>> THEN <<PatchKernel(ScheduledPatches)>> ELSE <<>>)
             \in Seq(Operations)
    BY EvaluationsType, ScheduledPatchesType, OperationKinds DEF TypeOK
  <2> QED BY <2>1, <2>2 DEF StepOperations
<1>3. CopyFree(Evaluations) /\ Evaluations \in Seq(Operations)
  BY CopyFreeEvaluations, EvaluationsType DEF TypeOK
<1>4. CASE ScheduledPatches = <<>>
  BY <1>2, <1>3, <1>4
<1>5. CASE ScheduledPatches # <<>>
  <2>1. CopyFree(<<PatchKernel(ScheduledPatches)>>)
    BY CopyFreeOperations DEF CopyFree
  <2>2. <<PatchKernel(ScheduledPatches)>> \in Seq(Operations)
    BY ScheduledPatchesType, OperationKinds
  <2> QED BY <1>2, <1>3, <1>5, <2>1, <2>2, CopyFreeConcat
<1> QED BY <1>4, <1>5

LEMMA ResidentInvInit == Init => ResidentInv
  BY DEF Init, ResidentInv, CopyFree, Refused, Taken, SetupStages

(* Steps that keep the stream, the script and the environment.             *)
LEMMA ResidentKept ==
  ASSUME ResidentInv, UNCHANGED <<launch, env, script, stream>>,
         stage \notin {"cli", "settings", "script", "failed"},
         stage' # "cli",
         stage' \in SetupStages \cup {"failed"} \/ stage \notin SetupStages
  PROVE  ResidentInv'
  BY DEF ResidentInv, CopyFree, Refused, Taken, args, SetupStages

(* Steps past the script that append operations none of which is a copy.   *)
LEMMA ResidentIssued ==
  ASSUME TypeInv, ResidentInv, UNCHANGED <<launch, env, script>>,
         NEW ops \in Seq(Operations), stream' = stream \o ops,
         env.resident => CopyFree(ops),
         stage \notin {"cli", "settings", "script", "failed"},
         stage' # "cli",
         stage' \in SetupStages \cup {"failed"} \/ stage \notin SetupStages
  PROVE  ResidentInv'
<1>1. env.resident => CopyFree(stream')
  BY CopyFreeConcat DEF TypeInv, TypeOK, ResidentInv
<1> QED BY <1>1 DEF ResidentInv, Refused, Taken, args, SetupStages

LEMMA ResidentInvStep == TypeInv /\ ResidentInv /\ [Next]_vars => ResidentInv'
<1> SUFFICES ASSUME TypeInv, ResidentInv, [Next]_vars PROVE ResidentInv'
  OBVIOUS
<1> USE DEF config, device, progress, outputs
<1>1. CASE Launch
  BY <1>1 DEF Launch, ResidentInv, CopyFree, Refused, Taken, SetupStages
<1>2. CASE CheckSettings
  BY <1>2 DEF CheckSettings, ResidentInv, CopyFree, Refused, Taken, SetupStages, args
<1>3. CASE LoadScript
  BY <1>3 DEF LoadScript, ModesAccepted, ResidentInv, CopyFree, Refused, Taken,
    SetupStages, args
<1>4. CASE ResolveKernels
  BY <1>4, ResidentKept DEF ResolveKernels, SetupStages
<1>5. CASE Allocate
  <2>1. stream' = stream \o <<Memset>> /\ CopyFree(<<Memset>>)
    BY <1>5, CopyFreeOperations DEF Allocate, CopyFree, TypeInv, TypeOK
  <2>2. <<Memset>> \in Seq(Operations)
    BY OperationKinds
  <2> QED BY <1>5, <2>1, <2>2, ResidentIssued DEF Allocate, SetupStages
<1>6. CASE UploadInitState
  <2>1. CASE env.init = Unset \/ InitFitsTotal \/ InitFitsState
    <3>1. InitOperations \in Seq(Operations) /\ CopyFree(InitOperations)
      BY <2>1, InitOperationsType, CopyFreeInit DEF TypeInv, TypeOK
    <3> QED BY <1>6, <2>1, <3>1, ResidentIssued DEF UploadInitState, SetupStages
  <2>2. CASE ~(env.init = Unset \/ InitFitsTotal \/ InitFitsState)
    BY <1>6, <2>2, ResidentKept DEF UploadInitState, SetupStages
  <2> QED BY <2>1, <2>2
<1>7. CASE InitSynchronized
  BY <1>7, ResidentKept DEF InitSynchronized, SetupStages
<1>8. CASE BuildSchedule
  BY <1>8 DEF BuildSchedule, ScriptForgotten, ResidentInv, CopyFree, Refused, Taken,
    SetupStages, args
<1>9. CASE BeginRepeat
  <2> DEFINE Warm == IF env.warmup THEN Evaluations ELSE <<>>
  <2>1. Warm \in Seq(Operations) /\ CopyFree(Warm)
    BY EvaluationsType, CopyFreeEvaluations DEF TypeInv, TypeOK, CopyFree
  <2>2. ClearForRepeat \in Seq(Operations) /\ CopyFree(ClearForRepeat)
    BY OperationKinds, CopyFreeOperations DEF ClearForRepeat, CopyFree
  <2>3. stream' = (stream \o ClearForRepeat) \o Warm /\ stream \in Seq(Operations)
    BY <1>9 DEF BeginRepeat, TypeInv, TypeOK
  <2> HIDE DEF Warm
  <2>4. env.resident => CopyFree(stream')
    <3>1. SUFFICES ASSUME env.resident PROVE CopyFree(stream')
      OBVIOUS
    <3>2. CopyFree(stream)
      BY <3>1 DEF ResidentInv
    <3>3. CopyFree(stream \o ClearForRepeat) /\ stream \o ClearForRepeat \in Seq(Operations)
      BY <2>2, <2>3, <3>2, CopyFreeConcat
    <3>4. CopyFree((stream \o ClearForRepeat) \o Warm)
      BY <2>1, <3>3, CopyFreeConcat
    <3> QED BY <2>3, <3>4
  <2>5. stage = "repeat" /\ stage' \in {"warmup", "loop"} /\ UNCHANGED <<launch, env, script>>
    BY <1>9 DEF BeginRepeat
  <2> QED BY <2>4, <2>5 DEF ResidentInv, Refused, Taken, args, SetupStages
<1>10. CASE WarmedUp
  BY <1>10, ResidentKept DEF WarmedUp, SetupStages
<1>11. CASE IssueStep
  <2>1. CASE OffsetsInStorage(HostPatches)
    <3>1. stage = "loop" /\ stage' \in {"stepsync", "loop"} /\ UNCHANGED <<launch, env, script>>
          /\ stream' = stream \o StepOperations
      BY <1>11, <2>1 DEF IssueStep
    <3>2. StepOperations \in Seq(Operations)
      BY <1>11, <2>1, StepOperationsType DEF IssueStep, TypeInv
    <3>3. env.resident => CopyFree(StepOperations)
      BY <3>1, CopyFreeStep DEF ResidentInv, Refused, Taken, SetupStages, TypeInv
    <3> QED BY <3>1, <3>2, <3>3, ResidentIssued DEF SetupStages
  <2>2. CASE ~OffsetsInStorage(HostPatches)
    BY <1>11, <2>2, ResidentKept DEF IssueStep, SetupStages
  <2> QED BY <2>1, <2>2
<1>12. CASE StepSynchronized
  BY <1>12, ResidentKept DEF StepSynchronized, SetupStages
<1>13. CASE EndLoop
  BY <1>13, ResidentKept DEF EndLoop, AfterSteps, SetupStages
<1>14. CASE EndPhase
  BY <1>14, ResidentKept DEF EndPhase, Dump, AfterPhase, SetupStages
<1>15. CASE NextPhase
  BY <1>15, ResidentKept DEF NextPhase, SetupStages
<1>16. CASE FinalSynchronized
  BY <1>16, ResidentKept DEF FinalSynchronized, SetupStages
<1>17. CASE EndRepeat
  BY <1>17, ResidentKept DEF EndRepeat, SetupStages
<1>18. CASE Report
  BY <1>18, ResidentKept DEF Report, SetupStages
<1>19. CASE DumpState
  BY <1>19, ResidentKept DEF DumpState, Dump, SetupStages
<1>20. CASE Cleanup
  BY <1>20, ResidentKept DEF Cleanup, SetupStages
<1>21. CASE DeviceThread
  <2>1. stream \in Seq(Operations) /\ stream # <<>>
    BY <1>21 DEF DeviceThread, TypeInv, TypeOK
  <2>2. stream' = Tail(stream) \/ stream' = stream
    BY <1>21 DEF DeviceThread
  <2>3. CopyFree(stream) => CopyFree(stream')
    BY <2>1, <2>2 DEF CopyFree
  <2>4. UNCHANGED <<launch, env, script, stage>>
    BY <1>21 DEF DeviceThread
  <2> QED BY <2>1, <2>3, <2>4 DEF ResidentInv, Refused, Taken, args
<1>22. CASE Crash
  BY <1>22 DEF Crash, ResidentInv, CopyFree, Refused, Taken, Stopped
<1>23. CASE UNCHANGED vars
  BY <1>23 DEF vars, ResidentInv, CopyFree, Refused, Taken, args
<1> QED
  BY <1>1, <1>2, <1>3, <1>4, <1>5, <1>6, <1>7, <1>8, <1>9, <1>10, <1>11, <1>12, <1>13,
    <1>14, <1>15, <1>16, <1>17, <1>18, <1>19, <1>20, <1>21, <1>22, <1>23
  DEF Next, Host, Setup, Loop, Finished

(* Once the launch loop of a resident run has begun, no patch is copied    *)
(* from the host, for every combination of arguments, inherited settings   *)
(* and script the launcher or a direct caller can give.                    *)
THEOREM ResidentNeverCopies == Spec => []ResidentStaysOnDevice
<1>1. TypeInv /\ ResidentInv => ResidentStaysOnDevice
  BY DEF TypeInv, TypeOK, ResidentInv, CopyFree, ResidentStaysOnDevice
<1> QED
  BY <1>1, TypeInvInit, TypeInvStep, ResidentInvInit, ResidentInvStep, PTL DEF Spec

----------------------------------------------------------------------------
(* The launch count.  main computes it from its settings; the invariant    *)
(* follows the steps between the timing events through the loop, for       *)
(* launches that do not synchronise a run of several phases: such a run    *)
(* takes the loop without phases and reports the launches of all of them.  *)

Unmixed == stage \notin {"cli", "failed"} /\ env.sync => PhaseCount = 1

ScriptIsOnePhase ==
  /\ stage \in {"cli", "settings", "script"} => script = <<>>
  /\ script # <<>> => Len(script) = steps
  /\ stage \notin {"cli", "settings", "script", "failed"} /\ PhaseCount > 1 => script = <<>>

InPhase == {"warmup", "loop", "stepsync"}
AfterAPhase == {"phasesync", "nextphase"}
AllPhasesDone == {"finalsync", "repeated", "report"}
Reported == {"dump", "cleanup", "done"}

TimedSteps ==
  /\ stage \in InPhase \cup AfterAPhase => phase < PhaseCount
  /\ stage \in InPhase => timed = phase * steps + step
  /\ stage \in AfterAPhase => timed = (phase + 1) * steps
  /\ stage \in AllPhasesDone => timed = PhaseCount * steps
  /\ stage \in Reported => launches = timed

CountInv == Unmixed /\ ScriptIsOnePhase /\ TimedSteps

LEMMA OneMore == ASSUME NEW p \in Nat, NEW s \in Nat
                 PROVE  p * s + s = (p + 1) * s /\ (p + 1) * s \in Nat /\ 0 * s = 0 /\ 1 * s = s
  OBVIOUS

(* How many phases there are once the settings are accepted.               *)
LEMMA PhaseCounts ==
  ASSUME TypeInv
  PROVE  /\ stage \notin {"cli", "settings", "failed"} => PhaseCount \in Nat /\ PhaseCount >= 1
         /\ PhaseCount > 1 => Persistent
<1>1. stage \notin {"cli", "settings", "failed"} => SettingsAccepted
  BY DEF TypeInv, Accepted
<1>2. Persistent /\ SettingsAccepted => PhaseCount \in 1 .. MaxPhases
  BY DEF SettingsAccepted, PersistentSettingsAccepted
<1>3. ~Persistent => PhaseCount = 1
  BY DEF PhaseCount
<1> QED BY <1>1, <1>2, <1>3, BoundsAssumption

(* A step of the run at which the settings, the script and the counters    *)
(* stay, from one of the stages to another of the same group.              *)
LEMMA CountKept ==
  ASSUME CountInv, UNCHANGED <<env, script, steps, phase, step, timed, launches>>,
         stage' \notin {"cli", "settings", "script"},
         \/ stage' \notin InPhase \cup AfterAPhase \cup AllPhasesDone \cup Reported
         \/ \E group \in {InPhase, AfterAPhase, AllPhasesDone, Reported} :
              stage \in group /\ stage' \in group,
         stage \notin {"cli", "settings", "script", "failed"} \/ stage' = "failed"
  PROVE  CountInv'
  BY DEF CountInv, Unmixed, ScriptIsOnePhase, TimedSteps, PhaseCount, Persistent,
    InPhase, AfterAPhase, AllPhasesDone, Reported

LEMMA CountInvInit == Init => CountInv
  BY DEF Init, CountInv, Unmixed, ScriptIsOnePhase, TimedSteps, InPhase, AfterAPhase,
    AllPhasesDone, Reported

LEMMA CountInvStep ==
  SyncedRunsHaveOnePhase /\ TypeInv /\ CountInv /\ [Next]_vars => CountInv'
<1> SUFFICES ASSUME SyncedRunsHaveOnePhase, TypeInv, CountInv, [Next]_vars PROVE CountInv'
  OBVIOUS
<1> USE DEF config, device, progress, outputs, InPhase, AfterAPhase, AllPhasesDone, Reported
<1>0. steps \in Nat /\ phase \in Nat /\ step \in Nat /\ timed \in Nat /\ step <= StepsOfPhase
  <2>1. StepsOfPhase \in Nat
    BY DEF StepsOfPhase, TypeInv, TypeOK
  <2> QED BY <2>1, BoundsAssumption DEF TypeInv, TypeOK
<1>1. CASE Launch
  <2>1. launch \in Launches /\ args = launch.args
    BY DEF TypeInv, TypeOK, args
  <2>2. stage' = "settings" => (env'.sync => PhaseCount' = 1)
    <3> SUFFICES ASSUME stage' = "settings", env'.sync PROVE PhaseCount' = 1
      OBVIOUS
    <3>1. env' = EnvOf(args, launch.ambient) /\ launch.ambient \in EnvType
      BY <1>1, <2>1, LaunchesAssumption DEF Launch
    <3>2. /\ env'.sync = launch.ambient.sync /\ env'.handle = args.handle
          /\ env'.count = IF args.handle THEN args.phases ELSE Unset
      BY <3>1 DEF EnvOf, EnvType, PersistentSetting
    <3>3. args.handle => args.phases \in {Unset, 1}
      BY <2>1, <3>2 DEF SyncedRunsHaveOnePhase
    <3> QED BY <3>2, <3>3 DEF PhaseCount, Persistent
  <2>3. stage' \in {"settings", "failed"} /\ script = <<>> /\ script' = script
    BY <1>1 DEF Launch, CountInv, ScriptIsOnePhase
  <2> QED BY <2>2, <2>3 DEF CountInv, Unmixed, ScriptIsOnePhase, TimedSteps
<1>2. CASE CheckSettings
  <2>1. stage = "settings" /\ script = <<>> /\ script' = script
        /\ stage' \in {"script", "failed"} /\ env' = env
    BY <1>2 DEF CheckSettings, CountInv, ScriptIsOnePhase
  <2> QED BY <2>1 DEF CountInv, Unmixed, ScriptIsOnePhase, TimedSteps, PhaseCount, Persistent
<1>3. CASE LoadScript
  <2>1. stage = "script" /\ script = <<>> /\ stage' \in {"kernels", "failed"} /\ env' = env
        /\ launch' = launch
    BY <1>3 DEF LoadScript, CountInv, ScriptIsOnePhase
  <2>2. script' # <<>> => Len(script') = steps'
    BY <1>3, <2>1 DEF LoadScript
  <2>3. stage' = "kernels" /\ PhaseCount > 1 => script' = <<>>
    <3>1. PhaseCount > 1 => Persistent
      BY PhaseCounts
    <3> QED BY <1>3, <2>1, <3>1 DEF LoadScript, ModesAccepted
  <2>4. PhaseCount' = PhaseCount
    BY <2>1 DEF PhaseCount, Persistent
  <2> QED BY <2>1, <2>2, <2>3, <2>4 DEF CountInv, Unmixed, ScriptIsOnePhase, TimedSteps
<1>4. CASE ResolveKernels
  BY <1>4, CountKept DEF ResolveKernels
<1>5. CASE Allocate
  BY <1>5, CountKept DEF Allocate
<1>6. CASE UploadInitState
  BY <1>6, CountKept DEF UploadInitState
<1>7. CASE InitSynchronized
  BY <1>7, CountKept DEF InitSynchronized
<1>8. CASE BuildSchedule
  <2>1. /\ stage = "schedule" /\ stage' \in {"repeat", "failed"}
        /\ script' \in {script, <<>>} /\ UNCHANGED <<env, steps>>
    BY <1>8 DEF BuildSchedule, ScriptForgotten
  <2>2. PhaseCount' = PhaseCount
    BY <2>1 DEF PhaseCount, Persistent
  <2> QED BY <2>1, <2>2 DEF CountInv, Unmixed, ScriptIsOnePhase, TimedSteps
<1>9. CASE BeginRepeat
  <2>1. /\ stage = "repeat" /\ stage' \in {"warmup", "loop"}
        /\ UNCHANGED <<env, script, steps>> /\ phase' = 0 /\ step' = 0 /\ timed' = 0
    BY <1>9 DEF BeginRepeat
  <2>2. PhaseCount' = PhaseCount /\ PhaseCount > 0
    BY <2>1, PhaseCounts DEF PhaseCount, Persistent
  <2>3. timed' = phase' * steps' + step'
    BY <1>0, <2>1, OneMore
  <2> QED BY <2>1, <2>2, <2>3 DEF CountInv, Unmixed, ScriptIsOnePhase, TimedSteps
<1>10. CASE WarmedUp
  BY <1>10, CountKept DEF WarmedUp
<1>11. CASE IssueStep
  <2>1. CASE OffsetsInStorage(HostPatches)
    <3>1. /\ stage = "loop" /\ stage' \in {"stepsync", "loop"}
          /\ UNCHANGED <<env, script, steps, phase>> /\ step' = step + 1 /\ timed' = timed + 1
      BY <1>11, <2>1 DEF IssueStep
    <3>2. PhaseCount' = PhaseCount
      BY <3>1 DEF PhaseCount, Persistent
    <3>3. timed = phase * steps + step /\ phase * steps \in Nat
      BY <1>0, <3>1, OneMore DEF CountInv, TimedSteps
    <3>4. timed' = phase' * steps' + step'
      BY <1>0, <3>1, <3>3
    <3> QED BY <3>1, <3>2, <3>4 DEF CountInv, Unmixed, ScriptIsOnePhase, TimedSteps
  <2>2. CASE ~OffsetsInStorage(HostPatches)
    BY <1>11, <2>2, CountKept DEF IssueStep
  <2> QED BY <2>1, <2>2
<1>12. CASE StepSynchronized
  BY <1>12, CountKept DEF StepSynchronized
<1>13. CASE EndLoop
  <2>1. /\ stage = "loop" /\ stage' = AfterSteps /\ ~StepsRemain
        /\ UNCHANGED <<env, script, steps, phase, step, timed>>
    BY <1>13 DEF EndLoop
  <2>2. PhaseCount' = PhaseCount /\ PhaseCount \in Nat /\ phase < PhaseCount
    BY <2>1, PhaseCounts DEF PhaseCount, Persistent, CountInv, TimedSteps
  <2>3. StepsOfPhase = steps
    BY <2>1 DEF StepsOfPhase, CountInv, ScriptIsOnePhase
  <2>4. timed = (phase + 1) * steps
    <3>1. step = steps
      BY <1>0, <2>1, <2>3 DEF StepsRemain
    <3>2. timed = phase * steps + steps
      BY <2>1, <3>1 DEF CountInv, TimedSteps
    <3> QED BY <1>0, <3>2, OneMore
  <2>5. CASE Phased
    BY <2>1, <2>2, <2>4, <2>5 DEF AfterSteps, CountInv, Unmixed, ScriptIsOnePhase, TimedSteps
  <2>6. CASE ~Phased
    <3>1. PhaseCount = 1 /\ phase = 0
      BY <1>0, <2>1, <2>2, <2>6, PhaseCounts DEF Phased, CountInv, Unmixed, ScriptIsOnePhase
    <3>2. timed = PhaseCount * steps
      BY <2>4, <3>1
    <3>3. stage' \in {"repeated", "finalsync"}
      BY <2>1, <2>6 DEF AfterSteps
    <3> QED BY <2>1, <2>2, <3>2, <3>3 DEF CountInv, Unmixed, ScriptIsOnePhase, TimedSteps
  <2> QED BY <2>5, <2>6
<1>14. CASE EndPhase
  <2>1. /\ stage = "phasesync" /\ stage' \in {AfterPhase, "failed"}
        /\ UNCHANGED <<env, script, steps, phase, step, timed, launches>>
    BY <1>14 DEF EndPhase, Dump
  <2>2. PhaseCount \in Nat /\ phase < PhaseCount /\ timed = (phase + 1) * steps
    BY <2>1, PhaseCounts DEF CountInv, TimedSteps
  <2>3. CASE stage' = "finalsync"
    <3>1. phase + 1 = PhaseCount
      BY <1>0, <2>1, <2>2, <2>3 DEF AfterPhase
    <3>2. timed = PhaseCount * steps /\ PhaseCount' = PhaseCount
      BY <2>1, <2>2, <3>1 DEF PhaseCount, Persistent
    <3> QED BY <2>1, <2>3, <3>2 DEF CountInv, Unmixed, ScriptIsOnePhase, TimedSteps
  <2>4. CASE stage' # "finalsync"
    BY <2>1, <2>4, CountKept DEF AfterPhase
  <2> QED BY <2>3, <2>4
<1>15. CASE NextPhase
  <2>1. /\ stage = "nextphase" /\ stage' = "loop" /\ phase' = phase + 1 /\ step' = 0
        /\ UNCHANGED <<env, script, steps, timed>>
    BY <1>15 DEF NextPhase
  <2>2. PhaseCount' = PhaseCount /\ phase + 1 < PhaseCount
    BY <2>1 DEF PhaseCount, Persistent, TypeInv, Counting
  <2>3. timed' = phase' * steps' + step'
    <3>1. timed = (phase + 1) * steps /\ (phase + 1) * steps \in Nat
      BY <1>0, <2>1, OneMore DEF CountInv, TimedSteps
    <3> QED BY <2>1, <3>1
  <2> QED BY <2>1, <2>2, <2>3 DEF CountInv, Unmixed, ScriptIsOnePhase, TimedSteps
<1>16. CASE FinalSynchronized
  BY <1>16, CountKept DEF FinalSynchronized
<1>17. CASE EndRepeat
  <2>1. stage = "repeated" /\ stage' \in {"repeat", "report"}
    BY <1>17 DEF EndRepeat
  <2> QED BY <1>17, <2>1, CountKept DEF EndRepeat
<1>18. CASE Report
  <2>1. /\ stage = "report" /\ stage' = "dump" /\ launches' = LaunchCount
        /\ UNCHANGED <<env, script, steps, timed>>
    BY <1>18 DEF Report
  <2>2. PhaseCount' = PhaseCount /\ PhaseCount \in Nat /\ PhaseCount >= 1
        /\ (PhaseCount > 1 => Persistent)
    BY <2>1, PhaseCounts DEF PhaseCount, Persistent
  <2>3. LaunchCount = PhaseCount * steps
    <3>1. CASE PhaseCount > 1
      BY <1>0, <2>2, <3>1 DEF LaunchCount
    <3>2. CASE PhaseCount = 1
      BY <1>0, <3>2, OneMore DEF LaunchCount
    <3> QED BY <2>2, <3>1, <3>2
  <2>4. launches' = timed'
    BY <2>1, <2>3 DEF CountInv, TimedSteps
  <2> QED BY <2>1, <2>2, <2>4 DEF CountInv, Unmixed, ScriptIsOnePhase, TimedSteps
<1>19. CASE DumpState
  BY <1>19, CountKept DEF DumpState, Dump
<1>20. CASE Cleanup
  BY <1>20, CountKept DEF Cleanup
<1>21. CASE DeviceThread
  BY <1>21 DEF DeviceThread, CountInv, Unmixed, ScriptIsOnePhase, TimedSteps, PhaseCount,
    Persistent
<1>22. CASE Crash
  BY <1>22 DEF Crash, CountInv, Unmixed, ScriptIsOnePhase, TimedSteps
<1>23. CASE UNCHANGED vars
  BY <1>23 DEF vars, CountInv, Unmixed, ScriptIsOnePhase, TimedSteps, PhaseCount, Persistent
<1> QED
  BY <1>1, <1>2, <1>3, <1>4, <1>5, <1>6, <1>7, <1>8, <1>9, <1>10, <1>11, <1>12, <1>13,
    <1>14, <1>15, <1>16, <1>17, <1>18, <1>19, <1>20, <1>21, <1>22, <1>23
  DEF Next, Host, Setup, Loop, Finished

(* The launch count a run reports is the number of steps its timing events *)
(* enclosed, in every combination of script, repetitions, warm-up and      *)
(* phases, as long as no shell synchronises each step of a run of several  *)
(* phases.                                                                 *)
THEOREM CountIsOfTimedSteps == SyncedRunsHaveOnePhase => (Spec => []LaunchCountIsTimed)
<1> SUFFICES ASSUME SyncedRunsHaveOnePhase PROVE Spec => []LaunchCountIsTimed
  OBVIOUS
<1>1. CountInv => LaunchCountIsTimed
  BY DEF CountInv, TimedSteps, Reported, LaunchCountIsTimed
<1>2. TypeInv /\ CountInv /\ [Next]_vars => CountInv'
  BY CountInvStep
<1> QED BY <1>1, <1>2, TypeInvInit, TypeInvStep, CountInvInit, PTL DEF Spec

----------------------------------------------------------------------------
(* The folds of the memory model, as the functions of their steps.         *)
EvalStep == [p \in Images \X EvalKernels |-> [s \in States |-> Eval[p[2]][p[1][s]]]]

WriteStep == [p \in Images \X DevicePatches |-> Written(p[1], p[2].off, p[2].val)]

ThreadStep(op) == [p \in Images \X Threads(op) |-> Effect(op, p[2], p[1])]

(* Each step keeps the shape of the memory.                                *)
LEMMA EvalStepType == EvalStep \in StepFunctions(Images, EvalKernels)
  BY EvalAssumption DEF EvalStep, StepFunctions, Images

LEMMA WriteStepType == WriteStep \in StepFunctions(Images, DevicePatches)
<1>1. \A p \in Images \X DevicePatches : Written(p[1], p[2].off, p[2].val) \in Images
  BY WrittenType DEF DevicePatches
<1> QED BY <1>1 DEF WriteStep, StepFunctions

LEMMA ThreadStepType ==
  ASSUME NEW op \in Operations
  PROVE  ThreadStep(op) \in StepFunctions(Images, Threads(op))
<1>1. \A p \in Images \X Threads(op) : Effect(op, p[2], p[1]) \in Images
  BY EffectType
<1> QED BY <1>1 DEF ThreadStep, StepFunctions

(* Evaluated, Patched and, below, the draining of a stream are folds of    *)
(* the community modules, that is, functions chosen by their equation.     *)
(* Each is the function the equation determines.                           *)
LEMMA EvaluatedIsFold ==
  ASSUME NEW ks \in Seq(EvalKernels), NEW m \in Images
  PROVE  Evaluated(ks, m) = Fold(Images, EvalStep, m, ks)
<1> DEFINE Values(i) ==
             [T \in SUBSET DOMAIN ks |->
                IF T = {} THEN m
                ELSE [s \in States |-> Eval[ks[Max(T)]][i[T \ {Max(T)}][s]]]]
           it == CHOOSE i : i = Values(i)
<1>1. Evaluated(ks, m) = it[DOMAIN ks]
  BY DEF Evaluated, FoldLeft, MapThenFoldSet
<1>2. PICK g \in SubsetFunctions(Images, DOMAIN ks) : ByGreatest(g, EvalStep, m, ks)
  BY EvalStepType, ChainExists
<1>3. \A T \in (SUBSET DOMAIN ks) \ {{}} : Max(T) \in DOMAIN ks /\ ks[Max(T)] \in EvalKernels
  <2>1. DOMAIN ks = 1 .. Len(ks) /\ Len(ks) \in Nat
    OBVIOUS
  <2>2. \A T \in (SUBSET (1 .. Len(ks))) \ {{}} : Max(T) \in T
    BY <2>1, MaxOfIndices
  <2> QED BY <2>1, <2>2
<1>4. g = Values(g)
  <2>1. g \in [SUBSET DOMAIN ks -> Images]
    BY DEF SubsetFunctions
  <2>2. ASSUME NEW T \in SUBSET DOMAIN ks, T # {} PROVE g[T] = Values(g)[T]
    <3>1. g[T \ {Max(T)}] \in Images
      BY <2>1
    <3>2. g[T] = EvalStep[<<g[T \ {Max(T)}], ks[Max(T)]>>]
      BY <1>2, <2>2 DEF ByGreatest
    <3> QED BY <1>3, <2>2, <3>1, <3>2 DEF EvalStep
  <2>3. g[{}] = Values(g)[{}]
    BY <1>2 DEF ByGreatest
  <2> QED BY <2>1, <2>2, <2>3
<1>5. it = Values(it)
  <2> HIDE DEF Values
  <2> QED BY <1>4
<1>6. it[{}] = m
  BY <1>5
<1>7. \A T \in (SUBSET DOMAIN ks) \ {{}} :
        it[T \ {Max(T)}] \in Images => it[T] = EvalStep[<<it[T \ {Max(T)}], ks[Max(T)]>>]
  <2> TAKE T \in (SUBSET DOMAIN ks) \ {{}}
  <2> HAVE it[T \ {Max(T)}] \in Images
  <2>1. it[T] = Values(it)[T]
    BY <1>5
  <2> HIDE DEF it
  <2> QED BY <1>3, <2>1 DEF EvalStep
<1>8. FollowsIndices(it, Images, EvalStep, m, ks)
  BY <1>6, <1>7 DEF FollowsIndices
<1> HIDE DEF it, Values
<1> QED BY <1>1, <1>8, EvalStepType, IterationIsFold

LEMMA PatchedIsFold ==
  ASSUME NEW recs \in Seq(DevicePatches), NEW m \in Images
  PROVE  Patched(recs, m) = Fold(Images, WriteStep, m, recs)
<1> DEFINE Values(i) ==
             [T \in SUBSET DOMAIN recs |->
                IF T = {} THEN m
                ELSE Written(i[T \ {Max(T)}], recs[Max(T)].off, recs[Max(T)].val)]
           it == CHOOSE i : i = Values(i)
<1>1. Patched(recs, m) = it[DOMAIN recs]
  BY DEF Patched, FoldLeft, MapThenFoldSet
<1>2. PICK g \in SubsetFunctions(Images, DOMAIN recs) : ByGreatest(g, WriteStep, m, recs)
  BY WriteStepType, ChainExists
<1>3. \A T \in (SUBSET DOMAIN recs) \ {{}} : recs[Max(T)] \in DevicePatches
  <2>1. DOMAIN recs = 1 .. Len(recs) /\ Len(recs) \in Nat
    OBVIOUS
  <2>2. \A T \in (SUBSET (1 .. Len(recs))) \ {{}} : Max(T) \in T
    BY <2>1, MaxOfIndices
  <2> QED BY <2>1, <2>2
<1>4. g = Values(g)
  <2>1. g \in [SUBSET DOMAIN recs -> Images]
    BY DEF SubsetFunctions
  <2>2. ASSUME NEW T \in SUBSET DOMAIN recs, T # {} PROVE g[T] = Values(g)[T]
    <3>1. g[T \ {Max(T)}] \in Images
      BY <2>1
    <3>2. g[T] = WriteStep[<<g[T \ {Max(T)}], recs[Max(T)]>>]
      BY <1>2, <2>2 DEF ByGreatest
    <3> QED BY <1>3, <2>2, <3>1, <3>2 DEF WriteStep
  <2>3. g[{}] = Values(g)[{}]
    BY <1>2 DEF ByGreatest
  <2> QED BY <2>1, <2>2, <2>3
<1>5. it = Values(it)
  <2> HIDE DEF Values
  <2> QED BY <1>4
<1>6. it[{}] = m
  BY <1>5
<1>7. \A T \in (SUBSET DOMAIN recs) \ {{}} :
        it[T \ {Max(T)}] \in Images => it[T] = WriteStep[<<it[T \ {Max(T)}], recs[Max(T)]>>]
  <2> TAKE T \in (SUBSET DOMAIN recs) \ {{}}
  <2> HAVE it[T \ {Max(T)}] \in Images
  <2>1. it[T] = Values(it)[T]
    BY <1>5
  <2> HIDE DEF it
  <2> QED BY <1>3, <2>1 DEF WriteStep
<1>8. FollowsIndices(it, Images, WriteStep, m, recs)
  BY <1>6, <1>7 DEF FollowsIndices
<1> HIDE DEF it, Values
<1> QED BY <1>1, <1>8, WriteStepType, IterationIsFold

----------------------------------------------------------------------------
(* The threads of an operation.                                            *)

OrderFree(op) == op.kind = "patches" => OneValueEach(op.recs)

(* The launch reaches every state: Grid * Block is not below NStates.      *)
LEMMA GridCovers == EvalThreads = States
<1> DEFINE n == NStates + Block - 1
<1>1. NStates \in Nat \ {0} /\ Block \in Nat \ {0} /\ n \in Nat
  BY SizesAssumption
<1>2. PICK q \in Nat : q = n \div Block
  BY <1>1
<1>3. PICK r \in 0 .. Block - 1 : r = n % Block
  BY <1>1
<1>4. n = Block * q + r
  <2> HIDE DEF n
  <2> QED BY <1>1, <1>2, <1>3
<1>5. q * Block = Block * q /\ Block * q \in Nat
  BY <1>1
<1>6. Grid * Block = q * Block
  BY <1>2 DEF Grid
<1>7. Grid * Block - 1 >= NStates - 1
  BY <1>1, <1>3, <1>4, <1>5, <1>6
<1> QED BY <1>1, <1>5, <1>6, <1>7 DEF EvalThreads, States

(* An operation has finitely many threads.                                 *)
LEMMA ThreadsFinite ==
  ASSUME NEW op \in Operations
  PROVE  IsFiniteSet(Threads(op))
<1>1. Total \in Nat /\ NStates \in Nat
  BY SizesAssumption DEF Total
<1>2. IsFiniteSet(States) /\ IsFiniteSet(Offsets)
  <2>1. NStates - 1 \in Int /\ Total - 1 \in Int
    BY <1>1
  <2> QED BY <2>1, FS_Interval DEF States, Offsets
<1>s. IsFiniteSet({0})
  BY FS_Singleton
<1>3. CASE op.kind = "patches"
  <2>1. Len(op.recs) \in Nat
    BY <1>3 DEF Operations, Memset
  <2>2. Threads(op) = 1 .. Len(op.recs)
    BY <1>3 DEF Threads
  <2>3. IsFiniteSet(1 .. Len(op.recs))
    BY <2>1, FS_Interval
  <2> QED BY <2>2, <2>3
<1>4. CASE op.kind # "patches"
  <2>1. Threads(op) = States \/ Threads(op) = Offsets \/ Threads(op) = {0}
    BY <1>4, GridCovers DEF Threads
  <2>2. CASE Threads(op) = {0}
    BY <1>s, <2>2
  <2>3. CASE Threads(op) = States
    BY <1>2, <2>3
  <2>4. CASE Threads(op) = Offsets
    BY <1>2, <2>4
  <2> QED BY <2>1, <2>2, <2>3, <2>4
<1> QED BY <1>3, <1>4

(* Bytes at two offsets may be written in either order, and so may one     *)
(* value at one offset.                                                    *)
LEMMA WrittenCommute ==
  ASSUME NEW m \in Images, NEW o \in Offsets, NEW v \in Byte, NEW p \in Offsets, NEW w \in Byte,
         o = p => v = w
  PROVE  Written(Written(m, o, v), p, w) = Written(Written(m, p, w), o, v)
<1>1. CASE o = p
  BY <1>1
<1>2. CASE o # p
  <2>1. /\ o \div Storage \in States /\ o % Storage \in 0 .. Storage - 1
        /\ p \div Storage \in States /\ p % Storage \in 0 .. Storage - 1
    BY OffsetSplit
  <2>2. o \div Storage # p \div Storage \/ o % Storage # p % Storage
    <3>1. Storage \in Nat \ {0} /\ NStates \in Nat \ {0}
      BY SizesAssumption
    <3>2. o \in Nat /\ p \in Nat
      BY DEF Offsets
    <3>3. o = Storage * (o \div Storage) + (o % Storage)
      BY <3>1, <3>2
    <3>4. p = Storage * (p \div Storage) + (p % Storage)
      BY <3>1, <3>2
    <3> QED BY <1>2, <3>3, <3>4
  <2> DEFINE a == o \div Storage
             b == p \div Storage
             i == o % Storage
             j == p % Storage
  <2>3. a \in States /\ b \in States /\ i \in 0 .. Storage - 1 /\ j \in 0 .. Storage - 1
        /\ (a # b \/ i # j)
    BY <2>1, <2>2
  <2>4. [[m EXCEPT ![a][i] = v] EXCEPT ![b][j] = w] = [[m EXCEPT ![b][j] = w] EXCEPT ![a][i] = v]
    <3> HIDE DEF a, b, i, j
    <3>1. CASE a = b
      <4>1. i # j
        BY <2>3, <3>1
      <4>2. [[m[a] EXCEPT ![i] = v] EXCEPT ![j] = w] = [[m[a] EXCEPT ![j] = w] EXCEPT ![i] = v]
        BY <2>3, <4>1 DEF Images, StateImages
      <4>3. /\ [[m EXCEPT ![a][i] = v] EXCEPT ![a][j] = w]
                  = [m EXCEPT ![a] = [[m[a] EXCEPT ![i] = v] EXCEPT ![j] = w]]
            /\ [[m EXCEPT ![a][j] = w] EXCEPT ![a][i] = v]
                  = [m EXCEPT ![a] = [[m[a] EXCEPT ![j] = w] EXCEPT ![i] = v]]
        BY <2>3 DEF Images
      <4> QED BY <3>1, <4>2, <4>3
    <3>2. CASE a # b
      BY <2>3, <3>2 DEF Images
    <3> QED BY <3>1, <3>2
  <2> QED BY <2>4 DEF Written
<1> QED BY <1>1, <1>2

(* Any two threads of an operation can change places, unless two records   *)
(* of one patch launch give an offset two values.                          *)
LEMMA ThreadsCommute ==
  ASSUME NEW op \in Operations, OrderFree(op)
  PROVE  Commutes(ThreadStep(op), Images, Threads(op))
<1> SUFFICES ASSUME NEW m \in Images, NEW t \in Threads(op), NEW u \in Threads(op)
             PROVE  Effect(op, u, Effect(op, t, m)) = Effect(op, t, Effect(op, u, m))
  <2>1. \A m \in Images, t \in Threads(op) :
          ThreadStep(op)[<<m, t>>] = Effect(op, t, m) /\ Effect(op, t, m) \in Images
    BY EffectType DEF ThreadStep
  <2>2. ASSUME NEW m \in Images, NEW t \in Threads(op), NEW u \in Threads(op)
        PROVE  Effect(op, u, Effect(op, t, m)) = Effect(op, t, Effect(op, u, m))
    OBVIOUS
  <2> QED BY <2>1, <2>2 DEF Commutes
<1>1. CASE op.kind = "eval"
  <2>1. t \in States /\ u \in States /\ op.kernel \in EvalKernels
    BY <1>1, GridCovers DEF Operations, Memset, Threads
  <2> DEFINE k == Eval[op.kernel]
  <2>2. CASE t # u
    <3>1. [[m EXCEPT ![t] = k[@]] EXCEPT ![u] = k[@]] = [[m EXCEPT ![u] = k[@]] EXCEPT ![t] = k[@]]
      <4> HIDE DEF k
      <4> QED BY <2>1, <2>2 DEF Images
    <3> QED BY <1>1, <3>1 DEF Effect
  <2> QED BY <2>2
<1>2. CASE op.kind = "patches"
  <2>1. op.recs \in Seq(DevicePatches) /\ t \in 1 .. Len(op.recs) /\ u \in 1 .. Len(op.recs)
    BY <1>2 DEF Operations, Memset, Threads
  <2>2. op.recs[t] \in DevicePatches /\ op.recs[u] \in DevicePatches
    BY <2>1
  <2>3. op.recs[t].off = op.recs[u].off => op.recs[t].val = op.recs[u].val
    BY <1>2, <2>1 DEF OrderFree, OneValueEach
  <2>4. Written(Written(m, op.recs[t].off, op.recs[t].val), op.recs[u].off, op.recs[u].val)
          = Written(Written(m, op.recs[u].off, op.recs[u].val), op.recs[t].off, op.recs[t].val)
    BY <2>2, <2>3, WrittenCommute DEF DevicePatches
  <2> QED BY <1>2, <2>4 DEF Effect
<1>3. CASE op.kind = "replicate"
  <2>1. op.data \in StateImages /\ t \in Offsets /\ u \in Offsets
    BY <1>3 DEF Operations, Memset, Threads
  <2>2. op.data[t % Storage] \in Byte /\ op.data[u % Storage] \in Byte
    BY <2>1, OffsetSplit DEF StateImages
  <2>3. Written(Written(m, t, op.data[t % Storage]), u, op.data[u % Storage])
          = Written(Written(m, u, op.data[u % Storage]), t, op.data[t % Storage])
    BY <2>1, <2>2, WrittenCommute
  <2> QED BY <1>3, <2>3 DEF Effect
<1>4. CASE op.kind \notin {"eval", "patches", "replicate"}
  BY <1>4 DEF Threads
<1> QED BY <1>1, <1>2, <1>3, <1>4

(* The memory an operation leaves is that of its threads in any order.     *)
LEMMA CompletedIs ==
  ASSUME NEW op \in Operations, OrderFree(op), NEW past \in SUBSET Threads(op), NEW m \in Images,
         NEW g \in SubsetFunctions(Images, Threads(op)),
         Unordered(g, ThreadStep(op), m, Threads(op))
  PROVE  Completed(op, past, m) = g[Threads(op) \ past]
<1> DEFINE S == Threads(op) \ past
           f == ThreadStep(op)
           Values(i) ==
             [T \in SUBSET S |->
                IF T = {} THEN m
                ELSE Effect(op, CHOOSE x \in T : TRUE, i[T \ {CHOOSE x \in T : TRUE}])]
           it == CHOOSE i : i = Values(i)
           h == [T \in SUBSET S |-> g[T]]
<1>1. Completed(op, past, m) = it[S]
  BY DEF Completed, FoldSet, MapThenFoldSet
<1>2. IsFiniteSet(Threads(op)) /\ IsFiniteSet(S)
  BY ThreadsFinite, FS_Subset
<1>3. ASSUME NEW T \in SUBSET S, T # {}
      PROVE  LET e == CHOOSE x \in T : TRUE
             IN  /\ e \in T /\ e \in Threads(op) /\ T \ {e} \in SUBSET S
                 /\ g[T \ {e}] \in Images
                 /\ g[T] = Effect(op, e, g[T \ {e}])
  <2> DEFINE e == CHOOSE x \in T : TRUE
  <2>1. e \in T
    BY <1>3
  <2> HIDE DEF e
  <2>2. g[T \ {e}] \in Images /\ T \in SUBSET Threads(op) /\ e \in Threads(op)
    BY <2>1 DEF SubsetFunctions
  <2>3. g[T] = f[<<g[T \ {e}], e>>]
    BY <2>1, <2>2 DEF Unordered
  <2>4. f[<<g[T \ {e}], e>>] = Effect(op, e, g[T \ {e}])
    BY <2>2 DEF ThreadStep
  <2>5. /\ e \in T /\ e \in Threads(op) /\ T \ {e} \in SUBSET S
        /\ g[T \ {e}] \in Images
        /\ g[T] = Effect(op, e, g[T \ {e}])
    BY <2>1, <2>2, <2>3, <2>4
  <2> QED BY <2>5 DEF e
<1>4. h = Values(h)
  <2>1. ASSUME NEW T \in SUBSET S, T # {} PROVE h[T] = Values(h)[T]
    BY <1>3, <2>1
  <2>2. h[{}] = Values(h)[{}]
    BY DEF Unordered
  <2> QED BY <2>1, <2>2
<1>5. it = Values(it)
  <2> HIDE DEF Values, h
  <2> QED BY <1>4
<1>6. it[{}] = m
  BY <1>5
<1>7. ASSUME NEW T \in (SUBSET S) \ {{}}
      PROVE  LET e == CHOOSE x \in T : TRUE
             IN  it[T \ {e}] \in Images => it[T] = f[<<it[T \ {e}], e>>]
  <2> DEFINE e == CHOOSE x \in T : TRUE
  <2>1. e \in Threads(op)
    BY <1>3
  <2>2. it[T] = Values(it)[T]
    BY <1>5
  <2>3. it[T] = Effect(op, e, it[T \ {e}])
    <3> HIDE DEF it
    <3> QED BY <2>2
  <2> HIDE DEF it, e
  <2>4. it[T \ {e}] \in Images => it[T] = f[<<it[T \ {e}], e>>]
    BY <2>1, <2>3 DEF ThreadStep
  <2> QED BY <2>4 DEF e
<1>8. FollowsChoice(it, Images, f, m, S)
  <2> HIDE DEF it, S, f
  <2> QED BY <1>6, <1>7 DEF FollowsChoice
<1>9. S \in SUBSET Threads(op)
  OBVIOUS
<1> HIDE DEF it, S
<1>10. it[S] = g[S]
  BY <1>2, <1>8, <1>9, IterationIsUnordered
<1> QED BY <1>1, <1>10 DEF S

(* Whatever the order, the threads lead from one memory to one memory.     *)
LEMMA Alternatives ==
  ASSUME NEW op \in Operations, OrderFree(op), NEW m \in Images
  PROVE  \E g \in SubsetFunctions(Images, Threads(op)) :
           Unordered(g, ThreadStep(op), m, Threads(op))
  BY ThreadsFinite, ThreadStepType, ThreadsCommute, UnorderedExists

LEMMA CompletedType ==
  ASSUME NEW op \in Operations, OrderFree(op), NEW past \in SUBSET Threads(op), NEW m \in Images
  PROVE  Completed(op, past, m) \in Images
<1>1. PICK g \in SubsetFunctions(Images, Threads(op)) :
        Unordered(g, ThreadStep(op), m, Threads(op))
  BY Alternatives
<1>2. Completed(op, past, m) = g[Threads(op) \ past]
  BY <1>1, CompletedIs
<1> QED BY <1>2 DEF SubsetFunctions

(* An operation whose threads are all through has nothing left to do.      *)
LEMMA AllThrough ==
  ASSUME NEW op \in Operations, OrderFree(op), NEW m \in Images
  PROVE  Completed(op, Threads(op), m) = m
<1>1. PICK g \in SubsetFunctions(Images, Threads(op)) :
        Unordered(g, ThreadStep(op), m, Threads(op))
  BY Alternatives
<1>2. Completed(op, Threads(op), m) = g[Threads(op) \ Threads(op)]
  BY <1>1, CompletedIs
<1>3. Threads(op) \ Threads(op) = {}
  OBVIOUS
<1> QED BY <1>1, <1>2, <1>3 DEF Unordered

(* Running one more thread now or with the rest makes no difference.       *)
LEMMA OneThrough ==
  ASSUME NEW op \in Operations, OrderFree(op), NEW past \in SUBSET Threads(op), NEW m \in Images,
         NEW t \in Threads(op) \ past
  PROVE  Completed(op, past \cup {t}, Effect(op, t, m)) = Completed(op, past, m)
<1> DEFINE n == Effect(op, t, m)
           S == Threads(op)
           f == ThreadStep(op)
<1>1. n \in Images /\ n = f[<<m, t>>]
  BY EffectType DEF ThreadStep
<1> HIDE DEF n
<1>2. PICK g \in SubsetFunctions(Images, S) : Unordered(g, f, m, S)
  BY Alternatives
<1>3. PICK h \in SubsetFunctions(Images, S) : Unordered(h, f, n, S)
  BY <1>1, Alternatives
<1>4. Completed(op, past, m) = g[S \ past]
  BY <1>2, CompletedIs
<1>5. Completed(op, past \cup {t}, n) = h[S \ (past \cup {t})]
  <2>1. past \cup {t} \in SUBSET S
    OBVIOUS
  <2> QED BY <1>1, <1>3, <2>1, CompletedIs
<1>6. \A T \in SUBSET S : t \in T => h[T \ {t}] = g[T]
  <2>1. IsFiniteSet(S) /\ f \in StepFunctions(Images, S) /\ Commutes(f, Images, S) /\ t \in S
    BY ThreadsFinite, ThreadStepType, ThreadsCommute
  <2>2. Unordered(h, f, f[<<m, t>>], S)
    BY <1>1, <1>3
  <2> HIDE DEF f, S
  <2> QED BY <1>2, <2>1, <2>2, UnorderedFirst
<1>7. (S \ past) \ {t} = S \ (past \cup {t}) /\ t \in S \ past
  OBVIOUS
<1>8. h[S \ (past \cup {t})] = g[S \ past]
  BY <1>6, <1>7
<1> QED BY <1>4, <1>5, <1>8 DEF n

----------------------------------------------------------------------------
(* Streams.                                                                *)
Streams == Seq({op \in Operations : OrderFree(op)})

OpStep == [p \in Images \X {op \in Operations : OrderFree(op)} |-> Completed(p[2], {}, p[1])]

LEMMA OpStepType == OpStep \in StepFunctions(Images, {op \in Operations : OrderFree(op)})
<1>1. \A p \in Images \X {op \in Operations : OrderFree(op)} : Completed(p[2], {}, p[1]) \in Images
  BY CompletedType
<1> QED BY <1>1 DEF OpStep, StepFunctions

(* Operations worked off one after the other.                              *)
LEMMA OperationsFold ==
  ASSUME NEW ops \in Streams, NEW m \in Images
  PROVE  FoldLeft(LAMBDA acc, op : Completed(op, {}, acc), m, ops) = Fold(Images, OpStep, m, ops)
<1> DEFINE Values(i) ==
             [T \in SUBSET DOMAIN ops |->
                IF T = {} THEN m ELSE Completed(ops[Max(T)], {}, i[T \ {Max(T)}])]
           it == CHOOSE i : i = Values(i)
           X == {op \in Operations : OrderFree(op)}
<1>0. ops \in Seq(X) /\ OpStep \in StepFunctions(Images, X)
  BY OpStepType DEF Streams
<1>1. FoldLeft(LAMBDA acc, op : Completed(op, {}, acc), m, ops) = it[DOMAIN ops]
  BY DEF FoldLeft, MapThenFoldSet
<1>2. PICK g \in SubsetFunctions(Images, DOMAIN ops) : ByGreatest(g, OpStep, m, ops)
  <2> HIDE DEF X
  <2> QED BY <1>0, ChainExists
<1>3. \A T \in (SUBSET DOMAIN ops) \ {{}} : ops[Max(T)] \in X
  <2>1. DOMAIN ops = 1 .. Len(ops) /\ Len(ops) \in Nat
    BY <1>0
  <2>2. \A T \in (SUBSET (1 .. Len(ops))) \ {{}} : Max(T) \in T
    BY <2>1, MaxOfIndices
  <2> QED BY <1>0, <2>1, <2>2
<1>4. g = Values(g)
  <2>1. g \in [SUBSET DOMAIN ops -> Images]
    BY DEF SubsetFunctions
  <2>2. ASSUME NEW T \in SUBSET DOMAIN ops, T # {} PROVE g[T] = Values(g)[T]
    <3>1. g[T \ {Max(T)}] \in Images
      BY <2>1
    <3>2. g[T] = OpStep[<<g[T \ {Max(T)}], ops[Max(T)]>>]
      BY <1>2, <2>2 DEF ByGreatest
    <3> QED BY <1>3, <2>2, <3>1, <3>2 DEF OpStep
  <2>3. g[{}] = Values(g)[{}]
    BY <1>2 DEF ByGreatest
  <2> QED BY <2>1, <2>2, <2>3
<1>5. it = Values(it)
  <2> HIDE DEF Values
  <2> QED BY <1>4
<1>6. it[{}] = m
  BY <1>5
<1>7. \A T \in (SUBSET DOMAIN ops) \ {{}} :
        it[T \ {Max(T)}] \in Images => it[T] = OpStep[<<it[T \ {Max(T)}], ops[Max(T)]>>]
  <2> TAKE T \in (SUBSET DOMAIN ops) \ {{}}
  <2> HAVE it[T \ {Max(T)}] \in Images
  <2>1. it[T] = Values(it)[T]
    BY <1>5
  <2> HIDE DEF it
  <2> QED BY <1>3, <2>1 DEF OpStep
<1>8. FollowsIndices(it, Images, OpStep, m, ops)
  BY <1>6, <1>7 DEF FollowsIndices
<1>9. it[DOMAIN ops] = Fold(Images, OpStep, m, ops)
  <2> HIDE DEF it, Values, X
  <2> QED BY <1>0, <1>8, IterationIsFold
<1> HIDE DEF it
<1> QED BY <1>1, <1>9

(* A stream drains operation by operation.                                 *)
LEMMA DrainedIsFold ==
  ASSUME NEW st \in Streams, NEW m \in Images
  PROVE  Drained(m, st, {}) = Fold(Images, OpStep, m, st)
<1> DEFINE X == {op \in Operations : OrderFree(op)}
<1>0. st \in Seq(X) /\ OpStep \in StepFunctions(Images, X)
  BY OpStepType DEF Streams
<1>1. CASE st = <<>>
  <2>1. Fold(Images, OpStep, m, <<>>) = m
    <3> HIDE DEF X
    <3> QED BY <1>0, FoldEmpty
  <2> QED BY <1>1, <2>1 DEF Drained
<1>2. CASE st # <<>>
  <2>1. Head(st) \in X /\ Tail(st) \in Seq(X) /\ Tail(st) \in Streams
    BY <1>0, <1>2 DEF Streams
  <2>2. Completed(Head(st), {}, m) = OpStep[<<m, Head(st)>>]
    BY <2>1 DEF OpStep
  <2>3. OpStep[<<m, Head(st)>>] \in Images
    BY <2>1, <2>2, CompletedType
  <2>4. Drained(m, st, {}) = Fold(Images, OpStep, OpStep[<<m, Head(st)>>], Tail(st))
    <3>1. Drained(m, st, {}) =
            FoldLeft(LAMBDA acc, op : Completed(op, {}, acc), Completed(Head(st), {}, m), Tail(st))
      BY <1>2 DEF Drained
    <3> QED BY <2>1, <2>2, <2>3, <3>1, OperationsFold
  <2>5. Fold(Images, OpStep, m, st) = Fold(Images, OpStep, OpStep[<<m, Head(st)>>], Tail(st))
    <3> HIDE DEF X
    <3> QED BY <1>0, <1>2, FoldHead
  <2> QED BY <2>4, <2>5
<1> QED BY <1>1, <1>2

Through(st, done) == IF st = <<>> THEN done = {} ELSE done \in SUBSET Threads(Head(st))

(* The operation at the head of a stream is completed before the next.     *)
LEMMA DrainedHead ==
  ASSUME NEW st \in Streams, st # <<>>, NEW m \in Images, NEW done \in SUBSET Threads(Head(st))
  PROVE  /\ Completed(Head(st), done, m) \in Images
         /\ Tail(st) \in Streams
         /\ Drained(m, st, done) = Fold(Images, OpStep, Completed(Head(st), done, m), Tail(st))
         /\ Drained(m, st, done) = Drained(Completed(Head(st), done, m), Tail(st), {})
<1>1. Head(st) \in Operations /\ OrderFree(Head(st)) /\ Tail(st) \in Streams
  BY DEF Streams
<1>2. Completed(Head(st), done, m) \in Images
  BY <1>1, CompletedType
<1>3. Drained(m, st, done) =
        FoldLeft(LAMBDA acc, op : Completed(op, {}, acc), Completed(Head(st), done, m), Tail(st))
  BY DEF Drained
<1> QED BY <1>1, <1>2, <1>3, OperationsFold, DrainedIsFold

LEMMA DrainedType ==
  ASSUME NEW st \in Streams, NEW m \in Images, NEW done, Through(st, done)
  PROVE  Drained(m, st, done) \in Images
<1> DEFINE X == {op \in Operations : OrderFree(op)}
<1>0. OpStep \in StepFunctions(Images, X) /\ Streams = Seq(X)
  BY OpStepType DEF Streams
<1>1. CASE st = <<>>
  BY <1>1 DEF Drained
<1>2. CASE st # <<>>
  <2>1. done \in SUBSET Threads(Head(st))
    BY <1>2 DEF Through
  <2>2. /\ Completed(Head(st), done, m) \in Images /\ Tail(st) \in Seq(X)
        /\ Drained(m, st, done) = Fold(Images, OpStep, Completed(Head(st), done, m), Tail(st))
    BY <1>0, <1>2, <2>1, DrainedHead
  <2> HIDE DEF X
  <2> QED BY <1>0, <2>2, FoldType
<1> QED BY <1>1, <1>2

(* What the host issues takes effect after all that is on the stream.      *)
LEMMA DrainedAppend ==
  ASSUME NEW st \in Streams, NEW m \in Images, NEW done, Through(st, done), NEW ops \in Streams
  PROVE  Drained(m, st \o ops, done) = Fold(Images, OpStep, Drained(m, st, done), ops)
<1> DEFINE X == {op \in Operations : OrderFree(op)}
<1>0. OpStep \in StepFunctions(Images, X) /\ Streams = Seq(X)
  BY OpStepType DEF Streams
<1>1. CASE st = <<>>
  <2>1. st \o ops = ops /\ done = {}
    BY <1>0, <1>1 DEF Through
  <2>2. Drained(m, st, done) = m
    BY <1>1 DEF Drained
  <2> QED BY <2>1, <2>2, DrainedIsFold
<1>2. CASE st # <<>>
  <2> DEFINE u == Tail(st)
             n == Completed(Head(st), done, m)
  <2>1. done \in SUBSET Threads(Head(st))
    BY <1>2 DEF Through
  <2>2. /\ n \in Images /\ u \in Seq(X)
        /\ Drained(m, st, done) = Fold(Images, OpStep, n, u)
    BY <1>0, <1>2, <2>1, DrainedHead
  <2>3. /\ st \o ops \in Streams /\ st \o ops # <<>>
        /\ Head(st \o ops) = Head(st) /\ Tail(st \o ops) = u \o ops
    BY <1>0, <1>2
  <2>4. Drained(m, st \o ops, done) = Fold(Images, OpStep, n, u \o ops)
    <3> DEFINE w == st \o ops
    <3>1. w \in Streams /\ w # <<>> /\ done \in SUBSET Threads(Head(w))
          /\ Head(w) = Head(st) /\ Tail(w) = u \o ops
      BY <2>1, <2>3
    <3>2. Drained(m, w, done) = Fold(Images, OpStep, Completed(Head(w), done, m), Tail(w))
      <4> HIDE DEF w
      <4> QED BY <3>1, DrainedHead
    <3> HIDE DEF w
    <3>3. Drained(m, w, done) = Fold(Images, OpStep, n, u \o ops)
      BY <3>1, <3>2
    <3> QED BY <3>3 DEF w
  <2>5. ops \in Seq(X)
    BY <1>0
  <2> HIDE DEF X, u, n
  <2>6. Fold(Images, OpStep, n, u \o ops) = Fold(Images, OpStep, Fold(Images, OpStep, n, u), ops)
    BY <1>0, <2>2, <2>5, FoldConcat
  <2> QED BY <2>2, <2>4, <2>6
<1> QED BY <1>1, <1>2

(* The device may run the threads of an operation in any order.            *)
LEMMA DrainedThread ==
  ASSUME NEW st \in Streams, st # <<>>, NEW m \in Images, NEW done, Through(st, done),
         NEW t \in Threads(Head(st)) \ done
  PROVE  /\ done \cup {t} # Threads(Head(st)) =>
              Drained(Effect(Head(st), t, m), st, done \cup {t}) = Drained(m, st, done)
         /\ done \cup {t} = Threads(Head(st)) =>
              Drained(Effect(Head(st), t, m), Tail(st), {}) = Drained(m, st, done)
<1> DEFINE op == Head(st)
           n == Effect(op, t, m)
<1>1. op \in Operations /\ OrderFree(op) /\ done \in SUBSET Threads(op)
  BY DEF Streams, Through
<1>2. n \in Images
  BY <1>1, EffectType
<1>3. Completed(op, done \cup {t}, n) = Completed(op, done, m)
  BY <1>1, OneThrough
<1>4. done \cup {t} \in SUBSET Threads(op)
  BY <1>1
<1>5. Drained(m, st, done) = Drained(Completed(op, done, m), Tail(st), {})
  BY <1>1, DrainedHead
<1>6. Drained(n, st, done \cup {t}) = Drained(Completed(op, done \cup {t}, n), Tail(st), {})
  BY <1>2, <1>4, DrainedHead
<1>7. ASSUME done \cup {t} = Threads(op) PROVE Completed(op, done \cup {t}, n) = n
  BY <1>1, <1>2, <1>7, AllThrough
<1> HIDE DEF n
<1>8. ASSUME done \cup {t} = Threads(op) PROVE Drained(n, Tail(st), {}) = Drained(m, st, done)
  BY <1>3, <1>5, <1>7, <1>8
<1>9. Drained(n, st, done \cup {t}) = Drained(m, st, done)
  BY <1>3, <1>5, <1>6
<1> QED BY <1>8, <1>9 DEF n

----------------------------------------------------------------------------
(* What each operation does, whatever the order of its threads.            *)

LEMMA OneThreadOnly ==
  ASSUME NEW op \in Operations, op.kind \notin {"eval", "patches", "replicate"}, NEW m \in Images
  PROVE  Completed(op, {}, m) = Effect(op, 0, m)
<1>1. Threads(op) = {0} /\ OrderFree(op)
  BY DEF Threads, OrderFree
<1>2. Completed(op, {0}, Effect(op, 0, m)) = Completed(op, {}, m)
  <2>1. {} \cup {0} = {0} /\ 0 \in Threads(op) \ {} /\ {} \in SUBSET Threads(op)
    BY <1>1
  <2> QED BY <1>1, <2>1, OneThrough
<1>3. Effect(op, 0, m) \in Images
  BY <1>1, EffectType
<1>4. Completed(op, Threads(op), Effect(op, 0, m)) = Effect(op, 0, m)
  BY <1>1, <1>3, AllThrough
<1> QED BY <1>1, <1>2, <1>4

(* A closed form of the memory while an operation runs gives its result.   *)
LEMMA CompletedClosed ==
  ASSUME NEW op \in Operations, OrderFree(op), NEW m \in Images,
         NEW g, g \in SubsetFunctions(Images, Threads(op)),
         Unordered(g, ThreadStep(op), m, Threads(op))
  PROVE  Completed(op, {}, m) = g[Threads(op)]
<1>1. {} \in SUBSET Threads(op) /\ Threads(op) \ {} = Threads(op)
  OBVIOUS
<1> QED BY <1>1, CompletedIs

(* A launch of an evaluation kernel evaluates every state once, whatever   *)
(* the block size and the idle threads of the last block.                  *)
LEMMA CompletedEval ==
  ASSUME NEW k \in EvalKernels, NEW m \in Images
  PROVE  Completed(EvalKernel(k), {}, m) = EvalStep[<<m, k>>]
<1> DEFINE op == EvalKernel(k)
           g == [T \in SUBSET States |-> [s \in States |-> IF s \in T THEN Eval[k][m[s]] ELSE m[s]]]
<1>1. op \in Operations /\ OrderFree(op) /\ op.kind = "eval" /\ op.kernel = k
  BY OperationKinds DEF OrderFree, EvalKernel
<1>2. Threads(op) = States
  BY <1>1, GridCovers DEF Threads
<1>3. g \in SubsetFunctions(Images, States)
  BY EvalAssumption DEF SubsetFunctions, Images
<1>4. Unordered(g, ThreadStep(op), m, States)
  <2>1. g[{}] = m
    BY DEF Images
  <2>2. ASSUME NEW T \in SUBSET States, NEW x \in T
        PROVE  g[T] = ThreadStep(op)[<<g[T \ {x}], x>>]
    <3>1. g[T \ {x}] \in Images
      BY <1>3 DEF SubsetFunctions
    <3>2. ThreadStep(op)[<<g[T \ {x}], x>>] = Effect(op, x, g[T \ {x}])
      BY <1>2, <3>1 DEF ThreadStep
    <3>3. Effect(op, x, g[T \ {x}]) = [g[T \ {x}] EXCEPT ![x] = Eval[k][@]]
      BY <1>1 DEF Effect
    <3>4. g[T] = [g[T \ {x}] EXCEPT ![x] = Eval[k][@]]
      OBVIOUS
    <3> QED BY <3>2, <3>3, <3>4
  <2> HIDE DEF g
  <2> QED BY <2>1, <2>2 DEF Unordered
<1>5. g[States] = EvalStep[<<m, k>>]
  BY DEF EvalStep
<1> HIDE DEF g
<1> QED BY <1>1, <1>2, <1>3, <1>4, <1>5, CompletedClosed

(* The replication kernel writes the image of one state to every state.    *)
LEMMA CompletedReplicate ==
  ASSUME NEW d \in StateImages, NEW m \in Images
  PROVE  Completed(ReplicateKernel(d), {}, m) = Replicated(d)
<1> DEFINE op == ReplicateKernel(d)
           At(s, b) == Storage * s + b
           g == [T \in SUBSET Offsets |->
                   [s \in States |-> [b \in 0 .. Storage - 1 |-> IF At(s, b) \in T THEN d[b] ELSE m[s][b]]]]
<1>1. op \in Operations /\ OrderFree(op) /\ op.kind = "replicate" /\ op.data = d
  BY OperationKinds DEF OrderFree, ReplicateKernel
<1>2. Threads(op) = Offsets
  BY <1>1 DEF Threads
<1>3. g \in SubsetFunctions(Images, Offsets)
  BY DEF SubsetFunctions, Images, StateImages
<1>0. Storage \in Nat \ {0} /\ NStates \in Nat \ {0}
  BY SizesAssumption
<1>a. ASSUME NEW o \in Offsets, NEW s \in States, NEW b \in 0 .. Storage - 1
      PROVE  (At(s, b) = o) <=> (s = o \div Storage /\ b = o % Storage)
  <2>1. o \in Nat /\ s \in Nat
    BY DEF Offsets, States
  <2>2. o = Storage * (o \div Storage) + (o % Storage)
    BY <1>0, <2>1
  <2>3. ASSUME At(s, b) = o PROVE s = o \div Storage /\ b = o % Storage
    BY <1>0, <2>1, <2>3
  <2> QED BY <2>2, <2>3
<1>4. Unordered(g, ThreadStep(op), m, Offsets)
  <2>1. g[{}] = m
    BY DEF Images, StateImages
  <2>2. ASSUME NEW T \in SUBSET Offsets, NEW x \in T
        PROVE  g[T] = ThreadStep(op)[<<g[T \ {x}], x>>]
    <3>1. g[T \ {x}] \in Images
      BY <1>3 DEF SubsetFunctions
    <3>2. ThreadStep(op)[<<g[T \ {x}], x>>] = Effect(op, x, g[T \ {x}])
      BY <1>2, <3>1 DEF ThreadStep
    <3>3. Effect(op, x, g[T \ {x}]) = Written(g[T \ {x}], x, d[x % Storage])
      BY <1>1 DEF Effect
    <3>4. g[T] = Written(g[T \ {x}], x, d[x % Storage])
      <4> DEFINE q == x \div Storage
                 r == x % Storage
      <4>1. q \in States /\ r \in 0 .. Storage - 1
        BY OffsetSplit
      <4>2. \A s \in States, b \in 0 .. Storage - 1 : (At(s, b) = x) <=> (s = q /\ b = r)
        BY <1>a
      <4> HIDE DEF q, r, At
      <4>3. g[T] = [g[T \ {x}] EXCEPT ![q][r] = d[r]]
        BY <4>1, <4>2
      <4> QED BY <4>3 DEF Written, q, r
    <3> QED BY <3>2, <3>3, <3>4
  <2> HIDE DEF g
  <2> QED BY <2>1, <2>2 DEF Unordered
<1>5. g[Offsets] = Replicated(d)
  <2>1. \A s \in States, b \in 0 .. Storage - 1 : At(s, b) \in Offsets
    <3> TAKE s \in States, b \in 0 .. Storage - 1
    <3>1. Storage * s + b <= Storage * NStates - 1
      <4>1. s \in Nat /\ s + 1 <= NStates
        BY <1>0 DEF States
      <4>2. Storage * (s + 1) <= Storage * NStates
        BY <1>0, <4>1
      <4> QED BY <1>0, <4>1, <4>2
    <3> QED BY <1>0, <3>1 DEF Offsets, Total, States
  <2> QED BY <2>1 DEF Replicated, StateImages
<1> HIDE DEF g
<1> QED BY <1>1, <1>2, <1>3, <1>4, <1>5, CompletedClosed

(* The patch kernel writes a list of patches that agree on each offset as  *)
(* if they were written in order.                                          *)
LEMMA CompletedPatches ==
  ASSUME NEW recs \in Seq(DevicePatches), OneValueEach(recs), NEW m \in Images
  PROVE  Completed(PatchKernel(recs), {}, m) = Patched(recs, m)
<1> DEFINE op == PatchKernel(recs)
<1>1. op \in Operations /\ OrderFree(op) /\ op.kind = "patches" /\ op.recs = recs
  BY OperationKinds DEF OrderFree, PatchKernel
<1>2. Threads(op) = DOMAIN recs
  BY <1>1 DEF Threads
<1>3. PICK g \in SubsetFunctions(Images, Threads(op)) :
        Unordered(g, ThreadStep(op), m, Threads(op))
  BY <1>1, Alternatives
<1>4. Completed(op, {}, m) = g[Threads(op)]
  BY <1>1, <1>3, CompletedClosed
<1>5. ASSUME NEW n \in Images, NEW i \in DOMAIN recs
      PROVE  ThreadStep(op)[<<n, i>>] = WriteStep[<<n, recs[i]>>]
  BY <1>1, <1>2 DEF ThreadStep, WriteStep, Effect
<1>6. ThreadStep(op) \in StepFunctions(Images, DOMAIN recs) /\ Commutes(ThreadStep(op), Images, DOMAIN recs)
  BY <1>1, <1>2, ThreadStepType, ThreadsCommute
<1>7. g[DOMAIN recs] = Fold(Images, WriteStep, m, recs)
  <2>1. Unordered(g, ThreadStep(op), m, DOMAIN recs)
    BY <1>2, <1>3
  <2> DEFINE f == ThreadStep(op)
  <2> HIDE DEF op, f
  <2> QED BY <1>5, <1>6, <2>1, WriteStepType, FoldIsUnordered DEF f
<1> QED BY <1>2, <1>4, <1>7, PatchedIsFold

FreeOperations == {op \in Operations : OrderFree(op)}

(* What the host issues, apart from patch launches, needs no condition.    *)
LEMMA IssuedOperations ==
  /\ Memset \in FreeOperations
  /\ \A i \in Images : Upload(i) \in FreeOperations
  /\ \A s \in States, d \in StateImages : UploadState(s, d) \in FreeOperations
  /\ \A d \in StateImages : ReplicateKernel(d) \in FreeOperations
  /\ \A p \in DevicePatches : CopyByte(p) \in FreeOperations
  /\ \A r \in Seq(DevicePatches) : OneValueEach(r) => PatchKernel(r) \in FreeOperations
  /\ \A k \in EvalKernels : EvalKernel(k) \in FreeOperations
  BY OperationKinds DEF FreeOperations, OrderFree, Memset, Upload, UploadState, ReplicateKernel,
    CopyByte, PatchKernel, EvalKernel

LEMMA FreeStep == OpStep \in StepFunctions(Images, FreeOperations) /\ Streams = Seq(FreeOperations)
  BY OpStepType DEF FreeOperations, Streams

LEMMA OpStepIs ==
  ASSUME NEW op \in FreeOperations, NEW m \in Images
  PROVE  OpStep[<<m, op>>] = Completed(op, {}, m)
  BY DEF OpStep, FreeOperations

(* Copies and the memset, and then the kernels, as steps of a fold.        *)
LEMMA OpStepCopies ==
  ASSUME NEW m \in Images
  PROVE  /\ OpStep[<<m, Memset>>] = Zero
         /\ \A i \in Images : OpStep[<<m, Upload(i)>>] = i
         /\ \A s \in States, d \in StateImages :
              OpStep[<<m, UploadState(s, d)>>] = Effect(UploadState(s, d), 0, m)
         /\ \A p \in DevicePatches : OpStep[<<m, CopyByte(p)>>] = WriteStep[<<m, p>>]
<1>1. ASSUME NEW op \in FreeOperations, op.kind \notin {"eval", "patches", "replicate"}
      PROVE  OpStep[<<m, op>>] = Effect(op, 0, m)
  <2>1. op \in Operations
    BY DEF FreeOperations
  <2> QED BY <1>1, <2>1, OpStepIs, OneThreadOnly
<1>2. OpStep[<<m, Memset>>] = Zero
  <2>1. Memset \in FreeOperations /\ Memset.kind = "memset"
    BY IssuedOperations DEF Memset
  <2> QED BY <1>1, <2>1 DEF Effect
<1>3. ASSUME NEW i \in Images PROVE OpStep[<<m, Upload(i)>>] = i
  <2>1. Upload(i) \in FreeOperations /\ Upload(i).kind = "upload" /\ Upload(i).data = i
    BY IssuedOperations DEF Upload
  <2> QED BY <1>1, <2>1 DEF Effect
<1>4. ASSUME NEW s \in States, NEW d \in StateImages
      PROVE  OpStep[<<m, UploadState(s, d)>>] = Effect(UploadState(s, d), 0, m)
  <2>1. UploadState(s, d) \in FreeOperations /\ UploadState(s, d).kind = "uploadState"
    BY IssuedOperations DEF UploadState
  <2> QED BY <1>1, <2>1
<1>5. ASSUME NEW p \in DevicePatches
      PROVE  OpStep[<<m, CopyByte(p)>>] = WriteStep[<<m, p>>]
  <2>1. CopyByte(p) \in FreeOperations /\ CopyByte(p).kind = "copy" /\ CopyByte(p).patch = p
    BY IssuedOperations DEF CopyByte
  <2> QED BY <1>1, <2>1 DEF Effect, WriteStep
<1> QED BY <1>2, <1>3, <1>4, <1>5

LEMMA OpStepKernels ==
  ASSUME NEW m \in Images
  PROVE  /\ \A d \in StateImages : OpStep[<<m, ReplicateKernel(d)>>] = Replicated(d)
         /\ \A k \in EvalKernels : OpStep[<<m, EvalKernel(k)>>] = EvalStep[<<m, k>>]
         /\ \A r \in Seq(DevicePatches) :
              OneValueEach(r) => OpStep[<<m, PatchKernel(r)>>] = Patched(r, m)
<1>1. ASSUME NEW d \in StateImages PROVE OpStep[<<m, ReplicateKernel(d)>>] = Replicated(d)
  BY IssuedOperations, OpStepIs, CompletedReplicate
<1>2. ASSUME NEW k \in EvalKernels PROVE OpStep[<<m, EvalKernel(k)>>] = EvalStep[<<m, k>>]
  BY IssuedOperations, OpStepIs, CompletedEval
<1>3. ASSUME NEW r \in Seq(DevicePatches), OneValueEach(r)
      PROVE  OpStep[<<m, PatchKernel(r)>>] = Patched(r, m)
  BY <1>3, IssuedOperations, OpStepIs, CompletedPatches
<1> QED BY <1>1, <1>2, <1>3

----------------------------------------------------------------------------
(* What the sequences of operations do that the host issues.               *)

LEMMA DrainedEvaluations ==
  ASSUME kernels \in Seq(EvalKernels), NEW m \in Images
  PROVE  /\ Evaluations \in Streams
         /\ Fold(Images, OpStep, m, Evaluations) = Evaluated(kernels, m)
<1>1. DOMAIN kernels = 1 .. Len(kernels) /\ Len(kernels) \in Nat
  OBVIOUS
<1>2. /\ Evaluations \in Seq(FreeOperations) /\ Len(Evaluations) = Len(kernels)
      /\ \A i \in 1 .. Len(kernels) : Evaluations[i] = EvalKernel(kernels[i])
  <2>1. \A i \in 1 .. Len(kernels) : EvalKernel(kernels[i]) \in FreeOperations
    BY IssuedOperations
  <2> QED BY <1>1, <2>1 DEF Evaluations
<1>3. ASSUME NEW n \in Images, NEW i \in 1 .. Len(Evaluations)
      PROVE  OpStep[<<n, Evaluations[i]>>] = EvalStep[<<n, kernels[i]>>]
  <2>1. kernels[i] \in EvalKernels
    BY <1>2
  <2> QED BY <1>2, <2>1, OpStepKernels
<1>4. Fold(Images, OpStep, m, Evaluations) = Fold(Images, EvalStep, m, kernels)
  BY <1>2, <1>3, FreeStep, EvalStepType, FoldAlike
<1> QED BY <1>2, <1>4, FreeStep, EvaluatedIsFold

(* Patches copied byte by byte are written in order.                       *)
LEMMA DrainedCopies ==
  ASSUME NEW p \in Seq(DevicePatches), NEW m \in Images
  PROVE  LET ops == [i \in DOMAIN p |-> CopyByte(p[i])]
         IN  ops \in Streams /\ Fold(Images, OpStep, m, ops) = Patched(p, m)
<1> DEFINE ops == [i \in DOMAIN p |-> CopyByte(p[i])]
<1>1. DOMAIN p = 1 .. Len(p) /\ Len(p) \in Nat
  OBVIOUS
<1>2. /\ ops \in Seq(FreeOperations) /\ Len(ops) = Len(p)
      /\ \A i \in 1 .. Len(p) : ops[i] = CopyByte(p[i])
  <2>1. \A i \in 1 .. Len(p) : CopyByte(p[i]) \in FreeOperations
    BY IssuedOperations
  <2> QED BY <1>1, <2>1
<1> HIDE DEF ops
<1>3. ASSUME NEW n \in Images, NEW i \in 1 .. Len(ops)
      PROVE  OpStep[<<n, ops[i]>>] = WriteStep[<<n, p[i]>>]
  <2>1. p[i] \in DevicePatches
    BY <1>2
  <2>2. OpStep[<<n, CopyByte(p[i])>>] = WriteStep[<<n, p[i]>>]
    BY <2>1, OpStepCopies
  <2> QED BY <1>2, <2>2
<1>4. Fold(Images, OpStep, m, ops) = Fold(Images, WriteStep, m, p)
  BY <1>2, <1>3, FreeStep, WriteStepType, FoldAlike
<1>5. ops \in Streams /\ Fold(Images, OpStep, m, ops) = Patched(p, m)
  BY <1>2, <1>4, FreeStep, PatchedIsFold
<1> QED BY <1>5 DEF ops

(* Two lists of patches in turn are one list.                              *)
LEMMA PatchedConcat ==
  ASSUME NEW a \in Seq(DevicePatches), NEW b \in Seq(DevicePatches), NEW m \in Images
  PROVE  /\ Patched(a, m) \in Images
         /\ Patched(a \o b, m) = Patched(b, Patched(a, m))
<1>1. Patched(a, m) = Fold(Images, WriteStep, m, a)
  BY PatchedIsFold
<1>2. Patched(a, m) \in Images
  BY <1>1, WriteStepType, FoldType
<1>3. a \o b \in Seq(DevicePatches)
  OBVIOUS
<1>4. Patched(a \o b, m) = Fold(Images, WriteStep, m, a \o b)
  BY <1>3, PatchedIsFold
<1>5. Fold(Images, WriteStep, m, a \o b) = Fold(Images, WriteStep, Fold(Images, WriteStep, m, a), b)
  BY WriteStepType, FoldConcat
<1>6. Patched(b, Patched(a, m)) = Fold(Images, WriteStep, Patched(a, m), b)
  BY <1>2, PatchedIsFold
<1> QED BY <1>1, <1>2, <1>4, <1>5, <1>6

LEMMA EvaluatedType ==
  ASSUME NEW ks \in Seq(EvalKernels), NEW m \in Images
  PROVE  Evaluated(ks, m) \in Images
  BY EvaluatedIsFold, EvalStepType, FoldType

(* Operations are issued in a sequence; their effects compose.             *)
LEMMA DrainedConcat ==
  ASSUME NEW a \in Streams, NEW b \in Streams, NEW m \in Images
  PROVE  /\ a \o b \in Streams
         /\ Fold(Images, OpStep, m, a) \in Images
         /\ Fold(Images, OpStep, m, a \o b) = Fold(Images, OpStep, Fold(Images, OpStep, m, a), b)
<1>1. a \in Seq(FreeOperations) /\ b \in Seq(FreeOperations)
  BY FreeStep
<1>2. a \o b \in Seq(FreeOperations)
  BY <1>1
<1> QED BY <1>1, <1>2, FreeStep, FoldType, FoldConcat

(* Streams of one operation and of none.                                   *)
LEMMA DrainedOne ==
  ASSUME NEW op \in FreeOperations, NEW m \in Images
  PROVE  <<op>> \in Streams /\ Fold(Images, OpStep, m, <<op>>) = OpStep[<<m, op>>]
<1>1. <<op>> \in Seq(FreeOperations)
  OBVIOUS
<1> QED BY <1>1, FreeStep, FoldOne

LEMMA DrainedNone ==
  ASSUME NEW m \in Images
  PROVE  <<>> \in Streams /\ Fold(Images, OpStep, m, <<>>) = m
<1>1. <<>> \in Seq(FreeOperations)
  OBVIOUS
<1> QED BY <1>1, FreeStep, FoldEmpty

(* A step: the patches the host copies, those the device applies, and the  *)
(* evaluation of every state.                                              *)
LEMMA DrainedStep ==
  ASSUME kernels \in Seq(EvalKernels), HostPatches \in Seq(DevicePatches),
         ScheduledPatches \in Seq(DevicePatches), OneValueEach(ScheduledPatches),
         NEW m \in Images
  PROVE  /\ StepOperations \in Streams
         /\ Fold(Images, OpStep, m, StepOperations) =
              Evaluated(kernels, Patched(HostPatches \o ScheduledPatches, m))
<1> DEFINE a == [i \in DOMAIN HostPatches |-> CopyByte(HostPatches[i])]
           b == IF ScheduledPatches # <<>> THEN <<PatchKernel(ScheduledPatches)>> ELSE <<>>
           n == Patched(HostPatches, m)
           o == Patched(ScheduledPatches, n)
<1>1. a \in Streams /\ Fold(Images, OpStep, m, a) = n /\ n \in Images
  BY DrainedCopies, PatchedConcat
<1>2. o \in Images /\ Patched(HostPatches \o ScheduledPatches, m) = o
  BY <1>1, PatchedConcat
<1> HIDE DEF n
<1>3. b \in Streams /\ Fold(Images, OpStep, n, b) = o
  <2>1. CASE ScheduledPatches = <<>>
    <3>1. o = Fold(Images, WriteStep, n, <<>>)
      BY <1>1, <2>1, PatchedIsFold
    <3>2. o = n
      BY <1>1, <3>1, WriteStepType, FoldEmpty
    <3> QED BY <1>1, <2>1, <3>2, DrainedNone
  <2>2. CASE ScheduledPatches # <<>>
    <3>1. PatchKernel(ScheduledPatches) \in FreeOperations
      BY IssuedOperations
    <3>2. OpStep[<<n, PatchKernel(ScheduledPatches)>>] = o
      BY <1>1, OpStepKernels
    <3> QED BY <1>1, <2>2, <3>1, <3>2, DrainedOne
  <2> QED BY <2>1, <2>2
<1>4. Evaluations \in Streams /\ Fold(Images, OpStep, o, Evaluations) = Evaluated(kernels, o)
  BY <1>2, DrainedEvaluations
<1>5. StepOperations = (a \o b) \o Evaluations
  BY DEF StepOperations
<1> HIDE DEF a, b, o
<1>6. a \o b \in Streams /\ Fold(Images, OpStep, m, a \o b) = o
  BY <1>1, <1>3, DrainedConcat
<1>7. /\ (a \o b) \o Evaluations \in Streams
      /\ Fold(Images, OpStep, m, (a \o b) \o Evaluations) = Evaluated(kernels, o)
  BY <1>4, <1>6, DrainedConcat
<1> QED BY <1>2, <1>5, <1>7

(* A state image given to every state, one copy after the other.           *)
LEMMA DrainedUploads ==
  ASSUME NEW d \in StateImages, NEW m \in Images
  PROVE  LET ops == [s \in 1 .. NStates |-> UploadState(s - 1, d)]
         IN  ops \in Streams /\ Fold(Images, OpStep, m, ops) = Replicated(d)
<1> DEFINE ops == [s \in 1 .. NStates |-> UploadState(s - 1, d)]
           h == [i \in 0 .. NStates |-> [s \in States |-> IF s < i THEN d ELSE m[s]]]
<1>1. NStates \in Nat /\ \A s \in 1 .. NStates : s - 1 \in States
  BY SizesAssumption DEF States
<1>2. \A s \in 1 .. NStates : UploadState(s - 1, d) \in FreeOperations
  BY <1>1, IssuedOperations
<1>3. ops \in Seq(FreeOperations) /\ Len(ops) = NStates
  BY <1>1, <1>2
<1>4. IsChain(h, OpStep, m, ops)
  <2>1. h[0] = m
    BY <1>1 DEF Images, States
  <2>2. ASSUME NEW i \in 1 .. Len(ops) PROVE h[i] = OpStep[<<h[i - 1], ops[i]>>]
    <3>1. i \in 1 .. NStates /\ i - 1 \in 0 .. NStates /\ ops[i] = UploadState(i - 1, d)
      BY <1>1, <1>3
    <3>2. h[i - 1] \in Images
      BY <3>1 DEF Images
    <3>3. OpStep[<<h[i - 1], ops[i]>>] = [h[i - 1] EXCEPT ![i - 1] = d]
      <4> DEFINE n == h[i - 1]
      <4>1. n \in Images /\ i - 1 \in States
        BY <1>1, <3>1, <3>2
      <4> HIDE DEF n
      <4>2. OpStep[<<n, UploadState(i - 1, d)>>] = [n EXCEPT ![i - 1] = d]
        <5>1. OpStep[<<n, UploadState(i - 1, d)>>] = Effect(UploadState(i - 1, d), 0, n)
          BY <4>1, OpStepCopies
        <5> QED BY <5>1 DEF Effect, UploadState
      <4> HIDE DEF h, ops
      <4> QED BY <3>1, <4>2 DEF n
    <3>4. h[i] = [h[i - 1] EXCEPT ![i - 1] = d]
      <4> DEFINE n == [s \in States |-> IF s < i - 1 THEN d ELSE m[s]]
      <4>1. h[i - 1] = n /\ h[i] = [s \in States |-> IF s < i THEN d ELSE m[s]]
        BY <3>1
      <4>2. \A s \in States : s < i <=> (s < i - 1 \/ s = i - 1)
        BY <1>1, <3>1 DEF States
      <4>3. [s \in States |-> IF s < i THEN d ELSE m[s]] = [n EXCEPT ![i - 1] = d]
        BY <4>2
      <4> HIDE DEF h, n
      <4> QED BY <4>1, <4>3
    <3> QED BY <3>3, <3>4
  <2> HIDE DEF h, ops
  <2> QED BY <2>1, <2>2 DEF IsChain
<1>5. h[NStates] = Replicated(d)
  BY <1>1 DEF Replicated, States
<1>6. Fold(Images, OpStep, m, ops) = h[Len(ops)]
  <2> HIDE DEF h, ops
  <2> QED BY <1>3, <1>4, FreeStep, FoldIsLast
<1>7. ops \in Streams
  BY <1>3, FreeStep
<1> HIDE DEF h, ops
<1>8. ops \in Streams /\ Fold(Images, OpStep, m, ops) = Replicated(d)
  BY <1>3, <1>5, <1>6, <1>7
<1> QED BY <1>8 DEF ops

ScriptAsked == IF args.script = Unset THEN <<>> ELSE args.script

ScheduledScript == args.resident /\ args.script # Unset

Checking == {"cli", "settings", "script"}

Configured ==
  /\ stage \notin {"cli", "failed"} =>
       env = EnvOf(args, launch.ambient) /\ (launch.via = "launcher" => ArgsAccepted(args))
  /\ stage = "script" => steps = IF args.steps > 0 THEN args.steps ELSE 1
  /\ stage \notin Checking \cup {"failed"} =>
       ModesAccepted(env.script # Unset) /\ steps = Len(StepsAsked(args))
  /\ stage \notin Checking \cup {"kernels", "failed"} => kernels = KernelsAsked(args)

Scripted ==
  /\ stage \in Checking => script = <<>>
  /\ stage \in SetupStages => schedule = <<>>
  /\ stage \in SetupStages \ Checking => script = ScriptAsked
  /\ stage \notin SetupStages \cup {"failed"} =>
       IF ScheduledScript
         THEN /\ script = <<>> /\ schedule = args.script
              /\ \A i \in DOMAIN args.script : OffsetsInStorage(args.script[i])
         ELSE script = ScriptAsked /\ schedule = <<>>

ModeInv == Configured /\ Scripted

(* The settings as the arguments have them.                                *)
LEMMA SettingsOfArgs ==
  ASSUME TypeInv, Configured, stage \notin {"cli", "failed"}
  PROVE  /\ env.kernels = KernelsSetting(args) /\ env.dumpState = args.dumpState
         /\ env.script = args.script /\ env.resident = args.resident
         /\ env.replicate = args.replicate /\ env.timing = TimingSetting(args)
         /\ env.handle = args.handle
         /\ env.count = (IF args.handle THEN args.phases ELSE Unset)
         /\ env.dumps = (IF args.handle THEN args.dumps ELSE Unset)
         /\ env.init = args.init /\ env.warmup = launch.ambient.warmup
<1>1. launch.ambient \in EnvType
  BY LaunchesAssumption DEF TypeInv, TypeOK
<1>2. env = EnvOf(args, launch.ambient)
  BY DEF Configured
<1> QED BY <1>1, <1>2 DEF EnvOf, EnvType, PersistentSetting

(* How many steps a phase has.                                             *)
LEMMA StepsAskedLength ==
  ASSUME launch \in Launches
  PROVE  /\ args.script # Unset => StepsAsked(args) = args.script
         /\ args.script = Unset =>
              Len(StepsAsked(args)) = (IF args.steps > 0 THEN args.steps ELSE 1)
<1>1. args \in ArgsType
  BY LaunchesAssumption DEF args
<1>2. args.steps \in Nat
  BY <1>1 DEF ArgsType
<1> QED BY <1>2 DEF StepsAsked

LEMMA ModeInvInit == Init => ModeInv
  BY DEF Init, ModeInv, Configured, Scripted, Checking, SetupStages

(* Steps that keep the configuration.                                      *)
LEMMA ModeKept ==
  ASSUME ModeInv, UNCHANGED config,
         stage \notin Checking \cup {"kernels", "failed"} \/ stage' = "failed",
         stage' \notin Checking \cup {"kernels"},
         stage' = "failed" \/ (stage \in SetupStages <=> stage' \in SetupStages)
  PROVE  ModeInv'
  BY DEF config, ModeInv, Configured, Scripted, ModesAccepted, Timing, Persistent, PhaseCount,
    ScriptAsked, ScheduledScript, OffsetsInStorage, args, Checking, SetupStages

LEMMA ModeInvStep == TypeInv /\ ModeInv /\ [Next]_vars => ModeInv'
<1> SUFFICES ASSUME TypeInv, ModeInv, [Next]_vars PROVE ModeInv'
  OBVIOUS
<1>0. launch \in Launches
  BY DEF TypeInv, TypeOK
<1> USE DEF config, Checking, SetupStages
<1>1. CASE Launch
  BY <1>1 DEF Launch, ModeInv, Configured, Scripted, args
<1>2. CASE CheckSettings
  BY <1>2 DEF CheckSettings, ModeInv, Configured, Scripted, args
<1>3. CASE LoadScript
  <2>1. env.script = args.script
    BY <1>3, SettingsOfArgs DEF LoadScript, ModeInv
  <2>2. /\ stage = "script" /\ stage' \in {"kernels", "failed"}
        /\ UNCHANGED <<launch, env, schedule, kernels>> /\ args' = args
        /\ stage' = "kernels" => ModesAccepted(env.script # Unset)
    BY <1>3 DEF LoadScript, args
  <2>3. script' = ScriptAsked /\ steps' = Len(StepsAsked(args))
    <3>1. CASE args.script = Unset
      <4>1. UNCHANGED <<script, steps>>
        BY <1>3, <2>1, <3>1 DEF LoadScript
      <4>2. script = <<>> /\ steps = IF args.steps > 0 THEN args.steps ELSE 1
        BY <2>2 DEF ModeInv, Configured, Scripted
      <4>3. Len(StepsAsked(args)) = (IF args.steps > 0 THEN args.steps ELSE 1)
        BY <1>0, <3>1, StepsAskedLength
      <4> QED BY <3>1, <4>1, <4>2, <4>3 DEF ScriptAsked
    <3>2. CASE args.script # Unset
      BY <1>0, <1>3, <2>1, <3>2, StepsAskedLength DEF LoadScript, ScriptAsked
    <3> QED BY <3>1, <3>2
  <2>4. Configured'
    <3>1. ModesAccepted(env.script # Unset) => ModesAccepted(env.script # Unset)'
      BY <2>2 DEF ModesAccepted, Timing, Persistent, PhaseCount
    <3>2. StepsAsked(args)' = StepsAsked(args) /\ KernelsAsked(args)' = KernelsAsked(args)
      BY <2>2
    <3> QED BY <2>2, <2>3, <3>1, <3>2 DEF ModeInv, Configured
  <2>5. Scripted'
    BY <2>2, <2>3 DEF ModeInv, Scripted, ScriptAsked
  <2> QED BY <2>4, <2>5 DEF ModeInv
<1>4. CASE ResolveKernels
  <2>1. KernelChain = KernelsAsked(args)
    BY <1>4, SettingsOfArgs DEF ResolveKernels, ModeInv, KernelChain, KernelsAsked
  <2>2. /\ stage = "kernels" /\ stage' \in {"alloc", "failed"} /\ kernels' = KernelsAsked(args)
        /\ UNCHANGED <<launch, env, script, schedule, steps>> /\ args' = args
    BY <1>4, <2>1 DEF ResolveKernels, args
  <2>3. Configured'
    BY <2>2 DEF ModeInv, Configured, ModesAccepted, Timing, Persistent, PhaseCount
  <2>4. Scripted'
    BY <2>2 DEF ModeInv, Scripted, ScriptAsked
  <2> QED BY <2>3, <2>4 DEF ModeInv
<1>5. CASE BuildSchedule
  <2>1. /\ stage = "schedule" /\ stage' \in {"repeat", "failed"} /\ args' = args
        /\ UNCHANGED <<launch, env, steps, kernels>> /\ script = ScriptAsked /\ schedule = <<>>
    BY <1>5 DEF BuildSchedule, ModeInv, Scripted, args
  <2>2. Configured'
    BY <2>1 DEF ModeInv, Configured, ModesAccepted, Timing, Persistent, PhaseCount
  <2>3. args.script # Unset => args.script # <<>>
    <3>1. args \in ArgsType
      BY <1>0, LaunchesAssumption DEF args
    <3> QED BY <3>1 DEF ArgsType, Given
  <2>4. env.resident /\ script # <<>> <=> ScheduledScript
    BY <2>1, <2>3, SettingsOfArgs DEF ModeInv, ScriptAsked, ScheduledScript
  <2>5. Scripted'
    <3>1. CASE ScheduledScript
      <4>1. script = args.script
        BY <2>1, <3>1 DEF ScriptAsked, ScheduledScript
      <4>2. stage' = "failed" \/
              (/\ schedule' = args.script /\ script' = <<>>
               /\ \A i \in DOMAIN args.script : OffsetsInStorage(args.script[i]))
        BY <1>5, <2>4, <3>1, <4>1 DEF BuildSchedule, ScriptForgotten
      <4>3. ScheduledScript' /\ (\A i \in DOMAIN args.script : OffsetsInStorage(args.script[i]))
              => (\A i \in DOMAIN args.script : OffsetsInStorage(args.script[i]))'
        BY <2>1 DEF OffsetsInStorage
      <4>4. ScheduledScript'
        BY <2>1, <3>1 DEF ScheduledScript
      <4> QED BY <2>1, <4>2, <4>3, <4>4 DEF Scripted
    <3>2. CASE ~ScheduledScript
      <4>1. UNCHANGED <<script, schedule>> /\ ~ScheduledScript'
        BY <1>5, <2>1, <2>4, <3>2 DEF BuildSchedule, ScheduledScript
      <4> QED BY <2>1, <4>1 DEF Scripted, ScriptAsked
    <3> QED BY <3>1, <3>2
  <2> QED BY <2>2, <2>5 DEF ModeInv
<1>6. CASE Allocate \/ UploadInitState \/ InitSynchronized
  BY <1>6, ModeKept DEF Allocate, UploadInitState, InitSynchronized
<1>7. CASE BeginRepeat \/ WarmedUp \/ IssueStep \/ StepSynchronized \/ EndLoop
  BY <1>7, ModeKept DEF BeginRepeat, WarmedUp, IssueStep, StepSynchronized, EndLoop, AfterSteps
<1>8. CASE EndPhase \/ NextPhase \/ FinalSynchronized \/ EndRepeat
  BY <1>8, ModeKept DEF EndPhase, NextPhase, FinalSynchronized, EndRepeat, AfterPhase, Dump
<1>9. CASE Report \/ DumpState \/ Cleanup
  BY <1>9, ModeKept DEF Report, DumpState, Dump, Cleanup
<1>10. CASE Crash
  BY <1>10, ModeKept DEF Crash
<1>11. CASE DeviceThread \/ UNCHANGED vars
  <2>1. UNCHANGED <<config, stage>>
    BY <1>11 DEF DeviceThread, vars
  <2> QED BY <2>1 DEF ModeInv, Configured, Scripted, ModesAccepted, Timing, Persistent,
      PhaseCount, ScriptAsked, ScheduledScript, OffsetsInStorage, args
<1> QED
  BY <1>1, <1>2, <1>3, <1>4, <1>5, <1>6, <1>7, <1>8, <1>9, <1>10, <1>11
  DEF Next, Host, Setup, Loop, Finished

BeforeTheLoop == SetupStages \cup {"repeat"}

LoopInv ==
  /\ timed = LogicalStep
  /\ stage \notin BeforeTheLoop \cup {"failed"} => repeat >= 1 /\ repeat <= Timing
  /\ stage \in {"report"} \cup Reported => repeat = Timing
  /\ stage \in AfterAPhase => step = steps /\ PhaseCount > 1
  /\ stage \in Reported => timed = PhaseCount * steps
  /\ stage = "repeat" => IF repeat = 0 THEN timed = 0 ELSE timed = PhaseCount * steps

LEMMA LoopInvInit == Init => LoopInv
  BY DEF Init, LoopInv, LogicalStep, BeforeTheLoop, SetupStages, AfterAPhase, Reported

(* Steps of the loop that keep the counters.                               *)
LEMMA LoopKept ==
  ASSUME LoopInv, UNCHANGED <<env, steps, repeat, phase, step, timed>>,
         stage' \in Reported => stage \in {"report"} \cup Reported /\ (stage = "report" => timed = PhaseCount * steps),
         stage' = "report" => repeat = Timing,
         stage' = "repeat" => IF repeat = 0 THEN timed = 0 ELSE timed = PhaseCount * steps,
         stage' \in AfterAPhase => step = steps /\ PhaseCount > 1,
         stage' \in BeforeTheLoop \cup {"failed"} \/ stage \notin BeforeTheLoop \cup {"failed"}
  PROVE  LoopInv'
<1>1. Timing' = Timing /\ PhaseCount' = PhaseCount /\ LogicalStep' = LogicalStep
  BY DEF Timing, PhaseCount, Persistent, LogicalStep
<1> QED BY <1>1 DEF LoopInv, Reported, AfterAPhase

LEMMA LoopInvStep ==
  TypeInv /\ CountInv /\ LoopInv /\ [Next]_vars => LoopInv'
<1> SUFFICES ASSUME TypeInv, CountInv, LoopInv, [Next]_vars PROVE LoopInv'
  OBVIOUS
<1> USE DEF config, device, progress, outputs, Reported, AfterAPhase, BeforeTheLoop, SetupStages
<1>0. steps \in Nat /\ phase \in Nat /\ step \in Nat /\ timed \in Nat /\ step <= StepsOfPhase
      /\ repeat \in Nat
  <2>1. StepsOfPhase \in Nat
    BY DEF StepsOfPhase, TypeInv, TypeOK
  <2> QED BY <2>1, BoundsAssumption DEF TypeInv, TypeOK
<1>1. CASE Launch \/ CheckSettings \/ LoadScript \/ ResolveKernels
  <2>1. /\ stage \in {"cli", "settings", "script", "kernels"}
        /\ stage' \in {"settings", "script", "kernels", "alloc", "failed"}
        /\ UNCHANGED <<repeat, phase, step, timed>>
    BY <1>1 DEF Launch, CheckSettings, LoadScript, ResolveKernels
  <2>2. steps' \in Nat
    BY TypeInvStep DEF TypeInv, TypeOK
  <2>3. LogicalStep = 0 /\ LogicalStep' = 0
    <3>1. phase = 0 /\ step = 0 /\ phase' = 0 /\ step' = 0
      BY <2>1 DEF TypeInv, NotBegun
    <3>2. 0 * steps = 0 /\ 0 * steps' = 0
      BY <1>0, <2>2, OneMore
    <3> QED BY <3>1, <3>2 DEF LogicalStep
  <2> QED BY <2>1, <2>3 DEF LoopInv
<1>2. CASE Allocate \/ UploadInitState \/ InitSynchronized
  BY <1>2, LoopKept DEF Allocate, UploadInitState, InitSynchronized
<1>3. CASE BuildSchedule
  <2>1. repeat = 0 /\ timed = 0
    BY <1>0, <1>3, OneMore DEF BuildSchedule, TypeInv, NotBegun, LoopInv, LogicalStep
  <2> QED BY <1>3, <2>1, LoopKept DEF BuildSchedule
<1>4. CASE BeginRepeat
  <2>1. /\ stage = "repeat" /\ stage' \in {"warmup", "loop"} /\ UNCHANGED <<env, steps>>
        /\ repeat' = repeat + 1 /\ phase' = 0 /\ step' = 0 /\ timed' = 0
    BY <1>4 DEF BeginRepeat
  <2>2. Timing' = Timing /\ repeat < Timing /\ Timing \in Nat
    <3>1. Timing \in 1 .. MaxTiming
      BY <2>1 DEF TypeInv, Accepted, SettingsAccepted
    <3> QED BY <2>1, <3>1, BoundsAssumption DEF Timing, TypeInv, Counting
  <2>3. LogicalStep' = 0
    BY <1>0, <2>1, OneMore DEF LogicalStep
  <2> QED BY <1>0, <2>1, <2>2, <2>3 DEF LoopInv
<1>5. CASE WarmedUp
  BY <1>5, LoopKept DEF WarmedUp
<1>6. CASE IssueStep
  <2>1. CASE OffsetsInStorage(HostPatches)
    <3>1. /\ stage = "loop" /\ stage' \in {"stepsync", "loop"} /\ UNCHANGED <<env, steps, phase, repeat>>
          /\ step' = step + 1 /\ timed' = timed + 1
      BY <1>6, <2>1 DEF IssueStep
    <3>2. LogicalStep' = LogicalStep + 1
      <4>1. phase * steps \in Nat
        BY <1>0, OneMore
      <4> QED BY <1>0, <3>1, <4>1 DEF LogicalStep
    <3>3. Timing' = Timing
      BY <3>1 DEF Timing
    <3> QED BY <3>1, <3>2, <3>3 DEF LoopInv
  <2>2. CASE ~OffsetsInStorage(HostPatches)
    BY <1>6, <2>2, LoopKept DEF IssueStep
  <2> QED BY <2>1, <2>2
<1>7. CASE StepSynchronized
  BY <1>7, LoopKept DEF StepSynchronized
<1>8. CASE EndLoop
  <2>1. /\ stage = "loop" /\ stage' = AfterSteps /\ ~StepsRemain
        /\ UNCHANGED <<env, script, steps, repeat, phase, step, timed>>
    BY <1>8 DEF EndLoop
  <2>2. StepsOfPhase = steps
    BY <2>1 DEF StepsOfPhase, CountInv, ScriptIsOnePhase
  <2>3. step = steps
    BY <1>0, <2>1, <2>2 DEF StepsRemain
  <2>4. stage' = "phasesync" => PhaseCount > 1
    BY <2>1 DEF AfterSteps, Phased
  <2>5. stage' \in {"phasesync", "repeated", "finalsync"}
    BY <2>1 DEF AfterSteps
  <2> QED BY <2>1, <2>3, <2>4, <2>5, LoopKept
<1>9. CASE EndPhase
  <2>1. stage = "phasesync" /\ stage' \in {"nextphase", "finalsync", "failed"}
        /\ UNCHANGED <<env, steps, repeat, phase, step, timed>>
    BY <1>9 DEF EndPhase, Dump, AfterPhase
  <2> QED BY <2>1, LoopKept DEF LoopInv
<1>10. CASE NextPhase
  <2>1. /\ stage = "nextphase" /\ stage' = "loop" /\ phase' = phase + 1 /\ step' = 0
        /\ UNCHANGED <<env, steps, timed, repeat>> /\ step = steps
    BY <1>10 DEF NextPhase, LoopInv
  <2>2. LogicalStep' = LogicalStep
    BY <1>0, <2>1, OneMore DEF LogicalStep
  <2>3. Timing' = Timing
    BY <2>1 DEF Timing
  <2> QED BY <2>1, <2>2, <2>3 DEF LoopInv
<1>11. CASE FinalSynchronized
  BY <1>11, LoopKept DEF FinalSynchronized
<1>12. CASE EndRepeat
  <2>1. /\ stage = "repeated" /\ stage' = (IF repeat < Timing THEN "repeat" ELSE "report")
        /\ UNCHANGED <<env, steps, repeat, phase, step, timed>>
    BY <1>12 DEF EndRepeat
  <2>2. timed = PhaseCount * steps
    BY <2>1 DEF CountInv, TimedSteps, AllPhasesDone
  <2>3. repeat <= Timing /\ Timing \in Nat
    <3>1. Timing \in 1 .. MaxTiming
      BY <2>1 DEF TypeInv, Accepted, SettingsAccepted
    <3> QED BY <2>1, <3>1, BoundsAssumption DEF LoopInv
  <2>4. stage' = "report" => repeat = Timing
    BY <1>0, <2>1, <2>3
  <2>5. repeat # 0
    BY <1>0, <2>1 DEF LoopInv
  <2> QED BY <2>1, <2>2, <2>4, <2>5, LoopKept
<1>13. CASE Report
  <2>1. timed = PhaseCount * steps
    BY <1>13 DEF Report, CountInv, TimedSteps, AllPhasesDone
  <2> QED BY <1>13, <2>1, LoopKept DEF Report
<1>14. CASE DumpState \/ Cleanup
  BY <1>14, LoopKept DEF DumpState, Dump, Cleanup
<1>15. CASE Crash
  BY <1>15, LoopKept DEF Crash
<1>16. CASE DeviceThread \/ UNCHANGED vars
  <2>1. UNCHANGED <<env, stage, steps, repeat, phase, step, timed>>
    BY <1>16 DEF DeviceThread, vars
  <2> QED BY <2>1 DEF LoopInv, Timing, PhaseCount, Persistent, LogicalStep
<1> QED
  BY <1>1, <1>2, <1>3, <1>4, <1>5, <1>6, <1>7, <1>8, <1>9, <1>10, <1>11, <1>12, <1>13,
    <1>14, <1>15, <1>16
  DEF Next, Host, Setup, Loop, Finished

(* The limits as the arguments have them.                                  *)
LEMMA LimitsOfArgs ==
  ASSUME DirectLaunchesExpressible, TypeInv, ModeInv, stage \notin {"cli", "failed"}
  PROVE  PhaseCount = PhasesAsked(args) /\ Timing = args.timing
<1>1. launch \in Launches /\ args \in ArgsType /\ launch.via \in {"launcher", "direct"}
  BY LaunchesAssumption DEF TypeInv, TypeOK, args
<1>2. args.timing \in Int /\ args.phases \in Given(Int) /\ args.phase \in Given(Int)
  BY <1>1 DEF ArgsType
<1>3. args.timing > 0 /\ (args.handle \/ args.phases = Unset)
  <2>1. CASE launch.via = "direct"
    BY <1>1, <2>1 DEF DirectLaunchesExpressible, Expressible, args
  <2>2. CASE launch.via = "launcher"
    <3>1. ArgsAccepted(args)
      BY <2>2 DEF ModeInv, Configured
    <3>2. args.timing >= 1
      BY <3>1 DEF ArgsAccepted
    <3>3. args.phases # Unset => args.handle
      BY <3>1, UnsetAssumption DEF ArgsAccepted, PersistentArgsAccepted
    <3> QED BY <1>2, <3>2, <3>3
  <2> QED BY <1>1, <2>1, <2>2
<1>4. /\ env.timing = TimingSetting(args) /\ env.handle = args.handle
      /\ env.count = (IF args.handle THEN args.phases ELSE Unset)
  BY SettingsOfArgs DEF ModeInv
<1>5. PhaseCount = PhasesAsked(args)
  BY <1>3, <1>4 DEF PhaseCount, Persistent, PhasesAsked
<1>6. Timing = args.timing
  <2>1. CASE args.timing > 1
    <3>1. env.timing = args.timing /\ env.timing # Unset
      BY <1>2, <1>4, <2>1, UnsetAssumption DEF TimingSetting
    <3> QED BY <3>1 DEF Timing
  <2>2. CASE ~(args.timing > 1)
    BY <1>2, <1>3, <1>4, <2>2 DEF TimingSetting, Timing
  <2> QED BY <2>1, <2>2
<1> QED BY <1>5, <1>6

(* The fields of the job.                                                  *)
LEMMA JobIs ==
  /\ Job.kernels = KernelsAsked(args) /\ Job.init = InitAsked(args)
  /\ Job.warmup = launch.ambient.warmup /\ Job.repeats = args.timing
  /\ Job.saves = SavesAsked(args, Len(StepsAsked(args)))
  /\ Job.plan = [i \in 1 .. PhasesAsked(args) * Len(StepsAsked(args)) |->
                   args.patches \o StepsAsked(args)[((i - 1) % Len(StepsAsked(args))) + 1]]
  BY DEF Job, JobOf, args

Established == TypeInv /\ ModeInv /\ CountInv /\ LoopInv

(* The step before the last of a run lies within its plan.                 *)
LEMMA Multiples ==
  ASSUME NEW n \in Nat, NEW p \in Nat, NEW c \in Nat, NEW s \in Nat, p < c, s < n
  PROVE  p * n + s \in Nat /\ p * n + s < c * n /\ c * n \in Nat
<1>1. p * n + n = (p + 1) * n /\ p * n \in Nat /\ c * n \in Nat /\ (p + 1) * n \in Nat
  OBVIOUS
<1>2. PICK d \in Nat : c = (p + 1) + d
  <2>1. c - (p + 1) \in Nat /\ c = (p + 1) + (c - (p + 1))
    OBVIOUS
  <2> QED BY <2>1
<1>3. c * n = (p + 1) * n + d * n /\ d * n \in Nat
  BY <1>2
<1> QED BY <1>1, <1>3

(* The step the host issues next is the next step of the plan.             *)
LEMMA NextOfPlan ==
  ASSUME DirectLaunchesExpressible, ResidentStepsAgree, Established,
         stage = "loop", StepsRemain
  PROVE  /\ LogicalStep \in 0 .. Len(Job.plan) - 1
         /\ Job.plan[LogicalStep + 1] = HostPatches \o ScheduledPatches
         /\ ScheduledPatches \in Seq(DevicePatches) /\ OneValueEach(ScheduledPatches)
<1> DEFINE body == StepsAsked(args)
           n == Len(body)
<1>0. TypeInv /\ TypeOK /\ ModeInv /\ CountInv /\ LoopInv /\ launch \in Launches
  BY DEF Established, TypeInv, TypeOK
<1>1. args \in ArgsType /\ args.patches \in PatchLists
  BY <1>0, LaunchesAssumption DEF args, ArgsType
<1>2. /\ steps = n /\ steps \in Nat /\ phase \in Nat /\ step \in Nat
      /\ ModesAccepted(env.script # Unset)
  BY <1>0, BoundsAssumption DEF ModeInv, Configured, Checking, TypeOK, StepsOfPhase
<1>3. PhaseCount = PhasesAsked(args) /\ PhaseCount \in Nat /\ phase < PhaseCount
      /\ (PhaseCount > 1 => Persistent)
  BY <1>0, LimitsOfArgs, PhaseCounts DEF CountInv, TimedSteps, InPhase
<1>4. step < steps
  BY <1>0 DEF StepsRemain, StepsOfPhase, CountInv, ScriptIsOnePhase
<1>5. LogicalStep \in Nat /\ LogicalStep < PhaseCount * steps /\ PhaseCount * steps \in Nat
  BY <1>2, <1>3, <1>4, Multiples DEF LogicalStep
<1>6. /\ Len(Job.plan) = PhaseCount * steps
      /\ Job.plan[LogicalStep + 1] = args.patches \o body[(LogicalStep % n) + 1]
  <2> DEFINE N == PhaseCount * steps
             At(i) == args.patches \o body[((i - 1) % n) + 1]
             plan == Job.plan
  <2>1. LogicalStep + 1 \in 1 .. N /\ (LogicalStep + 1) - 1 = LogicalStep /\ N \in Nat
    BY <1>5
  <2>2. plan = [i \in 1 .. N |-> At(i)]
    BY <1>2, <1>3, JobIs
  <2>3. At(LogicalStep + 1) = args.patches \o body[(LogicalStep % n) + 1]
    BY <2>1
  <2> HIDE DEF plan, N, At
  <2>4. Len(plan) = N /\ plan[LogicalStep + 1] = At(LogicalStep + 1)
    BY <2>1, <2>2
  <2> QED BY <2>3, <2>4 DEF plan, N
<1>e. LogicalStep \in 0 .. Len(Job.plan) - 1
  BY <1>5, <1>6
<1>7. LogicalStep % n \in 0 .. n - 1
  BY <1>2, <1>4, <1>5
<1>8. /\ env.script = args.script /\ env.resident = args.resident
  BY <1>0, SettingsOfArgs DEF ModeInv
<1>9. ScheduledPatches \in Seq(DevicePatches)
  BY <1>0, ScheduledPatchesType
<1>10. args.patches \in Seq(PatchRecords)
  BY <1>1 DEF PatchLists
<1>11. CASE args.script = Unset
  <2>1. script = <<>> /\ schedule = <<>>
    BY <1>0, <1>11 DEF ModeInv, Scripted, ScheduledScript, ScriptAsked, SetupStages
  <2>2. body[(LogicalStep % n) + 1] = <<>>
    <3>1. body = [i \in 1 .. (IF args.steps = 0 THEN 1 ELSE args.steps) |-> <<>>]
      BY <1>11 DEF StepsAsked
    <3>2. DOMAIN body = 1 .. n
      <4>1. (IF args.steps = 0 THEN 1 ELSE args.steps) \in Nat
        BY <1>1 DEF ArgsType
      <4> QED BY <3>1, <4>1
    <3>3. (LogicalStep % n) + 1 \in DOMAIN body
      BY <1>2, <1>7, <3>2
    <3> QED BY <3>1, <3>3
  <2>3. ScheduledPatches = <<>> /\ HostPatches = args.patches \o <<>>
    BY <1>5, <2>1 DEF ScheduledPatches, HostPatches, ScriptPatches
  <2>4. HostPatches \o ScheduledPatches = args.patches \o <<>>
    BY <1>10, <2>3
  <2> QED BY <1>5, <1>6, <1>9, <2>2, <2>3, <2>4 DEF OneValueEach
<1>12. CASE args.script # Unset
  <2>1. body = args.script /\ args.script \in Seq(PatchLists)
    BY <1>0, <1>1, <1>12, StepsAskedLength DEF ArgsType, Given
  <2>2. PhaseCount = 1
    BY <1>2, <1>3, <1>8, <1>12 DEF ModesAccepted
  <2>3. phase = 0 /\ LogicalStep = step
    <3>1. phase = 0
      BY <1>2, <1>3, <2>2
    <3> QED BY <1>2, <3>1, OneMore DEF LogicalStep
  <2>4. LogicalStep % n = step /\ step + 1 \in 1 .. n
    BY <1>2, <1>4, <2>3
  <2>5. CASE ScheduledScript
    <3>1. /\ script = <<>> /\ schedule = args.script
      BY <1>0, <2>5 DEF ModeInv, Scripted, SetupStages
    <3>2. args.patches = <<>>
      BY <1>2, <1>8, <2>5 DEF ModesAccepted, ScheduledScript
    <3>3. HostPatches = <<>> /\ ScheduledPatches = args.script[step + 1]
      BY <1>2, <1>4, <2>1, <2>3, <3>1, <3>2 DEF HostPatches, ScriptPatches, ScheduledPatches
    <3>4. OneValueEach(args.script[step + 1])
      BY <1>0, <1>12, <2>1, <2>4, <2>5 DEF ResidentStepsAgree, ScheduledScript, args
    <3>5. Job.plan[LogicalStep + 1] = <<>> \o args.script[step + 1]
      BY <1>6, <2>1, <2>4, <3>2
    <3> QED BY <1>e, <1>9, <3>3, <3>4, <3>5
  <2>6. CASE ~ScheduledScript
    <3>1. script = args.script /\ schedule = <<>> /\ args.script # <<>>
      BY <1>0, <1>1, <1>12, <2>6 DEF ModeInv, Scripted, SetupStages, ScriptAsked, ArgsType, Given
    <3>2. HostPatches = args.patches \o args.script[step + 1] /\ ScheduledPatches = <<>>
      <4>1. ~(LogicalStep < Len(schedule))
        BY <1>5, <3>1
      <4>2. ScheduledPatches = <<>>
        BY <4>1 DEF ScheduledPatches
      <4>3. ScriptPatches = args.script[step + 1]
        BY <3>1 DEF ScriptPatches
      <4> QED BY <4>2, <4>3 DEF HostPatches
    <3>3. args.script[step + 1] \in Seq(PatchRecords)
      BY <2>1, <2>4 DEF PatchLists
    <3>4. HostPatches \o ScheduledPatches = args.patches \o args.script[step + 1]
      BY <1>10, <3>2, <3>3
    <3>5. Job.plan[LogicalStep + 1] = args.patches \o args.script[step + 1]
      BY <1>6, <2>1, <2>4
    <3> QED BY <1>e, <1>9, <3>2, <3>4, <3>5 DEF OneValueEach
  <2> QED BY <2>5, <2>6
<1> QED BY <1>11, <1>12

----------------------------------------------------------------------------
(* Before the first repetition the stream leads to the initial image.      *)
StartInv ==
  /\ stream \in Streams
  /\ stage \in {"cli", "settings", "script", "kernels", "alloc", "init"} =>
       Drained(mem, stream, ran) = Zero
  /\ stage \in {"initsync", "schedule"} \/ (stage = "repeat" /\ repeat = 0) =>
       Drained(mem, stream, ran) = InitAsked(args)

(* What the type invariant says of a partly run operation.                 *)
LEMMA ThroughKept == TypeInv => Through(stream, ran) /\ mem \in Images
  BY DEF TypeInv, TypeOK, Through

(* The memory a launch starts from, and the operations that bring it       *)
(* about: an upload, a kernel or an upload for each state.                 *)
LEMMA InitAskedType ==
  ASSUME launch \in Launches
  PROVE  InitAsked(args) \in Images
<1>1. args.init \in Given(InitFiles)
  BY LaunchesAssumption DEF args, ArgsType
<1>2. Zero \in Images
  BY ByteAssumption DEF Zero, Images, StateImages
<1>3. CASE args.init = Unset
  BY <1>2, <1>3 DEF InitAsked
<1>4. CASE args.init # Unset
  <2>1. args.init \in InitFiles
    BY <1>1, <1>4 DEF Given
  <2>2. CASE args.init.size = "total"
    <3>1. args.init.data \in Images
      BY <2>1, <2>2 DEF InitFiles
    <3> QED BY <1>4, <2>2, <3>1 DEF InitAsked
  <2>3. CASE args.init.size = "storage"
    <3>1. args.init.data \in StateImages
      BY <2>1, <2>3 DEF InitFiles
    <3> QED BY <1>4, <2>3, <3>1 DEF InitAsked, Replicated, Images
  <2>4. CASE args.init.size \notin {"total", "storage"}
    BY <1>2, <1>4, <2>4 DEF InitAsked
  <2> QED BY <2>2, <2>3, <2>4
<1> QED BY <1>3, <1>4

LEMMA InitDrained ==
  ASSUME TypeInv, ModeInv, stage = "init", env.init = Unset \/ InitFitsTotal \/ InitFitsState
  PROVE  /\ InitOperations \in Streams
         /\ Fold(Images, OpStep, Zero, InitOperations) = InitAsked(args)
<1>1. env.init = args.init /\ env \in EnvType
  BY SettingsOfArgs DEF ModeInv, TypeInv, TypeOK
<1>2. Zero \in Images
  BY ByteAssumption DEF Zero, Images, StateImages
<1>3. CASE env.init = Unset
  <2>1. InitOperations = <<>> /\ InitAsked(args) = Zero
    BY <1>1, <1>3 DEF InitOperations, InitAsked, InitFitsTotal, InitFitsState
  <2> QED BY <1>2, <2>1, DrainedNone
<1>4. CASE env.init # Unset /\ InitFitsTotal
  <2>1. env.init.data \in Images
    BY <1>1, <1>4, InitDataType DEF InitFitsTotal
  <2>2. InitOperations = <<Upload(env.init.data)>> /\ InitAsked(args) = env.init.data
    BY <1>1, <1>4 DEF InitOperations, InitFitsTotal, InitFitsState, InitAsked
  <2>3. Upload(env.init.data) \in FreeOperations
    BY <2>1, IssuedOperations
  <2>4. OpStep[<<Zero, Upload(env.init.data)>>] = env.init.data
    BY <1>2, <2>1, OpStepCopies
  <2> QED BY <1>2, <2>2, <2>3, <2>4, DrainedOne
<1>5. CASE env.init # Unset /\ ~InitFitsTotal /\ InitFitsState
  <2>1. env.init.data \in StateImages /\ InitAsked(args) = Replicated(env.init.data)
    BY <1>1, <1>5, InitDataType DEF InitFitsState, InitFitsTotal, InitAsked
  <2>2. CASE OnDevice
    <3>1. InitOperations = <<ReplicateKernel(env.init.data)>>
      BY <1>5, <2>2 DEF InitOperations, InitFitsTotal, InitFitsState
    <3>2. ReplicateKernel(env.init.data) \in FreeOperations
      BY <2>1, IssuedOperations
    <3>3. OpStep[<<Zero, ReplicateKernel(env.init.data)>>] = Replicated(env.init.data)
      BY <1>2, <2>1, OpStepKernels
    <3> QED BY <1>2, <2>1, <3>1, <3>2, <3>3, DrainedOne
  <2>3. CASE ~OnDevice
    <3>1. InitOperations = [s \in 1 .. NStates |-> UploadState(s - 1, env.init.data)]
      BY <1>5, <2>3 DEF InitOperations
    <3> QED BY <1>2, <2>1, <3>1, DrainedUploads
  <2> QED BY <2>2, <2>3
<1> QED BY <1>3, <1>4, <1>5

(* The image of a job's start.                                             *)
LEMMA StartDrained ==
  ASSUME DirectLaunchesExpressible, Established, StartInv, stage = "repeat"
  PROVE  LET ops == ClearForRepeat \o (IF env.warmup THEN Evaluations ELSE <<>>)
         IN  /\ ops \in Streams
             /\ stream \o ops = stream \o ClearForRepeat \o (IF env.warmup THEN Evaluations ELSE <<>>)
             /\ Fold(Images, OpStep, Drained(mem, stream, ran), ops) = StartImage(Job)
<1> DEFINE Warm == IF env.warmup THEN Evaluations ELSE <<>>
           d == Drained(mem, stream, ran)
           i == InitAsked(args)
<1>0. TypeInv /\ TypeOK /\ ModeInv /\ LoopInv /\ launch \in Launches
  BY DEF Established, TypeInv, TypeOK
<1>1. d \in Images /\ i \in Images
  BY <1>0, ThroughKept, DrainedType, InitAskedType DEF StartInv
<1>2. ClearForRepeat \in Streams /\ Fold(Images, OpStep, d, ClearForRepeat) = i
  <2>1. CASE Timing > 1
    <3>1. Memset \in FreeOperations /\ OpStep[<<d, Memset>>] = Zero
      BY <1>1, IssuedOperations, OpStepCopies
    <3>2. ModesAccepted(env.script # Unset)
      BY <1>0 DEF ModeInv, Configured, Checking
    <3>3. env.init = Unset
      BY <2>1, <3>2 DEF ModesAccepted
    <3>4. args.init = Unset
      BY <1>0, <3>3, SettingsOfArgs DEF ModeInv
    <3>5. i = Zero
      BY <3>4 DEF InitAsked
    <3> QED BY <1>1, <2>1, <3>1, <3>5, DrainedOne DEF ClearForRepeat
  <2>2. CASE ~(Timing > 1)
    <3>1. repeat < Timing /\ Timing \in Nat /\ repeat \in Nat
      <4>1. Timing \in 1 .. MaxTiming /\ repeat < Timing
        BY <1>0 DEF TypeInv, Accepted, SettingsAccepted, Counting
      <4> QED BY <1>0, <4>1, BoundsAssumption DEF TypeOK
    <3>2. repeat = 0
      BY <2>2, <3>1
    <3>3. d = i
      BY <3>2 DEF StartInv
    <3> QED BY <1>1, <2>2, <3>3, DrainedNone DEF ClearForRepeat
  <2> QED BY <2>1, <2>2
<1>3. /\ Job.kernels = kernels /\ kernels \in Seq(EvalKernels)
      /\ Job.init = i /\ Job.warmup = env.warmup
  <2>1. kernels = KernelsAsked(args) /\ env.warmup = launch.ambient.warmup
    BY <1>0, SettingsOfArgs DEF ModeInv, Configured, Checking
  <2> QED BY <1>0, <2>1, JobIs DEF TypeOK
<1>4. Warm \in Streams /\ Fold(Images, OpStep, i, Warm) = StartImage(Job)
  BY <1>1, <1>3, DrainedEvaluations, DrainedNone DEF StartImage
<1>5. stream \in Streams
  BY DEF StartInv
<1>6. (stream \o ClearForRepeat) \o Warm = stream \o (ClearForRepeat \o Warm)
  <2> DEFINE c == ClearForRepeat
  <2>1. stream \in Seq(FreeOperations) /\ c \in Seq(FreeOperations) /\ Warm \in Seq(FreeOperations)
    BY <1>2, <1>4, <1>5, FreeStep
  <2> HIDE DEF c, Warm
  <2>2. (stream \o c) \o Warm = stream \o (c \o Warm)
    BY <2>1, ConcatThree
  <2> QED BY <2>2 DEF c
<1> HIDE DEF d, i, Warm
<1>7. /\ ClearForRepeat \o Warm \in Streams
      /\ Fold(Images, OpStep, d, ClearForRepeat \o Warm) = StartImage(Job)
  BY <1>1, <1>2, <1>4, DrainedConcat
<1> QED BY <1>6, <1>7 DEF Warm, d

LEMMA StartInvInit == Init => StartInv
<1> SUFFICES ASSUME Init PROVE StartInv
  OBVIOUS
<1>1. Drained(mem, stream, ran) = Zero
  BY DEF Init, Drained
<1>2. stream \in Streams
  BY DEF Init, Streams
<1> QED BY <1>1, <1>2 DEF Init, StartInv

(* What the host issues, behind all that is on the stream.                 *)
LEMMA IssuedEffect ==
  ASSUME TypeInv, stream \in Streams, NEW ops \in Streams, stream' = stream \o ops,
         UNCHANGED <<mem, ran>>
  PROVE  /\ stream' \in Streams
         /\ Drained(mem, stream, ran) \in Images
         /\ Drained(mem', stream', ran') = Fold(Images, OpStep, Drained(mem, stream, ran), ops)
<1>1. Through(stream, ran) /\ mem \in Images
  BY ThroughKept
<1>2. stream \o ops \in Streams
  BY DrainedConcat, <1>1
<1>3. Drained(mem, stream, ran) \in Images
  BY <1>1, DrainedType
<1>4. Drained(mem, stream \o ops, ran) = Fold(Images, OpStep, Drained(mem, stream, ran), ops)
  BY <1>1, DrainedAppend
<1> QED BY <1>2, <1>3, <1>4

(* A thread that is not the last of its operation.                         *)
LEMMA MoreThrough ==
  ASSUME NEW st \in Streams, st # <<>>, NEW m \in Images, NEW done, Through(st, done),
         NEW t \in Threads(Head(st)) \ done, done \cup {t} # Threads(Head(st)),
         NEW n, n = Effect(Head(st), t, m), NEW more, more = done \cup {t}
  PROVE  Drained(n, st, more) = Drained(m, st, done)
  BY DrainedThread

(* A thread of the device changes no byte the stream will not change.      *)
LEMMA ThreadEffect ==
  ASSUME TypeInv, stream \in Streams, DeviceThread
  PROVE  /\ stream' \in Streams
         /\ Drained(mem', stream', ran') = Drained(mem, stream, ran)
<1>1. Through(stream, ran) /\ mem \in Images
  BY ThroughKept
<1>2. stream # <<>>
  BY DEF DeviceThread
<1>3. PICK t \in Threads(Head(stream)) \ ran :
       /\ mem' = Effect(Head(stream), t, mem)
       /\ IF ran \cup {t} = Threads(Head(stream))
            THEN stream' = Tail(stream) /\ ran' = {}
            ELSE ran' = ran \cup {t} /\ UNCHANGED stream
  BY DEF DeviceThread
<1>4. Tail(stream) \in Streams
  BY <1>2 DEF Streams
<1>5. CASE ran \cup {t} = Threads(Head(stream))
  <2>1. Drained(Effect(Head(stream), t, mem), Tail(stream), {}) = Drained(mem, stream, ran)
    BY <1>1, <1>2, <1>5, DrainedThread
  <2> QED BY <1>3, <1>4, <1>5, <2>1
<1>6. CASE ran \cup {t} # Threads(Head(stream))
  <2>1. stream' = stream /\ mem' = Effect(Head(stream), t, mem) /\ ran' = ran \cup {t}
    BY <1>3, <1>6
  <2> QED BY <1>1, <1>2, <1>6, <2>1, MoreThrough
<1> QED BY <1>5, <1>6

(* A step issued is the next step of the plan, applied to all that was     *)
(* issued before it.                                                       *)
LEMMA StepEffect ==
  ASSUME DirectLaunchesExpressible, ResidentStepsAgree, Established, StartInv,
         IssueStep, OffsetsInStorage(HostPatches)
  PROVE  /\ LogicalStep \in 0 .. Len(Job.plan) - 1
         /\ stream' \in Streams
         /\ \A i \in DOMAIN Job.plan[LogicalStep + 1] : Job.plan[LogicalStep + 1][i].off < Total
         /\ Drained(mem', stream', ran') = StepImage(Job, LogicalStep + 1, Drained(mem, stream, ran))
<1> DEFINE d == Drained(mem, stream, ran)
           here == Job.plan[LogicalStep + 1]
<1>0. TypeInv /\ TypeOK /\ stream \in Streams /\ ModeInv
  BY DEF Established, TypeInv, StartInv
<1>1. /\ stage = "loop" /\ StepsRemain /\ stream' = stream \o StepOperations
      /\ UNCHANGED <<mem, ran>>
  BY DEF IssueStep
<1>2. /\ LogicalStep \in 0 .. Len(Job.plan) - 1
      /\ here = HostPatches \o ScheduledPatches
      /\ ScheduledPatches \in Seq(DevicePatches) /\ OneValueEach(ScheduledPatches)
  BY <1>1, NextOfPlan
<1>3. HostPatches \in Seq(DevicePatches)
  BY <1>0, <1>1, HostPatchesType, CheckedPatches
<1>4. kernels \in Seq(EvalKernels) /\ kernels = Job.kernels
  <2>1. kernels = KernelsAsked(args)
    BY <1>0, <1>1 DEF ModeInv, Configured, Checking
  <2> QED BY <1>0, <2>1, JobIs DEF TypeOK
<1>5. d \in Images
  BY <1>0, ThroughKept, DrainedType
<1>6. /\ StepOperations \in Streams
      /\ Fold(Images, OpStep, d, StepOperations) = Evaluated(kernels, Patched(HostPatches \o ScheduledPatches, d))
  <2> HIDE DEF d
  <2> QED BY <1>2, <1>3, <1>4, <1>5, DrainedStep
<1>7. /\ stream' \in Streams
      /\ Drained(mem', stream', ran') = Fold(Images, OpStep, d, StepOperations)
  BY <1>0, <1>1, <1>6, IssuedEffect
<1>8. ASSUME NEW i \in DOMAIN here PROVE here[i].off < Total
  <2>1. here \in Seq(DevicePatches)
    BY <1>2, <1>3
  <2>2. here[i] \in DevicePatches
    BY <2>1
  <2>3. Total \in Nat
    BY SizesAssumption DEF Total
  <2> QED BY <2>2, <2>3 DEF DevicePatches, Offsets
<1> QED BY <1>2, <1>4, <1>6, <1>7, <1>8 DEF StepImage

(* Steps that issue nothing.                                               *)
LEMMA StartKept ==
  ASSUME StartInv, UNCHANGED <<launch, mem, stream, ran, repeat>>,
         \/ stage' \notin BeforeTheLoop
         \/ /\ stage \in {"cli", "settings", "script", "kernels"}
            /\ stage' \in {"settings", "script", "kernels", "alloc"}
         \/ stage \in {"initsync", "schedule"} /\ stage' \in {"schedule", "repeat"}
         \/ repeat # 0 /\ stage' = "repeat"
  PROVE  StartInv'
<1>1. InitAsked(args)' = InitAsked(args) /\ Drained(mem, stream, ran)' = Drained(mem, stream, ran)
  BY DEF args
<1> QED BY <1>1 DEF StartInv, BeforeTheLoop, SetupStages

LEMMA StartInvStep ==
  ASSUME DirectLaunchesExpressible, ResidentStepsAgree
  PROVE  Established /\ StartInv /\ [Next]_vars => StartInv'
<1> SUFFICES ASSUME Established, StartInv, [Next]_vars PROVE StartInv'
  OBVIOUS
<1>0. TypeInv /\ TypeOK /\ ModeInv /\ LoopInv /\ stream \in Streams /\ launch \in Launches
      /\ repeat \in Nat
  BY BoundsAssumption DEF Established, TypeInv, TypeOK, StartInv
<1> USE DEF config, device, progress, outputs
<1>1. CASE Launch \/ CheckSettings \/ LoadScript \/ ResolveKernels
  <2>1. /\ stage \in {"cli", "settings", "script", "kernels"}
        /\ stage' \in {"settings", "script", "kernels", "alloc", "failed"}
        /\ UNCHANGED <<launch, mem, stream, ran, repeat>>
    BY <1>1 DEF Launch, CheckSettings, LoadScript, ResolveKernels
  <2>2. stage' = "failed" => stage' \notin BeforeTheLoop
    BY DEF BeforeTheLoop, SetupStages
  <2> QED BY <2>1, <2>2, StartKept
<1>2. CASE Allocate
  <2>1. Memset \in FreeOperations
    BY IssuedOperations
  <2>2. Zero \in Images
    BY ByteAssumption DEF Zero, Images, StateImages
  <2>3. <<Memset>> \in Streams /\ Fold(Images, OpStep, Zero, <<Memset>>) = Zero
    BY <2>1, <2>2, DrainedOne, OpStepCopies
  <2>4. stream \in Seq(Operations)
    BY <1>0 DEF TypeOK
  <2>5. stream' = stream \o <<Memset>> /\ UNCHANGED <<mem, ran>> /\ stage = "alloc" /\ stage' = "init"
    BY <1>2, <2>4 DEF Allocate
  <2>6. Drained(mem, stream, ran) = Zero
    BY <2>5 DEF StartInv
  <2>7. stream' \in Streams /\ Drained(mem', stream', ran') = Zero
    BY <1>0, <2>3, <2>5, <2>6, IssuedEffect
  <2> QED BY <2>5, <2>7 DEF StartInv
<1>3. CASE UploadInitState
  <2>1. CASE env.init = Unset \/ InitFitsTotal \/ InitFitsState
    <3>1. /\ stage = "init" /\ stage' \in {"initsync", "schedule"} /\ UNCHANGED <<launch, mem, ran>>
          /\ stream' = stream \o InitOperations
      BY <1>3, <2>1 DEF UploadInitState
    <3>2. InitOperations \in Streams /\ Fold(Images, OpStep, Zero, InitOperations) = InitAsked(args)
      BY <1>0, <2>1, <3>1, InitDrained
    <3>3. Drained(mem, stream, ran) = Zero
      BY <3>1 DEF StartInv
    <3>4. stream' \in Streams /\ Drained(mem', stream', ran') = InitAsked(args)
      BY <1>0, <3>1, <3>2, <3>3, IssuedEffect
    <3>5. InitAsked(args)' = InitAsked(args)
      BY <3>1 DEF args
    <3> QED BY <3>1, <3>4, <3>5 DEF StartInv
  <2>2. CASE ~(env.init = Unset \/ InitFitsTotal \/ InitFitsState)
    <3>1. stage' = "failed" /\ UNCHANGED <<launch, mem, stream, ran, repeat>>
      BY <1>3, <2>2 DEF UploadInitState
    <3> QED BY <3>1, StartKept DEF BeforeTheLoop, SetupStages
  <2> QED BY <2>1, <2>2
<1>4. CASE InitSynchronized \/ BuildSchedule
  <2>1. /\ stage \in {"initsync", "schedule"} /\ stage' \in {"schedule", "repeat", "failed"}
        /\ UNCHANGED <<launch, mem, stream, ran, repeat>>
    BY <1>4 DEF InitSynchronized, BuildSchedule
  <2>2. stage' = "failed" => stage' \notin BeforeTheLoop
    BY DEF BeforeTheLoop, SetupStages
  <2> QED BY <2>1, <2>2, StartKept
<1>5. CASE BeginRepeat
  <2> DEFINE ops == ClearForRepeat \o (IF env.warmup THEN Evaluations ELSE <<>>)
  <2>1. /\ stage = "repeat" /\ stage' \in {"warmup", "loop"} /\ UNCHANGED <<mem, ran>>
        /\ stream' = stream \o ClearForRepeat \o (IF env.warmup THEN Evaluations ELSE <<>>)
    BY <1>5 DEF BeginRepeat
  <2>2. ops \in Streams /\ stream' = stream \o ops
    BY <2>1, StartDrained
  <2> HIDE DEF ops
  <2>3. stream' \in Streams
    BY <1>0, <2>1, <2>2, IssuedEffect
  <2> QED BY <2>1, <2>3 DEF StartInv
<1>6. CASE IssueStep
  <2>1. CASE OffsetsInStorage(HostPatches)
    <3>1. stream' \in Streams
      BY <1>6, <2>1, StepEffect
    <3>2. stage' \in {"stepsync", "loop"}
      BY <1>6, <2>1 DEF IssueStep
    <3> QED BY <3>1, <3>2 DEF StartInv
  <2>2. CASE ~OffsetsInStorage(HostPatches)
    <3>1. stage' = "failed" /\ UNCHANGED <<launch, mem, stream, ran, repeat>>
      BY <1>6, <2>2 DEF IssueStep
    <3> QED BY <3>1, StartKept DEF BeforeTheLoop, SetupStages
  <2> QED BY <2>1, <2>2
<1>7. CASE WarmedUp \/ StepSynchronized \/ EndLoop \/ EndPhase \/ FinalSynchronized
  <2>1. /\ stage' \in {"loop", "phasesync", "stepsync", "repeated", "finalsync", "nextphase", "failed"}
        /\ UNCHANGED <<launch, mem, stream, ran, repeat>>
    BY <1>7 DEF WarmedUp, StepSynchronized, EndLoop, AfterSteps, EndPhase, Dump, AfterPhase,
      FinalSynchronized
  <2> QED BY <2>1, StartKept DEF BeforeTheLoop, SetupStages
<1>8. CASE NextPhase \/ Report \/ DumpState \/ Cleanup \/ Crash
  <2>1. /\ stage' \in {"loop", "dump", "cleanup", "done", "failed"}
        /\ UNCHANGED <<launch, mem, stream, ran, repeat>>
    BY <1>8 DEF NextPhase, Report, DumpState, Dump, Cleanup, Crash
  <2> QED BY <2>1, StartKept DEF BeforeTheLoop, SetupStages
<1>9. CASE EndRepeat
  <2>1. /\ stage = "repeated" /\ stage' \in {"repeat", "report"}
        /\ UNCHANGED <<launch, mem, stream, ran, repeat>>
    BY <1>9 DEF EndRepeat
  <2>2. repeat # 0
    BY <1>0, <2>1 DEF LoopInv, BeforeTheLoop, SetupStages
  <2> QED BY <2>1, <2>2, StartKept DEF BeforeTheLoop, SetupStages
<1>10. CASE DeviceThread
  <2>1. stream' \in Streams /\ Drained(mem', stream', ran') = Drained(mem, stream, ran)
    BY <1>0, <1>10, ThreadEffect
  <2>2. UNCHANGED <<launch, stage, repeat>>
    BY <1>10 DEF DeviceThread
  <2>3. InitAsked(args)' = InitAsked(args)
    BY <2>2 DEF args
  <2> QED BY <2>1, <2>2, <2>3 DEF StartInv
<1>11. CASE UNCHANGED vars
  <2>1. UNCHANGED <<launch, mem, stream, ran, repeat, stage>>
    BY <1>11 DEF vars
  <2>2. InitAsked(args)' = InitAsked(args) /\ Drained(mem, stream, ran)' = Drained(mem, stream, ran)
    BY <2>1 DEF args
  <2> QED BY <2>1, <2>2 DEF StartInv
<1> QED
  BY <1>1, <1>2, <1>3, <1>4, <1>5, <1>6, <1>7, <1>8, <1>9, <1>10, <1>11
  DEF Next, Host, Setup, Loop, Finished

----------------------------------------------------------------------------
(* The dumps written so far.                                               *)
PhaseDumpsUpTo(n) == \A p \in DOMAIN PhaseDumps : p <= n => files[PhaseDumps[p]] # Old

SavedInv ==
  /\ PhaseCount > 1 =>
       /\ stage \in InPhase \cup {"phasesync"} => PhaseDumpsUpTo(phase)
       /\ stage = "nextphase" => PhaseDumpsUpTo(phase + 1)
       /\ stage \in AllPhasesDone \cup Reported => PhaseDumpsUpTo(PhaseCount)
  /\ stage \in {"cleanup", "done"} /\ env.dumpState # Unset => files[env.dumpState] # Old

LEMMA SavedInvInit == Init => SavedInv
  BY DEF Init, SavedInv, InPhase, AllPhasesDone, Reported

(* The phase dumps that were accepted.                                     *)
LEMMA PhaseDumpPaths ==
  ASSUME TypeInv, stage \notin {"cli", "settings", "failed"}
  PROVE  /\ PhaseDumps \in Seq(DumpPaths)
         /\ PhaseDumps # <<>> => Len(PhaseDumps) = PhaseCount
<1>1. SettingsAccepted /\ env \in EnvType
  BY DEF TypeInv, Accepted, TypeOK
<1>2. env.dumps \in Given(Seq(DumpPaths))
  BY <1>1 DEF EnvType
<1> QED BY <1>1, <1>2 DEF PhaseDumps, Given, SettingsAccepted, PersistentSettingsAccepted

(* A dump that was written stays written.                                  *)
LEMMA WrittenStays ==
  ASSUME TypeInv, NEW path \in DumpPaths, files' = [files EXCEPT ![path] = mem]
  PROVE  /\ files'[path] # Old
         /\ \A q \in DumpPaths : files[q] # Old => files'[q] # Old
  BY FilesAssumption DEF TypeInv, TypeOK

(* Steps that write nothing.                                               *)
LEMMA SavedKept ==
  ASSUME SavedInv, UNCHANGED <<env, phase, files>>,
         stage' \in {"cleanup", "done"} /\ env.dumpState # Unset => stage \in {"cleanup", "done"},
         \/ ~(PhaseCount > 1)
         \/ stage' \notin InPhase \cup AfterAPhase \cup AllPhasesDone \cup Reported
         \/ stage \in InPhase /\ stage' \in InPhase \cup {"phasesync"}
         \/ stage \in AllPhasesDone \cup Reported /\ stage' \in AllPhasesDone \cup Reported
  PROVE  SavedInv'
<1>1. /\ PhaseCount' = PhaseCount /\ PhaseDumps' = PhaseDumps
      /\ \A n : PhaseDumpsUpTo(n)' = PhaseDumpsUpTo(n)
  BY DEF PhaseCount, PhaseDumps, Persistent, PhaseDumpsUpTo
<1>2. PhaseDumpsUpTo(phase)' = PhaseDumpsUpTo(phase) /\ PhaseDumpsUpTo(PhaseCount)' = PhaseDumpsUpTo(PhaseCount)
  BY DEF PhaseCount, PhaseDumps, Persistent, PhaseDumpsUpTo
<1> QED BY <1>1, <1>2 DEF SavedInv, InPhase, AfterAPhase, AllPhasesDone, Reported

LEMMA SavedInvStep == Established /\ SavedInv /\ [Next]_vars => SavedInv'
<1> SUFFICES ASSUME Established, SavedInv, [Next]_vars PROVE SavedInv'
  OBVIOUS
<1>0. TypeInv /\ TypeOK /\ ModeInv /\ LoopInv /\ CountInv
  BY DEF Established, TypeInv
<1> USE DEF config, device, progress, outputs, InPhase, AfterAPhase, AllPhasesDone, Reported
<1>1. CASE Launch
  BY <1>1 DEF Launch, SavedInv
<1>2. CASE CheckSettings \/ LoadScript \/ ResolveKernels \/ Allocate
  BY <1>2, SavedKept DEF CheckSettings, LoadScript, ResolveKernels, Allocate
<1>3. CASE UploadInitState \/ InitSynchronized \/ BuildSchedule
  BY <1>3, SavedKept DEF UploadInitState, InitSynchronized, BuildSchedule
<1>4. CASE BeginRepeat
  <2>1. /\ stage' \in {"warmup", "loop"} /\ UNCHANGED <<env, files>> /\ phase' = 0
        /\ stage = "repeat"
    BY <1>4 DEF BeginRepeat
  <2>2. PhaseDumps' = PhaseDumps
    BY <2>1 DEF PhaseDumps, Persistent
  <2>3. PhaseDumps \in Seq(DumpPaths)
    BY <1>0, <2>1, PhaseDumpPaths
  <2>4. PhaseDumpsUpTo(phase)'
    <3>1. ~ (\E p \in DOMAIN PhaseDumps' : p <= phase')
      BY <2>1, <2>2, <2>3
    <3> QED BY <3>1 DEF PhaseDumpsUpTo
  <2> QED BY <2>1, <2>4 DEF SavedInv
<1>5. CASE WarmedUp \/ IssueStep \/ StepSynchronized
  BY <1>5, SavedKept DEF WarmedUp, IssueStep, StepSynchronized
<1>6. CASE EndLoop
  <2>1. /\ stage = "loop" /\ stage' = AfterSteps /\ UNCHANGED <<env, phase, files>>
    BY <1>6 DEF EndLoop
  <2>2. PhaseCount > 1 => stage' = "phasesync"
    <3> SUFFICES ASSUME PhaseCount > 1 PROVE stage' = "phasesync"
      OBVIOUS
    <3>1. env.sync \in BOOLEAN
      BY <1>0 DEF TypeOK, EnvType
    <3>2. ~env.sync
      BY <1>0, <2>1, PhaseCounts DEF CountInv, Unmixed
    <3>3. script = <<>>
      BY <1>0, <2>1 DEF CountInv, ScriptIsOnePhase
    <3> QED BY <2>1, <3>2, <3>3 DEF AfterSteps, Phased
  <2>3. stage' \notin {"cleanup", "done"}
    BY <2>1 DEF AfterSteps
  <2> QED BY <2>1, <2>2, <2>3, SavedKept
<1>7. CASE EndPhase
  <2>1. /\ stage = "phasesync" /\ stage' \in {AfterPhase, "failed"} /\ UNCHANGED <<env, phase>>
    BY <1>7 DEF EndPhase, Dump
  <2>2. phase \in Nat /\ phase < PhaseCount /\ PhaseCount \in Nat
    BY <1>0, <2>1, BoundsAssumption, PhaseCounts DEF CountInv, TimedSteps, TypeOK
  <2>3. /\ PhaseDumps \in Seq(DumpPaths)
        /\ PhaseDumps # <<>> => Len(PhaseDumps) = PhaseCount
        /\ PhaseDumps' = PhaseDumps /\ PhaseCount' = PhaseCount
    BY <1>0, <2>1, PhaseDumpPaths DEF PhaseDumps, PhaseCount, Persistent
  <2>4. PhaseCount > 1
    BY <1>0, <2>1 DEF LoopInv
  <2>5. PhaseDumpsUpTo(phase)
    BY <1>0, <2>1, <2>4 DEF SavedInv
  <2>6. CASE stage' = "failed"
    BY <2>6 DEF SavedInv
  <2>7. CASE stage' # "failed" /\ phase < Len(PhaseDumps)
    <3> DEFINE path == PhaseDumps[phase + 1]
    <3>1. phase + 1 \in DOMAIN PhaseDumps /\ path \in DumpPaths
      BY <2>2, <2>3, <2>7
    <3>2. files' = [files EXCEPT ![path] = mem]
      BY <1>7, <2>7 DEF EndPhase, Dump
    <3>3. /\ files'[path] # Old
          /\ \A q \in DumpPaths : files[q] # Old => files'[q] # Old
      <4> HIDE DEF path
      <4> QED BY <1>0, <3>1, <3>2, WrittenStays
    <3>4. ASSUME NEW p \in DOMAIN PhaseDumps, p <= phase + 1 PROVE files'[PhaseDumps[p]] # Old
      <4>1. p \in Nat /\ PhaseDumps[p] \in DumpPaths
        BY <2>3
      <4>2. CASE p = phase + 1
        BY <3>3, <4>2
      <4>3. CASE p # phase + 1
        <5>1. p <= phase
          BY <2>2, <3>4, <4>1, <4>3
        <5> QED BY <2>5, <3>3, <4>1, <5>1 DEF PhaseDumpsUpTo
      <4> QED BY <4>2, <4>3
    <3>5. PhaseDumpsUpTo(phase + 1)'
      BY <2>1, <2>3, <3>4 DEF PhaseDumpsUpTo
    <3>6. stage' = "finalsync" => PhaseDumpsUpTo(PhaseCount)'
      <4>1. stage' = "finalsync" => PhaseCount = phase + 1
        BY <2>1, <2>2 DEF AfterPhase
      <4> QED BY <2>1, <2>3, <3>5, <4>1
    <3>7. stage' \in {"nextphase", "finalsync"}
      BY <2>1, <2>7 DEF AfterPhase
    <3> QED BY <3>5, <3>6, <3>7 DEF SavedInv
  <2>8. CASE stage' # "failed" /\ ~(phase < Len(PhaseDumps))
    <3>1. PhaseDumps = <<>>
      BY <2>2, <2>3, <2>8
    <3>2. \A n : PhaseDumpsUpTo(n)'
      BY <2>3, <3>1 DEF PhaseDumpsUpTo
    <3>3. stage' \in {"nextphase", "finalsync"}
      BY <2>1, <2>8 DEF AfterPhase
    <3>4. PhaseDumpsUpTo(phase + 1)' /\ PhaseDumpsUpTo(PhaseCount)'
      BY <2>3, <3>1 DEF PhaseDumpsUpTo
    <3> QED BY <3>3, <3>4 DEF SavedInv
  <2> QED BY <2>6, <2>7, <2>8
<1>8. CASE NextPhase
  <2>1. /\ stage = "nextphase" /\ stage' = "loop" /\ phase' = phase + 1 /\ UNCHANGED <<env, files>>
    BY <1>8 DEF NextPhase
  <2>2. PhaseDumps' = PhaseDumps /\ PhaseCount' = PhaseCount
    BY <2>1 DEF PhaseDumps, PhaseCount, Persistent
  <2>3. PhaseCount > 1
    BY <1>0, <2>1 DEF LoopInv
  <2>4. PhaseDumpsUpTo(phase)'
    BY <2>1, <2>2, <2>3 DEF SavedInv, PhaseDumpsUpTo
  <2> QED BY <2>1, <2>4 DEF SavedInv
<1>9. CASE FinalSynchronized \/ Report
  BY <1>9, SavedKept DEF FinalSynchronized, Report
<1>10. CASE EndRepeat
  BY <1>10, SavedKept DEF EndRepeat
<1>11. CASE DumpState
  <2>1. /\ stage = "dump" /\ stage' \in {"cleanup", "failed"} /\ UNCHANGED <<env, phase>>
    BY <1>11 DEF DumpState, Dump
  <2>2. PhaseDumps' = PhaseDumps /\ PhaseCount' = PhaseCount /\ PhaseDumps \in Seq(DumpPaths)
    BY <1>0, <2>1, PhaseDumpPaths DEF PhaseDumps, PhaseCount, Persistent
  <2>3. CASE env.dumpState = Unset \/ stage' = "failed"
    <3>1. stage' = "failed" \/ UNCHANGED files
      BY <1>11, <2>3 DEF DumpState
    <3>2. CASE stage' = "failed"
      BY <3>2 DEF SavedInv
    <3>3. CASE stage' # "failed"
      <4>1. PhaseDumpsUpTo(PhaseCount)' = PhaseDumpsUpTo(PhaseCount)
        BY <2>2, <3>1, <3>3 DEF PhaseDumpsUpTo
      <4> QED BY <2>1, <2>2, <2>3, <3>3, <4>1 DEF SavedInv
    <3> QED BY <3>2, <3>3
  <2>4. CASE env.dumpState # Unset /\ stage' # "failed"
    <3>1. env.dumpState \in DumpPaths
      BY <1>0, <2>4 DEF TypeOK, EnvType, Given
    <3>2. files' = [files EXCEPT ![env.dumpState] = mem]
      BY <1>11, <2>4 DEF DumpState, Dump
    <3>3. /\ files'[env.dumpState] # Old
          /\ \A q \in DumpPaths : files[q] # Old => files'[q] # Old
      <4> DEFINE path == env.dumpState
      <4> HIDE DEF path
      <4>1. path \in DumpPaths /\ files' = [files EXCEPT ![path] = mem]
        BY <3>1, <3>2 DEF path
      <4>2. files'[path] # Old /\ \A q \in DumpPaths : files[q] # Old => files'[q] # Old
        BY <1>0, <4>1, WrittenStays
      <4> QED BY <4>2 DEF path
    <3>4. PhaseCount > 1 => PhaseDumpsUpTo(PhaseCount)
      BY <2>1 DEF SavedInv
    <3>5. \A p \in DOMAIN PhaseDumps : PhaseDumps[p] \in DumpPaths
      BY <2>2
    <3>6. PhaseCount > 1 => PhaseDumpsUpTo(PhaseCount)'
      BY <2>2, <3>3, <3>4, <3>5 DEF PhaseDumpsUpTo
    <3> QED BY <2>1, <2>2, <3>3, <3>6 DEF SavedInv
  <2> QED BY <2>3, <2>4
<1>12. CASE Cleanup
  BY <1>12, SavedKept DEF Cleanup
<1>13. CASE Crash
  BY <1>13, SavedKept DEF Crash
<1>14. CASE DeviceThread \/ UNCHANGED vars
  <2>1. UNCHANGED <<env, stage, phase, files>>
    BY <1>14 DEF DeviceThread, vars
  <2> QED BY <2>1 DEF SavedInv, PhaseCount, PhaseDumps, Persistent, PhaseDumpsUpTo
<1> QED
  BY <1>1, <1>2, <1>3, <1>4, <1>5, <1>6, <1>7, <1>8, <1>9, <1>10, <1>11, <1>12, <1>13, <1>14
  DEF Next, Host, Setup, Loop, Finished

----------------------------------------------------------------------------
(* The operators of the sequential run are those of the runtime.           *)
LEMMA SameMemory ==
  /\ Sequential!Total = Total /\ Sequential!Zero = Zero
  /\ \A k, m : Sequential!Evaluated(k, m) = Evaluated(k, m)
  /\ \A p, m : Sequential!Patched(p, m) = Patched(p, m)
<1>1. Sequential!Total = Total
  BY DEF Sequential!Total, Total
<1>2. Sequential!Zero = Zero
  BY DEF Sequential!Zero, Zero, Sequential!States, States
<1>3. \A k, m : Sequential!Evaluated(k, m) = Evaluated(k, m)
  BY DEF Sequential!Evaluated, Evaluated, Sequential!FoldLeft, FoldLeft,
    Sequential!MapThenFoldSet, MapThenFoldSet, Sequential!Max, Max, Sequential!States, States
<1>4. \A p, m : Sequential!Patched(p, m) = Patched(p, m)
  BY DEF Sequential!Patched, Patched, Sequential!FoldLeft, FoldLeft,
    Sequential!MapThenFoldSet, MapThenFoldSet, Sequential!Max, Max, Sequential!Written, Written
<1> QED BY <1>1, <1>2, <1>3, <1>4

LEMMA SameImages ==
  /\ \A j : Sequential!StartImage(j) = StartImage(j)
  /\ \A j, i, m : Sequential!StepImage(j, i, m) = StepImage(j, i, m)
  BY SameMemory DEF Sequential!StartImage, StartImage, Sequential!StepImage, StepImage

(* The run starts where the sequential run of its request starts.          *)
LEMMA JobIsAJob == launch \in Launches => Job \in Sequential!Jobs
<1>1. \A a, b : Sequential!JobOf(a, b) = JobOf(a, b)
  BY DEF Sequential!JobOf, JobOf, Sequential!StepsAsked, StepsAsked, Sequential!KernelsAsked,
    KernelsAsked, Sequential!KernelsSetting, KernelsSetting, Sequential!InitAsked, InitAsked,
    Sequential!SavesAsked, SavesAsked, Sequential!PhasesAsked, PhasesAsked, Sequential!Zero, Zero,
    Sequential!States, States, Sequential!Replicated, Replicated
<1> QED BY <1>1 DEF Job, Sequential!Jobs

Img == IF repeat = 0 THEN Zero ELSE Drained(mem, stream, ran)

LEMMA MappedVars == Sequential!vars = <<Job, Img, LogicalStep, repeat, files, RunStatus>>
  BY DEF Sequential!vars, Img

LEMMA MappedInit == Init => Sequential!Init
<1> SUFFICES ASSUME Init PROVE Sequential!Init
  OBVIOUS
<1>1. Job \in Sequential!Jobs
  BY JobIsAJob DEF Init
<1>2. LogicalStep = 0
  BY OneMore DEF Init, LogicalStep
<1>3. RunStatus = "idle"
  BY DEF Init, RunStatus
<1> QED BY <1>1, <1>2, <1>3, SameMemory DEF Init, Sequential!Init

(* The plan has the steps of all phases.                                   *)
LEMMA PlanLength ==
  ASSUME DirectLaunchesExpressible, Established, stage \notin SetupStages \cup {"failed"}
  PROVE  /\ Len(Job.plan) = PhaseCount * steps /\ steps = Len(StepsAsked(args))
         /\ PhaseCount = PhasesAsked(args) /\ Timing = args.timing
<1>0. TypeInv /\ TypeOK /\ ModeInv /\ stage \notin {"cli", "settings", "script", "failed"}
  BY DEF Established, TypeInv, SetupStages
<1>1. PhaseCount = PhasesAsked(args) /\ Timing = args.timing
  BY <1>0, LimitsOfArgs
<1>2. steps = Len(StepsAsked(args)) /\ steps \in Nat
  BY <1>0 DEF ModeInv, Configured, Checking, TypeOK
<1>3. PhaseCount \in Nat
  BY <1>0, PhaseCounts
<1>4. PhaseCount * steps \in Nat
  BY <1>2, <1>3
<1> DEFINE At(i) == args.patches \o StepsAsked(args)[((i - 1) % Len(StepsAsked(args))) + 1]
           N == PhaseCount * steps
           plan == Job.plan
<1>5. plan = [i \in 1 .. N |-> At(i)]
  BY <1>1, <1>2, JobIs
<1> HIDE DEF plan, At, N
<1>6. N \in Nat
  BY <1>4 DEF N
<1>7. Len(plan) = N
  BY <1>5, <1>6
<1> QED BY <1>1, <1>2, <1>7 DEF plan, N

----------------------------------------------------------------------------
(* Every step of the runtime is a step of the sequential run or no step of *)
(* it.                                                                     *)

(* Moving on without issuing anything.                                     *)
LEMMA MovesAreUnseen ==
  ASSUME TypeInv, UNCHANGED <<launch, repeat, files>>, LogicalStep' = LogicalStep,
         repeat # 0 => Drained(mem, stream, ran)' = Drained(mem, stream, ran),
         stage \notin {"failed", "done"}, stage' \notin {"failed", "done"}
  PROVE  UNCHANGED Sequential!vars
<1>1. Job' = Job
  BY DEF Job
<1>2. RunStatus' = RunStatus
  BY DEF RunStatus
<1>3. Img' = Img
  BY DEF Img
<1> QED BY <1>1, <1>2, <1>3 DEF Sequential!vars, Img

(* Refusals and failures.                                                  *)
LEMMA RefusalsFail ==
  ASSUME TypeInv, UNCHANGED <<launch, repeat>>, LogicalStep' = LogicalStep,
         repeat # 0 => UNCHANGED <<mem, stream, ran>>,
         stage \notin {"failed", "done"}, stage' = "failed",
         \/ UNCHANGED files
         \/ \E s \in Job.saves : files' = [files EXCEPT ![s.path] = Partial]
  PROVE  Sequential!Fail
<1>1. Job' = Job
  BY DEF Job
<1>2. RunStatus \in {"idle", "running"} /\ RunStatus' = "failed"
  BY DEF RunStatus
<1>3. Img' = Img
  BY DEF Img
<1> QED BY <1>1, <1>2, <1>3 DEF Sequential!Fail, Img

(* Beginning a repetition is beginning the sequential run, or beginning it *)
(* again: what the stream still holds of the last repetition is undone.    *)
LEMMA RepeatBegins ==
  ASSUME DirectLaunchesExpressible, Established, StartInv, BeginRepeat
  PROVE  Sequential!Begin \/ Sequential!Again
<1> DEFINE ops == ClearForRepeat \o (IF env.warmup THEN Evaluations ELSE <<>>)
<1>0. TypeInv /\ TypeOK /\ LoopInv /\ stream \in Streams
  BY DEF Established, TypeInv, StartInv
<1>1. /\ stage = "repeat" /\ stage' \in {"warmup", "loop"} /\ repeat' = repeat + 1
      /\ phase' = 0 /\ step' = 0 /\ UNCHANGED <<launch, env, steps, mem, ran, files>>
      /\ stream' = stream \o ClearForRepeat \o (IF env.warmup THEN Evaluations ELSE <<>>)
  BY DEF BeginRepeat, config, outputs
<1>2. /\ ops \in Streams /\ stream' = stream \o ops
      /\ Fold(Images, OpStep, Drained(mem, stream, ran), ops) = StartImage(Job)
  BY <1>1, StartDrained
<1> HIDE DEF ops
<1>3. Drained(mem', stream', ran') = StartImage(Job)
  BY <1>0, <1>1, <1>2, IssuedEffect
<1>4. repeat \in Nat /\ repeat + 1 # 0
  BY <1>0, BoundsAssumption DEF TypeOK
<1>5. Job' = Job
  BY <1>1 DEF Job
<1>6. Img' = Sequential!StartImage(Job)
  BY <1>1, <1>3, <1>4, SameImages DEF Img
<1>7. LogicalStep' = 0
  BY <1>0, <1>1, OneMore DEF LogicalStep, TypeOK
<1>8. RunStatus' = "running"
  BY <1>1, <1>4 DEF RunStatus
<1>9. Len(Job.plan) = PhaseCount * steps /\ Timing = args.timing
  BY <1>1, PlanLength DEF SetupStages
<1>10. CASE repeat = 0
  <2>1. LogicalStep = 0
    BY <1>0, <1>1, <1>10 DEF LoopInv
  <2>2. RunStatus = "idle"
    BY <1>1, <1>10 DEF RunStatus
  <2> QED BY <1>1, <1>5, <1>6, <1>7, <1>8, <1>10, <2>1, <2>2 DEF Sequential!Begin, Img
<1>11. CASE repeat # 0
  <2>1. LogicalStep = Len(Job.plan)
    BY <1>0, <1>1, <1>9, <1>11 DEF LoopInv
  <2>2. RunStatus = "running"
    BY <1>1, <1>11 DEF RunStatus
  <2>3. repeat < Job.repeats
    BY <1>0, <1>1, <1>9, JobIs DEF TypeInv, Counting
  <2> QED BY <1>1, <1>5, <1>6, <1>7, <1>8, <2>1, <2>2, <2>3 DEF Sequential!Again, Img
<1> QED BY <1>10, <1>11

(* Issuing a step is taking it, whatever mode the patches travel in.       *)
LEMMA StepIsTaken ==
  ASSUME DirectLaunchesExpressible, ResidentStepsAgree, Established, StartInv, IssueStep
  PROVE  Sequential!Step \/ Sequential!Fail
<1>0. TypeInv /\ TypeOK /\ LoopInv
  BY DEF Established, TypeInv
<1>1. CASE OffsetsInStorage(HostPatches)
  <2>1. /\ stage = "loop" /\ stage' \in {"stepsync", "loop"} /\ step' = step + 1
        /\ UNCHANGED <<launch, steps, phase, repeat, files>>
    BY <1>1 DEF IssueStep, config, outputs
  <2>2. repeat # 0
    BY <1>0, <2>1 DEF LoopInv, BeforeTheLoop, SetupStages
  <2>3. /\ LogicalStep \in 0 .. Len(Job.plan) - 1
        /\ \A i \in DOMAIN Job.plan[LogicalStep + 1] : Job.plan[LogicalStep + 1][i].off < Total
        /\ Drained(mem', stream', ran') = StepImage(Job, LogicalStep + 1, Drained(mem, stream, ran))
    BY <1>1, StepEffect
  <2>4. Img' = Sequential!StepImage(Job, LogicalStep + 1, Img)
    BY <2>1, <2>2, <2>3, SameImages DEF Img
  <2>5. LogicalStep' = LogicalStep + 1
    <3>1. phase \in Nat /\ steps \in Nat /\ step \in Nat
      BY <1>0, BoundsAssumption DEF TypeOK, StepsOfPhase
    <3>2. phase * steps \in Nat
      BY <3>1, OneMore
    <3> QED BY <2>1, <3>1, <3>2 DEF LogicalStep
  <2>6. RunStatus = "running" /\ RunStatus' = "running"
    BY <2>1, <2>2 DEF RunStatus
  <2>7. Job' = Job
    BY <2>1 DEF Job
  <2>8. LogicalStep < Len(Job.plan)
    BY <2>3
  <2> QED BY <2>1, <2>3, <2>4, <2>5, <2>6, <2>7, <2>8, SameMemory DEF Sequential!Step, Img
<1>2. CASE ~OffsetsInStorage(HostPatches)
  <2>1. /\ stage = "loop" /\ stage' = "failed"
        /\ UNCHANGED <<launch, steps, phase, step, repeat, files, mem, stream, ran>>
    BY <1>2 DEF IssueStep, config, outputs
  <2>2. LogicalStep' = LogicalStep
    BY <2>1 DEF LogicalStep
  <2> QED BY <1>0, <2>1, <2>2, RefusalsFail
<1> QED BY <1>1, <1>2

(* Dumps of a drained stream.                                              *)
LEMMA DumpIsSaved ==
  ASSUME TypeInv, stream = <<>>, repeat # 0, repeat = Job.repeats,
         stage \notin {"failed", "done"}, UNCHANGED <<launch, repeat, mem, stream, ran>>,
         LogicalStep' = LogicalStep,
         NEW path, NEW next, next \notin {"failed", "done"}, Dump(path, next),
         [path |-> path, at |-> LogicalStep] \in Job.saves
  PROVE  Sequential!Save \/ Sequential!Fail
<1> DEFINE s == [path |-> path, at |-> LogicalStep]
<1>1. s \in Job.saves /\ s.path = path /\ s.at = LogicalStep
  OBVIOUS
<1>2. Drained(mem, stream, ran) = mem
  BY DEF Drained
<1>3. Img = mem /\ Img' = Img /\ Job' = Job
  BY <1>2 DEF Img, Job
<1> HIDE DEF s
<1>4. CASE files' = [files EXCEPT ![path] = mem] /\ stage' = next
  <2>1. RunStatus = "running" /\ RunStatus' = "running"
    BY <1>4 DEF RunStatus
  <2>2. \E r \in Job.saves : r.at = LogicalStep /\ files' = [files EXCEPT ![r.path] = Img]
    BY <1>1, <1>3, <1>4
  <2> QED BY <1>3, <2>1, <2>2 DEF Sequential!Save, Img
<1>5. CASE files' = [files EXCEPT ![path] = Partial] /\ stage' = "failed"
  <2>1. \E r \in Job.saves : files' = [files EXCEPT ![r.path] = Partial]
    BY <1>1, <1>5
  <2> QED BY <1>5, <2>1, RefusalsFail
<1> QED BY <1>4, <1>5 DEF Dump

(* The dump of a phase is a save at the step count of that phase.          *)
LEMMA PhaseEndIsSaved ==
  ASSUME DirectLaunchesExpressible, Established, EndPhase
  PROVE  UNCHANGED Sequential!vars \/ Sequential!Save \/ Sequential!Fail
<1>0. TypeInv /\ TypeOK /\ LoopInv /\ CountInv /\ ModeInv
  BY DEF Established, TypeInv
<1>1. /\ stage = "phasesync" /\ stream = <<>>
      /\ UNCHANGED <<launch, repeat, mem, stream, ran, steps, phase, step>>
  BY DEF EndPhase, config, device, progress
<1>2. LogicalStep' = LogicalStep /\ AfterPhase \notin {"failed", "done"}
  BY <1>1 DEF LogicalStep, AfterPhase
<1>3. repeat # 0 /\ PhaseCount > 1 /\ step = steps
  BY <1>0, <1>1 DEF LoopInv, BeforeTheLoop, SetupStages, AfterAPhase
<1>4. /\ steps = Len(StepsAsked(args)) /\ PhaseCount = PhasesAsked(args)
      /\ Timing = args.timing
  BY <1>1, PlanLength DEF SetupStages
<1>5. CASE phase < Len(PhaseDumps)
  <2> DEFINE path == PhaseDumps[phase + 1]
  <2>1. Dump(path, AfterPhase)
    BY <1>5 DEF EndPhase
  <2>2. phase \in Nat /\ steps \in Nat
    BY <1>0, BoundsAssumption DEF TypeOK
  <2>3. PhaseDumps \in Seq(DumpPaths)
    BY <1>0, <1>1, PhaseDumpPaths
  <2>4. PhaseDumps = args.dumps /\ args.dumps # Unset
    <3>1. Persistent
      BY <1>0, <1>3, PhaseCounts
    <3>2. PhaseDumps # <<>>
      BY <1>5, <2>2, <2>3
    <3>3. env.dumps = args.dumps /\ env.dumps # Unset
      BY <1>0, <1>1, <3>1, <3>2, SettingsOfArgs DEF ModeInv, Persistent, PhaseDumps
    <3> QED BY <3>1, <3>3 DEF PhaseDumps
  <2>5. phase + 1 \in DOMAIN args.dumps
    BY <1>5, <2>2, <2>3, <2>4
  <2>6. LogicalStep = (phase + 1) * steps
    BY <1>3, <2>2, OneMore DEF LogicalStep
  <2>7. [path |-> path, at |-> LogicalStep] \in Job.saves
    BY <1>3, <1>4, <2>4, <2>5, <2>6, JobIs DEF SavesAsked
  <2>8. repeat = Job.repeats
    <3>1. PhaseCount > 1 /\ Persistent /\ ModesAccepted(env.script # Unset)
      BY <1>0, <1>1, <1>3, PhaseCounts DEF ModeInv, Configured, Checking
    <3>2. Timing = 1
      BY <3>1 DEF ModesAccepted
    <3>3. repeat >= 1 /\ repeat <= Timing /\ repeat \in Nat
      BY <1>0, <1>1, BoundsAssumption DEF LoopInv, BeforeTheLoop, SetupStages, TypeOK
    <3>4. repeat = 1
      BY <3>2, <3>3
    <3> QED BY <1>4, <3>2, <3>4, JobIs
  <2> HIDE DEF path
  <2> QED BY <1>0, <1>1, <1>2, <1>3, <2>1, <2>7, <2>8, DumpIsSaved
<1>6. CASE ~(phase < Len(PhaseDumps))
  <2>1. stage' = AfterPhase /\ UNCHANGED files
    BY <1>6 DEF EndPhase
  <2> QED BY <1>0, <1>1, <1>2, <2>1, MovesAreUnseen
<1> QED BY <1>5, <1>6

(* The last dump is a save after all steps.                                *)
LEMMA LastDumpIsSaved ==
  ASSUME DirectLaunchesExpressible, Established, DumpState
  PROVE  UNCHANGED Sequential!vars \/ Sequential!Save \/ Sequential!Fail
<1>0. TypeInv /\ TypeOK /\ LoopInv /\ ModeInv
  BY DEF Established, TypeInv
<1>1. stage = "dump" /\ UNCHANGED <<launch, repeat, mem, stream, ran, steps, phase, step>>
  BY DEF DumpState, config, device, progress
<1>2. LogicalStep' = LogicalStep
  BY <1>1 DEF LogicalStep
<1>3. CASE env.dumpState = Unset
  <2>1. stage' = "cleanup" /\ UNCHANGED files
    BY <1>3 DEF DumpState
  <2> QED BY <1>0, <1>1, <1>2, <2>1, MovesAreUnseen
<1>4. CASE env.dumpState # Unset
  <2> DEFINE path == env.dumpState
  <2>1. stream = <<>> /\ Dump(path, "cleanup")
    BY <1>4 DEF DumpState
  <2>2. /\ steps = Len(StepsAsked(args)) /\ PhaseCount = PhasesAsked(args)
        /\ Timing = args.timing
    BY <1>1, PlanLength DEF SetupStages
  <2>3. repeat = Timing /\ repeat # 0 /\ LogicalStep = PhaseCount * steps
    BY <1>0, <1>1 DEF LoopInv, BeforeTheLoop, SetupStages, Reported
  <2>4. env.dumpState = args.dumpState
    BY <1>0, <1>1, SettingsOfArgs DEF ModeInv
  <2>5. [path |-> path, at |-> LogicalStep] \in Job.saves
    BY <1>4, <2>2, <2>3, <2>4, JobIs DEF SavesAsked
  <2>6. repeat = Job.repeats
    BY <2>2, <2>3, JobIs
  <2> HIDE DEF path
  <2> QED BY <1>0, <1>1, <1>2, <2>1, <2>3, <2>5, <2>6, DumpIsSaved
<1> QED BY <1>3, <1>4

(* A run that has come to its clean-up has saved all it was asked for.     *)
LEMMA AllSaved ==
  ASSUME DirectLaunchesExpressible, Established, SavedInv, stage \in {"cleanup", "done"},
         NEW s \in Job.saves
  PROVE  files[s.path] # Old
<1>0. TypeInv /\ ModeInv
  BY DEF Established
<1>1. steps = Len(StepsAsked(args)) /\ PhaseCount = PhasesAsked(args)
  BY PlanLength DEF SetupStages
<1>2. s \in SavesAsked(args, steps)
  BY <1>1, JobIs
<1>3. CASE /\ args.dumps # Unset /\ PhasesAsked(args) > 1
           /\ s \in {[path |-> args.dumps[p], at |-> p * steps] : p \in DOMAIN args.dumps}
  <2>1. PICK p \in DOMAIN args.dumps : s.path = args.dumps[p]
    BY <1>3
  <2>2. Persistent /\ env.dumps = args.dumps
    BY <1>0, <1>1, <1>3, PhaseCounts, SettingsOfArgs DEF ModeInv, Persistent
  <2>3. PhaseDumps = args.dumps
    BY <1>3, <2>2 DEF PhaseDumps
  <2>4. PhaseDumps \in Seq(DumpPaths) /\ (PhaseDumps # <<>> => Len(PhaseDumps) = PhaseCount)
    BY <1>0, PhaseDumpPaths
  <2>5. p \in DOMAIN PhaseDumps /\ p <= PhaseCount
    BY <2>1, <2>3, <2>4
  <2>6. PhaseDumpsUpTo(PhaseCount)
    BY <1>1, <1>3 DEF SavedInv, Reported
  <2> QED BY <2>1, <2>3, <2>5, <2>6 DEF PhaseDumpsUpTo
<1>4. CASE /\ args.dumpState # Unset
           /\ s \in {[path |-> args.dumpState, at |-> PhasesAsked(args) * steps]}
  <2>1. env.dumpState = args.dumpState
    BY <1>0, SettingsOfArgs DEF ModeInv
  <2>2. s.path = env.dumpState
    BY <1>4, <2>1
  <2> QED BY <1>4, <2>1, <2>2 DEF SavedInv
<1> QED BY <1>2, <1>3, <1>4 DEF SavesAsked

LEMMA CleanupFinishes ==
  ASSUME DirectLaunchesExpressible, Established, SavedInv, Cleanup
  PROVE  Sequential!Finish
<1>0. TypeInv /\ TypeOK /\ LoopInv /\ ModeInv
  BY DEF Established, TypeInv
<1>1. /\ stage = "cleanup" /\ stage' = "done"
      /\ UNCHANGED <<launch, repeat, mem, stream, ran, steps, phase, step, files>>
  BY DEF Cleanup, config, device, progress, outputs
<1>2. /\ Len(Job.plan) = PhaseCount * steps /\ steps = Len(StepsAsked(args))
      /\ PhaseCount = PhasesAsked(args) /\ Timing = args.timing
  BY <1>1, PlanLength DEF SetupStages
<1>3. repeat = Timing /\ repeat # 0 /\ LogicalStep = PhaseCount * steps
  BY <1>0, <1>1 DEF LoopInv, BeforeTheLoop, SetupStages, Reported
<1>4. RunStatus = "running" /\ RunStatus' = "done"
  BY <1>1, <1>3 DEF RunStatus
<1>5. UNCHANGED <<Job, Img, LogicalStep>>
  BY <1>1 DEF Job, Img, LogicalStep
<1>6. \A s \in Job.saves : files[s.path] # Old
  BY <1>1, AllSaved
<1>7. repeat = Job.repeats
  BY <1>2, <1>3, JobIs
<1> QED BY <1>1, <1>2, <1>3, <1>4, <1>5, <1>6, <1>7 DEF Sequential!Finish, Img

(* Nothing before the loop shows in the sequential run, except a refusal.  *)
LEMMA SetupIsUnseen ==
  ASSUME Established, Setup
  PROVE  UNCHANGED Sequential!vars \/ Sequential!Fail
<1>0. TypeInv /\ TypeOK
  BY DEF Established, TypeInv
<1>1. /\ stage \in SetupStages /\ stage' \notin {"done"}
      /\ UNCHANGED <<launch, repeat, phase, step, files>>
  BY DEF Setup, SetupStages, Launch, CheckSettings, LoadScript, ResolveKernels, Allocate,
    UploadInitState, InitSynchronized, BuildSchedule, config, device, progress, outputs
<1>2. repeat = 0 /\ phase = 0 /\ step = 0
  BY <1>0, <1>1 DEF TypeInv, NotBegun
<1>3. LogicalStep' = LogicalStep
  <2>1. steps \in Nat /\ steps' \in Nat
    BY <1>0, TypeInvStep DEF Next, Host, TypeInv, TypeOK
  <2> QED BY <1>1, <1>2, <2>1, OneMore DEF LogicalStep
<1>4. stage \notin {"failed", "done"}
  BY <1>1 DEF SetupStages
<1> QED BY <1>0, <1>1, <1>2, <1>3, <1>4, MovesAreUnseen, RefusalsFail

(* The step of the refinement.                                             *)
LEMMA RunsTheRequest ==
  ASSUME DirectLaunchesExpressible, ResidentStepsAgree
  PROVE  Established /\ StartInv /\ SavedInv /\ [Next]_vars => [Sequential!Next]_(Sequential!vars)
<1> SUFFICES ASSUME Established, StartInv, SavedInv, [Next]_vars
             PROVE  Sequential!Next \/ UNCHANGED Sequential!vars
  OBVIOUS
<1>0. TypeInv /\ TypeOK /\ LoopInv
  BY DEF Established, TypeInv
<1> USE DEF config, device, progress, outputs
<1>1. CASE Setup
  BY <1>1, SetupIsUnseen DEF Sequential!Next
<1>2. CASE BeginRepeat
  BY <1>2, RepeatBegins DEF Sequential!Next
<1>3. CASE IssueStep
  BY <1>3, StepIsTaken DEF Sequential!Next
<1>4. CASE EndPhase
  BY <1>4, PhaseEndIsSaved DEF Sequential!Next
<1>5. CASE DumpState
  BY <1>5, LastDumpIsSaved DEF Sequential!Next
<1>6. CASE Cleanup
  BY <1>6, CleanupFinishes DEF Sequential!Next
<1>7. CASE WarmedUp \/ StepSynchronized \/ EndLoop \/ FinalSynchronized \/ EndRepeat \/ Report
  <2>1. /\ stage \notin {"failed", "done"} /\ stage' \notin {"failed", "done"}
        /\ UNCHANGED <<launch, steps, repeat, phase, step, files, mem, stream, ran>>
    BY <1>7 DEF WarmedUp, StepSynchronized, EndLoop, AfterSteps, FinalSynchronized, EndRepeat, Report
  <2>2. LogicalStep' = LogicalStep
    BY <2>1 DEF LogicalStep
  <2> QED BY <1>0, <2>1, <2>2, MovesAreUnseen
<1>8. CASE NextPhase
  <2>1. /\ stage = "nextphase" /\ stage' = "loop" /\ phase' = phase + 1 /\ step' = 0
        /\ UNCHANGED <<launch, steps, repeat, files, mem, stream, ran>>
    BY <1>8 DEF NextPhase
  <2>2. step = steps
    BY <1>0, <2>1 DEF LoopInv, AfterAPhase
  <2>3. LogicalStep' = LogicalStep
    <3>1. phase \in Nat /\ steps \in Nat
      BY <1>0, BoundsAssumption DEF TypeOK
    <3> QED BY <2>1, <2>2, <3>1, OneMore DEF LogicalStep
  <2> QED BY <1>0, <2>1, <2>3, MovesAreUnseen
<1>9. CASE Crash
  <2>1. /\ stage \notin {"failed", "done"} /\ stage' = "failed"
        /\ UNCHANGED <<launch, steps, repeat, phase, step, files, mem, stream, ran>>
    BY <1>9 DEF Crash, Stopped
  <2>2. LogicalStep' = LogicalStep
    BY <2>1 DEF LogicalStep
  <2>3. Sequential!Fail
    BY <1>0, <2>1, <2>2, RefusalsFail
  <2> QED BY <2>3 DEF Sequential!Next
<1>10. CASE DeviceThread
  <2>1. /\ stage \notin {"failed", "done"} /\ stage' = stage
        /\ UNCHANGED <<launch, steps, repeat, phase, step, files>>
    BY <1>10 DEF DeviceThread, Stopped
  <2>2. LogicalStep' = LogicalStep
    BY <2>1 DEF LogicalStep
  <2>3. Drained(mem, stream, ran)' = Drained(mem, stream, ran)
    BY <1>0, <1>10, ThreadEffect DEF StartInv
  <2> QED BY <1>0, <2>1, <2>2, <2>3, MovesAreUnseen
<1>11. CASE UNCHANGED vars
  BY <1>11 DEF vars, Sequential!vars, Job, LogicalStep, RunStatus
<1> QED
  BY <1>1, <1>2, <1>3, <1>4, <1>5, <1>6, <1>7, <1>8, <1>9, <1>10, <1>11
  DEF Next, Host, Loop, Finished

(* For every set of launches, number of states, block size and evaluation  *)
(* kernel, a hybrid run implements the sequential execution of the request *)
(* read off its arguments: streams, thread order, modes, phases, warm-up   *)
(* and repetitions never show in a dump, and a failed run differs only by  *)
(* ending early. Two hypotheses are about launches the code treats         *)
(* differently from what was asked: synchronising each step of a run of    *)
(* several phases, which skips the phase dumps, and one step of a resident *)
(* script that gives an offset two values, which its threads write in any  *)
(* order. MCSyncedPhases and MCTwicePatched show a run of each. The third  *)
(* only says that arguments describe a direct launch.                      *)
THEOREM RunIsSequential ==
  SyncedRunsHaveOnePhase /\ DirectLaunchesExpressible /\ ResidentStepsAgree =>
    (Spec => RunsSequentially)
<1> SUFFICES ASSUME SyncedRunsHaveOnePhase, DirectLaunchesExpressible, ResidentStepsAgree
             PROVE  Spec => RunsSequentially
  OBVIOUS
<1>1. Init => Established /\ StartInv /\ SavedInv
  BY TypeInvInit, ModeInvInit, CountInvInit, LoopInvInit, StartInvInit, SavedInvInit DEF Established
<1>2. Established /\ StartInv /\ SavedInv /\ [Next]_vars => (Established /\ StartInv /\ SavedInv)'
  BY TypeInvStep, ModeInvStep, CountInvStep, LoopInvStep, StartInvStep, SavedInvStep DEF Established
<1>3. Init => Sequential!Init
  BY MappedInit
<1>4. Established /\ StartInv /\ SavedInv /\ [Next]_vars => [Sequential!Next]_(Sequential!vars)
  BY RunsTheRequest
<1> QED BY <1>1, <1>2, <1>3, <1>4, PTL DEF Spec, RunsSequentially, Sequential!Spec

----------------------------------------------------------------------------
(* What a dump holds.                                                      *)
CheckedSteps(j) == {i \in DOMAIN j.plan : j.plan[i] \in Seq(DevicePatches)}

WellFormed(j) == j.kernels \in Seq(EvalKernels) /\ j.init \in Images

PlanStep(j) == [p \in Images \X CheckedSteps(j) |-> StepImage(j, p[2], p[1])]

FirstSteps(n) == [i \in 1 .. n |-> i]

(* The steps of a plan as a fold, and the memory after some of them.       *)
LEMMA StepImageType ==
  ASSUME NEW j, WellFormed(j), NEW i \in CheckedSteps(j), NEW m \in Images
  PROVE  StepImage(j, i, m) \in Images /\ PlanStep(j)[<<m, i>>] = StepImage(j, i, m)
<1>1. Patched(j.plan[i], m) \in Images
  <2>1. j.plan[i] \in Seq(DevicePatches) /\ <<>> \in Seq(DevicePatches)
    BY DEF CheckedSteps
  <2> QED BY <2>1, PatchedConcat
<1>2. StepImage(j, i, m) \in Images
  BY <1>1, EvaluatedType DEF StepImage, WellFormed
<1> QED BY <1>2 DEF PlanStep

LEMMA PlanStepType ==
  ASSUME NEW j, WellFormed(j)
  PROVE  PlanStep(j) \in StepFunctions(Images, CheckedSteps(j))
<1>1. \A p \in Images \X CheckedSteps(j) : StepImage(j, p[2], p[1]) \in Images
  BY StepImageType
<1> QED BY <1>1 DEF PlanStep, StepFunctions

LEMMA StartImageType ==
  ASSUME NEW j, WellFormed(j)
  PROVE  StartImage(j) \in Images
  BY EvaluatedType DEF StartImage, WellFormed

(* The memory after n steps is their fold.                                 *)
LEMMA ImageAfterIsFold ==
  ASSUME NEW j, WellFormed(j), NEW n \in Nat, 1 .. n \subseteq CheckedSteps(j)
  PROVE  /\ FirstSteps(n) \in Seq(CheckedSteps(j))
         /\ ImageAfter(j, n) = Fold(Images, PlanStep(j), StartImage(j), FirstSteps(n))
<1> DEFINE X == CheckedSteps(j)
           b == StartImage(j)
           f == PlanStep(j)
           s == FirstSteps(n)
           Values(i) ==
             [T \in SUBSET DOMAIN s |->
                IF T = {} THEN b ELSE StepImage(j, s[Max(T)], i[T \ {Max(T)}])]
           it == CHOOSE i : i = Values(i)
<1>0. s \in Seq(X) /\ DOMAIN s = 1 .. n /\ Len(s) = n /\ b \in Images /\ f \in StepFunctions(Images, X)
  BY StartImageType, PlanStepType DEF FirstSteps
<1>1. ImageAfter(j, n) = it[DOMAIN s]
  BY DEF ImageAfter, FoldLeft, MapThenFoldSet, FirstSteps
<1>2. PICK g \in SubsetFunctions(Images, DOMAIN s) : ByGreatest(g, f, b, s)
  <2> HIDE DEF X, b, f, s
  <2> QED BY <1>0, ChainExists
<1>3. \A T \in (SUBSET DOMAIN s) \ {{}} : s[Max(T)] \in X
  <2>1. \A T \in (SUBSET (1 .. n)) \ {{}} : Max(T) \in T
    BY MaxOfIndices
  <2> HIDE DEF X, s
  <2> QED BY <1>0, <2>1
<1>4. g = Values(g)
  <2>1. g \in [SUBSET DOMAIN s -> Images]
    BY DEF SubsetFunctions
  <2>2. ASSUME NEW T \in SUBSET DOMAIN s, T # {} PROVE g[T] = Values(g)[T]
    <3>1. g[T \ {Max(T)}] \in Images
      BY <2>1
    <3>2. g[T] = f[<<g[T \ {Max(T)}], s[Max(T)]>>]
      BY <1>2, <2>2 DEF ByGreatest
    <3>3. s[Max(T)] \in X
      BY <1>3, <2>2
    <3>4. f[<<g[T \ {Max(T)}], s[Max(T)]>>] = StepImage(j, s[Max(T)], g[T \ {Max(T)}])
      <4> DEFINE k == s[Max(T)]
                 m == g[T \ {Max(T)}]
      <4>1. k \in CheckedSteps(j) /\ m \in Images
        BY <3>1, <3>3
      <4> HIDE DEF k, m
      <4>2. PlanStep(j)[<<m, k>>] = StepImage(j, k, m)
        BY <4>1, StepImageType
      <4> QED BY <4>2 DEF k, m
    <3> QED BY <2>2, <3>2, <3>4
  <2>3. g[{}] = Values(g)[{}]
    BY <1>2 DEF ByGreatest
  <2> HIDE DEF s
  <2> QED BY <2>1, <2>2, <2>3
<1>5. it = Values(it)
  <2> HIDE DEF Values
  <2> QED BY <1>4
<1>6. it[{}] = b
  BY <1>5
<1>7. \A T \in (SUBSET DOMAIN s) \ {{}} :
        it[T \ {Max(T)}] \in Images => it[T] = f[<<it[T \ {Max(T)}], s[Max(T)]>>]
  <2> TAKE T \in (SUBSET DOMAIN s) \ {{}}
  <2> HAVE it[T \ {Max(T)}] \in Images
  <2>1. it[T] = Values(it)[T]
    BY <1>5
  <2> DEFINE k == s[Max(T)]
             m == it[T \ {Max(T)}]
  <2>2. k \in CheckedSteps(j) /\ m \in Images
    BY <1>3
  <2>3. it[T] = StepImage(j, k, m)
    <3> HIDE DEF it, s
    <3> QED BY <2>1
  <2> HIDE DEF k, m, it
  <2>4. PlanStep(j)[<<m, k>>] = StepImage(j, k, m)
    BY <2>2, StepImageType
  <2> QED BY <2>3, <2>4 DEF k, m
<1>8. FollowsIndices(it, Images, f, b, s)
  <2> HIDE DEF it, b, f, s
  <2> QED BY <1>6, <1>7 DEF FollowsIndices
<1> HIDE DEF it, Values, b, f, X, s
<1>9. it[DOMAIN s] = Fold(Images, f, b, s)
  BY <1>0, <1>8, IterationIsFold
<1> QED BY <1>0, <1>1, <1>9 DEF b, f, X, s

LEMMA NoStepsTaken ==
  ASSUME NEW j, WellFormed(j)
  PROVE  ImageAfter(j, 0) = StartImage(j)
<1>1. 1 .. 0 \subseteq CheckedSteps(j) /\ FirstSteps(0) = <<>>
  BY DEF FirstSteps
<1>2. ImageAfter(j, 0) = Fold(Images, PlanStep(j), StartImage(j), <<>>)
  BY <1>1, ImageAfterIsFold
<1> QED BY <1>2, StartImageType, PlanStepType, FoldEmpty

LEMMA OneStepMore ==
  ASSUME NEW j, WellFormed(j), NEW n \in Nat, 1 .. n + 1 \subseteq CheckedSteps(j)
  PROVE  ImageAfter(j, n + 1) = StepImage(j, n + 1, ImageAfter(j, n))
<1> DEFINE X == CheckedSteps(j)
           b == StartImage(j)
           f == PlanStep(j)
           before == FirstSteps(n)
           m == ImageAfter(j, n)
<1>1. 1 .. n \subseteq X /\ n + 1 \in X /\ n + 1 \in Nat
  OBVIOUS
<1>2. before \in Seq(X) /\ m = Fold(Images, f, b, before)
  BY <1>1, ImageAfterIsFold
<1>3. ImageAfter(j, n + 1) = Fold(Images, f, b, FirstSteps(n + 1))
  BY <1>1, ImageAfterIsFold
<1>4. FirstSteps(n + 1) = before \o <<n + 1>>
  BY DEF FirstSteps
<1>5. b \in Images /\ f \in StepFunctions(Images, X)
  BY StartImageType, PlanStepType
<1> HIDE DEF X, b, f, before, m
<1>6. m \in Images
  BY <1>2, <1>5, FoldType
<1>7. <<n + 1>> \in Seq(X)
  BY <1>1
<1>8. Fold(Images, f, b, before \o <<n + 1>>) = Fold(Images, f, m, <<n + 1>>)
  <2> DEFINE last == <<n + 1>>
  <2>1. last \in Seq(X)
    BY <1>7
  <2> HIDE DEF last
  <2>2. Fold(Images, f, b, before \o last) = Fold(Images, f, Fold(Images, f, b, before), last)
    BY <1>2, <1>5, <2>1, FoldConcat
  <2> QED BY <1>2, <2>2 DEF last
<1>9. Fold(Images, f, m, <<n + 1>>) = f[<<m, n + 1>>]
  BY <1>1, <1>5, <1>6, FoldOne
<1>10. f[<<m, n + 1>>] = StepImage(j, n + 1, m)
  BY <1>1, <1>6, StepImageType DEF f, X
<1> QED BY <1>3, <1>4, <1>8, <1>9, <1>10 DEF m

(* What the arguments ask for is a job the device can carry out.           *)
LEMMA JobType ==
  ASSUME launch \in Launches
  PROVE  WellFormed(Job) /\ \A i \in DOMAIN Job.plan : Job.plan[i] \in PatchLists
<1>1. args \in ArgsType
  BY LaunchesAssumption DEF args
<1>2. KernelsAsked(args) \in Seq(EvalKernels)
  <2>1. KernelsSetting(args) \in Given(Seq(EvalKernels))
    BY <1>1, KernelsAssumption DEF KernelsSetting, ArgsType
  <2>2. <<DefaultKernel>> \in Seq(EvalKernels)
    BY KernelsAssumption
  <2> QED BY <2>1, <2>2 DEF KernelsAsked, Given
<1>3. WellFormed(Job)
  BY <1>2, InitAskedType, JobIs DEF WellFormed
<1> DEFINE body == StepsAsked(args)
           n == Len(body)
<1>4. body \in Seq(PatchLists) /\ n \in Nat /\ n # 0
  <2>1. CASE args.script = Unset
    <3>1. args.steps \in Nat
      BY <1>1 DEF ArgsType
    <3>2. <<>> \in PatchLists
      BY DEF PatchLists
    <3> DEFINE k == IF args.steps = 0 THEN 1 ELSE args.steps
    <3>3. body = [i \in 1 .. k |-> <<>>] /\ k \in Nat /\ k # 0
      BY <2>1, <3>1 DEF StepsAsked
    <3> HIDE DEF k, body
    <3> QED BY <3>2, <3>3
  <2>2. CASE args.script # Unset
    <3>1. args.script \in Seq(PatchLists) /\ args.script # <<>>
      BY <1>1, <2>2 DEF ArgsType, Given
    <3> QED BY <2>2, <3>1 DEF StepsAsked
  <2> QED BY <2>1, <2>2
<1>5. ASSUME NEW i \in DOMAIN Job.plan PROVE Job.plan[i] \in PatchLists
  <2>1. i \in 1 .. PhasesAsked(args) * n
    BY <1>5, JobIs
  <2>2. Job.plan[i] = args.patches \o body[((i - 1) % n) + 1]
    BY <2>1, JobIs
  <2> HIDE DEF body, n
  <2>3. i \in Int
    BY <2>1
  <2>4. (i - 1) % n \in 0 .. n - 1
    BY <1>4, <2>3
  <2>5. ((i - 1) % n) + 1 \in 1 .. n
    BY <1>4, <2>4
  <2>6. body[((i - 1) % n) + 1] \in PatchLists
    BY <1>4, <2>5 DEF n
  <2>7. args.patches \in PatchLists
    BY <1>1 DEF ArgsType
  <2> QED BY <2>2, <2>6, <2>7 DEF PatchLists
<1> QED BY <1>3, <1>5

ImageInv ==
  RunStatus \in {"idle", "running"} =>
    /\ LogicalStep \in Nat /\ 1 .. LogicalStep \subseteq CheckedSteps(Job)
    /\ RunStatus = "idle" => LogicalStep = 0
    /\ RunStatus = "running" => Img = ImageAfter(Job, LogicalStep)

DumpInv ==
  RunStatus # "failed" =>
    \A s \in Job.saves : s.path \in DumpPaths /\ files[s.path] \in {Old, ImageAfter(Job, s.at)}

(* What is saved goes to a file of the run.                                *)
LEMMA SavePaths ==
  ASSUME launch \in Launches, NEW s \in Job.saves
  PROVE  s.path \in DumpPaths
<1>1. args \in ArgsType
  BY LaunchesAssumption DEF args
<1>2. s \in SavesAsked(args, Len(StepsAsked(args)))
  BY JobIs
<1>3. args.dumps # Unset => args.dumps \in Seq(DumpPaths)
  BY <1>1 DEF ArgsType, Given
<1>4. args.dumpState # Unset => args.dumpState \in DumpPaths
  BY <1>1 DEF ArgsType, Given
<1> QED BY <1>2, <1>3, <1>4 DEF SavesAsked

(* The memory is that after the steps taken, and a dump holds the memory   *)
(* after the steps it was asked for, through every step of the sequential  *)
(* run.                                                                    *)
LEMMA ImageInvInit == Init => ImageInv /\ DumpInv
<1> SUFFICES ASSUME Init PROVE ImageInv /\ DumpInv
  OBVIOUS
<1>1. LogicalStep = 0 /\ RunStatus = "idle" /\ launch \in Launches
  BY OneMore DEF Init, LogicalStep, RunStatus
<1>2. 1 .. 0 = {}
  OBVIOUS
<1> QED BY <1>1, <1>2, SavePaths DEF ImageInv, DumpInv, Init

LEMMA ImageInvStep ==
  ASSUME TypeInv, ImageInv, [Sequential!Next]_(Sequential!vars)
  PROVE  ImageInv'
<1>0. launch \in Launches
  BY DEF TypeInv, TypeOK
<1>1. WellFormed(Job) /\ \A i \in DOMAIN Job.plan : Job.plan[i] \in PatchLists
  BY <1>0, JobType
<1>2. CASE Sequential!Begin \/ Sequential!Again
  <2>1. /\ Job' = Job /\ LogicalStep' = 0 /\ RunStatus' = "running"
        /\ Img' = StartImage(Job)
    BY <1>2, SameImages DEF Sequential!Begin, Sequential!Again, Img, ImageInv
  <2>2. ImageAfter(Job', 0) = StartImage(Job)
    BY <1>1, <2>1, NoStepsTaken
  <2>3. 1 .. 0 = {} /\ 0 \in Nat
    OBVIOUS
  <2> QED BY <2>1, <2>2, <2>3 DEF ImageInv
<1>3. CASE Sequential!Step
  <2> DEFINE n == LogicalStep
             here == Job.plan[n + 1]
  <2>1. /\ n \in Nat /\ 1 .. n \subseteq CheckedSteps(Job) /\ Img = ImageAfter(Job, n)
        /\ n < Len(Job.plan) /\ Job' = Job /\ LogicalStep' = n + 1 /\ RunStatus' = "running"
        /\ Img' = StepImage(Job, n + 1, Img)
        /\ \A i \in DOMAIN here : here[i].off < Total
    BY <1>3, SameImages, SameMemory DEF Sequential!Step, Img, ImageInv
  <2>2. n + 1 \in DOMAIN Job.plan
    <3> DEFINE N == PhasesAsked(args) * Len(StepsAsked(args))
               At(i) == args.patches \o StepsAsked(args)[((i - 1) % Len(StepsAsked(args))) + 1]
               plan == Job.plan
    <3>1. plan = [i \in 1 .. N |-> At(i)]
      BY JobIs
    <3>2. N \in Int
      <4>1. args \in ArgsType
        BY <1>0, LaunchesAssumption DEF args
      <4>2. PhasesAsked(args) \in Int
        BY <4>1 DEF ArgsType, Given, PhasesAsked
      <4>3. Len(StepsAsked(args)) \in Nat
        <5>1. CASE args.script = Unset
          <6>1. args.steps \in Nat
            BY <4>1 DEF ArgsType
          <6> QED BY <5>1, <6>1 DEF StepsAsked
        <5>2. CASE args.script # Unset
          BY <4>1, <5>2 DEF ArgsType, Given, StepsAsked
        <5> QED BY <5>1, <5>2
      <4> QED BY <4>2, <4>3
    <3> HIDE DEF N, At, plan
    <3>3. N > 0 => Len(plan) = N
      BY <3>1, <3>2
    <3>4. ~(N > 0) => Len(plan) = 0
      <4> SUFFICES ASSUME ~(N > 0) PROVE Len(plan) = 0
        OBVIOUS
      <4>1. DOMAIN plan = {}
        BY <3>1, <3>2
      <4>2. plan = <<>>
        BY <3>1, <4>1
      <4> QED BY <4>2
    <3>5. n + 1 \in 1 .. N
      BY <2>1, <3>2, <3>3, <3>4 DEF plan
    <3> QED BY <3>1, <3>5 DEF plan
  <2>3. here \in Seq(DevicePatches)
    <3>1. here \in PatchLists
      BY <1>1, <2>2
    <3> QED BY <2>1, <3>1, CheckedPatches DEF OffsetsInStorage
  <2>4. 1 .. n + 1 \subseteq CheckedSteps(Job)
    <3>1. n + 1 \in CheckedSteps(Job)
      BY <2>2, <2>3 DEF CheckedSteps
    <3>2. \A i \in 1 .. n + 1 : i \in 1 .. n \/ i = n + 1
      BY <2>1
    <3> QED BY <2>1, <3>1, <3>2
  <2> HIDE DEF n, here
  <2>5. ImageAfter(Job, n + 1) = StepImage(Job, n + 1, ImageAfter(Job, n))
    BY <1>1, <2>1, <2>4, OneStepMore
  <2>6. n + 1 \in Nat
    BY <2>1
  <2> QED BY <2>1, <2>4, <2>5, <2>6 DEF ImageInv
<1>4. CASE Sequential!Save \/ UNCHANGED Sequential!vars
  <2>1. UNCHANGED <<Job, Img, LogicalStep, RunStatus>>
    BY <1>4 DEF Sequential!Save, Sequential!vars, Img
  <2> QED BY <2>1 DEF ImageInv
<1>5. CASE Sequential!Finish \/ Sequential!Fail
  BY <1>5 DEF Sequential!Finish, Sequential!Fail, ImageInv
<1> QED BY <1>2, <1>3, <1>4, <1>5 DEF Sequential!Next

LEMMA DumpInvStep ==
  ASSUME DumpsApart, TypeInv, ImageInv, DumpInv, [Sequential!Next]_(Sequential!vars)
  PROVE  DumpInv'
<1>0. launch \in Launches /\ files \in [DumpPaths -> Images \cup {Old, Partial}]
  BY DEF TypeInv, TypeOK
<1>1. CASE Sequential!Fail
  BY <1>1 DEF Sequential!Fail, DumpInv
<1>2. CASE Sequential!Save
  <2>1. /\ RunStatus = "running" /\ UNCHANGED <<Job, RunStatus>>
        /\ \E s \in Job.saves : s.at = LogicalStep /\ files' = [files EXCEPT ![s.path] = Img]
    BY <1>2 DEF Sequential!Save, Img
  <2>2. PICK s \in Job.saves : s.at = LogicalStep /\ files' = [files EXCEPT ![s.path] = Img]
    BY <2>1
  <2>3. Img = ImageAfter(Job, s.at) /\ s.path \in DumpPaths
    BY <1>0, <2>1, <2>2, SavePaths DEF ImageInv
  <2>4. ASSUME NEW t \in Job.saves
        PROVE  t.path \in DumpPaths /\ files'[t.path] \in {Old, ImageAfter(Job, t.at)}
    <3>1. t.path \in DumpPaths /\ files[t.path] \in {Old, ImageAfter(Job, t.at)}
      BY <2>1 DEF DumpInv
    <3>2. s.path = t.path => s.at = t.at
      BY <1>0 DEF DumpsApart, Job
    <3>3. CASE t.path = s.path
      BY <1>0, <2>2, <2>3, <3>1, <3>2, <3>3
    <3>4. CASE t.path # s.path
      BY <1>0, <2>2, <2>3, <3>1, <3>4
    <3> QED BY <3>3, <3>4
  <2> QED BY <2>1, <2>4 DEF DumpInv
<1>3. CASE Sequential!Begin \/ Sequential!Step \/ Sequential!Again \/ Sequential!Finish
  <2>1. UNCHANGED <<Job, files>> /\ RunStatus # "failed"
    BY <1>3 DEF Sequential!Begin, Sequential!Step, Sequential!Again, Sequential!Finish
  <2> QED BY <2>1 DEF DumpInv
<1>4. CASE UNCHANGED Sequential!vars
  <2>1. UNCHANGED <<Job, files, RunStatus>>
    BY <1>4 DEF Sequential!vars
  <2> QED BY <2>1 DEF DumpInv
<1> QED BY <1>1, <1>2, <1>3, <1>4 DEF Sequential!Next

(* A dump of a run that ends with exit code 0 is the memory after exactly  *)
(* the steps it was asked for, each step writing its patches in order and  *)
(* then evaluating every state, for every launch that the refinement       *)
(* covers and whose dumps do not overwrite one another.                    *)
THEOREM DumpsAreOfTheRequest ==
  /\ SyncedRunsHaveOnePhase /\ DirectLaunchesExpressible
  /\ ResidentStepsAgree /\ DumpsApart
  => (Spec => []DumpsAreSequential)
<1> SUFFICES ASSUME SyncedRunsHaveOnePhase, DirectLaunchesExpressible, ResidentStepsAgree,
                    DumpsApart
             PROVE  Spec => []DumpsAreSequential
  OBVIOUS
<1> DEFINE Inv == Established /\ StartInv /\ SavedInv /\ ImageInv /\ DumpInv
<1>1. Init => Inv
  BY TypeInvInit, ModeInvInit, CountInvInit, LoopInvInit, StartInvInit, SavedInvInit, ImageInvInit
  DEF Established
<1>2. Inv /\ [Next]_vars => Inv'
  <2> SUFFICES ASSUME Inv, [Next]_vars PROVE Inv'
    OBVIOUS
  <2>1. [Sequential!Next]_(Sequential!vars)
    BY RunsTheRequest
  <2>2. Established' /\ StartInv' /\ SavedInv'
    BY TypeInvStep, ModeInvStep, CountInvStep, LoopInvStep, StartInvStep, SavedInvStep
    DEF Established
  <2>3. ImageInv' /\ DumpInv'
    BY <2>1, ImageInvStep, DumpInvStep DEF Established
  <2> QED BY <2>2, <2>3
<1>3. Inv => DumpsAreSequential
  <2> SUFFICES ASSUME Inv, stage = "done", NEW s \in Job.saves
               PROVE  files[s.path] = ImageAfter(Job, s.at)
    BY DEF DumpsAreSequential
  <2>1. files[s.path] # Old
    BY AllSaved
  <2>2. RunStatus = "done"
    BY DEF RunStatus
  <2> QED BY <2>1, <2>2 DEF DumpInv
<1> QED BY <1>1, <1>2, <1>3, PTL DEF Spec

(* A run that ends with exit code 0 has written every phase dump it was    *)
(* given a path for, unless the shell synchronised each of its steps.      *)
THEOREM PhaseDumpsAreDelivered == SyncedRunsHaveOnePhase => (Spec => []PhaseDumpsDelivered)
<1> SUFFICES ASSUME SyncedRunsHaveOnePhase PROVE Spec => []PhaseDumpsDelivered
  OBVIOUS
<1>1. Init => Established /\ SavedInv
  BY TypeInvInit, ModeInvInit, CountInvInit, LoopInvInit, SavedInvInit DEF Established
<1>2. Established /\ SavedInv /\ [Next]_vars => (Established /\ SavedInv)'
  BY TypeInvStep, ModeInvStep, CountInvStep, LoopInvStep, SavedInvStep DEF Established
<1>3. Established /\ SavedInv => PhaseDumpsDelivered
  <2> SUFFICES ASSUME Established, SavedInv, stage = "done", PhaseCount > 1, NEW p \in DOMAIN PhaseDumps
               PROVE  files[PhaseDumps[p]] # Old
    BY DEF PhaseDumpsDelivered
  <2>1. PhaseDumps \in Seq(DumpPaths) /\ (PhaseDumps # <<>> => Len(PhaseDumps) = PhaseCount)
    BY PhaseDumpPaths DEF Established
  <2>2. p <= PhaseCount
    BY <2>1
  <2> QED BY <2>2 DEF SavedInv, PhaseDumpsUpTo, Reported
<1> QED BY <1>1, <1>2, <1>3, PTL DEF Spec
=============================================================================
