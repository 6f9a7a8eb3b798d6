--------------------------- MODULE MCHybridRuntime ---------------------------
(* Instance of HybridRuntime: three states of two bytes in blocks of two   *)
(* threads, two evaluation kernels that do not commute, and launches that  *)
(* combine every mode of the runtime and every reason it refuses one.      *)
EXTENDS HybridRuntime

CONSTANTS ico, nba, missing  \* evaluation kernels

State(x, y) == (0 :> x) @@ (1 :> y)
Shift(s) == State((s[0] + 1) % 3, s[1])
Mix(s) == State(s[0], (s[1] + s[0]) % 3)

MCByte == 0 .. 2
MCEval == [k \in {ico, nba, missing} |->
            [s \in StateImages |-> IF k = ico THEN Shift(s) ELSE Mix(s)]]
MCSequence == <<ico, nba>>
MCExported == {ico, nba, "patch", "replicate"}

P(o, v) == [off |-> o, val |-> v]
(* Two rounds of a dash and a step, then a step of two patches.            *)
Script ==
  << <<>>, <<P(1, 2)>>, <<>>, <<P(1, 2)>>, <<P(0, 1), P(5, 2)>> >>
FarScript == << <<P(3, 1)>>, <<P(6, 1)>> >>

InitFile(size) == [size |-> size, data |-> State(1, 2)]
InitTotal == [size |-> "total", data |-> [s \in States |-> State(s, 1)]]

Default ==
  [ patches |-> <<>>, script |-> Unset, resident |-> FALSE, handle |-> FALSE,
    phase |-> Unset, phases |-> Unset, dumps |-> Unset, init |-> Unset,
    replicate |-> FALSE, timing |-> 1, steps |-> 2, dumpState |-> "state",
    kernels |-> Unset ]

Clean ==
  [ kernels |-> Unset, dumpState |-> Unset, script |-> Unset, resident |-> FALSE,
    replicate |-> FALSE, timing |-> Unset, handle |-> FALSE, phase |-> Unset,
    count |-> Unset, dumps |-> Unset, init |-> Unset, sync |-> FALSE, warmup |-> FALSE ]

(* Left over from another run in the same shell.                           *)
Stale ==
  [ Clean EXCEPT !.kernels = <<nba>>, !.dumpState = "p1", !.script = Script,
                 !.resident = TRUE, !.replicate = TRUE, !.timing = 2, !.handle = TRUE,
                 !.phase = 2, !.count = 2, !.dumps = <<"p1">>,
                 !.init = InitFile("storage") ]

Sync == [Clean EXCEPT !.sync = TRUE]
Warm == [Clean EXCEPT !.warmup = TRUE]

PhasedArgs ==
  [ Default EXCEPT !.resident = TRUE, !.handle = TRUE, !.phase = 1, !.phases = 2,
                   !.dumps = <<"p1", "p2">>, !.init = InitFile("storage") ]
ScriptArgs == [Default EXCEPT !.script = Script]
ResidentArgs == [ScriptArgs EXCEPT !.resident = TRUE]
PatchArgs == [Default EXCEPT !.patches = <<P(2, 1), P(2, 2)>>]

Runs ==
  { Default,
    [Default EXCEPT !.steps = 0, !.dumpState = Unset],
    [Default EXCEPT !.kernels = <<nba, ico>>],
    [Default EXCEPT !.kernels = <<>>],
    [Default EXCEPT !.timing = 2],
    [Default EXCEPT !.init = InitTotal],
    [Default EXCEPT !.init = InitFile("storage")],
    [Default EXCEPT !.init = InitFile("storage"), !.replicate = TRUE],
    PatchArgs,
    [PatchArgs EXCEPT !.script = Script],
    ScriptArgs,
    ResidentArgs,
    [ResidentArgs EXCEPT !.init = InitFile("storage"), !.replicate = TRUE] }

PhasedRuns ==
  { PhasedArgs,
    [PhasedArgs EXCEPT !.dumps = Unset],
    [PhasedArgs EXCEPT !.phases = Unset, !.dumps = Unset] }

RefusedRuns ==
  { [Default EXCEPT !.timing = 3],
    [Default EXCEPT !.timing = 0],
    [Default EXCEPT !.kernels = <<missing>>],
    [Default EXCEPT !.init = InitFile("other")],
    [Default EXCEPT !.timing = 2, !.init = InitTotal],
    [PatchArgs EXCEPT !.resident = TRUE],
    [PatchArgs EXCEPT !.patches = <<P(6, 1)>>],
    [ScriptArgs EXCEPT !.script = FarScript],
    [ResidentArgs EXCEPT !.script = FarScript],
    [PhasedArgs EXCEPT !.resident = FALSE],
    [PhasedArgs EXCEPT !.phase = 2],
    [PhasedArgs EXCEPT !.phases = 3, !.dumps = <<"p1", "p2", "state">>],
    [PhasedArgs EXCEPT !.dumps = <<"p1">>],
    [PhasedArgs EXCEPT !.handle = FALSE],
    [PhasedArgs EXCEPT !.script = Script],
    [PhasedArgs EXCEPT !.phase = 2, !.phases = Unset, !.dumps = Unset, !.init = Unset] }

LaunchOf(via, all, ambients) == [via : {via}, args : all, ambient : ambients]

MCLaunches ==
  LaunchOf("launcher", Runs, {Clean, Stale, Sync, Warm})
    \cup LaunchOf("launcher", PhasedRuns, {Clean, Stale, Warm})
    \cup LaunchOf("launcher", RefusedRuns, {Clean})
    \cup LaunchOf("launcher", {r \in RefusedRuns : ~r.handle \/ r.phases = Unset}, {Sync})
    \cup LaunchOf("direct", {r \in RefusedRuns : Expressible(r)}, {Clean})

(* A shell that still exports RUN_VL_HYBRID_SYNC_EACH_STEP.                *)
SyncedPhases == LaunchOf("launcher", {PhasedArgs}, {Sync})

(* A step that patches one offset twice.                                   *)
TwicePatched ==
  LaunchOf("launcher",
    {[ResidentArgs EXCEPT !.script = << <<P(1, 2), P(1, 1)>>, <<>> >>]},
    {Clean})

(* The launches of the main run are of the kind the theorems are about,    *)
(* and each of the other two runs leaves out one of their conditions only. *)
ASSUME LaunchesOfTheTheorems ==
  /\ DirectLaunchesExpressible
  /\ DumpsApart
  /\ SyncedRunsHaveOnePhase <=> Launches # SyncedPhases
  /\ ResidentStepsAgree <=> Launches # TwicePatched
=============================================================================
