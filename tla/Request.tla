------------------------------- MODULE Request -------------------------------
(***************************************************************************)
(* What the arguments of run_vl_hybrid.py ask for: a job, that is an       *)
(* initial memory, a plan of steps with their patches, and the points of   *)
(* the plan at which the memory is to be saved.                            *)
(*                                                                         *)
(* The job is read off the arguments, not off the environment the runtime  *)
(* sees.  Only the warm-up, which no argument asks for, is taken from the  *)
(* caller's environment: it counts as an extra evaluation before the first *)
(* step.                                                                   *)
(***************************************************************************)
EXTENDS DeviceMemory, Launcher

CONSTANT DefaultKernel  \* vl_eval_batch_gpu

(* A patch script is the sequence of steps it spells.                       *)
StepsAsked(args) ==
  IF args.script = Unset
    THEN [i \in 1 .. (IF args.steps = 0 THEN 1 ELSE args.steps) |-> <<>>]
    ELSE args.script

PhasesAsked(args) == IF args.phases = Unset THEN 1 ELSE args.phases

InitAsked(args) ==
  CASE args.init = Unset -> Zero
    [] args.init # Unset /\ args.init.size = "total" -> args.init.data
    [] args.init # Unset /\ args.init.size = "storage" -> Replicated(args.init.data)
    [] OTHER -> Zero

KernelsAsked(args) ==
  IF KernelsSetting(args) \in {Unset, <<>>} THEN <<DefaultKernel>> ELSE KernelsSetting(args)

SavesAsked(args, perPhase) ==
  (IF args.dumps # Unset /\ PhasesAsked(args) > 1
     THEN {[path |-> args.dumps[p], at |-> p * perPhase] : p \in DOMAIN args.dumps}
     ELSE {})
  \cup
  (IF args.dumpState # Unset
     THEN {[path |-> args.dumpState, at |-> PhasesAsked(args) * perPhase]}
     ELSE {})

(* Every step writes the patches of the command line, then its own.        *)
JobOf(args, ambient) ==
  LET body == StepsAsked(args)
      step(i) == args.patches \o body[((i - 1) % Len(body)) + 1]
  IN [ kernels |-> KernelsAsked(args),
       init    |-> InitAsked(args),
       warmup  |-> ambient.warmup,
       plan    |-> [i \in 1 .. PhasesAsked(args) * Len(body) |-> step(i)],
       repeats |-> args.timing,
       saves   |-> SavesAsked(args, Len(body)) ]

StartImage(j) == IF j.warmup THEN Evaluated(j.kernels, j.init) ELSE j.init

StepImage(j, i, m) == Evaluated(j.kernels, Patched(j.plan[i], m))

(* The memory after the first n steps of the request.                      *)
ImageAfter(j, n) ==
  FoldLeft(LAMBDA m, i : StepImage(j, i, m), StartImage(j), [i \in 1 .. n |-> i])
=============================================================================
