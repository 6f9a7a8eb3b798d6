------------------------------ MODULE Launcher ------------------------------
(***************************************************************************)
(* src/src/tools/run_vl_hybrid.py: what the launcher refuses and the       *)
(* environment and argv it hands to the hybrid runtime.                    *)
(*                                                                         *)
(* An argument or an environment variable that is not given is Unset; one  *)
(* whose text does not matter beyond being given is a Boolean.             *)
(*   args: patches, script, resident, handle, phase, phases, dumps, init,  *)
(*         replicate, timing, steps, dumpState, kernels                    *)
(*   env:  the RUN_VL_HYBRID_* variables of the same names, `count' for    *)
(*         --...-phases, and `sync' and `warmup', which have no argument   *)
(***************************************************************************)
EXTENDS Integers, Sequences

CONSTANTS
  Unset,          \* not given
  LaunchSequence  \* the kernels vl_batch_gpu.meta.json names, or Unset

(* validate_args.                                                          *)
PersistentArgsAccepted(args) ==
  /\ args.handle <=> args.phase # Unset
  /\ args.phase # Unset =>
       /\ args.phase >= 1
       /\ args.resident
       /\ args.phase > 1 => args.init = Unset
  /\ args.phases # Unset =>
       /\ args.phase = 1
       /\ args.phases >= 1
       /\ args.dumps # Unset => Len(args.dumps) = args.phases

ArgsAccepted(args) ==
  /\ ~(args.resident /\ args.patches # <<>>)
  /\ PersistentArgsAccepted(args)
  /\ args.timing >= 1

----------------------------------------------------------------------------
KernelsSetting(args) == IF args.kernels # Unset THEN args.kernels ELSE LaunchSequence

TimingSetting(args) == IF args.timing > 1 THEN args.timing ELSE Unset

PersistentSetting(args, value) == IF args.handle THEN value ELSE Unset

(* configure_launch_env and prepare_init_state_env start from a copy of    *)
(* the caller's environment, set what the arguments ask for and remove the *)
(* rest of what they own.  Everything else stays as the caller had it.     *)
EnvOf(args, ambient) ==
  [ambient EXCEPT
     !.kernels = KernelsSetting(args),
     !.dumpState = args.dumpState,
     !.script = args.script,
     !.resident = args.resident,
     !.replicate = args.replicate,
     !.timing = TimingSetting(args),
     !.handle = args.handle,
     !.phase = PersistentSetting(args, args.phase),
     !.count = PersistentSetting(args, args.phases),
     !.dumps = PersistentSetting(args, args.dumps),
     !.init = args.init]
=============================================================================
