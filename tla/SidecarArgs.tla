---------------------------- MODULE SidecarArgs ----------------------------
(***************************************************************************)
(* The sidecar options of a Verilator command line, and the three readers  *)
(* the front end has of them:                                              *)
(*   - the native parser stub                                              *)
(*       (verilator_native_option_parser_stub_fixture.py);                 *)
(*   - the wrapper RTLMeter finds in PATH                                  *)
(*       (rtlmeter_verilator_path_wrapper.py);                             *)
(*   - the normalization the shim and the benchmark command line share     *)
(*       (verilator_sidecar_options.py).                                   *)
(*                                                                         *)
(* A command line is a sequence of options [opt, val]; val is None for an  *)
(* option that ends the line before its value.  A count is an integer, and *)
(* a text that is not a decimal number is one of the counts <= 0: every    *)
(* reader treats both alike.  A shape is <<states, steps>>.                *)
(***************************************************************************)
EXTENDS Integers, Sequences

CONSTANT None \* not given, or no result

Option(o, v) == [opt |-> o, val |-> v]

Has(argv, o) == \E i \in 1..Len(argv) : argv[i].opt = o

(* The places of an option that has its value.                             *)
Given(argv, o) == {i \in 1..Len(argv) : argv[i].opt = o /\ argv[i].val # None}

First(S) == CHOOSE i \in S : \A j \in S : i <= j
Latest(S) == CHOOSE i \in S : \A j \in S : j <= i

LastValue(argv, o) ==
  LET given == Given(argv, o) IN IF given = {} THEN None ELSE argv[Latest(given)].val

SidecarOptions == {"--sim-accel", "--sim-accel-states", "--sim-accel-steps", "--sim-accel-shape"}

Positive(count) == count # None /\ count > 0

PositiveShape(shape) == Positive(shape[1]) /\ Positive(shape[2])

----------------------------------------------------------------------------
(* The native parser stub.  The first test that fails names the error.     *)

ParserErrors ==
  <<"missing_value", "missing_sim_accel", "invalid_sim_accel", "compact_shape_spelling",
    "missing_shape_half", "nonpositive_count">>

ASSUME NoneAssumption ==
  /\ None \notin Int
  /\ \A i \in DOMAIN ParserErrors : ParserErrors[i] # None

ParserTest(argv) ==
  LET accel == LastValue(argv, "--sim-accel")
      states == LastValue(argv, "--sim-accel-states")
      steps == LastValue(argv, "--sim-accel-steps")
  IN  [missing_value |-> \E i \in 1..Len(argv) : argv[i].opt \in SidecarOptions /\ argv[i].val = None,
       missing_sim_accel |-> accel = None,
       invalid_sim_accel |-> accel # "sidecar-gpu",
       compact_shape_spelling |-> Has(argv, "--sim-accel-shape"),
       missing_shape_half |-> states = None \/ steps = None,
       nonpositive_count |-> ~(Positive(states) /\ Positive(steps))]

ParserError(argv) ==
  LET failed == {i \in DOMAIN ParserErrors : ParserTest(argv)[ParserErrors[i]]}
  IN  IF failed = {} THEN None ELSE ParserErrors[First(failed)]

(* The handoff of an accepted command line.  The build inputs are kept,    *)
(* not resolved; of them only -Mdir and --top-module matter later.         *)
ParserPayload(argv) ==
  [surface |-> "parser",
   states |-> LastValue(argv, "--sim-accel-states"),
   steps |-> LastValue(argv, "--sim-accel-steps"),
   shape |-> <<LastValue(argv, "--sim-accel-states"), LastValue(argv, "--sim-accel-steps")>>,
   mdir |-> LastValue(argv, "-Mdir"),
   top |-> LastValue(argv, "--top-module")]

Parse(argv) == IF ParserError(argv) = None THEN ParserPayload(argv) ELSE None

----------------------------------------------------------------------------
(* The PATH wrapper: what it makes of a command line.                      *)

GpuIntentFlags == SidecarOptions \cup {"--use-gpu"}

GpuIntent(argv) == \E flag \in GpuIntentFlags : Has(argv, flag)

BuildInputsGiven(argv) ==
  /\ Has(argv, "--cc")
  /\ Given(argv, "--top-module") # {}
  /\ Given(argv, "-f") # {}

ExpandedSidecar(argv) ==
  /\ \E i \in Given(argv, "--sim-accel") : argv[i].val = "sidecar-gpu"
  /\ LastValue(argv, "--sim-accel-states") # None
  /\ LastValue(argv, "--sim-accel-steps") # None

Inspect(argv) ==
  CASE ~GpuIntent(argv) -> "delegate"
    [] GpuIntent(argv) /\ BuildInputsGiven(argv) /\ ExpandedSidecar(argv) -> "planning"
    [] GpuIntent(argv) /\ BuildInputsGiven(argv) /\ ~ExpandedSidecar(argv)
         /\ Has(argv, "--use-gpu") -> "not_ready"
    [] OTHER -> "unsupported"

FirstSchedule(argv) ==
  LET shape == <<argv[First(Given(argv, "--sim-accel-states"))].val,
                 LastValue(argv, "--sim-accel-steps")>>
  IN  IF PositiveShape(shape) THEN shape ELSE None

(* _schedule_from_inspection.                                              *)
Schedule(argv) ==
  LET shape == <<LastValue(argv, "--sim-accel-states"), LastValue(argv, "--sim-accel-steps")>>
  IN  IF PositiveShape(shape) THEN shape ELSE None

----------------------------------------------------------------------------
(* resolve_sidecar_shape: one spelling of the shape at most.               *)

ShapeSpellings(argv) ==
  {s \in {"--shape", "--sim-accel-shape"} : Has(argv, s)}
    \cup (IF Has(argv, "--sim-accel-states") \/ Has(argv, "--sim-accel-steps")
          THEN {"states_steps"} ELSE {})

SpelledShape(argv) ==
  CASE Has(argv, "--shape") -> LastValue(argv, "--shape")
    [] ~Has(argv, "--shape") /\ Has(argv, "--sim-accel-shape") ->
         LastValue(argv, "--sim-accel-shape")
    [] OTHER -> <<LastValue(argv, "--sim-accel-states"), LastValue(argv, "--sim-accel-steps")>>

(* An error, None when no shape was spelled, or the shape.                 *)
ShapeError(argv) ==
  \/ \E s1, s2 \in ShapeSpellings(argv) : s1 # s2
  \/ ShapeSpellings(argv) # {} /\ ~PositiveShape(SpelledShape(argv))

ResolvedShape(argv) == IF ShapeSpellings(argv) = {} THEN None ELSE SpelledShape(argv)

(* validate_sim_accel_mode, and what asks the benchmark for the sidecar.   *)
SimAccelError(argv) == LastValue(argv, "--sim-accel") \notin {None, "sidecar-gpu"}

SidecarGpuRequested(argv, preflight) ==
  \/ Has(argv, "--sidecar-gpu")
  \/ ~preflight /\ \E o \in SidecarOptions : Has(argv, o)
=============================================================================
