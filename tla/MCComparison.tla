---------------------------- MODULE MCComparison ----------------------------
(* States of three bytes: one layout with a bookkeeping field, another     *)
(* internal and a design field, one with a word of two bytes and a byte no *)
(* field covers, and no layout at all.                                     *)
EXTENDS Comparison

Field(name, offset, size, role, primitive) ==
  [name |-> name, offset |-> offset, size |-> size, role |-> role, primitive |-> primitive]

Internals ==
  << Field("__VicoTriggered", 0, 1, "verilator_internal", FALSE),
     Field("__VdfgRegularize", 1, 1, "verilator_internal", TRUE),
     Field("top__DOT__q", 2, 1, "design_state", TRUE) >>

Word == << Field("word0_o", 0, 2, "top_level_io", TRUE) >>

MCLayouts == {<<>>, Internals, Word}

OfLength(n) == [1 .. n -> Byte]

(* Every policy with --compare-dumps; a fresh comparison under two.        *)
MCAsked ==
  { j \in Jobs :
      /\ j.fresh => j.policy \in {"strict_final_state", "phase_b_endpoint"}
      /\ ~j.fresh => j.kernels = 1
      /\ j.policy # "coverage_output_equivalence" => j.gate = "none" }

(* No state, less than one, one state, and two.                            *)
MCFiles == UNION {OfLength(n) : n \in {0, 2, 3, 6}}
MCImages == OfLength(3)
=============================================================================
