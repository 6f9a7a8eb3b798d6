---------------------------- MODULE StateCompare ----------------------------
(***************************************************************************)
(* src/src/tools/compare_vl_hybrid_{state_compare,layout,policies,         *)
(* acceptance,normalized*,state_pairs,coverage_strict}.py: when two state  *)
(* dumps are accepted as equal.  A dump is a sequence of bytes, one state  *)
(* after the other; the layout is the sequence of fields of the root       *)
(* struct, and bytes between fields belong to no field.                    *)
(***************************************************************************)
EXTENDS Integers, Sequences, FiniteSets

CONSTANTS
  Byte,      \* values of a byte
  Storage,   \* storage_size
  Layouts,   \* layouts probe_root_layout may return
  Allowed,   \* PHASE_B_ALLOWED_INTERNAL_FIELDS
  Words,     \* strict output words of the coverage gate
  Limit      \* mismatch fields a summary lists (16; 4 are allowed)

Roles == {"verilator_internal", "design_state", "top_level_io", "other"}

(* `primitive' is is_normalized_final_state_field: a field of the design   *)
(* section of a type that can be compared byte by byte.                    *)
IsField(f) ==
  /\ f.offset \in 0 .. Storage - 1
  /\ f.size \in 1 .. Storage - f.offset
  /\ f.role \in Roles
  /\ f.primitive \in BOOLEAN

ASSUME StorageAssumption == Storage \in Nat \ {0}
ASSUME LimitAssumption == IsFiniteSet(Allowed) /\ Limit \in Nat /\ Cardinality(Allowed) < Limit
ASSUME LayoutsAssumption ==
  \A l \in Layouts :
    /\ \A k \in DOMAIN l : IsField(l[k])
    /\ \A j, k \in DOMAIN l : l[j].name = l[k].name => j = k

Dumps == Seq(Byte)

----------------------------------------------------------------------------
(* Bytes.                                                                  *)

Longest(a, b) == IF Len(a) < Len(b) THEN Len(b) ELSE Len(a)
Shortest(a, b) == IF Len(a) < Len(b) THEN Len(a) ELSE Len(b)

(* byte_mismatch_summary, which only looks where both dumps have bytes and *)
(* adds the difference of the lengths.                                     *)
CommonMismatches(a, b) == Cardinality({i \in 1 .. Shortest(a, b) : a[i] # b[i]})
MismatchCount(a, b) ==
  Cardinality({i \in 1 .. Shortest(a, b) : a[i] # b[i]}) + (Longest(a, b) - Shortest(a, b))

(* summarize_mismatch_fields, which looks at every byte of either.         *)
Differing(a, b) ==
  {i \in 0 .. Longest(a, b) - 1 : i >= Shortest(a, b) \/ a[i + 1] # b[i + 1]}

StateOffset(i) == i % Storage

Covers(f, o) == f.offset <= o /\ o < f.offset + f.size

(* The fields are the members of one C++ class, by offsetof and sizeof: no *)
(* two of them share a byte.                                               *)
ASSUME ApartAssumption ==
  \A l \in Layouts : \A j, k \in DOMAIN l : \A o \in 0 .. Storage - 1 :
    Covers(l[j], o) /\ Covers(l[k], o) => j = k

(* annotate_state_offset: the first field that covers the offset.          *)
Annotated(layout, o) ==
  {k \in DOMAIN layout : Covers(layout[k], o) /\ \A j \in 1 .. k - 1 : ~Covers(layout[j], o)}

(* A byte no field covers is an unknown field of its own.                  *)
Unknown(o) == [name |-> "<unknown>", offset |-> o, size |-> 1, role |-> "other", primitive |-> FALSE]

FieldAt(layout, o) ==
  IF Annotated(layout, o) = {} THEN Unknown(o) ELSE layout[CHOOSE k \in Annotated(layout, o) : TRUE]

FieldOf(layout, i) == FieldAt(layout, StateOffset(i))

----------------------------------------------------------------------------
(* Fields.                                                                 *)

MismatchFields(layout, a, b) == {FieldOf(layout, i) : i \in Differing(a, b)}

FirstByte(layout, a, b, f) ==
  CHOOSE i \in Differing(a, b) :
    /\ FieldOf(layout, i) = f
    /\ \A j \in Differing(a, b) : FieldOf(layout, j) = f => i <= j

(* The n fields with the lowest first differing bytes: ordered[:n].        *)
FirstFields(layout, a, b, n) ==
  LET fields == MismatchFields(layout, a, b)
      Earlier(f) == {g \in fields : FirstByte(layout, a, b, g) < FirstByte(layout, a, b, f)}
  IN {f \in fields : Cardinality(Earlier(f)) < n}

TooFewListed(layout, a, b) == FirstFields(layout, a, b, Limit - 1)
ListedFields(layout, a, b) == FirstFields(layout, a, b, Limit)

RoleBytes(layout, a, b, role) ==
  Cardinality({i \in Differing(a, b) : FieldOf(layout, i).role = role})

(* first_field_with_role finds one: among all the fields, listed or not.   *)
ListedRole(layout, a, b, roles) == \E f \in ListedFields(layout, a, b) : f.role \in roles
MismatchRole(layout, a, b, roles) == \E f \in MismatchFields(layout, a, b) : f.role \in roles

----------------------------------------------------------------------------
(* States: state_pair_plan.                                                *)

StateCount(d) == Len(d) \div Storage

Compatible(a, b) ==
  /\ Len(a) % Storage = 0 /\ Len(b) % Storage = 0
  /\ StateCount(a) = StateCount(b) \/ 1 \in {StateCount(a), StateCount(b)}

PairsWithFirst(a, b) == {0} \X (0 .. StateCount(b) - 1)
Pairs(a, b) ==
  IF StateCount(a) = StateCount(b) THEN {<<n, n>> : n \in 0 .. StateCount(a) - 1}
  ELSE IF StateCount(a) = 1 THEN {0} \X (0 .. StateCount(b) - 1)
  ELSE (0 .. StateCount(a) - 1) \X {0}

Slice(d, n, f) == SubSeq(d, n * Storage + f.offset + 1, n * Storage + f.offset + f.size)

SameField(a, b, pair, f) == Slice(a, pair[1], f) = Slice(b, pair[2], f)

Fields(layout) == {layout[k] : k \in DOMAIN layout}

----------------------------------------------------------------------------
(* Policies.                                                               *)

Strict(layout, a, b) == MismatchCount(a, b) = 0 /\ Len(a) = Len(b)

IgnoreInternal(layout, a, b) ==
  layout # <<>> /\ MismatchCount(a, b) = RoleBytes(layout, a, b, "verilator_internal")

ResidualAllowed(f) == f.role = "verilator_internal" /\ f.name \in Allowed

PhaseBEndpoint(layout, a, b) ==
  IgnoreInternal(layout, a, b) /\ \A f \in ListedFields(layout, a, b) : ResidualAllowed(f)

ComparedFields(layout) == {f \in Fields(layout) : f.primitive}

Normalized(layout, a, b) ==
  /\ layout # <<>>
  /\ Compatible(a, b)
  /\ ComparedFields(layout) # {}
  /\ \A p \in Pairs(a, b), f \in ComparedFields(layout) :
       f.role # "verilator_internal" => SameField(a, b, p, f)

(* With a gate whose manifest is valid.                                    *)
CoverageOutput(layout, a, b) ==
  /\ \A w \in Words : \E f \in Fields(layout) : f.name = w
  /\ Compatible(a, b)
  /\ \A p \in Pairs(a, b), f \in Fields(layout) : f.name \in Words => SameField(a, b, p, f)

Policies ==
  { "strict_final_state", "ignore_verilator_internal_final_state", "phase_b_endpoint",
    "normalized_final_state_equivalence", "coverage_output_equivalence" }

(* build_acceptance_policies: what each policy says of two dumps.          *)
Passes(policy, layout, a, b) ==
  \/ policy = "strict_final_state" /\ Strict(layout, a, b)
  \/ policy = "ignore_verilator_internal_final_state" /\ IgnoreInternal(layout, a, b)
  \/ policy = "phase_b_endpoint" /\ PhaseBEndpoint(layout, a, b)
  \/ policy = "normalized_final_state_equivalence" /\ Normalized(layout, a, b)
  \/ policy = "coverage_output_equivalence" /\ CoverageOutput(layout, a, b)
=============================================================================
