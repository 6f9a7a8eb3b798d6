----------------------------- MODULE Comparison -----------------------------
(***************************************************************************)
(* src/src/tools/compare_vl_hybrid_{modes,fresh_run,fresh,existing_dumps,  *)
(* phase_debug*,phase_localization,phase_runner,summary}.py: a comparison  *)
(* of two existing dumps, or of a single-kernel build with a phase-split   *)
(* build of the same model: build and run both, then run every prefix of   *)
(* the launch sequence to see which kernel the difference comes from.      *)
(* The single run's dump is the reference.  A build or a run that fails    *)
(* raises, and the comparison ends without a verdict.                      *)
(***************************************************************************)
EXTENDS StateCompare

CONSTANTS
  Files,       \* dumps --compare-dumps may be given
  Images,      \* dumps a run of --nstates states may leave
  Asked,       \* jobs that may be asked for
  MaxKernels,  \* bound: length of the launch sequence
  None         \* no dump, no prefix

ASSUME ImagesAssumption == Files \subseteq Dumps /\ Images \subseteq Dumps
ASSUME NoneAssumption == None \notin Files \cup Images \cup Nat \cup Byte
ASSUME KernelsAssumption == MaxKernels \in Nat \ {0}

(* `gate' is what --coverage-output-gate leads to: nothing, a manifest     *)
(* that is missing or invalid, or a gate ready to be compared.             *)
Jobs ==
  [ fresh : BOOLEAN, policy : Policies, layout : Layouts, gate : {"none", "blocked", "ready"},
    kernels : 1 .. MaxKernels ]

ASSUME AskedAssumption == Asked \subseteq Jobs

(* What phase_localization looks for: any difference, one outside the      *)
(* Verilator internals, one in the design state.                           *)
Kinds == {"divergent", "non_internal", "design_state"}

VARIABLES
  job,          \* the arguments
  stage,        \* where main is
  reference,    \* reference or single dump
  candidate,    \* candidate or split dump
  prefixes,     \* split_prefix_1.bin ..
  firstPrefix,  \* first_*_prefix_index
  firstDelta,   \* first_*_delta_prefix_index
  verdict       \* exit code: "none" yet, "accepted" 0, "rejected" 2

dumps == <<reference, candidate, prefixes>>
localization == <<firstPrefix, firstDelta>>
vars == <<job, stage, dumps, localization, verdict>>

Init ==
  /\ job \in Asked
  /\ stage = "start"
  /\ reference = None
  /\ candidate = None
  /\ prefixes = <<>>
  /\ firstPrefix = [k \in Kinds |-> None]
  /\ firstDelta = [k \in Kinds |-> None]
  /\ verdict = "none"

----------------------------------------------------------------------------
GateMissing == job.policy = "coverage_output_equivalence" /\ job.gate = "none"

(* --compare-dumps.                                                        *)
ReadDumps ==
  /\ stage = "start"
  /\ ~job.fresh
  /\ IF GateMissing
       THEN stage' = "failed" /\ UNCHANGED <<reference, candidate>>
       ELSE /\ stage' = "compare"
            /\ reference' \in Files
            /\ candidate' \in Files
  /\ UNCHANGED <<job, prefixes, localization, verdict>>

(* Build and run the single kernel.                                        *)
RunSingle ==
  /\ stage = "start"
  /\ job.fresh
  /\ reference' \in Images
  /\ stage' = "split"
  /\ UNCHANGED <<job, candidate, prefixes, localization, verdict>>

(* Build the split kernels and run them all.                               *)
RunSplit ==
  /\ stage = "split"
  /\ candidate' \in Images
  /\ stage' = "prefixes"
  /\ UNCHANGED <<job, reference, prefixes, localization, verdict>>

RolesOf(kind) == IF kind = "non_internal" THEN Roles \ {"verilator_internal"} ELSE {kind}

Diverges(kind, a, b) ==
  IF kind = "divergent" THEN MismatchCount(a, b) > 0
  ELSE job.layout # <<>> /\ MismatchRole(job.layout, a, b, RolesOf(kind))

FirstFound(found, diverges, index) == IF found = None /\ diverges THEN index ELSE found

ZeroBasedPrefix == Len(prefixes)
NextPrefix == Len(prefixes) + 1

Previous == prefixes[Len(prefixes)]

(* Run the next prefix and compare its dump with the single run's and with *)
(* the dump of the prefix before.  The whole sequence is the split run     *)
(* again.                                                                  *)
RunPrefix ==
  /\ stage = "prefixes"
  /\ Len(prefixes) < job.kernels
  /\ \E dump \in IF Len(prefixes) + 1 = job.kernels THEN {candidate} ELSE Images :
       /\ prefixes' = Append(prefixes, dump)
       /\ firstPrefix' = [k \in Kinds |->
                           FirstFound(firstPrefix[k], Diverges(k, reference, dump), NextPrefix)]
       /\ firstDelta' = IF prefixes = <<>> THEN firstDelta
                        ELSE [k \in Kinds |->
                               FirstFound(firstDelta[k], Diverges(k, Previous, dump), NextPrefix)]
  /\ UNCHANGED <<job, stage, reference, candidate, verdict>>

PrefixesRun ==
  /\ stage = "prefixes"
  /\ Len(prefixes) = job.kernels
  /\ stage' = "compare"
  /\ UNCHANGED <<job, dumps, localization, verdict>>

(* The coverage output is only compared with --compare-dumps and a gate.   *)
Selected ==
  /\ job.policy = "coverage_output_equivalence" => ~job.fresh /\ job.gate = "ready"
  /\ Passes(job.policy, job.layout, reference, candidate)

Decide ==
  /\ stage = "compare"
  /\ stage' = "done"
  /\ verdict' = IF Selected THEN "accepted" ELSE "rejected"
  /\ UNCHANGED <<job, dumps, localization>>

(* A build, a run or the layout probe fails.                               *)
Fail ==
  /\ stage \in {"start", "split", "prefixes"}
  /\ stage' = "failed"
  /\ UNCHANGED <<job, dumps, localization, verdict>>

Next == ReadDumps \/ RunSingle \/ RunSplit \/ RunPrefix \/ PrefixesRun \/ Decide \/ Fail

Spec == Init /\ [][Next]_vars

----------------------------------------------------------------------------
Indices == (1 .. MaxKernels) \cup {None}

TypeOK ==
  /\ job \in Asked
  /\ stage \in {"start", "split", "prefixes", "compare", "done", "failed"}
  /\ reference \in Files \cup Images \cup {None}
  /\ candidate \in Files \cup Images \cup {None}
  /\ Len(prefixes) \in 0 .. MaxKernels
  /\ \A i \in DOMAIN prefixes : prefixes[i] \in Images
  /\ firstPrefix \in [Kinds -> Indices]
  /\ firstDelta \in [Kinds -> Indices]
  /\ verdict \in {"none", "accepted", "rejected"}
  /\ (verdict # "none") = (stage = "done")

Compared == candidate # None

(* A byte in a state of a dump, None beyond its end.                       *)
ByteAt(d, i) == IF i < Len(d) THEN d[i + 1] ELSE None

Internal(i) == job.layout # <<>> /\ FieldOf(job.layout, i).role = "verilator_internal"

(* "Final design_state/top_level_io/other bytes must match;                *)
(* verilator_internal bytes may differ": the policy compares two counts    *)
(* taken by two functions, one over the bytes both dumps have and one over *)
(* the bytes of either, and accepts exactly when no byte outside the       *)
(* internals differs or is missing, in any state.                          *)
IgnoringInternalsIsExact ==
  Compared /\ job.layout # <<>> =>
    ( IgnoreInternal(job.layout, reference, candidate) <=>
        \A i \in 0 .. Longest(reference, candidate) - 1 :
          Internal(i) \/ ByteAt(reference, i) = ByteAt(candidate, i) )

(* The policies weaken one another: equal dumps are a phase B endpoint,    *)
(* and dumps equal outside the internals, state for state, are equal after *)
(* normalization and in their coverage words.                              *)
PoliciesNested ==
  LET passes(p) == Passes(p, job.layout, reference, candidate)
  IN Compared /\ job.layout # <<>> =>
       /\ passes("strict_final_state") => passes("phase_b_endpoint")
       /\ passes("phase_b_endpoint") => passes("ignore_verilator_internal_final_state")
       /\ /\ passes("ignore_verilator_internal_final_state")
          /\ Len(reference) = Len(candidate)
          /\ Len(reference) % Storage = 0
          => /\ ComparedFields(job.layout) # {} => passes("normalized_final_state_equivalence")
             /\ ( \A w \in Words :
                    /\ \E f \in Fields(job.layout) : f.name = w
                    /\ \A f \in Fields(job.layout) : f.name = w => f.role # "verilator_internal" )
                  => passes("coverage_output_equivalence")

(* A split run that differs from the single run outside the internals is   *)
(* always localized, at a prefix before which all prefixes agree with the  *)
(* single run; and if it is not the first, the kernel that prefix adds     *)
(* changed something outside the internals, at the latest there.           *)
DivergenceIsLocalized ==
  \A kind \in {"non_internal", "design_state"} :
    job.fresh /\ stage = "done" /\ Diverges(kind, reference, candidate) =>
      /\ firstPrefix[kind] # None
      /\ \A i \in 1 .. firstPrefix[kind] - 1 : ~Diverges(kind, reference, prefixes[i])
      /\ firstPrefix[kind] > 1 =>
           /\ firstDelta[kind] # None
           /\ firstDelta[kind] <= firstPrefix[kind]

(* "any residual verilator_internal mismatch must be limited to the known  *)
(* convergence bookkeeping fields": the policy looks at the fields a       *)
(* summary lists, the first few, which is enough because it lists more     *)
(* than may be allowed.                                                    *)
PhaseBResidualsAreKnown ==
  verdict = "accepted" /\ job.policy = "phase_b_endpoint" =>
    \A f \in MismatchFields(job.layout, reference, candidate) : ResidualAllowed(f)

(* "Final comparable primitive DESIGN SPECIFIC STATE fields must match":   *)
(* dumps accepted after normalization hold states, and each of them was    *)
(* compared with one of the other dump.                                    *)
EveryStateIsCompared ==
  verdict = "accepted" /\ job.policy = "normalized_final_state_equivalence" =>
    LET pairs == Pairs(reference, candidate)
    IN /\ \A n \in 0 .. StateCount(reference) - 1 : \E p \in pairs : p[1] = n
       /\ \A n \in 0 .. StateCount(candidate) - 1 : \E p \in pairs : p[2] = n
=============================================================================
