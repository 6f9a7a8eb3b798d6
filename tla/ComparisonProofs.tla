-------------------------- MODULE ComparisonProofs --------------------------
(***************************************************************************)
(* Theorems about the comparison of dumps of any number of states, for     *)
(* every layout, every job and every sequence of kernels.                  *)
(***************************************************************************)
EXTENDS Comparison, FiniteSetTheorems, WellFoundedInduction, TLAPS

----------------------------------------------------------------------------
(* Types.                                                                  *)

(* What a stage may rely on.  The prefixes belong to a fresh comparison.   *)
Supplied ==
  /\ prefixes \in Seq(Images)
  /\ stage \in {"start", "split"} => prefixes = <<>>
  /\ stage \in {"split", "prefixes"} => job.fresh
  /\ Len(prefixes) <= job.kernels
  /\ job.fresh /\ stage \in {"split", "prefixes", "compare", "done"} => reference \in Images
  /\ job.fresh /\ stage \in {"prefixes", "compare", "done"} => candidate \in Images
  /\ job.fresh /\ stage \in {"compare", "done"} => Len(prefixes) = job.kernels
  /\ stage \in {"compare", "done"} => reference # None /\ candidate # None
  /\ reference # None => reference \in Dumps
  /\ candidate # None => candidate \in Dumps
  /\ candidate # None => reference # None

TInv == TypeOK /\ Supplied

LEMMA JobFields ==
  ASSUME job \in Asked
  PROVE  /\ job.fresh \in BOOLEAN /\ job.policy \in Policies /\ job.layout \in Layouts
         /\ job.kernels \in 1 .. MaxKernels
  BY AskedAssumption DEF Jobs

LEMMA TInvInit == Init => TInv
<1> SUFFICES ASSUME Init PROVE TInv
  OBVIOUS
<1>1. Len(prefixes) \in 0 .. MaxKernels /\ prefixes \in Seq(Images) /\ prefixes = <<>>
  BY KernelsAssumption DEF Init
<1>2. Len(prefixes) <= job.kernels
  BY <1>1, JobFields, KernelsAssumption DEF Init
<1> QED BY <1>1, <1>2 DEF Init, TInv, TypeOK, Supplied, Indices

LEMMA FirstFoundType ==
  ASSUME NEW found \in Indices, NEW diverges, NEW index \in 1 .. MaxKernels
  PROVE  FirstFound(found, diverges, index) \in Indices
  BY DEF FirstFound, Indices

LEMMA TInvStep == TInv /\ [Next]_vars => TInv'
<1> SUFFICES ASSUME TInv, [Next]_vars PROVE TInv'
  OBVIOUS
<1> USE DEF dumps, localization
<1>0. /\ job.kernels \in 1 .. MaxKernels /\ MaxKernels \in Nat /\ Len(prefixes) \in Nat
      /\ job.kernels \in Nat /\ job.fresh \in BOOLEAN
  BY JobFields, KernelsAssumption DEF TInv, TypeOK, Supplied
<1>1. CASE ReadDumps
  BY <1>1, <1>0, ImagesAssumption, NoneAssumption DEF ReadDumps, TInv, TypeOK, Supplied
<1>2. CASE RunSingle
  BY <1>2, <1>0, ImagesAssumption, NoneAssumption DEF RunSingle, TInv, TypeOK, Supplied
<1>3. CASE RunSplit
  BY <1>3, <1>0, ImagesAssumption, NoneAssumption DEF RunSplit, TInv, TypeOK, Supplied
<1>4. CASE RunPrefix
  <2>1. PICK dump \in IF Len(prefixes) + 1 = job.kernels THEN {candidate} ELSE Images :
          /\ prefixes' = Append(prefixes, dump)
          /\ firstPrefix' = [k \in Kinds |->
               FirstFound(firstPrefix[k], Diverges(k, reference, dump), NextPrefix)]
          /\ firstDelta' = IF prefixes = <<>> THEN firstDelta
               ELSE [k \in Kinds |->
                      FirstFound(firstDelta[k], Diverges(k, Previous, dump), NextPrefix)]
    BY <1>4 DEF RunPrefix
  <2>2. /\ stage = "prefixes" /\ Len(prefixes) < job.kernels
        /\ UNCHANGED <<job, stage, reference, candidate, verdict>>
    BY <1>4 DEF RunPrefix
  <2>3. dump \in Images
    BY <2>1, <2>2 DEF TInv, Supplied
  <2>4. /\ prefixes' \in Seq(Images) /\ Len(prefixes') = Len(prefixes) + 1
        /\ \A i \in DOMAIN prefixes' : prefixes'[i] \in Images
    BY <2>1, <2>3 DEF TInv, Supplied
  <2>5. NextPrefix \in 1 .. MaxKernels
    BY <1>0, <2>2 DEF NextPrefix
  <2>6. firstPrefix' \in [Kinds -> Indices]
    BY <2>1, <2>5, FirstFoundType DEF TInv, TypeOK
  <2>7. firstDelta' \in [Kinds -> Indices]
    BY <2>1, <2>5, FirstFoundType DEF TInv, TypeOK
  <2>8. TypeOK'
    BY <1>0, <2>2, <2>4, <2>6, <2>7 DEF TInv, TypeOK
  <2>9. Supplied'
    BY <1>0, <2>2, <2>4 DEF TInv, Supplied
  <2> QED BY <2>8, <2>9 DEF TInv
<1>5. CASE PrefixesRun
  BY <1>5, <1>0, NoneAssumption DEF PrefixesRun, TInv, TypeOK, Supplied
<1>6. CASE Decide
  BY <1>6, <1>0 DEF Decide, TInv, TypeOK, Supplied
<1>7. CASE Fail
  BY <1>7, <1>0 DEF Fail, TInv, TypeOK, Supplied
<1>8. CASE UNCHANGED vars
  BY <1>8 DEF vars, TInv, TypeOK, Supplied
<1> QED BY <1>1, <1>2, <1>3, <1>4, <1>5, <1>6, <1>7, <1>8 DEF Next

(* Every variable stays in its domain: dumps are of the files or the runs, *)
(* indices of the kernels, and a verdict is given exactly at the end.      *)
THEOREM TypeCorrect == Spec => []TypeOK
<1>1. TInv => TypeOK
  BY DEF TInv
<1> QED BY <1>1, TInvInit, TInvStep, PTL DEF Spec

----------------------------------------------------------------------------
(* Localization.                                                           *)

LEMMA Lengths ==
  ASSUME NEW a \in Dumps, NEW b \in Dumps
  PROVE  /\ Len(a) \in Nat /\ Len(b) \in Nat
         /\ Longest(a, b) = IF Len(a) < Len(b) THEN Len(b) ELSE Len(a)
         /\ Shortest(a, b) = IF Len(a) < Len(b) THEN Len(a) ELSE Len(b)
  BY DEF Dumps, Longest, Shortest

(* A byte differs when one dump has it and the other does not, or both     *)
(* have it with different values.                                          *)
LEMMA DifferingBytes ==
  ASSUME NEW a \in Dumps, NEW b \in Dumps, NEW i
  PROVE  i \in Differing(a, b) <=>
           /\ i \in Nat
           /\ \/ i < Len(a) /\ i >= Len(b)
              \/ i >= Len(a) /\ i < Len(b)
              \/ i < Len(a) /\ i < Len(b) /\ a[i + 1] # b[i + 1]
<1>1. /\ Len(a) \in Nat /\ Len(b) \in Nat
      /\ Longest(a, b) = IF Len(a) < Len(b) THEN Len(b) ELSE Len(a)
      /\ Shortest(a, b) = IF Len(a) < Len(b) THEN Len(a) ELSE Len(b)
  BY Lengths
<1>2. i \in Differing(a, b) <=>
        /\ i \in Nat /\ i < Longest(a, b)
        /\ i >= Shortest(a, b) \/ a[i + 1] # b[i + 1]
  BY <1>1 DEF Differing
<1> QED BY <1>1, <1>2

(* A byte at which one dump differs from another differs between a third   *)
(* one and one of the two.                                                 *)
LEMMA DifferingTriangle ==
  ASSUME NEW a \in Dumps, NEW b \in Dumps, NEW c \in Dumps,
         NEW i \in Differing(a, c), i \notin Differing(a, b)
  PROVE  i \in Differing(b, c)
<1>1. Len(a) \in Nat /\ Len(b) \in Nat /\ Len(c) \in Nat
  BY Lengths
<1>2. /\ i \in Nat
      /\ \/ i < Len(a) /\ i >= Len(c)
         \/ i >= Len(a) /\ i < Len(c)
         \/ i < Len(a) /\ i < Len(c) /\ a[i + 1] # c[i + 1]
  BY DifferingBytes
<1>3. \/ i < Len(a) /\ i < Len(b) /\ a[i + 1] = b[i + 1]
      \/ i >= Len(a) /\ i >= Len(b)
  BY <1>1, <1>2, DifferingBytes
<1>4. \/ i < Len(b) /\ i >= Len(c)
      \/ i >= Len(b) /\ i < Len(c)
      \/ i < Len(b) /\ i < Len(c) /\ b[i + 1] # c[i + 1]
  BY <1>1, <1>2, <1>3
<1> QED BY <1>2, <1>4, DifferingBytes

Localized == {"non_internal", "design_state"}

LEMMA DivergesTriangle ==
  ASSUME NEW kind \in Localized, NEW a \in Dumps, NEW b \in Dumps, NEW c \in Dumps,
         Diverges(kind, a, c), ~Diverges(kind, a, b)
  PROVE  Diverges(kind, b, c)
<1>1. kind # "divergent"
  BY DEF Localized
<1>2. PICK i \in Differing(a, c) : FieldOf(job.layout, i).role \in RolesOf(kind)
  BY <1>1 DEF Diverges, MismatchRole, MismatchFields
<1>3. i \notin Differing(a, b)
  BY <1>1, <1>2 DEF Diverges, MismatchRole, MismatchFields
<1>4. i \in Differing(b, c)
  BY <1>2, <1>3, DifferingTriangle
<1> QED BY <1>1, <1>2, <1>4 DEF Diverges, MismatchRole, MismatchFields

(* What the prefixes run so far have shown for a kind of difference: the   *)
(* first index found is minimal, and from the second prefix on the delta   *)
(* with the prefix before shows it no later.                               *)
FoundSoFar(kind) ==
  /\ firstPrefix[kind] = None =>
       \A i \in 1 .. Len(prefixes) : ~Diverges(kind, reference, prefixes[i])
  /\ firstPrefix[kind] # None =>
       /\ firstPrefix[kind] \in 1 .. Len(prefixes)
       /\ \A i \in 1 .. firstPrefix[kind] - 1 : ~Diverges(kind, reference, prefixes[i])
       /\ firstPrefix[kind] > 1 =>
            firstDelta[kind] # None /\ firstDelta[kind] <= firstPrefix[kind]
  /\ firstDelta[kind] # None => firstDelta[kind] \in 1 .. Len(prefixes)

WholeSequence ==
  job.fresh /\ prefixes # <<>> /\ Len(prefixes) = job.kernels =>
    prefixes[Len(prefixes)] = candidate

LocInv == WholeSequence /\ \A kind \in Localized : FoundSoFar(kind)

LEMMA LocInvInit == Init => LocInv
  BY DEF Init, LocInv, WholeSequence, FoundSoFar, Localized, Kinds

LEMMA PrefixLocalizes ==
  ASSUME TInv, LocInv, NEW dump \in Images,
         stage = "prefixes", Len(prefixes) < job.kernels,
         prefixes' = Append(prefixes, dump),
         firstPrefix' = [k \in Kinds |->
           FirstFound(firstPrefix[k], Diverges(k, reference, dump), NextPrefix)],
         firstDelta' = IF prefixes = <<>> THEN firstDelta
           ELSE [k \in Kinds |->
                  FirstFound(firstDelta[k], Diverges(k, Previous, dump), NextPrefix)],
         UNCHANGED <<job, reference>>,
         NEW kind \in Localized
  PROVE  FoundSoFar(kind)'
<1> DEFINE n == Len(prefixes)
<1>1. /\ n \in Nat /\ prefixes \in Seq(Images) /\ reference \in Dumps /\ dump \in Dumps
      /\ kind \in Kinds /\ None \notin Nat
  BY ImagesAssumption, NoneAssumption DEF TInv, TypeOK, Supplied, Localized, Kinds
<1>2. /\ Len(prefixes') = n + 1 /\ prefixes'[n + 1] = dump
      /\ \A i \in 1 .. n : prefixes'[i] = prefixes[i]
  BY <1>1
<1>3. /\ firstPrefix'[kind] = FirstFound(firstPrefix[kind], Diverges(kind, reference, dump), n + 1)
      /\ prefixes = <<>> => firstDelta'[kind] = firstDelta[kind]
      /\ prefixes # <<>> =>
           firstDelta'[kind] = FirstFound(firstDelta[kind], Diverges(kind, Previous, dump), n + 1)
  BY <1>1 DEF NextPrefix
<1>5. \A i \in 1 .. n : Diverges(kind, reference, prefixes[i])'
                          = Diverges(kind, reference, prefixes[i])
  BY <1>2 DEF Diverges
<1>6. \A m : m = n + 1 => Diverges(kind, reference, prefixes[m])'
                            = Diverges(kind, reference, dump)
  BY <1>2 DEF Diverges
<1>7. FoundSoFar(kind)
  BY DEF LocInv
<1>8. firstDelta'[kind] # None => firstDelta'[kind] \in 1 .. n + 1
  BY <1>1, <1>3, <1>7 DEF FoundSoFar, FirstFound
<1>9. CASE firstPrefix[kind] # None
  <2>1. /\ firstPrefix'[kind] = firstPrefix[kind] /\ firstPrefix[kind] \in 1 .. n
    BY <1>3, <1>7, <1>9 DEF FirstFound, FoundSoFar
  <2>2. \A i \in 1 .. firstPrefix[kind] - 1 : ~Diverges(kind, reference, prefixes[i])'
    BY <1>1, <1>5, <1>7, <1>9, <2>1 DEF FoundSoFar
  <2>3. firstDelta[kind] # None => firstDelta'[kind] = firstDelta[kind]
    BY <1>3 DEF FirstFound
  <2> QED BY <1>1, <1>2, <1>7, <1>8, <1>9, <2>1, <2>2, <2>3 DEF FoundSoFar
<1>10. CASE firstPrefix[kind] = None /\ ~Diverges(kind, reference, dump)
  <2>1. firstPrefix'[kind] = None
    BY <1>3, <1>10 DEF FirstFound
  <2>2. \A i \in 1 .. n + 1 : ~Diverges(kind, reference, prefixes[i])'
    <3>1. \A i \in 1 .. n : ~Diverges(kind, reference, prefixes[i])'
      BY <1>5, <1>7, <1>10 DEF FoundSoFar
    <3>2. \A i \in 1 .. n + 1 : i \in 1 .. n \/ i = n + 1
      BY <1>1
    <3> QED BY <1>6, <1>10, <3>1, <3>2
  <2> QED BY <1>2, <1>8, <2>1, <2>2 DEF FoundSoFar
<1>11. CASE firstPrefix[kind] = None /\ Diverges(kind, reference, dump)
  <2>1. firstPrefix'[kind] = n + 1 /\ n + 1 # None
    BY <1>1, <1>3, <1>11 DEF FirstFound
  <2>2. \A i \in 1 .. n : ~Diverges(kind, reference, prefixes[i])'
    BY <1>5, <1>7, <1>11 DEF FoundSoFar
  <2>3. n + 1 > 1 => firstDelta'[kind] # None /\ firstDelta'[kind] <= n + 1
    <3> SUFFICES ASSUME n > 0 PROVE firstDelta'[kind] # None /\ firstDelta'[kind] <= n + 1
      BY <1>1
    <3>1. prefixes # <<>> /\ Previous = prefixes[n] /\ Previous \in Dumps
      BY <1>1, ImagesAssumption DEF Previous
    <3>2. ~Diverges(kind, reference, Previous)
      BY <1>1, <1>7, <1>11, <3>1 DEF FoundSoFar
    <3>3. Diverges(kind, Previous, dump)
      BY <1>1, <1>11, <3>1, <3>2, DivergesTriangle
    <3>4. firstDelta'[kind] = FirstFound(firstDelta[kind], TRUE, n + 1)
      BY <1>3, <3>1, <3>3
    <3> QED BY <1>1, <1>7, <3>4 DEF FirstFound, FoundSoFar
  <2> QED BY <1>1, <1>2, <1>8, <2>1, <2>2, <2>3 DEF FoundSoFar
<1> QED BY <1>9, <1>10, <1>11

LEMMA LocInvStep == TInv /\ LocInv /\ [Next]_vars => LocInv'
<1> SUFFICES ASSUME TInv, LocInv, [Next]_vars PROVE LocInv'
  OBVIOUS
<1> USE DEF dumps, localization
<1>1. ASSUME prefixes' = <<>>, UNCHANGED <<firstPrefix, firstDelta>>, prefixes = <<>>
      PROVE  LocInv'
  <2>1. \A kind \in Localized : firstPrefix[kind] = None /\ firstDelta[kind] = None
    BY <1>1 DEF LocInv, FoundSoFar
  <2> QED BY <1>1, <2>1 DEF LocInv, FoundSoFar, WholeSequence
<1>2. ASSUME UNCHANGED <<job, reference, candidate, prefixes, firstPrefix, firstDelta>>
      PROVE  LocInv'
  BY <1>2 DEF LocInv, FoundSoFar, WholeSequence, Diverges
<1>3. CASE ReadDumps
  BY <1>3, <1>1 DEF ReadDumps, TInv, Supplied
<1>4. CASE RunSingle
  BY <1>4, <1>1 DEF RunSingle, TInv, Supplied
<1>5. CASE RunSplit
  BY <1>5, <1>1 DEF RunSplit, TInv, Supplied
<1>6. CASE RunPrefix
  <2>1. PICK dump \in IF Len(prefixes) + 1 = job.kernels THEN {candidate} ELSE Images :
          /\ prefixes' = Append(prefixes, dump)
          /\ firstPrefix' = [k \in Kinds |->
               FirstFound(firstPrefix[k], Diverges(k, reference, dump), NextPrefix)]
          /\ firstDelta' = IF prefixes = <<>> THEN firstDelta
               ELSE [k \in Kinds |->
                      FirstFound(firstDelta[k], Diverges(k, Previous, dump), NextPrefix)]
    BY <1>6 DEF RunPrefix
  <2>2. /\ stage = "prefixes" /\ Len(prefixes) < job.kernels
        /\ UNCHANGED <<job, reference, candidate>>
    BY <1>6 DEF RunPrefix
  <2>3. dump \in Images /\ prefixes \in Seq(Images)
    BY <2>1, <2>2 DEF TInv, Supplied
  <2>4. WholeSequence'
    BY <2>1, <2>2, <2>3 DEF WholeSequence
  <2>5. \A kind \in Localized : FoundSoFar(kind)'
    BY <2>1, <2>2, <2>3, PrefixLocalizes
  <2> QED BY <2>4, <2>5 DEF LocInv
<1>7. CASE PrefixesRun
  BY <1>7, <1>2 DEF PrefixesRun
<1>8. CASE Decide
  BY <1>8, <1>2 DEF Decide
<1>9. CASE Fail
  BY <1>9, <1>2 DEF Fail
<1>10. CASE UNCHANGED vars
  BY <1>10, <1>2 DEF vars
<1> QED BY <1>3, <1>4, <1>5, <1>6, <1>7, <1>8, <1>9, <1>10 DEF Next

LEMMA LocalizedWhenDone ==
  ASSUME TInv, LocInv PROVE DivergenceIsLocalized
<1> SUFFICES ASSUME NEW kind \in Localized, job.fresh, stage = "done",
                    Diverges(kind, reference, candidate)
             PROVE  /\ firstPrefix[kind] # None
                    /\ \A i \in 1 .. firstPrefix[kind] - 1 :
                         ~Diverges(kind, reference, prefixes[i])
                    /\ firstPrefix[kind] > 1 =>
                         /\ firstDelta[kind] # None
                         /\ firstDelta[kind] <= firstPrefix[kind]
  BY DEF DivergenceIsLocalized, Localized
<1>1. Len(prefixes) = job.kernels /\ job.kernels \in 1 .. MaxKernels /\ prefixes \in Seq(Images)
  BY JobFields DEF TInv, TypeOK, Supplied
<1>2. Len(prefixes) \in 1 .. Len(prefixes) /\ prefixes[Len(prefixes)] = candidate
  BY <1>1, KernelsAssumption DEF LocInv, WholeSequence
<1> QED BY <1>2 DEF LocInv, FoundSoFar

(* A split run that differs from the single run outside the internals is   *)
(* localized: at the first prefix that differs, and the kernels it differs *)
(* by at the latest there.                                                 *)
THEOREM DivergencesAreLocalized == Spec => []DivergenceIsLocalized
<1>1. TInv /\ LocInv => DivergenceIsLocalized
  BY LocalizedWhenDone
<1> QED BY <1>1, TInvInit, TInvStep, LocInvInit, LocInvStep, PTL DEF Spec

----------------------------------------------------------------------------
(* Counting.                                                               *)

(* byte_mismatch_summary, which counts the places where both dumps have a  *)
(* byte and adds the difference of their lengths, counts the bytes that    *)
(* summarize_mismatch_fields looks at.                                     *)
LEMMA MismatchesCounted ==
  ASSUME NEW a \in Dumps, NEW b \in Dumps
  PROVE  /\ IsFiniteSet(Differing(a, b))
         /\ MismatchCount(a, b) = Cardinality(Differing(a, b))
<1> DEFINE S == Shortest(a, b)
           L == Longest(a, b)
           common == {i \in 1 .. S : a[i] # b[i]}
           both == {i \in 0 .. S - 1 : a[i + 1] # b[i + 1]}
           rest == S .. L - 1
           before == [i \in common |-> i - 1]
<1>1. S \in Nat /\ L \in Nat /\ S <= L
  BY Lengths
<1>2. IsFiniteSet(common)
  <2>1. IsFiniteSet(1 .. S)
    BY <1>1, FS_Interval
  <2>2. common \in SUBSET (1 .. S)
    OBVIOUS
  <2> QED BY <2>1, <2>2, FS_Subset
<1>3. IsFiniteSet(both) /\ Cardinality(both) = Cardinality(common)
  <2>1. \A i \in common : before[i] \in both
    BY <1>1
  <2>2. before \in [common -> both]
    BY <2>1
  <2>3. \A i, j \in common : before[i] = before[j] => i = j
    BY <1>1
  <2>4. \A j \in both : j + 1 \in common /\ before[j + 1] = j
    BY <1>1
  <2>5. before \in Bijection(common, both)
    BY <2>2, <2>3, <2>4 DEF Bijection, Injection, Surjection, IsInjective
  <2>6. ExistsBijection(common, both)
    BY <2>5 DEF ExistsBijection
  <2> HIDE DEF common, both
  <2> QED BY <1>2, <2>6, FS_Bijection
<1>4. IsFiniteSet(rest) /\ Cardinality(rest) = L - S
  <2>1. S \in Int /\ L - 1 \in Int /\ (S > L - 1 <=> L = S)
    BY <1>1
  <2>2. Cardinality(rest) = IF S > L - 1 THEN 0 ELSE (L - 1) - S + 1
    BY <2>1, FS_Interval
  <2>3. IsFiniteSet(rest)
    BY <2>1, FS_Interval
  <2> HIDE DEF rest, S, L
  <2> QED BY <1>1, <2>1, <2>2, <2>3
<1>5. Differing(a, b) = both \cup rest
  BY <1>1 DEF Differing
<1>6. both \cap rest = {}
  BY <1>1
<1>7. Cardinality(both) \in Nat
  BY <1>3, FS_CardinalityType
<1>8. MismatchCount(a, b) = Cardinality(common) + (L - S)
  BY DEF MismatchCount
<1> HIDE DEF common, both, rest, S, L
<1>9. /\ IsFiniteSet(both \cup rest)
      /\ Cardinality(both \cup rest) = Cardinality(both) + Cardinality(rest) - Cardinality({})
  BY <1>3, <1>4, <1>6, FS_Union
<1>10. Cardinality(both \cup rest) = Cardinality(both) + (L - S)
  BY <1>1, <1>4, <1>7, <1>9, FS_EmptySet DEF S, L
<1> QED BY <1>3, <1>5, <1>8, <1>9, <1>10

(* The differing bytes are those with different values, None beyond an end.*)
LEMMA DifferingValues ==
  ASSUME NEW a \in Dumps, NEW b \in Dumps, NEW i \in 0 .. Longest(a, b) - 1
  PROVE  i \in Differing(a, b) <=> ByteAt(a, i) # ByteAt(b, i)
<1>1. /\ Len(a) \in Nat /\ Len(b) \in Nat /\ i \in Nat
      /\ i < Len(a) \/ i < Len(b)
  BY Lengths
<1>2. /\ i < Len(a) => a[i + 1] \in Byte
      /\ i < Len(b) => b[i + 1] \in Byte
  BY <1>1 DEF Dumps
<1>3. None \notin Byte
  BY NoneAssumption
<1> QED BY <1>1, <1>2, <1>3, DifferingBytes DEF ByteAt

LEMMA InternalsIgnored ==
  ASSUME TInv PROVE IgnoringInternalsIsExact
<1> SUFFICES ASSUME candidate # None, job.layout # <<>>
    PROVE  IgnoreInternal(job.layout, reference, candidate) <=>
             \A i \in 0 .. Longest(reference, candidate) - 1 :
               Internal(i) \/ ByteAt(reference, i) = ByteAt(candidate, i)
  BY DEF IgnoringInternalsIsExact, Compared
<1> DEFINE D == Differing(reference, candidate)
           I == {i \in D : FieldOf(job.layout, i).role = "verilator_internal"}
<1>1. reference \in Dumps /\ candidate \in Dumps
  BY DEF TInv, Supplied
<1>2. IsFiniteSet(D) /\ MismatchCount(reference, candidate) = Cardinality(D)
  BY <1>1, MismatchesCounted
<1>3. IgnoreInternal(job.layout, reference, candidate) <=> Cardinality(D) = Cardinality(I)
  BY <1>2 DEF IgnoreInternal, RoleBytes
<1>4. Cardinality(D) = Cardinality(I) <=> D = I
  <2>1. I \in SUBSET D
    OBVIOUS
  <2> HIDE DEF D, I
  <2> QED BY <1>2, <2>1, FS_Subset
<1>5. D = I <=> \A i \in D : Internal(i)
  BY DEF Internal
<1>6. D \subseteq 0 .. Longest(reference, candidate) - 1
  BY DEF Differing
<1>7. \A i \in 0 .. Longest(reference, candidate) - 1 :
        i \in D <=> ByteAt(reference, i) # ByteAt(candidate, i)
  BY <1>1, DifferingValues
<1> HIDE DEF D, I
<1> QED BY <1>3, <1>4, <1>5, <1>6, <1>7

(* Comparing the count of mismatches of one function with the count of     *)
(* internal mismatches of another accepts exactly the dumps that agree     *)
(* outside the internals.                                                  *)
THEOREM IgnoringIsExact == Spec => []IgnoringInternalsIsExact
<1>1. TInv => IgnoringInternalsIsExact
  BY InternalsIgnored
<1> QED BY <1>1, TInvInit, TInvStep, PTL DEF Spec

----------------------------------------------------------------------------
(* The policies, one under another.                                        *)

(* Without a differing byte nothing is listed and nothing is internal.     *)
LEMMA StrictIsEndpoint ==
  ASSUME NEW layout \in Layouts, layout # <<>>, NEW a \in Dumps, NEW b \in Dumps,
         Strict(layout, a, b)
  PROVE  PhaseBEndpoint(layout, a, b)
<1> DEFINE D == Differing(a, b)
           I == {i \in D : FieldOf(layout, i).role = "verilator_internal"}
<1>1. IsFiniteSet(D) /\ Cardinality(D) = 0
  BY MismatchesCounted DEF Strict
<1>2. D = {}
  <2> HIDE DEF D
  <2> QED BY <1>1, FS_EmptySet
<1>3. I = {} /\ MismatchFields(layout, a, b) = {}
  BY <1>2 DEF MismatchFields
<1>4. Cardinality(I) = 0
  BY <1>3, FS_EmptySet
<1>5. IgnoreInternal(layout, a, b)
  BY <1>4 DEF IgnoreInternal, RoleBytes, Strict
<1>6. ListedFields(layout, a, b) = {}
  BY <1>3 DEF ListedFields, FirstFields
<1> QED BY <1>5, <1>6 DEF PhaseBEndpoint

(* Ignoring the internals: every byte that differs is of an internal field *)
(* of the layout.                                                          *)
LEMMA DifferenceIsInternal ==
  ASSUME NEW layout \in Layouts, NEW a \in Dumps, NEW b \in Dumps,
         IgnoreInternal(layout, a, b), NEW i \in Differing(a, b)
  PROVE  \E k \in DOMAIN layout :
           layout[k].role = "verilator_internal" /\ Covers(layout[k], StateOffset(i))
<1> DEFINE D == Differing(a, b)
           I == {j \in D : FieldOf(layout, j).role = "verilator_internal"}
<1>1. IsFiniteSet(D) /\ Cardinality(D) = Cardinality(I)
  BY MismatchesCounted DEF IgnoreInternal, RoleBytes
<1>2. D = I
  <2>1. I \in SUBSET D
    OBVIOUS
  <2> HIDE DEF D, I
  <2> QED BY <1>1, <2>1, FS_Subset
<1>3. FieldAt(layout, StateOffset(i)).role = "verilator_internal"
  BY <1>2 DEF FieldOf
<1>4. Annotated(layout, StateOffset(i)) # {}
  BY <1>3 DEF FieldAt, Unknown
<1>5. PICK k \in Annotated(layout, StateOffset(i)) : FieldAt(layout, StateOffset(i)) = layout[k]
  BY <1>4 DEF FieldAt
<1> QED BY <1>3, <1>5 DEF Annotated

(* A byte of a state at an offset of the layout lies in the dump.          *)
LEMMA ByteOfState ==
  ASSUME NEW S \in Nat \ {0}, NEW L \in Nat, NEW n \in 0 .. (L \div S) - 1, NEW o \in 0 .. S - 1
  PROVE  n * S + o \in 0 .. L - 1 /\ (n * S + o) % S = o
<1>1. PICK q \in Nat : q = L \div S
  OBVIOUS
<1>2. PICK r \in 0 .. S - 1 : r = L % S
  OBVIOUS
<1>3. L = S * q + r
  BY <1>1, <1>2
<1>4. n \in Nat /\ n + 1 <= q
  BY <1>1
<1>5. PICK m \in Nat : m = n * S /\ m = S * n
  BY <1>4
<1>6. S * (n + 1) <= S * q
  BY <1>4
<1>7. S * (n + 1) = m + S
  BY <1>4, <1>5
<1>8. PICK p \in Nat : p = S * q
  OBVIOUS
<1>9. m + o \in 0 .. L - 1
  BY <1>3, <1>5, <1>6, <1>7, <1>8
<1>10. ((S * n) + o) % S = o
  BY <1>4
<1> QED BY <1>5, <1>9, <1>10

LEMMA SameSlice ==
  ASSUME NEW a \in Dumps, NEW b \in Dumps, NEW m \in Nat, NEW n \in Nat,
         n <= Len(a), n <= Len(b), \A i \in m .. n - 1 : a[i + 1] = b[i + 1]
  PROVE  SubSeq(a, m + 1, n) = SubSeq(b, m + 1, n)
<1>1. SubSeq(a, m + 1, n) = [i \in 1 .. n - m |-> a[(m + i)]]
  BY DEF Dumps
<1>2. SubSeq(b, m + 1, n) = [i \in 1 .. n - m |-> b[(m + i)]]
  BY DEF Dumps
<1>3. \A i \in 1 .. n - m : a[m + i] = b[m + i]
  <2> TAKE i \in 1 .. n - m
  <2>1. m + i - 1 \in m .. n - 1 /\ m + i - 1 + 1 = m + i
    OBVIOUS
  <2> QED BY <2>1
<1> QED BY <1>1, <1>2, <1>3

(* A field that is not internal is the same in a state of either dump.     *)
LEMMA SameOutside ==
  ASSUME NEW layout \in Layouts, NEW a \in Dumps, NEW b \in Dumps,
         IgnoreInternal(layout, a, b), Len(a) = Len(b),
         NEW k \in DOMAIN layout, layout[k].role # "verilator_internal",
         NEW n \in 0 .. StateCount(a) - 1
  PROVE  Slice(a, n, layout[k]) = Slice(b, n, layout[k])
<1> DEFINE f == layout[k]
           from == n * Storage + f.offset
           to == n * Storage + f.offset + f.size
<1>1. Len(a) \in Nat /\ Storage \in Nat \ {0} /\ a \in Seq(Byte) /\ b \in Seq(Byte)
  BY StorageAssumption DEF Dumps
<1>2. f.offset \in 0 .. Storage - 1 /\ f.size \in 1 .. Storage - f.offset
  BY LayoutsAssumption DEF IsField
<1>3. \A o \in 0 .. Storage - 1 :
        n * Storage + o \in 0 .. Len(a) - 1 /\ StateOffset(n * Storage + o) = o
  BY <1>1, ByteOfState DEF StateCount, StateOffset
<1>4. \A o \in 0 .. Storage - 1 : Covers(f, o) => n * Storage + o \notin Differing(a, b)
  <2> SUFFICES ASSUME NEW o \in 0 .. Storage - 1, Covers(f, o),
                      n * Storage + o \in Differing(a, b)
               PROVE  FALSE
    OBVIOUS
  <2>1. PICK j \in DOMAIN layout : layout[j].role = "verilator_internal" /\ Covers(layout[j], o)
    BY <1>3, DifferenceIsInternal
  <2> QED BY <2>1, ApartAssumption
<1>5. PICK m \in Nat : m = n * Storage
  BY <1>1
<1>6. \A o \in f.offset .. f.offset + f.size - 1 : o \in 0 .. Storage - 1 /\ Covers(f, o)
  BY <1>1, <1>2 DEF Covers
<1>7. \A i \in from .. to - 1 : i - m \in f.offset .. f.offset + f.size - 1 /\ m + (i - m) = i
  BY <1>2, <1>5
<1>8. \A i \in from .. to - 1 : i \in 0 .. Len(a) - 1 /\ i \notin Differing(a, b)
  BY <1>3, <1>4, <1>5, <1>6, <1>7
<1>9. \A i \in from .. to - 1 : a[i + 1] = b[i + 1]
  BY <1>1, <1>8, DifferingBytes
<1>10. from \in Nat /\ to \in Nat /\ to <= Len(a)
  <2>1. from \in Nat /\ to \in Nat /\ to - 1 \in from .. to - 1
    BY <1>2, <1>5
  <2>2. to - 1 \in 0 .. Len(a) - 1
    BY <1>8, <2>1
  <2> QED BY <1>1, <2>1, <2>2
<1> HIDE DEF from, to
<1>11. SubSeq(a, from + 1, to) = SubSeq(b, from + 1, to)
  <2>1. to <= Len(b)
    BY <1>10
  <2> QED BY <1>9, <1>10, <2>1, SameSlice
<1> QED BY <1>11 DEF Slice, from, to

LEMMA PoliciesWeaken ==
  ASSUME TInv PROVE PoliciesNested
<1> SUFFICES ASSUME candidate # None, job.layout # <<>> PROVE PoliciesNested
  BY DEF PoliciesNested, Compared
<1> DEFINE layout == job.layout
           passes(p) == Passes(p, layout, reference, candidate)
<1>1. reference \in Dumps /\ candidate \in Dumps /\ layout \in Layouts
  BY JobFields DEF TInv, TypeOK, Supplied
<1>2. passes("strict_final_state") => passes("phase_b_endpoint")
  BY <1>1, StrictIsEndpoint DEF Passes
<1>3. passes("phase_b_endpoint") => passes("ignore_verilator_internal_final_state")
  BY DEF Passes, PhaseBEndpoint
<1>4. ASSUME passes("ignore_verilator_internal_final_state"),
             Len(reference) = Len(candidate), Len(reference) % Storage = 0
      PROVE  /\ ComparedFields(layout) # {} => passes("normalized_final_state_equivalence")
             /\ ( \A w \in Words :
                    /\ \E f \in Fields(layout) : f.name = w
                    /\ \A f \in Fields(layout) : f.name = w => f.role # "verilator_internal" )
                  => passes("coverage_output_equivalence")
  <2>1. IgnoreInternal(layout, reference, candidate)
    BY <1>4 DEF Passes
  <2>2. StateCount(reference) = StateCount(candidate)
    BY <1>4 DEF StateCount
  <2>3. Compatible(reference, candidate)
    BY <1>4, <2>2 DEF Compatible
  <2>4. \A p \in Pairs(reference, candidate) :
          \E n \in 0 .. StateCount(reference) - 1 : p = <<n, n>>
    BY <2>2 DEF Pairs
  <2>5. ASSUME NEW p \in Pairs(reference, candidate), NEW f \in Fields(layout),
               f.role # "verilator_internal"
        PROVE  SameField(reference, candidate, p, f)
    <3>1. PICK n \in 0 .. StateCount(reference) - 1 : p = <<n, n>>
      BY <2>4
    <3>2. PICK k \in DOMAIN layout : f = layout[k]
      BY DEF Fields
    <3>3. Slice(reference, n, f) = Slice(candidate, n, f)
      BY <1>1, <1>4, <2>1, <2>5, <3>2, SameOutside
    <3> QED BY <3>1, <3>3 DEF SameField
  <2>6. ComparedFields(layout) \subseteq Fields(layout)
    BY DEF ComparedFields
  <2>7. ComparedFields(layout) # {} => Normalized(layout, reference, candidate)
    BY <2>3, <2>5, <2>6 DEF Normalized
  <2>8. ( \A w \in Words :
            /\ \E f \in Fields(layout) : f.name = w
            /\ \A f \in Fields(layout) : f.name = w => f.role # "verilator_internal" )
          => CoverageOutput(layout, reference, candidate)
    BY <2>3, <2>5 DEF CoverageOutput
  <2> QED BY <2>7, <2>8 DEF Passes
<1> QED BY <1>2, <1>3, <1>4 DEF PoliciesNested

(* A stronger policy never accepts what a weaker one would refuse: equal   *)
(* dumps are a phase B endpoint, an endpoint is equal outside the          *)
(* internals, and such dumps are equal after normalization and in their    *)
(* coverage words, field by field and state by state.                      *)
THEOREM PoliciesAreNested == Spec => []PoliciesNested
<1>1. TInv => PoliciesNested
  BY PoliciesWeaken
<1> QED BY <1>1, TInvInit, TInvStep, PTL DEF Spec

----------------------------------------------------------------------------
(* Residual differences.                                                   *)

(* A set of numbers has a least one.                                       *)
LEMMA LeastOf ==
  ASSUME NEW S, S \subseteq Nat, S # {}
  PROVE  \E i \in S : \A j \in S : i <= j
<1>1. PICK i \in S : \A j \in S : <<j, i>> \notin OpToRel(<, Nat)
  BY NatLessThanWellFounded, WFMin, Zenon
<1>2. \A j \in S : ~ (j < i)
  BY <1>1, Zenon DEF OpToRel
<1> QED BY <1>2

(* A verdict is about the dumps and the job it was given for.              *)
VerdictInv == verdict = "accepted" => stage = "done" /\ Selected

LEMMA VerdictInvStep == TInv /\ VerdictInv /\ [Next]_vars => VerdictInv'
<1> SUFFICES ASSUME TInv, VerdictInv, [Next]_vars PROVE VerdictInv'
  OBVIOUS
<1> USE DEF dumps, localization
<1>1. stage # "done" => verdict = "none"
  BY DEF TInv, TypeOK
<1>2. CASE Decide
  BY <1>2 DEF Decide, VerdictInv, Selected
<1>3. ASSUME stage # "done", verdict' = verdict PROVE VerdictInv'
  BY <1>1, <1>3 DEF VerdictInv
<1>4. CASE UNCHANGED vars
  BY <1>4 DEF vars, VerdictInv, Selected
<1> QED
  BY <1>2, <1>3, <1>4
  DEF Next, ReadDumps, RunSingle, RunSplit, RunPrefix, PrefixesRun, Fail

(* A field of a mismatch that is not unknown is a field of the layout.     *)
LEMMA MismatchFieldOfLayout ==
  ASSUME NEW layout \in Layouts, NEW a, NEW b, NEW f \in MismatchFields(layout, a, b),
         f.role = "verilator_internal"
  PROVE  \E k \in DOMAIN layout : f = layout[k]
<1>1. PICK i \in Differing(a, b) : f = FieldAt(layout, StateOffset(i))
  BY DEF MismatchFields, FieldOf
<1>2. Annotated(layout, StateOffset(i)) # {}
  BY <1>1 DEF FieldAt, Unknown
<1>3. PICK k \in Annotated(layout, StateOffset(i)) : f = layout[k]
  BY <1>1, <1>2 DEF FieldAt
<1> QED BY <1>3 DEF Annotated

(* The first byte of a field that differs exists and is a number.          *)
LEMMA FirstBytes ==
  ASSUME NEW layout, NEW a \in Dumps, NEW b \in Dumps, NEW f \in MismatchFields(layout, a, b)
  PROVE  FirstByte(layout, a, b, f) \in Nat
<1> DEFINE S == {i \in Differing(a, b) : FieldOf(layout, i) = f}
<1>1. S \subseteq Nat
  BY DifferingBytes
<1>2. S # {}
  BY DEF MismatchFields
<1>3. \E i \in S : \A j \in S : i <= j
  <2> HIDE DEF S
  <2> QED BY <1>1, <1>2, LeastOf
<1>4. \E i \in Differing(a, b) :
        /\ FieldOf(layout, i) = f
        /\ \A j \in Differing(a, b) : FieldOf(layout, j) = f => i <= j
  BY <1>3
<1>5. FirstByte(layout, a, b, f) \in Differing(a, b)
  BY <1>4 DEF FirstByte
<1> QED BY <1>5, DifferingBytes

(* A summary that lists more fields than may be allowed lists a field that *)
(* is not, if there is one.                                                *)
LEMMA ListShowsResidual ==
  ASSUME NEW layout \in Layouts, NEW a \in Dumps, NEW b \in Dumps,
         \A f \in ListedFields(layout, a, b) : ResidualAllowed(f),
         NEW f \in MismatchFields(layout, a, b)
  PROVE  ResidualAllowed(f)
<1> DEFINE fields == MismatchFields(layout, a, b)
           First(g) == FirstByte(layout, a, b, g)
           bad == {n \in Nat : \E g \in fields : ~ResidualAllowed(g) /\ First(g) = n}
<1> SUFFICES ASSUME ~ResidualAllowed(f) PROVE FALSE
  OBVIOUS
<1>1. \A g \in fields : First(g) \in Nat
  BY FirstBytes
<1>2. bad \subseteq Nat /\ bad # {}
  BY <1>1
<1>3. PICK n \in bad : \A m \in bad : n <= m
  <2> HIDE DEF bad
  <2> QED BY <1>2, LeastOf
<1>4. PICK g \in fields : ~ResidualAllowed(g) /\ First(g) = n
  BY <1>3
<1> DEFINE earlier == {h \in fields : First(h) < First(g)}
<1>5. \A h \in earlier : ResidualAllowed(h)
  <2> SUFFICES ASSUME NEW h \in earlier, ~ResidualAllowed(h) PROVE FALSE
    OBVIOUS
  <2>1. First(h) \in bad /\ First(h) < n /\ First(h) \in Nat /\ n \in Nat
    BY <1>1, <1>2, <1>3, <1>4
  <2> QED BY <1>3, <2>1
<1> DEFINE name == [h \in earlier |-> h.name]
<1>6. name \in [earlier -> Allowed]
  BY <1>5 DEF ResidualAllowed
<1>7. \A g1, g2 \in earlier : name[g1] = name[g2] => g1 = g2
  <2> SUFFICES ASSUME NEW g1 \in earlier, NEW g2 \in earlier, g1.name = g2.name
               PROVE  g1 = g2
    BY DEF name
  <2>1. g1.role = "verilator_internal" /\ g2.role = "verilator_internal"
    BY <1>5 DEF ResidualAllowed
  <2>2. PICK k1 \in DOMAIN layout : g1 = layout[k1]
    BY <2>1, MismatchFieldOfLayout
  <2>3. PICK k2 \in DOMAIN layout : g2 = layout[k2]
    BY <2>1, MismatchFieldOfLayout
  <2> QED BY <2>2, <2>3, LayoutsAssumption
<1>8. name \in Injection(earlier, Allowed)
  <2> HIDE DEF earlier, name
  <2> QED BY <1>6, <1>7 DEF Injection, IsInjective
<1>9. Cardinality(earlier) <= Cardinality(Allowed) /\ IsFiniteSet(earlier)
  <2> HIDE DEF earlier, name
  <2> QED BY <1>8, LimitAssumption, FS_Injection
<1>10. Cardinality(earlier) < Limit
  <2> HIDE DEF earlier
  <2> QED BY <1>9, LimitAssumption, FS_CardinalityType
<1>11. g \in ListedFields(layout, a, b)
  BY <1>4, <1>10 DEF ListedFields, FirstFields
<1> QED BY <1>4, <1>11

LEMMA ResidualsKnown ==
  ASSUME TInv, VerdictInv PROVE PhaseBResidualsAreKnown
<1> SUFFICES ASSUME verdict = "accepted", job.policy = "phase_b_endpoint",
                    NEW f \in MismatchFields(job.layout, reference, candidate)
             PROVE  ResidualAllowed(f)
  BY DEF PhaseBResidualsAreKnown
<1>1. stage = "done" /\ Passes("phase_b_endpoint", job.layout, reference, candidate)
  BY DEF VerdictInv, Selected
<1>2. \A g \in ListedFields(job.layout, reference, candidate) : ResidualAllowed(g)
  BY <1>1 DEF Passes, PhaseBEndpoint
<1>3. job.layout \in Layouts /\ reference \in Dumps /\ candidate \in Dumps
  BY <1>1, JobFields DEF TInv, TypeOK, Supplied
<1> QED BY <1>2, <1>3, ListShowsResidual

(* Phase B accepts on the evidence of a list that is cut; nothing it would *)
(* refuse is behind the cut.                                               *)
THEOREM ResidualsAreKnown == Spec => []PhaseBResidualsAreKnown
<1>1. Init => VerdictInv
  BY DEF Init, VerdictInv
<1>2. TInv /\ VerdictInv => PhaseBResidualsAreKnown
  BY ResidualsKnown
<1> QED BY <1>1, <1>2, TInvInit, TInvStep, VerdictInvStep, PTL DEF Spec
=============================================================================
