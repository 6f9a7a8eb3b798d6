--------------------------- MODULE RtlmeterProofs ---------------------------
(***************************************************************************)
(* Theorems about Rtlmeter for all installations, environments, requests,  *)
(* calls and descriptors.  The invariant has four parts:                   *)
(*   TypeInv    what the variables hold;                                   *)
(*   RunInv     which run the observables in place are of;                 *)
(*   IntentInv  what a GPU run that asks for the GPU calls;                *)
(*   ReadInv    where handoff metadata and launcher commands come from.    *)
(***************************************************************************)
EXTENDS Rtlmeter, WellFoundedInduction, TLAPS

Roles == {"cpu", "gpu"}
Busy == {"install", "preflight", "cpu", "gpu"}

(* The fields of the call, as a record.                                    *)
CallRecord ==
  [file |-> call.file, stage |-> call.stage, argv |-> call.argv, path |-> call.path,
   context |-> call.context]

TypeInv ==
  /\ env \in Environments
  /\ kind \in [Dirs -> Kinds]
  /\ phase \in Phases
  /\ runs \in 0..MaxRuns
  /\ call = CallRecord
  /\ call.stage \in {"none", "exec", "runtime"}
  /\ call.path \in Seq(Dirs)
  /\ Running => call.file \in Dirs
  /\ phase \in {"install", "preflight"} => ~Running
  /\ phase \in {"cpu", "gpu"} => Executable(SidecarWrapper)
  /\ observed \in [Roles -> [run : 0..runs, value : Observables \cup {None}]]
  /\ report.run \in 0..runs

RunInv ==
  /\ phase \in Busy => report.run < runs
  /\ phase = "cpu" /\ ~Running /\ code = 0 => observed["cpu"].run = runs
  /\ phase = "gpu" => observed["cpu"].run = runs
  /\ phase = "gpu" /\ ~Running /\ code = 0 => observed["gpu"].run = runs
  /\ PassedComparesThisRun

AskedLine == CommandLine(request.seed, request.compileArgs)

AsksForGpu == IsWrapper(SidecarWrapper) /\ GpuIntent(AskedLine)

IntentInv ==
  /\ phase = "gpu" /\ AsksForGpu /\ Running =>
       call.file = SidecarWrapper /\ call.argv = AskedLine
  /\ phase = "gpu" /\ AsksForGpu /\ ~Running => code = 2
  /\ GpuIntentNeverPasses

OfAUser == \E c \in Calls : call.argv = c.argv /\ call.context = c.context

ReadInv ==
  /\ Running => OfAUser \/ call.context = None \/ call.context.closure = "incomplete"
  /\ handoff # None /\ handoff.status = "metadata_ready" =>
       \E c \in Calls : handoff = Handoff(c.argv, c.context)
  /\ ReadersAgree

----------------------------------------------------------------------------
(* The search of a path                                                    *)

(* A set of positions has a first one.                                     *)
LEMMA FirstIsFirst ==
  ASSUME NEW S, S \subseteq Nat, S # {}
  PROVE  First(S) \in S /\ \A j \in S : First(S) <= j
<1>1. PICK i \in S : \A j \in S : <<j, i>> \notin OpToRel(<, Nat)
  BY NatLessThanWellFounded, WFMin, Zenon
<1>2. \A j \in S : ~ (j < i)
  BY <1>1, Zenon DEF OpToRel
<1>3. \A j \in S : i <= j
  BY <1>2
<1> QED BY <1>3 DEF First

(* What is found in a path is one of its directories and executable.       *)
LEMMA WhichFinds ==
  ASSUME NEW path \in Seq(Dirs), Which(path) # None
  PROVE  Which(path) \in Dirs /\ Executable(Which(path))
<1> DEFINE found == {i \in DOMAIN path : Executable(path[i])}
<1>1. found \subseteq Nat /\ found # {}
  BY DEF Which
<1>2. First(found) \in found
  BY <1>1, FirstIsFirst
<1>3. Which(path) = path[First(found)]
  BY <1>1 DEF Which
<1> QED BY <1>2, <1>3

LEMMA ResolveFinds ==
  ASSUME NEW path \in Seq(Dirs), env \in Environments, ResolveRealVerilator(path) # None
  PROVE  ResolveRealVerilator(path) \in Dirs
<1>1. CASE env.real # None
  BY <1>1, EnvironmentsAssumption DEF ResolveRealVerilator
<1>2. CASE env.real = None
  <2> DEFINE others == {i \in DOMAIN path : Executable(path[i]) /\ ~SameAsWrapper(path[i])}
  <2>1. others \subseteq Nat /\ others # {}
    BY <1>2 DEF ResolveRealVerilator
  <2>2. First(others) \in others
    BY <2>1, FirstIsFirst
  <2>3. ResolveRealVerilator(path) = path[First(others)]
    BY <1>2, <2>1 DEF ResolveRealVerilator
  <2> QED BY <2>2, <2>3
<1> QED BY <1>1, <1>2

LEMMA WrapperIsADir ==
  ASSUME env \in Environments
  PROVE  SidecarWrapper \in Dirs
BY InstallationsAssumption, EnvironmentsAssumption DEF SidecarWrapper

LEMMA GpuPathIsAPath ==
  ASSUME env \in Environments
  PROVE  GpuPath \in Seq(Dirs)
BY WrapperIsADir, EnvironmentsAssumption DEF GpuPath

(* In front of the path, the wrapper is what the GPU run finds.            *)
LEMMA GpuRunFindsWrapper ==
  ASSUME env \in Environments, Executable(SidecarWrapper)
  PROVE  Which(GpuPath) = SidecarWrapper
<1> DEFINE found == {i \in DOMAIN GpuPath : Executable(GpuPath[i])}
<1>1. GpuPath \in Seq(Dirs) /\ 1 \in DOMAIN GpuPath /\ GpuPath[1] = SidecarWrapper
  BY GpuPathIsAPath, WrapperIsADir, EnvironmentsAssumption DEF GpuPath
<1>2. found \subseteq Nat /\ 1 \in found
  BY <1>1
<1>3. First(found) = 1
  <2>1. First(found) \in found /\ First(found) <= 1
    BY <1>2, FirstIsFirst
  <2>2. First(found) >= 1
    BY <1>1, <2>1
  <2> QED BY <2>1, <2>2, <1>2
<1> QED BY <1>1, <1>2, <1>3 DEF Which

----------------------------------------------------------------------------
(* Type correctness                                                        *)

(* A step leaves the environment alone and the call a record.              *)
LEMMA StartedCall ==
  ASSUME NEW file, NEW argv, NEW path \in Seq(Dirs), NEW context,
         file \in Dirs, Started(file, argv, path, context)
  PROVE  /\ (call = CallRecord)'
         /\ call'.stage = "exec" /\ call'.path \in Seq(Dirs)
         /\ call'.file = file /\ call'.argv = argv /\ call'.context = context
         /\ Running'
BY DEF Started, CallRecord, Running

LEMMA EndedCall ==
  ASSUME call' = NoCall
  PROVE  (call = CallRecord)' /\ call'.stage = "none" /\ call'.path \in Seq(Dirs) /\ ~Running'
BY DEF NoCall, CallRecord, Running

LEMMA TypeInit ==
  Init => TypeInv
<1> SUFFICES ASSUME Init PROVE TypeInv
  OBVIOUS
<1>1. 0 \in 0..MaxRuns
  BY EnvironmentsAssumption
<1>2. observed \in [Roles -> [run : 0..runs, value : Observables \cup {None}]]
  BY DEF Init, Roles
<1> QED
  BY <1>1, <1>2, InstallationsAssumption
  DEF Init, TypeInv, Kinds, Phases, NoCall, CallRecord, Running

LEMMA TypeNext ==
  TypeInv /\ [Next]_vars => TypeInv'
<1> SUFFICES ASSUME TypeInv, [Next]_vars PROVE TypeInv'
  OBVIOUS
<1> USE DEF Phases, Kinds
<1>0. /\ MaxRuns \in Nat
      /\ env \in Environments /\ env.path \in Seq(Dirs)
  BY EnvironmentsAssumption DEF TypeInv
<1>a. ASSUME UNCHANGED <<runs, observed>>
      PROVE  /\ (runs \in 0..MaxRuns)'
             /\ (observed \in [Roles -> [run : 0..runs, value : Observables \cup {None}]])'
  BY <1>a DEF TypeInv
<1>b. ASSUME UNCHANGED <<env, kind>>
      PROVE  SidecarWrapper' = SidecarWrapper /\ (Executable(SidecarWrapper) => Executable(SidecarWrapper)')
  BY <1>b DEF SidecarWrapper, Executable
<1>c. ASSUME runs < MaxRuns, runs' = runs + 1, UNCHANGED observed
      PROVE  /\ (runs \in 0..MaxRuns)' /\ 0..runs \subseteq 0..runs'
             /\ (observed \in [Roles -> [run : 0..runs, value : Observables \cup {None}]])'
  <2>1. runs' \in 0..MaxRuns /\ 0..runs \subseteq 0..runs'
    BY <1>c, <1>0 DEF TypeInv
  <2> QED BY <1>c, <2>1 DEF TypeInv
<1>1. CASE \E c \in Calls : CallVerilator(c)
  <2>1. PICK c \in Calls : CallVerilator(c)
    BY <1>1
  <2>2. Which(env.path) \in Dirs
    BY <2>1, <1>0, WhichFinds DEF CallVerilator
  <2>3. Started(Which(env.path), c.argv, env.path, c.context)
    BY <2>1 DEF CallVerilator
  <2> QED BY <2>1, <2>2, <2>3, <1>0, <1>c, StartedCall, <1>b DEF CallVerilator, AtRest, TypeInv
<1>2. CASE StartRuntime
  BY <1>2, <1>a, <1>b DEF StartRuntime, TypeInv, CallRecord, Running
<1>3. CASE Delegate
  <2>1. CASE ResolveRealVerilator(call.path) = None
    BY <1>3, <2>1, <1>a, <1>b, EndedCall DEF Delegate, TypeInv
  <2>2. CASE ResolveRealVerilator(call.path) # None
    <3>1. ResolveRealVerilator(call.path) \in Dirs
      BY <2>2, <1>0, ResolveFinds DEF TypeInv
    <3> QED
      BY <1>3, <2>2, <3>1, <1>a, <1>b DEF Delegate, InRuntime, TypeInv, CallRecord, Running
  <2> QED BY <2>1, <2>2
<1>4. CASE FailClosed
  BY <1>4, <1>a, <1>b, EndedCall DEF FailClosed, TypeInv
<1>5. CASE Returns
  <2>1. PICK status \in {0, 1}, value \in Observables : RealVerilator(status, value)
    BY <1>5 DEF Returns
  <2>2. (observed \in [Roles -> [run : 0..runs, value : Observables \cup {None}]])'
    <3>1. [run |-> runs, value |-> value] \in [run : 0..runs, value : Observables \cup {None}]
      BY <1>0 DEF TypeInv
    <3> QED BY <2>1, <3>1 DEF RealVerilator, TypeInv
  <2> QED BY <2>1, <2>2, <1>b, EndedCall DEF RealVerilator, TypeInv
<1>6. CASE Materialize
  BY <1>6, <1>a, <1>b DEF Materialize, TypeInv, CallRecord, Running
<1>7. CASE \E req \in Requests : Begin(req)
  <2>1. PICK req \in Requests : Begin(req)
    BY <1>7
  <2>2. phase' \in {"idle", "install"} /\ (report.run \in 0..runs)'
    <3>1. runs' = runs + 1 /\ runs \in Nat /\ report.run \in 0..runs
      BY <2>1, <1>0 DEF Begin, TypeInv
    <3>2. CASE ~Enabled(req)
      BY <2>1, <3>1, <3>2 DEF Begin, Conclude
    <3>3. CASE Enabled(req) /\ ~Captures(req.seed)
      BY <2>1, <3>1, <3>3 DEF Begin, Conclude
    <3>4. CASE Enabled(req) /\ Captures(req.seed)
      BY <2>1, <3>1, <3>4 DEF Begin
    <3> QED BY <3>2, <3>3, <3>4
  <2> QED BY <2>1, <2>2, <1>c, <1>b DEF Begin, AtRest, TypeInv, CallRecord, Running
<1>8. CASE InstallWrapper
  BY <1>8, <1>a, <1>b DEF InstallWrapper, TypeInv, CallRecord, Running
<1>9. CASE Preflight
  <2>1. CASE Which(env.path) # None /\ Executable(SidecarWrapper)
    <3>1. Which(env.path) \in Dirs
      BY <2>1, <1>0, WhichFinds
    <3>2. Started(Which(env.path), CommandLine(request.seed, <<>>), env.path, None)
      BY <1>9, <2>1 DEF Preflight
    <3> QED BY <1>9, <2>1, <3>1, <3>2, <1>0, <1>a, <1>b, StartedCall DEF Preflight, TypeInv
  <2>2. CASE ~(Which(env.path) # None /\ Executable(SidecarWrapper))
    BY <1>9, <2>2, <1>0, <1>a, <1>b DEF Preflight, Conclude, TypeInv, CallRecord, Running
  <2> QED BY <2>1, <2>2
<1>10. CASE CpuReturns
  <2>1. CASE code # 0
    BY <1>10, <2>1, <1>0, <1>a, <1>b DEF CpuReturns, Conclude, TypeInv, CallRecord, Running
  <2>2. CASE code = 0
    <3>1. GpuPath \in Seq(Dirs) /\ Which(GpuPath) \in Dirs
      BY <1>10, <1>0, GpuPathIsAPath, GpuRunFindsWrapper, WrapperIsADir DEF CpuReturns, TypeInv
    <3> QED BY <1>10, <2>2, <3>1, <1>a, <1>b, StartedCall DEF CpuReturns, TypeInv
  <2> QED BY <2>1, <2>2
<1>11. CASE GpuReturns
  BY <1>11, <1>0, <1>a, <1>b DEF GpuReturns, Conclude, TypeInv, CallRecord, Running
<1>12. CASE UNCHANGED vars
  BY <1>12, <1>a, <1>b DEF vars, TypeInv, CallRecord, Running
<1> QED
  BY <1>1, <1>2, <1>3, <1>4, <1>5, <1>6, <1>7, <1>8, <1>9, <1>10, <1>11, <1>12 DEF Next

(* Every variable stays in its domain.                                     *)
THEOREM TypeCorrect == Spec => []TypeOK
<1>1. TypeInv => TypeOK
  BY DEF TypeInv, TypeOK, Roles
<1> QED BY <1>1, TypeInit, TypeNext, PTL DEF Spec

----------------------------------------------------------------------------
(* What a comparison that passed compared                                  *)

LEMMA RunInit ==
  Init => RunInv
BY DEF Init, RunInv, PassedComparesThisRun, Busy

LEMMA RunNext ==
  TypeInv /\ RunInv /\ [Next]_vars => RunInv'
<1> SUFFICES ASSUME TypeInv, RunInv, [Next]_vars PROVE RunInv'
  OBVIOUS
<1> USE DEF Roles, Busy, PassedComparesThisRun
<1>0. runs \in Nat /\ report.run \in 0..runs
  BY EnvironmentsAssumption DEF TypeInv
<1>1. CASE \E c \in Calls : CallVerilator(c)
  BY <1>1, <1>0 DEF CallVerilator, AtRest, RunInv
<1>2. CASE StartRuntime
  BY <1>2 DEF StartRuntime, TypeInv, CallRecord, RunInv, Running
<1>3. CASE Delegate
  <2>1. CASE ResolveRealVerilator(call.path) = None
    BY <1>3, <2>1 DEF Delegate, InRuntime, RunInv, Running
  <2>2. CASE ResolveRealVerilator(call.path) # None
    <3>1. call'.stage = "exec"
      BY <1>3, <2>2 DEF Delegate, TypeInv, CallRecord
    <3> QED BY <1>3, <2>2, <3>1 DEF Delegate, InRuntime, RunInv, Running
  <2> QED BY <2>1, <2>2
<1>4. CASE FailClosed
  BY <1>4 DEF FailClosed, InRuntime, RunInv, Running
<1>5. CASE Returns
  <2>1. PICK status \in {0, 1}, value \in Observables : RealVerilator(status, value)
    BY <1>5 DEF Returns
  <2>2. Running /\ report' = report /\ phase' = phase /\ runs' = runs /\ code' = status
    BY <2>1 DEF RealVerilator, Running
  <2>3. CASE phase \in Roles /\ status = 0
    <3>1. observed' = [observed EXCEPT ![phase] = [run |-> runs, value |-> value]]
      BY <2>1, <2>3 DEF RealVerilator
    <3> QED BY <2>2, <2>3, <3>1, <1>0 DEF RunInv, TypeInv
  <2>4. CASE ~(phase \in Roles /\ status = 0)
    BY <2>1, <2>2, <2>4, <1>0 DEF RealVerilator, RunInv
  <2> QED BY <2>3, <2>4
<1>6. CASE Materialize
  BY <1>6 DEF Materialize, RunInv, Running
<1>7. CASE \E req \in Requests : Begin(req)
  BY <1>7, <1>0 DEF Begin, Conclude, AtRest, RunInv
<1>8. CASE InstallWrapper
  BY <1>8 DEF InstallWrapper, RunInv
<1>9. CASE Preflight
  BY <1>9 DEF Preflight, Conclude, Started, RunInv, Running
<1>10. CASE CpuReturns
  BY <1>10 DEF CpuReturns, Conclude, Started, RunInv, Running
<1>11. CASE GpuReturns
  BY <1>11 DEF GpuReturns, Conclude, RunInv
<1>12. CASE UNCHANGED vars
  BY <1>12 DEF vars, RunInv, Running
<1> QED
  BY <1>1, <1>2, <1>3, <1>4, <1>5, <1>6, <1>7, <1>8, <1>9, <1>10, <1>11, <1>12 DEF Next

(* A comparison that passed compared what RTLMeter left in this run, on    *)
(* both sides, and nothing an earlier run had left.                        *)
THEOREM PassedIsOfThisRun == Spec => []PassedComparesThisRun
<1>1. RunInv => PassedComparesThisRun
  BY DEF RunInv
<1> QED BY <1>1, TypeInit, TypeNext, RunInit, RunNext, PTL DEF Spec

----------------------------------------------------------------------------
(* What a run that asks for the GPU calls                                  *)

LEMMA DelegatesWithoutIntent ==
  ASSUME NEW argv, Inspect(argv) = "delegate"
  PROVE  ~GpuIntent(argv)
BY DEF Inspect

LEMMA IntentInit ==
  Init => IntentInv
BY EnvironmentsAssumption DEF Init, IntentInv, GpuIntentNeverPasses

(* Until the next run begins, what it asked and what was installed stays.  *)
LEMMA AskedStays ==
  ASSUME UNCHANGED <<kind, env, request>>
  PROVE  (AsksForGpu' <=> AsksForGpu) /\ AskedLine' = AskedLine /\ SidecarWrapper' = SidecarWrapper
BY DEF AsksForGpu, AskedLine, SidecarWrapper, IsWrapper

LEMMA NeverPassesAsked ==
  GpuIntentNeverPasses <=>
    (report.status = "passed" /\ report.run = runs /\ phase = "idle" => ~AsksForGpu)
BY DEF GpuIntentNeverPasses, AsksForGpu, AskedLine

LEMMA IntentNext ==
  TypeInv /\ RunInv /\ IntentInv /\ [Next]_vars => IntentInv'
<1> SUFFICES ASSUME TypeInv, RunInv, IntentInv, [Next]_vars PROVE IntentInv'
  OBVIOUS
<1>0. runs \in Nat /\ report.run \in 0..runs
  BY EnvironmentsAssumption DEF TypeInv
<1>a. ASSUME UNCHANGED <<kind, env, request, report, phase, runs>>
      PROVE  /\ (AsksForGpu' <=> AsksForGpu) /\ AskedLine' = AskedLine
             /\ SidecarWrapper' = SidecarWrapper /\ GpuIntentNeverPasses'
  BY <1>a, AskedStays, NeverPassesAsked DEF IntentInv, GpuIntentNeverPasses, AsksForGpu, AskedLine, SidecarWrapper, IsWrapper
<1>1. CASE \E c \in Calls : CallVerilator(c)
  BY <1>1, <1>0 DEF CallVerilator, AtRest, IntentInv, GpuIntentNeverPasses
<1>2. CASE StartRuntime
  BY <1>2, <1>a DEF StartRuntime, TypeInv, CallRecord, IntentInv, Running
<1>3. CASE Delegate
  <2>1. ~(phase = "gpu" /\ AsksForGpu)
    BY <1>3, DelegatesWithoutIntent DEF Delegate, InRuntime, Running, IntentInv, AsksForGpu
  <2> QED BY <1>3, <2>1, <1>a DEF Delegate, IntentInv
<1>4. CASE FailClosed
  BY <1>4, <1>a DEF FailClosed, NoCall, Running, IntentInv
<1>5. CASE Returns
  <2>1. PICK status \in {0, 1}, value \in Observables : RealVerilator(status, value)
    BY <1>5 DEF Returns
  <2>2. ~(phase = "gpu" /\ AsksForGpu)
    BY <2>1 DEF RealVerilator, Running, IntentInv, AsksForGpu, IsWrapper
  <2> QED BY <2>1, <2>2, <1>a DEF RealVerilator, IntentInv
<1>6. CASE Materialize
  BY <1>6, <1>a DEF Materialize, IntentInv, Running
<1>7. CASE \E req \in Requests : Begin(req)
  <2>1. phase' # "gpu" /\ report'.status = "passed" => report'.run # runs'
    BY <1>7, <1>0 DEF Begin, Conclude
  <2>2. phase' # "gpu"
    BY <1>7 DEF Begin, Conclude
  <2> QED BY <2>1, <2>2 DEF IntentInv, GpuIntentNeverPasses
<1>8. CASE InstallWrapper
  BY <1>8 DEF InstallWrapper, IntentInv, GpuIntentNeverPasses
<1>9. CASE Preflight
  BY <1>9 DEF Preflight, Conclude, IntentInv, GpuIntentNeverPasses
<1>10. CASE CpuReturns
  <2>1. CASE code # 0
    BY <1>10, <2>1 DEF CpuReturns, Conclude, IntentInv, GpuIntentNeverPasses
  <2>2. CASE code = 0
    <3>1. Which(GpuPath) = SidecarWrapper
      BY <1>10, GpuRunFindsWrapper DEF CpuReturns, TypeInv
    <3>2. call'.file = SidecarWrapper /\ call'.argv = AskedLine /\ Running' /\ phase' = "gpu"
      BY <1>10, <2>2, <3>1 DEF CpuReturns, Started, AskedLine, Running
    <3>3. SidecarWrapper' = SidecarWrapper /\ AskedLine' = AskedLine
      BY <1>10, AskedStays DEF CpuReturns
    <3> QED BY <3>2, <3>3 DEF IntentInv, GpuIntentNeverPasses
  <2> QED BY <2>1, <2>2
<1>11. CASE GpuReturns
  <2>1. AsksForGpu => code = 2
    BY <1>11 DEF GpuReturns, IntentInv
  <2>2. phase' # "gpu" /\ (report'.status = "passed" /\ phase' = "idle" => code = 0)
    BY <1>11 DEF GpuReturns, Conclude
  <2>3. AsksForGpu' <=> AsksForGpu
    BY <1>11, AskedStays DEF GpuReturns
  <2>4. GpuIntentNeverPasses'
    BY <2>1, <2>2, <2>3 DEF GpuIntentNeverPasses, AsksForGpu, AskedLine
  <2> QED BY <2>2, <2>4 DEF IntentInv
<1>12. CASE UNCHANGED vars
  BY <1>12, <1>a DEF vars, IntentInv, Running
<1> QED
  BY <1>1, <1>2, <1>3, <1>4, <1>5, <1>6, <1>7, <1>8, <1>9, <1>10, <1>11, <1>12 DEF Next

(* A run whose compile arguments ask for the GPU does not pass while the   *)
(* wrapper fails closed, whatever PATH and environment hold.               *)
THEOREM CpuIsNeverGpu == Spec => []GpuIntentNeverPasses
<1>1. IntentInv => GpuIntentNeverPasses
  BY DEF IntentInv
<1> QED BY <1>1, TypeInit, TypeNext, RunInit, RunNext, IntentInit, IntentNext, PTL DEF Spec

----------------------------------------------------------------------------
(* Where ready metadata and launcher commands come from                    *)

(* Metadata that is ready agrees with the parser, and its context is whole.*)
LEMMA ReadyHandoff ==
  ASSUME NEW argv, NEW context, Handoff(argv, context).status = "metadata_ready"
  PROVE  /\ Inspect(argv) = "planning"
         /\ Schedule(argv) = ParserPayload(argv).shape
         /\ PositiveShape(Schedule(argv))
         /\ Parse(argv) = ParserPayload(argv) /\ Parse(argv) # None
         /\ context # None /\ context.closure = "complete"
<1>1. Inspect(argv) = "planning" /\ Schedule(argv) # None /\ MissingContext(argv, context) = {}
  BY DEF Handoff
<1>2. Schedule(argv) = ParserPayload(argv).shape /\ PositiveShape(Schedule(argv))
  BY <1>1 DEF Schedule, ParserPayload
<1>3. Parse(argv) # None
  BY <1>1 DEF MissingContext
<1>4. Parse(argv) = ParserPayload(argv)
  BY <1>3 DEF Parse
<1>5. \A f \in RequiredContext : context # None /\ ContextField(context, f)
  BY <1>1 DEF MissingContext
<1>6. context # None /\ ContextField(context, "closure")
  BY <1>5 DEF RequiredContext
<1>7. context.closure = "complete"
  BY <1>6 DEF ContextField
<1> QED BY <1>1, <1>2, <1>3, <1>4, <1>6, <1>7

HandoffAgrees ==
  handoff # None /\ handoff.status = "metadata_ready" =>
    /\ handoff.parser # None
    /\ handoff.schedule = handoff.parser.shape
    /\ PositiveShape(handoff.schedule)

InvocationAgrees ==
  invocation # None =>
    \E c \in Calls :
      /\ invocation.shape = ParserPayload(c.argv).shape
      /\ c.context # None
      /\ c.context.closure = "complete"
      /\ TemplateTarget[invocation.template] = c.context.target

LEMMA ReadInit ==
  Init => ReadInv
BY DEF Init, ReadInv, ReadersAgree, NoCall, Running

LEMMA ReadNext ==
  TypeInv /\ ReadInv /\ [Next]_vars => ReadInv'
<1> SUFFICES ASSUME TypeInv, ReadInv, [Next]_vars PROVE ReadInv'
  OBVIOUS
<1>a. ASSUME UNCHANGED <<handoff, invocation>>,
             Running' => (OfAUser \/ call.context = None \/ call.context.closure = "incomplete")'
      PROVE  ReadInv'
  BY <1>a DEF ReadInv, ReadersAgree
<1>1. CASE \E c \in Calls : CallVerilator(c)
  BY <1>1, <1>a DEF CallVerilator, Started, OfAUser
<1>2. CASE StartRuntime
  BY <1>2, <1>a DEF StartRuntime, TypeInv, CallRecord, Running, OfAUser, ReadInv
<1>3. CASE Delegate
  <2>1. CASE ResolveRealVerilator(call.path) = None
    BY <1>3, <2>1, <1>a DEF Delegate, NoCall, Running
  <2>2. CASE ResolveRealVerilator(call.path) # None
    <3>1. call'.argv = call.argv /\ call'.context = call.context /\ Running
      BY <1>3, <2>2 DEF Delegate, InRuntime, TypeInv, CallRecord, Running
    <3> QED BY <1>3, <3>1, <1>a DEF Delegate, OfAUser, ReadInv
  <2> QED BY <2>1, <2>2
<1>4. CASE FailClosed
  <2>1. ~Running' /\ Running /\ invocation' = invocation
    BY <1>4 DEF FailClosed, InRuntime, NoCall, Running
  <2>2. CASE handoff' # None /\ handoff'.status = "metadata_ready"
    <3>1. handoff' = Handoff(call.argv, call.context)
      BY <1>4, <2>2 DEF FailClosed, FailClosedReport
    <3>2. PICK c \in Calls : call.argv = c.argv /\ call.context = c.context
      BY <2>1, <2>2, <3>1, ReadyHandoff DEF ReadInv, OfAUser
    <3>3. HandoffAgrees'
      BY <2>2, <3>1, ReadyHandoff DEF HandoffAgrees, Handoff
    <3> QED BY <2>1, <3>1, <3>2, <3>3 DEF ReadInv, ReadersAgree, HandoffAgrees
  <2>3. CASE ~(handoff' # None /\ handoff'.status = "metadata_ready")
    BY <2>1, <2>3 DEF ReadInv, ReadersAgree
  <2> QED BY <2>2, <2>3
<1>5. CASE Returns
  BY <1>5, <1>a DEF Returns, RealVerilator, NoCall, Running
<1>6. CASE Materialize
  <2>1. handoff' = handoff /\ call' = call /\ invocation' = LauncherInvocation(handoff) /\ handoff # None
    BY <1>6 DEF Materialize
  <2>2. InvocationAgrees'
    <3> SUFFICES ASSUME invocation' # None PROVE InvocationAgrees'
      BY DEF InvocationAgrees
    <3>1. LauncherReady(handoff) /\ invocation' = [template |-> handoff.context.template,
                                                   shape |-> handoff.schedule]
      BY <2>1 DEF LauncherInvocation
    <3>2. handoff.status = "metadata_ready"
      BY <3>1 DEF LauncherReady
    <3>3. PICK c \in Calls : handoff = Handoff(c.argv, c.context)
      BY <2>1, <3>2 DEF ReadInv
    <3>4. /\ Schedule(c.argv) = ParserPayload(c.argv).shape
          /\ c.context # None /\ c.context.closure = "complete"
      BY <3>2, <3>3, ReadyHandoff
    <3>5. handoff.context = c.context /\ handoff.schedule = Schedule(c.argv)
      BY <3>3 DEF Handoff
    <3>6. TemplateTarget[handoff.context.template] = handoff.context.target
      BY <3>1 DEF LauncherReady
    <3> QED BY <3>1, <3>4, <3>5, <3>6 DEF InvocationAgrees
  <2> QED BY <2>1, <2>2 DEF ReadInv, ReadersAgree, InvocationAgrees, Running, OfAUser
<1>7. CASE \E req \in Requests : Begin(req)
  BY <1>7, <1>a DEF Begin, AtRest, Running
<1>8. CASE InstallWrapper
  BY <1>8, <1>a DEF InstallWrapper, Running, OfAUser, ReadInv
<1>9. CASE Preflight
  BY <1>9, <1>a DEF Preflight, Started, TypeInv, Running
<1>10. CASE CpuReturns
  BY <1>10, <1>a DEF CpuReturns, Started, ContextCandidate, Running
<1>11. CASE GpuReturns
  BY <1>11, <1>a DEF GpuReturns, Running
<1>12. CASE UNCHANGED vars
  BY <1>12, <1>a DEF vars, Running, OfAUser, ReadInv
<1> QED
  BY <1>1, <1>2, <1>3, <1>4, <1>5, <1>6, <1>7, <1>8, <1>9, <1>10, <1>11, <1>12 DEF Next

(* Metadata that are ready, and the launcher command made of them, carry   *)
(* the schedule and the target of one command line and context.            *)
THEOREM ReadersAgreeAlways == Spec => []ReadersAgree
<1>1. ReadInv => ReadersAgree
  BY DEF ReadInv
<1> QED BY <1>1, TypeInit, TypeNext, ReadInit, ReadNext, PTL DEF Spec
=============================================================================
