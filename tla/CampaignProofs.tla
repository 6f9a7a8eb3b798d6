-------------------------- MODULE CampaignProofs --------------------------
(***************************************************************************)
(* What holds in every campaign, for any command lines, templates and      *)
(* targets, any files in place before and any number of invocations and    *)
(* failures.                                                               *)
(*                                                                         *)
(* Two arguments meet in CampaignInv.  The static one: whatever the        *)
(* command line, each step of its script is fed (Fed) by the steps before  *)
(* it, that is, what it reads of its own invocation an earlier step has    *)
(* left, under a name that says what it is of (Good, ScriptsFeedThemselves;*)
(* GoodJoined and GoodFlat put sequences of steps in line).  The dynamic   *)
(* one: as long as the steps left are fed by what the running invocation   *)
(* has made (FlowInv), every file is what its name says, of the invocation *)
(* that wrote it (Sound, FilesInv), and each action of Next keeps both.    *)
(* That files, once written, are overwritten by invocations of any kind,   *)
(* broken off anywhere, is what makes the second argument necessary.       *)
(***************************************************************************)
EXTENDS Campaign, FoldTheorems

----------------------------------------------------------------------------
(* What the steps of a command line may rely on.                           *)

StateKinds == {"cpu_state", "gpu_state"}
AbiTag == "persistent_resident_state_abi"

Measuring == {"host_probe", "run_vl_hybrid", "run_vl_hybrid_phases", "compare"}
Recorders == Measuring \cup {"summarize"}

(* The dumps, reports and aggregates; the files of the MobileViT data set  *)
(* have names of their own.                                                *)
IsRecord(f) ==
  /\ f.kind \in StateKinds \cup {"cpu_report", "hybrid_report", "compare_report", "summary"}
  /\ f.tag[1] # "mobile_vit"

(* What the name of a dump or comparison says of its contents: the steps   *)
(* in all, and the cfg_* values.                                           *)
NamedShape(f) ==
  IF f.tag[1] \in {"resident_state_reuse", AbiTag} THEN Cumulative(f.shape, f.tag[3])
  ELSE f.shape

Defaults(req) == req.program \in {"benchmark", "reproduction"}

NamedCfg(req, f) ==
  IF f.tag[1] = AbiTag \/ Defaults(req) THEN DefaultCfg
  ELSE IF req.program = "template" THEN req.cfg
  ELSE <<f.tag[4], req.seed + f.tag[3] - 1>>

(* The dump a one-phase probe compares without having made it.             *)
Orphan(req, f) == SinglePhaseProbe(req) /\ f.kind = "gpu_state" /\ f.tag[1] = AbiTag

Counted(shape) == shape \in Int \X Int /\ PositiveShape(shape)

Sliced(req) == req.program = "benchmark" /\ Registry[req.target].kind = "slice"
AskedTarget(req) == Payloads[Registry[req.target].template].target

Aimed(req, target) == Sliced(req) => target = AskedTarget(req)

Names(f, about) == f.target = about.target /\ NamedShape(f) = about.shape

----------------------------------------------------------------------------
(* What a step finds in the files W of its own invocation, and what its    *)
(* files are named.                                                        *)

ProbeFed(req, c) ==
  /\ c.tool = "host_probe"
  /\ Aimed(req, c.about.target) /\ Counted(c.about.shape)
  /\ \A f \in c.writes :
       /\ f.kind = "cpu_state" /\ IsRecord(f)
       /\ Names(f, c.about) /\ c.about.cfg = NamedCfg(req, f)
  /\ \A f \in Stdout(c) : f.kind = "cpu_report" /\ IsRecord(f)

LaunchFed(req, W, c) ==
  /\ c.tool \in {"run_vl_hybrid", "run_vl_hybrid_phases"}
  /\ Aimed(req, c.about.target) /\ Counted(c.about.shape)
  /\ \E start \in W :
       /\ Dumps(c) = {start} /\ start.kind = "cpu_state" /\ IsRecord(start)
       /\ \A f \in c.writes :
            /\ f.kind = "gpu_state" /\ IsRecord(f) /\ f.target = c.about.target
            /\ NamedCfg(req, f) = NamedCfg(req, start)
            /\ IF c.tool = "run_vl_hybrid" THEN NamedShape(f) = c.about.shape
               ELSE /\ f.tag[3] \in Nat \ {0}
                    /\ NamedShape(f) = <<c.about.shape[1], f.tag[3] * c.about.shape[2]>>
  /\ \A f \in Stdout(c) : f.kind = "hybrid_report" /\ IsRecord(f)

CompareFed(req, W, c) ==
  /\ c.tool = "compare" /\ c.stdout = None
  /\ Aimed(req, c.about.target) /\ Counted(c.about.shape)
  /\ \A f \in Dumps(c) : f \in W \/ Orphan(req, f)
  /\ \A f \in Dumps(c) : IsRecord(f)
  /\ \A f, g \in Dumps(c) : /\ f.target = g.target
                            /\ NamedShape(f) = NamedShape(g)
                            /\ NamedCfg(req, f) = NamedCfg(req, g)
  /\ \A f \in c.writes : f.kind = "compare_report" /\ IsRecord(f) /\ Names(f, c.about)

SummarizeFed(req, W, c) ==
  /\ c.tool = "summarize" /\ c.stdout = None
  /\ Aimed(req, c.about.target)
  /\ c.reads # {} /\ c.reads \subseteq W
  /\ \A f \in c.writes :
       /\ f.kind = "summary" /\ IsRecord(f)
       /\ f \in {ReuseSummary, ProbeSummary} => c.about.target = Mha

BuildFed(req, c) ==
  /\ c.tool \in Builds /\ c.stdout = None
  /\ Aimed(req, c.about.target)
  /\ \A f \in c.writes : ~IsRecord(f)

DatasetFed(req, c) ==
  /\ c.tool \in {"plan_predictions", "accuracy", "eval_summary", "preflight"}
  /\ Aimed(req, c.about.target)
  /\ \A f \in c.writes : ~IsRecord(f)
  /\ c.tool = "eval_summary" =>
       \/ c.reads = {Accuracy}
       \/ \E size \in Nat \ {0} : c.reads = {Accuracy} \cup BatchReports(size)

(* The report the evidence of a request is taken from.                     *)
Evident(about) ==
  LET asked == about.asked
      slice == Registry[asked.target].kind = "slice"
      target == Payloads[Registry[asked.target].template].target
  IN  /\ slice /\ asked.mode = "template" =>
           /\ about.report.kind = "compare_report" /\ about.report.tag = Plain
           /\ about.report.target = target /\ about.report.shape = asked.shape
      /\ asked.mode # "template" =>
           /\ slice /\ about.checked
           /\ about.report \in {ReuseSummary, ProbeSummary} /\ target = Mha

SummaryFed(req, W, c) ==
  /\ c.tool = "benchmark_summary"
  /\ \A f \in c.writes : ~IsRecord(f)
  /\ Evident(c.about)
  /\ c.about.execution = "executed" => c.reads \subseteq W /\ c.about.report \in W

IdleFed(c) == c.tool \in {"estimate", "raise", "not_ready"}

Fed(req, W, c) ==
  \/ ProbeFed(req, c)
  \/ LaunchFed(req, W, c)
  \/ CompareFed(req, W, c)
  \/ SummarizeFed(req, W, c)
  \/ BuildFed(req, c)
  \/ DatasetFed(req, c)
  \/ SummaryFed(req, W, c)
  \/ IdleFed(c)

----------------------------------------------------------------------------
(* Step sequences whose steps are all fed, by W or by the steps before     *)
(* them; what comes after the script has died does not matter.             *)

Left(c) == IF c.tool \in Recorders THEN c.writes \cup {c.stdout} ELSE {}
LeftBy(s) == UNION {Left(s[i]) : i \in DOMAIN s}
Raises(s) == \E i \in DOMAIN s : s[i].tool = "raise"
Before(s, n) == UNION {Left(s[i]) : i \in 1 .. n - 1}

Elements(s) == {s[i] : i \in DOMAIN s}
IsSequence(s) == s \in Seq(Elements(s))

Good(req, W, s) ==
  /\ IsSequence(s)
  /\ \A i \in 1 .. Len(s) :
       \/ \E j \in 1 .. i - 1 : s[j].tool = "raise"
       \/ Fed(req, W \cup Before(s, i), s[i])

(* A sequence, whatever its elements are.                                  *)
LEMMA SequenceOf ==
  ASSUME NEW S, NEW s \in Seq(S)
  PROVE  IsSequence(s)
<1>1. \A i \in 1 .. Len(s) : s[i] \in Elements(s)
  BY DEF Elements
<1>2. DOMAIN s = 1 .. Len(s) /\ Len(s) \in Nat
  OBVIOUS
<1>3. s = [i \in 1 .. Len(s) |-> s[i]]
  BY <1>2
<1> QED BY <1>1, <1>2, <1>3 DEF IsSequence

LEMMA SequenceFacts ==
  ASSUME NEW s, IsSequence(s)
  PROVE  DOMAIN s = 1 .. Len(s) /\ Len(s) \in Nat
BY DEF IsSequence

(* More files feed as well.                                                *)
LEMMA FedMore ==
  ASSUME NEW req, NEW W, NEW c, Fed(req, W, c), NEW V, W \subseteq V
  PROVE  Fed(req, V, c)
<1>1. LaunchFed(req, W, c) => LaunchFed(req, V, c)
  BY DEF LaunchFed
<1>2. CompareFed(req, W, c) => CompareFed(req, V, c)
  BY DEF CompareFed
<1>3. SummarizeFed(req, W, c) => SummarizeFed(req, V, c)
  BY DEF SummarizeFed
<1>4. SummaryFed(req, W, c) => SummaryFed(req, V, c)
  BY DEF SummaryFed
<1> QED BY <1>1, <1>2, <1>3, <1>4 DEF Fed

LEMMA GoodMore ==
  ASSUME NEW req, NEW W, NEW s, Good(req, W, s), NEW V, W \subseteq V
  PROVE  Good(req, V, s)
<1>1. \A i \in 1 .. Len(s) : Fed(req, W \cup Before(s, i), s[i]) => Fed(req, V \cup Before(s, i), s[i])
  <2> TAKE i \in 1 .. Len(s)
  <2>1. W \cup Before(s, i) \subseteq V \cup Before(s, i)
    OBVIOUS
  <2> QED BY <2>1, FedMore
<1> QED BY <1>1 DEF Good

(* Sequences put together.                                                 *)
LEMMA GoodNone ==
  ASSUME NEW req, NEW W
  PROVE  Good(req, W, <<>>) /\ LeftBy(<<>>) = {} /\ ~Raises(<<>>)
<1>1. IsSequence(<<>>)
  BY DEF IsSequence
<1> QED BY <1>1 DEF Good, LeftBy, Raises

LEMMA GoodOne ==
  ASSUME NEW req, NEW W, NEW c, Fed(req, W, c)
  PROVE  Good(req, W, <<c>>)
<1>1. <<c>> \in Seq({c}) /\ Len(<<c>>) = 1 /\ <<c>>[1] = c
  OBVIOUS
<1>2. IsSequence(<<c>>)
  BY <1>1, SequenceOf
<1>3. Fed(req, W \cup Before(<<c>>, 1), c)
  BY FedMore
<1> QED BY <1>1, <1>2, <1>3 DEF Good

LEMMA LeftByOne ==
  ASSUME NEW c
  PROVE  LeftBy(<<c>>) = Left(c)
BY DEF LeftBy

LEMMA Joined ==
  ASSUME NEW s, IsSequence(s), NEW t, IsSequence(t)
  PROVE  /\ IsSequence(s \o t)
         /\ Len(s \o t) = Len(s) + Len(t)
         /\ \A i \in 1 .. Len(s) : (s \o t)[i] = s[i]
         /\ \A i \in 1 .. Len(t) : (s \o t)[Len(s) + i] = t[i]
         /\ LeftBy(s \o t) = LeftBy(s) \cup LeftBy(t)
         /\ Raises(s \o t) <=> Raises(s) \/ Raises(t)
<1> DEFINE S == Elements(s) \cup Elements(t)
           u == s \o t
<1>1. s \in Seq(S) /\ t \in Seq(S)
  BY DEF IsSequence
<1>2. /\ u \in Seq(S) /\ Len(u) = Len(s) + Len(t)
      /\ \A i \in 1 .. Len(s) : u[i] = s[i]
      /\ \A i \in 1 .. Len(t) : u[Len(s) + i] = t[i]
  <2> HIDE DEF S
  <2> QED BY <1>1
<1>3. IsSequence(u)
  <2> HIDE DEF S, u
  <2> QED BY <1>2, SequenceOf
<1>4. /\ DOMAIN s = 1 .. Len(s) /\ DOMAIN t = 1 .. Len(t) /\ DOMAIN u = 1 .. Len(u)
      /\ Len(s) \in Nat /\ Len(t) \in Nat
  <2> HIDE DEF u
  <2> QED BY <1>3, SequenceFacts
<1> HIDE DEF u
<1>5. \A i \in DOMAIN u : i \in DOMAIN s \/ (i - Len(s) \in DOMAIN t /\ Len(s) + (i - Len(s)) = i)
  BY <1>2, <1>4
<1>6. (\A i \in DOMAIN s : i \in DOMAIN u) /\ \A i \in DOMAIN t : Len(s) + i \in DOMAIN u
  BY <1>2, <1>4
<1>7. LeftBy(u) = LeftBy(s) \cup LeftBy(t)
  <2>1. ASSUME NEW f \in LeftBy(u) PROVE f \in LeftBy(s) \cup LeftBy(t)
    <3>1. PICK i \in DOMAIN u : f \in Left(u[i])
      BY <2>1 DEF LeftBy
    <3>2. CASE i \in DOMAIN s
      BY <1>2, <1>4, <3>1, <3>2 DEF LeftBy
    <3>3. CASE i - Len(s) \in DOMAIN t /\ Len(s) + (i - Len(s)) = i
      <4>1. u[i] = t[i - Len(s)]
        BY <1>2, <1>4, <3>3
      <4> QED BY <3>1, <3>3, <4>1 DEF LeftBy
    <3> QED BY <1>5, <3>2, <3>3
  <2>2. LeftBy(s) \subseteq LeftBy(u)
    BY <1>2, <1>4, <1>6 DEF LeftBy
  <2>3. LeftBy(t) \subseteq LeftBy(u)
    <3> SUFFICES ASSUME NEW f \in LeftBy(t) PROVE f \in LeftBy(u)
      OBVIOUS
    <3>1. PICK i \in DOMAIN t : f \in Left(t[i])
      BY DEF LeftBy
    <3>2. u[Len(s) + i] = t[i] /\ Len(s) + i \in DOMAIN u
      BY <1>2, <1>4, <1>6
    <3> QED BY <3>1, <3>2 DEF LeftBy
  <2> QED BY <2>1, <2>2, <2>3
<1>8. Raises(u) <=> Raises(s) \/ Raises(t)
  <2>1. ASSUME Raises(u) PROVE Raises(s) \/ Raises(t)
    <3>1. PICK i \in DOMAIN u : u[i].tool = "raise"
      BY <2>1 DEF Raises
    <3>2. CASE i \in DOMAIN s
      BY <1>2, <1>4, <3>1, <3>2 DEF Raises
    <3>3. CASE i - Len(s) \in DOMAIN t /\ Len(s) + (i - Len(s)) = i
      <4>1. u[i] = t[i - Len(s)]
        BY <1>2, <1>4, <3>3
      <4> QED BY <3>1, <3>3, <4>1 DEF Raises
    <3> QED BY <1>5, <3>2, <3>3
  <2>2. ASSUME Raises(s) \/ Raises(t) PROVE Raises(u)
    BY <1>2, <1>4, <1>6, <2>2 DEF Raises
  <2> QED BY <2>1, <2>2
<1> QED BY <1>2, <1>3, <1>7, <1>8 DEF u

LEMMA GoodJoined ==
  ASSUME NEW req, NEW W, NEW s, Good(req, W, s),
         NEW t, IsSequence(t), Raises(s) \/ Good(req, W \cup LeftBy(s), t)
  PROVE  Good(req, W, s \o t)
<1> DEFINE u == s \o t
<1>0. IsSequence(s)
  BY DEF Good
<1>1. /\ IsSequence(u) /\ Len(u) = Len(s) + Len(t)
      /\ \A i \in 1 .. Len(s) : u[i] = s[i]
      /\ \A i \in 1 .. Len(t) : u[Len(s) + i] = t[i]
  BY <1>0, Joined
<1>2. /\ Len(s) \in Nat /\ Len(t) \in Nat
      /\ DOMAIN s = 1 .. Len(s)
  BY <1>0, SequenceFacts
<1> HIDE DEF u
<1>3. ASSUME NEW i \in 1 .. Len(u)
      PROVE  \/ \E j \in 1 .. i - 1 : u[j].tool = "raise"
             \/ Fed(req, W \cup Before(u, i), u[i])
  <2>1. CASE i \in 1 .. Len(s)
    <3>1. \A j \in 1 .. i - 1 : j \in 1 .. Len(s) /\ u[j] = s[j]
      BY <1>1, <1>2, <2>1
    <3>2. Before(u, i) = Before(s, i)
      BY <3>1 DEF Before
    <3>3. u[i] = s[i]
      BY <1>1, <2>1
    <3>4. \/ \E j \in 1 .. i - 1 : s[j].tool = "raise"
          \/ Fed(req, W \cup Before(s, i), s[i])
      BY <2>1 DEF Good
    <3> QED BY <3>1, <3>2, <3>3, <3>4
  <2>2. CASE i \notin 1 .. Len(s)
    <3> DEFINE k == i - Len(s)
    <3>1. k \in 1 .. Len(t) /\ Len(s) + k = i
      BY <1>1, <1>2, <2>2
    <3>2. u[i] = t[k]
      BY <1>1, <3>1
    <3>3. \A j \in 1 .. Len(s) : j \in 1 .. i - 1
      BY <1>2, <3>1
    <3>4. CASE Raises(s)
      <4>1. PICK j \in 1 .. Len(s) : s[j].tool = "raise"
        BY <1>2, <3>4 DEF Raises
      <4> QED BY <1>1, <3>3, <4>1
    <3>5. CASE Good(req, W \cup LeftBy(s), t)
      <4>0. \/ \E j \in 1 .. k - 1 : t[j].tool = "raise"
            \/ Fed(req, (W \cup LeftBy(s)) \cup Before(t, k), t[k])
        <5> HIDE DEF k
        <5> QED BY <3>1, <3>5 DEF Good
      <4>1. \A j \in 1 .. k - 1 : Len(s) + j \in 1 .. i - 1 /\ u[Len(s) + j] = t[j]
        BY <1>1, <1>2, <3>1
      <4>2. LeftBy(s) \subseteq Before(u, i)
        BY <1>1, <1>2, <3>3 DEF LeftBy, Before
      <4>3. Before(t, k) \subseteq Before(u, i)
        <5> HIDE DEF k
        <5> SUFFICES ASSUME NEW f \in Before(t, k) PROVE f \in Before(u, i)
          OBVIOUS
        <5>1. PICK j \in 1 .. k - 1 : f \in Left(t[j])
          BY DEF Before
        <5> QED BY <4>1, <5>1 DEF Before
      <4>4. (W \cup LeftBy(s)) \cup Before(t, k) \subseteq W \cup Before(u, i)
        BY <4>2, <4>3
      <4> HIDE DEF k
      <4>5. Fed(req, (W \cup LeftBy(s)) \cup Before(t, k), t[k]) => Fed(req, W \cup Before(u, i), t[k])
        BY <4>4, FedMore
      <4> QED BY <3>2, <4>0, <4>1, <4>5
    <3> QED BY <3>4, <3>5
  <2> QED BY <2>1, <2>2
<1>4. Good(req, W, u)
  BY <1>1, <1>3 DEF Good
<1> QED BY <1>4 DEF u

(* The first step is fed, and what it leaves feeds the others.             *)
LEMMA GoodFirst ==
  ASSUME NEW req, NEW W, NEW s, Good(req, W, s), s # <<>>
  PROVE  /\ Fed(req, W, Head(s))
         /\ Head(s).tool = "raise" \/ Good(req, W \cup Left(Head(s)), Tail(s))
<1>0. s \in Seq(Elements(s)) /\ Len(s) \in Nat \ {0} /\ DOMAIN s = 1 .. Len(s)
  BY DEF Good, IsSequence
<1>1. Head(s) = s[1]
  BY <1>0
<1>2. /\ Tail(s) \in Seq(Elements(s)) /\ Len(Tail(s)) = Len(s) - 1
      /\ \A i \in 1 .. Len(s) - 1 : Tail(s)[i] = s[i + 1]
  BY <1>0
<1>3. Before(s, 1) = {}
  BY DEF Before
<1>4. Fed(req, W, Head(s))
  <2>1. 1 \in 1 .. Len(s) /\ 1 .. 1 - 1 = {}
    BY <1>0
  <2>2. Fed(req, W \cup Before(s, 1), s[1])
    BY <2>1 DEF Good
  <2>3. W \cup Before(s, 1) = W
    BY <1>3
  <2> QED BY <1>1, <2>2, <2>3
<1>5. ASSUME Head(s).tool # "raise" PROVE Good(req, W \cup Left(Head(s)), Tail(s))
  <2>1. IsSequence(Tail(s))
    BY <1>2, SequenceOf
  <2>2. ASSUME NEW i \in 1 .. Len(Tail(s))
        PROVE  \/ \E j \in 1 .. i - 1 : Tail(s)[j].tool = "raise"
               \/ Fed(req, (W \cup Left(Head(s))) \cup Before(Tail(s), i), Tail(s)[i])
    <3>1. i \in 1 .. Len(s) - 1 /\ i + 1 \in 1 .. Len(s)
      BY <1>0, <1>2
    <3>2. \/ \E j \in 1 .. (i + 1) - 1 : s[j].tool = "raise"
          \/ Fed(req, W \cup Before(s, i + 1), s[i + 1])
      BY <3>1 DEF Good
    <3>3. CASE \E j \in 1 .. (i + 1) - 1 : s[j].tool = "raise"
      <4>1. PICK j \in 1 .. (i + 1) - 1 : s[j].tool = "raise"
        BY <3>3
      <4>2. j # 1
        BY <1>1, <1>5, <4>1
      <4>3. j - 1 \in 1 .. i - 1 /\ j - 1 \in 1 .. Len(s) - 1 /\ (j - 1) + 1 = j
        BY <3>1, <4>2
      <4>4. Tail(s)[j - 1] = s[(j - 1) + 1]
        BY <1>2, <4>3
      <4> QED BY <4>1, <4>3, <4>4
    <3>4. CASE Fed(req, W \cup Before(s, i + 1), s[i + 1])
      <4>1. Before(s, i + 1) \subseteq Left(Head(s)) \cup Before(Tail(s), i)
        <5> SUFFICES ASSUME NEW f \in Before(s, i + 1)
                     PROVE  f \in Left(Head(s)) \cup Before(Tail(s), i)
          OBVIOUS
        <5>1. PICK j \in 1 .. (i + 1) - 1 : f \in Left(s[j])
          BY DEF Before
        <5>2. CASE j = 1
          BY <1>1, <5>1, <5>2
        <5>3. CASE j # 1
          <6>1. j - 1 \in 1 .. i - 1 /\ j - 1 \in 1 .. Len(s) - 1 /\ (j - 1) + 1 = j
            BY <3>1, <5>3
          <6>2. Tail(s)[j - 1] = s[(j - 1) + 1]
            BY <1>2, <6>1
          <6> QED BY <5>1, <6>1, <6>2 DEF Before
        <5> QED BY <5>2, <5>3
      <4>2. W \cup Before(s, i + 1) \subseteq (W \cup Left(Head(s))) \cup Before(Tail(s), i)
        BY <4>1
      <4>3. Tail(s)[i] = s[i + 1]
        BY <1>2, <3>1
      <4> QED BY <3>4, <4>2, <4>3, FedMore
    <3> QED BY <3>2, <3>3, <3>4
  <2> QED BY <2>1, <2>2 DEF Good
<1> QED BY <1>4, <1>5

(* One sequence after the other, each fed by those before it.              *)
LeftUpTo(seqs, i) == UNION {LeftBy(seqs[j]) : j \in 1 .. i}

Chained(req, W, n, seqs) ==
  /\ seqs \in [1 .. n -> Elements(seqs)]
  /\ \A i \in 1 .. n :
       /\ IsSequence(seqs[i])
       /\ \/ \E j \in 1 .. i - 1 : Raises(seqs[j])
          \/ Good(req, W \cup LeftUpTo(seqs, i - 1), seqs[i])

LEMMA GoodFlat ==
  ASSUME NEW req, NEW W, NEW n \in Nat, NEW seqs, Chained(req, W, n, seqs)
  PROVE  /\ Good(req, W, FlattenSeq(seqs))
         /\ LeftBy(FlattenSeq(seqs)) = LeftUpTo(seqs, n)
         /\ Raises(FlattenSeq(seqs)) <=> \E j \in 1 .. n : Raises(seqs[j])
<1> DEFINE X == UNION {Elements(seqs[i]) : i \in 1 .. n}
<1>1. \A i \in 1 .. n : IsSequence(seqs[i])
  BY DEF Chained
<1>2. \A i \in 1 .. n : seqs[i] \in Seq(X)
  <2> TAKE i \in 1 .. n
  <2>1. seqs[i] \in Seq(Elements(seqs[i]))
    BY <1>1 DEF IsSequence
  <2>2. Elements(seqs[i]) \subseteq X
    OBVIOUS
  <2> HIDE DEF X
  <2> QED BY <2>1, <2>2
<1>0. DOMAIN seqs = 1 .. n /\ seqs = [i \in 1 .. n |-> seqs[i]]
  BY DEF Chained
<1>3. seqs \in Seq(Seq(X)) /\ Len(seqs) = n
  <2> DEFINE Y == Seq(X)
  <2>1. \A i \in 1 .. n : seqs[i] \in Y
    BY <1>2
  <2> HIDE DEF X, Y
  <2>2. seqs \in Seq(Y) /\ Len(seqs) = n
    BY <1>0, <2>1
  <2> QED BY <2>2 DEF Y
<1> HIDE DEF X
<1>4. CASE n = 0
  <2>1. seqs = <<>>
    BY <1>3, <1>4
  <2>2. FlattenSeq(seqs) = <<>>
    BY <1>3, <1>4, <2>1 DEF FlattenSeq
  <2>3. LeftUpTo(seqs, n) = {} /\ ~\E j \in 1 .. n : Raises(seqs[j])
    BY <1>4 DEF LeftUpTo
  <2> QED BY <2>2, <2>3, GoodNone
<1>5. CASE n # 0
  <2>1. PICK flat : Appends(flat, seqs) /\ FlattenSeq(seqs) = flat[n]
    BY <1>3, <1>5, FlattenAppends
  <2> DEFINE Raised(i) == \E j \in 1 .. i : Raises(seqs[j])
             Fine(i) == /\ Good(req, W, flat[i]) /\ LeftBy(flat[i]) = LeftUpTo(seqs, i)
                        /\ Raises(flat[i]) <=> Raised(i)
             S == {i \in 0 .. n : i > 0 => Fine(i)}
  <2>2. 0 \in S
    OBVIOUS
  <2>3. ASSUME NEW i \in 0 .. n - 1, i \in S PROVE i + 1 \in S
    <3>1. i + 1 \in 1 .. n /\ i + 1 \in 0 .. n /\ (i + 1) - 1 = i
      OBVIOUS
    <3>2. Raised(i) \/ Good(req, W \cup LeftUpTo(seqs, i), seqs[i + 1])
      BY <3>1 DEF Chained
    <3>3. Raised(i + 1) <=> Raised(i) \/ Raises(seqs[i + 1])
      <4>1. 1 .. i + 1 = (1 .. i) \cup {i + 1}
        OBVIOUS
      <4> QED BY <4>1
    <3>4. CASE i = 0
      <4>1. flat[1] = seqs[1]
        BY <2>1 DEF Appends
      <4>2. LeftUpTo(seqs, 0) = {} /\ LeftUpTo(seqs, 1) = LeftBy(seqs[1]) /\ ~Raised(0)
        <5>1. 1 .. 0 = {} /\ 1 .. 1 = {1}
          OBVIOUS
        <5> QED BY <5>1 DEF LeftUpTo
      <4>3. W \cup LeftUpTo(seqs, 0) = W
        BY <4>2
      <4> HIDE DEF Raised
      <4>4. Good(req, W, flat[1]) /\ LeftBy(flat[1]) = LeftUpTo(seqs, 1)
        BY <3>2, <3>4, <4>1, <4>2, <4>3
      <4>5. Raises(flat[1]) <=> Raised(1)
        BY <3>3, <3>4, <4>1, <4>2
      <4> QED BY <3>1, <3>4, <4>4, <4>5
    <3>5. CASE i # 0
      <4>1. flat[i + 1] = flat[i] \o seqs[i + 1]
        <5>1. i + 1 \in 2 .. Len(seqs) /\ (i + 1) - 1 = i
          BY <1>3, <3>5
        <5> QED BY <2>1, <5>1 DEF Appends
      <4> HIDE DEF Raised
      <4>2. Fine(i)
        BY <2>3, <3>5
      <4>3. IsSequence(seqs[i + 1]) /\ IsSequence(flat[i])
        BY <1>1, <3>1, <4>2 DEF Good
      <4>4. Good(req, W, flat[i + 1])
        BY <3>2, <4>1, <4>2, <4>3, GoodJoined
      <4>5. /\ LeftBy(flat[i + 1]) = LeftUpTo(seqs, i) \cup LeftBy(seqs[i + 1])
            /\ Raises(flat[i + 1]) <=> Raised(i) \/ Raises(seqs[i + 1])
        BY <4>1, <4>2, <4>3, Joined
      <4>6. LeftUpTo(seqs, i + 1) = LeftUpTo(seqs, i) \cup LeftBy(seqs[i + 1])
        <5>1. 1 .. i + 1 = (1 .. i) \cup {i + 1}
          OBVIOUS
        <5> QED BY <5>1 DEF LeftUpTo
      <4> QED BY <3>1, <3>3, <4>4, <4>5, <4>6
    <3> QED BY <3>4, <3>5
  <2>4. 0 .. n \subseteq S
    <3> HIDE DEF S
    <3> QED BY <2>2, <2>3, UpToInduction
  <2>5. n \in 0 .. n /\ n > 0
    BY <1>5
  <2>6. Fine(n)
    <3> HIDE DEF Fine
    <3>1. n \in S
      BY <2>4, <2>5
    <3> QED BY <2>5, <3>1
  <2> QED BY <2>1, <2>6
<1> QED BY <1>4, <1>5

----------------------------------------------------------------------------
(* The steps of a planning invocation.                                     *)

(* A step that runs no program and writes no report of one.                *)
Harmless(c) ==
  /\ c.tool \in {"estimate", "not_ready", "benchmark_summary"}
  /\ c.tool = "benchmark_summary" => c.about.execution = "dry_run"

HarmlessSteps(steps) == \E S : steps \in Seq(S) /\ \A c \in S : Harmless(c)

LEMMA HarmlessElements ==
  ASSUME NEW S, NEW steps \in Seq(S), \A c \in S : Harmless(c)
  PROVE  HarmlessSteps(steps)
BY DEF HarmlessSteps

LEMMA HarmlessParts ==
  ASSUME NEW req, NEW shape
  PROVE  /\ HarmlessSteps(<<>>)
         /\ HarmlessSteps(Estimate(req, shape))
         /\ HarmlessSteps(ExitNotReady)
         /\ HarmlessSteps(WriteSummary(req, shape, "dry_run"))
<1>1. \A c : Harmless(c) => HarmlessSteps(<<c>>)
  <2> SUFFICES ASSUME NEW c, Harmless(c) PROVE HarmlessSteps(<<c>>)
    OBVIOUS
  <2>1. PICK S, steps : S = {c} /\ steps = <<c>>
    OBVIOUS
  <2>2. steps \in Seq(S) /\ \A d \in S : Harmless(d)
    BY <2>1
  <2> QED BY <2>1, <2>2, HarmlessElements
<1>2. HarmlessSteps(<<>>)
  <2>1. PICK S, steps : S = {} /\ steps = <<>>
    OBVIOUS
  <2>2. steps \in Seq(S) /\ \A d \in S : Harmless(d)
    BY <2>1
  <2> QED BY <2>1, <2>2, HarmlessElements
<1>3. HarmlessSteps(Estimate(req, shape))
  BY <1>1 DEF Estimate, Command, Harmless
<1>4. HarmlessSteps(ExitNotReady)
  BY <1>1 DEF ExitNotReady, Command, Harmless
<1>5. HarmlessSteps(WriteSummary(req, shape, "dry_run"))
  BY <1>1 DEF WriteSummary, Command, Harmless
<1> QED BY <1>2, <1>3, <1>4, <1>5

LEMMA HarmlessJoined ==
  ASSUME NEW s, NEW t, HarmlessSteps(s), HarmlessSteps(t)
  PROVE  HarmlessSteps(s \o t)
<1>1. PICK S : s \in Seq(S) /\ \A c \in S : Harmless(c)
  BY DEF HarmlessSteps
<1>2. PICK T : t \in Seq(T) /\ \A c \in T : Harmless(c)
  BY DEF HarmlessSteps
<1>3. s \in Seq(S \cup T) /\ t \in Seq(S \cup T)
  BY <1>1, <1>2
<1>4. s \o t \in Seq(S \cup T)
  BY <1>3
<1> QED BY <1>1, <1>2, <1>4 DEF HarmlessSteps

LEMMA HarmlessFirst ==
  ASSUME NEW steps, HarmlessSteps(steps), steps # <<>>
  PROVE  Harmless(Head(steps)) /\ HarmlessSteps(Tail(steps))
<1>1. PICK S : steps \in Seq(S) /\ \A c \in S : Harmless(c)
  BY DEF HarmlessSteps
<1>2. Head(steps) \in S /\ Tail(steps) \in Seq(S)
  BY <1>1
<1> QED BY <1>1, <1>2 DEF HarmlessSteps

(* Whatever a benchmark is asked for besides, with a mode that prints,     *)
(* checks or only plans it is refused or runs nothing.                     *)
LEMMA BenchmarkPlans ==
  ASSUME NEW req, req.modes \cap ({"--dry-run", "--preflight"} \cup PrintModes) # {},
         RunWithArgs(req) # None
  PROVE  HarmlessSteps(RunWithArgs(req))
<1> DEFINE shape == ResolvedShape(req.argv)
           commands == BenchmarkPlan(req.target, shape, req.limit, req.mode, req.phases)
<1>1. RunWithArgs(req) = RunOnTarget(req, shape, commands)
  BY DEF RunWithArgs, Planned
<1> HIDE DEF shape, commands
<1>2. CASE req.modes \cap PrintModes # {}
  <2>1. RunOnTarget(req, shape, commands) = PrintOnly(req, shape)
    BY <1>2 DEF RunOnTarget
  <2>2. \/ PrintOnly(req, shape) = Estimate(req, shape) \o <<>>
        \/ PrintOnly(req, shape) = Estimate(req, shape) \o ExitNotReady
    BY <1>1, <2>1 DEF PrintOnly
  <2> QED BY <1>1, <2>1, <2>2, HarmlessParts, HarmlessJoined
<1>3. CASE req.modes \cap PrintModes = {} /\ "--preflight" \in req.modes
  <2>1. RunOnTarget(req, shape, commands) = Preflight(req, shape, commands)
    BY <1>3 DEF RunOnTarget
  <2>2. Preflight(req, shape, commands) = Estimate(req, shape)
    BY <1>1, <2>1 DEF Preflight
  <2> QED BY <1>1, <2>1, <2>2, HarmlessParts
<1>4. CASE req.modes \cap PrintModes = {} /\ "--preflight" \notin req.modes
  <2>1. "--dry-run" \in req.modes
    BY <1>4
  <2>2. req.modes \cap (PrintModes \cup {"--preflight"}) = {}
    BY <1>4
  <2>3. CASE "--summary-from-existing" \in req.modes
    <3>1. RunOnTarget(req, shape, commands) = SummaryFromExisting(req, shape, commands)
      BY <1>4, <2>2, <2>3 DEF RunOnTarget
    <3> QED BY <1>1, <2>1, <3>1 DEF SummaryFromExisting
  <2>4. CASE "--summary-from-existing" \notin req.modes
    <3>1. RunOnTarget(req, shape, commands) = BenchmarkMode(req, shape, commands)
      BY <1>4, <2>4 DEF RunOnTarget
    <3> DEFINE summary == IF req.summary = None THEN <<>> ELSE WriteSummary(req, shape, "dry_run")
               estimate == IF EstimateWanted(req) THEN Estimate(req, shape) ELSE <<>>
    <3>2. BenchmarkMode(req, shape, commands) = <<>> \o summary \o estimate
      BY <1>1, <2>1, <3>1 DEF BenchmarkMode
    <3>3. HarmlessSteps(summary) /\ HarmlessSteps(estimate)
      BY HarmlessParts
    <3> HIDE DEF summary, estimate
    <3>4. HarmlessSteps(<<>> \o summary)
      BY <3>3, HarmlessParts, HarmlessJoined
    <3> QED BY <1>1, <3>1, <3>2, <3>3, <3>4, HarmlessJoined
  <2> QED BY <2>3, <2>4
<1> QED BY <1>2, <1>3, <1>4

LEMMA PlanningIsHarmless ==
  ASSUME NEW req, Planning(req), Steps(req) # None
  PROVE  HarmlessSteps(Steps(req))
<1>1. CASE req.program = "template" /\ req.dry
  <2>1. Steps(req) = TemplateSteps(req)
    BY <1>1 DEF Steps
  <2>2. Steps(req) = <<>>
    BY <1>1, <2>1 DEF TemplateSteps, PlannedSteps, DryRun
  <2> QED BY <2>2, HarmlessParts
<1>2. CASE req.program = "reproduction" /\ req.dry
  <2>1. Steps(req) = ReproductionSteps(req)
    BY <1>2 DEF Steps
  <2>2. Steps(req) = <<>>
    BY <1>2, <2>1 DEF ReproductionSteps, DryRun
  <2> QED BY <2>2, HarmlessParts
<1>3. CASE /\ req.program = "benchmark"
           /\ req.modes \cap ({"--dry-run", "--preflight"} \cup PrintModes) # {}
  <2>1. Steps(req) = RunWithArgs(req)
    BY <1>3 DEF Steps
  <2> QED BY <1>3, <2>1, BenchmarkPlans
<1> QED BY <1>1, <1>2, <1>3 DEF Planning

----------------------------------------------------------------------------
(* Invariants.                                                             *)

(* The running invocation is the last that was accepted, and no file is    *)
(* ahead of it.                                                            *)
Numbered ==
  /\ history \in Seq(Asks)
  /\ running \in {0, Len(history)}
  /\ \A f \in Here : files[f].by \in 0 .. Len(history)

PlansOnly == running > 0 /\ Planning(history[running])

(* A planning invocation has harmless steps left, and what it has written  *)
(* so far is its own summary, without evidence.                            *)
PlanInv ==
  PlansOnly =>
    /\ HarmlessSteps(todo)
    /\ \A f \in Here :
         files[f].by = running =>
           /\ files[f].tool = "benchmark_summary"
           /\ files[f].evidence.found.status = "not_collected"

LeavesAlone ==
  PlansOnly =>
    /\ \A f \in Here : f \in DOMAIN files' /\ ( \/ files'[f] = files[f]
                                                \/ files'[f].tool = "benchmark_summary")
    /\ \A f \in DOMAIN files' :
         files'[f].by = running =>
           /\ files'[f].tool = "benchmark_summary"
           /\ files'[f].evidence.found.status = "not_collected"

LEMMA InitNumbered == Init => Numbered /\ PlanInv
<1> SUFFICES ASSUME Init PROVE Numbered /\ PlanInv
  OBVIOUS
<1>1. \A f \in Here : files[f].by = 0
  BY PlacesAssumption DEF Init, Here
<1>2. history \in Seq(Asks) /\ Len(history) = 0 /\ running = 0
  BY DEF Init
<1> QED BY <1>1, <1>2 DEF Numbered, PlanInv, PlansOnly

(* Files written in a step are of the running invocation or of none.       *)
LEMMA Overlaid ==
  ASSUME NEW written, files' = Overwritten(written),
         \A f \in DOMAIN written : written[f].by \in {0, running},
         Numbered, UNCHANGED history
  PROVE  /\ \A f \in DOMAIN files' : files'[f].by \in 0 .. Len(history)
         /\ \A f \in Here : f \in DOMAIN files'
<1>1. DOMAIN files' = DOMAIN written \cup DOMAIN files
  BY DEF Overwritten
<1>2. \A f \in DOMAIN files' :
        files'[f] = IF f \in DOMAIN written THEN written[f] ELSE files[f]
  BY DEF Overwritten
<1>3. Len(history) \in Nat
  BY DEF Numbered
<1> QED BY <1>1, <1>2, <1>3 DEF Numbered, Here

LEMMA MadeByRunning ==
  ASSUME NEW c
  PROVE  /\ Made(c).by = running
         /\ CompareReport(c).by = running
         /\ Summary(c).by = running
         /\ Truncated.by = 0
         /\ BenchmarkSummary(c).by = running
         /\ \A l : GpuDump(c, l).by = running
         /\ c.tool \in ScriptReports => ScriptReport(c).by = running
<1>1. Made(c).by = running /\ Truncated.by = 0
  BY DEF Made, Truncated, Blank
<1> QED
  BY <1>1 DEF CompareReport, Summary, BenchmarkSummary, GpuDump, ScriptReport, ScriptReports,
              ComputeAccuracy, HybridImagenetSummary, Made, Blank

LEMMA NumberedStep == Numbered /\ [Next]_campaignVars => Numbered'
<1> SUFFICES ASSUME Numbered, [Next]_campaignVars PROVE Numbered'
  OBVIOUS
<1>0. Len(history) \in Nat
  BY DEF Numbered
<1>1. ASSUME NEW written, files' = Overwritten(written), UNCHANGED history,
             running' \in {0, running},
             \A f \in DOMAIN written : written[f].by \in {0, running}
      PROVE  Numbered'
  BY <1>1, Overlaid DEF Numbered, Here
<1>2. ASSUME UNCHANGED <<files, history>>, running' \in {0, running} PROVE Numbered'
  BY <1>2 DEF Numbered, Here
<1>3. ASSUME NEW req \in Asks, Answer(req, Script[req]) PROVE Numbered'
  <2>1. CASE Accept(req, Script[req])
    <3>1. history' = Append(history, req) /\ running' = Len(history') /\ UNCHANGED files
      BY <2>1 DEF Accept
    <3>2. history' \in Seq(Asks) /\ Len(history') = Len(history) + 1
      BY <3>1 DEF Numbered
    <3> QED BY <1>0, <3>1, <3>2 DEF Numbered, Here
  <2>2. CASE Refuse(Script[req])
    BY <1>2, <2>2 DEF Refuse
  <2> QED BY <1>3, <2>1, <2>2 DEF Answer
<1>4. CASE RunProgram
  <2>1. files' = Overwritten(Outputs(Current)) /\ UNCHANGED <<history, running>>
    BY <1>4 DEF RunProgram, Proceed
  <2>2. \A f \in DOMAIN Outputs(Current) : Outputs(Current)[f].by = running
    <3>1. Current.tool \in Programs
      BY <1>4 DEF RunProgram
    <3>2. \A f : Output(Current, f).by = running
      BY <3>1, MadeByRunning DEF Output, Programs, Builds, Made, Blank
    <3> QED BY <3>2, MadeByRunning DEF Outputs
  <2> QED BY <1>1, <2>1, <2>2
<1>5. CASE RejectCompare
  <2> DEFINE written == [f \in Current.writes |-> [CompareReport(Current) EXCEPT !.passed = FALSE]]
  <2>1. files' = Overwritten(written) /\ UNCHANGED history /\ running' = 0
    BY <1>5 DEF RejectCompare, Stop
  <2>2. \A f \in DOMAIN written : written[f].by = running
    BY MadeByRunning DEF CompareReport, Made, Blank
  <2> HIDE DEF written
  <2> QED BY <1>1, <2>1, <2>2
<1>6. CASE FailProgram
  <2> DEFINE written == [f \in Stdout(Current) |-> Truncated]
  <2>1. files' = Overwritten(written) /\ UNCHANGED history /\ running' = 0
    BY <1>6 DEF FailProgram, ProgramFails, Stop
  <2>2. \A f \in DOMAIN written : written[f].by = 0
    BY MadeByRunning
  <2> HIDE DEF written
  <2> QED BY <1>1, <2>1, <2>2
<1>7. CASE WriteReport
  <2> DEFINE written == [f \in Current.writes |-> ScriptReport(Current)]
  <2>1. files' = Overwritten(written) /\ UNCHANGED <<history, running>>
    BY <1>7 DEF WriteReport, Proceed
  <2>2. \A f \in DOMAIN written : written[f].by = running
    BY <1>7, MadeByRunning DEF WriteReport
  <2> HIDE DEF written
  <2> QED BY <1>1, <2>1, <2>2
<1>8. CASE WriteBenchmarkSummary
  <2> DEFINE written == [f \in Current.writes |-> BenchmarkSummary(Current)]
  <2>1. files' = Overwritten(written) /\ UNCHANGED <<history, running>>
    BY <1>8 DEF WriteBenchmarkSummary, Proceed
  <2>2. \A f \in DOMAIN written : written[f].by = running
    BY MadeByRunning
  <2> HIDE DEF written
  <2> QED BY <1>1, <2>1, <2>2
<1>9. CASE MakeEstimate \/ ScriptRaises \/ ExitsNotReady \/ Finish
  BY <1>2, <1>9 DEF MakeEstimate, ScriptRaises, ExitsNotReady, Finish, Proceed, Stop
<1>10. CASE UNCHANGED campaignVars
  BY <1>2, <1>10 DEF campaignVars
<1> QED BY <1>3, <1>4, <1>5, <1>6, <1>7, <1>8, <1>9, <1>10 DEF Next

(* A planning invocation never gets to a program or a report of one.       *)
LEMMA PlansStep ==
  Numbered /\ PlanInv /\ [Next]_campaignVars => PlanInv' /\ LeavesAlone
<1> SUFFICES ASSUME Numbered, PlanInv, [Next]_campaignVars PROVE PlanInv' /\ LeavesAlone
  OBVIOUS
<1>0. Len(history) \in Nat
  BY DEF Numbered
<1>1. ASSUME UNCHANGED <<files, history, running>>, PlansOnly => HarmlessSteps(todo')
      PROVE  PlanInv' /\ LeavesAlone
  BY <1>1 DEF PlanInv, PlansOnly, LeavesAlone, Here
<1>2. ASSUME Stop("error") \/ Stop("not_ready") \/ Stop("done"), UNCHANGED files
      PROVE  PlanInv' /\ LeavesAlone
  <2>1. running' = 0 /\ UNCHANGED history
    BY <1>2 DEF Stop
  <2>2. LeavesAlone
    BY <1>2 DEF PlanInv, LeavesAlone, Here
  <2> QED BY <2>1, <2>2 DEF PlanInv, PlansOnly
<1>3. InProgress /\ PlansOnly => Harmless(Current) /\ HarmlessSteps(Tail(todo))
  BY HarmlessFirst DEF InProgress, PlanInv, Current
<1>4. ASSUME InProgress, Current.tool \in Programs \cup ScriptReports,
             UNCHANGED history, running' \in {0, running}
      PROVE  PlanInv' /\ LeavesAlone
  <2>1. ~PlansOnly
    BY <1>3, <1>4 DEF Harmless, Programs, Builds, ScriptReports
  <2> QED BY <1>4, <2>1 DEF PlanInv, PlansOnly, LeavesAlone
<1>5. ASSUME NEW req \in Asks, Answer(req, Script[req]) PROVE PlanInv' /\ LeavesAlone
  <2>1. AtRest /\ LeavesAlone
    BY <1>5 DEF Answer, Accept, Refuse, AtRest, LeavesAlone, PlansOnly
  <2>2. CASE Accept(req, Script[req])
    <3>1. /\ history' = Append(history, req) /\ running' = Len(history') /\ UNCHANGED files
          /\ todo' = Steps(req) /\ Steps(req) # None
      BY <1>5, <2>2 DEF Accept, Script
    <3>2. running' = Len(history) + 1 /\ history'[running'] = req
      BY <1>0, <3>1 DEF Numbered
    <3>3. \A f \in Here : files[f].by # running'
      BY <1>0, <3>2 DEF Numbered
    <3>4. Planning(req) => HarmlessSteps(todo')
      BY <3>1, PlanningIsHarmless
    <3> QED BY <2>1, <3>1, <3>2, <3>3, <3>4 DEF PlanInv, PlansOnly, Here
  <2>3. CASE Refuse(Script[req])
    BY <2>1, <2>3 DEF Refuse, PlanInv, PlansOnly, AtRest
  <2> QED BY <1>5, <2>2, <2>3 DEF Answer
<1>6. CASE RunProgram
  BY <1>4, <1>6 DEF RunProgram, Proceed
<1>7. CASE RejectCompare
  BY <1>4, <1>7 DEF RejectCompare, Stop, Programs
<1>8. CASE FailProgram
  BY <1>4, <1>8 DEF FailProgram, ProgramFails, Stop
<1>9. CASE WriteReport
  BY <1>4, <1>9 DEF WriteReport, Proceed
<1>10. CASE WriteBenchmarkSummary
  <2> DEFINE written == [f \in Current.writes |-> BenchmarkSummary(Current)]
  <2>1. /\ InProgress /\ Current.tool = "benchmark_summary"
        /\ files' = Overwritten(written) /\ UNCHANGED <<history, running>> /\ todo' = Tail(todo)
    BY <1>10 DEF WriteBenchmarkSummary, Proceed
  <2>2. PlansOnly => Current.about.execution = "dry_run" /\ HarmlessSteps(todo')
    BY <1>3, <2>1 DEF Harmless
  <2>3. PlansOnly =>
          \A f \in DOMAIN written :
            /\ written[f].tool = "benchmark_summary"
            /\ written[f].evidence.found.status = "not_collected"
    <3>1. Current.about.execution = "dry_run" =>
            EvidenceSummary(Current.about).status = "not_collected"
      BY DEF EvidenceSummary, Collects, Evidence
    <3> QED BY <2>2, <3>1 DEF BenchmarkSummary, Blank
  <2>4. /\ DOMAIN files' = DOMAIN written \cup DOMAIN files
        /\ \A f \in DOMAIN files' :
             files'[f] = IF f \in DOMAIN written THEN written[f] ELSE files[f]
    BY <2>1 DEF Overwritten
  <2>5. PlansOnly' = PlansOnly
    BY <2>1 DEF PlansOnly
  <2> HIDE DEF written
  <2> QED BY <2>1, <2>2, <2>3, <2>4, <2>5 DEF PlanInv, LeavesAlone, Here
<1>11. CASE MakeEstimate
  <2>1. InProgress /\ UNCHANGED <<files, history, running>> /\ todo' = Tail(todo)
    BY <1>11 DEF MakeEstimate, Proceed
  <2> QED BY <1>1, <1>3, <2>1
<1>12. CASE ScriptRaises \/ ExitsNotReady \/ Finish
  BY <1>2, <1>12 DEF ScriptRaises, ExitsNotReady, Finish
<1>13. CASE UNCHANGED campaignVars
  BY <1>1, <1>13 DEF campaignVars, PlanInv
<1> QED
  BY <1>5, <1>6, <1>7, <1>8, <1>9, <1>10, <1>11, <1>12, <1>13 DEF Next

(* An invocation that only plans, prints or checks writes nothing but a    *)
(* summary of its own that claims no evidence, whatever it is asked for    *)
(* besides and whatever is in place.                                       *)
THEOREM PlanningLeavesAlone == CampaignSpec => DryRunsAreNoEvidence
<1>1. Numbered /\ PlanInv /\ [Next]_campaignVars => [LeavesAlone]_campaignVars
  BY PlansStep
<1>2. Numbered /\ PlanInv /\ [Next]_campaignVars => Numbered' /\ PlanInv'
  BY NumberedStep, PlansStep
<1>3. CampaignSpec => [][LeavesAlone]_campaignVars
  BY <1>1, <1>2, InitNumbered, PTL DEF CampaignSpec
<1>4. [][LeavesAlone]_campaignVars <=> DryRunsAreNoEvidence
  BY DEF LeavesAlone, PlansOnly, DryRunsAreNoEvidence
<1> QED BY <1>3, <1>4

----------------------------------------------------------------------------
(* What is in a file that an invocation of the history wrote.              *)

Dated(h, x) ==
  /\ x.by \in 0 .. Len(h) /\ x.runs \subseteq 0 .. Len(h)
  /\ x.by = 0 => x.tool \in Builds \cup {""}

AsNamed(f, x) ==
  /\ x.tool \in Measuring => PositiveShape(x.shape)
  /\ IsRecord(f) /\ f.kind \in StateKinds \cup {"compare_report"} =>
       x.target = f.target /\ x.shape = NamedShape(f)
  /\ IsRecord(f) /\ f.kind \in StateKinds /\ f.tag[1] = AbiTag => x.cfg = DefaultCfg
  /\ IsRecord(f) /\ f.kind = "cpu_state" => x.tool = "host_probe"
  /\ f \in {ReuseSummary, ProbeSummary} => x.target = Mha

Unmixed(h, x) ==
  /\ x.tool = "compare" => x.like
  /\ x.by > 0 /\ x.tool \in Recorders /\ ~SinglePhaseProbe(h[x.by]) => x.runs = {x.by}

Fresh(h, x) ==
  /\ x.tool = "benchmark_summary"
  /\ x.evidence.execution = "executed"
  /\ x.evidence.found.status = "collected"
  /\ ~SinglePhaseProbe(h[x.by])
  => x.evidence.found.runs = {x.by} /\ x.runs \subseteq {x.by}

Answers(x) ==
  x.tool = "benchmark_summary" /\ x.evidence.found.status = "collected" =>
    LET asked == x.evidence.asked
        slice == Registry[asked.target].kind = "slice"
    IN  /\ slice => /\ x.evidence.found.target = Payloads[Registry[asked.target].template].target
                    /\ x.evidence.found.shape = asked.shape
        /\ asked.mode # "template" => x.evidence.found.phases = asked.phases

Claimed(x) ==
  x.tool = "eval_summary" /\ x.passed =>
    \E size \in Nat \ {0} : x.parts = {Accuracy} \cup BatchReports(size)

OnTarget(h, x) ==
  x.by > 0 /\ Sliced(h[x.by]) =>
    x.target = AskedTarget(h[x.by]) \/ x.tool = "benchmark_summary"

Sound(h, f, x) ==
  /\ Dated(h, x)
  /\ AsNamed(f, x)
  /\ Unmixed(h, x)
  /\ Fresh(h, x)
  /\ Answers(x)
  /\ Claimed(x)
  /\ OnTarget(h, x)

FilesInv == \A f \in Here : Sound(history, f, files[f])

(* What the running invocation made of the files it goes on with.          *)
Own(req, f, x) ==
  /\ x.by = running
  /\ ~SinglePhaseProbe(req) => x.runs = {running}
  /\ f.kind \in StateKinds => x.cfg = NamedCfg(req, f)

Owned(req, W) ==
  \A f \in W : f # None => f \in Here /\ IsRecord(f) /\ Own(req, f, files[f])

(* No file of a step is the absent one.                                    *)
Present(c) ==
  /\ None \notin c.reads
  /\ c.tool = "benchmark_summary" => c.about.report # None

Working(req, W, c) ==
  /\ Numbered /\ FilesInv
  /\ running > 0 /\ req = history[running]
  /\ Owned(req, W)
  /\ Fed(req, W, c) /\ Present(c)

(* What a step of a tool is fed with.                                      *)
LEMMA FedBy ==
  ASSUME NEW req, NEW W, NEW c, Fed(req, W, c)
  PROVE  /\ c.tool = "host_probe" => ProbeFed(req, c)
         /\ c.tool \in {"run_vl_hybrid", "run_vl_hybrid_phases"} => LaunchFed(req, W, c)
         /\ c.tool = "compare" => CompareFed(req, W, c)
         /\ c.tool = "summarize" => SummarizeFed(req, W, c)
         /\ c.tool \in Builds => BuildFed(req, c)
         /\ c.tool \in {"plan_predictions", "accuracy", "eval_summary", "preflight"} =>
              DatasetFed(req, c)
         /\ c.tool = "benchmark_summary" => SummaryFed(req, W, c)
<1>1. /\ ProbeFed(req, c) => c.tool = "host_probe"
      /\ LaunchFed(req, W, c) => c.tool \in {"run_vl_hybrid", "run_vl_hybrid_phases"}
      /\ CompareFed(req, W, c) => c.tool = "compare"
      /\ SummarizeFed(req, W, c) => c.tool = "summarize"
      /\ BuildFed(req, c) => c.tool \in Builds
      /\ DatasetFed(req, c) =>
           c.tool \in {"plan_predictions", "accuracy", "eval_summary", "preflight"}
      /\ SummaryFed(req, W, c) => c.tool = "benchmark_summary"
      /\ IdleFed(c) => c.tool \in {"estimate", "raise", "not_ready"}
  BY DEF ProbeFed, LaunchFed, CompareFed, SummarizeFed, BuildFed, DatasetFed, SummaryFed, IdleFed
<1>2. \/ ProbeFed(req, c) \/ LaunchFed(req, W, c) \/ CompareFed(req, W, c)
      \/ SummarizeFed(req, W, c) \/ BuildFed(req, c) \/ DatasetFed(req, c)
      \/ SummaryFed(req, W, c) \/ IdleFed(c)
  BY DEF Fed
<1> QED BY <1>1, <1>2 DEF Builds

LEMMA MadeFields ==
  ASSUME NEW c
  PROVE  /\ Made(c).tool = c.tool /\ Made(c).target = c.about.target
         /\ Made(c).shape = c.about.shape /\ Made(c).cfg = c.about.cfg
         /\ Made(c).runs = {running} /\ Made(c).by = running
         /\ Made(c).like = TRUE /\ Made(c).whole = TRUE /\ Made(c).passed = TRUE
BY DEF Made, Blank

(* A step whose tool is none of the two that summarise makes no claim.     *)
LEMMA NoClaim ==
  ASSUME NEW h, NEW x, x.tool \notin {"benchmark_summary", "eval_summary"}
  PROVE  Fresh(h, x) /\ Answers(x) /\ Claimed(x)
BY DEF Fresh, Answers, Claimed

LEMMA RunningIsLast ==
  ASSUME NEW req, NEW W, NEW c, Working(req, W, c)
  PROVE  /\ Len(history) \in Nat /\ running = Len(history) /\ running \in 1 .. Len(history)
         /\ req \in Asks /\ history[running] = req
BY DEF Working, Numbered

(* What a step writes of its own is of its invocation alone.               *)
LEMMA MadeIsSound ==
  ASSUME NEW req, NEW W, NEW c, Working(req, W, c), NEW x, NEW f,
         x.by = running, x.tool = c.tool, x.target = c.about.target,
         x.runs = {running},
         x.tool \notin {"benchmark_summary", "eval_summary", "compare"},
         Aimed(req, c.about.target), AsNamed(f, x)
  PROVE  Sound(history, f, x)
<1>0. Len(history) \in Nat /\ running \in 1 .. Len(history) /\ history[running] = req
  BY RunningIsLast
<1>1. Dated(history, x)
  <2>1. running \in 0 .. Len(history) /\ running # 0
    BY <1>0
  <2> QED BY <2>1 DEF Dated
<1>2. Unmixed(history, x)
  BY DEF Unmixed
<1>3. OnTarget(history, x)
  BY <1>0 DEF OnTarget, Aimed
<1> QED BY <1>1, <1>2, <1>3, NoClaim DEF Sound

LEMMA NotAggregate ==
  ASSUME NEW f, f.kind # "summary"
  PROVE  f \notin {ReuseSummary, ProbeSummary}
<1>1. ReuseSummary.kind = "summary" /\ ProbeSummary.kind = "summary"
  BY DEF ReuseSummary, ProbeSummary, Report, Named
<1> QED BY <1>1

LEMMA ReportIsSound ==
  ASSUME NEW req, NEW W, NEW c, Working(req, W, c), NEW f,
         c.tool \in {"host_probe", "run_vl_hybrid", "run_vl_hybrid_phases"},
         Aimed(req, c.about.target), Counted(c.about.shape),
         f.kind \in {"cpu_report", "hybrid_report"}
  PROVE  Sound(history, f, Made(c)) /\ Own(req, f, Made(c))
<1>1. AsNamed(f, Made(c))
  BY MadeFields, NotAggregate DEF AsNamed, Counted, StateKinds
<1>2. Sound(history, f, Made(c))
  BY <1>1, MadeFields, MadeIsSound
<1> QED BY <1>2, MadeFields DEF Own, StateKinds

(* What a program or a script writes is sound, and its invocation's own.   *)
LEMMA ProbeWrites ==
  ASSUME NEW req, NEW W, NEW c, Working(req, W, c), c.tool = "host_probe",
         NEW f \in DOMAIN Outputs(c)
  PROVE  Sound(history, f, Outputs(c)[f]) /\ Own(req, f, Outputs(c)[f]) /\ IsRecord(f)
<1>1. ProbeFed(req, c)
  BY FedBy DEF Working
<1>2. CASE f \in c.writes
  <2>1. Outputs(c)[f] = Made(c)
    BY <1>2 DEF Outputs, Output, Builds
  <2>2. /\ f.kind = "cpu_state" /\ IsRecord(f) /\ Names(f, c.about)
        /\ c.about.cfg = NamedCfg(req, f)
        /\ Aimed(req, c.about.target) /\ Counted(c.about.shape)
    BY <1>1, <1>2 DEF ProbeFed
  <2>3. f.tag[1] = AbiTag => NamedCfg(req, f) = DefaultCfg
    BY DEF NamedCfg
  <2>4. AsNamed(f, Made(c))
    BY <2>2, <2>3, MadeFields, NotAggregate DEF AsNamed, Counted, Names
  <2>5. Sound(history, f, Made(c))
    BY <2>2, <2>4, MadeFields, MadeIsSound
  <2> QED BY <2>1, <2>2, <2>5, MadeFields DEF Own
<1>3. CASE f \notin c.writes
  <2>1. f \in Stdout(c) /\ Outputs(c)[f] = Made(c)
    BY <1>3 DEF Outputs
  <2> QED BY <1>1, <2>1, ReportIsSound DEF ProbeFed
<1> QED BY <1>2, <1>3

LEMMA PositiveProduct ==
  ASSUME NEW m \in Nat \ {0}, NEW n \in Int, Positive(n)
  PROVE  m * n \in Int /\ Positive(m * n)
<1>1. n \in Nat \ {0}
  BY DEF Positive
<1>2. PICK k \in Nat : k = m - 1
  OBVIOUS
<1>3. m * n = k * n + n
  BY <1>1, <1>2
<1>4. k * n \in Nat
  BY <1>1, <1>2
<1>5. m * n \in Int /\ m * n > 0
  BY <1>1, <1>3, <1>4
<1> QED BY <1>5, NoneAssumption DEF Positive

(* A launch from the init state makes of it as many steps as it is asked.  *)
LEMMA DumpFields ==
  ASSUME NEW req, NEW W, NEW c, Working(req, W, c), LaunchFed(req, W, c),
         NEW n \in Nat \ {0}
  PROVE  LET x == GpuDump(c, n) IN
         /\ x.tool = c.tool /\ x.target = c.about.target /\ x.by = running
         /\ x.shape = <<c.about.shape[1], n * c.about.shape[2]>>
         /\ \A f \in c.writes : x.cfg = NamedCfg(req, f)
         /\ ~SinglePhaseProbe(req) => x.runs = {running}
         /\ x.runs \subseteq 0 .. Len(history)
<1>1. PICK start \in W :
        /\ Dumps(c) = {start} /\ start.kind = "cpu_state" /\ IsRecord(start)
        /\ \A f \in c.writes : NamedCfg(req, f) = NamedCfg(req, start)
  BY DEF LaunchFed
<1>2. (CHOOSE f \in Dumps(c) : TRUE) = start
  BY <1>1
<1>3. start \in c.reads /\ start # None
  BY <1>1 DEF Dumps, Working, Present
<1>4. start \in Here /\ Own(req, start, files[start]) /\ Sound(history, start, files[start])
  BY <1>1, <1>3 DEF Working, Owned, FilesInv
<1>5. files[start].tool = "host_probe"
  BY <1>1, <1>4 DEF Sound, AsNamed
<1>6. c.about.shape[2] \in Int
  BY DEF LaunchFed, Counted
<1>7. GpuDump(c, n) = [Made(c) EXCEPT !.shape = <<c.about.shape[1], 0 + n * c.about.shape[2]>>,
                                      !.cfg = files[start].cfg,
                                      !.runs = {running} \cup files[start].runs]
  BY <1>2, <1>5 DEF GpuDump
<1>8. 0 + n * c.about.shape[2] = n * c.about.shape[2]
  <2>1. n * c.about.shape[2] \in Int
    BY <1>6
  <2> QED BY <2>1
<1> DEFINE x == GpuDump(c, n)
<1>9. /\ x.tool = c.tool /\ x.target = c.about.target /\ x.by = running
      /\ x.shape = <<c.about.shape[1], 0 + n * c.about.shape[2]>>
      /\ x.cfg = files[start].cfg /\ x.runs = {running} \cup files[start].runs
  BY <1>7 DEF Made, Blank
<1> HIDE DEF x
<1>10. \A f \in c.writes : x.cfg = NamedCfg(req, f)
  BY <1>1, <1>4, <1>9 DEF Own, StateKinds
<1>11. ~SinglePhaseProbe(req) => x.runs = {running}
  BY <1>4, <1>9 DEF Own
<1>12. x.runs \subseteq 0 .. Len(history)
  <2>1. Len(history) \in Nat /\ running \in 1 .. Len(history)
    BY RunningIsLast
  <2>2. files[start].runs \subseteq 0 .. Len(history)
    BY <1>4 DEF Sound, Dated
  <2> QED BY <1>9, <2>1, <2>2
<1> QED BY <1>8, <1>9, <1>10, <1>11, <1>12 DEF x

LEMMA LaunchWrites ==
  ASSUME NEW req, NEW W, NEW c, Working(req, W, c),
         c.tool \in {"run_vl_hybrid", "run_vl_hybrid_phases"},
         NEW f \in DOMAIN Outputs(c)
  PROVE  Sound(history, f, Outputs(c)[f]) /\ Own(req, f, Outputs(c)[f]) /\ IsRecord(f)
<1>1. LaunchFed(req, W, c)
  BY FedBy DEF Working
<1>2. Aimed(req, c.about.target) /\ Counted(c.about.shape)
  BY <1>1 DEF LaunchFed
<1>3. CASE f \in c.writes
  <2> DEFINE n == IF c.tool = "run_vl_hybrid" THEN 1 ELSE f.tag[3]
  <2>1. Outputs(c)[f] = GpuDump(c, n)
    BY <1>3 DEF Outputs, Output, Builds
  <2>2. /\ f.kind = "gpu_state" /\ IsRecord(f) /\ f.target = c.about.target
        /\ n \in Nat \ {0}
        /\ NamedShape(f) = <<c.about.shape[1], n * c.about.shape[2]>>
    <3>1. /\ f.kind = "gpu_state" /\ IsRecord(f) /\ f.target = c.about.target
          /\ IF c.tool = "run_vl_hybrid" THEN NamedShape(f) = c.about.shape
             ELSE /\ f.tag[3] \in Nat \ {0}
                  /\ NamedShape(f) = <<c.about.shape[1], f.tag[3] * c.about.shape[2]>>
      BY <1>1, <1>3 DEF LaunchFed
    <3>2. c.about.shape = <<c.about.shape[1], 1 * c.about.shape[2]>>
      BY <1>2 DEF Counted
    <3>3. CASE c.tool = "run_vl_hybrid"
      BY <3>1, <3>2, <3>3
    <3>4. CASE c.tool # "run_vl_hybrid"
      BY <3>1, <3>4
    <3> QED BY <3>3, <3>4
  <2> HIDE DEF n
  <2> DEFINE x == GpuDump(c, n)
  <2>3. /\ x.tool = c.tool /\ x.target = c.about.target /\ x.by = running
        /\ x.shape = <<c.about.shape[1], n * c.about.shape[2]>>
        /\ x.cfg = NamedCfg(req, f)
        /\ ~SinglePhaseProbe(req) => x.runs = {running}
        /\ x.runs \subseteq 0 .. Len(history)
    BY <1>1, <1>3, <2>2, DumpFields
  <2> HIDE DEF x
  <2>4. PositiveShape(x.shape)
    <3>1. Positive(c.about.shape[1]) /\ Positive(c.about.shape[2]) /\ c.about.shape[2] \in Int
      BY <1>2 DEF Counted, PositiveShape
    <3>2. Positive(n * c.about.shape[2])
      BY <2>2, <3>1, PositiveProduct
    <3> QED BY <2>3, <3>1, <3>2 DEF PositiveShape
  <2>5. f.tag[1] = AbiTag => NamedCfg(req, f) = DefaultCfg
    BY DEF NamedCfg
  <2>6. AsNamed(f, x)
    BY <2>2, <2>3, <2>4, <2>5, NotAggregate DEF AsNamed
  <2>7. Dated(history, x) /\ OnTarget(history, x) /\ Unmixed(history, x)
    <3>1. Len(history) \in Nat /\ running \in 1 .. Len(history) /\ history[running] = req
      BY RunningIsLast
    <3>2. Dated(history, x)
      <4>1. running \in 0 .. Len(history) /\ running # 0
        BY <3>1
      <4> QED BY <2>3, <4>1 DEF Dated
    <3>3. OnTarget(history, x)
      BY <1>2, <2>3, <3>1 DEF OnTarget, Aimed
    <3>4. Unmixed(history, x)
      BY <2>3, <3>1 DEF Unmixed
    <3> QED BY <3>2, <3>3, <3>4
  <2>8. Fresh(history, x) /\ Answers(x) /\ Claimed(x)
    BY <2>3, NoClaim
  <2>9. Sound(history, f, x) /\ Own(req, f, x)
    BY <2>3, <2>6, <2>7, <2>8 DEF Sound, Own
  <2> QED BY <2>1, <2>2, <2>9 DEF x
<1>4. CASE f \notin c.writes
  <2>1. f \in Stdout(c) /\ Outputs(c)[f] = Made(c)
    BY <1>4 DEF Outputs
  <2> QED BY <1>1, <1>2, <2>1, ReportIsSound DEF LaunchFed
<1> QED BY <1>3, <1>4

(* What is read of earlier steps is of invocations that were made.         *)
LEMMA RunsAreDated ==
  ASSUME NEW req, NEW W, NEW c, Working(req, W, c), NEW fs, fs \subseteq Here
  PROVE  RunsOf(fs) \subseteq 0 .. Len(history)
<1>1. \A f \in fs : files[f].runs \subseteq 0 .. Len(history)
  BY DEF Working, FilesInv, Sound, Dated
<1> QED BY <1>1 DEF RunsOf

LEMMA RunsAreOwn ==
  ASSUME NEW req, NEW W, NEW c, Working(req, W, c), ~SinglePhaseProbe(req),
         NEW fs, fs \subseteq W, None \notin fs
  PROVE  RunsOf(fs) \subseteq {running} /\ (fs # {} => RunsOf(fs) = {running})
<1>1. \A f \in fs : files[f].runs = {running}
  BY DEF Working, Owned, Own
<1> QED BY <1>1 DEF RunsOf

LEMMA RunningIsDated ==
  ASSUME NEW req, NEW W, NEW c, Working(req, W, c)
  PROVE  /\ running \in 0 .. Len(history) /\ running # 0 /\ running > 0
         /\ history[running] = req
<1>1. Len(history) \in Nat /\ running \in 1 .. Len(history) /\ history[running] = req
  BY RunningIsLast
<1> QED BY <1>1

LEMMA CompareIsSound ==
  ASSUME NEW req, NEW W, NEW c, Working(req, W, c), c.tool = "compare", Readable(c),
         NEW f \in c.writes,
         NEW x \in {CompareReport(c), [CompareReport(c) EXCEPT !.passed = FALSE]}
  PROVE  Sound(history, f, x) /\ Own(req, f, x) /\ IsRecord(f)
<1>1. CompareFed(req, W, c)
  BY FedBy DEF Working
<1>2. /\ x.tool = "compare" /\ x.target = c.about.target /\ x.shape = c.about.shape
      /\ x.by = running /\ x.runs = {running} \cup RunsOf(Dumps(c))
      /\ x.like = \A a, b \in Dumps(c) : /\ files[a].target = files[b].target
                                         /\ files[a].shape = files[b].shape
                                         /\ files[a].cfg = files[b].cfg
  <2> DEFINE alike == \A a, b \in Dumps(c) : /\ files[a].target = files[b].target
                                             /\ files[a].shape = files[b].shape
                                             /\ files[a].cfg = files[b].cfg
             r == CompareReport(c)
  <2>1. r = [Made(c) EXCEPT !.runs = {running} \cup RunsOf(Dumps(c)), !.like = alike]
    BY DEF CompareReport
  <2> HIDE DEF alike
  <2>2. /\ r.tool = c.tool /\ r.target = c.about.target /\ r.shape = c.about.shape
        /\ r.by = running /\ r.runs = {running} \cup RunsOf(Dumps(c)) /\ r.like = alike
    BY <2>1 DEF Made, Blank
  <2>3. r = [Made(c) EXCEPT !.runs = {running} \cup RunsOf(Dumps(c)), !.like = alike]
    BY <2>1
  <2>4. x.tool = r.tool /\ x.target = r.target /\ x.shape = r.shape
        /\ x.by = r.by /\ x.runs = r.runs /\ x.like = r.like
    <3>1. CASE x = r
      BY <3>1
    <3>2. CASE x = [r EXCEPT !.passed = FALSE]
      BY <2>3, <3>2 DEF Made, Blank
    <3> HIDE DEF r
    <3> QED BY <3>1, <3>2 DEF r
  <2> HIDE DEF r
  <2> QED BY <2>2, <2>4 DEF alike
<1>3. Dumps(c) \subseteq Here /\ Dumps(c) \subseteq c.reads /\ None \notin Dumps(c)
  BY DEF Dumps, Readable, Here, Working, Present
<1>4. \A a \in Dumps(c) :
        /\ IsRecord(a) /\ a.kind \in StateKinds
        /\ files[a].target = a.target /\ files[a].shape = NamedShape(a)
        /\ files[a].cfg = NamedCfg(req, a)
  <2> TAKE a \in Dumps(c)
  <2>1. IsRecord(a) /\ a.kind \in StateKinds /\ (a \in W \/ Orphan(req, a))
    BY <1>1 DEF CompareFed, Dumps, StateKinds
  <2>2. AsNamed(a, files[a])
    BY <1>3 DEF Working, FilesInv, Sound
  <2>3. CASE a \in W
    BY <1>3, <2>1, <2>2, <2>3 DEF AsNamed, Working, Owned, Own
  <2>4. CASE Orphan(req, a)
    BY <2>1, <2>2, <2>4 DEF AsNamed, Orphan, NamedCfg
  <2> QED BY <2>1, <2>3, <2>4
<1>5. x.like
  BY <1>1, <1>2, <1>4 DEF CompareFed
<1>6. ~SinglePhaseProbe(req) => x.runs = {running}
  <2>1. ~SinglePhaseProbe(req) => Dumps(c) \subseteq W
    BY <1>1 DEF CompareFed, Orphan
  <2> QED BY <1>2, <1>3, <2>1, RunsAreOwn
<1>7. f.kind = "compare_report" /\ IsRecord(f) /\ Names(f, c.about)
      /\ Aimed(req, c.about.target) /\ Counted(c.about.shape)
  BY <1>1 DEF CompareFed
<1>8. AsNamed(f, x)
  BY <1>2, <1>7, NotAggregate DEF AsNamed, Names, StateKinds, Counted
<1>9. Dated(history, x)
  <2>1. x.runs \subseteq 0 .. Len(history)
    BY <1>2, <1>3, RunsAreDated, RunningIsDated
  <2> QED BY <1>2, <2>1, RunningIsDated DEF Dated
<1>10. Unmixed(history, x)
  BY <1>2, <1>5, <1>6, RunningIsDated DEF Unmixed
<1>11. OnTarget(history, x)
  BY <1>2, <1>7, RunningIsDated DEF OnTarget, Aimed
<1>12. Fresh(history, x) /\ Answers(x) /\ Claimed(x)
  BY <1>2, NoClaim
<1>13. Own(req, f, x)
  BY <1>2, <1>6, <1>7 DEF Own, StateKinds
<1> QED BY <1>7, <1>8, <1>9, <1>10, <1>11, <1>12, <1>13 DEF Sound

LEMMA AggregatesAreRecords ==
  ASSUME NEW f, ~IsRecord(f)
  PROVE  f \notin {ReuseSummary, ProbeSummary}
<1>1. IsRecord(ReuseSummary) /\ IsRecord(ProbeSummary)
  BY DEF IsRecord, ReuseSummary, ProbeSummary, Report, Named
<1> QED BY <1>1

LEMMA BuildWrites ==
  ASSUME NEW req, NEW W, NEW c, Working(req, W, c), c.tool \in Builds,
         NEW f \in DOMAIN Outputs(c)
  PROVE  Sound(history, f, Outputs(c)[f]) /\ ~IsRecord(f)
<1>1. BuildFed(req, c)
  BY FedBy DEF Working
<1>2. f \in c.writes
  BY <1>1 DEF Outputs, Stdout, BuildFed
<1> DEFINE x == [Made(c) EXCEPT !.runs = {}]
<1>3. Outputs(c)[f] = x
  <2>1. Outputs(c)[f] = Output(c, f)
    BY <1>2 DEF Outputs
  <2>2. c.tool \notin {"host_probe", "run_vl_hybrid", "run_vl_hybrid_phases", "compare"}
    BY DEF Builds
  <2> QED BY <2>1, <2>2 DEF Output
<1>4. x.tool = c.tool /\ x.target = c.about.target /\ x.by = running /\ x.runs = {}
  BY DEF Made, Blank
<1> HIDE DEF x
<1>5. ~IsRecord(f) /\ Aimed(req, c.about.target)
  BY <1>1, <1>2 DEF BuildFed
<1>6. AsNamed(f, x)
  BY <1>4, <1>5, AggregatesAreRecords DEF AsNamed, Builds, Measuring
<1>7. Dated(history, x)
  BY <1>4, RunningIsDated DEF Dated
<1>8. Unmixed(history, x) /\ Fresh(history, x) /\ Answers(x) /\ Claimed(x)
  BY <1>4, NoClaim DEF Unmixed, Builds, Recorders, Measuring
<1>9. OnTarget(history, x)
  BY <1>4, <1>5, RunningIsDated DEF OnTarget, Aimed
<1> QED BY <1>3, <1>5, <1>6, <1>7, <1>8, <1>9 DEF Sound

LEMMA SummaryFields ==
  ASSUME NEW c
  PROVE  /\ Summary(c).tool = c.tool /\ Summary(c).target = c.about.target
         /\ Summary(c).by = running /\ Summary(c).runs = RunsOf(c.reads)
         /\ Summary(c).parts = c.reads
BY DEF Summary, Made, Blank

LEMMA SummarizeWrites ==
  ASSUME NEW req, NEW W, NEW c, Working(req, W, c), c.tool = "summarize", Readable(c),
         NEW f \in c.writes
  PROVE  Sound(history, f, ScriptReport(c)) /\ Own(req, f, ScriptReport(c)) /\ IsRecord(f)
<1>1. SummarizeFed(req, W, c)
  BY FedBy DEF Working
<1> DEFINE x == Summary(c)
<1>2. ScriptReport(c) = x
  BY DEF ScriptReport
<1>3. /\ x.tool = "summarize" /\ x.target = c.about.target
      /\ x.by = running /\ x.runs = RunsOf(c.reads)
  BY SummaryFields
<1> HIDE DEF x
<1>4. /\ f.kind = "summary" /\ IsRecord(f)
      /\ f \in {ReuseSummary, ProbeSummary} => c.about.target = Mha
      /\ Aimed(req, c.about.target) /\ c.reads # {} /\ c.reads \subseteq W
  BY <1>1 DEF SummarizeFed
<1>5. AsNamed(f, x)
  BY <1>3, <1>4 DEF AsNamed, Measuring, StateKinds
<1>6. c.reads \subseteq Here /\ None \notin c.reads
  BY DEF Readable, Here, Working, Present
<1>7. Dated(history, x)
  BY <1>3, <1>6, RunsAreDated, RunningIsDated DEF Dated
<1>8. ~SinglePhaseProbe(req) => x.runs = {running}
  BY <1>3, <1>4, <1>6, RunsAreOwn
<1>9. Unmixed(history, x)
  BY <1>3, <1>8, RunningIsDated DEF Unmixed
<1>10. OnTarget(history, x) /\ Fresh(history, x) /\ Answers(x) /\ Claimed(x)
  BY <1>3, <1>4, NoClaim, RunningIsDated DEF OnTarget, Aimed
<1>11. Own(req, f, x)
  BY <1>3, <1>4, <1>8 DEF Own, StateKinds
<1> QED BY <1>2, <1>4, <1>5, <1>7, <1>9, <1>10, <1>11 DEF Sound

LEMMA DatasetWrites ==
  ASSUME NEW req, NEW W, NEW c, Working(req, W, c), Readable(c),
         c.tool \in {"plan_predictions", "accuracy", "eval_summary", "preflight"},
         NEW f \in c.writes
  PROVE  Sound(history, f, ScriptReport(c)) /\ ~IsRecord(f)
<1>1. DatasetFed(req, c)
  BY FedBy DEF Working
<1> DEFINE x == ScriptReport(c)
<1>2. x.tool = c.tool /\ x.target = c.about.target /\ x.by = running
      /\ x.runs \in {{running}, RunsOf(c.reads)}
  <2>1. CASE c.tool \in {"plan_predictions", "preflight"}
    <3>1. x = [Made(c) EXCEPT !.passed = FALSE]
      BY <2>1 DEF ScriptReport
    <3> QED BY <3>1 DEF Made, Blank
  <2>2. CASE c.tool = "accuracy"
    <3>1. x = [Summary(c) EXCEPT !.passed = files[Predictions].passed]
      BY <2>2 DEF ScriptReport, ComputeAccuracy
    <3> QED BY <3>1 DEF Summary, Made, Blank
  <2>3. CASE c.tool = "eval_summary"
    <3>1. x = HybridImagenetSummary(c)
      BY <2>3 DEF ScriptReport
    <3> QED BY <3>1 DEF HybridImagenetSummary, Summary, Made, Blank
  <2> QED BY <2>1, <2>2, <2>3
<1>3. c.tool = "eval_summary" /\ x.passed => x.parts = c.reads /\ c.reads \ {Accuracy} # {}
  <2> SUFFICES ASSUME c.tool = "eval_summary", x.passed
               PROVE  x.parts = c.reads /\ c.reads \ {Accuracy} # {}
    OBVIOUS
  <2>1. x = HybridImagenetSummary(c)
    BY DEF ScriptReport
  <2> DEFINE passed == /\ c.reads \ {Accuracy} # {}
                       /\ \A g \in c.reads \ {Accuracy} : files[g].passed
                       /\ files[Accuracy].passed
  <2>2. x = [Summary(c) EXCEPT !.passed = passed]
    BY <2>1 DEF HybridImagenetSummary
  <2> HIDE DEF passed, x
  <2>3. x.passed = passed /\ x.parts = c.reads
    BY <2>2 DEF Summary, Made, Blank
  <2> QED BY <2>3 DEF passed
<1> HIDE DEF x
<1>4. ~IsRecord(f) /\ Aimed(req, c.about.target)
  BY <1>1 DEF DatasetFed
<1>5. AsNamed(f, x)
  BY <1>2, <1>4, AggregatesAreRecords DEF AsNamed, Measuring
<1>6. Dated(history, x)
  <2>1. c.reads \subseteq Here
    BY DEF Readable, Here
  <2>2. x.runs \subseteq 0 .. Len(history)
    BY <1>2, <2>1, RunsAreDated, RunningIsDated
  <2> QED BY <1>2, <2>2, RunningIsDated DEF Dated
<1>7. Unmixed(history, x) /\ Fresh(history, x) /\ Answers(x)
  BY <1>2 DEF Unmixed, Fresh, Answers, Recorders, Measuring
<1>8. OnTarget(history, x)
  BY <1>2, <1>4, RunningIsDated DEF OnTarget, Aimed
<1>9. Claimed(x)
  <2> SUFFICES ASSUME x.tool = "eval_summary", x.passed
               PROVE  \E size \in Nat \ {0} : x.parts = {Accuracy} \cup BatchReports(size)
    BY DEF Claimed
  <2>1. \/ c.reads = {Accuracy}
        \/ \E size \in Nat \ {0} : c.reads = {Accuracy} \cup BatchReports(size)
    BY <1>1, <1>2 DEF DatasetFed
  <2> QED BY <1>2, <1>3, <2>1
<1> QED BY <1>4, <1>5, <1>6, <1>7, <1>8, <1>9 DEF Sound, x

LEMMA EvidenceCollected ==
  ASSUME NEW about, EvidenceSummary(about).status = "collected"
  PROVE  LET content == files[about.report] IN
         /\ about.report \in Here
         /\ EvidenceSummary(about) = Evidence("collected", content)
         /\ about.checked => content.shape = about.asked.shape /\ content.cfg = about.asked.phases
<1> DEFINE content == files[about.report]
           status == IF about.checked /\ ( \/ content.shape # about.asked.shape
                                           \/ content.cfg # about.asked.phases)
                     THEN "mismatched_summary" ELSE "collected"
<1>1. CASE ~Collects(about.execution)
  <2>1. EvidenceSummary(about) = Evidence("not_collected", Blank)
    BY <1>1 DEF EvidenceSummary
  <2> QED BY <2>1 DEF Evidence
<1>2. CASE Collects(about.execution) /\ about.report \notin DOMAIN files
  <2>1. EvidenceSummary(about) = Evidence("missing", Blank)
    BY <1>2 DEF EvidenceSummary
  <2> QED BY <2>1 DEF Evidence
<1>3. CASE Collects(about.execution) /\ about.report \in DOMAIN files
  <2>1. EvidenceSummary(about) = Evidence(status, content)
    BY <1>3 DEF EvidenceSummary
  <2>2. EvidenceSummary(about).status = status
    BY <2>1 DEF Evidence
  <2> QED BY <1>3, <2>1, <2>2 DEF Here
<1> QED BY <1>1, <1>2, <1>3

LEMMA BenchmarkWrites ==
  ASSUME NEW req, NEW W, NEW c, Working(req, W, c), c.tool = "benchmark_summary",
         NEW f \in c.writes
  PROVE  Sound(history, f, BenchmarkSummary(c)) /\ ~IsRecord(f)
<1>1. SummaryFed(req, W, c)
  BY FedBy DEF Working
<1> DEFINE x == BenchmarkSummary(c)
<1>2. /\ x.tool = "benchmark_summary" /\ x.by = running /\ x.runs = RunsOf(Observed(c))
      /\ x.evidence = [asked |-> c.about.asked, execution |-> c.about.execution,
                       found |-> EvidenceSummary(c.about)]
  BY DEF BenchmarkSummary, Blank
<1> HIDE DEF x
<1>3. ~IsRecord(f) /\ Evident(c.about)
  BY <1>1 DEF SummaryFed
<1>4. AsNamed(f, x)
  BY <1>2, <1>3, AggregatesAreRecords DEF AsNamed, Measuring
<1>5. Observed(c) \subseteq Here /\ Observed(c) \subseteq c.reads
  BY DEF Observed, Here
<1>6. Dated(history, x)
  BY <1>2, <1>5, RunsAreDated, RunningIsDated DEF Dated
<1>7. Unmixed(history, x) /\ Claimed(x)
  BY <1>2 DEF Unmixed, Claimed, Recorders, Measuring
<1>8. OnTarget(history, x)
  BY <1>2 DEF OnTarget
<1> DEFINE found == EvidenceSummary(c.about)
           content == files[c.about.report]
<1>9. found.status = "collected" =>
        /\ c.about.report \in Here
        /\ found.target = content.target /\ found.shape = content.shape
        /\ found.phases = content.cfg /\ found.runs = content.runs
        /\ c.about.checked =>
             content.shape = c.about.asked.shape /\ content.cfg = c.about.asked.phases
  BY EvidenceCollected DEF Evidence
<1>10. x.evidence.found = found /\ x.evidence.asked = c.about.asked
       /\ x.evidence.execution = c.about.execution
  BY <1>2
<1> HIDE DEF found
<1>11. Fresh(history, x)
  <2> SUFFICES ASSUME c.about.execution = "executed", found.status = "collected",
                      ~SinglePhaseProbe(req)
               PROVE  found.runs = {running} /\ x.runs \subseteq {running}
    BY <1>2, <1>10, RunningIsDated DEF Fresh
  <2>1. c.reads \subseteq W /\ c.about.report \in W
    BY <1>1 DEF SummaryFed
  <2>2. None \notin c.reads /\ c.about.report # None
    BY DEF Working, Present
  <2>3. content.runs = {running}
    BY <2>1, <2>2 DEF Working, Owned, Own
  <2>4. x.runs \subseteq {running}
    BY <1>2, <1>5, <2>1, <2>2, RunsAreOwn
  <2> QED BY <1>9, <2>3, <2>4
<1>12. Answers(x)
  <2> DEFINE asked == c.about.asked
             slice == Registry[asked.target].kind = "slice"
             target == Payloads[Registry[asked.target].template].target
  <2> SUFFICES ASSUME found.status = "collected"
               PROVE  /\ slice => found.target = target /\ found.shape = asked.shape
                      /\ asked.mode # "template" => found.phases = asked.phases
    BY <1>2, <1>10 DEF Answers
  <2>1. AsNamed(c.about.report, content)
    BY <1>9 DEF Working, FilesInv, Sound
  <2>2. CASE asked.mode # "template"
    <3>1. /\ c.about.checked /\ target = Mha
          /\ c.about.report \in {ReuseSummary, ProbeSummary}
      BY <1>3, <2>2 DEF Evident
    <3>2. content.target = Mha
      BY <2>1, <3>1 DEF AsNamed
    <3> QED BY <1>9, <3>1, <3>2
  <2>3. CASE asked.mode = "template" /\ slice
    <3>1. /\ c.about.report.kind = "compare_report" /\ c.about.report.tag = Plain
          /\ c.about.report.target = target /\ c.about.report.shape = asked.shape
      BY <1>3, <2>3 DEF Evident
    <3>2. IsRecord(c.about.report) /\ NamedShape(c.about.report) = c.about.report.shape
      <4>1. c.about.report.tag[1] = ""
        <5>1. Plain[1] = ""
          BY DEF Plain
        <5> QED BY <3>1, <5>1
      <4> QED BY <3>1, <4>1 DEF IsRecord, NamedShape, AbiTag
    <3>3. content.target = target /\ content.shape = asked.shape
      BY <2>1, <3>1, <3>2 DEF AsNamed
    <3> QED BY <1>9, <2>3, <3>3
  <2> QED BY <2>2, <2>3
<1> QED BY <1>3, <1>4, <1>6, <1>7, <1>8, <1>11, <1>12 DEF Sound, x

(* The files of every step left are named, none of them the absent one.    *)
AllPresent(s) == \A i \in 1 .. Len(s) : Present(s[i])

Proceeding(req, W) ==
  /\ req = history[running]
  /\ Good(req, W, todo) /\ AllPresent(todo)
  /\ Owned(req, W)

FlowInv == running > 0 => \E req, W : Proceeding(req, W)

Scripted ==
  \A req \in Asks : Steps(req) # None =>
    Good(req, {}, Steps(req)) /\ AllPresent(Steps(req))

(* A sound file stays so when another invocation begins.                   *)
LEMMA SoundAppended ==
  ASSUME NEW h \in Seq(Asks), NEW req \in Asks, NEW f, NEW x, Sound(h, f, x)
  PROVE  Sound(Append(h, req), f, x)
<1> DEFINE g == Append(h, req)
<1>1. Len(h) \in Nat /\ Len(g) = Len(h) + 1 /\ \A i \in 1 .. Len(h) : g[i] = h[i]
  OBVIOUS
<1> HIDE DEF g
<1>2. Dated(h, x)
  BY DEF Sound
<1>3. Dated(g, x)
  <2>1. 0 .. Len(h) \subseteq 0 .. Len(g)
    BY <1>1
  <2> QED BY <1>2, <2>1 DEF Dated
<1>4. x.by # 0 => g[x.by] = h[x.by] /\ x.by > 0
  <2>1. x.by \in 0 .. Len(h)
    BY <1>2 DEF Dated
  <2> QED BY <1>1, <2>1
<1>5. x.by = 0 => x.tool # "benchmark_summary" /\ ~(x.by > 0)
  <2>1. "benchmark_summary" \notin Builds \cup {""}
    BY DEF Builds
  <2>2. x.by = 0 => x.tool # "benchmark_summary"
    BY <1>2, <2>1 DEF Dated
  <2>3. x.by = 0 => ~(x.by > 0)
    OBVIOUS
  <2> QED BY <2>2, <2>3
<1>6. Unmixed(g, x)
  <2>1. Unmixed(h, x)
    BY DEF Sound
  <2> QED BY <1>4, <1>5, <2>1 DEF Unmixed
<1>7. Fresh(g, x)
  <2>1. Fresh(h, x)
    BY DEF Sound
  <2> QED BY <1>4, <1>5, <2>1 DEF Fresh
<1>8. OnTarget(g, x)
  <2>1. OnTarget(h, x)
    BY DEF Sound
  <2> QED BY <1>4, <1>5, <2>1 DEF OnTarget
<1>9. AsNamed(f, x) /\ Answers(x) /\ Claimed(x)
  BY DEF Sound
<1> QED BY <1>3, <1>6, <1>7, <1>8, <1>9 DEF Sound, g

LEMMA InitFlows == Init => FilesInv /\ FlowInv
<1> SUFFICES ASSUME Init PROVE FilesInv /\ FlowInv
  OBVIOUS
<1>1. history = <<>> /\ Len(history) = 0 /\ running = 0 /\ files \in Places
  BY DEF Init
<1>2. ASSUME NEW f \in Here PROVE Sound(history, f, files[f])
  <2> DEFINE x == files[f]
  <2>1. /\ x.by = 0 /\ x.runs = {} /\ x.tool \in Builds
        /\ f.kind \in {"model", "probe", "cubin"} \/ f \in {Manifest, Predictions}
    BY <1>1, <1>2, PlacesAssumption DEF Here
  <2> HIDE DEF x
  <2>2. ~IsRecord(f)
    <3>1. CASE f.kind \in {"model", "probe", "cubin"}
      BY <3>1 DEF IsRecord, StateKinds
    <3>2. CASE f \in {Manifest, Predictions}
      <4>1. Manifest.tag[1] = "mobile_vit" /\ Predictions.tag[1] = "mobile_vit"
        BY DEF Manifest, Predictions, Report, Named
      <4> QED BY <3>2, <4>1 DEF IsRecord
    <3> QED BY <2>1, <3>1, <3>2
  <2>3. AsNamed(f, x)
    BY <2>1, <2>2, AggregatesAreRecords DEF AsNamed, Builds, Measuring
  <2>4. Dated(history, x)
    <3>1. 0 \in 0 .. Len(history)
      BY <1>1
    <3> QED BY <2>1, <3>1 DEF Dated
  <2>5. Unmixed(history, x) /\ OnTarget(history, x)
    BY <2>1 DEF Unmixed, OnTarget, Builds
  <2>6. Fresh(history, x) /\ Answers(x) /\ Claimed(x)
    BY <2>1, NoClaim DEF Builds
  <2> QED BY <2>3, <2>4, <2>5, <2>6 DEF Sound, x
<1> QED BY <1>1, <1>2 DEF FilesInv, FlowInv

(* Files that are overwritten soundly.                                     *)
LEMMA StillSound ==
  ASSUME NEW written, files' = Overwritten(written), UNCHANGED history, FilesInv,
         \A f \in DOMAIN written : Sound(history, f, written[f])
  PROVE  FilesInv'
<1>1. DOMAIN files' = DOMAIN written \cup DOMAIN files
  BY DEF Overwritten
<1>2. \A f \in DOMAIN files' :
        files'[f] = IF f \in DOMAIN written THEN written[f] ELSE files[f]
  BY DEF Overwritten
<1>3. \A f \in DOMAIN files' : Sound(history, f, files'[f])
  BY <1>1, <1>2 DEF FilesInv, Here
<1> QED BY <1>3 DEF FilesInv, Here

(* What the invocation has stays its own, with what a step adds to it.     *)
LEMMA StillOwned ==
  ASSUME NEW req, NEW W, NEW V, NEW written, files' = Overwritten(written),
         UNCHANGED running, Owned(req, W),
         \A f \in DOMAIN written : IsRecord(f) => Own(req, f, written[f]),
         \A f \in V : f # None => f \in DOMAIN written /\ IsRecord(f)
  PROVE  Owned(req, W \cup V)'
<1>1. DOMAIN files' = DOMAIN written \cup DOMAIN files
  BY DEF Overwritten
<1>2. \A f \in DOMAIN files' :
        files'[f] = IF f \in DOMAIN written THEN written[f] ELSE files[f]
  BY DEF Overwritten
<1>3. ASSUME NEW f \in W \cup V, f # None
      PROVE  f \in DOMAIN files' /\ IsRecord(f) /\ Own(req, f, files'[f])
  <2>1. CASE f \in DOMAIN written
    <3>1. IsRecord(f)
      BY <1>3 DEF Owned
    <3> QED BY <1>1, <1>2, <2>1, <3>1
  <2>2. CASE f \notin DOMAIN written
    BY <1>1, <1>2, <1>3, <2>2 DEF Owned, Here
  <2> QED BY <2>1, <2>2
<1> QED BY <1>3 DEF Owned, Here, Own

LEMMA Successor ==
  ASSUME NEW req, NEW W, Proceeding(req, W), todo # <<>>,
         NEW c, c = Current, c.tool # "raise",
         todo' = Tail(todo), UNCHANGED <<history, running>>, Owned(req, W \cup Left(c))'
  PROVE  Proceeding(req, W \cup Left(c))'
<1>1. c = Head(todo)
  BY DEF Current
<1>2. Good(req, W \cup Left(c), Tail(todo))
  BY <1>1, GoodFirst DEF Proceeding
<1>3. AllPresent(Tail(todo))
  <2>1. IsSequence(todo)
    BY DEF Proceeding, Good
  <2>2. todo \in Seq(Elements(todo)) /\ Len(todo) \in Nat \ {0}
    BY <2>1 DEF IsSequence
  <2>3. \A i \in 1 .. Len(Tail(todo)) : i + 1 \in 1 .. Len(todo) /\ Tail(todo)[i] = todo[i + 1]
    BY <2>2
  <2> QED BY <2>3 DEF Proceeding, AllPresent
<1>4. Good(req, W \cup Left(c), todo')
  BY <1>2
<1>5. AllPresent(todo')
  BY <1>3
<1> QED BY <1>4, <1>5 DEF Proceeding, AllPresent, Good, IsSequence, Elements

LEMMA AtWork ==
  ASSUME NEW req, NEW W, Proceeding(req, W), Numbered, FilesInv, InProgress,
         NEW c, c = Current
  PROVE  Working(req, W, c)
<1>1. todo # <<>> /\ running > 0 /\ c = Head(todo)
  BY DEF InProgress, AtRest, Current, Numbered
<1>2. Fed(req, W, c)
  BY <1>1, GoodFirst DEF Proceeding
<1>3. Present(c)
  <2>1. todo \in Seq(Elements(todo)) /\ Len(todo) \in Nat \ {0} /\ Head(todo) = todo[1]
    BY <1>1 DEF Proceeding, Good, IsSequence
  <2>2. 1 \in 1 .. Len(todo)
    BY <2>1
  <2> QED BY <1>1, <2>1, <2>2 DEF Proceeding, AllPresent
<1> QED BY <1>1, <1>2, <1>3 DEF Working, Proceeding

LEMMA ProgramWrites ==
  ASSUME NEW req, NEW W, NEW c, Working(req, W, c), c.tool \in Programs, Readable(c)
  PROVE  /\ \A f \in DOMAIN Outputs(c) : Sound(history, f, Outputs(c)[f])
         /\ \A f \in DOMAIN Outputs(c) : IsRecord(f) => Own(req, f, Outputs(c)[f])
         /\ \A f \in Left(c) : f # None => f \in DOMAIN Outputs(c) /\ IsRecord(f)
<1>1. \A f \in Left(c) : f # None => f \in DOMAIN Outputs(c)
  BY DEF Left, Outputs, Stdout
<1>2. CASE c.tool \in Builds
  <2>1. Left(c) = {}
    BY <1>2 DEF Left, Builds, Recorders, Measuring
  <2> QED BY <1>2, <2>1, BuildWrites
<1>3. CASE c.tool = "host_probe"
  BY <1>1, <1>3, ProbeWrites
<1>4. CASE c.tool \in {"run_vl_hybrid", "run_vl_hybrid_phases"}
  BY <1>1, <1>4, LaunchWrites
<1>5. CASE c.tool = "compare"
  <2>1. CompareFed(req, W, c)
    BY <1>5, FedBy DEF Working
  <2>2. \A f \in DOMAIN Outputs(c) : f \in c.writes /\ Outputs(c)[f] = CompareReport(c)
    <3>1. \A f \in DOMAIN Outputs(c) : f \in c.writes
      BY <2>1 DEF Outputs, Stdout, CompareFed
    <3>2. \A f \in c.writes : Outputs(c)[f] = Output(c, f)
      BY DEF Outputs
    <3>3. \A f : Output(c, f) = CompareReport(c)
      BY <1>5 DEF Output, Builds
    <3> QED BY <3>1, <3>2, <3>3
  <2>3. \A f \in c.writes :
          Sound(history, f, CompareReport(c)) /\ Own(req, f, CompareReport(c)) /\ IsRecord(f)
    <3>1. \A f \in c.writes, x \in {CompareReport(c), [CompareReport(c) EXCEPT !.passed = FALSE]} :
            Sound(history, f, x) /\ Own(req, f, x) /\ IsRecord(f)
      BY <1>5, CompareIsSound
    <3> QED BY <3>1
  <2>4. \A f \in Left(c) : f # None => f \in DOMAIN Outputs(c) /\ IsRecord(f)
    <3>1. \A f \in Left(c) : f # None => f \in c.writes
      BY <2>1 DEF Left, CompareFed
    <3> QED BY <1>1, <2>3, <3>1
  <2> QED BY <2>2, <2>3, <2>4
<1> QED BY <1>2, <1>3, <1>4, <1>5 DEF Programs

(* Every action keeps the files sound and the running invocation fed.      *)
LEMMA FlowStep ==
  Numbered /\ FilesInv /\ FlowInv /\ Scripted /\ [Next]_campaignVars => FilesInv' /\ FlowInv'
<1> SUFFICES ASSUME Numbered, FilesInv, FlowInv, Scripted, [Next]_campaignVars
             PROVE  FilesInv' /\ FlowInv'
  OBVIOUS
<1>0. Len(history) \in Nat
  BY DEF Numbered
<1>1. ASSUME UNCHANGED <<files, history>>, running' = 0 PROVE FilesInv' /\ FlowInv'
  BY <1>1 DEF FilesInv, FlowInv, Here
<1>2. ASSUME NEW written, files' = Overwritten(written), UNCHANGED history, running' = 0,
             \A f \in DOMAIN written : Sound(history, f, written[f])
      PROVE  FilesInv' /\ FlowInv'
  BY <1>2, StillSound DEF FlowInv
<1>3. ASSUME NEW req, NEW W, Proceeding(req, W), NEW c, c = Current, InProgress,
             c.tool # "raise", NEW written, files' = Overwritten(written),
             UNCHANGED <<history, running>>, todo' = Tail(todo),
             \A f \in DOMAIN written : Sound(history, f, written[f]),
             \A f \in DOMAIN written : IsRecord(f) => Own(req, f, written[f]),
             \A f \in Left(c) : f # None => f \in DOMAIN written /\ IsRecord(f)
      PROVE  FilesInv' /\ FlowInv'
  <2>1. FilesInv'
    BY <1>3, StillSound
  <2>2. Owned(req, W)
    BY <1>3 DEF Proceeding
  <2>3. Owned(req, W \cup Left(c))'
    BY <1>3, <2>2, StillOwned
  <2>4. Proceeding(req, W \cup Left(c))'
    BY <1>3, <2>3, Successor DEF InProgress
  <2> QED BY <2>1, <2>4 DEF FlowInv
<1>4. ASSUME InProgress
      PROVE  \E req, W, c : Proceeding(req, W) /\ c = Current /\ Working(req, W, c)
  <2>1. running > 0
    BY <1>4 DEF InProgress, AtRest, Numbered
  <2>2. PICK req, W : Proceeding(req, W)
    BY <2>1 DEF FlowInv
  <2>3. PICK c : c = Current
    OBVIOUS
  <2> QED BY <1>4, <2>2, <2>3, AtWork
<1>5. ASSUME NEW req \in Asks, Answer(req, Script[req]) PROVE FilesInv' /\ FlowInv'
  <2>1. CASE Accept(req, Script[req])
    <3>1. /\ history' = Append(history, req) /\ running' = Len(history') /\ UNCHANGED files
          /\ todo' = Steps(req) /\ Steps(req) # None
      BY <1>5, <2>1 DEF Accept, Script
    <3>2. history \in Seq(Asks)
      BY DEF Numbered
    <3>3. \A f \in Here : Sound(history', f, files[f])
      BY <3>1, <3>2, SoundAppended DEF FilesInv
    <3>4. FilesInv'
      BY <3>1, <3>3 DEF FilesInv, Here
    <3>5. history'[running'] = req
      BY <1>0, <3>1, <3>2
    <3>6. Good(req, {}, todo') /\ AllPresent(todo')
      BY <3>1 DEF Scripted
    <3>7. Proceeding(req, {})'
      <4>1. Owned(req, {})'
        BY DEF Owned
      <4>2. (req = history[running])'
        BY <3>5
      <4>3. Good(req, {}, todo)' /\ AllPresent(todo)'
        BY <3>6
      <4> QED BY <4>1, <4>2, <4>3 DEF Proceeding
    <3> QED BY <3>4, <3>7 DEF FlowInv
  <2>2. CASE Refuse(Script[req])
    BY <1>1, <2>2 DEF Refuse, AtRest
  <2> QED BY <1>5, <2>1, <2>2 DEF Answer
<1>6. CASE RunProgram
  <2>1. /\ InProgress /\ Current.tool \in Programs /\ Readable(Current)
        /\ files' = Overwritten(Outputs(Current)) /\ todo' = Tail(todo)
        /\ UNCHANGED <<history, running>>
    BY <1>6 DEF RunProgram, Proceed
  <2>2. PICK req, W, c : Proceeding(req, W) /\ c = Current /\ Working(req, W, c)
    BY <1>4, <2>1
  <2>3. c.tool # "raise"
    BY <2>1, <2>2 DEF Programs, Builds
  <2>4. /\ \A f \in DOMAIN Outputs(c) : Sound(history, f, Outputs(c)[f])
        /\ \A f \in DOMAIN Outputs(c) : IsRecord(f) => Own(req, f, Outputs(c)[f])
        /\ \A f \in Left(c) : f # None => f \in DOMAIN Outputs(c) /\ IsRecord(f)
    BY <2>1, <2>2, ProgramWrites
  <2>5. files' = Overwritten(Outputs(c))
    BY <2>1, <2>2
  <2> QED BY <1>3, <2>1, <2>2, <2>3, <2>4, <2>5
<1>7. CASE RejectCompare
  <2> DEFINE x == [CompareReport(Current) EXCEPT !.passed = FALSE]
             written == [f \in Current.writes |-> x]
  <2>1. /\ InProgress /\ Current.tool = "compare" /\ Readable(Current)
        /\ files' = Overwritten(written) /\ running' = 0 /\ UNCHANGED history
    BY <1>7 DEF RejectCompare, Stop
  <2>2. PICK req, W, c : Proceeding(req, W) /\ c = Current /\ Working(req, W, c)
    BY <1>4, <2>1
  <2>3. \A f \in c.writes : Sound(history, f, [CompareReport(c) EXCEPT !.passed = FALSE])
    BY <2>1, <2>2, CompareIsSound
  <2>4. \A f \in DOMAIN written : Sound(history, f, written[f])
    BY <2>2, <2>3
  <2> HIDE DEF written
  <2> QED BY <1>2, <2>1, <2>4
<1>8. CASE FailProgram
  <2> DEFINE written == [f \in Stdout(Current) |-> Truncated]
  <2>1. /\ InProgress /\ Current.tool \in Programs
        /\ files' = Overwritten(written) /\ running' = 0 /\ UNCHANGED history
    BY <1>8 DEF FailProgram, ProgramFails, Stop
  <2>2. PICK req, W, c : Proceeding(req, W) /\ c = Current /\ Working(req, W, c)
    BY <1>4, <2>1
  <2>3. \A f \in Stdout(c) : f.kind \in {"cpu_report", "hybrid_report"}
    BY <2>1, <2>2, FedBy
    DEF Working, Programs, ProbeFed, LaunchFed, CompareFed, BuildFed, Stdout
  <2>4. /\ Truncated.by = 0 /\ Truncated.runs = {} /\ Truncated.tool = ""
    BY DEF Truncated, Blank
  <2>5. \A f \in Stdout(c) : AsNamed(f, Truncated)
    BY <2>3, <2>4, NotAggregate DEF AsNamed, Measuring, StateKinds
  <2>6. Dated(history, Truncated)
    <3>1. 0 \in 0 .. Len(history)
      BY <1>0
    <3> QED BY <2>4, <3>1 DEF Dated
  <2>7. Unmixed(history, Truncated) /\ OnTarget(history, Truncated)
    <3>1. ~(Truncated.by > 0)
      <4>1. ~(0 > 0)
        OBVIOUS
      <4> QED BY <2>4, <4>1
    <3>2. Truncated.tool # "compare"
      BY <2>4
    <3> QED BY <3>1, <3>2 DEF Unmixed, OnTarget
  <2>8. Fresh(history, Truncated) /\ Answers(Truncated) /\ Claimed(Truncated)
    BY <2>4, NoClaim
  <2>9. \A f \in DOMAIN written : Sound(history, f, written[f])
    BY <2>2, <2>5, <2>6, <2>7, <2>8 DEF Sound
  <2> HIDE DEF written
  <2> QED BY <1>2, <2>1, <2>9
<1>9. CASE WriteReport
  <2> DEFINE written == [f \in Current.writes |-> ScriptReport(Current)]
  <2>1. /\ InProgress /\ Current.tool \in ScriptReports /\ Readable(Current)
        /\ files' = Overwritten(written) /\ todo' = Tail(todo) /\ UNCHANGED <<history, running>>
    BY <1>9 DEF WriteReport, Proceed
  <2>2. PICK req, W, c : Proceeding(req, W) /\ c = Current /\ Working(req, W, c)
    BY <1>4, <2>1
  <2>3. c.tool # "raise"
    BY <2>1, <2>2 DEF ScriptReports
  <2>4. \A f \in c.writes : Sound(history, f, ScriptReport(c))
                            /\ (IsRecord(f) => Own(req, f, ScriptReport(c)))
    BY <2>1, <2>2, SummarizeWrites, DatasetWrites DEF ScriptReports
  <2>5. \A f \in Left(c) : f # None => f \in c.writes /\ IsRecord(f)
    <3>1. CASE c.tool = "summarize"
      <4>1. SummarizeFed(req, W, c)
        BY <2>2, <3>1, FedBy DEF Working
      <4> QED BY <4>1 DEF SummarizeFed, Left
    <3>2. CASE c.tool # "summarize"
      BY <2>1, <2>2, <3>2 DEF Left, ScriptReports, Recorders, Measuring
    <3> QED BY <3>1, <3>2
  <2>6. /\ \A f \in DOMAIN written : Sound(history, f, written[f])
        /\ \A f \in DOMAIN written : IsRecord(f) => Own(req, f, written[f])
        /\ \A f \in Left(c) : f # None => f \in DOMAIN written /\ IsRecord(f)
    BY <2>2, <2>4, <2>5
  <2> HIDE DEF written
  <2> QED BY <1>3, <2>1, <2>2, <2>3, <2>6
<1>10. CASE WriteBenchmarkSummary
  <2> DEFINE written == [f \in Current.writes |-> BenchmarkSummary(Current)]
  <2>1. /\ InProgress /\ Current.tool = "benchmark_summary"
        /\ files' = Overwritten(written) /\ todo' = Tail(todo) /\ UNCHANGED <<history, running>>
    BY <1>10 DEF WriteBenchmarkSummary, Proceed
  <2>2. PICK req, W, c : Proceeding(req, W) /\ c = Current /\ Working(req, W, c)
    BY <1>4, <2>1
  <2>3. \A f \in c.writes : Sound(history, f, BenchmarkSummary(c)) /\ ~IsRecord(f)
    BY <2>1, <2>2, BenchmarkWrites
  <2>4. Left(c) = {} /\ c.tool # "raise"
    BY <2>1, <2>2 DEF Left, Recorders, Measuring
  <2>5. /\ \A f \in DOMAIN written : Sound(history, f, written[f])
        /\ \A f \in DOMAIN written : IsRecord(f) => Own(req, f, written[f])
        /\ \A f \in Left(c) : f # None => f \in DOMAIN written /\ IsRecord(f)
    BY <2>2, <2>3, <2>4
  <2> HIDE DEF written
  <2> QED BY <1>3, <2>1, <2>2, <2>4, <2>5
<1>11. CASE MakeEstimate
  <2>1. /\ InProgress /\ Current.tool = "estimate" /\ todo' = Tail(todo)
        /\ UNCHANGED <<files, history, running>>
    BY <1>11 DEF MakeEstimate, Proceed
  <2>2. PICK req, W, c : Proceeding(req, W) /\ c = Current /\ Working(req, W, c)
    BY <1>4, <2>1
  <2>3. Left(c) = {} /\ c.tool # "raise"
    BY <2>1, <2>2 DEF Left, Recorders, Measuring
  <2>4. Owned(req, W)'
    BY <2>1, <2>2 DEF Proceeding, Owned, Own, Here
  <2>5. Proceeding(req, W \cup Left(c))'
    <3>1. W \cup Left(c) = W
      BY <2>3
    <3>2. Owned(req, W \cup Left(c))'
      BY <2>4, <3>1
    <3> QED BY <2>1, <2>2, <2>3, <3>2, Successor DEF InProgress
  <2>6. FilesInv'
    BY <2>1 DEF FilesInv, Here
  <2> QED BY <2>5, <2>6 DEF FlowInv
<1>12. CASE ScriptRaises \/ ExitsNotReady \/ Finish
  BY <1>1, <1>12 DEF ScriptRaises, ExitsNotReady, Finish, Stop
<1>13. CASE UNCHANGED campaignVars
  <2>1. UNCHANGED <<files, todo, running, history>>
    BY <1>13 DEF campaignVars
  <2>2. FilesInv'
    BY <2>1 DEF FilesInv, Here
  <2>3. ASSUME running' > 0 PROVE \E req, W : Proceeding(req, W)'
    <3>1. PICK req, W : Proceeding(req, W)
      BY <2>1, <2>3 DEF FlowInv
    <3>2. Owned(req, W)'
      BY <2>1, <3>1 DEF Proceeding, Owned, Own, Here
    <3>3. Good(req, W, todo)' /\ AllPresent(todo)'
      BY <2>1, <3>1 DEF Proceeding
    <3>4. (req = history[running])'
      BY <2>1, <3>1 DEF Proceeding
    <3> QED BY <3>2, <3>3, <3>4 DEF Proceeding
  <2> QED BY <2>2, <2>3 DEF FlowInv
<1> QED
  BY <1>5, <1>6, <1>7, <1>8, <1>9, <1>10, <1>11, <1>12, <1>13 DEF Next

----------------------------------------------------------------------------
(* The steps of a template's plan.                                         *)

LEMMA NamedFields ==
  ASSUME NEW kind, NEW target, NEW shape, NEW tag
  PROVE  LET f == Named(kind, target, shape, tag) IN
         f.kind = kind /\ f.target = target /\ f.shape = shape /\ f.tag = tag
BY DEF Named

LEMMA FileFields ==
  ASSUME NEW kind, NEW target, NEW shape
  PROVE  /\ File(kind, target, shape).kind = kind
         /\ File(kind, target, shape).target = target
         /\ NamedShape(File(kind, target, shape)) = shape
         /\ kind \in StateKinds \cup {"cpu_report", "hybrid_report", "compare_report"} =>
              IsRecord(File(kind, target, shape))
<1> DEFINE f == File(kind, target, shape)
<1>1. f.kind = kind /\ f.target = target /\ f.shape = shape /\ f.tag = Plain
  BY DEF File, Named
<1>2. Plain[1] = ""
  BY DEF Plain
<1>3. f.tag[1] = ""
  BY <1>1, <1>2
<1> HIDE DEF f
<1>4. NamedShape(f) = shape
  BY <1>1, <1>3 DEF NamedShape, AbiTag
<1>5. kind \in StateKinds \cup {"cpu_report", "hybrid_report", "compare_report"} => IsRecord(f)
  BY <1>1, <1>3 DEF IsRecord
<1> QED BY <1>1, <1>4, <1>5 DEF f

LEMMA FileTag ==
  ASSUME NEW kind, NEW target, NEW shape
  PROVE  File(kind, target, shape).tag[1] = ""
<1>1. File(kind, target, shape).tag = Plain
  BY DEF File, Named
<1>2. Plain[1] = ""
  BY DEF Plain
<1> QED BY <1>1, <1>2

LEMMA BuiltFiles ==
  ASSUME NEW target
  PROVE  /\ Model(target).kind = "model" /\ Probe(target).kind = "probe"
         /\ Cubin(target).kind = "cubin"
BY DEF Model, Probe, Cubin, File, Named

LEMMA CommandFields ==
  ASSUME NEW tool, NEW about, NEW reads, NEW writes, NEW stdout
  PROVE  LET c == Command(tool, about, reads, writes, stdout) IN
         /\ c.tool = tool /\ c.about = about /\ c.reads = reads /\ c.writes = writes
         /\ c.stdout = stdout
BY DEF Command

LEMMA AboutFields ==
  ASSUME NEW target, NEW shape, NEW cfg
  PROVE  LET a == About(target, shape, cfg) IN
         a.target = target /\ a.shape = shape /\ a.cfg = cfg
BY DEF About

(* One step of each kind, fed.                                             *)
LEMMA BuildStep ==
  ASSUME NEW req, NEW W, NEW tool \in Builds, NEW target, Aimed(req, target),
         NEW shape, NEW cfg, NEW reads, NEW f,
         f.kind \notin StateKinds \cup {"cpu_report", "hybrid_report", "compare_report", "summary"}
  PROVE  LET c == Command(tool, About(target, shape, cfg), reads, {f}, None) IN
         Fed(req, W, c) /\ Left(c) = {} /\ c.tool # "raise"
<1> DEFINE c == Command(tool, About(target, shape, cfg), reads, {f}, None)
<1>1. c.tool = tool /\ c.about.target = target /\ c.writes = {f} /\ c.stdout = None
  BY DEF Command, About
<1> HIDE DEF c
<1>2. BuildFed(req, c)
  BY <1>1 DEF BuildFed, IsRecord
<1>3. Left(c) = {} /\ c.tool # "raise"
  BY <1>1 DEF Left, Recorders, Measuring, Builds
<1> QED BY <1>2, <1>3 DEF Fed, c

LEMMA ProbeStep ==
  ASSUME NEW req, NEW W, NEW target, Aimed(req, target), NEW shape, Counted(shape), NEW cfg,
         NEW output, output.kind = "cpu_state", IsRecord(output), output.target = target,
         NamedShape(output) = shape, NamedCfg(req, output) = cfg,
         NEW report, report.kind = "cpu_report", IsRecord(report)
  PROVE  LET c == HostProbeRepeat(target, shape, cfg, output, report) IN
         Fed(req, W, c) /\ Left(c) = {output, report} /\ c.tool # "raise"
<1> DEFINE c == HostProbeRepeat(target, shape, cfg, output, report)
<1>1. /\ c.tool = "host_probe" /\ c.about.target = target /\ c.about.shape = shape
      /\ c.about.cfg = cfg /\ c.writes = {output} /\ c.stdout = report
  BY DEF HostProbeRepeat, Command, About
<1> HIDE DEF c
<1>2. ProbeFed(req, c)
  BY <1>1 DEF ProbeFed, Names, Stdout
<1>3. Left(c) = {output, report} /\ c.tool # "raise"
  BY <1>1 DEF Left, Recorders, Measuring
<1> QED BY <1>2, <1>3 DEF Fed, c

LEMMA HybridStep ==
  ASSUME NEW req, NEW W, NEW target, Aimed(req, target), NEW shape, Counted(shape), NEW cfg,
         NEW start \in W, start.kind = "cpu_state", IsRecord(start),
         NEW output, output.kind = "gpu_state", IsRecord(output), output.target = target,
         NamedShape(output) = shape, NamedCfg(req, output) = NamedCfg(req, start),
         NEW report, report.kind = "hybrid_report", IsRecord(report)
  PROVE  LET c == Command("run_vl_hybrid", About(target, shape, cfg), {Cubin(target), start},
                          {output}, report) IN
         Fed(req, W, c) /\ Left(c) = {output, report} /\ c.tool # "raise"
<1> DEFINE c == Command("run_vl_hybrid", About(target, shape, cfg), {Cubin(target), start},
                        {output}, report)
<1>1. /\ c.tool = "run_vl_hybrid" /\ c.about.target = target /\ c.about.shape = shape
      /\ c.reads = {Cubin(target), start} /\ c.writes = {output} /\ c.stdout = report
  BY DEF Command, About
<1> HIDE DEF c
<1>2. Dumps(c) = {start}
  BY <1>1, BuiltFiles DEF Dumps
<1>3. LaunchFed(req, W, c)
  BY <1>1, <1>2 DEF LaunchFed, Stdout
<1>4. Left(c) = {output, report} /\ c.tool # "raise"
  BY <1>1 DEF Left, Recorders, Measuring
<1> QED BY <1>3, <1>4 DEF Fed, c

LEMMA CompareStep ==
  ASSUME NEW req, NEW W, NEW target, Aimed(req, target), NEW shape, Counted(shape), NEW cfg,
         NEW reference \in W, reference.kind = "cpu_state", IsRecord(reference),
         NEW candidate, candidate.kind = "gpu_state", IsRecord(candidate),
         candidate \in W \/ Orphan(req, candidate),
         reference.target = candidate.target, NamedShape(reference) = NamedShape(candidate),
         NamedCfg(req, reference) = NamedCfg(req, candidate),
         NEW report, report.kind = "compare_report", IsRecord(report),
         report.target = target, NamedShape(report) = shape
  PROVE  LET c == Command("compare", About(target, shape, cfg),
                          {Model(target), reference, candidate}, {report}, None) IN
         Fed(req, W, c) /\ report \in Left(c) /\ Left(c) = {report, None} /\ c.tool # "raise"
<1> DEFINE c == Command("compare", About(target, shape, cfg),
                        {Model(target), reference, candidate}, {report}, None)
<1>1. /\ c.tool = "compare" /\ c.about.target = target /\ c.about.shape = shape
      /\ c.reads = {Model(target), reference, candidate} /\ c.writes = {report}
      /\ c.stdout = None
  BY DEF Command, About
<1> HIDE DEF c
<1>2. Dumps(c) = {reference, candidate}
  BY <1>1, BuiltFiles DEF Dumps
<1>3. CompareFed(req, W, c)
  BY <1>1, <1>2 DEF CompareFed, Names
<1>4. Left(c) = {report, None} /\ c.tool # "raise"
  BY <1>1 DEF Left, Recorders, Measuring
<1> QED BY <1>3, <1>4 DEF Fed, c

LEMMA SummarizeStep ==
  ASSUME NEW req, NEW W, NEW about, Aimed(req, about.target),
         NEW parts, parts # {}, parts \subseteq W,
         NEW output, output.kind = "summary", IsRecord(output),
         output \in {ReuseSummary, ProbeSummary} => about.target = Mha
  PROVE  LET c == Summarize(about, parts, output) IN
         Fed(req, W, c) /\ output \in Left(c) /\ Left(c) = {output, None} /\ c.tool # "raise"
<1> DEFINE c == Summarize(about, parts, output)
<1>1. /\ c.tool = "summarize" /\ c.about = about /\ c.reads = parts /\ c.writes = {output}
      /\ c.stdout = None
  BY DEF Summarize, Command
<1> HIDE DEF c
<1>2. SummarizeFed(req, W, c)
  BY <1>1 DEF SummarizeFed
<1>3. Left(c) = {output, None} /\ c.tool # "raise"
  BY <1>1 DEF Left, Recorders
<1> QED BY <1>2, <1>3 DEF Fed, c

LEMMA RaiseStep ==
  ASSUME NEW req, NEW W
  PROVE  Good(req, W, <<Raise>>) /\ Raises(<<Raise>>) /\ IsSequence(<<Raise>>)
<1>1. Raise.tool = "raise"
  BY DEF Raise, Command
<1>2. Fed(req, W, Raise)
  BY <1>1 DEF Fed, IdleFed
<1>3. Raises(<<Raise>>)
  BY <1>1 DEF Raises
<1> QED BY <1>2, <1>3, GoodOne DEF Good

LEMMA GoodThree ==
  ASSUME NEW req, NEW W, NEW a, NEW b, NEW c,
         Fed(req, W, a), Fed(req, W \cup Left(a), b), Fed(req, W \cup Left(a) \cup Left(b), c)
  PROVE  /\ Good(req, W, <<a, b, c>>)
         /\ LeftBy(<<a, b, c>>) = Left(a) \cup Left(b) \cup Left(c)
<1> DEFINE s == <<a, b, c>>
<1>1. Len(s) = 3 /\ s[1] = a /\ s[2] = b /\ s[3] = c /\ DOMAIN s = 1 .. 3
  OBVIOUS
<1>2. IsSequence(s)
  <2>1. s \in Seq({a, b, c})
    OBVIOUS
  <2> HIDE DEF s
  <2> QED BY <2>1, SequenceOf
<1> HIDE DEF s
<1>3. Before(s, 1) = {} /\ Before(s, 2) = Left(a) /\ Before(s, 3) = Left(a) \cup Left(b)
  <2>1. 1 .. 1 - 1 = {} /\ 1 .. 2 - 1 = {1} /\ 1 .. 3 - 1 = {1, 2}
    OBVIOUS
  <2> QED BY <1>1, <2>1 DEF Before
<1>4. W \cup Before(s, 1) = W /\ W \cup Before(s, 3) = W \cup Left(a) \cup Left(b)
  BY <1>3
<1>5. \A i \in 1 .. 3 : Fed(req, W \cup Before(s, i), s[i])
  <2>1. 1 .. 3 = {1, 2, 3}
    OBVIOUS
  <2> QED BY <1>1, <1>3, <1>4, <2>1
<1>6. LeftBy(s) = Left(a) \cup Left(b) \cup Left(c)
  <2>1. 1 .. 3 = {1, 2, 3}
    OBVIOUS
  <2> QED BY <1>1, <2>1 DEF LeftBy
<1> QED BY <1>1, <1>2, <1>5, <1>6 DEF Good, s

(* A plan whose files are named for what the commands put into them.       *)
PlanNamed(req, plan) ==
  /\ Aimed(req, plan.target)
  /\ Counted(<<plan.nstates, plan.steps>>)
  /\ plan.init.kind = "cpu_state" /\ plan.reference.kind = "cpu_state"
  /\ plan.candidate.kind = "gpu_state"
  /\ \A f \in {plan.init, plan.reference, plan.candidate} :
       IsRecord(f) /\ f.target = plan.target /\ NamedCfg(req, f) = plan.cfg
  /\ NamedShape(plan.init) = <<1, 1>>
  /\ NamedShape(plan.reference) = <<plan.nstates, plan.steps>>
  /\ NamedShape(plan.candidate) = <<plan.nstates, plan.steps>>
  /\ plan.initReport.kind = "cpu_report" /\ plan.cpuReport.kind = "cpu_report"
  /\ plan.hybridReport.kind = "hybrid_report" /\ plan.compareReport.kind = "compare_report"
  /\ \A f \in {plan.initReport, plan.cpuReport, plan.hybridReport, plan.compareReport} :
       IsRecord(f)
  /\ plan.compareReport.target = plan.target
  /\ NamedShape(plan.compareReport) = <<plan.nstates, plan.steps>>

LEMMA OneByOne == Counted(<<1, 1>>)
BY NoneAssumption DEF Counted, PositiveShape, Positive

LEMMA CommandsAreFed ==
  ASSUME NEW req, NEW W, NEW plan, PlanNamed(req, plan)
  PROVE  /\ Good(req, W, CommandPlan(plan))
         /\ {plan.init, plan.reference, plan.cpuReport, plan.hybridReport, plan.compareReport}
              \subseteq LeftBy(CommandPlan(plan))
<1> DEFINE a == VerilatorCommand(plan)
           b == ProbeCommand(plan)
           c == HostProbeRepeat(plan.target, <<1, 1>>, plan.cfg, plan.init, plan.initReport)
           d == HostProbeRepeat(plan.target, <<plan.nstates, plan.steps>>, plan.cfg,
                                plan.reference, plan.cpuReport)
           e == GpuBuildCommand(plan)
           f == HybridCommand(plan)
           g == CompareCommand(plan)
<1>0. CommandPlan(plan) = (<<a, b, c>> \o <<d, e, f>>) \o <<g>>
  <2>1. CommandPlan(plan) = <<a, b, c, d, e, f, g>>
    BY DEF CommandPlan
  <2> HIDE DEF a, b, c, d, e, f, g
  <2> QED BY <2>1
<1>1. \A V : Fed(req, V, a) /\ Left(a) = {}
  BY BuildStep, BuiltFiles DEF VerilatorCommand, PlanNamed, Builds, StateKinds
<1>2. \A V : Fed(req, V, b) /\ Left(b) = {}
  <2>1. (IF plan.builder THEN "build_host_probe" ELSE "make") \in Builds
    BY DEF Builds
  <2> QED BY <2>1, BuildStep, BuiltFiles DEF ProbeCommand, PlanNamed, StateKinds
<1>3. \A V : Fed(req, V, c) /\ Left(c) = {plan.init, plan.initReport}
  BY ProbeStep, OneByOne DEF PlanNamed
<1>4. \A V : Fed(req, V, d) /\ Left(d) = {plan.reference, plan.cpuReport}
  BY ProbeStep DEF PlanNamed
<1>5. \A V : Fed(req, V, e) /\ Left(e) = {}
  BY BuildStep, BuiltFiles DEF GpuBuildCommand, PlanNamed, Builds, StateKinds
<1>6. \A V : plan.init \in V =>
        Fed(req, V, f) /\ Left(f) = {plan.candidate, plan.hybridReport}
  BY HybridStep DEF HybridCommand, PlanNamed
<1>7. \A V : plan.reference \in V /\ plan.candidate \in V =>
        Fed(req, V, g) /\ plan.compareReport \in Left(g)
  <2> TAKE V
  <2> HAVE plan.reference \in V /\ plan.candidate \in V
  <2> DEFINE shape == <<plan.nstates, plan.steps>>
  <2>1. /\ Aimed(req, plan.target) /\ Counted(shape)
        /\ plan.reference.kind = "cpu_state" /\ IsRecord(plan.reference)
        /\ plan.candidate.kind = "gpu_state" /\ IsRecord(plan.candidate)
        /\ plan.reference.target = plan.candidate.target
        /\ NamedShape(plan.reference) = NamedShape(plan.candidate)
        /\ NamedCfg(req, plan.reference) = NamedCfg(req, plan.candidate)
        /\ plan.compareReport.kind = "compare_report" /\ IsRecord(plan.compareReport)
        /\ plan.compareReport.target = plan.target /\ NamedShape(plan.compareReport) = shape
    BY DEF PlanNamed
  <2> DEFINE x == Command("compare", About(plan.target, shape, plan.cfg),
                          {Model(plan.target), plan.reference, plan.candidate},
                          {plan.compareReport}, None)
  <2>2. g = x
    BY DEF CompareCommand
  <2> HIDE DEF shape, g
  <2>3. Fed(req, V, x) /\ plan.compareReport \in Left(x)
    BY <2>1, CompareStep
  <2> QED BY <2>2, <2>3
<1> HIDE DEF a, b, c, d, e, f, g
<1>8. /\ Good(req, W, <<a, b, c>>)
      /\ LeftBy(<<a, b, c>>) = Left(a) \cup Left(b) \cup Left(c)
  BY <1>1, <1>2, <1>3, GoodThree
<1> DEFINE V == W \cup LeftBy(<<a, b, c>>)
<1>9. plan.init \in V
  BY <1>3, <1>8
<1> HIDE DEF V
<1>10. /\ Good(req, V, <<d, e, f>>)
       /\ LeftBy(<<d, e, f>>) = Left(d) \cup Left(e) \cup Left(f)
  <2>1. Fed(req, V \cup Left(d) \cup Left(e), f)
    BY <1>6, <1>9
  <2> QED BY <1>4, <1>5, <2>1, GoodThree
<1> DEFINE s == <<a, b, c>>
           t == <<d, e, f>>
           u == <<g>>
<1>11. IsSequence(s) /\ IsSequence(t)
  BY <1>8, <1>10 DEF Good
<1> HIDE DEF s, t
<1>12. /\ Good(req, W, s \o t) /\ LeftBy(s \o t) = LeftBy(s) \cup LeftBy(t)
       /\ IsSequence(s \o t)
  BY <1>8, <1>10, <1>11, GoodJoined, Joined DEF s, t, V
<1>13. {plan.init, plan.reference, plan.cpuReport, plan.candidate, plan.hybridReport}
         \subseteq LeftBy(s \o t)
  BY <1>3, <1>4, <1>6, <1>8, <1>9, <1>10, <1>12 DEF s, t, V
<1>14. Good(req, W \cup LeftBy(s \o t), u) /\ LeftBy(u) = Left(g) /\ plan.compareReport \in Left(g)
  <2>1. Fed(req, W \cup LeftBy(s \o t), g) /\ plan.compareReport \in Left(g)
    BY <1>7, <1>13
  <2> QED BY <2>1, GoodOne, LeftByOne
<1>15. IsSequence(u)
  BY <1>14 DEF Good
<1> HIDE DEF u
<1>16. Good(req, W, (s \o t) \o u) /\ LeftBy((s \o t) \o u) = LeftBy(s \o t) \cup LeftBy(u)
  BY <1>12, <1>14, <1>15, GoodJoined, Joined
<1> QED BY <1>0, <1>13, <1>14, <1>16 DEF s, t, u

(* A template that loads, for a shape.                                     *)
LEMMA PlanFields ==
  ASSUME NEW template, NEW shape, NEW cfg, NEW plan, plan = HybridPlan(template, shape, cfg),
         plan # None
  PROVE  /\ template \in DOMAIN Payloads /\ PositiveShape(shape)
         /\ plan.target = Payloads[template].target
         /\ plan.nstates = shape[1] /\ plan.steps = shape[2] /\ plan.cfg = cfg
         /\ plan.init = File("cpu_state", plan.target, <<1, 1>>)
         /\ plan.reference = File("cpu_state", plan.target, shape)
         /\ plan.candidate = File("gpu_state", plan.target, shape)
         /\ plan.initReport = File("cpu_report", plan.target, <<1, 1>>)
         /\ plan.cpuReport = File("cpu_report", plan.target, shape)
         /\ plan.hybridReport = File("hybrid_report", plan.target, shape)
         /\ plan.compareReport = File("compare_report", plan.target, shape)
<1>1. template \in DOMAIN Payloads /\ PositiveShape(shape)
  BY DEF HybridPlan
<1>2. Normalized(Payloads[template]).target = Payloads[template].target
  BY <1>1, PayloadsAssumption DEF Normalized
<1> QED BY <1>1, <1>2 DEF HybridPlan

LEMMA TemplateIsNamed ==
  ASSUME NEW req, NEW template, NEW shape \in Int \X Int, NEW cfg,
         NEW plan, plan = HybridPlan(template, shape, cfg), plan # None,
         Aimed(req, plan.target),
         \/ Defaults(req) /\ cfg = DefaultCfg
         \/ req.program = "template" /\ cfg = req.cfg
  PROVE  PlanNamed(req, plan)
<1>1. /\ PositiveShape(shape)
      /\ plan.nstates = shape[1] /\ plan.steps = shape[2] /\ plan.cfg = cfg
      /\ plan.init = File("cpu_state", plan.target, <<1, 1>>)
      /\ plan.reference = File("cpu_state", plan.target, shape)
      /\ plan.candidate = File("gpu_state", plan.target, shape)
      /\ plan.initReport = File("cpu_report", plan.target, <<1, 1>>)
      /\ plan.cpuReport = File("cpu_report", plan.target, shape)
      /\ plan.hybridReport = File("hybrid_report", plan.target, shape)
      /\ plan.compareReport = File("compare_report", plan.target, shape)
  BY PlanFields
<1>2. <<plan.nstates, plan.steps>> = shape /\ Counted(shape)
  BY <1>1 DEF Counted
<1>3. \A kind, s : NamedCfg(req, File(kind, plan.target, s)) = cfg
  <2>1. \A f : f.tag[1] = "" => NamedCfg(req, f) = cfg
    BY DEF NamedCfg, Defaults, AbiTag
  <2> QED BY <2>1, FileTag
<1>4. /\ \A f \in {plan.init, plan.reference, plan.candidate} :
             IsRecord(f) /\ f.target = plan.target /\ NamedCfg(req, f) = plan.cfg
      /\ \A f \in {plan.initReport, plan.cpuReport, plan.hybridReport, plan.compareReport} :
             IsRecord(f)
  BY <1>1, <1>3, FileFields DEF StateKinds
<1>5. /\ plan.init.kind = "cpu_state" /\ plan.reference.kind = "cpu_state"
      /\ plan.candidate.kind = "gpu_state"
      /\ plan.initReport.kind = "cpu_report" /\ plan.cpuReport.kind = "cpu_report"
      /\ plan.hybridReport.kind = "hybrid_report" /\ plan.compareReport.kind = "compare_report"
      /\ plan.compareReport.target = plan.target
  BY <1>1, FileFields
<1>6. /\ NamedShape(plan.init) = <<1, 1>> /\ NamedShape(plan.reference) = shape
      /\ NamedShape(plan.candidate) = shape /\ NamedShape(plan.compareReport) = shape
  BY <1>1, FileFields
<1> QED BY <1>2, <1>4, <1>5, <1>6 DEF PlanNamed

LEMMA TemplateRunIsFed ==
  ASSUME NEW req, NEW W, NEW template, NEW shape \in Int \X Int, Defaults(req),
         template \in DOMAIN Payloads => Aimed(req, Payloads[template].target)
  PROVE  LET s == TemplateRun(template, shape, DefaultCfg)
             plan == HybridPlan(template, shape, DefaultCfg)
         IN  /\ Good(req, W, s)
             /\ \/ Raises(s)
                \/ /\ plan # None
                   /\ {plan.init, plan.reference, plan.cpuReport, plan.hybridReport,
                       plan.compareReport} \subseteq LeftBy(s)
<1>1. PICK plan : plan = HybridPlan(template, shape, DefaultCfg)
  OBVIOUS
<1>2. CASE plan = None \/ ClosureRefusesExecution(plan)
  BY <1>1, <1>2, RaiseStep DEF TemplateRun
<1>3. CASE plan # None /\ ~ClosureRefusesExecution(plan)
  <2>1. TemplateRun(template, shape, DefaultCfg) = CommandPlan(plan)
    BY <1>1, <1>3 DEF TemplateRun
  <2>2. Aimed(req, plan.target)
    BY <1>1, <1>3, PlanFields
  <2>3. PlanNamed(req, plan)
    BY <1>1, <1>3, <2>2, TemplateIsNamed
  <2>4. /\ Good(req, W, CommandPlan(plan))
        /\ {plan.init, plan.reference, plan.cpuReport, plan.hybridReport, plan.compareReport}
             \subseteq LeftBy(CommandPlan(plan))
    BY <2>3, CommandsAreFed
  <2> QED BY <1>1, <1>3, <2>1, <2>4
<1> QED BY <1>2, <1>3

----------------------------------------------------------------------------
(* Workloads.                                                              *)

Fits(req, w) ==
  /\ w.tag \notin {"resident_state_reuse", AbiTag, "mobile_vit"}
  /\ Counted(w.shape)
  /\ Aimed(req, w.target)

LEMMA DefaultNames ==
  ASSUME NEW req, Defaults(req), NEW f
  PROVE  NamedCfg(req, f) = DefaultCfg
BY DEF NamedCfg

(* The files of a workload.                                                *)
LEMMA InitFiles ==
  ASSUME NEW req, NEW w, Fits(req, w), NEW tag
  PROVE  LET f == InitStateFile(w)
             r == InitReport(w, tag)
         IN  /\ f.kind = "cpu_state" /\ IsRecord(f) /\ f.target = w.target
             /\ NamedShape(f) = <<1, 1>>
             /\ r.kind = "cpu_report" /\ IsRecord(r)
<1> DEFINE f == InitStateFile(w)
           r == InitReport(w, tag)
<1>1. CASE w.tag = ""
  <2>1. f = File("cpu_state", w.target, <<1, 1>>)
    BY <1>1 DEF InitStateFile
  <2> HIDE DEF f
  <2>2. r = Named("cpu_report", w.target, <<1, 1>>, <<"", tag, 0, 0>>)
    BY <1>1 DEF InitReport
  <2>3. r.kind = "cpu_report" /\ r.tag[1] = ""
    <3> HIDE DEF r
    <3>1. r.kind = "cpu_report" /\ r.tag = <<"", tag, 0, 0>>
      BY <2>2 DEF Named
    <3>2. <<"", tag, 0, 0>>[1] = ""
      OBVIOUS
    <3> QED BY <3>1, <3>2
  <2> HIDE DEF f, r
  <2>4. IsRecord(r)
    BY <2>3 DEF IsRecord
  <2>5. /\ f.kind = "cpu_state" /\ IsRecord(f) /\ f.target = w.target
        /\ NamedShape(f) = <<1, 1>>
    BY <2>1, FileFields DEF StateKinds
  <2> QED BY <2>3, <2>4, <2>5 DEF f, r
<1>2. CASE w.tag # ""
  <2>1. /\ f.kind = "cpu_state" /\ f.target = w.target /\ f.shape = <<1, 1>>
        /\ f.tag[1] = w.tag /\ r.kind = "cpu_report" /\ r.tag[1] = w.tag
    BY <1>2 DEF InitStateFile, InitReport, Named
  <2> HIDE DEF f, r
  <2>2. w.tag # "mobile_vit" /\ w.tag \notin {"resident_state_reuse", AbiTag}
    BY DEF Fits
  <2>3. IsRecord(f) /\ IsRecord(r) /\ NamedShape(f) = <<1, 1>>
    BY <2>1, <2>2 DEF IsRecord, StateKinds, NamedShape
  <2> QED BY <2>1, <2>3 DEF f, r
<1> QED BY <1>1, <1>2

LEMMA SampleFiles ==
  ASSUME NEW req, NEW w, Fits(req, w), NEW i, NEW k
  PROVE  LET f == SampleFile(w, i, k) IN
         /\ f.kind = k /\ f.target = w.target /\ NamedShape(f) = w.shape
         /\ k \in StateKinds \cup {"cpu_report", "hybrid_report", "compare_report"} => IsRecord(f)
<1> DEFINE f == SampleFile(w, i, k)
<1>1. f.kind = k /\ f.target = w.target /\ f.shape = w.shape /\ f.tag[1] = w.tag
  BY DEF SampleFile, Named
<1> HIDE DEF f
<1>2. w.tag # "mobile_vit" /\ w.tag \notin {"resident_state_reuse", AbiTag}
  BY DEF Fits
<1>3. NamedShape(f) = w.shape
  BY <1>1, <1>2 DEF NamedShape
<1>4. k \in StateKinds \cup {"cpu_report", "hybrid_report", "compare_report"} => IsRecord(f)
  BY <1>1, <1>2 DEF IsRecord
<1> QED BY <1>1, <1>3, <1>4 DEF f

LEMMA InitIsFed ==
  ASSUME NEW req, NEW W, Defaults(req), NEW w, Fits(req, w), NEW tag
  PROVE  LET c == InitState(w, tag) IN
         Fed(req, W, c) /\ InitStateFile(w) \in Left(c)
<1> DEFINE f == InitStateFile(w)
           r == InitReport(w, tag)
<1>1. /\ f.kind = "cpu_state" /\ IsRecord(f) /\ f.target = w.target
      /\ NamedShape(f) = <<1, 1>>
      /\ r.kind = "cpu_report" /\ IsRecord(r)
  BY InitFiles
<1>2. InitState(w, tag) = HostProbeRepeat(w.target, <<1, 1>>, DefaultCfg, f, r)
  BY DEF InitState, CpuRepeat
<1>3. Aimed(req, w.target)
  BY DEF Fits
<1> HIDE DEF f, r
<1> DEFINE c == HostProbeRepeat(w.target, <<1, 1>>, DefaultCfg, f, r)
<1>4. Fed(req, W, c) /\ Left(c) = {f, r}
  BY <1>1, <1>3, OneByOne, DefaultNames, ProbeStep
<1> QED BY <1>2, <1>4 DEF f

LEMMA SampleIsFed ==
  ASSUME NEW req, NEW W, Defaults(req), NEW w, Fits(req, w), InitStateFile(w) \in W, NEW i
  PROVE  /\ Good(req, W, WorkloadSample(w, i))
         /\ SampleReports(w, i) \subseteq LeftBy(WorkloadSample(w, i))
<1> DEFINE F(k) == SampleFile(w, i, k)
           start == InitStateFile(w)
           a == HostProbeRepeat(w.target, w.shape, DefaultCfg, F("cpu_state"), F("cpu_report"))
           b == Command("run_vl_hybrid", About(w.target, w.shape, DefaultCfg),
                        {Cubin(w.target), start}, {F("gpu_state")}, F("hybrid_report"))
           c == Command("compare", About(w.target, w.shape, DefaultCfg),
                        {Model(w.target), F("cpu_state"), F("gpu_state")},
                        {F("compare_report")}, None)
<1>1. WorkloadSample(w, i) = <<a, b, c>>
  BY DEF WorkloadSample, CpuRepeat, Hybrid, Compare
<1>2. Aimed(req, w.target) /\ Counted(w.shape)
  BY DEF Fits
<1>3. \A k : /\ F(k).kind = k /\ F(k).target = w.target /\ NamedShape(F(k)) = w.shape
             /\ NamedCfg(req, F(k)) = DefaultCfg
             /\ k \in StateKinds \cup {"cpu_report", "hybrid_report", "compare_report"} =>
                  IsRecord(F(k))
  BY SampleFiles, DefaultNames
<1>4. start.kind = "cpu_state" /\ IsRecord(start) /\ NamedCfg(req, start) = DefaultCfg
  BY InitFiles, DefaultNames
<1>5. SampleReports(w, i) = {F("cpu_report"), F("hybrid_report"), F("compare_report")}
  BY DEF SampleReports
<1>6. start \in W
  OBVIOUS
<1> HIDE DEF F, start
<1>7. Fed(req, W, a) /\ Left(a) = {F("cpu_state"), F("cpu_report")}
  BY <1>2, <1>3, ProbeStep DEF StateKinds
<1>8. \A V : start \in V => Fed(req, V, b) /\ Left(b) = {F("gpu_state"), F("hybrid_report")}
  <2> TAKE V
  <2> HAVE start \in V
  <2>1. /\ F("gpu_state").kind = "gpu_state" /\ IsRecord(F("gpu_state"))
        /\ F("gpu_state").target = w.target /\ NamedShape(F("gpu_state")) = w.shape
        /\ NamedCfg(req, F("gpu_state")) = NamedCfg(req, start)
        /\ F("hybrid_report").kind = "hybrid_report" /\ IsRecord(F("hybrid_report"))
    BY <1>3, <1>4 DEF StateKinds
  <2> DEFINE output == F("gpu_state")
             report == F("hybrid_report")
  <2> QED BY <1>2, <1>4, <2>1, HybridStep
<1>9. \A V : F("cpu_state") \in V /\ F("gpu_state") \in V =>
        Fed(req, V, c) /\ F("compare_report") \in Left(c)
  BY <1>2, <1>3, CompareStep DEF StateKinds
<1> HIDE DEF a, b, c
<1>10. Fed(req, W \cup Left(a), b) /\ Left(b) = {F("gpu_state"), F("hybrid_report")}
  BY <1>6, <1>8
<1>11. Fed(req, W \cup Left(a) \cup Left(b), c) /\ F("compare_report") \in Left(c)
  BY <1>7, <1>9, <1>10
<1>12. /\ Good(req, W, <<a, b, c>>)
       /\ LeftBy(<<a, b, c>>) = Left(a) \cup Left(b) \cup Left(c)
  BY <1>7, <1>10, <1>11, GoodThree
<1> QED BY <1>1, <1>5, <1>7, <1>10, <1>11, <1>12

(* A step, then a sequence, then a step.                                   *)
Around(a, s, z) == <<a>> \o s \o <<z>>

LEMMA GoodAround ==
  ASSUME NEW req, NEW W, NEW a, Fed(req, W, a), NEW s, Good(req, W \cup Left(a), s),
         NEW z, Raises(s) \/ Fed(req, W \cup Left(a) \cup LeftBy(s), z)
  PROVE  /\ Good(req, W, Around(a, s, z))
         /\ LeftBy(Around(a, s, z)) = Left(a) \cup LeftBy(s) \cup Left(z)
         /\ Raises(s) => Raises(Around(a, s, z))
<1> DEFINE x == <<a>>
           y == <<z>>
<1>1. Good(req, W, x) /\ LeftBy(x) = Left(a) /\ IsSequence(x) /\ IsSequence(s)
  BY GoodOne, LeftByOne DEF Good
<1>2. IsSequence(y) /\ LeftBy(y) = Left(z)
  <2>1. y \in Seq({z})
    OBVIOUS
  <2> HIDE DEF y
  <2>2. IsSequence(y)
    BY <2>1, SequenceOf
  <2> QED BY <2>2, LeftByOne DEF y
<1>3. Raises(s) \/ Good(req, W \cup (Left(a) \cup LeftBy(s)), y)
  <2>1. W \cup Left(a) \cup LeftBy(s) = W \cup (Left(a) \cup LeftBy(s))
    OBVIOUS
  <2> QED BY <2>1, GoodOne
<1> HIDE DEF x, y
<1>4. /\ Good(req, W, x \o s) /\ LeftBy(x \o s) = Left(a) \cup LeftBy(s) /\ IsSequence(x \o s)
      /\ Raises(s) => Raises(x \o s)
  <2>1. Good(req, W \cup LeftBy(x), s)
    BY <1>1
  <2> QED BY <1>1, <2>1, GoodJoined, Joined
<1>5. /\ Good(req, W, (x \o s) \o y)
      /\ LeftBy((x \o s) \o y) = Left(a) \cup LeftBy(s) \cup Left(z)
      /\ Raises(s) => Raises((x \o s) \o y)
  <2>1. Raises(x \o s) \/ Good(req, W \cup LeftBy(x \o s), y)
    BY <1>3, <1>4
  <2> DEFINE u == x \o s
  <2>2. /\ Good(req, W, u) /\ LeftBy(u) = Left(a) \cup LeftBy(s) /\ IsSequence(u)
        /\ Raises(s) => Raises(u)
        /\ Raises(u) \/ Good(req, W \cup LeftBy(u), y)
    BY <1>4, <2>1
  <2> HIDE DEF u
  <2>3. Good(req, W, u \o y)
    BY <1>2, <2>2, GoodJoined
  <2>4. /\ LeftBy(u \o y) = LeftBy(u) \cup LeftBy(y)
        /\ Raises(u \o y) <=> Raises(u) \/ Raises(y)
    BY <1>2, <2>2, Joined
  <2>5. LeftBy(u \o y) = Left(a) \cup LeftBy(s) \cup Left(z) /\ (Raises(s) => Raises(u \o y))
    BY <1>2, <2>2, <2>4
  <2> QED BY <2>3, <2>5 DEF u
<1> QED BY <1>5 DEF x, y, Around

(* A workload's init state, its samples and their summary.                 *)
LEMMA MedianIsFed ==
  ASSUME NEW req, NEW W, Defaults(req), NEW w, Fits(req, w), NEW repeat \in Nat \ {0},
         NEW tag, NEW name,
         MedianReport(w, name) \notin {ReuseSummary, ProbeSummary}
  PROVE  /\ Good(req, W, WorkloadMedian(w, repeat, tag, name))
         /\ MedianReport(w, name) \in LeftBy(WorkloadMedian(w, repeat, tag, name))
<1> DEFINE a == InitState(w, tag)
           seqs == [i \in 1 .. repeat |-> WorkloadSample(w, i)]
           s == FlattenSeq(seqs)
           about == About(w.target, w.shape, DefaultCfg)
           parts == UNION {SampleReports(w, i) : i \in 1 .. repeat}
           output == MedianReport(w, name)
           z == Summarize(about, parts, output)
           V == W \cup Left(a)
<1>1. WorkloadMedian(w, repeat, tag, name) = <<a>> \o s \o <<z>>
  BY DEF WorkloadMedian, Each
<1>2. Fed(req, W, a) /\ InitStateFile(w) \in Left(a)
  BY InitIsFed
<1> HIDE DEF a
<1>3. \A U : V \subseteq U => \A i : /\ Good(req, U, WorkloadSample(w, i))
                                    /\ SampleReports(w, i) \subseteq LeftBy(WorkloadSample(w, i))
  BY <1>2, SampleIsFed
<1> HIDE DEF V
<1>4. \A i \in 1 .. repeat :
        /\ IsSequence(seqs[i]) /\ Good(req, V \cup LeftUpTo(seqs, i - 1), seqs[i])
        /\ SampleReports(w, i) \subseteq LeftBy(seqs[i])
  <2> TAKE i \in 1 .. repeat
  <2>1. seqs[i] = WorkloadSample(w, i)
    OBVIOUS
  <2>2. V \subseteq V \cup LeftUpTo(seqs, i - 1)
    OBVIOUS
  <2> HIDE DEF seqs
  <2> QED BY <1>3, <2>1, <2>2 DEF Good
<1>5. seqs \in [1 .. repeat -> Elements(seqs)]
  BY DEF Elements
<1> HIDE DEF seqs
<1>6. Good(req, V, s) /\ LeftBy(s) = LeftUpTo(seqs, repeat)
  <2>1. Chained(req, V, repeat, seqs)
    BY <1>4, <1>5 DEF Chained
  <2> QED BY <2>1, GoodFlat
<1>7. parts \subseteq LeftBy(s)
  BY <1>4, <1>6 DEF LeftUpTo
<1>8. parts # {}
  <2>1. SampleFile(w, 1, "cpu_report") \in SampleReports(w, 1) /\ 1 \in 1 .. repeat
    BY DEF SampleReports
  <2> QED BY <2>1
<1>9. output.kind = "summary" /\ IsRecord(output)
  <2>1. output.kind = "summary" /\ output.tag[1] = w.tag
    BY DEF MedianReport, Named
  <2>2. w.tag # "mobile_vit"
    BY DEF Fits
  <2> QED BY <2>1, <2>2 DEF IsRecord
<1>10. Aimed(req, about.target)
  BY DEF Fits, About
<1> HIDE DEF s, about, parts, output
<1>11. Fed(req, V \cup LeftBy(s), z) /\ output \in Left(z)
  <2>1. parts \subseteq V \cup LeftBy(s)
    BY <1>7
  <2>2. output \notin {ReuseSummary, ProbeSummary}
    BY DEF output
  <2> QED BY <1>8, <1>9, <1>10, <2>1, <2>2, SummarizeStep
<1> HIDE DEF z
<1>12. Fed(req, W \cup Left(a) \cup LeftBy(s), z) /\ Good(req, W \cup Left(a), s)
  BY <1>6, <1>11 DEF V
<1> DEFINE t == Around(a, s, z)
<1>13. Good(req, W, t) /\ LeftBy(t) = Left(a) \cup LeftBy(s) \cup Left(z)
  BY <1>2, <1>12, GoodAround
<1> QED BY <1>1, <1>11, <1>13 DEF output, Around

(* A sequence, then a step.                                                *)
After(s, z) == s \o <<z>>

LEMMA GoodAfter ==
  ASSUME NEW req, NEW W, NEW s, Good(req, W, s),
         NEW z, Raises(s) \/ Fed(req, W \cup LeftBy(s), z)
  PROVE  /\ Good(req, W, After(s, z))
         /\ LeftBy(After(s, z)) = LeftBy(s) \cup Left(z)
         /\ Raises(s) => Raises(After(s, z))
<1> DEFINE y == <<z>>
<1>1. IsSequence(y) /\ LeftBy(y) = Left(z)
  <2>1. y \in Seq({z})
    OBVIOUS
  <2> HIDE DEF y
  <2>2. IsSequence(y)
    BY <2>1, SequenceOf
  <2> QED BY <2>2, LeftByOne DEF y
<1>2. Raises(s) \/ Good(req, W \cup LeftBy(s), y)
  BY GoodOne
<1>3. IsSequence(s)
  BY DEF Good
<1> HIDE DEF y
<1>4. Good(req, W, s \o y)
  BY <1>1, <1>2, GoodJoined
<1>5. LeftBy(s \o y) = LeftBy(s) \cup LeftBy(y) /\ (Raises(s \o y) <=> Raises(s) \/ Raises(y))
  BY <1>1, <1>3, Joined
<1>6. LeftBy(s \o y) = LeftBy(s) \cup Left(z) /\ (Raises(s) => Raises(s \o y))
  BY <1>1, <1>5
<1> QED BY <1>4, <1>6 DEF After, y

LEMMA ReportFields ==
  ASSUME NEW name, NEW sub, NEW index
  PROVE  /\ Report(name, sub, index).kind = "summary"
         /\ name # "mobile_vit" => IsRecord(Report(name, sub, index))
<1> DEFINE f == Report(name, sub, index)
<1>1. f.kind = "summary" /\ f.tag = <<name, sub, 0, index>>
  BY DEF Report, Named
<1>2. <<name, sub, 0, index>>[1] = name
  OBVIOUS
<1>3. f.tag[1] = name
  BY <1>1, <1>2
<1> HIDE DEF f
<1>4. name # "mobile_vit" => IsRecord(f)
  BY <1>1, <1>3 DEF IsRecord
<1> QED BY <1>1, <1>4 DEF f

(* The aggregates the evidence of a request is taken from have names that  *)
(* no other report has.                                                    *)
LEMMA OtherReport ==
  ASSUME NEW name, NEW sub, NEW index,
         name \notin {"resident_state_reuse_experiment", "persistent_resident_state_abi_probe"}
  PROVE  Report(name, sub, index) \notin {ReuseSummary, ProbeSummary}
<1>1. \A n, s, i : Report(n, s, i).tag[1] = n
  <2> TAKE n, s, i
  <2>1. Report(n, s, i).tag = <<n, s, 0, i>> /\ <<n, s, 0, i>>[1] = n
    BY DEF Report, Named
  <2> QED BY <2>1
<1> QED BY <1>1 DEF ReuseSummary, ProbeSummary

LEMMA OtherMedian ==
  ASSUME NEW w, NEW name, name # "summary"
  PROVE  MedianReport(w, name) \notin {ReuseSummary, ProbeSummary}
<1>1. \A t \in {ReuseSummary, ProbeSummary} : t.tag[2] = "summary"
  <2>1. /\ ReuseSummary.tag = <<"resident_state_reuse_experiment", "summary", 0, 0>>
        /\ ProbeSummary.tag = <<"persistent_resident_state_abi_probe", "summary", 0, 0>>
    BY DEF ReuseSummary, ProbeSummary, Report, Named
  <2>2. ReuseSummary.tag[2] = "summary"
    BY <2>1
  <2>3. ProbeSummary.tag[2] = "summary"
    BY <2>1
  <2> QED BY <2>2, <2>3
<1>2. MedianReport(w, name).tag = <<w.tag, name, 0, 0>> /\ <<w.tag, name, 0, 0>>[2] = name
  BY DEF MedianReport, Named
<1>3. MedianReport(w, name).tag[2] = name
  BY <1>2
<1> QED BY <1>1, <1>3

----------------------------------------------------------------------------
(* Sets of workloads.                                                      *)

Medians(req, n, ws, repeat, tag, names, seqs) ==
  /\ seqs \in [1 .. n -> Elements(seqs)]
  /\ \A i \in 1 .. n : /\ Fits(req, ws[i]) /\ names[i] # "summary"
                       /\ seqs[i] = WorkloadMedian(ws[i], repeat, tag, names[i])

MediansOf(n, ws, names, parts) ==
  parts # {} /\ \A p \in parts : \E i \in 1 .. n : p = MedianReport(ws[i], names[i])

LEMMA MediansAreFed ==
  ASSUME NEW req, NEW W, Defaults(req), NEW n \in Nat, NEW ws, NEW repeat \in Nat \ {0},
         NEW tag, NEW names, NEW seqs, Medians(req, n, ws, repeat, tag, names, seqs)
  PROVE  /\ Good(req, W, FlattenSeq(seqs))
         /\ \A i \in 1 .. n : MedianReport(ws[i], names[i]) \in LeftBy(FlattenSeq(seqs))
<1>1. \A V : \A i \in 1 .. n : Good(req, V, seqs[i])
                              /\ MedianReport(ws[i], names[i]) \in LeftBy(seqs[i])
  <2> TAKE V
  <2> TAKE i \in 1 .. n
  <2>1. /\ Fits(req, ws[i]) /\ seqs[i] = WorkloadMedian(ws[i], repeat, tag, names[i])
        /\ MedianReport(ws[i], names[i]) \notin {ReuseSummary, ProbeSummary}
    BY OtherMedian DEF Medians
  <2> QED BY <2>1, MedianIsFed
<1>2. Chained(req, W, n, seqs)
  BY <1>1 DEF Chained, Medians, Good
<1>3. Good(req, W, FlattenSeq(seqs)) /\ LeftBy(FlattenSeq(seqs)) = LeftUpTo(seqs, n)
  BY <1>2, GoodFlat
<1> QED BY <1>1, <1>3 DEF LeftUpTo

(* The medians of workloads, and the summary made of them.                 *)
LEMMA AggregateIsFed ==
  ASSUME NEW req, NEW W, req.program = "reproduction", NEW n \in Nat, NEW ws, NEW repeat \in Nat \ {0},
         NEW tag, NEW names, NEW seqs, Medians(req, n, ws, repeat, tag, names, seqs),
         NEW parts, MediansOf(n, ws, names, parts),
         NEW aggregate, aggregate.kind = "summary", IsRecord(aggregate),
         aggregate \notin {ReuseSummary, ProbeSummary}
  PROVE  Good(req, W, After(FlattenSeq(seqs), Summarize(About("", Unshaped, None), parts, aggregate)))
<1> DEFINE s == FlattenSeq(seqs)
           about == About("", Unshaped, None)
           z == Summarize(about, parts, aggregate)
<1>1. Good(req, W, s) /\ \A i \in 1 .. n : MedianReport(ws[i], names[i]) \in LeftBy(s)
  <2>1. Defaults(req)
    BY DEF Defaults
  <2> QED BY <2>1, MediansAreFed
<1> HIDE DEF s
<1>2. parts # {} /\ parts \subseteq W \cup LeftBy(s)
  BY <1>1 DEF MediansOf
<1>3. Aimed(req, about.target)
  BY DEF Aimed, Sliced
<1> HIDE DEF about
<1>4. Fed(req, W \cup LeftBy(s), z)
  BY <1>2, <1>3, SummarizeStep
<1> HIDE DEF z
<1>5. Good(req, W, After(s, z))
  BY <1>1, <1>4, GoodAfter
<1> QED BY <1>5 DEF s, z, about

LEMMA SetIsFed ==
  ASSUME NEW req, NEW W, req.program = "reproduction", NEW ws, ws # <<>>, IsSequence(ws),
         \A i \in 1 .. Len(ws) : Fits(req, ws[i]), NEW repeat \in Nat \ {0},
         NEW aggregate, aggregate.kind = "summary", IsRecord(aggregate),
         aggregate \notin {ReuseSummary, ProbeSummary}
  PROVE  Good(req, W, WorkloadSet(ws, repeat, aggregate))
<1> DEFINE n == Len(ws)
           names == [i \in 1 .. n |-> MedianReportName(ws[i])]
           seqs == [i \in 1 .. n |-> WorkloadMedian(ws[i], repeat, "median", MedianReportName(ws[i]))]
           parts == {MedianReport(ws[i], MedianReportName(ws[i])) : i \in DOMAIN ws}
           about == About("", Unshaped, None)
<1>1. WorkloadSet(ws, repeat, aggregate) = After(FlattenSeq(seqs), Summarize(about, parts, aggregate))
  BY DEF WorkloadSet, Each, After
<1>2. n \in Nat \ {0} /\ DOMAIN ws = 1 .. n
  BY DEF IsSequence
<1>3. \A i \in 1 .. n : names[i] = MedianReportName(ws[i]) /\ names[i] # "summary"
  BY DEF MedianReportName
<1>4. MediansOf(n, ws, names, parts)
  <2>1. 1 \in 1 .. n
    BY <1>2
  <2> HIDE DEF n
  <2> QED BY <1>2, <1>3, <2>1 DEF MediansOf
<1>5. Medians(req, n, ws, repeat, "median", names, seqs)
  <2>1. \A i \in 1 .. n : seqs[i] = WorkloadMedian(ws[i], repeat, "median", names[i])
    OBVIOUS
  <2>2. seqs \in [1 .. n -> Elements(seqs)]
    BY DEF Elements
  <2>3. \A i \in 1 .. n : Fits(req, ws[i])
    OBVIOUS
  <2> HIDE DEF n, names, seqs
  <2> QED BY <1>3, <2>1, <2>2, <2>3 DEF Medians
<1> HIDE DEF n, names, seqs, parts
<1>6. Good(req, W, After(FlattenSeq(seqs), Summarize(about, parts, aggregate)))
  <2>1. n \in Nat
    BY <1>2
  <2> QED BY <1>4, <1>5, <2>1, AggregateIsFed
<1> QED BY <1>1, <1>6

----------------------------------------------------------------------------
(* The workload sets written in the source.                                *)

LEMMA LengthOf ==
  ASSUME NEW s, NEW n \in Nat, s = [i \in 1 .. n |-> s[i]]
  PROVE  Len(s) = n /\ IsSequence(s)
<1> DEFINE X == Elements(s)
<1>1. \A i \in 1 .. n : s[i] \in X
  <2>1. DOMAIN s = 1 .. n
    OBVIOUS
  <2> QED BY <2>1 DEF Elements
<1> HIDE DEF X
<1>2. s \in [1 .. n -> X]
  BY <1>1
<1>3. s \in Seq(X) /\ Len(s) = n
  BY <1>2
<1> QED BY <1>3, SequenceOf

LEMMA WorkloadFits ==
  ASSUME NEW req, req.program = "reproduction", NEW target, NEW n \in Nat \ {0},
         NEW m \in Nat \ {0}, NEW resident,
         NEW tag, tag \notin {"resident_state_reuse", AbiTag, "mobile_vit"}
  PROVE  Fits(req, Workload(target, <<n, m>>, resident, tag))
<1> DEFINE w == Workload(target, <<n, m>>, resident, tag)
<1>1. w.target = target /\ w.shape = <<n, m>> /\ w.tag = tag
  BY DEF Workload
<1>2. Counted(<<n, m>>)
  BY NoneAssumption DEF Counted, PositiveShape, Positive
<1>3. Aimed(req, target)
  BY DEF Aimed, Sliced
<1> HIDE DEF w
<1>4. Fits(req, w)
  BY <1>1, <1>2, <1>3 DEF Fits
<1> QED BY <1>4 DEF w

(* The workloads written in the source: all fit.                           *)
AllFit(req, ws) == ws # <<>> /\ IsSequence(ws) /\ \A i \in 1 .. Len(ws) : Fits(req, ws[i])

LEMMA FourFit ==
  ASSUME NEW req, NEW a, NEW b, NEW c, NEW d,
         Fits(req, a), Fits(req, b), Fits(req, c), Fits(req, d)
  PROVE  AllFit(req, <<a, b, c, d>>)
<1> DEFINE s == <<a, b, c, d>>
<1>1. s \in Seq({a, b, c, d}) /\ Len(s) = 4 /\ s # <<>>
  OBVIOUS
<1>2. \A i \in 1 .. 4 : Fits(req, s[i])
  <2>1. 1 .. 4 = {1, 2, 3, 4}
    OBVIOUS
  <2>2. s[1] = a /\ s[2] = b /\ s[3] = c /\ s[4] = d
    OBVIOUS
  <2> QED BY <2>1, <2>2
<1> HIDE DEF s
<1>3. IsSequence(s)
  BY <1>1, SequenceOf
<1>4. AllFit(req, s)
  BY <1>1, <1>2, <1>3 DEF AllFit
<1> QED BY <1>4 DEF s

LEMMA FiveFit ==
  ASSUME NEW req, NEW a, NEW b, NEW c, NEW d, NEW e,
         Fits(req, a), Fits(req, b), Fits(req, c), Fits(req, d), Fits(req, e)
  PROVE  AllFit(req, <<a, b, c, d, e>>)
<1> DEFINE s == <<a, b, c, d, e>>
<1>1. s \in Seq({a, b, c, d, e}) /\ Len(s) = 5 /\ s # <<>>
  OBVIOUS
<1>2. \A i \in 1 .. 5 : Fits(req, s[i])
  <2>1. 1 .. 5 = {1, 2, 3, 4, 5}
    OBVIOUS
  <2>2. s[1] = a /\ s[2] = b /\ s[3] = c /\ s[4] = d /\ s[5] = e
    OBVIOUS
  <2> QED BY <2>1, <2>2
<1> HIDE DEF s
<1>3. IsSequence(s)
  BY <1>1, SequenceOf
<1>4. AllFit(req, s)
  BY <1>1, <1>2, <1>3 DEF AllFit
<1> QED BY <1>4 DEF s

LEMMA TwoFit ==
  ASSUME NEW req, NEW a, NEW b, Fits(req, a), Fits(req, b)
  PROVE  AllFit(req, <<a, b>>)
<1> DEFINE s == <<a, b>>
<1>1. s \in Seq({a, b}) /\ Len(s) = 2 /\ s # <<>>
  OBVIOUS
<1>2. \A i \in 1 .. 2 : Fits(req, s[i])
  <2>1. 1 .. 2 = {1, 2}
    OBVIOUS
  <2>2. s[1] = a /\ s[2] = b
    OBVIOUS
  <2> QED BY <2>1, <2>2
<1> HIDE DEF s
<1>3. IsSequence(s)
  BY <1>1, SequenceOf
<1>4. AllFit(req, s)
  BY <1>1, <1>2, <1>3 DEF AllFit
<1> QED BY <1>4 DEF s

LEMMA WrittenWorkloadsFit ==
  ASSUME NEW req, req.program = "reproduction"
  PROVE  /\ AllFit(req, RepresentativeWorkloads)
         /\ AllFit(req, ShapeBreadthWorkloads)
         /\ AllFit(req, BroaderShapeWorkloads)
         /\ AllFit(req, BroaderPolicyWorkloads)
         /\ \A option \in {"--paged-kv-repeat-median", "--paged-kv-continuation-repeat-median",
                           "--paged-kv-next-shapes-repeat-median"} :
              AllFit(req, PagedWorkloads(option))
<1>1. \A target, resident, tag : \A n, m \in Nat \ {0} :
        tag \notin {"resident_state_reuse", AbiTag, "mobile_vit"} =>
          Fits(req, Workload(target, <<n, m>>, resident, tag))
  BY WorkloadFits
<1>2. AllFit(req, RepresentativeWorkloads)
  <2>1. RepresentativeWorkloads =
          <<Workload(Mha, <<64, 1>>, FALSE, ""), Workload(Mha, <<1, 64>>, FALSE, ""),
            Workload(Mha, <<1, 64>>, TRUE, ""), Workload(Mha, <<32, 64>>, TRUE, ""),
            Workload(KvScore, <<64, 1>>, FALSE, "")>>
    BY DEF RepresentativeWorkloads, Steady
  <2>2. "" \notin {"resident_state_reuse", AbiTag, "mobile_vit"}
    BY DEF AbiTag
  <2>4. \A target, resident : \A n, m \in Nat \ {0} :
          Fits(req, Workload(target, <<n, m>>, resident, ""))
    BY <1>1, <2>2
  <2>5. 1 \in Nat \ {0} /\ 32 \in Nat \ {0} /\ 64 \in Nat \ {0}
    OBVIOUS
  <2>3. /\ Fits(req, Workload(Mha, <<64, 1>>, FALSE, ""))
        /\ Fits(req, Workload(Mha, <<1, 64>>, FALSE, ""))
        /\ Fits(req, Workload(Mha, <<1, 64>>, TRUE, ""))
        /\ Fits(req, Workload(Mha, <<32, 64>>, TRUE, ""))
        /\ Fits(req, Workload(KvScore, <<64, 1>>, FALSE, ""))
    BY <2>4, <2>5
  <2> QED BY <2>1, <2>3, FiveFit
<1>3. AllFit(req, ShapeBreadthWorkloads)
  <2>1. ShapeBreadthWorkloads =
          <<Workload(FilelistKvScore, <<32, 1>>, FALSE, "filelist_shape_breadth_repeat"),
            Workload(FilelistKvScore, <<1, 32>>, FALSE, "filelist_shape_breadth_repeat"),
            Workload(FilelistMha, <<32, 1>>, FALSE, "filelist_shape_breadth_repeat"),
            Workload(FilelistMha, <<1, 32>>, FALSE, "filelist_shape_breadth_repeat")>>
    BY DEF ShapeBreadthWorkloads, Steady
  <2>2. "filelist_shape_breadth_repeat" \notin {"resident_state_reuse", AbiTag, "mobile_vit"}
    BY DEF AbiTag
  <2>4. \A target, resident : \A n, m \in Nat \ {0} :
          Fits(req, Workload(target, <<n, m>>, resident, "filelist_shape_breadth_repeat"))
    BY <1>1, <2>2
  <2>5. 1 \in Nat \ {0} /\ 32 \in Nat \ {0} /\ 64 \in Nat \ {0}
    OBVIOUS
  <2>3. /\ Fits(req, Workload(FilelistKvScore, <<32, 1>>, FALSE, "filelist_shape_breadth_repeat"))
        /\ Fits(req, Workload(FilelistKvScore, <<1, 32>>, FALSE, "filelist_shape_breadth_repeat"))
        /\ Fits(req, Workload(FilelistMha, <<32, 1>>, FALSE, "filelist_shape_breadth_repeat"))
        /\ Fits(req, Workload(FilelistMha, <<1, 32>>, FALSE, "filelist_shape_breadth_repeat"))
    BY <2>4, <2>5
  <2> QED BY <2>1, <2>3, FourFit
<1>4. AllFit(req, BroaderShapeWorkloads)
  <2>1. BroaderShapeWorkloads =
          <<Workload(FilelistKvScore, <<64, 1>>, FALSE, "filelist_broader_shape_repeat"),
            Workload(FilelistKvScore, <<1, 64>>, FALSE, "filelist_broader_shape_repeat"),
            Workload(FilelistMha, <<64, 1>>, FALSE, "filelist_broader_shape_repeat"),
            Workload(FilelistMha, <<1, 64>>, FALSE, "filelist_broader_shape_repeat")>>
    BY DEF BroaderShapeWorkloads, Steady
  <2>2. "filelist_broader_shape_repeat" \notin {"resident_state_reuse", AbiTag, "mobile_vit"}
    BY DEF AbiTag
  <2>4. \A target, resident : \A n, m \in Nat \ {0} :
          Fits(req, Workload(target, <<n, m>>, resident, "filelist_broader_shape_repeat"))
    BY <1>1, <2>2
  <2>5. 1 \in Nat \ {0} /\ 32 \in Nat \ {0} /\ 64 \in Nat \ {0}
    OBVIOUS
  <2>3. /\ Fits(req, Workload(FilelistKvScore, <<64, 1>>, FALSE, "filelist_broader_shape_repeat"))
        /\ Fits(req, Workload(FilelistKvScore, <<1, 64>>, FALSE, "filelist_broader_shape_repeat"))
        /\ Fits(req, Workload(FilelistMha, <<64, 1>>, FALSE, "filelist_broader_shape_repeat"))
        /\ Fits(req, Workload(FilelistMha, <<1, 64>>, FALSE, "filelist_broader_shape_repeat"))
    BY <2>4, <2>5
  <2> QED BY <2>1, <2>3, FourFit
<1>5. AllFit(req, BroaderPolicyWorkloads)
  <2>1. BroaderPolicyWorkloads =
          <<Workload(FilelistKvScore, <<64, 1>>, FALSE, "filelist_broader_policy_repeat"),
            Workload(FilelistMha, <<64, 1>>, FALSE, "filelist_broader_policy_repeat")>>
    BY DEF BroaderPolicyWorkloads, Steady
  <2>2. "filelist_broader_policy_repeat" \notin {"resident_state_reuse", AbiTag, "mobile_vit"}
    BY DEF AbiTag
  <2>4. \A target, resident : \A n, m \in Nat \ {0} :
          Fits(req, Workload(target, <<n, m>>, resident, "filelist_broader_policy_repeat"))
    BY <1>1, <2>2
  <2>5. 1 \in Nat \ {0} /\ 32 \in Nat \ {0} /\ 64 \in Nat \ {0}
    OBVIOUS
  <2>3. /\ Fits(req, Workload(FilelistKvScore, <<64, 1>>, FALSE, "filelist_broader_policy_repeat"))
        /\ Fits(req, Workload(FilelistMha, <<64, 1>>, FALSE, "filelist_broader_policy_repeat"))
    BY <2>4, <2>5
  <2> QED BY <2>1, <2>3, TwoFit
<1>6. ASSUME NEW option \in {"--paged-kv-repeat-median", "--paged-kv-continuation-repeat-median",
                             "--paged-kv-next-shapes-repeat-median"}
      PROVE  AllFit(req, PagedWorkloads(option))
  <2> DEFINE n == CASE option = "--paged-kv-repeat-median" -> <<256, 64>>
                    [] option = "--paged-kv-continuation-repeat-median" -> <<512, 128>>
                    [] option = "--paged-kv-next-shapes-repeat-median" -> <<1024, 256>>
  <2>1. n \in {<<256, 64>>, <<512, 128>>, <<1024, 256>>}
    <3>1. CASE option = "--paged-kv-repeat-median"
      BY <3>1
    <3>2. CASE option = "--paged-kv-continuation-repeat-median"
      BY <3>2
    <3>3. CASE option = "--paged-kv-next-shapes-repeat-median"
      BY <3>3
    <3> QED BY <3>1, <3>2, <3>3
  <2>2. PagedWorkloads(option) =
          <<Steady(KvCache, <<n[1], 1>>, option), Steady(KvCache, <<1, n[2]>>, option),
            Steady(KvScore, <<n[1] \div 4, 1>>, option), Steady(KvScore, <<1, n[2]>>, option)>>
    BY DEF PagedWorkloads
  <2> HIDE DEF n
  <2>3. n[1] \in Nat \ {0} /\ n[2] \in Nat \ {0} /\ n[1] \div 4 \in Nat \ {0}
    <3>1. CASE n = <<256, 64>>
      BY <3>1
    <3>2. CASE n = <<512, 128>>
      BY <3>2
    <3>3. CASE n = <<1024, 256>>
      BY <3>3
    <3> QED BY <2>1, <3>1, <3>2, <3>3
  <2>4. option \notin {"resident_state_reuse", AbiTag, "mobile_vit"}
    BY DEF AbiTag
  <2>5. \A target : \A a, b \in Nat \ {0} : Fits(req, Steady(target, <<a, b>>, option))
    BY <1>1, <2>4 DEF Steady
  <2>6. /\ Fits(req, Steady(KvCache, <<n[1], 1>>, option))
        /\ Fits(req, Steady(KvCache, <<1, n[2]>>, option))
        /\ Fits(req, Steady(KvScore, <<n[1] \div 4, 1>>, option))
        /\ Fits(req, Steady(KvScore, <<1, n[2]>>, option))
    BY <2>3, <2>5
  <2> QED BY <2>2, <2>6, FourFit
<1> QED BY <1>2, <1>3, <1>4, <1>5, <1>6

LEMMA MedianDispatchIsFed ==
  ASSUME NEW req, NEW W, req.program = "reproduction", NEW option \in MedianOptions,
         NEW repeat \in Int, NEW s, s = MedianDispatch(option, repeat), s # None
  PROVE  Good(req, W, s)
<1> DEFINE workloads ==
             CASE option = "--repeat-median" -> RepresentativeWorkloads
               [] option = "--filelist-shape-breadth-repeat-median" -> ShapeBreadthWorkloads
               [] option = "--filelist-broader-shape-repeat-median" -> BroaderShapeWorkloads
               [] option = "--filelist-broader-policy-repeat-median" -> BroaderPolicyWorkloads
               [] OTHER -> PagedWorkloads(option)
           aggregate == Report(option, "summary", 0)
<1>1. AllFit(req, workloads)
  <2>1. CASE option = "--repeat-median"
    BY <2>1, WrittenWorkloadsFit
  <2>2. CASE option = "--filelist-shape-breadth-repeat-median"
    BY <2>2, WrittenWorkloadsFit
  <2>3. CASE option = "--filelist-broader-shape-repeat-median"
    BY <2>3, WrittenWorkloadsFit
  <2>4. CASE option = "--filelist-broader-policy-repeat-median"
    BY <2>4, WrittenWorkloadsFit
  <2>5. CASE option \in {"--paged-kv-repeat-median", "--paged-kv-continuation-repeat-median",
                         "--paged-kv-next-shapes-repeat-median"}
    <3>1. workloads = PagedWorkloads(option)
      BY <2>5
    <3> QED BY <2>5, <3>1, WrittenWorkloadsFit
  <2> QED BY <2>1, <2>2, <2>3, <2>4, <2>5 DEF MedianOptions
<1>2. repeat \in Nat \ {0} /\ s = WorkloadSet(workloads, repeat, aggregate)
  BY DEF MedianDispatch
<1>3. /\ aggregate.kind = "summary" /\ IsRecord(aggregate)
      /\ aggregate \notin {ReuseSummary, ProbeSummary}
  <2>1. option \notin {"mobile_vit", "resident_state_reuse_experiment",
                       "persistent_resident_state_abi_probe"}
    BY DEF MedianOptions
  <2> QED BY <2>1, ReportFields, OtherReport
<1> HIDE DEF workloads, aggregate
<1> QED BY <1>1, <1>2, <1>3, SetIsFed DEF AllFit

LEMMA ResidentBatchSweepIsFed ==
  ASSUME NEW req, NEW W, req.program = "reproduction", NEW states \in Seq(Int),
         NEW repeat \in Int, NEW s, s = ResidentBatchSweep(states, repeat), s # None
  PROVE  Good(req, W, s)
<1> DEFINE n == Len(states)
           ws == ResidentBatchWorkloads(states)
           name == "resident_batch_sweep"
           names == [i \in 1 .. n |-> name]
           seqs == [i \in 1 .. n |-> WorkloadMedian(ws[i], repeat, name, name)]
           parts == {MedianReport(ws[i], name) : i \in DOMAIN ws}
           about == About("", Unshaped, None)
           aggregate == Report(name, "summary", 0)
<1>1. states # <<>> /\ repeat \in Nat \ {0} /\ \A i \in DOMAIN states : ~(states[i] <= 0)
  <2>1. ~(states = <<>> \/ repeat <= 0 \/ \E i \in DOMAIN states : states[i] <= 0)
    BY DEF ResidentBatchSweep
  <2> QED BY <2>1
<1>2. n \in Nat \ {0} /\ DOMAIN states = 1 .. n
  BY <1>1
<1>3. ws = [i \in 1 .. n |-> Workload(Mha, <<states[i], 64>>, TRUE, "")] /\ DOMAIN ws = 1 .. n
  BY <1>2 DEF ResidentBatchWorkloads
<1>4. Len(ws) = n
  <2> HIDE DEF ws, n
  <2>1. ws = [i \in 1 .. n |-> ws[i]]
    BY <1>3
  <2> QED BY <1>2, <2>1, LengthOf
<1>5. s = After(FlattenSeq(seqs), Summarize(about, parts, aggregate))
  <2>1. ~(states = <<>> \/ repeat <= 0 \/ \E i \in DOMAIN states : states[i] <= 0)
    BY <1>1
  <2>2. s = FlattenSeq([i \in 1 .. Len(ws) |-> WorkloadMedian(ws[i], repeat, name, name)])
             \o <<Summarize(about, parts, aggregate)>>
    BY <2>1 DEF ResidentBatchSweep, Each
  <2> QED BY <1>4, <2>2 DEF After
<1>6. \A i \in 1 .. n : Fits(req, ws[i])
  <2> TAKE i \in 1 .. n
  <2>1. states[i] \in Nat \ {0}
    BY <1>1, <1>2
  <2>2. "" \notin {"resident_state_reuse", AbiTag, "mobile_vit"}
    BY DEF AbiTag
  <2>4. \A k \in Nat \ {0} : Fits(req, Workload(Mha, <<k, 64>>, TRUE, ""))
    <3>1. 64 \in Nat \ {0}
      OBVIOUS
    <3> QED BY <2>2, <3>1, WorkloadFits
  <2>3. Fits(req, Workload(Mha, <<states[i], 64>>, TRUE, ""))
    BY <2>1, <2>4
  <2> HIDE DEF ws, n
  <2> QED BY <1>3, <2>3
<1>7. Medians(req, n, ws, repeat, name, names, seqs)
  <2>1. /\ seqs \in [1 .. n -> Elements(seqs)]
        /\ \A i \in 1 .. n : names[i] # "summary" /\ names[i] = name
                             /\ seqs[i] = WorkloadMedian(ws[i], repeat, name, name)
    BY DEF Elements
  <2> HIDE DEF n, ws, name, names, seqs
  <2> QED BY <1>6, <2>1 DEF Medians
<1>8. MedianReport(ws[1], name) \in parts /\ \A i \in 1 .. n : names[i] = name
  <2>1. 1 \in 1 .. n
    BY <1>2
  <2> HIDE DEF ws, n
  <2> QED BY <1>3, <2>1
<1>9. MediansOf(n, ws, names, parts)
  <2>1. \A p \in parts : \E i \in 1 .. n : p = MedianReport(ws[i], names[i])
    <3> HIDE DEF n, ws, names, name
    <3> QED BY <1>3, <1>8
  <2> HIDE DEF n, ws, names, name, parts
  <2> QED BY <1>8, <2>1 DEF MediansOf
<1>10. /\ aggregate.kind = "summary" /\ IsRecord(aggregate)
       /\ aggregate \notin {ReuseSummary, ProbeSummary}
  BY ReportFields, OtherReport
<1> HIDE DEF n, ws, name, names, seqs, parts, aggregate
<1>11. Good(req, W, After(FlattenSeq(seqs), Summarize(about, parts, aggregate)))
  <2>1. n \in Nat /\ repeat \in Nat \ {0}
    BY <1>1, <1>2
  <2> QED BY <1>7, <1>9, <1>10, <2>1, AggregateIsFed
<1> QED BY <1>5, <1>11

----------------------------------------------------------------------------
(* Resident state reuse, and the persistent resident state ABI.            *)

LEMMA RaiseIsFed ==
  ASSUME NEW req, NEW W
  PROVE  Fed(req, W, Raise) /\ Raise.tool = "raise"
BY DEF Raise, Command, Fed, IdleFed

LEMMA RaisesAfter ==
  ASSUME NEW s, IsSequence(s)
  PROVE  IsSequence(After(s, Raise)) /\ Raises(After(s, Raise))
<1> DEFINE y == <<Raise>>
<1>1. IsSequence(y) /\ Raises(y)
  BY RaiseStep
<1> HIDE DEF y
<1>2. IsSequence(s \o y) /\ Raises(s \o y)
  BY <1>1, Joined
<1> QED BY <1>2 DEF After, y

LEMMA ThreeInLine ==
  ASSUME NEW a, NEW b, NEW c
  PROVE  IsSequence(<<a, b, c>>)
<1> DEFINE s == <<a, b, c>>
<1>1. s \in Seq({a, b, c})
  OBVIOUS
<1> HIDE DEF s
<1>2. IsSequence(s)
  BY <1>1, SequenceOf
<1> QED BY <1>2 DEF s

(* The file of a phase is named by the phase.                              *)
PhaseFile(f, kind, shape, phase) ==
  /\ f.kind = kind /\ f.target = Mha
  /\ NamedShape(f) = Cumulative(shape, phase)
  /\ kind \in StateKinds \cup {"cpu_report", "hybrid_report", "compare_report"} => IsRecord(f)

LEMMA PhaseNamed ==
  ASSUME NEW kind, NEW shape, NEW phase, NEW first \in {"resident_state_reuse", AbiTag},
         NEW sub, NEW last,
         NEW f, f = Named(kind, Mha, shape, <<first, sub, phase, last>>)
  PROVE  PhaseFile(f, kind, shape, phase) /\ f.tag[1] = first /\ f.tag[3] = phase
<1> DEFINE tag == <<first, sub, phase, last>>
<1>1. f.kind = kind /\ f.target = Mha /\ f.shape = shape /\ f.tag = tag
  BY DEF Named
<1>2. tag[1] = first /\ tag[3] = phase
  OBVIOUS
<1>3. f.tag[1] = first /\ f.tag[3] = phase
  BY <1>1, <1>2
<1> HIDE DEF tag
<1>4. NamedShape(f) = Cumulative(shape, phase)
  BY <1>1, <1>3 DEF NamedShape
<1>5. first # "mobile_vit"
  BY DEF AbiTag
<1>6. kind \in StateKinds \cup {"cpu_report", "hybrid_report", "compare_report"} => IsRecord(f)
  BY <1>1, <1>3, <1>5 DEF IsRecord
<1> QED BY <1>1, <1>3, <1>4, <1>6 DEF PhaseFile

LEMMA ReuseFileNamed ==
  ASSUME NEW shape, NEW phase, NEW kind
  PROVE  PhaseFile(ReuseFile(shape, phase, kind), kind, shape, phase)
<1>1. PICK first, sub, last :
        /\ first = "resident_state_reuse"
        /\ ReuseFile(shape, phase, kind) = Named(kind, Mha, shape, <<first, sub, phase, last>>)
  BY DEF ReuseFile
<1>2. first \in {"resident_state_reuse", AbiTag}
  BY <1>1
<1> QED BY <1>1, <1>2, PhaseNamed

LEMMA AbiFileNamed ==
  ASSUME NEW shape, NEW phase, NEW tag, NEW kind
  PROVE  /\ PhaseFile(AbiFile(shape, phase, tag, kind), kind, shape, phase)
         /\ AbiFile(shape, phase, tag, kind).tag[1] = AbiTag
         /\ AbiFile(shape, phase, tag, kind).tag[3] = phase
<1>1. AbiFile(shape, phase, tag, kind) =
        Named(kind, Mha, shape, <<AbiTag, tag[1], phase, tag[2]>>)
  BY DEF AbiFile, AbiTag
<1> QED BY <1>1, PhaseNamed

LEMMA PositiveTimes ==
  ASSUME NEW a \in Int, NEW b \in Nat \ {0}, a > 0
  PROVE  a * b \in Int /\ a * b > 0 /\ a * b = b * a
<1>1. PICK c : c = a * b
  OBVIOUS
<1>2. a \in Nat \ {0}
  OBVIOUS
<1>3. a * b \in Int /\ a * b > 0
  BY <1>2, SMT
<1>4. a * b = b * a
  BY SMT
<1> QED BY <1>3, <1>4

LEMMA CumulativeCounted ==
  ASSUME NEW shape, Counted(shape), NEW phase \in Nat \ {0}
  PROVE  /\ Counted(Cumulative(shape, phase))
         /\ Cumulative(shape, phase) = <<shape[1], phase * shape[2]>>
         /\ Cumulative(shape, 1) = shape
<1>1. shape[1] \in Int /\ shape[2] \in Int /\ shape = <<shape[1], shape[2]>>
      /\ shape[1] > 0 /\ shape[2] > 0
  BY DEF Counted, PositiveShape, Positive
<1> DEFINE m == shape[2] * phase
<1>2. m \in Int /\ m > 0 /\ m = phase * shape[2]
  BY <1>1, PositiveTimes
<1>3. Cumulative(shape, phase) = <<shape[1], m>>
  BY DEF Cumulative
<1>4. Cumulative(shape, 1) = shape
  <2>1. shape[2] * 1 = shape[2]
    BY <1>1
  <2> QED BY <1>1, <2>1 DEF Cumulative
<1> HIDE DEF m
<1>5. Counted(<<shape[1], m>>)
  BY <1>1, <1>2, NoneAssumption DEF Counted, PositiveShape, Positive
<1> QED BY <1>2, <1>3, <1>4, <1>5

LEMMA ReuseFits ==
  ASSUME NEW req, Aimed(req, Mha), NEW shape, Counted(shape)
  PROVE  Fits(req, ReuseWorkload(shape)) /\ ReuseWorkload(shape).target = Mha
         /\ ReuseWorkload(shape).shape = shape
<1> DEFINE w == ReuseWorkload(shape)
<1>1. w.target = Mha /\ w.shape = shape /\ w.tag = ""
  BY DEF ReuseWorkload, Workload
<1> HIDE DEF w
<1>2. Fits(req, w)
  BY <1>1 DEF Fits, AbiTag
<1> QED BY <1>1, <1>2 DEF w

(* The first phase ends in a step that raises: the others are not taken.   *)
LEMMA FirstReusePhase ==
  ASSUME NEW req, NEW W, Defaults(req), Aimed(req, Mha), NEW shape, Counted(shape),
         InitStateFile(ReuseWorkload(shape)) \in W
  PROVE  Good(req, W, ReusePhase(shape, 1))
<1> DEFINE w == ReuseWorkload(shape)
           F(k) == ReuseFile(shape, 1, k)
           start == InitStateFile(w)
           a == HostProbeRepeat(Mha, shape, DefaultCfg, F("cpu_state"), F("cpu_report"))
           b == Command("run_vl_hybrid", About(Mha, shape, DefaultCfg),
                        {Cubin(Mha), start}, {F("gpu_state")}, F("hybrid_report"))
           c == Command("compare", About(Mha, shape, DefaultCfg),
                        {Model(Mha), F("cpu_state"), F("gpu_state")}, {F("compare_report")}, None)
<1>1. Fits(req, w) /\ w.target = Mha /\ w.shape = shape
  BY ReuseFits
<1>2. Cumulative(shape, 1) = shape
  <2>1. 1 \in Nat \ {0}
    OBVIOUS
  <2> QED BY <2>1, CumulativeCounted
<1>3. ReusePhase(shape, 1) = <<a, b, c>>
  BY <1>1, <1>2 DEF ReusePhase, CpuRepeat, Hybrid, Compare
<1>4. \A k : /\ F(k).kind = k /\ F(k).target = Mha /\ NamedShape(F(k)) = shape
             /\ NamedCfg(req, F(k)) = DefaultCfg
             /\ k \in StateKinds \cup {"cpu_report", "hybrid_report", "compare_report"} =>
                  IsRecord(F(k))
  <2> TAKE k
  <2>1. PhaseFile(F(k), k, shape, 1)
    BY ReuseFileNamed
  <2> HIDE DEF F
  <2> QED BY <1>2, <2>1, DefaultNames DEF PhaseFile
<1>5. /\ start.kind = "cpu_state" /\ IsRecord(start) /\ NamedCfg(req, start) = DefaultCfg
      /\ start \in W
  BY <1>1, InitFiles, DefaultNames
<1> HIDE DEF F, start
<1>6. Fed(req, W, a) /\ Left(a) = {F("cpu_state"), F("cpu_report")}
  BY <1>4, ProbeStep DEF StateKinds
<1>7. \A V : start \in V => Fed(req, V, b) /\ Left(b) = {F("gpu_state"), F("hybrid_report")}
  <2> TAKE V
  <2> HAVE start \in V
  <2>1. /\ F("gpu_state").kind = "gpu_state" /\ IsRecord(F("gpu_state"))
        /\ F("gpu_state").target = Mha /\ NamedShape(F("gpu_state")) = shape
        /\ NamedCfg(req, F("gpu_state")) = NamedCfg(req, start)
        /\ F("hybrid_report").kind = "hybrid_report" /\ IsRecord(F("hybrid_report"))
    BY <1>4, <1>5 DEF StateKinds
  <2> QED BY <1>5, <2>1, HybridStep
<1>8. \A V : F("cpu_state") \in V /\ F("gpu_state") \in V => Fed(req, V, c)
  <2> TAKE V
  <2> HAVE F("cpu_state") \in V /\ F("gpu_state") \in V
  <2> DEFINE d == F("cpu_state")
             g == F("gpu_state")
             r == F("compare_report")
  <2>1. /\ d.kind = "cpu_state" /\ IsRecord(d) /\ g.kind = "gpu_state" /\ IsRecord(g)
        /\ d.target = g.target /\ NamedShape(d) = NamedShape(g)
        /\ NamedCfg(req, d) = NamedCfg(req, g)
        /\ r.kind = "compare_report" /\ IsRecord(r) /\ r.target = Mha /\ NamedShape(r) = shape
    BY <1>4 DEF StateKinds
  <2> QED BY <2>1, CompareStep
<1> HIDE DEF a, b, c
<1>9. Fed(req, W \cup Left(a), b) /\ Left(b) = {F("gpu_state"), F("hybrid_report")}
  BY <1>5, <1>7
<1>10. Fed(req, W \cup Left(a) \cup Left(b), c)
  BY <1>6, <1>8, <1>9
<1>11. Good(req, W, <<a, b, c>>)
  BY <1>6, <1>9, <1>10, GoodThree
<1> QED BY <1>3, <1>11

LEMMA ReuseIsFed ==
  ASSUME NEW req, NEW W, Defaults(req), Aimed(req, Mha), NEW shape, Counted(shape),
         NEW phases \in Nat \ {0}
  PROVE  Good(req, W, ResidentStateReuse(shape, phases))
         /\ Raises(ResidentStateReuse(shape, phases))
<1> DEFINE w == ReuseWorkload(shape)
           a == InitState(w, "resident_state_reuse")
           seqs == [p \in 1 .. phases |-> ReusePhase(shape, p) \o ReusePhaseSummary]
           s == FlattenSeq(seqs)
           z == Summarize(About(Mha, shape, phases),
                          {ReuseFile(shape, p, k) : p \in 1..phases, k \in {"compare_report"}},
                          ReuseSummary)
           V == W \cup Left(a)
<1>1. ResidentStateReuse(shape, phases) = Around(a, s, z)
  BY DEF ResidentStateReuse, Each, Around, Counted
<1>2. Fed(req, W, a) /\ InitStateFile(w) \in Left(a)
  BY ReuseFits, InitIsFed
<1> HIDE DEF a
<1>3. Good(req, V, ReusePhase(shape, 1))
  <2>1. InitStateFile(ReuseWorkload(shape)) \in V
    BY <1>2
  <2> HIDE DEF V
  <2> QED BY <2>1, FirstReusePhase
<1>4. \A p \in 1 .. phases : seqs[p] = After(ReusePhase(shape, p), Raise)
                             /\ IsSequence(ReusePhase(shape, p))
  <2> TAKE p \in 1 .. phases
  <2>1. seqs[p] = After(ReusePhase(shape, p), Raise)
    BY DEF After, ReusePhaseSummary
  <2>2. IsSequence(ReusePhase(shape, p))
    BY ThreeInLine DEF ReusePhase
  <2> QED BY <2>1, <2>2
<1>5. seqs \in [1 .. phases -> Elements(seqs)]
  BY DEF Elements
<1> HIDE DEF V, seqs
<1>6. \A p \in 1 .. phases : IsSequence(seqs[p]) /\ Raises(seqs[p])
  BY <1>4, RaisesAfter
<1>7. 1 \in 1 .. phases
  OBVIOUS
<1>8. Good(req, V, seqs[1])
  <2> DEFINE first == ReusePhase(shape, 1)
  <2>1. Fed(req, V \cup LeftBy(first), Raise)
    BY RaiseIsFed
  <2>2. Good(req, V, first) /\ seqs[1] = After(first, Raise)
    BY <1>3, <1>4, <1>7
  <2> HIDE DEF first
  <2> QED BY <2>1, <2>2, GoodAfter
<1>9. \A p \in 1 .. phases :
        (\E j \in 1 .. p - 1 : Raises(seqs[j])) \/ Good(req, V \cup LeftUpTo(seqs, p - 1), seqs[p])
  <2> TAKE p \in 1 .. phases
  <2>1. CASE p = 1
    <3>1. V \subseteq V \cup LeftUpTo(seqs, p - 1)
      OBVIOUS
    <3> QED BY <1>8, <2>1, <3>1, GoodMore
  <2>2. CASE p # 1
    <3>1. 1 \in 1 .. p - 1
      BY <2>2
    <3> QED BY <1>6, <1>7, <3>1
  <2> QED BY <2>1, <2>2
<1>10. Good(req, V, s) /\ Raises(s)
  <2>1. Chained(req, V, phases, seqs)
    BY <1>5, <1>6, <1>9 DEF Chained
  <2> QED BY <1>6, <1>7, <2>1, GoodFlat
<1> HIDE DEF s, z
<1>11. Good(req, W, Around(a, s, z)) /\ Raises(Around(a, s, z))
  BY <1>2, <1>10, GoodAround DEF V
<1> QED BY <1>1, <1>11

(* The persistent probe: its CPU phases, its launch, its comparisons.      *)
CpuPhases(shape, phases, tag, seqs) == seqs = [p \in 1 .. phases |-> CpuPhase(shape, p, tag)]
ComparePhases(shape, phases, tag, seqs) ==
  seqs = [p \in 1 .. phases |-> ComparePhase(shape, p, tag)]

LeavesPhases(shape, phases, tag, kind, W) ==
  \A p \in 1 .. phases : AbiFile(shape, p, tag, kind) \in W

LEMMA AbiRecord ==
  ASSUME NEW req, Defaults(req), NEW shape, NEW phase, NEW tag,
         NEW kind \in StateKinds \cup {"cpu_report", "hybrid_report", "compare_report"},
         NEW f, f = AbiFile(shape, phase, tag, kind)
  PROVE  /\ f.kind = kind /\ f.target = Mha /\ NamedShape(f) = Cumulative(shape, phase)
         /\ IsRecord(f) /\ NamedCfg(req, f) = DefaultCfg
<1>1. PhaseFile(f, kind, shape, phase)
  BY AbiFileNamed
<1>2. NamedCfg(req, f) = DefaultCfg
  BY DefaultNames
<1> QED BY <1>1, <1>2 DEF PhaseFile

LEMMA CpuPhaseIsFed ==
  ASSUME NEW req, NEW W, Defaults(req), Aimed(req, Mha), NEW shape, Counted(shape),
         NEW phase \in Nat \ {0}, NEW tag
  PROVE  /\ Good(req, W, CpuPhase(shape, phase, tag))
         /\ AbiFile(shape, phase, tag, "cpu_state") \in LeftBy(CpuPhase(shape, phase, tag))
         /\ AbiFile(shape, phase, tag, "cpu_report") \in LeftBy(CpuPhase(shape, phase, tag))
<1> DEFINE d == AbiFile(shape, phase, tag, "cpu_state")
           r == AbiFile(shape, phase, tag, "cpu_report")
           all == Cumulative(shape, phase)
           c == HostProbeRepeat(Mha, all, DefaultCfg, d, r)
<1>1. CpuPhase(shape, phase, tag) = <<c>>
  BY ReuseFits DEF CpuPhase, CpuRepeat
<1>2. /\ d.kind = "cpu_state" /\ d.target = Mha /\ NamedShape(d) = all
      /\ IsRecord(d) /\ NamedCfg(req, d) = DefaultCfg
  BY AbiRecord DEF StateKinds
<1>3. r.kind = "cpu_report" /\ IsRecord(r)
  BY AbiRecord
<1>4. Counted(all)
  BY CumulativeCounted
<1> HIDE DEF d, r, all
<1>5. Fed(req, W, c) /\ Left(c) = {d, r}
  BY <1>2, <1>3, <1>4, ProbeStep
<1> HIDE DEF c
<1>6. Good(req, W, <<c>>) /\ LeftBy(<<c>>) = Left(c)
  BY <1>5, GoodOne, LeftByOne
<1> QED BY <1>1, <1>5, <1>6 DEF d, r

LEMMA CpuPhasesAreFed ==
  ASSUME NEW req, NEW W, Defaults(req), Aimed(req, Mha), NEW shape, Counted(shape),
         NEW phases \in Nat \ {0}, NEW tag, NEW seqs, CpuPhases(shape, phases, tag, seqs)
  PROVE  /\ Good(req, W, FlattenSeq(seqs))
         /\ LeavesPhases(shape, phases, tag, "cpu_state", LeftBy(FlattenSeq(seqs)))
         /\ LeavesPhases(shape, phases, tag, "cpu_report", LeftBy(FlattenSeq(seqs)))
<1>1. \A V : \A p \in 1 .. phases :
        /\ Good(req, V, seqs[p]) /\ IsSequence(seqs[p])
        /\ AbiFile(shape, p, tag, "cpu_state") \in LeftBy(seqs[p])
        /\ AbiFile(shape, p, tag, "cpu_report") \in LeftBy(seqs[p])
  <2> TAKE V
  <2> TAKE p \in 1 .. phases
  <2>1. seqs[p] = CpuPhase(shape, p, tag) /\ p \in Nat \ {0}
    BY DEF CpuPhases
  <2>2. /\ Good(req, V, CpuPhase(shape, p, tag))
        /\ AbiFile(shape, p, tag, "cpu_state") \in LeftBy(CpuPhase(shape, p, tag))
        /\ AbiFile(shape, p, tag, "cpu_report") \in LeftBy(CpuPhase(shape, p, tag))
    BY <2>1, CpuPhaseIsFed
  <2> QED BY <2>1, <2>2 DEF Good
<1>2. Chained(req, W, phases, seqs)
  <2>1. seqs \in [1 .. phases -> Elements(seqs)]
    BY DEF CpuPhases, Elements
  <2> QED BY <1>1, <2>1 DEF Chained
<1>3. Good(req, W, FlattenSeq(seqs)) /\ LeftBy(FlattenSeq(seqs)) = LeftUpTo(seqs, phases)
  BY <1>2, GoodFlat
<1>4. \A p \in 1 .. phases : LeftBy(seqs[p]) \subseteq LeftUpTo(seqs, phases)
  BY DEF LeftUpTo
<1>5. \A p \in 1 .. phases : /\ AbiFile(shape, p, tag, "cpu_state") \in LeftUpTo(seqs, phases)
                             /\ AbiFile(shape, p, tag, "cpu_report") \in LeftUpTo(seqs, phases)
  BY <1>1, <1>4
<1> QED BY <1>3, <1>5 DEF LeavesPhases

LEMMA ComparePhaseIsFed ==
  ASSUME NEW req, NEW W, Defaults(req), Aimed(req, Mha), NEW shape, Counted(shape),
         NEW phase \in Nat \ {0}, NEW tag,
         AbiFile(shape, phase, tag, "cpu_state") \in W,
         \/ AbiFile(shape, phase, tag, "gpu_state") \in W
         \/ SinglePhaseProbe(req)
  PROVE  /\ Good(req, W, ComparePhase(shape, phase, tag))
         /\ AbiFile(shape, phase, tag, "compare_report") \in LeftBy(ComparePhase(shape, phase, tag))
<1> DEFINE d == AbiFile(shape, phase, tag, "cpu_state")
           g == AbiFile(shape, phase, tag, "gpu_state")
           r == AbiFile(shape, phase, tag, "compare_report")
           all == Cumulative(shape, phase)
           c == Command("compare", About(Mha, all, DefaultCfg), {Model(Mha), d, g}, {r}, None)
<1>1. ComparePhase(shape, phase, tag) = <<c>>
  BY ReuseFits DEF ComparePhase, Compare
<1>2. /\ d.kind = "cpu_state" /\ d.target = Mha /\ NamedShape(d) = all
      /\ IsRecord(d) /\ NamedCfg(req, d) = DefaultCfg
  BY AbiRecord DEF StateKinds
<1>3. /\ g.kind = "gpu_state" /\ g.target = Mha /\ NamedShape(g) = all
      /\ IsRecord(g) /\ NamedCfg(req, g) = DefaultCfg
  BY AbiRecord DEF StateKinds
<1>4. r.kind = "compare_report" /\ IsRecord(r) /\ r.target = Mha /\ NamedShape(r) = all
  BY AbiRecord
<1>5. Counted(all)
  BY CumulativeCounted
<1>6. g \in W \/ Orphan(req, g)
  <2>1. g.tag[1] = AbiTag
    BY AbiFileNamed
  <2> HIDE DEF g
  <2>2. SinglePhaseProbe(req) => Orphan(req, g)
    BY <1>3, <2>1 DEF Orphan
  <2> QED BY <2>2 DEF g
<1>7. d \in W
  OBVIOUS
<1> HIDE DEF d, g, r, all
<1>8. Fed(req, W, c) /\ r \in Left(c)
  <2>1. /\ d.target = g.target /\ NamedShape(d) = NamedShape(g)
        /\ NamedCfg(req, d) = NamedCfg(req, g)
    BY <1>2, <1>3
  <2>2. /\ d.kind = "cpu_state" /\ IsRecord(d) /\ g.kind = "gpu_state" /\ IsRecord(g)
    BY <1>2, <1>3
  <2>3. \A e, x, y : 
          /\ e \in W /\ e.kind = "cpu_state" /\ IsRecord(e)
          /\ x.kind = "gpu_state" /\ IsRecord(x) /\ (x \in W \/ Orphan(req, x))
          /\ e.target = x.target /\ NamedShape(e) = NamedShape(x)
          /\ NamedCfg(req, e) = NamedCfg(req, x)
          /\ y.kind = "compare_report" /\ IsRecord(y) /\ y.target = Mha /\ NamedShape(y) = all
          => LET k == Command("compare", About(Mha, all, DefaultCfg), {Model(Mha), e, x}, {y}, None)
             IN  Fed(req, W, k) /\ y \in Left(k)
    BY <1>5, CompareStep
  <2> QED BY <1>4, <1>6, <1>7, <2>1, <2>2, <2>3
<1> HIDE DEF c
<1>9. Good(req, W, <<c>>) /\ LeftBy(<<c>>) = Left(c)
  BY <1>8, GoodOne, LeftByOne
<1> QED BY <1>1, <1>8, <1>9 DEF r

LEMMA ComparePhasesAreFed ==
  ASSUME NEW req, NEW W, Defaults(req), Aimed(req, Mha), NEW shape, Counted(shape),
         NEW phases \in Nat \ {0}, NEW tag, NEW seqs, ComparePhases(shape, phases, tag, seqs),
         LeavesPhases(shape, phases, tag, "cpu_state", W),
         LeavesPhases(shape, phases, tag, "gpu_state", W) \/ SinglePhaseProbe(req)
  PROVE  /\ Good(req, W, FlattenSeq(seqs))
         /\ LeavesPhases(shape, phases, tag, "compare_report", LeftBy(FlattenSeq(seqs)))
<1>1. \A V : W \subseteq V => \A p \in 1 .. phases :
        /\ Good(req, V, seqs[p]) /\ IsSequence(seqs[p])
        /\ AbiFile(shape, p, tag, "compare_report") \in LeftBy(seqs[p])
  <2> TAKE V
  <2> HAVE W \subseteq V
  <2> TAKE p \in 1 .. phases
  <2>1. seqs[p] = ComparePhase(shape, p, tag) /\ p \in Nat \ {0}
    BY DEF ComparePhases
  <2>2. /\ AbiFile(shape, p, tag, "cpu_state") \in V
        /\ AbiFile(shape, p, tag, "gpu_state") \in V \/ SinglePhaseProbe(req)
    BY DEF LeavesPhases
  <2>3. /\ Good(req, V, ComparePhase(shape, p, tag))
        /\ AbiFile(shape, p, tag, "compare_report") \in LeftBy(ComparePhase(shape, p, tag))
    BY <2>1, <2>2, ComparePhaseIsFed
  <2> QED BY <2>1, <2>3 DEF Good
<1>2. Chained(req, W, phases, seqs)
  <2>1. seqs \in [1 .. phases -> Elements(seqs)]
    BY DEF ComparePhases, Elements
  <2>2. \A i : W \subseteq W \cup LeftUpTo(seqs, i)
    OBVIOUS
  <2>3. \A i \in 1 .. phases :
          Good(req, W \cup LeftUpTo(seqs, i - 1), seqs[i]) /\ IsSequence(seqs[i])
    BY <1>1, <2>2
  <2> QED BY <2>1, <2>3 DEF Chained
<1>3. Good(req, W, FlattenSeq(seqs)) /\ LeftBy(FlattenSeq(seqs)) = LeftUpTo(seqs, phases)
  BY <1>2, GoodFlat
<1>4. \A p \in 1 .. phases : LeftBy(seqs[p]) \subseteq LeftUpTo(seqs, phases)
  BY DEF LeftUpTo
<1>5. \A p \in 1 .. phases : AbiFile(shape, p, tag, "compare_report") \in LeftUpTo(seqs, phases)
  <2>1. W \subseteq W
    OBVIOUS
  <2> QED BY <1>1, <1>4, <2>1
<1> QED BY <1>3, <1>5 DEF LeavesPhases

LEMMA AbiInitIsFed ==
  ASSUME NEW req, NEW W, Defaults(req), Aimed(req, Mha), NEW shape, Counted(shape), NEW tag
  PROVE  /\ Fed(req, W, AbiInit(shape, tag))
         /\ InitStateFile(ReuseWorkload(shape)) \in Left(AbiInit(shape, tag))
<1> DEFINE w == ReuseWorkload(shape)
           f == InitStateFile(w)
           t == <<AbiTag, tag[1], 0, tag[2]>>
           r == Named("cpu_report", Mha, <<1, 1>>, t)
<1>1. Fits(req, w) /\ w.target = Mha
  BY ReuseFits
<1>2. /\ f.kind = "cpu_state" /\ IsRecord(f) /\ f.target = Mha /\ NamedShape(f) = <<1, 1>>
      /\ NamedCfg(req, f) = DefaultCfg
  BY <1>1, InitFiles, DefaultNames
<1>3. r.kind = "cpu_report" /\ IsRecord(r)
  <2>1. PhaseFile(r, "cpu_report", <<1, 1>>, 0)
    BY PhaseNamed
  <2> HIDE DEF r
  <2> QED BY <2>1 DEF PhaseFile
<1>4. AbiInit(shape, tag) = HostProbeRepeat(Mha, <<1, 1>>, DefaultCfg, f, r)
  BY <1>1 DEF AbiInit, CpuRepeat, AbiTag
<1> HIDE DEF f, r
<1> DEFINE c == HostProbeRepeat(Mha, <<1, 1>>, DefaultCfg, f, r)
<1>5. Fed(req, W, c) /\ Left(c) = {f, r}
  BY <1>2, <1>3, OneByOne, ProbeStep
<1> QED BY <1>4, <1>5 DEF f

LEMMA PhasesLaunchIsFed ==
  ASSUME NEW req, NEW W, Defaults(req), Aimed(req, Mha), NEW shape, Counted(shape),
         NEW phases \in Nat \ {0}, NEW tag, InitStateFile(ReuseWorkload(shape)) \in W
  PROVE  /\ Fed(req, W, HybridMultiphase(shape, phases, tag))
         /\ AbiHybridReport(shape, tag) \in Left(HybridMultiphase(shape, phases, tag))
         /\ phases > 1 =>
              LeavesPhases(shape, phases, tag, "gpu_state", Left(HybridMultiphase(shape, phases, tag)))
<1> DEFINE start == InitStateFile(ReuseWorkload(shape))
           dumps == IF phases > 1 THEN {AbiFile(shape, p, tag, "gpu_state") : p \in 1..phases}
                    ELSE {}
           report == AbiHybridReport(shape, tag)
           c == HybridMultiphase(shape, phases, tag)
<1>1. /\ c.tool = "run_vl_hybrid_phases" /\ c.about.target = Mha /\ c.about.shape = shape
      /\ c.reads = {Cubin(Mha), start} /\ c.writes = dumps /\ c.stdout = report
  BY DEF HybridMultiphase, Command, About
<1>2. start.kind = "cpu_state" /\ IsRecord(start) /\ NamedCfg(req, start) = DefaultCfg
  BY ReuseFits, InitFiles, DefaultNames
<1>3. report.kind = "hybrid_report" /\ IsRecord(report)
  <2>1. report = AbiFile(shape, 0, tag, "hybrid_report")
    BY DEF AbiHybridReport
  <2> QED BY <2>1, AbiRecord
<1>4. \A f \in dumps :
        /\ f.kind = "gpu_state" /\ IsRecord(f) /\ f.target = Mha
        /\ NamedCfg(req, f) = DefaultCfg /\ f.tag[3] \in Nat \ {0}
        /\ NamedShape(f) = <<shape[1], f.tag[3] * shape[2]>>
  <2> SUFFICES ASSUME NEW f \in dumps
               PROVE  /\ f.kind = "gpu_state" /\ IsRecord(f) /\ f.target = Mha
                      /\ NamedCfg(req, f) = DefaultCfg /\ f.tag[3] \in Nat \ {0}
                      /\ NamedShape(f) = <<shape[1], f.tag[3] * shape[2]>>
    OBVIOUS
  <2>1. PICK p \in 1 .. phases : f = AbiFile(shape, p, tag, "gpu_state")
    OBVIOUS
  <2>2. /\ f.kind = "gpu_state" /\ f.target = Mha /\ NamedShape(f) = Cumulative(shape, p)
        /\ IsRecord(f) /\ NamedCfg(req, f) = DefaultCfg
    BY <2>1, AbiRecord DEF StateKinds
  <2>3. f.tag[3] = p /\ p \in Nat \ {0}
    BY <2>1, AbiFileNamed
  <2>4. Cumulative(shape, p) = <<shape[1], p * shape[2]>>
    BY <2>3, CumulativeCounted
  <2> QED BY <2>2, <2>3, <2>4
<1>5. phases > 1 => LeavesPhases(shape, phases, tag, "gpu_state", dumps)
  BY DEF LeavesPhases
<1> HIDE DEF start, dumps, report, c
<1>6. Dumps(c) = {start}
  BY <1>1, <1>2, BuiltFiles DEF Dumps
<1>7. start \in W
  BY DEF start
<1>8. LaunchFed(req, W, c)
  BY <1>1, <1>2, <1>3, <1>4, <1>6, <1>7 DEF LaunchFed, Stdout
<1>9. Left(c) = dumps \cup {report}
  BY <1>1 DEF Left, Recorders, Measuring
<1>10. phases > 1 => LeavesPhases(shape, phases, tag, "gpu_state", Left(c))
  BY <1>5, <1>9 DEF LeavesPhases
<1> QED BY <1>8, <1>9, <1>10 DEF Fed, c, report

(* A probe compares the dumps of its own launch; with one phase alone the  *)
(* launch dumps nothing.                                                   *)
LEMMA PersistentProbeIsFed ==
  ASSUME NEW req, NEW W, Defaults(req), Aimed(req, Mha), NEW shape, Counted(shape),
         NEW phases \in Nat \ {0}, NEW tag,
         NEW summary, summary.kind = "summary", IsRecord(summary),
         phases = 1 => SinglePhaseProbe(req)
  PROVE  /\ Good(req, W, PersistentProbe(shape, phases, tag, summary))
         /\ summary \in LeftBy(PersistentProbe(shape, phases, tag, summary))
         /\ AbiReports(shape, phases, tag)
              \subseteq LeftBy(PersistentProbe(shape, phases, tag, summary))
<1> DEFINE a == AbiInit(shape, tag)
           cpu == [p \in 1 .. phases |-> CpuPhase(shape, p, tag)]
           compare == [p \in 1 .. phases |-> ComparePhase(shape, p, tag)]
           s == FlattenSeq(cpu)
           h == HybridMultiphase(shape, phases, tag)
           t == FlattenSeq(compare)
           parts == AbiReports(shape, phases, tag)
           about == About(Mha, shape, phases)
           z == Summarize(about, parts, summary)
           V == W \cup Left(a)
           u == Around(a, s, h)
           X == W \cup LeftBy(u)
<1>1. PersistentProbe(shape, phases, tag, summary) = After(u \o t, z)
  BY DEF PersistentProbe, Each, Around, After, Counted
<1>2. Fed(req, W, a) /\ InitStateFile(ReuseWorkload(shape)) \in Left(a)
  BY AbiInitIsFed
<1>3. CpuPhases(shape, phases, tag, cpu) /\ ComparePhases(shape, phases, tag, compare)
  BY DEF CpuPhases, ComparePhases
<1> HIDE DEF a, cpu, compare
<1>4. /\ Good(req, V, s)
      /\ LeavesPhases(shape, phases, tag, "cpu_state", LeftBy(s))
      /\ LeavesPhases(shape, phases, tag, "cpu_report", LeftBy(s))
  BY <1>3, CpuPhasesAreFed
<1> HIDE DEF s
<1>5. /\ Fed(req, W \cup Left(a) \cup LeftBy(s), h)
      /\ AbiHybridReport(shape, tag) \in Left(h)
      /\ phases > 1 => LeavesPhases(shape, phases, tag, "gpu_state", Left(h))
  <2>1. InitStateFile(ReuseWorkload(shape)) \in W \cup Left(a) \cup LeftBy(s)
    BY <1>2
  <2> QED BY <2>1, PhasesLaunchIsFed
<1> HIDE DEF h
<1>6. Good(req, W, u) /\ LeftBy(u) = Left(a) \cup LeftBy(s) \cup Left(h)
  <2>1. Good(req, W \cup Left(a), s)
    BY <1>4
  <2> QED BY <1>2, <1>5, <2>1, GoodAround
<1> HIDE DEF u
<1>7. /\ LeavesPhases(shape, phases, tag, "cpu_state", X)
      /\ LeavesPhases(shape, phases, tag, "gpu_state", X) \/ SinglePhaseProbe(req)
  BY <1>4, <1>5, <1>6 DEF LeavesPhases
<1>8. /\ Good(req, X, t)
      /\ LeavesPhases(shape, phases, tag, "compare_report", LeftBy(t))
  <2> HIDE DEF X
  <2> QED BY <1>3, <1>7, ComparePhasesAreFed
<1> HIDE DEF t
<1>9. Good(req, W, u \o t) /\ LeftBy(u \o t) = LeftBy(u) \cup LeftBy(t)
  BY <1>6, <1>8, GoodJoined, Joined DEF Good
<1> DEFINE v == u \o t
<1>10. parts \subseteq LeftBy(v)
  <2>1. \A f \in parts : \/ \E p \in 1 .. phases : f = AbiFile(shape, p, tag, "cpu_report")
                         \/ \E p \in 1 .. phases : f = AbiFile(shape, p, tag, "compare_report")
                         \/ f = AbiHybridReport(shape, tag)
    BY DEF AbiReports
  <2> HIDE DEF parts, v
  <2> QED BY <1>4, <1>5, <1>6, <1>8, <1>9, <2>1 DEF LeavesPhases, v
<1>11. parts # {}
  BY DEF AbiReports
<1>12. about.target = Mha
  BY DEF About
<1> HIDE DEF v, parts, about
<1>13. Fed(req, W \cup LeftBy(v), z) /\ summary \in Left(z)
  BY <1>10, <1>11, <1>12, SummarizeStep
<1> HIDE DEF z
<1>14. Good(req, W, After(v, z)) /\ LeftBy(After(v, z)) = LeftBy(v) \cup Left(z)
  BY <1>9, <1>13, GoodAfter DEF v
<1> QED BY <1>1, <1>10, <1>13, <1>14 DEF v, parts

(* Samples, and the sweep over the cases.                                  *)
LEMMA RepeatSampleIsFed ==
  ASSUME NEW req, NEW W, Defaults(req), Aimed(req, Mha), NEW shape, Counted(shape),
         NEW phases \in Nat \ {0}, NEW prefix, NEW i,
         phases = 1 => SinglePhaseProbe(req)
  PROVE  /\ Good(req, W, RepeatSample(shape, phases, prefix, i))
         /\ SampleSummary(prefix, i) \in LeftBy(RepeatSample(shape, phases, prefix, i))
<1> DEFINE tag == <<prefix, i>>
           summary == SampleSummary(prefix, i)
           s == PersistentProbe(shape, phases, tag, summary)
           parts == AbiReports(shape, phases, tag)
           about == About(Mha, shape, phases)
           z == Summarize(about, parts, summary)
<1>1. RepeatSample(shape, phases, prefix, i) = After(s, z)
  BY DEF RepeatSample, AnnotateSample, After
<1>2. summary.kind = "summary" /\ IsRecord(summary)
  BY ReportFields DEF SampleSummary
<1>3. about.target = Mha
  BY DEF About
<1> HIDE DEF tag, summary
<1>4. Good(req, W, s) /\ parts \subseteq LeftBy(s)
  BY <1>2, PersistentProbeIsFed
<1>5. parts # {}
  BY DEF AbiReports
<1> HIDE DEF s, parts, about
<1>6. Fed(req, W \cup LeftBy(s), z) /\ summary \in Left(z)
  BY <1>2, <1>3, <1>4, <1>5, SummarizeStep
<1> HIDE DEF z
<1>7. Good(req, W, After(s, z)) /\ LeftBy(After(s, z)) = LeftBy(s) \cup Left(z)
  BY <1>4, <1>6, GoodAfter
<1> QED BY <1>1, <1>6, <1>7 DEF summary

LEMMA RepeatMedianIsFed ==
  ASSUME NEW req, NEW W, Defaults(req), Aimed(req, Mha), NEW shape, Counted(shape),
         NEW phases \in Nat \ {0}, NEW repeat \in Nat \ {0}, NEW prefix,
         NEW summary, summary.kind = "summary", IsRecord(summary),
         phases = 1 => SinglePhaseProbe(req)
  PROVE  /\ Good(req, W, PersistentRepeatMedian(shape, phases, repeat, prefix, summary))
         /\ summary \in LeftBy(PersistentRepeatMedian(shape, phases, repeat, prefix, summary))
<1> DEFINE seqs == [i \in 1 .. repeat |-> RepeatSample(shape, phases, prefix, i)]
           s == FlattenSeq(seqs)
           parts == {SampleSummary(prefix, i) : i \in 1..repeat}
           about == About(Mha, shape, phases)
           z == Summarize(about, parts, summary)
<1>1. PersistentRepeatMedian(shape, phases, repeat, prefix, summary) = After(s, z)
  BY DEF PersistentRepeatMedian, Each, After, Counted
<1>2. \A V : \A i \in 1 .. repeat :
        Good(req, V, seqs[i]) /\ IsSequence(seqs[i]) /\ SampleSummary(prefix, i) \in LeftBy(seqs[i])
  <2> TAKE V
  <2> TAKE i \in 1 .. repeat
  <2>1. seqs[i] = RepeatSample(shape, phases, prefix, i)
    OBVIOUS
  <2>2. /\ Good(req, V, RepeatSample(shape, phases, prefix, i))
        /\ SampleSummary(prefix, i) \in LeftBy(RepeatSample(shape, phases, prefix, i))
    BY RepeatSampleIsFed
  <2> HIDE DEF seqs
  <2> QED BY <2>1, <2>2 DEF Good
<1>3. seqs \in [1 .. repeat -> Elements(seqs)]
  BY DEF Elements
<1> HIDE DEF seqs
<1>4. Good(req, W, s) /\ LeftBy(s) = LeftUpTo(seqs, repeat)
  <2>1. Chained(req, W, repeat, seqs)
    BY <1>2, <1>3 DEF Chained
  <2> QED BY <2>1, GoodFlat
<1>5. parts \subseteq LeftBy(s) /\ parts # {}
  <2>1. SampleSummary(prefix, 1) \in parts
    OBVIOUS
  <2> QED BY <1>2, <1>4, <2>1 DEF LeftUpTo
<1>6. about.target = Mha
  BY DEF About
<1> HIDE DEF s, parts, about
<1>7. Fed(req, W \cup LeftBy(s), z) /\ summary \in Left(z)
  BY <1>5, <1>6, SummarizeStep
<1> HIDE DEF z
<1>8. Good(req, W, After(s, z)) /\ LeftBy(After(s, z)) = LeftBy(s) \cup Left(z)
  BY <1>4, <1>7, GoodAfter
<1> QED BY <1>1, <1>7, <1>8

LEMMA SweepIsFed ==
  ASSUME NEW req, NEW W, req.program = "reproduction"
  PROVE  Good(req, W, ShapePhaseSweep)
<1> DEFINE n == Len(ShapePhaseCases)
           seqs == [i \in 1 .. n |-> ShapePhaseCase(ShapePhaseCases[i])]
           s == FlattenSeq(seqs)
           parts == {CaseSummary(ShapePhaseCases[i]) : i \in DOMAIN ShapePhaseCases}
           about == About(Mha, Unshaped, None)
           summary == Report("shape_phase_sweep", "summary", 0)
           z == Summarize(about, parts, summary)
<1>0. Defaults(req) /\ Aimed(req, Mha)
  BY DEF Defaults, Aimed, Sliced
<1>1. ShapePhaseSweep = After(s, z)
  BY DEF ShapePhaseSweep, Each, After
<1>2. n \in Nat \ {0} /\ DOMAIN ShapePhaseCases = 1 .. n
  BY CasesAssumption
<1>3. \A V : \A i \in 1 .. n :
        /\ Good(req, V, seqs[i]) /\ IsSequence(seqs[i])
        /\ CaseSummary(ShapePhaseCases[i]) \in LeftBy(seqs[i])
  <2> TAKE V
  <2> TAKE i \in 1 .. n
  <2> DEFINE case == ShapePhaseCases[i]
             median == PersistentRepeatMedian(case.shape, case.phases, case.repeat, case.id,
                                              CaseSummary(case))
  <2>1. seqs[i] = median
    BY DEF ShapePhaseCase
  <2>2. case \in [id : STRING, shape : Int \X Int, phases : Nat, repeat : Nat]
    <3> DEFINE S == [id : STRING, shape : Int \X Int, phases : Nat, repeat : Nat]
    <3>1. ShapePhaseCases \in Seq(S)
      BY CasesAssumption
    <3> HIDE DEF S
    <3>2. \A j \in DOMAIN ShapePhaseCases : ShapePhaseCases[j] \in S
      BY <3>1
    <3> QED BY <1>2, <3>2 DEF S
  <2>3. PositiveShape(case.shape) /\ case.phases > 1 /\ case.repeat > 0
    BY <1>2, CasesAssumption
  <2> HIDE DEF case
  <2>4. /\ Counted(case.shape) /\ case.phases \in Nat \ {0} /\ case.repeat \in Nat \ {0}
        /\ case.phases # 1
    BY <2>2, <2>3 DEF Counted
  <2>5. CaseSummary(case).kind = "summary" /\ IsRecord(CaseSummary(case))
    BY ReportFields DEF CaseSummary
  <2>6. Good(req, V, median) /\ CaseSummary(case) \in LeftBy(median)
    BY <1>0, <2>4, <2>5, RepeatMedianIsFed
  <2> HIDE DEF seqs, median
  <2> QED BY <2>1, <2>6 DEF Good, case
<1>4. seqs \in [1 .. n -> Elements(seqs)]
  BY DEF Elements
<1> HIDE DEF seqs
<1>5. Good(req, W, s) /\ LeftBy(s) = LeftUpTo(seqs, n)
  <2>1. Chained(req, W, n, seqs)
    BY <1>3, <1>4 DEF Chained
  <2>2. n \in Nat
    BY <1>2
  <2> HIDE DEF n
  <2> QED BY <2>1, <2>2, GoodFlat
<1>6. parts \subseteq LeftBy(s) /\ parts # {}
  <2>1. 1 \in DOMAIN ShapePhaseCases
    BY <1>2
  <2> HIDE DEF n
  <2> QED BY <1>2, <1>3, <1>5, <2>1 DEF LeftUpTo
<1>7. about.target = Mha
  BY DEF About
<1>8. summary.kind = "summary" /\ IsRecord(summary)
  BY ReportFields
<1> HIDE DEF s, parts, about, summary
<1>9. Fed(req, W \cup LeftBy(s), z)
  BY <1>0, <1>6, <1>7, <1>8, SummarizeStep
<1> HIDE DEF z
<1> QED BY <1>1, <1>5, <1>9, GoodAfter

----------------------------------------------------------------------------
(* The representative results.                                             *)

ResidentPair(shape, reference) ==
  <<Hybrid(Workload(Mha, shape, TRUE, ""), File("cpu_state", Mha, <<1, 1>>),
           ResidentFile(shape, "gpu_state"), ResidentFile(shape, "hybrid_report")),
    Compare(Workload(Mha, shape, TRUE, ""), shape, reference, ResidentFile(shape, "gpu_state"),
            ResidentFile(shape, "compare_report"))>>

LEMMA TwoInLine ==
  ASSUME NEW a, NEW b
  PROVE  IsSequence(<<a, b>>)
<1> DEFINE s == <<a, b>>
<1>1. s \in Seq({a, b})
  OBVIOUS
<1> HIDE DEF s
<1>2. IsSequence(s)
  BY <1>1, SequenceOf
<1> QED BY <1>2 DEF s

LEMMA GoodTwo ==
  ASSUME NEW req, NEW W, NEW a, NEW b, Fed(req, W, a), Fed(req, W \cup Left(a), b)
  PROVE  Good(req, W, <<a, b>>)
<1> DEFINE s == <<a, b>>
<1>1. Len(s) = 2 /\ s[1] = a /\ s[2] = b /\ DOMAIN s = 1 .. 2
  OBVIOUS
<1>2. IsSequence(s)
  BY TwoInLine
<1> HIDE DEF s
<1>3. Before(s, 1) = {} /\ Before(s, 2) = Left(a)
  <2>1. 1 .. 1 - 1 = {} /\ 1 .. 2 - 1 = {1}
    OBVIOUS
  <2> QED BY <1>1, <2>1 DEF Before
<1>4. W \cup Before(s, 1) = W
  BY <1>3
<1>5. \A i \in 1 .. 2 : Fed(req, W \cup Before(s, i), s[i])
  <2>1. 1 .. 2 = {1, 2}
    OBVIOUS
  <2> QED BY <1>1, <1>3, <1>4, <2>1
<1> QED BY <1>1, <1>2, <1>5 DEF Good, s

LEMMA ResidentNamed ==
  ASSUME NEW shape, NEW kind \in StateKinds \cup {"cpu_report", "hybrid_report", "compare_report"},
         NEW f, f = ResidentFile(shape, kind)
  PROVE  f.kind = kind /\ f.target = Mha /\ NamedShape(f) = shape /\ IsRecord(f)
<1> DEFINE tag == <<"resident", "", 0, 0>>
<1>1. f.kind = kind /\ f.target = Mha /\ f.shape = shape /\ f.tag = tag
  BY DEF ResidentFile, Named
<1>2. tag[1] = "resident"
  OBVIOUS
<1>3. f.tag[1] = "resident"
  BY <1>1, <1>2
<1> HIDE DEF tag
<1>4. NamedShape(f) = shape
  BY <1>1, <1>3 DEF NamedShape, AbiTag
<1>5. IsRecord(f)
  BY <1>1, <1>3 DEF IsRecord
<1> QED BY <1>1, <1>4, <1>5

LEMMA ResidentPairIsFed ==
  ASSUME NEW req, NEW W, req.program = "reproduction", NEW shape, Counted(shape),
         NEW reference, reference = File("cpu_state", Mha, shape),
         reference \in W, File("cpu_state", Mha, <<1, 1>>) \in W
  PROVE  Good(req, W, ResidentPair(shape, reference))
<1> DEFINE F(k) == ResidentFile(shape, k)
           start == File("cpu_state", Mha, <<1, 1>>)
           b == Command("run_vl_hybrid", About(Mha, shape, DefaultCfg),
                        {Cubin(Mha), start}, {F("gpu_state")}, F("hybrid_report"))
           c == Command("compare", About(Mha, shape, DefaultCfg),
                        {Model(Mha), reference, F("gpu_state")}, {F("compare_report")}, None)
<1>1. ResidentPair(shape, reference) = <<b, c>>
  BY DEF ResidentPair, Hybrid, Compare, Workload
<1>2. Aimed(req, Mha) /\ Defaults(req)
  BY DEF Aimed, Sliced, Defaults
<1>3. \A k \in StateKinds \cup {"cpu_report", "hybrid_report", "compare_report"} :
        /\ F(k).kind = k /\ F(k).target = Mha /\ NamedShape(F(k)) = shape /\ IsRecord(F(k))
        /\ NamedCfg(req, F(k)) = DefaultCfg
  <2> TAKE k \in StateKinds \cup {"cpu_report", "hybrid_report", "compare_report"}
  <2>1. F(k).kind = k /\ F(k).target = Mha /\ NamedShape(F(k)) = shape /\ IsRecord(F(k))
    BY ResidentNamed
  <2>2. NamedCfg(req, F(k)) = DefaultCfg
    BY <1>2, DefaultNames
  <2> QED BY <2>1, <2>2
<1>4. /\ start.kind = "cpu_state" /\ IsRecord(start) /\ NamedCfg(req, start) = DefaultCfg
      /\ start \in W
  BY <1>2, FileFields, DefaultNames DEF StateKinds
<1>5. /\ reference.kind = "cpu_state" /\ reference.target = Mha /\ NamedShape(reference) = shape
      /\ IsRecord(reference) /\ NamedCfg(req, reference) = DefaultCfg
  BY <1>2, FileFields, DefaultNames DEF StateKinds
<1> HIDE DEF F, start
<1>6. Fed(req, W, b) /\ Left(b) = {F("gpu_state"), F("hybrid_report")}
  <2>1. /\ F("gpu_state").kind = "gpu_state" /\ IsRecord(F("gpu_state"))
        /\ F("gpu_state").target = Mha /\ NamedShape(F("gpu_state")) = shape
        /\ NamedCfg(req, F("gpu_state")) = NamedCfg(req, start)
        /\ F("hybrid_report").kind = "hybrid_report" /\ IsRecord(F("hybrid_report"))
    BY <1>3, <1>4 DEF StateKinds
  <2> QED BY <1>2, <1>4, <2>1, HybridStep
<1>7. \A V : reference \in V /\ F("gpu_state") \in V => Fed(req, V, c)
  <2> TAKE V
  <2> HAVE reference \in V /\ F("gpu_state") \in V
  <2> DEFINE g == F("gpu_state")
             r == F("compare_report")
  <2>1. /\ g.kind = "gpu_state" /\ IsRecord(g)
        /\ reference.target = g.target /\ NamedShape(reference) = NamedShape(g)
        /\ NamedCfg(req, reference) = NamedCfg(req, g)
        /\ r.kind = "compare_report" /\ IsRecord(r) /\ r.target = Mha /\ NamedShape(r) = shape
    BY <1>3, <1>5 DEF StateKinds
  <2> QED BY <1>2, <1>5, <2>1, CompareStep
<1> HIDE DEF b, c
<1>8. Fed(req, W \cup Left(b), c)
  BY <1>6, <1>7
<1>9. Good(req, W, <<b, c>>)
  BY <1>6, <1>8, GoodTwo
<1> QED BY <1>1, <1>9

LEMMA ResidentRunIsSequence ==
  ASSUME NEW n
  PROVE  IsSequence(ResidentRun(n))
<1> DEFINE shape == <<n, 64>>
           w == Workload(Mha, shape, TRUE, "")
           reference == File("cpu_state", Mha, shape)
           a == CpuRepeat(w, shape, reference, File("cpu_report", Mha, shape))
           first == IF n = 1 THEN <<>> ELSE <<a>>
           pair == ResidentPair(shape, reference)
<1>1. ResidentRun(n) = first \o pair
  BY DEF ResidentRun, ResidentPair
<1>2. IsSequence(pair)
  BY TwoInLine DEF ResidentPair
<1>3. IsSequence(first)
  <2> HIDE DEF a
  <2>1. IsSequence(<<>>)
    BY DEF IsSequence
  <2>2. IsSequence(<<a>>)
    <3> DEFINE x == <<a>>
    <3>1. x \in Seq({a})
      OBVIOUS
    <3> HIDE DEF x
    <3>2. IsSequence(x)
      BY <3>1, SequenceOf
    <3> QED BY <3>2 DEF x
  <2> QED BY <2>1, <2>2
<1> HIDE DEF first, pair
<1> QED BY <1>1, <1>2, <1>3, Joined

LEMMA ResidentRunIsFed ==
  ASSUME NEW req, NEW W, req.program = "reproduction", NEW n \in {1, 32},
         File("cpu_state", Mha, <<1, 1>>) \in W, File("cpu_state", Mha, <<1, 64>>) \in W
  PROVE  Good(req, W, ResidentRun(n))
<1> DEFINE shape == <<n, 64>>
           w == Workload(Mha, shape, TRUE, "")
           reference == File("cpu_state", Mha, shape)
           report == File("cpu_report", Mha, shape)
           a == HostProbeRepeat(Mha, shape, DefaultCfg, reference, report)
           pair == ResidentPair(shape, reference)
<1>1. Counted(shape)
  BY NoneAssumption DEF Counted, PositiveShape, Positive
<1>2. CASE n = 1
  <2>1. ResidentRun(n) = pair
    <3>1. ResidentRun(n) = <<>> \o pair
      BY <1>2 DEF ResidentRun, ResidentPair
    <3>2. \A b, c : <<>> \o <<b, c>> = <<b, c>>
      OBVIOUS
    <3> QED BY <3>1, <3>2 DEF ResidentPair
  <2>2. reference \in W
    BY <1>2
  <2> HIDE DEF shape, pair
  <2>3. Good(req, W, pair)
    BY <1>1, <2>2, ResidentPairIsFed DEF pair
  <2> QED BY <2>1, <2>3
<1>3. CASE n # 1
  <2>1. ResidentRun(n) = <<a>> \o pair
    BY <1>3 DEF ResidentRun, ResidentPair, CpuRepeat, Workload
  <2>2. Aimed(req, Mha) /\ Defaults(req)
    BY DEF Aimed, Sliced, Defaults
  <2> HIDE DEF shape
  <2>3. /\ reference.kind = "cpu_state" /\ reference.target = Mha /\ NamedShape(reference) = shape
        /\ IsRecord(reference) /\ NamedCfg(req, reference) = DefaultCfg
        /\ report.kind = "cpu_report" /\ IsRecord(report)
    BY <2>2, FileFields, DefaultNames DEF StateKinds
  <2>4. Fed(req, W, a) /\ Left(a) = {reference, report}
    <3> HIDE DEF reference, report
    <3> QED BY <1>1, <2>2, <2>3, ProbeStep
  <2> DEFINE x == <<a>>
  <2>5. Good(req, W, x) /\ LeftBy(x) = Left(a)
    <3> HIDE DEF a
    <3> QED BY <2>4, GoodOne, LeftByOne
  <2>6. Good(req, W \cup LeftBy(x), pair)
    <3>1. reference \in W \cup LeftBy(x) /\ File("cpu_state", Mha, <<1, 1>>) \in W \cup LeftBy(x)
      BY <2>4, <2>5
    <3> HIDE DEF x
    <3> QED BY <1>1, <3>1, ResidentPairIsFed
  <2>7. IsSequence(pair)
    BY <2>6 DEF Good
  <2> HIDE DEF x, pair
  <2>8. Good(req, W, x \o pair)
    BY <2>5, <2>6, <2>7, GoodJoined
  <2> QED BY <2>1, <2>8 DEF x
<1> QED BY <1>2, <1>3

LEMMA ReproductionPlanIsFed ==
  ASSUME NEW req, NEW W, req.program = "reproduction"
  PROVE  Good(req, W, ReproductionPlan)
<1> DEFINE t1 == TemplateRun(Mha, <<64, 1>>, DefaultCfg)
           t2 == TemplateRun(Mha, <<1, 64>>, DefaultCfg)
           r1 == ResidentRun(1)
           r2 == ResidentRun(32)
           t3 == TemplateRun(KvScore, <<64, 1>>, DefaultCfg)
           init == File("cpu_state", Mha, <<1, 1>>)
           reference == File("cpu_state", Mha, <<1, 64>>)
<1>1. ReproductionPlan = (((t1 \o t2) \o r1) \o r2) \o t3
  BY DEF ReproductionPlan
<1>2. \A target : Aimed(req, target)
  BY DEF Aimed, Sliced
<1>3. Defaults(req)
  BY DEF Defaults
<1>4. \A V : Good(req, V, t1)
  BY <1>2, <1>3, TemplateRunIsFed
<1>5. \A V : Good(req, V, t2) /\ (Raises(t2) \/ {init, reference} \subseteq LeftBy(t2))
  <2> TAKE V
  <2> DEFINE plan == HybridPlan(Mha, <<1, 64>>, DefaultCfg)
  <2>1. /\ Good(req, V, t2)
        /\ Raises(t2) \/ (plan # None /\ {plan.init, plan.reference} \subseteq LeftBy(t2))
    BY <1>2, <1>3, TemplateRunIsFed
  <2>2. ASSUME plan # None PROVE plan.init = init /\ plan.reference = reference
    <3>1. /\ Mha \in DOMAIN Payloads /\ plan.target = Payloads[Mha].target
          /\ plan.init = File("cpu_state", plan.target, <<1, 1>>)
          /\ plan.reference = File("cpu_state", plan.target, <<1, 64>>)
      <4>1. PICK p : p = plan
        OBVIOUS
      <4> HIDE DEF plan
      <4> QED BY <2>2, <4>1, PlanFields DEF plan
    <3> QED BY <3>1, TemplatesAssumption
  <2> HIDE DEF plan, init, reference, t2
  <2> QED BY <2>1, <2>2
<1>6. \A V : Good(req, V, t3)
  BY <1>2, <1>3, TemplateRunIsFed
<1>7. IsSequence(r1) /\ IsSequence(r2) /\ IsSequence(t1) /\ IsSequence(t2) /\ IsSequence(t3)
  BY <1>4, <1>5, <1>6, ResidentRunIsSequence DEF Good
<1>8. \A V : init \in V /\ reference \in V => Good(req, V, r1) /\ Good(req, V, r2)
  <2>1. 1 \in {1, 32} /\ 32 \in {1, 32}
    OBVIOUS
  <2> QED BY <2>1, ResidentRunIsFed
<1> HIDE DEF t1, t2, t3, r1, r2, init, reference
<1> DEFINE x == t1 \o t2
<1>9. /\ Good(req, W, x) /\ IsSequence(x)
      /\ Raises(x) \/ {init, reference} \subseteq LeftBy(x)
  <2>1. Good(req, W, x) /\ IsSequence(x)
    BY <1>4, <1>5, <1>7, GoodJoined, Joined
  <2>2. (Raises(x) <=> Raises(t1) \/ Raises(t2)) /\ LeftBy(x) = LeftBy(t1) \cup LeftBy(t2)
    BY <1>7, Joined
  <2> QED BY <1>5, <2>1, <2>2
<1> HIDE DEF x
<1> DEFINE y == x \o r1
<1>10. /\ Good(req, W, y) /\ IsSequence(y)
       /\ Raises(y) \/ {init, reference} \subseteq LeftBy(y)
  <2>1. Raises(x) \/ Good(req, W \cup LeftBy(x), r1)
    BY <1>8, <1>9
  <2>2. Good(req, W, y) /\ IsSequence(y)
    BY <1>7, <1>9, <2>1, GoodJoined, Joined
  <2>3. (Raises(y) <=> Raises(x) \/ Raises(r1)) /\ LeftBy(y) = LeftBy(x) \cup LeftBy(r1)
    BY <1>7, <1>9, Joined
  <2> QED BY <1>9, <2>2, <2>3
<1> HIDE DEF y
<1> DEFINE z == y \o r2
<1>11. Good(req, W, z)
  <2>1. Raises(y) \/ Good(req, W \cup LeftBy(y), r2)
    BY <1>8, <1>10
  <2> QED BY <1>7, <1>10, <2>1, GoodJoined
<1> HIDE DEF z
<1>12. Good(req, W, z \o t3)
  <2>1. Good(req, W \cup LeftBy(z), t3)
    BY <1>6
  <2> QED BY <1>7, <1>11, <2>1, GoodJoined
<1> QED BY <1>1, <1>12 DEF x, y, z

----------------------------------------------------------------------------
(* The evaluation.                                                         *)

LEMMA DatasetFiles ==
  ASSUME NEW f \in {Manifest, Predictions, Accuracy, EvalSummary}
  PROVE  ~IsRecord(f)
<1>1. PICK sub : f = Report("mobile_vit", sub, 0)
  BY DEF Manifest, Predictions, Accuracy, EvalSummary
<1> DEFINE tag == <<"mobile_vit", sub, 0, 0>>
<1>2. f.tag = tag
  BY <1>1 DEF Report, Named
<1>3. tag[1] = "mobile_vit"
  OBVIOUS
<1>4. f.tag[1] = "mobile_vit"
  BY <1>2, <1>3
<1> HIDE DEF tag
<1> QED BY <1>4 DEF IsRecord

LEMMA RecordStep ==
  ASSUME NEW req, NEW W, ~Sliced(req),
         NEW tool \in {"manifest", "plan_predictions", "accuracy", "preflight", "eval_summary"},
         NEW reads, NEW output \in {Manifest, Predictions, Accuracy, EvalSummary},
         tool = "eval_summary" =>
           \/ reads = {Accuracy}
           \/ \E size \in Nat \ {0} : reads = {Accuracy} \cup BatchReports(size)
  PROVE  LET c == Record(tool, reads, output) IN
         Fed(req, W, c) /\ Left(c) = {} /\ c.tool # "raise"
<1> DEFINE c == Record(tool, reads, output)
<1>1. /\ c.tool = tool /\ c.about.target = EvalTemplate /\ c.reads = reads
      /\ c.writes = {output} /\ c.stdout = None
  BY DEF Record, Command, About
<1> HIDE DEF c
<1>2. \A f \in c.writes : ~IsRecord(f)
  BY <1>1, DatasetFiles
<1>3. Aimed(req, EvalTemplate)
  BY DEF Aimed
<1>4. CASE tool = "manifest"
  <2>1. BuildFed(req, c)
    BY <1>1, <1>2, <1>3, <1>4 DEF BuildFed, Builds
  <2> QED BY <1>1, <1>4, <2>1 DEF Fed, Left, Recorders, Measuring, c
<1>5. CASE tool # "manifest"
  <2>1. DatasetFed(req, c)
    BY <1>1, <1>2, <1>3, <1>5 DEF DatasetFed
  <2> QED BY <1>1, <1>5, <2>1 DEF Fed, Left, Recorders, Measuring, c
<1> QED BY <1>4, <1>5

(* The evaluation's template loads, whatever the values it is run with.    *)
LEMMA BatchPlanFields ==
  ASSUME NEW index, NEW size, NEW seed
  PROVE  LET plan == ImagenetBatchPlan(index, size, seed)
             target == Payloads[EvalTemplate].target
             F(kind, sub) == Named(kind, target, <<1, 1>>, <<"imagenet_batch", sub, index, size>>)
         IN  /\ plan.target = target /\ plan.nstates = 1 /\ plan.steps = 1
             /\ plan.cfg = <<size, seed + index - 1>>
             /\ plan.init = F("cpu_state", "init") /\ plan.reference = F("cpu_state", "repeat")
             /\ plan.candidate = F("gpu_state", "") /\ plan.initReport = F("cpu_report", "init")
             /\ plan.cpuReport = F("cpu_report", "repeat")
             /\ plan.hybridReport = F("hybrid_report", "")
             /\ plan.compareReport = F("compare_report", "")
<1> DEFINE payload == Normalized(Payloads[EvalTemplate])
<1>1. /\ EvalTemplate \in DOMAIN Payloads /\ PositiveShape(<<1, 1>>)
      /\ ~(payload.top = None \/ ~(payload.sources \/ payload.overlay))
  BY TemplatesAssumption DEF HybridPlan
<1>2. payload.target = Payloads[EvalTemplate].target
  BY <1>1, PayloadsAssumption DEF Normalized
<1> DEFINE cfg == <<size, seed + index - 1>>
           plan == HybridPlan(EvalTemplate, <<1, 1>>, cfg)
           target == Payloads[EvalTemplate].target
           closure == IF payload.closure = None THEN "unknown" ELSE payload.closure
           N(kind) == File(kind, target, <<1, 1>>)
           F(kind, sub) == Named(kind, plan.target, <<1, 1>>, <<"imagenet_batch", sub, index, size>>)
<1>3. plan = [template |-> EvalTemplate, target |-> target, top |-> payload.top,
              gate |-> payload.gate, builder |-> payload.builder, closure |-> closure,
              nstates |-> 1, steps |-> 1, cfg |-> cfg,
              init |-> N("cpu_state"), reference |-> N("cpu_state"),
              candidate |-> N("gpu_state"), initReport |-> N("cpu_report"),
              cpuReport |-> N("cpu_report"), hybridReport |-> N("hybrid_report"),
              compareReport |-> N("compare_report")]
  BY <1>1, <1>2 DEF HybridPlan
<1>4. ImagenetBatchPlan(index, size, seed) =
        [plan EXCEPT !.init = F("cpu_state", "init"), !.reference = F("cpu_state", "repeat"),
                     !.candidate = F("gpu_state", ""), !.initReport = F("cpu_report", "init"),
                     !.cpuReport = F("cpu_report", "repeat"),
                     !.hybridReport = F("hybrid_report", ""),
                     !.compareReport = F("compare_report", "")]
  BY DEF ImagenetBatchPlan
<1>5. plan.target = target
  <2> HIDE DEF plan, payload, closure, N, cfg
  <2> QED BY <1>3
<1> HIDE DEF plan, payload, closure, N, cfg
<1> DEFINE G(kind, sub) == Named(kind, target, <<1, 1>>, <<"imagenet_batch", sub, index, size>>)
<1>6. \A kind, sub : F(kind, sub) = G(kind, sub)
  BY <1>5
<1> HIDE DEF F, G
<1> DEFINE made == ImagenetBatchPlan(index, size, seed)
<1>7. made.target = target /\ made.nstates = 1 /\ made.steps = 1 /\ made.cfg = cfg
  BY <1>3, <1>4
<1>8. /\ made.init = F("cpu_state", "init") /\ made.reference = F("cpu_state", "repeat")
      /\ made.candidate = F("gpu_state", "")
  BY <1>3, <1>4
<1>9. made.initReport = F("cpu_report", "init") /\ made.cpuReport = F("cpu_report", "repeat")
  BY <1>3, <1>4
<1>10. /\ made.hybridReport = F("hybrid_report", "")
       /\ made.compareReport = F("compare_report", "")
  BY <1>3, <1>4
<1> HIDE DEF made
<1>11. /\ made.init = G("cpu_state", "init") /\ made.reference = G("cpu_state", "repeat")
       /\ made.candidate = G("gpu_state", "") /\ made.initReport = G("cpu_report", "init")
       /\ made.cpuReport = G("cpu_report", "repeat")
       /\ made.hybridReport = G("hybrid_report", "")
       /\ made.compareReport = G("compare_report", "")
  BY <1>6, <1>8, <1>9, <1>10
<1> QED BY <1>7, <1>11 DEF made, G, cfg

(* A file of a batch says its number and its size.                         *)
OfBatch(req, f, kind, target, index, size) ==
  /\ f.kind = kind /\ f.target = target /\ NamedShape(f) = <<1, 1>> /\ IsRecord(f)
  /\ NamedCfg(req, f) = <<size, req.seed + index - 1>>

LEMMA BatchFile ==
  ASSUME NEW req, req.program = "eval", NEW target, NEW index, NEW size, NEW sub,
         NEW kind \in StateKinds \cup {"cpu_report", "hybrid_report", "compare_report"},
         NEW f, f = Named(kind, target, <<1, 1>>, <<"imagenet_batch", sub, index, size>>)
  PROVE  OfBatch(req, f, kind, target, index, size)
<1> DEFINE tag == <<"imagenet_batch", sub, index, size>>
<1>1. f.kind = kind /\ f.target = target /\ f.shape = <<1, 1>> /\ f.tag = tag
  BY DEF Named
<1>2. tag[1] = "imagenet_batch" /\ tag[3] = index /\ tag[4] = size
  OBVIOUS
<1>3. f.tag[1] = "imagenet_batch"
  BY <1>1, <1>2
<1>4. f.tag[3] = index
  BY <1>1, <1>2
<1>5. f.tag[4] = size
  BY <1>1, <1>2
<1> HIDE DEF tag
<1>6. NamedShape(f) = <<1, 1>>
  BY <1>1, <1>3 DEF NamedShape, AbiTag
<1>7. IsRecord(f)
  BY <1>1, <1>3 DEF IsRecord
<1>8. NamedCfg(req, f) = <<f.tag[4], req.seed + f.tag[3] - 1>>
  BY <1>3 DEF NamedCfg, AbiTag, Defaults
<1>9. NamedCfg(req, f) = <<size, req.seed + index - 1>>
  BY <1>4, <1>5, <1>8
<1> QED BY <1>1, <1>6, <1>7, <1>9 DEF OfBatch

LEMMA BatchIsNamed ==
  ASSUME NEW req, req.program = "eval", NEW index, NEW size
  PROVE  PlanNamed(req, ImagenetBatchPlan(index, size, req.seed))
<1> DEFINE plan == ImagenetBatchPlan(index, size, req.seed)
           target == Payloads[EvalTemplate].target
           F(kind, sub) == Named(kind, target, <<1, 1>>, <<"imagenet_batch", sub, index, size>>)
<1>1. /\ plan.target = target /\ plan.nstates = 1 /\ plan.steps = 1
      /\ plan.cfg = <<size, req.seed + index - 1>>
      /\ plan.init = F("cpu_state", "init") /\ plan.reference = F("cpu_state", "repeat")
      /\ plan.candidate = F("gpu_state", "") /\ plan.initReport = F("cpu_report", "init")
      /\ plan.cpuReport = F("cpu_report", "repeat")
      /\ plan.hybridReport = F("hybrid_report", "")
      /\ plan.compareReport = F("compare_report", "")
  BY BatchPlanFields
<1>2. /\ OfBatch(req, plan.init, "cpu_state", target, index, size)
      /\ OfBatch(req, plan.reference, "cpu_state", target, index, size)
      /\ OfBatch(req, plan.candidate, "gpu_state", target, index, size)
      /\ OfBatch(req, plan.initReport, "cpu_report", target, index, size)
      /\ OfBatch(req, plan.cpuReport, "cpu_report", target, index, size)
      /\ OfBatch(req, plan.hybridReport, "hybrid_report", target, index, size)
      /\ OfBatch(req, plan.compareReport, "compare_report", target, index, size)
  <2> HIDE DEF plan, target
  <2>1. \A kind \in StateKinds \cup {"cpu_report", "hybrid_report", "compare_report"} : \A sub :
          OfBatch(req, F(kind, sub), kind, target, index, size)
    BY BatchFile
  <2>2. {"cpu_state", "gpu_state", "cpu_report", "hybrid_report", "compare_report"}
          \subseteq StateKinds \cup {"cpu_report", "hybrid_report", "compare_report"}
    BY DEF StateKinds
  <2> HIDE DEF F
  <2> QED BY <1>1, <2>1, <2>2
<1>3. Aimed(req, target)
  BY DEF Aimed, Sliced
<1> HIDE DEF plan, target, F
<1>4. /\ \A f \in {plan.init, plan.reference, plan.candidate} :
             IsRecord(f) /\ f.target = plan.target /\ NamedCfg(req, f) = plan.cfg
      /\ \A f \in {plan.initReport, plan.cpuReport, plan.hybridReport, plan.compareReport} :
             IsRecord(f)
  BY <1>1, <1>2 DEF OfBatch
<1>5. /\ plan.init.kind = "cpu_state" /\ plan.reference.kind = "cpu_state"
      /\ plan.candidate.kind = "gpu_state"
      /\ plan.initReport.kind = "cpu_report" /\ plan.cpuReport.kind = "cpu_report"
      /\ plan.hybridReport.kind = "hybrid_report" /\ plan.compareReport.kind = "compare_report"
      /\ plan.compareReport.target = plan.target
  BY <1>1, <1>2 DEF OfBatch
<1>6. /\ NamedShape(plan.init) = <<1, 1>> /\ NamedShape(plan.reference) = <<1, 1>>
      /\ NamedShape(plan.candidate) = <<1, 1>> /\ NamedShape(plan.compareReport) = <<1, 1>>
  BY <1>1, <1>2 DEF OfBatch
<1>7. PlanNamed(req, plan)
  BY <1>1, <1>3, <1>4, <1>5, <1>6, OneByOne DEF PlanNamed
<1> QED BY <1>7 DEF plan

LEMMA SizesAreASequence ==
  ASSUME NEW count \in Nat, NEW size \in Nat \ {0}
  PROVE  Len(BatchSizes(count, size)) \in Nat
<1> DEFINE k == (count + size - 1) \div size
           sizes == BatchSizes(count, size)
<1>1. k \in Int
  OBVIOUS
<1>2. sizes = [i \in 1 .. k |-> IF i * size <= count THEN size ELSE count % size]
  BY DEF BatchSizes
<1>3. sizes = [i \in 1 .. k |-> sizes[i]]
  BY <1>2
<1> HIDE DEF sizes, k
<1>4. PICK n \in Nat : 1 .. k = 1 .. n
  <2>1. CASE k >= 0
    BY <1>1, <2>1
  <2>2. CASE k < 0
    <3>1. 1 .. k = 1 .. 0
      BY <1>1, <2>2
    <3> QED BY <3>1
  <2> QED BY <1>1, <2>1, <2>2
<1>5. sizes = [i \in 1 .. n |-> sizes[i]]
  BY <1>3, <1>4
<1>6. Len(sizes) = n
  BY <1>5, LengthOf
<1> QED BY <1>6 DEF sizes

LEMMA BatchesAreFed ==
  ASSUME NEW req, NEW W, req.program = "eval", NEW size \in Nat \ {0}
  PROVE  Good(req, W, HybridBatches(size, req.seed))
<1> DEFINE sizes == BatchSizes(ImageCount, size)
           n == Len(sizes)
           seqs == [i \in 1 .. n |-> CommandPlan(ImagenetBatchPlan(i, sizes[i], req.seed))]
<1>1. HybridBatches(size, req.seed) = FlattenSeq(seqs)
  BY DEF HybridBatches, Each
<1>2. n \in Nat
  BY TemplatesAssumption, SizesAreASequence
<1>3. \A V : \A i \in 1 .. n : Good(req, V, seqs[i]) /\ IsSequence(seqs[i])
  <2> TAKE V
  <2> TAKE i \in 1 .. n
  <2> DEFINE plan == ImagenetBatchPlan(i, sizes[i], req.seed)
  <2>1. seqs[i] = CommandPlan(plan)
    OBVIOUS
  <2>2. PlanNamed(req, plan)
    BY BatchIsNamed
  <2> HIDE DEF plan, seqs
  <2>3. Good(req, V, CommandPlan(plan))
    BY <2>2, CommandsAreFed
  <2> QED BY <2>1, <2>3 DEF Good
<1>4. seqs \in [1 .. n -> Elements(seqs)]
  BY DEF Elements
<1> HIDE DEF n, seqs
<1>5. Chained(req, W, n, seqs)
  BY <1>3, <1>4 DEF Chained
<1>6. Good(req, W, FlattenSeq(seqs))
  BY <1>2, <1>5, GoodFlat
<1> QED BY <1>1, <1>6

LEMMA BatchesAreASequence ==
  ASSUME NEW size \in Nat \ {0}, NEW seed
  PROVE  IsSequence(HybridBatches(size, seed))
<1>1. PICK req : req = [program |-> "eval", seed |-> seed]
  OBVIOUS
<1>2. req.program = "eval" /\ req.seed = seed
  BY <1>1
<1>3. Good(req, {}, HybridBatches(size, seed))
  BY <1>2, BatchesAreFed
<1> QED BY <1>3 DEF Good

(* The batches and the summary of an evaluation.                           *)
EvalRest(size, seed, dry) ==
  IF size <= 0 \/ size > MaxRtlProxyBatch THEN <<Raise>>
  ELSE (IF dry THEN <<>> ELSE HybridBatches(size, seed))
       \o <<Record("eval_summary", {Accuracy} \cup (IF dry THEN {} ELSE BatchReports(size)),
                   EvalSummary)>>

LEMMA EvalRestIsASequence ==
  ASSUME NEW size \in Int, NEW seed, NEW dry
  PROVE  IsSequence(EvalRest(size, seed, dry))
<1> DEFINE batches == IF dry THEN <<>> ELSE HybridBatches(size, seed)
           reads == {Accuracy} \cup (IF dry THEN {} ELSE BatchReports(size))
           z == Record("eval_summary", reads, EvalSummary)
           y == <<z>>
<1>1. CASE size <= 0 \/ size > MaxRtlProxyBatch
  BY <1>1, RaiseStep DEF EvalRest
<1>2. CASE ~(size <= 0 \/ size > MaxRtlProxyBatch)
  <2>1. EvalRest(size, seed, dry) = batches \o y
    BY <1>2 DEF EvalRest
  <2>2. IsSequence(<<>>)
    BY DEF IsSequence
  <2>3. size \in Nat \ {0}
    BY <1>2
  <2>4. IsSequence(batches)
    BY <2>2, <2>3, BatchesAreASequence
  <2> HIDE DEF z
  <2>5. y \in Seq({z})
    OBVIOUS
  <2> HIDE DEF y, batches
  <2>6. IsSequence(y)
    BY <2>5, SequenceOf
  <2> QED BY <2>1, <2>4, <2>6, Joined
<1> QED BY <1>1, <1>2

LEMMA EvalRestIsFed ==
  ASSUME NEW req, NEW W, req.program = "eval", NEW size \in Int, NEW dry
  PROVE  Good(req, W, EvalRest(size, req.seed, dry))
<1> DEFINE batches == IF dry THEN <<>> ELSE HybridBatches(size, req.seed)
           reads == {Accuracy} \cup (IF dry THEN {} ELSE BatchReports(size))
           z == Record("eval_summary", reads, EvalSummary)
<1>0. ~Sliced(req)
  BY DEF Sliced
<1>1. CASE size <= 0 \/ size > MaxRtlProxyBatch
  BY <1>1, RaiseStep DEF EvalRest
<1>2. CASE ~(size <= 0 \/ size > MaxRtlProxyBatch)
  <2>1. EvalRest(size, req.seed, dry) = After(batches, z)
    BY <1>2 DEF EvalRest, After
  <2>2. size \in Nat \ {0}
    BY <1>2
  <2>3. Good(req, W, batches)
    <3>1. CASE dry
      BY <3>1, GoodNone
    <3>2. CASE ~dry
      BY <2>2, <3>2, BatchesAreFed
    <3> QED BY <3>1, <3>2
  <2>4. reads = {Accuracy} \/ reads = {Accuracy} \cup BatchReports(size)
    OBVIOUS
  <2>5. \/ reads = {Accuracy}
        \/ \E n \in Nat \ {0} : reads = {Accuracy} \cup BatchReports(n)
    <3> HIDE DEF reads
    <3> QED BY <2>2, <2>4
  <2> HIDE DEF batches, reads
  <2>6. Fed(req, W \cup LeftBy(batches), z)
    BY <1>0, <2>5, RecordStep
  <2> HIDE DEF z
  <2>7. Good(req, W, After(batches, z))
    BY <2>3, <2>6, GoodAfter
  <2> QED BY <2>1, <2>7
<1> QED BY <1>1, <1>2

LEMMA EvalStepsAreFed ==
  ASSUME NEW req, NEW W, req.program = "eval", req.size \in Int
  PROVE  Good(req, W, EvalSteps(req))
<1>0. ~Sliced(req)
  BY DEF Sliced
<1>1. CASE req.preflight
  <2> DEFINE c == Record("preflight", {}, EvalSummary)
  <2>1. EvalSteps(req) = <<c>>
    BY <1>1 DEF EvalSteps, EvalPreflight
  <2>2. Fed(req, W, c)
    BY <1>0, RecordStep
  <2> HIDE DEF c
  <2> QED BY <2>1, <2>2, GoodOne
<1>2. CASE ~req.preflight
  <2> DEFINE size == req.size
             dry == req.dry
             kicks == CpuKickPredictions(req.infer, dry)
             c == Record("accuracy", {Manifest, Predictions}, Accuracy)
             y == <<c>>
             z == EvalRest(size, req.seed, dry)
  <2>1. EvalSteps(req) = (kicks \o y) \o z
    BY <1>2 DEF EvalSteps, HybridImagenetEval, EvalRest
  <2>2. Good(req, W, kicks)
    <3>1. CASE ~req.infer
      <4>1. kicks = <<>>
        BY <3>1 DEF CpuKickPredictions
      <4> QED BY <4>1, GoodNone
    <3>2. CASE req.infer /\ dry
      <4> DEFINE d == Record("plan_predictions", {Manifest}, Predictions)
      <4>1. kicks = <<d>>
        BY <3>2 DEF CpuKickPredictions
      <4>2. Fed(req, W, d)
        BY <1>0, RecordStep
      <4> HIDE DEF d
      <4> QED BY <4>1, <4>2, GoodOne
    <3>3. CASE req.infer /\ ~dry
      <4>1. kicks = <<Raise>>
        BY <3>3 DEF CpuKickPredictions
      <4> QED BY <4>1, RaiseStep
    <3> QED BY <3>1, <3>2, <3>3
  <2>3. \A V : Fed(req, V, c)
    BY <1>0, RecordStep
  <2>4. \A V : Good(req, V, y)
    <3> HIDE DEF c
    <3> QED BY <2>3, GoodOne
  <2>5. \A V : Good(req, V, z)
    BY EvalRestIsFed
  <2>6. IsSequence(kicks) /\ IsSequence(y) /\ IsSequence(z)
    BY <2>2, <2>4, <2>5 DEF Good
  <2> HIDE DEF kicks, y, z
  <2>7. Good(req, W, kicks \o y)
    <3>1. Good(req, W \cup LeftBy(kicks), y)
      BY <2>4
    <3> QED BY <2>2, <2>6, <3>1, GoodJoined
  <2>8. Good(req, W, (kicks \o y) \o z)
    <3> DEFINE u == kicks \o y
    <3>1. Good(req, W \cup LeftBy(u), z)
      BY <2>5
    <3>2. Good(req, W, u)
      BY <2>7
    <3> HIDE DEF u
    <3>3. Good(req, W, u \o z)
      BY <2>6, <3>1, <3>2, GoodJoined
    <3> QED BY <3>3 DEF u
  <2> QED BY <2>1, <2>8
<1> QED BY <1>1, <1>2

(* The evaluation as another script's workflow: it is asked to infer.      *)
LEMMA MobileVitPlanIsFed ==
  ASSUME NEW req, NEW W, ~Sliced(req)
  PROVE  Good(req, W, MobileVitPlan) /\ Raises(MobileVitPlan)
<1> DEFINE m == Record("manifest", {}, Manifest)
           c == Record("accuracy", {Manifest, Predictions}, Accuracy)
           x == <<m>>
           r == <<Raise>>
           y == <<c>>
           z == EvalRest(128, 1, FALSE)
<1>1. MobileVitPlan = x \o ((r \o y) \o z)
  BY DEF MobileVitPlan, HybridImagenetEval, CpuKickPredictions, EvalRest
<1>2. Fed(req, W, m)
  BY RecordStep
<1>3. IsSequence(z)
  <2>1. PICK d : d = FALSE
    OBVIOUS
  <2>2. IsSequence(EvalRest(128, 1, d))
    BY EvalRestIsASequence
  <2> QED BY <2>1, <2>2
<1> HIDE DEF m, c, z
<1>4. Good(req, W, x)
  BY <1>2, GoodOne
<1>5. Good(req, W \cup LeftBy(x), r) /\ Raises(r) /\ IsSequence(r)
  BY RaiseStep
<1>6. IsSequence(y)
  <2>1. y \in Seq({c})
    OBVIOUS
  <2> HIDE DEF y
  <2> QED BY <2>1, SequenceOf
<1> HIDE DEF x, r, y
<1> DEFINE u == r \o y
<1>7. Good(req, W \cup LeftBy(x), u) /\ Raises(u) /\ IsSequence(u)
  BY <1>5, <1>6, GoodJoined, Joined
<1> HIDE DEF u
<1> DEFINE v == u \o z
<1>8. Good(req, W \cup LeftBy(x), v) /\ Raises(v) /\ IsSequence(v)
  BY <1>3, <1>7, GoodJoined, Joined
<1> HIDE DEF v
<1>9. Good(req, W, x \o v) /\ Raises(x \o v)
  BY <1>4, <1>8, GoodJoined, Joined DEF Good
<1> QED BY <1>1, <1>9 DEF u, v

(* The steps of a command line that is not refused.                        *)
GoodSteps(req, s) == s # None => Good(req, {}, s)

----------------------------------------------------------------------------
(* The template runner.                                                    *)

LEMMA TemplateStepsAreFed ==
  ASSUME NEW req, req.program = "template", req.shape \in Int \X Int
  PROVE  GoodSteps(req, TemplateSteps(req))
<1>1. PICK plan : plan = HybridPlan(req.template, req.shape, req.cfg)
  OBVIOUS
<1>2. TemplateSteps(req) = PlannedSteps(req, plan)
  BY <1>1 DEF TemplateSteps
<1>3. CASE plan = None \/ (~req.dry /\ ClosureRefusesExecution(plan))
  BY <1>2, <1>3 DEF PlannedSteps, GoodSteps
<1>4. CASE ~(plan = None \/ (~req.dry /\ ClosureRefusesExecution(plan)))
  <2>1. PlannedSteps(req, plan) = DryRun(req, CommandPlan(plan))
    BY <1>4 DEF PlannedSteps
  <2>2. Aimed(req, plan.target)
    BY DEF Aimed, Sliced
  <2>3. PlanNamed(req, plan)
    BY <1>1, <1>4, <2>2, TemplateIsNamed
  <2>4. Good(req, {}, CommandPlan(plan))
    BY <2>3, CommandsAreFed
  <2>5. DryRun(req, CommandPlan(plan)) = <<>> \/ DryRun(req, CommandPlan(plan)) = CommandPlan(plan)
    BY DEF DryRun
  <2> QED BY <1>2, <2>1, <2>4, <2>5, GoodNone DEF GoodSteps
<1> QED BY <1>3, <1>4

----------------------------------------------------------------------------
(* Results reproduction.                                                   *)

LEMMA LeastOf ==
  ASSUME NEW S, S \subseteq Nat, S # {}
  PROVE  First(S) \in S
<1>1. PICK i \in S : \A j \in S : <<j, i>> \notin OpToRel(<, Nat)
  BY NatLessThanWellFounded, WFMin, Zenon
<1>2. \A j \in S : ~ (j < i)
  BY <1>1, Zenon DEF OpToRel
<1>3. \A j \in S : i <= j
  BY <1>2
<1> QED BY <1>3 DEF First

LEMMA DispatchedIsGiven ==
  ASSUME NEW options
  PROVE  \/ Dispatched(options) = None
         \/ \E i \in DOMAIN DispatchOrder :
              DispatchOrder[i] \in options /\ Dispatched(options) = DispatchOrder[i]
<1> DEFINE given == {i \in DOMAIN DispatchOrder : DispatchOrder[i] \in options}
<1>1. DOMAIN DispatchOrder \subseteq Nat
  BY DEF DispatchOrder
<1>2. CASE given = {}
  BY <1>2 DEF Dispatched
<1>3. CASE given # {}
  <2>1. First(given) \in given
    BY <1>1, <1>3, LeastOf
  <2>2. Dispatched(options) = DispatchOrder[First(given)]
    BY <1>3 DEF Dispatched
  <2> QED BY <2>1, <2>2
<1> QED BY <1>2, <1>3

Dispatchable ==
  PlanOnlyOptions \cup MedianOptions
    \cup {"--mobile-vit-imagenet-128", "--persistent-resident-state-abi-shape-phase-sweep",
          "--persistent-resident-state-abi-repeat-median", "--persistent-resident-state-abi",
          "--resident-state-reuse", "--resident-batch-sweep"}

LEMMA DispatchesOne ==
  ASSUME NEW options, Dispatched(options) # None
  PROVE  Dispatched(options) \in Dispatchable /\ Dispatched(options) \in options
<1>1. PICK i \in DOMAIN DispatchOrder :
        DispatchOrder[i] \in options /\ Dispatched(options) = DispatchOrder[i]
  BY DispatchedIsGiven
<1>2. \A j \in DOMAIN DispatchOrder : DispatchOrder[j] \in Dispatchable
  <2>1. DOMAIN DispatchOrder = 1 .. 16
    BY DEF DispatchOrder
  <2>2. 1 .. 16 = {1, 2, 3, 4, 5, 6, 7, 8, 9, 10, 11, 12, 13, 14, 15, 16}
    OBVIOUS
  <2> QED BY <2>1, <2>2 DEF DispatchOrder, Dispatchable, PlanOnlyOptions, MedianOptions
<1> QED BY <1>1, <1>2

(* What each option stands for.                                            *)
LEMMA ReproduceSays ==
  ASSUME NEW req
  PROVE  LET option == Dispatched(req.options) IN
         /\ option = None => Reproduce(req) = ReproductionPlan
         /\ option # None =>
              /\ option \in PlanOnlyOptions => Reproduce(req) = None
              /\ option = "--mobile-vit-imagenet-128" => Reproduce(req) = MobileVitPlan
              /\ option = "--persistent-resident-state-abi-shape-phase-sweep" =>
                   Reproduce(req) = ShapePhaseSweep
              /\ option = "--persistent-resident-state-abi-repeat-median" =>
                   Reproduce(req) =
                     IF "--persistent-resident-state-abi" \notin req.options THEN None
                     ELSE PersistentRepeatMedian(req.shape, req.phases, req.repeat, "sample",
                                                 RepeatSummary)
              /\ option = "--persistent-resident-state-abi" =>
                   Reproduce(req) = PersistentProbe(req.shape, req.phases, NoTag, ProbeSummary)
              /\ option = "--resident-state-reuse" =>
                   Reproduce(req) = ResidentStateReuse(req.shape, req.phases)
              /\ option = "--resident-batch-sweep" =>
                   Reproduce(req) = ResidentBatchSweep(req.states, req.repeat)
              /\ option \in MedianOptions => Reproduce(req) = MedianDispatch(option, req.repeat)
<1>1. PICK option : option = Dispatched(req.options)
  OBVIOUS
<1>2. CASE option = None
  <2>1. option \notin Dispatchable
    <3>1. \A i \in DOMAIN DispatchOrder : DispatchOrder[i] # None
      BY OptionsAssumption
    <3>2. \A x \in Dispatchable : \E i \in 1 .. 16 : x = DispatchOrder[i]
      BY DEF DispatchOrder, Dispatchable, PlanOnlyOptions, MedianOptions
    <3>3. DOMAIN DispatchOrder = 1 .. 16
      BY DEF DispatchOrder
    <3> QED BY <1>2, <3>1, <3>2, <3>3
  <2> QED BY <1>1, <1>2, <2>1 DEF Reproduce, Dispatchable
<1>3. ASSUME option # None, option \in PlanOnlyOptions PROVE Reproduce(req) = None
  BY <1>1, <1>3 DEF Reproduce, PlanOnlyOptions, MedianOptions
<1>4. ASSUME option # None, option = "--mobile-vit-imagenet-128"
      PROVE  Reproduce(req) = MobileVitPlan
  BY <1>1, <1>4 DEF Reproduce, PlanOnlyOptions, MedianOptions
<1>5. ASSUME option # None, option = "--persistent-resident-state-abi-shape-phase-sweep"
      PROVE  Reproduce(req) = ShapePhaseSweep
  BY <1>1, <1>5 DEF Reproduce, PlanOnlyOptions, MedianOptions
<1>6. ASSUME option # None, option = "--persistent-resident-state-abi-repeat-median"
      PROVE  Reproduce(req) =
               IF "--persistent-resident-state-abi" \notin req.options THEN None
               ELSE PersistentRepeatMedian(req.shape, req.phases, req.repeat, "sample",
                                           RepeatSummary)
  BY <1>1, <1>6 DEF Reproduce, PlanOnlyOptions, MedianOptions
<1>7. ASSUME option # None, option = "--persistent-resident-state-abi"
      PROVE  Reproduce(req) = PersistentProbe(req.shape, req.phases, NoTag, ProbeSummary)
  BY <1>1, <1>7 DEF Reproduce, PlanOnlyOptions, MedianOptions
<1>8. ASSUME option # None, option = "--resident-state-reuse"
      PROVE  Reproduce(req) = ResidentStateReuse(req.shape, req.phases)
  BY <1>1, <1>8 DEF Reproduce, PlanOnlyOptions, MedianOptions
<1>9. ASSUME option # None, option = "--resident-batch-sweep"
      PROVE  Reproduce(req) = ResidentBatchSweep(req.states, req.repeat)
  BY <1>1, <1>9 DEF Reproduce, PlanOnlyOptions, MedianOptions
<1>10. ASSUME option # None, option \in MedianOptions
       PROVE  Reproduce(req) = MedianDispatch(option, req.repeat)
  BY <1>1, <1>10 DEF Reproduce, PlanOnlyOptions, MedianOptions
<1> QED BY <1>1, <1>2, <1>3, <1>4, <1>5, <1>6, <1>7, <1>8, <1>9, <1>10

(* What a workflow is not refused for.                                     *)
LEMMA PositiveCount ==
  ASSUME NEW n \in Int, ~(n <= 0)
  PROVE  n \in Nat \ {0}
OBVIOUS

LEMMA ProbeCounts ==
  ASSUME NEW shape \in Int \X Int, NEW phases \in Int, NEW tag, NEW summary,
         PersistentProbe(shape, phases, tag, summary) # None
  PROVE  phases \in Nat \ {0} /\ Counted(shape)
<1>1. ~(phases <= 0 \/ ~PositiveShape(shape))
  BY DEF PersistentProbe
<1>2. phases \in Nat \ {0}
  BY <1>1, PositiveCount
<1> QED BY <1>1, <1>2 DEF Counted

LEMMA ReuseCounts ==
  ASSUME NEW shape \in Int \X Int, NEW phases \in Int, ResidentStateReuse(shape, phases) # None
  PROVE  phases \in Nat \ {0} /\ Counted(shape)
<1> DEFINE s == FlattenSeq([p \in 1 .. phases |-> ReusePhase(shape, p) \o ReusePhaseSummary])
           z == Summarize(About(Mha, shape, phases),
                          {ReuseFile(shape, p, k) : p \in 1 .. phases, k \in {"compare_report"}},
                          ReuseSummary)
<1>0. ResidentStateReuse(shape, phases) =
        IF phases <= 0 \/ ~PositiveShape(shape) THEN None
        ELSE <<InitState(ReuseWorkload(shape), "resident_state_reuse")>> \o s \o <<z>>
  BY DEF ResidentStateReuse, Each
<1> HIDE DEF s, z
<1>1. ~(phases <= 0 \/ ~PositiveShape(shape))
  BY <1>0
<1>2. phases \in Nat \ {0}
  BY <1>1, PositiveCount
<1> QED BY <1>1, <1>2 DEF Counted

LEMMA MedianCounts ==
  ASSUME NEW shape \in Int \X Int, NEW phases \in Int, NEW repeat \in Int,
         NEW prefix, NEW summary,
         PersistentRepeatMedian(shape, phases, repeat, prefix, summary) # None
  PROVE  repeat \in Nat \ {0} /\ phases \in Nat \ {0} /\ Counted(shape)
<1>1. ~(repeat <= 0 \/ phases <= 0 \/ ~PositiveShape(shape))
  BY DEF PersistentRepeatMedian
<1>2. repeat \in Nat \ {0} /\ phases \in Nat \ {0}
  BY <1>1, PositiveCount
<1> QED BY <1>1, <1>2 DEF Counted

(* Whatever is reproduced is fed by what it makes itself.                  *)
LEMMA ReproduceIsFed ==
  ASSUME NEW req, req.program = "reproduction",
         req.phases \in Int, req.repeat \in Int, req.shape \in Int \X Int, req.states \in Seq(Int)
  PROVE  GoodSteps(req, Reproduce(req))
<1>0. Defaults(req) /\ Aimed(req, Mha) /\ ~Sliced(req)
  BY DEF Defaults, Aimed, Sliced
<1>1. PICK option : option = Dispatched(req.options)
  OBVIOUS
<1>2. CASE option = None
  BY <1>1, <1>2, ReproduceSays, ReproductionPlanIsFed DEF GoodSteps
<1>3. CASE option # None /\ option \in PlanOnlyOptions
  BY <1>1, <1>3, ReproduceSays DEF GoodSteps
<1>4. CASE option # None /\ option = "--mobile-vit-imagenet-128"
  BY <1>0, <1>1, <1>4, ReproduceSays, MobileVitPlanIsFed DEF GoodSteps
<1>5. CASE option # None /\ option = "--persistent-resident-state-abi-shape-phase-sweep"
  BY <1>1, <1>5, ReproduceSays, SweepIsFed DEF GoodSteps
<1>6. CASE option # None /\ option = "--persistent-resident-state-abi-repeat-median"
  <2> SUFFICES ASSUME Reproduce(req) # None PROVE Good(req, {}, Reproduce(req))
    BY DEF GoodSteps
  <2> DEFINE s == PersistentRepeatMedian(req.shape, req.phases, req.repeat, "sample", RepeatSummary)
  <2>1. "--persistent-resident-state-abi" \in req.options /\ Reproduce(req) = s
    BY <1>1, <1>6, ReproduceSays
  <2>2. /\ req.repeat \in Nat \ {0} /\ req.phases \in Nat \ {0} /\ Counted(req.shape)
    BY <1>6, <2>1, MedianCounts
  <2>3. RepeatSummary.kind = "summary" /\ IsRecord(RepeatSummary)
    BY ReportFields DEF RepeatSummary
  <2>4. req.phases = 1 => SinglePhaseProbe(req)
    BY <2>1 DEF SinglePhaseProbe
  <2> QED BY <1>0, <2>1, <2>2, <2>3, <2>4, RepeatMedianIsFed
<1>7. CASE option # None /\ option = "--persistent-resident-state-abi"
  <2> SUFFICES ASSUME Reproduce(req) # None PROVE Good(req, {}, Reproduce(req))
    BY DEF GoodSteps
  <2> DEFINE s == PersistentProbe(req.shape, req.phases, NoTag, ProbeSummary)
  <2>1. Reproduce(req) = s
    BY <1>1, <1>7, ReproduceSays
  <2>2. req.phases \in Nat \ {0} /\ Counted(req.shape)
    BY <2>1, ProbeCounts
  <2>3. ProbeSummary.kind = "summary" /\ IsRecord(ProbeSummary)
    BY ReportFields DEF ProbeSummary
  <2>4. req.phases = 1 => SinglePhaseProbe(req)
    BY <1>1, <1>7, DispatchesOne DEF SinglePhaseProbe
  <2> QED BY <1>0, <2>1, <2>2, <2>3, <2>4, PersistentProbeIsFed
<1>8. CASE option # None /\ option = "--resident-state-reuse"
  <2> SUFFICES ASSUME Reproduce(req) # None PROVE Good(req, {}, Reproduce(req))
    BY DEF GoodSteps
  <2>1. Reproduce(req) = ResidentStateReuse(req.shape, req.phases)
    BY <1>1, <1>8, ReproduceSays
  <2>2. req.phases \in Nat \ {0} /\ Counted(req.shape)
    BY <2>1, ReuseCounts
  <2> QED BY <1>0, <2>1, <2>2, ReuseIsFed
<1>9. CASE option # None /\ option = "--resident-batch-sweep"
  <2> SUFFICES ASSUME Reproduce(req) # None PROVE Good(req, {}, Reproduce(req))
    BY DEF GoodSteps
  <2>1. Reproduce(req) = ResidentBatchSweep(req.states, req.repeat)
    BY <1>1, <1>9, ReproduceSays
  <2> QED BY <2>1, ResidentBatchSweepIsFed
<1>10. CASE option # None /\ option \in MedianOptions
  <2> SUFFICES ASSUME Reproduce(req) # None PROVE Good(req, {}, Reproduce(req))
    BY DEF GoodSteps
  <2>1. Reproduce(req) = MedianDispatch(option, req.repeat)
    BY <1>1, <1>10, ReproduceSays
  <2> QED BY <1>10, <2>1, MedianDispatchIsFed
<1>11. option # None => option \in Dispatchable
  BY <1>1, DispatchesOne
<1> QED
  BY <1>2, <1>3, <1>4, <1>5, <1>6, <1>7, <1>8, <1>9, <1>10, <1>11 DEF Dispatchable

LEMMA ReproductionStepsAreFed ==
  ASSUME NEW req, req.program = "reproduction",
         req.phases \in Int, req.repeat \in Int, req.shape \in Int \X Int, req.states \in Seq(Int)
  PROVE  GoodSteps(req, ReproductionSteps(req))
<1>1. GoodSteps(req, Reproduce(req))
  BY ReproduceIsFed
<1>2. ReproductionSteps(req) = <<>> \/ ReproductionSteps(req) = Reproduce(req)
  BY DEF ReproductionSteps, DryRun
<1> QED BY <1>1, <1>2, GoodNone DEF GoodSteps

----------------------------------------------------------------------------
(* The benchmark front end.                                                *)

LEMMA LoadedFields ==
  ASSUME NEW template, HybridPlan(template, <<1, 1>>, DefaultCfg) # None,
         NEW shape, PositiveShape(shape), NEW cfg, NEW plan, plan = HybridPlan(template, shape, cfg)
  PROVE  plan.compareReport = File("compare_report", Payloads[template].target, shape)
<1>1. template \in DOMAIN Payloads
  BY DEF HybridPlan
<1>2. Normalized(Payloads[template]).target = Payloads[template].target
  BY <1>1, PayloadsAssumption DEF Normalized
<1> DEFINE payload == Normalized(Payloads[template])
<1>3. ~(payload.top = None \/ ~(payload.sources \/ payload.overlay))
  BY <1>1 DEF HybridPlan
<1> QED BY <1>1, <1>2, <1>3 DEF HybridPlan

(* A shape that is not refused is of two positive counts.                  *)
LEMMA ShapeIsCounted ==
  ASSUME NEW argv, ~ShapeError(argv),
         \/ ResolvedShape(argv) = None
         \/ ResolvedShape(argv) \in (Int \cup {None}) \X (Int \cup {None})
  PROVE  ResolvedShape(argv) = None \/ Counted(ResolvedShape(argv))
<1>1. CASE ShapeSpellings(argv) = {}
  BY <1>1 DEF ResolvedShape
<1>2. CASE ShapeSpellings(argv) # {} /\ ResolvedShape(argv) # None
  <2>1. PICK shape \in (Int \cup {None}) \X (Int \cup {None}) : shape = ResolvedShape(argv)
    BY <1>2
  <2>2. PositiveShape(shape)
    BY <1>2, <2>1 DEF ShapeError, ResolvedShape
  <2>3. shape[1] \in Int /\ shape[2] \in Int /\ shape = <<shape[1], shape[2]>>
    BY <2>1, <2>2 DEF PositiveShape, Positive
  <2>4. shape \in Int \X Int
    BY <2>3
  <2> QED BY <2>1, <2>2, <2>4 DEF Counted
<1> QED BY <1>1, <1>2

(* The commands of a target leave what its evidence is taken from, or die. *)
Serves(req, s, report, observed) ==
  /\ Good(req, {}, s)
  /\ Raises(s) \/ (report \in LeftBy(s) /\ observed \subseteq LeftBy(s))

LEMMA DispatchedAlone ==
  ASSUME NEW x, NEW i \in DOMAIN DispatchOrder, DispatchOrder[i] = x
  PROVE  Dispatched({x}) = x
<1> DEFINE given == {j \in DOMAIN DispatchOrder : DispatchOrder[j] \in {x}}
<1>1. DOMAIN DispatchOrder \subseteq Nat
  BY DEF DispatchOrder
<1>2. given # {} /\ given \subseteq Nat
  BY <1>1
<1>3. First(given) \in given
  BY <1>2, LeastOf
<1>4. Dispatched({x}) = DispatchOrder[First(given)]
  BY <1>2 DEF Dispatched
<1> QED BY <1>3, <1>4

LEMMA OrRaiseServes ==
  ASSUME NEW req, NEW s, NEW report, Serves(req, s, report, {})
  PROVE  Serves(req, OrRaise(s), report, {})
<1>1. CASE s = None
  BY <1>1, RaiseStep DEF OrRaise, Serves
<1>2. CASE s # None
  BY <1>2 DEF OrRaise
<1> QED BY <1>1, <1>2

(* The commands a benchmark runs, one lemma per mode.                      *)
LEMMA NestedReuse ==
  ASSUME NEW req, Defaults(req), Aimed(req, Mha), NEW shape, Counted(shape),
         NEW phases \in Nat \ {0}
  PROVE  Serves(req, NestedReproduction("resident-state-reuse", shape, phases), ReuseSummary, {})
<1>1. PICK x : x = "--resident-state-reuse"
  OBVIOUS
<1>2. PICK nested : nested = [options |-> {x}, shape |-> shape, phases |-> phases]
  OBVIOUS
<1>3. NestedReproduction("resident-state-reuse", shape, phases) = OrRaise(Reproduce(nested))
  BY <1>1, <1>2 DEF NestedReproduction
<1>4. 6 \in DOMAIN DispatchOrder /\ DispatchOrder[6] = x
  BY <1>1 DEF DispatchOrder
<1>5. Dispatched({x}) = x /\ x # None
  <2>1. \A i \in DOMAIN DispatchOrder : DispatchOrder[i] = x => Dispatched({x}) = x
    BY DispatchedAlone
  <2> QED BY <1>4, <2>1, OptionsAssumption
<1>6. nested.options = {x} /\ nested.shape = shape /\ nested.phases = phases
  BY <1>2
<1>7. Reproduce(nested) = ResidentStateReuse(shape, phases)
  <2>1. Dispatched(nested.options) = x
    BY <1>5, <1>6
  <2>2. Reproduce(nested) = ResidentStateReuse(nested.shape, nested.phases)
    BY <1>1, <1>5, <2>1, ReproduceSays
  <2> QED BY <1>6, <2>2
<1>8. Serves(req, ResidentStateReuse(shape, phases), ReuseSummary, {})
  BY ReuseIsFed DEF Serves
<1> QED BY <1>3, <1>7, <1>8, OrRaiseServes

LEMMA NestedProbe ==
  ASSUME NEW req, Defaults(req), Aimed(req, Mha), NEW shape, Counted(shape),
         NEW phases \in Nat \ {0}, phases = 1 => SinglePhaseProbe(req)
  PROVE  Serves(req, NestedReproduction("persistent-resident-state-abi", shape, phases),
                ProbeSummary, {})
<1>1. PICK x : x = "--persistent-resident-state-abi"
  OBVIOUS
<1>2. PICK nested : nested = [options |-> {x}, shape |-> shape, phases |-> phases]
  OBVIOUS
<1>3. NestedReproduction("persistent-resident-state-abi", shape, phases) = OrRaise(Reproduce(nested))
  BY <1>1, <1>2 DEF NestedReproduction
<1>4. 5 \in DOMAIN DispatchOrder /\ DispatchOrder[5] = x
  BY <1>1 DEF DispatchOrder
<1>5. Dispatched({x}) = x /\ x # None
  <2>1. \A i \in DOMAIN DispatchOrder : DispatchOrder[i] = x => Dispatched({x}) = x
    BY DispatchedAlone
  <2> QED BY <1>4, <2>1, OptionsAssumption
<1>6. nested.options = {x} /\ nested.shape = shape /\ nested.phases = phases
  BY <1>2
<1>7. Reproduce(nested) = PersistentProbe(shape, phases, NoTag, ProbeSummary)
  <2>1. Dispatched(nested.options) = x
    BY <1>5, <1>6
  <2>2. Reproduce(nested) = PersistentProbe(nested.shape, nested.phases, NoTag, ProbeSummary)
    BY <1>1, <1>5, <2>1, ReproduceSays
  <2> QED BY <1>6, <2>2
<1>8. Serves(req, PersistentProbe(shape, phases, NoTag, ProbeSummary), ProbeSummary, {})
  <2>1. ProbeSummary.kind = "summary" /\ IsRecord(ProbeSummary)
    BY ReportFields DEF ProbeSummary
  <2> QED BY <2>1, PersistentProbeIsFed DEF Serves
<1> QED BY <1>3, <1>7, <1>8, OrRaiseServes

LEMMA NestedTemplateServes ==
  ASSUME NEW req, req.program = "benchmark", NEW shape, Counted(shape)
  PROVE  LET plan == HybridPlan(Registry[req.target].template, shape, DefaultCfg) IN
         Serves(req, NestedTemplate(req.target, shape), plan.compareReport,
                {plan.cpuReport, plan.hybridReport})
<1>1. PICK template : template = Registry[req.target].template
  OBVIOUS
<1>2. PICK plan : plan = HybridPlan(template, shape, DefaultCfg)
  OBVIOUS
<1>3. PICK s : s = TemplateRun(template, shape, DefaultCfg)
  OBVIOUS
<1>4. Aimed(req, Payloads[template].target) /\ Defaults(req) /\ shape \in Int \X Int
  BY <1>1 DEF Aimed, AskedTarget, Defaults, Counted
<1>5. /\ Good(req, {}, s)
      /\ \/ Raises(s)
         \/ /\ plan # None
            /\ {plan.init, plan.reference, plan.cpuReport, plan.hybridReport, plan.compareReport}
                 \subseteq LeftBy(s)
  BY <1>2, <1>3, <1>4, TemplateRunIsFed
<1>6. Serves(req, s, plan.compareReport, {plan.cpuReport, plan.hybridReport})
  BY <1>5 DEF Serves
<1> QED BY <1>1, <1>2, <1>3, <1>6 DEF NestedTemplate

(* What the front end has found out of a command line it makes commands of.*)
Supported(req, shape) ==
  /\ req.target \in DOMAIN Registry
  /\ req.mode \in Registry[req.target].modes
  /\ Sliced(req) => Counted(shape)

LEMMA BenchmarkCommandsServe ==
  ASSUME NEW req, req.program = "benchmark", req.phases \in Int,
         NEW shape, shape = None \/ Counted(shape),
         NEW s, s = BenchmarkPlan(req.target, shape, req.limit, req.mode, req.phases), s # None
  PROVE  /\ Supported(req, shape)
         /\ Serves(req, s, EvidenceReport(req.target, shape, req.mode),
                   ObservedReports(req.target, shape, req.mode))
<1> DEFINE report == EvidenceReport(req.target, shape, req.mode)
           observed == ObservedReports(req.target, shape, req.mode)
<1>1. ~(req.target \notin DOMAIN Registry \/ req.phases <= 0 \/ ~Supports(req.target, req.mode))
  BY DEF BenchmarkPlan
<1>2. req.target \in DOMAIN Registry /\ req.mode \in Registry[req.target].modes
  BY <1>1 DEF Supports
<1>3. req.phases \in Nat \ {0}
  BY <1>1, PositiveCount
<1>4. req.mode \in Modes
  BY <1>2, TemplatesAssumption
<1>5. CASE Registry[req.target].kind = "slice"
  <2>1. s = SlicePlan(req.target, shape, req.limit, req.mode, req.phases)
    BY <1>1, <1>5 DEF BenchmarkPlan
  <2>2. shape # None /\ req.limit = None
    BY <2>1 DEF SlicePlan
  <2>3. Counted(shape) /\ Supported(req, shape)
    BY <1>2, <2>2 DEF Supported
  <2>4. CASE req.mode = "template"
    <3>1. s = NestedTemplate(req.target, shape)
      BY <2>1, <2>2, <2>4 DEF SlicePlan
    <3>2. PICK plan : plan = HybridPlan(Registry[req.target].template, shape, DefaultCfg)
      OBVIOUS
    <3>3. Serves(req, s, plan.compareReport, {plan.cpuReport, plan.hybridReport})
      BY <2>3, <3>1, <3>2, NestedTemplateServes
    <3>4. report = plan.compareReport
      BY <1>5, <2>4, <3>2 DEF EvidenceReport
    <3>5. observed = {plan.cpuReport, plan.hybridReport}
      BY <1>5, <2>2, <2>4, <3>2 DEF ObservedReports
    <3> QED BY <2>3, <3>3, <3>4, <3>5
  <2>5. CASE req.mode # "template"
    <3>1. req.mode \in ResidentModes
      BY <1>4, <2>5 DEF Modes
    <3>2. Payloads[Registry[req.target].template].target = Mha
      BY <1>2, <3>1, TemplatesAssumption
    <3>3. Aimed(req, Mha) /\ Defaults(req)
      BY <3>2 DEF Aimed, AskedTarget, Defaults
    <3>4. s = NestedReproduction(req.mode, shape, req.phases)
      BY <2>1, <2>2, <2>5 DEF SlicePlan
    <3>5. observed = {}
      BY <2>5 DEF ObservedReports
    <3>6. CASE req.mode = "resident-state-reuse"
      <4>1. report = ReuseSummary
        BY <1>5, <3>6 DEF EvidenceReport
      <4>2. Serves(req, NestedReproduction("resident-state-reuse", shape, req.phases), ReuseSummary, {})
        BY <1>3, <2>3, <3>3, NestedReuse
      <4> QED BY <2>3, <3>4, <3>5, <3>6, <4>1, <4>2
    <3>7. CASE req.mode = "persistent-resident-state-abi"
      <4>1. report = ProbeSummary
        BY <1>5, <3>7 DEF EvidenceReport
      <4>2. req.phases = 1 => SinglePhaseProbe(req)
        BY <3>7 DEF SinglePhaseProbe
      <4>3. Serves(req, NestedReproduction("persistent-resident-state-abi", shape, req.phases),
                   ProbeSummary, {})
        BY <1>3, <2>3, <3>3, <4>2, NestedProbe
      <4> QED BY <2>3, <3>4, <3>5, <3>7, <4>1, <4>3
    <3> QED BY <3>1, <3>6, <3>7 DEF ResidentModes
  <2> QED BY <2>4, <2>5
<1>6. CASE Registry[req.target].kind # "slice"
  <2>1. s = MobileVitTargetPlan(shape, req.limit)
    BY <1>1, <1>6 DEF BenchmarkPlan
  <2>2. s = MobileVitPlan
    BY <2>1 DEF MobileVitTargetPlan
  <2>3. ~Sliced(req)
    BY <1>6 DEF Sliced
  <2>4. Good(req, {}, s) /\ Raises(s)
    BY <2>2, <2>3, MobileVitPlanIsFed
  <2> QED BY <1>2, <2>3, <2>4 DEF Supported, Serves
<1> QED BY <1>5, <1>6

(* The report the evidence is taken from is one of the target asked for.   *)
LEMMA RequestIsEvident ==
  ASSUME NEW req, req.program = "benchmark", NEW shape, Supported(req, shape),
         NEW about, about.asked = Asked(req, shape),
         about.report = EvidenceReport(req.target, shape, req.mode),
         about.checked = ChecksPhases(req.target, req.mode)
  PROVE  Evident(about)
<1>1. about.asked.target = req.target /\ about.asked.mode = req.mode /\ about.asked.shape = shape
  BY DEF Asked
<1>2. PICK template : template = Registry[req.target].template
  OBVIOUS
<1>3. req.target \in DOMAIN Registry /\ req.mode \in Registry[req.target].modes /\ req.mode \in Modes
  BY TemplatesAssumption DEF Supported
<1>4. ASSUME Registry[req.target].kind = "slice", req.mode = "template"
      PROVE  /\ about.report.kind = "compare_report" /\ about.report.tag = Plain
             /\ about.report.target = Payloads[template].target /\ about.report.shape = shape
  <2>1. Counted(shape)
    BY <1>4 DEF Supported, Sliced
  <2>2. HybridPlan(template, <<1, 1>>, DefaultCfg) # None
    BY <1>2, <1>3, <1>4, TemplatesAssumption
  <2>3. PICK plan : plan = HybridPlan(template, shape, DefaultCfg)
    OBVIOUS
  <2>4. plan.compareReport = File("compare_report", Payloads[template].target, shape)
    BY <2>1, <2>2, <2>3, LoadedFields DEF Counted
  <2>5. about.report = plan.compareReport
    BY <1>2, <1>4, <2>3 DEF EvidenceReport
  <2> QED BY <2>4, <2>5 DEF File, Named
<1>5. ASSUME req.mode # "template"
      PROVE  /\ Registry[req.target].kind = "slice" /\ about.checked
             /\ about.report \in {ReuseSummary, ProbeSummary}
             /\ Payloads[template].target = Mha
  <2>1. req.mode \in ResidentModes
    BY <1>3, <1>5 DEF Modes
  <2>2. Registry[req.target].kind = "slice" /\ Payloads[template].target = Mha
    BY <1>2, <1>3, <2>1, TemplatesAssumption
  <2>3. about.checked
    BY <2>1, <2>2 DEF ChecksPhases
  <2>4. about.report \in {ReuseSummary, ProbeSummary}
    BY <2>1, <2>2 DEF EvidenceReport, ResidentModes
  <2> QED BY <2>2, <2>3, <2>4
<1> QED BY <1>1, <1>2, <1>4, <1>5 DEF Evident

LEMMA EstimateIsFed ==
  ASSUME NEW req, NEW W, NEW shape
  PROVE  Good(req, W, Estimate(req, shape)) /\ IsSequence(Estimate(req, shape))
<1>1. PICK c : c = Command("estimate", Asked(req, shape),
                           ObservedReports(req.target, shape, req.mode), {}, None)
  OBVIOUS
<1>2. Estimate(req, shape) = <<c>> /\ c.tool = "estimate"
  BY <1>1, CommandFields DEF Estimate
<1>3. Fed(req, W, c)
  BY <1>2 DEF Fed, IdleFed
<1> QED BY <1>2, <1>3, GoodOne DEF Good

LEMMA ExitIsFed ==
  ASSUME NEW req, NEW W
  PROVE  Good(req, W, ExitNotReady) /\ IsSequence(ExitNotReady)
<1>1. PICK c : c = Command("not_ready", About("", Unshaped, None), {}, {}, None)
  OBVIOUS
<1>2. ExitNotReady = <<c>> /\ c.tool = "not_ready"
  BY <1>1 DEF ExitNotReady, Command
<1>3. Fed(req, W, c)
  BY <1>2 DEF Fed, IdleFed
<1> QED BY <1>2, <1>3, GoodOne DEF Good

LEMMA WriteSummaryIsFed ==
  ASSUME NEW req, NEW W, req.program = "benchmark", NEW shape, Supported(req, shape),
         NEW execution,
         execution = "executed" =>
           /\ ObservedReports(req.target, shape, req.mode) \subseteq W
           /\ EvidenceReport(req.target, shape, req.mode) \in W
  PROVE  Good(req, W, WriteSummary(req, shape, execution))
<1>1. PICK about :
        about = [asked |-> Asked(req, shape), execution |-> execution,
                 report |-> EvidenceReport(req.target, shape, req.mode),
                 checked |-> ChecksPhases(req.target, req.mode)]
  OBVIOUS
<1>2. /\ about.asked = Asked(req, shape) /\ about.execution = execution
      /\ about.report = EvidenceReport(req.target, shape, req.mode)
      /\ about.checked = ChecksPhases(req.target, req.mode)
  BY <1>1
<1>3. Evident(about)
  BY <1>2, RequestIsEvident
<1>4. PICK path : path = SummaryPath(req, shape)
  OBVIOUS
<1>5. ~IsRecord(path)
  <2>1. path.kind = "benchmark_summary"
    BY <1>4 DEF SummaryPath, DefaultSummaryPath, Named
  <2> QED BY <2>1 DEF IsRecord, StateKinds
<1>6. PICK c : c = Command("benchmark_summary", about,
                           ObservedReports(req.target, shape, req.mode), {path}, None)
  OBVIOUS
<1>7. /\ c.tool = "benchmark_summary" /\ c.about = about /\ c.writes = {path}
      /\ c.reads = ObservedReports(req.target, shape, req.mode)
  BY <1>6, CommandFields
<1>8. WriteSummary(req, shape, execution) = <<c>>
  BY <1>1, <1>4, <1>6 DEF WriteSummary
<1>9. SummaryFed(req, W, c)
  BY <1>2, <1>3, <1>5, <1>7 DEF SummaryFed
<1>10. Fed(req, W, c)
  BY <1>9 DEF Fed
<1> QED BY <1>8, <1>10, GoodOne

----------------------------------------------------------------------------
(* The modes of the command line.                                          *)

LEMMA MaybeEstimated ==
  ASSUME NEW req, NEW W, NEW shape,
         NEW t, t = <<>> \/ t = Estimate(req, shape)
  PROVE  Good(req, W, t) /\ IsSequence(t)
BY GoodNone, EstimateIsFed DEF Good

LEMMA PrintOnlyIsFed ==
  ASSUME NEW req, NEW shape
  PROVE  GoodSteps(req, PrintOnly(req, shape))
<1>1. PICK t : t = IF SidecarStagePlan(req.target, shape, req.mode, req.limit, req.phases).readiness
                      = Ready THEN <<>> ELSE ExitNotReady
  OBVIOUS
<1>2. PrintOnly(req, shape) = None \/ PrintOnly(req, shape) = Estimate(req, shape) \o t
  BY <1>1 DEF PrintOnly
<1>3. \A W : Good(req, W, t) /\ IsSequence(t)
  BY <1>1, GoodNone, ExitIsFed DEF Good
<1>4. Good(req, {}, Estimate(req, shape) \o t)
  BY <1>3, EstimateIsFed, GoodJoined
<1> QED BY <1>2, <1>4 DEF GoodSteps

LEMMA PreflightIsFed ==
  ASSUME NEW req, NEW shape, NEW commands
  PROVE  GoodSteps(req, Preflight(req, shape, commands))
BY EstimateIsFed DEF Preflight, GoodSteps

LEMMA ExistingIsFed ==
  ASSUME NEW req, req.program = "benchmark", NEW shape, NEW commands,
         commands # None => Supported(req, shape)
  PROVE  GoodSteps(req, SummaryFromExisting(req, shape, commands))
<1> SUFFICES ASSUME SummaryFromExisting(req, shape, commands) # None
             PROVE  Good(req, {}, SummaryFromExisting(req, shape, commands))
  BY DEF GoodSteps
<1>1. PICK t : t = IF EstimateWanted(req) THEN Estimate(req, shape) ELSE <<>>
  OBVIOUS
<1>2. PICK s : s = WriteSummary(req, shape, "existing_evidence")
  OBVIOUS
<1>3. SummaryFromExisting(req, shape, commands) = s \o t /\ commands # None
  BY <1>1, <1>2 DEF SummaryFromExisting
<1>4. Good(req, {}, s)
  <2>1. \A execution : execution # "executed" => Good(req, {}, WriteSummary(req, shape, execution))
    BY <1>3, WriteSummaryIsFed
  <2> QED BY <1>2, <2>1
<1>5. \A W : Good(req, W, t) /\ IsSequence(t)
  BY <1>1, MaybeEstimated
<1> QED BY <1>3, <1>4, <1>5, GoodJoined

LEMMA BenchmarkModeIsFed ==
  ASSUME NEW req, req.program = "benchmark", NEW shape, NEW commands,
         commands # None =>
           /\ Supported(req, shape)
           /\ Serves(req, commands, EvidenceReport(req.target, shape, req.mode),
                     ObservedReports(req.target, shape, req.mode))
  PROVE  GoodSteps(req, BenchmarkMode(req, shape, commands))
<1> SUFFICES ASSUME BenchmarkMode(req, shape, commands) # None
             PROVE  Good(req, {}, BenchmarkMode(req, shape, commands))
  BY DEF GoodSteps
<1>1. PICK dry : dry = ("--dry-run" \in req.modes)
  OBVIOUS
<1>2. PICK execution : execution = IF dry THEN "dry_run" ELSE "executed"
  OBVIOUS
<1>3. PICK r : r = IF dry THEN <<>> ELSE commands
  OBVIOUS
<1>4. PICK s : s = IF req.summary = None THEN <<>> ELSE WriteSummary(req, shape, execution)
  OBVIOUS
<1>5. PICK t : t = IF EstimateWanted(req) THEN Estimate(req, shape) ELSE <<>>
  OBVIOUS
<1>6. BenchmarkMode(req, shape, commands) = r \o s \o t /\ commands # None
  BY <1>1, <1>2, <1>3, <1>4, <1>5 DEF BenchmarkMode
<1>7. Good(req, {}, r)
  BY <1>3, <1>6, GoodNone DEF Serves
<1>8. IsSequence(s) /\ (Raises(r) \/ Good(req, {} \cup LeftBy(r), s))
  <2>1. CASE req.summary = None
    BY <1>4, <2>1, GoodNone DEF Good
  <2>2. CASE req.summary # None
    <3>1. \A W : (execution = "executed" =>
                    /\ ObservedReports(req.target, shape, req.mode) \subseteq W
                    /\ EvidenceReport(req.target, shape, req.mode) \in W) => Good(req, W, s)
      BY <1>4, <1>6, <2>2, WriteSummaryIsFed
    <3>2. IsSequence(s)
      <4>1. Good(req, ObservedReports(req.target, shape, req.mode)
                        \cup {EvidenceReport(req.target, shape, req.mode)}, s)
        BY <3>1
      <4> QED BY <4>1 DEF Good
    <3>3. CASE dry
      BY <1>2, <3>1, <3>2, <3>3
    <3>4. CASE ~dry
      BY <1>3, <1>6, <3>1, <3>2, <3>4 DEF Serves
    <3> QED BY <3>2, <3>3, <3>4
  <2> QED BY <2>1, <2>2
<1>9. Good(req, {}, r \o s) /\ IsSequence(r)
  BY <1>7, <1>8, GoodJoined DEF Good
<1>10. \A W : Good(req, W, t) /\ IsSequence(t)
  BY <1>5, MaybeEstimated
<1>11. Good(req, {}, (r \o s) \o t)
  BY <1>9, <1>10, GoodJoined
<1> QED BY <1>6, <1>11

LEMMA BenchmarkStepsAreFed ==
  ASSUME NEW req, req.program = "benchmark", req.phases \in Int,
         \/ ResolvedShape(req.argv) = None
         \/ ResolvedShape(req.argv) \in (Int \cup {None}) \X (Int \cup {None})
  PROVE  GoodSteps(req, RunWithArgs(req))
<1>1. CASE NormalizationRefused(req)
  BY <1>1 DEF RunWithArgs, GoodSteps
<1>2. CASE ~NormalizationRefused(req)
  <2>1. PICK shape : shape = ResolvedShape(req.argv)
    OBVIOUS
  <2>2. shape = None \/ Counted(shape)
    <3>1. ~ShapeError(req.argv)
      BY <1>2 DEF NormalizationRefused
    <3> QED BY <2>1, <3>1, ShapeIsCounted
  <2>3. PICK commands :
          commands = BenchmarkPlan(req.target, shape, req.limit, req.mode, req.phases)
    OBVIOUS
  <2>4. commands # None =>
          /\ Supported(req, shape)
          /\ Serves(req, commands, EvidenceReport(req.target, shape, req.mode),
                    ObservedReports(req.target, shape, req.mode))
    BY <2>2, <2>3, BenchmarkCommandsServe
  <2>5. RunWithArgs(req) = RunOnTarget(req, shape, commands)
    BY <1>2, <2>1, <2>3 DEF RunWithArgs, Planned
  <2>6. RunOnTarget(req, shape, commands) \in
          {PrintOnly(req, shape), Preflight(req, shape, commands),
           SummaryFromExisting(req, shape, commands), BenchmarkMode(req, shape, commands)}
    BY DEF RunOnTarget
  <2>7. /\ GoodSteps(req, PrintOnly(req, shape))
        /\ GoodSteps(req, Preflight(req, shape, commands))
    BY PrintOnlyIsFed, PreflightIsFed
  <2>8. GoodSteps(req, SummaryFromExisting(req, shape, commands))
    BY <2>4, ExistingIsFed
  <2>9. GoodSteps(req, BenchmarkMode(req, shape, commands))
    BY <2>4, BenchmarkModeIsFed
  <2> QED BY <2>5, <2>6, <2>7, <2>8, <2>9
<1> QED BY <1>1, <1>2

----------------------------------------------------------------------------
(* Every command line.                                                     *)

LEMMA StepsAreFed ==
  ASSUME NEW req \in Asks
  PROVE  GoodSteps(req, Steps(req))
<1>1. CASE req.program = "benchmark"
  <2>1. GoodSteps(req, RunWithArgs(req))
    BY <1>1, AsksAssumption, BenchmarkStepsAreFed
  <2> QED BY <1>1, <2>1 DEF Steps
<1>2. CASE req.program = "reproduction"
  <2>1. GoodSteps(req, ReproductionSteps(req))
    BY <1>2, AsksAssumption, ReproductionStepsAreFed
  <2> QED BY <1>2, <2>1 DEF Steps
<1>3. CASE req.program = "template"
  <2>1. GoodSteps(req, TemplateSteps(req))
    BY <1>3, AsksAssumption, TemplateStepsAreFed
  <2> QED BY <1>3, <2>1 DEF Steps
<1>4. CASE req.program = "eval"
  <2>1. GoodSteps(req, EvalSteps(req))
    <3>1. req.size \in Int
      BY <1>4, AsksAssumption
    <3> QED BY <1>4, <3>1, EvalStepsAreFed DEF GoodSteps
  <2> QED BY <1>4, <2>1 DEF Steps
<1> QED BY <1>1, <1>2, <1>3, <1>4, AsksAssumption

(* Every step of every command line that is not refused finds what it reads*)
(* of its own invocation left by an earlier step, under a name that says the*)
(* target, the shape and the cfg_* values it is of; only a one-phase probe of*)
(* the persistent ABI compares a dump nobody made.                         *)
THEOREM ScriptsFeedThemselves == Scripted
<1> SUFFICES ASSUME NEW req \in Asks, Steps(req) # None
             PROVE  Good(req, {}, Steps(req)) /\ AllPresent(Steps(req))
  BY DEF Scripted
<1>1. Good(req, {}, Steps(req))
  BY StepsAreFed DEF GoodSteps
<1>2. PICK s : s = Steps(req)
  OBVIOUS
<1>3. Script[req] = s
  BY <1>2 DEF Script
<1>4. DOMAIN s = 1 .. Len(s)
  BY <1>1, <1>2, SequenceFacts DEF Good
<1>5. ASSUME NEW i \in DOMAIN s PROVE Present(s[i])
  BY <1>2, <1>3, FilesAssumption DEF Present
<1>6. AllPresent(s)
  BY <1>4, <1>5 DEF AllPresent
<1> QED BY <1>1, <1>2, <1>6

----------------------------------------------------------------------------
(* What is true of every campaign.                                         *)

(* The limits of the model, and that nothing is left to do at rest.        *)
Bounded ==
  /\ executed \in 0 .. MaxExecuted
  /\ failures \in 0 .. MaxFailures
  /\ outcome \in {"none", "running", "error", "not_ready", "done"}
  /\ running = 0 => todo = <<>>

LEMMA CountedUp ==
  ASSUME NEW m \in Nat, NEW n \in 0 .. m, n < m
  PROVE  n + 1 \in 0 .. m
OBVIOUS

LEMMA BoundedStep == Numbered /\ Bounded /\ [Next]_campaignVars => Bounded'
<1> SUFFICES ASSUME Numbered, Bounded, [Next]_campaignVars PROVE Bounded'
  OBVIOUS
<1>1. ASSUME UNCHANGED executed, failures' \in 0 .. MaxFailures,
             \/ UNCHANGED <<running, todo, outcome>>
             \/ running # 0 /\ UNCHANGED <<running, outcome>>
             \/ /\ todo' = <<>> /\ running' = 0
                /\ outcome' \in {"none", "running", "error", "not_ready", "done"}
             \/ /\ UNCHANGED <<running, todo>>
                /\ outcome' \in {"none", "running", "error", "not_ready", "done"}
      PROVE  Bounded'
  BY <1>1 DEF Bounded
<1>2. failures \in 0 .. MaxFailures
  BY DEF Bounded
<1>3. ASSUME NEW req \in Asks, Answer(req, Script[req]) PROVE Bounded'
  <2> PICK steps : steps = Script[req]
    OBVIOUS
  <2>1. CASE Accept(req, steps)
    <3>1. executed' \in 0 .. MaxExecuted
      <4>1. CASE Executes(steps)
        <5>1. executed < MaxExecuted /\ executed' = executed + 1
          BY <2>1, <4>1 DEF Accept, WithinBounds
        <5> QED BY <5>1, CountedUp, BoundsAssumption DEF Bounded
      <4>2. CASE ~Executes(steps)
        <5>1. executed' = executed + 0
          BY <2>1, <4>2 DEF Accept
        <5>2. executed \in 0 .. MaxExecuted /\ executed + 0 = executed
          BY DEF Bounded
        <5> QED BY <5>1, <5>2
      <4> QED BY <4>1, <4>2
    <3>2. running' # 0
      <4>1. history \in Seq(Asks) /\ history' = Append(history, req) /\ running' = Len(history')
        BY <2>1 DEF Accept, Numbered
      <4> QED BY <4>1
    <3>3. UNCHANGED failures /\ outcome' = "running"
      BY <2>1 DEF Accept
    <3> QED BY <1>2, <3>1, <3>2, <3>3 DEF Bounded
  <2>2. CASE Refuse(steps)
    BY <1>1, <1>2, <2>2 DEF Refuse
  <2> QED BY <1>3, <2>1, <2>2 DEF Answer
<1>4. CASE RunProgram
  BY <1>1, <1>2, <1>4 DEF RunProgram, InProgress, AtRest, Proceed
<1>5. ASSUME failures < MaxFailures PROVE failures + 1 \in 0 .. MaxFailures
  BY <1>2, <1>5, CountedUp, BoundsAssumption
<1>6. CASE RejectCompare
  <2>1. failures' \in 0 .. MaxFailures
    BY <1>5, <1>6 DEF RejectCompare
  <2> QED BY <1>1, <1>6, <2>1 DEF RejectCompare, Stop
<1>7. CASE FailProgram
  <2>1. failures' \in 0 .. MaxFailures
    BY <1>2, <1>5, <1>7 DEF FailProgram, ProgramFails
  <2> QED BY <1>1, <1>7, <2>1 DEF FailProgram, Stop
<1>8. CASE WriteReport
  BY <1>1, <1>2, <1>8 DEF WriteReport, InProgress, AtRest, Proceed
<1>9. CASE WriteBenchmarkSummary
  BY <1>1, <1>2, <1>9 DEF WriteBenchmarkSummary, InProgress, AtRest, Proceed
<1>10. CASE MakeEstimate
  BY <1>1, <1>2, <1>10 DEF MakeEstimate, InProgress, AtRest, Proceed
<1>11. CASE ScriptRaises
  BY <1>1, <1>2, <1>11 DEF ScriptRaises, Stop
<1>12. CASE ExitsNotReady
  BY <1>1, <1>2, <1>12 DEF ExitsNotReady, Stop
<1>13. CASE Finish
  BY <1>1, <1>2, <1>13 DEF Finish, Stop
<1>14. CASE UNCHANGED campaignVars
  BY <1>1, <1>2, <1>14 DEF campaignVars
<1> QED
  BY <1>3, <1>4, <1>6, <1>7, <1>8, <1>9, <1>10, <1>11, <1>12, <1>13, <1>14 DEF Next

(* The inductive invariant.                                                *)
CampaignInv == Numbered /\ FilesInv /\ FlowInv /\ Bounded

LEMMA CampaignInvHolds == CampaignSpec => []CampaignInv
<1>1. Init => CampaignInv
  <2> SUFFICES ASSUME Init PROVE Bounded
    BY InitNumbered, InitFlows DEF CampaignInv
  <2>1. 0 \in 0 .. MaxExecuted /\ 0 \in 0 .. MaxFailures
    BY BoundsAssumption
  <2> QED BY <2>1 DEF Init, Bounded
<1>2. CampaignInv /\ [Next]_campaignVars => CampaignInv'
  BY NumberedStep, FlowStep, ScriptsFeedThemselves, BoundedStep DEF CampaignInv
<1> QED BY <1>1, <1>2, PTL DEF CampaignSpec

(* The last invocation accepted is the one that runs, within the limits;   *)
(* no file claims an invocation that was not made, and every dump and      *)
(* comparison in place is of one state and one step at least.              *)
THEOREM CampaignTypes == CampaignSpec => []TypeOK
<1>1. CampaignInv => TypeOK
  <2> SUFFICES ASSUME CampaignInv PROVE TypeOK
    OBVIOUS
  <2>1. Len(history) \in Nat /\ running \in {0, Len(history)}
    BY DEF CampaignInv, Numbered
  <2>2. running \in 0 .. Len(history)
    BY <2>1
  <2>3. todo # <<>> => running = Len(history)
    BY <2>1 DEF CampaignInv, Bounded
  <2>4. ASSUME NEW f \in Here
        PROVE  /\ files[f].by \in 0 .. Len(history)
               /\ files[f].runs \subseteq 0 .. Len(history)
               /\ files[f].tool \in {"host_probe", "run_vl_hybrid", "run_vl_hybrid_phases",
                                     "compare"} => PositiveShape(files[f].shape)
    BY DEF CampaignInv, FilesInv, Sound, Dated, AsNamed, Measuring
  <2> QED BY <2>2, <2>3, <2>4 DEF CampaignInv, Bounded, TypeOK
<1> QED BY <1>1, CampaignInvHolds, PTL

(* No workflow compares the dump of one shape, phase or cfg_* values with  *)
(* the reference of another, whatever the invocations before it left.      *)
THEOREM ComparisonsAreOfLike == CampaignSpec => []ComparedLikeWithLike
<1>1. CampaignInv => ComparedLikeWithLike
  BY DEF CampaignInv, FilesInv, Sound, Unmixed, ComparedLikeWithLike
<1> QED BY <1>1, CampaignInvHolds, PTL

(* Nothing of an earlier invocation gets into the dumps, the comparisons   *)
(* and the summaries of a later one.                                       *)
THEOREM InvocationsDoNotMix == CampaignSpec => []ReportsAreOfOneRun
<1>1. CampaignInv => ReportsAreOfOneRun
  BY DEF CampaignInv, FilesInv, Sound, Unmixed, Recorders, Measuring, ReportsAreOfOneRun
<1> QED BY <1>1, CampaignInvHolds, PTL

(* A benchmark that says it executed and collected its evidence collected  *)
(* what it has itself just written.                                        *)
THEOREM ExecutedEvidenceIsFresh == CampaignSpec => []ExecutedSummaryIsFresh
<1>1. CampaignInv => ExecutedSummaryIsFresh
  <2> SUFFICES ASSUME CampaignInv, NEW f \in Here
               PROVE  LET s == files[f]
                      IN  /\ s.tool = "benchmark_summary"
                          /\ s.evidence.execution = "executed"
                          /\ s.evidence.found.status = "collected"
                          /\ ~SinglePhaseProbe(history[s.by])
                          => s.evidence.found.runs = {s.by} /\ s.runs \subseteq {s.by}
    BY DEF ExecutedSummaryIsFresh
  <2>1. Fresh(history, files[f])
    BY DEF CampaignInv, FilesInv, Sound
  <2> QED BY <2>1 DEF Fresh
<1> QED BY <1>1, CampaignInvHolds, PTL

(* Collected evidence is of the target, the shape and the phases that were *)
(* asked for, of which the names of the aggregates say nothing.            *)
THEOREM EvidenceAnswersTheRequest == CampaignSpec => []EvidenceIsOfTheRequest
<1>1. CampaignInv => EvidenceIsOfTheRequest
  <2>1. CampaignInv => \A f \in Here : Answers(files[f])
    BY DEF CampaignInv, FilesInv, Sound
  <2> QED BY <2>1 DEF Answers, EvidenceIsOfTheRequest
<1> QED BY <1>1, CampaignInvHolds, PTL

(* A benchmark of a slice runs, writes and compares its own target only.   *)
THEOREM BenchmarksStayOnTarget == CampaignSpec => []RunsTheAskedTarget
<1>1. CampaignInv => RunsTheAskedTarget
  <2>1. CampaignInv => \A f \in Here : OnTarget(history, files[f])
    BY DEF CampaignInv, FilesInv, Sound
  <2> QED BY <2>1 DEF OnTarget, Sliced, AskedTarget, RunsTheAskedTarget
<1> QED BY <1>1, CampaignInvHolds, PTL

----------------------------------------------------------------------------
(* The images of the batches.                                              *)

Images(b) == b.tag[4]

BatchReport(index, size) ==
  Named("compare_report", Payloads[EvalTemplate].target, <<1, 1>>,
        <<"imagenet_batch", "", index, size>>)

(* The reports of two batches differ.                                      *)
LEMMA BatchReportFields ==
  ASSUME NEW index, NEW size
  PROVE  LET b == BatchReport(index, size) IN
         /\ b.kind = "compare_report" /\ Images(b) = size
         /\ \A i, s : BatchReport(i, s) = b => i = index
<1>1. \A i, s : /\ BatchReport(i, s).kind = "compare_report"
                /\ BatchReport(i, s).tag = <<"imagenet_batch", "", i, s>>
  BY DEF BatchReport, Named
<1>2. ASSUME NEW i, NEW s
      PROVE  Images(BatchReport(i, s)) = s /\ BatchReport(i, s).tag[3] = i
  <2>1. PICK tag : tag = <<"imagenet_batch", "", i, s>>
    OBVIOUS
  <2>2. tag[4] = s /\ tag[3] = i
    BY <2>1
  <2>3. BatchReport(i, s).tag = tag
    BY <1>1, <2>1
  <2> QED BY <2>2, <2>3 DEF Images
<1>3. \A i, s : BatchReport(i, s) = BatchReport(index, size) => i = index
  BY <1>2
<1> QED BY <1>1, <1>2, <1>3

(* The batches are the whole ones, and one of what is left over.           *)
LEMMA Batches ==
  ASSUME NEW count \in Nat, NEW size \in Nat \ {0}
  PROVE  LET sizes == BatchSizes(count, size)
             n == (count + size - 1) \div size
         IN  /\ n \in Nat /\ DOMAIN sizes = 1 .. n
             /\ \A i \in 1 .. n : /\ sizes[i] \in Nat
                                  /\ i * size <= count => sizes[i] = size
                                  /\ i * size > count => sizes[i] = count - (i - 1) * size
             /\ n * size >= count
             /\ n > 0 => (n - 1) * size < count
<1> DEFINE sizes == BatchSizes(count, size)
           n == (count + size - 1) \div size
           r == (count + size - 1) % size
<1>1. n \in Nat /\ r \in 0 .. size - 1 /\ count + size - 1 = size * n + r
  <2>1. PICK c \in Nat : c = count + size - 1
    OBVIOUS
  <2>2. c = size * (c \div size) + (c % size) /\ 0 <= c % size /\ c % size < size /\ c \div size \in Nat
    OBVIOUS
  <2>3. c % size \in 0 .. size - 1
    OBVIOUS
  <2> QED BY <2>1, <2>2, <2>3
<1>2. DOMAIN sizes = 1 .. n
  BY DEF BatchSizes
<1>3. \A i \in 1 .. n : sizes[i] = IF i * size <= count THEN size ELSE count % size
  BY DEF BatchSizes
<1> HIDE DEF n, r, sizes
<1>4. PICK p \in Nat : p = n * size /\ p = size * n
  BY <1>1
<1>5. n * size >= count
  BY <1>1, <1>4
<1>6. (n - 1) * size = p - size
  BY <1>1, <1>4
<1>7. (n - 1) * size < count
  BY <1>1, <1>4, <1>6
<1>8. ASSUME NEW i \in 1 .. n
      PROVE  /\ sizes[i] \in Nat
             /\ i * size <= count => sizes[i] = size
             /\ i * size > count => sizes[i] = count - (i - 1) * size
  <2>1. i * size \in Nat
    BY <1>1
  <2>2. CASE i * size <= count
    BY <1>3, <2>1, <2>2
  <2>3. CASE i * size > count
    <3>1. i = n
      <4>1. ASSUME i < n PROVE FALSE
        <5>1. PICK k \in Nat : n - 1 = i + k
          BY <1>1, <4>1
        <5>2. (n - 1) * size = i * size + k * size /\ k * size \in Nat
          BY <5>1
        <5> QED BY <1>7, <2>1, <2>3, <5>2
      <4> QED BY <1>1, <4>1
    <3>2. PICK q \in Nat : q = (i - 1) * size /\ q < count
      BY <1>1, <1>7, <3>1
    <3>3. i * size = q + size
      BY <1>1, <3>2
    <3>4. count - q \in 0 .. size - 1
      BY <2>3, <3>2, <3>3
    <3>5. count % size = count - q
      <4>1. PICK j \in Nat : j = i - 1
        BY <1>1
      <4>2. \A c \in Nat, m \in Nat, s \in 0 .. size - 1 : c = m * size + s => c % size = s
        OBVIOUS
      <4>3. count = j * size + (count - q)
        BY <3>2, <4>1
      <4> QED BY <3>4, <4>2, <4>3
    <3>6. sizes[i] = count - q
      BY <1>3, <2>1, <2>3, <3>5
    <3> QED BY <2>1, <2>3, <3>2, <3>4, <3>6
  <2> QED BY <2>1, <2>2, <2>3
<1> QED BY <1>1, <1>2, <1>5, <1>7, <1>8 DEF n, sizes

LEMMA ReportsOfBatches ==
  ASSUME NEW size \in Nat \ {0}
  PROVE  LET sizes == BatchSizes(ImageCount, size) IN
         BatchReports(size) = {BatchReport(i, sizes[i]) : i \in DOMAIN sizes}
<1>1. \A index, s : ImagenetBatchPlan(index, s, 0).compareReport = BatchReport(index, s)
  BY BatchPlanFields DEF BatchReport
<1> QED BY <1>1 DEF BatchReports

(* What is added up, in whatever order.                                    *)
Adding(B) == [p \in Int \X B |-> p[1] + Images(p[2])]

LEMMA AddingCommutes ==
  ASSUME NEW B, \A b \in B : Images(b) \in Int
  PROVE  Adding(B) \in StepFunctions(Int, B) /\ Commutes(Adding(B), Int, B)
<1>1. \A m \in Int : \A b \in B : Adding(B)[<<m, b>>] = m + Images(b) /\ m + Images(b) \in Int
  BY DEF Adding
<1>2. Adding(B) \in StepFunctions(Int, B)
  BY <1>1 DEF Adding, StepFunctions
<1>3. ASSUME NEW m \in Int, NEW x \in B, NEW y \in B
      PROVE  Adding(B)[<<Adding(B)[<<m, x>>], y>>] = Adding(B)[<<Adding(B)[<<m, y>>], x>>]
  <2>1. /\ Adding(B)[<<m, x>>] = m + Images(x) /\ m + Images(x) \in Int
        /\ Adding(B)[<<m, y>>] = m + Images(y) /\ m + Images(y) \in Int
    BY <1>1
  <2>2. /\ Adding(B)[<<m + Images(x), y>>] = (m + Images(x)) + Images(y)
        /\ Adding(B)[<<m + Images(y), x>>] = (m + Images(y)) + Images(x)
    BY <1>1, <2>1
  <2> QED BY <2>1, <2>2
<1> QED BY <1>2, <1>3 DEF Commutes

(* The sum over a set is that of any order.                                *)
LEMMA SumIsUnordered ==
  ASSUME NEW B, IsFiniteSet(B), \A b \in B : Images(b) \in Int,
         NEW g \in SubsetFunctions(Int, B), Unordered(g, Adding(B), 0, B)
  PROVE  MapThenSumSet(Images, B) = g[B]
<1> DEFINE Values(i) ==
             [T \in SUBSET B |->
                IF T = {} THEN 0
                ELSE Images(CHOOSE x \in T : TRUE) + i[T \ {CHOOSE x \in T : TRUE}]]
           it == CHOOSE i : i = Values(i)
           h == [T \in SUBSET B |-> g[T]]
<1>1. MapThenSumSet(Images, B) = it[B]
  BY DEF MapThenSumSet, MapThenFoldSet
<1>2. ASSUME NEW T \in SUBSET B, T # {}
      PROVE  LET e == CHOOSE x \in T : TRUE
             IN  /\ e \in B /\ T \ {e} \in SUBSET B
                 /\ g[T] = Images(e) + g[T \ {e}]
  <2> DEFINE e == CHOOSE x \in T : TRUE
  <2>1. e \in T
    BY <1>2
  <2> HIDE DEF e
  <2>2. e \in B /\ T \ {e} \in SUBSET B /\ g[T \ {e}] \in Int /\ Images(e) \in Int
    BY <2>1 DEF SubsetFunctions
  <2>3. g[T] = Adding(B)[<<g[T \ {e}], e>>]
    BY <2>1 DEF Unordered
  <2>4. Adding(B)[<<g[T \ {e}], e>>] = g[T \ {e}] + Images(e)
    BY <2>2 DEF Adding
  <2>5. e \in B /\ T \ {e} \in SUBSET B /\ g[T] = Images(e) + g[T \ {e}]
    BY <2>2, <2>3, <2>4
  <2> QED BY <2>5 DEF e
<1>3. h = Values(h)
  <2>1. ASSUME NEW T \in SUBSET B, T # {} PROVE h[T] = Values(h)[T]
    BY <1>2, <2>1
  <2>2. h[{}] = Values(h)[{}]
    BY DEF Unordered
  <2> QED BY <2>1, <2>2
<1>4. it = Values(it)
  <2> HIDE DEF Values, h
  <2> QED BY <1>3
<1>5. it[{}] = 0
  BY <1>4
<1>6. ASSUME NEW T \in (SUBSET B) \ {{}}
      PROVE  LET e == CHOOSE x \in T : TRUE
             IN  it[T \ {e}] \in Int => it[T] = Adding(B)[<<it[T \ {e}], e>>]
  <2> DEFINE e == CHOOSE x \in T : TRUE
  <2>1. e \in B /\ Images(e) \in Int
    BY <1>2
  <2>2. it[T] = Values(it)[T]
    BY <1>4
  <2>3. it[T] = Images(e) + it[T \ {e}]
    <3> HIDE DEF it
    <3> QED BY <2>2
  <2> HIDE DEF it, e
  <2>4. \A m \in Int : Adding(B)[<<m, e>>] = Images(e) + m
    BY <2>1 DEF Adding
  <2>5. it[T \ {e}] \in Int => it[T] = Adding(B)[<<it[T \ {e}], e>>]
    BY <2>3, <2>4
  <2> QED BY <2>5 DEF e
<1>7. FollowsChoice(it, Int, Adding(B), 0, B)
  <2> HIDE DEF it
  <2> QED BY <1>5, <1>6 DEF FollowsChoice
<1> HIDE DEF it
<1>8. it[B] = g[B]
  BY <1>7, IterationIsUnordered
<1> QED BY <1>1, <1>8

LEMMA TimesUpTo ==
  ASSUME NEW k \in Nat, NEW n \in Nat, k <= n, NEW size \in Nat
  PROVE  k * size \in Nat /\ k * size <= n * size
<1>1. PICK j \in Nat : n = k + j
  OBVIOUS
<1>2. n * size = k * size + j * size /\ k * size \in Nat /\ j * size \in Nat
  BY <1>1
<1> QED BY <1>2

(* The batches, of whatever size, are of every image once.                 *)
LEMMA BatchesCoverTheImages ==
  ASSUME NEW size \in Nat \ {0}
  PROVE  MapThenSumSet(Images, BatchReports(size)) = ImageCount
<1> DEFINE sizes == BatchSizes(ImageCount, size)
           n == (ImageCount + size - 1) \div size
           reports == [i \in 1 .. n |-> BatchReport(i, sizes[i])]
           B == {reports[i] : i \in 1 .. n}
<1>0. PICK count \in Nat : count = ImageCount
  BY TemplatesAssumption
<1>1. /\ n \in Nat /\ DOMAIN sizes = 1 .. n
      /\ \A i \in 1 .. n : /\ sizes[i] \in Nat
                           /\ i * size <= count => sizes[i] = size
                           /\ i * size > count => sizes[i] = count - (i - 1) * size
      /\ n * size >= count
      /\ n > 0 => (n - 1) * size < count
  BY <1>0, Batches
<1>2. BatchReports(size) = B
  <2>1. BatchReports(size) = {BatchReport(i, sizes[i]) : i \in 1 .. n}
    BY <1>1, ReportsOfBatches
  <2> QED BY <2>1
<1> HIDE DEF n, sizes
<1>3. \A i \in 1 .. n : Images(reports[i]) = sizes[i]
  BY BatchReportFields
<1>4. \A i, j \in 1 .. n : reports[i] = reports[j] => i = j
  BY BatchReportFields
<1>5. IsFiniteSet(B)
  <2>1. IsFiniteSet(1 .. n)
    BY <1>1, FS_Interval
  <2>2. reports \in [1 .. n -> B]
    OBVIOUS
  <2>3. \A b \in B : \E i \in 1 .. n : reports[i] = b
    OBVIOUS
  <2> HIDE DEF reports, B
  <2>4. reports \in Surjection(1 .. n, B)
    BY <2>2, <2>3 DEF Surjection
  <2> QED BY <2>1, <2>4, FS_Surjection
<1> HIDE DEF reports
<1>6. \A b \in B : Images(b) \in Int
  BY <1>1, <1>3
<1>7. PICK g \in SubsetFunctions(Int, B) : Unordered(g, Adding(B), 0, B)
  <2> HIDE DEF B
  <2> QED BY <1>5, <1>6, AddingCommutes, UnorderedExists
<1> DEFINE FirstOf(k) == {reports[i] : i \in 1 .. k}
           Sum(k) == IF k * size <= count THEN k * size ELSE count
           S == {k \in 0 .. n : g[FirstOf(k)] = Sum(k)}
<1>8. 0 \in S
  <2>1. FirstOf(0) = {}
    OBVIOUS
  <2>2. Sum(0) = 0
    OBVIOUS
  <2>3. 0 \in 0 .. n
    BY <1>1
  <2> QED BY <1>7, <2>1, <2>2, <2>3 DEF Unordered
<1>9. ASSUME NEW k \in 0 .. n - 1, k \in S PROVE k + 1 \in S
  <2>0. k + 1 \in 1 .. n /\ k \in 0 .. n /\ (k + 1) - 1 = k /\ k <= n - 1 /\ n - 1 \in Nat /\ n > 0
    BY <1>1, <1>9
  <2>1. FirstOf(k + 1) \in SUBSET B /\ reports[k + 1] \in FirstOf(k + 1) /\ reports[k + 1] \in B
    BY <1>1, <2>0
  <2>2. FirstOf(k + 1) \ {reports[k + 1]} = FirstOf(k)
    <3>1. \A i \in 1 .. k + 1 : i \in 1 .. n /\ (i \in 1 .. k \/ i = k + 1)
      BY <1>1, <2>0
    <3>2. \A i \in 1 .. k : i \in 1 .. k + 1 /\ i # k + 1
      BY <2>0
    <3> QED BY <1>4, <2>0, <3>1, <3>2
  <2>3. g[FirstOf(k + 1)] = Adding(B)[<<g[FirstOf(k)], reports[k + 1]>>]
    <3> HIDE DEF B
    <3>1. \A T \in SUBSET B : \A x \in T : g[T] = Adding(B)[<<g[T \ {x}], x>>]
      BY <1>7 DEF Unordered
    <3> HIDE DEF FirstOf
    <3>2. g[FirstOf(k + 1)] =
            Adding(B)[<<g[FirstOf(k + 1) \ {reports[k + 1]}], reports[k + 1]>>]
      BY <2>1, <3>1
    <3> QED BY <2>2, <3>2
  <2>4. k * size \in Nat /\ k * size < count
    <3>1. k * size \in Nat /\ k * size <= (n - 1) * size /\ (n - 1) * size \in Nat
      BY <2>0, TimesUpTo
    <3>2. (n - 1) * size < count
      BY <1>1, <2>0
    <3>3. PICK p \in Nat : p = k * size
      BY <3>1
    <3>4. PICK q \in Nat : q = (n - 1) * size
      BY <3>1
    <3>5. p <= q /\ q < count
      BY <3>1, <3>2, <3>3, <3>4
    <3>6. p < count
      BY <3>5
    <3> QED BY <3>1, <3>3, <3>6
  <2>5. g[FirstOf(k)] = k * size
    <3>1. g[FirstOf(k)] = Sum(k)
      BY <1>9
    <3> QED BY <2>4, <3>1
  <2>6. g[FirstOf(k + 1)] = k * size + sizes[k + 1]
    <3>1. \A m \in Int : Adding(B)[<<m, reports[k + 1]>>] = m + sizes[k + 1]
      BY <1>3, <2>0, <2>1 DEF Adding
    <3>2. PICK p \in Nat : p = k * size
      BY <2>4
    <3>3. PICK r : r = reports[k + 1]
      OBVIOUS
    <3>4. Adding(B)[<<p, r>>] = p + sizes[k + 1]
      <4>1. \A m \in Int : Adding(B)[<<m, r>>] = m + sizes[k + 1]
        BY <3>1, <3>3
      <4>2. p \in Int
        OBVIOUS
      <4> HIDE DEF B
      <4> QED BY <4>1, <4>2
    <3> HIDE DEF FirstOf
    <3>5. g[FirstOf(k + 1)] = Adding(B)[<<p, r>>]
      BY <2>3, <2>5, <3>2, <3>3
    <3> QED BY <3>2, <3>4, <3>5
  <2>7. (k + 1) * size = k * size + size
    BY <2>0
  <2>8. /\ (k + 1) * size <= count => sizes[k + 1] = size
        /\ (k + 1) * size > count => sizes[k + 1] = count - k * size
    BY <1>1, <2>0
  <2>9. g[FirstOf(k + 1)] = Sum(k + 1)
    <3> HIDE DEF FirstOf
    <3>1. PICK p \in Nat : p = k * size
      BY <2>4
    <3>2. PICK q \in Nat : q = (k + 1) * size /\ q = p + size
      BY <2>7, <3>1
    <3>3. CASE q <= count
      BY <2>6, <2>8, <3>1, <3>2, <3>3
    <3>4. CASE q > count
      BY <2>6, <2>8, <3>1, <3>2, <3>4
    <3> QED BY <3>2, <3>3, <3>4
  <2>10. k + 1 \in 0 .. n
    BY <2>0
  <2> QED BY <2>9, <2>10
<1>10. n \in S
  <2> HIDE DEF S
  <2>1. 0 .. n \subseteq S
    BY <1>1, <1>8, <1>9, UpToInduction
  <2> QED BY <1>1, <2>1
<1>11. g[B] = count
  <2>1. g[FirstOf(n)] = Sum(n)
    BY <1>10
  <2>2. PICK q \in Nat : q = n * size
    BY <1>1
  <2>3. q >= count
    BY <1>1, <2>2
  <2> QED BY <2>1, <2>2, <2>3
<1>12. MapThenSumSet(Images, B) = g[B]
  <2> HIDE DEF B
  <2> QED BY <1>5, <1>6, <1>7, SumIsUnordered
<1> HIDE DEF B
<1> QED BY <1>0, <1>2, <1>11, <1>12

(* An evaluation is claimed only when its predictions were complete, and   *)
(* the batches that ran and compared equal are of every image, once.       *)
THEOREM ClaimsCoverEveryImage == CampaignSpec => []ClaimsAreBacked
<1>1. CampaignInv => ClaimsAreBacked
  <2> SUFFICES ASSUME CampaignInv, NEW f \in Here,
                      files[f].tool = "eval_summary", files[f].passed
               PROVE  /\ MapThenSumSet(LAMBDA b : b.tag[4], files[f].parts \ {Accuracy}) = ImageCount
                      /\ Accuracy \in files[f].parts
    BY DEF ClaimsAreBacked
  <2>1. PICK size \in Nat \ {0} : files[f].parts = {Accuracy} \cup BatchReports(size)
    BY DEF CampaignInv, FilesInv, Sound, Claimed
  <2>2. Accuracy \notin BatchReports(size)
    <3>1. Accuracy.kind = "summary"
      BY DEF Accuracy, Report, Named
    <3>2. \A b \in BatchReports(size) : b.kind = "compare_report"
      BY ReportsOfBatches, BatchReportFields
    <3> QED BY <3>1, <3>2
  <2>3. files[f].parts \ {Accuracy} = BatchReports(size)
    BY <2>1, <2>2
  <2>4. MapThenSumSet(Images, BatchReports(size)) = ImageCount
    BY BatchesCoverTheImages
  <2>5. MapThenSumSet(LAMBDA b : b.tag[4], BatchReports(size)) = ImageCount
    BY <2>4 DEF Images
  <2> QED BY <2>1, <2>3, <2>5
<1> QED BY <1>1, CampaignInvHolds, PTL
=============================================================================
