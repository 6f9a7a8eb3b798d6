----------------------------- MODULE MCCampaign -----------------------------
(***************************************************************************)
(* The templates the workflows name, small shapes, and command lines that  *)
(* share files: the same target at the same shape by a template run, a     *)
(* benchmark and a resident workflow, with other phases and another seed.  *)
(***************************************************************************)
EXTENDS Campaign

Slice(target, closure) ==
  [legacy |-> FALSE, target |-> target, top |-> "tb", runnerTop |-> "tb", sources |-> TRUE,
   overlay |-> FALSE, gate |-> None, builder |-> TRUE, closure |-> closure]

MCEvalTemplate == "pulp_ita_mha_imagenet"

Templates == {Mha, KvScore, FilelistKvScore, FilelistMha, MCEvalTemplate}

MCPayloads ==
  [t \in Templates |-> Slice(t, CASE t = FilelistMha -> "incomplete"
                                  [] t = FilelistKvScore -> None
                                  [] OTHER -> "complete")]

MCRegistry ==
  [t \in {Mha, "paged_attention_kv_score", FilelistMha, "mobile_vit"} |->
     CASE t = Mha -> [kind |-> "slice", template |-> Mha, canonical |-> Mha, modes |-> Modes]
       [] t = "paged_attention_kv_score" ->
            [kind |-> "slice", template |-> KvScore, canonical |-> t, modes |-> {"template"}]
       [] t = FilelistMha ->
            [kind |-> "slice", template |-> FilelistMha, canonical |-> t, modes |-> {"template"}]
       [] t = "mobile_vit" ->
            [kind |-> "mobile_vit", template |-> None, canonical |-> t, modes |-> {"template"}]]

MCShapePhaseCases == <<[id |-> "2x1_phase2", shape |-> <<2, 1>>, phases |-> 2, repeat |-> 1]>>
MCImageCount == 3

(* One empty place, and one where everything is built and the data set is  *)
(* prepared, with predictions made elsewhere.                              *)
Before(tool, target) == [Blank EXCEPT !.tool = tool, !.target = target]

Built ==
  [f \in {Model(t) : t \in Templates} |-> Before("verilator", f.target)]
  @@ [f \in {Probe(t) : t \in Templates} |-> Before("make", f.target)]
  @@ [f \in {Cubin(t) : t \in Templates} |-> Before("build_vl_gpu", f.target)]
  @@ [f \in {Manifest, Predictions} |-> Before("manifest", MCEvalTemplate)]

MCPlaces == {[f \in {} |-> Blank], Built}

----------------------------------------------------------------------------
(* Command lines                                                           *)

Shape(s) == <<Option("--sim-accel-shape", s)>>

Bench(target, shape, mode, phases, modes, summary) ==
  [program |-> "benchmark", target |-> target,
   argv |-> IF shape = Unshaped THEN <<>> ELSE Shape(shape),
   limit |-> IF target = "mobile_vit" THEN 128 ELSE None,
   mode |-> mode, phases |-> phases, modes |-> modes, summary |-> summary]

Repro(options, phases, states) ==
  [program |-> "reproduction", options |-> options, shape |-> <<2, 1>>, phases |-> phases,
   repeat |-> 1, states |-> states, dry |-> FALSE]

Template(template, shape, cfg, dry) ==
  [program |-> "template", template |-> template, shape |-> shape, cfg |-> cfg, dry |-> dry]

Eval(infer, dry, preflight) ==
  [program |-> "eval", infer |-> infer, size |-> 2, seed |-> 1, dry |-> dry,
   preflight |-> preflight]

Persistent == "persistent-resident-state-abi"
Reuse == "resident-state-reuse"

MCAsks ==
  {Bench(Mha, <<2, 1>>, "template", 2, {}, "auto"),
   Bench(Mha, <<2, 1>>, Reuse, 2, {}, "auto"),
   Bench(Mha, <<2, 1>>, Persistent, 2, {}, "auto"),
   Bench(Mha, <<2, 1>>, Persistent, 1, {}, "auto"),
   Bench(Mha, <<2, 1>>, Persistent, 3, {"--summary-from-existing"}, "auto"),
   Bench(Mha, <<2, 1>>, "template", 2, {"--summary-from-existing"}, "all"),
   Bench(Mha, <<2, 1>>, "template", 2, {"--dry-run"}, "auto"),
   Bench("paged_attention_kv_score", <<2, 1>>, Persistent, 2, {}, "auto"),
   Bench(Mha, <<2, 1>>, Persistent, 2, {"--print-operator-plan"}, None),
   Bench(FilelistMha, <<2, 1>>, "template", 2, {}, "auto"),
   Bench("mobile_vit", Unshaped, "template", 2, {}, "auto"),
   Bench("mobile_vit", Unshaped, "template", 2, {"--summary-from-existing"}, "auto")}
  \cup
  {Repro({}, 2, <<>>),
   Repro({"--persistent-resident-state-abi-shape-phase-sweep"}, 2, <<>>),
   Repro({"--filelist-broader-policy-repeat-median"}, 2, <<>>),
   Repro({"--resident-batch-sweep"}, 2, <<2>>),
   Repro({"--resident-batch-sweep"}, 2, <<0>>),
   [Repro({"--public-pack-archive"}, 2, <<>>) EXCEPT !.dry = TRUE]}
  \cup
  {Template(Mha, <<2, 1>>, <<64, 2>>, FALSE),
   Template(FilelistMha, <<2, 1>>, DefaultCfg, FALSE)}
  \cup {Eval(FALSE, FALSE, FALSE), Eval(TRUE, TRUE, FALSE), Eval(FALSE, FALSE, TRUE)}
=============================================================================
