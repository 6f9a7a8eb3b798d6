----------------------------- MODULE MCFrontEnd -----------------------------
(***************************************************************************)
(* Three directories for a `verilator'; the registry's kinds of target,    *)
(* each once: one with every mode, one with a second name, and the dataset *)
(* target.                                                                 *)
(***************************************************************************)
EXTENDS FrontEnd

CONSTANTS A, B, C

----------------------------------------------------------------------------
(* Command lines                                                           *)

States(n) == Option("--sim-accel-states", n)
Steps(n) == Option("--sim-accel-steps", n)
Accel == Option("--sim-accel", "sidecar-gpu")
Mdir == Option("-Mdir", "obj_dir")
Inputs == <<Option("--cc", ""), Option("--top-module", "top"), Option("-f", "filelist")>>
Expanded(n, s) == <<Mdir, Accel, States(n), Steps(s)>>

----------------------------------------------------------------------------
(* RTLMeter                                                                *)

MCInstallations ==
  {k \in [Dirs -> Kinds] : k[A] \in {"absent", "script"} /\ k[B] # "absent"
                             /\ k[C] \in {"absent", "script"}}

MCEnvironments ==
  {e \in [path : {<<B>>, <<C, B>>, <<A, B>>}, real : {None, B, C}, wrapper : {None, C},
          optIn : {FALSE}] :
     e.wrapper = C => e.real = None}

Seed == [design |-> "Example", config |-> "kind", test |-> "hello"]

MCDescriptors ==
  [d \in {"Example", "Other"} |->
     [configs |-> [c \in {"kind"} |->
        [top |-> IF d = "Other" THEN None ELSE "top", clock |-> "clk", args |-> <<>>]]]]

Run(execute, seed, args) == [execute |-> execute, seed |-> seed, compileArgs |-> args]

MCRequests ==
  {Run(TRUE, Seed, <<>>),
   Run(FALSE, Seed, <<>>),
   Run(TRUE, Seed, <<Accel, States(2), Steps(1)>>),
   Run(TRUE, [Seed EXCEPT !.test = None], <<>>),
   Run(TRUE, [Seed EXCEPT !.design = "Other"], <<>>)}

Complete == [target |-> "ita", template |-> "T_ita", closure |-> "complete", rest |-> TRUE]

MCCalls ==
  {[argv |-> Inputs \o a, context |-> x] :
     a \in {<<>>, <<Option("--use-gpu", "")>>, Expanded(2, 1), Expanded(2, 1) \o <<States(4)>>},
     x \in {None, Complete, [Complete EXCEPT !.closure = "incomplete"]}}
  \cup {[argv |-> Inputs \o Expanded(2, 1), context |-> [Complete EXCEPT !.template = "T_kv"]]}

MCTemplateTarget == [t \in {"T_ita", "T_kv"} |-> IF t = "T_ita" THEN "ita" ELSE "kv"]

----------------------------------------------------------------------------
(* The native path                                                         *)

Template(target, legacy) ==
  [legacy |-> legacy, target |-> target, top |-> IF legacy THEN None ELSE "tb",
   runnerTop |-> "tb", sources |-> ~legacy, overlay |-> FALSE, gate |-> None,
   builder |-> FALSE, closure |-> None]

MCPayloads ==
  [t \in {"T_ita", "T_kv"} |->
     IF t = "T_ita" THEN Template("ita", FALSE) ELSE Template("kv", TRUE)]

Slice(template, canonical, modes) ==
  [kind |-> "slice", template |-> template, canonical |-> canonical, modes |-> modes]

MCRegistry ==
  [t \in {"ita", "kv", "kv_alias", "mobile_vit"} |->
     CASE t = "ita" -> Slice("T_ita", "ita", Modes)
       [] t \in {"kv", "kv_alias"} -> Slice("T_kv", "kv", {"template"})
       [] t = "mobile_vit" -> [kind |-> "mobile_vit", template |-> None,
                               canonical |-> "mobile_vit", modes |-> {"template"}]]

Context(target, template) ==
  [target |-> target, mode |-> "template", template |-> template, entry |-> None,
   ref |-> "reviewed", limit |-> None, phases |-> None]

Ita == Context("ita", "T_ita")

Entry(target, template) == [target |-> target, template |-> template]

MCContexts ==
  {Ita,
   [Ita EXCEPT !.ref = "draft"],
   [Ita EXCEPT !.mode = "resident-state-reuse"],
   [Ita EXCEPT !.template = "T_kv"],
   [Ita EXCEPT !.phases = 2],
   Context("kv_alias", "T_kv"),
   [Context("kv", None) EXCEPT !.entry = Entry("kv", "T_kv")],
   [Context("kv", None) EXCEPT !.entry = Entry("ita", "T_kv")]}

MCReviewedShape == <<64, 1>>

Asks(program, argv, context) ==
  [program |-> program, argv |-> Inputs \o argv, context |-> context]

MCNativeRequests ==
  {Asks("verilator", Expanded(n, 1), x) : n \in {4, 64}, x \in MCContexts}
  \cup {Asks("verilator", Tail(Expanded(64, 1)), Ita),
        Asks("verilator", Expanded(0, 1), Ita),
        Asks("verilator", <<Option("--sim-accel-shape", <<64, 1>>), Accel>>, Ita),
        Asks("verilator", <<Option("--shape", <<64, 1>>)>> \o Expanded(64, 1), Ita),
        Asks("make", Expanded(64, 1), Ita),
        Asks("verilator", Expanded(64, 1), [Context("mobile_vit", "any") EXCEPT !.limit = 128]),
        Asks("verilator", Expanded(64, 1), Context("unknown", "any"))}
=============================================================================
