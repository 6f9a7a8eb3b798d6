----------------------------- MODULE BuildCache -----------------------------
(***************************************************************************)
(* src/src/tools/build_vl_gpu*.py: from the C++ Verilator wrote into a     *)
(* build directory to the GPU module and the metadata the launcher reads.  *)
(* Every stage leaves a file behind and later builds reuse files: cached   *)
(* .ll and merged.ll unless the clang level changed, the patched IR with   *)
(* --reuse-gpu-patched-ll, the PTX with --reuse-ptx.  Tools fail and       *)
(* builds are killed between any two writes.                               *)
(*                                                                         *)
(* A file's content is what it was made from: the version of the C++ and   *)
(* the options.  The size of the root struct differs from version to       *)
(* version, so a storage size is the version it was measured on; a launch  *)
(* sequence is only there or not.  Files every build rewrites before it    *)
(* reads them (opt output, classifier report, host cleanup), the Syms      *)
(* state image, --out and --sm are left out.                               *)
(***************************************************************************)
EXTENDS Integers

CONSTANTS
  NClasses,     \* classes of the Verilated model, in makefile order
  Opts,         \* --clang-O
  GpuOpts,      \* --gpu-opt-level
  Requests,     \* build requests that may be made
  None,         \* no such file
  Torn,         \* a file whose writer was killed
  MaxVersion,   \* bound: times the C++ is generated
  MaxBuilds,    \* bound: builds
  MaxFailures   \* bound: failed tools and killed builds

Classes == 1 .. NClasses
Versions == 1 .. MaxVersion
Modes == {"full", "reuse_gpu_patched_ll", "reuse_ptx"}
Units == [ver : Versions, opt : Opts]
Codes == [Classes -> Units]
Lowered == [code : Codes, storage : Versions, split : BOOLEAN]
Modules == [code : Codes, storage : Versions, split : BOOLEAN, gpuOpt : GpuOpts]
Metas ==
  [storage : Versions, opt : Opts, gpuOpt : GpuOpts, seq : BOOLEAN, format : {"ptx", "cubin"}]

(* `parallel' is --jobs above 1, `ptxModule' --emit-ptx-module.            *)
BuildRequests ==
  [ mode : Modes, force : BOOLEAN, opt : Opts, gpuOpt : GpuOpts, split : BOOLEAN,
    ptxModule : BOOLEAN, parallel : BOOLEAN ]

Missing(S) == S \cup {None}
Written(S) == S \cup {None, Torn}

Directories ==
  [ ll : [Classes -> Missing(Units)], merged : Written(Codes), gpuLl : Written(Lowered),
    patched : Written(Lowered), ptx : Written(Modules), cubin : Written(Modules),
    manifest : BOOLEAN, marker : Written(Opts), meta : Written(Metas) ]

ASSUME ClassesAssumption == NClasses \in Nat \ {0}
ASSUME RequestsAssumption == Requests \subseteq BuildRequests
ASSUME FileAssumption ==
  /\ \A x \in {None, Torn} :
       /\ x \notin Requests
       /\ x \notin Opts \cup Units \cup Codes \cup Lowered \cup Modules \cup Metas
       /\ \A v \in Versions : x # v
  /\ None # Torn
ASSUME LimitsAssumption == MaxVersion \in Nat \ {0} /\ MaxBuilds \in Nat /\ MaxFailures \in Nat

VARIABLES
  source,    \* version of the .cpp and .h files
  dir,       \* the other files of the build directory
  stage,     \* where run_build_request is
  request,   \* its BuildRequest, None between builds
  existing,  \* existing_meta
  changed,   \* clang_changed
  pending,   \* classes still to compile
  rebuilt,   \* any_ll_rebuilt
  broken,    \* a compile job raised
  storage,   \* storage_size
  seq,       \* launch_sequence is not None
  builds,    \* builds requested
  failures,  \* tools failed and builds killed
  published, \* history: the module of the last build that wrote its metadata, None
             \* once a build stopped while it was publishing another
  unfailed   \* history: every build that got past its options ended well

context == <<request, existing, changed>>
compiling == <<pending, rebuilt, broken>>
artifacts == <<storage, seq>>
history == <<builds, failures, published, unfailed>>
vars == <<source, dir, stage, context, compiling, artifacts, history>>

Init ==
  /\ source = 1
  /\ dir = [ ll |-> [c \in Classes |-> None], merged |-> None, gpuLl |-> None,
             patched |-> None, ptx |-> None, cubin |-> None, manifest |-> FALSE,
             marker |-> None, meta |-> None ]
  /\ stage = "idle"
  /\ request = None
  /\ existing = None
  /\ changed = FALSE
  /\ pending = {}
  /\ rebuilt = FALSE
  /\ broken = FALSE
  /\ storage = None
  /\ seq = FALSE
  /\ builds = 0
  /\ failures = 0
  /\ published = None
  /\ unfailed = TRUE

----------------------------------------------------------------------------
(* What a tool or a write does to its file: the new content, or, when it   *)
(* fails or is killed, the old one, none, or half of the new one.  Text    *)
(* the build writes itself is truncated first and never removed.           *)
Remains(file) ==
  IF file \in {"meta", "marker"} THEN {dir[file], Torn} ELSE {dir[file], None, Torn}

Left(file, content) == dir' = [dir EXCEPT ![file] = content]

Fails == failures < MaxFailures /\ failures' = failures + 1 /\ stage' = "failed"

Produces(file, content, next) ==
  \/ Left(file, content) /\ stage' = next /\ UNCHANGED failures
  \/ Fails /\ \E x \in Remains(file) : Left(file, x)

(* A tool refuses an input that is missing or torn.                        *)
Transforms(input, file, content, next) ==
  IF dir[input] \in {None, Torn}
    THEN stage' = "failed" /\ (\E x \in {dir[file], None} : Left(file, x)) /\ UNCHANGED failures
    ELSE Produces(file, content, next)

----------------------------------------------------------------------------
(* Verilator runs again in the same directory.                             *)
Regenerate ==
  /\ stage = "idle"
  /\ source < MaxVersion
  /\ source' = source + 1
  /\ UNCHANGED <<dir, stage, context, compiling, artifacts, history>>

Reuses(r) == r.mode # "full"

RequestAccepted(r) == ~(Reuses(r) /\ r.split)

OptChanged(r) == dir.marker # None /\ dir.marker # r.opt

MustCompileUnforced(r, c) == OptChanged(r) \/ dir.ll[c] = None
MustCompile(r, c) == r.force \/ OptChanged(r) \/ dir.ll[c] = None

(* Options, then the metadata of the last build, which must be readable,   *)
(* then the plan of the .ll files.                                         *)
Start ==
  /\ stage = "idle"
  /\ builds < MaxBuilds
  /\ builds' = builds + 1
  /\ \E r \in Requests :
       /\ request' = r
       /\ IF RequestAccepted(r) /\ dir.meta # Torn
            THEN /\ existing' = dir.meta
                 /\ changed' = OptChanged(r)
                 /\ IF r.mode = "reuse_ptx"
                      THEN stage' = "reuse" /\ UNCHANGED <<pending, rebuilt>>
                      ELSE /\ stage' = "compile"
                           /\ pending' = {c \in Classes : MustCompile(r, c)}
                           /\ rebuilt' = (pending' # {})
            ELSE stage' = "refused" /\ UNCHANGED <<existing, changed, pending, rebuilt>>
  /\ UNCHANGED <<source, dir, broken, artifacts, failures, published, unfailed>>

(* One clang.  The jobs run one after the other, or all at once; a failed  *)
(* clang keeps its output or removes it.                                   *)
Compile(c) ==
  /\ stage = "compile"
  /\ c \in pending
  /\ request.parallel \/ (~broken /\ \A d \in pending : c <= d)
  /\ pending' = pending \ {c}
  /\ \/ /\ dir' = [dir EXCEPT !.ll[c] = [ver |-> source, opt |-> request.opt]]
        /\ UNCHANGED <<broken, failures>>
     \/ /\ failures < MaxFailures
        /\ failures' = failures + 1
        /\ \E x \in {dir.ll[c], None} : dir' = [dir EXCEPT !.ll[c] = x]
        /\ broken' = TRUE
  /\ UNCHANGED <<source, stage, context, rebuilt, artifacts, builds, published, unfailed>>

(* The first failure ends a sequential compilation; the executor lets the  *)
(* other jobs end before the failure is raised.                            *)
CompiledStage == IF broken THEN "failed" ELSE "link"

Compiled ==
  /\ stage = "compile"
  /\ pending = {} \/ (broken /\ ~request.parallel)
  /\ pending' = {}
  /\ stage' = CompiledStage
  /\ broken' = FALSE
  /\ UNCHANGED <<source, dir, context, rebuilt, artifacts, history>>

Link ==
  /\ stage = "link"
  /\ IF request.force \/ changed \/ rebuilt \/ dir.merged = None
       THEN Produces("merged", dir.ll, "storage")
       ELSE stage' = "storage" /\ UNCHANGED <<dir, failures>>
  /\ UNCHANGED <<source, context, compiling, artifacts, builds, published, unfailed>>

(* resolve_build_storage_size: a probe of the current headers, unless the  *)
(* metadata of the build whose patched IR is reused knows the size.        *)
MeasureStorage ==
  /\ stage = "storage"
  /\ storage' = IF request.mode = "reuse_gpu_patched_ll" /\ existing # None
                  THEN existing.storage
                  ELSE source
  /\ stage' = IF Reuses(request) THEN "reuse" ELSE "lower"
  /\ UNCHANGED <<source, dir, context, compiling, seq, history>>

(* reuse_launch_sequence: from the metadata, else from a kernel manifest   *)
(* some earlier build left.                                                *)
ReusedSequence == (existing # None /\ existing.seq) \/ dir.manifest

ReusePatched ==
  /\ stage = "reuse"
  /\ request.mode = "reuse_gpu_patched_ll"
  /\ IF dir.patched = None
       THEN stage' = "failed" /\ UNCHANGED seq
       ELSE stage' = "optimize" /\ seq' = ReusedSequence
  /\ UNCHANGED <<source, dir, context, compiling, storage, history>>

ReusePtx ==
  /\ stage = "reuse"
  /\ request.mode = "reuse_ptx"
  /\ IF dir.ptx = None
       THEN stage' = "failed" /\ UNCHANGED artifacts
       ELSE /\ stage' = "assemble"
            /\ storage' = IF existing # None THEN existing.storage ELSE source
            /\ seq' = ReusedSequence
  /\ UNCHANGED <<source, dir, context, compiling, history>>

(* vlgpugen writes the GPU IR and, for a split kernel only, the manifest.  *)
Lower ==
  LET made == [code |-> dir.merged, storage |-> storage, split |-> request.split]
  IN /\ stage = "lower"
     /\ \/ /\ dir.merged # Torn
           /\ dir' = [dir EXCEPT !.gpuLl = made, !.manifest = @ \/ request.split]
           /\ seq' = request.split
           /\ stage' = "patch"
           /\ UNCHANGED failures
        \/ /\ IF dir.merged = Torn THEN stage' = "failed" /\ UNCHANGED failures ELSE Fails
           /\ \E x \in Remains("gpuLl"), m \in {dir.manifest, dir.manifest \/ request.split} :
                dir' = [dir EXCEPT !.gpuLl = x, !.manifest = m]
           /\ UNCHANGED seq
     /\ UNCHANGED <<source, context, compiling, storage, builds, published, unfailed>>

(* The passes on the GPU IR.                                               *)
Patch ==
  /\ stage = "patch"
  /\ Transforms("gpuLl", "patched", dir.gpuLl, "optimize")
  /\ UNCHANGED <<source, context, compiling, artifacts, builds, published, unfailed>>

(* opt and llc.                                                            *)
Optimized ==
  [ code |-> dir.patched.code, storage |-> dir.patched.storage,
    split |-> dir.patched.split, gpuOpt |-> request.gpuOpt ]

Optimize ==
  /\ stage = "optimize"
  /\ Transforms("patched", "ptx", Optimized, "assemble")
  /\ UNCHANGED <<source, context, compiling, artifacts, builds, published, unfailed>>

Assemble ==
  /\ stage = "assemble"
  /\ IF request.ptxModule
       THEN stage' = "meta" /\ UNCHANGED <<dir, failures>>
       ELSE Transforms("ptx", "cubin", dir.ptx, "meta")
  /\ published' = IF dir'.cubin # dir.cubin /\ stage' = "failed" THEN None ELSE published
  /\ UNCHANGED <<source, context, compiling, artifacts, builds, unfailed>>

FormatIgnoringModule == "cubin"
Format == IF request.ptxModule THEN "ptx" ELSE "cubin"

OutModule == IF request.ptxModule THEN dir.ptx ELSE dir.cubin

(* Metadata of a PTX that is only assembled again keeps its options.       *)
Keeps == request.mode = "reuse_ptx" /\ existing # None

NewMetaSwapped ==
  [ storage |-> storage,
    opt     |-> IF Keeps THEN existing.opt ELSE request.gpuOpt,
    gpuOpt  |-> IF Keeps THEN existing.gpuOpt ELSE request.opt,
    seq     |-> seq,
    format  |-> Format ]
NewMeta ==
  [ storage |-> storage,
    opt     |-> IF Keeps THEN existing.opt ELSE request.opt,
    gpuOpt  |-> IF Keeps THEN existing.gpuOpt ELSE request.gpuOpt,
    seq     |-> seq,
    format  |-> Format ]

WriteMeta ==
  /\ stage = "meta"
  /\ Produces("meta", NewMeta, "markers")
  /\ published' = IF stage' = "markers" THEN OutModule ELSE None
  /\ UNCHANGED <<source, context, compiling, artifacts, builds, unfailed>>

MarksFullOnly == request.mode = "full"
MarksOpt == request.mode # "reuse_ptx"

WriteMarkers ==
  /\ stage = "markers"
  /\ IF MarksOpt
       THEN Produces("marker", request.opt, "done")
       ELSE stage' = "done" /\ UNCHANGED <<dir, failures>>
  /\ UNCHANGED <<source, context, compiling, artifacts, builds, published, unfailed>>

(* A probe, a make or the build itself stops between two writes.           *)
Building == stage \notin {"idle", "done", "failed", "refused"}

Kill ==
  /\ Building
  /\ Fails
  /\ pending' = {}
  /\ broken' = FALSE
  /\ published' = IF stage = "meta" THEN None ELSE published
  /\ UNCHANGED <<source, dir, context, rebuilt, artifacts, builds, unfailed>>

(* What is left of a build is the directory.                               *)
Return ==
  /\ stage \in {"done", "failed", "refused"}
  /\ stage' = "idle"
  /\ request' = None
  /\ existing' = None
  /\ changed' = FALSE
  /\ rebuilt' = FALSE
  /\ storage' = None
  /\ seq' = FALSE
  /\ unfailed' = (unfailed /\ stage # "failed")
  /\ UNCHANGED <<source, dir, pending, broken, builds, failures, published>>

Next ==
  \/ Regenerate
  \/ Start
  \/ \E c \in Classes : Compile(c)
  \/ Compiled
  \/ Link
  \/ MeasureStorage
  \/ ReusePatched
  \/ ReusePtx
  \/ Lower
  \/ Patch
  \/ Optimize
  \/ Assemble
  \/ WriteMeta
  \/ WriteMarkers
  \/ Kill
  \/ Return

Spec == Init /\ [][Next]_vars

----------------------------------------------------------------------------
Stages ==
  { "idle", "compile", "link", "storage", "reuse", "lower", "patch", "optimize",
    "assemble", "meta", "markers", "done", "failed", "refused" }

(* Files hold what a stage can write, and jobs are pending or broken only  *)
(* while the .ll files are being compiled.                                 *)
TypeOK ==
  /\ source \in Versions
  /\ dir \in Directories
  /\ stage \in Stages
  /\ request \in Missing(Requests)
  /\ (request = None) = (stage = "idle")
  /\ existing \in Missing(Metas)
  /\ changed \in BOOLEAN
  /\ pending \in SUBSET Classes
  /\ rebuilt \in BOOLEAN
  /\ broken \in BOOLEAN
  /\ pending # {} \/ broken => stage = "compile"
  /\ storage \in Missing(Versions)
  /\ seq \in BOOLEAN
  /\ builds \in 0 .. MaxBuilds
  /\ failures \in 0 .. MaxFailures
  /\ published \in Written(Modules)
  /\ unfailed \in BOOLEAN

(* The module the metadata names.                                          *)
Module == IF dir.meta.format = "ptx" THEN dir.ptx ELSE dir.cubin

Fresh == [c \in Classes |-> [ver |-> source, opt |-> request.opt]]

(* --force, "Re-run all steps even if outputs exist": whatever builds      *)
(* failed or were killed before, a forced full build that ends well leaves *)
(* a module made of the current C++ with the options asked for, metadata   *)
(* that describe it, and a marker the next build may trust.                *)
ForcedBuildIsFresh ==
  stage = "done" /\ request.force /\ request.mode = "full" =>
    /\ Module = [ code |-> Fresh, storage |-> source, split |-> request.split,
                  gpuOpt |-> request.gpuOpt ]
    /\ dir.meta = [ storage |-> source, opt |-> request.opt, gpuOpt |-> request.gpuOpt,
                    seq |-> request.split, format |-> Format ]
    /\ dir.marker = request.opt

(* As long as no build failed, caches never show: a module is made of one  *)
(* version of the C++ at one clang level, its metadata give the storage    *)
(* size its kernels were generated for and its GPU level, and a full build *)
(* delivers the clang level and the kernel split it was asked for.         *)
UnfailedBuildsAreTruthful ==
  stage = "done" /\ unfailed =>
    /\ Module \in Modules
    /\ \A c, d \in Classes : Module.code[c] = Module.code[d]
    /\ Module.storage = dir.meta.storage
    /\ Module.gpuOpt = dir.meta.gpuOpt
    /\ request.mode = "full" =>
         /\ \A c \in Classes : Module.code[c].opt = request.opt
         /\ dir.meta.opt = request.opt
         /\ Module.split = request.split
         /\ dir.meta.seq = request.split

(* A rebuild that stops before it has assembled the cubin, for whatever    *)
(* reason and however often, leaves the module the metadata name exactly   *)
(* as the last successful build published it.                              *)
PublishedCubinIntact ==
  published # None /\ dir.meta \in Metas /\ dir.meta.format = "cubin" /\ stage # "meta" =>
    dir.cubin = published

(* --clang-O, "clang optimization when emitting .ll": a full build that    *)
(* ends well is made of .ll files emitted at the level it was given.       *)
OptimizationAsAsked ==
  stage = "done" /\ request.mode = "full" =>
    \A c \in Classes : Module.code[c].opt = request.opt

(* --kernel-split-phases, "meta gets launch_sequence": metadata with a     *)
(* launch sequence belong to a module with the split kernels it launches.  *)
SequenceNamesKernels ==
  stage = "done" /\ dir.meta.seq => Module \in Modules /\ Module.split
=============================================================================
