-------------------------- MODULE BuildCacheProofs --------------------------
(* Theorems about the build directory, for every number of classes, every  *)
(* set of levels and requests, and any number of builds, regenerations and *)
(* failures.                                                               *)
EXTENDS BuildCache, TLAPS

----------------------------------------------------------------------------
(* Files.                                                                  *)

(* What a stage may leave in a file.                                       *)
Contents(file) ==
  Written(IF file = "merged" THEN Codes
          ELSE IF file \in {"gpuLl", "patched"} THEN Lowered
          ELSE IF file \in {"ptx", "cubin"} THEN Modules
          ELSE IF file = "marker" THEN Opts ELSE Metas)

Products == {"merged", "gpuLl", "patched", "ptx", "cubin", "marker", "meta"}

LEMMA UpdatedDirectory ==
  ASSUME NEW d \in Directories, NEW file \in Products, NEW x \in Contents(file)
  PROVE  /\ [d EXCEPT ![file] = x] \in Directories
         /\ [d EXCEPT ![file] = x][file] = x
         /\ [d EXCEPT ![file] = x].ll = d.ll
         /\ \A f \in Products \ {file} : [d EXCEPT ![file] = x][f] = d[f]
  BY DEF Directories, Products, Contents, Written, Missing

LEMMA FileContents ==
  ASSUME NEW d \in Directories, NEW file \in Products
  PROVE  d[file] \in Contents(file) /\ None \in Contents(file) /\ Torn \in Contents(file)
  BY DEF Directories, Products, Contents, Written

LEMMA LeftFile ==
  ASSUME dir \in Directories, NEW file \in Products, NEW x \in Contents(file), Left(file, x)
  PROVE  /\ dir' \in Directories
         /\ dir'[file] = x
         /\ dir'.ll = dir.ll
         /\ \A f \in Products \ {file} : dir'[f] = dir[f]
<1>1. dir' = [dir EXCEPT ![file] = x]
  BY DEF Left
<1>2. /\ [dir EXCEPT ![file] = x] \in Directories
      /\ [dir EXCEPT ![file] = x][file] = x
      /\ [dir EXCEPT ![file] = x].ll = dir.ll
      /\ \A f \in Products \ {file} : [dir EXCEPT ![file] = x][f] = dir[f]
  BY UpdatedDirectory
<1> QED BY <1>1, <1>2

(* A tool ends the stage with its output in place, or the build fails; the *)
(* other files stay.                                                       *)
LEMMA Production ==
  ASSUME dir \in Directories, failures \in 0 .. MaxFailures,
         NEW file \in Products, NEW content \in Contents(file), NEW next \in Stages,
         Produces(file, content, next)
  PROVE  /\ dir' \in Directories
         /\ dir'.ll = dir.ll
         /\ \A f \in Products \ {file} : dir'[f] = dir[f]
         /\ stage' \in {next, "failed"}
         /\ stage' # "failed" => dir'[file] = content
         /\ failures' \in 0 .. MaxFailures
<1>1. CASE Left(file, content) /\ stage' = next /\ UNCHANGED failures
  BY <1>1, LeftFile
<1>2. CASE Fails /\ \E x \in Remains(file) : Left(file, x)
  <2>1. PICK x \in Remains(file) : Left(file, x)
    BY <1>2
  <2>2. x \in Contents(file)
    BY <2>1, FileContents DEF Remains
  <2>3. stage' = "failed" /\ failures' \in 0 .. MaxFailures
    BY <1>2, LimitsAssumption DEF Fails
  <2> QED BY <2>1, <2>2, <2>3, LeftFile
<1> QED BY <1>1, <1>2 DEF Produces

LEMMA Transformation ==
  ASSUME dir \in Directories, failures \in 0 .. MaxFailures,
         NEW input \in Products, NEW file \in Products, NEW content, NEW next \in Stages,
         dir[input] \notin {None, Torn} => content \in Contents(file),
         Transforms(input, file, content, next)
  PROVE  /\ dir' \in Directories
         /\ dir'.ll = dir.ll
         /\ \A f \in Products \ {file} : dir'[f] = dir[f]
         /\ stage' \in {next, "failed"}
         /\ stage' # "failed" => dir'[file] = content
         /\ failures' \in 0 .. MaxFailures
<1>1. CASE dir[input] \in {None, Torn}
  <2>1. PICK x \in {dir[file], None} : Left(file, x)
    BY <1>1 DEF Transforms
  <2>2. x \in Contents(file)
    BY <2>1, FileContents
  <2> QED BY <1>1, <2>1, <2>2, LeftFile DEF Transforms
<1>2. CASE dir[input] \notin {None, Torn}
  BY <1>2, Production DEF Transforms
<1> QED BY <1>1, <1>2

----------------------------------------------------------------------------
(* Types.                                                                  *)

(* What a stage may rely on because an earlier one ran: every .ll is there *)
(* when they are linked, merged.ll when it is lowered, and the storage     *)
(* size when it is recorded.                                               *)
Supplied ==
  /\ stage = "compile" /\ ~broken => \A c \in Classes \ pending : dir.ll[c] \in Units
  /\ stage = "link" => dir.ll \in Codes
  /\ stage \in {"storage", "lower"} => dir.merged # None
  /\ stage \in {"lower", "patch", "optimize", "assemble", "meta"} => storage \in Versions
  /\ stage = "reuse" /\ request.mode # "reuse_ptx" => storage \in Versions

TInv == TypeOK /\ Supplied

LEMMA RequestFields ==
  ASSUME TypeOK, stage # "idle"
  PROVE  /\ request \in Requests
         /\ request.mode \in Modes
         /\ request.force \in BOOLEAN
         /\ request.opt \in Opts
         /\ request.gpuOpt \in GpuOpts
         /\ request.split \in BOOLEAN
         /\ request.ptxModule \in BOOLEAN
         /\ request.parallel \in BOOLEAN
<1>1. request \in Requests
  BY DEF TypeOK, Missing
<1>2. request \in BuildRequests
  BY <1>1, RequestsAssumption
<1> QED BY <1>1, <1>2 DEF BuildRequests

LEMMA StartTypes == TInv /\ Start => TInv'
<1> SUFFICES ASSUME TInv, Start PROVE TInv'
  OBVIOUS
<1> USE DEF TInv
<1>1. PICK r \in Requests :
        /\ request' = r
        /\ IF RequestAccepted(r) /\ dir.meta # Torn
             THEN /\ existing' = dir.meta
                  /\ changed' = OptChanged(r)
                  /\ IF r.mode = "reuse_ptx"
                       THEN stage' = "reuse" /\ UNCHANGED <<pending, rebuilt>>
                       ELSE /\ stage' = "compile"
                            /\ pending' = {c \in Classes : MustCompile(r, c)}
                            /\ rebuilt' = (pending' # {})
             ELSE stage' = "refused" /\ UNCHANGED <<existing, changed, pending, rebuilt>>
  BY DEF Start
<1>2. r # None
  BY FileAssumption
<1>3. builds' \in 0 .. MaxBuilds
  BY LimitsAssumption DEF Start, TypeOK
<1>4. UNCHANGED <<source, dir, broken, storage, seq, failures, published, unfailed>>
  BY DEF Start, artifacts
<1>5. stage = "idle" /\ pending = {} /\ broken = FALSE
  BY DEF Start, TypeOK
<1>6. dir \in Directories
  BY DEF TypeOK
<1>7. CASE RequestAccepted(r) /\ dir.meta # Torn /\ r.mode = "reuse_ptx"
  <2>1. /\ stage' = "reuse" /\ existing' = dir.meta /\ changed' = OptChanged(r)
        /\ pending' = pending /\ rebuilt' = rebuilt
    BY <1>1, <1>7
  <2>2. existing' \in Missing(Metas) /\ changed' \in BOOLEAN
    BY <2>1, <1>6, <1>7 DEF Directories, Written, Missing, OptChanged
  <2>3. TypeOK'
    BY <1>1, <1>2, <1>3, <1>4, <1>5, <2>1, <2>2 DEF TypeOK, Stages, Missing
  <2>4. Supplied'
    BY <1>1, <1>7, <2>1 DEF Supplied
  <2> QED BY <2>3, <2>4
<1>8. CASE RequestAccepted(r) /\ dir.meta # Torn /\ r.mode # "reuse_ptx"
  <2>1. /\ stage' = "compile" /\ existing' = dir.meta /\ changed' = OptChanged(r)
        /\ pending' = {c \in Classes : MustCompile(r, c)} /\ rebuilt' = (pending' # {})
    BY <1>1, <1>8
  <2>2. existing' \in Missing(Metas) /\ changed' \in BOOLEAN
    BY <2>1, <1>6, <1>8 DEF Directories, Written, Missing, OptChanged
  <2>3. pending' \in SUBSET Classes /\ rebuilt' \in BOOLEAN
    BY <2>1
  <2>4. TypeOK'
    BY <1>1, <1>2, <1>3, <1>4, <1>5, <2>1, <2>2, <2>3 DEF TypeOK, Stages, Missing
  <2>5. \A c \in Classes \ pending' : dir.ll[c] \in Units
    BY <2>1, <1>6 DEF MustCompile, Directories, Missing
  <2>6. Supplied'
    BY <1>4, <2>1, <2>5 DEF Supplied
  <2> QED BY <2>4, <2>6
<1>9. CASE ~(RequestAccepted(r) /\ dir.meta # Torn)
  <2>1. stage' = "refused" /\ UNCHANGED <<existing, changed, pending, rebuilt>>
    BY <1>1, <1>9
  <2>2. TypeOK'
    BY <1>1, <1>2, <1>3, <1>4, <1>5, <2>1 DEF TypeOK, Stages, Missing
  <2> QED BY <2>1, <2>2 DEF Supplied
<1> QED BY <1>7, <1>8, <1>9

LEMMA CompileTypes == ASSUME NEW c \in Classes PROVE TInv /\ Compile(c) => TInv'
<1> SUFFICES ASSUME TInv, Compile(c) PROVE TInv'
  OBVIOUS
<1> USE DEF TInv
<1>1. /\ stage = "compile" /\ stage' = "compile" /\ c \in pending /\ pending' = pending \ {c}
      /\ UNCHANGED <<source, request, existing, changed, rebuilt, storage, seq>>
      /\ UNCHANGED <<builds, published, unfailed>>
  BY DEF Compile, context, artifacts
<1>2. dir \in Directories /\ request.opt \in Opts /\ source \in Versions
  BY <1>1, RequestFields DEF TypeOK
<1>3. CASE /\ dir' = [dir EXCEPT !.ll[c] = [ver |-> source, opt |-> request.opt]]
           /\ UNCHANGED <<broken, failures>>
  <2>1. [ver |-> source, opt |-> request.opt] \in Units
    BY <1>2 DEF Units
  <2>2. dir' \in Directories /\ dir'.ll = [dir.ll EXCEPT ![c] = [ver |-> source, opt |-> request.opt]]
    BY <1>2, <1>3, <2>1 DEF Directories, Missing
  <2>3. TypeOK'
    BY <1>1, <1>3, <2>2 DEF TypeOK
  <2>4. ~broken => \A d \in Classes \ pending' : dir'.ll[d] \in Units
    BY <1>1, <1>2, <2>1, <2>2 DEF Supplied, Directories
  <2>5. Supplied'
    BY <1>1, <1>3, <2>4 DEF Supplied
  <2> QED BY <2>3, <2>5
<1>4. CASE /\ failures < MaxFailures
           /\ failures' = failures + 1
           /\ \E x \in {dir.ll[c], None} : dir' = [dir EXCEPT !.ll[c] = x]
           /\ broken' = TRUE
  <2>1. PICK x \in {dir.ll[c], None} : dir' = [dir EXCEPT !.ll[c] = x]
    BY <1>4
  <2>2. dir.ll[c] \in Missing(Units)
    BY <1>2 DEF Directories
  <2>3. dir' \in Directories
    BY <1>2, <2>1, <2>2 DEF Directories, Missing
  <2>4. failures' \in 0 .. MaxFailures
    BY <1>4, LimitsAssumption DEF TypeOK
  <2>5. TypeOK'
    BY <1>1, <1>4, <2>3, <2>4 DEF TypeOK
  <2>6. Supplied'
    BY <1>1, <1>4 DEF Supplied
  <2> QED BY <2>5, <2>6
<1> QED BY <1>3, <1>4 DEF Compile

LEMMA CompiledTypes == TInv /\ Compiled => TInv'
<1> SUFFICES ASSUME TInv, Compiled PROVE TInv'
  OBVIOUS
<1> USE DEF TInv
<1>1. /\ stage = "compile" /\ (pending = {} \/ (broken /\ ~request.parallel))
      /\ stage' = CompiledStage /\ pending' = {} /\ broken' = FALSE
      /\ UNCHANGED <<source, dir, request, existing, changed, rebuilt, storage, seq>>
      /\ UNCHANGED <<builds, failures, published, unfailed>>
  BY DEF Compiled, context, artifacts, history
<1>2. stage' \in {"link", "failed"}
  BY <1>1 DEF CompiledStage
<1>3. TypeOK'
  BY <1>1, <1>2 DEF TypeOK, Stages
<1>4. CASE ~broken
  <2>1. \A c \in Classes : dir.ll[c] \in Units
    BY <1>1, <1>4 DEF Supplied, TypeOK
  <2>2. dir.ll \in Codes
    BY <2>1 DEF TypeOK, Directories, Codes
  <2> QED BY <1>1, <1>2, <1>3, <2>2 DEF Supplied
<1>5. CASE broken
  BY <1>1, <1>3, <1>5 DEF Supplied, CompiledStage
<1> QED BY <1>4, <1>5

LEMMA RegenerateTypes == TInv /\ Regenerate => TInv'
  BY LimitsAssumption
  DEF TInv, TypeOK, Supplied, Regenerate, Versions, context, compiling, artifacts, history

LEMMA LinkTypes == TInv /\ Link => TInv'
<1> SUFFICES ASSUME TInv, Link PROVE TInv'
  OBVIOUS
<1> USE DEF TInv
<1>1. /\ stage = "link" /\ dir \in Directories /\ failures \in 0 .. MaxFailures
      /\ UNCHANGED <<source, request, existing, changed, pending, rebuilt, broken, storage, seq>>
      /\ UNCHANGED <<builds, published, unfailed>>
  BY DEF Link, TypeOK, context, compiling, artifacts
<1>2. dir.ll \in Codes
  BY <1>1 DEF Supplied
<1>3. CASE request.force \/ changed \/ rebuilt \/ dir.merged = None
  <2>1. Produces("merged", dir.ll, "storage")
    BY <1>3 DEF Link
  <2>2. dir.ll \in Contents("merged") /\ "merged" \in Products /\ "storage" \in Stages
    BY <1>2 DEF Contents, Written, Products, Stages
  <2>3. /\ dir' \in Directories /\ stage' \in {"storage", "failed"} /\ failures' \in 0 .. MaxFailures
        /\ stage' # "failed" => dir'.merged = dir.ll
    BY <1>1, <2>1, <2>2, Production
  <2>4. TypeOK'
    BY <1>1, <2>3 DEF TypeOK, Stages
  <2>5. dir.ll # None
    BY <1>2, FileAssumption
  <2>6. Supplied'
    BY <2>3, <2>5 DEF Supplied
  <2> QED BY <2>4, <2>6
<1>4. CASE ~(request.force \/ changed \/ rebuilt \/ dir.merged = None)
  <2>1. stage' = "storage" /\ UNCHANGED <<dir, failures>>
    BY <1>4 DEF Link
  <2>2. TypeOK'
    BY <1>1, <2>1 DEF TypeOK, Stages
  <2>3. Supplied'
    BY <1>4, <2>1 DEF Supplied
  <2> QED BY <2>2, <2>3
<1> QED BY <1>3, <1>4

LEMMA MeasureStorageTypes == TInv /\ MeasureStorage => TInv'
<1> SUFFICES ASSUME TInv, MeasureStorage PROVE TInv'
  OBVIOUS
<1> USE DEF TInv
<1>1. /\ stage = "storage"
      /\ stage' = IF Reuses(request) THEN "reuse" ELSE "lower"
      /\ storage' = IF request.mode = "reuse_gpu_patched_ll" /\ existing # None
                      THEN existing.storage ELSE source
      /\ UNCHANGED <<source, dir, request, existing, changed, pending, rebuilt, broken, seq>>
      /\ UNCHANGED <<builds, failures, published, unfailed>>
  BY DEF MeasureStorage, context, compiling, history
<1>2. existing # None => existing.storage \in Versions
  BY DEF TypeOK, Missing, Metas
<1>3. storage' \in Versions /\ stage' \in {"reuse", "lower"}
  BY <1>1, <1>2 DEF TypeOK
<1>4. TypeOK'
  BY <1>1, <1>3 DEF TypeOK, Stages, Missing
<1>5. Supplied'
  BY <1>1, <1>3 DEF Supplied
<1> QED BY <1>4, <1>5

LEMMA ReusedSequenceType == TypeOK => ReusedSequence \in BOOLEAN
  BY DEF ReusedSequence

LEMMA ReusePatchedTypes == TInv /\ ReusePatched => TInv'
<1> SUFFICES ASSUME TInv, ReusePatched PROVE TInv'
  OBVIOUS
<1> USE DEF TInv
<1>1. /\ stage = "reuse" /\ request.mode = "reuse_gpu_patched_ll"
      /\ stage' \in {"failed", "optimize"} /\ seq' \in BOOLEAN
      /\ UNCHANGED <<source, dir, request, existing, changed, pending, rebuilt, broken, storage>>
      /\ UNCHANGED <<builds, failures, published, unfailed>>
  BY ReusedSequenceType DEF ReusePatched, TypeOK, context, compiling, history
<1>2. TypeOK'
  BY <1>1 DEF TypeOK, Stages
<1>3. Supplied'
  BY <1>1 DEF Supplied
<1> QED BY <1>2, <1>3

LEMMA ReusePtxTypes == TInv /\ ReusePtx => TInv'
<1> SUFFICES ASSUME TInv, ReusePtx PROVE TInv'
  OBVIOUS
<1> USE DEF TInv
<1>1. /\ stage = "reuse" /\ request.mode = "reuse_ptx"
      /\ UNCHANGED <<source, dir, request, existing, changed, pending, rebuilt, broken>>
      /\ UNCHANGED <<builds, failures, published, unfailed>>
  BY DEF ReusePtx, context, compiling, history
<1>2. existing # None => existing.storage \in Versions
  BY DEF TypeOK, Missing, Metas
<1>3. \/ stage' = "failed" /\ UNCHANGED <<storage, seq>>
      \/ stage' = "assemble" /\ storage' \in Versions /\ seq' \in BOOLEAN
  BY <1>2, ReusedSequenceType DEF ReusePtx, TypeOK, artifacts
<1>4. TypeOK'
  BY <1>1, <1>3 DEF TypeOK, Stages, Missing
<1>5. Supplied'
  BY <1>1, <1>3 DEF Supplied
<1> QED BY <1>4, <1>5

(* What Lower leaves, whether it ends or fails.                            *)
LEMMA Lowering ==
  ASSUME TInv, Lower
  PROVE  /\ stage = "lower" /\ dir' \in Directories /\ dir'.ll = dir.ll
         /\ \A f \in Products \ {"gpuLl"} : dir'[f] = dir[f]
         /\ stage' \in {"patch", "failed"}
         /\ stage' # "failed" =>
              /\ dir'.gpuLl = [code |-> dir.merged, storage |-> storage, split |-> request.split]
              /\ seq' = request.split
         /\ seq' \in BOOLEAN /\ failures' \in 0 .. MaxFailures
<1> DEFINE made == [code |-> dir.merged, storage |-> storage, split |-> request.split]
<1>1. stage = "lower" /\ dir \in Directories /\ failures \in 0 .. MaxFailures /\ seq \in BOOLEAN
  BY DEF TInv, TypeOK, Lower
<1>2. request.split \in BOOLEAN
  BY <1>1, RequestFields DEF TInv
<1>3. CASE /\ dir.merged # Torn
           /\ dir' = [dir EXCEPT !.gpuLl = made, !.manifest = @ \/ request.split]
           /\ seq' = request.split
           /\ stage' = "patch"
           /\ UNCHANGED failures
  <2>1. dir.merged \in Codes /\ storage \in Versions
    BY <1>1, <1>3 DEF TInv, Supplied, Directories, Written
  <2>2. made \in Written(Lowered)
    BY <1>2, <2>1 DEF Lowered, Written
  <2>3. (dir.manifest \/ request.split) \in BOOLEAN
    OBVIOUS
  <2>4. dir' \in Directories
    BY <1>1, <1>3, <2>2, <2>3 DEF Directories
  <2>5. dir'.ll = dir.ll /\ (\A f \in Products \ {"gpuLl"} : dir'[f] = dir[f]) /\ dir'.gpuLl = made
    BY <1>1, <1>3 DEF Directories, Products
  <2> QED BY <1>1, <1>2, <1>3, <2>4, <2>5
<1>4. CASE /\ IF dir.merged = Torn THEN stage' = "failed" /\ UNCHANGED failures ELSE Fails
           /\ \E x \in Remains("gpuLl"), m \in {dir.manifest, dir.manifest \/ request.split} :
                dir' = [dir EXCEPT !.gpuLl = x, !.manifest = m]
           /\ UNCHANGED seq
  <2>1. PICK x \in Remains("gpuLl"), m \in {dir.manifest, dir.manifest \/ request.split} :
          dir' = [dir EXCEPT !.gpuLl = x, !.manifest = m]
    BY <1>4
  <2>2. x \in Written(Lowered)
    BY <1>1 DEF Remains, Directories, Written
  <2>3. m \in BOOLEAN
    BY <1>1 DEF Directories
  <2>4. dir' \in Directories
    BY <1>1, <2>1, <2>2, <2>3 DEF Directories
  <2>5. dir'.ll = dir.ll /\ (\A f \in Products \ {"gpuLl"} : dir'[f] = dir[f])
    BY <1>1, <2>1 DEF Directories, Products
  <2>6. stage' = "failed" /\ failures' \in 0 .. MaxFailures
    BY <1>1, <1>4, LimitsAssumption DEF Fails
  <2> QED BY <1>1, <1>4, <2>4, <2>5, <2>6
<1> QED BY <1>3, <1>4 DEF Lower

LEMMA LowerTypes == TInv /\ Lower => TInv'
<1> SUFFICES ASSUME TInv, Lower PROVE TInv'
  OBVIOUS
<1>1. /\ stage = "lower" /\ dir' \in Directories /\ stage' \in {"patch", "failed"}
      /\ seq' \in BOOLEAN /\ failures' \in 0 .. MaxFailures
  BY Lowering
<1>2. /\ UNCHANGED <<source, request, existing, changed, pending, rebuilt, broken, storage>>
      /\ UNCHANGED <<builds, published, unfailed>>
  BY DEF Lower, context, compiling
<1>3. TypeOK'
  BY <1>1, <1>2 DEF TInv, TypeOK, Stages
<1>4. Supplied'
  BY <1>1, <1>2 DEF TInv, Supplied
<1> QED BY <1>3, <1>4 DEF TInv

LEMMA ProductFields ==
  ASSUME dir \in Directories
  PROVE  /\ dir.gpuLl \notin {None, Torn} => dir.gpuLl \in Lowered
         /\ dir.patched \notin {None, Torn} => dir.patched \in Lowered
         /\ dir.ptx \in Written(Modules) /\ dir.cubin \in Written(Modules)
  BY DEF Directories, Written

LEMMA OptimizedType ==
  ASSUME TypeOK, stage = "optimize", dir.patched \notin {None, Torn}
  PROVE  Optimized \in Modules
<1>1. dir.patched \in Lowered
  BY ProductFields DEF TypeOK
<1>2. request.gpuOpt \in GpuOpts
  BY RequestFields
<1> QED BY <1>1, <1>2 DEF Optimized, Lowered, Modules

LEMMA PatchTypes == TInv /\ Patch => TInv'
<1> SUFFICES ASSUME TInv, Patch PROVE TInv'
  OBVIOUS
<1>1. /\ stage = "patch" /\ dir \in Directories /\ failures \in 0 .. MaxFailures
      /\ UNCHANGED <<source, request, existing, changed, pending, rebuilt, broken, storage, seq>>
      /\ UNCHANGED <<builds, published, unfailed>>
  BY DEF TInv, Patch, TypeOK, context, compiling, artifacts
<1>2. dir["gpuLl"] \notin {None, Torn} => dir.gpuLl \in Contents("patched")
  BY <1>1, ProductFields DEF Contents, Written
<1>3. dir' \in Directories /\ stage' \in {"optimize", "failed"} /\ failures' \in 0 .. MaxFailures
  <2>1. Transforms("gpuLl", "patched", dir.gpuLl, "optimize")
    BY DEF Patch
  <2>2. "gpuLl" \in Products /\ "patched" \in Products /\ "optimize" \in Stages
    BY DEF Products, Stages
  <2> QED BY <1>1, <1>2, <2>1, <2>2, Transformation
<1>4. TypeOK'
  BY <1>1, <1>3 DEF TInv, TypeOK, Stages
<1>5. Supplied'
  BY <1>1, <1>3 DEF TInv, Supplied
<1> QED BY <1>4, <1>5 DEF TInv

LEMMA OptimizeTypes == TInv /\ Optimize => TInv'
<1> SUFFICES ASSUME TInv, Optimize PROVE TInv'
  OBVIOUS
<1>1. /\ stage = "optimize" /\ dir \in Directories /\ failures \in 0 .. MaxFailures
      /\ UNCHANGED <<source, request, existing, changed, pending, rebuilt, broken, storage, seq>>
      /\ UNCHANGED <<builds, published, unfailed>>
  BY DEF TInv, Optimize, TypeOK, context, compiling, artifacts
<1>2. dir["patched"] \notin {None, Torn} => Optimized \in Contents("ptx")
  BY <1>1, OptimizedType DEF TInv, Contents, Written
<1>3. dir' \in Directories /\ stage' \in {"assemble", "failed"} /\ failures' \in 0 .. MaxFailures
  <2>1. Transforms("patched", "ptx", Optimized, "assemble")
    BY DEF Optimize
  <2>2. "patched" \in Products /\ "ptx" \in Products /\ "assemble" \in Stages
    BY DEF Products, Stages
  <2> QED BY <1>1, <1>2, <2>1, <2>2, Transformation
<1>4. TypeOK'
  BY <1>1, <1>3 DEF TInv, TypeOK, Stages
<1>5. Supplied'
  BY <1>1, <1>3 DEF TInv, Supplied
<1> QED BY <1>4, <1>5 DEF TInv

LEMMA AssembleTypes == TInv /\ Assemble => TInv'
<1> SUFFICES ASSUME TInv, Assemble PROVE TInv'
  OBVIOUS
<1>1. /\ stage = "assemble" /\ dir \in Directories /\ failures \in 0 .. MaxFailures
      /\ UNCHANGED <<source, request, existing, changed, pending, rebuilt, broken, storage, seq>>
      /\ UNCHANGED <<builds, unfailed>>
  BY DEF TInv, Assemble, TypeOK, context, compiling, artifacts
<1>2. dir' \in Directories /\ stage' \in {"meta", "failed"} /\ failures' \in 0 .. MaxFailures
  <2>1. CASE request.ptxModule
    BY <1>1, <2>1 DEF Assemble
  <2>2. CASE ~request.ptxModule
    <3>1. Transforms("ptx", "cubin", dir.ptx, "meta")
      BY <2>2 DEF Assemble
    <3>2. "ptx" \in Products /\ "cubin" \in Products /\ "meta" \in Stages
      BY DEF Products, Stages
    <3>3. dir.ptx \in Contents("cubin")
      BY <1>1, ProductFields DEF Contents
    <3> QED BY <1>1, <3>1, <3>2, <3>3, Transformation
  <2> QED BY <2>1, <2>2
<1>3. published' \in Written(Modules)
  BY DEF TInv, TypeOK, Assemble, Written
<1>4. TypeOK'
  BY <1>1, <1>2, <1>3 DEF TInv, TypeOK, Stages
<1>5. Supplied'
  BY <1>1, <1>2 DEF TInv, Supplied
<1> QED BY <1>4, <1>5 DEF TInv

LEMMA NewMetaType ==
  ASSUME TInv, stage = "meta"
  PROVE  NewMeta \in Metas
<1>1. storage \in Versions /\ seq \in BOOLEAN /\ existing \in Missing(Metas)
  BY DEF TInv, Supplied, TypeOK
<1>2. request.opt \in Opts /\ request.gpuOpt \in GpuOpts
  BY RequestFields DEF TInv
<1>3. Keeps => existing \in Metas
  BY <1>1 DEF Keeps, Missing
<1>4. (IF Keeps THEN existing.opt ELSE request.opt) \in Opts
  BY <1>2, <1>3 DEF Metas
<1>5. (IF Keeps THEN existing.gpuOpt ELSE request.gpuOpt) \in GpuOpts
  BY <1>2, <1>3 DEF Metas
<1>6. Format \in {"ptx", "cubin"}
  BY DEF Format
<1> QED BY <1>1, <1>4, <1>5, <1>6 DEF NewMeta, Metas

LEMMA WriteMetaTypes == TInv /\ WriteMeta => TInv'
<1> SUFFICES ASSUME TInv, WriteMeta PROVE TInv'
  OBVIOUS
<1>1. /\ stage = "meta" /\ dir \in Directories /\ failures \in 0 .. MaxFailures
      /\ UNCHANGED <<source, request, existing, changed, pending, rebuilt, broken, storage, seq>>
      /\ UNCHANGED <<builds, unfailed>>
  BY DEF TInv, WriteMeta, TypeOK, context, compiling, artifacts
<1>2. NewMeta \in Contents("meta")
  BY <1>1, NewMetaType DEF Contents, Written
<1>3. dir' \in Directories /\ stage' \in {"markers", "failed"} /\ failures' \in 0 .. MaxFailures
  <2>1. Produces("meta", NewMeta, "markers")
    BY DEF WriteMeta
  <2>2. "meta" \in Products /\ "markers" \in Stages
    BY DEF Products, Stages
  <2> QED BY <1>1, <1>2, <2>1, <2>2, Production
<1>4. published' \in Written(Modules)
  BY <1>1, ProductFields DEF WriteMeta, OutModule, Written
<1>5. TypeOK'
  BY <1>1, <1>3, <1>4 DEF TInv, TypeOK, Stages
<1>6. Supplied'
  BY <1>1, <1>3 DEF TInv, Supplied
<1> QED BY <1>5, <1>6 DEF TInv

LEMMA WriteMarkersTypes == TInv /\ WriteMarkers => TInv'
<1> SUFFICES ASSUME TInv, WriteMarkers PROVE TInv'
  OBVIOUS
<1>1. /\ stage = "markers" /\ dir \in Directories /\ failures \in 0 .. MaxFailures
      /\ UNCHANGED <<source, request, existing, changed, pending, rebuilt, broken, storage, seq>>
      /\ UNCHANGED <<builds, published, unfailed>>
  BY DEF TInv, WriteMarkers, TypeOK, context, compiling, artifacts
<1>2. request.opt \in Contents("marker")
  BY <1>1, RequestFields DEF TInv, Contents, Written
<1>3. dir' \in Directories /\ stage' \in {"done", "failed"} /\ failures' \in 0 .. MaxFailures
  <2>1. CASE MarksOpt
    <3>1. Produces("marker", request.opt, "done")
      BY <2>1 DEF WriteMarkers
    <3>2. "marker" \in Products /\ "done" \in Stages
      BY DEF Products, Stages
    <3> QED BY <1>1, <1>2, <3>1, <3>2, Production
  <2>2. CASE ~MarksOpt
    BY <1>1, <2>2 DEF WriteMarkers
  <2> QED BY <2>1, <2>2
<1>4. TypeOK'
  BY <1>1, <1>3 DEF TInv, TypeOK, Stages
<1>5. Supplied'
  BY <1>1, <1>3 DEF TInv, Supplied
<1> QED BY <1>4, <1>5 DEF TInv

LEMMA KillTypes == TInv /\ Kill => TInv'
<1> SUFFICES ASSUME TInv, Kill PROVE TInv'
  OBVIOUS
<1>1. /\ stage # "idle" /\ stage' = "failed" /\ pending' = {} /\ broken' = FALSE
      /\ UNCHANGED <<source, dir, request, existing, changed, rebuilt, storage, seq>>
      /\ UNCHANGED <<builds, unfailed>>
  BY DEF Kill, Building, Fails, context, artifacts
<1>2. failures' \in 0 .. MaxFailures
  BY LimitsAssumption DEF TInv, TypeOK, Kill, Fails
<1>3. published' \in Written(Modules)
  BY DEF TInv, TypeOK, Kill, Written
<1>4. TypeOK'
  BY <1>1, <1>2, <1>3 DEF TInv, TypeOK, Stages
<1>5. Supplied'
  BY <1>1 DEF Supplied
<1> QED BY <1>4, <1>5 DEF TInv

LEMMA ReturnTypes == TInv /\ Return => TInv'
<1> SUFFICES ASSUME TInv, Return PROVE TInv'
  OBVIOUS
<1>1. unfailed' \in BOOLEAN
  BY DEF Return
<1>2. TypeOK'
  BY <1>1 DEF TInv, TypeOK, Return, Stages, Missing
<1>3. Supplied'
  BY DEF Supplied, Return
<1> QED BY <1>2, <1>3 DEF TInv

LEMMA TypesInductive ==
  /\ Init => TInv
  /\ TInv /\ [Next]_vars => TInv'
<1>1. Init => TInv
  <2> SUFFICES ASSUME Init PROVE TInv
    OBVIOUS
  <2>1. dir \in Directories
    BY DEF Init, Directories, Missing, Written
  <2>2. source \in Versions
    BY LimitsAssumption DEF Init, Versions
  <2>3. TypeOK
    <3>1. 0 \in 0 .. MaxBuilds /\ 0 \in 0 .. MaxFailures
      BY LimitsAssumption
    <3>2. builds \in 0 .. MaxBuilds /\ failures \in 0 .. MaxFailures
      BY <3>1 DEF Init
    <3>3. /\ request \in Missing(Requests) /\ existing \in Missing(Metas)
          /\ storage \in Missing(Versions) /\ published \in Written(Modules)
      BY DEF Init, Missing, Written
    <3> QED BY <2>1, <2>2, <3>2, <3>3 DEF Init, TypeOK, Stages
  <2>4. Supplied
    BY DEF Init, Supplied
  <2> QED BY <2>3, <2>4 DEF TInv
<1>2. TInv /\ [Next]_vars => TInv'
  <2>1. TInv /\ UNCHANGED vars => TInv'
    BY DEF TInv, TypeOK, Supplied, vars, context, compiling, artifacts, history
  <2> QED
    BY <2>1, RegenerateTypes, StartTypes, CompileTypes, CompiledTypes, LinkTypes,
       MeasureStorageTypes, ReusePatchedTypes, ReusePtxTypes, LowerTypes, PatchTypes,
       OptimizeTypes, AssembleTypes, WriteMetaTypes, WriteMarkersTypes, KillTypes, ReturnTypes
    DEF Next
<1> QED BY <1>1, <1>2

(* Every file, the request and the artifacts keep their types; a .ll, a    *)
(* merged.ll or a storage size is there whenever a stage reads it.         *)
THEOREM TypeCorrect == Spec => []TypeOK
<1>1. TInv => TypeOK
  BY DEF TInv
<1> QED BY <1>1, TypesInductive, PTL DEF Spec

----------------------------------------------------------------------------
(* A forced full build.                                                    *)

Forced == request.force /\ request.mode = "full"

FreshLowered == [code |-> Fresh, storage |-> source, split |-> request.split]

FreshModule ==
  [code |-> Fresh, storage |-> source, split |-> request.split, gpuOpt |-> request.gpuOpt]

FreshMeta ==
  [ storage |-> source, opt |-> request.opt, gpuOpt |-> request.gpuOpt,
    seq |-> request.split, format |-> Format ]

(* Stage by stage, the file the next stage reads is made of the current    *)
(* C++ with the options of the request, whatever it was before the build.  *)
FreshSoFar ==
  /\ stage # "reuse"
  /\ stage = "compile" /\ ~broken => \A c \in Classes \ pending : dir.ll[c] = Fresh[c]
  /\ stage = "link" => dir.ll = Fresh
  /\ stage \in {"storage", "lower"} => dir.merged = Fresh
  /\ stage \in {"lower", "patch", "optimize", "assemble", "meta"} => storage = source
  /\ stage \in {"patch", "optimize", "assemble", "meta"} => seq = request.split
  /\ stage = "patch" => dir.gpuLl = FreshLowered
  /\ stage = "optimize" => dir.patched = FreshLowered
  /\ stage = "assemble" => dir.ptx = FreshModule
  /\ stage = "meta" => OutModule = FreshModule
  /\ stage \in {"markers", "done"} => Module = FreshModule /\ dir.meta = FreshMeta
  /\ stage = "done" => dir.marker = request.opt

ForcedInv == stage # "idle" /\ Forced => FreshSoFar

(* What the build asks for does not change while it runs.                  *)
LEMMA SameTargets ==
  ASSUME UNCHANGED <<source, request>>
  PROVE  /\ Forced' = Forced
         /\ Fresh' = Fresh
         /\ FreshLowered' = FreshLowered
         /\ FreshModule' = FreshModule
         /\ FreshMeta' = FreshMeta
         /\ Format' = Format
  BY DEF Forced, Fresh, FreshLowered, FreshModule, FreshMeta, Format

LEMMA StartFresh == TInv /\ Start => ForcedInv'
<1> SUFFICES ASSUME TInv, Start, Forced', stage' # "idle" PROVE FreshSoFar'
  BY DEF ForcedInv
<1>1. PICK r \in Requests :
        /\ request' = r
        /\ IF RequestAccepted(r) /\ dir.meta # Torn
             THEN IF r.mode = "reuse_ptx"
                    THEN stage' = "reuse"
                    ELSE stage' = "compile" /\ pending' = {c \in Classes : MustCompile(r, c)}
             ELSE stage' = "refused"
  BY DEF Start
<1>2. r.force /\ r.mode = "full"
  BY <1>1 DEF Forced
<1>3. \/ stage' = "compile" /\ pending' = {c \in Classes : MustCompile(r, c)}
      \/ stage' = "refused"
  BY <1>1, <1>2
<1>4. \A c \in Classes : MustCompile(r, c)
  BY <1>2 DEF MustCompile
<1> QED BY <1>3, <1>4 DEF FreshSoFar

LEMMA CompileFresh == ASSUME NEW c \in Classes PROVE TInv /\ ForcedInv /\ Compile(c) => ForcedInv'
<1> SUFFICES ASSUME TInv, ForcedInv, Compile(c), Forced' PROVE FreshSoFar'
  BY DEF ForcedInv
<1>1. /\ stage = "compile" /\ stage' = "compile" /\ c \in pending /\ pending' = pending \ {c}
      /\ UNCHANGED <<source, request>>
  BY DEF Compile, context
<1>2. FreshSoFar /\ Fresh' = Fresh
  BY <1>1, SameTargets DEF ForcedInv
<1>3. CASE broken'
  BY <1>1, <1>3 DEF FreshSoFar
<1>4. CASE ~broken'
  <2>1. dir' = [dir EXCEPT !.ll[c] = [ver |-> source, opt |-> request.opt]] /\ ~broken
    BY <1>4 DEF Compile
  <2>2. dir'.ll = [dir.ll EXCEPT ![c] = Fresh[c]]
    BY <2>1 DEF TInv, TypeOK, Directories, Fresh
  <2>3. \A d \in Classes \ pending' : dir'.ll[d] = Fresh[d]
    BY <1>1, <1>2, <2>1, <2>2 DEF FreshSoFar, TInv, TypeOK, Directories
  <2> QED BY <1>1, <1>2, <2>3 DEF FreshSoFar
<1> QED BY <1>3, <1>4

LEMMA CompiledFresh == TInv /\ ForcedInv /\ Compiled => ForcedInv'
<1> SUFFICES ASSUME TInv, ForcedInv, Compiled, Forced' PROVE FreshSoFar'
  BY DEF ForcedInv
<1>1. /\ stage = "compile" /\ stage' = CompiledStage /\ (pending = {} \/ broken)
      /\ UNCHANGED <<source, request, dir>>
  BY DEF Compiled, context
<1>2. FreshSoFar /\ Fresh' = Fresh
  BY <1>1, SameTargets DEF ForcedInv
<1>3. CASE broken
  BY <1>1, <1>3 DEF FreshSoFar, CompiledStage
<1>4. CASE ~broken
  <2>1. \A c \in Classes : dir.ll[c] = Fresh[c]
    BY <1>1, <1>2, <1>4 DEF FreshSoFar
  <2>2. dir.ll = Fresh
    BY <2>1 DEF TInv, TypeOK, Directories, Fresh
  <2> QED BY <1>1, <1>2, <1>4, <2>2 DEF FreshSoFar, CompiledStage
<1> QED BY <1>3, <1>4

LEMMA LinkFresh == TInv /\ ForcedInv /\ Link => ForcedInv'
<1> SUFFICES ASSUME TInv, ForcedInv, Link, Forced' PROVE FreshSoFar'
  BY DEF ForcedInv
<1>1. /\ stage = "link" /\ UNCHANGED <<source, request>>
      /\ dir \in Directories /\ failures \in 0 .. MaxFailures /\ dir.ll \in Codes
  BY DEF Link, context, TInv, TypeOK, Supplied
<1>2. FreshSoFar /\ Forced /\ Fresh' = Fresh
  BY <1>1, SameTargets DEF ForcedInv
<1>3. Produces("merged", dir.ll, "storage")
  BY <1>2 DEF Link, Forced
<1>4. dir.ll \in Contents("merged") /\ "merged" \in Products /\ "storage" \in Stages
  BY <1>1 DEF Contents, Written, Products, Stages
<1>5. stage' \in {"storage", "failed"} /\ (stage' # "failed" => dir'.merged = dir.ll)
  BY <1>1, <1>3, <1>4, Production
<1> QED BY <1>1, <1>2, <1>5 DEF FreshSoFar

LEMMA MeasureStorageFresh == TInv /\ ForcedInv /\ MeasureStorage => ForcedInv'
<1> SUFFICES ASSUME TInv, ForcedInv, MeasureStorage, Forced' PROVE FreshSoFar'
  BY DEF ForcedInv
<1>1. stage = "storage" /\ UNCHANGED <<source, request, dir>>
  BY DEF MeasureStorage, context
<1>2. FreshSoFar /\ Forced /\ Fresh' = Fresh
  BY <1>1, SameTargets DEF ForcedInv
<1>3. stage' = "lower" /\ storage' = source
  BY <1>2 DEF MeasureStorage, Reuses, Forced
<1> QED BY <1>1, <1>2, <1>3 DEF FreshSoFar

LEMMA LowerFresh == TInv /\ ForcedInv /\ Lower => ForcedInv'
<1> SUFFICES ASSUME TInv, ForcedInv, Lower, Forced' PROVE FreshSoFar'
  BY DEF ForcedInv
<1>1. stage = "lower" /\ UNCHANGED <<source, request, storage>>
  BY DEF Lower, context
<1>2. FreshSoFar /\ FreshLowered' = FreshLowered
  BY <1>1, SameTargets DEF ForcedInv
<1>3. /\ stage' \in {"patch", "failed"}
      /\ stage' # "failed" =>
           /\ dir'.gpuLl = [code |-> dir.merged, storage |-> storage, split |-> request.split]
           /\ seq' = request.split
  BY Lowering
<1>4. dir.merged = Fresh /\ storage = source
  BY <1>1, <1>2 DEF FreshSoFar
<1> QED BY <1>1, <1>2, <1>3, <1>4 DEF FreshSoFar, FreshLowered

LEMMA PatchFresh == TInv /\ ForcedInv /\ Patch => ForcedInv'
<1> SUFFICES ASSUME TInv, ForcedInv, Patch, Forced' PROVE FreshSoFar'
  BY DEF ForcedInv
<1>1. /\ stage = "patch" /\ UNCHANGED <<source, request, storage, seq>>
      /\ dir \in Directories /\ failures \in 0 .. MaxFailures
  BY DEF Patch, context, artifacts, TInv, TypeOK
<1>2. FreshSoFar /\ FreshLowered' = FreshLowered
  BY <1>1, SameTargets DEF ForcedInv
<1>3. dir["gpuLl"] \notin {None, Torn} => dir.gpuLl \in Contents("patched")
  BY <1>1, ProductFields DEF Contents, Written
<1>4. stage' \in {"optimize", "failed"} /\ (stage' # "failed" => dir'.patched = dir.gpuLl)
  <2>1. Transforms("gpuLl", "patched", dir.gpuLl, "optimize")
    BY DEF Patch
  <2>2. "gpuLl" \in Products /\ "patched" \in Products /\ "optimize" \in Stages
    BY DEF Products, Stages
  <2> QED BY <1>1, <1>3, <2>1, <2>2, Transformation
<1> QED BY <1>1, <1>2, <1>4 DEF FreshSoFar

LEMMA OptimizeFresh == TInv /\ ForcedInv /\ Optimize => ForcedInv'
<1> SUFFICES ASSUME TInv, ForcedInv, Optimize, Forced' PROVE FreshSoFar'
  BY DEF ForcedInv
<1>1. /\ stage = "optimize" /\ UNCHANGED <<source, request, storage, seq>>
      /\ dir \in Directories /\ failures \in 0 .. MaxFailures
  BY DEF Optimize, context, artifacts, TInv, TypeOK
<1>2. FreshSoFar /\ FreshModule' = FreshModule
  BY <1>1, SameTargets DEF ForcedInv
<1>3. dir["patched"] \notin {None, Torn} => Optimized \in Contents("ptx")
  BY <1>1, OptimizedType DEF TInv, Contents, Written
<1>4. stage' \in {"assemble", "failed"} /\ (stage' # "failed" => dir'.ptx = Optimized)
  <2>1. Transforms("patched", "ptx", Optimized, "assemble")
    BY DEF Optimize
  <2>2. "patched" \in Products /\ "ptx" \in Products /\ "assemble" \in Stages
    BY DEF Products, Stages
  <2> QED BY <1>1, <1>3, <2>1, <2>2, Transformation
<1>5. Optimized = FreshModule
  BY <1>1, <1>2 DEF Optimized, FreshSoFar, FreshLowered, FreshModule
<1> QED BY <1>1, <1>2, <1>4, <1>5 DEF FreshSoFar

LEMMA AssembleFresh == TInv /\ ForcedInv /\ Assemble => ForcedInv'
<1> SUFFICES ASSUME TInv, ForcedInv, Assemble, Forced' PROVE FreshSoFar'
  BY DEF ForcedInv
<1>1. /\ stage = "assemble" /\ UNCHANGED <<source, request, storage, seq>>
      /\ dir \in Directories /\ failures \in 0 .. MaxFailures
  BY DEF Assemble, context, artifacts, TInv, TypeOK
<1>2. FreshSoFar /\ FreshModule' = FreshModule
  BY <1>1, SameTargets DEF ForcedInv
<1>3. stage' \in {"meta", "failed"} /\ (stage' = "meta" => OutModule' = dir.ptx)
  <2>1. CASE request.ptxModule
    BY <1>1, <2>1 DEF Assemble, OutModule
  <2>2. CASE ~request.ptxModule
    <3>1. Transforms("ptx", "cubin", dir.ptx, "meta")
      BY <2>2 DEF Assemble
    <3>2. "ptx" \in Products /\ "cubin" \in Products /\ "meta" \in Stages
      BY DEF Products, Stages
    <3>3. dir.ptx \in Contents("cubin")
      BY <1>1, ProductFields DEF Contents
    <3>4. stage' \in {"meta", "failed"} /\ (stage' # "failed" => dir'.cubin = dir.ptx)
      BY <1>1, <3>1, <3>2, <3>3, Transformation
    <3> QED BY <1>1, <2>2, <3>4 DEF OutModule
  <2> QED BY <2>1, <2>2
<1> QED BY <1>1, <1>2, <1>3 DEF FreshSoFar

LEMMA WriteMetaFresh == TInv /\ ForcedInv /\ WriteMeta => ForcedInv'
<1> SUFFICES ASSUME TInv, ForcedInv, WriteMeta, Forced' PROVE FreshSoFar'
  BY DEF ForcedInv
<1>1. /\ stage = "meta" /\ UNCHANGED <<source, request, storage, seq>>
      /\ dir \in Directories /\ failures \in 0 .. MaxFailures
  BY DEF WriteMeta, context, artifacts, TInv, TypeOK
<1>2. /\ FreshSoFar /\ Forced
      /\ FreshModule' = FreshModule /\ FreshMeta' = FreshMeta
  BY <1>1, SameTargets DEF ForcedInv
<1>3. NewMeta = FreshMeta
  BY <1>1, <1>2 DEF NewMeta, Keeps, Forced, FreshSoFar, FreshMeta
<1>4. /\ stage' \in {"markers", "failed"}
      /\ stage' # "failed" => dir'.meta = NewMeta
      /\ dir'["ptx"] = dir["ptx"] /\ dir'["cubin"] = dir["cubin"]
  <2>1. Produces("meta", NewMeta, "markers")
    BY DEF WriteMeta
  <2>2. /\ "meta" \in Products /\ "markers" \in Stages
        /\ "ptx" \in Products \ {"meta"} /\ "cubin" \in Products \ {"meta"}
    BY DEF Products, Stages
  <2>3. NewMeta \in Contents("meta")
    BY <1>1, NewMetaType DEF Contents, Written
  <2> QED BY <1>1, <2>1, <2>2, <2>3, Production
<1>5. OutModule = FreshModule
  BY <1>1, <1>2 DEF FreshSoFar
<1>6. FreshMeta.format = IF request.ptxModule THEN "ptx" ELSE "cubin"
  BY DEF FreshMeta, Format
<1>7. stage' # "failed" => Module' = FreshModule
  BY <1>3, <1>4, <1>5, <1>6 DEF Module, OutModule
<1> QED BY <1>1, <1>2, <1>3, <1>4, <1>7 DEF FreshSoFar

LEMMA WriteMarkersFresh == TInv /\ ForcedInv /\ WriteMarkers => ForcedInv'
<1> SUFFICES ASSUME TInv, ForcedInv, WriteMarkers, Forced' PROVE FreshSoFar'
  BY DEF ForcedInv
<1>1. /\ stage = "markers" /\ UNCHANGED <<source, request, storage, seq>>
      /\ dir \in Directories /\ failures \in 0 .. MaxFailures
  BY DEF WriteMarkers, context, artifacts, TInv, TypeOK
<1>2. /\ FreshSoFar /\ Forced
      /\ FreshModule' = FreshModule /\ FreshMeta' = FreshMeta
  BY <1>1, SameTargets DEF ForcedInv
<1>3. /\ stage' \in {"done", "failed"}
      /\ stage' # "failed" => dir'.marker = request.opt
      /\ dir'["ptx"] = dir["ptx"] /\ dir'["cubin"] = dir["cubin"] /\ dir'["meta"] = dir["meta"]
  <2>1. Produces("marker", request.opt, "done")
    BY <1>2 DEF WriteMarkers, MarksOpt, Forced
  <2>2. /\ "marker" \in Products /\ "done" \in Stages /\ "ptx" \in Products \ {"marker"}
        /\ "cubin" \in Products \ {"marker"} /\ "meta" \in Products \ {"marker"}
    BY DEF Products, Stages
  <2>3. request.opt \in Contents("marker")
    BY <1>1, RequestFields DEF TInv, Contents, Written
  <2> QED BY <1>1, <2>1, <2>2, <2>3, Production
<1>4. Module' = Module
  BY <1>3 DEF Module
<1> QED BY <1>1, <1>2, <1>3, <1>4 DEF FreshSoFar

LEMMA ForcedInductive ==
  /\ Init => ForcedInv
  /\ TInv /\ ForcedInv /\ [Next]_vars => ForcedInv'
<1>1. Init => ForcedInv
  BY DEF Init, ForcedInv
<1>2. TInv /\ ForcedInv /\ [Next]_vars => ForcedInv'
  <2> SUFFICES ASSUME TInv, ForcedInv, [Next]_vars PROVE ForcedInv'
    OBVIOUS
  <2>1. CASE Regenerate
    BY <2>1 DEF Regenerate, ForcedInv
  <2>2. CASE ReusePatched
    BY <2>2 DEF ReusePatched, ForcedInv, Forced, context
  <2>3. CASE ReusePtx
    BY <2>3 DEF ReusePtx, ForcedInv, Forced, context
  <2>4. CASE Kill
    BY <2>4 DEF Kill, Fails, ForcedInv, FreshSoFar
  <2>5. CASE Return
    BY <2>5 DEF Return, ForcedInv
  <2>6. CASE UNCHANGED vars
    <3>1. UNCHANGED <<source, request, stage, dir, pending, broken, storage, seq>>
      BY <2>6 DEF vars, context, compiling, artifacts
    <3>2. Module' = Module /\ OutModule' = OutModule
      BY <3>1 DEF Module, OutModule
    <3> QED BY <3>1, <3>2, SameTargets DEF ForcedInv, FreshSoFar
  <2> QED
    BY <2>1, <2>2, <2>3, <2>4, <2>5, <2>6, StartFresh, CompileFresh, CompiledFresh, LinkFresh,
       MeasureStorageFresh, LowerFresh, PatchFresh, OptimizeFresh, AssembleFresh, WriteMetaFresh,
       WriteMarkersFresh
    DEF Next
<1> QED BY <1>1, <1>2

(* A forced full build that ends well leaves a module, metadata and marker *)
(* made of the current C++ and its own options, whatever earlier builds    *)
(* left, failed at or were killed in.                                      *)
THEOREM ForcedBuildsAreFresh == Spec => []ForcedBuildIsFresh
<1>1. TInv /\ ForcedInv => ForcedBuildIsFresh
  BY DEF ForcedInv, FreshSoFar, Forced, ForcedBuildIsFresh, FreshModule, FreshMeta
<1> QED BY <1>1, TypesInductive, ForcedInductive, PTL DEF Spec

----------------------------------------------------------------------------
(* The published cubin.  It is an invariant of its own: a stage either     *)
(* leaves the cubin, the metadata and what was published alone, or is one  *)
(* of the two that publish.                                                *)

LEMMA CubinKept ==
  ASSUME PublishedCubinIntact, stage # "meta",
         UNCHANGED published, dir'.cubin = dir.cubin, dir'.meta = dir.meta
  PROVE  PublishedCubinIntact'
BY DEF PublishedCubinIntact

(* A build that is writing a file other than the two.                      *)
LEMMA OtherFileKept ==
  ASSUME \A f \in Products : f \in {"cubin", "meta"} => dir'[f] = dir[f]
  PROVE  dir'.cubin = dir.cubin /\ dir'.meta = dir.meta
BY DEF Products

LEMMA LinkKeepsCubin == TInv /\ Link => dir'.cubin = dir.cubin /\ dir'.meta = dir.meta
<1> SUFFICES ASSUME TInv, Link PROVE dir'.cubin = dir.cubin /\ dir'.meta = dir.meta
  OBVIOUS
<1>1. dir \in Directories /\ failures \in 0 .. MaxFailures /\ stage = "link"
  BY DEF TInv, TypeOK, Link
<1>2. CASE Produces("merged", dir.ll, "storage")
  <2>1. "merged" \in Products /\ "storage" \in Stages /\ dir.ll \in Contents("merged")
    BY <1>1 DEF Products, Stages, Contents, Written, TInv, Supplied
  <2>2. \A f \in Products \ {"merged"} : dir'[f] = dir[f]
    BY <1>1, <1>2, <2>1, Production
  <2> QED BY <2>2, OtherFileKept
<1>3. CASE UNCHANGED dir
  BY <1>3
<1> QED BY <1>2, <1>3 DEF Link

LEMMA LowerKeepsCubin == TInv /\ Lower => dir'.cubin = dir.cubin /\ dir'.meta = dir.meta
<1> SUFFICES ASSUME TInv, Lower PROVE dir'.cubin = dir.cubin /\ dir'.meta = dir.meta
  OBVIOUS
<1>1. dir \in Directories
  BY DEF TInv, TypeOK
<1>2. \E m, x : dir' = [dir EXCEPT !.gpuLl = x, !.manifest = m]
  <2>1. CASE dir' = [dir EXCEPT !.gpuLl = [code |-> dir.merged, storage |-> storage,
                                           split |-> request.split],
                                !.manifest = @ \/ request.split]
    BY <2>1
  <2>2. CASE \E x \in Remains("gpuLl"), m \in {dir.manifest, dir.manifest \/ request.split} :
               dir' = [dir EXCEPT !.gpuLl = x, !.manifest = m]
    BY <2>2
  <2> QED BY <2>1, <2>2 DEF Lower
<1>3. PICK m, x : dir' = [dir EXCEPT !.gpuLl = x, !.manifest = m]
  BY <1>2
<1> QED BY <1>1, <1>3 DEF Directories

LEMMA PatchKeepsCubin == TInv /\ Patch => dir'.cubin = dir.cubin /\ dir'.meta = dir.meta
<1> SUFFICES ASSUME TInv, Patch PROVE dir'.cubin = dir.cubin /\ dir'.meta = dir.meta
  OBVIOUS
<1>1. /\ dir \in Directories /\ failures \in 0 .. MaxFailures
      /\ Transforms("gpuLl", "patched", dir.gpuLl, "optimize")
  BY DEF Patch, TInv, TypeOK
<1>2. dir["gpuLl"] \notin {None, Torn} => dir.gpuLl \in Contents("patched")
  BY <1>1, ProductFields DEF Contents, Written
<1>3. "gpuLl" \in Products /\ "patched" \in Products /\ "optimize" \in Stages
  BY DEF Products, Stages
<1>4. \A f \in Products \ {"patched"} : dir'[f] = dir[f]
  BY <1>1, <1>2, <1>3, Transformation
<1> QED BY <1>4, OtherFileKept

LEMMA OptimizeKeepsCubin == TInv /\ Optimize => dir'.cubin = dir.cubin /\ dir'.meta = dir.meta
<1> SUFFICES ASSUME TInv, Optimize PROVE dir'.cubin = dir.cubin /\ dir'.meta = dir.meta
  OBVIOUS
<1>1. /\ dir \in Directories /\ failures \in 0 .. MaxFailures /\ stage = "optimize"
      /\ Transforms("patched", "ptx", Optimized, "assemble")
  BY DEF Optimize, TInv, TypeOK
<1>2. dir["patched"] \notin {None, Torn} => Optimized \in Contents("ptx")
  BY <1>1, OptimizedType DEF TInv, Contents, Written
<1>3. "patched" \in Products /\ "ptx" \in Products /\ "assemble" \in Stages
  BY DEF Products, Stages
<1>4. \A f \in Products \ {"ptx"} : dir'[f] = dir[f]
  BY <1>1, <1>2, <1>3, Transformation
<1> QED BY <1>4, OtherFileKept

(* A cubin that is replaced is not published yet; one that is torn or      *)
(* removed takes what was published with it.                               *)
LEMMA AssemblePublishes == TInv /\ PublishedCubinIntact /\ Assemble => PublishedCubinIntact'
<1> SUFFICES ASSUME TInv, PublishedCubinIntact, Assemble PROVE PublishedCubinIntact'
  OBVIOUS
<1>1. /\ dir \in Directories /\ failures \in 0 .. MaxFailures /\ stage = "assemble"
      /\ published' = IF dir'.cubin # dir.cubin /\ stage' = "failed" THEN None ELSE published
  BY DEF Assemble, TInv, TypeOK
<1>2. CASE request.ptxModule
  BY <1>1, <1>2, CubinKept DEF Assemble
<1>3. CASE ~request.ptxModule
  <2>1. Transforms("ptx", "cubin", dir.ptx, "meta")
    BY <1>3 DEF Assemble
  <2>2. "ptx" \in Products /\ "cubin" \in Products /\ "meta" \in Stages
    BY DEF Products, Stages
  <2>3. dir.ptx \in Contents("cubin")
    BY <1>1, ProductFields DEF Contents
  <2>4. stage' \in {"meta", "failed"} /\ \A f \in Products \ {"cubin"} : dir'[f] = dir[f]
    BY <1>1, <2>1, <2>2, <2>3, Transformation
  <2>5. dir'.meta = dir.meta
    BY <2>4 DEF Products
  <2> QED BY <1>1, <2>4, <2>5 DEF PublishedCubinIntact
<1> QED BY <1>2, <1>3

LEMMA WriteMetaPublishes == TInv /\ WriteMeta => PublishedCubinIntact'
<1> SUFFICES ASSUME TInv, WriteMeta PROVE PublishedCubinIntact'
  OBVIOUS
<1>1. /\ dir \in Directories /\ failures \in 0 .. MaxFailures /\ stage = "meta"
      /\ Produces("meta", NewMeta, "markers")
      /\ published' = IF stage' = "markers" THEN OutModule ELSE None
  BY DEF WriteMeta, TInv, TypeOK
<1>2. /\ "meta" \in Products /\ "markers" \in Stages /\ "cubin" \in Products \ {"meta"}
      /\ NewMeta \in Contents("meta")
  BY <1>1, NewMetaType DEF Products, Stages, Contents, Written
<1>3. /\ stage' \in {"markers", "failed"} /\ dir'["cubin"] = dir["cubin"]
      /\ stage' # "failed" => dir'["meta"] = NewMeta
  BY <1>1, <1>2, Production
<1>4. NewMeta.format = "cubin" => OutModule = dir.cubin
  BY DEF NewMeta, Format, OutModule
<1> QED BY <1>1, <1>3, <1>4 DEF PublishedCubinIntact

LEMMA WriteMarkersKeepsCubin ==
  TInv /\ WriteMarkers => dir'.cubin = dir.cubin /\ dir'.meta = dir.meta
<1> SUFFICES ASSUME TInv, WriteMarkers PROVE dir'.cubin = dir.cubin /\ dir'.meta = dir.meta
  OBVIOUS
<1>1. dir \in Directories
  BY DEF TInv, TypeOK
<1>2. UNCHANGED dir \/ \E x : dir' = [dir EXCEPT !["marker"] = x]
  BY DEF WriteMarkers, Produces, Left
<1> QED BY <1>1, <1>2 DEF Directories

LEMMA PublishedInductive == TInv /\ PublishedCubinIntact /\ [Next]_vars => PublishedCubinIntact'
<1> SUFFICES ASSUME TInv, PublishedCubinIntact, [Next]_vars PROVE PublishedCubinIntact'
  OBVIOUS
<1>0. dir \in Directories
  BY DEF TInv, TypeOK
<1>1. CASE Regenerate
  BY <1>1, CubinKept DEF Regenerate, history
<1>2. CASE Start
  BY <1>2, CubinKept DEF Start
<1>3. CASE \E c \in Classes : Compile(c)
  <2>1. PICK c \in Classes : Compile(c)
    BY <1>3
  <2>2. \E x : dir' = [dir EXCEPT !.ll[c] = x]
    BY <2>1 DEF Compile
  <2>3. dir'.cubin = dir.cubin /\ dir'.meta = dir.meta
    BY <1>0, <2>2 DEF Directories
  <2> QED BY <2>1, <2>3, CubinKept DEF Compile
<1>4. CASE Compiled
  BY <1>4, CubinKept DEF Compiled, history
<1>5. CASE Link
  BY <1>5, LinkKeepsCubin, CubinKept DEF Link
<1>6. CASE MeasureStorage
  BY <1>6, CubinKept DEF MeasureStorage, history
<1>7. CASE ReusePatched
  BY <1>7, CubinKept DEF ReusePatched, history
<1>8. CASE ReusePtx
  BY <1>8, CubinKept DEF ReusePtx, history
<1>9. CASE Lower
  BY <1>9, LowerKeepsCubin, CubinKept DEF Lower
<1>10. CASE Patch
  BY <1>10, PatchKeepsCubin, CubinKept DEF Patch
<1>11. CASE Optimize
  BY <1>11, OptimizeKeepsCubin, CubinKept DEF Optimize
<1>12. CASE Assemble
  BY <1>12, AssemblePublishes
<1>13. CASE WriteMeta
  BY <1>13, WriteMetaPublishes
<1>14. CASE WriteMarkers
  BY <1>14, WriteMarkersKeepsCubin, CubinKept DEF WriteMarkers
<1>15. CASE Kill
  BY <1>15 DEF Kill, PublishedCubinIntact
<1>16. CASE Return
  BY <1>16, CubinKept DEF Return
<1>17. CASE UNCHANGED vars
  BY <1>17 DEF vars, history, PublishedCubinIntact
<1> QED
  BY <1>1, <1>2, <1>3, <1>4, <1>5, <1>6, <1>7, <1>8, <1>9, <1>10, <1>11, <1>12, <1>13,
     <1>14, <1>15, <1>16, <1>17 DEF Next

(* A rebuild that stops before it has assembled the cubin leaves the       *)
(* module the metadata name as the last successful build published it,     *)
(* however many builds failed or were killed before.                       *)
THEOREM PublishedCubinSurvives == Spec => []PublishedCubinIntact
<1>1. Init => PublishedCubinIntact
  BY DEF Init, history, PublishedCubinIntact
<1> QED BY <1>1, TypesInductive, PublishedInductive, PTL DEF Spec
----------------------------------------------------------------------------
(* Builds without failures.                                                *)

Uniform(code) == \A c, d \in Classes : code[c] = code[d]

(* The .ll files a build emitted, or found at its level.                   *)
Emitted ==
  dir.ll \in Codes /\ Uniform(dir.ll) /\ \A c \in Classes : dir.ll[c].opt = request.opt

(* The .ll files an ended build left: linked, at the level of the marker.  *)
Marked ==
  /\ dir.ll \in Codes /\ Uniform(dir.ll) /\ \A c \in Classes : dir.ll[c].opt = dir.marker
  /\ dir.merged = dir.ll
  /\ dir.marker # None

UnitsLinked ==
  IF request.mode = "reuse_ptx" THEN Marked ELSE Emitted /\ dir.merged = dir.ll

NoModule == dir.meta = None /\ dir.patched = None /\ dir.ptx = None

(* The metadata are true of what the reuse modes start from.               *)
Described ==
  /\ dir.meta \in Metas
  /\ dir.patched \in Lowered /\ Uniform(dir.patched.code) /\ dir.patched.storage = dir.meta.storage
  /\ dir.ptx \in Modules /\ Uniform(dir.ptx.code) /\ dir.ptx.storage = dir.meta.storage
  /\ dir.ptx.gpuOpt = dir.meta.gpuOpt

Blank == NoModule /\ dir.marker = None /\ \A c \in Classes : dir.ll[c] = None

Undisturbed == Blank \/ (Marked /\ Described)

(* What this build has made so far, of the .ll files and the options of    *)
(* the request if it is a full one.                                        *)
AsAsked(file) ==
  request.mode = "full" =>
    dir[file].code = dir.ll /\ dir[file].split = request.split /\ seq = request.split

PatchedMade ==
  dir.patched \in Lowered /\ Uniform(dir.patched.code) /\ dir.patched.storage = storage

PtxMade ==
  /\ dir.ptx \in Modules /\ Uniform(dir.ptx.code) /\ dir.ptx.storage = storage
  /\ dir.ptx.gpuOpt = IF Keeps THEN existing.gpuOpt ELSE request.gpuOpt

Reading == existing = dir.meta /\ (NoModule \/ Described)

TruthSoFar ==
  /\ stage \in {"idle", "refused"} => Undisturbed
  /\ stage = "compile" /\ ~broken =>
       /\ request.mode # "reuse_ptx" /\ Reading
       /\ \/ rebuilt /\ \A c \in Classes \ pending : dir.ll[c] = Fresh[c]
          \/ pending = {} /\ Marked /\ dir.marker = request.opt
  /\ stage = "link" =>
       request.mode # "reuse_ptx" /\ Reading /\ Emitted /\ (rebuilt \/ dir.merged = dir.ll)
  /\ stage = "storage" => request.mode # "reuse_ptx" /\ Reading /\ UnitsLinked
  /\ stage = "reuse" =>
       /\ Reading
       /\ request.mode = "reuse_ptx" => Undisturbed
       /\ request.mode # "reuse_ptx" => UnitsLinked /\ (Described => storage = dir.meta.storage)
  /\ stage \in {"lower", "patch"} => request.mode = "full" /\ UnitsLinked
  /\ stage = "patch" =>
       /\ dir.gpuLl = [code |-> dir.ll, storage |-> storage, split |-> request.split]
       /\ seq = request.split
  /\ stage = "optimize" =>
       request.mode # "reuse_ptx" /\ UnitsLinked /\ PatchedMade /\ AsAsked("patched")
  /\ stage \in {"assemble", "meta"} => UnitsLinked /\ PatchedMade /\ PtxMade /\ AsAsked("ptx")
  /\ stage = "meta" => OutModule = dir.ptx
  /\ stage \in {"markers", "done"} =>
       /\ UnitsLinked /\ Described /\ Module = dir.ptx /\ AsAsked("ptx")
       /\ request.mode = "full" => dir.meta.opt = request.opt /\ dir.meta.seq = request.split
  /\ stage = "done" => Marked

TruthInv == unfailed => TruthSoFar

LEMMA KeptUnits ==
  ASSUME UNCHANGED request, dir'.ll = dir.ll, dir'.merged = dir.merged, dir'.marker = dir.marker
  PROVE  Emitted' = Emitted /\ Marked' = Marked /\ UnitsLinked' = UnitsLinked
BY DEF Emitted, Marked, UnitsLinked, Uniform

LEMMA KeptModule ==
  ASSUME dir'.meta = dir.meta, dir'.patched = dir.patched, dir'.ptx = dir.ptx
  PROVE  NoModule' = NoModule /\ Described' = Described
BY DEF NoModule, Described, Uniform

LEMMA KeptDirectory ==
  ASSUME UNCHANGED <<dir, request, existing>>
  PROVE  /\ Emitted' = Emitted /\ Marked' = Marked /\ UnitsLinked' = UnitsLinked
         /\ NoModule' = NoModule /\ Described' = Described
         /\ Reading' = Reading
  BY KeptUnits, KeptModule DEF Reading

(* The metadata of a build are there or not, and not both.                 *)
LEMMA MetaIsThere == NoModule => ~Described
  BY FileAssumption DEF NoModule, Described

LEMMA StartTruth == TInv /\ TruthInv /\ Start => TruthInv'
<1> SUFFICES ASSUME TInv, TruthInv, Start, unfailed' PROVE TruthSoFar'
  BY DEF TruthInv
<1>1. /\ stage = "idle" /\ UNCHANGED <<source, dir, broken, unfailed>> /\ ~broken
      /\ dir \in Directories
  BY DEF Start, TInv, TypeOK
<1>2. Undisturbed
  BY <1>1 DEF TruthInv, TruthSoFar
<1>3. Undisturbed' = Undisturbed
  BY <1>1 DEF Undisturbed, Blank, NoModule, Marked, Described, Uniform
<1>4. NoModule \/ Described
  BY <1>2 DEF Undisturbed, Blank
<1>5. NoModule' = NoModule /\ Described' = Described
  BY <1>1, KeptModule
<1>6. PICK r \in Requests :
        /\ request' = r
        /\ IF RequestAccepted(r) /\ dir.meta # Torn
             THEN /\ existing' = dir.meta
                  /\ IF r.mode = "reuse_ptx"
                       THEN stage' = "reuse"
                       ELSE /\ stage' = "compile"
                            /\ pending' = {c \in Classes : MustCompile(r, c)}
                            /\ rebuilt' = (pending' # {})
             ELSE stage' = "refused"
  BY DEF Start
<1>7. CASE stage' = "refused"
  BY <1>2, <1>3, <1>7 DEF TruthSoFar
<1>8. CASE stage' = "reuse"
  <2>1. r.mode = "reuse_ptx" /\ existing' = dir.meta
    BY <1>6, <1>8
  <2>2. Reading'
    BY <1>1, <1>4, <1>5, <2>1 DEF Reading
  <2> QED BY <1>2, <1>3, <1>6, <1>8, <2>1, <2>2 DEF TruthSoFar
<1>9. CASE stage' = "compile"
  <2>1. /\ r.mode # "reuse_ptx" /\ existing' = dir.meta
        /\ pending' = {c \in Classes : MustCompile(r, c)} /\ rebuilt' = (pending' # {})
    BY <1>6, <1>9
  <2>2. Reading'
    BY <1>1, <1>4, <1>5, <2>1 DEF Reading
  <2>3. 1 \in Classes
    BY ClassesAssumption DEF Classes
  <2>4. CASE Blank
    <3>1. pending' = Classes
      BY <2>1, <2>4 DEF Blank, MustCompile
    <3> QED BY <1>6, <1>9, <2>1, <2>2, <2>3, <3>1 DEF TruthSoFar
  <2>5. CASE Marked /\ (r.force \/ OptChanged(r))
    <3>1. pending' = Classes
      BY <2>1, <2>5 DEF MustCompile
    <3> QED BY <1>6, <1>9, <2>1, <2>2, <2>3, <3>1 DEF TruthSoFar
  <2>6. CASE Marked /\ ~r.force /\ ~OptChanged(r)
    <3>1. \A c \in Classes : dir.ll[c] # None
      BY <2>6, FileAssumption DEF Marked, Codes
    <3>2. pending' = {}
      BY <2>1, <2>6, <3>1 DEF MustCompile
    <3>3. dir.marker = r.opt
      BY <2>6 DEF OptChanged, Marked
    <3>4. Marked' /\ dir'.marker = request'.opt
      BY <1>1, <1>6, <2>6, <3>3 DEF Marked, Uniform
    <3> QED BY <1>6, <1>9, <2>1, <2>2, <3>2, <3>4 DEF TruthSoFar
  <2> QED BY <1>2, <2>4, <2>5, <2>6 DEF Undisturbed
<1> QED BY <1>6, <1>7, <1>8, <1>9

LEMMA CompileTruth ==
  ASSUME NEW c \in Classes PROVE TInv /\ TruthInv /\ Compile(c) => TruthInv'
<1> SUFFICES ASSUME TInv, TruthInv, Compile(c), unfailed' PROVE TruthSoFar'
  BY DEF TruthInv
<1>1. /\ stage = "compile" /\ stage' = "compile" /\ c \in pending /\ pending' = pending \ {c}
      /\ UNCHANGED <<source, request, existing, rebuilt, unfailed>>
  BY DEF Compile, context
<1>2. TruthSoFar
  BY <1>1 DEF TruthInv
<1>3. CASE broken'
  BY <1>1, <1>3 DEF TruthSoFar
<1>4. CASE ~broken'
  <2>1. dir' = [dir EXCEPT !.ll[c] = [ver |-> source, opt |-> request.opt]] /\ ~broken
    BY <1>4 DEF Compile
  <2>2. /\ dir'.ll = [dir.ll EXCEPT ![c] = Fresh[c]]
        /\ dir'.meta = dir.meta /\ dir'.patched = dir.patched /\ dir'.ptx = dir.ptx
    BY <2>1 DEF TInv, TypeOK, Directories, Fresh
  <2>3. /\ request.mode # "reuse_ptx" /\ Reading /\ rebuilt
        /\ \A d \in Classes \ pending : dir.ll[d] = Fresh[d]
    BY <1>1, <1>2, <2>1 DEF TruthSoFar
  <2>4. Reading'
    BY <1>1, <2>2, <2>3, KeptModule DEF Reading
  <2>5. Fresh' = Fresh
    BY <1>1, SameTargets
  <2>6. \A d \in Classes \ pending' : dir'.ll[d] = Fresh[d]
    BY <1>1, <2>2, <2>3 DEF TInv, TypeOK, Directories
  <2> QED BY <1>1, <2>3, <2>4, <2>5, <2>6 DEF TruthSoFar
<1> QED BY <1>3, <1>4

LEMMA CompiledTruth == TInv /\ TruthInv /\ Compiled => TruthInv'
<1> SUFFICES ASSUME TInv, TruthInv, Compiled, unfailed' PROVE TruthSoFar'
  BY DEF TruthInv
<1>1. /\ stage = "compile" /\ stage' = CompiledStage /\ (pending = {} \/ broken)
      /\ UNCHANGED <<source, dir, request, existing, rebuilt, unfailed>>
  BY DEF Compiled, context, history
<1>2. TruthSoFar /\ dir \in Directories /\ request.opt \in Opts /\ source \in Versions
  BY <1>1, RequestFields DEF TruthInv, TInv, TypeOK
<1>3. CASE broken
  BY <1>1, <1>3 DEF TruthSoFar, CompiledStage
<1>4. CASE ~broken
  <2>1. request.mode # "reuse_ptx" /\ Reading /\ pending = {}
    BY <1>1, <1>2, <1>4 DEF TruthSoFar
  <2>2. CASE rebuilt /\ \A c \in Classes : dir.ll[c] = Fresh[c]
    <3>1. dir.ll = Fresh /\ Fresh \in Codes
      BY <1>2, <2>2 DEF Directories, Fresh, Codes, Units
    <3>2. Emitted
      BY <3>1 DEF Emitted, Uniform, Fresh
    <3> QED BY <1>1, <1>4, <2>1, <2>2, <3>2, KeptDirectory DEF TruthSoFar, CompiledStage
  <2>3. CASE Marked /\ dir.marker = request.opt
    <3>1. Emitted /\ dir.merged = dir.ll
      BY <2>3 DEF Marked, Emitted
    <3> QED BY <1>1, <1>4, <2>1, <3>1, KeptDirectory DEF TruthSoFar, CompiledStage
  <2> QED BY <1>1, <1>2, <1>4, <2>1, <2>2, <2>3 DEF TruthSoFar
<1> QED BY <1>3, <1>4

LEMMA LinkTruth == TInv /\ TruthInv /\ Link => TruthInv'
<1> SUFFICES ASSUME TInv, TruthInv, Link, unfailed' PROVE TruthSoFar'
  BY DEF TruthInv
<1>1. /\ stage = "link" /\ UNCHANGED <<source, request, existing, unfailed>>
      /\ dir \in Directories /\ failures \in 0 .. MaxFailures /\ dir.ll \in Codes
  BY DEF Link, context, TInv, TypeOK, Supplied
<1>2. request.mode # "reuse_ptx" /\ Reading /\ Emitted /\ (rebuilt \/ dir.merged = dir.ll)
  BY <1>1 DEF TruthInv, TruthSoFar
<1>3. ASSUME dir'.ll = dir.ll, dir'.merged = dir.ll, stage' = "storage",
             dir'.meta = dir.meta, dir'.patched = dir.patched, dir'.ptx = dir.ptx
      PROVE  TruthSoFar'
  <2>1. Reading'
    BY <1>1, <1>2, <1>3, KeptModule DEF Reading
  <2>2. UnitsLinked'
    BY <1>1, <1>2, <1>3 DEF UnitsLinked, Emitted, Uniform
  <2> QED BY <1>1, <1>2, <1>3, <2>1, <2>2 DEF TruthSoFar
<1>4. CASE Produces("merged", dir.ll, "storage")
  <2>1. "merged" \in Products /\ "storage" \in Stages /\ dir.ll \in Contents("merged")
    BY <1>1 DEF Products, Stages, Contents, Written
  <2>2. /\ dir'.ll = dir.ll /\ \A f \in Products \ {"merged"} : dir'[f] = dir[f]
        /\ stage' \in {"storage", "failed"} /\ (stage' # "failed" => dir'.merged = dir.ll)
    BY <1>1, <1>4, <2>1, Production
  <2>3. dir'.meta = dir.meta /\ dir'.patched = dir.patched /\ dir'.ptx = dir.ptx
    BY <2>2 DEF Products
  <2>4. CASE stage' = "failed"
    BY <2>4 DEF TruthSoFar
  <2> QED BY <1>3, <2>2, <2>3, <2>4
<1>5. CASE UNCHANGED dir /\ ~rebuilt /\ stage' = "storage"
  BY <1>2, <1>3, <1>5
<1> QED BY <1>4, <1>5 DEF Link

LEMMA MeasureStorageTruth == TInv /\ TruthInv /\ MeasureStorage => TruthInv'
<1> SUFFICES ASSUME TInv, TruthInv, MeasureStorage, unfailed' PROVE TruthSoFar'
  BY DEF TruthInv
<1>1. stage = "storage" /\ UNCHANGED <<source, dir, request, existing, unfailed>>
  BY DEF MeasureStorage, context, history
<1>2. request.mode # "reuse_ptx" /\ Reading /\ UnitsLinked
  BY <1>1 DEF TruthInv, TruthSoFar
<1>3. request.mode \in Modes
  BY <1>1, RequestFields DEF TInv
<1>4. CASE request.mode = "full"
  BY <1>1, <1>2, <1>4, KeptDirectory DEF TruthSoFar, MeasureStorage, Reuses
<1>5. CASE request.mode = "reuse_gpu_patched_ll"
  <2>1. stage' = "reuse"
    BY <1>5 DEF MeasureStorage, Reuses
  <2>2. Described => storage' = dir.meta.storage
    BY <1>2, <1>5, FileAssumption DEF MeasureStorage, Reading, Described
  <2> QED BY <1>1, <1>2, <1>5, <2>1, <2>2, KeptDirectory DEF TruthSoFar
<1> QED BY <1>2, <1>3, <1>4, <1>5 DEF Modes

LEMMA ReusePatchedTruth == TInv /\ TruthInv /\ ReusePatched => TruthInv'
<1> SUFFICES ASSUME TInv, TruthInv, ReusePatched, unfailed' PROVE TruthSoFar'
  BY DEF TruthInv
<1>1. /\ stage = "reuse" /\ request.mode = "reuse_gpu_patched_ll"
      /\ UNCHANGED <<source, dir, request, existing, storage, unfailed>>
      /\ stage' = IF dir.patched = None THEN "failed" ELSE "optimize"
  BY DEF ReusePatched, context, history
<1>2. Reading /\ UnitsLinked /\ (Described => storage = dir.meta.storage)
  BY <1>1 DEF TruthInv, TruthSoFar
<1>3. CASE dir.patched = None
  BY <1>1, <1>3 DEF TruthSoFar
<1>4. CASE dir.patched # None
  <2>1. Described
    BY <1>2, <1>4 DEF Reading, NoModule
  <2>2. PatchedMade'
    BY <1>1, <1>2, <2>1 DEF Described, PatchedMade, Uniform
  <2> QED BY <1>1, <1>2, <1>4, <2>2, KeptDirectory DEF TruthSoFar, AsAsked
<1> QED BY <1>3, <1>4

LEMMA ReusePtxTruth == TInv /\ TruthInv /\ ReusePtx => TruthInv'
<1> SUFFICES ASSUME TInv, TruthInv, ReusePtx, unfailed' PROVE TruthSoFar'
  BY DEF TruthInv
<1>1. /\ stage = "reuse" /\ request.mode = "reuse_ptx"
      /\ UNCHANGED <<source, dir, request, existing, unfailed>>
      /\ stage' = IF dir.ptx = None THEN "failed" ELSE "assemble"
      /\ dir.ptx # None => storage' = IF existing # None THEN existing.storage ELSE source
  BY DEF ReusePtx, context, history
<1>2. Reading /\ Undisturbed
  BY <1>1 DEF TruthInv, TruthSoFar
<1>3. CASE dir.ptx = None
  BY <1>1, <1>3 DEF TruthSoFar
<1>4. CASE dir.ptx # None
  <2>1. Described /\ Marked
    BY <1>2, <1>4 DEF Undisturbed, Blank, NoModule
  <2>2. existing = dir.meta /\ existing # None
    BY <1>2, <2>1, FileAssumption DEF Reading, Described
  <2>3. UnitsLinked'
    BY <1>1, <2>1, KeptDirectory DEF UnitsLinked
  <2>4. PatchedMade'
    BY <1>1, <1>4, <2>1, <2>2 DEF Described, PatchedMade, Uniform
  <2>5. PtxMade'
    BY <1>1, <1>4, <2>1, <2>2 DEF Described, PtxMade, Uniform, Keeps
  <2> QED BY <1>1, <1>4, <2>3, <2>4, <2>5 DEF TruthSoFar, AsAsked
<1> QED BY <1>3, <1>4

LEMMA LowerTruth == TInv /\ TruthInv /\ Lower => TruthInv'
<1> SUFFICES ASSUME TInv, TruthInv, Lower, unfailed' PROVE TruthSoFar'
  BY DEF TruthInv
<1>1. stage = "lower" /\ UNCHANGED <<source, request, storage, unfailed>>
  BY DEF Lower, context
<1>2. request.mode = "full" /\ UnitsLinked
  BY <1>1 DEF TruthInv, TruthSoFar
<1>3. /\ dir'.ll = dir.ll /\ \A f \in Products \ {"gpuLl"} : dir'[f] = dir[f]
      /\ stage' \in {"patch", "failed"}
      /\ stage' # "failed" =>
           /\ dir'.gpuLl = [code |-> dir.merged, storage |-> storage, split |-> request.split]
           /\ seq' = request.split
  BY Lowering
<1>4. dir'["merged"] = dir["merged"] /\ dir'["marker"] = dir["marker"]
  BY <1>3 DEF Products
<1>5. UnitsLinked' /\ dir'.ll = dir.merged
  BY <1>1, <1>2, <1>3, <1>4, KeptUnits DEF UnitsLinked
<1> QED BY <1>1, <1>2, <1>3, <1>5 DEF TruthSoFar

LEMMA PatchTruth == TInv /\ TruthInv /\ Patch => TruthInv'
<1> SUFFICES ASSUME TInv, TruthInv, Patch, unfailed' PROVE TruthSoFar'
  BY DEF TruthInv
<1>1. /\ stage = "patch" /\ UNCHANGED <<source, request, storage, seq, unfailed>>
      /\ dir \in Directories /\ failures \in 0 .. MaxFailures
      /\ Transforms("gpuLl", "patched", dir.gpuLl, "optimize")
  BY DEF Patch, context, artifacts, TInv, TypeOK
<1>2. /\ request.mode = "full" /\ UnitsLinked /\ seq = request.split
      /\ dir.gpuLl = [code |-> dir.ll, storage |-> storage, split |-> request.split]
  BY <1>1 DEF TruthInv, TruthSoFar
<1>3. storage \in Versions /\ request.split \in BOOLEAN
  BY <1>1, RequestFields DEF TInv, Supplied
<1>4. Emitted
  BY <1>2 DEF UnitsLinked
<1>5. dir.gpuLl \in Lowered /\ Uniform(dir.gpuLl.code)
  BY <1>2, <1>3, <1>4 DEF Lowered, Emitted
<1>6. /\ dir'.ll = dir.ll /\ \A f \in Products \ {"patched"} : dir'[f] = dir[f]
      /\ stage' \in {"optimize", "failed"} /\ (stage' # "failed" => dir'.patched = dir.gpuLl)
  <2>1. "gpuLl" \in Products /\ "patched" \in Products /\ "optimize" \in Stages
    BY DEF Products, Stages
  <2>2. dir.gpuLl \in Contents("patched")
    BY <1>5 DEF Contents, Written
  <2> QED BY <1>1, <2>1, <2>2, Transformation
<1>7. dir'["merged"] = dir["merged"] /\ dir'["marker"] = dir["marker"]
  BY <1>6 DEF Products
<1>8. UnitsLinked'
  BY <1>1, <1>2, <1>6, <1>7, KeptUnits
<1>9. stage' # "failed" => PatchedMade' /\ AsAsked("patched")'
  BY <1>1, <1>2, <1>5, <1>6 DEF PatchedMade, AsAsked, Uniform
<1> QED BY <1>1, <1>2, <1>6, <1>8, <1>9 DEF TruthSoFar

LEMMA OptimizeTruth == TInv /\ TruthInv /\ Optimize => TruthInv'
<1> SUFFICES ASSUME TInv, TruthInv, Optimize, unfailed' PROVE TruthSoFar'
  BY DEF TruthInv
<1>1. /\ stage = "optimize" /\ UNCHANGED <<source, request, existing, storage, seq, unfailed>>
      /\ dir \in Directories /\ failures \in 0 .. MaxFailures
      /\ Transforms("patched", "ptx", Optimized, "assemble")
  BY DEF Optimize, context, artifacts, TInv, TypeOK
<1>2. request.mode # "reuse_ptx" /\ UnitsLinked /\ PatchedMade /\ AsAsked("patched")
  BY <1>1 DEF TruthInv, TruthSoFar
<1>3. dir["patched"] \notin {None, Torn} => Optimized \in Contents("ptx")
  BY <1>1, OptimizedType DEF TInv, Contents, Written
<1>4. /\ dir'.ll = dir.ll /\ \A f \in Products \ {"ptx"} : dir'[f] = dir[f]
      /\ stage' \in {"assemble", "failed"} /\ (stage' # "failed" => dir'.ptx = Optimized)
  <2>1. "patched" \in Products /\ "ptx" \in Products /\ "assemble" \in Stages
    BY DEF Products, Stages
  <2> QED BY <1>1, <1>3, <2>1, Transformation
<1>5. /\ dir'["merged"] = dir["merged"] /\ dir'["marker"] = dir["marker"]
      /\ dir'["patched"] = dir["patched"]
  BY <1>4 DEF Products
<1>6. UnitsLinked' /\ PatchedMade'
  BY <1>1, <1>2, <1>4, <1>5, KeptUnits DEF PatchedMade, Uniform
<1>7. Optimized \in Modules
  BY <1>1, <1>2, OptimizedType, FileAssumption DEF TInv, PatchedMade
<1>8. stage' # "failed" => PtxMade' /\ AsAsked("ptx")'
  <2>1. ~Keeps /\ ~Keeps'
    BY <1>1, <1>2 DEF Keeps
  <2>2. /\ Uniform(Optimized.code) /\ Optimized.storage = storage
        /\ Optimized.gpuOpt = request.gpuOpt
        /\ request.mode = "full" =>
             Optimized.code = dir.ll /\ Optimized.split = request.split /\ seq = request.split
    BY <1>2 DEF Optimized, PatchedMade, AsAsked
  <2> QED BY <1>1, <1>4, <1>7, <2>1, <2>2 DEF PtxMade, AsAsked, Uniform
<1> QED BY <1>1, <1>2, <1>4, <1>6, <1>8 DEF TruthSoFar

LEMMA AssembleTruth == TInv /\ TruthInv /\ Assemble => TruthInv'
<1> SUFFICES ASSUME TInv, TruthInv, Assemble, unfailed' PROVE TruthSoFar'
  BY DEF TruthInv
<1>1. /\ stage = "assemble" /\ UNCHANGED <<source, request, existing, storage, seq, unfailed>>
      /\ dir \in Directories /\ failures \in 0 .. MaxFailures
  BY DEF Assemble, context, artifacts, TInv, TypeOK
<1>2. UnitsLinked /\ PatchedMade /\ PtxMade /\ AsAsked("ptx")
  BY <1>1 DEF TruthInv, TruthSoFar
<1>3. ASSUME dir'.ll = dir.ll, dir'.merged = dir.merged, dir'.marker = dir.marker,
             dir'.patched = dir.patched, dir'.ptx = dir.ptx, stage' = "meta",
             OutModule' = dir.ptx
      PROVE  TruthSoFar'
  <2>1. UnitsLinked'
    BY <1>1, <1>2, <1>3, KeptUnits
  <2>2. PatchedMade' /\ PtxMade' /\ AsAsked("ptx")'
    BY <1>1, <1>2, <1>3 DEF PatchedMade, PtxMade, AsAsked, Uniform, Keeps
  <2> QED BY <1>1, <1>3, <2>1, <2>2 DEF TruthSoFar
<1>4. CASE request.ptxModule
  <2>1. stage' = "meta" /\ UNCHANGED dir
    BY <1>4 DEF Assemble
  <2>2. OutModule' = dir.ptx
    BY <1>1, <1>4, <2>1 DEF OutModule
  <2> QED BY <1>3, <2>1, <2>2
<1>5. CASE ~request.ptxModule
  <2>1. Transforms("ptx", "cubin", dir.ptx, "meta")
    BY <1>5 DEF Assemble
  <2>2. "ptx" \in Products /\ "cubin" \in Products /\ "meta" \in Stages
    BY DEF Products, Stages
  <2>3. dir.ptx \in Contents("cubin")
    BY <1>1, ProductFields DEF Contents
  <2>4. /\ dir'.ll = dir.ll /\ \A f \in Products \ {"cubin"} : dir'[f] = dir[f]
        /\ stage' \in {"meta", "failed"} /\ (stage' # "failed" => dir'.cubin = dir.ptx)
    BY <1>1, <2>1, <2>2, <2>3, Transformation
  <2>5. /\ dir'.merged = dir.merged /\ dir'.marker = dir.marker
        /\ dir'.patched = dir.patched /\ dir'.ptx = dir.ptx
    BY <2>4 DEF Products
  <2>6. stage' # "failed" => OutModule' = dir.ptx
    BY <1>1, <1>5, <2>4 DEF OutModule
  <2>7. CASE stage' = "failed"
    BY <2>7 DEF TruthSoFar
  <2> QED BY <1>3, <2>4, <2>5, <2>6, <2>7
<1> QED BY <1>4, <1>5

LEMMA WriteMetaTruth == TInv /\ TruthInv /\ WriteMeta => TruthInv'
<1> SUFFICES ASSUME TInv, TruthInv, WriteMeta, unfailed' PROVE TruthSoFar'
  BY DEF TruthInv
<1>1. /\ stage = "meta" /\ UNCHANGED <<source, request, existing, storage, seq, unfailed>>
      /\ dir \in Directories /\ failures \in 0 .. MaxFailures
      /\ Produces("meta", NewMeta, "markers")
  BY DEF WriteMeta, context, artifacts, TInv, TypeOK
<1>2. UnitsLinked /\ PatchedMade /\ PtxMade /\ AsAsked("ptx") /\ OutModule = dir.ptx
  BY <1>1 DEF TruthInv, TruthSoFar
<1>3. NewMeta \in Metas
  BY <1>1, NewMetaType
<1>4. /\ dir'.ll = dir.ll /\ \A f \in Products \ {"meta"} : dir'[f] = dir[f]
      /\ stage' \in {"markers", "failed"} /\ (stage' # "failed" => dir'.meta = NewMeta)
  <2>1. "meta" \in Products /\ "markers" \in Stages /\ NewMeta \in Contents("meta")
    BY <1>3 DEF Products, Stages, Contents, Written
  <2> QED BY <1>1, <2>1, Production
<1>5. /\ dir'["merged"] = dir["merged"] /\ dir'["marker"] = dir["marker"]
      /\ dir'["patched"] = dir["patched"] /\ dir'["ptx"] = dir["ptx"]
      /\ dir'["cubin"] = dir["cubin"]
  BY <1>4 DEF Products
<1>6. CASE stage' = "failed"
  BY <1>6 DEF TruthSoFar
<1>7. CASE stage' = "markers"
  <2>1. dir'.meta = NewMeta
    BY <1>4, <1>7
  <2>2. NewMeta.storage = storage /\ NewMeta.format = Format /\ NewMeta.seq = seq
        /\ NewMeta.gpuOpt = dir.ptx.gpuOpt
    BY <1>2 DEF NewMeta, PtxMade
  <2>3. Described'
    BY <1>2, <1>3, <1>5, <2>1, <2>2 DEF Described, PatchedMade, PtxMade, Uniform
  <2>4. Module' = dir'.ptx
    BY <1>2, <1>5, <2>1, <2>2 DEF Module, OutModule, Format
  <2>5. AsAsked("ptx")'
    BY <1>1, <1>2, <1>4, <1>5 DEF AsAsked
  <2>6. request.mode = "full" => dir'.meta.opt = request.opt /\ dir'.meta.seq = request.split
    BY <1>2, <2>1, <2>2 DEF NewMeta, Keeps, AsAsked
  <2>7. UnitsLinked'
    BY <1>1, <1>2, <1>4, <1>5, KeptUnits
  <2> QED BY <1>1, <1>7, <2>3, <2>4, <2>5, <2>6, <2>7 DEF TruthSoFar
<1> QED BY <1>4, <1>6, <1>7

LEMMA WriteMarkersTruth == TInv /\ TruthInv /\ WriteMarkers => TruthInv'
<1> SUFFICES ASSUME TInv, TruthInv, WriteMarkers, unfailed' PROVE TruthSoFar'
  BY DEF TruthInv
<1>1. /\ stage = "markers" /\ UNCHANGED <<source, request, existing, storage, seq, unfailed>>
      /\ dir \in Directories /\ failures \in 0 .. MaxFailures /\ request.opt \in Opts
  BY RequestFields DEF WriteMarkers, context, artifacts, TInv, TypeOK
<1>2. /\ UnitsLinked /\ Described /\ Module = dir.ptx /\ AsAsked("ptx")
      /\ request.mode = "full" => dir.meta.opt = request.opt /\ dir.meta.seq = request.split
  BY <1>1 DEF TruthInv, TruthSoFar
<1>3. CASE ~MarksOpt
  <2>1. stage' = "done" /\ UNCHANGED dir
    BY <1>3 DEF WriteMarkers
  <2>2. Marked
    BY <1>2, <1>3 DEF MarksOpt, UnitsLinked
  <2>3. Module' = Module /\ AsAsked("ptx")'
    BY <1>1, <1>2, <2>1 DEF Module, AsAsked
  <2> QED BY <1>1, <1>2, <2>1, <2>2, <2>3, KeptDirectory DEF TruthSoFar
<1>4. CASE MarksOpt
  <2>1. Produces("marker", request.opt, "done")
    BY <1>4 DEF WriteMarkers
  <2>2. "marker" \in Products /\ "done" \in Stages /\ request.opt \in Contents("marker")
    BY <1>1 DEF Products, Stages, Contents, Written
  <2>3. /\ dir'.ll = dir.ll /\ \A f \in Products \ {"marker"} : dir'[f] = dir[f]
        /\ stage' \in {"done", "failed"} /\ (stage' # "failed" => dir'.marker = request.opt)
    BY <1>1, <2>1, <2>2, Production
  <2>4. /\ dir'["merged"] = dir["merged"] /\ dir'["meta"] = dir["meta"]
        /\ dir'["patched"] = dir["patched"] /\ dir'["ptx"] = dir["ptx"]
        /\ dir'["cubin"] = dir["cubin"]
    BY <2>3 DEF Products
  <2>5. CASE stage' = "failed"
    BY <2>5 DEF TruthSoFar
  <2>6. CASE stage' = "done"
    <3>1. Emitted /\ dir.merged = dir.ll /\ request.mode # "reuse_ptx"
      BY <1>2, <1>4 DEF MarksOpt, UnitsLinked
    <3>2. request.opt # None
      BY <1>1, FileAssumption
    <3>3. UnitsLinked' /\ Marked'
      BY <1>1, <2>3, <2>4, <2>6, <3>1, <3>2 DEF UnitsLinked, Emitted, Marked, Uniform
    <3>4. Described' /\ Module' = dir'.ptx /\ AsAsked("ptx")'
      BY <1>1, <1>2, <2>3, <2>4, KeptModule DEF Module, AsAsked
    <3> QED BY <1>1, <1>2, <2>4, <2>6, <3>3, <3>4 DEF TruthSoFar
  <2> QED BY <2>3, <2>5, <2>6
<1> QED BY <1>3, <1>4

LEMMA ReturnTruth == TInv /\ TruthInv /\ Return => TruthInv'
<1> SUFFICES ASSUME TInv, TruthInv, Return, unfailed' PROVE TruthSoFar'
  BY DEF TruthInv
<1>1. stage \in {"done", "refused"} /\ unfailed /\ stage' = "idle" /\ UNCHANGED dir
  BY DEF Return
<1>2. Undisturbed
  BY <1>1 DEF TruthInv, TruthSoFar, Undisturbed
<1>3. Undisturbed'
  BY <1>1, <1>2 DEF Undisturbed, Blank, NoModule, Marked, Described, Uniform
<1> QED BY <1>1, <1>3 DEF TruthSoFar

LEMMA TruthInductive ==
  /\ Init => TruthInv
  /\ TInv /\ TruthInv /\ [Next]_vars => TruthInv'
<1>1. Init => TruthInv
  BY DEF Init, TruthInv, TruthSoFar, Undisturbed, Blank, NoModule
<1>2. TInv /\ TruthInv /\ [Next]_vars => TruthInv'
  <2> SUFFICES ASSUME TInv, TruthInv, [Next]_vars PROVE TruthInv'
    OBVIOUS
  <2>1. CASE Regenerate
    <3>1. stage = "idle" /\ stage' = "idle" /\ UNCHANGED <<dir, unfailed>>
      BY <2>1 DEF Regenerate, history
    <3> QED
      BY <3>1 DEF TruthInv, TruthSoFar, Undisturbed, Blank, NoModule, Marked, Described, Uniform
  <2>2. CASE Kill
    BY <2>2 DEF Kill, Fails, TruthInv, TruthSoFar
  <2>3. CASE UNCHANGED vars
    <3>1. UNCHANGED <<source, dir, stage, request, existing, pending, rebuilt, broken, storage,
                      seq, unfailed>>
      BY <2>3 DEF vars, context, compiling, artifacts, history
    <3>2. /\ Module' = Module /\ OutModule' = OutModule /\ Fresh' = Fresh
          /\ Undisturbed' = Undisturbed /\ PatchedMade' = PatchedMade /\ PtxMade' = PtxMade
          /\ AsAsked("patched")' = AsAsked("patched") /\ AsAsked("ptx")' = AsAsked("ptx")
      BY <3>1, KeptDirectory, SameTargets
      DEF Module, OutModule, Undisturbed, Blank, PatchedMade, PtxMade, AsAsked, Uniform, Keeps
    <3> QED BY <3>1, <3>2, KeptDirectory DEF TruthInv, TruthSoFar
  <2> QED
    BY <2>1, <2>2, <2>3, StartTruth, CompileTruth, CompiledTruth, LinkTruth, MeasureStorageTruth,
       ReusePatchedTruth, ReusePtxTruth, LowerTruth, PatchTruth, OptimizeTruth, AssembleTruth,
       WriteMetaTruth, WriteMarkersTruth, ReturnTruth
    DEF Next
<1> QED BY <1>1, <1>2

(* As long as no build failed, every build that ends well, whatever it     *)
(* reused, has metadata true of its module, and a full one the level and   *)
(* the split it was asked for, however often the C++ was generated again.  *)
THEOREM UnfailedAreTruthful == Spec => []UnfailedBuildsAreTruthful
<1>1. TInv /\ TruthInv => UnfailedBuildsAreTruthful
  <2> SUFFICES ASSUME TInv, TruthInv, stage = "done", unfailed
               PROVE  UnfailedBuildsAreTruthful
    BY DEF UnfailedBuildsAreTruthful
  <2>1. /\ UnitsLinked /\ Described /\ Module = dir.ptx /\ AsAsked("ptx")
        /\ request.mode = "full" => dir.meta.opt = request.opt /\ dir.meta.seq = request.split
    BY DEF TruthInv, TruthSoFar
  <2>2. request.mode = "full" => \A c \in Classes : dir.ll[c].opt = request.opt
    BY <2>1 DEF UnitsLinked, Emitted
  <2> QED BY <2>1, <2>2 DEF UnfailedBuildsAreTruthful, Described, Uniform, AsAsked
<1> QED BY <1>1, TypesInductive, TruthInductive, PTL DEF Spec
=============================================================================
