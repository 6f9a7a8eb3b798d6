---------------------------- MODULE DeviceMemory ----------------------------
(***************************************************************************)
(* The device side of a hybrid run: NStates copies of a design's state,    *)
(* Storage bytes each, laid end to end in one allocation, and the          *)
(* operations the host puts on the default stream.  An operation is run by *)
(* a set of threads that may go in any order; the next operation starts    *)
(* when all of them are through.                                           *)
(*                                                                         *)
(* The kernels are those of src/src/tools/gen_vl_gpu_kernel_templates.py.  *)
(* What an evaluation kernel does to one state is the generated code of    *)
(* the design, the constant Eval.                                          *)
(***************************************************************************)
EXTENDS Integers, Sequences, SequencesExt

CONSTANTS
  NStates,      \* parallel copies of the design
  Storage,      \* bytes of one copy
  Block,        \* threads of a block
  Byte,         \* values of a byte, with 0
  EvalKernels,  \* names of the evaluation kernels
  Eval          \* kernel -> state image -> state image

(* Byte o of the allocation is byte o % Storage of state o \div Storage.    *)
Total == Storage * NStates
Offsets == 0 .. Total - 1
States == 0 .. NStates - 1
StateImages == [0 .. Storage - 1 -> Byte]
Images == [States -> StateImages]
PatchRecords == [off : Nat, val : Byte]
DevicePatches == [off : Offsets, val : Byte]

ASSUME SizesAssumption ==
  NStates \in Nat \ {0} /\ Storage \in Nat \ {0} /\ Block \in Nat \ {0}
ASSUME ByteAssumption == 0 \in Byte
ASSUME EvalAssumption == Eval \in [EvalKernels -> [StateImages -> StateImages]]

Zero == [s \in States |-> [b \in 0 .. Storage - 1 |-> 0]]

Written(m, o, val) == [m EXCEPT ![o \div Storage][o % Storage] = val]

(* Every state of a batch starts as a copy of the same state image.        *)
Replicated(state) == [s \in States |-> state]

(* Evaluations and patches, each in the order of its sequence.             *)
Evaluated(kernels, img) ==
  FoldLeft(LAMBDA m, k : [s \in States |-> Eval[k][m[s]]], img, kernels)

Patched(patches, img) ==
  FoldLeft(LAMBDA m, p : Written(m, p.off, p.val), img, patches)

----------------------------------------------------------------------------
(* Operations on the stream.                                               *)
Memset == [kind |-> "memset"]
Upload(img) == [kind |-> "upload", data |-> img]
UploadState(s, state) == [kind |-> "uploadState", at |-> s, data |-> state]
ReplicateKernel(state) == [kind |-> "replicate", data |-> state]
CopyByte(p) == [kind |-> "copy", patch |-> p]
PatchKernel(recs) == [kind |-> "patches", recs |-> recs]
EvalKernel(k) == [kind |-> "eval", kernel |-> k]

Operations ==
  {Memset}
    \cup [kind : {"upload"}, data : Images]
    \cup [kind : {"uploadState"}, at : States, data : StateImages]
    \cup [kind : {"replicate"}, data : StateImages]
    \cup [kind : {"copy"}, patch : DevicePatches]
    \cup [kind : {"patches"}, recs : Seq(DevicePatches)]
    \cup [kind : {"eval"}, kernel : EvalKernels]

(* The launch covers every state: the last block may be partly idle.       *)
GridFloor == NStates \div Block
Grid == (NStates + Block - 1) \div Block

EvalThreads == {g \in 0 .. Grid * Block - 1 : g < NStates}

Threads(op) ==
  CASE op.kind = "eval" -> EvalThreads
    [] op.kind = "patches" -> 1 .. Len(op.recs)
    [] op.kind = "replicate" -> Offsets
    [] OTHER -> {0}

(* The effect of thread t of an operation on the memory m.                 *)
Effect(op, t, m) ==
  CASE op.kind = "memset" -> Zero
    [] op.kind = "upload" -> op.data
    [] op.kind = "uploadState" -> [m EXCEPT ![op.at] = op.data]
    [] op.kind = "replicate" -> Written(m, t, op.data[t % Storage])
    [] op.kind = "copy" -> Written(m, op.patch.off, op.patch.val)
    [] op.kind = "patches" -> Written(m, op.recs[t].off, op.recs[t].val)
    [] op.kind = "eval" -> [m EXCEPT ![t] = Eval[op.kernel][@]]

(* The memory once the threads of op other than `ran' are through, and     *)
(* once a whole stream is, given that `ran' threads of its head are.       *)
Completed(op, ran, m) ==
  FoldSet(LAMBDA t, acc : Effect(op, t, acc), m, Threads(op) \ ran)

Drained(m, stream, ran) ==
  IF stream = <<>> THEN m
  ELSE FoldLeft(LAMBDA acc, op : Completed(op, {}, acc),
                Completed(Head(stream), ran, m), Tail(stream))
=============================================================================
