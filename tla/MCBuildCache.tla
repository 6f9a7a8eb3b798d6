---------------------------- MODULE MCBuildCache ----------------------------
(* Two classes, two clang levels, two versions of the C++ and every kind   *)
(* of build: full, forced, split, parallel, a module left as PTX, and the  *)
(* two reuse modes.                                                        *)
EXTENDS BuildCache

Full ==
  [ mode |-> "full", force |-> FALSE, opt |-> "O1", gpuOpt |-> "O3", split |-> FALSE,
    ptxModule |-> FALSE, parallel |-> FALSE ]

MCRequests ==
  { Full,
    [Full EXCEPT !.opt = "Os", !.parallel = TRUE],
    [Full EXCEPT !.force = TRUE, !.parallel = TRUE, !.gpuOpt = "O0"],
    [Full EXCEPT !.split = TRUE, !.ptxModule = TRUE],
    [Full EXCEPT !.mode = "reuse_gpu_patched_ll", !.opt = "Os", !.gpuOpt = "O0"],
    [Full EXCEPT !.mode = "reuse_ptx", !.ptxModule = TRUE],
    [Full EXCEPT !.mode = "reuse_ptx", !.gpuOpt = "O0"],
    [Full EXCEPT !.mode = "reuse_ptx", !.split = TRUE] }
=============================================================================
