---------------------------- MODULE SequentialRun ----------------------------
(***************************************************************************)
(* What a hybrid run promises: the request, executed one step at a time on *)
(* one memory, with no stream, no threads and no modes.  A step writes its *)
(* patches in the order they are given and then lets every kernel evaluate *)
(* every state.  Whether the steps are resident, synchronised or split     *)
(* into phases must not show in any dump.                                  *)
(*                                                                         *)
(* The request is the job module Request reads off the arguments.          *)
(***************************************************************************)
EXTENDS Request

CONSTANTS
  Launches,       \* [via, args, ambient] of the runs considered
  DumpPaths,      \* files a run may write
  Old,            \* what a file holds before the run
  Partial         \* what a failed write leaves

VARIABLES
  job,     \* the request
  img,     \* memory of all states
  taken,   \* steps executed in this repetition
  runs,    \* repetitions begun
  saved,   \* contents of the dump files
  status   \* "idle", "running", "done" or "failed"

vars == <<job, img, taken, runs, saved, status>>

Jobs == {JobOf(l.args, l.ambient) : l \in Launches}

Init ==
  /\ job \in Jobs
  /\ img = Zero
  /\ taken = 0
  /\ runs = 0
  /\ saved = [p \in DumpPaths |-> Old]
  /\ status = "idle"

Begin ==
  /\ status = "idle"
  /\ status' = "running"
  /\ img' = StartImage(job)
  /\ runs' = 1
  /\ UNCHANGED <<job, taken, saved>>

Step ==
  /\ status = "running"
  /\ taken < Len(job.plan)
  /\ \A i \in DOMAIN job.plan[taken + 1] : job.plan[taken + 1][i].off < Total
  /\ img' = StepImage(job, taken + 1, img)
  /\ taken' = taken + 1
  /\ UNCHANGED <<job, runs, saved, status>>

(* A timing repetition starts over from the initial image.                 *)
Again ==
  /\ status = "running"
  /\ taken = Len(job.plan)
  /\ runs < job.repeats
  /\ img' = StartImage(job)
  /\ taken' = 0
  /\ runs' = runs + 1
  /\ UNCHANGED <<job, saved, status>>

Save ==
  /\ status = "running"
  /\ runs = job.repeats
  /\ \E s \in job.saves : s.at = taken /\ saved' = [saved EXCEPT ![s.path] = img]
  /\ UNCHANGED <<job, img, taken, runs, status>>

Finish ==
  /\ status = "running"
  /\ taken = Len(job.plan)
  /\ runs = job.repeats
  /\ \A s \in job.saves : saved[s.path] # Old
  /\ status' = "done"
  /\ UNCHANGED <<job, img, taken, runs, saved>>

(* A request may be refused, and a run may fail at any point, leaving at   *)
(* most one file half written.                                             *)
Fail ==
  /\ status \in {"idle", "running"}
  /\ status' = "failed"
  /\ \/ UNCHANGED saved
     \/ \E s \in job.saves : saved' = [saved EXCEPT ![s.path] = Partial]
  /\ UNCHANGED <<job, img, taken, runs>>

Next == Begin \/ Step \/ Again \/ Save \/ Finish \/ Fail

Spec == Init /\ [][Next]_vars
=============================================================================
