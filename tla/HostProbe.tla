----------------------------- MODULE HostProbe -----------------------------
(***************************************************************************)
(* The CPU host probe's own reading of a patch script                      *)
(* (src/src/hybrid/tlul_slice_host_probe.cpp): load_patch_script expands   *)
(* the repeat blocks into a plain list of steps, and apply_patch_step      *)
(* writes the patches of one into the single state the probe has.  The     *)
(* reference of a comparison is meaningful if this is the job the runtime  *)
(* executes from the same file.                                            *)
(*                                                                         *)
(* A script is a sequence of lines as in PatchScript: of a text only how   *)
(* its numbers are spelled is left out, so the two parsers read a line     *)
(* alike.  An unreadable line is one longer than the runtime's buffer; it  *)
(* stands for a long comment, to which the probe has no objection.         *)
(***************************************************************************)
EXTENDS PatchScript

CONSTANT StateBytes \* sizeof(Root), one state's part of the storage

ASSUME StateAssumption == StateBytes \in 0 .. Total

(* What the loader has after some lines: its four locals, and whether it   *)
(* has failed.                                                             *)
Start == [inRepeat |-> FALSE, repeatCount |-> 0, body |-> <<>>, steps |-> <<>>, failed |-> FALSE]

(* A dash is looked for in the first token only, and ends the line.        *)
Patch(tokens) == IF Head(tokens) = Dash THEN <<>> ELSE tokens

(* The stream fails on a count that does not fit.                          *)
Refuses(r, line) ==
  \/ line.kind = "begin" /\ (r.inRepeat \/ line.count \notin 1 .. Word - 1)
  \/ line.kind = "end" /\ ~r.inRepeat
  \/ line.kind = "step" /\ ~(\A i \in DOMAIN Patch(line.tokens) : line.tokens[i] \in Patches)

UnrolledInclusive(r) == r.steps \o Repeated(r.body, r.repeatCount + 1)
Unrolled(r) == r.steps \o Repeated(r.body, r.repeatCount)

ReadLine(r, line) ==
  IF r.failed \/ Refuses(r, line) THEN [r EXCEPT !.failed = TRUE]
  ELSE CASE line.kind \in {"blank", "unreadable"} -> r
         [] line.kind = "begin" ->
              [r EXCEPT !.inRepeat = TRUE, !.repeatCount = line.count, !.body = <<>>]
         [] line.kind = "end" ->
              [r EXCEPT !.inRepeat = FALSE, !.repeatCount = 0, !.body = <<>>, !.steps = Unrolled(r)]
         [] line.kind = "step" ->
              IF r.inRepeat THEN [r EXCEPT !.body = Append(@, Patch(line.tokens))]
                            ELSE [r EXCEPT !.steps = Append(@, Patch(line.tokens))]

Read == FoldLeft(ReadLine, Start, script)

LoadedAnyhow(r) == ~r.failed /\ r.steps # <<>>
Loaded(r) == ~r.failed /\ ~r.inRepeat /\ r.steps # <<>>

ProbeLoads == Loaded(Read)
PatchSteps == Read.steps

(* The steps are applied in their order, each before one evaluation, to a  *)
(* state that is made anew for every repetition of the probe; it is asked  *)
(* for as many evaluations as there are steps, or refuses.                 *)
ProbeApplies ==
  /\ ProbeLoads
  /\ \A i \in DOMAIN PatchSteps : \A j \in DOMAIN PatchSteps[i] :
       PatchSteps[i][j].off < StateBytes

----------------------------------------------------------------------------
CountsFit == \A i \in DOMAIN script : script[i].kind = "begin" => script[i].count < Word

(* A script the runtime executes resident is read by the probe as the same *)
(* job: as many steps, each with the patches the schedule has for it, in   *)
(* their order, although one keeps blocks and counts in unsigned, expands  *)
(* them later, and cuts them into slices, and the other unrolls a list.    *)
ProbeReadsTheScript ==
  stage = "built" /\ CountsFit =>
    /\ ProbeLoads
    /\ Len(PatchSteps) = steps
    /\ \A i \in DOMAIN PatchSteps : Slice(i) = PatchSteps[i]

(* A block without steps, which adds nothing to the probe's list.          *)
EmptyBlockAt(i, j) ==
  /\ i < j
  /\ script[i].kind = "begin" /\ script[j].kind = "end"
  /\ \A k \in i + 1 .. j - 1 : script[k].kind \in {"blank", "unreadable"}

(* The scripts with which the probe runs and the runtime does not are      *)
(* these: with a line that is too long, a step that has too many patches   *)
(* or something after its dash, a block without steps, or more steps than  *)
(* an unsigned counts.                                                     *)
OnlyTheProbeRuns ==
  stage = "failed" /\ ProbeApplies =>
    \/ \E i \in DOMAIN script : script[i].kind = "unreadable"
    \/ \E i \in DOMAIN script : script[i].kind = "step" /\ ~AcceptedStep(script[i].tokens)
    \/ \E i, j \in DOMAIN script : EmptyBlockAt(i, j)
    \/ Len(PatchSteps) >= Word
=============================================================================
