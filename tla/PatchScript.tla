---------------------------- MODULE PatchScript ----------------------------
(***************************************************************************)
(* The patch script of the hybrid runtime (src/src/hybrid/run_vl_hybrid.c):*)
(* load_patch_script reads one line at a time into blocks of steps, each   *)
(* block with a repeat count, and build_resident_patch_schedule expands    *)
(* the blocks into the compact schedule a resident run uploads once.       *)
(*                                                                         *)
(* Every unsigned of the C code is a number modulo Word.  `text', `spelled'*)
(* and `starts' are history variables: the logical steps as the script     *)
(* spells them before any counter is narrowed, the repeat count the open   *)
(* block was given, and the place of every block in the text.  The loader  *)
(* and the schedule are compared with them.                                *)
(***************************************************************************)
EXTENDS Integers, Sequences, SequencesExt

CONSTANTS
  Patches,     \* patches a token can denote, [off |-> Nat, val |-> byte]
  MaxPatches,  \* MAX_PATCHES: patches on one line
  Word,        \* 2^32: the range of an unsigned counter
  Total,       \* bytes of device storage, storage * nstates
  Scripts      \* the files the run may be given, sequences of lines

(* A token is a patch, the dash of a step without patches, or anything     *)
(* parse_patch refuses.                                                    *)
Dash == [kind |-> "dash"]
Junk == [kind |-> "junk"]
Tokens == Patches \cup {Dash, Junk}

(* A line as the loader tells lines apart: blank or comment, a repeat      *)
(* header with its parsed count (0 stands for every refused count), an end *)
(* marker, the tokens of a step, or a line the loader cannot read at all   *)
(* (longer than its buffer).                                               *)
Lines ==
  [kind : {"blank", "end", "unreadable"}]
    \cup [kind : {"begin"}, count : Nat]
    \cup [kind : {"step"}, tokens : Seq(Tokens) \ {<<>>}]

Steps == Seq(Patches)
Blocks == [steps : Steps \ {<<>>}, repeat : Nat]

ASSUME PatchesAssumption == Patches \subseteq [off : Nat, val : Nat]
ASSUME WordAssumption == Word \in Nat \ {0, 1}
ASSUME LimitAssumption == MaxPatches \in Nat /\ Total \in Nat
ASSUME ScriptsAssumption == Scripts \subseteq Seq(Lines)

VARIABLES
  script,   \* the file being loaded
  pos,      \* lines read so far
  open,     \* in_repeat_seq
  block,    \* repeat_seq_block: the block being collected
  blocks,   \* blocks appended so far
  steps,    \* logical_step_count, modulo Word
  text,     \* history: the steps as the script spells them
  spelled,  \* history: the count in the header of the open block
  starts,   \* history: steps of the text before each appended block
  cursor,   \* the schedule's three loop counters: block_idx, repeat_idx, step_idx
  offsets,  \* step_offsets, one entry per built step
  records,  \* the schedule's flat records
  stage     \* "load", "build", "built" or "failed"

history == <<text, spelled, starts>>
loadVars == <<script, pos, open, block, blocks, steps, history>>
buildVars == <<cursor, offsets, records>>
vars == <<loadVars, buildVars, stage>>

----------------------------------------------------------------------------
(* A step line is accepted when it is a single dash or patches only.       *)
AcceptedStep(tokens) ==
  \/ tokens = <<Dash>>
  \/ /\ \A i \in DOMAIN tokens : tokens[i] \in Patches
     /\ Len(tokens) <= MaxPatches

StepOf(tokens) == IF tokens = <<Dash>> THEN <<>> ELSE tokens

(* n copies of the step sequence s, one after the other.                   *)
Repeated(s, n) == [i \in 1 .. Len(s) * n |-> s[((i - 1) % Len(s)) + 1]]

(* Assignment to an unsigned.                                              *)
KeptWide(n) == n
Narrow(n) == n % Word

EmptyBlock == [steps |-> <<>>, repeat |-> 0]

Line == script[pos + 1]

More == stage = "load" /\ pos < Len(script)

Consume == pos' = pos + 1 /\ UNCHANGED <<script, buildVars>>

Init ==
  /\ script \in Scripts
  /\ pos = 0
  /\ open = FALSE
  /\ block = EmptyBlock
  /\ blocks = <<>>
  /\ steps = 0
  /\ text = <<>>
  /\ spelled = 0
  /\ starts = <<>>
  /\ cursor = <<1, 0, 0>>
  /\ offsets = <<>>
  /\ records = <<>>
  /\ stage = "load"

SkipLine ==
  /\ More
  /\ Line.kind = "blank"
  /\ Consume
  /\ UNCHANGED <<open, block, blocks, steps, history, stage>>

(* `@repeat-seq N': the count is parsed as an unsigned long and stored in  *)
(* an unsigned.                                                            *)
OpenBlock ==
  /\ More
  /\ Line.kind = "begin"
  /\ ~open
  /\ Line.count # 0
  /\ open' = TRUE
  /\ block' = [steps |-> <<>>, repeat |-> Narrow(Line.count)]
  /\ spelled' = Line.count
  /\ Consume
  /\ UNCHANGED <<blocks, steps, text, starts, stage>>

CloseBlock ==
  /\ More
  /\ Line.kind = "end"
  /\ open
  /\ block.steps # <<>>
  /\ blocks' = Append(blocks, block)
  /\ steps' = Narrow(steps + Len(block.steps) * block.repeat)
  /\ starts' = Append(starts, Len(text))
  /\ text' = text \o Repeated(block.steps, spelled)
  /\ open' = FALSE
  /\ block' = EmptyBlock
  /\ Consume
  /\ UNCHANGED <<spelled, stage>>

AddStepToBlock ==
  /\ More
  /\ Line.kind = "step"
  /\ AcceptedStep(Line.tokens)
  /\ open
  /\ block' = [block EXCEPT !.steps = Append(@, StepOf(Line.tokens))]
  /\ Consume
  /\ UNCHANGED <<open, blocks, steps, history, stage>>

AddSingleStep ==
  /\ More
  /\ Line.kind = "step"
  /\ AcceptedStep(Line.tokens)
  /\ ~open
  /\ LET step == StepOf(Line.tokens)
     IN /\ blocks' = Append(blocks, [steps |-> <<step>>, repeat |-> 1])
        /\ text' = Append(text, step)
  /\ starts' = Append(starts, Len(text))
  /\ steps' = Narrow(steps + 1)
  /\ Consume
  /\ UNCHANGED <<open, block, spelled, stage>>

(* The lines on which the loader gives up: a nested or malformed header,   *)
(* an end without a block or of an empty one, a dash mixed with patches,   *)
(* too many patches, a bad token, an overlong line.                        *)
RefusedLine ==
  \/ Line.kind = "unreadable"
  \/ Line.kind = "begin" /\ (open \/ Line.count = 0)
  \/ Line.kind = "end" /\ (~open \/ block.steps = <<>>)
  \/ Line.kind = "step" /\ ~AcceptedStep(Line.tokens)

RefuseLine ==
  /\ More
  /\ RefusedLine
  /\ stage' = "failed"
  /\ UNCHANGED <<loadVars, buildVars>>

(* End of file: an open block or a script without a step is refused.       *)
CompleteWithOpenBlock == blocks # <<>> /\ steps # 0

Complete == ~open /\ blocks # <<>> /\ steps # 0

EndOfFile ==
  /\ stage = "load"
  /\ pos = Len(script)
  /\ stage' = IF Complete THEN "build" ELSE "failed"
  /\ UNCHANGED <<loadVars, buildVars>>

----------------------------------------------------------------------------
(* build_resident_patch_schedule: three nested loops over blocks, repeats  *)
(* and steps.  Its logical_step is the number of offsets written.          *)
Building == stage = "build"

BlockIdx == cursor[1]
RepeatIdx == cursor[2]
StepIdx == cursor[3]

InBlocks == Building /\ BlockIdx <= Len(blocks)
InRepeats == InBlocks /\ RepeatIdx < blocks[BlockIdx].repeat
InSteps == InRepeats /\ StepIdx < Len(blocks[BlockIdx].steps)

NextStep == blocks[BlockIdx].steps[StepIdx + 1]

InStorageInclusive(step) == \A i \in DOMAIN step : step[i].off <= Total
InStorage(step) == \A i \in DOMAIN step : step[i].off < Total

OffsetAfterStep == Len(records) + Len(NextStep)
StepOffset == Len(records)

BuildStep ==
  /\ InSteps
  /\ Len(offsets) < steps
  /\ InStorage(NextStep)
  /\ offsets' = Append(offsets, StepOffset)
  /\ records' = records \o NextStep
  /\ cursor' = <<BlockIdx, RepeatIdx, StepIdx + 1>>
  /\ UNCHANGED <<loadVars, stage>>

(* "resident patch schedule step overflow", or an offset past the storage. *)
BuildFails ==
  /\ InSteps
  /\ Len(offsets) >= steps \/ ~InStorage(NextStep)
  /\ stage' = "failed"
  /\ UNCHANGED <<loadVars, buildVars>>

NextRepeat ==
  /\ InRepeats
  /\ ~InSteps
  /\ cursor' = <<BlockIdx, RepeatIdx + 1, 0>>
  /\ UNCHANGED <<loadVars, offsets, records, stage>>

NextBlock ==
  /\ InBlocks
  /\ ~InRepeats
  /\ cursor' = <<BlockIdx + 1, 0, 0>>
  /\ UNCHANGED <<loadVars, offsets, records, stage>>

(* The closing entry of step_offsets, unless fewer steps were built than   *)
(* the loader counted.                                                     *)
BuildEnds ==
  /\ Building
  /\ ~InBlocks
  /\ IF Len(offsets) = steps
       THEN offsets' = Append(offsets, Len(records)) /\ stage' = "built"
       ELSE stage' = "failed" /\ UNCHANGED offsets
  /\ UNCHANGED <<loadVars, cursor, records>>

Done == stage \in {"built", "failed"} /\ UNCHANGED vars

Load ==
  \/ SkipLine
  \/ OpenBlock
  \/ CloseBlock
  \/ AddStepToBlock
  \/ AddSingleStep
  \/ RefuseLine
  \/ EndOfFile

Build == BuildStep \/ BuildFails \/ NextRepeat \/ NextBlock \/ BuildEnds

Next == Load \/ Build \/ Done

Spec == Init /\ [][Next]_vars

----------------------------------------------------------------------------
(* The loader keeps its counters in range, collects steps only inside an   *)
(* open block, and never moves past the file.                              *)
TypeOK ==
  /\ script \in Scripts
  /\ pos \in 0 .. Len(script)
  /\ open \in BOOLEAN
  /\ block \in [steps : Seq(Steps), repeat : 0 .. Word - 1]
  /\ blocks \in Seq([steps : Seq(Steps), repeat : 0 .. Word - 1])
  /\ steps \in 0 .. Word - 1
  /\ text \in Seq(Steps)
  /\ spelled \in Nat
  /\ starts \in Seq(Nat)
  /\ cursor \in (Nat \ {0}) \X Nat \X Nat
  /\ offsets \in Seq(Nat)
  /\ records \in Seq(Patches)
  /\ stage \in {"load", "build", "built", "failed"}

(* Block b occupies the steps of the text from starts[b] on: repetition r  *)
(* of its step s is the text's step starts[b] + r * length + s.            *)
BlockLen(b) == Len(blocks[b].steps)
BlockEnd(b) == starts[b] + BlockLen(b) * blocks[b].repeat

BlockIsText(b) ==
  /\ BlockLen(b) > 0
  /\ BlockEnd(b) = IF b = Len(blocks) THEN Len(text) ELSE starts[b + 1]
  /\ \A r \in 0 .. blocks[b].repeat - 1, s \in 0 .. BlockLen(b) - 1 :
       text[starts[b] + BlockLen(b) * r + s + 1] = blocks[b].steps[s + 1]

(* What the runtime may rely on once load_patch_script returned 0: no      *)
(* block is empty or left open, the step count it reports is the number of *)
(* steps the script spells, and the blocks laid end to end are the text,   *)
(* as long as the count fits the counter.                                  *)
LoadedFaithfully ==
  stage \in {"build", "built"} =>
    /\ ~open
    /\ blocks # <<>>
    /\ Len(text) < Word =>
         /\ steps = Len(text)
         /\ starts[1] = 0
         /\ \A b \in 1 .. Len(blocks) : BlockIsText(b)

(* The i-th slice of the schedule, what launch_resident_patch_step hands   *)
(* to the patch kernel for logical step i (counted from 1 here).           *)
Slice(i) == SubSeq(records, offsets[i] + 1, offsets[i + 1])

(* A finished schedule has one slice per logical step and slice i holds    *)
(* the patches the script spells for step i, in the script's order; a      *)
(* dash is an empty slice that still takes its step.                       *)
ScheduleIsTheScript ==
  stage = "built" =>
    /\ Len(offsets) = steps + 1
    /\ Len(text) < Word => \A i \in 1 .. Len(text) : Slice(i) = text[i]

(* A schedule that was accepted never writes outside the device storage.   *)
ScheduleInBounds ==
  stage = "built" => \A i \in DOMAIN records : records[i].off \in 0 .. Total - 1
=============================================================================
