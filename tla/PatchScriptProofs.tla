------------------------- MODULE PatchScriptProofs -------------------------
(* Theorems about the patch-script loader, the resident schedule and the   *)
(* host probe's reading of the same file, for every script, storage size,  *)
(* patch limit and counter width.                                          *)
EXTENDS HostProbe, FoldTheorems, TLAPS

BlockType == [steps : Seq(Steps), repeat : 0 .. Word - 1]

(* An accepted step line denotes a sequence of patches.                    *)
LEMMA StepOfType ==
  ASSUME NEW tokens \in Seq(Tokens) \ {<<>>}, AcceptedStep(tokens)
  PROVE  StepOf(tokens) \in Steps
<1>1. CASE tokens = <<Dash>>
  BY <1>1 DEF StepOf, Steps
<1>2. CASE tokens # <<Dash>>
  <2>1. \A i \in DOMAIN tokens : tokens[i] \in Patches
    BY <1>2 DEF AcceptedStep
  <2>2. tokens \in Seq(Patches)
    BY <2>1
  <2> QED BY <1>2, <2>2 DEF StepOf, Steps
<1> QED BY <1>1, <1>2

(* Repeating a step sequence gives a step sequence of the product length.  *)
LEMMA RepeatedType ==
  ASSUME NEW s \in Seq(Steps), NEW n \in Nat, Len(s) > 0
  PROVE  /\ Repeated(s, n) \in Seq(Steps)
         /\ Len(Repeated(s, n)) = Len(s) * n
<1>1. Len(s) \in Nat /\ Len(s) * n \in Nat
  OBVIOUS
<1>2. \A i \in 1 .. Len(s) * n : ((i - 1) % Len(s)) + 1 \in 1 .. Len(s)
  BY <1>1
<1>3. \A i \in 1 .. Len(s) * n : s[((i - 1) % Len(s)) + 1] \in Steps
  BY <1>2
<1>4. Repeated(s, n) \in [1 .. Len(s) * n -> Steps]
  BY <1>3 DEF Repeated
<1> QED BY <1>1, <1>4

LEMMA SumProductType == \A a, b, c \in Nat : a + b * c \in Nat
  OBVIOUS

LEMMA EmptyBlockType == EmptyBlock \in BlockType
<1>1. 0 \in 0 .. Word - 1
  BY WordAssumption
<1>2. <<>> \in Seq(Steps)
  OBVIOUS
<1> QED BY <1>1, <1>2 DEF EmptyBlock, BlockType

LEMMA NarrowType == \A n \in Nat : Narrow(n) \in 0 .. Word - 1
  BY WordAssumption DEF Narrow

(* The line about to be read is a line of the file.                        *)
LEMMA LineType ==
  ASSUME TypeOK, More
  PROVE  /\ Line \in Lines
         /\ pos + 1 \in 0 .. Len(script)
<1>1. script \in Seq(Lines)
  BY ScriptsAssumption DEF TypeOK
<1>2. pos + 1 \in 1 .. Len(script)
  BY <1>1 DEF TypeOK, More
<1> QED BY <1>1, <1>2 DEF Line

LEMMA NextStepType ==
  ASSUME TypeOK, InSteps
  PROVE  NextStep \in Steps
<1>1. BlockIdx \in 1 .. Len(blocks) /\ StepIdx \in Nat
  BY DEF TypeOK, InSteps, InRepeats, InBlocks, BlockIdx, StepIdx, RepeatIdx
<1>2. blocks[BlockIdx].steps \in Seq(Steps)
  <2>1. blocks \in Seq(BlockType)
    BY DEF TypeOK, BlockType
  <2>2. blocks[BlockIdx] \in BlockType
    BY <2>1, <1>1
  <2> QED BY <2>2 DEF BlockType
<1>3. StepIdx + 1 \in 1 .. Len(blocks[BlockIdx].steps)
  BY <1>1, <1>2 DEF InSteps
<1> QED BY <1>2, <1>3 DEF NextStep

(* The state keeps its types: in particular every unsigned counter stays   *)
(* in the range of an unsigned, whatever the script asks for.              *)
THEOREM TypeCorrect == Spec => []TypeOK
<1>1. Init => TypeOK
  <2> SUFFICES ASSUME Init PROVE TypeOK
    OBVIOUS
  <2>1. script \in Scripts /\ pos \in 0 .. Len(script)
    BY ScriptsAssumption DEF Init
  <2>2. block \in BlockType /\ blocks \in Seq(BlockType)
    BY EmptyBlockType DEF Init
  <2>3. steps \in 0 .. Word - 1 /\ cursor \in (Nat \ {0}) \X Nat \X Nat
    BY WordAssumption DEF Init
  <2>4. text \in Seq(Steps) /\ starts \in Seq(Nat) /\ offsets \in Seq(Nat) /\ records \in Seq(Patches)
    BY DEF Init
  <2> QED BY <2>1, <2>2, <2>3, <2>4 DEF Init, TypeOK, BlockType
<1>2. TypeOK /\ [Next]_vars => TypeOK'
  <2> SUFFICES ASSUME TypeOK, [Next]_vars PROVE TypeOK'
    OBVIOUS
  <2> USE DEF TypeOK, loadVars, buildVars, history
  <2>1. CASE SkipLine
    BY <2>1, LineType DEF SkipLine, Consume
  <2>2. CASE OpenBlock
    <3>1. Line.count \in Nat
      BY <2>2, LineType DEF OpenBlock, Lines
    <3>2. Narrow(Line.count) \in 0 .. Word - 1
      BY <3>1, NarrowType
    <3>3. <<>> \in Seq(Steps)
      OBVIOUS
    <3>4. block' \in [steps : Seq(Steps), repeat : 0 .. Word - 1]
      BY <2>2, <3>2, <3>3 DEF OpenBlock
    <3> QED BY <2>2, <3>1, <3>4, LineType DEF OpenBlock, Consume
  <2>3. CASE CloseBlock
    <3>1. block.steps \in Seq(Steps) /\ Len(block.steps) > 0 /\ block.repeat \in Nat
      BY <2>3, WordAssumption DEF CloseBlock
    <3>2. Repeated(block.steps, spelled) \in Seq(Steps)
      BY <3>1, RepeatedType
    <3>3. steps + Len(block.steps) * block.repeat \in Nat
      <4>1. Len(block.steps) \in Nat /\ block.repeat \in Nat /\ steps \in Nat
        BY <3>1, WordAssumption
      <4> QED BY <4>1, SumProductType
    <3>4. steps' \in 0 .. Word - 1
      BY <2>3, <3>3, NarrowType DEF CloseBlock
    <3>5. text' \in Seq(Steps)
      BY <2>3, <3>2 DEF CloseBlock
    <3>6. block' \in BlockType /\ blocks' \in Seq(BlockType)
      BY <2>3, EmptyBlockType DEF CloseBlock, BlockType
    <3>7. starts' \in Seq(Nat)
      BY <2>3 DEF CloseBlock
    <3> QED BY <2>3, <3>4, <3>5, <3>6, <3>7, LineType DEF CloseBlock, Consume, BlockType
  <2>4. CASE AddStepToBlock
    <3>1. StepOf(Line.tokens) \in Steps
      BY <2>4, LineType, StepOfType DEF AddStepToBlock, Lines
    <3>2. Append(block.steps, StepOf(Line.tokens)) \in Seq(Steps)
      BY <3>1
    <3>3. block' \in [steps : Seq(Steps), repeat : 0 .. Word - 1]
      BY <2>4, <3>2 DEF AddStepToBlock
    <3> QED BY <2>4, <3>3, LineType DEF AddStepToBlock, Consume
  <2>5. CASE AddSingleStep
    <3>1. StepOf(Line.tokens) \in Steps
      BY <2>5, LineType, StepOfType DEF AddSingleStep, Lines
    <3>2. <<StepOf(Line.tokens)>> \in Seq(Steps) /\ 1 \in 0 .. Word - 1
      BY <3>1, WordAssumption
    <3>3. [steps |-> <<StepOf(Line.tokens)>>, repeat |-> 1] \in BlockType
      BY <3>2 DEF BlockType
    <3>4. blocks' \in Seq(BlockType)
      BY <2>5, <3>3 DEF AddSingleStep, BlockType
    <3>5. steps' \in 0 .. Word - 1
      <4>1. steps + 1 \in Nat
        BY WordAssumption
      <4> QED BY <2>5, <4>1, NarrowType DEF AddSingleStep
    <3>6. text' \in Seq(Steps) /\ starts' \in Seq(Nat)
      BY <2>5, <3>1 DEF AddSingleStep
    <3> QED BY <2>5, <3>4, <3>5, <3>6, LineType DEF AddSingleStep, Consume, BlockType
  <2>6. CASE RefuseLine
    BY <2>6 DEF RefuseLine
  <2>7. CASE EndOfFile
    BY <2>7 DEF EndOfFile
  <2>8. CASE BuildStep
    <3>1. NextStep \in Seq(Patches)
      BY <2>8, NextStepType DEF BuildStep, Steps
    <3>2. Len(records) \in Nat
      OBVIOUS
    <3>3. offsets' \in Seq(Nat) /\ records' \in Seq(Patches)
      BY <2>8, <3>1, <3>2 DEF BuildStep, StepOffset
    <3>4. cursor' = <<cursor[1], cursor[2], cursor[3] + 1>>
      BY <2>8 DEF BuildStep, BlockIdx, StepIdx, RepeatIdx
    <3>5. cursor[1] \in Nat \ {0} /\ cursor[2] \in Nat /\ cursor[3] + 1 \in Nat
      OBVIOUS
    <3>6. cursor' \in (Nat \ {0}) \X Nat \X Nat
      BY <3>4, <3>5
    <3> QED BY <2>8, <3>3, <3>6 DEF BuildStep
  <2>9. CASE BuildFails
    BY <2>9 DEF BuildFails
  <2>10. CASE NextRepeat
    BY <2>10 DEF NextRepeat, BlockIdx, RepeatIdx
  <2>11. CASE NextBlock
    BY <2>11 DEF NextBlock, BlockIdx
  <2>12. CASE BuildEnds
    <3>1. Len(records) \in Nat
      OBVIOUS
    <3>2. /\ stage' = "built" \/ stage' = "failed"
          /\ offsets' = offsets \/ offsets' = Append(offsets, Len(records))
      BY <2>12 DEF BuildEnds
    <3>3. Append(offsets, Len(records)) \in Seq(Nat)
      BY <3>1
    <3>4. offsets' \in Seq(Nat)
      BY <3>2, <3>3
    <3> QED BY <2>12, <3>2, <3>4 DEF BuildEnds
  <2>13. CASE UNCHANGED vars
    BY <2>13 DEF vars
  <2> QED
    BY <2>1, <2>2, <2>3, <2>4, <2>5, <2>6, <2>7, <2>8, <2>9, <2>10, <2>11, <2>12, <2>13
    DEF Next, Load, Build, Done
<1> QED BY <1>1, <1>2, PTL DEF Spec

----------------------------------------------------------------------------
(* Every record of the schedule was checked against the storage when its   *)
(* step was built, so a built schedule never writes outside it.            *)
RecordsInStorage == InStorage(records)

THEOREM ScheduleStaysInBounds == Spec => []ScheduleInBounds
<1>1. Init => RecordsInStorage
  BY DEF Init, RecordsInStorage, InStorage
<1>2. TypeOK /\ RecordsInStorage /\ [Next]_vars => RecordsInStorage'
  <2> SUFFICES ASSUME TypeOK, RecordsInStorage, [Next]_vars PROVE RecordsInStorage'
    OBVIOUS
  <2>1. CASE BuildStep
    <3>1. NextStep \in Seq(Patches) /\ records \in Seq(Patches)
      BY <2>1, NextStepType DEF BuildStep, Steps, TypeOK
    <3>2. records' = records \o NextStep /\ InStorage(NextStep) /\ InStorage(records)
      BY <2>1 DEF BuildStep, RecordsInStorage
    <3>3. \A i \in DOMAIN records' : records'[i].off < Total
      BY <3>1, <3>2 DEF InStorage
    <3> QED BY <3>3 DEF RecordsInStorage, InStorage
  <2>2. CASE ~BuildStep
    <3>1. UNCHANGED records
      BY <2>2 DEF Next, Load, Build, Done, SkipLine, OpenBlock, CloseBlock, AddStepToBlock,
        AddSingleStep, RefuseLine, EndOfFile, BuildFails, NextRepeat, NextBlock, BuildEnds,
        Consume, loadVars, buildVars, vars
    <3> QED BY <3>1 DEF RecordsInStorage, InStorage
  <2> QED BY <2>1, <2>2
<1>3. TypeOK /\ RecordsInStorage => ScheduleInBounds
  <2> SUFFICES ASSUME TypeOK, RecordsInStorage, NEW i \in DOMAIN records
               PROVE  records[i].off \in 0 .. Total - 1
    BY DEF ScheduleInBounds
  <2>1. records[i] \in Patches
    BY DEF TypeOK
  <2>2. records[i].off \in Nat
    BY <2>1, PatchesAssumption
  <2>3. records[i].off < Total
    BY DEF RecordsInStorage, InStorage
  <2> QED BY <2>2, <2>3, LimitAssumption
<1> QED BY <1>1, <1>2, <1>3, TypeCorrect, PTL DEF Spec

----------------------------------------------------------------------------
(* The loader.                                                             *)

(* Counters that are not narrowed: the text fits an unsigned, or every     *)
(* count of the script does.                                               *)
Kept == Len(text) < Word \/ CountsFit

(* A block lies in the text where starts has it.                           *)
Laid(b) == BlockIsText(b) /\ BlockEnd(b) \in 0 .. Len(text)

LoadInv ==
  /\ Len(starts) = Len(blocks)
  /\ blocks = <<>> <=> text = <<>>
  /\ open => /\ spelled > 0
             /\ block.repeat = Narrow(spelled)
             /\ CountsFit => spelled < Word
  /\ stage \in {"build", "built"} => Complete
  /\ Len(text) < Word => steps = Len(text)
  /\ Kept /\ blocks # <<>> => starts[1] = 0
  /\ Kept => \A b \in 1 .. Len(blocks) : Laid(b)

LEMMA Concatenated ==
  ASSUME NEW X, NEW s \in Seq(X), NEW t \in Seq(X)
  PROVE  /\ s \o t \in Seq(X)
         /\ Len(s \o t) = Len(s) + Len(t)
         /\ Len(s) \in Nat /\ Len(t) \in Nat
  OBVIOUS

LEMMA AppendedOne ==
  ASSUME NEW X, NEW s \in Seq(X), NEW e \in X
  PROVE  Append(s, e) = s \o <<e>>
  OBVIOUS

LEMMA NarrowSmall == \A n \in Nat : n < Word => Narrow(n) = n
  BY WordAssumption DEF Narrow

(* The place of a step in repetitions of a block.                          *)
LEMMA PlaceInBlock ==
  ASSUME NEW n \in Nat, NEW c \in Nat, NEW r \in 0 .. c - 1, NEW s \in 0 .. n - 1
  PROVE  /\ n * r \in Nat /\ n * r + s \in 0 .. n * c - 1
         /\ (n * r + s) % n = s
<1>1. n * r \in Nat /\ n * (r + 1) = n * r + n /\ n * c \in Nat
  OBVIOUS
<1>2. PICK d \in Nat : c = (r + 1) + d
  <2>1. c - (r + 1) \in Nat /\ c = (r + 1) + (c - (r + 1))
    OBVIOUS
  <2> QED BY <2>1
<1>3. n * c = n * (r + 1) + n * d /\ n * d \in Nat
  BY <1>2
<1>4. n * r + s \in 0 .. n * c - 1
  BY <1>1, <1>3
<1>5. PICK x \in Nat : x = n * r + s
  BY <1>1
<1>6. PICK q \in Nat : q = x \div n
  BY <1>5
<1>7. PICK t \in 0 .. n - 1 : t = x % n
  BY <1>5
<1>8. x = n * q + t
  BY <1>5, <1>6, <1>7
<1>9. q = r
  <2>1. CASE q < r
    <3>1. PICK e \in Nat : r = (q + 1) + e
      <4>1. r - (q + 1) \in Nat /\ r = (q + 1) + (r - (q + 1))
        BY <2>1
      <4> QED BY <4>1
    <3>2. n * r = (n * q + n) + n * e /\ n * e \in Nat /\ n * q \in Nat
      BY <3>1
    <3> QED BY <1>5, <1>8, <3>2
  <2>2. CASE r < q
    <3>1. PICK e \in Nat : q = (r + 1) + e
      <4>1. q - (r + 1) \in Nat /\ q = (r + 1) + (q - (r + 1))
        BY <2>2
      <4> QED BY <4>1
    <3>2. n * q = (n * r + n) + n * e /\ n * e \in Nat /\ n * r \in Nat
      BY <3>1
    <3> QED BY <1>5, <1>8, <3>2
  <2> QED BY <2>1, <2>2
<1>10. t = s
  BY <1>1, <1>5, <1>8, <1>9
<1> QED BY <1>1, <1>4, <1>5, <1>7, <1>10

(* The steps of a block, and where its repetitions put them.               *)
Copies(more, blk) ==
  /\ more \in Seq(Steps)
  /\ blk \in BlockType
  /\ Len(blk.steps) > 0
  /\ Len(more) = Len(blk.steps) * blk.repeat
  /\ \A r \in 0 .. blk.repeat - 1, s \in 0 .. Len(blk.steps) - 1 :
       more[(Len(blk.steps) * r + s) + 1] = blk.steps[s + 1]

LEMMA RepeatedCopies ==
  ASSUME NEW blk \in BlockType, Len(blk.steps) > 0
  PROVE  Copies(Repeated(blk.steps, blk.repeat), blk)
<1> DEFINE n == Len(blk.steps)
           c == blk.repeat
           more == Repeated(blk.steps, c)
<1>1. blk.steps \in Seq(Steps) /\ n \in Nat /\ c \in Nat
  BY WordAssumption DEF BlockType
<1>2. more \in Seq(Steps) /\ Len(more) = n * c
  BY <1>1, RepeatedType
<1>3. ASSUME NEW r \in 0 .. c - 1, NEW s \in 0 .. n - 1
      PROVE  more[(n * r + s) + 1] = blk.steps[s + 1]
  <2>1. /\ n * r + s \in 0 .. n * c - 1
        /\ (n * r + s) % n = s
    <3> HIDE DEF n, c
    <3> QED BY <1>1, PlaceInBlock
  <2>2. PICK x \in Int : x = n * r + s
    BY <1>1, <2>1
  <2>c. PICK m \in Nat : m = n * c
    BY <1>1
  <2>3. x + 1 \in 1 .. n * c /\ (x + 1) - 1 = x /\ x % n = s
    <3>1. x \in 0 .. m - 1
      BY <2>1, <2>2, <2>c
    <3>2. x + 1 \in 1 .. m /\ (x + 1) - 1 = x
      BY <3>1, <2>c
    <3> QED BY <2>1, <2>2, <2>c, <3>2
  <2>4. more[x + 1] = blk.steps[(((x + 1) - 1) % n) + 1]
    BY <2>3 DEF Repeated
  <2> QED BY <2>2, <2>3, <2>4
<1> QED BY <1>1, <1>2, <1>3 DEF Copies

(* What the next block is and adds to the text leaves every block laid.    *)
Appended(more, blk) ==
  /\ blocks' = Append(blocks, blk)
  /\ starts' = Append(starts, Len(text))
  /\ text' = text \o more

LEMMA BlockFacts ==
  ASSUME TypeOK, NEW b \in 1 .. Len(blocks), Len(starts) = Len(blocks)
  PROVE  /\ blocks[b] \in BlockType
         /\ blocks[b].steps \in Seq(Steps)
         /\ BlockLen(b) \in Nat /\ blocks[b].repeat \in Nat /\ starts[b] \in Nat
         /\ BlockLen(b) * blocks[b].repeat \in Nat
<1>1. blocks \in Seq(BlockType) /\ starts \in Seq(Nat)
  BY DEF TypeOK, BlockType
<1>2. blocks[b] \in BlockType /\ starts[b] \in Nat
  BY <1>1
<1>3. blocks[b].steps \in Seq(Steps) /\ blocks[b].repeat \in Nat
  BY <1>2, WordAssumption DEF BlockType
<1>4. BlockLen(b) \in Nat
  BY <1>3 DEF BlockLen
<1> QED BY <1>2, <1>3, <1>4

(* A place inside a block that lies inside the text is a place of the text. *)
LEMMA SumInRange ==
  ASSUME NEW x \in Int, NEW y \in Int, NEW z \in Int, NEW m \in Int, NEW w \in Int,
         x >= 0, y >= 0, z >= 0, y + z <= m - 1, x + m <= w
  PROVE  x + y + z + 1 \in 1 .. w
OBVIOUS

LEMMA LaidStays ==
  ASSUME TypeOK, LoadInv, Kept, NEW more, NEW blk, Copies(more, blk), Appended(more, blk)
  PROVE  \A b \in 1 .. Len(blocks') : Laid(b)'
<1>1. /\ blocks \in Seq(BlockType) /\ starts \in Seq(Nat) /\ text \in Seq(Steps)
      /\ Len(blocks) \in Nat /\ Len(text) \in Nat /\ Len(starts) = Len(blocks)
  BY DEF TypeOK, LoadInv, BlockType
<1>2. blk \in BlockType /\ more \in Seq(Steps) /\ Len(more) \in Nat
  BY DEF Copies
<1>3. Len(blocks') = Len(blocks) + 1 /\ Len(text') = Len(text) + Len(more)
  BY <1>1, <1>2 DEF Appended
<1>4. ASSUME NEW b \in 1 .. Len(blocks) PROVE Laid(b)'
  <2>1. blocks'[b] = blocks[b] /\ starts'[b] = starts[b]
    BY <1>1 DEF Appended
  <2>2. BlockLen(b)' = BlockLen(b) /\ BlockEnd(b)' = BlockEnd(b)
    BY <2>1 DEF BlockLen, BlockEnd
  <2>3. Laid(b)
    BY DEF LoadInv
  <2>4. BlockEnd(b)' = IF b = Len(blocks') THEN Len(text') ELSE starts'[b + 1]
    <3>1. CASE b = Len(blocks)
      <4>1. starts'[b + 1] = Len(text)
        BY <1>1, <3>1 DEF Appended
      <4> QED BY <1>1, <1>3, <2>2, <2>3, <3>1, <4>1 DEF Laid, BlockIsText
    <3>2. CASE b # Len(blocks)
      <4>1. starts'[b + 1] = starts[b + 1]
        BY <1>1, <3>2 DEF Appended
      <4> QED BY <1>1, <1>3, <2>2, <2>3, <3>2, <4>1 DEF Laid, BlockIsText
    <3> QED BY <3>1, <3>2
  <2>5. ASSUME NEW r \in 0 .. blocks[b].repeat - 1, NEW s \in 0 .. BlockLen(b) - 1
        PROVE  text'[starts[b] + BlockLen(b) * r + s + 1] = blocks[b].steps[s + 1]
    <3>1. /\ BlockLen(b) \in Nat /\ blocks[b].repeat \in Nat /\ starts[b] \in Nat
          /\ BlockLen(b) * blocks[b].repeat \in Nat
      BY <1>1, BlockFacts
    <3>2. /\ BlockLen(b) * r \in Nat
          /\ BlockLen(b) * r + s \in 0 .. BlockLen(b) * blocks[b].repeat - 1
      BY <3>1, PlaceInBlock
    <3>3. starts[b] + BlockLen(b) * blocks[b].repeat <= Len(text)
      BY <2>3, <3>1 DEF Laid, BlockEnd
    <3>4. starts[b] + BlockLen(b) * r + s + 1 \in 1 .. Len(text)
      <4>1. PICK m \in Nat : m = BlockLen(b) * blocks[b].repeat
        BY <3>1
      <4>2. PICK k \in Nat : k = BlockLen(b) * r
        BY <3>2
      <4>3. k + s \in 0 .. m - 1 /\ starts[b] + m <= Len(text) /\ s \in Int
        BY <3>1, <3>2, <3>3, <4>1, <4>2
      <4>5. s \in Int /\ s >= 0 /\ k + s <= m - 1 /\ k \in Int /\ k >= 0
        BY <3>1, <4>3
      <4>6. starts[b] \in Int /\ starts[b] >= 0 /\ Len(text) \in Int
        BY <1>1, <3>1
      <4>7. starts[b] + k + s + 1 \in 1 .. Len(text)
        BY <4>3, <4>5, <4>6, SumInRange
      <4> QED BY <4>2, <4>7
    <3>5. text[starts[b] + BlockLen(b) * r + s + 1] = blocks[b].steps[s + 1]
      BY <2>3 DEF Laid, BlockIsText
    <3>6. PICK x \in 1 .. Len(text) : x = starts[b] + BlockLen(b) * r + s + 1
      BY <3>4
    <3>7. text'[x] = text[x]
      BY <1>1, <1>2, <3>6 DEF Appended
    <3> QED BY <3>5, <3>6, <3>7
  <2>6. BlockLen(b)' > 0 /\ BlockEnd(b)' \in 0 .. Len(text')
    BY <1>1, <1>2, <1>3, <2>2, <2>3 DEF Laid, BlockIsText
  <2> QED BY <2>1, <2>2, <2>4, <2>5, <2>6 DEF Laid, BlockIsText
<1>5. ASSUME NEW b, b = Len(blocks) + 1 PROVE Laid(b)'
  <2>1. blocks'[b] = blk /\ starts'[b] = Len(text)
    BY <1>1, <1>5 DEF Appended
  <2>2. BlockLen(b)' = Len(blk.steps) /\ BlockEnd(b)' = Len(text')
    BY <1>3, <2>1 DEF BlockLen, BlockEnd, Copies
  <2>3. Len(text') \in 0 .. Len(text')
    BY <1>1, <1>2, <1>3
  <2>4. blk.steps \in Seq(Steps) /\ Len(blk.steps) \in Nat /\ blk.repeat \in Nat
    BY <1>2, WordAssumption DEF BlockType
  <2>5. ASSUME NEW r \in 0 .. blk.repeat - 1, NEW s \in 0 .. Len(blk.steps) - 1
        PROVE  text'[Len(text) + Len(blk.steps) * r + s + 1] = blk.steps[s + 1]
    <3>1. /\ Len(blk.steps) * r \in Nat
          /\ Len(blk.steps) * r + s \in 0 .. Len(blk.steps) * blk.repeat - 1
      BY <2>4, PlaceInBlock
    <3>2. PICK x \in Nat : x = Len(blk.steps) * r + s
      BY <3>1
    <3>3. Len(more) = Len(blk.steps) * blk.repeat
      BY DEF Copies
    <3>4. x + 1 \in 1 .. Len(more)
      BY <3>1, <3>2, <3>3, <1>2
    <3>5. more[x + 1] = blk.steps[s + 1]
      BY <3>2 DEF Copies
    <3>6. text'[Len(text) + (x + 1)] = more[x + 1]
      BY <1>1, <1>2, <3>4 DEF Appended
    <3>7. Len(text) + Len(blk.steps) * r + s + 1 = Len(text) + (x + 1)
      BY <1>1, <2>4, <3>1, <3>2
    <3> QED BY <3>5, <3>6, <3>7
  <2>6. BlockLen(b)' > 0
    BY <2>2 DEF Copies
  <2>7. BlockEnd(b)' = IF b = Len(blocks') THEN Len(text') ELSE starts'[b + 1]
    BY <1>3, <1>5, <2>2
  <2>8. BlockIsText(b)'
    BY <2>1, <2>2, <2>5, <2>6, <2>7 DEF BlockIsText
  <2> QED BY <2>2, <2>3, <2>8 DEF Laid
<1> QED BY <1>1, <1>3, <1>4, <1>5

LEMMA LoadInvInit ==
  ASSUME Init PROVE LoadInv
<1>1. Len(text) = 0 /\ Len(blocks) = 0
  BY DEF Init
<1> QED BY <1>1 DEF Init, LoadInv

(* A step sequence appended to the text makes it no shorter.               *)
LEMMA TextGrows ==
  ASSUME TypeOK, NEW more, NEW blk, Copies(more, blk), Appended(more, blk)
  PROVE  /\ Len(text') = Len(text) + Len(blk.steps) * blk.repeat
         /\ Len(blk.steps) * blk.repeat \in Nat
         /\ Len(text) \in Nat
         /\ blk.repeat > 0 => /\ Len(blk.steps) * blk.repeat >= blk.repeat
                              /\ Len(blk.steps) * blk.repeat > 0
<1>1. blk.steps \in Seq(Steps) /\ Len(blk.steps) \in Nat /\ blk.repeat \in Nat /\ Len(blk.steps) > 0
  BY WordAssumption DEF Copies, BlockType
<1>2. more \in Seq(Steps) /\ text \in Seq(Steps) /\ Len(more) = Len(blk.steps) * blk.repeat
  BY DEF Copies, TypeOK
<1>3. PICK d \in Nat : Len(blk.steps) = 1 + d
  <2>1. Len(blk.steps) - 1 \in Nat /\ Len(blk.steps) = 1 + (Len(blk.steps) - 1)
    BY <1>1
  <2> QED BY <2>1
<1>4. Len(blk.steps) * blk.repeat = blk.repeat + d * blk.repeat /\ d * blk.repeat \in Nat
  <2>1. \A c \in Nat : (1 + d) * c = c + d * c /\ d * c \in Nat
    OBVIOUS
  <2> QED BY <1>1, <1>3, <2>1
<1>5. Len(text') = Len(text) + Len(more) /\ Len(text) \in Nat
  BY <1>2, Concatenated DEF Appended
<1>6. PICK k \in Nat : k = d * blk.repeat
  BY <1>4
<1>7. Len(blk.steps) * blk.repeat = blk.repeat + k
  BY <1>4, <1>6
<1>8. blk.repeat + k \in Nat /\ (blk.repeat > 0 => blk.repeat + k >= blk.repeat /\ blk.repeat + k > 0)
  BY <1>1
<1> QED BY <1>2, <1>5, <1>7, <1>8

(* A block appended with its repetitions.                                  *)
LEMMA LoadInvAppends ==
  ASSUME TypeOK, LoadInv, stage = "load", UNCHANGED <<script, stage>>,
         NEW more, NEW blk, blk \in BlockType,
         Kept' => Copies(more, blk),
         Appended(more, blk), more \in Seq(Steps), more # <<>>,
         Len(text') < Word => steps' = Narrow(steps + Len(blk.steps) * blk.repeat),
         ~open'
  PROVE  LoadInv'
<1>1. /\ blocks \in Seq(BlockType) /\ starts \in Seq(Nat) /\ text \in Seq(Steps)
      /\ Len(blocks) \in Nat /\ Len(text) \in Nat /\ Len(starts) = Len(blocks)
  BY DEF TypeOK, LoadInv, BlockType
<1>2. Len(starts') = Len(blocks') /\ blocks' # <<>> /\ text' # <<>>
  <2>1. Len(starts') = Len(starts) + 1 /\ Len(blocks') = Len(blocks) + 1
    BY <1>1 DEF Appended
  <2>2. Len(text') = Len(text) + Len(more) /\ Len(more) \in Nat
    BY <1>1, Concatenated DEF Appended
  <2>3. Len(more) > 0
    OBVIOUS
  <2>4. Len(text') > 0 /\ Len(blocks') > 0
    BY <1>1, <2>1, <2>2, <2>3
  <2>5. Len(starts') = Len(blocks')
    BY <1>1, <2>1
  <2> QED BY <2>4, <2>5
<1>3. Kept' => Kept
  <2>1. Len(text') = Len(text) + Len(more) /\ Len(more) \in Nat
    BY <1>1, Concatenated DEF Appended
  <2>2. CountsFit' = CountsFit
    BY DEF CountsFit
  <2> QED BY <1>1, <2>1, <2>2, WordAssumption DEF Kept
<1>4. Kept' => \A b \in 1 .. Len(blocks') : Laid(b)'
  <2>1. SUFFICES ASSUME Kept' PROVE \A b \in 1 .. Len(blocks') : Laid(b)'
    OBVIOUS
  <2> QED BY <1>3, <2>1, LaidStays
<1>5. Kept' => starts'[1] = 0
  <2>1. CASE blocks = <<>>
    <3>1. text = <<>> /\ Len(text) = 0 /\ Len(starts) = 0
      BY <1>1, <2>1 DEF LoadInv
    <3> QED BY <1>1, <3>1 DEF Appended
  <2>2. CASE blocks # <<>>
    <3>1. 1 \in 1 .. Len(starts)
      BY <1>1, <2>2
    <3>2. starts'[1] = starts[1]
      BY <1>1, <3>1 DEF Appended
    <3> QED BY <1>3, <2>2, <3>2 DEF LoadInv
  <2> QED BY <2>1, <2>2
<1>6. Len(text') < Word => steps' = Len(text')
  <2>1. SUFFICES ASSUME Len(text') < Word PROVE steps' = Len(text')
    OBVIOUS
  <2>2. Copies(more, blk)
    BY <2>1 DEF Kept
  <2>3. Len(text') = Len(text) + Len(blk.steps) * blk.repeat /\ Len(blk.steps) * blk.repeat \in Nat
    BY <2>2, TextGrows
  <2>4. PICK k \in Nat : k = Len(blk.steps) * blk.repeat
    BY <2>3
  <2>5. Len(text) < Word /\ steps = Len(text)
    <3>1. Len(text) + k < Word
      BY <2>1, <2>3, <2>4
    <3>2. Len(text) < Word
      BY <1>1, <3>1, WordAssumption
    <3> QED BY <3>2 DEF LoadInv
  <2>6. steps + k \in Nat /\ steps + k < Word /\ steps + k = Len(text')
    BY <1>1, <2>1, <2>3, <2>4, <2>5
  <2> QED BY <2>1, <2>4, <2>6, NarrowSmall
<1> QED BY <1>2, <1>4, <1>5, <1>6 DEF LoadInv

LEMMA LoadInvStep ==
  ASSUME TypeOK, LoadInv, [Next]_vars
  PROVE  LoadInv'
<1>1. ASSUME UNCHANGED <<script, open, block, blocks, steps, text, spelled, starts>>,
             stage' \in {"build", "built"} => Complete
      PROVE  LoadInv'
  BY <1>1 DEF LoadInv, Kept, CountsFit, Laid, BlockIsText, BlockEnd, BlockLen, Complete
<1> USE DEF loadVars, buildVars, history
<1>2. CASE SkipLine
  BY <1>1, <1>2 DEF SkipLine, Consume, More
<1>3. CASE OpenBlock
  <2>1. UNCHANGED <<script, blocks, steps, text, starts, stage>> /\ stage = "load"
    BY <1>3 DEF OpenBlock, Consume, More
  <2>2. spelled' > 0 /\ block'.repeat = Narrow(spelled')
    <3>1. Line.count \in Nat \ {0}
      BY <1>3, LineType DEF OpenBlock, Lines
    <3> QED BY <1>3, <3>1 DEF OpenBlock
  <2>3. CountsFit => spelled' < Word
    <3>1. pos + 1 \in DOMAIN script
      <4>1. script \in Seq(Lines)
        BY ScriptsAssumption DEF TypeOK
      <4> QED BY <1>3, <4>1 DEF OpenBlock, More, TypeOK
    <3> QED BY <1>3, <3>1 DEF OpenBlock, CountsFit, Line
  <2> QED BY <2>1, <2>2, <2>3
      DEF LoadInv, Kept, CountsFit, Laid, BlockIsText, BlockEnd, BlockLen, Complete
<1>4. CASE CloseBlock
  <2> DEFINE more == Repeated(block.steps, spelled)
  <2>1. UNCHANGED <<script, stage>> /\ stage = "load" /\ open /\ ~open'
    BY <1>4 DEF CloseBlock, Consume, More
  <2>2. block \in BlockType /\ Len(block.steps) > 0 /\ spelled \in Nat /\ spelled > 0
        /\ block.repeat = Narrow(spelled) /\ block.steps \in Seq(Steps)
    BY <1>4, <2>1 DEF CloseBlock, BlockType, TypeOK, LoadInv
  <2>3. Appended(more, block)
    BY <1>4 DEF CloseBlock, Appended
  <2>4. more \in Seq(Steps) /\ Len(more) = Len(block.steps) * spelled
    BY <2>2, RepeatedType
  <2>5. Len(more) >= spelled /\ Len(more) \in Nat
    <3>1. PICK d \in Nat : Len(block.steps) = 1 + d
      <4>1. Len(block.steps) - 1 \in Nat /\ Len(block.steps) = 1 + (Len(block.steps) - 1)
        BY <2>2
      <4> QED BY <4>1
    <3>2. Len(block.steps) * spelled = spelled + d * spelled /\ d * spelled \in Nat
      BY <2>2, <3>1
    <3> HIDE DEF more
    <3> QED BY <2>2, <2>4, <3>2
  <2>6. Kept' => Copies(more, block)
    <3>1. SUFFICES ASSUME Kept' PROVE Copies(more, block)
      OBVIOUS
    <3>2. spelled < Word
      <4>1. CASE CountsFit
        BY <2>1, <4>1 DEF LoadInv
      <4>2. CASE ~CountsFit
        <5>1. Len(text') < Word
          BY <2>1, <3>1, <4>2 DEF Kept, CountsFit
        <5>2. Len(text') = Len(text) + Len(more) /\ Len(text) \in Nat
          <6>1. text \in Seq(Steps) /\ more \in Seq(Steps)
            BY <2>4 DEF TypeOK
          <6> HIDE DEF more
          <6> QED BY <2>3, <6>1, Concatenated DEF Appended
        <5> HIDE DEF more
        <5> QED BY <2>2, <2>5, <5>1, <5>2, WordAssumption
      <4> QED BY <4>1, <4>2
    <3>3. block.repeat = spelled
      BY <2>2, <3>2, NarrowSmall
    <3> QED BY <2>2, <3>3, RepeatedCopies
  <2>7. steps' = Narrow(steps + Len(block.steps) * block.repeat)
    BY <1>4 DEF CloseBlock
  <2>8. more # <<>>
    <3>1. Len(more) > 0
      <4> HIDE DEF more
      <4> QED BY <2>2, <2>5
    <3> HIDE DEF more
    <3> QED BY <3>1
  <2> HIDE DEF more
  <2> QED BY <2>1, <2>2, <2>3, <2>4, <2>6, <2>7, <2>8, LoadInvAppends
<1>5. CASE AddStepToBlock
  BY <1>5 DEF AddStepToBlock, Consume, More,
    LoadInv, Kept, CountsFit, Laid, BlockIsText, BlockEnd, BlockLen, Complete, TypeOK
<1>6. CASE AddSingleStep
  <2> DEFINE step == StepOf(Line.tokens)
             blk == [steps |-> <<step>>, repeat |-> 1]
  <2>1. UNCHANGED <<script, stage>> /\ stage = "load" /\ ~open'
    BY <1>6 DEF AddSingleStep, Consume, More
  <2>2. step \in Steps
    BY <1>6, LineType, StepOfType DEF AddSingleStep, Lines
  <2>3. /\ blocks' = Append(blocks, blk) /\ text' = Append(text, step)
        /\ starts' = Append(starts, Len(text)) /\ steps' = Narrow(steps + 1)
    BY <1>6 DEF AddSingleStep
  <2> HIDE DEF step
  <2>4. <<step>> \in Seq(Steps) /\ Len(<<step>>) = 1 /\ <<step>> # <<>> /\ <<step>>[1] = step
    BY <2>2
  <2>5. blk.steps = <<step>> /\ blk.repeat = 1 /\ blk \in BlockType
    BY <2>4, WordAssumption DEF BlockType
  <2>6. text' = text \o <<step>>
    <3>1. text \in Seq(Steps)
      BY DEF TypeOK
    <3> QED BY <2>2, <2>3, <3>1, AppendedOne
  <2>7. Appended(<<step>>, blk)
    BY <2>3, <2>6 DEF Appended
  <2>8. Copies(<<step>>, blk)
    <3>1. \A r \in 0 .. 0, s \in 0 .. 0 : (1 * r + s) + 1 = 1 /\ s + 1 = 1
      OBVIOUS
    <3> HIDE DEF blk
    <3> QED BY <2>4, <2>5, <3>1 DEF Copies
  <2>9. steps' = Narrow(steps + Len(blk.steps) * blk.repeat)
    BY <2>3, <2>4, <2>5
  <2> DEFINE more == <<step>>
  <2>10. more \in Seq(Steps) /\ more # <<>> /\ Copies(more, blk) /\ Appended(more, blk)
    BY <2>4, <2>7, <2>8
  <2> HIDE DEF blk, more
  <2> QED BY <2>1, <2>5, <2>9, <2>10, LoadInvAppends
<1>7. CASE EndOfFile
  BY <1>1, <1>7 DEF EndOfFile
<1>8. CASE RefuseLine
  BY <1>1, <1>8 DEF RefuseLine
<1>9. CASE Build
  <2>1. stage = "build" /\ UNCHANGED loadVars
    BY <1>9 DEF Build, BuildStep, BuildFails, NextRepeat, NextBlock, BuildEnds,
      InSteps, InRepeats, InBlocks, Building
  <2> QED BY <1>1, <2>1 DEF LoadInv
<1>10. CASE UNCHANGED vars
  BY <1>1, <1>10 DEF vars, LoadInv
<1> QED BY <1>2, <1>3, <1>4, <1>5, <1>6, <1>7, <1>8, <1>9, <1>10 DEF Next, Load, Done

(* What the runtime relies on once load_patch_script returned 0.           *)
THEOREM LoadsFaithfully == Spec => []LoadedFaithfully
<1>1. TypeOK /\ LoadInv => LoadedFaithfully
  <2> SUFFICES ASSUME TypeOK, LoadInv, stage \in {"build", "built"}
               PROVE  /\ ~open
                      /\ blocks # <<>>
                      /\ Len(text) < Word => /\ steps = Len(text)
                                             /\ starts[1] = 0
                                             /\ \A b \in 1 .. Len(blocks) : BlockIsText(b)
    BY DEF LoadedFaithfully
  <2> QED BY DEF LoadInv, Complete, Kept, Laid
<1>2. Init => LoadInv
  BY LoadInvInit
<1>3. TypeOK /\ LoadInv /\ [Next]_vars => LoadInv'
  BY LoadInvStep
<1> QED BY <1>1, <1>2, <1>3, TypeCorrect, PTL DEF Spec

----------------------------------------------------------------------------
(* The schedule.                                                           *)

(* Where the slice of the i-th step built so far ends.                     *)
SliceEnd(i) == IF i < Len(offsets) THEN offsets[i + 1] ELSE Len(records)

SliceIsStep(i) ==
  /\ offsets[i] <= SliceEnd(i)
  /\ SliceEnd(i) <= Len(records)
  /\ SubSeq(records, offsets[i] + 1, SliceEnd(i)) = text[i]

(* The three loop counters point to the step of the text that is built     *)
(* next.                                                                   *)
AtText ==
  IF BlockIdx <= Len(blocks)
    THEN /\ RepeatIdx \in 0 .. blocks[BlockIdx].repeat
         /\ StepIdx \in 0 .. BlockLen(BlockIdx)
         /\ RepeatIdx = blocks[BlockIdx].repeat => StepIdx = 0
         /\ Len(offsets) = starts[BlockIdx] + (BlockLen(BlockIdx) * RepeatIdx + StepIdx)
    ELSE /\ BlockIdx = Len(blocks) + 1
         /\ Len(offsets) = Len(text)

SlicesAreText ==
  /\ Len(offsets) <= Len(text)
  /\ \A i \in 1 .. Len(offsets) : SliceIsStep(i)

Scheduled ==
  /\ Len(offsets) = steps + 1
  /\ Kept => Len(text) < Word /\ \A i \in 1 .. Len(text) : Slice(i) = text[i]

BuildInv ==
  /\ stage = "load" => cursor = <<1, 0, 0>> /\ offsets = <<>> /\ records = <<>>
  /\ Kept /\ stage \in {"build", "failed"} => AtText /\ SlicesAreText
  /\ stage = "built" => Scheduled

LEMMA SlicePrefix ==
  ASSUME NEW X, NEW s \in Seq(X), NEW t \in Seq(X), NEW m \in Nat, NEW n \in Nat, n <= Len(s)
  PROVE  SubSeq(s \o t, m + 1, n) = SubSeq(s, m + 1, n)
<1>1. s \o t \in Seq(X) /\ Len(s \o t) = Len(s) + Len(t) /\ Len(s) \in Nat /\ Len(t) \in Nat
  OBVIOUS
<1>2. \A i \in 1 .. Len(s) : (s \o t)[i] = s[i]
  OBVIOUS
<1> DEFINE u == s \o t
<1>3. SubSeq(u, m + 1, n) = [i \in 1 .. n - m |-> u[(m + i)]]
  <2> HIDE DEF u
  <2> QED OBVIOUS
<1>4. SubSeq(s, m + 1, n) = [i \in 1 .. n - m |-> s[(m + i)]]
  OBVIOUS
<1>5. \A i \in 1 .. n - m : u[m + i] = s[m + i]
  <2> TAKE i \in 1 .. n - m
  <2>1. m + i \in 1 .. Len(s)
    BY <1>1
  <2> QED BY <1>2, <2>1
<1> HIDE DEF u
<1> QED BY <1>3, <1>4, <1>5 DEF u

LEMMA SliceAppended ==
  ASSUME NEW X, NEW s \in Seq(X), NEW t \in Seq(X)
  PROVE  SubSeq(s \o t, Len(s) + 1, Len(s \o t)) = t
  OBVIOUS

LEMMA AtTextStart ==
  ASSUME TypeOK, LoadInv, BuildInv, stage = "load", Kept
  PROVE  AtText /\ SlicesAreText
<1>1. BlockIdx = 1 /\ RepeatIdx = 0 /\ StepIdx = 0 /\ Len(offsets) = 0 /\ Len(text) \in Nat
  BY DEF BuildInv, BlockIdx, RepeatIdx, StepIdx, TypeOK
<1>2. Len(blocks) \in Nat
  BY DEF TypeOK
<1>3. CASE blocks = <<>>
  <2>1. Len(blocks) = 0 /\ Len(text) = 0
    BY <1>3 DEF LoadInv
  <2> QED BY <1>1, <2>1 DEF AtText, SlicesAreText
<1>4. CASE blocks # <<>>
  <2>1. 1 \in 1 .. Len(blocks) /\ starts[1] = 0 /\ Len(starts) = Len(blocks)
    BY <1>2, <1>4 DEF LoadInv, TypeOK
  <2>2. BlockLen(1) \in Nat /\ blocks[1].repeat \in Nat
    BY <2>1, BlockFacts
  <2>3. BlockLen(1) * 0 = 0
    BY <2>2
  <2> QED BY <1>1, <2>1, <2>2, <2>3 DEF AtText, SlicesAreText
<1> QED BY <1>3, <1>4

(* The step that is built next is the next one of the text.                *)
LEMMA NextStepOfText ==
  ASSUME TypeOK, LoadInv, Kept, AtText,
         BlockIdx <= Len(blocks), RepeatIdx < blocks[BlockIdx].repeat, StepIdx < BlockLen(BlockIdx)
  PROVE  /\ Len(offsets) \in 0 .. Len(text) - 1
         /\ text[Len(offsets) + 1] = NextStep
<1>1. BlockIdx \in 1 .. Len(blocks) /\ Len(starts) = Len(blocks) /\ Len(text) \in Nat
  <2>1. BlockIdx \in Nat \ {0}
    BY DEF TypeOK, BlockIdx
  <2>2. Len(blocks) \in Nat /\ Len(text) \in Nat
    <3>1. blocks \in Seq(BlockType) /\ text \in Seq(Steps)
      BY DEF TypeOK, BlockType
    <3> QED BY <3>1
  <2> QED BY <2>1, <2>2 DEF LoadInv
<1>2. /\ BlockLen(BlockIdx) \in Nat /\ blocks[BlockIdx].repeat \in Nat /\ starts[BlockIdx] \in Nat
      /\ BlockLen(BlockIdx) * blocks[BlockIdx].repeat \in Nat
  BY <1>1, BlockFacts
<1>3. /\ RepeatIdx \in 0 .. blocks[BlockIdx].repeat - 1
      /\ StepIdx \in 0 .. BlockLen(BlockIdx) - 1
      /\ Len(offsets) = starts[BlockIdx] + (BlockLen(BlockIdx) * RepeatIdx + StepIdx)
  BY <1>2 DEF AtText
<1>4. /\ BlockLen(BlockIdx) * RepeatIdx \in Nat
      /\ BlockLen(BlockIdx) * RepeatIdx + StepIdx
           \in 0 .. BlockLen(BlockIdx) * blocks[BlockIdx].repeat - 1
  BY <1>2, <1>3, PlaceInBlock
<1>5. Laid(BlockIdx)
  BY <1>1 DEF LoadInv
<1>6. starts[BlockIdx] + BlockLen(BlockIdx) * blocks[BlockIdx].repeat <= Len(text)
  BY <1>1, <1>2, <1>5 DEF Laid, BlockEnd
<1>7. PICK m \in Nat : m = BlockLen(BlockIdx) * blocks[BlockIdx].repeat
  BY <1>2
<1>8. PICK k \in Nat : k = BlockLen(BlockIdx) * RepeatIdx + StepIdx
  BY <1>3, <1>4
<1>9. Len(offsets) = starts[BlockIdx] + k /\ k <= m - 1 /\ starts[BlockIdx] + m <= Len(text)
  BY <1>2, <1>3, <1>4, <1>6, <1>7, <1>8
<1>10. Len(offsets) \in 0 .. Len(text) - 1
  BY <1>1, <1>2, <1>9
<1>11. text[starts[BlockIdx] + BlockLen(BlockIdx) * RepeatIdx + StepIdx + 1] = NextStep
  BY <1>3, <1>5 DEF Laid, BlockIsText, NextStep
<1>12. starts[BlockIdx] + BlockLen(BlockIdx) * RepeatIdx + StepIdx + 1 = Len(offsets) + 1
  <2>1. PICK l \in Nat : l = BlockLen(BlockIdx) * RepeatIdx
    BY <1>4
  <2>2. Len(offsets) = starts[BlockIdx] + (l + StepIdx) /\ StepIdx \in Nat
    BY <1>2, <1>3, <2>1
  <2>3. \A x, y, z \in Nat : z = x + (l + y) => x + l + y + 1 = z + 1
    BY <2>1
  <2>5. Len(offsets) \in Nat /\ starts[BlockIdx] \in Nat
    BY <1>2, <1>10
  <2>4. starts[BlockIdx] + l + StepIdx + 1 = Len(offsets) + 1
    BY <2>2, <2>3, <2>5
  <2> QED BY <2>1, <2>4
<1> QED BY <1>10, <1>11, <1>12

LEMMA BuiltTypes ==
  ASSUME TypeOK
  PROVE  /\ offsets \in Seq(Nat) /\ records \in Seq(Patches) /\ text \in Seq(Steps)
         /\ Len(offsets) \in Nat /\ Len(records) \in Nat /\ Len(text) \in Nat
<1>1. offsets \in Seq(Nat) /\ records \in Seq(Patches) /\ text \in Seq(Steps)
  BY DEF TypeOK
<1> QED BY <1>1

(* One more step built: its slice is the step, and no earlier one changes. *)
LEMMA SlicesGrow ==
  ASSUME TypeOK, SlicesAreText, NEW next \in Seq(Patches),
         Len(offsets) \in 0 .. Len(text) - 1, text[Len(offsets) + 1] = next,
         offsets' = Append(offsets, Len(records)), records' = records \o next, text' = text
  PROVE  SlicesAreText'
<1>1. /\ offsets \in Seq(Nat) /\ records \in Seq(Patches) /\ Len(text) \in Nat
      /\ Len(offsets) \in Nat /\ Len(records) \in Nat
  BY BuiltTypes
<1>2. /\ Len(offsets') = Len(offsets) + 1
      /\ \A i \in 1 .. Len(offsets) : offsets'[i] = offsets[i] /\ offsets[i] \in Nat
      /\ offsets'[Len(offsets) + 1] = Len(records)
  BY <1>1
<1>3. /\ Len(records') = Len(records) + Len(next) /\ Len(next) \in Nat
  BY <1>1, Concatenated
<1>4. ASSUME NEW i \in 1 .. Len(offsets) PROVE SliceIsStep(i)'
  <2>1. SliceIsStep(i)
    BY DEF SlicesAreText
  <2>2. SliceEnd(i)' = SliceEnd(i)
    <3>1. CASE i < Len(offsets)
      <4>1. i + 1 \in 1 .. Len(offsets) /\ i < Len(offsets')
        BY <1>1, <1>2, <3>1
      <4> QED BY <1>2, <3>1, <4>1 DEF SliceEnd
    <3>2. CASE i = Len(offsets)
      BY <1>1, <1>2, <3>2 DEF SliceEnd
    <3> QED BY <1>1, <3>1, <3>2
  <2>3. offsets'[i] = offsets[i] /\ offsets[i] \in Nat
    BY <1>2
  <2>4. SliceEnd(i) \in Nat
    <3>1. CASE i < Len(offsets)
      <4>1. i + 1 \in 1 .. Len(offsets)
        BY <1>1, <3>1
      <4> QED BY <1>2, <3>1, <4>1 DEF SliceEnd
    <3>2. CASE ~(i < Len(offsets))
      BY <1>1, <3>2 DEF SliceEnd
    <3> QED BY <3>1, <3>2
  <2>5. SubSeq(records', offsets[i] + 1, SliceEnd(i)) = SubSeq(records, offsets[i] + 1, SliceEnd(i))
    <3>1. PICK m \in Nat : m = offsets[i]
      BY <2>3
    <3>2. PICK n \in Nat : n = SliceEnd(i)
      BY <2>4
    <3>3. n <= Len(records)
      BY <2>1, <3>2 DEF SliceIsStep
    <3>4. SubSeq(records \o next, m + 1, n) = SubSeq(records, m + 1, n)
      BY <1>1, <3>3, SlicePrefix
    <3> QED BY <3>1, <3>2, <3>4
  <2>6. SliceEnd(i) <= Len(records')
    BY <1>1, <1>3, <2>1, <2>4 DEF SliceIsStep
  <2> QED BY <2>1, <2>2, <2>3, <2>5, <2>6 DEF SliceIsStep
<1>5. ASSUME NEW i, i = Len(offsets) + 1 PROVE SliceIsStep(i)'
  <2>1. SliceEnd(i)' = Len(records') /\ offsets'[i] = Len(records)
    BY <1>1, <1>2, <1>5 DEF SliceEnd
  <2>2. SubSeq(records', Len(records) + 1, Len(records')) = next
    BY <1>1, SliceAppended
  <2>3. Len(records) <= Len(records') /\ Len(records') <= Len(records')
    BY <1>1, <1>3
  <2> QED BY <1>5, <2>1, <2>2, <2>3 DEF SliceIsStep
<1>6. \A i \in 1 .. Len(offsets') : i \in 1 .. Len(offsets) \/ i = Len(offsets) + 1
  BY <1>1, <1>2
<1>7. \A i \in 1 .. Len(offsets') : SliceIsStep(i)'
  BY <1>4, <1>5, <1>6
<1>8. Len(offsets') <= Len(text')
  BY <1>1, <1>2
<1> QED BY <1>7, <1>8 DEF SlicesAreText

LEMMA BuildInvStep ==
  ASSUME TypeOK, LoadInv, BuildInv, [Next]_vars
  PROVE  BuildInv'
<1> USE DEF loadVars, buildVars, history
<1>1. ASSUME UNCHANGED loadVars PROVE Kept' = Kept
  BY <1>1 DEF Kept, CountsFit
<1>2. ASSUME stage = "load", stage' = "load", UNCHANGED buildVars PROVE BuildInv'
  BY <1>2 DEF BuildInv
<1>3. ASSUME stage \in {"load", "build"}, stage' \in {"build", "failed"},
             UNCHANGED <<loadVars, buildVars>>
      PROVE  BuildInv'
  <2>1. Kept => AtText /\ SlicesAreText
    BY <1>3, AtTextStart DEF BuildInv
  <2>2. AtText' = AtText /\ SlicesAreText' = SlicesAreText
    BY <1>3 DEF AtText, SlicesAreText, SliceIsStep, SliceEnd, BlockIdx, RepeatIdx, StepIdx, BlockLen
  <2> QED BY <1>1, <1>3, <2>1, <2>2 DEF BuildInv
<1>4. ASSUME stage = "build", UNCHANGED <<loadVars, stage>>, Kept => AtText' /\ SlicesAreText'
      PROVE  BuildInv'
  BY <1>1, <1>4 DEF BuildInv
<1>5. CASE SkipLine
  BY <1>2, <1>5 DEF SkipLine, Consume, More
<1>6. CASE OpenBlock
  BY <1>2, <1>6 DEF OpenBlock, Consume, More
<1>7. CASE CloseBlock
  BY <1>2, <1>7 DEF CloseBlock, Consume, More
<1>8. CASE AddStepToBlock
  BY <1>2, <1>8 DEF AddStepToBlock, Consume, More
<1>9. CASE AddSingleStep
  BY <1>2, <1>9 DEF AddSingleStep, Consume, More
<1>10. CASE RefuseLine
  BY <1>3, <1>10 DEF RefuseLine, More
<1>11. CASE EndOfFile
  BY <1>3, <1>11 DEF EndOfFile
<1>12. CASE BuildFails
  BY <1>3, <1>12 DEF BuildFails, InSteps, InRepeats, InBlocks, Building
<1>13. CASE BuildStep
  <2>1. stage = "build" /\ UNCHANGED <<loadVars, stage>> /\ InSteps
    BY <1>13 DEF BuildStep, InSteps, InRepeats, InBlocks, Building
  <2>2. SUFFICES ASSUME Kept PROVE AtText' /\ SlicesAreText'
    BY <1>4, <2>1
  <2>3. AtText /\ SlicesAreText
    BY <2>1, <2>2 DEF BuildInv
  <2>4. BlockIdx <= Len(blocks) /\ RepeatIdx < blocks[BlockIdx].repeat /\ StepIdx < BlockLen(BlockIdx)
    BY <2>1 DEF InSteps, InRepeats, InBlocks, BlockLen
  <2>5. Len(offsets) \in 0 .. Len(text) - 1 /\ text[Len(offsets) + 1] = NextStep
    BY <2>2, <2>3, <2>4, NextStepOfText
  <2>6. NextStep \in Seq(Patches)
    BY <2>1, NextStepType DEF Steps
  <2>7. SlicesAreText'
    BY <1>13, <2>1, <2>3, <2>5, <2>6, SlicesGrow DEF BuildStep, StepOffset
  <2>8. BlockIdx' = BlockIdx /\ RepeatIdx' = RepeatIdx /\ StepIdx' = StepIdx + 1
        /\ Len(offsets') = Len(offsets) + 1
    BY <1>13 DEF BuildStep, BlockIdx, RepeatIdx, StepIdx, TypeOK
  <2>9. BlockIdx \in 1 .. Len(blocks) /\ StepIdx \in Nat /\ RepeatIdx \in Nat
    <3>1. BlockIdx \in Nat \ {0} /\ StepIdx \in Nat /\ RepeatIdx \in Nat
      BY DEF TypeOK, BlockIdx, StepIdx, RepeatIdx
    <3>2. Len(blocks) \in Nat
      BY DEF TypeOK
    <3> QED BY <2>4, <3>1, <3>2
  <2>10. /\ BlockLen(BlockIdx) \in Nat /\ blocks[BlockIdx].repeat \in Nat /\ starts[BlockIdx] \in Nat
    BY <2>9, BlockFacts DEF LoadInv
  <2>11. AtText'
    <3>1. UNCHANGED <<blocks, starts>> /\ BlockLen(BlockIdx)' = BlockLen(BlockIdx)
      BY <2>1, <2>8 DEF BlockLen
    <3>2. /\ RepeatIdx' \in 0 .. blocks[BlockIdx].repeat
          /\ StepIdx' \in 0 .. BlockLen(BlockIdx)
          /\ RepeatIdx' # blocks[BlockIdx].repeat
      BY <2>4, <2>8, <2>9, <2>10
    <3>3. PICK k \in Nat : k = BlockLen(BlockIdx) * RepeatIdx
      BY <2>9, <2>10
    <3>4. Len(offsets) = starts[BlockIdx] + (k + StepIdx)
      BY <2>3, <2>4, <3>3 DEF AtText
    <3>5. \A x, y \in Nat : (x + (k + y)) + 1 = x + (k + (y + 1))
      BY <3>3
    <3>6. Len(offsets') = starts[BlockIdx] + (k + StepIdx')
      BY <2>8, <2>9, <2>10, <3>4, <3>5
    <3> QED BY <2>4, <2>8, <3>1, <3>2, <3>3, <3>6 DEF AtText
  <2> QED BY <2>7, <2>11
<1>14. CASE NextRepeat
  <2>1. stage = "build" /\ UNCHANGED <<loadVars, stage, offsets, records>> /\ InRepeats /\ ~InSteps
    BY <1>14 DEF NextRepeat, InSteps, InRepeats, InBlocks, Building
  <2>2. SUFFICES ASSUME Kept PROVE AtText' /\ SlicesAreText'
    BY <1>4, <2>1
  <2>3. AtText /\ SlicesAreText
    BY <2>1, <2>2 DEF BuildInv
  <2>4. BlockIdx \in 1 .. Len(blocks) /\ StepIdx \in Nat /\ RepeatIdx \in Nat
    <3>1. BlockIdx \in Nat \ {0} /\ StepIdx \in Nat /\ RepeatIdx \in Nat
      BY DEF TypeOK, BlockIdx, StepIdx, RepeatIdx
    <3>2. Len(blocks) \in Nat
      BY DEF TypeOK
    <3> QED BY <2>1, <3>1, <3>2 DEF InRepeats, InBlocks
  <2>5. BlockLen(BlockIdx) \in Nat /\ blocks[BlockIdx].repeat \in Nat /\ starts[BlockIdx] \in Nat
    BY <2>4, BlockFacts DEF LoadInv
  <2>6. /\ BlockIdx <= Len(blocks) /\ RepeatIdx < blocks[BlockIdx].repeat
        /\ ~(StepIdx < BlockLen(BlockIdx))
    BY <2>1 DEF InSteps, InRepeats, InBlocks, BlockLen
  <2>7. StepIdx = BlockLen(BlockIdx)
    BY <2>3, <2>4, <2>5, <2>6 DEF AtText
  <2>8. BlockIdx' = BlockIdx /\ RepeatIdx' = RepeatIdx + 1 /\ StepIdx' = 0
    BY <1>14 DEF NextRepeat, BlockIdx, RepeatIdx, StepIdx
  <2>9. AtText'
    <3>1. BlockLen(BlockIdx)' = BlockLen(BlockIdx)
      BY <2>1, <2>8 DEF BlockLen
    <3>2. RepeatIdx' \in 0 .. blocks[BlockIdx].repeat /\ StepIdx' \in 0 .. BlockLen(BlockIdx)
      BY <2>4, <2>5, <2>6, <2>8
    <3>3. BlockLen(BlockIdx) * RepeatIdx + BlockLen(BlockIdx) = BlockLen(BlockIdx) * (RepeatIdx + 1) + 0
      BY <2>4, <2>5
    <3>4. Len(offsets) = starts[BlockIdx] + (BlockLen(BlockIdx) * RepeatIdx + BlockLen(BlockIdx))
      BY <2>3, <2>6, <2>7 DEF AtText
    <3>5. Len(offsets') = starts[BlockIdx] + (BlockLen(BlockIdx) * RepeatIdx' + StepIdx')
      BY <2>1, <2>8, <3>3, <3>4
    <3> QED BY <2>1, <2>6, <2>8, <3>1, <3>2, <3>5 DEF AtText
  <2>10. SlicesAreText'
    BY <2>1, <2>3 DEF SlicesAreText, SliceIsStep, SliceEnd
  <2> QED BY <2>9, <2>10
<1>15. CASE NextBlock
  <2>1. stage = "build" /\ UNCHANGED <<loadVars, stage, offsets, records>> /\ InBlocks /\ ~InRepeats
    BY <1>15 DEF NextBlock, InRepeats, InBlocks, Building
  <2>2. SUFFICES ASSUME Kept PROVE AtText' /\ SlicesAreText'
    BY <1>4, <2>1
  <2>3. AtText /\ SlicesAreText
    BY <2>1, <2>2 DEF BuildInv
  <2>4. BlockIdx \in 1 .. Len(blocks) /\ RepeatIdx \in Nat /\ Len(blocks) \in Nat
    <3>1. BlockIdx \in Nat \ {0} /\ RepeatIdx \in Nat
      BY DEF TypeOK, BlockIdx, RepeatIdx
    <3>2. Len(blocks) \in Nat
      BY DEF TypeOK
    <3> QED BY <2>1, <3>1, <3>2 DEF InBlocks
  <2>5. BlockLen(BlockIdx) \in Nat /\ blocks[BlockIdx].repeat \in Nat /\ starts[BlockIdx] \in Nat
        /\ BlockLen(BlockIdx) * blocks[BlockIdx].repeat \in Nat
    BY <2>4, BlockFacts DEF LoadInv
  <2>6. BlockIdx <= Len(blocks) /\ ~(RepeatIdx < blocks[BlockIdx].repeat)
    BY <2>1 DEF InRepeats, InBlocks
  <2>7. RepeatIdx = blocks[BlockIdx].repeat /\ StepIdx = 0
    BY <2>3, <2>4, <2>5, <2>6 DEF AtText
  <2>8. Len(offsets) = BlockEnd(BlockIdx)
    BY <2>3, <2>5, <2>6, <2>7 DEF AtText, BlockEnd
  <2>9. BlockEnd(BlockIdx) = IF BlockIdx = Len(blocks) THEN Len(text) ELSE starts[BlockIdx + 1]
    BY <2>2, <2>4 DEF LoadInv, Laid, BlockIsText
  <2>10. BlockIdx' = BlockIdx + 1 /\ RepeatIdx' = 0 /\ StepIdx' = 0
    BY <1>15 DEF NextBlock, BlockIdx, RepeatIdx, StepIdx
  <2>11. AtText'
    <3>1. CASE BlockIdx = Len(blocks)
      BY <2>1, <2>4, <2>8, <2>9, <2>10, <3>1 DEF AtText
    <3>2. CASE BlockIdx # Len(blocks)
      <4>1. BlockIdx + 1 \in 1 .. Len(blocks)
        BY <2>4, <3>2
      <4>2. /\ BlockLen(BlockIdx + 1) \in Nat /\ blocks[BlockIdx + 1].repeat \in Nat
            /\ starts[BlockIdx + 1] \in Nat
        BY <4>1, BlockFacts DEF LoadInv
      <4>3. PICK b \in 1 .. Len(blocks) : b = BlockIdx + 1
        BY <4>1
      <4>4. BlockLen(b) * 0 + 0 = 0 /\ starts[b] + 0 = starts[b]
        BY <4>2, <4>3
      <4>5. BlockIdx' = b /\ Len(offsets) = starts[b] /\ BlockLen(b)' = BlockLen(b)
        BY <2>1, <2>8, <2>9, <2>10, <3>2, <4>3 DEF BlockLen
      <4>6. BlockLen(BlockIdx)' = BlockLen(b)
        BY <2>1, <4>5 DEF BlockLen
      <4>7. 0 \in 0 .. BlockLen(b) /\ 0 \in 0 .. blocks[b].repeat /\ b <= Len(blocks)
        BY <2>4, <4>2, <4>3
      <4> QED BY <2>1, <2>10, <4>4, <4>5, <4>6, <4>7 DEF AtText
    <3> QED BY <3>1, <3>2
  <2>12. SlicesAreText'
    BY <2>1, <2>3 DEF SlicesAreText, SliceIsStep, SliceEnd
  <2> QED BY <2>11, <2>12
<1>16. CASE BuildEnds
  <2>1. stage = "build" /\ UNCHANGED <<loadVars, cursor, records>> /\ ~(BlockIdx <= Len(blocks))
    BY <1>16 DEF BuildEnds, InBlocks, Building
  <2>2. CASE Len(offsets) # steps
    <3>1. stage' = "failed" /\ UNCHANGED offsets
      BY <1>16, <2>2 DEF BuildEnds
    <3> QED BY <1>3, <2>1, <3>1
  <2>3. CASE Len(offsets) = steps
    <3>1. stage' = "built" /\ offsets' = Append(offsets, Len(records))
      BY <1>16, <2>3 DEF BuildEnds
    <3>2. offsets \in Seq(Nat) /\ Len(offsets) \in Nat /\ Len(records) \in Nat /\ Len(text) \in Nat
          /\ steps < Word /\ steps \in Nat
      BY WordAssumption DEF TypeOK
    <3>3. /\ Len(offsets') = Len(offsets) + 1
          /\ \A i \in 1 .. Len(offsets) : offsets'[i] = offsets[i]
          /\ offsets'[Len(offsets) + 1] = Len(records)
      BY <3>1, <3>2
    <3>4. ASSUME Kept PROVE Len(text) < Word /\ \A i \in 1 .. Len(text) : Slice(i)' = text[i]
      <4>1. AtText /\ SlicesAreText
        BY <2>1, <3>4 DEF BuildInv
      <4>2. Len(text) = Len(offsets)
        BY <2>1, <4>1 DEF AtText
      <4>3. ASSUME NEW i \in 1 .. Len(text) PROVE Slice(i)' = text[i]
        <5>1. SliceIsStep(i)
          BY <4>1, <4>2 DEF SlicesAreText
        <5>2. offsets'[i] = offsets[i] /\ offsets'[i + 1] = SliceEnd(i)
          <6>1. CASE i < Len(offsets)
            <7>1. i + 1 \in 1 .. Len(offsets)
              BY <3>2, <6>1
            <7> QED BY <3>3, <4>2, <6>1, <7>1 DEF SliceEnd
          <6>2. CASE i = Len(offsets)
            BY <3>2, <3>3, <4>2, <6>2 DEF SliceEnd
          <6> QED BY <3>2, <4>2, <6>1, <6>2
        <5> QED BY <2>1, <5>1, <5>2 DEF Slice, SliceIsStep
      <4> QED BY <2>3, <3>2, <4>2, <4>3
    <3>5. Scheduled'
      BY <1>1, <2>1, <2>3, <3>3, <3>4 DEF Scheduled
    <3> QED BY <3>1, <3>5 DEF BuildInv
  <2> QED BY <2>2, <2>3
<1>17. CASE UNCHANGED vars
  BY <1>17 DEF vars, BuildInv, Kept, CountsFit, AtText, SlicesAreText, SliceIsStep, SliceEnd,
    Scheduled, Slice, BlockIdx, RepeatIdx, StepIdx, BlockLen
<1> QED
  BY <1>5, <1>6, <1>7, <1>8, <1>9, <1>10, <1>11, <1>12, <1>13, <1>14, <1>15, <1>16, <1>17
  DEF Next, Load, Build, Done

ScriptInv == TypeOK /\ LoadInv /\ BuildInv

LEMMA ScriptInvariant == Spec => []ScriptInv
<1>1. Init => LoadInv /\ BuildInv
  <2> SUFFICES ASSUME Init PROVE LoadInv /\ BuildInv
    OBVIOUS
  <2>1. BuildInv
    BY DEF Init, BuildInv
  <2> QED BY <2>1, LoadInvInit
<1>2. TypeOK /\ LoadInv /\ BuildInv /\ [Next]_vars => LoadInv' /\ BuildInv'
  BY LoadInvStep, BuildInvStep
<1> QED BY <1>1, <1>2, TypeCorrect, PTL DEF Spec, ScriptInv

(* A finished schedule is the script.                                      *)
THEOREM SchedulesAreScripts == Spec => []ScheduleIsTheScript
<1>1. ScriptInv => ScheduleIsTheScript
  BY DEF ScriptInv, BuildInv, Scheduled, ScheduleIsTheScript, Kept
<1> QED BY <1>1, ScriptInvariant, PTL

----------------------------------------------------------------------------
(* The probe's reading, line by line.                                      *)

Readings ==
  [inRepeat : BOOLEAN, repeatCount : Nat, body : Seq(Steps), steps : Seq(Steps), failed : BOOLEAN]

ReadStep == [p \in Readings \X Lines |-> ReadLine(p[1], p[2])]

LEMMA NoDashAmongPatches == Dash \notin Patches /\ Junk \notin Patches
<1>1. \A p \in Patches : DOMAIN p = {"off", "val"}
  BY PatchesAssumption
<1>2. DOMAIN Dash = {"kind"} /\ DOMAIN Junk = {"kind"}
  BY DEF Dash, Junk
<1> QED BY <1>1, <1>2

LEMMA RepeatedSteps ==
  ASSUME NEW s \in Seq(Steps), NEW n \in Nat
  PROVE  Repeated(s, n) \in Seq(Steps)
<1>1. CASE Len(s) > 0
  BY <1>1, RepeatedType
<1>2. CASE ~(Len(s) > 0)
  <2>1. Len(s) * n = 0
    <3>1. Len(s) = 0
      BY <1>2
    <3>2. 0 * n = 0
      OBVIOUS
    <3> QED BY <3>1, <3>2
  <2>2. Repeated(s, n) = [i \in 1 .. 0 |-> s[((i - 1) % Len(s)) + 1]]
    BY <2>1 DEF Repeated
  <2>3. Repeated(s, n) \in [1 .. 0 -> Steps]
    BY <2>2
  <2> QED BY <2>3
<1> QED BY <1>1, <1>2

LEMMA LineFields ==
  ASSUME NEW line \in Lines
  PROVE  /\ line.kind \in {"blank", "end", "unreadable", "begin", "step"}
         /\ line.kind = "begin" => line.count \in Nat
         /\ line.kind = "step" => line.tokens \in Seq(Tokens) \ {<<>>}
  BY DEF Lines

(* A step the probe accepts denotes a sequence of patches.                 *)
LEMMA PatchType ==
  ASSUME NEW tokens \in Seq(Tokens) \ {<<>>},
         \A i \in DOMAIN Patch(tokens) : tokens[i] \in Patches
  PROVE  Patch(tokens) \in Steps
<1>1. CASE Head(tokens) = Dash
  BY <1>1 DEF Patch, Steps
<1>2. CASE Head(tokens) # Dash
  <2>1. Patch(tokens) = tokens
    BY <1>2 DEF Patch
  <2>2. \A i \in DOMAIN tokens : tokens[i] \in Patches
    BY <2>1
  <2> QED BY <2>1, <2>2 DEF Steps
<1> QED BY <1>1, <1>2

LEMMA ReadLineType ==
  ASSUME NEW r \in Readings, NEW line \in Lines
  PROVE  ReadLine(r, line) \in Readings
<1> USE LineFields
<1>1. CASE r.failed \/ Refuses(r, line)
  <2>1. ReadLine(r, line) = [r EXCEPT !.failed = TRUE]
    BY <1>1 DEF ReadLine
  <2>2. [r EXCEPT !.failed = TRUE] \in Readings
    BY DEF Readings
  <2> QED BY <2>1, <2>2
<1>2. CASE ~(r.failed \/ Refuses(r, line))
  <2>1. CASE line.kind \in {"blank", "unreadable"}
    BY <1>2, <2>1 DEF ReadLine
  <2>2. CASE line.kind = "begin"
    <3>1. ReadLine(r, line) = [r EXCEPT !.inRepeat = TRUE, !.repeatCount = line.count, !.body = <<>>]
      BY <1>2, <2>2 DEF ReadLine
    <3>2. line.count \in Nat /\ <<>> \in Seq(Steps)
      BY <2>2
    <3> QED BY <3>1, <3>2 DEF Readings
  <2>3. CASE line.kind = "end"
    <3>1. ReadLine(r, line) = [r EXCEPT !.inRepeat = FALSE, !.repeatCount = 0, !.body = <<>>,
                                        !.steps = Unrolled(r)]
      BY <1>2, <2>3 DEF ReadLine
    <3>2. Unrolled(r) \in Seq(Steps) /\ <<>> \in Seq(Steps)
      <4>1. r.steps \in Seq(Steps) /\ r.body \in Seq(Steps) /\ r.repeatCount \in Nat
        BY DEF Readings
      <4>2. Repeated(r.body, r.repeatCount) \in Seq(Steps)
        BY <4>1, RepeatedSteps
      <4> QED BY <4>1, <4>2, Concatenated DEF Unrolled
    <3>3. \A u \in Seq(Steps) :
            [r EXCEPT !.inRepeat = FALSE, !.repeatCount = 0, !.body = <<>>, !.steps = u] \in Readings
      BY <3>2 DEF Readings
    <3> QED BY <3>1, <3>2, <3>3
  <2>4. CASE line.kind = "step"
    <3>1. ReadLine(r, line) = IF r.inRepeat THEN [r EXCEPT !.body = Append(@, Patch(line.tokens))]
                                            ELSE [r EXCEPT !.steps = Append(@, Patch(line.tokens))]
      BY <1>2, <2>4 DEF ReadLine
    <3>2. Patch(line.tokens) \in Steps
      BY <1>2, <2>4, PatchType DEF Refuses
    <3>3. Append(r.body, Patch(line.tokens)) \in Seq(Steps)
          /\ Append(r.steps, Patch(line.tokens)) \in Seq(Steps)
      BY <3>2 DEF Readings
    <3> QED BY <3>1, <3>3 DEF Readings
  <2> QED BY <2>1, <2>2, <2>3, <2>4
<1> QED BY <1>1, <1>2

LEMMA ReadStepType == ReadStep \in StepFunctions(Readings, Lines) /\ Start \in Readings
<1>1. Start \in Readings
  <2>1. <<>> \in Seq(Steps)
    OBVIOUS
  <2> QED BY <2>1 DEF Start, Readings
<1>2. \A p \in Readings \X Lines : ReadLine(p[1], p[2]) \in Readings
  BY ReadLineType
<1> QED BY <1>1, <1>2 DEF ReadStep, StepFunctions

LEMMA ReadIsFold ==
  ASSUME NEW s \in Seq(Lines)
  PROVE  FoldLeft(ReadLine, Start, s) = Fold(Readings, ReadStep, Start, s)
<1> DEFINE Values(i) ==
             [T \in SUBSET DOMAIN s |->
                IF T = {} THEN Start ELSE ReadLine(i[T \ {Max(T)}], s[Max(T)])]
           it == CHOOSE i : i = Values(i)
<1>1. FoldLeft(ReadLine, Start, s) = it[DOMAIN s]
  BY DEF FoldLeft, MapThenFoldSet
<1>2. PICK g \in SubsetFunctions(Readings, DOMAIN s) : ByGreatest(g, ReadStep, Start, s)
  BY ReadStepType, ChainExists
<1>3. \A T \in (SUBSET DOMAIN s) \ {{}} : Max(T) \in DOMAIN s /\ s[Max(T)] \in Lines
  <2>1. DOMAIN s = 1 .. Len(s) /\ Len(s) \in Nat
    OBVIOUS
  <2>2. \A T \in (SUBSET (1 .. Len(s))) \ {{}} : Max(T) \in T
    BY <2>1, MaxOfIndices
  <2> QED BY <2>1, <2>2
<1>4. g = Values(g)
  <2>1. g \in [SUBSET DOMAIN s -> Readings]
    BY DEF SubsetFunctions
  <2>2. ASSUME NEW T \in SUBSET DOMAIN s, T # {} PROVE g[T] = Values(g)[T]
    <3>1. g[T \ {Max(T)}] \in Readings
      BY <2>1
    <3>2. g[T] = ReadStep[<<g[T \ {Max(T)}], s[Max(T)]>>]
      BY <1>2, <2>2 DEF ByGreatest
    <3> QED BY <1>3, <2>2, <3>1, <3>2 DEF ReadStep
  <2>3. g[{}] = Values(g)[{}]
    BY <1>2 DEF ByGreatest
  <2> QED BY <2>1, <2>2, <2>3
<1>5. it = Values(it)
  <2> HIDE DEF Values
  <2> QED BY <1>4
<1>6. it[{}] = Start
  BY <1>5
<1>7. \A T \in (SUBSET DOMAIN s) \ {{}} :
        it[T \ {Max(T)}] \in Readings => it[T] = ReadStep[<<it[T \ {Max(T)}], s[Max(T)]>>]
  <2> TAKE T \in (SUBSET DOMAIN s) \ {{}}
  <2> HAVE it[T \ {Max(T)}] \in Readings
  <2>1. it[T] = Values(it)[T]
    BY <1>5
  <2> HIDE DEF it
  <2> QED BY <1>3, <2>1 DEF ReadStep
<1>8. FollowsIndices(it, Readings, ReadStep, Start, s)
  BY <1>6, <1>7 DEF FollowsIndices
<1> HIDE DEF it, Values
<1> QED BY <1>1, <1>8, ReadStepType, IterationIsFold

(* What the probe has after the first n lines.                             *)
Reader(n) == Fold(Readings, ReadStep, Start, SubSeq(script, 1, n))

LEMMA ReaderReads ==
  ASSUME script \in Seq(Lines)
  PROVE  /\ Reader(0) = Start
         /\ Reader(Len(script)) = Read
         /\ \A n \in 0 .. Len(script) - 1 : Reader(n + 1) = ReadLine(Reader(n), script[n + 1])
         /\ \A n \in 0 .. Len(script) : Reader(n) \in Readings
<1>1. Reader(0) = Start
  <2>1. SubSeq(script, 1, 0) = <<>>
    OBVIOUS
  <2> QED BY <2>1, ReadStepType, FoldEmpty DEF Reader
<1>2. Reader(Len(script)) = Read
  <2>1. SubSeq(script, 1, Len(script)) = script
    OBVIOUS
  <2> QED BY <2>1, ReadIsFold DEF Reader, Read
<1>3. ASSUME NEW n \in 0 .. Len(script) PROVE Reader(n) \in Readings
  <2>1. SubSeq(script, 1, n) \in Seq(Lines)
    OBVIOUS
  <2> QED BY <2>1, ReadStepType, FoldType DEF Reader
<1>4. ASSUME NEW n \in 0 .. Len(script) - 1
      PROVE  Reader(n + 1) = ReadLine(Reader(n), script[n + 1])
  <2> DEFINE s == SubSeq(script, 1, n)
             x == script[n + 1]
             t == <<x>>
  <2>1. s \in Seq(Lines) /\ x \in Lines
    OBVIOUS
  <2>2. SubSeq(script, 1, n + 1) = s \o t
    <3>1. s = [i \in 1 .. n |-> script[i]] /\ Len(s) = n
      OBVIOUS
    <3>2. SubSeq(script, 1, n + 1) = [i \in 1 .. n + 1 |-> script[i]]
      OBVIOUS
    <3>3. s \o t = [i \in 1 .. n + 1 |-> IF i <= n THEN s[i] ELSE x]
      <4> HIDE DEF s, x
      <4> QED BY <2>1, <3>1
    <3> QED BY <3>1, <3>2, <3>3
  <2>3. t \in Seq(Lines)
    <3> HIDE DEF x
    <3> QED BY <2>1
  <2>4. Reader(n) \in Readings /\ Reader(n) = Fold(Readings, ReadStep, Start, s)
    BY <1>3 DEF Reader
  <2> HIDE DEF s
  <2>5. Fold(Readings, ReadStep, Start, s \o t)
          = Fold(Readings, ReadStep, Fold(Readings, ReadStep, Start, s), t)
    <3> HIDE DEF t
    <3> QED BY <2>1, <2>3, ReadStepType, FoldConcat
  <2> DEFINE r == Reader(n)
  <2>6. Fold(Readings, ReadStep, r, <<x>>) = ReadStep[<<r, x>>]
    <3> HIDE DEF x, r
    <3>1. r \in Readings
      BY <2>4 DEF r
    <3> QED BY <2>1, <3>1, ReadStepType, FoldOne
  <2>7. ReadStep[<<r, x>>] = ReadLine(r, x)
    <3> HIDE DEF x, r
    <3>1. r \in Readings
      BY <2>4 DEF r
    <3> QED BY <2>1, <3>1 DEF ReadStep
  <2>8. Reader(n + 1) = Fold(Readings, ReadStep, Start, s \o t)
    BY <2>2 DEF Reader
  <2> HIDE DEF x
  <2> QED BY <2>4, <2>5, <2>6, <2>7, <2>8 DEF x
<1> QED BY <1>1, <1>2, <1>3, <1>4

(* Up to the line the loader is at, the probe has read what the loader     *)
(* has, as long as every count fits an unsigned.                           *)
ReadAlike ==
  CountsFit =>
    /\ ~Reader(pos).failed
    /\ Reader(pos).inRepeat <=> open
    /\ open => Reader(pos).repeatCount = spelled /\ Reader(pos).body = block.steps
    /\ Reader(pos).steps = text

(* An open block was opened somewhere, and only blank lines followed until *)
(* it has a step.                                                          *)
BlankFrom(i) == \A k \in i + 1 .. pos : script[k].kind \in {"blank", "unreadable"}

OpenedAt ==
  open => \E i \in 1 .. pos :
            script[i].kind = "begin" /\ (block.steps = <<>> => BlankFrom(i))

(* Why the runtime gave up.                                                *)
BuildRefuses ==
  /\ BlockIdx <= Len(blocks) /\ RepeatIdx < blocks[BlockIdx].repeat /\ StepIdx < BlockLen(BlockIdx)
  /\ Len(offsets) >= steps \/ ~InStorage(NextStep)

BuildMiscounts == ~(BlockIdx <= Len(blocks)) /\ Len(offsets) # steps

FailedFor ==
  /\ stage \in {"build", "built"} => pos = Len(script)
  /\ stage = "failed" =>
       \/ pos < Len(script) /\ RefusedLine
       \/ pos = Len(script) /\ ~Complete
       \/ pos = Len(script) /\ Complete /\ (BuildRefuses \/ BuildMiscounts)

ReadInv == ReadAlike /\ OpenedAt /\ FailedFor

LEMMA AcceptedAlike ==
  ASSUME NEW tokens \in Seq(Tokens) \ {<<>>}, AcceptedStep(tokens)
  PROVE  /\ Patch(tokens) = StepOf(tokens)
         /\ \A i \in DOMAIN Patch(tokens) : tokens[i] \in Patches
<1>1. CASE tokens = <<Dash>>
  BY <1>1 DEF Patch, StepOf
<1>2. CASE tokens # <<Dash>>
  <2>1. \A i \in DOMAIN tokens : tokens[i] \in Patches
    BY <1>2 DEF AcceptedStep
  <2>2. Head(tokens) \in Patches
    BY <2>1
  <2>3. Head(tokens) # Dash
    BY <2>2, NoDashAmongPatches
  <2> QED BY <1>2, <2>1, <2>3 DEF Patch, StepOf
<1> QED BY <1>1, <1>2

LEMMA ReadInvInit ==
  ASSUME Init PROVE ReadInv
<1>1. script \in Seq(Lines)
  BY ScriptsAssumption DEF Init
<1>2. Reader(0) = Start
  BY <1>1, ReaderReads
<1>3. Reader(pos) = Start
  BY <1>2 DEF Init
<1>4. ReadAlike
  <2>1. ~Start.failed /\ ~Start.inRepeat /\ Start.steps = <<>>
    BY DEF Start
  <2>2. ~open /\ text = <<>>
    BY DEF Init
  <2> QED BY <1>3, <2>1, <2>2 DEF ReadAlike
<1>5. OpenedAt /\ FailedFor
  BY DEF Init, OpenedAt, FailedFor
<1> QED BY <1>4, <1>5 DEF ReadInv

LEMMA ReadInvStep ==
  ASSUME TypeOK, LoadInv, ReadInv, [Next]_vars
  PROVE  ReadInv'
<1> USE DEF loadVars, buildVars, history
<1> DEFINE r == Reader(pos)
<1>0. script \in Seq(Lines) /\ Len(script) \in Nat /\ pos \in 0 .. Len(script)
  BY ScriptsAssumption DEF TypeOK
<1>1. r \in Readings
  BY <1>0, ReaderReads
<1>2. ASSUME UNCHANGED <<script, pos, open, block, text, spelled>>
      PROVE  ReadAlike' /\ OpenedAt'
  <2>1. Reader(pos)' = Reader(pos)
    BY <1>2 DEF Reader
  <2>2. CountsFit' = CountsFit
    BY <1>2 DEF CountsFit
  <2>3. ReadAlike'
    BY <1>2, <2>1, <2>2 DEF ReadInv, ReadAlike
  <2>4. OpenedAt'
    BY <1>2 DEF ReadInv, OpenedAt, BlankFrom
  <2> QED BY <2>3, <2>4
<1>3. ASSUME More, Consume
      PROVE  /\ Reader(pos)' = ReadLine(r, Line)
             /\ CountsFit' = CountsFit
             /\ Line \in Lines
             /\ stage = "load"
             /\ pos' = pos + 1 /\ script' = script /\ pos + 1 \in 1 .. Len(script)
  <2>1. pos \in 0 .. Len(script) - 1 /\ pos' = pos + 1 /\ script' = script
    BY <1>0, <1>3 DEF More, Consume
  <2>2. Reader(pos)' = Reader(pos + 1)
    BY <2>1 DEF Reader
  <2>3. Reader(pos + 1) = ReadLine(Reader(pos), script[pos + 1])
    BY <1>0, <2>1, ReaderReads
  <2>4. CountsFit' = CountsFit
    BY <2>1 DEF CountsFit
  <2>5. Line \in Lines /\ stage = "load"
    BY <1>3, LineType DEF More
  <2>6. pos + 1 \in 1 .. Len(script)
    BY <1>0, <2>1
  <2> QED BY <2>1, <2>2, <2>3, <2>4, <2>5, <2>6 DEF Line
<1>4. ASSUME stage' = "load" PROVE FailedFor'
  BY <1>4 DEF FailedFor
<1>5. ASSUME UNCHANGED <<script, pos, open, block, text, spelled>>, FailedFor' PROVE ReadInv'
  BY <1>2, <1>5 DEF ReadInv
<1>6. ASSUME More, Consume, stage' = stage, ReadAlike', OpenedAt' PROVE ReadInv'
  BY <1>3, <1>4, <1>6 DEF ReadInv
<1> HIDE DEF r
<1>7. ASSUME More, Consume, CountsFit, ~Refuses(r, Line) PROVE ~(r.failed \/ Refuses(r, Line))
  BY <1>7 DEF ReadInv, ReadAlike, r
<1>8. ASSUME ReadAlike, CountsFit
      PROVE  /\ ~r.failed /\ (r.inRepeat <=> open) /\ r.steps = text
             /\ open => r.repeatCount = spelled /\ r.body = block.steps
  BY <1>8 DEF ReadAlike, r
<1>9. CASE SkipLine
  <2>1. More /\ Consume /\ Line.kind = "blank" /\ UNCHANGED <<open, block, text, spelled, stage>>
    BY <1>9 DEF SkipLine
  <2>2. ~Refuses(r, Line)
    BY <2>1 DEF Refuses
  <2>3. CountsFit => ReadLine(r, Line) = r
    BY <1>7, <2>1, <2>2 DEF ReadLine
  <2>4. ReadAlike'
    BY <1>3, <1>8, <2>1, <2>3 DEF ReadInv, ReadAlike
  <2>5. OpenedAt'
    <3>1. SUFFICES ASSUME open' PROVE OpenedAt'
      BY DEF OpenedAt
    <3>2. PICK i \in 1 .. pos : script[i].kind = "begin" /\ (block.steps = <<>> => BlankFrom(i))
      BY <2>1, <3>1 DEF ReadInv, OpenedAt
    <3>3. i \in 1 .. pos'
      BY <1>0, <1>3, <2>1
    <3>4. \A k \in i + 1 .. pos' : k \in i + 1 .. pos \/ k = pos + 1
      BY <1>0, <1>3, <2>1
    <3>5. block'.steps = <<>> => BlankFrom(i)'
      BY <1>3, <2>1, <3>2, <3>4 DEF BlankFrom, Line
    <3> QED BY <1>3, <2>1, <3>2, <3>3, <3>5 DEF OpenedAt
  <2> QED BY <1>6, <2>1, <2>4, <2>5
<1>10. CASE OpenBlock
  <2>1. /\ More /\ Consume /\ Line.kind = "begin" /\ ~open /\ Line.count # 0
        /\ open' /\ block'.steps = <<>> /\ spelled' = Line.count /\ UNCHANGED <<text, stage>>
    BY <1>10 DEF OpenBlock
  <2>2. CountsFit => ~Refuses(r, Line)
    <3>1. SUFFICES ASSUME CountsFit PROVE ~Refuses(r, Line)
      OBVIOUS
    <3>2. Line.count < Word /\ Line.count \in Nat
      <4>1. pos + 1 \in DOMAIN script
        BY <1>0, <1>3, <2>1
      <4>2. Line.count < Word
        BY <2>1, <3>1, <4>1 DEF CountsFit, Line
      <4> QED BY <1>3, <2>1, <4>2, LineFields
    <3>3. ~r.inRepeat
      BY <1>8, <2>1, <3>1 DEF ReadInv
    <3>4. Line.count \in 1 .. Word - 1
      BY <2>1, <3>2, WordAssumption
    <3> QED BY <2>1, <3>3, <3>4 DEF Refuses
  <2>3. CountsFit => ReadLine(r, Line) = [r EXCEPT !.inRepeat = TRUE, !.repeatCount = Line.count,
                                                   !.body = <<>>]
    BY <1>7, <2>1, <2>2 DEF ReadLine
  <2>4. ReadAlike'
    <3>1. SUFFICES ASSUME CountsFit PROVE ReadAlike'
      BY <1>3, <2>1 DEF ReadAlike
    <3> DEFINE q == ReadLine(r, Line)
    <3>3. q.failed = r.failed /\ q.inRepeat /\ q.steps = r.steps
          /\ q.repeatCount = Line.count /\ q.body = <<>>
      BY <1>1, <2>3, <3>1 DEF Readings
    <3> HIDE DEF q
    <3>4. Reader(pos)' = q
      BY <1>3, <2>1 DEF q
    <3>5. ~r.failed /\ r.steps = text
      BY <1>8, <2>1, <3>1 DEF ReadInv
    <3> QED BY <2>1, <3>3, <3>4, <3>5 DEF ReadAlike
  <2>5. OpenedAt'
    <3>1. \A k \in (pos + 1) + 1 .. pos + 1 : FALSE
      BY <1>0
    <3>2. PICK i \in 1 .. Len(script) : i = pos + 1
      BY <1>3, <2>1
    <3>3. BlankFrom(i)'
      BY <1>3, <2>1, <3>1, <3>2 DEF BlankFrom
    <3>4. i \in 1 .. pos' /\ script'[i].kind = "begin"
      BY <1>0, <1>3, <2>1, <3>2 DEF Line
    <3> QED BY <3>3, <3>4 DEF OpenedAt
  <2> QED BY <1>6, <2>1, <2>4, <2>5
<1>11. CASE CloseBlock
  <2>1. /\ More /\ Consume /\ Line.kind = "end" /\ open /\ ~open'
        /\ text' = text \o Repeated(block.steps, spelled) /\ UNCHANGED <<spelled, stage>>
    BY <1>11 DEF CloseBlock
  <2>2. CountsFit => ~Refuses(r, Line)
    BY <1>8, <2>1 DEF Refuses, ReadInv
  <2>3. CountsFit => ReadLine(r, Line) = [r EXCEPT !.inRepeat = FALSE, !.repeatCount = 0,
                                                   !.body = <<>>, !.steps = Unrolled(r)]
    BY <1>7, <2>1, <2>2 DEF ReadLine
  <2>4. CountsFit => Unrolled(r) = text'
    BY <1>8, <2>1 DEF Unrolled, ReadInv
  <2>5. ReadAlike'
    <3>1. SUFFICES ASSUME CountsFit PROVE ReadAlike'
      BY <1>3, <2>1 DEF ReadAlike
    <3> DEFINE q == ReadLine(r, Line)
    <3>3. q.failed = r.failed /\ ~q.inRepeat /\ q.steps = Unrolled(r)
      BY <1>1, <2>3, <3>1 DEF Readings
    <3> HIDE DEF q
    <3>4. Reader(pos)' = q
      BY <1>3, <2>1 DEF q
    <3>5. ~r.failed
      BY <1>8, <2>1, <3>1 DEF ReadInv
    <3> QED BY <2>1, <2>4, <3>1, <3>3, <3>4, <3>5 DEF ReadAlike
  <2>6. OpenedAt'
    BY <2>1 DEF OpenedAt
  <2> QED BY <1>6, <2>1, <2>5, <2>6
<1>12. CASE AddStepToBlock
  <2>1. /\ More /\ Consume /\ Line.kind = "step" /\ AcceptedStep(Line.tokens) /\ open
        /\ block' = [block EXCEPT !.steps = Append(@, StepOf(Line.tokens))]
        /\ UNCHANGED <<open, spelled, text, stage>>
    BY <1>12 DEF AddStepToBlock
  <2>2. Line.tokens \in Seq(Tokens) \ {<<>>}
    BY <1>3, <2>1, LineFields
  <2>3. Patch(Line.tokens) = StepOf(Line.tokens) /\ StepOf(Line.tokens) \in Steps /\ ~Refuses(r, Line)
    BY <2>1, <2>2, AcceptedAlike, StepOfType DEF Refuses
  <2>4. CountsFit => ReadLine(r, Line) = [r EXCEPT !.body = Append(@, StepOf(Line.tokens))]
    BY <1>7, <1>8, <2>1, <2>3 DEF ReadLine, ReadInv
  <2>5. block'.steps = Append(block.steps, StepOf(Line.tokens))
    BY <2>1 DEF TypeOK
  <2>6. ReadAlike'
    <3>1. SUFFICES ASSUME CountsFit PROVE ReadAlike'
      BY <1>3, <2>1 DEF ReadAlike
    <3> DEFINE q == ReadLine(r, Line)
    <3>3. q.failed = r.failed /\ q.inRepeat = r.inRepeat /\ q.repeatCount = r.repeatCount
          /\ q.steps = r.steps /\ q.body = Append(r.body, StepOf(Line.tokens))
      BY <1>1, <2>4, <3>1 DEF Readings
    <3> HIDE DEF q
    <3>4. Reader(pos)' = q
      BY <1>3, <2>1 DEF q
    <3>5. ~r.failed /\ r.inRepeat /\ r.steps = text /\ r.repeatCount = spelled /\ r.body = block.steps
      BY <1>8, <2>1, <3>1 DEF ReadInv
    <3>6. q.body = block'.steps
      BY <2>5, <3>3, <3>5
    <3> QED BY <2>1, <3>3, <3>4, <3>5, <3>6 DEF ReadAlike
  <2>7. OpenedAt'
    <3>1. PICK i \in 1 .. pos : script[i].kind = "begin"
      BY <2>1 DEF ReadInv, OpenedAt
    <3>2. i \in 1 .. pos'
      BY <1>0, <1>3, <2>1
    <3>3. block'.steps # <<>>
      <4>1. block.steps \in Seq(Steps)
        BY DEF TypeOK
      <4> QED BY <2>3, <2>5, <4>1
    <3>4. script'[i].kind = "begin" /\ (block'.steps = <<>> => BlankFrom(i)')
      BY <1>3, <2>1, <3>1, <3>3
    <3> QED BY <3>2, <3>4 DEF OpenedAt
  <2> QED BY <1>6, <2>1, <2>6, <2>7
<1>13. CASE AddSingleStep
  <2>1. /\ More /\ Consume /\ Line.kind = "step" /\ AcceptedStep(Line.tokens) /\ ~open
        /\ text' = Append(text, StepOf(Line.tokens))
        /\ UNCHANGED <<open, block, spelled, stage>>
    BY <1>13 DEF AddSingleStep
  <2>2. Line.tokens \in Seq(Tokens) \ {<<>>}
    BY <1>3, <2>1, LineFields
  <2>3. Patch(Line.tokens) = StepOf(Line.tokens) /\ ~Refuses(r, Line)
    BY <2>1, <2>2, AcceptedAlike DEF Refuses
  <2>4. CountsFit => ReadLine(r, Line) = [r EXCEPT !.steps = Append(@, StepOf(Line.tokens))]
    BY <1>7, <1>8, <2>1, <2>3 DEF ReadLine, ReadInv
  <2>5. ReadAlike'
    <3>1. SUFFICES ASSUME CountsFit PROVE ReadAlike'
      BY <1>3, <2>1 DEF ReadAlike
    <3> DEFINE q == ReadLine(r, Line)
    <3>3. q.failed = r.failed /\ q.inRepeat = r.inRepeat
          /\ q.steps = Append(r.steps, StepOf(Line.tokens))
      BY <1>1, <2>4, <3>1 DEF Readings
    <3> HIDE DEF q
    <3>4. Reader(pos)' = q
      BY <1>3, <2>1 DEF q
    <3>5. ~r.failed /\ ~r.inRepeat /\ r.steps = text
      BY <1>8, <2>1, <3>1 DEF ReadInv
    <3>6. q.steps = text'
      BY <2>1, <3>3, <3>5
    <3> QED BY <2>1, <3>3, <3>4, <3>5, <3>6 DEF ReadAlike
  <2>6. OpenedAt'
    BY <2>1 DEF OpenedAt
  <2> QED BY <1>6, <2>1, <2>5, <2>6
<1>14. CASE RefuseLine
  <2>1. FailedFor'
    BY <1>14 DEF RefuseLine, More, FailedFor, RefusedLine, Line
  <2> QED BY <1>5, <1>14, <2>1 DEF RefuseLine
<1>15. CASE EndOfFile
  <2>1. FailedFor'
    BY <1>15 DEF EndOfFile, FailedFor, Complete
  <2> QED BY <1>5, <1>15, <2>1 DEF EndOfFile
<1>16. CASE Build
  <2>0. Complete
    BY <1>16 DEF Build, BuildStep, BuildFails, NextRepeat, NextBlock, BuildEnds,
      InSteps, InRepeats, InBlocks, Building, LoadInv
  <2>1. stage = "build" /\ UNCHANGED loadVars /\ pos = Len(script)
    BY <1>16 DEF Build, BuildStep, BuildFails, NextRepeat, NextBlock, BuildEnds,
      InSteps, InRepeats, InBlocks, Building, ReadInv, FailedFor
  <2>2. ASSUME stage' # "failed" PROVE FailedFor'
    BY <2>1, <2>2 DEF FailedFor
  <2>3. CASE BuildFails
    <3>1. stage' = "failed" /\ BuildRefuses /\ UNCHANGED buildVars
      BY <2>3 DEF BuildFails, BuildRefuses, InSteps, InRepeats, InBlocks, BlockLen
    <3>2. BuildRefuses' /\ Complete'
      BY <2>0, <2>1, <3>1 DEF BuildRefuses, Complete, BlockIdx, RepeatIdx, StepIdx, BlockLen, NextStep
    <3> QED BY <1>5, <2>1, <3>1, <3>2 DEF FailedFor
  <2>4. CASE BuildEnds
    <3>1. CASE stage' = "failed"
      <4>1. BuildMiscounts /\ UNCHANGED buildVars
        BY <2>1, <2>4, <3>1 DEF BuildEnds, BuildMiscounts, InBlocks
      <4>2. BuildMiscounts' /\ Complete'
        BY <2>0, <2>1, <4>1 DEF BuildMiscounts, Complete, BlockIdx
      <4> QED BY <1>5, <2>1, <3>1, <4>2 DEF FailedFor
    <3> QED BY <1>5, <2>1, <2>2, <3>1
  <2>5. CASE BuildStep \/ NextRepeat \/ NextBlock
    <3>1. stage' # "failed"
      BY <2>1, <2>5 DEF BuildStep, NextRepeat, NextBlock
    <3> QED BY <1>5, <2>1, <2>2, <3>1
  <2> QED BY <1>16, <2>3, <2>4, <2>5 DEF Build
<1>17. CASE UNCHANGED vars
  <2>1. FailedFor'
    BY <1>17 DEF vars, ReadInv, FailedFor, RefusedLine, Line, Complete, BuildRefuses, BuildMiscounts,
      BlockIdx, RepeatIdx, StepIdx, BlockLen, NextStep
  <2> QED BY <1>5, <1>17, <2>1 DEF vars
<1> QED
  BY <1>9, <1>10, <1>11, <1>12, <1>13, <1>14, <1>15, <1>16, <1>17 DEF Next, Load, Done

ProbeInv == ScriptInv /\ ReadInv

LEMMA ProbeInvariant == Spec => []ProbeInv
<1>1. Init => ReadInv
  BY ReadInvInit
<1>2. TypeOK /\ LoadInv /\ ReadInv /\ [Next]_vars => ReadInv'
  BY ReadInvStep
<1>3. ScriptInv => TypeOK /\ LoadInv
  BY DEF ScriptInv
<1> QED BY <1>1, <1>2, <1>3, ScriptInvariant, PTL DEF Spec, ProbeInv

(* A script the runtime executes resident is read by the probe as the same *)
(* job, step by step.                                                      *)
THEOREM ProbeAndRuntimeAgree == Spec => []ProbeReadsTheScript
<1>1. ASSUME ProbeInv, stage = "built", CountsFit
      PROVE  /\ ProbeLoads
             /\ Len(PatchSteps) = steps
             /\ \A i \in DOMAIN PatchSteps : Slice(i) = PatchSteps[i]
  <2>1. TypeOK /\ LoadInv /\ BuildInv /\ ReadAlike /\ FailedFor /\ Complete
    BY <1>1 DEF ProbeInv, ScriptInv, ReadInv, LoadInv
  <2>2. script \in Seq(Lines) /\ pos = Len(script)
    BY <1>1, <2>1, ScriptsAssumption DEF TypeOK, FailedFor
  <2>3. Reader(pos) = Read
    BY <2>2, ReaderReads
  <2>4. ~Read.failed /\ ~Read.inRepeat /\ Read.steps = text
    BY <1>1, <2>1, <2>3 DEF ReadAlike, Complete
  <2>5. text # <<>> /\ text \in Seq(Steps)
    BY <2>1 DEF LoadInv, Complete, TypeOK
  <2>6. Kept
    BY <1>1 DEF Kept
  <2>7. Len(text) < Word /\ \A i \in 1 .. Len(text) : Slice(i) = text[i]
    BY <1>1, <2>1, <2>6 DEF BuildInv, Scheduled
  <2>8. steps = Len(text)
    BY <2>1, <2>7 DEF LoadInv
  <2>9. ProbeLoads
    BY <2>4, <2>5 DEF ProbeLoads, Loaded
  <2>10. DOMAIN text = 1 .. Len(text)
    BY <2>5
  <2> QED BY <2>4, <2>7, <2>8, <2>9, <2>10 DEF PatchSteps
<1>2. ProbeInv => ProbeReadsTheScript
  BY <1>1 DEF ProbeReadsTheScript
<1> QED BY <1>2, ProbeInvariant, PTL

(* A probe that loads has not failed at any line.                          *)
LEMMA NeverFailed ==
  ASSUME script \in Seq(Lines), ProbeLoads
  PROVE  \A n \in 0 .. Len(script) - 1 :
           ~Reader(n).failed /\ ~Refuses(Reader(n), script[n + 1])
<1> DEFINE S == {i \in 0 .. Len(script) : ~Reader(Len(script) - i).failed}
<1>0. Len(script) \in Nat
  OBVIOUS
<1>1. ASSUME NEW n \in 0 .. Len(script) - 1, ~Reader(n + 1).failed
      PROVE  ~Reader(n).failed /\ ~Refuses(Reader(n), script[n + 1])
  <2>1. Reader(n + 1) = ReadLine(Reader(n), script[n + 1]) /\ Reader(n) \in Readings
    BY <1>0, ReaderReads
  <2> DEFINE r == Reader(n)
             line == script[n + 1]
  <2> HIDE DEF r, line
  <2>2. r \in Readings /\ Reader(n + 1) = ReadLine(r, line)
    BY <2>1 DEF r, line
  <2>3. CASE r.failed \/ Refuses(r, line)
    <3>1. ReadLine(r, line) = [r EXCEPT !.failed = TRUE]
      BY <2>3 DEF ReadLine
    <3>2. [r EXCEPT !.failed = TRUE].failed
      BY <2>2 DEF Readings
    <3> QED BY <1>1, <2>2, <3>1, <3>2
  <2> QED BY <2>3 DEF r, line
<1>2. 0 \in S
  <2>1. Len(script) - 0 = Len(script)
    BY <1>0
  <2>2. ~Reader(Len(script)).failed
    BY ReaderReads DEF ProbeLoads, Loaded
  <2> QED BY <1>0, <2>1, <2>2
<1>3. ASSUME NEW i \in 0 .. Len(script) - 1, i \in S PROVE i + 1 \in S
  <2>1. PICK n \in 0 .. Len(script) - 1 : n = Len(script) - (i + 1)
    <3>1. Len(script) - (i + 1) \in 0 .. Len(script) - 1
      BY <1>0
    <3> QED BY <3>1
  <2>2. n + 1 = Len(script) - i
    BY <1>0, <2>1
  <2>3. ~Reader(n + 1).failed
    BY <1>3, <2>2
  <2>4. ~Reader(n).failed
    BY <1>1, <2>3
  <2> QED BY <1>0, <2>1, <2>4
<1>4. 0 .. Len(script) \subseteq S
  <2> HIDE DEF S
  <2> QED BY <1>0, <1>2, <1>3, UpToInduction
<1> TAKE n \in 0 .. Len(script) - 1
<1>5. PICK i \in 0 .. Len(script) : i = Len(script) - (n + 1)
  <2>1. Len(script) - (n + 1) \in 0 .. Len(script)
    BY <1>0
  <2> QED BY <2>1
<1>6. n + 1 = Len(script) - i
  BY <1>0, <1>5
<1>7. ~Reader(n + 1).failed
  BY <1>4, <1>6
<1> QED BY <1>1, <1>7

(* The scripts with which only the probe runs.                             *)
THEOREM OnlyTheProbe == Spec => []OnlyTheProbeRuns
<1>1. ASSUME ProbeInv, stage = "failed", ProbeApplies,
             ~(\E i \in DOMAIN script : script[i].kind = "unreadable"),
             ~(\E i \in DOMAIN script : script[i].kind = "step" /\ ~AcceptedStep(script[i].tokens)),
             ~(\E i, j \in DOMAIN script : EmptyBlockAt(i, j)),
             ~(Len(PatchSteps) >= Word)
      PROVE  FALSE
  <2>1. TypeOK /\ LoadInv /\ BuildInv /\ ReadAlike /\ OpenedAt /\ FailedFor /\ ProbeLoads
    BY <1>1 DEF ProbeInv, ScriptInv, ReadInv, ProbeApplies
  <2>2. script \in Seq(Lines) /\ Len(script) \in Nat /\ pos \in 0 .. Len(script)
    BY <2>1, ScriptsAssumption DEF TypeOK
  <2>3. \A n \in 0 .. Len(script) - 1 : ~Refuses(Reader(n), script[n + 1])
    BY <2>1, <2>2, NeverFailed
  <2>4. CountsFit
    <3>1. SUFFICES ASSUME NEW i \in DOMAIN script, script[i].kind = "begin"
                   PROVE  script[i].count < Word
      BY DEF CountsFit
    <3>2. PICK n \in 0 .. Len(script) - 1 : i = n + 1
      <4>1. i - 1 \in 0 .. Len(script) - 1 /\ i = (i - 1) + 1
        BY <2>2
      <4> QED BY <4>1
    <3>3. script[i].count \in 1 .. Word - 1
      BY <2>3, <3>1, <3>2 DEF Refuses
    <3> QED BY <3>3, WordAssumption
  <2>5. /\ ~Reader(pos).failed /\ (Reader(pos).inRepeat <=> open)
        /\ Reader(pos).steps = text
    BY <2>1, <2>4 DEF ReadAlike
  <2>6. Kept
    BY <2>4 DEF Kept
  <2>7. ASSUME pos < Len(script), RefusedLine PROVE FALSE
    <3>1. pos \in 0 .. Len(script) - 1 /\ pos + 1 \in DOMAIN script
      BY <2>2, <2>7
    <3>2. ~Refuses(Reader(pos), Line)
      BY <2>3, <3>1 DEF Line
    <3>3. Line.kind # "unreadable" /\ (Line.kind = "step" => AcceptedStep(Line.tokens))
      BY <1>1, <3>1 DEF Line
    <3>4. ~(Line.kind = "begin" /\ (open \/ Line.count = 0))
      <4>1. Line.kind = "begin" => ~open /\ Line.count \in 1 .. Word - 1
        BY <2>5, <3>2 DEF Refuses
      <4>2. 0 \notin 1 .. Word - 1
        BY WordAssumption
      <4> QED BY <4>1, <4>2
    <3>5. ~(Line.kind = "end" /\ (~open \/ block.steps = <<>>))
      <4>1. SUFFICES ASSUME Line.kind = "end", open, block.steps = <<>> PROVE FALSE
        BY <2>5, <3>2 DEF Refuses
      <4>2. PICK i \in 1 .. pos : script[i].kind = "begin" /\ BlankFrom(i)
        BY <2>1, <4>1 DEF OpenedAt
      <4>3. PICK j \in DOMAIN script : j = pos + 1
        BY <3>1
      <4>4. i \in DOMAIN script /\ i < j
        BY <2>2, <4>3
      <4>5. \A k \in i + 1 .. j - 1 : k \in i + 1 .. pos
        BY <2>2, <4>3
      <4>6. script[j].kind = "end"
        BY <4>1, <4>3 DEF Line
      <4>7. EmptyBlockAt(i, j)
        BY <4>2, <4>4, <4>5, <4>6 DEF EmptyBlockAt, BlankFrom
      <4> QED BY <1>1, <4>4, <4>7
    <3> QED BY <2>7, <3>3, <3>4, <3>5 DEF RefusedLine
  <2>8. ASSUME pos = Len(script) PROVE Complete /\ text = PatchSteps /\ steps = Len(text) /\ ~open
    <3>1. Reader(pos) = Read
      BY <2>2, <2>8, ReaderReads
    <3>2. text = PatchSteps /\ ~open
      BY <2>1, <2>5, <3>1 DEF PatchSteps, ProbeLoads, Loaded
    <3>3. text # <<>> /\ text \in Seq(Steps)
      BY <2>1, <3>2 DEF PatchSteps, ProbeLoads, Loaded, TypeOK
    <3>4. Len(text) \in Nat /\ Len(text) # 0
      BY <3>3
    <3>5. Len(text) < Word
      BY <1>1, <3>2, <3>4, WordAssumption
    <3>6. steps = Len(text) /\ blocks # <<>>
      BY <2>1, <3>3, <3>5 DEF LoadInv
    <3> QED BY <3>2, <3>4, <3>6 DEF Complete
  <2>9. AtText /\ SlicesAreText
    BY <1>1, <2>1, <2>6 DEF BuildInv
  <2>10. ASSUME pos = Len(script), BuildRefuses PROVE FALSE
    <3>1. /\ BlockIdx <= Len(blocks) /\ RepeatIdx < blocks[BlockIdx].repeat
          /\ StepIdx < BlockLen(BlockIdx)
          /\ Len(offsets) >= steps \/ ~InStorage(NextStep)
      BY <2>10 DEF BuildRefuses
    <3>2. Len(offsets) \in 0 .. Len(text) - 1 /\ text[Len(offsets) + 1] = NextStep
      BY <2>1, <2>6, <2>9, <3>1, NextStepOfText
    <3>3. text \in Seq(Steps) /\ Len(text) \in Nat
      BY <2>1 DEF TypeOK
    <3>4. ~(Len(offsets) >= steps)
      BY <2>8, <2>10, <3>2, <3>3
    <3>5. Len(offsets) + 1 \in DOMAIN PatchSteps /\ PatchSteps[Len(offsets) + 1] = NextStep
      BY <2>8, <2>10, <3>2, <3>3
    <3>6. NextStep \in Seq(Patches)
      BY <3>2, <3>3 DEF Steps
    <3>7. \A j \in DOMAIN NextStep : NextStep[j].off < StateBytes /\ NextStep[j].off \in Nat
      <4> TAKE j \in DOMAIN NextStep
      <4>1. NextStep[j] \in Patches
        BY <3>6
      <4>2. NextStep[j].off \in Nat
        BY <4>1, PatchesAssumption
      <4> QED BY <1>1, <3>5, <4>2 DEF ProbeApplies
    <3>8. InStorage(NextStep)
      BY <3>7, StateAssumption, LimitAssumption DEF InStorage
    <3> QED BY <3>1, <3>4, <3>8
  <2>11. ASSUME pos = Len(script), BuildMiscounts PROVE FALSE
    BY <2>8, <2>9, <2>11 DEF BuildMiscounts, AtText
  <2> QED BY <1>1, <2>1, <2>7, <2>8, <2>10, <2>11 DEF FailedFor
<1>2. ProbeInv => OnlyTheProbeRuns
  <2>1. SUFFICES ASSUME ProbeInv, stage = "failed", ProbeApplies
                 PROVE  \/ \E i \in DOMAIN script : script[i].kind = "unreadable"
                        \/ \E i \in DOMAIN script :
                             script[i].kind = "step" /\ ~AcceptedStep(script[i].tokens)
                        \/ \E i, j \in DOMAIN script : EmptyBlockAt(i, j)
                        \/ Len(PatchSteps) >= Word
    BY DEF OnlyTheProbeRuns
  <2> QED BY <1>1, <2>1
<1> QED BY <1>2, ProbeInvariant, PTL
=============================================================================
