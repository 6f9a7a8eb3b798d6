--------------------------- MODULE MCPatchScript ---------------------------
(* Instance of HostProbe, and with it of PatchScript: all scripts of at    *)
(* most five lines over a small alphabet of lines, with a three-bit        *)
(* counter so that counts wrap, and a storage of two states of one byte.   *)
EXTENDS HostProbe

P0 == [off |-> 0, val |-> 1]
P1 == [off |-> 1, val |-> 0]
PFar == [off |-> 2, val |-> 1]

MCPatches == {P0, P1, PFar}

StepLine(tokens) == [kind |-> "step", tokens |-> tokens]
Begin(n) == [kind |-> "begin", count |-> n]
End == [kind |-> "end"]

Alphabet ==
  { [kind |-> "blank"], [kind |-> "unreadable"], End,
    Begin(0), Begin(1), Begin(2), Begin(8), Begin(9),
    StepLine(<<Dash>>), StepLine(<<P0, P1>>), StepLine(<<P1>>), StepLine(<<PFar>>),
    StepLine(<<P0, P0, P0>>), StepLine(<<Dash, P0>>), StepLine(<<Junk>>) }

(* Lines that lead somewhere, for the longer scripts.                      *)
Core == { End, Begin(2), Begin(3), Begin(8), StepLine(<<Dash>>), StepLine(<<P0, P1>>),
          StepLine(<<P1>>) }

MCScripts == BoundedSeq(Alphabet, 3) \cup BoundedSeq(Core, 5)
=============================================================================
