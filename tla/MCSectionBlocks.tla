-------------------------- MODULE MCSectionBlocks --------------------------
EXTENDS SectionBlocks, TLC

CONSTANTS Code, ROData, RWData

MCBlocks == {Code, ROData, RWData}
Symmetry == Permutations(MCBlocks)   \* they are treated alike
=============================================================================
