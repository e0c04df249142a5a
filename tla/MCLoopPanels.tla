----------------------------- MODULE MCLoopPanels -----------------------------
EXTENDS LoopPanels, TLC

Region(a, b) == [in_seconds |-> a, out_seconds |-> b]

OneRegion == {Region(1, 3)}
TwoRegions == {Region(0, 2), Region(1, 3)}
Default == Region(1, 3)

Interchangeable == Permutations(Panels)
==============================================================================
