--------------------------- MODULE MCReactorSlots --------------------------
\* Small instances of ReactorSlots for TLC.
EXTENDS ReactorSlots, TLC

Symmetry == Permutations(Sessions)
=============================================================================
