--------------------------- MODULE MCSpatialArena ---------------------------
EXTENDS SpatialArena, TLC

CONSTANTS
    Places,     \* the hexagons that vehicles are in
    UnusedBits  \* the low bits that H3 sets in each of their indices

MCCells == {H3Cell(p, UnusedBits) : p \in Places}

\* Writers are interchangeable.
Symmetry == Permutations(Writers)
=============================================================================
