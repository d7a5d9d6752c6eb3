--------------------------- MODULE MCUpstreamErrors ---------------------------
EXTENDS UpstreamErrors, TLC

CONSTANTS f1, f2, f3, any

\* The files of a node can be told apart by what they import alone.
NodeFiles == Permutations({f1, f2, f3})

=============================================================================
