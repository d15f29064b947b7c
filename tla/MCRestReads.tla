----------------------------- MODULE MCRestReads -----------------------------
\* Instance of RestReads for TLC.
EXTENDS RestReads, TLC

\* Neither ids nor words are told apart by anything but equality.
Symmetry == Permutations(SymbolId) \cup Permutations(Word)
=============================================================================
