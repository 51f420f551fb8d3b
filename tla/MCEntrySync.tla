----------------------------- MODULE MCEntrySync -----------------------------
EXTENDS EntrySync, TLC

Symmetry == Permutations(Device)
=============================================================================
