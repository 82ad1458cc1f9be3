---------------------------- MODULE MCDafGenerate ----------------------------
EXTENDS DafGenerate, TLC
MCSymmetry == Permutations(Pages) \union Permutations(Requests)
=============================================================================
