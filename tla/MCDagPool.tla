------------------------------ MODULE MCDagPool ------------------------------
EXTENDS DagPool, TLC

MCSymmetry == Permutations(Node)
=============================================================================
