------------------------------- MODULE MCNodePool ------------------------------
EXTENDS NodePool, TLC

Symmetric == Permutations(Nodes)
================================================================================
