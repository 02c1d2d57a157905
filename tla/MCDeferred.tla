------------------------------- MODULE MCDeferred -------------------------------
EXTENDS Deferred, TLC
CONSTANTS a, b
Alike == Permutations(Tasks)
===============================================================================
