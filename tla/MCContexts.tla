------------------------------- MODULE MCContexts -------------------------------
EXTENDS Contexts, TLC
CONSTANTS a, b
Alike == Permutations(Tasks)
===============================================================================
