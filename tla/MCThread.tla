-------------------------------- MODULE MCThread --------------------------------
EXTENDS Thread
CONSTANTS a, b
TheScenes == {[tasks |-> {a, b}, threads |-> 1], [tasks |-> {a}, threads |-> 2]}
===============================================================================
