-------------------------------- MODULE MCProcess --------------------------------
EXTENDS Process
CONSTANTS a, b, x, y
Instances ==
    {[procs |-> {x, y}, piped |-> {}, joins |-> 1],
     [procs |-> {x}, piped |-> {}, joins |-> 2],
     [procs |-> {x}, piped |-> {x}, joins |-> 1]}
===============================================================================
