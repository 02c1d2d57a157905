-------------------------------- MODULE MCSockets --------------------------------
EXTENDS Sockets
CONSTANTS a, b

(* Servers that listen or are only bound, with the connections of other     *)
(* processes; servers that are only bound, with a client of their own.      *)
TcpAndPipe ==
    {[kind |-> k, lazy |-> k = "tcp", accepts |-> 3, connects |-> 0, others |-> 2] :
         k \in {"tcp", "pipe"}}
    \cup {[kind |-> k, lazy |-> TRUE, accepts |-> 2, connects |-> 1, others |-> 0] :
              k \in {"tcp", "pipe"}}
===============================================================================
