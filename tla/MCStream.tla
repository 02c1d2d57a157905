-------------------------------- MODULE MCStream --------------------------------
(* Writers and flush in competition with cancellation and close, and with a *)
(* shutdown of both halves; a reader in competition with timeouts, close    *)
(* and a shutdown, and with a write on the same stream.                     *)
EXTENDS Stream
CONSTANTS a, b
TheScenes ==
    {[ops |-> {"write", "async", "flush", "close"}, cancels |-> {a}, reads |-> 0, writes |-> 3,
      size |-> 2, room |-> 2, buffer |-> 1, input |-> 0, endings |-> {"error"}],
     [ops |-> {"write", "async", "flush", "RDWR"}, cancels |-> {}, reads |-> 0, writes |-> 3,
      size |-> 1, room |-> 2, buffer |-> 1, input |-> 0, endings |-> {}],
     [ops |-> {"read", "timeout", "close", "RD"}, cancels |-> {a}, reads |-> 3, writes |-> 0,
      size |-> 2, room |-> 1, buffer |-> 2, input |-> 2, endings |-> {"eof", "error"}],
     [ops |-> {"read", "write", "WR", "RDWR"}, cancels |-> {}, reads |-> 1, writes |-> 1,
      size |-> 2, room |-> 1, buffer |-> 2, input |-> 1, endings |-> {"eof", "error"}]}
===============================================================================
