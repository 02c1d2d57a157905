------------------------------- MODULE MCRequests -------------------------------
(* Three tasks and two threads: names and a file at once; one of them       *)
(* cancelled; a task with two requests, the first of which is given up.     *)
EXTENDS Requests
CONSTANTS a, b, c, u, v
Make(x, y, z) == a :> x @@ b :> y @@ c :> z
TheScenes ==
    {[code |-> Make(<<"name">>, <<"name">>, <<"file">>), cancels |-> C] : C \in {{}, {a}}}
    \cup {[code |-> Make(<<"name">>, <<"name">>, <<"name">>), cancels |-> {b}],
          [code |-> Make(<<"file", "file">>, <<"file">>, <<>>), cancels |-> {a}]}
===============================================================================
