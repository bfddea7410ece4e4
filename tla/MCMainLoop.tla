----------------------------- MODULE MCMainLoop -----------------------------
(* One client renames itself; the other broadcasts, gives the first one    *)
(* another nickname, kills it or quits: with the idle ping and the         *)
(* shutdown of the main loop, every pair of users of the registry's lock   *)
(* and of a client's replies.                                              *)
EXTENDS MainLoop, TLC

CONSTANTS c1, c2

MCTasks == (c1 :> {"renick"} @@ c2 :> {"quit", "onick", "range"})

(* Names are interchangeable: a state is told by what each of them is used *)
(* for, and no action or property tells one name from another.             *)
MCView ==
  <<at, arg, writer, quitted, finished, shut, back, crossed, sent, taken, stoppers, crashed,
    {<<nicks[n], {c \in Client : nick[c] = n}, {g \in Goroutine : n \in todo[g]}>> : n \in Name}>>
=============================================================================
