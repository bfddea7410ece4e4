------------------------------ MODULE MCWhoWas ------------------------------
(* Two entries with different nicknames in a ring of four slots, which     *)
(* wraps around after the third.                                           *)
EXTENDS WhoWasLock

MCNickOf == [e \in Entry |-> IF e = 1 THEN "a" ELSE "b"]
=============================================================================
