------------------------------ MODULE MCShared ------------------------------
(* The structures that goroutines share, at the granularity of their       *)
(* locks.  They have no state in common: a behaviour runs one of them,     *)
(* chosen at the start, and the others rest in their initial state.        *)
EXTENDS Lookup, JoinRace, UserMask, WhoWasLock, Rehash, TLC

VARIABLE part

Runs(p, next, theirs) == part = p /\ next /\ UNCHANGED <<part, theirs>>

MCInit ==
  /\ part \in {"lookup", "join", "mask", "whowas", "rehash"}
  /\ LookupInit /\ JoinInit /\ MaskInit /\ LockInit /\ RehashInit

MCNext ==
  \/ Runs("lookup", LookupNext, <<joinVars, maskVars, lockVars, rehashVars>>)
  \/ Runs("join", JoinNext, <<lookupVars, maskVars, lockVars, rehashVars>>)
  \/ Runs("mask", MaskNext, <<lookupVars, joinVars, lockVars, rehashVars>>)
  \/ Runs("whowas", LockNext, <<lookupVars, joinVars, maskVars, rehashVars>>)
  \/ Runs("rehash", RehashNext, <<lookupVars, joinVars, maskVars, lockVars>>)

MCSpec == MCInit /\ [][MCNext]_<<part, lookupVars, joinVars, maskVars, lockVars, rehashVars>>

(* Channel objects are interchangeable, and so are the finders.            *)
MCSymmetry == Permutations(Chan) \cup Permutations(Finder)

-----------------------------------------------------------------------------
(* Lookup: two spellings of one nickname and another one.                  *)
MCNick == {"a", "A", "b"}
MCFold == [n \in MCNick |-> IF n = "b" THEN "b" ELSE "a"]

(* UserMask: masks with and without wildcards, and texts that each of them *)
(* tells apart.                                                            *)
MCMask == {<<"a">>, <<"b", "a">>, <<"*">>, <<"a", "*">>, <<"?", "b">>, <<"*", "b">>}
MCUserHost == UNION {[1 .. n -> {"a", "b"}] : n \in 1 .. 3}

(* WhoWas: two entries with different nicknames.                           *)
MCNickOf == [e \in Entry |-> IF e = 1 THEN "a" ELSE "b"]

(* Rehash: a good file, three that change it, drop a setting or add an     *)
(* operator, one with a bad server name and one with a bad password.       *)
MCFileOf(name, motd, operators) ==
  [readable |-> TRUE, listens |-> TRUE, name |-> name, motd |-> motd, network |-> "net",
   description |-> Unset, operators |-> operators]
MCInitFile == MCFileOf("a.b", "m1", "joe" :> "p")
MCFile ==
  {MCInitFile, MCFileOf("c.d", Unset, "joe" :> "q"), MCFileOf("c.d", "m2", "ann" :> "q"),
   MCFileOf("nohost", "m2", <<>>), MCFileOf("a.b", "m1", "bob" :> Undecoded)}
=============================================================================
