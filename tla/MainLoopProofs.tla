--------------------------- MODULE MainLoopProofs ---------------------------
(***************************************************************************)
(* Broadcasts and closed channels, for any number of clients, whatever     *)
(* their commands do and however many signals come.                        *)
(***************************************************************************)
EXTENDS MainLoop, TLAPS

(* A reader always works on a client.                                      *)
ArgsTyped == \A g \in Client : arg[g] \in Client

(* The registry's lock keeps every entry that a broadcast has still to     *)
(* send to.                                                                *)
CastKept == \A g \in Goroutine : at[g] = "cast" => \A n \in todo[g] : nicks[n] # NoClient

(* A client that never had two goroutines renaming it at once has at most  *)
(* one entry, under the nickname it has, and none while it is renamed.     *)
Unlisted(c) == \A n \in Name : nicks[n] # c

EntryOwn == \A c \in Client \ crossed : \A n \in Name : nicks[n] = c => nick[c] = n

RenamedOff ==
  \A g \in Client : at[g] = "rename" /\ arg[g] \notin crossed => Unlisted(arg[g])

OneRenamer == \A c \in Client \ crossed : \A g, h \in Renaming(c) : g = h

(* destroy runs on a client whose hasQuit is set, and so replies is closed *)
(* of such clients only.                                                   *)
QuitFirst ==
  /\ \A g \in Goroutine : at[g] \in {"unlist", "delete", "close"} => arg[g] \in quitted
  /\ finished \subseteq quitted

(* Before replies is closed the client is off the registry, and it only    *)
(* comes back as one that has quit.                                        *)
UnlistedFirst ==
  /\ \A g \in Client : at[g] = "close" => arg[g] \in back \cup crossed \/ Unlisted(arg[g])
  /\ \A n \in Name : nicks[n] \in finished => nicks[n] \in back \cup crossed

MainInv ==
  /\ MainTypeOK /\ ArgsTyped /\ CastKept
  /\ EntryOwn /\ RenamedOff /\ OneRenamer
  /\ QuitFirst /\ UnlistedFirst

LEMMA MainInitial == MainInit => MainInv
<1> SUFFICES ASSUME MainInit PROVE MainInv
  OBVIOUS
<1> USE MainLoopAssumption DEF MainInit, Goroutine
<1>1. crashed \in BOOLEAN
  OBVIOUS
<1>2. /\ at \in [Goroutine -> {"read", "select"}]
      /\ arg \in [Goroutine -> Goroutine] /\ ArgsTyped
      /\ todo \in [Goroutine -> SUBSET Client]
      /\ writer \in [Client -> {"recv", "write", "done"}]
  BY DEF ArgsTyped
<1>3. MainTypeOK
  BY <1>1, <1>2 DEF MainTypeOK
<1>4. CastKept /\ EntryOwn /\ RenamedOff /\ OneRenamer /\ QuitFirst /\ UnlistedFirst
  BY <1>2, ClientsAssumption
  DEF CastKept, EntryOwn, RenamedOff, OneRenamer, Renaming, QuitFirst, UnlistedFirst
<1> QED BY <1>2, <1>3, <1>4 DEF MainInv

LEMMA MainStutter == MainInv /\ UNCHANGED mainVars => MainInv'
BY DEF mainVars, MainInv, MainTypeOK, ArgsTyped, CastKept, EntryOwn, RenamedOff, OneRenamer,
       Renaming, Unlisted, QuitFirst, UnlistedFirst

(* A panic changes nothing else.                                           *)
LEMMA PanicKeeps == MainInv /\ Panic => MainInv'
BY DEF Panic, clientVars, registryVars, signalVars,
       MainInv, MainTypeOK, ArgsTyped, CastKept, EntryOwn, RenamedOff, OneRenamer,
       Renaming, Unlisted, QuitFirst, UnlistedFirst

(* A step that leaves registry, flags and broadcasts alone, and takes its  *)
(* goroutine to a place where nothing is claimed of it.                    *)
LEMMA QuietKeeps ==
  ASSUME MainInv, NEW g \in Goroutine,
         NEW p \in {"read", "reply", "send", "quit", "set", "shut",
                    "range", "done", "select", "spawn"},
         at' = [at EXCEPT ![g] = p],
         arg' = arg \/ \E c \in Goroutine : arg' = [arg EXCEPT ![g] = c] /\ (g \in Client => c \in Client),
         writer' \in [Client -> {"recv", "write", "done"}],
         UNCHANGED <<todo, nicks, nick, quitted, finished, back, crossed>>,
         shut' \subseteq Client, sent' \in Nat, taken' \in Nat, stoppers' \in Nat, crashed' \in BOOLEAN
  PROVE  MainInv'
<1> USE MainLoopAssumption DEF MainInv, MainTypeOK, Goroutine
<1>1. MainTypeOK' /\ ArgsTyped'
  BY DEF ArgsTyped
<1>2. CastKept'
  BY DEF CastKept
<1>3. EntryOwn' /\ RenamedOff' /\ OneRenamer'
  BY DEF EntryOwn, RenamedOff, OneRenamer, Renaming, Unlisted
<1>4. QuitFirst'
  BY DEF QuitFirst
<1>5. UnlistedFirst'
  BY DEF UnlistedFirst, Unlisted
<1> QED BY <1>1, <1>2, <1>3, <1>4, <1>5

(* The same for the end of a handler.                                      *)
LEMMA ReturnKeeps ==
  ASSUME MainInv, NEW g \in Goroutine, Return(g),
         writer' \in [Client -> {"recv", "write", "done"}], shut' \subseteq Client,
         UNCHANGED <<todo, nicks, nick, quitted, finished, back, crossed, sent, taken, stoppers, crashed>>
  PROVE  MainInv'
<1>1. PICK p \in {"select", "done", "read"} : at' = [at EXCEPT ![g] = p]
  BY DEF Return, Go
<1>2. arg' = [arg EXCEPT ![g] = g]
  BY DEF Return
<1>3. sent' \in Nat /\ taken' \in Nat /\ stoppers' \in Nat /\ crashed' \in BOOLEAN
  BY DEF MainInv, MainTypeOK
<1> QED BY <1>1, <1>2, <1>3, QuietKeeps

-----------------------------------------------------------------------------
(* A line starts a handler; whom two handlers rename at once is crossed.   *)
LEMMA LineKeeps ==
  ASSUME MainInv, NEW g \in Client, NEW c \in Client, NEW task \in Tasks[g], Line(g, task, c)
  PROVE  MainInv'
<1> USE MainLoopAssumption DEF clientVars, signalVars, Goroutine
<1>1. task \in {"reply", "quit", "renick", "onick", "range"}
  BY DEF Task
<1>2. CASE task \in {"reply", "quit", "range"}
  <2>1. /\ at' = [at EXCEPT ![g] = task] /\ arg' = [arg EXCEPT ![g] = c]
        /\ crossed' = crossed
    BY <1>2 DEF Line, Go
  <2> QED BY <1>2, <2>1, QuietKeeps DEF Line, MainInv, MainTypeOK
<1>3. CASE task \in {"renick", "onick"}
  <2> USE DEF MainInv, MainTypeOK, Line, At, Go
  <2>1. /\ at' = [at EXCEPT ![g] = "renick"] /\ arg' = [arg EXCEPT ![g] = c]
        /\ crossed' = IF Renaming(c) # {} THEN crossed \cup {c} ELSE crossed
        /\ UNCHANGED <<todo, nicks, nick, back, quitted, finished>>
    BY <1>3
  <2>2. MainTypeOK' /\ ArgsTyped'
    BY <2>1 DEF ArgsTyped
  <2>3. CastKept'
    BY <2>1 DEF CastKept
  <2>4. EntryOwn' /\ RenamedOff'
    BY <2>1 DEF EntryOwn, RenamedOff, Unlisted
  <2>5. OneRenamer'
    BY <2>1 DEF OneRenamer, Renaming
  <2>6. QuitFirst' /\ UnlistedFirst'
    BY <2>1 DEF QuitFirst, UnlistedFirst, Unlisted
  <2> QED BY <2>2, <2>3, <2>4, <2>5, <2>6
<1> QED BY <1>1, <1>2, <1>3

LEMMA ReplyKeeps ==
  ASSUME MainInv, NEW g \in Goroutine, Reply(g)
  PROVE  MainInv'
<1> USE DEF clientVars, registryVars, signalVars, Goroutine
<1>1. CASE ReplyCheck(g) /\ Return(g)
  BY <1>1, ReturnKeeps DEF ReplyCheck, MainInv, MainTypeOK
<1>2. CASE ReplyCheck(g) /\ Go(g, "send") /\ UNCHANGED arg
  BY <1>2, QuietKeeps DEF ReplyCheck, Go, MainInv, MainTypeOK
<1>3. CASE ReplySend(g) /\ Panic
  BY <1>3, PanicKeeps
<1>4. CASE ReplySend(g) /\ ~Panic
  <2>1. writer' \in [Client -> {"recv", "write", "done"}]
    BY <1>4 DEF ReplySend, MainInv, MainTypeOK
  <2> QED BY <1>4, <2>1, ReturnKeeps DEF ReplySend, MainInv, MainTypeOK
<1> QED BY <1>1, <1>2, <1>3, <1>4 DEF Reply, ReplyCheck

LEMMA WriterKeeps ==
  ASSUME MainInv, NEW c \in Client, Writer(c)
  PROVE  MainInv'
BY DEF Writer, WriteDone, WriterEnds, registryVars, signalVars,
       MainInv, MainTypeOK, ArgsTyped, CastKept, EntryOwn, RenamedOff, OneRenamer,
       Renaming, Unlisted, QuitFirst, UnlistedFirst

-----------------------------------------------------------------------------
(* The broadcast: every entry there is at its start, then ever fewer.      *)
LEMMA BroadcastKeeps ==
  ASSUME MainInv, NEW g \in Goroutine, Broadcast(g)
  PROVE  MainInv'
<1> USE DEF clientVars, registryVars, signalVars
<1>1. CASE RangeStarts(g)
  <2> USE <1>1 DEF RangeStarts, At, Go, MainInv, MainTypeOK
  <2>1. MainTypeOK' /\ ArgsTyped'
    BY DEF ArgsTyped
  <2>2. CastKept'
    BY DEF CastKept
  <2>3. EntryOwn' /\ RenamedOff' /\ OneRenamer'
    BY DEF EntryOwn, RenamedOff, OneRenamer, Renaming, Unlisted
  <2>4. QuitFirst' /\ UnlistedFirst'
    BY DEF QuitFirst, UnlistedFirst, Unlisted
  <2> QED BY <2>1, <2>2, <2>3, <2>4
<1>2. CASE \E n \in Name : CastSends(g, n)
  <2> PICK n \in Name : CastSends(g, n)
    BY <1>2
  <2>1. CASE Panic
    BY <2>1, PanicKeeps
  <2>2. CASE ~Panic
    <3> USE <2>2 DEF CastSends, At, MainInv, MainTypeOK
    <3>1. MainTypeOK' /\ ArgsTyped'
      BY DEF ArgsTyped
    <3>2. CastKept'
      BY DEF CastKept
    <3>3. EntryOwn' /\ RenamedOff' /\ OneRenamer'
      BY DEF EntryOwn, RenamedOff, OneRenamer, Renaming, Unlisted
    <3>4. QuitFirst' /\ UnlistedFirst'
      BY DEF QuitFirst, UnlistedFirst, Unlisted
    <3> QED BY <3>1, <3>2, <3>3, <3>4
  <2> QED BY <2>1, <2>2
<1>3. CASE CastEnds(g) /\ Return(g)
  BY <1>3, ReturnKeeps DEF CastEnds, MainInv, MainTypeOK, Goroutine
<1>4. CASE CastEnds(g) /\ Go(g, "spawn") /\ UNCHANGED arg
  BY <1>4, QuietKeeps DEF CastEnds, Go, MainInv, MainTypeOK, Goroutine
<1> QED BY <1>1, <1>2, <1>3, <1>4 DEF Broadcast, CastEnds

(* No entry goes away while a broadcast runs, and a client that is not     *)
(* crossed has none afterwards.                                            *)
LEMMA RemoveDeleteKeeps ==
  ASSUME MainInv, NEW g \in Client,
         \/ RemoveDelete(g, "drop", "rename") \/ RemoveDelete(g, "delete", "close")
  PROVE  MainInv'
<1> USE MainLoopAssumption, ClientsAssumption
    DEF RemoveDelete, At, Go, clientVars, signalVars, MainInv, MainTypeOK, Goroutine
<1>1. MainTypeOK' /\ ArgsTyped'
  BY DEF ArgsTyped
<1>2. CastKept'
  BY DEF CastKept, ReadLocked
<1>3. \A n \in Name : nicks'[n] = nicks[n] \/ nicks'[n] = NoClient
  OBVIOUS
<1>4. arg[g] \in Client /\ (arg[g] \notin crossed => Unlisted(arg[g])')
  BY DEF ArgsTyped, EntryOwn, Unlisted
<1>5. \A h \in Goroutine \ {g} : at'[h] = at[h]
  OBVIOUS
<1>6. EntryOwn'
  BY <1>3 DEF EntryOwn
<1>7. RenamedOff'
  BY <1>3, <1>4, <1>5 DEF RenamedOff, Unlisted, ArgsTyped
<1>8. OneRenamer'
  BY <1>5 DEF OneRenamer, Renaming
<1>9. QuitFirst'
  BY DEF QuitFirst
<1>10. UnlistedFirst'
  <2>1. ASSUME NEW h \in Client, at'[h] = "close"
        PROVE  arg[h] \in back \cup crossed \/ Unlisted(arg[h])'
    <3>1. CASE h = g
      BY <1>4, <3>1
    <3>2. CASE h # g
      BY <1>3, <1>5, <2>1, <3>2 DEF UnlistedFirst, Unlisted, ArgsTyped
    <3> QED BY <3>1, <3>2
  <2>2. finished \subseteq Client
    OBVIOUS
  <2> QED BY <1>3, <2>1, <2>2 DEF UnlistedFirst
<1> QED BY <1>1, <1>2, <1>6, <1>7, <1>8, <1>9, <1>10

(* The new entry is the only one of a client that is not crossed, and who  *)
(* has quit and enters again is back.                                      *)
LEMMA AddEntryKeeps ==
  ASSUME MainInv, NEW g \in Client, NEW refused \in BOOLEAN, AddEntry(g, refused)
  PROVE  MainInv'
<1> USE MainLoopAssumption, ClientsAssumption
    DEF AddEntry, At, Go, clientVars, signalVars, MainInv, MainTypeOK, Goroutine
<1>1. MainTypeOK' /\ ArgsTyped'
  BY DEF ArgsTyped
<1>2. CastKept'
  BY DEF CastKept, ReadLocked
<1>3. /\ arg[g] \in Client /\ nick' = nick /\ crossed' = crossed /\ back \subseteq back'
      /\ \A h \in Goroutine \ {g} : at'[h] = at[h]
      /\ at[g] = "add" /\ at'[g] = "reply"
  BY DEF ArgsTyped
<1>4. \A n \in Name : \/ nicks'[n] = nicks[n]
                      \/ /\ nicks'[n] = arg[g] /\ nick[arg[g]] = n
                         /\ arg[g] \in quitted => arg[g] \in back'
  BY <1>3
<1>5. EntryOwn'
  BY <1>3, <1>4 DEF EntryOwn
<1>6. RenamedOff'
  <2>1. ASSUME NEW h \in Client, at'[h] = "rename", arg[h] \notin crossed, NEW n \in Name
        PROVE  nicks'[n] # arg[h]
    <3>1. h # g /\ at[h] = "rename" /\ arg[h] \in Client
      BY <1>3, <2>1 DEF ArgsTyped
    <3>2. arg[h] # arg[g]
      BY <1>3, <2>1, <3>1 DEF OneRenamer, Renaming
    <3> QED BY <1>4, <2>1, <3>1, <3>2 DEF RenamedOff, Unlisted
  <2> QED BY <2>1 DEF RenamedOff, Unlisted
<1>7. OneRenamer'
  BY <1>3 DEF OneRenamer, Renaming
<1>8. QuitFirst'
  BY DEF QuitFirst
<1>9. UnlistedFirst'
  BY <1>3, <1>4 DEF UnlistedFirst, Unlisted, QuitFirst
<1> QED BY <1>1, <1>2, <1>5, <1>6, <1>7, <1>8, <1>9

LEMMA RenickKeeps ==
  ASSUME MainInv, NEW g \in Client, Renick(g)
  PROVE  MainInv'
<1> USE MainLoopAssumption DEF clientVars, registryVars, signalVars, Goroutine
<1>1. CASE RemoveGet(g, "renick", "drop", "rename")
  <2> USE <1>1 DEF RemoveGet, At, Go, MainInv, MainTypeOK
  <2>1. MainTypeOK' /\ ArgsTyped'
    BY DEF ArgsTyped
  <2>2. CastKept'
    BY DEF CastKept
  <2>3. at'[g] = "rename" /\ arg[g] \notin crossed => Unlisted(arg[g])
    BY DEF EntryOwn, Unlisted, ArgsTyped
  <2>4. EntryOwn' /\ RenamedOff'
    BY <2>3 DEF EntryOwn, RenamedOff, Unlisted
  <2>5. OneRenamer'
    BY DEF OneRenamer, Renaming
  <2>6. QuitFirst' /\ UnlistedFirst'
    BY DEF QuitFirst, UnlistedFirst, Unlisted
  <2> QED BY <2>1, <2>2, <2>4, <2>5, <2>6
<1>2. CASE RemoveDelete(g, "drop", "rename")
  BY <1>2, RemoveDeleteKeeps
<1>3. CASE \E n \in Name : Rename(g, n)
  <2> PICK n \in Name : Rename(g, n)
    BY <1>3
  <2> USE DEF Rename, At, Go, MainInv, MainTypeOK
  <2>1. MainTypeOK' /\ ArgsTyped'
    BY DEF ArgsTyped
  <2>2. CastKept'
    BY DEF CastKept
  <2>3. EntryOwn' /\ RenamedOff'
    BY DEF EntryOwn, RenamedOff, Unlisted, ArgsTyped
  <2>4. OneRenamer'
    BY DEF OneRenamer, Renaming
  <2>5. QuitFirst' /\ UnlistedFirst'
    BY DEF QuitFirst, UnlistedFirst, Unlisted
  <2> QED BY <2>1, <2>2, <2>3, <2>4, <2>5
<1>4. CASE \E refused \in BOOLEAN : AddEntry(g, refused)
  BY <1>4, AddEntryKeeps
<1> QED BY <1>1, <1>2, <1>3, <1>4 DEF Renick

(* Quit sets hasQuit, takes the client off the registry and then closes    *)
(* replies.                                                                *)
LEMMA QuitKeeps ==
  ASSUME MainInv, NEW g \in Client, Quit(g)
  PROVE  MainInv'
<1> USE MainLoopAssumption DEF clientVars, registryVars, signalVars, Goroutine
<1>1. CASE QuitCheck(g) /\ Return(g)
  BY <1>1, ReturnKeeps DEF QuitCheck, MainInv, MainTypeOK
<1>2. CASE QuitCheck(g) /\ Go(g, "set") /\ UNCHANGED arg
  BY <1>2, QuietKeeps DEF QuitCheck, Go, MainInv, MainTypeOK
<1>3. CASE QuitSet(g)
  <2> USE <1>3 DEF QuitSet, Go, MainInv, MainTypeOK
  <2>1. MainTypeOK' /\ ArgsTyped' /\ CastKept'
    BY DEF ArgsTyped, CastKept
  <2>2. EntryOwn' /\ RenamedOff' /\ OneRenamer'
    BY DEF EntryOwn, RenamedOff, OneRenamer, Renaming, Unlisted
  <2>3. QuitFirst' /\ UnlistedFirst'
    BY DEF QuitFirst, UnlistedFirst, Unlisted
  <2> QED BY <2>1, <2>2, <2>3
<1>4. CASE CloseReplies(g)
  <2>1. CASE Panic
    BY <2>1, PanicKeeps
  <2>2. CASE ~Panic
    <3> USE <1>4, <2>2 DEF CloseReplies, At, Go, MainInv, MainTypeOK
    <3>1. MainTypeOK' /\ ArgsTyped' /\ CastKept'
      BY DEF ArgsTyped, CastKept
    <3>2. EntryOwn' /\ RenamedOff' /\ OneRenamer'
      BY DEF EntryOwn, RenamedOff, OneRenamer, Renaming, Unlisted
    <3>3. QuitFirst' /\ UnlistedFirst'
      BY DEF QuitFirst, UnlistedFirst, Unlisted
    <3> QED BY <3>1, <3>2, <3>3
  <2> QED BY <2>1, <2>2
<1>5. CASE SocketClose(g)
  <2>1. shut' \subseteq Client
    BY <1>5 DEF SocketClose, MainInv, MainTypeOK, ArgsTyped
  <2> QED BY <1>5, <2>1, ReturnKeeps DEF SocketClose, MainInv, MainTypeOK
<1>6. CASE RemoveGet(g, "unlist", "delete", "close")
  <2> USE <1>6 DEF RemoveGet, At, Go, MainInv, MainTypeOK
  <2>1. MainTypeOK' /\ ArgsTyped' /\ CastKept'
    BY DEF ArgsTyped, CastKept
  <2>2. EntryOwn' /\ RenamedOff' /\ OneRenamer'
    BY DEF EntryOwn, RenamedOff, OneRenamer, Renaming, Unlisted
  <2>3. at'[g] = "close" /\ arg[g] \notin crossed => Unlisted(arg[g])
    BY DEF EntryOwn, Unlisted, ArgsTyped
  <2>4. QuitFirst' /\ UnlistedFirst'
    BY <2>3 DEF QuitFirst, UnlistedFirst, Unlisted
  <2> QED BY <2>1, <2>2, <2>4
<1>7. CASE RemoveDelete(g, "delete", "close")
  BY <1>7, RemoveDeleteKeeps
<1> QED BY <1>1, <1>2, <1>3, <1>4, <1>5, <1>6, <1>7 DEF Quit, QuitCheck

(* The cases of Run and the signals touch no client.                       *)
LEMMA RunKeeps ==
  ASSUME MainInv,
         RunSpawns \/ RunTakesSignal \/ RunStops \/ Signal \/ \E c \in Client : RunTakesIdle(c)
  PROVE  MainInv'
<1> USE MainLoopAssumption DEF clientVars, registryVars, signalVars
<1>1. /\ writer \in [Client -> {"recv", "write", "done"}] /\ shut \subseteq Client
      /\ sent \in Nat /\ taken \in Nat /\ stoppers \in Nat /\ crashed \in BOOLEAN
      /\ RunLoop \in Goroutine /\ Client \subseteq Goroutine
  BY DEF MainInv, MainTypeOK, Goroutine
<1>2. CASE RunSpawns
  <2>1. stoppers' \in Nat
    BY <1>1, <1>2 DEF RunSpawns
  <2> QED BY <1>1, <1>2, <2>1, QuietKeeps DEF RunSpawns, Go
<1>3. CASE RunTakesSignal
  <2>1. taken' \in Nat
    BY <1>1, <1>3 DEF RunTakesSignal
  <2> QED BY <1>1, <1>3, <2>1, QuietKeeps DEF RunTakesSignal, Go
<1>4. CASE RunStops
  <2>1. stoppers' \in Nat
    BY <1>1, <1>4 DEF RunStops
  <2> QED BY <1>1, <1>4, <2>1, QuietKeeps DEF RunStops, Go
<1>5. CASE Signal
  BY <1>5 DEF Signal, registryVars, MainInv, MainTypeOK, ArgsTyped, CastKept, EntryOwn, RenamedOff,
              OneRenamer, Renaming, Unlisted, QuitFirst, UnlistedFirst
<1>6. CASE \E c \in Client : RunTakesIdle(c)
  BY <1>1, <1>6, QuietKeeps DEF RunTakesIdle, Go
<1> QED BY <1>2, <1>3, <1>4, <1>5, <1>6

-----------------------------------------------------------------------------
(* What every interleaving of broadcasts, kills, renames and the main loop *)
(* keeps.                                                                  *)
THEOREM MainInvariant == MainSpec => []MainInv
<1>1. MainInv /\ [MainNext]_mainVars => MainInv'
  BY LineKeeps, ReplyKeeps, WriterKeeps, BroadcastKeeps, RenickKeeps, QuitKeeps, RunKeeps,
     MainStutter DEF MainNext, Steps
<1> QED BY MainInitial, <1>1, PTL DEF MainSpec

(* Global and Wallops, which do not look at hasQuit, never send on a       *)
(* closed channel but to a client that quit and was put back, or that two  *)
(* goroutines renamed at once.                                             *)
THEOREM BroadcastCorrect == MainSpec => []BroadcastSafe
<1>1. MainInv => BroadcastSafe
  BY DEF MainInv, MainTypeOK, CastKept, UnlistedFirst, BroadcastSafe
<1> QED BY <1>1, MainInvariant, PTL
=============================================================================
