------------------------------ MODULE MainLoop ------------------------------
(***************************************************************************)
(* Server.Run and the broadcasts of Global and Wallops among clients that  *)
(* come, rename themselves, send to and kill each other, at the            *)
(* granularity of the locks and channels they share: the registry          *)
(* server.clients with its read-write lock and each client's unbuffered    *)
(* channel replies.  A broadcast holds the registry's read lock while it   *)
(* sends and does not look at hasQuit; a send on a closed channel panics.  *)
(*                                                                         *)
(* Sockets and timers are module Teardown's: here a timer may fire at any  *)
(* time, and Socket.Close waits until the client's reader is out of Read.  *)
(***************************************************************************)
EXTENDS Clients, Naturals

CONSTANTS
  RunLoop,      \* the goroutine of Server.Run
  Name,         \* lower-case nicknames, the keys of server.clients
  NoName,       \* the empty nickname
  Tasks,        \* what the commands of each client do in a run
  MaxSignals    \* bound on the signals the process gets

(* Commands that answer or send to a client, end one, give oneself (NICK   *)
(* and USER) or somebody else (ONICK) a new entry in the registry, or      *)
(* broadcast.                                                              *)
Task == {"reply", "quit", "renick", "onick", "range"}

ASSUME MainLoopAssumption ==
  /\ RunLoop \notin Client
  /\ NoName \notin Name
  /\ Tasks \in [Client -> SUBSET Task]
  /\ MaxSignals \in Nat

Goroutine == Client \cup {RunLoop}

VARIABLES
  at,          \* where each goroutine stands
  arg,         \* the client it replies to, renames or quits
  todo,        \* the names its broadcast has still to send to
  writer,      \* each client's writer goroutine
  nicks,       \* server.clients: lower-case nickname -> client
  nick,        \* the nickname each client has, lower-case
  quitted,     \* those whose hasQuit is set
  finished,    \* those whose replies is closed
  shut,        \* those whose socket is closed
  back,        \* those put into the registry after hasQuit was set
  crossed,     \* those whom two goroutines have renamed at once
  sent, taken, \* signals sent to server.signals, and taken by Run
  stoppers,    \* goroutines that are to call Stop
  crashed      \* the process has panicked

clientVars == <<writer, quitted, finished, shut>>
registryVars == <<nicks, nick, back, crossed>>
signalVars == <<sent, taken, stoppers>>
mainVars == <<at, arg, todo, writer, nicks, nick, quitted, finished, shut, back, crossed,
              sent, taken, stoppers, crashed>>

At(g, point) == ~crashed /\ at[g] = point
Go(g, point) == at' = [at EXCEPT ![g] = point]

Entries(c) == {n \in Name : nicks[n] = c}
Listed == {c \in Client : Entries(c) # {}}

(* The goroutines inside ChangeNickname of c, SetNickname, or USER.        *)
Renaming(c) == {g \in Client : at[g] \in {"renick", "drop", "rename", "add"} /\ arg[g] = c}

(* Who waits in Socket.Close of c; once the reader is out of Read it comes *)
(* first, and the next Read returns io.EOF.                                *)
Closing(c) == c \in shut \/ \E k \in Client : at[k] = "shut" /\ arg[k] = c

(* The handler, or the case of Run, is done; the reader reads on.          *)
Return(g) ==
  /\ Go(g, CASE g = RunLoop -> "select" [] g # RunLoop /\ Closing(g) -> "done" [] OTHER -> "read")
  /\ arg' = [arg EXCEPT ![g] = g]

-----------------------------------------------------------------------------
MainInit ==
  /\ at = [g \in Goroutine |-> IF g = RunLoop THEN "select" ELSE "read"]
  /\ arg = [g \in Goroutine |-> g]
  /\ todo = [g \in Goroutine |-> {}]
  /\ writer = [c \in Client |-> "recv"]
  /\ nicks = [n \in Name |-> NoClient]
  /\ nick = [c \in Client |-> NoName]
  /\ quitted = {} /\ finished = {} /\ shut = {} /\ back = {} /\ crossed = {}
  /\ sent = 0 /\ taken = 0 /\ stoppers = 0
  /\ crashed = FALSE

(* The reader of g gets a line.  PRIVMSG, KILL and ONICK look their target *)
(* up; ONICK of oneself is a renick.                                       *)
Line(g, task, c) ==
  /\ At(g, "read")
  /\ task = "reply" => c \in Listed
  /\ task = "onick" => c \in Listed \ {g}
  /\ task = "quit" => c \in Listed \cup {g}
  /\ task \in {"renick", "range"} => c = g
  /\ Go(g, IF task = "onick" THEN "renick" ELSE task)
  /\ arg' = [arg EXCEPT ![g] = c]
  /\ crossed' = IF task \in {"renick", "onick"} /\ Renaming(c) # {}
                THEN crossed \cup {c} ELSE crossed
  /\ UNCHANGED <<todo, clientVars, nicks, nick, back, signalVars, crashed>>

(* Client.Reply, and the hand-over to the writer.                          *)
ReplyCheck(g) ==
  /\ At(g, "reply")
  /\ IF arg[g] \in quitted THEN Return(g) ELSE Go(g, "send") /\ UNCHANGED arg
  /\ UNCHANGED <<todo, clientVars, registryVars, signalVars, crashed>>

Panic == crashed' = TRUE /\ UNCHANGED <<at, arg, todo, clientVars, registryVars, signalVars>>

ReplySend(g) ==
  /\ At(g, "send")
  /\ IF arg[g] \in finished THEN Panic
     ELSE /\ writer[arg[g]] = "recv"
          /\ writer' = [writer EXCEPT ![arg[g]] = "write"]
          /\ Return(g)
          /\ UNCHANGED <<todo, quitted, finished, shut, registryVars, signalVars, crashed>>

WriteDone(c) ==
  /\ ~crashed /\ writer[c] = "write"
  /\ writer' = [writer EXCEPT ![c] = "recv"]
  /\ UNCHANGED <<at, arg, todo, quitted, finished, shut, registryVars, signalVars, crashed>>

(* Mutant of WriterEnds: the writer ends as soon as the client has quit.   *)
WriterEndsEarly(c) ==
  /\ ~crashed /\ writer[c] = "recv" /\ c \in quitted
  /\ writer' = [writer EXCEPT ![c] = "done"]
  /\ UNCHANGED <<at, arg, todo, quitted, finished, shut, registryVars, signalVars, crashed>>

WriterEnds(c) ==
  /\ ~crashed /\ writer[c] = "recv" /\ c \in finished
  /\ writer' = [writer EXCEPT ![c] = "done"]
  /\ UNCHANGED <<at, arg, todo, quitted, finished, shut, registryVars, signalVars, crashed>>

-----------------------------------------------------------------------------
(* The registry's lock: a Lock that has been called keeps new readers out  *)
(* and waits for the broadcasts that hold the read lock.                   *)
LockCalled == \E g \in Goroutine : at[g] \in {"delete", "drop", "add"}
ReadLocked == \E g \in Goroutine : at[g] = "cast"

(* ClientLookupSet.Remove: Get of the nickname the client has now, then    *)
(* Lock and delete of the nickname it has by then.                         *)
RemoveGet(g, here, found, next) ==
  /\ At(g, here) /\ ~LockCalled
  /\ LET n == nick[arg[g]]
     IN Go(g, IF n # NoName /\ nicks[n] = arg[g] THEN found ELSE next)
  /\ UNCHANGED <<arg, todo, clientVars, registryVars, signalVars, crashed>>

RemoveDelete(g, here, next) ==
  /\ At(g, here) /\ ~ReadLocked
  /\ nicks' = [nicks EXCEPT ![nick[arg[g]]] = NoClient]
  /\ Go(g, next)
  /\ UNCHANGED <<arg, todo, clientVars, nick, back, crossed, signalVars, crashed>>

(* The new nickname, or for USER the old one.  NICK and ONICK have asked   *)
(* for it before Remove; by now it may be anybody's.                       *)
Rename(g, n) ==
  /\ At(g, "rename")
  /\ nick' = [nick EXCEPT ![arg[g]] = n]
  /\ Go(g, "add")
  /\ UNCHANGED <<arg, todo, clientVars, nicks, back, crossed, signalVars, crashed>>

(* ClientLookupSet.Add writes the entry under the nickname the client has  *)
(* by then, unless it found that taken before.  The answer follows.        *)
AddEntry(g, refused) ==
  /\ At(g, "add") /\ ~ReadLocked
  /\ nicks' = IF refused THEN nicks ELSE [nicks EXCEPT ![nick[arg[g]]] = arg[g]]
  /\ back' = IF ~refused /\ arg[g] \in quitted THEN back \cup {arg[g]} ELSE back
  /\ Go(g, "reply")
  /\ UNCHANGED <<arg, todo, clientVars, nick, crossed, signalVars, crashed>>

(* Client.Quit: hasQuit.Get, hasQuit.Set, then destroy.                    *)
QuitCheck(g) ==
  /\ At(g, "quit")
  /\ IF arg[g] \in quitted THEN Return(g) ELSE Go(g, "set") /\ UNCHANGED arg
  /\ UNCHANGED <<todo, clientVars, registryVars, signalVars, crashed>>

(* Mutant of QuitSet: destroy does not take the client off the registry.   *)
QuitSetKeepsEntry(g) ==
  /\ At(g, "set")
  /\ quitted' = quitted \cup {arg[g]}
  /\ Go(g, "close")
  /\ UNCHANGED <<arg, todo, writer, finished, shut, registryVars, signalVars, crashed>>

QuitSet(g) ==
  /\ At(g, "set")
  /\ quitted' = quitted \cup {arg[g]}
  /\ Go(g, "unlist")
  /\ UNCHANGED <<arg, todo, writer, finished, shut, registryVars, signalVars, crashed>>

CloseReplies(g) ==
  /\ At(g, "close")
  /\ IF arg[g] \in finished THEN Panic
     ELSE /\ finished' = finished \cup {arg[g]}
          /\ Go(g, "shut")
          /\ UNCHANGED <<arg, todo, writer, quitted, shut, registryVars, signalVars, crashed>>

SocketClose(g) ==
  /\ At(g, "shut") /\ at[arg[g]] # "read"
  /\ shut' = shut \cup {arg[g]}
  /\ Return(g)
  /\ UNCHANGED <<todo, writer, quitted, finished, registryVars, signalVars, crashed>>

-----------------------------------------------------------------------------
(* Server.Global and Wallops: Range sends once for every entry, and the    *)
(* entries stay while the read lock is held.                               *)
RangeStarts(g) ==
  /\ At(g, "range") /\ ~LockCalled
  /\ todo' = [todo EXCEPT ![g] = {n \in Name : nicks[n] # NoClient}]
  /\ Go(g, "cast")
  /\ UNCHANGED <<arg, clientVars, registryVars, signalVars, crashed>>

CastSends(g, n) ==
  /\ At(g, "cast") /\ n \in todo[g]
  /\ IF nicks[n] \in finished THEN Panic
     ELSE /\ writer[nicks[n]] = "recv"
          /\ writer' = [writer EXCEPT ![nicks[n]] = "write"]
          /\ todo' = [todo EXCEPT ![g] = @ \ {n}]
          /\ UNCHANGED <<at, arg, quitted, finished, shut, registryVars, signalVars, crashed>>

CastEnds(g) ==
  /\ At(g, "cast") /\ todo[g] = {}
  /\ IF g = RunLoop THEN Go(g, "spawn") /\ UNCHANGED arg ELSE Return(g)
  /\ UNCHANGED <<todo, clientVars, registryVars, signalVars, crashed>>

-----------------------------------------------------------------------------
(* The cases of Run.  An idle timer may have fired at any time, and its    *)
(* goroutine waits to send the client on server.idle whatever becomes of   *)
(* the client meanwhile.                                                   *)
RunTakesIdle(c) ==
  /\ At(RunLoop, "select")
  /\ Go(RunLoop, "reply")
  /\ arg' = [arg EXCEPT ![RunLoop] = c]
  /\ UNCHANGED <<todo, clientVars, registryVars, signalVars, crashed>>

Signal ==
  /\ ~crashed /\ sent < MaxSignals
  /\ sent' = sent + 1
  /\ UNCHANGED <<at, arg, todo, clientVars, registryVars, taken, stoppers, crashed>>

RunTakesSignal ==
  /\ At(RunLoop, "select") /\ taken < sent
  /\ taken' = taken + 1
  /\ Go(RunLoop, "range")
  /\ UNCHANGED <<arg, todo, clientVars, registryVars, sent, stoppers, crashed>>

(* Mutant of RunSpawns: nobody is left to call Stop.                       *)
RunForgetsStop ==
  /\ At(RunLoop, "spawn")
  /\ Go(RunLoop, "select")
  /\ UNCHANGED <<arg, todo, clientVars, registryVars, signalVars, crashed>>

RunSpawns ==
  /\ At(RunLoop, "spawn")
  /\ stoppers' = stoppers + 1
  /\ Go(RunLoop, "select")
  /\ UNCHANGED <<arg, todo, clientVars, registryVars, sent, taken, crashed>>

RunStops ==
  /\ At(RunLoop, "select") /\ stoppers > 0
  /\ stoppers' = stoppers - 1
  /\ Go(RunLoop, "done")
  /\ UNCHANGED <<arg, todo, clientVars, registryVars, sent, taken, crashed>>

-----------------------------------------------------------------------------
Reply(g) == ReplyCheck(g) \/ ReplySend(g)
Broadcast(g) == RangeStarts(g) \/ CastEnds(g) \/ \E n \in Name : CastSends(g, n)
Renick(g) == \/ RemoveGet(g, "renick", "drop", "rename") \/ RemoveDelete(g, "drop", "rename")
             \/ \E n \in Name : Rename(g, n)
             \/ \E refused \in BOOLEAN : AddEntry(g, refused)
Quit(g) == \/ QuitCheck(g) \/ QuitSet(g) \/ CloseReplies(g) \/ SocketClose(g)
           \/ RemoveGet(g, "unlist", "delete", "close") \/ RemoveDelete(g, "delete", "close")
Writer(c) == WriteDone(c) \/ WriterEnds(c)

(* The steps of a goroutine but for waiting for a line or a select case.   *)
Steps(g) ==
  \/ Reply(g) \/ Broadcast(g)
  \/ g \in Client /\ (Renick(g) \/ Quit(g))
  \/ g = RunLoop /\ RunSpawns

MainNext ==
  \/ \E g \in Goroutine : Steps(g)
  \/ \E g, c \in Client : \E task \in Tasks[g] : Line(g, task, c)
  \/ \E c \in Client : Writer(c) \/ RunTakesIdle(c)
  \/ Signal \/ RunTakesSignal \/ RunStops

MainSpec == MainInit /\ [][MainNext]_mainVars

(* Goroutines run, who waits for a lock or in a channel is served in turn, *)
(* a select picks any case that stays ready, and peers read what is        *)
(* written to them: one that does not keeps everybody who sends to it      *)
(* waiting, the main loop too.  Nothing is assumed of what peers send.     *)
MainFairness ==
  /\ \A g \in Goroutine : SF_mainVars(Steps(g))
  /\ \A c \in Client : WF_mainVars(Writer(c))
  /\ SF_mainVars(RunTakesSignal) /\ SF_mainVars(RunStops)

MainFairSpec == MainSpec /\ MainFairness

-----------------------------------------------------------------------------
MainTypeOK ==
  /\ at \in [Goroutine -> {"read", "reply", "send", "renick", "drop", "rename", "add", "quit",
                           "set", "unlist", "delete", "close", "shut", "range",
                           "cast", "done", "select", "spawn"}]
  /\ arg \in [Goroutine -> Goroutine]
  /\ todo \in [Goroutine -> SUBSET Name]
  /\ writer \in [Client -> {"recv", "write", "done"}]
  /\ nicks \in [Name -> Client \cup {NoClient}]
  /\ nick \in [Client -> Name \cup {NoName}]
  /\ quitted \subseteq Client /\ finished \subseteq Client
  /\ shut \subseteq Client /\ back \subseteq Client /\ crossed \subseteq Client
  /\ sent \in Nat /\ taken \in Nat /\ stoppers \in Nat
  /\ crashed \in BOOLEAN

(* A broadcast does not send on a closed channel: no entry it has still to *)
(* send to goes away under it, and destroy takes the client off the        *)
(* registry, where it has one entry at most, before it closes replies.     *)
(* Excepted are clients that quit and were put back by a command that was  *)
(* under way, and clients that two goroutines have renamed at once, an     *)
(* operator's ONICK and their own NICK: these may be left under two names, *)
(* of which destroy removes one.                                           *)
BroadcastSafe ==
  \A g \in Goroutine : at[g] = "cast" =>
    \A n \in todo[g] : /\ nicks[n] # NoClient
                       /\ nicks[n] \in finished => nicks[n] \in back \cup crossed

(* The main loop always comes back to its select, whatever broadcasts,     *)
(* kills and renames happen while it pings or announces the shutdown.      *)
MainLoopReturns == []<>(at[RunLoop] \in {"select", "done"} \/ crashed)

(* A signal ends the server, even while clients come, go and are idle.     *)
ShutdownStops == sent > 0 ~> at[RunLoop] = "done" \/ crashed
=============================================================================
