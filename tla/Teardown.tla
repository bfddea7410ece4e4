------------------------------ MODULE Teardown ------------------------------
(***************************************************************************)
(* The goroutines around one client, at the granularity at which they      *)
(* really interleave: its reader and writer, its idle and quit timers, the *)
(* server's main loop, another client that sends it something and another  *)
(* that kills it.  Each runs the same code, Client.Reply and Client.Quit,  *)
(* on shared state: hasQuit, the unbuffered channel replies, and the       *)
(* socket's read-write lock.                                               *)
(*                                                                         *)
(* Reply tests hasQuit and then sends; Quit tests hasQuit and then sets    *)
(* it.  A send on the closed channel and a second close both panic, which  *)
(* ends the process.                                                       *)
(***************************************************************************)
EXTENDS Naturals, FiniteSets

CONSTANT Others   \* which of "killer" and "other" take part in a run

ASSUME TeardownAssumption == Others \subseteq {"killer", "other"}

Quitter == {"reader", "timer", "killer"}   \* who may run Client.Quit
Replier == {"reader", "server", "other"}   \* who may run Client.Reply
Goroutine == {"reader", "writer", "timer", "server", "killer", "other"}

VARIABLES
  pc,              \* where each goroutine stands
  crashed,         \* the process has panicked
  hasQuit,         \* client.hasQuit
  repliesClosed,   \* close(client.replies) has happened
  rlocked,         \* who holds the read lock of the socket
  wlocking,        \* whose Lock on the socket is announced, or "none"
  closed,          \* socket.closed
  peerOpen,        \* the peer has not closed the connection
  ended,           \* the reader's last Read returned an error
  idleTimer,       \* armed or not
  idleSent,        \* connectionIdle waits to send to server.idle
  quitTimer        \* armed or not

vars == <<pc, crashed, hasQuit, repliesClosed, rlocked, wlocking, closed,
          peerOpen, ended, idleTimer, idleSent, quitTimer>>
flags == <<crashed, hasQuit, repliesClosed>>
socket == <<rlocked, wlocking, closed>>
timers == <<idleTimer, idleSent, quitTimer>>

At(g, point) == ~crashed /\ pc[g] = point
Go(g, point) == pc' = [pc EXCEPT ![g] = point]

(* Where a goroutine goes on after Reply and after Quit.                   *)
AfterReply(g) == CASE g = "reader" -> "rlock" [] g = "server" -> "arm" [] g = "other" -> "none"
AfterQuit(g) == IF g = "reader" THEN IF ended THEN "done" ELSE "rlock" ELSE "none"

-----------------------------------------------------------------------------
(* NewClient: the idle timer runs, reader and writer start.                *)
Init ==
  /\ pc = [g \in Goroutine |-> CASE g = "reader" -> "rlock" [] g = "writer" -> "recv"
                                 [] g = "server" -> "select" [] OTHER -> "none"]
  /\ crashed = FALSE
  /\ hasQuit = FALSE
  /\ repliesClosed = FALSE
  /\ rlocked = {}
  /\ wlocking = "none"
  /\ closed = FALSE
  /\ peerOpen = TRUE
  /\ ended = FALSE
  /\ idleTimer = TRUE
  /\ idleSent = FALSE
  /\ quitTimer = FALSE

(* Client.Reply                                                            *)
ReplyCheck(g) ==
  /\ At(g, "reply")
  /\ Go(g, IF hasQuit THEN AfterReply(g) ELSE "send")
  /\ UNCHANGED <<flags, socket, peerOpen, ended, timers>>

ReplySend(g) ==
  /\ At(g, "send") /\ ~repliesClosed
  /\ pc["writer"] = "recv"
  /\ pc' = [pc EXCEPT ![g] = AfterReply(g), !["writer"] = "rlock"]
  /\ UNCHANGED <<flags, socket, peerOpen, ended, timers>>

SendPanics(g) ==
  /\ At(g, "send") /\ repliesClosed
  /\ crashed' = TRUE
  /\ UNCHANGED <<pc, hasQuit, repliesClosed, socket, peerOpen, ended, timers>>

(* Client.Quit: hasQuit.Get, hasQuit.Set, then destroy up to the timers.   *)
QuitCheck(g) ==
  /\ At(g, "quit")
  /\ Go(g, IF hasQuit THEN AfterQuit(g) ELSE "set")
  /\ UNCHANGED <<flags, socket, peerOpen, ended, timers>>

QuitSet(g) ==
  /\ At(g, "set")
  /\ hasQuit' = TRUE
  /\ Go(g, "stop")
  /\ UNCHANGED <<crashed, repliesClosed, socket, peerOpen, ended, timers>>

StopTimers(g) ==
  /\ At(g, "stop")
  /\ idleTimer' = FALSE
  /\ quitTimer' = FALSE
  /\ Go(g, "close")
  /\ UNCHANGED <<flags, socket, peerOpen, ended, idleSent>>

CloseReplies(g) ==
  /\ At(g, "close") /\ ~repliesClosed
  /\ repliesClosed' = TRUE
  /\ Go(g, "lock")
  /\ UNCHANGED <<crashed, hasQuit, socket, peerOpen, ended, timers>>

ClosePanics(g) ==
  /\ At(g, "close") /\ repliesClosed
  /\ crashed' = TRUE
  /\ UNCHANGED <<pc, hasQuit, repliesClosed, socket, peerOpen, ended, timers>>

(* Socket.Close: Lock announces itself and then waits for Read and Write.  *)
SocketLock(g) ==
  /\ At(g, "lock") /\ wlocking = "none"
  /\ wlocking' = g
  /\ Go(g, "wait")
  /\ UNCHANGED <<flags, rlocked, closed, peerOpen, ended, timers>>

(* Mutant of SocketClose: it does not wait for Read and Write.             *)
SocketCloseAtOnce(g) ==
  /\ At(g, "wait")
  /\ closed' = TRUE
  /\ wlocking' = "none"
  /\ Go(g, AfterQuit(g))
  /\ UNCHANGED <<flags, rlocked, peerOpen, ended, timers>>

SocketClose(g) ==
  /\ At(g, "wait") /\ rlocked = {}
  /\ closed' = TRUE
  /\ wlocking' = "none"
  /\ Go(g, AfterQuit(g))
  /\ UNCHANGED <<flags, rlocked, peerOpen, ended, timers>>

-----------------------------------------------------------------------------
(* readloop and Socket.Read                                                *)
ReadLock ==
  /\ At("reader", "rlock") /\ wlocking = "none"
  /\ \/ /\ closed
        /\ ended' = TRUE
        /\ Go("reader", "quit")
        /\ UNCHANGED rlocked
     \/ /\ ~closed
        /\ rlocked' = rlocked \cup {"reader"}
        /\ Go("reader", "scan")
        /\ UNCHANGED ended
  /\ UNCHANGED <<flags, wlocking, closed, peerOpen, timers>>

(* A line arrives: QUIT, or a command that is answered or not.  The        *)
(* commands of a registered client touch the timers first; those before    *)
(* registration and lines that do not parse leave them alone.              *)
ReadLine(kind, touches) ==
  /\ At("reader", "scan") /\ peerOpen
  /\ kind = "quit" => ~touches
  /\ rlocked' = rlocked \ {"reader"}
  /\ Go("reader", kind)
  /\ quitTimer' = (quitTimer /\ ~touches)
  /\ idleTimer' = (idleTimer \/ touches)
  /\ UNCHANGED <<flags, wlocking, closed, peerOpen, ended, idleSent>>

(* Mutant of ReadEOF: an early return without RUnlock.                     *)
ReadEOFKeepsLock ==
  /\ At("reader", "scan") /\ ~peerOpen
  /\ ended' = TRUE
  /\ Go("reader", "quit")
  /\ UNCHANGED <<flags, socket, peerOpen, timers>>

ReadEOF ==
  /\ At("reader", "scan") /\ ~peerOpen
  /\ rlocked' = rlocked \ {"reader"}
  /\ ended' = TRUE
  /\ Go("reader", "quit")
  /\ UNCHANGED <<flags, wlocking, closed, peerOpen, timers>>

PeerCloses ==
  /\ ~crashed /\ peerOpen
  /\ peerOpen' = FALSE
  /\ UNCHANGED <<pc, flags, socket, ended, timers>>

(* writeloop and Socket.Write                                              *)
WriteLock ==
  /\ At("writer", "rlock") /\ wlocking = "none"
  /\ \/ closed /\ Go("writer", "recv") /\ UNCHANGED rlocked
     \/ /\ ~closed
        /\ rlocked' = rlocked \cup {"writer"}
        /\ Go("writer", "write")
  /\ UNCHANGED <<flags, wlocking, closed, peerOpen, ended, timers>>

WriteDone ==
  /\ At("writer", "write")
  /\ rlocked' = rlocked \ {"writer"}
  /\ Go("writer", "recv")
  /\ UNCHANGED <<flags, wlocking, closed, peerOpen, ended, timers>>

WriterEnds ==
  /\ At("writer", "recv") /\ repliesClosed
  /\ Go("writer", "done")
  /\ UNCHANGED <<flags, socket, peerOpen, ended, timers>>

-----------------------------------------------------------------------------
(* Timers and main loop: the idle timer's goroutine hands the client to    *)
(* Run, which pings it and starts the quit timer.                          *)
IdleFires ==
  /\ ~crashed /\ idleTimer /\ ~idleSent
  /\ idleTimer' = FALSE
  /\ idleSent' = TRUE
  /\ UNCHANGED <<pc, flags, socket, peerOpen, ended, quitTimer>>

RunTakesIdle ==
  /\ At("server", "select") /\ idleSent
  /\ idleSent' = FALSE
  /\ Go("server", "reply")
  /\ UNCHANGED <<flags, socket, peerOpen, ended, idleTimer, quitTimer>>

(* Mutant of IdleArmsQuit: the quit timer is not started.                  *)
IdleForgetsQuit ==
  /\ At("server", "arm")
  /\ Go("server", "select")
  /\ UNCHANGED <<flags, socket, peerOpen, ended, timers>>

IdleArmsQuit ==
  /\ At("server", "arm")
  /\ quitTimer' = TRUE
  /\ Go("server", "select")
  /\ UNCHANGED <<flags, socket, peerOpen, ended, idleTimer, idleSent>>

QuitFires ==
  /\ At("timer", "none") /\ quitTimer
  /\ quitTimer' = FALSE
  /\ Go("timer", "quit")
  /\ UNCHANGED <<flags, socket, peerOpen, ended, idleTimer, idleSent>>

(* Another client's handler calls Reply or, once, Quit on this client.     *)
OtherStarts(g) ==
  /\ g \in Others /\ At(g, "none")
  /\ g = "killer" => ~hasQuit
  /\ Go(g, IF g = "killer" THEN "quit" ELSE "reply")
  /\ UNCHANGED <<flags, socket, peerOpen, ended, timers>>

-----------------------------------------------------------------------------
Reply(g) == ReplyCheck(g) \/ ReplySend(g) \/ SendPanics(g)
Quit(g) == \/ QuitCheck(g) \/ QuitSet(g) \/ StopTimers(g) \/ CloseReplies(g)
           \/ ClosePanics(g) \/ SocketLock(g) \/ SocketClose(g)
Writer == WriteLock \/ WriteDone \/ WriterEnds
Run == RunTakesIdle \/ IdleArmsQuit
Peer ==
  \/ ReadEOF
  \/ \E kind \in {"rlock", "reply", "quit"}, touches \in BOOLEAN : ReadLine(kind, touches)

Next ==
  \/ \E g \in Replier : Reply(g)
  \/ \E g \in Quitter : Quit(g)
  \/ \E g \in Others : OtherStarts(g)
  \/ ReadLock \/ Peer \/ PeerCloses \/ Writer \/ Run \/ IdleFires \/ QuitFires

Spec == Init /\ [][Next]_vars

(* The scheduler runs what can run, senders blocked on a channel are       *)
(* served in turn, time passes, the kernel accepts what is written and     *)
(* reports a closed connection.  Nothing is assumed of what a peer sends.  *)
Fairness ==
  /\ \A g \in Replier : SF_vars(Reply(g))
  /\ \A g \in Quitter : WF_vars(Quit(g))
  /\ WF_vars(ReadLock) /\ WF_vars(ReadEOF) /\ WF_vars(Writer) /\ WF_vars(Run)
  /\ WF_vars(IdleFires) /\ WF_vars(QuitFires)

FairSpec == Spec /\ Fairness

-----------------------------------------------------------------------------
(* conn.Close never runs under a Read or Write in progress, and once the   *)
(* socket is closed no Read or Write of it begins.                         *)
CloseExcludesIO ==
  closed => rlocked = {} /\ pc["reader"] # "scan" /\ pc["writer"] # "write"

(* A client that has quit gets its socket closed, whoever called Quit and  *)
(* how often, as long as its reader does not wait for the peer for ever:   *)
(* nobody else's wait for the socket's lock lasts.                         *)
QuitCloses ==
  []<>(~At("reader", "scan")) => (hasQuit ~> closed \/ crashed)

(* A client whose peer falls silent is made to quit: the idle timer, the   *)
(* main loop and the quit timer pass it on without losing it.              *)
SilentQuits == At("reader", "scan") ~> ~At("reader", "scan") \/ hasQuit

(* readloop: "the server is single-threaded for commands".  If it were, no *)
(* handler would come between test and use of hasQuit and of replies, and  *)
(* the process would not panic.                                            *)
NoPanic == ~crashed

(* QUIT_TIMEOUT, "how long after idle before a client is kicked": when the *)
(* quit timer has fired the connection gets closed.                        *)
KickedAfterTimeout == At("timer", "quit") ~> closed \/ crashed
=============================================================================
