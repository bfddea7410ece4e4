--------------------------- MODULE TeardownProofs ---------------------------
(***************************************************************************)
(* The socket's lock and what it protects, whichever other clients take    *)
(* part.                                                                   *)
(***************************************************************************)
EXTENDS Teardown, TLAPS

(* The places a goroutine can be at.                                       *)
Point == {"none", "rlock", "scan", "reply", "send", "quit", "set", "stop", "close", "lock",
          "wait", "recv", "write", "select", "arm", "done"}

(* Who is inside Read or Write holds the read lock, and nobody else does;  *)
(* only reader and writer get there; and the lock of a closed socket is    *)
(* free.                                                                   *)
LockedIO ==
  /\ pc \in [Goroutine -> Point]
  /\ rlocked \subseteq {"reader", "writer"}
  /\ pc["reader"] = "scan" <=> "reader" \in rlocked
  /\ pc["writer"] = "write" <=> "writer" \in rlocked
  /\ closed => rlocked = {}

LEMMA LockedInitial == Init => LockedIO
BY DEF Init, LockedIO, Point, Goroutine

(* A goroutine other than the reader and the writer goes somewhere, or     *)
(* they go from and to places outside the socket.                          *)
LEMMA OutsideKeeps ==
  ASSUME LockedIO, NEW g \in Goroutine, NEW p \in Point,
         pc[g] \notin {"scan", "write"}, p \notin {"scan", "write"},
         pc' = [pc EXCEPT ![g] = p],
         rlocked' = rlocked, closed' => rlocked = {}
  PROVE  LockedIO'
BY DEF LockedIO, Goroutine, Point

LEMMA ReplyKeeps ==
  ASSUME LockedIO, NEW g \in Replier, Reply(g)
  PROVE  LockedIO'
<1> USE DEF Replier, Goroutine, flags, socket, timers
<1>1. AfterReply(g) \in Point \ {"scan", "write"}
  BY DEF AfterReply, Point
<1>2. CASE ReplyCheck(g)
  <2>1. PICK p \in Point \ {"scan", "write"} : pc' = [pc EXCEPT ![g] = p]
    BY <1>1, <1>2 DEF ReplyCheck, Go, Point
  <2>2. pc[g] = "reply" /\ rlocked' = rlocked /\ closed' = closed
    BY <1>2 DEF ReplyCheck, At
  <2> QED BY <2>1, <2>2, OutsideKeeps DEF LockedIO
<1>3. CASE ReplySend(g)
  <2>1. /\ pc[g] = "send" /\ pc["writer"] = "recv"
        /\ pc' = [pc EXCEPT ![g] = AfterReply(g), !["writer"] = "rlock"]
        /\ rlocked' = rlocked /\ closed' = closed
    BY <1>3 DEF ReplySend, At
  <2> QED BY <1>1, <2>1 DEF LockedIO, Point
<1>4. CASE SendPanics(g)
  BY <1>4 DEF SendPanics, LockedIO
<1> QED BY <1>2, <1>3, <1>4 DEF Reply

(* Close waits until the read lock is free.                                *)
LEMMA QuitKeeps ==
  ASSUME LockedIO, NEW g \in Quitter, Quit(g)
  PROVE  LockedIO'
<1> USE DEF Quitter, Goroutine, flags, socket, timers
<1>1. AfterQuit(g) \in Point \ {"scan", "write"}
  BY DEF AfterQuit, Point
<1>2. CASE ClosePanics(g)
  BY <1>2 DEF ClosePanics, LockedIO
<1>3. CASE ~ClosePanics(g)
  <2>1. PICK p \in Point \ {"scan", "write"} : pc' = [pc EXCEPT ![g] = p]
    BY <1>1, <1>3 DEF Quit, QuitCheck, QuitSet, StopTimers, CloseReplies, SocketLock, SocketClose, Go, Point
  <2>2. pc[g] \in {"quit", "set", "stop", "close", "lock", "wait"} /\ rlocked' = rlocked
    BY <1>3 DEF Quit, QuitCheck, QuitSet, StopTimers, CloseReplies, SocketLock, SocketClose, At
  <2>3. closed' => rlocked = {}
    BY <1>3 DEF Quit, QuitCheck, QuitSet, StopTimers, CloseReplies, SocketLock, SocketClose, LockedIO
  <2> QED BY <2>1, <2>2, <2>3, OutsideKeeps
<1> QED BY <1>2, <1>3

(* Read and Write take the lock of an open socket and give it back.        *)
LEMMA ReaderKeeps ==
  ASSUME LockedIO, ReadLock \/ Peer
  PROVE  LockedIO'
<1> USE DEF Goroutine, Point, flags, timers, At, Go
<1>1. CASE ReadLock
  <2>1. pc["reader"] = "rlock" /\ (closed' <=> closed)
    BY <1>1 DEF ReadLock
  <2>2. CASE /\ rlocked' = rlocked \cup {"reader"} /\ ~closed
             /\ pc' = [pc EXCEPT !["reader"] = "scan"]
    BY <2>1, <2>2, SMTT(30) DEF LockedIO
  <2>3. CASE rlocked' = rlocked /\ pc' = [pc EXCEPT !["reader"] = "quit"]
    BY <2>1, <2>3, OutsideKeeps DEF LockedIO
  <2> QED BY <1>1, <2>2, <2>3 DEF ReadLock
<1>2. CASE ReadEOF
  BY <1>2 DEF ReadEOF, LockedIO
<1>3. CASE \E kind \in {"rlock", "reply", "quit"}, touches \in BOOLEAN : ReadLine(kind, touches)
  <2>1. PICK kind \in {"rlock", "reply", "quit"}, touches \in BOOLEAN : ReadLine(kind, touches)
    BY <1>3
  <2>2. /\ pc["reader"] = "scan" /\ pc' = [pc EXCEPT !["reader"] = kind]
        /\ rlocked' = rlocked \ {"reader"} /\ closed' = closed
    BY <2>1 DEF ReadLine
  <2> QED BY <2>2 DEF LockedIO
<1> QED BY <1>1, <1>2, <1>3 DEF Peer

LEMMA WriterKeeps ==
  ASSUME LockedIO, Writer
  PROVE  LockedIO'
<1> USE DEF Goroutine, Point, flags, socket, timers, At, Go
<1>1. closed' <=> closed
  BY DEF Writer, WriteLock, WriteDone, WriterEnds
<1>2. CASE /\ pc["writer"] = "rlock" /\ ~closed /\ rlocked' = rlocked \cup {"writer"}
           /\ pc' = [pc EXCEPT !["writer"] = "write"]
  BY <1>1, <1>2 DEF LockedIO
<1>3. CASE /\ pc["writer"] = "write" /\ rlocked' = rlocked \ {"writer"}
           /\ pc' = [pc EXCEPT !["writer"] = "recv"]
  BY <1>1, <1>3, SMTT(30) DEF LockedIO
<1>4. CASE /\ pc["writer"] \in {"rlock", "recv"} /\ rlocked' = rlocked
           /\ \E p \in {"recv", "done"} : pc' = [pc EXCEPT !["writer"] = p]
  BY <1>1, <1>4, OutsideKeeps DEF LockedIO
<1> QED BY <1>2, <1>3, <1>4 DEF Writer, WriteLock, WriteDone, WriterEnds

(* Timers, main loop and other clients stay outside the socket.            *)
LEMMA OthersKeep ==
  ASSUME LockedIO,
         Run \/ PeerCloses \/ IdleFires \/ QuitFires \/ \E g \in Others : OtherStarts(g)
  PROVE  LockedIO'
<1> USE TeardownAssumption DEF Goroutine, flags, socket, timers
<1>1. rlocked' = rlocked /\ (closed' <=> closed)
  BY DEF Run, RunTakesIdle, IdleArmsQuit, PeerCloses, IdleFires, QuitFires, OtherStarts
<1>2. CASE PeerCloses \/ IdleFires
  BY <1>1, <1>2 DEF PeerCloses, IdleFires, LockedIO
<1>3. CASE ~(PeerCloses \/ IdleFires)
  <2>1. PICK g \in {"server", "timer", "killer", "other"}, p \in {"reply", "select", "quit"} :
          pc[g] \in {"select", "arm", "none"} /\ pc' = [pc EXCEPT ![g] = p]
    BY <1>3 DEF Run, RunTakesIdle, IdleArmsQuit, QuitFires, OtherStarts, At, Go
  <2> QED BY <1>1, <2>1, OutsideKeeps DEF LockedIO, Point
<1> QED BY <1>2, <1>3

-----------------------------------------------------------------------------
(* What every interleaving of the goroutines keeps.                        *)
THEOREM LockedInvariant == Spec => []LockedIO
<1>1. LockedIO /\ [Next]_vars => LockedIO'
  <2>1. ASSUME LockedIO, UNCHANGED vars PROVE LockedIO'
    BY <2>1 DEF vars, LockedIO
  <2> QED BY <2>1, ReplyKeeps, QuitKeeps, ReaderKeeps, WriterKeeps, OthersKeep DEF Next
<1> QED BY LockedInitial, <1>1, PTL DEF Spec

(* conn.Close never runs under a Read or a Write, and none begins on a     *)
(* closed socket, whoever calls Quit and however often.                    *)
THEOREM CloseCorrect == Spec => []CloseExcludesIO
<1>1. LockedIO => CloseExcludesIO
  BY DEF LockedIO, CloseExcludesIO
<1> QED BY <1>1, LockedInvariant, PTL
=============================================================================
