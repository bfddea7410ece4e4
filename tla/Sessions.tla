------------------------------ MODULE Sessions ------------------------------
(***************************************************************************)
(* The life of a client connection in the IRC server, from accept to       *)
(* destroy, and the nickname registry (server.clients) the connections     *)
(* share.                                                                  *)
(*                                                                         *)
(* One action is one command handler, run to its end: the granularity of   *)
(* the comment in client.go that "the server is single-threaded for        *)
(* commands".  What can separate the halves of a handler even then is kept *)
(* apart: Client.Quit called on ANOTHER client destroys it and then blocks *)
(* in Socket.Close, because the target's reader holds the socket's read    *)
(* lock while it waits for a line.  Until that line comes the caller is    *)
(* stuck, and when it comes the destroyed client still processes it.       *)
(***************************************************************************)
EXTENDS Integers, FiniteSets

CONSTANTS
  Client,        \* connections the server may ever accept
  NoClient,      \* a nil *Client
  Nick,          \* nicknames as spelled on the wire
  NoNick,        \* the empty nickname
  ValidNick,     \* the spellings that pass Name.IsNickname
  Key,           \* lower-case names, the keys of ClientLookupSet.nicks
  Fold,          \* Name.ToLower on nicknames
  HasPassword,   \* the configuration sets a server password
  Settable       \* the modes that USER, MODE and AWAY switch in a run

Invisible  == "i"
Operator   == "o"
WallOps    == "w"
HostMask   == "x"
SecureOnly == "Z"
Away       == "a"
UserMode   == {Invisible, Operator, WallOps, HostMask, SecureOnly, Away}

ASSUME SessionsAssumption ==
  /\ NoClient \notin Client
  /\ NoNick \notin Nick
  /\ ValidNick \subseteq Nick
  /\ Fold \in [Nick -> Key]
  /\ HasPassword \in BOOLEAN
  /\ Settable \subseteq UserMode \ {Operator}
  /\ IsFiniteSet(Client)

VARIABLES
  conn,         \* where the connection and its reader goroutine stand
  blockedOn,    \* the client whose Socket.Close this reader is blocked in
  connections,  \* server.connections
  nicks,        \* server.clients: lower-case nickname -> client
  nick, hasUser, authorized, capState, registered, modes

sessionVars == <<conn, blockedOn, connections, nicks,
                 nick, hasUser, authorized, capState, registered, modes>>
profileVars == <<nick, hasUser, authorized, capState, registered, modes>>

(***************************************************************************)
(* "none"    never accepted                                                *)
(* "pending" accepted and counted, waiting in server.newConns              *)
(* "open"    in the read loop                                              *)
(* "lame"    destroyed by another goroutine, reader still in Socket.Read   *)
(* "late"    destroyed, reader holds the line that Read returned           *)
(* "gone"    destroyed, no further command                                 *)
(***************************************************************************)
ConnState == {"none", "pending", "open", "lame", "late", "gone"}
CapState  == {"none", "negotiating", "negotiated"}

-----------------------------------------------------------------------------
(* ClientLookupSet                                                         *)

Get(reg, n) == reg[Fold[n]]

Add(reg, c, n) ==
  IF n # NoNick /\ Get(reg, n) = NoClient
  THEN [reg EXCEPT ![Fold[n]] = c] ELSE reg

Remove(reg, c, n) ==
  IF n # NoNick /\ Get(reg, n) = c
  THEN [reg EXCEPT ![Fold[n]] = NoClient] ELSE reg

-----------------------------------------------------------------------------
hasQuit(c) == conn[c] \in {"lame", "late", "gone"}

(* The reader of c holds a line and runs processCommand.                   *)
CanRun(c) == conn[c] \in {"open", "late"} /\ blockedOn[c] = NoClient

(* After the command a live client reads on; Read on the closed socket of  *)
(* a destroyed one returns io.EOF and the read loop ends.                  *)
NextRead(c) == IF conn[c] = "late" THEN "gone" ELSE conn[c]

Unregistered(c) == CanRun(c) /\ ~registered[c]
Registered(c)   == CanRun(c) /\ registered[c]

IsOperator(c) == Operator \in modes[c]

(* Mutant of Quit: the early return on hasQuit is missing.                 *)
QuitTwice(c, caller) ==
  LET inRead == conn[c] = "open" /\ c # caller /\ blockedOn[c] = NoClient
  IN /\ connections' = connections - 1
     /\ nicks' = Remove(nicks, c, nick[c])
     /\ conn' = [x \in Client |->
                   IF x = c THEN IF inRead THEN "lame" ELSE "gone"
                   ELSE IF x = caller THEN NextRead(x) ELSE conn[x]]
     /\ blockedOn' = IF inRead /\ caller \in Client
                     THEN [blockedOn EXCEPT ![caller] = c] ELSE blockedOn

(* Client.Quit on the session state, run by the reader of caller (NoClient *)
(* for the quit timer's goroutine).  A second Quit returns at once.        *)
Quit(c, caller) ==
  LET inRead == conn[c] = "open" /\ c # caller /\ blockedOn[c] = NoClient
  IN IF hasQuit(c)
     THEN /\ conn' = IF caller \in Client
                     THEN [conn EXCEPT ![caller] = NextRead(caller)] ELSE conn
          /\ UNCHANGED <<blockedOn, connections, nicks>>
     ELSE /\ connections' = connections - 1
          /\ nicks' = Remove(nicks, c, nick[c])
          /\ conn' = [x \in Client |->
                        IF x = c THEN IF inRead THEN "lame" ELSE "gone"
                        ELSE IF x = caller THEN NextRead(x) ELSE conn[x]]
          /\ blockedOn' = IF inRead /\ caller \in Client
                          THEN [blockedOn EXCEPT ![caller] = c] ELSE blockedOn

(* Everything of the session state but the reader's progress stays.        *)
OnlyReads(c) ==
  /\ conn' = [conn EXCEPT ![c] = NextRead(c)]
  /\ UNCHANGED <<blockedOn, connections>>

(* Mutant of tryRegister: an open capability negotiation does not hold up  *)
(* registration.                                                           *)
tryRegisterEarly(c, n, u, s, md) ==
  LET done == n # NoNick /\ u
  IN /\ registered' = [registered EXCEPT ![c] = done]
     /\ modes' = [modes EXCEPT ![c] = IF done THEN md \cup {HostMask} ELSE md]

(* server.tryRegister with the new nickname n, user info u, cap state s.   *)
tryRegister(c, n, u, s, md) ==
  LET done == n # NoNick /\ u /\ s # "negotiating"
  IN /\ registered' = [registered EXCEPT ![c] = done]
     /\ modes' = [modes EXCEPT ![c] = IF done THEN md \cup {HostMask} ELSE md]

-----------------------------------------------------------------------------
Init ==
  /\ conn = [c \in Client |-> "none"]
  /\ blockedOn = [c \in Client |-> NoClient]
  /\ connections = 0
  /\ nicks = [k \in Key |-> NoClient]
  /\ nick = [c \in Client |-> NoNick]
  /\ hasUser = [c \in Client |-> FALSE]
  /\ authorized = [c \in Client |-> FALSE]
  /\ capState = [c \in Client |-> "none"]
  /\ registered = [c \in Client |-> FALSE]
  /\ modes = [c \in Client |-> {}]

(* acceptor: the connection is counted, then queued for Run.               *)
Accept(c) ==
  /\ conn[c] = "none"
  /\ conn' = [conn EXCEPT ![c] = "pending"]
  /\ connections' = connections + 1
  /\ UNCHANGED <<blockedOn, nicks, profileVars>>

NewClient(c) ==
  /\ conn[c] = "pending"
  /\ conn' = [conn EXCEPT ![c] = "open"]
  /\ authorized' = [authorized EXCEPT ![c] = ~HasPassword]
  /\ UNCHANGED <<blockedOn, connections, nicks,
                 nick, hasUser, capState, registered, modes>>

(* A line that changes nothing: unparsable, refused, or a query.           *)
NoEffect(c) ==
  /\ CanRun(c)
  /\ OnlyReads(c)
  /\ UNCHANGED <<nicks, profileVars>>

-----------------------------------------------------------------------------
(* Registration commands                                                   *)

(* What CheckPassword may find out before HandleRegServer runs.  PASS is   *)
(* compared with the server's password, if there is one.  OPER is a PASS   *)
(* before registration, since OperCommand embeds PassCommand; it is        *)
(* compared with the operator's password, and with nothing when there is   *)
(* no operator of that name.                                               *)
CheckPassword(code) ==
  IF code = "PASS" /\ HasPassword THEN {"match", "mismatch"}
  ELSE IF code = "PASS" THEN {"nothing compared"}
  ELSE {"match", "mismatch", "nothing compared"}

(* PASS or OPER before registration: only a mismatch is an error, which    *)
(* ends the client (Leave).                                                *)
Pass(c, code) ==
  /\ Unregistered(c)
  /\ \E found \in CheckPassword(code) : found # "mismatch"
  /\ authorized' = [authorized EXCEPT ![c] = TRUE]
  /\ OnlyReads(c)
  /\ UNCHANGED <<nicks, nick, hasUser, capState, registered, modes>>

(* NICK, USER and AUTHENTICATE from a client that is not authorized, PASS  *)
(* or OPER with a password that does not match, QUIT, a command that needs *)
(* registration, or the end of the connection: each ends in Quit on the    *)
(* client's own reader.                                                    *)
Leave(c) ==
  /\ CanRun(c)
  /\ Quit(c, c)
  /\ UNCHANGED profileVars

NickReg(c, n) ==
  /\ Unregistered(c) /\ authorized[c]
  /\ n \in ValidNick
  /\ Get(nicks, n) = NoClient
  /\ LET m == IF nick[c] = NoNick THEN n ELSE nick[c]  \* SetNickname
     IN /\ nick' = [nick EXCEPT ![c] = m]
        /\ nicks' = IF nick[c] = NoNick THEN Add(nicks, c, n) ELSE nicks
        /\ tryRegister(c, m, hasUser[c], capState[c], modes[c])
  /\ OnlyReads(c)
  /\ UNCHANGED <<hasUser, authorized, capState>>

User(c, flags) ==
  /\ Unregistered(c) /\ authorized[c]
  /\ hasUser' = [hasUser EXCEPT ![c] = TRUE]
  /\ nicks' = Add(Remove(nicks, c, nick[c]), c, nick[c])
  /\ tryRegister(c, nick[c], TRUE, capState[c], modes[c] \cup flags)
  /\ OnlyReads(c)
  /\ UNCHANGED <<nick, authorized, capState>>

CapLS(c) ==
  /\ Unregistered(c)
  /\ capState' = [capState EXCEPT ![c] = "negotiating"]
  /\ OnlyReads(c)
  /\ UNCHANGED <<nicks, nick, hasUser, authorized, registered, modes>>

CapEnd(c) ==
  /\ Unregistered(c)
  /\ capState' = [capState EXCEPT ![c] = "negotiated"]
  /\ tryRegister(c, nick[c], hasUser[c], "negotiated", modes[c])
  /\ OnlyReads(c)
  /\ UNCHANGED <<nicks, nick, hasUser, authorized>>

-----------------------------------------------------------------------------
(* Commands of registered clients                                          *)

(* Mutants of ChangeNickname: Add before Remove, and no Remove at all.     *)
ChangeNicknameAddFirst(c, t, n) ==
  /\ nicks' = Remove(Add(nicks, t, n), t, nick[t])
  /\ nick' = [nick EXCEPT ![t] = n]
  /\ OnlyReads(c)
  /\ UNCHANGED <<hasUser, authorized, capState, registered, modes>>

ChangeNicknameKeepOld(c, t, n) ==
  /\ nicks' = Add(nicks, t, n)
  /\ nick' = [nick EXCEPT ![t] = n]
  /\ OnlyReads(c)
  /\ UNCHANGED <<hasUser, authorized, capState, registered, modes>>

(* Client.ChangeNickname on t, run by the reader of c.                     *)
ChangeNickname(c, t, n) ==
  /\ nicks' = Add(Remove(nicks, t, nick[t]), t, n)
  /\ nick' = [nick EXCEPT ![t] = n]
  /\ OnlyReads(c)
  /\ UNCHANGED <<hasUser, authorized, capState, registered, modes>>

NickCmd(c, n) ==
  /\ Registered(c)
  /\ n \in ValidNick
  /\ n # nick[c]
  /\ Get(nicks, n) \in {NoClient, c}
  /\ ChangeNickname(c, c, n)

(* ONICK target nick: the test for an unchanged nickname looks at the      *)
(* operator's own nickname, not at the target's.  A nickname is not empty  *)
(* here: ONICK hands an empty one to IsNickname, which reads its first     *)
(* character and panics.                                                   *)
OperNick(c, target, n) ==
  /\ Registered(c) /\ IsOperator(c)
  /\ n \in ValidNick
  /\ n # nick[c]
  /\ Get(nicks, target) # NoClient
  /\ Get(nicks, n) = NoClient
  /\ ChangeNickname(c, Get(nicks, target), n)

SetModes(c, t, ms) ==
  /\ modes' = [modes EXCEPT ![t] = ms]
  /\ OnlyReads(c)
  /\ UNCHANGED <<nicks, nick, hasUser, authorized, capState, registered>>

(* OPER with the right password for a configured operator.                 *)
Oper(c) ==
  /\ Registered(c)
  /\ SetModes(c, c, modes[c] \cup {Operator, WallOps})

AwayCmd(c, set) ==
  /\ Registered(c) /\ Away \in Settable
  /\ SetModes(c, c, IF set THEN modes[c] \cup {Away} ELSE modes[c] \ {Away})

(* Mutant of ModeCmd: no test who asks.                                    *)
ModeCmdAnyone(c, n, plus, minus) ==
  /\ Registered(c)
  /\ Get(nicks, n) # NoClient
  /\ LET t == Get(nicks, n) IN SetModes(c, t, (modes[t] \cup plus) \ minus)

(* MODE nickname: an operator may change anyone's modes, and nobody is     *)
(* made an operator.  A command's changes are applied one by one under the *)
(* one check at the top; plus and minus are their net effect.              *)
ModeCmd(c, n, plus, minus) ==
  /\ Registered(c)
  /\ Get(nicks, n) # NoClient
  /\ c = Get(nicks, n) \/ IsOperator(c)
  /\ LET t == Get(nicks, n) IN SetModes(c, t, (modes[t] \cup plus) \ minus)

Kill(c, n) ==
  /\ Registered(c) /\ IsOperator(c)
  /\ Get(nicks, n) # NoClient
  /\ Quit(Get(nicks, n), c)
  /\ UNCHANGED profileVars

-----------------------------------------------------------------------------
(* connectionTimeout on the quit timer's goroutine.                        *)
Timeout(c) ==
  /\ conn[c] = "open"
  /\ Quit(c, NoClient)
  /\ UNCHANGED profileVars

(* Mutant of Released: the read lock is not given back.                    *)
ReleasedNever(c) == blockedOn

Released(c) == [k \in Client |-> IF blockedOn[k] = c THEN NoClient ELSE blockedOn[k]]

(* The pending Read of a destroyed client returns, and whoever waits in    *)
(* Socket.Close goes on: with a line, which is then processed ...          *)
LateLine(c) ==
  /\ conn[c] = "lame"
  /\ conn' = [conn EXCEPT ![c] = "late"]
  /\ blockedOn' = Released(c)
  /\ UNCHANGED <<connections, nicks, profileVars>>

(* ... or because the peer is gone: the Quit that follows does nothing.    *)
LateEOF(c) ==
  /\ conn[c] = "lame"
  /\ conn' = [conn EXCEPT ![c] = "gone"]
  /\ blockedOn' = Released(c)
  /\ UNCHANGED <<connections, nicks, profileVars>>

-----------------------------------------------------------------------------
(* The steps that leave every connection's channels alone ...              *)
Register(c) ==
  \/ CapLS(c) \/ CapEnd(c)
  \/ \E code \in {"PASS", "OPER"} : Pass(c, code)
  \/ \E n \in Nick : NickReg(c, n)
  \/ \E flags \in SUBSET (Settable \cap {WallOps, Invisible}) : User(c, flags)

Command(c) ==
  \/ NoEffect(c) \/ Oper(c)
  \/ \E n \in Nick : NickCmd(c, n)
  \/ \E t, n \in Nick : OperNick(c, t, n)
  \/ \E set \in BOOLEAN : AwayCmd(c, set)
  \/ \E n \in Nick, plus \in SUBSET (Settable \ {Away}) :
       \E minus \in SUBSET ((Settable \cup {Operator}) \ (plus \cup {Away})) :
         ModeCmd(c, n, plus, minus)

Connection(c) == Accept(c) \/ NewClient(c) \/ LateLine(c) \/ LateEOF(c)

(* ... and those that run Client.Quit.                                     *)
Ends(c) ==
  \/ Leave(c)
  \/ Timeout(c)
  \/ \E n \in Nick : Kill(c, n)

Next == \E c \in Client : Register(c) \/ Command(c) \/ Connection(c) \/ Ends(c)

Spec == Init /\ [][Next]_sessionVars

-----------------------------------------------------------------------------
TypeOK ==
  /\ conn \in [Client -> ConnState]
  /\ blockedOn \in [Client -> Client \cup {NoClient}]
  /\ connections \in Int
  /\ nicks \in [Key -> Client \cup {NoClient}]
  /\ nick \in [Client -> Nick \cup {NoNick}]
  /\ hasUser \in [Client -> BOOLEAN]
  /\ authorized \in [Client -> BOOLEAN]
  /\ capState \in [Client -> CapState]
  /\ registered \in [Client -> BOOLEAN]
  /\ modes \in [Client -> SUBSET UserMode]

(* A live client that has chosen a nickname is the one the registry finds  *)
(* under it, whatever others did with NICK, ONICK, USER and KILL; so no    *)
(* two live clients hold nicknames that differ in case only.               *)
NickOwner ==
  \A c \in Client :
    conn[c] = "open" /\ nick[c] # NoNick => Get(nicks, nick[c]) = c

(* Every registry entry leads to a client that really has that nickname:   *)
(* PRIVMSG, KILL, KICK and ONICK never reach someone under an old name.    *)
RegistrySound ==
  \A k \in Key :
    nicks[k] # NoClient =>
      nick[nicks[k]] # NoNick /\ Fold[nick[nicks[k]]] = k

(* tryRegister lets nobody through early: a registered client has nickname *)
(* and user info and has ended its capability negotiation, in whatever     *)
(* order the lines came; CAP END, which asks for no authorization, cannot  *)
(* register a client that no PASS and no OPER has authorized; and          *)
(* operators are registered clients, although OPER may be sent before      *)
(* registration.  Being authorized does not mean that a password was       *)
(* given: OPER with the name of no operator authorizes as well (Pass).     *)
RegistrationGate ==
  \A c \in Client :
    /\ registered[c] => /\ authorized[c] /\ nick[c] # NoNick /\ hasUser[c]
                        /\ capState[c] # "negotiating"
    /\ IsOperator(c) => registered[c]

(* server.connections counts the accepted connections that have not been   *)
(* destroyed: each is counted down once, whoever ends it and however often *)
(* Quit is called.                                                         *)
ConnectionsCount ==
  connections = Cardinality({c \in Client : conn[c] \in {"pending", "open"}})

(* A reader stuck in another client's Socket.Close waits for that client's *)
(* peer only: the one it waits for is destroyed, still reading and waits   *)
(* for nobody, and no second reader waits with it.  Operators that kill    *)
(* each other cannot form a cycle.                                         *)
NoCircularWait ==
  \A k \in Client :
    blockedOn[k] # NoClient =>
      /\ conn[blockedOn[k]] = "lame"
      /\ blockedOn[blockedOn[k]] = NoClient
      /\ \A j \in Client \ {k} : blockedOn[j] # blockedOn[k]

(* Modes change by right only.  Whoever runs a command changes its own     *)
(* modes with it, and another's only as an operator; nothing but the       *)
(* command of some client changes modes; and whoever becomes an operator   *)
(* does so by its own OPER as a registered client.                         *)
RightfulStep ==
  modes' # modes =>
    /\ \E c \in Client : Register(c) \/ Command(c)
    /\ \A c \in Client :
         Register(c) \/ Command(c) =>
           \A t \in Client : modes'[t] # modes[t] => t = c \/ IsOperator(c)
    /\ \A c \in Client : ~IsOperator(c) /\ IsOperator(c)' => Oper(c)

ModesByRight == [][RightfulStep]_sessionVars

(* client.destroy, "clean up server": a destroyed client is not in the     *)
(* registry any more.                                                      *)
DestroyedForgotten == \A k \in Key : nicks[k] # NoClient => ~hasQuit(nicks[k])
=============================================================================
