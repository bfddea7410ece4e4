--------------------------- MODULE SessionsProofs ---------------------------
(***************************************************************************)
(* Proofs about Sessions for any set of clients, nicknames and modes: the  *)
(* type invariant, the agreement of nickname registry and clients, the     *)
(* registration gate, the absence of circular waits, and the connection    *)
(* count.                                                                  *)
(***************************************************************************)
EXTENDS Sessions, FiniteSetTheorems, TLAPS

USE DEF ConnState, CapState

LEMMA AddType ==
  ASSUME NEW reg \in [Key -> Client \cup {NoClient}], NEW c \in Client,
         NEW n \in Nick \cup {NoNick}
  PROVE  Add(reg, c, n) \in [Key -> Client \cup {NoClient}]
BY SessionsAssumption DEF Add, Get

LEMMA RemoveType ==
  ASSUME NEW reg \in [Key -> Client \cup {NoClient}], NEW c \in Client,
         NEW n \in Nick \cup {NoNick}
  PROVE  Remove(reg, c, n) \in [Key -> Client \cup {NoClient}]
BY SessionsAssumption DEF Remove, Get

LEMMA QuitType ==
  ASSUME TypeOK, NEW c \in Client, NEW caller \in Client \cup {NoClient},
         Quit(c, caller)
  PROVE  /\ conn' \in [Client -> ConnState]
         /\ blockedOn' \in [Client -> Client \cup {NoClient}]
         /\ connections' \in Int
         /\ nicks' \in [Key -> Client \cup {NoClient}]
<1>1. CASE hasQuit(c)
  BY <1>1, SessionsAssumption DEF Quit, TypeOK, NextRead
<1>2. CASE ~hasQuit(c)
  <2>1. nicks' \in [Key -> Client \cup {NoClient}]
    BY <1>2, RemoveType DEF Quit, TypeOK
  <2>2. conn' \in [Client -> ConnState]
    BY <1>2, SessionsAssumption DEF Quit, TypeOK, NextRead
  <2> QED
    BY <1>2, <2>1, <2>2 DEF Quit, TypeOK
<1> QED BY <1>1, <1>2

LEMMA OnlyReadsType ==
  ASSUME TypeOK, NEW c \in Client, OnlyReads(c)
  PROVE  /\ conn' \in [Client -> ConnState]
         /\ blockedOn' \in [Client -> Client \cup {NoClient}]
         /\ connections' \in Int
BY DEF TypeOK, OnlyReads, NextRead

(* Every step of one client keeps the types.                               *)
LEMMA TypeStep ==
  ASSUME TypeOK, NEW c \in Client,
         Register(c) \/ Command(c) \/ Connection(c) \/ Ends(c)
  PROVE  TypeOK'
<1> USE SessionsAssumption
<1>1. ASSUME Register(c) PROVE TypeOK'
  <2>1. ASSUME NEW code \in {"PASS", "OPER"}, Pass(c, code) PROVE TypeOK'
    BY <2>1, OnlyReadsType DEF Pass, TypeOK
  <2>2. CASE CapLS(c)
    BY <2>2, OnlyReadsType DEF CapLS, TypeOK
  <2>3. CASE CapEnd(c)
    BY <2>3, OnlyReadsType DEF CapEnd, TypeOK, tryRegister, UserMode
  <2>4. ASSUME NEW n \in Nick, NickReg(c, n) PROVE TypeOK'
    BY <2>4, OnlyReadsType, AddType DEF NickReg, TypeOK, tryRegister, UserMode
  <2>5. ASSUME NEW flags \in SUBSET (Settable \cap {WallOps, Invisible}),
               User(c, flags)
        PROVE  TypeOK'
    <3>1. nicks' \in [Key -> Client \cup {NoClient}]
      BY <2>5, AddType, RemoveType DEF User, TypeOK
    <3> QED
      BY <2>5, <3>1, OnlyReadsType DEF User, TypeOK, tryRegister, UserMode
  <2> QED BY <1>1, <2>1, <2>2, <2>3, <2>4, <2>5 DEF Register
<1>2. ASSUME NEW t \in Client, NEW n \in Nick, ChangeNickname(c, t, n)
      PROVE  TypeOK'
  <2>1. nicks' \in [Key -> Client \cup {NoClient}]
    BY <1>2, AddType, RemoveType DEF ChangeNickname, TypeOK
  <2> QED
    BY <1>2, <2>1, OnlyReadsType DEF ChangeNickname, TypeOK
<1>3. ASSUME NEW t \in Client, NEW ms \in SUBSET UserMode, SetModes(c, t, ms)
      PROVE  TypeOK'
  BY <1>3, OnlyReadsType DEF SetModes, TypeOK
<1>4. ASSUME Command(c) PROVE TypeOK'
  <2>1. CASE NoEffect(c)
    BY <2>1, OnlyReadsType DEF NoEffect, profileVars, TypeOK
  <2>2. CASE Oper(c)
    BY <2>2, <1>3 DEF Oper, TypeOK, UserMode
  <2>3. ASSUME NEW n \in Nick, NickCmd(c, n) PROVE TypeOK'
    BY <2>3, <1>2 DEF NickCmd
  <2>4. ASSUME NEW t \in Nick, NEW n \in Nick, OperNick(c, t, n) PROVE TypeOK'
    <3>1. Get(nicks, t) \in Client
      BY <2>4 DEF OperNick, Get, TypeOK
    <3> QED BY <2>4, <3>1, <1>2 DEF OperNick
  <2>5. ASSUME NEW set \in BOOLEAN, AwayCmd(c, set) PROVE TypeOK'
    BY <2>5, <1>3 DEF AwayCmd, TypeOK, UserMode
  <2>6. ASSUME NEW n \in Nick, NEW plus \in SUBSET (Settable \ {Away}),
               NEW minus \in SUBSET ((Settable \cup {Operator}) \ (plus \cup {Away})),
               ModeCmd(c, n, plus, minus)
        PROVE  TypeOK'
    <3>1. Get(nicks, n) \in Client
      BY <2>6 DEF ModeCmd, Get, TypeOK
    <3>2. (modes[Get(nicks, n)] \cup plus) \ minus \in SUBSET UserMode
      BY <2>6, <3>1 DEF TypeOK
    <3> QED BY <2>6, <3>1, <3>2, <1>3 DEF ModeCmd
  <2> QED BY <1>4, <2>1, <2>2, <2>3, <2>4, <2>5, <2>6 DEF Command
<1>5. ASSUME Connection(c) PROVE TypeOK'
  <2>1. CASE Accept(c)
    BY <2>1 DEF Accept, profileVars, TypeOK
  <2>2. CASE NewClient(c)
    <3>1. authorized' \in [Client -> BOOLEAN]
      BY <2>2, Zenon DEF NewClient, TypeOK
    <3> QED BY <2>2, <3>1 DEF NewClient, TypeOK
  <2>3. CASE LateLine(c)
    BY <2>3 DEF LateLine, Released, profileVars, TypeOK
  <2>4. CASE LateEOF(c)
    BY <2>4 DEF LateEOF, Released, profileVars, TypeOK
  <2> QED BY <1>5, <2>1, <2>2, <2>3, <2>4 DEF Connection
<1>6. ASSUME Ends(c) PROVE TypeOK'
  <2>1. CASE Leave(c)
    BY <2>1, QuitType DEF Leave, profileVars, TypeOK
  <2>2. CASE Timeout(c)
    BY <2>2, QuitType DEF Timeout, profileVars, TypeOK
  <2>3. ASSUME NEW n \in Nick, Kill(c, n) PROVE TypeOK'
    <3>1. Get(nicks, n) \in Client
      BY <2>3 DEF Kill, Get, TypeOK
    <3> QED BY <2>3, <3>1, QuitType DEF Kill, profileVars, TypeOK
  <2> QED BY <1>6, <2>1, <2>2, <2>3 DEF Ends
<1> QED BY <1>1, <1>4, <1>5, <1>6

(* The type invariant of Sessions.                                         *)
THEOREM TypeCorrect == Spec => []TypeOK
<1>1. Init => TypeOK
  BY SessionsAssumption DEF Init, TypeOK
<1>2. TypeOK /\ [Next]_sessionVars => TypeOK'
  <2> SUFFICES ASSUME TypeOK, [Next]_sessionVars PROVE TypeOK'
    OBVIOUS
  <2>1. CASE Next
    BY <2>1, TypeStep DEF Next
  <2>2. CASE UNCHANGED sessionVars
    BY <2>2 DEF sessionVars, TypeOK
  <2> QED BY <2>1, <2>2
<1> QED BY <1>1, <1>2, PTL DEF Spec

-----------------------------------------------------------------------------
(* The nickname registry.  NickOwner is not inductive alone: NickCmd needs *)
(* RegistrySound (an entry for c under the new nickname is an entry under  *)
(* c's present one, which ChangeNickname has just removed), and NewClient  *)
(* needs to know that a connection gets no nickname before it is read.     *)
Fresh ==
  \A c \in Client :
    conn[c] \in {"none", "pending"} => nick[c] = NoNick /\ ~registered[c]

RegistryInv == NickOwner /\ RegistrySound /\ Fresh

(* No step puts a client back into an earlier part of its life, and only   *)
(* NewClient makes one live.                                               *)
Ages ==
  \A x \in Client :
    /\ conn'[x] = "open" => conn[x] \in {"open", "pending"}
    /\ conn'[x] \in {"none", "pending"} => conn[x] \in {"none", "pending"}

LEMMA OnlyReadsAges ==
  ASSUME TypeOK, NEW c \in Client, CanRun(c), OnlyReads(c)
  PROVE  Ages /\ conn[c] \in {"open", "late"} /\ conn'[c] \in {"open", "gone"}
         /\ (conn'[c] = "open" => conn[c] = "open")
         /\ \A x \in Client \ {c} : conn'[x] = conn[x]
BY DEF TypeOK, CanRun, OnlyReads, NextRead, Ages

LEMMA RegistryKeep ==
  ASSUME TypeOK, RegistryInv, Ages, UNCHANGED <<nicks, nick>>,
         \A x \in Client : conn'[x] \in {"none", "pending"} => ~registered'[x]
  PROVE  RegistryInv'
BY DEF TypeOK, RegistryInv, NickOwner, RegistrySound, Fresh, Ages, Get

(* Registering under a free nickname, or changing to one that is free or   *)
(* one's own, keeps every other client's entry.                            *)
LEMMA RegistryChange ==
  ASSUME TypeOK, RegistryInv, Ages, NEW t \in Client, NEW n \in Nick,
         Get(nicks, n) \in {NoClient, t},
         nicks' = Add(Remove(nicks, t, nick[t]), t, n),
         nick' = [nick EXCEPT ![t] = n],
         conn'[t] \notin {"none", "pending"},
         \A x \in Client : conn'[x] \in {"none", "pending"} => ~registered'[x]
  PROVE  RegistryInv'
<1> USE SessionsAssumption
<1> DEFINE mid == Remove(nicks, t, nick[t])
<1>1. mid \in [Key -> Client \cup {NoClient}] /\ mid[Fold[n]] = NoClient
  BY DEF TypeOK, RegistryInv, RegistrySound, Remove, Get
<1>2. \A k \in Key : mid[k] = nicks[k] \/ (nicks[k] = t /\ mid[k] = NoClient)
  BY DEF TypeOK, Remove, Get
<1>3. \A k \in Key : mid[k] # t
  BY DEF TypeOK, Remove, Get, RegistryInv, RegistrySound
<1>4. nicks' = [mid EXCEPT ![Fold[n]] = t]
  BY <1>1 DEF Add, Get
<1> HIDE DEF mid
<1>5. NickOwner'
  <2> SUFFICES ASSUME NEW c \in Client, conn'[c] = "open", nick'[c] # NoNick
               PROVE  Get(nicks, nick[c])'  = c
    BY DEF NickOwner
  <2>1. CASE c = t
    BY <2>1, <1>1, <1>4 DEF Get, TypeOK
  <2>2. CASE c # t
    <3>1. nick'[c] = nick[c] /\ conn[c] = "open"
      BY <2>2 DEF TypeOK, Ages, RegistryInv, Fresh
    <3>2. nick[c] \in Nick /\ nicks[Fold[nick[c]]] = c
      BY <3>1 DEF RegistryInv, NickOwner, Get, TypeOK
    <3>3. mid[Fold[nick[c]]] = c
      BY <3>2, <1>2, <2>2
    <3> QED BY <3>1, <3>2, <3>3, <1>1, <1>4 DEF Get
  <2> QED BY <2>1, <2>2
<1>6. RegistrySound'
  <2> SUFFICES ASSUME NEW k \in Key, nicks'[k] # NoClient
               PROVE  nick'[nicks'[k]] # NoNick /\ Fold[nick'[nicks'[k]]] = k
    BY DEF RegistrySound
  <2>1. CASE k = Fold[n]
    BY <2>1, <1>1, <1>4 DEF TypeOK
  <2>2. CASE k # Fold[n]
    <3>1. nicks'[k] = nicks[k] /\ nicks[k] # t /\ nicks[k] # NoClient
      BY <2>2, <1>1, <1>2, <1>3, <1>4
    <3> QED BY <3>1 DEF TypeOK, RegistryInv, RegistrySound
  <2> QED BY <2>1, <2>2
<1>7. Fresh'
  BY DEF TypeOK, RegistryInv, Fresh, Ages
<1> QED BY <1>5, <1>6, <1>7 DEF RegistryInv

LEMMA RegistryQuit ==
  ASSUME TypeOK, RegistryInv, NEW c \in Client, NEW caller \in Client \cup {NoClient},
         caller \in Client => CanRun(caller),
         conn[c] \notin {"none", "pending"},
         Quit(c, caller), UNCHANGED profileVars
  PROVE  RegistryInv'
<1> USE SessionsAssumption
<1>1. Ages
  BY DEF Quit, TypeOK, CanRun, NextRead, Ages, hasQuit
<1>2. \A x \in Client : conn'[x] \in {"none", "pending"} => ~registered'[x]
  BY <1>1 DEF Ages, RegistryInv, Fresh, profileVars
<1>3. CASE hasQuit(c)
  BY <1>1, <1>2, <1>3, RegistryKeep DEF Quit, profileVars
<1>4. CASE ~hasQuit(c)
  <2>1. nicks' = Remove(nicks, c, nick[c]) /\ nick' = nick /\ conn'[c] # "open"
    BY <1>4 DEF Quit, profileVars
  <2>2. NickOwner'
    BY <2>1, <1>1 DEF Remove, Get, TypeOK, RegistryInv, NickOwner, Fresh, Ages
  <2>3. RegistrySound'
    BY <2>1 DEF Remove, Get, TypeOK, RegistryInv, RegistrySound
  <2>4. Fresh'
    BY <2>1, <1>1, <1>2 DEF RegistryInv, Fresh, Ages
  <2> QED BY <2>2, <2>3, <2>4 DEF RegistryInv
<1> QED BY <1>3, <1>4

(* A command of c leaves the fresh connections unregistered.               *)
LEMMA FreshUnregistered ==
  ASSUME TypeOK, RegistryInv, NEW c \in Client, CanRun(c), OnlyReads(c),
         \A x \in Client \ {c} : registered'[x] = registered[x]
  PROVE  \A x \in Client : conn'[x] \in {"none", "pending"} => ~registered'[x]
BY OnlyReadsAges DEF Ages, RegistryInv, Fresh

LEMMA RegistryStep ==
  ASSUME TypeOK, RegistryInv, NEW c \in Client,
         Register(c) \/ Command(c) \/ Connection(c) \/ Ends(c)
  PROVE  RegistryInv'
<1> USE SessionsAssumption
<1>1. ASSUME CanRun(c), OnlyReads(c), UNCHANGED <<nicks, nick>>,
             \A x \in Client \ {c} : registered'[x] = registered[x]
      PROVE  RegistryInv'
  BY <1>1, OnlyReadsAges, FreshUnregistered, RegistryKeep
<1>2. ASSUME Register(c) PROVE RegistryInv'
  <2>1. CASE \E code \in {"PASS", "OPER"} : Pass(c, code)
    BY <2>1, <1>1 DEF Pass, Unregistered
  <2>2. CASE CapLS(c)
    BY <2>2, <1>1 DEF CapLS, Unregistered
  <2>3. CASE CapEnd(c)
    BY <2>3, <1>1 DEF CapEnd, Unregistered, tryRegister, TypeOK
  <2>4. ASSUME NEW n \in Nick, NickReg(c, n) PROVE RegistryInv'
    <3>1. CanRun(c) /\ OnlyReads(c) /\ \A x \in Client \ {c} : registered'[x] = registered[x]
      BY <2>4 DEF NickReg, Unregistered, tryRegister, TypeOK
    <3>2. CASE nick[c] = NoNick
      <4>1. nick' = [nick EXCEPT ![c] = n] /\ nicks' = Add(Remove(nicks, c, nick[c]), c, n)
        BY <2>4, <3>2 DEF NickReg, Remove
      <4> QED
        BY <2>4, <3>1, <4>1, OnlyReadsAges, FreshUnregistered, RegistryChange, ZenonT(60)
        DEF NickReg
    <3>3. CASE nick[c] # NoNick
      <4>1. nick' = nick /\ nicks' = nicks
        BY <2>4, <3>3 DEF NickReg, TypeOK
      <4> QED BY <3>1, <4>1, <1>1
    <3> QED BY <3>2, <3>3
  <2>5. ASSUME NEW flags \in SUBSET (Settable \cap {WallOps, Invisible}),
               User(c, flags)
        PROVE  RegistryInv'
    <3>1. CanRun(c) /\ OnlyReads(c) /\ \A x \in Client \ {c} : registered'[x] = registered[x]
      BY <2>5 DEF User, Unregistered, tryRegister, TypeOK
    <3>2. nick' = nick /\ nicks' = Add(Remove(nicks, c, nick[c]), c, nick[c])
      BY <2>5 DEF User
    <3>3. CASE nick[c] # NoNick /\ Get(nicks, nick[c]) \in {NoClient, c}
      <4>1. nick[c] \in Nick /\ nick' = [nick EXCEPT ![c] = nick[c]]
        BY <3>2, <3>3 DEF TypeOK
      <4> QED
        BY <3>1, <3>2, <3>3, <4>1, OnlyReadsAges, FreshUnregistered, RegistryChange
    <3>4. CASE ~(nick[c] # NoNick /\ Get(nicks, nick[c]) \in {NoClient, c})
      <4>1. nicks' = nicks
        BY <3>2, <3>4 DEF Add, Remove
      <4> QED BY <3>1, <3>2, <4>1, <1>1
    <3> QED BY <3>3, <3>4
  <2> QED BY <1>2, <2>1, <2>2, <2>3, <2>4, <2>5 DEF Register
<1>3. ASSUME CanRun(c), NEW t \in Client, NEW n \in Nick,
             conn[t] \notin {"none", "pending"},
             Get(nicks, n) \in {NoClient, t}, ChangeNickname(c, t, n)
      PROVE  RegistryInv'
  <2>1. OnlyReads(c) /\ registered' = registered
    BY <1>3 DEF ChangeNickname
  <2>2. conn'[t] \notin {"none", "pending"}
    BY <1>3, <2>1, OnlyReadsAges DEF Ages
  <2> QED
    BY <1>3, <2>1, <2>2, OnlyReadsAges, FreshUnregistered, RegistryChange
    DEF ChangeNickname
<1>4. ASSUME CanRun(c), NEW t \in Client, NEW ms, SetModes(c, t, ms)
      PROVE  RegistryInv'
  BY <1>4, <1>1 DEF SetModes
<1>5. ASSUME Command(c), NEW n \in Nick, Get(nicks, n) # NoClient
      PROVE  Get(nicks, n) \in Client /\ nick[Get(nicks, n)] # NoNick
  BY <1>5 DEF Get, TypeOK, RegistryInv, RegistrySound
<1>6. ASSUME Command(c) PROVE RegistryInv'
  <2>1. CASE NoEffect(c)
    BY <2>1, <1>1 DEF NoEffect, profileVars
  <2>2. CASE Oper(c)
    BY <2>2, <1>4 DEF Oper, Registered
  <2>3. ASSUME NEW n \in Nick, NickCmd(c, n) PROVE RegistryInv'
    BY <2>3, <1>3 DEF NickCmd, Registered, CanRun
  <2>4. ASSUME NEW t \in Nick, NEW n \in Nick, OperNick(c, t, n) PROVE RegistryInv'
    <3>1. Get(nicks, t) \in Client /\ conn[Get(nicks, t)] \notin {"none", "pending"}
      BY <1>6, <2>4, <1>5 DEF OperNick, RegistryInv, Fresh
    <3>2. /\ CanRun(c) /\ Get(nicks, n) = NoClient
          /\ ChangeNickname(c, Get(nicks, t), n)
      BY <2>4 DEF OperNick, Registered
    <3> QED BY <3>1, <3>2, <1>3
  <2>5. ASSUME NEW set \in BOOLEAN, AwayCmd(c, set) PROVE RegistryInv'
    BY <2>5, <1>4 DEF AwayCmd, Registered
  <2>6. ASSUME NEW n \in Nick, NEW plus, NEW minus, ModeCmd(c, n, plus, minus)
        PROVE  RegistryInv'
    BY <1>6, <2>6, <1>4, <1>5 DEF ModeCmd, Registered
  <2> QED BY <1>6, <2>1, <2>2, <2>3, <2>4, <2>5, <2>6 DEF Command
<1>7. ASSUME Connection(c) PROVE RegistryInv'
  <2>1. Ages /\ UNCHANGED <<nicks, nick, registered>>
    BY <1>7 DEF Connection, Accept, NewClient, LateLine, LateEOF, profileVars,
                TypeOK, Ages
  <2>2. \A x \in Client : conn'[x] \in {"none", "pending"} => ~registered'[x]
    BY <2>1 DEF Ages, RegistryInv, Fresh
  <2> QED BY <2>1, <2>2, RegistryKeep
<1>8. ASSUME Ends(c) PROVE RegistryInv'
  <2>1. CASE Leave(c)
    BY <2>1, RegistryQuit DEF Leave, CanRun
  <2>2. CASE Timeout(c)
    BY <2>2, RegistryQuit DEF Timeout
  <2>3. ASSUME NEW n \in Nick, Kill(c, n) PROVE RegistryInv'
    <3>1. Get(nicks, n) \in Client /\ conn[Get(nicks, n)] \notin {"none", "pending"}
      BY <2>3 DEF Kill, Get, TypeOK, RegistryInv, RegistrySound, Fresh
    <3> QED BY <2>3, <3>1, RegistryQuit DEF Kill, Registered
  <2> QED BY <1>8, <2>1, <2>2, <2>3 DEF Ends
<1> QED BY <1>2, <1>6, <1>7, <1>8

LEMMA RegistryAlways == Spec => [](TypeOK /\ RegistryInv)
<1>1. Init => TypeOK /\ RegistryInv
  BY SessionsAssumption
  DEF Init, TypeOK, RegistryInv, NickOwner, RegistrySound, Fresh
<1>2. TypeOK /\ RegistryInv /\ [Next]_sessionVars => TypeOK' /\ RegistryInv'
  <2> SUFFICES ASSUME TypeOK, RegistryInv, [Next]_sessionVars
               PROVE  TypeOK' /\ RegistryInv'
    OBVIOUS
  <2>1. CASE Next
    BY <2>1, TypeStep, RegistryStep DEF Next
  <2>2. CASE UNCHANGED sessionVars
    BY <2>2 DEF sessionVars, TypeOK, RegistryInv, NickOwner, RegistrySound, Fresh, Get
  <2> QED BY <2>1, <2>2
<1> QED BY <1>1, <1>2, PTL DEF Spec

(* Every live client is found under its nickname, whatever NICK, USER,     *)
(* ONICK and KILL the others send.                                         *)
THEOREM RegistryCorrect == Spec => []NickOwner
<1>1. RegistryInv => NickOwner
  BY DEF RegistryInv
<1> QED BY <1>1, RegistryAlways, PTL

(* Every registry entry leads to a client of that name, even when a        *)
(* destroyed client has put itself back.                                   *)
THEOREM SoundCorrect == Spec => []RegistrySound
<1>1. RegistryInv => RegistrySound
  BY DEF RegistryInv
<1> QED BY <1>1, RegistryAlways, PTL

-----------------------------------------------------------------------------
(* The registration gate.  CAP END registers without asking whether the    *)
(* client is authorized, so the proof needs to know that nobody has a      *)
(* nickname without being so; ONICK needs that its target has one already. *)
NamedAuthorized == \A c \in Client : nick[c] # NoNick => authorized[c]

GateInv == RegistrationGate /\ NamedAuthorized

LEMMA GateKeep ==
  ASSUME GateInv, UNCHANGED profileVars
  PROVE  GateInv'
BY DEF GateInv, RegistrationGate, NamedAuthorized, IsOperator, profileVars

(* A step that concerns c alone, which was not registered, and registers   *)
(* it only with everything that tryRegister asks for.                      *)
LEMMA GateOne ==
  ASSUME GateInv, NEW c \in Client,
         \A x \in Client \ {c} :
           /\ registered'[x] = registered[x] /\ nick'[x] = nick[x]
           /\ hasUser'[x] = hasUser[x] /\ capState'[x] = capState[x]
           /\ modes'[x] = modes[x],
         authorized' = authorized,
         nick'[c] # NoNick => authorized[c],
         registered'[c] => nick'[c] # NoNick /\ hasUser'[c] /\ capState'[c] # "negotiating",
         Operator \notin modes'[c]
  PROVE  GateInv'
<1>1. ASSUME NEW x \in Client
      PROVE  /\ registered'[x] => /\ authorized'[x] /\ nick'[x] # NoNick /\ hasUser'[x]
                                  /\ capState'[x] # "negotiating"
             /\ Operator \in modes'[x] => registered'[x]
             /\ nick'[x] # NoNick => authorized'[x]
  <2>1. CASE x = c
    BY <2>1, Zenon
  <2>2. CASE x # c
    BY <2>2, Zenon DEF GateInv, RegistrationGate, NamedAuthorized, IsOperator
  <2> QED BY <2>1, <2>2
<1> QED BY <1>1, Zenon DEF GateInv, RegistrationGate, NamedAuthorized, IsOperator

(* tryRegister registers nobody without nickname, user info or the end of  *)
(* the negotiation, and makes nobody an operator.                          *)
LEMMA TryRegisters ==
  ASSUME TypeOK, GateInv, NEW c \in Client, ~registered[c],
         NEW n, NEW u, NEW s, NEW md, Operator \in md => Operator \in modes[c],
         tryRegister(c, n, u, s, md)
  PROVE  /\ \A x \in Client \ {c} : registered'[x] = registered[x] /\ modes'[x] = modes[x]
         /\ registered'[c] => n # NoNick /\ u /\ s # "negotiating"
         /\ Operator \notin modes'[c]
<1>1. Operator \notin md
  BY DEF GateInv, RegistrationGate, IsOperator
<1>2. Operator \notin modes'[c]
  BY <1>1 DEF tryRegister, TypeOK, Operator, HostMask
<1>3. registered'[c] => n # NoNick /\ u /\ s # "negotiating"
  BY Zenon DEF tryRegister, TypeOK
<1> QED BY <1>2, <1>3 DEF tryRegister, TypeOK

LEMMA GateSetModes ==
  ASSUME TypeOK, GateInv, NEW c \in Client, NEW t \in Client, NEW ms,
         SetModes(c, t, ms), Operator \in ms => registered[t]
  PROVE  GateInv'
BY DEF TypeOK, GateInv, RegistrationGate, NamedAuthorized, IsOperator, SetModes

LEMMA GateChangeNickname ==
  ASSUME TypeOK, GateInv, NEW c \in Client, NEW t \in Client, NEW n \in Nick,
         ChangeNickname(c, t, n), nick[t] # NoNick
  PROVE  GateInv'
BY SessionsAssumption
DEF TypeOK, GateInv, RegistrationGate, NamedAuthorized, IsOperator, ChangeNickname

LEMMA GateStep ==
  ASSUME TypeOK, RegistryInv, GateInv, NEW c \in Client,
         Register(c) \/ Command(c) \/ Connection(c) \/ Ends(c)
  PROVE  GateInv'
<1> USE SessionsAssumption
<1>1. ASSUME Register(c) PROVE GateInv'
  <2>1. ASSUME NEW code \in {"PASS", "OPER"}, Pass(c, code) PROVE GateInv'
    BY <2>1 DEF Pass, TypeOK, GateInv, RegistrationGate, NamedAuthorized, IsOperator
  <2>2. CASE CapLS(c)
    BY <2>2 DEF CapLS, Unregistered, TypeOK, GateInv, RegistrationGate,
                NamedAuthorized, IsOperator
  <2>3. CASE CapEnd(c)
    <3>1. ~registered[c] /\ tryRegister(c, nick[c], hasUser[c], "negotiated", modes[c])
      BY <2>3 DEF CapEnd, Unregistered
    <3>2. /\ nick' = nick /\ hasUser' = hasUser /\ authorized' = authorized
          /\ capState' = [capState EXCEPT ![c] = "negotiated"]
      BY <2>3 DEF CapEnd
    <3>3. nick[c] # NoNick => authorized[c]
      BY DEF GateInv, NamedAuthorized
    <3> QED BY <3>1, <3>2, <3>3, TryRegisters, GateOne DEF TypeOK
  <2>4. ASSUME NEW n \in Nick, NickReg(c, n) PROVE GateInv'
    <3> DEFINE m == IF nick[c] = NoNick THEN n ELSE nick[c]
    <3>1. /\ ~registered[c] /\ authorized[c]
          /\ tryRegister(c, m, hasUser[c], capState[c], modes[c])
      BY <2>4 DEF NickReg, Unregistered
    <3>2. /\ hasUser' = hasUser /\ authorized' = authorized /\ capState' = capState
          /\ nick' = [nick EXCEPT ![c] = m]
      BY <2>4 DEF NickReg
    <3> HIDE DEF m
    <3>3. /\ \A x \in Client \ {c} : registered'[x] = registered[x] /\ modes'[x] = modes[x]
          /\ registered'[c] => m # NoNick /\ hasUser[c] /\ capState[c] # "negotiating"
          /\ Operator \notin modes'[c]
      BY <3>1, TryRegisters
    <3>4. nick'[c] = m /\ \A x \in Client \ {c} : nick'[x] = nick[x]
      BY <3>2 DEF TypeOK
    <3> QED BY <3>1, <3>2, <3>3, <3>4, GateOne
  <2>5. ASSUME NEW flags \in SUBSET (Settable \cap {WallOps, Invisible}),
               User(c, flags)
        PROVE  GateInv'
    <3>1. /\ ~registered[c] /\ authorized[c]
          /\ tryRegister(c, nick[c], TRUE, capState[c], modes[c] \cup flags)
      BY <2>5 DEF User, Unregistered
    <3>2. /\ nick' = nick /\ authorized' = authorized /\ capState' = capState
          /\ hasUser' = [hasUser EXCEPT ![c] = TRUE]
      BY <2>5 DEF User
    <3>3. Operator \in modes[c] \cup flags => Operator \in modes[c]
      OBVIOUS
    <3>4. /\ \A x \in Client \ {c} : registered'[x] = registered[x] /\ modes'[x] = modes[x]
          /\ registered'[c] => nick[c] # NoNick /\ capState[c] # "negotiating"
          /\ Operator \notin modes'[c]
      BY <3>1, <3>3, TryRegisters
    <3>5. hasUser'[c] /\ \A x \in Client \ {c} : hasUser'[x] = hasUser[x]
      BY <3>2 DEF TypeOK
    <3> QED BY <3>1, <3>2, <3>4, <3>5, GateOne
  <2> QED BY <1>1, <2>1, <2>2, <2>3, <2>4, <2>5 DEF Register
<1>2. ASSUME NEW n \in Nick, Get(nicks, n) # NoClient
      PROVE  Get(nicks, n) \in Client /\ nick[Get(nicks, n)] # NoNick
  BY <1>2 DEF Get, TypeOK, RegistryInv, RegistrySound
<1>3. ASSUME Command(c) PROVE GateInv'
  <2>1. CASE NoEffect(c)
    BY <2>1, GateKeep DEF NoEffect
  <2>2. CASE Oper(c)
    BY <2>2, GateSetModes DEF Oper, Registered
  <2>3. ASSUME NEW n \in Nick, NickCmd(c, n) PROVE GateInv'
    <3>1. nick[c] # NoNick
      BY <2>3 DEF NickCmd, Registered, GateInv, RegistrationGate
    <3> QED BY <2>3, <3>1, GateChangeNickname DEF NickCmd
  <2>4. ASSUME NEW t \in Nick, NEW n \in Nick, OperNick(c, t, n) PROVE GateInv'
    BY <2>4, <1>2, GateChangeNickname DEF OperNick
  <2>5. ASSUME NEW set \in BOOLEAN, AwayCmd(c, set) PROVE GateInv'
    BY <2>5, GateSetModes DEF AwayCmd, Registered
  <2>6. ASSUME NEW n \in Nick, NEW plus \in SUBSET (Settable \ {Away}), NEW minus,
               ModeCmd(c, n, plus, minus)
        PROVE  GateInv'
    <3>1. Operator \notin plus
      OBVIOUS
    <3>2. Operator \in modes[Get(nicks, n)] => registered[Get(nicks, n)]
      BY <2>6, <1>2 DEF ModeCmd, GateInv, RegistrationGate, IsOperator
    <3> QED BY <2>6, <1>2, <3>1, <3>2, GateSetModes DEF ModeCmd
  <2> QED BY <1>3, <2>1, <2>2, <2>3, <2>4, <2>5, <2>6 DEF Command
<1>4. ASSUME Connection(c) PROVE GateInv'
  <2>1. CASE NewClient(c)
    <3>1. nick[c] = NoNick /\ ~registered[c]
      BY <2>1 DEF NewClient, RegistryInv, Fresh
    <3> QED
      BY <2>1, <3>1 DEF NewClient, TypeOK, GateInv, RegistrationGate,
                        NamedAuthorized, IsOperator
  <2>2. CASE ~NewClient(c)
    BY <1>4, <2>2, GateKeep DEF Connection, Accept, LateLine, LateEOF
  <2> QED BY <2>1, <2>2
<1>5. ASSUME Ends(c) PROVE GateInv'
  BY <1>5, GateKeep DEF Ends, Leave, Timeout, Kill
<1> QED BY <1>1, <1>3, <1>4, <1>5

(* Nobody is registered without nickname, user info, the end of the        *)
(* capability negotiation, and a PASS or OPER that authorized it where the *)
(* server has a password (not necessarily one that compared a password);   *)
(* and nobody is an operator who is not registered.                        *)
THEOREM GateCorrect == Spec => []RegistrationGate
<1>1. Init => GateInv
  BY SessionsAssumption DEF Init, GateInv, RegistrationGate, NamedAuthorized, IsOperator
<1>2. TypeOK /\ RegistryInv /\ GateInv /\ [Next]_sessionVars => GateInv'
  <2> SUFFICES ASSUME TypeOK, RegistryInv, GateInv, [Next]_sessionVars PROVE GateInv'
    OBVIOUS
  <2>1. CASE Next
    BY <2>1, GateStep DEF Next
  <2>2. CASE UNCHANGED sessionVars
    BY <2>2, GateKeep DEF sessionVars, profileVars
  <2> QED BY <2>1, <2>2
<1>3. GateInv => RegistrationGate
  BY DEF GateInv
<1> QED BY <1>1, <1>2, <1>3, RegistryAlways, PTL DEF Spec
-----------------------------------------------------------------------------
(* Who waits for whom.  NoCircularWait is inductive as it stands: a client *)
(* that is quit from outside was reading or was itself stuck, and whoever  *)
(* calls Quit was not stuck before.                                        *)
LEMMA WaitKeep ==
  ASSUME NoCircularWait, blockedOn' = blockedOn,
         \A x \in Client : conn[x] = "lame" => conn'[x] = "lame",
         TypeOK
  PROVE  NoCircularWait'
BY DEF NoCircularWait, TypeOK

LEMMA WaitRun ==
  ASSUME TypeOK, NoCircularWait, NEW c \in Client, CanRun(c), OnlyReads(c)
  PROVE  NoCircularWait'
BY WaitKeep DEF OnlyReads, CanRun, TypeOK

LEMMA WaitQuit ==
  ASSUME TypeOK, NoCircularWait, NEW c \in Client, NEW caller \in Client \cup {NoClient},
         caller \in Client => CanRun(caller), Quit(c, caller)
  PROVE  NoCircularWait'
<1> USE SessionsAssumption
<1> DEFINE inRead == conn[c] = "open" /\ c # caller /\ blockedOn[c] = NoClient
<1>1. \A x \in Client : conn[x] = "lame" => conn'[x] = "lame"
  BY DEF Quit, hasQuit, CanRun, TypeOK, NextRead
<1>2. CASE hasQuit(c) \/ ~(inRead /\ caller \in Client)
  <2>1. blockedOn' = blockedOn
    BY <1>2 DEF Quit
  <2> QED BY <1>1, <2>1, WaitKeep
<1>3. CASE ~hasQuit(c) /\ inRead /\ caller \in Client
  <2>1. blockedOn' = [blockedOn EXCEPT ![caller] = c] /\ conn'[c] = "lame"
    BY <1>3 DEF Quit, TypeOK
  <2>2. blockedOn[caller] = NoClient /\ conn[caller] # "lame" /\ conn[c] # "lame"
    BY <1>3 DEF CanRun
  <2>3. ASSUME NEW k \in Client, blockedOn'[k] # NoClient
        PROVE  /\ conn'[blockedOn'[k]] = "lame"
               /\ blockedOn'[blockedOn'[k]] = NoClient
               /\ \A j \in Client \ {k} : blockedOn'[j] # blockedOn'[k]
    <3>1. CASE k = caller
      BY <1>3, <2>1, <2>2, <3>1 DEF NoCircularWait, TypeOK
    <3>2. CASE k # caller
      BY <1>1, <1>3, <2>1, <2>2, <2>3, <3>2 DEF NoCircularWait, TypeOK
    <3> QED BY <3>1, <3>2
  <2> QED BY <2>3 DEF NoCircularWait
<1> QED BY <1>2, <1>3

LEMMA WaitStep ==
  ASSUME TypeOK, NoCircularWait, NEW c \in Client,
         Register(c) \/ Command(c) \/ Connection(c) \/ Ends(c)
  PROVE  NoCircularWait'
<1> USE SessionsAssumption
<1>1. CASE Register(c)
  BY <1>1, WaitRun
  DEF Register, Pass, CapLS, CapEnd, NickReg, User, Unregistered
<1>2. CASE Command(c)
  BY <1>2, WaitRun
  DEF Command, NoEffect, Oper, NickCmd, OperNick, AwayCmd, ModeCmd, SetModes,
      ChangeNickname, Registered
<1>3. CASE Connection(c)
  <2>1. CASE Accept(c) \/ NewClient(c)
    BY <2>1, WaitKeep DEF Accept, NewClient, TypeOK
  <2>2. CASE LateLine(c) \/ LateEOF(c)
    <3>1. /\ blockedOn' = Released(c)
          /\ \A x \in Client \ {c} : conn'[x] = conn[x]
      BY <2>2 DEF LateLine, LateEOF, TypeOK
    <3> QED BY <3>1 DEF Released, NoCircularWait, TypeOK
  <2> QED BY <1>3, <2>1, <2>2 DEF Connection
<1>4. CASE Ends(c)
  <2>1. CASE Leave(c)
    BY <2>1, WaitQuit DEF Leave
  <2>2. CASE Timeout(c)
    BY <2>2, WaitQuit DEF Timeout
  <2>3. ASSUME NEW n \in Nick, Kill(c, n) PROVE NoCircularWait'
    BY <2>3, WaitQuit DEF Kill, Registered, Get, TypeOK
  <2> QED BY <1>4, <2>1, <2>2, <2>3 DEF Ends
<1> QED BY <1>1, <1>2, <1>3, <1>4

(* Readers stuck in Socket.Close wait for a destroyed client's peer and    *)
(* for no other reader, so they never wait for each other.                 *)
THEOREM WaitCorrect == Spec => []NoCircularWait
<1>1. Init => NoCircularWait
  BY DEF Init, NoCircularWait
<1>2. TypeOK /\ NoCircularWait /\ [Next]_sessionVars => NoCircularWait'
  <2> SUFFICES ASSUME TypeOK, NoCircularWait, [Next]_sessionVars PROVE NoCircularWait'
    OBVIOUS
  <2>1. CASE Next
    BY <2>1, WaitStep DEF Next
  <2>2. CASE UNCHANGED sessionVars
    BY <2>2 DEF sessionVars, NoCircularWait
  <2> QED BY <2>1, <2>2
<1> QED BY <1>1, <1>2, TypeCorrect, PTL DEF Spec

-----------------------------------------------------------------------------
(* The connection counter.                                                 *)
Counted == {c \in Client : conn[c] \in {"pending", "open"}}

LEMMA CountedFinite == IsFiniteSet(Counted) /\ Cardinality(Counted) \in Int
<1>1. IsFiniteSet(Counted)
  BY SessionsAssumption, FS_Subset DEF Counted
<1> QED BY <1>1, FS_CardinalityType

LEMMA CountKeep ==
  ASSUME ConnectionsCount, connections' = connections, Counted' = Counted
  PROVE  ConnectionsCount'
BY DEF ConnectionsCount, Counted

LEMMA CountRun ==
  ASSUME TypeOK, ConnectionsCount, NEW c \in Client, CanRun(c), OnlyReads(c)
  PROVE  ConnectionsCount'
<1>1. Counted' = Counted
  BY DEF Counted, OnlyReads, NextRead, CanRun, TypeOK
<1> QED BY <1>1, CountKeep DEF OnlyReads

LEMMA CountQuit ==
  ASSUME TypeOK, ConnectionsCount, NEW c \in Client, NEW caller \in Client \cup {NoClient},
         caller \in Client => CanRun(caller), conn[c] # "none", Quit(c, caller)
  PROVE  ConnectionsCount'
<1> USE SessionsAssumption
<1>1. CASE hasQuit(c)
  <2>1. Counted' = Counted
    BY <1>1 DEF Quit, Counted, NextRead, CanRun, TypeOK
  <2> QED BY <1>1, <2>1, CountKeep DEF Quit
<1>2. CASE ~hasQuit(c)
  <2>1. Counted' = Counted \ {c} /\ c \in Counted
    BY <1>2 DEF Quit, Counted, NextRead, CanRun, hasQuit, TypeOK
  <2>2. Cardinality(Counted \ {c}) = Cardinality(Counted) - 1
    BY <2>1, CountedFinite, FS_RemoveElement
  <2>3. connections' = connections - 1
    BY <1>2 DEF Quit
  <2> QED BY <2>1, <2>2, <2>3 DEF ConnectionsCount, Counted
<1> QED BY <1>1, <1>2

LEMMA CountStep ==
  ASSUME TypeOK, RegistryInv, ConnectionsCount, NEW c \in Client,
         Register(c) \/ Command(c) \/ Connection(c) \/ Ends(c)
  PROVE  ConnectionsCount'
<1> USE SessionsAssumption
<1>1. CASE Register(c)
  BY <1>1, CountRun
  DEF Register, Pass, CapLS, CapEnd, NickReg, User, Unregistered
<1>2. CASE Command(c)
  BY <1>2, CountRun
  DEF Command, NoEffect, Oper, NickCmd, OperNick, AwayCmd, ModeCmd, SetModes,
      ChangeNickname, Registered
<1>3. CASE Connection(c)
  <2>1. CASE Accept(c)
    <3>1. Counted' = Counted \cup {c} /\ c \notin Counted
      BY <2>1 DEF Accept, Counted, TypeOK
    <3>2. Cardinality(Counted \cup {c}) = Cardinality(Counted) + 1
      BY <3>1, CountedFinite, FS_AddElement
    <3> QED BY <2>1, <3>1, <3>2 DEF Accept, ConnectionsCount, Counted
  <2>2. CASE NewClient(c) \/ LateLine(c) \/ LateEOF(c)
    <3>1. Counted' = Counted /\ connections' = connections
      BY <2>2 DEF NewClient, LateLine, LateEOF, Counted, TypeOK
    <3> QED BY <3>1, CountKeep
  <2> QED BY <1>3, <2>1, <2>2 DEF Connection
<1>4. CASE Ends(c)
  <2>1. CASE Leave(c)
    BY <2>1, CountQuit DEF Leave, CanRun
  <2>2. CASE Timeout(c)
    BY <2>2, CountQuit DEF Timeout
  <2>3. ASSUME NEW n \in Nick, Kill(c, n) PROVE ConnectionsCount'
    <3>1. Get(nicks, n) \in Client /\ conn[Get(nicks, n)] # "none"
      BY <2>3 DEF Kill, Get, TypeOK, RegistryInv, RegistrySound, Fresh
    <3> QED BY <2>3, <3>1, CountQuit DEF Kill, Registered
  <2> QED BY <1>4, <2>1, <2>2, <2>3 DEF Ends
<1> QED BY <1>1, <1>2, <1>3, <1>4

(* server.connections is the number of connections that are accepted and   *)
(* not destroyed.                                                          *)
THEOREM CountCorrect == Spec => []ConnectionsCount
<1>1. Init => ConnectionsCount
  <2> SUFFICES ASSUME Init PROVE ConnectionsCount
    OBVIOUS
  <2>1. Counted = {}
    BY DEF Init, Counted
  <2> QED BY <2>1, FS_EmptySet DEF Init, ConnectionsCount, Counted
<1>2. TypeOK /\ RegistryInv /\ ConnectionsCount /\ [Next]_sessionVars => ConnectionsCount'
  <2> SUFFICES ASSUME TypeOK, RegistryInv, ConnectionsCount, [Next]_sessionVars
               PROVE  ConnectionsCount'
    OBVIOUS
  <2>1. CASE Next
    BY <2>1, CountStep DEF Next
  <2>2. CASE UNCHANGED sessionVars
    BY <2>2 DEF sessionVars, ConnectionsCount
  <2> QED BY <2>1, <2>2
<1> QED BY <1>1, <1>2, RegistryAlways, PTL DEF Spec
-----------------------------------------------------------------------------
(* Rightful steps.  ModesOf says what a command of c may do to the modes   *)
(* of everybody: change c's own, or anybody's if c is an operator, and     *)
(* make an operator of nobody but c, by OPER.                              *)
ModesOf(c) ==
  \A t \in Client :
    /\ modes'[t] # modes[t] => t = c \/ IsOperator(c)
    /\ Operator \in modes'[t] => IsOperator(t) \/ (t = c /\ Oper(c))

LEMMA RightKeep ==
  ASSUME NEW c \in Client, modes' = modes
  PROVE  ModesOf(c)
BY DEF ModesOf, IsOperator

(* tryRegister adds HostMask at most, to the client that runs.             *)
LEMMA RightRegister ==
  ASSUME TypeOK, NEW c \in Client, NEW n, NEW u, NEW s,
         NEW md, Operator \in md => Operator \in modes[c],
         tryRegister(c, n, u, s, md)
  PROVE  ModesOf(c)
<1>1. \A x \in Client \ {c} : modes'[x] = modes[x]
  BY DEF tryRegister, TypeOK
<1>2. Operator \in modes'[c] => Operator \in modes[c]
  BY DEF tryRegister, TypeOK, Operator, HostMask
<1> QED BY <1>1, <1>2 DEF ModesOf, IsOperator

(* Modes are set on oneself, or by an operator, who makes nobody one.      *)
LEMMA RightSet ==
  ASSUME TypeOK, NEW c \in Client, NEW t \in Client, NEW ms,
         t = c \/ IsOperator(c), SetModes(c, t, ms),
         Operator \in ms => IsOperator(t) \/ (t = c /\ Oper(c))
  PROVE  ModesOf(c)
<1>1. modes'[t] = ms /\ \A x \in Client \ {t} : modes'[x] = modes[x]
  BY DEF SetModes, TypeOK
<1> QED BY <1>1 DEF ModesOf, IsOperator

LEMMA RightRegisters ==
  ASSUME TypeOK, NEW c \in Client, Register(c)
  PROVE  ModesOf(c)
<1>1. CASE CapLS(c) \/ \E code \in {"PASS", "OPER"} : Pass(c, code)
  BY <1>1, RightKeep DEF Pass, CapLS
<1>2. CASE CapEnd(c)
  BY <1>2, RightRegister DEF CapEnd
<1>3. CASE \E n \in Nick : NickReg(c, n)
  BY <1>3, RightRegister DEF NickReg
<1>4. ASSUME NEW flags \in SUBSET (Settable \cap {WallOps, Invisible}), User(c, flags)
      PROVE  ModesOf(c)
  <2>1. Operator \in modes[c] \cup flags => Operator \in modes[c]
    BY DEF Operator, WallOps, Invisible
  <2>2. tryRegister(c, nick[c], TRUE, capState[c], modes[c] \cup flags)
    BY <1>4 DEF User
  <2> QED BY <2>1, <2>2, RightRegister
<1> QED BY <1>1, <1>2, <1>3, <1>4 DEF Register

LEMMA RightCommand ==
  ASSUME TypeOK, NEW c \in Client, Command(c)
  PROVE  ModesOf(c)
<1> USE SessionsAssumption
<1>1. CASE NoEffect(c)
  BY <1>1, RightKeep DEF NoEffect, profileVars
<1>2. CASE Oper(c)
  <2>1. SetModes(c, c, modes[c] \cup {Operator, WallOps})
    BY <1>2 DEF Oper
  <2> QED BY <1>2, <2>1, RightSet
<1>3. CASE \E n \in Nick : NickCmd(c, n)
  BY <1>3, RightKeep DEF NickCmd, ChangeNickname
<1>4. CASE \E t, n \in Nick : OperNick(c, t, n)
  BY <1>4, RightKeep DEF OperNick, ChangeNickname
<1>5. ASSUME NEW set \in BOOLEAN, AwayCmd(c, set) PROVE ModesOf(c)
  <2> DEFINE ms == IF set THEN modes[c] \cup {Away} ELSE modes[c] \ {Away}
  <2>1. Operator \in ms => IsOperator(c)
    BY DEF IsOperator, Operator, Away
  <2>2. SetModes(c, c, ms)
    BY <1>5 DEF AwayCmd
  <2> HIDE DEF ms
  <2> QED BY <2>1, <2>2, RightSet
<1>6. ASSUME NEW n \in Nick, NEW plus \in SUBSET (Settable \ {Away}), NEW minus,
             ModeCmd(c, n, plus, minus)
      PROVE  ModesOf(c)
  <2> DEFINE t == Get(nicks, n)
             ms == (modes[t] \cup plus) \ minus
  <2>1. t \in Client /\ (t = c \/ IsOperator(c)) /\ SetModes(c, t, ms)
    BY <1>6 DEF ModeCmd, Get, TypeOK
  <2>2. Operator \in ms => IsOperator(t)
    BY DEF IsOperator
  <2> HIDE DEF t, ms
  <2> QED BY <2>1, <2>2, RightSet
<1> QED BY <1>1, <1>2, <1>3, <1>4, <1>5, <1>6 DEF Command

(* Connections that come and clients that end leave all modes alone.       *)
LEMMA RightOther ==
  ASSUME NEW c \in Client, Connection(c) \/ Ends(c)
  PROVE  modes' = modes
BY DEF Connection, Accept, NewClient, LateLine, LateEOF, profileVars,
       Ends, Leave, Timeout, Kill

LEMMA RightfulTaken == TypeOK /\ Next => RightfulStep
<1> SUFFICES ASSUME TypeOK, Next, modes' # modes
             PROVE  /\ \E c \in Client : Register(c) \/ Command(c)
                    /\ \A c \in Client :
                         Register(c) \/ Command(c) =>
                           \A t \in Client : modes'[t] # modes[t] => t = c \/ IsOperator(c)
                    /\ \A c \in Client : ~IsOperator(c) /\ IsOperator(c)' => Oper(c)
  BY Zenon DEF RightfulStep
<1>1. PICK a \in Client : Register(a) \/ Command(a)
  BY RightOther DEF Next
<1>2. ASSUME NEW c \in Client, Register(c) \/ Command(c) PROVE ModesOf(c)
  BY <1>2, RightRegisters, RightCommand
<1>3. ASSUME NEW c \in Client, ~IsOperator(c), IsOperator(c)' PROVE Oper(c)
  BY <1>1, <1>2, <1>3, Zenon DEF ModesOf, IsOperator
<1>4. ASSUME NEW c \in Client, Register(c) \/ Command(c), NEW t \in Client,
             modes'[t] # modes[t]
      PROVE  t = c \/ IsOperator(c)
  BY <1>2, <1>4, Zenon DEF ModesOf
<1> QED BY <1>1, <1>3, <1>4

(* Whoever runs a command changes its own modes or is an operator, no      *)
(* modes change without a command, and nobody becomes an operator but by   *)
(* its own OPER.                                                           *)
THEOREM ModesCorrect == Spec => ModesByRight
<1>1. TypeOK /\ [Next]_sessionVars => [RightfulStep]_sessionVars
  BY RightfulTaken
<1> QED BY <1>1, TypeCorrect, PTL DEF Spec, ModesByRight
=============================================================================
