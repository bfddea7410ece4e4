------------------------------- MODULE Views -------------------------------
(***************************************************************************)
(* What the clients are told about who is on their channels.  A client     *)
(* knows the names on a channel from the NAMES list at its own JOIN and    *)
(* from the JOIN, PART, KICK, QUIT and NICK lines that follow: nothing     *)
(* else tells it.  The lines carry nicknames, and a line for a client that *)
(* has quit is dropped by Reply.  A step is a whole handler, as in         *)
(* Channels, but for Quit, which tells the friends of a client only after  *)
(* destroy: when destroy waits in Socket.Close for the reader of the       *)
(* client, nobody is told until that Read returns, if it ever does, while  *)
(* the client has left the channels and its nickname is free.              *)
(***************************************************************************)
EXTENDS Channels

VARIABLES
  view,    \* the nicknames each client believes to be on each channel
  friends, \* whom the Quit of each client still has to tell, {} for nobody
  haunted  \* a line has told, or may yet tell, of the wrong client

viewVars == <<vars, view, friends, haunted>>

(* Client.Friends.  client.channels keeps channels the client has left.    *)
Friends(c) == {c} \cup UNION {DOMAIN chan[o].members : o \in joined[c]}

(* Everybody in S that has not quit reads a line, which changes what it    *)
(* believes of each channel by read(client, name, nicknames).              *)
Tell(S, read(_, _, _)) ==
  view' = [m \in Client |-> [name \in ChanName |->
             IF m \in S /\ ~hasQuit(m) THEN read(m, name, view[m][name]) ELSE view[m][name]]]

(* Channel.Nicks after the step, the names in the NAMES list.              *)
Nicks(o) == {nick[d] : d \in DOMAIN chan'[o].members}

-----------------------------------------------------------------------------
(* Mutant of TellJoin: no list of names follows.                           *)
TellJoinUnnamed(c, name) ==
  LET members == DOMAIN chan'[channels'[name]].members
  IN Tell(members, LAMBDA m, n, seen : IF n = name THEN seen \cup {nick[c]} ELSE seen)

(* RplJoin to every member, the new one included, which then gets NAMES.   *)
TellJoin(c, name) ==
  LET o == channels'[name]
  IN Tell(DOMAIN chan'[o].members,
          LAMBDA m, n, seen : CASE n # name -> seen
                                [] n = name /\ m = c -> Nicks(o)
                                [] OTHER -> seen \cup {nick[c]})

(* RplPart or RplKick to every member of each channel in S, before t is    *)
(* taken off; t drops the channel.                                         *)
TellPart(S, t) ==
  LET on(name) == {o \in S : chan[o].name = name}
      told == UNION {DOMAIN chan[o].members : o \in S}
      hears(m, name) == \E o \in on(name) : Has(chan[o], m)
  IN Tell(told, LAMBDA m, n, seen : CASE ~hears(m, n) -> seen
                                      [] hears(m, n) /\ m = t -> {}
                                      [] OTHER -> seen \ {nick[t]})

(* RplNick to the friends of t.                                            *)
TellNick(t, new) ==
  Tell(Friends(t), LAMBDA m, n, seen : IF nick[t] \in seen THEN (seen \ {nick[t]}) \cup {new}
                                       ELSE seen)

(* RplQuit to the clients in S.                                            *)
TellQuit(S, t) == Tell(S, LAMBDA m, n, seen : seen \ {nick[t]})

(* Client.Quit of t: the friends are looked up before destroy and told     *)
(* after it, unless t has quit before.                                     *)
TellEnd(t) ==
  \/ hasQuit(t) /\ UNCHANGED <<view, friends>>
  \/ /\ ~hasQuit(t) /\ conn'[t] = "gone"
     /\ TellQuit(Friends(t) \ {t}, t)
     /\ UNCHANGED friends
  \/ /\ ~hasQuit(t) /\ conn'[t] = "lame"
     /\ friends' = [friends EXCEPT ![t] = Friends(t) \ {t}]
     /\ UNCHANGED view

-----------------------------------------------------------------------------
ToldMembership(c) ==
  \/ JoinZero(c) /\ TellPart({o \in joined[c] : Has(chan[o], c)}, c)
  \/ \E name \in ChanName :
       \/ /\ \E key \in ChanKey \cup {NoKey} : Join(c, name, key) \/ JoinNew(c, name, key)
          /\ TellJoin(c, name)
       \/ Part(c, name) /\ TellPart({channels[name]}, c)
       \/ \E n \in Nick : Kick(c, name, n) /\ TellPart({channels[name]}, Get(nicks, n))

ToldCommand(c) ==
  /\ Registered(c)
  /\ ToldMembership(c) \/ (Settings(c) /\ UNCHANGED view)
  /\ OnlyReads(c)
  /\ UNCHANGED <<nicks, profileVars, friends>>

ToldNick(c) ==
  /\ \/ \E n \in Nick : NickCmd(c, n) /\ TellNick(c, n)
     \/ \E t, n \in Nick : OperNick(c, t, n) /\ TellNick(Get(nicks, t), n)
  /\ UNCHANGED <<chanVars, friends>>

ToldEnd(c) ==
  \/ (Leave(c) \/ Timeout(c)) /\ Destroy(c) /\ TellEnd(c)
  \/ \E n \in Nick : Kill(c, n) /\ Destroy(Get(nicks, n)) /\ TellEnd(Get(nicks, n))

(* The Read that the Quit of c waits for returns: Socket.Close goes on,    *)
(* and Quit tells the friends.                                             *)
ToldLate(c) ==
  /\ LateLine(c) \/ LateEOF(c)
  /\ TellQuit(friends[c], c)
  /\ friends' = [friends EXCEPT ![c] = {}]
  /\ UNCHANGED chanVars

(* The other commands leave every nickname alone.                          *)
Untold(c) ==
  /\ conn[c] # "lame"
  /\ SessionCommand(c) /\ UNCHANGED <<view, friends>>
  /\ registered[c] => nick' = nick

(* Two ways to be told of the wrong client: the last command of a          *)
(* destroyed client is a JOIN or a NICK, and somebody takes the nickname   *)
(* of a client whose QUIT is still to come.                                *)
Haunts(c) ==
  \/ conn[c] = "late" /\ (nick' # nick \/ chan' # chan)
  \/ \E t \in Client : friends'[t] # {} /\ Get(nicks', nick[t]) # NoClient

ViewsInit ==
  /\ ChannelsInit
  /\ view = [c \in Client |-> [name \in ChanName |-> {}]]
  /\ friends = [c \in Client |-> {}]
  /\ haunted = FALSE

ViewsNext ==
  \E c \in Client :
    /\ ToldCommand(c) \/ ToldNick(c) \/ ToldEnd(c) \/ ToldLate(c) \/ Untold(c)
    /\ haunted' = (haunted \/ Haunts(c))

ViewsSpec == ViewsInit /\ [][ViewsNext]_viewVars

-----------------------------------------------------------------------------
(* The nicknames of destroyed clients that c has still to be told of.      *)
Unheard(c) == {nick[t] : t \in {d \in Client : c \in friends[d]}}

(* What the members of a channel have been told is true but for the QUIT   *)
(* lines that wait for a silent peer: each live member believes the        *)
(* nicknames of all the members to be there, and no others than those of   *)
(* clients it has still to be told of, through all joins, parts, kicks,    *)
(* kills, timeouts and changes of nickname, although client.channels is    *)
(* out of date.  That ends when a line may tell of the wrong client, for   *)
(* nothing puts it right (Haunts).                                         *)
ViewsAgree ==
  ~haunted =>
    \A name \in ChanName :
      channels[name] # NoChan =>
        LET members == DOMAIN chan[channels[name]].members
            there == {nick[d] : d \in members}
        IN \A c \in members :
             ~hasQuit(c) => /\ there \subseteq view[c][name]
                            /\ view[c][name] \subseteq there \cup Unheard(c)
=============================================================================
