------------------------------ MODULE Channels ------------------------------
(***************************************************************************)
(* The channels of the server on top of Sessions: the registry             *)
(* server.channels, the membership kept twice (channel.members and         *)
(* client.channels), modes, mask lists and topics.                         *)
(*                                                                         *)
(* A channel is an object that clients point to: client.channels keeps a   *)
(* channel after PART and KICK, even one that has left the registry and    *)
(* whose name a newer channel has taken.  So channels are elements of Chan *)
(* with a name, and an element is reused when nothing points to it.  A     *)
(* JOIN, PART or KICK names one channel here; the code's lists of targets  *)
(* are handled one after the other.                                        *)
(***************************************************************************)
EXTENDS Sessions, Sequences

CONSTANTS
  Chan,       \* channel objects
  NoChan,     \* a nil *Channel
  ChanName,   \* lower-case channel names
  ChanKey,    \* the keys MODE +k and JOIN may give
  NoKey,      \* the empty key
  Topic,      \* the texts TOPIC may set
  NoTopic,    \* the empty topic
  Mask,       \* the masks MODE may name, each the set of user hosts it matches
  MaxLimit,   \* bound on the argument of MODE +l
  ModeLines   \* sequences of changes that the MODE commands of a run carry

ChannelCreator  == "O"
ChannelOperator == "o"
Voice           == "v"
MemberMode      == {ChannelCreator, ChannelOperator, Voice}

BanMask    == "b"
ExceptMask == "e"
InviteMask == "I"
MaskMode   == {BanMask, ExceptMask, InviteMask}

InviteOnly  == "i"
Moderated   == "m"
NoOutside   == "n"
OpOnlyTopic == "t"
Private     == "p"
Secret      == "s"
SecureChan  == "Z"
Flag == {InviteOnly, Moderated, NoOutside, OpOnlyTopic, Private, Secret, SecureChan}

UserHost(c) == <<nick[c], c>>   \* nick!user@host: all but the nickname is c's
UserHosts   == (Nick \cup {NoNick}) \X Client

ModeOp == {"+", "-", "="}
ModeChange ==
  [mode : MaskMode, op : ModeOp, arg : Mask] \cup
  [mode : Flag, op : ModeOp] \cup
  [mode : {"k"}, op : ModeOp, arg : ChanKey \cup {NoKey}] \cup
  [mode : {"l"}, op : ModeOp, arg : 0 .. MaxLimit] \cup
  [mode : {ChannelOperator, Voice}, op : ModeOp, arg : Nick]

ASSUME ChannelsAssumption ==
  /\ NoChan \notin Chan
  /\ ChanName # {}
  /\ NoKey \notin ChanKey
  /\ NoTopic \notin Topic
  /\ Mask \subseteq SUBSET UserHosts
  /\ MaxLimit \in Nat
  /\ ModeLines \subseteq Seq(ModeChange)

VARIABLES
  chan,       \* the channel objects
  channels,   \* server.channels
  joined      \* client.channels

chanVars == <<chan, channels, joined>>
vars == <<sessionVars, chanVars>>

Members == UNION {[S -> SUBSET MemberMode] : S \in SUBSET Client}

ChannelRecord ==
  [name : ChanName, members : Members, flags : SUBSET Flag,
   key : ChanKey \cup {NoKey}, userLimit : 0 .. MaxLimit,
   lists : [MaskMode -> SUBSET (SUBSET UserHosts)], topic : Topic \cup {NoTopic}]

-----------------------------------------------------------------------------
(* Channel                                                                 *)

(* Mutant of NewChannel: a default flag that is none of the channel modes. *)
NewChannelWrongFlag(name) ==
  [name |-> name, members |-> [c \in {} |-> {}],
   flags |-> {NoOutside, "T"}, key |-> NoKey, userLimit |-> 0,
   lists |-> [m \in MaskMode |-> {}], topic |-> NoTopic]

NewChannel(name) ==
  [name |-> name, members |-> [c \in {} |-> {}],
   flags |-> {NoOutside, OpOnlyTopic}, key |-> NoKey, userLimit |-> 0,
   lists |-> [m \in MaskMode |-> {}], topic |-> NoTopic]

Has(ch, c) == c \in DOMAIN ch.members
IsEmpty(ch) == DOMAIN ch.members = {}

ClientIsOperator(ch, c) ==
  IsOperator(c) \/ (Has(ch, c) /\ ChannelOperator \in ch.members[c])

IsFull(ch) ==
  ch.userLimit > 0 /\ Cardinality(DOMAIN ch.members) >= ch.userLimit

CheckKey(ch, key) == ch.key \in {NoKey, key}

(* UserMaskSet.Match: the regular expression of a single mask is that      *)
(* mask's; that of two or more matches every user host (module UserMask).  *)
Match(list, userhost) ==
  Cardinality(list) > 1 \/ \E mask \in list : userhost \in mask

MayJoin(ch, c, key) ==
  LET isInvited == Match(ch.lists[InviteMask], UserHost(c))
  IN \/ ClientIsOperator(ch, c)
     \/ /\ ~IsFull(ch)
        /\ CheckKey(ch, key)
        /\ InviteOnly \in ch.flags => isInvited
        /\ \/ ~Match(ch.lists[BanMask], UserHost(c))
           \/ isInvited
           \/ Match(ch.lists[ExceptMask], UserHost(c))

(* Mutant of WithMember: the second member becomes creator too.            *)
WithMemberOffByOne(ch, c) ==
  [ch EXCEPT !.members = [x \in DOMAIN ch.members \cup {c} |->
     IF x # c THEN ch.members[x]
     ELSE IF Cardinality(DOMAIN ch.members) <= 1
          THEN {ChannelCreator, ChannelOperator} ELSE {}]]

(* The first member becomes creator and operator.                          *)
WithMember(ch, c) ==
  [ch EXCEPT !.members = [x \in DOMAIN ch.members \cup {c} |->
     IF x # c THEN ch.members[x]
     ELSE IF IsEmpty(ch) THEN {ChannelCreator, ChannelOperator} ELSE {}]]

Without(ch, c) ==
  [ch EXCEPT !.members = [x \in DOMAIN ch.members \ {c} |-> ch.members[x]]]

-----------------------------------------------------------------------------
(* applyMode and its helpers: the channel after one change asked for by c. *)
Switch(set, op, x) ==
  CASE op = "+" -> set \cup {x} [] op = "-" -> set \ {x} [] OTHER -> set

applyModeFlag(ch, x) == [ch EXCEPT !.flags = Switch(@, x.op, x.mode)]

applyModeMask(ch, x) == [ch EXCEPT !.lists[x.mode] = Switch(@, x.op, x.arg)]

applyModeMember(ch, x) ==
  LET target == Get(nicks, x.arg)
  IN IF target # NoClient /\ Has(ch, target)
     THEN [ch EXCEPT !.members[target] = Switch(@, x.op, x.mode)] ELSE ch

applyModeKey(ch, x) ==
  CASE x.op = "+" /\ x.arg # NoKey -> [ch EXCEPT !.key = x.arg]
    [] x.op = "-" -> [ch EXCEPT !.key = NoKey]
    [] OTHER -> ch

(* Mutant of applyMode: the mode letters are applied for anybody.          *)
applyModeAnyone(ch, c, x) ==
  CASE x.mode = "l" -> IF x.arg > 0 THEN [ch EXCEPT !.userLimit = x.arg] ELSE ch
    [] x.mode \in Flag -> applyModeFlag(ch, x)
    [] x.mode \in MaskMode -> applyModeMask(ch, x)
    [] x.mode = "k" -> applyModeKey(ch, x)
    [] x.mode \in {ChannelOperator, Voice} -> applyModeMember(ch, x)

(* +l looks neither at the sign nor at who asks.                           *)
applyMode(ch, c, x) ==
  CASE x.mode = "l" -> IF x.arg > 0 THEN [ch EXCEPT !.userLimit = x.arg] ELSE ch
    [] x.mode # "l" /\ ~ClientIsOperator(ch, c) -> ch
    [] OTHER -> CASE x.mode \in Flag -> applyModeFlag(ch, x)
                  [] x.mode \in MaskMode -> applyModeMask(ch, x)
                  [] x.mode = "k" -> applyModeKey(ch, x)
                  [] x.mode \in {ChannelOperator, Voice} -> applyModeMember(ch, x)

(* The channel after all the changes of one command, each applied to what  *)
(* the ones before it have left.                                           *)
applyModes(ch, c, changes) ==
  LET after[i \in 0 .. Len(changes)] ==
        IF i = 0 THEN ch ELSE applyMode(after[i - 1], c, changes[i])
  IN after[Len(changes)]

-----------------------------------------------------------------------------
(* Mutant of ChannelQuit: the registry forgets the emptied channel's name, *)
(* whichever channel is registered under it.                               *)
ChannelQuitByName(S, c) ==
  /\ chan' = [o \in Chan |-> IF o \in S THEN Without(chan[o], c) ELSE chan[o]]
  /\ channels' = [n \in ChanName |->
       IF \E o \in S : chan[o].name = n /\ IsEmpty(chan'[o])
       THEN NoChan ELSE channels[n]]
  /\ UNCHANGED joined

(* Channel.Quit of c from each channel in S.  An emptied channel leaves    *)
(* the registry, if it is the one registered.  client.channels stays.      *)
ChannelQuit(S, c) ==
  /\ chan' = [o \in Chan |-> IF o \in S THEN Without(chan[o], c) ELSE chan[o]]
  /\ channels' = [n \in ChanName |->
       IF channels[n] \in S /\ IsEmpty(chan'[channels[n]])
       THEN NoChan ELSE channels[n]]
  /\ UNCHANGED joined

(* client.destroy on the channels; a second Quit does not get there.       *)
Destroy(c) ==
  IF hasQuit(c) THEN UNCHANGED chanVars ELSE ChannelQuit(joined[c], c)

Update(o, ch) ==
  /\ chan' = [chan EXCEPT ![o] = ch]
  /\ UNCHANGED <<channels, joined>>

-----------------------------------------------------------------------------
(* Handlers                                                                *)

(* Mutant of Enter: the client's own list of channels is forgotten.        *)
EnterOneSided(o, ch, c) ==
  /\ chan' = [chan EXCEPT ![o] = WithMember(ch, c)]
  /\ channels' = [channels EXCEPT ![ch.name] = o]
  /\ UNCHANGED joined

Enter(o, ch, c) ==
  /\ chan' = [chan EXCEPT ![o] = WithMember(ch, c)]
  /\ channels' = [channels EXCEPT ![ch.name] = o]
  /\ joined' = [joined EXCEPT ![c] = @ \cup {o}]

(* JOIN of a registered channel, which lets in who may join ...            *)
Join(c, name, key) ==
  LET o == channels[name]
  IN /\ o # NoChan
     /\ ~Has(chan[o], c)
     /\ MayJoin(chan[o], c, key)
     /\ Enter(o, chan[o], c)

(* ... and of a new one, in an object nobody points to.                    *)
JoinNew(c, name, key) ==
  /\ channels[name] = NoChan
  /\ \E o \in Chan :
       /\ \A n \in ChanName : channels[n] # o
       /\ \A x \in Client : o \notin joined[x]
       /\ MayJoin(NewChannel(name), c, key)
       /\ Enter(o, NewChannel(name), c)

(* JOIN 0 parts every channel of client.channels the client is still on.   *)
JoinZero(c) == ChannelQuit({o \in joined[c] : Has(chan[o], c)}, c)

Part(c, name) ==
  /\ channels[name] # NoChan
  /\ Has(chan[channels[name]], c)
  /\ ChannelQuit({channels[name]}, c)

Kick(c, name, n) ==
  LET o == channels[name]
      target == Get(nicks, n)
  IN /\ o # NoChan /\ target # NoClient
     /\ ClientIsOperator(chan[o], c)
     /\ Has(chan[o], target)
     /\ ChannelQuit({o}, target)

(* INVITE to an invite-only channel; others only send messages.            *)
Invite(c, name, n) ==
  LET o == channels[name]
      invitee == Get(nicks, n)
  IN /\ o # NoChan /\ invitee # NoClient
     /\ InviteOnly \in chan[o].flags
     /\ ClientIsOperator(chan[o], c)
     /\ Update(o, [chan[o] EXCEPT !.lists[InviteMask] = @ \cup {{UserHost(invitee)}}])

SetTopic(c, name, topic) ==
  LET o == channels[name]
  IN /\ o # NoChan
     /\ ClientIsOperator(chan[o], c) \/ Has(chan[o], c)
     /\ OpOnlyTopic \in chan[o].flags => ClientIsOperator(chan[o], c)
     /\ Update(o, [chan[o] EXCEPT !.topic = topic])

Mode(c, name, changes) ==
  LET o == channels[name]
  IN /\ o # NoChan
     /\ Update(o, applyModes(chan[o], c, changes))

(* The commands that change who is on a channel, and those that do not.    *)
Membership(c) ==
  \/ JoinZero(c)
  \/ \E name \in ChanName :
       \/ \E key \in ChanKey \cup {NoKey} : Join(c, name, key) \/ JoinNew(c, name, key)
       \/ Part(c, name)
       \/ \E n \in Nick : Kick(c, name, n)

Settings(c) ==
  \E name \in ChanName :
    \/ \E n \in Nick : Invite(c, name, n)
    \/ \E topic \in Topic \cup {NoTopic} : SetTopic(c, name, topic)
    \/ \E changes \in ModeLines : Mode(c, name, changes)

ChannelCommand(c) ==
  /\ Registered(c)
  /\ Membership(c) \/ Settings(c)
  /\ OnlyReads(c)
  /\ UNCHANGED <<nicks, profileVars>>

SessionCommand(c) ==
  /\ Register(c) \/ Command(c) \/ Connection(c)
  /\ UNCHANGED chanVars

SessionEnd(c) ==
  \/ Leave(c) /\ Destroy(c)
  \/ Timeout(c) /\ Destroy(c)
  \/ \E n \in Nick : Kill(c, n) /\ Destroy(Get(nicks, n))

ChannelsInit ==
  /\ Init
  /\ chan = [o \in Chan |-> NewChannel(CHOOSE n \in ChanName : TRUE)]
  /\ channels = [n \in ChanName |-> NoChan]
  /\ joined = [c \in Client |-> {}]

ChannelsNext ==
  \E c \in Client : ChannelCommand(c) \/ SessionCommand(c) \/ SessionEnd(c)

ChannelsSpec == ChannelsInit /\ [][ChannelsNext]_vars

-----------------------------------------------------------------------------
ChannelsTypeOK ==
  /\ TypeOK
  /\ chan \in [Chan -> ChannelRecord]
  /\ channels \in [ChanName -> Chan \cup {NoChan}]
  /\ joined \in [Client -> SUBSET Chan]

(* A channel is found under its name exactly while it has members, even    *)
(* when clients that left it long ago still point to it and quit: an empty *)
(* channel is not registered, a channel with members is never unregistered *)
(* by a leftover pointer, and no two channels with members share a name.   *)
RegisteredIffInhabited ==
  /\ \A n \in ChanName :
       channels[n] # NoChan => /\ ~IsEmpty(chan[channels[n]])
                              /\ chan[channels[n]].name = n
  /\ \A o \in Chan : ~IsEmpty(chan[o]) => channels[chan[o].name] = o

(* The two records of membership agree one way: a member's own list names  *)
(* the channel, so destroy finds every channel it has to clean up.         *)
MembersPointBack ==
  \A o \in Chan : \A c \in DOMAIN chan[o].members : o \in joined[c]

(* The creator flag marks the client that opened the channel: at most one  *)
(* member has it, whoever left and came back since.                        *)
OneCreator ==
  \A o \in Chan : Cardinality({c \in DOMAIN chan[o].members :
                                 ChannelCreator \in chan[o].members[c]}) <= 1

(* Nobody rules a channel without the right to: while no member is channel *)
(* operator and no client is server operator, the flags, key, mask lists   *)
(* and member privileges of a channel do not change, however its members   *)
(* come and go, nor does the topic of one that reserves it to operators.   *)
(* Only the user limit may change, which MODE does not protect.            *)
FrozenStep ==
  \A o \in Chan :
    (/\ ~IsEmpty(chan[o]) /\ ~IsEmpty(chan'[o])
     /\ \A c \in Client : ~ClientIsOperator(chan[o], c)) =>
       /\ chan'[o].flags = chan[o].flags
       /\ chan'[o].key = chan[o].key
       /\ chan'[o].lists = chan[o].lists
       /\ OpOnlyTopic \in chan[o].flags => chan'[o].topic = chan[o].topic
       /\ \A c \in DOMAIN chan'[o].members :
            chan'[o].members[c] =
              IF Has(chan[o], c) THEN chan[o].members[c] ELSE {}

OplessFrozen == [][FrozenStep]_vars
=============================================================================
