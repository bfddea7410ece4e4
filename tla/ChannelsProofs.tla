--------------------------- MODULE ChannelsProofs ---------------------------
(***************************************************************************)
(* Proofs about Channels for any clients, channels and lines of modes: the *)
(* channels implement Sessions, whose theorems carry over, and the         *)
(* agreement of the registry server.channels, channel.members and          *)
(* client.channels.                                                        *)
(***************************************************************************)
EXTENDS Views, SessionsProofs, Iteration

(* The channels implement Sessions: whatever a handler does to channels,   *)
(* it does to the session state what Sessions allows.                      *)
LEMMA SessionPart ==
  ASSUME NEW c \in Client,
         ChannelCommand(c) \/ SessionCommand(c) \/ SessionEnd(c)
  PROVE  Register(c) \/ Command(c) \/ Connection(c) \/ Ends(c)
<1>1. CASE ChannelCommand(c)
  <2>1. NoEffect(c)
    BY <1>1 DEF ChannelCommand, NoEffect, Registered
  <2> QED BY <2>1 DEF Command
<1>2. CASE SessionCommand(c)
  BY <1>2 DEF SessionCommand
<1>3. CASE SessionEnd(c)
  BY <1>3 DEF SessionEnd, Ends
<1> QED BY <1>1, <1>2, <1>3

THEOREM ChannelsImplementSessions == ChannelsSpec => Spec
<1>1. ChannelsInit => Init
  BY DEF ChannelsInit
<1>2. [ChannelsNext]_vars => [Next]_sessionVars
  <2>1. ChannelsNext => Next
    BY SessionPart DEF ChannelsNext, Next
  <2>2. UNCHANGED vars => UNCHANGED sessionVars
    BY DEF vars, sessionVars
  <2> QED BY <2>1, <2>2
<1> QED BY <1>1, <1>2, PTL DEF ChannelsSpec, Spec

-----------------------------------------------------------------------------
(* Records of channels                                                     *)

LEMMA MembersType ==
  \A m : m \in Members <=> /\ DOMAIN m \in SUBSET Client
                           /\ m \in [DOMAIN m -> SUBSET MemberMode]
BY DEF Members

(* What a change of settings leaves alone.                                 *)
SameMembers(ch, new) ==
  /\ new.name = ch.name
  /\ DOMAIN new.members = DOMAIN ch.members
  /\ \A d \in DOMAIN ch.members :
       ChannelCreator \in new.members[d] <=> ChannelCreator \in ch.members[d]

(* What one that is not the channel's operator cannot change.              *)
SameSettings(ch, new) ==
  /\ new.members = ch.members /\ new.flags = ch.flags /\ new.key = ch.key
  /\ new.lists = ch.lists /\ new.topic = ch.topic

LEMMA NewChannelType ==
  ASSUME NEW name \in ChanName
  PROVE  NewChannel(name) \in ChannelRecord /\ IsEmpty(NewChannel(name))
         /\ NewChannel(name).name = name
<1>1. [c \in {} |-> {}] \in Members
  BY MembersType
<1> QED BY <1>1, ChannelsAssumption DEF NewChannel, ChannelRecord, Flag, IsEmpty, NoOutside, OpOnlyTopic

LEMMA WithMemberType ==
  ASSUME NEW ch \in ChannelRecord, NEW c \in Client
  PROVE  /\ WithMember(ch, c) \in ChannelRecord
         /\ WithMember(ch, c).name = ch.name
         /\ DOMAIN WithMember(ch, c).members = DOMAIN ch.members \cup {c}
         /\ \A x \in DOMAIN ch.members \ {c} : WithMember(ch, c).members[x] = ch.members[x]
         /\ WithMember(ch, c).members[c] =
              IF IsEmpty(ch) THEN {ChannelCreator, ChannelOperator} ELSE {}
         /\ /\ WithMember(ch, c).flags = ch.flags /\ WithMember(ch, c).key = ch.key
            /\ WithMember(ch, c).lists = ch.lists /\ WithMember(ch, c).topic = ch.topic
<1> DEFINE m == [x \in DOMAIN ch.members \cup {c} |->
                   IF x # c THEN ch.members[x]
                   ELSE IF IsEmpty(ch) THEN {ChannelCreator, ChannelOperator} ELSE {}]
<1>1. /\ DOMAIN ch.members \in SUBSET Client
      /\ ch.members \in [DOMAIN ch.members -> SUBSET MemberMode]
  BY MembersType DEF ChannelRecord
<1>2. m \in [DOMAIN ch.members \cup {c} -> SUBSET MemberMode]
  BY <1>1 DEF MemberMode
<1>3. m \in Members /\ DOMAIN m = DOMAIN ch.members \cup {c}
  BY <1>1, <1>2, MembersType
<1>4. WithMember(ch, c) = [ch EXCEPT !.members = m]
  BY DEF WithMember
<1>5. /\ \A x \in DOMAIN ch.members \ {c} : m[x] = ch.members[x]
      /\ m[c] = IF IsEmpty(ch) THEN {ChannelCreator, ChannelOperator} ELSE {}
  OBVIOUS
<1> HIDE DEF m
<1> QED BY <1>3, <1>4, <1>5 DEF ChannelRecord

LEMMA WithoutType ==
  ASSUME NEW ch \in ChannelRecord, NEW c \in Client
  PROVE  /\ Without(ch, c) \in ChannelRecord
         /\ Without(ch, c).name = ch.name
         /\ DOMAIN Without(ch, c).members = DOMAIN ch.members \ {c}
         /\ \A x \in DOMAIN ch.members \ {c} : Without(ch, c).members[x] = ch.members[x]
         /\ /\ Without(ch, c).flags = ch.flags /\ Without(ch, c).key = ch.key
            /\ Without(ch, c).lists = ch.lists /\ Without(ch, c).topic = ch.topic
<1> DEFINE m == [x \in DOMAIN ch.members \ {c} |-> ch.members[x]]
<1>1. /\ DOMAIN ch.members \in SUBSET Client
      /\ ch.members \in [DOMAIN ch.members -> SUBSET MemberMode]
  BY MembersType DEF ChannelRecord
<1>2. m \in [DOMAIN ch.members \ {c} -> SUBSET MemberMode]
  BY <1>1
<1>3. m \in Members /\ DOMAIN m = DOMAIN ch.members \ {c}
  BY <1>1, <1>2, MembersType
<1>4. Without(ch, c) = [ch EXCEPT !.members = m]
  BY DEF Without
<1>5. \A x \in DOMAIN ch.members \ {c} : m[x] = ch.members[x]
  OBVIOUS
<1> HIDE DEF m
<1> QED BY <1>3, <1>4, <1>5 DEF ChannelRecord

-----------------------------------------------------------------------------
(* One change of mode                                                      *)

LEMMA ModeChangeKinds ==
  ASSUME NEW x \in ModeChange
  PROVE  /\ x.op \in ModeOp
         /\ \/ x.mode \in MaskMode /\ x.arg \in Mask
            \/ x.mode \in Flag
            \/ x.mode = "k" /\ x.arg \in ChanKey \cup {NoKey}
            \/ x.mode = "l" /\ x.arg \in 0 .. MaxLimit
            \/ x.mode \in {ChannelOperator, Voice} /\ x.arg \in Nick
BY DEF ModeChange

LEMMA ModeLetters ==
  /\ "l" \notin Flag \cup MaskMode \cup {"k", ChannelOperator, Voice}
  /\ "k" \notin Flag \cup MaskMode \cup {ChannelOperator, Voice}
  /\ Flag \cap MaskMode = {}
  /\ ChannelOperator \notin Flag \cup MaskMode /\ Voice \notin Flag \cup MaskMode
  /\ ChannelCreator \notin {ChannelOperator, Voice}
BY DEF Flag, MaskMode, InviteOnly, Moderated, NoOutside, OpOnlyTopic, Private, Secret, SecureChan,
       BanMask, ExceptMask, InviteMask, ChannelOperator, Voice, ChannelCreator

LEMMA SwitchType ==
  ASSUME NEW S, NEW T \in SUBSET S, NEW x \in S, NEW op
  PROVE  /\ Switch(T, op, x) \in SUBSET S
         /\ \A y : y # x => (y \in Switch(T, op, x) <=> y \in T)
BY DEF Switch

LEMMA FlagType ==
  ASSUME NEW ch \in ChannelRecord, NEW x, x.mode \in Flag
  PROVE  applyModeFlag(ch, x) \in ChannelRecord /\ SameMembers(ch, applyModeFlag(ch, x))
<1>1. Switch(ch.flags, x.op, x.mode) \in SUBSET Flag
  BY SwitchType DEF ChannelRecord
<1> QED BY <1>1 DEF applyModeFlag, ChannelRecord, SameMembers

LEMMA MaskType ==
  ASSUME NEW ch \in ChannelRecord, NEW x, x.mode \in MaskMode, x.arg \in Mask
  PROVE  applyModeMask(ch, x) \in ChannelRecord /\ SameMembers(ch, applyModeMask(ch, x))
<1> DEFINE masks == [ch.lists EXCEPT ![x.mode] = Switch(@, x.op, x.arg)]
<1>1. ch.lists \in [MaskMode -> SUBSET (SUBSET UserHosts)] /\ x.arg \in SUBSET UserHosts
  BY ChannelsAssumption DEF ChannelRecord
<1>2. Switch(ch.lists[x.mode], x.op, x.arg) \in SUBSET (SUBSET UserHosts)
  <2>1. ch.lists[x.mode] \in SUBSET (SUBSET UserHosts)
    BY <1>1
  <2> QED BY <1>1, <2>1 DEF Switch
<1>3. masks \in [MaskMode -> SUBSET (SUBSET UserHosts)]
  BY <1>1, <1>2
<1>4. applyModeMask(ch, x) = [ch EXCEPT !.lists = masks]
  BY DEF applyModeMask
<1> HIDE DEF masks
<1> QED BY <1>3, <1>4 DEF ChannelRecord, SameMembers

LEMMA KeyType ==
  ASSUME NEW ch \in ChannelRecord, NEW x, x.arg \in ChanKey \cup {NoKey}
  PROVE  applyModeKey(ch, x) \in ChannelRecord /\ SameMembers(ch, applyModeKey(ch, x))
<1>1. applyModeKey(ch, x) \in {ch, [ch EXCEPT !.key = x.arg], [ch EXCEPT !.key = NoKey]}
  BY DEF applyModeKey
<1> QED BY <1>1 DEF ChannelRecord, SameMembers

LEMMA LimitType ==
  ASSUME NEW ch \in ChannelRecord, NEW n \in 0 .. MaxLimit
  PROVE  /\ [ch EXCEPT !.userLimit = n] \in ChannelRecord
         /\ SameMembers(ch, [ch EXCEPT !.userLimit = n])
         /\ SameSettings(ch, [ch EXCEPT !.userLimit = n])
BY DEF ChannelRecord, SameMembers, SameSettings

(* MODE +o and +v are for members, and make nobody creator.                *)
LEMMA MemberType ==
  ASSUME NEW ch \in ChannelRecord, NEW x, x.mode \in {ChannelOperator, Voice}
  PROVE  applyModeMember(ch, x) \in ChannelRecord /\ SameMembers(ch, applyModeMember(ch, x))
<1> DEFINE target == Get(nicks, x.arg)
           m == [ch.members EXCEPT ![target] = Switch(@, x.op, x.mode)]
<1>1. /\ DOMAIN ch.members \in SUBSET Client
      /\ ch.members \in [DOMAIN ch.members -> SUBSET MemberMode]
  BY MembersType DEF ChannelRecord
<1>2. CASE applyModeMember(ch, x) = ch
  BY <1>2 DEF SameMembers
<1>3. CASE target \in DOMAIN ch.members /\ applyModeMember(ch, x) = [ch EXCEPT !.members = m]
  <2>1. /\ Switch(ch.members[target], x.op, x.mode) \in SUBSET MemberMode
        /\ ChannelCreator \in Switch(ch.members[target], x.op, x.mode)
             <=> ChannelCreator \in ch.members[target]
    <3>1. ch.members[target] \in SUBSET MemberMode
      BY <1>1, <1>3
    <3>2. x.mode \in MemberMode /\ x.mode # ChannelCreator
      BY ModeLetters DEF MemberMode
    <3> HIDE DEF target
    <3> QED BY <3>1, <3>2 DEF Switch
  <2>2. /\ m \in [DOMAIN ch.members -> SUBSET MemberMode] /\ DOMAIN m = DOMAIN ch.members
        /\ \A d \in DOMAIN ch.members : ChannelCreator \in m[d] <=> ChannelCreator \in ch.members[d]
    BY <1>1, <1>3, <2>1
  <2> HIDE DEF m
  <2>3. m \in Members
    BY <1>1, <2>2, MembersType
  <2> QED BY <1>3, <2>2, <2>3 DEF ChannelRecord, SameMembers
<1> QED BY <1>2, <1>3 DEF applyModeMember, Has

LEMMA ApplyModeType ==
  ASSUME NEW ch \in ChannelRecord, NEW c, NEW x \in ModeChange
  PROVE  /\ applyMode(ch, c, x) \in ChannelRecord
         /\ SameMembers(ch, applyMode(ch, c, x))
         /\ ~ClientIsOperator(ch, c) => SameSettings(ch, applyMode(ch, c, x))
<1> DEFINE new == applyMode(ch, c, x)
<1>1. SameMembers(ch, ch) /\ SameSettings(ch, ch)
  BY DEF SameMembers, SameSettings
<1>2. CASE x.mode = "l"
  <2>1. x.arg \in 0 .. MaxLimit
    BY <1>2, ModeChangeKinds, ModeLetters
  <2>2. new \in {ch, [ch EXCEPT !.userLimit = x.arg]}
    BY <1>2 DEF applyMode
  <2> QED BY <1>1, <2>1, <2>2, LimitType
<1>3. CASE x.mode # "l" /\ ~ClientIsOperator(ch, c)
  <2>1. new = ch
    BY <1>3 DEF applyMode
  <2> QED BY <1>1, <2>1
<1>4. CASE x.mode # "l" /\ ClientIsOperator(ch, c)
  <2>1. CASE x.mode \in Flag
    BY <1>4, <2>1, FlagType, ModeLetters DEF applyMode
  <2>2. CASE x.mode \in MaskMode
    <3>1. x.arg \in Mask /\ x.mode \notin Flag \cup {"k", ChannelOperator, Voice}
      BY <2>2, ModeChangeKinds, ModeLetters
    <3> QED BY <1>4, <2>2, <3>1, MaskType DEF applyMode
  <2>3. CASE x.mode = "k"
    <3>1. x.arg \in ChanKey \cup {NoKey} /\ x.mode \notin Flag \cup MaskMode \cup {ChannelOperator, Voice}
      BY <2>3, ModeChangeKinds, ModeLetters
    <3> QED BY <1>4, <2>3, <3>1, KeyType DEF applyMode
  <2>4. CASE x.mode \in {ChannelOperator, Voice}
    <3>1. x.mode \notin Flag \cup MaskMode \cup {"k"}
      BY <2>4, ModeLetters
    <3> QED BY <1>4, <2>4, <3>1, MemberType DEF applyMode
  <2> QED BY <1>4, <2>1, <2>2, <2>3, <2>4, ModeChangeKinds
<1> QED BY <1>2, <1>3, <1>4

(* The function that applyModes follows along its changes exists.          *)
LEMMA AfterExists ==
  ASSUME NEW ch, NEW c, NEW changes, Len(changes) \in Nat
  PROVE  \E f : f = [i \in 0 .. Len(changes) |->
                     IF i = 0 THEN ch ELSE applyMode(f[i - 1], c, changes[i])]
<1> DEFINE After(g, n) == g = [i \in 0 .. n |->
                                IF i = 0 THEN ch ELSE applyMode(g[i - 1], c, changes[i])]
           S == {n \in Nat : \E g : After(g, n)}
<1>1. 0 \in S
  <2>1. After([i \in 0 .. 0 |-> ch], 0)
    OBVIOUS
  <2> HIDE DEF After
  <2> QED BY <2>1
<1>2. ASSUME NEW n \in Nat, n \in S PROVE n + 1 \in S
  <2>1. PICK g : After(g, n)
    BY <1>2
  <2> DEFINE h == [i \in 0 .. n + 1 |->
                     IF i = n + 1 THEN applyMode(g[n], c, changes[n + 1]) ELSE g[i]]
  <2>2. \A i \in 0 .. n + 1 :
          h[i] = IF i = 0 THEN ch ELSE applyMode(h[i - 1], c, changes[i])
    <3>1. \A i \in 0 .. n : g[i] = IF i = 0 THEN ch ELSE applyMode(g[i - 1], c, changes[i])
      BY <2>1
    <3> HIDE DEF After
    <3>2. \A i \in 0 .. n : h[i] = g[i]
      OBVIOUS
    <3>3. \A i \in 1 .. n : h[i - 1] = g[i - 1]
      OBVIOUS
    <3>4. h[n + 1] = applyMode(h[n], c, changes[n + 1]) /\ h[(n + 1) - 1] = h[n]
      OBVIOUS
    <3> HIDE DEF h
    <3> TAKE i \in 0 .. n + 1
    <3>5. CASE i = n + 1
      BY <3>4, <3>5
    <3>6. CASE i \in 1 .. n
      BY <3>1, <3>2, <3>3, <3>6
    <3>7. CASE i = 0
      BY <3>1, <3>2, <3>7
    <3> QED BY <3>5, <3>6, <3>7
  <2>3. After(h, n + 1)
    <3>1. h = [i \in 0 .. n + 1 |-> h[i]]
      OBVIOUS
    <3> HIDE DEF h
    <3> QED BY <2>2, <3>1
  <2> HIDE DEF After, h
  <2> QED BY <2>3
<1>3. \E f : After(f, Len(changes))
  <2> HIDE DEF After
  <2> HIDE DEF S
  <2>1. Len(changes) \in S
    BY <1>1, <1>2, SetInduction
  <2> QED BY <2>1 DEF S
<1> QED BY <1>3

(* A line of modes changes at most what each of its changes may change.    *)
LEMMA ApplyModesType ==
  ASSUME NEW ch \in ChannelRecord, NEW c, NEW changes \in Seq(ModeChange)
  PROVE  /\ applyModes(ch, c, changes) \in ChannelRecord
         /\ SameMembers(ch, applyModes(ch, c, changes))
         /\ ~ClientIsOperator(ch, c) => SameSettings(ch, applyModes(ch, c, changes))
<1> DEFINE f == CHOOSE g : g = [i \in 0 .. Len(changes) |->
                               IF i = 0 THEN ch ELSE applyMode(g[i - 1], c, changes[i])]
           May(new) == /\ new \in ChannelRecord
                       /\ SameMembers(ch, new)
                       /\ ~ClientIsOperator(ch, c) => SameSettings(ch, new)
           S == {n \in Nat : n <= Len(changes) => May(f[n])}
<1>1. f = [i \in 0 .. Len(changes) |->
             IF i = 0 THEN ch ELSE applyMode(f[i - 1], c, changes[i])]
  BY AfterExists
<1>2. applyModes(ch, c, changes) = f[Len(changes)]
  BY DEF applyModes
<1> HIDE DEF f
<1>3. 0 \in S
  <2>1. f[0] = ch
    BY <1>1
  <2> QED BY <2>1 DEF SameMembers, SameSettings
<1>4. ASSUME NEW n \in Nat, n \in S PROVE n + 1 \in S
  <2> SUFFICES ASSUME n + 1 <= Len(changes) PROVE May(f[n + 1])
    OBVIOUS
  <2>1. May(f[n])
    BY <1>4
  <2>2. f[n + 1] = applyMode(f[n], c, changes[n + 1]) /\ changes[n + 1] \in ModeChange
    BY <1>1
  <2>3. /\ applyMode(f[n], c, changes[n + 1]) \in ChannelRecord
        /\ SameMembers(f[n], applyMode(f[n], c, changes[n + 1]))
        /\ ~ClientIsOperator(f[n], c) => SameSettings(f[n], applyMode(f[n], c, changes[n + 1]))
    BY <2>1, <2>2, ApplyModeType
  <2>4. ~ClientIsOperator(ch, c) => ~ClientIsOperator(f[n], c)
    BY <2>1 DEF ClientIsOperator, Has, SameSettings
  <2> QED BY <2>1, <2>2, <2>3, <2>4 DEF SameMembers, SameSettings
<1>5. Len(changes) \in S
  <2> HIDE DEF S
  <2> QED BY <1>3, <1>4, SetInduction
<1> QED BY <1>2, <1>5

-----------------------------------------------------------------------------
(* The kinds of step, as far as the channels can tell                      *)

(* The settings of a channel without operators, as FrozenStep reads them.  *)
FrozenSettings(ch, new) ==
  /\ new.flags = ch.flags /\ new.key = ch.key /\ new.lists = ch.lists
  /\ new.members = ch.members
  /\ OpOnlyTopic \in ch.flags => new.topic = ch.topic

QuitStep == \E S \in SUBSET Chan, c \in Client : ChannelQuit(S, c)

JoinStep ==
  \E name \in ChanName, c \in Client :
    /\ channels[name] # NoChan
    /\ ~Has(chan[channels[name]], c)
    /\ Enter(channels[name], chan[channels[name]], c)

OpenStep ==
  \E name \in ChanName, c \in Client, o \in Chan :
    /\ channels[name] = NoChan
    /\ \A n \in ChanName : channels[n] # o
    /\ \A x \in Client : o \notin joined[x]
    /\ Enter(o, NewChannel(name), c)

UpdateStep ==
  \E o \in Chan, new \in ChannelRecord :
    /\ Update(o, new)
    /\ SameMembers(chan[o], new)
    /\ (\A x \in Client : ~ClientIsOperator(chan[o], x)) => FrozenSettings(chan[o], new)

ChanTypes ==
  /\ chan \in [Chan -> ChannelRecord]
  /\ channels \in [ChanName -> Chan \cup {NoChan}]
  /\ joined \in [Client -> SUBSET Chan]

LEMMA DestroyKind ==
  ASSUME ChanTypes, NEW c \in Client, Destroy(c)
  PROVE  UNCHANGED chanVars \/ QuitStep
BY DEF Destroy, QuitStep, ChanTypes

LEMMA GetClient ==
  ASSUME TypeOK, NEW n \in Nick
  PROVE  Get(nicks, n) \in Client \cup {NoClient}
BY SessionsAssumption DEF TypeOK, Get

LEMMA MembershipKind ==
  ASSUME TypeOK, ChanTypes, NEW c \in Client, Membership(c)
  PROVE  QuitStep \/ JoinStep \/ OpenStep
<1>1. CASE JoinZero(c)
  <2>1. {o \in joined[c] : Has(chan[o], c)} \in SUBSET Chan
    BY DEF ChanTypes
  <2> QED BY <1>1, <2>1 DEF JoinZero, QuitStep
<1>2. CASE \E name \in ChanName, key \in ChanKey \cup {NoKey} : Join(c, name, key)
  BY <1>2 DEF Join, JoinStep
<1>3. CASE \E name \in ChanName, key \in ChanKey \cup {NoKey} : JoinNew(c, name, key)
  BY <1>3 DEF JoinNew, OpenStep
<1>4. CASE \E name \in ChanName : Part(c, name)
  <2>1. PICK name \in ChanName : Part(c, name)
    BY <1>4
  <2>2. {channels[name]} \in SUBSET Chan
    BY <2>1 DEF Part, ChanTypes
  <2> QED BY <2>1, <2>2 DEF Part, QuitStep
<1>5. CASE \E name \in ChanName, n \in Nick : Kick(c, name, n)
  <2>1. PICK name \in ChanName, n \in Nick : Kick(c, name, n)
    BY <1>5
  <2>2. {channels[name]} \in SUBSET Chan /\ Get(nicks, n) \in Client
    BY <2>1, GetClient DEF Kick, ChanTypes
  <2> QED BY <2>1, <2>2 DEF Kick, QuitStep
<1> QED BY <1>1, <1>2, <1>3, <1>4, <1>5 DEF Membership

LEMMA SettingsKind ==
  ASSUME TypeOK, ChanTypes, NEW c \in Client, Settings(c)
  PROVE  UpdateStep
<1>1. PICK name \in ChanName :
        \/ \E n \in Nick : Invite(c, name, n)
        \/ \E topic \in Topic \cup {NoTopic} : SetTopic(c, name, topic)
        \/ \E changes \in ModeLines : Mode(c, name, changes)
  BY DEF Settings
<1> DEFINE o == channels[name]
<1>2. o \in Chan /\ chan[o] \in ChannelRecord
  BY <1>1 DEF Invite, SetTopic, Mode, ChanTypes
<1> HIDE DEF o
<1>3. CASE \E n \in Nick : Invite(c, name, n)
  <2>1. PICK n \in Nick : Invite(c, name, n)
    BY <1>3
  <2> DEFINE masks == [chan[o].lists EXCEPT ![InviteMask] = @ \cup {{UserHost(Get(nicks, n))}}]
             new == [chan[o] EXCEPT !.lists = masks]
  <2>2. Get(nicks, n) \in Client /\ UserHost(Get(nicks, n)) \in UserHosts
    BY <2>1, GetClient DEF Invite, UserHost, UserHosts, TypeOK
  <2>3. masks \in [MaskMode -> SUBSET (SUBSET UserHosts)]
    <3>1. chan[o].lists \in [MaskMode -> SUBSET (SUBSET UserHosts)]
      BY <1>2 DEF ChannelRecord
    <3>2. {{UserHost(Get(nicks, n))}} \in SUBSET (SUBSET UserHosts)
      BY <2>2
    <3> QED BY <3>1, <3>2
  <2>4. Update(o, new) /\ ClientIsOperator(chan[o], c)
    BY <2>1 DEF Invite, o
  <2> HIDE DEF masks
  <2>5. new \in ChannelRecord /\ SameMembers(chan[o], new)
    BY <1>2, <2>3 DEF ChannelRecord, SameMembers
  <2> QED BY <1>2, <2>4, <2>5 DEF UpdateStep
<1>4. CASE \E topic \in Topic \cup {NoTopic} : SetTopic(c, name, topic)
  <2>1. PICK topic \in Topic \cup {NoTopic} : SetTopic(c, name, topic)
    BY <1>4
  <2> DEFINE new == [chan[o] EXCEPT !.topic = topic]
  <2>2. Update(o, new) /\ (OpOnlyTopic \in chan[o].flags => ClientIsOperator(chan[o], c))
    BY <2>1 DEF SetTopic, o
  <2>3. new \in ChannelRecord /\ SameMembers(chan[o], new)
        /\ new.flags = chan[o].flags /\ new.key = chan[o].key
        /\ new.lists = chan[o].lists /\ new.members = chan[o].members
    BY <1>2 DEF ChannelRecord, SameMembers
  <2> HIDE DEF new
  <2> QED BY <1>2, <2>2, <2>3 DEF UpdateStep, FrozenSettings
<1>5. CASE \E changes \in ModeLines : Mode(c, name, changes)
  <2>1. PICK changes \in ModeLines : Mode(c, name, changes)
    BY <1>5
  <2> DEFINE new == applyModes(chan[o], c, changes)
  <2>2. Update(o, new) /\ changes \in Seq(ModeChange)
    BY <2>1, ChannelsAssumption DEF Mode, o
  <2>3. /\ new \in ChannelRecord /\ SameMembers(chan[o], new)
        /\ ~ClientIsOperator(chan[o], c) => SameSettings(chan[o], new)
    BY <1>2, <2>2, ApplyModesType
  <2> HIDE DEF new
  <2> QED BY <1>2, <2>2, <2>3 DEF UpdateStep, FrozenSettings, SameSettings
<1> QED BY <1>1, <1>3, <1>4, <1>5

LEMMA StepKinds ==
  ASSUME TypeOK, ChanTypes, [ChannelsNext]_vars
  PROVE  UNCHANGED chanVars \/ QuitStep \/ JoinStep \/ OpenStep \/ UpdateStep
<1>1. CASE UNCHANGED vars
  BY <1>1 DEF vars, chanVars
<1>2. ASSUME NEW c \in Client, ChannelCommand(c) \/ SessionCommand(c) \/ SessionEnd(c)
      PROVE  UNCHANGED chanVars \/ QuitStep \/ JoinStep \/ OpenStep \/ UpdateStep
  <2>1. CASE ChannelCommand(c)
    BY <2>1, MembershipKind, SettingsKind DEF ChannelCommand
  <2>2. CASE SessionCommand(c)
    BY <2>2 DEF SessionCommand
  <2>3. CASE SessionEnd(c)
    <3>1. CASE Destroy(c)
      BY <3>1, DestroyKind
    <3>2. CASE \E n \in Nick : Kill(c, n) /\ Destroy(Get(nicks, n))
      <4>1. PICK n \in Nick : Kill(c, n) /\ Destroy(Get(nicks, n))
        BY <3>2
      <4>2. Get(nicks, n) \in Client
        BY <4>1, GetClient DEF Kill
      <4> QED BY <4>1, <4>2, DestroyKind
    <3> QED BY <2>3, <3>1, <3>2 DEF SessionEnd
  <2> QED BY <1>2, <2>1, <2>2, <2>3
<1> QED BY <1>1, <1>2 DEF ChannelsNext

-----------------------------------------------------------------------------
(* The inductive invariant.  That a registered channel has members needs   *)
(* the pointers: JOIN takes for a new channel an object no client points   *)
(* to, and MembersPointBack says that such an object has no members.  The  *)
(* single creator is stated without counting.                              *)
SingleCreator ==
  \A o \in Chan : \A a, b \in DOMAIN chan[o].members :
    ChannelCreator \in chan[o].members[a] /\ ChannelCreator \in chan[o].members[b]
      => a = b

ChanInv == ChanTypes /\ MembersPointBack /\ RegisteredIffInhabited /\ SingleCreator

LEMMA SingleCounts ==
  ASSUME SingleCreator
  PROVE  OneCreator
<1> SUFFICES ASSUME NEW o \in Chan
             PROVE  Cardinality({c \in DOMAIN chan[o].members :
                                   ChannelCreator \in chan[o].members[c]}) <= 1
  BY DEF OneCreator
<1> DEFINE C == {c \in DOMAIN chan[o].members : ChannelCreator \in chan[o].members[c]}
<1>1. \A a, b \in C : a = b
  BY DEF SingleCreator
<1> HIDE DEF C
<1>2. Cardinality(C) <= 1
  <2>1. CASE C = {}
    BY <2>1, FS_EmptySet
  <2>2. CASE C # {}
    <3>1. PICK a \in C : TRUE
      BY <2>2
    <3>2. C = {a}
      BY <1>1, <3>1
    <3>3. Cardinality({a}) = 1
      BY FS_Singleton, Zenon
    <3> QED BY <3>2, <3>3
  <2> QED BY <2>1, <2>2
<1> QED BY <1>2 DEF C

LEMMA ChanInvInit == ChannelsInit => ChanInv
<1> SUFFICES ASSUME ChannelsInit PROVE ChanInv
  OBVIOUS
<1> DEFINE n0 == CHOOSE n \in ChanName : TRUE
<1>1. n0 \in ChanName
  BY ChannelsAssumption
<1> HIDE DEF n0
<1>2. /\ chan = [o \in Chan |-> NewChannel(n0)]
      /\ channels = [n \in ChanName |-> NoChan]
      /\ joined = [c \in Client |-> {}]
  BY DEF ChannelsInit, n0
<1>3. NewChannel(n0) \in ChannelRecord /\ DOMAIN NewChannel(n0).members = {}
  BY <1>1, NewChannelType DEF IsEmpty
<1>4. ChanTypes
  BY <1>2, <1>3 DEF ChanTypes
<1>5. MembersPointBack /\ RegisteredIffInhabited /\ SingleCreator
  BY <1>2, <1>3 DEF MembersPointBack, RegisteredIffInhabited, SingleCreator, IsEmpty
<1> QED BY <1>4, <1>5 DEF ChanInv

LEMMA ChanInvKeep ==
  ASSUME ChanInv, UNCHANGED chanVars
  PROVE  ChanInv'
BY DEF ChanInv, chanVars, ChanTypes, MembersPointBack, RegisteredIffInhabited, SingleCreator, IsEmpty

(* Quitting channels.                                                      *)
LEMMA ChanInvQuit ==
  ASSUME ChanInv, NEW S \in SUBSET Chan, NEW c \in Client, ChannelQuit(S, c)
  PROVE  ChanInv'
<1>1. \A o \in Chan :
        /\ chan'[o] \in ChannelRecord
        /\ chan'[o].name = chan[o].name
        /\ DOMAIN chan'[o].members \subseteq DOMAIN chan[o].members
        /\ \A x \in DOMAIN chan'[o].members : chan'[o].members[x] = chan[o].members[x]
        /\ o \notin S => chan'[o] = chan[o]
  BY WithoutType DEF ChanInv, ChanTypes, ChannelQuit
<1>2. /\ DOMAIN chan' = Chan /\ chan' = [o \in Chan |-> chan'[o]]
      /\ joined' = joined
      /\ channels' = [n \in ChanName |->
           IF channels[n] \in S /\ IsEmpty(chan'[channels[n]])
           THEN NoChan ELSE channels[n]]
  BY DEF ChannelQuit
<1>3. ChanTypes'
  BY <1>1, <1>2 DEF ChanInv, ChanTypes
<1>4. MembersPointBack'
  BY <1>1, <1>2 DEF ChanInv, MembersPointBack
<1>5. RegisteredIffInhabited'
  <2>1. ASSUME NEW n \in ChanName, channels'[n] # NoChan
        PROVE  ~IsEmpty(chan'[channels'[n]]) /\ chan'[channels'[n]].name = n
    <3>1. channels'[n] = channels[n] /\ channels[n] \in Chan
          /\ (channels[n] \in S => ~IsEmpty(chan'[channels[n]]))
      BY <1>2, <2>1 DEF ChanInv, ChanTypes
    <3>2. ~IsEmpty(chan[channels[n]]) /\ chan[channels[n]].name = n
      BY <3>1, <2>1 DEF ChanInv, RegisteredIffInhabited
    <3> QED BY <1>1, <3>1, <3>2 DEF IsEmpty
  <2>2. ASSUME NEW o \in Chan, ~IsEmpty(chan'[o])
        PROVE  channels'[chan'[o].name] = o
    <3>1. ~IsEmpty(chan[o]) /\ chan'[o].name = chan[o].name /\ chan[o].name \in ChanName
      BY <1>1, <2>2 DEF IsEmpty, ChanInv, ChanTypes, ChannelRecord
    <3>2. channels[chan[o].name] = o
      BY <3>1 DEF ChanInv, RegisteredIffInhabited
    <3> QED BY <1>2, <2>2, <3>1, <3>2
  <2>3. \A n \in ChanName : channels'[n] # NoChan =>
          /\ ~IsEmpty(chan'[channels'[n]]) /\ chan'[channels'[n]].name = n
    BY <2>1
  <2>4. \A o \in Chan : ~IsEmpty(chan'[o]) => channels'[chan'[o].name] = o
    BY <2>2
  <2> QED BY <2>3, <2>4 DEF RegisteredIffInhabited, IsEmpty
<1>6. SingleCreator'
  BY <1>1 DEF ChanInv, SingleCreator
<1> QED BY <1>3, <1>4, <1>5, <1>6 DEF ChanInv

(* Entering the channel o, which has become ch.                            *)
LEMMA ChanInvEnter ==
  ASSUME ChanInv, NEW o \in Chan, NEW ch \in ChannelRecord, NEW c \in Client,
         Enter(o, ch, c), ~Has(ch, c),
         \/ ch = chan[o] /\ channels[ch.name] = o
         \/ IsEmpty(ch) /\ channels[ch.name] = NoChan
            /\ (\A n \in ChanName : channels[n] # o) /\ IsEmpty(chan[o])
  PROVE  ChanInv'
<1> DEFINE new == WithMember(ch, c)
<1>1. /\ new \in ChannelRecord /\ new.name = ch.name /\ ch.name \in ChanName
      /\ DOMAIN new.members = DOMAIN ch.members \cup {c}
      /\ \A x \in DOMAIN ch.members \ {c} : new.members[x] = ch.members[x]
      /\ new.members[c] = IF IsEmpty(ch) THEN {ChannelCreator, ChannelOperator} ELSE {}
  BY WithMemberType, ZenonT(60) DEF ChannelRecord
<1>2. /\ chan' = [chan EXCEPT ![o] = new]
      /\ channels' = [channels EXCEPT ![ch.name] = o]
      /\ joined' = [joined EXCEPT ![c] = @ \cup {o}]
  BY DEF Enter
<1> HIDE DEF new
<1>3. ChanTypes'
  BY <1>1, <1>2 DEF ChanInv, ChanTypes
<1>4. /\ chan'[o] = new
      /\ \A p \in Chan \ {o} : chan'[p] = chan[p]
      /\ \A x \in Client : joined[x] \subseteq joined'[x]
      /\ o \in joined'[c]
  BY <1>2 DEF ChanInv, ChanTypes
<1>5. MembersPointBack'
  <2>1. \A x \in DOMAIN ch.members : o \in joined[x] /\ x \in Client
    BY MembersType DEF ChanInv, MembersPointBack, IsEmpty, ChannelRecord
  <2>2. \A p \in Chan : \A x \in DOMAIN chan[p].members : p \in joined[x] /\ x \in Client
    BY MembersType DEF ChanInv, ChanTypes, MembersPointBack, ChannelRecord
  <2> QED BY <1>1, <1>4, <2>1, <2>2 DEF MembersPointBack
<1>6. RegisteredIffInhabited'
  <2>1. /\ channels'[ch.name] = o
        /\ \A n \in ChanName \ {ch.name} : channels'[n] = channels[n] /\ channels[n] # o
    <3>1. \A n \in ChanName : channels[n] = o => n = ch.name
      BY ChannelsAssumption DEF ChanInv, RegisteredIffInhabited
    <3> QED BY <1>1, <1>2, <3>1 DEF ChanInv, ChanTypes
  <2>2. \A n \in ChanName \ {ch.name} : channels[n] # NoChan => channels[n] \in Chan \ {o}
    BY <2>1 DEF ChanInv, ChanTypes
  <2>3. \A n \in ChanName : channels'[n] # NoChan =>
          /\ ~IsEmpty(chan'[channels'[n]]) /\ chan'[channels'[n]].name = n
    BY <1>1, <1>4, <2>1, <2>2 DEF ChanInv, RegisteredIffInhabited, IsEmpty
  <2>4. \A p \in Chan : ~IsEmpty(chan'[p]) => channels'[chan'[p].name] = p
    <3> TAKE p \in Chan
    <3>1. CASE p = o
      BY <1>1, <1>4, <2>1, <3>1
    <3>2. CASE p # o
      <4> HAVE ~IsEmpty(chan'[p])
      <4>1. channels[chan[p].name] = p /\ chan[p].name \in ChanName /\ chan'[p] = chan[p]
        BY <1>4, <3>2 DEF ChanInv, RegisteredIffInhabited, ChanTypes, ChannelRecord
      <4>2. chan[p].name # ch.name
        BY <3>2, <4>1, ChannelsAssumption
      <4> QED BY <2>1, <4>1, <4>2
    <3> QED BY <3>1, <3>2
  <2> QED BY <2>3, <2>4 DEF RegisteredIffInhabited, IsEmpty
<1>7. SingleCreator'
  <2>1. \A a, b \in DOMAIN new.members :
          ChannelCreator \in new.members[a] /\ ChannelCreator \in new.members[b] => a = b
    <3>1. CASE IsEmpty(ch)
      BY <1>1, <3>1 DEF IsEmpty
    <3>2. CASE ~IsEmpty(ch)
      BY <1>1, <3>2 DEF IsEmpty, ChanInv, SingleCreator
    <3> QED BY <3>1, <3>2
  <2> QED BY <1>4, <2>1 DEF ChanInv, SingleCreator
<1> QED BY <1>3, <1>5, <1>6, <1>7 DEF ChanInv

LEMMA ChanInvUpdate ==
  ASSUME ChanInv, NEW o \in Chan, NEW new \in ChannelRecord, Update(o, new),
         SameMembers(chan[o], new)
  PROVE  ChanInv'
<1>1. /\ chan' = [chan EXCEPT ![o] = new]
      /\ channels' = channels /\ joined' = joined
  BY DEF Update
<1>2. ChanTypes'
  BY <1>1 DEF ChanInv, ChanTypes
<1>3. \A p \in Chan : SameMembers(chan[p], chan'[p])
  BY <1>1 DEF SameMembers, ChanInv, ChanTypes
<1>4. MembersPointBack'
  BY <1>1, <1>3 DEF ChanInv, MembersPointBack, SameMembers
<1>5. RegisteredIffInhabited'
  BY <1>1, <1>3 DEF ChanInv, ChanTypes, RegisteredIffInhabited, SameMembers, IsEmpty
<1>6. SingleCreator'
  BY <1>1, <1>3 DEF ChanInv, SingleCreator, SameMembers
<1> QED BY <1>2, <1>4, <1>5, <1>6 DEF ChanInv

LEMMA ChanInvStep ==
  ASSUME TypeOK, ChanInv, [ChannelsNext]_vars
  PROVE  ChanInv'
<1>1. CASE UNCHANGED chanVars
  BY <1>1, ChanInvKeep
<1>2. CASE QuitStep
  BY <1>2, ChanInvQuit DEF QuitStep
<1>3. CASE JoinStep
  <2>1. PICK name \in ChanName, c \in Client :
          /\ channels[name] # NoChan
          /\ ~Has(chan[channels[name]], c)
          /\ Enter(channels[name], chan[channels[name]], c)
    BY <1>3 DEF JoinStep
  <2>2. /\ channels[name] \in Chan /\ chan[channels[name]] \in ChannelRecord
        /\ channels[chan[channels[name]].name] = channels[name]
    BY <2>1 DEF ChanInv, ChanTypes, RegisteredIffInhabited
  <2> QED BY <2>1, <2>2, ChanInvEnter
<1>4. CASE OpenStep
  <2>1. PICK name \in ChanName, c \in Client, o \in Chan :
          /\ channels[name] = NoChan
          /\ \A n \in ChanName : channels[n] # o
          /\ \A x \in Client : o \notin joined[x]
          /\ Enter(o, NewChannel(name), c)
    BY <1>4 DEF OpenStep
  <2>2. /\ NewChannel(name) \in ChannelRecord /\ IsEmpty(NewChannel(name))
        /\ NewChannel(name).name = name /\ ~Has(NewChannel(name), c)
    BY NewChannelType DEF Has, IsEmpty
  <2>3. IsEmpty(chan[o])
    <3>1. \A x \in DOMAIN chan[o].members : x \in Client /\ o \in joined[x]
      BY MembersType DEF ChanInv, ChanTypes, MembersPointBack, ChannelRecord
    <3> QED BY <2>1, <3>1 DEF IsEmpty
  <2> QED BY <2>1, <2>2, <2>3, ChanInvEnter
<1>5. CASE UpdateStep
  BY <1>5, ChanInvUpdate DEF UpdateStep
<1> QED BY <1>1, <1>2, <1>3, <1>4, <1>5, StepKinds DEF ChanInv

LEMMA ChannelsAlways == ChannelsSpec => [](TypeOK /\ ChanInv)
<1>1. ChannelsSpec => []TypeOK
  BY ChannelsImplementSessions, TypeCorrect, PTL
<1>2. TypeOK /\ ChanInv /\ [ChannelsNext]_vars => ChanInv'
  BY ChanInvStep
<1> QED BY <1>1, <1>2, ChanInvInit, PTL DEF ChannelsSpec

(* Type correctness: what MODE, INVITE, TOPIC and the memberships write.   *)
THEOREM ChannelsTypeCorrect == ChannelsSpec => []ChannelsTypeOK
<1>1. TypeOK /\ ChanInv => ChannelsTypeOK
  BY DEF ChanInv, ChanTypes, ChannelsTypeOK
<1> QED BY <1>1, ChannelsAlways, PTL

(* channel.members is never more than client.channels says: destroy finds  *)
(* every channel it has to clean up.                                       *)
THEOREM PointBackCorrect == ChannelsSpec => []MembersPointBack
<1>1. TypeOK /\ ChanInv => MembersPointBack
  BY DEF ChanInv
<1> QED BY <1>1, ChannelsAlways, PTL

(* server.channels has a channel exactly while it has members, whatever    *)
(* objects that left the registry clients still point to.                  *)
THEOREM InhabitedCorrect == ChannelsSpec => []RegisteredIffInhabited
<1>1. TypeOK /\ ChanInv => RegisteredIffInhabited
  BY DEF ChanInv
<1> QED BY <1>1, ChannelsAlways, PTL

(* At most one member of a channel is its creator.                         *)
THEOREM CreatorCorrect == ChannelsSpec => []OneCreator
<1>1. TypeOK /\ ChanInv => OneCreator
  BY SingleCounts DEF ChanInv
<1> QED BY <1>1, ChannelsAlways, PTL

-----------------------------------------------------------------------------
(* A channel without operators                                             *)

LEMMA FrozenTaken ==
  ASSUME TypeOK, ChanInv, [ChannelsNext]_vars
  PROVE  FrozenStep
<1> SUFFICES ASSUME NEW o \in Chan,
                    ~IsEmpty(chan[o]), ~IsEmpty(chan'[o]),
                    \A c \in Client : ~ClientIsOperator(chan[o], c)
             PROVE  /\ chan'[o].flags = chan[o].flags
                    /\ chan'[o].key = chan[o].key
                    /\ chan'[o].lists = chan[o].lists
                    /\ OpOnlyTopic \in chan[o].flags => chan'[o].topic = chan[o].topic
                    /\ \A c \in DOMAIN chan'[o].members :
                         chan'[o].members[c] =
                           IF Has(chan[o], c) THEN chan[o].members[c] ELSE {}
  BY DEF FrozenStep
<1>1. CASE chan'[o] = chan[o]
  BY <1>1 DEF Has
<1>2. CASE QuitStep
  <2>1. chan'[o] = chan[o] \/ \E c \in Client : chan'[o] = Without(chan[o], c)
    BY <1>2 DEF QuitStep, ChannelQuit
  <2>2. CASE \E c \in Client : chan'[o] = Without(chan[o], c)
    BY <2>2, WithoutType DEF ChanInv, ChanTypes, Has
  <2> QED BY <1>1, <2>1, <2>2
<1>3. CASE JoinStep
  <2>1. chan'[o] = chan[o] \/ \E c \in Client : ~Has(chan[o], c) /\ chan'[o] = WithMember(chan[o], c)
    BY <1>3 DEF JoinStep, Enter, ChanInv, ChanTypes
  <2>2. CASE \E c \in Client : ~Has(chan[o], c) /\ chan'[o] = WithMember(chan[o], c)
    BY <2>2, WithMemberType DEF ChanInv, ChanTypes, Has
  <2> QED BY <1>1, <2>1, <2>2
<1>4. CASE OpenStep
  <2>1. PICK name \in ChanName, c \in Client, p \in Chan :
          /\ channels[name] = NoChan
          /\ \A n \in ChanName : channels[n] # p
          /\ \A x \in Client : p \notin joined[x]
          /\ Enter(p, NewChannel(name), c)
    BY <1>4 DEF OpenStep
  <2>2. channels[chan[o].name] = o /\ chan[o].name \in ChanName
    BY DEF ChanInv, ChanTypes, ChannelRecord, RegisteredIffInhabited
  <2>3. p # o
    BY <2>1, <2>2
  <2>4. chan'[o] = chan[o]
    BY <2>1, <2>3 DEF Enter, ChanInv, ChanTypes
  <2> QED BY <1>1, <2>4
<1>5. CASE UpdateStep
  <2>1. PICK p \in Chan, new \in ChannelRecord :
          /\ Update(p, new)
          /\ SameMembers(chan[p], new)
          /\ (\A x \in Client : ~ClientIsOperator(chan[p], x)) => FrozenSettings(chan[p], new)
    BY <1>5 DEF UpdateStep
  <2>2. chan'[o] = chan[o] \/ (p = o /\ chan'[o] = new)
    BY <2>1 DEF Update, ChanInv, ChanTypes
  <2>3. CASE p = o /\ chan'[o] = new
    BY <2>1, <2>3 DEF FrozenSettings, Has
  <2> QED BY <1>1, <2>2, <2>3
<1>6. CASE UNCHANGED chanVars
  BY <1>1, <1>6 DEF chanVars
<1> QED BY <1>2, <1>3, <1>4, <1>5, <1>6, StepKinds DEF ChanInv

(* Without a channel or server operator nobody rules a channel.            *)
THEOREM FrozenCorrect == ChannelsSpec => OplessFrozen
<1>1. TypeOK /\ ChanInv /\ [ChannelsNext]_vars => FrozenStep
  BY FrozenTaken
<1> QED BY <1>1, ChannelsAlways, PTL DEF ChannelsSpec, OplessFrozen

-----------------------------------------------------------------------------
(* What clients are told: Views implements Channels.                       *)

LEMMA ToldPart ==
  ASSUME NEW c \in Client, ToldCommand(c) \/ ToldNick(c) \/ ToldEnd(c) \/ ToldLate(c) \/ Untold(c)
  PROVE  ChannelCommand(c) \/ SessionCommand(c) \/ SessionEnd(c)
<1>1. CASE ToldCommand(c)
  <2>1. ToldMembership(c) => Membership(c)
    BY DEF ToldMembership, Membership
  <2> QED BY <1>1, <2>1 DEF ToldCommand, ChannelCommand
<1>2. CASE ToldNick(c)
  <2>1. UNCHANGED chanVars
    BY <1>2 DEF ToldNick, chanVars
  <2>2. (\E n \in Nick : NickCmd(c, n)) \/ (\E t, n \in Nick : OperNick(c, t, n))
    BY <1>2 DEF ToldNick
  <2> QED BY <2>1, <2>2 DEF SessionCommand, Command
<1>3. CASE ToldEnd(c)
  BY <1>3 DEF ToldEnd, SessionEnd
<1>4. CASE ToldLate(c)
  BY <1>4 DEF ToldLate, SessionCommand, Connection
<1>5. CASE Untold(c)
  BY <1>5 DEF Untold
<1> QED BY <1>1, <1>2, <1>3, <1>4, <1>5

LEMMA ViewsImplementChannels == ViewsSpec => ChannelsSpec
<1>1. ViewsInit => ChannelsInit
  BY DEF ViewsInit
<1>2. [ViewsNext]_viewVars => [ChannelsNext]_vars
  <2>1. ViewsNext => ChannelsNext
    BY ToldPart DEF ViewsNext, ChannelsNext
  <2>2. UNCHANGED viewVars => UNCHANGED vars
    BY DEF viewVars
  <2> QED BY <2>1, <2>2
<1> QED BY <1>1, <1>2, PTL DEF ViewsSpec, ChannelsSpec

(* What each message makes a client m believe of the channel called name.  *)
Reads(m, S, seen, heard) == IF m \in S /\ ~hasQuit(m) THEN heard ELSE seen

LEMMA TellJoinReads ==
  ASSUME NEW c \in Client, NEW n, TellJoin(c, n), NEW m \in Client, NEW name \in ChanName
  PROVE  view'[m][name] =
           Reads(m, DOMAIN chan'[channels'[n]].members, view[m][name],
                 IF name # n THEN view[m][name]
                 ELSE IF m = c THEN Nicks(channels'[n]) ELSE view[m][name] \cup {nick[c]})
BY DEF TellJoin, Tell, Reads

Audience(S) == UNION {DOMAIN chan[o].members : o \in S}
Hears(S, m, name) == \E o \in S : chan[o].name = name /\ m \in DOMAIN chan[o].members

LEMMA TellPartReads ==
  ASSUME NEW S, NEW t, TellPart(S, t), NEW m \in Client, NEW name \in ChanName
  PROVE  view'[m][name] =
           Reads(m, Audience(S), view[m][name],
                 IF ~Hears(S, m, name) THEN view[m][name]
                 ELSE IF m = t THEN {} ELSE view[m][name] \ {nick[t]})
BY DEF TellPart, Tell, Reads, Has, Audience, Hears

LEMMA TellNickReads ==
  ASSUME NEW t, NEW new, TellNick(t, new), NEW m \in Client, NEW name \in ChanName
  PROVE  view'[m][name] =
           Reads(m, Friends(t), view[m][name],
                 IF nick[t] \in view[m][name] THEN (view[m][name] \ {nick[t]}) \cup {new}
                 ELSE view[m][name])
BY DEF TellNick, Tell, Reads

LEMMA TellQuitReads ==
  ASSUME NEW S, NEW t, TellQuit(S, t), NEW m \in Client, NEW name \in ChanName
  PROVE  view'[m][name] = Reads(m, S, view[m][name], view[m][name] \ {nick[t]})
BY DEF TellQuit, Tell, Reads

-----------------------------------------------------------------------------
(* The inductive invariant of what clients are told.  As long as no line   *)
(* may tell of the wrong client, the members of channels are live and      *)
(* registered, so that the registry of nicknames keeps their nicknames     *)
(* apart; and a client whose QUIT is still to come is in its last Read and *)
(* nobody has its nickname, so that what its friends believe besides is    *)
(* about members only.                                                     *)
On(o) == DOMAIN chan[o].members

MembersLive == \A o \in Chan : \A d \in On(o) : conn[d] = "open" /\ registered[d]

Awaited ==
  /\ friends \in [Client -> SUBSET Client]
  /\ \A t \in Client : friends[t] # {} => conn[t] = "lame" /\ Get(nicks, nick[t]) = NoClient

Rest(m, name) == view[m][name] \ Unheard(m)

Told ==
  \A name \in ChanName : channels[name] # NoChan =>
    \A m \in On(channels[name]) : Rest(m, name) = {nick[d] : d \in On(channels[name])}

SessInv == TypeOK /\ NickOwner /\ RegistrySound /\ RegistrationGate

ViewsInv == ~haunted => MembersLive /\ Awaited /\ Told

LEMMA OnClients ==
  ASSUME ChanInv, NEW o \in Chan
  PROVE  On(o) \in SUBSET Client
BY MembersType DEF ChanInv, ChanTypes, ChannelRecord, On

(* Nobody live, and nobody in the registry, has a member's nickname.       *)
LEMMA Distinct ==
  ASSUME SessInv, ChanInv, MembersLive, NEW o \in Chan, NEW d \in On(o), NEW t \in Client,
         conn[t] = "open" \/ \E k \in Key : nicks[k] = t,
         nick[t] = nick[d]
  PROVE  t = d
<1>1. d \in Client /\ conn[d] = "open" /\ nick[d] # NoNick
  BY OnClients DEF MembersLive, SessInv, RegistrationGate
<1>2. Get(nicks, nick[d]) = d
  BY <1>1 DEF SessInv, NickOwner
<1>3. CASE conn[t] = "open"
  <2>1. Get(nicks, nick[t]) = t
    BY <1>1, <1>3 DEF SessInv, NickOwner
  <2> QED BY <1>2, <2>1
<1>4. CASE \E k \in Key : nicks[k] = t
  <2>1. PICK k \in Key : nicks[k] = t
    BY <1>4
  <2>2. Fold[nick[t]] = k
    BY <2>1, SessionsAssumption DEF SessInv, RegistrySound
  <2> QED BY <1>2, <2>1, <2>2 DEF Get
<1> QED BY <1>3, <1>4

(* Nor is it one of those that some client has still to be told of.        *)
LEMMA Apart ==
  ASSUME SessInv, Awaited, NEW m, NEW t \in Client,
         (conn[t] = "open" /\ nick[t] # NoNick) \/ \E k \in Key : nicks[k] = t
  PROVE  nick[t] \notin Unheard(m)
<1>1. Get(nicks, nick[t]) = t
  <2>1. CASE conn[t] = "open" /\ nick[t] # NoNick
    BY <2>1 DEF SessInv, NickOwner
  <2>2. CASE \E k \in Key : nicks[k] = t
    BY <2>2, SessionsAssumption DEF SessInv, RegistrySound, Get
  <2> QED BY <2>1, <2>2
<1>2. \A d \in Client : m \in friends[d] => Get(nicks, nick[d]) = NoClient
  BY DEF Awaited
<1> QED BY <1>1, <1>2, SessionsAssumption DEF Unheard

LEMMA SameUnheard ==
  ASSUME NEW m, friends' = friends,
         \A t \in Client : friends[t] # {} => nick'[t] = nick[t]
  PROVE  Unheard(m)' = Unheard(m)
<1>1. \A t \in {d \in Client : m \in friends[d]} : nick'[t] = nick[t]
  OBVIOUS
<1> QED BY <1>1 DEF Unheard

(* Somebody quits some channels, and their members take the nickname off.  *)
LEMMA QuitTold ==
  ASSUME SessInv, ChanInv, MembersLive, Told,
         NEW S \in SUBSET Chan, NEW t \in Client, ChannelQuit(S, t), nick' = nick,
         conn[t] = "open" \/ \E k \in Key : nicks[k] = t,
         \A name \in ChanName : channels[name] # NoChan =>
           \A m \in On(channels[name]) \ {t} :
             LET o == channels[name]
             IN IF t \in On(o)
                THEN Rest(m, name)' = IF o \in S THEN Rest(m, name) \ {nick[t]} ELSE Rest(m, name)
                ELSE Rest(m, name)' \in {Rest(m, name), Rest(m, name) \ {nick[t]}},
         \A name \in ChanName : channels[name] # NoChan =>
           (channels[name] \in S \/ t \notin On(channels[name]))
             \/ Rest(t, name)' = Rest(t, name)
  PROVE  Told'
<1> SUFFICES ASSUME NEW name \in ChanName, channels'[name] # NoChan,
                    NEW m \in On(channels[name])'
             PROVE  Rest(m, name)' = {nick'[d] : d \in On(channels[name])'}
  BY DEF Told
<1> DEFINE o == channels[name]
<1>1. channels'[name] = o /\ o \in Chan
  BY DEF ChannelQuit, ChanInv, ChanTypes
<1>2. On(o)' = IF o \in S THEN On(o) \ {t} ELSE On(o)
  BY <1>1, WithoutType DEF ChannelQuit, ChanInv, ChanTypes, On
<1>3. m \in On(o) /\ Rest(m, name) = {nick[d] : d \in On(o)}
  BY <1>1, <1>2 DEF Told
<1>4. \A d \in On(o) : nick[d] = nick[t] => d = t
  BY <1>1, Distinct
<1> HIDE DEF o
<1>5. CASE t \in On(o) /\ o \in S
  <2>1. Rest(m, name)' = Rest(m, name) \ {nick[t]}
    BY <1>1, <1>2, <1>3, <1>5 DEF o
  <2> QED BY <1>1, <1>2, <1>3, <1>4, <1>5, <2>1 DEF o
<1>6. CASE t \in On(o) /\ o \notin S
  <2>1. Rest(m, name)' = Rest(m, name)
    BY <1>1, <1>3, <1>6 DEF o
  <2> QED BY <1>1, <1>2, <1>3, <1>6, <2>1 DEF o
<1>7. CASE t \notin On(o)
  <2>1. Rest(m, name)' \in {Rest(m, name), Rest(m, name) \ {nick[t]}}
    BY <1>1, <1>3, <1>7 DEF o
  <2>2. nick[t] \notin Rest(m, name)
    BY <1>3, <1>4, <1>7
  <2> QED BY <1>1, <1>2, <1>3, <1>7, <2>1, <2>2 DEF o
<1> QED BY <1>5, <1>6, <1>7

LEMMA OnlyReadsLive ==
  ASSUME TypeOK, NEW c \in Client, OnlyReads(c), NEW d \in Client, conn[d] = "open"
  PROVE  conn'[d] = "open"
BY DEF TypeOK, OnlyReads, NextRead

(* PART, KICK and JOIN 0: every channel in S has t on it.                  *)
LEMMA PartTold ==
  ASSUME SessInv, ChanInv, MembersLive, Awaited, Told, NEW c \in Client, OnlyReads(c),
         UNCHANGED <<nicks, profileVars>>,
         NEW S \in SUBSET Chan, NEW t \in Client, \A o \in S : t \in On(o),
         ChannelQuit(S, t), TellPart(S, t), friends' = friends
  PROVE  MembersLive' /\ Told'
<1>1. nick' = nick /\ registered' = registered
  BY DEF profileVars
<1>2. MembersLive'
  <2>1. \A o \in Chan : On(o)' \subseteq On(o) /\ On(o) \subseteq Client
    BY OnClients, WithoutType DEF ChannelQuit, ChanInv, ChanTypes, On
  <2> QED BY <1>1, <2>1, OnlyReadsLive DEF MembersLive, SessInv
<1>3. Told'
  <2>1. ASSUME NEW name \in ChanName, channels[name] # NoChan, NEW m \in On(channels[name])
        PROVE  \/ channels[name] \in S /\ m = t
               \/ Rest(m, name)' =
                      IF channels[name] \in S THEN Rest(m, name) \ {nick[t]} ELSE Rest(m, name)
    <3> DEFINE o == channels[name]
    <3>1. o \in Chan /\ chan[o].name = name
      BY <2>1 DEF ChanInv, ChanTypes, RegisteredIffInhabited
    <3>2. m \in Client /\ ~hasQuit(m)
      BY <2>1, <3>1, OnClients DEF MembersLive, hasQuit
    <3>3. \A p \in Chan : chan[p].name = name /\ m \in DOMAIN chan[p].members => p = o
      BY DEF ChanInv, RegisteredIffInhabited, IsEmpty
    <3>4. Hears(S, m, name) <=> o \in S
      BY <2>1, <3>1, <3>3 DEF On, Hears
    <3>5. o \in S => m \in Audience(S)
      BY <2>1 DEF On, Audience
    <3> HIDE DEF o
    <3>6. view'[m][name] = Reads(m, Audience(S), view[m][name],
            IF ~Hears(S, m, name) THEN view[m][name]
            ELSE IF m = t THEN {} ELSE view[m][name] \ {nick[t]})
      BY <3>2, TellPartReads
    <3>9. Rest(m, name)' = view'[m][name] \ Unheard(m)
      BY <1>1, SameUnheard DEF Rest
    <3>7. CASE o \in S
      BY <3>2, <3>4, <3>5, <3>6, <3>7, <3>9 DEF Reads, Rest, o
    <3>8. CASE o \notin S
      BY <3>4, <3>6, <3>8, <3>9 DEF Reads, Rest, o
    <3> QED BY <3>7, <3>8
  <2>2. CASE S = {}
    <3>1. ASSUME NEW name \in ChanName, channels'[name] # NoChan
          PROVE  channels'[name] = channels[name] /\ On(channels[name])' = On(channels[name])
      BY <2>2, <3>1 DEF ChannelQuit, ChanInv, ChanTypes, On
    <3> QED BY <1>1, <2>1, <2>2, <3>1 DEF Told, On
  <2>3. CASE S # {}
    <3>1. conn[t] = "open"
      BY <2>3 DEF MembersLive
    <3>2. \A name \in ChanName : channels[name] # NoChan =>
           \A m \in On(channels[name]) \ {t} :
             LET o == channels[name]
             IN IF t \in On(o)
                THEN Rest(m, name)' = IF o \in S THEN Rest(m, name) \ {nick[t]} ELSE Rest(m, name)
                ELSE Rest(m, name)' \in {Rest(m, name), Rest(m, name) \ {nick[t]}}
      BY <2>1
    <3>3. \A name \in ChanName : channels[name] # NoChan =>
           (channels[name] \in S \/ t \notin On(channels[name]))
             \/ Rest(t, name)' = Rest(t, name)
      BY <2>1
    <3> QED BY <1>1, <3>1, <3>2, <3>3, QuitTold
  <2> QED BY <2>2, <2>3
<1> QED BY <1>2, <1>3

(* JOIN: the new member gets the list of names, the others its nickname.   *)
LEMMA JoinTold ==
  ASSUME SessInv, ChanInv, MembersLive, Awaited, Told, NEW c \in Client, OnlyReads(c),
         UNCHANGED <<nicks, profileVars>>, conn[c] = "open", registered[c],
         NEW name \in ChanName, NEW o \in Chan, NEW ch \in ChannelRecord,
         ch.name = name, Enter(o, ch, c), TellJoin(c, name), friends' = friends,
         \/ ch = chan[o] /\ channels[name] = o
         \/ IsEmpty(ch) /\ channels[name] = NoChan /\ \A n \in ChanName : channels[n] # o
  PROVE  MembersLive' /\ Told'
<1>1. nick' = nick /\ registered' = registered
  BY DEF profileVars
<1>2. /\ chan' = [chan EXCEPT ![o] = WithMember(ch, c)]
      /\ channels' = [channels EXCEPT ![name] = o]
  BY DEF Enter
<1>3. /\ On(o)' = DOMAIN ch.members \cup {c}
      /\ \A p \in Chan \ {o} : On(p)' = On(p)
  BY <1>2, WithMemberType DEF ChanInv, ChanTypes, On
<1>4. DOMAIN ch.members \subseteq On(o)
  BY DEF On, IsEmpty
<1>5. MembersLive'
  <2>1. \A p \in Chan : \A d \in On(p)' : d \in Client /\ conn[d] = "open" /\ registered[d]
    BY <1>3, <1>4, OnClients DEF MembersLive
  <2> QED BY <1>1, <2>1, OnlyReadsLive DEF MembersLive, SessInv
<1>6. ASSUME NEW n \in ChanName, channels'[n] # NoChan, NEW m \in On(channels[n])'
      PROVE  Rest(m, n)' = {nick[d] : d \in On(channels[n])'}
  <2>3. Rest(m, n)' = view'[m][n] \ Unheard(m)
    BY <1>1, SameUnheard DEF Rest
  <2>1. CASE n # name
    <3>1. channels'[n] = channels[n] /\ channels[n] \in Chan \ {o}
      <4>1. channels'[n] = channels[n] /\ channels[n] \in Chan
        BY <1>2, <1>6, <2>1 DEF ChanInv, ChanTypes
      <4>2. channels[n] # o
        BY <2>1, <4>1, ChannelsAssumption DEF ChanInv, RegisteredIffInhabited
      <4> QED BY <4>1, <4>2
    <3>2. On(channels[n])' = On(channels[n]) /\ m \in On(channels[n]) /\ m \in Client
      BY <1>3, <1>6, <3>1, OnClients DEF On
    <3>3. Rest(m, n) = {nick[d] : d \in On(channels[n])}
      BY <3>1, <3>2, ChannelsAssumption DEF Told
    <3>5. view'[m][n] = Reads(m, DOMAIN chan'[channels'[name]].members, view[m][n],
            IF n # name THEN view[m][n]
            ELSE IF m = c THEN Nicks(channels'[name]) ELSE view[m][n] \cup {nick[c]})
      BY <3>2, TellJoinReads
    <3>4. view'[m][n] = view[m][n]
      BY <2>1, <3>5 DEF Reads
    <3> QED BY <2>3, <3>2, <3>3, <3>4 DEF Rest
  <2>2. CASE n = name
    <3>1. channels'[n] = o
      BY <1>2, <2>2 DEF ChanInv, ChanTypes
    <3>2. /\ m \in DOMAIN ch.members \cup {c} /\ m \in Client /\ ~hasQuit(m)
          /\ DOMAIN chan'[o].members = DOMAIN ch.members \cup {c}
          /\ On(channels[n])' = DOMAIN ch.members \cup {c}
      BY <1>3, <1>4, <1>6, <3>1, OnClients DEF MembersLive, hasQuit, On
    <3>3. view'[m][n] = IF m = c THEN Nicks(o) ELSE view[m][n] \cup {nick[c]}
      BY <2>2, <3>1, <3>2, TellJoinReads DEF Reads
    <3>4. Nicks(o) = {nick[d] : d \in DOMAIN ch.members \cup {c}}
      BY <3>2 DEF Nicks
    <3>7. \A d \in DOMAIN ch.members \cup {c} : nick[d] \notin Unheard(m)
      <4>1. ASSUME NEW d \in DOMAIN ch.members \cup {c}
            PROVE  nick[d] \notin Unheard(m)
        <5>1. d \in Client /\ conn[d] = "open" /\ registered[d]
          BY <1>4, OnClients DEF MembersLive
        <5>2. nick[d] # NoNick
          BY <5>1 DEF SessInv, RegistrationGate
        <5> QED BY <5>1, <5>2, Apart
      <4> QED BY <4>1
    <3>5. CASE m = c
      BY <2>3, <3>2, <3>3, <3>4, <3>5, <3>7
    <3>6. CASE m # c
      <4>1. channels[n] = o /\ On(o) = DOMAIN ch.members /\ m \in On(o)
        BY <2>2, <3>2, <3>6 DEF On, IsEmpty
      <4>2. Rest(m, n) = {nick[d] : d \in DOMAIN ch.members}
        BY <4>1, ChannelsAssumption DEF Told
      <4>3. Rest(m, n)' = Rest(m, n) \cup {nick[c]}
        BY <2>3, <3>3, <3>6, <3>7 DEF Rest
      <4> QED BY <3>2, <4>2, <4>3
    <3> QED BY <3>5, <3>6
  <2> QED BY <2>1, <2>2
<1>7. Told'
  BY <1>1, <1>6 DEF Told
<1> QED BY <1>5, <1>7

(* MODE, TOPIC and INVITE leave the members and their nicknames alone.     *)
LEMMA UpdateTold ==
  ASSUME SessInv, ChanInv, MembersLive, Awaited, Told, NEW c \in Client, OnlyReads(c),
         UNCHANGED <<nicks, profileVars>>, UNCHANGED <<view, friends>>, UpdateStep
  PROVE  MembersLive' /\ Told'
<1>1. nick' = nick /\ registered' = registered
  BY DEF profileVars
<1>2. channels' = channels /\ \A o \in Chan : On(o)' = On(o)
  <2>1. PICK o \in Chan, new \in ChannelRecord : Update(o, new) /\ SameMembers(chan[o], new)
    BY DEF UpdateStep
  <2>2. DOMAIN new.members = DOMAIN chan[o].members
    BY <2>1 DEF SameMembers
  <2> QED BY <2>1, <2>2 DEF Update, ChanInv, ChanTypes, On
<1>3. MembersLive'
  BY <1>1, <1>2, OnClients, OnlyReadsLive DEF MembersLive, SessInv
<1>4. ASSUME NEW name \in ChanName, channels'[name] # NoChan, NEW m \in On(channels[name])'
      PROVE  Rest(m, name)' = {nick'[d] : d \in On(channels[name])'}
  <2>3. Rest(m, name)' = Rest(m, name)
    BY <1>1, SameUnheard DEF Rest
  <2>1. channels[name] \in Chan /\ channels'[name] = channels[name]
    BY <1>2, <1>4 DEF ChanInv, ChanTypes
  <2>2. On(channels[name])' = On(channels[name])
    BY <1>2, <2>1 DEF On
  <2> QED BY <1>1, <1>4, <2>1, <2>2, <2>3 DEF Told
<1> QED BY <1>3, <1>4 DEF Told

LEMMA CommandTold ==
  ASSUME SessInv, ChanInv, MembersLive, Awaited, Told, NEW c \in Client, ToldCommand(c),
         ~(conn[c] = "late" /\ (nick' # nick \/ chan' # chan))
  PROVE  MembersLive' /\ Told'
<1>1. /\ conn[c] \in {"open", "late"} /\ registered[c] /\ OnlyReads(c)
      /\ UNCHANGED <<nicks, profileVars>> /\ friends' = friends
  BY DEF ToldCommand, Registered, CanRun
<1>2. TypeOK /\ ChanTypes
  BY DEF SessInv, ChanInv
<1>3. CASE JoinZero(c) /\ TellPart({o \in joined[c] : Has(chan[o], c)}, c)
  <2> DEFINE S == {o \in joined[c] : Has(chan[o], c)}
  <2>1. S \in SUBSET Chan /\ \A o \in S : c \in On(o)
    BY <1>2 DEF ChanTypes, Has, On
  <2>2. ChannelQuit(S, c) /\ TellPart(S, c)
    BY <1>3 DEF JoinZero
  <2> HIDE DEF S
  <2> QED BY <1>1, <2>1, <2>2, PartTold
<1>4. CASE \E name \in ChanName, key \in ChanKey \cup {NoKey} :
             (Join(c, name, key) \/ JoinNew(c, name, key)) /\ TellJoin(c, name)
  <2>1. PICK name \in ChanName, key \in ChanKey \cup {NoKey} :
          (Join(c, name, key) \/ JoinNew(c, name, key)) /\ TellJoin(c, name)
    BY <1>4
  <2>2. PICK o \in Chan, ch \in ChannelRecord :
          /\ ch.name = name /\ Enter(o, ch, c) /\ c \notin On(o)
          /\ \/ ch = chan[o] /\ channels[name] = o
             \/ IsEmpty(ch) /\ channels[name] = NoChan /\ \A n \in ChanName : channels[n] # o
    <3>1. CASE Join(c, name, key)
      <4>1. channels[name] \in Chan /\ chan[channels[name]] \in ChannelRecord
        BY <1>2, <3>1 DEF Join, ChanTypes
      <4>2. chan[channels[name]].name = name
        BY <3>1 DEF Join, ChanInv, RegisteredIffInhabited
      <4> QED BY <3>1, <4>1, <4>2 DEF Join, Has, On
    <3>2. CASE JoinNew(c, name, key)
      <4>1. PICK o \in Chan : /\ \A n \in ChanName : channels[n] # o
                              /\ \A x \in Client : o \notin joined[x]
                              /\ Enter(o, NewChannel(name), c)
        BY <3>2 DEF JoinNew
      <4>2. c \notin On(o)
        BY <4>1 DEF ChanInv, MembersPointBack, On
      <4>3. /\ NewChannel(name) \in ChannelRecord /\ IsEmpty(NewChannel(name))
            /\ NewChannel(name).name = name
        BY NewChannelType DEF IsEmpty
      <4>4. channels[name] = NoChan
        BY <3>2 DEF JoinNew
      <4> QED BY <4>1, <4>2, <4>3, <4>4
    <3> QED BY <2>1, <3>1, <3>2
  <2>3. c \in On(o)'
    BY <1>2, <2>2, WithMemberType DEF Enter, ChanTypes, On
  <2>4. conn[c] = "open"
    BY <1>1, <2>2, <2>3 DEF On
  <2>5. TellJoin(c, name)
    BY <2>1
  <2> QED BY <1>1, <2>2, <2>4, <2>5, JoinTold
<1>5. CASE \E name \in ChanName : Part(c, name) /\ TellPart({channels[name]}, c)
  <2>1. PICK name \in ChanName : Part(c, name) /\ TellPart({channels[name]}, c)
    BY <1>5
  <2> DEFINE S == {channels[name]}
  <2>2. S \in SUBSET Chan /\ \A o \in S : c \in On(o)
    BY <1>2, <2>1 DEF Part, ChanTypes, Has, On
  <2>3. ChannelQuit(S, c) /\ TellPart(S, c)
    BY <2>1 DEF Part
  <2> HIDE DEF S
  <2> QED BY <1>1, <2>2, <2>3, PartTold
<1>6. CASE \E name \in ChanName, n \in Nick :
             Kick(c, name, n) /\ TellPart({channels[name]}, Get(nicks, n))
  <2>1. PICK name \in ChanName, n \in Nick :
          Kick(c, name, n) /\ TellPart({channels[name]}, Get(nicks, n))
    BY <1>6
  <2> DEFINE S == {channels[name]}
             t == Get(nicks, n)
  <2>2. t \in Client
    BY <1>2, <2>1, GetClient DEF Kick
  <2>3. S \in SUBSET Chan /\ \A o \in S : t \in On(o)
    BY <1>2, <2>1 DEF Kick, ChanTypes, Has, On
  <2>4. ChannelQuit(S, t) /\ TellPart(S, t)
    BY <2>1 DEF Kick
  <2> HIDE DEF S, t
  <2> QED BY <1>1, <2>2, <2>3, <2>4, PartTold
<1>7. CASE Settings(c) /\ UNCHANGED view
  BY <1>1, <1>2, <1>7, SettingsKind, UpdateTold
<1> QED BY <1>3, <1>4, <1>5, <1>6, <1>7 DEF ToldCommand, ToldMembership

(* NICK and ONICK: whoever is on a channel with t is among the friends of  *)
(* t, and nobody else there has the nickname that goes.                    *)
LEMMA RenameTold ==
  ASSUME SessInv, ChanInv, MembersLive, Awaited, Told, NEW c \in Client, NEW t \in Client,
         (conn[t] = "open" /\ nick[t] # NoNick) \/ \E k \in Key : nicks[k] = t,
         NEW n \in Nick, ChangeNickname(c, t, n), TellNick(t, n), UNCHANGED <<chanVars, friends>>,
         \A d \in Client : friends'[d] # {} => Get(nicks', nick[d]) = NoClient
  PROVE  MembersLive' /\ Told'
<1>1. /\ registered' = registered /\ nick' = [nick EXCEPT ![t] = n] /\ OnlyReads(c)
      /\ chan' = chan /\ channels' = channels
  BY DEF ChangeNickname, chanVars
<1>2. \A o \in Chan : On(o)' = On(o)
  BY <1>1 DEF On
<1>3. MembersLive'
  BY <1>1, <1>2, OnClients, OnlyReadsLive DEF MembersLive, SessInv
<1>6. \A m : nick[t] \notin Unheard(m)
  BY Apart
<1>7. \A d \in Client : friends[d] # {} => nick'[d] = nick[d]
  <2>1. ASSUME NEW d \in Client, friends[d] # {} PROVE d # t
    <3>1. \E m : m \in friends[d]
      BY <2>1
    <3>2. PICK m : m \in friends[d]
      BY <3>1
    <3>3. nick[d] \in Unheard(m)
      BY <3>2 DEF Unheard
    <3> QED BY <1>6, <3>3
  <2> QED BY <1>1, <2>1 DEF SessInv, TypeOK
<1>8. \A m : n \notin Unheard(m)
  <2>1. Get(nicks', n) # NoClient
    <3>1. TypeOK /\ Fold[n] \in Key /\ n # NoNick
      BY SessionsAssumption DEF SessInv
    <3>2. nicks' = Add(Remove(nicks, t, nick[t]), t, n)
      BY DEF ChangeNickname
    <3>3. Remove(nicks, t, nick[t]) \in [Key -> Client \cup {NoClient}]
      BY <3>1, RemoveType DEF TypeOK
    <3> QED BY <3>1, <3>2, <3>3, SessionsAssumption DEF Add, Get
  <2>2. \A d \in Client : friends[d] # {} => nick[d] # n
    BY <2>1
  <2> QED BY <2>2 DEF Unheard
<1>4. ASSUME NEW name \in ChanName, channels[name] # NoChan, NEW m \in On(channels[name])
      PROVE  Rest(m, name)' = {nick'[d] : d \in On(channels[name])}
  <2> DEFINE o == channels[name]
  <2>1. o \in Chan /\ On(o) \in SUBSET Client /\ m \in On(o) /\ m \in Client /\ ~hasQuit(m)
    BY <1>4, OnClients DEF ChanInv, ChanTypes, MembersLive, hasQuit
  <2>2. Rest(m, name) = {nick[d] : d \in On(o)}
    BY <1>4 DEF Told
  <2>8. Rest(m, name)' = view'[m][name] \ Unheard(m)
    BY <1>7, SameUnheard DEF Rest
  <2>3. \A d \in On(o) : nick[d] = nick[t] => d = t
    BY <2>1, Distinct
  <2>4. \A d \in On(o) : nick'[d] = IF d = t THEN n ELSE nick[d]
    BY <1>1, <2>1 DEF SessInv, TypeOK
  <2>5. view'[m][name] = Reads(m, Friends(t), view[m][name],
          IF nick[t] \in view[m][name] THEN (view[m][name] \ {nick[t]}) \cup {n}
          ELSE view[m][name])
    BY <2>1, TellNickReads
  <2> HIDE DEF o
  <2>6. CASE t \in On(o)
    <3>1. m \in Friends(t)
      BY <2>1, <2>6 DEF Friends, On, ChanInv, MembersPointBack
    <3>2. nick[t] \in view[m][name]
      BY <2>2, <2>6 DEF Rest
    <3>3. Rest(m, name)' = (Rest(m, name) \ {nick[t]}) \cup {n}
      BY <1>8, <2>1, <2>5, <2>8, <3>1, <3>2 DEF Reads, Rest
    <3> QED BY <2>2, <2>3, <2>4, <2>6, <3>3 DEF o
  <2>7. CASE t \notin On(o)
    <3>1. nick[t] \notin view[m][name]
      BY <1>6, <2>2, <2>3, <2>7 DEF Rest
    <3>2. Rest(m, name)' = Rest(m, name)
      BY <2>5, <2>8, <3>1 DEF Reads, Rest
    <3> QED BY <2>2, <2>4, <2>7, <3>2 DEF o
  <2> QED BY <2>6, <2>7
<1>5. Told'
  <2>1. ASSUME NEW name \in ChanName, channels'[name] # NoChan
        PROVE  channels'[name] = channels[name] /\ On(channels[name])' = On(channels[name])
    BY <1>1, <1>2, <2>1 DEF ChanInv, ChanTypes, On
  <2> QED BY <1>1, <1>4, <2>1 DEF Told
<1> QED BY <1>3, <1>5

LEMMA NickTold ==
  ASSUME SessInv, ChanInv, MembersLive, Awaited, Told, NEW c \in Client, ToldNick(c), ~Haunts(c)
  PROVE  MembersLive' /\ Told'
<1>1. /\ UNCHANGED <<chanVars, friends>>
      /\ ~(conn[c] = "late" /\ (nick' # nick \/ chan' # chan))
      /\ \A d \in Client : friends'[d] # {} => Get(nicks', nick[d]) = NoClient
  BY DEF ToldNick, Haunts
<1>2. CASE \E n \in Nick : NickCmd(c, n) /\ TellNick(c, n)
  <2>1. PICK n \in Nick : NickCmd(c, n) /\ TellNick(c, n)
    BY <1>2
  <2>2. ChangeNickname(c, c, n) /\ n # nick[c] /\ conn[c] \in {"open", "late"} /\ registered[c]
    BY <2>1 DEF NickCmd, Registered, CanRun
  <2>3. conn[c] = "open" /\ nick[c] # NoNick
    BY <1>1, <2>2 DEF ChangeNickname, SessInv, TypeOK, RegistrationGate
  <2> QED BY <1>1, <2>1, <2>2, <2>3, RenameTold
<1>3. CASE \E t, n \in Nick : OperNick(c, t, n) /\ TellNick(Get(nicks, t), n)
  <2>1. PICK u \in Nick, n \in Nick : OperNick(c, u, n) /\ TellNick(Get(nicks, u), n)
    BY <1>3
  <2> DEFINE t == Get(nicks, u)
  <2>2. ChangeNickname(c, t, n) /\ TellNick(t, n)
    BY <2>1 DEF OperNick
  <2>3. t \in Client /\ nicks[Fold[u]] = t /\ Fold[u] \in Key
    BY <2>1, SessionsAssumption, GetClient DEF OperNick, SessInv, Get
  <2> HIDE DEF t
  <2> QED BY <1>1, <2>2, <2>3, RenameTold
<1> QED BY <1>2, <1>3 DEF ToldNick

(* A friend that is told at once takes the nickname off; one that is not   *)
(* has it among those it has still to be told of.                          *)
LEMMA EndReads ==
  ASSUME Awaited, NEW t \in Client, ~hasQuit(t), nick' = nick, TellEnd(t),
         NEW m \in Client, ~hasQuit(m), NEW name \in ChanName
  PROVE  Rest(m, name)' =
           Reads(m, Friends(t) \ {t}, Rest(m, name), Rest(m, name) \ {nick[t]})
<1>1. CASE conn'[t] = "gone" /\ TellQuit(Friends(t) \ {t}, t) /\ UNCHANGED friends
  <2>1. Rest(m, name)' = view'[m][name] \ Unheard(m)
    BY <1>1, SameUnheard DEF Rest
  <2> DEFINE S == Friends(t) \ {t}
  <2>2. TellQuit(S, t)
    BY <1>1
  <2> HIDE DEF S
  <2>3. view'[m][name] = Reads(m, S, view[m][name], view[m][name] \ {nick[t]})
    BY <2>2, TellQuitReads
  <2> QED BY <2>1, <2>3 DEF Reads, Rest, S
<1>2. CASE friends' = [friends EXCEPT ![t] = Friends(t) \ {t}] /\ UNCHANGED view
  <2>1. friends[t] = {}
    BY DEF Awaited, hasQuit
  <2>2. \A d \in Client : friends'[d] = IF d = t THEN Friends(t) \ {t} ELSE friends[d]
    BY <1>2 DEF Awaited
  <2>3. Unheard(m)' = {nick[d] : d \in {x \in Client : m \in friends'[x]}}
    BY DEF Unheard
  <2>4. Unheard(m)' = IF m \in Friends(t) \ {t} THEN Unheard(m) \cup {nick[t]} ELSE Unheard(m)
    <3>1. {x \in Client : m \in friends'[x]} =
            IF m \in Friends(t) \ {t} THEN {x \in Client : m \in friends[x]} \cup {t}
            ELSE {x \in Client : m \in friends[x]}
      BY <2>1, <2>2
    <3> QED BY <2>3, <3>1 DEF Unheard
  <2> QED BY <1>2, <2>4 DEF Reads, Rest
<1> QED BY <1>1, <1>2 DEF TellEnd

(* QUIT, KILL and the quit timer: destroy finds every channel of t.        *)
LEMMA GoneTold ==
  ASSUME SessInv, ChanInv, MembersLive, Awaited, Told,
         NEW t \in Client, NEW caller \in Client \cup {NoClient},
         hasQuit(t) \/ conn[t] = "open" \/ \E k \in Key : nicks[k] = t,
         Quit(t, caller), UNCHANGED profileVars, Destroy(t), TellEnd(t)
  PROVE  MembersLive' /\ Told'
<1>1. nick' = nick /\ registered' = registered
  BY DEF profileVars
<1>2. \A d \in Client \ {t} : conn[d] = "open" => conn'[d] = "open"
  BY DEF Quit, NextRead, SessInv, TypeOK
<1>3. CASE hasQuit(t)
  <2>1. UNCHANGED <<chan, channels, view, friends>>
    BY <1>3 DEF Destroy, chanVars, TellEnd
  <2>2. \A o \in Chan : On(o)' = On(o) /\ t \notin On(o)
    BY <1>3, <2>1 DEF On, MembersLive, hasQuit
  <2>3. MembersLive'
    BY <1>1, <1>2, <2>2, OnClients DEF MembersLive
  <2>4. ASSUME NEW name \in ChanName, channels'[name] # NoChan
        PROVE  channels'[name] = channels[name] /\ On(channels[name])' = On(channels[name])
    BY <2>1, <2>2, <2>4 DEF ChanInv, ChanTypes, On
  <2>5. ASSUME NEW m \in Client, NEW name \in ChanName
        PROVE  Rest(m, name)' = Rest(m, name)
    BY <1>1, <2>1, SameUnheard DEF Rest
  <2>6. \A name \in ChanName : channels[name] # NoChan => On(channels[name]) \subseteq Client
    BY OnClients DEF ChanInv, ChanTypes
  <2> QED BY <1>1, <2>1, <2>3, <2>4, <2>5, <2>6 DEF Told
<1>4. CASE ~hasQuit(t)
  <2>1. ChannelQuit(joined[t], t) /\ joined[t] \in SUBSET Chan
    BY <1>4 DEF Destroy, ChanInv, ChanTypes
  <2>2. \A o \in Chan : t \in On(o) => o \in joined[t]
    BY DEF ChanInv, MembersPointBack, On
  <2>3. MembersLive'
    <3>1. \A o \in Chan : On(o)' \subseteq On(o) \ {t} /\ On(o) \subseteq Client
      BY <2>1, <2>2, OnClients, WithoutType DEF ChannelQuit, ChanInv, ChanTypes, On
    <3> QED BY <1>1, <1>2, <3>1 DEF MembersLive
  <2>4. ASSUME NEW name \in ChanName, channels[name] # NoChan, NEW m \in On(channels[name]) \ {t}
        PROVE  IF t \in On(channels[name])
               THEN Rest(m, name)' = IF channels[name] \in joined[t]
                                     THEN Rest(m, name) \ {nick[t]} ELSE Rest(m, name)
               ELSE Rest(m, name)' \in {Rest(m, name), Rest(m, name) \ {nick[t]}}
    <3>1. channels[name] \in Chan /\ m \in Client /\ ~hasQuit(m)
      BY <2>4, OnClients DEF ChanInv, ChanTypes, MembersLive, hasQuit
    <3>2. Rest(m, name)' = Reads(m, Friends(t) \ {t}, Rest(m, name), Rest(m, name) \ {nick[t]})
      BY <1>1, <1>4, <3>1, EndReads
    <3>3. CASE t \in On(channels[name])
      <4>1. channels[name] \in joined[t]
        BY <2>2, <3>1, <3>3
      <4>2. m \in Friends(t) \ {t}
        BY <2>4, <4>1 DEF Friends, On
      <4> QED BY <3>1, <3>2, <3>3, <4>1, <4>2 DEF Reads
    <3>4. CASE t \notin On(channels[name])
      BY <3>2, <3>4 DEF Reads
    <3> QED BY <3>3, <3>4
  <2>5. \A name \in ChanName : channels[name] # NoChan =>
          channels[name] \in joined[t] \/ t \notin On(channels[name])
    BY <2>2 DEF ChanInv, ChanTypes
  <2>6. \A name \in ChanName : channels[name] # NoChan =>
           (channels[name] \in joined[t] \/ t \notin On(channels[name]))
             \/ Rest(t, name)' = Rest(t, name)
    BY <2>5
  <2>7. \A name \in ChanName : channels[name] # NoChan =>
           \A m \in On(channels[name]) \ {t} :
             LET o == channels[name]
             IN IF t \in On(o)
                THEN Rest(m, name)' = IF o \in joined[t] THEN Rest(m, name) \ {nick[t]} ELSE Rest(m, name)
                ELSE Rest(m, name)' \in {Rest(m, name), Rest(m, name) \ {nick[t]}}
    BY <2>4
  <2>8. Told'
    BY <1>1, <1>4, <2>1, <2>6, <2>7, QuitTold DEF hasQuit
  <2> QED BY <2>3, <2>8
<1> QED BY <1>3, <1>4

LEMMA EndTold ==
  ASSUME SessInv, ChanInv, MembersLive, Awaited, Told, NEW c \in Client, ToldEnd(c)
  PROVE  MembersLive' /\ Told'
<1>1. CASE Leave(c) /\ Destroy(c) /\ TellEnd(c)
  <2>1. Quit(c, c) /\ UNCHANGED profileVars /\ (hasQuit(c) \/ conn[c] = "open")
    BY <1>1 DEF Leave, CanRun, hasQuit
  <2> QED BY <1>1, <2>1, GoneTold
<1>2. CASE Timeout(c) /\ Destroy(c) /\ TellEnd(c)
  <2>1. Quit(c, NoClient) /\ UNCHANGED profileVars /\ conn[c] = "open"
    BY <1>2 DEF Timeout
  <2> QED BY <1>2, <2>1, GoneTold
<1>3. CASE \E n \in Nick : Kill(c, n) /\ Destroy(Get(nicks, n)) /\ TellEnd(Get(nicks, n))
  <2>1. PICK n \in Nick : Kill(c, n) /\ Destroy(Get(nicks, n)) /\ TellEnd(Get(nicks, n))
    BY <1>3
  <2> DEFINE t == Get(nicks, n)
  <2>2. t \in Client /\ nicks[Fold[n]] = t /\ Fold[n] \in Key
    BY <2>1, SessionsAssumption, GetClient DEF Kill, SessInv, Get
  <2>3. Quit(t, c) /\ UNCHANGED profileVars /\ Destroy(t) /\ TellEnd(t)
    BY <2>1 DEF Kill
  <2> HIDE DEF t
  <2> QED BY <2>2, <2>3, GoneTold
<1> QED BY <1>1, <1>2, <1>3 DEF ToldEnd

(* The other steps: a client that is not registered may get a nickname.    *)
LEMMA SessionKeeps ==
  ASSUME TypeOK, NEW c \in Client, Register(c) \/ Command(c) \/ Connection(c),
         registered[c] => nick' = nick,
         NEW d \in Client, conn[d] = "open", registered[d]
  PROVE  conn'[d] = "open" /\ registered'[d] /\ nick'[d] = nick[d]
<1>1. CASE Register(c)
  <2>1. ~registered[c] /\ OnlyReads(c) /\ d # c
    BY <1>1 DEF Register, Pass, CapLS, CapEnd, NickReg, User, Unregistered
  <2>2. \A x : [nick EXCEPT ![c] = x][d] = nick[d] /\ [registered EXCEPT ![c] = x][d] = registered[d]
    BY <2>1 DEF TypeOK
  <2>3. nick'[d] = nick[d] /\ registered'[d]
    <3>1. CASE CapLS(c) \/ \E code \in {"PASS", "OPER"} : Pass(c, code)
      BY <3>1 DEF Pass, CapLS
    <3>2. CASE CapEnd(c)
      BY <3>2, <2>2 DEF CapEnd, tryRegister
    <3>3. CASE \E n \in Nick : NickReg(c, n)
      BY <3>3, <2>2, ZenonT(60) DEF NickReg, tryRegister
    <3>4. CASE \E flags \in SUBSET (Settable \cap {WallOps, Invisible}) : User(c, flags)
      BY <3>4, <2>2 DEF User, tryRegister
    <3> QED BY <1>1, <3>1, <3>2, <3>3, <3>4 DEF Register
  <2> QED BY <2>1, <2>3, OnlyReadsLive
<1>2. CASE Command(c)
  <2>1. OnlyReads(c) /\ registered' = registered /\ (registered[c] \/ nick' = nick)
    BY <1>2 DEF Command, NoEffect, Oper, NickCmd, OperNick, AwayCmd, ModeCmd, SetModes,
                ChangeNickname, Registered, profileVars
  <2> QED BY <2>1, OnlyReadsLive
<1>3. CASE Connection(c)
  <2>1. registered' = registered /\ nick' = nick
    BY <1>3 DEF Connection, Accept, NewClient, LateLine, LateEOF, profileVars
  <2>2. conn'[d] = "open"
    BY <1>3 DEF Connection, Accept, NewClient, LateLine, LateEOF, TypeOK
  <2> QED BY <2>1, <2>2
<1> QED BY <1>1, <1>2, <1>3

LEMMA OthersKeep ==
  ASSUME TypeOK, NEW c \in Client, Register(c) \/ Command(c) \/ Connection(c),
         registered[c] => nick' = nick, conn[c] # "lame",
         NEW d \in Client, conn[d] = "lame"
  PROVE  conn'[d] = "lame" /\ nick'[d] = nick[d]
<1>1. CASE Register(c)
  <2>1. OnlyReads(c) /\ \A x : [nick EXCEPT ![c] = x][d] = nick[d]
    BY <1>1 DEF Register, Pass, CapLS, CapEnd, NickReg, User, TypeOK
  <2>2. nick'[d] = nick[d]
    BY <1>1, <2>1, ZenonT(60) DEF Register, Pass, CapLS, CapEnd, NickReg, User
  <2> QED BY <2>1, <2>2 DEF OnlyReads, TypeOK
<1>2. CASE Command(c)
  <2>1. OnlyReads(c) /\ (registered[c] \/ nick' = nick)
    BY <1>2 DEF Command, NoEffect, Oper, NickCmd, OperNick, AwayCmd, ModeCmd, SetModes,
                ChangeNickname, Registered, profileVars
  <2> QED BY <2>1 DEF OnlyReads, TypeOK
<1>3. CASE Connection(c)
  BY <1>3 DEF Connection, Accept, NewClient, LateLine, LateEOF, TypeOK, profileVars
<1> QED BY <1>1, <1>2, <1>3

LEMMA UntoldTold ==
  ASSUME SessInv, ChanInv, MembersLive, Awaited, Told, NEW c \in Client, Untold(c)
  PROVE  MembersLive' /\ Told'
<1>1. /\ Register(c) \/ Command(c) \/ Connection(c)
      /\ registered[c] => nick' = nick
      /\ chan' = chan /\ channels' = channels /\ view' = view /\ friends' = friends
      /\ conn[c] # "lame"
  BY DEF Untold, SessionCommand, chanVars
<1>2. \A o \in Chan : \A d \in On(o) :
        d \in Client /\ conn'[d] = "open" /\ registered'[d] /\ nick'[d] = nick[d]
  BY <1>1, OnClients, SessionKeeps DEF MembersLive, SessInv
<1>3. \A o \in Chan : On(o)' = On(o)
  BY <1>1 DEF On
<1>4. MembersLive'
  BY <1>2, <1>3 DEF MembersLive
<1>5. ASSUME NEW name \in ChanName, channels'[name] # NoChan
      PROVE  /\ channels'[name] = channels[name] /\ channels[name] \in Chan
             /\ On(channels[name])' = On(channels[name])
  BY <1>1, <1>3, <1>5 DEF ChanInv, ChanTypes, On
<1>6. ASSUME NEW name \in ChanName, channels[name] # NoChan, NEW m \in On(channels[name])
      PROVE  Rest(m, name)' = Rest(m, name)
  <2>1. \A t \in Client : friends[t] # {} => nick'[t] = nick[t]
    BY <1>1, OthersKeep DEF Awaited, SessInv
  <2> QED BY <1>1, <2>1, SameUnheard DEF Rest
<1>7. Told'
  BY <1>1, <1>2, <1>5, <1>6 DEF Told
<1> QED BY <1>4, <1>7

(* The QUIT that was still to come: who hears of it now knows what it was  *)
(* to be told.                                                             *)
LEMMA LateTold ==
  ASSUME SessInv, ChanInv, MembersLive, Awaited, Told, NEW c \in Client, ToldLate(c)
  PROVE  MembersLive' /\ Told'
<1>1. /\ conn[c] = "lame" /\ registered' = registered /\ nick' = nick
      /\ chan' = chan /\ channels' = channels
      /\ TellQuit(friends[c], c) /\ friends' = [friends EXCEPT ![c] = {}]
  BY DEF ToldLate, LateLine, LateEOF, chanVars, profileVars
<1>2. \A d \in Client : conn[d] = "open" => conn'[d] = "open"
  BY DEF ToldLate, LateLine, LateEOF, SessInv, TypeOK
<1>3. \A o \in Chan : On(o)' = On(o)
  BY <1>1 DEF On
<1>4. MembersLive'
  BY <1>1, <1>2, <1>3, OnClients DEF MembersLive
<1>5. ASSUME NEW name \in ChanName, channels'[name] # NoChan
      PROVE  /\ channels'[name] = channels[name] /\ channels[name] \in Chan
             /\ On(channels[name])' = On(channels[name])
  BY <1>1, <1>3, <1>5 DEF ChanInv, ChanTypes, On
<1>6. ASSUME NEW name \in ChanName, channels[name] # NoChan, NEW m \in On(channels[name])
      PROVE  Rest(m, name)' = Rest(m, name)
  <2>1. m \in Client /\ ~hasQuit(m)
    BY <1>6, OnClients DEF ChanInv, ChanTypes, MembersLive, hasQuit
  <2> DEFINE S == friends[c]
  <2>2. TellQuit(S, c)
    BY <1>1
  <2> HIDE DEF S
  <2>3. view'[m][name] = Reads(m, S, view[m][name], view[m][name] \ {nick[c]})
    BY <2>1, <2>2, TellQuitReads
  <2>4. \A d \in Client : friends'[d] = IF d = c THEN {} ELSE friends[d]
    BY <1>1 DEF Awaited
  <2>5. Unheard(m)' = {nick[d] : d \in {x \in Client : m \in friends'[x]}}
    BY <1>1 DEF Unheard
  <2>6. {x \in Client : m \in friends[x]} =
          IF m \in S THEN {x \in Client : m \in friends'[x]} \cup {c}
          ELSE {x \in Client : m \in friends'[x]}
    BY <2>4 DEF S
  <2>7. Unheard(m) = IF m \in S THEN Unheard(m)' \cup {nick[c]} ELSE Unheard(m)'
    BY <2>5, <2>6 DEF Unheard
  <2> QED BY <2>1, <2>3, <2>7 DEF Reads, Rest
<1>7. Told'
  BY <1>1, <1>5, <1>6 DEF Told
<1> QED BY <1>4, <1>7

LEMMA ViewsInvInit == ViewsInit => ViewsInv
<1> SUFFICES ASSUME ViewsInit PROVE ViewsInv
  OBVIOUS
<1>1. \A o \in Chan : On(o) = {}
  BY DEF ViewsInit, ChannelsInit, NewChannel, On
<1>2. \A name \in ChanName : channels[name] = NoChan
  BY DEF ViewsInit, ChannelsInit
<1>3. Awaited
  BY DEF ViewsInit, Awaited
<1> QED BY <1>1, <1>2, <1>3 DEF ViewsInv, MembersLive, Told

(* Who is in its last Read stays there until ToldLate, and keeps its       *)
(* nickname.                                                               *)
LEMMA AwaitedKept ==
  ASSUME SessInv, ChanInv, Awaited, NEW c \in Client, ~Haunts(c),
         ToldCommand(c) \/ ToldNick(c) \/ ToldEnd(c) \/ ToldLate(c) \/ Untold(c)
  PROVE  Awaited'
<1>1. ASSUME friends' \in [Client -> SUBSET Client],
             \A t \in Client : friends'[t] # {} => conn'[t] = "lame" /\ nick'[t] = nick[t]
      PROVE  Awaited'
  BY <1>1 DEF Awaited, Haunts
<1>2. CASE ToldCommand(c)
  BY <1>1, <1>2 DEF ToldCommand, OnlyReads, NextRead, Registered, CanRun, profileVars,
                    Awaited, SessInv, TypeOK
<1>3. ASSUME NEW t \in Client, NEW n, ChangeNickname(c, t, n), friends' = friends,
             CanRun(c), t = c \/ \E k \in Key : nicks[k] = t
      PROVE  Awaited'
  <2>1. ASSUME NEW d \in Client, friends[d] # {} PROVE d # t /\ d # c /\ conn[d] = "lame"
    <3>1. conn[d] = "lame" /\ Get(nicks, nick[d]) = NoClient /\ d # c
      BY <1>3, <2>1 DEF Awaited, CanRun
    <3>2. CASE \E k \in Key : nicks[k] = t
      BY <3>1, <3>2, SessionsAssumption DEF SessInv, RegistrySound, Get
    <3> QED BY <1>3, <3>1, <3>2
  <2>2. OnlyReads(c) /\ nick' = [nick EXCEPT ![t] = n]
    BY <1>3 DEF ChangeNickname
  <2>3. \A d \in Client : friends[d] # {} => conn'[d] = "lame" /\ nick'[d] = nick[d]
    BY <2>1, <2>2 DEF OnlyReads, SessInv, TypeOK
  <2> QED BY <1>1, <1>3, <2>3 DEF Awaited
<1>4. CASE ToldNick(c)
  <2>1. CASE \E n \in Nick : NickCmd(c, n) /\ TellNick(c, n)
    BY <1>3, <1>4, <2>1 DEF ToldNick, NickCmd, Registered
  <2>2. CASE \E u, n \in Nick : OperNick(c, u, n) /\ TellNick(Get(nicks, u), n)
    <3>1. PICK u \in Nick, n \in Nick : OperNick(c, u, n)
      BY <2>2
    <3> DEFINE t == Get(nicks, u)
    <3>2. ChangeNickname(c, t, n) /\ CanRun(c)
      BY <3>1 DEF OperNick, Registered
    <3>3. t \in Client /\ nicks[Fold[u]] = t /\ Fold[u] \in Key
      BY <3>1, SessionsAssumption, GetClient DEF OperNick, SessInv, Get
    <3> HIDE DEF t
    <3> QED BY <1>3, <1>4, <3>2, <3>3 DEF ToldNick
  <2> QED BY <1>4, <2>1, <2>2 DEF ToldNick
<1>5. ASSUME NEW t \in Client, NEW caller \in Client \cup {NoClient}, Quit(t, caller),
             UNCHANGED profileVars, TellEnd(t),
             caller = NoClient \/ conn[caller] \in {"open", "late"}
      PROVE  Awaited'
  <2>1. nick' = nick
    BY <1>5 DEF profileVars
  <2>2. \A d \in Client : conn[d] = "lame" => conn'[d] = "lame"
    BY <1>5, SessionsAssumption DEF Quit, NextRead, hasQuit, SessInv, TypeOK
  <2>3. Friends(t) \ {t} \in SUBSET Client
    <3>1. joined[t] \in SUBSET Chan
      BY DEF ChanInv, ChanTypes
    <3>2. \A o \in Chan : DOMAIN chan[o].members \subseteq Client
      BY OnClients DEF On
    <3> QED BY <3>1, <3>2 DEF Friends
  <2>4. CASE friends' = friends
    BY <1>1, <2>1, <2>2, <2>4 DEF Awaited
  <2>5. CASE conn'[t] = "lame" /\ friends' = [friends EXCEPT ![t] = Friends(t) \ {t}]
    <3> DEFINE S == Friends(t) \ {t}
    <3>1. S \in SUBSET Client /\ friends' = [friends EXCEPT ![t] = S]
      BY <2>3, <2>5
    <3> HIDE DEF S
    <3>2. friends' \in [Client -> SUBSET Client]
      BY <3>1 DEF Awaited
    <3>3. \A d \in Client : friends'[d] # {} => conn'[d] = "lame"
      BY <2>2, <2>5, <3>1 DEF Awaited
    <3> QED BY <1>1, <2>1, <3>2, <3>3
  <2> QED BY <1>5, <2>4, <2>5 DEF TellEnd
<1>6. CASE ToldEnd(c)
  <2>1. CASE Leave(c) /\ TellEnd(c)
    BY <1>5, <2>1 DEF Leave, CanRun
  <2>2. CASE Timeout(c) /\ TellEnd(c)
    BY <1>5, <2>2 DEF Timeout
  <2>3. CASE \E n \in Nick : Kill(c, n) /\ TellEnd(Get(nicks, n))
    <3>1. PICK n \in Nick : Kill(c, n) /\ TellEnd(Get(nicks, n))
      BY <2>3
    <3> DEFINE t == Get(nicks, n)
    <3>2. t \in Client
      BY <3>1, GetClient DEF Kill, SessInv
    <3>3. Quit(t, c) /\ UNCHANGED profileVars /\ TellEnd(t) /\ conn[c] \in {"open", "late"}
      BY <3>1 DEF Kill, Registered, CanRun
    <3> HIDE DEF t
    <3> QED BY <1>5, <3>2, <3>3
  <2> QED BY <1>6, <2>1, <2>2, <2>3 DEF ToldEnd
<1>7. CASE ToldLate(c)
  <2>1. /\ nick' = nick /\ friends' = [friends EXCEPT ![c] = {}]
        /\ \A d \in Client \ {c} : conn'[d] = conn[d]
    BY <1>7 DEF ToldLate, LateLine, LateEOF, profileVars, SessInv, TypeOK
  <2>2. /\ friends' \in [Client -> SUBSET Client]
        /\ \A d \in Client : friends'[d] = IF d = c THEN {} ELSE friends[d]
    BY <2>1 DEF Awaited
  <2> QED BY <1>1, <2>1, <2>2 DEF Awaited
<1>8. CASE Untold(c)
  <2>1. /\ Register(c) \/ Command(c) \/ Connection(c)
        /\ registered[c] => nick' = nick
        /\ friends' = friends /\ conn[c] # "lame"
    BY <1>8 DEF Untold, SessionCommand
  <2>2. \A d \in Client : conn[d] = "lame" => conn'[d] = "lame" /\ nick'[d] = nick[d]
    BY <2>1, OthersKeep DEF SessInv
  <2> QED BY <1>1, <2>1, <2>2 DEF Awaited
<1> QED BY <1>2, <1>4, <1>6, <1>7, <1>8

LEMMA ViewsInvStep ==
  ASSUME SessInv, ChanInv, ViewsInv, [ViewsNext]_viewVars
  PROVE  ViewsInv'
<1> SUFFICES ASSUME ~haunted' PROVE MembersLive' /\ Awaited' /\ Told'
  BY DEF ViewsInv
<1>1. CASE ViewsNext
  <2>1. PICK c \in Client :
          /\ ToldCommand(c) \/ ToldNick(c) \/ ToldEnd(c) \/ ToldLate(c) \/ Untold(c)
          /\ haunted' = (haunted \/ Haunts(c))
    BY <1>1 DEF ViewsNext
  <2>2. ~haunted /\ ~Haunts(c)
    BY <2>1
  <2>3. MembersLive /\ Awaited /\ Told
    BY <2>2 DEF ViewsInv
  <2>4. ~(conn[c] = "late" /\ (nick' # nick \/ chan' # chan))
    BY <2>2 DEF Haunts
  <2>5. Awaited'
    BY <2>1, <2>2, <2>3, AwaitedKept
  <2> QED BY <2>1, <2>2, <2>3, <2>4, <2>5, CommandTold, NickTold, EndTold, LateTold, UntoldTold
<1>2. CASE UNCHANGED viewVars
  <2>1. /\ haunted' = haunted /\ view' = view /\ friends' = friends /\ conn' = conn
        /\ nicks' = nicks /\ nick' = nick
        /\ registered' = registered /\ chan' = chan /\ channels' = channels
    BY <1>2 DEF viewVars, vars, sessionVars, chanVars, profileVars
  <2>2. MembersLive /\ Awaited /\ Told
    BY <2>1 DEF ViewsInv
  <2> QED BY <2>1, <2>2 DEF MembersLive, Awaited, Told, Rest, Unheard, On, Get
<1> QED BY <1>1, <1>2

(* As long as no line may tell of the wrong client, every live member of a *)
(* channel believes all its members to be there and no others than clients *)
(* whose QUIT it has still to be told of.                                  *)
THEOREM ViewsCorrect == ViewsSpec => []ViewsAgree
<1>1. ViewsSpec => []SessInv
  <2>1. ViewsSpec => Spec
    BY ViewsImplementChannels, ChannelsImplementSessions
  <2> QED BY <2>1, TypeCorrect, RegistryCorrect, SoundCorrect, GateCorrect, PTL DEF SessInv
<1>2. ViewsSpec => []ChanInv
  BY ViewsImplementChannels, ChannelsAlways, PTL
<1>3. SessInv /\ ChanInv /\ ViewsInv /\ [ViewsNext]_viewVars => ViewsInv'
  BY ViewsInvStep
<1>4. ViewsInv => ViewsAgree
  BY DEF ViewsInv, ViewsAgree, Told, Rest, On
<1> QED BY <1>1, <1>2, <1>3, <1>4, ViewsInvInit, PTL DEF ViewsSpec
=============================================================================
