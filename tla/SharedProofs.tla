---------------------------- MODULE SharedProofs ----------------------------
(***************************************************************************)
(* What the interleavings of command handlers keep, at the granularity of  *)
(* the locks and sets they share, for any number of clients: the nickname  *)
(* registry (Lookup), joining and leaving the channels of one name         *)
(* (JoinRace), and the configuration that operators reload (Rehash); and   *)
(* what a list of masks matches (UserMask).                                *)
(***************************************************************************)
EXTENDS Lookup, JoinRace, Rehash, UserMask, SequenceTheorems, FiniteSetTheorems, TLAPS

-----------------------------------------------------------------------------
(* Lookup                                                                  *)

(* A handler gives somebody else's client a nickname or an entry only if   *)
(* it is an ONICK's.                                                       *)
OthersCrossed ==
  \A g \in Client : step[g] \in {"remove", "delete", "rename", "add", "enter"} =>
                      whom[g] = g \/ whom[g] \in crossed

(* Who is about to be renamed by its own reader has no entry any more.     *)
RenamedUnlisted ==
  \A c \in Client \ crossed : step[c] = "rename" /\ whom[c] = c =>
                                \A k \in Key : nicks[k] # c

(* Nobody is given the empty nickname, or an entry without a nickname.     *)
NamesGiven ==
  \A g \in Client : /\ step[g] = "rename" => wanted[g] \in Nick
                    /\ step[g] = "enter" => nick[whom[g]] \in Nick

LookupInv ==
  /\ LookupTypeOK /\ EntrySound /\ OthersCrossed /\ RenamedUnlisted /\ NamesGiven

LEMMA LookupInitial == LookupInit => LookupInv
BY ClientsAssumption, LookupAssumption
   DEF LookupInit, LookupInv, LookupTypeOK, EntrySound, OthersCrossed, RenamedUnlisted, NamesGiven

-----------------------------------------------------------------------------
(* The first step of a handler leaves the registry and the names alone.    *)
LEMMA StartKeeps ==
  ASSUME LookupInv, NEW g \in Client, LookupStart(g)
  PROVE  LookupInv'
<1> USE ClientsAssumption, LookupAssumption DEF LookupInv, LookupTypeOK
<1>1. CASE \E n \in Nick : NickRegTest(g, n)
  BY <1>1 DEF NickRegTest, Begin, Continue, EntrySound, OthersCrossed, RenamedUnlisted, NamesGiven, KeyOf
<1>2. CASE \E n \in Nick : NickTest(g, n)
  BY <1>2 DEF NickTest, Begin, Continue, EntrySound, OthersCrossed, RenamedUnlisted, NamesGiven, KeyOf
<1>3. CASE \E target, n \in Nick : OperNickTarget(g, target, n)
  BY <1>3 DEF OperNickTarget, Begin, Continue, EntrySound, OthersCrossed, RenamedUnlisted, NamesGiven, KeyOf
<1>4. CASE UserInfo(g)
  BY <1>4 DEF UserInfo, Begin, Continue, EntrySound, OthersCrossed, RenamedUnlisted, NamesGiven, KeyOf
<1>5. CASE \E t \in Client : QuitOf(g, t)
  BY <1>5 DEF QuitOf, Begin, Continue, EntrySound, OthersCrossed, RenamedUnlisted, NamesGiven, KeyOf
<1> QED BY <1>1, <1>2, <1>3, <1>4, <1>5 DEF LookupStart

(* An ONICK that goes on excepts its target.                               *)
LEMMA OperNickTestKeeps ==
  ASSUME LookupInv, NEW g \in Client, OperNickTest(g)
  PROVE  LookupInv'
BY ClientsAssumption, LookupAssumption
   DEF LookupInv, LookupTypeOK, OperNickTest, Continue, EntrySound, OthersCrossed,
       RenamedUnlisted, NamesGiven, KeyOf

(* Remove's Get finds the only entry the client can have, if it has one.   *)
LEMMA RemoveTestKeeps ==
  ASSUME LookupInv, NEW g \in Client, RemoveTest(g)
  PROVE  LookupInv'
BY ClientsAssumption, LookupAssumption
   DEF LookupInv, LookupTypeOK, RemoveTest, Removed, Continue, EntrySound, OthersCrossed,
       RenamedUnlisted, NamesGiven, KeyOf

(* The write takes that entry away, or one that somebody else has got      *)
(* there meanwhile.                                                        *)
LEMMA RemoveWriteKeeps ==
  ASSUME LookupInv, NEW g \in Client, RemoveWrite(g)
  PROVE  LookupInv'
<1> USE ClientsAssumption, LookupAssumption DEF LookupInv, LookupTypeOK
<1>1. /\ nicks' \in [Key -> Client \cup {NoClient}]
      /\ \A k \in Key : nicks'[k] = nicks[k] \/ nicks'[k] = NoClient
      /\ \A k \in Key : k = KeyOf(whom[g]) => nicks'[k] = NoClient
      /\ nick' = nick /\ whom' = whom /\ wanted' = wanted /\ crossed' = crossed
  BY DEF RemoveWrite
<1>2. /\ step[g] \in {"delete", "forget"}
      /\ step' = [step EXCEPT ![g] = IF step[g] = "delete" THEN Removed(g) ELSE "read"]
  BY DEF RemoveWrite, Continue
<1>3. LookupTypeOK'
  BY <1>1, <1>2 DEF Removed
<1>4. EntrySound'
  BY <1>1 DEF EntrySound, KeyOf
<1>5. OthersCrossed'
  BY <1>1, <1>2 DEF OthersCrossed, Removed
<1>6. RenamedUnlisted'
  BY <1>1, <1>2 DEF RenamedUnlisted, EntrySound, Removed
<1>7. NamesGiven'
  BY <1>1, <1>2 DEF NamesGiven, Removed
<1> QED BY <1>3, <1>4, <1>5, <1>6, <1>7

LEMMA RenameKeeps ==
  ASSUME LookupInv, NEW g \in Client, Rename(g)
  PROVE  LookupInv'
BY ClientsAssumption, LookupAssumption
   DEF LookupInv, LookupTypeOK, Rename, Continue, EntrySound, OthersCrossed,
       RenamedUnlisted, NamesGiven, KeyOf

LEMMA AddTestKeeps ==
  ASSUME LookupInv, NEW g \in Client, AddTest(g)
  PROVE  LookupInv'
BY ClientsAssumption, LookupAssumption
   DEF LookupInv, LookupTypeOK, AddTest, Continue, EntrySound, OthersCrossed,
       RenamedUnlisted, NamesGiven, KeyOf

LEMMA AddWriteKeeps ==
  ASSUME LookupInv, NEW g \in Client, AddWrite(g)
  PROVE  LookupInv'
BY ClientsAssumption, LookupAssumption
   DEF LookupInv, LookupTypeOK, AddWrite, Continue, EntrySound, OthersCrossed,
       RenamedUnlisted, NamesGiven, KeyOf

LEMMA LookupStutter == LookupInv /\ UNCHANGED lookupVars => LookupInv'
BY DEF lookupVars, LookupInv, LookupTypeOK, EntrySound, OthersCrossed, RenamedUnlisted,
       NamesGiven, KeyOf

-----------------------------------------------------------------------------
(* What every interleaving of the handlers keeps.                          *)
THEOREM LookupInvariant == LookupSpec => []LookupInv
<1>1. LookupInv /\ [LookupNext]_lookupVars => LookupInv'
  BY StartKeeps, OperNickTestKeeps, RemoveTestKeeps, RemoveWriteKeeps, RenameKeeps,
     AddTestKeeps, AddWriteKeeps, LookupStutter DEF LookupNext
<1> QED BY LookupInitial, <1>1, PTL DEF LookupSpec

(* However NICK, USER, ONICK, QUIT and KILL interleave between the reads   *)
(* and writes of ClientLookupSet, an entry leads to a client that has the  *)
(* nickname, unless another's ONICK has renamed it.                        *)
THEOREM EntryCorrect == LookupSpec => []EntrySound
<1>1. LookupInv => EntrySound
  BY DEF LookupInv
<1> QED BY <1>1, LookupInvariant, PTL

-----------------------------------------------------------------------------
(* JoinRace                                                                *)

(* A handler in the middle of joining or leaving has a channel.            *)
ObjSet ==
  \A g \in Client : pos[g] \in {"admit", "enlist", "enter", "count", "crown", "leave", "test",
                                "forget", "mode"} => obj[g] \in Chan

(* EmptyForgotten is not inductive: somebody at admit helps only where the *)
(* channel lets it in.                                                     *)
Helpers == {g \in Client : /\ obj[g] = registered
                           /\ \/ pos[g] \in {"enlist", "enter", "test", "forget"}
                              \/ pos[g] = "admit" /\ registered \notin closed}

EmptyHelped ==
  registered # NoChan /\ members[registered] = {} /\ registered \notin shut => Helpers # {}

(* Who is marked creator, or found itself alone and is about to be marked. *)
(* Only a member counts: one that was removed meanwhile is not marked.     *)
Crowned(c, o) == c \in founders[o] \/ (pos[c] = "crown" /\ obj[c] = o)

OneCrown ==
  \A o \in Chan : /\ founders[o] \subseteq members[o]
                  /\ \A c, d \in members[o] : Crowned(c, o) /\ Crowned(d, o) => c = d

(* client.channels is never behind channel.members.                        *)
MembersListed ==
  \A c \in Client : /\ \A o \in Chan : c \in members[o] => o \in joined[c]
                    /\ pos[c] = "enter" => obj[c] \in joined[c]

(* A client is destroyed once, by one goroutine.                           *)
Walkers ==
  /\ destroyed \subseteq hasQuit
  /\ \A g \in Client : pos[g] = "walk" => g \in walking
  /\ \A g \in walking : /\ pos[g] \in {"walk", "leave", "test", "forget"}
                        /\ who[g] \in hasQuit /\ who[g] \notin destroyed
  /\ \A g, h \in walking : who[g] = who[h] => g = h

(* Whatever channel a client that has quit is still in, its destroy has    *)
(* not come to yet, or the client entered it late.                         *)
Awaits(g, c, o) == who[g] = c /\ (o \in rest[g] \/ (pos[g] = "leave" /\ obj[g] = o))

ToLeave ==
  \A c \in hasQuit, o \in Chan :
    c \in members[o] => <<c, o>> \in late \/ \E g \in walking : Awaits(g, c, o)

JoinInv ==
  /\ JoinTypeOK /\ ObjSet /\ EmptyHelped /\ OneCrown /\ MembersListed /\ Walkers /\ ToLeave

LEMMA JoinInitial == JoinInit => JoinInv
<1> SUFFICES ASSUME JoinInit PROVE JoinInv
  OBVIOUS
<1> USE JoinRaceAssumption DEF JoinInit
<1>1. panicked \in BOOLEAN
  OBVIOUS
<1>2. JoinTypeOK
  BY <1>1 DEF JoinTypeOK
<1>3. ObjSet /\ EmptyHelped /\ OneCrown /\ MembersListed /\ Walkers /\ ToLeave
  BY DEF ObjSet, EmptyHelped, Helpers, OneCrown, Crowned, MembersListed, Walkers, ToLeave
<1> QED BY <1>2, <1>3 DEF JoinInv

LEMMA JoinStutter == JoinInv /\ UNCHANGED joinVars => JoinInv'
BY DEF joinVars, JoinInv, JoinTypeOK, ObjSet, EmptyHelped, Helpers, OneCrown, Crowned, MembersListed,
       Walkers, ToLeave, Awaits

-----------------------------------------------------------------------------
(* Get of the registered channel.                                          *)
LEMMA JoinGetKeeps ==
  ASSUME JoinInv, NEW g \in Client, JoinGet(g)
  PROVE  JoinInv'
<1> USE JoinRaceAssumption DEF JoinInv, JoinTypeOK, JoinGet, On, Move, setVars, quitVars, doorVars
<1>1. JoinTypeOK'
  BY DEF ObjSet
<1>2. ObjSet'
  BY DEF ObjSet
<1>3. EmptyHelped'
  BY DEF EmptyHelped, Helpers, ObjSet
<1>4. OneCrown'
  BY DEF OneCrown, Crowned, ObjSet
<1>5. MembersListed'
  BY DEF MembersListed, ObjSet
<1>6. Walkers'
  BY DEF Walkers
<1>7. ToLeave'
  BY DEF ToLeave, Awaits, MembersListed, Walkers, ObjSet
<1> QED BY <1>1, <1>2, <1>3, <1>4, <1>5, <1>6, <1>7

(* A new channel: it is registered with its maker on the way in.           *)
LEMMA JoinNewKeeps ==
  ASSUME JoinInv, NEW g \in Client, NEW o \in Chan, JoinNew(g, o)
  PROVE  JoinInv'
<1> USE JoinRaceAssumption DEF JoinInv, JoinTypeOK, JoinNew, On, Move, setVars, quitVars, doorVars
<1>1. JoinTypeOK'
  BY DEF ObjSet
<1>2. ObjSet'
  BY DEF ObjSet
<1>3. EmptyHelped'
  BY DEF EmptyHelped, Helpers, ObjSet
<1>4. OneCrown'
  BY DEF OneCrown, Crowned, ObjSet
<1>5. MembersListed'
  BY DEF MembersListed, ObjSet
<1>6. Walkers'
  BY DEF Walkers
<1>7. ToLeave'
  BY DEF ToLeave, Awaits, MembersListed, Walkers, ObjSet
<1> QED BY <1>1, <1>2, <1>3, <1>4, <1>5, <1>6, <1>7

(* Only a channel with members or a closed one refuses.                    *)
LEMMA JoinAdmitKeeps ==
  ASSUME JoinInv, NEW g \in Client, NEW admitted \in BOOLEAN, JoinAdmit(g, admitted)
  PROVE  JoinInv'
<1> USE JoinRaceAssumption DEF JoinInv, JoinTypeOK, JoinAdmit, On, Move, Finish, setVars, quitVars, doorVars
<1>1. JoinTypeOK'
  BY DEF ObjSet
<1>2. ObjSet'
  BY DEF ObjSet
<1>3. EmptyHelped'
  BY DEF EmptyHelped, Helpers, ObjSet
<1>4. OneCrown'
  BY DEF OneCrown, Crowned, ObjSet
<1>5. MembersListed'
  BY DEF MembersListed, ObjSet
<1>6. Walkers'
  BY DEF Walkers
<1>7. ToLeave'
  BY DEF ToLeave, Awaits, MembersListed, Walkers, ObjSet
<1> QED BY <1>1, <1>2, <1>3, <1>4, <1>5, <1>6, <1>7

LEMMA JoinEnlistKeeps ==
  ASSUME JoinInv, NEW g \in Client, JoinEnlist(g)
  PROVE  JoinInv'
<1> USE JoinRaceAssumption DEF JoinInv, JoinTypeOK, JoinEnlist, On, Move, setVars, quitVars, doorVars
<1>1. JoinTypeOK'
  BY DEF ObjSet
<1>2. ObjSet'
  BY DEF ObjSet
<1>3. EmptyHelped'
  BY DEF EmptyHelped, Helpers, ObjSet
<1>4. OneCrown'
  BY DEF OneCrown, Crowned, ObjSet
<1>5. MembersListed'
  BY DEF MembersListed, ObjSet
<1>6. Walkers'
  BY DEF Walkers
<1>7. ToLeave'
  BY DEF ToLeave, Awaits, MembersListed, Walkers, ObjSet
<1> QED BY <1>1, <1>2, <1>3, <1>4, <1>5, <1>6, <1>7

(* Who enters after it has quit is late.                                   *)
LEMMA JoinEnterKeeps ==
  ASSUME JoinInv, NEW g \in Client, JoinEnter(g)
  PROVE  JoinInv'
<1> USE JoinRaceAssumption DEF JoinInv, JoinTypeOK, JoinEnter, On, Move, setVars, quitVars, doorVars
<1>1. JoinTypeOK'
  BY DEF ObjSet
<1>2. ObjSet'
  BY DEF ObjSet
<1>3. EmptyHelped'
  <2>1. CASE registered = obj[g]
    BY <2>1 DEF EmptyHelped, Helpers, ObjSet
  <2>2. CASE registered # obj[g]
    <3>1. registered # NoChan => members'[registered] = members[registered]
      BY <2>2
    <3>2. \A h \in Client : obj[h] = registered => pos'[h] = pos[h]
      BY <2>2
    <3> QED BY <3>1, <3>2 DEF EmptyHelped, Helpers
  <2> QED BY <2>1, <2>2
<1>4. OneCrown'
  BY DEF OneCrown, Crowned, ObjSet
<1>5. MembersListed'
  BY DEF MembersListed, ObjSet
<1>6. Walkers'
  BY DEF Walkers
<1>7. ToLeave'
  BY DEF ToLeave, Awaits, MembersListed, Walkers, ObjSet
<1> QED BY <1>1, <1>2, <1>3, <1>4, <1>5, <1>6, <1>7

(* Who finds one member finds itself, or is not a member any more.         *)
LEMMA JoinCountKeeps ==
  ASSUME JoinInv, NEW g \in Client, JoinCount(g)
  PROVE  JoinInv'
<1> USE JoinRaceAssumption DEF JoinInv, JoinTypeOK, JoinCount, On, Move, Finish, setVars, quitVars, doorVars
<1>1. JoinTypeOK'
  BY DEF ObjSet
<1>2. ObjSet'
  BY DEF ObjSet
<1>3. EmptyHelped'
  BY DEF EmptyHelped, Helpers, ObjSet
<1>4. OneCrown'
  BY DEF OneCrown, Crowned, ObjSet
<1>5. MembersListed'
  BY DEF MembersListed, ObjSet
<1>6. Walkers'
  BY DEF Walkers
<1>7. ToLeave'
  BY DEF ToLeave, Awaits, MembersListed, Walkers, ObjSet
<1> QED BY <1>1, <1>2, <1>3, <1>4, <1>5, <1>6, <1>7

LEMMA JoinCrownKeeps ==
  ASSUME JoinInv, NEW g \in Client, JoinCrown(g)
  PROVE  JoinInv'
<1> USE JoinRaceAssumption DEF JoinInv, JoinTypeOK, JoinCrown, On, Move, Finish, setVars, quitVars, doorVars
<1>1. JoinTypeOK'
  <2>1. panicked' \in BOOLEAN
    OBVIOUS
  <2> QED BY <2>1 DEF ObjSet
<1>2. ObjSet'
  BY DEF ObjSet
<1>3. EmptyHelped'
  BY DEF EmptyHelped, Helpers, ObjSet
<1>4. OneCrown'
  BY DEF OneCrown, Crowned, ObjSet
<1>5. MembersListed'
  BY DEF MembersListed, ObjSet
<1>6. Walkers'
  BY SMTT(30) DEF Walkers
<1>7. ToLeave'
  BY SMTT(30) DEF ToLeave, Awaits, MembersListed, Walkers, ObjSet
<1> QED BY <1>1, <1>2, <1>3, <1>4, <1>5, <1>6, <1>7

LEMMA PartOrKickKeeps ==
  ASSUME JoinInv, NEW g \in Client, NEW t \in Client, NEW o \in Chan, PartOrKick(g, t, o)
  PROVE  JoinInv'
<1> USE JoinRaceAssumption DEF JoinInv, JoinTypeOK, PartOrKick, On, Move, setVars, quitVars, doorVars
<1>1. JoinTypeOK'
  BY DEF ObjSet
<1>2. ObjSet'
  BY DEF ObjSet
<1>3. EmptyHelped'
  BY DEF EmptyHelped, Helpers, ObjSet
<1>4. OneCrown'
  BY DEF OneCrown, Crowned, ObjSet
<1>5. MembersListed'
  BY DEF MembersListed, ObjSet
<1>6. Walkers'
  BY DEF Walkers
<1>7. ToLeave'
  BY DEF ToLeave, Awaits, MembersListed, Walkers, ObjSet
<1> QED BY <1>1, <1>2, <1>3, <1>4, <1>5, <1>6, <1>7

(* destroy is to leave every channel the client is in.                     *)
LEMMA QuitStartsKeeps ==
  ASSUME JoinInv, NEW g \in Client, NEW t \in Client, QuitStarts(g, t)
  PROVE  JoinInv'
<1> USE JoinRaceAssumption DEF JoinInv, JoinTypeOK, QuitStarts, On, Move, setVars, quitVars, doorVars
<1>1. JoinTypeOK'
  BY DEF ObjSet
<1>2. ObjSet'
  BY DEF ObjSet
<1>3. EmptyHelped'
  BY DEF EmptyHelped, Helpers, ObjSet
<1>4. OneCrown'
  BY DEF OneCrown, Crowned, ObjSet
<1>5. MembersListed'
  BY DEF MembersListed, ObjSet
<1>6. Walkers'
  BY DEF Walkers
<1>7. ToLeave'
  BY SMTT(30) DEF ToLeave, Awaits, MembersListed, Walkers, ObjSet
<1> QED BY <1>1, <1>2, <1>3, <1>4, <1>5, <1>6, <1>7

LEMMA WalkKeeps ==
  ASSUME JoinInv, NEW g \in Client, NEW o \in Chan, Walk(g, o)
  PROVE  JoinInv'
<1> USE JoinRaceAssumption DEF JoinInv, JoinTypeOK, Walk, On, Move, setVars, quitVars, doorVars
<1>1. JoinTypeOK'
  BY DEF ObjSet
<1>2. ObjSet'
  BY DEF ObjSet
<1>3. EmptyHelped'
  BY DEF EmptyHelped, Helpers, ObjSet
<1>4. OneCrown'
  BY DEF OneCrown, Crowned, ObjSet
<1>5. MembersListed'
  BY DEF MembersListed, ObjSet
<1>6. Walkers'
  BY DEF Walkers
<1>7. ToLeave'
  BY DEF ToLeave, Awaits, MembersListed, Walkers, ObjSet
<1> QED BY <1>1, <1>2, <1>3, <1>4, <1>5, <1>6, <1>7

LEMMA WalkEndsKeeps ==
  ASSUME JoinInv, NEW g \in Client, WalkEnds(g)
  PROVE  JoinInv'
<1> USE JoinRaceAssumption DEF JoinInv, JoinTypeOK, WalkEnds, On, Move, setVars, quitVars, doorVars
<1>1. JoinTypeOK'
  BY DEF ObjSet
<1>2. ObjSet'
  BY DEF ObjSet
<1>3. EmptyHelped'
  BY DEF EmptyHelped, Helpers, ObjSet
<1>4. OneCrown'
  BY DEF OneCrown, Crowned, ObjSet
<1>5. MembersListed'
  BY DEF MembersListed, ObjSet
<1>6. Walkers'
  BY DEF Walkers
<1>7. ToLeave'
  BY DEF ToLeave, Awaits, MembersListed, Walkers, ObjSet
<1> QED BY <1>1, <1>2, <1>3, <1>4, <1>5, <1>6, <1>7

LEMMA LeaveKeeps ==
  ASSUME JoinInv, NEW g \in Client, Leave(g)
  PROVE  JoinInv'
<1> USE JoinRaceAssumption DEF JoinInv, JoinTypeOK, Leave, On, Move, setVars, quitVars, doorVars
<1>1. JoinTypeOK'
  BY DEF ObjSet
<1>2. ObjSet'
  BY DEF ObjSet
<1>3. EmptyHelped'
  BY DEF EmptyHelped, Helpers, ObjSet
<1>4. OneCrown'
  BY DEF OneCrown, Crowned, ObjSet
<1>5. MembersListed'
  BY DEF MembersListed, ObjSet
<1>6. Walkers'
  BY DEF Walkers
<1>7. ToLeave'
  BY DEF ToLeave, Awaits, MembersListed, Walkers, ObjSet
<1> QED BY <1>1, <1>2, <1>3, <1>4, <1>5, <1>6, <1>7

(* A channel that is not empty has members, one that is will be forgotten. *)
LEMMA LeaveTestKeeps ==
  ASSUME JoinInv, NEW g \in Client, LeaveTest(g)
  PROVE  JoinInv'
<1> USE JoinRaceAssumption DEF JoinInv, JoinTypeOK, LeaveTest, On, Move, Left, Finish, setVars, quitVars, doorVars
<1>1. JoinTypeOK'
  BY DEF ObjSet
<1>2. ObjSet'
  BY DEF ObjSet
<1>3. EmptyHelped'
  BY DEF EmptyHelped, Helpers, ObjSet
<1>4. OneCrown'
  BY DEF OneCrown, Crowned, ObjSet
<1>5. MembersListed'
  BY DEF MembersListed, ObjSet
<1>6. Walkers'
  BY DEF Walkers
<1>7. ToLeave'
  BY DEF ToLeave, Awaits, MembersListed, Walkers, ObjSet
<1> QED BY <1>1, <1>2, <1>3, <1>4, <1>5, <1>6, <1>7

LEMMA LeaveForgetsKeeps ==
  ASSUME JoinInv, NEW g \in Client, LeaveForgets(g)
  PROVE  JoinInv'
<1> USE JoinRaceAssumption DEF JoinInv, JoinTypeOK, LeaveForgets, On, Move, Left, Finish, setVars, quitVars, doorVars
<1>1. JoinTypeOK'
  BY DEF ObjSet
<1>2. ObjSet'
  BY DEF ObjSet
<1>3. EmptyHelped'
  BY DEF EmptyHelped, Helpers, ObjSet
<1>4. OneCrown'
  BY DEF OneCrown, Crowned, ObjSet
<1>5. MembersListed'
  BY DEF MembersListed, ObjSet
<1>6. Walkers'
  BY DEF Walkers
<1>7. ToLeave'
  BY DEF ToLeave, Awaits, MembersListed, Walkers, ObjSet
<1> QED BY <1>1, <1>2, <1>3, <1>4, <1>5, <1>6, <1>7

(* MODE that closes or opens a channel, with or without members.           *)
LEMMA ModeKeeps ==
  ASSUME JoinInv, NEW g \in Client, ModeStep(g)
  PROVE  JoinInv'
<1> USE JoinRaceAssumption
    DEF JoinInv, JoinTypeOK, ModeStep, ModeGet, ModeCloses, ModeOpens, On, Move, Finish,
        setVars, quitVars, doorVars
<1>1. JoinTypeOK'
  BY DEF ObjSet
<1>2. ObjSet'
  BY DEF ObjSet
<1>3. EmptyHelped'
  BY DEF EmptyHelped, Helpers, ObjSet
<1>4. OneCrown'
  BY DEF OneCrown, Crowned, ObjSet
<1>5. MembersListed'
  BY DEF MembersListed, ObjSet
<1>6. Walkers'
  BY DEF Walkers
<1>7. ToLeave'
  BY DEF ToLeave, Awaits, MembersListed, Walkers, ObjSet
<1> QED BY <1>1, <1>2, <1>3, <1>4, <1>5, <1>6, <1>7

-----------------------------------------------------------------------------
(* What every interleaving of joins, parts, kicks and kills keeps.         *)
THEOREM JoinInvariant == JoinSpec => []JoinInv
<1>1. JoinInv /\ [JoinNext]_joinVars => JoinInv'
  BY JoinGetKeeps, JoinNewKeeps, JoinAdmitKeeps, JoinEnlistKeeps, JoinEnterKeeps, JoinCountKeeps,
     JoinCrownKeeps, PartOrKickKeeps, QuitStartsKeeps, WalkKeeps, WalkEndsKeeps, LeaveKeeps,
     LeaveTestKeeps, LeaveForgetsKeeps, ModeKeeps, JoinStutter DEF JoinNext, JoinStep, LeaveStep
<1> QED BY JoinInitial, <1>1, PTL DEF JoinSpec

(* No channel stays registered without members when nobody is in the       *)
(* middle of joining or leaving it, unless a MODE closed it while it had   *)
(* none.                                                                   *)
THEOREM EmptyCorrect == JoinSpec => []EmptyForgotten
<1>1. JoinInv => EmptyForgotten
  BY DEF JoinInv, EmptyHelped, Helpers, EmptyForgotten
<1> QED BY <1>1, JoinInvariant, PTL

(* destroy leaves every channel although the client's own reader goes on   *)
(* joining.                                                                *)
THEOREM DestroyCorrect == JoinSpec => []DestroyLeavesAll
<1>1. JoinInv => DestroyLeavesAll
  BY DEF JoinInv, JoinTypeOK, ToLeave, Awaits, Walkers, DestroyLeavesAll
<1> QED BY <1>1, JoinInvariant, PTL

(* Two members are never both marked creator.                              *)
THEOREM FounderCorrect == JoinSpec => []OneFounder
<1>1. JoinInv => OneFounder
  BY DEF JoinInv, JoinTypeOK, OneCrown, Crowned, OneFounder
<1> QED BY <1>1, JoinInvariant, PTL

-----------------------------------------------------------------------------
(* Rehash                                                                  *)

Copied == {"motd", "name", "network", "description", "operators"}

(* A value fit for the setting it is copied to.                            *)
Kept(operators) == DOMAIN InitFile.operators \subseteq DOMAIN operators
Decoded(operators) == \A o \in DOMAIN operators : operators[o] # Undecoded
Fit(s, v) ==
  /\ s = "name" => v \in Hostnames
  /\ s = "network" => v # Unset
  /\ s = "operators" => Kept(v) /\ Decoded(v)

(* The shared Config may hold a password that does not decode: then the    *)
(* process ends before it is copied.                                       *)
ConfigFit ==
  /\ DOMAIN config = Copied
  /\ config["name"] \in Hostnames /\ config["network"] # Unset /\ Kept(config["operators"])

ServerFit ==
  /\ server = [s \in Copied |-> server[s]]
  /\ \A s \in Copied : Fit(s, server[s])

CopiesFit ==
  /\ rehash \in [Client -> {"read", "copy", "assign"}]
  /\ DOMAIN copied = Client /\ DOMAIN setting = Client
  /\ \A g \in Client : rehash[g] = "assign" => Fit(Settings[setting[g]], copied[g])

RehashInv == ConfigFit /\ ServerFit /\ CopiesFit

LEMMA FitIsIdentity == ServerFit => IdentityKept
BY DEF ServerFit, Fit, Kept, Decoded, IdentityKept, Copied

LEMMA RehashInitial == RehashInit => RehashInv
<1> SUFFICES ASSUME RehashInit PROVE RehashInv
  OBVIOUS
<1>1. /\ file.name \in Hostnames /\ file.network # Unset
      /\ Kept(file.operators) /\ Decoded(file.operators)
  BY DEF RehashInit, Loads, Kept, Decoded
<1>2. config = [s \in Copied |-> file[s]] /\ server = [s \in Copied |-> file[s]]
  BY DEF RehashInit, Copies, Copied, Strings
<1>3. ConfigFit
  BY <1>1, <1>2 DEF ConfigFit, Copied
<1>4. ServerFit
  BY <1>1, <1>2 DEF ServerFit, Fit, Copied
<1>5. CopiesFit
  BY DEF RehashInit, CopiesFit
<1> QED BY <1>3, <1>4, <1>5 DEF RehashInv

-----------------------------------------------------------------------------
(* Merging a file that loads takes neither name nor network nor operator   *)
(* away.                                                                   *)
LEMMA MergeFit ==
  ASSUME ConfigFit, NEW f, Loads(f), config' = MergeWithOverwrite(config, f)
  PROVE  ConfigFit'
<1>1. DOMAIN config' = Copied
  BY DEF MergeWithOverwrite, ConfigFit
<1>2. config'["name"] = f["name"] /\ f["name"] \in Hostnames
  BY DEF MergeWithOverwrite, ConfigFit, Loads, Strings, Copied
<1>3. config'["network"] = f["network"] /\ f["network"] # Unset
  BY DEF MergeWithOverwrite, ConfigFit, Loads, Strings, Copied
<1>4. DOMAIN (config["operators"]) \subseteq DOMAIN (config'["operators"])
  BY DEF MergeWithOverwrite, ConfigFit, Copied
<1> QED BY <1>1, <1>2, <1>3, <1>4 DEF ConfigFit, Kept

LEMMA ReloadKeeps ==
  ASSUME RehashInv, NEW g \in Client, Reload(g)
  PROVE  RehashInv'
<1>1. ConfigFit'
  <2>1. CASE Loads(file)
    BY <2>1, MergeFit DEF RehashInv, Reload
  <2>2. CASE ~Loads(file)
    BY <2>2 DEF RehashInv, ConfigFit, Reload
  <2> QED BY <2>1, <2>2
<1>2. ServerFit'
  BY DEF RehashInv, ServerFit, Fit, Kept, Decoded, Reload
<1>3. CopiesFit'
  BY DEF RehashInv, CopiesFit, Reload, At, Fit, Kept, Decoded
<1> QED BY <1>1, <1>2, <1>3 DEF RehashInv

(* The operators are copied only if every password decodes.                *)
LEMMA CopyKeeps ==
  ASSUME RehashInv, NEW g \in Client, Copy(g)
  PROVE  RehashInv'
<1>1. ConfigFit' /\ ServerFit'
  BY DEF RehashInv, ConfigFit, ServerFit, Fit, Kept, Decoded, Copy
<1>2. CopiesFit'
  <2> DEFINE s == Settings[setting[g]]
  <2>1. CASE exited' = TRUE /\ UNCHANGED <<copied, rehash>>
    BY <2>1 DEF RehashInv, CopiesFit, Copy, Fit, Kept, Decoded
  <2>2. CASE /\ ~(s = "operators" /\ \E o \in DOMAIN (config["operators"]) : config["operators"][o] = Undecoded)
             /\ copied' = [copied EXCEPT ![g] = config[s]]
             /\ rehash' = [rehash EXCEPT ![g] = "assign"]
    <3>1. Fit(s, config[s])
      BY <2>2 DEF RehashInv, ConfigFit, Fit, Kept, Decoded
    <3>2. setting' = setting
      BY DEF Copy
    <3>3. \A h \in Client : rehash'[h] = "assign" => Fit(Settings[setting[h]], copied'[h])
      BY <2>2, <3>1 DEF RehashInv, CopiesFit
    <3> QED BY <2>2, <3>2, <3>3 DEF RehashInv, CopiesFit, Fit, Kept, Decoded
  <2> QED BY <2>1, <2>2 DEF Copy
<1> QED BY <1>1, <1>2 DEF RehashInv

(* What was fit when it was read is written, however old it is by now.     *)
LEMMA AssignKeeps ==
  ASSUME RehashInv, NEW g \in Client, Assign(g)
  PROVE  RehashInv'
<1>1. ConfigFit'
  BY DEF RehashInv, ConfigFit, Kept, Assign
<1>2. ServerFit'
  <2> DEFINE s == Settings[setting[g]]
  <2>1. server' = [server EXCEPT ![s] = copied[g]] /\ Fit(s, copied[g])
    BY DEF RehashInv, CopiesFit, Assign, At
  <2>2. server' = [t \in Copied |-> server'[t]]
    BY <2>1 DEF RehashInv, ServerFit
  <2>3. \A t \in Copied : Fit(t, server'[t])
    BY <2>1 DEF RehashInv, ServerFit
  <2> QED BY <2>2, <2>3 DEF ServerFit, Fit, Kept, Decoded
<1>3. CopiesFit'
  <2>1. /\ \E p \in {"read", "copy"} : rehash' = [rehash EXCEPT ![g] = p]
        /\ DOMAIN copied' = Client /\ DOMAIN setting' = Client
        /\ \A h \in Client : h # g => copied'[h] = copied[h] /\ setting'[h] = setting[h]
    BY DEF RehashInv, CopiesFit, Assign
  <2> QED BY <2>1 DEF RehashInv, CopiesFit, Fit, Kept, Decoded
<1> QED BY <1>1, <1>2, <1>3 DEF RehashInv

(* Edits of the file touch nothing of the server.                          *)
LEMMA EditKeeps ==
  ASSUME RehashInv, UNCHANGED <<config, server, rehash, setting, copied>>
  PROVE  RehashInv'
BY DEF RehashInv, ConfigFit, ServerFit, CopiesFit, Fit, Kept, Decoded

-----------------------------------------------------------------------------
(* What every interleaving of REHASHes and edits keeps.                    *)
THEOREM RehashInvariant == RehashSpec => []RehashInv
<1>1. RehashInv /\ [RehashNext]_rehashVars => RehashInv'
  BY ReloadKeeps, CopyKeeps, AssignKeeps, EditKeeps DEF RehashNext, Edit, rehashVars
<1> QED BY RehashInitial, <1>1, PTL DEF RehashSpec

(* No file and no interleaving of REHASHes takes the server's name, its    *)
(* network or one of its first operators away, or gives it a password that *)
(* does not decode.                                                        *)
THEOREM IdentityCorrect == RehashSpec => []IdentityKept
<1>1. RehashInv => IdentityKept
  BY FitIsIdentity DEF RehashInv
<1> QED BY <1>1, RehashInvariant, PTL

-----------------------------------------------------------------------------
(* What a REHASH has copied.  As long as Reloads do not overlap only one   *)
(* goroutine is in Rehash, and the settings it has passed are those of the *)
(* configuration, which nobody reloads meanwhile.                          *)
Busy(g) == rehash[g] # "read"

Passed(g) ==
  /\ \A i \in 1 .. 5 : i < setting[g] => server[Settings[i]] = config[Settings[i]]
  /\ rehash[g] = "assign" => copied[g] = config[Settings[setting[g]]]

OneByOne ==
  ~overlapped => /\ \A g, h \in Client : Busy(g) /\ Busy(h) => g = h
                 /\ \A g \in Client : Busy(g) => Passed(g)

SettingsTypeOK ==
  /\ config = [s \in Copied |-> config[s]] /\ server = [s \in Copied |-> server[s]]
  /\ setting \in [Client -> 1 .. 5]
  /\ rehash \in [Client -> {"read", "copy", "assign"}]
  /\ DOMAIN copied = Client

SettleInv == SettingsTypeOK /\ OneByOne /\ SettledConfig

(* The five settings, each copied at its turn.                             *)
LEMMA SettingNames ==
  /\ Len(Settings) = 5
  /\ \A i \in 1 .. 5 : Settings[i] \in Copied
  /\ \A i, j \in 1 .. 5 : Settings[i] = Settings[j] => i = j
  /\ \A s \in Copied : \E i \in 1 .. 5 : s = Settings[i]
BY DEF Settings, Copied

LEMMA SettleInitial == RehashInit => SettleInv
<1> SUFFICES ASSUME RehashInit PROVE SettleInv
  OBVIOUS
<1>1. config = [s \in Copied |-> file[s]] /\ server = [s \in Copied |-> file[s]]
  BY DEF RehashInit, Copies, Copied, Strings
<1>2. \A g \in Client : rehash[g] = "read"
  BY DEF RehashInit
<1>3. SettingsTypeOK
  BY <1>1 DEF RehashInit, SettingsTypeOK
<1> QED BY <1>1, <1>2, <1>3 DEF SettleInv, OneByOne, Busy, SettledConfig

LEMMA ReloadSettles ==
  ASSUME SettleInv, NEW g \in Client, Reload(g)
  PROVE  SettleInv'
<1>1. /\ rehash' = [rehash EXCEPT ![g] = "copy"] /\ setting' = [setting EXCEPT ![g] = 1]
      /\ server' = server /\ copied' = copied
      /\ (overlapped' <=> \E h \in Client : Busy(h))
  BY DEF Reload, Busy
<1>2. SettingsTypeOK'
  <2>1. config = [s \in Copied |-> config[s]] /\ DOMAIN config = Copied
    BY DEF SettleInv, SettingsTypeOK
  <2>2. config' = [s \in Copied |-> config'[s]]
    <3>1. CASE config' = config
      BY <2>1, <3>1
    <3>2. CASE config' = MergeWithOverwrite(config, file)
      BY <2>1, <3>2 DEF MergeWithOverwrite
    <3> QED BY <3>1, <3>2 DEF Reload
  <2> QED BY <1>1, <2>2 DEF SettleInv, SettingsTypeOK
<1>3. OneByOne'
  <2> SUFFICES ASSUME ~overlapped'
               PROVE  /\ \A h \in Client : Busy(h)' => h = g
                      /\ Passed(g)'
    BY DEF OneByOne
  <2>1. \A h \in Client : h # g => rehash'[h] = "read"
    BY <1>1 DEF SettleInv, SettingsTypeOK, Busy
  <2>2. setting'[g] = 1 /\ rehash'[g] = "copy"
    BY <1>1 DEF SettleInv, SettingsTypeOK
  <2> QED BY <2>1, <2>2 DEF Busy, Passed
<1>4. SettledConfig'
  <2>1. rehash'[g] = "copy"
    BY <1>1 DEF SettleInv, SettingsTypeOK
  <2> QED BY <2>1 DEF SettledConfig
<1> QED BY <1>2, <1>3, <1>4 DEF SettleInv

LEMMA CopySettles ==
  ASSUME SettleInv, NEW g \in Client, Copy(g)
  PROVE  SettleInv'
<1>1. /\ UNCHANGED <<config, server, setting>> /\ (overlapped' <=> overlapped)
      /\ rehash[g] = "copy"
  BY DEF Copy, At
<1>2. \/ copied' = copied /\ rehash' = rehash
      \/ /\ copied' = [copied EXCEPT ![g] = config[Settings[setting[g]]]]
         /\ rehash' = [rehash EXCEPT ![g] = "assign"]
  BY DEF Copy
<1>3. SettingsTypeOK'
  BY <1>1, <1>2 DEF SettleInv, SettingsTypeOK
<1>4. /\ \A h \in Client : Busy(h)' <=> Busy(h)
      /\ \A h \in Client : h # g => copied'[h] = copied[h] /\ rehash'[h] = rehash[h]
      /\ rehash'[g] = "assign" => copied'[g] = config[Settings[setting[g]]]
  BY <1>1, <1>2 DEF SettleInv, SettingsTypeOK, Busy
<1>5. OneByOne'
  BY <1>1, <1>4 DEF SettleInv, OneByOne, Passed
<1>6. SettledConfig'
  BY <1>1, <1>4 DEF SettledConfig, Busy
<1> QED BY <1>3, <1>5, <1>6 DEF SettleInv

(* The value written is the configuration's own, unless Reloads overlap.   *)
LEMMA AssignSettles ==
  ASSUME SettleInv, NEW g \in Client, Assign(g)
  PROVE  SettleInv'
<1> DEFINE last == setting[g] = 5
<1>1. /\ config' = config /\ (overlapped' <=> overlapped)
      /\ rehash[g] = "assign" /\ setting[g] \in 1 .. 5
      /\ server' = [server EXCEPT ![Settings[setting[g]]] = copied[g]]
      /\ copied' = [copied EXCEPT ![g] = Unset]
      /\ rehash' = [rehash EXCEPT ![g] = IF last THEN "read" ELSE "copy"]
      /\ setting' = [setting EXCEPT ![g] = IF last THEN 1 ELSE setting[g] + 1]
  BY SettingNames DEF Assign, At, SettleInv, SettingsTypeOK
<1>2. SettingsTypeOK'
  BY <1>1 DEF SettleInv, SettingsTypeOK
<1>3. ASSUME ~overlapped
      PROVE  /\ \A h \in Client : h # g => rehash'[h] = "read"
             /\ \A i \in 1 .. 5 : i <= setting[g] => server'[Settings[i]] = config[Settings[i]]
  <2>1. /\ \A h \in Client : Busy(h) => h = g
        /\ Passed(g)
    BY <1>1, <1>3 DEF SettleInv, OneByOne, Busy
  <2>2. \A i \in 1 .. 5 : i <= setting[g] => server'[Settings[i]] = config[Settings[i]]
    BY <1>1, <2>1, SettingNames DEF Passed, SettleInv, SettingsTypeOK
  <2> QED BY <1>1, <2>1, <2>2 DEF Busy, SettleInv, SettingsTypeOK
<1>4. OneByOne'
  <2> SUFFICES ASSUME ~overlapped', NEW h \in Client, Busy(h)'
               PROVE  h = g /\ Passed(h)'
    BY DEF OneByOne
  <2>1. h = g /\ rehash'[g] = "copy" /\ setting'[g] = setting[g] + 1
    BY <1>1, <1>3 DEF Busy, SettleInv, SettingsTypeOK
  <2> QED BY <1>1, <1>3, <2>1 DEF Passed
<1>5. SettledConfig'
  <2> SUFFICES ASSUME ~overlapped', rehash'[g] = "read"
               PROVE  server' = config'
    BY DEF SettledConfig
  <2>1. last
    BY <1>1 DEF SettleInv, SettingsTypeOK
  <2>2. \A s \in Copied : server'[s] = config'[s]
    BY <1>1, <1>3, <2>1, SettingNames
  <2> QED BY <1>2, <2>2 DEF SettingsTypeOK
<1> QED BY <1>2, <1>4, <1>5 DEF SettleInv

LEMMA SettleQuiet ==
  ASSUME SettleInv, UNCHANGED <<config, server, rehash, setting, copied, overlapped>>
  PROVE  SettleInv'
BY DEF SettleInv, SettingsTypeOK, OneByOne, Busy, Passed, SettledConfig

(* When every REHASH has ended, and none came between the copies of        *)
(* another, the server runs on the configuration it has read, whatever the *)
(* files and however many operators.                                       *)
THEOREM SettledCorrect == RehashSpec => []SettledConfig
<1>1. SettleInv /\ [RehashNext]_rehashVars => SettleInv'
  BY ReloadSettles, CopySettles, AssignSettles, SettleQuiet DEF RehashNext, Edit, rehashVars
<1>2. SettleInv => SettledConfig
  BY DEF SettleInv
<1> QED BY SettleInitial, <1>1, <1>2, PTL DEF RehashSpec

-----------------------------------------------------------------------------
(* Mask lists                                                              *)

(* What setRegexp leaves of the masks: one of them in the first place and  *)
(* nothing in the others.                                                  *)
Compiled(last) == [i \in 1 .. Cardinality(masks) |-> IF i = 1 THEN last ELSE <<>>]

MaskInv ==
  /\ masks \subseteq Mask
  /\ IF masks = {} THEN regexp = NoRegexp ELSE \E last \in masks : regexp = Compiled(last)

(* The empty expression matches the empty text.                            *)
LEMMA FullOfEmpty == Full(<<>>, <<>>)
<1> DEFINE P(come) ==
      come = [i \in 0 .. Len(<<>>) |->
        CASE i = 0 -> {0}
          [] i > 0 /\ (<<>>)[i] = "*" -> {k \in 0 .. Len(<<>>) : \E j \in come[i - 1] : j <= k}
          [] OTHER -> {k \in 1 .. Len(<<>>) :
                         k - 1 \in come[i - 1] /\ (<<>>)[i] \in {"?", (<<>>)[k]}}]
<1>1. P([i \in 0 .. 0 |-> {0}])
  OBVIOUS
<1>2. P(CHOOSE come : P(come))
  <2> HIDE DEF P
  <2> QED BY <1>1, Zenon
<1>3. \A come : P(come) => Len(<<>>) \in come[Len(<<>>)]
  OBVIOUS
<1> QED BY <1>2, <1>3 DEF Full

(* An expression of one mask is that mask's ...                            *)
LEMMA SingleMatch ==
  ASSUME NEW text \in Seq(STRING), NEW mask
  PROVE  MatchString(<<mask>>, text) <=> Full(mask, text)
<1>1. SubSeq(text, 1, Len(text)) = text /\ Len(text) \in Nat
  OBVIOUS
<1>2. ASSUME NEW i \in 1 .. Len(<<mask>>), NEW first \in 1 .. Len(text) + 1,
             NEW last \in first - 1 .. Len(text),
             i = 1 => first = 1, i = Len(<<mask>>) => last = Len(text)
      PROVE  i = 1 /\ first = 1 /\ last = Len(text)
  BY <1>2
<1>3. 1 \in 1 .. Len(<<mask>>) /\ 1 \in 1 .. Len(text) + 1 /\ Len(text) \in 1 - 1 .. Len(text)
  BY <1>1
<1>4. Full((<<mask>>)[1], SubSeq(text, 1, Len(text))) <=> Full(mask, text)
  BY <1>1
<1> QED BY <1>2, <1>3, <1>4 DEF MatchString

(* ... and one with an empty alternative at its end matches everything.    *)
LEMMA EmptyMatch ==
  ASSUME NEW text \in Seq(STRING), NEW alternatives,
         Len(alternatives) \in Nat, Len(alternatives) > 1,
         alternatives[Len(alternatives)] = <<>>
  PROVE  MatchString(alternatives, text)
<1> DEFINE n == Len(alternatives)
<1>1. SubSeq(text, Len(text) + 1, Len(text)) = <<>> /\ Len(text) \in Nat
  BY SubSeqEmpty
<1>2. /\ n \in 1 .. n /\ n # 1
      /\ Len(text) + 1 \in 1 .. Len(text) + 1 /\ Len(text) \in Len(text) + 1 - 1 .. Len(text)
  BY <1>1
<1>3. Full(alternatives[n], SubSeq(text, Len(text) + 1, Len(text)))
  BY <1>1, FullOfEmpty
<1> QED BY <1>2, <1>3 DEF MatchString

LEMMA MaskStep ==
  ASSUME MaskInv, [MaskNext]_maskVars
  PROVE  MaskInv'
<1>1. CASE UNCHANGED maskVars
  BY <1>1 DEF maskVars, MaskInv, Compiled
<1>2. CASE MaskNext
  <2>1. masks' \subseteq Mask /\ setRegexp(masks')
    BY <1>2 DEF MaskNext, Add, Remove, AddAll, MaskInv
  <2> QED BY <2>1 DEF setRegexp, MaskInv, Compiled
<1> QED BY <1>1, <1>2

LEMMA MaskCounts ==
  ASSUME MaskInv
  PROVE  MatchByCount
<1> SUFFICES ASSUME NEW userhost \in UserHost
             PROVE  Match(userhost) <=>
                      Cardinality(masks) > 1 \/ \E mask \in masks : Full(mask, userhost)
  BY DEF MatchByCount
<1>1. userhost \in Seq(STRING)
  BY UserMaskAssumption
<1>2. IsFiniteSet(masks) /\ Cardinality(masks) \in Nat
  BY UserMaskAssumption, FS_Subset, FS_CardinalityType DEF MaskInv
<1>3. CASE masks = {}
  <2>1. Cardinality(masks) = 0
    BY <1>3, FS_EmptySet
  <2> QED BY <1>3, <2>1 DEF MaskInv, Match
<1>4. ASSUME NEW last \in masks, regexp = Compiled(last)
      PROVE  Match(userhost) <=>
               Cardinality(masks) > 1 \/ \E mask \in masks : Full(mask, userhost)
  <2>1. Cardinality(masks) # 0
    BY <1>2, FS_EmptySet
  <2>2. regexp \in Seq(Mask \cup {<<>>})
    BY <1>2, <1>4 DEF Compiled, MaskInv
  <2>3. Match(userhost) <=> MatchString(regexp, userhost)
    BY <2>2, UserMaskAssumption DEF Match
  <2>4. CASE Cardinality(masks) = 1
    <3>1. masks = {last}
      BY <1>2, <2>4, FS_Singleton
    <3>2. regexp = <<last>>
      BY <1>4, <2>4 DEF Compiled
    <3> QED BY <1>1, <2>3, <2>4, <3>1, <3>2, SingleMatch
  <2>5. CASE Cardinality(masks) > 1
    <3>1. Len(regexp) = Cardinality(masks) /\ regexp[Len(regexp)] = <<>>
      BY <1>2, <1>4, <2>5 DEF Compiled
    <3>2. MatchString(regexp, userhost)
      BY <1>1, <1>2, <2>5, <3>1, EmptyMatch
    <3> QED BY <2>3, <2>5, <3>2
  <2> QED BY <1>2, <2>1, <2>4, <2>5
<1> QED BY <1>3, <1>4 DEF MaskInv

(* A list of two or more masks matches every user host, a list of one what *)
(* its mask matches, whatever was added and removed before and in whatever *)
(* order setRegexp walked the map.                                         *)
THEOREM MatchCorrect == MaskSpec => []MatchByCount
<1>1. MaskInit => MaskInv
  BY DEF MaskInit, MaskInv
<1>2. MaskInv /\ [MaskNext]_maskVars => MaskInv'
  BY MaskStep
<1>3. MaskInv => MatchByCount
  BY MaskCounts
<1> QED BY <1>1, <1>2, <1>3, PTL DEF MaskSpec
=============================================================================
