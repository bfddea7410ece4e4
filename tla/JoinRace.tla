------------------------------ MODULE JoinRace ------------------------------
(***************************************************************************)
(* JOIN, PART, KICK, JOIN 0, MODE and destroy on the channels of one name, *)
(* at the granularity of the sets they share.  Channels runs a handler as  *)
(* one step; really the handlers of several clients interleave between     *)
(* server.channels.Get, NewChannel, client.channels.Add, members.Add and   *)
(* members.Count in JOIN, and between members.Remove, IsEmpty and          *)
(* channels.Remove when somebody leaves.                                   *)
(***************************************************************************)
EXTENDS Clients

CONSTANTS
  Chan,      \* channel objects
  NoChan     \* a nil *Channel

ASSUME JoinRaceAssumption == NoChan \notin Chan

VARIABLES
  registered,  \* server.channels at the name
  members,     \* channel.members
  founders,    \* the members marked creator and operator
  joined,      \* client.channels
  pos,         \* where each reader stands in its handler
  obj,         \* the channel it works on
  who,         \* the client it works on: its own, or the one kicked or killed
  walking,     \* the readers that run destroy
  rest,        \* the channels destroy has still to leave
  hasQuit,     \* clients whose hasQuit is set
  destroyed,   \* clients whose destroy has left every channel
  late,        \* pairs of a client and a channel it entered after hasQuit
  closed,      \* channels whose key, flags or lists keep somebody out
  shut,        \* channels closed without a member, and not entered since
  panicked     \* the process has panicked

joinVars == <<registered, members, founders, joined, pos, obj, who, walking,
              rest, hasQuit, destroyed, late, closed, shut, panicked>>
setVars == <<registered, members, founders, joined>>
quitVars == <<hasQuit, destroyed, late, walking, rest>>
doorVars == <<closed, shut>>

JoinInit ==
  /\ registered = NoChan
  /\ members = [o \in Chan |-> {}]
  /\ founders = [o \in Chan |-> {}]
  /\ joined = [c \in Client |-> {}]
  /\ pos = [g \in Client |-> "read"]
  /\ obj = [g \in Client |-> NoChan]
  /\ who = [g \in Client |-> g]
  /\ hasQuit = {} /\ destroyed = {} /\ late = {} /\ walking = {}
  /\ rest = [g \in Client |-> {}]
  /\ closed = {} /\ shut = {}
  /\ panicked = FALSE

On(g, point) == ~panicked /\ pos[g] = point
Move(g, point) == pos' = [pos EXCEPT ![g] = point]

(* The handler is done.  Once its client is destroyed the reader's next    *)
(* Read returns io.EOF.                                                    *)
Finish(g) ==
  /\ Move(g, IF g \in destroyed THEN "done" ELSE "read")
  /\ obj' = [obj EXCEPT ![g] = NoChan]
  /\ who' = [who EXCEPT ![g] = g]

-----------------------------------------------------------------------------
(* JOIN: Get, and NewChannel when there is none.                           *)
JoinGet(g) ==
  /\ On(g, "read")
  /\ obj' = [obj EXCEPT ![g] = registered]
  /\ Move(g, IF registered = NoChan THEN "new" ELSE "admit")
  /\ UNCHANGED <<setVars, who, quitVars, doorVars, panicked>>

(* The new channel goes into the registry; ChannelNameMap.Add may refuse   *)
(* it when a channel of the name has come in between, or replace that one. *)
JoinNew(g, o) ==
  /\ On(g, "new")
  /\ o # registered /\ members[o] = {}
  /\ \A c \in Client : o \notin joined[c] /\ obj[c] # o
  /\ obj' = [obj EXCEPT ![g] = o]
  /\ registered' \in {o} \cup ({registered} \ {NoChan})
  /\ closed' = closed \ {o} /\ shut' = shut \ {o}
  /\ Move(g, "admit")
  /\ UNCHANGED <<members, founders, joined, who, quitVars, panicked>>

(* Channel.Join: a member stays one.  A channel with members may be full;  *)
(* by its key, invite-only flag or ban list a closed one refuses whom it   *)
(* does not invite, members or not.                                        *)
JoinAdmit(g, admitted) ==
  /\ On(g, "admit")
  /\ ~admitted => members[obj[g]] # {} \/ obj[g] \in closed
  /\ IF g \in members[obj[g]] \/ ~admitted THEN Finish(g)
     ELSE Move(g, "enlist") /\ UNCHANGED <<obj, who>>
  /\ UNCHANGED <<setVars, quitVars, doorVars, panicked>>

(* Mutant of JoinEnlist: the client's own list is told only afterwards, so *)
(* destroy does not find the channel there.                                *)
JoinEnlistLater(g) ==
  /\ On(g, "enlist")
  /\ Move(g, "enter")
  /\ UNCHANGED <<setVars, obj, who, quitVars, doorVars, panicked>>

JoinEnlist(g) ==
  /\ On(g, "enlist")
  /\ joined' = [joined EXCEPT ![g] = @ \cup {obj[g]}]
  /\ Move(g, "enter")
  /\ UNCHANGED <<registered, members, founders, obj, who, quitVars, doorVars, panicked>>

JoinEnter(g) ==
  /\ On(g, "enter")
  /\ members' = [members EXCEPT ![obj[g]] = @ \cup {g}]
  /\ late' = IF g \in hasQuit THEN late \cup {<<g, obj[g]>>} ELSE late
  /\ Move(g, "count")
  /\ shut' = shut \ {obj[g]}
  /\ UNCHANGED <<registered, founders, joined, obj, who, hasQuit, destroyed, walking, rest,
                 closed, panicked>>

(* Mutant of JoinCount: who finds two members is creator too.              *)
JoinCountTwo(g) ==
  /\ On(g, "count")
  /\ IF \E x, y \in Client : members[obj[g]] = {x, y}
     THEN Move(g, "crown") /\ UNCHANGED <<obj, who>> ELSE Finish(g)
  /\ UNCHANGED <<setVars, quitVars, doorVars, panicked>>

JoinCount(g) ==
  /\ On(g, "count")
  /\ IF \E x \in Client : members[obj[g]] = {x}
     THEN Move(g, "crown") /\ UNCHANGED <<obj, who>> ELSE Finish(g)
  /\ UNCHANGED <<setVars, quitVars, doorVars, panicked>>

(* members.Get returns nil for a client that was removed meanwhile, and    *)
(* Set on it panics.                                                       *)
JoinCrown(g) ==
  /\ On(g, "crown")
  /\ IF g \in members[obj[g]]
     THEN /\ founders' = [founders EXCEPT ![obj[g]] = @ \cup {g}]
          /\ Finish(g)
          /\ UNCHANGED panicked
     ELSE panicked' = TRUE /\ UNCHANGED <<founders, pos, obj, who>>
  /\ UNCHANGED <<registered, members, joined, quitVars, doorVars>>

-----------------------------------------------------------------------------
(* MODE looks the channel up and then sets or lifts key, flag or ban.  A   *)
(* server operator need not be a member, so the channel may have none: it  *)
(* may be one that JoinNew has just registered.                            *)
ModeGet(g) ==
  /\ On(g, "read") /\ registered # NoChan
  /\ obj' = [obj EXCEPT ![g] = registered]
  /\ Move(g, "mode")
  /\ UNCHANGED <<setVars, who, quitVars, doorVars, panicked>>

ModeCloses(g) ==
  /\ On(g, "mode")
  /\ closed' = closed \cup {obj[g]}
  /\ shut' = IF members[obj[g]] = {} THEN shut \cup {obj[g]} ELSE shut
  /\ Finish(g)
  /\ UNCHANGED <<setVars, quitVars, panicked>>

ModeOpens(g) ==
  /\ On(g, "mode")
  /\ closed' = closed \ {obj[g]}
  /\ Finish(g)
  /\ UNCHANGED <<setVars, quitVars, shut, panicked>>

-----------------------------------------------------------------------------
(* PART and KICK name the registered channel; JOIN 0 parts the channels of *)
(* the client's own list one after the other.                              *)
PartOrKick(g, t, o) ==
  /\ On(g, "read")
  /\ o = registered \/ (t = g /\ o \in joined[g])
  /\ t \in members[o]
  /\ obj' = [obj EXCEPT ![g] = o]
  /\ who' = [who EXCEPT ![g] = t]
  /\ Move(g, "leave")
  /\ UNCHANGED <<setVars, quitVars, doorVars, panicked>>

(* QUIT, KILL: destroy leaves every channel of the client's own list.      *)
QuitStarts(g, t) ==
  /\ On(g, "read") /\ t \notin hasQuit
  /\ hasQuit' = hasQuit \cup {t}
  /\ rest' = [rest EXCEPT ![g] = joined[t]]
  /\ who' = [who EXCEPT ![g] = t]
  /\ walking' = walking \cup {g}
  /\ Move(g, "walk")
  /\ UNCHANGED <<setVars, obj, destroyed, late, doorVars, panicked>>

Walk(g, o) ==
  /\ On(g, "walk") /\ o \in rest[g]
  /\ rest' = [rest EXCEPT ![g] = @ \ {o}]
  /\ obj' = [obj EXCEPT ![g] = o]
  /\ Move(g, "leave")
  /\ UNCHANGED <<setVars, who, hasQuit, destroyed, late, walking, doorVars, panicked>>

WalkEnds(g) ==
  /\ On(g, "walk") /\ rest[g] = {}
  /\ destroyed' = destroyed \cup {who[g]}
  /\ Move(g, IF g = who[g] THEN "done" ELSE "read")
  /\ who' = [who EXCEPT ![g] = g]
  /\ walking' = walking \ {g}
  /\ UNCHANGED <<setVars, obj, rest, hasQuit, late, doorVars, panicked>>

(* Channel.Quit                                                            *)
Leave(g) ==
  /\ On(g, "leave")
  /\ members' = [members EXCEPT ![obj[g]] = @ \ {who[g]}]
  /\ founders' = [founders EXCEPT ![obj[g]] = @ \ {who[g]}]
  /\ Move(g, "test")
  /\ UNCHANGED <<registered, joined, obj, who, quitVars, doorVars, panicked>>

(* The handler of PART or KICK is done, destroy goes on with its walk.     *)
Left(g) ==
  IF g \in walking THEN Move(g, "walk") /\ obj' = [obj EXCEPT ![g] = NoChan]
                        /\ UNCHANGED who
  ELSE Finish(g)

(* Mutant of LeaveTest: nobody looks whether the channel is empty now.     *)
LeaveWithoutTest(g) ==
  /\ On(g, "test")
  /\ Left(g)
  /\ UNCHANGED <<setVars, quitVars, doorVars, panicked>>

LeaveTest(g) ==
  /\ On(g, "test")
  /\ IF members[obj[g]] = {} THEN Move(g, "forget") /\ UNCHANGED <<obj, who>> ELSE Left(g)
  /\ UNCHANGED <<setVars, quitVars, doorVars, panicked>>

(* ChannelNameMap.Remove forgets the channel if it is the registered one.  *)
LeaveForgets(g) ==
  /\ On(g, "forget")
  /\ registered' = IF registered = obj[g] THEN NoChan ELSE registered
  /\ Left(g)
  /\ UNCHANGED <<members, founders, joined, quitVars, doorVars, panicked>>

-----------------------------------------------------------------------------
JoinStep(g) ==
  \/ JoinGet(g) \/ JoinEnlist(g) \/ JoinEnter(g) \/ JoinCount(g) \/ JoinCrown(g)
  \/ \E o \in Chan : JoinNew(g, o)
  \/ \E admitted \in BOOLEAN : JoinAdmit(g, admitted)

LeaveStep(g) ==
  \/ Leave(g) \/ LeaveTest(g) \/ LeaveForgets(g) \/ WalkEnds(g)
  \/ \E o \in Chan : Walk(g, o) \/ \E t \in Client : PartOrKick(g, t, o)
  \/ \E t \in Client : QuitStarts(g, t)

ModeStep(g) == ModeGet(g) \/ ModeCloses(g) \/ ModeOpens(g)

JoinNext == \E g \in Client : JoinStep(g) \/ LeaveStep(g) \/ ModeStep(g)

JoinSpec == JoinInit /\ [][JoinNext]_joinVars

-----------------------------------------------------------------------------
JoinTypeOK ==
  /\ registered \in Chan \cup {NoChan}
  /\ members \in [Chan -> SUBSET Client]
  /\ founders \in [Chan -> SUBSET Client]
  /\ joined \in [Client -> SUBSET Chan]
  /\ pos \in [Client -> {"read", "new", "admit", "enlist", "enter", "count", "crown",
                         "walk", "leave", "test", "forget", "mode", "done"}]
  /\ obj \in [Client -> Chan \cup {NoChan}]
  /\ who \in [Client -> Client]
  /\ rest \in [Client -> SUBSET Chan]
  /\ hasQuit \subseteq Client /\ destroyed \subseteq Client
  /\ late \subseteq Client \X Chan
  /\ walking \subseteq Client
  /\ closed \subseteq Chan /\ shut \subseteq Chan
  /\ panicked \in BOOLEAN

(* No channel is left behind: one that is registered has members, or a     *)
(* handler that is still in the middle of joining or leaving it will give  *)
(* it some or take it off.  There is one exception: a MODE of a server     *)
(* operator that finds the channel before its first member may close it to *)
(* the very client that has registered it, and then it stays.              *)
EmptyForgotten ==
  registered # NoChan /\ members[registered] = {} =>
    \/ registered \in shut
    \/ \E g \in Client : /\ obj[g] = registered
                         /\ pos[g] \in {"admit", "enlist", "enter", "test", "forget"}

(* destroy leaves every channel, although JOINs of the client, on its own  *)
(* reader, go on meanwhile: after it the client is member only of channels *)
(* it entered when it had quit already.                                    *)
DestroyLeavesAll ==
  \A c \in destroyed, o \in Chan : c \in members[o] => <<c, o>> \in late

(* At most one member of a channel is marked creator, however joins race   *)
(* with kicks and kills.  (Two that join at once may both find the other   *)
(* there, and nobody is.)                                                  *)
OneFounder == \A o \in Chan : \A c, d \in founders[o] : c = d
=============================================================================
