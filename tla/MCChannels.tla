----------------------------- MODULE MCChannels -----------------------------
(* Clients that have already connected and registered under one nickname   *)
(* each, a state Sessions reaches; Sessions' own runs cover the way there. *)
EXTENDS Channels, TLC

CONSTANTS c1, c2

MCNick == {"a", "b"}
MCFold == [n \in MCNick |-> n]
MCNoModes == {}
MCNickOf == (c1 :> "a" @@ c2 :> "b")

MCInit ==
  /\ conn = [c \in Client |-> "open"]
  /\ blockedOn = [c \in Client |-> NoClient]
  /\ connections = Cardinality(Client)
  /\ nick = [c \in Client |-> MCNickOf[c]]
  /\ nicks = [k \in Key |-> IF \E c \in Client : MCNickOf[c] = k
                            THEN CHOOSE c \in Client : MCNickOf[c] = k ELSE NoClient]
  /\ hasUser = [c \in Client |-> TRUE]
  /\ authorized = [c \in Client |-> TRUE]
  /\ capState = [c \in Client |-> "none"]
  /\ registered = [c \in Client |-> TRUE]
  /\ modes = [c \in Client |-> {HostMask}]
  /\ chan = [o \in Chan |-> NewChannel(CHOOSE n \in ChanName : TRUE)]
  /\ channels = [n \in ChanName |-> NoChan]
  /\ joined = [c \in Client |-> {}]

MCSpec == MCInit /\ [][ChannelsNext]_vars

(* Channel objects are interchangeable, and nothing reads more of one that *)
(* is neither registered nor inhabited than that it has no members.        *)
MCSymmetry == Permutations(Chan)
MCView ==
  <<sessionVars, channels, joined,
    [o \in Chan |-> IF IsEmpty(chan[o]) /\ \A n \in ChanName : channels[n] # o
                    THEN NoChan ELSE chan[o]]>>

(* Masks for everybody and for one client, and lines of changes that touch *)
(* every rule of admission and hand over the operator's privilege.         *)
MCBanAll == MCNick \X Client
MCBanC2  == {<<n, c2>> : n \in MCNick}
MCMasks  == {MCBanC2, MCBanAll}
MCModeLines ==
  {<<[mode |-> "b", op |-> "+", arg |-> MCBanAll], [mode |-> "e", op |-> "+", arg |-> MCBanC2],
     [mode |-> "k", op |-> "+", arg |-> "key"]>>,
   <<[mode |-> "i", op |-> "+"], [mode |-> "k", op |-> "-", arg |-> NoKey]>>,
   <<[mode |-> "b", op |-> "-", arg |-> MCBanAll], [mode |-> "l", op |-> "-", arg |-> 1]>>,
   <<[mode |-> "o", op |-> "+", arg |-> "b"], [mode |-> "o", op |-> "-", arg |-> "a"]>>}
=============================================================================
