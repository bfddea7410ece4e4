------------------------------ MODULE MCViews -------------------------------
(* Clients that have already connected and registered under one nickname   *)
(* each, a state Sessions reaches, before the first JOIN.                  *)
EXTENDS Views, TLC

MCNick == {"a", "b", "c"}
MCFold == [n \in MCNick |-> n]

MCInit ==
  /\ conn = [c \in Client |-> "open"]
  /\ blockedOn = [c \in Client |-> NoClient]
  /\ connections = Cardinality(Client)
  /\ nick \in {f \in [Client -> Nick] : \A c, d \in Client : f[c] = f[d] => c = d}
  /\ nicks = [k \in Key |-> IF \E c \in Client : nick[c] = k
                            THEN CHOOSE c \in Client : nick[c] = k ELSE NoClient]
  /\ hasUser = [c \in Client |-> TRUE]
  /\ authorized = [c \in Client |-> TRUE]
  /\ capState = [c \in Client |-> "none"]
  /\ registered = [c \in Client |-> TRUE]
  /\ modes = [c \in Client |-> {HostMask}]
  /\ chan = [o \in Chan |-> NewChannel(CHOOSE n \in ChanName : TRUE)]
  /\ channels = [n \in ChanName |-> NoChan]
  /\ joined = [c \in Client |-> {}]
  /\ view = [c \in Client |-> [name \in ChanName |-> {}]]
  /\ friends = [c \in Client |-> {}]
  /\ haunted = FALSE

MCSpec == MCInit /\ [][ViewsNext]_viewVars

(* Nothing is claimed once a line may tell of the wrong client.            *)
Quiet == ~haunted

(* Clients are interchangeable.  Of the user modes the actions read only   *)
(* who is an operator, and of a channel that is neither registered nor     *)
(* inhabited only that it has no members.                                  *)
MCSymmetry == Permutations(Client)
MCView ==
  <<conn, blockedOn, connections, nicks, nick, channels, joined, view, friends, haunted,
    {c \in Client : IsOperator(c)},
    [o \in Chan |-> IF IsEmpty(chan[o]) /\ \A n \in ChanName : channels[n] # o
                    THEN NoChan ELSE chan[o]]>>
=============================================================================
