------------------------------- MODULE Lookup -------------------------------
(***************************************************************************)
(* The nickname registry at the granularity of its lock.  Sessions runs a  *)
(* handler as one step; really each client's commands run on the client's  *)
(* own reader goroutine, and ClientLookupSet.Add and Remove test under one *)
(* hold of the lock and write under another.  Both read the nickname       *)
(* again when they write, and Remove deletes whatever is there by then.    *)
(* Which commands registration allows is Sessions' matter: here any client *)
(* may send any of them, one that has quit included.                       *)
(***************************************************************************)
EXTENDS Clients

CONSTANTS
  Nick,      \* nicknames as spelled on the wire
  NoNick,    \* the empty nickname
  Key,       \* lower-case names, the keys of ClientLookupSet.nicks
  Fold       \* Name.ToLower on nicknames

ASSUME LookupAssumption ==
  /\ NoNick \notin Nick
  /\ Fold \in [Nick -> Key]

VARIABLES
  nicks,     \* ClientLookupSet.nicks
  nick,      \* client.nick
  step,      \* where each reader stands in its handler
  whom,      \* the client the handler works on
  wanted,    \* the nickname it is to give, NoNick for USER, QUIT and KILL
  crossed    \* clients that another client's ONICK has renamed

lookupVars == <<nicks, nick, step, whom, wanted, crossed>>

KeyOf(c) == Fold[nick[c]]

Continue(g, point) == step' = [step EXCEPT ![g] = point]

LookupInit ==
  /\ nicks = [k \in Key |-> NoClient]
  /\ nick = [c \in Client |-> NoNick]
  /\ step = [g \in Client |-> "read"]
  /\ whom = [g \in Client |-> g]
  /\ wanted = [g \in Client |-> NoNick]
  /\ crossed = {}

-----------------------------------------------------------------------------
(* The tests at the top of the handlers, each a Get of its own.            *)

Begin(g, t, n, point) ==
  /\ step[g] = "read"
  /\ whom' = [whom EXCEPT ![g] = t]
  /\ wanted' = [wanted EXCEPT ![g] = n]
  /\ Continue(g, point)

(* NICK before registration: the name is free, SetNickname is called.      *)
NickRegTest(g, n) ==
  /\ nicks[Fold[n]] = NoClient
  /\ nick[g] = NoNick
  /\ Begin(g, g, n, "rename")
  /\ UNCHANGED <<nicks, nick, crossed>>

(* Mutant of NickTest: ChangeNickname forgets the old entry.               *)
NickTestKeepsEntry(g, n) ==
  /\ nick[g] \notin {NoNick, n}
  /\ nicks[Fold[n]] \in {NoClient, g}
  /\ Begin(g, g, n, "rename")
  /\ UNCHANGED <<nicks, nick, crossed>>

NickTest(g, n) ==
  /\ nick[g] \notin {NoNick, n}
  /\ nicks[Fold[n]] \in {NoClient, g}
  /\ Begin(g, g, n, "remove")
  /\ UNCHANGED <<nicks, nick, crossed>>

(* ONICK looks up its target, then the new nickname.                       *)
OperNickTarget(g, target, n) ==
  /\ n # nick[g]
  /\ nicks[Fold[target]] # NoClient
  /\ Begin(g, nicks[Fold[target]], n, "onick")
  /\ UNCHANGED <<nicks, nick, crossed>>

OperNickTest(g) ==
  /\ step[g] = "onick"
  /\ IF nicks[Fold[wanted[g]]] = NoClient
     THEN Continue(g, "remove") /\ crossed' = crossed \cup {whom[g]}
     ELSE Continue(g, "read") /\ UNCHANGED crossed
  /\ UNCHANGED <<nicks, nick, whom, wanted>>

(* USER removes and adds; QUIT, KILL and the quit timer only remove.       *)
UserInfo(g) ==
  /\ Begin(g, g, NoNick, "remove")
  /\ UNCHANGED <<nicks, nick, crossed>>

QuitOf(g, t) ==
  /\ t = g \/ \E k \in Key : nicks[k] = t
  /\ Begin(g, t, NoNick, "destroy")
  /\ UNCHANGED <<nicks, nick, crossed>>

-----------------------------------------------------------------------------
(* ClientLookupSet.Remove: "remove" and "destroy" are its Get, "delete"    *)
(* and "forget" its write.                                                 *)
Removed(g) == IF wanted[g] = NoNick THEN "add" ELSE "rename"

RemoveTest(g) ==
  /\ step[g] \in {"remove", "destroy"}
  /\ LET found == nick[whom[g]] # NoNick /\ nicks[KeyOf(whom[g])] = whom[g]
     IN IF step[g] = "remove" THEN Continue(g, IF found THEN "delete" ELSE Removed(g))
        ELSE Continue(g, IF found THEN "forget" ELSE "read")
  /\ UNCHANGED <<nicks, nick, whom, wanted, crossed>>

RemoveWrite(g) ==
  /\ step[g] \in {"delete", "forget"}
  /\ nicks' = [nicks EXCEPT ![KeyOf(whom[g])] = NoClient]
  /\ Continue(g, IF step[g] = "delete" THEN Removed(g) ELSE "read")
  /\ UNCHANGED <<nick, whom, wanted, crossed>>

(* SetNickname and ChangeNickname write the field without a lock.          *)
Rename(g) ==
  /\ step[g] = "rename"
  /\ nick' = [nick EXCEPT ![whom[g]] = wanted[g]]
  /\ Continue(g, "add")
  /\ UNCHANGED <<nicks, whom, wanted, crossed>>

(* ClientLookupSet.Add                                                     *)
AddTest(g) ==
  /\ step[g] = "add"
  /\ Continue(g, IF nick[whom[g]] # NoNick /\ nicks[KeyOf(whom[g])] = NoClient
                 THEN "enter" ELSE "read")
  /\ UNCHANGED <<nicks, nick, whom, wanted, crossed>>

AddWrite(g) ==
  /\ step[g] = "enter"
  /\ nicks' = [nicks EXCEPT ![KeyOf(whom[g])] = whom[g]]
  /\ Continue(g, "read")
  /\ UNCHANGED <<nick, whom, wanted, crossed>>

-----------------------------------------------------------------------------
LookupStart(g) ==
  \/ \E n \in Nick : NickRegTest(g, n) \/ NickTest(g, n)
  \/ \E target, n \in Nick : OperNickTarget(g, target, n)
  \/ UserInfo(g)
  \/ \E t \in Client : QuitOf(g, t)

LookupNext ==
  \E g \in Client :
    \/ LookupStart(g) \/ OperNickTest(g) \/ RemoveTest(g) \/ RemoveWrite(g)
    \/ Rename(g) \/ AddTest(g) \/ AddWrite(g)

LookupSpec == LookupInit /\ [][LookupNext]_lookupVars

-----------------------------------------------------------------------------
LookupTypeOK ==
  /\ nicks \in [Key -> Client \cup {NoClient}]
  /\ nick \in [Client -> Nick \cup {NoNick}]
  /\ step \in [Client -> {"read", "onick", "remove", "destroy", "delete", "forget",
                          "rename", "add", "enter"}]
  /\ whom \in [Client -> Client]
  /\ wanted \in [Client -> Nick \cup {NoNick}]
  /\ crossed \subseteq Client

(* However the handlers interleave, a registry entry leads to a client     *)
(* that really has that nickname: nobody is reached under an old name.     *)
(* (Two clients may both have the nickname and one of them no entry.)      *)
(* Only a client that was renamed by another's ONICK, which runs on the    *)
(* other's goroutine while its own may be renaming it too, is excepted.    *)
EntrySound ==
  \A k \in Key :
    nicks[k] \in Client \ crossed =>
      nick[nicks[k]] # NoNick /\ KeyOf(nicks[k]) = k
=============================================================================
