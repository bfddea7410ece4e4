------------------------------- MODULE Rehash -------------------------------
(***************************************************************************)
(* REHASH: operators make the server read its configuration file again.    *)
(* Config.Reload is under a mutex; Server.Rehash then copies the settings  *)
(* from the shared Config into the server one after the other, on the      *)
(* goroutine of whoever asked, without a lock.  Every client here is a     *)
(* server operator.  Listeners, accounts and the server password are not   *)
(* reloaded.                                                               *)
(***************************************************************************)
EXTENDS Clients, Naturals, Sequences

CONSTANTS
  File,       \* what the configuration file may hold at a time
  Unset,      \* the empty string, for a setting the file does not have
  Undecoded,  \* an operator's password that is not base64
  Hostnames,  \* the values that IsHostname accepts
  InitFile    \* the file the server was started with

(* The settings that Rehash copies, in its order.                          *)
Settings == <<"motd", "name", "network", "description", "operators">>
Strings == {"motd", "name", "network", "description"}

ASSUME RehashAssumption ==
  /\ InitFile \in File /\ Unset \notin Hostnames
  /\ \A f \in File : {"readable", "listens", "operators"} \cup Strings \subseteq DOMAIN f

VARIABLES
  file,        \* the configuration file
  config,      \* server.config
  server,      \* the server's own copies
  rehash,      \* where the reader of each client stands in Rehash
  setting,     \* the setting it is about to copy
  copied,      \* the value it has read for it
  overlapped,  \* the last Reload came between the copies of another Rehash
  exited       \* log.Fatal has ended the process

rehashVars == <<file, config, server, rehash, setting, copied, overlapped, exited>>

Copies(conf) == [s \in Strings \cup {"operators"} |-> conf[s]]

-----------------------------------------------------------------------------
(* Mutant of Loads: the server name may be anything.                       *)
LoadsAnyName(f) == f.readable /\ f.network # Unset /\ f.name # Unset /\ f.listens

(* LoadConfig accepts the file.                                            *)
Loads(f) ==
  f.readable /\ f.network # Unset /\ f.name # Unset /\ f.name \in Hostnames /\ f.listens

(* mergo.MergeWithOverwrite: an empty setting keeps the old value, and of  *)
(* a map no key is removed.                                                *)
MergeWithOverwrite(conf, f) ==
  [s \in DOMAIN conf |->
     CASE s = "operators" -> [o \in DOMAIN conf.operators \cup DOMAIN f.operators |->
                                IF o \in DOMAIN f.operators THEN f.operators[o]
                                ELSE conf.operators[o]]
       [] s \in Strings /\ f[s] = Unset -> conf[s]
       [] OTHER -> f[s]]

(* NewServer: a password that does not decode would have ended it.         *)
RehashInit ==
  /\ file = InitFile /\ Loads(file)
  /\ \A o \in DOMAIN file.operators : file.operators[o] # Undecoded
  /\ config = Copies(file) /\ server = Copies(file)
  /\ rehash = [g \in Client |-> "read"]
  /\ setting = [g \in Client |-> 1]
  /\ copied = [g \in Client |-> Unset]
  /\ overlapped = FALSE /\ exited = FALSE

At(g, point) == ~exited /\ rehash[g] = point

(* Somebody edits the file.                                                *)
Edit(f) ==
  /\ ~exited /\ f # file /\ file' = f
  /\ UNCHANGED <<config, server, rehash, setting, copied, overlapped, exited>>

(* Config.Reload: whether or not the file could be loaded, and whatever    *)
(* came of it, no error is returned and Rehash goes on.                    *)
Reload(g) ==
  /\ At(g, "read")
  /\ config' = IF Loads(file) THEN MergeWithOverwrite(config, file) ELSE config
  /\ rehash' = [rehash EXCEPT ![g] = "copy"]
  /\ setting' = [setting EXCEPT ![g] = 1]
  /\ overlapped' = (\E h \in Client : rehash[h] # "read")
  /\ UNCHANGED <<file, server, copied, exited>>

(* The right-hand side of an assignment of Rehash.                         *)
Copy(g) ==
  LET s == Settings[setting[g]]
      fatal == s = "operators" /\ \E o \in DOMAIN config.operators : config.operators[o] = Undecoded
  IN /\ At(g, "copy")
     /\ IF fatal THEN exited' = TRUE /\ UNCHANGED <<copied, rehash>>
        ELSE /\ copied' = [copied EXCEPT ![g] = config[s]]
             /\ rehash' = [rehash EXCEPT ![g] = "assign"]
             /\ UNCHANGED exited
     /\ UNCHANGED <<file, config, server, setting, overlapped>>

(* Mutant of Assign: the operators are left as they were.                  *)
AssignAllButLast(g) ==
  /\ At(g, "assign")
  /\ server' = [server EXCEPT ![Settings[setting[g]]] = copied[g]]
  /\ copied' = [copied EXCEPT ![g] = Unset]
  /\ IF setting[g] = Len(Settings) - 1
     THEN setting' = [setting EXCEPT ![g] = 1] /\ rehash' = [rehash EXCEPT ![g] = "read"]
     ELSE setting' = [setting EXCEPT ![g] = @ + 1] /\ rehash' = [rehash EXCEPT ![g] = "copy"]
  /\ UNCHANGED <<file, config, overlapped, exited>>

Assign(g) ==
  /\ At(g, "assign")
  /\ server' = [server EXCEPT ![Settings[setting[g]]] = copied[g]]
  /\ copied' = [copied EXCEPT ![g] = Unset]
  /\ IF setting[g] = Len(Settings)
     THEN setting' = [setting EXCEPT ![g] = 1] /\ rehash' = [rehash EXCEPT ![g] = "read"]
     ELSE setting' = [setting EXCEPT ![g] = @ + 1] /\ rehash' = [rehash EXCEPT ![g] = "copy"]
  /\ UNCHANGED <<file, config, overlapped, exited>>

RehashNext ==
  \/ \E f \in File : Edit(f)
  \/ \E g \in Client : Reload(g) \/ Copy(g) \/ Assign(g)

RehashSpec == RehashInit /\ [][RehashNext]_rehashVars

-----------------------------------------------------------------------------
(* Whatever the file held when it was read, a REHASH ends with the server  *)
(* running on the configuration: every setting, the operators included, is *)
(* that of server.config.  When two of them overlap an older value may be  *)
(* written last.                                                           *)
SettledConfig ==
  (\A g \in Client : rehash[g] = "read") /\ ~overlapped => server = config

(* The server always has a name and a network it can be called by, and the *)
(* operators it had at the start: no file, no interleaving of REHASHes and *)
(* no edit in between takes them away.                                     *)
IdentityKept ==
  /\ server.name \in Hostnames /\ server.network # Unset
  /\ DOMAIN InitFile.operators \subseteq DOMAIN server.operators
  /\ \A o \in DOMAIN server.operators : server.operators[o] # Undecoded
=============================================================================
