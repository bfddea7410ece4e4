------------------------------- MODULE WhoWas -------------------------------
(***************************************************************************)
(* WhoWasList, the ring buffer behind WHOWAS: Append under the write lock, *)
(* Each (the loop that walks it backwards) and Find under the read lock.   *)
(* The locks themselves are the subject of module WhoWasLock.              *)
(***************************************************************************)
EXTENDS Integers, Sequences, FiniteSets

CONSTANTS Entry,    \* what Append records of a client
          Nil,      \* a slot that was never written
          N,        \* len(list.buffer)
          NickOf    \* the nickname of an entry

ASSUME WhoWasAssumption ==
  /\ N \in Nat \ {0}
  /\ Nil \notin Entry
  /\ DOMAIN NickOf = Entry

VARIABLES buffer, start, end

ringVars == <<buffer, start, end>>

Slot == 0 .. N - 1

Init ==
  /\ buffer = [i \in Slot |-> Nil]
  /\ start = 0
  /\ end = 0

(* Mutant of AppendEntry: start moves on to the slot the next Append       *)
(* writes.                                                                 *)
AppendEntryShort(e) ==
  LET next == (end + 1) % N
  IN /\ buffer' = [buffer EXCEPT ![end] = e]
     /\ end' = next
     /\ start' = IF next = start THEN next ELSE start

AppendEntry(e) ==
  LET next == (end + 1) % N
  IN /\ buffer' = [buffer EXCEPT ![end] = e]
     /\ end' = next
     /\ start' = IF next = start THEN (next + 1) % N ELSE start

Next == \E e \in Entry : AppendEntry(e)

Spec == Init /\ [][Next]_ringVars

-----------------------------------------------------------------------------
prev(i) == IF i - 1 < 0 THEN i - 1 + N ELSE i - 1

(* Mutant of Each: the loop stops at start itself, before the oldest entry *)
EachShort ==
  LET at[i \in 0 .. N] == IF i = 0 THEN prev(end) ELSE prev(at[i - 1])
      stop == CHOOSE i \in 0 .. N :
                at[i] = start /\ \A j \in 0 .. i - 1 : at[j] # start
  IN IF start = end THEN <<>> ELSE [i \in 1 .. stop |-> buffer[at[i - 1]]]

(* The loop of Each: from the slot before end down to the one before start *)
Each ==
  LET at[i \in 0 .. N] == IF i = 0 THEN prev(end) ELSE prev(at[i - 1])
      stop == CHOOSE i \in 0 .. N :
                at[i] = prev(start) /\ \A j \in 0 .. i - 1 : at[j] # prev(start)
  IN IF start = end THEN <<>> ELSE [i \in 1 .. stop |-> buffer[at[i - 1]]]

(* The results of Find after each of the entries that Each sends: matches  *)
(* are taken until there are most of them, when the loop breaks.           *)
Found(entries, nickname, most) ==
  LET found[i \in 0 .. Len(entries)] ==
        IF i = 0 THEN <<>>
        ELSE LET results == found[i - 1]
             IN IF NickOf[entries[i]] = nickname /\ Len(results) < most
                THEN Append(results, entries[i]) ELSE results
  IN found

(* Mutant of Find: the limit is compared with > instead of >=.             *)
FindOneMore(nickname, limit) ==
  LET entries == Each IN Found(entries, nickname, limit + 1)[Len(entries)]

(* Find looks at the limit only after taking a match.                      *)
Find(nickname, limit) ==
  LET entries == Each
  IN Found(entries, nickname, IF limit < 1 THEN 1 ELSE limit)[Len(entries)]

-----------------------------------------------------------------------------
TypeOK ==
  /\ buffer \in [Slot -> Entry \cup {Nil}]
  /\ start \in Slot
  /\ end \in Slot

(* How many entries the ring holds, and the i-th newest of them, as a      *)
(* closed form of the two indices.                                         *)
Held == IF start <= end THEN end - start ELSE end - start + N
Newest(i) == IF end - i >= 0 THEN buffer[end - i] ELSE buffer[end - i + N]
Contents == [i \in 1 .. Held |-> Newest(i)]

(* The loop of Each visits exactly the entries held, newest first: it      *)
(* neither stops short nor runs past start into slots Append has given up  *)
(* or never written.                                                       *)
EachIsContents == Each = Contents

(* Find returns what WHOWAS asks of it: the newest matching entries, in    *)
(* order, as many as there are up to the limit (and one for limit 0).      *)
FindIsNewestMatches ==
  \A nickname \in {NickOf[e] : e \in Entry}, limit \in 0 .. N :
    LET found == Find(nickname, limit)
        match == {i \in 1 .. Held : NickOf[Newest(i)] = nickname}
    IN /\ \A k \in 1 .. Len(found) :
            \E i \in match : /\ found[k] = Newest(i)
                             /\ Cardinality({j \in match : j < i}) = k - 1
       /\ \/ Len(found) = Cardinality(match)
          \/ /\ Len(found) < Cardinality(match)
             /\ Len(found) = (IF limit = 0 THEN 1 ELSE limit)

(* The ring implements the bounded history of its N - 1 newest entries.    *)
History == INSTANCE WhoWasHistory WITH Capacity <- N - 1, history <- Contents
RingIsHistory == History!HistorySpec
=============================================================================
