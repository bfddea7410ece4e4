----------------------------- MODULE ReplyLines -----------------------------
(***************************************************************************)
(* MultilineReply, by which NAMES and WHOIS send a list of names in        *)
(* several lines.  A name is its length; channels that WHOIS hides leave   *)
(* empty names at the end of the list.  As in the code, from and to count  *)
(* from 0 and the slice from : to ends before to.                          *)
(*                                                                         *)
(* The names come after one argument, the channel or the nickname that the *)
(* list is of.  What is measured is the format with its two verbs as it    *)
(* stands (NewNumericReply without arguments), not the line with the       *)
(* argument in its place.                                                  *)
(***************************************************************************)
EXTENDS Integers, Sequences, FiniteSets

CONSTANTS
  Names,         \* the lists of names that may be sent
  ArgLength,     \* the lengths the argument may have
  BareLength,    \* the length of the header and the format with its verbs
  MaxReplyLen    \* MAX_REPLY_LEN

Verbs == 2 * 2   \* the length of "%s" twice, for the argument and the names

ASSUME ReplyLinesAssumption ==
  /\ Names \subseteq Seq(Nat)
  /\ ArgLength \subseteq Nat
  /\ BareLength \in Nat /\ BareLength >= Verbs
  /\ MaxReplyLen \in Nat

VARIABLES names, argLen, from, to, sent, returned

replyVars == <<names, argLen, from, to, sent, returned>>

(* The names and the spaces between them; a character is a name and a      *)
(* place in it.                                                            *)
Characters(i, j) == UNION {{k} \X (1 .. names[k]) : k \in i + 1 .. j}
joinedLen(i, j) == Cardinality(Characters(i, j)) + (j - i - 1)

baseLen == BareLength
tooLong(i, j) == baseLen + joinedLen(i, j) > MaxReplyLen

(* The length of the line that is sent.                                    *)
replyLen(i, j) == (BareLength - Verbs) + argLen + joinedLen(i, j)

ReplyInit ==
  /\ names \in Names /\ argLen \in ArgLength
  /\ from = 0 /\ to = 1
  /\ sent = <<>>
  /\ returned = FALSE

(* Mutant of SendLine: the next line begins at the name after to.          *)
SendLineSkips ==
  /\ to < Len(names)
  /\ from < to - 1 /\ tooLong(from, to)
  /\ sent' = Append(sent, <<from, to - 1>>)
  /\ from' = to
  /\ UNCHANGED <<names, argLen, to, returned>>

(* The names without the last one make a line.                             *)
SendLine ==
  /\ to < Len(names)
  /\ from < to - 1 /\ tooLong(from, to)
  /\ sent' = Append(sent, <<from, to - 1>>)
  /\ from' = to - 1
  /\ UNCHANGED <<names, argLen, to, returned>>

(* Mutant of NextName: the line is measured only at its third name.        *)
NextNameUnmeasured ==
  /\ to < Len(names)
  /\ from < to - 2 => ~tooLong(from, to)
  /\ to' = to + 1
  /\ UNCHANGED <<names, argLen, from, sent, returned>>

NextName ==
  /\ to < Len(names)
  /\ from < to - 1 => ~tooLong(from, to)
  /\ to' = to + 1
  /\ UNCHANGED <<names, argLen, from, sent, returned>>

(* What is left is the last line; nobody measures it with its last name.   *)
SendRest ==
  /\ to >= Len(names) /\ ~returned
  /\ sent' = IF from < Len(names) THEN Append(sent, <<from, Len(names)>>) ELSE sent
  /\ returned' = TRUE
  /\ UNCHANGED <<names, argLen, from, to>>

ReplyNext == SendLine \/ NextName \/ SendRest

ReplySpec == ReplyInit /\ [][ReplyNext]_replyVars

-----------------------------------------------------------------------------
(* Every name is sent once and in order: the lines follow on each other,   *)
(* none is empty, and in the end they reach the last name.                 *)
NamesOnceInOrder ==
  /\ \A i \in 1 .. Len(sent) :
       /\ sent[i][1] < sent[i][2]
       /\ sent[i][1] = IF i = 1 THEN 0 ELSE sent[i - 1][2]
  /\ LET end == IF sent = <<>> THEN 0 ELSE sent[Len(sent)][2]
     IN end = IF returned THEN Len(names) ELSE from

(* The lines are cut by what is measured.  A line of several names exceeds *)
(* MAX_REPLY_LEN by no more than the argument exceeds the verbs, which are *)
(* measured in its place; of the last line that is true of all but its     *)
(* last name, for the code never measures the line it ends with.  And no   *)
(* line is cut early: with one more name it would exceed that.  (That a    *)
(* line keeps to MAX_REPLY_LEN itself is not so.)                          *)
CutAsMeasured ==
  LET allowed == MaxReplyLen + (argLen - Verbs)
  IN \A i \in 1 .. Len(sent) :
       LET last == returned /\ i = Len(sent)
           end == IF last THEN sent[i][2] - 1 ELSE sent[i][2]
       IN /\ sent[i][1] < end - 1 => replyLen(sent[i][1], end) <= allowed
          /\ ~last => replyLen(sent[i][1], end + 1) > allowed
=============================================================================
