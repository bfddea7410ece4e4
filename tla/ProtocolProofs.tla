--------------------------- MODULE ProtocolProofs ---------------------------
(***************************************************************************)
(* What a single client's exchanges with the server keep: the reply in     *)
(* several lines (ReplyLines), for every list of names and every limit;    *)
(* the negotiation before registration (Negotiation), for any accounts and *)
(* capabilities; and the parser (Parsing), for lines of any tokens.        *)
(***************************************************************************)
EXTENDS Negotiation, ReplyLines, Parsing, Iteration, FiniteSetTheorems, FunctionTheorems,
  SequenceTheorems, TLAPS

-----------------------------------------------------------------------------
(* ReplyLines.  What a line's length is does not matter to the argument    *)
(* until its end: tooLong is never expanded but for the lemma that it      *)
(* depends on the names alone.                                             *)

(* The slice that is being measured is one name ahead of what is known to  *)
(* fit: all but its last name have been measured, unless it is a single    *)
(* name.                                                                   *)
Measured == from < to - 2 => ~tooLong(from, to - 1)

(* CutAsMeasured in terms of what the code measures.                       *)
LinesCut ==
  \A i \in 1 .. Len(sent) :
    LET last == returned /\ i = Len(sent)
        end == IF last THEN sent[i][2] - 1 ELSE sent[i][2]
    IN /\ sent[i][1] < end - 1 => ~tooLong(sent[i][1], end)
       /\ ~last => tooLong(sent[i][1], end + 1) /\ end < Len(names)

ReplyInv ==
  /\ names \in Seq(Nat) /\ argLen \in Nat /\ from \in Nat /\ to \in Nat /\ returned \in BOOLEAN
  /\ sent \in Seq(Nat \X Nat)
  /\ from < to /\ (to <= Len(names) \/ to = 1)
  /\ returned => Len(names) <= to
  /\ Measured
  /\ NamesOnceInOrder /\ LinesCut

(* The names do not change, and so neither does what is too long.          *)
LEMMA SameLength ==
  ASSUME names' = names, NEW i, NEW j
  PROVE  tooLong(i, j)' <=> tooLong(i, j)
BY DEF tooLong, joinedLen, Characters

LEMMA LinesCutNext ==
  ASSUME names' = names
  PROVE  LinesCut' <=>
           \A i \in 1 .. Len(sent') :
             LET last == returned' /\ i = Len(sent')
                 end == IF last THEN sent'[i][2] - 1 ELSE sent'[i][2]
             IN /\ sent'[i][1] < end - 1 => ~tooLong(sent'[i][1], end)
                /\ ~last => tooLong(sent'[i][1], end + 1) /\ end < Len(names)
BY DEF LinesCut, tooLong, joinedLen, Characters

(* What appending a line does to the lines.                                *)
LEMMA AppendLine ==
  ASSUME sent \in Seq(Nat \X Nat), NEW a \in Nat, NEW b \in Nat,
         sent' = Append(sent, <<a, b>>)
  PROVE  /\ sent' \in Seq(Nat \X Nat)
         /\ Len(sent') = Len(sent) + 1
         /\ sent'[Len(sent) + 1] = <<a, b>>
         /\ \A i \in 1 .. Len(sent) : sent'[i] = sent[i]
         /\ sent' # <<>>
OBVIOUS

LEMMA Pair ==
  ASSUME NEW a, NEW b, NEW l, l = <<a, b>> PROVE l[1] = a /\ l[2] = b
OBVIOUS

(* A line that begins where the last one ends follows on the others.       *)
LEMMA LineFollows ==
  ASSUME sent \in Seq(Nat \X Nat), NEW a \in Nat, NEW b \in Nat, a < b,
         sent' = Append(sent, <<a, b>>),
         NamesOnceInOrder, ~returned, a = from
  PROVE  /\ \A i \in 1 .. Len(sent') :
              /\ sent'[i][1] < sent'[i][2]
              /\ sent'[i][1] = IF i = 1 THEN 0 ELSE sent'[i - 1][2]
         /\ sent' # <<>> /\ sent'[Len(sent')][2] = b
<1>1. /\ Len(sent') = Len(sent) + 1
      /\ sent'[Len(sent) + 1] = <<a, b>>
      /\ \A i \in 1 .. Len(sent) : sent'[i] = sent[i]
      /\ sent' # <<>>
  BY AppendLine
<1>2. a = IF Len(sent) = 0 THEN 0 ELSE sent[Len(sent)][2]
  BY DEF NamesOnceInOrder
<1>3. ASSUME NEW i \in 1 .. Len(sent)
      PROVE  /\ sent'[i][1] < sent'[i][2]
             /\ sent'[i][1] = IF i = 1 THEN 0 ELSE sent'[i - 1][2]
  <2>1. i = 1 \/ i - 1 \in 1 .. Len(sent)
    OBVIOUS
  <2> QED BY <1>1, <2>1 DEF NamesOnceInOrder
<1>4. ASSUME NEW i \in Nat, i = Len(sent) + 1
      PROVE  /\ sent'[i][1] < sent'[i][2]
             /\ sent'[i][1] = IF i = 1 THEN 0 ELSE sent'[i - 1][2]
  <2>1. sent'[i] = <<a, b>>
    BY <1>1, <1>4
  <2>2. CASE Len(sent) = 0
    BY <1>2, <1>4, <2>1, <2>2
  <2>3. CASE Len(sent) # 0
    <3>1. i # 1 /\ i - 1 = Len(sent) /\ Len(sent) \in 1 .. Len(sent)
      BY <1>4, <2>3
    <3>2. sent'[i - 1] = sent[Len(sent)]
      BY <1>1, <3>1
    <3>3. a = sent[Len(sent)][2]
      BY <1>2, <2>3
    <3> QED BY <2>1, <3>1, <3>2, <3>3, Pair
  <2> QED BY <2>2, <2>3
<1>5. \A i \in 1 .. Len(sent') : i \in 1 .. Len(sent) \/ (i \in Nat /\ i = Len(sent) + 1)
  BY <1>1
<1>6. sent'[Len(sent')][2] = b
  BY <1>1
<1> QED BY <1>1, <1>3, <1>4, <1>5, <1>6

LEMMA ReplyInitial == ReplyInit => ReplyInv
<1> SUFFICES ASSUME ReplyInit PROVE ReplyInv
  OBVIOUS
<1>1. names \in Seq(Nat) /\ sent \in Seq(Nat \X Nat) /\ 1 .. Len(sent) = {}
  BY ReplyLinesAssumption DEF ReplyInit
<1>2. NamesOnceInOrder /\ LinesCut
  BY <1>1 DEF ReplyInit, NamesOnceInOrder, LinesCut
<1>3. from = 0 /\ to = 1 /\ returned \in BOOLEAN /\ ~returned
  BY DEF ReplyInit
<1>4. Measured /\ argLen \in Nat
  BY <1>3, ReplyLinesAssumption DEF Measured, ReplyInit
<1> QED BY <1>1, <1>2, <1>3, <1>4 DEF ReplyInv

LEMMA SendLineKeeps == ASSUME ReplyInv, SendLine PROVE ReplyInv'
<1> USE DEF SendLine
<1>1. /\ sent' = Append(sent, <<from, to - 1>>)
      /\ from \in Nat /\ to - 1 \in Nat /\ sent \in Seq(Nat \X Nat)
  BY DEF ReplyInv
<1>2. /\ sent' \in Seq(Nat \X Nat)
      /\ Len(sent') = Len(sent) + 1
      /\ sent'[Len(sent) + 1] = <<from, to - 1>>
      /\ \A i \in 1 .. Len(sent) : sent'[i] = sent[i]
      /\ sent' # <<>>
  BY <1>1, AppendLine
<1>3. Measured'
  BY DEF Measured, ReplyInv
<1>4. NamesOnceInOrder'
  <2>1. ~returned /\ from < to - 1
    BY DEF ReplyInv
  <2>2. /\ \A i \in 1 .. Len(sent') :
             /\ sent'[i][1] < sent'[i][2]
             /\ sent'[i][1] = IF i = 1 THEN 0 ELSE sent'[i - 1][2]
        /\ sent' # <<>> /\ sent'[Len(sent')][2] = to - 1
    BY <1>1, <2>1, LineFollows DEF ReplyInv
  <2> QED BY <2>1, <2>2 DEF NamesOnceInOrder
<1>5. LinesCut'
  <2> SUFFICES ASSUME NEW i \in 1 .. Len(sent')
               PROVE  LET last == returned' /\ i = Len(sent')
                          end == IF last THEN sent'[i][2] - 1 ELSE sent'[i][2]
                      IN /\ sent'[i][1] < end - 1 => ~tooLong(sent'[i][1], end)
                         /\ ~last => tooLong(sent'[i][1], end + 1) /\ end < Len(names)
    BY LinesCutNext
  <2>1. ~returned /\ ~returned'
    BY DEF ReplyInv
  <2>2. CASE i = Len(sent) + 1
    BY <2>1, <2>2, <1>2 DEF ReplyInv, Measured
  <2>3. CASE i \in 1 .. Len(sent)
    BY <2>1, <2>3, <1>2 DEF ReplyInv, LinesCut
  <2>4. i \in 1 .. Len(sent) \/ i = Len(sent) + 1
    BY <1>1, <1>2
  <2> QED BY <2>2, <2>3, <2>4
<1> QED BY <1>2, <1>3, <1>4, <1>5 DEF ReplyInv

LEMMA NextNameKeeps == ASSUME ReplyInv, NextName PROVE ReplyInv'
<1>1. Measured'
  BY SameLength DEF NextName, Measured, ReplyInv
<1>2. NamesOnceInOrder'
  BY DEF NextName, NamesOnceInOrder, ReplyInv
<1>3. LinesCut'
  BY LinesCutNext DEF NextName, LinesCut, ReplyInv
<1> QED BY <1>1, <1>2, <1>3 DEF NextName, ReplyInv

LEMMA SendRestKeeps == ASSUME ReplyInv, SendRest PROVE ReplyInv'
<1>1. Measured'
  BY SameLength DEF SendRest, Measured, ReplyInv
<1>2. CASE from < Len(names)
  <2>1. /\ sent' = Append(sent, <<from, Len(names)>>)
        /\ from \in Nat /\ Len(names) \in Nat /\ sent \in Seq(Nat \X Nat)
        /\ to = Len(names)
    BY <1>2 DEF SendRest, ReplyInv
  <2>2. /\ sent' \in Seq(Nat \X Nat)
        /\ Len(sent') = Len(sent) + 1
        /\ sent'[Len(sent) + 1] = <<from, Len(names)>>
        /\ \A i \in 1 .. Len(sent) : sent'[i] = sent[i]
        /\ sent' # <<>>
    BY <2>1, AppendLine
  <2>3. NamesOnceInOrder'
    <3>1. /\ \A i \in 1 .. Len(sent') :
               /\ sent'[i][1] < sent'[i][2]
               /\ sent'[i][1] = IF i = 1 THEN 0 ELSE sent'[i - 1][2]
          /\ sent' # <<>> /\ sent'[Len(sent')][2] = Len(names)
      BY <1>2, <2>1, LineFollows DEF SendRest, ReplyInv
    <3> QED BY <3>1 DEF SendRest, NamesOnceInOrder
  <2>4. LinesCut'
    <3> SUFFICES ASSUME NEW i \in 1 .. Len(sent')
                 PROVE  LET last == returned' /\ i = Len(sent')
                            end == IF last THEN sent'[i][2] - 1 ELSE sent'[i][2]
                        IN /\ sent'[i][1] < end - 1 => ~tooLong(sent'[i][1], end)
                           /\ ~last => tooLong(sent'[i][1], end + 1) /\ end < Len(names)
      BY LinesCutNext DEF SendRest
    <3>1. CASE i = Len(sent) + 1
      BY <2>1, <2>2, <3>1 DEF SendRest, ReplyInv, Measured
    <3>2. CASE i \in 1 .. Len(sent)
      <4>1. i # Len(sent') /\ sent'[i] = sent[i] /\ ~returned
        BY <2>2, <3>2, SMTT(30) DEF SendRest, ReplyInv
      <4> QED BY <3>2, <4>1 DEF ReplyInv, LinesCut
    <3> QED BY <2>2, <3>1, <3>2 DEF ReplyInv
  <2> QED BY <1>1, <2>2, <2>3, <2>4 DEF SendRest, ReplyInv
<1>3. CASE ~(from < Len(names))
  <2>1. Len(names) = 0 /\ from = 0 /\ sent' = sent /\ names' = names
    BY <1>3 DEF SendRest, ReplyInv
  <2>2. sent = <<>>
    BY <2>1, SMTT(30) DEF SendRest, NamesOnceInOrder, ReplyInv
  <2>3. NamesOnceInOrder' /\ LinesCut'
    BY <2>1, <2>2 DEF SendRest, NamesOnceInOrder, LinesCut
  <2> QED BY <1>1, <2>1, <2>3 DEF SendRest, ReplyInv
<1> QED BY <1>2, <1>3

LEMMA ReplyStutter == ASSUME ReplyInv, UNCHANGED replyVars PROVE ReplyInv'
<1>1. Measured' /\ LinesCut'
  BY SameLength, LinesCutNext DEF replyVars, ReplyInv, Measured, LinesCut
<1> QED BY <1>1 DEF replyVars, ReplyInv, NamesOnceInOrder

(* The inductive invariant of MultilineReply holds.                        *)
THEOREM ReplyInvariant == ReplySpec => []ReplyInv
<1>1. ReplyInv /\ [ReplyNext]_replyVars => ReplyInv'
  BY SendLineKeeps, NextNameKeeps, SendRestKeeps, ReplyStutter DEF ReplyNext
<1> QED BY ReplyInitial, <1>1, PTL DEF ReplySpec

(* MultilineReply sends every name once and in order, for every list.      *)
THEOREM NamesOnceInOrderCorrect == ReplySpec => []NamesOnceInOrder
<1>1. ReplyInv => NamesOnceInOrder
  BY DEF ReplyInv
<1> QED BY <1>1, ReplyInvariant, PTL

(* A length is a number, so that it can be compared.                       *)
LEMMA LengthType ==
  ASSUME names \in Seq(Nat), NEW i \in Nat, NEW j \in Nat, j <= Len(names)
  PROVE  joinedLen(i, j) \in Int
<1> DEFINE lines == {{k} \X (1 .. names[k]) : k \in i + 1 .. j}
<1>1. IsFiniteSet(lines)
  <2> DEFINE S == i + 1 .. j
             f == [k \in S |-> {k} \X (1 .. names[k])]
  <2>1. i + 1 \in Int /\ j \in Int
    OBVIOUS
  <2>2. IsFiniteSet(S)
    BY <2>1, FS_Interval
  <2>3. lines = {f[k] : k \in S}
    OBVIOUS
  <2> HIDE DEF lines, S
  <2>4. f \in Surjection(S, lines)
    BY <2>3 DEF Surjection
  <2> QED BY <2>2, <2>4, FS_Surjection
<1>2. ASSUME NEW l \in lines PROVE IsFiniteSet(l)
  <2>1. PICK k \in i + 1 .. j : l = {k} \X (1 .. names[k])
    OBVIOUS
  <2>2. names[k] \in Nat
    OBVIOUS
  <2>3. IsFiniteSet(1 .. names[k]) /\ IsFiniteSet({k})
    <3>1. 1 \in Int /\ names[k] \in Int
      BY <2>2
    <3>2. IsFiniteSet(1 .. names[k])
      BY <3>1, FS_Interval
    <3>3. IsFiniteSet({k})
      BY FS_Singleton
    <3> QED BY <3>2, <3>3
  <2> QED BY <2>1, <2>3, FS_Product
<1>3. IsFiniteSet(UNION lines)
  <2> HIDE DEF lines
  <2> QED BY <1>1, <1>2, FS_UNION
<1>4. Cardinality(Characters(i, j)) \in Nat
  BY <1>3, FS_CardinalityType DEF Characters
<1> QED BY <1>4 DEF joinedLen

(* What is measured and what is sent differ by the same for every line.    *)
LEMMA MeasuredLength ==
  ASSUME names \in Seq(Nat), argLen \in Nat,
         NEW i \in Nat, NEW j \in Nat, j <= Len(names)
  PROVE  replyLen(i, j) <= MaxReplyLen + (argLen - Verbs) <=> ~tooLong(i, j)
<1>1. joinedLen(i, j) \in Int
  BY LengthType
<1> QED BY <1>1, ReplyLinesAssumption DEF replyLen, tooLong, baseLen, Verbs

(* Every line is cut where its measured length asks for it, for every list *)
(* of names and every limit.                                               *)
THEOREM CutAsMeasuredCorrect == ReplySpec => []CutAsMeasured
<1>1. ReplyInv => CutAsMeasured
  <2> SUFFICES ASSUME ReplyInv, NEW i \in 1 .. Len(sent)
               PROVE  LET last == returned /\ i = Len(sent)
                          end == IF last THEN sent[i][2] - 1 ELSE sent[i][2]
                          allowed == MaxReplyLen + (argLen - Verbs)
                      IN /\ sent[i][1] < end - 1 => replyLen(sent[i][1], end) <= allowed
                         /\ ~last => replyLen(sent[i][1], end + 1) > allowed
    BY DEF CutAsMeasured
  <2> DEFINE last == returned /\ i = Len(sent)
             end == IF last THEN sent[i][2] - 1 ELSE sent[i][2]
             first == sent[i][1]
  <2>1. /\ first \in Nat /\ end \in Nat /\ end <= Len(names)
        /\ first < end - 1 => ~tooLong(first, end)
        /\ ~last => tooLong(first, end + 1) /\ end < Len(names)
    <3>1. sent[i] \in Nat \X Nat /\ first < sent[i][2]
      BY DEF ReplyInv, NamesOnceInOrder
    <3>2. first \in Nat /\ end \in Nat
      BY <3>1
    <3>3. /\ first < end - 1 => ~tooLong(first, end)
          /\ ~last => tooLong(first, end + 1) /\ end < Len(names)
      BY DEF ReplyInv, LinesCut
    <3>4. last => sent[i][2] = Len(names)
      BY DEF ReplyInv, NamesOnceInOrder
    <3>5. Len(names) \in Nat /\ sent[i][2] \in Nat
      BY <3>1 DEF ReplyInv
    <3> QED BY <3>2, <3>3, <3>4, <3>5
  <2> HIDE DEF last, end, first
  <2>2. names \in Seq(Nat) /\ argLen \in Nat
    BY DEF ReplyInv
  <2>3. first < end - 1 => replyLen(first, end) <= MaxReplyLen + (argLen - Verbs)
    BY <2>1, <2>2, MeasuredLength
  <2>4. ~last => replyLen(first, end + 1) > MaxReplyLen + (argLen - Verbs)
    <3> SUFFICES ASSUME ~last PROVE replyLen(first, end + 1) > MaxReplyLen + (argLen - Verbs)
      OBVIOUS
    <3>1. end + 1 \in Nat /\ end + 1 <= Len(names) /\ Len(names) \in Nat
      BY <2>1, <2>2
    <3>2. ~(replyLen(first, end + 1) <= MaxReplyLen + (argLen - Verbs))
      BY <2>1, <2>2, <3>1, MeasuredLength
    <3>3. replyLen(first, end + 1) \in Int
      <4>1. joinedLen(first, end + 1) \in Int
        BY <2>1, <2>2, <3>1, LengthType
      <4> QED BY <2>2, <4>1, ReplyLinesAssumption DEF replyLen, Verbs
    <3> QED BY <2>2, <3>2, <3>3, ReplyLinesAssumption DEF Verbs
  <2> QED BY <2>3, <2>4 DEF last, end, first
<1> QED BY <1>1, ReplyInvariant, PTL
-----------------------------------------------------------------------------
(* Negotiation                                                             *)

SaslState ==
  [started : BOOLEAN, buffer : Seq(Message), authcid : Account \cup {NoAccount}]

NegotiationTypeOK ==
  /\ sasl \in SaslState
  /\ userRegistered \in BOOLEAN
  /\ proven \subseteq DOMAIN passwords

(* Text is kept in the buffer only while an exchange is open ...           *)
IdleEmpty == ~sasl.started => sasl.buffer = <<>>

(* ... and whatever right password is left in it has been counted.         *)
Shown(m, i) == (m.kind = "blob" \/ (m.kind = "rest" /\ i > 1)) /\ Verify(m)

BufferProven ==
  \A i \in 1 .. Len(sasl.buffer) :
    Shown(sasl.buffer[i], i) => sasl.buffer[i].authcid \in proven

LoginInv ==
  /\ NegotiationTypeOK /\ permitted \in BOOLEAN
  /\ IdleEmpty /\ BufferProven /\ LoginVerified

LEMMA BlobMessage ==
  \A m \in Message : /\ m.kind = "blob" <=> m \in Blob
                     /\ m.kind \in {"blob", "rest"} => m.authcid \in Account
BY DEF Message, Blob, RestOfBlob

LEMMA PlainMessage == PLAIN \in Message /\ PLAIN.kind = "PLAIN" /\ PLAIN \notin Blob
BY DEF Message, Blob, RestOfBlob, PLAIN

LEMMA NewSaslType == NewSaslState \in SaslState /\ ~NewSaslState.started
                     /\ NewSaslState.buffer = <<>> /\ NewSaslState.authcid = NoAccount
BY DEF NewSaslState, SaslState

(* What is accepted is the last message in the buffer: a blob that is      *)
(* alone there, or a rest with text before it.                             *)
LEMMA DecodeAccepted ==
  ASSUME NEW buffer \in Seq(Message), Accepted(Decode(buffer))
  PROVE  LET last == Len(buffer)
         IN /\ last \in 1 .. Len(buffer) /\ Shown(buffer[last], last)
            /\ Decode(buffer).authcid = buffer[last].authcid
            /\ buffer[last].authcid \in Account
<1> DEFINE last == Len(buffer)
           data == Decode(buffer)
<1>1. data.kind = "blob" /\ Verify(data)
  BY Zenon DEF Accepted
<1>2. \/ last = 1 /\ data = buffer[1]
      \/ /\ last > 1 /\ buffer[last].kind = "rest"
         /\ data.authcid = buffer[last].authcid /\ data.password = buffer[last].password
  BY <1>1 DEF Decode
<1>3. last \in 1 .. Len(buffer) /\ buffer[last] \in Message
  BY <1>2
<1> HIDE DEF data
<1>4. CASE last = 1 /\ data = buffer[1]
  BY <1>1, <1>3, <1>4, BlobMessage DEF Shown, data
<1>5. CASE /\ last > 1 /\ buffer[last].kind = "rest"
           /\ data.authcid = buffer[last].authcid /\ data.password = buffer[last].password
  BY <1>1, <1>3, <1>5, BlobMessage DEF Shown, Verify, data
<1> QED BY <1>2, <1>4, <1>5

(* How the last message may end an exchange.                               *)
LEMMA CompleteEnds ==
  ASSUME NEW s \in SaslState, NEW buffer \in Seq(Message)
  PROVE  LET next == Complete(s, buffer)
         IN /\ next \in SaslState
            /\ \/ next = NewSaslState
               \/ /\ ~next.started /\ next.buffer = <<>>
                  /\ \E i \in 1 .. Len(buffer) :
                       Shown(buffer[i], i) /\ next.authcid = buffer[i].authcid
               \/ /\ next.started = s.started /\ next.buffer = buffer
                  /\ next.authcid = s.authcid
<1> DEFINE next == Complete(s, buffer)
<1>1. CASE Decode(buffer).kind = "error"
  BY <1>1, NewSaslType DEF Complete, Accepted
<1>2. CASE Decode(buffer).kind # "error" /\ Accepted(Decode(buffer))
  <2>1. PICK i \in 1 .. Len(buffer) :
          /\ Shown(buffer[i], i) /\ buffer[i].authcid \in Account
          /\ Decode(buffer).authcid = buffer[i].authcid
    BY <1>2, DecodeAccepted
  <2>2. next = [NewSaslState EXCEPT !.authcid = buffer[i].authcid]
    BY <1>2, <2>1 DEF Complete
  <2>3. /\ next \in SaslState /\ ~next.started /\ next.buffer = <<>>
        /\ next.authcid = buffer[i].authcid
    BY <2>1, <2>2, NewSaslType DEF SaslState
  <2> QED BY <2>1, <2>3
<1>3. CASE Decode(buffer).kind # "error" /\ ~Accepted(Decode(buffer))
  <2>1. next = [s EXCEPT !.buffer = buffer]
    BY <1>3 DEF Complete
  <2> QED BY <2>1, SMTT(30) DEF SaslState
<1> QED BY <1>1, <1>2, <1>3

(* What one message makes of the state: the exchange goes on, the state is *)
(* reset, or a right password in this message or one in the buffer logs    *)
(* the client in.                                                          *)
GoesOn(s, next, arg) ==
  /\ next.authcid = s.authcid
  /\ s.started => next.started
  /\ next.buffer \in {s.buffer, Append(s.buffer, arg)}

LogsIn(s, next, arg) ==
  /\ s.started /\ ~next.started /\ next.buffer = <<>>
  /\ \/ \E i \in 1 .. Len(s.buffer) :
          Shown(s.buffer[i], i) /\ next.authcid = s.buffer[i].authcid
     \/ Shown(arg, Len(s.buffer) + 1) /\ next.authcid = arg.authcid

LEMMA AuthenticatedEnds ==
  ASSUME NEW s \in SaslState, ~s.started => s.buffer = <<>>, NEW arg \in Message
  PROVE  LET next == Authenticated(s, arg)
         IN /\ next \in SaslState
            /\ ~next.started => next.buffer = <<>>
            /\ GoesOn(s, next, arg) \/ next = NewSaslState \/ LogsIn(s, next, arg)
<1> DEFINE next == Authenticated(s, arg)
<1>0. s.buffer \in Seq(Message) /\ Append(s.buffer, arg) \in Seq(Message)
  BY DEF SaslState
<1>1. CASE next = s
  BY <1>1 DEF GoesOn
<1>2. CASE arg.kind # "*" /\ ~s.started
  <2>1. next = [s EXCEPT !.started = (arg = PLAIN)] /\ (arg = PLAIN) \in BOOLEAN
    BY <1>2 DEF Authenticated
  <2>2. next \in SaslState /\ next.buffer = s.buffer /\ next.authcid = s.authcid
    BY <2>1 DEF SaslState
  <2> QED BY <1>2, <2>2 DEF GoesOn
<1>3. CASE s.started /\ arg.kind = "full"
  <2>1. next = [s EXCEPT !.buffer = Append(@, arg)]
    BY <1>3 DEF Authenticated
  <2>2. /\ next \in SaslState /\ next.started /\ next.buffer = Append(s.buffer, arg)
        /\ next.authcid = s.authcid
    BY <1>0, <1>3, <2>1 DEF SaslState
  <2> QED BY <2>2 DEF GoesOn
<1>4. CASE s.started /\ arg.kind \notin {"*", "long", "full"}
  <2> DEFINE buffer == IF arg.kind = "+" THEN s.buffer ELSE Append(s.buffer, arg)
  <2>1. next = Complete(s, buffer) /\ buffer \in Seq(Message)
    BY <1>0, <1>4 DEF Authenticated
  <2>2. /\ buffer \in {s.buffer, Append(s.buffer, arg)}
        /\ \A i \in 1 .. Len(buffer) :
             \/ i \in 1 .. Len(s.buffer) /\ buffer[i] = s.buffer[i]
             \/ i = Len(s.buffer) + 1 /\ buffer[i] = arg
    BY <1>0
  <2> HIDE DEF buffer
  <2>3. CASE next = NewSaslState
    BY <2>3, NewSaslType
  <2>4. CASE /\ ~next.started /\ next.buffer = <<>> /\ next \in SaslState
             /\ \E i \in 1 .. Len(buffer) :
                  Shown(buffer[i], i) /\ next.authcid = buffer[i].authcid
    <3>1. PICK i \in 1 .. Len(buffer) : Shown(buffer[i], i) /\ next.authcid = buffer[i].authcid
      BY <2>4
    <3>2. CASE i \in 1 .. Len(s.buffer) /\ buffer[i] = s.buffer[i]
      BY <1>4, <2>4, <3>1, <3>2 DEF LogsIn
    <3>3. CASE i = Len(s.buffer) + 1 /\ buffer[i] = arg
      BY <1>4, <2>4, <3>1, <3>3 DEF LogsIn
    <3> QED BY <2>2, <3>2, <3>3
  <2>5. CASE /\ next.started = s.started /\ next.buffer = buffer
             /\ next.authcid = s.authcid /\ next \in SaslState
    BY <1>4, <2>2, <2>5 DEF GoesOn
  <2> QED BY <2>1, <2>3, <2>4, <2>5, CompleteEnds
<1> QED BY <1>1, <1>2, <1>3, <1>4 DEF Authenticated

(* A right password is counted whenever it is sent.                        *)
LEMMA SentProven ==
  ASSUME NegotiationTypeOK, NEW arg \in Message, Authenticate(arg)
  PROVE  /\ proven \subseteq proven' /\ proven' \subseteq DOMAIN passwords
         /\ Shown(arg, Len(sasl.buffer) + 1) => arg.authcid \in proven'
<1>1. Len(sasl.buffer) + 1 > 1 => sasl.buffer # <<>>
  BY DEF NegotiationTypeOK, SaslState
<1> QED BY <1>1 DEF Shown, Authenticate, Verify, NegotiationTypeOK

LEMMA AuthenticateKeeps ==
  ASSUME LoginInv, NEW arg \in Message, Authenticate(arg)
  PROVE  LoginInv'
<1> DEFINE success == sasl.started /\ ~sasl'.started /\ sasl'.authcid # NoAccount
<1>1. /\ sasl \in SaslState /\ (~sasl.started => sasl.buffer = <<>>)
      /\ sasl' = Authenticated(sasl, arg) /\ (userRegistered' <=> userRegistered \/ success)
  BY DEF LoginInv, NegotiationTypeOK, IdleEmpty, Authenticate
<1>2. /\ proven \subseteq proven' /\ proven' \subseteq DOMAIN passwords
      /\ Shown(arg, Len(sasl.buffer) + 1) => arg.authcid \in proven'
  BY SentProven DEF LoginInv
<1>3. /\ sasl' \in SaslState /\ IdleEmpty'
      /\ GoesOn(sasl, sasl', arg) \/ sasl' = NewSaslState \/ LogsIn(sasl, sasl', arg)
  BY <1>1, AuthenticatedEnds DEF IdleEmpty
<1>4. NegotiationTypeOK'
  BY <1>2, <1>3 DEF LoginInv, NegotiationTypeOK, Authenticate
<1>9. permitted /\ permitted' /\ permitted' \in BOOLEAN
  BY DEF Authenticate
<1>5. /\ userRegistered => userRegistered' /\ proven # {}
      /\ sasl.authcid # NoAccount => userRegistered /\ sasl.authcid \in proven'
      /\ \A i \in 1 .. Len(sasl.buffer) :
           Shown(sasl.buffer[i], i) => sasl.buffer[i].authcid \in proven'
  BY <1>1, <1>2 DEF LoginInv, LoginVerified, BufferProven
<1>6. CASE GoesOn(sasl, sasl', arg)
  <2>1. BufferProven'
    <3>1. sasl.buffer \in Seq(Message) /\ sasl'.buffer \in {sasl.buffer, Append(sasl.buffer, arg)}
      BY <1>1, <1>6 DEF GoesOn, SaslState
    <3>2. \A i \in 1 .. Len(sasl'.buffer) :
            Shown(sasl'.buffer[i], i) => sasl'.buffer[i].authcid \in proven'
      <4>1. CASE sasl'.buffer = sasl.buffer
        BY <1>5, <4>1
      <4>2. CASE sasl'.buffer = Append(sasl.buffer, arg)
        BY <1>2, <1>5, <3>1, <4>2
      <4> QED BY <3>1, <4>1, <4>2
    <3> QED BY <3>2 DEF BufferProven, Shown, Verify
  <2>2. ~success /\ sasl'.authcid = sasl.authcid
    BY <1>6 DEF GoesOn
  <2>3. LoginVerified'
    BY <1>1, <1>2, <1>5, <1>9, <2>2, Zenon DEF LoginVerified
  <2> QED BY <1>3, <1>4, <1>9, <2>1, <2>3 DEF LoginInv
<1>7. CASE sasl' = NewSaslState
  <2>1. sasl'.buffer = <<>> /\ sasl'.authcid = NoAccount
    BY <1>7, NewSaslType
  <2>2. userRegistered' <=> userRegistered
    BY <1>1, <2>1
  <2> QED
    BY <1>2, <1>3, <1>4, <1>5, <1>9, <2>1, <2>2 DEF LoginInv, LoginVerified, BufferProven
<1>8. CASE LogsIn(sasl, sasl', arg)
  <2>1. sasl'.buffer = <<>> /\ sasl'.authcid \in proven'
    BY <1>2, <1>5, <1>8 DEF LogsIn
  <2>2. sasl'.authcid # NoAccount
    BY <1>1, <1>8, BlobMessage, NegotiationAssumption DEF LogsIn, Shown, SaslState
  <2>3. userRegistered'
    BY <1>1, <1>8, <2>2 DEF LogsIn
  <2> QED BY <1>3, <1>4, <1>9, <2>1, <2>3 DEF LoginInv, LoginVerified, BufferProven
<1> QED BY <1>3, <1>6, <1>7, <1>8

(* CAP, PASS and OPER do not touch the exchange.                           *)
LEMMA LoginQuiet ==
  ASSUME LoginInv, UNCHANGED <<sasl, userRegistered, proven>>,
         permitted' \in {permitted, TRUE}
  PROVE  LoginInv'
BY DEF LoginInv, NegotiationTypeOK, IdleEmpty, BufferProven, LoginVerified, Shown, Verify

THEOREM LoginInvariant == NegotiationSpec => []LoginInv
<1>1. NegotiationInit => LoginInv
  <2> SUFFICES ASSUME NegotiationInit PROVE LoginInv
    OBVIOUS
  <2>1. sasl \in SaslState /\ ~sasl.started /\ sasl.buffer = <<>> /\ sasl.authcid = NoAccount
    BY NewSaslType DEF NegotiationInit
  <2>2. /\ ~userRegistered /\ userRegistered \in BOOLEAN /\ proven = {}
        /\ permitted \in BOOLEAN /\ sasl = NewSaslState
    BY DEF NegotiationInit
  <2> QED
    BY <2>1, <2>2 DEF LoginInv, NegotiationTypeOK, IdleEmpty, BufferProven, LoginVerified
<1>2. LoginInv /\ [NegotiationNext]_negotiationVars => LoginInv'
  BY AuthenticateKeeps, LoginQuiet DEF NegotiationNext, CapReq, CapClear, Permit, negotiationVars
<1> QED BY <1>1, <1>2, PTL DEF NegotiationSpec

(* Nobody is logged in, or has the account mode, without having sent the   *)
(* password of that account, whatever accounts and messages there are.     *)
THEOREM LoginCorrect == NegotiationSpec => []LoginVerified
<1>1. LoginInv => LoginVerified
  BY DEF LoginInv
<1> QED BY <1>1, LoginInvariant, PTL

(* PLAIN opens an exchange where there is none, and resets one that is     *)
(* open: it is no base64 text.                                             *)
LEMMA PlainOpensOrResets ==
  ASSUME NEW s \in SaslState
  PROVE  Authenticated(s, PLAIN) = IF s.started THEN NewSaslState ELSE [s EXCEPT !.started = TRUE]
<1>1. CASE ~s.started
  BY <1>1, PlainMessage DEF Authenticated
<1>2. CASE s.started
  <2> DEFINE buffer == Append(s.buffer, PLAIN)
  <2>1. Authenticated(s, PLAIN) = Complete(s, buffer)
    BY <1>2, PlainMessage DEF Authenticated
  <2>2. Len(buffer) \in Nat \ {0} /\ buffer[Len(buffer)].kind = "PLAIN"
    BY PlainMessage DEF SaslState
  <2> HIDE DEF buffer
  <2>3. Decode(buffer).kind = "error"
    BY <2>2 DEF Decode
  <2> QED BY <1>2, <2>1, <2>3 DEF Complete, Accepted
<1> QED BY <1>1, <1>2

(* The right blob after PLAIN: with nothing else in the buffer.            *)
LEMMA BlobLogsIn ==
  ASSUME NEW s \in SaslState, s.started, s.buffer = <<>>, NEW blob \in Blob, Accepted(blob)
  PROVE  Authenticated(s, blob).authcid = blob.authcid
<1>1. blob \in Message /\ blob.kind = "blob"
  BY DEF Message, Blob
<1>2. Authenticated(s, blob) = Complete(s, <<blob>>)
  BY <1>1 DEF Authenticated
<1>3. Decode(<<blob>>) = blob
  BY <1>1 DEF Decode
<1>4. Complete(s, <<blob>>) = [NewSaslState EXCEPT !.authcid = blob.authcid]
  BY <1>1, <1>3 DEF Complete
<1> QED BY <1>2, <1>4, NewSaslType DEF SaslState

(* A blob without an open exchange opens none.                             *)
LEMMA BlobAlone ==
  ASSUME NEW blob \in Blob
  PROVE  Authenticated(NewSaslState, blob) = NewSaslState
<1>1. blob.kind = "blob" /\ blob # PLAIN
  BY PlainMessage DEF Blob
<1>2. Authenticated(NewSaslState, blob) = [NewSaslState EXCEPT !.started = FALSE]
  BY <1>1, NewSaslType DEF Authenticated
<1> QED BY <1>2 DEF NewSaslState

LEMMA TwoTries ==
  ASSUME NEW s \in SaslState, ~s.started => s.buffer = <<>>, NEW blob \in Blob, Accepted(blob)
  PROVE  LET try(state) == Authenticated(Authenticated(state, PLAIN), blob)
         IN blob.authcid \in {try(s).authcid, try(try(s)).authcid}
<1> DEFINE try(state) == Authenticated(Authenticated(state, PLAIN), blob)
<1>1. ASSUME NEW state \in SaslState, ~state.started, state.buffer = <<>>
      PROVE  try(state).authcid = blob.authcid
  <2>1. Authenticated(state, PLAIN) = [state EXCEPT !.started = TRUE]
    BY <1>1, PlainOpensOrResets
  <2>2. /\ [state EXCEPT !.started = TRUE] \in SaslState
        /\ [state EXCEPT !.started = TRUE].started
        /\ [state EXCEPT !.started = TRUE].buffer = <<>>
    BY <1>1 DEF SaslState
  <2> QED BY <2>1, <2>2, BlobLogsIn
<1>2. CASE ~s.started
  BY <1>1, <1>2
<1>3. CASE s.started
  <2>1. try(s) = NewSaslState
    BY <1>3, PlainOpensOrResets, BlobAlone
  <2> QED BY <1>1, <2>1, NewSaslType
<1> QED BY <1>2, <1>3

(* Wherever an exchange was left, a client that sends PLAIN and the right  *)
(* blob twice is logged in.                                                *)
THEOREM RetryCorrect == NegotiationSpec => []RetryLogsIn
<1>1. LoginInv => RetryLogsIn
  BY TwoTries DEF LoginInv, NegotiationTypeOK, IdleEmpty, RetryLogsIn
<1> QED BY <1>1, LoginInvariant, PTL

(* Client and server agree on the capabilities that CAP turned on.         *)
THEOREM CapabilitiesCorrect == NegotiationSpec => []CapabilitiesAgreed
<1>1. NegotiationInit => CapabilitiesAgreed
  BY DEF NegotiationInit, CapabilitiesAgreed
<1>2. CapabilitiesAgreed /\ [NegotiationNext]_negotiationVars => CapabilitiesAgreed'
  BY DEF CapabilitiesAgreed, NegotiationNext, Authenticate, CapReq, CapClear, Permit,
         negotiationVars
<1> QED BY <1>1, <1>2, PTL DEF NegotiationSpec

-----------------------------------------------------------------------------
(* Parsing.  Every command of every line: what the arguments are made of,  *)
(* and then one lemma for each kind of command.                            *)

Text == Seq(Token)

(* A set of numbers has a least, and a bounded one a greatest number.      *)
LEMMA Least ==
  ASSUME NEW S \in SUBSET Nat, S # {}
  PROVE  Seqs!Min(S) \in S /\ \A n \in S : Seqs!Min(S) <= n
<1> DEFINE R == {p \in Nat \X Nat : p[1] < p[2]}
<1>1. IsWellFoundedOn(R, Nat)
  <2>1. OpToRel(<, Nat) = R
    BY DEF OpToRel
  <2> QED BY <2>1, NatLessThanWellFounded
<1> HIDE DEF R
<1>2. PICK x \in S : \A y \in S : ~ (<<y, x>> \in R)
  BY <1>1, WFMin, Zenon
<1>3. ASSUME NEW y \in S, y < x PROVE FALSE
  <2>1. y \in Nat /\ x \in Nat
    OBVIOUS
  <2>2. <<y, x>> \in R
    BY <1>3, <2>1 DEF R
  <2> QED BY <1>2, <2>2
<1>4. x \in Nat /\ S \subseteq Nat
  OBVIOUS
<1>5. \A y \in S : x <= y
  BY <1>3, <1>4
<1> QED BY <1>5 DEF Seqs!Min

LEMMA Greatest ==
  ASSUME NEW S \in SUBSET Nat, S # {}, NEW most \in Nat, \A n \in S : n <= most
  PROVE  Seqs!Max(S) \in S /\ \A n \in S : n <= Seqs!Max(S)
<1> DEFINE T == {k \in 0 .. most : most - k \in S}
<1>1. T # {} /\ T \in SUBSET Nat
  <2>1. PICK n \in S : TRUE
    OBVIOUS
  <2>2. most - n \in T
    BY <2>1
  <2>3. T \subseteq Nat
    OBVIOUS
  <2> HIDE DEF T
  <2> QED BY <2>2, <2>3
<1> DEFINE m == most - Seqs!Min(T)
<1>2. Seqs!Min(T) \in T /\ \A k \in T : Seqs!Min(T) <= k
  BY <1>1, Least
<1>3. m \in S
  BY <1>2
<1>4. \A n \in S : n <= m
  <2> SUFFICES ASSUME NEW n \in S PROVE n <= m
    OBVIOUS
  <2>1. most - n \in T /\ most - n \in Int /\ n \in Nat
    OBVIOUS
  <2>2. Seqs!Min(T) <= most - n /\ Seqs!Min(T) \in Nat
    BY <1>2, <2>1
  <2> HIDE DEF T
  <2> QED BY <2>1, <2>2
<1> HIDE DEF m
<1> QED BY <1>3, <1>4 DEF Seqs!Max

(* A part of a text is a text.                                             *)
LEMMA Part ==
  ASSUME NEW text \in Text, NEW m \in Nat \ {0}, NEW n \in Int, n <= Len(text)
  PROVE  SubSeq(text, m, n) \in Text
<1>1. \A i \in m .. n : text[i] \in Token
  BY DEF Text
<1> QED BY <1>1, SubSeqProperties DEF Text

(* Mapping token by token keeps a text a text.                             *)
LEMMA MapType ==
  ASSUME NEW f \in [Token -> Token], NEW text \in Text
  PROVE  Mapped(f, text) \in Text
BY DEF Mapped, Text

(* A name has one normal form.                                             *)
LEMMA NormalForm ==
  ASSUME NEW text \in Text
  PROVE  NewName(text) \in Text /\ NewName(NewName(text)) = NewName(text)
<1>1. NFKC \in [Token -> Token] /\ \A t \in Token : NFKC[NFKC[t]] = NFKC[t]
  BY ParsingAssumption
<1> QED BY <1>1 DEF NewName, Mapped, Text

(* Where the first token of a kind is, or 0.                               *)
LEMMA FirstIn ==
  ASSUME NEW n \in Nat, NEW S \in SUBSET (1 .. n)
  PROVE  (IF S # {} THEN Seqs!Min(S) ELSE 0) \in 0 .. n
<1>1. S \in SUBSET Nat
  OBVIOUS
<1>2. CASE S # {}
  <2>1. Seqs!Min(S) \in S
    BY <1>1, <1>2, Least
  <2>2. Seqs!Min(S) \in 1 .. n
    BY <2>1
  <2> QED BY <1>2, <2>2
<1>3. CASE S = {}
  BY <1>3
<1> QED BY <1>2, <1>3

(* What splitArg, a round of the loop and the whole loop make of a text.   *)
LEMMA SplitArgType ==
  ASSUME NEW text \in Text
  PROVE  splitArg(text)[1] \in Text /\ splitArg(text)[2] \in Text
<1> DEFINE end == Seqs!SelectInSeq(text, LAMBDA t : t = " ")
           rest == SubSeq(text, end, Len(text))
           spaces == Seqs!SelectInSeq(rest, LAMBDA t : t # " ")
<1>1. Len(text) \in Nat
  BY DEF Text
<1>2. end \in 0 .. Len(text)
  <2> DEFINE S == {i \in 1 .. Len(text) : text[i] = " "}
  <2>1. S \in SUBSET (1 .. Len(text)) /\ end = IF S # {} THEN Seqs!Min(S) ELSE 0
    BY DEF Seqs!SelectInSeq
  <2> HIDE DEF S, end
  <2> QED BY <1>1, <2>1, FirstIn
<1>3. splitArg(text) =
        CASE end = 0 -> <<text, <<>>>>
          [] end # 0 /\ spaces = 0 -> <<SubSeq(text, 1, end - 1), <<>>>>
          [] OTHER -> <<SubSeq(text, 1, end - 1), SubSeq(rest, spaces, Len(rest))>>
  BY DEF splitArg
<1> HIDE DEF end
<1>4. end # 0 => rest \in Text
  BY <1>1, <1>2, Part
<1>5. end # 0 => SubSeq(text, 1, end - 1) \in Text
  BY <1>1, <1>2, Part
<1>6. end # 0 => spaces \in 0 .. Len(rest) /\ Len(rest) \in Nat
  <2> DEFINE S == {i \in 1 .. Len(rest) : rest[i] # " "}
  <2>1. S \in SUBSET (1 .. Len(rest)) /\ spaces = IF S # {} THEN Seqs!Min(S) ELSE 0
    BY DEF Seqs!SelectInSeq
  <2>2. end # 0 => Len(rest) \in Nat
    BY <1>4 DEF Text
  <2> HIDE DEF S, rest, spaces
  <2> QED BY <2>1, <2>2, FirstIn
<1> HIDE DEF rest, spaces
<1>7. end # 0 /\ spaces # 0 => SubSeq(rest, spaces, Len(rest)) \in Text
  BY <1>4, <1>6, Part
<1>8. <<>> \in Text
  BY DEF Text
<1> HIDE DEF end
<1>9. CASE end = 0
  BY <1>3, <1>8, <1>9
<1>10. CASE end # 0 /\ spaces = 0
  BY <1>3, <1>5, <1>8, <1>10
<1>11. CASE end # 0 /\ spaces # 0
  BY <1>3, <1>5, <1>7, <1>11
<1> QED BY <1>9, <1>10, <1>11

LEMMA NextArgType ==
  ASSUME NEW text \in Text
  PROVE  nextArg(text)[1] \in Text /\ nextArg(text)[2] \in Text
<1>1. CASE Begins(text, ":")
  <2>1. Tail(text) \in Text /\ <<>> \in Text
    BY <1>1 DEF Begins, Text
  <2>2. nextArg(text) = <<Tail(text), <<>>>>
    BY <1>1 DEF nextArg
  <2> QED BY <2>1, <2>2
<1>2. CASE ~Begins(text, ":")
  BY <1>2, SplitArgType DEF nextArg
<1> QED BY <1>1, <1>2

(* What is left of a text after each round of the loop of ParseLine.       *)
LEMMA RestExists ==
  ASSUME NEW text \in Text
  PROVE  \E rest \in [0 .. Len(text) -> Text] :
           /\ \A i \in 0 .. Len(text) : rest[i] = IF i = 0 THEN text ELSE nextArg(rest[i - 1])[2]
           /\ ParseArgs(text) =
                [i \in 1 .. Cardinality({k \in 1 .. Len(text) : rest[k - 1] # <<>>}) |->
                  nextArg(rest[i - 1])[1]]
<1> DEFINE len == Len(text)
           Rest(g) == g = [i \in 0 .. len |-> IF i = 0 THEN text ELSE nextArg(g[i - 1])[2]]
           rest == CHOOSE g : Rest(g)
           Args(g) == [i \in 1 .. Cardinality({k \in 1 .. len : g[k - 1] # <<>>}) |->
                        nextArg(g[i - 1])[1]]
<1>1. len \in Nat
  BY DEF Text
<1>2. \E g : Rest(g)
  <2> DEFINE step == [p \in (1 .. len) \X Text |-> nextArg(p[2])[2]]
  <2>1. Rounds(step, len, Text)
    BY NextArgType DEF Rounds
  <2>2. \A i \in 1 .. len, t \in Text : step[<<i, t>>] = nextArg(t)[2]
    OBVIOUS
  <2> DEFINE D == Text
  <2>3. text \in D /\ Rounds(step, len, D)
    BY <2>1
  <2> HIDE DEF step, len, D, Rest, rest, Args
  <2>4. PICK f \in [0 .. len -> D] :
          f[0] = text /\ \A i \in 1 .. len : f[i] = step[<<i, f[i - 1]>>]
    BY <1>1, <2>3, IterationExists
  <2>5. /\ f \in [0 .. len -> Text] /\ f[0] = text
        /\ \A i \in 1 .. len : f[i] = step[<<i, f[i - 1]>>]
    BY <2>4 DEF D
  <2>6. \A i \in 1 .. len : i - 1 \in 0 .. len /\ f[i - 1] \in Text
    BY <1>1, <2>5
  <2>7. \A i \in 0 .. len : f[i] = IF i = 0 THEN text ELSE nextArg(f[i - 1])[2]
    <3>1. \A i \in 1 .. len : f[i] = nextArg(f[i - 1])[2]
      BY <2>2, <2>5, <2>6
    <3> QED BY <1>1, <2>5, <3>1
  <2>8. Rest(f)
    BY <2>5, <2>7 DEF Rest
  <2> QED BY <2>8
<1>3. Rest(rest)
  <2> HIDE DEF Rest
  <2> QED BY <1>2
<1>4. ParseArgs(text) = Args(rest)
  BY DEF ParseArgs
<1> HIDE DEF rest, len, Args
<1>5. \A i \in 0 .. len : rest[i] = IF i = 0 THEN text ELSE nextArg(rest[i - 1])[2]
  BY <1>3
<1>6. \A i \in 0 .. len : rest[i] \in Text
  <2> DEFINE S == {n \in Nat : n <= len => rest[n] \in Text}
  <2>1. 0 \in S
    BY <1>1, <1>5
  <2>2. ASSUME NEW n \in Nat, n \in S PROVE n + 1 \in S
    BY <1>1, <1>5, <2>2, NextArgType
  <2>3. Nat \subseteq S
    <3> HIDE DEF S
    <3> QED BY <2>1, <2>2, SetInduction
  <2> QED BY <1>1, <2>3
<1>7. rest \in [0 .. len -> Text]
  BY <1>3, <1>6
<1> QED BY <1>4, <1>5, <1>7 DEF len, Args

LEMMA ArgsType == ASSUME NEW text \in Text PROVE ParseArgs(text) \in Seq(Text)
<1> DEFINE len == Len(text)
<1>1. len \in Nat
  BY DEF Text
<1>2. PICK rest \in [0 .. len -> Text] :
        ParseArgs(text) = [i \in 1 .. Cardinality({k \in 1 .. len : rest[k - 1] # <<>>}) |->
                            nextArg(rest[i - 1])[1]]
  BY RestExists
<1> DEFINE rounds == {k \in 1 .. len : rest[k - 1] # <<>>}
<1> HIDE DEF len
<1>3. Cardinality(rounds) \in 0 .. len
  <2>1. rounds \in SUBSET (1 .. len) /\ IsFiniteSet(1 .. len) /\ Cardinality(1 .. len) = len
    BY <1>1, FS_Interval
  <2> HIDE DEF rounds
  <2>2. IsFiniteSet(rounds) /\ Cardinality(rounds) <= len
    BY <2>1, FS_Subset, ZenonT(40)
  <2> QED BY <1>1, <2>2, FS_CardinalityType
<1>4. ParseArgs(text) = [i \in 1 .. Cardinality(rounds) |-> nextArg(rest[i - 1])[1]]
  BY <1>2
<1> HIDE DEF rounds
<1>5. \A i \in 1 .. Cardinality(rounds) : nextArg(rest[i - 1])[1] \in Text
  <2> SUFFICES ASSUME NEW i \in 1 .. Cardinality(rounds)
               PROVE  nextArg(rest[i - 1])[1] \in Text
    OBVIOUS
  <2>1. rest[i - 1] \in Text
    BY <1>1, <1>2, <1>3
  <2> QED BY <2>1, NextArgType
<1> QED BY <1>1, <1>3, <1>4, <1>5

(* A line of tokens gives a text and a list of texts.                      *)
LEMMA LineType ==
  ASSUME NEW text \in Text
  PROVE  ParseLine(text).code \in Text /\ ParseLine(text).args \in Seq(Text)
<1> DEFINE whole == IF Begins(text, ":") THEN splitArg(text)[2] ELSE text
           cut == splitArg(whole)
<1>1. whole \in Text
  BY SplitArgType
<1>2. ParseLine(text) = [code |-> NewName(Mapped(Upper, cut[1])), args |-> ParseArgs(cut[2])]
  BY DEF ParseLine
<1> HIDE DEF whole
<1>3. cut[1] \in Text /\ cut[2] \in Text
  BY <1>1, SplitArgType
<1> HIDE DEF cut
<1>4. NewName(Mapped(Upper, cut[1])) \in Text
  BY <1>3, MapType, NormalForm, ParsingAssumption
<1>5. ParseArgs(cut[2]) \in Seq(Text)
  BY <1>3, ArgsType
<1> QED BY <1>2, <1>4, <1>5

Cuts(text, sep) == {i \in DOMAIN text : text[i] = sep}
NextCut(text, sep, before) == Seqs!Min({j \in Cuts(text, sep) : j > before} \cup {Len(text) + 1})

LEMMA CutsType ==
  ASSUME NEW text \in Text, NEW sep
  PROVE  /\ Len(text) \in Nat /\ Cuts(text, sep) \in SUBSET (1 .. Len(text))
         /\ Cardinality(Cuts(text, sep)) \in Nat
<1>1. Len(text) \in Nat /\ Cuts(text, sep) \in SUBSET (1 .. Len(text))
  BY DEF Text, Cuts
<1>2. IsFiniteSet(1 .. Len(text))
  BY <1>1, FS_Interval
<1>3. IsFiniteSet(Cuts(text, sep))
  BY <1>1, <1>2, FS_Subset
<1> QED BY <1>1, <1>3, FS_CardinalityType

LEMMA NextCutIs ==
  ASSUME NEW text \in Text, NEW sep, NEW before \in 0 .. Len(text) + 1
  PROVE  /\ NextCut(text, sep, before) \in 1 .. Len(text) + 1
         /\ \A j \in Cuts(text, sep) : j > before => NextCut(text, sep, before) <= j
<1> DEFINE S == {j \in Cuts(text, sep) : j > before} \cup {Len(text) + 1}
<1>1. S \subseteq 1 .. Len(text) + 1 /\ Len(text) + 1 \in S
  <2>1. \A j \in Cuts(text, sep) : j \in 1 .. Len(text) + 1
    BY CutsType
  <2>2. Len(text) + 1 \in 1 .. Len(text) + 1
    BY CutsType
  <2> QED BY <2>1, <2>2
<1>2. NextCut(text, sep, before) = Seqs!Min(S)
  BY DEF NextCut
<1>3. \A j \in Cuts(text, sep) : j > before => j \in S
  OBVIOUS
<1> HIDE DEF S
<1>4. S \in SUBSET Nat /\ S # {}
  BY <1>1, CutsType
<1>5. Seqs!Min(S) \in S /\ \A j \in S : Seqs!Min(S) <= j
  BY <1>4, Least
<1> QED BY <1>1, <1>2, <1>3, <1>5

(* Where the items of a list end.                                          *)
LEMMA SplitEnds ==
  ASSUME NEW text \in Text, NEW sep
  PROVE  \E end \in [0 .. Cardinality(Cuts(text, sep)) + 1 -> 0 .. Len(text) + 1] :
           /\ end[0] = 0
           /\ \A i \in 1 .. Cardinality(Cuts(text, sep)) + 1 :
                end[i] = NextCut(text, sep, end[i - 1])
           /\ Split(text, sep) = [i \in 1 .. Cardinality(Cuts(text, sep)) + 1 |->
                                    SubSeq(text, end[i - 1] + 1, end[i] - 1)]
<1> DEFINE n == Cardinality(Cuts(text, sep)) + 1
           D == 0 .. Len(text) + 1
           End(g) == g = [i \in 0 .. n |-> IF i = 0 THEN 0 ELSE NextCut(text, sep, g[i - 1])]
           end == CHOOSE g : End(g)
<1>1. Len(text) \in Nat /\ n \in Nat \ {0}
  BY CutsType
<1>2. Split(text, sep) = [i \in 1 .. n |-> SubSeq(text, end[i - 1] + 1, end[i] - 1)]
  BY DEF Split, Cuts, NextCut
<1> HIDE DEF n
<1>3. \E g : End(g)
  <2> DEFINE step == [p \in (1 .. n) \X D |-> NextCut(text, sep, p[2])]
  <2>1. 0 \in D /\ Rounds(step, n, D)
    BY <1>1, NextCutIs DEF Rounds
  <2>2. \A i \in 1 .. n, t \in D : step[<<i, t>>] = NextCut(text, sep, t)
    OBVIOUS
  <2> HIDE DEF step, D
  <2>3. PICK f \in [0 .. n -> D] :
          f[0] = 0 /\ \A i \in 1 .. n : f[i] = step[<<i, f[i - 1]>>]
    BY <1>1, <2>1, IterationExists, SMTT(30)
  <2>4. \A i \in 1 .. n : i - 1 \in 0 .. n /\ f[i - 1] \in D
    BY <1>1, <2>3
  <2>5. \A i \in 0 .. n : f[i] = IF i = 0 THEN 0 ELSE NextCut(text, sep, f[i - 1])
    <3>1. \A i \in 1 .. n : f[i] = NextCut(text, sep, f[i - 1])
      BY <2>2, <2>3, <2>4
    <3> QED BY <1>1, <2>3, <3>1
  <2>6. End(f)
    BY <2>3, <2>5
  <2> QED BY <2>6
<1>4. End(end)
  <2> HIDE DEF End
  <2> QED BY <1>3
<1> HIDE DEF end
<1>5. \A i \in 0 .. n : end[i] = IF i = 0 THEN 0 ELSE NextCut(text, sep, end[i - 1])
  BY <1>4
<1>6. \A i \in 0 .. n : end[i] \in D
  <2> DEFINE S == {k \in Nat : k <= n => end[k] \in D}
  <2>1. 0 \in S
    BY <1>1, <1>5
  <2>2. ASSUME NEW k \in Nat, k \in S PROVE k + 1 \in S
    BY <1>1, <1>5, <2>2, NextCutIs
  <2>3. Nat \subseteq S
    <3> HIDE DEF S
    <3> QED BY <2>1, <2>2, SetInduction
  <2> QED BY <1>1, <2>3
<1>7. end \in [0 .. n -> D]
  <2> HIDE DEF D
  <2> QED BY <1>4, <1>6
<1>8. end[0] = 0 /\ \A i \in 1 .. n : end[i] = NextCut(text, sep, end[i - 1])
  BY <1>1, <1>5
<1> QED BY <1>2, <1>7, <1>8 DEF n

(* An item ends before the next separator.                                 *)
LEMMA SplitItem ==
  ASSUME NEW text \in Text, NEW sep
  PROVE  /\ Split(text, sep) \in Seq(Text) /\ Len(Split(text, sep)) > 0
         /\ \A i \in DOMAIN Split(text, sep) :
              \A j \in DOMAIN Split(text, sep)[i] : Split(text, sep)[i][j] # sep
<1> DEFINE n == Cardinality(Cuts(text, sep)) + 1
<1>1. PICK end \in [0 .. n -> 0 .. Len(text) + 1] :
        /\ end[0] = 0
        /\ \A i \in 1 .. n : end[i] = NextCut(text, sep, end[i - 1])
        /\ Split(text, sep) = [i \in 1 .. n |-> SubSeq(text, end[i - 1] + 1, end[i] - 1)]
  BY SplitEnds
<1>2. Len(text) \in Nat /\ n \in Nat \ {0} /\ text \in [1 .. Len(text) -> Token]
  BY CutsType DEF Text
<1> HIDE DEF n
<1>3. ASSUME NEW i \in 1 .. n
      PROVE  LET item == SubSeq(text, end[i - 1] + 1, end[i] - 1)
             IN item \in Text /\ \A j \in DOMAIN item : item[j] # sep
  <2> DEFINE a == end[i - 1] + 1
             b == end[i] - 1
             item == SubSeq(text, a, b)
  <2>1. /\ end[i - 1] \in 0 .. Len(text) + 1 /\ end[i] \in 0 .. Len(text) + 1
        /\ end[i] = NextCut(text, sep, end[i - 1])
    <3>1. i \in 0 .. n /\ i - 1 \in 0 .. n
      BY <1>2
    <3> QED BY <1>1, <3>1
  <2>2. a \in Nat \ {0} /\ b \in Int /\ b <= Len(text)
    BY <1>2, <2>1
  <2>3. ASSUME NEW k \in a .. b PROVE k \in 1 .. Len(text) /\ text[k] # sep
    <3>1. k \in 1 .. Len(text) /\ k > end[i - 1] /\ ~(end[i] <= k)
      BY <1>2, <2>1
    <3>2. k \notin Cuts(text, sep)
      BY <2>1, <3>1, NextCutIs
    <3> QED BY <1>2, <3>1, <3>2 DEF Cuts
  <2> HIDE DEF a, b
  <2>4. /\ item \in Text /\ Len(item) = (IF a <= b THEN b - a + 1 ELSE 0)
        /\ \A j \in 1 .. b - a + 1 : item[j] = text[a + j - 1]
    <3>1. \A k \in a .. b : text[k] \in Token
      BY <1>2, <2>3
    <3> QED BY <2>2, <3>1, SubSeqProperties DEF Text
  <2>5. \A j \in DOMAIN item : j \in 1 .. b - a + 1
    <3>1. DOMAIN item = 1 .. Len(item)
      BY <2>4 DEF Text
    <3> QED BY <2>2, <2>4, <3>1
  <2> HIDE DEF item
  <2>6. \A j \in DOMAIN item : item[j] # sep
    <3> SUFFICES ASSUME NEW j \in DOMAIN item PROVE item[j] # sep
      OBVIOUS
    <3>1. j \in 1 .. b - a + 1 /\ a + j - 1 \in a .. b
      BY <2>2, <2>5
    <3> QED BY <2>3, <2>4, <3>1
  <2> QED BY <2>4, <2>6 DEF a, b, item
<1>4. \A i \in 1 .. n : Split(text, sep)[i] = SubSeq(text, end[i - 1] + 1, end[i] - 1)
  BY <1>1
<1>5. Split(text, sep) \in Seq(Text) /\ Len(Split(text, sep)) = n
  BY <1>1, <1>2, <1>3
<1>6. \A i \in DOMAIN Split(text, sep) : i \in 1 .. n
  BY <1>1
<1>7. ASSUME NEW i \in DOMAIN Split(text, sep)
      PROVE  \A j \in DOMAIN Split(text, sep)[i] : Split(text, sep)[i][j] # sep
  BY <1>3, <1>4, <1>6, Zenon
<1> QED BY <1>2, <1>5, <1>7

(* A text without a separator is a list of one item.                       *)
LEMMA SplitOne ==
  ASSUME NEW text \in Text, NEW sep, \A j \in DOMAIN text : text[j] # sep
  PROVE  Split(text, sep) = <<text>>
<1>1. Cuts(text, sep) = {} /\ Cardinality(Cuts(text, sep)) = 0
  BY FS_EmptySet DEF Cuts
<1>2. Len(text) \in Nat
  BY DEF Text
<1> DEFINE n == Cardinality(Cuts(text, sep)) + 1
<1>3. PICK end \in [0 .. n -> 0 .. Len(text) + 1] :
        /\ end[0] = 0
        /\ \A i \in 1 .. n : end[i] = NextCut(text, sep, end[i - 1])
        /\ Split(text, sep) = [i \in 1 .. n |-> SubSeq(text, end[i - 1] + 1, end[i] - 1)]
  BY SplitEnds
<1>4. n = 1
  BY <1>1
<1> HIDE DEF n
<1>5. NextCut(text, sep, 0) = Len(text) + 1
  <2>1. {j \in Cuts(text, sep) : j > 0} \cup {Len(text) + 1} = {Len(text) + 1}
    BY <1>1
  <2>2. {Len(text) + 1} \in SUBSET Nat /\ {Len(text) + 1} # {}
    BY <1>2
  <2>3. Seqs!Min({Len(text) + 1}) \in {Len(text) + 1}
    BY <2>2, Least
  <2> QED BY <2>1, <2>3 DEF NextCut
<1>6. end[0] + 1 = 1 /\ end[1] - 1 = Len(text)
  BY <1>2, <1>3, <1>5, <1>4
<1>7. SubSeq(text, 1, Len(text)) = text
  BY DEF Text
<1>8. \A i \in 1 .. 1 : SubSeq(text, end[i - 1] + 1, end[i] - 1) = text
  <2> SUFFICES ASSUME NEW i \in 1 .. 1 PROVE SubSeq(text, end[i - 1] + 1, end[i] - 1) = text
    OBVIOUS
  <2>1. i = 1 /\ i - 1 = 0
    OBVIOUS
  <2> QED BY <1>6, <1>7, <2>1, Zenon
<1> QED BY <1>3, <1>8, <1>4

-----------------------------------------------------------------------------
Canonical(name) == NewName(name) = name

(* NamesCanonical of a command that was made of args.                      *)
NameFields ==
  {"server", "server1", "server2", "nickname", "username", "hostname", "servername",
   "target", "name", "channel", "mask", "nick"}
ListFields == {"masks", "nicks", "nicknames", "channels", "kicks"}

Fit(command, args) ==
  /\ \A f \in DOMAIN command \cap NameFields : Canonical(command[f])
  /\ \A f \in DOMAIN command \cap ListFields :
       LET held == IF f = "kicks" \/ "zero" \in DOMAIN command
                    THEN DOMAIN command[f] ELSE Seqs!Range(command[f])
       IN \A name \in held : Canonical(name)
  /\ "kicks" \in DOMAIN command =>
       \A channel \in DOMAIN command.kicks : Canonical(command.kicks[channel])
  /\ \A f \in DOMAIN command \cap {"password", "arg"} : command[f] \in Seqs!Range(args)

(* Every argument, one that is missing too, makes a canonical name.        *)
LEMMA ArgType ==
  ASSUME NEW args \in Seq(Text), NEW i \in Nat \ {0}
  PROVE  Arg(args, i) \in Text /\ Canonical(NameArg(args, i))
<1>1. Arg(args, i) \in Text
  BY DEF Arg, Text
<1> QED BY <1>1, NormalForm DEF NameArg, Canonical

(* The names of a list are canonical, and so are those of an argument.     *)
LEMMA NamesType ==
  ASSUME NEW texts \in Seq(Text)
  PROVE  /\ NewNames(texts) \in Seq(Text)
         /\ \A name \in Seqs!Range(NewNames(texts)) : Canonical(name)
<1>1. \A i \in DOMAIN texts : NewName(texts[i]) \in Text /\ Canonical(NewName(texts[i]))
  BY NormalForm DEF Canonical
<1> QED BY <1>1 DEF NewNames, Seqs!Range

LEMMA NamesArgType ==
  ASSUME NEW args \in Seq(Text), NEW i \in 1 .. Len(args)
  PROVE  /\ NamesArg(args, i) \in Seq(Text)
         /\ \A name \in Seqs!Range(NamesArg(args, i)) : Canonical(name)
<1>1. args[i] \in Text
  OBVIOUS
<1>2. Split(args[i], ",") \in Seq(Text)
  BY <1>1, SplitItem
<1> QED BY <1>2, NamesType DEF NamesArg

(* A map has an entry for each of the names, with one of the values.       *)
LEMMA MapOfType ==
  ASSUME NEW texts \in Seq(Text), NEW values
  PROVE  /\ DOMAIN MapOf(texts, values) = Seqs!Range(texts)
         /\ \A n \in Seqs!Range(texts) :
              \E i \in DOMAIN texts : MapOf(texts, values)[n] = values[i]
<1>1. DOMAIN MapOf(texts, values) = Seqs!Range(texts)
  BY DEF MapOf
<1>2. ASSUME NEW n \in Seqs!Range(texts)
      PROVE  \E i \in DOMAIN texts : MapOf(texts, values)[n] = values[i]
  <2> DEFINE S == {i \in DOMAIN texts : texts[i] = n}
  <2>1. S # {}
    BY DEF Seqs!Range
  <2>2. Len(texts) \in Nat /\ S \in SUBSET Nat /\ \A i \in S : i <= Len(texts)
    OBVIOUS
  <2>3. MapOf(texts, values)[n] = values[Seqs!Max(S)]
    BY DEF MapOf
  <2>4. S \subseteq DOMAIN texts
    OBVIOUS
  <2> HIDE DEF S
  <2>5. Seqs!Max(S) \in S
    BY <2>1, <2>2, Greatest
  <2> QED BY <2>3, <2>4, <2>5
<1> QED BY <1>1, <1>2

(* Each command fits the arguments it is made of: its names are canonical. *)
LEMMA ErrorsFit == ASSUME NEW args PROVE Fit(NotEnoughArgs, args) /\ Fit(ErrParse, args)
BY DEF Fit, NotEnoughArgs, ErrParse, NameFields, ListFields

(* The commands with names, a text or an argument of their own.            *)
LEMMA NamedFit ==
  ASSUME NEW args \in Seq(Text)
  PROVE  /\ Fit(ParsePing(args), args)    /\ Fit(ParsePong(args), args)
         /\ Fit(ParsePrivMsg(args), args) /\ Fit(ParseNotice(args), args)
         /\ Fit(ParseTopic(args), args)   /\ Fit(ParseWho(args), args)
         /\ Fit(ParseMOTD(args), args)    /\ Fit(ParseVersion(args), args)
         /\ Fit(ParseInvite(args), args)  /\ Fit(ParseTime(args), args)
         /\ Fit(ParseKill(args), args)    /\ Fit(ParseOperNick(args), args)
<1> USE ErrorsFit, ArgType DEF Fit, Needs, NameFields, ListFields
<1>1. Fit(ParsePing(args), args) /\ Fit(ParsePong(args), args)
  BY DEF ParsePing, ParsePong
<1>2. Fit(ParsePrivMsg(args), args) /\ Fit(ParseNotice(args), args)
  BY DEF ParsePrivMsg, ParseNotice
<1>3. Fit(ParseTopic(args), args) /\ Fit(ParseWho(args), args)
  BY DEF ParseTopic, ParseWho
<1>4. Fit(ParseMOTD(args), args) /\ Fit(ParseVersion(args), args) /\ Fit(ParseTime(args), args)
  BY DEF ParseMOTD, ParseVersion, ParseTime
<1>5. Fit(ParseInvite(args), args) /\ Fit(ParseKill(args), args) /\ Fit(ParseOperNick(args), args)
  BY DEF ParseInvite, ParseKill, ParseOperNick
<1> QED BY <1>1, <1>2, <1>3, <1>4, <1>5

LEMMA NamelessFit ==
  ASSUME NEW args \in Seq(Text)
  PROVE  /\ Fit(ParseUnknown(args), args) /\ Fit(ParseQuit(args), args)
         /\ Fit(ParseRehash(args), args)  /\ Fit(ParseLUsers(args), args)
         /\ Fit(ParseCap(args), args)     /\ Fit(ParseAway(args), args)
         /\ Fit(ParseWallops(args), args)
BY ErrorsFit
   DEF Fit, Needs, NameFields, ListFields, ParseUnknown, ParseQuit, ParseRehash, ParseLUsers,
       ParseCap, ParseAway, ParseWallops

(* The password and the text of AUTHENTICATE are arguments.                *)
LEMMA TypedFit ==
  ASSUME NEW args \in Seq(Text)
  PROVE  /\ Fit(ParsePass(args), args) /\ Fit(ParseAuthenticate(args), args)
         /\ Fit(ParseOper(args), args)
<1>1. \A i \in 1 .. Len(args) : Arg(args, i) \in Seqs!Range(args)
  BY DEF Arg, Seqs!Range
<1> USE <1>1, ErrorsFit, ArgType DEF Fit, Needs, NameFields, ListFields
<1>2. Fit(ParsePass(args), args) /\ Fit(ParseAuthenticate(args), args)
  BY DEF ParsePass, ParseAuthenticate
<1>3. Fit(ParseOper(args), args)
  BY DEF ParseOper
<1> QED BY <1>2, <1>3

LEMMA NickFit ==
  ASSUME NEW args \in Seq(Text) PROVE Fit(ParseNick(args), args)
<1>1. Len(args) = 1 => Canonical(NewName(args[1]))
  BY NormalForm DEF Canonical
<1> QED BY <1>1, ErrorsFit DEF Fit, ParseNick, NameFields, ListFields

LEMMA UserFit ==
  ASSUME NEW args \in Seq(Text) PROVE Fit(ParseUser(args), args)
<1>1. ASSUME NEW realname, NEW flags, NEW unused
      PROVE  /\ Fit([username |-> NameArg(args, 1), realname |-> realname,
                     flags |-> flags, unused |-> unused], args)
             /\ Fit([username |-> NameArg(args, 1), realname |-> realname,
                     hostname |-> NameArg(args, 2), servername |-> NameArg(args, 3)], args)
  BY ArgType DEF Fit, NameFields, ListFields
<1> QED BY <1>1, ErrorsFit DEF ParseUser

LEMMA JoinFit ==
  ASSUME NEW args \in Seq(Text) PROVE Fit(ParseJoin(args), args)
<1> DEFINE channels == Split(args[1], ",")
           keys == Split(Arg(args, 2), ",")
           joined == MapOf(NewNames(channels), [i \in DOMAIN channels |-> NewText(Arg(keys, i))])
<1>1. ParseJoin(args) \in
        {NotEnoughArgs, [zero |-> TRUE, channels |-> <<>>], [zero |-> FALSE, channels |-> joined]}
  BY DEF ParseJoin
<1>2. args # <<>> => \A name \in DOMAIN joined : Canonical(name)
  <2> SUFFICES ASSUME args # <<>> PROVE \A name \in DOMAIN joined : Canonical(name)
    OBVIOUS
  <2>1. args[1] \in Text
    OBVIOUS
  <2>2. channels \in Seq(Text)
    BY <2>1, SplitItem
  <2>3. /\ NewNames(channels) \in Seq(Text)
        /\ \A name \in Seqs!Range(NewNames(channels)) : Canonical(name)
    BY <2>2, NamesType
  <2>4. DOMAIN joined = Seqs!Range(NewNames(channels))
    BY <2>3, MapOfType
  <2> QED BY <2>3, <2>4
<1>3. args = <<>> => ParseJoin(args) = NotEnoughArgs
  BY DEF ParseJoin
<1> HIDE DEF joined
<1>4. args # <<>> => Fit([zero |-> FALSE, channels |-> joined], args)
  BY <1>2 DEF Fit, NameFields, ListFields
<1>5. Fit([zero |-> TRUE, channels |-> <<>>], args)
  BY DEF Fit, NameFields, ListFields
<1> QED BY <1>1, <1>3, <1>4, <1>5, ErrorsFit

LEMMA KickFit ==
  ASSUME NEW args \in Seq(Text) PROVE Fit(ParseKick(args), args)
<1> DEFINE channels == NamesArg(args, 1)
           users == NamesArg(args, 2)
           user(i) == IF Len(users) = 1 THEN users[1] ELSE users[i]
           chosen == [i \in DOMAIN channels |-> user(i)]
           kicks == MapOf(channels, chosen)
<1>1. CASE Len(args) < 2 \/ Len(users) \notin {1, Len(channels)}
  BY <1>1, ErrorsFit DEF ParseKick
<1>2. CASE ~(Len(args) < 2) /\ Len(users) \in {1, Len(channels)}
  <2>1. ParseKick(args) = [kicks |-> kicks, comment |-> TextArg(args, 3)]
    BY <1>2 DEF ParseKick
  <2>2. 1 \in 1 .. Len(args) /\ 2 \in 1 .. Len(args)
    BY <1>2
  <2>3. /\ channels \in Seq(Text) /\ \A name \in Seqs!Range(channels) : Canonical(name)
        /\ users \in Seq(Text) /\ \A name \in Seqs!Range(users) : Canonical(name)
    BY <2>2, NamesArgType
  <2> HIDE DEF channels, users
  <2>4. \A i \in DOMAIN users : Canonical(users[i])
    BY <2>3 DEF Seqs!Range
  <2>5. \A i \in DOMAIN channels : Canonical(chosen[i])
    BY <1>2, <2>3, <2>4
  <2> HIDE DEF chosen, user
  <2>6. /\ DOMAIN kicks = Seqs!Range(channels)
        /\ \A n \in Seqs!Range(channels) :
             \E i \in DOMAIN channels : kicks[n] = chosen[i]
    BY <2>3, MapOfType
  <2> HIDE DEF kicks
  <2>7. \A name \in DOMAIN kicks : Canonical(name) /\ Canonical(kicks[name])
    BY <2>3, <2>5, <2>6
  <2> QED BY <2>1, <2>7 DEF Fit, NameFields, ListFields
<1> QED BY <1>1, <1>2

LEMMA ListsFit ==
  ASSUME NEW args \in Seq(Text)
  PROVE  /\ Fit(ParsePart(args), args)  /\ Fit(ParseList(args), args)
         /\ Fit(ParseNames(args), args) /\ Fit(ParseWhoWas(args), args)
         /\ Fit(ParseIsOn(args), args)  /\ Fit(ParseWhois(args), args)
<1>1. \A i \in 1 .. Len(args) : \A name \in Seqs!Range(NamesArg(args, i)) : Canonical(name)
  BY NamesArgType
<1>2. \A name \in Seqs!Range(NewNames(args)) : Canonical(name)
  BY NamesType
<1>3. Canonical(<<>>) /\ Seqs!Range(<<>>) = {}
  BY DEF Canonical, NewName, Mapped, Seqs!Range
<1>4. Len(args) > 1 => Canonical(NewName(args[1]))
  BY NormalForm DEF Canonical
<1> USE <1>1, <1>3, ErrorsFit, ArgType DEF Fit, Needs, NameFields, ListFields
<1>5. Fit(ParsePart(args), args)
  BY DEF ParsePart
<1>6. Fit(ParseList(args), args) /\ Fit(ParseNames(args), args)
  BY DEF ParseList, ParseNames
<1>7. Fit(ParseWhoWas(args), args)
  BY DEF ParseWhoWas
<1>8. Fit(ParseIsOn(args), args)
  BY <1>2 DEF ParseIsOn
<1>9. Fit(ParseWhois(args), args)
  BY <1>4 DEF ParseWhois
<1> QED BY <1>5, <1>6, <1>7, <1>8, <1>9

LEMMA ModeFit ==
  ASSUME NEW args \in Seq(Text) PROVE Fit(ParseMode(args), args)
<1>1. ASSUME NEW name, Canonical(name), NEW given
      PROVE  Fit(ParseChannelMode(name, given), args) /\ Fit(ParseUserMode(name, given), args)
  <2>1. ASSUME NEW changes
        PROVE  /\ Fit([channel |-> name, changes |-> changes], args)
               /\ Fit([nickname |-> name, changes |-> changes], args)
    BY <1>1 DEF Fit, NameFields, ListFields
  <2> QED BY <2>1, ErrorsFit DEF ParseChannelMode, ParseUserMode
<1>2. Len(args) >= 1 => Canonical(NewName(args[1]))
  BY NormalForm DEF Canonical
<1> QED BY <1>1, <1>2, ErrorsFit DEF ParseMode, Needs

(* Whatever the command word, what is made of the arguments fits them.     *)
LEMMA ConstructFit ==
  ASSUME NEW code, NEW args \in Seq(Text) PROVE Fit(Construct(code, args), args)
BY NamedFit, NamelessFit, TypedFit, NickFit, UserFit, JoinFit, KickFit, ListsFit, ModeFit
   DEF Construct

-----------------------------------------------------------------------------
(* JOIN and KICK of several channels.                                      *)

(* The last of the entries of a name is the one that stays.                *)
LEMMA MapOfLast ==
  ASSUME NEW texts \in Seq(Text), NEW values, NEW i \in DOMAIN texts,
         \A j \in DOMAIN texts : texts[j] = texts[i] => j <= i
  PROVE  MapOf(texts, values)[texts[i]] = values[i]
<1> DEFINE S == {j \in DOMAIN texts : texts[j] = texts[i]}
<1>1. S \in SUBSET Nat /\ i \in S /\ i \in Nat /\ \A j \in S : j <= i
  OBVIOUS
<1>2. MapOf(texts, values)[texts[i]] = values[Seqs!Max(S)]
  BY DEF MapOf, Seqs!Range
<1> HIDE DEF S
<1>3. Seqs!Max(S) \in S /\ \A j \in S : j <= Seqs!Max(S)
  BY <1>1, Greatest
<1>4. Seqs!Max(S) = i
  <2>1. Seqs!Max(S) \in Nat /\ Seqs!Max(S) <= i /\ i <= Seqs!Max(S)
    BY <1>1, <1>3
  <2> QED BY <1>1, <2>1
<1> QED BY <1>2, <1>4

(* What there is in a list of one or two texts.                            *)
LEMMA OneText ==
  ASSUME NEW x \in Text
  PROVE  /\ <<x>> \in Seq(Text) /\ <<x>> # <<>> /\ Len(<<x>>) = 1 /\ <<x>>[1] = x
         /\ Arg(<<x>>, 1) = x /\ Arg(<<x>>, 2) = <<>>
BY DEF Arg

LEMMA TwoTexts ==
  ASSUME NEW x \in Text, NEW y \in Text
  PROVE  /\ <<x, y>> \in Seq(Text) /\ <<x, y>> # <<>> /\ Len(<<x, y>>) = 2
         /\ <<x, y>>[1] = x /\ <<x, y>>[2] = y /\ Arg(<<x, y>>, 2) = y
BY DEF Arg

(* A map of a single name.                                                 *)
LEMMA MapOfOne ==
  ASSUME NEW text \in Text, NEW values
  PROVE  MapOf(NewNames(<<text>>), values)[NewName(text)] = values[1]
<1> DEFINE texts == NewNames(<<text>>)
<1>1. texts \in Seq(Text)
  BY OneText, NamesType
<1>2. DOMAIN texts = {1} /\ texts[1] = NewName(text)
  BY OneText DEF NewNames
<1> HIDE DEF texts
<1>3. 1 \in DOMAIN texts /\ \A j \in DOMAIN texts : texts[j] = texts[1] => j <= 1
  BY <1>2
<1>4. MapOf(texts, values)[texts[1]] = values[1]
  BY <1>1, <1>3, MapOfLast
<1> QED BY <1>2, <1>4 DEF texts

(* The items of a list of targets.                                         *)
Items(text) == Split(text, ",")

LEMMA ItemsType ==
  ASSUME NEW text \in Text PROVE Items(text) \in Seq(Text) /\ Len(Items(text)) > 0
BY SplitItem, Zenon DEF Items

(* An item is a list of itself.                                            *)
LEMMA ItemAlone ==
  ASSUME NEW text \in Text, NEW i \in DOMAIN Items(text)
  PROVE  Items(text)[i] \in Text /\ Items(Items(text)[i]) = <<Items(text)[i]>>
<1>1. ASSUME NEW sep, NEW k \in DOMAIN Split(text, sep)
      PROVE  /\ Split(text, sep)[k] \in Text
             /\ Split(Split(text, sep)[k], sep) = <<Split(text, sep)[k]>>
  <2>1. Split(text, sep) \in Seq(Text)
    BY SplitItem
  <2>2. Split(text, sep)[k] \in Text
    BY <2>1
  <2>3. \A j \in DOMAIN Split(text, sep)[k] : Split(text, sep)[k][j] # sep
    BY SplitItem
  <2> QED BY <2>2, <2>3, SplitOne
<1> QED BY <1>1, Zenon DEF Items

LEMMA EmptyList == Items(<<>>) = <<<<>>>> /\ <<>> \in Text
<1>1. <<>> \in Text /\ DOMAIN <<>> = {}
  BY DEF Text
<1>2. ASSUME NEW sep PROVE Split(<<>>, sep) = <<<<>>>>
  BY <1>1, SplitOne
<1> QED BY <1>1, <1>2, Zenon DEF Items

LEMMA ZeroAlone == ASSUME <<"0">> \in Text PROVE Items(<<"0">>) = <<<<"0">>>>
<1>1. ASSUME NEW j \in DOMAIN <<"0">> PROVE <<"0">>[j] = "0"
  OBVIOUS
<1>2. "0" # ","
  BY Zenon
<1>3. \A j \in DOMAIN <<"0">> : <<"0">>[j] # ","
  BY <1>1, <1>2, Zenon
<1> QED BY <1>3, SplitOne, Zenon DEF Items

(* The part of TargetsSeparate for one channel, with what is alone.        *)
Last(first, i) == \A j \in DOMAIN first : NewName(first[j]) = NewName(first[i]) => j <= i
Alone(first, second, i, word) ==
  CASE i <= Len(second) -> <<first[i], second[i]>>
    [] i > Len(second) /\ word = <<"KICK">> -> <<first[i], second[1]>>
    [] OTHER -> <<first[i]>>

(* ParseJoin of a channel and what may be its key.                         *)
LEMMA JoinOne ==
  ASSUME NEW args \in Seq(Text), args # <<>>, args[1] # <<"0">>,
         Items(args[1]) = <<args[1]>>, Items(Arg(args, 2)) = <<Arg(args, 2)>>
  PROVE  ParseJoin(args).channels[NewName(args[1])] = NewText(Arg(args, 2))
<1> DEFINE values == [i \in DOMAIN <<args[1]>> |-> NewText(Arg(<<Arg(args, 2)>>, i))]
<1>1. ParseJoin(args).channels = MapOf(NewNames(<<args[1]>>), values)
  BY DEF ParseJoin, Items
<1>2. args[1] \in Text
  OBVIOUS
<1>3. Arg(args, 2) \in Text
  BY ArgType
<1>4. values[1] = NewText(Arg(args, 2))
  <2>1. 1 \in DOMAIN <<args[1]>>
    OBVIOUS
  <2>2. values[1] = NewText(Arg(<<Arg(args, 2)>>, 1))
    BY <2>1
  <2> QED BY <1>3, <2>2, OneText
<1> HIDE DEF values
<1> QED BY <1>1, <1>2, <1>4, MapOfOne

(* A JOIN of several channels is the JOINs of each.                        *)
LEMMA JoinSeparate ==
  ASSUME NEW args \in Seq(Text), args # <<>>, NEW word, word # <<"KICK">>,
         NEW i \in DOMAIN Items(args[1]), Last(Items(args[1]), i),
         Items(args[1])[i] # <<"0">>
  PROVE  LET first == Items(args[1])
             second == Items(Arg(args, 2))
         IN ParseJoin(args).channels[NewName(first[i])]
              = ParseJoin(Alone(first, second, i, word)).channels[NewName(first[i])]
<1> DEFINE first == Items(args[1])
           second == Items(Arg(args, 2))
           alone == Alone(first, second, i, word)
           values == [j \in DOMAIN first |-> NewText(Arg(second, j))]
<1>1. args[1] \in Text
  OBVIOUS
<1>2. args[1] \in Text /\ Arg(args, 2) \in Text
  BY <1>1, ArgType
<1>3. first \in Seq(Text) /\ second \in Seq(Text) /\ Len(second) > 0
  BY <1>2, ItemsType
<1>4. first[i] \in Text /\ Items(first[i]) = <<first[i]>>
  BY <1>2, ItemAlone
<1>5. args[1] # <<"0">>
  <2> SUFFICES ASSUME args[1] = <<"0">> PROVE FALSE
    OBVIOUS
  <2>1. first = <<args[1]>>
    BY <1>2, ZeroAlone
  <2>2. i \in DOMAIN first /\ first[i] # <<"0">>
    OBVIOUS
  <2> HIDE DEF first
  <2>3. first[i] = args[1]
    BY <2>1, <2>2
  <2> QED BY <2>3, <2>2
<1>6. ParseJoin(args).channels = MapOf(NewNames(first), values)
  BY <1>5 DEF ParseJoin, Items
<1>7. ASSUME NEW j \in DOMAIN second
      PROVE  second[j] \in Text /\ Items(second[j]) = <<second[j]>>
  BY <1>2, ItemAlone
<1>8. i \in Nat \ {0} /\ first[i] # <<"0">>
  BY <1>3
<1> HIDE DEF first, second
<1>9. ParseJoin(args).channels[NewName(first[i])] = NewText(Arg(second, i))
  <2>1. /\ NewNames(first) \in Seq(Text) /\ DOMAIN NewNames(first) = DOMAIN first
        /\ \A j \in DOMAIN first : NewNames(first)[j] = NewName(first[j])
    BY <1>3, NamesType DEF NewNames
  <2>2. i \in DOMAIN first /\ Last(first, i)
    BY DEF first
  <2>3. i \in DOMAIN NewNames(first)
    BY <2>1, <2>2
  <2>4. \A j \in DOMAIN NewNames(first) : NewNames(first)[j] = NewNames(first)[i] => j <= i
    BY <2>1, <2>2 DEF Last
  <2>5. values[i] = NewText(Arg(second, i))
    BY <2>2
  <2> HIDE DEF values
  <2>6. MapOf(NewNames(first), values)[NewNames(first)[i]] = values[i]
    BY <2>1, <2>4, <2>3, MapOfLast
  <2> QED BY <1>6, <2>1, <2>2, <2>5, <2>6
<1>10. CASE i <= Len(second)
  <2>1. i \in DOMAIN second
    BY <1>3, <1>8, <1>10
  <2>2. alone = <<first[i], second[i]>>
    <3>1. ~(i > Len(second))
      BY <1>3, <1>8, <1>10
    <3> QED BY <1>10, <3>1 DEF Alone
  <2>3. second[i] \in Text /\ Items(second[i]) = <<second[i]>>
    BY <1>7, <2>1
  <2>4. alone \in Seq(Text) /\ alone # <<>> /\ alone[1] = first[i] /\ Arg(alone, 2) = second[i]
    BY <1>4, <2>2, <2>3, TwoTexts
  <2> HIDE DEF alone
  <2>5. ParseJoin(alone).channels[NewName(alone[1])] = NewText(Arg(alone, 2))
    BY <1>4, <1>8, <2>3, <2>4, JoinOne
  <2>6. Arg(second, i) = second[i]
    BY <1>10 DEF Arg
  <2> QED BY <1>9, <2>4, <2>5, <2>6 DEF alone, first, second
<1>11. CASE ~(i <= Len(second))
  <2>1. alone = <<first[i]>>
    BY <1>11 DEF Alone
  <2>2. alone \in Seq(Text) /\ alone # <<>> /\ alone[1] = first[i] /\ Arg(alone, 2) = <<>>
    BY <1>4, <2>1, OneText
  <2> HIDE DEF alone
  <2>3. ParseJoin(alone).channels[NewName(alone[1])] = NewText(Arg(alone, 2))
    BY <1>4, <1>8, <2>2, EmptyList, JoinOne
  <2>4. Arg(second, i) = <<>>
    BY <1>11 DEF Arg
  <2> QED BY <1>9, <2>2, <2>3, <2>4 DEF alone, first, second
<1> QED BY <1>10, <1>11

(* ParseKick of a channel and a user.                                      *)
LEMMA KickOne ==
  ASSUME NEW x \in Text, NEW y \in Text, Items(x) = <<x>>, Items(y) = <<y>>
  PROVE  ParseKick(<<x, y>>).kicks[NewName(x)] = NewName(y)
<1> DEFINE args == <<x, y>>
           values == [i \in DOMAIN NewNames(<<x>>) |->
                        IF Len(NewNames(<<y>>)) = 1 THEN NewNames(<<y>>)[1] ELSE NewNames(<<y>>)[i]]
<1>1. Len(args) = 2 /\ args[1] = x /\ args[2] = y
  BY TwoTexts
<1>2. NamesArg(args, 1) = NewNames(<<x>>) /\ NamesArg(args, 2) = NewNames(<<y>>)
  BY <1>1, Zenon DEF NamesArg, Items
<1>3. /\ DOMAIN NewNames(<<x>>) = {1}
      /\ Len(NewNames(<<y>>)) = 1 /\ NewNames(<<y>>)[1] = NewName(y)
  BY OneText DEF NewNames
<1> HIDE DEF args
<1>4. ParseKick(args).kicks = MapOf(NewNames(<<x>>), values)
  <2>1. ~(Len(args) < 2) /\ Len(NamesArg(args, 2)) \in {1, Len(NamesArg(args, 1))}
    BY <1>1, <1>2, <1>3
  <2> QED BY <1>2, <2>1 DEF ParseKick
<1>5. values[1] = NewName(y)
  BY <1>3
<1> HIDE DEF values
<1> QED BY <1>4, <1>5, MapOfOne DEF args

(* A KICK from several channels is the KICKs from each.                    *)
LEMMA KickSeparate ==
  ASSUME NEW args \in Seq(Text), "kicks" \in DOMAIN ParseKick(args),
         NEW i \in DOMAIN Items(args[1]), Last(Items(args[1]), i)
  PROVE  LET first == Items(args[1])
             second == Items(args[2])
         IN ParseKick(args).kicks[NewName(first[i])]
              = ParseKick(Alone(first, second, i, <<"KICK">>)).kicks[NewName(first[i])]
<1> DEFINE first == Items(args[1])
           second == Items(args[2])
           users == NewNames(second)
           user(j) == IF Len(users) = 1 THEN users[1] ELSE users[j]
           values == [j \in DOMAIN NewNames(first) |-> user(j)]
           alone == Alone(first, second, i, <<"KICK">>)
<1>1. NamesArg(args, 1) = NewNames(first) /\ NamesArg(args, 2) = NewNames(second)
  BY Zenon DEF NamesArg, Items
<1>2. /\ Len(args) >= 2 /\ Len(users) \in {1, Len(NewNames(first))}
      /\ ParseKick(args).kicks = MapOf(NewNames(first), values)
  <2>1. CASE Len(args) < 2 \/ Len(NamesArg(args, 2)) \notin {1, Len(NamesArg(args, 1))}
    BY <2>1 DEF ParseKick, NotEnoughArgs
  <2>2. CASE ~(Len(args) < 2) /\ Len(NamesArg(args, 2)) \in {1, Len(NamesArg(args, 1))}
    BY <1>1, <2>2 DEF ParseKick
  <2> QED BY <2>1, <2>2
<1>3. args[1] \in Text /\ args[2] \in Text
  BY <1>2
<1>4. first \in Seq(Text) /\ second \in Seq(Text) /\ Len(second) > 0
  BY <1>3, ItemsType
<1>5. first[i] \in Text /\ Items(first[i]) = <<first[i]>>
  BY <1>3, ItemAlone
<1>6. ASSUME NEW j \in DOMAIN second
      PROVE  second[j] \in Text /\ Items(second[j]) = <<second[j]>>
  BY <1>3, ItemAlone
<1>7. i \in DOMAIN first /\ i \in Nat \ {0} /\ i <= Len(first) /\ Last(first, i)
  BY <1>4
<1> HIDE DEF first, second
<1>8. /\ DOMAIN NewNames(first) = DOMAIN first /\ Len(NewNames(first)) = Len(first)
      /\ \A j \in DOMAIN first : NewNames(first)[j] = NewName(first[j])
      /\ DOMAIN users = DOMAIN second /\ Len(users) = Len(second)
      /\ \A j \in DOMAIN second : users[j] = NewName(second[j])
      /\ NewNames(first) \in Seq(Text) /\ users \in Seq(Text)
  BY <1>4, NamesType, SMTT(30) DEF NewNames
<1>9. ParseKick(args).kicks[NewName(first[i])] = user(i)
  <2>1. i \in DOMAIN NewNames(first)
    BY <1>7, <1>8
  <2>2. \A j \in DOMAIN NewNames(first) : NewNames(first)[j] = NewNames(first)[i] => j <= i
    BY <1>7, <1>8 DEF Last
  <2>3. values[i] = user(i)
    BY <2>1
  <2>4. NewNames(first) \in Seq(Text)
    BY <1>8
  <2> HIDE DEF values, user
  <2>5. MapOf(NewNames(first), values)[NewNames(first)[i]] = values[i]
    BY <2>1, <2>2, <2>4, MapOfLast
  <2> QED BY <1>2, <1>7, <1>8, <2>3, <2>5
<1>10. CASE i <= Len(second)
  <2>1. alone = <<first[i], second[i]>>
    <3>1. ~(i > Len(second))
      BY <1>4, <1>7, <1>10
    <3> QED BY <1>10, <3>1 DEF Alone
  <2>2. i \in DOMAIN second
    BY <1>4, <1>7, <1>10
  <2>3. ParseKick(alone).kicks[NewName(first[i])] = NewName(second[i])
    BY <1>5, <1>6, <2>1, <2>2, KickOne
  <2>4. user(i) = NewName(second[i])
    <3>1. Len(users) = 1 => i = 1
      BY <1>7, <1>8, <1>10
    <3> QED BY <1>8, <2>2, <3>1
  <2> QED BY <1>9, <2>3, <2>4 DEF first, second
<1>11. CASE ~(i <= Len(second))
  <2>1. alone = <<first[i], second[1]>>
    <3>1. i > Len(second)
      BY <1>4, <1>7, <1>11
    <3> QED BY <1>11, <3>1 DEF Alone
  <2>2. 1 \in DOMAIN second
    BY <1>4
  <2>3. ParseKick(alone).kicks[NewName(first[i])] = NewName(second[1])
    BY <1>5, <1>6, <2>1, <2>2, KickOne
  <2>4. user(i) = NewName(second[1])
    <3>1. Len(users) = 1
      BY <1>2, <1>4, <1>7, <1>8, <1>11
    <3> QED BY <1>8, <2>2, <3>1, SMTT(30)
  <2> QED BY <1>9, <2>3, <2>4 DEF first, second
<1> QED BY <1>10, <1>11

(* Only KICK has kicks.                                                    *)
LEMMA OnlyKick ==
  ASSUME NEW code, NEW args, code # "KICK"
  PROVE  "kicks" \notin DOMAIN Construct(code, args)
<1> DEFINE No(command) == "kicks" \notin DOMAIN command
<1>1. No(NotEnoughArgs) /\ No(ErrParse)
  BY DEF NotEnoughArgs, ErrParse
<1>2. /\ No(ParseAuthenticate(args)) /\ No(ParseAway(args)) /\ No(ParseCap(args))
      /\ No(ParseInvite(args)) /\ No(ParseIsOn(args)) /\ No(ParseKill(args))
      /\ No(ParseList(args)) /\ No(ParseMOTD(args)) /\ No(ParseNames(args))
      /\ No(ParseNick(args)) /\ No(ParseNotice(args)) /\ No(ParseOperNick(args))
  BY <1>1 DEF Needs, ParseAuthenticate, ParseAway, ParseCap, ParseInvite, ParseIsOn, ParseKill,
              ParseList, ParseMOTD, ParseNames, ParseNick, ParseNotice, ParseOperNick
<1>3. /\ No(ParseOper(args)) /\ No(ParseRehash(args)) /\ No(ParsePart(args))
      /\ No(ParsePass(args)) /\ No(ParsePing(args)) /\ No(ParsePong(args))
      /\ No(ParsePrivMsg(args)) /\ No(ParseQuit(args)) /\ No(ParseTime(args))
      /\ No(ParseLUsers(args)) /\ No(ParseTopic(args)) /\ No(ParseVersion(args))
  BY <1>1 DEF Needs, ParseOper, ParseRehash, ParsePart, ParsePass, ParsePing, ParsePong,
              ParsePrivMsg, ParseQuit, ParseTime, ParseLUsers, ParseTopic, ParseVersion
<1>4. /\ No(ParseWallops(args)) /\ No(ParseWho(args)) /\ No(ParseWhois(args))
      /\ No(ParseWhoWas(args)) /\ No(ParseUnknown(args))
  BY <1>1 DEF Needs, ParseWallops, ParseWho, ParseWhois, ParseWhoWas, ParseUnknown
<1>5. No(ParseUser(args)) /\ No(ParseJoin(args))
  <2>1. ASSUME NEW a, NEW b, NEW c, NEW d
        PROVE  /\ No([username |-> a, realname |-> b, flags |-> c, unused |-> d])
               /\ No([username |-> a, realname |-> b, hostname |-> c, servername |-> d])
               /\ No([zero |-> a, channels |-> b])
    OBVIOUS
  <2> HIDE DEF No
  <2> QED BY <1>1, <2>1, Zenon DEF ParseUser, ParseJoin
<1>6. No(ParseMode(args))
  <2>1. ASSUME NEW a, NEW b
        PROVE  No([channel |-> a, changes |-> b]) /\ No([nickname |-> a, changes |-> b])
    OBVIOUS
  <2> HIDE DEF No
  <2> QED BY <1>1, <2>1, Zenon DEF ParseMode, ParseChannelMode, ParseUserMode, Needs
<1> HIDE DEF No
<1>7. No(Construct(code, args))
  BY <1>2, <1>3, <1>4, <1>5, <1>6 DEF Construct
<1> QED BY <1>7 DEF No

(* The targets of the command of any line are separate.                    *)
LEMMA TargetsFit ==
  ASSUME NEW text \in Text, line = text, cmd = ParseCommand(text)
  PROVE  TargetsSeparate
<1> DEFINE parsed == ParseLine(line)
           args == parsed.args
           first == Items(Arg(args, 1))
           second == Items(Arg(args, 2))
<1>1. args \in Seq(Text)
  BY LineType
<1>2. cmd = Construct(IF Len(parsed.code) = 1 THEN parsed.code[1] ELSE "", args)
  BY DEF ParseCommand
<1>3. parsed.code \in Text
  BY LineType
<1> HIDE DEF parsed
<1>4. ASSUME NEW i \in DOMAIN first, Last(first, i), "channels" \in DOMAIN cmd,
             parsed.code = <<"JOIN">>, first[i] # <<"0">>
      PROVE  cmd.channels[NewName(first[i])]
               = ParseJoin(Alone(first, second, i, parsed.code)).channels[NewName(first[i])]
  <2>1. cmd = ParseJoin(args)
    BY <1>2, <1>4 DEF Construct
  <2>2. args # <<>>
    <3>1. "channels" \notin DOMAIN NotEnoughArgs
      BY DEF NotEnoughArgs
    <3>2. args = <<>> => ParseJoin(args) = NotEnoughArgs
      BY DEF ParseJoin
    <3> QED BY <1>4, <2>1, <3>1, <3>2
  <2>3. Arg(args, 1) = args[1]
    BY <1>1, <2>2 DEF Arg
  <2>4. parsed.code # <<"KICK">>
    BY <1>4
  <2>5. /\ i \in DOMAIN Items(args[1]) /\ Last(Items(args[1]), i)
        /\ Items(args[1])[i] # <<"0">>
    BY <1>4, <2>3
  <2> HIDE DEF args
  <2>6. ParseJoin(args).channels[NewName(Items(args[1])[i])]
          = ParseJoin(Alone(Items(args[1]), second, i, parsed.code)).channels
              [NewName(Items(args[1])[i])]
    BY <1>1, <2>2, <2>4, <2>5, JoinSeparate
  <2> QED BY <2>1, <2>3, <2>6
<1>5. ASSUME NEW i \in DOMAIN first, Last(first, i), "kicks" \in DOMAIN cmd
      PROVE  cmd.kicks[NewName(first[i])]
               = ParseKick(Alone(first, second, i, parsed.code)).kicks[NewName(first[i])]
  <2>1. Len(parsed.code) = 1 /\ parsed.code[1] = "KICK"
    BY <1>2, <1>5, OnlyKick
  <2>2. parsed.code = <<"KICK">>
    BY <1>3, <2>1 DEF Text
  <2>3. cmd = ParseKick(args)
    BY <1>2, <2>1 DEF Construct
  <2>4. Len(args) >= 2
    <3>1. "kicks" \notin DOMAIN NotEnoughArgs
      BY DEF NotEnoughArgs
    <3>2. Len(args) < 2 => ParseKick(args) = NotEnoughArgs
      BY DEF ParseKick
    <3>3. Len(args) \in Nat
      BY <1>1
    <3> QED BY <1>5, <2>3, <3>1, <3>2, <3>3
  <2>5. Arg(args, 1) = args[1] /\ Arg(args, 2) = args[2]
    BY <1>1, <2>4 DEF Arg
  <2> QED BY <1>1, <1>5, <2>2, <2>3, <2>5, KickSeparate
<1> QED BY <1>4, <1>5, Zenon DEF TargetsSeparate, Last, Alone, Items, parsed

-----------------------------------------------------------------------------
(* The words of a line.                                                    *)
Blank == " "
Colon == ":"
Starts(text) == {p \in DOMAIN text : text[p] # Blank /\ (p = 1 \/ text[p - 1] = Blank)}
NextStart(text, p) == Seqs!Min({q \in Starts(text) : q > p} \cup {Len(text) + 1})
NextSpace(text, p) == Seqs!Min({q \in p .. Len(text) : text[q] = Blank} \cup {Len(text) + 1})
Suffix(text, p) == SubSeq(text, p, Len(text))

(* The least of the numbers of a set, or the one after all of them.        *)
LEMMA LeastOr ==
  ASSUME NEW n \in Nat, NEW S \in SUBSET (1 .. n)
  PROVE  LET m == Seqs!Min(S \cup {n + 1})
         IN m \in S \cup {n + 1} /\ m \in 1 .. n + 1 /\ \A k \in S : m <= k
<1> DEFINE T == S \cup {n + 1}
<1>1. T \in SUBSET Nat /\ T # {} /\ T \subseteq 1 .. n + 1 /\ S \subseteq T
  OBVIOUS
<1> HIDE DEF T
<1>2. Seqs!Min(T) \in T /\ \A k \in T : Seqs!Min(T) <= k
  BY <1>1, Least
<1>3. Seqs!Min(T) \in 1 .. n + 1 /\ \A k \in S : Seqs!Min(T) <= k
  BY <1>1, <1>2
<1> QED BY <1>2, <1>3 DEF T

LEMMA StartsType ==
  ASSUME NEW text \in Text
  PROVE  /\ Len(text) \in Nat /\ DOMAIN text = 1 .. Len(text)
         /\ Starts(text) \in SUBSET (1 .. Len(text))
         /\ \A p \in Starts(text) : text[p] # Blank /\ (p = 1 \/ text[p - 1] = Blank)
         /\ \A p \in 1 .. Len(text) :
              text[p] # Blank /\ (p = 1 \/ text[p - 1] = Blank) => p \in Starts(text)
BY DEF Starts, Text

LEMMA NextStartIs ==
  ASSUME NEW text \in Text, NEW p \in 1 .. Len(text) + 1
  PROVE  /\ NextStart(text, p) \in {q \in Starts(text) : q > p} \cup {Len(text) + 1}
         /\ NextStart(text, p) \in 1 .. Len(text) + 1
         /\ \A q \in Starts(text) : q > p => NextStart(text, p) <= q
<1> DEFINE S == {q \in Starts(text) : q > p}
<1>1. Len(text) \in Nat /\ S \in SUBSET (1 .. Len(text))
  BY StartsType
<1>2. NextStart(text, p) = Seqs!Min(S \cup {Len(text) + 1})
  BY DEF NextStart
<1>3. \A q \in Starts(text) : q > p => q \in S
  OBVIOUS
<1> HIDE DEF S
<1>4. /\ NextStart(text, p) \in S \cup {Len(text) + 1}
      /\ NextStart(text, p) \in 1 .. Len(text) + 1
      /\ \A q \in S : NextStart(text, p) <= q
  <2>1. /\ Seqs!Min(S \cup {Len(text) + 1}) \in S \cup {Len(text) + 1}
        /\ Seqs!Min(S \cup {Len(text) + 1}) \in 1 .. Len(text) + 1
        /\ \A q \in S : Seqs!Min(S \cup {Len(text) + 1}) <= q
    BY <1>1, LeastOr
  <2> QED BY <1>2, <2>1
<1> QED BY <1>3, <1>4 DEF S

LEMMA NextSpaceIs ==
  ASSUME NEW text \in Text, NEW p \in 1 .. Len(text) + 1
  PROVE  /\ NextSpace(text, p) \in p .. Len(text) + 1
         /\ NextSpace(text, p) = Len(text) + 1 \/ text[NextSpace(text, p)] = Blank
         /\ \A q \in p .. Len(text) : text[q] = Blank => NextSpace(text, p) <= q
<1> DEFINE S == {q \in p .. Len(text) : text[q] = Blank}
<1>1. Len(text) \in Nat
  BY StartsType
<1>2. S \in SUBSET (1 .. Len(text)) /\ S \subseteq p .. Len(text) /\ \A q \in S : text[q] = Blank
  BY <1>1
<1>3. NextSpace(text, p) = Seqs!Min(S \cup {Len(text) + 1})
  BY DEF NextSpace
<1>4. \A q \in p .. Len(text) : text[q] = Blank => q \in S
  OBVIOUS
<1> HIDE DEF S
<1>5. /\ NextSpace(text, p) \in S \cup {Len(text) + 1}
      /\ NextSpace(text, p) \in 1 .. Len(text) + 1
      /\ \A q \in S : NextSpace(text, p) <= q
  BY <1>1, <1>2, <1>3, LeastOr, SMTT(30)
<1> QED BY <1>1, <1>2, <1>4, <1>5

LEMMA SuffixType ==
  ASSUME NEW text \in Text, NEW p \in 1 .. Len(text) + 1
  PROVE  /\ Suffix(text, p) \in Text /\ Len(Suffix(text, p)) = Len(text) - p + 1
         /\ \A i \in 1 .. Len(text) - p + 1 : Suffix(text, p)[i] = text[p + i - 1]
<1>1. Len(text) \in Nat /\ \A i \in p .. Len(text) : text[i] \in Token
  BY DEF Text
<1>2. /\ SubSeq(text, p, Len(text)) \in Seq(Token)
      /\ Len(SubSeq(text, p, Len(text))) = IF p <= Len(text) THEN Len(text) - p + 1 ELSE 0
      /\ \A i \in 1 .. Len(text) - p + 1 : SubSeq(text, p, Len(text))[i] = text[p + i - 1]
  BY <1>1, SubSeqProperties
<1> QED BY <1>1, <1>2 DEF Suffix, Text

(* A part of a suffix is a part of the text.                               *)
LEMMA PartOfSuffix ==
  ASSUME NEW text \in Text, NEW p \in 1 .. Len(text) + 1,
         NEW a \in 1 .. Len(text) - p + 2, NEW b \in a - 1 .. Len(text) - p + 1
  PROVE  SubSeq(Suffix(text, p), a, b) = SubSeq(text, p + a - 1, p + b - 1)
<1> DEFINE t == Suffix(text, p)
           x == SubSeq(t, a, b)
           y == SubSeq(text, p + a - 1, p + b - 1)
<1>1. /\ t \in Text /\ Len(t) = Len(text) - p + 1 /\ Len(text) \in Nat
      /\ \A i \in 1 .. Len(t) : t[i] = text[p + i - 1]
  BY SuffixType, StartsType
<1> HIDE DEF t
<1>2. x \in Seq(Token) /\ Len(x) = b - a + 1 /\ \A i \in 1 .. b - a + 1 : x[i] = t[a + i - 1]
  <2>1. a \in Int /\ b \in Int /\ \A i \in a .. b : t[i] \in Token
    BY <1>1 DEF Text
  <2>2. /\ x \in Seq(Token) /\ Len(x) = (IF a <= b THEN b - a + 1 ELSE 0)
        /\ \A i \in 1 .. b - a + 1 : x[i] = t[a + i - 1]
    BY <2>1, SubSeqProperties
  <2> HIDE DEF x
  <2> QED BY <1>1, <2>1, <2>2, SMTT(30)
<1>3. /\ y \in Seq(Token) /\ Len(y) = b - a + 1
      /\ \A i \in 1 .. b - a + 1 : y[i] = text[p + a + i - 2]
  <2> DEFINE m == p + a - 1
             n == p + b - 1
  <2>1. m \in Int /\ n \in Int /\ \A i \in m .. n : text[i] \in Token
    BY <1>1 DEF Text
  <2> HIDE DEF m, n
  <2>2. /\ SubSeq(text, m, n) \in Seq(Token)
        /\ Len(SubSeq(text, m, n)) = (IF m <= n THEN n - m + 1 ELSE 0)
        /\ \A i \in 1 .. n - m + 1 : SubSeq(text, m, n)[i] = text[m + i - 1]
    BY <2>1, SubSeqProperties, SMTT(30)
  <2>3. y = SubSeq(text, m, n)
    BY DEF m, n
  <2> HIDE DEF y
  <2>4. n - m + 1 = b - a + 1 /\ (m <= n <=> a <= b) /\ \A i \in Int : m + i - 1 = p + a + i - 2
    BY <1>1 DEF m, n
  <2> QED BY <1>1, <2>1, <2>2, <2>3, <2>4
<1>4. \A i \in 1 .. b - a + 1 : x[i] = y[i]
  <2> SUFFICES ASSUME NEW i \in 1 .. b - a + 1 PROVE x[i] = y[i]
    OBVIOUS
  <2>1. a + i - 1 \in 1 .. Len(t) /\ p + (a + i - 1) - 1 = p + a + i - 2
    BY <1>1
  <2> QED BY <1>1, <1>2, <1>3, <2>1
<1> HIDE DEF x, y
<1>5. x = y
  BY <1>2, <1>3, <1>4
<1> QED BY <1>5 DEF x, y, t

(* A round of the loop that begins anywhere in the text reads up to the    *)
(* next space and leaves what follows from the next word on.               *)
LEMMA SplitSuffix ==
  ASSUME NEW text \in Text, NEW p \in 1 .. Len(text) + 1
  PROVE  /\ splitArg(Suffix(text, p))[1] = SubSeq(text, p, NextSpace(text, p) - 1)
         /\ splitArg(Suffix(text, p))[2] = Suffix(text, NextStart(text, p))
<1> DEFINE t == Suffix(text, p)
           I == {i \in 1 .. Len(t) : t[i] = Blank}
           end == IF I # {} THEN Seqs!Min(I) ELSE 0
           rest == SubSeq(t, end, Len(t))
           J == {i \in 1 .. Len(rest) : rest[i] # Blank}
           spaces == IF J # {} THEN Seqs!Min(J) ELSE 0
           e == NextSpace(text, p)
           s == NextStart(text, p)
<1>1. splitArg(t) = CASE end = 0 -> <<t, <<>>>>
                      [] end # 0 /\ spaces = 0 -> <<SubSeq(t, 1, end - 1), <<>>>>
                      [] OTHER -> <<SubSeq(t, 1, end - 1), SubSeq(rest, spaces, Len(rest))>>
  BY Zenon DEF splitArg, Seqs!SelectInSeq, Blank
<1>2. /\ t \in Text /\ Len(t) = Len(text) - p + 1 /\ Len(text) \in Nat
      /\ \A i \in 1 .. Len(t) : t[i] = text[p + i - 1]
  BY SuffixType, StartsType
<1>3. /\ e \in p .. Len(text) + 1
      /\ e = Len(text) + 1 \/ text[e] = Blank
      /\ \A q \in p .. Len(text) : text[q] = Blank => e <= q
  BY NextSpaceIs
<1>4. /\ s \in {q \in Starts(text) : q > p} \cup {Len(text) + 1}
      /\ s \in 1 .. Len(text) + 1
      /\ \A q \in Starts(text) : q > p => s <= q
  BY NextStartIs
<1>5. \A q \in Starts(text) : q > p => q > e /\ text[q] # Blank
  <2> SUFFICES ASSUME NEW q \in Starts(text), q > p PROVE q > e /\ text[q] # Blank
    OBVIOUS
  <2>1. q \in 1 .. Len(text) /\ text[q] # Blank /\ text[q - 1] = Blank
    BY StartsType
  <2>2. q - 1 \in p .. Len(text)
    BY <1>2, <2>1
  <2>3. e <= q - 1
    BY <1>3, <2>1, <2>2
  <2> QED BY <1>3, <2>1, <2>3
<1>6. Suffix(text, Len(text) + 1) = <<>>
  BY <1>2, SubSeqEmpty DEF Suffix
<1> HIDE DEF e, s, t
<1>7. CASE I = {}
  <2>1. e = Len(text) + 1
    <3>1. ASSUME e \in p .. Len(text) PROVE FALSE
      <4>1. e - p + 1 \in 1 .. Len(t) /\ p + (e - p + 1) - 1 = e
        BY <1>2, <3>1
      <4>2. t[e - p + 1] = Blank
        BY <1>2, <1>3, <3>1, <4>1
      <4> QED BY <1>7, <4>1, <4>2
    <3> QED BY <1>2, <1>3, <3>1
  <2>2. s = Len(text) + 1
    BY <1>2, <1>4, <1>5, <2>1, StartsType, SMTT(30)
  <2>3. splitArg(t) = <<t, <<>>>>
    BY <1>1, <1>7
  <2> QED BY <1>2, <1>6, <2>1, <2>2, <2>3, SMTT(30) DEF t, e, s, Suffix
<1>8. CASE I # {}
  <2>1. end \in I /\ \A i \in I : end <= i
    <3>1. I \in SUBSET Nat
      OBVIOUS
    <3> HIDE DEF I
    <3> QED BY <1>8, <3>1, Least
  <2> HIDE DEF end
  <2>2. end \in 1 .. Len(t) /\ t[end] = Blank /\ \A i \in 1 .. Len(t) : t[i] = Blank => end <= i
    BY <2>1
  <2>3. e = p + end - 1 /\ e \in 1 .. Len(text) /\ text[e] = Blank
    <3>1. p + end - 1 \in p .. Len(text) /\ text[p + end - 1] = Blank
      BY <1>2, <2>2
    <3>2. e <= p + end - 1 /\ text[e] = Blank
      BY <1>2, <1>3, <3>1
    <3>3. e - p + 1 \in 1 .. Len(t) /\ t[e - p + 1] = text[p + (e - p + 1) - 1]
      BY <1>2, <1>3, <2>2, <3>2
    <3>4. p + (e - p + 1) - 1 = e
      BY <1>2, <1>3
    <3>5. end <= e - p + 1
      BY <2>2, <3>2, <3>3, <3>4
    <3> QED BY <1>2, <1>3, <2>2, <3>2, <3>5
  <2>4. SubSeq(t, 1, end - 1) = SubSeq(text, p, e - 1)
    <3>1. 1 \in 1 .. Len(text) - p + 2 /\ end - 1 \in 1 - 1 .. Len(text) - p + 1
      BY <1>2, <2>2
    <3>2. SubSeq(t, 1, end - 1) = SubSeq(text, p + 1 - 1, p + (end - 1) - 1)
      BY <3>1, PartOfSuffix DEF t
    <3>3. p + 1 - 1 = p /\ p + (end - 1) - 1 = e - 1
      BY <1>2, <2>2, <2>3
    <3> QED BY <3>2, <3>3
  <2>5. rest = Suffix(text, e)
    <3>1. end \in 1 .. Len(text) - p + 2 /\ Len(t) \in end - 1 .. Len(text) - p + 1
      BY <1>2, <2>2
    <3>2. SubSeq(t, end, Len(t)) = SubSeq(text, p + end - 1, p + Len(t) - 1)
      BY <3>1, PartOfSuffix DEF t
    <3>3. p + Len(t) - 1 = Len(text)
      BY <1>2
    <3> QED BY <2>3, <3>2, <3>3 DEF Suffix
  <2>6. /\ rest \in Text /\ Len(rest) = Len(text) - e + 1
        /\ \A i \in 1 .. Len(rest) : rest[i] = text[e + i - 1]
    <3>1. e \in 1 .. Len(text) + 1
      BY <1>2, <2>3
    <3> HIDE DEF rest
    <3> QED BY <2>5, <3>1, SuffixType
  <2> HIDE DEF rest
  <2>7. ASSUME NEW k \in 1 .. Len(text), k >= e
        PROVE  k - e + 1 \in 1 .. Len(rest) /\ rest[k - e + 1] = text[k]
    <3>1. Len(rest) = Len(text) - e + 1
      BY <2>6
    <3>2. k - e + 1 \in 1 .. Len(rest) /\ e + (k - e + 1) - 1 = k
      <4>1. e \in 1 .. Len(text)
        BY <2>3
      <4>2. Len(text) \in Nat
        BY <1>2
      <4> QED BY <2>7, <3>1, <4>1, <4>2
    <3> QED BY <2>6, <3>2
  <2>8. CASE J = {}
    <3>1. s = Len(text) + 1
      <4>1. ASSUME s \in Starts(text), s > p PROVE FALSE
        <5>1. s \in 1 .. Len(text) /\ s > e /\ text[s] # Blank
          BY <1>5, <4>1, StartsType
        <5>2. s - e + 1 \in 1 .. Len(rest) /\ rest[s - e + 1] = text[s]
          BY <2>3, <2>7, <5>1
        <5> QED BY <2>8, <5>1, <5>2
      <4> QED BY <1>4, <4>1
    <3>2. splitArg(t) = <<SubSeq(t, 1, end - 1), <<>>>>
      BY <1>1, <2>2, <2>8
    <3>3. splitArg(t)[1] = SubSeq(text, p, e - 1) /\ splitArg(t)[2] = Suffix(text, s)
      <4>1. Suffix(text, s) = <<>>
        BY <1>6, <3>1
      <4>2. splitArg(t)[1] = SubSeq(t, 1, end - 1) /\ splitArg(t)[2] = <<>>
        <5> DEFINE x == SubSeq(t, 1, end - 1)
                   cut == splitArg(t)
        <5>1. cut = <<x, <<>>>>
          BY <3>2
        <5> HIDE DEF x, cut
        <5>2. cut[1] = x /\ cut[2] = <<>>
          BY <5>1
        <5> QED BY <5>2 DEF x, cut
      <4> QED BY <2>4, <4>1, <4>2, Zenon
    <3> QED BY <3>3 DEF t, e, s
  <2>9. CASE J # {}
    <3>1. spaces \in J /\ \A i \in J : spaces <= i
      <4>1. J \in SUBSET Nat
        OBVIOUS
      <4> HIDE DEF J
      <4> QED BY <2>9, <4>1, Least
    <3> HIDE DEF spaces
    <3>2. /\ spaces \in 1 .. Len(rest) /\ rest[spaces] # Blank
          /\ \A i \in 1 .. Len(rest) : rest[i] # Blank => spaces <= i
      BY <3>1
    <3> DEFINE m == e + spaces - 1
    <3>3. m \in 1 .. Len(text) /\ text[m] # Blank /\ m > e
      BY <1>2, <2>3, <2>6, <3>2, SMTT(30)
    <3>4. text[m - 1] = Blank
      <4>1. m - 1 = e + (spaces - 1) - 1 /\ spaces - 1 \in 1 .. Len(rest)
        BY <1>2, <2>3, <2>6, <3>2, <3>3, SMTT(30)
      <4>2. rest[spaces - 1] = Blank
        BY <3>2, <4>1
      <4> QED BY <2>6, <4>1, <4>2
    <3> HIDE DEF m
    <3>5. m \in Starts(text) /\ m > p
      BY <1>2, <1>3, <2>3, <3>3, <3>4, StartsType
    <3>6. s <= m
      BY <1>4, <3>5
    <3>7. ASSUME s < m PROVE FALSE
      <4>1. s \in Starts(text) /\ s > p
        BY <1>2, <1>4, <3>3, <3>7
      <4>2. s \in 1 .. Len(text) /\ s > e /\ text[s] # Blank
        BY <1>5, <4>1, StartsType
      <4>3. s - e + 1 \in 1 .. Len(rest) /\ rest[s - e + 1] = text[s]
        BY <2>3, <2>7, <4>2
      <4>4. spaces <= s - e + 1
        BY <3>2, <4>2, <4>3
      <4> QED BY <2>3, <3>2, <3>7, <4>2, <4>4 DEF m
    <3>8. s = m
      BY <1>4, <3>3, <3>6, <3>7
    <3>9. SubSeq(rest, spaces, Len(rest)) = Suffix(text, s)
      <4>1. spaces \in 1 .. Len(text) - e + 2 /\ Len(rest) \in spaces - 1 .. Len(text) - e + 1
        <5>1. Len(rest) = Len(text) - e + 1
          BY <2>6
        <5>2. spaces \in 1 .. Len(rest)
          BY <3>2
        <5> QED BY <1>2, <2>3, <5>1, <5>2
      <4>2. e \in 1 .. Len(text) + 1
        BY <2>3
      <4>3. SubSeq(rest, spaces, Len(rest)) = SubSeq(text, e + spaces - 1, e + Len(rest) - 1)
        BY <2>5, <4>1, <4>2, PartOfSuffix
      <4>4. e + Len(rest) - 1 = Len(text)
        BY <1>2, <2>3, <2>6
      <4> QED BY <3>8, <4>3, <4>4 DEF m, Suffix
    <3>10. splitArg(t) = <<SubSeq(t, 1, end - 1), SubSeq(rest, spaces, Len(rest))>>
      <4>1. end # 0 /\ spaces # 0
        BY <2>2, <3>2
      <4> QED BY <1>1, <4>1, Zenon
    <3>11. splitArg(t)[1] = SubSeq(text, p, e - 1) /\ splitArg(t)[2] = Suffix(text, s)
      <4>1. /\ splitArg(t)[1] = SubSeq(t, 1, end - 1)
            /\ splitArg(t)[2] = SubSeq(rest, spaces, Len(rest))
        <5> DEFINE x == SubSeq(t, 1, end - 1)
                   y == SubSeq(rest, spaces, Len(rest))
                   cut == splitArg(t)
        <5>1. cut = <<x, y>>
          BY <3>10
        <5> HIDE DEF x, y, cut
        <5>2. cut[1] = x /\ cut[2] = y
          BY <5>1
        <5> QED BY <5>2 DEF x, y, cut
      <4> QED BY <2>4, <3>9, <4>1, Zenon
    <3> QED BY <3>11 DEF t, e, s
  <2> QED BY <2>8, <2>9
<1> QED BY <1>7, <1>8

-----------------------------------------------------------------------------
(* How many words begin before a place.                                    *)
Before(text, p) == Cardinality({q \in Starts(text) : q < p})

LEMMA BeforeType ==
  ASSUME NEW text \in Text, NEW p
  PROVE  IsFiniteSet({q \in Starts(text) : q < p}) /\ Before(text, p) \in Nat
<1> DEFINE S == {q \in Starts(text) : q < p}
<1>1. IsFiniteSet(1 .. Len(text)) /\ S \in SUBSET (1 .. Len(text))
  BY StartsType, FS_Interval
<1> HIDE DEF S
<1>2. IsFiniteSet(S) /\ Cardinality(S) \in Nat
  BY <1>1, FS_Subset, FS_CardinalityType
<1> QED BY <1>2 DEF S, Before

(* One more after a word, and as many where none begins.                   *)
LEMMA BeforeNext ==
  ASSUME NEW text \in Text, NEW p \in 1 .. Len(text) + 1
  PROVE  Before(text, NextStart(text, p))
           = IF p \in Starts(text) THEN Before(text, p) + 1 ELSE Before(text, p)
<1> DEFINE S == {q \in Starts(text) : q < p}
           s == NextStart(text, p)
<1>1. /\ s \in {q \in Starts(text) : q > p} \cup {Len(text) + 1} /\ s \in 1 .. Len(text) + 1
      /\ \A q \in Starts(text) : q > p => s <= q
  BY NextStartIs
<1>2. Len(text) \in Nat /\ \A q \in Starts(text) : q \in 1 .. Len(text)
  BY StartsType
<1>3. ASSUME p \in Starts(text), NEW q \in Starts(text) PROVE q < s <=> q < p \/ q = p
  BY <1>1, <1>2, <1>3
<1>4. p \in Starts(text) => {q \in Starts(text) : q < s} = S \cup {p}
  BY <1>3
<1>5. p \notin Starts(text) => {q \in Starts(text) : q < s} = S
  BY <1>1, <1>2
<1>6. p \notin S /\ IsFiniteSet(S)
  <2>1. p \notin S
    OBVIOUS
  <2> QED BY <2>1, BeforeType
<1>7. Cardinality(S) = Before(text, p) /\ Cardinality({q \in Starts(text) : q < s}) = Before(text, s)
  BY DEF Before
<1> HIDE DEF S, s
<1>8. Cardinality(S \cup {p}) = Cardinality(S) + 1
  BY <1>6, FS_AddElement
<1> QED BY <1>4, <1>5, <1>7, <1>8 DEF s

LEMMA BeforeGrows ==
  ASSUME NEW text \in Text, NEW p \in 1 .. Len(text) + 1, NEW q \in 1 .. Len(text) + 1, p <= q
  PROVE  /\ Before(text, p) <= Before(text, q)
         /\ p \in Starts(text) /\ p < q => Before(text, p) < Before(text, q)
         /\ Before(text, q) <= Before(text, p) + (q - p)
<1> DEFINE S == {k \in Starts(text) : k < p}
           T == {k \in Starts(text) : k < q}
           G == p .. q - 1
<1>1. Len(text) \in Nat /\ \A k \in Starts(text) : k \in 1 .. Len(text)
  BY StartsType
<1>2. S \in SUBSET T /\ p \notin S /\ T \in SUBSET (S \cup G)
  BY <1>1
<1>3. p \in Starts(text) /\ p < q => p \in T
  OBVIOUS
<1>4. IsFiniteSet(S) /\ IsFiniteSet(T) /\ IsFiniteSet(G) /\ Cardinality(G) = q - p
  <2>1. IsFiniteSet(S) /\ IsFiniteSet(T)
    BY BeforeType
  <2>2. IsFiniteSet(G) /\ Cardinality(G) = IF p > q - 1 THEN 0 ELSE q - 1 - p + 1
    <3>1. p \in Int /\ q - 1 \in Int
      BY <1>1
    <3> QED BY <3>1, FS_Interval
  <2> HIDE DEF G
  <2> QED BY <1>1, <2>1, <2>2
<1>5. Before(text, p) = Cardinality(S) /\ Before(text, q) = Cardinality(T)
  BY DEF Before
<1> HIDE DEF S, T, G
<1>6. Cardinality(S) <= Cardinality(T) /\ (Cardinality(T) = Cardinality(S) => T = S)
  BY <1>2, <1>4, FS_Subset
<1>7. Cardinality(T) <= Cardinality(S) + (q - p)
  <2>1. /\ IsFiniteSet(S \cup G)
        /\ Cardinality(S \cup G) = Cardinality(S) + Cardinality(G) - Cardinality(S \cap G)
    BY <1>4, FS_Union
  <2>2. Cardinality(T) <= Cardinality(S \cup G)
    BY <1>2, <2>1, FS_Subset
  <2>3. IsFiniteSet(S \cap G)
    BY <1>4, FS_Subset
  <2>4. /\ Cardinality(S \cap G) \in Nat /\ Cardinality(S) \in Nat
        /\ Cardinality(T) \in Nat /\ Cardinality(S \cup G) \in Nat
    BY <1>4, <2>1, <2>3, FS_CardinalityType
  <2> QED BY <1>1, <1>4, <2>1, <2>2, <2>4
<1>8. Cardinality(S) \in Nat /\ Cardinality(T) \in Nat
  BY <1>4, FS_CardinalityType
<1>9. p \in Starts(text) /\ p < q => Cardinality(S) < Cardinality(T)
  BY <1>2, <1>3, <1>6, <1>8
<1> QED BY <1>5, <1>6, <1>7, <1>9

(* A set of numbers without a gap is an interval.                          *)
LEMMA NoGap ==
  ASSUME NEW len \in Nat, NEW S \in SUBSET (1 .. len), \A i \in S : i > 1 => i - 1 \in S
  PROVE  S = 1 .. Cardinality(S)
<1>1. CASE S = {}
  BY <1>1, FS_EmptySet
<1>2. CASE S # {}
  <2>1. S \in SUBSET Nat /\ \A i \in S : i <= len
    OBVIOUS
  <2> DEFINE m == Seqs!Max(S)
  <2>2. m \in S /\ \A i \in S : i <= m
    BY <1>2, <2>1, Greatest
  <2>3. m \in 1 .. len
    BY <2>2
  <2> HIDE DEF m
  <2> DEFINE T == {k \in Nat : k < m => m - k \in S}
  <2>4. 0 \in T
    BY <2>2, <2>3
  <2>5. ASSUME NEW k \in Nat, k \in T PROVE k + 1 \in T
    <3> SUFFICES ASSUME k + 1 < m PROVE m - (k + 1) \in S
      OBVIOUS
    <3>1. m - k \in S /\ m - k > 1
      BY <2>3, <2>5
    <3>2. m - k - 1 \in S
      BY <3>1
    <3>3. m - k - 1 = m - (k + 1)
      BY <2>3
    <3> QED BY <3>2, <3>3
  <2>6. Nat \subseteq T
    <3> HIDE DEF T
    <3> QED BY <2>4, <2>5, SetInduction
  <2>7. \A i \in 1 .. m : i \in S
    <3> SUFFICES ASSUME NEW i \in 1 .. m PROVE i \in S
      OBVIOUS
    <3>1. m - i \in Nat /\ m - i < m /\ m - (m - i) = i
      BY <2>3
    <3>2. m - i \in T
      BY <2>6, <3>1
    <3>3. m - (m - i) \in S
      BY <3>1, <3>2
    <3> QED BY <3>1, <3>3
  <2>8. S = 1 .. m
    <3>1. \A i \in S : i \in 1 .. m
      BY <2>2, <2>3
    <3> QED BY <2>7, <3>1
  <2>9. Cardinality(1 .. m) = m
    BY <2>3, FS_Interval
  <2> QED BY <2>8, <2>9
<1> QED BY <1>1, <1>2

-----------------------------------------------------------------------------
(* The words that are read from a word on, and what is read of each.       *)
ReadFrom(text, first) ==
  {p \in Starts(text) : p >= first /\
     \A q \in Starts(text) : q >= first /\ text[q] = Colon => p <= q}
Word(text, p) ==
  IF text[p] = Colon THEN SubSeq(text, p + 1, Len(text))
  ELSE SubSeq(text, p, NextSpace(text, p) - 1)

LEMMA NextArgSuffix ==
  ASSUME NEW text \in Text, NEW p \in 1 .. Len(text)
  PROVE  /\ nextArg(Suffix(text, p))[1] = Word(text, p)
         /\ nextArg(Suffix(text, p))[2] =
              IF text[p] = Colon THEN <<>> ELSE Suffix(text, NextStart(text, p))
<1> DEFINE t == Suffix(text, p)
<1>1. Len(text) \in Nat /\ p \in 1 .. Len(text) + 1
  BY StartsType
<1>2. /\ t \in Text /\ Len(t) = Len(text) - p + 1
      /\ \A i \in 1 .. Len(text) - p + 1 : t[i] = text[p + i - 1]
  BY <1>1, SuffixType
<1>3. Len(t) > 0 /\ t # <<>> /\ t[1] = text[p]
  <2>1. Len(t) > 0
    BY <1>1, <1>2
  <2>2. 1 \in 1 .. Len(text) - p + 1 /\ p + 1 - 1 = p
    BY <1>1
  <2> QED BY <1>2, <2>1, <2>2
<1>4. nextArg(t) = IF t # <<>> /\ t[1] = Colon THEN <<Tail(t), <<>>>> ELSE splitArg(t)
  BY Zenon DEF nextArg, Begins, Colon
<1>5. CASE text[p] = Colon
  <2>1. Tail(t) = SubSeq(t, 2, Len(t))
    <3> HIDE DEF t
    <3> QED BY <1>2, <1>3, TailIsSubSeq DEF Text
  <2>2. 2 \in 1 .. Len(text) - p + 2 /\ Len(t) \in 2 - 1 .. Len(text) - p + 1
    BY <1>1, <1>2
  <2>3. SubSeq(t, 2, Len(t)) = SubSeq(text, p + 2 - 1, p + Len(t) - 1)
    BY <1>1, <2>2, PartOfSuffix
  <2>4. p + 2 - 1 = p + 1 /\ p + Len(t) - 1 = Len(text)
    BY <1>1, <1>2
  <2>5. Tail(t) = Word(text, p)
    BY <1>5, <2>1, <2>3, <2>4, Zenon DEF Word
  <2> DEFINE x == Tail(t)
             arg == nextArg(t)
  <2>6. arg = <<x, <<>>>>
    BY <1>3, <1>4, <1>5
  <2> HIDE DEF x, arg
  <2>7. arg[1] = x /\ arg[2] = <<>>
    BY <2>6
  <2> QED BY <1>5, <2>5, <2>7 DEF x, arg
<1>6. CASE text[p] # Colon
  BY <1>1, <1>3, <1>4, <1>6, SplitSuffix, Zenon DEF Word
<1> QED BY <1>5, <1>6

LEMMA EmptyArg == nextArg(<<>>)[2] = <<>>
<1> DEFINE t == <<>>
           end == Seqs!SelectInSeq(t, LAMBDA c : c = " ")
<1>1. \A i \in 1 .. Len(t) : FALSE
  OBVIOUS
<1>2. t = <<>>
  OBVIOUS
<1> HIDE DEF t
<1>3. end = 0
  BY <1>1, Zenon DEF Seqs!SelectInSeq
<1>4. splitArg(t) = <<t, <<>>>>
  BY <1>3 DEF splitArg
<1>5. nextArg(t) = splitArg(t)
  BY <1>2 DEF nextArg, Begins
<1> DEFINE arg == nextArg(t)
<1>6. arg = <<t, <<>>>>
  BY <1>4, <1>5
<1> HIDE DEF arg
<1>7. arg[2] = <<>>
  BY <1>6
<1> QED BY <1>2, <1>7 DEF arg

(* From a word on, the loop of ParseLine reads word by word to the end or  *)
(* a colon.                                                                *)
LEMMA ArgsFrom ==
  ASSUME NEW text \in Text, NEW first \in Starts(text) \cup {Len(text) + 1}
  PROVE  LET args == ParseArgs(Suffix(text, first))
         IN /\ Len(args) = Cardinality(ReadFrom(text, first))
            /\ \A p \in ReadFrom(text, first) :
                 args[Before(text, p) - Before(text, first) + 1] = Word(text, p)
            /\ \A k \in 1 .. Len(args) : \E p \in ReadFrom(text, first) :
                 Before(text, p) - Before(text, first) + 1 = k
<1> DEFINE t == Suffix(text, first)
           len == Len(t)
           last == Len(text) + 1
           B(p) == Before(text, p)
           read == ReadFrom(text, first)
<1>1. /\ Len(text) \in Nat /\ first \in 1 .. last /\ last \in 1 .. last /\ last \notin Starts(text)
      /\ \A p \in Starts(text) : p \in 1 .. last /\ p \in 1 .. Len(text)
  BY StartsType
<1>2. t \in Text /\ len \in Nat /\ len = Len(text) - first + 1
  BY <1>1, SuffixType
<1>3. PICK rest \in [0 .. len -> Text] :
        /\ \A i \in 0 .. len : rest[i] = IF i = 0 THEN t ELSE nextArg(rest[i - 1])[2]
        /\ ParseArgs(t) = [i \in 1 .. Cardinality({k \in 1 .. len : rest[k - 1] # <<>>}) |->
                            nextArg(rest[i - 1])[1]]
  BY <1>2, RestExists
<1> HIDE DEF t, len
<1>4. \A p \in 1 .. last : B(p) \in Nat
  BY BeforeType
<1>5. /\ read \subseteq Starts(text)
      /\ \A p \in read : p \in 1 .. Len(text) /\ p \in 1 .. last /\ p >= first
      /\ \A p \in read, q \in Starts(text) : q >= first /\ text[q] = Colon => p <= q
      /\ \A p \in Starts(text) :
           p >= first /\ (\A q \in Starts(text) : q >= first /\ text[q] = Colon => p <= q) => p \in read
  BY <1>1 DEF ReadFrom
<1> HIDE DEF read
<1>6. Suffix(text, last) = <<>>
  BY <1>1, SubSeqEmpty DEF Suffix
<1>7. \A p \in 1 .. Len(text) : Suffix(text, p) # <<>>
  <2> SUFFICES ASSUME NEW p \in 1 .. Len(text) PROVE Suffix(text, p) # <<>>
    OBVIOUS
  <2>1. Len(Suffix(text, p)) = Len(text) - p + 1
    BY <1>1, SuffixType
  <2> QED BY <1>1, <2>1
<1> DEFINE At(i, p) == /\ rest[i] = Suffix(text, p)
                       /\ \/ p \in read /\ B(p) = B(first) + i
                          \/ p = last /\ \A q \in read : B(q) < B(first) + i
           S == {i \in Nat : i <= len => \E p \in 1 .. last : At(i, p)}
<1>8. 0 \in S
  <2>1. rest[0] = Suffix(text, first)
    BY <1>2, <1>3 DEF t
  <2>2. CASE first \in Starts(text)
    <3>1. first \in read
      <4>1. first >= first /\ \A q \in Starts(text) : q >= first /\ text[q] = Colon => first <= q
        BY <1>1
      <4> QED BY <1>5, <2>2, <4>1
    <3>2. B(first) = B(first) + 0
      BY <1>1, <1>4
    <3> QED BY <1>1, <2>1, <3>1, <3>2
  <2>3. CASE first = last
    <3>1. \A q \in read : FALSE
      BY <1>1, <1>5, <2>3
    <3> QED BY <1>1, <2>1, <2>3, <3>1
  <2> QED BY <2>2, <2>3
<1>9. ASSUME NEW i \in Nat, i \in S PROVE i + 1 \in S
  <2> SUFFICES ASSUME i + 1 <= len PROVE \E p \in 1 .. last : At(i + 1, p)
    OBVIOUS
  <2>1. PICK p \in 1 .. last : At(i, p)
    BY <1>2, <1>9
  <2>2. rest[i + 1] = nextArg(rest[i])[2]
    <3>1. i + 1 \in 0 .. len /\ i + 1 # 0 /\ (i + 1) - 1 = i
      BY <1>2
    <3> QED BY <1>3, <3>1
  <2>3. CASE p = last /\ \A q \in read : B(q) < B(first) + i
    <3>1. rest[i + 1] = Suffix(text, last)
      <4>1. nextArg(<<>>)[2] = <<>>
        BY EmptyArg
      <4> QED BY <1>6, <2>1, <2>2, <2>3, <4>1
    <3>2. \A q \in read : B(q) < B(first) + (i + 1)
      BY <1>1, <1>4, <1>5, <2>3
    <3> QED BY <1>1, <3>1, <3>2
  <2>4. CASE p \in read /\ B(p) = B(first) + i /\ text[p] = Colon
    <3>1. p \in 1 .. Len(text) /\ p >= first /\ p \in Starts(text)
      BY <1>5, <2>4
    <3>2. rest[i + 1] = Suffix(text, last)
      BY <1>6, <2>1, <2>2, <2>4, <3>1, NextArgSuffix
    <3>3. \A q \in read : B(q) < B(first) + (i + 1)
      <4> SUFFICES ASSUME NEW q \in read PROVE B(q) < B(first) + (i + 1)
        OBVIOUS
      <4>1. q <= p /\ q \in 1 .. last
        BY <1>5, <2>4, <3>1
      <4>2. B(q) <= B(p)
        BY <4>1, BeforeGrows
      <4> QED BY <1>1, <1>4, <2>4, <4>1, <4>2
    <3> QED BY <1>1, <3>2, <3>3
  <2>5. CASE p \in read /\ B(p) = B(first) + i /\ text[p] # Colon
    <3> DEFINE s == NextStart(text, p)
    <3>1. p \in 1 .. Len(text) /\ p >= first /\ p \in Starts(text)
      BY <1>5, <2>5
    <3>2. rest[i + 1] = Suffix(text, s)
      BY <2>1, <2>2, <2>5, <3>1, NextArgSuffix
    <3>3. /\ s \in {q \in Starts(text) : q > p} \cup {last} /\ s \in 1 .. last
          /\ \A q \in Starts(text) : q > p => s <= q
      BY NextStartIs
    <3>4. B(s) = B(first) + (i + 1)
      <4>1. B(s) = B(p) + 1
        BY <3>1, BeforeNext
      <4> QED BY <1>1, <1>4, <2>5, <4>1
    <3> HIDE DEF s
    <3>5. CASE s \in Starts(text)
      <4>1. s > p
        BY <1>1, <3>3, <3>5
      <4>2. ASSUME NEW q \in Starts(text), q >= first, text[q] = Colon PROVE s <= q
        <5>1. p <= q
          BY <1>5, <2>5, <4>2
        <5>2. p # q
          BY <2>5, <4>2
        <5>3. q > p
          BY <1>1, <5>1, <5>2
        <5> QED BY <3>3, <5>3
      <4>3. s \in read
        BY <1>1, <1>5, <3>1, <3>3, <3>5, <4>1, <4>2
      <4> QED BY <3>2, <3>3, <3>4, <4>3
    <3>6. CASE s = last
      <4>1. \A q \in read : B(q) < B(first) + (i + 1)
        <5> SUFFICES ASSUME NEW q \in read PROVE B(q) < B(s)
          BY <3>4
        <5>1. q \in Starts(text) /\ q \in 1 .. last /\ q < s
          BY <1>1, <1>5, <3>6
        <5> QED BY <3>3, <5>1, BeforeGrows
      <4> QED BY <1>1, <3>2, <3>6, <4>1
    <3> QED BY <3>3, <3>5, <3>6
  <2> QED BY <2>1, <2>3, <2>4, <2>5
<1>10. \A i \in 0 .. len : \E p \in 1 .. last : At(i, p)
  <2>1. Nat \subseteq S
    <3> HIDE DEF S
    <3> QED BY <1>8, <1>9, SetInduction
  <2> QED BY <1>2, <2>1
<1> DEFINE rounds == {k \in 1 .. len : rest[k - 1] # <<>>}
           place(p) == B(p) - B(first) + 1
<1>11. \A p \in read : place(p) \in 1 .. len
  <2> SUFFICES ASSUME NEW p \in read PROVE place(p) \in 1 .. len
    OBVIOUS
  <2>1. p \in 1 .. Len(text) /\ p \in 1 .. last /\ first <= p
    BY <1>1, <1>5
  <2>2. B(first) <= B(p) /\ B(p) <= B(first) + (p - first)
    BY <1>1, <2>1, BeforeGrows
  <2>3. B(first) \in Nat /\ B(p) \in Nat
    BY <1>1, <1>4, <2>1
  <2> QED BY <1>1, <1>2, <2>1, <2>2, <2>3
<1>12. \A p, q \in read : place(p) = place(q) => p = q
  <2> SUFFICES ASSUME NEW p \in read, NEW q \in read, p < q PROVE place(p) # place(q)
    BY <1>1, <1>5
  <2>1. p \in Starts(text) /\ p \in 1 .. last /\ q \in 1 .. last /\ p <= q
    BY <1>5
  <2>2. B(p) < B(q)
    BY <2>1, BeforeGrows
  <2>3. B(first) \in Nat /\ B(p) \in Nat /\ B(q) \in Nat
    BY <1>1, <1>4, <2>1
  <2> QED BY <2>2, <2>3
<1>13. \A p \in read : rest[place(p) - 1] = Suffix(text, p) /\ place(p) \in rounds
  <2> SUFFICES ASSUME NEW p \in read
               PROVE  rest[place(p) - 1] = Suffix(text, p) /\ place(p) \in rounds
    OBVIOUS
  <2> DEFINE i == place(p) - 1
  <2>1. i \in 0 .. len /\ B(p) = B(first) + i /\ B(p) \in Nat /\ B(first) \in Nat
    BY <1>1, <1>2, <1>4, <1>5, <1>11, SMTT(30)
  <2> HIDE DEF i
  <2>2. PICK q \in 1 .. last : At(i, q)
    BY <1>10, <2>1
  <2>3. q \in read /\ B(q) = B(first) + i
    BY <2>1, <2>2
  <2>4. q = p
    BY <1>12, <2>1, <2>3
  <2>5. rest[place(p) - 1] = Suffix(text, p)
    BY <2>2, <2>4 DEF i
  <2> QED BY <1>5, <1>7, <1>11, <2>5
<1>14. \A k \in rounds : \E p \in read : place(p) = k
  <2> SUFFICES ASSUME NEW k \in rounds PROVE \E p \in read : place(p) = k
    OBVIOUS
  <2>1. k \in 1 .. len /\ k - 1 \in 0 .. len /\ rest[k - 1] # <<>>
    BY <1>2
  <2>2. PICK p \in 1 .. last : At(k - 1, p)
    BY <1>10, <2>1
  <2>3. p \in read /\ B(p) = B(first) + (k - 1)
    BY <1>6, <2>1, <2>2
  <2> QED BY <1>1, <1>4, <2>1, <2>3
<1>15. rounds = 1 .. Cardinality(rounds)
  <2>1. ASSUME NEW k \in rounds, k > 1 PROVE k - 1 \in rounds
    <3>1. k \in 1 .. len /\ k - 2 \in 0 .. len /\ k - 1 \in 1 .. len
      BY <1>2, <2>1
    <3>2. PICK p \in read : place(p) = k
      BY <1>14
    <3>3. PICK q \in 1 .. last : At(k - 2, q)
      BY <1>10, <3>1
    <3>4. B(p) = B(first) + (k - 1) /\ B(p) \in Nat /\ B(first) \in Nat
      <4>1. B(p) \in Nat /\ B(first) \in Nat
        BY <1>1, <1>4, <1>5
      <4> QED BY <1>2, <3>1, <3>2, <4>1, SMTT(30)
    <3>5. q \in read
      BY <3>1, <3>3, <3>4
    <3>6. rest[k - 2] # <<>>
      BY <1>5, <1>7, <3>3, <3>5
    <3>7. (k - 1) - 1 = k - 2
      BY <3>1
    <3> QED BY <3>1, <3>6, <3>7
  <2>2. rounds \in SUBSET (1 .. len)
    OBVIOUS
  <2> HIDE DEF rounds
  <2> QED BY <1>2, <2>1, <2>2, NoGap
<1>16. Cardinality(rounds) = Cardinality(read)
  <2> DEFINE f == [p \in read |-> place(p)]
  <2>1. f \in [read -> rounds] /\ \A p \in read : f[p] = place(p)
    BY <1>13
  <2>2. (\A p, q \in read : f[p] = f[q] => p = q) /\ \A k \in rounds : \E p \in read : f[p] = k
    BY <1>12, <1>14, <2>1
  <2> HIDE DEF f, rounds
  <2>3. f \in Bijection(read, rounds)
    BY <2>1, <2>2, Fun_IsBij
  <2>4. ExistsBijection(read, rounds)
    BY <2>3, Fun_ExistsBij
  <2>5. IsFiniteSet(read)
    <3>1. read \in SUBSET (1 .. Len(text)) /\ IsFiniteSet(1 .. Len(text))
      BY <1>1, <1>5, FS_Interval
    <3> QED BY <3>1, FS_Subset
  <2> QED BY <2>4, <2>5, FS_Bijection
<1> DEFINE args == ParseArgs(t)
<1>17. args = [i \in 1 .. Cardinality(rounds) |-> nextArg(rest[i - 1])[1]]
  BY <1>3
<1>18. Cardinality(rounds) \in Nat
  <2>1. IsFiniteSet(1 .. len) /\ rounds \in SUBSET (1 .. len)
    BY <1>2, FS_Interval
  <2> HIDE DEF rounds
  <2> QED BY <2>1, FS_Subset, FS_CardinalityType
<1> HIDE DEF args, rounds, place
<1>19. Len(args) = Cardinality(read)
  BY <1>16, <1>17, <1>18
<1>20. ASSUME NEW p \in read PROVE args[place(p)] = Word(text, p)
  <2>1. place(p) \in 1 .. Cardinality(rounds) /\ rest[place(p) - 1] = Suffix(text, p)
    BY <1>13, <1>15
  <2>2. args[place(p)] = nextArg(rest[place(p) - 1])[1]
    BY <1>17, <2>1
  <2>3. p \in 1 .. Len(text)
    BY <1>5
  <2> QED BY <2>1, <2>2, <2>3, NextArgSuffix
<1>21. \A k \in 1 .. Len(args) : \E p \in read : place(p) = k
  BY <1>14, <1>15, <1>16, <1>19
<1> QED BY <1>19, <1>20, <1>21 DEF args, place, read, t

(* The words that ParseLine does not make arguments of.                    *)
Skipped(text) == CASE Begins(text, Colon) -> 2 [] Begins(text, Blank) -> 0 [] OTHER -> 1

(* The arguments of a line are its words from the first that is not        *)
(* skipped.                                                                *)
LEMMA ArgsOfLine ==
  ASSUME NEW text \in Text
  PROVE  \E first \in Starts(text) \cup {Len(text) + 1} :
           /\ ParseLine(text).args = ParseArgs(Suffix(text, first))
           /\ \A p \in Starts(text) : Before(text, p) >= Skipped(text) <=> p >= first
           /\ first \in Starts(text) => Before(text, first) = Skipped(text)
<1> DEFINE last == Len(text) + 1
           p0 == IF Begins(text, Colon) THEN NextStart(text, 1) ELSE 1
           first == NextStart(text, p0)
           B(p) == Before(text, p)
           whole == IF Begins(text, Colon) THEN splitArg(text)[2] ELSE text
           cut == splitArg(whole)
<1>1. /\ Len(text) \in Nat /\ 1 \in 1 .. last /\ last \in 1 .. last /\ last \notin Starts(text)
      /\ \A p \in Starts(text) : p \in 1 .. last /\ p \in 1 .. Len(text)
  BY StartsType
<1>2. p0 \in 1 .. last
  BY <1>1, NextStartIs
<1>3. text = Suffix(text, 1)
  <2> DEFINE t == Suffix(text, 1)
  <2>1. /\ t \in Seq(Token) /\ Len(t) = Len(text) - 1 + 1 /\ text \in Seq(Token)
        /\ \A i \in 1 .. Len(text) - 1 + 1 : t[i] = text[1 + i - 1]
    BY <1>1, SuffixType DEF Text
  <2> HIDE DEF t
  <2>2. Len(t) = Len(text) /\ \A i \in 1 .. Len(text) : t[i] = text[i]
    BY <1>1, <2>1
  <2>3. t = text
    BY <2>1, <2>2
  <2> QED BY <2>3 DEF t
<1>4. whole = Suffix(text, p0)
  BY <1>1, <1>3, SplitSuffix
<1>5. cut[2] = Suffix(text, first)
  BY <1>2, <1>4, SplitSuffix
<1>6. ParseLine(text).args = ParseArgs(Suffix(text, first))
  <2>1. ParseLine(text) = [code |-> NewName(Mapped(Upper, cut[1])), args |-> ParseArgs(cut[2])]
    BY Zenon DEF ParseLine, Colon
  <2> HIDE DEF cut
  <2> QED BY <1>5, <2>1
<1> HIDE DEF whole, cut
<1>7. first \in {q \in Starts(text) : q > p0} \cup {last} /\ first \in 1 .. last
  BY <1>2, NextStartIs
<1>8. B(first) = IF p0 \in Starts(text) THEN B(p0) + 1 ELSE B(p0)
  BY <1>2, BeforeNext
<1>9. B(1) = 0
  <2>1. {q \in Starts(text) : q < 1} = {}
    BY <1>1
  <2> QED BY <2>1, FS_EmptySet DEF Before
<1>10. \A p \in 1 .. last : B(p) \in Nat
  BY BeforeType
<1> HIDE DEF first
<1>11. Skipped(text) \in Nat /\ B(first) <= Skipped(text)
       /\ (first \in Starts(text) => B(first) = Skipped(text))
  <2>1. CASE Begins(text, Colon)
    <3>1. Skipped(text) = 2 /\ 1 \in Starts(text) /\ p0 = NextStart(text, 1)
      <4>1. Skipped(text) = 2
        <5>1. ~Begins(text, Blank)
          BY <2>1 DEF Begins, Colon, Blank
        <5> QED BY <2>1, <5>1 DEF Skipped
      <4>2. 1 \in 1 .. Len(text) /\ text[1] # Blank
        BY <1>1, <2>1 DEF Begins, Colon, Blank, Text
      <4> QED BY <2>1, <4>1, <4>2, StartsType
    <3>2. B(p0) = 1
      BY <1>1, <1>9, <3>1, BeforeNext
    <3>3. p0 \in Starts(text) \cup {last}
      BY <1>1, <3>1, NextStartIs
    <3>4. p0 = last => first = last
      BY <1>1, <1>7
    <3> QED BY <1>1, <1>8, <3>1, <3>2, <3>3, <3>4
  <2>2. CASE Begins(text, Blank)
    <3>1. text[1] = Blank /\ ~Begins(text, Colon)
      BY <2>2 DEF Begins, Colon, Blank
    <3>2. Skipped(text) = 0 /\ p0 = 1 /\ 1 \notin Starts(text)
      BY <2>2, <3>1, StartsType DEF Skipped
    <3> QED BY <1>8, <1>9, <3>2
  <2>3. CASE ~Begins(text, Colon) /\ ~Begins(text, Blank)
    <3>1. Skipped(text) = 1 /\ p0 = 1
      BY <2>3 DEF Skipped
    <3>2. CASE text = <<>>
      <4>1. last = 1
        BY <3>2
      <4>2. 1 \notin Starts(text) /\ first = last
        BY <1>1, <1>7, <4>1
      <4> QED BY <1>1, <1>8, <1>9, <3>1, <4>2
    <3>3. CASE text # <<>>
      <4>1. 1 \in 1 .. Len(text) /\ text[1] # Blank
        BY <1>1, <2>3, <3>3 DEF Begins, Text
      <4>2. 1 \in Starts(text)
        BY <4>1, StartsType
      <4> QED BY <1>8, <1>9, <3>1, <4>2
    <3> QED BY <3>2, <3>3
  <2> QED BY <2>1, <2>2, <2>3
<1>12. ASSUME NEW p \in Starts(text) PROVE B(p) >= Skipped(text) <=> p >= first
  <2>1. p \in 1 .. last /\ p # last /\ p <= last /\ B(p) \in Nat /\ B(first) \in Nat
    BY <1>1, <1>7, <1>10
  <2>2. CASE p < first
    <3>1. B(p) < B(first)
      BY <1>7, <2>1, <2>2, BeforeGrows
    <3> QED BY <1>1, <1>7, <1>11, <2>1, <2>2, <3>1
  <2>3. CASE p >= first
    <3>1. first \in Starts(text)
      BY <1>1, <1>7, <2>1, <2>3
    <3>2. B(first) <= B(p)
      BY <1>7, <2>1, <2>3, BeforeGrows
    <3> QED BY <1>11, <2>1, <2>3, <3>1, <3>2
  <2> QED BY <1>1, <1>7, <2>1, <2>2, <2>3
<1>13. first \in Starts(text) \cup {last}
  BY <1>7
<1> HIDE DEF p0
<1> QED BY <1>6, <1>11, <1>12, <1>13

-----------------------------------------------------------------------------
(* What is told of a MODE, read back.                                      *)

(* A line that begins with a command word, and has a colon before its last *)
(* word at most: every word but the first is an argument.                  *)
Plain(text) ==
  /\ 1 \in Starts(text) /\ text[1] # Colon
  /\ \A p, q \in Starts(text) : p < q => text[p] # Colon

LEMMA PlainArgs ==
  ASSUME NEW text \in Text, Plain(text)
  PROVE  LET args == ParseLine(text).args
         IN /\ args \in Seq(Text)
            /\ Before(text, Len(text) + 1) = Len(args) + 1
            /\ \A p \in Starts(text) : p > 1 => args[Before(text, p)] = Word(text, p)
            /\ \A k \in 1 .. Len(args) : \E p \in Starts(text) : p > 1 /\ Before(text, p) = k
<1> DEFINE args == ParseLine(text).args
           last == Len(text) + 1
           B(p) == Before(text, p)
           rest == {p \in Starts(text) : p > 1}
<1>1. /\ Len(text) \in Nat /\ 1 \in 1 .. last /\ last \in 1 .. last
      /\ \A p \in Starts(text) : p \in 1 .. last /\ p \in 1 .. Len(text)
  BY StartsType
<1>2. Skipped(text) = 1
  <2>1. ~Begins(text, Colon) /\ ~Begins(text, Blank)
    BY StartsType DEF Plain, Begins
  <2> QED BY <2>1 DEF Skipped
<1>3. PICK first \in Starts(text) \cup {last} :
        /\ args = ParseArgs(Suffix(text, first))
        /\ \A p \in Starts(text) : B(p) >= 1 <=> p >= first
        /\ first \in Starts(text) => B(first) = 1
  BY <1>2, ArgsOfLine
<1>4. B(1) = 0
  <2>1. {q \in Starts(text) : q < 1} = {}
    BY <1>1
  <2> QED BY <2>1, FS_EmptySet DEF Before
<1>5. \A p \in 1 .. last : B(p) \in Nat
  BY BeforeType
<1>6. \A p \in Starts(text) : p >= first <=> p > 1
  <2>1. ASSUME NEW p \in Starts(text), p > 1 PROVE B(p) >= 1
    <3>1. 1 \in Starts(text) /\ 1 <= p /\ 1 < p
      BY <1>1, <2>1 DEF Plain
    <3>2. B(1) < B(p)
      BY <1>1, <3>1, BeforeGrows
    <3> QED BY <1>1, <1>4, <1>5, <3>2
  <2> QED BY <1>1, <1>3, <1>4, <2>1
<1>7. ReadFrom(text, first) = rest
  <2>1. \A p \in rest, q \in Starts(text) : text[q] = Colon => p <= q
    BY <1>1 DEF Plain
  <2> QED BY <1>6, <2>1 DEF ReadFrom
<1>8. /\ Len(args) = Cardinality(rest)
      /\ \A p \in rest : args[B(p) - B(first) + 1] = Word(text, p)
      /\ \A k \in 1 .. Len(args) : \E p \in rest : B(p) - B(first) + 1 = k
  <2>1. /\ Len(ParseArgs(Suffix(text, first))) = Cardinality(ReadFrom(text, first))
        /\ \A p \in ReadFrom(text, first) :
             ParseArgs(Suffix(text, first))[B(p) - B(first) + 1] = Word(text, p)
        /\ \A k \in 1 .. Len(ParseArgs(Suffix(text, first))) :
             \E p \in ReadFrom(text, first) : B(p) - B(first) + 1 = k
    BY <1>3, ArgsFrom
  <2> HIDE DEF args
  <2> QED BY <1>3, <1>7, <2>1
<1>9. \A p \in rest : B(p) - B(first) + 1 = B(p)
  <2> SUFFICES ASSUME NEW p \in rest PROVE B(p) - B(first) + 1 = B(p)
    OBVIOUS
  <2>1. first \in Starts(text)
    BY <1>1, <1>3, <1>6
  <2> QED BY <1>1, <1>3, <1>5, <2>1
<1>10. B(last) = Cardinality(rest) + 1
  <2>1. {q \in Starts(text) : q < last} = rest \cup {1} /\ 1 \notin rest
    BY <1>1 DEF Plain
  <2>2. IsFiniteSet(rest)
    <3>1. rest \in SUBSET (1 .. Len(text)) /\ IsFiniteSet(1 .. Len(text))
      BY <1>1, FS_Interval
    <3> QED BY <3>1, FS_Subset
  <2>3. B(last) = Cardinality(rest \cup {1})
    BY <2>1 DEF Before
  <2> HIDE DEF rest
  <2> QED BY <2>1, <2>2, <2>3, FS_AddElement
<1>11. args \in Seq(Text)
  BY LineType
<1> HIDE DEF args
<1> QED BY <1>8, <1>9, <1>10, <1>11 DEF args

(* One more word at the end of such a line is one more argument.           *)
LEMMA AppendWord ==
  ASSUME NEW text \in Text, Plain(text), text[Len(text)] # Blank,
         \A p \in Starts(text) : text[p] # Colon,
         NEW word \in Text, word # <<>>, \A i \in 1 .. Len(word) : word[i] # Blank
  PROVE  LET longer == text \o <<Blank>> \o word
         IN /\ longer \in Text /\ Plain(longer) /\ longer[Len(longer)] # Blank
            /\ word[1] # Colon => \A p \in Starts(longer) : longer[p] # Colon
            /\ ParseLine(longer).args =
                 Append(ParseLine(text).args, IF word[1] = Colon THEN Tail(word) ELSE word)
<1> DEFINE longer == text \o <<Blank>> \o word
           n == Len(text)
           m == Len(word)
           new == n + 2
<1>1. /\ n \in Nat /\ m \in Nat /\ m > 0 /\ 1 \in 1 .. n
      /\ \A p \in Starts(text) : p \in 1 .. n
  BY StartsType DEF Plain, Text
<1>2. Blank \in Token
  BY ParsingAssumption DEF Blank
<1>3. /\ longer \in Text /\ Len(longer) = n + 1 + m
      /\ \A i \in 1 .. n : longer[i] = text[i]
      /\ longer[n + 1] = Blank
      /\ \A i \in n + 2 .. n + 1 + m : longer[i] = word[i - n - 1]
  <2> DEFINE most == text \o <<Blank>>
  <2>1. <<Blank>> \in Seq(Token) /\ Len(<<Blank>>) = 1 /\ <<Blank>>[1] = Blank
    BY <1>2
  <2>2. /\ most \in Seq(Token) /\ Len(most) = n + 1
        /\ \A i \in 1 .. n + 1 : most[i] = IF i <= n THEN text[i] ELSE <<Blank>>[i - n]
    <3>1. text \in Seq(Token)
      BY DEF Text
    <3>2. /\ most \in Seq(Token) /\ Len(most) = n + Len(<<Blank>>)
          /\ \A i \in 1 .. n + Len(<<Blank>>) : most[i] = IF i <= n THEN text[i] ELSE <<Blank>>[i - n]
      BY <2>1, <3>1, ConcatProperties
    <3> HIDE DEF most, n
    <3> QED BY <2>1, <3>2
  <2>3. (\A i \in 1 .. n : most[i] = text[i]) /\ most[n + 1] = Blank
    BY <1>1, <2>1, <2>2
  <2> HIDE DEF most
  <2>4. /\ most \o word \in Seq(Token) /\ Len(most \o word) = n + 1 + m
        /\ \A i \in 1 .. n + 1 + m :
             (most \o word)[i] = IF i <= n + 1 THEN most[i] ELSE word[i - (n + 1)]
    <3>1. word \in Seq(Token)
      BY DEF Text
    <3>2. /\ most \o word \in Seq(Token) /\ Len(most \o word) = Len(most) + m
          /\ \A i \in 1 .. Len(most) + m :
               (most \o word)[i] = IF i <= Len(most) THEN most[i] ELSE word[i - Len(most)]
      BY <2>2, <3>1, ConcatProperties
    <3> QED BY <2>2, <3>2
  <2>5. longer = most \o word
    BY DEF most
  <2> HIDE DEF longer
  <2>6. \A i \in n + 2 .. n + 1 + m : longer[i] = word[i - n - 1]
    <3> SUFFICES ASSUME NEW i \in n + 2 .. n + 1 + m PROVE longer[i] = word[i - n - 1]
      OBVIOUS
    <3>1. i \in 1 .. n + 1 + m /\ ~(i <= n + 1) /\ i - (n + 1) = i - n - 1
      BY <1>1
    <3> QED BY <2>4, <2>5, <3>1
  <2>7. (\A i \in 1 .. n : longer[i] = text[i]) /\ longer[n + 1] = Blank
    BY <1>1, <2>3, <2>4, <2>5
  <2> QED BY <2>4, <2>5, <2>6, <2>7 DEF Text
<1> HIDE DEF longer, n, m
<1>4. Starts(longer) = Starts(text) \cup {new}
  <2>1. /\ \A p \in Starts(longer) :
             p \in 1 .. n + 1 + m /\ longer[p] # Blank /\ (p = 1 \/ longer[p - 1] = Blank)
        /\ \A p \in 1 .. n + 1 + m :
             longer[p] # Blank /\ (p = 1 \/ longer[p - 1] = Blank) => p \in Starts(longer)
    BY <1>3, StartsType
  <2>2. /\ \A p \in Starts(text) : text[p] # Blank /\ (p = 1 \/ text[p - 1] = Blank)
        /\ \A p \in 1 .. n : text[p] # Blank /\ (p = 1 \/ text[p - 1] = Blank) => p \in Starts(text)
    BY StartsType DEF n
  <2>3. ASSUME NEW p \in 1 .. n PROVE p \in Starts(longer) <=> p \in Starts(text)
    <3>1. longer[p] = text[p] /\ (p = 1 \/ longer[p - 1] = text[p - 1])
      BY <1>1, <1>3
    <3>2. p \in 1 .. n + 1 + m
      BY <1>1
    <3> QED BY <2>1, <2>2, <3>1, <3>2
  <2>4. n + 1 \notin Starts(longer)
    BY <1>3, <2>1
  <2>5. new \in Starts(longer)
    <3>1. new \in n + 2 .. n + 1 + m /\ new - n - 1 = 1 /\ 1 \in 1 .. m /\ new - 1 = n + 1
      BY <1>1
    <3>2. longer[new] # Blank
      BY <1>3, <3>1 DEF m
    <3>3. new \in 1 .. n + 1 + m
      BY <1>1
    <3> QED BY <1>3, <2>1, <3>1, <3>2, <3>3
  <2>6. ASSUME NEW p \in Starts(longer), p > n + 2 PROVE FALSE
    <3>1. p \in 1 .. n + 1 + m /\ longer[p - 1] = Blank
      BY <1>1, <2>1, <2>6
    <3>2. p - 1 \in n + 2 .. n + 1 + m /\ (p - 1) - n - 1 \in 1 .. m
      BY <1>1, <2>6, <3>1
    <3> QED BY <1>3, <3>1, <3>2 DEF m
  <2>7. ASSUME NEW p PROVE p \in Starts(longer) <=> p \in Starts(text) \cup {new}
    <3>1. p \in Starts(longer) => p \in 1 .. n \/ p = n + 1 \/ p = new \/ p > n + 2
      BY <1>1, <2>1
    <3> QED BY <1>1, <2>3, <2>4, <2>5, <2>6, <3>1
  <2> QED BY <2>7
<1>5. /\ \A p \in Starts(text) : longer[p] = text[p] /\ p < new /\ p \in 1 .. n
      /\ longer[new] = word[1]
  <2>1. new \in n + 2 .. n + 1 + m /\ new - n - 1 = 1
    BY <1>1
  <2> QED BY <1>1, <1>3, <2>1
<1>6. Plain(longer)
  <2>1. 1 \in Starts(longer) /\ longer[1] # Colon
    BY <1>4, <1>5 DEF Plain
  <2>2. ASSUME NEW p \in Starts(longer), NEW q \in Starts(longer), p < q PROVE longer[p] # Colon
    BY <1>1, <1>4, <1>5, <2>2
  <2> QED BY <2>1, <2>2 DEF Plain
<1>7. longer[Len(longer)] # Blank
  <2>1. n + 1 + m \in n + 2 .. n + 1 + m /\ (n + 1 + m) - n - 1 = m /\ m \in 1 .. m
    BY <1>1
  <2> QED BY <1>3, <2>1 DEF m
<1>8. word[1] # Colon => \A p \in Starts(longer) : longer[p] # Colon
  BY <1>4, <1>5
<1> DEFINE arg == IF word[1] = Colon THEN Tail(word) ELSE word
           old == ParseLine(text).args
           args == ParseLine(longer).args
<1>9. /\ old \in Seq(Text) /\ Before(text, n + 1) = Len(old) + 1
      /\ \A p \in Starts(text) : p > 1 => old[Before(text, p)] = Word(text, p)
      /\ \A k \in 1 .. Len(old) : \E p \in Starts(text) : p > 1 /\ Before(text, p) = k
  BY PlainArgs DEF n
<1>10. /\ args \in Seq(Text) /\ Before(longer, n + 1 + m + 1) = Len(args) + 1
       /\ \A p \in Starts(longer) : p > 1 => args[Before(longer, p)] = Word(longer, p)
  BY <1>3, <1>6, PlainArgs
<1>11. \A p \in Starts(text) : Before(longer, p) = Before(text, p)
  <2> SUFFICES ASSUME NEW p \in Starts(text) PROVE Before(longer, p) = Before(text, p)
    OBVIOUS
  <2>1. {q \in Starts(longer) : q < p} = {q \in Starts(text) : q < p}
    BY <1>1, <1>4, <1>5
  <2> QED BY <2>1 DEF Before
<1>12. Before(longer, new) = Len(old) + 1
  <2>1. {q \in Starts(longer) : q < new} = {q \in Starts(text) : q < n + 1}
    BY <1>1, <1>4, <1>5
  <2> QED BY <1>9, <2>1 DEF Before
<1>13. Len(args) = Len(old) + 1
  <2>1. NextStart(longer, new) = n + 1 + m + 1
    <3>1. new \in 1 .. Len(longer) + 1
      BY <1>1, <1>3
    <3>2. NextStart(longer, new) \in {q \in Starts(longer) : q > new} \cup {Len(longer) + 1}
      BY <1>3, <3>1, NextStartIs
    <3> QED BY <1>1, <1>3, <1>4, <1>5, <3>2
  <2>2. Before(longer, NextStart(longer, new)) = Before(longer, new) + 1
    <3>1. new \in 1 .. Len(longer) + 1 /\ new \in Starts(longer)
      BY <1>1, <1>3, <1>4
    <3> QED BY <1>3, <3>1, BeforeNext
  <2>3. Len(args) \in Nat /\ Len(old) \in Nat
    BY <1>9, <1>10
  <2> HIDE DEF args, old
  <2> QED BY <1>10, <1>12, <2>1, <2>2, <2>3
<1>14. ASSUME NEW p \in Starts(text) PROVE Word(longer, p) = Word(text, p)
  <2> DEFINE e == NextSpace(text, p)
  <2>1. p \in 1 .. n /\ p \in 1 .. n + 1 /\ p \in 1 .. Len(longer) + 1 /\ text[p] # Colon
    BY <1>1, <1>3
  <2>2. e \in p .. n + 1 /\ (e = n + 1 \/ text[e] = Blank)
        /\ \A q \in p .. n : text[q] = Blank => e <= q
    BY <2>1, NextSpaceIs DEF n
  <2>3. /\ NextSpace(longer, p) \in p .. n + 1 + m + 1
        /\ NextSpace(longer, p) = n + 1 + m + 1 \/ longer[NextSpace(longer, p)] = Blank
        /\ \A q \in p .. n + 1 + m : longer[q] = Blank => NextSpace(longer, p) <= q
    BY <1>3, <2>1, NextSpaceIs
  <2> HIDE DEF e
  <2>4. NextSpace(longer, p) = e
    <3>1. e \in p .. n + 1 + m /\ longer[e] = Blank
      BY <1>1, <1>3, <2>1, <2>2
    <3>2. NextSpace(longer, p) <= e
      BY <2>3, <3>1
    <3>3. ASSUME NextSpace(longer, p) < e PROVE FALSE
      <4>1. NextSpace(longer, p) \in p .. n /\ longer[NextSpace(longer, p)] = Blank
        BY <1>1, <2>1, <2>2, <2>3, <3>3
      <4>2. text[NextSpace(longer, p)] = Blank
        BY <1>3, <2>1, <4>1
      <4> QED BY <1>1, <2>1, <2>2, <3>3, <4>1, <4>2
    <3> QED BY <1>1, <2>1, <2>2, <2>3, <3>2, <3>3
  <2>5. SubSeq(longer, p, e - 1) = SubSeq(text, p, e - 1)
    <3> DEFINE x == SubSeq(longer, p, e - 1)
               y == SubSeq(text, p, e - 1)
    <3>1. p \in Int /\ e - 1 \in Int /\ e - 1 <= n
      BY <1>1, <2>1, <2>2
    <3>2. \A i \in p .. e - 1 : text[i] \in Token /\ longer[i] = text[i]
      BY <1>1, <1>3, <2>1, <3>1 DEF Text, n
    <3>3. /\ x \in Seq(Token) /\ Len(x) = IF p <= e - 1 THEN e - 1 - p + 1 ELSE 0
          /\ \A i \in 1 .. e - 1 - p + 1 : x[i] = longer[p + i - 1]
      BY <3>1, <3>2, SubSeqProperties
    <3>4. /\ y \in Seq(Token) /\ Len(y) = IF p <= e - 1 THEN e - 1 - p + 1 ELSE 0
          /\ \A i \in 1 .. e - 1 - p + 1 : y[i] = text[p + i - 1]
      BY <3>1, <3>2, SubSeqProperties
    <3> HIDE DEF x, y
    <3>5. \A i \in 1 .. Len(x) : x[i] = y[i]
      <4> SUFFICES ASSUME NEW i \in 1 .. Len(x) PROVE x[i] = y[i]
        OBVIOUS
      <4>1. i \in 1 .. e - 1 - p + 1 /\ p + i - 1 \in p .. e - 1
        BY <3>1, <3>3
      <4> QED BY <3>2, <3>3, <3>4, <4>1
    <3>6. x = y
      BY <3>3, <3>4, <3>5, SeqEqual
    <3> QED BY <3>6 DEF x, y
  <2>6. longer[p] = text[p] /\ longer[p] # Colon
    BY <1>5, <2>1
  <2> QED BY <2>1, <2>4, <2>5, <2>6, Zenon DEF Word, e
<1>15. Word(longer, new) = arg
  <2>1. longer[new] = word[1] /\ new \in 1 .. Len(longer) + 1 /\ Len(longer) = n + 1 + m
    BY <1>1, <1>3, <1>5
  <2>2. CASE word[1] = Colon
    <3>1. Word(longer, new) = SubSeq(longer, new + 1, Len(longer))
      BY <2>1, <2>2 DEF Word
    <3>2. Tail(word) \in Seq(Token) /\ Len(Tail(word)) = m - 1
          /\ \A i \in 1 .. Len(Tail(word)) : Tail(word)[i] = word[i + 1]
      BY HeadTailProperties DEF Text, m
    <3> DEFINE x == SubSeq(longer, new + 1, n + 1 + m)
               y == Tail(word)
    <3>3. \A i \in new + 1 .. n + 1 + m : longer[i] = word[i - n - 1]
      BY <1>1, <1>3
    <3>4. /\ x \in Seq(Token)
          /\ Len(x) = IF new + 1 <= n + 1 + m THEN (n + 1 + m) - (new + 1) + 1 ELSE 0
          /\ \A i \in 1 .. (n + 1 + m) - (new + 1) + 1 : x[i] = longer[new + 1 + i - 1]
      <4> DEFINE lo == new + 1
                 hi == n + 1 + m
      <4>1. lo \in Int /\ hi \in Int /\ \A i \in lo .. hi : longer[i] \in Token
        BY <1>1, <1>3 DEF Text
      <4> HIDE DEF lo, hi
      <4>2. /\ SubSeq(longer, lo, hi) \in Seq(Token)
            /\ Len(SubSeq(longer, lo, hi)) = IF lo <= hi THEN hi - lo + 1 ELSE 0
            /\ \A i \in 1 .. hi - lo + 1 : SubSeq(longer, lo, hi)[i] = longer[lo + i - 1]
        BY <4>1, SubSeqProperties
      <4>3. x = SubSeq(longer, lo, hi)
        BY DEF lo, hi
      <4> HIDE DEF x
      <4>4. /\ x \in Seq(Token)
            /\ Len(x) = IF lo <= hi THEN hi - lo + 1 ELSE 0
            /\ \A i \in 1 .. hi - lo + 1 : x[i] = longer[lo + i - 1]
        BY <4>2, <4>3
      <4> QED BY <4>4, Zenon DEF lo, hi
    <3> HIDE DEF x, y
    <3>5. Len(x) = m - 1
      BY <1>1, <3>4
    <3>6. \A i \in 1 .. Len(x) : x[i] = y[i]
      <4> SUFFICES ASSUME NEW i \in 1 .. Len(x) PROVE x[i] = y[i]
        OBVIOUS
      <4>1. /\ i \in 1 .. (n + 1 + m) - (new + 1) + 1 /\ new + 1 + i - 1 \in new + 1 .. n + 1 + m
            /\ (new + 1 + i - 1) - n - 1 = i + 1 /\ i \in 1 .. m - 1
        BY <1>1, <3>5
      <4> QED BY <3>2, <3>3, <3>4, <4>1 DEF y
    <3>7. x = y
      BY <3>2, <3>4, <3>5, <3>6, SeqEqual DEF y
    <3> QED BY <2>1, <2>2, <3>1, <3>7 DEF x, y
  <2>3. CASE word[1] # Colon
    <3>1. NextSpace(longer, new) = n + 1 + m + 1
      <4>1. /\ NextSpace(longer, new) \in new .. n + 1 + m + 1
            /\ NextSpace(longer, new) = n + 1 + m + 1 \/ longer[NextSpace(longer, new)] = Blank
        BY <1>3, <2>1, NextSpaceIs
      <4>2. \A q \in new .. n + 1 + m : longer[q] # Blank
        <5> SUFFICES ASSUME NEW q \in new .. n + 1 + m PROVE longer[q] # Blank
          OBVIOUS
        <5>1. q - n - 1 \in 1 .. m
          BY <1>1
        <5> QED BY <1>3, <5>1 DEF m
      <4> QED BY <1>1, <4>1, <4>2
    <3>2. Word(longer, new) = SubSeq(longer, new, n + 1 + m)
      <4>1. n + 1 + m + 1 - 1 = n + 1 + m
        BY <1>1
      <4> QED BY <2>1, <2>3, <3>1, <4>1, SMTT(30) DEF Word
    <3> DEFINE x == SubSeq(longer, new, n + 1 + m)
    <3>3. \A i \in new .. n + 1 + m : longer[i] = word[i - n - 1]
      BY <1>1, <1>3
    <3>4. /\ x \in Seq(Token)
          /\ Len(x) = IF new <= n + 1 + m THEN (n + 1 + m) - new + 1 ELSE 0
          /\ \A i \in 1 .. (n + 1 + m) - new + 1 : x[i] = longer[new + i - 1]
      <4> DEFINE lo == new
                 hi == n + 1 + m
      <4>1. lo \in Int /\ hi \in Int /\ \A i \in lo .. hi : longer[i] \in Token
        BY <1>1, <1>3 DEF Text
      <4> HIDE DEF lo, hi
      <4>2. /\ SubSeq(longer, lo, hi) \in Seq(Token)
            /\ Len(SubSeq(longer, lo, hi)) = IF lo <= hi THEN hi - lo + 1 ELSE 0
            /\ \A i \in 1 .. hi - lo + 1 : SubSeq(longer, lo, hi)[i] = longer[lo + i - 1]
        BY <4>1, SubSeqProperties
      <4>3. x = SubSeq(longer, lo, hi)
        BY DEF lo, hi
      <4> HIDE DEF x
      <4>4. /\ x \in Seq(Token)
            /\ Len(x) = IF lo <= hi THEN hi - lo + 1 ELSE 0
            /\ \A i \in 1 .. hi - lo + 1 : x[i] = longer[lo + i - 1]
        BY <4>2, <4>3
      <4> QED BY <4>4, Zenon DEF lo, hi
    <3> HIDE DEF x
    <3>5. Len(x) = m
      BY <1>1, <3>4
    <3>6. \A i \in 1 .. Len(x) : x[i] = word[i]
      <4> SUFFICES ASSUME NEW i \in 1 .. Len(x) PROVE x[i] = word[i]
        OBVIOUS
      <4>1. /\ i \in 1 .. (n + 1 + m) - new + 1 /\ new + i - 1 \in new .. n + 1 + m
            /\ (new + i - 1) - n - 1 = i
        BY <1>1, <3>5
      <4> QED BY <3>3, <3>4, <4>1
    <3>7. x = word
      BY <3>4, <3>5, <3>6, SeqEqual DEF m, Text
    <3> QED BY <2>3, <3>2, <3>7 DEF x
  <2> QED BY <2>2, <2>3
<1>16. arg \in Text
  <2>1. Tail(word) \in Text
    BY HeadTailProperties DEF Text
  <2> QED BY <2>1
<1>17. /\ Append(old, arg) \in Seq(Text) /\ Len(Append(old, arg)) = Len(old) + 1
       /\ \A k \in 1 .. Len(old) : Append(old, arg)[k] = old[k]
       /\ Append(old, arg)[Len(old) + 1] = arg
  BY <1>9, <1>16, AppendProperties
<1>18. ASSUME NEW k \in 1 .. Len(old) PROVE args[k] = old[k]
  <2>1. PICK p \in Starts(text) : p > 1 /\ Before(text, p) = k
    BY <1>9
  <2>2. p \in Starts(longer) /\ Before(longer, p) = k
    BY <1>4, <1>11, <2>1
  <2> QED BY <1>9, <1>10, <1>14, <2>1, <2>2
<1>19. args[Len(old) + 1] = arg
  <2>1. new \in Starts(longer) /\ new > 1
    BY <1>1, <1>4
  <2>2. args[Before(longer, new)] = Word(longer, new)
    BY <1>10, <2>1
  <2> QED BY <1>12, <1>15, <2>2
<1>20. args = Append(old, arg)
  <2>1. Len(old) \in Nat
    BY <1>9
  <2> DEFINE both == Append(old, arg)
  <2>2. /\ both \in Seq(Text) /\ Len(both) = Len(old) + 1
        /\ \A k \in 1 .. Len(old) : both[k] = old[k]
        /\ both[Len(old) + 1] = arg
    BY <1>17
  <2> HIDE DEF args, old, arg, both
  <2>3. \A k \in 1 .. Len(args) : args[k] = both[k]
    <3> SUFFICES ASSUME NEW k \in 1 .. Len(args) PROVE args[k] = both[k]
      OBVIOUS
    <3>1. k \in 1 .. Len(old) \/ k = Len(old) + 1
      BY <1>13, <2>1
    <3> QED BY <1>18, <1>19, <2>2, <3>1
  <2>4. args = both
    BY <1>10, <1>13, <2>2, <2>3, SeqEqual
  <2> QED BY <2>4 DEF both
<1> QED BY <1>3, <1>6, <1>7, <1>8, <1>20 DEF longer

(* What FlattenSeq does, sequence by sequence.                             *)
LEMMA FlattenIs ==
  ASSUME NEW T, NEW seqs \in Seq(Seq(T))
  PROVE  \E f \in [0 .. Len(seqs) -> Seq(T)] :
           /\ f[0] = <<>>
           /\ \A i \in 1 .. Len(seqs) : f[i] = f[i - 1] \o seqs[i]
           /\ Seqs!FlattenSeq(seqs) = f[Len(seqs)]
<1> DEFINE len == Len(seqs)
           Flat(g) == g = [i \in 1 .. len |-> IF i = 1 THEN seqs[i] ELSE g[i - 1] \o seqs[i]]
           flat == CHOOSE g : Flat(g)
           h == [i \in 0 .. len |-> IF i = 0 THEN <<>> ELSE flat[i]]
<1>1. len \in Nat /\ \A i \in 1 .. len : seqs[i] \in Seq(T)
  OBVIOUS
<1>2. <<>> \in Seq(T) /\ \A s, t \in Seq(T) : s \o t \in Seq(T) /\ <<>> \o s = s
  <2>1. \A s \in Seq(T) : <<>> \o s = s
    BY ConcatEmptySeq
  <2>2. \A s, t \in Seq(T) : s \o t \in Seq(T)
    BY ConcatProperties
  <2> QED BY <2>1, <2>2
<1>3. CASE len = 0
  <2>1. seqs = <<>> /\ Seqs!FlattenSeq(seqs) = seqs
    BY <1>3 DEF Seqs!FlattenSeq
  <2> DEFINE f == [i \in 0 .. 0 |-> <<>>]
  <2>2. f \in [0 .. len -> Seq(T)] /\ f[0] = <<>>
    BY <1>2, <1>3
  <2> HIDE DEF f
  <2> QED BY <1>3, <2>1, <2>2
<1>4. CASE len > 0
  <2>1. \E g : Flat(g)
    <3> DEFINE step == [p \in (1 .. len) \X Seq(T) |-> p[2] \o seqs[p[1]]]
    <3>1. \A i \in 1 .. len, s \in Seq(T) : step[<<i, s>>] = s \o seqs[i] /\ step[<<i, s>>] \in Seq(T)
      BY <1>1, <1>2
    <3>2. Rounds(step, len, Seq(T))
      BY <1>1, <1>2 DEF Rounds
    <3> HIDE DEF step, len
    <3> DEFINE D == Seq(T)
               none == <<>>
    <3>3. none \in D /\ Rounds(step, len, D)
      BY <1>2, <3>2
    <3> HIDE DEF D, none
    <3>4. PICK f \in [0 .. len -> D] :
            f[0] = none /\ \A i \in 1 .. len : f[i] = step[<<i, f[i - 1]>>]
      BY <1>1, <3>3, IterationExists, SMTT(30)
    <3>5. \A i \in 1 .. len : i - 1 \in 0 .. len /\ f[i - 1] \in Seq(T)
      BY <1>1, <3>4 DEF D
    <3>6. \A i \in 1 .. len : f[i] = f[i - 1] \o seqs[i]
      <4> SUFFICES ASSUME NEW i \in 1 .. len PROVE f[i] = f[i - 1] \o seqs[i]
        OBVIOUS
      <4>1. f[i] = step[<<i, f[i - 1]>>] /\ f[i - 1] \in Seq(T)
        BY <3>4, <3>5
      <4> QED BY <3>1, <4>1
    <3>7. 1 \in 1 .. len => f[1] = seqs[1]
      <4> SUFFICES ASSUME 1 \in 1 .. len PROVE f[1] = seqs[1]
        OBVIOUS
      <4>1. f[1] = f[1 - 1] \o seqs[1]
        BY <3>6
      <4>2. f[1 - 1] = <<>>
        BY <3>4 DEF none
      <4>3. <<>> \o seqs[1] = seqs[1]
        BY <1>1, <1>2
      <4> QED BY <4>1, <4>2, <4>3
    <3> DEFINE g == [i \in 1 .. len |-> f[i]]
    <3>8. \A i \in 1 .. len : f[i] = IF i = 1 THEN seqs[i] ELSE f[i - 1] \o seqs[i]
      BY <1>1, <3>6, <3>7
    <3>9. \A i \in 1 .. len : g[i] = f[i] /\ (i # 1 => g[i - 1] = f[i - 1])
      BY <1>1
    <3>10. g = [i \in 1 .. len |-> IF i = 1 THEN seqs[i] ELSE g[i - 1] \o seqs[i]]
      <4> DEFINE k == [i \in 1 .. len |-> IF i = 1 THEN seqs[i] ELSE g[i - 1] \o seqs[i]]
      <4>1. DOMAIN g = 1 .. len /\ g = [i \in 1 .. len |-> g[i]]
        OBVIOUS
      <4>2. \A i \in 1 .. len : k[i] = IF i = 1 THEN seqs[i] ELSE g[i - 1] \o seqs[i]
        OBVIOUS
      <4>3. k = [i \in 1 .. len |-> k[i]]
        OBVIOUS
      <4> HIDE DEF g, k
      <4>4. \A i \in 1 .. len : g[i] = k[i]
        BY <3>8, <3>9, <4>2
      <4>5. g = k
        BY <4>1, <4>3, <4>4
      <4> QED BY <4>5 DEF k
    <3> HIDE DEF g
    <3>11. Flat(g)
      BY <3>10
    <3> QED BY <3>11
  <2>2. Flat(flat)
    <3> HIDE DEF Flat
    <3> QED BY <2>1
  <2>3. Seqs!FlattenSeq(seqs) = flat[len]
    BY <1>4 DEF Seqs!FlattenSeq
  <2> HIDE DEF flat, len
  <2>4. \A i \in 1 .. len : flat[i] = IF i = 1 THEN seqs[i] ELSE flat[i - 1] \o seqs[i]
    BY <2>2
  <2>5. \A i \in 1 .. len : flat[i] \in Seq(T)
    <3> DEFINE S == {n \in Nat : n + 1 <= len => flat[n + 1] \in Seq(T)}
    <3>1. 0 \in S
      BY <1>1, <2>4
    <3>2. ASSUME NEW n \in Nat, n \in S PROVE n + 1 \in S
      <4> SUFFICES ASSUME (n + 1) + 1 <= len PROVE flat[(n + 1) + 1] \in Seq(T)
        OBVIOUS
      <4>1. flat[n + 1] \in Seq(T)
        BY <1>1, <3>2
      <4> DEFINE i == (n + 1) + 1
      <4>2. i \in 1 .. len /\ i # 1 /\ i - 1 = n + 1
        BY <1>1
      <4> HIDE DEF i
      <4>3. flat[i] = flat[n + 1] \o seqs[i]
        BY <2>4, <4>2
      <4> QED BY <1>1, <1>2, <4>1, <4>2, <4>3 DEF i
    <3>3. Nat \subseteq S
      <4> HIDE DEF S
      <4> QED BY <3>1, <3>2, SetInduction
    <3>4. ASSUME NEW i \in 1 .. len PROVE flat[i] \in Seq(T)
      <4>1. i - 1 \in S /\ (i - 1) + 1 = i /\ i <= len
        BY <1>1, <3>3
      <4> QED BY <4>1
    <3> QED BY <3>4
  <2>6. h \in [0 .. len -> Seq(T)] /\ h[0] = <<>> /\ \A i \in 1 .. len : h[i] = flat[i]
    BY <1>1, <1>2, <2>5
  <2> HIDE DEF h
  <2>7. \A i \in 1 .. len : h[i] = h[i - 1] \o seqs[i]
    <3> SUFFICES ASSUME NEW i \in 1 .. len PROVE h[i] = h[i - 1] \o seqs[i]
      OBVIOUS
    <3>1. CASE i = 1
      <4>1. h[i - 1] = <<>> /\ h[i] = seqs[i] /\ seqs[i] \in Seq(T)
        BY <1>1, <2>4, <2>6, <3>1
      <4> QED BY <1>2, <4>1
    <3>2. CASE i # 1
      <4>1. i - 1 \in 1 .. len
        BY <1>1, <3>2
      <4> QED BY <2>4, <2>6, <3>2, <4>1
    <3> QED BY <3>1, <3>2
  <2>8. Seqs!FlattenSeq(seqs) = h[len]
    BY <1>1, <1>4, <2>3, <2>6
  <2> QED BY <2>6, <2>7, <2>8, Zenon DEF len
<1>5. len = 0 \/ len > 0
  BY <1>1
<1> QED BY <1>3, <1>4, <1>5, Zenon

(* One sequence is itself.                                                 *)
LEMMA FlattenOne ==
  ASSUME NEW T, NEW s \in Seq(T)
  PROVE  Seqs!FlattenSeq([i \in 1 .. 1 |-> s]) = s
<1> DEFINE seqs == [i \in 1 .. 1 |-> s]
<1>1. seqs \in Seq(Seq(T)) /\ Len(seqs) = 1 /\ seqs[1] = s
  OBVIOUS
<1> HIDE DEF seqs
<1>2. PICK f \in [0 .. Len(seqs) -> Seq(T)] :
        /\ f[0] = <<>>
        /\ \A i \in 1 .. Len(seqs) : f[i] = f[i - 1] \o seqs[i]
        /\ Seqs!FlattenSeq(seqs) = f[Len(seqs)]
  BY <1>1, FlattenIs
<1>3. f[1] = <<>> \o s
  <2>1. 1 \in 1 .. Len(seqs) /\ 1 - 1 = 0
    BY <1>1
  <2>2. f[1] = f[1 - 1] \o seqs[1]
    BY <1>2, <2>1
  <2> QED BY <1>1, <1>2, <2>1, <2>2
<1> QED BY <1>1, <1>2, <1>3, ConcatEmptySeq DEF seqs

-----------------------------------------------------------------------------
(* How many members a set of numbers has up to one of them.                *)
UpTo(S, k) == Cardinality({i \in S : i <= k})

(* The count grows by one at each member.                                  *)
LEMMA UpToCounts ==
  ASSUME NEW n \in Nat, NEW S \in SUBSET (1 .. n)
  PROVE  /\ UpTo(S, 0) = 0 /\ UpTo(S, n) = Cardinality(S)
         /\ \A k \in 0 .. n : UpTo(S, k) \in Nat
         /\ \A k \in 1 .. n : UpTo(S, k) = IF k \in S THEN UpTo(S, k - 1) + 1 ELSE UpTo(S, k - 1)
         /\ \A j, k \in 0 .. n : j <= k => UpTo(S, j) <= UpTo(S, k)
<1>1. IsFiniteSet(S)
  <2>1. IsFiniteSet(1 .. n)
    BY FS_Interval
  <2> QED BY <2>1, FS_Subset
<1>2. \A i \in S : i \in Int /\ 1 <= i /\ i <= n
  OBVIOUS
<1>3. ASSUME NEW k PROVE IsFiniteSet({i \in S : i <= k}) /\ UpTo(S, k) \in Nat
  <2> DEFINE U == {i \in S : i <= k}
  <2>1. U \in SUBSET S
    OBVIOUS
  <2> HIDE DEF U
  <2>2. IsFiniteSet(U) /\ Cardinality(U) \in Nat
    BY <1>1, <2>1, FS_Subset, FS_CardinalityType
  <2> QED BY <2>2 DEF U, UpTo
<1>4. UpTo(S, 0) = 0
  <2>1. \A i \in S : ~(i <= 0)
    BY <1>2
  <2>2. {i \in S : i <= 0} = {}
    BY <2>1, Zenon
  <2> QED BY <2>2, FS_EmptySet DEF UpTo
<1>5. UpTo(S, n) = Cardinality(S)
  <2>1. \A i \in S : i <= n
    BY <1>2
  <2>2. {i \in S : i <= n} = S
    BY <2>1, Zenon
  <2> QED BY <2>2 DEF UpTo
<1>6. ASSUME NEW k \in 1 .. n
      PROVE  UpTo(S, k) = IF k \in S THEN UpTo(S, k - 1) + 1 ELSE UpTo(S, k - 1)
  <2> DEFINE U == {i \in S : i <= k - 1}
             V == {i \in S : i <= k}
  <2>1. \A i \in S : i <= k <=> i <= k - 1 \/ i = k
    BY <1>2
  <2>2. k <= k /\ ~(k <= k - 1)
    OBVIOUS
  <2>3. k \notin U /\ V = IF k \in S THEN U \cup {k} ELSE U
    <3>1. \A i : i \in V <=> i \in IF k \in S THEN U \cup {k} ELSE U
      BY <2>1, <2>2
    <3> QED BY <2>2, <3>1
  <2>4. IsFiniteSet(U) /\ UpTo(S, k - 1) = Cardinality(U) /\ UpTo(S, k) = Cardinality(V)
    BY <1>3 DEF UpTo
  <2> HIDE DEF U, V
  <2>5. Cardinality(U \cup {k}) = Cardinality(U) + 1
    BY <2>3, <2>4, FS_AddElement
  <2> QED BY <2>3, <2>4, <2>5
<1>7. ASSUME NEW j \in 0 .. n, NEW k \in 0 .. n, j <= k PROVE UpTo(S, j) <= UpTo(S, k)
  <2> DEFINE U == {i \in S : i <= j}
             V == {i \in S : i <= k}
  <2>1. \A i \in S : i <= j => i <= k
    BY <1>2, <1>7
  <2>2. U \in SUBSET V
    BY <2>1, Zenon
  <2>3. IsFiniteSet(V)
    BY <1>3
  <2>4. UpTo(S, j) = Cardinality(U) /\ UpTo(S, k) = Cardinality(V)
    BY DEF UpTo
  <2> HIDE DEF U, V
  <2>5. Cardinality(U) <= Cardinality(V)
    BY <2>2, <2>3, FS_Subset
  <2> QED BY <2>4, <2>5
<1> QED BY <1>3, <1>4, <1>5, <1>6, <1>7

(* An argument that need not be quoted, and one that may be missing.       *)
IsWord(text) == text # <<>> /\ text[1] # Colon /\ \A i \in 1 .. Len(text) : text[i] # Blank
Spaced(word) == IF word = <<>> THEN <<>> ELSE <<Blank>> \o word

(* One more word at the end of what follows a text.                        *)
LEMMA OneMore ==
  ASSUME NEW s \in Seq(Token), NEW t \in Seq(Token), NEW word \in Seq(Token), word # <<>>
  PROVE  s \o (t \o Spaced(word)) = ((s \o t) \o <<Blank>>) \o word
<1> DEFINE b == <<Blank>>
<1>1. b \in Seq(Token)
  <2>1. Blank \in Token
    BY ParsingAssumption DEF Blank
  <2> QED BY <2>1
<1>2. Spaced(word) = b \o word
  BY DEF Spaced
<1> HIDE DEF b
<1>3. s \o (t \o (b \o word)) = ((s \o t) \o b) \o word
  <2>1. s \o t \in Seq(Token) /\ b \o word \in Seq(Token)
    BY <1>1, ConcatProperties
  <2>2. (s \o t) \o (b \o word) = s \o (t \o (b \o word))
    BY <2>1, ConcatAssociative, SMTT(30)
  <2>3. (s \o t) \o (b \o word) = ((s \o t) \o b) \o word
    BY <1>1, <2>1, ConcatAssociative, SMTT(30)
  <2> QED BY <2>2, <2>3
<1> QED BY <1>2, <1>3 DEF b

(* Words at the end of a line are its last arguments.                      *)
LEMMA AppendWords ==
  ASSUME NEW text \in Text, Plain(text), text[Len(text)] # Blank,
         \A p \in Starts(text) : text[p] # Colon,
         NEW words \in Seq(Text), \A i \in 1 .. Len(words) : words[i] = <<>> \/ IsWord(words[i])
  PROVE  LET old == ParseLine(text).args
             args == ParseLine(text \o Seqs!FlattenSeq(
                                         [i \in 1 .. Len(words) |-> Spaced(words[i])])).args
             given == {i \in 1 .. Len(words) : words[i] # <<>>}
         IN /\ args \in Seq(Text) /\ Len(args) = Len(old) + Cardinality(given)
            /\ \A k \in 1 .. Len(old) : args[k] = old[k]
            /\ \A k \in given : args[Len(old) + UpTo(given, k)] = words[k]
<1> DEFINE n == Len(words)
           old == ParseLine(text).args
           given == {i \in 1 .. n : words[i] # <<>>}
           spaced == [i \in 1 .. n |-> Spaced(words[i])]
<1>1. n \in Nat /\ \A i \in 1 .. n : words[i] \in Text /\ words[i] \in Seq(Token)
  BY DEF Text
<1>2. <<Blank>> \in Seq(Token)
  <2>1. Blank \in Token
    BY ParsingAssumption DEF Blank
  <2> QED BY <2>1
<1>3. \A s, t \in Seq(Token) : s \o t \in Seq(Token)
  BY ConcatProperties
<1>4. \A i \in 1 .. n : Spaced(words[i]) \in Seq(Token)
  BY <1>1, <1>2, <1>3 DEF Spaced
<1>5. /\ spaced \in Seq(Seq(Token)) /\ Len(spaced) = n
      /\ \A i \in 1 .. n : spaced[i] = Spaced(words[i])
  BY <1>1, <1>4
<1> HIDE DEF spaced
<1>6. PICK f \in [0 .. Len(spaced) -> Seq(Token)] :
        /\ f[0] = <<>>
        /\ \A i \in 1 .. Len(spaced) : f[i] = f[i - 1] \o spaced[i]
        /\ Seqs!FlattenSeq(spaced) = f[Len(spaced)]
  BY <1>5, FlattenIs
<1>7. /\ given \in SUBSET (1 .. n)
      /\ UpTo(given, 0) = 0 /\ UpTo(given, n) = Cardinality(given)
      /\ \A k \in 0 .. n : UpTo(given, k) \in Nat
      /\ \A k \in 1 .. n :
           UpTo(given, k) = IF k \in given THEN UpTo(given, k - 1) + 1 ELSE UpTo(given, k - 1)
      /\ \A j, k \in 0 .. n : j <= k => UpTo(given, j) <= UpTo(given, k)
  <2>1. given \in SUBSET (1 .. n)
    OBVIOUS
  <2> HIDE DEF given, n
  <2> QED BY <1>1, <2>1, UpToCounts
<1>8. \A k \in given : k \in 1 .. n /\ words[k] # <<>>
  OBVIOUS
<1>9. \A k \in 1 .. n : k \in given <=> words[k] # <<>>
  OBVIOUS
<1>10. old \in Seq(Text) /\ Len(old) \in Nat
  BY LineType
<1> HIDE DEF given, old, n
<1> DEFINE t(i) == text \o f[i]
           args(i) == ParseLine(t(i)).args
           Shape(i) == /\ t(i) \in Text /\ Plain(t(i)) /\ t(i)[Len(t(i))] # Blank
                       /\ \A p \in Starts(t(i)) : t(i)[p] # Colon
           Read(i) == /\ args(i) \in Seq(Text) /\ Len(args(i)) = Len(old) + UpTo(given, i)
                      /\ \A k \in 1 .. Len(old) : args(i)[k] = old[k]
                      /\ \A k \in given : k <= i => args(i)[Len(old) + UpTo(given, k)] = words[k]
           S == {i \in Nat : i <= n => Shape(i) /\ Read(i)}
<1>11. 0 \in S
  <2>1. t(0) = text
    BY <1>6, ConcatEmptySeq DEF Text
  <2>2. Shape(0)
    BY <2>1
  <2>3. Read(0)
    <3>1. args(0) = old
      BY <2>1 DEF old
    <3>2. \A k \in given : ~(k <= 0)
      BY <1>1, <1>8
    <3> HIDE DEF args
    <3> QED BY <1>7, <1>10, <3>1, <3>2
  <2> QED BY <2>2, <2>3
<1>12. ASSUME NEW i \in Nat, i \in S PROVE i + 1 \in S
  <2> HIDE DEF Shape, Read
  <2> SUFFICES ASSUME i + 1 <= n PROVE Shape(i + 1) /\ Read(i + 1)
    OBVIOUS
  <2>1. Shape(i) /\ Read(i)
    <3>1. i <= n
      BY <1>1
    <3> QED BY <1>12, <3>1
  <2> USE DEF Shape, Read
  <2> DEFINE word == words[i + 1]
             j == i + 1
  <2>2. j \in 1 .. n /\ j - 1 = i /\ i \in 0 .. n /\ j \in 0 .. n
    BY <1>1
  <2>3. f[j] = f[i] \o Spaced(word) /\ f[i] \in Seq(Token) /\ word \in Text /\ word \in Seq(Token)
    BY <1>1, <1>5, <1>6, <2>2
  <2>4. text \in Seq(Token) /\ t(i) \in Seq(Token)
    BY <2>1 DEF Text
  <2>5. word = words[j]
    OBVIOUS
  <2> HIDE DEF word, j
  <2>6. CASE word = <<>>
    <3>1. t(j) = t(i)
      <4>1. f[i] \o <<>> = f[i]
        BY <2>3, ConcatEmptySeq
      <4> QED BY <2>3, <2>6, <4>1 DEF Spaced
    <3>2. j \notin given
      BY <1>9, <2>2, <2>5, <2>6
    <3>3. UpTo(given, j) = UpTo(given, i)
      BY <1>7, <2>2, <3>2
    <3>4. \A k \in given : k <= j => k <= i
      BY <1>1, <1>8, <2>2, <3>2
    <3> HIDE DEF t
    <3>5. Shape(j) /\ Read(j)
      BY <2>1, <2>2, <3>1, <3>3, <3>4
    <3> QED BY <3>5 DEF j
  <2>7. CASE word # <<>>
    <3>1. IsWord(word)
      BY <2>2, <2>5, <2>7 DEF n
    <3>2. t(j) = (t(i) \o <<Blank>>) \o word
      <4> DEFINE g == f[i]
      <4>1. t(j) = text \o (g \o Spaced(word)) /\ t(i) = text \o g
        BY <2>3
      <4>2. text \in Seq(Token) /\ g \in Seq(Token) /\ word \in Seq(Token)
        BY <2>3, <2>4
      <4> HIDE DEF t, g
      <4>3. text \o (g \o Spaced(word)) = ((text \o g) \o <<Blank>>) \o word
        BY <2>7, <4>2, OneMore, Zenon
      <4> QED BY <4>1, <4>3
    <3> DEFINE x == t(i)
    <3>3. /\ t(j) \in Text /\ Plain(t(j)) /\ t(j)[Len(t(j))] # Blank
          /\ word[1] # Colon => \A p \in Starts(t(j)) : t(j)[p] # Colon
          /\ args(j) = Append(args(i), IF word[1] = Colon THEN Tail(word) ELSE word)
      <4>1. /\ x \in Text /\ Plain(x) /\ x[Len(x)] # Blank
            /\ \A p \in Starts(x) : x[p] # Colon
        BY <2>1
      <4>2. word # <<>> /\ \A k \in 1 .. Len(word) : word[k] # Blank
        BY <3>1 DEF IsWord
      <4> DEFINE y == (x \o <<Blank>>) \o word
      <4>3. t(j) = y /\ x = t(i)
        BY <3>2
      <4> HIDE DEF t, x, y
      <4>4. /\ y \in Text /\ Plain(y) /\ y[Len(y)] # Blank
            /\ word[1] # Colon => \A p \in Starts(y) : y[p] # Colon
            /\ ParseLine(y).args =
                 Append(ParseLine(x).args, IF word[1] = Colon THEN Tail(word) ELSE word)
        BY <2>3, <4>1, <4>2, AppendWord DEF y
      <4> QED BY <4>3, <4>4
    <3> HIDE DEF t, x
    <3>4. Shape(j) /\ args(j) = Append(args(i), word)
      BY <3>1, <3>3 DEF IsWord
    <3> HIDE DEF args
    <3>5. /\ args(j) \in Seq(Text) /\ Len(args(j)) = Len(args(i)) + 1
          /\ \A k \in 1 .. Len(args(i)) : args(j)[k] = args(i)[k]
          /\ args(j)[Len(args(i)) + 1] = word
      BY <2>1, <2>3, <3>4, AppendProperties
    <3>6. j \in given
      BY <1>9, <2>2, <2>5, <2>7
    <3>7. UpTo(given, j) = UpTo(given, i) + 1 /\ UpTo(given, i) \in Nat
      BY <1>7, <2>2, <3>6
    <3>8. Len(args(j)) = Len(old) + UpTo(given, j)
      BY <1>10, <2>1, <2>2, <3>5, <3>7
    <3>9. \A k \in 1 .. Len(old) : args(j)[k] = old[k]
      BY <1>10, <2>1, <2>2, <3>5, <3>7, SMTT(30)
    <3>10. ASSUME NEW k \in given, k <= j PROVE args(j)[Len(old) + UpTo(given, k)] = words[k]
      <4>1. CASE k = j
        <5>1. Len(old) + UpTo(given, j) = Len(args(i)) + 1
          BY <1>10, <2>1, <2>2, <3>7
        <5> QED BY <2>5, <3>5, <4>1, <5>1
      <4>2. CASE k # j
        <5>1. k \in 1 .. n /\ k <= i /\ k - 1 \in 0 .. n /\ k \in 0 .. n /\ k \in given
          BY <1>1, <1>8, <2>2, <3>10, <4>2
        <5>2. UpTo(given, k) = UpTo(given, k - 1) + 1 /\ UpTo(given, k - 1) \in Nat
          BY <1>7, <5>1
        <5>3. UpTo(given, k) <= UpTo(given, i)
          BY <1>7, <2>2, <5>1
        <5>4. Len(old) + UpTo(given, k) \in 1 .. Len(args(i))
          BY <1>10, <2>1, <2>2, <3>7, <5>2, <5>3
        <5> QED BY <2>1, <2>2, <3>5, <5>1, <5>4
      <4> QED BY <4>1, <4>2
    <3>11. Read(j)
      BY <3>5, <3>8, <3>9, <3>10
    <3> QED BY <3>4, <3>11 DEF j
  <2> QED BY <2>6, <2>7
<1>13. n \in S
  <2> HIDE DEF S
  <2> QED BY <1>1, <1>11, <1>12, SetInduction
<1>14. n <= n
  BY <1>1
<1>15. Read(n)
  BY <1>13, <1>14
<1>16. t(n) = text \o Seqs!FlattenSeq(spaced)
  BY <1>5, <1>6
<1> DEFINE whole == text \o Seqs!FlattenSeq(spaced)
           all == ParseLine(whole).args
<1>17. /\ all \in Seq(Text) /\ Len(all) = Len(old) + UpTo(given, n)
       /\ \A k \in 1 .. Len(old) : all[k] = old[k]
       /\ \A k \in given : k <= n => all[Len(old) + UpTo(given, k)] = words[k]
  <2> HIDE DEF t, whole
  <2>1. t(n) = whole
    BY <1>16 DEF whole
  <2> QED BY <1>15, <2>1
<1> HIDE DEF all
<1>18. \A k \in given : k <= n
  BY <1>1, <1>8
<1>19. /\ all \in Seq(Text) /\ Len(all) = Len(old) + Cardinality(given)
       /\ \A k \in 1 .. Len(old) : all[k] = old[k]
       /\ \A k \in given : all[Len(old) + UpTo(given, k)] = words[k]
  BY <1>7, <1>17, <1>18
<1> HIDE DEF whole
<1> QED BY <1>19, Zenon DEF all, whole, old, given, spaced, n

(* A MODE for a target and its last words.                                 *)
Told(target, told) == <<"MODE", " ">> \o target \o <<" ">> \o told

(* The line MODE has no argument.                                          *)
LEMMA ModeAlone ==
  ASSUME "MODE" \in Token
  PROVE  LET text == <<"MODE">>
         IN /\ text \in Text /\ Plain(text) /\ text[Len(text)] # Blank
            /\ \A p \in Starts(text) : text[p] # Colon
            /\ ParseLine(text).args = <<>>
<1> DEFINE text == <<"MODE">>
<1>1. text \in Text /\ Len(text) = 1 /\ text[1] = "MODE" /\ "MODE" # Blank /\ "MODE" # Colon
  BY DEF Text, Blank, Colon
<1> HIDE DEF text
<1>2. Starts(text) = {1}
  <2>1. Starts(text) \in SUBSET (1 .. 1) /\ (1 \in 1 .. 1 => 1 \in Starts(text))
    BY <1>1, StartsType
  <2> QED BY <2>1
<1>3. Plain(text)
  BY <1>1, <1>2 DEF Plain
<1>4. ParseLine(text).args = <<>>
  <2>1. ParseLine(text).args \in Seq(Text) /\ Before(text, 2) = Len(ParseLine(text).args) + 1
    <3>1. /\ ParseLine(text).args \in Seq(Text)
          /\ Before(text, Len(text) + 1) = Len(ParseLine(text).args) + 1
      BY <1>1, <1>3, PlainArgs
    <3> QED BY <1>1, <3>1
  <2>2. {q \in Starts(text) : q < 2} = {1}
    BY <1>2
  <2>3. Before(text, 2) = 1
    BY <2>2, FS_Singleton DEF Before
  <2> QED BY <2>1, <2>3
<1> QED BY <1>1, <1>2, <1>3, <1>4 DEF text

(* Two sequences of one are a pair.                                         *)
LEMMA TwoMade ==
  ASSUME NEW x, NEW y
  PROVE  <<x>> \o <<y>> = <<x, y>> /\ Append(Append(<<>>, x), y) = <<x, y>>
<1> DEFINE T == {x, y}
           a == <<x>>
           b == <<y>>
           c == <<x, y>>
<1>1. /\ a \in Seq(T) /\ Len(a) = 1 /\ a[1] = x
      /\ b \in Seq(T) /\ Len(b) = 1 /\ b[1] = y
      /\ c \in Seq(T) /\ Len(c) = 2 /\ c[1] = x /\ c[2] = y
      /\ y \in T
  OBVIOUS
<1>2. Append(<<>>, x) = a
  OBVIOUS
<1> HIDE DEF T, a, b, c
<1>3. a \o b = c
  <2>1. /\ a \o b \in Seq(T) /\ Len(a \o b) = Len(a) + Len(b)
        /\ \A i \in 1 .. Len(a) + Len(b) :
             (a \o b)[i] = IF i <= Len(a) THEN a[i] ELSE b[i - Len(a)]
    BY <1>1, ConcatProperties
  <2> DEFINE d == a \o b
  <2>2. d \in Seq(T) /\ Len(d) = 2 /\ d[1] = x /\ d[2] = y
    BY <1>1, <2>1
  <2> HIDE DEF d
  <2>3. \A i \in 1 .. Len(d) : d[i] = c[i]
    <3>1. \A i \in 1 .. 2 : i = 1 \/ i = 2
      OBVIOUS
    <3> QED BY <1>1, <2>2, <3>1
  <2>4. d = c
    BY <1>1, <2>2, <2>3, SeqEqual
  <2> QED BY <2>4 DEF d
<1>4. Append(a, y) = a \o b
  BY <1>1, AppendIsConcat DEF b
<1> QED BY <1>2, <1>3, <1>4 DEF a, b, c

(* The target and the word are the arguments of such a MODE.               *)
LEMMA Addressed ==
  ASSUME "MODE" \in Token, NEW target \in Text, IsWord(target),
         NEW word \in Text, word # <<>>, \A i \in 1 .. Len(word) : word[i] # Blank
  PROVE  LET text == Told(target, word)
         IN /\ text \in Text /\ Plain(text) /\ text[Len(text)] # Blank
            /\ word[1] # Colon => \A p \in Starts(text) : text[p] # Colon
            /\ ParseLine(text).args =
                 <<target, IF word[1] = Colon THEN Tail(word) ELSE word>>
<1> DEFINE text == Told(target, word)
           alone == <<"MODE">>
           short == alone \o <<Blank>> \o target
           arg == IF word[1] = Colon THEN Tail(word) ELSE word
<1>1. /\ alone \in Text /\ Plain(alone) /\ alone[Len(alone)] # Blank
      /\ \A p \in Starts(alone) : alone[p] # Colon
      /\ ParseLine(alone).args = <<>>
  BY ModeAlone
<1>2. alone \o <<Blank>> = <<"MODE", " ">>
  <2>1. <<"MODE">> \o <<Blank>> = <<"MODE", Blank>>
    BY TwoMade
  <2> QED BY <2>1 DEF Blank
<1>3. text = short \o <<Blank>> \o word
  <2>1. text = ((<<"MODE", " ">> \o target) \o <<" ">>) \o word
    BY DEF Told
  <2>2. <<" ">> = <<Blank>>
    BY DEF Blank
  <2> QED BY <1>2, <2>1, <2>2
<1> HIDE DEF alone
<1>4. /\ short \in Text /\ Plain(short) /\ short[Len(short)] # Blank
      /\ \A p \in Starts(short) : short[p] # Colon
      /\ ParseLine(short).args = Append(<<>>, target)
  <2>1. target # <<>> /\ target[1] # Colon /\ \A i \in 1 .. Len(target) : target[i] # Blank
    BY DEF IsWord
  <2>2. /\ short \in Text /\ Plain(short) /\ short[Len(short)] # Blank
        /\ target[1] # Colon => \A p \in Starts(short) : short[p] # Colon
        /\ ParseLine(short).args =
             Append(ParseLine(alone).args, IF target[1] = Colon THEN Tail(target) ELSE target)
    BY <1>1, <2>1, AppendWord
  <2> HIDE DEF short
  <2> QED BY <1>1, <2>1, <2>2
<1> HIDE DEF short, text
<1>5. /\ text \in Text /\ Plain(text) /\ text[Len(text)] # Blank
      /\ word[1] # Colon => \A p \in Starts(text) : text[p] # Colon
      /\ ParseLine(text).args = Append(ParseLine(short).args, arg)
  BY <1>3, <1>4, AppendWord
<1>6. Append(Append(<<>>, target), arg) = <<target, arg>>
  <2> HIDE DEF arg
  <2> QED BY TwoMade
<1> QED BY <1>4, <1>5, <1>6 DEF text, arg

-----------------------------------------------------------------------------
(* A change on a channel, and one of a user.                               *)
ChannelChange == [mode : Token, op : Token \cup {ListOp}, arg : Text]
UserChange == [mode : Token, op : Token]

(* The changes that have an argument, and those whose letter takes one.    *)
Given(changes) == {k \in 1 .. Len(changes) : changes[k].arg # <<>>}
Takers(changes) == {k \in 1 .. Len(changes) : changes[k].mode \in TakesArg}

(* An argument is missing only where those after it are missing too.       *)
Ordered(changes) ==
  /\ Given(changes) \subseteq Takers(changes)
  /\ \A i \in Takers(changes), k \in Given(changes) : i < k => i \in Given(changes)

(* The changes have one sign, and no letter is a space.                    *)
OneSign(changes) ==
  /\ changes[1].op \in {AddOp, RemoveOp}
  /\ \A k \in 1 .. Len(changes) : changes[k].op = changes[1].op /\ changes[k].mode # Blank

Letters(changes) == [k \in 1 .. Len(changes) |-> changes[k].mode]
Signed(changes) == <<changes[1].op>> \o Letters(changes)

(* The sign and the letters are a word.                                    *)
LEMMA SignedIs ==
  ASSUME NEW changes, Len(changes) \in Nat, Len(changes) > 0, OneSign(changes),
         \A k \in 1 .. Len(changes) : changes[k].mode \in Token,
         changes[1].op \in Token
  PROVE  /\ Letters(changes) \in Text /\ Signed(changes) \in Text
         /\ Len(Letters(changes)) = Len(changes) /\ Len(Signed(changes)) = Len(changes) + 1
         /\ \A k \in 1 .. Len(changes) : Letters(changes)[k] = changes[k].mode
         /\ Signed(changes)[1] = changes[1].op
         /\ \A k \in 1 .. Len(changes) : Signed(changes)[k + 1] = changes[k].mode
         /\ Signed(changes)[1] # Colon
         /\ \A i \in 1 .. Len(changes) + 1 : Signed(changes)[i] # Blank
         /\ Tail(Signed(changes)) = Letters(changes)
<1> DEFINE n == Len(changes)
           s == Signed(changes)
           letters == Letters(changes)
           sign == <<changes[1].op>>
<1>1. letters \in Seq(Token) /\ Len(letters) = n /\ \A k \in 1 .. n : letters[k] = changes[k].mode
  BY DEF Letters
<1>2. sign \in Seq(Token) /\ Len(sign) = 1 /\ sign[1] = changes[1].op
  OBVIOUS
<1>3. changes[1].op # Blank /\ changes[1].op # Colon
  BY DEF OneSign, AddOp, RemoveOp, Blank, Colon
<1> HIDE DEF letters, sign, n
<1>4. /\ s \in Seq(Token) /\ Len(s) = 1 + n
      /\ \A i \in 1 .. 1 + n : s[i] = IF i <= 1 THEN sign[i] ELSE letters[i - 1]
  <2>1. s = sign \o letters
    BY DEF Signed, sign, letters
  <2>2. /\ sign \o letters \in Seq(Token) /\ Len(sign \o letters) = Len(sign) + Len(letters)
        /\ \A i \in 1 .. Len(sign) + Len(letters) :
             (sign \o letters)[i] = IF i <= Len(sign) THEN sign[i] ELSE letters[i - Len(sign)]
    BY <1>1, <1>2, ConcatProperties
  <2> HIDE DEF s
  <2> QED BY <1>1, <1>2, <2>1, <2>2
<1> HIDE DEF s
<1>5. n \in Nat /\ n > 0
  BY DEF n
<1>6. s[1] = changes[1].op
  BY <1>2, <1>4, <1>5
<1>7. ASSUME NEW k \in 1 .. n PROVE s[k + 1] = changes[k].mode
  <2>1. k + 1 \in 1 .. 1 + n /\ ~(k + 1 <= 1) /\ (k + 1) - 1 = k
    BY <1>5
  <2> QED BY <1>1, <1>4, <2>1
<1>8. ASSUME NEW i \in 1 .. n + 1 PROVE s[i] # Blank
  <2>1. i = 1 \/ (i - 1 \in 1 .. n /\ (i - 1) + 1 = i)
    BY <1>5
  <2>2. \A k \in 1 .. n : changes[k].mode # Blank
    BY DEF OneSign, n
  <2> QED BY <1>3, <1>6, <1>7, <2>1, <2>2
<1>9. Tail(s) = letters
  <2>1. s # <<>>
    BY <1>4, <1>5
  <2>2. Tail(s) \in Seq(Token) /\ Len(Tail(s)) = Len(s) - 1
        /\ \A i \in 1 .. Len(Tail(s)) : Tail(s)[i] = s[i + 1]
    BY <1>4, <2>1, HeadTailProperties
  <2> DEFINE u == Tail(s)
  <2> HIDE DEF u
  <2>3. u \in Seq(Token) /\ Len(u) = n /\ \A i \in 1 .. n : u[i] = letters[i]
    BY <1>1, <1>4, <1>5, <1>7, <2>2 DEF u
  <2>4. u = letters
    BY <1>1, <2>3, SeqEqual
  <2> QED BY <2>4 DEF u
<1>10. Len(s) = n + 1
  BY <1>4, <1>5
<1> QED BY <1>1, <1>3, <1>4, <1>6, <1>7, <1>8, <1>9, <1>10 DEF Text, s, letters, n

(* What the members of a channel are told, read back.                      *)
LEMMA ChannelTold ==
  ASSUME "MODE" \in Token, NEW target \in Text, IsWord(target),
         NEW changes \in Seq(ChannelChange), changes # <<>>, OneSign(changes),
         \A k \in 1 .. Len(changes) : changes[k].arg = <<>> \/ IsWord(changes[k].arg)
  PROVE  LET args == ParseLine(Told(target, ChannelModeString(changes))).args
             given == Given(changes)
         IN /\ args \in Seq(Text) /\ Len(args) = 2 + Cardinality(given)
            /\ args[1] = target /\ args[2] = Signed(changes)
            /\ \A k \in given : args[2 + UpTo(given, k)] = changes[k].arg
<1> DEFINE n == Len(changes)
           s == Signed(changes)
           words == [k \in 1 .. n |-> changes[k].arg]
           spaced == [k \in 1 .. n |-> Spaced(words[k])]
           flat == Seqs!FlattenSeq(spaced)
           given == Given(changes)
<1>1. n \in Nat /\ n > 0 /\ \A k \in 1 .. n : changes[k] \in ChannelChange
  OBVIOUS
<1>2. \A k \in 1 .. n : changes[k].mode \in Token /\ changes[k].arg \in Text
  BY <1>1 DEF ChannelChange
<1>3. changes[1].op \in Token
  <2>1. changes[1].op \in Token \cup {ListOp}
    BY <1>1 DEF ChannelChange
  <2> QED BY <2>1 DEF OneSign, AddOp, RemoveOp, ListOp
<1>4. /\ s \in Text /\ Len(s) = n + 1 /\ s[1] # Colon
      /\ \A i \in 1 .. n + 1 : s[i] # Blank
  BY <1>1, <1>2, <1>3, SignedIs
<1>5. /\ words \in Seq(Text) /\ Len(words) = n /\ DOMAIN words = 1 .. n
      /\ \A k \in 1 .. n : words[k] = changes[k].arg
  BY <1>1, <1>2
<1>6. given = {k \in 1 .. n : words[k] # <<>>}
  BY <1>5 DEF Given
<1>7. ChannelModeString(changes) = s \o flat
  <2>1. DOMAIN changes = 1 .. n
    OBVIOUS
  <2>2. <<IF changes[1].op = RemoveOp THEN "-" ELSE "+">> = <<changes[1].op>>
    BY DEF OneSign, AddOp, RemoveOp
  <2>3. spaced = [k \in 1 .. n |-> IF changes[k].arg = <<>> THEN <<>> ELSE <<" ">> \o changes[k].arg]
    BY <1>5 DEF Spaced, Blank
  <2> HIDE DEF n, words, spaced
  <2>4. ChannelModeString(changes) =
          <<IF changes[1].op = RemoveOp THEN "-" ELSE "+">>
            \o [k \in DOMAIN changes |-> changes[k].mode]
            \o Seqs!FlattenSeq([k \in DOMAIN changes |->
                 IF changes[k].arg = <<>> THEN <<>> ELSE <<" ">> \o changes[k].arg])
    BY DEF ChannelModeString
  <2> QED BY <2>1, <2>2, <2>3, <2>4, Zenon DEF Signed, Letters, n
<1> HIDE DEF n, words, s
<1> DEFINE text == Told(target, s)
<1>8. /\ text \in Text /\ Plain(text) /\ text[Len(text)] # Blank
      /\ \A p \in Starts(text) : text[p] # Colon
      /\ ParseLine(text).args = <<target, s>>
  <2>1. s # <<>> /\ \A i \in 1 .. Len(s) : s[i] # Blank
    BY <1>1, <1>4
  <2>2. /\ text \in Text /\ Plain(text) /\ text[Len(text)] # Blank
        /\ s[1] # Colon => \A p \in Starts(text) : text[p] # Colon
        /\ ParseLine(text).args = <<target, IF s[1] = Colon THEN Tail(s) ELSE s>>
    BY <1>4, <2>1, Addressed
  <2> HIDE DEF text
  <2> QED BY <1>4, <2>2
<1>9. \A k \in 1 .. n : words[k] = <<>> \/ IsWord(words[k])
  BY <1>5 DEF n
<1>10. flat \in Seq(Token)
  <2>1. \A k \in 1 .. n : Spaced(words[k]) \in Seq(Token)
    <3>1. <<Blank>> \in Seq(Token)
      <4>1. Blank \in Token
        BY ParsingAssumption DEF Blank
      <4> QED BY <4>1
    <3>2. \A k \in 1 .. n : words[k] \in Seq(Token)
      BY <1>2, <1>5 DEF Text
    <3>3. \A k \in 1 .. n : <<Blank>> \o words[k] \in Seq(Token)
      BY <3>1, <3>2, ConcatProperties
    <3> QED BY <3>3 DEF Spaced
  <2>2. spaced \in Seq(Seq(Token))
    BY <1>1, <2>1
  <2> HIDE DEF spaced
  <2>3. PICK f \in [0 .. Len(spaced) -> Seq(Token)] : Seqs!FlattenSeq(spaced) = f[Len(spaced)]
    BY <2>2, FlattenIs
  <2>4. Len(spaced) \in 0 .. Len(spaced)
    BY <2>2
  <2> QED BY <2>3, <2>4
<1>11. Told(target, s \o flat) = text \o flat
  <2> DEFINE first == <<"MODE", " ">> \o target \o <<" ">>
  <2>1. first \in Seq(Token)
    <3>1. <<"MODE", " ">> \in Seq(Token) /\ <<" ">> \in Seq(Token) /\ target \in Seq(Token)
      <4>1. Blank \in Token
        BY ParsingAssumption DEF Blank
      <4>2. <<"MODE", Blank>> \in Seq(Token) /\ <<Blank>> \in Seq(Token)
        BY <4>1
      <4>3. target \in Seq(Token)
        BY DEF Text
      <4> QED BY <4>2, <4>3, Zenon DEF Blank
    <3>2. <<"MODE", " ">> \o target \in Seq(Token)
      BY <3>1, ConcatProperties
    <3> QED BY <3>1, <3>2, ConcatProperties
  <2>2. text = first \o s /\ Told(target, s \o flat) = first \o (s \o flat)
    BY DEF Told
  <2>3. s \in Seq(Token)
    BY <1>4 DEF Text
  <2> HIDE DEF first, text, flat
  <2> QED BY <1>10, <2>1, <2>2, <2>3, ConcatAssociative, SMTT(30)
<1> DEFINE args == ParseLine(text \o flat).args
<1>12. /\ args \in Seq(Text) /\ Len(args) = Len(<<target, s>>) + Cardinality(given)
       /\ \A k \in 1 .. Len(<<target, s>>) : args[k] = <<target, s>>[k]
       /\ \A k \in given : args[Len(<<target, s>>) + UpTo(given, k)] = words[k]
  <2> HIDE DEF text, given
  <2> DEFINE old == ParseLine(text).args
             all == ParseLine(text \o Seqs!FlattenSeq([i \in 1 .. Len(words) |-> Spaced(words[i])])).args
             there == {i \in 1 .. Len(words) : words[i] # <<>>}
  <2>1. \A i \in 1 .. Len(words) : words[i] = <<>> \/ IsWord(words[i])
    BY <1>5, <1>9
  <2>2. /\ all \in Seq(Text) /\ Len(all) = Len(old) + Cardinality(there)
        /\ \A k \in 1 .. Len(old) : all[k] = old[k]
        /\ \A k \in there : all[Len(old) + UpTo(there, k)] = words[k]
    BY <1>5, <1>8, <2>1, AppendWords, Zenon
  <2>3. all = args
    BY <1>5
  <2>4. there = given
    BY <1>5, <1>6
  <2>5. old = <<target, s>>
    BY <1>8
  <2> HIDE DEF all, there, old, args
  <2> QED BY <2>2, <2>3, <2>4, <2>5
<1>13. \A k \in given : k \in 1 .. n
  BY DEF Given, n
<1>14. Len(<<target, s>>) = 2 /\ <<target, s>>[1] = target /\ <<target, s>>[2] = s
  OBVIOUS
<1>15. args = ParseLine(Told(target, ChannelModeString(changes))).args
  BY <1>7, <1>11
<1> HIDE DEF args, given
<1>16. /\ args \in Seq(Text) /\ Len(args) = 2 + Cardinality(given)
       /\ args[1] = target /\ args[2] = s
       /\ \A k \in given : args[2 + UpTo(given, k)] = changes[k].arg
  <2>1. 1 \in 1 .. 2 /\ 2 \in 1 .. 2
    OBVIOUS
  <2> QED BY <1>5, <1>12, <1>13, <1>14, <2>1
<1> QED BY <1>15, <1>16 DEF given, s

(* One token and a text.                                                   *)
LEMMA FirstAndRest ==
  ASSUME NEW T, NEW x \in T, NEW s \in Seq(T)
  PROVE  /\ <<x>> \o s \in Seq(T) /\ <<x>> \o s # <<>> /\ Len(<<x>> \o s) = Len(s) + 1
         /\ (<<x>> \o s)[1] = x /\ \A i \in 1 .. Len(s) : (<<x>> \o s)[i + 1] = s[i]
         /\ Tail(<<x>> \o s) = s
<1> DEFINE a == <<x>>
           b == a \o s
           u == Tail(b)
<1>1. a \in Seq(T) /\ Len(a) = 1 /\ a[1] = x /\ Len(s) \in Nat
  OBVIOUS
<1> HIDE DEF a
<1>2. /\ b \in Seq(T) /\ Len(b) = Len(a) + Len(s)
      /\ \A i \in 1 .. Len(a) + Len(s) : b[i] = IF i <= Len(a) THEN a[i] ELSE s[i - Len(a)]
  BY <1>1, ConcatProperties
<1> HIDE DEF b
<1>3. b # <<>> /\ Len(b) = Len(s) + 1 /\ b[1] = x
  BY <1>1, <1>2
<1>4. ASSUME NEW i \in 1 .. Len(s) PROVE b[i + 1] = s[i]
  <2>1. i + 1 \in 1 .. Len(a) + Len(s) /\ ~(i + 1 <= Len(a)) /\ (i + 1) - Len(a) = i
    BY <1>1
  <2> QED BY <1>2, <2>1
<1>5. /\ u \in Seq(T) /\ Len(u) = Len(b) - 1 /\ \A i \in 1 .. Len(u) : u[i] = b[i + 1]
  BY <1>2, <1>3, HeadTailProperties
<1> HIDE DEF u
<1>6. u = s
  BY <1>1, <1>3, <1>4, <1>5, SeqEqual
<1> QED BY <1>2, <1>3, <1>4, <1>6 DEF a, b, u

(* What a user is told has the sign and the letters.                       *)
LEMMA UserModeIs ==
  ASSUME NEW changes \in Seq(UserChange), changes # <<>>, OneSign(changes)
  PROVE  UserModeString(changes) = Signed(changes)
<1> DEFINE n == Len(changes)
           s == Signed(changes)
           mode(i) == changes[i].mode
           pieces == [i \in 1 .. n |-> IF i = 1 THEN <<changes[1].op, mode(1)>> ELSE <<mode(i)>>]
<1>1. n \in Nat /\ n > 0 /\ DOMAIN changes = 1 .. n /\ \A i \in 1 .. n : changes[i] \in UserChange
  OBVIOUS
<1>2. (\A i \in 1 .. n : mode(i) \in Token) /\ changes[1].op \in Token
  BY <1>1 DEF UserChange
<1>3. /\ s \in Text /\ Len(s) = n + 1 /\ s[1] = changes[1].op
      /\ \A i \in 1 .. n : s[i + 1] = mode(i)
  BY <1>1, <1>2, SignedIs
<1>4. UserModeString(changes) = Seqs!FlattenSeq(pieces)
  <2>1. \A i \in 1 .. n : i > 1 => changes[i].op = changes[i - 1].op
    <3> SUFFICES ASSUME NEW i \in 1 .. n, i > 1 PROVE changes[i].op = changes[i - 1].op
      OBVIOUS
    <3>1. i - 1 \in 1 .. n
      OBVIOUS
    <3> QED BY <3>1 DEF OneSign
  <2> DEFINE told(i) == CASE i = 1 -> <<changes[1].op, changes[1].mode>>
                          [] i > 1 /\ changes[i].op = changes[i - 1].op -> <<changes[i].mode>>
                          [] OTHER -> <<" ", changes[i].op>>
  <2>2. \A i \in 1 .. n : told(i) = IF i = 1 THEN <<changes[1].op, mode(1)>> ELSE <<mode(i)>>
    <3> SUFFICES ASSUME NEW i \in 1 .. n
                 PROVE  told(i) = IF i = 1 THEN <<changes[1].op, mode(1)>> ELSE <<mode(i)>>
      OBVIOUS
    <3>1. CASE i = 1
      <4>1. ~(i > 1)
        BY <3>1
      <4> QED BY <3>1, <4>1
    <3>2. CASE i # 1
      <4>1. i > 1
        BY <3>2
      <4> QED BY <2>1, <3>2, <4>1
    <3> QED BY <3>1, <3>2
  <2>3. UserModeString(changes) = Seqs!FlattenSeq([i \in 1 .. n |-> told(i)])
    BY <1>1, Zenon DEF UserModeString
  <2> HIDE DEF told, n
  <2>4. [i \in 1 .. n |-> told(i)] = pieces
    BY <2>2
  <2> QED BY <2>3, <2>4
<1>5. pieces \in Seq(Seq(Token)) /\ Len(pieces) = n
      /\ \A i \in 1 .. n : pieces[i] = IF i = 1 THEN <<changes[1].op, mode(1)>> ELSE <<mode(i)>>
  <2>1. \A i \in 1 .. n : <<changes[1].op, mode(1)>> \in Seq(Token) /\ <<mode(i)>> \in Seq(Token)
    BY <1>1, <1>2
  <2> HIDE DEF mode
  <2> QED BY <1>1, <2>1
<1> HIDE DEF pieces, s, mode
<1>6. PICK f \in [0 .. Len(pieces) -> Seq(Token)] :
        /\ f[0] = <<>>
        /\ \A i \in 1 .. Len(pieces) : f[i] = f[i - 1] \o pieces[i]
        /\ Seqs!FlattenSeq(pieces) = f[Len(pieces)]
  BY <1>5, FlattenIs
<1> HIDE DEF n
<1> DEFINE Made(i) == Len(f[i]) = i + 1 /\ \A j \in 1 .. i + 1 : f[i][j] = s[j]
           S == {i \in Nat : i + 1 <= n => Made(i + 1)}
<1>7. 0 \in S
  <2> DEFINE t == <<changes[1].op, mode(1)>>
  <2>1. 1 \in 1 .. n /\ 1 - 1 = 0
    BY <1>1
  <2>2. f[1] = f[0] \o pieces[1] /\ pieces[1] = t /\ f[0] = <<>>
    BY <1>5, <1>6, <2>1
  <2>3. t \in Seq(Token) /\ Len(t) = 2 /\ t[1] = changes[1].op /\ t[2] = mode(1)
    BY <1>2, <2>1
  <2> HIDE DEF t
  <2>4. f[1] = t
    BY <2>2, <2>3, ConcatEmptySeq
  <2>5. t[1] = s[1] /\ t[2] = s[2]
    <3>1. s[1 + 1] = mode(1)
      BY <1>3, <2>1
    <3> QED BY <1>3, <2>3, <3>1
  <2>6. \A j \in 1 .. 2 : j = 1 \/ j = 2
    OBVIOUS
  <2>7. Made(1)
    BY <2>3, <2>4, <2>5, <2>6
  <2> QED BY <2>7
<1>8. ASSUME NEW i \in Nat, i \in S PROVE i + 1 \in S
  <2> HIDE DEF Made
  <2> SUFFICES ASSUME (i + 1) + 1 <= n PROVE Made((i + 1) + 1)
    OBVIOUS
  <2> DEFINE k == i + 1
             j == k + 1
             last == <<mode(j)>>
  <2>1. k \in Nat /\ k <= n /\ j \in 1 .. n /\ j - 1 = k /\ j # 1 /\ k \in 0 .. n /\ j = k + 1
    BY <1>1
  <2>2. Made(k)
    BY <1>8, <2>1
  <2>3. last \in Seq(Token) /\ Len(last) = 1 /\ last[1] = mode(j)
    BY <1>2, <2>1
  <2> HIDE DEF k, j, last
  <2>4. f[j] = f[k] \o last /\ f[k] \in Seq(Token)
    <3>1. f[j] = f[j - 1] \o pieces[j] /\ pieces[j] = last /\ f[k] \in Seq(Token)
      BY <1>5, <1>6, <2>1 DEF last
    <3> QED BY <2>1, <3>1
  <2>5. Len(f[k]) = j /\ \A m \in 1 .. j : f[k][m] = s[m]
    BY <2>1, <2>2 DEF Made
  <2>6. /\ Len(f[k] \o last) = Len(f[k]) + Len(last)
        /\ \A m \in 1 .. Len(f[k]) + Len(last) :
             (f[k] \o last)[m] = IF m <= Len(f[k]) THEN f[k][m] ELSE last[m - Len(f[k])]
    BY <2>3, <2>4, ConcatProperties
  <2>7. ASSUME NEW m \in 1 .. j + 1 PROVE f[j][m] = s[m]
    <3>1. CASE m <= j
      <4>1. m \in 1 .. j /\ m \in 1 .. Len(f[k]) + Len(last)
        BY <2>1, <2>3, <2>5, <3>1
      <4> QED BY <2>4, <2>5, <2>6, <3>1, <4>1
    <3>2. CASE ~(m <= j)
      <4>1. m = j + 1 /\ m - Len(f[k]) = 1 /\ m \in 1 .. Len(f[k]) + Len(last)
        BY <2>1, <2>3, <2>5, <3>2
      <4>2. f[j][m] = last[1]
        BY <2>4, <2>5, <2>6, <3>2, <4>1
      <4> QED BY <1>3, <2>1, <2>3, <4>1, <4>2
    <3> QED BY <3>1, <3>2
  <2>8. Len(f[j]) = j + 1
    BY <2>3, <2>4, <2>5, <2>6
  <2>9. Made(j)
    BY <2>7, <2>8 DEF Made
  <2> QED BY <2>9 DEF j, k
<1>9. Made(n)
  <2>1. n - 1 \in S
    <3>1. Nat \subseteq S
      <4> HIDE DEF S
      <4> QED BY <1>7, <1>8, SetInduction
    <3> QED BY <1>1, <3>1
  <2>2. (n - 1) + 1 = n /\ n <= n
    BY <1>1
  <2> HIDE DEF Made
  <2> QED BY <2>1, <2>2
<1>10. f[n] = s
  <2>1. f[n] \in Seq(Token) /\ s \in Seq(Token)
    BY <1>1, <1>3, <1>5, <1>6 DEF Text
  <2> QED BY <1>3, <1>9, <2>1, SeqEqual
<1> QED BY <1>4, <1>5, <1>6, <1>10 DEF s

(* What a user is told of its modes, read back.                            *)
LEMMA UserToldBack ==
  ASSUME "MODE" \in Token, NEW target \in Text, IsWord(target), ~IsChannel(NewName(target)),
         NEW changes \in Seq(UserChange), changes # <<>>, OneSign(changes)
  PROVE  ParseMode(ParseLine(Told(target, <<":">> \o UserModeString(changes))).args).changes
           = changes
<1> DEFINE n == Len(changes)
           s == Signed(changes)
           word == <<Colon>> \o s
           args == ParseLine(Told(target, word)).args
<1>1. n \in Nat /\ n > 0 /\ \A i \in 1 .. n : changes[i] \in UserChange
  OBVIOUS
<1>2. /\ s \in Text /\ Len(s) = n + 1 /\ s[1] = changes[1].op
      /\ \A i \in 1 .. n : s[i + 1] = changes[i].mode
      /\ \A i \in 1 .. n + 1 : s[i] # Blank
  <2>1. (\A i \in 1 .. n : changes[i].mode \in Token) /\ changes[1].op \in Token
    BY <1>1 DEF UserChange
  <2> QED BY <1>1, <2>1, SignedIs
<1>3. UserModeString(changes) = s
  BY UserModeIs
<1> HIDE DEF s
<1>4. /\ word \in Seq(Token) /\ word # <<>> /\ Len(word) = n + 2 /\ word[1] = Colon
      /\ \A i \in 1 .. n + 1 : word[i + 1] = s[i]
      /\ Tail(word) = s
  <2>1. Colon \in Token
    BY ParsingAssumption DEF Colon
  <2>2. s \in Seq(Token)
    BY <1>2 DEF Text
  <2>3. /\ word \in Seq(Token) /\ word # <<>> /\ Len(word) = Len(s) + 1 /\ word[1] = Colon
        /\ \A i \in 1 .. Len(s) : word[i + 1] = s[i]
        /\ Tail(word) = s
    BY <2>1, <2>2, FirstAndRest
  <2> HIDE DEF word
  <2> QED BY <1>1, <1>2, <2>3
<1> HIDE DEF word, n
<1>5. \A i \in 1 .. Len(word) : word[i] # Blank
  <2> SUFFICES ASSUME NEW i \in 1 .. n + 2 PROVE word[i] # Blank
    BY <1>4
  <2>1. i = 1 \/ (i - 1 \in 1 .. n + 1 /\ (i - 1) + 1 = i)
    BY <1>1
  <2>2. Colon # Blank
    BY DEF Colon, Blank
  <2> QED BY <1>2, <1>4, <2>1, <2>2
<1>6. args = <<target, s>>
  <2>1. ParseLine(Told(target, word)).args
          = <<target, IF word[1] = Colon THEN Tail(word) ELSE word>>
    BY <1>4, <1>5, Addressed DEF Text
  <2> QED BY <1>4, <2>1
<1> HIDE DEF args
<1> DEFINE rest == <<s>>
           made(arg) == [i \in 1 .. Len(arg) - 1 |-> [mode |-> arg[i + 1], op |-> arg[1]]]
           name == NewName(target)
<1>7. /\ Len(args) >= 1 /\ args[1] = target /\ Tail(args) = rest
      /\ DOMAIN rest = 1 .. 1 /\ rest[1] = s
  BY <1>6
<1>8. ParseMode(args) = ParseUserMode(name, rest)
  <2>1. ~(Len(args) < 1)
    BY <1>6
  <2> HIDE DEF rest
  <2> QED BY <1>7, <2>1 DEF ParseMode, Needs
<1>9. made(s) = changes
  <2>1. Len(s) - 1 = n /\ changes = [i \in 1 .. n |-> changes[i]]
    BY <1>1, <1>2 DEF n
  <2>2. ASSUME NEW i \in 1 .. n PROVE [mode |-> s[i + 1], op |-> s[1]] = changes[i]
    <3>1. changes[i] \in UserChange /\ changes[i].op = changes[1].op
      BY <1>1 DEF n, OneSign
    <3>2. s[i + 1] = changes[i].mode /\ s[1] = changes[i].op
      BY <1>2, <3>1
    <3> QED BY <3>1, <3>2 DEF UserChange
  <2> QED BY <2>1, <2>2
<1>10. ParseUserMode(name, rest).changes = Seqs!FlattenSeq([i \in 1 .. 1 |-> made(s)])
  <2> HIDE DEF rest, name
  <2>1. ~(\E i \in DOMAIN rest : rest[i] # <<>> /\ rest[i][1] \notin {AddOp, RemoveOp})
    BY <1>2, <1>7 DEF OneSign
  <2>2. ParseUserMode(name, rest).changes = Seqs!FlattenSeq([i \in DOMAIN rest |-> made(rest[i])])
    BY <2>1 DEF ParseUserMode
  <2>3. [i \in DOMAIN rest |-> made(rest[i])] = [i \in 1 .. 1 |-> made(s)]
    <3> HIDE DEF made
    <3> QED BY <1>7
  <2> HIDE DEF made
  <2> QED BY <2>2, <2>3
<1>11. Seqs!FlattenSeq([i \in 1 .. 1 |-> changes]) = changes
  BY FlattenOne
<1> HIDE DEF made, rest, name
<1> QED BY <1>3, <1>8, <1>9, <1>10, <1>11 DEF args, word, Colon

(* The sign of a group and its letters.                                    *)
SignOf(word) == IF word[1] \in {AddOp, RemoveOp} THEN word[1] ELSE ListOp
LettersOf(word) == IF word[1] \in {AddOp, RemoveOp} THEN Tail(word) ELSE word
Wants(letters) == {i \in 1 .. Len(letters) : letters[i] \in TakesArg}

(* How many letters want an argument.                                      *)
LEMMA WantsType ==
  ASSUME NEW word \in Text, word # <<>>
  PROVE  LET letters == LettersOf(word)
         IN /\ letters \in Text /\ Len(letters) \in Nat /\ DOMAIN letters = 1 .. Len(letters)
            /\ \A k \in 1 .. Len(letters) : letters[k] \in Token
            /\ Wants(letters) \in SUBSET (1 .. Len(letters)) /\ IsFiniteSet(Wants(letters))
            /\ Cardinality(Wants(letters)) \in Nat
<1> DEFINE letters == LettersOf(word)
           n == Len(letters)
           wants == Wants(letters)
<1>1. letters \in Seq(Token)
  <2>1. Tail(word) \in Seq(Token)
    BY HeadTailProperties DEF Text
  <2> QED BY <2>1 DEF LettersOf, Text
<1> HIDE DEF letters
<1>2. wants \in SUBSET (1 .. n) /\ IsFiniteSet(1 .. n)
  BY <1>1, FS_Interval DEF Wants
<1> HIDE DEF wants
<1>3. IsFiniteSet(wants) /\ Cardinality(wants) \in Nat
  <2> HIDE DEF n
  <2> QED BY <1>2, FS_Subset, FS_CardinalityType
<1> QED BY <1>1, <1>2, <1>3 DEF Text, letters, wants

LEMMA GroupIs ==
  ASSUME NEW args \in Seq(Text), args # <<>>, args[1] # <<>>
  PROVE  LET letters == LettersOf(args[1])
             wants == Wants(letters)
             changes == Group(args).changes
             skip == IF Cardinality(wants) <= Len(args) - 1 THEN Cardinality(wants)
                     ELSE Len(args) - 1
         IN /\ changes \in Seq(ChannelChange) /\ Len(changes) = Len(letters)
            /\ Takers(changes) = wants
            /\ \A k \in 1 .. Len(letters) :
                 /\ changes[k].mode = letters[k] /\ changes[k].op = SignOf(args[1])
                 /\ changes[k].arg =
                      IF k \in wants THEN Arg(Tail(args), UpTo(wants, k)) ELSE <<>>
            /\ Group(args).rest = SubSeq(args, 2 + skip, Len(args))
<1> DEFINE word == args[1]
           letters == LettersOf(word)
           wants == Wants(letters)
           op == SignOf(word)
           params == Tail(args)
           len == Len(args)
           wanted == Cardinality(wants)
           skip == IF wanted <= len - 1 THEN wanted ELSE len - 1
           changes == Group(args).changes
           n == Len(letters)
<1>1. len \in Nat /\ len > 0 /\ word \in Text /\ word # <<>> /\ params \in Seq(Text)
  BY HeadTailProperties
<1> HIDE DEF word, params, len
<1>2. /\ letters \in Text /\ n \in Nat /\ DOMAIN letters = 1 .. n
      /\ \A k \in 1 .. n : letters[k] \in Token
  BY <1>1, WantsType
<1>3. op \in Token \cup {ListOp}
  <2>1. word[1] \in Token
    BY <1>1 DEF Text
  <2> QED BY <2>1 DEF SignOf
<1> HIDE DEF letters, op
<1>4. wants \in SUBSET (1 .. n) /\ IsFiniteSet(wants) /\ wanted \in Nat
  BY <1>1, WantsType DEF letters
<1>5. \A k \in 1 .. n : k \in wants <=> letters[k] \in TakesArg
  BY DEF Wants
<1>6. \A k \in 1 .. n : Cardinality({i \in 1 .. k : letters[i] \in TakesArg}) = UpTo(wants, k)
  <2> SUFFICES ASSUME NEW k \in 1 .. n
               PROVE  Cardinality({i \in 1 .. k : letters[i] \in TakesArg}) = UpTo(wants, k)
    OBVIOUS
  <2>1. \A i : i \in 1 .. k <=> i \in 1 .. n /\ i <= k
    BY <1>2
  <2>2. {i \in 1 .. k : letters[i] \in TakesArg} = {i \in wants : i <= k}
    <3> HIDE DEF n
    <3>1. \A i : i \in {j \in 1 .. k : letters[j] \in TakesArg} <=> i \in {j \in wants : j <= k}
      BY <2>1 DEF Wants, n
    <3> QED BY <3>1
  <2> QED BY <2>2 DEF UpTo
<1>7. Group(args) = [changes |-> Changes(op, letters, params),
                     rest |-> SubSeq(args, (1 + Seqs!Min({wanted, len - 1})) + 1, len)]
  <2>1. word = args[1] /\ len = Len(args) /\ params = Tail(args)
    BY DEF word, len, params
  <2>2. {i \in DOMAIN letters : letters[i] \in TakesArg} = wants
    BY <1>2 DEF Wants
  <2>3. CASE word[1] \in {AddOp, RemoveOp}
    <3>1. letters = Tail(word) /\ op = word[1]
      BY <2>3 DEF letters, op, LettersOf, SignOf
    <3> HIDE DEF wants
    <3> QED BY <1>1, <2>1, <2>2, <2>3, <3>1, Zenon DEF Group
  <2>4. CASE word[1] \notin {AddOp, RemoveOp}
    <3>1. letters = word /\ op = ListOp
      BY <2>4 DEF letters, op, LettersOf, SignOf
    <3> HIDE DEF wants
    <3> QED BY <1>1, <2>1, <2>2, <2>4, <3>1, Zenon DEF Group
  <2> QED BY <2>3, <2>4
<1>8. Seqs!Min({wanted, len - 1}) = skip
  <2> HIDE DEF wanted
  <2>1. \A x, y \in Int : Seqs!Min({x, y}) = IF x <= y THEN x ELSE y
    BY DEF Seqs!Min
  <2> QED BY <1>1, <1>4, <2>1
<1>9. Group(args).rest = SubSeq(args, 2 + skip, len)
  <2>1. skip \in Int
    BY <1>1, <1>4
  <2> HIDE DEF skip
  <2>2. (1 + skip) + 1 = 2 + skip
    BY <2>1
  <2> DEFINE least == Seqs!Min({wanted, len - 1})
  <2>3. Group(args).rest = SubSeq(args, (1 + least) + 1, len)
    <3> DEFINE c == Changes(op, letters, params)
               r == SubSeq(args, (1 + least) + 1, len)
    <3>1. Group(args) = [changes |-> c, rest |-> r]
      BY <1>7
    <3> HIDE DEF c, r, least
    <3>2. Group(args).rest = r
      BY <3>1
    <3> QED BY <3>2 DEF r
  <2>4. least = skip
    BY <1>8
  <2> HIDE DEF least
  <2> QED BY <2>2, <2>3, <2>4
<1>10. changes = [k \in 1 .. n |->
         [mode |-> letters[k], op |-> op,
          arg |-> IF letters[k] \in TakesArg THEN Arg(params, UpTo(wants, k)) ELSE <<>>]]
  <2> HIDE DEF wants, n
  <2>1. changes = [k \in DOMAIN letters |->
           [mode |-> letters[k], op |-> op,
            arg |-> IF letters[k] \in TakesArg
                    THEN Arg(params, Cardinality({i \in 1 .. k : letters[i] \in TakesArg}))
                    ELSE <<>>]]
    BY <1>7 DEF Changes
  <2> QED BY <1>2, <1>6, <2>1
<1>11. \A k \in 1 .. n : UpTo(wants, k) \in Nat
  <2> HIDE DEF wants, n
  <2> QED BY <1>2, <1>4, UpToCounts
<1> HIDE DEF wants, n
<1> DEFINE arg(k) == IF k \in wants THEN Arg(params, UpTo(wants, k)) ELSE <<>>
<1>12. \A k \in 1 .. n : arg(k) \in Text
  <2>1. \A k \in 1 .. n : k \in wants => UpTo(wants, k) \in Nat \ {0}
    <3> SUFFICES ASSUME NEW k \in 1 .. n, k \in wants PROVE UpTo(wants, k) \in Nat \ {0}
      OBVIOUS
    <3>1. UpTo(wants, k) = UpTo(wants, k - 1) + 1 /\ k - 1 \in 0 .. n
      BY <1>2, <1>4, UpToCounts
    <3>2. UpTo(wants, k - 1) \in Nat
      BY <1>2, <1>4, <3>1, UpToCounts
    <3> QED BY <3>1, <3>2
  <2>2. \A k \in 1 .. n : k \in wants => Arg(params, UpTo(wants, k)) \in Text
    BY <1>1, <2>1, ArgType
  <2>3. <<>> \in Text
    BY DEF Text
  <2> QED BY <2>2, <2>3
<1>13. changes = [k \in 1 .. n |-> [mode |-> letters[k], op |-> op, arg |-> arg(k)]]
  BY <1>5, <1>10
<1> HIDE DEF arg, changes
<1>14. \A k \in 1 .. n : [mode |-> letters[k], op |-> op, arg |-> arg(k)] \in ChannelChange
  BY <1>2, <1>3, <1>12 DEF ChannelChange
<1>15. /\ changes \in Seq(ChannelChange) /\ Len(changes) = n
       /\ \A k \in 1 .. n : changes[k] = [mode |-> letters[k], op |-> op, arg |-> arg(k)]
  <2> HIDE DEF n
  <2>1. n \in Nat
    BY <1>2
  <2> QED BY <1>13, <1>14, <2>1
<1>16. \A k \in 1 .. n :
         /\ changes[k].mode = letters[k] /\ changes[k].op = op
         /\ changes[k].arg = arg(k)
  BY <1>15
<1>17. Takers(changes) = wants
  <2>1. \A k : k \in Takers(changes) <=> k \in wants
    BY <1>4, <1>5, <1>15, <1>16 DEF Takers
  <2> QED BY <2>1
<1> QED BY <1>9, <1>15, <1>16, <1>17, Zenon DEF arg, changes, wants, letters, word, op, params, len, n

(* The members of a set whose first ones are those of another.             *)
LEMMA FirstOnes ==
  ASSUME NEW n \in Nat, NEW T \in SUBSET (1 .. n), NEW G \in SUBSET T,
         \A i \in T, k \in G : i < k => i \in G
  PROVE  /\ Cardinality(G) \in Nat /\ Cardinality(T) \in Nat /\ Cardinality(G) <= Cardinality(T)
         /\ \A k \in G : UpTo(T, k) = UpTo(G, k) /\ UpTo(G, k) \in 1 .. Cardinality(G)
         /\ \A k \in T : k \notin G => UpTo(T, k) \in Nat /\ UpTo(T, k) > Cardinality(G)
<1>1. IsFiniteSet(T) /\ IsFiniteSet(G)
  <2>1. IsFiniteSet(1 .. n)
    BY FS_Interval
  <2>2. IsFiniteSet(T)
    BY <2>1, FS_Subset
  <2> QED BY <2>2, FS_Subset
<1>2. Cardinality(G) \in Nat /\ Cardinality(T) \in Nat /\ Cardinality(G) <= Cardinality(T)
  BY <1>1, FS_Subset, FS_CardinalityType
<1>3. G \in SUBSET (1 .. n) /\ \A i \in T : i \in Int /\ i \in 1 .. n /\ i \in 0 .. n /\ i - 1 \in 0 .. n
  OBVIOUS
<1>4. ASSUME NEW k \in G PROVE UpTo(T, k) = UpTo(G, k) /\ UpTo(G, k) \in 1 .. Cardinality(G)
  <2>1. k \in T /\ \A i \in T : i <= k => i \in G
    <3> SUFFICES ASSUME NEW i \in T, i <= k PROVE i \in G
      OBVIOUS
    <3>1. i < k \/ i = k
      BY <1>3
    <3> QED BY <3>1
  <2>2. {i \in T : i <= k} = {i \in G : i <= k}
    BY <2>1, Zenon
  <2>3. UpTo(T, k) = UpTo(G, k)
    BY <2>2 DEF UpTo
  <2>4. UpTo(G, k) = UpTo(G, k - 1) + 1 /\ UpTo(G, k - 1) \in Nat /\ UpTo(G, n) = Cardinality(G)
    BY <1>3, <2>1, UpToCounts
  <2>5. UpTo(G, k) <= UpTo(G, n)
    <3>1. k \in 0 .. n /\ n \in 0 .. n /\ k <= n
      BY <1>3, <2>1
    <3> QED BY <1>3, <3>1, UpToCounts
  <2> QED BY <1>2, <2>3, <2>4, <2>5
<1>5. ASSUME NEW k \in T, k \notin G PROVE UpTo(T, k) \in Nat /\ UpTo(T, k) > Cardinality(G)
  <2> DEFINE U == {i \in T : i <= k}
  <2>1. \A i \in G : i <= k
    <3> SUFFICES ASSUME NEW i \in G, ~(i <= k) PROVE FALSE
      OBVIOUS
    <3>1. k < i
      BY <1>3
    <3> QED BY <1>5, <3>1
  <2>2. k <= k
    BY <1>3
  <2>3. G \cup {k} \in SUBSET U
    BY <2>1, <2>2
  <2>4. UpTo(T, k) = Cardinality(U) /\ U \in SUBSET T
    BY DEF UpTo
  <2> HIDE DEF U
  <2>5. IsFiniteSet(U) /\ Cardinality(U) \in Nat
    BY <1>1, <2>4, FS_Subset, FS_CardinalityType
  <2>6. Cardinality(G \cup {k}) <= Cardinality(U)
    BY <2>3, <2>5, FS_Subset
  <2>7. Cardinality(G \cup {k}) = Cardinality(G) + 1
    BY <1>1, <1>5, FS_AddElement
  <2> QED BY <1>2, <2>4, <2>5, <2>6, <2>7
<1> QED BY <1>2, <1>4, <1>5

-----------------------------------------------------------------------------
(* What a round of the loop of ParseChannelMode leaves.                    *)
Remaining(args) == IF args = <<>> THEN <<>> ELSE Group(args).rest

(* What a round leaves are arguments.                                      *)
LEMMA RemainingType ==
  ASSUME NEW args \in Seq(Text) PROVE Remaining(args) \in Seq(Text)
<1>1. CASE args = <<>>
  BY <1>1 DEF Remaining
<1>2. CASE args # <<>> /\ args[1] = <<>>
  <2>1. Group(args) = [changes |-> <<>>, rest |-> Tail(args)]
    BY <1>2 DEF Group
  <2>2. Tail(args) \in Seq(Text)
    BY <1>2, HeadTailProperties
  <2> DEFINE u == Tail(args)
  <2> HIDE DEF u
  <2>3. Group(args).rest = u
    BY <2>1 DEF u
  <2> QED BY <1>2, <2>2, <2>3 DEF Remaining, u
<1>3. CASE args # <<>> /\ args[1] # <<>>
  <2> DEFINE wanted == Cardinality(Wants(LettersOf(args[1])))
             skip == IF wanted <= Len(args) - 1 THEN wanted ELSE Len(args) - 1
  <2>1. Group(args).rest = SubSeq(args, 2 + skip, Len(args))
    BY <1>3, GroupIs
  <2>2. Len(args) \in Nat /\ Len(args) > 0
    BY <1>3
  <2>3. wanted \in Nat
    BY <1>3, WantsType
  <2>4. skip \in Nat
    BY <2>2, <2>3
  <2> HIDE DEF skip
  <2>5. \A i \in 2 + skip .. Len(args) : args[i] \in Text
    BY <2>2, <2>4
  <2> DEFINE a == 2 + skip
             b == Len(args)
  <2>6. a \in Int /\ b \in Int /\ \A i \in a .. b : args[i] \in Text
    BY <2>2, <2>4, <2>5
  <2> HIDE DEF a, b
  <2>7. SubSeq(args, a, b) \in Seq(Text)
    BY <2>6, SubSeqProperties
  <2> QED BY <1>3, <2>1, <2>7 DEF Remaining, a, b
<1> QED BY <1>1, <1>2, <1>3

(* The rounds of the loop.                                                 *)
LEMMA ChannelRounds ==
  ASSUME NEW args \in Seq(Text)
  PROVE  \E rest \in [0 .. Len(args) -> Seq(Text)] :
           /\ rest[0] = args
           /\ \A i \in 1 .. Len(args) : rest[i] = Remaining(rest[i - 1])
           /\ ChannelChanges(args) =
                Seqs!FlattenSeq(
                  [i \in 1 .. Cardinality({k \in 1 .. Len(args) : rest[k - 1] # <<>>}) |->
                     Group(rest[i - 1]).changes])
<1> DEFINE len == Len(args)
           D == Seq(Text)
           Rest(g) == g = [i \in 0 .. len |->
                             IF i = 0 THEN args
                             ELSE IF g[i - 1] = <<>> THEN <<>> ELSE Group(g[i - 1]).rest]
           rest == CHOOSE g : Rest(g)
<1>1. len \in Nat
  OBVIOUS
<1>2. ChannelChanges(args) =
        Seqs!FlattenSeq([i \in 1 .. Cardinality({k \in 1 .. len : rest[k - 1] # <<>>}) |->
                           Group(rest[i - 1]).changes])
  BY DEF ChannelChanges
<1> HIDE DEF len
<1>3. \E g : Rest(g)
  <2> DEFINE step == [p \in (1 .. len) \X D |-> Remaining(p[2])]
  <2>1. args \in D /\ \A s \in D : Remaining(s) \in D
    BY RemainingType
  <2> HIDE DEF D
  <2>2. Rounds(step, len, D)
    BY <2>1 DEF Rounds
  <2>3. \A i \in 1 .. len, s \in D : step[<<i, s>>] = Remaining(s)
    OBVIOUS
  <2> HIDE DEF step
  <2>4. PICK f \in [0 .. len -> D] :
          f[0] = args /\ \A i \in 1 .. len : f[i] = step[<<i, f[i - 1]>>]
    BY <1>1, <2>1, <2>2, IterationExists, SMTT(30)
  <2>5. \A i \in 1 .. len : i - 1 \in 0 .. len /\ f[i - 1] \in D
    BY <1>1, <2>4
  <2>6. \A i \in 0 .. len :
          f[i] = IF i = 0 THEN args
                 ELSE IF f[i - 1] = <<>> THEN <<>> ELSE Group(f[i - 1]).rest
    <3>1. \A i \in 1 .. len : f[i] = Remaining(f[i - 1])
      BY <2>3, <2>4, <2>5
    <3> QED BY <1>1, <2>4, <3>1 DEF Remaining
  <2>7. Rest(f)
    BY <2>4, <2>6
  <2> QED BY <2>7
<1>4. Rest(rest)
  <2> HIDE DEF Rest
  <2> QED BY <1>3
<1> HIDE DEF rest
<1>5. rest[0] = args /\ \A i \in 1 .. len : rest[i] = Remaining(rest[i - 1])
  BY <1>1, <1>4 DEF Remaining
<1>6. \A i \in 0 .. len : rest[i] \in D
  <2> DEFINE S == {k \in Nat : k <= len => rest[k] \in D}
  <2>1. 0 \in S
    BY <1>1, <1>5
  <2>2. ASSUME NEW k \in Nat, k \in S PROVE k + 1 \in S
    <3> SUFFICES ASSUME k + 1 <= len PROVE rest[k + 1] \in D
      OBVIOUS
    <3>1. k + 1 \in 1 .. len /\ (k + 1) - 1 = k /\ rest[k] \in D
      BY <1>1, <2>2
    <3>2. rest[k + 1] = Remaining(rest[k])
      BY <1>5, <3>1
    <3> QED BY <3>1, <3>2, RemainingType
  <2>3. Nat \subseteq S
    <3> HIDE DEF S
    <3> QED BY <2>1, <2>2, SetInduction
  <2> QED BY <1>1, <2>3
<1>7. rest \in [0 .. len -> D]
  <2> HIDE DEF D
  <2> QED BY <1>4, <1>6
<1> QED BY <1>2, <1>5, <1>7 DEF len

(* A single group.                                                         *)
LEMMA OneGroup ==
  ASSUME NEW args \in Seq(Text), args # <<>>, Group(args).rest = <<>>,
         NEW T, Group(args).changes \in Seq(T)
  PROVE  ChannelChanges(args) = Group(args).changes
<1> DEFINE len == Len(args)
           changes == Group(args).changes
<1>1. len \in Nat /\ len > 0 /\ Remaining(args) = <<>> /\ Remaining(<<>>) = <<>>
  BY DEF Remaining
<1>2. PICK rest \in [0 .. len -> Seq(Text)] :
        /\ rest[0] = args
        /\ \A i \in 1 .. len : rest[i] = Remaining(rest[i - 1])
        /\ ChannelChanges(args) =
             Seqs!FlattenSeq(
               [i \in 1 .. Cardinality({k \in 1 .. len : rest[k - 1] # <<>>}) |->
                  Group(rest[i - 1]).changes])
  BY ChannelRounds
<1> HIDE DEF len
<1>3. \A i \in 1 .. len : rest[i] = <<>>
  <2> DEFINE S == {i \in Nat : i + 1 <= len => rest[i + 1] = <<>>}
  <2>1. 0 \in S
    <3>1. 1 \in 1 .. len /\ 1 - 1 = 0
      BY <1>1
    <3>2. rest[1] = <<>>
      BY <1>1, <1>2, <3>1
    <3> QED BY <3>2
  <2>2. ASSUME NEW i \in Nat, i \in S PROVE i + 1 \in S
    <3> SUFFICES ASSUME (i + 1) + 1 <= len PROVE rest[(i + 1) + 1] = <<>>
      OBVIOUS
    <3> DEFINE j == (i + 1) + 1
    <3>1. j \in 1 .. len /\ j - 1 = i + 1 /\ rest[i + 1] = <<>>
      BY <1>1, <2>2
    <3> HIDE DEF j
    <3>2. rest[j] = Remaining(rest[i + 1])
      BY <1>2, <3>1
    <3> QED BY <1>1, <3>1, <3>2 DEF j
  <2>3. Nat \subseteq S
    <3> HIDE DEF S
    <3> QED BY <2>1, <2>2, SetInduction
  <2>4. ASSUME NEW i \in 1 .. len PROVE rest[i] = <<>>
    <3>1. i - 1 \in Nat /\ (i - 1) + 1 = i /\ i <= len
      BY <1>1
    <3>2. i - 1 \in S
      <4> HIDE DEF S
      <4> QED BY <2>3, <3>1
    <3> QED BY <3>1, <3>2
  <2> QED BY <2>4
<1> DEFINE rounds == {k \in 1 .. len : rest[k - 1] # <<>>}
<1>4. rounds = {1}
  <2>1. ASSUME NEW k \in 1 .. len PROVE rest[k - 1] # <<>> <=> k = 1
    <3>1. k = 1 \/ k - 1 \in 1 .. len
      BY <1>1
    <3>2. rest[1 - 1] # <<>>
      BY <1>2
    <3>3. k # 1 => k - 1 \in 1 .. len
      BY <3>1
    <3> QED BY <1>3, <3>2, <3>3
  <2>2. 1 \in 1 .. len
    BY <1>1
  <2>3. \A k : k \in rounds <=> k \in {1}
    BY <2>1, <2>2
  <2> QED BY <2>3
<1>5. Cardinality(rounds) = 1
  BY <1>4, FS_Singleton
<1> HIDE DEF rounds
<1> DEFINE made(i) == Group(rest[i - 1]).changes
<1>6. \A i \in 1 .. 1 : made(i) = changes
  <2> SUFFICES ASSUME NEW i \in 1 .. 1 PROVE made(i) = changes
    OBVIOUS
  <2>1. i - 1 = 0
    OBVIOUS
  <2> QED BY <1>2, <2>1
<1>7. ChannelChanges(args) = Seqs!FlattenSeq([i \in 1 .. Cardinality(rounds) |-> made(i)])
  BY <1>2 DEF rounds
<1> HIDE DEF made, changes
<1>8. [i \in 1 .. 1 |-> made(i)] = [i \in 1 .. 1 |-> changes]
  BY <1>6
<1>9. changes \in Seq(T)
  BY DEF changes
<1>10. Seqs!FlattenSeq([i \in 1 .. 1 |-> changes]) = changes
  BY <1>9, FlattenOne
<1> QED BY <1>5, <1>7, <1>8, <1>10 DEF changes

(* What the members of a channel are told is what was done.                *)
LEMMA ChannelToldBack ==
  ASSUME "MODE" \in Token, NEW target \in Text, IsWord(target), IsChannel(NewName(target)),
         NEW changes \in Seq(ChannelChange), changes # <<>>, OneSign(changes), Ordered(changes),
         \A k \in 1 .. Len(changes) : changes[k].arg = <<>> \/ IsWord(changes[k].arg)
  PROVE  ParseMode(ParseLine(Told(target, ChannelModeString(changes))).args).changes = changes
<1> DEFINE n == Len(changes)
           s == Signed(changes)
           args == ParseLine(Told(target, ChannelModeString(changes))).args
           given == Given(changes)
           takers == Takers(changes)
           size == Cardinality(given)
<1>1. n \in Nat /\ n > 0 /\ \A k \in 1 .. n : changes[k] \in ChannelChange
  OBVIOUS
<1>2. /\ args \in Seq(Text) /\ Len(args) = 2 + size
      /\ args[1] = target /\ args[2] = s
      /\ \A k \in given : args[2 + UpTo(given, k)] = changes[k].arg
  BY ChannelTold
<1>3. /\ s \in Text /\ s # <<>> /\ s[1] = changes[1].op
      /\ Tail(s) = Letters(changes) /\ Len(Letters(changes)) = n
      /\ \A k \in 1 .. n : Letters(changes)[k] = changes[k].mode
  <2>1. (\A k \in 1 .. n : changes[k].mode \in Token) /\ changes[1].op \in Token
    <3>1. changes[1].op \in Token \cup {ListOp}
      BY <1>1 DEF ChannelChange
    <3>2. changes[1].op \in Token
      BY <3>1 DEF OneSign, AddOp, RemoveOp, ListOp
    <3> QED BY <1>1, <3>2 DEF ChannelChange
  <2>2. /\ s \in Text /\ s[1] = changes[1].op /\ Len(s) = n + 1
        /\ Tail(s) = Letters(changes) /\ Len(Letters(changes)) = n
        /\ \A k \in 1 .. n : Letters(changes)[k] = changes[k].mode
    BY <1>1, <2>1, SignedIs
  <2>3. s # <<>>
    BY <1>1, <2>2
  <2> QED BY <2>2, <2>3
<1>4. LettersOf(s) = Letters(changes) /\ SignOf(s) = changes[1].op
  BY <1>3 DEF LettersOf, SignOf, OneSign
<1>5. /\ given \in SUBSET takers /\ takers \in SUBSET (1 .. n)
      /\ \A i \in takers, k \in given : i < k => i \in given
  BY DEF Ordered, Takers
<1>6. Wants(Letters(changes)) = takers
  <2>1. \A k : k \in Wants(Letters(changes)) <=> k \in takers
    BY <1>3 DEF Wants, Takers
  <2> QED BY <2>1
<1>7. \A k \in 1 .. n : k \in given <=> changes[k].arg # <<>>
  BY DEF Given
<1> HIDE DEF n, s, args, given, takers
<1>8. /\ size \in Nat /\ Cardinality(takers) \in Nat /\ size <= Cardinality(takers)
      /\ \A k \in given : UpTo(takers, k) = UpTo(given, k) /\ UpTo(given, k) \in 1 .. size
      /\ \A k \in takers : k \notin given => UpTo(takers, k) \in Nat /\ UpTo(takers, k) > size
  BY <1>1, <1>5, FirstOnes
<1> HIDE DEF size
<1> DEFINE b == Tail(args)
           params == Tail(b)
           made == Group(b).changes
<1>9. args # <<>>
  BY <1>2, <1>8
<1>10. b \in Seq(Text) /\ Len(b) = size + 1 /\ \A i \in 1 .. size + 1 : b[i] = args[i + 1]
  <2>1. b \in Seq(Text) /\ Len(b) = Len(args) - 1 /\ \A i \in 1 .. Len(b) : b[i] = args[i + 1]
    BY <1>2, <1>9, HeadTailProperties
  <2> HIDE DEF b
  <2> QED BY <1>2, <1>8, <2>1
<1>11. b # <<>> /\ b[1] = s
  <2>1. 1 \in 1 .. size + 1 /\ 1 + 1 = 2
    BY <1>8
  <2> HIDE DEF b
  <2> QED BY <1>2, <1>10, <2>1
<1>12. params \in Seq(Text) /\ Len(params) = size /\ \A i \in 1 .. size : params[i] = args[2 + i]
  <2> HIDE DEF b
  <2>1. /\ params \in Seq(Text) /\ Len(params) = Len(b) - 1
        /\ \A i \in 1 .. Len(params) : params[i] = b[i + 1]
    BY <1>10, <1>11, HeadTailProperties
  <2> HIDE DEF params
  <2>2. Len(params) = size
    BY <1>8, <1>10, <2>1
  <2>3. ASSUME NEW i \in 1 .. size PROVE params[i] = args[2 + i]
    <3>1. i + 1 \in 1 .. size + 1 /\ (i + 1) + 1 = 2 + i
      BY <1>8
    <3> QED BY <1>10, <2>1, <2>2, <3>1
  <2> QED BY <2>1, <2>2, <2>3
<1> HIDE DEF b
<1>13. /\ made \in Seq(ChannelChange) /\ Len(made) = n
       /\ \A k \in 1 .. n :
            /\ made[k].mode = changes[k].mode /\ made[k].op = changes[1].op
            /\ made[k].arg = IF k \in takers THEN Arg(params, UpTo(takers, k)) ELSE <<>>
  <2> DEFINE letters == LettersOf(b[1])
             wants == Wants(letters)
  <2>1. b[1] # <<>>
    BY <1>3, <1>11
  <2>2. /\ made \in Seq(ChannelChange) /\ Len(made) = Len(letters)
        /\ \A k \in 1 .. Len(letters) :
             /\ made[k].mode = letters[k] /\ made[k].op = SignOf(b[1])
             /\ made[k].arg = IF k \in wants THEN Arg(params, UpTo(wants, k)) ELSE <<>>
    BY <1>10, <1>11, <2>1, GroupIs
  <2>3. letters = Letters(changes) /\ SignOf(b[1]) = changes[1].op
    BY <1>4, <1>11
  <2>4. wants = takers
    BY <1>6, <2>3
  <2> HIDE DEF letters, wants, made, params
  <2> QED BY <1>3, <2>2, <2>3, <2>4
<1>14. Group(b).rest = <<>>
  <2> DEFINE wanted == Cardinality(Wants(LettersOf(b[1])))
  <2>1. b[1] # <<>>
    BY <1>3, <1>11
  <2>2. Group(b).rest =
          SubSeq(b, 2 + (IF wanted <= Len(b) - 1 THEN wanted ELSE Len(b) - 1), Len(b))
    BY <1>10, <1>11, <2>1, GroupIs
  <2>3. wanted = Cardinality(takers)
    BY <1>4, <1>6, <1>11
  <2> HIDE DEF wanted
  <2>4. (IF wanted <= Len(b) - 1 THEN wanted ELSE Len(b) - 1) = size
    BY <1>8, <1>10, <2>3
  <2>5. Group(b).rest = SubSeq(b, 2 + size, size + 1)
    BY <1>10, <2>2, <2>4
  <2>6. 2 + size \in Int /\ size + 1 \in Int /\ size + 1 < 2 + size
    BY <1>8
  <2> QED BY <2>5, <2>6, SubSeqEmpty
<1> HIDE DEF made, params
<1>15. ASSUME NEW k \in 1 .. n PROVE made[k].arg = changes[k].arg
  <2>1. CASE k \in given
    <3>1. k \in takers /\ UpTo(takers, k) = UpTo(given, k) /\ UpTo(given, k) \in 1 .. size
      BY <1>5, <1>8, <2>1
    <3>2. Arg(params, UpTo(given, k)) = args[2 + UpTo(given, k)]
      BY <1>8, <1>12, <3>1 DEF Arg
    <3> QED BY <1>2, <1>13, <2>1, <3>1, <3>2
  <2>2. CASE k \in takers /\ k \notin given
    <3>1. Arg(params, UpTo(takers, k)) = <<>>
      BY <1>8, <1>12, <2>2 DEF Arg
    <3> QED BY <1>7, <1>13, <2>2, <3>1
  <2>3. CASE k \notin takers
    <3>1. k \notin given
      BY <1>5, <2>3
    <3> QED BY <1>7, <1>13, <2>3, <3>1
  <2> QED BY <2>1, <2>2, <2>3
<1>16. made = changes
  <2>1. ASSUME NEW k \in 1 .. n PROVE made[k] = changes[k]
    <3>1. changes[k] \in ChannelChange /\ made[k] \in ChannelChange /\ changes[k].op = changes[1].op
      BY <1>1, <1>13 DEF n, OneSign
    <3>2. made[k].mode = changes[k].mode /\ made[k].op = changes[k].op /\ made[k].arg = changes[k].arg
      BY <1>13, <1>15, <3>1
    <3> QED BY <3>1, <3>2 DEF ChannelChange
  <2> QED BY <1>13, <2>1, SeqEqual DEF n
<1>17. ChannelChanges(b) = changes
  <2>1. Group(b).changes \in Seq(ChannelChange)
    BY <1>13 DEF made
  <2>2. ChannelChanges(b) = Group(b).changes
    BY <1>10, <1>11, <1>14, <2>1, OneGroup
  <2> QED BY <1>16, <2>2 DEF made
<1>18. ParseMode(args) = ParseChannelMode(NewName(target), b)
  <2>1. ~(Len(args) < 1)
    BY <1>2, <1>8
  <2> QED BY <1>2, <2>1 DEF ParseMode, Needs, b
<1> QED BY <1>17, <1>18 DEF ParseChannelMode, args

(* All arguments of a line but the last are words.                         *)
LEMMA LineWords ==
  ASSUME NEW text \in Text
  PROVE  LET args == ParseLine(text).args
         IN \A i \in 1 .. Len(args) : i < Len(args) => IsWord(args[i])
<1> DEFINE args == ParseLine(text).args
           last == Len(text) + 1
           B(p) == Before(text, p)
<1>1. /\ Len(text) \in Nat
      /\ \A p \in Starts(text) : p \in 1 .. last /\ p \in 1 .. Len(text) /\ text[p] # Blank
  BY StartsType
<1>2. \A p \in 1 .. last : B(p) \in Nat
  BY BeforeType
<1>3. PICK first \in Starts(text) \cup {last} : args = ParseArgs(Suffix(text, first))
  BY ArgsOfLine
<1> DEFINE read == ReadFrom(text, first)
           place(p) == B(p) - B(first) + 1
<1>4. /\ \A p \in read : args[place(p)] = Word(text, p)
      /\ \A k \in 1 .. Len(args) : \E p \in read : place(p) = k
  <2>1. LET all == ParseArgs(Suffix(text, first))
        IN /\ \A p \in read : all[place(p)] = Word(text, p)
           /\ \A k \in 1 .. Len(all) : \E p \in read : place(p) = k
    BY <1>3, ArgsFrom
  <2> HIDE DEF args
  <2> QED BY <1>3, <2>1
<1>5. \A p \in read : p \in Starts(text) /\ \A q \in read : text[q] = Colon => p <= q
  BY DEF ReadFrom
<1>6. B(first) \in Nat /\ args \in Seq(Text)
  BY <1>1, <1>2, LineType
<1> HIDE DEF read, args
<1>7. SUFFICES ASSUME NEW k \in 1 .. Len(args), k < Len(args) PROVE IsWord(args[k])
  BY DEF args
<1>8. PICK p \in read : place(p) = k
  BY <1>4
<1>9. Len(args) \in Nat /\ Len(args) \in 1 .. Len(args)
  BY <1>6
<1>10. PICK q \in read : place(q) = Len(args)
  BY <1>4, <1>9
<1>11. /\ p \in Starts(text) /\ p \in 1 .. last /\ p \in 1 .. Len(text) /\ text[p] # Blank
       /\ q \in 1 .. last /\ B(p) \in Nat /\ B(q) \in Nat
  BY <1>1, <1>2, <1>5
<1>12. text[p] # Colon
  <2> SUFFICES ASSUME text[p] = Colon PROVE FALSE
    OBVIOUS
  <2>1. q <= p
    BY <1>5
  <2>2. B(q) <= B(p)
    BY <1>11, <2>1, BeforeGrows
  <2> QED BY <1>6, <1>7, <1>8, <1>9, <1>10, <1>11, <2>2
<1>13. args[k] = SubSeq(text, p, NextSpace(text, p) - 1)
  BY <1>4, <1>8, <1>12 DEF Word
<1>14. NextSpace(text, p) \in p + 1 .. last
  <2>1. /\ NextSpace(text, p) \in p .. last
        /\ NextSpace(text, p) = last \/ text[NextSpace(text, p)] = Blank
    BY <1>11, NextSpaceIs
  <2>2. NextSpace(text, p) # p
    BY <1>1, <1>11, <2>1
  <2> QED BY <1>1, <1>11, <2>1, <2>2
<1> DEFINE end == NextSpace(text, p) - 1
           part == SubSeq(text, p, end)
<1>15. \A i \in p .. end : i \in 1 .. Len(text) /\ text[i] # Blank
  <2> SUFFICES ASSUME NEW i \in p .. end PROVE i \in 1 .. Len(text) /\ text[i] # Blank
    OBVIOUS
  <2>1. i \in p .. Len(text) /\ i \in 1 .. Len(text) /\ ~(NextSpace(text, p) <= i)
    BY <1>1, <1>11, <1>14
  <2>2. text[i] = Blank => NextSpace(text, p) <= i
    BY <1>11, <2>1, NextSpaceIs
  <2> QED BY <2>1, <2>2
<1>16. p \in Int /\ end \in Int /\ p <= end
  BY <1>1, <1>11, <1>14
<1> HIDE DEF end
<1>17. \A i \in p .. end : text[i] \in Token
  BY <1>15 DEF Text
<1>18. /\ part \in Seq(Token) /\ Len(part) = (end - p) + 1
       /\ \A i \in 1 .. (end - p) + 1 : part[i] = text[(p + i) - 1]
  BY <1>16, <1>17, SubSeqProperties
<1> HIDE DEF part
<1>19. part # <<>> /\ 1 \in 1 .. Len(part) /\ Len(part) \in Nat
  BY <1>16, <1>18
<1>20. part[1] = text[p]
  BY <1>16, <1>18, <1>19
<1>21. \A i \in 1 .. Len(part) : part[i] # Blank
  <2> SUFFICES ASSUME NEW i \in 1 .. Len(part) PROVE part[i] # Blank
    OBVIOUS
  <2>1. (p + i) - 1 \in p .. end /\ part[i] = text[(p + i) - 1]
    BY <1>16, <1>18
  <2> QED BY <1>15, <2>1
<1>22. IsWord(part)
  BY <1>12, <1>19, <1>20, <1>21 DEF IsWord
<1> QED BY <1>13, <1>22 DEF part, end

(* Only the last of the arguments of a line may be empty.                  *)
Filled(args) == \A i \in 1 .. Len(args) : i < Len(args) => args[i] # <<>>

LEMMA LineFilled ==
  ASSUME NEW text \in Text PROVE Filled(ParseLine(text).args)
BY LineWords DEF Filled, IsWord

-----------------------------------------------------------------------------
(* The changes of a group; where another group follows, none of its        *)
(* arguments are missing.                                                  *)
LEMMA GroupOrdered ==
  ASSUME NEW args \in Seq(Text), args # <<>>, Filled(args)
  PROVE  LET changes == Group(args).changes
             rest == Group(args).rest
         IN /\ changes \in Seq(ChannelChange) /\ Ordered(changes) /\ Filled(rest)
            /\ rest # <<>> => Takers(changes) \subseteq Given(changes)
<1> DEFINE changes == Group(args).changes
           rest == Group(args).rest
           len == Len(args)
           params == Tail(args)
<1>1. len \in Nat /\ len > 0
  OBVIOUS
<1>2. params \in Seq(Text) /\ Len(params) = len - 1 /\ \A i \in 1 .. len - 1 : params[i] = args[i + 1]
  <2>1. /\ params \in Seq(Text) /\ Len(params) = len - 1
        /\ \A i \in 1 .. Len(params) : params[i] = args[i + 1]
    BY HeadTailProperties
  <2> HIDE DEF params, len
  <2> QED BY <2>1
<1>3. \A i \in 1 .. len : i < len => args[i] # <<>>
  BY DEF Filled
<1> HIDE DEF params
<1>4. CASE args[1] = <<>>
  <2>1. Group(args) = [changes |-> <<>>, rest |-> params]
    BY <1>4 DEF Group, params
  <2>2. changes = <<>> /\ rest = params
    <3>1. \A x, y : [changes |-> x, rest |-> y].changes = x /\ [changes |-> x, rest |-> y].rest = y
      OBVIOUS
    <3> QED BY <2>1, <3>1
  <2>3. len = 1
    <3> HIDE DEF len
    <3>1. 1 \in 1 .. len
      BY <1>1
    <3>2. ~(1 < len)
      BY <1>3, <1>4, <3>1
    <3> QED BY <1>1, <3>2
  <2> HIDE DEF changes, rest, len
  <2>4. rest = <<>>
    BY <1>2, <2>2, <2>3
  <2>5. Len(changes) = 0 /\ Len(rest) = 0 /\ 1 .. 0 = {}
    BY <2>2, <2>4
  <2>6. Ordered(changes) /\ Filled(rest)
    BY <2>5 DEF Ordered, Takers, Given, Filled
  <2>7. changes \in Seq(ChannelChange)
    BY <2>2
  <2> QED BY <2>4, <2>6, <2>7 DEF changes, rest
<1>5. CASE args[1] # <<>>
  <2> DEFINE letters == LettersOf(args[1])
             n == Len(letters)
             wants == Wants(letters)
             wanted == Cardinality(wants)
             skip == IF wanted <= len - 1 THEN wanted ELSE len - 1
  <2>1. /\ changes \in Seq(ChannelChange) /\ Len(changes) = n /\ Takers(changes) = wants
        /\ \A k \in 1 .. n :
             changes[k].arg = IF k \in wants THEN Arg(params, UpTo(wants, k)) ELSE <<>>
        /\ rest = SubSeq(args, 2 + skip, len)
    BY <1>5, GroupIs DEF params
  <2>2. n \in Nat /\ wants \in SUBSET (1 .. n) /\ wanted \in Nat
    <3>1. args[1] \in Text
      BY <1>1
    <3> QED BY <1>5, <3>1, WantsType
  <2> HIDE DEF letters, n, wants, changes, rest, wanted, len
  <2>3. /\ UpTo(wants, n) = wanted
        /\ \A k \in 0 .. n : UpTo(wants, k) \in Nat
        /\ \A k \in 1 .. n :
             UpTo(wants, k) = IF k \in wants THEN UpTo(wants, k - 1) + 1 ELSE UpTo(wants, k - 1)
        /\ \A j, k \in 0 .. n : j <= k => UpTo(wants, j) <= UpTo(wants, k)
    BY <2>2, UpToCounts DEF wanted
  <2>4. \A k \in wants : k \in 1 .. n /\ k \in 0 .. n /\ k - 1 \in 0 .. n /\ k \in Nat /\ k <= n
    BY <2>2
  <2>5. \A k : k \in Given(changes) <=> k \in wants /\ Arg(params, UpTo(wants, k)) # <<>>
    <3>1. \A k : k \in Given(changes) <=> k \in 1 .. n /\ changes[k].arg # <<>>
      BY <2>1 DEF Given
    <3>2. \A k \in 1 .. n : changes[k].arg # <<>> <=> k \in wants /\ Arg(params, UpTo(wants, k)) # <<>>
      BY <2>1
    <3> QED BY <2>4, <3>1, <3>2
  <2>6. ASSUME NEW k \in wants, UpTo(wants, k) < len - 1 PROVE k \in Given(changes)
    <3> DEFINE u == UpTo(wants, k)
    <3>1. u = UpTo(wants, k - 1) + 1 /\ UpTo(wants, k - 1) \in Nat /\ u \in Nat
      BY <2>3, <2>4
    <3> HIDE DEF u
    <3>2. u \in 1 .. len - 1 /\ u + 1 \in 1 .. len /\ u + 1 < len
      BY <1>1, <2>6, <3>1 DEF u
    <3>3. Arg(params, u) = args[u + 1]
      BY <1>2, <3>2 DEF Arg
    <3>4. Arg(params, u) # <<>>
      BY <1>3, <3>2, <3>3
    <3> QED BY <2>5, <3>4 DEF u
  <2>7. ASSUME NEW i \in wants, NEW k \in Given(changes), i < k PROVE i \in Given(changes)
    <3>1. k \in wants /\ Arg(params, UpTo(wants, k)) # <<>>
      BY <2>5
    <3>2. UpTo(wants, k) = UpTo(wants, k - 1) + 1 /\ UpTo(wants, k - 1) \in Nat /\ UpTo(wants, i) \in Nat
      BY <2>3, <2>4, <3>1
    <3>3. UpTo(wants, i) <= UpTo(wants, k - 1)
      <4>1. i <= k - 1 /\ i \in 0 .. n /\ k - 1 \in 0 .. n
        BY <2>4, <2>7, <3>1
      <4> QED BY <2>3, <4>1
    <3>4. UpTo(wants, k) <= len - 1
      BY <1>2, <3>1 DEF Arg
    <3>5. UpTo(wants, i) < len - 1
      BY <1>1, <3>2, <3>3, <3>4
    <3> QED BY <2>6, <3>5
  <2>8. Ordered(changes)
    <3>1. Given(changes) \subseteq Takers(changes)
      BY <2>1, <2>5
    <3> QED BY <2>1, <2>7, <3>1 DEF Ordered
  <2>9. skip \in Nat /\ skip <= len - 1
    BY <1>1, <2>2
  <2>10. rest # <<>> => 2 + skip <= len
    <3> SUFFICES ASSUME ~(2 + skip <= len) PROVE rest = <<>>
      OBVIOUS
    <3> DEFINE a == 2 + skip
    <3>1. a \in Int /\ len \in Int /\ len < a
      BY <1>1, <2>9
    <3>2. rest = SubSeq(args, a, len)
      BY <2>1
    <3> HIDE DEF a
    <3> QED BY <3>1, <3>2, SubSeqEmpty
  <2>11. ASSUME rest # <<>> PROVE Takers(changes) \subseteq Given(changes)
    <3>1. wanted <= len - 2
      BY <1>1, <2>2, <2>10, <2>11
    <3>2. ASSUME NEW k \in wants PROVE k \in Given(changes)
      <4>1. k \in 0 .. n /\ n \in 0 .. n /\ k <= n
        BY <2>2, <2>4
      <4>2. UpTo(wants, k) <= UpTo(wants, n) /\ UpTo(wants, k) \in Nat
        BY <2>3, <4>1
      <4>3. UpTo(wants, k) < len - 1
        BY <1>1, <2>2, <2>3, <3>1, <4>2
      <4> QED BY <2>6, <4>3
    <3> QED BY <2>1, <3>2
  <2> HIDE DEF skip
  <2>12. Filled(rest)
    <3>1. CASE rest = <<>>
      <4>1. Len(rest) = 0 /\ 1 .. 0 = {}
        BY <3>1
      <4> QED BY <4>1 DEF Filled
    <3>2. CASE rest # <<>>
      <4> DEFINE a == 2 + skip
      <4>1. a \in Int /\ len \in Int /\ a <= len /\ \A i \in a .. len : args[i] \in Text
        <5>1. \A i \in 1 .. len : args[i] \in Text
          BY DEF len
        <5> QED BY <1>1, <2>9, <2>10, <3>2, <5>1
      <4>2. rest = SubSeq(args, a, len)
        BY <2>1
      <4> HIDE DEF a
      <4>3. /\ Len(rest) = len - a + 1
            /\ \A i \in 1 .. len - a + 1 : rest[i] = args[a + i - 1]
        <5>1. /\ Len(SubSeq(args, a, len)) = IF a <= len THEN len - a + 1 ELSE 0
              /\ \A i \in 1 .. len - a + 1 : SubSeq(args, a, len)[i] = args[a + i - 1]
          BY <4>1, SubSeqProperties
        <5> QED BY <4>1, <4>2, <5>1
      <4>4. ASSUME NEW i \in 1 .. Len(rest), i < Len(rest) PROVE rest[i] # <<>>
        <5>1. i \in 1 .. len - a + 1 /\ a + i - 1 \in 1 .. len /\ a + i - 1 < len
          BY <1>1, <2>9, <4>1, <4>3, <4>4 DEF a
        <5> QED BY <1>3, <4>3, <5>1
      <4> QED BY <4>4 DEF Filled
    <3> QED BY <3>1, <3>2
  <2> QED BY <2>1, <2>8, <2>11, <2>12 DEF changes, rest
<1> QED BY <1>4, <1>5

(* Changes of a group with all its arguments, and those after them.        *)
LEMMA ConcatOrdered ==
  ASSUME NEW s \in Seq(ChannelChange), NEW t \in Seq(ChannelChange),
         Ordered(s), Ordered(t), Takers(s) \subseteq Given(s)
  PROVE  /\ Ordered(s \o t)
         /\ Takers(t) \subseteq Given(t) => Takers(s \o t) \subseteq Given(s \o t)
<1> DEFINE r == s \o t
           m == Len(s)
           n == Len(t)
<1>1. m \in Nat /\ n \in Nat
  OBVIOUS
<1>2. /\ r \in Seq(ChannelChange) /\ Len(r) = m + n
      /\ \A k \in 1 .. m + n : r[k] = IF k <= m THEN s[k] ELSE t[k - m]
  BY ConcatProperties
<1> HIDE DEF r, m, n
<1>3. ASSUME NEW k PROVE k \in Takers(r) <=>
        k \in 1 .. m + n /\ IF k <= m THEN k \in Takers(s) ELSE k - m \in Takers(t)
  <2>1. k \in Takers(r) <=> k \in 1 .. m + n /\ r[k].mode \in TakesArg
    BY <1>2 DEF Takers
  <2>2. ASSUME k \in 1 .. m + n PROVE k <= m => k \in 1 .. m
    BY <1>1, <2>2
  <2>3. ASSUME k \in 1 .. m + n PROVE ~(k <= m) => k - m \in 1 .. n
    BY <1>1, <2>3
  <2>4. k \in 1 .. m => (k \in Takers(s) <=> s[k].mode \in TakesArg)
    BY DEF Takers, m
  <2>5. k - m \in 1 .. n => (k - m \in Takers(t) <=> t[k - m].mode \in TakesArg)
    BY DEF Takers, n
  <2> QED BY <1>2, <2>1, <2>2, <2>3, <2>4, <2>5
<1>4. ASSUME NEW k PROVE k \in Given(r) <=>
        k \in 1 .. m + n /\ IF k <= m THEN k \in Given(s) ELSE k - m \in Given(t)
  <2>1. k \in Given(r) <=> k \in 1 .. m + n /\ r[k].arg # <<>>
    BY <1>2 DEF Given
  <2>2. ASSUME k \in 1 .. m + n PROVE k <= m => k \in 1 .. m
    BY <1>1, <2>2
  <2>3. ASSUME k \in 1 .. m + n PROVE ~(k <= m) => k - m \in 1 .. n
    BY <1>1, <2>3
  <2>4. k \in 1 .. m => (k \in Given(s) <=> s[k].arg # <<>>)
    BY DEF Given, m
  <2>5. k - m \in 1 .. n => (k - m \in Given(t) <=> t[k - m].arg # <<>>)
    BY DEF Given, n
  <2> QED BY <1>2, <2>1, <2>2, <2>3, <2>4, <2>5
<1>5. Given(s) \subseteq Takers(s) /\ Given(t) \subseteq Takers(t)
      /\ \A i \in Takers(t), k \in Given(t) : i < k => i \in Given(t)
  BY DEF Ordered
<1>6. Given(r) \subseteq Takers(r)
  BY <1>3, <1>4, <1>5
<1>7. ASSUME NEW i \in Takers(r), NEW k \in Given(r), i < k PROVE i \in Given(r)
  <2>1. i \in 1 .. m + n /\ k \in 1 .. m + n
    BY <1>3, <1>4
  <2>2. CASE i <= m
    BY <1>3, <1>4, <2>1, <2>2
  <2>3. CASE ~(i <= m)
    <3>1. ~(k <= m) /\ i - m < k - m
      BY <1>1, <1>7, <2>1, <2>3
    <3>2. i - m \in Takers(t) /\ k - m \in Given(t)
      BY <1>3, <1>4, <2>3, <3>1
    <3>3. i - m \in Given(t)
      BY <1>5, <3>1, <3>2
    <3> QED BY <1>4, <2>1, <2>3, <3>3
  <2> QED BY <2>2, <2>3
<1>8. ASSUME Takers(t) \subseteq Given(t), NEW k \in Takers(r) PROVE k \in Given(r)
  BY <1>3, <1>4, <1>8
<1> QED BY <1>6, <1>7, <1>8 DEF Ordered, r

(* The changes that ParseChannelMode makes of the arguments of a line.     *)
LEMMA ChannelChangesOrdered ==
  ASSUME NEW args \in Seq(Text), Filled(args)
  PROVE  ChannelChanges(args) \in Seq(ChannelChange) /\ Ordered(ChannelChanges(args))
<1> DEFINE len == Len(args)
<1>1. len \in Nat
  OBVIOUS
<1>2. PICK rest \in [0 .. len -> Seq(Text)] :
        /\ rest[0] = args
        /\ \A i \in 1 .. len : rest[i] = Remaining(rest[i - 1])
        /\ ChannelChanges(args) =
             Seqs!FlattenSeq(
               [i \in 1 .. Cardinality({k \in 1 .. len : rest[k - 1] # <<>>}) |->
                  Group(rest[i - 1]).changes])
  BY ChannelRounds
<1> HIDE DEF len
<1> DEFINE rounds == {k \in 1 .. len : rest[k - 1] # <<>>}
           n == Cardinality(rounds)
           made(i) == Group(rest[i - 1]).changes
           pieces == [i \in 1 .. n |-> made(i)]
<1>3. rounds = 1 .. n
  <2>1. ASSUME NEW k \in rounds, k > 1 PROVE k - 1 \in rounds
    <3>1. k \in 1 .. len /\ k - 1 \in 1 .. len /\ rest[k - 1] # <<>>
      BY <1>1, <2>1
    <3>2. rest[k - 1] = Remaining(rest[(k - 1) - 1])
      BY <1>2, <3>1
    <3>3. rest[(k - 1) - 1] # <<>>
      BY <3>1, <3>2 DEF Remaining
    <3> QED BY <3>1, <3>3
  <2>2. rounds \in SUBSET (1 .. len)
    OBVIOUS
  <2> HIDE DEF rounds
  <2> QED BY <1>1, <2>1, <2>2, NoGap
<1>4. n \in Nat
  <2>1. IsFiniteSet(1 .. len) /\ rounds \in SUBSET (1 .. len)
    BY <1>1, FS_Interval
  <2> HIDE DEF rounds
  <2> QED BY <2>1, FS_Subset, FS_CardinalityType
<1>5. \A i \in 1 .. n : i \in 1 .. len /\ rest[i - 1] # <<>> /\ i - 1 \in 0 .. len
  <2>1. \A i \in rounds : i \in 1 .. len /\ rest[i - 1] # <<>>
    OBVIOUS
  <2> HIDE DEF rounds, n
  <2> QED BY <1>1, <1>3, <2>1
<1>6. ChannelChanges(args) = Seqs!FlattenSeq(pieces)
  BY <1>2
<1> HIDE DEF rounds, n, made
<1>7. \A i \in 1 .. n :
        /\ rest[i - 1] \in Seq(Text) /\ rest[i - 1] # <<>>
        /\ rest[i] = Group(rest[i - 1]).rest
  <2> SUFFICES ASSUME NEW i \in 1 .. n
               PROVE  /\ rest[i - 1] \in Seq(Text) /\ rest[i - 1] # <<>>
                      /\ rest[i] = Group(rest[i - 1]).rest
    OBVIOUS
  <2>1. i \in 1 .. len /\ rest[i - 1] # <<>> /\ i - 1 \in 0 .. len
    BY <1>5
  <2>2. rest[i] = Remaining(rest[i - 1])
    BY <1>2, <2>1
  <2> QED BY <1>2, <2>1, <2>2 DEF Remaining
<1> DEFINE Good(i) == Filled(rest[i])
           F == {i \in Nat : i <= n => Good(i)}
<1>8. \A i \in 0 .. n : Good(i)
  <2>1. 0 \in F
    BY <1>2
  <2>2. ASSUME NEW i \in Nat, i \in F PROVE i + 1 \in F
    <3> HIDE DEF Good
    <3> SUFFICES ASSUME i + 1 <= n PROVE Good(i + 1)
      OBVIOUS
    <3> DEFINE j == i + 1
    <3>1. j \in 1 .. n /\ j - 1 = i /\ Good(i)
      BY <1>4, <2>2
    <3> HIDE DEF j
    <3>2. rest[i] \in Seq(Text) /\ rest[i] # <<>> /\ rest[j] = Group(rest[i]).rest
      BY <1>7, <3>1
    <3>3. Filled(Group(rest[i]).rest)
      BY <3>1, <3>2, GroupOrdered DEF Good
    <3> QED BY <3>2, <3>3 DEF j, Good
  <2>3. Nat \subseteq F
    <3> HIDE DEF F
    <3> QED BY <2>1, <2>2, SetInduction
  <2>4. ASSUME NEW i \in 0 .. n PROVE Good(i)
    <3>1. i \in Nat /\ i <= n
      BY <1>4
    <3>2. i \in F
      <4> HIDE DEF F
      <4> QED BY <2>3, <3>1
    <3> HIDE DEF Good
    <3> QED BY <3>1, <3>2
  <2> QED BY <2>4
<1>9. \A i \in 1 .. n :
        /\ made(i) \in Seq(ChannelChange) /\ Ordered(made(i))
        /\ rest[i] # <<>> => Takers(made(i)) \subseteq Given(made(i))
  <2> SUFFICES ASSUME NEW i \in 1 .. n
               PROVE  /\ made(i) \in Seq(ChannelChange) /\ Ordered(made(i))
                      /\ rest[i] # <<>> => Takers(made(i)) \subseteq Given(made(i))
    OBVIOUS
  <2> DEFINE left == rest[i - 1]
  <2>1. i - 1 \in 0 .. n
    BY <1>4
  <2>2. left \in Seq(Text) /\ left # <<>> /\ Filled(left) /\ rest[i] = Group(left).rest
    BY <1>7, <1>8, <2>1
  <2>3. made(i) = Group(left).changes
    BY DEF made
  <2> HIDE DEF left
  <2>4. /\ Group(left).changes \in Seq(ChannelChange) /\ Ordered(Group(left).changes)
        /\ Group(left).rest # <<>> =>
             Takers(Group(left).changes) \subseteq Given(Group(left).changes)
    BY <2>2, GroupOrdered
  <2> QED BY <2>2, <2>3, <2>4
<1>10. /\ pieces \in Seq(Seq(ChannelChange)) /\ Len(pieces) = n
       /\ \A i \in 1 .. n : pieces[i] = made(i)
  <2> DEFINE C == Seq(ChannelChange)
  <2>1. \A i \in 1 .. n : made(i) \in C
    BY <1>9
  <2> HIDE DEF C
  <2>2. pieces \in Seq(C) /\ Len(pieces) = n
    BY <1>4, <2>1
  <2> QED BY <2>2 DEF C
<1> HIDE DEF pieces
<1>11. PICK f \in [0 .. Len(pieces) -> Seq(ChannelChange)] :
         /\ f[0] = <<>>
         /\ \A i \in 1 .. Len(pieces) : f[i] = f[i - 1] \o pieces[i]
         /\ Seqs!FlattenSeq(pieces) = f[Len(pieces)]
  BY <1>10, FlattenIs
<1>12. /\ \A i \in 0 .. n : f[i] \in Seq(ChannelChange)
       /\ f[0] = <<>> /\ \A i \in 1 .. n : f[i] = f[i - 1] \o made(i)
       /\ ChannelChanges(args) = f[n]
  BY <1>6, <1>10, <1>11
<1> DEFINE Sound(i) == /\ Ordered(f[i])
                       /\ rest[i] # <<>> => Takers(f[i]) \subseteq Given(f[i])
           S == {i \in Nat : i <= n => Sound(i)}
<1>13. 0 \in S
  <2>1. Len(f[0]) = 0 /\ 1 .. 0 = {}
    BY <1>12
  <2>2. Sound(0)
    BY <2>1 DEF Ordered, Takers, Given
  <2> HIDE DEF Sound
  <2> QED BY <2>2
<1>14. ASSUME NEW i \in Nat, i \in S PROVE i + 1 \in S
  <2> HIDE DEF Sound
  <2> SUFFICES ASSUME i + 1 <= n PROVE Sound(i + 1)
    OBVIOUS
  <2> DEFINE j == i + 1
  <2>1. j \in 1 .. n /\ j - 1 = i /\ i \in 0 .. n /\ Sound(i)
    BY <1>4, <1>14
  <2> HIDE DEF j
  <2>2. f[j] = f[i] \o made(j) /\ f[i] \in Seq(ChannelChange) /\ rest[i] # <<>>
    BY <1>7, <1>12, <2>1
  <2>3. Ordered(f[i]) /\ Takers(f[i]) \subseteq Given(f[i])
    BY <2>1, <2>2 DEF Sound
  <2>4. /\ made(j) \in Seq(ChannelChange) /\ Ordered(made(j))
        /\ rest[j] # <<>> => Takers(made(j)) \subseteq Given(made(j))
    BY <1>9, <2>1
  <2> DEFINE s == f[i]
             t == made(j)
  <2> HIDE DEF s, t
  <2>5. /\ Ordered(s \o t)
        /\ Takers(t) \subseteq Given(t) => Takers(s \o t) \subseteq Given(s \o t)
    BY <2>2, <2>3, <2>4, ConcatOrdered DEF s, t
  <2>6. f[j] = s \o t
    BY <2>2 DEF s, t
  <2>7. Sound(j)
    BY <2>4, <2>5, <2>6 DEF Sound, t
  <2> QED BY <2>7 DEF j
<1>15. Sound(n)
  <2>1. n \in S
    <3> HIDE DEF S
    <3> QED BY <1>4, <1>13, <1>14, SetInduction
  <2>2. n <= n
    BY <1>4
  <2> HIDE DEF Sound
  <2> QED BY <2>1, <2>2
<1>16. n \in 0 .. n
  BY <1>4
<1> QED BY <1>12, <1>15, <1>16

(* The changes that a MODE of a user asks for.                             *)
LEMMA UserChangesType ==
  ASSUME NEW args \in Seq(Text), NEW nick, "changes" \in DOMAIN ParseUserMode(nick, args)
  PROVE  ParseUserMode(nick, args).changes \in Seq(UserChange)
<1> DEFINE made(arg) == [i \in 1 .. Len(arg) - 1 |-> [mode |-> arg[i + 1], op |-> arg[1]]]
           pieces == [i \in 1 .. Len(args) |-> made(args[i])]
           flat == Seqs!FlattenSeq(pieces)
<1>1. ParseUserMode(nick, args) = [nickname |-> nick, changes |-> flat]
  <2>1. DOMAIN args = 1 .. Len(args)
    OBVIOUS
  <2>2. "changes" \notin DOMAIN ErrParse
    BY DEF ErrParse
  <2> QED BY <2>1, <2>2, Zenon DEF ParseUserMode
<1>2. \A arg \in Text : made(arg) \in Seq(UserChange)
  <2> SUFFICES ASSUME NEW arg \in Text PROVE made(arg) \in Seq(UserChange)
    OBVIOUS
  <2>1. CASE arg = <<>>
    <3>1. 1 .. Len(arg) - 1 = 1 .. 0
      BY <2>1
    <3>2. made(arg) = [i \in 1 .. 0 |-> [mode |-> arg[i + 1], op |-> arg[1]]]
      BY <3>1
    <3>3. made(arg) = <<>>
      BY <3>2
    <3>4. <<>> \in Seq(UserChange)
      OBVIOUS
    <3> HIDE DEF made
    <3> QED BY <3>3, <3>4
  <2>2. CASE arg # <<>>
    <3>1. Len(arg) - 1 \in Nat
      BY <2>2 DEF Text
    <3>2. \A i \in 1 .. Len(arg) - 1 : arg[i + 1] \in Token /\ arg[1] \in Token
      <4> SUFFICES ASSUME NEW i \in 1 .. Len(arg) - 1 PROVE arg[i + 1] \in Token /\ arg[1] \in Token
        OBVIOUS
      <4>1. i + 1 \in 1 .. Len(arg) /\ 1 \in 1 .. Len(arg)
        BY <3>1
      <4> QED BY <4>1 DEF Text
    <3>3. \A i \in 1 .. Len(arg) - 1 : [mode |-> arg[i + 1], op |-> arg[1]] \in UserChange
      BY <3>2 DEF UserChange
    <3> QED BY <3>1, <3>3
  <2> QED BY <2>1, <2>2
<1>3. pieces \in Seq(Seq(UserChange))
  <2> DEFINE C == Seq(UserChange)
  <2>1. \A i \in 1 .. Len(args) : made(args[i]) \in C
    BY <1>2
  <2> HIDE DEF C, made
  <2>2. pieces \in Seq(C)
    BY <2>1
  <2> QED BY <2>2 DEF C
<1> HIDE DEF pieces
<1>4. PICK f \in [0 .. Len(pieces) -> Seq(UserChange)] : flat = f[Len(pieces)]
  BY <1>3, FlattenIs
<1>5. Len(pieces) \in 0 .. Len(pieces)
  BY <1>3
<1>6. flat \in Seq(UserChange)
  BY <1>4, <1>5
<1> HIDE DEF flat
<1>7. ParseUserMode(nick, args).changes = flat
  BY <1>1
<1> QED BY <1>6, <1>7

-----------------------------------------------------------------------------
(* Some of the changes, in their order.                                    *)
Rising(applied, n) == \A k \in 2 .. n : applied[k - 1] < applied[k]

(* Later ones are greater.                                                 *)
LEMMA RisingFar ==
  ASSUME NEW n \in Nat, NEW m \in Nat, NEW applied \in [1 .. n -> 1 .. m], Rising(applied, n),
         NEW i \in 1 .. n, NEW k \in 1 .. n, i < k
  PROVE  applied[i] < applied[k]
<1> DEFINE S == {d \in Nat : (i + 1) + d <= n => applied[i] < applied[(i + 1) + d]}
<1>1. 0 \in S
  <2> SUFFICES ASSUME (i + 1) + 0 <= n PROVE applied[i] < applied[(i + 1) + 0]
    OBVIOUS
  <2>1. (i + 1) + 0 = i + 1 /\ i + 1 \in 2 .. n /\ (i + 1) - 1 = i
    OBVIOUS
  <2> QED BY <2>1 DEF Rising
<1>2. ASSUME NEW d \in Nat, d \in S PROVE d + 1 \in S
  <2> SUFFICES ASSUME (i + 1) + (d + 1) <= n PROVE applied[i] < applied[(i + 1) + (d + 1)]
    OBVIOUS
  <2> DEFINE a == (i + 1) + d
             b == (i + 1) + (d + 1)
  <2>1. b \in 2 .. n /\ b - 1 = a /\ a \in 1 .. n /\ b \in 1 .. n
    OBVIOUS
  <2>2. applied[i] < applied[a]
    BY <1>2, <2>1
  <2> HIDE DEF a, b
  <2>3. applied[a] < applied[b]
    <3>1. applied[b - 1] < applied[b]
      BY <2>1 DEF Rising
    <3> QED BY <2>1, <3>1
  <2>4. applied[i] \in Int /\ applied[a] \in Int /\ applied[b] \in Int
    BY <2>1
  <2> QED BY <2>2, <2>3, <2>4 DEF b
<1>3. Nat \subseteq S
  <2> HIDE DEF S
  <2> QED BY <1>1, <1>2, SetInduction
<1> DEFINE d == k - (i + 1)
<1>4. d \in Nat /\ (i + 1) + d = k /\ k <= n
  OBVIOUS
<1>5. d \in S
  <2> HIDE DEF S, d
  <2> QED BY <1>3, <1>4
<1> QED BY <1>4, <1>5

(* Some ordered changes are ordered.                                       *)
LEMMA SomeOrdered ==
  ASSUME NEW all \in Seq(ChannelChange), Ordered(all), NEW n \in Nat,
         NEW applied \in [1 .. n -> 1 .. Len(all)], Rising(applied, n)
  PROVE  LET changes == [k \in 1 .. n |-> all[applied[k]]]
         IN changes \in Seq(ChannelChange) /\ Ordered(changes)
<1> DEFINE changes == [k \in 1 .. n |-> all[applied[k]]]
<1>1. Len(all) \in Nat /\ \A k \in 1 .. n : applied[k] \in 1 .. Len(all) /\ all[applied[k]] \in ChannelChange
  OBVIOUS
<1>2. /\ changes \in Seq(ChannelChange) /\ Len(changes) = n
      /\ \A k \in 1 .. n : changes[k] = all[applied[k]]
  BY <1>1
<1> HIDE DEF changes
<1>3. \A k : k \in Takers(changes) <=> k \in 1 .. n /\ applied[k] \in Takers(all)
  BY <1>1, <1>2 DEF Takers
<1>4. \A k : k \in Given(changes) <=> k \in 1 .. n /\ applied[k] \in Given(all)
  BY <1>1, <1>2 DEF Given
<1>5. Given(changes) \subseteq Takers(changes)
  BY <1>3, <1>4 DEF Ordered
<1>6. ASSUME NEW i \in Takers(changes), NEW k \in Given(changes), i < k PROVE i \in Given(changes)
  <2>1. i \in 1 .. n /\ k \in 1 .. n
    BY <1>3, <1>4
  <2>2. applied[i] < applied[k]
    BY <1>1, <1>6, <2>1, RisingFar
  <2> QED BY <1>3, <1>4, <2>1, <2>2 DEF Ordered
<1> QED BY <1>2, <1>5, <1>6 DEF Ordered, changes

-----------------------------------------------------------------------------
(* The same of those after the first.                                      *)
LEMMA FilledTail ==
  ASSUME NEW args \in Seq(Text), args # <<>>, Filled(args) PROVE Filled(Tail(args))
<1> DEFINE rest == Tail(args)
<1>1. /\ rest \in Seq(Text) /\ Len(rest) = Len(args) - 1
      /\ \A i \in 1 .. Len(rest) : rest[i] = args[i + 1]
  BY HeadTailProperties
<1>2. Len(args) \in Nat /\ \A i \in 1 .. Len(args) : i < Len(args) => args[i] # <<>>
  BY DEF Filled
<1> HIDE DEF rest
<1>3. ASSUME NEW i \in 1 .. Len(rest), i < Len(rest) PROVE rest[i] # <<>>
  <2>1. i + 1 \in 1 .. Len(args) /\ i + 1 < Len(args)
    BY <1>1, <1>2, <1>3
  <2> QED BY <1>1, <1>2, <2>1
<1>4. Filled(rest)
  BY <1>3 DEF Filled
<1> QED BY <1>4 DEF rest

(* Some of the changes of a MODE of a channel, told to its members.        *)
LEMMA ChannelEcho ==
  ASSUME "MODE" \in Token, NEW args \in Seq(Text), args # <<>>, Filled(args),
         IsWord(args[1]), IsChannel(NewName(args[1])),
         NEW n \in Nat \ {0},
         NEW applied \in [1 .. n -> DOMAIN ChannelChanges(Tail(args))], Rising(applied, n),
         LET changes == [k \in 1 .. n |-> ChannelChanges(Tail(args))[applied[k]]]
         IN /\ OneSign(changes)
            /\ \A k \in 1 .. n : changes[k].arg = <<>> \/ IsWord(changes[k].arg)
  PROVE  LET changes == [k \in 1 .. n |-> ChannelChanges(Tail(args))[applied[k]]]
         IN ParseMode(ParseLine(Told(args[1], ChannelModeString(changes))).args).changes = changes
<1> DEFINE all == ChannelChanges(Tail(args))
           changes == [k \in 1 .. n |-> all[applied[k]]]
           rest == Tail(args)
<1>1. args[1] \in Text
  OBVIOUS
<1>2. rest \in Seq(Text) /\ Filled(rest)
  BY HeadTailProperties, FilledTail
<1>3. all \in Seq(ChannelChange) /\ Ordered(all)
  <2> HIDE DEF rest
  <2>1. ChannelChanges(rest) \in Seq(ChannelChange) /\ Ordered(ChannelChanges(rest))
    BY <1>2, ChannelChangesOrdered
  <2> QED BY <2>1 DEF rest
<1>4. /\ applied \in [1 .. n -> DOMAIN all] /\ OneSign(changes)
      /\ \A k \in 1 .. n : changes[k].arg = <<>> \/ IsWord(changes[k].arg)
  OBVIOUS
<1> HIDE DEF all
<1>5. changes \in Seq(ChannelChange) /\ Ordered(changes)
  <2>1. DOMAIN all = 1 .. Len(all) /\ n \in Nat
    BY <1>3
  <2> QED BY <1>3, <1>4, <2>1, SomeOrdered
<1>6. Len(changes) = n /\ changes # <<>>
  OBVIOUS
<1> HIDE DEF changes
<1>7. ParseMode(ParseLine(Told(args[1], ChannelModeString(changes))).args).changes = changes
  BY <1>1, <1>4, <1>5, <1>6, ChannelToldBack
<1> QED BY <1>7, Zenon DEF changes, all

(* A MODE that only names its target asks for no change.                   *)
LEMMA FlattenNone == Seqs!FlattenSeq(<<>>) = <<>>
<1> DEFINE seqs == <<>>
<1>1. seqs \in Seq(Seq({})) /\ Len(seqs) = 0
  OBVIOUS
<1> HIDE DEF seqs
<1>2. PICK f \in [0 .. Len(seqs) -> Seq({})] :
        f[0] = <<>> /\ Seqs!FlattenSeq(seqs) = f[Len(seqs)]
  BY <1>1, FlattenIs
<1> QED BY <1>1, <1>2 DEF seqs

LEMMA NoChanges ==
  ASSUME NEW nick
  PROVE  /\ ChannelChanges(<<>>) = <<>>
         /\ "changes" \in DOMAIN ParseUserMode(nick, <<>>) => ParseUserMode(nick, <<>>).changes = <<>>
<1>1. <<>> \in Seq(Text) /\ Len(<<>>) = 0 /\ DOMAIN <<>> = {}
  OBVIOUS
<1>2. ChannelChanges(<<>>) = <<>>
  <2> DEFINE none == <<>>
  <2>1. none \in Seq(Text) /\ Len(none) = 0
    OBVIOUS
  <2> HIDE DEF none
  <2>2. PICK rest \in [0 .. Len(none) -> Seq(Text)] :
          ChannelChanges(none) =
            Seqs!FlattenSeq(
              [i \in 1 .. Cardinality({k \in 1 .. Len(none) : rest[k - 1] # <<>>}) |->
                 Group(rest[i - 1]).changes])
    BY <2>1, ChannelRounds
  <2>3. {k \in 1 .. Len(none) : rest[k - 1] # <<>>} = {}
    BY <2>1
  <2>4. Cardinality({k \in 1 .. Len(none) : rest[k - 1] # <<>>}) = 0
    BY <2>3, FS_EmptySet
  <2>5. [i \in 1 .. 0 |-> Group(rest[i - 1]).changes] = <<>>
    OBVIOUS
  <2>6. ChannelChanges(none) = Seqs!FlattenSeq(<<>>)
    BY <2>2, <2>4, <2>5
  <2> QED BY <2>6, FlattenNone DEF none
<1>3. ASSUME "changes" \in DOMAIN ParseUserMode(nick, <<>>)
      PROVE  ParseUserMode(nick, <<>>).changes = <<>>
  <2> DEFINE made(arg) == [i \in 1 .. Len(arg) - 1 |-> [mode |-> arg[i + 1], op |-> arg[1]]]
             pieces == [i \in DOMAIN <<>> |-> made(<<>>[i])]
  <2>1. pieces = <<>>
    BY <1>1
  <2>2. "changes" \notin DOMAIN ErrParse
    BY DEF ErrParse
  <2>3. ParseUserMode(nick, <<>>) = [nickname |-> nick, changes |-> Seqs!FlattenSeq(pieces)]
    BY <1>3, <2>2, Zenon DEF ParseUserMode
  <2> HIDE DEF pieces
  <2>4. Seqs!FlattenSeq(pieces) = <<>>
    BY <2>1, FlattenNone
  <2> QED BY <2>3, <2>4
<1> QED BY <1>2, <1>3

-----------------------------------------------------------------------------
(* The texts that EchoParsesBack speaks of are the words.                  *)
LEMMA WordIs ==
  ASSUME NEW t \in Text, t # <<>>, ~Begins(t, Colon), \A i \in DOMAIN t : t[i] # Blank
  PROVE  IsWord(t)
<1>1. DOMAIN t = 1 .. Len(t)
  BY DEF Text
<1>2. t[1] # Colon
  BY Zenon DEF Begins
<1> QED BY <1>1, <1>2, Zenon DEF IsWord

(* The command of a MODE that asks for a change has a target and more.     *)
LEMMA ModeTarget ==
  ASSUME NEW text \in Text,
         LET args == ParseLine(text).args
         IN "changes" \in DOMAIN ParseMode(args) /\ ParseMode(args).changes # <<>>
  PROVE  LET args == ParseLine(text).args
             name == NewName(args[1])
         IN /\ args \in Seq(Text) /\ args # <<>> /\ Filled(args) /\ IsWord(args[1])
            /\ ParseMode(args) = IF IsChannel(name) THEN ParseChannelMode(name, Tail(args))
                                 ELSE ParseUserMode(name, Tail(args))
<1> DEFINE args == ParseLine(text).args
           name == NewName(args[1])
           command == ParseMode(args)
           mode(rest) == IF IsChannel(name) THEN ParseChannelMode(name, rest)
                         ELSE ParseUserMode(name, rest)
<1>1. args \in Seq(Text) /\ Filled(args)
  BY LineType, LineFilled
<1>2. \A i \in 1 .. Len(args) : i < Len(args) => IsWord(args[i])
  BY LineWords
<1>3. "changes" \in DOMAIN command /\ command.changes # <<>>
  OBVIOUS
<1> HIDE DEF args, command
<1>4. Len(args) \in Nat /\ ~(Len(args) < 1)
  <2>1. "changes" \notin DOMAIN NotEnoughArgs
    BY DEF NotEnoughArgs
  <2>2. Len(args) < 1 => command = NotEnoughArgs
    BY Zenon DEF command, ParseMode, Needs
  <2> QED BY <1>1, <1>3, <2>1, <2>2
<1>5. command = mode(Tail(args))
  BY <1>4, Zenon DEF command, ParseMode, Needs
<1> HIDE DEF name
<1>6. Len(args) # 1
  <2> SUFFICES ASSUME Len(args) = 1 PROVE FALSE
    OBVIOUS
  <2>1. Tail(args) \in Seq(Text) /\ Len(Tail(args)) = 0
    <3>1. args # <<>>
      BY <1>4, SMTT(30)
    <3>2. Tail(args) \in Seq(Text) /\ Len(Tail(args)) = Len(args) - 1
      BY <1>1, <3>1, HeadTailProperties
    <3> QED BY <3>2
  <2>2. Tail(args) = <<>>
    BY <2>1, EmptySeq
  <2>3. command = mode(<<>>)
    BY <1>5, <2>2
  <2>4. \A a, b : [channel |-> a, changes |-> b].changes = b
    OBVIOUS
  <2>5. IsChannel(name) => command.changes = <<>>
    BY <2>3, <2>4, NoChanges DEF ParseChannelMode
  <2>6. ~IsChannel(name) => command.changes = <<>>
    BY <1>3, <2>3, NoChanges
  <2> QED BY <1>3, <2>5, <2>6
<1>7. args # <<>> /\ IsWord(args[1])
  <2> DEFINE len == Len(args)
  <2>1. len \in Nat /\ ~(len < 1) /\ len # 1
    BY <1>4, <1>6
  <2> HIDE DEF len
  <2>2. 1 < len /\ 1 \in 1 .. len
    BY <2>1
  <2>3. IsWord(args[1])
    BY <1>2, <2>2 DEF len
  <2>4. args # <<>>
    BY <1>4
  <2> QED BY <2>3, <2>4
<1> QED BY <1>1, <1>5, <1>7 DEF args, command, name

(* Some of the changes asked for that have one sign and arguments that are *)
(* words.                                                                  *)
Chosen(all, n, applied) == [k \in 1 .. n |-> all[applied[k]]]

Telling(all, n, applied) ==
  LET changes == Chosen(all, n, applied)
  IN /\ n \in Nat \ {0} /\ applied \in [1 .. n -> DOMAIN all] /\ Rising(applied, n)
     /\ changes[1].op \in {AddOp, RemoveOp}
     /\ \A k \in 1 .. n : changes[k].op = changes[1].op /\ changes[k].mode # Blank

(* The members of a channel are told what was done.                        *)
LEMMA ChannelChosen ==
  ASSUME "MODE" \in Token, NEW args \in Seq(Text), args # <<>>, Filled(args),
         IsWord(args[1]), IsChannel(NewName(args[1])),
         NEW all, all = ChannelChanges(Tail(args)), NEW n, NEW applied, Telling(all, n, applied),
         \A k \in 1 .. n : LET change == Chosen(all, n, applied)[k]
                           IN "arg" \in DOMAIN change =>
                                change.arg = <<>>
                                  \/ /\ change.arg # <<>> /\ ~Begins(change.arg, Colon)
                                     /\ \A i \in DOMAIN change.arg : change.arg[i] # Blank
  PROVE  LET changes == Chosen(all, n, applied)
         IN ParseMode(ParseLine(Told(args[1], ChannelModeString(changes))).args).changes = changes
<1> DEFINE changes == Chosen(all, n, applied)
           rest == Tail(args)
<1>1. n \in Nat \ {0} /\ applied \in [1 .. n -> DOMAIN all] /\ Rising(applied, n)
  BY Zenon DEF Telling
<1>2. /\ changes[1].op \in {AddOp, RemoveOp}
      /\ \A k \in 1 .. n : changes[k].op = changes[1].op /\ changes[k].mode # Blank
  BY Zenon DEF Telling
<1>3. \A k \in 1 .. n : "arg" \in DOMAIN changes[k] =>
        \/ changes[k].arg = <<>>
        \/ /\ changes[k].arg # <<>> /\ ~Begins(changes[k].arg, Colon)
           /\ \A i \in DOMAIN changes[k].arg : changes[k].arg[i] # Blank
  OBVIOUS
<1>4. rest \in Seq(Text) /\ Filled(rest)
  BY HeadTailProperties, FilledTail
<1>5. all \in Seq(ChannelChange)
  <2> HIDE DEF rest
  <2>1. ChannelChanges(rest) \in Seq(ChannelChange)
    BY <1>4, ChannelChangesOrdered
  <2> QED BY <2>1 DEF rest
<1>6. Len(changes) = n /\ DOMAIN changes = 1 .. n /\ \A k \in 1 .. n : changes[k] \in ChannelChange
  BY <1>1, <1>5 DEF Chosen
<1> HIDE DEF changes
<1>7. OneSign(changes)
  BY <1>1, <1>2, <1>6, Zenon DEF OneSign
<1>8. ASSUME NEW k \in 1 .. n PROVE changes[k].arg = <<>> \/ IsWord(changes[k].arg)
  <2> DEFINE arg == changes[k].arg
  <2>1. "arg" \in DOMAIN changes[k] /\ arg \in Text
    BY <1>6 DEF ChannelChange
  <2>2. \/ arg = <<>>
        \/ arg # <<>> /\ ~Begins(arg, Colon) /\ \A i \in DOMAIN arg : arg[i] # Blank
    BY <1>3, <2>1, Zenon
  <2> HIDE DEF arg
  <2>3. arg = <<>> \/ IsWord(arg)
    BY <2>1, <2>2, WordIs
  <2> QED BY <2>3 DEF arg
<1>9. changes = [k \in 1 .. n |-> ChannelChanges(Tail(args))[applied[k]]]
  BY Zenon DEF changes, Chosen
<1>10. applied \in [1 .. n -> DOMAIN ChannelChanges(Tail(args))]
  BY <1>1
<1> DEFINE same == [k \in 1 .. n |-> ChannelChanges(Tail(args))[applied[k]]]
<1>11. OneSign(same) /\ \A k \in 1 .. n : same[k].arg = <<>> \/ IsWord(same[k].arg)
  BY <1>7, <1>8, <1>9, Zenon
<1>12. ParseMode(ParseLine(Told(args[1], ChannelModeString(same))).args).changes = same
  BY <1>1, <1>10, <1>11, ChannelEcho, ZenonT(60)
<1> HIDE DEF same
<1>13. changes = same
  BY <1>9 DEF same
<1> QED BY <1>12, <1>13, Zenon DEF changes

(* A user is told what was done.                                           *)
LEMMA UserChosen ==
  ASSUME "MODE" \in Token, NEW target \in Text, IsWord(target), ~IsChannel(NewName(target)),
         NEW all \in Seq(UserChange), NEW n, NEW applied, Telling(all, n, applied)
  PROVE  LET changes == Chosen(all, n, applied)
         IN ParseMode(ParseLine(Told(target, <<":">> \o UserModeString(changes))).args).changes
              = changes
<1> DEFINE changes == Chosen(all, n, applied)
<1>1. n \in Nat \ {0} /\ applied \in [1 .. n -> DOMAIN all]
  BY Zenon DEF Telling
<1>2. /\ changes[1].op \in {AddOp, RemoveOp}
      /\ \A k \in 1 .. n : changes[k].op = changes[1].op /\ changes[k].mode # Blank
  BY Zenon DEF Telling
<1>3. changes \in Seq(UserChange) /\ Len(changes) = n /\ changes # <<>>
  <2>1. \A k \in 1 .. n : all[applied[k]] \in UserChange
    BY <1>1
  <2>2. changes \in Seq(UserChange) /\ Len(changes) = n
    BY <1>1, <2>1 DEF Chosen
  <2> QED BY <1>1, <2>2
<1> HIDE DEF changes
<1>4. OneSign(changes)
  BY <1>1, <1>2, <1>3, Zenon DEF OneSign
<1>5. ParseMode(ParseLine(Told(target, <<":">> \o UserModeString(changes))).args).changes = changes
  BY <1>3, <1>4, UserToldBack
<1> QED BY <1>5, Zenon DEF changes

(* What is told of the MODE of any line is what was done.                  *)
LEMMA EchoFit ==
  ASSUME NEW text \in Text, line = text, cmd = ParseCommand(text)
  PROVE  EchoParsesBack
<1> DEFINE parsed == ParseLine(line)
           args == parsed.args
           name == NewName(args[1])
           word(t) == t # <<>> /\ ~Begins(t, ":") /\ \A i \in DOMAIN t : t[i] # " "
           plain(change) ==
             /\ change.mode # " "
             /\ "arg" \in DOMAIN change => change.arg = <<>> \/ word(change.arg)
           told(changes) == IF "channel" \in DOMAIN cmd THEN ChannelModeString(changes)
                            ELSE <<":">> \o UserModeString(changes)
           echo(changes) == ParseLine(<<"MODE", " ">> \o args[1] \o <<" ">> \o told(changes))
<1>1. cmd = Construct(IF Len(parsed.code) = 1 THEN parsed.code[1] ELSE "", args)
  BY Zenon DEF ParseCommand
<1>2. SUFFICES ASSUME parsed.code = <<"MODE">>, "changes" \in DOMAIN cmd,
                      NEW n \in 1 .. Len(cmd.changes),
                      NEW applied \in [1 .. n -> DOMAIN cmd.changes],
                      LET changes == Chosen(cmd.changes, n, applied)
                      IN /\ \A k \in 2 .. n : applied[k - 1] < applied[k]
                         /\ \A k \in 1 .. n : changes[k].op = changes[1].op /\ plain(changes[k])
                         /\ changes[1].op \in {AddOp, RemoveOp}
               PROVE  LET changes == Chosen(cmd.changes, n, applied)
                      IN ParseMode(echo(changes).args).changes = changes
  BY Zenon DEF EchoParsesBack, Chosen
<1> DEFINE all == cmd.changes
           changes == Chosen(all, n, applied)
<1>3. /\ \A k \in 2 .. n : applied[k - 1] < applied[k]
      /\ changes[1].op \in {AddOp, RemoveOp}
      /\ \A k \in 1 .. n : changes[k].op = changes[1].op /\ changes[k].mode # Blank
      /\ \A k \in 1 .. n : "arg" \in DOMAIN changes[k] =>
           \/ changes[k].arg = <<>>
           \/ /\ changes[k].arg # <<>> /\ ~Begins(changes[k].arg, Colon)
              /\ \A i \in DOMAIN changes[k].arg : changes[k].arg[i] # Blank
  BY <1>2, Zenon DEF Blank, Colon
<1>4. parsed.code = <<"MODE">> /\ "changes" \in DOMAIN cmd
      /\ n \in 1 .. Len(all) /\ applied \in [1 .. n -> DOMAIN all]
  BY <1>2, Zenon
<1>5. parsed.code \in Text
  BY LineType
<1> HIDE DEF parsed, echo, changes, plain, all
<1>6. cmd = ParseMode(args)
  <2>1. Len(parsed.code) = 1 /\ parsed.code[1] = "MODE"
    BY <1>4
  <2>2. cmd = Construct("MODE", args)
    BY <1>1, <2>1
  <2> QED BY <2>2 DEF Construct
<1>7. "MODE" \in Token
  <2>1. <<"MODE">> \in Seq(Token)
    BY <1>4, <1>5 DEF Text
  <2> QED BY <2>1
<1>8. all # <<>>
  BY <1>4
<1>9. /\ args \in Seq(Text) /\ args # <<>> /\ Filled(args) /\ IsWord(args[1])
      /\ cmd = IF IsChannel(name) THEN ParseChannelMode(name, Tail(args))
               ELSE ParseUserMode(name, Tail(args))
  <2>1. "changes" \in DOMAIN ParseMode(ParseLine(text).args)
        /\ ParseMode(ParseLine(text).args).changes # <<>>
    BY <1>4, <1>6, <1>8, Zenon DEF parsed, all
  <2>2. LET words == ParseLine(text).args
            asked == NewName(words[1])
        IN /\ words \in Seq(Text) /\ words # <<>> /\ Filled(words) /\ IsWord(words[1])
           /\ ParseMode(words) = IF IsChannel(asked) THEN ParseChannelMode(asked, Tail(words))
                              ELSE ParseUserMode(asked, Tail(words))
    BY <2>1, ModeTarget, Zenon
  <2> QED BY <1>6, <2>2, Zenon DEF parsed
<1>10. Telling(all, n, applied)
  <2>1. n \in Nat \ {0}
    BY <1>4
  <2>2. Rising(applied, n)
    BY <1>3, Zenon DEF Rising
  <2> QED BY <1>3, <1>4, <2>1, <2>2, Zenon DEF Telling, changes
<1> HIDE DEF args
<1>11. CASE IsChannel(name)
  <2>1. cmd = [channel |-> name, changes |-> ChannelChanges(Tail(args))]
    BY <1>9, <1>11, Zenon DEF ParseChannelMode
  <2>2. all = ChannelChanges(Tail(args)) /\ "channel" \in DOMAIN cmd
    BY <2>1 DEF all
  <2>3. ParseMode(ParseLine(Told(args[1], ChannelModeString(changes))).args).changes = changes
    BY <1>3, <1>7, <1>9, <1>10, <1>11, <2>2, ChannelChosen, ZenonT(60) DEF changes
  <2>4. ParseMode(echo(changes).args).changes = changes
    BY <2>2, <2>3, Zenon DEF echo, Told
  <2> QED BY <2>4, Zenon DEF changes, all
<1>12. CASE ~IsChannel(name)
  <2>1. cmd = ParseUserMode(name, Tail(args))
    BY <1>9, <1>12
  <2>2. "channel" \notin DOMAIN cmd
    <3>1. ASSUME NEW a, NEW b PROVE "channel" \notin DOMAIN [nickname |-> a, changes |-> b]
      OBVIOUS
    <3>2. "channel" \notin DOMAIN ErrParse
      BY DEF ErrParse
    <3> QED BY <2>1, <3>1, <3>2, Zenon DEF ParseUserMode
  <2>3. args[1] \in Text /\ Tail(args) \in Seq(Text)
    BY <1>9, HeadTailProperties
  <2>4. all \in Seq(UserChange)
    <3>1. "changes" \in DOMAIN ParseUserMode(name, Tail(args))
          /\ all = ParseUserMode(name, Tail(args)).changes
      BY <1>4, <2>1, Zenon DEF all
    <3> HIDE DEF name
    <3> QED BY <2>3, <3>1, UserChangesType
  <2>5. ParseMode(ParseLine(Told(args[1], <<":">> \o UserModeString(changes))).args).changes
          = changes
    <3> DEFINE target == args[1]
    <3>1. target \in Text /\ IsWord(target) /\ ~IsChannel(NewName(target))
      BY <1>9, <1>12, <2>3, Zenon
    <3> HIDE DEF target, name
    <3>2. LET cs == Chosen(all, n, applied)
          IN ParseMode(ParseLine(Told(target, <<":">> \o UserModeString(cs))).args).changes = cs
      BY <1>7, <1>10, <2>4, <3>1, UserChosen
    <3> QED BY <3>2, Zenon DEF changes, target
  <2>6. ParseMode(echo(changes).args).changes = changes
    BY <2>2, <2>5, Zenon DEF echo, Told
  <2> QED BY <2>6, Zenon DEF changes, all
<1> QED BY <1>11, <1>12

-----------------------------------------------------------------------------
(* The command is that of the line, and the line is made of tokens.        *)
ParsingInv == line \in Text /\ opening \in Opening /\ cmd = ParseCommand(line)

(* The command is always that of the line.                                 *)
THEOREM ParsingInvariant == ParsingSpec => []ParsingInv
<1>1. ParsingInit => ParsingInv
  BY ParsingAssumption DEF ParsingInit, ParsingInv, Text
<1>2. ParsingInv /\ [ParsingNext]_parsingVars => ParsingInv'
  <2>1. ASSUME ParsingInv, NEW token \in opening.alphabet, Type(token) PROVE ParsingInv'
    <3>1. token \in Token
      BY <2>1, ParsingAssumption DEF ParsingInv
    <3> QED BY <2>1, <3>1 DEF ParsingInv, Type, Text
  <2>2. ParsingInv /\ UNCHANGED parsingVars => ParsingInv'
    BY DEF ParsingInv, parsingVars
  <2> QED BY <2>1, <2>2 DEF ParsingNext
<1> QED BY <1>1, <1>2, PTL DEF ParsingSpec

(* ParseLine finds the words of every line (ParseLine).                    *)
THEOREM ArgsCorrect == ParsingSpec => []ArgsAreWords
<1>1. ParsingInv => ArgsAreWords
  <2> SUFFICES ASSUME ParsingInv PROVE ArgsAreWords
    OBVIOUS
  <2>1. line \in Text
    BY DEF ParsingInv
  <2> DEFINE starts == Starts(line)
             before(p) == Before(line, p)
             skipped == Skipped(line)
             argued == {p \in starts : before(p) >= skipped}
             read == {p \in argued : \A q \in argued : line[q] = Colon => p <= q}
             word(p) == Word(line, p)
             args == ParseLine(line).args
  <2>2. PICK first \in starts \cup {Len(line) + 1} :
          /\ args = ParseArgs(Suffix(line, first))
          /\ \A p \in starts : before(p) >= skipped <=> p >= first
          /\ first \in starts => before(first) = skipped
    BY <2>1, ArgsOfLine
  <2>3. /\ Len(args) = Cardinality(ReadFrom(line, first))
        /\ \A p \in ReadFrom(line, first) : args[before(p) - before(first) + 1] = word(p)
    BY <2>1, <2>2, ArgsFrom
  <2>4. read = ReadFrom(line, first)
    <3>1. \A p : p \in argued <=> p \in starts /\ p >= first
      BY <2>2
    <3> HIDE DEF argued, starts
    <3>2. \A p : p \in read <=> p \in ReadFrom(line, first)
      BY <3>1 DEF ReadFrom, starts
    <3> QED BY <3>2
  <2>5. \A p \in ReadFrom(line, first) : before(first) = skipped
    <3> SUFFICES ASSUME NEW p \in ReadFrom(line, first) PROVE first \in starts
      BY <2>2
    <3>1. p \in 1 .. Len(line) /\ p >= first /\ Len(line) \in Nat
      BY <2>1, StartsType DEF ReadFrom
    <3> QED BY <2>2, <3>1
  <2>6. Len(args) = Cardinality(read) /\ \A p \in read : args[before(p) - skipped + 1] = word(p)
    BY <2>3, <2>4, <2>5, Zenon
  <2> QED BY <2>6, Zenon DEF ArgsAreWords, Starts, Before, Skipped, Word, NextSpace, Blank, Colon
<1> QED BY <1>1, ParsingInvariant, PTL

(* What the members of a channel or a user are told of a MODE, read as a   *)
(* command, is what was done, for any line, letters and arguments          *)
(* (ParseModeCommand, ChannelModeChanges.String, ModeChanges.String).      *)
THEOREM EchoCorrect == ParsingSpec => []EchoParsesBack
<1>1. ParsingInv => EchoParsesBack
  BY EchoFit DEF ParsingInv
<1> QED BY <1>1, ParsingInvariant, PTL

(* Two spellings of a name are one name to every command, for any tokens,  *)
(* normal forms and lines.                                                 *)
THEOREM NamesCorrect == ParsingSpec => []NamesCanonical
<1>1. ParsingInv => NamesCanonical
  <2> SUFFICES ASSUME ParsingInv PROVE NamesCanonical
    OBVIOUS
  <2>1. Fit(cmd, ParseLine(line).args)
    BY LineType, ConstructFit DEF ParsingInv, ParseCommand
  <2> QED BY <2>1 DEF Fit, Canonical, NamesCanonical, NameFields, ListFields
<1> QED BY <1>1, ParsingInvariant, PTL

(* A JOIN or KICK of several channels is that of each of them, for lists   *)
(* of any length.                                                          *)
THEOREM TargetsCorrect == ParsingSpec => []TargetsSeparate
<1>1. ParsingInv => TargetsSeparate
  BY TargetsFit DEF ParsingInv
<1> QED BY <1>1, ParsingInvariant, PTL
=============================================================================
