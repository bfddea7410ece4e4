---------------------------- MODULE WhoWasProofs ----------------------------
(***************************************************************************)
(* Proofs about WhoWas and WhoWasLock, for every buffer size: the ring     *)
(* implements the bounded history, Each and Find return what is in it, and *)
(* WHOWAS answers right among any numbers of finders and appenders.        *)
(***************************************************************************)
EXTENDS WhoWasLock, Iteration, SequenceTheorems, FiniteSetTheorems, TLAPS

USE DEF Slot

(* An index plus one, modulo the size of the buffer.                       *)
LEMMA NextSlot ==
  ASSUME NEW i \in Slot
  PROVE  (i + 1) % N = IF i + 1 = N THEN 0 ELSE i + 1
<1>1. N \in Nat \ {0}
  BY WhoWasAssumption
<1>2. CASE i + 1 = N
  BY <1>1, <1>2, Z3
<1>3. CASE i + 1 < N
  BY <1>1, <1>3, Z3
<1> QED BY <1>1, <1>2, <1>3

THEOREM TypeCorrect == Spec => []TypeOK
<1>1. Init => TypeOK
  BY WhoWasAssumption DEF Init, TypeOK
<1>2. TypeOK /\ [Next]_ringVars => TypeOK'
  <2> SUFFICES ASSUME TypeOK, [Next]_ringVars PROVE TypeOK'
    OBVIOUS
  <2>1. ASSUME NEW e \in Entry, AppendEntry(e) PROVE TypeOK'
    <3>1. (end + 1) % N \in Slot
      BY WhoWasAssumption, NextSlot DEF TypeOK
    <3>2. (((end + 1) % N) + 1) % N \in Slot
      BY <3>1, WhoWasAssumption, NextSlot
    <3> QED BY <2>1, <3>1, <3>2 DEF AppendEntry, TypeOK
  <2>2. CASE UNCHANGED ringVars
    BY <2>2 DEF ringVars, TypeOK
  <2> QED BY <2>1, <2>2 DEF Next
<1> QED BY <1>1, <1>2, PTL DEF Spec

-----------------------------------------------------------------------------
(* What one Append does to the entries held: one more while there is room, *)
(* the new one first, the others moved down by one place.                  *)
LEMMA AppendHeld ==
  ASSUME TypeOK, NEW e \in Entry, AppendEntry(e)
  PROVE  /\ Held \in 0 .. N - 1
         /\ Held' = IF Held + 1 <= N - 1 THEN Held + 1 ELSE N - 1
<1>1. /\ N \in Nat \ {0} /\ end \in Slot /\ start \in Slot
  BY WhoWasAssumption DEF TypeOK
<1>2. end' = IF end + 1 = N THEN 0 ELSE end + 1
  BY <1>1, NextSlot DEF AppendEntry
<1>3. end' \in Slot
  BY <1>1, <1>2
<1>4. start' = IF end' = start THEN IF end' + 1 = N THEN 0 ELSE end' + 1 ELSE start
  BY <1>1, <1>3, NextSlot DEF AppendEntry
<1> QED BY <1>1, <1>2, <1>3, <1>4 DEF Held

LEMMA AppendNewest ==
  ASSUME TypeOK, NEW e \in Entry, AppendEntry(e), NEW i \in 1 .. Held'
  PROVE  Newest(i)' = IF i = 1 THEN e ELSE Newest(i - 1)
<1>1. /\ N \in Nat \ {0} /\ end \in Slot
      /\ buffer \in [Slot -> Entry \cup {Nil}]
  BY WhoWasAssumption DEF TypeOK
<1>2. end' = IF end + 1 = N THEN 0 ELSE end + 1
  BY <1>1, NextSlot DEF AppendEntry
<1>3. i \in 1 .. N - 1
  BY <1>1, AppendHeld
<1>4. buffer' = [buffer EXCEPT ![end] = e]
  BY DEF AppendEntry
<1>5. CASE i = 1
  BY <1>1, <1>2, <1>3, <1>4, <1>5 DEF Newest
<1>6. CASE i # 1
  BY <1>1, <1>2, <1>3, <1>4, <1>6 DEF Newest
<1> QED BY <1>5, <1>6

(* An Append is a Remember of the history.                                 *)
LEMMA AppendRemembers ==
  ASSUME TypeOK, NEW e \in Entry, AppendEntry(e)
  PROVE  History!Remember(e)
<1> DEFINE longer == <<e>> \o Contents
           most == IF Len(longer) <= N - 1 THEN Len(longer) ELSE N - 1
<1>1. N \in Nat \ {0} /\ Held \in 0 .. N - 1
  BY WhoWasAssumption, AppendHeld
<1>2. Contents \in Seq({Newest(i) : i \in 1 .. Held}) /\ Len(Contents) = Held
  BY <1>1 DEF Contents
<1>3. /\ Len(longer) = Held + 1
      /\ \A i \in 1 .. Held + 1 :
           longer[i] = IF i = 1 THEN e ELSE Newest(i - 1)
  BY <1>1, <1>2 DEF Contents
<1> HIDE DEF longer
<1>4. most = Held' /\ most \in 0 .. Held + 1
  BY <1>1, <1>3, AppendHeld
<1>5. SubSeq(longer, 1, most) = [i \in 1 .. most |-> longer[i]]
  BY <1>1, <1>4 DEF longer
<1>6. \A i \in 1 .. most : longer[i] = Newest(i)'
  BY <1>3, <1>4, AppendNewest
<1>7. Contents' = SubSeq(longer, 1, most)
  BY <1>4, <1>5, <1>6 DEF Contents
<1> QED BY <1>7 DEF History!Remember, longer

(* The ring buffer implements the bounded history of its N - 1 newest      *)
(* entries, for every size N of the buffer.                                *)
THEOREM RingImplementsHistory == Spec => RingIsHistory
<1>1. Init => History!HistoryInit
  BY WhoWasAssumption DEF Init, History!HistoryInit, Contents, Held
<1>2. TypeOK /\ [Next]_ringVars => [History!HistoryNext]_Contents
  <2> SUFFICES ASSUME TypeOK, [Next]_ringVars
               PROVE  [History!HistoryNext]_Contents
    OBVIOUS
  <2>1. ASSUME NEW e \in Entry, AppendEntry(e) PROVE History!HistoryNext
    BY <2>1, AppendRemembers DEF History!HistoryNext
  <2>2. CASE UNCHANGED ringVars
    BY <2>2 DEF ringVars, Contents, Held, Newest
  <2> QED BY <2>1, <2>2 DEF Next
<1> QED BY <1>1, <1>2, TypeCorrect, PTL DEF Spec, RingIsHistory, History!HistorySpec

-----------------------------------------------------------------------------
(* The slot of the i-th newest entry, and the age of the entry in a slot.  *)
SlotOf(i) == IF end - i >= 0 THEN end - i ELSE end - i + N
Age(s) == IF s < end THEN end - s ELSE end - s + N

LEMMA Ages ==
  ASSUME TypeOK
  PROVE  /\ N \in Nat \ {0} /\ Held \in 0 .. N - 1
         /\ \A i \in 1 .. N : /\ SlotOf(i) \in Slot /\ Age(SlotOf(i)) = i
                              /\ buffer[SlotOf(i)] = Newest(i)
         /\ \A s \in Slot : Age(s) \in 1 .. N /\ SlotOf(Age(s)) = s
         /\ prev(end) = SlotOf(1)
         /\ \A i \in 1 .. N - 1 : prev(SlotOf(i)) = SlotOf(i + 1)
         /\ prev(start) = SlotOf(Held + 1)
<1>1. N \in Nat \ {0} /\ start \in Slot /\ end \in Slot
  BY WhoWasAssumption DEF TypeOK
<1> QED BY <1>1 DEF Held, SlotOf, Age, Newest, prev

(* The loop of Each visits the slots by age and stops after the last held. *)
LEMMA EachWalks ==
  ASSUME TypeOK
  PROVE  Each = Contents
<1> DEFINE Is(f) == f = [i \in 0 .. N |-> IF i = 0 THEN prev(end) ELSE prev(f[i - 1])]
           slot == CHOOSE f : Is(f)
           Stops(i) == slot[i] = prev(start) /\ \A j \in 0 .. i - 1 : slot[j] # prev(start)
           stop0 == CHOOSE i \in 0 .. N : Stops(i)
           S == {n \in Nat : n <= N - 1 => slot[n] = SlotOf(n + 1)}
<1>1. N \in Nat \ {0} /\ Held \in 0 .. N - 1
  BY Ages
<1>2. Is(slot)
  <2> DEFINE step == [p \in (1 .. N) \X Slot |-> prev(p[2])]
  <2>1. prev(end) \in Slot /\ Rounds(step, N, Slot)
    BY <1>1 DEF TypeOK, prev, Rounds
  <2>2. PICK f \in [0 .. N -> Slot] :
          f[0] = prev(end) /\ \A i \in 1 .. N : f[i] = step[<<i, f[i - 1]>>]
    <3>1. N \in Nat
      BY <1>1
    <3> HIDE DEF step, Slot
    <3> QED BY <2>1, <3>1, IterationExists
  <2>3. \A i \in 1 .. N : f[i] = prev(f[i - 1])
    <3>1. \A p \in (1 .. N) \X Slot : step[p] = prev(p[2])
      OBVIOUS
    <3> HIDE DEF step
    <3>2. \A i \in 1 .. N : f[i - 1] \in Slot
      BY <1>1, <2>2
    <3>3. \A i \in 1 .. N : step[<<i, f[i - 1]>>] = prev(f[i - 1])
      BY <3>1, <3>2
    <3> QED BY <2>2, <3>3
  <2>4. Is(f)
    BY <1>1, <2>2, <2>3
  <2> HIDE DEF Is
  <2> QED BY <2>4
<1> HIDE DEF slot
<1>3. \A i \in 0 .. N - 1 : slot[i] = SlotOf(i + 1)
  <2>1. 0 \in S
    BY <1>1, <1>2, Ages
  <2>2. ASSUME NEW n \in Nat, n \in S PROVE n + 1 \in S
    <3> SUFFICES ASSUME n + 1 <= N - 1 PROVE slot[n + 1] = SlotOf((n + 1) + 1)
      OBVIOUS
    <3>1. slot[n] = SlotOf(n + 1)
      BY <1>1, <2>2
    <3>2. slot[n + 1] = prev(slot[n])
      BY <1>1, <1>2
    <3>3. n + 1 \in 1 .. N - 1
      BY <1>1
    <3> QED BY <3>1, <3>2, <3>3, Ages
  <2> HIDE DEF S
  <2>3. Nat \subseteq S
    BY <2>1, <2>2, SetInduction
  <2> QED BY <1>1, <2>3 DEF S
<1>4. stop0 = Held
  <2>1. \A j \in 0 .. N - 1 : slot[j] = prev(start) <=> j = Held
    <3> TAKE j \in 0 .. N - 1
    <3>1. /\ Age(SlotOf(j + 1)) = j + 1 /\ Age(SlotOf(Held + 1)) = Held + 1
          /\ prev(start) = SlotOf(Held + 1)
      BY <1>1, Ages
    <3> QED BY <1>1, <1>3, <3>1
  <2>2. Held \in 0 .. N /\ Stops(Held)
    BY <1>1, <2>1
  <2>3. \A i \in 0 .. N : Stops(i) => i = Held
    BY <1>1, <2>1
  <2> HIDE DEF Stops
  <2> QED BY <2>2, <2>3
<1>5. Each = IF start = end THEN <<>> ELSE [i \in 1 .. stop0 |-> buffer[slot[i - 1]]]
  BY DEF Each, slot
<1> HIDE DEF stop0
<1>6. CASE start = end
  BY <1>5, <1>6, Ages DEF Contents, Held, TypeOK
<1>7. CASE start # end
  <2>1. \A i \in 1 .. Held : buffer[slot[i - 1]] = Newest(i)
    <3> TAKE i \in 1 .. Held
    <3>1. slot[i - 1] = SlotOf(i)
      BY <1>1, <1>3
    <3> QED BY <1>1, <3>1, Ages
  <2> QED BY <1>4, <1>5, <1>7, <2>1 DEF Contents
<1> QED BY <1>6, <1>7

(* Each walks exactly the entries held.                                    *)
THEOREM EachCorrect == Spec => []EachIsContents
<1>1. TypeOK => EachIsContents
  BY EachWalks DEF EachIsContents
<1> QED BY <1>1, TypeCorrect, PTL

-----------------------------------------------------------------------------
(* The loop of Find                                                        *)

Takes(f, entries, nickname, most) ==
  /\ f[0] = <<>>
  /\ \A i \in 1 .. Len(entries) :
       f[i] = IF NickOf[entries[i]] = nickname /\ Len(f[i - 1]) < most
              THEN Append(f[i - 1], entries[i]) ELSE f[i - 1]

LEMMA FoundTakes ==
  ASSUME NEW T, NEW entries \in Seq(T), NEW nickname, NEW most
  PROVE  /\ Found(entries, nickname, most) \in [0 .. Len(entries) -> Seq(T)]
         /\ Takes(Found(entries, nickname, most), entries, nickname, most)
<1> DEFINE Next1(i, r) == IF NickOf[entries[i]] = nickname /\ Len(r) < most
                          THEN Append(r, entries[i]) ELSE r
           Is(f) == f = [i \in 0 .. Len(entries) |->
                           IF i = 0 THEN <<>> ELSE Next1(i, f[i - 1])]
           step == [p \in (1 .. Len(entries)) \X Seq(T) |-> Next1(p[1], p[2])]
           len == Len(entries)
           D == Seq(T)
           found == CHOOSE f : Is(f)
<1>1. len \in Nat /\ <<>> \in D
  OBVIOUS
<1>2. \A i \in 1 .. len, r \in D : Next1(i, r) \in D
  OBVIOUS
<1>3. \A i \in 1 .. len, r \in D : step[<<i, r>>] = Next1(i, r)
  <2> HIDE DEF Next1
  <2> QED OBVIOUS
<1>4. Rounds(step, len, D)
  <2>1. \A p \in (1 .. len) \X D : Next1(p[1], p[2]) \in D
    BY <1>2
  <2> HIDE DEF Next1
  <2> QED BY <2>1 DEF Rounds
<1>5. PICK f \in [0 .. len -> D] : f[0] = <<>> /\ \A i \in 1 .. len : f[i] = step[<<i, f[i - 1]>>]
  <2> HIDE DEF step, len, D
  <2> QED BY <1>1, <1>4, IterationExists
<1>6. \A i \in 1 .. len : f[i] = Next1(i, f[i - 1])
  <2>1. \A i \in 1 .. len : f[i - 1] \in D
    BY <1>1, <1>5
  <2> HIDE DEF step, Next1
  <2> QED BY <1>3, <1>5, <2>1
<1>7. Is(f)
  <2> HIDE DEF Next1
  <2> QED BY <1>1, <1>5, <1>6
<1>8. Is(found)
  <2> HIDE DEF Is
  <2> QED BY <1>7
<1>9. Found(entries, nickname, most) = found
  BY DEF Found
<1> HIDE DEF found
<1>10. found[0] = <<>> /\ \A i \in 1 .. len : found[i] = Next1(i, found[i - 1])
  <2> HIDE DEF Next1
  <2> QED BY <1>1, <1>8
<1>11. found \in [0 .. len -> D]
  <2> DEFINE S == {n \in Nat : n <= len => found[n] \in D}
  <2>1. 0 \in S
    BY <1>1, <1>10
  <2>2. ASSUME NEW n \in Nat, n \in S PROVE n + 1 \in S
    <3> SUFFICES ASSUME n + 1 <= len PROVE found[n + 1] \in D
      OBVIOUS
    <3>1. found[n] \in D /\ n + 1 \in 1 .. len /\ (n + 1) - 1 = n
      BY <1>1, <2>2
    <3>2. found[n + 1] = Next1(n + 1, found[n])
      <4> HIDE DEF Next1
      <4> QED BY <1>10, <3>1
    <3> HIDE DEF Next1, D
    <3> QED BY <1>2, <3>1, <3>2
  <2>3. Nat \subseteq S
    <3> HIDE DEF S
    <3> QED BY <2>1, <2>2, SetInduction
  <2> HIDE DEF D, Next1
  <2>4. \A n \in 0 .. len : found[n] \in D
    BY <2>3
  <2>5. found = [n \in 0 .. len |-> found[n]]
    BY <1>8
  <2> QED BY <2>4, <2>5
<1> QED BY <1>9, <1>10, <1>11 DEF Takes

(* Find on the entries held: what it has after i of them.                  *)
Most(limit) == IF limit < 1 THEN 1 ELSE limit
Took(nickname, limit, i) == Found(Contents, nickname, Most(limit))[i]

TakesHeld(nickname, limit) ==
  /\ \A i \in 0 .. Held : Took(nickname, limit, i) \in Seq(Entry \cup {Nil})
  /\ Took(nickname, limit, 0) = <<>>
  /\ \A i \in 1 .. Held :
       Took(nickname, limit, i) =
         IF NickOf[Newest(i)] = nickname /\ Len(Took(nickname, limit, i - 1)) < Most(limit)
         THEN Append(Took(nickname, limit, i - 1), Newest(i))
         ELSE Took(nickname, limit, i - 1)

LEMMA FindTakes ==
  ASSUME TypeOK, NEW nickname, NEW limit \in Nat
  PROVE  /\ Held \in Nat /\ Most(limit) \in Nat \ {0}
         /\ Find(nickname, limit) = Took(nickname, limit, Held)
         /\ TakesHeld(nickname, limit)
<1>1. Held \in Nat /\ Most(limit) \in Nat \ {0}
  BY Ages DEF Most
<1>2. \A i \in 1 .. Held : Newest(i) \in Entry \cup {Nil}
  <2> TAKE i \in 1 .. Held
  <2>1. SlotOf(i) \in Slot /\ buffer[SlotOf(i)] = Newest(i)
    BY Ages
  <2> QED BY <2>1 DEF TypeOK
<1>3. Contents \in Seq(Entry \cup {Nil}) /\ Len(Contents) = Held
      /\ \A i \in 1 .. Held : Contents[i] = Newest(i)
  BY <1>1, <1>2 DEF Contents
<1> DEFINE f == Found(Contents, nickname, Most(limit))
<1>4. f \in [0 .. Held -> Seq(Entry \cup {Nil})] /\ Takes(f, Contents, nickname, Most(limit))
  BY <1>3, FoundTakes
<1>5. Find(nickname, limit) = f[Held]
  BY <1>3, EachWalks DEF Find, Most
<1> HIDE DEF f
<1>6. f[0] = <<>> /\ \A i \in 1 .. Held :
        f[i] = IF NickOf[Newest(i)] = nickname /\ Len(f[i - 1]) < Most(limit)
               THEN Append(f[i - 1], Newest(i)) ELSE f[i - 1]
  BY <1>3, <1>4 DEF Takes
<1>7. \A i \in 0 .. Held : f[i] \in Seq(Entry \cup {Nil})
  BY <1>4
<1> QED BY <1>1, <1>5, <1>6, <1>7 DEF f, Took, TakesHeld

(* The matches among the i newest entries, and how many of them are newer  *)
(* than the j-th entry.                                                    *)
Matches(nickname, i) == {j \in 1 .. i : NickOf[Newest(j)] = nickname}
Newer(nickname, i, j) == Cardinality({x \in Matches(nickname, i) : x < j})

LEMMA MatchesCount ==
  ASSUME NEW nickname, NEW i \in Nat
  PROVE  /\ IsFiniteSet(Matches(nickname, i))
         /\ Cardinality(Matches(nickname, i)) \in Nat
         /\ NickOf[Newest(i + 1)] # nickname => Matches(nickname, i + 1) = Matches(nickname, i)
         /\ NickOf[Newest(i + 1)] = nickname =>
              /\ i + 1 \in Matches(nickname, i + 1)
              /\ Cardinality(Matches(nickname, i + 1)) = Cardinality(Matches(nickname, i)) + 1
              /\ Newer(nickname, i + 1, i + 1) = Cardinality(Matches(nickname, i))
         /\ Matches(nickname, i) \subseteq Matches(nickname, i + 1)
         /\ \A j \in 1 .. i : Newer(nickname, i + 1, j) = Newer(nickname, i, j)
<1>1. IsFiniteSet(Matches(nickname, i))
  <2>1. IsFiniteSet(1 .. i)
    BY FS_Interval
  <2> QED BY <2>1, FS_Subset DEF Matches
<1>2. Cardinality(Matches(nickname, i)) \in Nat
  BY <1>1, FS_CardinalityType
<1>3. /\ Matches(nickname, i) \subseteq Matches(nickname, i + 1)
      /\ NickOf[Newest(i + 1)] # nickname => Matches(nickname, i + 1) = Matches(nickname, i)
      /\ i + 1 \notin Matches(nickname, i)
      /\ NickOf[Newest(i + 1)] = nickname =>
           /\ i + 1 \in Matches(nickname, i + 1)
           /\ Matches(nickname, i + 1) = Matches(nickname, i) \cup {i + 1}
           /\ {x \in Matches(nickname, i + 1) : x < i + 1} = Matches(nickname, i)
  BY DEF Matches
<1>4. NickOf[Newest(i + 1)] = nickname =>
        Cardinality(Matches(nickname, i + 1)) = Cardinality(Matches(nickname, i)) + 1
  BY <1>1, <1>3, FS_AddElement
<1>5. \A j \in 1 .. i :
        {x \in Matches(nickname, i + 1) : x < j} = {x \in Matches(nickname, i) : x < j}
  BY DEF Matches
<1>6. \A j \in 1 .. i : Newer(nickname, i + 1, j) = Newer(nickname, i, j)
  BY <1>5 DEF Newer
<1> QED BY <1>1, <1>2, <1>3, <1>4, <1>6 DEF Newer

(* After i entries Find has the newest matches among them.                 *)
TookRight(nickname, limit, i) ==
  LET found == Took(nickname, limit, i)
      count == Cardinality(Matches(nickname, i))
  IN /\ Len(found) <= count /\ Len(found) <= Most(limit)
     /\ Len(found) < Most(limit) => Len(found) = count
     /\ \A k \in 1 .. Len(found) : \E j \in Matches(nickname, i) :
          found[k] = Newest(j) /\ Newer(nickname, i, j) = k - 1

LEMMA TookNewest ==
  ASSUME TypeOK, NEW nickname, NEW limit \in Nat, NEW n \in 0 .. Held
  PROVE  TookRight(nickname, limit, n)
<1> DEFINE took(i) == Took(nickname, limit, i)
           S == {i \in Nat : i <= Held => TookRight(nickname, limit, i)}
<1>0. /\ Held \in Nat /\ Most(limit) \in Nat \ {0}
      /\ Find(nickname, limit) = Took(nickname, limit, Held)
      /\ TakesHeld(nickname, limit)
  BY FindTakes
<1>1. 0 \in S
  <2>1. Matches(nickname, 0) = {}
    BY DEF Matches
  <2>2. took(0) = <<>> /\ Cardinality({}) = 0
    BY <1>0, FS_EmptySet DEF TakesHeld
  <2> QED BY <1>0, <2>1, <2>2, SMTT(30) DEF TookRight
<1>2. ASSUME NEW i \in Nat, i \in S PROVE i + 1 \in S
  <2> SUFFICES ASSUME i + 1 <= Held PROVE TookRight(nickname, limit, i + 1)
    OBVIOUS
  <2>1. /\ Held \in Nat /\ i \in 0 .. Held /\ i + 1 \in 1 .. Held /\ (i + 1) - 1 = i
        /\ Most(limit) \in Nat \ {0}
    BY <1>0
  <2>2. TookRight(nickname, limit, i)
    BY <1>2, <2>1
  <2>3. /\ took(i) \in Seq(Entry \cup {Nil})
        /\ took(i + 1) = IF NickOf[Newest(i + 1)] = nickname /\ Len(took(i)) < Most(limit)
                         THEN Append(took(i), Newest(i + 1)) ELSE took(i)
    BY <1>0, <2>1 DEF TakesHeld
  <2>4. \A k \in 1 .. Len(took(i)) : \E j \in Matches(nickname, i + 1) :
          took(i)[k] = Newest(j) /\ Newer(nickname, i + 1, j) = k - 1
    <3> TAKE k \in 1 .. Len(took(i))
    <3>1. PICK j \in Matches(nickname, i) :
            took(i)[k] = Newest(j) /\ Newer(nickname, i, j) = k - 1
      BY <2>2 DEF TookRight
    <3>2. j \in Matches(nickname, i + 1) /\ Newer(nickname, i + 1, j) = Newer(nickname, i, j)
      BY <3>1, MatchesCount, ZenonT(60) DEF Matches
    <3> QED BY <3>1, <3>2
  <2> HIDE DEF took
  <2>5. /\ Len(took(i)) \in Nat /\ Cardinality(Matches(nickname, i)) \in Nat
        /\ Len(took(i)) <= Cardinality(Matches(nickname, i)) /\ Len(took(i)) <= Most(limit)
        /\ Len(took(i)) < Most(limit) => Len(took(i)) = Cardinality(Matches(nickname, i))
    BY <2>2, <2>3, MatchesCount DEF TookRight, took
  <2>6. CASE NickOf[Newest(i + 1)] # nickname
    <3>1. took(i + 1) = took(i) /\ Matches(nickname, i + 1) = Matches(nickname, i)
      BY <2>3, <2>6, MatchesCount
    <3> QED BY <2>4, <2>5, <3>1 DEF TookRight, took
  <2>7. CASE NickOf[Newest(i + 1)] = nickname /\ ~(Len(took(i)) < Most(limit))
    <3>1. took(i + 1) = took(i)
          /\ Cardinality(Matches(nickname, i + 1)) = Cardinality(Matches(nickname, i)) + 1
      BY <2>3, <2>7, MatchesCount
    <3> QED BY <2>1, <2>4, <2>5, <2>7, <3>1 DEF TookRight, took
  <2>8. CASE NickOf[Newest(i + 1)] = nickname /\ Len(took(i)) < Most(limit)
    <3>1. /\ took(i + 1) = Append(took(i), Newest(i + 1))
          /\ i + 1 \in Matches(nickname, i + 1)
          /\ Cardinality(Matches(nickname, i + 1)) = Cardinality(Matches(nickname, i)) + 1
          /\ Newer(nickname, i + 1, i + 1) = Cardinality(Matches(nickname, i))
      BY <2>3, <2>8, MatchesCount
    <3>2. /\ Len(took(i + 1)) = Len(took(i)) + 1
          /\ \A k \in 1 .. Len(took(i)) : took(i + 1)[k] = took(i)[k]
          /\ took(i + 1)[Len(took(i)) + 1] = Newest(i + 1)
      BY <2>3, <3>1
    <3>3. \A k \in 1 .. Len(took(i + 1)) : \E j \in Matches(nickname, i + 1) :
            took(i + 1)[k] = Newest(j) /\ Newer(nickname, i + 1, j) = k - 1
      <4> TAKE k \in 1 .. Len(took(i + 1))
      <4>1. CASE k = Len(took(i)) + 1
        BY <2>5, <2>8, <3>1, <3>2, <4>1
      <4>2. CASE k \in 1 .. Len(took(i))
        BY <2>4, <3>2, <4>2
      <4> QED BY <2>5, <3>2, <4>1, <4>2
    <3> QED BY <2>1, <2>5, <2>8, <3>1, <3>2, <3>3 DEF TookRight, took
  <2> QED BY <2>6, <2>7, <2>8
<1>3. Nat \subseteq S
  <2> HIDE DEF S
  <2> QED BY <1>1, <1>2, SetInduction
<1> QED BY <1>3, Ages

(* Find returns the newest matching entries, up to the limit.              *)
THEOREM FindCorrect == Spec => []FindIsNewestMatches
<1>1. ASSUME TypeOK PROVE FindIsNewestMatches
  <2> SUFFICES ASSUME NEW nickname \in {NickOf[e] : e \in Entry}, NEW limit \in 0 .. N
               PROVE  LET found == Find(nickname, limit)
                          match == Matches(nickname, Held)
                      IN /\ \A k \in 1 .. Len(found) :
                              \E i \in match : /\ found[k] = Newest(i)
                                               /\ Cardinality({j \in match : j < i}) = k - 1
                         /\ \/ Len(found) = Cardinality(match)
                            \/ /\ Len(found) < Cardinality(match)
                               /\ Len(found) = (IF limit = 0 THEN 1 ELSE limit)
    BY <1>1 DEF FindIsNewestMatches, Matches
  <2>1. limit \in Nat /\ Held \in 0 .. Held /\ Most(limit) = IF limit = 0 THEN 1 ELSE limit
    BY <1>1, Ages DEF Most
  <2>2. /\ Find(nickname, limit) = Took(nickname, limit, Held) /\ Held \in Nat
        /\ TakesHeld(nickname, limit)
    BY <1>1, <2>1, FindTakes
  <2>3. /\ Find(nickname, limit) \in Seq(Entry \cup {Nil})
        /\ Cardinality(Matches(nickname, Held)) \in Nat
    BY <2>1, <2>2, MatchesCount DEF TakesHeld
  <2>4. TookRight(nickname, limit, Held)
    BY <1>1, <2>1, TookNewest
  <2> DEFINE found == Find(nickname, limit)
  <2>5. /\ Len(found) \in Nat
        /\ Len(found) <= Cardinality(Matches(nickname, Held)) /\ Len(found) <= Most(limit)
        /\ Len(found) < Most(limit) => Len(found) = Cardinality(Matches(nickname, Held))
    BY <2>2, <2>3, <2>4 DEF TookRight
  <2>6. ASSUME NEW k \in 1 .. Len(found)
        PROVE  \E i \in Matches(nickname, Held) :
                 /\ found[k] = Newest(i)
                 /\ Cardinality({j \in Matches(nickname, Held) : j < i}) = k - 1
    <3>1. PICK i \in Matches(nickname, Held) :
            found[k] = Newest(i) /\ Newer(nickname, Held, i) = k - 1
      BY <2>2, <2>4, <2>6 DEF TookRight
    <3> QED BY <3>1 DEF Newer
  <2> HIDE DEF found
  <2>7. Len(found) = Cardinality(Matches(nickname, Held)) \/
        (Len(found) < Cardinality(Matches(nickname, Held)) /\ Len(found) = Most(limit))
    <3>1. Most(limit) \in Nat /\ Cardinality(Matches(nickname, Held)) \in Nat
      BY <2>3 DEF Most
    <3> QED BY <2>5, <3>1
  <2> QED BY <2>1, <2>6, <2>7 DEF found
<1> QED BY <1>1, TypeCorrect, PTL

-----------------------------------------------------------------------------
(* WhoWasLock: the ring changes by Appends only.                           *)

LEMMA RingStep ==
  ASSUME [LockNext]_lockVars
  PROVE  UNCHANGED ringVars \/
         \E a \in Appender, e \in Entry : LockedAppend(a, e) /\ AppendEntry(e)
<1>1. CASE UNCHANGED lockVars
  BY <1>1 DEF lockVars, ringVars
<1>2. CASE \E f \in Finder, nickname \in Nickname, limit \in Limit : FindBegins(f, nickname, limit)
  BY <1>2 DEF FindBegins, ringVars
<1>3. CASE \E f \in Finder : FindGoesOn(f)
  BY <1>3 DEF FindGoesOn, Hand, RangeEnds, FindReturns, ringVars
<1>4. CASE \E f \in Finder : Walker(f)
  BY <1>4 DEF Walker, WalkerRLock, WalkerBegins, PrevReturns, WalkerLoops, WalkerCloses,
              WalkerEnds, ringVars
<1>5. CASE \E a \in Appender : Announce(a) \/ \E e \in Entry : LockedAppend(a, e)
  BY <1>5 DEF Announce, LockedAppend, ringVars
<1> QED BY <1>1, <1>2, <1>3, <1>4, <1>5 DEF LockNext

(* Among finders, walkers and appenders the list is still the ring.        *)
THEOREM LockImplementsRing == LockSpec => Spec
<1>1. LockInit => Init
  BY DEF LockInit
<1>2. [LockNext]_lockVars => [Next]_ringVars
  BY RingStep DEF Next
<1> QED BY <1>1, <1>2, PTL DEF LockSpec, Spec

-----------------------------------------------------------------------------
(* The inductive invariant of the locking                                  *)

FinderPc == {"start", "range", "return", "done"}
Starting == {"rlock", "look", "prevEnd", "inPrevEnd", "prevBegin", "inPrevBegin"}
Looping  == {"loop", "send", "prevStart", "inPrevStart"}
Ending   == {"close", "runlock", "done"}
WalkerPc == {"none"} \cup Starting \cup Looping \cup Ending
Query    == [nickname : Nickname, limit : Limit]

LockTypes ==
  /\ fpc \in [Finder -> FinderPc] /\ wpc \in [Finder -> WalkerPc]
  /\ query \in [Finder -> Query \cup {None}]
  /\ results \in [Finder -> Seq(Entry \cup {Nil})]
  /\ at \in [Finder -> Slot] /\ stop \in [Finder -> Slot]
  /\ fHolds \in [Finder -> Int] /\ wHolds \in [Finder -> Int]

(* Who is between RLock and RUnlock holds the lock.                        *)
HoldsOf(wp) ==
  IF wp \in {"none", "rlock", "done"} THEN 0
  ELSE IF wp \in {"inPrevEnd", "inPrevBegin", "inPrevStart"} THEN 2 ELSE 1

LocksOK(f) ==
  /\ fHolds[f] = IF fpc[f] \in {"range", "return"} THEN 1 ELSE 0
  /\ wHolds[f] = HoldsOf(wpc[f])
  /\ fpc[f] = "start" <=> wpc[f] = "none"

(* The walker looks at slots of the ring as it is, and in the loop at one  *)
(* that holds an entry.                                                    *)
AgeIn(s, e) == IF s < e THEN e - s ELSE e - s + N

WalkOK(f) ==
  /\ wpc[f] \in {"prevBegin", "inPrevBegin"} => at[f] = prev(end)
  /\ wpc[f] \in Looping => stop[f] = prev(start) /\ AgeIn(at[f], end) <= Held + 1
  /\ wpc[f] \in Looping \ {"loop"} => AgeIn(at[f], end) <= Held

(* How many entries the walker has handed over.                            *)
Handed(wp, age, held) ==
  IF wp \in {"loop", "send"} THEN age - 1
  ELSE IF wp \in {"prevStart", "inPrevStart"} THEN age
  ELSE IF wp \in Ending THEN held ELSE 0

(* Find has what the loop of Find takes of the entries handed over.        *)
FindOK(f) ==
  /\ fpc[f] = "start" => results[f] = <<>>
  /\ fpc[f] \in {"range", "return"} => query[f] \in Query
  /\ fpc[f] = "range" =>
       /\ Len(results[f]) < Most(query[f].limit)
       /\ results[f] = Found(Contents, query[f].nickname, Most(query[f].limit))
                            [Handed(wpc[f], AgeIn(at[f], end), Held)]
  /\ fpc[f] = "return" =>
       results[f] = Found(Contents, query[f].nickname, Most(query[f].limit))[Held]

FinderOK(f) == LocksOK(f) /\ WalkOK(f) /\ FindOK(f)

LockInv == LockTypes /\ \A f \in Finder : FinderOK(f)

LEMMA RingKeep ==
  ASSUME UNCHANGED ringVars
  PROVE  /\ buffer' = buffer /\ start' = start /\ end' = end
         /\ Contents' = Contents /\ Held' = Held
BY DEF ringVars, Contents, Held, Newest

SameFinder(g) ==
  /\ fpc'[g] = fpc[g] /\ wpc'[g] = wpc[g] /\ query'[g] = query[g]
  /\ results'[g] = results[g] /\ at'[g] = at[g] /\ stop'[g] = stop[g]
  /\ fHolds'[g] = fHolds[g] /\ wHolds'[g] = wHolds[g]

LEMMA FinderKeep ==
  ASSUME UNCHANGED ringVars, NEW g \in Finder, SameFinder(g), FinderOK(g)
  PROVE  FinderOK(g)'
<1>1. LocksOK(g)'
  BY DEF FinderOK, LocksOK, SameFinder
<1>2. WalkOK(g)'
  BY RingKeep DEF FinderOK, WalkOK, SameFinder
<1>3. FindOK(g)'
  BY RingKeep DEF FinderOK, FindOK, SameFinder
<1> QED BY <1>1, <1>2, <1>3 DEF FinderOK

LEMMA LockInvInit == LockInit => LockInv
<1> SUFFICES ASSUME LockInit PROVE LockInv
  OBVIOUS
<1>1. LockTypes
  BY WhoWasAssumption DEF LockInit, LockTypes, FinderPc, WalkerPc
<1>2. ASSUME NEW f \in Finder PROVE FinderOK(f)
  <2>1. LocksOK(f)
    BY DEF LockInit, LocksOK, HoldsOf
  <2>2. WalkOK(f)
    BY DEF LockInit, WalkOK, Looping
  <2>3. FindOK(f)
    BY DEF LockInit, FindOK
  <2> QED BY <2>1, <2>2, <2>3 DEF FinderOK
<1> QED BY <1>1, <1>2 DEF LockInv

-----------------------------------------------------------------------------
(* The steps of a walker                                                   *)

LEMMA WalkAges ==
  ASSUME TypeOK
  PROVE  /\ N \in Nat \ {0} /\ Held \in 0 .. N - 1 /\ (start = end => Held = 0)
         /\ AgeIn(prev(end), end) = 1 /\ prev(end) \in Slot /\ prev(start) \in Slot
         /\ \A s \in Slot : /\ AgeIn(s, end) \in 1 .. N
                            /\ prev(s) \in Slot
                            /\ AgeIn(s, end) < N => AgeIn(prev(s), end) = AgeIn(s, end) + 1
                            /\ s = prev(start) <=> AgeIn(s, end) = Held + 1
                            /\ buffer[s] = Newest(AgeIn(s, end))
<1>1. N \in Nat \ {0} /\ start \in Slot /\ end \in Slot
  BY WhoWasAssumption DEF TypeOK
<1> QED BY <1>1 DEF Held, AgeIn, Newest, prev

(* What a step of the walker of f does to f, and leaves of the others.     *)
WalkStep(f) ==
  /\ UNCHANGED <<ringVars, finds, fHolds>>
  /\ LockTypes'
  /\ \A g \in Finder \ {f} : SameFinder(g)
  /\ wpc[f] # "none" /\ wpc'[f] # "none" /\ wHolds'[f] = HoldsOf(wpc'[f])
  /\ WalkOK(f)'
  /\ Handed(wpc'[f], AgeIn(at'[f], end), Held) = Handed(wpc[f], AgeIn(at[f], end), Held)

LEMMA WalkerRLocks ==
  ASSUME TypeOK, LockTypes, NEW f \in Finder, FinderOK(f), NEW from, NEW to,
         WalkerRLock(f, from, to),
         <<from, to>> \in {<<"rlock", "look">>, <<"prevEnd", "inPrevEnd">>,
                         <<"prevBegin", "inPrevBegin">>, <<"prevStart", "inPrevStart">>}
  PROVE  WalkStep(f)
<1>1. /\ wpc[f] = from /\ wpc' = [wpc EXCEPT ![f] = to]
      /\ wHolds' = [wHolds EXCEPT ![f] = @ + 1]
      /\ UNCHANGED <<fHolds, ringVars, finds, at, stop>>
  BY DEF WalkerRLock
<1>2. wpc'[f] = to /\ to \in WalkerPc /\ wHolds'[f] = wHolds[f] + 1
  BY <1>1 DEF LockTypes, WalkerPc, Starting, Looping
<1>3. LockTypes'
  BY <1>1, <1>2 DEF LockTypes, finds
<1>4. \A g \in Finder \ {f} : SameFinder(g)
  BY <1>1 DEF LockTypes, SameFinder, finds
<1>5. wHolds'[f] = HoldsOf(wpc'[f])
  BY <1>1, <1>2 DEF HoldsOf, FinderOK, LocksOK
<1>6. WalkOK(f)'
  BY <1>1, <1>2, RingKeep DEF FinderOK, WalkOK, Looping
<1>7. Handed(to, AgeIn(at'[f], end), Held) = Handed(from, AgeIn(at[f], end), Held)
  BY <1>1 DEF Handed, Ending
<1>8. from # "none" /\ to # "none"
  OBVIOUS
<1> QED BY <1>1, <1>2, <1>3, <1>4, <1>5, <1>6, <1>7, <1>8 DEF WalkStep

LEMMA WalkerPrev ==
  ASSUME TypeOK, LockTypes, NEW f \in Finder, FinderOK(f), NEW from, NEW to,
         PrevReturns(f, from, to),
         <<from, to>> \in {<<"inPrevEnd", "prevBegin">>, <<"inPrevBegin", "loop">>,
                         <<"inPrevStart", "loop">>}
  PROVE  WalkStep(f)
<1>1. /\ wpc[f] = from /\ wpc' = [wpc EXCEPT ![f] = to]
      /\ wHolds' = [wHolds EXCEPT ![f] = @ - 1]
      /\ at' = IF from = "inPrevStart" THEN [at EXCEPT ![f] = prev(@)]
               ELSE IF from = "inPrevEnd" THEN [at EXCEPT ![f] = prev(end)] ELSE at
      /\ stop' = IF from = "inPrevBegin" THEN [stop EXCEPT ![f] = prev(start)] ELSE stop
      /\ UNCHANGED <<fHolds, ringVars, finds>>
  BY DEF PrevReturns
<1>2. wpc'[f] = to /\ to \in WalkerPc /\ wHolds'[f] = wHolds[f] - 1
  BY <1>1 DEF LockTypes, WalkerPc, Starting, Looping
<1>3. /\ at'[f] = IF from = "inPrevStart" THEN prev(at[f])
                  ELSE IF from = "inPrevEnd" THEN prev(end) ELSE at[f]
      /\ stop'[f] = IF from = "inPrevBegin" THEN prev(start) ELSE stop[f]
      /\ at[f] \in Slot /\ at'[f] \in Slot /\ stop'[f] \in Slot
  BY <1>1, WalkAges DEF LockTypes
<1>4. LockTypes'
  <2>1. at' \in [Finder -> Slot] /\ stop' \in [Finder -> Slot]
    BY <1>1, <1>3, WalkAges DEF LockTypes
  <2> QED BY <1>1, <1>2, <2>1 DEF LockTypes, finds
<1>5. \A g \in Finder \ {f} : SameFinder(g)
  BY <1>1 DEF LockTypes, SameFinder, finds
<1>6. wHolds'[f] = HoldsOf(wpc'[f])
  BY <1>1, <1>2 DEF HoldsOf, FinderOK, LocksOK
<1> DEFINE held == Held
           age == AgeIn(at[f], end)
           age2 == AgeIn(at'[f], end)
<1>7. /\ N \in Nat \ {0} /\ held \in 0 .. N - 1 /\ age \in 1 .. N
      /\ from = "inPrevStart" => age <= held /\ age2 = age + 1 /\ stop[f] = prev(start)
      /\ from = "inPrevBegin" => age2 = 1 /\ age = 1
  <2>1. /\ N \in Nat \ {0} /\ held \in 0 .. N - 1 /\ age \in 1 .. N
        /\ age < N => AgeIn(prev(at[f]), end) = age + 1
    BY <1>3, WalkAges
  <2>2. from = "inPrevStart" => age <= held /\ stop[f] = prev(start)
    BY <1>1 DEF FinderOK, WalkOK, Looping
  <2>3. from = "inPrevBegin" => age2 = 1 /\ age = 1
    BY <1>1, <1>3, WalkAges DEF FinderOK, WalkOK
  <2> QED BY <1>3, <2>1, <2>2, <2>3
<1>8. WalkOK(f)'
  <2>1. to = "prevBegin" => at'[f] = prev(end)
    BY <1>3
  <2>2. to = "loop" => stop'[f] = prev(start) /\ AgeIn(at'[f], end) <= Held + 1
    BY <1>3, <1>7
  <2>3. to \in {"prevBegin", "loop"}
    OBVIOUS
  <2> QED BY <1>1, <1>2, <2>1, <2>2, <2>3, RingKeep DEF WalkOK, Looping
<1>9. Handed(to, age2, held) = Handed(from, age, held)
  BY <1>7 DEF Handed, Ending
<1>10. from # "none" /\ to # "none"
  OBVIOUS
<1> QED BY <1>1, <1>2, <1>4, <1>5, <1>6, <1>8, <1>9, <1>10 DEF WalkStep

(* The steps of the walker that neither lock nor write at and stop.        *)
WalkerMoves(f, to) ==
  /\ wpc' = [wpc EXCEPT ![f] = to]
  /\ UNCHANGED <<ringVars, finds, at, stop, fHolds>>

LEMMA WalkerMoved ==
  ASSUME TypeOK, LockTypes, NEW f \in Finder, FinderOK(f), NEW to, WalkerMoves(f, to),
         \/ wHolds' = wHolds /\ HoldsOf(to) = HoldsOf(wpc[f])
         \/ wHolds' = [wHolds EXCEPT ![f] = @ - 1] /\ HoldsOf(to) = HoldsOf(wpc[f]) - 1,
         \/ wpc[f] = "look" /\ to = "close" /\ start = end
         \/ wpc[f] = "look" /\ to = "prevEnd"
         \/ wpc[f] = "loop" /\ to = "close" /\ at[f] = stop[f]
         \/ wpc[f] = "loop" /\ to = "send" /\ at[f] # stop[f]
         \/ wpc[f] = "close" /\ to = "runlock"
         \/ wpc[f] = "runlock" /\ to = "done"
  PROVE  WalkStep(f)
<1>1. wpc'[f] = to /\ to \in WalkerPc /\ wpc[f] # "none" /\ to # "none"
  BY DEF WalkerMoves, LockTypes, WalkerPc, Starting, Looping, Ending
<1>2. /\ UNCHANGED <<ringVars, finds, at, stop, fHolds>>
      /\ wpc' = [wpc EXCEPT ![f] = to]
  BY DEF WalkerMoves
<1>3. LockTypes'
  BY <1>1, <1>2 DEF LockTypes, finds
<1>4. \A g \in Finder \ {f} : SameFinder(g)
  BY <1>2 DEF LockTypes, SameFinder, finds
<1>5. wHolds'[f] = HoldsOf(to)
  BY DEF FinderOK, LocksOK, LockTypes
<1> DEFINE age == AgeIn(at[f], end)
<1>6. /\ N \in Nat \ {0} /\ Held \in 0 .. N - 1 /\ age \in 1 .. N
      /\ start = end => Held = 0
      /\ wpc[f] = "loop" => age <= Held + 1 /\ stop[f] = prev(start)
      /\ wpc[f] = "loop" => (at[f] = stop[f] <=> age = Held + 1)
  <2>1. at[f] \in Slot
    BY DEF LockTypes
  <2>2. wpc[f] = "loop" => age <= Held + 1 /\ stop[f] = prev(start)
    BY DEF FinderOK, WalkOK, Looping
  <2> QED BY <2>1, <2>2, WalkAges
<1>7. WalkOK(f)'
  <2>1. to = "send" => stop'[f] = prev(start) /\ AgeIn(at'[f], end) <= Held
    BY <1>2, <1>6
  <2>2. to \in {"prevEnd", "close", "send", "runlock", "done"}
    OBVIOUS
  <2>3. AgeIn(at'[f], end) <= Held => AgeIn(at'[f], end) <= Held + 1
    <3>1. AgeIn(at'[f], end) = age
      BY <1>2
    <3> HIDE DEF age
    <3> QED BY <1>6, <3>1
  <2> QED BY <1>1, <1>2, <2>1, <2>2, <2>3, RingKeep DEF WalkOK, Looping
<1>8. Handed(to, age, Held) = Handed(wpc[f], age, Held)
  <2> HIDE DEF age
  <2>1. CASE wpc[f] = "loop" /\ to = "close" /\ at[f] = stop[f]
    BY <1>6, <2>1 DEF Handed, Ending
  <2>2. CASE wpc[f] = "look" /\ to = "close" /\ start = end
    BY <1>6, <2>2 DEF Handed, Ending
  <2>3. CASE <<wpc[f], to>> \in {<<"look", "prevEnd">>, <<"loop", "send">>, <<"close", "runlock">>,
                               <<"runlock", "done">>}
    BY <2>3 DEF Handed, Ending
  <2> QED BY <2>1, <2>2, <2>3
<1> QED BY <1>1, <1>2, <1>3, <1>4, <1>5, <1>7, <1>8 DEF WalkStep

LEMMA WalkerSteps ==
  ASSUME TypeOK, LockTypes, NEW f \in Finder, FinderOK(f), Walker(f)
  PROVE  WalkStep(f)
<1>1. CASE \/ WalkerRLock(f, "rlock", "look")
           \/ WalkerRLock(f, "prevEnd", "inPrevEnd")
           \/ WalkerRLock(f, "prevBegin", "inPrevBegin")
           \/ WalkerRLock(f, "prevStart", "inPrevStart")
  BY <1>1, WalkerRLocks
<1>2. CASE \/ PrevReturns(f, "inPrevEnd", "prevBegin")
           \/ PrevReturns(f, "inPrevBegin", "loop")
           \/ PrevReturns(f, "inPrevStart", "loop")
  BY <1>2, WalkerPrev
<1>3. CASE WalkerBegins(f)
  <2> DEFINE to == IF start = end THEN "close" ELSE "prevEnd"
  <2>1. WalkerMoves(f, to) /\ wHolds' = wHolds /\ wpc[f] = "look"
    BY <1>3 DEF WalkerBegins, WalkerMoves, locks
  <2>2. HoldsOf(to) = HoldsOf("look")
    BY DEF HoldsOf
  <2> QED BY <2>1, <2>2, WalkerMoved
<1>4. CASE WalkerLoops(f)
  <2> DEFINE to == IF at[f] = stop[f] THEN "close" ELSE "send"
  <2>1. WalkerMoves(f, to) /\ wHolds' = wHolds /\ wpc[f] = "loop"
    BY <1>4 DEF WalkerLoops, WalkerMoves, locks
  <2>2. HoldsOf(to) = HoldsOf("loop")
    BY DEF HoldsOf
  <2> QED BY <2>1, <2>2, WalkerMoved
<1>5. CASE WalkerCloses(f)
  <2>1. WalkerMoves(f, "runlock") /\ wHolds' = wHolds /\ wpc[f] = "close"
    BY <1>5 DEF WalkerCloses, WalkerMoves, locks
  <2>2. HoldsOf("runlock") = HoldsOf("close")
    BY DEF HoldsOf
  <2> QED BY <2>1, <2>2, WalkerMoved
<1>6. CASE WalkerEnds(f)
  <2>1. /\ WalkerMoves(f, "done") /\ wHolds' = [wHolds EXCEPT ![f] = @ - 1]
        /\ wpc[f] = "runlock"
    BY <1>6 DEF WalkerEnds, WalkerMoves
  <2>2. HoldsOf("done") = HoldsOf("runlock") - 1
    BY DEF HoldsOf
  <2> QED BY <2>1, <2>2, WalkerMoved
<1> QED BY <1>1, <1>2, <1>3, <1>4, <1>5, <1>6 DEF Walker

(* A walker's step keeps the finder's part of the invariant: what it has   *)
(* handed over does not change.                                            *)
LEMMA WalkerKeeps ==
  ASSUME TypeOK, LockInv, NEW f \in Finder, Walker(f)
  PROVE  LockInv'
<1>1. WalkStep(f)
  BY WalkerSteps DEF LockInv
<1>2. UNCHANGED ringVars /\ fpc' = fpc /\ query' = query /\ results' = results
      /\ fHolds' = fHolds /\ LockTypes'
  BY <1>1 DEF WalkStep, finds
<1>3. FinderOK(f)'
  <2>1. LocksOK(f)'
    BY <1>1, <1>2 DEF WalkStep, LockInv, FinderOK, LocksOK
  <2>2. FindOK(f)'
    BY <1>1, <1>2, RingKeep DEF WalkStep, LockInv, FinderOK, FindOK
  <2> QED BY <1>1, <2>1, <2>2 DEF WalkStep, FinderOK
<1>4. ASSUME NEW g \in Finder \ {f} PROVE FinderOK(g)'
  BY <1>1, <1>2, FinderKeep DEF WalkStep, LockInv
<1> QED BY <1>2, <1>3, <1>4 DEF LockInv

-----------------------------------------------------------------------------
(* The steps of a finder                                                   *)

(* Once it has as many as asked for, Find takes no more.                   *)
LEMMA TookFull ==
  ASSUME TypeOK, NEW nickname, NEW limit \in Nat, NEW i \in 0 .. Held,
         Len(Took(nickname, limit, i)) >= Most(limit)
  PROVE  Took(nickname, limit, Held) = Took(nickname, limit, i)
<1> DEFINE took(j) == Took(nickname, limit, j)
           S == {n \in Nat : i + n <= Held => took(i + n) = took(i)}
<1>1. Held \in Nat /\ TakesHeld(nickname, limit)
  BY FindTakes
<1>2. 0 \in S
  OBVIOUS
<1>3. ASSUME NEW n \in Nat, n \in S PROVE n + 1 \in S
  <2> SUFFICES ASSUME i + (n + 1) <= Held PROVE took(i + (n + 1)) = took(i)
    OBVIOUS
  <2>1. took(i + n) = took(i) /\ i + (n + 1) \in 1 .. Held /\ (i + (n + 1)) - 1 = i + n
    BY <1>1, <1>3
  <2>2. took(i + (n + 1)) =
          IF NickOf[Newest(i + (n + 1))] = nickname /\ Len(took(i + n)) < Most(limit)
          THEN Append(took(i + n), Newest(i + (n + 1))) ELSE took(i + n)
    BY <1>1, <2>1 DEF TakesHeld
  <2>3. ~(Len(took(i)) < Most(limit))
    <3>1. took(i) \in Seq(Entry \cup {Nil}) /\ Most(limit) \in Nat
      BY <1>1, FindTakes DEF TakesHeld
    <3> QED BY <3>1
  <2> QED BY <2>1, <2>2, <2>3
<1>4. Nat \subseteq S
  <2> HIDE DEF S
  <2> QED BY <1>2, <1>3, SetInduction
<1>5. Held - i \in Nat /\ i + (Held - i) = Held
  BY <1>1
<1>6. Held - i \in S
  <2> HIDE DEF S
  <2> QED BY <1>4, <1>5
<1>7. i + (Held - i) <= Held
  BY <1>1, <1>5
<1> QED BY <1>5, <1>6, <1>7

LEMMA FindBeginsKeeps ==
  ASSUME TypeOK, LockInv, NEW f \in Finder, NEW nickname \in Nickname, NEW limit \in Limit,
         FindBegins(f, nickname, limit)
  PROVE  LockInv'
<1> DEFINE q == [nickname |-> nickname, limit |-> limit]
<1>1. /\ fpc[f] = "start" /\ fpc' = [fpc EXCEPT ![f] = "range"]
      /\ query' = [query EXCEPT ![f] = q]
      /\ fHolds' = [fHolds EXCEPT ![f] = 1]
      /\ wpc' = [wpc EXCEPT ![f] = "rlock"]
      /\ UNCHANGED <<wHolds, ringVars, results, at, stop>>
  BY DEF FindBegins
<1>2. q \in Query /\ q.nickname = nickname /\ q.limit = limit /\ limit \in Nat
  BY WhoWasLockAssumption DEF Query
<1> HIDE DEF q
<1>3. /\ fpc'[f] = "range" /\ query'[f] = q /\ fHolds'[f] = 1 /\ wpc'[f] = "rlock"
      /\ wHolds'[f] = wHolds[f] /\ results'[f] = results[f]
  BY <1>1 DEF LockInv, LockTypes
<1>4. LockTypes'
  BY <1>1, <1>2 DEF LockInv, LockTypes, FinderPc, WalkerPc, Starting
<1>5. ASSUME NEW g \in Finder \ {f} PROVE FinderOK(g)'
  <2>1. SameFinder(g)
    BY <1>1 DEF LockInv, LockTypes, SameFinder
  <2> QED BY <1>1, <2>1, FinderKeep DEF LockInv
<1>6. LocksOK(f)'
  BY <1>1, <1>3 DEF LockInv, FinderOK, LocksOK, HoldsOf
<1>7. WalkOK(f)'
  BY <1>3 DEF WalkOK, Looping
<1>8. FindOK(f)'
  <2>1. results[f] = <<>>
    BY <1>1 DEF LockInv, FinderOK, FindOK
  <2>2. Found(Contents, nickname, Most(limit))[0] = <<>> /\ Most(limit) \in Nat \ {0}
    BY <1>2, FindTakes DEF TakesHeld, Took
  <2>3. Handed("rlock", AgeIn(at'[f], end'), Held') = 0
    BY DEF Handed, Ending
  <2>4. Len(<<>>) < Most(limit)
    BY <2>2
  <2> QED BY <1>1, <1>2, <1>3, <2>1, <2>2, <2>3, <2>4, RingKeep DEF FindOK
<1> QED BY <1>4, <1>5, <1>6, <1>7, <1>8 DEF LockInv, FinderOK

(* Find ends its loop, or gives the lock back.                             *)
LEMMA FindEndsKeeps ==
  ASSUME TypeOK, LockInv, NEW f \in Finder, RangeEnds(f) \/ FindReturns(f)
  PROVE  LockInv'
<1> DEFINE to == IF RangeEnds(f) THEN "return" ELSE "done"
<1>1. /\ fpc' = [fpc EXCEPT ![f] = to] /\ to \in FinderPc
      /\ fpc[f] \in {"range", "return"}
      /\ UNCHANGED <<wHolds, ringVars, query, results, wpc, at, stop>>
      /\ fHolds' = fHolds \/ fHolds' = [fHolds EXCEPT ![f] = 0]
  BY DEF RangeEnds, FindReturns, FinderPc, walks, locks
<1>2. to = "return" =>
        fpc[f] = "range" /\ wpc[f] \in {"runlock", "done"} /\ fHolds' = fHolds
  BY DEF RangeEnds, locks
<1>3. to = "done" => fHolds' = [fHolds EXCEPT ![f] = 0]
  BY DEF FindReturns
<1>4. to \in {"return", "done"}
  OBVIOUS
<1> HIDE DEF to
<1>5. fpc'[f] = to
  BY <1>1 DEF LockInv, LockTypes
<1>6. LockTypes'
  BY <1>1 DEF LockInv, LockTypes
<1>7. ASSUME NEW g \in Finder \ {f} PROVE FinderOK(g)'
  <2>1. SameFinder(g)
    BY <1>1 DEF LockInv, LockTypes, SameFinder
  <2> QED BY <1>1, <2>1, FinderKeep DEF LockInv
<1>8. LocksOK(f)'
  <2>1. to = "return" => fHolds'[f] = 1
    BY <1>2 DEF LockInv, FinderOK, LocksOK
  <2>2. to = "done" => fHolds'[f] = 0
    BY <1>3 DEF LockInv, LockTypes
  <2>3. wpc[f] # "none" /\ wHolds[f] = HoldsOf(wpc[f])
    BY <1>1 DEF LockInv, FinderOK, LocksOK
  <2> QED BY <1>1, <1>4, <1>5, <2>1, <2>2, <2>3 DEF LocksOK
<1>9. WalkOK(f)'
  BY <1>1, RingKeep DEF LockInv, FinderOK, WalkOK
<1>10. FindOK(f)'
  <2>1. fpc[f] = "range" => query[f] \in Query
    BY DEF LockInv, FinderOK, FindOK
  <2>2. fpc[f] = "range" /\ wpc[f] \in {"runlock", "done"} =>
          results[f] = Found(Contents, query[f].nickname, Most(query[f].limit))[Held]
    BY DEF LockInv, FinderOK, FindOK, Handed, Ending
  <2> QED BY <1>1, <1>2, <1>4, <1>5, <2>1, <2>2, RingKeep DEF FindOK
<1> QED BY <1>6, <1>7, <1>8, <1>9, <1>10 DEF LockInv, FinderOK

(* An entry handed over: Find takes what the loop of Find takes of it, and *)
(* breaks when it has as many as asked for.                                *)
LEMMA HandTakes ==
  ASSUME TypeOK, LockInv, NEW f \in Finder, Hand(f)
  PROVE  /\ results' \in [Finder -> Seq(Entry \cup {Nil})] /\ fpc'[f] \in {"range", "return"}
         /\ AgeIn(at[f], end) \in 0 .. Held
         /\ results'[f] = Took(query[f].nickname, query[f].limit, AgeIn(at[f], end))
         /\ fpc'[f] = "range" => Len(results'[f]) < Most(query[f].limit)
         /\ fpc'[f] = "return" => Len(results'[f]) >= Most(query[f].limit)
<1> DEFINE e == buffer[at[f]]
           n == query[f].nickname
           l == query[f].limit
           age == AgeIn(at[f], end)
           more == Append(results[f], e)
<1>1. /\ wpc[f] = "send" /\ fpc[f] = "range"
      /\ \/ NickOf[e] # n /\ UNCHANGED <<results, fpc>>
         \/ /\ NickOf[e] = n
            /\ results' = [results EXCEPT ![f] = more]
            /\ fpc' = [fpc EXCEPT ![f] = IF Len(more) >= l THEN "return" ELSE "range"]
  BY DEF Hand
<1>2. at[f] \in Slot /\ results[f] \in Seq(Entry \cup {Nil}) /\ query[f] \in Query
  BY <1>1 DEF LockInv, LockTypes, FinderOK, FindOK
<1>3. l \in Nat /\ Held \in Nat /\ Most(l) \in Nat \ {0} /\ TakesHeld(n, l)
  <2>1. l \in Nat
    BY <1>2, WhoWasLockAssumption DEF Query
  <2> HIDE DEF n, l
  <2> QED BY <2>1, FindTakes
<1>4. age \in 1 .. Held /\ e = Newest(age) /\ e \in Entry \cup {Nil}
  <2>1. age \in 1 .. N /\ e = Newest(age) /\ Held \in Nat /\ N \in Nat
    <3>1. N \in Nat \ {0} /\ Held \in 0 .. N - 1
      BY WalkAges
    <3>2. age \in 1 .. N /\ e = Newest(age)
      BY <1>2, WalkAges
    <3> QED BY <3>1, <3>2
  <2>2. age <= Held
    BY <1>1 DEF LockInv, FinderOK, WalkOK, Looping
  <2>3. e \in Entry \cup {Nil}
    BY <1>2 DEF TypeOK
  <2> HIDE DEF age, e
  <2> QED BY <2>1, <2>2, <2>3
<1>5. results[f] = Took(n, l, age - 1) /\ Len(results[f]) < Most(l)
  BY <1>1 DEF LockInv, FinderOK, FindOK, Handed, Took
<1> HIDE DEF e, n, l, age
<1>6. Took(n, l, age) = IF NickOf[e] = n THEN more ELSE results[f]
  BY <1>3, <1>4, <1>5 DEF TakesHeld
<1>7. more \in Seq(Entry \cup {Nil}) /\ Len(more) = Len(results[f]) + 1 /\ Len(results[f]) \in Nat
  BY <1>2, <1>4
<1>8. CASE NickOf[e] # n
  <2>1. results' = results /\ fpc' = fpc
    BY <1>1, <1>8
  <2> QED BY <1>1, <1>4, <1>5, <1>6, <1>8, <2>1 DEF LockInv, LockTypes, n, l, age
<1>9. CASE NickOf[e] = n
  <2>1. /\ results' = [results EXCEPT ![f] = more]
        /\ fpc' = [fpc EXCEPT ![f] = IF Len(more) >= l THEN "return" ELSE "range"]
    BY <1>1, <1>9
  <2> HIDE DEF more
  <2>2. /\ results' \in [Finder -> Seq(Entry \cup {Nil})] /\ results'[f] = more
        /\ fpc'[f] = IF Len(more) >= l THEN "return" ELSE "range"
    BY <1>7, <2>1 DEF LockInv, LockTypes
  <2>3. (Len(more) >= l => Len(more) >= Most(l)) /\ (~(Len(more) >= l) => Len(more) < Most(l))
    BY <1>3, <1>7 DEF Most
  <2> QED BY <1>4, <1>6, <1>9, <2>2, <2>3 DEF n, l, age
<1> QED BY <1>8, <1>9

LEMMA HandKeeps ==
  ASSUME TypeOK, LockInv, NEW f \in Finder, Hand(f)
  PROVE  LockInv'
<1> DEFINE age == AgeIn(at[f], end)
<1>1. /\ wpc[f] = "send" /\ fpc[f] = "range" /\ wpc' = [wpc EXCEPT ![f] = "prevStart"]
      /\ UNCHANGED <<ringVars, fHolds, wHolds, query, at, stop>>
      /\ \/ UNCHANGED <<results, fpc>>
         \/ /\ \E r : results' = [results EXCEPT ![f] = r]
            /\ \E t \in FinderPc : fpc' = [fpc EXCEPT ![f] = t]
  BY DEF Hand, locks, FinderPc
<1>2. wpc'[f] = "prevStart" /\ fpc'[f] \in {"range", "return"}
      /\ query[f] \in Query /\ query[f].limit \in Nat
  BY <1>1, HandTakes, WhoWasLockAssumption DEF LockInv, LockTypes, FinderOK, FindOK, Query
<1>3. LockTypes'
  BY <1>1, <1>2, HandTakes, ZenonT(60) DEF LockInv, LockTypes, WalkerPc, Looping, FinderPc
<1>4. ASSUME NEW g \in Finder \ {f} PROVE FinderOK(g)'
  <2>1. SameFinder(g)
    BY <1>1 DEF LockInv, LockTypes, SameFinder
  <2> QED BY <1>1, <2>1, FinderKeep DEF LockInv
<1>5. LocksOK(f)'
  BY <1>1, <1>2 DEF LockInv, FinderOK, LocksOK, HoldsOf
<1>6. WalkOK(f)'
  BY <1>1, <1>2, RingKeep DEF LockInv, FinderOK, WalkOK, Looping
<1>7. FindOK(f)'
  <2>1. /\ age \in 0 .. Held /\ results'[f] = Took(query[f].nickname, query[f].limit, age)
        /\ fpc'[f] = "range" => Len(results'[f]) < Most(query[f].limit)
        /\ fpc'[f] = "return" => Len(results'[f]) >= Most(query[f].limit)
    BY HandTakes
  <2>2. fpc'[f] = "return" => results'[f] = Took(query[f].nickname, query[f].limit, Held)
    BY <1>2, <2>1, TookFull
  <2>3. Handed(wpc'[f], AgeIn(at'[f], end'), Held') = age
    BY <1>1, <1>2, RingKeep DEF Handed
  <2> HIDE DEF age
  <2> QED BY <1>1, <1>2, <2>1, <2>2, <2>3, RingKeep DEF FindOK, Took
<1> QED BY <1>3, <1>4, <1>5, <1>6, <1>7 DEF LockInv, FinderOK

-----------------------------------------------------------------------------
(* The step of an appender: with no reader there is nobody to disturb.     *)
LEMMA AppendKeeps ==
  ASSUME LockInv, NEW a \in Appender, NEW e \in Entry, LockedAppend(a, e)
  PROVE  LockInv'
<1>1. NoReaders /\ UNCHANGED <<fHolds, wHolds, finds, walks>>
  BY DEF LockedAppend
<1>2. LockTypes'
  BY <1>1 DEF LockInv, LockTypes, finds, walks
<1>3. ASSUME NEW f \in Finder PROVE FinderOK(f)'
  <2>1. fpc'[f] \in {"start", "done"} /\ wpc'[f] \in {"none", "rlock", "done"}
    <3>1. fHolds[f] = 0 /\ wHolds[f] = 0
      BY <1>1 DEF NoReaders
    <3>2. fpc[f] \in FinderPc \ {"range", "return"}
      BY <3>1 DEF LockInv, LockTypes, FinderOK, LocksOK
    <3>3. wpc[f] \in {"none", "rlock", "done"}
      BY <3>1 DEF LockInv, FinderOK, LocksOK, HoldsOf
    <3> QED BY <1>1, <3>2, <3>3 DEF FinderPc, finds, walks
  <2>2. LocksOK(f)'
    BY <1>1 DEF LockInv, FinderOK, LocksOK, finds, walks
  <2>3. WalkOK(f)'
    BY <2>1 DEF WalkOK, Looping
  <2>4. FindOK(f)'
    BY <1>1, <2>1 DEF LockInv, FinderOK, FindOK, finds
  <2> QED BY <2>2, <2>3, <2>4 DEF FinderOK
<1> QED BY <1>2, <1>3 DEF LockInv

LEMMA LockInvStep ==
  ASSUME TypeOK, LockInv, [LockNext]_lockVars
  PROVE  LockInv'
<1>1. CASE UNCHANGED <<ringVars, finds, walks, fHolds, wHolds>>
  <2>1. LockTypes'
    BY <1>1 DEF LockInv, LockTypes, finds, walks
  <2>2. \A f \in Finder : SameFinder(f)
    BY <1>1 DEF SameFinder, finds, walks
  <2> QED BY <1>1, <2>1, <2>2, FinderKeep DEF LockInv
<1>2. CASE UNCHANGED lockVars
  BY <1>1, <1>2 DEF lockVars, locks
<1>3. CASE \E f \in Finder, nickname \in Nickname, limit \in Limit : FindBegins(f, nickname, limit)
  BY <1>3, FindBeginsKeeps
<1>4. CASE \E f \in Finder : FindGoesOn(f)
  BY <1>4, HandKeeps, FindEndsKeeps DEF FindGoesOn
<1>5. CASE \E f \in Finder : Walker(f)
  BY <1>5, WalkerKeeps
<1>6. CASE \E a \in Appender : Announce(a)
  BY <1>1, <1>6 DEF Announce
<1>7. CASE \E a \in Appender, e \in Entry : LockedAppend(a, e)
  BY <1>7, AppendKeeps
<1> QED BY <1>2, <1>3, <1>4, <1>5, <1>6, <1>7 DEF LockNext

LEMMA LockAlways == LockSpec => [](TypeOK /\ LockInv)
<1>1. LockSpec => []TypeOK
  BY LockImplementsRing, TypeCorrect, PTL
<1>2. TypeOK /\ LockInv /\ [LockNext]_lockVars => LockInv'
  BY LockInvStep
<1> QED BY <1>1, <1>2, LockInvInit, PTL DEF LockSpec

(* The ring does not move under a walker.                                  *)
THEOREM WalkerCorrect == LockSpec => []WalkerOnRing
<1>1. TypeOK /\ LockInv => WalkerOnRing
  BY DEF LockInv, FinderOK, WalkOK, WalkerOnRing, Looping
<1> QED BY <1>1, LockAlways, PTL

(* WHOWAS answers with the search of the ring as it is when Find returns.  *)
THEOREM AnswerCorrect == LockSpec => []FindAnswers
<1>1. ASSUME TypeOK, LockInv, NEW f \in Finder, fpc[f] = "return"
      PROVE  results[f] = Find(query[f].nickname, query[f].limit)
  <2>1. query[f].limit \in Nat
    BY <1>1, WhoWasLockAssumption DEF LockInv, FinderOK, FindOK, Query
  <2>2. results[f] = Took(query[f].nickname, query[f].limit, Held)
    BY <1>1 DEF LockInv, FinderOK, FindOK, Took
  <2> QED BY <1>1, <2>1, <2>2, FindTakes
<1>2. TypeOK /\ LockInv => FindAnswers
  BY <1>1 DEF FindAnswers
<1> QED BY <1>2, LockAlways, PTL
=============================================================================
