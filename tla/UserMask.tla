------------------------------ MODULE UserMask ------------------------------
(***************************************************************************)
(* UserMaskSet: the masks of a ban, except or invite list and the regular  *)
(* expression setRegexp compiles from them after every change.  Masks and  *)
(* user hosts are sequences of characters; in a mask "*" stands for any    *)
(* characters and "?" for one.  The runs give it short sequences over two  *)
(* letters: which alternatives of the expression are empty and where it is *)
(* anchored does not depend on what the letters are.                       *)
(***************************************************************************)
EXTENDS Naturals, Sequences, FiniteSets

CONSTANTS Mask,       \* the masks a run adds and removes
          UserHost,   \* the user hosts a run matches
          NoRegexp    \* a nil *regexp.Regexp

ASSUME UserMaskAssumption ==
  /\ IsFiniteSet(Mask) /\ UserHost \subseteq Seq(STRING)
  /\ NoRegexp \notin Seq(Mask \cup {<<>>})

VARIABLES masks, regexp

maskVars == <<masks, regexp>>

-----------------------------------------------------------------------------
(* Does the expression of a mask match the whole text?  The first i        *)
(* characters of it may come to these positions of the text.               *)
Full(expr, text) ==
  LET come[i \in 0 .. Len(expr)] ==
        CASE i = 0 -> {0}
          [] i > 0 /\ expr[i] = "*" -> {k \in 0 .. Len(text) : \E j \in come[i - 1] : j <= k}
          [] OTHER -> {k \in 1 .. Len(text) :
                         k - 1 \in come[i - 1] /\ expr[i] \in {"?", text[k]}}
  IN Len(text) \in come[Len(expr)]

(* regexp.MatchString of "^" + alternatives joined by "|" + "$": the first *)
(* alternative is tied to the start of the text and the last to its end;   *)
(* each matches if it matches some part of the text in that position.      *)
MatchString(alternatives, text) ==
  \E i \in 1 .. Len(alternatives) :
    \E first \in 1 .. Len(text) + 1 : \E last \in first - 1 .. Len(text) :
      /\ i = 1 => first = 1
      /\ i = Len(alternatives) => last = Len(text)
      /\ Full(alternatives[i], SubSeq(text, first, last))

(* setRegexp: the map is walked in any order, and as the index never moves *)
(* every mask is written to the first place; the others stay empty.        *)
setRegexp(set) ==
  IF set = {} THEN regexp' = NoRegexp
  ELSE \E lastMask \in set :
         regexp' = [i \in 1 .. Cardinality(set) |-> IF i = 1 THEN lastMask ELSE <<>>]

-----------------------------------------------------------------------------
MaskInit ==
  /\ masks = {}
  /\ regexp = NoRegexp

Add(mask) ==
  /\ mask \notin masks
  /\ masks' = masks \cup {mask}
  /\ setRegexp(masks')

AddAll(new) ==
  /\ masks' = masks \cup new
  /\ setRegexp(masks')

Remove(mask) ==
  /\ mask \in masks
  /\ masks' = masks \ {mask}
  /\ setRegexp(masks')

(* Mutant of Match: an empty list matches everybody.                       *)
MatchEmpty(userhost) == regexp = NoRegexp \/ MatchString(regexp, userhost)

Match(userhost) == regexp # NoRegexp /\ MatchString(regexp, userhost)

MaskNext ==
  \/ \E mask \in Mask : Add(mask) \/ Remove(mask)
  \/ \E new \in SUBSET Mask : AddAll(new)

MaskSpec == MaskInit /\ [][MaskNext]_maskVars

-----------------------------------------------------------------------------
(* What Channels takes Match to be: with one mask in the list it is that   *)
(* mask, with none nothing matches, and with more everything does,         *)
(* whatever was added and removed before and in whatever order the map     *)
(* was walked.                                                             *)
MatchByCount ==
  \A userhost \in UserHost :
    Match(userhost) <=>
      Cardinality(masks) > 1 \/ \E mask \in masks : Full(mask, userhost)

(* setRegexp: "finally all masks are joined into a big or-expression".     *)
MatchIsOr ==
  \A userhost \in UserHost :
    Match(userhost) <=> \E mask \in masks : Full(mask, userhost)
=============================================================================
