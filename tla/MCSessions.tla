----------------------------- MODULE MCSessions -----------------------------
(* Three connections and four spellings of two nicknames; the last        *)
(* spelling is one that IsNickname refuses.                                *)
EXTENDS Sessions, TLC

MCKey  == {"a", "b"}
MCNick == {"a", "A", "b", "1"}
MCValidNick == {"a", "A", "b"}
MCFold == [n \in MCNick |-> IF n \in {"a", "A"} THEN "a" ELSE "b"]
MCNoModes == {}
MCModes == {"w", "a"}
MCAway == {"a"}
MCSymmetry == Permutations(Client)

(* Of the modes the actions and the invariants read only who is an         *)
(* operator.                                                               *)
MCSessionView ==
  <<conn, blockedOn, connections, nicks, nick, hasUser, authorized, capState, registered,
    {c \in Client : IsOperator(c)}>>
=============================================================================
