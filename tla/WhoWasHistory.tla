--------------------------- MODULE WhoWasHistory ---------------------------
(***************************************************************************)
(* What the WHOWAS list promises: it remembers the newest entries, newest  *)
(* first, up to a fixed number of them.                                    *)
(***************************************************************************)
EXTENDS Naturals, Sequences

CONSTANTS Entry,     \* what is remembered of a client
          Capacity   \* how many entries are remembered

VARIABLE history

HistoryInit == history = <<>>

Remember(e) ==
  LET longer == <<e>> \o history
  IN history' = SubSeq(longer, 1, IF Len(longer) <= Capacity
                                  THEN Len(longer) ELSE Capacity)

HistoryNext == \E e \in Entry : Remember(e)

HistorySpec == HistoryInit /\ [][HistoryNext]_history
=============================================================================
