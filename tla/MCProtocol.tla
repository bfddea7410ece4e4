----------------------------- MODULE MCProtocol -----------------------------
(* What a single client's lines mean and do: the parser, the negotiation   *)
(* before registration, the modes it may set, and the replies in several   *)
(* lines.  They have no state in common here: a behaviour runs one of      *)
(* them, chosen at the start, and the others rest in an initial state.     *)
EXTENDS MCSessions, Negotiation, Parsing, ReplyLines

VARIABLE part

MCInit ==
  /\ part \in {"sessions", "negotiation", "parsing", "reply"}
  /\ Init /\ NegotiationInit
  /\ part = "negotiation" \/ permitted
  /\ part = "parsing" \/ opening = CHOOSE o \in Opening : TRUE
  /\ part = "reply" \/ (names = <<>> /\ argLen = CHOOSE n \in ArgLength : TRUE)
  /\ ParsingInit /\ ReplyInit

Runs(p, next, theirs) == part = p /\ next /\ UNCHANGED <<part, theirs>>

MCNext ==
  \/ Runs("sessions", Next, <<negotiationVars, parsingVars, replyVars>>)
  \/ Runs("negotiation", NegotiationNext, <<sessionVars, parsingVars, replyVars>>)
  \/ Runs("parsing", ParsingNext, <<sessionVars, negotiationVars, replyVars>>)
  \/ Runs("reply", ReplyNext, <<sessionVars, negotiationVars, parsingVars>>)

MCSpec == MCInit /\ [][MCNext]_<<part, sessionVars, negotiationVars, parsingVars, replyVars>>

-----------------------------------------------------------------------------
(* Negotiation: one account, and a name that is none.                      *)
MCPasswords == "joe" :> "p"

(* ReplyLines: empty and long names, up to five of them.                   *)
MCNames == UNION {[1 .. n -> 0 .. 4] : n \in 0 .. 5}

(* Parsing: every command word with words, lists and a trailing argument;  *)
(* lines without a command word; and longer lines for the commands with    *)
(* lists, changes and numbers.  "ff" stands for a compatibility character, *)
(* whose normal form is "f".                                               *)
MCLetter == {"c", "d", "f", "o", "n", "i", "0", "4", "8"}
MCWord ==
  {"AUTHENTICATE", "AWAY", "CAP", "INVITE", "ISON", "KILL", "LIST", "MOTD", "NAMES", "NICK",
   "NOTICE", "ONICK", "OPER", "REHASH", "PART", "PASS", "PING", "PONG", "PRIVMSG", "QUIT",
   "TIME", "LUSERS", "TOPIC", "USER", "VERSION", "WALLOPS", "WHO", "WHOIS", "WHOWAS"}
MCToken ==
  {" ", ":", ",", "#", "+", "-", "ff", "mode", "MODE", "JOIN", "KICK"} \cup MCLetter \cup MCWord
MCUpper == [t \in MCToken |-> IF t = "mode" THEN "MODE" ELSE t]
MCNFKC == [t \in MCToken |-> IF t = "ff" THEN "f" ELSE t]
MCNFC == [t \in MCToken |-> t]

Opens(text, alphabet, most) == [line |-> text, alphabet |-> alphabet, most |-> most]
MCOpening ==
  {Opens(<<word>>, {" ", ":", ",", "ff"}, 4) : word \in MCWord}
    \cup {Opens(<<t>>, {" ", ":", ",", "o"}, 5) : t \in {" ", ":", "c"}}
    \cup {Opens(<<word, " ">>, {" ", ",", "c", "d"}, 6) : word \in {"JOIN", "KICK"}}
    \cup {Opens(<<"JOIN", " ">>, {" ", ",", "ff", "f", "0"}, 4),
          Opens(<<"JOIN", " ", "c", ",">>, {" ", ",", "c", "d"}, 5),
          Opens(<<"MODE", " ", "#", "c", " ">>, {" ", "+", "-", "o", "n"}, 4),
          Opens(<<"MODE", " ", "#", "c", " ", "+", "o">>, {" ", "+", "-", "o", "n"}, 5),
          Opens(<<"mode", " ", "c", " ">>, {" ", ":", "+", "-", "i", "o"}, 4),
          Opens(<<"USER", " ", "c", " ">>, {" ", "0", "4", "8", "-"}, 4),
          Opens(<<"WHOWAS", " ", "c", " ">>, {" ", "4", "-", "c"}, 3)}
=============================================================================
