------------------------------ MODULE Parsing ------------------------------
(***************************************************************************)
(* From a line the peer has sent to the command that is run: ParseLine     *)
(* cuts it into the command word and its arguments, and the constructor of *)
(* the word makes the command.  A text is a sequence of tokens: a space, a *)
(* colon, a comma, a sign, a letter or digit, or a whole command word.  A  *)
(* command is a record of its fields; Go's nil command is NotEnoughArgs or *)
(* ErrParse.  Fields a line does not give keep Go's zero value.            *)
(***************************************************************************)
EXTENDS Integers, Sequences, FiniteSets

Seqs == INSTANCE SequencesExt

CONSTANTS
  Token,     \* what a line is made of
  Letter,    \* tokens that are letters or digits
  Upper,     \* strings.ToUpper, token by token
  NFKC,      \* norm.NFKC, token by token
  NFC,       \* norm.NFC, token by token
  Opening    \* the lines a peer begins with: [line, alphabet, most]

ASSUME ParsingAssumption ==
  /\ {" ", ":", ","} \subseteq Token /\ Letter \subseteq Token
  /\ Upper \in [Token -> Token] /\ NFKC \in [Token -> Token] /\ NFC \in [Token -> Token]
  /\ \A t \in Token : NFKC[NFC[t]] = NFKC[t] /\ NFC[NFKC[t]] = NFKC[t]
  /\ \A t \in Token : NFKC[NFKC[t]] = NFKC[t]
  /\ Opening \subseteq [line : Seq(Token), alphabet : SUBSET Token, most : Nat]

VARIABLES
  line,      \* what the peer has typed
  opening,   \* what it began with
  cmd        \* the command it would be
parsingVars == <<line, opening, cmd>>

Mapped(f, text) == [i \in DOMAIN text |-> f[text[i]]]
NewName(text) == Mapped(NFKC, text)
NewText(text) == Mapped(NFC, text)
NewNames(texts) == [i \in DOMAIN texts |-> NewName(texts[i])]

IsChannel(name) ==
  /\ Len(name) > 1 /\ name[1] \in {"&", "!", "#", "+"}
  /\ \A i \in 2 .. Len(name) : name[i] \in Letter

(* strings.Split: one item more than there are separators.  Each item ends *)
(* before the next separator or with the text.                             *)
Split(text, sep) ==
  LET cuts == {i \in DOMAIN text : text[i] = sep}
      end[i \in 0 .. Cardinality(cuts) + 1] ==
        IF i = 0 THEN 0
        ELSE LET before == end[i - 1]
             IN Seqs!Min({j \in cuts : j > before} \cup {Len(text) + 1})
  IN [i \in 1 .. Cardinality(cuts) + 1 |-> SubSeq(text, end[i - 1] + 1, end[i] - 1)]

-----------------------------------------------------------------------------
(* Mutant of splitArg: one space ends an argument, not a run of spaces.    *)
splitArgAtSpace(text) ==
  LET end == Seqs!SelectInSeq(text, LAMBDA t : t = " ")
  IN IF end = 0 THEN <<text, <<>>>>
     ELSE <<SubSeq(text, 1, end - 1), SubSeq(text, end + 1, Len(text))>>

(* The text before the first run of spaces and the text after it.          *)
splitArg(text) ==
  LET end == Seqs!SelectInSeq(text, LAMBDA t : t = " ")
      rest == SubSeq(text, end, Len(text))
      spaces == Seqs!SelectInSeq(rest, LAMBDA t : t # " ")
  IN CASE end = 0 -> <<text, <<>>>>
       [] end # 0 /\ spaces = 0 -> <<SubSeq(text, 1, end - 1), <<>>>>
       [] OTHER -> <<SubSeq(text, 1, end - 1), SubSeq(rest, spaces, Len(rest))>>

Begins(text, token) == text # <<>> /\ text[1] = token

(* One round of the loop of ParseLine: the argument and the text after it. *)
(* A colon takes all of it.                                                *)
nextArg(text) == IF Begins(text, ":") THEN <<Tail(text), <<>>>> ELSE splitArg(text)

ParseArgs(text) ==
  LET rest[i \in 0 .. Len(text)] ==
        IF i = 0 THEN text ELSE nextArg(rest[i - 1])[2]
      rounds == {i \in 1 .. Len(text) : rest[i - 1] # <<>>}
  IN [i \in 1 .. Cardinality(rounds) |-> nextArg(rest[i - 1])[1]]

ParseLine(text) ==
  LET cut == splitArg(IF Begins(text, ":") THEN splitArg(text)[2] ELSE text)
  IN [code |-> NewName(Mapped(Upper, cut[1])), args |-> ParseArgs(cut[2])]

-----------------------------------------------------------------------------
NotEnoughArgs == [error |-> "not enough arguments"]
ErrParse == [error |-> "failed to parse message"]

Arg(args, i) == IF i <= Len(args) THEN args[i] ELSE <<>>
NameArg(args, i) == NewName(Arg(args, i))
TextArg(args, i) == NewText(Arg(args, i))
NamesArg(args, i) == NewNames(Split(args[i], ","))

(* A constructor that wants at least n arguments.                          *)
Needs(n, args, command) == IF Len(args) < n THEN NotEnoughArgs ELSE command

ParseUnknown(args) == [args |-> args]
ParsePing(args) == Needs(1, args, [server |-> NameArg(args, 1), server2 |-> NameArg(args, 2)])
ParsePong(args) == Needs(1, args, [server1 |-> NameArg(args, 1), server2 |-> NameArg(args, 2)])
ParseAuthenticate(args) == Needs(1, args, [arg |-> Arg(args, 1)])
ParsePass(args) == Needs(1, args, [password |-> Arg(args, 1)])
ParseNick(args) ==
  IF Len(args) # 1 THEN NotEnoughArgs ELSE [nickname |-> NewName(args[1])]

(* strconv.ParseUint and ParseInt in base ten.  The lines are too short to *)
(* leave the 64 bits of the latter; a text that is no number counts as 0.  *)
Digit == [t \in {"0", "4", "8"} |-> CASE t = "0" -> 0 [] t = "4" -> 4 [] t = "8" -> 8]
IsNumber(text) == text # <<>> /\ \A i \in DOMAIN text : text[i] \in DOMAIN Digit
Number(text) == Seqs!FoldLeft(LAMBDA n, t : 10 * n + Digit[t], 0, text)
ParseUint8(text) == IsNumber(text) /\ Number(text) < 2 ^ 8
ParseInt(text) ==
  LET digits == IF Begins(text, "-") \/ Begins(text, "+") THEN Tail(text) ELSE text
  IN CASE ~IsNumber(digits) -> 0
       [] IsNumber(digits) /\ Begins(text, "-") -> -Number(digits)
       [] OTHER -> Number(digits)

Flags(mode) ==
  (IF (mode \div 4) % 2 = 1 THEN {"WallOps"} ELSE {})
    \cup (IF (mode \div 8) % 2 = 1 THEN {"Invisible"} ELSE {})

ParseUser(args) ==
  CASE Len(args) # 4 -> NotEnoughArgs
    [] Len(args) = 4 /\ ParseUint8(args[2]) ->
         [username |-> NameArg(args, 1), realname |-> TextArg(args, 4),
          flags |-> Flags(Number(args[2])), unused |-> args[3]]
    [] OTHER -> [username |-> NameArg(args, 1), realname |-> TextArg(args, 4),
                 hostname |-> NameArg(args, 2), servername |-> NameArg(args, 3)]

ParseQuit(args) == [message |-> TextArg(args, 1)]

(* A Go map filled in the order of names: the last entry of a name stays.  *)
MapOf(names, values) ==
  [n \in Seqs!Range(names) |-> values[Seqs!Max({i \in DOMAIN names : names[i] = n})]]

(* Mutant of ParseJoin: a key that is missing shifts the others.           *)
ParseJoinSparse(args) ==
  CASE args = <<>> -> NotEnoughArgs
    [] args # <<>> /\ args[1] = <<"0">> -> [zero |-> TRUE, channels |-> <<>>]
    [] OTHER ->
         LET channels == Split(args[1], ",")
             keys == SelectSeq(Split(Arg(args, 2), ","), LAMBDA key : key # <<>>)
         IN [zero |-> FALSE,
             channels |-> MapOf(NewNames(channels),
                                [i \in DOMAIN channels |-> NewText(Arg(keys, i))])]

ParseJoin(args) ==
  CASE args = <<>> -> NotEnoughArgs
    [] args # <<>> /\ args[1] = <<"0">> -> [zero |-> TRUE, channels |-> <<>>]
    [] OTHER ->
         LET channels == Split(args[1], ",")
             keys == Split(Arg(args, 2), ",")
         IN [zero |-> FALSE,
             channels |-> MapOf(NewNames(channels),
                                [i \in DOMAIN channels |-> NewText(Arg(keys, i))])]

ParsePart(args) ==
  Needs(1, args, [channels |-> NamesArg(args, 1), message |-> TextArg(args, 2)])
ParsePrivMsg(args) == Needs(2, args, [target |-> NameArg(args, 1), message |-> TextArg(args, 2)])
ParseNotice(args) == Needs(2, args, [target |-> NameArg(args, 1), message |-> TextArg(args, 2)])
ParseTopic(args) ==
  Needs(1, args, [channel |-> NameArg(args, 1), setTopic |-> Len(args) > 1,
                  topic |-> TextArg(args, 2)])

-----------------------------------------------------------------------------
(* MODE.  A change has the letter, the sign and, on a channel, the         *)
(* argument.                                                               *)
AddOp == "+"
RemoveOp == "-"
ListOp == ""
TakesArg == {"k", "b", "e", "I", "l", "o", "O", "v"}

ParseUserMode(nickname, args) ==
  LET changes(arg) == [i \in 1 .. Len(arg) - 1 |-> [mode |-> arg[i + 1], op |-> arg[1]]]
  IN IF \E i \in DOMAIN args : args[i] # <<>> /\ args[i][1] \notin {AddOp, RemoveOp} THEN ErrParse
     ELSE [nickname |-> nickname,
           changes |-> Seqs!FlattenSeq([i \in DOMAIN args |-> changes(args[i])])]

(* The argument of the k-th letter of a group is the next of those that    *)
(* follow the group, while there are any.                                  *)
Changes(op, letters, params) ==
  LET taken(k) == Cardinality({i \in 1 .. k : letters[i] \in TakesArg})
  IN [k \in DOMAIN letters |->
        [mode |-> letters[k], op |-> op,
         arg |-> IF letters[k] \in TakesArg THEN Arg(params, taken(k)) ELSE <<>>]]

(* One group of letters and what follows it.                               *)
Group(args) ==
  LET signed == args[1][1] \in {AddOp, RemoveOp}
      letters == IF signed THEN Tail(args[1]) ELSE args[1]
      wanted == Cardinality({i \in DOMAIN letters : letters[i] \in TakesArg})
      skipArgs == 1 + Seqs!Min({wanted, Len(args) - 1})
  IN IF args[1] = <<>> THEN [changes |-> <<>>, rest |-> Tail(args)]
     ELSE [changes |-> Changes(IF signed THEN args[1][1] ELSE ListOp, letters, Tail(args)),
           rest |-> SubSeq(args, skipArgs + 1, Len(args))]

ChannelChanges(args) ==
  LET rest[i \in 0 .. Len(args)] ==
        IF i = 0 THEN args
        ELSE LET left == rest[i - 1] IN IF left = <<>> THEN <<>> ELSE Group(left).rest
      rounds == {i \in 1 .. Len(args) : rest[i - 1] # <<>>}
  IN Seqs!FlattenSeq([i \in 1 .. Cardinality(rounds) |-> Group(rest[i - 1]).changes])

ParseChannelMode(channel, args) == [channel |-> channel, changes |-> ChannelChanges(args)]

ParseMode(args) ==
  Needs(1, args, LET name == NewName(args[1])
                 IN IF IsChannel(name) THEN ParseChannelMode(name, Tail(args))
                    ELSE ParseUserMode(name, Tail(args)))

(* ModeChanges.String: what a user is told.  The letter at which the sign  *)
(* changes is not written.                                                 *)
UserModeString(changes) ==
  Seqs!FlattenSeq([i \in DOMAIN changes |->
    CASE i = 1 -> <<changes[1].op, changes[1].mode>>
      [] i > 1 /\ changes[i].op = changes[i - 1].op -> <<changes[i].mode>>
      [] OTHER -> <<" ", changes[i].op>>])

(* Mutant of ChannelModeString: the arguments in the opposite order.       *)
ChannelModeStringBackwards(changes) ==
  LET param(change) == IF change.arg = <<>> THEN <<>> ELSE <<" ">> \o change.arg
  IN IF changes = <<>> THEN <<>>
     ELSE <<IF changes[1].op = RemoveOp THEN "-" ELSE "+">>
            \o [i \in DOMAIN changes |-> changes[i].mode]
            \o Seqs!FlattenSeq([i \in DOMAIN changes |-> param(Seqs!Reverse(changes)[i])])

(* ChannelModeChanges.String: what the members of a channel are told, with *)
(* the sign of the first change.                                           *)
ChannelModeString(changes) ==
  LET param(change) == IF change.arg = <<>> THEN <<>> ELSE <<" ">> \o change.arg
  IN IF changes = <<>> THEN <<>>
     ELSE <<IF changes[1].op = RemoveOp THEN "-" ELSE "+">>
            \o [i \in DOMAIN changes |-> changes[i].mode]
            \o Seqs!FlattenSeq([i \in DOMAIN changes |-> param(changes[i])])

-----------------------------------------------------------------------------
ParseWhois(args) ==
  Needs(1, args, [target |-> IF Len(args) > 1 THEN NewName(args[1]) ELSE <<>>,
                  masks |-> NamesArg(args, IF Len(args) > 1 THEN 2 ELSE 1)])
ParseWho(args) == [mask |-> NameArg(args, 1), operatorOnly |-> Arg(args, 2) = <<"o">>]
ParseOper(args) == Needs(2, args, [name |-> NameArg(args, 1), password |-> Arg(args, 2)])
ParseRehash(args) == [rehash |-> TRUE]

(* Spaces inside the argument separate the capabilities; one at an end     *)
(* leaves an empty one.                                                    *)
Capabilities(text) ==
  LET items == Split(text, " ")
      inner == {i \in DOMAIN items : items[i] # <<>>}
      ends == {i \in {1, Len(items)} : items[i] = <<>>}
  IN {items[i] : i \in inner \cup ends}

ParseCap(args) ==
  Needs(1, args, [subCommand |-> Mapped(Upper, args[1]),
                  capabilities |-> IF Len(args) > 1 THEN Capabilities(args[2]) ELSE {}])
ParseAway(args) == [text |-> TextArg(args, 1)]
ParseIsOn(args) == Needs(1, args, [nicks |-> NewNames(args)])
ParseMOTD(args) == [target |-> NameArg(args, 1)]

ParseKick(args) ==
  IF Len(args) < 2 THEN NotEnoughArgs
  ELSE LET channels == NamesArg(args, 1)
           users == NamesArg(args, 2)
           user(i) == IF Len(users) = 1 THEN users[1] ELSE users[i]
       IN IF Len(users) \notin {1, Len(channels)} THEN NotEnoughArgs
          ELSE [kicks |-> MapOf(channels, [i \in DOMAIN channels |-> user(i)]),
                comment |-> TextArg(args, 3)]

(* A list that is not given is empty, one that is given has an item.       *)
ParseList(args) ==
  [channels |-> IF args = <<>> THEN <<>> ELSE NamesArg(args, 1), target |-> NameArg(args, 2)]
ParseNames(args) ==
  [channels |-> IF args = <<>> THEN <<>> ELSE NamesArg(args, 1), target |-> NameArg(args, 2)]
ParseVersion(args) == [target |-> NameArg(args, 1)]
ParseInvite(args) == Needs(2, args, [nickname |-> NameArg(args, 1), channel |-> NameArg(args, 2)])
ParseTime(args) == [target |-> NameArg(args, 1)]
ParseLUsers(args) == [lusers |-> TRUE]
ParseKill(args) == Needs(2, args, [nickname |-> NameArg(args, 1), comment |-> TextArg(args, 2)])
ParseWallops(args) == Needs(1, args, [message |-> TextArg(args, 1)])
ParseWhoWas(args) ==
  Needs(1, args, [nicknames |-> NamesArg(args, 1), count |-> ParseInt(Arg(args, 2)),
                  target |-> NameArg(args, 3)])

(* Mutant of ParseOperNick: the new nickname is taken as it was typed.     *)
ParseOperNickRaw(args) ==
  Needs(2, args, [target |-> NameArg(args, 1), nick |-> Arg(args, 2)])

ParseOperNick(args) == Needs(2, args, [target |-> NameArg(args, 1), nick |-> NameArg(args, 2)])

(* parseCommandFuncs                                                       *)
Construct(code, args) ==
  CASE code = "AUTHENTICATE" -> ParseAuthenticate(args)
    [] code = "AWAY" -> ParseAway(args)       [] code = "CAP" -> ParseCap(args)
    [] code = "INVITE" -> ParseInvite(args)   [] code = "ISON" -> ParseIsOn(args)
    [] code = "JOIN" -> ParseJoin(args)       [] code = "KICK" -> ParseKick(args)
    [] code = "KILL" -> ParseKill(args)       [] code = "LIST" -> ParseList(args)
    [] code = "MODE" -> ParseMode(args)       [] code = "MOTD" -> ParseMOTD(args)
    [] code = "NAMES" -> ParseNames(args)     [] code = "NICK" -> ParseNick(args)
    [] code = "NOTICE" -> ParseNotice(args)   [] code = "ONICK" -> ParseOperNick(args)
    [] code = "OPER" -> ParseOper(args)       [] code = "REHASH" -> ParseRehash(args)
    [] code = "PART" -> ParsePart(args)       [] code = "PASS" -> ParsePass(args)
    [] code = "PING" -> ParsePing(args)       [] code = "PONG" -> ParsePong(args)
    [] code = "PRIVMSG" -> ParsePrivMsg(args) [] code = "QUIT" -> ParseQuit(args)
    [] code = "TIME" -> ParseTime(args)       [] code = "LUSERS" -> ParseLUsers(args)
    [] code = "TOPIC" -> ParseTopic(args)     [] code = "USER" -> ParseUser(args)
    [] code = "VERSION" -> ParseVersion(args) [] code = "WALLOPS" -> ParseWallops(args)
    [] code = "WHO" -> ParseWho(args)         [] code = "WHOIS" -> ParseWhois(args)
    [] code = "WHOWAS" -> ParseWhoWas(args)   [] OTHER -> ParseUnknown(args)

(* A command word is a single token, so the code is that token.            *)
ParseCommand(text) ==
  LET parsed == ParseLine(text)
  IN Construct(IF Len(parsed.code) = 1 THEN parsed.code[1] ELSE "", parsed.args)

-----------------------------------------------------------------------------
(* The peer types a line, a token at a time: every line is parsed.         *)
ParsingInit ==
  opening \in Opening /\ line = opening.line /\ cmd = ParseCommand(line)

Type(token) ==
  /\ Len(line) < Len(opening.line) + opening.most
  /\ line' = Append(line, token)
  /\ cmd' = ParseCommand(line')
  /\ UNCHANGED opening

ParsingNext == \E token \in opening.alphabet : Type(token)

ParsingSpec == ParsingInit /\ [][ParsingNext]_parsingVars

-----------------------------------------------------------------------------
(* ParseLine finds the words of the line, whatever spaces and colons are   *)
(* in it: the arguments are the words after the command, and from a colon  *)
(* that begins a word on the whole rest of the line, spaces included.  A   *)
(* prefix is a word that counts for nothing, and a space at the start of   *)
(* the line an empty command.                                              *)
ArgsAreWords ==
  LET starts == {p \in DOMAIN line : line[p] # " " /\ (p = 1 \/ line[p - 1] = " ")}
      before(p) == Cardinality({q \in starts : q < p})
      skipped == CASE Begins(line, ":") -> 2 [] Begins(line, " ") -> 0 [] OTHER -> 1
      argued == {p \in starts : before(p) >= skipped}
      read == {p \in argued : \A q \in argued : line[q] = ":" => p <= q}
      space(p) == Seqs!Min({q \in p .. Len(line) : line[q] = " "} \cup {Len(line) + 1})
      word(p) == IF line[p] = ":" THEN SubSeq(line, p + 1, Len(line))
                 ELSE SubSeq(line, p, space(p) - 1)
      args == ParseLine(line).args
  IN Len(args) = Cardinality(read) /\ \A p \in read : args[before(p) - skipped + 1] = word(p)

(* What a user or the members of a channel are told of a MODE is what was  *)
(* done: read as a command it gives the same changes with the same         *)
(* arguments, whichever of those asked for were applied, as long as some   *)
(* were.  The text has one sign, and its arguments are not quoted: changes *)
(* of both signs, and an argument with a space or a colon in front, are    *)
(* not told faithfully.                                                    *)
EchoParsesBack ==
  LET parsed == ParseLine(line)
      word(text) ==
        text # <<>> /\ ~Begins(text, ":") /\ \A i \in DOMAIN text : text[i] # " "
      plain(change) ==
        /\ change.mode # " "
        /\ "arg" \in DOMAIN change => change.arg = <<>> \/ word(change.arg)
  IN parsed.code = <<"MODE">> /\ "changes" \in DOMAIN cmd =>
       \A n \in 1 .. Len(cmd.changes) :
         \A applied \in [1 .. n -> DOMAIN cmd.changes] :
           LET changes == [k \in 1 .. n |-> cmd.changes[applied[k]]]
               told == IF "channel" \in DOMAIN cmd THEN ChannelModeString(changes)
                       ELSE <<":">> \o UserModeString(changes)
               echo == ParseLine(<<"MODE", " ">> \o parsed.args[1] \o <<" ">> \o told)
           IN (/\ \A k \in 2 .. n : applied[k - 1] < applied[k]
               /\ \A k \in 1 .. n : changes[k].op = changes[1].op /\ plain(changes[k])
               /\ changes[1].op \in {AddOp, RemoveOp}) =>
                ParseMode(echo.args).changes = changes

(* A JOIN or KICK of several channels is the JOINs or KICKs of each of     *)
(* them with the key or user at the same place of the second list (KICK:   *)
(* or its only user); of a channel that is named twice the last counts.    *)
TargetsSeparate ==
  LET parsed == ParseLine(line)
      args == parsed.args
      first == Split(Arg(args, 1), ",")
      second == Split(Arg(args, 2), ",")
      alone(i) == CASE i <= Len(second) -> <<first[i], second[i]>>
                    [] i > Len(second) /\ parsed.code = <<"KICK">> -> <<first[i], second[1]>>
                    [] OTHER -> <<first[i]>>
      last(i) == \A j \in DOMAIN first : NewName(first[j]) = NewName(first[i]) => j <= i
  IN \A i \in DOMAIN first : last(i) =>
       /\ "channels" \in DOMAIN cmd /\ parsed.code = <<"JOIN">> /\ first[i] # <<"0">> =>
            cmd.channels[NewName(first[i])] = ParseJoin(alone(i)).channels[NewName(first[i])]
       /\ "kicks" \in DOMAIN cmd =>
            cmd.kicks[NewName(first[i])] = ParseKick(alone(i)).kicks[NewName(first[i])]

(* Two spellings of a name are one name to every command, for lookups are  *)
(* by the normal form: each field that holds names holds normal forms.     *)
(* What is compared with a hash or decoded, the password and the text of   *)
(* AUTHENTICATE, is an argument as it was typed.                           *)
NamesCanonical ==
  LET canonical(name) == NewName(name) = name
      with(fields) == DOMAIN cmd \cap fields
  IN /\ \A f \in with({"server", "server1", "server2", "nickname", "username", "hostname",
                       "servername", "target", "name", "channel", "mask", "nick"}) :
          canonical(cmd[f])
     /\ \A f \in with({"masks", "nicks", "nicknames", "channels", "kicks"}) :
          LET names == IF f = "kicks" \/ "zero" \in DOMAIN cmd THEN DOMAIN cmd[f] ELSE Seqs!Range(cmd[f])
          IN \A name \in names : canonical(name)
     /\ "kicks" \in DOMAIN cmd => \A channel \in DOMAIN cmd.kicks : canonical(cmd.kicks[channel])
     /\ \A f \in with({"password", "arg"}) : cmd[f] \in Seqs!Range(ParseLine(line).args)
=============================================================================
