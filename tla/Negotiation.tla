---------------------------- MODULE Negotiation ----------------------------
(***************************************************************************)
(* What a client may do before it is registered besides what Sessions has: *)
(* CAP, which turns capabilities on and off, and AUTHENTICATE, the SASL    *)
(* exchange.  After registration both are unknown commands.                *)
(*                                                                         *)
(* The buffer of the exchange collects base64 text until a message shorter *)
(* than 400 characters completes it.  A message is its text: the word      *)
(* PLAIN, a "full" one of exactly 400 characters, one that is "long"er,    *)
(* one that is not base64 ("odd"), one that decodes to something else than *)
(* three tokens ("junk"), the encoding of three tokens (a blob), or the    *)
(* rest of such an encoding, which with the text before it makes up the    *)
(* three tokens.  All but PLAIN and odd are a multiple of four characters. *)
(***************************************************************************)
EXTENDS Naturals, Sequences

CONSTANTS
  Account,       \* user names in messages
  NoAccount,     \* the empty name
  Password,      \* passwords in messages
  passwords,     \* server.accounts: the password of each account there is
  Capability,    \* the names CAP REQ may ask for
  SupportedCapabilities,
  MaxBuffer      \* bound on the messages in the buffer

Blob == [kind : {"blob"}, authcid : Account, authzid : Account \cup {NoAccount},
         password : Password, padded : BOOLEAN]
RestOfBlob == [kind : {"rest"}, authcid : Account, password : Password, padded : BOOLEAN]
Message == [kind : {"*", "+", "PLAIN", "full", "long", "odd", "junk"}] \cup Blob \cup RestOfBlob
PLAIN == [kind |-> "PLAIN"]

ASSUME NegotiationAssumption ==
  /\ NoAccount \notin Account
  /\ DOMAIN passwords \subseteq Account
  /\ SupportedCapabilities \subseteq Capability
  /\ MaxBuffer \in Nat

VARIABLES
  permitted,      \* client.authorized, which Sessions is about
  sasl,           \* client.sasl
  userRegistered, \* client.modes has Registered, the account mode r
  capabilities,   \* client.capabilities
  granted,        \* the capabilities the client was told it has
  proven          \* accounts whose right password the client has sent

negotiationVars == <<permitted, sasl, userRegistered, capabilities, granted, proven>>

NewSaslState == [started |-> FALSE, buffer |-> <<>>, authcid |-> NoAccount]

NegotiationInit ==
  /\ permitted \in BOOLEAN
  /\ sasl = NewSaslState
  /\ userRegistered = FALSE
  /\ capabilities = {} /\ granted = {}
  /\ proven = {}

-----------------------------------------------------------------------------
(* base64 decoding and the split at the zero bytes.  Padding inside the    *)
(* text, PLAIN and odd are errors.  Only a blob of its own has the tokens  *)
(* it encodes: text before it becomes part of the first.  Only with text   *)
(* before it a rest has tokens.                                            *)
Decode(buffer) ==
  LET last == Len(buffer)
      end == buffer[last]
      bad(i) == \/ buffer[i].kind \in {"PLAIN", "odd"}
                \/ i < last /\ buffer[i].kind \in {"blob", "rest"} /\ buffer[i].padded
  IN CASE \E i \in 1 .. last : bad(i) -> [kind |-> "error"]
       [] last = 1 /\ ~bad(1) /\ end.kind # "rest" -> end
       [] last > 1 /\ (\A i \in 1 .. last : ~bad(i)) /\ end.kind = "rest" ->
            [kind |-> "blob", authcid |-> end.authcid, authzid |-> NoAccount,
             password |-> end.password, padded |-> end.padded]
       [] OTHER -> [kind |-> "junk"]

(* Mutant of Verify: the account need not exist.                           *)
VerifyUnknown(blob) ==
  blob.authcid \in DOMAIN passwords => passwords[blob.authcid] = blob.password

Verify(blob) ==
  blob.authcid \in DOMAIN passwords /\ passwords[blob.authcid] = blob.password

Accepted(data) ==
  data.kind = "blob" /\ data.authzid \in {NoAccount, data.authcid} /\ Verify(data)

(* Mutant of Complete: a decoding error leaves the exchange as it is.      *)
CompleteWithoutReset(s, buffer) ==
  IF Accepted(Decode(buffer))
  THEN [NewSaslState EXCEPT !.authcid = Decode(buffer).authcid]
  ELSE [s EXCEPT !.buffer = buffer]

(* The last message of an exchange.  Only a decoding error resets the      *)
(* state; a wrong blob or password leaves the text in the buffer.          *)
Complete(s, buffer) ==
  CASE Decode(buffer).kind = "error" -> NewSaslState
    [] Accepted(Decode(buffer)) -> [NewSaslState EXCEPT !.authcid = Decode(buffer).authcid]
    [] OTHER -> [s EXCEPT !.buffer = buffer]

(* AuthenticateCommand.HandleRegServer on the state s.  An abort changes   *)
(* nothing, and PLAIN is the mechanism only while no exchange is open.     *)
Authenticated(s, arg) ==
  CASE arg.kind = "*" -> s
    [] arg.kind # "*" /\ ~s.started -> [s EXCEPT !.started = (arg = PLAIN)]
    [] s.started /\ arg.kind = "long" -> s
    [] s.started /\ arg.kind = "full" -> [s EXCEPT !.buffer = Append(@, arg)]
    [] s.started /\ arg.kind = "+" -> Complete(s, s.buffer)
    [] OTHER -> Complete(s, Append(s.buffer, arg))

(* A client that is not authorized is sent away instead (Leave).           *)
Authenticate(arg) ==
  /\ permitted
  /\ Len(sasl.buffer) < MaxBuffer
  /\ sasl' = Authenticated(sasl, arg)
  /\ LET success == sasl.started /\ ~sasl'.started /\ sasl'.authcid # NoAccount
     IN userRegistered' = (userRegistered \/ success)
  /\ LET whole == arg.kind = "blob" \/ (arg.kind = "rest" /\ sasl.buffer # <<>>)
     IN proven' = proven \cup {a \in DOMAIN passwords :
                    whole /\ arg.authcid = a /\ arg.password = passwords[a]}
  /\ UNCHANGED <<permitted, capabilities, granted>>

(* PASS or OPER.                                                           *)
Permit ==
  /\ permitted' = TRUE
  /\ UNCHANGED <<sasl, userRegistered, capabilities, granted, proven>>

-----------------------------------------------------------------------------
(* CAP: the reply to REQ and CLEAR is what the client goes by.             *)

(* Mutant of CapReq: capabilities are set until one is not supported.      *)
CapReqPartly(asked) ==
  /\ capabilities' = capabilities \cup (asked \cap SupportedCapabilities)
  /\ granted' = IF asked \subseteq SupportedCapabilities THEN granted \cup asked ELSE granted
  /\ UNCHANGED <<permitted, sasl, userRegistered, proven>>

CapReq(asked) ==
  /\ IF asked \subseteq SupportedCapabilities
     THEN capabilities' = capabilities \cup asked /\ granted' = granted \cup asked
     ELSE UNCHANGED <<capabilities, granted>>
  /\ UNCHANGED <<permitted, sasl, userRegistered, proven>>

CapClear ==
  /\ capabilities' = {}
  /\ granted' = granted \ capabilities
  /\ UNCHANGED <<permitted, sasl, userRegistered, proven>>

NegotiationNext ==
  \/ \E arg \in Message : Authenticate(arg)
  \/ \E asked \in SUBSET Capability : CapReq(asked)
  \/ CapClear \/ Permit

NegotiationSpec == NegotiationInit /\ [][NegotiationNext]_negotiationVars

-----------------------------------------------------------------------------
(* Whoever is logged in, or has the account mode, has sent the password of *)
(* that account, whatever aborted and failed exchanges have left in the    *)
(* buffer; and nothing has begun before the client is authorized.          *)
LoginVerified ==
  /\ sasl.authcid # NoAccount => userRegistered /\ sasl.authcid \in proven
  /\ userRegistered => proven # {}
  /\ ~permitted => sasl = NewSaslState /\ ~userRegistered

(* An exchange that was aborted or failed does not lock its client out: a  *)
(* client that tries twice in the regular way, PLAIN and then the right    *)
(* blob, is logged in, wherever it stands.  The leftover text makes the    *)
(* first try fail, and PLAIN on top of it the decoding error that resets   *)
(* the state.                                                              *)
RetryLogsIn ==
  \A blob \in Blob :
    Accepted(blob) =>
      LET try(s) == Authenticated(Authenticated(s, PLAIN), blob)
      IN blob.authcid \in {try(sasl).authcid, try(try(sasl)).authcid}

(* Client and server agree on the capabilities, all of them supported: a   *)
(* REQ is granted as a whole or not at all.                                *)
CapabilitiesAgreed == capabilities = granted /\ capabilities \subseteq SupportedCapabilities
=============================================================================
