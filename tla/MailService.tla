---------------------------- MODULE MailService ----------------------------
(***************************************************************************)
(* The email service (email-service/{main,pipeline,auth,encryption,        *)
(* templates,transport}.py) and the requests that auth-service sends to it *)
(* (auth-service/index.ts).                                                *)
(*                                                                         *)
(* A request to send passes the steps of process(), each of which may      *)
(* refuse it.  Between them lie lookups of the recipient at auth-service   *)
(* and the delivery over SMTP, and players may be wiped in between.  A     *)
(* step here is the code from one such call to the next.                   *)
(*                                                                         *)
(* encryption.py is a stub that returns the plaintext, and says so.  What  *)
(* the service does by tier is to mark the message (X-TCA-Encrypted) and   *)
(* to leave out its HTML part: nothing here is about who can read a mail.  *)
(*                                                                         *)
(* A definition followed by its namesake (OutcomesUnchecked before         *)
(* Outcomes) is a mutation of it, used only to see that a property would   *)
(* notice it.                                                              *)
(***************************************************************************)
EXTENDS Naturals, FiniteSets

CONSTANTS
  Mails,      \* requests to send
  Users,      \* ids of players
  Addresses,  \* addresses of e-mail
  AddressOf,  \* the address a player registered with; the code never changes it
  NoAddress   \* no address

ASSUME MailAssumption ==
  /\ NoAddress \notin Addresses \cup Users
  /\ Users \cap Addresses = {}
  /\ AddressOf \in [Users -> Addresses]
  /\ \A p, q \in Users : p # q => AddressOf[p] # AddressOf[q]

VARIABLES
  registered,  \* the players auth-service knows
  origin,      \* who made the request: a function of auth-service, or any client
  request,     \* its body
  at,          \* its next step, or the answer
  address,     \* the resolved address of its recipient
  sent,        \* the messages that went out for it, to the relay or to the log
  relay        \* whether SMTP_HOST names a relay; set when the service starts

mailVars == <<registered, origin, request, at, address, sent, relay>>

-----------------------------------------------------------------------------
(* The tables of auth.py and templates.py *)

Levels == <<"system", "social", "personal", "confidential", "restricted">>
Tiers == {Levels[i] : i \in DOMAIN Levels}
Level(tier) == CHOOSE i \in DOMAIN Levels : Levels[i] = tier

\* CALLER_TIER_POLICY; other services may send nothing.
Policy ==
  UNION {{"auth-service"} \X {"system"},
         {"game-state"}   \X {"system", "social", "personal"},
         {"chat-service"} \X {"social"},
         {"bank-service"} \X {"restricted"},
         {"test"}         \X Tiers}

\* MESSAGE_TYPES, the minimum tier of each.
MinimumTier ==
  [verify_email        |-> "system",
   magic_link          |-> "system",
   password_reset      |-> "system",
   game_invite         |-> "social",
   game_result_notify  |-> "social",
   session_summary     |-> "personal",
   account_flag_notice |-> "confidential",
   transaction_receipt |-> "restricted"]

Honeypots == {"password_reset"}

\* Messages with an HTML part, and those that convert a field of the payload.
WithHtml == {"verify_email", "magic_link"}
Converting == {"game_result_notify", "session_summary", "transaction_receipt"}

\* payload: every required field there, one missing, or one of another type.
Body == [service: {"auth-service", "game-state", "chat-service", "bank-service", "test", "other", ""},
         tier: Tiers \cup {"other"}, type: DOMAIN MinimumTier \cup {"other"},
         to: Users \cup Addresses, payload: {"complete", "lacking", "odd"},
         waiver: {"no", "bare", "token"}]

-----------------------------------------------------------------------------
(* Requests *)

Submit(r, by, body) ==
  /\ origin' = [origin EXCEPT ![r] = by]
  /\ request' = [request EXCEPT ![r] = body]
  /\ at' = [at EXCEPT ![r] = "check"]
  /\ UNCHANGED <<registered, address, sent, relay>>

\* sendVerificationEmail, for the player that has just registered.
SendVerificationEmail(r) ==
  /\ at[r] = "unsent"
  /\ \E player \in registered : Submit(r, "verification",
      [service |-> "auth-service", tier |-> "system", type |-> "verify_email",
       to |-> AddressOf[player], payload |-> "complete", waiver |-> "no"])

\* POST /notify/transaction: findPlayerById, sendTransactionReceipt, and the
\* answer {queued: true} at once.
NotifyTransaction(r) ==
  /\ at[r] = "unsent"
  /\ \E player \in registered : Submit(r, "receipt",
      [service |-> "auth-service", tier |-> "restricted", type |-> "transaction_receipt",
       to |-> player, payload |-> "complete", waiver |-> "no"])

\* POST /send, by anybody.
Send(r) == at[r] = "unsent" /\ \E body \in Body : Submit(r, "client", body)

-----------------------------------------------------------------------------
(* pipeline.py *)

Goto(r, step) == at' = [at EXCEPT ![r] = step]

WellFormed(body) == body.service # "" /\ body.tier \in Tiers

\* check: the policy, and the message types nobody may ask for.
Authorized(body) == <<body.service, body.tier>> \in Policy /\ body.type \notin Honeypots

\* REQUIRES_USER_ID.
RecipientFits(body) == Level(body.tier) >= Level("personal") => body.to \in Users

\* Steps 1 to 3, and 4 for a raw address.
Check(r) ==
  /\ at[r] = "check"
  /\ IF WellFormed(request[r]) /\ Authorized(request[r]) /\ RecipientFits(request[r])
       THEN IF request[r].to \in Users
              THEN Goto(r, "resolve") /\ UNCHANGED address
              ELSE Goto(r, "compose") /\ address' = [address EXCEPT ![r] = request[r].to]
       ELSE Goto(r, "rejected") /\ UNCHANGED address
  /\ UNCHANGED <<registered, origin, request, sent, relay>>

\* GET /users/{id}/email of auth-service.
Email(player) == IF player \in registered THEN AddressOf[player] ELSE NoAddress

\* resolve_recipient_address: None also if auth-service does not answer.
Lookups(player) == {Email(player), NoAddress}

Resolve(r) ==
  /\ at[r] = "resolve"
  /\ \E found \in Lookups(request[r].to) :
       /\ address' = [address EXCEPT ![r] = found]
       /\ Goto(r, IF found = NoAddress THEN "rejected"
                  ELSE IF request[r].tier = "restricted" THEN "confirm" ELSE "compose")
  /\ UNCHANGED <<registered, origin, request, sent, relay>>

\* The restricted tier looks up again, and both must agree.
Confirm(r) ==
  /\ at[r] = "confirm"
  /\ \E found \in Lookups(request[r].to) :
       Goto(r, IF found # NoAddress /\ found = address[r] THEN "compose" ELSE "rejected")
  /\ UNCHANGED <<registered, origin, request, address, sent, relay>>

\* Step 5, templates.validate.
Valid(body) ==
  /\ body.type \in DOMAIN MinimumTier
  /\ Level(body.tier) >= Level(MinimumTier[body.type])
  /\ body.payload # "lacking"

MarkedUnlessWaived(body) == Level(body.tier) >= Level("personal") /\ body.waiver # "token"

\* Step 6, should_encrypt: only the personal tier can be waived.  All that
\* follows from it is the mark, for encrypt() returns what it is given.
Marked(body) ==
  \/ body.tier \in {"confidential", "restricted"}
  \/ body.tier = "personal" /\ body.waiver = "no"

\* Step 8 finds a key for every player.
HasKey(body) == Marked(body) => body.to \in Users

Waivable(body) == body.tier = "personal" => body.waiver # "bare"

\* Steps 5 to 8.  A renderer that cannot convert a field raises, and nobody catches it.
Compose(r) ==
  /\ at[r] = "compose"
  /\ LET b == request[r] IN
     Goto(r, IF ~ (Valid(b) /\ Waivable(b)) THEN "rejected"
             ELSE IF b.payload = "odd" /\ b.type \in Converting THEN "raised"
             ELSE IF HasKey(b) THEN "deliver" ELSE "rejected")
  /\ UNCHANGED <<registered, origin, request, address, sent, relay>>

\* The message that deliver() is given; a marked one has no HTML.  Without
\* a relay it is printed to the log.
Message(r) ==
  [to |-> address[r], via |-> IF relay THEN "relay" ELSE "log",
   marked |-> Marked(request[r]), html |-> request[r].type \in WithHtml /\ ~ Marked(request[r])]

OutcomesUnchecked == IF relay THEN BOOLEAN \X {"queued"} ELSE {<<TRUE, "queued">>}

\* Whether the message goes out, and what the service makes of it: the
\* connection to the relay may also fail after the relay has taken it, and
\* the log never fails.
Outcomes ==
  IF relay THEN {<<TRUE, "queued">>, <<TRUE, "error">>, <<FALSE, "error">>}
           ELSE {<<TRUE, "queued">>}

Deliver(r) ==
  /\ at[r] = "deliver"
  /\ \E outcome \in Outcomes :
       /\ sent' = [sent EXCEPT ![r] = IF outcome[1] THEN @ \cup {Message(r)} ELSE @]
       /\ Goto(r, outcome[2])
  /\ UNCHANGED <<registered, origin, request, address, relay>>

-----------------------------------------------------------------------------
\* The development reset of auth-service.
Wipe ==
  /\ registered' = {}
  /\ UNCHANGED <<origin, request, at, address, sent, relay>>

MailInit ==
  /\ registered \in SUBSET Users
  /\ origin = [r \in Mails |-> "nobody"]
  /\ request = [r \in Mails |-> "none"]
  /\ at = [r \in Mails |-> "unsent"]
  /\ address = [r \in Mails |-> NoAddress]
  /\ sent = [r \in Mails |-> {}]
  /\ relay \in BOOLEAN

Process(r) == Check(r) \/ Resolve(r) \/ Confirm(r) \/ Compose(r) \/ Deliver(r)

MailNext ==
  \/ \E r \in Mails : SendVerificationEmail(r) \/ NotifyTransaction(r) \/ Send(r) \/ Process(r)
  \/ Wipe

MailSpec == MailInit /\ [][MailNext]_mailVars

-----------------------------------------------------------------------------
\* What the tiers ask of a message that went out, whatever was looked up and
\* wiped on its way: its sender may send this tier, the type is not of a higher
\* one; from the personal tier on it went to the player's own address and was
\* marked and without HTML, unless the owner waived that with a token.
SentAsTierDemands ==
  \A r \in Mails : \A m \in sent[r] :
    LET b == request[r] IN
    /\ <<b.service, b.tier>> \in Policy
    /\ Level(MinimumTier[b.type]) <= Level(b.tier)
    /\ Level(b.tier) >= Level("personal") =>
         /\ b.to \in Users /\ m.to = AddressOf[b.to]
         /\ \/ m.marked /\ ~ m.html
            \/ b.tier = "personal" /\ b.waiver = "token"

\* A message reported as queued went out once: the relay took it, or was not
\* there to take it and the log has it.  The log never stands in for a relay
\* that failed, and nothing goes out for a request that was refused, by the
\* pipeline or by an exception.
AnswerIsTrue ==
  \A r \in Mails :
    /\ at[r] = "queued" => Cardinality(sent[r]) = 1
    /\ \A m \in sent[r] : m.via = IF relay THEN "relay" ELSE "log"
    /\ at[r] = "error" => relay
    /\ at[r] \in {"rejected", "raised"} => sent[r] = {}

\* auth-service.yaml: a notification that was answered with 202 is queued.
ReceiptAccepted ==
  \A r \in Mails : origin[r] = "receipt" => at[r] # "rejected"

=============================================================================
