----------------------------- MODULE MailProofs -----------------------------
(***************************************************************************)
(* Theorems about MailService, for every number of requests, players and   *)
(* addresses: what leaves is what its tier demands, and the answer is true.*)
(*                                                                         *)
(* Neither is inductive: what Deliver sends was decided by the steps       *)
(* before it, with lookups and wipes in between.  Passed, Resolved and     *)
(* Composed say what a request has been found to be by the step it is at,  *)
(* Routed where the messages go that leave.                                *)
(***************************************************************************)
EXTENDS MailService, FiniteSetTheorems, TLAPS

Working == {"resolve", "confirm", "compose", "deliver"}
Done    == {"queued", "error"}
Places  == {"unsent", "check", "rejected", "raised"} \cup Working \cup Done

Types ==
  /\ registered \subseteq Users
  /\ relay \in BOOLEAN
  /\ origin = [r \in Mails |-> origin[r]]
  /\ request = [r \in Mails |-> request[r]]
  /\ at \in [Mails -> Places]
  /\ address = [r \in Mails |-> address[r]]
  /\ sent = [r \in Mails |-> sent[r]]
  /\ \A r \in Mails : at[r] # "unsent" => request[r] \in Body

\* Who is past the check may send this tier, and names a player if it is personal.
Passed == \A r \in Mails : at[r] \in Working => Authorized(request[r]) /\ RecipientFits(request[r])

\* The address found for a player is the player's, whoever was wiped since.
Resolved ==
  \A r \in Mails :
    at[r] \in {"confirm", "compose", "deliver"} /\ request[r].to \in Users =>
      address[r] = AddressOf[request[r].to]

Composed == \A r \in Mails : at[r] = "deliver" => Valid(request[r]) /\ Waivable(request[r])

\* Nothing is sent before it is delivered.
Unsent == \A r \in Mails : at[r] \notin Done => sent[r] = {}

Queued == \A r \in Mails : at[r] = "queued" => Cardinality(sent[r]) = 1

\* What went out, went where it goes for good, and only a relay fails.
Routed ==
  \A r \in Mails :
    /\ \A m \in sent[r] : m.via = IF relay THEN "relay" ELSE "log"
    /\ at[r] = "error" => relay

MailInv == Types /\ Passed /\ Resolved /\ Composed /\ Unsent /\ Queued /\ Routed
           /\ SentAsTierDemands

-----------------------------------------------------------------------------
\* A tier's level is its place in the list.
LEMMA LevelIs == \A i \in 1..5 : Level(Levels[i]) = i
  <1> SUFFICES ASSUME NEW i \in 1..5 PROVE Level(Levels[i]) = i
    OBVIOUS
  <1>1. DOMAIN Levels = 1..5
    BY DEF Levels
  <1>2. \A j, k \in 1..5 : Levels[j] = Levels[k] => j = k
    BY DEF Levels
  <1> QED
    BY <1>1, <1>2 DEF Level

\* The tiers from personal on are the three last.
LEMMA PersonalUp ==
  \A tier \in Tiers :
    Level(tier) >= Level("personal") => tier \in {"personal", "confidential", "restricted"}
  <1>1. /\ Level("system") = 1 /\ Level("social") = 2 /\ Level("personal") = 3
        /\ Level("confidential") = 4 /\ Level("restricted") = 5
    BY LevelIs DEF Levels
  <1>2. Tiers = {"system", "social", "personal", "confidential", "restricted"}
    BY DEF Tiers, Levels
  <1> QED
    BY <1>1, <1>2

-----------------------------------------------------------------------------
\* Nothing is asked for yet.
LEMMA MailInvInit == MailInit => MailInv
  BY DEF MailInit, MailInv, Types, Places, Passed, Resolved, Composed, Unsent, Queued,
         Routed, SentAsTierDemands, Working, Done

\* A new request has passed nothing.
LEMMA SubmitKeeps ==
  ASSUME MailInv, NEW r \in Mails, at[r] = "unsent", NEW by, NEW body \in Body, Submit(r, by, body)
  PROVE  MailInv'
  <1> USE DEF MailInv
  <1>1. /\ at' = [at EXCEPT ![r] = "check"] /\ request' = [request EXCEPT ![r] = body]
        /\ origin' = [origin EXCEPT ![r] = by] /\ UNCHANGED <<registered, address, sent, relay>>
    BY DEF Submit
  <1>2. at'[r] = "check" /\ request'[r] = body /\ sent[r] = {}
    BY <1>1 DEF Types, Unsent, Done
  <1>3. \A q \in Mails : q # r => at'[q] = at[q] /\ request'[q] = request[q]
    BY <1>1 DEF Types
  <1>4. Types'
    BY <1>1, <1>2, <1>3 DEF Types, Places
  <1>5. Passed' /\ Composed'
    BY <1>2, <1>3 DEF Passed, Composed, Working
  <1>6. Resolved' /\ Unsent' /\ Queued' /\ Routed'
    BY <1>1, <1>2, <1>3 DEF Resolved, Unsent, Queued, Routed, Done
  <1>7. SentAsTierDemands'
    BY <1>1, <1>2, <1>3 DEF SentAsTierDemands
  <1> QED
    BY <1>4, <1>5, <1>6, <1>7

\* auth-service and any client submit a body that the service can be sent.
LEMMA NewMailKeeps ==
  ASSUME MailInv, NEW r \in Mails, SendVerificationEmail(r) \/ NotifyTransaction(r) \/ Send(r)
  PROVE  MailInv'
  <1> USE MailAssumption DEF MailAssumption, MailInv
  <1>0. Tiers = {"system", "social", "personal", "confidential", "restricted"}
    BY DEF Tiers, Levels
  <1>00. {"verify_email", "transaction_receipt"} \subseteq DOMAIN MinimumTier
    BY DEF MinimumTier
  <1>1. CASE SendVerificationEmail(r)
    <2>1. PICK player \in registered :
            Submit(r, "verification",
              [service |-> "auth-service", tier |-> "system", type |-> "verify_email",
               to |-> AddressOf[player], payload |-> "complete", waiver |-> "no"])
      BY <1>1 DEF SendVerificationEmail
    <2>2. AddressOf[player] \in Addresses
      BY DEF Types
    <2>3. [service |-> "auth-service", tier |-> "system", type |-> "verify_email",
           to |-> AddressOf[player], payload |-> "complete", waiver |-> "no"] \in Body
      BY <2>2, <1>0, <1>00 DEF Body
    <2>4. at[r] = "unsent"
      BY <1>1 DEF SendVerificationEmail
    <2> QED
      BY <2>1, <2>3, <2>4, SubmitKeeps
  <1>2. CASE NotifyTransaction(r)
    <2>1. PICK player \in registered :
            Submit(r, "receipt",
              [service |-> "auth-service", tier |-> "restricted", type |-> "transaction_receipt",
               to |-> player, payload |-> "complete", waiver |-> "no"])
      BY <1>2 DEF NotifyTransaction
    <2>2. player \in Users
      BY DEF Types
    <2>3. [service |-> "auth-service", tier |-> "restricted", type |-> "transaction_receipt",
           to |-> player, payload |-> "complete", waiver |-> "no"] \in Body
      BY <2>2, <1>0, <1>00 DEF Body
    <2>4. at[r] = "unsent"
      BY <1>2 DEF NotifyTransaction
    <2> QED
      BY <2>1, <2>3, <2>4, SubmitKeeps
  <1>3. CASE Send(r)
    <2>1. PICK body \in Body : Submit(r, "client", body)
      BY <1>3 DEF Send
    <2>2. at[r] = "unsent"
      BY <1>3 DEF Send
    <2> QED
      BY <2>1, <2>2, SubmitKeeps
  <1> QED
    BY <1>1, <1>2, <1>3

\* A step from one place to another that sends nothing keeps what was found,
\* if it finds what the new place asks for.
LEMMA MoveKeeps ==
  ASSUME MailInv, NEW r \in Mails, NEW place \in Places \ Done,
         at[r] \in {"check"} \cup Working,
         Goto(r, place), UNCHANGED <<registered, origin, request, sent, relay>>,
         address' = [address EXCEPT ![r] = address'[r]],
         place \in Working => Authorized(request[r]) /\ RecipientFits(request[r]),
         place \in {"confirm", "compose", "deliver"} /\ request[r].to \in Users =>
           address'[r] = AddressOf[request[r].to],
         place = "deliver" => Valid(request[r]) /\ Waivable(request[r]),
         place # "unsent"
  PROVE  MailInv'
  <1> USE DEF MailInv
  <1>1. at' = [at EXCEPT ![r] = place]
    BY DEF Goto
  <1>2. at'[r] = place /\ \A q \in Mails : q # r => at'[q] = at[q] /\ address'[q] = address[q]
    BY <1>1 DEF Types
  <1>3. at[r] \notin Done /\ at[r] # "unsent"
    BY DEF Working, Done
  <1>4. Types'
    <2>1. address' = [q \in Mails |-> address'[q]]
      BY DEF Types
    <2>2. at' \in [Mails -> Places]
      BY <1>1 DEF Types
    <2> QED
      BY <2>1, <2>2, <1>2, <1>3 DEF Types
  <1>5. Passed'
    BY <1>2 DEF Passed
  <1>6. Resolved'
    BY <1>2 DEF Resolved
  <1>7. Composed'
    BY <1>2 DEF Composed
  <1>8. Unsent'
    BY <1>2, <1>3 DEF Unsent
  <1>9. Queued'
    BY <1>2 DEF Queued, Done
  <1>10. SentAsTierDemands'
    BY DEF SentAsTierDemands
  <1>11. Routed'
    BY <1>2 DEF Routed, Done
  <1> QED
    BY <1>4, <1>5, <1>6, <1>7, <1>8, <1>9, <1>10, <1>11

\* A check passed shows in the place the request moves to.
LEMMA CheckKeeps == ASSUME MailInv, NEW r \in Mails, Check(r) PROVE MailInv'
  <1> USE DEF MailInv
  <1> DEFINE fits == WellFormed(request[r]) /\ Authorized(request[r]) /\ RecipientFits(request[r])
  <1>0. at[r] = "check" /\ UNCHANGED <<registered, origin, request, sent, relay>>
    BY DEF Check
  <1>1. CASE fits /\ request[r].to \in Users
    <2>1. Goto(r, "resolve") /\ address' = [address EXCEPT ![r] = address'[r]]
      BY <1>1 DEF Check, Types
    <2> QED
      BY <2>1, <1>0, <1>1, MoveKeeps DEF Places, Working, Done
  <1>2. CASE fits /\ request[r].to \notin Users
    <2>1. Goto(r, "compose") /\ address' = [address EXCEPT ![r] = address'[r]]
      BY <1>2 DEF Check, Types
    <2> QED
      BY <2>1, <1>0, <1>2, MoveKeeps DEF Places, Working, Done
  <1>3. CASE ~ fits
    <2>1. Goto(r, "rejected") /\ address' = [address EXCEPT ![r] = address'[r]]
      BY <1>3 DEF Check, Types
    <2> QED
      BY <2>1, <1>0, MoveKeeps DEF Places, Working, Done
  <1> QED
    BY <1>1, <1>2, <1>3

\* The recipient of a personal mail is found before it is composed.
LEMMA ResolveKeeps == ASSUME MailInv, NEW r \in Mails, Resolve(r) PROVE MailInv'
  <1> USE DEF MailInv
  <1>0. at[r] = "resolve" /\ UNCHANGED <<registered, origin, request, sent, relay>>
    BY DEF Resolve
  <1>1. PICK found \in Lookups(request[r].to) :
          /\ address' = [address EXCEPT ![r] = found]
          /\ Goto(r, IF found = NoAddress THEN "rejected"
                     ELSE IF request[r].tier = "restricted" THEN "confirm" ELSE "compose")
    BY DEF Resolve
  <1>2. found = NoAddress \/ found = AddressOf[request[r].to]
    BY DEF Lookups, Email
  <1>3. Authorized(request[r]) /\ RecipientFits(request[r])
    BY <1>0 DEF Passed, Working
  <1>4. address'[r] = found
    BY <1>1 DEF Types
  <1>5. CASE found = NoAddress
    BY <1>0, <1>1, <1>4, <1>5, MoveKeeps DEF Places, Working, Done
  <1>6. CASE found # NoAddress /\ request[r].tier = "restricted"
    BY <1>0, <1>1, <1>2, <1>3, <1>4, <1>6, MoveKeeps DEF Places, Working, Done
  <1>7. CASE found # NoAddress /\ request[r].tier # "restricted"
    BY <1>0, <1>1, <1>2, <1>3, <1>4, <1>7, MoveKeeps DEF Places, Working, Done
  <1> QED
    BY <1>5, <1>6, <1>7

\* While the confirmation is awaited, what was found stays.
LEMMA ConfirmKeeps == ASSUME MailInv, NEW r \in Mails, Confirm(r) PROVE MailInv'
  <1> USE DEF MailInv
  <1>0. at[r] = "confirm" /\ UNCHANGED <<registered, origin, request, address, sent, relay>>
    BY DEF Confirm
  <1>1. PICK place \in {"compose", "rejected"} : Goto(r, place)
    BY DEF Confirm
  <1>2. Authorized(request[r]) /\ RecipientFits(request[r])
    BY <1>0 DEF Passed, Working
  <1>3. request[r].to \in Users => address'[r] = AddressOf[request[r].to]
    BY <1>0 DEF Resolved
  <1>4. address' = [address EXCEPT ![r] = address'[r]]
    BY <1>0 DEF Types
  <1> QED
    BY <1>0, <1>1, <1>2, <1>3, <1>4, MoveKeeps DEF Places, Working, Done

\* A message is composed once what its tier asks for is known.
LEMMA ComposeKeeps == ASSUME MailInv, NEW r \in Mails, Compose(r) PROVE MailInv'
  <1> USE DEF MailInv
  <1>0. at[r] = "compose" /\ UNCHANGED <<registered, origin, request, address, sent, relay>>
    BY DEF Compose
  <1>1. PICK place \in {"rejected", "raised", "deliver"} :
          Goto(r, place) /\ (place = "deliver" => Valid(request[r]) /\ Waivable(request[r]))
    BY DEF Compose
  <1>2. Authorized(request[r]) /\ RecipientFits(request[r])
    BY <1>0 DEF Passed, Working
  <1>3. request[r].to \in Users => address'[r] = AddressOf[request[r].to]
    BY <1>0 DEF Resolved
  <1>4. address' = [address EXCEPT ![r] = address'[r]]
    BY <1>0 DEF Types
  <1> QED
    BY <1>0, <1>1, <1>2, <1>3, <1>4, MoveKeeps DEF Places, Working, Done

\* The message that leaves is what its tier demands.
LEMMA MessageFits ==
  ASSUME MailInv, NEW r \in Mails, at[r] = "deliver"
  PROVE  LET b == request[r]
             m == Message(r)
         IN  /\ <<b.service, b.tier>> \in Policy
             /\ Level(MinimumTier[b.type]) <= Level(b.tier)
             /\ Level(b.tier) >= Level("personal") =>
                  /\ b.to \in Users /\ m.to = AddressOf[b.to]
                  /\ \/ m.marked /\ ~ m.html
                     \/ b.tier = "personal" /\ b.waiver = "token"
  <1> USE DEF MailInv
  <1> DEFINE b == request[r]
  <1>1. b \in Body
    BY DEF Types
  <1>2. Authorized(b) /\ RecipientFits(b) /\ Valid(b) /\ Waivable(b)
    BY DEF Passed, Composed, Working
  <1>3. <<b.service, b.tier>> \in Policy
    BY <1>2 DEF Authorized
  <1>4. Level(MinimumTier[b.type]) <= Level(b.tier)
    <2>1. Level(b.tier) >= Level(MinimumTier[b.type])
      BY <1>2 DEF Valid
    <2>2. b.tier \in Tiers /\ b.type \in DOMAIN MinimumTier
      <3>1. {"system", "social", "personal", "restricted"} \subseteq Tiers
        BY DEF Tiers, Levels
      <3> QED
        BY <1>1, <1>2, <1>3, <3>1 DEF Valid, Policy
    <2>3. MinimumTier[b.type] \in Tiers
      <3>1. Tiers = {"system", "social", "personal", "confidential", "restricted"}
        BY DEF Tiers, Levels
      <3> QED
        BY <2>2, <3>1 DEF MinimumTier
    <2>4. \A tier \in Tiers : Level(tier) \in 1..5
      <3>1. DOMAIN Levels = 1..5
        BY DEF Levels
      <3> QED
        BY <3>1, LevelIs DEF Tiers
    <2> QED
      BY <2>1, <2>2, <2>3, <2>4
  <1>5. ASSUME Level(b.tier) >= Level("personal")
        PROVE  /\ b.to \in Users /\ Message(r).to = AddressOf[b.to]
               /\ \/ Message(r).marked /\ ~ Message(r).html
                  \/ b.tier = "personal" /\ b.waiver = "token"
    <2>1. b.to \in Users
      BY <1>2, <1>5 DEF RecipientFits
    <2>2. Message(r).to = AddressOf[b.to]
      BY <2>1 DEF Message, Resolved
    <2>3. b.tier \in Tiers
      BY <1>1, <1>3 DEF Policy, Tiers, Levels
    <2>4. b.tier \in {"personal", "confidential", "restricted"}
      BY <2>3, <1>5, PersonalUp
    <2>5. b.waiver \in {"no", "bare", "token"}
      BY <1>1 DEF Body
    <2>6. Marked(b) \/ (b.tier = "personal" /\ b.waiver = "token")
      BY <1>2, <2>4, <2>5 DEF Waivable, Marked
    <2>7. Marked(b) => Message(r).marked /\ ~ Message(r).html
      BY DEF Message
    <2> QED
      BY <2>1, <2>2, <2>6, <2>7
  <1> QED
    BY <1>3, <1>4, <1>5

\* Delivery sends this message or nothing, and says queued only if it did.
LEMMA DeliverKeeps == ASSUME MailInv, NEW r \in Mails, Deliver(r) PROVE MailInv'
  <1> USE DEF MailInv
  <1>0. at[r] = "deliver" /\ UNCHANGED <<registered, origin, request, address, relay>> /\ sent[r] = {}
    BY DEF Deliver, Unsent, Done
  <1>1. PICK outcome \in Outcomes :
          /\ sent' = [sent EXCEPT ![r] = IF outcome[1] THEN @ \cup {Message(r)} ELSE @]
          /\ at' = [at EXCEPT ![r] = outcome[2]]
    BY DEF Deliver, Goto
  <1>2. /\ at'[r] \in Done
        /\ sent'[r] \in {{}, {Message(r)}}
        /\ at'[r] = "queued" => sent'[r] = {Message(r)}
        /\ at'[r] = "error" => relay
    <2>1. at'[r] = outcome[2] /\ sent'[r] = IF outcome[1] THEN {} \cup {Message(r)} ELSE {}
      BY <1>0, <1>1 DEF Types
    <2>2. CASE outcome = <<TRUE, "queued">>
      BY <2>1, <2>2 DEF Done
    <2>3. CASE relay /\ outcome = <<TRUE, "error">>
      BY <2>1, <2>3 DEF Done
    <2>4. CASE relay /\ outcome = <<FALSE, "error">>
      BY <2>1, <2>4 DEF Done
    <2> QED
      BY <2>2, <2>3, <2>4 DEF Outcomes
  <1>3. \A q \in Mails : q # r => at'[q] = at[q] /\ sent'[q] = sent[q]
    BY <1>1 DEF Types
  <1>4. Types'
    BY <1>0, <1>1, <1>2, <1>3 DEF Types, Outcomes, Places, Done
  <1>5. Passed' /\ Composed'
    BY <1>0, <1>2, <1>3 DEF Passed, Composed, Working, Done
  <1>6. Resolved' /\ Unsent'
    BY <1>0, <1>2, <1>3 DEF Resolved, Unsent, Done
  <1>7. Queued'
    BY <1>2, <1>3, FS_Singleton DEF Queued
  <1>8. SentAsTierDemands'
    <2> SUFFICES ASSUME NEW q \in Mails, NEW m \in sent'[q]
                 PROVE  LET b == request[q] IN
                        /\ <<b.service, b.tier>> \in Policy
                        /\ Level(MinimumTier[b.type]) <= Level(b.tier)
                        /\ Level(b.tier) >= Level("personal") =>
                             /\ b.to \in Users /\ m.to = AddressOf[b.to]
                             /\ \/ m.marked /\ ~ m.html
                                \/ b.tier = "personal" /\ b.waiver = "token"
      BY <1>0 DEF SentAsTierDemands
    <2>1. CASE q = r
      BY <2>1, <1>0, <1>2, MessageFits
    <2>2. CASE q # r
      BY <2>2, <1>3 DEF SentAsTierDemands
    <2> QED
      BY <2>1, <2>2
  <1>9. Routed'
    <2>1. Message(r).via = IF relay THEN "relay" ELSE "log"
      BY DEF Message
    <2> QED
      BY <2>1, <1>0, <1>2, <1>3 DEF Routed
  <1> QED
    BY <1>4, <1>5, <1>6, <1>7, <1>8, <1>9

\* A wiped player keeps the address that a request in flight has found.
LEMMA WipeKeeps == ASSUME MailInv, Wipe PROVE MailInv'
  BY DEF Wipe, MailInv, Types, Passed, Resolved, Composed, Unsent, Queued, Routed,
                  SentAsTierDemands

\* MailInv holds in every reachable state.
THEOREM MailInvariant == MailSpec => []MailInv
  <1>1. MailInv /\ [MailNext]_mailVars => MailInv'
    <2> SUFFICES ASSUME MailInv, [MailNext]_mailVars PROVE MailInv'
      OBVIOUS
    <2>1. CASE UNCHANGED mailVars
      BY <2>1 DEF mailVars, MailInv, Types, Passed, Resolved, Composed, Unsent, Queued, Routed,
                  SentAsTierDemands,
                  Message
    <2>2. CASE MailNext
      BY <2>2, NewMailKeeps, CheckKeeps, ResolveKeeps, ConfirmKeeps, ComposeKeeps,
         DeliverKeeps, WipeKeeps DEF MailNext, Process
    <2> QED
      BY <2>1, <2>2
  <1> QED
    BY <1>1, MailInvInit, PTL DEF MailSpec

\* Whatever is asked for by whomever, with players wiped at any time: a message
\* that has left is one its sender may send, and from the personal tier on it
\* went to the player's own address, marked and without HTML unless that was
\* waived.  (The mark is all: the encryption is a stub.)
THEOREM MailIsAsItsTierDemands == MailSpec => []SentAsTierDemands
  <1>1. MailInv => SentAsTierDemands
    BY DEF MailInv
  <1> QED
    BY <1>1, MailInvariant, PTL

\* A message reported as queued went out once, to the relay if there is one and
\* to the log otherwise; none went out for a request that was refused.
THEOREM MailAnswerIsTrue == MailSpec => []AnswerIsTrue
  <1>1. MailInv => AnswerIsTrue
    BY DEF MailInv, AnswerIsTrue, Queued, Routed, Unsent, Done
  <1> QED
    BY <1>1, MailInvariant, PTL
=============================================================================
