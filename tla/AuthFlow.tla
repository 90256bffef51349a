------------------------------ MODULE AuthFlow ------------------------------
(***************************************************************************)
(* The auth service (auth-service/index.ts): from the registration of an   *)
(* email address to a session, and the development reset.                  *)
(*                                                                         *)
(* Handlers run in one Node process and interleave at each await; a        *)
(* request w stands before its next statement on PostgreSQL or Redis.  An  *)
(* exception that no handler catches ends the process, and with it every   *)
(* request in flight; the container restarts.  It takes no fault of        *)
(* another program for that: a body that parses to null, or without client *)
(* data, is enough (Crash).                                                *)
(*                                                                         *)
(* A player has one verification link and at most one exchange code in its *)
(* life, so the random link and code are identified with the player's id.  *)
(* Ids, challenges and sessions are random: each is drawn once.  A key is  *)
(* what the authenticator says it is, and may be sent again by anybody.    *)
(*                                                                         *)
(* A definition followed by its namesake (TakenUnseen before Taken) is a   *)
(* mutation of it, used only to see that a property would notice it.       *)
(***************************************************************************)
EXTENDS Naturals

CONSTANTS
  Workers,     \* requests that may be in flight at a time
  Ids,         \* player ids the service ever draws
  Emails,      \* addresses people register
  Keys,        \* the credential ids that browsers ever send
  Challenges,  \* challenges the service ever draws
  Sessions,    \* session ids the service ever draws
  Faults,      \* which faults happen, any number of times
  None         \* no player, no key, no challenge

ASSUME AuthAssumption ==
  /\ None \notin Ids \cup Emails \cup Keys \cup Challenges \cup Sessions
  /\ Faults \subseteq {"death", "expiry", "reset"}

VARIABLES
  row,        \* table players
  owner,      \* table passkey_credentials: the player each key belongs to
  challenge,  \* table webauthn_challenges
  link,       \* the Redis key verify:<token> of each player
  code,       \* the Redis key exchange:<code> of each player
  session,    \* the Redis keys session:<player>:<session>
  mailed,     \* players who have their link in a mailbox
  given,      \* how many codes were sent to each player's browser
  boot,       \* how many bootstrap tokens were issued to each player
  jwt,        \* the session tokens issued, and for which key and challenge
  asked,      \* the challenges sent, as they were stored (history)
  saved,      \* the keys that players have enrolled (history)
  drawn,      \* the random values in use
  req,        \* the requests in flight
  threw       \* a registration has ended the process (history)

vars == <<row, owner, challenge, link, code, session, mailed, given, boot, jwt, asked, saved,
          drawn, req, threw>>
tables == <<row, owner, challenge>>
redis  == <<link, code, session>>
client == <<mailed, given, boot, jwt, asked, saved>>

NoRow == [email |-> None, verified |-> FALSE, enrolled |-> FALSE]
NoChallenge == [player |-> None, type |-> "none"]
NoToken == [player |-> None, key |-> None, on |-> None]
Idle == [at |-> "idle", id |-> None, email |-> None, on |-> None, key |-> None, scope |-> "none"]

Exists(i)  == i \in Ids /\ row[i] # NoRow
Rows(e)    == {i \in Ids : row[i].email = e}
Fresh(S)   == S \ drawn

\* The request w goes on to step s; it is answered.
To(w, s)  == req' = [req EXCEPT ![w].at = s]
Answer(w) == req' = [req EXCEPT ![w] = Idle]

\* An exception that no handler catches: the requests in flight are gone.
Die == req' = [w \in Workers |-> Idle]

-----------------------------------------------------------------------------
(* POST /register *)

\* An address that is taken is refused with 409, which changes nothing.
Register(w, e) ==
  /\ req[w] = Idle
  /\ Rows(e) = {}
  /\ req' = [req EXCEPT ![w] = [Idle EXCEPT !.at = "insert", !.email = e]]
  /\ UNCHANGED <<tables, redis, client, drawn, threw>>

TakenUnseen(e) == FALSE

\* players.email is UNIQUE; createPlayer does not catch the exception.
Taken(e) == Rows(e) # {}

InsertPlayer(w) ==
  /\ req[w].at = "insert"
  /\ \/ /\ Taken(req[w].email)
        /\ Die
        /\ threw' = TRUE
        /\ UNCHANGED <<row, drawn>>
     \/ /\ ~ Taken(req[w].email)
        /\ \E i \in Fresh(Ids) :
             /\ row' = [row EXCEPT ![i] = [NoRow EXCEPT !.email = req[w].email]]
             /\ drawn' = drawn \cup {i}
             /\ req' = [req EXCEPT ![w] = [Idle EXCEPT !.at = "link", !.id = i]]
        /\ UNCHANGED threw
  /\ UNCHANGED <<owner, challenge, redis, client>>

\* ensureBankAccount has been tried; sendVerificationEmail, which nobody awaits.
StoreLink(w) ==
  /\ req[w].at = "link"
  /\ link' = [link EXCEPT ![req[w].id] = "live"]
  /\ To(w, "mail")
  /\ UNCHANGED <<tables, code, session, client, drawn, threw>>

\* The email goes out, or email-service fails and only the log says so.
SendMail(w) ==
  /\ req[w].at = "mail"
  /\ mailed' \in {mailed, mailed \cup {req[w].id}}
  /\ Answer(w)
  /\ UNCHANGED <<tables, redis, given, boot, jwt, asked, saved, drawn, threw>>

-----------------------------------------------------------------------------
(* GET /verify-token, POST /exchange *)

TakenFromStill(keys, i) == keys

\* GETDEL: whoever takes a live key is the only one.
TakenFrom(keys, i) == [keys EXCEPT ![i] = "gone"]

VerifyToken(w, i) ==
  /\ req[w] = Idle
  /\ i \in mailed /\ link[i] = "live"
  /\ link' = TakenFrom(link, i)
  /\ req' = [req EXCEPT ![w] = [Idle EXCEPT !.at = "verify", !.id = i]]
  /\ UNCHANGED <<tables, code, session, client, drawn, threw>>

VerifyFindOnly(w) ==
  /\ req[w].at = "verify"
  /\ IF Exists(req[w].id) THEN To(w, "code") ELSE Answer(w)
  /\ UNCHANGED <<tables, redis, client, drawn, threw>>

\* findPlayerById; without a player the answer is an error page.
VerifyFind(w) ==
  /\ req[w].at = "verify"
  /\ IF Exists(req[w].id) THEN To(w, "mark") ELSE Answer(w)
  /\ UNCHANGED <<tables, redis, client, drawn, threw>>

MarkPlayerVerified(w) ==
  /\ req[w].at = "mark"
  /\ row' = IF Exists(req[w].id) THEN [row EXCEPT ![req[w].id].verified = TRUE] ELSE row
  /\ To(w, "code")
  /\ UNCHANGED <<owner, challenge, redis, client, drawn, threw>>

\* The code goes to the browser in the Location of a redirect.
IssueCode(w) ==
  /\ req[w].at = "code"
  /\ code' = [code EXCEPT ![req[w].id] = "live"]
  /\ given' = [given EXCEPT ![req[w].id] = @ + 1]
  /\ Answer(w)
  /\ UNCHANGED <<tables, link, session, mailed, boot, jwt, asked, saved, drawn, threw>>

Exchange(w, i) ==
  /\ req[w] = Idle
  /\ given[i] > 0 /\ code[i] = "live"
  /\ code' = TakenFrom(code, i)
  /\ req' = [req EXCEPT ![w] = [Idle EXCEPT !.at = "exchange", !.id = i]]
  /\ UNCHANGED <<tables, link, session, client, drawn, threw>>

\* findPlayerById, then the bootstrap token, or 404.
ExchangeFind(w) ==
  /\ req[w].at = "exchange"
  /\ boot' = IF Exists(req[w].id) THEN [boot EXCEPT ![req[w].id] = @ + 1] ELSE boot
  /\ Answer(w)
  /\ UNCHANGED <<tables, redis, mailed, given, jwt, asked, saved, drawn, threw>>

-----------------------------------------------------------------------------
(* Ceremonies: the challenges *)

\* storeChallenge: a challenge for a player who is gone violates the foreign
\* key, and nobody catches the exception.
StoreChallenge(w) ==
  /\ req[w].at \in {"registration", "authentication"}
  /\ LET i == req[w].id IN
     \/ /\ i # None /\ ~ Exists(i)
        /\ Die
        /\ UNCHANGED <<challenge, asked, drawn>>
     \/ /\ i = None \/ Exists(i)
        /\ \E c \in Fresh(Challenges) :
             /\ challenge' = [challenge EXCEPT ![c] = [player |-> i, type |-> req[w].at]]
             /\ asked' = [asked EXCEPT ![c] = [player |-> i, type |-> req[w].at]]
             /\ drawn' = drawn \cup {c}
        /\ Answer(w)
  /\ UNCHANGED <<row, owner, redis, mailed, given, boot, jwt, saved, threw>>

\* consumeChallenge: DELETE ... RETURNING.
Consumed(c) == [challenge EXCEPT ![c] = NoChallenge]

-----------------------------------------------------------------------------
(* POST /passkey/register/begin and /complete *)

\* Who may enroll a key, and with which scope: the holder of a bootstrap
\* token, or of a session token; Redis is not asked about the session.
Bearers == {<<i, "enroll">> : i \in {j \in Ids : boot[j] > 0}} \cup
           {<<jwt[s].player, "session">> : s \in {t \in Sessions : jwt[t] # NoToken}}

\* findPlayerById, or 404; the keys the player has already are only listed.
RegisterBegin(w) ==
  /\ req[w] = Idle
  /\ \E b \in Bearers :
       /\ Exists(b[1])
       /\ req' = [req EXCEPT ![w] = [Idle EXCEPT !.at = "registration", !.id = b[1]]]
  /\ UNCHANGED <<tables, redis, client, drawn, threw>>

\* The browser answers a challenge it was sent, whoever it was for.
RegisterComplete(w, c) ==
  /\ req[w] = Idle
  /\ c \in drawn
  /\ \E b \in Bearers :
       /\ Exists(b[1])
       /\ req' = [req EXCEPT ![w] =
                    [Idle EXCEPT !.at = "attest", !.id = b[1], !.scope = b[2], !.on = c]]
  /\ UNCHANGED <<tables, redis, client, drawn, threw>>

\* The challenge is gone, whether it was the player's or not.
ConsumeRegistration(w) ==
  /\ req[w].at = "attest"
  /\ LET c == req[w].on IN
     IF challenge[c].type = "registration"
       THEN /\ challenge' = Consumed(c)
            /\ IF challenge[c].player = req[w].id THEN To(w, "save") ELSE Answer(w)
       ELSE Answer(w) /\ UNCHANGED challenge
  /\ UNCHANGED <<row, owner, redis, client, drawn, threw>>

OwnersAfterTakeover(k, i) == [owner EXCEPT ![k] = i]

\* ON CONFLICT (credential_id) DO UPDATE SET counter: a key that is in the
\* table already stays whose it is.
OwnersAfter(k, i) == IF owner[k] = None THEN [owner EXCEPT ![k] = i] ELSE owner

\* saveCredential, of the key that the browser sends: a new row needs its
\* player, and the exception is one that this handler does catch; without a
\* new row the handler goes on all the same, and the key is not the player's.
SaveCredential(w) ==
  /\ req[w].at = "save"
  /\ \E k \in Keys :
       IF owner[k] # None \/ Exists(req[w].id)
       THEN /\ owner' = OwnersAfter(k, req[w].id)
            /\ saved' = saved \cup (IF owner[k] = None THEN {<<k, req[w].id>>} ELSE {})
            /\ req' = [req EXCEPT ![w].at = "enrol", ![w].key = k]
       ELSE Answer(w) /\ UNCHANGED <<owner, saved>>
  /\ UNCHANGED <<row, challenge, redis, mailed, given, boot, jwt, asked, drawn, threw>>

\* Only who came with a bootstrap token gets a session as well.
MarkPasskeyEnrolled(w) ==
  /\ req[w].at = "enrol"
  /\ row' = IF Exists(req[w].id) THEN [row EXCEPT ![req[w].id].enrolled = TRUE] ELSE row
  /\ IF req[w].scope = "enroll" THEN To(w, "session") ELSE Answer(w)
  /\ UNCHANGED <<owner, challenge, redis, client, drawn, threw>>

\* createSession and issueSessionJWT, for both ceremonies.
CreateSession(w) ==
  /\ req[w].at = "session"
  /\ \E s \in Fresh(Sessions) :
       /\ session' = [session EXCEPT ![s] = req[w].id]
       /\ jwt' = [jwt EXCEPT ![s] = [player |-> req[w].id, key |-> req[w].key, on |-> req[w].on]]
       /\ drawn' = drawn \cup {s}
  /\ Answer(w)
  /\ UNCHANGED <<tables, link, code, mailed, given, boot, asked, saved, threw>>

\* Inside try: the verification or a statement fails, and the answer is an
\* error; what was written before stays.
Refuse(w) ==
  /\ req[w].at \in {"save", "enrol", "session"}
  /\ Answer(w)
  /\ UNCHANGED <<tables, redis, client, drawn, threw>>

-----------------------------------------------------------------------------
(* POST /passkey/login/begin and /complete *)

\* An address nobody has gets a challenge too, for no player.
Challenged(e) == IF Rows(e) = {} THEN {None} ELSE Rows(e)

LoginBegin(w, e) ==
  /\ req[w] = Idle
  /\ \E i \in Challenged(e) :
       req' = [req EXCEPT ![w] = [Idle EXCEPT !.at = "authentication", !.id = i]]
  /\ UNCHANGED <<tables, redis, client, drawn, threw>>

\* An assertion: any key, known to the service or not, over any challenge sent.
LoginComplete(w, c, k) ==
  /\ req[w] = Idle
  /\ challenge[c].type = "authentication"
  /\ challenge' = Consumed(c)
  /\ IF challenge[c].player = None
       THEN UNCHANGED req
       ELSE req' = [req EXCEPT ![w] = [Idle EXCEPT
                      !.at = "credential", !.id = challenge[c].player, !.key = k, !.on = c]]
  /\ UNCHANGED <<row, owner, redis, client, drawn, threw>>

BelongsAny(k, i) == k # None /\ owner[k] # None

\* storedCred.playerId === playerId
Belongs(k, i) == k # None /\ owner[k] = i

\* getCredentialById, or 401.
LoginCredential(w) ==
  /\ req[w].at = "credential"
  /\ IF Belongs(req[w].key, req[w].id) THEN To(w, "player") ELSE Answer(w)
  /\ UNCHANGED <<tables, redis, client, drawn, threw>>

\* findPlayerById, or 404; then the signature and updateCredentialCounter,
\* whose counter is left out.
LoginFind(w) ==
  /\ req[w].at = "player"
  /\ IF Exists(req[w].id) THEN To(w, "session") ELSE Answer(w)
  /\ UNCHANGED <<tables, redis, client, drawn, threw>>

-----------------------------------------------------------------------------
(* POST /dev/reset: four statements *)

Flushed(keys) == [i \in Ids |-> IF keys[i] = "live" THEN "gone" ELSE keys[i]]
NotIn(S) == [x \in S |-> None]

\* TRUNCATE webauthn_challenges.
Reset(w) ==
  /\ "reset" \in Faults
  /\ req[w] = Idle
  /\ challenge' = [c \in Challenges |-> NoChallenge]
  /\ req' = [req EXCEPT ![w] = [Idle EXCEPT !.at = "wipe2"]]
  /\ UNCHANGED <<row, owner, redis, client, drawn, threw>>

\* TRUNCATE passkey_credentials.
WipeCredentials(w) ==
  /\ req[w].at = "wipe2"
  /\ owner' = NotIn(Keys)
  /\ To(w, "wipe3")
  /\ UNCHANGED <<row, challenge, redis, client, drawn, threw>>

\* TRUNCATE players CASCADE, which truncates the two others again.
WipePlayers(w) ==
  /\ req[w].at = "wipe3"
  /\ row' = [i \in Ids |-> NoRow]
  /\ owner' = NotIn(Keys)
  /\ challenge' = [c \in Challenges |-> NoChallenge]
  /\ To(w, "wipe4")
  /\ UNCHANGED <<redis, client, drawn, threw>>

\* FLUSHDB.
Flush(w) ==
  /\ req[w].at = "wipe4"
  /\ link' = Flushed(link)
  /\ code' = Flushed(code)
  /\ session' = NotIn(Sessions)
  /\ Answer(w)
  /\ UNCHANGED <<tables, client, drawn, threw>>

-----------------------------------------------------------------------------
\* The time to live of a link, a code, a challenge or a session is over.
Expire ==
  /\ "expiry" \in Faults
  /\ \/ \E i \in Ids : /\ link[i] = "live"
                       /\ link' = TakenFrom(link, i)
                       /\ UNCHANGED <<tables, code, session>>
     \/ \E i \in Ids : /\ code[i] = "live"
                       /\ code' = TakenFrom(code, i)
                       /\ UNCHANGED <<tables, link, session>>
     \/ \E c \in Challenges : /\ challenge[c] # NoChallenge
                              /\ challenge' = [challenge EXCEPT ![c] = NoChallenge]
                              /\ UNCHANGED <<row, owner, redis>>
     \/ \E s \in Sessions : /\ session[s] # None
                            /\ session' = [session EXCEPT ![s] = None]
                            /\ UNCHANGED <<tables, link, code>>
  /\ UNCHANGED <<client, drawn, req, threw>>

\* The process is killed, a statement outside of try fails, or a request comes
\* whose body is not what its handler reads from it (null, no client data): an
\* exception outside of try.  Without a request in flight nothing is lost.
Crash ==
  /\ "death" \in Faults
  /\ \E w \in Workers : req[w] # Idle
  /\ Die
  /\ UNCHANGED <<tables, redis, client, drawn, threw>>

Init ==
  /\ row = [i \in Ids |-> NoRow]
  /\ owner = NotIn(Keys)
  /\ challenge = [c \in Challenges |-> NoChallenge]
  /\ link = [i \in Ids |-> "none"]
  /\ code = [i \in Ids |-> "none"]
  /\ session = NotIn(Sessions)
  /\ mailed = {}
  /\ given = [i \in Ids |-> 0]
  /\ boot = [i \in Ids |-> 0]
  /\ jwt = [s \in Sessions |-> NoToken]
  /\ asked = [c \in Challenges |-> NoChallenge]
  /\ saved = {}
  /\ drawn = {}
  /\ req = [w \in Workers |-> Idle]
  /\ threw = FALSE

Step(w) ==
  \/ InsertPlayer(w) \/ StoreLink(w) \/ SendMail(w)
  \/ VerifyFind(w) \/ MarkPlayerVerified(w) \/ IssueCode(w) \/ ExchangeFind(w)
  \/ StoreChallenge(w) \/ ConsumeRegistration(w) \/ SaveCredential(w)
  \/ MarkPasskeyEnrolled(w) \/ CreateSession(w) \/ Refuse(w)
  \/ LoginCredential(w) \/ LoginFind(w)
  \/ WipeCredentials(w) \/ WipePlayers(w) \/ Flush(w)

Accept(w) ==
  \/ \E e \in Emails : Register(w, e) \/ LoginBegin(w, e)
  \/ \E i \in Ids : VerifyToken(w, i) \/ Exchange(w, i)
  \/ RegisterBegin(w)
  \/ \E c \in Challenges : RegisterComplete(w, c) \/ \E k \in Keys \cup {None} : LoginComplete(w, c, k)
  \/ Reset(w)

Next ==
  \/ \E w \in Workers : Accept(w) \/ Step(w)
  \/ Expire
  \/ Crash

Spec == Init /\ [][Next]_vars

-----------------------------------------------------------------------------
Steps == {"idle", "insert", "link", "mail", "verify", "mark", "code", "exchange",
          "registration", "authentication", "attest", "save", "enrol", "session",
          "credential", "player", "wipe2", "wipe3", "wipe4"}
KeyStates == {"none", "live", "gone"}
PlayerRow == [email : Emails \cup {None}, verified : BOOLEAN, enrolled : BOOLEAN]
ChallengeRow == [player : Ids \cup {None}, type : {"none", "registration", "authentication"}]

\* Types; what is drawn is what tables, Redis and clients may refer to.
TypeOK ==
  /\ row \in [Ids -> PlayerRow]
  /\ owner \in [Keys -> Ids \cup {None}]
  /\ challenge \in [Challenges -> ChallengeRow] /\ asked \in [Challenges -> ChallengeRow]
  /\ link \in [Ids -> KeyStates] /\ code \in [Ids -> KeyStates]
  /\ session \in [Sessions -> Ids \cup {None}]
  /\ mailed \subseteq Ids
  /\ given \in [Ids -> Nat] /\ boot \in [Ids -> Nat]
  /\ jwt \in [Sessions -> [player : Ids \cup {None}, key : Keys \cup {None},
                           on : Challenges \cup {None}]]
  /\ saved \subseteq Keys \X Ids
  /\ drawn \subseteq Ids \cup Challenges \cup Sessions
  /\ req \in [Workers -> [at : Steps, id : Ids \cup {None}, email : Emails \cup {None},
                          on : Challenges \cup {None}, key : Keys \cup {None},
                          scope : {"none", "enroll", "session"}]]
  /\ threw \in BOOLEAN

\* No two accounts have one address, however registrations interleave.
OneAccountPerEmail == \A i, j \in Ids : Exists(i) /\ Exists(j) /\ i # j => row[i].email # row[j].email

\* A link leads to one code, a code to one bootstrap token and a challenge to one
\* session, however often and however concurrently they are presented: nothing
\* that is consumed (getdel, DELETE ... RETURNING) can be replayed.
ServedOnce ==
  /\ \A i \in Ids : given[i] <= 1 /\ boot[i] <= 1
  /\ \A s, t \in Sessions :
       s # t /\ jwt[s] # NoToken /\ jwt[t] # NoToken => jwt[s].on # jwt[t].on

\* Whoever can enroll a key, has one or has a session has verified the address.
VerifiedFirst ==
  \A i \in Ids :
    /\ Exists(i)
    /\ given[i] > 0 \/ boot[i] > 0 \/ (\E k \in Keys : owner[k] = i) \/ (\E s \in Sessions : session[s] = i)
    => row[i].verified

\* A session token is for the player for whom its challenge was drawn; and one
\* from a login is for a player who has enrolled the key that signed, whichever
\* keys and challenges browsers combine, enroll again or present twice.
SessionOfKeyHolder ==
  \A s \in Sessions : jwt[s] # NoToken =>
    LET sent == asked[jwt[s].on] IN
    /\ sent.player = jwt[s].player
    /\ sent.type = "authentication" => <<jwt[s].key, jwt[s].player>> \in saved

\* A key that is in the table is its player's until the table is emptied:
\* enrolling it again, with whatever token, gives it to nobody else.
KeyStays == [][\A k \in Keys : owner[k] # None => owner'[k] \in {owner[k], None}]_vars

\* The contract of /register: an address that is taken is refused with 409.
DuplicateRefused == ~ threw

=============================================================================
