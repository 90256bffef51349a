----------------------------- MODULE AuthProofs -----------------------------
(***************************************************************************)
(* Theorems about AuthFlow, for every number of requests in flight, of     *)
(* players, addresses, keys, challenges and sessions, and whatever faults  *)
(* happen: what is consumed is consumed once, who is let in has verified   *)
(* the address and holds the key, and a key stays with its player.         *)
(*                                                                         *)
(* Each invariant is inductive only with what the requests in flight have  *)
(* been found to be: a link that was taken is with one request until it    *)
(* becomes a code (Links), a code until it becomes a bootstrap token       *)
(* (Codes), a challenge until it becomes a session (Spent).                *)
(***************************************************************************)
EXTENDS AuthFlow, TLAPS

Request == [at : Steps, id : Ids \cup {None}, email : Emails \cup {None},
            on : Challenges \cup {None}, key : Keys \cup {None},
            scope : {"none", "enroll", "session"}]

Linking  == {"link", "verify", "mark", "code"}
Spending == {"save", "enrol", "session", "credential", "player"}
Vouching == {"code", "exchange", "registration", "attest", "save", "enrol", "session", "player"}

\* What was not drawn is nowhere.
NewIds ==
  \A i \in Ids \ drawn :
    /\ row[i] = NoRow /\ link[i] = "none" /\ given[i] = 0 /\ boot[i] = 0 /\ i \notin mailed
    /\ \A k \in Keys : owner[k] # i
    /\ \A s \in Sessions : session[s] # i /\ jwt[s].player # i
    /\ \A c \in Challenges : challenge[c].player # i
    /\ \A w \in Workers : req[w].id # i
NewChallenges ==
  \A c \in Challenges \ drawn :
    /\ challenge[c] = NoChallenge
    /\ \A s \in Sessions : jwt[s].on # c
    /\ \A w \in Workers : req[w].on # c
NewSessions == \A s \in Sessions \ drawn : jwt[s] = NoToken /\ session[s] = None

\* A request past its first step knows its player.
Named ==
  /\ \A w \in Workers : req[w].at \in Linking \cup Spending \cup Vouching \cup {"mail"} => req[w].id \in Ids
  /\ \A w \in Workers : req[w].at \in Spending \cup {"attest"} => req[w].on \in Challenges

\* A link is stored once, and leads to one code.
Links ==
  /\ \A w \in Workers :
       /\ req[w].at = "link" => link[req[w].id] = "none"
       /\ req[w].at \in {"verify", "mark", "code"} => link[req[w].id] = "gone"
       /\ req[w].at \in Linking => given[req[w].id] = 0
  /\ \A v, w \in Workers :
       req[v].at \in Linking /\ req[w].at \in Linking /\ req[v].id = req[w].id => v = w
  /\ \A i \in Ids :
       /\ given[i] <= 1
       /\ link[i] \in {"none", "live"} => given[i] = 0
       /\ given[i] = 0 => code[i] = "none"

\* A code leads to one bootstrap token.
Codes ==
  /\ \A w \in Workers : req[w].at = "exchange" => code[req[w].id] = "gone" /\ boot[req[w].id] = 0
  /\ \A v, w \in Workers :
       req[v].at = "exchange" /\ req[w].at = "exchange" /\ req[v].id = req[w].id => v = w
  /\ \A i \in Ids :
       /\ boot[i] <= 1
       /\ code[i] \in {"none", "live"} => boot[i] = 0

\* A challenge leads to one session token.
SpentByRequest ==
  \A w \in Workers : req[w].at \in Spending =>
    /\ challenge[req[w].on].type = "none"
    /\ \A s \in Sessions : jwt[s].on # req[w].on
OneSpender ==
  \A v, w \in Workers :
    req[v].at \in Spending /\ req[w].at \in Spending /\ req[v].on = req[w].on => v = w
SpentBySession ==
  \A s \in Sessions : jwt[s] # NoToken =>
    /\ jwt[s].on \in Challenges /\ challenge[jwt[s].on].type = "none"
    /\ \A t \in Sessions : jwt[t] # NoToken /\ jwt[s].on = jwt[t].on => s = t
Spent == SpentByRequest /\ OneSpender /\ SpentBySession

Vouched(i) == Exists(i) => row[i].verified

\* Who has a code, a token, a key or a session has verified the address.
Vouch ==
  /\ \A w \in Workers : req[w].at \in Vouching => Vouched(req[w].id)
  /\ \A i \in Ids :
       \/ given[i] > 0 \/ boot[i] > 0 \/ \E k \in Keys : owner[k] = i
       \/ \E s \in Sessions : session[s] = i \/ jwt[s].player = i
       => Vouched(i)

\* The table of challenges holds what was sent, that of keys what was saved.
Stored ==
  /\ \A c \in Challenges : challenge[c] \in {NoChallenge, asked[c]}
  /\ \A k \in Keys : owner[k] # None => <<k, owner[k]>> \in saved

\* A request past its challenge is for the player it was drawn for, and past the
\* look at the key of a login for one who has enrolled that key.
Held ==
  \A w \in Workers :
    /\ req[w].at \in Spending => asked[req[w].on].player = req[w].id
    /\ req[w].at \in {"save", "enrol"} => asked[req[w].on].type = "registration"
    /\ req[w].at \in {"player", "session"} /\ asked[req[w].on].type = "authentication" =>
         <<req[w].key, req[w].id>> \in saved

AuthInv ==
  /\ TypeOK /\ NewIds /\ NewChallenges /\ NewSessions /\ Named /\ Links /\ Codes /\ Spent /\ Vouch
  /\ Stored /\ Held /\ SessionOfKeyHolder /\ OneAccountPerEmail

-----------------------------------------------------------------------------
\* Nothing is registered yet.
LEMMA AuthInvInit == Init => AuthInv
  <1> SUFFICES ASSUME Init PROVE AuthInv
    OBVIOUS
  <1> USE AuthAssumption DEF AuthAssumption, Init, Idle, NoRow, NoChallenge, NoToken, NotIn
  <1>1. TypeOK
    BY DEF TypeOK, Steps, KeyStates, PlayerRow, ChallengeRow
  <1>2. NewIds
    BY DEF NewIds
  <1>4. NewChallenges
    BY DEF NewChallenges
  <1>5. NewSessions
    BY DEF NewSessions
  <1>6. Named
    BY DEF Named, Linking, Spending, Vouching
  <1>7. Links
    BY DEF Links, Linking
  <1>8. Codes
    BY DEF Codes
  <1>9. Spent
    BY DEF Spent, SpentByRequest, OneSpender, SpentBySession, Spending
  <1>10. Vouch
    BY DEF Vouch, Vouching, Vouched, Exists
  <1>11. Stored
    BY DEF Stored
  <1>12. Held
    BY DEF Held, Spending
  <1>13. SessionOfKeyHolder
    BY DEF SessionOfKeyHolder
  <1>14. OneAccountPerEmail
    BY DEF OneAccountPerEmail, Exists
  <1> QED
    BY <1>1, <1>2, <1>4, <1>5, <1>6, <1>7, <1>8, <1>9, <1>10, <1>11, <1>12, <1>13, <1>14 DEF AuthInv

-----------------------------------------------------------------------------
\* The request w comes to step s, for player i, with challenge c and key k.
Moves(w, s, i, c, k) ==
  /\ req' \in [Workers -> Request]
  /\ \A v \in Workers :
       /\ req'[v].at  = IF v = w THEN s ELSE req[v].at
       /\ req'[v].id  = IF v = w THEN i ELSE req[v].id
       /\ req'[v].on  = IF v = w THEN c ELSE req[v].on
       /\ req'[v].key = IF v = w THEN k ELSE req[v].key

\* A request goes on.
LEMMA ToMoves ==
  ASSUME TypeOK, NEW w \in Workers, NEW s \in Steps, To(w, s)
  PROVE  Moves(w, s, req[w].id, req[w].on, req[w].key)
  <1>1. req \in [Workers -> Request]
    BY DEF TypeOK, Request
  <1> QED
    BY <1>1 DEF To, Moves, Request

\* A request is answered.
LEMMA AnswerMoves ==
  ASSUME TypeOK, NEW w \in Workers, Answer(w)
  PROVE  Moves(w, "idle", None, None, None)
  <1>1. req \in [Workers -> Request] /\ Idle \in Request
    BY DEF TypeOK, Request, Idle, Steps
  <1> QED
    BY <1>1 DEF Answer, Moves, Idle

\* A request comes in.
LEMMA NewMoves ==
  ASSUME TypeOK, NEW w \in Workers, NEW r \in Request, req' = [req EXCEPT ![w] = r]
  PROVE  Moves(w, r.at, r.id, r.on, r.key)
  <1>1. req \in [Workers -> Request]
    BY DEF TypeOK, Request
  <1> QED
    BY <1>1 DEF Moves


\* A player is updated, if it is there.
LEMMA RowUpdated ==
  ASSUME TypeOK, NEW i \in Ids,
         \/ row' = row /\ ~ Exists(i)
         \/ row' = [row EXCEPT ![i].verified = TRUE] /\ Exists(i)
         \/ row' = [row EXCEPT ![i].enrolled = TRUE] /\ Exists(i)
  PROVE  /\ row' \in [Ids -> PlayerRow]
         /\ \A j \in Ids :
              /\ row'[j].email = row[j].email /\ (row'[j] = NoRow <=> row[j] = NoRow)
              /\ row[j].verified => row'[j].verified
              /\ j # i => row'[j].verified = row[j].verified
         /\ row' = [row EXCEPT ![i].verified = TRUE] => row'[i].verified
  <1>1. row \in [Ids -> PlayerRow]
    BY DEF TypeOK
  <1>2. row' = [row EXCEPT ![i].verified = TRUE] => row'[i].verified
    BY <1>1 DEF PlayerRow
  <1>3. ASSUME Exists(i), row' = [row EXCEPT ![i].verified = TRUE]
        PROVE  /\ row' \in [Ids -> PlayerRow] /\ row'[i].verified /\ row'[i].email = row[i].email
               /\ row'[i] # NoRow /\ \A j \in Ids \ {i} : row'[j] = row[j]
    BY <1>1, <1>3 DEF PlayerRow, NoRow
  <1>4. ASSUME Exists(i), row' = [row EXCEPT ![i].enrolled = TRUE]
        PROVE  /\ row' \in [Ids -> PlayerRow] /\ row'[i].verified = row[i].verified
               /\ row'[i].email = row[i].email
               /\ row'[i] # NoRow /\ \A j \in Ids \ {i} : row'[j] = row[j]
    BY <1>1, <1>4 DEF PlayerRow, NoRow
  <1> QED
    BY <1>1, <1>2, <1>3, <1>4 DEF Exists

\* The requests in flight are lost.
LEMMA DieKeeps ==
  ASSUME AuthInv, Die, threw' \in BOOLEAN, UNCHANGED <<tables, redis, client, drawn>>
  PROVE  AuthInv'
  <1> USE AuthAssumption DEF AuthAssumption
  <1>inv. /\ TypeOK /\ NewIds /\ NewChallenges /\ NewSessions
          /\ Named /\ Links /\ Codes /\ Spent /\ Vouch
          /\ Stored /\ Held /\ SessionOfKeyHolder /\ OneAccountPerEmail
    BY DEF AuthInv
  <1>req. \A w \in Workers : req'[w].at = "idle" /\ req'[w].id = None /\ req'[w].on = None /\ req'[w].key = None
    BY DEF Die, Idle
  <1>same. UNCHANGED <<row, owner, challenge, link, code, session, mailed, given, boot, jwt, asked, saved, drawn>>
    BY DEF Die, tables, redis, client
  <1>TypeOK. TypeOK'
    BY <1>inv, <1>req, <1>same DEF TypeOK, Moves, Die, Idle, Steps
  <1>NewIds. NewIds'
    <2>1. NewIds /\ \A w \in Workers : req'[w].id \notin Ids
      BY <1>inv, <1>req
    <2>2. ASSUME NEW i \in Ids \ drawn
          PROVE  i \notin mailed' /\ row'[i] = NoRow /\ link'[i] = "none" /\ given'[i] = 0 /\ boot'[i] = 0
      BY <2>1, <1>same DEF NewIds
    <2>3. ASSUME NEW i \in Ids \ drawn
          PROVE  /\ \A k \in Keys : owner'[k] # i
                 /\ \A s \in Sessions : session'[s] # i /\ jwt'[s].player # i
                 /\ \A c \in Challenges : challenge'[c].player # i
      BY <2>1, <1>same DEF NewIds
    <2>4. \A i \in Ids : \A w \in Workers : req'[w].id # i
      BY <2>1
    <2> QED
      BY <2>2, <2>3, <2>4, <1>same DEF NewIds
  <1>NewChallenges. NewChallenges'
    BY <1>inv, <1>req, <1>same DEF Moves, NewChallenges
  <1>NewSessions. NewSessions'
    BY <1>inv, <1>same DEF Moves, NewSessions
  <1>Named. Named'
    BY <1>inv, <1>req, <1>same DEF Moves, Named, Linking, Spending, Vouching
  <1>Links. Links'
    BY <1>inv, <1>req, <1>same DEF Moves, Links, Linking, Named, Spending, Vouching
  <1>Codes. Codes'
    BY <1>inv, <1>req, <1>same DEF Moves, Codes, Named, Linking, Spending, Vouching
  <1>Spent. Spent'
    BY <1>inv, <1>req, <1>same DEF Moves, Spent, SpentByRequest, OneSpender, SpentBySession,
       Spending, Named, Linking, Vouching
  <1>Vouch. Vouch'
    BY <1>inv, <1>req, <1>same DEF Moves, Vouch, Vouching, Vouched, Exists, Named, Linking, Spending
  <1>Stored. Stored'
    BY <1>inv, <1>same DEF Stored
  <1>Held. Held'
    BY <1>inv, <1>req, <1>same DEF Moves, Held, Spending, Named
  <1>Holder. SessionOfKeyHolder'
    BY <1>inv, <1>same DEF SessionOfKeyHolder
  <1>OneAccountPerEmail. OneAccountPerEmail'
    BY <1>inv, <1>same DEF Moves, OneAccountPerEmail, Exists
  <1> QED
    BY <1>TypeOK, <1>NewIds, <1>NewChallenges, <1>NewSessions, <1>Named, <1>Links,
       <1>Codes, <1>Spent, <1>Vouch, <1>Stored, <1>Held, <1>Holder, <1>OneAccountPerEmail DEF AuthInv

\* A request is answered, and nothing else happens.
LEMMA AnsweredKeeps ==
  ASSUME AuthInv, NEW w \in Workers, Answer(w),
         UNCHANGED <<tables, redis, client, drawn, threw>>
  PROVE  AuthInv'
  <1> USE AuthAssumption DEF AuthAssumption
  <1>inv. /\ TypeOK /\ NewIds /\ NewChallenges /\ NewSessions
          /\ Named /\ Links /\ Codes /\ Spent /\ Vouch
          /\ Stored /\ Held /\ SessionOfKeyHolder /\ OneAccountPerEmail
    BY DEF AuthInv
  <1>moves. Moves(w, "idle", None, None, None)
    BY <1>inv, AnswerMoves
  <1>same. UNCHANGED <<row, owner, challenge, link, code, session, mailed, given, boot, jwt, asked, saved, drawn, threw>>
    BY DEF tables, redis, client
  <1>TypeOK. TypeOK'
    BY <1>inv, <1>moves, <1>same DEF TypeOK, Moves, Request
  <1>NewIds. NewIds'
    BY <1>inv, <1>moves, <1>same DEF Moves, NewIds
  <1>NewChallenges. NewChallenges'
    BY <1>inv, <1>moves, <1>same DEF Moves, NewChallenges
  <1>NewSessions. NewSessions'
    BY <1>inv, <1>same DEF Moves, NewSessions
  <1>Named. Named'
    BY <1>inv, <1>moves, <1>same DEF Moves, Named, Linking, Spending, Vouching
  <1>Links. Links'
    BY <1>inv, <1>moves, <1>same DEF Moves, Links, Linking, Named, Spending, Vouching
  <1>Codes. Codes'
    BY <1>inv, <1>moves, <1>same DEF Moves, Codes, Named, Linking, Spending, Vouching
  <1>Spent. Spent'
    BY <1>inv, <1>moves, <1>same DEF Moves, Spent, SpentByRequest, OneSpender, SpentBySession,
       Spending, Named, Linking, Vouching
  <1>Vouch. Vouch'
    BY <1>inv, <1>moves, <1>same DEF Moves, Vouch, Vouching, Vouched, Exists, Named, Linking,
       Spending
  <1>Stored. Stored'
    BY <1>inv, <1>same DEF Stored
  <1>Held. Held'
    BY <1>inv, <1>moves, <1>same DEF Moves, Held, Spending, Named
  <1>Holder. SessionOfKeyHolder'
    BY <1>inv, <1>same DEF SessionOfKeyHolder
  <1>OneAccountPerEmail. OneAccountPerEmail'
    BY <1>inv, <1>same DEF Moves, OneAccountPerEmail, Exists
  <1> QED
    BY <1>TypeOK, <1>NewIds, <1>NewChallenges, <1>NewSessions, <1>Named, <1>Links,
       <1>Codes, <1>Spent, <1>Vouch, <1>Stored, <1>Held, <1>Holder, <1>OneAccountPerEmail DEF AuthInv

\* A registration begins.
LEMMA RegisterKeeps ==
  ASSUME AuthInv, NEW w \in Workers, NEW e \in Emails, Register(w, e)
  PROVE  AuthInv'
  <1> USE AuthAssumption DEF AuthAssumption
  <1>inv. /\ TypeOK /\ NewIds /\ NewChallenges /\ NewSessions
          /\ Named /\ Links /\ Codes /\ Spent /\ Vouch
          /\ Stored /\ Held /\ SessionOfKeyHolder /\ OneAccountPerEmail
    BY DEF AuthInv
  <1>new. /\ [Idle EXCEPT !.at = "insert", !.email = e] \in Request
          /\ req' = [req EXCEPT ![w] = [Idle EXCEPT !.at = "insert", !.email = e]]
    BY <1>inv DEF Register, Idle, Request, Steps
  <1>moves. Moves(w, "insert", None, None, None)
    BY <1>inv, <1>new, NewMoves DEF Idle
  <1>at. req[w].at = "idle"
    BY DEF Register, Idle
  <1>same. UNCHANGED <<row, owner, challenge, link, code, session, mailed, given, boot, jwt, asked, saved, drawn, threw>>
    BY DEF Register, tables, redis, client
  <1>TypeOK. TypeOK'
    BY <1>inv, <1>moves, <1>at, <1>same DEF TypeOK, Moves, Request
  <1>NewIds. NewIds'
    BY <1>inv, <1>moves, <1>at, <1>same DEF Moves, NewIds
  <1>NewChallenges. NewChallenges'
    BY <1>inv, <1>moves, <1>at, <1>same DEF Moves, NewChallenges
  <1>NewSessions. NewSessions'
    BY <1>inv, <1>at, <1>same DEF Moves, NewSessions
  <1>Named. Named'
    BY <1>inv, <1>moves, <1>at, <1>same DEF Moves, Named, Linking, Spending, Vouching
  <1>Links. Links'
    BY <1>inv, <1>moves, <1>at, <1>same DEF Moves, Links, Linking, Named, Spending, Vouching
  <1>Codes. Codes'
    BY <1>inv, <1>moves, <1>at, <1>same DEF Moves, Codes, Named, Linking, Spending, Vouching
  <1>Spent. Spent'
    BY <1>inv, <1>moves, <1>at, <1>same DEF Moves, Spent, SpentByRequest, OneSpender, SpentBySession,
       Spending, Named, Linking, Vouching
  <1>Vouch. Vouch'
    BY <1>inv, <1>moves, <1>at, <1>same DEF Moves, Vouch, Vouching, Vouched, Exists, Named, Linking,
       Spending
  <1>Stored. Stored'
    BY <1>inv, <1>same DEF Stored
  <1>Held. Held'
    BY <1>inv, <1>moves, <1>at, <1>same DEF Moves, Held, Spending, Named
  <1>Holder. SessionOfKeyHolder'
    BY <1>inv, <1>same DEF SessionOfKeyHolder
  <1>OneAccountPerEmail. OneAccountPerEmail'
    BY <1>inv, <1>at, <1>same DEF Moves, OneAccountPerEmail, Exists
  <1> QED
    BY <1>TypeOK, <1>NewIds, <1>NewChallenges, <1>NewSessions, <1>Named, <1>Links,
       <1>Codes, <1>Spent, <1>Vouch, <1>Stored, <1>Held, <1>Holder, <1>OneAccountPerEmail DEF AuthInv

\* A player is inserted, with an id nobody has.
LEMMA PlayerInserted ==
  ASSUME AuthInv, NEW w \in Workers, NEW i \in Fresh(Ids), 
         req[w].at = "insert", Rows(req[w].email) = {},
         row' = [row EXCEPT ![i] = [NoRow EXCEPT !.email = req[w].email]],
         drawn' = drawn \cup {i},
         req' = [req EXCEPT ![w] = [Idle EXCEPT !.at = "link", !.id = i]],
         UNCHANGED <<owner, challenge, redis, client, threw>>
  PROVE  AuthInv'
  <1> USE AuthAssumption DEF AuthAssumption
  <1>inv. /\ TypeOK /\ NewIds /\ NewChallenges /\ NewSessions
          /\ Named /\ Links /\ Codes /\ Spent /\ Vouch
          /\ Stored /\ Held /\ SessionOfKeyHolder /\ OneAccountPerEmail
    BY DEF AuthInv
  <1>new. /\ [Idle EXCEPT !.at = "link", !.id = i] \in Request
          /\ req' = [req EXCEPT ![w] = [Idle EXCEPT !.at = "link", !.id = i]]
    BY <1>inv DEF Fresh, Idle, Request, Steps
  <1>moves. Moves(w, "link", i, None, None)
    BY <1>inv, <1>new, NewMoves DEF Idle
  <1>at. /\ i \in Ids /\ i \notin drawn
         /\ \A j \in Ids : row[j].email # req[w].email
    BY DEF Fresh, Rows
  <1>rowType. row' \in [Ids -> PlayerRow]
    BY <1>inv, <1>at DEF TypeOK, PlayerRow, NoRow
  <1>row. /\ row'[i].email = req[w].email /\ ~ row'[i].verified
          /\ \A j \in Ids \ {i} : row'[j] = row[j]
    BY <1>inv, <1>at DEF TypeOK, PlayerRow, NoRow
  <1>same. UNCHANGED <<owner, challenge, link, code, session, mailed, given, boot, jwt, asked, saved, threw>>
    BY DEF tables, redis, client
  <1>TypeOK. TypeOK'
    BY <1>inv, <1>moves, <1>at, <1>rowType, <1>same DEF TypeOK, Moves, Request
  <1>NewIds. NewIds'
    BY <1>inv, <1>moves, <1>at, <1>row, <1>same DEF Moves, NewIds
  <1>NewChallenges. NewChallenges'
    BY <1>inv, <1>moves, <1>at, <1>same DEF Moves, NewChallenges
  <1>NewSessions. NewSessions'
    BY <1>inv, <1>at, <1>same DEF Moves, NewSessions
  <1>Named. Named'
    BY <1>inv, <1>moves, <1>at, <1>same DEF Moves, Named, Linking, Spending, Vouching
  <1>Links. Links'
    BY <1>inv, <1>moves, <1>at, <1>same DEF Moves, Links, Linking, Named, Spending, Vouching, NewIds
  <1>Codes. Codes'
    BY <1>inv, <1>moves, <1>at, <1>same DEF Moves, Codes, Named, Linking, Spending, Vouching, NewIds
  <1>Spent. Spent'
    BY <1>inv, <1>moves, <1>at, <1>same DEF Moves, Spent, SpentByRequest, OneSpender, SpentBySession,
       Spending, Named, Linking, Vouching
  <1>Vouch. Vouch'
    BY <1>inv, <1>moves, <1>at, <1>row, <1>same DEF Moves, Vouch, Vouching, Vouched, Exists, Named,
       Linking, Spending, NewIds
  <1>Stored. Stored'
    BY <1>inv, <1>same DEF Stored
  <1>Held. Held'
    BY <1>inv, <1>moves, <1>at, <1>same DEF Moves, Held, Spending, Named
  <1>Holder. SessionOfKeyHolder'
    BY <1>inv, <1>same DEF SessionOfKeyHolder
  <1>OneAccountPerEmail. OneAccountPerEmail'
    BY <1>inv, <1>at, <1>row, <1>same DEF Moves, OneAccountPerEmail, Exists
  <1> QED
    BY <1>TypeOK, <1>NewIds, <1>NewChallenges, <1>NewSessions, <1>Named, <1>Links,
       <1>Codes, <1>Spent, <1>Vouch, <1>Stored, <1>Held, <1>Holder, <1>OneAccountPerEmail DEF AuthInv

\* The link is stored.
LEMMA StoreLinkKeeps ==
  ASSUME AuthInv, NEW w \in Workers, StoreLink(w)
  PROVE  AuthInv'
  <1> USE AuthAssumption DEF AuthAssumption
  <1>inv. /\ TypeOK /\ NewIds /\ NewChallenges /\ NewSessions
          /\ Named /\ Links /\ Codes /\ Spent /\ Vouch
          /\ Stored /\ Held /\ SessionOfKeyHolder /\ OneAccountPerEmail
    BY DEF AuthInv
  <1>moves. Moves(w, "mail", req[w].id, req[w].on, req[w].key)
    BY <1>inv, ToMoves DEF StoreLink, Steps
  <1>at. req[w].at = "link" /\ req[w].id \in Ids
    BY <1>inv DEF StoreLink, Named, Linking, Spending, Vouching
  <1>linkType. link' \in [Ids -> KeyStates]
    BY <1>inv, <1>at DEF StoreLink, TypeOK, KeyStates
  <1>link. \A j \in Ids : link'[j] = IF j = req[w].id THEN "live" ELSE link[j]
    BY <1>inv, <1>at DEF StoreLink, TypeOK, KeyStates
  <1>same. UNCHANGED <<row, owner, challenge, code, session, mailed, given, boot, jwt, asked, saved, drawn, threw>>
    BY DEF StoreLink, tables, redis, client
  <1>TypeOK. TypeOK'
    BY <1>inv, <1>moves, <1>at, <1>linkType, <1>same DEF TypeOK, Moves, Request
  <1>NewIds. NewIds'
    BY <1>inv, <1>moves, <1>at, <1>link, <1>same DEF Moves, NewIds
  <1>NewChallenges. NewChallenges'
    BY <1>inv, <1>moves, <1>at, <1>same DEF Moves, NewChallenges
  <1>NewSessions. NewSessions'
    BY <1>inv, <1>at, <1>same DEF Moves, NewSessions
  <1>Named. Named'
    BY <1>inv, <1>moves, <1>at, <1>same DEF Moves, Named, Linking, Spending, Vouching
  <1>Links. Links'
    BY <1>inv, <1>moves, <1>at, <1>link, <1>same DEF Moves, Links, Linking, Named, Spending, Vouching
  <1>Codes. Codes'
    BY <1>inv, <1>moves, <1>at, <1>same DEF Moves, Codes, Named, Linking, Spending, Vouching
  <1>Spent. Spent'
    BY <1>inv, <1>moves, <1>at, <1>same DEF Moves, Spent, SpentByRequest, OneSpender, SpentBySession,
       Spending, Named, Linking, Vouching
  <1>Vouch. Vouch'
    BY <1>inv, <1>moves, <1>at, <1>same DEF Moves, Vouch, Vouching, Vouched, Exists, Named, Linking,
       Spending
  <1>Stored. Stored'
    BY <1>inv, <1>same DEF Stored
  <1>Held. Held'
    BY <1>inv, <1>moves, <1>at, <1>same DEF Moves, Held, Spending, Named
  <1>Holder. SessionOfKeyHolder'
    BY <1>inv, <1>same DEF SessionOfKeyHolder
  <1>OneAccountPerEmail. OneAccountPerEmail'
    BY <1>inv, <1>at, <1>same DEF Moves, OneAccountPerEmail, Exists
  <1> QED
    BY <1>TypeOK, <1>NewIds, <1>NewChallenges, <1>NewSessions, <1>Named, <1>Links,
       <1>Codes, <1>Spent, <1>Vouch, <1>Stored, <1>Held, <1>Holder, <1>OneAccountPerEmail DEF AuthInv

\* The mail goes out, or does not.
LEMMA SendMailKeeps ==
  ASSUME AuthInv, NEW w \in Workers, SendMail(w)
  PROVE  AuthInv'
  <1> USE AuthAssumption DEF AuthAssumption
  <1>inv. /\ TypeOK /\ NewIds /\ NewChallenges /\ NewSessions
          /\ Named /\ Links /\ Codes /\ Spent /\ Vouch
          /\ Stored /\ Held /\ SessionOfKeyHolder /\ OneAccountPerEmail
    BY DEF AuthInv
  <1>moves. Moves(w, "idle", None, None, None)
    BY <1>inv, AnswerMoves DEF SendMail
  <1>at. req[w].at = "mail" /\ req[w].id \in Ids
    BY <1>inv DEF SendMail, Named, Linking, Spending, Vouching
  <1>mailed. mailed' \in {mailed, mailed \cup {req[w].id}}
    BY DEF SendMail
  <1>same. UNCHANGED <<row, owner, challenge, link, code, session, given, boot, jwt, asked, saved, drawn, threw>>
    BY DEF SendMail, tables, redis, client
  <1>TypeOK. TypeOK'
    BY <1>inv, <1>moves, <1>at, <1>mailed, <1>same DEF TypeOK, Moves, Request
  <1>NewIds. NewIds'
    BY <1>inv, <1>moves, <1>at, <1>mailed, <1>same DEF Moves, NewIds
  <1>NewChallenges. NewChallenges'
    BY <1>inv, <1>moves, <1>at, <1>same DEF Moves, NewChallenges
  <1>NewSessions. NewSessions'
    BY <1>inv, <1>at, <1>same DEF Moves, NewSessions
  <1>Named. Named'
    BY <1>inv, <1>moves, <1>at, <1>same DEF Moves, Named, Linking, Spending, Vouching
  <1>Links. Links'
    BY <1>inv, <1>moves, <1>at, <1>same DEF Moves, Links, Linking, Named, Spending, Vouching
  <1>Codes. Codes'
    BY <1>inv, <1>moves, <1>at, <1>same DEF Moves, Codes, Named, Linking, Spending, Vouching
  <1>Spent. Spent'
    BY <1>inv, <1>moves, <1>at, <1>same DEF Moves, Spent, SpentByRequest, OneSpender, SpentBySession,
       Spending, Named, Linking, Vouching
  <1>Vouch. Vouch'
    BY <1>inv, <1>moves, <1>at, <1>same DEF Moves, Vouch, Vouching, Vouched, Exists, Named, Linking,
       Spending
  <1>Stored. Stored'
    BY <1>inv, <1>same DEF Stored
  <1>Held. Held'
    BY <1>inv, <1>moves, <1>at, <1>same DEF Moves, Held, Spending, Named
  <1>Holder. SessionOfKeyHolder'
    BY <1>inv, <1>same DEF SessionOfKeyHolder
  <1>OneAccountPerEmail. OneAccountPerEmail'
    BY <1>inv, <1>at, <1>same DEF Moves, OneAccountPerEmail, Exists
  <1> QED
    BY <1>TypeOK, <1>NewIds, <1>NewChallenges, <1>NewSessions, <1>Named, <1>Links,
       <1>Codes, <1>Spent, <1>Vouch, <1>Stored, <1>Held, <1>Holder, <1>OneAccountPerEmail DEF AuthInv

\* A link is taken.
LEMMA VerifyTokenKeeps ==
  ASSUME AuthInv, NEW w \in Workers, NEW i \in Ids, VerifyToken(w, i)
  PROVE  AuthInv'
  <1> USE AuthAssumption DEF AuthAssumption
  <1>inv. /\ TypeOK /\ NewIds /\ NewChallenges /\ NewSessions
          /\ Named /\ Links /\ Codes /\ Spent /\ Vouch
          /\ Stored /\ Held /\ SessionOfKeyHolder /\ OneAccountPerEmail
    BY DEF AuthInv
  <1>new. /\ [Idle EXCEPT !.at = "verify", !.id = i] \in Request
          /\ req' = [req EXCEPT ![w] = [Idle EXCEPT !.at = "verify", !.id = i]]
    BY <1>inv DEF VerifyToken, Idle, Request, Steps
  <1>moves. Moves(w, "verify", i, None, None)
    BY <1>inv, <1>new, NewMoves DEF Idle
  <1>at. req[w].at = "idle" /\ i \in mailed /\ link[i] = "live"
    BY DEF VerifyToken, Idle
  <1>linkType. link' \in [Ids -> KeyStates]
    BY <1>inv DEF VerifyToken, TakenFrom, TypeOK, KeyStates
  <1>link. \A j \in Ids : link'[j] = IF j = i THEN "gone" ELSE link[j]
    BY <1>inv DEF VerifyToken, TakenFrom, TypeOK, KeyStates
  <1>same. UNCHANGED <<row, owner, challenge, code, session, mailed, given, boot, jwt, asked, saved, drawn, threw>>
    BY DEF VerifyToken, tables, redis, client
  <1>TypeOK. TypeOK'
    BY <1>inv, <1>moves, <1>at, <1>linkType, <1>same DEF TypeOK, Moves, Request
  <1>NewIds. NewIds'
    BY <1>inv, <1>moves, <1>at, <1>link, <1>same DEF Moves, NewIds
  <1>NewChallenges. NewChallenges'
    BY <1>inv, <1>moves, <1>at, <1>same DEF Moves, NewChallenges
  <1>NewSessions. NewSessions'
    BY <1>inv, <1>at, <1>same DEF Moves, NewSessions
  <1>Named. Named'
    BY <1>inv, <1>moves, <1>at, <1>same DEF Moves, Named, Linking, Spending, Vouching
  <1>Links. Links'
    BY <1>inv, <1>moves, <1>at, <1>link, <1>same DEF Moves, Links, Linking, Named, Spending, Vouching
  <1>Codes. Codes'
    BY <1>inv, <1>moves, <1>at, <1>same DEF Moves, Codes, Named, Linking, Spending, Vouching
  <1>Spent. Spent'
    BY <1>inv, <1>moves, <1>at, <1>same DEF Moves, Spent, SpentByRequest, OneSpender, SpentBySession,
       Spending, Named, Linking, Vouching
  <1>Vouch. Vouch'
    BY <1>inv, <1>moves, <1>at, <1>same DEF Moves, Vouch, Vouching, Vouched, Exists, Named, Linking,
       Spending
  <1>Stored. Stored'
    BY <1>inv, <1>same DEF Stored
  <1>Held. Held'
    BY <1>inv, <1>moves, <1>at, <1>same DEF Moves, Held, Spending, Named
  <1>Holder. SessionOfKeyHolder'
    BY <1>inv, <1>same DEF SessionOfKeyHolder
  <1>OneAccountPerEmail. OneAccountPerEmail'
    BY <1>inv, <1>at, <1>same DEF Moves, OneAccountPerEmail, Exists
  <1> QED
    BY <1>TypeOK, <1>NewIds, <1>NewChallenges, <1>NewSessions, <1>Named, <1>Links,
       <1>Codes, <1>Spent, <1>Vouch, <1>Stored, <1>Held, <1>Holder, <1>OneAccountPerEmail DEF AuthInv

\* The player of a link is looked up.
LEMMA VerifyFindKeeps ==
  ASSUME AuthInv, NEW w \in Workers, VerifyFind(w), Exists(req[w].id)
  PROVE  AuthInv'
  <1> USE AuthAssumption DEF AuthAssumption
  <1>inv. /\ TypeOK /\ NewIds /\ NewChallenges /\ NewSessions
          /\ Named /\ Links /\ Codes /\ Spent /\ Vouch
          /\ Stored /\ Held /\ SessionOfKeyHolder /\ OneAccountPerEmail
    BY DEF AuthInv
  <1>moves. Moves(w, "mark", req[w].id, req[w].on, req[w].key)
    BY <1>inv, ToMoves DEF VerifyFind, Steps
  <1>at. req[w].at = "verify" /\ req[w].id \in Ids
    BY <1>inv DEF VerifyFind, Named, Linking, Spending, Vouching
  <1>same. UNCHANGED <<row, owner, challenge, link, code, session, mailed, given, boot, jwt, asked, saved, drawn, threw>>
    BY DEF VerifyFind, tables, redis, client
  <1>TypeOK. TypeOK'
    BY <1>inv, <1>moves, <1>at, <1>same DEF TypeOK, Moves, Request
  <1>NewIds. NewIds'
    BY <1>inv, <1>moves, <1>at, <1>same DEF Moves, NewIds
  <1>NewChallenges. NewChallenges'
    BY <1>inv, <1>moves, <1>at, <1>same DEF Moves, NewChallenges
  <1>NewSessions. NewSessions'
    BY <1>inv, <1>at, <1>same DEF Moves, NewSessions
  <1>Named. Named'
    BY <1>inv, <1>moves, <1>at, <1>same DEF Moves, Named, Linking, Spending, Vouching
  <1>Links. Links'
    BY <1>inv, <1>moves, <1>at, <1>same DEF Moves, Links, Linking, Named, Spending, Vouching
  <1>Codes. Codes'
    BY <1>inv, <1>moves, <1>at, <1>same DEF Moves, Codes, Named, Linking, Spending, Vouching
  <1>Spent. Spent'
    BY <1>inv, <1>moves, <1>at, <1>same DEF Moves, Spent, SpentByRequest, OneSpender, SpentBySession,
       Spending, Named, Linking, Vouching
  <1>Vouch. Vouch'
    BY <1>inv, <1>moves, <1>at, <1>same DEF Moves, Vouch, Vouching, Vouched, Exists, Named, Linking,
       Spending
  <1>Stored. Stored'
    BY <1>inv, <1>same DEF Stored
  <1>Held. Held'
    BY <1>inv, <1>moves, <1>at, <1>same DEF Moves, Held, Spending, Named
  <1>Holder. SessionOfKeyHolder'
    BY <1>inv, <1>same DEF SessionOfKeyHolder
  <1>OneAccountPerEmail. OneAccountPerEmail'
    BY <1>inv, <1>at, <1>same DEF Moves, OneAccountPerEmail, Exists
  <1> QED
    BY <1>TypeOK, <1>NewIds, <1>NewChallenges, <1>NewSessions, <1>Named, <1>Links,
       <1>Codes, <1>Spent, <1>Vouch, <1>Stored, <1>Held, <1>Holder, <1>OneAccountPerEmail DEF AuthInv

\* The player is verified.
LEMMA MarkVerifiedKeeps ==
  ASSUME AuthInv, NEW w \in Workers, MarkPlayerVerified(w)
  PROVE  AuthInv'
  <1> USE AuthAssumption DEF AuthAssumption
  <1>inv. /\ TypeOK /\ NewIds /\ NewChallenges /\ NewSessions
          /\ Named /\ Links /\ Codes /\ Spent /\ Vouch
          /\ Stored /\ Held /\ SessionOfKeyHolder /\ OneAccountPerEmail
    BY DEF AuthInv
  <1>moves. Moves(w, "code", req[w].id, req[w].on, req[w].key)
    BY <1>inv, ToMoves DEF MarkPlayerVerified, Steps
  <1>at. req[w].at = "mark" /\ req[w].id \in Ids
    BY <1>inv DEF MarkPlayerVerified, Named, Linking, Spending, Vouching
  <1>rowType. row' \in [Ids -> PlayerRow]
    BY <1>inv, <1>at, RowUpdated DEF MarkPlayerVerified
  <1>row. /\ \A i \in Ids :
               /\ row'[i].email = row[i].email /\ (row'[i] = NoRow <=> row[i] = NoRow)
               /\ row[i].verified => row'[i].verified
               /\ i # req[w].id => row'[i].verified = row[i].verified
          /\ Exists(req[w].id) => row'[req[w].id].verified
    BY <1>inv, <1>at, RowUpdated DEF MarkPlayerVerified
  <1>same. UNCHANGED <<owner, challenge, link, code, session, mailed, given, boot, jwt, asked, saved, drawn, threw>>
    BY DEF MarkPlayerVerified, tables, redis, client
  <1>TypeOK. TypeOK'
    BY <1>inv, <1>moves, <1>at, <1>rowType, <1>same DEF TypeOK, Moves, Request
  <1>NewIds. NewIds'
    BY <1>inv, <1>moves, <1>at, <1>row, <1>same DEF Moves, NewIds
  <1>NewChallenges. NewChallenges'
    BY <1>inv, <1>moves, <1>at, <1>same DEF Moves, NewChallenges
  <1>NewSessions. NewSessions'
    BY <1>inv, <1>at, <1>same DEF Moves, NewSessions
  <1>Named. Named'
    BY <1>inv, <1>moves, <1>at, <1>same DEF Moves, Named, Linking, Spending, Vouching
  <1>Links. Links'
    BY <1>inv, <1>moves, <1>at, <1>same DEF Moves, Links, Linking, Named, Spending, Vouching
  <1>Codes. Codes'
    BY <1>inv, <1>moves, <1>at, <1>same DEF Moves, Codes, Named, Linking, Spending, Vouching
  <1>Spent. Spent'
    BY <1>inv, <1>moves, <1>at, <1>same DEF Moves, Spent, SpentByRequest, OneSpender, SpentBySession,
       Spending, Named, Linking, Vouching
  <1>Vouch. Vouch'
    BY <1>inv, <1>moves, <1>at, <1>row, <1>same DEF Moves, Vouch, Vouching, Vouched, Exists, Named,
       Linking, Spending
  <1>Stored. Stored'
    BY <1>inv, <1>same DEF Stored
  <1>Held. Held'
    BY <1>inv, <1>moves, <1>at, <1>same DEF Moves, Held, Spending, Named
  <1>Holder. SessionOfKeyHolder'
    BY <1>inv, <1>same DEF SessionOfKeyHolder
  <1>OneAccountPerEmail. OneAccountPerEmail'
    BY <1>inv, <1>at, <1>row, <1>same DEF Moves, OneAccountPerEmail, Exists
  <1> QED
    BY <1>TypeOK, <1>NewIds, <1>NewChallenges, <1>NewSessions, <1>Named, <1>Links,
       <1>Codes, <1>Spent, <1>Vouch, <1>Stored, <1>Held, <1>Holder, <1>OneAccountPerEmail DEF AuthInv

\* The code is stored and sent to the browser.
LEMMA IssueCodeKeeps ==
  ASSUME AuthInv, NEW w \in Workers, IssueCode(w)
  PROVE  AuthInv'
  <1> USE AuthAssumption DEF AuthAssumption
  <1>inv. /\ TypeOK /\ NewIds /\ NewChallenges /\ NewSessions
          /\ Named /\ Links /\ Codes /\ Spent /\ Vouch
          /\ Stored /\ Held /\ SessionOfKeyHolder /\ OneAccountPerEmail
    BY DEF AuthInv
  <1>moves. Moves(w, "idle", None, None, None)
    BY <1>inv, AnswerMoves DEF IssueCode
  <1>at. req[w].at = "code" /\ req[w].id \in Ids
    BY <1>inv DEF IssueCode, Named, Linking, Spending, Vouching
  <1>codeType. code' \in [Ids -> KeyStates]
    BY <1>inv, <1>at DEF IssueCode, TypeOK, KeyStates
  <1>code. \A j \in Ids : code'[j] = IF j = req[w].id THEN "live" ELSE code[j]
    BY <1>inv, <1>at DEF IssueCode, TypeOK, KeyStates
  <1>givenWas. given \in [Ids -> Nat]
    BY <1>inv DEF TypeOK
  <1>givenType. given' \in [Ids -> Nat]
    BY <1>at, <1>givenWas DEF IssueCode
  <1>given. \A j \in Ids : given'[j] = IF j = req[w].id THEN given[j] + 1 ELSE given[j]
    BY <1>at, <1>givenWas DEF IssueCode
  <1>same. UNCHANGED <<row, owner, challenge, link, session, mailed, boot, jwt, asked, saved, drawn, threw>>
    BY DEF IssueCode, tables, redis, client
  <1>TypeOK. TypeOK'
    BY <1>inv, <1>moves, <1>at, <1>codeType, <1>givenWas, <1>givenType, <1>same DEF TypeOK, Moves,
       Request
  <1>NewIds. NewIds'
    BY <1>inv, <1>moves, <1>at, <1>givenWas, <1>given, <1>same DEF Moves, NewIds
  <1>NewChallenges. NewChallenges'
    BY <1>inv, <1>moves, <1>at, <1>givenWas, <1>same DEF Moves, NewChallenges
  <1>NewSessions. NewSessions'
    BY <1>inv, <1>at, <1>givenWas, <1>same DEF Moves, NewSessions
  <1>Named. Named'
    BY <1>inv, <1>moves, <1>at, <1>givenWas, <1>same DEF Moves, Named, Linking, Spending, Vouching
  <1>Links. Links'
    BY <1>inv, <1>moves, <1>at, <1>code, <1>givenWas, <1>given, <1>same DEF Moves, Links, Linking,
       Named, Spending, Vouching
  <1>Codes. Codes'
    BY <1>inv, <1>moves, <1>at, <1>code, <1>givenWas, <1>same DEF Moves, Codes, Named, Linking,
       Spending, Vouching, Links
  <1>Spent. Spent'
    BY <1>inv, <1>moves, <1>at, <1>givenWas, <1>same DEF Moves, Spent, SpentByRequest, OneSpender,
       SpentBySession, Spending, Named, Linking, Vouching
  <1>Vouch. Vouch'
    BY <1>inv, <1>moves, <1>at, <1>givenWas, <1>given, <1>same DEF Moves, Vouch, Vouching, Vouched,
       Exists, Named, Linking, Spending
  <1>Stored. Stored'
    BY <1>inv, <1>givenWas, <1>same DEF Stored
  <1>Held. Held'
    BY <1>inv, <1>moves, <1>at, <1>givenWas, <1>same DEF Moves, Held, Spending, Named
  <1>Holder. SessionOfKeyHolder'
    BY <1>inv, <1>givenWas, <1>same DEF SessionOfKeyHolder
  <1>OneAccountPerEmail. OneAccountPerEmail'
    BY <1>inv, <1>at, <1>givenWas, <1>same DEF Moves, OneAccountPerEmail, Exists
  <1> QED
    BY <1>TypeOK, <1>NewIds, <1>NewChallenges, <1>NewSessions, <1>Named, <1>Links,
       <1>Codes, <1>Spent, <1>Vouch, <1>Stored, <1>Held, <1>Holder, <1>OneAccountPerEmail DEF AuthInv

\* A code is taken.
LEMMA ExchangeKeeps ==
  ASSUME AuthInv, NEW w \in Workers, NEW i \in Ids, Exchange(w, i)
  PROVE  AuthInv'
  <1> USE AuthAssumption DEF AuthAssumption
  <1>inv. /\ TypeOK /\ NewIds /\ NewChallenges /\ NewSessions
          /\ Named /\ Links /\ Codes /\ Spent /\ Vouch
          /\ Stored /\ Held /\ SessionOfKeyHolder /\ OneAccountPerEmail
    BY DEF AuthInv
  <1>new. /\ [Idle EXCEPT !.at = "exchange", !.id = i] \in Request
          /\ req' = [req EXCEPT ![w] = [Idle EXCEPT !.at = "exchange", !.id = i]]
    BY <1>inv DEF Exchange, Idle, Request, Steps
  <1>moves. Moves(w, "exchange", i, None, None)
    BY <1>inv, <1>new, NewMoves DEF Idle
  <1>at. req[w].at = "idle" /\ given[i] > 0 /\ code[i] = "live"
    BY DEF Exchange, Idle
  <1>codeType. code' \in [Ids -> KeyStates]
    BY <1>inv DEF Exchange, TakenFrom, TypeOK, KeyStates
  <1>code. \A j \in Ids : code'[j] = IF j = i THEN "gone" ELSE code[j]
    BY <1>inv DEF Exchange, TakenFrom, TypeOK, KeyStates
  <1>same. UNCHANGED <<row, owner, challenge, link, session, mailed, given, boot, jwt, asked, saved, drawn, threw>>
    BY DEF Exchange, tables, redis, client
  <1>TypeOK. TypeOK'
    BY <1>inv, <1>moves, <1>at, <1>codeType, <1>same DEF TypeOK, Moves, Request
  <1>NewIds. NewIds'
    BY <1>inv, <1>moves, <1>at, <1>same DEF Moves, NewIds
  <1>NewChallenges. NewChallenges'
    BY <1>inv, <1>moves, <1>at, <1>same DEF Moves, NewChallenges
  <1>NewSessions. NewSessions'
    BY <1>inv, <1>at, <1>same DEF Moves, NewSessions
  <1>Named. Named'
    BY <1>inv, <1>moves, <1>at, <1>same DEF Moves, Named, Linking, Spending, Vouching
  <1>Links. Links'
    BY <1>inv, <1>moves, <1>at, <1>code, <1>same DEF Moves, Links, Linking, Named, Spending, Vouching
  <1>Codes. Codes'
    BY <1>inv, <1>moves, <1>at, <1>code, <1>same DEF Moves, Codes, Named, Linking, Spending, Vouching
  <1>Spent. Spent'
    BY <1>inv, <1>moves, <1>at, <1>same DEF Moves, Spent, SpentByRequest, OneSpender, SpentBySession,
       Spending, Named, Linking, Vouching
  <1>Vouch. Vouch'
    BY <1>inv, <1>moves, <1>at, <1>same DEF Moves, Vouch, Vouching, Vouched, Exists, Named, Linking,
       Spending
  <1>Stored. Stored'
    BY <1>inv, <1>same DEF Stored
  <1>Held. Held'
    BY <1>inv, <1>moves, <1>at, <1>same DEF Moves, Held, Spending, Named
  <1>Holder. SessionOfKeyHolder'
    BY <1>inv, <1>same DEF SessionOfKeyHolder
  <1>OneAccountPerEmail. OneAccountPerEmail'
    BY <1>inv, <1>at, <1>same DEF Moves, OneAccountPerEmail, Exists
  <1> QED
    BY <1>TypeOK, <1>NewIds, <1>NewChallenges, <1>NewSessions, <1>Named, <1>Links,
       <1>Codes, <1>Spent, <1>Vouch, <1>Stored, <1>Held, <1>Holder, <1>OneAccountPerEmail DEF AuthInv

\* A bootstrap token is issued.
LEMMA ExchangeFindKeeps ==
  ASSUME AuthInv, NEW w \in Workers, ExchangeFind(w)
  PROVE  AuthInv'
  <1> USE AuthAssumption DEF AuthAssumption
  <1>inv. /\ TypeOK /\ NewIds /\ NewChallenges /\ NewSessions
          /\ Named /\ Links /\ Codes /\ Spent /\ Vouch
          /\ Stored /\ Held /\ SessionOfKeyHolder /\ OneAccountPerEmail
    BY DEF AuthInv
  <1>moves. Moves(w, "idle", None, None, None)
    BY <1>inv, AnswerMoves DEF ExchangeFind
  <1>at. req[w].at = "exchange" /\ req[w].id \in Ids
    BY <1>inv DEF ExchangeFind, Named, Linking, Spending, Vouching
  <1>bootWas. boot \in [Ids -> Nat]
    BY <1>inv DEF TypeOK
  <1>bootType. boot' \in [Ids -> Nat]
    BY <1>at, <1>bootWas DEF ExchangeFind
  <1>boot. \A j \in Ids : boot'[j] = IF j = req[w].id /\ Exists(j) THEN boot[j] + 1 ELSE boot[j]
    BY <1>at, <1>bootWas DEF ExchangeFind
  <1>same. UNCHANGED <<row, owner, challenge, link, code, session, mailed, given, jwt, asked, saved, drawn, threw>>
    BY DEF ExchangeFind, tables, redis, client
  <1>TypeOK. TypeOK'
    BY <1>inv, <1>moves, <1>at, <1>bootWas, <1>bootType, <1>same DEF TypeOK, Moves, Request
  <1>NewIds. NewIds'
    BY <1>inv, <1>moves, <1>at, <1>bootWas, <1>boot, <1>same DEF Moves, NewIds
  <1>NewChallenges. NewChallenges'
    BY <1>inv, <1>moves, <1>at, <1>bootWas, <1>same DEF Moves, NewChallenges
  <1>NewSessions. NewSessions'
    BY <1>inv, <1>at, <1>bootWas, <1>same DEF Moves, NewSessions
  <1>Named. Named'
    BY <1>inv, <1>moves, <1>at, <1>bootWas, <1>same DEF Moves, Named, Linking, Spending, Vouching
  <1>Links. Links'
    BY <1>inv, <1>moves, <1>at, <1>bootWas, <1>same DEF Moves, Links, Linking, Named, Spending,
       Vouching
  <1>Codes. Codes'
    BY <1>inv, <1>moves, <1>at, <1>bootWas, <1>boot, <1>same DEF Moves, Codes, Named, Linking,
       Spending, Vouching
  <1>Spent. Spent'
    BY <1>inv, <1>moves, <1>at, <1>bootWas, <1>same DEF Moves, Spent, SpentByRequest, OneSpender,
       SpentBySession, Spending, Named, Linking, Vouching
  <1>Vouch. Vouch'
    BY <1>inv, <1>moves, <1>at, <1>bootWas, <1>boot, <1>same DEF Moves, Vouch, Vouching, Vouched,
       Exists, Named, Linking, Spending
  <1>Stored. Stored'
    BY <1>inv, <1>bootWas, <1>same DEF Stored
  <1>Held. Held'
    BY <1>inv, <1>moves, <1>at, <1>bootWas, <1>same DEF Moves, Held, Spending, Named
  <1>Holder. SessionOfKeyHolder'
    BY <1>inv, <1>bootWas, <1>same DEF SessionOfKeyHolder
  <1>OneAccountPerEmail. OneAccountPerEmail'
    BY <1>inv, <1>at, <1>bootWas, <1>same DEF Moves, OneAccountPerEmail, Exists
  <1> QED
    BY <1>TypeOK, <1>NewIds, <1>NewChallenges, <1>NewSessions, <1>Named, <1>Links,
       <1>Codes, <1>Spent, <1>Vouch, <1>Stored, <1>Held, <1>Holder, <1>OneAccountPerEmail DEF AuthInv

\* A challenge is stored, one nobody has.
LEMMA ChallengeStored ==
  ASSUME AuthInv, NEW w \in Workers, NEW c \in Fresh(Challenges),
         req[w].at \in {"registration", "authentication"},
         challenge' = [challenge EXCEPT ![c] = [player |-> req[w].id, type |-> req[w].at]],
         asked' = [asked EXCEPT ![c] = [player |-> req[w].id, type |-> req[w].at]],
         drawn' = drawn \cup {c}, Answer(w),
         UNCHANGED <<row, owner, redis, mailed, given, boot, jwt, saved, threw>>
  PROVE  AuthInv'
  <1> USE AuthAssumption DEF AuthAssumption
  <1>inv. /\ TypeOK /\ NewIds /\ NewChallenges /\ NewSessions
          /\ Named /\ Links /\ Codes /\ Spent /\ Vouch
          /\ Stored /\ Held /\ SessionOfKeyHolder /\ OneAccountPerEmail
    BY DEF AuthInv
  <1>moves. Moves(w, "idle", None, None, None)
    BY <1>inv, AnswerMoves
  <1>fresh. c \in Challenges /\ c \notin drawn
    BY DEF Fresh
  <1>id. req[w].id \in Ids \cup {None}
    BY <1>inv DEF TypeOK
  <1>challengeType. challenge' \in [Challenges -> ChallengeRow]
    BY <1>inv, <1>fresh, <1>id DEF TypeOK, ChallengeRow
  <1>challenge. /\ challenge'[c].player = req[w].id
                /\ \A d \in Challenges \ {c} : challenge'[d] = challenge[d]
    BY <1>inv, <1>fresh DEF TypeOK
  <1>askedType. asked' \in [Challenges -> ChallengeRow]
    BY <1>inv, <1>fresh, <1>id DEF TypeOK, ChallengeRow
  <1>asked. /\ asked'[c] = challenge'[c]
            /\ \A d \in Challenges \ {c} : asked'[d] = asked[d]
    BY <1>inv, <1>fresh DEF TypeOK
  <1>same. UNCHANGED <<row, owner, link, code, session, mailed, given, boot, jwt, saved, threw>>
    BY DEF tables, redis, client
  <1>TypeOK. TypeOK'
    BY <1>inv, <1>moves, <1>fresh, <1>challengeType, <1>askedType, <1>same DEF TypeOK, Moves, Request
  <1>NewIds. NewIds'
    BY <1>inv, <1>moves, <1>fresh, <1>challenge, <1>same DEF Moves, NewIds
  <1>NewChallenges. NewChallenges'
    BY <1>inv, <1>moves, <1>fresh, <1>challenge, <1>same DEF Moves, NewChallenges
  <1>NewSessions. NewSessions'
    BY <1>inv, <1>fresh, <1>same DEF Moves, NewSessions
  <1>Named. Named'
    BY <1>inv, <1>moves, <1>fresh, <1>same DEF Moves, Named, Linking, Spending, Vouching
  <1>Links. Links'
    BY <1>inv, <1>moves, <1>fresh, <1>same DEF Moves, Links, Linking, Named, Spending, Vouching
  <1>Codes. Codes'
    BY <1>inv, <1>moves, <1>fresh, <1>same DEF Moves, Codes, Named, Linking, Spending, Vouching
  <1>Spent. Spent'
    BY <1>inv, <1>moves, <1>fresh, <1>challenge, <1>same DEF Moves, Spent, SpentByRequest,
       OneSpender, SpentBySession, Spending, Named, Linking, Vouching, NewChallenges
  <1>Vouch. Vouch'
    BY <1>inv, <1>moves, <1>fresh, <1>same DEF Moves, Vouch, Vouching, Vouched, Exists, Named,
       Linking, Spending
  <1>Stored. Stored'
    BY <1>inv, <1>fresh, <1>challenge, <1>asked, <1>same DEF Stored
  <1>Held. Held'
    BY <1>inv, <1>moves, <1>fresh, <1>asked, <1>same DEF Moves, Held, Spending, Named, NewChallenges
  <1>Holder. SessionOfKeyHolder'
    BY <1>inv, <1>fresh, <1>asked, <1>same DEF SessionOfKeyHolder, NewChallenges
  <1>OneAccountPerEmail. OneAccountPerEmail'
    BY <1>inv, <1>fresh, <1>same DEF Moves, OneAccountPerEmail, Exists
  <1> QED
    BY <1>TypeOK, <1>NewIds, <1>NewChallenges, <1>NewSessions, <1>Named, <1>Links,
       <1>Codes, <1>Spent, <1>Vouch, <1>Stored, <1>Held, <1>Holder, <1>OneAccountPerEmail DEF AuthInv

\* Who may enroll a key has verified the address.
LEMMA BearerVouched ==
  ASSUME AuthInv, NEW b \in Bearers, Exists(b[1])
  PROVE  b[1] \in Ids /\ b[1] \in drawn /\ Vouched(b[1]) /\ b[2] \in {"enroll", "session"}
  <1>1. b[1] \in Ids /\ NewIds /\ Vouch
    BY DEF AuthInv, Exists
  <1>2. /\ boot[b[1]] > 0 \/ \E s \in Sessions : jwt[s].player = b[1]
        /\ b[2] \in {"enroll", "session"}
    BY DEF Bearers
  <1> QED
    BY <1>1, <1>2 DEF NewIds, Vouch

\* The enrolment of a key begins.
LEMMA RegistrationBegun ==
  ASSUME AuthInv, NEW w \in Workers, NEW b,
         req[w] = Idle,
         Exists(b[1]), b[1] \in Ids, b[1] \in drawn, Vouched(b[1]), b[2] \in {"enroll", "session"},
         req' = [req EXCEPT ![w] = [Idle EXCEPT !.at = "registration", !.id = b[1]]],
         UNCHANGED <<tables, redis, client, drawn, threw>>
  PROVE  AuthInv'
  <1> USE AuthAssumption DEF AuthAssumption
  <1>inv. /\ TypeOK /\ NewIds /\ NewChallenges /\ NewSessions
          /\ Named /\ Links /\ Codes /\ Spent /\ Vouch
          /\ Stored /\ Held /\ SessionOfKeyHolder /\ OneAccountPerEmail
    BY DEF AuthInv
  <1>new. /\ [Idle EXCEPT !.at = "registration", !.id = b[1]] \in Request
          /\ req' = [req EXCEPT ![w] = [Idle EXCEPT !.at = "registration", !.id = b[1]]]
    BY <1>inv DEF Idle, Request, Steps
  <1>moves. Moves(w, "registration", b[1], None, None)
    BY <1>inv, <1>new, NewMoves DEF Idle
  <1>at. req[w].at = "idle"
    BY DEF Idle
  <1>same. UNCHANGED <<row, owner, challenge, link, code, session, mailed, given, boot, jwt, asked, saved, drawn, threw>>
    BY DEF tables, redis, client
  <1>TypeOK. TypeOK'
    BY <1>inv, <1>moves, <1>at, <1>same DEF TypeOK, Moves, Request
  <1>NewIds. NewIds'
    BY <1>inv, <1>moves, <1>at, <1>same DEF Moves, NewIds
  <1>NewChallenges. NewChallenges'
    BY <1>inv, <1>moves, <1>at, <1>same DEF Moves, NewChallenges
  <1>NewSessions. NewSessions'
    BY <1>inv, <1>at, <1>same DEF Moves, NewSessions
  <1>Named. Named'
    BY <1>inv, <1>moves, <1>at, <1>same DEF Moves, Named, Linking, Spending, Vouching
  <1>Links. Links'
    BY <1>inv, <1>moves, <1>at, <1>same DEF Moves, Links, Linking, Named, Spending, Vouching
  <1>Codes. Codes'
    BY <1>inv, <1>moves, <1>at, <1>same DEF Moves, Codes, Named, Linking, Spending, Vouching
  <1>Spent. Spent'
    BY <1>inv, <1>moves, <1>at, <1>same DEF Moves, Spent, SpentByRequest, OneSpender, SpentBySession,
       Spending, Named, Linking, Vouching
  <1>Vouch. Vouch'
    BY <1>inv, <1>moves, <1>at, <1>same DEF Moves, Vouch, Vouching, Vouched, Exists, Named, Linking,
       Spending
  <1>Stored. Stored'
    BY <1>inv, <1>same DEF Stored
  <1>Held. Held'
    BY <1>inv, <1>moves, <1>at, <1>same DEF Moves, Held, Spending, Named
  <1>Holder. SessionOfKeyHolder'
    BY <1>inv, <1>same DEF SessionOfKeyHolder
  <1>OneAccountPerEmail. OneAccountPerEmail'
    BY <1>inv, <1>at, <1>same DEF Moves, OneAccountPerEmail, Exists
  <1> QED
    BY <1>TypeOK, <1>NewIds, <1>NewChallenges, <1>NewSessions, <1>Named, <1>Links,
       <1>Codes, <1>Spent, <1>Vouch, <1>Stored, <1>Held, <1>Holder, <1>OneAccountPerEmail DEF AuthInv

\* The browser answers a challenge.
LEMMA RegistrationAnswered ==
  ASSUME AuthInv, NEW w \in Workers, NEW b, NEW c \in Challenges,
         req[w] = Idle,
         Exists(b[1]), b[1] \in Ids, b[1] \in drawn, Vouched(b[1]), b[2] \in {"enroll", "session"},
         c \in drawn,
         req' = [req EXCEPT ![w] = [Idle EXCEPT !.at = "attest", !.id = b[1], !.scope = b[2], !.on = c]],
         UNCHANGED <<tables, redis, client, drawn, threw>>
  PROVE  AuthInv'
  <1> USE AuthAssumption DEF AuthAssumption
  <1>inv. /\ TypeOK /\ NewIds /\ NewChallenges /\ NewSessions
          /\ Named /\ Links /\ Codes /\ Spent /\ Vouch
          /\ Stored /\ Held /\ SessionOfKeyHolder /\ OneAccountPerEmail
    BY DEF AuthInv
  <1>new. /\ [Idle EXCEPT !.at = "attest", !.id = b[1], !.scope = b[2], !.on = c] \in Request
          /\ req' = [req EXCEPT ![w] = [Idle EXCEPT !.at = "attest", !.id = b[1], !.scope = b[2], !.on = c]]
    BY <1>inv DEF Idle, Request, Steps
  <1>moves. Moves(w, "attest", b[1], c, None)
    BY <1>inv, <1>new, NewMoves DEF Idle
  <1>at. req[w].at = "idle"
    BY DEF Idle
  <1>same. UNCHANGED <<row, owner, challenge, link, code, session, mailed, given, boot, jwt, asked, saved, drawn, threw>>
    BY DEF tables, redis, client
  <1>TypeOK. TypeOK'
    BY <1>inv, <1>moves, <1>at, <1>same DEF TypeOK, Moves, Request
  <1>NewIds. NewIds'
    BY <1>inv, <1>moves, <1>at, <1>same DEF Moves, NewIds
  <1>NewChallenges. NewChallenges'
    BY <1>inv, <1>moves, <1>at, <1>same DEF Moves, NewChallenges
  <1>NewSessions. NewSessions'
    BY <1>inv, <1>at, <1>same DEF Moves, NewSessions
  <1>Named. Named'
    BY <1>inv, <1>moves, <1>at, <1>same DEF Moves, Named, Linking, Spending, Vouching
  <1>Links. Links'
    BY <1>inv, <1>moves, <1>at, <1>same DEF Moves, Links, Linking, Named, Spending, Vouching
  <1>Codes. Codes'
    BY <1>inv, <1>moves, <1>at, <1>same DEF Moves, Codes, Named, Linking, Spending, Vouching
  <1>Spent. Spent'
    BY <1>inv, <1>moves, <1>at, <1>same DEF Moves, Spent, SpentByRequest, OneSpender, SpentBySession,
       Spending, Named, Linking, Vouching
  <1>Vouch. Vouch'
    BY <1>inv, <1>moves, <1>at, <1>same DEF Moves, Vouch, Vouching, Vouched, Exists, Named, Linking,
       Spending
  <1>Stored. Stored'
    BY <1>inv, <1>same DEF Stored
  <1>Held. Held'
    BY <1>inv, <1>moves, <1>at, <1>same DEF Moves, Held, Spending, Named
  <1>Holder. SessionOfKeyHolder'
    BY <1>inv, <1>same DEF SessionOfKeyHolder
  <1>OneAccountPerEmail. OneAccountPerEmail'
    BY <1>inv, <1>at, <1>same DEF Moves, OneAccountPerEmail, Exists
  <1> QED
    BY <1>TypeOK, <1>NewIds, <1>NewChallenges, <1>NewSessions, <1>Named, <1>Links,
       <1>Codes, <1>Spent, <1>Vouch, <1>Stored, <1>Held, <1>Holder, <1>OneAccountPerEmail DEF AuthInv

\* A challenge for a registration is consumed.
LEMMA ConsumeKeeps ==
  ASSUME AuthInv, NEW w \in Workers, ConsumeRegistration(w), challenge[req[w].on].type = "registration"
  PROVE  AuthInv'
  <1> USE AuthAssumption DEF AuthAssumption
  <1>inv. /\ TypeOK /\ NewIds /\ NewChallenges /\ NewSessions
          /\ Named /\ Links /\ Codes /\ Spent /\ Vouch
          /\ Stored /\ Held /\ SessionOfKeyHolder /\ OneAccountPerEmail
    BY DEF AuthInv
  <1>moves. \/ Moves(w, "save", req[w].id, req[w].on, req[w].key)
            \/ Moves(w, "idle", None, None, None)
    BY <1>inv, ToMoves, AnswerMoves DEF ConsumeRegistration, Steps
  <1>at. /\ req[w].at = "attest" /\ req[w].id \in Ids /\ req[w].on \in Challenges
         /\ challenge[req[w].on].type = "registration"
    BY <1>inv DEF ConsumeRegistration, Named, Vouching
  <1>challengeWas. challenge \in [Challenges -> ChallengeRow]
    BY <1>inv DEF TypeOK
  <1>challengeType. challenge' \in [Challenges -> ChallengeRow]
    BY <1>at, <1>challengeWas DEF ChallengeRow, ConsumeRegistration, Consumed, NoChallenge
  <1>challenge. \A d \in Challenges : challenge'[d] = IF d = req[w].on THEN NoChallenge ELSE challenge[d]
    BY <1>at, <1>challengeWas DEF ConsumeRegistration, Consumed, NoChallenge
  <1>none. NoChallenge.type = "none" /\ NoChallenge.player = None
    BY DEF NoChallenge
  <1>same. UNCHANGED <<row, owner, link, code, session, mailed, given, boot, jwt, asked, saved, drawn, threw>>
    BY DEF ConsumeRegistration, tables, redis, client
  <1>TypeOK. TypeOK'
    BY <1>inv, <1>moves, <1>at, <1>challengeWas, <1>challengeType, <1>none, <1>same DEF TypeOK,
       Moves, Request
  <1>NewIds. NewIds'
    BY <1>inv, <1>moves, <1>at, <1>challengeWas, <1>challenge, <1>none, <1>same DEF Moves, NewIds
  <1>NewChallenges. NewChallenges'
    BY <1>inv, <1>moves, <1>at, <1>challengeWas, <1>challenge, <1>none, <1>same DEF Moves,
       NewChallenges
  <1>NewSessions. NewSessions'
    BY <1>inv, <1>at, <1>challengeWas, <1>none, <1>same DEF Moves, NewSessions
  <1>Named. Named'
    BY <1>inv, <1>moves, <1>at, <1>challengeWas, <1>none, <1>same DEF Moves, Named, Linking,
       Spending, Vouching
  <1>Links. Links'
    BY <1>inv, <1>moves, <1>at, <1>challengeWas, <1>none, <1>same DEF Moves, Links, Linking, Named,
       Spending, Vouching
  <1>Codes. Codes'
    BY <1>inv, <1>moves, <1>at, <1>challengeWas, <1>none, <1>same DEF Moves, Codes, Named, Linking,
       Spending, Vouching
  <1>Spent. Spent'
    <2>1. \A d \in Challenges :
            challenge'[d].type = IF d = req[w].on THEN "none" ELSE challenge[d].type
      BY <1>challenge, <1>none
    <2>2. \A v \in Workers : req'[v].at \in Spending =>
            \/ v # w /\ req[v].at \in Spending /\ req'[v].on = req[v].on
            \/ v = w /\ req'[v].on = req[w].on
      BY <1>moves, <1>at DEF Moves, Spending
    <2>3. req[w].on \in Challenges /\ challenge[req[w].on].type # "none"
      BY <1>at
    <2>4. Spent /\ Named
      BY <1>inv
    <2>5. SpentByRequest'
      BY <2>1, <2>2, <2>3, <2>4, <1>same DEF Spent, SpentByRequest, SpentBySession, Named, Spending, NoToken
    <2>6. OneSpender'
      BY <2>1, <2>2, <2>3, <2>4 DEF Spent, OneSpender, SpentByRequest
    <2>7. SpentBySession'
      BY <2>1, <2>4, <1>same DEF Spent, SpentBySession
    <2> QED
      BY <2>5, <2>6, <2>7 DEF Spent
  <1>Vouch. Vouch'
    BY <1>inv, <1>moves, <1>at, <1>challengeWas, <1>none, <1>same DEF Moves, Vouch, Vouching,
       Vouched, Exists, Named, Linking, Spending
  <1>Stored. Stored'
    BY <1>inv, <1>challenge, <1>same DEF Stored
  <1>Held. Held'
    <2>1. asked[req[w].on] = challenge[req[w].on]
      BY <1>inv, <1>at, <1>none DEF Stored
    <2>2. \/ Moves(w, "idle", None, None, None)
          \/ challenge[req[w].on].player = req[w].id /\ Moves(w, "save", req[w].id, req[w].on, req[w].key)
      BY <1>inv, <1>at, ToMoves, AnswerMoves DEF ConsumeRegistration, Steps
    <2> QED
      BY <1>inv, <1>at, <2>1, <2>2, <1>same DEF Moves, Held, Spending, Named
  <1>Holder. SessionOfKeyHolder'
    BY <1>inv, <1>same DEF SessionOfKeyHolder
  <1>OneAccountPerEmail. OneAccountPerEmail'
    BY <1>inv, <1>at, <1>challengeWas, <1>none, <1>same DEF Moves, OneAccountPerEmail, Exists
  <1> QED
    BY <1>TypeOK, <1>NewIds, <1>NewChallenges, <1>NewSessions, <1>Named, <1>Links,
       <1>Codes, <1>Spent, <1>Vouch, <1>Stored, <1>Held, <1>Holder, <1>OneAccountPerEmail DEF AuthInv

\* A request has its key.
LEMMA EnrolMoves ==
  ASSUME NEW w \in Workers, NEW k \in Keys, req \in [Workers -> Request],
         req' = [req EXCEPT ![w].at = "enrol", ![w].key = k]
  PROVE  Moves(w, "enrol", req[w].id, req[w].on, k)
  <1>1. req' = [req EXCEPT ![w] = [req[w] EXCEPT !.at = "enrol", !.key = k]]
    OBVIOUS
  <1>2. /\ [req[w] EXCEPT !.at = "enrol", !.key = k] \in Request
        /\ \A r \in Request : /\ [r EXCEPT !.at = "enrol", !.key = k].at = "enrol"
                               /\ [r EXCEPT !.at = "enrol", !.key = k].id = r.id
                               /\ [r EXCEPT !.at = "enrol", !.key = k].on = r.on
                               /\ [r EXCEPT !.at = "enrol", !.key = k].key = k
    BY DEF Request, Steps
  <1> QED
    BY <1>1, <1>2 DEF Moves

\* A key is saved, or was there already and stays whose it is.
LEMMA CredentialSaved ==
  ASSUME AuthInv, NEW w \in Workers, NEW k \in Keys,
         req[w].at = "save",
         owner' = OwnersAfter(k, req[w].id),
         saved' = saved \cup (IF owner[k] = None THEN {<<k, req[w].id>>} ELSE {}),
         req' = [req EXCEPT ![w].at = "enrol", ![w].key = k],
         UNCHANGED <<row, challenge, redis, mailed, given, boot, jwt, asked, drawn, threw>>
  PROVE  AuthInv'
  <1> USE AuthAssumption DEF AuthAssumption
  <1>inv. /\ TypeOK /\ NewIds /\ NewChallenges /\ NewSessions
          /\ Named /\ Links /\ Codes /\ Spent /\ Vouch
          /\ Stored /\ Held /\ SessionOfKeyHolder /\ OneAccountPerEmail
    BY DEF AuthInv
  <1>reqWas. req \in [Workers -> Request] 
    BY <1>inv DEF TypeOK, Request
  <1>moves. Moves(w, "enrol", req[w].id, req[w].on, k)
    BY <1>reqWas, EnrolMoves
  <1>at. req[w].id \in Ids
    BY <1>inv DEF Named, Spending
  <1>ownerType. owner' \in [Keys -> Ids \cup {None}]
    BY <1>inv, <1>at DEF TypeOK, OwnersAfter
  <1>owner. \A l \in Keys : owner'[l] = IF l = k /\ owner[k] = None THEN req[w].id ELSE owner[l]
    BY <1>inv, <1>at DEF TypeOK, OwnersAfter
  <1>saved. /\ saved \subseteq saved' /\ saved' \subseteq Keys \X Ids
            /\ owner[k] = None => <<k, req[w].id>> \in saved'
    BY <1>inv, <1>at DEF TypeOK
  <1>same. UNCHANGED <<row, challenge, link, code, session, mailed, given, boot, jwt, asked, drawn, threw>>
    BY DEF tables, redis, client
  <1>TypeOK. TypeOK'
    BY <1>inv, <1>reqWas, <1>moves, <1>at, <1>ownerType, <1>saved, <1>same DEF TypeOK, Moves, Request
  <1>NewIds. NewIds'
    BY <1>inv, <1>reqWas, <1>moves, <1>at, <1>owner, <1>same DEF Moves, NewIds
  <1>NewChallenges. NewChallenges'
    BY <1>inv, <1>reqWas, <1>moves, <1>at, <1>same DEF Moves, NewChallenges
  <1>NewSessions. NewSessions'
    BY <1>inv, <1>reqWas, <1>at, <1>same DEF Moves, NewSessions
  <1>Named. Named'
    BY <1>inv, <1>reqWas, <1>moves, <1>at, <1>same DEF Moves, Named, Linking, Spending, Vouching
  <1>Links. Links'
    BY <1>inv, <1>reqWas, <1>moves, <1>at, <1>same DEF Moves, Links, Linking, Named, Spending,
       Vouching
  <1>Codes. Codes'
    BY <1>inv, <1>reqWas, <1>moves, <1>at, <1>same DEF Moves, Codes, Named, Linking, Spending,
       Vouching
  <1>Spent. Spent'
    BY <1>inv, <1>reqWas, <1>moves, <1>at, <1>same DEF Moves, Spent, SpentByRequest, OneSpender,
       SpentBySession, Spending, Named, Linking, Vouching
  <1>Vouch. Vouch'
    BY <1>inv, <1>reqWas, <1>moves, <1>at, <1>owner, <1>same DEF Moves, Vouch, Vouching, Vouched,
       Exists, Named, Linking, Spending
  <1>Stored. Stored'
    BY <1>inv, <1>owner, <1>saved, <1>same DEF Stored
  <1>save. req[w].at = "save"
    OBVIOUS
  <1>held. /\ asked[req[w].on].player = req[w].id
           /\ asked[req[w].on].type = "registration"
    BY <1>inv, <1>save DEF Held, Spending
  <1>Held. Held'
    <2> SUFFICES ASSUME NEW v \in Workers
                 PROVE  /\ req'[v].at \in Spending => asked'[req'[v].on].player = req'[v].id
                        /\ req'[v].at \in {"save", "enrol"} => asked'[req'[v].on].type = "registration"
                        /\ req'[v].at \in {"player", "session"} /\ asked'[req'[v].on].type = "authentication" =>
                             <<req'[v].key, req'[v].id>> \in saved'
      BY DEF Held
    <2>1. CASE v = w
      BY <2>1, <1>moves, <1>held, <1>same DEF Moves
    <2>2. CASE v # w
      BY <2>2, <1>inv, <1>moves, <1>saved, <1>same DEF Moves, Held
    <2> QED
      BY <2>1, <2>2
  <1>Holder. SessionOfKeyHolder'
    BY <1>inv, <1>saved, <1>same DEF SessionOfKeyHolder
  <1>OneAccountPerEmail. OneAccountPerEmail'
    BY <1>inv, <1>reqWas, <1>at, <1>same DEF Moves, OneAccountPerEmail, Exists
  <1> QED
    BY <1>TypeOK, <1>NewIds, <1>NewChallenges, <1>NewSessions, <1>Named, <1>Links,
       <1>Codes, <1>Spent, <1>Vouch, <1>Stored, <1>Held, <1>Holder, <1>OneAccountPerEmail DEF AuthInv

\* The player has a key.
LEMMA MarkEnrolledKeeps ==
  ASSUME AuthInv, NEW w \in Workers, MarkPasskeyEnrolled(w)
  PROVE  AuthInv'
  <1> USE AuthAssumption DEF AuthAssumption
  <1>inv. /\ TypeOK /\ NewIds /\ NewChallenges /\ NewSessions
          /\ Named /\ Links /\ Codes /\ Spent /\ Vouch
          /\ Stored /\ Held /\ SessionOfKeyHolder /\ OneAccountPerEmail
    BY DEF AuthInv
  <1>moves. \/ Moves(w, "session", req[w].id, req[w].on, req[w].key)
            \/ Moves(w, "idle", None, None, None)
    BY <1>inv, ToMoves, AnswerMoves DEF MarkPasskeyEnrolled, Steps
  <1>at. req[w].at = "enrol" /\ req[w].id \in Ids
    BY <1>inv DEF MarkPasskeyEnrolled, Named, Linking, Spending, Vouching
  <1>rowType. row' \in [Ids -> PlayerRow]
    BY <1>inv, <1>at, RowUpdated DEF MarkPasskeyEnrolled
  <1>row. \A i \in Ids :
            /\ row'[i].email = row[i].email /\ (row'[i] = NoRow <=> row[i] = NoRow)
            /\ row[i].verified => row'[i].verified
            /\ i # req[w].id => row'[i].verified = row[i].verified
    BY <1>inv, <1>at, RowUpdated DEF MarkPasskeyEnrolled
  <1>same. UNCHANGED <<owner, challenge, link, code, session, mailed, given, boot, jwt, asked, saved, drawn, threw>>
    BY DEF MarkPasskeyEnrolled, tables, redis, client
  <1>TypeOK. TypeOK'
    BY <1>inv, <1>moves, <1>at, <1>rowType, <1>same DEF TypeOK, Moves, Request
  <1>NewIds. NewIds'
    BY <1>inv, <1>moves, <1>at, <1>row, <1>same DEF Moves, NewIds
  <1>NewChallenges. NewChallenges'
    BY <1>inv, <1>moves, <1>at, <1>same DEF Moves, NewChallenges
  <1>NewSessions. NewSessions'
    BY <1>inv, <1>at, <1>same DEF Moves, NewSessions
  <1>Named. Named'
    BY <1>inv, <1>moves, <1>at, <1>same DEF Moves, Named, Linking, Spending, Vouching
  <1>Links. Links'
    BY <1>inv, <1>moves, <1>at, <1>same DEF Moves, Links, Linking, Named, Spending, Vouching
  <1>Codes. Codes'
    BY <1>inv, <1>moves, <1>at, <1>same DEF Moves, Codes, Named, Linking, Spending, Vouching
  <1>Spent. Spent'
    BY <1>inv, <1>moves, <1>at, <1>same DEF Moves, Spent, SpentByRequest, OneSpender, SpentBySession,
       Spending, Named, Linking, Vouching
  <1>Vouch. Vouch'
    BY <1>inv, <1>moves, <1>at, <1>row, <1>same DEF Moves, Vouch, Vouching, Vouched, Exists, Named,
       Linking, Spending
  <1>Stored. Stored'
    BY <1>inv, <1>same DEF Stored
  <1>Held. Held'
    BY <1>inv, <1>moves, <1>at, <1>same DEF Moves, Held, Spending, Named
  <1>Holder. SessionOfKeyHolder'
    BY <1>inv, <1>same DEF SessionOfKeyHolder
  <1>OneAccountPerEmail. OneAccountPerEmail'
    BY <1>inv, <1>at, <1>row, <1>same DEF Moves, OneAccountPerEmail, Exists
  <1> QED
    BY <1>TypeOK, <1>NewIds, <1>NewChallenges, <1>NewSessions, <1>Named, <1>Links,
       <1>Codes, <1>Spent, <1>Vouch, <1>Stored, <1>Held, <1>Holder, <1>OneAccountPerEmail DEF AuthInv

\* A session is created, one nobody has.
LEMMA SessionCreated ==
  ASSUME AuthInv, NEW w \in Workers, NEW s \in Fresh(Sessions),
         req[w].at = "session",
         session' = [session EXCEPT ![s] = req[w].id],
         jwt' = [jwt EXCEPT ![s] = [player |-> req[w].id, key |-> req[w].key, on |-> req[w].on]],
         drawn' = drawn \cup {s}, Answer(w),
         UNCHANGED <<tables, link, code, mailed, given, boot, asked, saved, threw>>
  PROVE  AuthInv'
  <1> USE AuthAssumption DEF AuthAssumption
  <1>inv. /\ TypeOK /\ NewIds /\ NewChallenges /\ NewSessions
          /\ Named /\ Links /\ Codes /\ Spent /\ Vouch
          /\ Stored /\ Held /\ SessionOfKeyHolder /\ OneAccountPerEmail
    BY DEF AuthInv
  <1>moves. Moves(w, "idle", None, None, None)
    BY <1>inv, AnswerMoves
  <1>fresh. s \in Sessions /\ s \notin drawn
    BY DEF Fresh
  <1>at. req[w].id \in Ids /\ req[w].on \in Challenges
    BY <1>inv DEF Named, Spending
  <1>key. req[w].key \in Keys \cup {None}
    BY <1>inv DEF TypeOK
  <1>sessionType. session' \in [Sessions -> Ids \cup {None}]
    BY <1>inv, <1>fresh, <1>at DEF TypeOK
  <1>session. session'[s] = req[w].id /\ \A t \in Sessions \ {s} : session'[t] = session[t]
    BY <1>inv, <1>fresh, <1>at DEF TypeOK
  <1>jwtType. jwt' \in [Sessions -> [player : Ids \cup {None}, key : Keys \cup {None}, on : Challenges \cup {None}]]
    BY <1>inv, <1>fresh, <1>at, <1>key DEF TypeOK
  <1>jwt. /\ jwt'[s].player = req[w].id /\ jwt'[s].key = req[w].key /\ jwt'[s].on = req[w].on
          /\ \A t \in Sessions \ {s} : jwt'[t] = jwt[t]
    BY <1>inv, <1>fresh, <1>at DEF TypeOK
  <1>same. UNCHANGED <<row, owner, challenge, link, code, mailed, given, boot, asked, saved, threw>>
    BY DEF tables, redis, client
  <1>TypeOK. TypeOK'
    BY <1>inv, <1>moves, <1>fresh, <1>at, <1>sessionType, <1>jwtType, <1>same DEF TypeOK, Moves,
       Request
  <1>NewIds. NewIds'
    BY <1>inv, <1>moves, <1>fresh, <1>at, <1>session, <1>jwt, <1>same DEF Moves, NewIds
  <1>NewChallenges. NewChallenges'
    BY <1>inv, <1>moves, <1>fresh, <1>at, <1>jwt, <1>same DEF Moves, NewChallenges
  <1>NewSessions. NewSessions'
    BY <1>inv, <1>fresh, <1>at, <1>session, <1>jwt, <1>same DEF Moves, NewSessions
  <1>Named. Named'
    BY <1>inv, <1>moves, <1>fresh, <1>at, <1>same DEF Moves, Named, Linking, Spending, Vouching
  <1>Links. Links'
    BY <1>inv, <1>moves, <1>fresh, <1>at, <1>same DEF Moves, Links, Linking, Named, Spending,
       Vouching
  <1>Codes. Codes'
    BY <1>inv, <1>moves, <1>fresh, <1>at, <1>same DEF Moves, Codes, Named, Linking, Spending,
       Vouching
  <1>Spent. Spent'
    BY <1>inv, <1>moves, <1>fresh, <1>at, <1>jwt, <1>same DEF Moves, Spent, SpentByRequest,
       OneSpender, SpentBySession, Spending, Named, Linking, Vouching
  <1>Vouch. Vouch'
    BY <1>inv, <1>moves, <1>fresh, <1>at, <1>session, <1>jwt, <1>same DEF Moves, Vouch, Vouching,
       Vouched, Exists, Named, Linking, Spending
  <1>Stored. Stored'
    BY <1>inv, <1>fresh, <1>jwt, <1>same DEF Stored
  <1>Held. Held'
    BY <1>inv, <1>moves, <1>fresh, <1>at, <1>jwt, <1>same DEF Moves, Held, Spending, Named
  <1>Holder. SessionOfKeyHolder'
    <2>1. /\ asked[req[w].on].player = req[w].id
          /\ asked[req[w].on].type = "authentication" => <<req[w].key, req[w].id>> \in saved
      BY <1>inv DEF Held, Spending
    <2> QED
      BY <1>inv, <1>fresh, <1>jwt, <2>1, <1>same DEF SessionOfKeyHolder
  <1>OneAccountPerEmail. OneAccountPerEmail'
    BY <1>inv, <1>fresh, <1>at, <1>same DEF Moves, OneAccountPerEmail, Exists
  <1> QED
    BY <1>TypeOK, <1>NewIds, <1>NewChallenges, <1>NewSessions, <1>Named, <1>Links,
       <1>Codes, <1>Spent, <1>Vouch, <1>Stored, <1>Held, <1>Holder, <1>OneAccountPerEmail DEF AuthInv

\* A login begins, for a player or for nobody.
LEMMA LoginBegun ==
  ASSUME AuthInv, NEW w \in Workers, NEW i \in Ids \cup {None},
         req[w] = Idle, i # None => i \in drawn,
         req' = [req EXCEPT ![w] = [Idle EXCEPT !.at = "authentication", !.id = i]],
         UNCHANGED <<tables, redis, client, drawn, threw>>
  PROVE  AuthInv'
  <1> USE AuthAssumption DEF AuthAssumption
  <1>inv. /\ TypeOK /\ NewIds /\ NewChallenges /\ NewSessions
          /\ Named /\ Links /\ Codes /\ Spent /\ Vouch
          /\ Stored /\ Held /\ SessionOfKeyHolder /\ OneAccountPerEmail
    BY DEF AuthInv
  <1>new. /\ [Idle EXCEPT !.at = "authentication", !.id = i] \in Request
          /\ req' = [req EXCEPT ![w] = [Idle EXCEPT !.at = "authentication", !.id = i]]
    BY <1>inv DEF Idle, Request, Steps
  <1>moves. Moves(w, "authentication", i, None, None)
    BY <1>inv, <1>new, NewMoves DEF Idle
  <1>at. req[w].at = "idle"
    BY DEF Idle
  <1>same. UNCHANGED <<row, owner, challenge, link, code, session, mailed, given, boot, jwt, asked, saved, drawn, threw>>
    BY DEF tables, redis, client
  <1>TypeOK. TypeOK'
    BY <1>inv, <1>moves, <1>at, <1>same DEF TypeOK, Moves, Request
  <1>NewIds. NewIds'
    BY <1>inv, <1>moves, <1>at, <1>same DEF Moves, NewIds
  <1>NewChallenges. NewChallenges'
    BY <1>inv, <1>moves, <1>at, <1>same DEF Moves, NewChallenges
  <1>NewSessions. NewSessions'
    BY <1>inv, <1>at, <1>same DEF Moves, NewSessions
  <1>Named. Named'
    BY <1>inv, <1>moves, <1>at, <1>same DEF Moves, Named, Linking, Spending, Vouching
  <1>Links. Links'
    BY <1>inv, <1>moves, <1>at, <1>same DEF Moves, Links, Linking, Named, Spending, Vouching
  <1>Codes. Codes'
    BY <1>inv, <1>moves, <1>at, <1>same DEF Moves, Codes, Named, Linking, Spending, Vouching
  <1>Spent. Spent'
    BY <1>inv, <1>moves, <1>at, <1>same DEF Moves, Spent, SpentByRequest, OneSpender, SpentBySession,
       Spending, Named, Linking, Vouching
  <1>Vouch. Vouch'
    BY <1>inv, <1>moves, <1>at, <1>same DEF Moves, Vouch, Vouching, Vouched, Exists, Named, Linking,
       Spending
  <1>Stored. Stored'
    BY <1>inv, <1>same DEF Stored
  <1>Held. Held'
    BY <1>inv, <1>moves, <1>at, <1>same DEF Moves, Held, Spending, Named
  <1>Holder. SessionOfKeyHolder'
    BY <1>inv, <1>same DEF SessionOfKeyHolder
  <1>OneAccountPerEmail. OneAccountPerEmail'
    BY <1>inv, <1>at, <1>same DEF Moves, OneAccountPerEmail, Exists
  <1> QED
    BY <1>TypeOK, <1>NewIds, <1>NewChallenges, <1>NewSessions, <1>Named, <1>Links,
       <1>Codes, <1>Spent, <1>Vouch, <1>Stored, <1>Held, <1>Holder, <1>OneAccountPerEmail DEF AuthInv

\* A signed challenge comes in.
LEMMA LoginMoves ==
  ASSUME TypeOK, NEW w \in Workers, NEW i \in Ids, NEW c \in Challenges, NEW k \in Keys \cup {None},
         req' = [req EXCEPT ![w] = [Idle EXCEPT !.at = "credential", !.id = i, !.key = k, !.on = c]]
  PROVE  Moves(w, "credential", i, c, k)
  <1>1. [Idle EXCEPT !.at = "credential", !.id = i, !.key = k, !.on = c] \in Request
    BY DEF Idle, Request, Steps
  <1> QED
    BY <1>1, NewMoves DEF Idle

\* The browser signs a challenge, which is consumed.
LEMMA LoginCompleteKeeps ==
  ASSUME AuthInv, NEW w \in Workers, NEW c \in Challenges, NEW k \in Keys \cup {None}, LoginComplete(w, c, k)
  PROVE  AuthInv'
  <1> USE AuthAssumption DEF AuthAssumption
  <1>inv. /\ TypeOK /\ NewIds /\ NewChallenges /\ NewSessions
          /\ Named /\ Links /\ Codes /\ Spent /\ Vouch
          /\ Stored /\ Held /\ SessionOfKeyHolder /\ OneAccountPerEmail
    BY DEF AuthInv
  <1>at. req[w].at = "idle" /\ challenge[c].type = "authentication"
    BY DEF LoginComplete, Idle
  <1>fresh. challenge[c].player \in Ids \cup {None}
    BY <1>inv DEF ChallengeRow, TypeOK
  <1>moves. \/ challenge[c].player \in Ids /\ Moves(w, "credential", challenge[c].player, c, k)
            \/ UNCHANGED req
    BY <1>inv, <1>fresh, LoginMoves DEF LoginComplete
  <1>challengeType. challenge' \in [Challenges -> ChallengeRow]
    BY <1>inv DEF ChallengeRow, LoginComplete, Consumed, NoChallenge, TypeOK
  <1>challenge. \A d \in Challenges : challenge'[d] = IF d = c THEN NoChallenge ELSE challenge[d]
    BY <1>inv DEF LoginComplete, Consumed, NoChallenge, TypeOK
  <1>none. NoChallenge.type = "none" /\ NoChallenge.player = None
    BY DEF NoChallenge
  <1>same. UNCHANGED <<row, owner, link, code, session, mailed, given, boot, jwt, asked, saved, drawn, threw>>
    BY DEF LoginComplete, tables, redis, client
  <1>TypeOK. TypeOK'
    BY <1>inv, <1>at, <1>fresh, <1>moves, <1>challengeType, <1>none, <1>same DEF TypeOK, Moves,
       Request
  <1>NewIds. NewIds'
    BY <1>inv, <1>at, <1>fresh, <1>moves, <1>challenge, <1>none, <1>same DEF Moves, NewIds
  <1>NewChallenges. NewChallenges'
    BY <1>inv, <1>at, <1>fresh, <1>moves, <1>challenge, <1>none, <1>same DEF Moves, NewChallenges
  <1>NewSessions. NewSessions'
    BY <1>inv, <1>at, <1>fresh, <1>moves, <1>none, <1>same DEF Moves, NewSessions
  <1>Named. Named'
    BY <1>inv, <1>at, <1>fresh, <1>moves, <1>none, <1>same DEF Moves, Named, Linking, Spending,
       Vouching
  <1>Links. Links'
    BY <1>inv, <1>at, <1>fresh, <1>moves, <1>none, <1>same DEF Moves, Links, Linking, Named,
       Spending, Vouching
  <1>Codes. Codes'
    BY <1>inv, <1>at, <1>fresh, <1>moves, <1>none, <1>same DEF Moves, Codes, Named, Linking,
       Spending, Vouching
  <1>Spent. Spent'
    <2>1. \A d \in Challenges :
            challenge'[d].type = IF d = c THEN "none" ELSE challenge[d].type
      BY <1>challenge, <1>none
    <2>2. \A v \in Workers : req'[v].at \in Spending =>
            \/ v # w /\ req[v].at \in Spending /\ req'[v].on = req[v].on
            \/ v = w /\ req'[v].on = c
      BY <1>moves, <1>at DEF Moves, Spending
    <2>3. c \in Challenges /\ challenge[c].type # "none"
      BY <1>at
    <2>4. Spent /\ Named
      BY <1>inv
    <2>5. SpentByRequest'
      BY <2>1, <2>2, <2>3, <2>4, <1>same DEF Spent, SpentByRequest, SpentBySession, Named, Spending, NoToken
    <2>6. OneSpender'
      BY <2>1, <2>2, <2>3, <2>4 DEF Spent, OneSpender, SpentByRequest
    <2>7. SpentBySession'
      BY <2>1, <2>4, <1>same DEF Spent, SpentBySession
    <2> QED
      BY <2>5, <2>6, <2>7 DEF Spent
  <1>Vouch. Vouch'
    BY <1>inv, <1>at, <1>fresh, <1>moves, <1>none, <1>same DEF Moves, Vouch, Vouching, Vouched,
       Exists, Named, Linking, Spending
  <1>Stored. Stored'
    BY <1>inv, <1>challenge, <1>same DEF Stored
  <1>Held. Held'
    <2>1. asked[c] = challenge[c]
      BY <1>inv, <1>at, <1>none DEF Stored
    <2>2. \/ challenge[c].player \in Ids /\ Moves(w, "credential", challenge[c].player, c, k)
          \/ UNCHANGED req
      BY <1>moves
    <2> QED
      BY <1>inv, <1>at, <2>1, <2>2, <1>same DEF Moves, Held, Spending, Named
  <1>Holder. SessionOfKeyHolder'
    BY <1>inv, <1>same DEF SessionOfKeyHolder
  <1>OneAccountPerEmail. OneAccountPerEmail'
    BY <1>inv, <1>at, <1>fresh, <1>moves, <1>none, <1>same DEF Moves, OneAccountPerEmail, Exists
  <1> QED
    BY <1>TypeOK, <1>NewIds, <1>NewChallenges, <1>NewSessions, <1>Named, <1>Links,
       <1>Codes, <1>Spent, <1>Vouch, <1>Stored, <1>Held, <1>Holder, <1>OneAccountPerEmail DEF AuthInv

\* The key is the player's.
LEMMA LoginCredentialKeeps ==
  ASSUME AuthInv, NEW w \in Workers, LoginCredential(w), Belongs(req[w].key, req[w].id)
  PROVE  AuthInv'
  <1> USE AuthAssumption DEF AuthAssumption
  <1>inv. /\ TypeOK /\ NewIds /\ NewChallenges /\ NewSessions
          /\ Named /\ Links /\ Codes /\ Spent /\ Vouch
          /\ Stored /\ Held /\ SessionOfKeyHolder /\ OneAccountPerEmail
    BY DEF AuthInv
  <1>moves. Moves(w, "player", req[w].id, req[w].on, req[w].key)
    BY <1>inv, ToMoves DEF LoginCredential, Steps
  <1>at. req[w].at = "credential" /\ req[w].id \in Ids /\ req[w].key \in Keys /\ owner[req[w].key] = req[w].id
    BY <1>inv DEF LoginCredential, Belongs, Named, Spending, TypeOK, Request
  <1>same. UNCHANGED <<row, owner, challenge, link, code, session, mailed, given, boot, jwt, asked, saved, drawn, threw>>
    BY DEF LoginCredential, tables, redis, client
  <1>TypeOK. TypeOK'
    BY <1>inv, <1>moves, <1>at, <1>same DEF TypeOK, Moves, Request
  <1>NewIds. NewIds'
    BY <1>inv, <1>moves, <1>at, <1>same DEF Moves, NewIds
  <1>NewChallenges. NewChallenges'
    BY <1>inv, <1>moves, <1>at, <1>same DEF Moves, NewChallenges
  <1>NewSessions. NewSessions'
    BY <1>inv, <1>at, <1>same DEF Moves, NewSessions
  <1>Named. Named'
    BY <1>inv, <1>moves, <1>at, <1>same DEF Moves, Named, Linking, Spending, Vouching
  <1>Links. Links'
    BY <1>inv, <1>moves, <1>at, <1>same DEF Moves, Links, Linking, Named, Spending, Vouching
  <1>Codes. Codes'
    BY <1>inv, <1>moves, <1>at, <1>same DEF Moves, Codes, Named, Linking, Spending, Vouching
  <1>Spent. Spent'
    BY <1>inv, <1>moves, <1>at, <1>same DEF Moves, Spent, SpentByRequest, OneSpender, SpentBySession,
       Spending, Named, Linking, Vouching
  <1>Vouch. Vouch'
    BY <1>inv, <1>moves, <1>at, <1>same DEF Moves, Vouch, Vouching, Vouched, Exists, Named, Linking,
       Spending
  <1>Stored. Stored'
    BY <1>inv, <1>same DEF Stored
  <1>Held. Held'
    BY <1>inv, <1>moves, <1>at, AuthAssumption, <1>same DEF Moves, Held, Spending, Named, Stored
  <1>Holder. SessionOfKeyHolder'
    BY <1>inv, <1>same DEF SessionOfKeyHolder
  <1>OneAccountPerEmail. OneAccountPerEmail'
    BY <1>inv, <1>at, <1>same DEF Moves, OneAccountPerEmail, Exists
  <1> QED
    BY <1>TypeOK, <1>NewIds, <1>NewChallenges, <1>NewSessions, <1>Named, <1>Links,
       <1>Codes, <1>Spent, <1>Vouch, <1>Stored, <1>Held, <1>Holder, <1>OneAccountPerEmail DEF AuthInv

\* The player of a key is looked up.
LEMMA LoginFindKeeps ==
  ASSUME AuthInv, NEW w \in Workers, LoginFind(w), Exists(req[w].id)
  PROVE  AuthInv'
  <1> USE AuthAssumption DEF AuthAssumption
  <1>inv. /\ TypeOK /\ NewIds /\ NewChallenges /\ NewSessions
          /\ Named /\ Links /\ Codes /\ Spent /\ Vouch
          /\ Stored /\ Held /\ SessionOfKeyHolder /\ OneAccountPerEmail
    BY DEF AuthInv
  <1>moves. Moves(w, "session", req[w].id, req[w].on, req[w].key)
    BY <1>inv, ToMoves DEF LoginFind, Steps
  <1>at. req[w].at = "player" /\ req[w].id \in Ids
    BY <1>inv DEF LoginFind, Named, Linking, Spending, Vouching
  <1>same. UNCHANGED <<row, owner, challenge, link, code, session, mailed, given, boot, jwt, asked, saved, drawn, threw>>
    BY DEF LoginFind, tables, redis, client
  <1>TypeOK. TypeOK'
    BY <1>inv, <1>moves, <1>at, <1>same DEF TypeOK, Moves, Request
  <1>NewIds. NewIds'
    BY <1>inv, <1>moves, <1>at, <1>same DEF Moves, NewIds
  <1>NewChallenges. NewChallenges'
    BY <1>inv, <1>moves, <1>at, <1>same DEF Moves, NewChallenges
  <1>NewSessions. NewSessions'
    BY <1>inv, <1>at, <1>same DEF Moves, NewSessions
  <1>Named. Named'
    BY <1>inv, <1>moves, <1>at, <1>same DEF Moves, Named, Linking, Spending, Vouching
  <1>Links. Links'
    BY <1>inv, <1>moves, <1>at, <1>same DEF Moves, Links, Linking, Named, Spending, Vouching
  <1>Codes. Codes'
    BY <1>inv, <1>moves, <1>at, <1>same DEF Moves, Codes, Named, Linking, Spending, Vouching
  <1>Spent. Spent'
    BY <1>inv, <1>moves, <1>at, <1>same DEF Moves, Spent, SpentByRequest, OneSpender, SpentBySession,
       Spending, Named, Linking, Vouching
  <1>Vouch. Vouch'
    BY <1>inv, <1>moves, <1>at, <1>same DEF Moves, Vouch, Vouching, Vouched, Exists, Named, Linking,
       Spending
  <1>Stored. Stored'
    BY <1>inv, <1>same DEF Stored
  <1>Held. Held'
    BY <1>inv, <1>moves, <1>at, <1>same DEF Moves, Held, Spending, Named
  <1>Holder. SessionOfKeyHolder'
    BY <1>inv, <1>same DEF SessionOfKeyHolder
  <1>OneAccountPerEmail. OneAccountPerEmail'
    BY <1>inv, <1>at, <1>same DEF Moves, OneAccountPerEmail, Exists
  <1> QED
    BY <1>TypeOK, <1>NewIds, <1>NewChallenges, <1>NewSessions, <1>Named, <1>Links,
       <1>Codes, <1>Spent, <1>Vouch, <1>Stored, <1>Held, <1>Holder, <1>OneAccountPerEmail DEF AuthInv

\* The reset begins: no challenge is left.
LEMMA ResetKeeps ==
  ASSUME AuthInv, NEW w \in Workers, Reset(w)
  PROVE  AuthInv'
  <1> USE AuthAssumption DEF AuthAssumption
  <1>inv. /\ TypeOK /\ NewIds /\ NewChallenges /\ NewSessions
          /\ Named /\ Links /\ Codes /\ Spent /\ Vouch
          /\ Stored /\ Held /\ SessionOfKeyHolder /\ OneAccountPerEmail
    BY DEF AuthInv
  <1>new. /\ [Idle EXCEPT !.at = "wipe2"] \in Request
          /\ req' = [req EXCEPT ![w] = [Idle EXCEPT !.at = "wipe2"]]
    BY <1>inv DEF Reset, Idle, Request, Steps
  <1>moves. Moves(w, "wipe2", None, None, None)
    BY <1>inv, <1>new, NewMoves DEF Idle
  <1>at. req[w].at = "idle"
    BY DEF Reset, Idle
  <1>challenge. challenge' = [c \in Challenges |-> NoChallenge]
    BY DEF Reset
  <1>none. NoChallenge.type = "none" /\ NoChallenge.player = None
    BY DEF NoChallenge
  <1>same. UNCHANGED <<row, owner, link, code, session, mailed, given, boot, jwt, asked, saved, drawn, threw>>
    BY DEF Reset, tables, redis, client
  <1>TypeOK. TypeOK'
    BY <1>inv, <1>moves, <1>at, <1>challenge, <1>none, <1>same DEF ChallengeRow, TypeOK, Moves, Request,
       NoChallenge
  <1>NewIds. NewIds'
    BY <1>inv, <1>moves, <1>at, <1>challenge, <1>none, <1>same DEF Moves, NewIds
  <1>NewChallenges. NewChallenges'
    BY <1>inv, <1>moves, <1>at, <1>challenge, <1>none, <1>same DEF Moves, NewChallenges
  <1>NewSessions. NewSessions'
    BY <1>inv, <1>at, <1>none, <1>same DEF Moves, NewSessions
  <1>Named. Named'
    BY <1>inv, <1>moves, <1>at, <1>none, <1>same DEF Moves, Named, Linking, Spending, Vouching
  <1>Links. Links'
    BY <1>inv, <1>moves, <1>at, <1>none, <1>same DEF Moves, Links, Linking, Named, Spending, Vouching
  <1>Codes. Codes'
    BY <1>inv, <1>moves, <1>at, <1>none, <1>same DEF Moves, Codes, Named, Linking, Spending, Vouching
  <1>Spent. Spent'
    BY <1>inv, <1>moves, <1>at, <1>challenge, <1>none, <1>same DEF Moves, Spent, SpentByRequest,
       OneSpender, SpentBySession, Spending, Named, Linking, Vouching
  <1>Vouch. Vouch'
    BY <1>inv, <1>moves, <1>at, <1>none, <1>same DEF Moves, Vouch, Vouching, Vouched, Exists, Named,
       Linking, Spending
  <1>Stored. Stored'
    BY <1>inv, <1>challenge, <1>same DEF Stored
  <1>Held. Held'
    BY <1>inv, <1>moves, <1>at, <1>none, <1>same DEF Moves, Held, Spending, Named
  <1>Holder. SessionOfKeyHolder'
    BY <1>inv, <1>same DEF SessionOfKeyHolder
  <1>OneAccountPerEmail. OneAccountPerEmail'
    BY <1>inv, <1>at, <1>none, <1>same DEF Moves, OneAccountPerEmail, Exists
  <1> QED
    BY <1>TypeOK, <1>NewIds, <1>NewChallenges, <1>NewSessions, <1>Named, <1>Links,
       <1>Codes, <1>Spent, <1>Vouch, <1>Stored, <1>Held, <1>Holder, <1>OneAccountPerEmail DEF AuthInv

\* No key is left.
LEMMA WipeCredentialsKeeps ==
  ASSUME AuthInv, NEW w \in Workers, WipeCredentials(w)
  PROVE  AuthInv'
  <1> USE AuthAssumption DEF AuthAssumption
  <1>inv. /\ TypeOK /\ NewIds /\ NewChallenges /\ NewSessions
          /\ Named /\ Links /\ Codes /\ Spent /\ Vouch
          /\ Stored /\ Held /\ SessionOfKeyHolder /\ OneAccountPerEmail
    BY DEF AuthInv
  <1>moves. Moves(w, "wipe3", req[w].id, req[w].on, req[w].key)
    BY <1>inv, ToMoves DEF WipeCredentials, Steps
  <1>at. req[w].at = "wipe2"
    BY DEF WipeCredentials
  <1>owner. owner' = [k \in Keys |-> None]
    BY DEF WipeCredentials, NotIn
  <1>same. UNCHANGED <<row, challenge, link, code, session, mailed, given, boot, jwt, asked, saved, drawn, threw>>
    BY DEF WipeCredentials, tables, redis, client
  <1>TypeOK. TypeOK'
    BY <1>inv, <1>moves, <1>at, <1>owner, <1>same DEF TypeOK, Moves, Request
  <1>NewIds. NewIds'
    BY <1>inv, <1>moves, <1>at, <1>owner, <1>same DEF Moves, NewIds
  <1>NewChallenges. NewChallenges'
    BY <1>inv, <1>moves, <1>at, <1>same DEF Moves, NewChallenges
  <1>NewSessions. NewSessions'
    BY <1>inv, <1>at, <1>same DEF Moves, NewSessions
  <1>Named. Named'
    BY <1>inv, <1>moves, <1>at, <1>same DEF Moves, Named, Linking, Spending, Vouching
  <1>Links. Links'
    BY <1>inv, <1>moves, <1>at, <1>same DEF Moves, Links, Linking, Named, Spending, Vouching
  <1>Codes. Codes'
    BY <1>inv, <1>moves, <1>at, <1>same DEF Moves, Codes, Named, Linking, Spending, Vouching
  <1>Spent. Spent'
    BY <1>inv, <1>moves, <1>at, <1>same DEF Moves, Spent, SpentByRequest, OneSpender, SpentBySession,
       Spending, Named, Linking, Vouching
  <1>Vouch. Vouch'
    BY <1>inv, <1>moves, <1>at, <1>owner, <1>same DEF Moves, Vouch, Vouching, Vouched, Exists, Named,
       Linking, Spending
  <1>Stored. Stored'
    BY <1>inv, <1>owner, <1>same DEF Stored
  <1>Held. Held'
    BY <1>inv, <1>moves, <1>at, <1>owner, <1>same DEF Moves, Held, Spending, Named
  <1>Holder. SessionOfKeyHolder'
    BY <1>inv, <1>same DEF SessionOfKeyHolder
  <1>OneAccountPerEmail. OneAccountPerEmail'
    BY <1>inv, <1>at, <1>same DEF Moves, OneAccountPerEmail, Exists
  <1> QED
    BY <1>TypeOK, <1>NewIds, <1>NewChallenges, <1>NewSessions, <1>Named, <1>Links,
       <1>Codes, <1>Spent, <1>Vouch, <1>Stored, <1>Held, <1>Holder, <1>OneAccountPerEmail DEF AuthInv

\* No player is left.
LEMMA WipePlayersKeeps ==
  ASSUME AuthInv, NEW w \in Workers, WipePlayers(w)
  PROVE  AuthInv'
  <1> USE AuthAssumption DEF AuthAssumption
  <1>inv. /\ TypeOK /\ NewIds /\ NewChallenges /\ NewSessions
          /\ Named /\ Links /\ Codes /\ Spent /\ Vouch
          /\ Stored /\ Held /\ SessionOfKeyHolder /\ OneAccountPerEmail
    BY DEF AuthInv
  <1>moves. Moves(w, "wipe4", req[w].id, req[w].on, req[w].key)
    BY <1>inv, ToMoves DEF WipePlayers, Steps
  <1>at. req[w].at = "wipe3"
    BY DEF WipePlayers
  <1>owner. owner' = [k \in Keys |-> None]
    BY DEF WipePlayers, NotIn
  <1>row. row' = [i \in Ids |-> NoRow]
    BY DEF WipePlayers
  <1>challenge. challenge' = [c \in Challenges |-> NoChallenge]
    BY DEF WipePlayers
  <1>none. NoChallenge.type = "none" /\ NoChallenge.player = None
    BY DEF NoChallenge
  <1>same. UNCHANGED <<link, code, session, mailed, given, boot, jwt, asked, saved, drawn, threw>>
    BY DEF WipePlayers, tables, redis, client
  <1>TypeOK. TypeOK'
    BY <1>inv, <1>moves, <1>at, <1>owner, <1>row, <1>challenge, <1>none, <1>same DEF ChallengeRow, TypeOK, Moves,
       Request, PlayerRow, NoRow, NoChallenge
  <1>NewIds. NewIds'
    BY <1>inv, <1>moves, <1>at, <1>owner, <1>row, <1>challenge, <1>none, <1>same DEF Moves, NewIds
  <1>NewChallenges. NewChallenges'
    BY <1>inv, <1>moves, <1>at, <1>challenge, <1>none, <1>same DEF Moves, NewChallenges
  <1>NewSessions. NewSessions'
    BY <1>inv, <1>at, <1>none, <1>same DEF Moves, NewSessions
  <1>Named. Named'
    BY <1>inv, <1>moves, <1>at, <1>none, <1>same DEF Moves, Named, Linking, Spending, Vouching
  <1>Links. Links'
    BY <1>inv, <1>moves, <1>at, <1>none, <1>same DEF Moves, Links, Linking, Named, Spending, Vouching
  <1>Codes. Codes'
    BY <1>inv, <1>moves, <1>at, <1>none, <1>same DEF Moves, Codes, Named, Linking, Spending, Vouching
  <1>Spent. Spent'
    BY <1>inv, <1>moves, <1>at, <1>challenge, <1>none, <1>same DEF Moves, Spent, SpentByRequest,
       OneSpender, SpentBySession, Spending, Named, Linking, Vouching
  <1>Vouch. Vouch'
    BY <1>inv, <1>moves, <1>at, <1>owner, <1>row, <1>none, <1>same DEF Moves, Vouch, Vouching,
       Vouched, Exists, Named, Linking, Spending
  <1>Stored. Stored'
    BY <1>inv, <1>challenge, <1>owner, <1>same DEF Stored
  <1>Held. Held'
    BY <1>inv, <1>moves, <1>at, <1>owner, <1>none, <1>same DEF Moves, Held, Spending, Named
  <1>Holder. SessionOfKeyHolder'
    BY <1>inv, <1>same DEF SessionOfKeyHolder
  <1>OneAccountPerEmail. OneAccountPerEmail'
    BY <1>inv, <1>at, <1>row, <1>none, <1>same DEF Moves, OneAccountPerEmail, Exists
  <1> QED
    BY <1>TypeOK, <1>NewIds, <1>NewChallenges, <1>NewSessions, <1>Named, <1>Links,
       <1>Codes, <1>Spent, <1>Vouch, <1>Stored, <1>Held, <1>Holder, <1>OneAccountPerEmail DEF AuthInv

\* Redis is empty.
LEMMA FlushKeeps ==
  ASSUME AuthInv, NEW w \in Workers, Flush(w)
  PROVE  AuthInv'
  <1> USE AuthAssumption DEF AuthAssumption
  <1>inv. /\ TypeOK /\ NewIds /\ NewChallenges /\ NewSessions
          /\ Named /\ Links /\ Codes /\ Spent /\ Vouch
          /\ Stored /\ Held /\ SessionOfKeyHolder /\ OneAccountPerEmail
    BY DEF AuthInv
  <1>moves. Moves(w, "idle", None, None, None)
    BY <1>inv, AnswerMoves DEF Flush
  <1>at. req[w].at = "wipe4"
    BY DEF Flush
  <1>session. session' = [s \in Sessions |-> None]
    BY DEF Flush, NotIn
  <1>linkType. link' \in [Ids -> KeyStates]
    BY <1>inv DEF Flush, Flushed, TypeOK, KeyStates
  <1>link. \A i \in Ids : link'[i] = IF link[i] = "live" THEN "gone" ELSE link[i]
    BY <1>inv DEF Flush, Flushed, TypeOK, KeyStates
  <1>codeType. code' \in [Ids -> KeyStates]
    BY <1>inv DEF Flush, Flushed, TypeOK, KeyStates
  <1>code. \A i \in Ids : code'[i] = IF code[i] = "live" THEN "gone" ELSE code[i]
    BY <1>inv DEF Flush, Flushed, TypeOK, KeyStates
  <1>same. UNCHANGED <<row, owner, challenge, mailed, given, boot, jwt, asked, saved, drawn, threw>>
    BY DEF Flush, tables, redis, client
  <1>TypeOK. TypeOK'
    BY <1>inv, <1>moves, <1>at, <1>session, <1>linkType, <1>codeType, <1>same DEF TypeOK,
       Moves, Request
  <1>NewIds. NewIds'
    BY <1>inv, <1>moves, <1>at, <1>session, <1>link, <1>same DEF Moves, NewIds
  <1>NewChallenges. NewChallenges'
    BY <1>inv, <1>moves, <1>at, <1>same DEF Moves, NewChallenges
  <1>NewSessions. NewSessions'
    BY <1>inv, <1>at, <1>session, <1>same DEF Moves, NewSessions
  <1>Named. Named'
    BY <1>inv, <1>moves, <1>at, <1>same DEF Moves, Named, Linking, Spending, Vouching
  <1>Links. Links'
    BY <1>inv, <1>moves, <1>at, <1>link, <1>code, <1>same DEF Moves, Links, Linking, Named, Spending,
       Vouching
  <1>Codes. Codes'
    BY <1>inv, <1>moves, <1>at, <1>code, <1>same DEF Moves, Codes, Named, Linking, Spending, Vouching
  <1>Spent. Spent'
    BY <1>inv, <1>moves, <1>at, <1>same DEF Moves, Spent, SpentByRequest, OneSpender, SpentBySession,
       Spending, Named, Linking, Vouching
  <1>Vouch. Vouch'
    BY <1>inv, <1>moves, <1>at, <1>session, <1>same DEF Moves, Vouch, Vouching, Vouched, Exists,
       Named, Linking, Spending
  <1>Stored. Stored'
    BY <1>inv, <1>same DEF Stored
  <1>Held. Held'
    BY <1>inv, <1>moves, <1>at, <1>same DEF Moves, Held, Spending, Named
  <1>Holder. SessionOfKeyHolder'
    BY <1>inv, <1>same DEF SessionOfKeyHolder
  <1>OneAccountPerEmail. OneAccountPerEmail'
    BY <1>inv, <1>at, <1>same DEF Moves, OneAccountPerEmail, Exists
  <1> QED
    BY <1>TypeOK, <1>NewIds, <1>NewChallenges, <1>NewSessions, <1>Named, <1>Links,
       <1>Codes, <1>Spent, <1>Vouch, <1>Stored, <1>Held, <1>Holder, <1>OneAccountPerEmail DEF AuthInv

\* Something in Redis or a challenge expires.
LEMMA ExpireKeeps ==
  ASSUME AuthInv, Expire
  PROVE  AuthInv'
  <1> USE AuthAssumption DEF AuthAssumption
  <1>inv. /\ TypeOK /\ NewIds /\ NewChallenges /\ NewSessions
          /\ Named /\ Links /\ Codes /\ Spent /\ Vouch
          /\ Stored /\ Held /\ SessionOfKeyHolder /\ OneAccountPerEmail
    BY DEF AuthInv
  <1>linkWas. link \in [Ids -> KeyStates]
    BY <1>inv DEF TypeOK
  <1>codeWas. code \in [Ids -> KeyStates]
    BY <1>inv DEF TypeOK
  <1>challengeWas. challenge \in [Challenges -> ChallengeRow]
    BY <1>inv DEF TypeOK
  <1>sessionWas. session \in [Sessions -> Ids \cup {None}]
    BY <1>inv DEF TypeOK
  <1>link. \/ link' = link
           \/ \E i \in Ids : link[i] = "live" /\ link' = [link EXCEPT ![i] = "gone"]
    BY DEF Expire, redis, TakenFrom
  <1>code. \/ code' = code
           \/ \E i \in Ids : code[i] = "live" /\ code' = [code EXCEPT ![i] = "gone"]
    BY DEF Expire, redis, TakenFrom
  <1>linkType. link' \in [Ids -> KeyStates]
    BY <1>linkWas, <1>link DEF KeyStates
  <1>link2. \A i \in Ids : link'[i] = link[i] \/ (link[i] = "live" /\ link'[i] = "gone")
    BY <1>linkWas, <1>link DEF KeyStates
  <1>codeType. code' \in [Ids -> KeyStates]
    BY <1>codeWas, <1>code DEF KeyStates
  <1>code2. \A i \in Ids : code'[i] = code[i] \/ (code[i] = "live" /\ code'[i] = "gone")
    BY <1>codeWas, <1>code DEF KeyStates
  <1>challengeType. challenge' \in [Challenges -> ChallengeRow]
    BY <1>challengeWas DEF ChallengeRow, Expire, redis, tables, NoChallenge
  <1>challenge. \A c \in Challenges : challenge'[c] \in {challenge[c], NoChallenge}
    BY <1>challengeWas DEF Expire, redis, tables, NoChallenge
  <1>sessionType. session' \in [Sessions -> Ids \cup {None}]
    BY <1>sessionWas DEF Expire, redis, tables
  <1>session. \A s \in Sessions : session'[s] \in {session[s], None}
    BY <1>sessionWas DEF Expire, redis, tables
  <1>none. NoChallenge.type = "none" /\ NoChallenge.player = None
    BY DEF NoChallenge
  <1>same. UNCHANGED <<row, owner, mailed, given, boot, jwt, asked, saved, drawn, req, threw>>
    BY DEF Expire, tables, redis, client
  <1>TypeOK. TypeOK'
    BY <1>inv, <1>linkWas, <1>codeWas, <1>challengeWas, <1>sessionWas, <1>linkType, <1>link2,
       <1>codeType, <1>code2, <1>challengeType, <1>sessionType, <1>none, <1>same DEF TypeOK,
       Moves
  <1>NewIds. NewIds'
    BY <1>inv, <1>linkWas, <1>codeWas, <1>challengeWas, <1>sessionWas, <1>link, <1>link2,
       <1>challenge, <1>session, <1>none, <1>same DEF Moves, NewIds
  <1>NewChallenges. NewChallenges'
    BY <1>inv, <1>linkWas, <1>codeWas, <1>challengeWas, <1>sessionWas, <1>challenge, <1>none, <1>same
       DEF Moves, NewChallenges
  <1>NewSessions. NewSessions'
    BY <1>inv, <1>linkWas, <1>codeWas, <1>challengeWas, <1>sessionWas, <1>session, <1>none, <1>same
       DEF Moves, NewSessions
  <1>Named. Named'
    BY <1>inv, <1>linkWas, <1>codeWas, <1>challengeWas, <1>sessionWas, <1>none, <1>same DEF Moves,
       Named, Linking, Spending, Vouching
  <1>Links. Links'
    BY <1>inv, <1>linkWas, <1>codeWas, <1>challengeWas, <1>sessionWas, <1>link, <1>code, <1>link2,
       <1>code2, <1>none, <1>same DEF Moves, Links, Linking, Named, Spending, Vouching
  <1>Codes. Codes'
    BY <1>inv, <1>linkWas, <1>codeWas, <1>challengeWas, <1>sessionWas, <1>code, <1>code2, <1>none,
       <1>same DEF Moves, Codes, Named, Linking, Spending, Vouching
  <1>Spent. Spent'
    BY <1>inv, <1>linkWas, <1>codeWas, <1>challengeWas, <1>sessionWas, <1>challenge, <1>none, <1>same
       DEF Moves, Spent, SpentByRequest, OneSpender, SpentBySession, Spending, Named, Linking,
       Vouching
  <1>Vouch. Vouch'
    BY <1>inv, <1>linkWas, <1>codeWas, <1>challengeWas, <1>sessionWas, <1>session, <1>none, <1>same
       DEF Moves, Vouch, Vouching, Vouched, Exists, Named, Linking, Spending
  <1>Stored. Stored'
    BY <1>inv, <1>challenge, <1>same DEF Stored
  <1>Held. Held'
    BY <1>inv, <1>linkWas, <1>codeWas, <1>challengeWas, <1>sessionWas, <1>none, <1>same DEF Moves, Held, Spending, Named
  <1>Holder. SessionOfKeyHolder'
    BY <1>inv, <1>same DEF SessionOfKeyHolder
  <1>OneAccountPerEmail. OneAccountPerEmail'
    BY <1>inv, <1>linkWas, <1>codeWas, <1>challengeWas, <1>sessionWas, <1>none, <1>same DEF Moves,
       OneAccountPerEmail, Exists
  <1> QED
    BY <1>TypeOK, <1>NewIds, <1>NewChallenges, <1>NewSessions, <1>Named, <1>Links,
       <1>Codes, <1>Spent, <1>Vouch, <1>Stored, <1>Held, <1>Holder, <1>OneAccountPerEmail DEF AuthInv

-----------------------------------------------------------------------------
(* The actions with more than one outcome, and all of them together. *)

\* The address is taken and the process dies, or the player is inserted.
LEMMA InsertPlayerKeeps ==
  ASSUME AuthInv, NEW w \in Workers, InsertPlayer(w)
  PROVE  AuthInv'
  <1>1. CASE Taken(req[w].email)
    <2>1. Die /\ threw' \in BOOLEAN /\ UNCHANGED <<tables, redis, client, drawn>>
      BY <1>1 DEF InsertPlayer, tables
    <2> QED
      BY <2>1, DieKeeps
  <1>2. CASE ~ Taken(req[w].email)
    <2>1. PICK i \in Fresh(Ids) :
            /\ row' = [row EXCEPT ![i] = [NoRow EXCEPT !.email = req[w].email]]
            /\ drawn' = drawn \cup {i}
            /\ req' = [req EXCEPT ![w] = [Idle EXCEPT !.at = "link", !.id = i]]
      BY <1>2 DEF InsertPlayer
    <2>2. req[w].at = "insert" /\ Rows(req[w].email) = {}
      BY <1>2 DEF InsertPlayer, Taken
    <2>3. UNCHANGED <<owner, challenge, redis, client, threw>>
      BY <1>2 DEF InsertPlayer
    <2> QED
      BY <2>1, <2>2, <2>3, PlayerInserted
  <1> QED
    BY <1>1, <1>2

\* Without a player the request that looked for it is answered.
LEMMA FindKeeps ==
  ASSUME AuthInv, NEW w \in Workers, VerifyFind(w) \/ LoginCredential(w) \/ LoginFind(w)
  PROVE  AuthInv'
  <1>1. CASE VerifyFind(w)
    <2>1. CASE Exists(req[w].id)
      BY <1>1, <2>1, VerifyFindKeeps
    <2>2. CASE ~ Exists(req[w].id)
      BY <1>1, <2>2, AnsweredKeeps DEF VerifyFind
    <2> QED
      BY <2>1, <2>2
  <1>2. CASE LoginCredential(w)
    <2>1. CASE Belongs(req[w].key, req[w].id)
      BY <1>2, <2>1, LoginCredentialKeeps
    <2>2. CASE ~ Belongs(req[w].key, req[w].id)
      BY <1>2, <2>2, AnsweredKeeps DEF LoginCredential
    <2> QED
      BY <2>1, <2>2
  <1>3. CASE LoginFind(w)
    <2>1. CASE Exists(req[w].id)
      BY <1>3, <2>1, LoginFindKeeps
    <2>2. CASE ~ Exists(req[w].id)
      BY <1>3, <2>2, AnsweredKeeps DEF LoginFind
    <2> QED
      BY <2>1, <2>2
  <1> QED
    BY <1>1, <1>2, <1>3

\* The player is gone and the process dies, or the challenge is stored.
LEMMA StoreChallengeKeeps ==
  ASSUME AuthInv, NEW w \in Workers, StoreChallenge(w)
  PROVE  AuthInv'
  <1>1. UNCHANGED <<row, owner, redis, mailed, given, boot, jwt, saved, threw>> /\ req[w].at \in {"registration", "authentication"}
    BY DEF StoreChallenge
  <1>2. CASE Die /\ UNCHANGED <<challenge, asked, drawn>>
    <2>1. threw' \in BOOLEAN
      BY <1>1 DEF AuthInv, TypeOK
    <2> QED
      BY <1>1, <1>2, <2>1, DieKeeps DEF tables, client
  <1>3. ASSUME NEW c \in Fresh(Challenges), Answer(w),
               challenge' = [challenge EXCEPT ![c] = [player |-> req[w].id, type |-> req[w].at]],
               asked' = [asked EXCEPT ![c] = [player |-> req[w].id, type |-> req[w].at]],
               drawn' = drawn \cup {c}
        PROVE  AuthInv'
    BY <1>1, <1>3, ChallengeStored
  <1> QED
    BY <1>2, <1>3 DEF StoreChallenge

\* The holder of a bootstrap or a session token begins to enroll a key.
LEMMA RegisterBeginKeeps ==
  ASSUME AuthInv, NEW w \in Workers, RegisterBegin(w)
  PROVE  AuthInv'
  <1>1. PICK b \in Bearers :
          /\ Exists(b[1])
          /\ req' = [req EXCEPT ![w] = [Idle EXCEPT !.at = "registration", !.id = b[1]]]
    BY DEF RegisterBegin
  <1>2. req[w] = Idle /\ UNCHANGED <<tables, redis, client, drawn, threw>>
    BY DEF RegisterBegin
  <1>3. b[1] \in Ids /\ b[1] \in drawn /\ Vouched(b[1]) /\ b[2] \in {"enroll", "session"}
    BY <1>1, BearerVouched
  <1> QED
    BY <1>1, <1>2, <1>3, RegistrationBegun

\* The browser answers a challenge it was sent.
LEMMA RegisterCompleteKeeps ==
  ASSUME AuthInv, NEW w \in Workers, NEW c \in Challenges, RegisterComplete(w, c)
  PROVE  AuthInv'
  <1>1. PICK b \in Bearers :
          /\ Exists(b[1])
          /\ req' = [req EXCEPT ![w] =
                       [Idle EXCEPT !.at = "attest", !.id = b[1], !.scope = b[2], !.on = c]]
    BY DEF RegisterComplete
  <1>2. req[w] = Idle /\ c \in drawn /\ UNCHANGED <<tables, redis, client, drawn, threw>>
    BY DEF RegisterComplete
  <1>3. b[1] \in Ids /\ b[1] \in drawn /\ Vouched(b[1]) /\ b[2] \in {"enroll", "session"}
    BY <1>1, BearerVouched
  <1> QED
    BY <1>1, <1>2, <1>3, RegistrationAnswered

\* A challenge of a login is left alone, one of a registration consumed.
LEMMA ConsumeRegistrationKeeps ==
  ASSUME AuthInv, NEW w \in Workers, ConsumeRegistration(w)
  PROVE  AuthInv'
  <1>1. CASE challenge[req[w].on].type = "registration"
    BY <1>1, ConsumeKeeps
  <1>2. CASE challenge[req[w].on].type # "registration"
    <2>1. Answer(w) /\ req[w].at = "attest" /\ UNCHANGED <<tables, redis, client, drawn, threw>>
      BY <1>2 DEF ConsumeRegistration, tables
    <2> QED
      BY <2>1, AnsweredKeeps
  <1> QED
    BY <1>1, <1>2

\* A key is saved, or the player is gone.
LEMMA SaveCredentialKeeps ==
  ASSUME AuthInv, NEW w \in Workers, SaveCredential(w)
  PROVE  AuthInv'
  <1>1. req[w].at = "save" /\ UNCHANGED <<row, challenge, redis, mailed, given, boot, jwt, asked, drawn, threw>>
    BY DEF SaveCredential
  <1>2. ASSUME NEW k \in Keys,
               owner' = OwnersAfter(k, req[w].id),
               saved' = saved \cup (IF owner[k] = None THEN {<<k, req[w].id>>} ELSE {}),
               req' = [req EXCEPT ![w].at = "enrol", ![w].key = k]
        PROVE  AuthInv'
    BY <1>1, <1>2, CredentialSaved
  <1>3. CASE Answer(w) /\ UNCHANGED <<owner, saved>>
    BY <1>1, <1>3, AnsweredKeeps DEF tables, client
  <1> QED
    BY <1>2, <1>3 DEF SaveCredential

\* A session is created.
LEMMA CreateSessionKeeps ==
  ASSUME AuthInv, NEW w \in Workers, CreateSession(w)
  PROVE  AuthInv'
  <1>1. PICK s \in Fresh(Sessions) :
          /\ session' = [session EXCEPT ![s] = req[w].id]
          /\ jwt' = [jwt EXCEPT ![s] = [player |-> req[w].id, key |-> req[w].key, on |-> req[w].on]]
          /\ drawn' = drawn \cup {s}
    BY DEF CreateSession
  <1>2. /\ req[w].at = "session" /\ Answer(w)
        /\ UNCHANGED <<tables, link, code, mailed, given, boot, asked, saved, threw>>
    BY DEF CreateSession
  <1> QED
    BY <1>1, <1>2, SessionCreated

\* A login begins.
LEMMA LoginBeginKeeps ==
  ASSUME AuthInv, NEW w \in Workers, NEW e \in Emails, LoginBegin(w, e)
  PROVE  AuthInv'
  <1>1. PICK i \in Challenged(e) :
          req' = [req EXCEPT ![w] = [Idle EXCEPT !.at = "authentication", !.id = i]]
    BY DEF LoginBegin
  <1>2. req[w] = Idle /\ UNCHANGED <<tables, redis, client, drawn, threw>>
    BY DEF LoginBegin
  <1>3. i \in Ids \cup {None} /\ (i \in Ids => row[i].email = e)
    BY AuthAssumption DEF Challenged, Rows, AuthAssumption
  <1>4. NewIds /\ NoRow.email = None /\ None \notin Emails
    BY AuthAssumption DEF AuthInv, NoRow, AuthAssumption
  <1>5. i # None => i \in drawn
    BY <1>3, <1>4 DEF NewIds
  <1> QED
    BY <1>1, <1>2, <1>3, <1>5, LoginBegun

\* AuthInv is inductive.
LEMMA AuthInvNext == AuthInv /\ [Next]_vars => AuthInv'
  <1> SUFFICES ASSUME AuthInv, [Next]_vars PROVE AuthInv'
    OBVIOUS
  <1>1. ASSUME NEW w \in Workers, Accept(w) PROVE AuthInv'
    <2>1. ASSUME NEW e \in Emails, Register(w, e) PROVE AuthInv'
      BY <2>1, RegisterKeeps
    <2>2. ASSUME NEW e \in Emails, LoginBegin(w, e) PROVE AuthInv'
      BY <2>2, LoginBeginKeeps
    <2>3. ASSUME NEW i \in Ids, VerifyToken(w, i) PROVE AuthInv'
      BY <2>3, VerifyTokenKeeps
    <2>4. ASSUME NEW i \in Ids, Exchange(w, i) PROVE AuthInv'
      BY <2>4, ExchangeKeeps
    <2>5. CASE RegisterBegin(w)
      BY <2>5, RegisterBeginKeeps
    <2>6. ASSUME NEW c \in Challenges, RegisterComplete(w, c) PROVE AuthInv'
      BY <2>6, RegisterCompleteKeeps
    <2>7. ASSUME NEW c \in Challenges, NEW k \in Keys \cup {None}, LoginComplete(w, c, k) PROVE AuthInv'
      BY <2>7, LoginCompleteKeeps
    <2>8. CASE Reset(w)
      BY <2>8, ResetKeeps
    <2> QED
      BY <1>1, <2>1, <2>2, <2>3, <2>4, <2>5, <2>6, <2>7, <2>8 DEF Accept
  <1>2. ASSUME NEW w \in Workers, Step(w) PROVE AuthInv'
    <2>1. CASE InsertPlayer(w) \/ StoreLink(w) \/ SendMail(w)
      BY <2>1, InsertPlayerKeeps, StoreLinkKeeps, SendMailKeeps
    <2>2. CASE VerifyFind(w) \/ LoginCredential(w) \/ LoginFind(w)
      BY <2>2, FindKeeps
    <2>3. CASE MarkPlayerVerified(w) \/ IssueCode(w) \/ ExchangeFind(w)
      BY <2>3, MarkVerifiedKeeps, IssueCodeKeeps, ExchangeFindKeeps
    <2>4. CASE StoreChallenge(w) \/ ConsumeRegistration(w) \/ SaveCredential(w)
      BY <2>4, StoreChallengeKeeps, ConsumeRegistrationKeeps, SaveCredentialKeeps
    <2>5. CASE MarkPasskeyEnrolled(w) \/ CreateSession(w)
      BY <2>5, MarkEnrolledKeeps, CreateSessionKeeps
    <2>6. CASE Refuse(w)
      BY <2>6, AnsweredKeeps DEF Refuse
    <2>7. CASE WipeCredentials(w) \/ WipePlayers(w) \/ Flush(w)
      BY <2>7, WipeCredentialsKeeps, WipePlayersKeeps, FlushKeeps
    <2> QED
      BY <1>2, <2>1, <2>2, <2>3, <2>4, <2>5, <2>6, <2>7 DEF Step
  <1>3. CASE Expire
    BY <1>3, ExpireKeeps
  <1>4. CASE Crash
    <2>1. Die /\ threw' \in BOOLEAN /\ UNCHANGED <<tables, redis, client, drawn>>
      BY <1>4 DEF Crash, AuthInv, TypeOK
    <2> QED
      BY <2>1, DieKeeps
  <1>5. CASE UNCHANGED vars
    <2>1. UNCHANGED <<row, owner, challenge, link, code, session, mailed, given, boot, jwt, asked, saved, drawn, req, threw>>
      BY <1>5 DEF vars
    <2>2. TypeOK'
      BY <2>1 DEF AuthInv, TypeOK, Steps, KeyStates, PlayerRow, ChallengeRow, Request
    <2>3. NewIds'
      BY <2>1 DEF AuthInv, NewIds
    <2>5. NewChallenges'
      BY <2>1 DEF AuthInv, NewChallenges
    <2>6. NewSessions'
      BY <2>1 DEF AuthInv, NewSessions
    <2>7. Named'
      BY <2>1 DEF AuthInv, Named, Linking, Spending, Vouching
    <2>8. Links'
      BY <2>1 DEF AuthInv, Links, Linking
    <2>9. Codes'
      BY <2>1 DEF AuthInv, Codes
    <2>10. Spent'
      BY <2>1 DEF AuthInv, Spent, SpentByRequest, OneSpender, SpentBySession, Spending
    <2>11. Vouch'
      BY <2>1 DEF AuthInv, Vouch, Vouching, Vouched, Exists
    <2>12. Stored'
      BY <2>1 DEF AuthInv, Stored
    <2>13. Held'
      BY <2>1 DEF AuthInv, Held, Spending
    <2>14. SessionOfKeyHolder'
      BY <2>1 DEF AuthInv, SessionOfKeyHolder
    <2>15. OneAccountPerEmail'
      BY <2>1 DEF AuthInv, OneAccountPerEmail, Exists
    <2> QED
      BY <2>2, <2>3, <2>5, <2>6, <2>7, <2>8, <2>9, <2>10, <2>11, <2>12, <2>13, <2>14, <2>15 DEF
         AuthInv
  <1> QED
    BY <1>1, <1>2, <1>3, <1>4, <1>5 DEF Next

-----------------------------------------------------------------------------
\* Whatever the requests do, the tables, Redis, the clients and the requests
\* agree on who has verified what and on what was consumed.
THEOREM AuthInvariant == Spec => []AuthInv
  BY AuthInvInit, AuthInvNext, PTL DEF Spec

\* createPlayer (auth-service/index.ts): the UNIQUE address admits one account,
\* whatever registrations interleave.
THEOREM OneAccount == Spec => []OneAccountPerEmail
  <1>1. AuthInv => OneAccountPerEmail
    BY DEF AuthInv
  <1> QED
    BY <1>1, AuthInvariant, PTL

\* getdel and DELETE ... RETURNING: a link, a code and a challenge are served
\* once, however many requests present them at a time.
THEOREM NothingReplayed == Spec => []ServedOnce
  <1>1. AuthInv => ServedOnce
    <2> SUFFICES ASSUME AuthInv PROVE ServedOnce
      OBVIOUS
    <2>1. Links /\ Codes /\ SpentBySession
      BY DEF AuthInv, Spent
    <2> QED
      BY <2>1 DEF Links, Codes, SpentBySession, ServedOnce
  <1> QED
    BY <1>1, AuthInvariant, PTL

\* Whoever has a code, a token, a key or a session has verified the address.
THEOREM OnlyTheVerified == Spec => []VerifiedFirst
  <1>1. AuthInv => VerifiedFirst
    BY DEF AuthInv, Vouch, Vouched, VerifiedFirst
  <1> QED
    BY <1>1, AuthInvariant, PTL

\* consumeChallenge and storedCred.playerId === playerId: a session token is for
\* the player for whom its challenge was drawn, and one from a login for a player
\* who has enrolled the key.
THEOREM SessionForKeyHolder == Spec => []SessionOfKeyHolder
  <1>1. AuthInv => SessionOfKeyHolder
    BY DEF AuthInv
  <1> QED
    BY <1>1, AuthInvariant, PTL

\* ON CONFLICT (credential_id): no step gives a key to another player.
THEOREM KeysStay == Spec => KeyStays
  <1>1. AuthInv /\ [Next]_vars => [\A k \in Keys : owner[k] # None => owner'[k] \in {owner[k], None}]_vars
    <2> SUFFICES ASSUME AuthInv, Next, NEW k \in Keys, owner[k] # None
                 PROVE  owner'[k] \in {owner[k], None}
      OBVIOUS
    <2>1. owner \in [Keys -> Ids \cup {None}]
      BY DEF AuthInv, TypeOK
    <2>2. CASE owner' = owner
      BY <2>2
    <2>3. CASE owner' = NotIn(Keys)
      BY <2>3 DEF NotIn
    <2>4. ASSUME NEW w \in Workers, NEW l \in Keys, owner' = OwnersAfter(l, req[w].id)
          PROVE  owner'[k] = owner[k]
      BY <2>1, <2>4 DEF OwnersAfter
    <2>5. owner' = owner \/ owner' = NotIn(Keys) \/ \E w \in Workers, l \in Keys : owner' = OwnersAfter(l, req[w].id)
      <3>1. ASSUME NEW w \in Workers, Accept(w) PROVE owner' = owner
        BY <3>1 DEF Accept, Register, LoginBegin, VerifyToken, Exchange, RegisterBegin, RegisterComplete,
           LoginComplete, Reset, tables
      <3>2. ASSUME NEW w \in Workers, SaveCredential(w)
            PROVE  owner' = owner \/ \E l \in Keys : owner' = OwnersAfter(l, req[w].id)
        BY <3>2 DEF SaveCredential
      <3>3. ASSUME NEW w \in Workers, WipeCredentials(w) \/ WipePlayers(w) PROVE owner' = NotIn(Keys)
        BY <3>3 DEF WipeCredentials, WipePlayers
      <3>4. ASSUME NEW w \in Workers,
                   \/ InsertPlayer(w) \/ StoreLink(w) \/ SendMail(w)
                   \/ VerifyFind(w) \/ MarkPlayerVerified(w) \/ IssueCode(w) \/ ExchangeFind(w)
                   \/ StoreChallenge(w) \/ ConsumeRegistration(w)
                   \/ MarkPasskeyEnrolled(w) \/ CreateSession(w) \/ Refuse(w)
                   \/ LoginCredential(w) \/ LoginFind(w) \/ Flush(w)
            PROVE  owner' = owner
        BY <3>4 DEF InsertPlayer, StoreLink, SendMail, VerifyFind, MarkPlayerVerified, IssueCode,
           ExchangeFind, StoreChallenge, ConsumeRegistration, MarkPasskeyEnrolled, CreateSession,
           Refuse, LoginCredential, LoginFind, Flush, tables
      <3>5. CASE Expire \/ Crash
        BY <3>5 DEF Expire, Crash, tables
      <3> QED
        BY <3>1, <3>2, <3>3, <3>4, <3>5 DEF Next, Step
    <2> QED
      BY <2>2, <2>3, <2>4, <2>5
  <1> QED
    BY <1>1, AuthInvariant, PTL DEF Spec, KeyStays

=============================================================================
