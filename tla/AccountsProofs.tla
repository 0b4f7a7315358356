--------------------------- MODULE AccountsProofs ---------------------------
(***************************************************************************)
(* Safety of Accounts for every set of users, keys and sessions, and however  *)
(* many keys share a prefix.                                                *)
(***************************************************************************)
EXTENDS Views, TLAPS

\* The unique column of api_keys.
PrefixesUnique == \A k, l \in Drawn : Prefix[k] = Prefix[l] => k = l

\* Rows refer to rows, and credentials to what they were given for.
Rooted ==
  /\ \A k \in Drawn : keys[k].owner \in Accounts
  /\ \A c \in held : IF c.kind = "key" THEN c.id \in Drawn ELSE c.id \in Accounts

\* Who a request acts for.
ActorOK(r) ==
  /\ r.cred # NoCredential => r.cred \in held
  /\ r.actor # NULL => r.cred # NoCredential /\ r.actor = Behind(r.cred)
  /\ r.pc = "user" => r.actor # NULL
  /\ r.pc \in {"handle", "write"} /\ r.op \notin {"signup", "login"} => r.actor # NULL

\* How far a request has come, and what it is about.
StageOK(r) ==
  /\ r.wrote => r.pc \in {"answer", "done"}
  /\ r.pc \in {"auth", "user"} => r.op \notin {"signup", "login"}
  /\ r.pc = "write" => r.op \in AdminOps \cup {"signup", "generate", "revoke"}
  /\ r.pc # "done" =>
       /\ r.op \in {"signup", "login"} => r.arg \in Emails
       /\ r.op = "revoke" => r.arg \in Keys
       /\ r.op \in AdminOps => r.arg \in Users
  /\ r.pc = "write" /\ r.op = "revoke" => r.arg \in Drawn
  /\ r.pc = "write" /\ r.op \in AdminOps => r.arg \in Accounts
  /\ r.pc = "answer" /\ r.op = "generate" => r.arg \in Drawn

\* A revoked key gets no further than authentication.
DeadOK(r) ==
  r.dead => \/ r.pc = "auth" /\ r.cred.kind = "key" /\ keys[r.cred.id].revoked
            \/ r.pc = "done" /\ r.code \in {401, 500} /\ ~r.wrote

\* A caller who has not been active since the request began is not active, and was
\* not when it was authenticated.
BarredOK(r) ==
  r.barred =>
    /\ r.cred # NoCredential /\ users[Behind(r.cred)].status # "active"
    /\ r.op = "generate" /\ r.seen # "active" /\ r.pc \notin {"write", "answer", "done"}

\* A decision no other has overtaken knows the status it changes.
SeenOK(r) ==
  r.op \in AdminOps /\ ~r.raced
    /\ (r.pc = "write" \/ (r.pc = "handle" /\ r.actor = r.arg))
    => r.seen = users[r.arg].status

RequestOK(r) == ActorOK(r) /\ StageOK(r) /\ DeadOK(r) /\ BarredOK(r) /\ SeenOK(r)

Inv ==
  /\ TypeOK /\ EmailsUnique /\ PrefixesUnique /\ Rooted /\ DecisionsStick
  /\ \A s \in Sessions : RequestOK(req[s])

-----------------------------------------------------------------------------
(* Lemmas *)

\* The answers to the errors the handlers raise.
LEMMA ErrorCodes ==
  /\ StatusCode("EmailAlreadyExists") = 400
  /\ StatusCode("InvalidCredentials") = 401
  /\ StatusCode("AccountNotActive") = 403
  /\ StatusCode("ApiKeyNotOwned") = 403
  /\ StatusCode("ApiKeyNotFound") = 404
  /\ StatusCode("UserNotFound") = 404
<1>1. DOMAIN Handlers = {400, 401, 402, 403, 404, 409}
  BY DEF Handlers
<1>2. ASSUME NEW e, NEW c \in DOMAIN Handlers, e \in Handlers[c],
             \A d \in DOMAIN Handlers : e \in Handlers[d] => d = c
      PROVE  StatusCode(e) = c
  BY <1>2 DEF StatusCode
<1>3. /\ Handlers[400] = {"EmailAlreadyExists", "InvalidPaginationCursor",
                          "ClaimTokenInvalid"}
      /\ Handlers[401] = {"InvalidCredentials"}
      /\ Handlers[402] = {"InsufficientCredits"}
      /\ Handlers[403] = {"AccountNotActive", "ApiKeyNotOwned", "NotAHost"}
      /\ Handlers[404] = {"UserNotFound", "AuditEventNotFound", "ApiKeyNotFound",
                          "JobNotFound", "JobNotOwned", "NodeNotFound"}
      /\ Handlers[409] = {"InvalidJobTransition", "NodeBusy", "NodeNotDraining"}
  BY DEF Handlers
<1>4. StatusCode("EmailAlreadyExists") = 400
  <2>1. 400 \in DOMAIN Handlers /\ "EmailAlreadyExists" \in Handlers[400]
    BY <1>1, <1>3
  <2>2. \A d \in DOMAIN Handlers : "EmailAlreadyExists" \in Handlers[d] => d = 400
    BY <1>1, <1>3
  <2> QED BY <2>1, <2>2, <1>2
<1>5. StatusCode("InvalidCredentials") = 401
  <2>1. 401 \in DOMAIN Handlers /\ "InvalidCredentials" \in Handlers[401]
    BY <1>1, <1>3
  <2>2. \A d \in DOMAIN Handlers : "InvalidCredentials" \in Handlers[d] => d = 401
    BY <1>1, <1>3
  <2> QED BY <2>1, <2>2, <1>2
<1>6. ASSUME NEW e \in {"AccountNotActive", "ApiKeyNotOwned"}
      PROVE  StatusCode(e) = 403
  <2>1. 403 \in DOMAIN Handlers /\ e \in Handlers[403]
    BY <1>1, <1>3
  <2>2. \A d \in DOMAIN Handlers : e \in Handlers[d] => d = 403
    BY <1>1, <1>3
  <2> QED BY <2>1, <2>2, <1>2
<1>7. ASSUME NEW e \in {"ApiKeyNotFound", "UserNotFound"}
      PROVE  StatusCode(e) = 404
  <2>1. 404 \in DOMAIN Handlers /\ e \in Handlers[404]
    BY <1>1, <1>3
  <2>2. \A d \in DOMAIN Handlers : e \in Handlers[d] => d = 404
    BY <1>1, <1>3
  <2> QED BY <2>1, <2>2, <1>2
<1> QED BY <1>4, <1>5, <1>6, <1>7

\* The account behind a credential that was given exists.
LEMMA BehindExists ==
  ASSUME TypeOK, Rooted, NEW c \in held
  PROVE  /\ c \in Credentials /\ c # NoCredential
         /\ Behind(c) \in Accounts
         /\ c.kind = "key" => c.id \in Drawn
BY DEF TypeOK, Rooted, Behind, Credentials, NoCredential, Accounts, Drawn

\* What committed steps leave as it was.
Grows ==
  /\ held \subseteq held'
  /\ \A u \in Accounts : u \in Accounts' /\ users'[u].status = users[u].status
  /\ \A k \in Drawn :
       /\ k \in Drawn' /\ keys'[k].owner = keys[k].owner
       /\ keys[k].revoked => keys'[k].revoked

\* The account behind a credential stays.
LEMMA SameBehind ==
  ASSUME TypeOK, Rooted, Grows, NEW c \in held
  PROVE  /\ c \in held' /\ Behind(c) \in Accounts
         /\ c.kind = "key" => c.id \in Drawn /\ keys'[c.id].owner = keys[c.id].owner
         /\ Behind(c)' = Behind(c)
<1>1. Behind(c) \in Accounts /\ (c.kind = "key" => c.id \in Drawn)
  BY BehindExists
<1>2. c.kind = "key" => keys'[c.id].owner = keys[c.id].owner
  BY <1>1 DEF Grows
<1> QED BY <1>1, <1>2 DEF Behind, Grows

\* A request that takes no step stays right while the tables grow.
LEMMA Stays ==
  ASSUME TypeOK, Rooted, NEW t \in Sessions, RequestOK(req[t]), Grows, req'[t] = req[t]
  PROVE  RequestOK(req[t])'
<1> DEFINE r == req[t]
<1>1. ActorOK(r) /\ StageOK(r) /\ DeadOK(r) /\ BarredOK(r) /\ SeenOK(r)
  BY DEF RequestOK
<1>2. \A u \in Accounts : u \in Accounts' /\ users'[u].status = users[u].status
  BY DEF Grows
<1>3. \A k \in Drawn :
        /\ k \in Drawn' /\ keys'[k].owner = keys[k].owner
        /\ keys[k].revoked => keys'[k].revoked
  BY DEF Grows
<1>4. ASSUME r.cred # NoCredential
      PROVE  /\ r.cred \in held' /\ Behind(r.cred) \in Accounts
             /\ (IF r.cred.kind = "key" THEN keys'[r.cred.id].owner ELSE r.cred.id)
                   = Behind(r.cred)
             /\ r.cred.kind = "key" => r.cred.id \in Drawn
  BY <1>1, <1>4, SameBehind DEF ActorOK, Behind
<1>5. Behind(r.cred)' = IF r.cred.kind = "key" THEN keys'[r.cred.id].owner ELSE r.cred.id
  BY DEF Behind
<1>6. r' = r
  OBVIOUS
<1> HIDE DEF r
<1>7. ActorOK(r)'
  BY <1>1, <1>4, <1>5, <1>6 DEF ActorOK
<1>8. StageOK(r)'
  BY <1>1, <1>2, <1>3, <1>6 DEF StageOK
<1>9. DeadOK(r)'
  BY <1>1, <1>3, <1>4, <1>6 DEF DeadOK, NoCredential
<1>10. BarredOK(r)'
  BY <1>1, <1>2, <1>4, <1>5, <1>6 DEF BarredOK
<1>11. SeenOK(r)'
  <2>1. r.op \in AdminOps /\ r.pc = "write" => r.arg \in Accounts
    BY <1>1 DEF StageOK
  <2>2. r.op \in AdminOps /\ r.pc = "handle" => r.actor \in Accounts
    BY <1>1, <1>4 DEF ActorOK, AdminOps
  <2> QED BY <1>1, <1>2, <1>6, <2>1, <2>2 DEF SeenOK
<1> QED BY <1>7, <1>8, <1>9, <1>10, <1>11 DEF RequestOK, r

\* A step of one request while the tables stay or grow.
LEMMA OneMoves ==
  ASSUME Inv, NEW s \in Sessions, NEW q \in Requests, req' = [req EXCEPT ![s] = q],
         Grows, RequestOK(req[s])', served' \in 0 .. MaxRequests,
         users' \in [Users -> UserRow \cup {NULL}],
         keys' \in [Keys -> KeyRow \cup {NULL}],
         held' \subseteq Credentials \ {NoCredential},
         decided' \in [Users -> Statuses], blind' \in [Users -> BOOLEAN],
         EmailsUnique', PrefixesUnique', Rooted', DecisionsStick'
  PROVE  Inv'
<1>1. TypeOK'
  BY DEF Inv, TypeOK
<1>2. ASSUME NEW t \in Sessions PROVE RequestOK(req[t])'
  <2>1. CASE t = s
    BY <2>1
  <2>2. CASE t # s
    <3>1. req'[t] = req[t]
      BY <2>2 DEF Inv, TypeOK
    <3> QED BY <3>1, Stays DEF Inv
  <2> QED BY <2>1, <2>2
<1> QED BY <1>1, <1>2 DEF Inv

\* Such a step that leaves the tables alone and keeps what requests rely on.
LEMMA Quiet ==
  ASSUME Inv, NEW s \in Sessions, NEW q \in Requests, req' = [req EXCEPT ![s] = q],
         RequestOK(q), served' \in 0 .. MaxRequests,
         UNCHANGED <<users, keys, held, decided, blind>>
  PROVE  Inv'
<1>1. Grows
  BY DEF Grows, Accounts, Drawn
<1>2. (EmailsUnique /\ PrefixesUnique /\ Rooted /\ DecisionsStick)'
  BY DEF Inv, EmailsUnique, PrefixesUnique, Rooted, DecisionsStick, Accounts, Drawn
<1>3. req'[s] = q
  BY DEF Inv, TypeOK
<1>4. RequestOK(req[s])'
  <2>1. Behind(q.cred)' = Behind(q.cred) /\ Accounts' = Accounts /\ Drawn' = Drawn
    BY DEF Behind, Accounts, Drawn
  <2>2. ActorOK(req[s])' /\ BarredOK(req[s])'
    BY <1>3, <2>1 DEF RequestOK, ActorOK, BarredOK
  <2>3. StageOK(req[s])'
    BY <1>3, <2>1 DEF RequestOK, StageOK
  <2>4. DeadOK(req[s])' /\ SeenOK(req[s])'
    BY <1>3 DEF RequestOK, DeadOK, SeenOK
  <2> QED BY <2>2, <2>3, <2>4 DEF RequestOK
<1> QED BY <1>1, <1>2, <1>4, OneMoves DEF Inv, TypeOK

\* A row has fields, and NULL is no row.
LEMMA RowsAreNotNull == NULL \notin UserRow /\ NULL \notin KeyRow
BY NullIsNoRow

\* A session that serves nothing.
LEMMA IdleIsRequest == Idle \in Requests
BY DEF Idle, Requests, Stages, Subjects, Codes, Ops, NoCredential, Credentials, Statuses

\* The request in session s ends with what remains of r.
Ends(s, r, code) == req' = [req EXCEPT ![s] = Answered(r, code)]

\* An answer is a request at its end, with or without a failure of the database.
LEMMA Closing ==
  ASSUME NEW r \in Requests, NEW code \in Codes,
         NEW q, \/ q = Answered(r, code)
                \/ q = [Answered(r, code) EXCEPT !.broke = TRUE]
  PROVE  /\ q \in Requests
         /\ q.pc = "done" /\ q.cred = NoCredential /\ q.actor = NULL /\ ~q.barred
         /\ q.dead = r.dead /\ q.wrote = r.wrote /\ q.code = code
<1>1. /\ Idle \in Requests /\ Idle.op = "me" /\ Idle.arg = NULL
      /\ Idle.cred = NoCredential /\ Idle.actor = NULL /\ Idle.barred = FALSE
  BY IdleIsRequest DEF Idle
<1>2. /\ r.op \in Ops /\ r.arg \in Subjects /\ r.dead \in BOOLEAN /\ r.wrote \in BOOLEAN
      /\ r.raced \in BOOLEAN
  BY DEF Requests
<1> DEFINE op == IF code < 400 \/ r.op = "login" THEN r.op ELSE Idle.op
           arg == IF code < 400 /\ r.op \notin {"login", "me"} THEN r.arg ELSE Idle.arg
           raced == code < 400 /\ r.raced
           a == [Idle EXCEPT !.pc = "done", !.code = code]
           b == [a EXCEPT !.dead = r.dead, !.wrote = r.wrote, !.raced = raced]
           c == [b EXCEPT !.op = op, !.arg = arg]
<1>3. op \in Ops /\ arg \in Subjects /\ "done" \in Stages /\ raced \in BOOLEAN
  BY <1>1, <1>2 DEF Ops, Subjects, Stages
<1>4. Answered(r, code) = c
  BY DEF Answered
<1> HIDE DEF op, arg, raced
<1>5. /\ a \in Requests /\ a.pc = "done" /\ a.code = code /\ a.cred = NoCredential
      /\ a.actor = NULL /\ a.barred = FALSE
  BY <1>1, <1>3 DEF Requests
<1> HIDE DEF a
<1>6. /\ b \in Requests /\ b.pc = "done" /\ b.code = code /\ b.cred = NoCredential
      /\ b.actor = NULL /\ b.barred = FALSE /\ b.dead = r.dead /\ b.wrote = r.wrote
  BY <1>2, <1>3, <1>5 DEF Requests
<1> HIDE DEF b
<1>7. /\ c \in Requests /\ c.pc = "done" /\ c.code = code /\ c.cred = NoCredential
      /\ c.actor = NULL /\ c.barred = FALSE /\ c.dead = r.dead /\ c.wrote = r.wrote
  BY <1>3, <1>6 DEF Requests
<1> HIDE DEF c
<1>8. CASE q = Answered(r, code)
  BY <1>4, <1>7, <1>8
<1>9. CASE q = [Answered(r, code) EXCEPT !.broke = TRUE]
  BY <1>4, <1>7, <1>9 DEF Requests
<1> QED BY <1>8, <1>9

\* Any request may be answered without a trace, a revoked key's with 401 or 500.
LEMMA AnswerInv ==
  ASSUME Inv, NEW s \in Sessions, NEW code \in Codes,
         UNCHANGED <<users, keys, held, served, decided, blind>>,
         req[s].dead => code \in {401, 500} /\ ~req[s].wrote,
         Answer(s, code) \/ (code = 500 /\ Broken(s))
  PROVE  Inv'
<1>1. req[s] \in Requests
  BY DEF Inv, TypeOK
<1>2. PICK q : /\ req' = [req EXCEPT ![s] = q]
               /\ \/ q = Answered(req[s], code)
                  \/ q = [Answered(req[s], code) EXCEPT !.broke = TRUE]
  BY DEF Answer, Broken, Inv, TypeOK
<1>3. /\ q \in Requests
      /\ q.pc = "done" /\ q.cred = NoCredential /\ q.actor = NULL /\ ~q.barred
      /\ q.dead = req[s].dead /\ q.wrote = req[s].wrote /\ q.code = code
  BY <1>1, <1>2, Closing
<1>4. RequestOK(q)
  BY <1>3 DEF RequestOK, ActorOK, StageOK, DeadOK, BarredOK, SeenOK
<1>5. served' \in 0 .. MaxRequests
  BY DEF Inv, TypeOK
<1> QED BY <1>2, <1>3, <1>4, <1>5, Quiet

\* A request past authentication has no revoked key.
LEMMA Alive ==
  ASSUME Inv, NEW s \in Sessions, req[s].pc \notin {"auth", "done"}
  PROVE  ~req[s].dead
BY DEF Inv, RequestOK, DeadOK

\* A request that goes on with its caller, and where the tables stay.
LEMMA GoesOn ==
  ASSUME Inv, NEW s \in Sessions, NEW q \in Requests, req' = [req EXCEPT ![s] = q],
         UNCHANGED <<users, keys, held, served, decided, blind>>,
         req[s].pc \in {"user", "handle"},
         q.op = req[s].op, q.cred = req[s].cred, q.arg = req[s].arg,
         q.actor = req[s].actor, q.dead = req[s].dead, q.barred = req[s].barred,
         q.wrote = req[s].wrote,
         q.pc \in {"handle", "write"}, req[s].op \notin {"signup", "login"} => q.actor # NULL,
         q.pc = "write" => /\ q.op \in AdminOps \cup {"signup", "generate", "revoke"}
                           /\ q.op = "revoke" => q.arg \in Drawn
                           /\ q.op \in AdminOps => q.arg \in Accounts
                           /\ ~q.barred,
         q.barred => q.seen # "active",
         SeenOK(q)
  PROVE  Inv'
<1> DEFINE r == req[s]
<1>1. ActorOK(r) /\ StageOK(r) /\ BarredOK(r) /\ ~r.dead
  BY Alive DEF Inv, RequestOK
<1> HIDE DEF r
<1>2. ActorOK(q)
  BY <1>1 DEF ActorOK, r
<1>3. StageOK(q)
  BY <1>1 DEF StageOK, r
<1>4. DeadOK(q)
  BY <1>1 DEF DeadOK, r
<1>5. BarredOK(q)
  BY <1>1 DEF BarredOK, r
<1>6. served' \in 0 .. MaxRequests
  BY DEF Inv, TypeOK
<1> QED BY <1>2, <1>3, <1>4, <1>5, <1>6, Quiet DEF RequestOK

-----------------------------------------------------------------------------
(* A request arrives, or is lost *)

\* Whatever a caller asks for, with a credential that was given or none.
LEMMA ArriveInv ==
  ASSUME Inv, NEW s \in Sessions, NEW op \in Ops, NEW cred \in held \cup {NoCredential},
         NEW arg \in Subjects, Arrive(s, op, cred, arg),
         op \in {"signup", "login"} => cred = NoCredential /\ arg \in Emails,
         op = "generate" => cred \in held,
         op = "revoke" => arg \in Keys,
         op \in AdminOps => arg \in Users
  PROVE  Inv'
<1> DEFINE q == [Idle EXCEPT !.pc = IF op \in {"signup", "login"} THEN "handle" ELSE "auth",
                             !.op = op, !.cred = cred, !.arg = arg,
                             !.dead = cred.kind = "key" /\ keys[cred.id].revoked,
                             !.barred = /\ op = "generate"
                                        /\ users[Behind(cred)].status # "active"]
           pc == IF op \in {"signup", "login"} THEN "handle" ELSE "auth"
           dead == cred.kind = "key" /\ keys[cred.id].revoked
           barred == op = "generate" /\ users[Behind(cred)].status # "active"
<1>1. cred \in Credentials /\ pc \in Stages /\ dead \in BOOLEAN /\ barred \in BOOLEAN
  <2>1. cred \in Credentials
    BY DEF Inv, TypeOK, Credentials
  <2>2. cred.kind = "key" => keys[cred.id].revoked \in BOOLEAN
    BY BehindExists DEF Inv, TypeOK, KeyRow, Drawn, NoCredential
  <2> QED BY <2>1, <2>2 DEF Stages
<1>2. q = [Idle EXCEPT !.pc = pc, !.op = op, !.cred = cred, !.arg = arg, !.dead = dead,
                       !.barred = barred]
  OBVIOUS
<1>3. req' = [req EXCEPT ![s] = q]
  BY DEF Arrive
<1>4. /\ Idle \in Requests /\ Idle.actor = NULL /\ Idle.wrote = FALSE
      /\ Idle.seen = "pending"
  BY IdleIsRequest DEF Idle
<1> HIDE DEF q
<1>5. /\ q \in Requests /\ q.pc = pc /\ q.op = op /\ q.cred = cred /\ q.arg = arg
      /\ q.dead = dead /\ q.barred = barred /\ q.actor = NULL /\ q.wrote = FALSE
      /\ q.seen = "pending"
  <2> HIDE DEF pc, dead, barred
  <2> QED BY <1>1, <1>2, <1>4 DEF Requests
<1>6. ActorOK(q)
  BY <1>5 DEF ActorOK
<1>7. StageOK(q)
  BY <1>5 DEF StageOK, AdminOps
<1>8. DeadOK(q)
  <2>1. CASE op \in {"signup", "login"}
    <3>1. cred.kind = "none"
      BY <2>1 DEF NoCredential
    <3> QED BY <1>5, <3>1 DEF DeadOK
  <2>2. CASE op \notin {"signup", "login"}
    <3>1. q.pc = "auth"
      BY <1>5, <2>2
    <3>2. q.dead => cred.kind = "key" /\ keys[cred.id].revoked
      BY <1>5
    <3> QED BY <1>5, <3>1, <3>2 DEF DeadOK
  <2> QED BY <2>1, <2>2
<1>9. BarredOK(q)
  <2>1. cred \in held => cred # NoCredential
    BY DEF Inv, TypeOK
  <2> QED BY <1>5, <2>1 DEF BarredOK
<1>10. SeenOK(q)
  BY <1>5, AccountsAssumption DEF SeenOK, AdminOps
<1>11. served' \in 0 .. MaxRequests
  BY AccountsAssumption DEF Arrive, Inv, TypeOK
<1> QED BY <1>3, <1>5, <1>6, <1>7, <1>8, <1>9, <1>10, <1>11, Quiet DEF RequestOK, Arrive

\* One of what a caller can ask for.
LEMMA RequestInv ==
  ASSUME Inv, NEW s \in Sessions, Request(s)
  PROVE  Inv'
<1>1. CASE \E e \in Emails, op \in {"signup", "login"} : Arrive(s, op, NoCredential, e)
  BY <1>1, ArriveInv DEF Ops, AdminOps, Subjects
<1>2. CASE Arrive(s, "me", NoCredential, NULL)
  BY <1>2, ArriveInv DEF Ops, AdminOps, Subjects
<1>3. ASSUME NEW c \in held, NEW op \in {"me", "generate"}, Arrive(s, op, c, NULL)
      PROVE  Inv'
  BY <1>3, ArriveInv DEF Ops, AdminOps, Subjects
<1>4. ASSUME NEW c \in held, NEW k \in Keys, Arrive(s, "revoke", c, k)
      PROVE  Inv'
  BY <1>4, ArriveInv DEF Ops, AdminOps, Subjects
<1>5. ASSUME NEW c \in held, NEW u \in Users, NEW op \in AdminOps, Arrive(s, op, c, u)
      PROVE  Inv'
  BY <1>5, ArriveInv DEF Ops, AdminOps, Subjects
<1> QED BY <1>1, <1>2, <1>3, <1>4, <1>5 DEF Request

\* A request that is lost has a revoked key only while it was authenticated.
LEMMA AbortInv ==
  ASSUME Inv, NEW s \in Sessions, Abort(s)
  PROVE  Inv'
<1>1. req[s].dead => ~req[s].wrote
  BY DEF Inv, RequestOK, DeadOK, StageOK
<1> QED BY <1>1, AnswerInv DEF Abort, Codes

-----------------------------------------------------------------------------
(* Authentication *)

\* No credential, or a stale one.
LEMMA UnauthenticatedInv ==
  ASSUME Inv, NEW s \in Sessions, Unauthenticated(s)
  PROVE  Inv'
<1>1. ~req[s].wrote
  BY DEF Inv, RequestOK, StageOK, Unauthenticated
<1> QED BY <1>1, AnswerInv DEF Unauthenticated, Codes

\* The caller is known: the account behind the credential.
LEMMA KnownCaller ==
  ASSUME Inv, NEW s \in Sessions, req[s].pc = "auth", ~req[s].dead,
         req[s].cred \in held,
         req' = [req EXCEPT ![s].pc = "user", ![s].actor = Behind(req[s].cred)],
         UNCHANGED <<users, keys, held, served, decided, blind>>
  PROVE  Inv'
<1> DEFINE r == req[s]
           q == [r EXCEPT !.pc = "user", !.actor = Behind(r.cred)]
<1>1. r \in Requests /\ ActorOK(r) /\ StageOK(r) /\ BarredOK(r)
  BY DEF Inv, TypeOK, RequestOK
<1>2. req' = [req EXCEPT ![s] = q]
  BY DEF Inv, TypeOK
<1>3. Behind(r.cred) \in Users /\ r.cred # NoCredential
  BY BehindExists DEF Inv, Accounts
<1> HIDE DEF r
<1>4. /\ q \in Requests /\ q.pc = "user" /\ q.actor = Behind(r.cred) /\ q.op = r.op
      /\ q.cred = r.cred /\ q.arg = r.arg /\ q.dead = r.dead /\ q.barred = r.barred
      /\ q.wrote = r.wrote /\ q.seen = r.seen
  BY <1>1, <1>3 DEF Requests, Stages
<1> HIDE DEF q
<1>5. r.pc = "auth" /\ ~r.dead /\ r.cred \in held
  BY DEF r
<1>6. ActorOK(q)
  BY <1>1, <1>3, <1>4, <1>5, AccountsAssumption DEF ActorOK
<1>7. StageOK(q)
  BY <1>1, <1>4, <1>5 DEF StageOK
<1>8. DeadOK(q) /\ SeenOK(q)
  BY <1>4, <1>5 DEF DeadOK, SeenOK
<1>9. BarredOK(q)
  BY <1>1, <1>4, <1>5 DEF BarredOK
<1>10. served' \in 0 .. MaxRequests
  BY DEF Inv, TypeOK
<1> QED BY <1>2, <1>4, <1>6, <1>7, <1>8, <1>9, <1>10, Quiet DEF RequestOK

\* A JWT is its account's.
LEMMA DecodeTokenInv ==
  ASSUME Inv, NEW s \in Sessions, DecodeToken(s)
  PROVE  Inv'
<1>1. /\ req[s].cred.kind = "jwt" /\ req[s].pc = "auth"
      /\ Behind(req[s].cred) = req[s].cred.id
  BY DEF DecodeToken, Behind
<1>2. req[s].cred \in held /\ ~req[s].dead
  BY <1>1 DEF Inv, RequestOK, ActorOK, DeadOK, NoCredential
<1>3. req' = [req EXCEPT ![s].pc = "user", ![s].actor = Behind(req[s].cred)]
  BY <1>1 DEF DecodeToken
<1> QED BY <1>1, <1>2, <1>3, KnownCaller DEF DecodeToken

\* A key is its owner's, unless it is revoked.
LEMMA LookupKeyInv ==
  ASSUME Inv, NEW s \in Sessions, LookupKey(s)
  PROVE  Inv'
<1> DEFINE k == req[s].cred.id
           alike == {l \in Drawn : Prefix[l] = Prefix[k]}
<1>1. /\ req[s].cred.kind = "key" /\ req[s].pc = "auth" /\ ~req[s].wrote
      /\ Behind(req[s].cred) = keys[k].owner
      /\ UNCHANGED <<users, keys, held, served, decided, blind>>
  BY DEF LookupKey, Behind, Inv, RequestOK, StageOK
<1>2. /\ req[s].cred \in held
      /\ req[s].dead => keys[k].revoked
  BY <1>1 DEF Inv, RequestOK, ActorOK, DeadOK, NoCredential
<1>3. \/ Answer(s, 500)
      \/ Answer(s, 401)
      \/ /\ ~keys[k].revoked
         /\ req' = [req EXCEPT ![s].pc = "user", ![s].actor = keys[k].owner]
  BY DEF LookupKey
<1>4. CASE Answer(s, 500) \/ Answer(s, 401)
  BY <1>1, <1>4, AnswerInv DEF Codes
<1>5. CASE /\ ~keys[k].revoked
           /\ req' = [req EXCEPT ![s].pc = "user", ![s].actor = keys[k].owner]
  BY <1>1, <1>2, <1>5, KnownCaller
<1> QED BY <1>3, <1>4, <1>5

\* The caller's row is read, and its status remembered.
LEMMA LoadUserInv ==
  ASSUME Inv, NEW s \in Sessions, LoadUser(s)
  PROVE  Inv'
<1> DEFINE r == req[s]
           status == users[r.actor].status
           q == [r EXCEPT !.pc = "handle", !.seen = status]
<1>1. /\ r \in Requests /\ ActorOK(r) /\ BarredOK(r) /\ r.pc = "user" /\ ~r.dead
      /\ UNCHANGED <<users, keys, held, served, decided, blind>>
  BY Alive DEF Inv, TypeOK, RequestOK, LoadUser
<1>2. Answer(s, 403) \/ Answer(s, 200) \/ req' = [req EXCEPT ![s] = q]
  BY DEF LoadUser, Inv, TypeOK
<1>3. CASE Answer(s, 403) \/ Answer(s, 200)
  BY <1>1, <1>3, AnswerInv DEF Codes
<1>4. CASE req' = [req EXCEPT ![s] = q]
  <2>1. r.actor \in Accounts /\ r.actor = Behind(r.cred) /\ r.actor # NULL
    BY <1>1, BehindExists DEF ActorOK, Inv
  <2>2. status \in Statuses
    BY <2>1 DEF Inv, TypeOK, Accounts, UserRow
  <2>3. /\ q \in Requests /\ q.pc = "handle" /\ q.seen = status /\ q.op = r.op
        /\ q.cred = r.cred /\ q.arg = r.arg /\ q.actor = r.actor /\ q.dead = r.dead
        /\ q.barred = r.barred /\ q.wrote = r.wrote
    <3> HIDE DEF r, status
    <3> QED BY <1>1, <2>2 DEF Requests, Stages
  <2>4. q.barred => q.seen # "active"
    BY <1>1, <2>1, <2>3 DEF BarredOK
  <2>5. SeenOK(q)
    BY <2>1, <2>3 DEF SeenOK
  <2> HIDE DEF q
  <2> QED BY <1>1, <1>4, <2>1, <2>3, <2>4, <2>5, GoesOn
<1> QED BY <1>2, <1>3, <1>4

-----------------------------------------------------------------------------
(* The reads of the handlers *)

\* A handler that goes on to its commit with what it read.
LEMMA GotoWrite ==
  ASSUME Inv, NEW s \in Sessions, req[s].pc = "handle", Goto(s, "write"),
         UNCHANGED <<users, keys, held, served, decided, blind>>,
         req[s].op \in AdminOps \cup {"signup", "generate", "revoke"},
         req[s].op = "revoke" => req[s].arg \in Drawn,
         req[s].op \in AdminOps => req[s].arg \in Accounts /\ req[s].actor = req[s].arg,
         req[s].op = "generate" => req[s].seen = "active"
  PROVE  Inv'
<1> DEFINE r == req[s]
           q == [r EXCEPT !.pc = "write"]
<1>1. /\ r \in Requests /\ ActorOK(r) /\ BarredOK(r) /\ SeenOK(r) /\ r.pc = "handle"
      /\ req' = [req EXCEPT ![s] = q]
  BY DEF Inv, TypeOK, RequestOK, Goto
<1> HIDE DEF r
<1>2. /\ q \in Requests /\ q.pc = "write" /\ q.seen = r.seen /\ q.op = r.op
      /\ q.cred = r.cred /\ q.arg = r.arg /\ q.actor = r.actor /\ q.dead = r.dead
      /\ q.barred = r.barred /\ q.wrote = r.wrote /\ q.raced = r.raced
  BY <1>1 DEF Requests, Stages
<1>3. SeenOK(q)
  BY <1>1, <1>2 DEF SeenOK, r
<1>4. ~q.barred
  BY <1>1, <1>2 DEF BarredOK, r
<1>5. r.op \notin {"signup", "login"} => q.actor # NULL
  BY <1>1, <1>2 DEF ActorOK
<1> HIDE DEF q
<1> QED BY <1>1, <1>2, <1>3, <1>4, <1>5, GoesOn DEF r

\* The answers of the handlers' reads.
LEMMA RefusalInv ==
  ASSUME Inv, NEW s \in Sessions, req[s].pc \notin {"auth", "done"}, NEW code \in Codes,
         Answer(s, code), UNCHANGED <<users, keys, held, served, decided, blind>>
  PROVE  Inv'
BY Alive, AnswerInv

\* signup finds the address taken, or free.
LEMMA SignupReadInv ==
  ASSUME Inv, NEW s \in Sessions, SignupRead(s)
  PROVE  Inv'
<1>1. CASE Goto(s, "write")
  BY <1>1, GotoWrite DEF SignupRead, AdminOps
<1>2. CASE Raise(s, "EmailAlreadyExists")
  BY <1>2, ErrorCodes, RefusalInv DEF SignupRead, Raise, Codes
<1> QED BY <1>1, <1>2 DEF SignupRead

\* generate is refused, or its caller was active when authenticated.
LEMMA GenerateCheckInv ==
  ASSUME Inv, NEW s \in Sessions, GenerateCheck(s)
  PROVE  Inv'
<1>1. CASE req[s].seen = "active" /\ Goto(s, "write")
  BY <1>1, GotoWrite DEF GenerateCheck, AdminOps
<1>2. CASE Raise(s, "AccountNotActive")
  BY <1>2, ErrorCodes, RefusalInv DEF GenerateCheck, Raise, Codes
<1> QED BY <1>1, <1>2 DEF GenerateCheck

\* revoke finds a key of the caller's, or is answered.
LEMMA RevokeReadInv ==
  ASSUME Inv, NEW s \in Sessions, RevokeRead(s)
  PROVE  Inv'
<1> DEFINE k == req[s].arg
<1>1. \/ Raise(s, "ApiKeyNotFound") \/ Raise(s, "ApiKeyNotOwned")
      \/ Answer(s, 200)
      \/ k \in Drawn /\ Goto(s, "write")
  BY DEF RevokeRead
<1>2. CASE Raise(s, "ApiKeyNotFound") \/ Raise(s, "ApiKeyNotOwned")
  BY <1>2, ErrorCodes, RefusalInv DEF RevokeRead, Raise, Codes
<1>3. CASE Answer(s, 200)
  BY <1>3, RefusalInv DEF RevokeRead, Codes
<1>4. CASE k \in Drawn /\ Goto(s, "write")
  BY <1>4, GotoWrite DEF RevokeRead, AdminOps
<1> QED BY <1>1, <1>2, <1>3, <1>4

\* A decision is about an account, whose row is read unless it is the caller's own.
LEMMA DecisionReadInv ==
  ASSUME Inv, NEW s \in Sessions, DecisionRead(s)
  PROVE  Inv'
<1> DEFINE r == req[s]
           u == r.arg
           q == [r EXCEPT !.pc = "write", !.seen = users[u].status]
<1>1. \/ Raise(s, "UserNotFound")
      \/ u \in Accounts /\ u = r.actor /\ Goto(s, "write")
      \/ u \in Accounts /\ req' = [req EXCEPT ![s] = q]
  BY DEF DecisionRead, Inv, TypeOK
<1>2. CASE Raise(s, "UserNotFound")
  BY <1>2, ErrorCodes, RefusalInv DEF DecisionRead, Raise, Codes
<1>3. CASE u \in Accounts /\ u = r.actor /\ Goto(s, "write")
  BY <1>3, GotoWrite DEF DecisionRead, AdminOps
<1>4. CASE u \in Accounts /\ req' = [req EXCEPT ![s] = q]
  <2>1. /\ r \in Requests /\ ActorOK(r) /\ BarredOK(r) /\ r.op \in AdminOps
        /\ r.pc = "handle" /\ UNCHANGED <<users, keys, held, served, decided, blind>>
    BY DEF Inv, TypeOK, RequestOK, DecisionRead
  <2>2. users[u].status \in Statuses
    BY <1>4 DEF Inv, TypeOK, Accounts, UserRow
  <2>3. /\ q \in Requests /\ q.pc = "write" /\ q.seen = users[u].status /\ q.op = r.op
        /\ q.cred = r.cred /\ q.arg = r.arg /\ q.actor = r.actor /\ q.dead = r.dead
        /\ q.barred = r.barred /\ q.wrote = r.wrote
    <3> HIDE DEF r
    <3> QED BY <2>1, <2>2 DEF Requests, Stages
  <2>4. ~q.barred /\ q.actor # NULL
    BY <2>1, <2>3 DEF BarredOK, ActorOK, AdminOps
  <2>5. SeenOK(q)
    BY <2>3 DEF SeenOK
  <2> HIDE DEF q
  <2> QED BY <1>4, <2>1, <2>3, <2>4, <2>5, GoesOn DEF AdminOps
<1> QED BY <1>1, <1>2, <1>3, <1>4

-----------------------------------------------------------------------------
(* The commits of signup and of the keys, and the answers after them *)

\* A commit that adds rows or revokes keys.
LEMMA Commits ==
  ASSUME Inv, NEW s \in Sessions, NEW q \in Requests, req' = [req EXCEPT ![s] = q],
         req[s].pc = "write", q.pc = "answer", q.op = req[s].op, q.cred = req[s].cred,
         q.actor = req[s].actor, q.dead = req[s].dead, q.barred = req[s].barred,
         q.op # "generate" => q.arg = req[s].arg,
         q.op = "generate" => q.arg \in Drawn',
         Grows, UNCHANGED <<held, served>>,
         users' \in [Users -> UserRow \cup {NULL}],
         keys' \in [Keys -> KeyRow \cup {NULL}],
         decided' \in [Users -> Statuses], blind' \in [Users -> BOOLEAN],
         EmailsUnique', PrefixesUnique', Rooted', DecisionsStick'
  PROVE  Inv'
<1> DEFINE r == req[s]
<1>1. ActorOK(r) /\ StageOK(r) /\ BarredOK(r) /\ ~r.dead
  BY Alive DEF Inv, RequestOK
<1>2. req'[s] = q
  BY DEF Inv, TypeOK
<1>3. q.cred # NoCredential => q.cred \in held' /\ Behind(q.cred)' = Behind(q.cred)
  BY <1>1, SameBehind DEF ActorOK, Inv, Behind
<1>4. ActorOK(req[s])'
  BY <1>1, <1>2, <1>3 DEF ActorOK, Behind
<1>5. StageOK(req[s])'
  BY <1>1, <1>2 DEF StageOK, AdminOps
<1>6. (DeadOK(req[s]) /\ BarredOK(req[s]) /\ SeenOK(req[s]))'
  BY <1>1, <1>2 DEF DeadOK, BarredOK, SeenOK
<1>7. RequestOK(req[s])'
  BY <1>4, <1>5, <1>6 DEF RequestOK
<1> QED BY <1>7, OneMoves DEF Inv, TypeOK

\* The new request after a commit.
LEMMA Written ==
  ASSUME NEW r \in Requests, NEW arg \in Subjects
  PROVE  LET q == [r EXCEPT !.pc = "answer", !.arg = arg, !.wrote = TRUE]
         IN  /\ q \in Requests /\ q.pc = "answer" /\ q.op = r.op /\ q.cred = r.cred
             /\ q.actor = r.actor /\ q.dead = r.dead /\ q.barred = r.barred
             /\ q.arg = arg
BY DEF Requests, Stages

\* The same, for a commit that makes nothing new.
LEMMA WrittenSame ==
  ASSUME NEW r \in Requests
  PROVE  LET q == [r EXCEPT !.pc = "answer", !.wrote = TRUE]
         IN  /\ q \in Requests /\ q.pc = "answer" /\ q.op = r.op /\ q.cred = r.cred
             /\ q.actor = r.actor /\ q.dead = r.dead /\ q.barred = r.barred
             /\ q.arg = r.arg
BY DEF Requests, Stages

\* A new account has an address no other has; the second insertion fails.
LEMMA SignupCommitInv ==
  ASSUME Inv, NEW s \in Sessions, SignupCommit(s)
  PROVE  Inv'
<1> DEFINE r == req[s]
           q == [r EXCEPT !.pc = "answer", !.wrote = TRUE]
<1>1. /\ r \in Requests /\ r.pc = "write" /\ r.op = "signup" /\ StageOK(r) /\ ~r.dead
      /\ UNCHANGED <<keys, held, served, blind>>
  BY Alive DEF Inv, TypeOK, RequestOK, SignupCommit
<1>2. PICK u \in Users \ Accounts :
        \/ Broken(s) /\ UNCHANGED <<users, decided>>
        \/ /\ ~ \E v \in Accounts : users[v].email = r.arg
           /\ users' = [users EXCEPT ![u] =
                [email |-> r.arg, status |-> "pending", admin |-> FALSE]]
           /\ decided' = [decided EXCEPT ![u] = "pending"]
           /\ req' = [req EXCEPT ![s] = q]
  BY DEF SignupCommit, Inv, TypeOK
<1>3. CASE Broken(s) /\ UNCHANGED <<users, decided>>
  BY <1>1, <1>3, AnswerInv DEF Codes
<1>4. CASE /\ ~ \E v \in Accounts : users[v].email = r.arg
           /\ users' = [users EXCEPT ![u] =
                [email |-> r.arg, status |-> "pending", admin |-> FALSE]]
           /\ decided' = [decided EXCEPT ![u] = "pending"]
           /\ req' = [req EXCEPT ![s] = q]
  <2> DEFINE row == [email |-> r.arg, status |-> "pending", admin |-> FALSE]
  <2>1. r.arg \in Emails
    BY <1>1 DEF StageOK
  <2>2. row \in UserRow /\ row # NULL
    <3>1. row \in UserRow
      BY <2>1 DEF UserRow, Statuses
    <3> QED BY <3>1, RowsAreNotNull
  <2>3. /\ users' \in [Users -> UserRow \cup {NULL}]
        /\ decided' \in [Users -> Statuses]
    BY <1>4, <2>2 DEF Inv, TypeOK, Statuses
  <2>4. /\ Accounts' = Accounts \cup {u}
        /\ users'[u] = row /\ decided'[u] = "pending"
        /\ \A v \in Accounts : users'[v] = users[v] /\ decided'[v] = decided[v] /\ v # u
    <3>1. users' = [users EXCEPT ![u] = row]
      BY <1>4
    <3> HIDE DEF row
    <3> QED BY <1>4, <2>2, <3>1 DEF Inv, TypeOK, Accounts
  <2>5. Grows
    BY <1>1, <2>4 DEF Grows, Drawn
  <2>6. EmailsUnique'
    BY <1>4, <2>4 DEF EmailsUnique, Inv
  <2>7. (PrefixesUnique /\ Rooted)'
    BY <1>1, <2>4 DEF PrefixesUnique, Rooted, Drawn, Inv
  <2>8. DecisionsStick'
    BY <1>1, <2>4 DEF DecisionsStick, Inv
  <2>9. /\ q \in Requests /\ q.pc = "answer" /\ q.op = r.op /\ q.cred = r.cred
        /\ q.actor = r.actor /\ q.dead = r.dead /\ q.barred = r.barred /\ q.arg = r.arg
    BY <1>1, WrittenSame
  <2>10. keys' \in [Keys -> KeyRow \cup {NULL}] /\ blind' \in [Users -> BOOLEAN]
    BY <1>1 DEF Inv, TypeOK
  <2> HIDE DEF q
  <2> QED BY <1>1, <1>4, <2>3, <2>5, <2>6, <2>7, <2>8, <2>9, <2>10, Commits
<1> QED BY <1>2, <1>3, <1>4

\* A new key has a prefix no row has, be it revoked; otherwise the insertion fails.
LEMMA GenerateCommitInv ==
  ASSUME Inv, NEW s \in Sessions, GenerateCommit(s)
  PROVE  Inv'
<1> DEFINE r == req[s]
<1>1. /\ r \in Requests /\ r.pc = "write" /\ r.op = "generate" /\ ActorOK(r) /\ ~r.dead
      /\ UNCHANGED <<users, held, served, decided, blind>>
  BY Alive DEF Inv, TypeOK, RequestOK, GenerateCommit
<1>2. PICK k \in Keys \ Drawn :
        \/ Broken(s) /\ UNCHANGED keys
        \/ /\ ~ \E l \in Drawn : Prefix[l] = Prefix[k]
           /\ keys' = [keys EXCEPT ![k] = [owner |-> r.actor, revoked |-> FALSE]]
           /\ req' = [req EXCEPT ![s] =
                [r EXCEPT !.pc = "answer", !.arg = k, !.wrote = TRUE]]
  BY DEF GenerateCommit, Inv, TypeOK
<1> DEFINE q == [r EXCEPT !.pc = "answer", !.arg = k, !.wrote = TRUE]
<1>3. CASE Broken(s) /\ UNCHANGED keys
  BY <1>1, <1>3, AnswerInv DEF Codes
<1>4. CASE /\ ~ \E l \in Drawn : Prefix[l] = Prefix[k]
           /\ keys' = [keys EXCEPT ![k] = [owner |-> r.actor, revoked |-> FALSE]]
           /\ req' = [req EXCEPT ![s] = q]
  <2> DEFINE row == [owner |-> r.actor, revoked |-> FALSE]
  <2>1. r.actor \in Accounts
    BY <1>1, BehindExists DEF ActorOK, AdminOps, Inv
  <2>2. row \in KeyRow /\ row # NULL
    <3>1. row \in KeyRow
      BY <2>1 DEF KeyRow, Accounts
    <3> QED BY <3>1, RowsAreNotNull
  <2>3. keys' \in [Keys -> KeyRow \cup {NULL}]
    BY <1>4, <2>2 DEF Inv, TypeOK
  <2>4. /\ Drawn' = Drawn \cup {k} /\ keys'[k] = row
        /\ \A l \in Drawn : keys'[l] = keys[l] /\ l # k
    <3>1. keys' = [keys EXCEPT ![k] = row]
      BY <1>4
    <3> HIDE DEF row
    <3> QED BY <2>2, <3>1 DEF Inv, TypeOK, Drawn
  <2>5. Accounts' = Accounts
    BY <1>1 DEF Accounts
  <2>6. Grows
    BY <1>1, <2>4, <2>5 DEF Grows
  <2>7. PrefixesUnique'
    BY <1>4, <2>4 DEF PrefixesUnique, Inv
  <2>8. Rooted'
    BY <1>1, <2>1, <2>4, <2>5 DEF Rooted, Inv
  <2>9. (EmailsUnique /\ DecisionsStick)'
    BY <1>1, <2>5 DEF EmailsUnique, DecisionsStick, Inv
  <2>10. /\ q \in Requests /\ q.pc = "answer" /\ q.op = r.op /\ q.cred = r.cred
         /\ q.actor = r.actor /\ q.dead = r.dead /\ q.barred = r.barred /\ q.arg = k
    <3>1. k \in Subjects
      BY DEF Subjects
    <3> HIDE DEF r
    <3> QED BY <1>1, <3>1, Written
  <2>11. /\ users' \in [Users -> UserRow \cup {NULL}]
         /\ decided' \in [Users -> Statuses] /\ blind' \in [Users -> BOOLEAN]
    BY <1>1 DEF Inv, TypeOK
  <2> HIDE DEF q, row
  <2> QED BY <1>1, <1>4, <2>3, <2>4, <2>6, <2>7, <2>8, <2>9, <2>10, <2>11, Commits
<1> QED BY <1>2, <1>3, <1>4

\* A revoked key stays revoked, and its row.
LEMMA RevokeCommitInv ==
  ASSUME Inv, NEW s \in Sessions, RevokeCommit(s)
  PROVE  Inv'
<1> DEFINE r == req[s]
           k == r.arg
           q == [r EXCEPT !.pc = "answer", !.wrote = TRUE]
<1>1. /\ r \in Requests /\ r.pc = "write" /\ r.op = "revoke" /\ StageOK(r)
      /\ UNCHANGED <<users, held, served, decided, blind>>
      /\ req' = [req EXCEPT ![s] = q]
      /\ keys' = [keys EXCEPT ![k].revoked = TRUE]
  BY DEF Inv, TypeOK, RequestOK, RevokeCommit
<1>2. k \in Drawn /\ keys[k] \in KeyRow
  BY <1>1 DEF StageOK, Inv, TypeOK, Drawn
<1> DEFINE row == [keys[k] EXCEPT !.revoked = TRUE]
<1>3. row \in KeyRow /\ row.owner = keys[k].owner /\ row.revoked = TRUE /\ row # NULL
  <2>1. row \in KeyRow /\ row.owner = keys[k].owner /\ row.revoked = TRUE
    BY <1>2 DEF KeyRow
  <2> QED BY <2>1, RowsAreNotNull
<1>4. keys' = [keys EXCEPT ![k] = row]
  BY <1>1 DEF Inv, TypeOK
<1> HIDE DEF row
<1>5. /\ keys' \in [Keys -> KeyRow \cup {NULL}]
      /\ Drawn' = Drawn /\ keys'[k] = row
      /\ \A l \in Keys : l # k => keys'[l] = keys[l]
  BY <1>2, <1>3, <1>4 DEF Inv, TypeOK, Drawn
<1>6. \A l \in Drawn : /\ l \in Keys /\ keys'[l].owner = keys[l].owner
                      /\ (keys[l].revoked => keys'[l].revoked)
  BY <1>3, <1>5 DEF Drawn
<1>7. Accounts' = Accounts
  BY <1>1 DEF Accounts
<1>8. Grows
  BY <1>1, <1>5, <1>6, <1>7 DEF Grows
<1>9. (PrefixesUnique /\ Rooted)'
  BY <1>1, <1>5, <1>6, <1>7 DEF PrefixesUnique, Rooted, Inv
<1>10. (EmailsUnique /\ DecisionsStick)'
  BY <1>1, <1>7 DEF EmailsUnique, DecisionsStick, Inv
<1>11. /\ q \in Requests /\ q.pc = "answer" /\ q.op = r.op /\ q.cred = r.cred
       /\ q.actor = r.actor /\ q.dead = r.dead /\ q.barred = r.barred /\ q.arg = r.arg
  BY <1>1, WrittenSame
<1>12. /\ users' \in [Users -> UserRow \cup {NULL}]
       /\ decided' \in [Users -> Statuses] /\ blind' \in [Users -> BOOLEAN]
  BY <1>1 DEF Inv, TypeOK
<1> HIDE DEF q
<1> QED BY <1>1, <1>5, <1>8, <1>9, <1>10, <1>11, <1>12, Commits

\* Callers keep their credentials, and are given some for what exists.
Granted ==
  /\ held \subseteq held' /\ held' \subseteq Credentials \ {NoCredential}
  /\ \A c \in held' \ held : IF c.kind = "key" THEN c.id \in Drawn ELSE c.id \in Accounts

\* An answer that gives a credential for what exists, or none.
LEMMA Gives ==
  ASSUME Inv, NEW s \in Sessions, NEW code \in Codes, NEW r \in Requests, ~r.dead,
         Ends(s, r, code),
         Granted, UNCHANGED <<users, keys, served, decided, blind>>
  PROVE  Inv'
<1> DEFINE q == Answered(r, code)
<1>1. /\ q \in Requests
      /\ q.pc = "done" /\ q.cred = NoCredential /\ q.actor = NULL /\ ~q.barred
      /\ q.dead = r.dead
  BY Closing
<1>2. req' = [req EXCEPT ![s] = q]
  BY DEF Ends
<1> HIDE DEF q
<1>3. req'[s] = q
  BY <1>2 DEF Inv, TypeOK
<1>4. RequestOK(req[s])'
  BY <1>1, <1>3 DEF RequestOK, ActorOK, StageOK, DeadOK, BarredOK, SeenOK
<1>5. Grows
  BY DEF Grows, Granted, Accounts, Drawn
<1>6. (EmailsUnique /\ PrefixesUnique /\ DecisionsStick)'
  BY DEF Inv, EmailsUnique, PrefixesUnique, DecisionsStick, Accounts, Drawn
<1>7. Rooted' /\ held' \subseteq Credentials \ {NoCredential}
  BY DEF Inv, Rooted, Granted, Accounts, Drawn
<1>8. served' \in 0 .. MaxRequests
  BY DEF Inv, TypeOK
<1>9. /\ users' \in [Users -> UserRow \cup {NULL}] /\ keys' \in [Keys -> KeyRow \cup {NULL}]
      /\ decided' \in [Users -> Statuses] /\ blind' \in [Users -> BOOLEAN]
  BY DEF Inv, TypeOK
<1> QED BY <1>1, <1>2, <1>4, <1>5, <1>6, <1>7, <1>8, <1>9, OneMoves

\* An answer with an audit event is one of a request that wrote.
LEMMA Audited ==
  ASSUME Inv, NEW s \in Sessions, NEW code, AnswerAudited(s, code)
  PROVE  LET r == [req[s] EXCEPT !.wrote = TRUE]
         IN  /\ r \in Requests /\ r.wrote = TRUE /\ r.op = req[s].op
             /\ r.dead = req[s].dead
             /\ Ends(s, r, code)
<1>1. req[s] \in Requests
  BY DEF Inv, TypeOK
<1>2. Ends(s, [req[s] EXCEPT !.wrote = TRUE], code)
  BY DEF AnswerAudited, Ends, Inv, TypeOK
<1> QED BY <1>1, <1>2 DEF Requests

\* A login is refused, or gives its account's JWT.
LEMMA LoginInv ==
  ASSUME Inv, NEW s \in Sessions, Login(s)
  PROVE  Inv'
<1> DEFINE r == [req[s] EXCEPT !.wrote = TRUE]
<1>1. UNCHANGED <<users, keys, served, decided, blind>> /\ ~req[s].dead
  BY Alive DEF Login
<1>2. held \subseteq Credentials \ {NoCredential}
  BY DEF Inv, TypeOK
<1>3. PICK code \in {200, 401} : AnswerAudited(s, code) /\ Granted
  <2>1. CASE AnswerAudited(s, StatusCode("InvalidCredentials")) /\ UNCHANGED held
    <3>1. AnswerAudited(s, 401) /\ held' = held
      BY <2>1, ErrorCodes
    <3> QED BY <1>2, <3>1 DEF Granted
  <2>2. ASSUME NEW u \in Accounts, held' = held \cup {[kind |-> "jwt", id |-> u]},
               AnswerAudited(s, 200)
        PROVE  Granted
    <3> DEFINE c == [kind |-> "jwt", id |-> u]
    <3>1. c \in Credentials \ {NoCredential} /\ c.kind = "jwt" /\ c.id = u
      BY DEF Credentials, NoCredential, Accounts
    <3>2. held' = held \cup {c}
      BY <2>2
    <3> HIDE DEF c
    <3> QED BY <1>2, <3>1, <3>2 DEF Granted
  <2> QED BY <2>1, <2>2 DEF Login
<1>4. r \in Requests /\ ~r.dead /\ Ends(s, r, code)
  BY <1>1, <1>3, Audited
<1>5. code \in Codes
  BY DEF Codes
<1> HIDE DEF r
<1> QED BY <1>1, <1>3, <1>4, <1>5, Gives

\* The answer to a commit gives the key that was made.
LEMMA RefreshInv ==
  ASSUME Inv, NEW s \in Sessions, Refresh(s)
  PROVE  Inv'
<1>1. /\ req[s].pc = "answer" /\ StageOK(req[s])
      /\ UNCHANGED <<users, keys, served, decided, blind>>
  BY DEF Refresh, Inv, RequestOK
<1>2. PICK code \in {200, 201} : Answer(s, code)
  BY DEF Refresh
<1>3. CASE req[s].op = "generate"
  <2> DEFINE c == [kind |-> "key", id |-> req[s].arg]
  <2>1. req[s].arg \in Drawn
    BY <1>1, <1>3 DEF StageOK
  <2>2. c \in Credentials \ {NoCredential} /\ c.kind = "key" /\ c.id \in Drawn
    BY <2>1 DEF Credentials, NoCredential, Drawn
  <2>3. held' = held \cup {c}
    BY <1>3 DEF Refresh
  <2> HIDE DEF c
  <2>4. req[s] \in Requests /\ ~req[s].dead /\ Ends(s, req[s], code)
    BY <1>1, <1>2, Alive DEF Answer, Ends, Inv, TypeOK
  <2>5. Granted
    BY <2>2, <2>3 DEF Granted, Inv, TypeOK
  <2>6. code \in Codes
    BY DEF Codes
  <2> QED BY <1>1, <2>4, <2>5, <2>6, Gives
<1>4. CASE req[s].op # "generate"
  BY <1>1, <1>2, <1>4, RefusalInv DEF Refresh, Codes
<1> QED BY <1>3, <1>4

-----------------------------------------------------------------------------
(* The decisions *)

\* What a decision leaves as it was, and what it makes of the account's status.
Decides(u, status) ==
  /\ UNCHANGED <<keys, held>>
  /\ users' \in [Users -> UserRow \cup {NULL}]
  /\ Accounts' = Accounts
  /\ \A v \in Accounts : users'[v].email = users[v].email
  /\ \A v \in Accounts \ {u} : users'[v].status = users[v].status
  /\ users'[u].status \in {status, users[u].status}
  /\ blind'[u] \/ users'[u].status = status
  /\ decided' = [decided EXCEPT ![u] = status]
  /\ blind' \in [Users -> BOOLEAN]
  /\ \A v \in Users \ {u} : blind'[v] = blind[v]

\* A request that notices a decision, and the one that takes it.
LEMMA Notices ==
  ASSUME TypeOK, Rooted, NEW u \in Accounts, NEW status \in Statuses, Decides(u, status),
         NEW t \in Sessions, RequestOK(req[t]), NEW q \in Requests, req'[t] = q,
         q.op = req[t].op, q.cred = req[t].cred, q.arg = req[t].arg, q.code = req[t].code,
         q.actor = req[t].actor, q.seen = req[t].seen, q.dead = req[t].dead,
         HasRow(t, u) => q.raced \/ (q.pc = "answer" /\ req[t].pc = "write"),
         req[t].raced => q.raced,
         q.barred => req[t].barred /\ (status # "active" \/ Behind(req[t].cred) # u),
         \/ q.pc = req[t].pc /\ q.wrote = req[t].wrote
         \/ req[t].op \in AdminOps /\ req[t].pc = "write" /\ q.pc = "answer"
  PROVE  RequestOK(req[t])'
<1> DEFINE r == req[t]
<1>1. ActorOK(r) /\ StageOK(r) /\ DeadOK(r) /\ BarredOK(r) /\ SeenOK(r)
  BY DEF RequestOK
<1>2. /\ UNCHANGED <<keys, held>> /\ Accounts' = Accounts /\ Drawn' = Drawn
      /\ \A v \in Accounts \ {u} : users'[v].status = users[v].status
      /\ users'[u].status \in {status, users[u].status}
  BY DEF Decides, Drawn
<1>3. r.cred # NoCredential => Behind(r.cred) \in Accounts
  BY <1>1, BehindExists DEF ActorOK
<1>4. Behind(r.cred)' = IF q.cred.kind = "key" THEN keys[q.cred.id].owner ELSE q.cred.id
  BY <1>2 DEF Behind
<1>5. ActorOK(req[t])'
  BY <1>1, <1>2 DEF ActorOK, Behind, AdminOps
<1>6. StageOK(req[t])'
  BY <1>1, <1>2 DEF StageOK, AdminOps
<1>7. DeadOK(req[t])'
  BY <1>1, <1>2 DEF DeadOK
<1>8. BarredOK(req[t])'
  <2>1. ASSUME q.barred
        PROVE  /\ q.cred # NoCredential /\ users'[Behind(r.cred)].status # "active"
               /\ q.op = "generate" /\ q.seen # "active"
               /\ q.pc \notin {"write", "answer", "done"}
    BY <1>1, <1>2, <1>3, <2>1 DEF BarredOK, AdminOps
  <2>2. Behind(q.cred)' = Behind(r.cred)
    BY <1>2 DEF Behind
  <2> QED BY <2>1, <2>2 DEF BarredOK, Behind
<1>9. SeenOK(req[t])'
  <2>1. ASSUME q.op \in AdminOps, ~q.raced,
               q.pc = "write" \/ (q.pc = "handle" /\ q.actor = q.arg)
        PROVE  q.seen = users'[q.arg].status
    <3>1. r.op \in AdminOps /\ ~r.raced
            /\ (r.pc = "write" \/ (r.pc = "handle" /\ r.actor = r.arg))
      BY <2>1
    <3>2. r.seen = users[r.arg].status
      BY <1>1, <3>1 DEF SeenOK
    <3>3. r.arg # u
      BY <2>1, <3>1 DEF HasRow
    <3>4. r.arg \in Accounts
      BY <1>1, <1>3, <3>1 DEF StageOK, ActorOK, AdminOps
    <3> QED BY <1>2, <3>2, <3>3, <3>4
  <2> QED BY <2>1 DEF SeenOK
<1> QED BY <1>5, <1>6, <1>7, <1>8, <1>9 DEF RequestOK

\* The tables after a decision.
LEMMA Decided ==
  ASSUME Inv, NEW u \in Accounts, NEW status \in Statuses, Decides(u, status),
         req' \in [Sessions -> Requests], \A t \in Sessions : RequestOK(req[t])',
         served' \in 0 .. MaxRequests
  PROVE  Inv'
<1>1. TypeOK'
  BY DEF Inv, TypeOK, Decides
<1>2. (EmailsUnique /\ PrefixesUnique /\ Rooted)'
  BY DEF Inv, EmailsUnique, PrefixesUnique, Rooted, Drawn, Decides
<1>3. DecisionsStick'
  <2>1. ASSUME NEW v \in Accounts, ~blind'[v] PROVE users'[v].status = decided'[v]
    <3>1. v \in Users /\ u \in Users
      BY DEF Accounts
    <3>2. CASE v = u
      BY <2>1, <3>1, <3>2 DEF Decides, Inv, TypeOK
    <3>3. CASE v # u
      BY <2>1, <3>1, <3>3 DEF Decides, Inv, TypeOK, DecisionsStick
    <3> QED BY <3>2, <3>3
  <2> QED BY <2>1 DEF DecisionsStick, Decides
<1> QED BY <1>1, <1>2, <1>3 DEF Inv

\* The request of session t once it has noticed a decision.
LEMMA NoticedRequest ==
  ASSUME Inv, NEW u \in Users, NEW status \in Statuses, NEW t \in Sessions
  PROVE  LET q == Noticed(u, status)[t]
             r == req[t]
         IN  /\ q \in Requests
             /\ q.op = r.op /\ q.cred = r.cred /\ q.arg = r.arg /\ q.code = r.code
             /\ q.actor = r.actor /\ q.seen = r.seen /\ q.dead = r.dead
             /\ q.pc = r.pc /\ q.wrote = r.wrote
             /\ HasRow(t, u) => q.raced
             /\ r.raced => q.raced
             /\ q.barred => r.barred /\ (status # "active" \/ Behind(r.cred) # u)
<1> DEFINE r == req[t]
           raced == r.raced \/ HasRow(t, u)
           barred == r.barred /\ (status # "active" \/ Behind(r.cred) # u)
<1>1. r \in Requests
  BY DEF Inv, TypeOK
<1>2. Noticed(u, status)[t] = [r EXCEPT !.raced = raced, !.barred = barred]
  BY DEF Noticed
<1>3. raced \in BOOLEAN /\ barred \in BOOLEAN
  BY <1>1 DEF Requests
<1>4. LET q == [r EXCEPT !.raced = raced, !.barred = barred]
      IN  /\ q \in Requests
          /\ q.op = r.op /\ q.cred = r.cred /\ q.arg = r.arg /\ q.code = r.code
          /\ q.actor = r.actor /\ q.seen = r.seen /\ q.dead = r.dead
          /\ q.pc = r.pc /\ q.wrote = r.wrote
          /\ q.raced = raced /\ q.barred = barred
  <2> HIDE DEF r, raced, barred
  <2> QED BY <1>1, <1>3 DEF Requests
<1> QED BY <1>2, <1>4

\* approve and suspend: the status is the decision's, or the one that was there when
\* another decision came between.
LEMMA DecideEffect ==
  ASSUME Inv, NEW s \in Sessions, NEW op \in AdminOps, NEW status \in Statuses,
         Decide(s, op, status), NEW u, u = req[s].arg
  PROVE  /\ u \in Accounts /\ u \in Users /\ Decides(u, status)
         /\ blind'[u] = req[s].raced
         /\ req[s].pc = "write" /\ req[s].op = op /\ UNCHANGED served
         /\ req' = [Noticed(u, status) EXCEPT ![s] = [req[s] EXCEPT !.pc = "answer",
                                                                   !.wrote = TRUE]]
<1> DEFINE r == req[s]
           new == IF r.seen = status THEN users[u].status ELSE status
           row == [users[u] EXCEPT !.status = new]
<1>0. u \in Accounts
  BY DEF Inv, RequestOK, StageOK, Decide
<1>1. /\ r \in Requests /\ r.pc = "write" /\ r.op = op /\ r.arg = u /\ SeenOK(r)
      /\ UNCHANGED <<keys, held, served>>
      /\ users' = [users EXCEPT ![u] = row]
      /\ decided' = [decided EXCEPT ![u] = status]
      /\ blind' = [blind EXCEPT ![u] = r.raced]
      /\ req' = [Noticed(u, status) EXCEPT ![s] = [req[s] EXCEPT !.pc = "answer",
                                                                !.wrote = TRUE]]
  BY DEF Inv, TypeOK, RequestOK, Decide
<1>2. users[u] \in UserRow /\ u \in Users /\ r.raced \in BOOLEAN
  BY <1>0, <1>1 DEF Inv, TypeOK, Accounts, Requests
<1>3. new \in Statuses /\ new \in {status, users[u].status}
  BY <1>2 DEF UserRow
<1>4. r.raced \/ new = status
  BY <1>1 DEF SeenOK
<1>5. Decides(u, status) /\ blind'[u] = r.raced
  <2> HIDE DEF new
  <2>1. row \in UserRow /\ row.email = users[u].email /\ row.status = new /\ row # NULL
    <3>1. row \in UserRow /\ row.email = users[u].email /\ row.status = new
      BY <1>2, <1>3 DEF UserRow
    <3> QED BY <3>1, RowsAreNotNull
  <2> HIDE DEF row
  <2>2. /\ users' \in [Users -> UserRow \cup {NULL}] /\ users'[u] = row
        /\ \A v \in Users : v # u => users'[v] = users[v]
    BY <1>1, <1>2, <2>1 DEF Inv, TypeOK
  <2>3. Accounts' = Accounts
    BY <1>0, <1>1, <2>1, <2>2 DEF Accounts
  <2>4. /\ blind' \in [Users -> BOOLEAN] /\ blind'[u] = r.raced
        /\ \A v \in Users \ {u} : blind'[v] = blind[v]
    BY <1>1, <1>2 DEF Inv, TypeOK
  <2>5. /\ \A v \in Accounts : users'[v].email = users[v].email
        /\ \A v \in Accounts \ {u} : users'[v].status = users[v].status
    BY <2>1, <2>2 DEF Accounts
  <2> QED BY <1>1, <1>3, <1>4, <2>1, <2>2, <2>3, <2>4, <2>5 DEF Decides
<1> QED BY <1>0, <1>1, <1>2, <1>5

\* They keep the invariant.
LEMMA DecideInv ==
  ASSUME Inv, NEW s \in Sessions, NEW op \in AdminOps, NEW status \in Statuses,
         Decide(s, op, status)
  PROVE  Inv'
<1> DEFINE r == req[s]
           q == [r EXCEPT !.pc = "answer", !.wrote = TRUE]
<1>0. PICK u : u = r.arg
  OBVIOUS
<1> DEFINE N == Noticed(u, status)
<1>1. /\ u \in Accounts /\ u \in Users /\ Decides(u, status) /\ r.pc = "write" /\ r.op = op
      /\ UNCHANGED served
      /\ req' = [N EXCEPT ![s] = q]
  BY <1>0, DecideEffect
<1>2. TypeOK /\ Rooted /\ r \in Requests /\ \A t \in Sessions : RequestOK(req[t])
  BY DEF Inv, TypeOK
<1>3. N \in [Sessions -> Requests]
  <2>1. \A t \in Sessions : N[t] \in Requests
    BY <1>1, NoticedRequest
  <2> QED BY <2>1 DEF Noticed
<1>4. ASSUME NEW t \in Sessions, t # s
      PROVE  req'[t] \in Requests /\ RequestOK(req[t])'
  <2>1. req'[t] = N[t]
    BY <1>1, <1>3, <1>4
  <2>2. /\ N[t] \in Requests
        /\ N[t].op = req[t].op /\ N[t].cred = req[t].cred /\ N[t].arg = req[t].arg
        /\ N[t].code = req[t].code /\ N[t].actor = req[t].actor
        /\ N[t].seen = req[t].seen /\ N[t].dead = req[t].dead
        /\ N[t].pc = req[t].pc /\ N[t].wrote = req[t].wrote
        /\ HasRow(t, u) => N[t].raced
        /\ req[t].raced => N[t].raced
        /\ N[t].barred => req[t].barred
                            /\ (status # "active" \/ Behind(req[t].cred) # u)
    BY <1>1, NoticedRequest
  <2> HIDE DEF N, q
  <2> QED BY <1>1, <1>2, <2>1, <2>2, Notices
<1>5. req'[s] \in Requests /\ RequestOK(req[s])'
  <2>1. req'[s] = q
    BY <1>1, <1>3
  <2>2. ~r.barred
    BY <1>1, <1>2 DEF RequestOK, BarredOK, AdminOps
  <2>3. /\ q \in Requests /\ q.pc = "answer"
        /\ q.op = r.op /\ q.cred = r.cred /\ q.arg = r.arg
        /\ q.code = r.code /\ q.actor = r.actor /\ q.seen = r.seen
        /\ q.dead = r.dead /\ q.raced = r.raced /\ q.barred = r.barred
    <3> HIDE DEF r
    <3> QED BY <1>2 DEF Requests, Stages
  <2> HIDE DEF q, N
  <2> QED BY <1>1, <1>2, <2>1, <2>2, <2>3, Notices
<1>6. req' \in [Sessions -> Requests]
  <2>1. \A t \in Sessions : req'[t] \in Requests
    BY <1>4, <1>5
  <2>2. DOMAIN req' = Sessions /\ req' = [t \in Sessions |-> req'[t]]
    BY <1>1, <1>3
  <2> QED BY <2>1, <2>2
<1>7. served' \in 0 .. MaxRequests
  BY <1>1 DEF Inv, TypeOK
<1> HIDE DEF N, q
<1> QED BY <1>1, <1>4, <1>5, <1>6, <1>7, Decided

\* grant-admin makes an account active.
LEMMA GrantEffect ==
  ASSUME Inv, NEW e \in Emails, GrantAdmin(e)
  PROVE  \E u \in Accounts : Decides(u, "active") /\ req' = Noticed(u, "active")
<1>1. PICK u \in Accounts :
        /\ users' = [users EXCEPT ![u].admin = TRUE, ![u].status = "active"]
        /\ decided' = [decided EXCEPT ![u] = "active"]
        /\ blind' = [blind EXCEPT ![u] = FALSE]
        /\ req' = Noticed(u, "active")
  BY DEF GrantAdmin
<1> DEFINE row == [users[u] EXCEPT !.admin = TRUE, !.status = "active"]
<1>2. users[u] \in UserRow /\ u \in Users /\ "active" \in Statuses
  BY DEF Inv, TypeOK, Accounts, Statuses
<1>3. users' = [users EXCEPT ![u] = row]
  BY <1>1, <1>2 DEF Inv, TypeOK
<1>4. UNCHANGED <<keys, held>>
  BY DEF GrantAdmin
<1>5. Decides(u, "active")
  <2>1. row \in UserRow /\ row.email = users[u].email /\ row.status = "active" /\ row # NULL
    <3>1. row \in UserRow /\ row.email = users[u].email /\ row.status = "active"
      BY <1>2 DEF UserRow
    <3> QED BY <3>1, RowsAreNotNull
  <2> HIDE DEF row
  <2>2. /\ users' \in [Users -> UserRow \cup {NULL}] /\ users'[u] = row
        /\ \A v \in Users : v # u => users'[v] = users[v]
    BY <1>2, <1>3, <2>1 DEF Inv, TypeOK
  <2>3. Accounts' = Accounts
    BY <2>1, <2>2 DEF Accounts
  <2>4. blind' \in [Users -> BOOLEAN] /\ \A v \in Users \ {u} : blind'[v] = blind[v]
    BY <1>1, <1>2 DEF Inv, TypeOK
  <2>5. /\ \A v \in Accounts : users'[v].email = users[v].email
        /\ \A v \in Accounts \ {u} : users'[v].status = users[v].status
    BY <2>1, <2>2 DEF Accounts
  <2> QED BY <1>1, <1>4, <2>1, <2>2, <2>3, <2>4, <2>5 DEF Decides
<1> QED BY <1>1, <1>5

\* It keeps the invariant.
LEMMA GrantAdminInv ==
  ASSUME Inv, NEW e \in Emails, GrantAdmin(e)
  PROVE  Inv'
<1>1. PICK u \in Accounts : Decides(u, "active") /\ req' = Noticed(u, "active")
  BY GrantEffect
<1>2. u \in Users /\ "active" \in Statuses
  BY DEF Accounts, Statuses
<1>3. ASSUME NEW t \in Sessions
      PROVE  req'[t] \in Requests /\ RequestOK(req[t])'
  <2>1. req'[t] = Noticed(u, "active")[t]
    BY <1>1
  <2> QED BY <1>1, <1>2, <2>1, NoticedRequest, Notices DEF Inv
<1>4. req' \in [Sessions -> Requests]
  BY <1>1, <1>3 DEF Noticed
<1>5. served' \in 0 .. MaxRequests
  BY AccountsAssumption DEF GrantAdmin, Inv, TypeOK
<1> QED BY <1>1, <1>2, <1>3, <1>4, <1>5, Decided

-----------------------------------------------------------------------------
(* The specification *)

\* Every database the service may start on satisfies the invariant.
LEMMA InitInv == Init => Inv
<1> SUFFICES ASSUME Init PROVE Inv
  OBVIOUS
<1>1. PICK second \in Users \ {Admin}, email \in Emails \ {AdminEmail},
           status \in Statuses \cup {NULL}, k \in Keys, key \in {"none", "live", "revoked"} :
        /\ status \in {"pending", NULL} => key = "none"
        /\ users = [u \in Users |->
             CASE u = Admin -> [email |-> AdminEmail, status |-> "active", admin |-> TRUE]
               [] u = second /\ status # NULL ->
                    [email |-> email, status |-> status, admin |-> FALSE]
               [] OTHER -> NULL]
        /\ keys = [l \in Keys |->
             IF l = k /\ key # "none"
               THEN [owner |-> second, revoked |-> key = "revoked"]
               ELSE NULL]
        /\ held = {[kind |-> "jwt", id |-> u] : u \in Accounts}
                    \cup {[kind |-> "key", id |-> l] : l \in Drawn}
        /\ req = [s \in Sessions |-> Idle]
        /\ served = 0
        /\ decided = [u \in Users |-> IF users[u] = NULL THEN "pending" ELSE users[u].status]
        /\ blind = [u \in Users |-> FALSE]
  BY DEF Init
<1> DEFINE first == [email |-> AdminEmail, status |-> "active", admin |-> TRUE]
           extra == [email |-> email, status |-> status, admin |-> FALSE]
           row == [owner |-> second, revoked |-> key = "revoked"]
<1>2. /\ first \in UserRow /\ first # NULL
      /\ status # NULL => extra \in UserRow /\ extra # NULL
      /\ row \in KeyRow /\ row # NULL
  <2>1. first \in UserRow /\ (status # NULL => extra \in UserRow)
    BY AccountsAssumption DEF UserRow, Statuses
  <2>2. row \in KeyRow
    BY DEF KeyRow
  <2> QED BY <2>1, <2>2, RowsAreNotNull
<1>3. /\ users[Admin] = first /\ users[second] = IF status # NULL THEN extra ELSE NULL
      /\ \A u \in Users \ {Admin, second} : users[u] = NULL
      /\ users \in [Users -> UserRow \cup {NULL}]
  BY <1>1, <1>2, AccountsAssumption
<1>4. Accounts = IF status # NULL THEN {Admin, second} ELSE {Admin}
  BY <1>2, <1>3, AccountsAssumption DEF Accounts
<1>5. /\ Drawn = IF key # "none" THEN {k} ELSE {}
      /\ key # "none" => keys[k] = row
      /\ keys \in [Keys -> KeyRow \cup {NULL}]
  <2> HIDE DEF row
  <2>1. keys = [l \in Keys |-> IF l = k /\ key # "none" THEN row ELSE NULL]
    BY <1>1 DEF row
  <2> QED BY <1>2, <2>1 DEF Drawn
<1>6. TypeOK
  <2>1. held \in SUBSET (Credentials \ {NoCredential})
    BY <1>1 DEF Credentials, NoCredential, Accounts, Drawn
  <2>2. decided \in [Users -> Statuses]
    BY <1>1, <1>3 DEF UserRow, Statuses
  <2>3. served \in 0 .. MaxRequests
    BY <1>1, AccountsAssumption
  <2>4. req \in [Sessions -> Requests] /\ blind \in [Users -> BOOLEAN]
    BY <1>1, IdleIsRequest
  <2> QED BY <1>3, <1>5, <2>1, <2>2, <2>3, <2>4 DEF TypeOK
<1>7. EmailsUnique
  BY <1>3, <1>4 DEF EmailsUnique
<1>8. PrefixesUnique
  BY <1>5 DEF PrefixesUnique
<1>9. Rooted
  <2>1. \A l \in Drawn : keys[l].owner \in Accounts
    BY <1>1, <1>4, <1>5
  <2>2. ASSUME NEW c \in held
        PROVE  IF c.kind = "key" THEN c.id \in Drawn ELSE c.id \in Accounts
    BY <1>1
  <2> QED BY <2>1, <2>2 DEF Rooted
<1>10. DecisionsStick
  BY <1>1 DEF DecisionsStick, Accounts
<1>11. ASSUME NEW s \in Sessions PROVE RequestOK(req[s])
  BY <1>1 DEF Idle, RequestOK, ActorOK, StageOK, DeadOK, BarredOK, SeenOK, AdminOps
<1> QED BY <1>6, <1>7, <1>8, <1>9, <1>10, <1>11 DEF Inv

\* Every step keeps it.
LEMMA NextInv == Inv /\ [Next]_vars => Inv'
<1> SUFFICES ASSUME Inv, [Next]_vars PROVE Inv'
  OBVIOUS
<1>1. CASE UNCHANGED vars
  <2>1. TypeOK'
    BY <1>1 DEF vars, Inv, TypeOK
  <2>2. Accounts' = Accounts /\ Drawn' = Drawn
    BY <1>1 DEF vars, Accounts, Drawn
  <2>3. (EmailsUnique /\ DecisionsStick)'
    BY <1>1, <2>2 DEF vars, Inv, EmailsUnique, DecisionsStick
  <2>4. (PrefixesUnique /\ Rooted)'
    BY <1>1, <2>2 DEF vars, Inv, PrefixesUnique, Rooted
  <2>5. ASSUME NEW s \in Sessions PROVE RequestOK(req[s])'
    <3>1. RequestOK(req[s])
      BY DEF Inv
    <3>2. Behind(req[s].cred)' = Behind(req[s].cred)
      BY <1>1 DEF vars, Behind
    <3>3. ActorOK(req[s])' /\ BarredOK(req[s])'
      BY <1>1, <3>1, <3>2 DEF vars, RequestOK, ActorOK, BarredOK
    <3>4. StageOK(req[s])'
      BY <1>1, <2>2, <3>1 DEF vars, RequestOK, StageOK
    <3>5. DeadOK(req[s])' /\ SeenOK(req[s])'
      BY <1>1, <3>1 DEF vars, RequestOK, DeadOK, SeenOK
    <3> QED BY <3>3, <3>4, <3>5 DEF RequestOK
  <2> QED BY <2>1, <2>3, <2>4, <2>5 DEF Inv
<1>2. ASSUME NEW e \in Emails, GrantAdmin(e) PROVE Inv'
  BY <1>2, GrantAdminInv
<1>3. ASSUME NEW s \in Sessions,
             \/ Request(s) \/ Abort(s) \/ Unauthenticated(s) \/ DecodeToken(s)
             \/ LookupKey(s) \/ LoadUser(s)
      PROVE  Inv'
  BY <1>3, RequestInv, AbortInv, UnauthenticatedInv, DecodeTokenInv, LookupKeyInv,
     LoadUserInv
<1>4. ASSUME NEW s \in Sessions,
             \/ SignupRead(s) \/ SignupCommit(s) \/ Login(s) \/ GenerateCheck(s)
             \/ GenerateCommit(s) \/ RevokeRead(s) \/ RevokeCommit(s) \/ Refresh(s)
      PROVE  Inv'
  BY <1>4, SignupReadInv, SignupCommitInv, LoginInv, GenerateCheckInv, GenerateCommitInv,
     RevokeReadInv, RevokeCommitInv, RefreshInv
<1>5. ASSUME NEW s \in Sessions, DecisionRead(s) \/ ApproveCommit(s) \/ SuspendCommit(s)
      PROVE  Inv'
  BY <1>5, DecisionReadInv, DecideInv DEF ApproveCommit, SuspendCommit, AdminOps, Statuses
<1> QED BY <1>1, <1>2, <1>3, <1>4, <1>5 DEF Next

\* What the handlers of accounts and keys rely on holds in every behaviour.
THEOREM AccountsInvariance == Spec => []Inv
BY InitInv, NextInv, PTL DEF Spec

\* The variables have their types, however requests interleave.
THEOREM TypeCorrect == Spec => []TypeOK
BY AccountsInvariance, PTL DEF Inv

\* No two accounts have one address: get_by_email finds one row or none.
THEOREM AddressesAreUnique == Spec => []EmailsUnique
BY AccountsInvariance, PTL DEF Inv

\* Whoever acts with a key is its owner: prefixes are unique, and so lookups are.
LEMMA InvKeyOpens == Inv => KeyOpensItsAccount
<1> SUFFICES ASSUME Inv PROVE KeyOpensItsAccount
  OBVIOUS
<1>1. \A c \in held : c.kind = "key" => \A k \in Drawn : Prefix[k] = Prefix[c.id] => k = c.id
  BY DEF Inv, Rooted, PrefixesUnique
<1>2. ASSUME NEW s \in Sessions, req[s].actor # NULL, req[s].cred.kind = "key"
      PROVE  req[s].actor = keys[req[s].cred.id].owner
  BY <1>2 DEF Inv, RequestOK, ActorOK, Behind
<1> QED BY <1>1, <1>2 DEF KeyOpensItsAccount

\* A revoked key is out, and one who was never active has made no key.
LEMMA InvRefuses == Inv => RevokedKeyIsOut /\ NoKeyWhileSuspended
BY DEF Inv, RequestOK, DeadOK, BarredOK, StageOK, RevokedKeyIsOut, NoKeyWhileSuspended

\* A key that is not revoked serves the account it was made for, whatever keys share
\* its prefix (get_by_prefix and the unique column of api_keys).
THEOREM KeysOpenTheirAccounts == Spec => []KeyOpensItsAccount
BY InvKeyOpens, AccountsInvariance, PTL

\* A request that arrives with a revoked key is never served (authenticate).
THEOREM RevokedKeysAreOut == Spec => []RevokedKeyIsOut
BY InvRefuses, AccountsInvariance, PTL

\* No key is made for a caller who was suspended throughout the request (generate).
THEOREM SuspendedGetNoKey == Spec => []NoKeyWhileSuspended
BY InvRefuses, AccountsInvariance, PTL

\* The last decision about an account is its status, unless it was taken on a row that
\* another decision had changed (approve_user and suspend_user).
THEOREM LastDecisionHolds == Spec => []DecisionsStick
BY AccountsInvariance, PTL DEF Inv

-----------------------------------------------------------------------------
(* What callers are told *)

\* What an administrator asks an account to be.
Decision(op) == IF op = "approve" THEN "active" ELSE "suspended"

\* What a success says of the tables.
Told(r) ==
  CASE r.op = "signup"   -> \E u \in Accounts : \A v \in Accounts :
                              users[v].email = r.arg <=> v = u
    [] r.op = "generate" -> r.arg \in Drawn
    [] r.op = "revoke"   -> r.arg \in Drawn /\ keys[r.arg].revoked
    [] r.op \in AdminOps -> /\ r.arg \in Accounts
                            /\ r.raced \/ users[r.arg].status = Decision(r.op)
    [] r.op = "login"    -> r.wrote
    [] OTHER             -> ~r.wrote

\* It is so from the commit on, and a refusal says that nothing was done, but for the
\* event a login leaves.
TruthOK(r) ==
  /\ r.pc = "answer" => r.wrote /\ Told(r)
  /\ r.pc = "done" =>
       /\ r.code = 500 <=> r.broke
       /\ r.code \in {400, 401, 403, 404} => (r.wrote <=> r.op = "login")
       /\ r.code < 400 => Told(r)

Truths == \A s \in Sessions : TruthOK(req[s])

\* No account and no key goes, no address changes, and no key is restored.
Lasts ==
  /\ \A u \in Accounts : u \in Accounts' /\ users'[u].email = users[u].email
  /\ \A k \in Drawn : k \in Drawn' /\ (keys[k].revoked => keys'[k].revoked)

\* Every step leaves the tables so.
LEMMA TablesLast ==
  ASSUME Inv, Next
  PROVE  Lasts
<1>1. CASE UNCHANGED <<users, keys>>
  BY <1>1 DEF Lasts, Accounts, Drawn
<1>2. ASSUME NEW u \in Accounts, NEW row \in UserRow, row.email = users[u].email,
             users' = [users EXCEPT ![u] = row], UNCHANGED keys
      PROVE  Lasts
  <2>1. users'[u] = row /\ \A v \in Accounts \ {u} : users'[v] = users[v]
    BY <1>2 DEF Inv, TypeOK, Accounts
  <2>2. row # NULL
    BY RowsAreNotNull
  <2> QED BY <1>2, <2>1, <2>2 DEF Lasts, Accounts, Drawn
<1>3. ASSUME NEW s \in Sessions, SignupCommit(s)
      PROVE  Lasts
  <2>1. UNCHANGED keys /\ (UNCHANGED users \/ \E u \in Users \ Accounts : \E row :
          users' = [users EXCEPT ![u] = row])
    BY <1>3 DEF SignupCommit
  <2>2. \A v \in Accounts : users'[v] = users[v]
    BY <2>1 DEF Inv, TypeOK, Accounts
  <2>3. Accounts \subseteq Users /\ \A v \in Accounts : users'[v] # NULL
    BY <2>2 DEF Accounts
  <2> QED BY <2>1, <2>2, <2>3 DEF Lasts, Accounts, Drawn
<1>4. ASSUME NEW s \in Sessions, GenerateCommit(s)
      PROVE  Lasts
  <2>1. UNCHANGED users /\ (UNCHANGED keys \/ \E k \in Keys \ Drawn : \E row :
          keys' = [keys EXCEPT ![k] = row])
    BY <1>4 DEF GenerateCommit
  <2>2. \A l \in Drawn : keys'[l] = keys[l]
    BY <2>1 DEF Inv, TypeOK, Drawn
  <2> QED BY <2>1, <2>2 DEF Lasts, Accounts, Drawn
<1>5. ASSUME NEW s \in Sessions, RevokeCommit(s)
      PROVE  Lasts
  <2> DEFINE k == req[s].arg
             row == [keys[k] EXCEPT !.revoked = TRUE]
  <2>1. UNCHANGED users /\ keys' = [keys EXCEPT ![k] = row]
    BY <1>5 DEF RevokeCommit, Inv, TypeOK
  <2>2. k \in Drawn /\ k \in Keys /\ keys[k] \in KeyRow
    BY <1>5 DEF RevokeCommit, Inv, RequestOK, StageOK, TypeOK, Drawn
  <2>3. row.revoked = TRUE /\ row \in KeyRow
    BY <2>2 DEF KeyRow
  <2>4. row # NULL
    BY <2>3, RowsAreNotNull
  <2> HIDE DEF row
  <2>5. keys'[k] = row /\ \A l \in Drawn \ {k} : keys'[l] = keys[l]
    BY <2>1, <2>2 DEF Inv, TypeOK, Drawn
  <2> QED BY <2>1, <2>2, <2>3, <2>4, <2>5 DEF Lasts, Accounts, Drawn
<1>6. ASSUME NEW s \in Sessions, NEW op \in AdminOps, NEW status \in Statuses,
             Decide(s, op, status)
      PROVE  Lasts
  <2> DEFINE u == req[s].arg
             new == IF req[s].seen = status THEN users[u].status ELSE status
             row == [users[u] EXCEPT !.status = new]
  <2>1. u \in Accounts /\ users[u] \in UserRow
    BY <1>6 DEF Decide, Inv, RequestOK, StageOK, TypeOK, Accounts
  <2>2. users' = [users EXCEPT ![u] = row] /\ UNCHANGED keys
    BY <1>6 DEF Decide
  <2>3. new \in Statuses
    BY <2>1 DEF UserRow
  <2> HIDE DEF new
  <2>4. row \in UserRow /\ row.email = users[u].email
    BY <2>1, <2>3 DEF UserRow
  <2> HIDE DEF row, u
  <2> QED BY <1>2, <2>1, <2>2, <2>4
<1>7. ASSUME NEW e \in Emails, GrantAdmin(e)
      PROVE  Lasts
  <2>1. PICK u \in Accounts :
          users' = [users EXCEPT ![u].admin = TRUE, ![u].status = "active"]
    BY <1>7 DEF GrantAdmin
  <2> DEFINE row == [users[u] EXCEPT !.admin = TRUE, !.status = "active"]
  <2>2. users[u] \in UserRow /\ u \in Users
    BY DEF Inv, TypeOK, Accounts
  <2>3. row \in UserRow /\ row.email = users[u].email
    BY <2>2 DEF UserRow, Statuses
  <2>4. users' = [users EXCEPT ![u] = row] /\ UNCHANGED keys
    BY <1>7, <2>1, <2>2 DEF GrantAdmin, Inv, TypeOK
  <2> HIDE DEF row
  <2> QED BY <1>2, <2>3, <2>4
<1>8. ASSUME NEW s \in Sessions, NEW op \in Ops, NEW c, NEW arg, Arrive(s, op, c, arg)
      PROVE  UNCHANGED <<users, keys>>
  BY <1>8 DEF Arrive
<1>9. ASSUME NEW s \in Sessions, Request(s)
      PROVE  UNCHANGED <<users, keys>>
  BY <1>9, <1>8 DEF Request, Ops, AdminOps
<1>10. ASSUME NEW s \in Sessions,
              \/ Abort(s) \/ Unauthenticated(s) \/ DecodeToken(s) \/ LookupKey(s)
              \/ LoadUser(s) \/ SignupRead(s) \/ Login(s) \/ GenerateCheck(s)
              \/ RevokeRead(s) \/ DecisionRead(s) \/ Refresh(s)
       PROVE  UNCHANGED <<users, keys>>
  BY <1>10 DEF Abort, Unauthenticated, DecodeToken, LookupKey, LoadUser, SignupRead,
               Login, GenerateCheck, RevokeRead, DecisionRead, Refresh
<1>11. ASSUME NEW s \in Sessions, ApproveCommit(s) \/ SuspendCommit(s)
       PROVE  Lasts
  BY <1>6, <1>11 DEF ApproveCommit, SuspendCommit, AdminOps, Statuses
<1> QED BY <1>1, <1>3, <1>4, <1>5, <1>7, <1>9, <1>10, <1>11 DEF Next

\* No account's status changes.
Keeps == \A u \in Accounts : users'[u].status = users[u].status

\* Nothing but a decision changes one.
LEMMA StatusesStay ==
  ASSUME Inv, NEW s \in Sessions,
         \/ Request(s) \/ Abort(s) \/ Unauthenticated(s) \/ DecodeToken(s)
         \/ LookupKey(s) \/ LoadUser(s)
         \/ SignupRead(s) \/ SignupCommit(s) \/ Login(s) \/ GenerateCheck(s)
         \/ GenerateCommit(s) \/ RevokeRead(s) \/ RevokeCommit(s) \/ Refresh(s)
         \/ DecisionRead(s)
  PROVE  Keeps
<1>1. ASSUME NEW op, NEW c, NEW arg, Arrive(s, op, c, arg)
      PROVE  UNCHANGED users
  BY <1>1 DEF Arrive
<1>2. CASE Request(s)
  BY <1>1, <1>2 DEF Request, Keeps
<1>3. CASE \/ Abort(s) \/ Unauthenticated(s) \/ DecodeToken(s) \/ LookupKey(s)
           \/ LoadUser(s) \/ SignupRead(s)
  <2>1. UNCHANGED users
    BY <1>3 DEF Abort, Unauthenticated, DecodeToken, LookupKey, LoadUser, SignupRead
  <2> QED BY <2>1 DEF Keeps
<1>4. CASE \/ Login(s) \/ GenerateCheck(s) \/ GenerateCommit(s) \/ RevokeRead(s)
           \/ RevokeCommit(s) \/ Refresh(s) \/ DecisionRead(s)
  <2>1. UNCHANGED users
    BY <1>4 DEF Login, GenerateCheck, GenerateCommit, RevokeRead, RevokeCommit, Refresh,
                DecisionRead
  <2> QED BY <2>1 DEF Keeps
<1>5. CASE SignupCommit(s)
  <2>1. UNCHANGED users \/ \E u \in Users \ Accounts : \E row :
          users' = [users EXCEPT ![u] = row]
    BY <1>5 DEF SignupCommit
  <2>2. \A v \in Accounts : users'[v] = users[v]
    BY <2>1 DEF Inv, TypeOK, Accounts
  <2> QED BY <2>2 DEF Keeps
<1> QED BY <1>2, <1>3, <1>4, <1>5

\* What was told stays so, unless a decision is overtaken.
LEMMA ToldStays ==
  ASSUME EmailsUnique', Lasts, Truths, NEW t \in Sessions,
         req'[t].pc = req[t].pc, req'[t].op = req[t].op, req'[t].arg = req[t].arg,
         req'[t].wrote = req[t].wrote, req'[t].code = req[t].code,
         req'[t].broke <=> req[t].broke, req[t].raced => req'[t].raced,
         req[t].op \in AdminOps /\ req[t].pc \in {"answer", "done"}
             /\ req[t].arg \in Accounts
           => req'[t].raced \/ users'[req[t].arg].status = users[req[t].arg].status
  PROVE  TruthOK(req[t])'
<1> DEFINE r == req[t]
<1>1. ASSUME Told(r), r.pc \in {"answer", "done"}
      PROVE  Told(r)'
  <2>1. CASE r.op = "signup"
    <3>1. PICK u \in Accounts : \A v \in Accounts : users[v].email = r.arg <=> v = u
      BY <1>1, <2>1 DEF Told, AdminOps
    <3>2. u \in Accounts' /\ users'[u].email = r.arg
      BY <3>1 DEF Lasts
    <3>3. \A v \in Accounts' : users'[v].email = r.arg <=> v = u
      BY <3>2 DEF EmailsUnique
    <3> QED BY <2>1, <3>2, <3>3 DEF Told, AdminOps
  <2>2. CASE r.op \in AdminOps
    <3>1. r.arg \in Accounts /\ (r.raced \/ users[r.arg].status = Decision(r.op))
      BY <1>1, <2>2 DEF Told, AdminOps
    <3>2. r.arg \in Accounts'
      BY <3>1 DEF Lasts
    <3>3. req'[t].raced \/ users'[r.arg].status = Decision(r.op)
      BY <1>1, <2>2, <3>1
    <3> QED BY <2>2, <3>2, <3>3 DEF Told, AdminOps
  <2>3. CASE r.op \notin AdminOps \cup {"signup"}
    BY <1>1, <2>3 DEF Told, Lasts, AdminOps
  <2> QED BY <2>1, <2>2, <2>3
<1> QED BY <1>1 DEF Truths, TruthOK

\* A step of one request that ends with the truth.
LEMMA OneTells ==
  ASSUME Inv, Inv', Lasts, Keeps, Truths, NEW s \in Sessions, NEW q,
         req' = [req EXCEPT ![s] = q], TruthOK(req[s])'
  PROVE  Truths'
<1> SUFFICES ASSUME NEW t \in Sessions PROVE TruthOK(req[t])'
  BY DEF Truths
<1>1. CASE t # s
  <2>1. req'[t] = req[t]
    BY <1>1 DEF Inv, TypeOK
  <2> QED BY <2>1, ToldStays DEF Inv, Keeps
<1> QED BY <1>1

\* What remains of a request that is answered.
LEMMA Remains ==
  ASSUME NEW r \in Requests, NEW code \in Codes
  PROVE  /\ Answered(r, code) \in Requests
         /\ Answered(r, code).pc = "done" /\ Answered(r, code).code = code
         /\ Answered(r, code).wrote = r.wrote /\ ~Answered(r, code).broke
         /\ Answered(r, code).op = "login" <=> r.op = "login"
         /\ code < 400 => Answered(r, code).op = r.op /\ Answered(r, code).raced = r.raced
         /\ code < 400 /\ r.op \notin {"login", "me"} => Answered(r, code).arg = r.arg
<1> DEFINE op == IF code < 400 \/ r.op = "login" THEN r.op ELSE Idle.op
           arg == IF code < 400 /\ r.op \notin {"login", "me"} THEN r.arg ELSE Idle.arg
           raced == code < 400 /\ r.raced
<1>1. Idle \in Requests /\ ~Idle.broke /\ Idle.op = "me"
  BY IdleIsRequest DEF Idle
<1>2. Answered(r, code) =
        [Idle EXCEPT !.pc = "done", !.code = code, !.dead = r.dead,
                     !.wrote = r.wrote, !.raced = raced, !.op = op, !.arg = arg]
  BY DEF Answered
<1>3. /\ op = "login" <=> r.op = "login"
      /\ code < 400 => op = r.op /\ raced = r.raced
      /\ code < 400 /\ r.op \notin {"login", "me"} => arg = r.arg
  <2>1. r.raced \in BOOLEAN
    BY DEF Requests
  <2> QED BY <1>1, <2>1
<1>4. Answered(r, code) \in Requests
  BY Closing
<1> HIDE DEF op, arg, raced
<1>5. /\ Answered(r, code).pc = "done" /\ Answered(r, code).code = code
      /\ Answered(r, code).wrote = r.wrote /\ Answered(r, code).broke = Idle.broke
      /\ Answered(r, code).op = op /\ Answered(r, code).arg = arg
      /\ Answered(r, code).raced = raced
  BY <1>1, <1>2 DEF Requests
<1> QED BY <1>1, <1>3, <1>4, <1>5

\* The end of a request is true when it refuses what was not done, a login whose event
\* was, or tells what was.
LEMMA EndTells ==
  ASSUME Inv, Inv', Lasts, Keeps, Truths, NEW s \in Sessions, NEW r \in Requests,
         NEW code \in Codes \ {500}, Ends(s, r, code),
         code < 400 \/ (r.wrote <=> r.op = "login"), code < 400 => Told(r)'
  PROVE  Truths'
<1> DEFINE q == Answered(r, code)
<1>1. req' = [req EXCEPT ![s] = q]
  BY DEF Ends
<1>2. /\ q.pc = "done" /\ q.code = code /\ q.wrote = r.wrote /\ ~q.broke
      /\ q.op = "login" <=> r.op = "login"
      /\ code < 400 => q.op = r.op /\ q.raced = r.raced
      /\ code < 400 /\ r.op \notin {"login", "me"} => q.arg = r.arg
  BY Remains
<1> HIDE DEF q
<1>3. req'[s] = q
  BY <1>1 DEF Inv, TypeOK
<1>4. code < 400 => Told(req[s])'
  BY <1>2, <1>3 DEF Told, AdminOps
<1>5. TruthOK(req[s])'
  BY <1>2, <1>3, <1>4 DEF TruthOK, Codes
<1> QED BY <1>1, <1>5, OneTells

\* So is an answer.
LEMMA AnswerTells ==
  ASSUME Inv, Inv', Lasts, Keeps, Truths, NEW s \in Sessions, NEW r, r = req[s],
         NEW code \in Codes \ {500}, Answer(s, code),
         code < 400 \/ (~r.wrote /\ r.op # "login"), code < 400 => Told(r)'
  PROVE  Truths'
<1>1. r \in Requests /\ Ends(s, r, code)
  BY DEF Answer, Ends, Inv, TypeOK
<1>2. code < 400 \/ (r.wrote <=> r.op = "login")
  OBVIOUS
<1> QED BY <1>1, <1>2, EndTells

\* The database's failure is told as such.
LEMMA BrokenTells ==
  ASSUME Inv, Inv', Lasts, Keeps, Truths, NEW s \in Sessions, Broken(s)
  PROVE  Truths'
<1> DEFINE p == Answered(req[s], 500)
           q == [p EXCEPT !.broke = TRUE]
<1>1. req' = [req EXCEPT ![s] = q]
  BY DEF Broken, Inv, TypeOK
<1>2. p \in Requests /\ p.pc = "done" /\ p.code = 500
  <2>1. req[s] \in Requests /\ 500 \in Codes
    BY DEF Inv, TypeOK, Codes
  <2> QED BY <2>1, Remains
<1> HIDE DEF p
<1>3. q.pc = "done" /\ q.code = 500 /\ q.broke = TRUE
  BY <1>2 DEF Requests
<1> HIDE DEF q
<1>4. req'[s] = q
  BY <1>1 DEF Inv, TypeOK
<1>5. TruthOK(req[s])'
  BY <1>3, <1>4 DEF TruthOK
<1> QED BY <1>1, <1>5, OneTells

\* A request that has not got to its commit tells nothing.
LEMMA UnderWayTells ==
  ASSUME Inv, Inv', Lasts, Keeps, Truths, NEW s \in Sessions, NEW q,
         req' = [req EXCEPT ![s] = q], q.pc \notin {"answer", "done"}
  PROVE  Truths'
<1>1. req'[s] = q
  BY DEF Inv, TypeOK
<1>2. TruthOK(req[s])'
  BY <1>1 DEF TruthOK
<1> QED BY <1>2, OneTells

\* A commit has put in the tables what the answer will tell.
LEMMA CommitTells ==
  ASSUME Inv, Inv', Lasts, Keeps, Truths, NEW s \in Sessions, NEW q,
         req' = [req EXCEPT ![s] = q], q.pc = "answer", q.wrote = TRUE, Told(q)'
  PROVE  Truths'
<1>1. req'[s] = q
  BY DEF Inv, TypeOK
<1>2. TruthOK(req[s])'
  BY <1>1 DEF TruthOK, Told
<1> QED BY <1>2, OneTells

\* A request tells nothing new when it notices a decision, unless it is about the same
\* account.
LEMMA NoticedTells ==
  ASSUME Inv, NEW u \in Users, NEW status \in Statuses, NEW t \in Sessions,
         NEW n, n = Noticed(u, status)[t]
  PROVE  /\ n \in Requests /\ n.pc = req[t].pc /\ n.op = req[t].op
         /\ n.arg = req[t].arg /\ n.wrote = req[t].wrote /\ n.code = req[t].code
         /\ n.broke <=> req[t].broke
         /\ HasRow(t, u) \/ req[t].raced => n.raced
<1>1. /\ n \in Requests /\ n.pc = req[t].pc /\ n.op = req[t].op
      /\ n.arg = req[t].arg /\ n.wrote = req[t].wrote /\ n.code = req[t].code
      /\ HasRow(t, u) => n.raced
      /\ req[t].raced => n.raced
  BY NoticedRequest
<1>2. req[t] \in Requests
  BY DEF Inv, TypeOK
<1>3. PICK raced, barred : n = [req[t] EXCEPT !.raced = raced, !.barred = barred]
  BY DEF Noticed
<1>4. n.broke <=> req[t].broke
  BY <1>2, <1>3 DEF Requests
<1> QED BY <1>1, <1>4

\* The administrator is told what the account is, and others who were told what it was
\* have been overtaken.
LEMMA DecisionTells ==
  ASSUME Inv, Inv', Lasts, Truths, NEW u \in Accounts, NEW status \in Statuses,
         Decides(u, status),
         \A t \in Sessions :
           \/ req'[t] = Noticed(u, status)[t]
           \/ /\ req'[t].op \in AdminOps /\ Decision(req'[t].op) = status
              /\ req'[t].pc = "answer" /\ req'[t].wrote /\ req'[t].arg = u
              /\ req'[t].raced \/ users'[u].status = status
  PROVE  Truths'
<1> SUFFICES ASSUME NEW t \in Sessions PROVE TruthOK(req[t])'
  BY DEF Truths
<1> DEFINE r == req[t]
<1>0. PICK n : n = Noticed(u, status)[t]
  OBVIOUS
<1>1. /\ n \in Requests /\ n.pc = r.pc /\ n.op = r.op /\ n.arg = r.arg
      /\ n.wrote = r.wrote /\ n.code = r.code
      /\ n.broke <=> r.broke
      /\ HasRow(t, u) \/ r.raced => n.raced
  <2>1. u \in Users
    BY DEF Accounts
  <2> QED BY <1>0, <2>1, NoticedTells
<1>2. CASE req'[t] = n
  <2>1. EmailsUnique'
    BY DEF Inv
  <2>2. ASSUME r.op \in AdminOps, r.pc \in {"answer", "done"}, r.arg \in Accounts
        PROVE  n.raced \/ users'[r.arg].status = users[r.arg].status
    <3>1. CASE r.arg = u
      BY <1>1, <2>2, <3>1 DEF HasRow
    <3>2. CASE r.arg # u
      BY <2>2, <3>2 DEF Decides
    <3> QED BY <3>1, <3>2
  <2> QED BY <1>1, <1>2, <2>1, <2>2, ToldStays
<1>3. CASE /\ req'[t].op \in AdminOps /\ Decision(req'[t].op) = status
           /\ req'[t].pc = "answer" /\ req'[t].wrote /\ req'[t].arg = u
           /\ req'[t].raced \/ users'[u].status = status
  <2>1. u \in Accounts'
    BY DEF Lasts
  <2> QED BY <1>3, <2>1 DEF TruthOK, Told, AdminOps
<1> QED BY <1>0, <1>2, <1>3

\* Each step of a request, told as it is.
LEMMA RequestsTell ==
  ASSUME Inv, Inv', Lasts, Truths, NEW s \in Sessions,
         \/ Request(s) \/ Abort(s) \/ Unauthenticated(s) \/ DecodeToken(s)
         \/ LookupKey(s) \/ LoadUser(s)
  PROVE  Truths'
<1> SUFFICES ASSUME Keeps PROVE Truths'
  BY StatusesStay
<1> DEFINE r == req[s]
<1>1. r \in Requests /\ StageOK(r) /\ ActorOK(r)
  BY DEF Inv, TypeOK, RequestOK
<1>2. ASSUME NEW op, NEW c, NEW arg, Arrive(s, op, c, arg)
      PROVE  Truths'
  <2> DEFINE pc == IF op \in {"signup", "login"} THEN "handle" ELSE "auth"
             dead == c.kind = "key" /\ keys[c.id].revoked
             barred == op = "generate" /\ users[Behind(c)].status # "active"
             q == [Idle EXCEPT !.pc = pc, !.op = op, !.cred = c, !.arg = arg,
                               !.dead = dead, !.barred = barred]
  <2>1. req' = [req EXCEPT ![s] = q]
    BY <1>2 DEF Arrive
  <2>2. pc \in {"handle", "auth"}
    OBVIOUS
  <2> HIDE DEF pc, dead, barred
  <2>3. q.pc = pc
    BY DEF Idle
  <2> HIDE DEF q
  <2> QED BY <2>1, <2>2, <2>3, UnderWayTells
<1>3. CASE Request(s)
  BY <1>2, <1>3 DEF Request
<1>4. CASE Abort(s)
  BY <1>4, BrokenTells DEF Abort
<1>5. CASE Unauthenticated(s)
  <2>1. Answer(s, 401) /\ ~r.wrote /\ r.op # "login"
    BY <1>1, <1>5 DEF Unauthenticated, StageOK
  <2> QED BY <2>1, AnswerTells DEF Codes
<1>6. ASSUME NEW u, req' = [req EXCEPT ![s].pc = "user", ![s].actor = u]
      PROVE  Truths'
  <2> DEFINE q == [r EXCEPT !.pc = "user", !.actor = u]
  <2>1. req' = [req EXCEPT ![s] = q]
    BY <1>6 DEF Inv, TypeOK
  <2>2. q.pc = "user"
    <3> HIDE DEF r
    <3> QED BY <1>1 DEF Requests
  <2> HIDE DEF q
  <2> QED BY <2>1, <2>2, UnderWayTells
<1>7. CASE DecodeToken(s)
  BY <1>6, <1>7 DEF DecodeToken
<1>8. CASE LookupKey(s)
  <2> DEFINE k == r.cred.id
  <2>1. r.cred \in held /\ r.cred.kind = "key" /\ ~r.wrote /\ r.op # "login"
    <3>1. r.pc = "auth" /\ r.cred.kind = "key"
      BY <1>8 DEF LookupKey
    <3>2. r.cred # NoCredential
      BY <3>1 DEF NoCredential
    <3> HIDE DEF r
    <3> QED BY <1>1, <3>1, <3>2 DEF ActorOK, StageOK
  <2>2. {l \in Drawn : Prefix[l] = Prefix[k]} = {k}
    <3>1. k \in Drawn
      <4>1. TypeOK /\ Rooted
        BY DEF Inv
      <4> HIDE DEF r
      <4> QED BY <2>1, <4>1, BehindExists
    <3>2. PrefixesUnique
      BY DEF Inv
    <3> HIDE DEF k
    <3> QED BY <3>1, <3>2 DEF PrefixesUnique
  <2>3. \/ Answer(s, 401)
        \/ req' = [req EXCEPT ![s].pc = "user", ![s].actor = keys[k].owner]
    BY <1>8, <2>2 DEF LookupKey
  <2>4. CASE Answer(s, 401)
    BY <2>1, <2>4, AnswerTells DEF Codes
  <2> QED BY <2>3, <2>4, <1>6
<1>9. CASE LoadUser(s)
  <2> DEFINE q == [r EXCEPT !.pc = "handle", !.seen = users[r.actor].status]
  <2>1. r.pc = "user" /\ ~r.wrote /\ r.op # "login"
    BY <1>1, <1>9 DEF LoadUser, StageOK
  <2>2. \/ Answer(s, 403)
        \/ r.op = "me" /\ Answer(s, 200)
        \/ req' = [req EXCEPT ![s] = q]
    BY <1>9 DEF LoadUser, Inv, TypeOK
  <2>3. CASE Answer(s, 403)
    BY <2>1, <2>3, AnswerTells DEF Codes
  <2>4. CASE r.op = "me" /\ Answer(s, 200)
    <3>1. PICK p : p = r
      OBVIOUS
    <3>2. Told(p)'
      BY <2>1, <2>4, <3>1 DEF Told, AdminOps
    <3> QED BY <2>4, <3>1, <3>2, AnswerTells DEF Codes
  <2>5. CASE req' = [req EXCEPT ![s] = q]
    <3>1. q.pc = "handle"
      <4> HIDE DEF r
      <4> QED BY <1>1 DEF Requests
    <3> HIDE DEF q
    <3> QED BY <2>5, <3>1, UnderWayTells
  <2> QED BY <2>2, <2>3, <2>4, <2>5
<1> QED BY <1>3, <1>4, <1>5, <1>7, <1>8, <1>9

\* Each step of a handler, told as it is.
LEMMA HandlersTell ==
  ASSUME Inv, Inv', Lasts, Truths, NEW s \in Sessions,
         \/ SignupRead(s) \/ SignupCommit(s) \/ Login(s) \/ GenerateCheck(s)
         \/ GenerateCommit(s) \/ RevokeRead(s) \/ RevokeCommit(s) \/ Refresh(s)
         \/ DecisionRead(s)
  PROVE  Truths'
<1> SUFFICES ASSUME Keeps PROVE Truths'
  BY StatusesStay
<1> DEFINE r == req[s]
<1>1. /\ r \in Requests /\ StageOK(r)
      /\ r.pc \notin {"answer", "done"} => ~r.wrote
      /\ r.pc = "answer" => r.wrote /\ Told(r)
  BY DEF Inv, TypeOK, RequestOK, StageOK, Truths, TruthOK
<1>2. PICK p : p = r
  OBVIOUS
<1>3. ASSUME Goto(s, "write")
      PROVE  Truths'
  <2> DEFINE q == [r EXCEPT !.pc = "write"]
  <2>1. req' = [req EXCEPT ![s] = q]
    BY <1>3 DEF Goto, Inv, TypeOK
  <2>2. q.pc = "write"
    <3> HIDE DEF r
    <3> QED BY <1>1 DEF Requests
  <2> HIDE DEF q
  <2> QED BY <2>1, <2>2, UnderWayTells
<1>4. ASSUME r.pc = "handle", r.op # "login",
             \/ Raise(s, "EmailAlreadyExists") \/ Raise(s, "AccountNotActive") \/ Raise(s, "ApiKeyNotFound")
             \/ Raise(s, "ApiKeyNotOwned") \/ Raise(s, "UserNotFound")
      PROVE  Truths'
  <2>1. PICK code \in {400, 401, 403, 404} : Answer(s, code)
    BY <1>4, ErrorCodes DEF Raise
  <2>2. code \in Codes \ {500} /\ ~(code < 400)
    BY DEF Codes
  <2> QED BY <1>1, <1>2, <1>4, <2>1, <2>2, AnswerTells
<1>5. ASSUME NEW q, q.pc = "answer", q.wrote = TRUE, Told(q)', req' = [req EXCEPT ![s] = q]
      PROVE  Truths'
  BY <1>5, CommitTells
<1>6. CASE SignupRead(s)
  BY <1>3, <1>4, <1>6 DEF SignupRead
<1>7. CASE SignupCommit(s)
  <2> DEFINE row == [email |-> r.arg, status |-> "pending", admin |-> FALSE]
             q == [r EXCEPT !.pc = "answer", !.wrote = TRUE]
  <2>1. PICK u \in Users \ Accounts :
          \/ Broken(s)
          \/ users' = [users EXCEPT ![u] = row] /\ req' = [req EXCEPT ![s] = q]
    BY <1>7 DEF SignupCommit, Inv, TypeOK
  <2>2. CASE users' = [users EXCEPT ![u] = row] /\ req' = [req EXCEPT ![s] = q]
    <3>1. users'[u] = row /\ u \in Users
      BY <2>2 DEF Inv, TypeOK
    <3>2. users'[u].email = r.arg /\ u \in Accounts'
      <4>1. r.arg \in Emails
        BY <1>1, <1>7 DEF SignupCommit, StageOK
      <4>2. row \in UserRow /\ row.email = r.arg
        BY <4>1 DEF UserRow, Statuses
      <4>3. row # NULL
        BY <4>2, RowsAreNotNull
      <4> HIDE DEF row
      <4> QED BY <3>1, <4>2, <4>3 DEF Accounts
    <3>3. \A v \in Accounts' : users'[v].email = r.arg <=> v = u
      BY <3>2 DEF Inv, EmailsUnique
    <3>4. r.op = "signup"
      BY <1>7 DEF SignupCommit
    <3> HIDE DEF r, row
    <3>5. q.pc = "answer" /\ q.wrote = TRUE /\ q.op = "signup" /\ q.arg = p.arg
      BY <1>1, <1>2, <3>4 DEF Requests
    <3>6. PICK x : x = q
      OBVIOUS
    <3> HIDE DEF q
    <3>7. Told(x)'
      BY <1>2, <3>2, <3>3, <3>5, <3>6 DEF Told, AdminOps
    <3> QED BY <1>5, <2>2, <3>5, <3>6, <3>7 DEF r
  <2> QED BY <2>1, <2>2, BrokenTells
<1>8. CASE Login(s)
  <2>1. r.op = "login" /\ \E code \in {200, 401} : AnswerAudited(s, code)
    BY <1>8, ErrorCodes DEF Login
  <2>2. PICK code \in {200, 401} : AnswerAudited(s, code)
    BY <2>1
  <2>3. PICK a : a = [r EXCEPT !.wrote = TRUE]
    OBVIOUS
  <2>4. a \in Requests /\ a.wrote = TRUE /\ a.op = "login" /\ Ends(s, a, code)
    BY <2>1, <2>2, <2>3, Audited
  <2>5. Told(a)'
    BY <2>4 DEF Told, AdminOps
  <2>6. code \in Codes \ {500} /\ (a.wrote <=> a.op = "login")
    BY <2>4 DEF Codes
  <2> QED BY <2>4, <2>5, <2>6, EndTells
<1>9. CASE GenerateCheck(s)
  BY <1>3, <1>4, <1>9 DEF GenerateCheck
<1>10. CASE GenerateCommit(s)
  <2>1. PICK k \in Keys \ Drawn :
          \/ Broken(s)
          \/ /\ keys' = [keys EXCEPT ![k] = [owner |-> r.actor, revoked |-> FALSE]]
             /\ req' = [req EXCEPT ![s] =
                  [r EXCEPT !.pc = "answer", !.arg = k, !.wrote = TRUE]]
    BY <1>10 DEF GenerateCommit, Inv, TypeOK
  <2> DEFINE q == [r EXCEPT !.pc = "answer", !.arg = k, !.wrote = TRUE]
  <2>2. CASE req' = [req EXCEPT ![s] = q]
    <3>1. r.op = "generate"
      BY <1>10 DEF GenerateCommit
    <3> HIDE DEF r
    <3>2. q.pc = "answer" /\ q.wrote = TRUE /\ q.op = "generate" /\ q.arg = k
      BY <1>1, <3>1 DEF Requests
    <3>3. PICK x : x = q
      OBVIOUS
    <3> HIDE DEF q
    <3>4. req'[s] = q
      BY <2>2 DEF Inv, TypeOK
    <3>5. q.arg \in Drawn'
      BY <3>2, <3>4 DEF Inv, RequestOK, StageOK
    <3>6. Told(x)'
      BY <3>2, <3>3, <3>5 DEF Told, AdminOps
    <3> QED BY <1>5, <2>2, <3>2, <3>3, <3>6
  <2> QED BY <2>1, <2>2, BrokenTells
<1>11. CASE RevokeRead(s)
  <2>1. /\ r.pc = "handle" /\ r.op = "revoke" /\ UNCHANGED keys
        /\ \/ Raise(s, "ApiKeyNotFound") \/ Raise(s, "ApiKeyNotOwned")
           \/ Goto(s, "write")
           \/ r.arg \in Drawn /\ keys[r.arg].revoked /\ Answer(s, 200)
    BY <1>11 DEF RevokeRead
  <2>2. CASE r.arg \in Drawn /\ keys[r.arg].revoked /\ Answer(s, 200)
    <3>1. Told(p)'
      BY <1>2, <2>1, <2>2 DEF Told, AdminOps, Drawn
    <3> QED BY <1>2, <2>2, <3>1, AnswerTells DEF Codes
  <2> QED BY <1>3, <1>4, <2>1, <2>2
<1>12. CASE RevokeCommit(s)
  <2> DEFINE q == [r EXCEPT !.pc = "answer", !.wrote = TRUE]
             k == r.arg
  <2>1. /\ r.op = "revoke" /\ k \in Drawn /\ keys' = [keys EXCEPT ![k].revoked = TRUE]
        /\ req' = [req EXCEPT ![s] = q]
    BY <1>1, <1>12 DEF RevokeCommit, StageOK, Inv, TypeOK
  <2>2. k \in Drawn' /\ keys'[k].revoked
    <3>1. k \in Drawn'
      BY <2>1 DEF Lasts
    <3>2. keys[k] \in KeyRow /\ k \in Keys
      BY <2>1 DEF Inv, TypeOK, Drawn
    <3>3. keys'[k] = [keys[k] EXCEPT !.revoked = TRUE]
      BY <2>1, <3>2 DEF Inv, TypeOK
    <3> QED BY <3>1, <3>2, <3>3 DEF KeyRow
  <2>3. q.pc = "answer" /\ q.wrote = TRUE /\ q.op = "revoke" /\ q.arg = k
    <3> HIDE DEF r
    <3> QED BY <1>1, <2>1 DEF Requests
  <2>4. PICK x : x = q
    OBVIOUS
  <2> HIDE DEF q
  <2>5. Told(x)'
    BY <2>2, <2>3, <2>4 DEF Told, AdminOps
  <2> QED BY <1>5, <2>1, <2>3, <2>4, <2>5
<1>13. CASE Refresh(s)
  <2>1. PICK code \in {200, 201} : Answer(s, code)
    BY <1>13 DEF Refresh
  <2>2. r.pc = "answer" /\ UNCHANGED <<users, keys>>
    BY <1>13 DEF Refresh
  <2>3. Told(p)'
    BY <1>1, <1>2, <2>2 DEF Told, Accounts, Drawn
  <2>4. code \in Codes \ {500} /\ code < 400
    BY DEF Codes
  <2> QED BY <1>2, <2>1, <2>3, <2>4, AnswerTells
<1>14. CASE DecisionRead(s)
  <2> DEFINE q == [r EXCEPT !.pc = "write", !.seen = users[r.arg].status]
  <2>1. /\ r.pc = "handle" /\ r.op # "login"
        /\ \/ Raise(s, "UserNotFound") \/ Goto(s, "write")
           \/ req' = [req EXCEPT ![s] = q]
    BY <1>14 DEF DecisionRead, AdminOps, Inv, TypeOK
  <2>2. CASE req' = [req EXCEPT ![s] = q]
    <3>1. q.pc = "write"
      <4> HIDE DEF r
      <4> QED BY <1>1 DEF Requests
    <3> HIDE DEF q
    <3> QED BY <2>2, <3>1, UnderWayTells
  <2> QED BY <1>3, <1>4, <2>1, <2>2
<1> QED BY <1>6, <1>7, <1>8, <1>9, <1>10, <1>11, <1>12, <1>13, <1>14

\* Every step leaves callers told the truth.
LEMMA NextTells == Inv /\ Inv' /\ Truths /\ [Next]_vars => Truths'
<1> SUFFICES ASSUME Inv, Inv', Truths, [Next]_vars PROVE Truths'
  OBVIOUS
<1>1. CASE UNCHANGED vars
  <2>1. \A u : u \in Accounts' <=> u \in Accounts
    BY <1>1 DEF vars, Accounts
  <2>2. Drawn' = Drawn
    BY <1>1 DEF vars, Drawn
  <2> QED BY <1>1, <2>1, <2>2 DEF vars, Truths, TruthOK, Told
<1>2. ASSUME Next PROVE Lasts
  BY <1>2, TablesLast
<1>3. ASSUME NEW s \in Sessions,
             \/ Request(s) \/ Abort(s) \/ Unauthenticated(s) \/ DecodeToken(s)
             \/ LookupKey(s) \/ LoadUser(s)
      PROVE  Truths'
  BY <1>2, <1>3, RequestsTell DEF Next
<1>4. ASSUME NEW s \in Sessions,
             \/ SignupRead(s) \/ SignupCommit(s) \/ Login(s) \/ GenerateCheck(s)
             \/ GenerateCommit(s) \/ RevokeRead(s) \/ RevokeCommit(s) \/ Refresh(s)
             \/ DecisionRead(s)
      PROVE  Truths'
  BY <1>2, <1>4, HandlersTell DEF Next
<1>5. ASSUME NEW s \in Sessions, NEW op \in AdminOps, Decide(s, op, Decision(op)), Lasts
      PROVE  Truths'
  <2> DEFINE status == Decision(op)
             q == [req[s] EXCEPT !.pc = "answer", !.wrote = TRUE]
  <2>1. PICK u : u = req[s].arg
    OBVIOUS
  <2>2. status \in Statuses
    BY DEF Decision, Statuses
  <2>3. /\ u \in Accounts /\ u \in Users /\ Decides(u, status)
        /\ blind'[u] = req[s].raced /\ req[s].op = op
        /\ req' = [Noticed(u, status) EXCEPT ![s] = q]
    BY <1>5, <2>1, <2>2, DecideEffect
  <2>4. /\ q.op = op /\ q.pc = "answer" /\ q.wrote = TRUE /\ q.arg = u
        /\ q.raced = req[s].raced
    BY <2>1, <2>3 DEF Inv, TypeOK, Requests
  <2>5. q.raced \/ users'[u].status = status
    BY <2>3, <2>4 DEF Decides
  <2>6. DOMAIN Noticed(u, status) = Sessions
    BY DEF Noticed
  <2> HIDE DEF status, q
  <2>7. \A t \in Sessions :
          \/ req'[t] = Noticed(u, status)[t]
          \/ /\ req'[t].op \in AdminOps /\ Decision(req'[t].op) = status
             /\ req'[t].pc = "answer" /\ req'[t].wrote /\ req'[t].arg = u
             /\ req'[t].raced \/ users'[u].status = status
    <3>1. \A t \in Sessions : req'[t] = Noticed(u, status)[t] \/ req'[t] = q
      BY <2>3, <2>6
    <3> QED BY <2>4, <2>5, <3>1 DEF status
  <2> QED BY <1>5, <2>2, <2>3, <2>7, DecisionTells
<1>6. ASSUME NEW s \in Sessions, ApproveCommit(s) \/ SuspendCommit(s)
      PROVE  Truths'
  <2>1. \E op \in AdminOps : Decide(s, op, Decision(op))
    BY <1>6 DEF ApproveCommit, SuspendCommit, AdminOps, Decision
  <2>2. Lasts
    BY <1>2, <1>6 DEF Next
  <2> QED BY <1>5, <2>1, <2>2
<1>7. ASSUME NEW e \in Emails, GrantAdmin(e)
      PROVE  Truths'
  <2>1. PICK u \in Accounts : Decides(u, "active") /\ req' = Noticed(u, "active")
    BY <1>7, GrantEffect
  <2>2. Lasts /\ "active" \in Statuses
    BY <1>2, <1>7 DEF Next, Statuses
  <2> QED BY <2>1, <2>2, DecisionTells
<1> QED BY <1>1, <1>3, <1>4, <1>6, <1>7 DEF Next

\* Nobody has been told anything at first.
LEMMA InitTells == Init => Truths
BY DEF Init, Idle, Truths, TruthOK

\* The invariant is about every stage; an answer is its last one.
LEMMA TruthsAreAnswers == Truths => AnswersAreTrue
<1> SUFFICES ASSUME Truths PROVE AnswersAreTrue
  OBVIOUS
<1>1. ASSUME NEW s \in Sessions, NEW r, r = req[s], r.pc = "done"
      PROVE  /\ r.code = 500 <=> r.broke
             /\ r.code \in {400, 401, 403, 404} => (r.wrote <=> r.op = "login")
             /\ r.code < 400 => Told(r)
  BY <1>1 DEF Truths, TruthOK
<1>2. ASSUME NEW r, Told(r)
      PROVE  /\ r.op = "signup" => \E u \in Accounts : \A v \in Accounts :
                                     users[v].email = r.arg <=> v = u
             /\ r.op = "generate" => r.arg \in Drawn
             /\ r.op = "revoke" => keys[r.arg].revoked
             /\ r.op = "approve" => r.raced \/ users[r.arg].status = "active"
             /\ r.op = "suspend" => r.raced \/ users[r.arg].status = "suspended"
             /\ r.op = "login" => r.wrote
             /\ r.op = "me" => ~r.wrote
  BY <1>2 DEF Told, Decision, AdminOps
<1> QED BY <1>1, <1>2 DEF AnswersAreTrue

\* A caller is told what the tables say: a success is there, and an account is what its
\* administrator was told, unless another decision came after the read; a refusal has
\* changed nothing, but for the event a login leaves; 500 is the database's failure
\* (the handlers of main.py, and auth_service.login).
THEOREM CallersAreToldTheTruth == Spec => []AnswersAreTrue
<1>1. Spec => []Truths
  BY InitTells, NextTells, AccountsInvariance, PTL DEF Spec
<1> QED BY <1>1, TruthsAreAnswers, PTL

-----------------------------------------------------------------------------
(* On a migrated database *)

\* A database without accounts has none of what the invariants speak of.
LEMMA NoAccountsInv == NoAccounts => Inv /\ Truths
<1> SUFFICES ASSUME NoAccounts PROVE Inv /\ Truths
  OBVIOUS
<1>1. Accounts = {} /\ Drawn = {} /\ held = {}
  BY DEF NoAccounts, Accounts, Drawn
<1>2. \A s \in Sessions : req[s] = Idle
  BY DEF NoAccounts
<1>3. TypeOK
  BY <1>1, IdleIsRequest, AccountsAssumption DEF NoAccounts, TypeOK, Statuses
<1>4. \A s \in Sessions : RequestOK(req[s])
  BY <1>2 DEF Idle, RequestOK, ActorOK, StageOK, DeadOK, BarredOK, SeenOK, AdminOps
<1>5. EmailsUnique /\ PrefixesUnique /\ Rooted /\ DecisionsStick
  BY <1>1, AccountsAssumption DEF EmailsUnique, PrefixesUnique, Rooted, DecisionsStick
<1> QED
  BY <1>2, <1>3, <1>4, <1>5 DEF Inv, Truths, TruthOK, Idle

\* Deployment runs the migrations before the first account, and serves Accounts then:
\* what is proved of the handlers holds of the deployed API, from an empty database
\* on or with accounts in it.
THEOREM DeployedAccountsAreSafe ==
  ViewsSpec => [](/\ KeyOpensItsAccount /\ RevokedKeyIsOut /\ NoKeyWhileSuspended
                  /\ DecisionsStick /\ AnswersAreTrue)
<1>1. ViewsInit => Init \/ NoAccounts
  BY DEF ViewsInit, DeploymentInit
<1>2. [ViewsNext]_<<view, deploymentVars, nodeVars, pageVars, tableVars>> => [Next]_vars
  BY DEF ViewsNext, DeploymentNext, Migrate, Serve, deploymentVars
<1>3. Init \/ NoAccounts => Inv /\ Truths
  BY InitInv, NoAccountsInv, InitTells
<1>4. ViewsSpec => [](Inv /\ Truths)
  BY <1>1, <1>2, <1>3, NextInv, NextTells, PTL DEF ViewsSpec
<1>5. Inv /\ Truths => /\ KeyOpensItsAccount /\ RevokedKeyIsOut /\ NoKeyWhileSuspended
                       /\ DecisionsStick /\ AnswersAreTrue
  BY InvKeyOpens, InvRefuses, TruthsAreAnswers DEF Inv
<1> QED BY <1>4, <1>5, PTL
=============================================================================
