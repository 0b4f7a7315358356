------------------------------ MODULE Accounts ------------------------------
(***************************************************************************)
(* Accounts, API keys and the decisions of administrators.                   *)
(*                                                                         *)
(* A request authenticates with a JWT or an API key, then runs its handler,  *)
(* in one session: between two awaits other requests commit, and what was    *)
(* read before stays as it was read.  A handler's flushes and its commit are   *)
(* one action here: nobody sees a flushed row before the commit, and a second  *)
(* writer of it waits for that commit.  An administrator's decision about an   *)
(* account is its approval or suspension.                                   *)
(***************************************************************************)
EXTENDS HttpErrors

CONSTANTS
  Users,        \* ids a user's row can have
  Admin,        \* the first administrator's
  Emails,       \* addresses; AdminEmail is the first administrator's
  AdminEmail,
  Keys,         \* API keys that can be drawn
  Prefix,       \* the first 12 characters of each, 7 of them random
  Sessions,     \* requests that can be in flight at the same time
  MaxRequests,  \* bound: requests and grants in a behaviour
  NULL

ASSUME AccountsAssumption ==
  /\ Admin \in Users
  /\ AdminEmail \in Emails
  /\ DOMAIN Prefix = Keys
  /\ NULL \notin Users \cup Emails \cup Keys
  /\ MaxRequests \in Nat

VARIABLES
  users,    \* table users: NULL, or a row
  keys,     \* table api_keys: NULL, or a row
  held,     \* the credentials callers have been given
  req,      \* the request each session serves
  served,   \* requests and grants begun
  decided,  \* ghost: what the last committed decision makes of each status
  blind     \* ghost: that decision was taken on a row already decided upon

vars == <<users, keys, held, req, served, decided, blind>>

Statuses == {"pending", "active", "suspended"}

UserRow == [email : Emails, status : Statuses, admin : BOOLEAN]
KeyRow == [owner : Users, revoked : BOOLEAN]

ASSUME NullIsNoRow == NULL \notin UserRow \cup KeyRow

NoCredential == [kind |-> "none", id |-> NULL]
Credentials ==
  [kind : {"jwt"}, id : Users] \cup [kind : {"key"}, id : Keys] \cup {NoCredential}

AdminOps == {"approve", "suspend"}
Ops == AdminOps \cup {"signup", "login", "me", "generate", "revoke"}

\* Where a request is, what it is about, and how it is answered.
Stages == {"idle", "auth", "user", "handle", "write", "answer", "done"}
Subjects == Users \cup Emails \cup Keys \cup {NULL}
Codes == {200, 201, 400, 401, 403, 404, 500}

\* seen is the status of the caller's row, later of the row a decision changes, as
\* the session has it; the rest are ghosts: the key was revoked when the request
\* arrived (dead), its caller has not been active since (barred), another decision
\* was committed after this one's read (raced), the request committed rows, those of
\* the audit log included (wrote), the database failed it (broke).
Requests ==
  [pc : Stages, op : Ops, cred : Credentials, arg : Subjects,
   actor : Users \cup {NULL}, seen : Statuses, dead : BOOLEAN, barred : BOOLEAN,
   raced : BOOLEAN, wrote : BOOLEAN, broke : BOOLEAN, code : Codes]

Idle ==
  [pc |-> "idle", op |-> "me", cred |-> NoCredential, arg |-> NULL, actor |-> NULL,
   seen |-> "pending", dead |-> FALSE, barred |-> FALSE, raced |-> FALSE,
   wrote |-> FALSE, broke |-> FALSE, code |-> 200]

\* The rows that exist, and the account behind a credential.
Accounts == {u \in Users : users[u] # NULL}
Drawn == {k \in Keys : keys[k] # NULL}
Behind(cred) == IF cred.kind = "key" THEN keys[cred.id].owner ELSE cred.id

-----------------------------------------------------------------------------
(* Steps common to the handlers *)

\* The request in session s moves to pc.
Goto(s, pc) == req' = [req EXCEPT ![s].pc = pc]

\* The request in session s is answered: what it read goes with the session, and
\* a refusal is about nothing any more, but for a login's.
Answered(r, code) ==
  [Idle EXCEPT !.pc = "done", !.code = code, !.dead = r.dead, !.wrote = r.wrote,
               !.raced = code < 400 /\ r.raced,
               !.op = IF code < 400 \/ r.op = "login" THEN r.op ELSE @,
               !.arg = IF code < 400 /\ r.op \notin {"login", "me"} THEN r.arg ELSE @]
Answer(s, code) == req' = [req EXCEPT ![s] = Answered(@, code)]

\* The same, once an event that is all it does is committed.
AnswerAudited(s, code) ==
  req' = [req EXCEPT ![s] = Answered([@ EXCEPT !.wrote = TRUE], code)]

\* It raised a domain error.
Raise(s, error) == Answer(s, StatusCode(error))

\* The database failed it.
Broken(s) == req' = [req EXCEPT ![s] = [Answered(@, 500) EXCEPT !.broke = TRUE]]

\* A request arrives, with a credential some caller holds or none.
Arrive(s, op, cred, arg) ==
  /\ req[s].pc \in {"idle", "done"}
  /\ served < MaxRequests
  /\ served' = served + 1
  /\ req' = [req EXCEPT ![s] =
       [Idle EXCEPT !.pc = IF op \in {"signup", "login"} THEN "handle" ELSE "auth",
                    !.op = op, !.cred = cred, !.arg = arg,
                    !.dead = cred.kind = "key" /\ keys[cred.id].revoked,
                    !.barred = /\ op = "generate"
                               /\ users[Behind(cred)].status # "active"]]
  /\ UNCHANGED <<users, keys, held, decided, blind>>

\* What a caller can ask for.  Authentication does not depend on the handler, so
\* that one request without a credential stands for all.
Request(s) ==
  \/ \E e \in Emails, op \in {"signup", "login"} : Arrive(s, op, NoCredential, e)
  \/ Arrive(s, "me", NoCredential, NULL)
  \/ \E c \in held :
       \/ \E op \in {"me", "generate"} : Arrive(s, op, c, NULL)
       \/ \E k \in Keys : Arrive(s, "revoke", c, k)
       \/ \E u \in Users, op \in AdminOps : Arrive(s, op, c, u)

\* The connection to the database, or to the caller, is lost.  What was
\* committed stays.
Abort(s) ==
  /\ req[s].pc \notin {"idle", "done"}
  /\ Broken(s)
  /\ UNCHANGED <<users, keys, held, served, decided, blind>>

-----------------------------------------------------------------------------
(* get_current_user and require_admin *)

\* No credential, or a JWT that has expired.
Unauthenticated(s) ==
  /\ req[s].pc = "auth"
  /\ req[s].cred.kind \in {"none", "jwt"}
  /\ Answer(s, 401)
  /\ UNCHANGED <<users, keys, held, served, decided, blind>>

\* decode_token accepts the JWT.
DecodeToken(s) ==
  /\ req[s].pc = "auth"
  /\ req[s].cred.kind = "jwt"
  /\ req' = [req EXCEPT ![s].pc = "user", ![s].actor = req[s].cred.id]
  /\ UNCHANGED <<users, keys, held, served, decided, blind>>

\* Fault: a revoked key still authenticates.
LookupKeyRevoked(s) ==
  /\ req[s].pc = "auth"
  /\ req[s].cred.kind = "key"
  /\ LET k == req[s].cred.id IN
       req' = [req EXCEPT ![s].pc = "user", ![s].actor = keys[k].owner]
  /\ UNCHANGED <<users, keys, held, served, decided, blind>>

\* ApiKeyService.authenticate: the row with the key's prefix, unless it is
\* revoked or holds the hash of another key.  Two such rows are an error (500).
LookupKey(s) ==
  /\ req[s].pc = "auth"
  /\ req[s].cred.kind = "key"
  /\ LET rows == {k \in Drawn : Prefix[k] = Prefix[req[s].cred.id]}
         k == req[s].cred.id
     IN CASE rows # {k}        -> Answer(s, IF k \in rows THEN 500 ELSE 401)
          [] keys[k].revoked   -> Answer(s, 401)
          [] OTHER -> req' = [req EXCEPT ![s].pc = "user", ![s].actor = keys[k].owner]
  /\ UNCHANGED <<users, keys, held, served, decided, blind>>

\* The user's row is read, and an administrator's request by anybody else is
\* refused.  me has all it needs.
LoadUser(s) ==
  /\ req[s].pc = "user"
  /\ LET row == users[req[s].actor] IN
     CASE req[s].op \in AdminOps /\ ~row.admin -> Answer(s, 403)
       [] req[s].op = "me" -> Answer(s, 200)
       [] OTHER -> req' = [req EXCEPT ![s].pc = "handle", ![s].seen = row.status]
  /\ UNCHANGED <<users, keys, held, served, decided, blind>>

-----------------------------------------------------------------------------
(* /api/auth *)

\* get_by_email: the address is refused if it is taken.
SignupRead(s) ==
  /\ req[s].pc = "handle"
  /\ req[s].op = "signup"
  /\ IF \E u \in Accounts : users[u].email = req[s].arg
       THEN Raise(s, "EmailAlreadyExists")
       ELSE Goto(s, "write")
  /\ UNCHANGED <<users, keys, held, served, decided, blind>>

\* The INSERT of the user and of auth.signup.  The address is unique: the
\* second to insert it fails.
SignupCommit(s) ==
  /\ req[s].pc = "write"
  /\ req[s].op = "signup"
  /\ \E u \in Users \ Accounts :
       IF \E v \in Accounts : users[v].email = req[s].arg
         THEN /\ Broken(s)
              /\ UNCHANGED <<users, decided>>
         ELSE /\ users' = [users EXCEPT ![u] =
                   [email |-> req[s].arg, status |-> "pending", admin |-> FALSE]]
              /\ decided' = [decided EXCEPT ![u] = "pending"]
              /\ req' = [req EXCEPT ![s].pc = "answer", ![s].wrote = TRUE]
  /\ UNCHANGED <<keys, held, served, blind>>

\* Fault: an address nobody has logs in, with a token for no user.
LoginUnknown(s) ==
  /\ req[s].pc = "handle"
  /\ req[s].op = "login"
  /\ LET u == CHOOSE v \in Accounts \cup {NULL} :
                \A w \in Accounts : users[w].email = req[s].arg => v = w
     IN held' = held \cup {[kind |-> "jwt", id |-> u]}
  /\ AnswerAudited(s, 200)
  /\ UNCHANGED <<users, keys, served, decided, blind>>

\* Login with the right password, which commits auth.login.success, or a wrong one,
\* which commits auth.login.failed and is refused then.  A row's address and hash
\* never change, so that reading it and committing the event is one step.
Login(s) ==
  /\ req[s].pc = "handle"
  /\ req[s].op = "login"
  /\ \/ /\ AnswerAudited(s, StatusCode("InvalidCredentials"))
        /\ UNCHANGED held
     \/ \E u \in Accounts :
          /\ users[u].email = req[s].arg
          /\ held' = held \cup {[kind |-> "jwt", id |-> u]}
          /\ AnswerAudited(s, 200)
  /\ UNCHANGED <<users, keys, served, decided, blind>>

-----------------------------------------------------------------------------
(* /api/keys *)

\* Fault: the caller's status is not looked at.
GenerateUnchecked(s) ==
  /\ req[s].pc = "handle"
  /\ req[s].op = "generate"
  /\ Goto(s, "write")
  /\ UNCHANGED <<users, keys, held, served, decided, blind>>

\* generate reads nothing: the status is the one authentication read.
GenerateCheck(s) ==
  /\ req[s].pc = "handle"
  /\ req[s].op = "generate"
  /\ IF req[s].seen = "active" THEN Goto(s, "write") ELSE Raise(s, "AccountNotActive")
  /\ UNCHANGED <<users, keys, held, served, decided, blind>>

\* Fault: the prefix is unique among the keys in force only.
GenerateCommitPartial(s) ==
  /\ req[s].pc = "write"
  /\ req[s].op = "generate"
  /\ \E k \in Keys \ Drawn :
       IF \E l \in Drawn : Prefix[l] = Prefix[k] /\ ~keys[l].revoked
         THEN Broken(s) /\ UNCHANGED keys
         ELSE /\ keys' = [keys EXCEPT ![k] = [owner |-> req[s].actor, revoked |-> FALSE]]
              /\ req' = [req EXCEPT ![s].pc = "answer", ![s].arg = k, ![s].wrote = TRUE]
  /\ UNCHANGED <<users, held, served, decided, blind>>

\* generate_api_key and the INSERT of its row and of apikey.created.  A prefix
\* is unique among all rows, the revoked ones included.
GenerateCommit(s) ==
  /\ req[s].pc = "write"
  /\ req[s].op = "generate"
  /\ \E k \in Keys \ Drawn :
       IF \E l \in Drawn : Prefix[l] = Prefix[k]
         THEN Broken(s) /\ UNCHANGED keys
         ELSE /\ keys' = [keys EXCEPT ![k] = [owner |-> req[s].actor, revoked |-> FALSE]]
              /\ req' = [req EXCEPT ![s].pc = "answer", ![s].arg = k, ![s].wrote = TRUE]
  /\ UNCHANGED <<users, held, served, decided, blind>>

\* revoke's SELECT.  The session that authenticated with this key has its row,
\* as it was then; a revoked key is answered without a write.
RevokeRead(s) ==
  /\ req[s].pc = "handle"
  /\ req[s].op = "revoke"
  /\ LET k == req[s].arg
         own == req[s].cred = [kind |-> "key", id |-> k]
     IN CASE k \notin Drawn -> Raise(s, "ApiKeyNotFound")
          [] k \in Drawn /\ keys[k].owner # req[s].actor -> Raise(s, "ApiKeyNotOwned")
          [] k \in Drawn /\ keys[k].owner = req[s].actor ->
               IF keys[k].revoked /\ ~own THEN Answer(s, 200) ELSE Goto(s, "write")
  /\ UNCHANGED <<users, keys, held, served, decided, blind>>

\* revoked_at and apikey.revoked.
RevokeCommit(s) ==
  /\ req[s].pc = "write"
  /\ req[s].op = "revoke"
  /\ keys' = [keys EXCEPT ![req[s].arg].revoked = TRUE]
  /\ req' = [req EXCEPT ![s].pc = "answer", ![s].wrote = TRUE]
  /\ UNCHANGED <<users, held, served, decided, blind>>

-----------------------------------------------------------------------------
(* The administrators: POST /api/admin/users/{id}/..., and python -m app.cli *)

\* Session t has read the row of u that its decision will change, or has changed.
\* An administrator's own row is the one authentication read.
HasRow(t, u) ==
  /\ req[t].op \in AdminOps
  /\ req[t].arg = u
  /\ \/ req[t].pc \in {"write", "answer", "done"}
     \/ req[t].pc = "handle" /\ req[t].actor = u

\* What a decision about u means for the requests in flight.
Noticed(u, status) ==
  [t \in Sessions |->
    [req[t] EXCEPT !.raced = @ \/ HasRow(t, u),
                   !.barred = @ /\ (status # "active" \/ Behind(req[t].cred) # u)]]

\* get_by_id of approve_user and suspend_user.
DecisionRead(s) ==
  /\ req[s].pc = "handle"
  /\ req[s].op \in AdminOps
  /\ LET u == req[s].arg IN
     CASE u \notin Accounts -> Raise(s, "UserNotFound")
       [] u \in Accounts /\ u = req[s].actor -> Goto(s, "write")
       [] u \in Accounts /\ u # req[s].actor ->
            req' = [req EXCEPT ![s].pc = "write", ![s].seen = users[u].status]
  /\ UNCHANGED <<users, keys, held, served, decided, blind>>

\* Fault: a decision that was taken already is not taken again.
DecideOnce(s, op, status) ==
  /\ req[s].pc = "write"
  /\ req[s].op = op
  /\ LET u == req[s].arg IN
     /\ users' = [users EXCEPT ![u].status = IF @ = "pending" THEN status ELSE @]
     /\ decided' = [decided EXCEPT ![u] = status]
     /\ blind' = [blind EXCEPT ![u] = req[s].raced]
     /\ req' = [Noticed(u, status) EXCEPT ![s] = [req[s] EXCEPT !.pc = "answer",
                                                              !.wrote = TRUE]]
  /\ UNCHANGED <<keys, held, served>>

\* The decision and its audit event.  The UPDATE names the columns that differ
\* from the row the session read: a status that was already so is not written.
Decide(s, op, status) ==
  /\ req[s].pc = "write"
  /\ req[s].op = op
  /\ LET u == req[s].arg IN
     /\ users' = [users EXCEPT ![u].status = IF req[s].seen = status THEN @ ELSE status]
     /\ decided' = [decided EXCEPT ![u] = status]
     /\ blind' = [blind EXCEPT ![u] = req[s].raced]
     /\ req' = [Noticed(u, status) EXCEPT ![s] = [req[s] EXCEPT !.pc = "answer",
                                                              !.wrote = TRUE]]
  /\ UNCHANGED <<keys, held, served>>

ApproveCommit(s) == Decide(s, "approve", "active")
SuspendCommit(s) == Decide(s, "suspend", "suspended")

\* grant-admin: one UPDATE by address, and no audit event.
GrantAdmin(e) ==
  /\ served < MaxRequests
  /\ served' = served + 1
  /\ \E u \in Accounts :
       /\ users[u].email = e
       /\ users' = [users EXCEPT ![u].admin = TRUE, ![u].status = "active"]
       /\ decided' = [decided EXCEPT ![u] = "active"]
       /\ blind' = [blind EXCEPT ![u] = FALSE]
       /\ req' = Noticed(u, "active")
  /\ UNCHANGED <<keys, held>>

\* The refresh after a commit, and the answer.
Refresh(s) ==
  /\ req[s].pc = "answer"
  /\ Answer(s, IF req[s].op \in {"signup", "generate"} THEN 201 ELSE 200)
  /\ held' = IF req[s].op = "generate"
               THEN held \cup {[kind |-> "key", id |-> req[s].arg]}
               ELSE held
  /\ UNCHANGED <<users, keys, served, decided, blind>>

-----------------------------------------------------------------------------
(* The specification *)

\* A new database.
NoAccounts ==
  /\ users = [u \in Users |-> NULL]
  /\ keys = [k \in Keys |-> NULL]
  /\ held = {}
  /\ req = [s \in Sessions |-> Idle]
  /\ served = 0
  /\ decided = [u \in Users |-> "pending"]
  /\ blind = [u \in Users |-> FALSE]

\* The first administrator has been granted; another account may exist, with a
\* key in force or a revoked one.
Init ==
  \E second \in Users \ {Admin}, email \in Emails \ {AdminEmail},
     status \in Statuses \cup {NULL}, k \in Keys, key \in {"none", "live", "revoked"} :
    /\ status \in {"pending", NULL} => key = "none"
    /\ users = [u \in Users |->
         CASE u = Admin -> [email |-> AdminEmail, status |-> "active", admin |-> TRUE]
           [] u = second /\ status # NULL ->
                [email |-> email, status |-> status, admin |-> FALSE]
           [] OTHER -> NULL]
    /\ keys = [l \in Keys |->
         IF l = k /\ key # "none"
           THEN [owner |-> second, revoked |-> key = "revoked"]
           ELSE NULL]
    /\ held = {[kind |-> "jwt", id |-> u] : u \in Accounts}
                \cup {[kind |-> "key", id |-> l] : l \in Drawn}
    /\ req = [s \in Sessions |-> Idle]
    /\ served = 0
    /\ decided = [u \in Users |-> IF users[u] = NULL THEN "pending" ELSE users[u].status]
    /\ blind = [u \in Users |-> FALSE]

Next ==
  \/ \E s \in Sessions :
       \/ Request(s)
       \/ Abort(s)
       \/ Unauthenticated(s)
       \/ DecodeToken(s)
       \/ LookupKey(s)
       \/ LoadUser(s)
       \/ SignupRead(s)
       \/ SignupCommit(s)
       \/ Login(s)
       \/ GenerateCheck(s)
       \/ GenerateCommit(s)
       \/ RevokeRead(s)
       \/ RevokeCommit(s)
       \/ DecisionRead(s)
       \/ ApproveCommit(s)
       \/ SuspendCommit(s)
       \/ Refresh(s)
  \/ \E e \in Emails : GrantAdmin(e)

Spec == Init /\ [][Next]_vars

-----------------------------------------------------------------------------
(* Properties *)

\* The variables have their types.
TypeOK ==
  /\ users \in [Users -> UserRow \cup {NULL}]
  /\ keys \in [Keys -> KeyRow \cup {NULL}]
  /\ held \in SUBSET (Credentials \ {NoCredential})
  /\ req \in [Sessions -> Requests]
  /\ served \in 0 .. MaxRequests
  /\ decided \in [Users -> Statuses]
  /\ blind \in [Users -> BOOLEAN]

\* get_by_email expects at most one row (scalar_one_or_none), whatever signups
\* found the address free together.
EmailsUnique ==
  \A u, v \in Accounts : users[u].email = users[v].email => u = v

\* A request that presents a key which is not revoked is served, and as the
\* account the key was made for: no other key, revoked ones included, is found
\* by its prefix (get_by_prefix, deps.get_current_user).
KeyOpensItsAccount ==
  /\ \A c \in held : c.kind = "key" =>
       \A k \in Drawn : Prefix[k] = Prefix[c.id] => k = c.id
  /\ \A s \in Sessions :
       req[s].actor # NULL /\ req[s].cred.kind = "key" =>
         req[s].actor = keys[req[s].cred.id].owner

\* A request that arrives once its key's revocation is committed gets nothing,
\* whatever keys are drawn in the meantime (ApiKeyService.authenticate).
RevokedKeyIsOut ==
  \A s \in Sessions :
    req[s].dead => \/ req[s].pc = "auth"
                   \/ req[s].pc = "done" /\ req[s].code \in {401, 500} /\ ~req[s].wrote

\* A key is made only for a caller who was active at some moment of the request:
\* a suspension overtakes the requests in flight and no later one
\* (ApiKeyService.generate and the status authentication read).
NoKeyWhileSuspended ==
  \A s \in Sessions : req[s].op = "generate" /\ req[s].wrote => ~req[s].barred

\* An account's status is what its last decision made it, unless that decision
\* was taken on a row that another decision had changed since it was read: then
\* approve_user may leave a suspension in place that it saw no sign of.
DecisionsStick ==
  \A u \in Accounts : ~blind[u] => users[u].status = decided[u]

\* What a caller is told is so.  A success is in the tables: a decision's 200 says
\* what the account is, unless another was committed since it read the account.  A
\* refusal has changed nothing, a login's excepted, which leaves its audit event as
\* a success does (auth.login.failed).  Every refusal has its own answer, 500 being
\* the database's (the handlers of main.py; the commit comes before the answer).
AnswersAreTrue ==
  \A s \in Sessions : LET r == req[s] IN
    r.pc = "done" =>
      /\ r.code = 500 <=> r.broke
      /\ r.code \in {400, 401, 403, 404} => (r.wrote <=> r.op = "login")
      /\ r.code < 400 =>
           /\ r.op = "signup" => \E u \in Accounts : \A v \in Accounts :
                                  users[v].email = r.arg <=> v = u
           /\ r.op = "generate" => r.arg \in Drawn
           /\ r.op = "revoke" => keys[r.arg].revoked
           /\ r.op = "approve" => r.raced \/ users[r.arg].status = "active"
           /\ r.op = "suspend" => r.raced \/ users[r.arg].status = "suspended"
           /\ r.op = "login" => r.wrote
           /\ r.op = "me" => ~r.wrote
=============================================================================
