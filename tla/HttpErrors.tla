----------------------------- MODULE HttpErrors -----------------------------
(***************************************************************************)
(* The errors the services raise and the answers main.py turns them into.    *)
(* An error that has no handler, a database error among them, is a 500.       *)
(***************************************************************************)
EXTENDS Naturals

\* The subclasses of DomainError.
DomainErrors ==
  {"EmailAlreadyExists", "InvalidCredentials", "UserNotFound",
   "AuditEventNotFound", "ApiKeyNotFound", "ApiKeyNotOwned", "AccountNotActive",
   "InvalidPaginationCursor", "NotAHost", "ClaimTokenInvalid",
   "InsufficientCredits", "JobNotFound", "JobNotOwned", "InvalidJobTransition",
   "NodeNotFound", "NodeBusy", "NodeNotDraining"}

\* The handlers: which errors each answer stands for.
Handlers ==
  [code \in {400, 401, 402, 403, 404, 409} |->
     CASE code = 400 -> {"EmailAlreadyExists", "InvalidPaginationCursor",
                         "ClaimTokenInvalid"}
       [] code = 401 -> {"InvalidCredentials"}
       [] code = 402 -> {"InsufficientCredits"}
       [] code = 403 -> {"AccountNotActive", "ApiKeyNotOwned", "NotAHost"}
       [] code = 404 -> {"UserNotFound", "AuditEventNotFound", "ApiKeyNotFound",
                         "JobNotFound", "JobNotOwned", "NodeNotFound"}
       [] code = 409 -> {"InvalidJobTransition", "NodeBusy", "NodeNotDraining"}]

\* Fault: ApiKeyNotOwned has no handler.
StatusCodeUnhandled(error) ==
  IF \E c \in DOMAIN Handlers : error \in Handlers[c] \ {"ApiKeyNotOwned"}
    THEN CHOOSE c \in DOMAIN Handlers : error \in Handlers[c]
    ELSE 500

\* The status code of the answer to a request that raised the error.
StatusCode(error) ==
  IF \E c \in DOMAIN Handlers : error \in Handlers[c]
    THEN CHOOSE c \in DOMAIN Handlers : error \in Handlers[c]
    ELSE 500
=============================================================================
