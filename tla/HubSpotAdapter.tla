---------------------------- MODULE HubSpotAdapter ----------------------------
(***************************************************************************)
(* What the HubSpot adapter makes of one HTTP exchange                     *)
(* (src/project3_crm/integrations/hubspot.py), and what the CRM worker     *)
(* makes of the lookups that follow a refused create                       *)
(* (src/project3_crm/crm_delivery.py).  Everything here is a pure          *)
(* function of the answer.                                                 *)
(*                                                                         *)
(* An answer is a record: how the exchange ended (a response, a failure    *)
(* before transmission, a transport failure after it), the status code,    *)
(* whether the body was usable (a Contact id, and for a lookup a property  *)
(* object), whether the identity it returned equals the lead's own, and    *)
(* the Retry-After header.                                                 *)
(***************************************************************************)
EXTENDS Integers

CONSTANTS
    Statuses,   \* the HTTP status codes the provider may answer with
    Headers     \* the Retry-After headers it may send

NoTime == -1    \* SQL NULL in a timestamp column

NoHeader == [kind |-> "absent", n |-> 0]

RetryAfterHeaders == [kind : {"absent", "seconds", "date", "garbage"}, n : Nat]

ASSUME StatusesAssumption == Statuses \subseteq 100..599
ASSUME HeadersAssumption == Headers \subseteq RetryAfterHeaders

Answers == [kind   : {"response", "notSent", "broken"},
            status : Statuses,
            usable : BOOLEAN,
            same   : BOOLEAN,
            after  : Headers]

-----------------------------------------------------------------------------
(***************************************************************************)
(* The provider's side of a create.  A request that created the Contact is *)
(* never followed by a 4xx response or by a failure to connect, and an     *)
(* unperformed one is never confirmed with a Contact id.  These two sets   *)
(* are the trust the code places in HubSpot; they overlap in the answers   *)
(* that say nothing about the outcome.                                     *)
(***************************************************************************)
CreatedAnswers ==
    {a \in Answers : \/ a.kind = "broken"
                     \/ a.kind = "response" /\ a.status \notin 400..499}

NotCreatedAnswers ==
    {a \in Answers : ~ (a.kind = "response" /\ a.status \in 200..299 /\ a.usable)}

-----------------------------------------------------------------------------
CreateCategories ==
    {"SUCCESS", "AUTH_FAILURE", "CONFIG_FAILURE", "CONFLICT_REQUIRES_LOOKUP",
     "RETRYABLE_FAILURE", "RATE_LIMITED", "UNKNOWN",
     "BAD_REQUEST_REQUIRES_SAFE_CLASSIFICATION",
     "UNCLASSIFIED_PERMANENT_FAILURE"}

(* The category of a create response: only a 2xx with an id is a success,   *)
(* and every status that is not a definite refusal is an unknown outcome.   *)
CreateStatusCategory(status, usable) ==
    CASE status \in 200..299 -> IF usable THEN "SUCCESS" ELSE "UNKNOWN"
      [] status = 400 -> "BAD_REQUEST_REQUIRES_SAFE_CLASSIFICATION"
      [] status = 401 -> "AUTH_FAILURE"
      [] status \in {403, 404, 405} -> "CONFIG_FAILURE"
      [] status = 409 -> "CONFLICT_REQUIRES_LOOKUP"
      [] status \in {423, 477} -> "RETRYABLE_FAILURE"
      [] status = 429 -> "RATE_LIMITED"
      [] status \in (400..499) \ {400, 401, 403, 404, 405, 409, 423, 429, 477}
           -> "UNCLASSIFIED_PERMANENT_FAILURE"
      [] OTHER -> "UNKNOWN"

(* Mutant: every transport failure is taken for a failure to connect.       *)
ClassifyCreateHopeful(a) ==
    CASE a.kind # "response" -> "RETRYABLE_FAILURE"
      [] OTHER               -> CreateStatusCategory(a.status, a.usable)

(* create_contact: connect and pool failures happen before transmission.    *)
ClassifyCreate(a) ==
    CASE a.kind = "notSent"  -> "RETRYABLE_FAILURE"
      [] a.kind = "broken"   -> "UNKNOWN"
      [] OTHER               -> CreateStatusCategory(a.status, a.usable)

ReadCategories ==
    {"FOUND", "ACTIVE_NOT_FOUND", "AUTH_FAILURE", "CONFIG_FAILURE",
     "RETRYABLE_READ_FAILURE", "INDETERMINATE_READ"}

(* A lookup: every transport failure, and a 200 whose body is unusable, is  *)
(* indeterminate.                                                           *)
ClassifyRead(a) ==
    IF a.kind # "response" THEN "INDETERMINATE_READ"
    ELSE CASE a.status = 200                  -> IF a.usable THEN "FOUND"
                                                 ELSE "INDETERMINATE_READ"
           [] a.status = 404                  -> "ACTIVE_NOT_FOUND"
           [] a.status = 401                  -> "AUTH_FAILURE"
           [] a.status \in {400, 403, 405}    -> "CONFIG_FAILURE"
           [] a.status \in {423, 429, 477}    -> "RETRYABLE_READ_FAILURE"
           [] OTHER                           -> "INDETERMINATE_READ"

-----------------------------------------------------------------------------
(***************************************************************************)
(* What the worker concludes from a lookup.                                *)
(***************************************************************************)
ReadEvidenceKinds ==
    (ReadCategories \ {"FOUND"}) \union {"FOUND_MATCH", "FOUND_MISMATCH"}

(* Mutant: a Contact that carries the reference is the lead's own.          *)
ReadEvidenceUnverified(a) ==
    IF ClassifyRead(a) # "FOUND" THEN ClassifyRead(a) ELSE "FOUND_MATCH"

(* A found Contact counts as the lead's own only when the identity the      *)
(* lookup returned is the lead's identity.                                  *)
ReadEvidence(a) ==
    IF ClassifyRead(a) # "FOUND" THEN ClassifyRead(a)
    ELSE IF a.same THEN "FOUND_MATCH" ELSE "FOUND_MISMATCH"

Decisions == {"PAUSE_AUTH", "PAUSE_CONFIG", "EXISTING_CONTACT", "FAILED_ESCALATED"}

NeedsEmailLookup == "NEEDS_EMAIL_LOOKUP"

(* A lookup that itself failed decides the matter: access problems pause    *)
(* CRM delivery, an indeterminate lookup is a terminal failure.             *)
BlockerDecision(e) ==
    CASE e = "AUTH_FAILURE"   -> "PAUSE_AUTH"
      [] e = "CONFIG_FAILURE" -> "PAUSE_CONFIG"
      [] OTHER                -> "FAILED_ESCALATED"

(* After a 400: a Contact carrying the reference, matching or not, pauses.  *)
BadRequestDecision(e) ==
    IF e \in {"FOUND_MATCH", "FOUND_MISMATCH"} THEN "PAUSE_CONFIG"
    ELSE BlockerDecision(e)

(* After a 409: as for a 400, but an absent reference leads on to a lookup  *)
(* by email when the lead has one.                                          *)
ConflictDecision(e, hasEmail) ==
    CASE e \in {"FOUND_MATCH", "FOUND_MISMATCH"}   -> "PAUSE_CONFIG"
      [] e = "ACTIVE_NOT_FOUND" /\ hasEmail        -> NeedsEmailLookup
      [] OTHER                                     -> BlockerDecision(e)

EmailDecision(e) ==
    CASE e = "FOUND_MATCH"    -> "EXISTING_CONTACT"
      [] e = "FOUND_MISMATCH" -> "PAUSE_CONFIG"
      [] OTHER                -> BlockerDecision(e)

-----------------------------------------------------------------------------
(* _retry_after_time: a delta is counted from the given time, a date stands *)
(* for itself, anything else is no instruction at all.                      *)
RetryAfterTime(header, t) ==
    CASE header.kind = "seconds" -> t + header.n
      [] header.kind = "date"    -> header.n
      [] OTHER                   -> NoTime

(* max(configured_time, provider_time or configured_time) *)
LaterOf(configured, provider) ==
    IF provider > configured THEN provider ELSE configured
=============================================================================
