------------------------------ MODULE SmtpSender ------------------------------
(***************************************************************************)
(* SmtpNotificationSender (src/project3_crm/notifications/smtp.py): one    *)
(* attempt to mail one message, and what the sender reports of it.  An     *)
(* attempt is described by what smtplib did: it was not begun, it ended    *)
(* with a set of refused recipients, or it raised.  `taken` is the set of  *)
(* recipients the server took the message for, which the sender cannot     *)
(* see.                                                                    *)
(***************************************************************************)
EXTENDS Integers, Sequences

CONSTANT Codes   \* SMTP reply codes that are not success

ASSUME CodesAssumption == Codes \subseteq Nat

NoCode == -1

(* The addressees of each kind of message, TO and CC together.              *)
Addressees == [crm           |-> {"ops", "automation"},
               normalization |-> {"automation"},
               pause         |-> {"ops", "automation"},
               cluster       |-> {"ops", "automation"}]

-----------------------------------------------------------------------------
(***************************************************************************)
(* The exceptions of smtplib, ssl and sockets, and their base classes.     *)
(***************************************************************************)
WithCode == {"SMTPAuthenticationError", "SMTPConnectError", "SMTPDataError",
             "SMTPHeloError", "SMTPSenderRefused"}

WithoutCode == {"SMTPNotSupportedError", "SMTPServerDisconnected", "OtherSMTPException",
                "SSLError", "TimeoutError", "ConnectionError", "OtherOSError", "OtherError"}

Base(class) ==
    CASE class \in WithCode -> "SMTPResponseException"
      [] class \in {"SMTPResponseException", "SMTPNotSupportedError", "SMTPRecipientsRefused",
                    "SMTPServerDisconnected", "OtherSMTPException"} -> "SMTPException"
      [] class \in {"SMTPException", "SSLError", "TimeoutError", "ConnectionError",
                    "OtherOSError"} -> "OSError"
      [] OTHER -> "Exception"

(* A class and its bases, from the class itself to Exception.               *)
Lineage(class) ==
    LET second == Base(class)
        third  == Base(second)
    IN  <<class, second, third, Base(third), "Exception">>

(* Mutant: the clause for network errors comes before those of smtplib.     *)
NetworkFirst ==
    <<"TimeoutError", "ConnectionError", "OSError", "SMTPAuthenticationError",
      "SMTPNotSupportedError", "SMTPRecipientsRefused", "SMTPConnectError",
      "SMTPSenderRefused", "SMTPDataError", "SMTPResponseException",
      "SMTPServerDisconnected", "SSLError", "SMTPException", "Exception">>

(* The except clauses of send, in their order.                              *)
Clauses ==
    <<"SMTPAuthenticationError", "SMTPNotSupportedError", "SMTPRecipientsRefused",
      "SMTPConnectError", "SMTPSenderRefused", "SMTPDataError", "SMTPResponseException",
      "SMTPServerDisconnected", "SSLError", "SMTPException",
      "TimeoutError", "ConnectionError", "OSError", "Exception">>

(* The first clause that names the exception's class or one of its bases.   *)
Handler(class) ==
    LET catches(i) == \E j \in 1..5 : Lineage(class)[j] = Clauses[i]
    IN  Clauses[CHOOSE i \in DOMAIN Clauses :
                    catches(i) /\ \A k \in 1..(i - 1) : ~ catches(k)]

-----------------------------------------------------------------------------
(***************************************************************************)
(* What one attempt may be, by smtplib and the server.  Nothing is         *)
(* delivered when the server refuses before or at the end of the message.  *)
(* When the connection is lost, any of the recipients may have the message *)
(* already.                                                                *)
(***************************************************************************)
Refusals(to) == [to -> Codes \union {NoCode}]

NoRefusal(to) == [r \in to |-> NoCode]

Refused(f) == {r \in DOMAIN f : f[r] # NoCode}

LostAnswer == {"SMTPServerDisconnected", "TimeoutError", "ConnectionError", "OtherOSError"}

Attempt(to, end, class, code, refused, taken) ==
    [to |-> to, end |-> end, class |-> class, code |-> code, refused |-> refused,
     taken |-> taken]

(* STARTTLS is switched off, or the message cannot be built.                *)
NotBegun(to) == {Attempt(to, "not begun", "none", NoCode, NoRefusal(to), {})}

Answered(to) ==
    {Attempt(to, "answered", "none", NoCode, f, to \ Refused(f)) :
         f \in {g \in Refusals(to) : Refused(g) # to}}

Raised(to) ==
    {Attempt(to, "raised", class, code, NoRefusal(to), {}) :
         class \in WithCode, code \in Codes}
    \union {Attempt(to, "raised", "SMTPRecipientsRefused", NoCode, f, {}) :
         f \in {g \in Refusals(to) : Refused(g) # {}}}
    \union UNION {{Attempt(to, "raised", class, NoCode, NoRefusal(to), taken) :
         taken \in IF class \in LostAnswer THEN SUBSET to ELSE {{}}} : class \in WithoutCode}

Attempts(to) == NotBegun(to) \union Answered(to) \union Raised(to)

-----------------------------------------------------------------------------
(***************************************************************************)
(* What send reports.                                                      *)
(***************************************************************************)
Categories == {"SUCCESS", "TEMPORARY_FAILURE", "PERMANENT_FAILURE", "CONFIGURATION_FAILURE"}

Transient(code) == 400 <= code /\ code < 500

ResponseFailure(code) ==
    IF Transient(code) THEN "TEMPORARY_FAILURE" ELSE "PERMANENT_FAILURE"

(* A temporary refusal of one recipient makes the whole result temporary.   *)
RefusedRecipientResult(f) ==
    IF \E r \in Refused(f) : Transient(f[r]) THEN "TEMPORARY_FAILURE" ELSE "PERMANENT_FAILURE"

ExceptionResult(x) ==
    LET handler == Handler(x.class)
    IN  CASE handler \in {"SMTPAuthenticationError", "SMTPNotSupportedError", "SSLError"} ->
                 "CONFIGURATION_FAILURE"
          [] handler = "SMTPRecipientsRefused" -> RefusedRecipientResult(x.refused)
          [] handler \in {"SMTPSenderRefused", "SMTPDataError", "SMTPResponseException"} ->
                 ResponseFailure(x.code)
          [] handler \in {"SMTPConnectError", "SMTPServerDisconnected", "TimeoutError",
                          "ConnectionError", "OSError"} -> "TEMPORARY_FAILURE"
          [] OTHER -> "PERMANENT_FAILURE"

(* Mutant: refused recipients that send_message returns are not looked at.  *)
SendIgnoringRefused(x) ==
    CASE x.end = "not begun" -> "CONFIGURATION_FAILURE"
      [] x.end = "raised"    -> ExceptionResult(x)
      [] x.end = "answered"  -> "SUCCESS"

Send(x) ==
    CASE x.end = "not begun" -> "CONFIGURATION_FAILURE"
      [] x.end = "raised"    -> ExceptionResult(x)
      [] x.end = "answered" /\ Refused(x.refused) # {} -> RefusedRecipientResult(x.refused)
      [] x.end = "answered" /\ Refused(x.refused) = {} -> "SUCCESS"

(* All that the notification streams learn and all that the recipients see: *)
(* whether the message is reported as sent, and who has it.                 *)
Deliveries(to) == {[sent |-> Send(x) = "SUCCESS", taken |-> x.taken] : x \in Attempts(to)}

-----------------------------------------------------------------------------
(* The attempts whose result says something else than who has the message.  *)
Misreported ==
    UNION {{x \in Attempts(Addressees[kind]) :
               ~ (Send(x) = "SUCCESS" <=> x.end = "answered" /\ x.taken = x.to)} :
           kind \in DOMAIN Addressees}

(* The classes of an exception that are nearer to it than that of the       *)
(* clause that handles it.                                                  *)
Nearer(class) ==
    {Lineage(class)[i] :
        i \in {j \in 1..5 : \A k \in 1..j : Lineage(class)[k] # Handler(class)}}

(* The attempts that raise an exception for which a clause names a nearer   *)
(* class than that of the clause that handles it.                           *)
Misclassified ==
    LET named == {Clauses[j] : j \in DOMAIN Clauses}
    IN  UNION {{x \in Attempts(Addressees[kind]) :
                   x.end = "raised" /\ Nearer(x.class) \intersect named # {}} :
               kind \in DOMAIN Addressees}
=============================================================================
