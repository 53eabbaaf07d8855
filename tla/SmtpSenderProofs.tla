--------------------------- MODULE SmtpSenderProofs ---------------------------
(***************************************************************************)
(* Proofs about the sender, for any reply codes: its SUCCESS is a delivery *)
(* to every addressee, whichever clause handles what smtplib raises, and   *)
(* that clause is the one nearest to what was raised.                      *)
(***************************************************************************)
EXTENDS SmtpSender, TLAPS

(* No exception is reported as a success, whatever clause handles it.       *)
LEMMA ExceptionIsFailure ==
    ASSUME NEW x
    PROVE  ExceptionResult(x) # "SUCCESS"
<1> DEFINE h == Handler(x.class)
<1>1. RefusedRecipientResult(x.refused) # "SUCCESS"
  BY DEF RefusedRecipientResult
<1>2. ResponseFailure(x.code) # "SUCCESS"
  BY DEF ResponseFailure
<1> HIDE DEF h
<1>3. QED
  BY <1>1, <1>2 DEF ExceptionResult, h

LEMMA AttemptForm ==
    ASSUME NEW to, NEW x \in Attempts(to)
    PROVE  /\ x.to = to /\ x.taken \in SUBSET to
           /\ x.end \in {"not begun", "answered", "raised"}
           /\ x.end = "answered" =>
                  /\ x.refused \in Refusals(to) /\ x.taken = to \ Refused(x.refused)
                  /\ Refused(x.refused) # to
<1>1. CASE x \in NotBegun(to)
  <2>1. x = Attempt(to, "not begun", "none", NoCode, NoRefusal(to), {})
    BY <1>1 DEF NotBegun
  <2>2. x.to = to /\ x.taken = {} /\ x.end = "not begun"
    BY <2>1 DEF Attempt
  <2>3. QED
    BY <2>2
<1>2. CASE x \in Answered(to)
  <2>1. PICK f \in Refusals(to) :
            Refused(f) # to /\ x = Attempt(to, "answered", "none", NoCode, f, to \ Refused(f))
    BY <1>2 DEF Answered
  <2>2. /\ x.to = to /\ x.taken = to \ Refused(f)
        /\ x.end = "answered" /\ x.refused = f
    BY <2>1 DEF Attempt
  <2>3. QED
    BY <2>1, <2>2
<1>3. CASE x \in Raised(to)
  <2>1. \E class, code, f : \E taken \in SUBSET to :
            x = Attempt(to, "raised", class, code, f, taken)
    BY <1>3 DEF Raised
  <2>2. PICK class, code, f, taken :
            taken \in SUBSET to /\ x = Attempt(to, "raised", class, code, f, taken)
    BY <2>1
  <2>3. x.to = to /\ x.taken = taken /\ x.end = "raised"
    BY <2>2 DEF Attempt
  <2>4. QED
    BY <2>2, <2>3
<1>4. QED
  BY <1>1, <1>2, <1>3 DEF Attempts

LEMMA AttemptResult ==
    ASSUME NEW to, NEW x \in Attempts(to)
    PROVE  Send(x) = "SUCCESS" <=> x.end = "answered" /\ x.taken = to
<1>1. CASE x.end = "not begun" \/ x.end = "raised"
  BY <1>1, ExceptionIsFailure DEF Send
<1>2. CASE x.end = "answered"
  <2>1. /\ Refused(x.refused) \subseteq to
        /\ x.taken = to \ Refused(x.refused)
    BY <1>2, AttemptForm DEF Refusals, Refused
  <2>2. RefusedRecipientResult(x.refused) # "SUCCESS"
    BY DEF RefusedRecipientResult
  <2>3. Send(x) = "SUCCESS" <=> Refused(x.refused) = {}
    BY <1>2, <2>2 DEF Send
  <2>4. QED
    BY <1>2, <2>1, <2>3
<1>3. QED
  BY <1>1, <1>2, AttemptForm

(* smtp.py: for any reply codes and whatever smtplib raises, SUCCESS means  *)
(* that the server took the message for every addressee and said so.        *)
THEOREM SuccessMeansDelivery == Misreported = {}
<1>1. ASSUME NEW to, NEW x \in Attempts(to)
      PROVE  Send(x) = "SUCCESS" <=> x.end = "answered" /\ x.taken = x.to
  <2>1. x.to = to
    BY AttemptForm
  <2>2. Send(x) = "SUCCESS" <=> x.end = "answered" /\ x.taken = to
    BY AttemptResult
  <2>3. QED
    BY <2>1, <2>2
<1>2. QED
  BY <1>1 DEF Misreported

(* What a notification stream learns of a message, and who has it.          *)
LEMMA DeliveryForm ==
    ASSUME NEW to, NEW d \in Deliveries(to)
    PROVE  /\ d.sent \in BOOLEAN /\ d.taken \subseteq to
           /\ d.sent => d.taken = to
<1>1. PICK x \in Attempts(to) : d = [sent |-> Send(x) = "SUCCESS", taken |-> x.taken]
  BY DEF Deliveries
<1>2. d.sent \in BOOLEAN /\ d.taken = x.taken
  BY <1>1
<1>3. d.sent => Send(x) = "SUCCESS"
  BY <1>1
<1>4. QED
  BY <1>2, <1>3, AttemptForm, AttemptResult

-----------------------------------------------------------------------------
(***************************************************************************)
(* Which clause handles an exception.  A class that a clause names is      *)
(* handled by that clause; each of the four others by the clause of its    *)
(* base, so no clause names anything nearer to it.                         *)
(***************************************************************************)
Raisable == WithCode \union WithoutCode \union {"SMTPRecipientsRefused"}

Catches(class, i) == \E j \in 1..5 : Lineage(class)[j] = Clauses[i]

LEMMA FirstClause ==
    ASSUME NEW class, NEW i \in 1..14, Catches(class, i),
           \A k \in 1..(i - 1) : ~ Catches(class, k)
    PROVE  Handler(class) = Clauses[i]
<1> DEFINE First(n) == Catches(class, n) /\ \A k \in 1..(n - 1) : ~ Catches(class, k)
           chosen   == CHOOSE n \in 1..14 : First(n)
<1>1. chosen \in 1..14 /\ First(chosen)
  OBVIOUS
<1> HIDE DEF chosen
<1>2. chosen = i
  <2>1. ~ chosen < i /\ ~ i < chosen
    BY <1>1
  <2>2. QED
    BY <1>1, <2>1
<1>3. DOMAIN Clauses = 1..14
  BY DEF Clauses
<1>4. Handler(class) = Clauses[chosen]
  BY <1>3 DEF Handler, Catches, chosen
<1>5. QED
  BY <1>2, <1>4

LEMMA Lineages ==
    /\ \A class \in WithCode :
          Lineage(class) = <<class, "SMTPResponseException", "SMTPException", "OSError",
                             "Exception">>
    /\ \A class \in {"SMTPNotSupportedError", "SMTPRecipientsRefused",
                     "SMTPServerDisconnected", "OtherSMTPException"} :
          Lineage(class) = <<class, "SMTPException", "OSError", "Exception", "Exception">>
    /\ \A class \in {"SSLError", "TimeoutError", "ConnectionError", "OtherOSError"} :
          Lineage(class) = <<class, "OSError", "Exception", "Exception", "Exception">>
    /\ Lineage("OtherError") =
          <<"OtherError", "Exception", "Exception", "Exception", "Exception">>
  BY DEF Lineage, Base, WithCode

(* A class that a clause names.                                             *)
LEMMA HandledByName ==
    /\ Handler("SMTPAuthenticationError") = "SMTPAuthenticationError"
    /\ Handler("SMTPNotSupportedError") = "SMTPNotSupportedError"
    /\ Handler("SMTPRecipientsRefused") = "SMTPRecipientsRefused"
    /\ Handler("SMTPConnectError") = "SMTPConnectError"
    /\ Handler("SMTPSenderRefused") = "SMTPSenderRefused"
    /\ Handler("SMTPDataError") = "SMTPDataError"
    /\ Handler("SMTPServerDisconnected") = "SMTPServerDisconnected"
    /\ Handler("SSLError") = "SSLError"
    /\ Handler("TimeoutError") = "TimeoutError"
    /\ Handler("ConnectionError") = "ConnectionError"
<1>1. ASSUME NEW class \in WithCode, NEW i \in 1..6, class = Clauses[i]
      PROVE  Handler(class) = class
  <2>1. Catches(class, i) /\ \A k \in 1..(i - 1) : ~ Catches(class, k)
    BY <1>1, Lineages DEF Catches, Clauses, WithCode
  <2>2. QED
    BY <1>1, <2>1, FirstClause
<1>2. ASSUME NEW class \in {"SMTPNotSupportedError", "SMTPRecipientsRefused",
                          "SMTPServerDisconnected"},
             NEW i \in 1..8, class = Clauses[i]
      PROVE  Handler(class) = class
  <2>1. Catches(class, i) /\ \A k \in 1..(i - 1) : ~ Catches(class, k)
    BY <1>2, Lineages DEF Catches, Clauses
  <2>2. QED
    BY <1>2, <2>1, FirstClause
<1>3. ASSUME NEW class \in {"SSLError", "TimeoutError", "ConnectionError"},
             NEW i \in 1..12, class = Clauses[i]
      PROVE  Handler(class) = class
  <2>1. Catches(class, i) /\ \A k \in 1..(i - 1) : ~ Catches(class, k)
    BY <1>3, Lineages DEF Catches, Clauses
  <2>2. QED
    BY <1>3, <2>1, FirstClause
<1>4. QED
  BY <1>1, <1>2, <1>3 DEF WithCode, Clauses

(* A class that none names: the clause of its base has it.                  *)
LEMMA HandledByBase ==
    /\ Handler("SMTPHeloError") = Lineage("SMTPHeloError")[2]
    /\ Handler("OtherSMTPException") = Lineage("OtherSMTPException")[2]
    /\ Handler("OtherOSError") = Lineage("OtherOSError")[2]
    /\ Handler("OtherError") = Lineage("OtherError")[2]
<1>1. Handler("SMTPHeloError") = Clauses[7]
  <2>1. Catches("SMTPHeloError", 7) /\ \A k \in 1..6 : ~ Catches("SMTPHeloError", k)
    BY Lineages DEF Catches, Clauses, WithCode
  <2>2. QED
    BY <2>1, FirstClause
<1>2. Handler("OtherSMTPException") = Clauses[10]
  <2>1. /\ Catches("OtherSMTPException", 10)
        /\ \A k \in 1..9 : ~ Catches("OtherSMTPException", k)
    BY Lineages DEF Catches, Clauses
  <2>2. QED
    BY <2>1, FirstClause
<1>3. Handler("OtherOSError") = Clauses[13]
  <2>1. Catches("OtherOSError", 13) /\ \A k \in 1..12 : ~ Catches("OtherOSError", k)
    BY Lineages DEF Catches, Clauses
  <2>2. QED
    BY <2>1, FirstClause
<1>4. Handler("OtherError") = Clauses[14]
  <2>1. Catches("OtherError", 14) /\ \A k \in 1..13 : ~ Catches("OtherError", k)
    BY Lineages DEF Catches, Clauses
  <2>2. QED
    BY <2>1, FirstClause
<1>5. QED
  BY <1>1, <1>2, <1>3, <1>4, Lineages DEF Clauses, WithCode

Named == {Clauses[j] : j \in DOMAIN Clauses}

(* Nothing is nearer to a class than itself, and nothing than its base but  *)
(* itself.                                                                  *)
LEMMA NearerThanHandler ==
    ASSUME NEW class,
           \/ Handler(class) = class
           \/ Handler(class) = Lineage(class)[2] /\ class \notin Named
    PROVE  Nearer(class) \intersect Named = {}
<1>1. Lineage(class)[1] = class
  BY DEF Lineage
<1>2. CASE Handler(class) = class
  <2>1. ~ \E j \in 1..5 : \A k \in 1..j : Lineage(class)[k] # Handler(class)
    BY <1>1, <1>2
  <2>2. QED
    BY <2>1 DEF Nearer
<1>3. CASE Handler(class) = Lineage(class)[2] /\ class \notin Named
  <2>1. \A j \in 1..5 : (\A k \in 1..j : Lineage(class)[k] # Handler(class)) => j = 1
    BY <1>3
  <2>2. Nearer(class) \subseteq {class}
    BY <1>1, <2>1 DEF Nearer
  <2>3. QED
    BY <1>3, <2>2
<1>4. QED
  BY <1>2, <1>3

LEMMA NothingNearer ==
    ASSUME NEW class \in Raisable
    PROVE  Nearer(class) \intersect Named = {}
<1>1. CASE class \in {"SMTPHeloError", "OtherSMTPException", "OtherOSError", "OtherError"}
  <2>1. class \notin Named
    BY <1>1 DEF Named, Clauses
  <2>2. Handler(class) = Lineage(class)[2]
    BY <1>1, HandledByBase
  <2>3. QED
    BY <2>1, <2>2, NearerThanHandler
<1>2. CASE class \notin {"SMTPHeloError", "OtherSMTPException", "OtherOSError", "OtherError"}
  <2>1. Handler(class) = class
    BY <1>2, HandledByName DEF Raisable, WithCode, WithoutCode
  <2>2. QED
    BY <2>1, NearerThanHandler
<1>3. QED
  BY <1>1, <1>2

LEMMA RaisedForm ==
    ASSUME NEW to, NEW x \in Attempts(to), x.end = "raised"
    PROVE  x.class \in Raisable
<1>1. x \notin NotBegun(to)
  <2>1. SUFFICES ASSUME x = Attempt(to, "not begun", "none", NoCode, NoRefusal(to), {})
                 PROVE  FALSE
    BY DEF NotBegun
  <2>2. x.end = "not begun"
    BY <2>1 DEF Attempt
  <2>3. QED
    BY <2>2
<1>2. x \in Raised(to)
  <2>1. SUFFICES ASSUME NEW f, x = Attempt(to, "answered", "none", NoCode, f, to \ Refused(f))
                 PROVE  FALSE
    BY <1>1 DEF Attempts, Answered
  <2>2. x.end = "answered"
    BY <2>1 DEF Attempt
  <2>3. QED
    BY <2>2
<1>3. \E class \in Raisable : \E code, f, taken :
          x = Attempt(to, "raised", class, code, f, taken)
  BY <1>2 DEF Raised, Raisable
<1>4. QED
  BY <1>3 DEF Attempt

(* smtp.py, the except clauses of send: although smtplib's exceptions and   *)
(* TLS errors are all OSErrors, every exception is handled by the clause    *)
(* nearest to its class, for any reply codes.                               *)
THEOREM NoClauseHidesAnother == Misclassified = {}
<1>1. ASSUME NEW to, NEW x \in Attempts(to), x.end = "raised"
      PROVE  Nearer(x.class) \intersect Named = {}
  BY <1>1, RaisedForm, NothingNearer
<1>2. QED
  BY <1>1 DEF Misclassified, Named
=============================================================================
