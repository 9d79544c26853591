----------------------------- MODULE GatewayCalls -----------------------------
(***************************************************************************)
(* The gateway calls made for one payment and the attempts that record     *)
(* them: what is told to the caller, stored as the payment's status and    *)
(* kept as evidence must agree with what the gateway did.                  *)
(*                                                                         *)
(* Handlers of all replicas number and insert attempts at once, each       *)
(* outside any transaction.                                                *)
(***************************************************************************)
EXTENDS Midtrans, FiniteSets

CONSTANTS
  Caller,            \* handlers that call the gateway for the payment
  maxNumberRetries,  \* tries of one attempt's number
  MaxAttempts        \* bound: attempts in a behaviour

ASSUME CallsAssumption ==
  /\ IsFiniteSet(Caller)
  /\ maxNumberRetries \in Nat \ {0}
  /\ MaxAttempts \in Nat

VARIABLES
  payment,   \* the stored payment: its status, or "none"
  charge,    \* "none", or what the method of the charge that was sent allows
  made,      \* whether the gateway took it
  answer,    \* what POST /payments answered: "none", an error, or a next action
  attempts,  \* payment_attempts by attempt_number
  callers    \* each handler's call and the attempt it is recording

callVars == <<payment, charge, made, answer, attempts, callers>>

-----------------------------------------------------------------------------
(* The gateway, as far as the adapter knows it. *)

Trouble == {NoReply, Plain(500), Plain(503), Reply(502, 502, FALSE, "")}
Refusal == {Plain(401), Plain(402), Plain(404), Plain(412), Plain(429), NotSent}

\* The replies there may be, by whether the call did what it asked for: the
\* transaction was opened, is cancelled, has the refund, or exists.  A declined
\* charge names its transaction; 406 says the same refund was asked for before.
Taken(op) ==
  CASE op = "CHARGE" -> {Reply(200, 201, id, "pending") : id \in BOOLEAN} \cup
                        {Reply(200, 200, TRUE, s) : s \in {"settlement", "capture", "authorize", "new status"}}
    [] op = "CANCEL" -> {Plain(200)}
    [] op = "REFUND" -> {Plain(200), Plain(201), Plain(406)}
    [] op = "STATUS" -> {Reply(200, 200, TRUE, "pending")}

Refused(op) ==
  CASE op = "CHARGE" -> Refusal \cup {Plain(400), Reply(200, 202, TRUE, "deny")}
    [] op = "REFUND" -> Refusal \cup {Plain(406)}
    [] OTHER         -> Refusal

CanReply(op, did) == Trouble \cup (IF did THEN Taken(op) ELSE Refused(op))

-----------------------------------------------------------------------------
(* What the handlers make of it. *)

\* What a call did: nothing, what it asked for, or a charge that is told of in
\* words the adapter does not know: with no transaction_id, or with a status it
\* does not recognise.
Done   == {"done", "unrecognised"}
Effect == {"nothing", "unnamed"} \cup Done

EffectOf(did, reply) ==
  CASE ~did                                        -> "nothing"
    [] did /\ ~Usable(reply)                       -> "done"
    [] did /\ Usable(reply) /\ failed(reply)       -> "done"
    [] did /\ Usable(reply) /\ ~failed(reply)      ->
         IF ~reply.id THEN "unnamed"
         ELSE IF TransactionStatus(reply.status) = "UNKNOWN" THEN "unrecognised" ELSE "done"

\* since: the attempts there were when the call ended.
AtRest == [pc |-> "idle", outcome |-> "UNKNOWN", effect |-> "nothing", fate |-> "none",
           answer |-> "none", number |-> 0, tries |-> 0, since |-> 0]

Row(call) == [outcome |-> call.outcome, effect |-> call.effect]

\* failedAttempt, and the cases of callRefund.
OutcomeOf(result) ==
  CASE result \in {"answered", "not found", "accepted"} -> "SUCCEEDED"
    [] result \in {"failed", "declined"}                -> "FAILED"
    [] result = "unknown"                               -> "UNKNOWN"

\* Variant: a charge that was not confirmed is closed at once.
ChargeFateClosed(result, status) ==
  CASE result # "answered"                           -> "FAILED"
    [] result = "answered" /\ status = "SETTLED"     -> "COMPLETED"
    [] result = "answered" /\ status = "FAILED"      -> "FAILED"
    [] OTHER                                         -> "PENDING"

\* What CreatePaymentHandler stores after the charge.
ChargeFate(result, status) ==
  CASE result = "unknown"                            -> "INITIATED"
    [] result = "failed"                             -> "FAILED"
    [] result = "answered" /\ status = "SETTLED"     -> "COMPLETED"
    [] result = "answered" /\ status = "FAILED"      -> "FAILED"
    [] OTHER                                         -> "PENDING"

Counted == Cardinality(DOMAIN attempts)

\* The attempt of a call that was just made; its number is still to be found.
Recording(c, call) ==
  callers' = [callers EXCEPT ![c] = [call EXCEPT !.pc = "number", !.since = Counted]]

Ready(c) == callers[c].pc = "idle" /\ Counted < MaxAttempts

\* CreatePaymentHandler up to its attempt.  Nothing is recorded or stored of a
\* request that is refused for its contents.
CreatePayment(c) ==
  /\ Ready(c) /\ charge = "none"
  /\ \E req \in ChargeRequest, did \in BOOLEAN : \E reply \in CanReply("CHARGE", did) :
       LET result   == IF Unsendable(req) THEN "invalid" ELSE CreateTransaction(reply)
           status   == IF result = "answered" THEN TransactionStatus(reply.status) ELSE "UNKNOWN"
           declined == result = "answered" /\ status = "FAILED"
       IN  IF result = "invalid"
           THEN /\ answer' = "INVALID_INPUT"
                /\ made' = IF Unsendable(req) THEN "nothing" ELSE EffectOf(did, reply)
                /\ UNCHANGED <<charge, callers>>
           ELSE /\ charge' = IF Capability(req.method).refund THEN "refundable" ELSE "final"
                /\ made' = EffectOf(did, reply)
                /\ Recording(c, [AtRest EXCEPT
                     !.effect  = EffectOf(did, reply),
                     !.outcome = IF declined THEN "FAILED" ELSE OutcomeOf(result),
                     !.fate    = ChargeFate(result, status),
                     !.answer  = IF result = "answered" THEN NextAction(req.method, status)
                                                        ELSE "GATEWAY_ERROR"])
                /\ UNCHANGED answer
  /\ UNCHANGED <<payment, attempts>>

\* The other calls, by handlers and the reconciler: a status check where the
\* outcome of the charge or of a refund is open, a cancel of what is not paid,
\* a refund of what is.
CanCall(op, did) ==
  CASE op = "CANCEL" -> payment \in {"INITIATED", "PENDING"} /\ (did => made # "nothing")
    [] op = "REFUND" -> payment = "COMPLETED" /\ charge = "refundable"
    [] op = "STATUS" -> payment \in {"INITIATED", "COMPLETED"} /\ did = (made # "nothing")

Result(op, reply) ==
  CASE op = "CANCEL" -> CancelTransaction(reply)
    [] op = "REFUND" -> CreateRefund(reply)
    [] op = "STATUS" -> GetTransaction(reply)

Call(c) ==
  /\ Ready(c)
  /\ \E op \in {"CANCEL", "REFUND", "STATUS"}, did \in BOOLEAN :
       /\ CanCall(op, did)
       /\ \E reply \in CanReply(op, did) :
            Recording(c, [AtRest EXCEPT !.outcome = OutcomeOf(Result(op, reply)),
              !.effect = IF did \/ Result(op, reply) = "not found" THEN "done" ELSE "nothing"])
  /\ UNCHANGED <<payment, charge, made, answer, attempts>>

-----------------------------------------------------------------------------
(* AttemptRecorder.Record. *)

Last == IF DOMAIN attempts = {} THEN 0
        ELSE CHOOSE n \in DOMAIN attempts : \A i \in DOMAIN attempts : i <= n

\* Variant: a try after a clash skips the numbers it clashed on.
TakeNumberAhead(c) ==
  /\ callers[c].pc = "number"
  /\ callers' = [callers EXCEPT ![c].pc = "insert", ![c].number = Last + 1 + callers[c].tries]
  /\ UNCHANGED <<payment, charge, made, answer, attempts>>

\* The SELECT inside InsertPaymentAttempt.
TakeNumber(c) ==
  /\ callers[c].pc = "number"
  /\ callers' = [callers EXCEPT ![c].pc = "insert", ![c].number = Last + 1]
  /\ UNCHANGED <<payment, charge, made, answer, attempts>>

\* Variant: the number is looked up once, and its insert tried again.
InsertSameNumber(c) ==
  LET call == callers[c] IN
  /\ call.pc = "insert"
  /\ \/ /\ call.number \notin DOMAIN attempts
        /\ attempts' = [n \in DOMAIN attempts \cup {call.number} |->
                          IF n = call.number THEN Row(call) ELSE attempts[n]]
        /\ callers' = [callers EXCEPT ![c].pc = "recorded"]
     \/ /\ call.number \in DOMAIN attempts /\ UNCHANGED attempts
        /\ callers' = [callers EXCEPT ![c].tries = @ + 1,
             ![c].pc = IF call.tries + 1 < maxNumberRetries THEN "insert" ELSE "beaten"]
  /\ UNCHANGED <<payment, charge, made, answer>>

\* Its INSERT under the unique index: another attempt may have the number by now,
\* and the statement is run again, a few times.  Any other error is final.
Insert(c) ==
  LET call == callers[c] IN
  /\ call.pc = "insert"
  /\ \/ /\ call.number \notin DOMAIN attempts
        /\ attempts' = [n \in DOMAIN attempts \cup {call.number} |->
                          IF n = call.number THEN Row(call) ELSE attempts[n]]
        /\ callers' = [callers EXCEPT ![c].pc = "recorded"]
     \/ /\ call.number \in DOMAIN attempts /\ UNCHANGED attempts
        /\ callers' = [callers EXCEPT ![c].tries = @ + 1,
             ![c].pc = IF call.tries + 1 < maxNumberRetries THEN "number" ELSE "beaten"]
     \/ callers' = [callers EXCEPT ![c].pc = "recorded"] /\ UNCHANGED attempts
  /\ UNCHANGED <<payment, charge, made, answer>>

\* recordAttempt swallows the error; a charge is stored now, and its Save may fail.
CarryOn(c) ==
  LET call == callers[c] IN
  /\ call.pc \in {"recorded", "beaten"}
  /\ IF call.fate = "none" THEN UNCHANGED <<payment, answer>>
     ELSE \/ payment' = call.fate /\ answer' = call.answer
          \/ answer' = "GATEWAY_ERROR" /\ UNCHANGED payment
  /\ callers' = [callers EXCEPT ![c] = AtRest]
  /\ UNCHANGED <<charge, made, attempts>>

-----------------------------------------------------------------------------
Init ==
  /\ payment = "none" /\ charge = "none" /\ made = "nothing" /\ answer = "none"
  /\ attempts = [n \in {} |-> Row(AtRest)]
  /\ callers = [c \in Caller |-> AtRest]

Next == \E c \in Caller :
  CreatePayment(c) \/ Call(c) \/ TakeNumber(c) \/ Insert(c) \/ CarryOn(c)

Spec == Init /\ [][Next]_callVars

-----------------------------------------------------------------------------
(* Properties. *)

Outcome == {"SUCCEEDED", "FAILED", "UNKNOWN"}
Fate    == {"none", "INITIATED", "PENDING", "COMPLETED", "FAILED"}
Answer  == {"none", "INVALID_INPUT", "GATEWAY_ERROR", "NONE", "DISPLAY_VA", "DISPLAY_QR", "REDIRECT"}
Attempt == [outcome: Outcome, effect: Effect]
CallState == [pc: {"idle", "number", "insert", "recorded", "beaten"}, outcome: Outcome,
              effect: Effect, fate: Fate, answer: Answer, number: Nat, tries: 0..maxNumberRetries, since: Nat]

\* Every variable keeps its type: what the adapter and the handlers make of a
\* reply is always one of the outcomes, statuses and answers the ports name.
TypeOK ==
  /\ payment \in Fate /\ charge \in {"none", "refundable", "final"} /\ made \in Effect /\ answer \in Answer
  /\ DOMAIN attempts \subseteq Nat
  /\ \A n \in DOMAIN attempts : attempts[n] \in Attempt
  /\ callers \in [Caller -> CallState]

\* The attempts are evidence (ports/attempt.go): one recorded as SUCCEEDED took
\* effect and one recorded as FAILED did not, whatever became of the reply.  The
\* exception is the charge whose success named no transaction (charge.go:64).
RecordedAgrees ==
  \A n \in DOMAIN attempts : LET row == attempts[n] IN
    /\ row.outcome = "SUCCEEDED" => row.effect \in Done
    /\ row.outcome = "FAILED"    => row.effect \notin Done

\* A payment stored as FAILED after its charge has no transaction a customer could
\* pay, and one stored as PENDING or COMPLETED has one: a lost reply never closes a
\* payment (chargeFailed), with the exception above.
FateAgrees ==
  /\ payment = "FAILED" => made \notin Done
  /\ payment \in {"PENDING", "COMPLETED"} => made \in Done

\* What POST /payments answered fits what happened: INVALID_INPUT invites a retry
\* with the same reference, so nothing was opened, recorded or stored; after an error
\* no payment waits for the customer; and the customer of a PENDING payment was told
\* what to do (nextAction has a case for every method).
AnswerFits ==
  /\ answer = "INVALID_INPUT" /\ charge = "none" =>
       made = "nothing" /\ Counted = 0 /\ payment = "none"
  /\ answer = "GATEWAY_ERROR" => payment \in {"none", "INITIATED", "FAILED"}
  /\ payment = "PENDING" /\ made # "unrecognised" => answer \in {"DISPLAY_VA", "DISPLAY_QR", "REDIRECT"}

\* attempt_number counts the attempts on record from 1, without gap or repeat, for
\* all that handlers number them at once.
AttemptsNumbered == DOMAIN attempts = 1..Counted

\* An attempt that gives up its number was beaten to it every time: each of its
\* maxNumberRetries tries lost to another attempt that is on record.
LostMeansBeaten ==
  \A c \in Caller : callers[c].pc = "beaten" => Counted >= callers[c].since + maxNumberRetries
=============================================================================
