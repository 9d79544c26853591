-------------------------- MODULE GatewayCallsProofs --------------------------
(***************************************************************************)
(* For any number of handlers, tries and attempts: attempts are numbered   *)
(* without gap or repeat, one is lost only to maxNumberRetries others, and *)
(* what is recorded, stored and answered agrees with what the gateway did. *)
(*                                                                         *)
(* Two invariants.  IInv follows a number from the SELECT to the INSERT: it*)
(* is at most one more than the attempts on record, and every try that     *)
(* failed was a try another attempt won since the call ended.  Truth       *)
(* follows the outcome of a call from the reply to the record; it rests on *)
(* what each reply the gateway can give says of the call (ChargeTells,     *)
(* CallTells).                                                             *)
(***************************************************************************)
EXTENDS GatewayCalls, FiniteSetTheorems, TLAPS

Between(call) ==
  /\ call.pc = "number" => call.tries < maxNumberRetries /\ Counted >= call.since + call.tries
  /\ call.pc = "insert" => /\ call.tries < maxNumberRetries
                           /\ call.number \in call.since + call.tries + 1..Counted + 1
  /\ call.pc = "beaten" => Counted >= call.since + maxNumberRetries

IInv ==
  /\ TypeOK
  /\ Counted \in Nat /\ AttemptsNumbered
  /\ \A c \in Caller : Between(callers[c])

-----------------------------------------------------------------------------
(* What the adapter and the handlers make of a reply. *)

LEMMA Results ==
  ASSUME NEW reply
  PROVE  /\ CreateTransaction(reply) \in {"invalid", "answered", "failed", "unknown"}
         /\ CancelTransaction(reply) \in {"answered", "failed", "unknown"}
         /\ GetTransaction(reply) \in {"not found", "answered", "failed", "unknown"}
         /\ CreateRefund(reply) \in {"accepted", "declined", "unknown"}
<1>1. Failure(reply) \in {"failed", "unknown"}
  BY DEF Failure
<1>2. CreateTransaction(reply) \in {"invalid", "answered", "failed", "unknown"}
  BY <1>1 DEF CreateTransaction
<1>3. CancelTransaction(reply) \in {"answered", "failed", "unknown"}
  BY <1>1 DEF CancelTransaction
<1>4. GetTransaction(reply) \in {"not found", "answered", "failed", "unknown"}
  BY <1>1 DEF GetTransaction
<1>5. CreateRefund(reply) \in {"accepted", "declined", "unknown"}
  BY DEF CreateRefund
<1> QED
  BY <1>2, <1>3, <1>4, <1>5

LEMMA Statuses ==
  ASSUME NEW status
  PROVE  TransactionStatus(status) \in {"SETTLED", "PENDING", "FAILED", "UNKNOWN"}
BY DEF TransactionStatus

LEMMA Effects ==
  ASSUME NEW did \in BOOLEAN, NEW reply
  PROVE  EffectOf(did, reply) \in Effect
BY DEF EffectOf, Effect, Done

LEMMA Outcomes ==
  ASSUME NEW result \in {"answered", "not found", "accepted", "failed", "declined", "unknown"}
  PROVE  OutcomeOf(result) \in Outcome
BY DEF OutcomeOf, Outcome

LEMMA Fates ==
  ASSUME NEW result, NEW status
  PROVE  ChargeFate(result, status) \in Fate
BY DEF ChargeFate, Fate

LEMMA Actions ==
  ASSUME NEW m \in Method, NEW status \in {"SETTLED", "PENDING", "FAILED", "UNKNOWN"}
  PROVE  NextAction(m, status) \in Answer
BY DEF NextAction, Answer, Method

-----------------------------------------------------------------------------
(* What a reply tells of what the call did. *)

\* Status codes by the hundred.
LEMMA Hundred ==
  /\ \A code \in {200, 201, 202} : Hundreds(code) = 2
  /\ \A code \in {400, 401, 402, 404, 406, 412, 429} : Hundreds(code) = 4
  /\ \A code \in {500, 502, 503} : Hundreds(code) = 5
BY DEF Hundreds

\* The parts of a reply.
LEMMA ReplyParts ==
  ASSUME NEW reply, NEW http, NEW code, NEW id, NEW status, reply = Reply(http, code, id, status)
  PROVE  /\ reply.kind = "reply" /\ reply.http = http /\ reply.code = code
         /\ reply.id = id /\ reply.status = status
BY DEF Reply

LEMMA PlainParts ==
  ASSUME NEW reply, NEW code, reply = Plain(code)
  PROVE  reply.kind = "reply" /\ reply.http = 200 /\ reply.code = code
BY DEF Plain, Reply

\* A charge that was taken has a reply in the 200s, with one of these statuses.
LEMMA TakenParts ==
  ASSUME NEW reply \in Taken("CHARGE")
  PROVE  /\ reply.kind = "reply" /\ reply.http = 200 /\ reply.code \in {200, 201}
         /\ reply.status \in {"pending", "settlement", "capture", "authorize", "new status"}
<1>1. CASE reply \in {Reply(200, 201, id, "pending") : id \in BOOLEAN}
  <2>1. reply = Reply(200, 201, TRUE, "pending") \/ reply = Reply(200, 201, FALSE, "pending")
    BY <1>1
  <2>2. reply.kind = "reply" /\ reply.http = 200 /\ reply.code = 201 /\ reply.status = "pending"
    BY <2>1 DEF Reply
  <2> QED
    BY <2>2
<1>2. CASE reply \in {Reply(200, 200, TRUE, s) : s \in {"settlement", "capture", "authorize", "new status"}}
  <2>1. PICK s \in {"settlement", "capture", "authorize", "new status"} : reply = Reply(200, 200, TRUE, s)
    BY <1>2
  <2>2. reply.kind = "reply" /\ reply.http = 200 /\ reply.code = 200 /\ reply.status = s
    BY <2>1 DEF Reply
  <2> QED
    BY <2>2
<1> QED
  BY <1>1, <1>2 DEF Taken

\* After these, and only these, nobody knows.
LEMMA TroubleTells ==
  ASSUME NEW reply \in Trouble
  PROVE  /\ CreateTransaction(reply) = "unknown" /\ CancelTransaction(reply) = "unknown"
         /\ GetTransaction(reply) = "unknown" /\ CreateRefund(reply) = "unknown"
<1>1. CASE reply = NoReply
  BY <1>1 DEF NoReply, Usable, Failure, CreateTransaction, CancelTransaction, GetTransaction, CreateRefund
<1>2. CASE reply # NoReply
  <2>1. /\ reply.kind = "reply" /\ reply.code \in {500, 502, 503} /\ reply.http \in {200, 502}
        /\ Hundreds(reply.code) = 5
    <3>1. CASE reply = Plain(500) \/ reply = Plain(503)
      <4>1. reply.kind = "reply" /\ reply.http = 200 /\ reply.code \in {500, 503}
        BY <3>1, PlainParts
      <4> QED
        BY <4>1, Hundred
    <3>2. CASE reply = Reply(502, 502, FALSE, "")
      <4>1. reply.kind = "reply" /\ reply.http = 502 /\ reply.code = 502
        BY <3>2 DEF Reply
      <4> QED
        BY <4>1, Hundred
    <3>3. reply = Plain(500) \/ reply = Plain(503) \/ reply = Reply(502, 502, FALSE, "")
      BY <1>2, Zenon DEF Trouble
    <3> QED
      BY <3>1, <3>2, <3>3
  <2>2. Usable(reply) /\ failed(reply) /\ ServerError(reply) /\ Failure(reply) = "unknown"
    BY <2>1 DEF Usable, failed, ServerError, Failure
  <2>3. CreateTransaction(reply) = "unknown" /\ CancelTransaction(reply) = "unknown" /\ GetTransaction(reply) = "unknown"
    BY <2>1, <2>2 DEF CreateTransaction, CancelTransaction, GetTransaction
  <2>4. CreateRefund(reply) = "unknown"
    BY <2>1, <2>2 DEF CreateRefund
  <2> QED
    BY <2>3, <2>4
<1> QED
  BY <1>1, <1>2

\* A call refused with one of these did nothing, and is known to have failed.
LEMMA RefusalTells ==
  ASSUME NEW reply \in Refusal
  PROVE  /\ CreateTransaction(reply) = "failed" /\ CancelTransaction(reply) = "failed"
         /\ GetTransaction(reply) \in {"failed", "not found"} /\ CreateRefund(reply) \in {"declined", "unknown"}
<1>1. CASE reply = NotSent
  BY <1>1 DEF NotSent, Usable, Failure, CreateTransaction, CancelTransaction, GetTransaction, CreateRefund
<1>2. CASE reply # NotSent
  <2>1. /\ reply.kind = "reply" /\ reply.code \in {401, 402, 404, 412, 429} /\ reply.http = 200
        /\ Hundreds(reply.code) = 4
    <3>1. PICK code \in {401, 402, 404, 412, 429} : reply = Plain(code)
      BY <1>2 DEF Refusal
    <3> QED
      BY <3>1, PlainParts, Hundred
  <2>2. Usable(reply) /\ failed(reply) /\ ~ServerError(reply) /\ Failure(reply) = "failed"
    BY <2>1 DEF Usable, failed, ServerError, Failure
  <2>3. CreateTransaction(reply) = "failed" /\ CancelTransaction(reply) = "failed"
    BY <2>1, <2>2 DEF CreateTransaction, CancelTransaction
  <2>4. GetTransaction(reply) \in {"failed", "not found"}
    BY <2>2 DEF GetTransaction
  <2>5. CreateRefund(reply) \in {"declined", "unknown"}
    BY <2>1, <2>2 DEF CreateRefund
  <2> QED
    BY <2>3, <2>4, <2>5
<1> QED
  BY <1>1, <1>2

\* What CreateTransaction makes of a charge's reply is true of the charge, but for a
\* success that names no transaction: it is reported as failed.
LEMMA ChargeTells ==
  ASSUME NEW did \in BOOLEAN, NEW reply \in CanReply("CHARGE", did)
  PROVE  LET result == CreateTransaction(reply)
             status == TransactionStatus(reply.status)
             effect == EffectOf(did, reply)
         IN  \/ result = "unknown"
             \/ result = "invalid" /\ effect = "nothing"
             \/ result = "failed" /\ effect \in {"nothing", "unnamed"}
             \/ result = "answered" /\ status = "FAILED" /\ effect = "nothing"
             \/ result = "answered" /\ status \in {"SETTLED", "PENDING"} /\ effect = "done"
             \/ result = "answered" /\ status = "UNKNOWN" /\ effect = "unrecognised"
<1>1. CASE reply \in Trouble
  BY <1>1, TroubleTells
<1>2. CASE did /\ reply \in Taken("CHARGE")
  <2>1. /\ reply.kind = "reply" /\ reply.http = 200 /\ reply.code \in {200, 201}
        /\ reply.status \in {"pending", "settlement", "capture", "authorize", "new status"}
    BY <1>2, TakenParts
  <2>2. Hundreds(reply.code) = 2
    <3>1. CASE reply.code = 200
      BY <3>1, Hundred
    <3>2. CASE reply.code = 201
      BY <3>2, Hundred
    <3> QED
      BY <2>1, <3>1, <3>2
  <2>3. Usable(reply) /\ ~failed(reply) /\ reply.code # 400
    <3>0. Usable(reply)
      BY <2>1 DEF Usable
    <3>1. reply.code # 400
      <4>1. ASSUME reply.code = 400 PROVE FALSE
        <5>1. Hundreds(400) = 4
          BY Hundred
        <5> QED
          BY <2>2, <4>1, <5>1
      <4> QED
        BY <4>1
    <3>2. reply.http = 200
      BY <2>1
    <3>3. ~failed(reply)
      BY <2>2, <3>2 DEF failed
    <3> QED
      BY <3>0, <3>1, <3>3
  <2>4. CreateTransaction(reply) = IF reply.id THEN "answered" ELSE "failed"
    BY <2>3 DEF CreateTransaction
  <2>5. EffectOf(did, reply) = IF ~reply.id THEN "unnamed"
                               ELSE IF TransactionStatus(reply.status) = "UNKNOWN" THEN "unrecognised" ELSE "done"
    BY <1>2, <2>3 DEF EffectOf
  <2>6. TransactionStatus(reply.status) \in {"SETTLED", "PENDING", "UNKNOWN"}
    BY <2>1 DEF TransactionStatus
  <2> QED
    BY <2>4, <2>5, <2>6
<1>3. CASE ~did /\ reply \in Refused("CHARGE")
  <2>1. EffectOf(did, reply) = "nothing"
    BY <1>3 DEF EffectOf
  <2>2. CASE reply \in Refusal
    BY <2>1, <2>2, RefusalTells
  <2>3. CASE reply = Plain(400)
    <3>1. CreateTransaction(reply) = "invalid"
      BY <2>3 DEF Plain, Reply, CreateTransaction, Usable
    <3> QED
      BY <2>1, <3>1
  <2>4. CASE reply = Reply(200, 202, TRUE, "deny")
    <3>1. reply.kind = "reply" /\ reply.http = 200 /\ reply.code = 202 /\ reply.id /\ reply.status = "deny" /\ Hundreds(reply.code) = 2
      BY <2>4, Hundred DEF Reply
    <3>2. CreateTransaction(reply) = "answered"
      BY <3>1 DEF CreateTransaction, Usable, failed
    <3>3. TransactionStatus(reply.status) = "FAILED"
      BY <3>1 DEF TransactionStatus
    <3> QED
      BY <2>1, <3>2, <3>3
  <2> QED
    BY <1>3, <2>2, <2>3, <2>4 DEF Refused
<1> QED
  BY <1>1, <1>2, <1>3 DEF CanReply

\* A cancel, refund or status check recorded as SUCCEEDED did what it asked for, and
\* one recorded as FAILED did not.
LEMMA CallTells ==
  ASSUME NEW op \in {"CANCEL", "REFUND", "STATUS"}, NEW did \in BOOLEAN, NEW reply \in CanReply(op, did)
  PROVE  LET result == Result(op, reply) IN
         /\ OutcomeOf(result) = "SUCCEEDED" => did \/ result = "not found"
         /\ OutcomeOf(result) = "FAILED" => ~did /\ result # "not found"
<1>1. CASE reply \in Trouble
  <2>1. Result(op, reply) = "unknown"
    BY <1>1, TroubleTells DEF Result
  <2> QED
    BY <2>1 DEF OutcomeOf
<1>2. CASE ~did /\ reply \in Refusal
  <2>1. Result(op, reply) \in {"failed", "not found", "declined", "unknown"}
    BY <1>2, RefusalTells DEF Result
  <2> QED
    BY <1>2, <2>1 DEF OutcomeOf
<1>3. CASE /\ op = "REFUND" /\ reply \in {Plain(200), Plain(201), Plain(406)}
           /\ reply \notin Trouble /\ ~(~did /\ reply \in Refusal)
  <2>0. PICK code \in {200, 201, 406} : reply = Plain(code)
    BY <1>3
  <2>1. Usable(reply) /\ reply.code = code /\ reply.http = 200
    BY <2>0, PlainParts DEF Usable
  <2>2. CreateRefund(reply) = IF reply.code = 200 THEN "accepted" ELSE "unknown"
    BY <2>1, Hundred DEF CreateRefund
  <2>3. Result(op, reply) = IF reply.code = 200 THEN "accepted" ELSE "unknown"
    BY <1>3, <2>2 DEF Result
  <2>4. reply.code = 200 => did
    <3>1. ASSUME ~did, reply.code = 200 PROVE FALSE
      <4>1. reply \in Trouble \cup Refusal \/ reply = Plain(406)
        BY <1>3, <3>1 DEF CanReply, Refused
      <4> QED
        BY <1>3, <2>1, <3>1, <4>1, PlainParts
    <3> QED
      BY <3>1
  <2> QED
    BY <2>3, <2>4 DEF OutcomeOf
<1>4. CASE did /\ op = "CANCEL" /\ reply = Plain(200)
  <2>1. CancelTransaction(reply) = "answered"
    <3>1. reply.kind = "reply" /\ reply.http = 200 /\ reply.code = 200
      BY <1>4, PlainParts
    <3>2. Hundreds(reply.code) = 2
      BY <3>1, Hundred
    <3> QED
      BY <3>1, <3>2 DEF CancelTransaction, Usable, failed
  <2> QED
    BY <1>4, <2>1 DEF Result, OutcomeOf
<1>5. CASE did /\ op = "STATUS" /\ reply = Reply(200, 200, TRUE, "pending")
  <2>1. GetTransaction(reply) = "answered"
    <3>1. reply.kind = "reply" /\ reply.http = 200 /\ reply.code = 200
      BY <1>5 DEF Reply
    <3>2. Hundreds(reply.code) = 2
      BY <3>1, Hundred
    <3> QED
      BY <3>1, <3>2 DEF GetTransaction, Usable, failed
  <2> QED
    BY <1>5, <2>1 DEF Result, OutcomeOf
<1>6. /\ reply \in Trouble \/ (did /\ reply \in Taken(op)) \/ (~did /\ reply \in Refused(op))
      /\ reply \in Refused(op) => reply \in Refusal \/ (op = "REFUND" /\ reply = Plain(406))
      /\ reply \in Taken(op) => \/ op = "REFUND" /\ reply \in {Plain(200), Plain(201), Plain(406)}
                                \/ op = "CANCEL" /\ reply = Plain(200)
                                \/ op = "STATUS" /\ reply = Reply(200, 200, TRUE, "pending")
  <2>1. reply \in Trouble \/ (did /\ reply \in Taken(op)) \/ (~did /\ reply \in Refused(op))
    BY DEF CanReply
  <2>2. reply \in Refused(op) => reply \in Refusal \/ (op = "REFUND" /\ reply = Plain(406))
    BY DEF Refused
  <2>3. reply \in Taken(op) => \/ op = "REFUND" /\ reply \in {Plain(200), Plain(201), Plain(406)}
                               \/ op = "CANCEL" /\ reply = Plain(200)
                               \/ op = "STATUS" /\ reply = Reply(200, 200, TRUE, "pending")
    BY DEF Taken
  <2> QED
    BY <2>1, <2>2, <2>3
<1> QED
  BY <1>1, <1>2, <1>3, <1>4, <1>5, <1>6

-----------------------------------------------------------------------------
(* Calls. *)

\* A call that was made starts out to number its attempt, with no try behind it.
LEMMA StartsRecording ==
  ASSUME IInv, NEW c \in Caller, NEW call \in CallState, call.tries = 0, Recording(c, call)
  PROVE  /\ callers' \in [Caller -> CallState]
         /\ attempts' = attempts => \A d \in Caller : Between(callers[d])'
<1> DEFINE new == [call EXCEPT !.pc = "number", !.since = Counted]
<1>1. new \in CallState /\ new.pc = "number" /\ new.since = Counted /\ new.tries = 0
  BY DEF IInv, CallState
<1>2. callers' = [callers EXCEPT ![c] = new] /\ callers \in [Caller -> CallState]
  BY DEF Recording, IInv, TypeOK
<1>3. callers' \in [Caller -> CallState]
  BY <1>1, <1>2
<1>4. ASSUME attempts' = attempts, NEW d \in Caller
      PROVE  Between(callers[d])'
  <2>1. Counted' = Counted
    BY <1>4 DEF Counted
  <2>2. CASE d = c
    <3>1. callers'[d] = new
      BY <1>2, <2>2
    <3> QED
      BY <1>1, <2>1, <3>1, CallsAssumption DEF Between, IInv
  <2>3. CASE d # c
    <3>1. callers'[d] = callers[d]
      BY <1>2, <2>3
    <3> QED
      BY <2>1, <3>1 DEF Between, IInv
  <2> QED
    BY <2>2, <2>3
<1> QED
  BY <1>3, <1>4

LEMMA RestIsTyped == AtRest \in CallState /\ AtRest.tries = 0
BY CallsAssumption DEF AtRest, CallState, Outcome, Effect, Fate, Answer

LEMMA CreateKeeps ==
  ASSUME IInv, NEW c \in Caller, CreatePayment(c)
  PROVE  IInv'
<1>1. PICK req \in ChargeRequest, did \in BOOLEAN : \E reply \in CanReply("CHARGE", did) :
       LET result   == IF Unsendable(req) THEN "invalid" ELSE CreateTransaction(reply)
           status   == IF result = "answered" THEN TransactionStatus(reply.status) ELSE "UNKNOWN"
           declined == result = "answered" /\ status = "FAILED"
       IN  IF result = "invalid"
           THEN /\ answer' = "INVALID_INPUT"
                /\ made' = IF Unsendable(req) THEN "nothing" ELSE EffectOf(did, reply)
                /\ UNCHANGED <<charge, callers>>
           ELSE /\ charge' = IF Capability(req.method).refund THEN "refundable" ELSE "final"
                /\ made' = EffectOf(did, reply)
                /\ Recording(c, [AtRest EXCEPT
                     !.effect  = EffectOf(did, reply),
                     !.outcome = IF declined THEN "FAILED" ELSE OutcomeOf(result),
                     !.fate    = ChargeFate(result, status),
                     !.answer  = IF result = "answered" THEN NextAction(req.method, status)
                                                        ELSE "GATEWAY_ERROR"])
                /\ UNCHANGED answer
  BY DEF CreatePayment
<1>2. PICK reply \in CanReply("CHARGE", did) :
       LET result   == IF Unsendable(req) THEN "invalid" ELSE CreateTransaction(reply)
           status   == IF result = "answered" THEN TransactionStatus(reply.status) ELSE "UNKNOWN"
           declined == result = "answered" /\ status = "FAILED"
       IN  IF result = "invalid"
           THEN /\ answer' = "INVALID_INPUT"
                /\ made' = IF Unsendable(req) THEN "nothing" ELSE EffectOf(did, reply)
                /\ UNCHANGED <<charge, callers>>
           ELSE /\ charge' = IF Capability(req.method).refund THEN "refundable" ELSE "final"
                /\ made' = EffectOf(did, reply)
                /\ Recording(c, [AtRest EXCEPT
                     !.effect  = EffectOf(did, reply),
                     !.outcome = IF declined THEN "FAILED" ELSE OutcomeOf(result),
                     !.fate    = ChargeFate(result, status),
                     !.answer  = IF result = "answered" THEN NextAction(req.method, status)
                                                        ELSE "GATEWAY_ERROR"])
                /\ UNCHANGED answer
  BY <1>1
<1> DEFINE result   == IF Unsendable(req) THEN "invalid" ELSE CreateTransaction(reply)
           status   == IF result = "answered" THEN TransactionStatus(reply.status) ELSE "UNKNOWN"
           declined == result = "answered" /\ status = "FAILED"
           effect   == EffectOf(did, reply)
           outcome  == IF declined THEN "FAILED" ELSE OutcomeOf(result)
           fate     == ChargeFate(result, status)
           reported == IF result = "answered" THEN NextAction(req.method, status) ELSE "GATEWAY_ERROR"
           call     == [AtRest EXCEPT !.effect = effect, !.outcome = outcome, !.fate = fate, !.answer = reported]
<1>3. result \in {"invalid", "answered", "failed", "unknown"}
  BY Results
<1>4. status \in {"SETTLED", "PENDING", "FAILED", "UNKNOWN"}
  BY Statuses
<1>5. effect \in Effect
  BY Effects
<1>6. payment' = payment /\ attempts' = attempts /\ Counted' = Counted
  BY DEF CreatePayment, Counted
<1>7. CASE result = "invalid"
  <2>1. callers' = callers /\ charge' = charge /\ answer' = "INVALID_INPUT" /\ made' \in Effect
    BY <1>2, <1>5, <1>7 DEF Effect
  <2>2. TypeOK'
    BY <1>6, <2>1 DEF IInv, TypeOK, Answer
  <2> QED
    BY <1>6, <2>1, <2>2 DEF IInv, AttemptsNumbered, Between
<1>8. CASE result # "invalid"
  <2>1. /\ charge' \in {"none", "refundable", "final"} /\ made' \in Effect /\ answer' = answer
        /\ Recording(c, call)
    BY <1>2, <1>5, <1>8
  <2>2. outcome \in Outcome
    BY <1>3, <1>8, Outcomes DEF Outcome
  <2>3. reported \in Answer
    BY <1>4, Actions DEF Answer, ChargeRequest
  <2>4. fate \in Fate
    BY Fates
  <2> HIDE DEF effect, outcome, fate, reported
  <2>5. call \in CallState /\ call.tries = 0
    BY <1>5, <2>2, <2>3, <2>4, RestIsTyped DEF CallState
  <2> HIDE DEF call
  <2>6. callers' \in [Caller -> CallState] /\ \A d \in Caller : Between(callers[d])'
    BY <1>6, <2>1, <2>5, StartsRecording
  <2> QED
    BY <1>6, <2>1, <2>6 DEF IInv, TypeOK, AttemptsNumbered
<1> QED
  BY <1>7, <1>8

LEMMA CallKeeps ==
  ASSUME IInv, NEW c \in Caller, Call(c)
  PROVE  IInv'
<1>1. PICK op \in {"CANCEL", "REFUND", "STATUS"}, did \in BOOLEAN :
        \E reply \in CanReply(op, did) :
          Recording(c, [AtRest EXCEPT !.outcome = OutcomeOf(Result(op, reply)),
            !.effect = IF did \/ Result(op, reply) = "not found" THEN "done" ELSE "nothing"])
  BY DEF Call
<1>r. PICK reply \in CanReply(op, did) :
        Recording(c, [AtRest EXCEPT !.outcome = OutcomeOf(Result(op, reply)),
          !.effect = IF did \/ Result(op, reply) = "not found" THEN "done" ELSE "nothing"])
  BY <1>1
<1> DEFINE result == Result(op, reply)
<1>2. result \in {"answered", "not found", "accepted", "failed", "declined", "unknown"}
  BY Results DEF Result
<1> HIDE DEF result
<1> DEFINE outcome == OutcomeOf(result)
           effect  == IF did \/ result = "not found" THEN "done" ELSE "nothing"
           call    == [AtRest EXCEPT !.outcome = outcome, !.effect = effect]
<1>3. outcome \in Outcome /\ effect \in Effect
  BY <1>2, Outcomes DEF Effect, Done
<1>4. Recording(c, call)
  BY <1>r DEF result
<1> HIDE DEF outcome, effect
<1>5. call \in CallState /\ call.tries = 0
  BY <1>3, RestIsTyped DEF CallState
<1> HIDE DEF call
<1>6. UNCHANGED <<payment, charge, made, answer, attempts>> /\ Counted' = Counted
  BY DEF Call, Counted
<1>7. callers' \in [Caller -> CallState] /\ \A d \in Caller : Between(callers[d])'
  BY <1>4, <1>5, <1>6, StartsRecording
<1> QED
  BY <1>6, <1>7 DEF IInv, TypeOK, AttemptsNumbered

-----------------------------------------------------------------------------
(* Recording. *)

LEMMA LastIsCounted ==
  ASSUME IInv
  PROVE  Last = Counted
<1>1. DOMAIN attempts = 1..Counted /\ Counted \in Nat
  BY DEF IInv, AttemptsNumbered
<1>2. CASE Counted = 0
  BY <1>1, <1>2 DEF Last
<1>3. CASE Counted > 0
  <2>1. Counted \in DOMAIN attempts /\ \A i \in DOMAIN attempts : i <= Counted
    BY <1>1, <1>3
  <2>2. \A n \in DOMAIN attempts : (\A i \in DOMAIN attempts : i <= n) => n = Counted
    BY <1>1, <2>1
  <2> QED
    BY <2>1, <2>2 DEF Last
<1> QED
  BY <1>1, <1>2, <1>3

LEMMA TakeNumberKeeps ==
  ASSUME IInv, NEW c \in Caller, TakeNumber(c)
  PROVE  IInv'
<1> DEFINE next == Last + 1
           new  == [callers[c] EXCEPT !.pc = "insert", !.number = next]
<1>1. /\ callers \in [Caller -> CallState] /\ callers[c].pc = "number" /\ callers[c] \in CallState
      /\ callers' = [callers EXCEPT ![c] = new]
  BY DEF TakeNumber, IInv, TypeOK
<1>n. next = Counted + 1 /\ next \in Nat
  BY LastIsCounted DEF IInv
<1> HIDE DEF next
<1>2. /\ new \in CallState /\ new.pc = "insert" /\ new.number = Counted + 1
      /\ new.tries = callers[c].tries /\ new.since = callers[c].since
  BY <1>1, <1>n DEF CallState
<1>3. UNCHANGED <<payment, charge, made, answer, attempts>> /\ Counted' = Counted
  BY DEF TakeNumber, Counted
<1>4. ASSUME NEW d \in Caller
      PROVE  Between(callers[d])'
  <2>1. CASE d = c
    <3>1. callers'[d] = new
      BY <1>1, <2>1
    <3>2. callers[c].tries < maxNumberRetries /\ Counted >= callers[c].since + callers[c].tries
      BY <1>1 DEF IInv, Between
    <3>3. callers[c].since \in Nat /\ callers[c].tries \in Nat /\ Counted \in Nat
      BY <1>1 DEF IInv, CallState
    <3> QED
      BY <1>2, <1>3, <3>1, <3>2, <3>3 DEF Between
  <2>2. CASE d # c
    <3>1. callers'[d] = callers[d]
      BY <1>1, <2>2
    <3> QED
      BY <1>3, <3>1 DEF Between, IInv
  <2> QED
    BY <2>1, <2>2
<1>5. callers' \in [Caller -> CallState]
  BY <1>1, <1>2
<1> QED
  BY <1>3, <1>4, <1>5 DEF IInv, TypeOK, AttemptsNumbered

\* An insert that succeeds takes the next number; those still under way may only
\* find more attempts on record.
LEMMA InsertKeeps ==
  ASSUME IInv, NEW c \in Caller, Insert(c)
  PROVE  IInv'
<1> DEFINE call == callers[c]
<1>1. /\ callers \in [Caller -> CallState] /\ call \in CallState /\ call.pc = "insert"
      /\ UNCHANGED <<payment, charge, made, answer>>
  BY DEF Insert, IInv, TypeOK
<1>2. /\ DOMAIN attempts = 1..Counted /\ Counted \in Nat
      /\ call.tries < maxNumberRetries /\ call.number \in call.since + call.tries + 1..Counted + 1
      /\ call.since \in Nat /\ call.tries \in Nat /\ call.number \in Nat /\ call.number >= 1
      /\ maxNumberRetries \in Nat
  BY <1>1, CallsAssumption DEF IInv, AttemptsNumbered, Between, CallState
<1>3. ASSUME NEW d \in Caller, Counted' \in Nat, Counted' >= Counted, callers'[d] = callers[d]
      PROVE  Between(callers[d])'
  <2>1. callers[d] \in CallState /\ Between(callers[d])
    BY <1>1 DEF IInv
  <2>2. callers[d].since \in Nat /\ callers[d].tries \in Nat
    BY <2>1 DEF CallState
  <2> QED
    BY <1>2, <1>3, <2>1, <2>2 DEF Between
<1>4. CASE /\ call.number \notin DOMAIN attempts
           /\ attempts' = [n \in DOMAIN attempts \cup {call.number} |->
                             IF n = call.number THEN Row(call) ELSE attempts[n]]
           /\ callers' = [callers EXCEPT ![c].pc = "recorded"]
  <2>1. call.number = Counted + 1
    BY <1>2, <1>4
  <2>2. DOMAIN attempts' = 1..Counted + 1
    BY <1>2, <1>4, <2>1
  <2>3. Counted' = Counted + 1
    BY <1>2, <2>2, FS_Interval DEF Counted
  <2>4. Row(call) \in Attempt
    BY <1>1 DEF Row, Attempt, CallState
  <2>5. \A n \in DOMAIN attempts' : attempts'[n] \in Attempt
    BY <1>4, <2>4 DEF IInv, TypeOK
  <2>6. callers' \in [Caller -> CallState] /\ callers'[c].pc = "recorded"
    BY <1>1, <1>4 DEF CallState
  <2>7. ASSUME NEW d \in Caller PROVE Between(callers[d])'
    <3>1. CASE d = c
      BY <2>6, <3>1 DEF Between
    <3>2. CASE d # c
      <4>1. callers'[d] = callers[d]
        BY <1>4, <1>1, <3>2
      <4> QED
        BY <1>2, <1>3, <2>3, <4>1
    <3> QED
      BY <3>1, <3>2
  <2>8. TypeOK'
    BY <1>1, <1>2, <2>2, <2>5, <2>6 DEF IInv, TypeOK
  <2> QED
    BY <1>2, <2>2, <2>3, <2>7, <2>8 DEF IInv, AttemptsNumbered
<1>5. CASE /\ call.number \in DOMAIN attempts /\ UNCHANGED attempts
           /\ callers' = [callers EXCEPT ![c].tries = @ + 1,
                ![c].pc = IF call.tries + 1 < maxNumberRetries THEN "number" ELSE "beaten"]
  <2> DEFINE tries == call.tries + 1
             pc    == IF tries < maxNumberRetries THEN "number" ELSE "beaten"
             new   == [call EXCEPT !.tries = tries, !.pc = pc]
  <2>1. callers' = [callers EXCEPT ![c] = new]
    BY <1>1, <1>5 DEF CallState
  <2>n. tries \in 0..maxNumberRetries /\ pc \in {"number", "beaten"} /\ tries = call.tries + 1
    BY <1>2
  <2>p. (pc = "number" => tries < maxNumberRetries) /\ (pc = "beaten" => tries = maxNumberRetries)
    BY <1>2
  <2> HIDE DEF tries, pc
  <2>2. new \in CallState /\ new.tries = tries /\ new.since = call.since /\ new.pc = pc
    BY <1>1, <2>n DEF CallState
  <2>3. Counted' = Counted /\ Counted >= call.since + call.tries + 1
    BY <1>2, <1>5 DEF Counted
  <2>4. ASSUME NEW d \in Caller PROVE Between(callers[d])'
    <3>1. CASE d = c
      <4>1. callers'[d] = new
        BY <1>1, <2>1, <3>1
      <4> HIDE DEF new
      <4> QED
        BY <1>2, <2>n, <2>p, <2>2, <2>3, <4>1 DEF Between
    <3>2. CASE d # c
      <4>1. callers'[d] = callers[d]
        BY <1>1, <2>1, <3>2
      <4> QED
        BY <1>2, <1>3, <2>3, <4>1
    <3> QED
      BY <3>1, <3>2
  <2>5. callers' \in [Caller -> CallState]
    BY <1>1, <2>1, <2>2
  <2> QED
    BY <1>1, <1>5, <2>3, <2>4, <2>5 DEF IInv, TypeOK, AttemptsNumbered
<1>6. CASE callers' = [callers EXCEPT ![c].pc = "recorded"] /\ UNCHANGED attempts
  <2>1. callers' \in [Caller -> CallState] /\ callers'[c].pc = "recorded"
    BY <1>1, <1>6 DEF CallState
  <2>2. Counted' = Counted
    BY <1>6 DEF Counted
  <2>3. ASSUME NEW d \in Caller PROVE Between(callers[d])'
    <3>1. CASE d = c
      BY <2>1, <3>1 DEF Between
    <3>2. CASE d # c
      <4>1. callers'[d] = callers[d]
        BY <1>6, <1>1, <3>2
      <4> QED
        BY <1>2, <1>3, <2>2, <4>1
    <3> QED
      BY <3>1, <3>2
  <2> QED
    BY <1>1, <1>6, <2>1, <2>2, <2>3 DEF IInv, TypeOK, AttemptsNumbered
<1> QED
  BY <1>4, <1>5, <1>6 DEF Insert

LEMMA CarryOnKeeps ==
  ASSUME IInv, NEW c \in Caller, CarryOn(c)
  PROVE  IInv'
<1>1. callers \in [Caller -> CallState] /\ callers[c] \in CallState
  BY DEF IInv, TypeOK
<1>2. callers' = [callers EXCEPT ![c] = AtRest] /\ UNCHANGED <<charge, made, attempts>> /\ Counted' = Counted
  BY DEF CarryOn, Counted
<1>3. payment' \in Fate /\ answer' \in Answer
  BY <1>1 DEF CarryOn, IInv, TypeOK, CallState, Answer
<1>4. ASSUME NEW d \in Caller PROVE Between(callers[d])'
  <2>1. CASE d = c
    <3>1. callers'[d].pc = "idle"
      BY <1>1, <1>2, <2>1 DEF AtRest
    <3> QED
      BY <3>1 DEF Between
  <2>2. CASE d # c
    <3>1. callers'[d] = callers[d]
      BY <1>1, <1>2, <2>2
    <3> QED
      BY <1>2, <3>1 DEF Between, IInv
  <2> QED
    BY <2>1, <2>2
<1>5. callers' \in [Caller -> CallState]
  BY <1>1, <1>2, RestIsTyped
<1> QED
  BY <1>2, <1>3, <1>4, <1>5 DEF IInv, TypeOK, AttemptsNumbered

-----------------------------------------------------------------------------
LEMMA InitHolds == Init => IInv
<1> SUFFICES ASSUME Init PROVE IInv
  OBVIOUS
<1>1. DOMAIN attempts = {} /\ callers = [c \in Caller |-> AtRest]
  BY DEF Init
<1>2. Counted = 0
  BY <1>1, FS_EmptySet DEF Counted
<1>3. TypeOK
  BY <1>1, RestIsTyped DEF Init, TypeOK, Fate, Effect, Answer
<1>4. \A c \in Caller : Between(callers[c])
  BY <1>1 DEF Between, AtRest
<1> QED
  BY <1>1, <1>2, <1>3, <1>4 DEF IInv, AttemptsNumbered

LEMMA NextKeeps == IInv /\ [Next]_callVars => IInv'
<1> SUFFICES ASSUME IInv, [Next]_callVars PROVE IInv'
  OBVIOUS
<1>1. CASE UNCHANGED callVars
  BY <1>1 DEF callVars, IInv, TypeOK, AttemptsNumbered, Between, Counted
<1>2. ASSUME NEW c \in Caller, CreatePayment(c) \/ Call(c) \/ TakeNumber(c) \/ Insert(c) \/ CarryOn(c)
      PROVE  IInv'
  BY <1>2, CreateKeeps, CallKeeps, TakeNumberKeeps, InsertKeeps, CarryOnKeeps
<1> QED
  BY <1>1, <1>2 DEF Next

\* Attempts are numbered from 1 without gap or repeat, however many handlers record
\* at once: the number is read in the INSERT and the unique index turns the second
\* one away (AttemptRecorder.Record).
THEOREM AttemptsAreNumbered == Spec => []AttemptsNumbered
<1>1. IInv => AttemptsNumbered
  BY DEF IInv
<1> QED
  BY <1>1, InitHolds, NextKeeps, PTL DEF Spec

\* An attempt that gives up its number was beaten to it by as many others as it made
\* tries, all of them on record (maxNumberRetries).
THEOREM LostToOthers == Spec => []LostMeansBeaten
<1>1. IInv => LostMeansBeaten
  BY DEF IInv, LostMeansBeaten, Between
<1> QED
  BY <1>1, InitHolds, NextKeeps, PTL DEF Spec

-----------------------------------------------------------------------------
(* What is told, stored and kept as evidence agrees with the gateway.      *)
(*                                                                         *)
(* The invariant carries the agreement from the reply to the record: the   *)
(* attempt a handler is still recording is honest, and what its charge will *)
(* store and answer fits what the gateway did.  Only one handler has a     *)
(* charge to store, and until it does nothing is stored.                   *)

Shown == {"DISPLAY_VA", "DISPLAY_QR", "REDIRECT"}

Honest(row) ==
  /\ row.outcome = "SUCCEEDED" => row.effect \in Done
  /\ row.outcome = "FAILED"    => row.effect \notin Done

\* fate and reported fit what the charge did.
Fitting(fate, reported, did) ==
  /\ fate = "FAILED" => did \notin Done
  /\ fate \in {"PENDING", "COMPLETED"} => did \in Done
  /\ reported = "GATEWAY_ERROR" => fate \in {"INITIATED", "FAILED"}
  /\ fate = "PENDING" /\ did # "unrecognised" => reported \in Shown

\* A charge still to be stored is the only one.
Owed(c) ==
  callers[c].fate # "none" =>
    /\ callers[c].pc # "idle" /\ charge # "none" /\ payment = "none"
    /\ Fitting(callers[c].fate, callers[c].answer, made)
    /\ \A d \in Caller \ {c} : callers[d].fate = "none"

\* Before the charge there is nothing.
Fresh ==
  charge = "none" =>
    /\ payment = "none" /\ made = "nothing" /\ Counted = 0
    /\ \A c \in Caller : callers[c].pc = "idle"

Truth ==
  /\ RecordedAgrees /\ FateAgrees /\ AnswerFits /\ Fresh
  /\ \A c \in Caller : Honest(callers[c]) /\ Owed(c)

\* What CreatePaymentHandler records, stores and answers after its charge.
LEMMA ChargeRecord ==
  ASSUME NEW m \in Method, NEW did \in BOOLEAN, NEW reply \in CanReply("CHARGE", did),
         CreateTransaction(reply) # "invalid"
  PROVE  LET result   == CreateTransaction(reply)
             status   == IF result = "answered" THEN TransactionStatus(reply.status) ELSE "UNKNOWN"
             declined == result = "answered" /\ status = "FAILED"
             effect   == EffectOf(did, reply)
             outcome  == IF declined THEN "FAILED" ELSE OutcomeOf(result)
             reported == IF result = "answered" THEN NextAction(m, status) ELSE "GATEWAY_ERROR"
         IN  /\ outcome = "SUCCEEDED" => effect \in Done
             /\ outcome = "FAILED" => effect \notin Done
             /\ ChargeFate(result, status) # "none"
             /\ Fitting(ChargeFate(result, status), reported, effect)
<1> DEFINE result   == CreateTransaction(reply)
           status   == IF result = "answered" THEN TransactionStatus(reply.status) ELSE "UNKNOWN"
           effect   == EffectOf(did, reply)
           fate     == ChargeFate(result, status)
<1>1. fate # "none"
  BY DEF ChargeFate
<1>2. CASE result = "unknown"
  <2>1. OutcomeOf(result) = "UNKNOWN" /\ fate = "INITIATED"
    BY <1>2 DEF OutcomeOf, ChargeFate
  <2> HIDE DEF result, status, effect, fate
  <2> QED
    BY <1>2, <2>1 DEF Fitting, result, status, effect, fate
<1>3. CASE result = "failed" /\ effect \in {"nothing", "unnamed"}
  <2>1. OutcomeOf(result) = "FAILED" /\ fate = "FAILED"
    BY <1>3 DEF OutcomeOf, ChargeFate
  <2> HIDE DEF result, status, effect, fate
  <2> QED
    BY <1>3, <2>1 DEF Fitting, Done, result, status, effect, fate
<1>4. CASE result = "answered" /\ status = "FAILED" /\ effect = "nothing"
  <2>1. fate = "FAILED" /\ NextAction(m, status) = "NONE"
    BY <1>4 DEF ChargeFate, NextAction
  <2> HIDE DEF result, status, effect, fate
  <2> QED
    BY <1>4, <2>1 DEF Fitting, Done, result, status, effect, fate
<1>5. CASE result = "answered" /\ status = "SETTLED" /\ effect = "done"
  <2>1. fate = "COMPLETED" /\ NextAction(m, status) = "NONE" /\ OutcomeOf(result) = "SUCCEEDED"
    BY <1>5 DEF ChargeFate, NextAction, OutcomeOf
  <2> HIDE DEF result, status, effect, fate
  <2> QED
    BY <1>5, <2>1 DEF Fitting, Done, result, status, effect, fate
<1>6. CASE result = "answered" /\ status = "PENDING" /\ effect = "done"
  <2>1. fate = "PENDING" /\ NextAction(m, status) \in Shown /\ OutcomeOf(result) = "SUCCEEDED"
    BY <1>6 DEF ChargeFate, NextAction, OutcomeOf, Method, Shown
  <2> HIDE DEF result, status, effect, fate
  <2> QED
    BY <1>6, <2>1 DEF Fitting, Done, Shown, result, status, effect, fate
<1>7. CASE result = "answered" /\ status = "UNKNOWN" /\ effect = "unrecognised"
  <2>1. fate = "PENDING" /\ NextAction(m, status) = "NONE" /\ OutcomeOf(result) = "SUCCEEDED"
    BY <1>7 DEF ChargeFate, NextAction, OutcomeOf
  <2> HIDE DEF result, status, effect, fate
  <2> QED
    BY <1>7, <2>1 DEF Fitting, Done, result, status, effect, fate
<1> QED
  BY <1>2, <1>3, <1>4, <1>5, <1>6, <1>7, ChargeTells

LEMMA CreateTrue ==
  ASSUME IInv, Truth, NEW c \in Caller, CreatePayment(c)
  PROVE  Truth'
<1>1. /\ charge = "none" /\ callers[c].pc = "idle" /\ UNCHANGED <<payment, attempts>>
      /\ callers \in [Caller -> CallState] /\ Counted' = Counted
  BY DEF CreatePayment, Ready, IInv, TypeOK, Counted
<1>2. /\ payment = "none" /\ made = "nothing" /\ Counted = 0
      /\ \A d \in Caller : callers[d].pc = "idle" /\ callers[d].fate = "none"
  BY <1>1 DEF Truth, Fresh, Owed
<1>3. PICK req \in ChargeRequest, did \in BOOLEAN : \E reply \in CanReply("CHARGE", did) :
       LET result   == IF Unsendable(req) THEN "invalid" ELSE CreateTransaction(reply)
           status   == IF result = "answered" THEN TransactionStatus(reply.status) ELSE "UNKNOWN"
           declined == result = "answered" /\ status = "FAILED"
       IN  IF result = "invalid"
           THEN /\ answer' = "INVALID_INPUT"
                /\ made' = IF Unsendable(req) THEN "nothing" ELSE EffectOf(did, reply)
                /\ UNCHANGED <<charge, callers>>
           ELSE /\ charge' = IF Capability(req.method).refund THEN "refundable" ELSE "final"
                /\ made' = EffectOf(did, reply)
                /\ Recording(c, [AtRest EXCEPT
                     !.effect  = EffectOf(did, reply),
                     !.outcome = IF declined THEN "FAILED" ELSE OutcomeOf(result),
                     !.fate    = ChargeFate(result, status),
                     !.answer  = IF result = "answered" THEN NextAction(req.method, status)
                                                        ELSE "GATEWAY_ERROR"])
                /\ UNCHANGED answer
  BY DEF CreatePayment
<1>4. PICK reply \in CanReply("CHARGE", did) :
       LET result   == IF Unsendable(req) THEN "invalid" ELSE CreateTransaction(reply)
           status   == IF result = "answered" THEN TransactionStatus(reply.status) ELSE "UNKNOWN"
           declined == result = "answered" /\ status = "FAILED"
       IN  IF result = "invalid"
           THEN /\ answer' = "INVALID_INPUT"
                /\ made' = IF Unsendable(req) THEN "nothing" ELSE EffectOf(did, reply)
                /\ UNCHANGED <<charge, callers>>
           ELSE /\ charge' = IF Capability(req.method).refund THEN "refundable" ELSE "final"
                /\ made' = EffectOf(did, reply)
                /\ Recording(c, [AtRest EXCEPT
                     !.effect  = EffectOf(did, reply),
                     !.outcome = IF declined THEN "FAILED" ELSE OutcomeOf(result),
                     !.fate    = ChargeFate(result, status),
                     !.answer  = IF result = "answered" THEN NextAction(req.method, status)
                                                        ELSE "GATEWAY_ERROR"])
                /\ UNCHANGED answer
  BY <1>3
<1> DEFINE result   == CreateTransaction(reply)
           status   == IF result = "answered" THEN TransactionStatus(reply.status) ELSE "UNKNOWN"
           declined == result = "answered" /\ status = "FAILED"
           effect   == EffectOf(did, reply)
           outcome  == IF declined THEN "FAILED" ELSE OutcomeOf(result)
           fate     == ChargeFate(result, status)
           reported == IF result = "answered" THEN NextAction(req.method, status) ELSE "GATEWAY_ERROR"
           call     == [AtRest EXCEPT !.effect = effect, !.outcome = outcome, !.fate = fate, !.answer = reported]
<1>5. CASE Unsendable(req) \/ result = "invalid"
  <2>1. /\ answer' = "INVALID_INPUT" /\ UNCHANGED <<charge, callers>>
        /\ made' = IF Unsendable(req) THEN "nothing" ELSE effect
    BY <1>4, <1>5
  <2>2. made' = "nothing"
    BY <1>5, <2>1, ChargeTells
  <2> HIDE DEF result, effect
  <2> QED
    BY <1>1, <1>2, <2>1, <2>2 DEF Truth, RecordedAgrees, FateAgrees, AnswerFits, Fresh, Honest, Owed
<1>6. CASE ~Unsendable(req) /\ result # "invalid"
  <2>1. /\ charge' \in {"refundable", "final"} /\ made' = effect /\ Recording(c, call) /\ answer' = answer
    BY <1>4, <1>6
  <2>2. /\ outcome = "SUCCEEDED" => effect \in Done
        /\ outcome = "FAILED" => effect \notin Done
        /\ fate # "none" /\ Fitting(fate, reported, effect)
    BY <1>6, ChargeRecord DEF ChargeRequest
  <2> HIDE DEF effect, outcome, fate, reported
  <2>3. /\ callers'[c].pc = "number" /\ callers'[c].outcome = outcome /\ callers'[c].effect = effect
        /\ callers'[c].fate = fate /\ callers'[c].answer = reported
        /\ \A d \in Caller \ {c} : callers'[d] = callers[d]
    BY <1>1, <2>1 DEF Recording, AtRest
  <2>4. \A d \in Caller : Honest(callers[d])'
    BY <2>2, <2>3 DEF Truth, Honest
  <2>5. \A d \in Caller : Owed(d)'
    BY <1>1, <1>2, <2>1, <2>2, <2>3 DEF Owed
  <2>6. RecordedAgrees' /\ FateAgrees' /\ AnswerFits' /\ Fresh'
    BY <1>1, <1>2, <2>1 DEF Truth, RecordedAgrees, FateAgrees, AnswerFits, Fresh
  <2> QED
    BY <2>4, <2>5, <2>6 DEF Truth
<1> QED
  BY <1>5, <1>6

LEMMA CallTrue ==
  ASSUME IInv, Truth, NEW c \in Caller, Call(c)
  PROVE  Truth'
<1>1. PICK op \in {"CANCEL", "REFUND", "STATUS"}, did \in BOOLEAN :
        /\ CanCall(op, did)
        /\ \E reply \in CanReply(op, did) :
             Recording(c, [AtRest EXCEPT !.outcome = OutcomeOf(Result(op, reply)),
               !.effect = IF did \/ Result(op, reply) = "not found" THEN "done" ELSE "nothing"])
  BY DEF Call
<1>2. PICK reply \in CanReply(op, did) :
        Recording(c, [AtRest EXCEPT !.outcome = OutcomeOf(Result(op, reply)),
          !.effect = IF did \/ Result(op, reply) = "not found" THEN "done" ELSE "nothing"])
  BY <1>1
<1>3. /\ UNCHANGED <<payment, charge, made, answer, attempts>> /\ Counted' = Counted
      /\ callers \in [Caller -> CallState] /\ callers[c].pc = "idle"
  BY DEF Call, Ready, IInv, TypeOK, Counted
<1>4. payment # "none"
  BY <1>1 DEF CanCall
<1> DEFINE outcome == OutcomeOf(Result(op, reply))
           effect  == IF did \/ Result(op, reply) = "not found" THEN "done" ELSE "nothing"
<1>5. /\ outcome = "SUCCEEDED" => effect \in Done
      /\ outcome = "FAILED" => effect \notin Done
  BY CallTells DEF Done
<1>6. Recording(c, [AtRest EXCEPT !.outcome = outcome, !.effect = effect])
  BY <1>2
<1> HIDE DEF outcome, effect
<1>7. /\ callers'[c].outcome = outcome /\ callers'[c].effect = effect /\ callers'[c].fate = "none"
      /\ \A d \in Caller \ {c} : callers'[d] = callers[d]
  BY <1>3, <1>6 DEF Recording, AtRest
<1>8. \A d \in Caller : Honest(callers[d])'
  BY <1>5, <1>7 DEF Truth, Honest
<1>9. \A d \in Caller : Owed(d)'
  BY <1>3, <1>4, <1>7 DEF Truth, Owed
<1>10. RecordedAgrees' /\ FateAgrees' /\ AnswerFits' /\ Fresh'
  BY <1>3, <1>4 DEF Truth, RecordedAgrees, FateAgrees, AnswerFits, Fresh
<1> QED
  BY <1>8, <1>9, <1>10 DEF Truth

\* Recording changes nothing of what was called, stored or answered.
LEMMA RecordTrue ==
  ASSUME IInv, Truth, NEW c \in Caller, TakeNumber(c) \/ Insert(c)
  PROVE  Truth'
<1>1. /\ UNCHANGED <<payment, charge, made, answer>> /\ callers \in [Caller -> CallState]
      /\ callers[c].pc # "idle"
  BY DEF TakeNumber, Insert, IInv, TypeOK
<1>2. charge # "none" /\ charge' # "none"
  BY <1>1 DEF Truth, Fresh
<1>3. /\ callers'[c].outcome = callers[c].outcome /\ callers'[c].effect = callers[c].effect
      /\ callers'[c].fate = callers[c].fate /\ callers'[c].answer = callers[c].answer
      /\ callers'[c].pc # "idle"
      /\ \A d \in Caller \ {c} : callers'[d] = callers[d]
  <2>1. CASE TakeNumber(c)
    BY <1>1, <2>1 DEF TakeNumber, CallState
  <2>2. CASE Insert(c)
    BY <1>1, <2>2 DEF Insert, CallState
  <2> QED
    BY <2>1, <2>2
<1>4. \A n \in DOMAIN attempts' : attempts'[n] = Row(callers[c]) \/ (n \in DOMAIN attempts /\ attempts'[n] = attempts[n])
  BY DEF TakeNumber, Insert
<1>5. RecordedAgrees'
  <2>1. /\ Row(callers[c]).outcome = callers[c].outcome /\ Row(callers[c]).effect = callers[c].effect
        /\ Honest(callers[c])
    BY DEF Row, Truth
  <2> QED
    BY <1>4, <2>1 DEF Truth, RecordedAgrees, Honest
<1>6. \A d \in Caller : Honest(callers[d])'
  BY <1>3 DEF Truth, Honest
<1>7. \A d \in Caller : Owed(d)'
  BY <1>1, <1>3 DEF Truth, Owed
<1>8. FateAgrees' /\ AnswerFits' /\ Fresh'
  BY <1>1, <1>2 DEF Truth, FateAgrees, AnswerFits, Fresh
<1> QED
  BY <1>5, <1>6, <1>7, <1>8 DEF Truth

\* Storing a charge whose fate fits, or failing to: then nothing was stored before.
LEMMA CarryOnTrue ==
  ASSUME IInv, Truth, NEW c \in Caller, CarryOn(c)
  PROVE  Truth'
<1>1. /\ UNCHANGED <<charge, made, attempts>> /\ callers \in [Caller -> CallState] /\ callers[c].pc # "idle"
      /\ callers'[c] = AtRest /\ \A d \in Caller \ {c} : callers'[d] = callers[d]
  BY DEF CarryOn, IInv, TypeOK
<1>2. charge # "none" /\ charge' # "none"
  BY <1>1 DEF Truth, Fresh
<1>3. \A d \in Caller : Honest(callers[d])'
  BY <1>1 DEF Truth, Honest, AtRest
<1>4. CASE callers[c].fate = "none"
  <2>1. UNCHANGED <<payment, answer>>
    BY <1>4 DEF CarryOn
  <2>2. \A d \in Caller : Owed(d)'
    BY <1>1, <2>1 DEF Truth, Owed, AtRest
  <2>3. RecordedAgrees' /\ FateAgrees' /\ AnswerFits' /\ Fresh'
    BY <1>1, <1>2, <2>1 DEF Truth, RecordedAgrees, FateAgrees, AnswerFits, Fresh
  <2> QED
    BY <1>3, <2>2, <2>3 DEF Truth
<1>5. CASE callers[c].fate # "none"
  <2>1. /\ payment = "none" /\ Fitting(callers[c].fate, callers[c].answer, made)
        /\ \A d \in Caller \ {c} : callers[d].fate = "none"
    BY <1>5 DEF Truth, Owed
  <2>2. \/ payment' = callers[c].fate /\ answer' = callers[c].answer
        \/ answer' = "GATEWAY_ERROR" /\ payment' = payment
    BY <1>5 DEF CarryOn
  <2>3. \A d \in Caller : Owed(d)'
    BY <1>1, <2>1 DEF Owed, AtRest
  <2>4. RecordedAgrees' /\ FateAgrees' /\ Fresh'
    BY <1>1, <1>2, <2>1, <2>2 DEF Truth, RecordedAgrees, FateAgrees, Fresh, Fitting
  <2>5. AnswerFits'
    BY <1>1, <1>2, <2>1, <2>2 DEF AnswerFits, Fitting, Shown
  <2> QED
    BY <1>3, <2>3, <2>4, <2>5 DEF Truth
<1> QED
  BY <1>4, <1>5

\* What is recorded, stored and answered is true of the gateway in every state.
LEMMA TruthHolds == Spec => []Truth
<1>1. ASSUME Init PROVE Truth
  <2>1. DOMAIN attempts = {} /\ \A c \in Caller : callers[c] = AtRest
    BY <1>1 DEF Init
  <2>2. Counted = 0
    BY <2>1, FS_EmptySet DEF Counted
  <2> QED
    BY <1>1, <2>1, <2>2 DEF Init, Truth, RecordedAgrees, FateAgrees, AnswerFits, Fresh, Honest, Owed, AtRest, Done
<1>2. ASSUME IInv, Truth, [Next]_callVars PROVE Truth'
  <2>1. CASE UNCHANGED callVars
    BY <1>2, <2>1 DEF callVars, Truth, RecordedAgrees, FateAgrees, AnswerFits, Fresh, Honest, Owed, Counted
  <2>2. ASSUME NEW c \in Caller, CreatePayment(c) \/ Call(c) \/ TakeNumber(c) \/ Insert(c) \/ CarryOn(c)
        PROVE  Truth'
    BY <1>2, <2>2, CreateTrue, CallTrue, RecordTrue, CarryOnTrue
  <2> QED
    BY <1>2, <2>1, <2>2 DEF Next
<1> QED
  BY <1>1, <1>2, InitHolds, NextKeeps, PTL DEF Spec

\* The attempts are evidence: one recorded as SUCCEEDED took effect, one recorded as
\* FAILED did not (failedAttempt, callRefund), whatever became of the reply.
THEOREM AttemptsAreEvidence == Spec => []RecordedAgrees
<1>1. Truth => RecordedAgrees
  BY DEF Truth
<1> QED
  BY <1>1, TruthHolds, PTL

\* No payment is closed over a charge a customer can still pay, and none waits for a
\* charge the gateway never took: a lost reply leaves it INITIATED (chargeFailed).
\* The exception is a success that names no transaction (charge.go:63), which closes
\* its payment whatever was opened.
THEOREM LostReplyClosesNothing == Spec => []FateAgrees
<1>1. Truth => FateAgrees
  BY DEF Truth
<1> QED
  BY <1>1, TruthHolds, PTL

\* What POST /payments answers fits what happened: INVALID_INPUT only where nothing
\* was opened, an error only where no payment waits for the customer, and a customer
\* who has to pay is told how (nextAction).
THEOREM AnswersAreTrue == Spec => []AnswerFits
<1>1. Truth => AnswerFits
  BY DEF Truth
<1> QED
  BY <1>1, TruthHolds, PTL
=============================================================================
