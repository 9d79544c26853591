------------------------------- MODULE Midtrans -------------------------------
(***************************************************************************)
(* The Midtrans adapter: how a reply, or the lack of one, becomes what the *)
(* port promises, and which charges it can send.  A reply is reduced to    *)
(* its HTTP status, the status_code of its body, whether it names a        *)
(* transaction and that transaction's status.                              *)
(***************************************************************************)
EXTENDS Naturals

Method == {"VIRTUAL_ACCOUNT", "QRIS", "GOPAY", "SHOPEEPAY", "CARD"}

\* bank, return URL or card token: whether what the method needs is there;
\* in time: expired_at is absent or at least a minute away.
ChargeRequest == [method: Method, detail: BOOLEAN, inTime: BOOLEAN]

NotSent == [kind |-> "not sent"]   \* the request could not be built
NoReply == [kind |-> "no reply"]   \* timeout, dropped connection, or not JSON
Reply(http, code, id, status) ==
  [kind |-> "reply", http |-> http, code |-> code, id |-> id, status |-> status]
Plain(code) == Reply(200, code, FALSE, "")

-----------------------------------------------------------------------------
(* Replies. *)

Capability(method) ==
  [charge  |-> method \in Method,
   refund  |-> method \in Method \ {"VIRTUAL_ACCOUNT"},
   partial |-> method \in Method \ {"VIRTUAL_ACCOUNT", "SHOPEEPAY"}]

Usable(reply)      == reply.kind = "reply"
Hundreds(code)     == code \div 100
failed(reply)      == reply.http >= 400 \/ Hundreds(reply.code) \in {4, 5}
ServerError(reply) == reply.http >= 500 \/ Hundreds(reply.code) = 5

\* An error of the adapter: whether it wraps ErrUnknownOutcome.
Failure(reply) ==
  IF reply.kind = "no reply" \/ (Usable(reply) /\ ServerError(reply)) THEN "unknown" ELSE "failed"

TransactionStatus(status) ==
  CASE status \in {"settlement", "capture"}              -> "SETTLED"
    [] status \in {"pending", "authorize", "challenge"}  -> "PENDING"
    [] status \in {"deny", "cancel", "expire", "failure"} -> "FAILED"
    [] OTHER                                             -> "UNKNOWN"

-----------------------------------------------------------------------------
(* The calls.  A result is "answered" or the kind of error. *)

NeedsDetail == {"VIRTUAL_ACCOUNT", "SHOPEEPAY", "CARD"}

\* buildChargeRequest refuses it before anything is sent.
Unsendable(req) ==
  \/ req.method \notin Method
  \/ req.method \in NeedsDetail /\ ~req.detail
  \/ req.method # "CARD" /\ ~req.inTime

\* A 400 is the gateway's validation; a success that names no transaction is an
\* error that does not wrap ErrUnknownOutcome.
CreateTransaction(reply) ==
  CASE ~Usable(reply)                    -> Failure(reply)
    [] Usable(reply) /\ reply.code = 400 -> "invalid"
    [] Usable(reply) /\ reply.code # 400 /\ failed(reply) -> Failure(reply)
    [] OTHER -> IF reply.id THEN "answered" ELSE "failed"

CancelTransaction(reply) ==
  IF ~Usable(reply) \/ failed(reply) THEN Failure(reply) ELSE "answered"

GetTransaction(reply) ==
  IF Usable(reply) /\ 404 \in {reply.http, reply.code} THEN "not found"
  ELSE IF ~Usable(reply) \/ failed(reply) THEN Failure(reply) ELSE "answered"

\* Variant: everything that is not a success is a decline.
CreateRefundOrDecline(reply) ==
  IF ~Usable(reply) THEN "unknown" ELSE IF reply.code = 200 THEN "accepted" ELSE "declined"

\* Any error leaves the outcome unknown, a duplicate key too.
CreateRefund(reply) ==
  CASE ~Usable(reply)                         -> "unknown"
    [] Usable(reply) /\ reply.code = 200      -> "accepted"
    [] Usable(reply) /\ \/ reply.code = 406
                        \/ ServerError(reply) /\ reply.code # 200
                        \/ Hundreds(reply.code) = 2 /\ reply.code # 200 -> "unknown"
    [] OTHER                                  -> "declined"

\* Variant: e-wallets are taken for cards, which may have nothing left to do.
NextActionWallets(method, status) ==
  IF status # "PENDING" \/ method \in {"GOPAY", "SHOPEEPAY"} THEN "NONE"
  ELSE IF method = "QRIS" THEN "DISPLAY_QR" ELSE "DISPLAY_VA"

\* What the customer has to do after a charge.
NextAction(method, status) ==
  CASE status # "PENDING"                                               -> "NONE"
    [] status = "PENDING" /\ method = "VIRTUAL_ACCOUNT"                 -> "DISPLAY_VA"
    [] status = "PENDING" /\ method = "QRIS"                            -> "DISPLAY_QR"
    [] status = "PENDING" /\ method \in {"GOPAY", "SHOPEEPAY", "CARD"}  -> "REDIRECT"
=============================================================================
