------------------------------- MODULE Payment -------------------------------
(***************************************************************************)
(* The Payment aggregate (internal/domain/payment): one payment and the    *)
(* refunds that live inside it, as a value.  Every method of the Go type   *)
(* is a pair of operators: CanM(p, ...), the condition under which the     *)
(* method returns no error, and M(p, ...), the payment after it.  Nothing  *)
(* here has a VARIABLE: the modules that store, load and race on payments  *)
(* apply these operators to their own copies.                              *)
(*                                                                         *)
(* Abstractions.  Amounts count whole units of the payment's currency and  *)
(* Amount is the sum paid.  Timestamps, names and gateway payloads are     *)
(* left out; GatewayTransactionID is reduced to whether it is known.       *)
(***************************************************************************)
EXTENDS Integers, Sequences, FiniteSets

CONSTANTS
  RefundId,     \* the refund IDs this payment can ever be given
  Reference,    \* the callers' refund references
  NoReference,  \* the reference of a refund that does not exist
  Amount        \* what the customer pays

ASSUME AmountAssumption    == Amount \in Nat \ {0}
ASSUME RefundIdAssumption  == IsFiniteSet(RefundId)
ASSUME ReferenceAssumption == NoReference \notin Reference

-----------------------------------------------------------------------------
(* Statuses. *)

PaidStatus     == {"COMPLETED", "PARTIALLY_REFUNDED", "REFUNDED"}
TerminalStatus == PaidStatus \cup {"FAILED", "CANCELLED", "EXPIRED"}
Status         == TerminalStatus \cup {"INITIATED", "PENDING", "PROCESSING"}

\* "NONE" marks an ID that names no refund yet.
RefundStatus   == {"NONE", "PENDING", "SUCCEEDED", "FAILED"}
ReservedStatus == {"PENDING", "SUCCEEDED"}

Refund   == [status: RefundStatus, amount: 0..Amount, ref: Reference \cup {NoReference}]
NoRefund == [status |-> "NONE", amount |-> 0, ref |-> NoReference]
NoRefunds == [r \in RefundId |-> NoRefund]

\* An event and the refunds it is about.  Completing several refunds in one
\* pass raises one event each; they are kept as one element naming them all.
EventType == {"PaymentInitiated", "PaymentPending", "PaymentCompleted", "PaymentFailed",
              "PaymentCancelled", "PaymentExpired",
              "RefundRequested", "RefundCompleted", "RefundFailed"}
Event == EventType \X SUBSET RefundId

PaymentRecord ==
  [status: Status, tx: BOOLEAN, version: Nat,
   refunds: [RefundId -> Refund], events: Seq(Event)]

-----------------------------------------------------------------------------
(* Amounts.  The sum of the amounts of a set of refunds is the number of   *)
(* currency units those refunds hold.                                      *)

Units(refunds, S) ==
  {u \in RefundId \X (1..Amount) :
      refunds[u[1]].status \in S /\ u[2] <= refunds[u[1]].amount}

Total(refunds, S) == Cardinality(Units(refunds, S))

RefundedAmount(p)   == Total(p.refunds, {"SUCCEEDED"})
\* Variant: pending refunds reserve nothing.
RefundableIgnoringPending(p) == Amount - Total(p.refunds, {"SUCCEEDED"})
RefundableAmount(p) == Amount - Total(p.refunds, ReservedStatus)

RefundsIn(p, S)          == {r \in RefundId : p.refunds[r].status \in S}
\* Variant: a declined refund frees its reference.
RefundByLiveReference(p, ref) ==
  {r \in RefundId : p.refunds[r].status \in ReservedStatus /\ p.refunds[r].ref = ref}
RefundByReference(p, ref) ==
  {r \in RefundId : p.refunds[r].status # "NONE" /\ p.refunds[r].ref = ref}

-----------------------------------------------------------------------------
(* The payment's own life cycle. *)

Move(p, status, event) ==
  [p EXCEPT !.status = status, !.events = Append(@, <<event, {}>>)]

New ==
  [status |-> "INITIATED", tx |-> FALSE, version |-> 0,
   refunds |-> NoRefunds, events |-> << <<"PaymentInitiated", {}>> >>]

CanMarkPending(p) == p.status = "INITIATED"
MarkPending(p)    == Move([p EXCEPT !.tx = TRUE], "PENDING", "PaymentPending")

CanMarkCompleted(p) == p.status \in {"PENDING", "PROCESSING"}
MarkCompleted(p)    == Move(p, "COMPLETED", "PaymentCompleted")

CanMarkFailed(p) == p.status \notin TerminalStatus
\* Variant: the status changes and no event says so.
MarkFailedSilently(p) == [p EXCEPT !.status = "FAILED"]
MarkFailed(p)    == Move(p, "FAILED", "PaymentFailed")

CanMarkExpired(p) == p.status \in {"PENDING", "INITIATED"}
MarkExpired(p)    == Move(p, "EXPIRED", "PaymentExpired")

CanCancel(p) == p.status \in {"PENDING", "PROCESSING"}
\* Variant: a status nobody declared.
CancelMisspelt(p) == Move(p, "CANCELED", "PaymentCancelled")
Cancel(p)    == Move(p, "CANCELLED", "PaymentCancelled")

-----------------------------------------------------------------------------
(* Refunds. *)

CanRequestRefund(p, ref, amount) ==
  /\ p.status \in {"COMPLETED", "PARTIALLY_REFUNDED"}
  /\ RefundByReference(p, ref) = {}
  /\ amount > 0
  /\ amount <= RefundableAmount(p)

RequestRefund(p, r, ref, amount) ==
  [p EXCEPT !.refunds[r] = [status |-> "PENDING", amount |-> amount, ref |-> ref],
            !.events     = Append(@, <<"RefundRequested", {r}>>)]

\* The refunds of S confirmed one after another: all of them are PENDING.  The
\* payment's status is the one the last confirmation leaves.
CompleteRefunds(p, S) ==
  LET q == [p EXCEPT !.refunds = [r \in RefundId |->
                IF r \in S THEN [@[r] EXCEPT !.status = "SUCCEEDED"] ELSE @[r]]]
  IN  IF S = {} THEN p
      ELSE [q EXCEPT !.status = IF RefundedAmount(q) >= Amount
                                  THEN "REFUNDED" ELSE "PARTIALLY_REFUNDED",
                     !.events = Append(@, <<"RefundCompleted", S>>)]

\* Confirming a refund again changes nothing; a declined one cannot be confirmed.
CanCompleteRefund(p, r) == p.refunds[r].status \in {"PENDING", "SUCCEEDED"}
CompleteRefund(p, r)    == CompleteRefunds(p, {r} \cap RefundsIn(p, {"PENDING"}))

CanFailRefund(p, r) == p.refunds[r].status = "PENDING"
FailRefund(p, r) ==
  [p EXCEPT !.refunds[r].status = "FAILED",
            !.events = Append(@, <<"RefundFailed", {r}>>)]

-----------------------------------------------------------------------------
(* What every method keeps. *)

NoneRequested(rs) == \A r \in RefundId : rs[r].status = "NONE"

\* No more is reserved than was paid, and unpaid payments have no refunds.
Sound(p) ==
  /\ Total(p.refunds, ReservedStatus) <= Amount
  /\ p.status \notin PaidStatus => NoneRequested(p.refunds)
=============================================================================
