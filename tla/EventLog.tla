------------------------------- MODULE EventLog -------------------------------
(***************************************************************************)
(* What the event log of a payment is good for: a reader of payment_events *)
(* who applies them in sequence order arrives at what is stored.           *)
(***************************************************************************)
EXTENDS PayGate, SequencesExt

\* What such a reader knows: the status, "ABSENT" before the first event, and
\* those of the refunds.
Seen(status, rs) == [status |-> status, refunds |-> [r \in RefundId |-> rs[r].status]]
Absent           == Seen("ABSENT", NoRefunds)

Corrupt(view) == [view EXCEPT !.status = "CORRUPT"]

Turn(view, old, new) == IF view.status \in old THEN [view EXCEPT !.status = new] ELSE Corrupt(view)

Mark(view, rs, old, new) ==
  IF \A r \in rs : view.refunds[r] = old
  THEN [view EXCEPT !.refunds = [r \in RefundId |-> IF r \in rs THEN new ELSE @[r]]]
  ELSE Corrupt(view)

\* What the refunds seen as SUCCEEDED add up to, by the amounts on record.
PaidBack(view, rs) ==
  Cardinality({u \in RefundId \X (1..Amount) :
                 view.refunds[u[1]] = "SUCCEEDED" /\ u[2] <= rs[u[1]].amount})

Complete(view, rs) ==
  IF view.status = "CORRUPT" THEN view
  ELSE [view EXCEPT !.status = IF PaidBack(view, rs) < Amount THEN "PARTIALLY_REFUNDED" ELSE "REFUNDED"]

\* The view after one more event, "CORRUPT" if it cannot follow the ones before it.
Applied(rs, view, event) ==
  CASE event[1] = "PaymentInitiated" -> Turn(view, {"ABSENT"}, "INITIATED")
    [] event[1] = "PaymentPending"   -> Turn(view, {"INITIATED"}, "PENDING")
    [] event[1] = "PaymentCompleted" -> Turn(view, {"PENDING"}, "COMPLETED")
    [] event[1] = "PaymentFailed"    -> Turn(view, {"INITIATED", "PENDING"}, "FAILED")
    [] event[1] = "PaymentCancelled" -> Turn(view, {"PENDING"}, "CANCELLED")
    [] event[1] = "PaymentExpired"   -> Turn(view, {"INITIATED", "PENDING"}, "EXPIRED")
    [] event[1] = "RefundRequested"  ->
         IF view.status \in {"COMPLETED", "PARTIALLY_REFUNDED"}
         THEN Mark(view, event[2], "NONE", "PENDING") ELSE Corrupt(view)
    [] event[1] = "RefundFailed"     ->
         IF view.status \in PaidStatus THEN Mark(view, event[2], "PENDING", "FAILED") ELSE Corrupt(view)
    [] event[1] = "RefundCompleted"  ->
         IF view.status \in PaidStatus
         THEN Complete(Mark(view, event[2], "PENDING", "SUCCEEDED"), rs) ELSE Corrupt(view)

Apply(view, event) == Applied(refunds, view, event)

\* The stored events, replayed in sequence order, are a legal history that ends
\* in exactly what is stored: each change was logged once, with the Save that
\* made it, and no event of a lost Save is in the log.
EventsReplay ==
  FoldLeft(Apply, Absent, events)
    = Seen(IF row.version = 0 THEN "ABSENT" ELSE row.status, refunds)
=============================================================================
