----------------------------- MODULE SerialStore -----------------------------
(***************************************************************************)
(* What PaymentRepo.Save promises its callers: the Saves of one payment    *)
(* happen one after another, each based on all of the one before it, each  *)
(* all or nothing.                                                         *)
(***************************************************************************)
EXTENDS Naturals, Sequences

CONSTANTS
  RefundId,   \* the payment's refunds
  MaxEvents   \* events one Save may write

VARIABLES
  version,    \* Saves so far
  refunds,    \* which Save last changed each refund; 0 while there is none
  log,        \* the numbered events: which Save wrote each
  outbox      \* what is to be announced: which Save, and its how manieth event

storeVars == <<version, refunds, log, outbox>>

Init ==
  /\ version = 0
  /\ refunds = [r \in RefundId |-> 0]
  /\ log = <<>>
  /\ outbox = {}

Save ==
  \E changed \in SUBSET RefundId, n \in 1..MaxEvents :
    /\ version' = version + 1
    /\ refunds' = [r \in RefundId |-> IF r \in changed THEN version + 1 ELSE refunds[r]]
    /\ log' = [i \in 1..(Len(log) + n) |-> IF i <= Len(log) THEN log[i] ELSE version + 1]
    /\ outbox' = outbox \cup {[version |-> version + 1, nth |-> i] : i \in 1..n}

Spec == Init /\ [][Save]_storeVars
=============================================================================
