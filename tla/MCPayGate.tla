------------------------------ MODULE MCPayGate ------------------------------
(***************************************************************************)
(* PayGate's instances for TLC, and the properties that need fairness.     *)
(***************************************************************************)
EXTENDS EventLog, TLC

Symmetry == Permutations(RefundId) \cup Permutations(Worker) \cup Permutations(Reference)

-----------------------------------------------------------------------------
(* Liveness. *)

\* Operations end, if only by a timeout; the reconciler's ticker goes on firing
\* on some replica, and a call or a Save it keeps retrying succeeds in the end.
Fairness ==
  /\ \A w \in Worker : WF_vars(Step(w))
  /\ SF_vars(\E w \in Worker : BeginReconcileCharge(w))
  /\ SF_vars(\E w \in Worker : ChargeLookup(w))
  /\ SF_vars(\E w \in Worker : ChargeCancel(w))
  /\ SF_vars(\E w \in Worker : ChargeSave(w))
  /\ \A r \in RefundId : WF_vars(GrowOlder(r))
  /\ SF_vars(\E w \in Worker : BeginReconcileRefunds(w))
  /\ SF_vars(\E w \in Worker : workers[w].op = "refunds" /\ ReadRefunds(w))
  /\ SF_vars(\E w \in Worker : RefundsLookup(w))
  /\ SF_vars(\E w \in Worker : RefundsSave(w))

FairSpec == Spec /\ Fairness

\* A payment whose charge reply was lost does not stay INITIATED.
LostChargeSettles ==
  (row.version > 0 /\ row.status = "INITIATED") ~> row.status # "INITIATED"

\* A refund the gateway paid is recorded as SUCCEEDED in the end, even when the
\* reply, the notification and any number of passes were lost, and even after
\* retries stopped.
PaidRefundRecorded ==
  \A r \in RefundId :
    (r \in gw.refunds /\ refunds[r].status = "PENDING") ~> refunds[r].status = "SUCCEEDED"
=============================================================================
