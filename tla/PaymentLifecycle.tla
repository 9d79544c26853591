--------------------------- MODULE PaymentLifecycle ---------------------------
(***************************************************************************)
(* What the aggregate promises to whoever reads the database: the payment  *)
(* is opened once, its status follows the diagram of the domain model, and *)
(* refunds are requested within what is left and settled once.  One value, *)
(* one step at a time, no copies, no versions, no gateway: the concurrent  *)
(* handlers of PayGate are shown to implement it, each committed Save being*)
(* one step of this specification.                                         *)
(***************************************************************************)
EXTENDS Payment

VARIABLES
  status,   \* the payment's status, "ABSENT" before it is stored
  refunds   \* its refunds, by ID

lifecycleVars == <<status, refunds>>

LifecycleInit == status = "ABSENT" /\ refunds = NoRefunds

\* A payment is first stored with its charge's outcome applied, if known.
Open ==
  /\ status = "ABSENT"
  /\ status' \in {"INITIATED", "PENDING", "COMPLETED", "FAILED"}
  /\ UNCHANGED refunds

\* An INITIATED payment cannot be cancelled: nobody knows its charge.
NextStatus(s) ==
  CASE s = "INITIATED" -> {"PENDING", "COMPLETED", "FAILED", "EXPIRED"}
    [] s = "PENDING"   -> {"COMPLETED", "FAILED", "EXPIRED", "CANCELLED"}
    [] OTHER           -> {}

Advance == status' \in NextStatus(status) /\ UNCHANGED refunds

Request ==
  /\ status \in {"COMPLETED", "PARTIALLY_REFUNDED"}
  /\ \E r \in RefundId, ref \in Reference, amount \in 1..(Amount - Total(refunds, ReservedStatus)) :
       /\ refunds[r] = NoRefund
       /\ \A s \in RefundId : refunds[s].ref # ref
       /\ refunds' = [refunds EXCEPT ![r] = [status |-> "PENDING", amount |-> amount, ref |-> ref]]
  /\ UNCHANGED status

\* Some PENDING refunds succeed and some are declined.
Settle ==
  LET pending == {r \in RefundId : refunds[r].status = "PENDING"} IN
  \E succeeded, declined \in SUBSET pending :
    /\ succeeded \cap declined = {}
    /\ succeeded \cup declined # {}
    /\ refunds' = [r \in RefundId |->
         CASE r \in succeeded -> [refunds[r] EXCEPT !.status = "SUCCEEDED"]
           [] r \in declined  -> [refunds[r] EXCEPT !.status = "FAILED"]
           [] OTHER           -> refunds[r]]
    /\ status' = IF succeeded = {} THEN status
                 ELSE IF Total(refunds', {"SUCCEEDED"}) < Amount THEN "PARTIALLY_REFUNDED"
                 ELSE "REFUNDED"

LifecycleNext == Open \/ Advance \/ Request \/ Settle

LifecycleSpec == LifecycleInit /\ [][LifecycleNext]_lifecycleVars
=============================================================================
