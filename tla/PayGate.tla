------------------------------- MODULE PayGate -------------------------------
(***************************************************************************)
(* The life of one payment: its row and refunds in PostgreSQL, the gateway *)
(* transaction it stands for, and the request handlers and background jobs *)
(* that load the payment, call the gateway and save it, all concurrently.  *)
(*                                                                         *)
(* A Worker is a goroutine running one operation at a time on its own      *)
(* loaded copy of the aggregate:                                           *)
(*                                                                         *)
(*   create    CreatePaymentHandler      cancel   CancelPaymentHandler     *)
(*   expire    ForceExpireHandler        expiry   ExpiryJob                *)
(*   callback  ProcessCallbackHandler    refund   RefundPaymentHandler     *)
(*   outcome   ... its saveOutcome, reloading after a CONFLICT             *)
(*   charge    Reconciler.reconcileCharge                                  *)
(*   refunds   Reconciler.reconcileRefunds                                 *)
(*                                                                         *)
(* A definition marked "Variant" is a plausible mistake in the one after   *)
(* it, kept to confirm that the properties notice it; nothing uses it.     *)
(*                                                                         *)
(* A step is what happens between two points where others can interfere:   *)
(* a database read, a gateway call, a Save.  Save is atomic here (it is one*)
(* transaction) and succeeds only if the row still has the version the     *)
(* copy was loaded with.  Wherever an operation ends without saving (a     *)
(* guard that fails, an error reply, a CONFLICT, a failed query, the death *)
(* of the process) the step is Abandon: the copy is lost, the store stays. *)
(***************************************************************************)
EXTENDS Payment

CONSTANTS
  Worker,             \* goroutines that can run at the same time
  Ops,                \* operations the environment asks for in this instance
  RefundGrace,        \* ages, in ticks, from which the reconciler ...
  RefundRetryAfter,   \*   ... looks a PENDING refund up, re-sends it,
  RefundGiveUpAfter,  \*   ... and stops re-sending it
  PartialRefund,      \* the gateway's capability for this payment method
  HasExpiry,          \* the payment was created with expired_at
  Misreported,        \* refunds the gateway reports with another amount
  DashboardRefund,    \* someone may refund the payment in the gateway's dashboard
  ReconcilerOverlap   \* two reconciliation passes may run at once

OpNames == {"create", "cancel", "expire", "expiry", "callback", "refund", "charge", "refunds"}

ASSUME OpsAssumption == Ops \subseteq OpNames
ASSUME AgesAssumption ==
  /\ RefundGrace \in Nat /\ RefundGiveUpAfter \in Nat
  /\ RefundRetryAfter \in Nat \ {0}
ASSUME FlagsAssumption ==
  /\ PartialRefund \in BOOLEAN /\ HasExpiry \in BOOLEAN
  /\ DashboardRefund \in BOOLEAN /\ ReconcilerOverlap \in BOOLEAN
ASSUME MisreportedAssumption == Misreported \subseteq RefundId

VARIABLES
  row,      \* payments: status, transaction ID known, version (0: no row)
  refunds,  \* refunds, by ID
  events,   \* payment_events, in sequence order
  age,      \* ticks since each refund's created_at
  gw,       \* the gateway's transaction
  notifs,   \* notifications the gateway has sent; never removed, so that each
            \* can be delivered late, twice, out of order or not at all
  workers   \* what each goroutine is doing

stored == <<row, refunds, events>>
outside == <<gw, notifs>>
vars   == <<row, refunds, events, age, gw, notifs, workers>>

-----------------------------------------------------------------------------
(* The gateway (external): a transaction and the refund keys paid out.     *)

GatewayTx == [status: {"none", "pending", "settlement", "deny", "expire", "cancel"},
              refunds: SUBSET RefundId, dashboard: BOOLEAN,
              named: BOOLEAN]  \* the charge reply carried its transaction_id

\* Currency units the gateway has paid back under PayGate's refund keys.
PaidOut(g) ==
  {u \in RefundId \X (1..Amount) : u[1] \in g.refunds /\ u[2] <= refunds[u[1]].amount}
FullyRefunded(g) == g.dashboard \/ Cardinality(PaidOut(g)) >= Amount

\* The gateway's own word for where the transaction stands.
GatewayStatus(g) == IF g.dashboard \/ g.refunds # {} THEN "refund" ELSE g.status

\* Variant: a status PayGate does not know counts as a failure.
mapUnknownToFailed(word) ==
  CASE word \in {"settlement", "capture"}                -> "SETTLED"
    [] word \in {"pending", "authorize", "challenge"}    -> "PENDING"
    [] OTHER                                             -> "FAILED"
\* A capture that fraud review has not accepted is the word "challenge" here.
mapTransactionStatus(word) ==
  CASE word \in {"settlement", "capture"}                -> "SETTLED"
    [] word \in {"pending", "authorize", "challenge"}    -> "PENDING"
    [] word \in {"deny", "cancel", "expire", "failure"}  -> "FAILED"
    [] OTHER                                             -> "UNKNOWN"

\* What a status reply or a notification says.
Report == [found: BOOLEAN, status: {"SETTLED", "PENDING", "FAILED", "UNKNOWN"},
           refunds: SUBSET RefundId]
ReportOf(g) == [found   |-> g.status # "none",
                status  |-> mapTransactionStatus(GatewayStatus(g)),
                refunds |-> g.refunds]

\* Every change at the gateway sends a notification of the new state.
GatewayBecomes(g) ==
  /\ gw' = g
  /\ notifs' = notifs \cup {ReportOf(g)}

\* POST refund: 200 (it pays), a 4xx that says no money moved, or 406 for a key
\* it has seen.  A transaction with nothing left is refused before the key is
\* looked at (412).
CanAcceptRefund(r)  == gw.status = "settlement" /\ ~FullyRefunded(gw) /\ r \notin gw.refunds
AcceptRefund(r)     == GatewayBecomes([gw EXCEPT !.refunds = @ \cup {r}])
CanDeclineRefund(r) == r \notin gw.refunds \/ FullyRefunded(gw)

-----------------------------------------------------------------------------
(* Loading and saving. *)

Idle == [op |-> "none", pc |-> "idle", p |-> New, r |-> {}, todo |-> {}, accepted |-> FALSE]

IsIdle(w)     == workers[w].pc = "idle"
At(w, op, pc) == workers[w].op = op /\ workers[w].pc = pc
Finish(w)     == workers' = [workers EXCEPT ![w] = Idle]

\* toDomain: the copy made from the row alone, refunds not loaded yet.
RowCopy == [status |-> row.status, tx |-> row.tx, version |-> row.version,
            refunds |-> NoRefunds, events |-> <<>>]

\* Variant: the last writer wins.
AnyVersion(p) == TRUE
UpToDate(p) == p.version = row.version

\* UpsertRefund for each refund of the copy; rows the copy lacks are untouched.
Upserted(p) == [r \in RefundId |-> IF p.refunds[r].status = "NONE" THEN refunds[r] ELSE p.refunds[r]]

\* A Save that commits: the insert of a new payment or the update of the row
\* that still has the loaded version, then the refunds and the events.
Save(p) ==
  /\ UpToDate(p)
  /\ row'     = [status |-> p.status, tx |-> p.tx, version |-> row.version + 1]
  /\ refunds' = Upserted(p)
  /\ events'  = events \o p.events

\* Variant: the saved events stay in the copy.
SavedKeepingEvents(p) == [p EXCEPT !.version = @ + 1]
Saved(p) == [p EXCEPT !.version = @ + 1, !.events = <<>>]

\* A Save that commits and is the operation's last step.
SaveAndFinish(w, p) == Save(p) /\ Finish(w) /\ UNCHANGED <<age, outside>>

\* FindByID is two queries: the row, then its refunds.
ReadRow(w, op) ==
  workers' = [workers EXCEPT ![w] = [Idle EXCEPT !.op = op, !.pc = "row", !.p = RowCopy]]

\* Variant: the version is taken with the second query.
ReadRefundsAndVersion(w) ==
  /\ workers[w].pc = "row"
  /\ workers' = [workers EXCEPT ![w].pc = "loaded", ![w].p.refunds = refunds,
                               ![w].p.version = row.version]
  /\ UNCHANGED <<stored, age, outside>>

ReadRefunds(w) ==
  /\ workers[w].pc = "row"
  /\ workers' = [workers EXCEPT ![w].pc = "loaded", ![w].p.refunds = refunds]
  /\ UNCHANGED <<stored, age, outside>>

BeginRequest(w) ==
  /\ IsIdle(w) /\ row.version > 0
  /\ \E op \in Ops \cap {"cancel", "expire", "callback", "refund"} : ReadRow(w, op)
  /\ UNCHANGED <<stored, age, outside>>

\* The jobs' finders for unpaid payments do not load refunds.
FindUnpaid(w, op, status) ==
  /\ IsIdle(w) /\ op \in Ops
  /\ row.version > 0 /\ row.status = status
  /\ workers' = [workers EXCEPT ![w] = [Idle EXCEPT !.op = op, !.pc = "loaded", !.p = RowCopy]]
  /\ UNCHANGED <<stored, age, outside>>

Abandon(w) ==
  /\ ~IsIdle(w)
  /\ Finish(w)
  /\ UNCHANGED <<stored, age, outside>>

-----------------------------------------------------------------------------
(* Creating the payment: charge at the gateway first, store afterwards.    *)

AfterCharge(word) ==
  LET p == MarkPending(New) IN
  CASE mapTransactionStatus(word) = "SETTLED" -> MarkCompleted(p)
    [] mapTransactionStatus(word) = "FAILED"  -> MarkFailed(p)
    [] OTHER                                  -> p

\* The charge call: answered; taken but its reply lost; never received; or
\* refused with an error that rules out a charge.  A success that names no
\* transaction counts as such an error.  A request the gateway finds invalid
\* stores nothing and is not a step.
CreateCharge(w) ==
  LET created(p) == workers' = [workers EXCEPT ![w] =
                       [Idle EXCEPT !.op = "create", !.pc = "save", !.p = p]]
  IN
  /\ IsIdle(w) /\ "create" \in Ops
  /\ row.version = 0 /\ gw.status = "none"
  /\ \A v \in Worker : workers[v].op # "create"
  /\ \/ \E word \in {"pending", "settlement", "deny"} :
          \/ /\ GatewayBecomes([gw EXCEPT !.status = word])
             /\ created(AfterCharge(word)) \/ created(New)
          \/ /\ GatewayBecomes([gw EXCEPT !.status = word, !.named = FALSE])
             /\ created(MarkFailed(New))
     \/ /\ created(New) \/ created(MarkFailed(New))
        /\ UNCHANGED outside
  /\ UNCHANGED <<stored, age>>

CreateSave(w) ==
  /\ At(w, "create", "save")
  /\ SaveAndFinish(w, workers[w].p)

-----------------------------------------------------------------------------
(* Closing an unpaid payment. *)

\* The gateway cancels a transaction that is still pending; the handler goes on
\* whatever the gateway answers.
CancelCall(w) ==
  /\ At(w, "cancel", "loaded")
  /\ CanCancel(workers[w].p)
  /\ workers' = [workers EXCEPT ![w].pc = "save", ![w].p = Cancel(@)]
  /\ \/ /\ workers[w].p.tx /\ gw.status = "pending"
        /\ GatewayBecomes([gw EXCEPT !.status = "cancel"])
     \/ UNCHANGED outside
  /\ UNCHANGED <<stored, age>>

CancelSave(w) ==
  /\ At(w, "cancel", "save")
  /\ SaveAndFinish(w, workers[w].p)

BeginExpiry(w) == HasExpiry /\ FindUnpaid(w, "expiry", "PENDING")

\* Admin force-expire, and the expiry job's expireOne.
Expire(w) ==
  /\ At(w, "expire", "loaded") \/ At(w, "expiry", "loaded")
  /\ CanMarkExpired(workers[w].p)
  /\ SaveAndFinish(w, MarkExpired(workers[w].p))

-----------------------------------------------------------------------------
(* Notifications from the gateway. *)

\* The PENDING refunds a report settles.
\* Variant: refund confirmations are not applied.
ConfirmedNone(p, report) == {}
Confirmed(p, report) == (report.refunds \cap RefundsIn(p, {"PENDING"})) \ Misreported

\* The payment after a notification.  A final status for an INITIATED payment
\* first records the transaction the lost charge created.
AfterNotification(p, n) ==
  LET a == CompleteRefunds(p, Confirmed(p, n))
      b == IF CanMarkPending(a) /\ n.status \in {"SETTLED", "FAILED"} THEN MarkPending(a) ELSE a
  IN  CASE CanMarkCompleted(b) /\ n.status = "SETTLED" -> MarkCompleted(b)
        [] CanMarkFailed(b)    /\ n.status = "FAILED"  -> MarkFailed(b)
        [] OTHER                                       -> b

\* Which notification the request carries is settled here, not when it began:
\* nothing before this step depends on it.
Callback(w) ==
  /\ At(w, "callback", "loaded")
  /\ \E n \in notifs :
        LET p == AfterNotification(workers[w].p, n) IN
        /\ p # workers[w].p
        /\ SaveAndFinish(w, p)

-----------------------------------------------------------------------------
(* Refunding. *)

\* RequestRefund, saved as PENDING before the gateway hears of it.
RefundReserve(w) ==
  LET p == workers[w].p IN
  /\ At(w, "refund", "loaded")
  /\ \E r \in RefundId, ref \in Reference, asked \in 0..Amount :
        LET amount == IF asked = 0 THEN RefundableAmount(p) ELSE asked
            q      == RequestRefund(p, r, ref, amount)
        IN
        /\ refunds[r].status = "NONE" /\ p.refunds[r].status = "NONE"  \* a fresh ID
        /\ PartialRefund \/ (amount = Amount /\ RefundableAmount(p) = Amount)
        /\ CanRequestRefund(p, ref, amount)
        /\ Save(q)
        /\ workers' = [workers EXCEPT ![w].pc = "call", ![w].p = Saved(q), ![w].r = {r}]
  /\ UNCHANGED <<age, outside>>

\* The refund call.  Without a usable reply the refund is left PENDING.
RefundCall(w) ==
  /\ At(w, "refund", "call")
  /\ \E r \in workers[w].r :
       \/ /\ CanAcceptRefund(r) /\ AcceptRefund(r)
          /\ \/ workers' = [workers EXCEPT ![w].pc = "decided", ![w].accepted = TRUE]
             \/ Finish(w)
       \/ /\ CanDeclineRefund(r)
          /\ workers' = [workers EXCEPT ![w].pc = "decided", ![w].accepted = FALSE]
          /\ UNCHANGED outside
  /\ UNCHANGED <<stored, age>>

CanApplyOutcome(p, r, accepted) == IF accepted THEN CanCompleteRefund(p, r) ELSE CanFailRefund(p, r)
ApplyOutcome(p, r, accepted)    == IF accepted THEN CompleteRefund(p, r) ELSE FailRefund(p, r)

\* saveOutcome, first try: on CONFLICT it goes back for a fresh copy.
RefundOutcome(w) ==
  /\ At(w, "refund", "decided")
  /\ \E r \in workers[w].r :
        LET p == workers[w].p IN
        /\ CanApplyOutcome(p, r, workers[w].accepted)
        /\ \/ SaveAndFinish(w, ApplyOutcome(p, r, workers[w].accepted))
           \/ /\ ~UpToDate(p)
              /\ workers' = [workers EXCEPT ![w].pc = "reload"]
              /\ UNCHANGED <<stored, age, outside>>

OutcomeReload(w) ==
  /\ At(w, "refund", "reload")
  /\ workers' = [workers EXCEPT ![w].op = "outcome", ![w].pc = "row", ![w].p = RowCopy]
  /\ UNCHANGED <<stored, age, outside>>

\* ... and tries once more.
OutcomeRetry(w) ==
  /\ At(w, "outcome", "loaded")
  /\ \E r \in workers[w].r :
        LET p == workers[w].p IN
        /\ CanApplyOutcome(p, r, workers[w].accepted)
        /\ SaveAndFinish(w, ApplyOutcome(p, r, workers[w].accepted))

-----------------------------------------------------------------------------
(* The reconciler. *)

Reconciling(w) == workers[w].op \in {"charge", "refunds"}
PassAllowed    == ReconcilerOverlap \/ \A w \in Worker : ~Reconciling(w)

\* Variant: the finder asks for the wrong status.
BeginReconcilePending(w) == PassAllowed /\ FindUnpaid(w, "charge", "PENDING")
BeginReconcileCharge(w) == PassAllowed /\ FindUnpaid(w, "charge", "INITIATED")

\* reconcileCharge: what the gateway's answer makes of the payment.
ChargeLookup(w) ==
  LET p == workers[w].p
      report == ReportOf(gw)
      next(pc, q) == workers' = [workers EXCEPT ![w].pc = pc, ![w].p = q]
  IN
  /\ At(w, "charge", "loaded")
  /\ \/ ~report.found /\ CanMarkFailed(p) /\ next("save", MarkFailed(p))
     \/ /\ report.found /\ CanMarkPending(p)
        /\ \/ report.status = "SETTLED" /\ next("save", MarkCompleted(MarkPending(p)))
           \/ report.status = "FAILED"  /\ next("save", MarkFailed(MarkPending(p)))
           \/ report.status = "PENDING" /\ next("cancel", p)
  /\ UNCHANGED <<stored, age, outside>>

\* A charge nobody can pay is cancelled at the gateway before it is failed here;
\* without a confirmed cancel the pass leaves it alone.
ChargeCancel(w) ==
  /\ At(w, "charge", "cancel")
  /\ CanMarkPending(workers[w].p)
  /\ gw.status = "pending"
  /\ GatewayBecomes([gw EXCEPT !.status = "cancel"])
  /\ \/ workers' = [workers EXCEPT ![w].pc = "save", ![w].p = MarkFailed(MarkPending(@))]
     \/ Finish(w)
  /\ UNCHANGED <<stored, age>>

ChargeSave(w) ==
  /\ At(w, "charge", "save")
  /\ SaveAndFinish(w, workers[w].p)

\* Variant: refunds past the retry window are not even looked up.
BeginReconcileYoungRefunds(w) ==
  /\ IsIdle(w) /\ "refunds" \in Ops /\ PassAllowed
  /\ \E r \in RefundId : refunds[r].status = "PENDING" /\ age[r] \in RefundGrace..(RefundGiveUpAfter - 1)
  /\ ReadRow(w, "refunds")
  /\ UNCHANGED <<stored, age, outside>>

BeginReconcileRefunds(w) ==
  /\ IsIdle(w) /\ "refunds" \in Ops /\ PassAllowed
  /\ \E r \in RefundId : refunds[r].status = "PENDING" /\ age[r] >= RefundGrace
  /\ ReadRow(w, "refunds")
  /\ UNCHANGED <<stored, age, outside>>

\* The gateway's refund list is applied, then the refunds still PENDING and in
\* their retry window are put down for re-sending.
RefundsLookup(w) ==
  LET p == CompleteRefunds(workers[w].p, Confirmed(workers[w].p, ReportOf(gw))) IN
  /\ At(w, "refunds", "loaded")
  /\ workers' = [workers EXCEPT
        ![w].pc = "resend", ![w].p = p,
        ![w].todo = {r \in RefundsIn(p, {"PENDING"}) : age[r] \in RefundRetryAfter..(RefundGiveUpAfter - 1)}]
  /\ UNCHANGED <<stored, age, outside>>

\* The copy becomes q and refund r is off the list.
Resent(w, r, q) == workers' = [workers EXCEPT ![w].p = q, ![w].todo = @ \ {r}]

RefundsResend(w) ==
  LET p == workers[w].p IN
  /\ At(w, "refunds", "resend")
  /\ \E r \in workers[w].todo :
       \/ /\ CanAcceptRefund(r) /\ AcceptRefund(r)
          /\ (CanCompleteRefund(p, r) /\ Resent(w, r, CompleteRefund(p, r))) \/ Resent(w, r, p)
       \/ /\ CanDeclineRefund(r)
          /\ CanFailRefund(p, r) /\ Resent(w, r, FailRefund(p, r))
          /\ UNCHANGED outside
       \/ Resent(w, r, p) /\ UNCHANGED outside
  /\ UNCHANGED <<stored, age>>

RefundsSave(w) ==
  /\ At(w, "refunds", "resend")
  /\ workers[w].todo = {} /\ workers[w].p.events # <<>>
  /\ SaveAndFinish(w, workers[w].p)

-----------------------------------------------------------------------------
(* The outside world. *)

\* The customer pays, or the transaction fails or lapses at the gateway.
GatewaySettles ==
  /\ gw.status = "pending"
  /\ \E word \in {"settlement", "expire"} : GatewayBecomes([gw EXCEPT !.status = word])
  /\ UNCHANGED <<stored, age, workers>>

\* A full refund made by hand, which PayGate did not request.
RefundInDashboard ==
  /\ DashboardRefund
  /\ gw.status = "settlement" /\ ~FullyRefunded(gw)
  /\ GatewayBecomes([gw EXCEPT !.dashboard = TRUE])
  /\ UNCHANGED <<stored, age, workers>>

\* Bound on age: past it no comparison of the reconciler changes any more.
OldestAge == IF RefundGrace > RefundGiveUpAfter THEN RefundGrace ELSE RefundGiveUpAfter

\* A PENDING refund grows older.  The request that opened it, bounded by the
\* HTTP timeouts, is over well before RefundRetryAfter (30 minutes by default).
GrowOlder(r) ==
  /\ refunds[r].status = "PENDING" /\ age[r] < OldestAge
  /\ age[r] + 1 = RefundRetryAfter => \A w \in Worker : r \notin workers[w].r
  /\ age' = [age EXCEPT ![r] = @ + 1]
  /\ UNCHANGED <<stored, outside, workers>>

-----------------------------------------------------------------------------
Init ==
  /\ row = [status |-> "INITIATED", tx |-> FALSE, version |-> 0]
  /\ refunds = NoRefunds
  /\ events = <<>>
  /\ age = [r \in RefundId |-> 0]
  /\ gw = [status |-> "none", refunds |-> {}, dashboard |-> FALSE, named |-> TRUE]
  /\ notifs = {}
  /\ workers = [w \in Worker |-> Idle]

Step(w) ==
  \/ BeginRequest(w) \/ ReadRefunds(w) \/ Abandon(w)
  \/ CreateCharge(w) \/ CreateSave(w)
  \/ CancelCall(w) \/ CancelSave(w)
  \/ BeginExpiry(w) \/ Expire(w)
  \/ Callback(w)
  \/ RefundReserve(w) \/ RefundCall(w) \/ RefundOutcome(w) \/ OutcomeReload(w) \/ OutcomeRetry(w)
  \/ BeginReconcileCharge(w) \/ ChargeLookup(w) \/ ChargeCancel(w) \/ ChargeSave(w)
  \/ BeginReconcileRefunds(w) \/ RefundsLookup(w) \/ RefundsResend(w) \/ RefundsSave(w)

Next ==
  \/ \E w \in Worker : Step(w)
  \/ GatewaySettles \/ RefundInDashboard
  \/ \E r \in RefundId : GrowOlder(r)

Spec == Init /\ [][Next]_vars

-----------------------------------------------------------------------------
(* Properties. *)

WorkerState ==
  [op: OpNames \cup {"none", "outcome"},
   pc: {"idle", "row", "loaded", "save", "call", "decided", "reload", "cancel", "resend"},
   p: PaymentRecord, r: SUBSET RefundId, todo: SUBSET RefundId, accepted: BOOLEAN]

\* Every variable has its type.
TypeOK ==
  /\ row \in [status: Status, tx: BOOLEAN, version: Nat]
  /\ refunds \in [RefundId -> Refund]
  /\ events \in Seq(Event)
  /\ age \in [RefundId -> 0..OldestAge]
  /\ gw \in GatewayTx
  /\ notifs \subseteq Report
  /\ workers \in [Worker -> WorkerState]

\* Refunds that succeeded or may still succeed never add up to more than was
\* paid, however many handlers reserve and settle refunds at once.
NoOverRefund == Total(refunds, ReservedStatus) <= Amount

(* Why no Save can break NoOverRefund: the invariant behind the version     *)
(* check, proved inductive in PayGateProofs.                               *)

\* The copy knows every stored refund.
Covers(p) == \A r \in RefundId : refunds[r].status # "NONE" => p.refunds[r].status # "NONE"

\* A copy is never newer than the row.  One that is as new, so that its Save
\* would commit, is sound and leaves no stored refund out; a copy whose second
\* query is still to come has the row's own status.
CopySound(w) ==
  LET p == workers[w].p IN
  ~IsIdle(w) =>
    /\ p.version <= row.version
    /\ UpToDate(p) =>
         IF workers[w].pc = "row" THEN p.status = row.status
         ELSE Sound(p) /\ Covers(p)

\* At every moment the store is sound, and so is every copy whose Save would
\* commit: a stale or torn copy may be wrong, but then its version gives it away.
CopiesSound ==
  /\ row.version = 0 => row.status = "INITIATED"
  /\ NoOverRefund
  /\ row.status \notin PaidStatus => NoneRequested(refunds)
  /\ \A w \in Worker : CopySound(w)

\* Every committed Save is one legal step of the aggregate on what was stored
\* just before: the version check makes concurrent handlers serial, torn and
\* partial loads included.
Lifecycle == INSTANCE PaymentLifecycle WITH
  status <- IF row.version = 0 THEN "ABSENT" ELSE row.status

ImplementsLifecycle == Lifecycle!LifecycleSpec

\* The stored status tells what the stored refunds add up to, and a payment
\* that was not paid has no refunds.  Copies are loaded in two queries and
\* some finders load no refunds at all: none of them may be saved back.
StatusMatchesRefunds ==
  LET refunded == Total(refunds, {"SUCCEEDED"}) IN
  /\ row.status = "REFUNDED" <=> refunded = Amount
  /\ row.status = "PARTIALLY_REFUNDED" <=> refunded \in 1..(Amount - 1)
  /\ row.status \notin PaidStatus => refunds = NoRefunds

\* No two refunds of a payment carry the same caller reference: a request
\* repeated concurrently never opens a second refund.
RefundReferenceUnique ==
  \A r, s \in RefundId :
    r # s /\ refunds[r].status # "NONE" /\ refunds[s].status # "NONE" => refunds[r].ref # refunds[s].ref

\* A payment stored as paid was collected by the gateway, and one stored as
\* FAILED was not: a lost charge reply, a late notification or the reconciler
\* cancelling an orphaned charge never turns one into the other.  Only a charge
\* reply that names no transaction leaves one open under a FAILED payment.
StatusAgreesWithGateway ==
  /\ row.status \in PaidStatus => gw.status = "settlement"
  /\ row.version > 0 /\ row.status = "FAILED" /\ gw.named => gw.status \notin {"pending", "settlement"}

\* A refund stored as SUCCEEDED was paid out, and one stored as FAILED, whose
\* amount can be refunded again, was not.
RefundAgreesWithGateway ==
  \A r \in RefundId :
    /\ refunds[r].status = "SUCCEEDED" => r \in gw.refunds
    /\ refunds[r].status = "FAILED" => r \notin gw.refunds

\* A refund the gateway reports with another amount is left to a person: what
\* the reconciler does next never declares it declined.
MismatchNeverDeclined ==
  \A r \in Misreported : r \in gw.refunds => refunds[r].status # "FAILED"

\* The gateway is never asked to pay back more than was paid: PayGate's own
\* reservations see to it (the model's gateway does not check amounts).
PaidOutWithinAmount == Cardinality(PaidOut(gw)) <= Amount
=============================================================================
