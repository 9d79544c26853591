----------------------------- MODULE RecordProofs -----------------------------
(***************************************************************************)
(* What PayGate has on record is true: of the gateway, and of its own past,*)
(* for any number of workers, refunds, amounts and events.                 *)
(*                                                                         *)
(* The gateway: a payment stored as paid was collected, one stored as      *)
(* FAILED was not; and while one reconciliation pass runs at a time and    *)
(* the gateway reports every refund with its own amount, a refund is       *)
(* stored as SUCCEEDED only if it was paid out, as FAILED only if it was   *)
(* not, and no more is paid out than was paid.                             *)
(*                                                                         *)
(* The past: the stored events replay to what is stored.                   *)
(***************************************************************************)
EXTENDS PayGateProofs, EventLog

-----------------------------------------------------------------------------
(* The stored payment and its transaction. *)

\* What a status of a payment claims of its transaction.
Told(s, g) ==
  /\ s \in PaidStatus => g.status = "settlement"
  /\ s = "FAILED" /\ g.named => g.status \notin {"pending", "settlement"}

\* A notification, however old, still says of the transaction what it said.
NotifsTold ==
  \A n \in notifs : /\ n.status = "SETTLED" => gw.status = "settlement"
                    /\ n.status = "FAILED"  => gw.status \in {"deny", "expire", "cancel"}

\* So does the store, and a copy about to be saved although it may be stale.
StatusInv ==
  /\ row.version > 0 => Told(row.status, gw)
  /\ NotifsTold
  /\ \A w \in Worker : workers[w].pc = "save" => Told(workers[w].p.status, gw)

\* A gateway step after the charge: only a pending transaction moves.
Onward ==
  /\ gw.status # "pending" => gw'.status = gw.status
  /\ gw'.named = gw.named
  /\ \A n \in notifs' : n \in notifs \/ n = ReportOf(gw')

-----------------------------------------------------------------------------
(* The stored status. *)

LEMMA ReportTold ==
  ASSUME NEW g \in GatewayTx
  PROVE  /\ ReportOf(g).status = "SETTLED" => g.status = "settlement"
         /\ ReportOf(g).status = "FAILED" => g.status \in {"deny", "expire", "cancel"}
         /\ ReportOf(g).refunds = g.refunds
         /\ ~ReportOf(g).found => g.status = "none"
BY DEF ReportOf, mapTransactionStatus, GatewayStatus, GatewayTx

\* What was told stays true as the gateway moves on.
LEMMA OnwardKeeps ==
  ASSUME FitInv, FitInv', StatusInv, Onward
  PROVE  NotifsTold' /\ \A s : Told(s, gw) => Told(s, gw')
<1>1. gw' \in GatewayTx
  BY DEF FitInv, IInv, TypeOK
<1>2. ASSUME NEW n \in notifs'
      PROVE  /\ n.status = "SETTLED" => gw'.status = "settlement"
             /\ n.status = "FAILED"  => gw'.status \in {"deny", "expire", "cancel"}
  <2>1. CASE n \in notifs
    BY <2>1 DEF Onward, StatusInv, NotifsTold
  <2>2. CASE n = ReportOf(gw')
    BY <1>1, <2>2, ReportTold
  <2> QED
    BY <2>1, <2>2 DEF Onward
<1>3. \A s : Told(s, gw) => Told(s, gw')
  BY DEF Told, Onward
<1> QED
  BY <1>2, <1>3 DEF NotifsTold

\* A step of worker w that leaves the row alone.
LEMMA KeepTold ==
  ASSUME FitInv, FitInv', StatusInv, Onward, NEW w \in Worker, UNCHANGED stored, Alone(w),
         workers'[w].pc = "save" => Told(workers'[w].p.status, gw')
  PROVE  StatusInv'
<1>1. NotifsTold' /\ \A s : Told(s, gw) => Told(s, gw')
  BY OnwardKeeps
<1>2. UNCHANGED row
  BY DEF stored
<1>3. ASSUME NEW v \in Worker, workers'[v].pc = "save" PROVE Told(workers'[v].p.status, gw')
  BY <1>1, <1>3 DEF StatusInv, Alone
<1> QED
  BY <1>1, <1>2, <1>3 DEF StatusInv

\* A step that stays away from the gateway.
LEMMA StillOnward == UNCHANGED outside => Onward
BY DEF Onward, outside

\* A step of worker w that saves q.
LEMMA SaveTold ==
  ASSUME FitInv, FitInv', StatusInv, NEW w \in Worker, NEW q, Save(q), Told(q.status, gw),
         UNCHANGED outside, Alone(w), workers'[w].pc # "save"
  PROVE  StatusInv'
<1>1. NotifsTold' /\ gw' = gw
  BY DEF StatusInv, NotifsTold, outside
<1>2. row'.status = q.status
  BY DEF Save
<1>3. ASSUME NEW v \in Worker, workers'[v].pc = "save" PROVE Told(workers'[v].p.status, gw')
  BY <1>1, <1>3 DEF StatusInv, Alone
<1> QED
  BY <1>1, <1>2, <1>3 DEF StatusInv

LEMMA SaveAndFinishTold ==
  ASSUME FitInv, FitInv', StatusInv, NEW w \in Worker, NEW q, SaveAndFinish(w, q),
         q.version = row.version => Told(q.status, gw)
  PROVE  StatusInv'
<1>1. workers'[w].pc # "save" /\ Alone(w)
  BY IdleType DEF SaveAndFinish, Finish, Alone, FitInv, IInv, TypeOK
<1>2. Save(q) /\ q.version = row.version /\ UNCHANGED outside
  BY DEF SaveAndFinish, Save, UpToDate
<1> QED
  BY <1>1, <1>2, SaveTold

LEMMA FinishTold ==
  ASSUME FitInv, FitInv', StatusInv, Onward, NEW w \in Worker, UNCHANGED stored, Finish(w)
  PROVE  StatusInv'
<1>1. workers'[w].pc # "save" /\ Alone(w)
  BY IdleType DEF Finish, Alone, FitInv, IInv, TypeOK
<1> QED
  BY <1>1, KeepTold

\* Refunds are only settled once the money was there.
LEMMA SettlesTold ==
  ASSUME FitInv, StatusInv, row.version > 0, NEW t, NEW qs, Settles(row.status, refunds, t, qs)
  PROVE  Told(t, gw)
<1>1. PICK yes \in SUBSET Pending(refunds) : t = StatusAfter(row.status, qs, yes)
  BY DEF Settles
<1>2. Told(row.status, gw)
  BY DEF StatusInv
<1>3. CASE yes = {}
  BY <1>1, <1>2, <1>3 DEF StatusAfter
<1>4. CASE yes # {}
  <2>1. refunds # NoRefunds
    BY <1>4 DEF Pending, NoRefunds, NoRefund
  <2>2. row.status \in PaidStatus
    BY <2>1, Unpaid
  <2>3. t \in {"PARTIALLY_REFUNDED", "REFUNDED"}
    BY <1>1, <1>4 DEF StatusAfter
  <2> QED
    BY <1>2, <2>2, <2>3 DEF Told
<1> QED
  BY <1>3, <1>4

\* Statuses that claim nothing.
LEMMA NothingTold ==
  ASSUME NEW s \in {"INITIATED", "PENDING", "EXPIRED", "CANCELLED"}, NEW g
  PROVE  Told(s, g)
BY DEF Told, PaidStatus

LEMMA CreateChargeTold ==
  ASSUME FitInv, FitInv', StatusInv, NEW w \in Worker, CreateCharge(w)
  PROVE  StatusInv'
<1> DEFINE created(p) == workers' = [workers EXCEPT ![w] = [Idle EXCEPT !.op = "create", !.pc = "save", !.p = p]]
<1>1. row.version = 0 /\ UNCHANGED row /\ gw.status = "none" /\ \A v \in Worker : workers[v].op # "create"
  BY DEF CreateCharge, stored
<1>2. ASSUME NEW v \in Worker PROVE workers[v].pc = "idle"
  <2>1. SUFFICES ASSUME workers[v].pc # "idle" PROVE FALSE
    OBVIOUS
  <2>2. workers[v].p.version > 0 /\ workers[v].p.version <= row.version
    BY <1>1, <2>1 DEF FitInv, IInv, CopiesSound, CopySound, Known, IsIdle
  <2>3. workers[v].p.version \in Nat
    BY DEF FitInv, IInv, TypeOK, WorkerState, PaymentRecord
  <2> QED
    BY <1>1, <2>2, <2>3
<1>3. /\ New \in PaymentRecord /\ New.status = "INITIATED" /\ MarkPending(New) \in PaymentRecord
      /\ MarkPending(New).status = "PENDING"
  BY NewSound, LifeCycleFollows, MethodsMove DEF New, CanMarkPending, Follows
<1>4. \E p : created(p) /\ Told(p.status, gw')
  <2>1. CASE (created(New) \/ created(MarkFailed(New))) /\ UNCHANGED outside
    <3>1. gw'.status = "none"
      BY <1>1, <2>1 DEF outside
    <3>2. Told(New.status, gw') /\ Told(MarkFailed(New).status, gw')
      BY <1>3, <3>1, MethodsMove DEF Told, PaidStatus
    <3> QED
      BY <2>1, <3>2
  <2>2. ASSUME NEW word \in {"pending", "settlement", "deny"},
               GatewayBecomes([gw EXCEPT !.status = word]),
               created(AfterCharge(word)) \/ created(New)
        PROVE  \E p : created(p) /\ Told(p.status, gw')
    <3>1. gw'.status = word
      BY <2>2 DEF GatewayBecomes, FitInv, IInv, TypeOK, GatewayTx
    <3>2. AfterCharge(word).status = CASE word = "settlement" -> "COMPLETED"
                                       [] word = "deny"       -> "FAILED"
                                       [] OTHER               -> "PENDING"
      BY <1>3, MethodsMove DEF AfterCharge, mapTransactionStatus
    <3>3. Told(New.status, gw') /\ Told(AfterCharge(word).status, gw')
      BY <1>3, <3>1, <3>2 DEF Told, PaidStatus
    <3> QED
      BY <2>2, <3>3
  <2>3. ASSUME NEW word \in {"pending", "settlement", "deny"},
               GatewayBecomes([gw EXCEPT !.status = word, !.named = FALSE]),
               created(MarkFailed(New))
        PROVE  \E p : created(p) /\ Told(p.status, gw')
    <3>1. ~gw'.named
      BY <2>3 DEF GatewayBecomes, FitInv, IInv, TypeOK, GatewayTx
    <3>2. MarkFailed(New).status = "FAILED"
      BY <1>3, MethodsMove
    <3> QED
      BY <2>3, <3>1, <3>2 DEF Told, PaidStatus
  <2> QED
    BY <2>1, <2>2, <2>3 DEF CreateCharge
<1>5. ASSUME NEW v \in Worker, workers'[v].pc = "save" PROVE Told(workers'[v].p.status, gw')
  <2>1. PICK p : created(p) /\ Told(p.status, gw')
    BY <1>4
  <2>2. v = w
    BY <1>2, <1>5, <2>1 DEF FitInv, IInv, TypeOK
  <2>3. workers'[w].p = p
    BY <2>1 DEF Idle, FitInv, IInv, TypeOK
  <2> QED
    BY <2>1, <2>2, <2>3
<1>6. NotifsTold'
  <2>1. gw' \in GatewayTx
    BY DEF FitInv, IInv, TypeOK
  <2>2. \A n \in notifs : n.status \notin {"SETTLED", "FAILED"}
    BY <1>1 DEF StatusInv, NotifsTold
  <2>3. \A n \in notifs' : n \in notifs \/ n = ReportOf(gw')
    BY DEF CreateCharge, GatewayBecomes, outside
  <2> QED
    BY <2>1, <2>2, <2>3, ReportTold DEF NotifsTold
<1> QED
  BY <1>1, <1>5, <1>6 DEF StatusInv

\* What was prepared is saved.
LEMMA PreparedTold ==
  ASSUME FitInv, FitInv', StatusInv, NEW w \in Worker, CreateSave(w) \/ CancelSave(w) \/ ChargeSave(w)
  PROVE  StatusInv'
<1>1. workers[w].pc = "save" /\ SaveAndFinish(w, workers[w].p)
  BY DEF CreateSave, CancelSave, ChargeSave, At
<1>2. Told(workers[w].p.status, gw)
  BY <1>1 DEF StatusInv
<1> QED
  BY <1>1, <1>2, SaveAndFinishTold

LEMMA CancelCallTold ==
  ASSUME FitInv, FitInv', StatusInv, NEW w \in Worker, CancelCall(w)
  PROVE  StatusInv'
<1>1. workers[w].p \in PaymentRecord
  BY WorkerType DEF FitInv
<1>2. workers'[w].p = Cancel(workers[w].p) /\ Alone(w)
  BY DEF CancelCall, Alone, FitInv, IInv, TypeOK, WorkerState
<1>3. Told(workers'[w].p.status, gw')
  BY <1>1, <1>2, MethodsMove, NothingTold
<1>4. Onward /\ UNCHANGED stored
  <2>1. CASE UNCHANGED outside
    BY <2>1, StillOnward DEF CancelCall
  <2>2. CASE gw.status = "pending" /\ GatewayBecomes([gw EXCEPT !.status = "cancel"])
    BY <2>2 DEF Onward, GatewayBecomes, CancelCall
  <2> QED
    BY <2>1, <2>2 DEF CancelCall
<1> QED
  BY <1>2, <1>3, <1>4, KeepTold

LEMMA ExpireTold ==
  ASSUME FitInv, FitInv', StatusInv, NEW w \in Worker, Expire(w)
  PROVE  StatusInv'
<1>1. workers[w].p \in PaymentRecord /\ SaveAndFinish(w, MarkExpired(workers[w].p))
  BY WorkerType DEF Expire, FitInv
<1>2. Told(MarkExpired(workers[w].p).status, gw)
  BY <1>1, MethodsMove, NothingTold
<1> QED
  BY <1>1, <1>2, SaveAndFinishTold

LEMMA CallbackTold ==
  ASSUME FitInv, FitInv', StatusInv, NEW w \in Worker, Callback(w)
  PROVE  StatusInv'
<1> DEFINE p == workers[w].p
<1>1. PICK n \in notifs : SaveAndFinish(w, AfterNotification(p, n))
  BY DEF Callback
<1> DEFINE q == AfterNotification(p, n)
<1>2. workers[w].pc = "loaded"
  BY DEF Callback, At
<1>3. p \in PaymentRecord /\ row.version > 0
  BY <1>2, Current
<1>4. q.version = p.version
  BY <1>3, AfterNotificationFollows DEF Follows
<1>5. ASSUME q.version = row.version PROVE Told(q.status, gw)
  <2>1. p.status = row.status /\ p.refunds = refunds /\ View = row.status
    BY <1>2, <1>4, <1>5, Current
  <2>2. \/ Settles(row.status, refunds, q.status, q.refunds)
        \/ /\ Moves(View, q.status)
           /\ q.status = "COMPLETED" => n.status = "SETTLED"
           /\ q.status = "FAILED" => n.status = "FAILED"
    BY <1>3, <2>1, NotificationMoves
  <2> HIDE DEF q
  <2>3. CASE Settles(row.status, refunds, q.status, q.refunds)
    BY <1>3, <2>3, SettlesTold
  <2>4. CASE /\ Moves(View, q.status)
             /\ q.status = "COMPLETED" => n.status = "SETTLED"
             /\ q.status = "FAILED" => n.status = "FAILED"
    <3>1. q.status \notin {"PARTIALLY_REFUNDED", "REFUNDED"}
      BY <2>4 DEF Moves, Opened, Lifecycle!NextStatus
    <3>2. /\ n.status = "SETTLED" => gw.status = "settlement"
          /\ n.status = "FAILED"  => gw.status \in {"deny", "expire", "cancel"}
      BY DEF StatusInv, NotifsTold
    <3> QED
      BY <2>4, <3>1, <3>2 DEF Told, PaidStatus
  <2> QED
    BY <2>2, <2>3, <2>4
<1> HIDE DEF q
<1>6. SaveAndFinish(w, q)
  BY <1>1 DEF q
<1> QED
  BY <1>5, <1>6, SaveAndFinishTold

LEMMA RefundReserveTold ==
  ASSUME FitInv, FitInv', StatusInv, NEW w \in Worker, RefundReserve(w)
  PROVE  StatusInv'
<1> DEFINE p == workers[w].p
<1>1. PICK r \in RefundId, ref \in Reference, asked \in 0..Amount :
        LET amount == IF asked = 0 THEN RefundableAmount(p) ELSE asked
            q      == RequestRefund(p, r, ref, amount)
        IN  Save(q) /\ workers' = [workers EXCEPT ![w].pc = "call", ![w].p = Saved(q), ![w].r = {r}]
  BY DEF RefundReserve
<1> DEFINE q == RequestRefund(p, r, ref, IF asked = 0 THEN RefundableAmount(p) ELSE asked)
<1>2. workers[w].pc = "loaded" /\ UNCHANGED outside
  BY DEF RefundReserve, At, outside
<1>3. p \in PaymentRecord
  BY <1>2, Current
<1>4. q.status = p.status /\ q.version = p.version
  BY <1>3 DEF RequestRefund, PaymentRecord
<1>5. Save(q) /\ workers' = [workers EXCEPT ![w].pc = "call", ![w].p = Saved(q), ![w].r = {r}]
  BY <1>1
<1> HIDE DEF q, p
<1>6. p.version = row.version
  BY <1>4, <1>5 DEF Save, UpToDate
<1>7. Told(q.status, gw)
  BY <1>2, <1>4, <1>6, Current DEF StatusInv, p
<1>8. Alone(w) /\ workers'[w].pc # "save"
  BY <1>5 DEF Alone, FitInv, IInv, TypeOK, WorkerState
<1> QED
  BY <1>2, <1>5, <1>7, <1>8, SaveTold

\* The gateway pays a refund.
LEMMA AcceptOnward ==
  ASSUME FitInv, NEW r, AcceptRefund(r)
  PROVE  Onward
BY DEF AcceptRefund, GatewayBecomes, Onward, FitInv, IInv, TypeOK, GatewayTx

LEMMA RefundCallTold ==
  ASSUME FitInv, FitInv', StatusInv, NEW w \in Worker, RefundCall(w)
  PROVE  StatusInv'
<1>1. UNCHANGED stored /\ Onward
  BY AcceptOnward, StillOnward DEF RefundCall
<1>2. CASE Finish(w)
  BY <1>1, <1>2, FinishTold
<1>3. ASSUME NEW accepted, workers' = [workers EXCEPT ![w].pc = "decided", ![w].accepted = accepted]
      PROVE  StatusInv'
  <2>1. Alone(w) /\ workers'[w].pc # "save"
    BY <1>3 DEF Alone, FitInv, IInv, TypeOK, WorkerState
  <2> QED
    BY <1>1, <2>1, KeepTold
<1> QED
  BY <1>2, <1>3 DEF RefundCall

LEMMA OutcomeTold ==
  ASSUME FitInv, FitInv', StatusInv, NEW w \in Worker, workers[w].pc \in {"loaded", "decided"},
         NEW r \in workers[w].r, CanApplyOutcome(workers[w].p, r, workers[w].accepted),
         SaveAndFinish(w, ApplyOutcome(workers[w].p, r, workers[w].accepted))
  PROVE  StatusInv'
<1> DEFINE p == workers[w].p
           q == ApplyOutcome(p, r, workers[w].accepted)
<1>1. r \in RefundId /\ p \in PaymentRecord /\ row.version > 0
  BY WorkerType, Current DEF FitInv
<1>2. q.version = p.version
  BY <1>1, ApplyOutcomeFollows DEF Follows
<1>3. p.version = row.version => Settles(row.status, refunds, q.status, q.refunds)
  BY <1>1, Current, OutcomeSettles
<1> HIDE DEF q
<1>4. q.version = row.version => Told(q.status, gw)
  BY <1>1, <1>2, <1>3, SettlesTold
<1>5. SaveAndFinish(w, q)
  BY DEF q
<1> QED
  BY <1>4, <1>5, SaveAndFinishTold

LEMMA RefundOutcomeTold ==
  ASSUME FitInv, FitInv', StatusInv, NEW w \in Worker, RefundOutcome(w)
  PROVE  StatusInv'
<1>1. PICK r \in workers[w].r :
        /\ CanApplyOutcome(workers[w].p, r, workers[w].accepted)
        /\ \/ SaveAndFinish(w, ApplyOutcome(workers[w].p, r, workers[w].accepted))
           \/ /\ workers' = [workers EXCEPT ![w].pc = "reload"]
              /\ UNCHANGED <<stored, age, outside>>
  BY DEF RefundOutcome
<1>2. CASE SaveAndFinish(w, ApplyOutcome(workers[w].p, r, workers[w].accepted))
  BY <1>1, <1>2, OutcomeTold DEF RefundOutcome, At
<1>3. CASE workers' = [workers EXCEPT ![w].pc = "reload"] /\ UNCHANGED <<stored, age, outside>>
  <2>1. Alone(w) /\ workers'[w].pc # "save"
    BY <1>3 DEF Alone, FitInv, IInv, TypeOK, WorkerState
  <2> QED
    BY <1>3, <2>1, StillOnward, KeepTold
<1> QED
  BY <1>1, <1>2, <1>3

LEMMA ChargeLookupTold ==
  ASSUME FitInv, FitInv', StatusInv, NEW w \in Worker, ChargeLookup(w)
  PROVE  StatusInv'
<1> DEFINE p == workers[w].p
           next(pc, q) == workers' = [workers EXCEPT ![w].pc = pc, ![w].p = q]
<1>1. p \in PaymentRecord /\ gw \in GatewayTx
  BY WorkerType DEF FitInv, IInv, TypeOK
<1>2. CanMarkPending(p) => MarkPending(p) \in PaymentRecord
  BY <1>1, PendingThenFinal DEF Follows
<1>3. \E pc, q : next(pc, q) /\ (pc = "save" => Told(q.status, gw))
  <2>1. CASE ~ReportOf(gw).found /\ next("save", MarkFailed(p))
    <3>1. Told(MarkFailed(p).status, gw)
      BY <1>1, <2>1, ReportTold, MethodsMove DEF Told, PaidStatus
    <3> QED
      BY <2>1, <3>1
  <2>2. CASE CanMarkPending(p) /\ ReportOf(gw).status = "SETTLED" /\ next("save", MarkCompleted(MarkPending(p)))
    <3>1. Told(MarkCompleted(MarkPending(p)).status, gw)
      BY <1>1, <1>2, <2>2, ReportTold, MethodsMove DEF Told
    <3> QED
      BY <2>2, <3>1
  <2>3. CASE CanMarkPending(p) /\ ReportOf(gw).status = "FAILED" /\ next("save", MarkFailed(MarkPending(p)))
    <3>1. Told(MarkFailed(MarkPending(p)).status, gw)
      BY <1>1, <1>2, <2>3, ReportTold, MethodsMove DEF Told, PaidStatus
    <3> QED
      BY <2>3, <3>1
  <2>4. CASE next("cancel", p)
    <3>1. "cancel" = "save" => Told(p.status, gw)
      OBVIOUS
    <3> HIDE DEF next
    <3> QED
      BY <2>4, <3>1
  <2> QED
    BY <2>1, <2>2, <2>3, <2>4 DEF ChargeLookup
<1>4. PICK pc, q : next(pc, q) /\ (pc = "save" => Told(q.status, gw))
  BY <1>3
<1>5. Alone(w) /\ workers'[w].pc = pc /\ workers'[w].p = q
  BY <1>4 DEF Alone, FitInv, IInv, TypeOK, WorkerState
<1>6. UNCHANGED stored /\ Onward /\ gw' = gw
  BY StillOnward DEF ChargeLookup, outside
<1> QED
  BY <1>4, <1>5, <1>6, KeepTold

LEMMA ChargeCancelTold ==
  ASSUME FitInv, FitInv', StatusInv, NEW w \in Worker, ChargeCancel(w)
  PROVE  StatusInv'
<1> DEFINE q == MarkFailed(MarkPending(workers[w].p))
<1>1. gw'.status = "cancel" /\ Onward /\ UNCHANGED stored
  BY DEF ChargeCancel, GatewayBecomes, Onward, FitInv, IInv, TypeOK, GatewayTx
<1>2. CASE Finish(w)
  BY <1>1, <1>2, FinishTold
<1>3. CASE workers' = [workers EXCEPT ![w].pc = "save", ![w].p = q]
  <2>1. MarkPending(workers[w].p) \in PaymentRecord
    BY WorkerType, PendingThenFinal DEF ChargeCancel, Follows, FitInv
  <2>2. q.status = "FAILED"
    BY <2>1, MethodsMove
  <2> HIDE DEF q
  <2>3. Alone(w) /\ workers'[w].p = q
    BY <1>3 DEF Alone, FitInv, IInv, TypeOK, WorkerState
  <2>4. Told(workers'[w].p.status, gw')
    BY <1>1, <2>2, <2>3 DEF Told, PaidStatus
  <2> QED
    BY <1>1, <2>3, <2>4, KeepTold
<1> QED
  BY <1>2, <1>3 DEF ChargeCancel

LEMMA RefundsResendTold ==
  ASSUME FitInv, FitInv', StatusInv, NEW w \in Worker, RefundsResend(w)
  PROVE  StatusInv'
<1>1. workers[w].pc = "resend" /\ UNCHANGED stored
  BY DEF RefundsResend, At
<1>2. PICK r \in workers[w].todo : \E q : Resent(w, r, q) /\ (AcceptRefund(r) \/ UNCHANGED outside)
  BY DEF RefundsResend
<1>3. Alone(w) /\ workers'[w].pc # "save" /\ Onward
  BY <1>1, <1>2, AcceptOnward, StillOnward DEF Resent, Alone, FitInv, IInv, TypeOK, WorkerState
<1> QED
  BY <1>1, <1>3, KeepTold

LEMMA RefundsSaveTold ==
  ASSUME FitInv, FitInv', StatusInv, NEW w \in Worker, RefundsSave(w)
  PROVE  StatusInv'
<1> DEFINE p == workers[w].p
<1>1. workers[w].pc = "resend" /\ ~IsIdle(w) /\ SaveAndFinish(w, p)
  BY DEF RefundsSave, At, IsIdle
<1>2. Fits(workers[w]) /\ Known(workers[w])
  BY <1>1 DEF FitInv
<1>3. p.version > 0
  BY <1>1, <1>2 DEF Known
<1>4. p.version = row.version => Told(p.status, gw)
  BY <1>1, <1>2, <1>3, SettlesTold DEF Fits
<1> QED
  BY <1>1, <1>4, SaveAndFinishTold

\* The steps that load, look or wait.
LEMMA LoadTold ==
  ASSUME FitInv, FitInv', StatusInv, NEW w \in Worker,
         \/ BeginRequest(w) \/ ReadRefunds(w) \/ OutcomeReload(w) \/ BeginExpiry(w)
         \/ BeginReconcileCharge(w) \/ BeginReconcileRefunds(w) \/ RefundsLookup(w)
  PROVE  StatusInv'
<1>1. UNCHANGED stored /\ Onward
  BY StillOnward DEF BeginRequest, ReadRefunds, OutcomeReload, BeginExpiry, BeginReconcileCharge,
     BeginReconcileRefunds, RefundsLookup, FindUnpaid
<1>2. Alone(w) /\ workers'[w].pc # "save"
  <2>1. workers \in [Worker -> WorkerState]
    BY DEF FitInv, IInv, TypeOK
  <2>2. ASSUME NEW x, x.pc # "save", workers' = [workers EXCEPT ![w] = x]
        PROVE  Alone(w) /\ workers'[w].pc # "save"
    BY <2>1, <2>2 DEF Alone
  <2>3. ASSUME NEW op, ReadRow(w, op) PROVE Alone(w) /\ workers'[w].pc # "save"
    BY <2>2, <2>3 DEF ReadRow, Idle
  <2>4. CASE BeginRequest(w) \/ BeginReconcileRefunds(w)
    BY <2>3, <2>4 DEF BeginRequest, BeginReconcileRefunds
  <2>5. CASE BeginExpiry(w) \/ BeginReconcileCharge(w)
    BY <2>2, <2>5 DEF BeginExpiry, BeginReconcileCharge, FindUnpaid, Idle
  <2>6. CASE ReadRefunds(w)
    BY <2>1, <2>6 DEF ReadRefunds, WorkerState, Alone
  <2>7. CASE OutcomeReload(w)
    BY <2>1, <2>7 DEF OutcomeReload, WorkerState, Alone
  <2>8. CASE RefundsLookup(w)
    BY <2>1, <2>8 DEF RefundsLookup, WorkerState, Alone
  <2> QED
    BY <2>4, <2>5, <2>6, <2>7, <2>8
<1> QED
  BY <1>1, <1>2, KeepTold

LEMMA StepTold ==
  ASSUME FitInv, FitInv', StatusInv, NEW w \in Worker, Step(w)
  PROVE  StatusInv'
<1>1. CASE Abandon(w)
  BY <1>1, FinishTold, StillOnward DEF Abandon
<1>2. CASE OutcomeRetry(w)
  BY <1>2, OutcomeTold DEF OutcomeRetry, At
<1> QED
  BY <1>1, <1>2, LoadTold, CreateChargeTold, PreparedTold, CancelCallTold, ExpireTold, CallbackTold,
     RefundReserveTold, RefundCallTold, RefundOutcomeTold, ChargeLookupTold, ChargeCancelTold,
     RefundsResendTold, RefundsSaveTold DEF Step

LEMMA InitTold == Init => StatusInv
<1> SUFFICES ASSUME Init PROVE StatusInv
  OBVIOUS
<1>1. \A w \in Worker : workers[w].pc = "idle"
  BY IdleType DEF Init
<1> QED
  BY <1>1 DEF Init, StatusInv, NotifsTold

LEMMA NextTold == FitInv /\ FitInv' /\ StatusInv /\ [Next]_vars => StatusInv'
<1> SUFFICES ASSUME FitInv, FitInv', StatusInv, [Next]_vars PROVE StatusInv'
  OBVIOUS
<1>1. ASSUME NEW w \in Worker, Step(w) PROVE StatusInv'
  BY <1>1, StepTold
<1>2. CASE GatewaySettles \/ RefundInDashboard \/ UNCHANGED vars \/ \E r \in RefundId : GrowOlder(r)
  <2>1. UNCHANGED stored /\ UNCHANGED workers
    BY <1>2 DEF GatewaySettles, RefundInDashboard, GrowOlder, vars, stored
  <2>2. Onward
    <3>1. CASE GatewaySettles \/ RefundInDashboard
      BY <3>1 DEF GatewaySettles, RefundInDashboard, GatewayBecomes, Onward, FitInv, IInv, TypeOK, GatewayTx
    <3>2. CASE UNCHANGED vars \/ \E r \in RefundId : GrowOlder(r)
      BY <3>2, StillOnward DEF vars, GrowOlder, outside
    <3> QED
      BY <1>2, <3>1, <3>2
  <2>3. NotifsTold' /\ \A s : Told(s, gw) => Told(s, gw')
    BY <2>2, OnwardKeeps
  <2> QED
    BY <2>1, <2>3 DEF StatusInv, stored
<1> QED
  BY <1>1, <1>2 DEF Next

LEMMA AlwaysTold == Spec => [](FitInv /\ StatusInv)
<1>1. Init => FitInv /\ StatusInv
  BY InitFits, InitTold
<1>2. FitInv /\ StatusInv /\ [Next]_vars => FitInv' /\ StatusInv'
  BY NextFits, NextTold
<1> QED
  BY <1>1, <1>2, PTL DEF Spec

\* A payment stored as paid was collected by the gateway and one stored as FAILED
\* was not: no lost charge reply, late notification, cancel that crosses a payment
\* or reconciled orphan turns one into the other, and only a charge reply that names
\* no transaction leaves one open under a FAILED payment.
THEOREM StatusNeverMisstated == Spec => []StatusAgreesWithGateway
<1>1. FitInv /\ StatusInv => StatusAgreesWithGateway
  <2> SUFFICES ASSUME FitInv, StatusInv PROVE StatusAgreesWithGateway
    OBVIOUS
  <2>1. CASE row.version > 0
    BY <2>1 DEF StatusInv, Told, StatusAgreesWithGateway
  <2>2. CASE ~(row.version > 0)
    <3>1. row.version = 0
      BY <2>2, Unpaid
    <3>2. row.status = "INITIATED"
      BY <3>1 DEF FitInv, IInv, CopiesSound
    <3> QED
      BY <2>2, <3>2 DEF StatusAgreesWithGateway, PaidStatus
  <2> QED
    BY <2>1, <2>2
<1> QED
  BY <1>1, AlwaysTold, PTL

-----------------------------------------------------------------------------
(* The stored refunds.  A refund that was sent is settled by whoever sent  *)
(* it: its request while it is young, the one reconciliation pass once it  *)
(* is old.  That pass may hold a stale copy, which its version gives away; *)
(* what it sends again must not have been declined meanwhile.              *)

Old(r) == age[r] >= RefundRetryAfter

\* A request has one refund, and knows what the gateway did with it.
Owned(x) ==
  \A r \in x.r :
    /\ \A s \in x.r : s = r
    /\ refunds[r].status # "NONE" /\ ~Old(r)
    /\ IF x.pc = "call" THEN refunds[r].status = "PENDING" /\ r \notin gw.refunds
                        ELSE x.accepted <=> r \in gw.refunds

\* A pass only sends again what is unpaid; if its copy is current, what it has
\* settled there is so.
Looked(x) ==
  x.op = "refunds" =>
    /\ x.pc = "loaded" =>
         \A r \in RefundId : x.p.refunds[r].status = "PENDING" /\ Old(r) => refunds[r].status \in ReservedStatus
    /\ x.pc = "resend" =>
         /\ \A r \in x.todo : /\ x.p.refunds[r].status = "PENDING" /\ refunds[r].status = "PENDING"
                              /\ Old(r) /\ r \notin gw.refunds
         /\ x.p.version = row.version =>
              \A r \in RefundId :
                /\ x.p.refunds[r].status = "SUCCEEDED" => r \in gw.refunds
                /\ x.p.refunds[r].status = "FAILED" =>
                     r \notin gw.refunds /\ (refunds[r].status = "FAILED" \/ Old(r))

\* Nothing that was paid out is stored as declined, or not at all.
PaidRight ==
  \A r \in RefundId : /\ refunds[r].status = "SUCCEEDED" => r \in gw.refunds
                      /\ r \in gw.refunds => refunds[r].status \in ReservedStatus

NotifsPaid == \A n \in notifs : n.refunds \subseteq gw.refunds

\* No refund has two requests, and one pass runs at a time.
Apart == \A v, w \in Worker : v # w => /\ workers[v].r \cap workers[w].r = {}
                                       /\ ~(Reconciling(v) /\ Reconciling(w))

Unborn == \A r \in RefundId : refunds[r].status = "NONE" => age[r] = 0

RefundInv ==
  /\ PaidRight /\ NotifsPaid /\ Apart /\ Unborn
  /\ \A w \in Worker : Owned(workers[w]) /\ Looked(workers[w])

\* What worker w may bring about at the gateway: a refund of its own, or an old
\* one it sends again.
Pays(w) ==
  /\ gw.refunds \subseteq gw'.refunds
  /\ \A n \in notifs' : n \in notifs \/ n.refunds = gw'.refunds
  /\ \A r \in gw'.refunds \ gw.refunds :
       /\ refunds[r].status = "PENDING"
       /\ r \in workers[w].r \/ (Old(r) /\ workers[w].op = "refunds")

\* Worker w takes up no refund, and no reconciliation next to another.
Humble(w) ==
  /\ workers'[w].r \subseteq workers[w].r
  /\ Reconciling(w)' => Reconciling(w) \/ \A v \in Worker : ~Reconciling(v)

-----------------------------------------------------------------------------
(* The two kinds of step. *)

LEMMA ApartKept ==
  ASSUME RefundInv, NEW w \in Worker, Alone(w), Humble(w)
  PROVE  Apart'
<1> SUFFICES ASSUME NEW u \in Worker, NEW v \in Worker, u # v
             PROVE  /\ workers'[u].r \cap workers'[v].r = {}
                    /\ ~(Reconciling(u)' /\ Reconciling(v)')
  BY DEF Apart
<1>1. \A x \in Worker : x # w => workers'[x] = workers[x] /\ (Reconciling(x)' <=> Reconciling(x))
  BY DEF Alone, Reconciling
<1>2. workers[u].r \cap workers[v].r = {} /\ ~(Reconciling(u) /\ Reconciling(v))
  BY DEF RefundInv, Apart
<1> QED
  BY <1>1, <1>2 DEF Humble

\* A step of worker w that saves nothing.
LEMMA KeepPaid ==
  ASSUME FitInv, RefundInv, NEW w \in Worker, UNCHANGED <<stored, age>>, Alone(w), Pays(w), Humble(w),
         (Owned(workers[w]) /\ Looked(workers[w]))'
  PROVE  RefundInv'
<1>1. UNCHANGED <<row, refunds, age>>
  BY DEF stored
<1>2. gw.refunds \subseteq RefundId
  BY DEF FitInv, IInv, TypeOK, GatewayTx
<1>3. PaidRight'
  BY <1>1 DEF RefundInv, PaidRight, Pays, ReservedStatus
<1>4. NotifsPaid'
  BY DEF RefundInv, NotifsPaid, Pays
<1>5. Unborn'
  BY <1>1 DEF RefundInv, Unborn
<1>6. Apart'
  BY ApartKept
<1>7. ASSUME NEW v \in Worker PROVE (Owned(workers[v]) /\ Looked(workers[v]))'
  <2> SUFFICES ASSUME v # w PROVE (Owned(workers[v]) /\ Looked(workers[v]))'
    OBVIOUS
  <2>1. workers'[v] = workers[v]
    BY DEF Alone
  <2>2. Owned(workers[v]) /\ Looked(workers[v]) /\ Owned(workers[w])
    BY DEF RefundInv
  <2>3. workers[v].r \cap workers[w].r = {} /\ ~(Reconciling(v) /\ Reconciling(w))
    BY DEF RefundInv, Apart
  <2>4. Owned(workers[v])'
    <3>1. \A r \in workers[v].r : r \in gw'.refunds => r \in gw.refunds
      BY <2>2, <2>3 DEF Pays, Owned
    <3> QED
      BY <1>1, <2>1, <2>2, <3>1 DEF Owned, Old, Pays
  <2>5. Looked(workers[v])'
    <3>1. \A r \in gw'.refunds \ gw.refunds :
            workers[v].op = "refunds" => ~Old(r) /\ refunds[r].status = "PENDING"
      BY <2>2, <2>3 DEF Pays, Owned, Reconciling
    <3> QED
      BY <1>1, <2>1, <2>2, <3>1 DEF Looked, Old, Pays
  <2> QED
    BY <2>4, <2>5
<1> QED
  BY <1>3, <1>4, <1>5, <1>6, <1>7 DEF RefundInv

\* What a Save by worker w may make of a refund.
Rightly(w, r, status) ==
  \/ status = refunds[r].status
  \/ refunds[r].status = "NONE" /\ status = "PENDING"
  \/ refunds[r].status = "PENDING" /\ status = "SUCCEEDED" /\ r \in gw.refunds
  \/ /\ refunds[r].status = "PENDING" /\ status = "FAILED" /\ r \notin gw.refunds
     /\ r \in workers[w].r \/ (Old(r) /\ Reconciling(w))

\* A step of worker w that saves.
LEMMA SavePaid ==
  ASSUME FitInv, RefundInv, NEW w \in Worker, UNCHANGED <<age, outside>>, Alone(w),
         row'.version = row.version + 1, Apart',
         \A r \in RefundId : Rightly(w, r, refunds'[r].status),
         (Owned(workers[w]) /\ Looked(workers[w]))'
  PROVE  RefundInv'
<1>1. UNCHANGED <<age, gw, notifs>>
  BY DEF outside
<1>2. \A r \in RefundId : refunds[r].status = "NONE" => r \notin gw.refunds
  BY DEF RefundInv, PaidRight, ReservedStatus
<1>3. PaidRight'
  BY <1>1 DEF RefundInv, PaidRight, Rightly, ReservedStatus
<1>4. NotifsPaid'
  BY <1>1 DEF RefundInv, NotifsPaid
<1>5. Unborn'
  BY <1>1 DEF RefundInv, Unborn, Rightly
<1>6. ASSUME NEW v \in Worker PROVE (Owned(workers[v]) /\ Looked(workers[v]))'
  <2> SUFFICES ASSUME v # w PROVE (Owned(workers[v]) /\ Looked(workers[v]))'
    OBVIOUS
  <2>1. workers'[v] = workers[v] /\ workers[v].r \subseteq RefundId /\ workers[v].todo \subseteq RefundId
    BY WorkerType DEF Alone, FitInv
  <2>2. Owned(workers[v]) /\ Looked(workers[v]) /\ Owned(workers[w])
    BY DEF RefundInv
  <2>3. workers[v].r \cap workers[w].r = {} /\ ~(Reconciling(v) /\ Reconciling(w))
    BY DEF RefundInv, Apart
  <2>4. Owned(workers[v])'
    <3>1. \A r \in workers[v].r :
            /\ refunds'[r].status # "NONE"
            /\ workers[v].pc = "call" => refunds'[r].status = "PENDING"
      BY <2>1, <2>2, <2>3 DEF Rightly, Owned
    <3> QED
      BY <1>1, <2>1, <2>2, <3>1 DEF Owned, Old
  <2>5. Looked(workers[v])'
    <3>1. \A r \in RefundId :
            workers[v].op = "refunds" /\ Old(r) /\ refunds[r].status \in ReservedStatus =>
              /\ refunds'[r].status \in ReservedStatus
              /\ refunds[r].status = "PENDING" /\ r \notin gw.refunds => refunds'[r].status = "PENDING"
      BY <2>2, <2>3 DEF Rightly, Owned, Reconciling, ReservedStatus
    <3>2. ~IsIdle(v) => workers[v].p.version # row'.version
      <4>1. workers[v].p.version \in Nat /\ row.version \in Nat
        BY DEF FitInv, IInv, TypeOK, WorkerState, PaymentRecord
      <4>2. ~IsIdle(v) => workers[v].p.version <= row.version
        BY DEF FitInv, IInv, CopiesSound, CopySound
      <4> QED
        BY <4>1, <4>2
    <3>3. workers[v].pc = "resend" => ~IsIdle(v)
      BY DEF IsIdle
    <3>4. workers'[v].pc = "loaded" /\ workers'[v].op = "refunds" =>
            \A r \in RefundId : workers[v].p.refunds[r].status = "PENDING" /\ Old(r) => refunds'[r].status \in ReservedStatus
      BY <2>1, <2>2, <3>1 DEF Looked
    <3>5. workers'[v].pc = "resend" /\ workers'[v].op = "refunds" =>
            \A r \in workers[v].todo : /\ workers[v].p.refunds[r].status = "PENDING" /\ refunds'[r].status = "PENDING"
                                       /\ Old(r) /\ r \notin gw.refunds
      BY <2>1, <2>2, <3>1 DEF Looked, ReservedStatus
    <3> QED
      BY <1>1, <2>1, <3>2, <3>3, <3>4, <3>5 DEF Looked, Old
  <2> QED
    BY <2>4, <2>5
<1> QED
  BY <1>3, <1>4, <1>5, <1>6 DEF RefundInv

-----------------------------------------------------------------------------
(* Facts the operations share. *)

\* The gateway is left alone, or moves without paying.
LEMMA NothingPaid ==
  ASSUME FitInv, NEW w, NEW word,
         \/ UNCHANGED outside
         \/ GatewayBecomes([gw EXCEPT !.status = word])
         \/ GatewayBecomes([gw EXCEPT !.status = word, !.named = FALSE])
  PROVE  Pays(w) /\ gw'.refunds = gw.refunds
<1>1. gw'.refunds = gw.refunds
  BY DEF outside, GatewayBecomes, FitInv, IInv, TypeOK, GatewayTx
<1>2. notifs' = notifs \/ notifs' = notifs \cup {ReportOf(gw')}
  BY DEF outside, GatewayBecomes
<1>3. ReportOf(gw').refunds = gw'.refunds
  BY DEF ReportOf
<1> QED
  BY <1>1, <1>2, <1>3 DEF Pays

\* An operation that begins.
LEMMA BeginPaid ==
  ASSUME FitInv, RefundInv, NEW w \in Worker, UNCHANGED <<stored, age>>, Alone(w), Pays(w),
         workers'[w].r = {},
         workers'[w].op = "refunds" => workers'[w].pc = "row",
         workers'[w].op \in {"charge", "refunds"} => \A v \in Worker : ~Reconciling(v)
  PROVE  RefundInv'
<1>1. (Owned(workers[w]) /\ Looked(workers[w]))' /\ Humble(w)
  BY DEF Owned, Looked, Humble, Reconciling
<1> QED
  BY <1>1, KeepPaid

\* An operation other than a pass over refunds, which goes on with its refund.
LEMMA GoOnPaid ==
  ASSUME FitInv, RefundInv, NEW w \in Worker, UNCHANGED <<stored, age>>, Alone(w), Pays(w),
         gw'.refunds = gw.refunds,
         workers[w].op # "refunds",
         workers'[w].op = workers[w].op \/ workers'[w].op = "outcome",
         workers'[w].r = workers[w].r, workers'[w].accepted = workers[w].accepted,
         workers[w].pc # "call", workers'[w].pc # "call"
  PROVE  RefundInv'
<1>1. Owned(workers[w])
  BY DEF RefundInv
<1>2. (Owned(workers[w]) /\ Looked(workers[w]))' /\ Humble(w)
  BY <1>1 DEF Owned, Old, Looked, Humble, Reconciling, stored
<1> QED
  BY <1>2, KeepPaid

LEMMA FinishPaid ==
  ASSUME FitInv, RefundInv, NEW w \in Worker, UNCHANGED <<stored, age>>, Pays(w), Finish(w)
  PROVE  RefundInv'
<1>1. workers'[w] = Idle /\ Alone(w)
  BY DEF Finish, Alone, FitInv, IInv, TypeOK
<1>2. workers'[w].r = {} /\ workers'[w].op = "none"
  BY <1>1 DEF Idle
<1> QED
  BY <1>1, <1>2, BeginPaid

LEMMA SaveAndFinishPaid ==
  ASSUME FitInv, RefundInv, NEW w \in Worker, NEW q \in PaymentRecord, SaveAndFinish(w, q),
         q.version = row.version => /\ Legal(q)
                                    /\ \A r \in RefundId : Rightly(w, r, q.refunds[r].status)
  PROVE  RefundInv'
<1>1. workers'[w] = Idle /\ Alone(w)
  BY DEF SaveAndFinish, Finish, Alone, FitInv, IInv, TypeOK
<1>2. workers'[w].r = {} /\ workers'[w].op = "none"
  BY <1>1 DEF Idle
<1>3. (Owned(workers[w]) /\ Looked(workers[w]))' /\ Humble(w)
  BY <1>2 DEF Owned, Looked, Humble, Reconciling
<1>4. Legal(q) /\ \A r \in RefundId : Rightly(w, r, q.refunds[r].status)
  BY DEF SaveAndFinish, Save, UpToDate
<1>5. refunds' = q.refunds /\ row'.version = row.version + 1
  BY <1>4, LegalKeeps DEF SaveAndFinish, Save
<1>6. UNCHANGED <<age, outside>>
  BY DEF SaveAndFinish
<1> QED
  BY <1>1, <1>3, <1>4, <1>5, <1>6, ApartKept, SavePaid

\* The status of refunds that did not change.
LEMMA SameRightly ==
  ASSUME NEW w, NEW r, NEW status, status = refunds[r].status
  PROVE  Rightly(w, r, status)
BY DEF Rightly

-----------------------------------------------------------------------------
(* One lemma per operation. *)

LEMMA ReadRowPaid ==
  ASSUME FitInv, RefundInv, NEW w \in Worker, NEW op, ReadRow(w, op), UNCHANGED <<stored, age, outside>>,
         op \in {"charge", "refunds"} => \A v \in Worker : ~Reconciling(v)
  PROVE  RefundInv'
<1>1. workers'[w].r = {} /\ workers'[w].op = op /\ workers'[w].pc = "row" /\ Alone(w)
  BY DEF ReadRow, Idle, Alone, FitInv, IInv, TypeOK
<1> QED
  BY <1>1, NothingPaid, BeginPaid

LEMMA FindUnpaidPaid ==
  ASSUME FitInv, RefundInv, NEW w \in Worker, NEW op, op # "refunds", NEW status, FindUnpaid(w, op, status),
         op = "charge" => \A v \in Worker : ~Reconciling(v)
  PROVE  RefundInv'
<1>1. workers'[w].r = {} /\ workers'[w].op = op /\ Alone(w) /\ UNCHANGED <<stored, age, outside>>
  BY DEF FindUnpaid, Idle, Alone, FitInv, IInv, TypeOK
<1> QED
  BY <1>1, NothingPaid, BeginPaid

LEMMA CreateChargePaid ==
  ASSUME FitInv, RefundInv, NEW w \in Worker, CreateCharge(w)
  PROVE  RefundInv'
<1>1. PICK p : workers' = [workers EXCEPT ![w] = [Idle EXCEPT !.op = "create", !.pc = "save", !.p = p]]
  BY DEF CreateCharge
<1>2. workers'[w].r = {} /\ workers'[w].op = "create" /\ Alone(w)
  BY <1>1 DEF Idle, Alone, FitInv, IInv, TypeOK
<1>3. Pays(w)
  <2>1. PICK word : \/ UNCHANGED outside
                    \/ GatewayBecomes([gw EXCEPT !.status = word])
                    \/ GatewayBecomes([gw EXCEPT !.status = word, !.named = FALSE])
    BY DEF CreateCharge
  <2> QED
    BY <2>1, NothingPaid
<1>4. UNCHANGED <<stored, age>>
  BY DEF CreateCharge
<1> QED
  BY <1>2, <1>3, <1>4, BeginPaid

LEMMA ReadRefundsPaid ==
  ASSUME FitInv, RefundInv, NEW w \in Worker, ReadRefunds(w)
  PROVE  RefundInv'
<1>1. workers[w] \in WorkerState /\ workers[w].p \in PaymentRecord /\ workers[w].pc = "row"
  BY WorkerType DEF ReadRefunds, FitInv
<1>2. /\ workers'[w].pc = "loaded" /\ workers'[w].op = workers[w].op /\ workers'[w].r = workers[w].r
      /\ workers'[w].accepted = workers[w].accepted /\ workers'[w].p.refunds = refunds
      /\ Alone(w) /\ UNCHANGED <<stored, age, outside>>
  BY <1>1 DEF ReadRefunds, Alone, FitInv, IInv, TypeOK, WorkerState, PaymentRecord
<1>3. UNCHANGED <<refunds, age, gw>>
  BY <1>2 DEF stored, outside
<1>4. Owned(workers[w])
  BY DEF RefundInv
<1>5. Owned(workers[w])' /\ Humble(w)
  BY <1>1, <1>2, <1>3, <1>4 DEF Owned, Old, Humble, Reconciling
<1>6. Looked(workers[w])'
  BY <1>2, <1>3 DEF Looked, ReservedStatus
<1> QED
  BY <1>2, <1>5, <1>6, NothingPaid, KeepPaid

\* A move of the payment changes no refund.
LEMMA PreparedPaid ==
  ASSUME FitInv, RefundInv, NEW w \in Worker, CreateSave(w) \/ CancelSave(w) \/ ChargeSave(w)
  PROVE  RefundInv'
<1> DEFINE p == workers[w].p
<1>1. workers[w].pc = "save" /\ SaveAndFinish(w, p) /\ p \in PaymentRecord /\ ~IsIdle(w)
  BY WorkerType DEF CreateSave, CancelSave, ChargeSave, At, FitInv, IsIdle
<1>2. Fits(workers[w])
  BY <1>1 DEF FitInv
<1>3. p.version = row.version => Legal(p) /\ p.refunds = refunds
  BY <1>1, <1>2 DEF Fits, Legal
<1> HIDE DEF p
<1> QED
  BY <1>1, <1>3, SameRightly, SaveAndFinishPaid

LEMMA CancelCallPaid ==
  ASSUME FitInv, RefundInv, NEW w \in Worker, CancelCall(w)
  PROVE  RefundInv'
<1>1. /\ workers[w].op = "cancel" /\ workers[w].pc = "loaded" /\ UNCHANGED <<stored, age>>
      /\ workers'[w].op = "cancel" /\ workers'[w].pc = "save" /\ workers'[w].r = workers[w].r
      /\ workers'[w].accepted = workers[w].accepted /\ Alone(w)
  BY DEF CancelCall, At, Alone, FitInv, IInv, TypeOK, WorkerState
<1>2. Pays(w) /\ gw'.refunds = gw.refunds
  <2>1. UNCHANGED outside \/ GatewayBecomes([gw EXCEPT !.status = "cancel"])
    BY DEF CancelCall
  <2> QED
    BY <2>1, NothingPaid
<1> QED
  BY <1>1, <1>2, GoOnPaid

LEMMA ExpirePaid ==
  ASSUME FitInv, RefundInv, NEW w \in Worker, Expire(w)
  PROVE  RefundInv'
<1> DEFINE p == workers[w].p
           q == MarkExpired(p)
<1>1. workers[w].pc = "loaded" /\ SaveAndFinish(w, q) /\ CanMarkExpired(p)
  BY DEF Expire, At
<1>2. q \in PaymentRecord /\ q.version = p.version /\ q.status = "EXPIRED" /\ q.refunds = p.refunds
  BY <1>1, Current, LifeCycleFollows, MethodsMove DEF Follows
<1>3. p.version = row.version => p.status = View /\ p.refunds = refunds
  BY <1>1, Current
<1> HIDE DEF q
<1>4. q.version = row.version => Legal(q) /\ q.refunds = refunds
  BY <1>1, <1>2, <1>3 DEF Legal, Moves, CanMarkExpired, Lifecycle!NextStatus
<1> QED
  BY <1>1, <1>2, <1>4, SameRightly, SaveAndFinishPaid

\* Refunds the gateway listed succeed.
LEMMA CompletePaid ==
  ASSUME NEW w, NEW p \in PaymentRecord, NEW S, S \subseteq RefundsIn(p, {"PENDING"}), S \subseteq gw.refunds,
         NEW r \in RefundId
  PROVE  LET status == CompleteRefunds(p, S).refunds[r].status IN
         /\ p.refunds = refunds => Rightly(w, r, status)
         /\ status = IF r \in S THEN "SUCCEEDED" ELSE p.refunds[r].status
<1> DEFINE rs == [x \in RefundId |-> IF x \in S THEN [p.refunds[x] EXCEPT !.status = "SUCCEEDED"] ELSE p.refunds[x]]
<1>1. CompleteRefunds(p, S).refunds = IF S = {} THEN p.refunds ELSE rs
  BY DEF CompleteRefunds, PaymentRecord
<1>2. rs[r].status = IF r \in S THEN "SUCCEEDED" ELSE p.refunds[r].status
  BY DEF PaymentRecord, Refund
<1> HIDE DEF rs
<1> QED
  BY <1>1, <1>2 DEF RefundsIn, Rightly

LEMMA CallbackPaid ==
  ASSUME FitInv, RefundInv, NEW w \in Worker, Callback(w)
  PROVE  RefundInv'
<1> DEFINE p == workers[w].p
<1>1. PICK n \in notifs : SaveAndFinish(w, AfterNotification(p, n))
  BY DEF Callback
<1> DEFINE S == Confirmed(p, n)
           a == CompleteRefunds(p, S)
           b == IF CanMarkPending(a) /\ n.status \in {"SETTLED", "FAILED"} THEN MarkPending(a) ELSE a
           q == AfterNotification(p, n)
<1>2. workers[w].pc = "loaded"
  BY DEF Callback, At
<1>3. p \in PaymentRecord /\ row.version > 0
  BY <1>2, Current
<1>4. S \subseteq RefundsIn(p, {"PENDING"}) /\ S \subseteq gw.refunds
  BY DEF Confirmed, RefundInv, NotifsPaid
<1>5. Follows(p, a) /\ Follows(p, q)
  BY <1>3, <1>4, CompleteRefundsFollows, AfterNotificationFollows
<1>6. q.refunds = a.refunds
  <2>1. a \in PaymentRecord
    BY <1>5 DEF Follows
  <2>2. b \in PaymentRecord /\ b.refunds = a.refunds
    <3> HIDE DEF a
    <3> QED
      BY <2>1, LifeCycleFollows, MethodsMove DEF Follows
  <2>3. q \in {b, MarkCompleted(b), MarkFailed(b)}
    BY DEF AfterNotification
  <2> HIDE DEF a, b, q
  <2> QED
    BY <2>2, <2>3, MethodsMove
<1>7. ASSUME q.version = row.version
      PROVE  Legal(q) /\ \A r \in RefundId : Rightly(w, r, q.refunds[r].status)
  <2>1. p.status = row.status /\ p.refunds = refunds /\ View = row.status
    BY <1>2, <1>5, <1>7, Current DEF Follows
  <2>2. Legal(q)
    BY <1>3, <2>1, NotificationMoves DEF Legal
  <2> HIDE DEF q
  <2> QED
    BY <1>3, <1>4, <1>6, <2>1, <2>2, CompletePaid
<1> HIDE DEF q
<1>8. SaveAndFinish(w, q) /\ q \in PaymentRecord
  BY <1>1, <1>5 DEF q, Follows
<1> QED
  BY <1>7, <1>8, SaveAndFinishPaid

LEMMA RefundReservePaid ==
  ASSUME FitInv, RefundInv, NEW w \in Worker, RefundReserve(w)
  PROVE  RefundInv'
<1> DEFINE p == workers[w].p
<1>1. PICK r \in RefundId, ref \in Reference, asked \in 0..Amount :
        LET amount == IF asked = 0 THEN RefundableAmount(p) ELSE asked
            q      == RequestRefund(p, r, ref, amount)
        IN  /\ refunds[r].status = "NONE" /\ p.refunds[r].status = "NONE"
            /\ CanRequestRefund(p, ref, amount)
            /\ Save(q)
            /\ workers' = [workers EXCEPT ![w].pc = "call", ![w].p = Saved(q), ![w].r = {r}]
  BY DEF RefundReserve
<1> DEFINE amount == IF asked = 0 THEN RefundableAmount(p) ELSE asked
           q      == RequestRefund(p, r, ref, amount)
<1>2. workers[w].pc = "loaded" /\ workers[w].op = "refund" /\ UNCHANGED <<age, outside>>
  BY DEF RefundReserve, At
<1>3. p \in PaymentRecord /\ workers[w] \in WorkerState
  BY WorkerType DEF FitInv
<1>4. q.refunds = [p.refunds EXCEPT ![r] = [status |-> "PENDING", amount |-> amount, ref |-> ref]]
      /\ q.version = p.version
  BY <1>3 DEF RequestRefund, PaymentRecord
<1>5. Save(q) /\ workers' = [workers EXCEPT ![w].pc = "call", ![w].p = Saved(q), ![w].r = {r}]
      /\ refunds[r].status = "NONE"
  BY <1>1
<1> HIDE DEF q, amount
<1>6. p.refunds = refunds /\ row'.version = row.version + 1
  BY <1>2, <1>4, <1>5, Current DEF Save, UpToDate
<1>7. \A s \in RefundId : refunds'[s] =
        IF s = r THEN [status |-> "PENDING", amount |-> amount, ref |-> ref] ELSE refunds[s]
  BY <1>4, <1>5, <1>6 DEF Save, Upserted, FitInv, IInv, TypeOK
<1>8. /\ workers'[w].pc = "call" /\ workers'[w].op = "refund" /\ workers'[w].r = {r} /\ Alone(w)
  BY <1>2, <1>3, <1>5 DEF Alone, FitInv, IInv, TypeOK, WorkerState
<1>9. refunds[r].status = "NONE" /\ r \notin gw.refunds /\ age[r] = 0
  BY <1>5 DEF RefundInv, PaidRight, Unborn, ReservedStatus
<1>10. UNCHANGED <<age, gw>>
  BY <1>2 DEF outside
<1>11. (Owned(workers[w]) /\ Looked(workers[w]))'
  BY <1>7, <1>8, <1>9, <1>10, AgesAssumption DEF Owned, Old, Looked
<1>12. Apart'
  <2> SUFFICES ASSUME NEW u \in Worker, NEW v \in Worker, u # v
               PROVE  /\ workers'[u].r \cap workers'[v].r = {}
                      /\ ~(Reconciling(u)' /\ Reconciling(v)')
    BY DEF Apart
  <2>1. \A x \in Worker : /\ x # w => workers'[x] = workers[x] /\ r \notin workers[x].r
                          /\ Reconciling(x)' <=> Reconciling(x)
    BY <1>2, <1>8, <1>9 DEF Alone, Reconciling, RefundInv, Owned
  <2>2. workers[u].r \cap workers[v].r = {} /\ ~(Reconciling(u) /\ Reconciling(v))
    BY DEF RefundInv, Apart
  <2> QED
    BY <1>8, <2>1, <2>2
<1>13. \A s \in RefundId : Rightly(w, s, refunds'[s].status)
  BY <1>7, <1>9 DEF Rightly
<1> QED
  BY <1>2, <1>6, <1>8, <1>11, <1>12, <1>13, SavePaid

\* The gateway pays a refund of w's, or one it sends again.
LEMMA AcceptPays ==
  ASSUME FitInv, NEW w \in Worker, NEW r \in RefundId, AcceptRefund(r), refunds[r].status = "PENDING",
         r \in workers[w].r \/ (Old(r) /\ workers[w].op = "refunds")
  PROVE  Pays(w) /\ gw'.refunds = gw.refunds \cup {r}
<1>1. gw' = [gw EXCEPT !.refunds = @ \cup {r}] /\ notifs' = notifs \cup {ReportOf(gw')}
  BY DEF AcceptRefund, GatewayBecomes
<1>2. gw'.refunds = gw.refunds \cup {r}
  BY <1>1 DEF FitInv, IInv, TypeOK, GatewayTx
<1> QED
  BY <1>1, <1>2 DEF Pays, ReportOf

LEMMA RefundCallPaid ==
  ASSUME FitInv, RefundInv, NEW w \in Worker, RefundCall(w)
  PROVE  RefundInv'
<1>1. workers[w].pc = "call" /\ workers[w].op = "refund" /\ UNCHANGED <<stored, age>>
  BY DEF RefundCall, At
<1>2. PICK r \in workers[w].r :
        \/ /\ AcceptRefund(r)
           /\ workers' = [workers EXCEPT ![w].pc = "decided", ![w].accepted = TRUE] \/ Finish(w)
        \/ /\ CanDeclineRefund(r) /\ UNCHANGED outside
           /\ workers' = [workers EXCEPT ![w].pc = "decided", ![w].accepted = FALSE]
  BY DEF RefundCall
<1>3. /\ r \in RefundId /\ workers[w] \in WorkerState /\ workers[w].r = {r}
      /\ refunds[r].status = "PENDING" /\ r \notin gw.refunds /\ ~Old(r)
  BY <1>1, WorkerType DEF FitInv, RefundInv, Owned
<1>4. Pays(w) /\ (AcceptRefund(r) => r \in gw'.refunds) /\ (UNCHANGED outside => r \notin gw'.refunds)
  <2>1. CASE AcceptRefund(r)
    <3>1. Pays(w) /\ r \in gw'.refunds
      BY <1>3, <2>1, AcceptPays
    <3>2. ~UNCHANGED outside
      BY <1>3, <3>1 DEF outside
    <3> QED
      BY <3>1, <3>2
  <2>2. CASE ~AcceptRefund(r)
    BY <1>2, <1>3, <2>2, NothingPaid
  <2> QED
    BY <2>1, <2>2
<1>5. CASE Finish(w)
  BY <1>1, <1>4, <1>5, FinishPaid
<1>6. ASSUME NEW accepted \in BOOLEAN, accepted <=> r \in gw'.refunds,
             workers' = [workers EXCEPT ![w].pc = "decided", ![w].accepted = accepted]
      PROVE  RefundInv'
  <2>1. /\ workers'[w].pc = "decided" /\ workers'[w].op = "refund" /\ workers'[w].r = {r}
        /\ workers'[w].accepted = accepted /\ Alone(w)
    BY <1>1, <1>3, <1>6 DEF Alone, FitInv, IInv, TypeOK, WorkerState
  <2>2. UNCHANGED <<refunds, age>>
    BY <1>1 DEF stored
  <2>3. (Owned(workers[w]) /\ Looked(workers[w]))' /\ Humble(w)
    BY <1>1, <1>3, <1>6, <2>1, <2>2 DEF Owned, Old, Looked, Humble, Reconciling
  <2> QED
    BY <1>1, <1>4, <2>1, <2>3, KeepPaid
<1> QED
  BY <1>2, <1>4, <1>5, <1>6

LEMMA OutcomePaid ==
  ASSUME FitInv, RefundInv, NEW w \in Worker, workers[w].pc \in {"loaded", "decided"},
         NEW r \in workers[w].r, CanApplyOutcome(workers[w].p, r, workers[w].accepted),
         SaveAndFinish(w, ApplyOutcome(workers[w].p, r, workers[w].accepted))
  PROVE  RefundInv'
<1> DEFINE p == workers[w].p
           yes == workers[w].accepted
           q == ApplyOutcome(p, r, yes)
<1>1. r \in RefundId /\ p \in PaymentRecord /\ row.version > 0 /\ yes \in BOOLEAN
  BY WorkerType, Current DEF FitInv, WorkerState
<1>2. yes <=> r \in gw.refunds
  BY DEF RefundInv, Owned
<1>3. Follows(p, q)
  BY <1>1, ApplyOutcomeFollows
<1>4. p.version = row.version => p.refunds = refunds /\ Legal(q)
  BY <1>1, Current, OutcomeSettles DEF Legal
<1>5. \A s \in RefundId : p.refunds = refunds => Rightly(w, s, q.refunds[s].status)
  <2>1. CASE yes
    <3> DEFINE S == {r} \cap RefundsIn(p, {"PENDING"})
    <3>1. S \subseteq RefundsIn(p, {"PENDING"}) /\ S \subseteq gw.refunds
      BY <1>2, <2>1
    <3>2. q.refunds = CompleteRefunds(p, S).refunds
      BY <2>1 DEF ApplyOutcome, CompleteRefund
    <3> HIDE DEF q, p, yes, S
    <3>3. ASSUME NEW s \in RefundId, p.refunds = refunds
          PROVE  Rightly(w, s, CompleteRefunds(p, S).refunds[s].status)
      BY <1>1, <3>1, <3>3, CompletePaid
    <3> QED
      BY <3>2, <3>3
  <2>2. CASE ~yes
    <3>1. CanFailRefund(p, r) /\ q.refunds = [p.refunds EXCEPT ![r].status = "FAILED"]
      BY <1>1, <2>2 DEF CanApplyOutcome, ApplyOutcome, FailRefund, PaymentRecord
    <3>2. \A s \in RefundId : q.refunds[s].status = IF s = r THEN "FAILED" ELSE p.refunds[s].status
      <4>1. p.refunds \in [RefundId -> Refund]
        BY <1>1 DEF PaymentRecord
      <4> HIDE DEF q
      <4> QED
        BY <1>1, <3>1, <4>1 DEF Refund
    <3> HIDE DEF q
    <3> QED
      BY <1>2, <2>2, <3>1, <3>2 DEF Rightly, CanFailRefund
  <2> QED
    BY <1>1, <2>1, <2>2
<1> HIDE DEF q
<1>6. SaveAndFinish(w, q) /\ q \in PaymentRecord /\ q.version = p.version
  BY <1>3 DEF q, Follows
<1> QED
  BY <1>4, <1>5, <1>6, SaveAndFinishPaid

LEMMA RefundOutcomePaid ==
  ASSUME FitInv, RefundInv, NEW w \in Worker, RefundOutcome(w)
  PROVE  RefundInv'
<1>1. workers[w].pc = "decided" /\ workers[w].op = "refund"
  BY DEF RefundOutcome, At
<1>2. PICK r \in workers[w].r :
        /\ CanApplyOutcome(workers[w].p, r, workers[w].accepted)
        /\ \/ SaveAndFinish(w, ApplyOutcome(workers[w].p, r, workers[w].accepted))
           \/ /\ workers' = [workers EXCEPT ![w].pc = "reload"]
              /\ UNCHANGED <<stored, age, outside>>
  BY DEF RefundOutcome
<1>3. CASE SaveAndFinish(w, ApplyOutcome(workers[w].p, r, workers[w].accepted))
  BY <1>1, <1>2, <1>3, OutcomePaid
<1>4. CASE workers' = [workers EXCEPT ![w].pc = "reload"] /\ UNCHANGED <<stored, age, outside>>
  <2>1. /\ workers'[w].pc = "reload" /\ workers'[w].op = workers[w].op /\ workers'[w].r = workers[w].r
        /\ workers'[w].accepted = workers[w].accepted /\ Alone(w)
    BY <1>4 DEF Alone, FitInv, IInv, TypeOK, WorkerState
  <2> QED
    BY <1>1, <1>4, <2>1, NothingPaid, GoOnPaid
<1> QED
  BY <1>2, <1>3, <1>4

LEMMA OutcomeReloadPaid ==
  ASSUME FitInv, RefundInv, NEW w \in Worker, OutcomeReload(w)
  PROVE  RefundInv'
<1>1. workers[w].pc = "reload" /\ workers[w].op = "refund" /\ UNCHANGED <<stored, age, outside>>
  BY DEF OutcomeReload, At
<1>2. /\ workers'[w].pc = "row" /\ workers'[w].op = "outcome" /\ workers'[w].r = workers[w].r
      /\ workers'[w].accepted = workers[w].accepted /\ Alone(w)
  BY DEF OutcomeReload, Alone, FitInv, IInv, TypeOK, WorkerState
<1> QED
  BY <1>1, <1>2, NothingPaid, GoOnPaid

\* A pass over charges pays nothing.
LEMMA ChargePaid ==
  ASSUME FitInv, RefundInv, NEW w \in Worker, ChargeLookup(w) \/ ChargeCancel(w)
  PROVE  RefundInv'
<1>1. workers[w].op = "charge" /\ workers[w].pc \in {"loaded", "cancel"} /\ UNCHANGED <<stored, age>>
  BY DEF ChargeLookup, ChargeCancel, At
<1>2. Pays(w) /\ gw'.refunds = gw.refunds
  <2>1. UNCHANGED outside \/ GatewayBecomes([gw EXCEPT !.status = "cancel"])
    BY DEF ChargeLookup, ChargeCancel
  <2> QED
    BY <2>1, NothingPaid
<1>3. CASE Finish(w)
  BY <1>1, <1>2, <1>3, FinishPaid
<1>4. CASE ~Finish(w)
  <2>1. PICK pc \in {"save", "cancel"} : \E p : workers' = [workers EXCEPT ![w].pc = pc, ![w].p = p]
    BY <1>4 DEF ChargeLookup, ChargeCancel
  <2>2. /\ workers'[w].pc # "call" /\ workers'[w].op = workers[w].op /\ workers'[w].r = workers[w].r
        /\ workers'[w].accepted = workers[w].accepted /\ Alone(w)
    BY <2>1 DEF Alone, FitInv, IInv, TypeOK, WorkerState
  <2> QED
    BY <1>1, <1>2, <2>2, GoOnPaid
<1> QED
  BY <1>3, <1>4

\* A pass looks its refunds up: what the gateway lists succeeds, and what it does
\* not list is still unpaid.
LEMMA RefundsLookupPaid ==
  ASSUME FitInv, RefundInv, Misreported = {}, NEW w \in Worker, RefundsLookup(w)
  PROVE  RefundInv'
<1> DEFINE p == workers[w].p
           S == Confirmed(p, ReportOf(gw))
           q == CompleteRefunds(p, S)
           todo == {r \in RefundsIn(q, {"PENDING"}) : age[r] \in RefundRetryAfter..(RefundGiveUpAfter - 1)}
<1>1. workers[w].pc = "loaded" /\ workers[w].op = "refunds" /\ UNCHANGED <<stored, age, outside>>
  BY DEF RefundsLookup, At
<1>2. p \in PaymentRecord /\ (p.version = row.version => p.refunds = refunds)
  BY <1>1, Current
<1>3. S = gw.refunds \cap RefundsIn(p, {"PENDING"})
  BY DEF Confirmed, ReportOf
<1>4. \A r \in RefundId : q.refunds[r].status = IF r \in S THEN "SUCCEEDED" ELSE p.refunds[r].status
  BY <1>2, <1>3, CompletePaid
<1>5. q.version = p.version
  BY <1>2, <1>3, CompleteRefundsFollows DEF Follows
<1>6. workers' = [workers EXCEPT ![w].pc = "resend", ![w].p = q, ![w].todo = todo]
  BY DEF RefundsLookup
<1>7. todo = {r \in RefundId : q.refunds[r].status = "PENDING" /\ age[r] \in RefundRetryAfter..(RefundGiveUpAfter - 1)}
  BY DEF RefundsIn
<1>8. \A r \in todo : r \in RefundId /\ q.refunds[r].status = "PENDING" /\ Old(r)
  BY <1>7, AgesAssumption DEF Old
<1> HIDE DEF q, S, todo
<1>9. /\ workers'[w].pc = "resend" /\ workers'[w].op = "refunds" /\ workers'[w].r = workers[w].r
      /\ workers'[w].accepted = workers[w].accepted /\ workers'[w].p = q /\ workers'[w].todo = todo
      /\ Alone(w)
  BY <1>1, <1>6 DEF Alone, FitInv, IInv, TypeOK, WorkerState
<1>10. UNCHANGED <<row, refunds, age, gw>>
  BY <1>1 DEF stored, outside
<1>11. Owned(workers[w]) /\ Looked(workers[w])
  BY DEF RefundInv
<1>12. Owned(workers[w])' /\ Humble(w)
  BY <1>1, <1>9, <1>10, <1>11 DEF Owned, Old, Humble, Reconciling
<1>13. \A r \in todo : refunds[r].status = "PENDING" /\ r \notin gw.refunds
  <2> SUFFICES ASSUME NEW r \in todo PROVE refunds[r].status = "PENDING" /\ r \notin gw.refunds
    OBVIOUS
  <2>1. r \notin S /\ p.refunds[r].status = "PENDING"
    BY <1>4, <1>8
  <2>2. r \notin gw.refunds
    BY <1>3, <1>8, <2>1 DEF RefundsIn
  <2>3. refunds[r].status \in ReservedStatus
    BY <1>1, <1>8, <1>11, <2>1 DEF Looked
  <2> QED
    BY <1>8, <2>2, <2>3 DEF RefundInv, PaidRight, ReservedStatus
<1>14. ASSUME p.version = row.version, NEW r \in RefundId
       PROVE  /\ q.refunds[r].status = "SUCCEEDED" => r \in gw.refunds
              /\ q.refunds[r].status = "FAILED" => r \notin gw.refunds /\ refunds[r].status = "FAILED"
  <2>1. /\ refunds[r].status = "SUCCEEDED" => r \in gw.refunds
        /\ refunds[r].status = "FAILED" => r \notin gw.refunds
    BY DEF RefundInv, PaidRight, ReservedStatus
  <2> QED
    BY <1>2, <1>3, <1>4, <1>14, <2>1
<1>15. Looked(workers[w])'
  BY <1>5, <1>8, <1>9, <1>10, <1>13, <1>14 DEF Looked, Old
<1> QED
  BY <1>1, <1>9, <1>12, <1>15, NothingPaid, KeepPaid

LEMMA RefundsResendPaid ==
  ASSUME FitInv, RefundInv, NEW w \in Worker, RefundsResend(w)
  PROVE  RefundInv'
<1> DEFINE p == workers[w].p
<1>1. workers[w].pc = "resend" /\ workers[w].op = "refunds" /\ UNCHANGED <<stored, age>>
  BY DEF RefundsResend, At
<1>2. p \in PaymentRecord /\ workers[w].todo \subseteq RefundId
  BY WorkerType DEF FitInv
<1>3. PICK r \in workers[w].todo : \E q :
        /\ Resent(w, r, q)
        /\ \/ AcceptRefund(r) /\ q \in {p, CompleteRefund(p, r)}
           \/ UNCHANGED outside /\ q = p
           \/ UNCHANGED outside /\ CanFailRefund(p, r) /\ q = FailRefund(p, r)
  BY DEF RefundsResend
<1>4. PICK q :
        /\ Resent(w, r, q)
        /\ \/ AcceptRefund(r) /\ q \in {p, CompleteRefund(p, r)}
           \/ UNCHANGED outside /\ q = p
           \/ UNCHANGED outside /\ CanFailRefund(p, r) /\ q = FailRefund(p, r)
  BY <1>3
<1>5. Owned(workers[w]) /\ Looked(workers[w])
  BY DEF RefundInv
<1>6. r \in RefundId /\ refunds[r].status = "PENDING" /\ p.refunds[r].status = "PENDING" /\ Old(r) /\ r \notin gw.refunds
  BY <1>1, <1>2, <1>5 DEF Looked
<1>7. /\ workers'[w].pc = "resend" /\ workers'[w].op = "refunds" /\ workers'[w].r = workers[w].r
      /\ workers'[w].accepted = workers[w].accepted /\ workers'[w].p = q
      /\ workers'[w].todo = workers[w].todo \ {r} /\ Alone(w)
  BY <1>1, <1>4 DEF Resent, Alone, FitInv, IInv, TypeOK, WorkerState
<1>8. /\ q.version = p.version
      /\ \A s \in RefundId \ {r} : q.refunds[s].status = p.refunds[s].status
  <2>1. p.refunds \in [RefundId -> Refund]
    BY <1>2 DEF PaymentRecord
  <2>2. CASE q = CompleteRefund(p, r)
    <3> DEFINE S == {r} \cap RefundsIn(p, {"PENDING"})
               rs == [x \in RefundId |-> IF x \in S THEN [p.refunds[x] EXCEPT !.status = "SUCCEEDED"] ELSE p.refunds[x]]
    <3>1. q.version = p.version
      BY <1>2, <1>6, <2>2, CompleteRefundFollows DEF Follows
    <3>2. q.refunds = IF S = {} THEN p.refunds ELSE rs
      BY <1>2, <2>2 DEF CompleteRefund, CompleteRefunds, PaymentRecord
    <3> QED
      BY <3>1, <3>2
  <2>3. CASE q = FailRefund(p, r)
    BY <1>2, <1>6, <2>1, <2>3 DEF FailRefund, PaymentRecord
  <2> QED
    BY <1>4, <2>2, <2>3
<1>9. /\ Pays(w)
      /\ gw'.refunds = IF AcceptRefund(r) THEN gw.refunds \cup {r} ELSE gw.refunds
  <2>1. CASE AcceptRefund(r)
    BY <1>1, <1>6, <2>1, AcceptPays
  <2>2. CASE ~AcceptRefund(r)
    BY <1>4, <2>2, NothingPaid
  <2> QED
    BY <2>1, <2>2
<1>10. /\ q.refunds[r].status = "SUCCEEDED" => r \in gw'.refunds
       /\ q.refunds[r].status = "FAILED" => r \notin gw'.refunds
  <2>1. q = p => q.refunds[r].status = "PENDING"
    BY <1>6
  <2>2. CASE AcceptRefund(r) /\ q = CompleteRefund(p, r)
    <3>1. q.refunds[r].status = "SUCCEEDED"
      <4> DEFINE S == {r} \cap RefundsIn(p, {"PENDING"})
      <4>1. r \in S /\ q = CompleteRefunds(p, S)
        BY <1>6, <2>2 DEF RefundsIn, CompleteRefund
      <4>2. CompleteRefunds(p, S).refunds[r] = [p.refunds[r] EXCEPT !.status = "SUCCEEDED"]
        BY <1>2, <1>6, <4>1 DEF CompleteRefunds, PaymentRecord
      <4>3. p.refunds[r] \in Refund
        BY <1>2, <1>6 DEF PaymentRecord
      <4> QED
        BY <4>1, <4>2, <4>3 DEF Refund
    <3> QED
      BY <1>9, <2>2, <3>1
  <2>3. CASE UNCHANGED outside /\ q = FailRefund(p, r)
    <3>1. q.refunds[r].status = "FAILED"
      BY <1>2, <1>6, <2>3 DEF FailRefund, PaymentRecord, Refund
    <3>2. gw' = gw
      BY <2>3 DEF outside
    <3> QED
      BY <1>6, <3>1, <3>2
  <2> QED
    BY <1>4, <2>1, <2>2, <2>3
<1>11. UNCHANGED <<row, refunds, age>>
  BY <1>1 DEF stored
<1>12. Owned(workers[w])' /\ Humble(w)
  <2>1. \A s \in workers[w].r : s # r
    BY <1>5, <1>6 DEF Owned
  <2> QED
    BY <1>1, <1>5, <1>7, <1>9, <1>11, <2>1 DEF Owned, Old, Humble, Reconciling
<1> HIDE DEF p
<1>13. \A s \in workers[w].todo \ {r} :
         /\ q.refunds[s].status = "PENDING" /\ refunds[s].status = "PENDING" /\ Old(s) /\ s \notin gw'.refunds
  BY <1>1, <1>2, <1>5, <1>8, <1>9 DEF Looked, p
<1>14. ASSUME p.version = row.version, NEW s \in RefundId
       PROVE  /\ q.refunds[s].status = "SUCCEEDED" => s \in gw'.refunds
              /\ q.refunds[s].status = "FAILED" => s \notin gw'.refunds /\ (refunds[s].status = "FAILED" \/ Old(s))
  <2>1. CASE s = r
    BY <1>6, <1>10, <2>1
  <2>2. CASE s # r
    BY <1>1, <1>5, <1>8, <1>9, <1>14, <2>2 DEF Looked, p
  <2> QED
    BY <2>1, <2>2
<1>15. Looked(workers[w])'
  BY <1>7, <1>8, <1>11, <1>13, <1>14 DEF Looked, Old
<1> QED
  BY <1>1, <1>7, <1>9, <1>12, <1>15, KeepPaid

LEMMA RefundsSavePaid ==
  ASSUME FitInv, RefundInv, NEW w \in Worker, RefundsSave(w)
  PROVE  RefundInv'
<1> DEFINE p == workers[w].p
<1>1. /\ workers[w].pc = "resend" /\ workers[w].op = "refunds" /\ ~IsIdle(w) /\ SaveAndFinish(w, p)
      /\ p \in PaymentRecord /\ refunds \in [RefundId -> Refund]
  BY WorkerType DEF RefundsSave, At, IsIdle, FitInv, IInv, TypeOK
<1>2. Fits(workers[w]) /\ Known(workers[w])
  BY <1>1 DEF FitInv
<1>3. Looked(workers[w])
  BY DEF RefundInv
<1>4. ASSUME p.version = row.version
      PROVE  Legal(p) /\ \A r \in RefundId : Rightly(w, r, p.refunds[r].status)
  <2>1. Settles(row.status, refunds, p.status, p.refunds) /\ row.version > 0
    BY <1>1, <1>2, <1>4 DEF Fits, Known
  <2>2. PICK yes \in SUBSET Pending(refunds), no \in SUBSET Pending(refunds) : p.refunds = Settled(refunds, yes, no)
    BY <2>1 DEF Settles
  <2>3. ASSUME NEW r \in RefundId PROVE Rightly(w, r, p.refunds[r].status)
    <3> HIDE DEF p
    <3>1. /\ p.refunds[r].status = IF r \in yes THEN "SUCCEEDED" ELSE IF r \in no THEN "FAILED" ELSE refunds[r].status
          /\ r \in yes \cup no => refunds[r].status = "PENDING"
      <4>1. r \in yes \cup no => refunds[r].status = "PENDING"
        BY <2>2 DEF Pending
      <4>2. Settled(refunds, yes, no)[r].status
              = IF r \in yes THEN "SUCCEEDED" ELSE IF r \in no THEN "FAILED" ELSE refunds[r].status
        BY <1>1, SettledFacts
      <4> QED
        BY <2>2, <4>1, <4>2
    <3>2. /\ p.refunds[r].status = "SUCCEEDED" => r \in gw.refunds
          /\ p.refunds[r].status = "FAILED" => r \notin gw.refunds /\ (refunds[r].status = "FAILED" \/ Old(r))
      BY <1>1, <1>3, <1>4 DEF Looked, p
    <3> QED
      BY <1>1, <3>1, <3>2 DEF Rightly, Reconciling
  <2> QED
    BY <2>1, <2>3 DEF Legal
<1> HIDE DEF p
<1> QED
  BY <1>1, <1>4, SaveAndFinishPaid

-----------------------------------------------------------------------------
(* The specification keeps RefundInv. *)

LEMMA StepPaid ==
  ASSUME FitInv, RefundInv, ~ReconcilerOverlap, Misreported = {}, NEW w \in Worker, Step(w)
  PROVE  RefundInv'
<1>1. CASE BeginRequest(w)
  <2>1. PICK op \in {"cancel", "expire", "callback", "refund"} : ReadRow(w, op)
    BY <1>1 DEF BeginRequest
  <2> QED
    BY <1>1, <2>1, ReadRowPaid DEF BeginRequest
<1>2. CASE BeginReconcileRefunds(w)
  BY <1>2, ReadRowPaid DEF BeginReconcileRefunds, PassAllowed
<1>3. CASE BeginReconcileCharge(w)
  BY <1>3, FindUnpaidPaid DEF BeginReconcileCharge, PassAllowed
<1>4. CASE BeginExpiry(w)
  BY <1>4, FindUnpaidPaid DEF BeginExpiry
<1>5. CASE Abandon(w)
  BY <1>5, NothingPaid, FinishPaid DEF Abandon
<1>6. CASE OutcomeRetry(w)
  BY <1>6, OutcomePaid DEF OutcomeRetry, At
<1> QED
  BY <1>1, <1>2, <1>3, <1>4, <1>5, <1>6, ReadRefundsPaid, CreateChargePaid, PreparedPaid, CancelCallPaid,
     ExpirePaid, CallbackPaid, RefundReservePaid, RefundCallPaid, RefundOutcomePaid, OutcomeReloadPaid,
     ChargePaid, RefundsLookupPaid, RefundsResendPaid, RefundsSavePaid DEF Step

\* A refund only grows old once its request is over.
LEMMA GrowOlderPaid ==
  ASSUME FitInv, RefundInv, NEW r \in RefundId, GrowOlder(r)
  PROVE  RefundInv'
<1>1. /\ UNCHANGED <<row, refunds, gw, notifs, workers>> /\ refunds[r].status = "PENDING"
      /\ age[r] + 1 = RefundRetryAfter => \A w \in Worker : r \notin workers[w].r
      /\ \A s \in RefundId : age'[s] = (IF s = r THEN age[r] + 1 ELSE age[s]) /\ age[s] \in Nat
  <2>1. OldestAge \in Nat /\ age \in [RefundId -> 0..OldestAge]
    BY AgesAssumption DEF OldestAge, FitInv, IInv, TypeOK
  <2> QED
    BY <2>1 DEF GrowOlder, stored, outside
<1>2. \A s \in RefundId : Old(s) => Old(s)'
  BY <1>1, AgesAssumption DEF Old
<1>3. \A s \in RefundId : Old(s)' => Old(s) \/ (s = r /\ \A w \in Worker : r \notin workers[w].r)
  BY <1>1, AgesAssumption DEF Old
<1>4. ASSUME NEW w \in Worker PROVE (Owned(workers[w]) /\ Looked(workers[w]))'
  <2>1. Owned(workers[w]) /\ Looked(workers[w]) /\ workers[w].r \subseteq RefundId /\ workers[w].todo \subseteq RefundId
    BY WorkerType DEF RefundInv, FitInv
  <2>2. Owned(workers[w])'
    BY <1>1, <1>3, <2>1 DEF Owned
  <2>3. Looked(workers[w])'
    BY <1>1, <1>2, <1>3, <2>1 DEF Looked, ReservedStatus
  <2> QED
    BY <2>2, <2>3
<1>5. (PaidRight /\ NotifsPaid /\ Apart /\ Unborn)'
  BY <1>1 DEF RefundInv, PaidRight, NotifsPaid, Apart, Unborn, Reconciling
<1> QED
  BY <1>4, <1>5 DEF RefundInv

\* A step of the world around PayGate pays no refund of PayGate's.
LEMMA OutsidePaid ==
  ASSUME FitInv, RefundInv, UNCHANGED <<stored, age, workers>>, gw'.refunds = gw.refunds,
         \A n \in notifs' : n \in notifs \/ n.refunds = gw'.refunds
  PROVE  RefundInv'
BY DEF RefundInv, PaidRight, NotifsPaid, Apart, Unborn, Owned, Looked, Old, Reconciling, stored

LEMMA NextPaid ==
  ASSUME ~ReconcilerOverlap, Misreported = {}
  PROVE  FitInv /\ RefundInv /\ [Next]_vars => RefundInv'
<1> SUFFICES ASSUME FitInv, RefundInv, [Next]_vars PROVE RefundInv'
  OBVIOUS
<1>1. ASSUME NEW w \in Worker, Step(w) PROVE RefundInv'
  BY <1>1, StepPaid
<1>2. ASSUME NEW r \in RefundId, GrowOlder(r) PROVE RefundInv'
  BY <1>2, GrowOlderPaid
<1>3. CASE GatewaySettles \/ RefundInDashboard \/ UNCHANGED vars
  <2>1. UNCHANGED <<stored, age, workers>>
    BY <1>3 DEF GatewaySettles, RefundInDashboard, vars, stored
  <2>2. gw'.refunds = gw.refunds /\ \A n \in notifs' : n \in notifs \/ n.refunds = gw'.refunds
    BY <1>3 DEF GatewaySettles, RefundInDashboard, GatewayBecomes, ReportOf, vars, FitInv, IInv, TypeOK, GatewayTx
  <2> QED
    BY <2>1, <2>2, OutsidePaid
<1> QED
  BY <1>1, <1>2, <1>3 DEF Next

LEMMA InitPaid == Init => RefundInv
<1> SUFFICES ASSUME Init PROVE RefundInv
  OBVIOUS
<1>1. \A w \in Worker : workers[w] = Idle
  BY DEF Init
<1>2. Idle.r = {} /\ Idle.op = "none"
  BY DEF Idle
<1> QED
  BY <1>1, <1>2 DEF Init, RefundInv, PaidRight, NotifsPaid, Apart, Unborn, Owned, Looked, Reconciling,
     NoRefunds, NoRefund, ReservedStatus

LEMMA AlwaysPaid ==
  ASSUME ~ReconcilerOverlap, Misreported = {}
  PROVE  Spec => [](FitInv /\ RefundInv)
<1>1. Init => FitInv /\ RefundInv
  BY InitFits, InitPaid
<1>2. FitInv /\ RefundInv /\ [Next]_vars => FitInv' /\ RefundInv'
  BY NextFits, NextPaid
<1> QED
  BY <1>1, <1>2, PTL DEF Spec

\* As long as one reconciliation pass runs at a time (the lock) and no refund is
\* reported with another amount, a stored outcome of a refund is the gateway's,
\* whatever replies are lost, whoever retries, and however stale a copy is.
THEOREM RefundNeverMisstated ==
  ASSUME ~ReconcilerOverlap, Misreported = {}
  PROVE  Spec => []RefundAgreesWithGateway
<1>1. RefundInv => RefundAgreesWithGateway
  BY DEF RefundInv, PaidRight, RefundAgreesWithGateway, ReservedStatus
<1> QED
  BY <1>1, AlwaysPaid, PTL

\* Under the same conditions the gateway, which checks no amounts here, is never
\* made to pay back more than the customer paid: the reservations see to it.
THEOREM NeverPaidOutTooMuch ==
  ASSUME ~ReconcilerOverlap, Misreported = {}
  PROVE  Spec => []PaidOutWithinAmount
<1>1. FitInv /\ RefundInv => PaidOutWithinAmount
  <2> SUFFICES ASSUME FitInv, RefundInv PROVE PaidOutWithinAmount
    OBVIOUS
  <2>1. PaidOut(gw) \in SUBSET Units(refunds, ReservedStatus)
    BY DEF PaidOut, Units, RefundInv, PaidRight
  <2>2. IsFiniteSet(Units(refunds, ReservedStatus)) /\ Total(refunds, ReservedStatus) \in Nat
    BY TotalType
  <2>3. IsFiniteSet(PaidOut(gw)) /\ Cardinality(PaidOut(gw)) <= Total(refunds, ReservedStatus)
    BY <2>1, <2>2, FS_Subset DEF Total
  <2>4. Cardinality(PaidOut(gw)) \in Nat
    BY <2>3, FS_CardinalityType
  <2>5. Total(refunds, ReservedStatus) <= Amount
    BY DEF FitInv, IInv, CopiesSound, NoOverRefund
  <2> QED
    BY <2>2, <2>3, <2>4, <2>5, AmountAssumption DEF PaidOutWithinAmount
<1> QED
  BY <1>1, AlwaysPaid, PTL

-----------------------------------------------------------------------------
(* The event log.  A fold goes through a sequence of any length, so this   *)
(* needs induction.  The library's induction theorems take a predicate as  *)
(* a parameter, which the provers cannot instantiate; that < is well       *)
(* founded on Nat has none, and gives induction over sets of numbers.      *)

(* Induction, and what a fold over a sequence is. *)

Below == {p \in Nat \X Nat : p[1] < p[2]}

LEMMA BelowIsWellFounded == IsWellFoundedOn(Below, Nat)
<1>1. \A f \in [Nat -> Nat] : \E n \in Nat : ~(f[n + 1] < f[n])
  BY NatLessThanWellFounded DEF OpToRel, IsWellFoundedOn
<1> QED
  BY <1>1 DEF Below, IsWellFoundedOn

LEMMA Counting ==
  ASSUME NEW T \in SUBSET Nat, 0 \in T, \A n \in T : n + 1 \in T
  PROVE  T = Nat
<1> SUFFICES ASSUME Nat \ T # {} PROVE FALSE
  OBVIOUS
<1>1. PICK n \in Nat \ T : \A m \in Nat \ T : <<m, n>> \notin Below
  BY BelowIsWellFounded, WFMin
<1>2. n # 0 /\ n - 1 \in Nat /\ n - 1 < n
  BY <1>1
<1>3. n - 1 \in T
  BY <1>1, <1>2 DEF Below
<1> QED
  BY <1>1, <1>2, <1>3

LEMMA Topmost ==
  ASSUME NEW n \in Nat, NEW d \in SUBSET (1..(n + 1)), n + 1 \in d
  PROVE  Max(d) = n + 1
<1>1. \A x \in d : x \in Nat /\ n + 1 >= x
  OBVIOUS
<1>2. \A m \in d : (\A x \in d : m >= x) => m = n + 1
  BY <1>1
<1> QED
  BY <1>1, <1>2 DEF Max

\* How FoldLeft goes through a sequence: from its last element down.
Unfolding(s, n, f) ==
  f = [d \in SUBSET (1..n) |-> IF d = {} THEN Absent ELSE Apply(f[d \ {Max(d)}], s[Max(d)])]

LEMMA UnfoldingExists ==
  ASSUME NEW s, NEW n \in Nat
  PROVE  \E f : Unfolding(s, n, f)
<1> DEFINE T == {m \in Nat : \E f : Unfolding(s, m, f)}
<1>1. 0 \in T
  <2> DEFINE f == [d \in SUBSET (1..0) |-> Absent]
  <2>1. \A d \in SUBSET (1..0) : d = {}
    OBVIOUS
  <2>2. Unfolding(s, 0, f)
    BY <2>1 DEF Unfolding
  <2> QED
    BY <2>2
<1>2. ASSUME NEW m \in T PROVE m + 1 \in T
  <2>1. PICK f : Unfolding(s, m, f)
    BY <1>2
  <2> DEFINE g == [d \in SUBSET (1..(m + 1)) |->
                     IF m + 1 \in d THEN Apply(f[d \ {m + 1}], s[m + 1]) ELSE f[d]]
  <2>2. ASSUME NEW d \in SUBSET (1..(m + 1))
        PROVE  g[d] = IF d = {} THEN Absent ELSE Apply(g[d \ {Max(d)}], s[Max(d)])
    <3>1. CASE m + 1 \in d
      <4>1. Max(d) = m + 1
        BY <3>1, Topmost
      <4>2. d \ {m + 1} \in SUBSET (1..(m + 1)) /\ g[d \ {m + 1}] = f[d \ {m + 1}]
        OBVIOUS
      <4> QED
        BY <3>1, <4>1, <4>2
    <3>2. CASE m + 1 \notin d
      <4>1. d \in SUBSET (1..m) /\ g[d] = f[d]
        BY <3>2
      <4>2. f[d] = IF d = {} THEN Absent ELSE Apply(f[d \ {Max(d)}], s[Max(d)])
        BY <2>1, <4>1 DEF Unfolding
      <4>3. d \ {Max(d)} \in SUBSET (1..(m + 1)) /\ g[d \ {Max(d)}] = f[d \ {Max(d)}]
        BY <3>2
      <4> QED
        BY <4>1, <4>2, <4>3
    <3> QED
      BY <3>1, <3>2
  <2>3. Unfolding(s, m + 1, g)
    BY <2>2 DEF Unfolding
  <2> QED
    BY <2>3
<1> HIDE DEF T
<1>3. T = Nat
  BY <1>1, <1>2, Counting DEF T
<1> QED
  BY <1>3 DEF T

\* A fold is the last of the values it goes through.
LEMMA FoldEnds ==
  ASSUME NEW n \in Nat, NEW s, DOMAIN s = 1..n,
         NEW g, g[0] = Absent, \A i \in 1..n : g[i] = Apply(g[i - 1], s[i])
  PROVE  FoldLeft(Apply, Absent, s) = g[n]
<1> DEFINE f == CHOOSE f : Unfolding(s, n, f)
<1>1. FoldLeft(Apply, Absent, s) = f[1..n]
  BY DEF FoldLeft, MapThenFoldSet, Unfolding
<1>2. Unfolding(s, n, f)
  BY UnfoldingExists
<1> HIDE DEF f
<1> DEFINE T == {m \in Nat : m <= n => f[1..m] = g[m]}
<1>3. 0 \in T
  <2>1. 1..0 = {} /\ {} \in SUBSET (1..n)
    OBVIOUS
  <2> QED
    BY <1>2, <2>1 DEF Unfolding
<1>4. ASSUME NEW m \in T, m + 1 <= n PROVE f[1..(m + 1)] = g[m + 1]
  <2>1. 1..(m + 1) \in SUBSET (1..n) /\ m + 1 \in 1..(m + 1) /\ m \in Nat
    BY <1>4
  <2>2. Max(1..(m + 1)) = m + 1
    BY <2>1, Topmost
  <2>3. (1..(m + 1)) \ {m + 1} = 1..m
    BY <2>1
  <2>4. f[1..(m + 1)] = Apply(f[1..m], s[m + 1])
    <3> DEFINE d == 1..(m + 1)
    <3>1. d \in SUBSET (1..n) /\ d # {} /\ Max(d) = m + 1 /\ d \ {m + 1} = 1..m
      BY <2>1, <2>2, <2>3
    <3> HIDE DEF d
    <3>2. f[d] = IF d = {} THEN Absent ELSE Apply(f[d \ {Max(d)}], s[Max(d)])
      BY <1>2, <3>1 DEF Unfolding
    <3>3. f[d] = Apply(f[1..m], s[m + 1])
      BY <3>1, <3>2
    <3> QED
      BY <3>3 DEF d
  <2>5. f[1..m] = g[m]
    BY <1>4, <2>1
  <2>6. g[m + 1] = Apply(g[m], s[m + 1])
    <3>1. m + 1 \in 1..n /\ (m + 1) - 1 = m
      BY <1>4, <2>1
    <3> QED
      BY <3>1
  <2> QED
    BY <2>4, <2>5, <2>6
<1>5. \A m \in T : m + 1 \in T
  BY <1>4
<1> HIDE DEF T
<1>6. T = Nat
  BY <1>3, <1>5, Counting DEF T
<1> QED
  BY <1>1, <1>6 DEF T

-----------------------------------------------------------------------------
(* Legal stretches of the log. *)

Views == [status: Status \cup {"ABSENT", "CORRUPT"}, refunds: [RefundId -> RefundStatus]]

\* A reader who is at v and applies es, with the amounts of rs, ends at u.  Refunds
\* once seen stay.
Reads(rs, v, es, u, g) ==
  /\ g[0] = v /\ g[Len(es)] = u
  /\ \A i \in 1..Len(es) : g[i] = Applied(rs, g[i - 1], es[i])
  /\ \A i \in 0..Len(es), r \in RefundId : g[i].refunds[r] # "NONE" => u.refunds[r] # "NONE"

Leads(rs, v, es, u) == \E g \in [0..Len(es) -> Views] : Reads(rs, v, es, u, g)

LEMMA LeadsNowhere ==
  ASSUME NEW rs, NEW v \in Views
  PROVE  Leads(rs, v, <<>>, v)
<1> DEFINE g == [i \in 0..0 |-> v]
<1>1. Len(<<>>) = 0 /\ g \in [0..0 -> Views]
  OBVIOUS
<1>2. Reads(rs, v, <<>>, v, g)
  BY <1>1 DEF Reads
<1> QED
  BY <1>1, <1>2 DEF Leads

LEMMA LeadsOn ==
  ASSUME NEW rs, NEW v \in Views, NEW u \in Views, NEW t \in Views,
         NEW es \in Seq(Event), NEW e \in Event, Leads(rs, v, es, u),
         t = Applied(rs, u, e),
         \A r \in RefundId : u.refunds[r] # "NONE" => t.refunds[r] # "NONE"
  PROVE  Leads(rs, v, Append(es, e), t)
<1> DEFINE n == Len(es)
           fs == Append(es, e)
<1>1. PICK g \in [0..n -> Views] : Reads(rs, v, es, u, g)
  BY DEF Leads
<1>2. n \in Nat /\ Len(fs) = n + 1 /\ fs[n + 1] = e /\ \A i \in 1..n : fs[i] = es[i]
  OBVIOUS
<1>3. /\ g[0] = v /\ g[n] = u
      /\ \A i \in 1..n : g[i] = Applied(rs, g[i - 1], es[i])
      /\ \A i \in 0..n, r \in RefundId : g[i].refunds[r] # "NONE" => u.refunds[r] # "NONE"
  BY <1>1 DEF Reads
<1> HIDE DEF n, fs
<1> DEFINE h == [i \in 0..(n + 1) |-> IF i = n + 1 THEN t ELSE g[i]]
<1>4. h \in [0..(n + 1) -> Views]
  BY <1>2
<1>5. h[0] = v /\ h[n] = u /\ h[n + 1] = t /\ \A i \in 0..n : h[i] = g[i]
  BY <1>2, <1>3
<1> HIDE DEF h
<1>6. ASSUME NEW i \in 1..(n + 1) PROVE h[i] = Applied(rs, h[i - 1], fs[i])
  <2>1. CASE i = n + 1
    <3>1. i - 1 = n
      BY <1>2, <2>1
    <3> QED
      BY <1>2, <1>5, <2>1, <3>1
  <2>2. CASE i # n + 1
    <3>1. i \in 1..n /\ i \in 0..n /\ i - 1 \in 0..n
      BY <1>2, <2>2
    <3>2. h[i] = g[i] /\ h[i - 1] = g[i - 1] /\ fs[i] = es[i]
      BY <1>2, <1>5, <3>1
    <3> QED
      BY <1>3, <3>1, <3>2
  <2> QED
    BY <2>1, <2>2
<1>7. ASSUME NEW i \in 0..(n + 1), NEW r \in RefundId, h[i].refunds[r] # "NONE"
      PROVE  t.refunds[r] # "NONE"
  <2>1. i = n + 1 \/ i \in 0..n
    BY <1>2
  <2> QED
    BY <1>3, <1>5, <1>7, <2>1
<1>8. Reads(rs, v, fs, t, h)
  BY <1>2, <1>5, <1>6, <1>7 DEF Reads
<1> QED
  BY <1>2, <1>4, <1>8 DEF Leads, fs

LEMMA LeadsThrough ==
  ASSUME NEW rs, NEW v \in Views, NEW u \in Views, NEW t \in Views,
         NEW es \in Seq(Event), NEW fs \in Seq(Event), Leads(rs, v, es, u), Leads(rs, u, fs, t)
  PROVE  Leads(rs, v, es \o fs, t)
<1> DEFINE n == Len(es)
           m == Len(fs)
           all == es \o fs
<1>1. PICK g \in [0..n -> Views] : Reads(rs, v, es, u, g)
  BY DEF Leads
<1>2. PICK k \in [0..m -> Views] : Reads(rs, u, fs, t, k)
  BY DEF Leads
<1>3. /\ n \in Nat /\ m \in Nat /\ Len(all) = n + m
      /\ \A i \in 1..n : all[i] = es[i]
      /\ \A i \in 1..(n + m) : i > n => all[i] = fs[i - n]
  OBVIOUS
<1>4. /\ g[0] = v /\ g[n] = u
      /\ \A i \in 1..n : g[i] = Applied(rs, g[i - 1], es[i])
      /\ \A i \in 0..n, r \in RefundId : g[i].refunds[r] # "NONE" => u.refunds[r] # "NONE"
  BY <1>1 DEF Reads
<1>5. /\ k[0] = u /\ k[m] = t
      /\ \A i \in 1..m : k[i] = Applied(rs, k[i - 1], fs[i])
      /\ \A i \in 0..m, r \in RefundId : k[i].refunds[r] # "NONE" => t.refunds[r] # "NONE"
  BY <1>2 DEF Reads
<1> HIDE DEF n, m, all
<1> DEFINE h == [i \in 0..(n + m) |-> IF i <= n THEN g[i] ELSE k[i - n]]
<1>6. h \in [0..(n + m) -> Views]
  BY <1>3
<1>7. /\ \A i \in 0..n : h[i] = g[i]
      /\ \A i \in (n + 1)..(n + m) : h[i] = k[i - n]
  BY <1>3
<1>8. h[n] = k[0]
  BY <1>3, <1>4, <1>5, <1>7
<1>9. h[n + m] = t
  <2>1. CASE m = 0
    BY <1>3, <1>5, <1>8, <2>1
  <2>2. CASE m # 0
    <3>1. n + m \in (n + 1)..(n + m) /\ (n + m) - n = m
      BY <1>3, <2>2
    <3>2. h[n + m] = k[(n + m) - n]
      BY <1>7, <3>1
    <3> QED
      BY <1>5, <3>1, <3>2
  <2> QED
    BY <2>1, <2>2
<1> HIDE DEF h
<1>10. ASSUME NEW i \in 1..(n + m) PROVE h[i] = Applied(rs, h[i - 1], all[i])
  <2>1. CASE i <= n
    <3>1. i \in 1..n /\ i \in 0..n /\ i - 1 \in 0..n
      BY <1>3, <2>1
    <3>2. h[i] = g[i] /\ h[i - 1] = g[i - 1] /\ all[i] = es[i]
      BY <1>3, <1>7, <3>1
    <3> QED
      BY <1>4, <3>1, <3>2
  <2>2. CASE i > n
    <3> DEFINE j == i - n
    <3>1. j \in 1..m /\ i \in (n + 1)..(n + m)
      BY <1>3, <2>2
    <3>2. h[i] = k[j] /\ all[i] = fs[j]
      BY <1>3, <1>7, <2>2, <3>1
    <3>3. h[i - 1] = k[j - 1]
      <4>1. CASE j = 1
        <5>1. i - 1 = n /\ j - 1 = 0
          BY <1>3, <4>1
        <5> QED
          BY <1>8, <5>1
      <4>2. CASE j # 1
        <5>1. i - 1 \in (n + 1)..(n + m) /\ (i - 1) - n = j - 1
          BY <1>3, <3>1, <4>2
        <5>2. h[i - 1] = k[(i - 1) - n]
          BY <1>7, <5>1
        <5> QED
          BY <5>1, <5>2
      <4> QED
        BY <4>1, <4>2
    <3> HIDE DEF j
    <3>4. k[j] = Applied(rs, k[j - 1], fs[j])
      BY <1>5, <3>1
    <3> QED
      BY <3>2, <3>3, <3>4
  <2> QED
    BY <1>3, <2>1, <2>2
<1>11. ASSUME NEW i \in 0..(n + m), NEW r \in RefundId, h[i].refunds[r] # "NONE"
       PROVE  t.refunds[r] # "NONE"
  <2>1. CASE i \in 0..n
    <3>1. u.refunds[r] # "NONE"
      BY <1>4, <1>7, <1>11, <2>1
    <3>2. 0 \in 0..m /\ k[0] = u
      BY <1>3, <1>5
    <3> QED
      BY <1>5, <3>1, <3>2
  <2>2. CASE i \in (n + 1)..(n + m)
    <3>1. i - n \in 0..m /\ h[i] = k[i - n]
      BY <1>3, <1>7, <2>2
    <3> QED
      BY <1>5, <1>11, <3>1
  <2> QED
    BY <1>3, <2>1, <2>2
<1>12. h[0] = v
  BY <1>3, <1>4, <1>7
<1>13. Reads(rs, v, all, t, h)
  BY <1>3, <1>9, <1>10, <1>11, <1>12 DEF Reads
<1> QED
  BY <1>3, <1>6, <1>13 DEF Leads, all

\* A refund keeps its amount, and never stops existing.
Keeps(rs, qs) ==
  \A r \in RefundId : rs[r].status # "NONE" => qs[r].status # "NONE" /\ qs[r].amount = rs[r].amount

\* The amounts an event is applied with are those of refunds seen afterwards.
LEMMA AppliedSame ==
  ASSUME NEW rs, NEW qs, NEW v \in Views, NEW e \in Event,
         \A r \in RefundId : Applied(rs, v, e).refunds[r] # "NONE" => qs[r].amount = rs[r].amount
  PROVE  Applied(qs, v, e) = Applied(rs, v, e)
<1> DEFINE m == Mark(v, e[2], "PENDING", "SUCCEEDED")
<1>1. CASE e[1] # "RefundCompleted" \/ v.status \notin PaidStatus
  BY <1>1 DEF Applied, Event, EventType
<1>2. CASE e[1] = "RefundCompleted" /\ v.status \in PaidStatus
  <2>1. Applied(rs, v, e) = Complete(m, rs) /\ Applied(qs, v, e) = Complete(m, qs)
    BY <1>2 DEF Applied
  <2>2. m \in Views
    BY DEF Mark, Corrupt, Views, RefundStatus
  <2> HIDE DEF m
  <2>3. Complete(m, rs).refunds = m.refunds
    BY <2>2 DEF Complete, Views
  <2>4. \A r \in RefundId : m.refunds[r] = "SUCCEEDED" => qs[r].amount = rs[r].amount
    BY <2>1, <2>3
  <2>5. PaidBack(m, qs) = PaidBack(m, rs)
    <3>1. {u \in RefundId \X (1..Amount) : m.refunds[u[1]] = "SUCCEEDED" /\ u[2] <= qs[u[1]].amount}
            = {u \in RefundId \X (1..Amount) : m.refunds[u[1]] = "SUCCEEDED" /\ u[2] <= rs[u[1]].amount}
      BY <2>4
    <3> QED
      BY <3>1 DEF PaidBack
  <2> QED
    BY <2>1, <2>5 DEF Complete
<1> QED
  BY <1>1, <1>2

LEMMA LeadsStill ==
  ASSUME NEW rs, NEW qs, NEW v, NEW u, NEW es \in Seq(Event), Leads(rs, v, es, u),
         \A r \in RefundId : u.refunds[r] # "NONE" => qs[r].amount = rs[r].amount
  PROVE  Leads(qs, v, es, u)
<1>1. PICK g \in [0..Len(es) -> Views] : Reads(rs, v, es, u, g)
  BY DEF Leads
<1>2. ASSUME NEW i \in 1..Len(es) PROVE g[i] = Applied(qs, g[i - 1], es[i])
  <2>1. i \in 0..Len(es) /\ i - 1 \in 0..Len(es) /\ es[i] \in Event
    OBVIOUS
  <2>2. g[i] = Applied(rs, g[i - 1], es[i]) /\ g[i - 1] \in Views
    BY <1>1, <2>1 DEF Reads
  <2>3. \A r \in RefundId : g[i].refunds[r] # "NONE" => qs[r].amount = rs[r].amount
    BY <1>1, <2>1 DEF Reads
  <2> DEFINE x == g[i - 1]
             e == es[i]
  <2>4. /\ x \in Views /\ e \in Event /\ g[i] = Applied(rs, x, e)
        /\ \A r \in RefundId : Applied(rs, x, e).refunds[r] # "NONE" => qs[r].amount = rs[r].amount
    BY <2>1, <2>2, <2>3
  <2> HIDE DEF x, e
  <2>5. Applied(qs, x, e) = Applied(rs, x, e)
    BY <2>4, AppliedSame
  <2> QED
    BY <2>4, <2>5 DEF x, e
<1>3. Reads(qs, v, es, u, g)
  BY <1>1, <1>2 DEF Reads
<1> QED
  BY <1>1, <1>3 DEF Leads

\* A replay of all that is stored ends where the log leads.
LEMMA ReplayEnds ==
  ASSUME NEW u, events \in Seq(Event), Leads(refunds, Absent, events, u)
  PROVE  FoldLeft(Apply, Absent, events) = u
<1>1. PICK g \in [0..Len(events) -> Views] : Reads(refunds, Absent, events, u, g)
  BY DEF Leads
<1> DEFINE n == Len(events)
<1>2. n \in Nat /\ DOMAIN events = 1..n
  OBVIOUS
<1>3. g[0] = Absent /\ g[n] = u /\ \A i \in 1..n : g[i] = Apply(g[i - 1], events[i])
  BY <1>1 DEF Reads, Apply
<1> HIDE DEF n
<1> QED
  BY <1>2, <1>3, FoldEnds

-----------------------------------------------------------------------------
(* The methods: each logs what it changes. *)

SeenIn(p) == Seen(p.status, p.refunds)

\* The events of a copy lead from v, the payment with refunds rs as it was
\* loaded, to what the copy says.
Tells(v, rs, p) ==
  /\ Keeps(rs, p.refunds) /\ p.status # "PROCESSING"
  /\ Leads(p.refunds, v, p.events, SeenIn(p))

LEMMA SeenType ==
  ASSUME NEW status \in Status \cup {"ABSENT"}, NEW rs \in [RefundId -> Refund]
  PROVE  /\ Seen(status, rs) \in Views
         /\ Seen(status, rs).status = status
         /\ \A r \in RefundId : Seen(status, rs).refunds[r] = rs[r].status
BY DEF Seen, Views, Refund

LEMMA SameSeen ==
  ASSUME NEW status \in Status \cup {"ABSENT"}, NEW rs \in [RefundId -> Refund], NEW u \in Views,
         u.status = status, \A r \in RefundId : u.refunds[r] = rs[r].status
  PROVE  u = Seen(status, rs)
BY DEF Seen, Views

LEMMA KeepsMore ==
  ASSUME NEW rs, NEW qs, NEW ps, Keeps(rs, qs), Keeps(qs, ps)
  PROVE  Keeps(rs, ps)
BY DEF Keeps

\* One more event.
LEMMA TellsOn ==
  ASSUME NEW v \in Views, NEW rs, NEW p \in PaymentRecord, NEW q \in PaymentRecord,
         Tells(v, rs, p), NEW e \in Event, q.events = Append(p.events, e),
         Keeps(p.refunds, q.refunds), q.status # "PROCESSING",
         Applied(q.refunds, SeenIn(p), e) = SeenIn(q)
  PROVE  Tells(v, rs, q)
<1>1. p.events \in Seq(Event) /\ SeenIn(p) \in Views /\ SeenIn(q) \in Views
  BY SeenType DEF PaymentRecord, SeenIn
<1>2. \A r \in RefundId : SeenIn(p).refunds[r] = p.refunds[r].status /\ SeenIn(q).refunds[r] = q.refunds[r].status
  BY SeenType DEF PaymentRecord, SeenIn
<1>3. Leads(q.refunds, v, p.events, SeenIn(p))
  BY <1>1, <1>2, LeadsStill DEF Tells, Keeps
<1>4. Leads(q.refunds, v, q.events, SeenIn(q))
  BY <1>1, <1>2, <1>3, LeadsOn DEF Keeps
<1> QED
  BY <1>4, KeepsMore DEF Tells

\* A move of the status and the event that says so.
LEMMA MoveTells ==
  ASSUME NEW v \in Views, NEW rs, NEW p \in PaymentRecord, Tells(v, rs, p),
         NEW status \in Status \ {"PROCESSING"}, NEW event \in EventType,
         Move(p, status, event) \in PaymentRecord,
         \A w \in Views : w.status = p.status =>
           Applied(p.refunds, w, <<event, {}>>) = [w EXCEPT !.status = status]
  PROVE  Tells(v, rs, Move(p, status, event))
<1> DEFINE q == Move(p, status, event)
           e == <<event, {}>>
<1>1. q.refunds = p.refunds /\ q.status = status /\ q.events = Append(p.events, e)
  BY DEF Move, PaymentRecord
<1>2. e \in Event
  BY DEF Event
<1>3. Applied(p.refunds, SeenIn(p), e) = [SeenIn(p) EXCEPT !.status = status]
  BY SeenType DEF SeenIn, PaymentRecord
<1>4. [SeenIn(p) EXCEPT !.status = status] = Seen(status, p.refunds)
  <2> DEFINE w == SeenIn(p)
  <2>1. w \in Views /\ \A r \in RefundId : w.refunds[r] = p.refunds[r].status
    BY SeenType DEF SeenIn, PaymentRecord
  <2> HIDE DEF w
  <2> DEFINE u == [w EXCEPT !.status = status]
  <2>2. u \in Views /\ u.status = status /\ u.refunds = w.refunds
    BY <2>1 DEF Views
  <2> HIDE DEF u
  <2>3. p.refunds \in [RefundId -> Refund]
    BY DEF PaymentRecord
  <2>4. u = Seen(status, p.refunds)
    BY <2>1, <2>2, <2>3, SameSeen
  <2> QED
    BY <2>4 DEF u, w
<1>5. Keeps(p.refunds, p.refunds)
  BY DEF Keeps
<1> HIDE DEF q, e
<1>6. Applied(q.refunds, SeenIn(p), e) = SeenIn(q)
  BY <1>1, <1>3, <1>4 DEF SeenIn
<1>7. q \in PaymentRecord
  BY DEF q
<1>8. Tells(v, rs, q)
  BY <1>1, <1>2, <1>5, <1>6, <1>7, TellsOn
<1> QED
  BY <1>8 DEF q

\* What the transaction ID is makes no difference.
LEMMA PendingTells ==
  ASSUME NEW v \in Views, NEW rs, NEW p \in PaymentRecord, Tells(v, rs, p), CanMarkPending(p)
  PROVE  Tells(v, rs, MarkPending(p))
<1> DEFINE q == [p EXCEPT !.tx = TRUE]
<1>1. q \in PaymentRecord /\ q.status = p.status /\ q.refunds = p.refunds /\ q.events = p.events
  BY DEF PaymentRecord
<1>2. MarkPending(p) \in PaymentRecord
  BY LifeCycleFollows DEF Follows
<1>3. MarkPending(p) = Move(q, "PENDING", "PaymentPending")
  BY DEF MarkPending
<1> HIDE DEF q
<1>4. Tells(v, rs, q)
  BY <1>1 DEF Tells, SeenIn
<1>5. \A w \in Views : w.status = q.status =>
         Applied(q.refunds, w, <<"PaymentPending", {}>>) = [w EXCEPT !.status = "PENDING"]
  BY <1>1 DEF CanMarkPending, Applied, Turn
<1>6. "PENDING" \in Status \ {"PROCESSING"} /\ "PaymentPending" \in EventType
  BY DEF Status, EventType
<1> QED
  BY <1>1, <1>2, <1>3, <1>4, <1>5, <1>6, MoveTells

LEMMA MovesTell ==
  ASSUME NEW v \in Views, NEW rs, NEW p \in PaymentRecord, Tells(v, rs, p)
  PROVE  /\ CanMarkCompleted(p) => Tells(v, rs, MarkCompleted(p))
         /\ CanMarkFailed(p)    => Tells(v, rs, MarkFailed(p))
         /\ CanMarkExpired(p)   => Tells(v, rs, MarkExpired(p))
         /\ CanCancel(p)        => Tells(v, rs, Cancel(p))
<1>1. p.status # "PROCESSING" /\ p.status \in Status
  BY DEF Tells, PaymentRecord
<1>2. /\ {"COMPLETED", "FAILED", "EXPIRED", "CANCELLED"} \subseteq Status \ {"PROCESSING"}
      /\ {"PaymentCompleted", "PaymentFailed", "PaymentExpired", "PaymentCancelled"} \subseteq EventType
  BY DEF Status, TerminalStatus, PaidStatus, EventType
<1>3. ASSUME CanMarkCompleted(p) PROVE Tells(v, rs, MarkCompleted(p))
  <2>1. \A w \in Views : w.status = p.status =>
           Applied(p.refunds, w, <<"PaymentCompleted", {}>>) = [w EXCEPT !.status = "COMPLETED"]
    BY <1>1, <1>3 DEF CanMarkCompleted, Applied, Turn
  <2>2. MarkCompleted(p) \in PaymentRecord
    BY <1>3, LifeCycleFollows DEF Follows
  <2> QED
    BY <1>2, <2>1, <2>2, MoveTells DEF MarkCompleted
<1>4. ASSUME CanMarkFailed(p) PROVE Tells(v, rs, MarkFailed(p))
  <2>1. \A w \in Views : w.status = p.status =>
           Applied(p.refunds, w, <<"PaymentFailed", {}>>) = [w EXCEPT !.status = "FAILED"]
    BY <1>1, <1>4 DEF CanMarkFailed, Applied, Turn, Status
  <2>2. MarkFailed(p) \in PaymentRecord
    BY <1>4, LifeCycleFollows DEF Follows
  <2> QED
    BY <1>2, <2>1, <2>2, MoveTells DEF MarkFailed
<1>5. ASSUME CanMarkExpired(p) PROVE Tells(v, rs, MarkExpired(p))
  <2>1. \A w \in Views : w.status = p.status =>
           Applied(p.refunds, w, <<"PaymentExpired", {}>>) = [w EXCEPT !.status = "EXPIRED"]
    BY <1>5 DEF CanMarkExpired, Applied, Turn
  <2>2. MarkExpired(p) \in PaymentRecord
    BY <1>5, LifeCycleFollows DEF Follows
  <2> QED
    BY <1>2, <2>1, <2>2, MoveTells DEF MarkExpired
<1>6. ASSUME CanCancel(p) PROVE Tells(v, rs, Cancel(p))
  <2>1. \A w \in Views : w.status = p.status =>
           Applied(p.refunds, w, <<"PaymentCancelled", {}>>) = [w EXCEPT !.status = "CANCELLED"]
    BY <1>1, <1>6 DEF CanCancel, Applied, Turn
  <2>2. Cancel(p) \in PaymentRecord
    BY <1>6, LifeCycleFollows DEF Follows
  <2> QED
    BY <1>2, <2>1, <2>2, MoveTells DEF Cancel
<1> QED
  BY <1>3, <1>4, <1>5, <1>6

\* A new payment says that it was initiated.
LEMMA NewTells == Tells(Absent, NoRefunds, New)
<1> DEFINE e == <<"PaymentInitiated", {}>>
           n == Seen("INITIATED", NoRefunds)
<1>1. New \in PaymentRecord /\ New.events = Append(<<>>, e) /\ New.refunds = NoRefunds /\ New.status = "INITIATED"
  BY NewSound DEF New
<1>2. Absent \in Views /\ n \in Views
  BY <1>1, SeenType DEF Absent, PaymentRecord, Status
<1>3. e \in Event /\ <<>> \in Seq(Event)
  BY DEF Event, EventType
<1>4. n = Applied(NoRefunds, Absent, e)
  BY DEF Applied, Turn, Absent, Seen
<1>5. \A r \in RefundId : Absent.refunds[r] = n.refunds[r]
  BY DEF Absent, Seen
<1>6. Leads(NoRefunds, Absent, <<>>, Absent)
  BY <1>2, LeadsNowhere
<1> HIDE DEF e, n
<1>7. Leads(NoRefunds, Absent, Append(<<>>, e), n)
  BY <1>2, <1>3, <1>4, <1>5, <1>6, LeadsOn
<1> QED
  BY <1>1, <1>7 DEF Tells, Keeps, SeenIn, n, NoRefunds, NoRefund

LEMMA RequestTells ==
  ASSUME NEW v \in Views, NEW rs, NEW p \in PaymentRecord, Tells(v, rs, p),
         NEW r \in RefundId, p.refunds[r].status = "NONE",
         NEW ref \in Reference, NEW amount \in Int, CanRequestRefund(p, ref, amount)
  PROVE  Tells(v, rs, RequestRefund(p, r, ref, amount))
<1> DEFINE q == RequestRefund(p, r, ref, amount)
           e == <<"RefundRequested", {r}>>
           t == Applied(q.refunds, SeenIn(p), e)
<1>1. q \in PaymentRecord
  BY RequestRefundFollows DEF Follows
<1>2. /\ q.status = p.status /\ q.events = Append(p.events, e)
      /\ q.refunds = [p.refunds EXCEPT ![r] = [status |-> "PENDING", amount |-> amount, ref |-> ref]]
  BY DEF RequestRefund, PaymentRecord
<1>3. e \in Event
  BY DEF Event, EventType
<1>4. /\ SeenIn(p) \in Views /\ SeenIn(p).status = p.status
      /\ \A x \in RefundId : SeenIn(p).refunds[x] = p.refunds[x].status
  BY SeenType DEF SeenIn, PaymentRecord
<1>5. t = Mark(SeenIn(p), {r}, "NONE", "PENDING")
  BY <1>4 DEF Applied, CanRequestRefund
<1>6. t = [SeenIn(p) EXCEPT !.refunds = [x \in RefundId |-> IF x \in {r} THEN "PENDING" ELSE @[x]]]
  BY <1>4, <1>5 DEF Mark
<1> HIDE DEF q, e, t
<1>7. /\ t \in Views /\ t.status = q.status
      /\ \A x \in RefundId : t.refunds[x] = q.refunds[x].status
  BY <1>1, <1>2, <1>4, <1>6 DEF Views, RefundStatus, PaymentRecord
<1>8. t = SeenIn(q)
  BY <1>1, <1>7, SameSeen DEF SeenIn, PaymentRecord
<1>9. Keeps(p.refunds, q.refunds)
  BY <1>2 DEF Keeps, PaymentRecord
<1>10. q.status # "PROCESSING"
  BY <1>2 DEF Tells
<1>11. Tells(v, rs, q)
  BY <1>1, <1>2, <1>3, <1>8, <1>9, <1>10, TellsOn DEF t
<1> QED
  BY <1>11 DEF q

\* Only a paid payment has refunds, and so refunds to settle.
LEMMA PaidIfPending ==
  ASSUME NEW p \in PaymentRecord, Sound(p), NEW r \in RefundId, p.refunds[r].status = "PENDING"
  PROVE  p.status \in PaidStatus
BY DEF Sound, NoneRequested

LEMMA CompleteTells ==
  ASSUME NEW v \in Views, NEW rs, NEW p \in PaymentRecord, Tells(v, rs, p), Sound(p),
         NEW S, S \subseteq RefundsIn(p, {"PENDING"})
  PROVE  Tells(v, rs, CompleteRefunds(p, S))
<1> DEFINE q == CompleteRefunds(p, S)
           qs == [r \in RefundId |-> IF r \in S THEN [p.refunds[r] EXCEPT !.status = "SUCCEEDED"]
                                                ELSE p.refunds[r]]
           new == IF Total(qs, {"SUCCEEDED"}) >= Amount THEN "REFUNDED" ELSE "PARTIALLY_REFUNDED"
           e == <<"RefundCompleted", S>>
           w == SeenIn(p)
           m == Mark(w, S, "PENDING", "SUCCEEDED")
           t == Applied(q.refunds, w, e)
<1>1. CASE S = {}
  BY <1>1 DEF CompleteRefunds
<1>2. CASE S # {}
  <2>1. q.refunds = qs /\ q.status = new /\ q.events = Append(p.events, e)
    BY <1>2 DEF CompleteRefunds, RefundedAmount, PaymentRecord
  <2>2. q \in PaymentRecord
    BY CompleteRefundsFollows DEF Follows
  <2>3. \A r \in S : r \in RefundId /\ p.refunds[r].status = "PENDING"
    BY DEF RefundsIn
  <2>4. e \in Event
    BY <2>3 DEF Event, EventType
  <2>5. w \in Views /\ w.status = p.status /\ \A r \in RefundId : w.refunds[r] = p.refunds[r].status
    BY SeenType DEF SeenIn, PaymentRecord
  <2>6. p.status \in PaidStatus
    BY <1>2, <2>3, PaidIfPending
  <2>7. \A r \in RefundId :
          /\ qs[r].amount = p.refunds[r].amount
          /\ qs[r].status = IF r \in S THEN "SUCCEEDED" ELSE p.refunds[r].status
    BY DEF PaymentRecord, Refund
  <2>8. t = Complete(m, q.refunds)
    BY <2>5, <2>6 DEF Applied
  <2>9. m = [w EXCEPT !.refunds = [r \in RefundId |-> IF r \in S THEN "SUCCEEDED" ELSE @[r]]]
    BY <2>3, <2>5 DEF Mark
  <2> HIDE DEF w, qs, m
  <2>10. m \in Views /\ m.status = p.status /\ \A r \in RefundId : m.refunds[r] = qs[r].status
    BY <2>5, <2>7, <2>9 DEF Views, RefundStatus
  <2>11. PaidBack(m, qs) = Total(qs, {"SUCCEEDED"})
    <3>1. {u \in RefundId \X (1..Amount) : m.refunds[u[1]] = "SUCCEEDED" /\ u[2] <= qs[u[1]].amount}
            = Units(qs, {"SUCCEEDED"})
      BY <2>10 DEF Units
    <3> QED
      BY <3>1 DEF PaidBack, Total
  <2>12. t = [m EXCEPT !.status = IF PaidBack(m, qs) < Amount THEN "PARTIALLY_REFUNDED" ELSE "REFUNDED"]
    BY <2>1, <2>6, <2>8, <2>10 DEF Complete, PaidStatus
  <2>13. Total(qs, {"SUCCEEDED"}) \in Nat
    BY TotalType
  <2> DEFINE back == IF PaidBack(m, qs) < Amount THEN "PARTIALLY_REFUNDED" ELSE "REFUNDED"
  <2>14. back = q.status
    BY <2>1, <2>11, <2>13, AmountAssumption
  <2> HIDE DEF q, e, t, back, new
  <2>15. t \in Views /\ t.status = q.status /\ \A r \in RefundId : t.refunds[r] = q.refunds[r].status
    <3>1. t = [m EXCEPT !.status = q.status] /\ q.status \in Status
      BY <2>2, <2>12, <2>14 DEF back, PaymentRecord
    <3> QED
      BY <2>1, <2>10, <3>1 DEF Views
  <2>16. t = SeenIn(q)
    BY <2>2, <2>15, SameSeen DEF SeenIn, PaymentRecord
  <2>17. Keeps(p.refunds, q.refunds)
    BY <2>1, <2>7 DEF Keeps
  <2>18. q.status # "PROCESSING"
    BY <2>1 DEF new
  <2>19. Tells(v, rs, q)
    BY <2>2, <2>1, <2>4, <2>16, <2>17, <2>18, TellsOn DEF t, w
  <2> QED
    BY <2>19 DEF q
<1> QED
  BY <1>1, <1>2

LEMMA FailTells ==
  ASSUME NEW v \in Views, NEW rs, NEW p \in PaymentRecord, Tells(v, rs, p), Sound(p),
         NEW r \in RefundId, CanFailRefund(p, r)
  PROVE  Tells(v, rs, FailRefund(p, r))
<1> DEFINE q == FailRefund(p, r)
           e == <<"RefundFailed", {r}>>
           w == SeenIn(p)
           t == Applied(q.refunds, w, e)
<1>1. q.status = p.status /\ q.refunds = [p.refunds EXCEPT ![r].status = "FAILED"] /\ q.events = Append(p.events, e)
  BY DEF FailRefund, PaymentRecord
<1>2. q \in PaymentRecord
  BY FailRefundFollows DEF Follows
<1>3. e \in Event
  BY DEF Event, EventType
<1>4. w \in Views /\ w.status = p.status /\ \A x \in RefundId : w.refunds[x] = p.refunds[x].status
  BY SeenType DEF SeenIn, PaymentRecord
<1>5. p.status \in PaidStatus
  BY PaidIfPending DEF CanFailRefund
<1>6. \A x \in RefundId :
        /\ q.refunds[x].amount = p.refunds[x].amount
        /\ q.refunds[x].status = IF x = r THEN "FAILED" ELSE p.refunds[x].status
  BY <1>1 DEF PaymentRecord, Refund
<1>7. t = [w EXCEPT !.refunds = [x \in RefundId |-> IF x \in {r} THEN "FAILED" ELSE @[x]]]
  BY <1>4, <1>5 DEF Applied, Mark, CanFailRefund
<1> HIDE DEF q, e, t, w
<1>8. t \in Views /\ t.status = q.status /\ \A x \in RefundId : t.refunds[x] = q.refunds[x].status
  BY <1>1, <1>4, <1>6, <1>7 DEF Views, RefundStatus
<1>9. t = SeenIn(q)
  BY <1>2, <1>8, SameSeen DEF SeenIn, PaymentRecord
<1>10. Keeps(p.refunds, q.refunds) /\ q.status # "PROCESSING"
  BY <1>1, <1>6 DEF Keeps, Tells, CanFailRefund
<1>11. Tells(v, rs, q)
  BY <1>1, <1>2, <1>3, <1>9, <1>10, TellsOn DEF t, w
<1> QED
  BY <1>11 DEF q

\* A payment after a notification.
LEMMA NotificationTells ==
  ASSUME NEW v \in Views, NEW rs, NEW p \in PaymentRecord, Tells(v, rs, p), Sound(p), NEW n
  PROVE  Tells(v, rs, AfterNotification(p, n))
<1> DEFINE a == CompleteRefunds(p, Confirmed(p, n))
           b == IF CanMarkPending(a) /\ n.status \in {"SETTLED", "FAILED"} THEN MarkPending(a) ELSE a
           c == AfterNotification(p, n)
<1>1. Confirmed(p, n) \subseteq RefundsIn(p, {"PENDING"})
  BY DEF Confirmed
<1>2. a \in PaymentRecord /\ Tells(v, rs, a)
  BY <1>1, CompleteRefundsFollows, CompleteTells DEF Follows
<1>3. b \in PaymentRecord /\ Tells(v, rs, b)
  <2> HIDE DEF a
  <2> QED
    BY <1>2, LifeCycleFollows, PendingTells DEF Follows
<1>4. c \in {b} \cup {q \in {MarkCompleted(b)} : CanMarkCompleted(b)} \cup {q \in {MarkFailed(b)} : CanMarkFailed(b)}
  BY DEF AfterNotification
<1> HIDE DEF b, c
<1>5. Tells(v, rs, c)
  BY <1>3, <1>4, MovesTell
<1> QED
  BY <1>5 DEF c

-----------------------------------------------------------------------------
(* The invariant: the log leads to what is stored, and the unsaved events  *)
(* of a copy lead on from there, if its Save would commit.                 *)

StoredView == Seen(View, refunds)

Logged(x) ==
  IF x.pc \in {"save", "resend"}
  THEN x.p.version = row.version => Tells(StoredView, refunds, x.p)
  ELSE x.p.events = <<>>

LogInv ==
  /\ FitInv
  /\ Leads(refunds, Absent, events, StoredView)
  /\ \A w \in Worker : ~IsIdle(w) => Logged(workers[w])

LEMMA StoredType ==
  ASSUME FitInv
  PROVE  /\ StoredView \in Views /\ Absent \in Views
         /\ \A r \in RefundId : StoredView.refunds[r] = refunds[r].status
<1>1. NoRefunds \in [RefundId -> Refund]
  BY NewSound DEF New, PaymentRecord
<1>2. refunds \in [RefundId -> Refund] /\ View \in Status \cup {"ABSENT"}
  BY DEF FitInv, IInv, TypeOK, View
<1> QED
  BY <1>1, <1>2, SeenType DEF StoredView, Absent

\* A loaded copy that is current says what is stored.
LEMMA LoadedTells ==
  ASSUME LogInv, NEW w \in Worker, workers[w].pc \in {"loaded", "call", "decided", "cancel", "reload"},
         workers[w].p.version = row.version
  PROVE  Tells(StoredView, refunds, workers[w].p) /\ Sound(workers[w].p)
<1> DEFINE p == workers[w].p
<1>1. p.status = row.status /\ p.refunds = refunds /\ View = row.status /\ FitInv
  BY Current DEF LogInv
<1>2. p.events = <<>>
  BY DEF LogInv, Logged, IsIdle
<1>3. SeenIn(p) = StoredView
  BY <1>1 DEF SeenIn, StoredView
<1>4. Leads(refunds, StoredView, <<>>, StoredView)
  BY <1>1, StoredType, LeadsNowhere
<1>5. Sound(p)
  BY DEF LogInv, FitInv, IInv, CopiesSound, CopySound, UpToDate, IsIdle
<1> QED
  BY <1>1, <1>2, <1>3, <1>4, <1>5 DEF Tells, Keeps, FitInv

\* A step of worker w that saves nothing.
LEMMA KeepLog ==
  ASSUME LogInv, FitInv', NEW w \in Worker, UNCHANGED stored, Alone(w),
         workers'[w].pc # "idle" => Logged(workers'[w])
  PROVE  LogInv'
<1>1. UNCHANGED <<row, refunds, events>> /\ UNCHANGED View /\ UNCHANGED StoredView
  BY DEF stored, View, StoredView
<1>2. ASSUME NEW v \in Worker PROVE (~IsIdle(v) => Logged(workers[v]))'
  <2>1. ~IsIdle(v) => Logged(workers[v])
    BY DEF LogInv
  <2>2. CASE v = w
    BY <1>1, <2>2 DEF IsIdle, Logged
  <2>3. CASE v # w
    BY <1>1, <2>1, <2>3 DEF IsIdle, Logged, Alone
  <2> QED
    BY <2>2, <2>3
<1>3. Leads(refunds, Absent, events, StoredView)'
  BY <1>1 DEF LogInv
<1> QED
  BY <1>2, <1>3 DEF LogInv

\* A step of worker w that saves q: the log goes on with the events of q.
LEMMA SaveLog ==
  ASSUME LogInv, FitInv', NEW w \in Worker, NEW q \in PaymentRecord, Save(q), Alone(w),
         UpToDate(q) => Tells(StoredView, refunds, q),
         \/ workers'[w].pc = "idle"
         \/ workers'[w].pc = "call" /\ workers'[w].p.events = <<>>
  PROVE  LogInv'
<1>1. FitInv /\ refunds \in [RefundId -> Refund] /\ events \in Seq(Event) /\ row.version \in Nat
  BY DEF LogInv, FitInv, IInv, TypeOK
<1>2. /\ row'.status = q.status /\ row'.version = row.version + 1
      /\ refunds' = Upserted(q) /\ events' = events \o q.events /\ Tells(StoredView, refunds, q)
  BY DEF Save
<1>3. View' = q.status
  BY <1>1, <1>2 DEF View
<1>4. \A r \in RefundId :
        /\ q.refunds[r].status # "NONE" => refunds'[r] = q.refunds[r]
        /\ q.refunds[r].status = "NONE" => refunds[r].status = "NONE" /\ refunds'[r] = refunds[r]
        /\ refunds[r].status # "NONE" => refunds'[r].amount = refunds[r].amount
  BY <1>2 DEF Upserted, Tells, Keeps
<1>5. StoredView' = SeenIn(q)
  BY <1>3, <1>4 DEF StoredView, SeenIn, Seen
<1>6. /\ StoredView \in Views /\ Absent \in Views
      /\ \A r \in RefundId : StoredView.refunds[r] = refunds[r].status
  BY <1>1, StoredType
<1>7. SeenIn(q) \in Views /\ \A r \in RefundId : SeenIn(q).refunds[r] = q.refunds[r].status
  BY SeenType DEF SeenIn, PaymentRecord
<1>8. Leads(refunds', Absent, events, StoredView)
  BY <1>1, <1>4, <1>6, LeadsStill DEF LogInv
<1>9. Leads(refunds', StoredView, q.events, SeenIn(q))
  <2>1. q.events \in Seq(Event) /\ Leads(q.refunds, StoredView, q.events, SeenIn(q))
    BY <1>2 DEF PaymentRecord, Tells
  <2> QED
    BY <1>4, <1>7, <2>1, LeadsStill
<1>10. Leads(refunds', Absent, events', StoredView')
  <2>1. q.events \in Seq(Event)
    BY DEF PaymentRecord
  <2> QED
    BY <1>1, <1>2, <1>5, <1>6, <1>7, <1>8, <1>9, <2>1, LeadsThrough
<1>11. ASSUME NEW v \in Worker PROVE (~IsIdle(v) => Logged(workers[v]))'
  <2>1. CASE v = w
    BY <2>1 DEF IsIdle, Logged
  <2>2. CASE v # w
    <3>1. ~IsIdle(v) => workers[v].p.version <= row.version /\ Logged(workers[v])
      BY DEF LogInv, FitInv, IInv, CopiesSound, CopySound
    <3>2. workers[v].p.version \in Nat
      BY WorkerType DEF LogInv, FitInv, PaymentRecord
    <3> QED
      BY <1>1, <1>2, <2>2, <3>1, <3>2 DEF IsIdle, Logged, Alone
  <2> QED
    BY <2>1, <2>2
<1>12. Leads(refunds, Absent, events, StoredView)'
  BY <1>10 DEF Absent
<1> QED
  BY <1>11, <1>12 DEF LogInv

LEMMA FinishLog ==
  ASSUME LogInv, FitInv', NEW w \in Worker, UNCHANGED stored, Finish(w)
  PROVE  LogInv'
<1>1. workers'[w].pc = "idle" /\ Alone(w)
  BY IdleType DEF Finish, Alone, LogInv, FitInv, IInv, TypeOK
<1> QED
  BY <1>1, KeepLog

LEMMA SaveAndFinishLog ==
  ASSUME LogInv, FitInv', NEW w \in Worker, NEW q \in PaymentRecord, SaveAndFinish(w, q),
         UpToDate(q) => Tells(StoredView, refunds, q)
  PROVE  LogInv'
<1>1. workers'[w].pc = "idle" /\ Alone(w)
  BY IdleType DEF SaveAndFinish, Finish, Alone, LogInv, FitInv, IInv, TypeOK
<1> QED
  BY <1>1, SaveLog DEF SaveAndFinish

\* A step that leaves the copy without events.
LEMMA SilentLog ==
  ASSUME LogInv, FitInv', NEW w \in Worker, UNCHANGED stored, Alone(w),
         workers'[w].pc \notin {"save", "resend"}, workers'[w].p.events = <<>>
  PROVE  LogInv'
BY KeepLog DEF Logged

\* A step that edits a copy: its events lead on to what it says now.
LEMMA EditLog ==
  ASSUME LogInv, FitInv', NEW w \in Worker, UNCHANGED stored, Alone(w),
         workers'[w].pc \in {"save", "resend"},
         workers'[w].p.version = row.version => Tells(StoredView, refunds, workers'[w].p)
  PROVE  LogInv'
BY KeepLog DEF Logged

-----------------------------------------------------------------------------
(* One lemma per operation. *)

LEMMA ReadRowLog ==
  ASSUME LogInv, FitInv', NEW w \in Worker, UNCHANGED stored, NEW op, ReadRow(w, op)
  PROVE  LogInv'
<1>1. workers'[w].pc = "row" /\ workers'[w].p.events = <<>> /\ Alone(w)
  BY DEF ReadRow, RowCopy, Idle, Alone, LogInv, FitInv, IInv, TypeOK
<1> QED
  BY <1>1, SilentLog

LEMMA FindUnpaidLog ==
  ASSUME LogInv, FitInv', NEW w \in Worker, NEW op, NEW status, FindUnpaid(w, op, status)
  PROVE  LogInv'
<1>1. workers'[w].pc = "loaded" /\ workers'[w].p.events = <<>> /\ Alone(w) /\ UNCHANGED stored
  BY DEF FindUnpaid, RowCopy, Idle, Alone, LogInv, FitInv, IInv, TypeOK
<1> QED
  BY <1>1, SilentLog

LEMMA ReadRefundsLog ==
  ASSUME LogInv, FitInv', NEW w \in Worker, ReadRefunds(w)
  PROVE  LogInv'
<1>1. workers[w] \in WorkerState /\ workers[w].p \in PaymentRecord
  BY WorkerType DEF LogInv, FitInv
<1>2. /\ workers'[w].pc = "loaded" /\ workers'[w].p.events = workers[w].p.events
      /\ Alone(w) /\ UNCHANGED stored
  BY <1>1 DEF ReadRefunds, Alone, LogInv, FitInv, IInv, TypeOK, WorkerState, PaymentRecord
<1>3. workers[w].p.events = <<>>
  BY DEF ReadRefunds, LogInv, Logged, IsIdle
<1> QED
  BY <1>2, <1>3, SilentLog

LEMMA CreateChargeLog ==
  ASSUME LogInv, FitInv', NEW w \in Worker, CreateCharge(w)
  PROVE  LogInv'
<1>1. PICK p : /\ p \in {New, MarkFailed(New)} \cup {AfterCharge(word) : word \in {"pending", "settlement", "deny"}}
               /\ workers' = [workers EXCEPT ![w] = [Idle EXCEPT !.op = "create", !.pc = "save", !.p = p]]
  BY DEF CreateCharge
<1>2. New \in PaymentRecord /\ New.status = "INITIATED" /\ Tells(Absent, NoRefunds, New) /\ Absent \in Views
  BY NewSound, NewTells, StoredType DEF New, LogInv
<1>3. MarkPending(New) \in PaymentRecord /\ MarkPending(New).status = "PENDING" /\ Tells(Absent, NoRefunds, MarkPending(New))
  BY <1>2, LifeCycleFollows, PendingTells DEF CanMarkPending, Follows
<1>4. CanMarkFailed(New) /\ CanMarkFailed(MarkPending(New)) /\ CanMarkCompleted(MarkPending(New))
  BY <1>2, <1>3 DEF CanMarkFailed, CanMarkCompleted, TerminalStatus, PaidStatus
<1>5. Tells(Absent, NoRefunds, p)
  <2>1. CASE p \in {New, MarkFailed(New)}
    BY <1>2, <1>4, <2>1, MovesTell
  <2>2. CASE p \notin {New, MarkFailed(New)}
    <3>1. PICK word \in {"pending", "settlement", "deny"} : p = AfterCharge(word)
      BY <1>1, <2>2
    <3>2. p \in {MarkPending(New), MarkCompleted(MarkPending(New)), MarkFailed(MarkPending(New))}
      BY <3>1 DEF AfterCharge
    <3> QED
      BY <1>2, <1>3, <1>4, <3>2, MovesTell
  <2> QED
    BY <2>1, <2>2
<1>6. workers'[w].pc = "save" /\ workers'[w].p = p /\ Alone(w)
  BY <1>1 DEF Alone, Idle, LogInv, FitInv, IInv, TypeOK
<1>7. row.version = 0 /\ UNCHANGED stored
  BY DEF CreateCharge
<1>8. StoredView = Absent /\ refunds = NoRefunds
  BY <1>7, Unpaid DEF StoredView, Absent, View, LogInv
<1> QED
  BY <1>5, <1>6, <1>7, <1>8, EditLog

LEMMA PreparedLog ==
  ASSUME LogInv, FitInv', NEW w \in Worker,
         CreateSave(w) \/ CancelSave(w) \/ ChargeSave(w) \/ RefundsSave(w)
  PROVE  LogInv'
<1>1. workers[w].pc \in {"save", "resend"} /\ SaveAndFinish(w, workers[w].p) /\ workers[w].p \in PaymentRecord
  BY WorkerType DEF CreateSave, CancelSave, ChargeSave, RefundsSave, At, LogInv, FitInv
<1>2. UpToDate(workers[w].p) => Tells(StoredView, refunds, workers[w].p)
  BY <1>1 DEF LogInv, Logged, IsIdle, UpToDate
<1> QED
  BY <1>1, <1>2, SaveAndFinishLog

LEMMA CancelCallLog ==
  ASSUME LogInv, FitInv', NEW w \in Worker, CancelCall(w)
  PROVE  LogInv'
<1> DEFINE p == workers[w].p
<1>1. workers[w].pc = "loaded" /\ UNCHANGED stored /\ CanCancel(p) /\ p \in PaymentRecord
  BY WorkerType DEF CancelCall, At, LogInv, FitInv
<1>2. Cancel(p).version = p.version
  BY <1>1, LifeCycleFollows DEF Follows
<1>3. workers'[w].pc = "save" /\ workers'[w].p = Cancel(p) /\ Alone(w)
  BY DEF CancelCall, Alone, LogInv, FitInv, IInv, TypeOK, WorkerState
<1>4. p.version = row.version => Tells(StoredView, refunds, Cancel(p))
  BY <1>1, LoadedTells, StoredType, MovesTell DEF LogInv
<1> HIDE DEF p
<1> QED
  BY <1>1, <1>2, <1>3, <1>4, EditLog

LEMMA ExpireLog ==
  ASSUME LogInv, FitInv', NEW w \in Worker, Expire(w)
  PROVE  LogInv'
<1> DEFINE p == workers[w].p
<1>1. workers[w].pc = "loaded" /\ SaveAndFinish(w, MarkExpired(p)) /\ CanMarkExpired(p) /\ p \in PaymentRecord
  BY WorkerType DEF Expire, At, LogInv, FitInv
<1>2. MarkExpired(p) \in PaymentRecord /\ MarkExpired(p).version = p.version
  BY <1>1, LifeCycleFollows DEF Follows
<1>3. p.version = row.version => Tells(StoredView, refunds, MarkExpired(p))
  BY <1>1, LoadedTells, StoredType, MovesTell DEF LogInv
<1> QED
  BY <1>1, <1>2, <1>3, SaveAndFinishLog DEF UpToDate

LEMMA CallbackLog ==
  ASSUME LogInv, FitInv', NEW w \in Worker, Callback(w)
  PROVE  LogInv'
<1> DEFINE p == workers[w].p
<1>1. PICK n \in notifs : SaveAndFinish(w, AfterNotification(p, n))
  BY DEF Callback
<1>2. workers[w].pc = "loaded" /\ p \in PaymentRecord
  BY WorkerType DEF Callback, At, LogInv, FitInv
<1>3. AfterNotification(p, n) \in PaymentRecord /\ AfterNotification(p, n).version = p.version
  BY <1>2, AfterNotificationFollows DEF Follows
<1>4. p.version = row.version => Tells(StoredView, refunds, AfterNotification(p, n))
  BY <1>2, LoadedTells, StoredType, NotificationTells DEF LogInv
<1> QED
  BY <1>1, <1>3, <1>4, SaveAndFinishLog DEF UpToDate

LEMMA RefundReserveLog ==
  ASSUME LogInv, FitInv', NEW w \in Worker, RefundReserve(w)
  PROVE  LogInv'
<1> DEFINE p == workers[w].p
<1>1. PICK r \in RefundId, ref \in Reference, asked \in 0..Amount :
        LET amount == IF asked = 0 THEN RefundableAmount(p) ELSE asked
            q      == RequestRefund(p, r, ref, amount)
        IN  /\ p.refunds[r].status = "NONE"
            /\ CanRequestRefund(p, ref, amount)
            /\ Save(q)
            /\ workers' = [workers EXCEPT ![w].pc = "call", ![w].p = Saved(q), ![w].r = {r}]
  BY DEF RefundReserve
<1> DEFINE amount == IF asked = 0 THEN RefundableAmount(p) ELSE asked
           q      == RequestRefund(p, r, ref, amount)
<1>2. workers[w].pc = "loaded" /\ p \in PaymentRecord
  BY WorkerType DEF RefundReserve, At, LogInv, FitInv
<1>3. amount \in Int
  BY TotalType, AmountAssumption DEF RefundableAmount
<1>4. Follows(p, q)
  <2> HIDE DEF p, amount
  <2> QED
    BY <1>1, <1>2, <1>3, RequestRefundFollows DEF amount
<1>5. p.version = row.version
  BY <1>1, <1>4 DEF Save, UpToDate, Follows
<1>6. Tells(StoredView, refunds, q)
  <2>1. Tells(StoredView, refunds, p) /\ StoredView \in Views
    BY <1>2, <1>5, LoadedTells, StoredType DEF LogInv
  <2> HIDE DEF p, amount
  <2> QED
    BY <1>1, <1>2, <1>3, <2>1, RequestTells DEF amount
<1>7. workers'[w].pc = "call" /\ workers'[w].p = Saved(q) /\ Alone(w)
  <2>1. workers' = [workers EXCEPT ![w].pc = "call", ![w].p = Saved(q), ![w].r = {r}]
    BY <1>1
  <2> HIDE DEF q
  <2> QED
    BY <2>1 DEF Alone, LogInv, FitInv, IInv, TypeOK, WorkerState
<1>8. Save(q) /\ q \in PaymentRecord
  BY <1>1, <1>4 DEF Follows
<1> HIDE DEF q
<1>9. Saved(q).events = <<>>
  BY <1>8 DEF Saved, PaymentRecord
<1> QED
  BY <1>6, <1>7, <1>8, <1>9, SaveLog

\* A step that leaves a loaded copy as it is.
LEMMA SameCopyLog ==
  ASSUME LogInv, FitInv', NEW w \in Worker, UNCHANGED stored, Alone(w),
         workers[w].pc \in {"loaded", "call", "decided", "cancel", "reload"},
         workers'[w].pc \notin {"save", "resend"}, workers'[w].p = workers[w].p
  PROVE  LogInv'
BY SilentLog DEF LogInv, Logged, IsIdle

LEMMA RefundCallLog ==
  ASSUME LogInv, FitInv', NEW w \in Worker, RefundCall(w)
  PROVE  LogInv'
<1>1. UNCHANGED stored /\ workers[w].pc = "call"
  BY DEF RefundCall, At
<1>2. CASE Finish(w)
  BY <1>1, <1>2, FinishLog
<1>3. CASE ~Finish(w)
  <2>1. \E accepted \in BOOLEAN : workers' = [workers EXCEPT ![w].pc = "decided", ![w].accepted = accepted]
    BY <1>3 DEF RefundCall
  <2>2. workers'[w].pc = "decided" /\ workers'[w].p = workers[w].p /\ Alone(w)
    BY <2>1 DEF Alone, LogInv, FitInv, IInv, TypeOK, WorkerState
  <2> QED
    BY <1>1, <2>2, SameCopyLog
<1> QED
  BY <1>2, <1>3

LEMMA OutcomeTells ==
  ASSUME NEW v \in Views, NEW rs, NEW p \in PaymentRecord, Tells(v, rs, p), Sound(p),
         NEW r \in RefundId, NEW accepted, CanApplyOutcome(p, r, accepted)
  PROVE  Tells(v, rs, ApplyOutcome(p, r, accepted))
<1>1. {r} \cap RefundsIn(p, {"PENDING"}) \subseteq RefundsIn(p, {"PENDING"})
  OBVIOUS
<1>2. Tells(v, rs, CompleteRefund(p, r))
  BY <1>1, CompleteTells DEF CompleteRefund
<1> QED
  BY <1>2, FailTells DEF ApplyOutcome, CanApplyOutcome

LEMMA OutcomeSaveLog ==
  ASSUME LogInv, FitInv', NEW w \in Worker, workers[w].pc \in {"loaded", "decided"}, NEW r \in workers[w].r,
         CanApplyOutcome(workers[w].p, r, workers[w].accepted),
         SaveAndFinish(w, ApplyOutcome(workers[w].p, r, workers[w].accepted))
  PROVE  LogInv'
<1> DEFINE p == workers[w].p
           q == ApplyOutcome(p, r, workers[w].accepted)
<1>1. r \in RefundId /\ p \in PaymentRecord
  BY WorkerType DEF LogInv, FitInv
<1>2. q \in PaymentRecord /\ q.version = p.version
  BY <1>1, ApplyOutcomeFollows DEF Follows
<1>3. p.version = row.version => Tells(StoredView, refunds, q)
  BY <1>1, LoadedTells, StoredType, OutcomeTells DEF LogInv
<1>4. SaveAndFinish(w, q)
  OBVIOUS
<1> HIDE DEF q
<1> QED
  BY <1>2, <1>3, <1>4, SaveAndFinishLog DEF UpToDate

LEMMA RefundOutcomeLog ==
  ASSUME LogInv, FitInv', NEW w \in Worker, RefundOutcome(w)
  PROVE  LogInv'
<1>1. workers[w].pc = "decided"
  BY DEF RefundOutcome, At
<1>2. PICK r \in workers[w].r :
        /\ CanApplyOutcome(workers[w].p, r, workers[w].accepted)
        /\ \/ SaveAndFinish(w, ApplyOutcome(workers[w].p, r, workers[w].accepted))
           \/ /\ workers' = [workers EXCEPT ![w].pc = "reload"]
              /\ UNCHANGED <<stored, age, outside>>
  BY DEF RefundOutcome
<1>3. CASE SaveAndFinish(w, ApplyOutcome(workers[w].p, r, workers[w].accepted))
  BY <1>1, <1>2, <1>3, OutcomeSaveLog
<1>4. CASE workers' = [workers EXCEPT ![w].pc = "reload"] /\ UNCHANGED <<stored, age, outside>>
  <2>1. workers'[w].pc = "reload" /\ workers'[w].p = workers[w].p /\ Alone(w)
    BY <1>4 DEF Alone, LogInv, FitInv, IInv, TypeOK, WorkerState
  <2> QED
    BY <1>1, <1>4, <2>1, SameCopyLog
<1> QED
  BY <1>2, <1>3, <1>4

LEMMA OutcomeReloadLog ==
  ASSUME LogInv, FitInv', NEW w \in Worker, OutcomeReload(w)
  PROVE  LogInv'
<1>1. /\ workers'[w].pc = "row" /\ workers'[w].p.events = <<>>
      /\ Alone(w) /\ UNCHANGED stored
  BY DEF OutcomeReload, RowCopy, Alone, LogInv, FitInv, IInv, TypeOK, WorkerState
<1> QED
  BY <1>1, SilentLog

\* The reconciler moves an INITIATED payment.
LEMMA ChargeMoveLog ==
  ASSUME LogInv, FitInv', NEW w \in Worker, UNCHANGED stored, NEW q,
         workers[w].pc \in {"loaded", "cancel"}, Reconciled(workers[w].p, q),
         workers'[w].pc = "save", workers'[w].p = q, Alone(w)
  PROVE  LogInv'
<1> DEFINE p == workers[w].p
<1>1. p \in PaymentRecord
  BY WorkerType DEF LogInv, FitInv
<1>2. CanMarkPending(p) =>
        /\ Follows(p, MarkPending(p)) /\ MarkPending(p) \in PaymentRecord
        /\ CanMarkCompleted(MarkPending(p)) /\ CanMarkFailed(MarkPending(p))
  BY <1>1, LifeCycleFollows DEF Follows, CanMarkCompleted, CanMarkFailed, TerminalStatus, PaidStatus
<1>3. q.version = p.version
  BY <1>1, <1>2, LifeCycleFollows DEF Reconciled, Follows
<1>4. ASSUME p.version = row.version PROVE Tells(StoredView, refunds, q)
  <2>1. Tells(StoredView, refunds, p) /\ StoredView \in Views
    BY <1>4, LoadedTells, StoredType DEF LogInv
  <2>2. CanMarkPending(p) => Tells(StoredView, refunds, MarkPending(p))
    BY <1>1, <2>1, PendingTells
  <2> QED
    BY <1>1, <1>2, <2>1, <2>2, MovesTell DEF Reconciled
<1> QED
  BY <1>3, <1>4, EditLog

LEMMA ChargeLookupLog ==
  ASSUME LogInv, FitInv', NEW w \in Worker, ChargeLookup(w)
  PROVE  LogInv'
<1> DEFINE p == workers[w].p
<1>1. workers[w].pc = "loaded" /\ UNCHANGED stored
  BY DEF ChargeLookup, At
<1>2. CASE workers' = [workers EXCEPT ![w].pc = "cancel", ![w].p = p]
  <2>1. workers'[w].pc = "cancel" /\ workers'[w].p = p /\ Alone(w)
    BY <1>2 DEF Alone, LogInv, FitInv, IInv, TypeOK, WorkerState
  <2> QED
    BY <1>1, <2>1, SameCopyLog
<1>3. ASSUME workers' # [workers EXCEPT ![w].pc = "cancel", ![w].p = p]
      PROVE  LogInv'
  <2>1. PICK q : Reconciled(p, q) /\ workers' = [workers EXCEPT ![w].pc = "save", ![w].p = q]
    BY <1>3 DEF ChargeLookup, Reconciled
  <2>2. workers'[w].pc = "save" /\ workers'[w].p = q /\ Alone(w)
    BY <2>1 DEF Alone, LogInv, FitInv, IInv, TypeOK, WorkerState
  <2>3. Reconciled(workers[w].p, q)
    BY <2>1
  <2> QED
    BY <1>1, <2>2, <2>3, ChargeMoveLog
<1> QED
  BY <1>2, <1>3

LEMMA ChargeCancelLog ==
  ASSUME LogInv, FitInv', NEW w \in Worker, ChargeCancel(w)
  PROVE  LogInv'
<1>1. workers[w].pc = "cancel" /\ UNCHANGED stored /\ CanMarkPending(workers[w].p)
  BY DEF ChargeCancel, At
<1>2. CASE Finish(w)
  BY <1>1, <1>2, FinishLog
<1>3. CASE ~Finish(w)
  <2>1. PICK q : /\ Reconciled(workers[w].p, q)
                 /\ workers' = [workers EXCEPT ![w].pc = "save", ![w].p = q]
    BY <1>1, <1>3 DEF ChargeCancel, Reconciled
  <2>2. workers'[w].pc = "save" /\ workers'[w].p = q /\ Alone(w)
    BY <2>1 DEF Alone, LogInv, FitInv, IInv, TypeOK, WorkerState
  <2>3. Reconciled(workers[w].p, q)
    BY <2>1
  <2> QED
    BY <1>1, <2>2, <2>3, ChargeMoveLog
<1> QED
  BY <1>2, <1>3

LEMMA RefundsLookupLog ==
  ASSUME LogInv, FitInv', NEW w \in Worker, RefundsLookup(w)
  PROVE  LogInv'
<1> DEFINE p == workers[w].p
           S == Confirmed(p, ReportOf(gw))
           q == CompleteRefunds(p, S)
<1>1. workers[w].pc = "loaded" /\ UNCHANGED stored /\ p \in PaymentRecord
  BY WorkerType DEF RefundsLookup, At, LogInv, FitInv
<1>2. S \subseteq RefundsIn(p, {"PENDING"})
  BY DEF Confirmed
<1>3. workers'[w].pc = "resend" /\ workers'[w].p = q /\ Alone(w)
  BY DEF RefundsLookup, Alone, LogInv, FitInv, IInv, TypeOK, WorkerState
<1>4. p.version = row.version => Tells(StoredView, refunds, p) /\ Sound(p) /\ StoredView \in Views
  BY <1>1, LoadedTells, StoredType DEF LogInv
<1> HIDE DEF p, S
<1>5. q.version = p.version
  BY <1>1, <1>2, CompleteRefundsFollows DEF Follows
<1>6. p.version = row.version => Tells(StoredView, refunds, q)
  BY <1>1, <1>2, <1>4, CompleteTells
<1> HIDE DEF q
<1> QED
  BY <1>1, <1>3, <1>5, <1>6, EditLog

LEMMA RefundsResendLog ==
  ASSUME LogInv, FitInv', NEW w \in Worker, RefundsResend(w)
  PROVE  LogInv'
<1> DEFINE p == workers[w].p
<1>1. workers[w].pc = "resend" /\ UNCHANGED stored /\ p \in PaymentRecord /\ workers[w].todo \subseteq RefundId
  BY WorkerType DEF RefundsResend, At, LogInv, FitInv
<1>2. PICK r \in workers[w].todo : \E q :
        /\ Resent(w, r, q)
        /\ q = p \/ q = CompleteRefund(p, r) \/ (CanFailRefund(p, r) /\ q = FailRefund(p, r))
  BY DEF RefundsResend
<1>3. PICK q :
        /\ Resent(w, r, q)
        /\ q = p \/ q = CompleteRefund(p, r) \/ (CanFailRefund(p, r) /\ q = FailRefund(p, r))
  BY <1>2
<1>4. workers'[w].pc = "resend" /\ workers'[w].p = q /\ Alone(w)
  BY <1>1, <1>3 DEF Resent, Alone, LogInv, FitInv, IInv, TypeOK, WorkerState
<1>5. p.version = row.version => Tells(StoredView, refunds, p) /\ Sound(p) /\ StoredView \in Views
  BY <1>1, StoredType DEF LogInv, Logged, FitInv, IInv, CopiesSound, CopySound, UpToDate, IsIdle
<1> HIDE DEF p
<1>6. q.version = p.version
  BY <1>1, <1>3, CompleteRefundFollows, FailRefundFollows DEF Follows
<1>7. ASSUME p.version = row.version PROVE Tells(StoredView, refunds, q)
  <2>1. {r} \cap RefundsIn(p, {"PENDING"}) \subseteq RefundsIn(p, {"PENDING"})
    OBVIOUS
  <2>2. Tells(StoredView, refunds, CompleteRefund(p, r))
    BY <1>1, <1>5, <1>7, <2>1, CompleteTells DEF CompleteRefund
  <2> QED
    BY <1>1, <1>3, <1>5, <1>7, <2>2, FailTells
<1> QED
  BY <1>1, <1>4, <1>6, <1>7, EditLog

-----------------------------------------------------------------------------
(* The specification keeps it. *)

LEMMA StepLogs ==
  ASSUME LogInv, FitInv', NEW w \in Worker, Step(w)
  PROVE  LogInv'
<1>1. CASE BeginRequest(w) \/ BeginReconcileRefunds(w)
  BY <1>1, ReadRowLog DEF BeginRequest, BeginReconcileRefunds
<1>2. CASE BeginReconcileCharge(w) \/ BeginExpiry(w)
  BY <1>2, FindUnpaidLog DEF BeginReconcileCharge, BeginExpiry
<1>3. CASE Abandon(w)
  BY <1>3, FinishLog DEF Abandon
<1>4. CASE CreateSave(w) \/ CancelSave(w) \/ ChargeSave(w) \/ RefundsSave(w)
  BY <1>4, PreparedLog
<1>5. CASE ReadRefunds(w)
  BY <1>5, ReadRefundsLog
<1>6. CASE CreateCharge(w)
  BY <1>6, CreateChargeLog
<1>7. CASE CancelCall(w)
  BY <1>7, CancelCallLog
<1>8. CASE Expire(w)
  BY <1>8, ExpireLog
<1>9. CASE Callback(w)
  BY <1>9, CallbackLog
<1>10. CASE RefundReserve(w)
  BY <1>10, RefundReserveLog
<1>11. CASE RefundCall(w)
  BY <1>11, RefundCallLog
<1>12. CASE RefundOutcome(w)
  BY <1>12, RefundOutcomeLog
<1>13. CASE OutcomeReload(w)
  BY <1>13, OutcomeReloadLog
<1>14. CASE OutcomeRetry(w)
  BY <1>14, OutcomeSaveLog DEF OutcomeRetry, At
<1>15. CASE ChargeLookup(w)
  BY <1>15, ChargeLookupLog
<1>16. CASE ChargeCancel(w)
  BY <1>16, ChargeCancelLog
<1>17. CASE RefundsLookup(w)
  BY <1>17, RefundsLookupLog
<1>18. CASE RefundsResend(w)
  BY <1>18, RefundsResendLog
<1> QED
  BY <1>1, <1>2, <1>3, <1>4, <1>5, <1>6, <1>7, <1>8, <1>9, <1>10, <1>11, <1>12, <1>13,
     <1>14, <1>15, <1>16, <1>17, <1>18 DEF Step

\* A step outside PayGate.
LEMMA OutsideLogs ==
  ASSUME LogInv, FitInv', UNCHANGED stored, UNCHANGED workers
  PROVE  LogInv'
<1>1. UNCHANGED <<row, refunds, events>> /\ UNCHANGED View /\ UNCHANGED StoredView
  BY DEF stored, View, StoredView
<1>2. ASSUME NEW v \in Worker PROVE (~IsIdle(v) => Logged(workers[v]))'
  BY <1>1 DEF LogInv, IsIdle, Logged
<1>3. Leads(refunds, Absent, events, StoredView)'
  BY <1>1 DEF LogInv
<1> QED
  BY <1>2, <1>3 DEF LogInv

LEMMA InitLogs == Init => LogInv
<1> SUFFICES ASSUME Init PROVE LogInv
  OBVIOUS
<1>1. FitInv
  BY InitFits
<1>2. \A w \in Worker : IsIdle(w)
  BY IdleType DEF Init, IsIdle
<1>3. StoredView = Absent /\ events = <<>>
  BY DEF Init, StoredView, View, Absent
<1>4. Leads(refunds, Absent, <<>>, Absent)
  BY <1>1, StoredType, LeadsNowhere
<1> QED
  BY <1>1, <1>2, <1>3, <1>4 DEF LogInv

LEMMA NextLogs == LogInv /\ [Next]_vars => LogInv'
<1> SUFFICES ASSUME LogInv, [Next]_vars PROVE LogInv'
  OBVIOUS
<1>1. FitInv'
  BY NextFits DEF LogInv
<1>2. ASSUME NEW w \in Worker, Step(w) PROVE LogInv'
  BY <1>1, <1>2, StepLogs
<1>3. CASE GatewaySettles \/ RefundInDashboard \/ UNCHANGED vars \/ \E r \in RefundId : GrowOlder(r)
  <2>1. UNCHANGED stored /\ UNCHANGED workers
    BY <1>3 DEF GatewaySettles, RefundInDashboard, GrowOlder, vars, stored
  <2> QED
    BY <1>1, <2>1, OutsideLogs
<1> QED
  BY <1>2, <1>3 DEF Next

\* Whoever replays payment_events in sequence order arrives at the stored status
\* and refunds: PaymentRepo.Save writes the events a copy raised in the
\* transaction that writes what they report, and the version check that refuses
\* a stale copy keeps the events of a lost Save out of the log.
THEOREM LogTellsAll == Spec => []EventsReplay
<1>1. Init => LogInv
  BY InitLogs
<1>2. LogInv /\ [Next]_vars => LogInv'
  BY NextLogs
<1>3. LogInv => EventsReplay
  <2>1. LogInv => events \in Seq(Event) /\ Leads(refunds, Absent, events, StoredView)
    BY DEF LogInv, FitInv, IInv, TypeOK
  <2> QED
    BY <2>1, ReplayEnds DEF EventsReplay, StoredView, View
<1> QED
  BY <1>1, <1>2, <1>3, PTL DEF Spec
=============================================================================
