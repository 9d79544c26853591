---------------------------- MODULE PayGateProofs ----------------------------
(***************************************************************************)
(* Proofs that, for any number of workers, refunds, amounts and ages, the  *)
(* store keeps its types, never reserves more refunds than was paid, and   *)
(* implements PaymentLifecycle.                                            *)
(*                                                                         *)
(* NoOverRefund is not inductive: a worker may hold a stale copy, a copy   *)
(* read in two halves, or one loaded without refunds, and write it back.   *)
(* What makes it safe is that such a copy's version gives it away, which   *)
(* CopiesSound says.  Each step of a worker either leaves the store alone  *)
(* (KeepStore) or saves a copy reached by methods of the aggregate from    *)
(* one that is up to date (SaveStore).                                     *)
(*                                                                         *)
(* First come facts about the aggregate's operators: what they return, and *)
(* how they move the amounts reserved by refunds.                          *)
(***************************************************************************)
EXTENDS PayGate, FiniteSetTheorems, TLAPS

-----------------------------------------------------------------------------
(* Amounts. *)

\* A total is a natural number: there are finitely many units to count.
LEMMA TotalType ==
  ASSUME NEW rs, NEW S
  PROVE  IsFiniteSet(Units(rs, S)) /\ Total(rs, S) \in Nat
<1>1. IsFiniteSet(1..Amount)
  BY AmountAssumption, FS_Interval
<1>2. IsFiniteSet(RefundId \X (1..Amount))
  BY <1>1, RefundIdAssumption, FS_Product
<1>3. Units(rs, S) \in SUBSET (RefundId \X (1..Amount))
  BY DEF Units
<1>4. IsFiniteSet(Units(rs, S))
  BY <1>2, <1>3, FS_Subset
<1>5. Cardinality(Units(rs, S)) \in Nat
  BY <1>4, FS_CardinalityType
<1>. QED
  BY <1>4, <1>5 DEF Total

\* Where fewer units are held, the total is no larger.
LEMMA TotalMonotone ==
  ASSUME NEW rs, NEW qs, NEW S, Units(rs, S) \subseteq Units(qs, S)
  PROVE  Total(rs, S) <= Total(qs, S)
<1>1. IsFiniteSet(Units(qs, S))
  BY TotalType
<1>2. Units(rs, S) \in SUBSET Units(qs, S)
  OBVIOUS
<1>3. Cardinality(Units(rs, S)) <= Cardinality(Units(qs, S))
  BY <1>1, <1>2, FS_Subset
<1>. QED
  BY <1>3 DEF Total

\* No refunds, no total.
LEMMA TotalNone ==
  ASSUME NEW rs, \A r \in RefundId : rs[r].status = "NONE"
  PROVE  Total(rs, ReservedStatus) = 0
<1>1. Units(rs, ReservedStatus) = {}
  BY DEF Units, ReservedStatus
<1>. QED
  BY <1>1, FS_EmptySet DEF Total

\* The units of one refund are as many as its amount.
LEMMA UnitsOfOne ==
  ASSUME NEW r \in RefundId, NEW a \in 0..Amount
  PROVE  IsFiniteSet({r} \X (1..a)) /\ Cardinality({r} \X (1..a)) = a
<1>1. IsFiniteSet({r}) /\ Cardinality({r}) = 1
  BY FS_Singleton
<1>2. IsFiniteSet(1..a) /\ Cardinality(1..a) = a
  BY FS_Interval, AmountAssumption
<1>3. Cardinality({r} \X (1..a)) = 1 * a
  BY <1>1, <1>2, FS_Product
<1>4. IsFiniteSet({r} \X (1..a))
  BY <1>1, <1>2, FS_Product
<1>5. 1 * a = a
  BY AmountAssumption
<1>. QED
  BY <1>3, <1>4, <1>5

\* Requesting a refund raises the reserved total by exactly its amount.
LEMMA TotalAfterRequest ==
  ASSUME NEW rs \in [RefundId -> Refund], NEW r \in RefundId, rs[r].status = "NONE",
         NEW a \in 0..Amount, NEW ref \in Reference
  PROVE  Total([rs EXCEPT ![r] = [status |-> "PENDING", amount |-> a, ref |-> ref]], ReservedStatus)
           = Total(rs, ReservedStatus) + a
<1> DEFINE new == [rs EXCEPT ![r] = [status |-> "PENDING", amount |-> a, ref |-> ref]]
           old == Units(rs, ReservedStatus)
           mine == {r} \X (1..a)
<1>1. Units(new, ReservedStatus) = old \cup mine
  <2>1. new[r].status = "PENDING" /\ new[r].amount = a
    OBVIOUS
  <2>2. \A s \in RefundId : s # r => new[s] = rs[s]
    OBVIOUS
  <2>3. \A u \in RefundId \X (1..Amount) : u[1] = r => (u \in Units(new, ReservedStatus) <=> u[2] <= a)
    BY <2>1 DEF Units, ReservedStatus
  <2>4. \A u \in RefundId \X (1..Amount) : u[1] # r => (u \in Units(new, ReservedStatus) <=> u \in old)
    BY <2>2 DEF Units
  <2>5. \A u \in RefundId \X (1..Amount) : u[1] = r => u \notin old
    BY DEF Units, ReservedStatus
  <2>6. \A u \in RefundId \X (1..Amount) : u \in mine <=> u[1] = r /\ u[2] <= a
    OBVIOUS
  <2>7. mine \subseteq RefundId \X (1..Amount)
    BY AmountAssumption
  <2>8. Units(new, ReservedStatus) \subseteq RefundId \X (1..Amount) /\ old \subseteq RefundId \X (1..Amount)
    BY DEF Units
  <2>. HIDE DEF new, old, mine
  <2>. QED
    BY <2>3, <2>4, <2>5, <2>6, <2>7, <2>8
<1>2. old \cap mine = {}
  BY DEF Units, ReservedStatus
<1>3. IsFiniteSet(old) /\ Cardinality(old) \in Nat
  BY TotalType DEF Total
<1>4. IsFiniteSet(mine) /\ Cardinality(mine) = a
  BY UnitsOfOne
<1>5. Cardinality(old \cup mine) = Cardinality(old) + Cardinality(mine) - Cardinality(old \cap mine)
  BY <1>3, <1>4, FS_Union
<1>6. Cardinality(old \cap mine) = 0
  BY <1>2, FS_EmptySet
<1>7. a \in Nat
  BY AmountAssumption
<1>8. Cardinality(old \cup mine) = Cardinality(old) + a
  BY <1>3, <1>4, <1>5, <1>6, <1>7
<1>. QED
  BY <1>1, <1>8 DEF Total

-----------------------------------------------------------------------------
(* The methods. *)

\* What one method call may make of a payment value.
Follows(p, q) ==
  /\ q \in PaymentRecord
  /\ q.version = p.version
  /\ \A r \in RefundId : p.refunds[r].status # "NONE" => q.refunds[r].status # "NONE"
  /\ Sound(p) => Sound(q)

\* Calls made one after another.
LEMMA FollowsTransitive ==
  ASSUME NEW p, NEW q, NEW s, Follows(p, q), Follows(q, s)
  PROVE  Follows(p, s)
BY DEF Follows

\* A call that changes nothing.
LEMMA FollowsReflexive ==
  ASSUME NEW p \in PaymentRecord
  PROVE  Follows(p, p)
BY DEF Follows

\* A payment as New makes it.
LEMMA NewSound == New \in PaymentRecord /\ Sound(New) /\ New.version = 0
<1>1. NoRefunds \in [RefundId -> Refund]
  BY AmountAssumption DEF NoRefunds, NoRefund, Refund, RefundStatus
<1>2. << <<"PaymentInitiated", {}>> >> \in Seq(Event)
  BY DEF Event, EventType
<1>3. New \in PaymentRecord
  BY <1>1, <1>2 DEF New, PaymentRecord, Status
<1>4. NoneRequested(New.refunds)
  BY DEF New, NoneRequested, NoRefunds, NoRefund
<1>5. Total(New.refunds, ReservedStatus) = 0
  BY <1>4, TotalNone DEF NoneRequested
<1>. QED
  BY <1>3, <1>4, <1>5, AmountAssumption DEF Sound, New

\* A move of the payment's own life cycle, made while it is unpaid.
LEMMA MoveFollows ==
  ASSUME NEW p \in PaymentRecord, p.status \notin PaidStatus,
         NEW status \in Status, NEW event \in EventType
  PROVE  Follows(p, Move(p, status, event))
<1> DEFINE q == Move(p, status, event)
<1>1. <<event, {}>> \in Event
  BY DEF Event
<1>2. Append(p.events, <<event, {}>>) \in Seq(Event)
  BY <1>1 DEF PaymentRecord
<1>3. q \in PaymentRecord
  BY <1>2 DEF Move, PaymentRecord
<1>4. q.version = p.version /\ q.refunds = p.refunds
  BY DEF Move, PaymentRecord
<1>. QED
  BY <1>3, <1>4 DEF Follows, Sound

\* The same for each method of the life cycle.
LEMMA LifeCycleFollows ==
  ASSUME NEW p \in PaymentRecord
  PROVE  /\ CanMarkPending(p) => Follows(p, MarkPending(p)) /\ MarkPending(p).status = "PENDING"
         /\ CanMarkCompleted(p) => Follows(p, MarkCompleted(p))
         /\ CanMarkFailed(p) => Follows(p, MarkFailed(p))
         /\ CanMarkExpired(p) => Follows(p, MarkExpired(p))
         /\ CanCancel(p) => Follows(p, Cancel(p))
<1> USE DEF Status, TerminalStatus, PaidStatus, EventType
<1>1. ASSUME CanMarkPending(p)
      PROVE  Follows(p, MarkPending(p)) /\ MarkPending(p).status = "PENDING"
  <2> DEFINE q == [p EXCEPT !.tx = TRUE]
  <2>1. q \in PaymentRecord /\ q.refunds = p.refunds /\ q.version = p.version /\ q.status = p.status
    BY DEF PaymentRecord
  <2>2. q.status \notin PaidStatus
    BY <1>1, <2>1 DEF CanMarkPending
  <2>3. Follows(p, q)
    BY <2>1 DEF Follows, Sound
  <2>4. Follows(q, Move(q, "PENDING", "PaymentPending"))
    BY <2>1, <2>2, MoveFollows
  <2>5. Move(q, "PENDING", "PaymentPending").status = "PENDING"
    BY <2>1 DEF Move, PaymentRecord
  <2>. QED
    BY <2>3, <2>4, <2>5, FollowsTransitive DEF MarkPending
<1>2. CanMarkCompleted(p) => Follows(p, MarkCompleted(p))
  BY MoveFollows DEF CanMarkCompleted, MarkCompleted
<1>3. CanMarkFailed(p) => Follows(p, MarkFailed(p))
  BY MoveFollows DEF CanMarkFailed, MarkFailed
<1>4. CanMarkExpired(p) => Follows(p, MarkExpired(p))
  BY MoveFollows DEF CanMarkExpired, MarkExpired
<1>5. CanCancel(p) => Follows(p, Cancel(p))
  BY MoveFollows DEF CanCancel, Cancel
<1>. QED
  BY <1>1, <1>2, <1>3, <1>4, <1>5

\* A refund is requested within what is left, under an ID that names none yet.
LEMMA RequestRefundFollows ==
  ASSUME NEW p \in PaymentRecord, NEW r \in RefundId, p.refunds[r].status = "NONE",
         NEW ref \in Reference, NEW amount \in Int, CanRequestRefund(p, ref, amount)
  PROVE  Follows(p, RequestRefund(p, r, ref, amount))
<1> DEFINE q == RequestRefund(p, r, ref, amount)
           reserved == Total(p.refunds, ReservedStatus)
<1>1. reserved \in Nat
  BY TotalType
<1>2. amount \in 1..Amount /\ reserved + amount <= Amount
  BY <1>1, AmountAssumption DEF CanRequestRefund, RefundableAmount
<1>3. [status |-> "PENDING", amount |-> amount, ref |-> ref] \in Refund
  BY <1>2 DEF Refund, RefundStatus
<1>4. Append(p.events, <<"RefundRequested", {r}>>) \in Seq(Event)
  BY DEF PaymentRecord, Event, EventType
<1>5. q \in PaymentRecord
  BY <1>3, <1>4 DEF RequestRefund, PaymentRecord
<1>6. /\ q.version = p.version /\ q.status = p.status
      /\ q.refunds = [p.refunds EXCEPT ![r] = [status |-> "PENDING", amount |-> amount, ref |-> ref]]
  BY DEF RequestRefund, PaymentRecord
<1>7. p.refunds \in [RefundId -> Refund]
  BY DEF PaymentRecord
<1>8. Total(q.refunds, ReservedStatus) = reserved + amount
  BY <1>2, <1>6, <1>7, TotalAfterRequest
<1>9. Sound(q)
  BY <1>2, <1>6, <1>8 DEF Sound, CanRequestRefund, PaidStatus
<1>10. \A s \in RefundId : p.refunds[s].status # "NONE" => q.refunds[s].status # "NONE"
  BY <1>6, <1>7
<1>. QED
  BY <1>5, <1>6, <1>9, <1>10 DEF Follows

\* Settling refunds takes nothing from the other reservations.
LEMMA CompleteRefundsFollows ==
  ASSUME NEW p \in PaymentRecord, NEW S, S \subseteq RefundsIn(p, {"PENDING"})
  PROVE  Follows(p, CompleteRefunds(p, S))
<1> DEFINE q == CompleteRefunds(p, S)
           rs == [r \in RefundId |-> IF r \in S THEN [p.refunds[r] EXCEPT !.status = "SUCCEEDED"]
                                              ELSE p.refunds[r]]
           status == IF RefundedAmount([p EXCEPT !.refunds = rs]) >= Amount
                       THEN "REFUNDED" ELSE "PARTIALLY_REFUNDED"
<1>1. CASE S = {}
  BY <1>1, FollowsReflexive DEF CompleteRefunds
<1>2. CASE S # {}
  <2>1. p.refunds \in [RefundId -> Refund] /\ p.events \in Seq(Event)
    BY DEF PaymentRecord
  <2>2. \A r \in S : r \in RefundId /\ p.refunds[r].status = "PENDING"
    BY DEF RefundsIn
  <2>3. rs \in [RefundId -> Refund]
    BY <2>1 DEF Refund, RefundStatus
  <2>4. \A r \in RefundId : /\ rs[r].amount = p.refunds[r].amount
                            /\ rs[r].status = IF r \in S THEN "SUCCEEDED" ELSE p.refunds[r].status
    BY <2>1 DEF Refund
  <2>5. Units(rs, ReservedStatus) = Units(p.refunds, ReservedStatus)
    BY <2>2, <2>4 DEF Units, ReservedStatus
  <2>6. status \in Status /\ status \in PaidStatus
    BY DEF Status, TerminalStatus, PaidStatus
  <2>7. Append(p.events, <<"RefundCompleted", S>>) \in Seq(Event)
    BY <2>1, <2>2 DEF Event, EventType
  <2>8. q = [[p EXCEPT !.refunds = rs] EXCEPT !.status = status,
                                              !.events = Append(@, <<"RefundCompleted", S>>)]
    BY <1>2 DEF CompleteRefunds
  <2>9. /\ q.version = p.version /\ q.status = status /\ q.refunds = rs /\ q.tx = p.tx
        /\ q.events = Append(p.events, <<"RefundCompleted", S>>)
        /\ q = [status |-> q.status, tx |-> q.tx, version |-> q.version,
                refunds |-> q.refunds, events |-> q.events]
    <3>. HIDE DEF q, rs, status
    <3>. QED
      BY <2>8 DEF PaymentRecord
  <2>10. q \in PaymentRecord
    <3>. HIDE DEF q, rs, status
    <3>. QED
      BY <2>3, <2>6, <2>7, <2>9 DEF PaymentRecord
  <2>11. Sound(p) => Sound(q)
    <3>1. Total(rs, ReservedStatus) = Total(p.refunds, ReservedStatus)
      BY <2>5 DEF Total
    <3>. HIDE DEF q, rs, status
    <3>. QED
      BY <3>1, <2>6, <2>9 DEF Sound
  <2>12. \A r \in RefundId : p.refunds[r].status # "NONE" => rs[r].status # "NONE"
    BY <2>4
  <2>13. Follows(p, q)
    <3>. HIDE DEF q, rs, status
    <3>. QED
      BY <2>9, <2>10, <2>11, <2>12 DEF Follows
  <2>. QED
    BY <2>13
<1>. QED
  BY <1>1, <1>2

\* The confirmation of one refund.
LEMMA CompleteRefundFollows ==
  ASSUME NEW p \in PaymentRecord, NEW r \in RefundId
  PROVE  Follows(p, CompleteRefund(p, r))
<1>1. {r} \cap RefundsIn(p, {"PENDING"}) \subseteq RefundsIn(p, {"PENDING"})
  OBVIOUS
<1>. QED
  BY <1>1, CompleteRefundsFollows DEF CompleteRefund

\* A declined refund gives its reservation back.
LEMMA FailRefundFollows ==
  ASSUME NEW p \in PaymentRecord, NEW r \in RefundId, CanFailRefund(p, r)
  PROVE  Follows(p, FailRefund(p, r))
<1> DEFINE q == FailRefund(p, r)
<1>1. p.refunds \in [RefundId -> Refund] /\ p.events \in Seq(Event)
  BY DEF PaymentRecord
<1>2. Append(p.events, <<"RefundFailed", {r}>>) \in Seq(Event)
  BY <1>1 DEF Event, EventType
<1>3. [p.refunds EXCEPT ![r].status = "FAILED"] \in [RefundId -> Refund]
  BY <1>1 DEF Refund, RefundStatus
<1>4. /\ q.version = p.version /\ q.status = p.status /\ q.tx = p.tx
      /\ q.refunds = [p.refunds EXCEPT ![r].status = "FAILED"]
      /\ q.events = Append(p.events, <<"RefundFailed", {r}>>)
      /\ q \in PaymentRecord
  BY <1>2, <1>3 DEF FailRefund, PaymentRecord
<1>5. \A s \in RefundId : /\ q.refunds[s].amount = p.refunds[s].amount
                          /\ q.refunds[s].status = IF s = r THEN "FAILED" ELSE p.refunds[s].status
  BY <1>1, <1>4 DEF Refund
<1>6. Units(q.refunds, ReservedStatus) \subseteq Units(p.refunds, ReservedStatus)
  BY <1>5 DEF Units, ReservedStatus
<1>7. Total(q.refunds, ReservedStatus) <= Total(p.refunds, ReservedStatus)
  BY <1>6, TotalMonotone
<1>8. Total(q.refunds, ReservedStatus) \in Nat /\ Total(p.refunds, ReservedStatus) \in Nat
  BY TotalType
<1>9. p.refunds[r].status # "NONE"
  BY DEF CanFailRefund
<1>10. Sound(p) => Sound(q)
  BY <1>4, <1>7, <1>8, <1>9, AmountAssumption DEF Sound, NoneRequested
<1>. QED
  BY <1>4, <1>5, <1>10 DEF Follows
-----------------------------------------------------------------------------

\* The inductive invariant.
IInv == TypeOK /\ CopiesSound

\* CopySound, of the worker's state as a value.
CopyOK(x) ==
  /\ x.p.version <= row.version
  /\ x.p.version = row.version =>
       IF x.pc = "row" THEN x.p.status = row.status ELSE Sound(x.p) /\ Covers(x.p)

-----------------------------------------------------------------------------
(* The two kinds of step. *)

\* A step of worker w that changes nothing stored.
LEMMA KeepStore ==
  ASSUME IInv, NEW w \in Worker, UNCHANGED stored,
         age' \in [RefundId -> 0..OldestAge], gw' \in GatewayTx, notifs' \subseteq Report,
         NEW x \in WorkerState, workers' = [workers EXCEPT ![w] = x],
         x.pc # "idle" => CopyOK(x)
  PROVE  IInv'
<1>1. workers' \in [Worker -> WorkerState]
  BY DEF IInv, TypeOK
<1>2. TypeOK'
  BY <1>1 DEF IInv, TypeOK, stored
<1>3. \A v \in Worker : CopySound(v)'
  <2> SUFFICES ASSUME NEW v \in Worker PROVE CopySound(v)'
    OBVIOUS
  <2>1. CASE v = w
    <3>1. workers'[v] = x
      BY <2>1 DEF IInv, TypeOK
    <3>. QED
      BY <3>1 DEF CopySound, CopyOK, IsIdle, UpToDate, Covers, stored
  <2>2. CASE v # w
    <3>1. workers'[v] = workers[v]
      BY <2>2 DEF IInv, TypeOK
    <3>2. CopySound(v)
      BY DEF IInv, CopiesSound
    <3>. QED
      BY <3>1, <3>2 DEF CopySound, IsIdle, UpToDate, Covers, stored
  <2>. QED
    BY <2>1, <2>2
<1>4. CopiesSound'
  BY <1>3 DEF IInv, CopiesSound, NoOverRefund, stored
<1>. QED
  BY <1>2, <1>4 DEF IInv

\* What is in the database after a Save that commits.
LEMMA UpsertedReserves ==
  ASSUME NEW q \in PaymentRecord, Covers(q), refunds \in [RefundId -> Refund]
  PROVE  /\ Upserted(q) \in [RefundId -> Refund]
         /\ Total(Upserted(q), ReservedStatus) = Total(q.refunds, ReservedStatus)
         /\ \A r \in RefundId : Upserted(q)[r].status = q.refunds[r].status
<1>1. q.refunds \in [RefundId -> Refund]
  BY DEF PaymentRecord
<1>2. Upserted(q) \in [RefundId -> Refund]
  BY <1>1 DEF Upserted
<1>3. \A r \in RefundId : /\ Upserted(q)[r].status = q.refunds[r].status
                          /\ q.refunds[r].status # "NONE" => Upserted(q)[r] = q.refunds[r]
  BY DEF Upserted, Covers
<1>4. Units(Upserted(q), ReservedStatus) = Units(q.refunds, ReservedStatus)
  BY <1>3 DEF Units, ReservedStatus
<1>. QED
  BY <1>2, <1>3, <1>4 DEF Total

\* A step of worker w that saves q, which follows from its copy.
LEMMA SaveStore ==
  ASSUME IInv, NEW w \in Worker, ~IsIdle(w), workers[w].pc # "row",
         NEW q, Follows(workers[w].p, q), Save(q),
         UNCHANGED age, UNCHANGED outside,
         NEW x \in WorkerState, workers' = [workers EXCEPT ![w] = x],
         x.pc = "idle" \/ (x.pc # "row" /\ x.p = Saved(q))
  PROVE  IInv'
<1> DEFINE p == workers[w].p
<1>1. workers' \in [Worker -> WorkerState] /\ workers'[w] = x
      /\ \A v \in Worker : v # w => workers'[v] = workers[v]
  BY DEF IInv, TypeOK
<1>2. /\ q \in PaymentRecord /\ q.version = p.version /\ q.version = row.version
      /\ p \in PaymentRecord
  BY DEF Follows, Save, UpToDate, IInv, TypeOK, WorkerState
<1>3. Sound(p) /\ Covers(p)
  BY <1>2 DEF IInv, CopiesSound, CopySound, UpToDate
<1>4. Sound(q) /\ Covers(q)
  BY <1>3 DEF Follows, Covers
<1>5. refunds \in [RefundId -> Refund] /\ row.version \in Nat /\ events \in Seq(Event)
  BY DEF IInv, TypeOK
<1>6. /\ refunds' \in [RefundId -> Refund]
      /\ Total(refunds', ReservedStatus) = Total(q.refunds, ReservedStatus)
      /\ \A r \in RefundId : refunds'[r].status = q.refunds[r].status
  BY <1>2, <1>4, <1>5, UpsertedReserves DEF Save
<1>7. /\ row' \in [status: Status, tx: BOOLEAN, version: Nat]
      /\ row'.status = q.status /\ row'.version = row.version + 1
  BY <1>2, <1>5 DEF Save, PaymentRecord
<1>8. events' \in Seq(Event)
  <2>1. q.events \in Seq(Event)
    BY <1>2 DEF PaymentRecord
  <2>. QED
    BY <1>5, <2>1 DEF Save
<1>9. TypeOK'
  BY <1>1, <1>6, <1>7, <1>8 DEF IInv, TypeOK, outside
<1>10. NoOverRefund'
  BY <1>4, <1>6 DEF NoOverRefund, Sound
<1>11. (row.status \notin PaidStatus => NoneRequested(refunds))'
  BY <1>4, <1>6, <1>7 DEF Sound, NoneRequested
<1>12. \A v \in Worker : CopySound(v)'
  <2> SUFFICES ASSUME NEW v \in Worker PROVE CopySound(v)'
    OBVIOUS
  <2>1. CASE v = w
    <3>1. CASE x.pc = "idle"
      BY <1>1, <2>1, <3>1 DEF CopySound, IsIdle
    <3>2. CASE x.pc # "row" /\ x.p = Saved(q)
      <4>1. x.p.version = row'.version /\ x.p.refunds = q.refunds /\ x.p.status = q.status
        BY <1>2, <1>7, <3>2 DEF Saved, PaymentRecord
      <4>2. Sound(x.p)
        BY <1>4, <4>1 DEF Sound
      <4>3. Covers(x.p)'
        BY <1>6, <4>1 DEF Covers
      <4>. QED
        BY <1>1, <1>5, <1>7, <2>1, <3>2, <4>1, <4>2, <4>3 DEF CopySound, IsIdle, UpToDate, Covers
    <3>. QED
      BY <3>1, <3>2
  <2>2. CASE v # w
    <3>1. workers'[v] = workers[v] /\ workers[v].p.version \in Nat
      BY <1>1, <2>2 DEF IInv, TypeOK, WorkerState, PaymentRecord
    <3>2. ~IsIdle(v) => workers[v].p.version <= row.version
      BY DEF IInv, CopiesSound, CopySound
    <3>. QED
      BY <1>5, <1>7, <3>1, <3>2 DEF CopySound, IsIdle, UpToDate
  <2>. QED
    BY <2>1, <2>2
<1>13. row'.version # 0
  BY <1>5, <1>7
<1>. QED
  BY <1>9, <1>10, <1>11, <1>12, <1>13 DEF IInv, CopiesSound

-----------------------------------------------------------------------------
(* Types of what the steps are made of. *)

\* What is outside the store is well typed after a step.
OutsideOK == age' \in [RefundId -> 0..OldestAge] /\ gw' \in GatewayTx /\ notifs' \subseteq Report

\* A worker that does nothing.
LEMMA IdleType == Idle \in WorkerState /\ Idle.pc = "idle"
BY NewSound DEF Idle, WorkerState, OpNames

\* A step that leaves the outside alone.
LEMMA OutsideUnchanged ==
  ASSUME IInv, UNCHANGED age, UNCHANGED outside
  PROVE  OutsideOK
BY DEF IInv, TypeOK, OutsideOK, outside

\* A step at the gateway.
LEMMA GatewayMoves ==
  ASSUME IInv, UNCHANGED age, NEW g \in GatewayTx, GatewayBecomes(g)
  PROVE  OutsideOK
<1>1. mapTransactionStatus(GatewayStatus(g)) \in {"SETTLED", "PENDING", "FAILED", "UNKNOWN"}
  BY DEF mapTransactionStatus
<1>2. ReportOf(g) \in Report
  BY <1>1 DEF ReportOf, Report, GatewayTx
<1>. QED
  BY <1>2 DEF IInv, TypeOK, OutsideOK, GatewayBecomes

\* The copy toDomain makes of a row.
LEMMA RowCopyType ==
  ASSUME IInv
  PROVE  /\ RowCopy \in PaymentRecord
         /\ RowCopy.version = row.version /\ RowCopy.status = row.status
         /\ RowCopy.refunds = NoRefunds
<1>1. NoRefunds \in [RefundId -> Refund]
  BY AmountAssumption DEF NoRefunds, NoRefund, Refund, RefundStatus
<1>2. <<>> \in Seq(Event)
  OBVIOUS
<1>. QED
  BY <1>1, <1>2 DEF IInv, TypeOK, RowCopy, PaymentRecord

\* A worker's own step: what it holds afterwards.
LEMMA WorkerType ==
  ASSUME IInv, NEW w \in Worker
  PROVE  /\ workers[w] \in WorkerState
         /\ workers[w].p \in PaymentRecord
         /\ workers[w].r \subseteq RefundId /\ workers[w].todo \subseteq RefundId
BY DEF IInv, TypeOK, WorkerState

\* A copy edited by the aggregate's methods stays as good as it was.
LEMMA CopyEdited ==
  ASSUME IInv, NEW w \in Worker, ~IsIdle(w), workers[w].pc # "row",
         NEW x \in WorkerState, x.pc # "row", Follows(workers[w].p, x.p)
  PROVE  CopyOK(x)
<1>1. CopySound(w)
  BY DEF IInv, CopiesSound
<1>. QED
  BY <1>1 DEF CopySound, CopyOK, Follows, UpToDate, Covers

-----------------------------------------------------------------------------
(* Loading. *)

\* The first query of FindByID.
LEMMA ReadRowStep ==
  ASSUME IInv, NEW w \in Worker, NEW op \in OpNames, ReadRow(w, op),
         UNCHANGED stored, UNCHANGED age, UNCHANGED outside
  PROVE  IInv'
<1> DEFINE x == [Idle EXCEPT !.op = op, !.pc = "row", !.p = RowCopy]
<1>1. x \in WorkerState /\ x.pc = "row" /\ x.p = RowCopy
  BY RowCopyType, IdleType DEF WorkerState
<1>2. CopyOK(x)
  BY <1>1, RowCopyType DEF CopyOK, IInv, TypeOK
<1>. HIDE DEF x
<1>3. workers' = [workers EXCEPT ![w] = x]
  BY DEF ReadRow, x
<1>. QED
  BY <1>1, <1>2, <1>3, OutsideUnchanged, KeepStore DEF OutsideOK

\* The second query of FindByID.
LEMMA ReadRefundsStep ==
  ASSUME IInv, NEW w \in Worker, ReadRefunds(w)
  PROVE  IInv'
<1> DEFINE q == [workers[w].p EXCEPT !.refunds = refunds]
           x == [workers[w] EXCEPT !.pc = "loaded", !.p = q]
<1>a. refunds \in [RefundId -> Refund]
  BY DEF IInv, TypeOK
<1>b. /\ q \in PaymentRecord /\ q.refunds = refunds
      /\ q.version = workers[w].p.version /\ q.status = workers[w].p.status
  BY <1>a, WorkerType DEF PaymentRecord
<1>. HIDE DEF q
<1>1. /\ x \in WorkerState /\ x.pc = "loaded" /\ x.p.refunds = refunds
      /\ x.p.version = workers[w].p.version /\ x.p.status = workers[w].p.status
  BY <1>b, WorkerType DEF WorkerState
<1>2. CopySound(w) /\ ~IsIdle(w)
  BY DEF IInv, CopiesSound, ReadRefunds, IsIdle
<1>3. CopyOK(x)
  BY <1>1, <1>2 DEF CopyOK, CopySound, UpToDate, ReadRefunds, Sound, Covers, IInv, CopiesSound, NoOverRefund
<1>4. workers' = [workers EXCEPT ![w] = x]
  BY WorkerType DEF ReadRefunds, IInv, TypeOK, WorkerState, PaymentRecord, q
<1>. HIDE DEF x
<1>. QED
  BY <1>1, <1>3, <1>4, OutsideUnchanged, KeepStore DEF OutsideOK, ReadRefunds

\* A finder of unpaid payments: there are no refunds to miss.
LEMMA FindUnpaidStep ==
  ASSUME IInv, NEW w \in Worker, NEW op \in OpNames, NEW status \in Status \ PaidStatus,
         FindUnpaid(w, op, status)
  PROVE  IInv'
<1> DEFINE x == [Idle EXCEPT !.op = op, !.pc = "loaded", !.p = RowCopy]
<1>1. x \in WorkerState /\ x.pc = "loaded" /\ x.p = RowCopy
  BY RowCopyType, IdleType DEF WorkerState
<1>2. NoneRequested(refunds)
  BY DEF FindUnpaid, IInv, CopiesSound
<1>3. NoneRequested(NoRefunds) /\ Total(NoRefunds, ReservedStatus) = 0
  BY TotalNone DEF NoneRequested, NoRefunds, NoRefund
<1>4. Sound(RowCopy) /\ Covers(RowCopy)
  BY <1>2, <1>3, RowCopyType, AmountAssumption DEF Sound, Covers, NoneRequested
<1>5. CopyOK(x)
  BY <1>1, <1>4, RowCopyType DEF CopyOK, IInv, TypeOK
<1>. HIDE DEF x
<1>6. workers' = [workers EXCEPT ![w] = x]
  BY DEF FindUnpaid, x
<1>. QED
  BY <1>1, <1>5, <1>6, OutsideUnchanged, KeepStore DEF OutsideOK, FindUnpaid

\* An operation that ends without saving.
LEMMA FinishStep ==
  ASSUME IInv, NEW w \in Worker, Finish(w), UNCHANGED stored, OutsideOK
  PROVE  IInv'
BY IdleType, KeepStore DEF Finish, OutsideOK

\* An operation whose last step is a Save.
LEMMA SaveAndFinishStep ==
  ASSUME IInv, NEW w \in Worker, ~IsIdle(w), workers[w].pc # "row",
         NEW q, Follows(workers[w].p, q), SaveAndFinish(w, q)
  PROVE  IInv'
BY IdleType, SaveStore DEF SaveAndFinish, Finish

-----------------------------------------------------------------------------
(* One lemma per operation. *)

\* What a worker that is loading, editing or saving is not.
LEMMA Busy ==
  ASSUME NEW w, NEW op, NEW pc, At(w, op, pc), pc # "idle", pc # "row"
  PROVE  ~IsIdle(w) /\ workers[w].pc # "row"
BY DEF At, IsIdle

\* A charge whose outcome is known: PENDING first, then its final status.
LEMMA PendingThenFinal ==
  ASSUME NEW p \in PaymentRecord, CanMarkPending(p)
  PROVE  /\ Follows(p, MarkPending(p))
         /\ Follows(p, MarkCompleted(MarkPending(p)))
         /\ Follows(p, MarkFailed(MarkPending(p)))
<1> DEFINE a == MarkPending(p)
<1>1. Follows(p, a) /\ a.status = "PENDING" /\ a \in PaymentRecord
  BY LifeCycleFollows DEF Follows
<1>. HIDE DEF a
<1>2. Follows(a, MarkCompleted(a)) /\ Follows(a, MarkFailed(a))
  BY <1>1, LifeCycleFollows DEF CanMarkCompleted, CanMarkFailed, TerminalStatus, PaidStatus
<1>3. Follows(p, MarkCompleted(a)) /\ Follows(p, MarkFailed(a))
  BY <1>1, <1>2, FollowsTransitive
<1>. QED
  BY <1>1, <1>3 DEF a

\* The charge of a payment nobody has stored.
LEMMA CreateChargeStep ==
  ASSUME IInv, NEW w \in Worker, CreateCharge(w)
  PROVE  IInv'
<1>1. PICK p : /\ p \in {New, MarkFailed(New)} \cup {AfterCharge(word) : word \in {"pending", "settlement", "deny"}}
               /\ workers' = [workers EXCEPT ![w] = [Idle EXCEPT !.op = "create", !.pc = "save", !.p = p]]
  BY DEF CreateCharge
<1>2. \A word : Follows(New, AfterCharge(word))
  BY NewSound, PendingThenFinal DEF AfterCharge, CanMarkPending, New
<1>3. Follows(New, New) /\ Follows(New, MarkFailed(New))
  BY NewSound, LifeCycleFollows, FollowsReflexive DEF CanMarkFailed, New, TerminalStatus, PaidStatus
<1>4. Follows(New, p)
  BY <1>1, <1>2, <1>3
<1>5. p \in PaymentRecord /\ p.version = 0 /\ Sound(p)
  BY <1>4, NewSound DEF Follows
<1>6. row.version = 0 /\ NoneRequested(refunds)
  BY DEF CreateCharge, IInv, CopiesSound, PaidStatus
<1> DEFINE x == [Idle EXCEPT !.op = "create", !.pc = "save", !.p = p]
<1>7. x \in WorkerState /\ x.pc = "save" /\ x.p = p
  BY <1>5, IdleType DEF WorkerState, OpNames
<1>8. CopyOK(x)
  BY <1>5, <1>6, <1>7 DEF CopyOK, Covers, NoneRequested
<1>9. OutsideOK
  <2>1. \A word \in {"pending", "settlement", "deny"} :
          /\ [gw EXCEPT !.status = word] \in GatewayTx
          /\ [gw EXCEPT !.status = word, !.named = FALSE] \in GatewayTx
    BY DEF IInv, TypeOK, GatewayTx
  <2>2. UNCHANGED age
    BY DEF CreateCharge
  <2>3. \/ UNCHANGED outside
        \/ \E word \in {"pending", "settlement", "deny"} :
              \/ GatewayBecomes([gw EXCEPT !.status = word])
              \/ GatewayBecomes([gw EXCEPT !.status = word, !.named = FALSE])
    BY DEF CreateCharge
  <2>. QED
    BY <2>1, <2>2, <2>3, GatewayMoves, OutsideUnchanged
<1>10. workers' = [workers EXCEPT ![w] = x]
  BY <1>1
<1>11. UNCHANGED stored
  BY DEF CreateCharge
<1>. HIDE DEF x
<1>. QED
  BY <1>7, <1>8, <1>9, <1>10, <1>11, KeepStore DEF OutsideOK

\* The operations whose last step saves what they prepared.
LEMMA PreparedSaveStep ==
  ASSUME IInv, NEW w \in Worker, CreateSave(w) \/ CancelSave(w) \/ ChargeSave(w) \/ RefundsSave(w)
  PROVE  IInv'
<1>1. Follows(workers[w].p, workers[w].p)
  BY WorkerType, FollowsReflexive
<1>2. ~IsIdle(w) /\ workers[w].pc # "row" /\ SaveAndFinish(w, workers[w].p)
  BY DEF CreateSave, CancelSave, ChargeSave, RefundsSave, At, IsIdle
<1>. QED
  BY <1>1, <1>2, SaveAndFinishStep

\* The cancellation, before it is saved.
LEMMA CancelCallStep ==
  ASSUME IInv, NEW w \in Worker, CancelCall(w)
  PROVE  IInv'
<1> DEFINE q == Cancel(workers[w].p)
           x == [workers[w] EXCEPT !.pc = "save", !.p = q]
<1>1. Follows(workers[w].p, q)
  BY WorkerType, LifeCycleFollows DEF CancelCall
<1>2. x \in WorkerState /\ x.pc = "save" /\ x.p = q
  <2>1. q \in PaymentRecord
    BY <1>1 DEF Follows
  <2>. HIDE DEF q
  <2>. QED
    BY <2>1, WorkerType DEF WorkerState
<1>3. workers' = [workers EXCEPT ![w] = x]
  BY DEF CancelCall, IInv, TypeOK
<1>4. ~IsIdle(w) /\ workers[w].pc # "row"
  BY DEF CancelCall, At, IsIdle
<1>5. OutsideOK
  <2>1. [gw EXCEPT !.status = "cancel"] \in GatewayTx
    BY DEF IInv, TypeOK, GatewayTx
  <2>. QED
    BY <2>1, GatewayMoves, OutsideUnchanged DEF CancelCall
<1>. HIDE DEF x, q
<1>6. CopyOK(x)
  BY <1>1, <1>2, <1>4, CopyEdited
<1>7. UNCHANGED stored
  BY DEF CancelCall
<1>. QED
  BY <1>2, <1>3, <1>5, <1>6, <1>7, KeepStore DEF OutsideOK

\* Expiry, forced or by the job.
LEMMA ExpireStep ==
  ASSUME IInv, NEW w \in Worker, Expire(w)
  PROVE  IInv'
<1>1. Follows(workers[w].p, MarkExpired(workers[w].p))
  BY WorkerType, LifeCycleFollows DEF Expire
<1>2. ~IsIdle(w) /\ workers[w].pc # "row" /\ SaveAndFinish(w, MarkExpired(workers[w].p))
  BY DEF Expire, At, IsIdle
<1>. QED
  BY <1>1, <1>2, SaveAndFinishStep

\* The payment after a notification, method by method.
LEMMA AfterNotificationFollows ==
  ASSUME NEW p \in PaymentRecord, NEW n
  PROVE  Follows(p, AfterNotification(p, n))
<1> DEFINE a == CompleteRefunds(p, Confirmed(p, n))
           b == IF CanMarkPending(a) /\ n.status \in {"SETTLED", "FAILED"} THEN MarkPending(a) ELSE a
           c == AfterNotification(p, n)
<1>1. Confirmed(p, n) \subseteq RefundsIn(p, {"PENDING"})
  BY DEF Confirmed
<1>2. Follows(p, a) /\ a \in PaymentRecord
  BY <1>1, CompleteRefundsFollows DEF Follows
<1>3. Follows(a, b) /\ b \in PaymentRecord
  <2>. HIDE DEF a
  <2>. QED
    BY <1>2, LifeCycleFollows, FollowsReflexive DEF Follows
<1>4. c \in {b} \cup {q \in {MarkCompleted(b)} : CanMarkCompleted(b)} \cup {q \in {MarkFailed(b)} : CanMarkFailed(b)}
  BY DEF AfterNotification
<1>5. Follows(b, c)
  <2>. HIDE DEF b, c
  <2>. QED
    BY <1>3, <1>4, LifeCycleFollows, FollowsReflexive
<1>. HIDE DEF a, b, c
<1>6. Follows(p, c)
  BY <1>2, <1>3, <1>5, FollowsTransitive
<1>. QED
  BY <1>6 DEF c

\* A notification handled.
LEMMA CallbackStep ==
  ASSUME IInv, NEW w \in Worker, Callback(w)
  PROVE  IInv'
<1>1. PICK n \in notifs : SaveAndFinish(w, AfterNotification(workers[w].p, n))
  BY DEF Callback
<1>2. Follows(workers[w].p, AfterNotification(workers[w].p, n))
  BY WorkerType, AfterNotificationFollows
<1>3. ~IsIdle(w) /\ workers[w].pc # "row"
  BY DEF Callback, At, IsIdle
<1>. QED
  BY <1>1, <1>2, <1>3, SaveAndFinishStep

\* The copy a Save leaves behind.
LEMMA SavedType ==
  ASSUME NEW q \in PaymentRecord
  PROVE  Saved(q) \in PaymentRecord
<1>1. q.version + 1 \in Nat /\ <<>> \in Seq(Event)
  BY DEF PaymentRecord
<1>2. \A n \in Nat, e \in Seq(Event) : [q EXCEPT !.version = n, !.events = e] \in PaymentRecord
  BY DEF PaymentRecord
<1>. QED
  BY <1>1, <1>2 DEF Saved

\* A refund reserved: requested and saved in one step.
LEMMA RefundReserveStep ==
  ASSUME IInv, NEW w \in Worker, RefundReserve(w)
  PROVE  IInv'
<1> DEFINE p == workers[w].p
<1>1. PICK r \in RefundId, ref \in Reference, asked \in 0..Amount :
        LET amount == IF asked = 0 THEN RefundableAmount(p) ELSE asked
            q      == RequestRefund(p, r, ref, amount)
        IN  /\ p.refunds[r].status = "NONE"
            /\ CanRequestRefund(p, ref, amount)
            /\ Save(q)
            /\ workers' = [workers EXCEPT ![w].pc = "call", ![w].p = Saved(q), ![w].r = {r}]
  BY DEF RefundReserve
<1> DEFINE amount == IF asked = 0 THEN RefundableAmount(p) ELSE asked
           q      == RequestRefund(p, r, ref, amount)
           x      == [workers[w] EXCEPT !.pc = "call", !.p = Saved(q), !.r = {r}]
<1>2. p \in PaymentRecord
  BY WorkerType
<1>3. amount \in Int
  BY TotalType, AmountAssumption DEF RefundableAmount
<1>4. Follows(p, q)
  <2>. HIDE DEF p, amount
  <2>. QED
    BY <1>1, <1>2, <1>3, RequestRefundFollows DEF amount
<1>5. Saved(q) \in PaymentRecord
  BY <1>4, SavedType DEF Follows
<1>6. x \in WorkerState /\ x.pc = "call" /\ x.p = Saved(q)
  <2>. HIDE DEF q
  <2>. QED
    BY <1>5, WorkerType DEF WorkerState
<1>7. workers' = [workers EXCEPT ![w] = x]
  <2>1. workers' = [workers EXCEPT ![w].pc = "call", ![w].p = Saved(q), ![w].r = {r}]
    BY <1>1
  <2>. HIDE DEF q
  <2>. QED
    BY <2>1 DEF IInv, TypeOK
<1>8. Save(q)
  BY <1>1
<1>9. ~IsIdle(w) /\ workers[w].pc # "row" /\ UNCHANGED age /\ UNCHANGED outside
  BY DEF RefundReserve, At, IsIdle, outside
<1>. HIDE DEF p, q, x
<1>. QED
  BY <1>4, <1>6, <1>7, <1>8, <1>9, SaveStore DEF p

\* A step that edits nothing of the worker's copy and saves nothing.
LEMMA SameCopyStep ==
  ASSUME IInv, NEW w \in Worker, ~IsIdle(w), workers[w].pc # "row", UNCHANGED stored, OutsideOK,
         NEW x \in WorkerState, x.pc # "row", x.p = workers[w].p, workers' = [workers EXCEPT ![w] = x]
  PROVE  IInv'
<1>1. Follows(workers[w].p, x.p)
  BY WorkerType, FollowsReflexive
<1>2. CopyOK(x)
  BY <1>1, CopyEdited
<1>. QED
  BY <1>2, KeepStore DEF OutsideOK

\* The gateway pays a refund.
LEMMA AcceptRefundMoves ==
  ASSUME IInv, NEW r \in RefundId, AcceptRefund(r), UNCHANGED age
  PROVE  OutsideOK
<1>1. [gw EXCEPT !.refunds = @ \cup {r}] \in GatewayTx
  BY DEF IInv, TypeOK, GatewayTx
<1>. QED
  BY <1>1, GatewayMoves DEF AcceptRefund

\* The refund call.
LEMMA RefundCallStep ==
  ASSUME IInv, NEW w \in Worker, RefundCall(w)
  PROVE  IInv'
<1> DEFINE x(accepted) == [workers[w] EXCEPT !.pc = "decided", !.accepted = accepted]
<1>1. ~IsIdle(w) /\ workers[w].pc # "row" /\ UNCHANGED stored /\ UNCHANGED age
  BY DEF RefundCall, At, IsIdle
<1>2. OutsideOK
  BY <1>1, AcceptRefundMoves, OutsideUnchanged, WorkerType DEF RefundCall
<1>3. \A accepted \in BOOLEAN :
        x(accepted) \in WorkerState /\ x(accepted).pc = "decided" /\ x(accepted).p = workers[w].p
  BY WorkerType DEF WorkerState
<1>4. Finish(w) \/ \E accepted \in BOOLEAN : workers' = [workers EXCEPT ![w] = x(accepted)]
  BY DEF RefundCall, IInv, TypeOK
<1>5. CASE Finish(w)
  BY <1>1, <1>2, <1>5, FinishStep
<1>6. ASSUME NEW accepted \in BOOLEAN, workers' = [workers EXCEPT ![w] = x(accepted)]
      PROVE  IInv'
  <2>1. x(accepted) \in WorkerState /\ x(accepted).pc = "decided" /\ x(accepted).p = workers[w].p
    BY <1>3
  <2>. HIDE DEF x
  <2>. QED
    BY <1>1, <1>2, <1>6, <2>1, SameCopyStep
<1>. QED
  BY <1>4, <1>5, <1>6

\* What the gateway's answer makes of the copy.
LEMMA ApplyOutcomeFollows ==
  ASSUME NEW p \in PaymentRecord, NEW r \in RefundId, NEW accepted, CanApplyOutcome(p, r, accepted)
  PROVE  Follows(p, ApplyOutcome(p, r, accepted))
BY CompleteRefundFollows, FailRefundFollows DEF CanApplyOutcome, ApplyOutcome

\* The outcome saved on the first try, or back for a fresh copy.
LEMMA RefundOutcomeStep ==
  ASSUME IInv, NEW w \in Worker, RefundOutcome(w)
  PROVE  IInv'
<1> DEFINE q(r) == ApplyOutcome(workers[w].p, r, workers[w].accepted)
           x == [workers[w] EXCEPT !.pc = "reload"]
<1>1. ~IsIdle(w) /\ workers[w].pc # "row"
  BY DEF RefundOutcome, At, IsIdle
<1>2. PICK r \in workers[w].r :
        /\ CanApplyOutcome(workers[w].p, r, workers[w].accepted)
        /\ \/ SaveAndFinish(w, q(r))
           \/ /\ workers' = [workers EXCEPT ![w].pc = "reload"]
              /\ UNCHANGED <<stored, age, outside>>
  BY DEF RefundOutcome
<1>3. CASE SaveAndFinish(w, q(r))
  <2>1. Follows(workers[w].p, q(r))
    BY <1>2, WorkerType, ApplyOutcomeFollows
  <2>. HIDE DEF q
  <2>. QED
    BY <1>1, <1>3, <2>1, SaveAndFinishStep
<1>4. CASE workers' = [workers EXCEPT ![w].pc = "reload"] /\ UNCHANGED <<stored, age, outside>>
  <2>1. x \in WorkerState /\ x.pc = "reload" /\ x.p = workers[w].p
    BY WorkerType DEF WorkerState
  <2>2. workers' = [workers EXCEPT ![w] = x]
    BY <1>4 DEF IInv, TypeOK
  <2>. HIDE DEF x
  <2>. QED
    BY <1>1, <1>4, <2>1, <2>2, SameCopyStep, OutsideUnchanged
<1>. QED
  BY <1>2, <1>3, <1>4

\* The fresh copy for the second try.
LEMMA OutcomeReloadStep ==
  ASSUME IInv, NEW w \in Worker, OutcomeReload(w)
  PROVE  IInv'
<1> DEFINE x == [workers[w] EXCEPT !.op = "outcome", !.pc = "row", !.p = RowCopy]
<1>1. x \in WorkerState /\ x.pc = "row" /\ x.p = RowCopy
  BY RowCopyType, WorkerType DEF WorkerState
<1>2. CopyOK(x)
  BY <1>1, RowCopyType DEF CopyOK, IInv, TypeOK
<1>3. workers' = [workers EXCEPT ![w] = x]
  BY DEF OutcomeReload, IInv, TypeOK
<1>. HIDE DEF x
<1>. QED
  BY <1>1, <1>2, <1>3, OutsideUnchanged, KeepStore DEF OutsideOK, OutcomeReload

\* The second try.
LEMMA OutcomeRetryStep ==
  ASSUME IInv, NEW w \in Worker, OutcomeRetry(w)
  PROVE  IInv'
<1> DEFINE q(r) == ApplyOutcome(workers[w].p, r, workers[w].accepted)
<1>1. ~IsIdle(w) /\ workers[w].pc # "row"
  BY DEF OutcomeRetry, At, IsIdle
<1>2. PICK r \in workers[w].r :
        CanApplyOutcome(workers[w].p, r, workers[w].accepted) /\ SaveAndFinish(w, q(r))
  BY DEF OutcomeRetry
<1>3. Follows(workers[w].p, q(r))
  BY <1>2, WorkerType, ApplyOutcomeFollows
<1>. HIDE DEF q
<1>. QED
  BY <1>1, <1>2, <1>3, SaveAndFinishStep

\* An edit of the copy that is not saved yet.
LEMMA EditStep ==
  ASSUME IInv, NEW w \in Worker, ~IsIdle(w), workers[w].pc # "row", UNCHANGED stored, OutsideOK,
         NEW q, Follows(workers[w].p, q),
         NEW pc \in {"save", "cancel", "resend"}, NEW todo \in SUBSET RefundId,
         workers' = [workers EXCEPT ![w] = [workers[w] EXCEPT !.pc = pc, !.p = q, !.todo = todo]]
  PROVE  IInv'
<1> DEFINE x == [workers[w] EXCEPT !.pc = pc, !.p = q, !.todo = todo]
<1>1. x \in WorkerState /\ x.pc = pc /\ x.p = q
  BY WorkerType DEF WorkerState, Follows
<1>. HIDE DEF x
<1>2. CopyOK(x)
  BY <1>1, CopyEdited
<1>. QED
  BY <1>1, <1>2, KeepStore DEF OutsideOK, x

\* The answer to the reconciler's question about a charge.
LEMMA ChargeLookupStep ==
  ASSUME IInv, NEW w \in Worker, ChargeLookup(w)
  PROVE  IInv'
<1> DEFINE p == workers[w].p
           next(pc, q) == workers' = [workers EXCEPT ![w].pc = pc, ![w].p = q]
<1>1. ~IsIdle(w) /\ workers[w].pc # "row" /\ UNCHANGED stored /\ OutsideOK
  BY OutsideUnchanged DEF ChargeLookup, At, IsIdle
<1>2. p \in PaymentRecord
  BY WorkerType
<1>3. CanMarkFailed(p) => Follows(p, MarkFailed(p))
  <2>. HIDE DEF p
  <2>. QED
    BY <1>2, LifeCycleFollows
<1>4. CanMarkPending(p) => /\ Follows(p, MarkCompleted(MarkPending(p)))
                           /\ Follows(p, MarkFailed(MarkPending(p)))
  BY <1>2, PendingThenFinal
<1>5. Follows(p, p)
  BY <1>2, FollowsReflexive
<1>6. PICK pc \in {"save", "cancel"}, q \in {p, MarkFailed(p), MarkCompleted(MarkPending(p)), MarkFailed(MarkPending(p))} :
        Follows(p, q) /\ next(pc, q)
  BY <1>3, <1>4, <1>5 DEF ChargeLookup
<1>7. workers' = [workers EXCEPT ![w] = [workers[w] EXCEPT !.pc = pc, !.p = q, !.todo = workers[w].todo]]
  BY <1>6, WorkerType DEF IInv, TypeOK, WorkerState
<1>8. workers[w].todo \in SUBSET RefundId /\ pc \in {"save", "cancel", "resend"} /\ Follows(workers[w].p, q)
  BY <1>6, WorkerType
<1>. HIDE DEF p, next
<1>. QED
  BY <1>1, <1>7, <1>8, EditStep

\* A charge nobody can pay, cancelled at the gateway.
LEMMA ChargeCancelStep ==
  ASSUME IInv, NEW w \in Worker, ChargeCancel(w)
  PROVE  IInv'
<1> DEFINE q == MarkFailed(MarkPending(workers[w].p))
<1>1. ~IsIdle(w) /\ workers[w].pc # "row" /\ UNCHANGED stored
  BY DEF ChargeCancel, At, IsIdle
<1>2. OutsideOK
  <2>1. [gw EXCEPT !.status = "cancel"] \in GatewayTx
    BY DEF IInv, TypeOK, GatewayTx
  <2>. QED
    BY <2>1, GatewayMoves DEF ChargeCancel
<1>3. Follows(workers[w].p, q)
  BY WorkerType, PendingThenFinal DEF ChargeCancel
<1>4. Finish(w) \/ workers' = [workers EXCEPT ![w].pc = "save", ![w].p = q]
  BY DEF ChargeCancel
<1>5. CASE Finish(w)
  BY <1>1, <1>2, <1>5, FinishStep
<1>6. CASE workers' = [workers EXCEPT ![w].pc = "save", ![w].p = q]
  <2>. HIDE DEF q
  <2>1. workers' = [workers EXCEPT ![w] = [workers[w] EXCEPT !.pc = "save", !.p = q, !.todo = workers[w].todo]]
    BY <1>6, WorkerType DEF IInv, TypeOK, WorkerState
  <2>2. workers[w].todo \in SUBSET RefundId
    BY WorkerType
  <2>. QED
    BY <1>1, <1>2, <1>3, <2>1, <2>2, EditStep
<1>. QED
  BY <1>4, <1>5, <1>6

\* The refunds the gateway lists, applied to the copy.
LEMMA RefundsLookupStep ==
  ASSUME IInv, NEW w \in Worker, RefundsLookup(w)
  PROVE  IInv'
<1> DEFINE p == workers[w].p
           q == CompleteRefunds(p, Confirmed(p, ReportOf(gw)))
           todo == {r \in RefundsIn(q, {"PENDING"}) : age[r] \in RefundRetryAfter..(RefundGiveUpAfter - 1)}
<1>1. ~IsIdle(w) /\ workers[w].pc # "row" /\ UNCHANGED stored /\ OutsideOK
  BY OutsideUnchanged DEF RefundsLookup, At, IsIdle
<1>2. Confirmed(p, ReportOf(gw)) \subseteq RefundsIn(p, {"PENDING"})
  BY DEF Confirmed
<1>3. Follows(p, q)
  BY <1>2, WorkerType, CompleteRefundsFollows
<1>4. todo \in SUBSET RefundId
  BY DEF RefundsIn
<1>5. workers' = [workers EXCEPT ![w].pc = "resend", ![w].p = q, ![w].todo = todo]
  BY DEF RefundsLookup
<1>. HIDE DEF q, todo
<1>6. workers' = [workers EXCEPT ![w] = [workers[w] EXCEPT !.pc = "resend", !.p = q, !.todo = todo]]
  BY <1>5, WorkerType DEF IInv, TypeOK, WorkerState
<1>. QED
  BY <1>1, <1>3, <1>4, <1>6, EditStep

\* One refund sent again.
LEMMA RefundsResendStep ==
  ASSUME IInv, NEW w \in Worker, RefundsResend(w)
  PROVE  IInv'
<1> DEFINE p == workers[w].p
<1>1. ~IsIdle(w) /\ workers[w].pc = "resend" /\ UNCHANGED stored /\ UNCHANGED age
  BY DEF RefundsResend, At, IsIdle
<1>2. OutsideOK
  BY <1>1, AcceptRefundMoves, OutsideUnchanged, WorkerType DEF RefundsResend
<1>3. PICK r \in workers[w].todo :
        \/ Resent(w, r, CompleteRefund(p, r))
        \/ Resent(w, r, p)
        \/ CanFailRefund(p, r) /\ Resent(w, r, FailRefund(p, r))
  BY DEF RefundsResend
<1>4. /\ Follows(p, p) /\ Follows(p, CompleteRefund(p, r))
      /\ CanFailRefund(p, r) => Follows(p, FailRefund(p, r))
  BY WorkerType, FollowsReflexive, CompleteRefundFollows, FailRefundFollows
<1>5. PICK q \in {p, CompleteRefund(p, r), FailRefund(p, r)} : Follows(p, q) /\ Resent(w, r, q)
  BY <1>3, <1>4
<1> DEFINE todo == workers[w].todo \ {r}
<1>6. todo \in SUBSET RefundId /\ Follows(workers[w].p, q)
  BY <1>5, WorkerType
<1>7. workers' = [workers EXCEPT ![w] = [workers[w] EXCEPT !.pc = "resend", !.p = q, !.todo = todo]]
  <2> DEFINE x == workers[w]
  <2>1. x \in WorkerState /\ x.pc = "resend"
    BY <1>1, WorkerType
  <2>2. [x EXCEPT !.p = q, !.todo = todo] = [x EXCEPT !.pc = "resend", !.p = q, !.todo = todo]
    BY <2>1 DEF WorkerState
  <2>3. workers' = [workers EXCEPT ![w] = [x EXCEPT !.p = q, !.todo = todo]]
    <3>1. workers \in [Worker -> WorkerState]
      BY DEF IInv, TypeOK
    <3>. QED
      BY <1>5, <3>1 DEF Resent
  <2>. QED
    BY <2>2, <2>3
<1>. HIDE DEF p, todo
<1>. QED
  BY <1>1, <1>2, <1>6, <1>7, EditStep

-----------------------------------------------------------------------------
(* The specification keeps IInv. *)

\* Any step of a worker.
LEMMA StepKeeps ==
  ASSUME IInv, NEW w \in Worker, Step(w)
  PROVE  IInv'
<1>1. CASE BeginRequest(w)
  <2>1. PICK op \in OpNames : ReadRow(w, op)
    BY <1>1, OpsAssumption DEF BeginRequest
  <2>. QED
    BY <1>1, <2>1, ReadRowStep DEF BeginRequest
<1>2. CASE BeginReconcileRefunds(w)
  BY <1>2, ReadRowStep DEF BeginReconcileRefunds, OpNames
<1>3. CASE BeginReconcileCharge(w)
  BY <1>3, FindUnpaidStep DEF BeginReconcileCharge, OpNames, Status, PaidStatus
<1>4. CASE BeginExpiry(w)
  BY <1>4, FindUnpaidStep DEF BeginExpiry, OpNames, Status, PaidStatus
<1>5. CASE Abandon(w)
  BY <1>5, FinishStep, OutsideUnchanged DEF Abandon
<1>6. CASE CreateSave(w) \/ CancelSave(w) \/ ChargeSave(w) \/ RefundsSave(w)
  BY <1>6, PreparedSaveStep
<1>7. CASE ReadRefunds(w)
  BY <1>7, ReadRefundsStep
<1>8. CASE CreateCharge(w)
  BY <1>8, CreateChargeStep
<1>9. CASE CancelCall(w)
  BY <1>9, CancelCallStep
<1>10. CASE Expire(w)
  BY <1>10, ExpireStep
<1>11. CASE Callback(w)
  BY <1>11, CallbackStep
<1>12. CASE RefundReserve(w)
  BY <1>12, RefundReserveStep
<1>13. CASE RefundCall(w)
  BY <1>13, RefundCallStep
<1>14. CASE RefundOutcome(w)
  BY <1>14, RefundOutcomeStep
<1>15. CASE OutcomeReload(w)
  BY <1>15, OutcomeReloadStep
<1>16. CASE OutcomeRetry(w)
  BY <1>16, OutcomeRetryStep
<1>17. CASE ChargeLookup(w)
  BY <1>17, ChargeLookupStep
<1>18. CASE ChargeCancel(w)
  BY <1>18, ChargeCancelStep
<1>19. CASE RefundsLookup(w)
  BY <1>19, RefundsLookupStep
<1>20. CASE RefundsResend(w)
  BY <1>20, RefundsResendStep
<1>. QED
  BY <1>1, <1>2, <1>3, <1>4, <1>5, <1>6, <1>7, <1>8, <1>9, <1>10, <1>11, <1>12, <1>13,
     <1>14, <1>15, <1>16, <1>17, <1>18, <1>19, <1>20 DEF Step

\* A step of the world around PayGate touches neither the store nor a copy.
LEMMA OutsideStep ==
  ASSUME IInv, UNCHANGED stored, UNCHANGED workers, OutsideOK
  PROVE  IInv'
<1>1. TypeOK'
  BY DEF IInv, TypeOK, stored, OutsideOK
<1>2. \A w \in Worker : CopySound(w)'
  BY DEF IInv, CopiesSound, CopySound, IsIdle, UpToDate, Covers, stored
<1>3. CopiesSound'
  BY <1>2 DEF IInv, CopiesSound, NoOverRefund, stored
<1>. QED
  BY <1>1, <1>3 DEF IInv

\* The first state.
LEMMA InitKeeps == Init => IInv
<1> SUFFICES ASSUME Init PROVE IInv
  OBVIOUS
<1>1. NoRefunds \in [RefundId -> Refund] /\ NoneRequested(NoRefunds)
  BY AmountAssumption DEF NoRefunds, NoRefund, Refund, RefundStatus, NoneRequested
<1>2. <<>> \in Seq(Event)
  OBVIOUS
<1>3. 0 \in 0..OldestAge
  BY AgesAssumption DEF OldestAge
<1>4. TypeOK
  BY <1>1, <1>2, <1>3, IdleType DEF Init, TypeOK, Status, GatewayTx
<1>5. NoOverRefund
  BY <1>1, TotalNone, AmountAssumption DEF Init, NoOverRefund, NoneRequested
<1>6. \A w \in Worker : CopySound(w)
  BY IdleType DEF Init, CopySound, IsIdle
<1>. QED
  BY <1>1, <1>4, <1>5, <1>6 DEF Init, IInv, CopiesSound

\* Any step.
LEMMA NextKeeps == IInv /\ [Next]_vars => IInv'
<1> SUFFICES ASSUME IInv, [Next]_vars PROVE IInv'
  OBVIOUS
<1>1. ASSUME NEW w \in Worker, Step(w) PROVE IInv'
  BY <1>1, StepKeeps
<1>2. CASE GatewaySettles
  <2>1. \A word \in {"settlement", "expire"} : [gw EXCEPT !.status = word] \in GatewayTx
    BY DEF IInv, TypeOK, GatewayTx
  <2>. QED
    BY <1>2, <2>1, GatewayMoves, OutsideStep DEF GatewaySettles
<1>3. CASE RefundInDashboard
  <2>1. [gw EXCEPT !.dashboard = TRUE] \in GatewayTx
    BY DEF IInv, TypeOK, GatewayTx
  <2>. QED
    BY <1>3, <2>1, GatewayMoves, OutsideStep DEF RefundInDashboard
<1>4. ASSUME NEW r \in RefundId, GrowOlder(r) PROVE IInv'
  <2>1. OldestAge \in Nat
    BY AgesAssumption DEF OldestAge
  <2>2. age' \in [RefundId -> 0..OldestAge]
    BY <1>4, <2>1 DEF GrowOlder, IInv, TypeOK
  <2>3. OutsideOK
    BY <1>4, <2>2 DEF OutsideOK, GrowOlder, outside, IInv, TypeOK
  <2>. QED
    BY <1>4, <2>3, OutsideStep DEF GrowOlder
<1>5. CASE UNCHANGED vars
  BY <1>5, OutsideStep, OutsideUnchanged DEF vars, stored, outside
<1>. QED
  BY <1>1, <1>2, <1>3, <1>4, <1>5 DEF Next

\* Every variable keeps its type, whatever the workers do.
THEOREM TypeCorrect == Spec => []TypeOK
<1>1. Spec => []IInv
  BY InitKeeps, NextKeeps, PTL DEF Spec
<1>2. IInv => TypeOK
  BY DEF IInv
<1>. QED
  BY <1>1, <1>2, PTL

\* The version check keeps every copy that could be saved sound: a stale, torn
\* or refund-less load never matches the row it would overwrite.
THEOREM CopiesAlwaysSound == Spec => []CopiesSound
<1>1. Spec => []IInv
  BY InitKeeps, NextKeeps, PTL DEF Spec
<1>2. IInv => CopiesSound
  BY DEF IInv
<1>. QED
  BY <1>1, <1>2, PTL

\* For every number of workers, refunds and amounts, no interleaving of the
\* handlers and jobs reserves more than the customer paid.
THEOREM NeverOverRefunded == Spec => []NoOverRefund
<1>1. CopiesSound => NoOverRefund
  BY DEF CopiesSound
<1>. QED
  BY <1>1, CopiesAlwaysSound, PTL

-----------------------------------------------------------------------------
(* The life cycle.  PayGate implements PaymentLifecycle, and with it: the  *)
(* stored status tells what the stored refunds add up to, and no two       *)
(* refunds share a reference.                                              *)
(*                                                                         *)
(* A copy may have gone several method calls ahead of the row.  If it is   *)
(* still current, what its Save would make of the stored payment is one    *)
(* legal step (Fits): a move of its status, or refunds of it settled.      *)

\* The payment's status as PaymentLifecycle sees it.
View == IF row.version = 0 THEN "ABSENT" ELSE row.status

Opened == {"INITIATED", "PENDING", "COMPLETED", "FAILED"}

\* A payment as stored, a copy of it, and how it may move on its way to a Save.
Moves(s, t) == (s = "ABSENT" /\ t \in Opened) \/ t \in Lifecycle!NextStatus(s)

Pending(rs) == {r \in RefundId : rs[r].status = "PENDING"}

Settled(rs, yes, no) ==
  [r \in RefundId |-> IF r \in yes THEN [rs[r] EXCEPT !.status = "SUCCEEDED"]
                     ELSE IF r \in no THEN [rs[r] EXCEPT !.status = "FAILED"] ELSE rs[r]]

StatusAfter(s, qs, yes) ==
  CASE yes = {}                           -> s
    [] yes # {} /\ Total(qs, {"SUCCEEDED"}) < Amount -> "PARTIALLY_REFUNDED"
    [] OTHER                              -> "REFUNDED"

Settles(s, rs, t, qs) ==
  \E yes, no \in SUBSET Pending(rs) :
    yes \cap no = {} /\ qs = Settled(rs, yes, no) /\ t = StatusAfter(s, qs, yes)

\* Nothing is left over in the record of a refund that does not exist.
Tidy(rs) ==
  \A r \in RefundId : IF rs[r].status = "NONE" THEN rs[r] = NoRefund
                      ELSE rs[r].amount > 0 /\ rs[r].ref # NoReference

\* What a copy that is still current would store.
Fits(x) ==
  x.p.version = row.version =>
    CASE x.pc = "row"    -> TRUE
      [] x.pc = "save"   -> Moves(View, x.p.status) /\ x.p.refunds = refunds
      [] x.pc = "resend" -> Settles(row.status, refunds, x.p.status, x.p.refunds)
      [] OTHER           -> x.p.status = row.status /\ x.p.refunds = refunds

\* Only a create works on a payment that was never stored, and it only saves.
Known(x) ==
  IF x.op = "create" THEN x.pc \in {"idle", "save"} ELSE x.pc # "idle" => x.p.version > 0

FitInv ==
  /\ IInv /\ Tidy(refunds) /\ row.status # "PROCESSING"
  /\ \A w \in Worker : ~IsIdle(w) => Fits(workers[w]) /\ Known(workers[w])

-----------------------------------------------------------------------------
(* Settling, as a relation of values. *)

LEMMA SettledFacts ==
  ASSUME NEW rs \in [RefundId -> Refund], NEW yes \in SUBSET Pending(rs), NEW no \in SUBSET Pending(rs)
  PROVE  /\ Settled(rs, yes, no) \in [RefundId -> Refund]
         /\ \A r \in RefundId : LET new == Settled(rs, yes, no)[r] IN
              /\ new.amount = rs[r].amount /\ new.ref = rs[r].ref
              /\ new.status = IF r \in yes THEN "SUCCEEDED" ELSE IF r \in no THEN "FAILED" ELSE rs[r].status
              /\ r \notin yes \cup no => new = rs[r]
BY DEF Settled, Refund, RefundStatus

\* Refunds are the same if their parts are.
LEMMA SameRefunds ==
  ASSUME NEW qs \in [RefundId -> Refund], NEW rs \in [RefundId -> Refund],
         \A r \in RefundId : /\ qs[r].amount = rs[r].amount /\ qs[r].ref = rs[r].ref
                             /\ qs[r].status = rs[r].status
  PROVE  qs = rs
<1>1. \A r \in RefundId : qs[r] = rs[r]
  BY DEF Refund
<1> QED
  BY <1>1

LEMMA SettlesNothing ==
  ASSUME NEW rs \in [RefundId -> Refund], NEW s
  PROVE  Settles(s, rs, s, rs)
<1>1. {} \in SUBSET Pending(rs) /\ {} \cap {} = {} /\ s = StatusAfter(s, rs, {})
  BY DEF StatusAfter
<1>2. rs = Settled(rs, {}, {})
  BY DEF Settled
<1> QED
  BY <1>1, <1>2 DEF Settles

\* Refunds of a copy are settled on top of those settled before.
LEMMA CompleteSettles ==
  ASSUME NEW p \in PaymentRecord, NEW rs \in [RefundId -> Refund], NEW s,
         Settles(s, rs, p.status, p.refunds), NEW S, S \subseteq RefundsIn(p, {"PENDING"})
  PROVE  LET q == CompleteRefunds(p, S) IN Settles(s, rs, q.status, q.refunds)
<1> DEFINE q == CompleteRefunds(p, S)
           qs == [r \in RefundId |-> IF r \in S THEN [p.refunds[r] EXCEPT !.status = "SUCCEEDED"]
                                                ELSE p.refunds[r]]
           t  == IF Total(qs, {"SUCCEEDED"}) >= Amount THEN "REFUNDED" ELSE "PARTIALLY_REFUNDED"
<1>1. CASE S = {}
  BY <1>1 DEF CompleteRefunds
<1>2. CASE S # {}
  <2>1. q.refunds = qs /\ q.status = t
    BY <1>2 DEF CompleteRefunds, RefundedAmount, PaymentRecord
  <2>2. PICK yes \in SUBSET Pending(rs), no \in SUBSET Pending(rs) :
          yes \cap no = {} /\ p.refunds = Settled(rs, yes, no)
    BY DEF Settles
  <2>3. p.refunds \in [RefundId -> Refund]
    BY DEF PaymentRecord
  <2>4. \A r \in S : r \in RefundId /\ r \notin yes \cup no /\ rs[r].status = "PENDING"
    BY <2>2, SettledFacts DEF RefundsIn
  <2>5. yes \cup S \in SUBSET Pending(rs) /\ (yes \cup S) \cap no = {}
    BY <2>2, <2>4 DEF Pending
  <2>6. qs \in [RefundId -> Refund]
    BY <2>3 DEF Refund, RefundStatus
  <2>7. qs = Settled(rs, yes \cup S, no)
    <3>1. Settled(rs, yes \cup S, no) \in [RefundId -> Refund]
      BY DEF Settled, Refund, RefundStatus
    <3>2. \A r \in RefundId :
            /\ qs[r].amount = p.refunds[r].amount /\ qs[r].ref = p.refunds[r].ref
            /\ qs[r].status = IF r \in S THEN "SUCCEEDED" ELSE p.refunds[r].status
      BY <2>3 DEF Refund
    <3> HIDE DEF qs
    <3>3. \A r \in RefundId : LET new == Settled(rs, yes \cup S, no)[r] IN
            /\ qs[r].amount = new.amount /\ qs[r].ref = new.ref /\ qs[r].status = new.status
      BY <2>2, <2>5, <3>2, SettledFacts
    <3> QED
      BY <2>6, <3>1, <3>3, SameRefunds
  <2>8. Total(qs, {"SUCCEEDED"}) \in Nat
    BY TotalType
  <2>9. t = StatusAfter(s, qs, yes \cup S)
    <3> HIDE DEF qs
    <3> QED
      BY <1>2, <2>8, AmountAssumption DEF StatusAfter
  <2> HIDE DEF q, qs, t
  <2>10. Settles(s, rs, t, qs)
    BY <2>5, <2>7, <2>9 DEF Settles
  <2> QED
    BY <2>1, <2>10 DEF q
<1> QED
  BY <1>1, <1>2

LEMMA FailSettles ==
  ASSUME NEW p \in PaymentRecord, NEW rs \in [RefundId -> Refund], NEW s,
         Settles(s, rs, p.status, p.refunds), NEW r \in RefundId, CanFailRefund(p, r)
  PROVE  LET q == FailRefund(p, r) IN Settles(s, rs, q.status, q.refunds)
<1> DEFINE q == FailRefund(p, r)
           qs == [p.refunds EXCEPT ![r].status = "FAILED"]
<1>1. q.refunds = qs /\ q.status = p.status
  BY DEF FailRefund, PaymentRecord
<1>2. PICK yes \in SUBSET Pending(rs), no \in SUBSET Pending(rs) :
        /\ yes \cap no = {} /\ p.refunds = Settled(rs, yes, no)
        /\ p.status = StatusAfter(s, p.refunds, yes)
  BY DEF Settles
<1>3. p.refunds \in [RefundId -> Refund]
  BY DEF PaymentRecord
<1>4. r \notin yes \cup no /\ rs[r].status = "PENDING" /\ p.refunds[r].status = "PENDING"
  BY <1>2, SettledFacts DEF CanFailRefund
<1>5. no \cup {r} \in SUBSET Pending(rs) /\ yes \cap (no \cup {r}) = {}
  BY <1>2, <1>4 DEF Pending
<1>6. qs \in [RefundId -> Refund]
  BY <1>3 DEF Refund, RefundStatus
<1>7. \A x \in RefundId :
        /\ qs[x].amount = p.refunds[x].amount /\ qs[x].ref = p.refunds[x].ref
        /\ qs[x].status = IF x = r THEN "FAILED" ELSE p.refunds[x].status
  BY <1>3 DEF Refund
<1> HIDE DEF qs
<1>8. qs = Settled(rs, yes, no \cup {r})
  <2>1. Settled(rs, yes, no \cup {r}) \in [RefundId -> Refund]
    BY DEF Settled, Refund, RefundStatus
  <2>2. \A x \in RefundId : LET new == Settled(rs, yes, no \cup {r})[x] IN
          /\ qs[x].amount = new.amount /\ qs[x].ref = new.ref /\ qs[x].status = new.status
    BY <1>2, <1>4, <1>5, <1>7, SettledFacts
  <2> QED
    BY <1>6, <2>1, <2>2, SameRefunds
<1>9. Total(qs, {"SUCCEEDED"}) = Total(p.refunds, {"SUCCEEDED"})
  <2>1. Units(qs, {"SUCCEEDED"}) = Units(p.refunds, {"SUCCEEDED"})
    BY <1>4, <1>7 DEF Units
  <2> QED
    BY <2>1 DEF Total
<1>10. p.status = StatusAfter(s, qs, yes)
  BY <1>2, <1>9 DEF StatusAfter
<1>11. Settles(s, rs, p.status, qs)
  BY <1>2, <1>5, <1>8, <1>10 DEF Settles
<1> HIDE DEF q
<1>12. Settles(s, rs, q.status, q.refunds)
  BY <1>1, <1>11
<1> QED
  BY <1>12 DEF q

-----------------------------------------------------------------------------
(* The two kinds of step. *)

LifeStep == [Lifecycle!LifecycleNext]_(Lifecycle!lifecycleVars)

\* A refund is requested.
Requests(s, rs, t, qs) ==
  /\ s \in {"COMPLETED", "PARTIALLY_REFUNDED"} /\ t = s
  /\ \E r \in RefundId, ref \in Reference, amount \in 1..(Amount - Total(rs, ReservedStatus)) :
       /\ rs[r].status = "NONE"
       /\ \A o \in RefundId : rs[o].status # "NONE" => rs[o].ref # ref
       /\ qs = [rs EXCEPT ![r] = [status |-> "PENDING", amount |-> amount, ref |-> ref]]

\* What the Save of a current q makes of the payment is one legal step.
Legal(q) ==
  \/ Moves(View, q.status) /\ q.refunds = refunds
  \/ row.version > 0 /\ \/ Settles(row.status, refunds, q.status, q.refunds)
                        \/ Requests(row.status, refunds, q.status, q.refunds)

\* Only worker w moves.
Alone(w) == \A v \in Worker \ {w} : workers'[v] = workers[v]

LEMMA KeepFits ==
  ASSUME FitInv, IInv', NEW w \in Worker, UNCHANGED stored, Alone(w),
         workers'[w].pc # "idle" => Fits(workers'[w]) /\ Known(workers'[w])
  PROVE  FitInv' /\ LifeStep
<1>1. UNCHANGED <<row, refunds>> /\ UNCHANGED View
  BY DEF stored, View
<1>2. ASSUME NEW v \in Worker PROVE (~IsIdle(v) => Fits(workers[v]) /\ Known(workers[v]))'
  <2>1. ~IsIdle(v) => Fits(workers[v]) /\ Known(workers[v])
    BY DEF FitInv
  <2> QED
    BY <1>1, <2>1 DEF IsIdle, Known, Fits, Alone
<1>3. FitInv'
  BY <1>1, <1>2 DEF FitInv, Tidy
<1>4. UNCHANGED Lifecycle!lifecycleVars
  BY <1>1 DEF Lifecycle!lifecycleVars
<1> QED
  BY <1>3, <1>4 DEF LifeStep

LEMMA SameTotal ==
  ASSUME NEW rs, NEW S PROVE Lifecycle!Total(rs, S) = Total(rs, S)
BY DEF Lifecycle!Total, Lifecycle!Units, Lifecycle!Cardinality, Total, Units, Cardinality

\* What a legal q has in common with what is stored.
LEMMA LegalKeeps ==
  ASSUME FitInv, NEW q \in PaymentRecord, Legal(q)
  PROVE  /\ Upserted(q) = q.refunds /\ Tidy(q.refunds)
         /\ q.status # "PROCESSING"
<1>1. refunds \in [RefundId -> Refund] /\ q.refunds \in [RefundId -> Refund] /\ Tidy(refunds)
  BY DEF FitInv, IInv, TypeOK, PaymentRecord
<1>2. ASSUME \A r \in RefundId : q.refunds[r].status = "NONE" => refunds[r] = q.refunds[r]
      PROVE  Upserted(q) = q.refunds
  BY <1>1, <1>2 DEF Upserted
<1>3. CASE Moves(View, q.status) /\ q.refunds = refunds
  BY <1>1, <1>2, <1>3 DEF Moves, Opened, Lifecycle!NextStatus
<1>4. CASE Settles(row.status, refunds, q.status, q.refunds)
  <2>1. PICK yes \in SUBSET Pending(refunds), no \in SUBSET Pending(refunds) :
          q.refunds = Settled(refunds, yes, no) /\ q.status = StatusAfter(row.status, q.refunds, yes)
    BY <1>4 DEF Settles
  <2>2. \A r \in RefundId :
          /\ q.refunds[r].amount = refunds[r].amount /\ q.refunds[r].ref = refunds[r].ref
          /\ q.refunds[r].status = "NONE" <=> refunds[r].status = "NONE"
          /\ q.refunds[r].status = "NONE" => refunds[r] = q.refunds[r]
    BY <1>1, <2>1, SettledFacts DEF Pending
  <2>3. Tidy(q.refunds)
    BY <1>1, <2>2 DEF Tidy
  <2>4. q.status # "PROCESSING"
    BY <2>1 DEF StatusAfter, FitInv
  <2> QED
    BY <1>2, <2>2, <2>3, <2>4
<1>5. CASE Requests(row.status, refunds, q.status, q.refunds)
  <2>1. PICK r \in RefundId, ref \in Reference, amount \in 1..(Amount - Total(refunds, ReservedStatus)) :
          q.refunds = [refunds EXCEPT ![r] = [status |-> "PENDING", amount |-> amount, ref |-> ref]]
    BY <1>5 DEF Requests
  <2>2. amount > 0
    BY <2>1, TotalType, AmountAssumption
  <2>3. Tidy(q.refunds)
    BY <1>1, <2>1, <2>2, ReferenceAssumption DEF Tidy
  <2>4. \A o \in RefundId : q.refunds[o].status = "NONE" => refunds[o] = q.refunds[o]
    BY <1>1, <2>1
  <2> QED
    BY <1>2, <1>5, <2>3, <2>4 DEF Requests
<1> QED
  BY <1>3, <1>4, <1>5 DEF Legal

\* A legal q, once stored, is a step of PaymentLifecycle.
LEMMA LegalIsAStep ==
  ASSUME FitInv, NEW q \in PaymentRecord, Legal(q), View' = q.status, refunds' = q.refunds
  PROVE  LifeStep
<1>1. refunds \in [RefundId -> Refund] /\ q.refunds \in [RefundId -> Refund] /\ Tidy(refunds)
  BY DEF FitInv, IInv, TypeOK, PaymentRecord
<1>2. CASE Moves(View, q.status) /\ q.refunds = refunds
  <2>1. Lifecycle!Open \/ Lifecycle!Advance
    BY <1>2 DEF Moves, Opened, View, Lifecycle!Open, Lifecycle!Advance
  <2> QED
    BY <2>1 DEF LifeStep, Lifecycle!LifecycleNext
<1>3. CASE row.version > 0 /\ Settles(row.status, refunds, q.status, q.refunds)
  <2>1. PICK yes \in SUBSET Pending(refunds), no \in SUBSET Pending(refunds) :
          /\ yes \cap no = {} /\ q.refunds = Settled(refunds, yes, no)
          /\ q.status = StatusAfter(row.status, q.refunds, yes)
    BY <1>3 DEF Settles
  <2>2. View = row.status
    BY <1>3 DEF View
  <2>3. CASE yes \cup no = {}
    <3>1. refunds' = refunds
      BY <1>1, <2>1, <2>3 DEF Settled
    <3>2. View' = View
      BY <2>1, <2>2, <2>3 DEF StatusAfter
    <3> QED
      BY <3>1, <3>2 DEF LifeStep, Lifecycle!lifecycleVars, View
  <2>4. CASE yes \cup no # {}
    <3>1. refunds' = [r \in RefundId |->
            CASE r \in yes -> [refunds[r] EXCEPT !.status = "SUCCEEDED"]
              [] r \in no  -> [refunds[r] EXCEPT !.status = "FAILED"]
              [] OTHER     -> refunds[r]]
      BY <2>1 DEF Settled
    <3>2. View' = IF yes = {} THEN View
                  ELSE IF Lifecycle!Total(refunds', {"SUCCEEDED"}) < Amount THEN "PARTIALLY_REFUNDED"
                  ELSE "REFUNDED"
      <4>1. yes = {} => Lifecycle!Total(refunds', {"SUCCEEDED"}) = Total(refunds', {"SUCCEEDED"})
        BY SameTotal
      <4> QED
        BY <2>1, <2>2, SameTotal DEF StatusAfter
    <3>3. Lifecycle!Settle
      BY <2>1, <2>4, <3>1, <3>2 DEF Lifecycle!Settle, Pending, View
    <3> QED
      BY <3>3 DEF LifeStep, Lifecycle!LifecycleNext
  <2> QED
    BY <2>3, <2>4
<1>4. CASE row.version > 0 /\ Requests(row.status, refunds, q.status, q.refunds)
  <2>1. PICK r \in RefundId, ref \in Reference, amount \in 1..(Amount - Total(refunds, ReservedStatus)) :
          /\ refunds[r].status = "NONE"
          /\ \A o \in RefundId : refunds[o].status # "NONE" => refunds[o].ref # ref
          /\ q.refunds = [refunds EXCEPT ![r] = [status |-> "PENDING", amount |-> amount, ref |-> ref]]
    BY <1>4 DEF Requests
  <2>2. Lifecycle!NoRefund = NoRefund /\ Lifecycle!ReservedStatus = ReservedStatus
    BY DEF Lifecycle!NoRefund, NoRefund, Lifecycle!ReservedStatus, ReservedStatus
  <2>3. amount \in 1..(Amount - Lifecycle!Total(refunds, Lifecycle!ReservedStatus))
    BY <2>1, <2>2, SameTotal
  <2>4. refunds[r] = Lifecycle!NoRefund
    BY <1>1, <2>1, <2>2 DEF Tidy
  <2>5. \A o \in RefundId : refunds[o].ref # ref
    BY <1>1, <2>1, ReferenceAssumption DEF Tidy, NoRefund
  <2>6. /\ View = row.status /\ View' = View
        /\ View \in {"COMPLETED", "PARTIALLY_REFUNDED"}
    BY <1>4 DEF Requests, View
  <2>7. refunds' = [refunds EXCEPT ![r] = [status |-> "PENDING", amount |-> amount, ref |-> ref]]
    BY <1>1, <2>1
  <2>8. Lifecycle!Request
    BY <2>3, <2>4, <2>5, <2>6, <2>7 DEF Lifecycle!Request, View
  <2> QED
    BY <2>8 DEF LifeStep, Lifecycle!LifecycleNext
<1> QED
  BY <1>2, <1>3, <1>4 DEF Legal

\* A step of worker w that saves q.
LEMMA SaveFits ==
  ASSUME FitInv, IInv', NEW w \in Worker, NEW q \in PaymentRecord, Legal(q), Save(q),
         Alone(w), LET x == workers'[w] IN
                   x.pc = "idle" \/ (x.pc = "call" /\ x.op # "create" /\ x.p = Saved(q))
  PROVE  FitInv' /\ LifeStep
<1>1. /\ row'.status = q.status /\ row'.version = row.version + 1 /\ row.version \in Nat
      /\ q.version = row.version
  BY DEF Save, UpToDate, FitInv, IInv, TypeOK
<1>2. refunds' = q.refunds /\ Tidy(q.refunds) /\ q.status # "PROCESSING"
  BY LegalKeeps DEF Save
<1>3. View' = q.status
  BY <1>1 DEF View
<1>4. LifeStep
  BY <1>2, <1>3, LegalIsAStep
<1>5. Tidy(refunds)'
  BY <1>2 DEF Tidy
<1>6. ASSUME NEW v \in Worker PROVE (~IsIdle(v) => Fits(workers[v]) /\ Known(workers[v]))'
  <2> DEFINE x == workers'[w]
  <2>1. IF v = w THEN workers'[v] = x ELSE workers'[v] = workers[v]
    BY DEF Alone
  <2>2. CASE v # w
    <3>1. ~IsIdle(v) => workers[v].p.version <= row.version /\ Known(workers[v])
      BY DEF FitInv, IInv, CopiesSound, CopySound
    <3>2. workers[v].p.version \in Nat
      BY DEF FitInv, IInv, TypeOK, WorkerState, PaymentRecord
    <3> QED
      BY <1>1, <2>1, <2>2, <3>1, <3>2 DEF Fits, Known, IsIdle
  <2>3. CASE v = w /\ x.pc = "call"
    <3>1. x.p.version = row'.version /\ x.p.status = row'.status /\ x.p.refunds = refunds'
      BY <1>1, <1>2, <2>3 DEF Saved, PaymentRecord
    <3>2. workers'[v] = x /\ x.pc = "call" /\ x.op # "create"
      BY <2>1, <2>3
    <3>3. x.p.version > 0
      BY <1>1, <3>1
    <3> HIDE DEF x
    <3>4. Fits(workers[v])' /\ Known(workers[v])'
      BY <3>1, <3>2, <3>3 DEF Fits, Known
    <3> QED
      BY <3>4
  <2> QED
    BY <2>1, <2>2, <2>3 DEF IsIdle
<1> QED
  BY <1>1, <1>2, <1>4, <1>5, <1>6 DEF FitInv

-----------------------------------------------------------------------------
(* Facts the operations share. *)

LEMMA MoveIs ==
  ASSUME NEW p \in PaymentRecord, NEW status, NEW event
  PROVE  /\ Move(p, status, event).status = status
         /\ Move(p, status, event).refunds = p.refunds
BY DEF Move, PaymentRecord

LEMMA MethodsMove ==
  ASSUME NEW p \in PaymentRecord
  PROVE  /\ MarkPending(p).status = "PENDING"     /\ MarkPending(p).refunds = p.refunds
         /\ MarkCompleted(p).status = "COMPLETED" /\ MarkCompleted(p).refunds = p.refunds
         /\ MarkFailed(p).status = "FAILED"       /\ MarkFailed(p).refunds = p.refunds
         /\ MarkExpired(p).status = "EXPIRED"     /\ MarkExpired(p).refunds = p.refunds
         /\ Cancel(p).status = "CANCELLED"        /\ Cancel(p).refunds = p.refunds
<1>1. [p EXCEPT !.tx = TRUE] \in PaymentRecord /\ [p EXCEPT !.tx = TRUE].refunds = p.refunds
  BY DEF PaymentRecord
<1>2. MarkPending(p).status = "PENDING" /\ MarkPending(p).refunds = p.refunds
  <2> DEFINE q == [p EXCEPT !.tx = TRUE]
  <2> HIDE DEF q
  <2>1. q \in PaymentRecord /\ q.refunds = p.refunds
    BY <1>1 DEF q
  <2>2. Move(q, "PENDING", "PaymentPending").status = "PENDING" /\ Move(q, "PENDING", "PaymentPending").refunds = q.refunds
    BY <2>1, MoveIs
  <2> QED
    BY <2>1, <2>2 DEF MarkPending, q
<1> QED
  BY <1>2, MoveIs DEF MarkCompleted, MarkFailed, MarkExpired, Cancel

\* An unpaid payment has no refunds at all, and one never stored is unpaid.
LEMMA Unpaid ==
  ASSUME FitInv
  PROVE  /\ row.status \notin PaidStatus => refunds = NoRefunds
         /\ row.version = 0 => refunds = NoRefunds
         /\ row.version \in Nat
<1>1. row.status \notin PaidStatus => refunds = NoRefunds
  BY DEF FitInv, IInv, TypeOK, CopiesSound, NoneRequested, Tidy, NoRefunds
<1> QED
  BY <1>1 DEF FitInv, IInv, TypeOK, CopiesSound, PaidStatus

\* A copy that is loaded and current is the payment as stored.
LEMMA Current ==
  ASSUME FitInv, NEW w \in Worker, workers[w].pc \in {"loaded", "call", "decided", "cancel", "reload"}
  PROVE  LET p == workers[w].p IN
         /\ p \in PaymentRecord /\ workers[w].op # "create" /\ p.version > 0
         /\ p.version <= row.version /\ row.version > 0
         /\ p.version = row.version => p.status = row.status /\ p.refunds = refunds /\ View = row.status
<1>1. workers[w] \in WorkerState /\ workers[w].p \in PaymentRecord /\ row.version \in Nat
  BY DEF FitInv, IInv, TypeOK, WorkerState
<1>2. Fits(workers[w]) /\ Known(workers[w]) /\ workers[w].p.version <= row.version
  BY DEF FitInv, IsIdle, IInv, CopiesSound, CopySound
<1> QED
  BY <1>1, <1>2 DEF Fits, Known, View, PaymentRecord

\* An operation that ends without a Save.
LEMMA FinishFits ==
  ASSUME FitInv, IInv', NEW w \in Worker, UNCHANGED stored, Finish(w)
  PROVE  FitInv' /\ LifeStep
<1>1. workers'[w].pc = "idle" /\ Alone(w)
  BY IdleType DEF Finish, Alone, FitInv, IInv, TypeOK
<1> QED
  BY <1>1, KeepFits

\* An operation that ends with the Save of q, which is legal if it is current.
LEMMA SaveAndFinishFits ==
  ASSUME FitInv, IInv', NEW w \in Worker, NEW q \in PaymentRecord, SaveAndFinish(w, q),
         UpToDate(q) => Legal(q)
  PROVE  FitInv' /\ LifeStep
<1>1. workers'[w].pc = "idle" /\ Alone(w)
  BY IdleType DEF SaveAndFinish, Finish, Alone, FitInv, IInv, TypeOK
<1>2. Save(q) /\ Legal(q)
  BY DEF SaveAndFinish, Save
<1> QED
  BY <1>1, <1>2, SaveFits

-----------------------------------------------------------------------------
(* One lemma per operation. *)

LEMMA ReadRowFits ==
  ASSUME FitInv, IInv', NEW w \in Worker, NEW op \in OpNames \ {"create"}, ReadRow(w, op),
         row.version > 0, UNCHANGED stored
  PROVE  FitInv' /\ LifeStep
<1>1. /\ workers'[w].pc = "row" /\ workers'[w].op = op
      /\ workers'[w].p = RowCopy /\ Alone(w)
  BY DEF ReadRow, Alone, Idle, FitInv, IInv, TypeOK
<1>2. RowCopy.version = row.version
  BY DEF RowCopy
<1> QED
  BY <1>1, <1>2, KeepFits DEF Fits, Known

LEMMA ReadRefundsFits ==
  ASSUME FitInv, IInv', NEW w \in Worker, ReadRefunds(w)
  PROVE  FitInv' /\ LifeStep
<1>1. workers[w] \in WorkerState /\ workers[w].p \in PaymentRecord
  BY DEF FitInv, IInv, TypeOK, WorkerState
<1>2. /\ workers'[w].pc = "loaded" /\ workers'[w].op = workers[w].op
      /\ workers'[w].p.version = workers[w].p.version
      /\ workers'[w].p.status = workers[w].p.status
      /\ workers'[w].p.refunds = refunds /\ Alone(w) /\ UNCHANGED stored
  BY <1>1 DEF ReadRefunds, Alone, FitInv, IInv, TypeOK, WorkerState, PaymentRecord
<1>3. /\ Known(workers[w])
      /\ workers[w].p.version = row.version => workers[w].p.status = row.status
  BY DEF ReadRefunds, FitInv, IInv, CopiesSound, CopySound, UpToDate, IsIdle
<1>4. workers[w].pc = "row"
  BY DEF ReadRefunds
<1>5. Fits(workers'[w]) /\ Known(workers'[w])
  BY <1>2, <1>3, <1>4 DEF Fits, Known
<1> QED
  BY <1>2, <1>5, KeepFits

LEMMA FindUnpaidFits ==
  ASSUME FitInv, IInv', NEW w \in Worker, NEW op \in OpNames \ {"create"},
         NEW status \in Status \ PaidStatus, FindUnpaid(w, op, status)
  PROVE  FitInv' /\ LifeStep
<1>1. /\ workers'[w].pc = "loaded" /\ workers'[w].op = op
      /\ workers'[w].p = RowCopy /\ Alone(w) /\ UNCHANGED stored /\ row.version > 0
  BY DEF FindUnpaid, Alone, Idle, FitInv, IInv, TypeOK
<1>2. RowCopy.version = row.version /\ RowCopy.status = row.status /\ RowCopy.refunds = refunds
  BY Unpaid DEF RowCopy, FindUnpaid
<1> QED
  BY <1>1, <1>2, KeepFits DEF Fits, Known

LEMMA CreateChargeFits ==
  ASSUME FitInv, IInv', NEW w \in Worker, CreateCharge(w)
  PROVE  FitInv' /\ LifeStep
<1>1. PICK p : /\ p \in {New, MarkFailed(New)} \cup {AfterCharge(word) : word \in {"pending", "settlement", "deny"}}
               /\ workers' = [workers EXCEPT ![w] = [Idle EXCEPT !.op = "create", !.pc = "save", !.p = p]]
  BY DEF CreateCharge
<1>2. New \in PaymentRecord /\ New.status = "INITIATED" /\ New.refunds = NoRefunds
  BY NewSound DEF New
<1>3. MarkPending(New) \in PaymentRecord
  BY <1>2, LifeCycleFollows DEF CanMarkPending, Follows
<1>4. p.status \in Opened /\ p.refunds = NoRefunds
  BY <1>1, <1>2, <1>3, MethodsMove DEF Opened, AfterCharge
<1>5. workers'[w].pc = "save" /\ workers'[w].op = "create" /\ workers'[w].p = p /\ Alone(w)
  BY <1>1 DEF Alone, Idle, FitInv, IInv, TypeOK
<1>6. row.version = 0 /\ UNCHANGED stored
  BY DEF CreateCharge
<1>7. Moves(View, p.status) /\ p.refunds = refunds
  BY <1>4, <1>6, Unpaid DEF Moves, View
<1> QED
  BY <1>5, <1>6, <1>7, KeepFits DEF Fits, Known

\* A payment whose move was prepared, or that was created.
LEMMA PreparedFits ==
  ASSUME FitInv, IInv', NEW w \in Worker, CreateSave(w) \/ CancelSave(w) \/ ChargeSave(w)
  PROVE  FitInv' /\ LifeStep
<1>1. workers[w].pc = "save" /\ SaveAndFinish(w, workers[w].p) /\ workers[w].p \in PaymentRecord
  BY WorkerType DEF CreateSave, CancelSave, ChargeSave, At, FitInv
<1>2. Fits(workers[w])
  BY <1>1 DEF FitInv, IsIdle
<1>3. UpToDate(workers[w].p) => Legal(workers[w].p)
  BY <1>1, <1>2 DEF Fits, Legal, UpToDate
<1> QED
  BY <1>1, <1>3, SaveAndFinishFits

LEMMA CancelCallFits ==
  ASSUME FitInv, IInv', NEW w \in Worker, CancelCall(w)
  PROVE  FitInv' /\ LifeStep
<1> DEFINE p == workers[w].p
<1>1. workers[w].pc = "loaded" /\ UNCHANGED stored
  BY DEF CancelCall, At
<1>2. Cancel(p).version = p.version
  BY <1>1, Current, LifeCycleFollows DEF CancelCall, Follows
<1>3. workers'[w].pc = "save" /\ workers'[w].op = workers[w].op /\ workers'[w].p = Cancel(p) /\ Alone(w)
  BY DEF CancelCall, Alone, FitInv, IInv, TypeOK, WorkerState
<1>4. p.version = row.version => Moves(View, Cancel(p).status) /\ Cancel(p).refunds = refunds
  BY <1>1, Current, MethodsMove DEF Moves, CancelCall, CanCancel, FitInv, Lifecycle!NextStatus
<1>5. workers[w].op # "create" /\ p.version > 0
  BY <1>1, Current
<1> HIDE DEF p
<1>6. Fits(workers'[w]) /\ Known(workers'[w])
  BY <1>2, <1>3, <1>4, <1>5 DEF Fits, Known
<1> QED
  BY <1>1, <1>3, <1>6, KeepFits

LEMMA ExpireFits ==
  ASSUME FitInv, IInv', NEW w \in Worker, Expire(w)
  PROVE  FitInv' /\ LifeStep
<1> DEFINE p == workers[w].p
           q == MarkExpired(p)
<1>1. workers[w].pc = "loaded" /\ SaveAndFinish(w, q) /\ CanMarkExpired(p)
  BY DEF Expire, At
<1>2. q \in PaymentRecord /\ q.version = p.version
  BY <1>1, Current, LifeCycleFollows DEF Follows
<1>3. q.status = "EXPIRED" /\ q.refunds = p.refunds
  BY <1>1, Current, MethodsMove
<1>4. p.version = row.version => p.status = View /\ p.refunds = refunds
  BY <1>1, Current
<1> HIDE DEF q
<1>5. UpToDate(q) => Moves(View, q.status) /\ q.refunds = refunds
  BY <1>1, <1>2, <1>3, <1>4 DEF Moves, CanMarkExpired, Lifecycle!NextStatus, UpToDate
<1> QED
  BY <1>1, <1>2, <1>5, SaveAndFinishFits DEF Legal

\* Notifications settle refunds of paid payments and move unpaid ones.
LEMMA NotificationMoves ==
  ASSUME FitInv, NEW p \in PaymentRecord, NEW n,
         p.status = row.status, p.refunds = refunds, View = row.status
  PROVE  LET c == AfterNotification(p, n) IN
         \/ Settles(row.status, refunds, c.status, c.refunds)
         \/ /\ Moves(View, c.status) /\ c.refunds = refunds
            /\ c.status = "COMPLETED" => n.status = "SETTLED"
            /\ c.status = "FAILED" => n.status = "FAILED"
<1> DEFINE S == Confirmed(p, n)
           a == CompleteRefunds(p, S)
           b == IF CanMarkPending(a) /\ n.status \in {"SETTLED", "FAILED"} THEN MarkPending(a) ELSE a
           c == AfterNotification(p, n)
<1>1. S \subseteq RefundsIn(p, {"PENDING"}) /\ refunds \in [RefundId -> Refund]
  BY DEF Confirmed, FitInv, IInv, TypeOK
<1>2. a \in PaymentRecord /\ Settles(row.status, refunds, a.status, a.refunds)
  BY <1>1, CompleteRefundsFollows, SettlesNothing, CompleteSettles DEF Follows
<1>3. b \in PaymentRecord /\ b.refunds = a.refunds
  <2> HIDE DEF a
  <2> QED
    BY <1>2, LifeCycleFollows, MethodsMove DEF Follows
<1>4. \/ c = b
      \/ c = MarkCompleted(b) /\ CanMarkCompleted(b) /\ n.status = "SETTLED"
      \/ c = MarkFailed(b) /\ CanMarkFailed(b) /\ n.status = "FAILED"
  BY DEF AfterNotification
<1>5. CASE S = {}
  <2>1. a = p
    BY <1>5 DEF CompleteRefunds
  <2> HIDE DEF a, S
  <2>2. b.status \in {p.status, "PENDING"} /\ (b.status # p.status => p.status = "INITIATED")
    BY <1>2, <2>1, MethodsMove DEF CanMarkPending
  <2>3. b = p \/ (p.status = "INITIATED" /\ b.status = "PENDING")
    BY <1>2, <2>1, MethodsMove DEF CanMarkPending
  <2> HIDE DEF b, c
  <2>4. c.refunds = refunds
    BY <1>3, <1>4, <2>1, MethodsMove
  <2>5. p.status \in Status \ {"PROCESSING"}
    BY DEF FitInv, PaymentRecord
  <2>6. \/ c = p
        \/ /\ p.status \in {"INITIATED", "PENDING"}
           /\ (c.status = "COMPLETED" /\ n.status = "SETTLED") \/ (c.status = "FAILED" /\ n.status = "FAILED")
        \/ p.status = "INITIATED" /\ c.status = "PENDING"
    BY <1>3, <1>4, <2>3, <2>5, MethodsMove DEF CanMarkCompleted, CanMarkFailed, Status, TerminalStatus, PaidStatus
  <2>7. c = p => Settles(row.status, refunds, c.status, c.refunds)
    BY <1>1, SettlesNothing
  <2>8. c # p => /\ Moves(View, c.status)
                 /\ c.status = "COMPLETED" => n.status = "SETTLED"
                 /\ c.status = "FAILED" => n.status = "FAILED"
    BY <2>6 DEF Moves, Lifecycle!NextStatus
  <2> QED
    BY <2>4, <2>7, <2>8 DEF c
<1>6. CASE S # {}
  <2>1. a.status \in {"REFUNDED", "PARTIALLY_REFUNDED"}
    BY <1>6 DEF CompleteRefunds, PaymentRecord
  <2> HIDE DEF a, S
  <2>2. b = a
    BY <2>1 DEF CanMarkPending
  <2>3. c = a
    BY <1>4, <2>1, <2>2 DEF CanMarkCompleted, CanMarkFailed, TerminalStatus, PaidStatus
  <2> HIDE DEF b, c
  <2>4. Settles(row.status, refunds, c.status, c.refunds)
    BY <1>2, <2>3
  <2> QED
    BY <2>4 DEF c
<1> QED
  BY <1>5, <1>6

LEMMA CallbackFits ==
  ASSUME FitInv, IInv', NEW w \in Worker, Callback(w)
  PROVE  FitInv' /\ LifeStep
<1> DEFINE p == workers[w].p
<1>1. PICK n \in notifs : SaveAndFinish(w, AfterNotification(p, n))
  BY DEF Callback
<1>2. workers[w].pc = "loaded"
  BY DEF Callback, At
<1>3. Follows(p, AfterNotification(p, n))
  BY <1>2, Current, AfterNotificationFollows
<1>4. p.version = row.version => Legal(AfterNotification(p, n))
  BY <1>2, Current, NotificationMoves DEF Legal
<1> QED
  BY <1>1, <1>3, <1>4, SaveAndFinishFits DEF Follows, UpToDate

LEMMA RefundReserveFits ==
  ASSUME FitInv, IInv', NEW w \in Worker, RefundReserve(w)
  PROVE  FitInv' /\ LifeStep
<1> DEFINE p == workers[w].p
<1>1. PICK r \in RefundId, ref \in Reference, asked \in 0..Amount :
        LET amount == IF asked = 0 THEN RefundableAmount(p) ELSE asked
            q      == RequestRefund(p, r, ref, amount)
        IN  /\ p.refunds[r].status = "NONE"
            /\ CanRequestRefund(p, ref, amount)
            /\ Save(q)
            /\ workers' = [workers EXCEPT ![w].pc = "call", ![w].p = Saved(q), ![w].r = {r}]
  BY DEF RefundReserve
<1> DEFINE amount == IF asked = 0 THEN RefundableAmount(p) ELSE asked
           q      == RequestRefund(p, r, ref, amount)
<1>2. workers[w].pc = "loaded"
  BY DEF RefundReserve, At
<1>3. p \in PaymentRecord /\ workers[w].op # "create"
  BY <1>2, Current
<1>4. amount \in Int
  BY TotalType, AmountAssumption DEF RefundableAmount
<1>5. Follows(p, q)
  <2> HIDE DEF p, amount
  <2> QED
    BY <1>1, <1>3, <1>4, RequestRefundFollows DEF amount
<1>6. p.version = row.version
  BY <1>1, <1>5 DEF Save, UpToDate, Follows
<1>7. p.status = row.status /\ p.refunds = refunds /\ row.version > 0
  BY <1>2, <1>6, Current
<1>8. amount \in 1..(Amount - Total(refunds, ReservedStatus))
  BY <1>1, <1>4, <1>7, TotalType, AmountAssumption DEF CanRequestRefund, RefundableAmount
<1>9. \A o \in RefundId : refunds[o].status # "NONE" => refunds[o].ref # ref
  BY <1>1, <1>7 DEF CanRequestRefund, RefundByReference
<1>10. /\ q.status = row.status /\ row.status \in {"COMPLETED", "PARTIALLY_REFUNDED"}
       /\ q.refunds = [refunds EXCEPT ![r] = [status |-> "PENDING", amount |-> amount, ref |-> ref]]
  BY <1>1, <1>3, <1>7 DEF RequestRefund, CanRequestRefund, PaymentRecord
<1>11. /\ workers'[w].pc = "call" /\ workers'[w].op = workers[w].op
       /\ workers'[w].p = Saved(q) /\ Alone(w)
  <2>1. workers' = [workers EXCEPT ![w].pc = "call", ![w].p = Saved(q), ![w].r = {r}]
    BY <1>1
  <2> HIDE DEF q
  <2> QED
    BY <2>1 DEF Alone, FitInv, IInv, TypeOK, WorkerState
<1>12. Save(q) /\ refunds[r].status = "NONE"
  BY <1>1, <1>7
<1> HIDE DEF q, amount, p
<1>13. Legal(q)
  BY <1>7, <1>8, <1>9, <1>10, <1>12 DEF Legal, Requests
<1> QED
  BY <1>3, <1>5, <1>11, <1>12, <1>13, SaveFits DEF Follows

\* A step that leaves a loaded copy as it is.
LEMMA SameCopyFits ==
  ASSUME FitInv, IInv', NEW w \in Worker, UNCHANGED stored, Alone(w),
         workers[w].pc \in {"loaded", "call", "decided", "cancel", "reload"},
         workers'[w].pc \in {"loaded", "call", "decided", "cancel", "reload"},
         workers'[w].op = workers[w].op, workers'[w].p = workers[w].p
  PROVE  FitInv' /\ LifeStep
<1>1. Fits(workers'[w]) /\ Known(workers'[w])
  BY Current DEF Fits, Known
<1> QED
  BY <1>1, KeepFits

LEMMA RefundCallFits ==
  ASSUME FitInv, IInv', NEW w \in Worker, RefundCall(w)
  PROVE  FitInv' /\ LifeStep
<1>1. UNCHANGED stored /\ workers[w].pc = "call"
  BY DEF RefundCall, At
<1>2. CASE Finish(w)
  BY <1>1, <1>2, FinishFits
<1>3. CASE ~Finish(w)
  <2>1. \E accepted \in BOOLEAN : workers' = [workers EXCEPT ![w].pc = "decided", ![w].accepted = accepted]
    BY <1>3 DEF RefundCall
  <2>2. /\ workers'[w].pc = "decided" /\ workers'[w].op = workers[w].op
        /\ workers'[w].p = workers[w].p /\ Alone(w)
    BY <2>1 DEF Alone, FitInv, IInv, TypeOK, WorkerState
  <2> QED
    BY <1>1, <2>2, SameCopyFits
<1> QED
  BY <1>2, <1>3

\* What the gateway decided about one refund, applied to a current copy.
LEMMA OutcomeSettles ==
  ASSUME FitInv, NEW p \in PaymentRecord, NEW r \in RefundId, NEW accepted,
         CanApplyOutcome(p, r, accepted), p.status = row.status, p.refunds = refunds
  PROVE  LET q == ApplyOutcome(p, r, accepted) IN Settles(row.status, refunds, q.status, q.refunds)
<1>1. Settles(row.status, refunds, p.status, p.refunds)
  BY SettlesNothing DEF FitInv, IInv, TypeOK
<1>2. refunds \in [RefundId -> Refund] /\ {r} \cap RefundsIn(p, {"PENDING"}) \subseteq RefundsIn(p, {"PENDING"})
  BY DEF FitInv, IInv, TypeOK
<1>3. LET q == CompleteRefund(p, r) IN Settles(row.status, refunds, q.status, q.refunds)
  BY <1>1, <1>2, CompleteSettles DEF CompleteRefund
<1>4. CanFailRefund(p, r) => LET q == FailRefund(p, r) IN Settles(row.status, refunds, q.status, q.refunds)
  BY <1>1, <1>2, FailSettles
<1> QED
  BY <1>3, <1>4 DEF ApplyOutcome, CanApplyOutcome

LEMMA OutcomeSaveFits ==
  ASSUME FitInv, IInv', NEW w \in Worker, workers[w].pc \in {"loaded", "decided"}, NEW r \in workers[w].r,
         CanApplyOutcome(workers[w].p, r, workers[w].accepted),
         SaveAndFinish(w, ApplyOutcome(workers[w].p, r, workers[w].accepted))
  PROVE  FitInv' /\ LifeStep
<1> DEFINE p == workers[w].p
           q == ApplyOutcome(p, r, workers[w].accepted)
<1>1. r \in RefundId /\ p \in PaymentRecord
  BY WorkerType DEF FitInv
<1>2. Follows(p, q)
  BY <1>1, ApplyOutcomeFollows
<1>3. p.version = row.version => Legal(q)
  <2>1. p.version = row.version => row.version > 0 /\ p.status = row.status /\ p.refunds = refunds
    BY Current
  <2> QED
    BY <1>1, <2>1, OutcomeSettles DEF Legal
<1> HIDE DEF q
<1>4. q \in PaymentRecord /\ (UpToDate(q) => Legal(q))
  BY <1>2, <1>3 DEF Follows, UpToDate
<1>5. SaveAndFinish(w, q)
  BY DEF q
<1> QED
  BY <1>4, <1>5, SaveAndFinishFits

LEMMA RefundOutcomeFits ==
  ASSUME FitInv, IInv', NEW w \in Worker, RefundOutcome(w)
  PROVE  FitInv' /\ LifeStep
<1>1. workers[w].pc = "decided"
  BY DEF RefundOutcome, At
<1>2. PICK r \in workers[w].r :
        /\ CanApplyOutcome(workers[w].p, r, workers[w].accepted)
        /\ \/ SaveAndFinish(w, ApplyOutcome(workers[w].p, r, workers[w].accepted))
           \/ /\ workers' = [workers EXCEPT ![w].pc = "reload"]
              /\ UNCHANGED <<stored, age, outside>>
  BY DEF RefundOutcome
<1>3. CASE SaveAndFinish(w, ApplyOutcome(workers[w].p, r, workers[w].accepted))
  BY <1>1, <1>2, <1>3, OutcomeSaveFits
<1>4. CASE workers' = [workers EXCEPT ![w].pc = "reload"] /\ UNCHANGED <<stored, age, outside>>
  <2>1. /\ workers'[w].pc = "reload" /\ workers'[w].op = workers[w].op
        /\ workers'[w].p = workers[w].p /\ Alone(w)
    BY <1>4 DEF Alone, FitInv, IInv, TypeOK, WorkerState
  <2> QED
    BY <1>1, <1>4, <2>1, SameCopyFits
<1> QED
  BY <1>2, <1>3, <1>4

LEMMA OutcomeReloadFits ==
  ASSUME FitInv, IInv', NEW w \in Worker, OutcomeReload(w)
  PROVE  FitInv' /\ LifeStep
<1>1. workers[w].pc = "reload" /\ UNCHANGED stored
  BY DEF OutcomeReload, At
<1>2. workers'[w].pc = "row" /\ workers'[w].op = "outcome" /\ workers'[w].p = RowCopy /\ Alone(w)
  BY DEF OutcomeReload, Alone, FitInv, IInv, TypeOK, WorkerState
<1>3. RowCopy.version > 0
  BY <1>1, Current DEF RowCopy
<1> QED
  BY <1>1, <1>2, <1>3, KeepFits DEF Fits, Known

LEMMA OutcomeRetryFits ==
  ASSUME FitInv, IInv', NEW w \in Worker, OutcomeRetry(w)
  PROVE  FitInv' /\ LifeStep
BY OutcomeSaveFits DEF OutcomeRetry, At

\* What the reconciler makes of an INITIATED payment.
Reconciled(p, q) ==
  \/ CanMarkFailed(p)  /\ q = MarkFailed(p)
  \/ CanMarkPending(p) /\ q = MarkCompleted(MarkPending(p))
  \/ CanMarkPending(p) /\ q = MarkFailed(MarkPending(p))

\* The reconciler moves an INITIATED payment, or leaves it for the cancel.
LEMMA ChargeMoveFits ==
  ASSUME FitInv, IInv', NEW w \in Worker, UNCHANGED stored, NEW q,
         workers[w].pc \in {"loaded", "cancel"},
         Reconciled(workers[w].p, q),
         workers'[w].pc = "save", workers'[w].op = workers[w].op, workers'[w].p = q, Alone(w)
  PROVE  FitInv' /\ LifeStep
<1> DEFINE p == workers[w].p
<1>1. p \in PaymentRecord /\ workers[w].op # "create" /\ p.version > 0
  BY Current
<1>2. CanMarkFailed(p)
  BY DEF CanMarkPending, CanMarkFailed, TerminalStatus, PaidStatus, Reconciled
<1>3. CanMarkPending(p) => MarkPending(p) \in PaymentRecord
  BY <1>1, PendingThenFinal DEF Follows
<1>4. Follows(p, q)
  BY <1>1, <1>2, PendingThenFinal, LifeCycleFollows DEF Reconciled
<1>5. /\ q.status \in {"COMPLETED", "FAILED"} /\ q.refunds = p.refunds
      /\ q.status = "COMPLETED" => p.status = "INITIATED"
  BY <1>1, <1>3, MethodsMove DEF CanMarkPending, Reconciled
<1>6. p.version = row.version => p.status = View /\ p.refunds = refunds /\ p.status # "PROCESSING"
  BY Current DEF FitInv
<1>7. p.version = row.version => Moves(View, q.status) /\ q.refunds = refunds
  BY <1>1, <1>2, <1>5, <1>6 DEF Moves, Lifecycle!NextStatus, CanMarkFailed, PaymentRecord, Status, TerminalStatus
<1> HIDE DEF p
<1>8. Fits(workers'[w]) /\ Known(workers'[w])
  BY <1>1, <1>4, <1>7 DEF Fits, Known, Follows
<1> QED
  BY <1>8, KeepFits

LEMMA ChargeLookupFits ==
  ASSUME FitInv, IInv', NEW w \in Worker, ChargeLookup(w)
  PROVE  FitInv' /\ LifeStep
<1> DEFINE p == workers[w].p
<1>1. workers[w].pc = "loaded" /\ UNCHANGED stored
  BY DEF ChargeLookup, At
<1>2. CASE workers' = [workers EXCEPT ![w].pc = "cancel", ![w].p = p]
  <2>1. /\ workers'[w].pc = "cancel" /\ workers'[w].op = workers[w].op
        /\ workers'[w].p = p /\ Alone(w)
    BY <1>2 DEF Alone, FitInv, IInv, TypeOK, WorkerState
  <2> QED
    BY <1>1, <2>1, SameCopyFits
<1>3. ASSUME workers' # [workers EXCEPT ![w].pc = "cancel", ![w].p = p]
      PROVE  FitInv' /\ LifeStep
  <2>1. PICK q : Reconciled(p, q) /\ workers' = [workers EXCEPT ![w].pc = "save", ![w].p = q]
    BY <1>3 DEF ChargeLookup, Reconciled
  <2>2. /\ workers'[w].pc = "save" /\ workers'[w].op = workers[w].op
        /\ workers'[w].p = q /\ Alone(w)
    BY <2>1 DEF Alone, FitInv, IInv, TypeOK, WorkerState
  <2>3. Reconciled(workers[w].p, q)
    BY <2>1
  <2> QED
    BY <1>1, <2>2, <2>3, ChargeMoveFits
<1> QED
  BY <1>2, <1>3

LEMMA ChargeCancelFits ==
  ASSUME FitInv, IInv', NEW w \in Worker, ChargeCancel(w)
  PROVE  FitInv' /\ LifeStep
<1>1. workers[w].pc = "cancel" /\ UNCHANGED stored /\ CanMarkPending(workers[w].p)
  BY DEF ChargeCancel, At
<1>2. CASE Finish(w)
  BY <1>1, <1>2, FinishFits
<1>3. CASE ~Finish(w)
  <2>1. PICK q : /\ Reconciled(workers[w].p, q)
                 /\ workers' = [workers EXCEPT ![w].pc = "save", ![w].p = q]
    BY <1>1, <1>3 DEF ChargeCancel, Reconciled
  <2>2. /\ workers'[w].pc = "save" /\ workers'[w].op = workers[w].op
        /\ workers'[w].p = q /\ Alone(w)
    BY <2>1 DEF Alone, FitInv, IInv, TypeOK, WorkerState
  <2>3. Reconciled(workers[w].p, q)
    BY <2>1
  <2> QED
    BY <1>1, <2>2, <2>3, ChargeMoveFits
<1> QED
  BY <1>2, <1>3

\* A reconciliation pass whose copy was edited: refunds of the row are settled.
LEMMA ResendFits ==
  ASSUME FitInv, IInv', NEW w \in Worker, UNCHANGED stored, Alone(w), NEW q,
         Follows(workers[w].p, q), Known(workers[w]), ~IsIdle(w), workers[w].pc # "save",
         workers'[w].pc = "resend", workers'[w].op = workers[w].op, workers'[w].p = q,
         q.version = row.version => Settles(row.status, refunds, q.status, q.refunds)
  PROVE  FitInv' /\ LifeStep
<1>1. workers[w].op # "create" /\ workers[w].p.version > 0 /\ q.version = workers[w].p.version
  BY DEF Known, IsIdle, Follows
<1>2. Fits(workers'[w]) /\ Known(workers'[w])
  BY <1>1 DEF Fits, Known
<1> QED
  BY <1>2, KeepFits

LEMMA RefundsLookupFits ==
  ASSUME FitInv, IInv', NEW w \in Worker, RefundsLookup(w)
  PROVE  FitInv' /\ LifeStep
<1> DEFINE p == workers[w].p
           S == Confirmed(p, ReportOf(gw))
           q == CompleteRefunds(p, S)
<1>1. workers[w].pc = "loaded" /\ UNCHANGED stored /\ ~IsIdle(w) /\ Known(workers[w])
  BY DEF RefundsLookup, At, FitInv, IsIdle
<1>2. p \in PaymentRecord /\ (p.version = row.version => p.status = row.status /\ p.refunds = refunds)
  BY <1>1, Current
<1>3. S \subseteq RefundsIn(p, {"PENDING"}) /\ refunds \in [RefundId -> Refund]
  BY DEF Confirmed, FitInv, IInv, TypeOK
<1>4. /\ workers'[w].pc = "resend" /\ workers'[w].op = workers[w].op
      /\ workers'[w].p = q /\ Alone(w)
  BY DEF RefundsLookup, Alone, FitInv, IInv, TypeOK, WorkerState
<1> HIDE DEF p, S
<1>5. Follows(p, q)
  BY <1>2, <1>3, CompleteRefundsFollows
<1>6. ASSUME q.version = row.version PROVE Settles(row.status, refunds, q.status, q.refunds)
  <2>1. Settles(row.status, refunds, p.status, p.refunds)
    BY <1>2, <1>3, <1>5, <1>6, SettlesNothing DEF Follows
  <2> QED
    BY <1>2, <1>3, <2>1, CompleteSettles
<1> HIDE DEF q
<1> QED
  BY <1>1, <1>4, <1>5, <1>6, ResendFits DEF p

LEMMA RefundsResendFits ==
  ASSUME FitInv, IInv', NEW w \in Worker, RefundsResend(w)
  PROVE  FitInv' /\ LifeStep
<1> DEFINE p == workers[w].p
<1>1. workers[w].pc = "resend" /\ UNCHANGED stored /\ ~IsIdle(w) /\ Known(workers[w]) /\ Fits(workers[w])
  BY DEF RefundsResend, At, FitInv, IsIdle
<1>2. p \in PaymentRecord /\ workers[w].todo \subseteq RefundId /\ refunds \in [RefundId -> Refund]
  BY WorkerType DEF FitInv, IInv, TypeOK
<1>a. PICK r \in workers[w].todo : \E q :
        /\ Resent(w, r, q)
        /\ q = p \/ q = CompleteRefund(p, r) \/ (CanFailRefund(p, r) /\ q = FailRefund(p, r))
  BY DEF RefundsResend
<1>3. PICK q :
        /\ Resent(w, r, q)
        /\ q = p \/ q = CompleteRefund(p, r) \/ (CanFailRefund(p, r) /\ q = FailRefund(p, r))
  BY <1>a
<1>4. /\ workers'[w].pc = "resend" /\ workers'[w].op = workers[w].op
      /\ workers'[w].p = q /\ Alone(w)
  BY <1>1, <1>3 DEF Resent, Alone, FitInv, IInv, TypeOK, WorkerState
<1>5. p.version = row.version => Settles(row.status, refunds, p.status, p.refunds)
  BY <1>1 DEF Fits
<1> HIDE DEF p
<1>6. Follows(p, q)
  BY <1>2, <1>3, FollowsReflexive, CompleteRefundFollows, FailRefundFollows
<1>7. ASSUME q.version = row.version PROVE Settles(row.status, refunds, q.status, q.refunds)
  <2>1. Settles(row.status, refunds, p.status, p.refunds)
    BY <1>5, <1>6, <1>7 DEF Follows
  <2>2. CASE q = p
    BY <2>1, <2>2
  <2>3. CASE q = CompleteRefund(p, r)
    <3>1. {r} \cap RefundsIn(p, {"PENDING"}) \subseteq RefundsIn(p, {"PENDING"})
      OBVIOUS
    <3> QED
      BY <1>2, <2>1, <2>3, <3>1, CompleteSettles DEF CompleteRefund
  <2>4. CASE CanFailRefund(p, r) /\ q = FailRefund(p, r)
    BY <1>2, <2>1, <2>4, FailSettles
  <2> QED
    BY <1>3, <2>2, <2>3, <2>4
<1> QED
  BY <1>1, <1>4, <1>6, <1>7, ResendFits DEF p

LEMMA RefundsSaveFits ==
  ASSUME FitInv, IInv', NEW w \in Worker, RefundsSave(w)
  PROVE  FitInv' /\ LifeStep
<1>1. /\ workers[w].pc = "resend" /\ ~IsIdle(w) /\ SaveAndFinish(w, workers[w].p)
      /\ workers[w].p \in PaymentRecord
  BY WorkerType DEF RefundsSave, At, FitInv, IsIdle
<1>2. Fits(workers[w]) /\ Known(workers[w])
  BY <1>1 DEF FitInv
<1>3. UpToDate(workers[w].p) => Legal(workers[w].p)
  BY <1>1, <1>2 DEF Fits, Known, Legal, UpToDate
<1> QED
  BY <1>1, <1>3, SaveAndFinishFits

-----------------------------------------------------------------------------
(* The specification keeps FitInv, and each step is one of the lifecycle. *)

LEMMA StepFits ==
  ASSUME FitInv, IInv', NEW w \in Worker, Step(w)
  PROVE  FitInv' /\ LifeStep
<1>1. CASE BeginRequest(w)
  <2>1. PICK op \in OpNames \ {"create"} : ReadRow(w, op)
    BY <1>1 DEF BeginRequest, OpNames
  <2> QED
    BY <1>1, <2>1, ReadRowFits DEF BeginRequest
<1>2. CASE BeginReconcileRefunds(w)
  <2>1. row.version > 0
    <3>1. refunds # NoRefunds
      BY <1>2 DEF BeginReconcileRefunds, NoRefunds, NoRefund
    <3> QED
      BY <3>1, Unpaid
  <2> QED
    BY <1>2, <2>1, ReadRowFits DEF BeginReconcileRefunds, OpNames
<1>3. CASE BeginReconcileCharge(w)
  BY <1>3, FindUnpaidFits DEF BeginReconcileCharge, OpNames, Status, PaidStatus
<1>4. CASE BeginExpiry(w)
  BY <1>4, FindUnpaidFits DEF BeginExpiry, OpNames, Status, PaidStatus
<1>5. CASE Abandon(w)
  BY <1>5, FinishFits DEF Abandon
<1>6. CASE CreateSave(w) \/ CancelSave(w) \/ ChargeSave(w)
  BY <1>6, PreparedFits
<1>7. CASE ReadRefunds(w)
  BY <1>7, ReadRefundsFits
<1>8. CASE CreateCharge(w)
  BY <1>8, CreateChargeFits
<1>9. CASE CancelCall(w)
  BY <1>9, CancelCallFits
<1>10. CASE Expire(w)
  BY <1>10, ExpireFits
<1>11. CASE Callback(w)
  BY <1>11, CallbackFits
<1>12. CASE RefundReserve(w)
  BY <1>12, RefundReserveFits
<1>13. CASE RefundCall(w)
  BY <1>13, RefundCallFits
<1>14. CASE RefundOutcome(w)
  BY <1>14, RefundOutcomeFits
<1>15. CASE OutcomeReload(w)
  BY <1>15, OutcomeReloadFits
<1>16. CASE OutcomeRetry(w)
  BY <1>16, OutcomeRetryFits
<1>17. CASE ChargeLookup(w)
  BY <1>17, ChargeLookupFits
<1>18. CASE ChargeCancel(w)
  BY <1>18, ChargeCancelFits
<1>19. CASE RefundsLookup(w)
  BY <1>19, RefundsLookupFits
<1>20. CASE RefundsResend(w)
  BY <1>20, RefundsResendFits
<1>21. CASE RefundsSave(w)
  BY <1>21, RefundsSaveFits
<1> QED
  BY <1>1, <1>2, <1>3, <1>4, <1>5, <1>6, <1>7, <1>8, <1>9, <1>10, <1>11, <1>12, <1>13,
     <1>14, <1>15, <1>16, <1>17, <1>18, <1>19, <1>20, <1>21 DEF Step

\* A step outside PayGate.
LEMMA OutsideFits ==
  ASSUME FitInv, IInv', UNCHANGED stored, UNCHANGED workers
  PROVE  FitInv' /\ LifeStep
<1>1. UNCHANGED <<row, refunds>> /\ UNCHANGED View
  BY DEF stored, View
<1>2. ASSUME NEW v \in Worker PROVE (~IsIdle(v) => Fits(workers[v]) /\ Known(workers[v]))'
  <2>1. ~IsIdle(v) => Fits(workers[v]) /\ Known(workers[v])
    BY DEF FitInv
  <2> QED
    BY <1>1, <2>1 DEF IsIdle, Known, Fits
<1>3. FitInv'
  BY <1>1, <1>2 DEF FitInv, Tidy
<1>4. LifeStep
  BY <1>1 DEF LifeStep, Lifecycle!lifecycleVars, View
<1> QED
  BY <1>3, <1>4

LEMMA InitFits == Init => FitInv /\ Lifecycle!LifecycleInit
<1> SUFFICES ASSUME Init PROVE FitInv /\ Lifecycle!LifecycleInit
  OBVIOUS
<1>1. IInv
  BY InitKeeps
<1>2. Tidy(refunds) /\ row.status # "PROCESSING"
  BY DEF Init, Tidy, NoRefunds, NoRefund
<1>3. \A w \in Worker : IsIdle(w)
  BY IdleType DEF Init, IsIdle
<1>4. Lifecycle!LifecycleInit
  BY DEF Init, Lifecycle!LifecycleInit, Lifecycle!NoRefunds, Lifecycle!NoRefund, NoRefunds, NoRefund
<1> QED
  BY <1>1, <1>2, <1>3, <1>4 DEF FitInv

LEMMA NextFits == FitInv /\ [Next]_vars => FitInv' /\ LifeStep
<1> SUFFICES ASSUME FitInv, [Next]_vars PROVE FitInv' /\ LifeStep
  OBVIOUS
<1>1. IInv'
  BY NextKeeps DEF FitInv
<1>2. ASSUME NEW w \in Worker, Step(w) PROVE FitInv' /\ LifeStep
  BY <1>1, <1>2, StepFits
<1>3. CASE GatewaySettles \/ RefundInDashboard \/ UNCHANGED vars \/ \E r \in RefundId : GrowOlder(r)
  <2>1. UNCHANGED stored /\ UNCHANGED workers
    BY <1>3 DEF GatewaySettles, RefundInDashboard, GrowOlder, vars, stored
  <2> QED
    BY <1>1, <2>1, OutsideFits
<1> QED
  BY <1>2, <1>3 DEF Next

\* Whatever the handlers and jobs do at once, what they commit is one legal
\* step of the aggregate after another: PayGate implements PaymentLifecycle.
THEOREM SavesFollowLifecycle == Spec => ImplementsLifecycle
<1>1. Init => FitInv /\ Lifecycle!LifecycleInit
  BY InitFits
<1>2. FitInv /\ [Next]_vars => FitInv' /\ [Lifecycle!LifecycleNext]_(Lifecycle!lifecycleVars)
  BY NextFits DEF LifeStep
<1> QED
  BY <1>1, <1>2, PTL DEF Spec, ImplementsLifecycle, Lifecycle!LifecycleSpec

-----------------------------------------------------------------------------
(* What the lifecycle promises of the store. *)

\* The row's status is what PaymentLifecycle sees, once there is a row.
LEMMA ViewIs ==
  ASSUME FitInv
  PROVE  /\ View = "ABSENT" => row.status = "INITIATED" /\ refunds = NoRefunds
         /\ View # "ABSENT" => row.status = View
         /\ row.status \in Status
BY Unpaid DEF View, FitInv, IInv, TypeOK, CopiesSound, Status, TerminalStatus, PaidStatus

\* No more has succeeded than is reserved, and what has succeeded is something.
LEMMA Succeeded ==
  ASSUME FitInv
  PROVE  LET n == Total(refunds, {"SUCCEEDED"}) IN
         /\ n \in 0..Amount
         /\ (\E r \in RefundId : refunds[r].status = "SUCCEEDED") => n > 0
         /\ refunds = NoRefunds => n = 0
<1> DEFINE U == Units(refunds, {"SUCCEEDED"})
           n == Total(refunds, {"SUCCEEDED"})
<1>1. n \in Nat /\ IsFiniteSet(U) /\ n = Cardinality(U)
  BY TotalType DEF Total
<1>2. n <= Total(refunds, ReservedStatus) /\ Total(refunds, ReservedStatus) \in Nat
  <2>1. U \in SUBSET Units(refunds, ReservedStatus)
    BY DEF Units, ReservedStatus
  <2>2. Cardinality(U) <= Cardinality(Units(refunds, ReservedStatus))
    BY <2>1, TotalType, FS_Subset
  <2> QED
    BY <2>2, TotalType DEF Total
<1>3. Total(refunds, ReservedStatus) <= Amount
  BY DEF FitInv, IInv, CopiesSound, NoOverRefund
<1>4. ASSUME NEW r \in RefundId, refunds[r].status = "SUCCEEDED" PROVE n > 0
  <2>1. refunds[r].amount \in Nat /\ refunds[r].amount > 0
    BY <1>4 DEF FitInv, IInv, TypeOK, Refund, Tidy
  <2>2. <<r, 1>> \in U
    BY <1>4, <2>1, AmountAssumption DEF Units
  <2>3. n # 0
    BY <1>1, <2>2, FS_EmptySet
  <2> QED
    BY <1>1, <2>3
<1>5. refunds = NoRefunds => n = 0
  <2>1. refunds = NoRefunds => U = {}
    BY DEF Units, NoRefunds, NoRefund
  <2> QED
    BY <1>1, <2>1, FS_EmptySet
<1> QED
  BY <1>1, <1>2, <1>3, <1>4, <1>5, AmountAssumption

Consistent == StatusMatchesRefunds /\ RefundReferenceUnique

\* Refunds that keep their references, and exist or not as before.
LEMMA ReferencesStay ==
  ASSUME RefundReferenceUnique,
         \A r \in RefundId : /\ refunds'[r].ref = refunds[r].ref
                             /\ refunds'[r].status = "NONE" <=> refunds[r].status = "NONE"
  PROVE  RefundReferenceUnique'
BY DEF RefundReferenceUnique

LEMMA LifeStepConsistent ==
  ASSUME FitInv, FitInv', LifeStep, Consistent
  PROVE  Consistent'
<1> DEFINE n == Total(refunds, {"SUCCEEDED"})
<1>1. /\ View = "ABSENT" => row.status = "INITIATED" /\ refunds = NoRefunds
      /\ View # "ABSENT" => row.status = View
      /\ row.status \in Status
  BY ViewIs
<1>2. (/\ View = "ABSENT" => row.status = "INITIATED" /\ refunds = NoRefunds
       /\ View # "ABSENT" => row.status = View
       /\ row.status \in Status)'
  BY ViewIs, PTL
<1>3. /\ n \in 0..Amount /\ n' \in 0..Amount
      /\ (\E r \in RefundId : refunds'[r].status = "SUCCEEDED") => n' > 0
      /\ refunds = NoRefunds => n = 0
      /\ refunds' = NoRefunds => n' = 0
  <2>1. (/\ n \in 0..Amount
         /\ (\E r \in RefundId : refunds[r].status = "SUCCEEDED") => n > 0
         /\ refunds = NoRefunds => n = 0)'
    BY Succeeded, PTL
  <2> QED
    BY <2>1, Succeeded
<1>4. /\ row.status \notin PaidStatus => refunds = NoRefunds
      /\ row'.status \notin PaidStatus => refunds' = NoRefunds
  <2>1. (row.status \notin PaidStatus => refunds = NoRefunds)'
    BY Unpaid, PTL
  <2> QED
    BY <2>1, Unpaid
<1>5. refunds \in [RefundId -> Refund]
  BY DEF FitInv, IInv, TypeOK
<1>6. StatusMatchesRefunds /\ RefundReferenceUnique
  BY DEF Consistent
<1>7. ASSUME n' = n, row'.status = row.status PROVE StatusMatchesRefunds'
  BY <1>4, <1>6, <1>7 DEF StatusMatchesRefunds
<1>8. CASE UNCHANGED Lifecycle!lifecycleVars
  <2>1. refunds' = refunds /\ View' = View
    BY <1>8 DEF Lifecycle!lifecycleVars, View
  <2>2. row'.status = row.status
    BY <1>1, <1>2, <2>1
  <2> QED
    BY <1>6, <1>7, <2>1, <2>2, ReferencesStay DEF Consistent
<1>9. CASE Lifecycle!Open \/ Lifecycle!Advance
  <2>1. /\ refunds' = refunds
        /\ View' \in {"INITIATED", "PENDING", "COMPLETED", "FAILED", "EXPIRED", "CANCELLED"}
        /\ View \in {"ABSENT", "INITIATED", "PENDING"}
    BY <1>9 DEF Lifecycle!Open, Lifecycle!Advance, Lifecycle!NextStatus, View
  <2>2. refunds = NoRefunds
    BY <1>1, <1>4, <2>1 DEF PaidStatus
  <2>3. n' = 0 /\ row'.status \notin {"REFUNDED", "PARTIALLY_REFUNDED"}
    BY <1>2, <1>3, <2>1, <2>2
  <2>4. StatusMatchesRefunds'
    BY <1>4, <2>3, AmountAssumption DEF StatusMatchesRefunds
  <2> QED
    BY <1>6, <2>1, <2>4, ReferencesStay DEF Consistent
<1>10. CASE Lifecycle!Request
  <2>1. PICK r \in RefundId, ref \in Reference,
           amount \in 1..(Amount - Lifecycle!Total(refunds, Lifecycle!ReservedStatus)) :
          /\ refunds[r] = Lifecycle!NoRefund
          /\ \A o \in RefundId : refunds[o].ref # ref
          /\ refunds' = [refunds EXCEPT ![r] = [status |-> "PENDING", amount |-> amount, ref |-> ref]]
    BY <1>10 DEF Lifecycle!Request
  <2>2. View' = View
    BY <1>10 DEF Lifecycle!Request, View
  <2>3. row'.status = row.status
    BY <1>1, <1>2, <1>10, <2>2 DEF Lifecycle!Request, View
  <2>4. n' = n
    <3>1. Units(refunds', {"SUCCEEDED"}) = Units(refunds, {"SUCCEEDED"})
      BY <1>5, <2>1 DEF Units, Lifecycle!NoRefund
    <3> QED
      BY <3>1 DEF Total
  <2>5. /\ refunds'[r].ref = ref
        /\ \A o \in RefundId \ {r} : refunds'[o] = refunds[o]
    BY <1>5, <2>1
  <2>6. RefundReferenceUnique'
    <3> SUFFICES ASSUME NEW x \in RefundId, NEW y \in RefundId, x # y,
                        refunds'[x].status # "NONE", refunds'[y].status # "NONE"
                 PROVE  refunds'[x].ref # refunds'[y].ref
      BY DEF RefundReferenceUnique
    <3>1. CASE x = r \/ y = r
      BY <2>1, <2>5, <3>1
    <3>2. CASE x # r /\ y # r
      <4>1. refunds'[x] = refunds[x] /\ refunds'[y] = refunds[y]
        BY <2>5, <3>2
      <4> QED
        BY <1>6, <4>1 DEF RefundReferenceUnique
    <3> QED
      BY <3>1, <3>2
  <2> QED
    BY <1>7, <2>3, <2>4, <2>6 DEF Consistent
<1>11. CASE Lifecycle!Settle
  <2>1. PICK yes \in SUBSET Pending(refunds), no \in SUBSET Pending(refunds) :
          /\ yes \cup no # {} /\ yes \cap no = {}
          /\ refunds' = [r \in RefundId |->
               CASE r \in yes -> [refunds[r] EXCEPT !.status = "SUCCEEDED"]
                 [] r \in no  -> [refunds[r] EXCEPT !.status = "FAILED"]
                 [] OTHER     -> refunds[r]]
          /\ View' = IF yes = {} THEN View
                     ELSE IF Lifecycle!Total(refunds', {"SUCCEEDED"}) < Amount THEN "PARTIALLY_REFUNDED"
                     ELSE "REFUNDED"
    BY <1>11 DEF Lifecycle!Settle, Pending, View
  <2>2. \A r \in RefundId :
          /\ refunds'[r].ref = refunds[r].ref /\ refunds'[r].amount = refunds[r].amount
          /\ refunds'[r].status = IF r \in yes THEN "SUCCEEDED"
                                  ELSE IF r \in no THEN "FAILED" ELSE refunds[r].status
    <3>1. refunds' = Settled(refunds, yes, no)
      BY <2>1 DEF Settled
    <3> QED
      BY <1>5, <3>1, SettledFacts
  <2>3. \A r \in yes \cup no : r \in RefundId /\ refunds[r].status = "PENDING"
    BY DEF Pending
  <2>4. RefundReferenceUnique'
    BY <1>6, <2>2, <2>3, ReferencesStay
  <2>5. CASE yes = {}
    <3>1. View # "ABSENT"
      BY <1>1, <2>1, <2>3 DEF NoRefunds, NoRefund
    <3>2. row'.status = row.status
      <4>1. View' = View
        BY <2>1, <2>5
      <4> QED
        BY <1>1, <1>2, <3>1, <4>1
    <3>3. n' = n
      <4>1. Units(refunds', {"SUCCEEDED"}) = Units(refunds, {"SUCCEEDED"})
        BY <2>2, <2>3, <2>5 DEF Units
      <4> QED
        BY <4>1 DEF Total
    <3> QED
      BY <1>7, <2>4, <3>2, <3>3 DEF Consistent
  <2>6. CASE yes # {}
    <3>1. n' > 0
      BY <1>3, <2>2, <2>3, <2>6
    <3>2. View' = IF n' < Amount THEN "PARTIALLY_REFUNDED" ELSE "REFUNDED"
      BY <2>1, <2>6, SameTotal
    <3>3. row'.status = View'
      BY <1>2, <3>2
    <3>4. StatusMatchesRefunds'
      BY <1>3, <1>4, <3>1, <3>2, <3>3, AmountAssumption DEF StatusMatchesRefunds
    <3> QED
      BY <2>4, <3>4 DEF Consistent
  <2> QED
    BY <2>5, <2>6
<1> QED
  BY <1>8, <1>9, <1>10, <1>11 DEF LifeStep, Lifecycle!LifecycleNext

LEMMA InitConsistent == Init => Consistent
<1> SUFFICES ASSUME Init PROVE Consistent
  OBVIOUS
<1>1. FitInv
  BY InitFits
<1>2. refunds = NoRefunds /\ row.status = "INITIATED"
  BY DEF Init
<1>3. Total(refunds, {"SUCCEEDED"}) = 0
  BY <1>1, <1>2, Succeeded
<1> QED
  BY <1>2, <1>3, AmountAssumption DEF Consistent, StatusMatchesRefunds, RefundReferenceUnique, NoRefunds, NoRefund

LEMMA AlwaysConsistent == Spec => []Consistent
<1>1. Init => FitInv /\ Consistent
  BY InitFits, InitConsistent
<1>2. FitInv /\ [Next]_vars => FitInv' /\ LifeStep
  BY NextFits
<1>3. FitInv /\ FitInv' /\ LifeStep /\ Consistent => Consistent'
  BY LifeStepConsistent
<1> QED
  BY <1>1, <1>2, <1>3, PTL DEF Spec

\* The status a reader of the database sees tells what the stored refunds add
\* up to (RefundedAmount against the amount), and no unpaid payment has any:
\* no copy loaded without its refunds, or in two halves, is ever saved back.
THEOREM StatusAlwaysMatches == Spec => []StatusMatchesRefunds
<1>1. Consistent => StatusMatchesRefunds
  BY DEF Consistent
<1> QED
  BY <1>1, AlwaysConsistent, PTL

\* Two requests with one reference never open two refunds of a payment, however
\* they interleave: the second one's copy is refused by RequestRefund or by the
\* version check.
THEOREM ReferencesNeverRepeat == Spec => []RefundReferenceUnique
<1>1. Consistent => RefundReferenceUnique
  BY DEF Consistent
<1> QED
  BY <1>1, AlwaysConsistent, PTL
=============================================================================
