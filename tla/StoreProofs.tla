----------------------------- MODULE StoreProofs -----------------------------
(***************************************************************************)
(* The payment's row and what is kept of it in Redis, for any number of    *)
(* handlers, queries, refunds and versions.                                *)
(*                                                                         *)
(* First the repository: Save, statement by statement, implements the      *)
(* serial Save of SerialStore.  Then the cached views over it: they show   *)
(* answered changes, and the cache leaves the store alone.                 *)
(***************************************************************************)
EXTENDS PaymentCache, TLAPS

CopyType ==
  [pc: {"idle", "row", "loaded", "persist", "number", "commit", "saved"},
   version: Nat, refunds: [RefundId -> Nat], popped: Nat, last: Nat]

StoreType ==
  /\ version \in Nat
  /\ refunds \in [RefundId -> Nat]
  /\ events \in Seq(Nat)
  /\ holder \in Worker \cup {Nobody}
  /\ workers \in [Worker -> CopyType]

\* No refund is newer than its payment, and none comes before it.
RefundsDated ==
  /\ \A r \in RefundId : refunds[r] <= version
  /\ version = 0 => refunds = NoRefunds

\* Inside its transaction a worker has the lock, and the row is as it found it.
LockedBy(copy, w, h) ==
  copy.pc \in {"number", "commit"} =>
    /\ h = w /\ copy.version = version
    /\ copy.pc = "commit" => copy.last = Len(events)

Locked(copy, w) == LockedBy(copy, w, holder)

\* What a copy knows, as long as it is current.
Whole(copy) ==
  /\ copy.pc # "idle" => copy.version <= version
  /\ copy.pc \in {"loaded", "saved"} /\ copy.version = version => copy.refunds = refunds
  /\ copy.pc \in {"persist", "number", "commit"} =>
       /\ copy.popped \in 1..MaxEvents
       /\ copy.version = version =>
            \A r \in RefundId : copy.refunds[r] \in {refunds[r], version + 1}

StoreInv ==
  /\ StoreType /\ RefundsDated
  /\ \A w \in Worker : Locked(workers[w], w) /\ Whole(workers[w])

-----------------------------------------------------------------------------
LEMMA LastIsLength ==
  ASSUME events \in Seq(Nat)
  PROVE  LastSequence = Len(events)
<1>1. DOMAIN events = 1..Len(events) /\ Len(events) \in Nat
  OBVIOUS
<1>2. CASE Len(events) = 0
  BY <1>1, <1>2 DEF LastSequence
<1>3. CASE Len(events) # 0
  <2>1. Len(events) \in DOMAIN events /\ \A i \in DOMAIN events : i <= Len(events)
    BY <1>1, <1>3
  <2>2. \A n \in DOMAIN events : (\A i \in DOMAIN events : i <= n) => n = Len(events)
    BY <1>1, <2>1
  <2>3. LastSequence = CHOOSE n \in DOMAIN events : \A i \in DOMAIN events : i <= n
    BY <2>1 DEF LastSequence
  <2> QED
    BY <2>1, <2>2, <2>3
<1> QED
  BY <1>2, <1>3

LEMMA StoreInit == Init => StoreInv
<1> SUFFICES ASSUME Init PROVE StoreInv
  OBVIOUS
<1>1. NoRefunds \in [RefundId -> Nat]
  BY DEF NoRefunds
<1>2. Idle \in CopyType
  BY <1>1 DEF Idle, CopyType
<1>3. StoreType
  BY <1>1, <1>2 DEF Init, StoreType
<1>4. RefundsDated
  BY DEF Init, RefundsDated, NoRefunds
<1>5. ASSUME NEW w \in Worker PROVE Locked(workers[w], w) /\ Whole(workers[w])
  BY DEF Init, Idle, LockedBy, Locked, Whole
<1> QED
  BY <1>3, <1>4, <1>5 DEF StoreInv

\* A step that touches nothing but one worker's copy and its own lock.
LEMMA LocalStep ==
  ASSUME StoreInv, NEW w \in Worker, NEW copy \in CopyType,
         workers' = [workers EXCEPT ![w] = copy],
         UNCHANGED <<version, refunds, events, outbox>>,
         holder' \in {holder, Nobody, w},
         holder' # holder => holder \in {w, Nobody},
         LockedBy(copy, w, holder'), Whole(copy)
  PROVE  StoreInv'
<1>1. StoreType'
  BY DEF StoreInv, StoreType
<1>2. RefundsDated'
  BY DEF StoreInv, RefundsDated
<1>3. ASSUME NEW v \in Worker PROVE (Locked(workers[v], v) /\ Whole(workers[v]))'
  <2>1. CASE v = w
    <3>1. workers'[v] = copy
      BY <2>1 DEF StoreInv, StoreType
    <3>2. Whole(copy)'
      BY DEF Whole
    <3> QED
      BY <2>1, <3>1, <3>2 DEF LockedBy, Locked, Whole
  <2>2. CASE v # w
    <3>1. workers'[v] = workers[v] /\ Locked(workers[v], v) /\ Whole(workers[v])
      BY <2>2 DEF StoreInv, StoreType
    <3>2. holder = v => holder' = v
      BY <2>2, NobodyAssumption
    <3> QED
      BY <3>1, <3>2 DEF LockedBy, Locked, Whole
  <2> QED
    BY <2>1, <2>2
<1> QED
  BY <1>1, <1>2, <1>3 DEF StoreInv

LEMMA LeavesStep ==
  ASSUME StoreInv, NEW w \in Worker, Leaves(w),
         UNCHANGED <<version, refunds, events, outbox>>,
         holder' = holder \/ holder' = Unlocked(w)
  PROVE  StoreInv'
<1>1. Idle \in CopyType
  BY DEF Idle, CopyType, NoRefunds
<1>2. LockedBy(Idle, w, holder') /\ Whole(Idle)
  BY DEF LockedBy, Locked, Whole, Idle
<1>3. holder' \in {holder, Nobody, w} /\ (holder' # holder => holder \in {w, Nobody})
  BY DEF Unlocked
<1> QED
  BY <1>1, <1>2, <1>3, LocalStep DEF Leaves

LEMMA ReadRowStep ==
  ASSUME StoreInv, NEW w \in Worker, ReadRow(w) PROVE StoreInv'
<1> DEFINE copy == [workers[w] EXCEPT !.pc = "row", !.version = version]
<1>1. workers[w] \in CopyType /\ version \in Nat
  BY DEF StoreInv, StoreType
<1>2. copy \in CopyType
  BY <1>1 DEF CopyType
<1>3. workers' = [workers EXCEPT ![w] = copy]
  BY DEF ReadRow
<1>4. copy.pc = "row" /\ copy.version = version
  BY <1>1 DEF CopyType
<1>5. LockedBy(copy, w, holder') /\ Whole(copy)
  BY <1>1, <1>4 DEF LockedBy, Locked, Whole
<1> HIDE DEF copy
<1> QED
  BY <1>2, <1>3, <1>5, LocalStep DEF ReadRow

LEMMA ReadRefundsStep ==
  ASSUME StoreInv, NEW w \in Worker, ReadRefunds(w) PROVE StoreInv'
<1> DEFINE copy == [workers[w] EXCEPT !.pc = "loaded", !.refunds = refunds]
<1>1. workers[w] \in CopyType /\ version \in Nat /\ refunds \in [RefundId -> Nat]
  BY DEF StoreInv, StoreType
<1>2. copy \in CopyType
  BY <1>1 DEF CopyType
<1>3. workers' = [workers EXCEPT ![w] = copy]
  BY DEF ReadRefunds
<1>4. copy.pc = "loaded" /\ copy.version = workers[w].version /\ copy.refunds = refunds
  BY <1>1 DEF CopyType
<1>5. workers[w].version <= version
  BY DEF StoreInv, Whole, ReadRefunds, At
<1>6. LockedBy(copy, w, holder') /\ Whole(copy)
  BY <1>1, <1>4, <1>5 DEF LockedBy, Locked, Whole
<1> HIDE DEF copy
<1> QED
  BY <1>2, <1>3, <1>6, LocalStep DEF ReadRefunds

LEMMA NewPaymentStep ==
  ASSUME StoreInv, NEW w \in Worker, NewPayment(w) PROVE StoreInv'
<1> DEFINE copy == [Idle EXCEPT !.pc = "loaded"]
<1>1. Idle \in CopyType
  BY DEF Idle, CopyType, NoRefunds
<1>2. copy \in CopyType
  BY <1>1 DEF CopyType
<1>3. workers' = [workers EXCEPT ![w] = copy]
  BY DEF NewPayment
<1>4. copy.pc = "loaded" /\ copy.version = 0 /\ copy.refunds = NoRefunds
  BY DEF Idle
<1>5. LockedBy(copy, w, holder') /\ Whole(copy)
  BY <1>4 DEF LockedBy, Locked, Whole, StoreInv, StoreType, RefundsDated
<1> HIDE DEF copy
<1> QED
  BY <1>2, <1>3, <1>5, LocalStep DEF NewPayment

LEMMA BeginSaveStep ==
  ASSUME StoreInv, NEW w \in Worker, BeginSave(w) PROVE StoreInv'
<1>1. PICK n \in 1..MaxEvents, changed \in SUBSET RefundId :
        workers' = [workers EXCEPT ![w] =
            [workers[w] EXCEPT !.pc = "persist", !.popped = n,
               !.refunds = [r \in RefundId |-> IF r \in changed THEN workers[w].version + 1
                                               ELSE workers[w].refunds[r]]]]
  BY DEF BeginSave
<1> DEFINE written == [r \in RefundId |-> IF r \in changed THEN workers[w].version + 1
                                          ELSE workers[w].refunds[r]]
           copy == [workers[w] EXCEPT !.pc = "persist", !.popped = n, !.refunds = written]
<1>2. /\ workers[w] \in CopyType /\ workers[w].version \in Nat
      /\ workers[w].refunds \in [RefundId -> Nat] /\ version \in Nat
  BY DEF StoreInv, StoreType, CopyType
<1>3. n \in Nat
  BY MaxEventsAssumption
<1>4. written \in [RefundId -> Nat]
  BY <1>2
<1>5. \A r \in RefundId : written[r] \in {workers[w].refunds[r], workers[w].version + 1}
  OBVIOUS
<1> HIDE DEF written
<1>6. copy \in CopyType
  BY <1>2, <1>3, <1>4 DEF CopyType
<1>7. /\ copy.pc = "persist" /\ copy.version = workers[w].version
      /\ copy.refunds = written /\ copy.popped = n
  BY <1>2 DEF CopyType
<1>8. /\ workers[w].version <= version
      /\ workers[w].version = version => workers[w].refunds = refunds
  BY DEF StoreInv, Whole, BeginSave, At
<1>9. workers' = [workers EXCEPT ![w] = copy]
  BY <1>1 DEF written
<1> HIDE DEF copy
<1>10. LockedBy(copy, w, holder') /\ Whole(copy)
  BY <1>5, <1>7, <1>8 DEF LockedBy, Locked, Whole
<1> QED
  BY <1>6, <1>9, <1>10, LocalStep DEF BeginSave

LEMMA PersistStep ==
  ASSUME StoreInv, NEW w \in Worker, Persist(w) PROVE StoreInv'
<1> DEFINE copy == [workers[w] EXCEPT !.pc = "number"]
<1>1. workers[w] \in CopyType
  BY DEF StoreInv, StoreType
<1>2. copy \in CopyType
  BY <1>1 DEF CopyType
<1>3. workers' = [workers EXCEPT ![w] = copy]
  BY DEF Persist, Goes
<1>4. /\ copy.pc = "number" /\ copy.version = workers[w].version
      /\ copy.refunds = workers[w].refunds /\ copy.popped = workers[w].popped
  BY <1>1 DEF CopyType
<1>5. workers[w].pc = "persist" /\ Whole(workers[w])
  BY DEF StoreInv, Persist, At
<1> HIDE DEF copy
<1>6. LockedBy(copy, w, holder') /\ Whole(copy)
  BY <1>4, <1>5 DEF LockedBy, Locked, Whole, Persist
<1> QED
  BY <1>2, <1>3, <1>6, LocalStep DEF Persist

LEMMA NumberEventsStep ==
  ASSUME StoreInv, NEW w \in Worker, NumberEvents(w) PROVE StoreInv'
<1> DEFINE copy == [workers[w] EXCEPT !.pc = "commit", !.last = LastSequence]
<1>1. workers[w] \in CopyType /\ events \in Seq(Nat)
  BY DEF StoreInv, StoreType
<1>2. LastSequence = Len(events) /\ Len(events) \in Nat
  BY <1>1, LastIsLength
<1>3. copy \in CopyType
  BY <1>1, <1>2 DEF CopyType
<1>4. workers' = [workers EXCEPT ![w] = copy]
  BY DEF NumberEvents
<1>5. /\ copy.pc = "commit" /\ copy.version = workers[w].version /\ copy.last = Len(events)
      /\ copy.refunds = workers[w].refunds /\ copy.popped = workers[w].popped
  BY <1>1, <1>2 DEF CopyType
<1>6. workers[w].pc = "number" /\ Whole(workers[w]) /\ Locked(workers[w], w)
  BY DEF StoreInv, NumberEvents, At
<1> HIDE DEF copy
<1>7. LockedBy(copy, w, holder') /\ Whole(copy)
  BY <1>5, <1>6 DEF LockedBy, Locked, Whole, NumberEvents
<1> QED
  BY <1>3, <1>4, <1>7, LocalStep DEF NumberEvents

LEMMA GoOnStep ==
  ASSUME StoreInv, NEW w \in Worker, GoOn(w) PROVE StoreInv'
<1>1. CASE Goes(w, "loaded")
  <2> DEFINE copy == [workers[w] EXCEPT !.pc = "loaded"]
  <2>1. workers[w] \in CopyType
    BY DEF StoreInv, StoreType
  <2>2. copy \in CopyType
    BY <2>1 DEF CopyType
  <2>3. workers' = [workers EXCEPT ![w] = copy]
    BY <1>1 DEF Goes
  <2>4. copy.pc = "loaded" /\ copy.version = workers[w].version /\ copy.refunds = workers[w].refunds
    BY <2>1 DEF CopyType
  <2>5. workers[w].pc = "saved" /\ Whole(workers[w])
    BY DEF StoreInv, GoOn, At
  <2> HIDE DEF copy
  <2>6. LockedBy(copy, w, holder') /\ Whole(copy)
    BY <2>4, <2>5 DEF LockedBy, Locked, Whole
  <2> QED
    BY <2>2, <2>3, <2>6, LocalStep DEF GoOn
<1>2. CASE Leaves(w)
  BY <1>2, LeavesStep DEF GoOn
<1> QED
  BY <1>1, <1>2 DEF GoOn

-----------------------------------------------------------------------------
(* The step that stores. *)

\* What is stored follows from what was, and everybody else's copy is outdated.
LEMMA StoredFacts ==
  ASSUME StoreInv, NEW w \in Worker, Stored(w)
  PROVE  /\ workers[w] \in CopyType /\ workers[w].version = version
         /\ holder = w /\ holder' = Nobody
         /\ version' = version + 1 /\ version \in Nat
         /\ workers[w].last = Len(events) /\ workers[w].popped \in 1..MaxEvents
         /\ refunds' = [r \in RefundId |-> IF workers[w].refunds[r] = version + 1
                                            THEN version + 1 ELSE refunds[r]]
<1>1. workers[w] \in CopyType /\ version \in Nat /\ refunds \in [RefundId -> Nat]
  BY DEF StoreInv, StoreType
<1>2. workers[w].pc = "commit" /\ Locked(workers[w], w) /\ Whole(workers[w])
  BY DEF StoreInv, Stored, At
<1>3. /\ holder = w /\ workers[w].version = version /\ workers[w].last = Len(events)
      /\ workers[w].popped \in 1..MaxEvents
      /\ \A r \in RefundId : workers[w].refunds[r] \in {refunds[r], version + 1}
  BY <1>2 DEF LockedBy, Locked, Whole
<1>4. refunds' = [r \in RefundId |-> IF workers[w].refunds[r] = 0 THEN refunds[r]
                                     ELSE workers[w].refunds[r]]
  BY DEF Stored, Upserted
<1>5. ASSUME NEW r \in RefundId
      PROVE (IF workers[w].refunds[r] = 0 THEN refunds[r] ELSE workers[w].refunds[r])
              = (IF workers[w].refunds[r] = version + 1 THEN version + 1 ELSE refunds[r])
  BY <1>1, <1>3
<1>6. refunds' = [r \in RefundId |-> IF workers[w].refunds[r] = version + 1
                                     THEN version + 1 ELSE refunds[r]]
  BY <1>4, <1>5
<1>7. holder' = Nobody /\ version' = version + 1
  BY <1>3 DEF Stored, Unlocked
<1> QED
  BY <1>1, <1>3, <1>6, <1>7

LEMMA StoredLog ==
  ASSUME StoreInv, NEW w \in Worker, Stored(w)
  PROVE  events' = [i \in 1..(Len(events) + workers[w].popped) |->
                      IF i <= Len(events) THEN events[i] ELSE version + 1]
<1> DEFINE copy == workers[w]
<1>1. /\ events \in Seq(Nat) /\ Len(events) \in Nat
      /\ copy.popped \in Nat /\ copy.last = Len(events) /\ copy.version = version
  BY StoredFacts, MaxEventsAssumption DEF StoreInv, StoreType
<1>2. DOMAIN events = 1..Len(events)
  BY <1>1
<1>3. DOMAIN events \cup Numbers(copy) = 1..(Len(events) + copy.popped)
  <2> DEFINE n == Len(events)
             k == copy.popped
  <2>1. Numbers(copy) = {n + i : i \in 1..k}
    BY <1>1 DEF Numbers
  <2>2. n \in Nat /\ k \in Nat
    BY <1>1
  <2> HIDE DEF n, k
  <2>3. (1..n) \cup {n + i : i \in 1..k} = 1..(n + k)
    <3>1. ASSUME NEW j \in 1..(n + k), j > n PROVE j \in {n + i : i \in 1..k}
      <4>1. j - n \in 1..k /\ j = n + (j - n)
        BY <2>2, <3>1
      <4> QED
        BY <4>1
    <3>2. \A i \in 1..k : n + i \in 1..(n + k)
      BY <2>2
    <3>3. \A j \in 1..n : j \in 1..(n + k)
      BY <2>2
    <3>4. \A j \in 1..(n + k) : j \in 1..n \/ j > n
      BY <2>2
    <3> QED
      BY <3>1, <3>2, <3>3, <3>4
  <2> QED
    BY <1>2, <2>1, <2>3 DEF n, k
<1>4. \A i \in 1..(Len(events) + copy.popped) : i \in DOMAIN events <=> i <= Len(events)
  BY <1>1, <1>2
<1>5. events' = [i \in DOMAIN events \cup Numbers(copy) |->
                   IF i \in DOMAIN events THEN events[i] ELSE version + 1]
  BY <1>1 DEF Stored, Logged
<1> QED
  BY <1>3, <1>4, <1>5

LEMMA StoredStep ==
  ASSUME StoreInv, NEW w \in Worker, NEW copy \in CopyType, Stored(w),
         workers' = [workers EXCEPT ![w] = copy],
         \/ copy = Idle
         \/ /\ copy.pc = "saved" /\ copy.version = version + 1
            /\ copy.refunds = workers[w].refunds
  PROVE  StoreInv'
<1>1. /\ version \in Nat /\ version' = version + 1
      /\ refunds \in [RefundId -> Nat] /\ workers \in [Worker -> CopyType]
      /\ events \in Seq(Nat) /\ workers[w].popped \in Nat
  BY StoredFacts, MaxEventsAssumption DEF StoreInv, StoreType
<1>2. refunds' \in [RefundId -> Nat] /\ \A r \in RefundId : refunds'[r] <= version'
  <2>1. refunds' = [r \in RefundId |-> IF workers[w].refunds[r] = version + 1
                                       THEN version + 1 ELSE refunds[r]]
    BY StoredFacts
  <2>2. \A r \in RefundId : refunds[r] \in Nat /\ refunds[r] <= version
    BY <1>1 DEF StoreInv, RefundsDated
  <2> QED
    BY <1>1, <2>1, <2>2
<1>3. events' \in Seq(Nat)
  <2> DEFINE n == Len(events) + workers[w].popped
  <2>1. n \in Nat /\ \A i \in 1..n : (IF i <= Len(events) THEN events[i] ELSE version + 1) \in Nat
    BY <1>1
  <2>2. events' = [i \in 1..n |-> IF i <= Len(events) THEN events[i] ELSE version + 1]
    BY StoredLog
  <2> QED
    BY <2>1, <2>2
<1>4. StoreType'
  BY <1>1, <1>2, <1>3, StoredFacts DEF StoreType
<1>5. RefundsDated'
  BY <1>1, <1>2 DEF RefundsDated
<1>6. (Locked(workers[w], w) /\ Whole(workers[w]))'
  <2>1. workers'[w] = copy
    BY <1>1
  <2>2. CASE copy = Idle
    BY <2>1, <2>2 DEF LockedBy, Locked, Whole, Idle
  <2>3. CASE copy.pc = "saved" /\ copy.version = version + 1 /\ copy.refunds = workers[w].refunds
    <3>1. refunds' = copy.refunds
      <4>1. /\ refunds' \in [RefundId -> Nat] /\ copy.refunds \in [RefundId -> Nat]
        BY <1>2 DEF CopyType
      <4>2. Whole(workers[w]) /\ workers[w].pc = "commit" /\ workers[w].version = version
        BY StoredFacts DEF StoreInv, Stored, At
      <4>3. \A r \in RefundId : copy.refunds[r] \in {refunds[r], version + 1}
        BY <2>3, <4>2 DEF Whole
      <4>4. \A r \in RefundId : refunds'[r] = copy.refunds[r]
        BY <2>3, <4>3, StoredFacts
      <4> QED
        BY <4>1, <4>4
    <3> QED
      BY <1>1, <2>1, <2>3, <3>1 DEF LockedBy, Locked, Whole
  <2> QED
    BY <2>2, <2>3
<1>7. ASSUME NEW v \in Worker, v # w PROVE (Locked(workers[v], v) /\ Whole(workers[v]))'
  <2>1. workers'[v] = workers[v] /\ workers[v] \in CopyType
    BY <1>1, <1>7
  <2>2. Locked(workers[v], v) /\ Whole(workers[v]) /\ holder # v
    BY <1>7, StoredFacts DEF StoreInv
  <2>3. workers[v].pc \notin {"number", "commit"}
    BY <2>2 DEF LockedBy, Locked
  <2>4. workers[v].pc # "idle" => workers[v].version < version'
    BY <1>1, <2>1, <2>2 DEF Whole, CopyType
  <2> QED
    BY <1>1, <2>1, <2>2, <2>3, <2>4 DEF LockedBy, Locked, Whole, CopyType
<1> QED
  BY <1>4, <1>5, <1>6, <1>7 DEF StoreInv

LEMMA CommitStep ==
  ASSUME StoreInv, NEW w \in Worker, Commit(w) PROVE StoreInv'
<1> DEFINE copy == [workers[w] EXCEPT !.pc = "saved", !.version = workers[w].version + 1,
                                      !.popped = 0, !.last = 0]
<1>1. workers[w] \in CopyType /\ workers[w].version = version /\ version \in Nat
  BY StoredFacts DEF Commit
<1>2. copy \in CopyType
  <2>1. workers[w].version + 1 \in Nat /\ 0 \in Nat
    BY <1>1
  <2> QED
    BY <1>1, <2>1 DEF CopyType
<1>3. workers' = [workers EXCEPT ![w] = copy]
  BY DEF Commit
<1>4. copy.pc = "saved" /\ copy.version = version + 1 /\ copy.refunds = workers[w].refunds
  BY <1>1 DEF CopyType
<1> HIDE DEF copy
<1> QED
  BY <1>2, <1>3, <1>4, StoredStep DEF Commit

LEMMA CommitUnheardStep ==
  ASSUME StoreInv, NEW w \in Worker, CommitUnheard(w) PROVE StoreInv'
<1>1. Idle \in CopyType
  BY DEF Idle, CopyType, NoRefunds
<1> QED
  BY <1>1, StoredStep DEF CommitUnheard, Leaves

LEMMA StoreNext ==
  ASSUME StoreInv, [Next]_storeVars PROVE StoreInv'
<1>1. CASE UNCHANGED storeVars
  BY <1>1 DEF storeVars, StoreInv, StoreType, RefundsDated, LockedBy, Locked, Whole
<1>2. ASSUME NEW w \in Worker, Prepare(w) \/ Commit(w) \/ GoOn(w) PROVE StoreInv'
  <2>1. CASE Refused(w)
    BY <2>1, LeavesStep DEF Refused
  <2>2. CASE Rollback(w)
    BY <2>2, LeavesStep DEF Rollback
  <2>3. CASE GiveUp(w)
    BY <2>3, LeavesStep DEF GiveUp
  <2> QED
    BY <1>2, <2>1, <2>2, <2>3, ReadRowStep, ReadRefundsStep, NewPaymentStep, BeginSaveStep,
       PersistStep, NumberEventsStep, CommitStep, CommitUnheardStep, GoOnStep DEF Prepare
<1> QED
  BY <1>1, <1>2 DEF Next

-----------------------------------------------------------------------------
(* The theorems. *)

LEMMA StoredIsSave ==
  ASSUME StoreInv, NEW w \in Worker, Stored(w) PROVE Serial!Save
<1> DEFINE n == workers[w].popped
           changed == {r \in RefundId : workers[w].refunds[r] = version + 1}
<1>1. n \in 1..MaxEvents /\ changed \in SUBSET RefundId /\ version' = version + 1
  BY StoredFacts
<1>2. refunds' = [r \in RefundId |-> IF r \in changed THEN version + 1 ELSE refunds[r]]
  BY StoredFacts
<1>3. events' = [i \in 1..(Len(events) + n) |-> IF i <= Len(events) THEN events[i] ELSE version + 1]
  BY StoredLog
<1>4. outbox' = outbox \cup {[version |-> version + 1, nth |-> i] : i \in 1..n}
  <2>1. outbox' = outbox \cup Announced(workers[w])
    BY DEF Stored
  <2>2. workers[w].version = version
    BY StoredFacts
  <2> QED
    BY <2>1, <2>2 DEF Announced
<1> HIDE DEF n, changed
<1> QED
  BY <1>1, <1>2, <1>3, <1>4 DEF Serial!Save

\* However their statements interleave, and whichever fail, Saves of one payment
\* happen one after another, each building on everything the one before it wrote
\* (the version in UpdatePaymentFull's WHERE and the row lock it takes).
THEOREM SavesAreSerial == Spec => ImplementsSerialSaves
<1>1. Init => Serial!Init
  BY DEF Init, Serial!Init, NoRefunds
<1>2. ASSUME StoreInv, [Next]_storeVars PROVE [Serial!Save]_(Serial!storeVars)
  <2>1. CASE UNCHANGED storeVars
    BY <2>1 DEF storeVars, Serial!storeVars
  <2>2. ASSUME NEW w \in Worker, Prepare(w) \/ Commit(w) \/ GoOn(w)
        PROVE Stored(w) \/ UNCHANGED Serial!storeVars
    BY <2>2 DEF Prepare, ReadRow, ReadRefunds, NewPayment, BeginSave, Persist, Refused,
       NumberEvents, CommitUnheard, Rollback, GiveUp, Commit, GoOn, Serial!storeVars
  <2> QED
    BY <1>2, <2>1, <2>2, StoredIsSave DEF Next
<1> QED
  BY <1>1, <1>2, StoreInit, StoreNext, PTL DEF Spec, ImplementsSerialSaves, Serial!Spec

\* No Save that passed the version check meets the unique index on event numbers
\* (GetLastEventSequence under the row lock, InsertPaymentEvent).
THEOREM EventNumbersAreFree == Spec => []NumbersNeverClash
<1>1. ASSUME StoreInv PROVE NumbersNeverClash
  <2> SUFFICES ASSUME NEW w \in Worker, At(w, "commit")
               PROVE Numbers(workers[w]) \cap DOMAIN events = {}
    BY DEF NumbersNeverClash
  <2>1. /\ workers[w].last = Len(events) /\ workers[w].popped \in Nat
        /\ events \in Seq(Nat)
    BY <1>1, MaxEventsAssumption DEF StoreInv, StoreType, LockedBy, Locked, Whole, At
  <2>2. DOMAIN events = 1..Len(events) /\ Len(events) \in Nat
    BY <2>1
  <2> QED
    BY <2>1, <2>2 DEF Numbers
<1> QED
  BY <1>1, StoreInit, StoreNext, PTL DEF Spec

\* A loaded copy that is still current has the stored refunds, although withRefunds
\* reads them in a query of its own.
THEOREM CopiesAreWhole == Spec => []CopiesWhole
<1>1. StoreInv => CopiesWhole
  BY DEF StoreInv, Whole, CopiesWhole, At
<1> QED
  BY <1>1, StoreInit, StoreNext, PTL DEF Spec

-----------------------------------------------------------------------------
(* The cached views. *)

allVars == <<storeVars, cacheVars>>

CacheType ==
  /\ view \in [Key -> Nat]
  /\ drops \in [Worker -> SUBSET Key]
  /\ readers \in [Reader -> [pc: {"idle", "filling"}, key: Key, version: Nat, overtaken: BOOLEAN]]
  /\ acknowledged \in Nat /\ acknowledged <= version
  /\ excused \in [Key -> BOOLEAN]

\* No older than v, or explained.
Recent(k, v) == view[k] = 0 \/ excused[k] \/ view[k] >= v

\* What a query is about to store under k is no older than v, or it was overtaken.
Coming(k, v) ==
  \A q \in Reader :
    readers[q].pc = "filling" /\ readers[q].key = k => readers[q].overtaken \/ readers[q].version >= v

\* A handler between its drops and its answer: dropped keys already show its change.
Dropped(w) ==
  /\ drops[w] # {} => workers[w].pc = "saved"
  /\ workers[w].pc = "saved" =>
       \A k \in Key \ drops[w] : Recent(k, workers[w].version) /\ Coming(k, workers[w].version)

CacheInv ==
  /\ StoreInv /\ CacheType
  /\ \A q \in Reader : readers[q].version <= version /\ (readers[q].pc = "filling" => readers[q].version > 0)
  /\ \A k \in Key : Recent(k, acknowledged) /\ Coming(k, acknowledged)
  /\ \A w \in Worker : Dropped(w)

-----------------------------------------------------------------------------
LEMMA CacheStart == CacheInit => CacheInv
<1> SUFFICES ASSUME CacheInit PROVE CacheInv
  OBVIOUS
<1>1. StoreInv
  BY StoreInit DEF CacheInit
<1>2. CacheType
  BY DEF CacheInit, CacheType, AtRest, Key, Init
<1>3. \A q \in Reader : readers[q].version <= version /\ readers[q].pc = "idle"
  BY DEF CacheInit, AtRest, Init
<1>4. \A k \in Key : Recent(k, acknowledged) /\ Coming(k, acknowledged)
  BY <1>3 DEF CacheInit, Recent, Coming
<1>5. \A w \in Worker : Dropped(w)
  BY DEF CacheInit, Dropped, Init, Idle
<1> QED
  BY <1>1, <1>2, <1>3, <1>4, <1>5 DEF CacheInv

\* Whatever the cache does, the store sees one of its own steps or none.
LEMMA StoreStep ==
  ASSUME CacheInv, [CacheNext]_allVars PROVE [Next]_storeVars
<1>1. CASE UNCHANGED allVars
  BY <1>1 DEF allVars, storeVars
<1>2. CASE \E w \in Worker : PrepareOnly(w) \/ CommitAndDrop(w) \/ Answer(w)
  BY <1>2 DEF PrepareOnly, CommitAndDrop, Answer, Next
<1>3. ASSUME NEW w \in Worker, DieDropping(w) PROVE Next
  <2>1. GoOn(w)
    BY <1>3 DEF CacheInv, Dropped, DieDropping, GoOn, At
  <2> QED
    BY <2>1 DEF Next
<1>4. CASE \/ \E w \in Worker : DropCachedPayment(w)
           \/ \E q \in Reader : Miss(q) \/ Fill(q)
           \/ \E k \in Key : ViewExpires(k)
  BY <1>4 DEF DropCachedPayment, Miss, Fill, ViewExpires
<1> QED
  BY <1>1, <1>2, <1>3, <1>4 DEF CacheNext

LEMMA PrepareOnlyStep ==
  ASSUME CacheInv, StoreInv', NEW w \in Worker, PrepareOnly(w) PROVE CacheInv'
<1>1. /\ UNCHANGED cacheVars /\ version \in Nat /\ version' \in Nat
      /\ workers \in [Worker -> CopyType]
  BY DEF PrepareOnly, CacheInv, StoreInv, StoreType
<1>2. version <= version'
  <2>1. CASE CommitUnheard(w)
    BY <1>1, <2>1 DEF CommitUnheard, Stored
  <2>2. CASE UNCHANGED version
    BY <1>1, <2>2
  <2> QED
    BY <2>1, <2>2 DEF PrepareOnly, Prepare, ReadRow, ReadRefunds, NewPayment, BeginSave, Persist,
       Refused, NumberEvents, Rollback, GiveUp
<1>3. workers[w].pc # "saved"
  BY DEF PrepareOnly, Prepare, ReadRow, ReadRefunds, NewPayment, BeginSave, Persist, Refused,
     NumberEvents, CommitUnheard, Stored, Rollback, GiveUp, At
<1>4. \E copy \in CopyType : copy.pc # "saved" /\ workers' = [workers EXCEPT ![w] = copy]
  <2>1. workers' = [workers EXCEPT ![w] = workers'[w]]
    BY <1>1 DEF PrepareOnly, Prepare, ReadRow, ReadRefunds, NewPayment, BeginSave, Persist, Refused,
       NumberEvents, CommitUnheard, Rollback, GiveUp, Leaves, Goes
  <2>2. workers'[w].pc # "saved"
    <3>1. CASE Leaves(w)
      BY <1>1, <3>1 DEF Leaves, Idle
    <3>2. CASE ReadRow(w) \/ ReadRefunds(w) \/ NewPayment(w)
      BY <1>1, <3>2 DEF ReadRow, ReadRefunds, NewPayment, Idle, CopyType
    <3>3. CASE BeginSave(w)
      BY <1>1, <3>3 DEF BeginSave, CopyType
    <3>4. CASE Persist(w) \/ NumberEvents(w)
      BY <1>1, <3>4 DEF Persist, NumberEvents, Goes, CopyType
    <3> QED
      BY <3>1, <3>2, <3>3, <3>4
         DEF PrepareOnly, Prepare, Refused, CommitUnheard, Rollback, GiveUp
  <2>3. workers'[w] \in CopyType
    BY DEF StoreInv, StoreType
  <2> QED
    BY <2>1, <2>2, <2>3
<1>5. CacheType'
  BY <1>1, <1>2 DEF CacheInv, CacheType, cacheVars
<1>6. \A q \in Reader : (readers[q].version <= version /\ (readers[q].pc = "filling" => readers[q].version > 0))'
  BY <1>1, <1>2 DEF CacheInv, CacheType, cacheVars
<1>7. \A k \in Key : (Recent(k, acknowledged) /\ Coming(k, acknowledged))'
  BY <1>1 DEF CacheInv, cacheVars, Recent, Coming
<1>8. ASSUME NEW v \in Worker PROVE Dropped(v)'
  <2>1. CASE v = w
    BY <1>1, <1>3, <1>4, <2>1 DEF CacheInv, Dropped, cacheVars
  <2>2. CASE v # w
    <3>1. workers'[v] = workers[v]
      BY <1>1, <1>4, <2>2
    <3> QED
      BY <1>1, <3>1 DEF CacheInv, Dropped, cacheVars, Recent, Coming
  <2> QED
    BY <2>1, <2>2
<1> QED
  BY <1>5, <1>6, <1>7, <1>8 DEF CacheInv

LEMMA CommitAndDropStep ==
  ASSUME CacheInv, StoreInv', NEW w \in Worker, CommitAndDrop(w) PROVE CacheInv'
<1>1. /\ UNCHANGED <<view, readers, acknowledged, excused>>
      /\ version \in Nat /\ version' = version + 1 /\ workers \in [Worker -> CopyType]
  BY StoredFacts DEF CommitAndDrop, Commit, CacheInv, StoreInv, StoreType
<1>2. /\ drops' = [drops EXCEPT ![w] = IF version = 0 THEN {} ELSE Key]
      /\ workers[w] \in CopyType /\ workers[w].version = version
      /\ workers' = [workers EXCEPT ![w].pc = "saved", ![w].version = workers[w].version + 1,
                                    ![w].popped = 0, ![w].last = 0]
  BY StoredFacts DEF CommitAndDrop, Commit, CacheInv
<1>3. CacheType'
  BY <1>1, <1>2 DEF CacheInv, CacheType
<1>4. \A q \in Reader : (readers[q].version <= version /\ (readers[q].pc = "filling" => readers[q].version > 0))'
  BY <1>1 DEF CacheInv, CacheType
<1>5. \A k \in Key : (Recent(k, acknowledged) /\ Coming(k, acknowledged))'
  BY <1>1 DEF CacheInv, Recent, Coming
<1>6. Dropped(w)'
  <2>1. workers'[w].pc = "saved" /\ workers'[w].version = version + 1
    BY <1>1, <1>2 DEF CopyType
  <2>2. CASE version # 0
    BY <1>2, <2>1, <2>2 DEF Dropped, CacheInv, CacheType
  <2>3. CASE version = 0
    <3>1. \A q \in Reader : readers[q].pc # "filling"
      BY <2>3 DEF CacheInv, CacheType
    <3>2. \A k \in Key : view[k] = 0 \/ view[k] >= 1
      BY DEF CacheInv, CacheType
    <3> QED
      BY <1>1, <1>2, <2>1, <2>3, <3>1, <3>2 DEF Dropped, CacheInv, CacheType, Recent, Coming
  <2> QED
    BY <2>2, <2>3
<1>7. ASSUME NEW v \in Worker, v # w PROVE Dropped(v)'
  <2>1. workers'[v] = workers[v] /\ drops'[v] = drops[v]
    BY <1>1, <1>2, <1>7 DEF CacheInv, CacheType
  <2> QED
    BY <1>1, <2>1 DEF CacheInv, Dropped, Recent, Coming
<1> QED
  BY <1>3, <1>4, <1>5, <1>6, <1>7 DEF CacheInv

LEMMA DropStep ==
  ASSUME CacheInv, NEW w \in Worker, DropCachedPayment(w) PROVE CacheInv'
<1> DEFINE k == NextDrop(w)
<1>1. k \in Key
  BY DEF NextDrop, Key
<1>2. /\ UNCHANGED <<version, refunds, events, outbox, holder, workers, acknowledged>>
      /\ drops' = [drops EXCEPT ![w] = drops[w] \ {k}] /\ readers' = Overtaken(k)
      /\ drops[w] # {}
  BY DEF DropCachedPayment, storeVars
<1>3. /\ view' \in [Key -> Nat] /\ excused' \in [Key -> BOOLEAN]
      /\ \A j \in Key \ {k} : view'[j] = view[j] /\ excused'[j] = excused[j]
      /\ view'[k] = 0 \/ excused'[k]
  <2>1. \/ view' = [view EXCEPT ![k] = 0] /\ excused' = [excused EXCEPT ![k] = FALSE]
        \/ excused' = [excused EXCEPT ![k] = TRUE] /\ UNCHANGED view
    BY DEF DropCachedPayment
  <2>2. view \in [Key -> Nat] /\ excused \in [Key -> BOOLEAN]
    BY DEF CacheInv, CacheType
  <2> HIDE DEF k
  <2>3. CASE view' = [view EXCEPT ![k] = 0] /\ excused' = [excused EXCEPT ![k] = FALSE]
    BY <1>1, <2>2, <2>3
  <2>4. CASE excused' = [excused EXCEPT ![k] = TRUE] /\ UNCHANGED view
    BY <1>1, <2>2, <2>4
  <2> QED
    BY <2>1, <2>3, <2>4
<1>4. /\ readers' \in [Reader -> [pc: {"idle", "filling"}, key: Key, version: Nat, overtaken: BOOLEAN]]
      /\ \A q \in Reader : /\ readers'[q].pc = readers[q].pc /\ readers'[q].key = readers[q].key
                           /\ readers'[q].version = readers[q].version
                           /\ readers[q].overtaken => readers'[q].overtaken
                           /\ readers[q].pc = "filling" /\ readers[q].key = k => readers'[q].overtaken
  BY <1>2 DEF Overtaken, CacheInv, CacheType
<1> HIDE DEF k
<1>5. CacheType'
  BY <1>2, <1>3, <1>4 DEF CacheInv, CacheType
<1>6. \A q \in Reader : (readers[q].version <= version /\ (readers[q].pc = "filling" => readers[q].version > 0))'
  BY <1>2, <1>4 DEF CacheInv
<1>7. ASSUME NEW j \in Key, NEW v \in Nat, j = k \/ (Recent(j, v) /\ Coming(j, v))
      PROVE  /\ view'[j] = 0 \/ excused'[j] \/ view'[j] >= v
             /\ \A q \in Reader :
                  readers'[q].pc = "filling" /\ readers'[q].key = j =>
                    readers'[q].overtaken \/ readers'[q].version >= v
  BY <1>3, <1>4, <1>7 DEF Recent, Coming
<1>8. \A j \in Key : (Recent(j, acknowledged) /\ Coming(j, acknowledged))'
  <2> SUFFICES ASSUME NEW j \in Key PROVE (Recent(j, acknowledged) /\ Coming(j, acknowledged))'
    OBVIOUS
  <2>1. acknowledged \in Nat /\ Recent(j, acknowledged) /\ Coming(j, acknowledged)
    BY DEF CacheInv, CacheType
  <2> QED
    BY <1>2, <1>7, <2>1 DEF Recent, Coming
<1>9. ASSUME NEW v \in Worker PROVE Dropped(v)'
  <2>1. workers[v] \in CopyType /\ workers[v].version \in Nat /\ workers'[v] = workers[v] /\ Dropped(v)
    BY <1>2 DEF CacheInv, StoreInv, StoreType, CopyType
  <2>2. drops'[v] \in SUBSET drops[v] /\ (drops[v] \ drops'[v]) \in SUBSET {k}
    BY <1>2 DEF CacheInv, CacheType
  <2>3. drops'[v] # {} => workers'[v].pc = "saved"
    BY <2>1, <2>2 DEF Dropped
  <2>4. ASSUME workers[v].pc = "saved", NEW j \in Key \ drops'[v]
        PROVE  j = k \/ (Recent(j, workers[v].version) /\ Coming(j, workers[v].version))
    BY <2>1, <2>2, <2>4 DEF Dropped
  <2> QED
    BY <1>7, <2>1, <2>3, <2>4 DEF Dropped, Recent, Coming
<1> QED
  BY <1>2, <1>5, <1>6, <1>8, <1>9 DEF CacheInv, StoreInv, StoreType, RefundsDated, LockedBy, Locked, Whole

LEMMA AnswerStep ==
  ASSUME CacheInv, StoreInv', NEW w \in Worker, Answer(w) PROVE CacheInv'
<1>1. /\ UNCHANGED <<version, view, drops, readers, excused>> /\ drops[w] = {}
      /\ acknowledged' \in {acknowledged, workers[w].version}
      /\ acknowledged' >= acknowledged
  BY DEF Answer, GoOn, CacheInv, StoreInv, StoreType, CopyType, CacheType
<1>2. workers[w].pc = "saved" /\ workers[w].version \in Nat /\ workers[w].version <= version
  BY DEF Answer, GoOn, At, CacheInv, StoreInv, StoreType, CopyType, Whole
<1>3. /\ workers' = [workers EXCEPT ![w] = workers'[w]] /\ workers'[w].pc # "saved"
  BY DEF Answer, GoOn, Goes, Leaves, Idle, CacheInv, StoreInv, StoreType, CopyType
<1>4. CacheType'
  BY <1>1, <1>2 DEF CacheInv, CacheType
<1>5. \A k \in Key : /\ Recent(k, acknowledged) /\ Coming(k, acknowledged)
                    /\ Recent(k, workers[w].version) /\ Coming(k, workers[w].version)
  BY <1>1, <1>2 DEF CacheInv, Dropped
<1>6. \A k \in Key : (Recent(k, acknowledged) /\ Coming(k, acknowledged))'
  BY <1>1, <1>5 DEF Recent, Coming
<1>7. ASSUME NEW v \in Worker PROVE Dropped(v)'
  <2>1. CASE v = w
    BY <1>1, <1>3, <2>1 DEF Dropped
  <2>2. CASE v # w
    <3>1. workers'[v] = workers[v]
      BY <2>2 DEF Answer, GoOn, Goes, Leaves, CacheInv, StoreInv, StoreType
    <3> QED
      BY <1>1, <3>1 DEF CacheInv, Dropped, Recent, Coming
  <2> QED
    BY <2>1, <2>2
<1> QED
  BY <1>1, <1>4, <1>6, <1>7 DEF CacheInv

LEMMA DieDroppingStep ==
  ASSUME CacheInv, StoreInv', NEW w \in Worker, DieDropping(w) PROVE CacheInv'
<1>1. /\ UNCHANGED <<version, view, readers, acknowledged, excused>>
      /\ drops' = [drops EXCEPT ![w] = {}] /\ workers' = [workers EXCEPT ![w] = Idle]
      /\ drops \in [Worker -> SUBSET Key] /\ workers \in [Worker -> CopyType]
  BY DEF DieDropping, Leaves, CacheInv, CacheType, StoreInv, StoreType
<1>2. CacheType'
  BY <1>1 DEF CacheInv, CacheType
<1>3. \A k \in Key : (Recent(k, acknowledged) /\ Coming(k, acknowledged))'
  BY <1>1 DEF CacheInv, Recent, Coming
<1>4. ASSUME NEW v \in Worker PROVE Dropped(v)'
  <2>1. CASE v = w
    BY <1>1, <2>1 DEF Dropped, Idle
  <2>2. CASE v # w
    <3>1. workers'[v] = workers[v] /\ drops'[v] = drops[v]
      BY <1>1, <2>2
    <3> QED
      BY <1>1, <3>1 DEF CacheInv, Dropped, Recent, Coming
  <2> QED
    BY <2>1, <2>2
<1> QED
  BY <1>1, <1>2, <1>3, <1>4 DEF CacheInv

\* A query, or Redis, changes views and queries only.
LEMMA ViewStep ==
  ASSUME CacheInv, UNCHANGED <<storeVars, drops, acknowledged>>, CacheType',
         \A q \in Reader : readers'[q].version <= version /\ (readers'[q].pc = "filling" => readers'[q].version > 0),
         ASSUME NEW k \in Key, NEW v \in Nat, v <= version, Recent(k, v), Coming(k, v)
         PROVE  /\ view'[k] = 0 \/ excused'[k] \/ view'[k] >= v
                /\ \A q \in Reader : readers'[q].pc = "filling" /\ readers'[q].key = k =>
                                       readers'[q].overtaken \/ readers'[q].version >= v
  PROVE  CacheInv'
<1>1. StoreInv'
  BY DEF CacheInv, storeVars, StoreInv, StoreType, RefundsDated, LockedBy, Locked, Whole
<1>2. \A k \in Key : (Recent(k, acknowledged) /\ Coming(k, acknowledged))'
  BY DEF CacheInv, CacheType, Recent, Coming
<1>3. ASSUME NEW w \in Worker PROVE Dropped(w)'
  <2>1. /\ workers'[w] = workers[w] /\ drops'[w] = drops[w] /\ Dropped(w)
        /\ workers[w].version \in Nat
        /\ workers[w].pc = "saved" => workers[w].version <= version
    BY DEF CacheInv, storeVars, StoreInv, StoreType, CopyType, Whole
  <2> QED
    BY <2>1 DEF Dropped, Recent, Coming
<1> QED
  BY <1>1, <1>2, <1>3 DEF CacheInv, storeVars

LEMMA MissStep ==
  ASSUME CacheInv, NEW q \in Reader, Miss(q) PROVE CacheInv'
<1>1. PICK k \in Key : readers' = [readers EXCEPT ![q] =
                          [pc |-> "filling", key |-> k, version |-> version, overtaken |-> FALSE]]
  BY DEF Miss
<1>2. UNCHANGED <<storeVars, view, drops, acknowledged, excused>> /\ version > 0 /\ version \in Nat
  BY DEF Miss, CacheInv, StoreInv, StoreType
<1>3. CacheType'
  BY <1>1, <1>2 DEF CacheInv, CacheType, storeVars
<1>4. \A p \in Reader : p # q => readers'[p] = readers[p]
  BY <1>1 DEF CacheInv, CacheType
<1>5. readers'[q].version = version /\ readers'[q].pc = "filling"
  BY <1>1 DEF CacheInv, CacheType
<1>6. \A p \in Reader : readers'[p].version <= version /\ (readers'[p].pc = "filling" => readers'[p].version > 0)
  BY <1>2, <1>4, <1>5 DEF CacheInv
<1>7. ASSUME NEW j \in Key, NEW v \in Nat, v <= version, Recent(j, v), Coming(j, v)
      PROVE  /\ view'[j] = 0 \/ excused'[j] \/ view'[j] >= v
             /\ \A p \in Reader : readers'[p].pc = "filling" /\ readers'[p].key = j =>
                                    readers'[p].overtaken \/ readers'[p].version >= v
  BY <1>2, <1>4, <1>5, <1>7 DEF Recent, Coming
<1> QED
  BY <1>2, <1>3, <1>6, <1>7, ViewStep

LEMMA FillStep ==
  ASSUME CacheInv, NEW q \in Reader, Fill(q) PROVE CacheInv'
<1> DEFINE k == readers[q].key
<1>1. /\ UNCHANGED <<storeVars, drops, acknowledged>> /\ k \in Key /\ readers[q].pc = "filling"
      /\ readers' = [readers EXCEPT ![q] = AtRest]
      /\ readers[q].version \in Nat /\ readers[q].overtaken \in BOOLEAN
  BY DEF Fill, CacheInv, CacheType
<1>2. \/ /\ view' = [view EXCEPT ![k] = readers[q].version]
         /\ excused' = [excused EXCEPT ![k] = readers[q].overtaken]
      \/ UNCHANGED <<view, excused>>
  BY DEF Fill
<1>3. CacheType'
  BY <1>1, <1>2 DEF CacheInv, CacheType, storeVars, AtRest, Key
<1>4. \A p \in Reader : \/ p = q /\ readers'[p].pc = "idle" /\ readers'[p].version = 0
                        \/ p # q /\ readers'[p] = readers[p]
  BY <1>1 DEF CacheInv, CacheType, AtRest
<1>5. \A p \in Reader : readers'[p].version <= version /\ (readers'[p].pc = "filling" => readers'[p].version > 0)
  BY <1>4 DEF CacheInv, StoreInv, StoreType
<1>6. ASSUME NEW j \in Key, NEW v \in Nat, v <= version, Recent(j, v), Coming(j, v)
      PROVE  /\ view'[j] = 0 \/ excused'[j] \/ view'[j] >= v
             /\ \A p \in Reader : readers'[p].pc = "filling" /\ readers'[p].key = j =>
                                    readers'[p].overtaken \/ readers'[p].version >= v
  <2>1. \A p \in Reader : readers'[p].pc = "filling" /\ readers'[p].key = j =>
                            readers'[p].overtaken \/ readers'[p].version >= v
    BY <1>4, <1>6 DEF Coming
  <2>2. readers[q].key = j => readers[q].overtaken \/ readers[q].version >= v
    BY <1>1, <1>6 DEF Coming
  <2>3. view'[j] = 0 \/ excused'[j] \/ view'[j] >= v
    <3>1. CASE j = k
      BY <1>1, <1>2, <1>6, <2>2, <3>1 DEF Recent, CacheInv, CacheType
    <3>2. CASE j # k
      BY <1>1, <1>2, <1>6, <3>2 DEF Recent, CacheInv, CacheType
    <3> QED
      BY <3>1, <3>2
  <2> QED
    BY <2>1, <2>3
<1> QED
  BY <1>1, <1>3, <1>5, <1>6, ViewStep

LEMMA ViewExpiresStep ==
  ASSUME CacheInv, NEW k \in Key, ViewExpires(k) PROVE CacheInv'
<1>1. /\ UNCHANGED <<storeVars, drops, readers, acknowledged>>
      /\ view' = [view EXCEPT ![k] = 0] /\ excused' = [excused EXCEPT ![k] = FALSE]
  BY DEF ViewExpires
<1>2. CacheType'
  BY <1>1 DEF CacheInv, CacheType, storeVars
<1>3. \A j \in Key : view'[j] = 0 \/ (view'[j] = view[j] /\ excused'[j] = excused[j])
  BY <1>1 DEF CacheInv, CacheType
<1> QED
  BY <1>1, <1>2, <1>3, ViewStep DEF CacheInv, Recent, Coming

LEMMA CacheNextStep ==
  ASSUME CacheInv, [CacheNext]_allVars PROVE CacheInv'
<1>1. StoreInv'
  BY StoreStep, StoreNext DEF CacheInv
<1>2. CASE UNCHANGED allVars
  BY <1>1, <1>2 DEF allVars, storeVars, cacheVars, CacheInv, CacheType, Recent, Coming, Dropped
<1> QED
  BY <1>1, <1>2, PrepareOnlyStep, CommitAndDropStep, AnswerStep, DropStep, DieDroppingStep,
     MissStep, FillStep, ViewExpiresStep DEF CacheNext

\* An answered change is what both views show, unless a drop was lost or a slow
\* query explains it (DropCachedPayment between Save and the answer).
THEOREM ChangesSeen == CacheSpec => []ChangesAreSeen
<1>1. CacheInv => ChangesAreSeen
  BY DEF CacheInv, ChangesAreSeen, Recent
<1> QED
  BY <1>1, CacheStart, CacheNextStep, PTL DEF CacheSpec, allVars

LEMMA StoreKept == CacheSpec => Spec
<1>1. CacheInit => Init
  BY DEF CacheInit
<1> QED
  BY <1>1, CacheStart, CacheNextStep, StoreStep, PTL DEF CacheSpec, Spec, allVars

\* Saves are serial in the system with its cache, too.
THEOREM CachedSavesAreSerial == CacheSpec => ImplementsSerialSaves
BY StoreKept, SavesAreSerial

-----------------------------------------------------------------------------
(* How large everything gets. *)

Sized(copy) ==
  /\ copy.version <= MaxVersion
  /\ copy.pc \in {"persist", "number", "commit"} => copy.version < MaxVersion
  /\ \A r \in RefundId : copy.refunds[r] <= MaxVersion
  /\ copy.popped <= MaxEvents
  /\ copy.last <= MaxVersion * MaxEvents

\* Each Save logs and announces at most MaxEvents events.
Bounded ==
  /\ version <= MaxVersion
  /\ events \in Seq(1..MaxVersion) /\ Len(events) <= version * MaxEvents
  /\ outbox \subseteq [version: 1..MaxVersion, nth: 1..MaxEvents]
  /\ \A w \in Worker : Sized(workers[w])
  /\ \A k \in Key : view[k] <= version

LEMMA MoreTimes ==
  ASSUME NEW a \in Nat, NEW b \in Nat, NEW m \in Nat, a <= b
  PROVE  a * m \in Nat /\ b * m \in Nat /\ a * m <= b * m
<1>1. PICK c \in Nat : b = a + c
  <2>1. b - a \in Nat /\ b = a + (b - a)
    OBVIOUS
  <2> QED
    BY <2>1
<1>2. b * m = a * m + c * m /\ a * m \in Nat /\ c * m \in Nat
  BY <1>1
<1> QED
  BY <1>2

LEMMA SequenceItems ==
  ASSUME NEW S, NEW s \in Seq(S)
  PROVE  Len(s) \in Nat /\ \A i \in 1..Len(s) : s[i] \in S
OBVIOUS

LEMMA ItemsSequence ==
  ASSUME NEW S, NEW m \in Nat, NEW s \in [1..m -> S]
  PROVE  s \in Seq(S) /\ Len(s) = m
OBVIOUS

LEMMA BoundedInit == CacheInit => Bounded
<1> SUFFICES ASSUME CacheInit PROVE Bounded
  OBVIOUS
<1>1. version = 0 /\ events = <<>> /\ outbox = {} /\ \A k \in Key : view[k] = 0
  BY DEF CacheInit, Init
<1>2. ASSUME NEW w \in Worker PROVE Sized(workers[w])
  <2>1. workers[w] = Idle
    BY DEF CacheInit, Init
  <2>2. MaxVersion * MaxEvents \in Nat
    BY MaxVersionAssumption, MaxEventsAssumption, MoreTimes
  <2> QED
    BY <2>1, <2>2, MaxVersionAssumption, MaxEventsAssumption DEF Sized, Idle, NoRefunds
<1>3. Len(events) <= version * MaxEvents /\ events \in Seq(1..MaxVersion)
  BY <1>1, MaxEventsAssumption
<1> QED
  BY <1>1, <1>2, <1>3, MaxVersionAssumption DEF Bounded

\* Nothing a worker picks up or makes of its copy is larger than the bounds.
LEMMA SizedStep ==
  ASSUME StoreInv, Bounded, NEW w \in Worker,
         \/ ReadRow(w) \/ ReadRefunds(w) \/ NewPayment(w) \/ BeginSave(w)
         \/ Persist(w) \/ NumberEvents(w) \/ GoOn(w) \/ Leaves(w)
  PROVE  Sized(workers'[w]) /\ \A v \in Worker \ {w} : workers'[v] = workers[v]
<1>1. /\ workers \in [Worker -> CopyType] /\ workers[w] \in CopyType /\ Sized(workers[w])
      /\ version \in Nat /\ version <= MaxVersion /\ workers[w].version \in Nat
  BY DEF StoreInv, StoreType, Bounded, CopyType
<1>2. \A v \in Worker \ {w} : workers'[v] = workers[v]
  BY <1>1 DEF ReadRow, ReadRefunds, NewPayment, BeginSave, Persist, NumberEvents, GoOn, Leaves, Goes
<1> SUFFICES Sized(workers'[w])
  BY <1>2
<1>3. Sized(Idle)
  <2>1. MaxVersion * MaxEvents \in Nat
    BY MaxVersionAssumption, MaxEventsAssumption, MoreTimes
  <2> QED
    BY <2>1, MaxVersionAssumption, MaxEventsAssumption DEF Sized, Idle, NoRefunds
<1>4. CASE ReadRow(w)
  <2>1. workers'[w] = [workers[w] EXCEPT !.pc = "row", !.version = version]
    BY <1>1, <1>4 DEF ReadRow
  <2> QED
    BY <1>1, <2>1 DEF Sized, CopyType
<1>5. CASE ReadRefunds(w)
  <2>1. workers'[w] = [workers[w] EXCEPT !.pc = "loaded", !.refunds = refunds]
    BY <1>1, <1>5 DEF ReadRefunds
  <2>2. \A r \in RefundId : refunds[r] <= MaxVersion
    BY <1>1, MaxVersionAssumption DEF StoreInv, StoreType, RefundsDated
  <2> QED
    BY <1>1, <2>1, <2>2 DEF Sized, CopyType
<1>6. CASE NewPayment(w)
  <2>1. workers'[w] = [Idle EXCEPT !.pc = "loaded"]
    BY <1>1, <1>6 DEF NewPayment
  <2> QED
    BY <1>3, <2>1 DEF Sized, Idle
<1>7. CASE BeginSave(w)
  <2>1. PICK n \in 1..MaxEvents, changed \in SUBSET RefundId :
          workers' = [workers EXCEPT ![w] =
              [workers[w] EXCEPT !.pc = "persist", !.popped = n,
                 !.refunds = [r \in RefundId |-> IF r \in changed THEN workers[w].version + 1
                                                 ELSE workers[w].refunds[r]]]]
    BY <1>7 DEF BeginSave
  <2>2. workers[w].version < MaxVersion
    BY <1>7 DEF BeginSave
  <2>3. /\ workers'[w].pc = "persist" /\ workers'[w].version = workers[w].version
        /\ workers'[w].popped = n /\ workers'[w].last = workers[w].last
        /\ \A r \in RefundId : workers'[w].refunds[r] = IF r \in changed THEN workers[w].version + 1
                                                        ELSE workers[w].refunds[r]
    BY <1>1, <2>1 DEF CopyType
  <2> QED
    BY <1>1, <2>2, <2>3, MaxVersionAssumption, MaxEventsAssumption DEF Sized
<1>8. CASE Persist(w)
  <2>1. workers'[w] = [workers[w] EXCEPT !.pc = "number"] /\ workers[w].pc = "persist"
    BY <1>1, <1>8 DEF Persist, Goes, At
  <2> QED
    BY <1>1, <2>1 DEF Sized, CopyType
<1>9. CASE NumberEvents(w)
  <2>1. /\ workers'[w] = [workers[w] EXCEPT !.pc = "commit", !.last = LastSequence]
        /\ workers[w].pc = "number"
    BY <1>1, <1>9 DEF NumberEvents, At
  <2>2. LastSequence = Len(events) /\ Len(events) \in Nat /\ Len(events) <= version * MaxEvents
    BY LastIsLength DEF StoreInv, StoreType, Bounded
  <2>3. version * MaxEvents \in Nat /\ MaxVersion * MaxEvents \in Nat
        /\ version * MaxEvents <= MaxVersion * MaxEvents
    BY <1>1, MoreTimes, MaxVersionAssumption, MaxEventsAssumption
  <2>4. LastSequence <= MaxVersion * MaxEvents
    BY <2>2, <2>3
  <2>5. /\ workers'[w].pc = "commit" /\ workers'[w].version = workers[w].version
        /\ workers'[w].popped = workers[w].popped /\ workers'[w].last = LastSequence
        /\ workers'[w].refunds = workers[w].refunds
    BY <1>1, <2>1 DEF CopyType
  <2> QED
    BY <1>1, <2>1, <2>4, <2>5 DEF Sized
<1>10. CASE Leaves(w)
  BY <1>1, <1>3, <1>10 DEF Leaves
<1>11. CASE GoOn(w)
  <2>1. CASE Goes(w, "loaded")
    <3>1. workers'[w] = [workers[w] EXCEPT !.pc = "loaded"]
      BY <1>1, <2>1 DEF Goes
    <3> QED
      BY <1>1, <3>1 DEF Sized, CopyType
  <2> QED
    BY <1>10, <1>11, <2>1 DEF GoOn
<1> QED
  BY <1>4, <1>5, <1>6, <1>7, <1>8, <1>9, <1>10, <1>11

\* A Save makes one version, and at most MaxEvents events and messages of it.
LEMMA BoundedSave ==
  ASSUME StoreInv, Bounded, NEW w \in Worker, Stored(w), UNCHANGED view, view \in [Key -> Nat],
         Leaves(w) \/ Commit(w)
  PROVE  Bounded'
<1> DEFINE n == workers[w].popped
<1>1. /\ workers[w] \in CopyType /\ workers[w].version = version
      /\ version' = version + 1 /\ version \in Nat /\ n \in 1..MaxEvents
      /\ workers \in [Worker -> CopyType] /\ Sized(workers[w])
  BY StoredFacts DEF StoreInv, StoreType, Bounded
<1>2. version < MaxVersion
  BY <1>1 DEF Sized, Stored, At
<1>3. events' = [i \in 1..(Len(events) + n) |-> IF i <= Len(events) THEN events[i] ELSE version + 1]
  BY StoredLog
<1>4. outbox' = outbox \cup {[version |-> version + 1, nth |-> i] : i \in 1..n}
  BY <1>1 DEF Stored, Announced
<1> HIDE DEF n
<1>5. n \in Nat /\ n <= MaxEvents
  BY <1>1, MaxEventsAssumption
<1>6. events' \in Seq(1..MaxVersion) /\ Len(events') = Len(events) + n
  <2>1. /\ events \in Seq(1..MaxVersion) /\ Len(events) \in Nat
        /\ \A i \in 1..Len(events) : events[i] \in 1..MaxVersion
    BY SequenceItems DEF Bounded
  <2>2. version + 1 \in 1..MaxVersion
    BY <1>1, <1>2, MaxVersionAssumption
  <2>3. Len(events) + n \in Nat
    BY <1>5, <2>1
  <2>4. \A i \in 1..(Len(events) + n) :
          (IF i <= Len(events) THEN events[i] ELSE version + 1) \in 1..MaxVersion
    BY <2>1, <2>2
  <2> DEFINE m == Len(events) + n
             log == [i \in 1..m |-> IF i <= Len(events) THEN events[i] ELSE version + 1]
  <2>5. log \in [1..m -> 1..MaxVersion]
    BY <2>4
  <2>6. events' = log
    BY <1>3
  <2> HIDE DEF log
  <2> QED
    BY <2>3, <2>5, <2>6, ItemsSequence
<1>7. Len(events') <= version' * MaxEvents
  <2>1. version' * MaxEvents = version * MaxEvents + MaxEvents /\ version * MaxEvents \in Nat
    BY <1>1, MaxEventsAssumption
  <2>2. Len(events) \in Nat /\ Len(events) <= version * MaxEvents
    BY DEF StoreInv, StoreType, Bounded
  <2> QED
    BY <1>5, <1>6, <2>1, <2>2, MaxEventsAssumption
<1>8. outbox' \subseteq [version: 1..MaxVersion, nth: 1..MaxEvents]
  <2>1. \A i \in 1..n : i \in 1..MaxEvents
    BY <1>5, MaxEventsAssumption
  <2>2. version + 1 \in 1..MaxVersion
    BY <1>1, <1>2, MaxVersionAssumption
  <2> QED
    BY <1>4, <2>1, <2>2 DEF Bounded
<1>9. \A v \in Worker : Sized(workers'[v])
  <2>1. CASE Leaves(w)
    BY <2>1, SizedStep DEF Bounded
  <2>2. CASE Commit(w)
    <3>1. workers' = [workers EXCEPT ![w].pc = "saved", ![w].version = workers[w].version + 1,
                                     ![w].popped = 0, ![w].last = 0]
      BY <2>2 DEF Commit
    <3>2. /\ workers'[w].pc = "saved" /\ workers'[w].version = version + 1
          /\ workers'[w].popped = 0 /\ workers'[w].last = 0
          /\ workers'[w].refunds = workers[w].refunds
      BY <1>1, <3>1 DEF CopyType
    <3>3. MaxVersion * MaxEvents \in Nat
      BY MaxVersionAssumption, MaxEventsAssumption, MoreTimes
    <3>4. Sized(workers'[w])
      BY <1>1, <1>2, <3>2, <3>3, MaxVersionAssumption, MaxEventsAssumption DEF Sized
    <3>5. \A v \in Worker \ {w} : workers'[v] = workers[v]
      BY <1>1, <3>1
    <3> QED
      BY <3>4, <3>5 DEF Bounded
  <2> QED
    BY <2>1, <2>2
<1>10. version' <= MaxVersion /\ \A k \in Key : view'[k] <= version'
  BY <1>1, <1>2, MaxVersionAssumption DEF Bounded
<1> QED
  BY <1>6, <1>7, <1>8, <1>9, <1>10 DEF Bounded

LEMMA BoundedStep ==
  ASSUME CacheInv, Bounded, [CacheNext]_allVars PROVE Bounded'
<1>1. StoreInv /\ view \in [Key -> Nat] /\ version \in Nat
  BY DEF CacheInv, CacheType, StoreInv, StoreType
<1>2. ASSUME NEW w \in Worker, UNCHANGED <<version, refunds, events, outbox, view>>,
             \/ ReadRow(w) \/ ReadRefunds(w) \/ NewPayment(w) \/ BeginSave(w)
             \/ Persist(w) \/ NumberEvents(w) \/ GoOn(w) \/ Leaves(w)
      PROVE Bounded'
  <2>1. \A v \in Worker : Sized(workers'[v])
    BY <1>1, <1>2, SizedStep DEF Bounded
  <2> QED
    BY <1>2, <2>1 DEF Bounded
<1>3. ASSUME NEW w \in Worker, PrepareOnly(w) PROVE Bounded'
  <2>1. UNCHANGED view /\ Prepare(w)
    BY <1>3 DEF PrepareOnly, cacheVars
  <2>2. CASE CommitUnheard(w)
    BY <1>1, <2>1, <2>2, BoundedSave DEF CommitUnheard
  <2>3. CASE Refused(w) \/ Rollback(w) \/ GiveUp(w)
    BY <1>2, <2>1, <2>3 DEF Refused, Rollback, GiveUp
  <2>4. CASE \/ ReadRow(w) \/ ReadRefunds(w) \/ NewPayment(w) \/ BeginSave(w)
             \/ Persist(w) \/ NumberEvents(w)
    <3>1. UNCHANGED <<version, refunds, events, outbox>>
      BY <2>4 DEF ReadRow, ReadRefunds, NewPayment, BeginSave, Persist, NumberEvents
    <3> QED
      BY <1>2, <2>1, <2>4, <3>1
  <2> QED
    BY <2>1, <2>2, <2>3, <2>4 DEF Prepare
<1>4. ASSUME NEW w \in Worker, CommitAndDrop(w) PROVE Bounded'
  BY <1>1, <1>4, BoundedSave DEF CommitAndDrop, Commit
<1>5. ASSUME NEW w \in Worker, Answer(w) PROVE Bounded'
  BY <1>2, <1>5 DEF Answer, GoOn
<1>6. ASSUME NEW w \in Worker, DieDropping(w) PROVE Bounded'
  BY <1>2, <1>6 DEF DieDropping
<1>7. ASSUME UNCHANGED storeVars, \A k \in Key : view'[k] <= version PROVE Bounded'
  BY <1>7 DEF storeVars, Bounded
<1>8. ASSUME NEW w \in Worker, DropCachedPayment(w) PROVE Bounded'
  BY <1>1, <1>7, <1>8 DEF DropCachedPayment, Bounded
<1>9. ASSUME NEW q \in Reader, Miss(q) \/ Fill(q) PROVE Bounded'
  <2>1. readers[q].version <= version
    BY DEF CacheInv
  <2> QED
    BY <1>1, <1>7, <1>9, <2>1 DEF Miss, Fill, Bounded
<1>10. ASSUME NEW k \in Key, ViewExpires(k) PROVE Bounded'
  BY <1>1, <1>7, <1>10 DEF ViewExpires, Bounded
<1>11. CASE UNCHANGED allVars
  BY <1>7, <1>11 DEF allVars, cacheVars, Bounded
<1> QED
  BY <1>3, <1>4, <1>5, <1>6, <1>8, <1>9, <1>10, <1>11 DEF CacheNext

\* No view, no copy, no refund and no query knows a version that was never stored,
\* and the events and messages on record are those of its Saves, MaxEvents each at
\* most (PaymentRepo.Save and the cache over it).
THEOREM NothingFromTheFuture == CacheSpec => []TypeOK
<1>1. ASSUME CacheInv, Bounded PROVE TypeOK
  <2>1. version \in 0..MaxVersion /\ acknowledged \in 0..version
    BY <1>1, MaxVersionAssumption DEF CacheInv, CacheType, StoreInv, StoreType, Bounded
  <2>2. refunds \in [RefundId -> 0..version]
    BY <1>1 DEF CacheInv, StoreInv, StoreType, RefundsDated
  <2>3. workers \in [Worker -> CopyState]
    <3>1. MaxVersion * MaxEvents \in Nat
      BY MaxVersionAssumption, MaxEventsAssumption, MoreTimes
    <3>2. ASSUME NEW w \in Worker PROVE workers[w] \in CopyState
      <4>1. workers[w] \in CopyType /\ Sized(workers[w])
        BY <1>1 DEF CacheInv, StoreInv, StoreType, Bounded
      <4>2. workers[w].refunds \in [RefundId -> 0..MaxVersion]
        BY <4>1, MaxVersionAssumption DEF CopyType, Sized
      <4>3. /\ workers[w].version \in 0..MaxVersion /\ workers[w].popped \in 0..MaxEvents
            /\ workers[w].last \in 0..(MaxVersion * MaxEvents)
        BY <3>1, <4>1, MaxVersionAssumption, MaxEventsAssumption DEF CopyType, Sized
      <4> QED
        BY <4>1, <4>2, <4>3 DEF CopyType, CopyState
    <3> QED
      BY <1>1, <3>2 DEF CacheInv, StoreInv, StoreType
  <2>4. view \in [Key -> 0..version]
    BY <1>1, <2>1 DEF CacheInv, CacheType, Bounded
  <2>5. readers \in [Reader -> [pc: {"idle", "filling"}, key: Key, version: 0..version,
                                overtaken: BOOLEAN]]
    <3>1. ASSUME NEW q \in Reader
          PROVE readers[q] \in [pc: {"idle", "filling"}, key: Key, version: 0..version,
                                overtaken: BOOLEAN]
      BY <1>1, <2>1 DEF CacheInv, CacheType
    <3> QED
      BY <1>1, <3>1 DEF CacheInv, CacheType
  <2> QED
    BY <1>1, <2>1, <2>2, <2>3, <2>4, <2>5
       DEF TypeOK, CacheInv, CacheType, StoreInv, StoreType, Bounded
<1> QED
  BY <1>1, CacheStart, CacheNextStep, BoundedInit, BoundedStep, PTL DEF CacheSpec, allVars
=============================================================================
