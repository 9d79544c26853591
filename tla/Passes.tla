-------------------------------- MODULE Passes --------------------------------
(***************************************************************************)
(* The reconciler's passes: under the lock of LeaseLock, a pass asks for a *)
(* batch of payments whose charge outcome is open, then for a batch with   *)
(* refunds still PENDING, and takes them one by one.  What one payment's   *)
(* outcome may be is PayGate's; here it is settled, or left for a later    *)
(* pass, and the question is whether its turn comes.                       *)
(***************************************************************************)
EXTENDS LeaseLock, SequencesExt

CONSTANTS
  Charges,       \* bound: INITIATED payments, numbered by created_at
  Refunds,       \* bound: payments with PENDING refunds
  StuckCharges,  \* payments no pass can settle: the gateway's status is not known
  StuckRefunds,  \* refunds past RefundGiveUpAfter that nobody has looked at
  BatchSize,
  MaxCrashes     \* bound: replicas that die in a pass

ASSUME WorkAssumption ==
  /\ Charges \in Nat /\ Refunds \in Nat /\ MaxCrashes \in Nat /\ BatchSize \in Nat \ {0}
  /\ StuckCharges \subseteq 1..Charges /\ StuckRefunds \subseteq 1..Refunds
\* Nothing looks past the batch: as many stuck payments as fit into one would be
\* all that the passes ever take.
ASSUME CrowdAssumption ==
  Cardinality(StuckCharges) < BatchSize /\ Cardinality(StuckRefunds) < BatchSize

VARIABLES
  due,      \* how many charges and refunds are past their grace period
  settled,  \* those settled, by a pass or by a notification
  phase,    \* how far each replica's pass is
  batch,    \* what it has yet to take of its batch
  crashes

workVars == <<due, settled, phase, batch, crashes>>
passVars == <<lockVars, workVars>>

Kind     == {"charge", "refund"}
Open(k)  == (1..due[k]) \ settled[k]
Total(k) == IF k = "charge" THEN Charges ELSE Refunds
Stuck(k) == IF k = "charge" THEN StuckCharges ELSE StuckRefunds

Capped(S) == IF Cardinality(S) < BatchSize THEN Cardinality(S) ELSE BatchSize

\* FindAwaitingChargeOutcome orders by created_at.  GetPaymentIDsWithPendingRefunds
\* has a LIMIT and no order: any of those due.
Batches(k) ==
  {b \in SetToSeqs(Open(k)) : k = "charge" => \A i, j \in DOMAIN b : i < j => b[i] < b[j]}

Found(k) == {SubSeq(b, 1, Capped(Open(k))) : b \in Batches(k)}

-----------------------------------------------------------------------------
(* A pass. *)

Begin(n) ==
  /\ Acquire(n)
  /\ phase' = [phase EXCEPT ![n] = "find charges"]
  /\ UNCHANGED <<due, settled, batch, crashes>>

Finding == [charge |-> "find charges", refund |-> "find refunds"]
Taking  == [charge |-> "charge", refund |-> "refund"]
After   == [charge |-> "find refunds", refund |-> "done"]

Find(n, k) ==
  /\ n \in Running /\ phase[n] = Finding[k]
  /\ \E b \in Found(k) : batch' = [batch EXCEPT ![n] = b]
  /\ phase' = [phase EXCEPT ![n] = Taking[k]]
  /\ UNCHANGED <<lockVars, due, settled, crashes>>

\* The query fails, or FindByID does for one payment of the batch: the pass goes on
\* without it.
FindFails(n, k) ==
  /\ n \in Running /\ phase[n] = Finding[k]
  /\ phase' = [phase EXCEPT ![n] = After[k]]
  /\ UNCHANGED <<lockVars, due, settled, batch, crashes>>

Taken(n) == batch' = [batch EXCEPT ![n] = Tail(@)]

\* The next payment is settled and saved.
Settle(n, k, i) ==
  /\ n \in Running /\ phase[n] = Taking[k]
  /\ batch[n] # <<>> /\ Head(batch[n]) = i
  /\ i \notin Stuck(k) \cup settled[k]
  /\ settled' = [settled EXCEPT ![k] = @ \cup {i}]
  /\ Taken(n)
  /\ UNCHANGED <<lockVars, due, phase, crashes>>

\* Variant: the first payment that is not settled ends the batch.
NotNowLast(n, k) ==
  /\ n \in Running /\ phase[n] = Taking[k] /\ batch[n] # <<>>
  /\ batch' = [batch EXCEPT ![n] = <<>>]
  /\ UNCHANGED <<lockVars, due, settled, phase, crashes>>

\* It is not: the gateway does not answer or its answer is not known, the window is
\* over, or the Save meets a newer version.  The pass logs it and takes the next.
NotNow(n, k) ==
  /\ n \in Running /\ phase[n] = Taking[k] /\ batch[n] # <<>>
  /\ Taken(n)
  /\ UNCHANGED <<lockVars, due, settled, phase, crashes>>

Proceed(n, k) ==
  /\ n \in Running /\ phase[n] = Taking[k] /\ batch[n] = <<>>
  /\ phase' = [phase EXCEPT ![n] = After[k]]
  /\ UNCHANGED <<lockVars, due, settled, batch, crashes>>

Rest(n) ==
  /\ phase' = [phase EXCEPT ![n] = "idle"]
  /\ batch' = [batch EXCEPT ![n] = <<>>]
  /\ UNCHANGED <<due, settled>>

End(n) == phase[n] = "done" /\ Finish(n) /\ Rest(n) /\ UNCHANGED crashes

Die(n) == crashes < MaxCrashes /\ crashes' = crashes + 1 /\ Crash(n) /\ Rest(n)

Step(n) == \E k \in Kind :
  \/ Find(n, k) \/ FindFails(n, k) \/ NotNow(n, k) \/ Proceed(n, k)
  \/ \E i \in 1..Total(k) : Settle(n, k, i)

-----------------------------------------------------------------------------
(* Meanwhile. *)

\* A charge or refund grows older than its grace period, the oldest first.
BecomeDue(k) ==
  /\ due[k] < Total(k)
  /\ due' = [due EXCEPT ![k] = @ + 1]
  /\ UNCHANGED <<lockVars, settled, phase, batch, crashes>>

\* A notification or the refund's own handler settles it.
SettledElsewhere(k) ==
  /\ \E i \in Open(k) \ Stuck(k) : settled' = [settled EXCEPT ![k] = @ \cup {i}]
  /\ UNCHANGED <<lockVars, due, phase, batch, crashes>>

PassInit ==
  /\ Init
  /\ due = [k \in Kind |-> 0] /\ settled = [k \in Kind |-> {}]
  /\ phase = [n \in Replica |-> "idle"] /\ batch = [n \in Replica |-> <<>>]
  /\ crashes = 0

PassNext ==
  \/ \E n \in Replica : Begin(n) \/ Step(n) \/ End(n) \/ Die(n)
  \/ Tick /\ UNCHANGED workVars
  \/ \E k \in Kind : BecomeDue(k) \/ SettledElsewhere(k)

\* Tickers and clocks go on and passes move; a query that is made again and again
\* succeeds in the end, and so does an attempt to settle what can be settled.
FairPassSpec ==
  /\ PassInit /\ [][PassNext]_passVars
  /\ WF_passVars(\E n \in Replica : Begin(n))
  /\ WF_passVars(Tick /\ UNCHANGED workVars)
  /\ \A n \in Replica : WF_passVars(Step(n) \/ End(n))
  /\ \A k \in Kind : SF_passVars(\E n \in Replica : Find(n, k))
  /\ \A k \in Kind : \A i \in 1..Total(k) : SF_passVars(\E n \in Replica : Settle(n, k, i))

-----------------------------------------------------------------------------
\* A payment that can't be settled now is picked up again on the next pass
\* (RunOnce), and its turn comes in the end: neither the stuck payments before it,
\* nor the failures of others, nor a batch limit, nor a replica that dies keep it
\* from being settled.
EveryTurnComes ==
  \A k \in Kind : \A i \in 1..Total(k) :
    i \notin Stuck(k) => (due[k] >= i ~> i \in settled[k])
=============================================================================
