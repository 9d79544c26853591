------------------------------ MODULE PassesProofs ------------------------------
(***************************************************************************)
(* The lock excludes as long as no pass takes as long as the key lives, for*)
(* any number of replicas and whatever their passes do.  Nothing in the    *)
(* code bounds a pass: the theorems say what the TTL assumes, and a pass as*)
(* long as the TTL lets a second replica in (PayGate's ReconcilerOverlap   *)
(* shows what that can do).                                                *)
(***************************************************************************)
EXTENDS Passes, TLAPS

\* A running pass owns the key, which outlives what is left of the pass.
Covered == \A n \in Running : owner = n /\ left[n] < ttl

LockInv == TypeOK /\ Covered

LEMMA LockInit == Init => LockInv
BY TTLAssumption, PassAssumption DEF Init, LockInv, TypeOK, Covered, Running

\* Acquiring finds no key, so nobody is running; the new key outlives the pass.
LEMMA AcquireCovers ==
  ASSUME LongestPass < TTL, LockInv, NEW n \in Replica, Acquire(n)
  PROVE  LockInv'
<1>1. TypeOK'
  BY TTLAssumption, PassAssumption DEF LockInv, TypeOK, Acquire
<1>2. Running = {}
  BY ReplicaAssumption DEF LockInv, Covered, Acquire, Running
<1>3. ASSUME NEW m \in Running'
      PROVE  m = n
  BY <1>2, <1>3 DEF Running, Acquire, LockInv, TypeOK
<1>4. owner' = n /\ left'[n] = LongestPass /\ ttl' = TTL
  BY DEF Acquire, LockInv, TypeOK
<1>5. Covered'
  BY <1>3, <1>4 DEF Covered
<1> QED
  BY <1>1, <1>5 DEF LockInv

\* Only the owner runs, so once it stops nobody does.
LEMMA StopCovers ==
  ASSUME LockInv, NEW n \in Replica, Finish(n) \/ Crash(n)
  PROVE  LockInv'
<1>1. TypeOK'
  BY TTLAssumption, PassAssumption DEF LockInv, TypeOK, Finish, Crash
<1>2. Running' = {}
  BY PassAssumption DEF LockInv, TypeOK, Covered, Running, Finish, Crash
<1> QED
  BY <1>1, <1>2 DEF LockInv, Covered

\* Key and pass grow old together.
LEMMA TickCovers ==
  ASSUME LockInv, Tick
  PROVE  LockInv'
<1>1. TypeOK'
  BY TTLAssumption, PassAssumption DEF LockInv, TypeOK, Tick, Running
<1>2. ASSUME NEW n \in Running'
      PROVE  owner' = n /\ left'[n] < ttl'
  <2>1. n \in Running /\ left'[n] = left[n] - 1 /\ left[n] > 0
    BY PassAssumption, <1>2 DEF LockInv, TypeOK, Tick, Running
  <2>2. owner = n /\ left[n] < ttl
    BY <2>1 DEF LockInv, Covered
  <2>3. left[n] \in Int /\ ttl \in Nat
    BY <2>1, PassAssumption, TTLAssumption DEF LockInv, TypeOK, Running
  <2>4. ttl' = ttl - 1 /\ owner' = owner
    BY <2>1, <2>2, <2>3 DEF Tick
  <2> QED
    BY <2>1, <2>2, <2>3, <2>4
<1>3. Covered'
  BY <1>2 DEF Covered
<1> QED
  BY <1>1, <1>3 DEF LockInv

LEMMA LockStep ==
  ASSUME LongestPass < TTL, LockInv, [Next]_lockVars
  PROVE  LockInv'
<1>1. ASSUME NEW n \in Replica, Acquire(n) PROVE LockInv'
  BY <1>1, AcquireCovers
<1>2. ASSUME NEW n \in Replica, Finish(n) \/ Crash(n) PROVE LockInv'
  BY <1>2, StopCovers
<1>3. ASSUME Tick PROVE LockInv'
  BY <1>3, TickCovers
<1>4. ASSUME UNCHANGED lockVars PROVE LockInv'
  BY <1>4 DEF lockVars, LockInv, TypeOK, Covered, Running
<1> QED
  BY <1>1, <1>2, <1>3, <1>4 DEF Next

\* Whatever a pass does with its batches, the lock sees one of its own steps or none.
LEMMA LockAlone == [PassNext]_passVars => [Next]_lockVars
<1> SUFFICES ASSUME [PassNext]_passVars PROVE [Next]_lockVars
  OBVIOUS
<1>1. CASE UNCHANGED passVars
  BY <1>1 DEF passVars
<1>2. ASSUME NEW n \in Replica, Begin(n) \/ End(n) \/ Die(n) PROVE Next
  BY <1>2 DEF Begin, End, Die, Next
<1>3. ASSUME NEW n \in Replica, Step(n) PROVE UNCHANGED lockVars
  BY <1>3 DEF Step, Find, FindFails, NotNow, Proceed, Settle
<1>4. CASE Tick /\ UNCHANGED workVars
  BY <1>4 DEF Next
<1>5. ASSUME NEW k \in Kind, BecomeDue(k) \/ SettledElsewhere(k) PROVE UNCHANGED lockVars
  BY <1>5 DEF BecomeDue, SettledElsewhere
<1> QED
  BY <1>1, <1>2, <1>3, <1>4, <1>5 DEF PassNext

LEMMA LockHolds ==
  ASSUME LongestPass < TTL
  PROVE  PassInit /\ [][PassNext]_passVars => []LockInv
<1>1. PassInit => LockInv
  BY LockInit DEF PassInit
<1>2. LockInv /\ [PassNext]_passVars => LockInv'
  BY LockAlone, LockStep
<1> QED
  BY <1>1, <1>2, PTL

\* While a pass is shorter than the TTL, one replica at a time runs the job, even
\* when replicas die in a pass and their key outlives them (Reconciler.Run,
\* ExpiryJob.RunOnce).
THEOREM LockExcludes ==
  ASSUME LongestPass < TTL
  PROVE  FairPassSpec => []OneAtATime
<1>1. LockInv => OneAtATime
  BY DEF LockInv, Covered, OneAtATime
<1> QED
  BY <1>1, LockHolds, PTL DEF FairPassSpec

\* While a pass is shorter than the TTL, the key that Delete removes at its end is
\* the one its own SetNX made, although the key does not say whose it is.
THEOREM DeletesOwnKey ==
  ASSUME LongestPass < TTL
  PROVE  FairPassSpec => []DeletesOnlyItsOwn
<1>1. LockInv => DeletesOnlyItsOwn
  BY DEF LockInv, Covered, DeletesOnlyItsOwn
<1> QED
  BY <1>1, LockHolds, PTL DEF FairPassSpec
=============================================================================
