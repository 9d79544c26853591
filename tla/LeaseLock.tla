------------------------------- MODULE LeaseLock -------------------------------
(***************************************************************************)
(* The Redis lock that keeps replicas from running the same background job *)
(* at once: Reconciler.Run takes it for one interval, ExpiryJob.RunOnce    *)
(* for 90 seconds.  The key holds no owner and Delete removes it whoever   *)
(* set it, so the lock excludes only while a pass is shorter than the TTL. *)
(*                                                                         *)
(* Time is counted in ticks.  A pass may be delayed by the gateway, the    *)
(* database or the scheduler, for at most LongestPass ticks.               *)
(***************************************************************************)
EXTENDS Integers, FiniteSets

CONSTANTS
  Replica,      \* server processes, each running the job's ticker loop
  TTL,          \* how long the key lives after SetNX
  LongestPass,  \* bound on the ticks one pass takes
  None          \* no replica

ASSUME TTLAssumption     == TTL \in Nat \ {0}
ASSUME PassAssumption    == LongestPass \in Nat
ASSUME ReplicaAssumption == None \notin Replica

VARIABLES
  owner,  \* who set the key (not stored in Redis, which holds just "1"), None: no key
  ttl,    \* ticks until the key expires
  left    \* per replica: ticks its pass may still take, -1 when not in a pass

lockVars == <<owner, ttl, left>>

Running == {n \in Replica : left[n] >= 0}

Init ==
  /\ owner = None /\ ttl = 0
  /\ left = [n \in Replica |-> -1]

\* Variant: the key is set whether or not it exists.
AcquireAnyway(n) ==
  /\ n \notin Running
  /\ owner' = n /\ ttl' = TTL
  /\ left' = [left EXCEPT ![n] = LongestPass]

\* SETNX with a TTL: succeeds only where there is no key.
Acquire(n) ==
  /\ n \notin Running
  /\ owner = None
  /\ owner' = n /\ ttl' = TTL
  /\ left' = [left EXCEPT ![n] = LongestPass]

\* Variant: the key is deleted before the pass.
FinishEarly(n) ==
  /\ n \in Running
  /\ owner' = None /\ ttl' = 0
  /\ left' \in {left, [left EXCEPT ![n] = -1]}

\* The pass ends and DEL removes the key, whoever set it.
Finish(n) ==
  /\ n \in Running
  /\ left' = [left EXCEPT ![n] = -1]
  /\ owner' = None /\ ttl' = 0

\* The process dies, is shut down, or cannot reach Redis: the key stays.
Crash(n) ==
  /\ n \in Running
  /\ left' = [left EXCEPT ![n] = -1]
  /\ UNCHANGED <<owner, ttl>>

\* Variant: a key without a TTL.
TickKeepingKey ==
  /\ \A n \in Running : left[n] > 0
  /\ owner # None \/ Running # {}
  /\ left' = [n \in Replica |-> IF n \in Running THEN left[n] - 1 ELSE left[n]]
  /\ UNCHANGED <<owner, ttl>>

\* Time passes for the key and for every pass; no pass outlasts its bound.
Tick ==
  /\ \A n \in Running : left[n] > 0
  /\ owner # None \/ Running # {}
  /\ left' = [n \in Replica |-> IF n \in Running THEN left[n] - 1 ELSE left[n]]
  /\ ttl' = IF ttl = 0 THEN 0 ELSE ttl - 1
  /\ owner' = IF ttl <= 1 THEN None ELSE owner

Next == (\E n \in Replica : Acquire(n) \/ Finish(n) \/ Crash(n)) \/ Tick

Spec == Init /\ [][Next]_lockVars

-----------------------------------------------------------------------------
TypeOK ==
  /\ owner \in Replica \cup {None}
  /\ ttl \in 0..TTL
  /\ left \in [Replica -> -1..LongestPass]

\* One replica at a time runs the job.
OneAtATime == \A m, n \in Running : m = n

\* A replica in a pass still owns the key: what it deletes at the end is its own.
DeletesOnlyItsOwn == \A n \in Running : owner = n

\* A replica that dies holding the key does not stop the job for ever.
JobKeepsRunning == []<>(Running # {})
=============================================================================
