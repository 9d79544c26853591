----------------------------- MODULE PaymentCache -----------------------------
(***************************************************************************)
(* PaymentStore with the two cached views of the payment in Redis, by ID   *)
(* and by reference.  Queries read through them; every handler that saved  *)
(* drops both, after its transaction and before it answers.                *)
(*                                                                         *)
(* A view is the version of the row it was built from.                     *)
(***************************************************************************)
EXTENDS PaymentStore

CONSTANT Reader   \* GET /payments requests

Key == {"payment", "reference"}

VARIABLES
  view,          \* what Redis holds under each key; 0 for nothing
  drops,         \* keys each handler that saved has still to drop
  readers,       \* queries that missed the cache
  acknowledged,  \* history: the newest version whose handler has answered
  excused        \* history: keys whose view a lost drop or a slow query explains

cacheVars == <<view, drops, readers, acknowledged, excused>>

-----------------------------------------------------------------------------
\* PaymentCacheKey first, then ReferenceCacheKey.
NextDrop(w) == IF "payment" \in drops[w] THEN "payment" ELSE "reference"

AtRest == [pc |-> "idle", key |-> "payment", version |-> 0, overtaken |-> FALSE]

\* Queries on their way with what they read before k was dropped.
Overtaken(k) ==
  [q \in Reader |-> IF readers[q].pc = "filling" /\ readers[q].key = k
                    THEN [readers[q] EXCEPT !.overtaken = TRUE] ELSE readers[q]]

\* A new payment has no view that could be outdated.
CommitAndDrop(w) ==
  /\ Commit(w)
  /\ drops' = [drops EXCEPT ![w] = IF version = 0 THEN {} ELSE Key]
  /\ UNCHANGED <<view, readers, acknowledged, excused>>

\* Variant: the view by reference is forgotten.
DropById(w) ==
  LET k == NextDrop(w) IN
  /\ drops[w] # {}
  /\ drops' = [drops EXCEPT ![w] = {}]
  /\ view' = [view EXCEPT ![k] = 0] /\ excused' = [excused EXCEPT ![k] = FALSE]
  /\ readers' = Overtaken(k)
  /\ UNCHANGED <<storeVars, acknowledged>>

\* DropCachedPayment deletes one key; errors are ignored, and a cancelled
\* request's deletes all fail.
DropCachedPayment(w) ==
  LET k == NextDrop(w) IN
  /\ drops[w] # {}
  /\ drops' = [drops EXCEPT ![w] = @ \ {k}]
  /\ \/ view' = [view EXCEPT ![k] = 0] /\ excused' = [excused EXCEPT ![k] = FALSE]
     \/ excused' = [excused EXCEPT ![k] = TRUE] /\ UNCHANGED view
  /\ readers' = Overtaken(k)
  /\ UNCHANGED <<storeVars, acknowledged>>

\* The handler answers, or goes on to its second Save, once both were dropped.
Answer(w) ==
  /\ drops[w] = {} /\ GoOn(w)
  /\ acknowledged' = IF workers[w].version > acknowledged THEN workers[w].version ELSE acknowledged
  /\ UNCHANGED <<view, drops, readers, excused>>

\* The process dies before it has dropped both.
DieDropping(w) ==
  /\ drops[w] # {} /\ Leaves(w)
  /\ drops' = [drops EXCEPT ![w] = {}]
  /\ UNCHANGED <<version, refunds, events, outbox, holder, view, readers, acknowledged, excused>>

\* A query finds nothing in the cache, or cannot reach it, and reads the row.
Miss(q) ==
  /\ readers[q].pc = "idle" /\ version > 0
  /\ \E k \in Key :
       readers' = [readers EXCEPT ![q] =
                     [pc |-> "filling", key |-> k, version |-> version, overtaken |-> FALSE]]
  /\ UNCHANGED <<storeVars, view, drops, acknowledged, excused>>

\* It stores the view it built, which may fail.
Fill(q) ==
  LET k == readers[q].key IN
  /\ readers[q].pc = "filling"
  /\ readers' = [readers EXCEPT ![q] = AtRest]
  /\ \/ view' = [view EXCEPT ![k] = readers[q].version]
        /\ excused' = [excused EXCEPT ![k] = readers[q].overtaken]
     \/ UNCHANGED <<view, excused>>
  /\ UNCHANGED <<storeVars, drops, acknowledged>>

\* Variant: a TTL of zero, which Redis takes for none.
ViewStays(k) == FALSE /\ UNCHANGED <<storeVars, cacheVars>>

\* TTLForStatus: no view is stored without a TTL.
ViewExpires(k) ==
  /\ view[k] # 0
  /\ view' = [view EXCEPT ![k] = 0] /\ excused' = [excused EXCEPT ![k] = FALSE]
  /\ UNCHANGED <<storeVars, drops, readers, acknowledged>>

-----------------------------------------------------------------------------
CacheInit ==
  /\ Init
  /\ view = [k \in Key |-> 0]
  /\ drops = [w \in Worker |-> {}]
  /\ readers = [q \in Reader |-> AtRest]
  /\ acknowledged = 0
  /\ excused = [k \in Key |-> FALSE]

PrepareOnly(w) == Prepare(w) /\ UNCHANGED cacheVars

CacheNext ==
  \/ \E w \in Worker : \/ PrepareOnly(w) \/ CommitAndDrop(w) \/ Answer(w)
                       \/ DropCachedPayment(w) \/ DieDropping(w)
  \/ \E q \in Reader : Miss(q) \/ Fill(q)
  \/ \E k \in Key : ViewExpires(k)

CacheSpec == CacheInit /\ [][CacheNext]_<<storeVars, cacheVars>>

\* Redis expires keys, and a query's Set is made or fails.
FairCacheSpec ==
  /\ CacheSpec
  /\ \A k \in Key : WF_<<storeVars, cacheVars>>(ViewExpires(k))
  /\ \A q \in Reader : WF_<<storeVars, cacheVars>>(Fill(q))

-----------------------------------------------------------------------------
(* Properties. *)

CopyState ==
  [pc: {"idle", "row", "loaded", "persist", "number", "commit", "saved"},
   version: 0..MaxVersion, refunds: [RefundId -> 0..MaxVersion],
   popped: 0..MaxEvents, last: 0..(MaxVersion * MaxEvents)]

TypeOK ==
  /\ version \in 0..MaxVersion
  /\ refunds \in [RefundId -> 0..version]
  /\ events \in Seq(1..MaxVersion)
  /\ outbox \subseteq [version: 1..MaxVersion, nth: 1..MaxEvents]
  /\ holder \in Worker \cup {Nobody}
  /\ workers \in [Worker -> CopyState]
  /\ view \in [Key -> 0..version]
  /\ drops \in [Worker -> SUBSET Key]
  /\ readers \in [Reader -> [pc: {"idle", "filling"}, key: Key, version: 0..version, overtaken: BOOLEAN]]
  /\ acknowledged \in 0..version
  /\ excused \in [Key -> BOOLEAN]

\* A caller whose change was answered sees it under either key from then on,
\* unless a drop was lost or the view was written by a query that had read the
\* row before the drop (DropCachedPayment after Save, before the answer).
ChangesAreSeen ==
  \A k \in Key : view[k] = 0 \/ excused[k] \/ view[k] >= acknowledged

\* When the changes stop, both views end up right and stay so, whatever drops
\* were lost and however late a query writes what it read (the TTL of a view).
ViewsConverge == <>[](\A k \in Key : view[k] \in {0, version})
=============================================================================
