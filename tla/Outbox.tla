-------------------------------- MODULE Outbox --------------------------------
(***************************************************************************)
(* The transactional outbox: rows that Save writes with the payment, and   *)
(* the workers (one per replica) that publish them to RabbitMQ.  A worker  *)
(* claims a batch with FOR UPDATE SKIP LOCKED, publishes and marks its rows*)
(* one by one inside the claiming transaction, and commits.                *)
(*                                                                         *)
(* A row is named by its created_at, a number.  Backoff is reduced to      *)
(* whether the row is due.                                                 *)
(***************************************************************************)
EXTENDS Integers, FiniteSets

CONSTANTS
  Row,          \* outbox_events rows that will be written
  Worker,       \* outbox workers
  BatchSize,    \* LIMIT of a claim
  GiveUpAfter,  \* retry_count from which one more failure is final: 5 in the code
  MaxSetbacks   \* bound on the faults, per row

ASSUME RowAssumption   == Row \subseteq Nat /\ IsFiniteSet(Row)
ASSUME LimitAssumption == BatchSize \in Nat \ {0} /\ GiveUpAfter \in Nat /\ MaxSetbacks \in Nat

VARIABLES
  rows,      \* status and retry_count, committed
  due,       \* rows with scheduled_at <= NOW()
  batches,   \* per worker: its open transaction
  messages,  \* copies of each row's event the broker has taken
  failures,  \* publishes of each row that failed (history)
  setbacks   \* confirms lost and transactions rolled back, per row (history)

outboxVars == <<rows, due, batches, messages, failures, setbacks>>

RowStatus == {"ABSENT", "PENDING", "PUBLISHED", "FAILED"}

\* Rows still to publish and rows marked, not yet visible to others.  A
\* transaction whose connection is gone holds no locks.
Closed == [todo |-> {}, published |-> {}, failed |-> {}, connected |-> TRUE]

Members(b) == b.todo \cup b.published \cup b.failed
IsOpen(w)  == Members(batches[w]) # {}
Locked     == UNION {Members(batches[w]) : w \in {v \in Worker : batches[v].connected}}

Close(w) == batches' = [batches EXCEPT ![w] = Closed]

\* One more setback for every row of R.  The bound: none once some row has had
\* MaxSetbacks.
SetBack(R) ==
  /\ \A r \in Row : setbacks[r] < MaxSetbacks
  /\ setbacks' = [r \in Row |-> IF r \in R THEN setbacks[r] + 1 ELSE setbacks[r]]

-----------------------------------------------------------------------------
\* WriteWithTx, in the transaction that saves the payment.
Write(r) ==
  /\ rows[r].status = "ABSENT"
  /\ rows' = [rows EXCEPT ![r].status = "PENDING"]
  /\ due' = due \cup {r}
  /\ UNCHANGED <<batches, messages, failures, setbacks>>

\* Variant: the SELECT runs outside the transaction, so that its locks are gone.
ClaimableUnlocked == {r \in due : rows[r].status = "PENDING"}
\* Variant: the last retry is never made.
ClaimableWithRetriesLeft ==
  {r \in due : rows[r].status = "PENDING" /\ rows[r].retries < GiveUpAfter} \ Locked
Claimable == {r \in due : rows[r].status = "PENDING"} \ Locked

\* The BatchSize oldest of S.
Oldest(S) == {r \in S : Cardinality({s \in S : s < r}) < BatchSize}

Claim(w) ==
  /\ ~IsOpen(w)
  /\ Claimable # {}
  /\ batches' = [batches EXCEPT ![w].todo = Oldest(Claimable)]
  /\ UNCHANGED <<rows, due, messages, failures, setbacks>>

\* The loop takes the batch oldest first.
Current(w, r) == r \in batches[w].todo /\ \A s \in batches[w].todo : r <= s

Marked(w, r, mark) ==
  batches' = [batches EXCEPT ![w].todo = @ \ {r}, ![w][mark] = @ \cup {r}]

Taken(r) == messages' = [messages EXCEPT ![r] = @ + 1]
Failed(r) == failures' = [failures EXCEPT ![r] = @ + 1]

\* Variant: fire and forget, any publish that could be sent counts.
PublishUnconfirmed(w) ==
  /\ \E r \in Row :
       /\ Current(w, r) /\ batches[w].connected
       /\ Taken(r) \/ UNCHANGED messages
       /\ Marked(w, r, "published")
  /\ UNCHANGED <<rows, due, failures, setbacks>>

\* Publish, then mark: confirmed; refused or never sent; or taken by the broker
\* without a confirm in time.
Publish(w) ==
  /\ \E r \in Row :
       /\ Current(w, r) /\ batches[w].connected
       /\ \/ Taken(r) /\ Marked(w, r, "published") /\ UNCHANGED <<failures, setbacks>>
          \/ Failed(r) /\ Marked(w, r, "failed") /\ UNCHANGED <<messages, setbacks>>
          \/ Taken(r) /\ Failed(r) /\ Marked(w, r, "failed") /\ SetBack({r})
  /\ UNCHANGED <<rows, due>>

\* PostgreSQL loses the session: its locks go at once, the worker notices at its
\* next query.
LoseConnection(w) ==
  /\ IsOpen(w) /\ batches[w].connected
  /\ SetBack(Members(batches[w]))
  /\ batches' = [batches EXCEPT ![w].connected = FALSE]
  /\ UNCHANGED <<rows, due, messages, failures>>

\* The publish in progress may still go through; marking it, or the commit, fails.
NoticeLoss(w) ==
  /\ IsOpen(w) /\ ~batches[w].connected
  /\ \/ UNCHANGED messages
     \/ \E r \in Row : Current(w, r) /\ Taken(r)
  /\ Close(w)
  /\ UNCHANGED <<rows, due, failures, setbacks>>

\* A mark or the commit fails, the server shuts down or dies: all marks are undone.
Rollback(w) ==
  /\ IsOpen(w) /\ batches[w].connected
  /\ SetBack(Members(batches[w]))
  /\ Close(w)
  /\ UNCHANGED <<rows, due, messages, failures>>

\* Variant: gives up one failure early.
FailedMarkEarly(row) ==
  [status |-> IF row.retries + 1 >= GiveUpAfter THEN "FAILED" ELSE "PENDING", retries |-> row.retries + 1]
FailedMark(row) ==
  [status |-> IF row.retries >= GiveUpAfter THEN "FAILED" ELSE "PENDING", retries |-> row.retries + 1]

Commit(w) ==
  LET b == batches[w] IN
  /\ IsOpen(w) /\ b.connected
  /\ b.todo = {}
  /\ rows' = [r \in Row |->
       CASE r \in b.published -> [rows[r] EXCEPT !.status = "PUBLISHED"]
         [] r \in b.failed    -> FailedMark(rows[r])
         [] OTHER             -> rows[r]]
  /\ due' = due \ b.failed
  /\ Close(w)
  /\ UNCHANGED <<messages, failures, setbacks>>

\* The 30 s, 60 s, ... since the last failure are over.
BackoffEnds(r) ==
  /\ rows[r].status = "PENDING" /\ r \notin due
  /\ due' = due \cup {r}
  /\ UNCHANGED <<rows, batches, messages, failures, setbacks>>

-----------------------------------------------------------------------------
Init ==
  /\ rows = [r \in Row |-> [status |-> "ABSENT", retries |-> 0]]
  /\ due = {}
  /\ batches = [w \in Worker |-> Closed]
  /\ messages = [r \in Row |-> 0]
  /\ failures = [r \in Row |-> 0]
  /\ setbacks = [r \in Row |-> 0]

Work(w) == Claim(w) \/ Publish(w) \/ NoticeLoss(w) \/ Commit(w)

Next ==
  \/ \E r \in Row : Write(r) \/ BackoffEnds(r)
  \/ \E w \in Worker : Work(w) \/ LoseConnection(w) \/ Rollback(w)

Spec == Init /\ [][Next]_outboxVars

\* Every worker's ticker goes on, publishing ends within confirmTimeout, and
\* backoffs end.  A row is set back finitely often: the bound on setbacks.
FairSpec ==
  /\ Spec
  /\ \A w \in Worker : WF_outboxVars(Work(w))
  /\ \A r \in Row : WF_outboxVars(BackoffEnds(r))

-----------------------------------------------------------------------------
(* Properties. *)

\* However many workers run, an event goes out again only because a confirm or
\* a transaction was lost: once per setback at most.
RepeatsAreSetbacks == \A r \in Row : messages[r] <= 1 + setbacks[r]

\* An event marked as published was taken by the broker.
PublishedWasTaken == \A r \in Row : rows[r].status = "PUBLISHED" => messages[r] > 0

\* An event is given up only after GiveUpAfter retries failed as well, and one
\* that is still tried has not used them up.  Rolled-back failures do not count.
GivenUpAfterRetries ==
  \A r \in Row :
    /\ rows[r].retries <= failures[r]
    /\ rows[r].status = "FAILED" <=> rows[r].retries = GiveUpAfter + 1

\* A row published or given up stays so: no other worker, late or slow, marks it
\* again.
SettledForGood ==
  [][\A r \in Row : rows[r].status \in {"PUBLISHED", "FAILED"} => rows'[r] = rows[r]]_outboxVars

\* Every event written is published or given up in the end, however the broker
\* behaves.
EveryRowSettles ==
  \A r \in Row : rows[r].status = "PENDING" ~> rows[r].status \in {"PUBLISHED", "FAILED"}
=============================================================================
