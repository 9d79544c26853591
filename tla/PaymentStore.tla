----------------------------- MODULE PaymentStore -----------------------------
(***************************************************************************)
(* The rows of one payment and PaymentRepo.Save, statement by statement,   *)
(* under PostgreSQL's READ COMMITTED: a transaction's writes are seen when *)
(* it commits, and its UPDATE of the row (or INSERT under the unique       *)
(* index) makes the next one wait.                                         *)
(*                                                                         *)
(* Row contents are reduced to the Save that wrote them, which is enough   *)
(* to tell whether a Save built on everything before it.                   *)
(***************************************************************************)
EXTENDS Naturals, Sequences

CONSTANTS
  Worker,      \* goroutines that load and save the payment
  RefundId,    \* its refunds
  MaxEvents,   \* domain events of one Save
  MaxVersion,  \* bound: Saves in a behaviour
  Nobody       \* holder of a lock nobody holds

ASSUME MaxEventsAssumption == MaxEvents \in Nat
ASSUME MaxVersionAssumption == MaxVersion \in Nat
ASSUME NobodyAssumption == Nobody \notin Worker

VARIABLES
  version,   \* payments.version; 0 while there is no row
  refunds,   \* refunds: the Save that last wrote each; 0 while there is no row
  events,    \* payment_events by sequence_number: the Save that wrote each
  outbox,    \* outbox_events: [version, nth]
  holder,    \* whose transaction has locked the payment's row
  workers    \* what each goroutine holds in memory, and where it is

storeVars == <<version, refunds, events, outbox, holder, workers>>

-----------------------------------------------------------------------------
NoRefunds == [r \in RefundId |-> 0]
Idle == [pc |-> "idle", version |-> 0, refunds |-> NoRefunds, popped |-> 0, last |-> 0]

At(w, pc)   == workers[w].pc = pc
Goes(w, pc) == workers' = [workers EXCEPT ![w].pc = pc]
Leaves(w)   == workers' = [workers EXCEPT ![w] = Idle]
Unlocked(w) == IF holder = w THEN Nobody ELSE holder

\* COALESCE(MAX(sequence_number), 0) of the committed events.
LastSequence ==
  IF DOMAIN events = {} THEN 0
  ELSE CHOOSE n \in DOMAIN events : \A i \in DOMAIN events : i <= n

-----------------------------------------------------------------------------
(* Loading. *)

\* FindByID, FindByReference, FindByGatewayTransactionID: the payment's row.
ReadRow(w) ==
  /\ At(w, "idle") /\ version > 0
  /\ workers' = [workers EXCEPT ![w].pc = "row", ![w].version = version]
  /\ UNCHANGED <<version, refunds, events, outbox, holder>>

\* Variant: what is read last is taken to be the version of everything.
ReadRefundsAndVersion(w) ==
  /\ At(w, "row")
  /\ \E torn \in {NoRefunds, refunds} :
       workers' = [workers EXCEPT ![w].pc = "loaded", ![w].refunds = torn, ![w].version = version]
  /\ UNCHANGED <<version, refunds, events, outbox, holder>>

\* withRefunds: then, in a query of its own, its refunds.
ReadRefunds(w) ==
  /\ At(w, "row")
  /\ workers' = [workers EXCEPT ![w].pc = "loaded", ![w].refunds = refunds]
  /\ UNCHANGED <<version, refunds, events, outbox, holder>>

\* payment.New: a payment for the reference that has never been stored.
NewPayment(w) ==
  /\ At(w, "idle")
  /\ workers' = [workers EXCEPT ![w] = [Idle EXCEPT !.pc = "loaded"]]
  /\ UNCHANGED <<version, refunds, events, outbox, holder>>

-----------------------------------------------------------------------------
(* Save. *)

\* The handler's changes in memory, and the transaction's begin.  A payment that
\* is not stored yet has no refunds to change.
BeginSave(w) ==
  LET copy == workers[w] IN
  /\ At(w, "loaded") /\ copy.version < MaxVersion
  /\ \E n \in 1..MaxEvents, changed \in SUBSET RefundId :
       /\ copy.version = 0 => changed = {}
       /\ workers' = [workers EXCEPT ![w] =
            [copy EXCEPT !.pc = "persist", !.popped = n,
               !.refunds = [r \in RefundId |->
                              IF r \in changed THEN copy.version + 1 ELSE copy.refunds[r]]]]
  /\ UNCHANGED <<version, refunds, events, outbox, holder>>

\* Variant: compare the version in a SELECT and update by ID.
PersistUnlocked(w) ==
  /\ At(w, "persist") /\ workers[w].version = version
  /\ holder' = w
  /\ Goes(w, "number")
  /\ UNCHANGED <<version, refunds, events, outbox>>

\* Variant: UPDATE without the version.
PersistUnchecked(w) ==
  /\ At(w, "persist") /\ holder = Nobody
  /\ (workers[w].version = 0) = (version = 0)
  /\ holder' = w
  /\ Goes(w, "number")
  /\ UNCHANGED <<version, refunds, events, outbox>>

\* InsertPayment or UpdatePaymentFull finds what it expects and takes the lock;
\* it waits while another transaction has it, and then looks again.
Persist(w) ==
  /\ At(w, "persist") /\ workers[w].version = version
  /\ holder = Nobody /\ holder' = w
  /\ Goes(w, "number")
  /\ UNCHANGED <<version, refunds, events, outbox>>

\* Either writes no row: ALREADY_EXISTS or CONFLICT, before anything is written.
Refused(w) ==
  /\ At(w, "persist") /\ workers[w].version # version
  /\ Leaves(w)
  /\ UNCHANGED <<version, refunds, events, outbox, holder>>

\* UpsertRefund of every refund of the copy (they are staged with the rest), then
\* GetLastEventSequence.
NumberEvents(w) ==
  /\ At(w, "number")
  /\ workers' = [workers EXCEPT ![w].pc = "commit", ![w].last = LastSequence]
  /\ UNCHANGED <<version, refunds, events, outbox, holder>>

\* What the transaction has written: the refunds of the copy over what is there,
\* and one row per event in either table.
Upserted(copy) == [r \in RefundId |-> IF copy.refunds[r] = 0 THEN refunds[r] ELSE copy.refunds[r]]
Numbers(copy)  == {copy.last + i : i \in 1..copy.popped}
Logged(copy)   == [i \in DOMAIN events \cup Numbers(copy) |->
                     IF i \in DOMAIN events THEN events[i] ELSE copy.version + 1]
Announced(copy) == {[version |-> copy.version + 1, nth |-> i] : i \in 1..copy.popped}

\* InsertPaymentEvent past its unique index, WriteWithTx, and Commit.
Stored(w) ==
  LET copy == workers[w] IN
  /\ At(w, "commit") /\ Numbers(copy) \cap DOMAIN events = {}
  /\ version' = version + 1
  /\ refunds' = Upserted(copy)
  /\ events' = Logged(copy)
  /\ outbox' = outbox \cup Announced(copy)
  /\ holder' = Unlocked(w)

\* The copy stays usable: its version is the stored one again, its events are gone.
Commit(w) ==
  /\ Stored(w)
  /\ workers' = [workers EXCEPT ![w].pc = "saved", ![w].version = workers[w].version + 1,
                                ![w].popped = 0, ![w].last = 0]

\* The commit's reply is lost, so the caller gets an error.
CommitUnheard(w) == Stored(w) /\ Leaves(w)

\* A statement fails, the request is cancelled, or the process dies.
Rollback(w) ==
  /\ workers[w].pc \in {"persist", "number", "commit"}
  /\ holder' = Unlocked(w)
  /\ Leaves(w)
  /\ UNCHANGED <<version, refunds, events, outbox>>

\* The caller goes on with its copy (a refund's outcome is saved on the copy
\* that reserved it) or is done with it.
GoOn(w) ==
  /\ At(w, "saved")
  /\ Goes(w, "loaded") \/ Leaves(w)
  /\ UNCHANGED <<version, refunds, events, outbox, holder>>

GiveUp(w) ==
  /\ workers[w].pc \in {"row", "loaded"}
  /\ Leaves(w)
  /\ UNCHANGED <<version, refunds, events, outbox, holder>>

-----------------------------------------------------------------------------
Init ==
  /\ version = 0
  /\ refunds = NoRefunds
  /\ events = <<>>
  /\ outbox = {}
  /\ holder = Nobody
  /\ workers = [w \in Worker |-> Idle]

\* The steps of a worker that no other part of the system depends on.
Prepare(w) ==
  \/ ReadRow(w) \/ ReadRefunds(w) \/ NewPayment(w) \/ BeginSave(w)
  \/ Persist(w) \/ Refused(w) \/ NumberEvents(w)
  \/ CommitUnheard(w) \/ Rollback(w) \/ GiveUp(w)

Next == \E w \in Worker : Prepare(w) \/ Commit(w) \/ GoOn(w)

Spec == Init /\ [][Next]_storeVars

-----------------------------------------------------------------------------
(* Properties. *)

\* Save under interleaved statements is the serial Save of SerialStore: nothing a
\* committed Save wrote is lost or overwritten by one that had not seen it, and
\* events are numbered without gaps or repeats.
Serial == INSTANCE SerialStore WITH log <- events

ImplementsSerialSaves == Serial!Spec

\* The unique index on event numbers is a second line of defence that is never
\* reached: the row's lock already keeps two Saves from numbering alike.
NumbersNeverClash ==
  \A w \in Worker : At(w, "commit") => Numbers(workers[w]) \cap DOMAIN events = {}

\* A copy that was loaded whole and is still current has every stored refund as
\* stored, although row and refunds are read by two queries.
CopiesWhole ==
  \A w \in Worker :
    At(w, "loaded") /\ workers[w].version = version => workers[w].refunds = refunds
=============================================================================
