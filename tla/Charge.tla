-------------------------------- MODULE Charge --------------------------------
(***************************************************************************)
(* POST /payments repeated: requests of one caller that carry the same     *)
(* reference_id, sent at once or retried, guarded by the idempotency claim *)
(* in Redis, the lookup by reference and the unique index behind Save.     *)
(*                                                                         *)
(* Each request builds its own payment, whose new ID is the gateway's      *)
(* order_id, so a payment is named by the request that opened it.  A step  *)
(* is one call to Redis, PostgreSQL or the gateway.                        *)
(***************************************************************************)
EXTENDS Naturals, FiniteSets

CONSTANTS
  Request,    \* the POST /payments requests for the reference
  Payload,    \* RequestFingerprint: what each of them asks for
  Faults,     \* what can go wrong in this instance
  None,       \* no payment
  NoClaim     \* no key in Redis

\* "redis": its calls fail, or succeed and lose the reply.  "db": queries fail,
\* or commit and lose the reply.  "crash": a request stops midway.  "slow": a
\* request outlives its claim.
FaultNames == {"redis", "db", "crash", "slow"}

ASSUME FaultsAssumption == Faults \subseteq FaultNames
ASSUME NoneAssumption   == None \notin Request
ASSUME NoClaimAssumption == NoClaim \notin [state: {"processing", "done"}, by: Request]

VARIABLES
  claim,     \* idempotencyRecord: its state and the request that wrote it
  stored,    \* the payments row for the reference: whose payment it holds
  charged,   \* requests whose transaction the gateway has opened
  requests,  \* where each request is, and how it was answered
  slips,     \* history: what has gone wrong with claims, of "redis" and "slow"
  unsaved    \* history: requests that "db" or "crash" kept from going on

faultVars  == <<slips, unsaved>>
chargeVars == <<claim, stored, charged, requests, faultVars>>

Claims == [state: {"processing", "done"}, by: Request]

-----------------------------------------------------------------------------
Arriving == [pc |-> "new", holdsKey |-> FALSE, confirmed |-> FALSE, answer |-> "none", payment |-> None]

At(r, pc) == requests[r].pc = pc
Over(r)   == requests[r].pc \in {"done", "dead"}
Goes(r, pc) == requests' = [requests EXCEPT ![r].pc = pc]

\* The response is written.  A 201 names a payment.
Answers(r, answer, payment) ==
  requests' = [requests EXCEPT ![r].pc = "done", ![r].answer = answer, ![r].payment = payment]

Slips(name)    == name \in Faults /\ slips' = slips \cup {name} /\ UNCHANGED unsaved
Fails(r, name) == name \in Faults /\ unsaved' = unsaved \cup {r} /\ UNCHANGED slips
Works          == UNCHANGED faultVars

Runs(r, holdsKey) ==
  requests' = [requests EXCEPT ![r].pc = "lookup", ![r].holdsKey = holdsKey]

-----------------------------------------------------------------------------
(* The claim. *)

\* Variant: a state Complete and Begin do not know.
ClaimedMisspelt(r) == [state |-> "PROCESSING", by |-> r]
Claimed(r) == [state |-> "processing", by |-> r]

\* Variant: a request that goes on without the claim completes it all the same.
BeginAnyway(r) ==
  /\ At(r, "new")
  /\ \/ claim = NoClaim /\ claim' = Claimed(r) /\ Runs(r, TRUE) /\ Works
     \/ claim # NoClaim /\ Goes(r, "read") /\ Works /\ UNCHANGED claim
     \/ Slips("redis") /\ Runs(r, TRUE) /\ UNCHANGED claim
  /\ UNCHANGED <<stored, charged>>

\* SETNX.  When Redis fails the request goes on without the claim, which may
\* have been set all the same.
Begin(r) ==
  /\ At(r, "new")
  /\ \/ claim = NoClaim /\ claim' = Claimed(r) /\ Runs(r, TRUE) /\ Works
     \/ claim # NoClaim /\ Goes(r, "read") /\ Works /\ UNCHANGED claim
     \/ /\ Slips("redis")
        /\ claim' \in {claim, IF claim = NoClaim THEN Claimed(r) ELSE claim}
        /\ Runs(r, FALSE)
  /\ UNCHANGED <<stored, charged>>

SamePayload(r) == Payload[claim.by] = Payload[r]

\* GET of the claim another request holds: a finished one with the same
\* fingerprint is replayed, everything else is a 409.
Read(r) ==
  /\ At(r, "read")
  /\ \/ claim = NoClaim /\ Answers(r, "conflict", None) /\ Works
     \/ /\ claim # NoClaim /\ SamePayload(r) /\ claim.state = "done"
        /\ Answers(r, "replayed", claim.by) /\ Works
     \/ /\ claim # NoClaim /\ (~SamePayload(r) \/ claim.state = "processing")
        /\ Answers(r, "conflict", None) /\ Works
     \/ Slips("redis") /\ Runs(r, FALSE)
  /\ UNCHANGED <<claim, stored, charged>>

\* Complete: the response is stored for replays, over whatever claim is there.
Complete(r) ==
  /\ At(r, "complete")
  /\ \/ requests[r].holdsKey /\ claim' = [state |-> "done", by |-> r] /\ Works
     \/ ~requests[r].holdsKey /\ UNCHANGED claim /\ Works
     \/ requests[r].holdsKey /\ UNCHANGED claim /\ Slips("redis")
  /\ Answers(r, "created", r)
  /\ UNCHANGED <<stored, charged>>

\* Release: DEL, whoever holds the claim by now.
Release(r) ==
  /\ At(r, "release")
  /\ \/ requests[r].holdsKey /\ claim' = NoClaim /\ Works
     \/ ~requests[r].holdsKey /\ UNCHANGED claim /\ Works
     \/ requests[r].holdsKey /\ UNCHANGED claim /\ Slips("redis")
  /\ Answers(r, "error", None)
  /\ UNCHANGED <<stored, charged>>

\* A claim lives for processingTTL, a response for the service's TTL.
ClaimExpires ==
  /\ claim # NoClaim
  /\ \/ Over(claim.by) /\ Works
     \/ ~Over(claim.by) /\ Slips("slow")
  /\ claim' = NoClaim
  /\ UNCHANGED <<stored, charged, requests>>

-----------------------------------------------------------------------------
(* CreatePaymentHandler. *)

\* Variant: the lookup is left to the unique index.
LookupSkipped(r) ==
  /\ At(r, "lookup")
  /\ Goes(r, "charge") /\ Works
  /\ UNCHANGED <<claim, stored, charged>>

\* FindByReference: any payment there, or an error other than NOT_FOUND, ends it.
Lookup(r) ==
  /\ At(r, "lookup")
  /\ \/ stored = None /\ Goes(r, "charge") /\ Works
     \/ stored # None /\ Goes(r, "release") /\ Works
     \/ Fails(r, "db") /\ Goes(r, "release")
  /\ UNCHANGED <<claim, stored, charged>>

\* The charge call: an answer (with or without an open transaction: a decline is
\* an answer), an error after which the transaction may be open, or one after
\* which it is not.  A request the gateway finds invalid is not stored.
Charge(r) ==
  LET confirmed(yes) == requests' = [requests EXCEPT ![r].pc = "save", ![r].confirmed = yes] IN
  /\ At(r, "charge")
  /\ \/ /\ charged' \in {charged, charged \cup {r}}
        /\ \E yes \in BOOLEAN : confirmed(yes)
     \/ Goes(r, "release") /\ UNCHANGED charged
  /\ Works
  /\ UNCHANGED <<claim, stored>>

AfterSave(r) == Goes(r, IF requests[r].confirmed THEN "complete" ELSE "release")

\* Variant: ON CONFLICT DO NOTHING without looking at the number of rows.
SaveUnchecked(r) ==
  /\ At(r, "save")
  /\ stored' = IF stored = None THEN r ELSE stored
  /\ AfterSave(r) /\ Works
  /\ UNCHANGED <<claim, charged>>

\* Variant: a charge whose outcome is unknown is not stored.
SaveConfirmed(r) ==
  /\ At(r, "save")
  /\ \/ requests[r].confirmed /\ stored = None /\ stored' = r
     \/ (~requests[r].confirmed \/ stored # None) /\ UNCHANGED stored
  /\ AfterSave(r) /\ Works
  /\ UNCHANGED <<claim, charged>>

\* Save of the new payment: the unique index lets one insert through.  Only a
\* confirmed charge that was stored gets a 201.
Save(r) ==
  /\ At(r, "save")
  /\ \/ stored = None /\ stored' = r /\ AfterSave(r) /\ Works
     \/ stored # None /\ Goes(r, "release") /\ UNCHANGED stored /\ Works
     \/ Fails(r, "db") /\ Goes(r, "release") /\ stored' \in {stored, IF stored = None THEN r ELSE stored}
  /\ UNCHANGED <<claim, charged>>

\* The process dies; or the client disconnects, which cancels the request's
\* context, so that every later query and Redis call of the request fails.
Crash(r) ==
  /\ Fails(r, "crash")
  /\ ~At(r, "new") /\ ~Over(r)
  /\ Goes(r, "dead")
  /\ UNCHANGED <<claim, stored, charged>>

-----------------------------------------------------------------------------
Init ==
  /\ claim = NoClaim
  /\ stored = None
  /\ charged = {}
  /\ requests = [r \in Request |-> Arriving]
  /\ slips = {} /\ unsaved = {}

Step(r) ==
  \/ Begin(r) \/ Read(r) \/ Complete(r) \/ Release(r)
  \/ Lookup(r) \/ Charge(r) \/ Save(r) \/ Crash(r)

Next == (\E r \in Request : Step(r)) \/ ClaimExpires

Spec == Init /\ [][Next]_chargeVars

-----------------------------------------------------------------------------
(* Properties. *)

RequestState ==
  [pc: {"new", "read", "lookup", "charge", "save", "complete", "release", "done", "dead"},
   holdsKey: BOOLEAN, confirmed: BOOLEAN,
   answer: {"none", "created", "replayed", "conflict", "error"},
   payment: Request \cup {None}]

TypeOK ==
  /\ claim \in Claims \cup {NoClaim}
  /\ stored \in Request \cup {None}
  /\ charged \subseteq Request
  /\ requests \in [Request -> RequestState]
  /\ slips \subseteq {"redis", "slow"} /\ unsaved \subseteq Request

\* Every 201, first or replayed, names the payment that is stored for the
\* reference, and it was stored for a request with the same payload, whatever
\* fails and however the requests race.
CreatedMeansStored ==
  \A r \in Request :
    requests[r].answer \in {"created", "replayed"} =>
      /\ requests[r].payment = stored
      /\ stored # None /\ Payload[stored] = Payload[r]

\* However often a request is repeated, the customer is charged once.
OneCharge == Cardinality(charged) <= 1

\* As long as claims exclude (Redis answers and no request outlives its claim),
\* every charge but one is that of a request that was cut off or whose own Save
\* failed; nothing else charges the customer twice, however often the request is
\* repeated (the claim, and the lookup before the charge).
ChargedOnceUnlessFailed == slips = {} => Cardinality(charged \ unsaved) <= 1

\* A transaction the gateway opened leaves a stored payment for the reference
\* once its request is over, unless that very request was cut off or its Save
\* failed: whatever becomes of Redis, the claims and the other requests, no charge
\* ends with nothing on record.  As long as claims exclude, the stored payment is
\* that transaction's own.
ChargeOnRecord ==
  \A r \in charged \ unsaved : Over(r) => stored # None /\ (slips = {} => stored = r)

\* The claim a request deletes or completes is the one it set, although neither
\* Complete nor Release looks whose it is: Redis errors, lost replies, failed
\* Saves and dead requests do not change that, only a request that outlives its
\* claim does.
HolderOwnsClaim ==
  "slow" \notin slips => \A r \in Request : requests[r].holdsKey /\ ~Over(r) => claim = Claimed(r)
=============================================================================
