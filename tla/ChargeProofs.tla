----------------------------- MODULE ChargeProofs -----------------------------
(***************************************************************************)
(* Proofs about Charge, for any number of requests.  Whatever fails, a 201 *)
(* names the stored payment and no charge that could be saved is left with *)
(* nothing on record; and while claims exclude, every charge but one is of *)
(* a request that was cut off or could not save.                           *)
(***************************************************************************)
EXTENDS Charge, FiniteSetTheorems, TLAPS

-----------------------------------------------------------------------------
(* Types. *)

LEMMA TypeInit == Init => TypeOK
BY DEF Init, TypeOK, Arriving, RequestState

\* A response leaves its request well typed.
LEMMA AnswerTyped ==
  ASSUME requests \in [Request -> RequestState], NEW r \in Request,
         NEW answer \in {"created", "replayed", "conflict", "error"}, NEW payment \in Request \cup {None},
         Answers(r, answer, payment)
  PROVE  requests' \in [Request -> RequestState]
<1> DEFINE q == [requests[r] EXCEPT !.pc = "done", !.answer = answer, !.payment = payment]
<1>1. requests[r] \in RequestState
  OBVIOUS
<1>2. q \in RequestState
  BY <1>1 DEF RequestState
<1>3. requests' = [requests EXCEPT ![r] = q]
  BY DEF Answers
<1> QED
  BY <1>2, <1>3

LEMMA TypeStep == TypeOK /\ [Next]_chargeVars => TypeOK'
<1> SUFFICES ASSUME TypeOK, [Next]_chargeVars PROVE TypeOK'
  OBVIOUS
<1>0. slips' \subseteq {"redis", "slow"} /\ unsaved' \subseteq Request
  <2> USE DEF TypeOK, Works, Slips, Fails, faultVars
  <2>1. ASSUME NEW r \in Request, Step(r)
        PROVE  slips' \subseteq {"redis", "slow"} /\ unsaved' \subseteq Request
    BY <2>1 DEF Step, Begin, Read, Complete, Release, Lookup, Charge, Save, Crash
  <2> QED
    BY <2>1 DEF Next, ClaimExpires, chargeVars
<1> DEFINE Rest == /\ claim \in Claims \cup {NoClaim}
                   /\ stored \in Request \cup {None}
                   /\ charged \subseteq Request
                   /\ requests \in [Request -> RequestState]
<1> SUFFICES Rest'
  BY <1>0 DEF TypeOK
<1> USE DEF TypeOK, Claims, Claimed
<1>1. ASSUME NEW r \in Request, Begin(r) PROVE Rest'
  BY <1>1 DEF Begin, Goes, RequestState, Runs
<1>2. ASSUME NEW r \in Request, Read(r) PROVE Rest'
  <2>1. claim # NoClaim => claim.by \in Request
    OBVIOUS
  <2>2. requests' \in [Request -> RequestState]
    BY <1>2, <2>1, AnswerTyped DEF Read, Runs, RequestState
  <2> QED
    BY <1>2, <2>2 DEF Read
<1>3. ASSUME NEW r \in Request, Complete(r) PROVE Rest'
  <2>1. requests' \in [Request -> RequestState]
    BY <1>3, AnswerTyped DEF Complete
  <2> QED
    BY <1>3, <2>1 DEF Complete
<1>4. ASSUME NEW r \in Request, Release(r) PROVE Rest'
  <2>1. requests' \in [Request -> RequestState]
    BY <1>4, AnswerTyped DEF Release
  <2> QED
    BY <1>4, <2>1 DEF Release
<1>5. ASSUME NEW r \in Request, Lookup(r) PROVE Rest'
  BY <1>5 DEF Lookup, Goes, RequestState
<1>6. ASSUME NEW r \in Request, Charge(r) PROVE Rest'
  BY <1>6 DEF Charge, Goes, RequestState
<1>7. ASSUME NEW r \in Request, Save(r) PROVE Rest'
  BY <1>7 DEF Save, AfterSave, Goes, RequestState
<1>8. ASSUME NEW r \in Request, Crash(r) PROVE Rest'
  BY <1>8 DEF Crash, Goes, RequestState
<1>9. ASSUME ClaimExpires PROVE Rest'
  BY <1>9 DEF ClaimExpires
<1>10. ASSUME UNCHANGED chargeVars PROVE Rest'
  BY <1>10 DEF chargeVars
<1> QED
  BY <1>1, <1>2, <1>3, <1>4, <1>5, <1>6, <1>7, <1>8, <1>9, <1>10 DEF Next, Step

-----------------------------------------------------------------------------
(* What a 201 promises. *)

\* A request about to answer 201 has stored its payment, and so has the request
\* whose response the claim replays.
Backed ==
  /\ \A r \in Request : At(r, "complete") => stored = r
  /\ claim # NoClaim /\ claim.state = "done" => stored = claim.by

AnswerInv == TypeOK /\ Backed /\ CreatedMeansStored

\* Once a payment is stored, no step replaces it.
LEMMA StoredOnce ==
  ASSUME TypeOK, [Next]_chargeVars, stored # None
  PROVE  stored' = stored
<1>1. ASSUME NEW r \in Request, Step(r) PROVE stored' = stored
  BY <1>1 DEF Step, Begin, Read, Complete, Release, Lookup, Charge, Save, Crash
<1> QED
  BY <1>1 DEF Next, ClaimExpires, chargeVars

LEMMA AnswerStep == AnswerInv /\ [Next]_chargeVars => AnswerInv'
<1> SUFFICES ASSUME AnswerInv, [Next]_chargeVars PROVE AnswerInv'
  OBVIOUS
<1>1. TypeOK'
  BY TypeStep DEF AnswerInv
<1>2. stored # None => stored' = stored
  BY StoredOnce DEF AnswerInv
<1> USE DEF AnswerInv, TypeOK, RequestState, Claims, At, Goes, Answers, Runs
<1>3. Backed'
  <2>1. ASSUME NEW r \in Request, Begin(r) PROVE Backed'
    BY <2>1 DEF Begin, Backed, Claimed
  <2>2. ASSUME NEW r \in Request, Read(r) PROVE Backed'
    BY <2>2 DEF Read, Backed
  <2>3. ASSUME NEW r \in Request, Complete(r) PROVE Backed'
    BY <2>3 DEF Complete, Backed
  <2>4. ASSUME NEW r \in Request, Release(r) PROVE Backed'
    BY <2>4 DEF Release, Backed
  <2>5. ASSUME NEW r \in Request, Lookup(r) PROVE Backed'
    BY <2>5 DEF Lookup, Backed
  <2>6. ASSUME NEW r \in Request, Charge(r) PROVE Backed'
    BY <2>6 DEF Charge, Backed
  <2>7. ASSUME NEW r \in Request, Save(r) PROVE Backed'
    BY <1>2, <2>7, NoneAssumption DEF Save, AfterSave, Backed
  <2>8. ASSUME NEW r \in Request, Crash(r) PROVE Backed'
    BY <2>8 DEF Crash, Backed
  <2>9. ASSUME ClaimExpires PROVE Backed'
    BY <2>9 DEF ClaimExpires, Backed
  <2>10. ASSUME UNCHANGED chargeVars PROVE Backed'
    BY <2>10 DEF chargeVars, Backed
  <2> QED
    BY <2>1, <2>2, <2>3, <2>4, <2>5, <2>6, <2>7, <2>8, <2>9, <2>10 DEF Next, Step
<1>4. CreatedMeansStored'
  <2>1. ASSUME NEW r \in Request, Read(r) PROVE CreatedMeansStored'
    BY <2>1, NoneAssumption DEF Read, Backed, SamePayload, CreatedMeansStored
  <2>2. ASSUME NEW r \in Request, Complete(r) PROVE CreatedMeansStored'
    BY <2>2, NoneAssumption DEF Complete, Backed, CreatedMeansStored
  <2>3. ASSUME NEW r \in Request,
               Begin(r) \/ Release(r) \/ Lookup(r) \/ Charge(r) \/ Save(r) \/ Crash(r)
        PROVE  CreatedMeansStored'
    <3>1. \A s \in Request :
            requests'[s].answer \in {"created", "replayed"} =>
              /\ requests[s].answer = requests'[s].answer
              /\ requests[s].payment = requests'[s].payment
      BY <2>3 DEF Begin, Release, Lookup, Charge, Save, AfterSave, Crash
    <3> QED
      BY <1>2, <3>1 DEF CreatedMeansStored
  <2>4. ASSUME ClaimExpires \/ UNCHANGED chargeVars PROVE CreatedMeansStored'
    BY <2>4 DEF ClaimExpires, chargeVars, CreatedMeansStored
  <2> QED
    BY <2>1, <2>2, <2>3, <2>4 DEF Next, Step
<1> QED
  BY <1>1, <1>3, <1>4

\* Whatever fails (Redis, PostgreSQL, a request cut off, a claim outlived), a 201
\* names the payment stored for the reference, opened with the same payload.
THEOREM CreatedIsStored == Spec => []CreatedMeansStored
<1>1. Init => AnswerInv
  BY TypeInit DEF Init, AnswerInv, Backed, CreatedMeansStored, Arriving, At
<1>2. AnswerInv => CreatedMeansStored
  BY DEF AnswerInv
<1> QED
  BY <1>1, <1>2, AnswerStep, PTL DEF Spec

-----------------------------------------------------------------------------
(* The claim is a lock from SETNX to the reply, unless it expires before.  *)

ClaimInv == TypeOK /\ HolderOwnsClaim

LEMMA ClaimedIsAClaim == ASSUME NEW r \in Request PROVE Claimed(r) # NoClaim
BY NoClaimAssumption DEF Claimed

\* What has gone wrong stays in the history.
LEMMA FaultsStay ==
  ASSUME [Next]_chargeVars PROVE slips \subseteq slips' /\ unsaved \subseteq unsaved'
<1>1. ASSUME NEW r \in Request, Step(r) PROVE slips \subseteq slips' /\ unsaved \subseteq unsaved'
  BY <1>1 DEF Step, Begin, Read, Complete, Release, Lookup, Charge, Save, Crash, Works, Slips, Fails, faultVars
<1> QED
  BY <1>1 DEF Next, ClaimExpires, chargeVars, Works, Slips, faultVars

LEMMA ClaimStep == ClaimInv /\ [Next]_chargeVars => ClaimInv'
<1> SUFFICES ASSUME ClaimInv, [Next]_chargeVars PROVE ClaimInv'
  OBVIOUS
<1>1. TypeOK'
  BY TypeStep DEF ClaimInv
<1> DEFINE Owns(r) == requests[r].holdsKey /\ ~Over(r) => claim = Claimed(r)
<1> SUFFICES ASSUME "slow" \notin slips', NEW s \in Request PROVE Owns(s)'
  BY <1>1 DEF ClaimInv, HolderOwnsClaim
<1>2. \A r \in Request : Owns(r)
  BY FaultsStay DEF ClaimInv, HolderOwnsClaim
<1>3. \A r \in Request \ {s} : Claimed(r) # Claimed(s)
  BY DEF Claimed
<1> USE DEF ClaimInv, TypeOK, RequestState, At, Goes, Answers, Runs, Over
<1>4. ASSUME NEW r \in Request, Begin(r) PROVE Owns(s)'
  BY <1>2, <1>4, ClaimedIsAClaim DEF Begin
<1>5. ASSUME NEW r \in Request, Complete(r) \/ Release(r) PROVE Owns(s)'
  BY <1>2, <1>3, <1>5 DEF Complete, Release
<1>6. ASSUME NEW r \in Request, Read(r) \/ Lookup(r) \/ Charge(r) \/ Save(r) \/ Crash(r) PROVE Owns(s)'
  <2>1. claim' = claim
    BY <1>6 DEF Read, Lookup, Charge, Save, Crash
  <2>2. requests'[s].holdsKey /\ ~Over(s)' => requests[s].holdsKey /\ ~Over(s)
    BY <1>6 DEF Read, Lookup, Charge, Save, AfterSave, Crash
  <2> QED
    BY <1>2, <2>1, <2>2 DEF Claimed
<1>7. ASSUME ClaimExpires PROVE Owns(s)'
  <2>1. Over(claim.by)
    BY <1>7 DEF ClaimExpires, Slips
  <2>2. ~(requests[s].holdsKey /\ ~Over(s))
    BY <1>2, <2>1 DEF Claimed
  <2> QED
    BY <1>7, <2>2 DEF ClaimExpires
<1>8. ASSUME UNCHANGED chargeVars PROVE Owns(s)'
  BY <1>2, <1>8 DEF chargeVars, Claimed
<1> QED
  BY <1>4, <1>5, <1>6, <1>7, <1>8 DEF Next, Step

LEMMA ClaimHolds == Spec => []ClaimInv
<1>1. Init => ClaimInv
  BY TypeInit DEF Init, ClaimInv, HolderOwnsClaim, Arriving
<1> QED
  BY <1>1, ClaimStep, PTL DEF Spec

-----------------------------------------------------------------------------
(* Where each charge has gone. *)

\* Past Begin and not answered yet.
Working(r) == requests[r].pc \in {"lookup", "charge", "save", "complete", "release"}

\* A transaction is about to be saved, has its request on the list of those a
\* fault stopped, or leaves a payment for the reference.
Accounted == \A s \in charged \ unsaved : At(s, "save") \/ stored # None

\* While claims exclude, whoever is at work holds the claim, nobody charges or
\* saves beside a stored payment, and the stored payment is the transaction's own.
Exclusive ==
  /\ \A r \in Request : Working(r) => requests[r].holdsKey
  /\ \A r \in Request : At(r, "charge") \/ At(r, "save") => stored = None
  /\ \A s \in charged \ unsaved : At(s, "save") \/ s = stored

ChargeInv == ClaimInv /\ Accounted /\ (slips = {} => Exclusive)

LEMMA OnlyOneWorks ==
  ASSUME ChargeInv, slips = {}, NEW r \in Request, NEW s \in Request, Working(r), Working(s)
  PROVE  r = s
<1>1. claim = Claimed(r) /\ claim = Claimed(s)
  BY DEF ChargeInv, ClaimInv, HolderOwnsClaim, Exclusive, Working, Over
<1> QED
  BY <1>1 DEF Claimed

LEMMA AccountedStep == ChargeInv /\ [Next]_chargeVars => Accounted'
<1> SUFFICES ASSUME ChargeInv, [Next]_chargeVars, NEW s \in charged' \ unsaved'
             PROVE  (At(s, "save") \/ stored # None)'
  BY DEF Accounted
<1> USE DEF ChargeInv, ClaimInv, TypeOK, RequestState, At, Goes
<1>1. stored # None => stored' # None
  BY StoredOnce
<1>2. s \in charged => At(s, "save") \/ stored # None
  BY FaultsStay DEF Accounted
<1>3. ASSUME NEW r \in Request, Begin(r) \/ Read(r) \/ Complete(r) \/ Release(r) \/ Lookup(r)
      PROVE  (At(s, "save") \/ stored # None)'
  BY <1>1, <1>2, <1>3 DEF Begin, Read, Complete, Release, Lookup, Runs, Answers
<1>4. ASSUME NEW r \in Request, Charge(r) PROVE (At(s, "save") \/ stored # None)'
  BY <1>1, <1>2, <1>4 DEF Charge
<1>5. ASSUME NEW r \in Request, Save(r) PROVE (At(s, "save") \/ stored # None)'
  <2>1. r # s \/ stored' # None
    BY <1>5, NoneAssumption DEF Save, Fails
  <2> QED
    BY <1>1, <1>2, <1>5, <2>1 DEF Save, AfterSave
<1>6. ASSUME NEW r \in Request, Crash(r) PROVE (At(s, "save") \/ stored # None)'
  BY <1>1, <1>2, <1>6 DEF Crash, Fails
<1>7. ASSUME ClaimExpires \/ UNCHANGED chargeVars PROVE (At(s, "save") \/ stored # None)'
  BY <1>2, <1>7 DEF ClaimExpires, chargeVars
<1> QED
  BY <1>3, <1>4, <1>5, <1>6, <1>7 DEF Next, Step

LEMMA ExclusiveStep ==
  ASSUME ChargeInv, [Next]_chargeVars, slips' = {}
  PROVE  Exclusive'
<1>1. slips = {} /\ unsaved \subseteq unsaved' /\ Exclusive
  BY FaultsStay DEF ChargeInv
<1> USE <1>1 DEF ChargeInv, ClaimInv, TypeOK, RequestState, At, Goes, Answers, Runs, Working, Slips
<1>2. ASSUME NEW r \in Request, Begin(r) \/ Read(r) PROVE Exclusive'
  BY <1>2 DEF Begin, Read, Exclusive
<1>3. ASSUME NEW r \in Request, Complete(r) \/ Release(r) PROVE Exclusive'
  BY <1>3 DEF Complete, Release, Exclusive
<1>4. ASSUME NEW r \in Request, Lookup(r) PROVE Exclusive'
  BY <1>4 DEF Lookup, Exclusive
<1>5. ASSUME NEW r \in Request, Charge(r) PROVE Exclusive'
  BY <1>5 DEF Charge, Exclusive
<1>6. ASSUME NEW r \in Request, Save(r) PROVE Exclusive'
  <2>1. \A s \in Request \ {r} : ~At(s, "charge") /\ ~At(s, "save")
    BY <1>6, OnlyOneWorks DEF Save
  <2>2. stored = None
    BY <1>6 DEF Save, Exclusive
  <2>3. \A s \in charged \ unsaved : s = r
    BY <2>1, <2>2, NoneAssumption DEF Exclusive
  <2>4. stored' = r \/ r \in unsaved'
    BY <1>6, <2>2 DEF Save, Fails
  <2>5. requests'[r].pc \in {"complete", "release"} /\ requests'[r].holdsKey = requests[r].holdsKey
    BY <1>6 DEF Save, AfterSave
  <2>6. \A s \in Request \ {r} : requests'[s] = requests[s]
    BY <1>6 DEF Save, AfterSave
  <2>7. charged' = charged
    BY <1>6 DEF Save
  <2> QED
    BY <1>6, <2>1, <2>3, <2>4, <2>5, <2>6, <2>7 DEF Exclusive, Save
<1>7. ASSUME NEW r \in Request, Crash(r) PROVE Exclusive'
  BY <1>7 DEF Crash, Fails, Exclusive
<1>8. ASSUME ClaimExpires \/ UNCHANGED chargeVars PROVE Exclusive'
  BY <1>8 DEF ClaimExpires, chargeVars, faultVars, Exclusive
<1> QED
  BY <1>2, <1>3, <1>4, <1>5, <1>6, <1>7, <1>8 DEF Next, Step

LEMMA ChargeHolds == Spec => []ChargeInv
<1>1. Init => ChargeInv
  BY TypeInit DEF Init, ChargeInv, ClaimInv, HolderOwnsClaim, Accounted, Exclusive, Arriving, At, Working
<1>2. ChargeInv /\ [Next]_chargeVars => ChargeInv'
  BY ClaimStep, AccountedStep, ExclusiveStep DEF ChargeInv
<1> QED
  BY <1>1, <1>2, PTL DEF Spec

LEMMA ChargeInvSuffices == ChargeInv => ChargedOnceUnlessFailed /\ ChargeOnRecord
<1> SUFFICES ASSUME ChargeInv PROVE ChargedOnceUnlessFailed /\ ChargeOnRecord
  OBVIOUS
<1>1. ASSUME slips = {} PROVE Cardinality(charged \ unsaved) <= 1
  <2>1. \A r, s \in charged \ unsaved : r = s
    BY <1>1, OnlyOneWorks, NoneAssumption DEF ChargeInv, ClaimInv, TypeOK, Exclusive, At, Working
  <2>2. CASE charged \ unsaved = {}
    BY <2>2, FS_EmptySet
  <2>3. CASE charged \ unsaved # {}
    <3>1. PICK r \in charged \ unsaved : charged \ unsaved = {r}
      BY <2>1, <2>3
    <3> QED
      BY <3>1, FS_Singleton
  <2> QED
    BY <2>2, <2>3
<1>2. ChargeOnRecord
  BY DEF ChargeInv, ClaimInv, TypeOK, Accounted, Exclusive, ChargeOnRecord, Over, At
<1> QED
  BY <1>1, <1>2 DEF ChargedOnceUnlessFailed

\* What the claim, the row and the requests hold stays what Create, Claim, Complete
\* and Release can put there: no claim and no stored payment without its request.
THEOREM RequestsTyped == Spec => []TypeOK
BY TypeInit, TypeStep, PTL DEF Spec

\* While Redis answers and no request outlives its claim, every charge but one is
\* that of a request that was cut off or could not save, however often the request
\* is repeated: the claim lets one request at a time reach the gateway, and the
\* next one's lookup finds what that one stored (Create, Idempotency.Claim).
THEOREM ChargedOnce == Spec => []ChargedOnceUnlessFailed
BY ChargeHolds, ChargeInvSuffices, PTL

\* Whatever fails elsewhere, a transaction whose request was not cut off and could
\* save leaves a stored payment for the reference once the request is over, and
\* while claims exclude that payment is its own (Create saves after every charge
\* that may be taken, and Save refuses only what the unique index holds already).
THEOREM ChargesAreRecorded == Spec => []ChargeOnRecord
BY ChargeHolds, ChargeInvSuffices, PTL

\* Whatever fails short of a request outliving its claim, the claim a request
\* completes or deletes is its own, although neither Complete nor Release looks
\* whose it is.
THEOREM ClaimsAreOwn == Spec => []HolderOwnsClaim
BY ClaimHolds, PTL DEF ClaimInv
=============================================================================
