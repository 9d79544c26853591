----------------------------- MODULE OutboxProofs -----------------------------
(***************************************************************************)
(* The outbox, for every set of rows and of workers, every batch size and  *)
(* every number of retries and of faults.                                  *)
(*                                                                         *)
(* The inductive invariant says who may still touch a row: a batch whose   *)
(* session lives has its rows to itself, and they are PENDING for everybody*)
(* else (Exclusive).  On top of it three accounts are kept per row: copies *)
(* the broker has or may still get against setbacks (Copies), marks against*)
(* copies (Delivered), and retries against failed publishes (Tries).       *)
(***************************************************************************)
EXTENDS Outbox, FiniteSetTheorems, TLAPS

Batch == [todo: SUBSET Row, published: SUBSET Row, failed: SUBSET Row, connected: BOOLEAN]

TypeOK ==
  /\ rows \in [Row -> [status: RowStatus, retries: 0..(GiveUpAfter + 1)]]
  /\ due \subseteq Row
  /\ batches \in [Worker -> Batch]
  /\ messages \in [Row -> Nat] /\ failures \in [Row -> Nat] /\ setbacks \in [Row -> Nat]

\* A row is at one point of its batch; only a batch with rows is cut off.
Sorted(b) ==
  /\ b.todo \cap b.published = {} /\ b.todo \cap b.failed = {} /\ b.published \cap b.failed = {}
  /\ Members(b) = {} => b.connected

\* The rows locked by one worker are PENDING, and no other worker has them.
Exclusive ==
  \A w \in Worker :
    /\ Sorted(batches[w])
    /\ batches[w].connected =>
         \A r \in Members(batches[w]) :
           /\ rows[r].status = "PENDING"
           /\ \A v \in Worker \ {w} : batches[v].connected => r \notin Members(batches[v])

\* Workers cut off before r's turn: each may still publish it once.
Lost(r) == {w \in Worker : ~batches[w].connected /\ r \in batches[w].todo}

\* r is marked published, in the database or by a worker that holds it.
IsMarked(r) ==
  \/ rows[r].status = "PUBLISHED"
  \/ \E w \in Worker : batches[w].connected /\ r \in batches[w].published

\* Every copy there is or may still come, but the one that counts, is a setback.
Copies ==
  \A r \in Row :
    /\ IsFiniteSet(Lost(r))
    /\ messages[r] + Cardinality(Lost(r)) <= setbacks[r] + (IF IsMarked(r) THEN 1 ELSE 0)

\* What is marked published was taken.
Delivered == \A r \in Row : IsMarked(r) => messages[r] > 0

\* A retry counted, or about to be, is a failure that happened.
Tries ==
  \A r \in Row :
    /\ rows[r].retries <= failures[r]
    /\ rows[r].status = "FAILED" <=> rows[r].retries = GiveUpAfter + 1
    /\ \A w \in Worker : batches[w].connected /\ r \in batches[w].failed => rows[r].retries + 1 <= failures[r]

OutboxInv == TypeOK /\ Exclusive /\ Copies /\ Delivered /\ Tries

-----------------------------------------------------------------------------
(* What the actions do to the batches. *)

\* Marking moves a row within its batch.
LEMMA MarkedFacts ==
  ASSUME TypeOK, NEW w \in Worker, NEW r \in batches[w].todo, NEW mark \in {"published", "failed"},
         Marked(w, r, mark)
  PROVE  /\ batches' \in [Worker -> Batch]
         /\ batches'[w].todo = batches[w].todo \ {r}
         /\ batches'[w].published = batches[w].published \cup (IF mark = "published" THEN {r} ELSE {})
         /\ batches'[w].failed = batches[w].failed \cup (IF mark = "failed" THEN {r} ELSE {})
         /\ batches'[w].connected = batches[w].connected
         /\ \A v \in Worker \ {w} : batches'[v] = batches[v]
<1> DEFINE b == batches[w]
           c == IF mark = "published" THEN [b EXCEPT !.todo = @ \ {r}, !.published = @ \cup {r}]
                                      ELSE [b EXCEPT !.todo = @ \ {r}, !.failed = @ \cup {r}]
<1>1. b \in Batch /\ r \in Row
  BY DEF TypeOK, Batch
<1>2. batches' = [batches EXCEPT ![w] = c]
  BY DEF Marked, TypeOK, Batch
<1>3. /\ c \in Batch
      /\ c.todo = b.todo \ {r} /\ c.connected = b.connected
      /\ c.published = b.published \cup (IF mark = "published" THEN {r} ELSE {})
      /\ c.failed = b.failed \cup (IF mark = "failed" THEN {r} ELSE {})
  <2> HIDE DEF b
  <2>1. CASE mark = "published"
    BY <1>1, <2>1 DEF Batch
  <2>2. CASE mark = "failed"
    BY <1>1, <2>2 DEF Batch
  <2> QED
    BY <2>1, <2>2
<1> HIDE DEF c
<1>4. batches' \in [Worker -> Batch] /\ batches'[w] = c /\ \A v \in Worker \ {w} : batches'[v] = batches[v]
  BY <1>2, <1>3 DEF TypeOK
<1> QED
  BY <1>3, <1>4

\* Every other step leaves each batch alone but one, which is closed, filled or cut off.
LEMMA ClosedFacts ==
  ASSUME TypeOK, NEW w \in Worker, Close(w)
  PROVE  /\ batches' \in [Worker -> Batch]
         /\ batches'[w] = Closed
         /\ \A v \in Worker \ {w} : batches'[v] = batches[v]
BY DEF TypeOK, Batch, Close, Closed

LEMMA ClaimFacts ==
  ASSUME TypeOK, NEW w \in Worker, Claim(w)
  PROVE  /\ batches' \in [Worker -> Batch]
         /\ batches'[w].todo \subseteq Claimable
         /\ batches'[w].published = batches[w].published /\ batches'[w].failed = batches[w].failed
         /\ batches'[w].connected = batches[w].connected
         /\ \A v \in Worker \ {w} : batches'[v] = batches[v]
BY DEF TypeOK, Batch, Claim, Claimable, Oldest

LEMMA LostFacts ==
  ASSUME TypeOK, NEW w \in Worker, LoseConnection(w)
  PROVE  /\ batches' \in [Worker -> Batch]
         /\ batches'[w].todo = batches[w].todo
         /\ batches'[w].published = batches[w].published /\ batches'[w].failed = batches[w].failed
         /\ ~batches'[w].connected
         /\ \A v \in Worker \ {w} : batches'[v] = batches[v]
BY DEF TypeOK, Batch, LoseConnection

-----------------------------------------------------------------------------
(* The account of copies. *)

\* Who may still publish r changes only with the worker that moves.
LEMMA LostElsewhere ==
  ASSUME NEW w \in Worker, NEW r, \A v \in Worker \ {w} : batches'[v] = batches[v]
  PROVE  /\ r \in batches'[w].todo /\ ~batches'[w].connected => Lost(r)' = Lost(r) \cup {w}
         /\ ~(r \in batches'[w].todo /\ ~batches'[w].connected) => Lost(r)' = Lost(r) \ {w}
BY DEF Lost

\* A worker cut off, or known again, is one more or one less of them.
LEMMA LostCounts ==
  ASSUME NEW w, NEW r, IsFiniteSet(Lost(r))
  PROVE  /\ Cardinality(Lost(r)) \in Nat
         /\ IsFiniteSet(Lost(r) \cup {w})
         /\ Cardinality(Lost(r) \cup {w}) <= Cardinality(Lost(r)) + 1
         /\ IsFiniteSet(Lost(r) \ {w})
         /\ Cardinality(Lost(r) \ {w}) = IF w \in Lost(r) THEN Cardinality(Lost(r)) - 1 ELSE Cardinality(Lost(r))
BY FS_CardinalityType, FS_AddElement, FS_RemoveElement

-----------------------------------------------------------------------------
(* Each action keeps the invariant. *)

LEMMA WriteKeeps ==
  ASSUME OutboxInv, NEW r \in Row, Write(r)
  PROVE  OutboxInv'
<1>1. TypeOK'
  BY DEF OutboxInv, TypeOK, Write, RowStatus
<1>2. /\ rows[r].status = "ABSENT" /\ UNCHANGED <<batches, messages, failures, setbacks>>
      /\ \A s \in Row : rows'[s].status = (IF s = r THEN "PENDING" ELSE rows[s].status)
      /\ \A s \in Row : rows'[s].retries = rows[s].retries
  BY DEF OutboxInv, TypeOK, Write
<1>3. \A w \in Worker : batches[w].connected => r \notin Members(batches[w])
  BY <1>2 DEF OutboxInv, Exclusive
<1>4. Exclusive'
  BY <1>2, <1>3 DEF OutboxInv, TypeOK, Batch, Exclusive, Sorted, Members
<1>5. \A s \in Row : Lost(s)' = Lost(s) /\ (IsMarked(s)' <=> IsMarked(s))
  BY <1>2, <1>3 DEF Lost, IsMarked, Members
<1>6. Copies' /\ Delivered'
  BY <1>2, <1>5 DEF OutboxInv, Copies, Delivered
<1>7. Tries'
  BY <1>2, LimitAssumption DEF OutboxInv, TypeOK, Tries
<1> QED
  BY <1>1, <1>4, <1>6, <1>7 DEF OutboxInv

LEMMA BackoffEndsKeeps ==
  ASSUME OutboxInv, NEW r \in Row, BackoffEnds(r)
  PROVE  OutboxInv'
<1>1. TypeOK' /\ UNCHANGED <<rows, batches, messages, failures, setbacks>>
  BY DEF OutboxInv, TypeOK, BackoffEnds
<1> QED
  BY <1>1 DEF OutboxInv, Exclusive, Copies, Delivered, Tries, Lost, IsMarked

LEMMA ClaimKeeps ==
  ASSUME OutboxInv, NEW w \in Worker, Claim(w)
  PROVE  OutboxInv'
<1>1. /\ UNCHANGED <<rows, due, messages, failures, setbacks>>
      /\ batches[w].todo = {} /\ batches[w].published = {} /\ batches[w].failed = {} /\ batches[w].connected
  BY DEF OutboxInv, Exclusive, Sorted, Claim, IsOpen, Members
<1>2. /\ batches' \in [Worker -> Batch]
      /\ batches'[w].todo \subseteq Claimable
      /\ batches'[w].published = {} /\ batches'[w].failed = {} /\ batches'[w].connected
      /\ \A v \in Worker \ {w} : batches'[v] = batches[v]
  BY <1>1, ClaimFacts DEF OutboxInv
<1>3. TypeOK'
  BY <1>1, <1>2 DEF OutboxInv, TypeOK
<1>4. Exclusive'
  <2>1. \A r \in Members(batches'[w]) :
          /\ rows[r].status = "PENDING"
          /\ \A v \in Worker \ {w} : batches[v].connected => r \notin Members(batches[v])
    BY <1>2 DEF Members, Claimable, Locked
  <2>2. Sorted(batches'[w])
    BY <1>2 DEF Sorted
  <2>3. ASSUME NEW v \in Worker \ {w}, batches[v].connected, NEW r \in Members(batches[v])
        PROVE  rows[r].status = "PENDING" /\ r \notin Members(batches'[w])
    BY <2>1, <2>3 DEF OutboxInv, Exclusive
  <2>4. ASSUME NEW v \in Worker, batches'[v].connected, NEW r \in Members(batches'[v])
        PROVE  rows[r].status = "PENDING" /\ \A u \in Worker \ {v} : batches'[u].connected => r \notin Members(batches'[u])
    <3>1. CASE v = w
      BY <1>2, <2>1, <2>4, <3>1
    <3>2. CASE v # w
      BY <1>2, <2>3, <2>4, <3>2 DEF OutboxInv, Exclusive
    <3> QED
      BY <3>1, <3>2
  <2>5. \A v \in Worker : Sorted(batches'[v])
    BY <1>2, <2>2 DEF OutboxInv, Exclusive
  <2> QED
    BY <1>1, <2>4, <2>5 DEF Exclusive
<1>5. \A r \in Row : Lost(r)' = Lost(r) /\ (IsMarked(r)' <=> IsMarked(r))
  <2>1. \A r \in Row : w \notin Lost(r)
    BY <1>1 DEF Lost
  <2>2. ASSUME NEW r \in Row PROVE Lost(r)' = Lost(r)
    <3>1. Lost(r)' = Lost(r) \ {w}
      BY <1>2, LostElsewhere
    <3> QED
      BY <2>1, <3>1
  <2> QED
    BY <1>1, <1>2, <2>2 DEF IsMarked
<1>6. Copies' /\ Delivered'
  BY <1>1, <1>5 DEF OutboxInv, Copies, Delivered
<1>7. Tries'
  BY <1>1, <1>2 DEF OutboxInv, Tries
<1> QED
  BY <1>3, <1>4, <1>6, <1>7 DEF OutboxInv

\* Marking leaves the rows with the worker that has them.
LEMMA MarkedStays ==
  ASSUME OutboxInv, NEW w \in Worker, NEW r \in batches[w].todo, NEW mark \in {"published", "failed"},
         batches[w].connected, Marked(w, r, mark), UNCHANGED rows
  PROVE  Exclusive' /\ \A s \in Row : Lost(s)' = Lost(s)
<1>1. /\ batches'[w].todo = batches[w].todo \ {r}
      /\ batches'[w].published = batches[w].published \cup (IF mark = "published" THEN {r} ELSE {})
      /\ batches'[w].failed = batches[w].failed \cup (IF mark = "failed" THEN {r} ELSE {})
      /\ batches'[w].connected
      /\ \A v \in Worker \ {w} : batches'[v] = batches[v]
  BY MarkedFacts DEF OutboxInv
<1>2. \A v \in Worker : Members(batches'[v]) = Members(batches[v]) /\ (batches'[v].connected <=> batches[v].connected)
  <2>1. Members(batches'[w]) = Members(batches[w])
    BY <1>1 DEF Members
  <2> QED
    BY <1>1, <2>1
<1>3. Sorted(batches'[w])
  BY <1>1 DEF OutboxInv, Exclusive, Sorted
<1>4. Exclusive'
  <2>1. \A v \in Worker : Sorted(batches'[v])
    BY <1>1, <1>3 DEF OutboxInv, Exclusive
  <2>2. ASSUME NEW v \in Worker, batches'[v].connected, NEW s \in Members(batches'[v])
        PROVE  rows[s].status = "PENDING" /\ \A u \in Worker \ {v} : batches'[u].connected => s \notin Members(batches'[u])
    BY <1>2, <2>2 DEF OutboxInv, Exclusive
  <2> QED
    BY <2>1, <2>2 DEF Exclusive
<1>5. ASSUME NEW s \in Row PROVE Lost(s)' = Lost(s)
  <2>1. w \notin Lost(s)
    BY DEF Lost
  <2>2. Lost(s)' = Lost(s) \ {w}
    BY <1>1, LostElsewhere
  <2> QED
    BY <2>1, <2>2
<1> QED
  BY <1>4, <1>5

\* A row being published is nobody else's and marked by nobody.
LEMMA TodoUnmarked ==
  ASSUME OutboxInv, NEW w \in Worker, NEW r \in batches[w].todo, batches[w].connected
  PROVE  r \in Row /\ ~IsMarked(r) /\ rows[r].status = "PENDING"
<1>1. r \in Row /\ r \in Members(batches[w])
  BY DEF OutboxInv, TypeOK, Batch, Members
<1>2. rows[r].status = "PENDING" /\ r \notin batches[w].published
  BY <1>1 DEF OutboxInv, Exclusive, Sorted
<1>3. \A v \in Worker \ {w} : batches[v].connected => r \notin batches[v].published
  BY <1>1 DEF OutboxInv, Exclusive, Members
<1> QED
  BY <1>1, <1>2, <1>3 DEF IsMarked

LEMMA PublishKeeps ==
  ASSUME OutboxInv, NEW w \in Worker, Publish(w)
  PROVE  OutboxInv'
<1>1. PICK r \in Row :
        /\ Current(w, r) /\ batches[w].connected
        /\ \/ Taken(r) /\ Marked(w, r, "published") /\ UNCHANGED <<failures, setbacks>>
           \/ Failed(r) /\ Marked(w, r, "failed") /\ UNCHANGED <<messages, setbacks>>
           \/ Taken(r) /\ Failed(r) /\ Marked(w, r, "failed") /\ SetBack({r})
  BY DEF Publish
<1>2. /\ UNCHANGED <<rows, due>> /\ r \in batches[w].todo /\ TypeOK
      /\ messages \in [Row -> Nat] /\ failures \in [Row -> Nat] /\ setbacks \in [Row -> Nat]
  BY <1>1 DEF Publish, Current, OutboxInv, TypeOK
<1>3. ~IsMarked(r) /\ rows[r].status = "PENDING"
  BY <1>1, <1>2, TodoUnmarked
<1>4. \A s \in Row : IsFiniteSet(Lost(s)) /\ Cardinality(Lost(s)) \in Nat
  BY LostCounts DEF OutboxInv, Copies
<1>5. CASE Taken(r) /\ Marked(w, r, "published") /\ UNCHANGED <<failures, setbacks>>
  <2>1. /\ batches' \in [Worker -> Batch]
        /\ batches'[w].published = batches[w].published \cup {r} /\ batches'[w].failed = batches[w].failed
        /\ batches'[w].connected
        /\ \A v \in Worker \ {w} : batches'[v] = batches[v]
    BY <1>1, <1>2, <1>5, MarkedFacts
  <2>2. Exclusive' /\ \A s \in Row : Lost(s)' = Lost(s)
    BY <1>1, <1>2, <1>5, MarkedStays
  <2>3. messages' \in [Row -> Nat] /\ \A s \in Row : messages'[s] = IF s = r THEN messages[s] + 1 ELSE messages[s]
    BY <1>2, <1>5 DEF Taken
  <2>4. \A s \in Row : IsMarked(s)' <=> (s = r \/ IsMarked(s))
    BY <1>1, <1>2, <2>1 DEF IsMarked
  <2>5. Copies'
    BY <1>2, <1>3, <1>4, <1>5, <2>2, <2>3, <2>4 DEF OutboxInv, Copies
  <2>6. Delivered'
    BY <1>2, <2>3, <2>4 DEF OutboxInv, Delivered
  <2>7. Tries'
    BY <1>1, <1>2, <1>5, <2>1 DEF OutboxInv, Tries
  <2> QED
    BY <1>2, <1>5, <2>1, <2>2, <2>3, <2>5, <2>6, <2>7 DEF OutboxInv, TypeOK
<1>6. ASSUME Failed(r), Marked(w, r, "failed"),
             UNCHANGED <<messages, setbacks>> \/ (Taken(r) /\ SetBack({r}))
      PROVE  OutboxInv'
  <2>1. /\ batches' \in [Worker -> Batch]
        /\ batches'[w].published = batches[w].published /\ batches'[w].failed = batches[w].failed \cup {r}
        /\ batches'[w].connected
        /\ \A v \in Worker \ {w} : batches'[v] = batches[v]
    BY <1>1, <1>2, <1>6, MarkedFacts
  <2>2. Exclusive' /\ \A s \in Row : Lost(s)' = Lost(s)
    BY <1>1, <1>2, <1>6, MarkedStays
  <2>3. /\ messages' \in [Row -> Nat] /\ setbacks' \in [Row -> Nat]
        /\ \A s \in Row : messages'[s] >= messages[s] /\ messages'[s] - messages[s] <= setbacks'[s] - setbacks[s]
    BY <1>2, <1>6 DEF Taken, SetBack
  <2>4. failures' \in [Row -> Nat] /\ \A s \in Row : failures'[s] = IF s = r THEN failures[s] + 1 ELSE failures[s]
    BY <1>2, <1>6 DEF Failed
  <2>5. \A s \in Row : IsMarked(s)' <=> IsMarked(s)
    BY <1>1, <1>2, <2>1 DEF IsMarked
  <2>6. Copies'
    BY <1>2, <1>4, <2>2, <2>3, <2>5 DEF OutboxInv, Copies
  <2>7. Delivered'
    BY <1>2, <2>3, <2>5 DEF OutboxInv, Delivered
  <2>8. Tries'
    <3>1. rows \in [Row -> [status: RowStatus, retries: 0..(GiveUpAfter + 1)]]
      BY <1>2 DEF TypeOK
    <3>2. \A s \in Row : rows[s].retries \in Int
      BY <3>1, LimitAssumption
    <3>3. \A s \in Row : rows[s].retries <= failures'[s]
      BY <1>2, <2>4, <3>2 DEF OutboxInv, Tries
    <3>4. ASSUME NEW s \in Row, NEW v \in Worker, batches'[v].connected, s \in batches'[v].failed
          PROVE  rows[s].retries + 1 <= failures'[s]
      <4>1. CASE v = w /\ s = r
        BY <1>2, <2>4, <3>2, <4>1 DEF OutboxInv, Tries
      <4>2. CASE ~(v = w /\ s = r)
        <5>1. batches[v].connected /\ s \in batches[v].failed
          BY <1>1, <2>1, <3>4, <4>2
        <5> QED
          BY <1>2, <2>4, <3>2, <5>1 DEF OutboxInv, Tries
      <4> QED
        BY <4>1, <4>2
    <3> QED
      BY <1>2, <3>3, <3>4 DEF OutboxInv, Tries
  <2> QED
    BY <1>2, <2>1, <2>2, <2>3, <2>4, <2>6, <2>7, <2>8 DEF OutboxInv, TypeOK
<1> QED
  BY <1>1, <1>5, <1>6

\* What is closed or cut off locks nothing any more.
LEMMA ReleasedStays ==
  ASSUME OutboxInv, NEW w \in Worker, \A v \in Worker \ {w} : batches'[v] = batches[v],
         batches'[w] = Closed \/ (Sorted(batches'[w]) /\ ~batches'[w].connected),
         \A v \in Worker \ {w} : batches[v].connected => \A r \in Members(batches[v]) : rows'[r].status = rows[r].status
  PROVE  Exclusive'
<1>1. /\ Sorted(batches'[w])
      /\ batches'[w].connected => Members(batches'[w]) = {}
  BY DEF Closed, Sorted, Members
<1>2. ASSUME NEW v \in Worker, batches'[v].connected, NEW r \in Members(batches'[v])
      PROVE  /\ rows'[r].status = "PENDING"
             /\ \A u \in Worker \ {v} : batches'[u].connected => r \notin Members(batches'[u])
  <2>1. v # w /\ batches'[v] = batches[v]
    BY <1>1, <1>2
  <2>2. ASSUME NEW u \in Worker \ {v}, batches'[u].connected PROVE r \notin Members(batches'[u])
    <3>1. CASE u = w
      BY <1>1, <2>2, <3>1
    <3>2. CASE u # w
      BY <1>2, <2>1, <2>2, <3>2 DEF OutboxInv, Exclusive
    <3> QED
      BY <3>1, <3>2
  <2> QED
    BY <1>2, <2>1, <2>2 DEF OutboxInv, Exclusive
<1>3. \A v \in Worker : Sorted(batches'[v])
  BY <1>1 DEF OutboxInv, Exclusive
<1> QED
  BY <1>2, <1>3 DEF Exclusive

LEMMA LoseConnectionKeeps ==
  ASSUME OutboxInv, NEW w \in Worker, LoseConnection(w)
  PROVE  OutboxInv'
<1>1. /\ UNCHANGED <<rows, due, messages, failures>> /\ SetBack(Members(batches[w]))
      /\ IsOpen(w) /\ batches[w].connected
      /\ messages \in [Row -> Nat] /\ setbacks \in [Row -> Nat] /\ setbacks' \in [Row -> Nat]
  BY DEF LoseConnection, OutboxInv, TypeOK, SetBack
<1>2. /\ batches' \in [Worker -> Batch]
      /\ batches'[w].todo = batches[w].todo /\ batches'[w].published = batches[w].published
      /\ batches'[w].failed = batches[w].failed /\ ~batches'[w].connected
      /\ \A v \in Worker \ {w} : batches'[v] = batches[v]
  BY LostFacts DEF OutboxInv
<1>3. TypeOK'
  BY <1>1, <1>2 DEF OutboxInv, TypeOK
<1>4. Exclusive'
  <2>1. Sorted(batches'[w])
    BY <1>1, <1>2 DEF OutboxInv, Exclusive, Sorted, Members, IsOpen
  <2> QED
    BY <1>1, <1>2, <2>1, ReleasedStays
<1>5. ASSUME NEW r \in Row
      PROVE  /\ IsFiniteSet(Lost(r)')
             /\ messages[r] + Cardinality(Lost(r)') <= setbacks'[r] + (IF IsMarked(r)' THEN 1 ELSE 0)
             /\ IsMarked(r)' => IsMarked(r)
  <2>1. /\ IsFiniteSet(Lost(r)) /\ Cardinality(Lost(r)) \in Nat /\ messages[r] \in Nat /\ setbacks[r] \in Nat
        /\ messages[r] + Cardinality(Lost(r)) <= setbacks[r] + (IF IsMarked(r) THEN 1 ELSE 0)
    BY <1>1, LostCounts DEF OutboxInv, Copies
  <2>2. IsMarked(r)' => IsMarked(r)
    BY <1>1, <1>2 DEF IsMarked
  <2>3. CASE r \in batches[w].todo
    <3>1. Lost(r)' = Lost(r) \cup {w} /\ setbacks'[r] = setbacks[r] + 1 /\ ~IsMarked(r)
      BY <1>1, <1>2, <2>3, LostElsewhere, TodoUnmarked DEF SetBack, Members
    <3>2. IsFiniteSet(Lost(r)') /\ Cardinality(Lost(r)') <= Cardinality(Lost(r)) + 1 /\ Cardinality(Lost(r)') \in Nat
      BY <2>1, <3>1, LostCounts, FS_CardinalityType
    <3> QED
      BY <1>1, <2>1, <2>2, <3>1, <3>2
  <2>4. CASE r \notin batches[w].todo
    <3>1. Lost(r)' = Lost(r)
      <4>1. Lost(r)' = Lost(r) \ {w} /\ w \notin Lost(r)
        BY <1>2, <2>4, LostElsewhere DEF Lost
      <4> QED
        BY <4>1
    <3>2. CASE r \in Members(batches[w])
      <4>1. setbacks'[r] = setbacks[r] + 1
        BY <1>1, <3>2 DEF SetBack
      <4> QED
        BY <2>1, <2>2, <3>1, <4>1
    <3>3. CASE r \notin Members(batches[w])
      <4>1. setbacks'[r] = setbacks[r]
        BY <1>1, <3>3 DEF SetBack
      <4>2. IsMarked(r)' <=> IsMarked(r)
        BY <1>1, <1>2, <3>3 DEF IsMarked, Members
      <4> QED
        BY <2>1, <3>1, <4>1, <4>2
    <3> QED
      BY <3>2, <3>3
  <2> QED
    BY <2>3, <2>4
<1>6. Copies' /\ Delivered'
  BY <1>1, <1>5 DEF OutboxInv, Copies, Delivered
<1>7. Tries'
  BY <1>1, <1>2 DEF OutboxInv, Tries
<1> QED
  BY <1>3, <1>4, <1>6, <1>7 DEF OutboxInv

LEMMA NoticeLossKeeps ==
  ASSUME OutboxInv, NEW w \in Worker, NoticeLoss(w)
  PROVE  OutboxInv'
<1>1. /\ UNCHANGED <<rows, due, failures, setbacks>> /\ ~batches[w].connected /\ Close(w)
      /\ messages \in [Row -> Nat] /\ setbacks \in [Row -> Nat]
  BY DEF NoticeLoss, OutboxInv, TypeOK
<1>2. /\ batches' \in [Worker -> Batch] /\ batches'[w] = Closed
      /\ \A v \in Worker \ {w} : batches'[v] = batches[v]
  BY <1>1, ClosedFacts DEF OutboxInv
<1>3. /\ messages' \in [Row -> Nat]
      /\ \A r \in Row : \/ messages'[r] = messages[r]
                        \/ messages'[r] = messages[r] + 1 /\ r \in batches[w].todo
  BY <1>1 DEF NoticeLoss, Taken, Current
<1>4. TypeOK'
  BY <1>1, <1>2, <1>3 DEF OutboxInv, TypeOK
<1>5. Exclusive'
  BY <1>1, <1>2, ReleasedStays
<1>6. ASSUME NEW r \in Row
      PROVE  /\ IsFiniteSet(Lost(r)')
             /\ messages'[r] + Cardinality(Lost(r)') <= setbacks[r] + (IF IsMarked(r)' THEN 1 ELSE 0)
             /\ IsMarked(r)' <=> IsMarked(r)
  <2>1. /\ IsFiniteSet(Lost(r)) /\ Cardinality(Lost(r)) \in Nat /\ messages[r] \in Nat /\ setbacks[r] \in Nat
        /\ messages[r] + Cardinality(Lost(r)) <= setbacks[r] + (IF IsMarked(r) THEN 1 ELSE 0)
    BY <1>1, LostCounts DEF OutboxInv, Copies
  <2>2. IsMarked(r)' <=> IsMarked(r)
    BY <1>1, <1>2 DEF IsMarked, Closed
  <2>3. Lost(r)' = Lost(r) \ {w} /\ (w \in Lost(r) <=> r \in batches[w].todo)
    BY <1>1, <1>2, LostElsewhere DEF Closed, Lost
  <2>4. /\ IsFiniteSet(Lost(r)')
        /\ Cardinality(Lost(r)') = IF r \in batches[w].todo THEN Cardinality(Lost(r)) - 1 ELSE Cardinality(Lost(r))
    BY <2>1, <2>3, LostCounts
  <2> QED
    BY <1>3, <2>1, <2>2, <2>4
<1>7. Copies' /\ Delivered'
  <2>1. Copies'
    BY <1>1, <1>6 DEF Copies
  <2>2. \A r \in Row : messages'[r] >= messages[r] /\ messages[r] \in Nat /\ messages'[r] \in Nat
    BY <1>1, <1>3
  <2>3. Delivered'
    BY <1>6, <2>2 DEF OutboxInv, Delivered
  <2> QED
    BY <2>1, <2>3
<1>8. Tries'
  BY <1>1, <1>2 DEF OutboxInv, Tries, Closed
<1> QED
  BY <1>4, <1>5, <1>7, <1>8 DEF OutboxInv

LEMMA RollbackKeeps ==
  ASSUME OutboxInv, NEW w \in Worker, Rollback(w)
  PROVE  OutboxInv'
<1>1. /\ UNCHANGED <<rows, due, messages, failures>> /\ SetBack(Members(batches[w])) /\ batches[w].connected /\ Close(w)
      /\ messages \in [Row -> Nat] /\ setbacks \in [Row -> Nat] /\ setbacks' \in [Row -> Nat]
  BY DEF Rollback, OutboxInv, TypeOK, SetBack
<1>2. /\ batches' \in [Worker -> Batch] /\ batches'[w] = Closed
      /\ \A v \in Worker \ {w} : batches'[v] = batches[v]
  BY <1>1, ClosedFacts DEF OutboxInv
<1>3. TypeOK'
  BY <1>1, <1>2 DEF OutboxInv, TypeOK
<1>4. Exclusive'
  BY <1>1, <1>2, ReleasedStays
<1>5. ASSUME NEW r \in Row
      PROVE  /\ Lost(r)' = Lost(r)
             /\ messages[r] + Cardinality(Lost(r)) <= setbacks'[r] + (IF IsMarked(r)' THEN 1 ELSE 0)
             /\ IsMarked(r)' => IsMarked(r)
  <2>1. /\ Cardinality(Lost(r)) \in Nat /\ messages[r] \in Nat /\ setbacks[r] \in Nat
        /\ messages[r] + Cardinality(Lost(r)) <= setbacks[r] + (IF IsMarked(r) THEN 1 ELSE 0)
    BY <1>1, LostCounts DEF OutboxInv, Copies
  <2>2. IsMarked(r)' => IsMarked(r)
    BY <1>1, <1>2 DEF IsMarked, Closed
  <2>3. Lost(r)' = Lost(r)
    <3>1. Lost(r)' = Lost(r) \ {w} /\ w \notin Lost(r)
      BY <1>1, <1>2, LostElsewhere DEF Closed, Lost
    <3> QED
      BY <3>1
  <2>4. CASE r \in Members(batches[w])
    <3>1. setbacks'[r] = setbacks[r] + 1
      BY <1>1, <2>4 DEF SetBack
    <3> QED
      BY <2>1, <2>2, <2>3, <3>1
  <2>5. CASE r \notin Members(batches[w])
    <3>1. setbacks'[r] = setbacks[r]
      BY <1>1, <2>5 DEF SetBack
    <3>2. IsMarked(r)' <=> IsMarked(r)
      BY <1>1, <1>2, <2>5 DEF IsMarked, Members, Closed
    <3> QED
      BY <2>1, <2>3, <3>1, <3>2
  <2> QED
    BY <2>4, <2>5
<1>6. Copies' /\ Delivered'
  BY <1>1, <1>5 DEF OutboxInv, Copies, Delivered
<1>7. Tries'
  BY <1>1, <1>2 DEF OutboxInv, Tries, Closed
<1> QED
  BY <1>3, <1>4, <1>6, <1>7 DEF OutboxInv

\* A commit touches the rows of its batch, which were PENDING, and no other worker's.
LEMMA CommitFacts ==
  ASSUME OutboxInv, NEW w \in Worker, Commit(w)
  PROVE  /\ \A r \in Row :
              LET b == batches[w] IN
              /\ r \in b.published => rows'[r].status = "PUBLISHED" /\ rows'[r].retries = rows[r].retries
              /\ r \in b.failed => rows'[r] = FailedMark(rows[r])
              /\ r \notin b.published \cup b.failed => rows'[r] = rows[r]
              /\ r \in b.published \cup b.failed => rows[r].status = "PENDING"
         /\ \A v \in Worker \ {w} : batches[v].connected =>
              \A r \in Members(batches[v]) : r \notin batches[w].published \cup batches[w].failed
         /\ rows' \in [Row -> [status: RowStatus, retries: 0..(GiveUpAfter + 1)]]
<1> DEFINE b == batches[w]
<1>1. /\ b.connected /\ b.todo = {}
      /\ rows' = [r \in Row |->
           CASE r \in b.published -> [rows[r] EXCEPT !.status = "PUBLISHED"]
             [] r \in b.failed    -> FailedMark(rows[r])
             [] OTHER             -> rows[r]]
  BY DEF Commit
<1>2. b.published \cap b.failed = {}
  BY DEF OutboxInv, Exclusive, Sorted
<1>3. \A r \in b.published \cup b.failed :
        /\ rows[r].status = "PENDING"
        /\ \A v \in Worker \ {w} : batches[v].connected => r \notin Members(batches[v])
  BY <1>1 DEF OutboxInv, Exclusive, Members
<1>4. rows \in [Row -> [status: RowStatus, retries: 0..(GiveUpAfter + 1)]]
  BY DEF OutboxInv, TypeOK
<1> HIDE DEF b
<1>5. ASSUME NEW r \in Row
      PROVE  /\ r \in b.published => rows'[r] = [rows[r] EXCEPT !.status = "PUBLISHED"]
             /\ r \in b.failed => rows'[r] = FailedMark(rows[r])
             /\ r \notin b.published \cup b.failed => rows'[r] = rows[r]
  BY <1>1, <1>2
<1>6. ASSUME NEW r \in Row
      PROVE  rows'[r] \in [status: RowStatus, retries: 0..(GiveUpAfter + 1)]
  <2>1. CASE r \in b.published
    BY <1>4, <1>5, <2>1 DEF RowStatus
  <2>2. CASE r \in b.failed
    <3>1. rows[r].retries # GiveUpAfter + 1 /\ rows[r].retries \in 0..(GiveUpAfter + 1)
      BY <1>3, <1>4, <2>2 DEF OutboxInv, Tries
    <3>2. FailedMark(rows[r]) \in [status: RowStatus, retries: 0..(GiveUpAfter + 1)]
      <4>1. rows[r].retries + 1 \in 0..(GiveUpAfter + 1)
        BY <3>1, LimitAssumption
      <4> QED
        BY <4>1 DEF FailedMark, RowStatus
    <3> QED
      BY <1>5, <2>2, <3>2
  <2> QED
    BY <1>4, <1>5, <2>1, <2>2
<1>7. rows' \in [Row -> [status: RowStatus, retries: 0..(GiveUpAfter + 1)]]
  BY <1>1, <1>6
<1>8. \A r \in b.published : r \in Row => rows'[r].status = "PUBLISHED" /\ rows'[r].retries = rows[r].retries
  BY <1>4, <1>5
<1> QED
  BY <1>3, <1>5, <1>7, <1>8 DEF b

LEMMA CommitKeeps ==
  ASSUME OutboxInv, NEW w \in Worker, Commit(w)
  PROVE  OutboxInv'
<1> DEFINE b == batches[w]
<1>1. /\ UNCHANGED <<messages, failures, setbacks>> /\ due' = due \ b.failed /\ b.connected /\ b.todo = {} /\ Close(w)
      /\ messages \in [Row -> Nat] /\ setbacks \in [Row -> Nat] /\ failures \in [Row -> Nat]
      /\ rows \in [Row -> [status: RowStatus, retries: 0..(GiveUpAfter + 1)]]
  BY DEF Commit, OutboxInv, TypeOK
<1>2. /\ batches' \in [Worker -> Batch] /\ batches'[w] = Closed
      /\ \A v \in Worker \ {w} : batches'[v] = batches[v]
  BY <1>1, ClosedFacts DEF OutboxInv
<1>3. /\ \A r \in Row :
           /\ r \in b.published => rows'[r].status = "PUBLISHED" /\ rows'[r].retries = rows[r].retries
           /\ r \in b.failed => rows'[r] = FailedMark(rows[r])
           /\ r \notin b.published \cup b.failed => rows'[r] = rows[r]
           /\ r \in b.published \cup b.failed => rows[r].status = "PENDING"
      /\ \A v \in Worker \ {w} : batches[v].connected => \A r \in Members(batches[v]) : r \notin b.published \cup b.failed
      /\ rows' \in [Row -> [status: RowStatus, retries: 0..(GiveUpAfter + 1)]]
  BY CommitFacts
<1>4. TypeOK'
  BY <1>1, <1>2, <1>3 DEF OutboxInv, TypeOK
<1>5. \A v \in Worker \ {w} : batches[v].connected => \A r \in Members(batches[v]) : r \in Row /\ rows'[r] = rows[r]
  <2>1. \A v \in Worker : Members(batches[v]) \subseteq Row
    BY DEF OutboxInv, TypeOK, Batch, Members
  <2> QED
    BY <1>3, <2>1
<1>6. Exclusive'
  BY <1>2, <1>5, ReleasedStays
<1>7. ASSUME NEW r \in Row
      PROVE  Lost(r)' = Lost(r) /\ (IsMarked(r)' <=> IsMarked(r))
  <2>1. Lost(r)' = Lost(r)
    <3>1. Lost(r)' = Lost(r) \ {w} /\ w \notin Lost(r)
      BY <1>1, <1>2, LostElsewhere DEF Closed, Lost
    <3> QED
      BY <3>1
  <2>2. IsMarked(r)' <=> rows'[r].status = "PUBLISHED" \/ \E v \in Worker \ {w} : batches[v].connected /\ r \in batches[v].published
    BY <1>2 DEF IsMarked, Closed
  <2>3. rows'[r].status = "PUBLISHED" <=> r \in b.published \/ rows[r].status = "PUBLISHED"
    <3>1. r \in b.failed => rows'[r].status # "PUBLISHED" /\ rows[r].status # "PUBLISHED"
      BY <1>3 DEF FailedMark
    <3>2. r \in b.failed => r \notin b.published
      BY DEF OutboxInv, Exclusive, Sorted
    <3> QED
      BY <1>3, <3>1, <3>2
  <2> QED
    BY <1>1, <2>1, <2>2, <2>3 DEF IsMarked
<1>8. Copies' /\ Delivered'
  BY <1>1, <1>7 DEF OutboxInv, Copies, Delivered
<1>9. Tries'
  <2>1. ASSUME NEW r \in Row
        PROVE  rows'[r].retries <= failures[r] /\ (rows'[r].status = "FAILED" <=> rows'[r].retries = GiveUpAfter + 1)
    <3>1. /\ rows[r].retries <= failures[r] /\ rows[r].retries \in 0..(GiveUpAfter + 1)
          /\ rows[r].status = "FAILED" <=> rows[r].retries = GiveUpAfter + 1
      BY <1>1 DEF OutboxInv, Tries
    <3>2. CASE r \in b.failed
      <4>1. rows[r].retries + 1 <= failures[r] /\ rows[r].status = "PENDING"
        BY <1>1, <1>3, <3>2 DEF OutboxInv, Tries
      <4>2. rows'[r] = FailedMark(rows[r])
        BY <1>3, <3>2
      <4> QED
        BY <3>1, <4>1, <4>2, LimitAssumption DEF FailedMark
    <3>3. CASE r \notin b.failed
      BY <1>3, <3>1, <3>3
    <3> QED
      BY <3>2, <3>3
  <2>2. ASSUME NEW r \in Row, NEW v \in Worker, batches'[v].connected, r \in batches'[v].failed
        PROVE  rows'[r].retries + 1 <= failures[r]
    <3>1. v # w /\ batches'[v] = batches[v]
      BY <1>2, <2>2 DEF Closed
    <3>2. rows'[r] = rows[r]
      BY <1>5, <2>2, <3>1 DEF Members
    <3> QED
      BY <2>2, <3>1, <3>2 DEF OutboxInv, Tries
  <2> QED
    BY <1>1, <2>1, <2>2 DEF Tries
<1> QED
  BY <1>4, <1>6, <1>8, <1>9 DEF OutboxInv

-----------------------------------------------------------------------------
(* The invariant, and what follows from it. *)

LEMMA InitOutboxInv ==
  ASSUME Init
  PROVE  OutboxInv
<1>1. TypeOK
  BY LimitAssumption DEF Init, TypeOK, RowStatus, Batch, Closed
<1>2. \A w \in Worker : batches[w] = Closed
  BY DEF Init
<1>3. Exclusive
  BY <1>2 DEF Exclusive, Sorted, Members, Closed
<1>4. \A r \in Row : Lost(r) = {} /\ ~IsMarked(r)
  BY <1>2 DEF Init, Lost, IsMarked, Closed
<1>5. Copies /\ Delivered
  BY <1>4, FS_EmptySet DEF Init, Copies, Delivered
<1>6. Tries
  BY <1>2, LimitAssumption DEF Init, Tries, Closed
<1> QED
  BY <1>1, <1>3, <1>5, <1>6 DEF OutboxInv

LEMMA NextOutboxInv ==
  ASSUME OutboxInv, [Next]_outboxVars
  PROVE  OutboxInv'
<1>1. ASSUME NEW r \in Row, Write(r) \/ BackoffEnds(r)
      PROVE  OutboxInv'
  BY <1>1, WriteKeeps, BackoffEndsKeeps
<1>2. ASSUME NEW w \in Worker, Work(w) \/ LoseConnection(w) \/ Rollback(w)
      PROVE  OutboxInv'
  BY <1>2, ClaimKeeps, PublishKeeps, NoticeLossKeeps, CommitKeeps, LoseConnectionKeeps, RollbackKeeps DEF Work
<1>3. CASE UNCHANGED outboxVars
  BY <1>3 DEF outboxVars, OutboxInv, TypeOK, Exclusive, Copies, Delivered, Tries, Lost, IsMarked
<1> QED
  BY <1>1, <1>2, <1>3 DEF Next

\* The invariant holds of every state the outbox and its workers reach.
THEOREM OutboxInvariant == Spec => []OutboxInv
<1>1. Init => OutboxInv
  BY InitOutboxInv
<1>2. OutboxInv /\ [Next]_outboxVars => OutboxInv'
  BY NextOutboxInv
<1> QED
  BY <1>1, <1>2, PTL DEF Spec

\* FOR UPDATE SKIP LOCKED and the marks in the claiming transaction: an event goes
\* out again at most once per confirm or transaction lost, however many workers run.
THEOREM PublishedOncePerSetback == Spec => []RepeatsAreSetbacks
<1>1. ASSUME OutboxInv PROVE RepeatsAreSetbacks
  <2>1. ASSUME NEW r \in Row PROVE messages[r] <= 1 + setbacks[r]
    <3>1. /\ Cardinality(Lost(r)) \in Nat /\ messages[r] \in Nat /\ setbacks[r] \in Nat
          /\ messages[r] + Cardinality(Lost(r)) <= setbacks[r] + (IF IsMarked(r) THEN 1 ELSE 0)
      BY <1>1, LostCounts DEF OutboxInv, TypeOK, Copies
    <3> QED
      BY <3>1
  <2> QED
    BY <2>1 DEF RepeatsAreSetbacks
<1> QED
  BY <1>1, OutboxInvariant, PTL

\* MarkPublished follows a confirmed publish and no other: no event is marked
\* published that the broker never took.
THEOREM MarkedMeansTaken == Spec => []PublishedWasTaken
<1>1. OutboxInv => PublishedWasTaken
  BY DEF OutboxInv, Delivered, IsMarked, PublishedWasTaken
<1> QED
  BY <1>1, OutboxInvariant, PTL

\* MarkFailed counts retries: an event is given up when, and only when, its last
\* allowed retry has failed too.
THEOREM RetriesAreSpent == Spec => []GivenUpAfterRetries
<1>1. OutboxInv => GivenUpAfterRetries
  BY DEF OutboxInv, Tries, GivenUpAfterRetries
<1> QED
  BY <1>1, OutboxInvariant, PTL

\* A row published or given up is claimed by nobody and marked by nobody again,
\* the worker that lost its session included.
THEOREM SettledRowsStay == Spec => SettledForGood
<1>1. ASSUME OutboxInv, [Next]_outboxVars, NEW r \in Row, rows[r].status \in {"PUBLISHED", "FAILED"}
      PROVE  rows'[r] = rows[r]
  <2>1. ASSUME NEW s \in Row, Write(s) PROVE rows'[r] = rows[r]
    BY <1>1, <2>1 DEF Write, OutboxInv, TypeOK
  <2>2. ASSUME NEW w \in Worker, Commit(w) PROVE rows'[r] = rows[r]
    BY <1>1, <2>2, CommitFacts
  <2>3. ASSUME NEW w \in Worker, Claim(w) \/ Publish(w) \/ NoticeLoss(w) \/ LoseConnection(w) \/ Rollback(w)
        PROVE  rows'[r] = rows[r]
    BY <2>3 DEF Claim, Publish, NoticeLoss, LoseConnection, Rollback
  <2>4. ASSUME NEW s \in Row, BackoffEnds(s) PROVE rows'[r] = rows[r]
    BY <2>4 DEF BackoffEnds
  <2> QED
    BY <1>1, <2>1, <2>2, <2>3, <2>4 DEF Next, Work, outboxVars
<1>2. OutboxInv /\ [Next]_outboxVars
        => [\A r \in Row : rows[r].status \in {"PUBLISHED", "FAILED"} => rows'[r] = rows[r]]_outboxVars
  BY <1>1
<1> QED
  BY <1>2, OutboxInvariant, PTL DEF Spec, SettledForGood
===============================================================================
