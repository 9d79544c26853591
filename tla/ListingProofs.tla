----------------------------- MODULE ListingProofs -----------------------------
(***************************************************************************)
(* A client's walk lists payments strictly from newest to oldest and skips *)
(* none that keeps matching its filter: for any number of payments,        *)
(* services and page sizes, and whatever is stored or changed in between.  *)
(*                                                                         *)
(* The argument is that of a keyset cursor: the last payment got and its   *)
(* age are the cursor, and neither ever changes.  A page is a prefix of    *)
(* what is older than the cursor, in the order of the walk.                *)
(***************************************************************************)
EXTENDS Listing, FiniteSetTheorems, SequenceTheorems, TLAPS

Types ==
  /\ DOMAIN payments \subseteq 1..MaxPayments
  /\ payments \in [DOMAIN payments -> Row]

\* Newest first: the order of pages and of walks.
Descends(s) == \A i, j \in DOMAIN s : i < j => Older(Key(s[j]), Key(s[i]))

-----------------------------------------------------------------------------
(* Sorting. *)

LEMMA KeyType ==
  ASSUME Types, NEW p \in DOMAIN payments
  PROVE  Key(p).at = payments[p].at /\ Key(p).id = p /\ p \in Int /\ payments[p].at \in Int
<1>1. payments[p] \in Row /\ p \in 1..MaxPayments
  BY DEF Types
<1>2. payments[p].at \in 1..MaxTime
  BY <1>1 DEF Row
<1> QED
  BY <1>1, <1>2 DEF Key

\* Older is a strict order of the payments, and a total one.
LEMMA OlderOrders ==
  ASSUME Types
  PROVE  /\ \A p \in DOMAIN payments : ~Older(Key(p), Key(p))
         /\ \A p, q \in DOMAIN payments : p # q => Older(Key(p), Key(q)) \/ Older(Key(q), Key(p))
         /\ \A p, q \in DOMAIN payments : ~(Older(Key(p), Key(q)) /\ Older(Key(q), Key(p)))
         /\ \A p, q, r \in DOMAIN payments :
              Older(Key(p), Key(q)) /\ Older(Key(q), Key(r)) => Older(Key(p), Key(r))
BY KeyType DEF Older

LEMMA PaymentsFinite ==
  ASSUME Types, NEW S \in SUBSET DOMAIN payments
  PROVE  IsFiniteSet(S) /\ Cardinality(S) \in Nat
<1>1. IsFiniteSet(1..MaxPayments)
  <2>1. MaxPayments \in Int /\ 1 \in Int
    BY BoundsAssumption
  <2> QED
    BY <2>1, FS_Interval
<1>2. S \in SUBSET (1..MaxPayments)
  BY DEF Types
<1>3. IsFiniteSet(S)
  BY <1>1, <1>2, FS_Subset
<1> QED
  BY <1>3, FS_CardinalityType

\* The payments of S as new as p, or newer: p's place in the order.
AsNew(S, p) == {q \in S : q = p \/ Older(Key(p), Key(q))}

LEMMA Ranks ==
  ASSUME Types, NEW S \in SUBSET DOMAIN payments
  PROVE  LET rank == [p \in S |-> Cardinality(AsNew(S, p))] IN
         /\ rank \in [S -> 1..Cardinality(S)]
         /\ \A p, q \in S : Older(Key(p), Key(q)) => rank[q] < rank[p]
<1> DEFINE rank == [p \in S |-> Cardinality(AsNew(S, p))]
<1>1. \A p \in S : /\ AsNew(S, p) \in SUBSET DOMAIN payments
                   /\ AsNew(S, p) \in SUBSET S /\ p \in AsNew(S, p)
  BY DEF AsNew
<1>2. ASSUME NEW p \in S PROVE Cardinality(AsNew(S, p)) \in 1..Cardinality(S)
  <2>1. IsFiniteSet(S) /\ Cardinality(S) \in Nat
    BY PaymentsFinite
  <2>2. IsFiniteSet(AsNew(S, p)) /\ Cardinality(AsNew(S, p)) \in Nat
    BY <1>1, PaymentsFinite
  <2>3. Cardinality(AsNew(S, p)) <= Cardinality(S)
    BY <1>1, <2>1, FS_Subset
  <2>4. Cardinality(AsNew(S, p)) # 0
    BY <1>1, <2>2, FS_EmptySet
  <2> QED
    BY <2>1, <2>2, <2>3, <2>4
<1>3. ASSUME NEW p \in S, NEW q \in S, Older(Key(p), Key(q))
      PROVE  Cardinality(AsNew(S, q)) < Cardinality(AsNew(S, p))
  <2>1. AsNew(S, q) \in SUBSET AsNew(S, p)
    BY <1>3, OlderOrders DEF AsNew
  <2>2. p \notin AsNew(S, q)
    BY <1>3, OlderOrders DEF AsNew
  <2>3. IsFiniteSet(AsNew(S, p)) /\ Cardinality(AsNew(S, p)) \in Nat /\ Cardinality(AsNew(S, q)) \in Nat
    BY <1>1, PaymentsFinite
  <2>4. /\ Cardinality(AsNew(S, q)) <= Cardinality(AsNew(S, p))
        /\ Cardinality(AsNew(S, p)) = Cardinality(AsNew(S, q)) => AsNew(S, p) = AsNew(S, q)
    BY <2>1, <2>3, FS_Subset
  <2> QED
    BY <1>1, <2>2, <2>3, <2>4
<1> QED
  BY <1>2, <1>3

\* There is a way to sort.
LEMMA SortedExists ==
  ASSUME Types, NEW S \in SUBSET DOMAIN payments
  PROVE  \E s \in SetToSeqs(S) : Descends(s)
<1> DEFINE rank == [p \in S |-> Cardinality(AsNew(S, p))]
           n == Cardinality(S)
<1>1. rank \in [S -> 1..n] /\ \A p, q \in S : Older(Key(p), Key(q)) => rank[q] < rank[p]
  BY Ranks
<1>2. IsFiniteSet(S) /\ n \in Nat
  BY PaymentsFinite
<1> HIDE DEF rank
<1>3. \A p, q \in S : rank[p] = rank[q] => p = q
  BY <1>1, <1>2, OlderOrders
<1>4. rank \in Surjection(S, 1..n)
  <2>1. rank \in Injection(S, 1..n)
    BY <1>1, <1>3 DEF Injection, IsInjective
  <2>2. IsFiniteSet(1..n) /\ Cardinality(1..n) = n
    BY <1>2, FS_Interval
  <2> QED
    BY <2>1, <2>2, FS_Injection
<1> DEFINE s == [i \in 1..n |-> CHOOSE p \in S : rank[p] = i]
<1>5. \A i \in 1..n : s[i] \in S /\ rank[s[i]] = i
  BY <1>4 DEF Surjection
<1>6. s \in [1..n -> S] /\ DOMAIN s = 1..n
  BY <1>5
<1> HIDE DEF s
<1>7. \A i, j \in 1..n : i # j => s[i] # s[j]
  BY <1>5
<1>8. ASSUME NEW i \in 1..n, NEW j \in 1..n, i < j PROVE Older(Key(s[j]), Key(s[i]))
  <2>1. s[i] \in S /\ s[j] \in S /\ s[i] # s[j] /\ rank[s[i]] = i /\ rank[s[j]] = j
    BY <1>5, <1>7, <1>8
  <2>2. ~Older(Key(s[i]), Key(s[j]))
    BY <1>1, <1>8, <2>1
  <2> QED
    BY <2>1, <2>2, OlderOrders
<1>9. s \in SetToSeqs(S)
  BY <1>6, <1>7 DEF SetToSeqs
<1> QED
  BY <1>6, <1>8, <1>9 DEF Descends

\* What Newest(S) is: all of S, newest first.
LEMMA NewestSorts ==
  ASSUME Types, NEW S \in SUBSET DOMAIN payments
  PROVE  LET s == Newest(S) IN
         /\ s \in [1..Cardinality(S) -> S] /\ Cardinality(S) \in Nat
         /\ Descends(s)
         /\ \A p \in S : \E i \in 1..Cardinality(S) : s[i] = p
<1> DEFINE s == Newest(S)
           n == Cardinality(S)
<1>1. s \in SetToSeqs(S) /\ Descends(s)
  BY SortedExists DEF Newest, Descends
<1> HIDE DEF s
<1>2. IsFiniteSet(S) /\ n \in Nat
  BY PaymentsFinite
<1>3. s \in [1..n -> S] /\ \A i, j \in 1..n : i # j => s[i] # s[j]
  BY <1>1 DEF SetToSeqs
<1>4. s \in Injection(1..n, S)
  BY <1>3 DEF Injection, IsInjective
<1>5. Cardinality(1..n) = n
  BY <1>2, FS_Interval
<1>6. s \in Surjection(1..n, S)
  BY <1>2, <1>4, <1>5, FS_Injection
<1> QED
  BY <1>1, <1>2, <1>3, <1>6 DEF Surjection, s

-----------------------------------------------------------------------------
(* One page. *)

LEMMA MinOfTwo ==
  ASSUME NEW a \in Nat, NEW b \in Nat
  PROVE  Min({a, b}) = IF a <= b THEN a ELSE b
<1> DEFINE m == IF a <= b THEN a ELSE b
<1>1. m \in {a, b} /\ \A y \in {a, b} : m <= y
  OBVIOUS
<1>2. \A x \in {a, b} : (\A y \in {a, b} : x <= y) => x = m
  OBVIOUS
<1> HIDE DEF m
<1>3. Min({a, b}) = m
  BY <1>1, <1>2 DEF Min
<1> QED
  BY <1>3 DEF m

\* The first n of a sequence.
LEMMA FirstOf ==
  ASSUME NEW S, NEW m \in Nat, NEW s \in [1..m -> S], NEW n \in 0..m
  PROVE  LET t == SubSeq(s, 1, n) IN
         t \in Seq(S) /\ Len(t) = n /\ DOMAIN t = 1..n /\ \A i \in 1..n : t[i] = s[i]
<1> DEFINE t == SubSeq(s, 1, n)
<1>1. 1 \in Int /\ n \in Int /\ \A i \in 1..n : s[i] \in S
  OBVIOUS
<1>2. /\ t \in Seq(S)
      /\ Len(t) = IF 1 <= n THEN n - 1 + 1 ELSE 0
      /\ \A i \in 1..(n - 1 + 1) : t[i] = s[1 + i - 1]
  BY <1>1, SubSeqProperties
<1> HIDE DEF t
<1>3. Len(t) = n
  BY <1>2
<1>4. \A i \in 1..n : t[i] = s[i]
  <2> SUFFICES ASSUME NEW i \in 1..n PROVE t[i] = s[i]
    OBVIOUS
  <2>1. i \in 1..(n - 1 + 1) /\ 1 + i - 1 = i
    OBVIOUS
  <2> QED
    BY <1>2, <2>1
<1> QED
  BY <1>2, <1>3, <1>4 DEF t

\* A page of the payments S: the newest of them, and a cursor if some are left.
Pages(S, page) ==
  /\ page.payments \in Seq(S) /\ Descends(page.payments)
  /\ \/ page.next = NoCursor /\ \A p \in S : p \in Range(page.payments)
     \/ /\ page.payments # <<>> /\ page.next = encodeCursor(page.payments[Len(page.payments)])
        /\ \A p \in S : p \in Range(page.payments) \/ Older(Key(p), page.next)

LEMMA CursorIsKey ==
  ASSUME NEW p, NEW q
  PROVE  Older(Key(p), encodeCursor(q)) <=> Older(Key(p), Key(q))
BY DEF Older, Key, encodeCursor

LEMMA ListPages ==
  ASSUME Types, NEW f, NEW cursor, NEW limit \in Nat \ {0}
  PROVE  Pages(Found(f, cursor), listPage(f, cursor, limit))
<1> DEFINE S == Found(f, cursor)
           s == Newest(S)
           n == Cardinality(S)
           rows == ListPaginated(f, cursor, limit + 1)
           page == listPage(f, cursor, limit)
<1>1. S \in SUBSET DOMAIN payments
  BY DEF Found
<1> HIDE DEF S
<1>2. s \in [1..n -> S] /\ n \in Nat /\ Descends(s) /\ \A p \in S : \E i \in 1..n : s[i] = p
  BY <1>1, NewestSorts
<1>3. rows = SubSeq(s, 1, Min({limit + 1, Len(s)}))
  BY DEF ListPaginated, S
<1>4. page = IF Len(rows) > limit
             THEN [payments |-> SubSeq(rows, 1, limit), next |-> encodeCursor(rows[limit])]
             ELSE [payments |-> rows, next |-> NoCursor]
  BY DEF listPage
<1> HIDE DEF s, n, rows, page
<1>5. Len(s) = n /\ DOMAIN s = 1..n
  BY <1>2
<1>6. \A k \in 0..n : LET t == SubSeq(s, 1, k) IN
        t \in Seq(S) /\ Len(t) = k /\ DOMAIN t = 1..k /\ \A i \in 1..k : t[i] = s[i]
  <2>1. n \in Nat /\ s \in [1..n -> S]
    BY <1>2
  <2> QED
    BY <2>1, FirstOf
<1>7. CASE n <= limit
  <2>1. Min({limit + 1, Len(s)}) = n /\ n \in 0..n
    BY <1>2, <1>5, <1>7, MinOfTwo
  <2>2. rows \in Seq(S) /\ Len(rows) = n /\ DOMAIN rows = 1..n /\ \A i \in 1..n : rows[i] = s[i]
    <3>1. rows = SubSeq(s, 1, n)
      BY <1>3, <2>1
    <3> QED
      BY <1>6, <2>1, <3>1
  <2>3. page.payments = rows /\ page.next = NoCursor
    BY <1>2, <1>4, <1>7, <2>2
  <2>4. Descends(rows)
    BY <1>2, <1>5, <2>2 DEF Descends
  <2>5. \A p \in S : p \in Range(rows)
    BY <1>2, <2>2 DEF Range
  <2> QED
    BY <2>2, <2>3, <2>4, <2>5 DEF Pages, S, page
<1>8. CASE n > limit
  <2>1. Min({limit + 1, Len(s)}) = limit + 1 /\ limit + 1 \in 0..n
    BY <1>2, <1>5, <1>8, MinOfTwo
  <2>2. /\ rows \in Seq(S) /\ Len(rows) = limit + 1 /\ DOMAIN rows = 1..(limit + 1)
        /\ \A i \in 1..(limit + 1) : rows[i] = s[i]
    <3>1. rows = SubSeq(s, 1, limit + 1)
      BY <1>3, <2>1
    <3> QED
      BY <1>6, <2>1, <3>1
  <2> DEFINE t == SubSeq(rows, 1, limit)
  <2>3. page.payments = t /\ page.next = encodeCursor(rows[limit])
    BY <1>4, <2>2
  <2>4. t \in Seq(S) /\ Len(t) = limit /\ DOMAIN t = 1..limit /\ \A i \in 1..limit : t[i] = rows[i]
    <3>1. rows \in [1..(limit + 1) -> S] /\ limit + 1 \in Nat /\ limit \in 0..(limit + 1)
      BY <2>2
    <3> QED
      BY <3>1, FirstOf
  <2> HIDE DEF t
  <2>5. \A i \in 1..limit : t[i] = s[i]
    BY <2>2, <2>4
  <2>6. Descends(t)
    BY <1>2, <1>5, <1>8, <2>4, <2>5 DEF Descends
  <2>7. limit \in 1..limit /\ limit \in 1..n /\ rows[limit] = s[limit] /\ t[limit] = rows[limit] /\ t # <<>>
    BY <1>2, <1>8, <2>2, <2>4
  <2>8. ASSUME NEW p \in S PROVE p \in Range(t) \/ Older(Key(p), page.next)
    <3>1. PICK i \in 1..n : s[i] = p
      BY <1>2
    <3>2. CASE i <= limit
      <4>1. i \in 1..limit /\ t[i] = p
        BY <2>5, <3>1, <3>2
      <4> QED
        BY <2>4, <4>1 DEF Range
    <3>3. CASE i > limit
      <4>1. Older(Key(p), Key(rows[limit]))
        BY <1>2, <1>5, <2>7, <3>1, <3>3 DEF Descends
      <4> QED
        BY <2>3, <4>1, CursorIsKey
    <3> QED
      BY <1>2, <3>2, <3>3
  <2>9. page.next = encodeCursor(t[Len(t)])
    BY <2>3, <2>4, <2>7
  <2> QED
    BY <2>3, <2>4, <2>6, <2>7, <2>8, <2>9 DEF Pages, S, page
<1> QED
  BY <1>2, <1>7, <1>8

-----------------------------------------------------------------------------
(* The walk. *)

\* The payments got so far, and the cursor that is the last of them.
WalkOK ==
  /\ walk = [endpoint |-> walk.endpoint, filter |-> walk.filter, limit |-> walk.limit,
             got |-> walk.got, next |-> walk.next, over |-> walk.over]
  /\ walk.limit \in Nat \ {0}
  /\ walk.got \in Seq(DOMAIN payments) /\ Descends(walk.got)
  /\ \/ walk.next = NoCursor
     \/ walk.got # <<>> /\ walk.next = encodeCursor(walk.got[Len(walk.got)])

\* A payment that has matched all along was got or is still to come.
Due(p) == p \in Range(walk.got) \/ (~walk.over /\ After(p, walk.next))

ListInv ==
  /\ Types /\ WalkOK
  /\ steady \subseteq DOMAIN payments
  /\ \A p \in steady : Matches(p, walk.filter) /\ Due(p)

\* The rows listed already stay as old as they were.
LEMMA SameOrder ==
  ASSUME Types, Types', DOMAIN payments \subseteq DOMAIN payments',
         \A p \in DOMAIN payments : payments'[p].at = payments[p].at
  PROVE  \A p \in DOMAIN payments : Key(p)' = Key(p)
BY DEF Key

LEMMA DescendsStill ==
  ASSUME NEW s, s \in Seq(DOMAIN payments), Descends(s),
         \A p \in DOMAIN payments : Key(p)' = Key(p)
  PROVE  Descends(s)'
BY DEF Descends, Older

\* The payments stand still while the walk goes on.
LEMMA WalkMoves ==
  ASSUME UNCHANGED payments,
         NEW got \in Seq(DOMAIN payments), Descends(got), walk'.got = got,
         walk' = [endpoint |-> walk'.endpoint, filter |-> walk'.filter, limit |-> walk'.limit,
                  got |-> walk'.got, next |-> walk'.next, over |-> walk'.over],
         walk'.limit \in Nat \ {0},
         walk'.next = NoCursor \/ (got # <<>> /\ walk'.next = encodeCursor(got[Len(got)]))
  PROVE  WalkOK'
<1>1. \A p : Key(p)' = Key(p)
  BY DEF Key
<1>2. Descends(got)'
  <2>1. \A p \in DOMAIN payments : Key(p)' = Key(p)
    BY <1>1
  <2> QED
    BY <2>1, DescendsStill
<1>3. \A p : encodeCursor(p)' = encodeCursor(p)
  BY DEF encodeCursor
<1>4. encodeCursor(got[Len(got)])' = encodeCursor(got[Len(got)])
  BY <1>3
<1> QED
  BY <1>2, <1>4 DEF WalkOK

\* A page size is at least one.
LEMMA ClampedLimit ==
  ASSUME NEW requested \in 0..maxPageSize + 1
  PROVE  clampLimit(requested) \in Nat \ {0}
<1>1. requested > 0 => Min({requested, maxPageSize}) \in Nat \ {0}
  BY PageSizeAssumption, MinOfTwo
<1> QED
  BY <1>1, PageSizeAssumption DEF clampLimit

\* Others store or change payments while the walk stands still.
LEMMA MeanwhileKeeps ==
  ASSUME ListInv, Types', UNCHANGED walk, DOMAIN payments \subseteq DOMAIN payments',
         \A p \in DOMAIN payments : payments'[p].at = payments[p].at,
         steady' \subseteq steady, \A p \in steady' : Matches(p, walk.filter)'
  PROVE  ListInv'
<1>1. \A p \in DOMAIN payments : Key(p)' = Key(p)
  BY SameOrder DEF ListInv
<1>2. Descends(walk.got)'
  BY <1>1, DescendsStill DEF ListInv, WalkOK
<1>3. walk.got \in Seq(DOMAIN payments')
  <2>1. walk.got \in Seq(DOMAIN payments)
    BY DEF ListInv, WalkOK
  <2> QED
    BY <2>1
<1>4. walk.got # <<>> => encodeCursor(walk.got[Len(walk.got)])' = encodeCursor(walk.got[Len(walk.got)])
  <2>1. walk.got \in Seq(DOMAIN payments) /\ (walk.got # <<>> => walk.got[Len(walk.got)] \in DOMAIN payments)
    BY DEF ListInv, WalkOK
  <2> QED
    BY <2>1 DEF encodeCursor
<1>5. WalkOK'
  BY <1>2, <1>3, <1>4 DEF ListInv, WalkOK
<1>6. \A p \in steady' : Due(p)'
  BY <1>1 DEF ListInv, Due, After
<1> QED
  BY <1>5, <1>6 DEF ListInv

LEMMA StoreKeeps ==
  ASSUME ListInv, Store
  PROVE  ListInv'
<1>1. PICK p \in (1..MaxPayments) \ DOMAIN payments,
           row \in [at: 1..MaxTime, service: Service, status: {"PENDING"}] :
        payments' = [q \in DOMAIN payments \cup {p} |-> IF q = p THEN row ELSE payments[q]]
  BY DEF Store
<1>2. UNCHANGED <<walk, steady>>
  BY DEF Store
<1>3. DOMAIN payments' = DOMAIN payments \cup {p} /\ \A q \in DOMAIN payments : payments'[q] = payments[q]
  BY <1>1
<1>4. row \in Row
  BY DEF Row, Status
<1>5. Types'
  BY <1>1, <1>3, <1>4 DEF ListInv, Types
<1>6. \A q \in steady' : Matches(q, walk.filter)'
  BY <1>2, <1>3, Zenon DEF ListInv, Matches
<1> QED
  BY <1>2, <1>3, <1>5, <1>6, MeanwhileKeeps

LEMMA ChangeKeeps ==
  ASSUME ListInv, Change
  PROVE  ListInv'
<1>1. PICK p \in DOMAIN payments :
        /\ payments[p].status = "PENDING"
        /\ payments' = [payments EXCEPT ![p].status = "COMPLETED"]
        /\ steady' = IF walk.filter.status = "PENDING" THEN steady \ {p} ELSE steady
  BY DEF Change
<1>2. UNCHANGED walk
  BY DEF Change
<1>3. payments \in [DOMAIN payments -> Row] /\ Types
  BY DEF ListInv, Types
<1>4. DOMAIN payments' = DOMAIN payments /\ \A q \in DOMAIN payments \ {p} : payments'[q] = payments[q]
  BY <1>1, <1>3
<1>5. payments'[p].at = payments[p].at /\ payments'[p].service = payments[p].service
  BY <1>1, <1>3 DEF Row
<1>6. payments'[p] \in Row
  BY <1>1, <1>3 DEF Row, Status
<1>7. Types'
  BY <1>1, <1>3, <1>4, <1>6 DEF Types
<1>8. steady' \subseteq steady
  BY <1>1
<1>9. ASSUME NEW q \in steady' PROVE Matches(q, walk.filter)'
  <2>1. q \in DOMAIN payments /\ Matches(q, walk.filter)
    BY <1>8 DEF ListInv
  <2>2. CASE q # p
    BY <1>2, <1>4, <2>1, <2>2, Zenon DEF Matches
  <2>3. CASE q = p
    <3>1. walk.filter.status # "PENDING"
      BY <1>1, <2>3
    <3>2. walk.filter.status = ""
      BY <1>1, <2>1, <2>3, <3>1, Zenon DEF Matches
    <3> QED
      BY <1>2, <1>5, <2>1, <2>3, <3>2, Zenon DEF Matches
  <2> QED
    BY <2>2, <2>3
<1>10. \A q \in DOMAIN payments : payments'[q].at = payments[q].at
  BY <1>4, <1>5
<1> QED
  BY <1>2, <1>4, <1>7, <1>8, <1>9, <1>10, MeanwhileKeeps

LEMMA BeginKeeps ==
  ASSUME ListInv, Begin
  PROVE  ListInv'
<1>1. PICK endpoint \in {"caller", "admin"}, f \in ListFilter, requested \in 0..maxPageSize + 1 :
        LET page == listPage(f, NoCursor, clampLimit(requested)) IN
        /\ walk' = [endpoint |-> endpoint, filter |-> f, limit |-> clampLimit(requested),
                     got |-> page.payments, next |-> page.next, over |-> page.next.form = "none"]
        /\ steady' = {p \in DOMAIN payments : Matches(p, f)}
  BY DEF Begin
<1> DEFINE limit == clampLimit(requested)
           page == listPage(f, NoCursor, limit)
<1>2. UNCHANGED payments /\ Types
  BY DEF Begin, ListInv
<1>3. limit \in Nat \ {0}
  BY ClampedLimit
<1>4. Found(f, NoCursor) = {p \in DOMAIN payments : Matches(p, f)}
  BY DEF Found, After, NoCursor
<1>5. Pages(Found(f, NoCursor), page)
  BY <1>2, <1>3, ListPages
<1>6. /\ walk'.filter = f /\ walk'.limit = limit /\ walk'.got = page.payments /\ walk'.next = page.next
      /\ walk'.over <=> page.next.form = "none"
      /\ walk' = [endpoint |-> walk'.endpoint, filter |-> walk'.filter, limit |-> walk'.limit,
                  got |-> walk'.got, next |-> walk'.next, over |-> walk'.over]
  <2> HIDE DEF page, limit
  <2>1. walk' = [endpoint |-> endpoint, filter |-> f, limit |-> limit,
                 got |-> page.payments, next |-> page.next, over |-> page.next.form = "none"]
    BY <1>1 DEF page, limit
  <2> QED
    BY <2>1
<1>7. steady' = Found(f, NoCursor)
  BY <1>1, <1>4
<1> HIDE DEF page, limit
<1>8. page.payments \in Seq(DOMAIN payments)
  BY <1>4, <1>5 DEF Pages
<1>9. WalkOK'
  <2>1. Descends(page.payments)
    BY <1>5 DEF Pages
  <2>2. page.next = NoCursor
        \/ (page.payments # <<>> /\ page.next = encodeCursor(page.payments[Len(page.payments)]))
    BY <1>5 DEF Pages
  <2> QED
    BY <1>2, <1>3, <1>6, <1>8, <2>1, <2>2, WalkMoves
<1>10. ASSUME NEW p \in steady' PROVE Matches(p, walk.filter)' /\ Due(p)'
  <2>1. Matches(p, walk.filter)'
    BY <1>2, <1>4, <1>6, <1>7, Zenon DEF Matches
  <2>2. page.next = NoCursor => p \in Range(page.payments)
    BY <1>5, <1>7 DEF Pages, encodeCursor, NoCursor
  <2>3. page.next # NoCursor => page.next.form = "page" /\ (p \in Range(page.payments) \/ Older(Key(p), page.next))
    BY <1>5, <1>7 DEF Pages, encodeCursor
  <2>4. Key(p)' = Key(p)
    BY <1>2 DEF Key
  <2>5. Due(p)'
    BY <1>6, <2>2, <2>3, <2>4 DEF Due, After
  <2> QED
    BY <2>1, <2>5
<1>11. steady' \subseteq DOMAIN payments'
  BY <1>1, <1>2
<1>12. Types'
  BY <1>2 DEF Types
<1> QED
  BY <1>9, <1>10, <1>11, <1>12 DEF ListInv

\* What a page adds to a walk is older than all it got.
LEMMA WalkOn ==
  ASSUME Types, NEW got \in Seq(DOMAIN payments), got # <<>>, Descends(got),
         NEW more \in Seq(DOMAIN payments), Descends(more),
         \A i \in 1..Len(more) : Older(Key(more[i]), Key(got[Len(got)]))
  PROVE  Descends(got \o more)
<1> DEFINE all == got \o more
           n == Len(got)
           m == Len(more)
<1>1. /\ n \in Nat \ {0} /\ m \in Nat /\ DOMAIN all = 1..(n + m)
      /\ \A i \in 1..n : all[i] = got[i] /\ got[i] \in DOMAIN payments
      /\ \A i \in (n + 1)..(n + m) : all[i] = more[i - n] /\ more[i - n] \in DOMAIN payments
  OBVIOUS
<1>2. /\ \A i, j \in 1..n : i < j => Older(Key(got[j]), Key(got[i]))
      /\ \A i, j \in 1..m : i < j => Older(Key(more[j]), Key(more[i]))
      /\ \A i \in 1..m : Older(Key(more[i]), Key(got[n]))
  BY DEF Descends
<1> HIDE DEF all, n, m
<1>3. ASSUME NEW i \in 1..(n + m), NEW j \in 1..(n + m), i < j
      PROVE  Older(Key(all[j]), Key(all[i]))
  <2>1. CASE j <= n
    <3>1. i \in 1..n /\ j \in 1..n
      BY <1>1, <1>3, <2>1
    <3> QED
      BY <1>1, <1>2, <1>3, <3>1
  <2>2. CASE i > n
    <3>1. i \in (n + 1)..(n + m) /\ j \in (n + 1)..(n + m) /\ i - n \in 1..m /\ j - n \in 1..m /\ i - n < j - n
      BY <1>1, <1>3, <2>2
    <3> QED
      BY <1>1, <1>2, <3>1
  <2>3. CASE i <= n /\ j > n
    <3>1. i \in 1..n /\ n \in 1..n /\ j \in (n + 1)..(n + m) /\ j - n \in 1..m
      BY <1>1, <1>3, <2>3
    <3>2. all[i] = got[i] /\ all[j] = more[j - n] /\ all[j] \in DOMAIN payments
          /\ got[i] \in DOMAIN payments /\ got[n] \in DOMAIN payments
      BY <1>1, <3>1
    <3>3. Older(Key(all[j]), Key(got[n]))
      BY <1>2, <3>1, <3>2
    <3>4. i = n \/ Older(Key(got[n]), Key(got[i]))
      BY <1>1, <1>2, <3>1
    <3> QED
      BY <3>2, <3>3, <3>4, OlderOrders
  <2> QED
    BY <1>1, <2>1, <2>2, <2>3
<1> QED
  BY <1>1, <1>3 DEF Descends, all

LEMMA NextPageKeeps ==
  ASSUME ListInv, NextPage
  PROVE  ListInv'
<1> DEFINE page == listPage(walk.filter, walk.next, walk.limit)
           S == Found(walk.filter, walk.next)
           last == walk.got[Len(walk.got)]
<1>1. UNCHANGED payments /\ UNCHANGED steady /\ walk.next.form = "page" /\ ~walk.over /\ Types /\ WalkOK
  BY DEF NextPage, ListInv
<1>2. Received(page)
  BY DEF NextPage, Readable, NoCursor
<1>3. Pages(S, page)
  BY <1>1, ListPages DEF WalkOK
<1>4. /\ walk.got \in Seq(DOMAIN payments) /\ walk.got # <<>> /\ Descends(walk.got)
      /\ walk.next = encodeCursor(last)
  BY <1>1 DEF WalkOK, NoCursor
<1>5. S \in SUBSET DOMAIN payments /\ \A p \in S : Older(Key(p), Key(last))
  <2>1. \A p \in S : p \in DOMAIN payments /\ Older(Key(p), walk.next)
    BY <1>1 DEF Found, After
  <2> QED
    BY <1>4, <2>1, CursorIsKey
<1>6. /\ walk'.filter = walk.filter /\ walk'.limit = walk.limit
      /\ walk'.got = walk.got \o page.payments /\ walk'.next = page.next
      /\ walk'.over <=> page.next.form = "none"
      /\ walk' = [endpoint |-> walk'.endpoint, filter |-> walk'.filter, limit |-> walk'.limit,
                  got |-> walk'.got, next |-> walk'.next, over |-> walk'.over]
  <2> HIDE DEF page
  <2>1. walk' = [walk EXCEPT !.got = @ \o page.payments, !.next = page.next, !.over = page.next.form = "none"]
    BY <1>2 DEF Received
  <2>2. walk = [endpoint |-> walk.endpoint, filter |-> walk.filter, limit |-> walk.limit,
                got |-> walk.got, next |-> walk.next, over |-> walk.over]
    BY <1>1 DEF WalkOK
  <2>3. walk' = [endpoint |-> walk.endpoint, filter |-> walk.filter, limit |-> walk.limit,
                 got |-> walk.got \o page.payments, next |-> page.next, over |-> page.next.form = "none"]
    BY <2>1, <2>2
  <2> QED
    BY <2>3
<1> HIDE DEF page, last
<1>7. page.payments \in Seq(S) /\ page.payments \in Seq(DOMAIN payments) /\ Descends(page.payments)
  <2> HIDE DEF S
  <2> QED
    BY <1>3, <1>5 DEF Pages
<1>8. Descends(walk.got \o page.payments)
  <2>1. \A i \in 1..Len(page.payments) : Older(Key(page.payments[i]), Key(last))
    <3> HIDE DEF S
    <3>1. \A i \in 1..Len(page.payments) : page.payments[i] \in S
      BY <1>7
    <3> QED
      BY <1>5, <3>1
  <2> QED
    BY <1>1, <1>4, <1>7, <2>1, WalkOn DEF last
<1> DEFINE got == walk.got
           more == page.payments
           all == got \o more
<1>9. /\ all \in Seq(DOMAIN payments)
      /\ more # <<>> => all # <<>> /\ all[Len(all)] = more[Len(more)]
      /\ \A p : p \in Range(got) \/ p \in Range(more) => p \in Range(all)
  <2>1. got \in Seq(DOMAIN payments) /\ more \in Seq(DOMAIN payments)
    BY <1>4, <1>7
  <2> HIDE DEF got, more
  <2>2. Len(all) = Len(got) + Len(more) /\ Len(got) \in Nat /\ Len(more) \in Nat
    BY <2>1
  <2>3. more # <<>> => all # <<>> /\ all[Len(all)] = more[Len(more)]
    BY <2>1, <2>2
  <2>4. ASSUME NEW p, p \in Range(got) PROVE p \in Range(all)
    <3>1. PICK i \in 1..Len(got) : got[i] = p
      BY <2>1, <2>4 DEF Range
    <3>2. i \in 1..Len(all) /\ all[i] = p /\ DOMAIN all = 1..Len(all)
      BY <2>1, <2>2, <3>1
    <3> QED
      BY <3>2 DEF Range
  <2>5. ASSUME NEW p, p \in Range(more) PROVE p \in Range(all)
    <3>1. PICK i \in 1..Len(more) : more[i] = p
      BY <2>1, <2>5 DEF Range
    <3>2. Len(got) + i \in 1..Len(all) /\ all[Len(got) + i] = p /\ DOMAIN all = 1..Len(all)
      BY <2>1, <2>2, <3>1
    <3> QED
      BY <3>2 DEF Range
  <2> QED
    BY <2>1, <2>3, <2>4, <2>5
<1>10. page.next = NoCursor \/ (more # <<>> /\ page.next = encodeCursor(all[Len(all)]))
  BY <1>3, <1>9 DEF Pages
<1> HIDE DEF all
<1>11. WalkOK'
  <2>1. walk'.got = all /\ Descends(all)
    BY <1>6, <1>8 DEF all
  <2>2. walk'.next = NoCursor \/ (all # <<>> /\ walk'.next = encodeCursor(all[Len(all)]))
    BY <1>6, <1>9, <1>10
  <2>3. walk'.limit \in Nat \ {0}
    BY <1>1, <1>6 DEF WalkOK
  <2> QED
    BY <1>1, <1>6, <1>9, <2>1, <2>2, <2>3, WalkMoves
<1>12. ASSUME NEW p \in steady' PROVE Matches(p, walk.filter)' /\ Due(p)'
  <2>1. p \in DOMAIN payments /\ Matches(p, walk.filter) /\ Due(p)
    BY <1>1, <1>12 DEF ListInv
  <2>2. Matches(p, walk.filter)'
    BY <1>1, <1>6, <2>1, Zenon DEF Matches
  <2>3. Key(p)' = Key(p)
    BY <1>1 DEF Key
  <2>4. p \in Range(got) \/ p \in S
    BY <2>1 DEF Due, Found
  <2>5. walk'.got = all
    BY <1>6 DEF all
  <2> HIDE DEF S
  <2>6. page.next = NoCursor /\ p \in S => p \in Range(more)
    BY <1>3 DEF Pages, encodeCursor, NoCursor
  <2>7. page.next # NoCursor => page.next.form = "page" /\ (p \in S => p \in Range(more) \/ Older(Key(p), page.next))
    BY <1>3 DEF Pages, encodeCursor
  <2> HIDE DEF got, more
  <2>8. Due(p)'
    BY <1>6, <1>9, <2>3, <2>4, <2>5, <2>6, <2>7 DEF Due, After
  <2> QED
    BY <2>2, <2>8
<1>13. Types'
  BY <1>1 DEF Types
<1> QED
  BY <1>1, <1>11, <1>12, <1>13 DEF ListInv

-----------------------------------------------------------------------------
(* The specification keeps it. *)

LEMMA InitLists == Init => ListInv
<1> SUFFICES ASSUME Init PROVE ListInv
  OBVIOUS
<1>1. DOMAIN payments = {} /\ steady = {}
  BY DEF Init
<1>2. Types
  BY <1>1 DEF Init, Types
<1>3. /\ walk.got = <<>> /\ walk.next = NoCursor /\ walk.limit = defaultLimit
      /\ walk = [endpoint |-> walk.endpoint, filter |-> walk.filter, limit |-> walk.limit,
                 got |-> walk.got, next |-> walk.next, over |-> walk.over]
  BY Zenon DEF Init
<1>4. <<>> \in Seq(DOMAIN payments) /\ Descends(<<>>)
  BY DEF Descends
<1>5. defaultLimit \in Nat \ {0}
  BY PageSizeAssumption
<1>6. WalkOK
  BY <1>3, <1>4, <1>5 DEF WalkOK
<1> QED
  BY <1>1, <1>2, <1>6 DEF ListInv

LEMMA NextLists == ListInv /\ [Next]_listVars => ListInv'
<1> SUFFICES ASSUME ListInv, [Next]_listVars PROVE ListInv'
  OBVIOUS
<1>1. CASE UNCHANGED listVars
  <2>1. UNCHANGED <<payments, walk, steady>>
    BY <1>1 DEF listVars
  <2>2. Types' /\ \A p \in steady' : Matches(p, walk.filter)'
    <3>1. Types /\ \A p \in steady : Matches(p, walk.filter)
      BY DEF ListInv
    <3> QED
      BY <2>1, <3>1, Zenon DEF Types, Matches
  <2> QED
    BY <2>1, <2>2, MeanwhileKeeps
<1> QED
  BY <1>1, BeginKeeps, NextPageKeeps, StoreKeeps, ChangeKeeps DEF Next

LEMMA AlwaysLists == Spec => []ListInv
BY InitLists, NextLists, PTL DEF Spec

\* The pages a client is given (listPage with the cursor of the page before) list
\* payments strictly from newest to oldest, none twice, whatever others store or
\* change between two requests.
THEOREM PagesNewestFirst == Spec => []NewestFirst
<1>1. ListInv => NewestFirst
  <2> SUFFICES ASSUME ListInv, NEW i \in 1..Len(walk.got) - 1
               PROVE  Older(Key(walk.got[i + 1]), Key(walk.got[i]))
    BY DEF NewestFirst
  <2>1. Descends(walk.got) /\ walk.got \in Seq(DOMAIN payments)
    BY DEF ListInv, WalkOK
  <2>2. Len(walk.got) \in Nat /\ DOMAIN walk.got = 1..Len(walk.got)
    BY <2>1
  <2>3. i \in 1..Len(walk.got) /\ i + 1 \in 1..Len(walk.got) /\ i < i + 1
    BY <2>2
  <2> QED
    BY <2>1, <2>2, <2>3 DEF Descends
<1> QED
  BY <1>1, AlwaysLists, PTL

\* A payment that matches the filter from the first page on is in the pages got,
\* or older than the cursor of a walk that goes on: the extra row listPage asks
\* for ends a walk only when nothing is left, and the cursor keeps all of a
\* payment's place in the order.
THEOREM PagesSkipNone == Spec => []NoneSkipped
<1>1. ListInv => NoneSkipped
  BY DEF ListInv, Due, NoneSkipped
<1> QED
  BY <1>1, AlwaysLists, PTL
=============================================================================
