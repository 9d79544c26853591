-------------------------------- MODULE Listing --------------------------------
(***************************************************************************)
(* GET /payments and GET /admin/payments: a client walks the payments page *)
(* by page, newest first, while payments are stored and change status.     *)
(*                                                                         *)
(* created_at is taken before the charge and stored after it, by clocks of *)
(* several replicas, so a payment may be stored older than ones listed     *)
(* already, and two may share an instant; ids order those.                 *)
(***************************************************************************)
EXTENDS Integers, SequencesExt, FiniteSetsExt

CONSTANTS
  MaxPayments,    \* bound: payments stored in a behaviour, with ids 1..MaxPayments
  MaxTime,        \* bound: instants of created_at
  Service,        \* calling services
  defaultLimit,   \* page size when the client names none
  maxPageSize     \* cap of a page

ASSUME BoundsAssumption == MaxPayments \in Nat /\ MaxTime \in Nat
ASSUME PageSizeAssumption == maxPageSize \in Nat /\ defaultLimit \in 1..maxPageSize
ASSUME ServiceAssumption == "" \notin Service

VARIABLES
  payments,  \* the stored rows by id
  walk,      \* the client's filter, page size, the cursor it was given, what it got
  steady     \* payments that have matched the filter ever since the first page

listVars == <<payments, walk, steady>>

Status == {"PENDING", "COMPLETED"}
Row    == [at: 1..MaxTime, service: Service, status: Status]

\* A cursor as the client holds it: "none", a "page"'s last row, or one that got
\* "garbled" and does not decode.
NoCursor == [form |-> "none", at |-> 0, id |-> 0]

\* "" and the ends of time stand for a parameter that is absent.
ListFilter == [status: Status \cup {""}, service: Service \cup {""},
               from: 1..MaxTime, to: 1..MaxTime]

-----------------------------------------------------------------------------
(* One page. *)

Key(p)      == [at |-> payments[p].at, id |-> p]
Older(k, l) == k.at < l.at \/ (k.at = l.at /\ k.id < l.id)

Matches(p, f) ==
  /\ f.status \in {"", payments[p].status}
  /\ f.service \in {"", payments[p].service}
  /\ payments[p].at \in f.from..f.to

After(p, cursor) == cursor.form = "none" \/ Older(Key(p), cursor)

Found(f, cursor) == {p \in DOMAIN payments : Matches(p, f) /\ After(p, cursor)}

\* ORDER BY created_at DESC, id DESC.
Newest(S) ==
  CHOOSE s \in SetToSeqs(S) : \A i, j \in DOMAIN s : i < j => Older(Key(s[j]), Key(s[i]))

\* PaymentRepo.ListPaginated.
ListPaginated(f, cursor, limit) ==
  LET newest == Newest(Found(f, cursor))
  IN  SubSeq(newest, 1, Min({limit, Len(newest)}))

\* Variant: the time goes into the cursor to the second (here, two instants).
encodeCursorSeconds(p) == [form |-> "page", at |-> (payments[p].at \div 2) * 2, id |-> p]

\* RFC3339Nano keeps all of a stored timestamp.
encodeCursor(p) == [form |-> "page", at |-> payments[p].at, id |-> p]

\* Variant: what does not decode is no cursor.
ReadableAll(cursor) == TRUE

\* decodeCursor's error return.
Readable(cursor) == cursor.form # "garbled"

\* The extra row tells whether there is a next page; its cursor is the last row's.
listPage(f, cursor, limit) ==
  LET rows == ListPaginated(f, cursor, limit + 1) IN
  IF Len(rows) > limit
  THEN [payments |-> SubSeq(rows, 1, limit), next |-> encodeCursor(rows[limit])]
  ELSE [payments |-> rows, next |-> NoCursor]

clampLimit(requested) ==
  IF requested <= 0 THEN defaultLimit ELSE Min({requested, maxPageSize})

\* The caller's endpoint lists for a service; only the admin's may leave it out.
Allowed(endpoint, f) == endpoint = "admin" \/ f.service # ""

-----------------------------------------------------------------------------
(* The client's walk. *)

Received(page) ==
  walk' = [walk EXCEPT !.got = @ \o page.payments, !.next = page.next, !.over = page.next.form = "none"]

\* The first request; a page size below one is refused, 0 is none.
Begin ==
  /\ walk.endpoint = "none"
  /\ \E endpoint \in {"caller", "admin"}, f \in ListFilter, requested \in 0..maxPageSize + 1 :
       /\ Allowed(endpoint, f)
       /\ LET page == listPage(f, NoCursor, clampLimit(requested)) IN
          walk' = [endpoint |-> endpoint, filter |-> f, limit |-> clampLimit(requested),
                   got |-> page.payments, next |-> page.next, over |-> page.next.form = "none"]
       /\ steady' = {p \in DOMAIN payments : Matches(p, f)}
  /\ UNCHANGED payments

\* The next one, with the cursor of the last page or one that got garbled.
NextPage ==
  /\ walk.next.form = "page" /\ ~walk.over
  /\ \E cursor \in {walk.next, [NoCursor EXCEPT !.form = "garbled"]} :
       /\ Readable(cursor)
       /\ Received(listPage(walk.filter, IF cursor = walk.next THEN cursor ELSE NoCursor, walk.limit))
  /\ UNCHANGED <<payments, steady>>

-----------------------------------------------------------------------------
(* Meanwhile. *)

\* A payment is stored, its created_at some time ago.
Store ==
  /\ \E p \in (1..MaxPayments) \ DOMAIN payments, row \in [at: 1..MaxTime, service: Service, status: {"PENDING"}] :
       payments' = [q \in DOMAIN payments \cup {p} |-> IF q = p THEN row ELSE payments[q]]
  /\ UNCHANGED <<walk, steady>>

\* It is paid; created_at is never updated.
Change ==
  /\ \E p \in DOMAIN payments :
       /\ payments[p].status = "PENDING"
       /\ payments' = [payments EXCEPT ![p].status = "COMPLETED"]
       /\ steady' = IF walk.filter.status = "PENDING" THEN steady \ {p} ELSE steady
  /\ UNCHANGED walk

Init ==
  /\ payments = [p \in {} |-> NoCursor]
  /\ walk = [endpoint |-> "none", limit |-> defaultLimit, got |-> <<>>, next |-> NoCursor, over |-> FALSE,
             filter |-> [status |-> "", service |-> "", from |-> 1, to |-> MaxTime]]
  /\ steady = {}

Next == Begin \/ NextPage \/ Store \/ Change

Spec == Init /\ [][Next]_listVars

-----------------------------------------------------------------------------
(* Properties. *)

\* A walk lists payments strictly from newest to oldest, across its pages and
\* whatever is stored or changed between them; so none is listed twice, though
\* several share an instant (cursor.go:21).
NewestFirst ==
  \A i \in 1..Len(walk.got) - 1 : Older(Key(walk.got[i + 1]), Key(walk.got[i]))

\* No payment that has matched the filter ever since the first page is passed over:
\* it is in the pages got so far, or older than the cursor of a walk that goes on.
NoneSkipped ==
  \A p \in steady :
    \/ p \in Range(walk.got)
    \/ ~walk.over /\ After(p, walk.next)
=============================================================================
