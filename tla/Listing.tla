------------------------------ MODULE Listing ------------------------------
(***************************************************************************)
(* Reading a resource page by page while others write it: the List call of *)
(* a generated resource (.co/scaffold/resource), from the RPC handler over *)
(* the use case and the repository down to the keyset query.               *)
(*                                                                         *)
(* A walk is what a front end does with List: ask for the first page, pass *)
(* the cursor of each answer back, stop at the answer without one.  Each   *)
(* page is two statements, ListXs and CountXs, with a snapshot each.       *)
(* Between any two statements other requests insert, update and soft       *)
(* delete rows.  A row is reduced to what the query looks at: created_at,  *)
(* status and deleted_at.  A row's id and created_at are fixed when its    *)
(* transaction takes them and others see the row when it commits, so new   *)
(* rows turn up in any order of ids and times.                             *)
(***************************************************************************)
EXTENDS Naturals, FiniteSets

CONSTANTS
  Walks,          \* walks over the list, each by one client
  MaxId,          \* bound: the ids BIGSERIAL hands out
  MaxTime,        \* bound: the values of now()
  Statuses,       \* values of the status column
  Initial,        \* the status rows are created with
  AnyStatus,      \* "no filter", the empty string of the request
  NoCursor,       \* no cursor in the request: the first page
  Sizes,          \* page sizes clients ask for, 0 being "not set"
  DefaultSize,    \* defaultPageSize
  MaxSize         \* maxPageSize

ASSUME BoundsAssumption == MaxId \in Nat /\ MaxTime \in Nat
ASSUME SizesAssumption ==
  \* The validation interceptor refuses other sizes (proto.tmpl 76-79).
  /\ MaxSize \in Nat /\ DefaultSize \in 1..MaxSize
  /\ Sizes \subseteq 0..MaxSize
ASSUME NamesAssumption ==
  Initial \in Statuses /\ AnyStatus \notin Statuses /\ NoCursor \notin Nat \X Nat

Ids == 1..MaxId
Times == 0..MaxTime

VARIABLES
  life,       \* life[i]: the row, as the statements of others see it
  created,    \* created[i]: its created_at
  status,     \* status[i]: its status
  at,         \* at[w]: where walk w is
  size,       \* size[w]: the page_size of its requests
  filter,     \* filter[w]: the status it asks for, or AnyStatus
  cursor,     \* cursor[w]: the cursor of its current request
  page,       \* page[w]: rows the list statement of this request returned
  seen,       \* seen[w]: rows in the answers so far
  lasting     \* lasting[w]: rows in the list ever since w began

rowVars == <<life, created, status>>
walkVars == <<at, size, filter, cursor, page, seen>>
vars == <<rowVars, walkVars, lasting>>

TypeOK ==
  /\ life \in [Ids -> {"absent", "live", "deleted"}]
  /\ created \in [Ids -> Times]
  /\ status \in [Ids -> Statuses]
  /\ at \in [Walks -> {"idle", "listing", "counting", "ended", "failed"}]
  /\ size \in [Walks -> Sizes]
  /\ filter \in [Walks -> Statuses \cup {AnyStatus}]
  /\ cursor \in [Walks -> (Times \X Ids) \cup {NoCursor}]
  /\ page \in [Walks -> SUBSET Ids]
  /\ seen \in [Walks -> SUBSET Ids]
  /\ lasting \in [Walks -> SUBSET Ids]

Init ==
  /\ life = [i \in Ids |-> "absent"]
  /\ created = [i \in Ids |-> 0]
  /\ status = [i \in Ids |-> Initial]
  /\ at = [w \in Walks |-> "idle"]
  /\ size \in [Walks -> Sizes]
  /\ filter \in [Walks -> Statuses \cup {AnyStatus}]
  /\ cursor = [w \in Walks |-> NoCursor]
  /\ page = [w \in Walks |-> {}]
  /\ seen = [w \in Walks |-> {}]
  /\ lasting = [w \in Walks |-> {}]

-----------------------------------------------------------------------------
(* The statements of queries.sql.tmpl. *)

\* (created_at, id) < (k[1], k[2]), the order of the list being the reverse.
Before(i, k) == created[i] < k[1] \/ (created[i] = k[1] /\ i < k[2])

Key(i) == <<created[i], i>>

\* WHERE deleted_at IS NULL AND the status filter.
Matching(w) ==
  {i \in Ids : life[i] = "live" /\ filter[w] \in {AnyStatus, status[i]}}

\* Variant: the cursor compares created_at only.
BeyondByTime(w) ==
  {i \in Ids : cursor[w] = NoCursor \/ created[i] < cursor[w][1]}

\* Variant: the cursor's own row is included.
BeyondInclusive(w) ==
  {i \in Ids : cursor[w] = NoCursor \/ Before(i, cursor[w]) \/ Key(i) = cursor[w]}

\* AND the cursor condition.
Beyond(w) == {i \in Ids : cursor[w] = NoCursor \/ Before(i, cursor[w])}

Candidates(w) == Matching(w) \cap Beyond(w)

\* ORDER BY created_at DESC, id DESC LIMIT n: the first n, or all there are.
IsPage(P, S, n) ==
  /\ \A i \in P, j \in S \ P : Before(j, Key(i))
  /\ \/ Cardinality(P) = n
     \/ Cardinality(P) < n /\ P = S

\* UseCase.List: the size the statement runs with.
Normalised(n) ==
  CASE n <= 0 -> DefaultSize
    [] n > MaxSize -> MaxSize
    [] OTHER -> n

-----------------------------------------------------------------------------
(* A walk. *)

Begin(w) ==
  /\ at[w] = "idle"
  /\ at' = [at EXCEPT ![w] = "listing"]
  /\ lasting' = [lasting EXCEPT ![w] = Matching(w)]
  /\ UNCHANGED <<rowVars, size, filter, cursor, page, seen>>

\* Repo.List, first statement.
List(w) ==
  /\ at[w] = "listing"
  /\ \E P \in SUBSET Candidates(w) :
       /\ IsPage(P, Candidates(w), Normalised(size[w]))
       /\ page' = [page EXCEPT ![w] = P]
  /\ at' = [at EXCEPT ![w] = "counting"]
  /\ UNCHANGED <<rowVars, size, filter, cursor, seen, lasting>>

\* Either statement fails: the request fails and nothing of the page is sent.
PageFails(w) ==
  /\ at[w] \in {"listing", "counting"}
  /\ at' = [at EXCEPT ![w] = "failed"]
  /\ page' = [page EXCEPT ![w] = {}]
  /\ UNCHANGED <<rowVars, size, filter, cursor, seen, lasting>>

\* Service.List: a full page, as the request counts, has a cursor.
Full(w) == Cardinality(page[w]) = size[w] /\ page[w] # {}

Sent(w) ==
  /\ seen' = [seen EXCEPT ![w] = @ \cup page[w]]
  /\ page' = [page EXCEPT ![w] = {}]
  /\ UNCHANGED <<rowVars, size, filter, lasting>>

\* Variant: the cursor is taken from the first row of the page.
AnswerMoreFromFirst(w) ==
  /\ at[w] = "counting" /\ Full(w)
  /\ \E o \in page[w] :
       /\ \A i \in page[w] \ {o} : Before(i, Key(o))
       /\ cursor' = [cursor EXCEPT ![w] = Key(o)]
  /\ at' = [at EXCEPT ![w] = "listing"]
  /\ Sent(w)

\* The count is there; the answer has the cursor of its last row, and the
\* client comes back with it.
AnswerMore(w) ==
  /\ at[w] = "counting" /\ Full(w)
  /\ \E o \in page[w] :
       /\ \A i \in page[w] \ {o} : Before(o, Key(i))
       /\ cursor' = [cursor EXCEPT ![w] = Key(o)]
  /\ at' = [at EXCEPT ![w] = "listing"]
  /\ Sent(w)

\* The answer has no cursor: the client takes it that this was the end.
AnswerLast(w) ==
  /\ at[w] = "counting" /\ ~Full(w)
  /\ at' = [at EXCEPT ![w] = "ended"]
  /\ Sent(w)
  /\ UNCHANGED cursor

-----------------------------------------------------------------------------
(* Other requests. *)

\* CreateX succeeded and its transaction has committed.
Create(i, t) ==
  /\ life[i] = "absent"
  /\ life' = [life EXCEPT ![i] = "live"]
  /\ created' = [created EXCEPT ![i] = t]
  /\ UNCHANGED <<status, walkVars, lasting>>

\* Rows that left a list since the walk began do not count as lasting.
Leave ==
  lasting' = [w \in Walks |->
                {i \in lasting[w] :
                   /\ life'[i] = "live"
                   /\ filter[w] \in {AnyStatus, status'[i]}}]

\* UpdateX with a new status; created_at stays.
UpdateStatus(i, s) ==
  /\ life[i] = "live"
  /\ status' = [status EXCEPT ![i] = s]
  /\ UNCHANGED <<life, created, walkVars>>
  /\ Leave

SoftDelete(i) ==
  /\ life[i] = "live"
  /\ life' = [life EXCEPT ![i] = "deleted"]
  /\ UNCHANGED <<created, status, walkVars>>
  /\ Leave

Page(w) == List(w) \/ AnswerMore(w) \/ AnswerLast(w)

Next ==
  \/ \E w \in Walks : Begin(w) \/ Page(w) \/ PageFails(w)
  \/ \E i \in Ids :
       \/ SoftDelete(i)
       \/ \E t \in Times : Create(i, t)
       \/ \E s \in Statuses : UpdateStatus(i, s)

Spec == Init /\ [][Next]_vars

\* Requests are answered and a client goes on; writers owe nothing.
FairSpec == Spec /\ \A w \in Walks : WF_vars(Page(w))

-----------------------------------------------------------------------------
(* Properties *)

\* A walk that ends has shown every row that was in the list all the time,
\* whatever was written meanwhile (service.go.tmpl 99-104, data.go.tmpl 74-90,
\* queries.sql.tmpl 20-29).
WalkListsEverything ==
  \A w \in Walks : at[w] = "ended" => lasting[w] \subseteq seen[w]

\* No walk shows a row twice: no write moves a row past the cursor
\* (queries.sql.tmpl 26-28, created_at is never updated).
NoRowTwice == \A w \in Walks : page[w] \cap seen[w] = {}

\* A walk ends, however fast rows are added behind it: the cursor only goes
\* one way.
WalkEnds ==
  \A w \in Walks :
    (at[w] = "listing") ~> (at[w] \in {"ended", "failed"})
=============================================================================
