------------------------------ MODULE Products ------------------------------
(***************************************************************************)
(* Writing a resource: create, partial update, soft delete and lookup of   *)
(* one table by concurrent requests, from the repository of a generated    *)
(* resource (.co/scaffold/resource/data.go.tmpl) down to the statements of *)
(* internal/data/models/products.sql.go.                                   *)
(*                                                                         *)
(* A request runs its statements in one transaction; a request without     *)
(* ExecTx is one of a single statement.  The database is PostgreSQL at     *)
(* READ COMMITTED: a request sees committed rows and its own drafts, a     *)
(* statement that meets the draft of another request waits until that one  *)
(* has ended and then looks again, and a wait that can never end is broken *)
(* by failing one of the statements.  That a transaction takes effect      *)
(* whole or not at all is the contract of module AtomicCalls.              *)
(***************************************************************************)
EXTENDS Money, FiniteSets

CONSTANTS
  Requests,
  MaxId,          \* bound: the ids BIGSERIAL hands out
  MaxStatements,  \* bound: statements of all requests together
  Codes,          \* values of the unique column
  Names,          \* values of a column anyone may change
  Prices,         \* prices callers send, as float64
  MaxPrice,       \* the largest price of the column, in cents
  Unset,          \* a nil pointer in the parameters of an update
  NoRow           \* no row, or no draft of one

ASSUME RowBounds == MaxId \in Nat /\ MaxStatements \in Nat
ASSUME PriceAssumption ==
  /\ MaxPrice \in Nat
  /\ Prices \subseteq [int : Int, exp : Int] \cup {NaN}
  /\ NaN \notin [int : Int, exp : Int]
ASSUME MarkersAssumption ==
  Unset \notin Names \cup Prices \cup Codes

Ids == 1..MaxId

ASSUME CodesAssumption == Codes \cap Ids = {}

VARIABLES
  rows,     \* rows[i]: the committed version of row i
  draft,    \* draft[c][i]: the version request c has written and not committed
  next,     \* the id the next insert takes
  at,       \* at[c]: where request c is
  left,     \* statements that may still be sent
  ans,      \* ans[c]: the answer to the last statement of request c
  told,     \* told[c]: rows a delete of request c was said to have hit
  ask,      \* ask[c][i]: the values request c has set in row i
  wrote     \* wrote[i]: the values last set in row i by a committed request

tableVars == <<rows, draft, next>>
ghostVars == <<told, ask, wrote>>
vars == <<tableVars, at, left, ans, ghostVars>>

\* What the price column can hold, in cents.
Cents == (-MaxPrice)..MaxPrice \cup {NaN}

Row == [live : BOOLEAN, code : Codes, name : Names, price : Cents]

ASSUME NoRowAssumption == NoRow \notin Row

\* The values a request gives to the columns it may leave unset.
Values == [name : Names \cup {Unset}, price : Prices \cup {Unset}]
Nothing == [name |-> Unset, price |-> Unset]

Kinds == {"none", "row", "not_found", "duplicate", "deleted", "missing", "invalid",
          "failed"}

\* An answer; by is the id or the code the statement was about.
Answer(kind, by) == [kind |-> kind, by |-> by]

TypeOK ==
  /\ rows \in [Ids -> Row \cup {NoRow}]
  /\ draft \in [Requests -> [Ids -> Row \cup {NoRow}]]
  /\ next \in 1..MaxId + 1
  /\ at \in [Requests -> {"idle", "open", "aborted", "committed", "rolled_back"}]
  /\ left \in 0..MaxStatements
  /\ ans \in [Requests -> [kind : Kinds,
                          by : {{i} : i \in Ids} \cup {{k} : k \in Codes} \cup {{}}]]
  /\ told \in [Requests -> SUBSET Ids]
  /\ ask \in [Requests -> [Ids -> Values]]
  /\ wrote \in [Ids -> Values]

NoDrafts == [i \in Ids |-> NoRow]

Init ==
  /\ rows = [i \in Ids |-> NoRow]
  /\ draft = [c \in Requests |-> NoDrafts]
  /\ next = 1
  /\ at = [c \in Requests |-> "idle"]
  /\ left = MaxStatements
  /\ ans = [c \in Requests |-> Answer("none", {})]
  /\ told = [c \in Requests |-> {}]
  /\ ask = [c \in Requests |-> [i \in Ids |-> Nothing]]
  /\ wrote = [i \in Ids |-> Nothing]

-----------------------------------------------------------------------------
(* What a statement sees. *)

\* Variant: queries bound to the pool, not to the context of the request.
CommittedOnly(c, i) == rows[i]

\* models.New(r.data.DB(ctx)): the transaction's own drafts first.
Visible(c, i) == IF draft[c][i] # NoRow THEN draft[c][i] ELSE rows[i]

\* Variant: without AND deleted_at IS NULL.
AnyVersion(c, i) == Visible(c, i) # NoRow

\* WHERE id = $1 AND deleted_at IS NULL.
Live(c, i) == Visible(c, i) # NoRow /\ Visible(c, i).live

\* Another request has a draft of the row: an UPDATE of it waits.
Locked(c, i) == \E d \in Requests \ {c} : draft[d][i] # NoRow

\* Another request has a draft with the code: the unique index waits for it.
CodeLocked(c, k) ==
  \E d \in Requests \ {c}, i \in Ids : draft[d][i] # NoRow /\ draft[d][i].code = k

\* Variant: an index without WHERE deleted_at IS NULL.
EverTaken(c, k) == \E i \in Ids : Visible(c, i) # NoRow /\ Visible(c, i).code = k

\* Variant: no unique index.
NeverTaken(c, k) == FALSE

\* The partial unique index on the code.
Taken(c, k) == \E i \in Ids : Live(c, i) /\ Visible(c, i).code = k

\* Variant: a plain assignment in the UPDATE.
Assign(value, old) == value

Coalesce(value, old) == IF value = Unset THEN old ELSE value

\* The values set in a row: later ones replace earlier ones.
Later(new, old) ==
  [name |-> Coalesce(new.name, old.name), price |-> Coalesce(new.price, old.price)]

\* The repository can convert a price, and the price the column keeps of it.
Valid(p) == Float64ToNumeric(p).ok
InCents(p) == Kept(Float64ToNumeric(p).numeric)
Fits(p) == Valid(p) /\ InCents(p) \in Cents

\* What a create may ask for: its price has a rule, the one of an update has
\* none (proto.tmpl 44-46, 98).
Priced(p) == p # NaN /\ p.int >= 0

-----------------------------------------------------------------------------
(* The statements. *)

\* ExecTx begins, or a statement without it.
Begin(c) ==
  /\ at[c] = "idle"
  /\ at' = [at EXCEPT ![c] = "open"]
  /\ UNCHANGED <<tableVars, left, ans, ghostVars>>

\* A statement is sent and answered.
Statement(c, answer) ==
  /\ at[c] = "open" /\ left > 0
  /\ left' = left - 1
  /\ ans' = [ans EXCEPT ![c] = answer]

\* The server aborts the transaction with the statement.
Aborts(c, answer) ==
  /\ Statement(c, answer)
  /\ at' = [at EXCEPT ![c] = "aborted"]
  /\ UNCHANGED <<rows, draft, ghostVars>>

\* CreateProduct: the row is written.
Create(c, k, n, p) ==
  /\ next \in Ids
  /\ ~CodeLocked(c, k) /\ ~Taken(c, k)
  /\ Priced(p) /\ Fits(p)
  /\ Statement(c, Answer("row", {next}))
  /\ draft' = [draft EXCEPT ![c][next] =
                 [live |-> TRUE, code |-> k, name |-> n, price |-> InCents(p)]]
  /\ ask' = [ask EXCEPT ![c][next] = [name |-> n, price |-> p]]
  /\ next' = next + 1
  /\ UNCHANGED <<rows, at, told, wrote>>

\* CreateProduct: the unique index refuses the code.  The id is used up.
CreateRefused(c, k) ==
  /\ next \in Ids
  /\ ~CodeLocked(c, k) /\ Taken(c, k)
  /\ Aborts(c, Answer("duplicate", {k}))
  /\ next' = next + 1

\* CreateProduct: the price does not fit the column.
CreateTooDear(c, p) ==
  /\ next \in Ids
  /\ Priced(p) /\ Valid(p) /\ ~Fits(p)
  /\ Aborts(c, Answer("failed", {}))
  /\ next' = next + 1

\* Variant: the update does not wait for the request that has the row.
UpdateUnlocked(c, i, v) ==
  /\ Live(c, i)
  /\ v.price # Unset => Fits(v.price)
  /\ Statement(c, Answer("row", {i}))
  /\ draft' = [draft EXCEPT ![c][i] =
                 [Visible(c, i) EXCEPT
                    !.name = Coalesce(v.name, @),
                    !.price = IF v.price = Unset THEN @ ELSE InCents(v.price)]]
  /\ ask' = [ask EXCEPT ![c][i] = Later(v, @)]
  /\ UNCHANGED <<rows, next, at, told, wrote>>

\* UpdateProduct: COALESCE keeps the columns whose parameter is NULL.
Update(c, i, v) ==
  /\ ~Locked(c, i) /\ Live(c, i)
  /\ v.price # Unset => Fits(v.price)
  /\ Statement(c, Answer("row", {i}))
  /\ draft' = [draft EXCEPT ![c][i] =
                 [Visible(c, i) EXCEPT
                    !.name = Coalesce(v.name, @),
                    !.price = IF v.price = Unset THEN @ ELSE InCents(v.price)]]
  /\ ask' = [ask EXCEPT ![c][i] = Later(v, @)]
  /\ UNCHANGED <<rows, next, at, told, wrote>>

\* UpdateProduct returns no row: ErrNoRows, which the repository translates.
UpdateMisses(c, i) ==
  /\ ~Locked(c, i) /\ ~Live(c, i)
  /\ Statement(c, Answer("not_found", {i}))
  /\ UNCHANGED <<tableVars, at, ghostVars>>

\* Variant: WHERE id = $1 only.
SoftDeleteAgain(c, i) ==
  /\ ~Locked(c, i) /\ Visible(c, i) # NoRow
  /\ Statement(c, Answer("deleted", {i}))
  /\ draft' = [draft EXCEPT ![c][i] = [Visible(c, i) EXCEPT !.live = FALSE]]
  /\ told' = [told EXCEPT ![c] = @ \cup {i}]
  /\ UNCHANGED <<rows, next, at, ask, wrote>>

\* SoftDeleteProduct: one row affected.
SoftDelete(c, i) ==
  /\ ~Locked(c, i) /\ Live(c, i)
  /\ Statement(c, Answer("deleted", {i}))
  /\ draft' = [draft EXCEPT ![c][i] = [Visible(c, i) EXCEPT !.live = FALSE]]
  /\ told' = [told EXCEPT ![c] = @ \cup {i}]
  /\ UNCHANGED <<rows, next, at, ask, wrote>>

\* SoftDeleteProduct: no row affected, which is not an error.
SoftDeleteMisses(c, i) ==
  /\ ~Locked(c, i) /\ ~Live(c, i)
  /\ Statement(c, Answer("missing", {i}))
  /\ UNCHANGED <<tableVars, at, ghostVars>>

\* GetProduct.
Get(c, i) ==
  /\ Statement(c, Answer(IF Live(c, i) THEN "row" ELSE "not_found", {i}))
  /\ UNCHANGED <<tableVars, at, ghostVars>>

\* GetProductBySpuCode: :one takes the first row there is.
GetByCode(c, k) ==
  /\ \/ \E i \in Ids :
          /\ Live(c, i) /\ Visible(c, i).code = k
          /\ Statement(c, Answer("row", {i}))
     \/ /\ ~Taken(c, k)
        /\ Statement(c, Answer("not_found", {k}))
  /\ UNCHANGED <<tableVars, at, ghostVars>>

\* Create and Update cannot convert the price: no statement is sent, and the
\* transaction stays as it is.
PriceInvalid(c, p) ==
  /\ at[c] = "open" /\ ~Valid(p)
  /\ ans' = [ans EXCEPT ![c] = Answer("invalid", {})]
  /\ UNCHANGED <<tableVars, at, left, ghostVars>>

\* A statement fails: the connection, the context, an update whose price does
\* not fit the column, or a wait that would never end.
StatementFails(c) ==
  /\ Aborts(c, Answer("failed", {}))
  /\ UNCHANGED next

-----------------------------------------------------------------------------
(* The end of a request. *)

\* Nothing of a request is left but what it has committed.
Ends(c) ==
  /\ draft' = [draft EXCEPT ![c] = NoDrafts]
  /\ ans' = [ans EXCEPT ![c] = Answer("none", {})]
  /\ ask' = [ask EXCEPT ![c] = [i \in Ids |-> Nothing]]

Commit(c) ==
  /\ at[c] = "open"
  /\ at' = [at EXCEPT ![c] = "committed"]
  /\ rows' = [i \in Ids |-> Visible(c, i)]
  /\ wrote' = [i \in Ids |-> Later(ask[c][i], wrote[i])]
  /\ Ends(c)
  /\ UNCHANGED <<next, left, told>>

\* After an aborted statement, or because fn returned an error.
Rollback(c) ==
  /\ at[c] \in {"open", "aborted"}
  /\ at' = [at EXCEPT ![c] = "rolled_back"]
  /\ Ends(c)
  /\ told' = [told EXCEPT ![c] = {}]
  /\ UNCHANGED <<rows, next, left, wrote>>

Request(c) ==
  \/ Begin(c)
  \/ \E k \in Codes, n \in Names, p \in Prices : Create(c, k, n, p)
  \/ \E k \in Codes : CreateRefused(c, k) \/ GetByCode(c, k)
  \/ \E p \in Prices : CreateTooDear(c, p) \/ PriceInvalid(c, p)
  \/ \E i \in Ids, v \in Values : Update(c, i, v)
  \/ \E i \in Ids :
       \/ UpdateMisses(c, i)
       \/ SoftDelete(c, i)
       \/ SoftDeleteMisses(c, i)
       \/ Get(c, i)
  \/ StatementFails(c)
  \/ Commit(c)
  \/ Rollback(c)

Next == \E c \in Requests : Request(c)

Spec == Init /\ [][Next]_vars

-----------------------------------------------------------------------------
(* Properties. *)

\* No two committed rows that are not deleted have one code, and no request
\* ever sees two: what the partial unique index of schema.sql.tmpl 28-31 is
\* for, and what GetProductBySpuCode (:one) relies on.
UniqueLiveCodes ==
  \A c \in Requests, i, j \in Ids :
    Live(c, i) /\ Live(c, j) /\ Visible(c, i).code = Visible(c, j).code => i = j

\* Every column of a committed row has the value that was last set in it by a
\* committed request: two partial updates of different columns do not undo
\* each other (queries.sql.tmpl 42-55).
NoFieldLost ==
  \A i \in Ids : rows[i] # NoRow =>
    /\ rows[i].name = wrote[i].name
    /\ rows[i].price = InCents(wrote[i].price)

\* A delete tells its caller whether it hit (data.go.tmpl 140-147): of all
\* requests that committed, exactly one was told so for a deleted row, and
\* none for another.
DeleteToldOnce ==
  \A i \in Ids :
    LET tellers == {c \in Requests : at[c] = "committed" /\ i \in told[c]}
    IN  Cardinality(tellers) = IF rows[i] # NoRow /\ ~rows[i].live THEN 1 ELSE 0

\* The repository looks through the transaction of its context (data.go.tmpl
\* 29-34): a request is not told that a row it has just written is missing.
ReadsOwnWrites ==
  \A c \in Requests, i \in Ids :
    /\ at[c] = "open" /\ ans[c].kind = "not_found"
    /\ draft[c][i] # NoRow
    /\ draft[c][i].live
    => ans[c].by \notin {{i}, {draft[c][i].code}}

\* A code that was deleted can be created again (schema.sql.tmpl 28-29): who
\* is refused as a duplicate sees a row with that code of which nobody was
\* told that it is deleted.
DeletedCodesAreFree ==
  [][\A c \in Requests, k \in Codes :
       ans[c] # Answer("duplicate", {k}) /\ ans'[c] = Answer("duplicate", {k}) =>
         \E i \in Ids :
           /\ Visible(c, i) # NoRow /\ Visible(c, i).code = k
           /\ i \notin told[c]
           /\ \A d \in Requests : at[d] = "committed" => i \notin told[d]]_vars

\* A deleted row stays as it was when it was deleted (schema.sql.tmpl 24).
DeletedForGood ==
  [][\A i \in Ids :
       rows[i] # NoRow => rows'[i] # NoRow /\ (~rows[i].live => rows'[i] = rows[i])]_vars

\* The price last set in a row, as request c sees it.
LastPrice(c, i) ==
  Later(IF draft[c][i] # NoRow THEN ask[c][i] ELSE Nothing, wrote[i]).price

\* Whoever reads a row gets its price (data.go.tmpl 152, numeric.go 47-68):
\* whatever form the driver returns the column in, it is converted, and is
\* within half a cent of the price that was last set, negative or not, and NaN
\* if that was set.
ReadersGetPrices ==
  \A c \in Requests, i \in Ids :
    Visible(c, i) # NoRow =>
      \A n \in Forms(Visible(c, i).price) :
        LET read == NumericToFloat(n)
            set == LastPrice(c, i)
        IN  /\ read.ok
            /\ read.float = NaN <=> set = NaN
            /\ set # NaN => WithinHalfACent(read.float, set)

-----------------------------------------------------------------------------
(* Products implements ResourceTable. *)

\* What request c has asked for in row i, and not what its draft made of it.
Asked(c, i) ==
  LET price == ask[c][i].price
  IN  [live |-> i \notin told[c], code |-> draft[c][i].code, name |-> ask[c][i].name,
       price |-> IF price = Unset THEN Unset ELSE InCents(price)]

\* The columns it has set.
SetColumns(c, i) ==
  IF draft[c][i] = NoRow THEN {}
  ELSE IF rows[i] = NoRow THEN {"live", "code", "name", "price"}
  ELSE (IF i \in told[c] THEN {"live"} ELSE {})
         \cup {column \in {"name", "price"} : ask[c][i][column] # Unset}

Change(c, i) ==
  LET asked == Asked(c, i)
  IN  [column \in SetColumns(c, i) |-> asked[column]]

Table == INSTANCE ResourceTable
  WITH change <- [c \in Requests |-> [i \in Ids |-> Change(c, i)]]

\* Requests that read, wait, write and fail in any order do to the table what
\* ResourceTable promises: what a request has asked for appears at its commit,
\* all of it, laid over the rows as they are then, and nothing else does
\* (data.go.tmpl 29-34, queries.sql.tmpl 42-55, schema.sql.tmpl 28-31).
ImplementsResourceTable == Table!AbsSpec
=============================================================================
