-------------------------- MODULE Products_proofs --------------------------
(***************************************************************************)
(* Proofs about module Products, for any number of requests, rows, codes,  *)
(* names and prices.                                                       *)
(*                                                                         *)
(* The properties speak of committed rows; what protects them is what      *)
(* requests under way can do to each other.  The invariant says who owns   *)
(* what until the end of a request: a row belongs to the one request that  *)
(* has a draft of it, and so does the code in that draft.  A second one,   *)
(* about answers, is proved on top of it.                                  *)
(***************************************************************************)
EXTENDS Products, Money_proofs, FiniteSetTheorems, TLAPS

Has(c, i) == draft[c][i] # NoRow

LiveRow(i) == rows[i] # NoRow /\ rows[i].live

\* Ids that were not handed out are not in use.
Fresh ==
  \A i \in Ids : i >= next => rows[i] = NoRow /\ \A c \in Requests : ~Has(c, i)

\* A row has at most one writer, and a deleted row has none.
OneWriter ==
  \A c \in Requests, i \in Ids : Has(c, i) =>
    /\ rows[i] # NoRow => rows[i].live
    /\ \A d \in Requests : Has(d, i) => c = d
    /\ at[c] \in {"open", "aborted"}

\* The code of a draft belongs to its request: no other one has a draft with
\* it, and a committed row that holds it is drafted by that request too.
CodeOwner ==
  \A c \in Requests, j \in Ids : Has(c, j) =>
    /\ \A d \in Requests, i \in Ids :
         Has(d, i) /\ draft[d][i].code = draft[c][j].code => c = d
    /\ \A i \in Ids :
         LiveRow(i) /\ rows[i].code = draft[c][j].code => Has(c, i)

\* What every request sees, also one that has no drafts.
UniqueRows ==
  \A i, j \in Ids : LiveRow(i) /\ LiveRow(j) /\ rows[i].code = rows[j].code => i = j

\* What a request has set is what it has drafted.
AskFollows ==
  \A c \in Requests, i \in Ids :
    /\ at[c] \in {"idle", "open"} /\ ~Has(c, i) => ask[c][i] = Nothing
    /\ Has(c, i) =>
         /\ draft[c][i].name = Later(ask[c][i], wrote[i]).name
         /\ draft[c][i].price = InCents(Later(ask[c][i], wrote[i]).price)

\* A request was told of the rows whose drafts are deleted; of those that
\* committed, one was told of each deleted row.
TellersFollow ==
  \A i \in Ids :
    /\ \A c \in Requests : at[c] \in {"idle", "open"} =>
         (i \in told[c] <=> Has(c, i) /\ ~draft[c][i].live)
    /\ \A c \in Requests : at[c] = "committed" /\ i \in told[c] =>
         /\ rows[i] # NoRow /\ ~rows[i].live
         /\ \A d \in Requests : at[d] = "committed" /\ i \in told[d] => c = d
    /\ rows[i] # NoRow /\ ~rows[i].live =>
         \E c \in Requests : at[c] = "committed" /\ i \in told[c]

Core ==
  /\ Fresh
  /\ OneWriter
  /\ CodeOwner
  /\ UniqueRows
  /\ UniqueLiveCodes
  /\ AskFollows
  /\ NoFieldLost
  /\ TellersFollow

\* The inductive invariant.
IInv == TypeOK /\ Core

-----------------------------------------------------------------------------
(* Types. *)

\* A draft of a row is a row.
LEMMA VisibleRow ==
  ASSUME TypeOK, NEW c \in Requests, NEW i \in Ids
  PROVE  /\ Visible(c, i) \in Row \cup {NoRow}
         /\ Has(c, i) => draft[c][i] \in Row
         /\ rows[i] # NoRow => rows[i] \in Row
         /\ Live(c, i) => Visible(c, i) \in Row
BY DEF TypeOK, Visible, Has, Live

\* Setting some of the columns of a row gives a row.
LEMMA UpdatedRow ==
  ASSUME NEW r \in Row, NEW v \in Values,
         v.price # Unset => Fits(v.price)
  PROVE  [r EXCEPT !.name = Coalesce(v.name, @),
                   !.price = IF v.price = Unset THEN @ ELSE InCents(v.price)] \in Row
<1>1. Coalesce(v.name, r.name) \in Names
  BY DEF Coalesce, Values, Row
<1>2. v.price # Unset => InCents(v.price) \in Cents
  BY DEF Fits
<1>. QED  BY <1>1, <1>2 DEF Row

\* Later values are values.
LEMMA LaterValues ==
  ASSUME NEW v \in Values, NEW w \in Values
  PROVE  Later(v, w) \in Values
BY DEF Later, Values, Coalesce

\* What an answer may be about.
Subjects == {{i} : i \in Ids} \cup {{k} : k \in Codes} \cup {{}}

\* A statement is counted and answered.
LEMMA StatementTypes ==
  ASSUME TypeOK, NEW c \in Requests, NEW kind \in Kinds, NEW by \in Subjects,
         Statement(c, Answer(kind, by))
  PROVE  /\ left' \in 0..MaxStatements
         /\ ans' \in [Requests -> [kind : Kinds, by : Subjects]]
<1>1. left' \in 0..MaxStatements
  BY RowBounds DEF TypeOK, Statement
<1>2. Answer(kind, by) \in [kind : Kinds, by : Subjects]
  BY DEF Answer
<1>3. ans \in [Requests -> [kind : Kinds, by : Subjects]]
  BY DEF TypeOK, Subjects
<1>. QED  BY <1>1, <1>2, <1>3 DEF Statement

\* The ids come to an end.
LEMMA NextId ==
  ASSUME TypeOK, next \in Ids
  PROVE  next + 1 \in 1..MaxId + 1
BY RowBounds DEF TypeOK, Ids

\* A request that ends leaves nothing behind.
LEMMA EndTypes ==
  ASSUME TypeOK, NEW c \in Requests, Ends(c)
  PROVE  /\ draft' \in [Requests -> [Ids -> Row \cup {NoRow}]]
         /\ ans' \in [Requests -> [kind : Kinds, by : Subjects]]
         /\ ask' \in [Requests -> [Ids -> Values]]
<1>1. [i \in Ids |-> Nothing] \in [Ids -> Values]
  BY DEF Nothing, Values
<1>2. Answer("none", {}) \in [kind : Kinds, by : Subjects]
  BY DEF Answer, Kinds, Subjects
<1>3. NoDrafts \in [Ids -> Row \cup {NoRow}]
  BY DEF NoDrafts
<1>. QED  BY <1>1, <1>2, <1>3 DEF Ends, TypeOK, Subjects

\* The variables have their types after every step.
LEMMA NextTypeOK == TypeOK /\ [Next]_vars => TypeOK'
<1>. SUFFICES ASSUME TypeOK, [Next]_vars PROVE TypeOK'
  OBVIOUS
<1>. USE DEF TypeOK
<1>1. ASSUME NEW c \in Requests, Begin(c) PROVE TypeOK'
  BY <1>1 DEF Begin, tableVars, ghostVars
<1>2. ASSUME NEW c \in Requests, NEW k \in Codes, NEW n \in Names, NEW p \in Prices,
             Create(c, k, n, p)
      PROVE  TypeOK'
  <2>1. [live |-> TRUE, code |-> k, name |-> n, price |-> InCents(p)] \in Row
    BY <1>2 DEF Create, Row, Fits
  <2>2. [name |-> n, price |-> p] \in Values
    BY DEF Values
  <2>3. draft' \in [Requests -> [Ids -> Row \cup {NoRow}]]
    BY <1>2, <2>1 DEF Create
  <2>4. ask' \in [Requests -> [Ids -> Values]]
    BY <1>2, <2>2 DEF Create
  <2>5. next' \in 1..MaxId + 1
    BY <1>2, NextId DEF Create
  <2>6. {next} \in Subjects /\ "row" \in Kinds
    BY <1>2 DEF Create, Subjects, Kinds
  <2>7. left' \in 0..MaxStatements /\ ans' \in [Requests -> [kind : Kinds, by : Subjects]]
    BY <1>2, <2>6, StatementTypes DEF Create
  <2>. QED  BY <1>2, <2>3, <2>4, <2>5, <2>7 DEF Create, Subjects
<1>3. ASSUME NEW c \in Requests, NEW k \in Codes, CreateRefused(c, k) PROVE TypeOK'
  <2>1. Statement(c, Answer("duplicate", {k}))
    BY <1>3 DEF CreateRefused, Aborts
  <2>2. {k} \in Subjects /\ "duplicate" \in Kinds
    BY DEF Subjects, Kinds
  <2>3. left' \in 0..MaxStatements /\ ans' \in [Requests -> [kind : Kinds, by : Subjects]]
    BY <2>1, <2>2, StatementTypes
  <2>. QED  BY <1>3, <2>3, NextId DEF CreateRefused, Aborts, Subjects, ghostVars
<1>4. ASSUME NEW c \in Requests, NEW p \in Prices, CreateTooDear(c, p) PROVE TypeOK'
  <2>1. Statement(c, Answer("failed", {}))
    BY <1>4 DEF CreateTooDear, Aborts
  <2>2. {} \in Subjects /\ "failed" \in Kinds
    BY DEF Subjects, Kinds
  <2>3. left' \in 0..MaxStatements /\ ans' \in [Requests -> [kind : Kinds, by : Subjects]]
    BY <2>1, <2>2, StatementTypes
  <2>. QED  BY <1>4, <2>3, NextId DEF CreateTooDear, Aborts, Subjects, ghostVars
<1>5. ASSUME NEW c \in Requests, NEW i \in Ids, NEW v \in Values, Update(c, i, v)
      PROVE  TypeOK'
  <2>1. Visible(c, i) \in Row
    BY <1>5, VisibleRow DEF Update
  <2>2. [Visible(c, i) EXCEPT
           !.name = Coalesce(v.name, @),
           !.price = IF v.price = Unset THEN @ ELSE InCents(v.price)] \in Row
    BY <1>5, <2>1, UpdatedRow DEF Update
  <2>3. draft' \in [Requests -> [Ids -> Row \cup {NoRow}]]
    BY <1>5, <2>2 DEF Update
  <2>4. Later(v, ask[c][i]) \in Values
    BY LaterValues
  <2>5. ask' \in [Requests -> [Ids -> Values]]
    BY <1>5, <2>4 DEF Update
  <2>6. {i} \in Subjects /\ "row" \in Kinds
    BY DEF Subjects, Kinds
  <2>7. left' \in 0..MaxStatements /\ ans' \in [Requests -> [kind : Kinds, by : Subjects]]
    BY <1>5, <2>6, StatementTypes DEF Update
  <2>. QED  BY <1>5, <2>3, <2>5, <2>7 DEF Update, Subjects
<1>6. ASSUME NEW c \in Requests, NEW i \in Ids,
             UpdateMisses(c, i) \/ SoftDeleteMisses(c, i) \/ Get(c, i)
      PROVE  TypeOK'
  <2>1. PICK kind \in Kinds : Statement(c, Answer(kind, {i}))
    BY <1>6 DEF UpdateMisses, SoftDeleteMisses, Get, Kinds
  <2>2. left' \in 0..MaxStatements /\ ans' \in [Requests -> [kind : Kinds, by : Subjects]]
    BY <2>1, StatementTypes DEF Subjects
  <2>3. UNCHANGED <<tableVars, at, ghostVars>>
    BY <1>6 DEF UpdateMisses, SoftDeleteMisses, Get
  <2>. QED  BY <2>2, <2>3 DEF Subjects, tableVars, ghostVars
<1>7. ASSUME NEW c \in Requests, NEW i \in Ids, SoftDelete(c, i) PROVE TypeOK'
  <2>1. [Visible(c, i) EXCEPT !.live = FALSE] \in Row
    <3>1. Visible(c, i) \in Row
      BY <1>7, VisibleRow DEF SoftDelete
    <3>. QED  BY <3>1 DEF Row
  <2>2. draft' \in [Requests -> [Ids -> Row \cup {NoRow}]]
    BY <1>7, <2>1 DEF SoftDelete
  <2>3. told' \in [Requests -> SUBSET Ids]
    BY <1>7 DEF SoftDelete
  <2>4. {i} \in Subjects /\ "deleted" \in Kinds
    BY DEF Subjects, Kinds
  <2>5. left' \in 0..MaxStatements /\ ans' \in [Requests -> [kind : Kinds, by : Subjects]]
    BY <1>7, <2>4, StatementTypes DEF SoftDelete
  <2>. QED  BY <1>7, <2>2, <2>3, <2>5 DEF SoftDelete, Subjects
<1>8. ASSUME NEW c \in Requests, NEW k \in Codes, GetByCode(c, k) PROVE TypeOK'
  <2>1. PICK kind \in Kinds, by \in Subjects : Statement(c, Answer(kind, by))
    BY <1>8 DEF GetByCode, Kinds, Subjects
  <2>2. left' \in 0..MaxStatements /\ ans' \in [Requests -> [kind : Kinds, by : Subjects]]
    BY <2>1, StatementTypes
  <2>3. UNCHANGED <<tableVars, at, ghostVars>>
    BY <1>8 DEF GetByCode
  <2>. QED  BY <2>2, <2>3 DEF Subjects, tableVars, ghostVars
<1>9. ASSUME NEW c \in Requests, StatementFails(c) PROVE TypeOK'
  <2>1. Statement(c, Answer("failed", {}))
    BY <1>9 DEF StatementFails, Aborts
  <2>2. {} \in Subjects /\ "failed" \in Kinds
    BY DEF Subjects, Kinds
  <2>3. left' \in 0..MaxStatements /\ ans' \in [Requests -> [kind : Kinds, by : Subjects]]
    BY <2>1, <2>2, StatementTypes
  <2>. QED  BY <1>9, <2>3 DEF StatementFails, Aborts, Subjects, ghostVars
<1>10. ASSUME NEW c \in Requests, Commit(c) PROVE TypeOK'
  <2>1. rows' \in [Ids -> Row \cup {NoRow}]
    BY <1>10, VisibleRow DEF Commit
  <2>2. wrote' \in [Ids -> Values]
    BY <1>10, LaterValues DEF Commit
  <2>3. /\ draft' \in [Requests -> [Ids -> Row \cup {NoRow}]]
        /\ ans' \in [Requests -> [kind : Kinds, by : Subjects]]
        /\ ask' \in [Requests -> [Ids -> Values]]
    BY <1>10, EndTypes DEF Commit
  <2>. QED  BY <1>10, <2>1, <2>2, <2>3 DEF Commit, Subjects
<1>11. ASSUME NEW c \in Requests, Rollback(c) PROVE TypeOK'
  <2>1. /\ draft' \in [Requests -> [Ids -> Row \cup {NoRow}]]
        /\ ans' \in [Requests -> [kind : Kinds, by : Subjects]]
        /\ ask' \in [Requests -> [Ids -> Values]]
    BY <1>11, EndTypes DEF Rollback
  <2>. QED  BY <1>11, <2>1 DEF Rollback, Subjects
<1>12. ASSUME NEW c \in Requests, NEW p \in Prices, PriceInvalid(c, p) PROVE TypeOK'
  <2>1. Answer("invalid", {}) \in [kind : Kinds, by : Subjects]
    BY DEF Answer, Kinds, Subjects
  <2>2. ans' \in [Requests -> [kind : Kinds, by : Subjects]]
    BY <1>12, <2>1 DEF PriceInvalid, Subjects
  <2>. QED  BY <1>12, <2>2 DEF PriceInvalid, Subjects, tableVars, ghostVars
<1>13. CASE UNCHANGED vars
  BY <1>13 DEF vars, tableVars, ghostVars
<1>. QED
  BY <1>1, <1>2, <1>3, <1>4, <1>5, <1>6, <1>7, <1>8, <1>9, <1>10, <1>11, <1>12, <1>13
     DEF Next, Request

-----------------------------------------------------------------------------
(* Who owns what. *)

\* A request whose begin, statement or abort writes nothing disturbs nobody.
LEMMA WritesNothing ==
  ASSUME TypeOK, Core, UNCHANGED <<rows, draft, ghostVars>>,
         next' \in {next, next + 1},
         \A c \in Requests :
           \/ at'[c] = at[c]
           \/ at[c] = "idle" /\ at'[c] = "open"
           \/ at[c] = "open" /\ at'[c] = "aborted"
  PROVE  Core'
<1>. USE DEF Core, ghostVars, Has, LiveRow
<1>1. Fresh'
  BY DEF Fresh, Ids, TypeOK
<1>2. OneWriter' /\ CodeOwner' /\ UniqueRows'
  BY DEF OneWriter, CodeOwner, UniqueRows
<1>3. UniqueLiveCodes' /\ NoFieldLost'
  BY DEF UniqueLiveCodes, Live, Visible, NoFieldLost
<1>4. AskFollows'
  BY DEF AskFollows
<1>5. TellersFollow'
  BY DEF TellersFollow
<1>. QED  BY <1>1, <1>2, <1>3, <1>4, <1>5

\* A new row has an id and a code that nobody else uses.
LEMMA CreateCore ==
  ASSUME TypeOK, Core, TypeOK', NEW c \in Requests, NEW k \in Codes, NEW n \in Names,
         NEW p \in Prices, Create(c, k, n, p)
  PROVE  Core'
<1>. DEFINE new == [live |-> TRUE, code |-> k, name |-> n, price |-> InCents(p)]
<1>1. new \in Row
  BY DEF Create, Row, Fits
<1>2. new # NoRow /\ new.live /\ new.code = k /\ new.name = n /\ new.price = InCents(p)
  BY <1>1, NoRowAssumption
<1>3. /\ next \in Ids /\ rows[next] = NoRow
      /\ \A d \in Requests : draft[d][next] = NoRow
  BY DEF Create, Core, Fresh, Has, TypeOK, Ids
<1>4. \A d \in Requests, i \in Ids :
        draft'[d][i] = IF d = c /\ i = next THEN new ELSE draft[d][i]
  BY <1>3 DEF Create, TypeOK
<1>5. \A d \in Requests, i \in Ids :
        ask'[d][i] = IF d = c /\ i = next THEN [name |-> n, price |-> p] ELSE ask[d][i]
  BY <1>3 DEF Create, TypeOK
<1>6. UNCHANGED <<rows, at, told, wrote>> /\ next' = next + 1 /\ at[c] = "open"
  BY DEF Create, Statement
<1>. HIDE DEF new
<1>7. Fresh'
  BY <1>3, <1>4, <1>6 DEF Core, Fresh, Has, Ids, TypeOK
<1>8. OneWriter'
  BY <1>2, <1>3, <1>4, <1>6 DEF Core, OneWriter, Has
<1>9. /\ \A d \in Requests \ {c}, i \in Ids : Has(d, i) => draft[d][i].code # k
      /\ \A i \in Ids : LiveRow(i) /\ rows[i].code = k => Has(c, i)
  BY DEF Create, CodeLocked, Taken, Live, Visible, Has, LiveRow
<1>10. CodeOwner'
  BY <1>2, <1>3, <1>4, <1>6, <1>9 DEF Core, CodeOwner, Has, LiveRow
<1>11. UniqueRows'
  BY <1>6 DEF Core, UniqueRows, LiveRow
<1>12. UniqueLiveCodes'
  <2>1. \A i \in Ids : Live(c, i) => Visible(c, i).code # k
    BY DEF Create, Taken
  <2>2. \A d \in Requests, i \in Ids :
          Visible(d, i)' = IF d = c /\ i = next THEN new ELSE Visible(d, i)
    BY <1>2, <1>4, <1>6 DEF Visible
  <2>. QED
    BY <1>2, <2>1, <2>2 DEF Core, UniqueLiveCodes, Live
<1>13. AskFollows'
  <2>1. Later([name |-> n, price |-> p], wrote[next]) = [name |-> n, price |-> p]
    BY MarkersAssumption DEF Later, Coalesce
  <2>. QED
    BY <1>2, <1>3, <1>4, <1>5, <1>6, <2>1 DEF Core, AskFollows, Has
<1>14. NoFieldLost'
  BY <1>6 DEF Core, NoFieldLost
<1>15. TellersFollow'
  BY <1>2, <1>3, <1>4, <1>6 DEF Core, TellersFollow, Has
<1>. QED
  BY <1>7, <1>8, <1>10, <1>11, <1>12, <1>13, <1>14, <1>15 DEF Core

Owners == Fresh /\ OneWriter /\ CodeOwner /\ UniqueRows /\ UniqueLiveCodes

\* A new version of a row that its writer sees, with the same code.
LEMMA DraftOwners ==
  ASSUME TypeOK, Core, NEW c \in Requests, NEW i \in Ids, NEW new \in Row,
         at[c] = "open", ~Locked(c, i), Live(c, i), new.code = Visible(c, i).code,
         draft' = [draft EXCEPT ![c][i] = new], UNCHANGED <<rows, next, at>>
  PROVE  Owners'
<1>. USE DEF Core, Has, LiveRow
<1>1. \A d \in Requests, j \in Ids :
        draft'[d][j] = IF d = c /\ j = i THEN new ELSE draft[d][j]
  BY DEF TypeOK
<1>2. new # NoRow
  BY NoRowAssumption
<1>3. \A d \in Requests : Has(d, i) => d = c
  BY DEF Locked
<1>4. Fresh'
  BY <1>1 DEF Fresh, Live, Visible
<1>5. OneWriter'
  BY <1>1, <1>2, <1>3 DEF OneWriter, Live, Visible
<1>6. /\ \A d \in Requests, j \in Ids : Has(d, j) /\ draft[d][j].code = new.code => d = c
      /\ \A j \in Ids : LiveRow(j) /\ rows[j].code = new.code => j = i \/ Has(c, j)
  <2>1. CASE Has(c, i)
    BY <2>1 DEF CodeOwner, Visible
  <2>2. CASE ~Has(c, i)
    <3>1. LiveRow(i) /\ rows[i].code = new.code
      BY <2>2 DEF Live, Visible
    <3>. QED  BY <1>3, <2>2, <3>1 DEF CodeOwner, UniqueRows
  <2>. QED  BY <2>1, <2>2
<1>7. CodeOwner'
  BY <1>1, <1>2, <1>6 DEF CodeOwner
<1>8. UniqueRows'
  BY DEF UniqueRows
<1>9. UniqueLiveCodes'
  <2>1. \A d \in Requests, j \in Ids :
          Visible(d, j)' = IF d = c /\ j = i THEN new ELSE Visible(d, j)
    BY <1>1, <1>2 DEF Visible
  <2>. QED  BY <1>2, <2>1 DEF UniqueLiveCodes, Live
<1>. QED  BY <1>4, <1>5, <1>7, <1>8, <1>9 DEF Owners

\* Setting nothing changes nothing.
LEMMA LaterNothing ==
  ASSUME NEW w
  PROVE  /\ Later(Nothing, w).name = w.name
         /\ Later(Nothing, w).price = w.price
BY DEF Later, Nothing, Coalesce

\* A request sees in a row what it has set there, or what was committed.
LEMMA VisibleAsAsked ==
  ASSUME Core, NEW c \in Requests, NEW i \in Ids, at[c] = "open", Visible(c, i) # NoRow
  PROVE  /\ Visible(c, i).name = Later(ask[c][i], wrote[i]).name
         /\ Visible(c, i).price = InCents(Later(ask[c][i], wrote[i]).price)
<1>1. CASE Has(c, i)
  BY <1>1 DEF Core, AskFollows, Visible, Has
<1>2. CASE ~Has(c, i)
  <2>1. ask[c][i] = Nothing /\ Visible(c, i) = rows[i]
    BY <1>2 DEF Core, AskFollows, Visible, Has
  <2>. QED  BY <2>1, LaterNothing DEF Core, NoFieldLost
<1>. QED  BY <1>1, <1>2

\* An update keeps the code, and the columns that are left unset.
LEMMA UpdateCore ==
  ASSUME TypeOK, Core, NEW c \in Requests, NEW i \in Ids, NEW v \in Values,
         Update(c, i, v)
  PROVE  Core'
<1>. DEFINE old == Visible(c, i)
            new == [old EXCEPT
                      !.name = Coalesce(v.name, @),
                      !.price = IF v.price = Unset THEN @ ELSE InCents(v.price)]
<1>1. old \in Row
  BY VisibleRow DEF Update
<1>2. new \in Row
  BY <1>1, UpdatedRow DEF Update
<1>3. /\ new.code = old.code /\ new.live = old.live
      /\ new.name = Coalesce(v.name, old.name)
      /\ new.price = IF v.price = Unset THEN old.price ELSE InCents(v.price)
  BY <1>1 DEF Row
<1>4. /\ draft' = [draft EXCEPT ![c][i] = new]
      /\ ask' = [ask EXCEPT ![c][i] = Later(v, @)]
      /\ UNCHANGED <<rows, next, at, told, wrote>>
      /\ at[c] = "open" /\ ~Locked(c, i) /\ Live(c, i)
  BY DEF Update, Statement
<1>. HIDE DEF new
<1>5. Owners'
  BY <1>2, <1>3, <1>4, DraftOwners
<1>6. \A d \in Requests, j \in Ids :
        draft'[d][j] = IF d = c /\ j = i THEN new ELSE draft[d][j]
  BY <1>4 DEF TypeOK
<1>7. \A d \in Requests, j \in Ids :
        ask'[d][j] = IF d = c /\ j = i THEN Later(v, ask[c][i]) ELSE ask[d][j]
  BY <1>4 DEF TypeOK
<1>8. new # NoRow
  BY <1>2, NoRowAssumption
<1>9. AskFollows'
  <2>1. /\ old.name = Later(ask[c][i], wrote[i]).name
        /\ old.price = InCents(Later(ask[c][i], wrote[i]).price)
    BY <1>4, VisibleAsAsked DEF Live
  <2>2. /\ new.name = Later(Later(v, ask[c][i]), wrote[i]).name
        /\ new.price = InCents(Later(Later(v, ask[c][i]), wrote[i]).price)
    BY <1>3, <2>1 DEF Later, Coalesce
  <2>. QED
    BY <1>4, <1>6, <1>7, <1>8, <2>2 DEF Core, AskFollows, Has
<1>10. NoFieldLost'
  BY <1>4 DEF Core, NoFieldLost
<1>11. TellersFollow'
  <2>1. Has(c, i) => draft[c][i].live
    BY <1>4 DEF Live, Visible, Has
  <2>2. new.live
    BY <1>3, <1>4 DEF Live
  <2>. QED
    BY <1>4, <1>6, <1>8, <2>1, <2>2 DEF Core, TellersFollow, Has
<1>. QED
  BY <1>5, <1>9, <1>10, <1>11 DEF Owners, Core

\* A delete is told to the request that has made the draft.
LEMMA SoftDeleteCore ==
  ASSUME TypeOK, Core, NEW c \in Requests, NEW i \in Ids, SoftDelete(c, i)
  PROVE  Core'
<1>. DEFINE old == Visible(c, i)
            new == [old EXCEPT !.live = FALSE]
<1>1. old \in Row
  BY VisibleRow DEF SoftDelete
<1>2. new \in Row
  BY <1>1 DEF Row
<1>3. /\ new.code = old.code /\ ~new.live
      /\ new.name = old.name /\ new.price = old.price
  BY <1>1 DEF Row
<1>4. /\ draft' = [draft EXCEPT ![c][i] = new]
      /\ told' = [told EXCEPT ![c] = @ \cup {i}]
      /\ UNCHANGED <<rows, next, at, ask, wrote>>
      /\ at[c] = "open" /\ ~Locked(c, i) /\ Live(c, i)
  BY DEF SoftDelete, Statement
<1>. HIDE DEF new
<1>5. Owners'
  BY <1>2, <1>3, <1>4, DraftOwners
<1>6. \A d \in Requests, j \in Ids :
        draft'[d][j] = IF d = c /\ j = i THEN new ELSE draft[d][j]
  BY <1>4 DEF TypeOK
<1>7. \A d \in Requests, j \in Ids :
        j \in told'[d] <=> (j \in told[d] \/ (d = c /\ j = i))
  BY <1>4 DEF TypeOK
<1>8. new # NoRow
  BY <1>2, NoRowAssumption
<1>9. AskFollows'
  <2>1. /\ old.name = Later(ask[c][i], wrote[i]).name
        /\ old.price = InCents(Later(ask[c][i], wrote[i]).price)
    BY <1>4, VisibleAsAsked DEF Live
  <2>. QED
    BY <1>3, <1>4, <1>6, <1>8, <2>1 DEF Core, AskFollows, Has
<1>10. NoFieldLost'
  BY <1>4 DEF Core, NoFieldLost
<1>11. TellersFollow'
  BY <1>3, <1>4, <1>6, <1>7, <1>8 DEF Core, TellersFollow, Has
<1>. QED
  BY <1>5, <1>9, <1>10, <1>11 DEF Owners, Core

\* What a request has seen becomes what everybody sees.
LEMMA CommitCore ==
  ASSUME TypeOK, Core, NEW c \in Requests, Commit(c)
  PROVE  Core'
<1>. USE DEF Has, LiveRow
<1>1. \A i \in Ids : rows'[i] = IF Has(c, i) THEN draft[c][i] ELSE rows[i]
  BY DEF Commit, Visible
<1>2. \A d \in Requests, i \in Ids :
        draft'[d][i] = IF d = c THEN NoRow ELSE draft[d][i]
  BY DEF Commit, Ends, TypeOK, NoDrafts
<1>3. /\ at[c] = "open" /\ at'[c] = "committed"
      /\ \A d \in Requests \ {c} : at'[d] = at[d] /\ ask'[d] = ask[d]
      /\ UNCHANGED <<next, told>>
  BY DEF Commit, Ends, TypeOK
<1>4. \A i \in Ids : wrote'[i] = Later(ask[c][i], wrote[i])
  BY DEF Commit
<1>5. Fresh'
  BY <1>1, <1>2, <1>3 DEF Core, Fresh
<1>6. OneWriter'
  BY <1>1, <1>2, <1>3 DEF Core, OneWriter
<1>7. CodeOwner'
  BY <1>1, <1>2, <1>3 DEF Core, CodeOwner
<1>8. UniqueRows'
  BY <1>1 DEF Core, UniqueLiveCodes, UniqueRows, Live, Visible
<1>9. UniqueLiveCodes'
  <2>. SUFFICES ASSUME NEW d \in Requests, NEW i \in Ids, NEW j \in Ids,
                       Live(d, i)', Live(d, j)',
                       Visible(d, i)'.code = Visible(d, j)'.code
                PROVE  i = j
    BY DEF UniqueLiveCodes
  <2>1. \A k \in Ids :
          Visible(d, k)' = IF d # c /\ Has(d, k) THEN draft[d][k]
                           ELSE IF Has(c, k) THEN draft[c][k] ELSE rows[k]
    BY <1>1, <1>2 DEF Visible
  <2>2. CASE d = c
    BY <2>1, <2>2 DEF Core, UniqueLiveCodes, Live, Visible
  <2>3. CASE d # c /\ ~Has(d, i) /\ ~Has(d, j)
    BY <2>1, <2>3 DEF Core, UniqueLiveCodes, Live, Visible
  <2>4. CASE d # c /\ (Has(d, i) \/ Has(d, j))
    BY <2>1, <2>4 DEF Core, UniqueLiveCodes, CodeOwner, Live, Visible
  <2>. QED  BY <2>2, <2>3, <2>4
<1>10. \A i \in Ids : ~Has(c, i) =>
         wrote'[i].name = wrote[i].name /\ wrote'[i].price = wrote[i].price
  BY <1>3, <1>4, LaterNothing DEF Core, AskFollows
<1>11. AskFollows'
  <2>1. \A d \in Requests, i \in Ids : d # c /\ Has(d, i) =>
          /\ Later(ask[d][i], wrote'[i]).name = Later(ask[d][i], wrote[i]).name
          /\ Later(ask[d][i], wrote'[i]).price = Later(ask[d][i], wrote[i]).price
    BY <1>10 DEF Core, OneWriter, Later, Coalesce
  <2>. QED  BY <1>2, <1>3, <2>1 DEF Core, AskFollows
<1>12. NoFieldLost'
  BY <1>1, <1>4, <1>10 DEF Core, AskFollows, NoFieldLost
<1>13. TellersFollow'
  <2>. SUFFICES ASSUME NEW i \in Ids
                PROVE  /\ \A d \in Requests : at'[d] \in {"idle", "open"} =>
                            (i \in told'[d] <=> draft'[d][i] # NoRow /\ ~draft'[d][i].live)
                       /\ \A d \in Requests : at'[d] = "committed" /\ i \in told'[d] =>
                            /\ rows'[i] # NoRow /\ ~rows'[i].live
                            /\ \A e \in Requests :
                                 at'[e] = "committed" /\ i \in told'[e] => d = e
                       /\ rows'[i] # NoRow /\ ~rows'[i].live =>
                            \E d \in Requests : at'[d] = "committed" /\ i \in told'[d]
    BY DEF TellersFollow
  <2>1. i \in told[c] <=> Has(c, i) /\ ~draft[c][i].live
    BY <1>3 DEF Core, TellersFollow
  <2>2. Has(c, i) => \A d \in Requests : ~(at[d] = "committed" /\ i \in told[d])
    BY DEF Core, TellersFollow, OneWriter
  <2>. QED
    BY <1>1, <1>2, <1>3, <2>1, <2>2 DEF Core, TellersFollow
<1>. QED
  BY <1>5, <1>6, <1>7, <1>8, <1>9, <1>11, <1>12, <1>13 DEF Core

\* What a request has drafted is gone.
LEMMA RollbackCore ==
  ASSUME TypeOK, Core, NEW c \in Requests, Rollback(c)
  PROVE  Core'
<1>. USE DEF Has, LiveRow
<1>1. \A d \in Requests, i \in Ids :
        draft'[d][i] = IF d = c THEN NoRow ELSE draft[d][i]
  BY DEF Rollback, Ends, TypeOK, NoDrafts
<1>2. /\ at[c] \in {"open", "aborted"} /\ at'[c] = "rolled_back"
      /\ \A d \in Requests \ {c} :
           at'[d] = at[d] /\ ask'[d] = ask[d] /\ told'[d] = told[d]
      /\ UNCHANGED <<rows, next, wrote>>
  BY DEF Rollback, Ends, TypeOK
<1>3. Fresh' /\ OneWriter' /\ CodeOwner' /\ UniqueRows'
  BY <1>1, <1>2 DEF Core, Fresh, OneWriter, CodeOwner, UniqueRows
<1>4. UniqueLiveCodes'
  BY <1>1, <1>2 DEF Core, UniqueLiveCodes, UniqueRows, Live, Visible
<1>5. AskFollows' /\ NoFieldLost'
  BY <1>1, <1>2 DEF Core, AskFollows, NoFieldLost
<1>6. TellersFollow'
  BY <1>1, <1>2 DEF Core, OneWriter, TellersFollow
<1>. QED  BY <1>3, <1>4, <1>5, <1>6 DEF Core

-----------------------------------------------------------------------------
(* The invariant. *)

\* Nothing is written, owned or told at the start.
LEMMA InitIInv == Init => IInv
<1>. SUFFICES ASSUME Init PROVE IInv
  OBVIOUS
<1>1. TypeOK
  <2>1. Nothing \in Values
    BY DEF Nothing, Values
  <2>2. Answer("none", {}) \in [kind : Kinds, by : Subjects]
    BY DEF Answer, Kinds, Subjects
  <2>3. next \in 1..MaxId + 1 /\ left \in 0..MaxStatements
    BY RowBounds DEF Init
  <2>. QED  BY <2>1, <2>2, <2>3 DEF Init, TypeOK, NoDrafts, Subjects
<1>2. \A c \in Requests, i \in Ids : rows[i] = NoRow /\ draft[c][i] = NoRow
  BY DEF Init, NoDrafts
<1>3. Core
  BY <1>2 DEF Init, Core, Fresh, OneWriter, CodeOwner, UniqueRows, UniqueLiveCodes,
              AskFollows, NoFieldLost, TellersFollow, Has, LiveRow, Live, Visible
<1>. QED  BY <1>1, <1>3 DEF IInv, Core

\* Every step keeps the invariant.
LEMMA NextIInv == IInv /\ [Next]_vars => IInv'
<1>. SUFFICES ASSUME TypeOK, Core, [Next]_vars PROVE TypeOK' /\ Core'
  BY DEF IInv, Core
<1>1. TypeOK'
  BY NextTypeOK
<1>. SUFFICES ASSUME Next PROVE Core'
  <2>1. UNCHANGED vars => Core'
    BY WritesNothing DEF vars, tableVars
  <2>. QED  BY <1>1, <2>1
<1>. PICK c \in Requests : Request(c)
  BY DEF Next
<1>2. CASE \/ Begin(c) \/ StatementFails(c)
           \/ \E k \in Codes : CreateRefused(c, k) \/ GetByCode(c, k)
           \/ \E p \in Prices : CreateTooDear(c, p) \/ PriceInvalid(c, p)
           \/ \E i \in Ids : UpdateMisses(c, i) \/ SoftDeleteMisses(c, i) \/ Get(c, i)
  <2>1. UNCHANGED <<rows, draft, ghostVars>> /\ next' \in {next, next + 1}
    BY <1>2 DEF Begin, StatementFails, CreateRefused, GetByCode, CreateTooDear,
                UpdateMisses, SoftDeleteMisses, Get, PriceInvalid, Aborts, tableVars
  <2>2. \/ at' = at
        \/ at[c] = "idle" /\ at' = [at EXCEPT ![c] = "open"]
        \/ at[c] = "open" /\ at' = [at EXCEPT ![c] = "aborted"]
    BY <1>2 DEF Begin, StatementFails, CreateRefused, GetByCode, CreateTooDear,
                UpdateMisses, SoftDeleteMisses, Get, PriceInvalid, Aborts, Statement
  <2>3. \A d \in Requests :
          \/ at'[d] = at[d]
          \/ at[d] = "idle" /\ at'[d] = "open"
          \/ at[d] = "open" /\ at'[d] = "aborted"
    BY <2>2 DEF TypeOK
  <2>. QED  BY <2>1, <2>3, WritesNothing
<1>3. CASE \E k \in Codes, n \in Names, p \in Prices : Create(c, k, n, p)
  BY <1>1, <1>3, CreateCore
<1>4. CASE \E i \in Ids, v \in Values : Update(c, i, v)
  BY <1>4, UpdateCore
<1>5. CASE \E i \in Ids : SoftDelete(c, i)
  BY <1>5, SoftDeleteCore
<1>6. CASE Commit(c) \/ Rollback(c)
  BY <1>6, CommitCore, RollbackCore
<1>. QED  BY <1>2, <1>3, <1>4, <1>5, <1>6 DEF Request

\* The invariant holds in every state.
LEMMA Invariant == Spec => []IInv
BY InitIInv, NextIInv, PTL DEF Spec

-----------------------------------------------------------------------------
(* Answers. *)

\* A request that has not begun was not answered, and an answer that something
\* is missing is not contradicted by what the request has written.
AnswersFollow ==
  /\ \A c \in Requests : at[c] = "idle" => ans[c].kind = "none"
  /\ ReadsOwnWrites

\* What a request was told last is about the rows as it sees them.
LEMMA StatementAnswers ==
  ASSUME TypeOK, AnswersFollow, NEW c \in Requests, NEW kind \in Kinds, NEW by \in Subjects,
         Statement(c, Answer(kind, by)),
         at'[c] = "open" /\ kind = "not_found" =>
           \A i \in Ids : Has(c, i)' /\ draft'[c][i].live =>
             by \notin {{i}, {draft'[c][i].code}},
         \A d \in Requests \ {c} : draft'[d] = draft[d] /\ at'[d] = at[d],
         at'[c] # "idle"
  PROVE  AnswersFollow'
<1>1. \A d \in Requests :
        ans'[d] = IF d = c THEN Answer(kind, by) ELSE ans[d]
  BY DEF Statement, TypeOK
<1>2. Answer(kind, by).kind = kind /\ Answer(kind, by).by = by
  BY DEF Answer
<1>3. ASSUME NEW d \in Requests, at'[d] = "idle" PROVE ans'[d].kind = "none"
  BY <1>1, <1>3 DEF AnswersFollow
<1>4. ReadsOwnWrites'
  <2>. SUFFICES ASSUME NEW d \in Requests, NEW i \in Ids,
                       at'[d] = "open", ans'[d].kind = "not_found",
                       draft'[d][i] # NoRow, draft'[d][i].live
                PROVE  ans'[d].by \notin {{i}, {draft'[d][i].code}}
    BY DEF ReadsOwnWrites
  <2>1. CASE d = c
    BY <1>1, <1>2, <2>1 DEF Has
  <2>2. CASE d # c
    BY <1>1, <2>2 DEF AnswersFollow, ReadsOwnWrites
  <2>. QED  BY <2>1, <2>2
<1>. QED  BY <1>3, <1>4 DEF AnswersFollow

\* Every step keeps what is said about answers.
LEMMA NextAnswersFollow ==
  TypeOK /\ TypeOK' /\ AnswersFollow /\ [Next]_vars => AnswersFollow'
<1>. SUFFICES ASSUME TypeOK, TypeOK', AnswersFollow, [Next]_vars PROVE AnswersFollow'
  OBVIOUS
<1>1. CASE UNCHANGED vars
  BY <1>1 DEF AnswersFollow, ReadsOwnWrites, vars, tableVars
<1>. SUFFICES ASSUME Next PROVE AnswersFollow'
  BY <1>1
<1>. PICK c \in Requests : Request(c)
  BY DEF Next
<1>2. CASE Begin(c)
  <2>1. /\ at[c] = "idle" /\ UNCHANGED <<draft, ans>>
        /\ \A d \in Requests \ {c} : at'[d] = at[d]
    BY <1>2 DEF Begin, tableVars, TypeOK
  <2>2. at'[c] # "idle"
    BY <1>2 DEF Begin, TypeOK
  <2>3. ans[c].kind # "not_found"
    BY <2>1 DEF AnswersFollow
  <2>. QED  BY <2>1, <2>2, <2>3 DEF AnswersFollow, ReadsOwnWrites
<1>3. ASSUME NEW kind \in Kinds, NEW by \in Subjects, kind # "not_found",
             Statement(c, Answer(kind, by)),
             \A d \in Requests \ {c} : draft'[d] = draft[d] /\ at'[d] = at[d],
             at'[c] # "idle"
      PROVE  AnswersFollow'
  BY <1>3, StatementAnswers
<1>4. CASE StatementFails(c) \/ (\E k \in Codes : CreateRefused(c, k))
             \/ (\E p \in Prices : CreateTooDear(c, p))
  <2>1. PICK kind \in Kinds, by \in Subjects :
          kind # "not_found" /\ Aborts(c, Answer(kind, by))
    BY <1>4 DEF StatementFails, CreateRefused, CreateTooDear, Kinds, Subjects
  <2>2. /\ Statement(c, Answer(kind, by)) /\ UNCHANGED draft
        /\ at' = [at EXCEPT ![c] = "aborted"]
    BY <2>1 DEF Aborts
  <2>. QED  BY <1>3, <2>1, <2>2 DEF TypeOK
<1>5. CASE \E k \in Codes, n \in Names, p \in Prices : Create(c, k, n, p)
  <2>1. /\ Statement(c, Answer("row", {next})) /\ next \in Ids /\ UNCHANGED at
        /\ \A d \in Requests \ {c} : draft'[d] = draft[d]
    BY <1>5 DEF Create, TypeOK
  <2>2. "row" \in Kinds /\ {next} \in Subjects
    BY <2>1 DEF Kinds, Subjects
  <2>. QED  BY <1>3, <2>1, <2>2 DEF Statement
<1>6. ASSUME NEW i \in Ids, (\E v \in Values : Update(c, i, v)) \/ SoftDelete(c, i)
      PROVE  AnswersFollow'
  <2>1. PICK kind \in Kinds \ {"not_found"} :
          /\ Statement(c, Answer(kind, {i})) /\ UNCHANGED at
          /\ \A d \in Requests \ {c} : draft'[d] = draft[d]
    BY <1>6 DEF Update, SoftDelete, Kinds, TypeOK
  <2>2. {i} \in Subjects
    BY DEF Subjects
  <2>. QED  BY <1>3, <2>1, <2>2 DEF Statement
<1>7. ASSUME NEW i \in Ids, UpdateMisses(c, i) \/ SoftDeleteMisses(c, i) \/ Get(c, i)
      PROVE  AnswersFollow'
  <2>1. PICK kind \in Kinds :
          Statement(c, Answer(kind, {i})) /\ (kind = "not_found" => ~Live(c, i))
    BY <1>7 DEF UpdateMisses, SoftDeleteMisses, Get, Kinds
  <2>2. UNCHANGED <<draft, at>> /\ {i} \in Subjects /\ at[c] = "open"
    BY <1>7, <2>1 DEF UpdateMisses, SoftDeleteMisses, Get, Statement, tableVars, Subjects
  <2>3. ASSUME NEW j \in Ids, Has(c, j), draft[c][j].live, kind = "not_found"
        PROVE  {i} \notin {{j}, {draft[c][j].code}}
    <3>1. i # j
      BY <2>1, <2>3 DEF Live, Visible, Has
    <3>2. draft[c][j].code \in Codes
      BY <2>3, VisibleRow DEF Row
    <3>3. i # draft[c][j].code
      BY <3>2, CodesAssumption
    <3>. QED  BY <3>1, <3>3
  <2>. QED  BY <2>1, <2>2, <2>3, StatementAnswers DEF Has
<1>8. ASSUME NEW k \in Codes, GetByCode(c, k) PROVE AnswersFollow'
  <2>1. \/ \E i \in Ids : Statement(c, Answer("row", {i}))
        \/ Statement(c, Answer("not_found", {k})) /\ ~Taken(c, k)
    BY <1>8 DEF GetByCode
  <2>2. UNCHANGED <<draft, at>> /\ at[c] = "open"
    BY <1>8 DEF GetByCode, Statement, tableVars
  <2>3. CASE \E i \in Ids : Statement(c, Answer("row", {i}))
    <3>. PICK i \in Ids : Statement(c, Answer("row", {i}))
      BY <2>3
    <3>1. "row" \in Kinds /\ {i} \in Subjects
      BY DEF Kinds, Subjects
    <3>. QED  BY <1>3, <2>2, <3>1
  <2>4. CASE Statement(c, Answer("not_found", {k})) /\ ~Taken(c, k)
    <3>1. "not_found" \in Kinds /\ {k} \in Subjects
      BY DEF Kinds, Subjects
    <3>2. ASSUME NEW j \in Ids, Has(c, j), draft[c][j].live
          PROVE  {k} \notin {{j}, {draft[c][j].code}}
      <4>1. k # draft[c][j].code
        BY <2>4, <3>2 DEF Taken, Live, Visible, Has
      <4>2. k # j
        BY CodesAssumption
      <4>. QED  BY <4>1, <4>2
    <3>. QED  BY <2>2, <2>4, <3>1, <3>2, StatementAnswers DEF Has
  <2>. QED  BY <2>1, <2>3, <2>4
<1>9. CASE Commit(c) \/ Rollback(c)
  <2>1. /\ at'[c] \in {"committed", "rolled_back"}
        /\ \A d \in Requests \ {c} :
             draft'[d] = draft[d] /\ at'[d] = at[d] /\ ans'[d] = ans[d]
    BY <1>9 DEF Commit, Rollback, Ends, TypeOK
  <2>. QED  BY <2>1 DEF AnswersFollow, ReadsOwnWrites
<1>10. CASE \E p \in Prices : PriceInvalid(c, p)
  <2>1. /\ UNCHANGED <<draft, at>> /\ at[c] = "open"
        /\ \A d \in Requests :
             ans'[d] = IF d = c THEN Answer("invalid", {}) ELSE ans[d]
    BY <1>10 DEF PriceInvalid, tableVars, TypeOK
  <2>2. Answer("invalid", {}).kind = "invalid"
    BY DEF Answer
  <2>. QED  BY <2>1, <2>2 DEF AnswersFollow, ReadsOwnWrites
<1>. QED  BY <1>2, <1>4, <1>5, <1>6, <1>7, <1>8, <1>9, <1>10 DEF Request

-----------------------------------------------------------------------------
(* The theorems. *)

\* The variables have their types; among them the price column keeps its range,
\* whatever prices are sent, negative ones and NaN included.
THEOREM TypeCorrect == Spec => []TypeOK
<1>1. IInv => TypeOK
  BY DEF IInv, Core
<1>. QED  BY <1>1, Invariant, PTL

\* No request ever sees two live rows with one code, whatever others create,
\* delete and create again (schema.sql.tmpl 28-31).
THEOREM LiveCodesAreUnique == Spec => []UniqueLiveCodes
<1>1. IInv => UniqueLiveCodes
  BY DEF IInv, Core
<1>. QED  BY <1>1, Invariant, PTL

\* Partial updates do not undo each other (queries.sql.tmpl 42-55).
THEOREM FieldsAreKept == Spec => []NoFieldLost
<1>1. IInv => NoFieldLost
  BY DEF IInv, Core
<1>. QED  BY <1>1, Invariant, PTL

\* Of all the requests that delete a row, one is told that it did
\* (data.go.tmpl 140-147).
THEOREM DeleteIsToldOnce == Spec => []DeleteToldOnce
<1>1. IInv => DeleteToldOnce
  <2>. SUFFICES ASSUME IInv, NEW i \in Ids
                PROVE  Cardinality({c \in Requests : at[c] = "committed" /\ i \in told[c]})
                         = IF rows[i] # NoRow /\ ~rows[i].live THEN 1 ELSE 0
    BY DEF DeleteToldOnce
  <2>. DEFINE tellers == {c \in Requests : at[c] = "committed" /\ i \in told[c]}
  <2>1. CASE rows[i] # NoRow /\ ~rows[i].live
    <3>1. PICK c \in Requests : at[c] = "committed" /\ i \in told[c]
      BY <2>1 DEF IInv, Core, TellersFollow
    <3>2. tellers = {c}
      BY <3>1 DEF IInv, Core, TellersFollow
    <3>. QED  BY <2>1, <3>2, FS_Singleton
  <2>2. CASE ~(rows[i] # NoRow /\ ~rows[i].live)
    <3>1. tellers = {}
      BY <2>2 DEF IInv, Core, TellersFollow
    <3>. QED  BY <2>2, <3>1, FS_EmptySet
  <2>. QED  BY <2>1, <2>2
<1>. QED  BY <1>1, Invariant, PTL

\* A deleted row stays as it was (schema.sql.tmpl 24).
THEOREM DeletedRowsStay == Spec => DeletedForGood
<1>1. IInv /\ [Next]_vars =>
        [\A i \in Ids : rows[i] # NoRow =>
           rows'[i] # NoRow /\ (~rows[i].live => rows'[i] = rows[i])]_vars
  <2>. SUFFICES ASSUME IInv, Next, NEW i \in Ids, rows[i] # NoRow
                PROVE  rows'[i] # NoRow /\ (~rows[i].live => rows'[i] = rows[i])
    OBVIOUS
  <2>. PICK c \in Requests : Request(c)
    BY DEF Next
  <2>1. CASE Commit(c)
    BY <2>1 DEF IInv, Core, OneWriter, Commit, Visible, Has
  <2>2. CASE ~Commit(c)
    BY <2>2 DEF Request, Begin, StatementFails, CreateRefused, GetByCode, CreateTooDear,
                UpdateMisses, SoftDeleteMisses, Get, Aborts, tableVars, Create, Update,
                SoftDelete, Rollback, PriceInvalid
  <2>. QED  BY <2>1, <2>2
<1>. QED  BY <1>1, Invariant, PTL DEF Spec, DeletedForGood

\* A request is never told that a row is missing which it has written itself
\* and not deleted (data.go.tmpl 29-34).
THEOREM OwnWritesAreRead == Spec => []ReadsOwnWrites
<1>1. Init => AnswersFollow
  <2>. SUFFICES ASSUME Init PROVE AnswersFollow
    OBVIOUS
  <2>1. \A c \in Requests : at[c] = "idle" /\ ans[c].kind = "none"
    BY DEF Init, Answer
  <2>. QED  BY <2>1 DEF AnswersFollow, ReadsOwnWrites
<1>2. IInv => TypeOK
  BY DEF IInv
<1>. QED  BY <1>1, <1>2, Invariant, NextAnswersFollow, PTL DEF Spec, AnswersFollow

\* Whoever is refused a code as a duplicate sees a row that has it and that
\* nobody was told is deleted (schema.sql.tmpl 28-29).
THEOREM CodesAreFreed == Spec => DeletedCodesAreFree
<1>1. IInv /\ [Next]_vars =>
        [\A c \in Requests, k \in Codes :
           ans[c] # Answer("duplicate", {k}) /\ ans'[c] = Answer("duplicate", {k}) =>
             \E i \in Ids :
               /\ Visible(c, i) # NoRow /\ Visible(c, i).code = k
               /\ i \notin told[c]
               /\ \A d \in Requests : at[d] = "committed" => i \notin told[d]]_vars
  <2>. SUFFICES ASSUME IInv, Next, NEW c \in Requests, NEW k \in Codes,
                       ans[c] # Answer("duplicate", {k}), ans'[c] = Answer("duplicate", {k})
                PROVE  \E i \in Ids :
                         /\ Visible(c, i) # NoRow /\ Visible(c, i).code = k
                         /\ i \notin told[c]
                         /\ \A d \in Requests : at[d] = "committed" => i \notin told[d]
    OBVIOUS
  <2>. PICK r \in Requests : Request(r)
    BY DEF Next
  <2>1. ASSUME NEW a, Statement(r, a) PROVE r = c /\ a = Answer("duplicate", {k})
    BY <2>1 DEF Statement, IInv, TypeOK
  <2>2. \A by : Answer("duplicate", {k}) # Answer("row", by)
             /\ Answer("duplicate", {k}) # Answer("deleted", by)
             /\ Answer("duplicate", {k}) # Answer("missing", by)
             /\ Answer("duplicate", {k}) # Answer("not_found", by)
             /\ Answer("duplicate", {k}) # Answer("failed", by)
             /\ Answer("duplicate", {k}) # Answer("invalid", by)
             /\ Answer("duplicate", {k}) # Answer("none", by)
    BY DEF Answer
  <2>3. PICK l \in Codes : CreateRefused(r, l)
    <3>1. ASSUME NEW a, ans' = [ans EXCEPT ![r] = a] PROVE a = Answer("duplicate", {k})
      BY <3>1 DEF IInv, TypeOK
    <3>2. ~Commit(r) /\ ~Rollback(r) /\ \A p \in Prices : ~PriceInvalid(r, p)
      BY <2>2, <3>1 DEF Commit, Rollback, Ends, PriceInvalid
    <3>. QED
      BY <2>1, <2>2, <3>2
         DEF Request, Begin, StatementFails, GetByCode, CreateTooDear, UpdateMisses,
             SoftDeleteMisses, Get, Aborts, Create, Update, SoftDelete
  <2>4. r = c /\ Answer("duplicate", {l}) = Answer("duplicate", {k})
    BY <2>1, <2>3 DEF CreateRefused, Aborts
  <2>5. l = k
    BY <2>4 DEF Answer
  <2>6. at[c] = "open" /\ Taken(c, k)
    BY <2>3, <2>4, <2>5 DEF CreateRefused, Aborts, Statement
  <2>7. PICK i \in Ids : Live(c, i) /\ Visible(c, i).code = k
    BY <2>6 DEF Taken
  <2>8. i \notin told[c]
    BY <2>6, <2>7 DEF IInv, Core, TellersFollow, Live, Visible, Has
  <2>9. \A d \in Requests : at[d] = "committed" => i \notin told[d]
    BY <2>7 DEF IInv, Core, TellersFollow, OneWriter, Live, Visible, Has
  <2>. QED  BY <2>7, <2>8, <2>9 DEF Live
<1>. QED  BY <1>1, Invariant, PTL DEF Spec, DeletedCodesAreFree

-----------------------------------------------------------------------------
(* Products implements ResourceTable. *)

\* A draft of a new row has all columns from its request; a draft of a row that
\* is there has its code.
DraftsFollow ==
  \A c \in Requests, i \in Ids : Has(c, i) =>
    IF rows[i] = NoRow
    THEN ask[c][i].name # Unset /\ ask[c][i].price # Unset
    ELSE draft[c][i].code = rows[i].code

\* A request touches only its own drafts, what it has asked for and what it was
\* told.
LEMMA OnlyOwn ==
  ASSUME TypeOK, NEW c \in Requests, Request(c)
  PROVE  \A d \in Requests \ {c} :
           draft'[d] = draft[d] /\ ask'[d] = ask[d] /\ told'[d] = told[d]
BY DEF TypeOK, Request, Begin, StatementFails, CreateRefused, GetByCode, CreateTooDear,
       UpdateMisses, SoftDeleteMisses, Get, PriceInvalid, Aborts, tableVars, ghostVars,
       Create, Update, SoftDelete, Commit, Rollback, Ends

\* The statements that write nothing, and the begin of a request.
Quiet(c) ==
  \/ Begin(c) \/ StatementFails(c)
  \/ \E k \in Codes : CreateRefused(c, k) \/ GetByCode(c, k)
  \/ \E p \in Prices : CreateTooDear(c, p) \/ PriceInvalid(c, p)
  \/ \E i \in Ids : UpdateMisses(c, i) \/ SoftDeleteMisses(c, i) \/ Get(c, i)

\* They leave the table and the drafts alone.
LEMMA QuietWritesNothing ==
  ASSUME NEW c \in Requests, Quiet(c)
  PROVE  UNCHANGED <<rows, draft, ask, told>>
BY DEF Quiet, Begin, StatementFails, CreateRefused, GetByCode, CreateTooDear,
       UpdateMisses, SoftDeleteMisses, Get, PriceInvalid, Aborts, tableVars, ghostVars

\* A request sets columns of the draft of one row.
WritesRow(c, i) ==
  \/ \E k \in Codes, n \in Names, p \in Prices : i = next /\ Create(c, k, n, p)
  \/ \E v \in Values : Update(c, i, v)
  \/ SoftDelete(c, i)

\* What a request may do.
LEMMA RequestSteps ==
  ASSUME NEW c \in Requests, Request(c)
  PROVE  Quiet(c) \/ (\E i \in Ids : WritesRow(c, i)) \/ Commit(c) \/ Rollback(c)
BY DEF Request, Quiet, WritesRow, Create

\* The new draft of a row, and what its request has asked for.
LEMMA DraftIsSet ==
  ASSUME IInv, DraftsFollow, NEW c \in Requests, NEW i \in Ids, WritesRow(c, i)
  PROVE  /\ UNCHANGED rows /\ at[c] = "open"
         /\ draft'[c][i] # NoRow
         /\ \A j \in Ids \ {i} :
              draft'[c][j] = draft[c][j] /\ ask'[c][j] = ask[c][j]
         /\ \A j \in Ids \ {i} : j \in told'[c] <=> j \in told[c]
         /\ i \in told[c] => i \in told'[c]
         /\ rows[i] # NoRow => rows[i].live
         /\ ask[c][i].name # Unset => ask'[c][i].name # Unset
         /\ ask[c][i].price # Unset => ask'[c][i].price # Unset
         /\ IF rows[i] = NoRow
            THEN ask'[c][i].name # Unset /\ ask'[c][i].price # Unset
            ELSE draft'[c][i].code = rows[i].code
<1>. USE DEF IInv, Core, TypeOK, Has
<1>1. CASE \E k \in Codes, n \in Names, p \in Prices : i = next /\ Create(c, k, n, p)
  <2>. PICK k \in Codes, n \in Names, p \in Prices : i = next /\ Create(c, k, n, p)
    BY <1>1
  <2>. DEFINE new == [live |-> TRUE, code |-> k, name |-> n, price |-> InCents(p)]
  <2>1. new # NoRow
    <3>1. new \in Row
      BY DEF Create, Row, Fits
    <3>. QED  BY <3>1, NoRowAssumption
  <2>2. rows[i] = NoRow
    BY DEF Fresh
  <2>3. n # Unset /\ p # Unset
    BY MarkersAssumption
  <2>4. /\ draft' = [draft EXCEPT ![c][i] = new]
        /\ ask' = [ask EXCEPT ![c][i] = [name |-> n, price |-> p]]
        /\ UNCHANGED <<rows, told>> /\ at[c] = "open"
    BY DEF Create, Statement
  <2>. HIDE DEF new
  <2>. QED  BY <2>1, <2>2, <2>3, <2>4
<1>2. CASE \E v \in Values : Update(c, i, v)
  <2>. PICK v \in Values : Update(c, i, v)
    BY <1>2
  <2>. DEFINE old == Visible(c, i)
              new == [old EXCEPT
                        !.name = Coalesce(v.name, @),
                        !.price = IF v.price = Unset THEN @ ELSE InCents(v.price)]
  <2>1. old \in Row
    BY VisibleRow DEF Update
  <2>2. new \in Row /\ new.code = old.code
    <3>1. new \in Row
      BY <2>1, UpdatedRow DEF Update
    <3>. QED  BY <2>1, <3>1 DEF Row
  <2>3. new # NoRow
    BY <2>2, NoRowAssumption
  <2>4. /\ draft' = [draft EXCEPT ![c][i] = new]
        /\ ask' = [ask EXCEPT ![c][i] = Later(v, @)]
        /\ UNCHANGED <<rows, told>> /\ at[c] = "open" /\ Live(c, i)
    BY DEF Update, Statement
  <2>. HIDE DEF new
  <2>5. /\ ask[c][i].name # Unset => Later(v, ask[c][i]).name # Unset
        /\ ask[c][i].price # Unset => Later(v, ask[c][i]).price # Unset
    BY DEF Later, Coalesce
  <2>6. /\ rows[i] # NoRow => rows[i].live /\ old.code = rows[i].code
        /\ rows[i] = NoRow => ask[c][i].name # Unset /\ ask[c][i].price # Unset
    BY <2>4 DEF DraftsFollow, OneWriter, Live, Visible
  <2>. QED  BY <2>2, <2>3, <2>4, <2>5, <2>6
<1>3. CASE SoftDelete(c, i)
  <2>. DEFINE old == Visible(c, i)
              new == [old EXCEPT !.live = FALSE]
  <2>1. old \in Row
    BY <1>3, VisibleRow DEF SoftDelete
  <2>2. new \in Row /\ new.code = old.code
    BY <2>1 DEF Row
  <2>3. new # NoRow
    BY <2>2, NoRowAssumption
  <2>4. /\ draft' = [draft EXCEPT ![c][i] = new]
        /\ told' = [told EXCEPT ![c] = @ \cup {i}]
        /\ UNCHANGED <<rows, ask>> /\ at[c] = "open" /\ Live(c, i)
    BY <1>3 DEF SoftDelete, Statement
  <2>. HIDE DEF new
  <2>5. /\ rows[i] # NoRow => rows[i].live /\ old.code = rows[i].code
        /\ rows[i] = NoRow => ask[c][i].name # Unset /\ ask[c][i].price # Unset
    BY <2>4 DEF DraftsFollow, OneWriter, Live, Visible
  <2>. QED  BY <2>2, <2>3, <2>4, <2>5
<1>. QED  BY <1>1, <1>2, <1>3 DEF WritesRow

\* Every step keeps what is said about drafts.
LEMMA NextDraftsFollow == IInv /\ DraftsFollow /\ [Next]_vars => DraftsFollow'
<1>. SUFFICES ASSUME IInv, DraftsFollow, [Next]_vars PROVE DraftsFollow'
  OBVIOUS
<1>1. CASE UNCHANGED vars
  BY <1>1 DEF DraftsFollow, Has, vars, tableVars, ghostVars
<1>. SUFFICES ASSUME Next PROVE DraftsFollow'
  BY <1>1
<1>. PICK c \in Requests : Request(c)
  BY DEF Next
<1>2. CASE Quiet(c)
  BY <1>2, QuietWritesNothing DEF DraftsFollow, Has
<1>3. ASSUME NEW i \in Ids, WritesRow(c, i) PROVE DraftsFollow'
  BY <1>3, DraftIsSet, OnlyOwn DEF DraftsFollow, Has, IInv
<1>4. CASE Commit(c)
  <2>1. /\ \A i \in Ids : rows'[i] = IF Has(c, i) THEN draft[c][i] ELSE rows[i]
        /\ draft'[c] = NoDrafts
    BY <1>4 DEF Commit, Ends, Visible, Has, IInv, TypeOK
  <2>2. \A d \in Requests \ {c}, i \in Ids : Has(d, i) => ~Has(c, i)
    BY DEF IInv, Core, OneWriter
  <2>. QED  BY <2>1, <2>2, OnlyOwn DEF DraftsFollow, Has, NoDrafts, IInv
<1>5. CASE Rollback(c)
  BY <1>5, OnlyOwn DEF Rollback, Ends, DraftsFollow, Has, NoDrafts, IInv, TypeOK
<1>. QED  BY <1>2, <1>3, <1>4, <1>5, RequestSteps

\* What a request has set in a row follows from its draft, what it has asked
\* for and was told, and whether the row is there.
LEMMA ChangeStays ==
  ASSUME NEW c \in Requests, NEW i \in Ids,
         draft'[c][i] = draft[c][i], ask'[c][i] = ask[c][i],
         i \in told'[c] <=> i \in told[c],
         rows'[i] = NoRow <=> rows[i] = NoRow
  PROVE  Change(c, i)' = Change(c, i)
<1>1. SetColumns(c, i)' = SetColumns(c, i)
  BY DEF SetColumns
<1>2. Asked(c, i)' = Asked(c, i)
  <2>1. (i \notin told'[c]) = (i \notin told[c])
    OBVIOUS
  <2>. QED  BY <2>1 DEF Asked
<1>. QED  BY <1>1, <1>2 DEF Change

\* Without a draft nothing is set.
LEMMA NoDraftNoChange ==
  ASSUME NEW c \in Requests, NEW i \in Ids, draft[c][i] = NoRow
  PROVE  Change(c, i) = Table!None
BY DEF Change, SetColumns, Table!None

\* The columns that are set, and their values.
LEMMA ChangeColumns ==
  ASSUME NEW c \in Requests, NEW i \in Ids
  PROVE  /\ DOMAIN Change(c, i) = SetColumns(c, i)
         /\ \A column \in SetColumns(c, i) : Change(c, i)[column] = Asked(c, i)[column]
BY DEF Change

\* A row is its columns.
LEMMA RowColumns ==
  ASSUME NEW r \in Row
  PROVE  r = [live |-> r.live, code |-> r.code, name |-> r.name, price |-> r.price]
BY DEF Row

\* A request that has drafted a row may commit it, and what it has set, laid
\* over what is committed, is its draft.
LEMMA DraftIsCommitted ==
  ASSUME IInv, DraftsFollow, NEW c \in Requests, NEW i \in Ids, at[c] = "open", Has(c, i)
  PROVE  /\ Table!Sets(rows[i], Change(c, i))
         /\ draft[c][i] = Table!Over(Change(c, i), rows[i])
<1>. DEFINE new == draft[c][i]
            columns == {"live", "code", "name", "price"}
            Of(column) == IF column \in SetColumns(c, i)
                          THEN Asked(c, i)[column] ELSE rows[i][column]
<1>1. new \in Row
  BY VisibleRow DEF IInv
<1>2. /\ (i \notin told[c]) = new.live
      /\ new.name = Later(ask[c][i], wrote[i]).name
      /\ new.price = InCents(Later(ask[c][i], wrote[i]).price)
  <2>1. i \in told[c] <=> ~new.live
    BY DEF IInv, Core, TellersFollow, Has
  <2>2. new.live \in BOOLEAN
    BY <1>1 DEF Row
  <2>. QED  BY <2>1, <2>2 DEF IInv, Core, AskFollows, Has
<1>3. Table!Over(Change(c, i), rows[i])
        = [live |-> Of("live"), code |-> Of("code"), name |-> Of("name"),
           price |-> Of("price")]
  <2>1. \A column \in columns :
          (IF column \in DOMAIN Change(c, i)
           THEN Change(c, i)[column] ELSE rows[i][column]) = Of(column)
    BY ChangeColumns
  <2>. QED  BY <2>1 DEF Table!Over
<1>4. /\ Asked(c, i).live = new.live
      /\ Asked(c, i).code = new.code
      /\ Asked(c, i).name = ask[c][i].name
      /\ ask[c][i].price # Unset => Asked(c, i).price = InCents(ask[c][i].price)
  BY <1>2 DEF Asked
<1>5. CASE rows[i] = NoRow
  <2>1. SetColumns(c, i) = columns
    BY <1>5 DEF SetColumns, Has
  <2>2. ask[c][i].name # Unset /\ ask[c][i].price # Unset
    BY <1>5 DEF DraftsFollow
  <2>3. new.name = ask[c][i].name /\ new.price = InCents(ask[c][i].price)
    BY <1>2, <2>2 DEF Later, Coalesce
  <2>4. Of("live") = new.live /\ Of("code") = new.code
        /\ Of("name") = new.name /\ Of("price") = new.price
    BY <1>4, <2>1, <2>2, <2>3
  <2>5. new = Table!Over(Change(c, i), rows[i])
    BY <1>1, <1>3, <2>4, RowColumns
  <2>6. Table!Sets(rows[i], Change(c, i))
    BY <1>5, <2>1, ChangeColumns DEF Table!Sets, Table!Columns
  <2>. QED  BY <2>5, <2>6
<1>6. CASE rows[i] # NoRow
  <2>1. /\ rows[i] \in Row /\ rows[i].live /\ new.code = rows[i].code
        /\ rows[i].name = wrote[i].name /\ rows[i].price = InCents(wrote[i].price)
    BY <1>6, VisibleRow DEF IInv, Core, OneWriter, NoFieldLost, DraftsFollow
  <2>2. /\ "live" \in SetColumns(c, i) <=> i \in told[c]
        /\ "code" \notin SetColumns(c, i)
        /\ "name" \in SetColumns(c, i) <=> ask[c][i].name # Unset
        /\ "price" \in SetColumns(c, i) <=> ask[c][i].price # Unset
        /\ SetColumns(c, i) \subseteq columns
    BY <1>6 DEF SetColumns, Has
  <2>3. rows[i].live = TRUE
    BY <2>1 DEF Row
  <2>4. Of("live") = new.live
    BY <1>2, <1>4, <2>2, <2>3
  <2>5. Of("code") = new.code
    BY <2>1, <2>2
  <2>6. Of("name") = new.name
    BY <1>2, <1>4, <2>1, <2>2 DEF Later, Coalesce
  <2>7. Of("price") = new.price
    BY <1>2, <1>4, <2>1, <2>2 DEF Later, Coalesce
  <2>8. new = Table!Over(Change(c, i), rows[i])
    BY <1>1, <1>3, <2>4, <2>5, <2>6, <2>7, RowColumns
  <2>9. Table!Sets(rows[i], Change(c, i))
    BY <1>6, <2>1, <2>2, ChangeColumns DEF Table!Sets, Table!Columns
  <2>. QED  BY <2>8, <2>9
<1>. QED  BY <1>5, <1>6

\* What a request sees of a row is what everybody will see of it: what is
\* committed, and what the request has set laid over it.
LEMMA CommittedAsSeen ==
  ASSUME IInv, DraftsFollow, NEW c \in Requests, NEW i \in Ids, at[c] = "open"
  PROVE  Visible(c, i) = IF Change(c, i) = Table!None THEN rows[i]
                         ELSE Table!Over(Change(c, i), rows[i])
<1>1. CASE ~Has(c, i)
  BY <1>1, NoDraftNoChange DEF Visible, Has
<1>2. CASE Has(c, i) /\ Change(c, i) # Table!None
  BY <1>2, DraftIsCommitted DEF Visible, Has
<1>3. CASE Has(c, i) /\ Change(c, i) = Table!None
  <2>1. DOMAIN Change(c, i) = {}
    BY <1>3 DEF Table!None
  <2>2. rows[i] # NoRow
    BY <1>3, <2>1, DraftIsCommitted DEF Table!Sets, Table!Columns
  <2>3. Table!Over(Change(c, i), rows[i]) = rows[i]
    BY <2>1, <2>2, VisibleRow, RowColumns DEF Table!Over, IInv
  <2>. QED  BY <1>3, <2>3, DraftIsCommitted DEF Visible, Has
<1>. QED  BY <1>1, <1>2, <1>3

\* What has not changed for ResourceTable.
LEMMA TableStutters ==
  ASSUME UNCHANGED rows,
         \A c \in Requests, i \in Ids : Change(c, i)' = Change(c, i)
  PROVE  UNCHANGED Table!absVars
BY DEF Table!absVars

\* A statement that writes sets columns.
LEMMA SetRefines ==
  ASSUME IInv, IInv', DraftsFollow, DraftsFollow', NEW c \in Requests, Request(c),
         NEW i \in Ids, WritesRow(c, i)
  PROVE  Table!AbsNext
<1>. DEFINE before == [d \in Requests |-> [j \in Ids |-> Change(d, j)]]
            after == [d \in Requests |-> [j \in Ids |-> Change(d, j)']]
<1>1. \A d \in Requests, j \in Ids : d # c \/ j # i => Change(d, j)' = Change(d, j)
  <2>. SUFFICES ASSUME NEW d \in Requests, NEW j \in Ids, d # c \/ j # i
                PROVE  Change(d, j)' = Change(d, j)
    OBVIOUS
  <2>1. /\ draft'[d][j] = draft[d][j] /\ ask'[d][j] = ask[d][j]
        /\ j \in told'[d] <=> j \in told[d]
        /\ rows'[j] = rows[j]
    BY DraftIsSet, OnlyOwn DEF IInv
  <2>. QED  BY <2>1, ChangeStays
<1>2. after = [before EXCEPT ![c][i] = after[c][i]]
  BY <1>1
<1>3. SetColumns(c, i) \subseteq SetColumns(c, i)'
  BY DraftIsSet DEF SetColumns
<1>4. Table!Sets(rows[i], Change(c, i)')
  <2>1. IF rows[i] = NoRow
        THEN SetColumns(c, i)' = {"live", "code", "name", "price"}
        ELSE rows[i].live /\ SetColumns(c, i)' \subseteq {"live", "name", "price"}
    BY DraftIsSet DEF SetColumns
  <2>2. DOMAIN Change(c, i)' = SetColumns(c, i)'
    BY DEF Change
  <2>. QED  BY <2>1, <2>2 DEF Table!Sets, Table!Columns
<1>5. DOMAIN Change(c, i) \subseteq DOMAIN Change(c, i)'
  BY <1>3 DEF Change
<1>6. UNCHANGED rows
  BY DraftIsSet
<1>7. Table!Write(c, i)
  BY <1>2, <1>4, <1>5, <1>6 DEF Table!Write
<1>. QED  BY <1>7 DEF Table!AbsNext

\* After its end nothing of a request is left, and others keep what they set.
LEMMA EndForgets ==
  ASSUME IInv, NEW c \in Requests, Commit(c) \/ Rollback(c)
  PROVE  Table!Forget(c)
<1>1. Request(c) /\ draft'[c] = NoDrafts
  BY DEF Request, Commit, Rollback, Ends, IInv, TypeOK
<1>2. \A i \in Ids : Change(c, i)' = Table!None
  BY <1>1 DEF Change, SetColumns, NoDrafts, Table!None
<1>3. \A d \in Requests \ {c}, i \in Ids : Change(d, i)' = Change(d, i)
  <2>. SUFFICES ASSUME NEW d \in Requests \ {c}, NEW i \in Ids
                PROVE  Change(d, i)' = Change(d, i)
    OBVIOUS
  <2>1. draft'[d] = draft[d] /\ ask'[d] = ask[d] /\ told'[d] = told[d]
    BY <1>1, OnlyOwn DEF IInv
  <2>2. CASE Has(d, i)
    <3>1. ~Has(c, i)
      BY <2>2 DEF IInv, Core, OneWriter
    <3>2. rows'[i] = rows[i]
      BY <3>1 DEF Commit, Rollback, Visible, Has
    <3>. QED  BY <2>1, <3>2, ChangeStays
  <2>3. CASE ~Has(d, i)
    BY <2>1, <2>3 DEF Change, SetColumns, Has
  <2>. QED  BY <2>2, <2>3
<1>. QED  BY <1>2, <1>3 DEF Table!Forget

\* A commit takes effect as ResourceTable says.
LEMMA CommitRefines ==
  ASSUME IInv, IInv', DraftsFollow, NEW c \in Requests, Commit(c)
  PROVE  Table!AbsNext
<1>1. at[c] = "open" /\ rows' = [i \in Ids |-> Visible(c, i)]
  BY DEF Commit
<1>2. \A i \in Ids : Change(c, i) # Table!None => Table!Sets(rows[i], Change(c, i))
  BY <1>1, NoDraftNoChange, DraftIsCommitted DEF Has
<1>3. rows' = [i \in Ids |-> IF Change(c, i) = Table!None THEN rows[i]
                             ELSE Table!Over(Change(c, i), rows[i])]
  BY <1>1, CommittedAsSeen
<1>4. Table!CodesDiffer(rows')
  BY DEF IInv, Core, UniqueRows, LiveRow, Table!CodesDiffer
<1>5. Table!Commit(c)
  BY <1>2, <1>3, <1>4, EndForgets DEF Table!Commit
<1>. QED  BY <1>5 DEF Table!AbsNext

\* The table starts empty.
LEMMA InitRefines == Init => Table!AbsInit
<1>. SUFFICES ASSUME Init PROVE Table!AbsInit
  OBVIOUS
<1>1. \A c \in Requests, i \in Ids : Change(c, i) = Table!None
  BY NoDraftNoChange DEF Init, NoDrafts
<1>. QED  BY <1>1 DEF Init, Table!AbsInit

\* Every step of a request is one of ResourceTable, or nothing.
LEMMA RequestRefines ==
  ASSUME IInv, IInv', DraftsFollow, DraftsFollow', [Next]_vars
  PROVE  [Table!AbsNext]_(Table!absVars)
<1>1. ASSUME UNCHANGED <<rows, draft, ask, told>> PROVE UNCHANGED Table!absVars
  BY <1>1, ChangeStays, TableStutters
<1>2. CASE UNCHANGED vars
  BY <1>1, <1>2 DEF vars, tableVars, ghostVars
<1>3. ASSUME NEW c \in Requests, Request(c) PROVE [Table!AbsNext]_(Table!absVars)
  <2>1. CASE Quiet(c)
    BY <1>1, <2>1, QuietWritesNothing
  <2>2. ASSUME NEW i \in Ids, WritesRow(c, i) PROVE Table!AbsNext
    BY <1>3, <2>2, SetRefines
  <2>3. CASE Commit(c)
    BY <2>3, CommitRefines
  <2>4. CASE Rollback(c)
    <3>1. Table!Rollback(c)
      BY <2>4, EndForgets DEF Table!Rollback, Rollback
    <3>. QED  BY <3>1 DEF Table!AbsNext
  <2>. QED  BY <1>3, <2>1, <2>2, <2>3, <2>4, RequestSteps
<1>. QED  BY <1>2, <1>3 DEF Next

\* Requests that read, wait, write and fail in any order do to the table what
\* ResourceTable promises: what a request has asked for appears at its commit,
\* laid over the rows as they are then (data.go.tmpl 29-34, queries.sql.tmpl
\* 42-55).
THEOREM Refinement == Spec => ImplementsResourceTable
<1>1. Init => DraftsFollow
  BY DEF Init, DraftsFollow, Has, NoDrafts
<1>2. IInv /\ IInv' /\ DraftsFollow /\ DraftsFollow' /\ [Next]_vars
        => [Table!AbsNext]_(Table!absVars)
  BY RequestRefines
<1>. QED
  BY <1>1, <1>2, InitRefines, NextDraftsFollow, Invariant, PTL
     DEF Spec, ImplementsResourceTable, Table!AbsSpec

-----------------------------------------------------------------------------
(* Prices. *)

\* A price that was set was converted and fits the column, and a committed row
\* has one.
PricesFit ==
  /\ \A c \in Requests, i \in Ids : ask[c][i].price # Unset => Fits(ask[c][i].price)
  /\ \A i \in Ids : wrote[i].price # Unset => Fits(wrote[i].price)
  /\ \A i \in Ids : rows[i] # NoRow => wrote[i].price # Unset

\* Every step keeps what is said about prices.
LEMMA NextPricesFit == IInv /\ DraftsFollow /\ PricesFit /\ [Next]_vars => PricesFit'
<1>. SUFFICES ASSUME IInv, DraftsFollow, PricesFit, [Next]_vars PROVE PricesFit'
  OBVIOUS
<1>. USE DEF PricesFit
<1>1. CASE UNCHANGED vars
  BY <1>1 DEF vars, tableVars, ghostVars
<1>. SUFFICES ASSUME Next PROVE PricesFit'
  BY <1>1
<1>. PICK c \in Requests : Request(c)
  BY DEF Next
<1>2. ASSUME UNCHANGED <<rows, wrote>>,
             \A i \in Ids : ask'[c][i].price = ask[c][i].price
                            \/ ask'[c][i].price = Unset \/ Fits(ask'[c][i].price)
      PROVE  PricesFit'
  BY <1>2, OnlyOwn DEF IInv
<1>3. CASE Quiet(c)
  BY <1>2, <1>3 DEF Quiet, Begin, StatementFails, CreateRefused, GetByCode,
                    CreateTooDear, UpdateMisses, SoftDeleteMisses, Get, PriceInvalid,
                    Aborts, tableVars, ghostVars
<1>4. CASE \E k \in Codes, n \in Names, p \in Prices : Create(c, k, n, p)
  <2>. PICK k \in Codes, n \in Names, p \in Prices : Create(c, k, n, p)
    BY <1>4
  <2>1. \A i \in Ids :
          ask'[c][i] = IF i = next THEN [name |-> n, price |-> p] ELSE ask[c][i]
    BY DEF Create, IInv, TypeOK
  <2>2. UNCHANGED <<rows, wrote>> /\ Fits(p)
    BY DEF Create
  <2>. QED  BY <1>2, <2>1, <2>2
<1>5. CASE \E i \in Ids, v \in Values : Update(c, i, v)
  <2>. PICK i \in Ids, v \in Values : Update(c, i, v)
    BY <1>5
  <2>1. \A j \in Ids : ask'[c][j] = IF j = i THEN Later(v, ask[c][i]) ELSE ask[c][j]
    BY DEF Update, IInv, TypeOK
  <2>2. UNCHANGED <<rows, wrote>> /\ (v.price # Unset => Fits(v.price))
    BY DEF Update
  <2>3. \/ Later(v, ask[c][i]).price = v.price /\ v.price # Unset
        \/ Later(v, ask[c][i]).price = ask[c][i].price
    BY DEF Later, Coalesce
  <2>. QED  BY <1>2, <2>1, <2>2, <2>3
<1>6. CASE \E i \in Ids : SoftDelete(c, i)
  BY <1>2, <1>6 DEF SoftDelete
<1>7. CASE Commit(c)
  <2>1. /\ \A i \in Ids : rows'[i] = IF Has(c, i) THEN draft[c][i] ELSE rows[i]
        /\ \A i \in Ids : wrote'[i].price = Coalesce(ask[c][i].price, wrote[i].price)
        /\ \A i \in Ids : ask'[c][i].price = Unset
    BY <1>7 DEF Commit, Ends, Visible, Has, Later, Nothing, IInv, TypeOK
  <2>2. \A i \in Ids : wrote'[i].price # Unset => Fits(wrote'[i].price)
    BY <2>1 DEF Coalesce
  <2>3. \A i \in Ids : rows'[i] # NoRow => wrote'[i].price # Unset
    BY <2>1 DEF Coalesce, DraftsFollow
  <2>4. \A d \in Requests, i \in Ids : ask'[d][i].price # Unset => Fits(ask'[d][i].price)
    BY <2>1, OnlyOwn DEF IInv
  <2>. QED  BY <2>2, <2>3, <2>4
<1>8. CASE Rollback(c)
  <2>1. UNCHANGED <<rows, wrote>> /\ \A i \in Ids : ask'[c][i].price = Unset
    BY <1>8 DEF Rollback, Ends, Nothing, IInv, TypeOK
  <2>. QED  BY <1>2, <2>1
<1>. QED  BY <1>3, <1>4, <1>5, <1>6, <1>7, <1>8, RequestSteps DEF WritesRow

\* A price that was converted is a number or NaN, and so is the numeric.
LEMMA Converted ==
  ASSUME NEW p \in Prices, Valid(p)
  PROVE  LET n == Float64ToNumeric(p).numeric
         IN  /\ p = NaN => n = NaNNumeric
             /\ p # NaN => n = Numeric(p.int, p.exp) /\ p \in [int : Int, exp : Int]
BY PriceAssumption DEF Valid, Float64ToNumeric

\* Who reads a price that was set, in any form, gets it.
LEMMA PriceIsRead ==
  ASSUME NEW p \in Prices, Fits(p), NEW n \in Forms(InCents(p))
  PROVE  LET read == NumericToFloat(n)
         IN  /\ read.ok
             /\ read.float = NaN <=> p = NaN
             /\ p # NaN => WithinHalfACent(read.float, p)
<1>. DEFINE q == Float64ToNumeric(p).numeric
            read == NumericToFloat(n)
<1>1. InCents(p) = Kept(q)
  BY DEF InCents
<1>2. CASE p = NaN
  <2>1. InCents(p) = NaN
    BY <1>1, <1>2, Converted DEF Fits, Kept, NaNNumeric
  <2>2. n.kind = "nan"
    BY <2>1 DEF Forms, NaNNumeric
  <2>3. read = [ok |-> TRUE, float |-> NaN]
    BY <2>2 DEF NumericToFloat
  <2>. QED  BY <1>2, <2>3
<1>3. CASE p # NaN
  <2>1. q = Numeric(p.int, p.exp) /\ p \in [int : Int, exp : Int]
    BY <1>3, Converted DEF Fits
  <2>2. q \in Numerics /\ q.kind = "number" /\ q.int = p.int /\ q.exp = p.exp
    BY <2>1 DEF Numeric, Numerics
  <2>. HIDE DEF q
  <2>3. Kept(q) \in Int /\ Kept(q) # NaN
    BY <2>2, KeptIsWhole, NaNAssumption
  <2>4. /\ n \in Numerics /\ n.kind = "number"
        /\ WithinHalfACent(Decimal(n.int, n.exp), Decimal(q.int, q.exp))
    BY <1>1, <2>2, <2>3, FormsAreNear
  <2>5. Decimal(q.int, q.exp) = p
    BY <2>1, <2>2 DEF Decimal
  <2>6. Decimal(n.int, n.exp) \in [int : Int, exp : Int]
    BY <2>4 DEF Decimal, Numerics
  <2>7. read = [ok |-> TRUE, float |-> Decimal(n.int, n.exp)]
    BY <2>4 DEF NumericToFloat
  <2>. QED  BY <1>3, <2>4, <2>5, <2>6, <2>7, PriceAssumption
<1>. QED  BY <1>2, <1>3

\* Whoever reads a row gets the price that was last set in it: NaN for NaN, and
\* otherwise within half a cent, in whatever form the driver returns it
\* (data.go.tmpl 152, numeric.go 47-68).
THEOREM PricesAreRead == Spec => []ReadersGetPrices
<1>1. Init => DraftsFollow /\ PricesFit
  BY DEF Init, DraftsFollow, PricesFit, Nothing, Has, NoDrafts
<1>2. IInv /\ DraftsFollow /\ PricesFit => ReadersGetPrices
  <2>. SUFFICES ASSUME IInv, DraftsFollow, PricesFit, NEW c \in Requests, NEW i \in Ids,
                       Visible(c, i) # NoRow
                PROVE  /\ LastPrice(c, i) \in Prices /\ Fits(LastPrice(c, i))
                       /\ Visible(c, i).price = InCents(LastPrice(c, i))
    BY PriceIsRead DEF ReadersGetPrices
  <2>1. ask[c][i].price \in Prices \cup {Unset} /\ wrote[i].price \in Prices \cup {Unset}
    BY DEF IInv, TypeOK, Values
  <2>2. CASE Has(c, i)
    <3>1. LastPrice(c, i) = Coalesce(ask[c][i].price, wrote[i].price)
      BY <2>2 DEF LastPrice, Later, Has
    <3>2. ask[c][i].price = Unset => wrote[i].price # Unset
      BY <2>2 DEF DraftsFollow, PricesFit
    <3>3. Visible(c, i).price = InCents(LastPrice(c, i))
      BY <2>2 DEF IInv, Core, AskFollows, LastPrice, Visible, Has
    <3>. QED  BY <2>1, <3>1, <3>2, <3>3 DEF PricesFit, Coalesce
  <2>3. CASE ~Has(c, i)
    <3>1. LastPrice(c, i) = wrote[i].price /\ Visible(c, i) = rows[i]
      BY <2>3, LaterNothing DEF LastPrice, Visible, Has
    <3>. QED  BY <2>1, <3>1 DEF PricesFit, IInv, Core, NoFieldLost
  <2>. QED  BY <2>2, <2>3
<1>. QED
  BY <1>1, <1>2, Invariant, NextDraftsFollow, NextPricesFit, PTL DEF Spec
=============================================================================
