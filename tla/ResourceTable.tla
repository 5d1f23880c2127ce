--------------------------- MODULE ResourceTable ---------------------------
(***************************************************************************)
(* What the callers of a resource are promised about its table, whatever   *)
(* other requests do meanwhile: the columns a request has set appear all   *)
(* at once, laid over the rows as they are at that moment and not as the   *)
(* request once read them; or none of them does.  At every moment a code   *)
(* has one row that is not deleted, and a deleted row does not change.     *)
(*                                                                         *)
(* This is the contract of a generated repository (.co/scaffold/resource)  *)
(* as its callers see it; module Products is the code.                     *)
(***************************************************************************)

CONSTANTS
  Requests,  \* each one a transaction or one statement
  Ids,       \* of rows
  NoRow      \* no row

VARIABLES
  rows,      \* rows[i]: what everybody sees of row i
  change     \* change[c][i]: the columns request c has set in row i, with values

absVars == <<rows, change>>

Columns == {"live", "code", "name", "price"}

\* No column.
None == [column \in {} |-> NoRow]

AbsInit ==
  /\ rows = [i \in Ids |-> NoRow]
  /\ change = [c \in Requests |-> [i \in Ids |-> None]]

-----------------------------------------------------------------------------
\* Row old with the columns that are set in new; a row that is not there yet
\* has all its columns from new.
Over(new, old) ==
  LET Of(column) == IF column \in DOMAIN new THEN new[column] ELSE old[column]
  IN  [live |-> Of("live"), code |-> Of("code"), name |-> Of("name"),
       price |-> Of("price")]

\* A row is created with all columns; a row that is there keeps its code, and
\* what is deleted is not written.
Sets(old, new) ==
  IF old = NoRow
  THEN DOMAIN new = Columns
  ELSE old.live /\ DOMAIN new \subseteq Columns \ {"code"}

\* A request sets columns of a row.  It may set them again, but what it has set
\* stays set.
Write(c, i) ==
  /\ Sets(rows[i], change'[c][i])
  /\ DOMAIN change[c][i] \subseteq DOMAIN change'[c][i]
  /\ change' = [change EXCEPT ![c][i] = change'[c][i]]
  /\ UNCHANGED rows

\* Nothing of a request is left.
Forget(c) == change' = [change EXCEPT ![c] = [i \in Ids |-> None]]

\* No two rows have one code, except deleted ones.
CodesDiffer(table) ==
  \A i, j \in Ids :
    /\ table[i] # NoRow /\ table[i].live
    /\ table[j] # NoRow /\ table[j].live
    /\ table[i].code = table[j].code
    => i = j

\* A request takes effect.
Commit(c) ==
  /\ \A i \in Ids : change[c][i] # None => Sets(rows[i], change[c][i])
  /\ rows' = [i \in Ids |->
                IF change[c][i] = None THEN rows[i] ELSE Over(change[c][i], rows[i])]
  /\ CodesDiffer(rows')
  /\ Forget(c)

\* Or not.
Rollback(c) == Forget(c) /\ UNCHANGED rows

AbsNext ==
  \E c \in Requests :
    \/ \E i \in Ids : Write(c, i)
    \/ Commit(c)
    \/ Rollback(c)

AbsSpec == AbsInit /\ [][AbsNext]_absVars
=============================================================================
