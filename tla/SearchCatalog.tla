--------------------------- MODULE SearchCatalog ---------------------------
(***************************************************************************)
(* Filling and searching the search catalog: SearchUseCase (internal/biz)  *)
(* over the two SearchCatalog adapters (internal/data), with Reindex run   *)
(* by several callers at once, which may run it again after a failure, and *)
(* the Search RPC (internal/service).  A search reads and changes nothing: *)
(* what it answers is an operator of the state.                            *)
(*                                                                         *)
(* The servers are modelled by what the adapters rely on.  Elasticsearch   *)
(* applies a request when it comes; searches see the documents of the last *)
(* refresh, and an index request with refresh=wait_for is answered after   *)
(* the next one.  Meilisearch queues every write as a task and runs the    *)
(* tasks in order, also those nobody waits for any more; a task that ran   *)
(* is visible to searches.  Both create a missing index when the first     *)
(* document comes, guessing its mapping, and refuse to create one that     *)
(* exists.  The writes to one document are counted: a document's value is  *)
(* the number of the write it comes from.  A query that matches all the    *)
(* products is asked: which words match is the server's business.          *)
(***************************************************************************)
EXTENDS Naturals, Sequences

CONSTANTS
  Callers,    \* goroutines that run Reindex
  Indexes,    \* names of indexes on the server
  DefaultIndex, \* the index of the configuration
  Unset,      \* a request that names no index
  Products,   \* the products each of them indexes
  NoProduct,  \* "no product": the operation creates the index
  MaxTries    \* bound: calls of Reindex by one caller

ASSUME NamesAssumption ==
  NoProduct \notin Products /\ DefaultIndex \in Indexes /\ Unset \notin Indexes
ASSUME TriesAssumption == MaxTries \in Nat \ {0}

VARIABLES
  adapter,    \* the adapter the project was generated with
  asked,      \* asked[c]: the index c names in its calls
  index,      \* index[i]: index i on the server
  written,    \* written[i][p]: writes to p's document in i so far
  shown,      \* shown[i][p]: the write searches see, 0 if none
  queue,      \* Meilisearch: tasks not run yet
  pc,         \* pc[c]: where caller c is
  tries,      \* tries[c]: calls of Reindex so far
  todo,       \* todo[c]: products this call has still to index
  answer,     \* answer[c]: the server's verdict on what c waits for
  place       \* place[c][p]: the write this call made to p, 0 if none yet

serverVars == <<index, written, shown, queue>>
vars == <<adapter, asked, serverVars, pc, tries, todo, answer, place>>

Waiting == {"creating", "putting"}
Tasks == [by : Callers, try : 1..MaxTries, product : Products \cup {NoProduct}]

TypeOK ==
  /\ adapter \in {"elasticsearch", "meilisearch"}
  /\ asked \in [Callers -> Indexes \cup {Unset}]
  /\ index \in [Indexes -> {"missing", "mapped", "guessed"}]
  /\ written \in [Indexes -> [Products -> Nat]]
  /\ shown \in [Indexes -> [Products -> Nat]]
  /\ queue \in Seq(Tasks)
  /\ pc \in [Callers -> Waiting \cup {"check", "create", "put", "done",
                                      "failed", "refused"}]
  /\ tries \in [Callers -> 1..MaxTries]
  /\ todo \in [Callers -> SUBSET Products]
  /\ answer \in [Callers -> {"none", "succeeded", "failed"}]
  /\ place \in [Callers -> [Products -> Nat]]

Init ==
  /\ adapter \in {"elasticsearch", "meilisearch"}
  /\ asked \in [Callers -> Indexes \cup {Unset}]
  /\ index = [i \in Indexes |-> "missing"]
  /\ written = [i \in Indexes |-> [p \in Products |-> 0]]
  /\ shown = written
  /\ queue = <<>>
  /\ pc = [c \in Callers |-> "check"]
  /\ tries = [c \in Callers |-> 1]
  /\ todo = [c \in Callers |-> Products]
  /\ answer = [c \in Callers |-> "none"]
  /\ place = [c \in Callers |-> [p \in Products |-> 0]]

Goto(c, l) == pc' = [pc EXCEPT ![c] = l]

\* indexName: the configured index if the request names none.
IndexName(name) == IF name # Unset THEN name ELSE DefaultIndex

At(c) == IndexName(asked[c])

-----------------------------------------------------------------------------
(* EnsureIndex. *)

\* Exists, or FetchInfo that did not answer 404.
IndexExists(c) ==
  /\ pc[c] = "check" /\ index[At(c)] # "missing"
  /\ Goto(c, "put")
  /\ UNCHANGED <<adapter, asked, serverVars, tries, todo, answer, place>>

IndexMissing(c) ==
  /\ pc[c] = "check" /\ index[At(c)] = "missing"
  /\ Goto(c, "create")
  /\ UNCHANGED <<adapter, asked, serverVars, tries, todo, answer, place>>

\* Elasticsearch creates the index with the mapping of the request.
Create(c) ==
  /\ adapter = "elasticsearch" /\ pc[c] = "create" /\ index[At(c)] = "missing"
  /\ index' = [index EXCEPT ![At(c)] = "mapped"]
  /\ Goto(c, "put")
  /\ UNCHANGED <<adapter, asked, written, shown, queue, tries, todo, answer, place>>

\* Somebody else was faster: resource_already_exists_exception.
CreateRefused(c) ==
  /\ adapter = "elasticsearch" /\ pc[c] = "create" /\ index[At(c)] # "missing"
  /\ Goto(c, "refused")
  /\ UNCHANGED <<adapter, asked, serverVars, tries, todo, answer, place>>

Enqueue(c, p) ==
  queue' = Append(queue, [by |-> c, try |-> tries[c], product |-> p])

\* Meilisearch answers with a task; the caller waits for it.
EnqueueCreate(c) ==
  /\ adapter = "meilisearch" /\ pc[c] = "create"
  /\ Enqueue(c, NoProduct)
  /\ Goto(c, "creating")
  /\ UNCHANGED <<adapter, asked, index, written, shown, tries, todo, answer, place>>

-----------------------------------------------------------------------------
(* IndexProduct, for one product after the other. *)

\* A write to p by caller c comes to the server.
Write(c, p, current) ==
  /\ written' = [written EXCEPT ![At(c)][p] = @ + 1]
  /\ index' = [index EXCEPT ![At(c)] = IF @ = "missing" THEN "guessed" ELSE @]
  /\ place' = IF current
                THEN [place EXCEPT ![c][p] = written[At(c)][p] + 1]
                ELSE place

\* Variant: the request does not wait for a refresh.
PutWithoutWaiting(c, p) ==
  /\ adapter = "elasticsearch" /\ pc[c] = "put" /\ p \in todo[c]
  /\ Write(c, p, TRUE)
  /\ todo' = [todo EXCEPT ![c] = @ \ {p}]
  /\ UNCHANGED <<adapter, asked, shown, queue, pc, tries, answer>>

\* Elasticsearch stores the document under the product's id.
Put(c, p) ==
  /\ adapter = "elasticsearch" /\ pc[c] = "put" /\ p \in todo[c]
  /\ Write(c, p, TRUE)
  /\ todo' = [todo EXCEPT ![c] = @ \ {p}]
  /\ Goto(c, "putting")
  /\ UNCHANGED <<adapter, asked, shown, queue, tries, answer>>

EnqueuePut(c, p) ==
  /\ adapter = "meilisearch" /\ pc[c] = "put" /\ p \in todo[c]
  /\ Enqueue(c, p)
  /\ todo' = [todo EXCEPT ![c] = @ \ {p}]
  /\ Goto(c, "putting")
  /\ UNCHANGED <<adapter, asked, index, written, shown, tries, answer, place>>

\* Variant: a task that failed is still waited for.
SettledOnSuccess(c) == answer[c] = "succeeded"

\* The request was answered, or the task ended.
Settled(c) == answer[c] # "none"

\* The index was created or the document is searchable: on to the next
\* product.
Proceed(c) ==
  /\ pc[c] \in Waiting /\ Settled(c) /\ answer[c] = "succeeded"
  /\ Goto(c, "put")
  /\ answer' = [answer EXCEPT ![c] = "none"]
  /\ UNCHANGED <<adapter, asked, serverVars, tries, todo, place>>

\* The task ended with status failed: another caller had created the index.
TaskRefused(c) ==
  /\ pc[c] \in Waiting /\ Settled(c) /\ answer[c] = "failed"
  /\ Goto(c, "refused")
  /\ answer' = [answer EXCEPT ![c] = "none"]
  /\ UNCHANGED <<adapter, asked, serverVars, tries, todo, place>>

Done(c) ==
  /\ pc[c] = "put" /\ todo[c] = {}
  /\ Goto(c, "done")
  /\ UNCHANGED <<adapter, asked, serverVars, tries, todo, answer, place>>

\* Variant: Reindex goes on when EnsureIndex returned an error.
FailsAndGoesOn(c) ==
  /\ pc[c] \in {"check", "create", "put"} \cup Waiting
  /\ Goto(c, IF pc[c] \in {"check", "create", "creating"} THEN "put" ELSE "failed")
  /\ answer' = [answer EXCEPT ![c] = "none"]
  /\ UNCHANGED <<adapter, asked, serverVars, tries, todo, place>>

\* The connection fails or the context ends; what was sent may have had its
\* effect, or will have it.  Reindex returns the error, products already
\* indexed stay.
Fails(c) ==
  /\ pc[c] \in {"check", "create", "put"} \cup Waiting
  /\ Goto(c, "failed")
  /\ answer' = [answer EXCEPT ![c] = "none"]
  /\ UNCHANGED <<adapter, asked, serverVars, tries, todo, place>>

\* The caller runs Reindex again, from the start.
Again(c) ==
  /\ pc[c] \in {"failed", "refused"} /\ tries[c] < MaxTries
  /\ Goto(c, "check")
  /\ tries' = [tries EXCEPT ![c] = @ + 1]
  /\ todo' = [todo EXCEPT ![c] = Products]
  /\ place' = [place EXCEPT ![c] = [p \in Products |-> 0]]
  /\ UNCHANGED <<adapter, asked, serverVars, answer>>

-----------------------------------------------------------------------------
(* The servers. *)

\* Elasticsearch makes what is stored searchable and answers those waiting.
Refresh ==
  /\ adapter = "elasticsearch"
  /\ shown # written \/ \E c \in Callers : pc[c] = "putting" /\ answer[c] = "none"
  /\ shown' = written
  /\ answer' = [c \in Callers |->
                  IF pc[c] = "putting" THEN "succeeded" ELSE answer[c]]
  /\ UNCHANGED <<adapter, asked, index, written, queue, pc, tries, todo, place>>

\* The caller of a task still waits for it.
Current(t) == pc[t.by] \in Waiting /\ tries[t.by] = t.try

Settle(t, verdict) ==
  answer' = IF Current(t) THEN [answer EXCEPT ![t.by] = verdict] ELSE answer

\* Meilisearch runs the next task.
RunCreate ==
  /\ queue # <<>> /\ Head(queue).product = NoProduct
  /\ queue' = Tail(queue)
  /\ LET i == At(Head(queue).by) IN
       /\ index' = [index EXCEPT ![i] = IF @ = "missing" THEN "mapped" ELSE @]
       /\ Settle(Head(queue), IF index[i] = "missing" THEN "succeeded" ELSE "failed")
  /\ UNCHANGED <<adapter, asked, written, shown, pc, tries, todo, place>>

RunPut ==
  /\ queue # <<>> /\ Head(queue).product # NoProduct
  /\ queue' = Tail(queue)
  /\ LET t == Head(queue)
         i == At(t.by)
     IN  /\ Write(t.by, t.product, Current(t))
         /\ shown' = [shown EXCEPT ![i][t.product] = written[i][t.product] + 1]
         /\ Settle(t, "succeeded")
  /\ UNCHANGED <<adapter, asked, pc, tries, todo>>

Server == Refresh \/ RunCreate \/ RunPut

Call(c) ==
  \/ IndexExists(c) \/ IndexMissing(c)
  \/ Create(c) \/ CreateRefused(c) \/ EnqueueCreate(c)
  \/ \E p \in Products : Put(c, p) \/ EnqueuePut(c, p)
  \/ Proceed(c) \/ TaskRefused(c) \/ Done(c)

Next ==
  \/ Server
  \/ \E c \in Callers : Call(c) \/ Fails(c) \/ Again(c)

Spec == Init /\ [][Next]_vars

\* The servers work their queues off and goroutines run; failures and further
\* calls of Reindex owe nothing.
FairSpec == Spec /\ WF_vars(Server) /\ \A c \in Callers : WF_vars(Call(c))

-----------------------------------------------------------------------------
(* The Search RPC. *)

\* The product p of write n as the use case has it.  Only the id stays.
BizProduct(p, n) ==
  [ID |-> p, Name |-> <<"name", n>>, SpuCode |-> <<"spu", n>>,
   Price |-> <<"price", n>>, Status |-> <<"status", n>>,
   MainMediaUrl |-> <<"url", n>>, Quantity |-> <<"quantity", n>>]

\* searchRepo.IndexProduct and the JSON names of CatalogProduct: the document.
Document(b) ==
  [id |-> b.ID, name |-> b.Name, spu_code |-> b.SpuCode, price |-> b.Price,
   status |-> b.Status, main_media_url |-> b.MainMediaUrl, quantity |-> b.Quantity]

\* The fields of a CatalogProduct, by their names in JSON.
CatalogFields ==
  {"id", "name", "spu_code", "price", "status", "main_media_url", "quantity"}

\* Elasticsearch returns the whole source, Meilisearch what is asked for.
Retrieved(d) ==
  IF adapter = "elasticsearch" THEN DOMAIN d
  ELSE {"id", "name", "spu_code", "price", "status", "main_media_url", "quantity"}

\* A field that is not in a hit stays zero.
Decoded(d) == [f \in CatalogFields |-> IF f \in Retrieved(d) THEN d[f] ELSE "zero"]

\* searchRepo.Search.
ToBiz(d) ==
  [ID |-> d.id, Name |-> d.name, SpuCode |-> d.spu_code, Price |-> d.price,
   Status |-> d.status, MainMediaUrl |-> d.main_media_url, Quantity |-> d.quantity]

\* bizToV1Product.
ToV1(b) ==
  [Id |-> b.ID, Name |-> b.Name, SpuCode |-> b.SpuCode, Price |-> b.Price,
   Status |-> b.Status, MainMediaUrl |-> b.MainMediaUrl, Quantity |-> b.Quantity]

\* The documents a search sees, one for each id; the request fails if there
\* is no such index.
SearchProducts(name) ==
  LET i == IndexName(name)
  IN  [found |-> index[i] # "missing",
       hits |-> {Decoded(Document(BizProduct(p, shown[i][p]))) :
                   p \in {q \in Products : shown[i][q] > 0}}]

\* SearchService.Search: the products, none if the request failed.
Search(name) ==
  LET answered == SearchProducts(name)
  IN  IF answered.found THEN {ToV1(ToBiz(d)) : d \in answered.hits} ELSE {}

-----------------------------------------------------------------------------
(* Properties *)

\* When Reindex returned nil, a Search that names the index in the same way,
\* or leaves out the configured one, finds every one of its products with all
\* fields from one write, its own or a newer one, whatever other callers,
\* earlier failed calls and late tasks did (biz/search.go 57-67,
\* search_elasticsearch.go 94-127 and 147-152, search_meilisearch.go 69-105,
\* 126-142, service/search.go 22-60).
DoneIsSearchable ==
  \A c \in Callers : pc[c] = "done" =>
    \A name \in {asked[c]} \cup {n \in {Unset, DefaultIndex} :
                                 asked[c] \in {Unset, DefaultIndex}} :
      \A p \in Products :
        \E v \in Search(name) :
          /\ v.Id = p
          /\ v.Name[2] >= place[c][p] /\ place[c][p] > 0
          /\ v = ToV1(BizProduct(p, v.Name[2]))

\* No document ever comes to an index whose mapping the server had to guess,
\* although writes of failed calls may arrive late (biz/search.go 30).
MappingNeverGuessed == \A i \in Indexes : index[i] # "guessed"

\* Every Reindex returns, with nil or with an error, if the server answers.
ReindexReturns ==
  \A c \in Callers :
    (pc[c] = "check") ~> (pc[c] \in {"done", "failed", "refused"})

\* biz/search.go 30: EnsureIndex is idempotent, so it does not fail only
\* because the index is there.
EnsureIndexIdempotent == \A c \in Callers : pc[c] # "refused"
=============================================================================
