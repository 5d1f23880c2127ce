------------------------ MODULE SearchCatalog_proofs ------------------------
(***************************************************************************)
(* Proofs about module SearchCatalog, for any number of callers, products, *)
(* indexes and tries, and for both adapters.                               *)
(*                                                                         *)
(* A Reindex that failed may leave a task behind that runs during a later  *)
(* attempt.  The invariant says that a caller is answered only about the   *)
(* task of its current attempt, of which there is at most one, and that    *)
(* all the products this attempt has finished with are searchable.         *)
(***************************************************************************)
EXTENDS SearchCatalog, SequenceTheorems, FiniteSetTheorems, TLAPS

\* Task n of the queue is of the current attempt of caller c.
Own(c, n) == queue[n].by = c /\ queue[n].try = tries[c]

\* Searches see the product as caller c wrote it in this attempt, or newer.
Searchable(c, p) == place[c][p] \in 1..shown[At(c)][p]

\* Documents go to indexes that are there.
IndexFollows ==
  /\ \A c \in Callers :
       /\ pc[c] \in {"put", "putting", "done"} => index[At(c)] # "missing"
       /\ answer[c] = "succeeded" => index[At(c)] # "missing"
  /\ \A n \in 1..Len(queue) :
       queue[n].product # NoProduct => index[At(queue[n].by)] # "missing"
  /\ MappingNeverGuessed

\* Elasticsearch has no tasks, and Meilisearch shows what it has written.
AdapterFollows ==
  /\ adapter = "elasticsearch" => queue = <<>> /\ \A c \in Callers : pc[c] # "creating"
  /\ adapter = "meilisearch" => shown = written
  /\ \A i \in Indexes, p \in Products : shown[i][p] <= written[i][p]

\* Who does not wait has no answer; who has put nothing has everything to do.
CallerFollows ==
  \A c \in Callers :
    /\ pc[c] \notin Waiting => answer[c] = "none"
    /\ pc[c] \in {"check", "create", "creating"} => todo[c] = Products
    /\ pc[c] = "done" => todo[c] = {}

\* What is left to happen before caller c goes on is that task n runs.
Awaited(c, n) ==
  /\ pc[c] \in Waiting \cup {"failed"}
  /\ pc[c] \in Waiting => answer[c] = "none"
  /\ pc[c] = "creating" => queue[n].product = NoProduct
  /\ pc[c] = "putting" =>
       /\ queue[n].product # NoProduct
       /\ \A p \in Products \ todo[c] : p # queue[n].product => Searchable(c, p)

\* The one task of the current attempt is the one its caller waits for.
OneTask ==
  /\ \A n \in 1..Len(queue) : queue[n].try <= tries[queue[n].by]
  /\ \A c \in Callers, m, n \in 1..Len(queue) : Own(c, m) /\ Own(c, n) => m = n
  /\ \A c \in Callers, n \in 1..Len(queue) : Own(c, n) => Awaited(c, n)

\* What was put is searchable when the caller goes on.
PutsFollow ==
  \A c \in Callers, p \in Products :
    p \notin todo[c] =>
      /\ pc[c] \in {"put", "done"} => Searchable(c, p)
      /\ pc[c] = "putting" /\ answer[c] = "succeeded" => Searchable(c, p)
      /\ pc[c] = "putting" /\ adapter = "elasticsearch" =>
           place[c][p] \in 1..written[At(c)][p]

\* The inductive invariant.
IInv ==
  /\ TypeOK
  /\ IndexFollows
  /\ AdapterFollows
  /\ CallerFollows
  /\ OneTask
  /\ PutsFollow

-----------------------------------------------------------------------------
(* The queue. *)

\* The index of a caller is one of the indexes.
LEMMA AtIndex ==
  ASSUME TypeOK, NEW c \in Callers
  PROVE  At(c) \in Indexes
BY NamesAssumption DEF TypeOK, At, IndexName

\* Tasks are of callers.
LEMMA QueuedTask ==
  ASSUME TypeOK, NEW n \in 1..Len(queue)
  PROVE  /\ queue[n] \in Tasks
         /\ queue[n].by \in Callers
         /\ queue[n].try \in 1..MaxTries
         /\ queue[n].product \in Products \cup {NoProduct}
<1>1. queue[n] \in Tasks
  BY DEF TypeOK
<1>. QED  BY <1>1 DEF Tasks

\* A new task comes last.
LEMMA EnqueuedLast ==
  ASSUME TypeOK, NEW c \in Callers, NEW p \in Products \cup {NoProduct}, Enqueue(c, p)
  PROVE  /\ queue' \in Seq(Tasks)
         /\ Len(queue') = Len(queue) + 1
         /\ \A n \in 1..Len(queue) : queue'[n] = queue[n]
         /\ queue'[Len(queue) + 1].by = c
         /\ queue'[Len(queue) + 1].try = tries[c]
         /\ queue'[Len(queue) + 1].product = p
<1>1. [by |-> c, try |-> tries[c], product |-> p] \in Tasks
  BY DEF TypeOK, Tasks
<1>. QED  BY <1>1, AppendProperties DEF TypeOK, Enqueue

\* The first task is taken.
LEMMA DequeuedFirst ==
  ASSUME TypeOK, queue # <<>>, queue' = Tail(queue)
  PROVE  /\ queue' \in Seq(Tasks)
         /\ 1 \in 1..Len(queue) /\ Head(queue) = queue[1]
         /\ Len(queue') = Len(queue) - 1
         /\ \A n \in 1..Len(queue') : n + 1 \in 1..Len(queue) /\ queue'[n] = queue[n + 1]
<1>1. Len(queue) \in Nat /\ Len(queue) # 0
  BY EmptySeq DEF TypeOK
<1>. QED  BY <1>1, HeadTailProperties DEF TypeOK

\* A new task is the only one of its attempt.
LEMMA EnqueueOneTask ==
  ASSUME TypeOK, OneTask, NEW c \in Callers, NEW p \in Products \cup {NoProduct},
         NEW last \in Nat, last = Len(queue) + 1,
         Enqueue(c, p), tries' = tries,
         \A n \in 1..Len(queue) : ~Own(c, n),
         \A d \in Callers \ {c}, n \in 1..Len(queue) : Awaited(d, n) => Awaited(d, n)',
         Awaited(c, last)'
  PROVE  OneTask'
<1>1. /\ Len(queue') = last
      /\ \A n \in 1..Len(queue) : queue'[n] = queue[n]
      /\ queue'[last].by = c
      /\ queue'[last].try = tries[c]
  BY EnqueuedLast
<1>2. \A n \in 1..Len(queue') : n \in 1..Len(queue) \/ n = last
  BY <1>1 DEF TypeOK
<1>3. /\ \A d \in Callers, n \in 1..Len(queue) : Own(d, n)' <=> Own(d, n)
      /\ \A d \in Callers : Own(d, last)' <=> d = c
  BY <1>1 DEF Own
<1>4. \A n \in 1..Len(queue') : queue'[n].try <= tries'[queue'[n].by]
  <2>1. tries[c] <= tries[c]
    BY DEF TypeOK
  <2>. QED  BY <1>1, <1>2, <2>1 DEF OneTask
<1>5. \A d \in Callers, m, n \in 1..Len(queue') : Own(d, m)' /\ Own(d, n)' => m = n
  BY <1>2, <1>3 DEF OneTask
<1>6. \A d \in Callers, n \in 1..Len(queue') : Own(d, n)' => Awaited(d, n)'
  BY <1>2, <1>3 DEF OneTask
<1>. QED  BY <1>4, <1>5, <1>6 DEF OneTask

\* The tasks behind the first one move up.
LEMMA DequeueOneTask ==
  ASSUME TypeOK, OneTask, queue # <<>>, queue' = Tail(queue), tries' = tries,
         \A c \in Callers, n \in 1..Len(queue') :
           Own(c, n + 1) /\ Awaited(c, n + 1) => Awaited(c, n)'
  PROVE  OneTask'
<1>1. /\ Len(queue') = Len(queue) - 1
      /\ \A n \in 1..Len(queue') : n + 1 \in 1..Len(queue) /\ queue'[n] = queue[n + 1]
  BY DequeuedFirst
<1>2. \A c \in Callers, n \in 1..Len(queue') : Own(c, n)' <=> Own(c, n + 1)
  BY <1>1 DEF Own
<1>3. \A n \in 1..Len(queue') : queue'[n].try <= tries'[queue'[n].by]
  BY <1>1 DEF OneTask
<1>4. \A c \in Callers, m, n \in 1..Len(queue') : Own(c, m)' /\ Own(c, n)' => m = n
  BY <1>1, <1>2 DEF OneTask
<1>5. \A c \in Callers, n \in 1..Len(queue') : Own(c, n)' => Awaited(c, n)'
  BY <1>1, <1>2 DEF OneTask
<1>. QED  BY <1>3, <1>4, <1>5 DEF OneTask

-----------------------------------------------------------------------------
(* The invariant. *)

\* Nothing is there, nothing is done.
LEMMA InitIInv == Init => IInv
<1>. SUFFICES ASSUME Init PROVE IInv
  OBVIOUS
<1>1. TypeOK
  BY TriesAssumption DEF Init, TypeOK
<1>2. IndexFollows
  BY DEF Init, IndexFollows, MappingNeverGuessed
<1>3. AdapterFollows /\ CallerFollows
  BY DEF Init, AdapterFollows, CallerFollows
<1>4. OneTask /\ PutsFollow
  BY DEF Init, OneTask, PutsFollow
<1>. QED  BY <1>1, <1>2, <1>3, <1>4 DEF IInv

\* EnsureIndex finds the index.
LEMMA IndexExistsIInv ==
  ASSUME IInv, NEW c \in Callers, IndexExists(c)
  PROVE  IInv'
<1>. USE AtIndex, QueuedTask DEF IInv, TypeOK, Own, Searchable, Waiting, At, serverVars
<1>1. TypeOK'
  BY DEF IndexExists, Goto, TypeOK, CallerFollows, AdapterFollows,
         IndexFollows
<1>2. IndexFollows'
  BY DEF IndexExists, Goto, IndexFollows, MappingNeverGuessed, CallerFollows,
         AdapterFollows
<1>3. AdapterFollows'
  BY DEF IndexExists, Goto, AdapterFollows, CallerFollows, IndexFollows
<1>4. CallerFollows'
  BY DEF IndexExists, Goto, CallerFollows, AdapterFollows, IndexFollows
<1>5. OneTask'
  BY DEF IndexExists, Goto, OneTask, Awaited, CallerFollows, AdapterFollows,
         IndexFollows
<1>6. PutsFollow'
  BY DEF IndexExists, Goto, PutsFollow, CallerFollows, AdapterFollows,
         IndexFollows
<1>. QED  BY <1>1, <1>2, <1>3, <1>4, <1>5, <1>6

\* EnsureIndex does not find it.
LEMMA IndexMissingIInv ==
  ASSUME IInv, NEW c \in Callers, IndexMissing(c)
  PROVE  IInv'
<1>. USE AtIndex, QueuedTask DEF IInv, TypeOK, Own, Searchable, Waiting, At, serverVars
<1>1. TypeOK'
  BY DEF IndexMissing, Goto, TypeOK, CallerFollows, AdapterFollows,
         IndexFollows
<1>2. IndexFollows'
  BY DEF IndexMissing, Goto, IndexFollows, MappingNeverGuessed, CallerFollows,
         AdapterFollows
<1>3. AdapterFollows'
  BY DEF IndexMissing, Goto, AdapterFollows, CallerFollows, IndexFollows
<1>4. CallerFollows'
  BY DEF IndexMissing, Goto, CallerFollows, AdapterFollows, IndexFollows
<1>5. OneTask'
  BY DEF IndexMissing, Goto, OneTask, Awaited, CallerFollows, AdapterFollows,
         IndexFollows
<1>6. PutsFollow'
  BY DEF IndexMissing, Goto, PutsFollow, CallerFollows, AdapterFollows,
         IndexFollows
<1>. QED  BY <1>1, <1>2, <1>3, <1>4, <1>5, <1>6

\* Elasticsearch creates it at once.
LEMMA CreateIInv ==
  ASSUME IInv, NEW c \in Callers, Create(c)
  PROVE  IInv'
<1>. USE AtIndex, QueuedTask DEF IInv, TypeOK, Own, Searchable, Waiting, At, serverVars
<1>1. TypeOK'
  BY DEF Create, Goto, TypeOK, CallerFollows, AdapterFollows, IndexFollows
<1>2. IndexFollows'
  BY DEF Create, Goto, IndexFollows, MappingNeverGuessed, CallerFollows,
         AdapterFollows
<1>3. AdapterFollows'
  BY DEF Create, Goto, AdapterFollows, CallerFollows, IndexFollows
<1>4. CallerFollows'
  BY DEF Create, Goto, CallerFollows, AdapterFollows, IndexFollows
<1>5. OneTask'
  BY DEF Create, Goto, OneTask, Awaited, CallerFollows, AdapterFollows,
         IndexFollows
<1>6. PutsFollow'
  BY DEF Create, Goto, PutsFollow, CallerFollows, AdapterFollows, IndexFollows
<1>. QED  BY <1>1, <1>2, <1>3, <1>4, <1>5, <1>6

\* Elasticsearch refuses to create it again.
LEMMA CreateRefusedIInv ==
  ASSUME IInv, NEW c \in Callers, CreateRefused(c)
  PROVE  IInv'
<1>. USE AtIndex, QueuedTask DEF IInv, TypeOK, Own, Searchable, Waiting, At, serverVars
<1>1. TypeOK'
  BY DEF CreateRefused, Goto, TypeOK, CallerFollows, AdapterFollows,
         IndexFollows
<1>2. IndexFollows'
  BY DEF CreateRefused, Goto, IndexFollows, MappingNeverGuessed, CallerFollows,
         AdapterFollows
<1>3. AdapterFollows'
  BY DEF CreateRefused, Goto, AdapterFollows, CallerFollows, IndexFollows
<1>4. CallerFollows'
  BY DEF CreateRefused, Goto, CallerFollows, AdapterFollows, IndexFollows
<1>5. OneTask'
  BY DEF CreateRefused, Goto, OneTask, Awaited, CallerFollows, AdapterFollows,
         IndexFollows
<1>6. PutsFollow'
  BY DEF CreateRefused, Goto, PutsFollow, CallerFollows, AdapterFollows,
         IndexFollows
<1>. QED  BY <1>1, <1>2, <1>3, <1>4, <1>5, <1>6

\* Meilisearch queues the creation; no task of this attempt is under way.
LEMMA EnqueueCreateIInv ==
  ASSUME IInv, NEW c \in Callers, EnqueueCreate(c)
  PROVE  IInv'
<1>. USE AtIndex, QueuedTask DEF IInv, TypeOK, Searchable, Waiting, serverVars
<1>1. Enqueue(c, NoProduct) /\ NoProduct \in Products \cup {NoProduct}
  BY DEF EnqueueCreate
<1>2. PICK last \in Nat : last = Len(queue) + 1
  OBVIOUS
<1>3. /\ queue' \in Seq(Tasks)
      /\ Len(queue') = last
      /\ \A n \in 1..Len(queue) : queue'[n] = queue[n]
      /\ queue'[last].by = c /\ queue'[last].try = tries[c]
      /\ queue'[last].product = NoProduct
  BY <1>1, <1>2, EnqueuedLast
<1>4. \A n \in 1..Len(queue) : ~Own(c, n)
  BY DEF EnqueueCreate, OneTask, Awaited
<1>5. TypeOK'
  BY <1>3 DEF EnqueueCreate, Goto
<1>6. IndexFollows'
  <2>1. \A n \in 1..Len(queue') : n \in 1..Len(queue) \/ n = last
    BY <1>2, <1>3
  <2>2. index' = index /\ \A d \in Callers : At(d)' = At(d)
    BY DEF EnqueueCreate, At
  <2>3. \A n \in 1..Len(queue') : /\ queue'[n].by \in Callers
                                  /\ queue'[n].product # NoProduct =>
                                       index[At(queue'[n].by)] # "missing"
    BY <1>3, <2>1 DEF EnqueueCreate, IndexFollows
  <2>4. \A d \in Callers : pc'[d] \in {"put", "putting", "done"} => index[At(d)] # "missing"
    BY DEF EnqueueCreate, Goto, IndexFollows
  <2>5. answer' = answer
    BY DEF EnqueueCreate
  <2>. QED
    BY <2>2, <2>3, <2>4, <2>5 DEF IndexFollows, MappingNeverGuessed
<1>7. AdapterFollows'
  BY DEF EnqueueCreate, Goto, AdapterFollows, CallerFollows, IndexFollows, At
<1>8. CallerFollows'
  BY DEF EnqueueCreate, Goto, CallerFollows, AdapterFollows, IndexFollows, At
<1>9. OneTask'
  <2>1. \A d \in Callers \ {c}, n \in 1..Len(queue) : Awaited(d, n) => Awaited(d, n)'
    BY <1>3 DEF EnqueueCreate, Goto, Awaited, At
  <2>2. Awaited(c, last)'
    BY <1>3, NamesAssumption DEF EnqueueCreate, Goto, Awaited, CallerFollows, PutsFollow, At
  <2>3. tries' = tries
    BY DEF EnqueueCreate
  <2>. QED  BY <1>1, <1>2, <1>4, <2>1, <2>2, <2>3, EnqueueOneTask
<1>10. PutsFollow'
  BY DEF EnqueueCreate, Goto, PutsFollow, CallerFollows, AdapterFollows,
         IndexFollows, At
<1>. QED  BY <1>5, <1>6, <1>7, <1>8, <1>9, <1>10

\* Elasticsearch stores a document.
LEMMA PutIInv ==
  ASSUME IInv, NEW c \in Callers, NEW p \in Products, Put(c, p)
  PROVE  IInv'
<1>. USE AtIndex, QueuedTask DEF IInv, TypeOK, Own, Searchable, Waiting, At, serverVars
<1>1. TypeOK'
  BY DEF Put, Write, Goto, TypeOK, CallerFollows, AdapterFollows, IndexFollows
<1>2. IndexFollows'
  BY DEF Put, Write, Goto, IndexFollows, MappingNeverGuessed, CallerFollows,
         AdapterFollows
<1>3. AdapterFollows'
  BY DEF Put, Write, Goto, AdapterFollows, CallerFollows, IndexFollows
<1>4. CallerFollows'
  BY DEF Put, Write, Goto, CallerFollows, AdapterFollows, IndexFollows
<1>5. OneTask'
  BY DEF Put, Write, Goto, OneTask, Awaited, CallerFollows, AdapterFollows,
         IndexFollows
<1>6. PutsFollow'
  BY DEF Put, Write, Goto, PutsFollow, CallerFollows, AdapterFollows,
         IndexFollows
<1>. QED  BY <1>1, <1>2, <1>3, <1>4, <1>5, <1>6

\* Meilisearch queues a document; no task of this attempt is under way.
LEMMA EnqueuePutIInv ==
  ASSUME IInv, NEW c \in Callers, NEW p \in Products, EnqueuePut(c, p)
  PROVE  IInv'
<1>. USE AtIndex, QueuedTask DEF IInv, TypeOK, Searchable, Waiting, serverVars
<1>1. Enqueue(c, p) /\ p \in Products \cup {NoProduct}
  BY DEF EnqueuePut
<1>2. PICK last \in Nat : last = Len(queue) + 1
  OBVIOUS
<1>3. /\ queue' \in Seq(Tasks)
      /\ Len(queue') = last
      /\ \A n \in 1..Len(queue) : queue'[n] = queue[n]
      /\ queue'[last].by = c /\ queue'[last].try = tries[c]
      /\ queue'[last].product = p
  BY <1>1, <1>2, EnqueuedLast
<1>4. \A n \in 1..Len(queue) : ~Own(c, n)
  BY DEF EnqueuePut, OneTask, Awaited
<1>5. TypeOK'
  BY <1>3 DEF EnqueuePut, Goto
<1>6. IndexFollows'
  <2>1. \A n \in 1..Len(queue') : n \in 1..Len(queue) \/ n = last
    BY <1>2, <1>3
  <2>2. index' = index /\ \A d \in Callers : At(d)' = At(d)
    BY DEF EnqueuePut, At
  <2>3. \A n \in 1..Len(queue') : /\ queue'[n].by \in Callers
                                  /\ queue'[n].product # NoProduct =>
                                       index[At(queue'[n].by)] # "missing"
    BY <1>3, <2>1 DEF EnqueuePut, IndexFollows
  <2>4. \A d \in Callers : pc'[d] \in {"put", "putting", "done"} => index[At(d)] # "missing"
    BY DEF EnqueuePut, Goto, IndexFollows
  <2>5. answer' = answer
    BY DEF EnqueuePut
  <2>. QED
    BY <2>2, <2>3, <2>4, <2>5 DEF IndexFollows, MappingNeverGuessed
<1>7. AdapterFollows'
  BY DEF EnqueuePut, Goto, AdapterFollows, CallerFollows, IndexFollows, At
<1>8. CallerFollows'
  BY DEF EnqueuePut, Goto, CallerFollows, AdapterFollows, IndexFollows, At
<1>9. OneTask'
  <2>1. \A d \in Callers \ {c}, n \in 1..Len(queue) : Awaited(d, n) => Awaited(d, n)'
    BY <1>3 DEF EnqueuePut, Goto, Awaited, At
  <2>2. Awaited(c, last)'
    BY <1>3, NamesAssumption DEF EnqueuePut, Goto, Awaited, CallerFollows, PutsFollow, At
  <2>3. tries' = tries
    BY DEF EnqueuePut
  <2>. QED  BY <1>1, <1>2, <1>4, <2>1, <2>2, <2>3, EnqueueOneTask
<1>10. PutsFollow'
  BY DEF EnqueuePut, Goto, PutsFollow, CallerFollows, AdapterFollows,
         IndexFollows, At
<1>. QED  BY <1>5, <1>6, <1>7, <1>8, <1>9, <1>10

\* The caller goes on after a good answer.
LEMMA ProceedIInv ==
  ASSUME IInv, NEW c \in Callers, Proceed(c)
  PROVE  IInv'
<1>. USE AtIndex, QueuedTask DEF IInv, TypeOK, Own, Searchable, Waiting, At, serverVars
<1>1. TypeOK'
  BY DEF Proceed, Settled, Goto, TypeOK, CallerFollows, AdapterFollows,
         IndexFollows
<1>2. IndexFollows'
  BY DEF Proceed, Settled, Goto, IndexFollows, MappingNeverGuessed,
         CallerFollows, AdapterFollows
<1>3. AdapterFollows'
  BY DEF Proceed, Settled, Goto, AdapterFollows, CallerFollows, IndexFollows
<1>4. CallerFollows'
  BY DEF Proceed, Settled, Goto, CallerFollows, AdapterFollows, IndexFollows
<1>5. OneTask'
  BY DEF Proceed, Settled, Goto, OneTask, Awaited, CallerFollows,
         AdapterFollows, IndexFollows
<1>6. PutsFollow'
  BY DEF Proceed, Settled, Goto, PutsFollow, CallerFollows, AdapterFollows,
         IndexFollows
<1>. QED  BY <1>1, <1>2, <1>3, <1>4, <1>5, <1>6

\* The caller goes no further after a bad one.
LEMMA TaskRefusedIInv ==
  ASSUME IInv, NEW c \in Callers, TaskRefused(c)
  PROVE  IInv'
<1>. USE AtIndex, QueuedTask DEF IInv, TypeOK, Own, Searchable, Waiting, At, serverVars
<1>1. TypeOK'
  BY DEF TaskRefused, Settled, Goto, TypeOK, CallerFollows, AdapterFollows,
         IndexFollows
<1>2. IndexFollows'
  BY DEF TaskRefused, Settled, Goto, IndexFollows, MappingNeverGuessed,
         CallerFollows, AdapterFollows
<1>3. AdapterFollows'
  BY DEF TaskRefused, Settled, Goto, AdapterFollows, CallerFollows,
         IndexFollows
<1>4. CallerFollows'
  BY DEF TaskRefused, Settled, Goto, CallerFollows, AdapterFollows,
         IndexFollows
<1>5. OneTask'
  BY DEF TaskRefused, Settled, Goto, OneTask, Awaited, CallerFollows,
         AdapterFollows, IndexFollows
<1>6. PutsFollow'
  BY DEF TaskRefused, Settled, Goto, PutsFollow, CallerFollows, AdapterFollows,
         IndexFollows
<1>. QED  BY <1>1, <1>2, <1>3, <1>4, <1>5, <1>6

\* Nothing is left to put.
LEMMA DoneIInv ==
  ASSUME IInv, NEW c \in Callers, Done(c)
  PROVE  IInv'
<1>. USE AtIndex, QueuedTask DEF IInv, TypeOK, Own, Searchable, Waiting, At, serverVars
<1>1. TypeOK'
  BY DEF Done, Goto, TypeOK, CallerFollows, AdapterFollows, IndexFollows
<1>2. IndexFollows'
  BY DEF Done, Goto, IndexFollows, MappingNeverGuessed, CallerFollows,
         AdapterFollows
<1>3. AdapterFollows'
  BY DEF Done, Goto, AdapterFollows, CallerFollows, IndexFollows
<1>4. CallerFollows'
  BY DEF Done, Goto, CallerFollows, AdapterFollows, IndexFollows
<1>5. OneTask'
  BY DEF Done, Goto, OneTask, Awaited, CallerFollows, AdapterFollows,
         IndexFollows
<1>6. PutsFollow'
  BY DEF Done, Goto, PutsFollow, CallerFollows, AdapterFollows, IndexFollows
<1>. QED  BY <1>1, <1>2, <1>3, <1>4, <1>5, <1>6

\* The caller no longer waits for its task.
LEMMA FailsIInv ==
  ASSUME IInv, NEW c \in Callers, Fails(c)
  PROVE  IInv'
<1>. USE AtIndex, QueuedTask DEF IInv, TypeOK, Own, Searchable, Waiting, At, serverVars
<1>1. TypeOK'
  BY DEF Fails, Goto, TypeOK, CallerFollows, AdapterFollows, IndexFollows
<1>2. IndexFollows'
  BY DEF Fails, Goto, IndexFollows, MappingNeverGuessed, CallerFollows,
         AdapterFollows
<1>3. AdapterFollows'
  BY DEF Fails, Goto, AdapterFollows, CallerFollows, IndexFollows
<1>4. CallerFollows'
  BY DEF Fails, Goto, CallerFollows, AdapterFollows, IndexFollows
<1>5. OneTask'
  BY DEF Fails, Goto, OneTask, Awaited, CallerFollows, AdapterFollows,
         IndexFollows
<1>6. PutsFollow'
  BY DEF Fails, Goto, PutsFollow, CallerFollows, AdapterFollows, IndexFollows
<1>. QED  BY <1>1, <1>2, <1>3, <1>4, <1>5, <1>6

\* Tasks left behind are not of the new attempt.
LEMMA AgainIInv ==
  ASSUME IInv, NEW c \in Callers, Again(c)
  PROVE  IInv'
<1>. USE AtIndex, QueuedTask DEF IInv, TypeOK, Own, Searchable, Waiting, At, serverVars
<1>1. TypeOK'
  <2>1. tries[c] + 1 \in 1..MaxTries
    BY TriesAssumption DEF Again
  <2>. QED  BY <2>1 DEF Again, Goto
<1>2. IndexFollows'
  BY DEF Again, Goto, IndexFollows, MappingNeverGuessed, CallerFollows,
         AdapterFollows
<1>3. AdapterFollows'
  BY DEF Again, Goto, AdapterFollows, CallerFollows, IndexFollows
<1>4. CallerFollows'
  BY DEF Again, Goto, CallerFollows, AdapterFollows, IndexFollows
<1>5. OneTask'
  BY DEF Again, Goto, OneTask, Awaited, CallerFollows, AdapterFollows,
         IndexFollows
<1>6. PutsFollow'
  BY DEF Again, Goto, PutsFollow, CallerFollows, AdapterFollows, IndexFollows
<1>. QED  BY <1>1, <1>2, <1>3, <1>4, <1>5, <1>6

\* What is searchable stays so.
LEMMA RefreshIInv ==
  ASSUME IInv, Refresh
  PROVE  IInv'
<1>. USE AtIndex, QueuedTask DEF IInv, TypeOK, Searchable, Waiting, serverVars
<1>1. \A c \in Callers, p \in Products : Searchable(c, p) => Searchable(c, p)'
  <2>1. \A c \in Callers, p \in Products :
          /\ shown[At(c)][p] <= written[At(c)][p]
          /\ shown[At(c)][p] \in Nat /\ written[At(c)][p] \in Nat
    BY DEF AdapterFollows
  <2>2. \A c \in Callers : At(c)' = At(c)
    BY DEF Refresh, At
  <2>3. shown' = written /\ place' = place
    BY DEF Refresh
  <2>. QED  BY <2>1, <2>2, <2>3 DEF Searchable
<1>2. TypeOK'
  BY DEF Refresh, TypeOK, CallerFollows, AdapterFollows, IndexFollows, At
<1>3. IndexFollows'
  BY DEF Refresh, IndexFollows, MappingNeverGuessed, CallerFollows,
         AdapterFollows, At
<1>4. AdapterFollows'
  BY DEF Refresh, AdapterFollows, CallerFollows, IndexFollows, At
<1>5. CallerFollows'
  BY DEF Refresh, CallerFollows, AdapterFollows, IndexFollows, At
<1>6. OneTask'
  BY DEF Refresh, OneTask, AdapterFollows
<1>7. PutsFollow'
  <2>1. \A c \in Callers : At(c)' = At(c)
    BY DEF Refresh, At
  <2>2. /\ shown' = written /\ written' = written /\ place' = place
        /\ pc' = pc /\ todo' = todo /\ adapter = "elasticsearch" /\ adapter' = adapter
        /\ \A c \in Callers : pc[c] # "putting" => answer'[c] = answer[c]
    BY DEF Refresh
  <2>. QED
    BY <1>1, <2>1, <2>2 DEF PutsFollow, Searchable
<1>. QED  BY <1>2, <1>3, <1>4, <1>5, <1>6, <1>7

\* The index is there, or the caller is told that it was there before.
LEMMA RunCreateIInv ==
  ASSUME IInv, RunCreate
  PROVE  IInv'
<1>. USE AtIndex, QueuedTask DEF IInv, TypeOK, Own, Searchable, Waiting, At, serverVars
<1>1. TypeOK'
  BY DEF RunCreate, Settle, Current, TypeOK, CallerFollows, AdapterFollows,
         IndexFollows
<1>2. IndexFollows'
  BY DEF RunCreate, Settle, Current, IndexFollows, MappingNeverGuessed,
         CallerFollows, AdapterFollows
<1>3. AdapterFollows'
  BY DEF RunCreate, Settle, Current, AdapterFollows, CallerFollows,
         IndexFollows
<1>4. CallerFollows'
  BY DEF RunCreate, Settle, Current, CallerFollows, AdapterFollows,
         IndexFollows
<1>5. OneTask'
  BY DEF RunCreate, Settle, Current, OneTask, Awaited, CallerFollows,
         AdapterFollows, IndexFollows
<1>6. PutsFollow'
  BY DEF RunCreate, Settle, Current, PutsFollow, CallerFollows, AdapterFollows,
         IndexFollows
<1>. QED  BY <1>1, <1>2, <1>3, <1>4, <1>5, <1>6

\* A document becomes searchable, and its caller is told if it still waits.
LEMMA RunPutIInv ==
  ASSUME IInv, RunPut
  PROVE  IInv'
<1>. DEFINE current == Current(Head(queue))
<1>1. /\ queue # <<>> /\ queue' = Tail(queue) /\ Head(queue).product # NoProduct
      /\ queue' \in Seq(Tasks)
      /\ 1 \in 1..Len(queue) /\ Head(queue) = queue[1]
      /\ Len(queue') = Len(queue) - 1
      /\ \A n \in 1..Len(queue') : n + 1 \in 1..Len(queue) /\ queue'[n] = queue[n + 1]
  BY DequeuedFirst DEF RunPut, IInv
<1>2. PICK b \in Callers, x \in Products : Head(queue).by = b /\ Head(queue).product = x
  BY <1>1, QueuedTask DEF IInv
<1>3. PICK i \in Indexes : i = At(b)
  BY AtIndex DEF IInv
<1>4. index[i] # "missing" /\ adapter = "meilisearch" /\ shown = written
  BY <1>1, <1>2, <1>3 DEF IInv, IndexFollows, AdapterFollows, TypeOK
<1>5. /\ index' = index
      /\ UNCHANGED <<adapter, asked, pc, tries, todo>>
      /\ written' = [written EXCEPT ![i][x] = @ + 1]
      /\ shown' = [shown EXCEPT ![i][x] = written[i][x] + 1]
      /\ place' = IF current THEN [place EXCEPT ![b][x] = written[i][x] + 1] ELSE place
      /\ answer' = IF current THEN [answer EXCEPT ![b] = "succeeded"] ELSE answer
  <2>1. index' = [index EXCEPT ![i] = IF @ = "missing" THEN "guessed" ELSE @]
    BY <1>2, <1>3 DEF RunPut, Write
  <2>2. index' = index
    BY <1>4, <2>1 DEF IInv, TypeOK
  <2>. QED  BY <1>2, <1>3, <2>2 DEF RunPut, Write, Settle
<1>6. \A c \in Callers : At(c)' = At(c)
  BY <1>5 DEF At, IndexName
<1>7. current => /\ pc[b] = "putting" /\ answer[b] = "none"
                 /\ \A n \in 1..Len(queue) : Own(b, n) => n = 1
                 /\ \A p \in Products \ todo[b] : p # x => Searchable(b, p)
  <2>1. SUFFICES ASSUME current PROVE Own(b, 1) /\ pc[b] \in Waiting
    BY <1>1, <1>2 DEF IInv, OneTask, Awaited, Waiting
  <2>. QED  BY <1>1, <1>2, <2>1 DEF Current, Own
<1>. HIDE DEF current
<1>8. TypeOK'
  <2>1. /\ written' \in [Indexes -> [Products -> Nat]]
        /\ shown' \in [Indexes -> [Products -> Nat]]
    BY <1>5 DEF IInv, TypeOK
  <2>2. place' \in [Callers -> [Products -> Nat]]
    BY <1>5 DEF IInv, TypeOK
  <2>3. answer' \in [Callers -> {"none", "succeeded", "failed"}]
    BY <1>5 DEF IInv, TypeOK
  <2>. QED  BY <1>1, <1>5, <2>1, <2>2, <2>3 DEF IInv, TypeOK
<1>9. IndexFollows'
  <2>1. \A c \in Callers : answer'[c] = "succeeded" => index[At(c)] # "missing"
    BY <1>3, <1>4, <1>5 DEF IInv, IndexFollows, TypeOK
  <2>2. \A n \in 1..Len(queue') : /\ queue'[n].by \in Callers
                                  /\ queue'[n].product # NoProduct =>
                                       index[At(queue'[n].by)] # "missing"
    BY <1>1, QueuedTask DEF IInv, IndexFollows
  <2>. QED
    BY <1>5, <1>6, <2>1, <2>2 DEF IInv, IndexFollows, MappingNeverGuessed
<1>10. shown' = written'
  BY <1>4, <1>5
<1>11. AdapterFollows'
  BY <1>4, <1>5, <1>8, <1>10 DEF AdapterFollows, TypeOK
<1>12. CallerFollows'
  BY <1>5, <1>7 DEF IInv, CallerFollows, TypeOK, Waiting
<1>13. \A c \in Callers, p \in Products :
         /\ shown[At(c)][p] <= shown'[At(c)][p]
         /\ shown[At(c)][p] \in Nat /\ shown'[At(c)][p] \in Nat
  BY <1>4, <1>5, <1>8, AtIndex DEF IInv, TypeOK
<1>14. current => Searchable(b, x)'
  <2>1. SUFFICES ASSUME current PROVE place'[b][x] \in 1..shown'[i][x]
    BY <1>3, <1>6 DEF Searchable
  <2>. QED  BY <1>5, <2>1 DEF IInv, TypeOK
<1>15. \A c \in Callers, p \in Products : Searchable(c, p) => Searchable(c, p)'
  <2>1. ASSUME NEW c \in Callers, NEW p \in Products, Searchable(c, p)
        PROVE  Searchable(c, p)'
    <3>1. CASE current /\ c = b /\ p = x
      BY <1>14, <3>1
    <3>2. CASE ~(current /\ c = b /\ p = x)
      <4>1. place'[c][p] = place[c][p]
        BY <1>5, <3>2 DEF IInv, TypeOK
      <4>. QED  BY <1>6, <1>13, <2>1, <4>1 DEF Searchable
    <3>. QED  BY <3>1, <3>2
  <2>. QED  BY <2>1
<1>16. \A c \in Callers : ~(current /\ c = b) => answer'[c] = answer[c]
  BY <1>5 DEF IInv, TypeOK
<1>17. OneTask'
  <2>1. ASSUME NEW c \in Callers, NEW n \in 1..Len(queue'),
               Own(c, n + 1), Awaited(c, n + 1)
        PROVE  Awaited(c, n)'
    <3>1. ~(current /\ c = b)
      <4>1. n + 1 # 1 /\ n + 1 \in 1..Len(queue)
        BY <1>1
      <4>. QED  BY <1>7, <2>1, <4>1
    <3>2. answer'[c] = answer[c]
      BY <1>16, <3>1
    <3>. QED  BY <1>1, <1>5, <1>15, <2>1, <3>2 DEF Awaited
  <2>. QED  BY <1>1, <1>5, <2>1, DequeueOneTask DEF IInv
<1>18. PutsFollow'
  <2>1. current => \A p \in Products \ todo[b] : Searchable(b, p)'
    BY <1>7, <1>14, <1>15
  <2>2. ASSUME NEW c \in Callers, NEW p \in Products, p \notin todo'[c]
        PROVE  /\ pc'[c] \in {"put", "done"} => Searchable(c, p)'
               /\ pc'[c] = "putting" /\ answer'[c] = "succeeded" => Searchable(c, p)'
    <3>1. CASE current /\ c = b
      BY <1>5, <2>1, <2>2, <3>1
    <3>2. CASE ~(current /\ c = b)
      BY <1>5, <1>15, <1>16, <2>2, <3>2 DEF IInv, PutsFollow
    <3>. QED  BY <3>1, <3>2
  <2>. QED  BY <1>4, <1>5, <2>2 DEF PutsFollow
<1>. QED  BY <1>8, <1>9, <1>11, <1>12, <1>17, <1>18 DEF IInv

\* Every step keeps the invariant.
LEMMA NextIInv == IInv /\ [Next]_vars => IInv'
<1>. SUFFICES ASSUME IInv, [Next]_vars PROVE IInv'
  OBVIOUS
<1>1. CASE Server
  BY <1>1, RefreshIInv, RunCreateIInv, RunPutIInv DEF Server
<1>2. CASE \E c \in Callers : Call(c) \/ Fails(c) \/ Again(c)
  BY <1>2, IndexExistsIInv, IndexMissingIInv, CreateIInv, CreateRefusedIInv,
     EnqueueCreateIInv, PutIInv, EnqueuePutIInv, ProceedIInv, TaskRefusedIInv,
     DoneIInv, FailsIInv, AgainIInv
     DEF Call
<1>3. CASE UNCHANGED vars
  BY <1>3 DEF vars, serverVars, IInv, TypeOK, IndexFollows, AdapterFollows,
              CallerFollows, OneTask, Awaited, PutsFollow, MappingNeverGuessed, Own,
              Searchable, At, IndexName
<1>. QED  BY <1>1, <1>2, <1>3 DEF Next

\* The invariant holds in every state.
LEMMA Invariant == Spec => []IInv
BY InitIInv, NextIInv, PTL DEF Spec

-----------------------------------------------------------------------------
(* The Search RPC. *)

\* No field is lost or swapped on the way from the use case into the catalog
\* and back to the response, whichever adapter it takes.
LEMMA FieldsArrive ==
  ASSUME NEW p, NEW n
  PROVE  ToV1(ToBiz(Decoded(Document(BizProduct(p, n))))) = ToV1(BizProduct(p, n))
<1>. DEFINE b == BizProduct(p, n)
            d == Decoded(Document(b))
<1>1. /\ d.id = b.ID /\ d.name = b.Name /\ d.spu_code = b.SpuCode
      /\ d.price = b.Price /\ d.status = b.Status
      /\ d.main_media_url = b.MainMediaUrl /\ d.quantity = b.Quantity
  BY DEF Decoded, CatalogFields, Retrieved, Document
<1>. HIDE DEF b, d
<1>2. ToBiz(d).ID = b.ID /\ ToBiz(d).Name = b.Name /\ ToBiz(d).SpuCode = b.SpuCode
      /\ ToBiz(d).Price = b.Price /\ ToBiz(d).Status = b.Status
      /\ ToBiz(d).MainMediaUrl = b.MainMediaUrl /\ ToBiz(d).Quantity = b.Quantity
  BY <1>1 DEF ToBiz
<1>3. ToV1(ToBiz(d)) = ToV1(b)
  BY <1>2 DEF ToV1
<1>. QED  BY <1>3 DEF b, d

\* A search finds a document that was shown.
LEMMA SearchFinds ==
  ASSUME NEW name, NEW p \in Products, index[IndexName(name)] # "missing",
         shown[IndexName(name)][p] > 0
  PROVE  ToV1(BizProduct(p, shown[IndexName(name)][p])) \in Search(name)
<1>. DEFINE n == shown[IndexName(name)][p]
            d == Decoded(Document(BizProduct(p, n)))
<1>1. d \in SearchProducts(name).hits /\ SearchProducts(name).found
  BY DEF SearchProducts
<1>2. ToV1(ToBiz(d)) \in Search(name)
  BY <1>1 DEF Search
<1>. QED  BY <1>2, FieldsArrive

-----------------------------------------------------------------------------
(* The theorems. *)

\* The variables have their types.
THEOREM TypeCorrect == Spec => []TypeOK
<1>1. IInv => TypeOK
  BY DEF IInv
<1>. QED  BY <1>1, Invariant, PTL

\* No server ever guesses a mapping, however many callers reindex and whatever
\* late tasks of failed calls do (biz/search.go 30).
THEOREM MappingsAreGiven == Spec => []MappingNeverGuessed
<1>1. IInv => MappingNeverGuessed
  BY DEF IInv, IndexFollows
<1>. QED  BY <1>1, Invariant, PTL

\* A Reindex that returned nil has made all its products searchable under each
\* name of its index (biz/search.go 57-67, service/search.go 22-42).
THEOREM ReindexedIsSearchable == Spec => []DoneIsSearchable
<1>1. IInv => DoneIsSearchable
  <2>. SUFFICES ASSUME IInv, NEW c \in Callers, pc[c] = "done",
                       NEW name \in {asked[c]} \cup {n \in {Unset, DefaultIndex} :
                                                       asked[c] \in {Unset, DefaultIndex}},
                       NEW p \in Products
                PROVE  \E v \in Search(name) :
                         /\ v.Id = p
                         /\ v.Name[2] >= place[c][p] /\ place[c][p] > 0
                         /\ v = ToV1(BizProduct(p, v.Name[2]))
    BY DEF DoneIsSearchable
  <2>1. IndexName(name) = At(c)
    BY DEF At, IndexName
  <2>2. /\ index[At(c)] # "missing"
        /\ place[c][p] \in 1..shown[At(c)][p]
        /\ shown[At(c)][p] \in Nat /\ place[c][p] \in Nat
    BY AtIndex DEF IInv, IndexFollows, PutsFollow, CallerFollows, Searchable, TypeOK
  <2>. DEFINE n == shown[At(c)][p]
              v == ToV1(BizProduct(p, n))
  <2>3. v \in Search(name)
    BY <2>1, <2>2, SearchFinds
  <2>4. v.Id = p /\ v.Name = <<"name", n>>
    BY DEF ToV1, BizProduct
  <2>5. v.Name[2] = n
    BY <2>4
  <2>6. n >= place[c][p] /\ place[c][p] > 0
    BY <2>2
  <2>. QED  BY <2>3, <2>4, <2>5, <2>6
<1>. QED  BY <1>1, Invariant, PTL

-----------------------------------------------------------------------------
(* When EnsureIndex is idempotent. *)

\* Callers that fill different indexes, and do not try again over a queue that
\* may still hold what they asked for before.
Apart ==
  /\ \A c, d \in Callers : At(c) = At(d) => c = d
  /\ adapter = "elasticsearch" \/ MaxTries = 1

\* Nobody creates the index caller c is about to create.
CreatesAlone(c) ==
  /\ pc[c] = "create" => index[At(c)] = "missing"
  /\ pc[c] = "creating" /\ answer[c] = "none" => index[At(c)] = "missing"
  /\ answer[c] # "failed"
  /\ pc[c] # "refused"

\* The next task is awaited by its caller, or its caller has failed.
LEMMA NextTaskIsOwn ==
  ASSUME IInv, Apart, queue # <<>>
  PROVE  LET t == Head(queue) IN
           /\ t.by \in Callers /\ t.try = tries[t.by]
           /\ pc[t.by] \in Waiting \cup {"failed"}
           /\ pc[t.by] \in Waiting => answer[t.by] = "none"
           /\ pc[t.by] = "creating" => t.product = NoProduct
           /\ pc[t.by] = "putting" => t.product # NoProduct
<1>1. MaxTries = 1
  BY DEF IInv, AdapterFollows, TypeOK, Apart
<1>2. 1 \in 1..Len(queue) /\ Head(queue) = queue[1]
  BY EmptySeq, HeadTailProperties DEF IInv, TypeOK
<1>3. queue[1].by \in Callers /\ queue[1].try = 1 /\ tries[queue[1].by] = 1
  BY <1>1, <1>2, QueuedTask DEF IInv, TypeOK
<1>4. Awaited(queue[1].by, 1)
  BY <1>2, <1>3 DEF IInv, OneTask, Own
<1>. QED  BY <1>2, <1>3, <1>4 DEF Awaited

\* What others do does not reach the index of caller c.
LEMMA OthersStayApart ==
  ASSUME IInv, Apart, NEW c \in Callers, CreatesAlone(c),
         NEW d \in Callers, d # c, Call(d) \/ Fails(d) \/ Again(d)
  PROVE  CreatesAlone(c)'
<1>1. pc'[c] = pc[c] /\ answer'[c] = answer[c] /\ asked' = asked
  BY DEF Call, Fails, Again, IndexExists, IndexMissing, Create, CreateRefused,
         EnqueueCreate, Put, EnqueuePut, Proceed, TaskRefused, Done, Goto, Write, IInv,
         TypeOK
<1>2. index'[At(c)] = index[At(c)]
  <2>1. At(d) # At(c) /\ At(d) \in Indexes /\ At(c) \in Indexes
    BY AtIndex DEF Apart, IInv
  <2>. QED
    BY <2>1 DEF Call, Fails, Again, IndexExists, IndexMissing, Create, CreateRefused,
         EnqueueCreate, Put, EnqueuePut, Proceed, TaskRefused, Done, Write, serverVars,
         IInv, TypeOK
<1>3. At(c)' = At(c)
  BY <1>1 DEF At
<1>. QED  BY <1>1, <1>2, <1>3 DEF CreatesAlone

\* A caller checks, creates and goes on, or fails.
LEMMA OwnStepsStayApart ==
  ASSUME IInv, NEW c \in Callers, CreatesAlone(c),
         Call(c) \/ Fails(c) \/ Again(c)
  PROVE  CreatesAlone(c)'
<1>1. At(c) \in Indexes /\ At(c)' = At(c)
  <2>1. asked' = asked
    BY DEF Call, Fails, Again, IndexExists, IndexMissing, Create, CreateRefused,
         EnqueueCreate, Put, EnqueuePut, Proceed, TaskRefused, Done
  <2>. QED  BY <2>1, AtIndex DEF At, IInv
<1>. USE DEF IInv, TypeOK, CallerFollows, CreatesAlone, Goto, Waiting
<1>2. CASE IndexExists(c) \/ IndexMissing(c)
  BY <1>1, <1>2 DEF IndexExists, IndexMissing, serverVars
<1>3. CASE Create(c) \/ CreateRefused(c) \/ EnqueueCreate(c)
  BY <1>1, <1>3 DEF Create, CreateRefused, EnqueueCreate
<1>4. CASE \E p \in Products : Put(c, p) \/ EnqueuePut(c, p)
  BY <1>1, <1>4 DEF Put, EnqueuePut, Write
<1>5. CASE Proceed(c) \/ TaskRefused(c) \/ Done(c)
  BY <1>1, <1>5 DEF Proceed, TaskRefused, Done, Settled
<1>6. CASE Fails(c) \/ Again(c)
  BY <1>1, <1>6 DEF Fails, Again
<1>. QED  BY <1>2, <1>3, <1>4, <1>5, <1>6 DEF Call

\* The servers run what c has asked for, and other tasks on other indexes.
LEMMA ServersStayApart ==
  ASSUME IInv, Apart, NEW c \in Callers, CreatesAlone(c), Server
  PROVE  CreatesAlone(c)'
<1>1. asked' = asked /\ pc' = pc /\ At(c)' = At(c)
  BY DEF Server, Refresh, RunCreate, RunPut, At
<1>2. CASE Refresh
  BY <1>1, <1>2 DEF Refresh, CreatesAlone, IInv, TypeOK, AdapterFollows
<1>3. CASE RunCreate \/ RunPut
  <2> DEFINE t == Head(queue)
  <2>0. queue # <<>>
    BY <1>3 DEF RunCreate, RunPut
  <2>1. /\ t.by \in Callers /\ t.try = tries[t.by]
        /\ pc[t.by] \in Waiting \cup {"failed"}
        /\ pc[t.by] \in Waiting => answer[t.by] = "none"
        /\ pc[t.by] = "creating" => t.product = NoProduct
        /\ pc[t.by] = "putting" => t.product # NoProduct
    BY <2>0, NextTaskIsOwn
  <2>2. CASE t.by # c
    <3>1. At(t.by) # At(c) /\ At(t.by) \in Indexes /\ At(c) \in Indexes
      BY <2>1, <2>2, AtIndex DEF Apart, IInv
    <3>2. index'[At(c)] = index[At(c)] /\ answer'[c] = answer[c]
      BY <1>3, <2>1, <2>2, <3>1 DEF RunCreate, RunPut, Write, Settle, IInv, TypeOK
    <3>. QED  BY <1>1, <3>2 DEF CreatesAlone
  <2>3. CASE t.by = c
    <3>1. pc[c] # "create" /\ (pc[c] = "creating" => answer'[c] # "none")
      BY <1>3, <2>1, <2>3 DEF RunCreate, RunPut, Settle, Current, Waiting, IInv, TypeOK
    <3>2. answer'[c] # "failed"
      BY <1>3, <2>1, <2>3 DEF RunCreate, RunPut, Settle, Current, Waiting, IInv, TypeOK,
         CreatesAlone
    <3>. QED  BY <1>1, <3>1, <3>2 DEF CreatesAlone
  <2>. QED  BY <2>2, <2>3
<1>. QED  BY <1>2, <1>3 DEF Server

\* No caller whose index is its own is refused.
ApartFollows == Apart => \A c \in Callers : CreatesAlone(c)

\* EnsureIndex is idempotent, as biz/search.go 30 says, for callers that fill
\* different indexes: with Elasticsearch however often they try, with
\* Meilisearch if they do not try again over their own queued task.
THEOREM ApartIsIdempotent == Spec => [](Apart => EnsureIndexIdempotent)
<1>1. Init => ApartFollows
  BY DEF Init, ApartFollows, CreatesAlone
<1>2. IInv /\ ApartFollows /\ [Next]_vars => ApartFollows'
  <2>. SUFFICES ASSUME IInv, ApartFollows, [Next]_vars, Apart', NEW c \in Callers
                PROVE  CreatesAlone(c)'
    BY DEF ApartFollows
  <2>1. asked' = asked /\ adapter' = adapter
    BY DEF Next, Server, Refresh, RunCreate, RunPut, Call, Fails, Again, IndexExists,
           IndexMissing, Create, CreateRefused, EnqueueCreate, Put, EnqueuePut, Proceed,
           TaskRefused, Done, vars
  <2>2. Apart /\ CreatesAlone(c)
    BY <2>1 DEF Apart, At, ApartFollows
  <2>3. CASE UNCHANGED vars
    BY <2>2, <2>3 DEF CreatesAlone, At, vars, serverVars
  <2>4. CASE Server
    BY <2>2, <2>4, ServersStayApart
  <2>5. CASE \E d \in Callers : Call(d) \/ Fails(d) \/ Again(d)
    BY <2>2, <2>5, OthersStayApart, OwnStepsStayApart
  <2>. QED  BY <2>3, <2>4, <2>5 DEF Next
<1>3. ApartFollows => (Apart => EnsureIndexIdempotent)
  BY DEF ApartFollows, CreatesAlone, EnsureIndexIdempotent
<1>. QED  BY <1>1, <1>2, <1>3, Invariant, PTL DEF Spec

-----------------------------------------------------------------------------
(* Why Reindex returns. *)

\* The caller waits for a task of Meilisearch.
Awaits(c) == adapter = "meilisearch" /\ pc[c] \in Waiting /\ answer[c] = "none"

\* What is awaited is in the queue.
AwaitedIsQueued ==
  \A c \in Callers : Awaits(c) => \E n \in 1..Len(queue) : Own(c, n)

\* The task of a call moves up whenever the server has run one, whatever others
\* put behind it, and is answered when it is run.
TasksMoveUp ==
  \A c \in Callers, n \in 1..Len(queue) :
    Own(c, n) =>
      \/ Again(c)
      \/ n \in 1..Len(queue)' /\ Own(c, n)' /\ ~(RunCreate \/ RunPut)
      \/ n > 1 /\ n - 1 \in 1..Len(queue)' /\ Own(c, n - 1)'
      \/ n = 1 /\ ~Awaits(c)'

\* How many steps a call of Reindex has left at most.
StepsLeft(c) ==
  LET open == 2 * Cardinality(todo[c])
  IN  CASE pc[c] = "check" -> open + 4
        [] pc[c] = "create" -> open + 3
        [] pc[c] \in Waiting -> open + 2
        [] pc[c] = "put" -> open + 1
        [] pc[c] \in {"done", "failed", "refused"} -> 0

\* Only a new call takes back what a call has done.
CallAdvances(c) ==
  /\ Again(c) \/ StepsLeft(c)' <= StepsLeft(c)
  /\ Call(c) => StepsLeft(c)' < StepsLeft(c)

\* The steps are a number, and 0 only at the end.
LEMMA StepsAreCounted ==
  ASSUME TypeOK, IsFiniteSet(Products), NEW c \in Callers
  PROVE  /\ IsFiniteSet(todo[c]) /\ Cardinality(todo[c]) \in Nat
         /\ StepsLeft(c) \in Nat
         /\ StepsLeft(c) = 0 <=> pc[c] \in {"done", "failed", "refused"}
<1>1. IsFiniteSet(todo[c]) /\ Cardinality(todo[c]) \in Nat
  BY FS_Subset, FS_CardinalityType DEF TypeOK
<1>2. pc[c] \in {"check", "create", "creating", "putting", "put", "done", "failed",
                 "refused"}
  BY DEF TypeOK, Waiting
<1>. QED  BY <1>1, <1>2 DEF StepsLeft, Waiting

\* The same of the next state.
LEMMA NextStepsAreCounted ==
  ASSUME TypeOK', IsFiniteSet(Products), NEW c \in Callers
  PROVE  StepsLeft(c)' \in Nat
<1>1. Cardinality(todo'[c]) \in Nat
  BY FS_Subset, FS_CardinalityType DEF TypeOK
<1>2. pc'[c] \in {"check", "create", "creating", "putting", "put", "done", "failed",
                  "refused"}
  BY DEF TypeOK, Waiting
<1>. QED  BY <1>1, <1>2 DEF StepsLeft, Waiting

\* A step of another caller or of the server leaves a call where it is.
LEMMA OthersTakeNoSteps ==
  ASSUME TypeOK, NEW c \in Callers, [Next]_vars, ~Call(c), ~Fails(c), ~Again(c)
  PROVE  pc'[c] = pc[c] /\ todo'[c] = todo[c] /\ tries'[c] = tries[c]
<1>1. CASE UNCHANGED vars \/ Server
  BY <1>1 DEF Server, Refresh, RunCreate, RunPut, vars
<1>2. ASSUME NEW d \in Callers, d # c, Call(d) \/ Fails(d) \/ Again(d)
      PROVE  pc'[c] = pc[c] /\ todo'[c] = todo[c] /\ tries'[c] = tries[c]
  BY <1>2 DEF TypeOK, Call, Fails, Again, IndexExists, IndexMissing, Create, CreateRefused,
     EnqueueCreate, Put, EnqueuePut, Proceed, TaskRefused, Done, Goto
<1>. QED  BY <1>1, <1>2 DEF Next

\* A step of a call takes at least one of the steps it has left.
LEMMA CallTakesSteps ==
  ASSUME TypeOK, IsFiniteSet(Products), NEW c \in Callers, Call(c)
  PROVE  StepsLeft(c)' < StepsLeft(c)
<1>1. IsFiniteSet(todo[c]) /\ Cardinality(todo[c]) \in Nat
  BY StepsAreCounted
<1>. USE DEF TypeOK, Goto, StepsLeft, Waiting
<1>2. CASE \E p \in Products : Put(c, p) \/ EnqueuePut(c, p)
  <2>1. PICK p \in Products : Put(c, p) \/ EnqueuePut(c, p)
    BY <1>2
  <2>2. /\ pc[c] = "put" /\ pc'[c] = "putting"
        /\ p \in todo[c] /\ todo'[c] = todo[c] \ {p}
    BY <2>1 DEF Put, EnqueuePut
  <2>3. Cardinality(todo[c] \ {p}) = Cardinality(todo[c]) - 1
    BY <1>1, <2>2, FS_RemoveElement
  <2>. QED  BY <1>1, <2>2, <2>3
<1>3. CASE IndexExists(c) \/ IndexMissing(c)
  BY <1>1, <1>3 DEF IndexExists, IndexMissing
<1>4. CASE Create(c) \/ CreateRefused(c) \/ EnqueueCreate(c)
  BY <1>1, <1>4 DEF Create, CreateRefused, EnqueueCreate
<1>5. CASE Proceed(c) \/ TaskRefused(c) \/ Done(c)
  BY <1>1, <1>5 DEF Proceed, TaskRefused, Done
<1>. QED  BY <1>2, <1>3, <1>4, <1>5 DEF Call

\* The first task is run.
LEMMA RunMovesUp ==
  ASSUME IInv, AwaitedIsQueued, RunCreate \/ RunPut
  PROVE  AwaitedIsQueued' /\ TasksMoveUp
<1>. DEFINE t == Head(queue)
<1>1. /\ queue # <<>> /\ queue' = Tail(queue)
      /\ pc' = pc /\ tries' = tries /\ adapter' = adapter
  BY DEF RunCreate, RunPut
<1>2. /\ 1 \in 1..Len(queue) /\ t = queue[1]
      /\ Len(queue) \in Nat /\ Len(queue') = Len(queue) - 1
      /\ \A n \in 1..Len(queue') : queue'[n] = queue[n + 1]
  BY <1>1, DequeuedFirst DEF IInv, TypeOK
<1>3. t.by \in Callers
  BY <1>2, QueuedTask DEF IInv
<1>4. \A c \in Callers : Own(c, 1) => ~Awaits(c)'
  <2>. SUFFICES ASSUME NEW c \in Callers, Own(c, 1), pc[c] \in Waiting
                PROVE  answer'[c] # "none"
    BY <1>1 DEF Awaits
  <2>1. t.by = c /\ Current(t)
    BY <1>2 DEF Own, Current
  <2>. QED  BY <2>1 DEF RunCreate, RunPut, Settle, IInv, TypeOK
<1>5. \A c \in Callers, n \in 1..Len(queue) :
        n # 1 /\ Own(c, n) => n > 1 /\ n - 1 \in 1..Len(queue') /\ Own(c, n - 1)'
  BY <1>1, <1>2 DEF Own
<1>6. \A c \in Callers : Awaits(c)' => Awaits(c)
  BY <1>1, <1>3 DEF Awaits, RunCreate, RunPut, Settle, IInv, TypeOK
<1>7. TasksMoveUp
  BY <1>4, <1>5 DEF TasksMoveUp
<1>. QED  BY <1>4, <1>5, <1>6, <1>7 DEF AwaitedIsQueued

\* A caller sends its task and waits for it.
LEMMA EnqueueIsQueued ==
  ASSUME IInv, AwaitedIsQueued, NEW d \in Callers,
         EnqueueCreate(d) \/ \E p \in Products : EnqueuePut(d, p)
  PROVE  AwaitedIsQueued' /\ TasksMoveUp
<1>1. PICK p \in Products \cup {NoProduct} : Enqueue(d, p)
  BY DEF EnqueueCreate, EnqueuePut
<1>2. /\ Len(queue) \in Nat /\ Len(queue') = Len(queue) + 1
      /\ \A n \in 1..Len(queue) : queue'[n] = queue[n]
      /\ queue'[Len(queue) + 1].by = d /\ queue'[Len(queue) + 1].try = tries[d]
  BY <1>1, EnqueuedLast DEF IInv, TypeOK
<1>3. /\ tries' = tries /\ adapter' = adapter /\ answer' = answer
      /\ \A c \in Callers \ {d} : pc'[c] = pc[c]
  BY DEF EnqueueCreate, EnqueuePut, Goto, IInv, TypeOK
<1>4. \A c \in Callers, n \in 1..Len(queue) :
        Own(c, n) => n \in 1..Len(queue') /\ Own(c, n)'
  BY <1>2, <1>3 DEF Own
<1>5. \E n \in 1..Len(queue') : Own(d, n)'
  <2>. PICK last \in 1..Len(queue') : last = Len(queue) + 1
    BY <1>2
  <2>1. Own(d, last)'
    BY <1>2, <1>3 DEF Own
  <2>. QED  BY <2>1
<1>6. \A c \in Callers \ {d} : Awaits(c)' => Awaits(c)
  BY <1>3 DEF Awaits
<1>7. ~(RunCreate \/ RunPut)
  BY <1>3, <1>2 DEF RunCreate, RunPut, IInv, TypeOK
<1>8. TasksMoveUp
  BY <1>4, <1>7 DEF TasksMoveUp
<1>. QED  BY <1>4, <1>5, <1>6, <1>8 DEF AwaitedIsQueued

\* Every other step leaves the queue alone.
LEMMA QueueStays ==
  ASSUME IInv, AwaitedIsQueued, [Next]_vars, queue' = queue
  PROVE  AwaitedIsQueued' /\ TasksMoveUp
<1>1. ~(RunCreate \/ RunPut)
  BY DequeuedFirst DEF RunCreate, RunPut, IInv, TypeOK
<1>2. /\ \A c \in Callers : tries'[c] = tries[c] \/ Again(c)
      /\ \A c \in Callers : Awaits(c)' => Awaits(c)
  <2>1. CASE UNCHANGED vars \/ Refresh
    BY <2>1 DEF Refresh, Awaits, vars
  <2>2. ASSUME NEW d \in Callers, Call(d) \/ Fails(d) \/ Again(d)
        PROVE  /\ adapter' = adapter
               /\ \A c \in Callers \ {d} :
                    pc'[c] = pc[c] /\ answer'[c] = answer[c] /\ tries'[c] = tries[c]
               /\ tries'[d] = tries[d] \/ Again(d)
               /\ ~Awaits(d)'
    <3>1. ~EnqueueCreate(d) /\ \A p \in Products : ~EnqueuePut(d, p)
      <4>1. \A p \in Products \cup {NoProduct} : ~Enqueue(d, p)
        BY EnqueuedLast DEF IInv, TypeOK
      <4>. QED  BY <4>1 DEF EnqueueCreate, EnqueuePut
    <3>2. CASE IndexExists(d) \/ IndexMissing(d) \/ Create(d) \/ CreateRefused(d)
               \/ Proceed(d) \/ TaskRefused(d) \/ Done(d) \/ Fails(d) \/ Again(d)
      BY <3>2 DEF IndexExists, IndexMissing, Create, CreateRefused, Proceed, TaskRefused,
         Done, Fails, Again, Goto, Awaits, Waiting, IInv, TypeOK
    <3>3. CASE \E p \in Products : Put(d, p)
      BY <3>3 DEF Put, Goto, Awaits, IInv, TypeOK
    <3>. QED  BY <2>2, <3>1, <3>2, <3>3 DEF Call
  <2>. QED  BY <1>1, <2>1, <2>2 DEF Next, Server, Awaits
<1>3. \A c \in Callers, n \in 1..Len(queue) : Own(c, n) => Again(c) \/ Own(c, n)'
  BY <1>2 DEF Own
<1>4. \A c \in Callers : Awaits(c)' => ~Again(c)
  BY DEF Awaits, Again, Goto, Waiting, IInv, TypeOK
<1>. QED  BY <1>1, <1>2, <1>3, <1>4 DEF AwaitedIsQueued, TasksMoveUp

\* What the server was asked for it will do: a caller of Meilisearch never
\* waits for a task that is not in the queue, and its task moves up with every
\* task that is run.  Between the answers a call of Reindex makes at most four
\* steps and two for each product, and no step of others takes one of them
\* back (biz/search.go 57-67, search_meilisearch.go 69-105, 126-142).  That it
\* returns then only takes that servers answer and goroutines run.
THEOREM ReindexAdvances ==
  ASSUME IsFiniteSet(Products)
  PROVE  Spec => /\ []AwaitedIsQueued
                 /\ [][TasksMoveUp]_vars
                 /\ [](\A c \in Callers :
                         /\ StepsLeft(c) \in Nat
                         /\ StepsLeft(c) = 0 <=> pc[c] \in {"done", "failed", "refused"})
                 /\ [][\A c \in Callers : CallAdvances(c)]_vars
<1>1. Init => AwaitedIsQueued
  BY DEF Init, AwaitedIsQueued, Awaits, Waiting
<1>2. IInv /\ AwaitedIsQueued /\ [Next]_vars => AwaitedIsQueued' /\ [TasksMoveUp]_vars
  <2>. SUFFICES ASSUME IInv, AwaitedIsQueued, [Next]_vars
                PROVE  AwaitedIsQueued' /\ TasksMoveUp
    OBVIOUS
  <2>1. CASE queue' = queue
    BY <2>1, QueueStays
  <2>2. CASE RunCreate \/ RunPut
    BY <2>2, RunMovesUp
  <2>3. CASE \E d \in Callers :
               EnqueueCreate(d) \/ \E p \in Products : EnqueuePut(d, p)
    BY <2>3, EnqueueIsQueued
  <2>. QED
    BY <2>1, <2>2, <2>3 DEF Next, Server, Refresh, Call, Fails, Again, IndexExists,
       IndexMissing, Create, CreateRefused, Put, Proceed, TaskRefused, Done, serverVars,
       vars
<1>3. IInv => \A c \in Callers :
                /\ StepsLeft(c) \in Nat
                /\ StepsLeft(c) = 0 <=> pc[c] \in {"done", "failed", "refused"}
  BY StepsAreCounted DEF IInv
<1>4. IInv /\ IInv' /\ [Next]_vars => [\A c \in Callers : CallAdvances(c)]_vars
  <2>. SUFFICES ASSUME IInv, IInv', Next, NEW c \in Callers PROVE CallAdvances(c)
    OBVIOUS
  <2>1. StepsLeft(c) \in Nat /\ StepsLeft(c)' \in Nat
    BY StepsAreCounted, NextStepsAreCounted DEF IInv
  <2>2. CASE Call(c)
    BY <2>1, <2>2, CallTakesSteps DEF CallAdvances, IInv
  <2>3. CASE ~Call(c) /\ Fails(c)
    <3>1. StepsLeft(c)' = 0
      BY <2>3 DEF Fails, Goto, StepsLeft, IInv, TypeOK, Waiting
    <3>. QED  BY <2>1, <2>3, <3>1 DEF CallAdvances
  <2>4. CASE ~Call(c) /\ ~Fails(c) /\ ~Again(c)
    <3>1. StepsLeft(c)' = StepsLeft(c)
      BY <2>4, OthersTakeNoSteps DEF IInv, StepsLeft
    <3>. QED  BY <2>1, <2>4, <3>1 DEF CallAdvances
  <2>. QED  BY <2>2, <2>3, <2>4 DEF CallAdvances
<1>. QED  BY <1>1, <1>2, <1>3, <1>4, Invariant, PTL DEF Spec
=============================================================================
