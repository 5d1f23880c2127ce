--------------------------- MODULE Listing_proofs ---------------------------
(***************************************************************************)
(* Proofs about module Listing, for any number of walks, rows, times and   *)
(* page sizes.                                                             *)
(*                                                                         *)
(* What a walk has shown says nothing about what it will still show; the   *)
(* cursor does.  The invariant says that the cursor cuts the list in two:  *)
(* no row shown lies beyond it, and every lasting row that was not shown   *)
(* does, or is on the page under way or beyond the whole of that page.     *)
(***************************************************************************)
EXTENDS Listing, FiniteSetTheorems, TLAPS

Walking(w) == at[w] \in {"listing", "counting"}

\* Rows that exist keep their place in the order.
Existing == {i \in Ids : life[i] # "absent"}

\* The cursor cuts the list between what was shown and what was not.
Cut(w) ==
  /\ Walking(w) =>
       /\ lasting[w] \subseteq Matching(w)
       /\ lasting[w] \subseteq seen[w] \cup Beyond(w)
       /\ seen[w] \cap Beyond(w) = {}
  /\ seen[w] \cup page[w] \cup lasting[w] \subseteq Existing
  /\ at[w] = "idle" => seen[w] = {} /\ cursor[w] = NoCursor

\* The page under way is the next stretch of the list.
Stretch(w) ==
  /\ page[w] # {} => at[w] = "counting"
  /\ page[w] \subseteq Beyond(w)
  /\ at[w] = "counting" =>
       /\ \A i \in lasting[w] \ (seen[w] \cup page[w]), p \in page[w] :
            Before(i, Key(p))
       /\ \/ Cardinality(page[w]) = Normalised(size[w])
          \/ lasting[w] \subseteq seen[w] \cup page[w]

\* The walk stopped at the end of the list.
AtEnd(w) == at[w] = "ended" /\ size[w] # 0 => lasting[w] \subseteq seen[w]

\* The inductive invariant.
IInv == TypeOK /\ \A w \in Walks : Cut(w) /\ Stretch(w) /\ AtEnd(w)

-----------------------------------------------------------------------------
(* The order of the list. *)

\* The keyset order is transitive through the key of a row.
LEMMA BeforeTransitive ==
  ASSUME TypeOK, NEW i \in Ids, NEW j \in Ids, NEW k \in Times \X Ids,
         Before(i, Key(j)), Before(j, k)
  PROVE  Before(i, k)
BY BoundsAssumption DEF Before, Key, TypeOK, Ids, Times

\* The keyset order is strict.
LEMMA BeforeAsymmetric ==
  ASSUME TypeOK, NEW i \in Ids, NEW j \in Ids, Before(i, Key(j))
  PROVE  ~Before(j, Key(i)) /\ ~Before(i, Key(i))
BY BoundsAssumption DEF Before, Key, TypeOK, Ids, Times

\* The key of a row is a cursor.
LEMMA KeyIsCursor ==
  ASSUME TypeOK, NEW i \in Ids
  PROVE  Key(i) \in Times \X Ids /\ Key(i) # NoCursor
BY BoundsAssumption, NamesAssumption DEF Key, TypeOK, Ids, Times

-----------------------------------------------------------------------------
(* The invariant. *)

\* The invariant holds before anything was listed.
LEMMA InitIInv == Init => IInv
BY BoundsAssumption, NamesAssumption
   DEF Init, IInv, TypeOK, Cut, Stretch, AtEnd, Walking, Existing, Ids, Times

\* A walk begins with everything in the list beyond its cursor.
LEMMA BeginIInv ==
  ASSUME IInv, NEW w \in Walks, Begin(w)
  PROVE  IInv'
<1>. USE DEF IInv, TypeOK, Begin, rowVars
<1>1. TypeOK'
  BY DEF Matching
<1>2. ASSUME NEW v \in Walks PROVE Cut(v)'
  BY DEF Cut, Stretch, Walking, Existing, Matching, Beyond, Before
<1>3. ASSUME NEW v \in Walks PROVE Stretch(v)'
  BY DEF Stretch, Beyond, Before, Key
<1>4. ASSUME NEW v \in Walks PROVE AtEnd(v)'
  BY DEF AtEnd
<1>. QED  BY <1>1, <1>2, <1>3, <1>4

\* A page is the first stretch of what lies beyond the cursor.
LEMMA ListIInv ==
  ASSUME IInv, NEW w \in Walks, List(w)
  PROVE  IInv'
<1>. USE DEF IInv, TypeOK, List, rowVars
<1>1. TypeOK'
  BY DEF Candidates, Matching
<1>2. ASSUME NEW v \in Walks PROVE Cut(v)'
  BY DEF Cut, Walking, Existing, Matching, Beyond, Before, Candidates
<1>3. ASSUME NEW v \in Walks PROVE Stretch(v)'
  <2>1. CASE v # w
    BY <2>1 DEF Stretch, Beyond, Before, Key
  <2>2. CASE v = w
    <3>1. page'[w] \subseteq Candidates(w)
          /\ IsPage(page'[w], Candidates(w), Normalised(size[w]))
      OBVIOUS
    <3>2. lasting[w] \ seen[w] \subseteq Candidates(w)
      BY DEF Cut, Walking, Candidates
    <3>. QED
      BY <2>2, <3>1, <3>2 DEF Stretch, IsPage, Candidates, Beyond, Before, Key
  <2>. QED  BY <2>1, <2>2
<1>4. ASSUME NEW v \in Walks PROVE AtEnd(v)'
  BY DEF AtEnd
<1>. QED  BY <1>1, <1>2, <1>3, <1>4

\* A failed request sends nothing.
LEMMA PageFailsIInv ==
  ASSUME IInv, NEW w \in Walks, PageFails(w)
  PROVE  IInv'
<1>. USE DEF IInv, TypeOK, PageFails, rowVars
<1>1. TypeOK'
  OBVIOUS
<1>2. ASSUME NEW v \in Walks PROVE Cut(v)'
  BY DEF Cut, Walking, Existing, Matching, Beyond, Before
<1>3. ASSUME NEW v \in Walks PROVE Stretch(v)'
  BY DEF Stretch, Beyond, Before, Key
<1>4. ASSUME NEW v \in Walks PROVE AtEnd(v)'
  BY DEF AtEnd
<1>. QED  BY <1>1, <1>2, <1>3, <1>4

\* The new cursor cuts the list right behind the page.
LEMMA AnswerMoreIInv ==
  ASSUME IInv, NEW w \in Walks, AnswerMore(w)
  PROVE  IInv'
<1>. USE DEF IInv, TypeOK, AnswerMore, Sent, rowVars
<1>1. PICK o \in page[w] :
        /\ \A i \in page[w] \ {o} : Before(o, Key(i))
        /\ cursor' = [cursor EXCEPT ![w] = Key(o)]
  OBVIOUS
<1>2. o \in Ids /\ Key(o) \in Times \X Ids /\ Key(o) # NoCursor
  BY KeyIsCursor
<1>3. TypeOK'
  BY <1>1, <1>2
<1>4. ASSUME NEW v \in Walks PROVE Cut(v)'
  <2>1. CASE v # w
    BY <2>1, <1>1 DEF Cut, Walking, Existing, Matching, Beyond, Before
  <2>2. CASE v = w
    <3>1. Beyond(w)' = {i \in Ids : Before(i, Key(o))}
      BY <1>1, <1>2 DEF Beyond, Before, Key
    <3>2. ASSUME NEW i \in seen[w] \cup page[w] PROVE ~Before(i, Key(o))
      <4>1. CASE i \in page[w]
        BY <1>1, <1>2, <4>1, BeforeAsymmetric
           DEF Before, Key, Ids, Times
      <4>2. CASE i \in seen[w]
        <5>1. i \notin Beyond(w) /\ o \in Beyond(w) /\ i \in Ids
          BY <4>2 DEF Cut, Walking, Stretch
        <5>2. cursor[w] \in Times \X Ids /\ ~Before(i, cursor[w])
              /\ Before(o, cursor[w])
          BY <5>1 DEF Beyond
        <5>. QED  BY <1>2, <5>1, <5>2, BeforeTransitive
      <4>. QED  BY <4>1, <4>2
    <3>3. lasting[w] \subseteq seen[w] \cup page[w] \cup {i \in Ids : Before(i, Key(o))}
      BY DEF Stretch
    <3>4. lasting[w] \subseteq Matching(w)
      BY DEF Cut, Walking
    <3>5. Matching(w)' = Matching(w) /\ Existing' = Existing
      BY DEF Matching, Existing
    <3>. QED
      BY <2>2, <3>1, <3>2, <3>3, <3>4, <3>5 DEF Cut, Walking
  <2>. QED  BY <2>1, <2>2
<1>5. ASSUME NEW v \in Walks PROVE Stretch(v)'
  BY <1>1 DEF Stretch, Beyond, Before, Key
<1>6. ASSUME NEW v \in Walks PROVE AtEnd(v)'
  BY DEF AtEnd
<1>. QED  BY <1>3, <1>4, <1>5, <1>6

\* A page that is not full was all there was, when the size was set.
LEMMA AnswerLastIInv ==
  ASSUME IInv, NEW w \in Walks, AnswerLast(w)
  PROVE  IInv'
<1>. USE DEF IInv, TypeOK, AnswerLast, Sent, rowVars
<1>1. TypeOK'
  OBVIOUS
<1>2. ASSUME NEW v \in Walks PROVE Cut(v)'
  BY DEF Cut, Walking, Existing, Matching, Beyond, Before
<1>3. ASSUME NEW v \in Walks PROVE Stretch(v)'
  BY DEF Stretch, Beyond, Before, Key
<1>4. ASSUME NEW v \in Walks PROVE AtEnd(v)'
  <2>1. CASE v # w
    BY <2>1 DEF AtEnd
  <2>2. CASE v = w /\ size[w] # 0
    <3>. HIDE DEF IInv, AnswerLast, Sent
    <3>0. size[w] \in Sizes
      BY DEF IInv
    <3>1. size[w] \in 1..MaxSize
      <4>1. size[w] \in 0..MaxSize /\ MaxSize \in Nat
        BY <3>0, SizesAssumption
      <4>. QED  BY <2>2, <4>1
    <3>2. Normalised(size[w]) = size[w]
      BY <3>1, SizesAssumption DEF Normalised
    <3>3. Cardinality(page[w]) # size[w]
      <4>1. page[w] = {} => Cardinality(page[w]) = 0
        BY FS_EmptySet
      <4>2. page[w] = {} \/ Cardinality(page[w]) # size[w]
        BY DEF AnswerLast, Full
      <4>. QED  BY <3>1, <4>1, <4>2
    <3>4. lasting[w] \subseteq seen[w] \cup page[w]
      BY <3>2, <3>3 DEF IInv, AnswerLast, Stretch
    <3>. QED  BY <2>2, <3>4 DEF IInv, AnswerLast, Sent, AtEnd
  <2>. QED  BY <2>1, <2>2 DEF AtEnd
<1>. QED  BY <1>1, <1>2, <1>3, <1>4

-----------------------------------------------------------------------------
(* Writers. *)

\* A new row was on no page and lasts for no walk.
LEMMA CreateIInv ==
  ASSUME IInv, NEW i \in Ids, NEW t \in Times, Create(i, t)
  PROVE  IInv'
<1>. USE DEF IInv, TypeOK, Create, walkVars
<1>1. TypeOK'
  OBVIOUS
<1>2. \A j \in Existing : created'[j] = created[j] /\ j \in Existing'
  BY DEF Existing
<1>3. \A j \in Existing, k \in Existing :
        Before(j, Key(k))' <=> Before(j, Key(k))
  BY <1>2 DEF Before, Key, Existing
<1>4. \A j \in Existing, v \in Walks : j \in Beyond(v)' <=> j \in Beyond(v)
  BY <1>2 DEF Beyond, Before, Existing
<1>5. \A v \in Walks : Matching(v) \subseteq Matching(v)'
  BY DEF Matching
<1>6. ASSUME NEW v \in Walks PROVE Cut(v)'
  BY <1>2, <1>4, <1>5 DEF Cut, Walking
<1>7. ASSUME NEW v \in Walks PROVE Stretch(v)'
  BY <1>2, <1>3, <1>4 DEF Stretch, Cut
<1>8. ASSUME NEW v \in Walks PROVE AtEnd(v)'
  BY DEF AtEnd
<1>. QED  BY <1>1, <1>6, <1>7, <1>8

\* A row that leaves a list lasts no longer; all others stay where they are.
LEMMA WriteIInv ==
  ASSUME IInv, NEW i \in Ids,
         SoftDelete(i) \/ (\E s \in Statuses : UpdateStatus(i, s))
  PROVE  IInv'
<1>. USE DEF IInv, TypeOK, SoftDelete, UpdateStatus, Leave, walkVars
<1>1. TypeOK'
  OBVIOUS
<1>2. /\ created' = created /\ Existing' = Existing
      /\ \A v \in Walks : lasting'[v] \subseteq lasting[v]
      /\ \A v \in Walks : lasting'[v] \subseteq Matching(v)'
  BY DEF Existing, Matching
<1>3. ASSUME NEW v \in Walks PROVE Cut(v)'
  BY <1>2 DEF Cut, Walking, Beyond, Before
<1>4. ASSUME NEW v \in Walks PROVE Stretch(v)'
  BY <1>2 DEF Stretch, Beyond, Before, Key
<1>5. ASSUME NEW v \in Walks PROVE AtEnd(v)'
  BY <1>2 DEF AtEnd
<1>. QED  BY <1>1, <1>3, <1>4, <1>5

-----------------------------------------------------------------------------
(* The theorems. *)

\* Every step preserves the invariant.
LEMMA NextIInv == IInv /\ [Next]_vars => IInv'
<1>1. ASSUME IInv, UNCHANGED vars PROVE IInv'
  BY <1>1 DEF vars, rowVars, walkVars, IInv, TypeOK, Cut, Stretch, AtEnd,
              Walking, Existing, Matching, Beyond, Before, Key
<1>. QED
  BY <1>1, BeginIInv, ListIInv, AnswerMoreIInv, AnswerLastIInv, PageFailsIInv,
     CreateIInv, WriteIInv DEF Next, Page

\* The invariant holds in every reachable state.
LEMMA InductiveInvariant == Spec => []IInv
BY InitIInv, NextIInv, PTL DEF Spec

\* Every variable of a walk and of the table has its type.
THEOREM TypeCorrect == Spec => []TypeOK
BY InductiveInvariant, PTL DEF IInv

\* No walk shows a row twice, whatever page size it asks for.
THEOREM NoRepeats == Spec => []NoRowTwice
<1>1. IInv => NoRowTwice
  BY DEF IInv, NoRowTwice, Cut, Stretch, Walking
<1>. QED  BY <1>1, InductiveInvariant, PTL

\* If every client sets page_size, every walk that ends has shown every row
\* that was in the list all the time.
THEOREM Completeness ==
  ASSUME 0 \notin Sizes
  PROVE  Spec => []WalkListsEverything
<1>1. IInv => WalkListsEverything
  BY DEF IInv, TypeOK, WalkListsEverything, AtEnd
<1>. QED  BY <1>1, InductiveInvariant, PTL

-----------------------------------------------------------------------------
(* Why a walk ends. *)

\* The rows a walk may still show.
Unseen(w) == MaxId - Cardinality(seen[w])

\* An answer with a cursor leaves fewer rows to show, and no step leaves more.
Advances(w) ==
  /\ Unseen(w)' <= Unseen(w)
  /\ at[w] = "counting" /\ at'[w] = "listing" => Unseen(w)' < Unseen(w)

\* Rows are never seen twice, so each page counts.
LEMMA PagesCount ==
  ASSUME NEW S \in SUBSET Ids, NEW P \in SUBSET Ids, S \cap P = {}
  PROVE  /\ Cardinality(S) \in Nat /\ Cardinality(S \cup P) \in Nat
         /\ Cardinality(S) <= Cardinality(S \cup P)
         /\ Cardinality(S \cup P) <= MaxId
         /\ P # {} => Cardinality(S) < Cardinality(S \cup P)
<1>1. IsFiniteSet(Ids) /\ Cardinality(Ids) = MaxId
  BY FS_Interval, BoundsAssumption DEF Ids
<1>2. IsFiniteSet(S \cup P) /\ Cardinality(S \cup P) <= MaxId
  BY <1>1, FS_Subset, S \cup P \in SUBSET Ids
<1>3. IsFiniteSet(S) /\ Cardinality(S) <= Cardinality(S \cup P)
  BY <1>2, FS_Subset, S \in SUBSET (S \cup P)
<1>4. Cardinality(S) = Cardinality(S \cup P) => S = S \cup P
  BY <1>2, FS_Subset, S \in SUBSET (S \cup P)
<1>5. Cardinality(S) \in Nat /\ Cardinality(S \cup P) \in Nat
  BY <1>2, <1>3, FS_CardinalityType
<1>. QED  BY <1>2, <1>3, <1>4, <1>5

\* However fast rows are added and moved, every answer with a cursor leaves the
\* walk fewer rows to show, and their number is never negative: a walk sends at
\* most MaxId requests after its first one.  That it ends then only takes that
\* each of them is answered (service.go.tmpl 99-104).
THEOREM WalksAdvance ==
  Spec => /\ [](\A w \in Walks : Unseen(w) \in Nat)
          /\ [][\A w \in Walks : Advances(w)]_vars
<1>1. IInv => \A w \in Walks : Unseen(w) \in Nat
  <2>. SUFFICES ASSUME IInv, NEW w \in Walks PROVE Unseen(w) \in Nat
    OBVIOUS
  <2>1. seen[w] \in SUBSET Ids /\ page[w] \in SUBSET Ids /\ seen[w] \cap page[w] = {}
    BY DEF IInv, TypeOK, Cut, Stretch, Walking
  <2>2. Cardinality(seen[w]) \in Nat /\ Cardinality(seen[w]) <= MaxId
    <3> DEFINE S == seen[w]  P == page[w]
    <3>1. /\ Cardinality(S) \in Nat /\ Cardinality(S \cup P) \in Nat
          /\ Cardinality(S) <= Cardinality(S \cup P) /\ Cardinality(S \cup P) <= MaxId
      BY <2>1, PagesCount
    <3>. QED  BY <3>1, BoundsAssumption
  <2>. QED  BY <2>2, BoundsAssumption DEF Unseen
<1>2. IInv /\ [Next]_vars => [\A w \in Walks : Advances(w)]_vars
  <2>. SUFFICES ASSUME IInv, Next, NEW w \in Walks PROVE Advances(w)
    OBVIOUS
  <2>1. seen[w] \in SUBSET Ids /\ page[w] \in SUBSET Ids /\ seen[w] \cap page[w] = {}
    BY DEF IInv, TypeOK, Cut, Stretch, Walking
  <2>2. CASE AnswerMore(w)
    <3>1. seen'[w] = seen[w] \cup page[w] /\ page[w] # {}
      BY <2>2 DEF AnswerMore, Sent, Full, IInv, TypeOK
    <3>. QED  BY <2>1, <3>1, PagesCount, BoundsAssumption DEF Advances, Unseen
  <2>3. CASE AnswerLast(w)
    <3>1. seen'[w] = seen[w] \cup page[w] /\ at'[w] = "ended"
      BY <2>3 DEF AnswerLast, Sent, IInv, TypeOK
    <3>. QED  BY <2>1, <3>1, PagesCount, BoundsAssumption DEF Advances, Unseen
  <2>4. CASE ~AnswerMore(w) /\ ~AnswerLast(w)
    <3>1. seen'[w] = seen[w]
      BY <2>4 DEF Next, Begin, Page, List, AnswerMore, AnswerLast, Sent, PageFails,
                  SoftDelete, Create, UpdateStatus, walkVars, IInv, TypeOK
    <3>2. ~(at[w] = "counting" /\ at'[w] = "listing")
      BY <2>4 DEF Next, Begin, Page, List, AnswerMore, AnswerLast, Sent, PageFails,
                  SoftDelete, Create, UpdateStatus, walkVars, IInv, TypeOK
    <3>3. Cardinality(seen[w]) \in Nat
      BY <2>1, PagesCount
    <3>. QED  BY <3>1, <3>2, <3>3, BoundsAssumption DEF Advances, Unseen
  <2>. QED  BY <2>2, <2>3, <2>4
<1>. QED  BY <1>1, <1>2, InductiveInvariant, PTL DEF Spec
=============================================================================
