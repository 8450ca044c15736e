-------------------------- MODULE RegionDiffProofs --------------------------
(****************************************************************************)
(* Theorems about RegionDiff for every set of readers, viewports and cells, *)
(* every page size, and whether or not deltas expire.                       *)
(****************************************************************************)
EXTENDS RegionDiff, FiniteSetTheorems, TLAPS

\* A request that is under way has something to read.
Behind == \A r \in Readers : pc[r] = "reading" => since[r] < current[r]

-----------------------------------------------------------------------------
(* The log *)

\* A transaction of the store appends one change, and its number is the new version.
LEMMA WriteAppends ==
    ASSUME TypeOK, Store!Next
    PROVE  /\ log' \in Seq(Store!Change)
           /\ head' = Len(log')
           /\ Len(log') = Len(log) + 1
           /\ \A v \in 1..Len(log) : log'[v] = log[v]
<1> USE DEF TypeOK
<1>0. head \in Nat
  OBVIOUS
<1>1. ASSUME NEW e \in Store!Change, log' = Append(log, e), head' = head + 1
      PROVE  /\ log' \in Seq(Store!Change)
             /\ head' = Len(log')
             /\ Len(log') = Len(log) + 1
             /\ \A v \in 1..Len(log) : log'[v] = log[v]
  BY <1>1
<1>2. CASE \E c \in Cells : Store!Erase(c)
  <2>1. PICK c \in Cells : Store!Erase(c)
    BY <1>2
  <2>2. [version |-> head + 1, cell |-> c, op |-> "delete",
         owner |-> "none", look |-> "none"] \in Store!Change
    BY <1>0 DEF Store!Change
  <2> QED
    BY <2>1, <2>2, <1>1 DEF Store!Erase
<1>3. CASE \E c \in Cells : \E a \in Actors, l \in Looks : Store!Upsert(c, a, l)
  <2>1. PICK c \in Cells, a \in Actors, l \in Looks : Store!Upsert(c, a, l)
    BY <1>3
  <2>2. [version |-> head + 1, cell |-> c, op |-> "upsert",
         owner |-> a, look |-> l] \in Store!Change
    BY <1>0 DEF Store!Change
  <2> QED
    BY <2>1, <2>2, <1>1 DEF Store!Upsert
<1> QED
  BY <1>2, <1>3 DEF Store!Next

\* What a request finds, and what it returns of that, are versions of the log.
LEMMA PageFacts ==
    ASSUME TypeOK, NEW r \in Readers
    PROVE  /\ TileDeltasSince(r) \subseteq 1..head
           /\ Page(r) \subseteq CompactLatest(r)
           /\ CompactLatest(r) \subseteq TileDeltasSince(r)
           /\ \A v \in TileDeltasSince(r) : v > since[r]
           /\ IsFiniteSet(CompactLatest(r))
<1>1. /\ TileDeltasSince(r) \subseteq 1..head
      /\ \A v \in TileDeltasSince(r) : v > since[r]
      /\ Page(r) \subseteq CompactLatest(r)
      /\ CompactLatest(r) \subseteq TileDeltasSince(r)
  BY DEF TypeOK, TileDeltasSince, Page, CompactLatest
<1>2. IsFiniteSet(1..head)
  BY FS_Interval DEF TypeOK
<1> QED
  BY <1>1, <1>2, FS_Subset

\* A page is cut at its end: what is not after one of its tiles is in it.
LEMMA PageIsPrefix ==
    ASSUME TypeOK, NEW r \in Readers, NEW n \in Page(r),
           NEW v \in CompactLatest(r), v <= n
    PROVE  v \in Page(r)
<1> DEFINE Before(k) == {w \in CompactLatest(r) : w < k}
<1>1. n \in CompactLatest(r) /\ v \in Nat /\ n \in Nat /\ CompactLatest(r) \subseteq Nat
  BY PageFacts DEF TypeOK
<1>2. Before(v) \subseteq Before(n)
  BY <1>1
<1>3. IsFiniteSet(Before(n))
  BY PageFacts, FS_Subset
<1>4. Cardinality(Before(v)) <= Cardinality(Before(n))
  BY <1>2, <1>3, FS_Subset
<1>5. Cardinality(Before(n)) \in Nat /\ Cardinality(Before(v)) \in Nat
  BY <1>2, <1>3, FS_Subset, FS_CardinalityType
<1>6. Cardinality(Before(n)) < MaxTiles
  BY DEF Page
<1>7. Cardinality(Before(v)) < MaxTiles
  BY <1>4, <1>5, <1>6, ReaderAssumption
<1> QED
  BY <1>7 DEF Page

-----------------------------------------------------------------------------
(* Types *)

\* Initially every variable has its type, and no request is under way.
LEMMA TypeInit == Init => TypeOK /\ Behind
<1> SUFFICES ASSUME Init PROVE TypeOK /\ Behind
  OBVIOUS
<1>1. PICK c \in Cells, a \in Actors, l \in Looks :
         log = << [version |-> 1, cell |-> c, op |-> "upsert", owner |-> a, look |-> l] >>
  BY DEF Init, Store!Init
<1>2. [version |-> 1, cell |-> c, op |-> "upsert", owner |-> a, look |-> l] \in Store!Change
  BY DEF Store!Change
<1>3. log \in Seq(Store!Change) /\ Len(log) = 1
  BY <1>1, <1>2
<1> QED
  BY <1>3 DEF Init, Store!Init, TypeOK, Behind

\* Every step keeps the types, and requests that have something to read.
LEMMA TypeNext == TypeOK /\ Behind /\ [Next]_vars => TypeOK' /\ Behind'
<1> SUFFICES ASSUME TypeOK, Behind, [Next]_vars PROVE TypeOK' /\ Behind'
  OBVIOUS
<1>0. head \in Nat
  BY DEF TypeOK
<1>1. CASE Write
  <2>1. /\ log' \in Seq(Store!Change) /\ head' = Len(log') /\ head' = head + 1
    BY <1>1, WriteAppends DEF Write, TypeOK
  <2>a. kept \subseteq 1..head
    BY DEF TypeOK
  <2>b. kept' = kept \cup {head'}
    BY <1>1 DEF Write
  <2>c. head' = head + 1
    BY <2>1
  <2>2. 0..head \subseteq 0..head' /\ kept' \subseteq 1..head'
    BY <1>0, <2>a, <2>b, <2>c
  <2>3. /\ since' \in [Readers -> 0..head'] /\ current' \in [Readers -> 0..head']
        /\ known' \in [Readers -> [Cells -> 0..head']]
    BY <1>1, <2>2 DEF Write, readerVars, TypeOK
  <2> QED
    BY <1>1, <2>1, <2>2, <2>3 DEF Write, readerVars, TypeOK, Behind
<1>2. CASE DeleteExpired
  BY <1>2 DEF DeleteExpired, readerVars, TypeOK, Behind
<1>3. CASE \E r \in Readers : ReadVersion(r)
  <2>1. PICK r \in Readers : ReadVersion(r)
    BY <1>3
  <2>2. head \in 0..head
    BY <1>0
  <2>3. /\ since' \in [Readers -> 0..head] /\ current' \in [Readers -> 0..head]
        /\ pc' \in [Readers -> {"idle", "reading"}]
    BY <2>1, <2>2 DEF ReadVersion, TypeOK
  <2>4. Behind'
    BY <2>1 DEF ReadVersion, TypeOK, Behind
  <2> QED
    BY <2>1, <2>3, <2>4 DEF ReadVersion, TypeOK
<1>4. CASE \E r \in Readers : ReadDeltas(r)
  <2>1. PICK r \in Readers : ReadDeltas(r)
    BY <1>4
  <2>2. \A c \in Cells : (\E v \in Page(r) : log[v].cell = c) =>
           (CHOOSE v \in Page(r) : log[v].cell = c) \in 0..head
    BY PageFacts, <1>0
  <2>3. known' \in [Readers -> [Cells -> 0..head]]
    BY <2>1, <2>2 DEF ReadDeltas, TypeOK
  <2>4. since' \in [Readers -> 0..head]
    BY <2>1 DEF ReadDeltas, TypeOK
  <2>5. current' \in [Readers -> 0..head] /\ pc' \in [Readers -> {"idle", "reading"}]
    BY <1>0, <2>1 DEF ReadDeltas, TypeOK
  <2>6. Behind'
    BY <2>1 DEF ReadDeltas, TypeOK, Behind
  <2> QED
    BY <2>1, <2>3, <2>4, <2>5, <2>6 DEF ReadDeltas, TypeOK
<1>5. CASE \E r \in Readers : AnswerLost(r)
  <2>1. PICK r \in Readers : AnswerLost(r)
    BY <1>5
  <2>2. current' \in [Readers -> 0..head] /\ pc' \in [Readers -> {"idle", "reading"}]
    BY <1>0, <2>1 DEF AnswerLost, TypeOK
  <2>3. Behind'
    BY <2>1 DEF AnswerLost, TypeOK, Behind
  <2> QED
    BY <2>1, <2>2, <2>3 DEF AnswerLost, TypeOK
<1>6. CASE UNCHANGED vars
  BY <1>6 DEF vars, readerVars, TypeOK, Behind
<1> QED
  BY <1>1, <1>2, <1>3, <1>4, <1>5, <1>6 DEF Next

\* The model's variables have their types, in every region and for all readers.
THEOREM TypeCorrect == Spec => [](TypeOK /\ Behind)
<1>1. Init => TypeOK /\ Behind
  BY TypeInit
<1>2. TypeOK /\ Behind /\ [Next]_vars => (TypeOK /\ Behind)'
  BY TypeNext
<1> QED
  BY <1>1, <1>2, PTL DEF Spec

-----------------------------------------------------------------------------
(* Paging *)

\* A reader that goes past a tile's delta has it on the page: the delta is found, is the
\* latest of its cell, and is not after the end of the page.
LEMMA PassedIsOnPage ==
    ASSUME TypeOK, NEW r \in Readers, ReadDeltas(r),
           NEW v \in 1..Len(log), v \in kept, since[r] < v, v <= since'[r],
           IsLatest(v), log[v].op = "upsert", log[v].cell \in view[r]
    PROVE  /\ v \in Page(r)
           /\ \A w \in Page(r) : log[w].cell = log[v].cell => w = v
<1>1. v \in TileDeltasSince(r)
  BY DEF TypeOK, TileDeltasSince
<1>2. \A w \in TileDeltasSince(r) : log[w].cell = log[v].cell => w <= v
  BY PageFacts DEF IsLatest, TypeOK
<1>3. v \in CompactLatest(r)
  BY <1>1, <1>2 DEF CompactLatest
<1>4. PICK n \in 0..head : NextSince(r, n) /\ since'[r] = n
  BY DEF ReadDeltas, TypeOK
<1>5. n \in Page(r) /\ v <= n
  BY <1>3, <1>4 DEF NextSince
<1>6. v \in Page(r)
  BY <1>3, <1>5, PageIsPrefix
<1>7. ASSUME NEW w \in Page(r), log[w].cell = log[v].cell
      PROVE  w = v
  <2>1. w \in TileDeltasSince(r) /\ w <= v
    BY <1>2, <1>7, PageFacts
  <2>2. v <= w
    BY <1>1, <1>7, PageFacts DEF CompactLatest
  <2> QED
    BY <2>1, <2>2, PageFacts DEF TypeOK
<1> QED
  BY <1>6, <1>7

\* One reader's answer keeps what it and the others know.
LEMMA PassedReadDeltas ==
    ASSUME TypeOK, PassedIsKnown, NEW r \in Readers, ReadDeltas(r)
    PROVE  PassedIsKnown'
<1> SUFFICES ASSUME NEW q \in Readers, NEW v \in 1..Len(log),
                    v \in kept, v <= since'[q], IsLatest(v),
                    log[v].op = "upsert", log[v].cell \in view[q]
             PROVE  known'[q][log[v].cell] = v
  BY DEF PassedIsKnown, ReadDeltas, IsLatest
<1>1. log[v].cell \in Cells
  <2>1. log[v] \in Store!Change
    BY DEF TypeOK, ReadDeltas
  <2> QED
    BY <2>1 DEF Store!Change
<1>2. CASE q # r
  BY <1>2 DEF ReadDeltas, TypeOK, PassedIsKnown
<1>3. CASE q = r /\ v <= since[r]
  <2>1. known[r][log[v].cell] = v
    BY <1>3 DEF PassedIsKnown
  <2>2. ~ \E w \in Page(r) : log[w].cell = log[v].cell
    <3>1. SUFFICES ASSUME NEW w \in Page(r), log[w].cell = log[v].cell PROVE FALSE
      OBVIOUS
    <3>2. w \in 1..Len(log) /\ w > since[r]
      BY PageFacts DEF TypeOK
    <3>3. w > v
      BY <1>3, <3>2 DEF TypeOK
    <3> QED
      BY <3>1, <3>2, <3>3 DEF IsLatest
  <2> QED
    BY <1>1, <1>3, <2>1, <2>2 DEF ReadDeltas, TypeOK
<1>4. CASE q = r /\ since[r] < v
  <2>1. v \in Page(r) /\ \A w \in Page(r) : log[w].cell = log[v].cell => w = v
    BY <1>4, PassedIsOnPage
  <2>2. (CHOOSE w \in Page(r) : log[w].cell = log[v].cell) = v
    BY <2>1
  <2> QED
    BY <1>1, <1>4, <2>1, <2>2 DEF ReadDeltas, TypeOK
<1> QED
  BY <1>2, <1>3, <1>4 DEF TypeOK

\* Every step keeps what readers know of what they have gone past.
LEMMA PassedNext ==
    TypeOK /\ Behind /\ PassedIsKnown /\ [Next]_vars => PassedIsKnown'
<1> SUFFICES ASSUME TypeOK, Behind, PassedIsKnown, [Next]_vars PROVE PassedIsKnown'
  OBVIOUS
<1>0. head \in Nat /\ Len(log) \in Nat
  BY DEF TypeOK
<1>1. CASE Write
  <2>1. Len(log') = Len(log) + 1 /\ \A v \in 1..Len(log) : log'[v] = log[v]
    BY <1>1, WriteAppends DEF Write
  <2>2. ASSUME NEW r \in Readers, NEW v \in 1..Len(log'),
               v <= since[r], IsLatest(v)', log'[v].op = "upsert",
               log'[v].cell \in view[r], v \in kept'
        PROVE  known[r][log'[v].cell] = v
    <3>1. v \in 1..Len(log) /\ v \in kept
      BY <1>0, <1>1, <2>1, <2>2, WriteAppends DEF TypeOK, Write
    <3>2. IsLatest(v)
      BY <2>1, <2>2, <3>1 DEF IsLatest
    <3> QED
      BY <2>1, <2>2, <3>1, <3>2 DEF PassedIsKnown
  <2> QED
    BY <1>1, <2>2 DEF Write, readerVars, PassedIsKnown
<1>2. CASE DeleteExpired
  BY <1>2 DEF DeleteExpired, readerVars, PassedIsKnown, IsLatest
<1>3. CASE \E r \in Readers : ReadVersion(r)
  BY <1>0, <1>3 DEF ReadVersion, PassedIsKnown, IsLatest, TypeOK
<1>4. CASE \E r \in Readers : ReadDeltas(r)
  BY <1>4, PassedReadDeltas
<1>5. CASE \E r \in Readers : AnswerLost(r)
  BY <1>5 DEF AnswerLost, PassedIsKnown, IsLatest
<1>6. CASE UNCHANGED vars
  BY <1>6 DEF vars, readerVars, PassedIsKnown, IsLatest
<1> QED
  BY <1>1, <1>2, <1>3, <1>4, <1>5, <1>6 DEF Next

\* Paging loses no tile: a reader was sent every tile its sinceVersion has gone past, if
\* the tile's delta is retained (getRegionDiff, compactLatestByCoordinate).
THEOREM PagingLosesNoTile == Spec => []PassedIsKnown
<1>1. Init => PassedIsKnown
  BY DEF Init, PassedIsKnown
<1>2. TypeOK /\ Behind /\ PassedIsKnown /\ [Next]_vars => PassedIsKnown'
  BY PassedNext
<1> QED
  BY <1>1, <1>2, TypeCorrect, PTL DEF Spec

\* An answer takes its reader forward: paging does not go round in circles.
THEOREM PagingAdvances == Spec => PagesAdvance
<1>1. ASSUME TypeOK, Behind
      PROVE  \A r \in Readers : ReadDeltas(r) => since'[r] > since[r]
  <2>1. SUFFICES ASSUME NEW r \in Readers, ReadDeltas(r) PROVE since'[r] > since[r]
    OBVIOUS
  <2>2. PICK n \in 0..head : NextSince(r, n) /\ since'[r] = n
    BY <1>1, <2>1 DEF ReadDeltas, TypeOK
  <2>3. CASE CompactLatest(r) = {}
    BY <1>1, <2>1, <2>2, <2>3 DEF NextSince, Behind, ReadDeltas, TypeOK
  <2>4. CASE CompactLatest(r) # {}
    BY <1>1, <2>2, <2>4, PageFacts DEF NextSince
  <2> QED
    BY <2>3, <2>4
<1> QED
  BY <1>1, TypeCorrect, PTL DEF PagesAdvance
=============================================================================
