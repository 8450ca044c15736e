----------------------------- MODULE RegionDiff -----------------------------
(****************************************************************************)
(* Reading a region by versions: getRegionDiff of RegionDiffService, over   *)
(* the log that RegionLog promises, while players write and the retention   *)
(* job deletes old deltas.                                                  *)
(*                                                                          *)
(* A reader has a viewport and asks again and again for what changed after  *)
(* the version the last answer ended with.  The service reads the region's  *)
(* version and then, by another statement, the deltas; of those it returns  *)
(* the latest per cell, without deletions, up to a page.  A delta is named  *)
(* by its version, which is its place in the log.                           *)
(****************************************************************************)
EXTENDS Naturals, Sequences, FiniteSets

CONSTANTS
    Actors, Cells, Looks, Empty,    \* of the region's log
    Readers,        \* clients that page through the region
    Viewports,      \* sets of cells a client can ask for
    MaxTiles,       \* tiles per answer
    Retention,      \* whether deltas expire and are deleted
    MaxVersion      \* bound: changes committed in a behaviour

ASSUME ReaderAssumption ==
    /\ Viewports \subseteq SUBSET Cells
    /\ MaxTiles \in Nat \ {0}
    /\ Retention \in BOOLEAN

VARIABLES
    log, head, grid,    \* the store, see RegionLog
    kept,       \* versions whose delta is still in tile_deltas
    view,       \* the viewport of each reader
    since,      \* sinceVersion of its next request
    pc,         \* where its request is
    current,    \* the version getRegionDiff has read for it, 0 between requests
    known       \* per reader and cell: version of the tile it was sent, or 0

readerVars == <<view, since, pc, current, known>>
vars == <<log, head, grid, kept, readerVars>>

Store == INSTANCE RegionLog

-----------------------------------------------------------------------------
\* A transaction of the store commits: its delta is there with its version.
Write ==
    /\ head < MaxVersion
    /\ Store!Next
    /\ kept' = kept \cup {head'}
    /\ UNCHANGED readerVars

\* deleteExpiredTileDeltas.  No reader is among the checkpoints it protects.  A delta
\* expires a day after its transaction began, so not in the order of the versions.
DeleteExpired ==
    /\ Retention
    /\ \E expired \in SUBSET kept : expired # {} /\ kept' = kept \ expired
    /\ UNCHANGED <<log, head, grid, readerVars>>

-----------------------------------------------------------------------------
\* Fault: the number of the next change is read for that of the last one.
ReadNextVersion(r) ==
    /\ pc[r] = "idle"
    /\ pc' = [pc EXCEPT ![r] = "reading"]
    /\ current' = [current EXCEPT ![r] = head + 1]
    /\ UNCHANGED <<log, head, grid, kept, view, since, known>>

\* getCurrentRegionVersion; a reader that has it all is answered at once.
ReadVersion(r) ==
    /\ pc[r] = "idle"
    /\ \/ /\ since[r] >= head
          /\ since' = [since EXCEPT ![r] = head]
          /\ UNCHANGED <<pc, current>>
       \/ /\ since[r] < head
          /\ pc' = [pc EXCEPT ![r] = "reading"]
          /\ current' = [current EXCEPT ![r] = head]
          /\ UNCHANGED since
    /\ UNCHANGED <<log, head, grid, kept, view, known>>

\* getTileDeltasSince
TileDeltasSince(r) ==
    {v \in kept : v > since[r] /\ log[v].cell \in view[r]}

\* compactLatestByCoordinate
CompactLatest(r) ==
    LET found == TileDeltasSince(r)
        latest == {v \in found : \A w \in found : log[w].cell = log[v].cell => w <= v}
    IN  {v \in latest : log[v].op # "delete"}

\* The first MaxTiles of them, in the order of their versions.
Page(r) ==
    LET live == CompactLatest(r)
    IN  {v \in live : Cardinality({w \in live : w < v}) < MaxTiles}

\* Fault: the next request begins at the current version, whatever the page held.
NextIsCurrent(r, n) == n = current[r]

\* Fault: the last tile is asked for again.
NextRepeatsLast(r, n) ==
    IF CompactLatest(r) = {} THEN n = current[r]
                             ELSE n + 1 \in Page(r) /\ \A v \in Page(r) : v <= n + 1

\* nextSinceVersion: the last tile of the page, the current version if there is none.
NextSince(r, n) ==
    IF CompactLatest(r) = {} THEN n = current[r]
                             ELSE n \in Page(r) /\ \A v \in Page(r) : v <= n

\* The answer arrives, and the reader draws it over what it has ...
ReadDeltas(r) ==
    /\ pc[r] = "reading"
    /\ \E n \in 0..head : NextSince(r, n) /\ since' = [since EXCEPT ![r] = n]
    /\ known' = [known EXCEPT ![r] =
                   [c \in Cells |->
                      IF \E v \in Page(r) : log[v].cell = c
                        THEN CHOOSE v \in Page(r) : log[v].cell = c
                        ELSE known[r][c]]]
    /\ pc' = [pc EXCEPT ![r] = "idle"]
    /\ current' = [current EXCEPT ![r] = 0]
    /\ UNCHANGED <<log, head, grid, kept, view>>

\* ... or it is lost, and the reader asks again.
AnswerLost(r) ==
    /\ pc[r] = "reading"
    /\ pc' = [pc EXCEPT ![r] = "idle"]
    /\ current' = [current EXCEPT ![r] = 0]
    /\ UNCHANGED <<log, head, grid, kept, view, since, known>>

-----------------------------------------------------------------------------
Init ==
    /\ Store!Init
    /\ kept = {1}
    /\ view \in [Readers -> Viewports]
    /\ since = [r \in Readers |-> 0]
    /\ pc = [r \in Readers |-> "idle"]
    /\ current = [r \in Readers |-> 0]
    /\ known = [r \in Readers |-> [c \in Cells |-> 0]]

Next ==
    \/ Write
    \/ DeleteExpired
    \/ \E r \in Readers : ReadVersion(r) \/ ReadDeltas(r) \/ AnswerLost(r)

Spec == Init /\ [][Next]_vars

-----------------------------------------------------------------------------
(* Properties *)

\* Every variable has its type; nobody is ahead of the region.
TypeOK ==
    /\ log \in Seq(Store!Change)
    /\ head = Len(log)
    /\ kept \subseteq 1..head
    /\ view \in [Readers -> Viewports]
    /\ since \in [Readers -> 0..head]
    /\ pc \in [Readers -> {"idle", "reading"}]
    /\ current \in [Readers -> 0..head]
    /\ known \in [Readers -> [Cells -> 0..head]]

\* The change that decides what its cell holds now.
IsLatest(v) == \A w \in 1..Len(log) : w > v => log[w].cell # log[v].cell

\* A reader knows the tiles it has gone past: when a cell's latest change is a tile
\* whose delta is retained, and the reader's sinceVersion is not before it, the reader
\* was sent this tile, although pages are cut, versions and deltas are read at
\* different moments, and answers get lost.
PassedIsKnown ==
    \A r \in Readers, v \in 1..Len(log) :
        (/\ v \in kept /\ v <= since[r] /\ IsLatest(v)
         /\ log[v].op = "upsert" /\ log[v].cell \in view[r])
            => known[r][log[v].cell] = v

\* Every answer takes its reader forward, so that paging comes to an end.
PagesAdvance == [][\A r \in Readers : ReadDeltas(r) => since'[r] > since[r]]_vars
=============================================================================
