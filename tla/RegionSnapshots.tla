--------------------------- MODULE RegionSnapshots ---------------------------
(****************************************************************************)
(* Snapshots of one region and their restoration (RegionSnapshotService and *)
(* its repository), while players place, edit and delete tiles in it.       *)
(*                                                                          *)
(* An action is one SQL statement, or for the statements that write several *)
(* rows one row of it: the statement waits at each row that another         *)
(* transaction has written, keeps what it has locked, and sees only the     *)
(* rows that were committed when it began (READ COMMITTED).  A hash stands  *)
(* for the tiles it covers: it covers everything a tile is restored with.   *)
(* Every call is made once.                                                 *)
(****************************************************************************)
EXTENDS Naturals

CONSTANTS
    CellCount,      \* coordinates of the region, in the order of a snapshot's rows
    Looks,          \* what a tile can be: owner, shape, colour, offsets, style
    Empty,          \* what a cell without a row holds
    Writers,        \* placements, edits and deletions
    Creators,       \* calls of createSnapshot; their snapshots go by their names
    Restores,       \* calls of restoreLatest
    Nobody,         \* no snapshot
    TelemetryFails  \* can the telemetry sink reject? (never when its mode is off)

ASSUME SnapshotAssumption ==
    /\ CellCount \in Nat
    /\ Empty \notin Looks
    /\ Nobody \notin Creators
    /\ Writers \cap Restores = {}
    /\ TelemetryFails \in BOOLEAN

Cells == 1..CellCount

VARIABLES
    grid,       \* tiles: what each cell holds, as committed
    saved,      \* region_snapshots with region_snapshot_tiles, as committed
    lastAt,     \* the last created_at that was given
    wStage, wCell, wTile,       \* a writer: where it is, the cell and its new content
    cStage, cut, createdAt,     \* a creator: the tiles it has read, its created_at
    rStage,     \* where each restore is
    chosen,     \* the snapshot whose header it has read
    copy,       \* the rows of this snapshot
    toDelete,   \* cells whose row its DELETE has yet to remove
    deleted,    \* cells whose row it has removed
    inserted,   \* cells it has inserted a row in
    seen,       \* the tiles it has read at the end of its transaction
    reply,      \* what it answered
    fresh       \* history: cells in which others committed a new row since its DELETE began

writerVars == <<wStage, wCell, wTile>>
creatorVars == <<saved, lastAt, cStage, cut, createdAt>>
transaction == <<chosen, copy, toDelete, deleted, inserted, seen>>
restoreVars == <<rStage, transaction, reply>>
vars == <<grid, writerVars, creatorVars, restoreVars, fresh>>

-----------------------------------------------------------------------------
Tiles == [Cells -> Looks \cup {Empty}]
NoTiles == [c \in Cells |-> Empty]

\* A header (created_at, and expected_hash, which implies tile_count) with its rows.
Snapshot == [at : Nat, hash : Tiles, rows : Tiles]
NoSnapshot == [at |-> 0, hash |-> NoTiles, rows |-> NoTiles]

\* From the beginning of its DELETE to the end of its transaction.
Replacing == {"delete", "insert", "commit"}

\* The rows that a transaction has written are locked until it ends.
Holds(x, c) ==
    \/ x \in Writers /\ wStage[x] = "wrote" /\ wCell[x] = c
    \/ x \in Restores /\ rStage[x] \in Replacing /\ c \in deleted[x] \cup inserted[x]

Free(x, c) == \A y \in (Writers \cup Restores) \ {x} : ~ Holds(y, c)

-----------------------------------------------------------------------------
(* The transactions of the tile store, see PlacementStore: one row each. *)

\* Into an empty cell a placement; over a tile an edit or a deletion.
WriteRow(w, c, t) ==
    /\ wStage[w] = "new"
    /\ Free(w, c)
    /\ t # grid[c]
    /\ wStage' = [wStage EXCEPT ![w] = "wrote"]
    /\ wCell' = [wCell EXCEPT ![w] = c]
    /\ wTile' = [wTile EXCEPT ![w] = t]
    /\ UNCHANGED <<grid, creatorVars, restoreVars, fresh>>

\* What a transaction has written is no longer its own when it ends.
EndWriter(w) ==
    /\ wStage[w] = "wrote"
    /\ wStage' = [wStage EXCEPT ![w] = "done"]
    /\ wCell' = [wCell EXCEPT ![w] = 0]
    /\ wTile' = [wTile EXCEPT ![w] = Empty]

\* A deleted row is none that a DELETE under way would still find; a new row is one
\* it does not see.
CommitWrite(w) ==
    LET c == wCell[w] IN
    /\ EndWriter(w)
    /\ grid' = [grid EXCEPT ![c] = wTile[w]]
    /\ toDelete' = [r \in Restores |-> IF wTile[w] = Empty THEN toDelete[r] \ {c}
                                                           ELSE toDelete[r]]
    /\ fresh' = [r \in Restores |-> IF grid[c] = Empty /\ rStage[r] \in Replacing
                                      THEN fresh[r] \cup {c} ELSE fresh[r]]
    /\ UNCHANGED <<creatorVars, rStage, chosen, copy, deleted,
                   inserted, seen, reply>>

RollbackWrite(w) ==
    /\ EndWriter(w)
    /\ UNCHANGED <<grid, creatorVars, restoreVars, fresh>>

-----------------------------------------------------------------------------
(* createSnapshot *)

\* One SELECT outside of any transaction; the hash is taken of its rows.
ReadRegion(k) ==
    /\ cStage[k] = "new"
    /\ cStage' = [cStage EXCEPT ![k] = "header"]
    /\ cut' = [cut EXCEPT ![k] = grid]
    /\ UNCHANGED <<grid, writerVars, saved, lastAt, createdAt, restoreVars, fresh>>

\* Fault: the header is committed before the rows are written.
InsertHeaderAlone(k) ==
    /\ cStage[k] = "header"
    /\ cStage' = [cStage EXCEPT ![k] = "rows"]
    /\ lastAt' = lastAt + 1
    /\ createdAt' = [createdAt EXCEPT ![k] = lastAt + 1]
    /\ saved' = [saved EXCEPT ![k] = [at |-> lastAt + 1, hash |-> cut[k],
                                      rows |-> NoTiles]]
    /\ UNCHANGED <<grid, writerVars, cut, restoreVars, fresh>>

\* created_at is now(), the beginning of this transaction and not of the call.
InsertHeader(k) ==
    /\ cStage[k] = "header"
    /\ cStage' = [cStage EXCEPT ![k] = "rows"]
    /\ lastAt' = lastAt + 1
    /\ createdAt' = [createdAt EXCEPT ![k] = lastAt + 1]
    /\ UNCHANGED <<grid, writerVars, saved, cut, restoreVars, fresh>>

\* The rows, and the commit of the transaction: header and rows appear together.
CommitSnapshot(k) ==
    /\ cStage[k] = "rows"
    /\ cStage' = [cStage EXCEPT ![k] = "done"]
    /\ saved' = [saved EXCEPT ![k] = [at |-> createdAt[k], hash |-> cut[k],
                                      rows |-> cut[k]]]
    /\ UNCHANGED <<grid, writerVars, lastAt, cut, createdAt, restoreVars, fresh>>

\* A statement fails, or the server stops: nothing of the snapshot is there.
RollbackSnapshot(k) ==
    /\ cStage[k] = "rows"
    /\ cStage' = [cStage EXCEPT ![k] = "done"]
    /\ cut' = [cut EXCEPT ![k] = NoTiles]
    /\ createdAt' = [createdAt EXCEPT ![k] = 0]
    /\ UNCHANGED <<grid, writerVars, saved, lastAt, restoreVars, fresh>>

-----------------------------------------------------------------------------
(* restoreLatest *)

\* The call returns or throws, and what it kept for itself is gone.
Reply(r, says) ==
    /\ rStage' = [rStage EXCEPT ![r] = "done"]
    /\ reply' = [reply EXCEPT ![r] = says]
    /\ chosen' = [chosen EXCEPT ![r] = Nobody]
    /\ copy' = [copy EXCEPT ![r] = NoTiles]
    /\ deleted' = [deleted EXCEPT ![r] = {}]
    /\ inserted' = [inserted EXCEPT ![r] = {}]
    /\ seen' = [seen EXCEPT ![r] = NoTiles]

Rollback(r) ==
    /\ Reply(r, "failed")
    /\ toDelete' = [toDelete EXCEPT ![r] = {}]
    /\ UNCHANGED <<grid, writerVars, creatorVars, fresh>>

\* getLatestSnapshotForRegion, and the telemetry before the transaction.
ReadLatest(r) ==
    /\ rStage[r] = "new"
    /\ IF \A k \in Creators : saved[k] = NoSnapshot
         THEN Reply(r, "notFound")
         ELSE \E k \in Creators :
                /\ \A o \in Creators : saved[o].at <= saved[k].at
                /\ chosen' = [chosen EXCEPT ![r] = k]
                /\ rStage' = [rStage EXCEPT ![r] = "copy"]
                /\ UNCHANGED <<copy, deleted, inserted, seen, reply>>
    /\ UNCHANGED <<grid, writerVars, creatorVars, toDelete, fresh>>

\* The transaction begins by reading the rows of the snapshot.
CopyRows(r) ==
    /\ rStage[r] = "copy"
    /\ rStage' = [rStage EXCEPT ![r] = "begin"]
    /\ copy' = [copy EXCEPT ![r] = saved[chosen[r]].rows]
    /\ UNCHANGED <<grid, writerVars, creatorVars, chosen, toDelete, deleted, inserted,
                   seen, reply, fresh>>

\* Fault: no WHERE; 0 stands for the cells of the other regions.
BeginDeleteAll(r) ==
    /\ rStage[r] = "begin"
    /\ rStage' = [rStage EXCEPT ![r] = "delete"]
    /\ toDelete' = [toDelete EXCEPT ![r] = {0} \cup {c \in Cells : grid[c] # Empty}]
    /\ UNCHANGED <<grid, writerVars, creatorVars, chosen, copy, deleted, inserted,
                   seen, reply, fresh>>

\* DELETE of the region's rows: those that are committed now ...
BeginDelete(r) ==
    /\ rStage[r] = "begin"
    /\ rStage' = [rStage EXCEPT ![r] = "delete"]
    /\ toDelete' = [toDelete EXCEPT ![r] = {c \in Cells : grid[c] # Empty}]
    /\ UNCHANGED <<grid, writerVars, creatorVars, chosen, copy, deleted, inserted,
                   seen, reply, fresh>>

\* ... one after the other, in an order that is the database's own.
DeleteRow(r, c) ==
    /\ rStage[r] = "delete"
    /\ c \in toDelete[r]
    /\ Free(r, c)
    /\ toDelete' = [toDelete EXCEPT ![r] = @ \ {c}]
    /\ deleted' = [deleted EXCEPT ![r] = @ \cup {c}]
    /\ UNCHANGED <<grid, writerVars, creatorVars, rStage, chosen, copy, inserted,
                   seen, reply, fresh>>

EndDelete(r) ==
    /\ rStage[r] = "delete"
    /\ toDelete[r] = {}
    /\ rStage' = [rStage EXCEPT ![r] = "insert"]
    /\ UNCHANGED <<grid, writerVars, creatorVars, transaction, reply, fresh>>

\* The cells its INSERT has not come to yet, and the one it is at.
ToInsert(r) == {c \in Cells : copy[r][c] # Empty /\ c \notin inserted[r]}
AtRow(r, c) == c \in ToInsert(r) /\ \A d \in ToInsert(r) : c <= d

\* The unique constraint on the coordinate: a row is there that it has not removed.
Taken(r, c) == grid[c] # Empty /\ c \notin deleted[r]

\* Fault: ON CONFLICT DO NOTHING.
InsertRowOrNot(r, c) ==
    /\ rStage[r] = "insert"
    /\ AtRow(r, c)
    /\ Free(r, c)
    /\ inserted' = [inserted EXCEPT ![r] = @ \cup {c}]
    /\ copy' = [copy EXCEPT ![r][c] = IF Taken(r, c) THEN grid[c] ELSE @]
    /\ UNCHANGED <<grid, writerVars, creatorVars, rStage, chosen, toDelete,
                   deleted, seen, reply, fresh>>

\* A row of the INSERT waits for whoever has written one of this coordinate.
InsertRow(r, c) ==
    /\ rStage[r] = "insert"
    /\ AtRow(r, c)
    /\ Free(r, c)
    /\ ~ Taken(r, c)
    /\ inserted' = [inserted EXCEPT ![r] = @ \cup {c}]
    /\ UNCHANGED <<grid, writerVars, creatorVars, rStage, chosen, copy, toDelete,
                   deleted, seen, reply, fresh>>

\* Fault: the statement waits for the row that is in its way.
InsertWaits(r, c) == FALSE

\* A tile was placed here since the DELETE began: the restore fails as a whole.
InsertConflict(r, c) ==
    /\ rStage[r] = "insert"
    /\ AtRow(r, c)
    /\ Free(r, c)
    /\ Taken(r, c)
    /\ Rollback(r)

\* selectTilesForRegion: its own rows, and what others have committed meanwhile.
ReadBack(r) ==
    /\ rStage[r] = "insert"
    /\ ToInsert(r) = {}
    /\ rStage' = [rStage EXCEPT ![r] = "commit"]
    /\ seen' = [seen EXCEPT ![r] =
                  [c \in Cells |-> IF c \in inserted[r] THEN copy[r][c]
                                   ELSE IF c \in deleted[r] THEN Empty ELSE grid[c]]]
    /\ UNCHANGED <<grid, writerVars, creatorVars, chosen, copy, toDelete, deleted,
                   inserted, reply, fresh>>

\* Once the transaction is over the hash of what was read is compared.
Verdict(r) == IF seen[r] = saved[chosen[r]].hash THEN "ok" ELSE "mismatch"

\* COMMIT; then the telemetry, which may reject.
CommitRestore(r) ==
    /\ rStage[r] = "commit"
    /\ grid' = [c \in Cells |-> IF c \in inserted[r] THEN copy[r][c]
                                ELSE IF c \in deleted[r] THEN Empty ELSE grid[c]]
    /\ toDelete' = [o \in Restores |-> IF o = r THEN {} ELSE toDelete[o] \ deleted[r]]
    /\ fresh' = [o \in Restores |-> IF o # r /\ rStage[o] \in Replacing
                                      THEN fresh[o] \cup inserted[r] ELSE fresh[o]]
    /\ \/ Reply(r, Verdict(r))
       \/ TelemetryFails /\ Reply(r, "failed")
    /\ UNCHANGED <<writerVars, creatorVars>>

\* A restore waits for its next row when others hold every row it could go on with.
NextRows(r) ==
    CASE rStage[r] = "delete" -> toDelete[r]
      [] rStage[r] = "insert" -> {c \in Cells : AtRow(r, c)}
      [] OTHER -> {}

Waits(r) == NextRows(r) # {} /\ \A c \in NextRows(r) : ~ Free(r, c)

\* Restores that wait for each other, and for nobody else.
Deadlocked(r) ==
    \E S \in SUBSET Restores :
        /\ r \in S
        /\ \A x \in S : /\ Waits(x)
                        /\ \A c \in NextRows(x), y \in Writers \cup Restores :
                             (y # x /\ Holds(y, c)) => y \in S

\* The database ends a deadlock by failing the statement of one of them.
DeadlockVictim(r) == Deadlocked(r) /\ Rollback(r)

\* A statement, the telemetry or the connection fails at any other point.
RestoreFails(r) == rStage[r] \notin {"new", "done"} /\ Rollback(r)

-----------------------------------------------------------------------------
Init ==
    /\ grid \in Tiles
    /\ saved = [k \in Creators |-> NoSnapshot]
    /\ lastAt = 0
    /\ wStage = [w \in Writers |-> "new"]
    /\ wCell = [w \in Writers |-> 0]
    /\ wTile = [w \in Writers |-> Empty]
    /\ cStage = [k \in Creators |-> "new"]
    /\ cut = [k \in Creators |-> NoTiles]
    /\ createdAt = [k \in Creators |-> 0]
    /\ rStage = [r \in Restores |-> "new"]
    /\ chosen = [r \in Restores |-> Nobody]
    /\ copy = [r \in Restores |-> NoTiles]
    /\ toDelete = [r \in Restores |-> {}]
    /\ deleted = [r \in Restores |-> {}]
    /\ inserted = [r \in Restores |-> {}]
    /\ seen = [r \in Restores |-> NoTiles]
    /\ reply = [r \in Restores |-> "none"]
    /\ fresh = [r \in Restores |-> {}]

EndWrite(w) == CommitWrite(w) \/ RollbackWrite(w)

Restore(r) ==
    \/ ReadLatest(r) \/ CopyRows(r) \/ BeginDelete(r) \/ EndDelete(r)
    \/ \E c \in Cells : DeleteRow(r, c) \/ InsertRow(r, c) \/ InsertConflict(r, c)
    \/ ReadBack(r) \/ CommitRestore(r) \/ DeadlockVictim(r)

Next ==
    \/ \E w \in Writers :
         \/ EndWrite(w)
         \/ \E c \in Cells, t \in Looks \cup {Empty} : WriteRow(w, c, t)
    \/ \E k \in Creators :
         ReadRegion(k) \/ InsertHeader(k) \/ CommitSnapshot(k) \/ RollbackSnapshot(k)
    \/ \E r \in Restores : Restore(r) \/ RestoreFails(r)

\* Statements are answered: a transaction that can go on does, and ends.
Fairness ==
    /\ \A w \in Writers : WF_vars(EndWrite(w))
    /\ \A r \in Restores : WF_vars(Restore(r))

Spec == Init /\ [][Next]_vars /\ Fairness

-----------------------------------------------------------------------------
(* Properties *)

\* Every variable has its type.
TypeOK ==
    /\ grid \in Tiles
    /\ saved \in [Creators -> Snapshot]
    /\ lastAt \in Nat
    /\ wStage \in [Writers -> {"new", "wrote", "done"}]
    /\ wCell \in [Writers -> Cells \cup {0}]
    /\ wTile \in [Writers -> Looks \cup {Empty}]
    /\ cStage \in [Creators -> {"new", "header", "rows", "done"}]
    /\ cut \in [Creators -> Tiles]
    /\ createdAt \in [Creators -> Nat]
    /\ rStage \in [Restores -> {"new", "copy", "begin", "done"} \cup Replacing]
    /\ chosen \in [Restores -> Creators \cup {Nobody}]
    /\ copy \in [Restores -> Tiles]
    /\ toDelete \in [Restores -> SUBSET Cells]
    /\ deleted \in [Restores -> SUBSET Cells]
    /\ inserted \in [Restores -> SUBSET Cells]
    /\ seen \in [Restores -> Tiles]
    /\ reply \in [Restores -> {"none", "notFound", "failed", "ok", "mismatch"}]
    /\ fresh \in [Restores -> SUBSET Cells]

\* A restore replaces the region by what createSnapshot once saw: every cell ends with
\* its tile of that moment or, when it was empty then, with a tile that was placed
\* after the restore had begun to delete.  Nothing older survives, nothing is lost.
RestoreReplaces ==
    [][\A r \in Restores : CommitRestore(r) =>
         \A c \in Cells :
            \/ grid'[c] = cut[chosen[r]][c]
            \/ cut[chosen[r]][c] = Empty /\ c \in fresh[r]]_vars

\* A hash mismatch is never the snapshot's fault: a restore answers 409 only when a tile
\* was placed in the region, or another restore put one there, while it was replacing.
MismatchMeansInterference ==
    \A r \in Restores : reply[r] = "mismatch" => fresh[r] # {}

\* Every restore comes to an answer, whatever placements and other restores do.
RestoreEnds == \A r \in Restores : <>(rStage[r] = "done")
=============================================================================
