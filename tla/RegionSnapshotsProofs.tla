----------------------- MODULE RegionSnapshotsProofs -----------------------
(****************************************************************************)
(* Theorems about RegionSnapshots for every number of cells, players'       *)
(* changes, snapshots and restores.                                         *)
(****************************************************************************)
EXTENDS RegionSnapshots, TLAPS

\* What is in the tables of a creator is what it has read, and all of it.
WholeSnapshot(k) ==
    \/ saved[k] = NoSnapshot
    \/ /\ cStage[k] = "done"
       /\ saved[k].at >= 1
       /\ saved[k].hash = cut[k] /\ saved[k].rows = cut[k]

SnapshotsAreWhole ==
    \A k \in Creators : /\ WholeSnapshot(k)
                        /\ cStage[k] = "rows" => createdAt[k] >= 1

\* A restore that goes on has chosen a snapshot that is there ...
Chosen(r) == chosen[r] \in Creators /\ saved[chosen[r]] # NoSnapshot

HasChosen == \A r \in Restores :
    rStage[r] \in {"copy", "begin"} \cup Replacing => Chosen(r)

\* ... and has its tiles.
HasCopied == \A r \in Restores :
    rStage[r] \in {"begin"} \cup Replacing => copy[r] = cut[chosen[r]]

\* A row it will not have removed when its DELETE is over came after the DELETE began.
OldRowsGo == \A r \in Restores : rStage[r] \in Replacing =>
    \A c \in Cells : grid[c] # Empty => c \in toDelete[r] \cup deleted[r] \cup fresh[r]

DeleteIsOver == \A r \in Restores :
    rStage[r] \in {"insert", "commit"} => toDelete[r] = {}

\* At its end all rows of the snapshot are inserted, and it has read nothing else
\* unless somebody came in between.
ReadsItsOwn == \A r \in Restores : rStage[r] = "commit" =>
    /\ ToInsert(r) = {}
    /\ fresh[r] = {} => seen[r] = cut[chosen[r]]

\* A writer has written a row of the region.
WroteACell == \A w \in Writers : wStage[w] = "wrote" => wCell[w] \in Cells

SnapInv ==
    /\ TypeOK /\ WroteACell
    /\ SnapshotsAreWhole
    /\ HasChosen /\ HasCopied /\ OldRowsGo /\ DeleteIsOver /\ ReadsItsOwn
    /\ MismatchMeansInterference

-----------------------------------------------------------------------------
\* The empty region is a region.
LEMMA NoTilesType == NoTiles \in Tiles
BY DEF NoTiles, Tiles

\* Initially no snapshot is made and no restore under way.
LEMMA SnapInit == Init => SnapInv
<1> SUFFICES ASSUME Init PROVE SnapInv
  OBVIOUS
<1> USE SnapshotAssumption, NoTilesType DEF Init
<1>1. TypeOK /\ WroteACell
  BY DEF TypeOK, WroteACell, Snapshot, NoSnapshot, Replacing
<1>2. SnapshotsAreWhole
  BY DEF SnapshotsAreWhole, WholeSnapshot
<1>3. HasChosen /\ HasCopied /\ OldRowsGo /\ DeleteIsOver /\ ReadsItsOwn
  BY DEF HasChosen, HasCopied, OldRowsGo, DeleteIsOver, ReadsItsOwn, Replacing
<1>4. MismatchMeansInterference
  BY DEF MismatchMeansInterference
<1> QED
  BY <1>1, <1>2, <1>3, <1>4 DEF SnapInv

-----------------------------------------------------------------------------
(* The steps of the writers *)

\* A placement or deletion keeps the invariant.
LEMMA WriterStep ==
    ASSUME SnapInv, NEW w \in Writers,
           \/ EndWrite(w)
           \/ \E c \in Cells, t \in Looks \cup {Empty} : WriteRow(w, c, t)
    PROVE  SnapInv'
<1> USE DEF SnapInv, creatorVars, restoreVars, transaction
<1>1. CASE RollbackWrite(w) \/ \E c \in Cells, t \in Looks \cup {Empty} : WriteRow(w, c, t)
  <2>1. UNCHANGED <<grid, creatorVars, restoreVars, fresh>>
    BY <1>1 DEF RollbackWrite, WriteRow
  <2>2. TypeOK' /\ WroteACell'
    BY <1>1, <2>1 DEF TypeOK, WroteACell, RollbackWrite, EndWriter, WriteRow
  <2>3. SnapshotsAreWhole' /\ HasChosen' /\ HasCopied' /\ OldRowsGo' /\ DeleteIsOver'
    BY <2>1 DEF SnapshotsAreWhole, WholeSnapshot, HasChosen, Chosen, HasCopied, OldRowsGo,
                DeleteIsOver
  <2>4. ReadsItsOwn' /\ MismatchMeansInterference'
    BY <2>1 DEF ReadsItsOwn, ToInsert, MismatchMeansInterference
  <2> QED
    BY <2>2, <2>3, <2>4
<1>2. CASE CommitWrite(w)
  <2> DEFINE c == wCell[w]
  <2>1. /\ grid' = [grid EXCEPT ![c] = wTile[w]]
        /\ toDelete' = [r \in Restores |-> IF wTile[w] = Empty THEN toDelete[r] \ {c}
                                                               ELSE toDelete[r]]
        /\ fresh' = [r \in Restores |-> IF grid[c] = Empty /\ rStage[r] \in Replacing
                                          THEN fresh[r] \cup {c} ELSE fresh[r]]
        /\ UNCHANGED <<saved, lastAt, cStage, cut, createdAt, rStage, chosen,
                       copy, deleted, inserted, seen, reply>>
        /\ wStage[w] = "wrote"
        /\ wStage' = [wStage EXCEPT ![w] = "done"]
        /\ wCell' = [wCell EXCEPT ![w] = 0]
        /\ wTile' = [wTile EXCEPT ![w] = Empty]
    BY <1>2 DEF CommitWrite, EndWriter
  <2>2. /\ c \in Cells
        /\ grid \in [Cells -> Looks \cup {Empty}] /\ wTile[w] \in Looks \cup {Empty}
    BY <2>1 DEF TypeOK, Tiles, WroteACell
  <2> HIDE DEF c
  <2>3. TypeOK' /\ WroteACell'
    <3>1. grid' \in Tiles
      BY <2>1, <2>2 DEF Tiles
    <3>2. fresh' \in [Restores -> SUBSET Cells] /\ toDelete' \in [Restores -> SUBSET Cells]
      BY <2>1, <2>2 DEF TypeOK
    <3> QED
      BY <2>1, <3>1, <3>2 DEF TypeOK, WroteACell
  <2>4. SnapshotsAreWhole' /\ HasChosen' /\ HasCopied'
    BY <2>1 DEF SnapshotsAreWhole, WholeSnapshot, HasChosen, Chosen, HasCopied
  <2>5. OldRowsGo'
    BY <2>1, <2>2 DEF OldRowsGo, TypeOK
  <2>6. DeleteIsOver'
    BY <2>1 DEF DeleteIsOver, TypeOK
  <2>7. \A r \in Restores : fresh'[r] = {} => fresh[r] = {}
    BY <2>1
  <2>8. ReadsItsOwn' /\ MismatchMeansInterference'
    BY <2>1, <2>7 DEF ReadsItsOwn, ToInsert, MismatchMeansInterference
  <2> QED
    BY <2>3, <2>4, <2>5, <2>6, <2>8
<1> QED
  BY <1>1, <1>2 DEF EndWrite

-----------------------------------------------------------------------------
(* The steps of createSnapshot *)

\* So does every statement of a snapshot,
LEMMA CreatorStep ==
    ASSUME SnapInv, NEW k \in Creators,
           ReadRegion(k) \/ InsertHeader(k) \/ CommitSnapshot(k) \/ RollbackSnapshot(k)
    PROVE  SnapInv'
<1> USE DEF SnapInv, writerVars, restoreVars, transaction
<1>1. UNCHANGED <<grid, writerVars, restoreVars, fresh>>
  BY DEF ReadRegion, InsertHeader, CommitSnapshot, RollbackSnapshot
<1>2. TypeOK' /\ WroteACell'
  <2>1. cut' \in [Creators -> Tiles]
    BY NoTilesType DEF TypeOK, ReadRegion, InsertHeader, CommitSnapshot, RollbackSnapshot
  <2>2. /\ cStage' \in [Creators -> {"new", "header", "rows", "done"}]
        /\ lastAt' \in Nat /\ createdAt' \in [Creators -> Nat]
    BY DEF TypeOK, ReadRegion, InsertHeader, CommitSnapshot, RollbackSnapshot
  <2>3. saved' \in [Creators -> Snapshot]
    BY DEF TypeOK, Snapshot, ReadRegion, InsertHeader, CommitSnapshot, RollbackSnapshot
  <2> QED
    BY <1>1, <2>1, <2>2, <2>3 DEF TypeOK, WroteACell
<1>3. SnapshotsAreWhole'
  <2>1. CASE ReadRegion(k)
    BY <2>1 DEF ReadRegion, SnapshotsAreWhole, WholeSnapshot, TypeOK
  <2>2. CASE InsertHeader(k)
    BY <2>2 DEF InsertHeader, SnapshotsAreWhole, WholeSnapshot, TypeOK
  <2>3. CASE CommitSnapshot(k)
    BY <2>3 DEF CommitSnapshot, SnapshotsAreWhole, WholeSnapshot, TypeOK
  <2>4. CASE RollbackSnapshot(k)
    BY <2>4 DEF RollbackSnapshot, SnapshotsAreWhole, WholeSnapshot, TypeOK
  <2> QED
    BY <2>1, <2>2, <2>3, <2>4
\* What a restore has chosen is left alone.
<1>4. \A o \in Creators : saved[o] # NoSnapshot => saved'[o] = saved[o] /\ cut'[o] = cut[o]
  BY DEF ReadRegion, InsertHeader, CommitSnapshot, RollbackSnapshot, SnapshotsAreWhole,
         WholeSnapshot, TypeOK
<1>5. HasChosen' /\ HasCopied'
  BY <1>1, <1>4 DEF HasChosen, HasCopied, Chosen
<1>6. OldRowsGo' /\ DeleteIsOver' /\ MismatchMeansInterference'
  BY <1>1 DEF OldRowsGo, DeleteIsOver, MismatchMeansInterference
<1>7. ReadsItsOwn'
  BY <1>1, <1>4 DEF ReadsItsOwn, ToInsert, HasChosen, Chosen, Replacing
<1> QED
  BY <1>2, <1>3, <1>5, <1>6, <1>7

-----------------------------------------------------------------------------
(* The steps of restoreLatest *)

\* A call that ends without COMMIT leaves nothing but its answer.
LEMMA EndStep ==
    ASSUME SnapInv, NEW r \in Restores, NEW says \in {"failed", "notFound"},
           NEW S \in SUBSET Cells, toDelete' = [toDelete EXCEPT ![r] = S],
           Reply(r, says), UNCHANGED <<grid, writerVars, creatorVars, fresh>>
    PROVE  SnapInv'
<1> USE DEF SnapInv, writerVars, creatorVars, Reply
<1>1. TypeOK' /\ WroteACell'
  BY NoTilesType DEF TypeOK, WroteACell
<1>2. SnapshotsAreWhole'
  BY DEF SnapshotsAreWhole, WholeSnapshot
<1>3. \A o \in Restores : o # r =>
         /\ rStage'[o] = rStage[o] /\ copy'[o] = copy[o] /\ toDelete'[o] = toDelete[o]
         /\ deleted'[o] = deleted[o] /\ inserted'[o] = inserted[o] /\ seen'[o] = seen[o]
         /\ reply'[o] = reply[o] /\ chosen'[o] = chosen[o]
  BY DEF TypeOK
<1>4. rStage'[r] = "done" /\ reply'[r] # "mismatch"
  BY DEF TypeOK
<1>5. HasChosen' /\ HasCopied' /\ OldRowsGo' /\ DeleteIsOver'
  BY <1>3, <1>4 DEF HasChosen, HasCopied, Chosen, OldRowsGo, DeleteIsOver, Replacing
<1>6. ReadsItsOwn' /\ MismatchMeansInterference'
  BY <1>3, <1>4 DEF ReadsItsOwn, ToInsert, MismatchMeansInterference
<1> QED
  BY <1>1, <1>2, <1>5, <1>6

\* the choice of the latest snapshot,
LEMMA ReadLatestStep ==
    ASSUME SnapInv, NEW r \in Restores, ReadLatest(r)
    PROVE  SnapInv'
<1> USE DEF SnapInv, writerVars, creatorVars
<1>1. /\ toDelete' = [toDelete EXCEPT ![r] = toDelete[r]]
      /\ toDelete[r] \in SUBSET Cells
  BY DEF ReadLatest, TypeOK
<1>2. CASE \A k \in Creators : saved[k] = NoSnapshot
  BY <1>1, <1>2, EndStep DEF ReadLatest
<1>3. CASE ~ \A k \in Creators : saved[k] = NoSnapshot
  <2>1. PICK k \in Creators :
          /\ \A o \in Creators : saved[o].at <= saved[k].at
          /\ chosen' = [chosen EXCEPT ![r] = k]
          /\ rStage' = [rStage EXCEPT ![r] = "copy"]
          /\ UNCHANGED <<copy, deleted, inserted, seen, reply>>
    BY <1>3 DEF ReadLatest
  <2>2. UNCHANGED <<grid, writerVars, creatorVars, toDelete, fresh>>
    BY DEF ReadLatest
  <2>3. saved[k] # NoSnapshot
    <3>1. PICK o \in Creators : saved[o] # NoSnapshot
      BY <1>3
    <3>2. saved[o].at >= 1
      BY <3>1 DEF SnapshotsAreWhole, WholeSnapshot
    <3>3. saved[o].at \in Nat /\ saved[k].at \in Nat
      BY DEF TypeOK, Snapshot
    <3> QED
      BY <2>1, <3>2, <3>3 DEF NoSnapshot
  <2>4. TypeOK' /\ WroteACell'
    BY <2>1, <2>2 DEF TypeOK, WroteACell
  <2>5. SnapshotsAreWhole'
    BY <2>2 DEF SnapshotsAreWhole, WholeSnapshot
  <2>6. HasChosen' /\ HasCopied' /\ OldRowsGo' /\ DeleteIsOver'
    BY <2>1, <2>2, <2>3 DEF TypeOK, HasChosen, HasCopied, Chosen, OldRowsGo, DeleteIsOver,
                            Replacing
  <2>7. ReadsItsOwn' /\ MismatchMeansInterference'
    BY <2>1, <2>2 DEF TypeOK, ReadsItsOwn, ToInsert, MismatchMeansInterference
  <2> QED
    BY <2>4, <2>5, <2>6, <2>7
<1> QED
  BY <1>2, <1>3

\* each row that a restore deletes or inserts,
LEMMA RowStep ==
    ASSUME SnapInv, NEW r \in Restores, NEW c \in Cells,
           DeleteRow(r, c) \/ InsertRow(r, c)
    PROVE  SnapInv'
<1> USE DEF SnapInv, writerVars, creatorVars
<1>1. /\ UNCHANGED <<grid, writerVars, creatorVars, rStage, chosen, copy, seen, reply, fresh>>
      /\ rStage[r] # "commit"
  BY DEF DeleteRow, InsertRow
<1>2. \A o \in Restores : o # r => inserted'[o] = inserted[o]
  BY DEF DeleteRow, InsertRow, TypeOK
<1>3. TypeOK' /\ WroteACell'
  BY <1>1 DEF TypeOK, WroteACell, DeleteRow, InsertRow
<1>4. SnapshotsAreWhole' /\ HasChosen' /\ HasCopied'
  BY <1>1 DEF SnapshotsAreWhole, WholeSnapshot, HasChosen, Chosen, HasCopied
<1>5. OldRowsGo' /\ DeleteIsOver'
  BY <1>1 DEF OldRowsGo, DeleteIsOver, TypeOK, DeleteRow, InsertRow
<1>6. ReadsItsOwn' /\ MismatchMeansInterference'
  BY <1>1, <1>2 DEF ReadsItsOwn, ToInsert, MismatchMeansInterference
<1> QED
  BY <1>3, <1>4, <1>5, <1>6

\* CopyRows, and the two ends of the DELETE.
LEMMA StageStep ==
    ASSUME SnapInv, NEW r \in Restores,
           CopyRows(r) \/ BeginDelete(r) \/ EndDelete(r)
    PROVE  SnapInv'
<1> USE DEF SnapInv, writerVars, creatorVars, transaction
<1>1. /\ UNCHANGED <<grid, writerVars, creatorVars, chosen, deleted, inserted, seen,
                     reply, fresh>>
      /\ \A o \in Restores : o # r => /\ rStage'[o] = rStage[o]
                                      /\ copy'[o] = copy[o]
                                      /\ toDelete'[o] = toDelete[o]
      /\ rStage'[r] # "commit"
  BY DEF TypeOK, CopyRows, BeginDelete, EndDelete
<1>2. Chosen(r)
  BY DEF CopyRows, BeginDelete, EndDelete, HasChosen, Replacing
<1>3. TypeOK' /\ WroteACell'
  <2>1. copy' \in [Restores -> Tiles]
    BY <1>2 DEF TypeOK, Snapshot, Chosen, CopyRows, BeginDelete, EndDelete
  <2>2. /\ rStage' \in [Restores -> {"new", "copy", "begin", "done"} \cup Replacing]
        /\ toDelete' \in [Restores -> SUBSET Cells]
    BY DEF TypeOK, Replacing, CopyRows, BeginDelete, EndDelete
  <2> QED
    BY <1>1, <2>1, <2>2 DEF TypeOK, WroteACell
<1>4. SnapshotsAreWhole'
  BY <1>1 DEF SnapshotsAreWhole, WholeSnapshot
<1>5. HasChosen'
  BY <1>1, <1>2 DEF HasChosen, Chosen
<1>6. HasCopied'
  <2>1. saved[chosen[r]].rows = cut[chosen[r]]
    BY <1>2 DEF Chosen, SnapshotsAreWhole, WholeSnapshot
  <2>2. CASE CopyRows(r)
    BY <1>1, <2>1, <2>2 DEF HasCopied, CopyRows, TypeOK
  <2>3. CASE BeginDelete(r) \/ EndDelete(r)
    BY <1>1, <2>3 DEF HasCopied, BeginDelete, EndDelete, TypeOK, Replacing
  <2> QED
    BY <2>2, <2>3
<1>7. OldRowsGo' /\ DeleteIsOver'
  <2>1. CASE CopyRows(r)
    BY <1>1, <2>1 DEF OldRowsGo, DeleteIsOver, CopyRows, TypeOK, Replacing
  <2>2. CASE BeginDelete(r)
    BY <1>1, <2>2 DEF OldRowsGo, DeleteIsOver, BeginDelete, TypeOK, Replacing
  <2>3. CASE EndDelete(r)
    BY <1>1, <2>3 DEF OldRowsGo, DeleteIsOver, EndDelete, TypeOK, Replacing
  <2> QED
    BY <2>1, <2>2, <2>3
<1>8. ReadsItsOwn' /\ MismatchMeansInterference'
  BY <1>1 DEF ReadsItsOwn, ToInsert, MismatchMeansInterference
<1> QED
  BY <1>3, <1>4, <1>5, <1>6, <1>7, <1>8

\* what it reads back for the hash,
LEMMA ReadBackStep ==
    ASSUME SnapInv, NEW r \in Restores, ReadBack(r)
    PROVE  SnapInv'
<1> USE DEF SnapInv, writerVars, creatorVars
<1>1. /\ UNCHANGED <<grid, writerVars, creatorVars, chosen, copy, toDelete, deleted,
                     inserted, reply, fresh>>
      /\ rStage[r] = "insert" /\ ToInsert(r) = {}
      /\ rStage' = [rStage EXCEPT ![r] = "commit"]
  BY DEF ReadBack
<1>2. /\ copy[r] = cut[chosen[r]] /\ copy[r] \in Tiles /\ grid \in Tiles
      /\ toDelete[r] = {}
  BY <1>1 DEF HasCopied, DeleteIsOver, TypeOK, Replacing
<1>3. seen' = [seen EXCEPT ![r] =
                  [c \in Cells |-> IF c \in inserted[r] THEN copy[r][c]
                                   ELSE IF c \in deleted[r] THEN Empty ELSE grid[c]]]
  BY DEF ReadBack
<1>4. TypeOK' /\ WroteACell'
  BY <1>1, <1>2, <1>3 DEF TypeOK, WroteACell, Tiles, Replacing
<1>5. SnapshotsAreWhole'
  BY <1>1 DEF SnapshotsAreWhole, WholeSnapshot
<1>6. HasChosen' /\ HasCopied' /\ OldRowsGo' /\ DeleteIsOver'
  BY <1>1 DEF TypeOK, HasChosen, HasCopied, Chosen, OldRowsGo, DeleteIsOver, Replacing
<1>7. ReadsItsOwn'
  <2>1. ASSUME fresh[r] = {} PROVE seen'[r] = cut[chosen[r]]
    <3>1. \A c \in Cells : c \notin inserted[r] => copy[r][c] = Empty
      BY <1>1 DEF ToInsert
    <3>2. \A c \in Cells : c \notin deleted[r] => grid[c] = Empty
      BY <1>1, <1>2, <2>1 DEF OldRowsGo, Replacing
    <3>3. \A c \in Cells : seen'[r][c] = copy[r][c]
      BY <1>3, <3>1, <3>2 DEF TypeOK
    <3>4. seen'[r] \in Tiles
      BY <1>4 DEF TypeOK
    <3> QED
      BY <1>2, <3>3, <3>4 DEF Tiles
  <2>2. \A o \in Restores : o # r => rStage'[o] = rStage[o] /\ seen'[o] = seen[o]
    BY <1>1, <1>3 DEF TypeOK
  <2> QED
    BY <1>1, <2>1, <2>2 DEF ReadsItsOwn, ToInsert
<1>8. MismatchMeansInterference'
  BY <1>1 DEF MismatchMeansInterference
<1> QED
  BY <1>4, <1>5, <1>6, <1>7, <1>8

\* its commit, after which the region has what it inserted,
LEMMA CommitRestoreStep ==
    ASSUME SnapInv, NEW r \in Restores, CommitRestore(r)
    PROVE  SnapInv'
<1> USE DEF SnapInv, writerVars, creatorVars
<1>1. /\ rStage[r] = "commit"
      /\ UNCHANGED <<writerVars, creatorVars>>
      /\ grid' = [c \in Cells |-> IF c \in inserted[r] THEN copy[r][c]
                                  ELSE IF c \in deleted[r] THEN Empty ELSE grid[c]]
      /\ toDelete' = [o \in Restores |-> IF o = r THEN {} ELSE toDelete[o] \ deleted[r]]
      /\ fresh' = [o \in Restores |-> IF o # r /\ rStage[o] \in Replacing
                                        THEN fresh[o] \cup inserted[r] ELSE fresh[o]]
  BY DEF CommitRestore
<1>2. PICK says \in {"ok", "mismatch", "failed"} :
         Reply(r, says) /\ (says = "mismatch" => Verdict(r) = "mismatch")
  BY DEF CommitRestore, Verdict
<1> USE DEF Reply
<1>3. \A o \in Restores : o # r =>
         /\ rStage'[o] = rStage[o] /\ copy'[o] = copy[o] /\ reply'[o] = reply[o]
         /\ chosen'[o] = chosen[o]
         /\ deleted'[o] = deleted[o] /\ inserted'[o] = inserted[o] /\ seen'[o] = seen[o]
  BY <1>2 DEF TypeOK
<1>4. rStage'[r] = "done" /\ reply'[r] = says
  BY <1>2 DEF TypeOK
<1>5. TypeOK' /\ WroteACell'
  <2>1. grid' \in Tiles
    BY <1>1 DEF TypeOK, Tiles
  <2>2. /\ toDelete' \in [Restores -> SUBSET Cells]
        /\ fresh' \in [Restores -> SUBSET Cells]
    BY <1>1 DEF TypeOK
  <2> QED
    BY <1>1, <1>2, <2>1, <2>2, NoTilesType DEF TypeOK, WroteACell
<1>6. SnapshotsAreWhole'
  BY <1>1 DEF SnapshotsAreWhole, WholeSnapshot
<1>7. HasChosen' /\ HasCopied' /\ DeleteIsOver'
  BY <1>1, <1>3, <1>4 DEF HasChosen, HasCopied, Chosen, DeleteIsOver, Replacing
<1>8. OldRowsGo'
  BY <1>1, <1>3, <1>4 DEF OldRowsGo, TypeOK, Replacing
<1>9. \A o \in Restores : fresh'[o] = {} => fresh[o] = {}
  BY <1>1
<1>10. ReadsItsOwn'
  BY <1>1, <1>3, <1>4, <1>9 DEF ReadsItsOwn, ToInsert
<1>11. MismatchMeansInterference'
  <2>1. says = "mismatch" => fresh'[r] # {}
    <3>1. Chosen(r)
      BY <1>1 DEF HasChosen, Replacing
    <3>2. saved[chosen[r]].hash = cut[chosen[r]]
      BY <3>1 DEF Chosen, SnapshotsAreWhole, WholeSnapshot
    <3> QED
      BY <1>1, <1>2, <1>9, <3>2 DEF Verdict, ReadsItsOwn
  <2> QED
    BY <1>3, <1>4, <1>9, <2>1 DEF MismatchMeansInterference
<1> QED
  BY <1>5, <1>6, <1>7, <1>8, <1>10, <1>11

-----------------------------------------------------------------------------
\* and its failure, after which nothing of it is left.
LEMMA RollbackStep ==
    ASSUME SnapInv, NEW r \in Restores, Rollback(r)
    PROVE  SnapInv'
<1>1. {} \in SUBSET Cells /\ "failed" \in {"failed", "notFound"}
  OBVIOUS
<1>2. /\ Reply(r, "failed") /\ toDelete' = [toDelete EXCEPT ![r] = {}]
      /\ UNCHANGED <<grid, writerVars, creatorVars, fresh>>
  BY DEF Rollback
<1> QED
  BY <1>1, <1>2, EndStep

\* Every statement of a restore keeps the invariant.
LEMMA RestoreStep ==
    ASSUME SnapInv, NEW r \in Restores, Restore(r)
    PROVE  SnapInv'
<1>1. CASE \E c \in Cells : DeleteRow(r, c) \/ InsertRow(r, c)
  BY <1>1, RowStep
<1>2. CASE (\E c \in Cells : InsertConflict(r, c)) \/ DeadlockVictim(r)
  BY <1>2, RollbackStep DEF InsertConflict, DeadlockVictim
<1>3. CASE ReadLatest(r) \/ CopyRows(r) \/ BeginDelete(r) \/ EndDelete(r)
  BY <1>3, ReadLatestStep, StageStep
<1>4. CASE ReadBack(r) \/ CommitRestore(r)
  BY <1>4, ReadBackStep, CommitRestoreStep
<1> QED
  BY <1>1, <1>2, <1>3, <1>4 DEF Restore

\* Every step keeps it.
LEMMA SnapStep == SnapInv /\ [Next]_vars => SnapInv'
<1> SUFFICES ASSUME SnapInv, [Next]_vars PROVE SnapInv'
  OBVIOUS
<1>1. CASE Next
  BY <1>1, WriterStep, CreatorStep, RestoreStep, RollbackStep DEF Next, RestoreFails
<1>2. CASE UNCHANGED vars
  BY <1>2 DEF vars, writerVars, creatorVars, restoreVars, transaction, SnapInv, TypeOK,
              WroteACell, SnapshotsAreWhole, WholeSnapshot, HasChosen, Chosen, HasCopied,
              OldRowsGo, DeleteIsOver, ReadsItsOwn, ToInsert, MismatchMeansInterference
<1> QED
  BY <1>1, <1>2

\* It holds of every reachable state.
THEOREM SnapInvariant == Spec => []SnapInv
BY SnapInit, SnapStep, PTL DEF Spec

\* Every variable of the snapshots keeps its type.
THEOREM SnapshotTypeCorrect == Spec => []TypeOK
<1>1. SnapInv => TypeOK
  BY DEF SnapInv
<1> QED
  BY <1>1, SnapInvariant, PTL

\* A restore that answers 409 was interfered with; the snapshot was whole.
THEOREM MismatchTheorem == Spec => []MismatchMeansInterference
<1>1. SnapInv => MismatchMeansInterference
  BY DEF SnapInv
<1> QED
  BY <1>1, SnapInvariant, PTL

\* A restore that commits leaves the region as createSnapshot saw it, but for tiles
\* that were placed while it was replacing.
THEOREM RestoreTheorem == Spec => RestoreReplaces
<1>1. ASSUME SnapInv, NEW r \in Restores, CommitRestore(r), NEW c \in Cells
      PROVE  \/ grid'[c] = cut[chosen[r]][c]
             \/ cut[chosen[r]][c] = Empty /\ c \in fresh[r]
  <2> USE <1>1 DEF SnapInv
  <2>1. /\ rStage[r] = "commit"
        /\ grid'[c] = IF c \in inserted[r] THEN copy[r][c]
                      ELSE IF c \in deleted[r] THEN Empty ELSE grid[c]
    BY DEF CommitRestore
  <2>2. copy[r] = cut[chosen[r]] /\ toDelete[r] = {} /\ ToInsert(r) = {}
    BY <2>1 DEF HasCopied, DeleteIsOver, ReadsItsOwn, Replacing
  <2>3. c \notin inserted[r] => copy[r][c] = Empty
    BY <2>2 DEF ToInsert
  <2>4. grid[c] # Empty => c \in deleted[r] \cup fresh[r]
    BY <2>1, <2>2 DEF OldRowsGo, Replacing
  <2> QED
    BY <2>1, <2>2, <2>3, <2>4
<1>2. SnapInv /\ [Next]_vars =>
       [\A r \in Restores : CommitRestore(r) =>
          \A c \in Cells :
             \/ grid'[c] = cut[chosen[r]][c]
             \/ cut[chosen[r]][c] = Empty /\ c \in fresh[r]]_vars
  BY <1>1
<1> QED
  BY <1>2, SnapInvariant, PTL DEF Spec, RestoreReplaces
=============================================================================
