------------------------ MODULE PlacementStoreProofs ------------------------
(****************************************************************************)
(* Theorems about PlacementStore for every set of requests, jobs, players,  *)
(* cells and commands, and every length of the windows.                     *)
(****************************************************************************)
EXTENDS PlacementStore, FiniteSetTheorems, TLAPS

-----------------------------------------------------------------------------
(* Types *)

\* The input of a request, and what is made of it, have their types.
LEMMA JobFacts ==
    ASSUME TypeOK, NEW r \in Requests
    PROVE  /\ job[r] \in JobType
           /\ Identity(r) \in Identities
           /\ RequestHash(r) \in Hashes
  BY ParameterAssumption DEF TypeOK, JobType, Identity, RequestHash, Identities, Hashes

\* A ledger row a request writes is a row.
LEMMA LedgerRowType ==
    ASSUME TypeOK, NEW r \in Requests,
           NEW outcome \in {"pending", "applied"}, NEW id \in Nat
    PROVE  LedgerRow(r, outcome, id) \in Row
  BY JobFacts, ParameterAssumption DEF TypeOK, LedgerRow, Row

\* Tiles and NoTile have a number as their id, rows have one too.
LEMMA IdFacts ==
    /\ \A t \in Tile \cup {NoTile} : t.id \in Nat
    /\ \A w \in Row : w.id \in Nat /\ w # NoRow
    /\ \A t \in Tile : t # NoTile
  BY DEF Tile, NoTile, Row, NoRow

\* Initially every variable has its type.
LEMMA TypeInit == FoundedInit => TypeOK
<1> SUFFICES ASSUME FoundedInit PROVE TypeOK
  OBVIOUS
<1> USE DEF FoundedInit, IdleInit
<1>1. tiles \in [Cells -> Tile \cup {NoTile}]
  BY DEF Tile
<1>2. deltas \in Seq(Delta)
  <2>1. PICK c \in Cells, a \in Actors, l \in Looks :
           deltas = << [version |-> 1, cell |-> c, op |-> "upsert",
                        owner |-> a, look |-> l] >>
    OBVIOUS
  <2>2. [version |-> 1, cell |-> c, op |-> "upsert", owner |-> a, look |-> l] \in Delta
    BY DEF Delta
  <2> QED
    BY <2>1, <2>2
<1>3. answer \in [Requests -> Answer]
  BY DEF Answer, NoAnswer, Replies
<1> QED
  BY <1>1, <1>2, <1>3 DEF TypeOK, Stages

\* The end of a call keeps the types, whatever it replies.
LEMMA ReplyType ==
    ASSUME TypeOK, NEW r \in Requests, NEW says \in Replies, NEW id \in Nat,
           Reply(r, says, id)
    PROVE  /\ pc' \in [Requests -> Stages]
           /\ answer' \in [Requests -> Answer]
           /\ tile' \in [Requests -> Tile \cup {NoTile}]
           /\ ver' \in [Requests -> Nat]
           /\ row' \in [Requests -> Row \cup {NoRow}]
  BY DEF TypeOK, Reply, Stages, Answer

\* Going on to a stage keeps the type of pc.
LEMMA GoToType ==
    ASSUME TypeOK, NEW r \in Requests, NEW stage \in Stages, GoTo(r, stage)
    PROVE  pc' \in [Requests -> Stages]
  BY DEF TypeOK, GoTo

\* Every step keeps the types.
LEMMA TypeNext == TypeOK /\ [Next]_vars => TypeOK'
<1> SUFFICES ASSUME TypeOK, [Next]_vars PROVE TypeOK'
  OBVIOUS
<1> USE DEF tables, locals
<1>1. ASSUME NEW r \in Requests, Begin(r) PROVE TypeOK'
  <2>1. clock - ServerLag \in Nat
    BY <1>1, ParameterAssumption DEF Begin, TypeOK
  <2> QED
    BY <1>1, <2>1, GoToType DEF Begin, TypeOK, Stages
<1>2. ASSUME NEW r \in Requests, SelectCommandForUpdate(r) PROVE TypeOK'
  <2> DEFINE found == ledger[Identity(r)]
  <2>0. found \in Row \cup {NoRow}
    BY JobFacts DEF TypeOK
  <2>1. CASE found # NoRow /\ found.expires > now[r]
    <3>1. found.id \in Nat
      BY <2>0, <2>1, IdFacts
    <3>2. MapLedgerReplay(r)
      BY <1>2, <2>0, <2>1 DEF SelectCommandForUpdate, TypeOK, Row
    <3>3. \/ Reply(r, "mismatch", 0)
          \/ Reply(r, "replayed", found.id)
      BY <3>2 DEF MapLedgerReplay
    <3>4. "mismatch" \in Replies /\ "replayed" \in Replies
      BY DEF Replies
    <3> QED
      BY <1>2, <3>1, <3>3, <3>4, ReplyType DEF SelectCommandForUpdate, TypeOK
  <2>2. CASE ~ (found # NoRow /\ found.expires > now[r])
    <3>1. /\ GoTo(r, "updatePending") \/ GoTo(r, "insertPending")
          /\ UNCHANGED <<tile, ver, row, answer>>
      BY <1>2, <2>2 DEF SelectCommandForUpdate
    <3>2. pc' \in [Requests -> Stages]
      BY <3>1, GoToType DEF Stages
    <3> QED
      BY <1>2, <3>1, <3>2 DEF SelectCommandForUpdate, TypeOK
  <2> QED
    BY <2>1, <2>2
<1>3. ASSUME NEW r \in Requests, WritePending(r), UNCHANGED <<tables, clock, job, now, tile, ver, answer>>
      PROVE TypeOK'
  BY <1>3, LedgerRowType DEF WritePending, GoTo, TypeOK, Stages
<1>4. ASSUME NEW r \in Requests, UpdatePending(r) PROVE TypeOK'
  BY <1>3, <1>4 DEF UpdatePending
<1>5. ASSUME NEW r \in Requests, InsertPending(r) PROVE TypeOK'
  <2>1. CASE ledger[Identity(r)] = NoRow
    BY <1>3, <1>5, <2>1 DEF InsertPending
  <2>2. CASE ledger[Identity(r)] # NoRow
    BY <1>5, <2>2, ReplyType DEF InsertPending, TypeOK, Replies
  <2> QED
    BY <2>1, <2>2
<1>6. ASSUME NEW r \in Requests, InsertTile(r) PROVE TypeOK'
  <2>1. NewTile(r) \in Tile
    BY JobFacts, ParameterAssumption DEF NewTile, Tile, JobType, TypeOK
  <2>2. CASE tiles[job[r].cell] = NoTile
    <3>1. pc' \in [Requests -> Stages]
      BY <1>6, <2>2, GoToType DEF InsertTile, Stages
    <3>2. tile' \in [Requests -> Tile \cup {NoTile}]
      BY <1>6, <2>1, <2>2 DEF InsertTile, TypeOK
    <3> QED
      BY <1>6, <2>2, <3>1, <3>2 DEF InsertTile, TypeOK
  <2>3. CASE tiles[job[r].cell] # NoTile
    BY <1>6, <2>3, ReplyType DEF InsertTile, TypeOK, Replies
  <2> QED
    BY <2>2, <2>3
<1>7. ASSUME NEW r \in Requests, SelectVersionForUpdate(r) PROVE TypeOK'
  BY <1>7 DEF SelectVersionForUpdate, GoTo, TypeOK, Stages
<1>8. ASSUME NEW r \in Requests, UpsertVersion(r) PROVE TypeOK'
  BY <1>8 DEF UpsertVersion, GoTo, TypeOK, Stages
<1>9. ASSUME NEW r \in Requests, InsertDelta(r) PROVE TypeOK'
  BY <1>9 DEF InsertDelta, GoTo, TypeOK, Stages
<1>10. ASSUME NEW r \in Requests, SettleApplied(r) PROVE TypeOK'
  <2>1. tile[r].id \in Nat
    BY IdFacts DEF TypeOK
  <2> QED
    BY <1>10, <2>1, LedgerRowType DEF SettleApplied, GoTo, TypeOK, Stages
<1>11. ASSUME NEW r \in Requests, TouchTile(r) PROVE TypeOK'
  <2>1. job[r].cell \in Cells /\ job[r].look \in Looks
    BY JobFacts DEF JobType
  <2>2. Matches(r) => /\ tiles[job[r].cell] \in Tile
                      /\ Repainted(tiles[job[r].cell], job[r].look) \in Tile
    BY <2>1 DEF Matches, Repainted, TypeOK, Tile
  <2>3. tile' \in [Requests -> Tile \cup {NoTile}]
    BY <1>11, <2>2 DEF TouchTile, TypeOK
  <2> QED
    BY <1>11, <2>3 DEF TouchTile, GoTo, TypeOK, Stages
<1>12. ASSUME NEW r \in Requests, Explain(r) PROVE TypeOK'
  <2>1. \E says \in Replies : Reply(r, says, 0)
    BY <1>12 DEF Explain, Replies
  <2> QED
    BY <1>12, <2>1, ReplyType DEF Explain, TypeOK
<1>13. ASSUME NEW r \in Requests, Commit(r) PROVE TypeOK'
  <2>1. tile[r].id \in Nat
    BY IdFacts DEF TypeOK
  <2>2. CommittedDelta(r) \in Delta
    BY JobFacts DEF CommittedDelta, Delta, JobType, TypeOK
  <2>3. \E says \in Replies, id \in Nat : Reply(r, says, id)
    <3>1. job[r].kind \in {"place", "edit", "delete"}
      BY JobFacts DEF JobType
    <3> QED
      BY <1>13, <2>1, <3>1 DEF Commit, Done, Replies
  <2>4. ledger' \in [Identities -> Row \cup {NoRow}]
    BY <1>13 DEF Commit, TypeOK
  <2>5. tiles' \in [Cells -> Tile \cup {NoTile}]
    BY <1>13 DEF Commit, TypeOK
  <2>6. deltas' \in Seq(Delta)
    BY <1>13, <2>2 DEF Commit, TypeOK
  <2> QED
    BY <1>13, <2>3, <2>4, <2>5, <2>6, ReplyType DEF Commit, TypeOK
<1>14. ASSUME NEW r \in Requests, Abort(r) PROVE TypeOK'
  BY <1>14, ReplyType DEF Abort, TypeOK, Replies
<1>15. CASE PurgeExpiredPlacementCommandLedger
  BY <1>15 DEF PurgeExpiredPlacementCommandLedger, TypeOK
<1>16. CASE Tick
  BY <1>16 DEF Tick, TypeOK
<1>17. CASE UNCHANGED vars
  BY <1>17 DEF vars, TypeOK
<1> QED
  BY <1>1, <1>2, <1>4, <1>5, <1>6, <1>7, <1>8, <1>9, <1>10,
     <1>11, <1>12, <1>13, <1>14, <1>15, <1>16, <1>17
     DEF Next, Statement, Finished

\* Type correctness: whatever the requests do, every table and every variable of
\* a transaction keeps its type.
THEOREM TypeCorrect == FoundedSpec => []TypeOK
<1>1. FoundedInit => TypeOK
  BY TypeInit
<1>2. TypeOK /\ [Next]_vars => TypeOK'
  BY TypeNext
<1> QED
  BY <1>1, <1>2, PTL DEF FoundedSpec

-----------------------------------------------------------------------------
(* The stages of a call *)

\* A request is in a statement of insertTile only if it places, and in one of the
\* two others only if it does not.
OnlyPlacing == {"lookup", "updatePending", "insertPending", "insertTile"}
StagesByKind ==
    \A r \in Requests : /\ pc[r] \in OnlyPlacing => job[r].kind = "place"
                        /\ pc[r] = "touch" => job[r].kind # "place"

\* Initially no request is in any stage of a transaction.
LEMMA StagesInit == FoundedInit => StagesByKind
  BY DEF FoundedInit, IdleInit, StagesByKind, OnlyPlacing

\* Every step keeps the stages of the calls apart.
LEMMA StagesNext == TypeOK /\ StagesByKind /\ [Next]_vars => StagesByKind'
<1> SUFFICES ASSUME TypeOK, StagesByKind, [Next]_vars PROVE StagesByKind'
  OBVIOUS
<1> USE DEF tables, locals, OnlyPlacing, StagesByKind
<1>1. ASSUME NEW r \in Requests, Begin(r) PROVE StagesByKind'
  BY <1>1 DEF Begin, GoTo, TypeOK
<1>2. ASSUME NEW r \in Requests, Statement(r) \/ Abort(r) PROVE StagesByKind'
  <2>1. job' = job
    BY <1>2 DEF Statement, Abort, SelectCommandForUpdate, UpdatePending, InsertPending,
       InsertTile, SelectVersionForUpdate, UpsertVersion, InsertDelta, SettleApplied,
       Commit, TouchTile, Explain
  <2>2. \/ pc' = [pc EXCEPT ![r] = pc'[r]] /\ pc'[r] \notin OnlyPlacing \cup {"touch"}
        \/ pc' = [pc EXCEPT ![r] = pc'[r]] /\ pc[r] \in OnlyPlacing /\ pc'[r] # "touch"
    <3>1. CASE SelectCommandForUpdate(r)
      BY <3>1 DEF SelectCommandForUpdate, MapLedgerReplay, Reply, GoTo, TypeOK
    <3>2. CASE UpdatePending(r) \/ InsertPending(r) \/ InsertTile(r)
      BY <3>2 DEF UpdatePending, InsertPending, InsertTile, WritePending, Reply, GoTo,
                  TypeOK
    <3>3. CASE SelectVersionForUpdate(r) \/ UpsertVersion(r) \/ InsertDelta(r)
      BY <3>3 DEF SelectVersionForUpdate, UpsertVersion, InsertDelta, GoTo, TypeOK
    <3>4. CASE SettleApplied(r) \/ TouchTile(r)
      BY <3>4 DEF SettleApplied, TouchTile, GoTo, TypeOK
    <3>5. CASE Commit(r) \/ Explain(r) \/ Abort(r)
      BY <3>5 DEF Commit, Explain, Abort, Reply, TypeOK
    <3> QED
      BY <1>2, <3>1, <3>2, <3>3, <3>4, <3>5 DEF Statement
  <2> QED
    BY <2>1, <2>2 DEF TypeOK
<1>3. CASE PurgeExpiredPlacementCommandLedger \/ Tick \/ UNCHANGED vars
  BY <1>3 DEF PurgeExpiredPlacementCommandLedger, Tick, vars
<1> QED
  BY <1>1, <1>2, <1>3 DEF Next, Finished

-----------------------------------------------------------------------------
(* The row locks *)

Holding == {"readVersion", "writeVersion", "logDelta", "settle", "commit"}

\* What a statement that is not blocked has found free.
IdentityFree(r) ==
    \A o \in Requests \ {r} : ~ (HoldsIdentity(o) /\ Identity(o) = Identity(r))
CellFree(r) == \A o \in Requests \ {r} : ~ (HoldsCell(o) /\ job[o].cell = job[r].cell)
VersionFree(r) == \A o \in Requests \ {r} : ~ HoldsVersion(o)

\* A request that nobody blocks finds free what its statement needs.
LEMMA UnblockedIsFree ==
    ASSUME NEW r \in Requests, Unblocked(r)
    PROVE  /\ NeedsIdentity(r) => IdentityFree(r)
           /\ NeedsCell(r) => CellFree(r)
           /\ NeedsVersion(r) => VersionFree(r)
  BY DEF Unblocked, Blocks, IdentityFree, CellFree, VersionFree

\* Initially no request holds a lock.
LEMMA LocksInit == FoundedInit => LocksHold
  BY DEF FoundedInit, IdleInit, LocksHold, VersionLock, CellLock, CellAsFound,
         Numbered, HoldsCell

\* A step that leaves the tables alone and after which its request holds neither a
\* cell nor a version disturbs no lock.
LEMMA QuietStep ==
    ASSUME TypeOK, LocksHold, NEW r \in Requests,
           NEW stage \in Stages \ Holding,
           pc' = [pc EXCEPT ![r] = stage],
           UNCHANGED <<tiles, version, job>>,
           \A o \in Requests \ {r} : tile'[o] = tile[o] /\ ver'[o] = ver[o]
    PROVE  LocksHold'
<1>1. /\ pc'[r] = stage
      /\ \A o \in Requests \ {r} : pc'[o] = pc[o]
  BY DEF TypeOK
<1>2. \A o \in Requests : (Numbered(o)' \/ HoldsCell(o)') =>
          /\ o # r /\ pc'[o] = pc[o]
          /\ tile'[o] = tile[o] /\ ver'[o] = ver[o]
  BY <1>1 DEF Numbered, HoldsCell, Holding
<1>3. VersionLock'
  BY <1>2 DEF LocksHold, VersionLock, Numbered
<1>4. CellLock'
  BY <1>2 DEF LocksHold, CellLock, HoldsCell
<1>5. CellAsFound'
  BY <1>2 DEF LocksHold, CellAsFound, HoldsCell
<1> QED
  BY <1>3, <1>4, <1>5 DEF LocksHold

\* The end of a call is such a step when it commits nothing to the tables.
LEMMA QuietReply ==
    ASSUME TypeOK, LocksHold, NEW r \in Requests, NEW says, NEW id,
           Reply(r, says, id), UNCHANGED <<tiles, version, job>>
    PROVE  LocksHold'
  BY QuietStep DEF Reply, TypeOK, Stages, Holding

\* A step from one statement to the next of a transaction that has its version.
LEMMA NumberedStep ==
    ASSUME TypeOK, LocksHold, NEW r \in Requests, Numbered(r),
           NEW stage \in {"logDelta", "settle", "commit"},
           pc' = [pc EXCEPT ![r] = stage],
           UNCHANGED <<tiles, version, job, tile, ver>>
    PROVE  LocksHold'
<1>1. \A o \in Requests : /\ Numbered(o)' => Numbered(o)
                          /\ HoldsCell(o)' => HoldsCell(o)
  BY DEF TypeOK, Numbered, HoldsCell
<1> QED
  BY <1>1 DEF LocksHold, VersionLock, CellLock, CellAsFound

\* A transaction that has written a tile nobody else was writing.
LEMMA CellTaken ==
    ASSUME TypeOK, LocksHold, NEW r \in Requests, CellFree(r),
           NEW t \in Tile,
           IF job[r].kind = "place"
             THEN tiles[job[r].cell] = NoTile
             ELSE /\ tiles[job[r].cell] # NoTile
                  /\ tiles[job[r].cell].owner = job[r].actor,
           job[r].kind # "delete" => t.owner = job[r].actor /\ t.look = job[r].look,
           tile' = [tile EXCEPT ![r] = t],
           pc' = [pc EXCEPT ![r] = "readVersion"],
           UNCHANGED <<tiles, version, job, ver>>
    PROVE  LocksHold'
<1>1. \A o \in Requests : Numbered(o)' => Numbered(o)
  BY DEF TypeOK, Numbered
<1>2. /\ tile'[r] = t
      /\ \A o \in Requests \ {r} : /\ tile'[o] = tile[o]
                                   /\ HoldsCell(o)' => HoldsCell(o)
  BY DEF TypeOK, HoldsCell
<1>3. \A o \in Requests \ {r} : HoldsCell(o) => job[o].cell # job[r].cell
  BY DEF CellFree
<1>4. VersionLock'
  BY <1>1 DEF LocksHold, VersionLock
<1>5. CellLock'
  BY <1>2, <1>3 DEF LocksHold, CellLock
<1>6. CellAsFound'
  BY <1>2, IdFacts DEF LocksHold, CellAsFound
<1> QED
  BY <1>4, <1>5, <1>6 DEF LocksHold

\* Every step keeps the locks.
LEMMA LocksNext == TypeOK /\ StagesByKind /\ LocksHold /\ [Next]_vars => LocksHold'
<1> SUFFICES ASSUME TypeOK, StagesByKind, LocksHold, [Next]_vars PROVE LocksHold'
  OBVIOUS
<1> USE DEF tables, locals
<1>1. ASSUME NEW r \in Requests, Begin(r) PROVE LocksHold'
  BY <1>1, QuietStep DEF Begin, GoTo, Stages, Holding
<1>2. ASSUME NEW r \in Requests, SelectCommandForUpdate(r) PROVE LocksHold'
  <2>1. CASE MapLedgerReplay(r)
    BY <1>2, <2>1, QuietReply DEF SelectCommandForUpdate, MapLedgerReplay
  <2>2. CASE GoTo(r, "updatePending") /\ UNCHANGED <<tile, ver>>
    BY <1>2, <2>2, QuietStep DEF SelectCommandForUpdate, GoTo, Stages, Holding
  <2>3. CASE GoTo(r, "insertPending") /\ UNCHANGED <<tile, ver>>
    BY <1>2, <2>3, QuietStep DEF SelectCommandForUpdate, GoTo, Stages, Holding
  <2> QED
    BY <1>2, <2>1, <2>2, <2>3 DEF SelectCommandForUpdate
<1>3. ASSUME NEW r \in Requests, UpdatePending(r) PROVE LocksHold'
  BY <1>3, QuietStep DEF UpdatePending, WritePending, GoTo, Stages, Holding
<1>4. ASSUME NEW r \in Requests, InsertPending(r) PROVE LocksHold'
  <2>1. CASE ledger[Identity(r)] = NoRow
    BY <1>4, <2>1, QuietStep DEF InsertPending, WritePending, GoTo, Stages, Holding
  <2>2. CASE ledger[Identity(r)] # NoRow
    BY <1>4, <2>2, QuietReply DEF InsertPending
  <2> QED
    BY <2>1, <2>2
<1>5. ASSUME NEW r \in Requests, InsertTile(r) PROVE LocksHold'
  <2>1. CASE tiles[job[r].cell] = NoTile
    <3>1. NewTile(r) \in Tile
      BY JobFacts, ParameterAssumption DEF NewTile, Tile, JobType, TypeOK
    <3>2. NewTile(r).owner = job[r].actor /\ NewTile(r).look = job[r].look
      BY DEF NewTile
    <3>3. job[r].kind = "place"
      <4>1. pc[r] = "insertTile"
        BY <1>5 DEF InsertTile
      <4> QED
        BY <4>1 DEF StagesByKind, OnlyPlacing
    <3> QED
      BY <1>5, <2>1, <3>1, <3>2, <3>3, CellTaken, UnblockedIsFree
         DEF InsertTile, GoTo, NeedsCell
  <2>2. CASE tiles[job[r].cell] # NoTile
    BY <1>5, <2>2, QuietReply DEF InsertTile
  <2> QED
    BY <2>1, <2>2
<1>6. ASSUME NEW r \in Requests, SelectVersionForUpdate(r) PROVE LocksHold'
  <2>1. VersionFree(r)
    BY <1>6, UnblockedIsFree
       DEF SelectVersionForUpdate, LocksHold, VersionLock, NeedsVersion
  <2>2. \A o \in Requests \ {r} : ~ Numbered(o)
    BY <2>1 DEF VersionFree, HoldsVersion, LocksHold, VersionLock, Numbered, TypeOK
  <2>3. \A o \in Requests : /\ Numbered(o)' => o = r
                            /\ HoldsCell(o)' => HoldsCell(o)
    BY <1>6, <2>2 DEF SelectVersionForUpdate, GoTo, Numbered, HoldsCell, TypeOK
  <2>4. VersionLock'
    BY <1>6, <2>3 DEF SelectVersionForUpdate, LocksHold, VersionLock, TypeOK
  <2> QED
    BY <1>6, <2>3, <2>4 DEF SelectVersionForUpdate, LocksHold, CellLock, CellAsFound
<1>7. ASSUME NEW r \in Requests, UpsertVersion(r) PROVE LocksHold'
  BY <1>7, NumberedStep DEF UpsertVersion, GoTo, Numbered
<1>8. ASSUME NEW r \in Requests, InsertDelta(r) PROVE LocksHold'
  BY <1>8, NumberedStep DEF InsertDelta, GoTo, Numbered
<1>9. ASSUME NEW r \in Requests, SettleApplied(r) PROVE LocksHold'
  BY <1>9, NumberedStep DEF SettleApplied, GoTo, Numbered
<1>10. ASSUME NEW r \in Requests, TouchTile(r) PROVE LocksHold'
  <2>1. CASE Matches(r)
    <3> DEFINE found == tiles[job[r].cell]
    <3>1. found \in Tile /\ found # NoTile /\ found.owner = job[r].actor
      BY <2>1, JobFacts DEF Matches, TypeOK, JobType
    <3>2. Repainted(found, job[r].look) \in Tile
      BY <3>1, JobFacts DEF Repainted, Tile, JobType
    <3>3. /\ Repainted(found, job[r].look).owner = job[r].actor
          /\ Repainted(found, job[r].look).look = job[r].look
      BY <3>1 DEF Repainted
    <3>4. job[r].kind # "place"
      BY <1>10 DEF TouchTile, StagesByKind
    <3>5. job[r].kind = "edit" \/ job[r].kind = "delete"
      BY <3>4, JobFacts DEF JobType
    <3>6. CellFree(r)
      BY <1>10, <2>1, UnblockedIsFree DEF TouchTile, NeedsCell
    <3> QED
      BY <1>10, <2>1, <3>1, <3>2, <3>3, <3>5, <3>6, CellTaken DEF TouchTile, GoTo
  <2>2. CASE ~ Matches(r)
    BY <1>10, <2>2, QuietStep DEF TouchTile, GoTo, Stages, Holding
  <2> QED
    BY <2>1, <2>2
<1>11. ASSUME NEW r \in Requests, Explain(r) PROVE LocksHold'
  BY <1>11, QuietReply DEF Explain
<1>12. ASSUME NEW r \in Requests, Commit(r) PROVE LocksHold'
  <2>1. /\ Numbered(r) /\ HoldsCell(r)
        /\ version' = version + 1
    BY <1>12 DEF Commit, LocksHold, VersionLock, Numbered, HoldsCell
  <2>2. \A o \in Requests : /\ ~ Numbered(o)'
                            /\ HoldsCell(o)' => HoldsCell(o) /\ o # r
    BY <1>12, <2>1 DEF Commit, Reply, LocksHold, VersionLock, Numbered, HoldsCell, TypeOK
  <2>3. \A o \in Requests : HoldsCell(o)' =>
           /\ job[o].cell # job[r].cell
           /\ tiles'[job[o].cell] = tiles[job[o].cell]
           /\ tile'[o] = tile[o]
    BY <1>12, <2>1, <2>2, JobFacts
       DEF Commit, Reply, LocksHold, CellLock, TypeOK, JobType
  <2>4. VersionLock'
    BY <2>1, <2>2 DEF VersionLock, TypeOK
  <2>5. CellLock'
    BY <1>12, <2>2 DEF Commit, LocksHold, CellLock
  <2>6. CellAsFound'
    BY <1>12, <2>2, <2>3 DEF Commit, LocksHold, CellAsFound
  <2> QED
    BY <2>4, <2>5, <2>6 DEF LocksHold
<1>13. ASSUME NEW r \in Requests, Abort(r) PROVE LocksHold'
  BY <1>13, QuietReply DEF Abort
<1>14. CASE PurgeExpiredPlacementCommandLedger
  BY <1>14 DEF PurgeExpiredPlacementCommandLedger, LocksHold, VersionLock, CellLock,
               CellAsFound, Numbered, HoldsCell
<1>15. CASE Tick
  BY <1>15 DEF Tick, LocksHold, VersionLock, CellLock, CellAsFound, Numbered, HoldsCell
<1>16. CASE UNCHANGED vars
  BY <1>16 DEF vars, LocksHold, VersionLock, CellLock, CellAsFound, Numbered, HoldsCell
<1> QED
  BY <1>1, <1>2, <1>3, <1>4, <1>5, <1>6, <1>7, <1>8, <1>9,
     <1>10, <1>11, <1>12, <1>13, <1>14, <1>15, <1>16
     DEF Next, Statement, Finished

\* What the row locks achieve: whatever transactions of any number of requests
\* are under way, at most one has taken a version and it is the next one, and
\* what a transaction found in the cell it writes is still there.
THEOREM LocksCorrect == FoundedSpec => []LocksHold
<1>1. FoundedInit => TypeOK /\ StagesByKind /\ LocksHold
  BY TypeInit, StagesInit, LocksInit
<1>2. TypeOK /\ StagesByKind /\ LocksHold /\ [Next]_vars
        => TypeOK' /\ StagesByKind' /\ LocksHold'
  BY TypeNext, StagesNext, LocksNext
<1> QED
  BY <1>1, <1>2, PTL DEF FoundedSpec

-----------------------------------------------------------------------------
(* The versions of the region *)

\* Only a commit of a written tile changes the log or the region's version.
LEMMA OnlyCommit ==
    ASSUME [Next]_vars, \A r \in Requests : ~ Commit(r)
    PROVE  UNCHANGED <<tiles, version, deltas>>
<1> USE DEF tables, locals
<1>1. ASSUME NEW r \in Requests, Statement(r) PROVE UNCHANGED <<tiles, version, deltas>>
  BY <1>1 DEF Statement, SelectCommandForUpdate, UpdatePending, InsertPending,
     InsertTile, SelectVersionForUpdate, UpsertVersion, InsertDelta, SettleApplied,
     TouchTile, Explain
<1> QED
  BY <1>1 DEF Next, Begin, Abort, PurgeExpiredPlacementCommandLedger, Tick, Finished,
     vars

\* A transaction commits the next version.
LEMMA CommitTakesNext ==
    ASSUME LocksHold, NEW r \in Requests, Commit(r)
    PROVE  ver[r] = version + 1 /\ version' = version + 1
  BY DEF Commit, LocksHold, VersionLock, Numbered

\* Every step keeps the log dense.
LEMMA DenseNext == TypeOK /\ LocksHold /\ VersionsDense /\ [Next]_vars => VersionsDense'
<1> SUFFICES ASSUME TypeOK, LocksHold, VersionsDense, [Next]_vars PROVE VersionsDense'
  OBVIOUS
<1>1. ASSUME NEW r \in Requests, Commit(r) PROVE VersionsDense'
  <2>1. CommittedDelta(r) \in Delta
    BY JobFacts DEF CommittedDelta, Delta, JobType, TypeOK
  <2>2. deltas' = Append(deltas, CommittedDelta(r))
    BY <1>1 DEF Commit
  <2>3. CommittedDelta(r).version = version + 1
    BY <1>1, CommitTakesNext DEF CommittedDelta
  <2>4. /\ Len(deltas') = Len(deltas) + 1
        /\ deltas'[Len(deltas) + 1] = CommittedDelta(r)
        /\ \A i \in 1..Len(deltas) : deltas'[i] = deltas[i]
    BY <2>1, <2>2 DEF TypeOK
  <2>5. version' = Len(deltas')
    BY <1>1, <2>4, CommitTakesNext DEF VersionsDense
  <2>6. ASSUME NEW i \in 1..Len(deltas') PROVE deltas'[i].version = i
    <3>1. Len(deltas) \in Nat
      BY DEF TypeOK
    <3>2. CASE i \in 1..Len(deltas)
      BY <2>4, <3>2 DEF VersionsDense
    <3>3. CASE i = Len(deltas) + 1
      BY <2>3, <2>4, <3>3 DEF VersionsDense
    <3> QED
      BY <2>4, <2>6, <3>1, <3>2, <3>3
  <2> QED
    BY <2>5, <2>6 DEF VersionsDense
<1>2. CASE \A r \in Requests : ~ Commit(r)
  BY <1>2, OnlyCommit DEF VersionsDense
<1> QED
  BY <1>1, <1>2

\* In a founded region the n-th committed change has version n, for any number of
\* concurrent calls.
THEOREM DenseVersions == FoundedSpec => []VersionsDense
<1>1. FoundedInit => TypeOK /\ StagesByKind /\ LocksHold
  BY TypeInit, StagesInit, LocksInit
<1>2. FoundedInit => VersionsDense
  <2> SUFFICES ASSUME FoundedInit PROVE VersionsDense
    OBVIOUS
  <2>1. PICK c \in Cells, a \in Actors, l \in Looks :
           deltas = << [version |-> 1, cell |-> c, op |-> "upsert",
                        owner |-> a, look |-> l] >>
    BY DEF FoundedInit
  <2> QED
    BY <2>1 DEF FoundedInit, VersionsDense
<1>3. TypeOK /\ StagesByKind /\ LocksHold /\ VersionsDense /\ [Next]_vars
        => TypeOK' /\ StagesByKind' /\ LocksHold' /\ VersionsDense'
  BY TypeNext, StagesNext, LocksNext, DenseNext
<1> QED
  BY <1>1, <1>2, <1>3, PTL DEF FoundedSpec

-----------------------------------------------------------------------------
(* The store implements the region log *)

\* What a cell of the log's grid holds.
Face(t) == IF t = NoTile THEN NoTile ELSE [owner |-> t.owner, look |-> t.look]
Grid == [c \in Cells |-> Face(tiles[c])]

\* A founded region is a founded log.
LEMMA LogInit == FoundedInit => Log!Init
<1> SUFFICES ASSUME FoundedInit PROVE Log!Init
  OBVIOUS
<1>1. PICK c \in Cells, a \in Actors, l \in Looks :
         /\ tiles = [x \in Cells |->
                       IF x = c THEN [id |-> 1, owner |-> a, look |-> l, at |-> 0]
                                ELSE NoTile]
         /\ deltas = << [version |-> 1, cell |-> c, op |-> "upsert",
                         owner |-> a, look |-> l] >>
  BY DEF FoundedInit
<1>2. Grid = [x \in Cells |-> IF x = c THEN [owner |-> a, look |-> l] ELSE NoTile]
  BY <1>1 DEF Grid, Face, NoTile
<1> QED
  BY <1>1, <1>2 DEF FoundedInit, Log!Init, Grid, Face

\* A commit that removes a tile erases the cell in the log.
LEMMA LogErase ==
    ASSUME TypeOK, LocksHold, NEW r \in Requests, Commit(r), job[r].kind = "delete",
           NEW c \in Cells, job[r].cell = c
    PROVE  Log!Erase(c)
<1>1. tiles[c] # NoTile
  BY DEF Commit, LocksHold, CellAsFound, HoldsCell
<1>2. Grid[c] # NoTile
  BY <1>1 DEF Grid, Face, NoTile
<1>3. tiles' = [tiles EXCEPT ![c] = NoTile]
  BY DEF Commit
<1>4. Grid' = [Grid EXCEPT ![c] = NoTile]
  BY <1>3 DEF Grid, Face, TypeOK
<1>5. version' = version + 1
  BY CommitTakesNext
<1>6. deltas' = Append(deltas, [version |-> version + 1, cell |-> c, op |-> "delete",
                                owner |-> "none", look |-> "none"])
  BY CommitTakesNext DEF Commit, CommittedDelta
<1> QED
  BY <1>2, <1>4, <1>5, <1>6 DEF Log!Erase, Grid, Face

\* A commit that places or edits a tile is an upsert by its owner.
LEMMA LogUpsert ==
    ASSUME TypeOK, LocksHold, NEW r \in Requests, Commit(r), job[r].kind # "delete",
           NEW c \in Cells, job[r].cell = c,
           NEW a \in Actors, job[r].actor = a,
           NEW l \in Looks, job[r].look = l
    PROVE  Log!Upsert(c, a, l)
<1>1. /\ tiles[c] = NoTile \/ tiles[c].owner = a
      /\ tile[r] # NoTile
      /\ tile[r].owner = a
      /\ tile[r].look = l
  BY DEF Commit, LocksHold, CellAsFound, HoldsCell
<1>2. Grid[c] # NoTile => Grid[c].owner = a
  BY <1>1 DEF Grid, Face
<1>3. tiles' = [tiles EXCEPT ![c] = tile[r]]
  BY DEF Commit
<1>4. Grid' = [Grid EXCEPT ![c] = [owner |-> a, look |-> l]]
  BY <1>1, <1>3 DEF Grid, Face, TypeOK
<1>5. version' = version + 1
  BY CommitTakesNext
<1>6. deltas' = Append(deltas, [version |-> version + 1, cell |-> c, op |-> "upsert",
                                owner |-> a, look |-> l])
  BY CommitTakesNext DEF Commit, CommittedDelta
<1> QED
  BY <1>2, <1>4, <1>5, <1>6 DEF Log!Upsert, Grid, Face

\* Every step of the store is a step of the log or leaves the log alone.
LEMMA LogNext == TypeOK /\ LocksHold /\ [Next]_vars => [Log!Next]_(Log!logVars)
<1> SUFFICES ASSUME TypeOK, LocksHold, [Next]_vars
             PROVE  Log!Next \/ UNCHANGED Log!logVars
  OBVIOUS
<1>1. ASSUME NEW r \in Requests, Commit(r) PROVE Log!Next
  <2>1. PICK c \in Cells, a \in Actors, l \in Looks :
           job[r].cell = c /\ job[r].actor = a /\ job[r].look = l
    BY JobFacts DEF JobType
  <2>2. Log!Erase(c) \/ Log!Upsert(c, a, l)
    BY <1>1, <2>1, LogErase, LogUpsert
  <2> QED
    BY <2>2 DEF Log!Next
<1>2. CASE \A r \in Requests : ~ Commit(r)
  BY <1>2, OnlyCommit DEF Log!logVars
<1> QED
  BY <1>1, <1>2

\* For any number of concurrent calls, the store of a founded region implements
\* the append-only log that its readers are written against.
THEOREM RegionLogImplemented == FoundedSpec => ImplementsRegionLog
<1>1. FoundedInit => TypeOK /\ StagesByKind /\ LocksHold /\ Log!Init
  BY TypeInit, StagesInit, LocksInit, LogInit
<1>2. TypeOK /\ StagesByKind /\ LocksHold /\ [Next]_vars
        => TypeOK' /\ StagesByKind' /\ LocksHold' /\ [Log!Next]_(Log!logVars)
  BY TypeNext, StagesNext, LocksNext, LogNext
<1> QED
  BY <1>1, <1>2, PTL DEF FoundedSpec, ImplementsRegionLog, Log!Spec

-----------------------------------------------------------------------------
(* The command ledger *)

\* A region without tiles has the types too.
LEMMA EmptyTypeInit == EmptyInit => TypeOK
  BY DEF EmptyInit, IdleInit, TypeOK, Stages, Answer, NoAnswer, Replies

AnsweredIsDone == \A r \in Requests : Said(r, "placed") => pc[r] = "done"

NowIsPast == \A r \in Requests : now[r] <= clock

\* The row a transaction is about to commit is the answer it is about to give.
RowIsAnswer ==
    \A r \in Requests :
        pc[r] = "commit" /\ job[r].kind = "place" =>
            row[r] = LedgerRow(r, "applied", tile[r].id)

\* At most one transaction is under way for a command identity ...
IdentityLock ==
    \A r, o \in Requests :
        HoldsIdentity(r) /\ HoldsIdentity(o) /\ SameIdentity(r, o) => r = o

\* ... and it began when every answer given for it before had expired.
Over(p) == clock >= now[p] + ReplayWindow
HolderComesAfter ==
    \A r, p \in Requests :
        HoldsIdentity(r) /\ Said(p, "placed") /\ SameIdentity(r, p) => Over(p)

\* An answer that has not expired is in the ledger for as long as it has not.
AnswerIsKept ==
    \A p \in Requests : Said(p, "placed") =>
        \/ Over(p)
        \/ /\ ledger[Identity(p)] # NoRow
           /\ ledger[Identity(p)].expires >= now[p] + ReplayWindow

\* What is in the ledger was answered.
Recorded(p, w) ==
    /\ RequestHash(p) = w.hash
    /\ answer[p].id = w.id
    /\ w.outcome = "applied" /\ Said(p, "placed")
LedgerIsAnswered ==
    \A k \in Identities : ledger[k] # NoRow =>
        \E p \in Requests : Identity(p) = k /\ Recorded(p, ledger[k])

Kept ==
    /\ AnsweredIsDone /\ IdentityLock /\ HolderComesAfter
    /\ AnswerIsKept /\ LedgerIsAnswered

Promised == CommandExecutedOnce /\ ReplaysTellTheTruth /\ MismatchMeansReuse

Steady == TypeOK /\ StagesByKind /\ NowIsPast /\ RowIsAnswer

CommandInv == Steady /\ Kept /\ Promised

\* What a step of a request does to the ledger and to the answers: it commits its own,
Executes(r) ==
    /\ HoldsIdentity(r)
    /\ pc[r] = "commit"
    /\ ledger' = [ledger EXCEPT ![Identity(r)] = row[r]]
    /\ Reply(r, "placed", tile[r].id)

\* takes the identity, which nobody holds, when no answer is to be replayed,
Takes(r) ==
    /\ IdentityFree(r)
    /\ ledger[Identity(r)] # NoRow => ledger[Identity(r)].expires <= now[r]
    /\ pc'[r] # "done"
    /\ UNCHANGED <<ledger, answer>>

\* replays an answer,
Replays(r) ==
    /\ ledger[Identity(r)] # NoRow
    /\ MapLedgerReplay(r)
    /\ UNCHANGED ledger

\* says something that is not about commands,
SaysElse(r) ==
    /\ \E says \in Replies \ {"placed", "replayed", "mismatch"}, id \in Nat : Reply(r, says, id)
    /\ UNCHANGED ledger

\* or goes on.
GoesOn(r) ==
    /\ HoldsIdentity(r)' => HoldsIdentity(r)
    /\ pc'[r] # "done"
    /\ UNCHANGED <<ledger, answer>>

Frame(r) ==
    /\ pc[r] \notin {"new", "done"}
    /\ \A o \in Requests \ {r} : /\ pc'[o] = pc[o]
                                 /\ answer'[o] = answer[o]
                                 /\ row'[o] = row[o]
                                 /\ tile'[o] = tile[o]
    /\ UNCHANGED <<clock, job, now>>

\* There is no other statement, and none touches what belongs to another request.
LEMMA CommandStep ==
    ASSUME TypeOK, StagesByKind,
           NEW r \in Requests, Statement(r) \/ Abort(r)
    PROVE  /\ Frame(r)
           /\ Executes(r) \/ Takes(r) \/ Replays(r) \/ SaysElse(r) \/ GoesOn(r)
<1> USE DEF tables, locals
<1>1. CASE SelectCommandForUpdate(r)
  <2>0. ledger[Identity(r)] \in Row \cup {NoRow}
    BY JobFacts DEF TypeOK
  <2>1. Frame(r)
    BY <1>1 DEF SelectCommandForUpdate, MapLedgerReplay, Reply, GoTo, Frame, TypeOK
  <2>2. CASE ledger[Identity(r)] = NoRow
    <3>1. GoTo(r, "insertPending") /\ UNCHANGED <<ledger, answer>>
      BY <1>1, <2>2 DEF SelectCommandForUpdate
    <3>2. pc'[r] = "insertPending"
      BY <3>1 DEF GoTo, TypeOK
    <3> QED
      BY <2>1, <3>1, <3>2 DEF GoesOn, HoldsIdentity
  <2>3. CASE ledger[Identity(r)] # NoRow /\ ledger[Identity(r)].expires > now[r]
    <3>1. ~ (ledger[Identity(r)].expires <= now[r])
      BY <2>0, <2>3 DEF Row, TypeOK
    <3> QED
      BY <1>1, <2>1, <2>3, <3>1 DEF SelectCommandForUpdate, Replays
  <2>4. CASE ledger[Identity(r)] # NoRow /\ ledger[Identity(r)].expires <= now[r]
    <3>1. ~ (ledger[Identity(r)].expires > now[r])
      BY <2>0, <2>4 DEF Row, TypeOK
    <3> QED
      BY <1>1, <2>1, <2>4, <3>1, UnblockedIsFree
         DEF SelectCommandForUpdate, Takes, GoTo, TypeOK, NeedsIdentity
  <2> QED
    BY <2>0, <2>1, <2>2, <2>3, <2>4 DEF Row, TypeOK
<1>2. CASE InsertPending(r)
  <2>1. CASE ledger[Identity(r)] = NoRow
    BY <1>2, <2>1, UnblockedIsFree
       DEF InsertPending, WritePending, GoTo, Takes, Frame, TypeOK, NeedsIdentity
  <2>2. CASE ledger[Identity(r)] # NoRow
    <3>1. Reply(r, "none", 0) /\ UNCHANGED <<clock, tables, job, now>> /\ pc[r] = "insertPending"
      BY <1>2, <2>2 DEF InsertPending
    <3> QED
      BY <3>1 DEF SaysElse, Frame, Reply, TypeOK, Replies
  <2> QED
    BY <2>1, <2>2
<1>3. CASE UpdatePending(r) \/ InsertTile(r)
  <2>1. job[r].kind = "place"
    BY <1>3 DEF UpdatePending, InsertTile, StagesByKind, OnlyPlacing
  <2>2. CASE InsertTile(r) /\ tiles[job[r].cell] # NoTile
    <3>1. /\ Reply(r, "uniqueViolation", 0) /\ UNCHANGED <<clock, ledger, job, now>>
          /\ pc[r] = "insertTile"
      BY <2>2 DEF InsertTile
    <3> QED
      BY <3>1 DEF SaysElse, Frame, Reply, TypeOK, Replies
  <2>3. CASE ~ (InsertTile(r) /\ tiles[job[r].cell] # NoTile)
    BY <1>3, <2>1, <2>3 DEF UpdatePending, InsertTile, WritePending, GoTo, GoesOn, Frame,
       HoldsIdentity, TypeOK
  <2> QED
    BY <2>2, <2>3
<1>4. CASE SelectVersionForUpdate(r) \/ UpsertVersion(r) \/ InsertDelta(r)
  BY <1>4 DEF SelectVersionForUpdate, UpsertVersion, InsertDelta, GoTo, GoesOn, Frame,
     HoldsIdentity, TypeOK
<1>5. CASE SettleApplied(r)
  BY <1>5 DEF SettleApplied, GoTo, GoesOn, Frame,
     HoldsIdentity, TypeOK
<1>6. CASE TouchTile(r)
  <2>1. job[r].kind # "place"
    BY <1>6 DEF TouchTile, StagesByKind
  <2> QED
    BY <1>6, <2>1 DEF TouchTile, GoTo, GoesOn, Frame, HoldsIdentity, TypeOK
<1>7. CASE Commit(r)
  <2>1. Frame(r)
    BY <1>7 DEF Commit, Reply, Frame, TypeOK
  <2>2. CASE job[r].kind = "place"
    BY <1>7, <2>1, <2>2 DEF Commit, Executes, HoldsIdentity, Done
  <2>3. CASE job[r].kind # "place"
    <3>1. tile[r].id \in Nat
      BY IdFacts DEF TypeOK
    <3>2. job[r].kind \in {"edit", "delete"}
      BY <2>3, JobFacts DEF JobType
    <3>3. Done[job[r].kind] \in {"edited", "deleted"}
      BY <3>2 DEF Done
    <3>4. Reply(r, Done[job[r].kind], tile[r].id) /\ ledger' = ledger
      BY <1>7, <2>3 DEF Commit
    <3> QED
      BY <2>1, <3>1, <3>3, <3>4 DEF SaysElse, Replies
  <2> QED
    BY <2>2, <2>3
<1>8. CASE Explain(r) \/ Abort(r)
  <2>1. /\ \E says \in {"none", "editWindowExpired", "forbidden", "notFound"} : Reply(r, says, 0)
        /\ UNCHANGED <<clock, tables, job, now>>
        /\ pc[r] \notin {"new", "done"}
    BY <1>8 DEF Explain, Abort
  <2>2. Frame(r)
    BY <2>1 DEF Frame, Reply, TypeOK
  <2> QED
    BY <2>1, <2>2 DEF SaysElse, Replies
<1> QED
  BY <1>1, <1>2, <1>3, <1>4, <1>5, <1>6, <1>7, <1>8 DEF Statement

\* Initially nothing is answered and the ledger is empty.
LEMMA CommandInit == EmptyInit \/ FoundedInit => CommandInv
<1> SUFFICES ASSUME EmptyInit \/ FoundedInit PROVE CommandInv
  OBVIOUS
<1>1. TypeOK
  BY EmptyTypeInit, TypeInit
<1>2. IdleInit
  BY DEF EmptyInit, FoundedInit
<1>3. /\ \A r \in Requests : pc[r] = "new" /\ answer[r] = NoAnswer /\ now[r] = 0
      /\ \A k \in Identities : ledger[k] = NoRow
      /\ clock = 0
  BY <1>2 DEF IdleInit
<1>4. ASSUME NEW r \in Requests PROVE ~ HoldsIdentity(r) /\ ~ Said(r, "placed")
  <2>1. pc[r] = "new" /\ answer[r].says = "none"
    BY <1>3 DEF NoAnswer
  <2>2. ~ HoldsIdentity(r)
    BY <2>1 DEF HoldsIdentity
  <2>3. ~ Said(r, "placed")
    BY <2>1 DEF Said
  <2> QED
    BY <2>2, <2>3
<1>5. Steady
  BY <1>1, <1>3 DEF Steady, StagesByKind, OnlyPlacing,
     NowIsPast, RowIsAnswer
<1>6. Kept
  BY <1>3, <1>4 DEF Kept, AnsweredIsDone, IdentityLock, HolderComesAfter, AnswerIsKept,
     LedgerIsAnswered
<1>7. Promised
  BY <1>3, <1>4 DEF Promised, CommandExecutedOnce, ReplaysTellTheTruth, MismatchMeansReuse,
     Said, NoAnswer
<1> QED
  BY <1>5, <1>6, <1>7 DEF CommandInv

\* What a step of one request leaves as it is.
LEMMA FrameFacts ==
    ASSUME NEW r \in Requests, Frame(r), AnsweredIsDone
    PROVE  /\ \A p \in Requests : /\ Identity(p)' = Identity(p)
                                  /\ RequestHash(p)' = RequestHash(p)
                                  /\ Over(p)' = Over(p)
                                  /\ now'[p] = now[p]
           /\ \A p \in Requests \ {r} : /\ HoldsIdentity(p)' <=> HoldsIdentity(p)
                                        /\ Said(p, "placed")' <=> Said(p, "placed")
                                        /\ answer'[p] = answer[p]
           /\ ~ Said(r, "placed")
           /\ clock' = clock
<1>1. \A p \in Requests : /\ Identity(p)' = Identity(p)
                          /\ RequestHash(p)' = RequestHash(p)
                          /\ Over(p)' = Over(p)
                          /\ now'[p] = now[p]
  BY DEF Frame, Identity, RequestHash, Over
<1>2. \A p \in Requests \ {r} : HoldsIdentity(p)' <=> HoldsIdentity(p)
  BY DEF Frame, HoldsIdentity
<1>3. \A p \in Requests \ {r} : /\ Said(p, "placed")' <=> Said(p, "placed")
                                /\ answer'[p] = answer[p]
  BY DEF Frame, Said
<1>4. ~ Said(r, "placed")
  BY DEF Frame, AnsweredIsDone
<1> QED
  BY <1>1, <1>2, <1>3, <1>4 DEF Frame

\* A step that commits no answer and takes no identity.
LEMMA KeptByOthers ==
    ASSUME TypeOK, Kept, NEW r \in Requests, Frame(r), UNCHANGED ledger,
           HoldsIdentity(r)' => HoldsIdentity(r),
           ~ Said(r, "placed")'
    PROVE  Kept'
<1> USE DEF Kept
<1>1. AnsweredIsDone'
  BY FrameFacts DEF AnsweredIsDone, Frame
<1>2. IdentityLock'
  BY FrameFacts DEF IdentityLock, SameIdentity
<1>3. HolderComesAfter'
  BY FrameFacts DEF HolderComesAfter, SameIdentity
<1>4. AnswerIsKept'
  BY FrameFacts DEF AnswerIsKept
<1>5. LedgerIsAnswered'
  <2> SUFFICES ASSUME NEW k \in Identities, ledger[k] # NoRow
               PROVE  \E p \in Requests : Identity(p)' = k /\ Recorded(p, ledger[k])'
    BY DEF LedgerIsAnswered
  <2>1. PICK p \in Requests : Identity(p) = k /\ Recorded(p, ledger[k])
    BY DEF LedgerIsAnswered
  <2>2. p # r
    BY <2>1, FrameFacts DEF Recorded
  <2>3. Recorded(p, ledger[k])'
    BY <2>1, <2>2, FrameFacts DEF Recorded, Said
  <2> QED
    BY <2>1, <2>3, FrameFacts
<1> QED
  BY <1>1, <1>2, <1>3, <1>4, <1>5

\* A step that answers nothing about commands.
LEMMA PromisedByOthers ==
    ASSUME TypeOK, Kept, Promised, NEW r \in Requests, Frame(r),
           ~ Said(r, "placed")',
           answer'[r].says \notin {"replayed", "mismatch"} \/ UNCHANGED answer
    PROVE  Promised'
<1> USE DEF Kept
<1>1. CommandExecutedOnce'
  BY FrameFacts DEF Promised, CommandExecutedOnce, SameIdentity
<1>2. ASSUME NEW q \in Requests PROVE
        /\ \A what \in {"replayed", "mismatch"} : Said(q, what)' => Said(q, what)
        /\ answer'[q] = answer[q] \/ q = r
        /\ Said(q, "placed") => Said(q, "placed")' /\ q # r
  BY FrameFacts DEF Said
<1>3. ReplaysTellTheTruth'
  <2> SUFFICES ASSUME NEW q \in Requests
               PROVE Said(q, "replayed")' =>
                        \E p \in Requests : /\ Said(p, "placed")'
                                            /\ SameCommand(p, q)'
                                            /\ answer'[p].id = answer'[q].id
    BY DEF ReplaysTellTheTruth
  <2>1. \A p \in Requests : SameCommand(p, q)' = SameCommand(p, q)
    BY FrameFacts DEF SameCommand, SameIdentity
  <2>2. Said(q, "replayed")' => answer'[q] = answer[q]
    BY <1>2 DEF Said
  <2> QED
    BY <1>2, <2>1, <2>2 DEF Promised, ReplaysTellTheTruth
<1>4. MismatchMeansReuse'
  BY <1>2, FrameFacts DEF Promised, MismatchMeansReuse, SameIdentity
<1> QED
  BY <1>1, <1>3, <1>4 DEF Promised

\* A transaction commits its answer: nobody else is under way for the command, and
\* whoever was before is over.
LEMMA ExecutesNext ==
    ASSUME CommandInv, NEW r \in Requests, Frame(r), Executes(r)
    PROVE  Kept' /\ Promised'
<1> USE DEF CommandInv, Kept
<1>1. /\ HoldsIdentity(r) /\ ~ HoldsIdentity(r)'
      /\ pc'[r] = "done"
      /\ answer'[r] = [says |-> "placed", id |-> tile[r].id, at |-> clock]
      /\ Said(r, "placed")'
  BY DEF Executes, Reply, HoldsIdentity, Said, Steady, TypeOK
<1>2. row[r] = LedgerRow(r, "applied", tile[r].id)
  BY DEF Executes, HoldsIdentity, Steady, RowIsAnswer
<1>3. /\ row[r].hash = RequestHash(r) /\ row[r].id = tile[r].id
      /\ row[r].expires = now[r] + ReplayWindow
      /\ row[r].outcome = "applied"
      /\ row[r] # NoRow
  BY <1>2 DEF LedgerRow, NoRow
<1>4. /\ Identity(r) \in Identities
      /\ ledger'[Identity(r)] = row[r]
      /\ \A k \in Identities : k # Identity(r) => ledger'[k] = ledger[k]
  BY JobFacts DEF Executes, Steady, TypeOK
<1>5. AnsweredIsDone'
  BY <1>1, FrameFacts DEF AnsweredIsDone, Frame
<1>6. IdentityLock'
  BY <1>1, FrameFacts DEF IdentityLock, SameIdentity
<1>7. HolderComesAfter'
  BY <1>1, FrameFacts DEF HolderComesAfter, IdentityLock, SameIdentity
<1>8. AnswerIsKept'
  <2> SUFFICES ASSUME NEW p \in Requests, Said(p, "placed")', ~ Over(p)'
               PROVE  /\ ledger'[Identity(p)] # NoRow
                      /\ ledger'[Identity(p)].expires >= now[p] + ReplayWindow
    BY FrameFacts DEF AnswerIsKept
  <2>1. CASE p = r
    <3>1. now[r] + ReplayWindow \in Int
      BY ParameterAssumption DEF Steady, TypeOK
    <3> QED
      BY <1>3, <1>4, <2>1, <3>1
  <2>2. CASE p # r
    <3>1. Said(p, "placed") /\ ~ Over(p)
      BY <2>2, FrameFacts
    <3>2. Identity(p) # Identity(r)
      BY <1>1, <3>1 DEF HolderComesAfter, SameIdentity
    <3>3. Identity(p) \in Identities
      BY JobFacts DEF Steady
    <3> QED
      BY <1>4, <3>1, <3>2, <3>3 DEF AnswerIsKept
  <2> QED
    BY <2>1, <2>2
<1>9. LedgerIsAnswered'
  <2> SUFFICES ASSUME NEW k \in Identities, ledger'[k] # NoRow
               PROVE  \E p \in Requests : Identity(p)' = k /\ Recorded(p, ledger[k])'
    BY DEF LedgerIsAnswered
  <2>1. CASE k = Identity(r)
    <3>1. Recorded(r, ledger[k])'
      BY <1>1, <1>3, <1>4, <2>1, FrameFacts DEF Recorded, Said
    <3> QED
      BY <2>1, <3>1, FrameFacts
  <2>2. CASE k # Identity(r)
    <3>1. PICK p \in Requests : Identity(p) = k /\ Recorded(p, ledger[k])
      BY <1>4, <2>2 DEF LedgerIsAnswered
    <3>2. Recorded(p, ledger[k])'
      BY <1>4, <2>2, <3>1, FrameFacts DEF Recorded, Said
    <3> QED
      BY <3>1, <3>2, FrameFacts
  <2> QED
    BY <2>1, <2>2
<1>10. CommandExecutedOnce'
  <2> SUFFICES ASSUME NEW p \in Requests, NEW q \in Requests,
                      p # q, Said(p, "placed")', Said(q, "placed")', SameIdentity(p, q)'
               PROVE  \/ answer'[q].at >= now[p] + ReplayWindow
                      \/ answer'[p].at >= now[q] + ReplayWindow
    BY FrameFacts DEF CommandExecutedOnce
  <2>1. Identity(p) = Identity(q)
    BY FrameFacts DEF SameIdentity
  <2>2. CASE p = r
    BY <1>1, <2>1, <2>2, FrameFacts DEF HolderComesAfter, SameIdentity, Over
  <2>3. CASE q = r
    BY <1>1, <2>1, <2>3, FrameFacts DEF HolderComesAfter, SameIdentity, Over
  <2>4. CASE p # r /\ q # r
    BY <2>1, <2>4, FrameFacts DEF Promised, CommandExecutedOnce, SameIdentity
  <2> QED
    BY <2>2, <2>3, <2>4
<1>11. \A q \in Requests : \A what \in {"replayed", "mismatch"} :
          Said(q, what)' => Said(q, what) /\ answer'[q] = answer[q]
  BY <1>1, FrameFacts DEF Said
<1>12. \A p \in Requests : Said(p, "placed") => answer'[p] = answer[p] /\ Said(p, "placed")'
  BY FrameFacts
<1>13. ReplaysTellTheTruth' /\ MismatchMeansReuse'
  <2>1. \A p, q \in Requests : /\ SameCommand(p, q)' = SameCommand(p, q)
                               /\ SameIdentity(p, q)' = SameIdentity(p, q)
    BY FrameFacts DEF SameCommand, SameIdentity
  <2>2. ReplaysTellTheTruth'
    BY <1>11, <1>12, <2>1 DEF Promised, ReplaysTellTheTruth
  <2>3. MismatchMeansReuse'
    BY <1>11, <1>12, <2>1, FrameFacts DEF Promised, MismatchMeansReuse
  <2> QED
    BY <2>2, <2>3
<1> QED
  BY <1>5, <1>6, <1>7, <1>8, <1>9, <1>10, <1>13 DEF Promised

\* A transaction takes the identity after every answer for it has expired.
LEMMA TakesNext ==
    ASSUME CommandInv, NEW r \in Requests, Frame(r), Takes(r)
    PROVE  Kept' /\ Promised'
<1> USE DEF CommandInv, Kept
<1>1. UNCHANGED <<ledger, answer>>
  BY DEF Takes
<1>2. \A p \in Requests : Said(p, "placed")' <=> Said(p, "placed")
  BY <1>1 DEF Said
<1>3. ~ Said(r, "placed") /\ ~ Said(r, "placed")'
  BY <1>2, FrameFacts
<1>4. AnsweredIsDone'
  BY <1>3, FrameFacts DEF AnsweredIsDone, Frame
<1>5. IdentityLock'
  BY FrameFacts DEF IdentityLock, SameIdentity, Takes, IdentityFree
<1>6. \A p \in Requests : Said(p, "placed") /\ SameIdentity(r, p) => Over(p)
  <2> SUFFICES ASSUME NEW p \in Requests, Said(p, "placed"), Identity(p) = Identity(r), ~ Over(p)
               PROVE  FALSE
    BY DEF SameIdentity
  <2> DEFINE kept == ledger[Identity(r)]
  <2>1. kept # NoRow /\ kept.expires >= now[p] + ReplayWindow
    BY DEF AnswerIsKept
  <2>2. kept \in Row
    BY <2>1, JobFacts DEF Steady, TypeOK
  <2>3. kept.expires <= now[r] /\ now[r] <= clock
    BY <2>1 DEF Takes, Steady, NowIsPast
  <2>4. kept.expires \in Int /\ now[p] + ReplayWindow \in Int /\ clock \in Int /\ now[r] \in Int
    BY <2>2, ParameterAssumption DEF Row, Steady, TypeOK
  <2> HIDE DEF kept
  <2>5. clock >= now[p] + ReplayWindow
    BY <2>1, <2>3, <2>4
  <2> QED
    BY <2>5 DEF Over
<1>7. HolderComesAfter'
  BY <1>2, <1>6, FrameFacts DEF HolderComesAfter, SameIdentity
<1>8. AnswerIsKept'
  BY <1>1, <1>2, FrameFacts DEF AnswerIsKept
<1>9. LedgerIsAnswered'
  <2>1. \A p \in Requests, k \in Identities : Recorded(p, ledger[k])' = Recorded(p, ledger[k])
    BY <1>1, FrameFacts DEF Recorded, Said
  <2> QED
    BY <1>1, <2>1, FrameFacts DEF LedgerIsAnswered
<1>10. Promised'
  BY <1>1, <1>3, PromisedByOthers DEF Steady
<1> QED
  BY <1>4, <1>5, <1>7, <1>8, <1>9, <1>10

\* A replay tells what the ledger tells.
LEMMA ReplaysNext ==
    ASSUME CommandInv, NEW r \in Requests, Frame(r), Replays(r)
    PROVE  Kept' /\ Promised'
<1> USE DEF CommandInv, Kept
<1> DEFINE found == ledger[Identity(r)]
<1>1. PICK p \in Requests : Identity(p) = Identity(r) /\ Recorded(p, found)
  BY JobFacts DEF Replays, LedgerIsAnswered, Steady
<1>2. Said(p, "placed") /\ p # r
  BY <1>1, FrameFacts DEF Recorded
<1>3. /\ pc'[r] = "done"
      /\ \/ found.hash # RequestHash(r) /\ answer'[r].says = "mismatch"
         \/ /\ found.hash = RequestHash(r) /\ answer'[r].id = found.id
            /\ answer'[r].says = "replayed"
  BY <1>1 DEF Replays, MapLedgerReplay, Reply, Recorded, Steady, TypeOK
<1> HIDE DEF found
<1>4. ~ Said(r, "placed")' /\ ~ HoldsIdentity(r)'
  BY <1>3 DEF Said, HoldsIdentity
<1>5. Kept'
  BY <1>4, KeptByOthers DEF Replays, Steady
<1>6. \A q \in Requests : Said(q, "placed") => q # r /\ answer'[q] = answer[q] /\ Said(q, "placed")'
  BY FrameFacts
<1>7. \A o, q \in Requests : /\ SameCommand(o, q)' = SameCommand(o, q)
                             /\ SameIdentity(o, q)' = SameIdentity(o, q)
  BY FrameFacts DEF SameCommand, SameIdentity
<1>8. CommandExecutedOnce'
  BY <1>4, <1>7, FrameFacts DEF Promised, CommandExecutedOnce
<1>9. ReplaysTellTheTruth'
  <2> SUFFICES ASSUME NEW q \in Requests
               PROVE Said(q, "replayed")' =>
                        \E o \in Requests : /\ Said(o, "placed")'
                                            /\ SameCommand(o, q)'
                                            /\ answer'[o].id = answer'[q].id
    BY DEF ReplaysTellTheTruth
  <2>1. CASE q # r
    <3>1. answer'[q] = answer[q]
      BY <2>1, FrameFacts
    <3> QED
      BY <1>6, <1>7, <3>1 DEF Promised, ReplaysTellTheTruth, Said
  <2>2. CASE q = r
    <3>1. answer[p].id = found.id /\ RequestHash(p) = found.hash
      BY <1>1 DEF Recorded
    <3>2. Said(q, "replayed")' => Said(p, "placed") /\ SameCommand(p, r) /\ answer'[r].id = found.id
      BY <1>1, <1>3, <2>2, <3>1 DEF Recorded, Said, SameCommand, SameIdentity
    <3> QED
      BY <1>6, <1>7, <2>2, <3>1, <3>2
  <2> QED
    BY <2>1, <2>2
<1>10. MismatchMeansReuse'
  <2> SUFFICES ASSUME NEW q \in Requests, Said(q, "mismatch")'
               PROVE  \E o \in Requests : /\ Said(o, "placed")'
                                          /\ SameIdentity(o, q)'
                                          /\ RequestHash(o)' # RequestHash(q)'
    BY DEF MismatchMeansReuse
  <2>1. CASE q # r
    <3>1. Said(q, "mismatch")
      BY <2>1, FrameFacts DEF Said
    <3> QED
      BY <1>6, <1>7, <3>1, FrameFacts DEF Promised, MismatchMeansReuse
  <2>2. CASE q = r
    <3>1. RequestHash(p) # RequestHash(r)
      BY <1>1, <1>3, <2>2 DEF Recorded, Said
    <3> QED
      BY <1>1, <1>2, <1>6, <1>7, <2>2, <3>1, FrameFacts DEF SameIdentity
  <2> QED
    BY <2>1, <2>2
<1> QED
  BY <1>5, <1>8, <1>9, <1>10 DEF Promised

\* A step that only goes on, or ends a call without a word about commands.
LEMMA OthersNext ==
    ASSUME CommandInv, NEW r \in Requests, Frame(r), SaysElse(r) \/ GoesOn(r)
    PROVE  Kept' /\ Promised'
<1> USE DEF CommandInv
<1>1. CASE SaysElse(r)
  <2>1. pc'[r] = "done" /\ answer'[r].says \notin {"placed", "replayed", "mismatch"}
    BY <1>1 DEF SaysElse, Reply, Steady, TypeOK
  <2>2. ~ Said(r, "placed")' /\ ~ HoldsIdentity(r)'
    BY <2>1 DEF Said, HoldsIdentity
  <2> QED
    BY <1>1, <2>1, <2>2, KeptByOthers, PromisedByOthers DEF SaysElse, Steady
<1>2. CASE GoesOn(r)
  <2>1. ~ Said(r, "placed")
    BY FrameFacts DEF Kept
  <2>2. ~ Said(r, "placed")'
    BY <1>2, <2>1 DEF GoesOn, Said
  <2> QED
    BY <1>2, <2>2, KeptByOthers, PromisedByOthers DEF GoesOn, Steady
<1> QED
  BY <1>1, <1>2

\* A call begins: nothing was answered to it, and it holds nothing yet.
LEMMA BeginNext ==
    ASSUME CommandInv, NEW r \in Requests, Begin(r)
    PROVE  Kept' /\ Promised'
<1> USE DEF CommandInv, Kept
<1>1. /\ pc[r] = "new" /\ pc'[r] \in {"lookup", "touch"}
      /\ \A o \in Requests \ {r} : pc'[o] = pc[o] /\ now'[o] = now[o]
      /\ UNCHANGED <<clock, ledger, job, answer>>
  BY DEF Begin, GoTo, Steady, TypeOK, tables
<1>2. \A p \in Requests : /\ Identity(p)' = Identity(p)
                          /\ RequestHash(p)' = RequestHash(p)
                          /\ Said(p, "placed")' <=> Said(p, "placed")
  BY <1>1 DEF Identity, RequestHash, Said
<1>3. ~ Said(r, "placed") /\ \A p \in Requests : Said(p, "placed") => now'[p] = now[p]
  BY <1>1 DEF AnsweredIsDone
<1>4. \A p \in Requests : /\ Said(p, "placed") => Over(p)' = Over(p)
                          /\ HoldsIdentity(p)' => HoldsIdentity(p) /\ p # r
  BY <1>1, <1>3 DEF Over, HoldsIdentity
<1>5. AnsweredIsDone'
  BY <1>1, <1>2, <1>3 DEF AnsweredIsDone
<1>6. IdentityLock' /\ HolderComesAfter'
  BY <1>2, <1>4 DEF IdentityLock, HolderComesAfter, SameIdentity
<1>7. AnswerIsKept'
  BY <1>1, <1>2, <1>3, <1>4 DEF AnswerIsKept
<1>8. LedgerIsAnswered'
  <2>1. \A p \in Requests, k \in Identities : Recorded(p, ledger[k])' = Recorded(p, ledger[k])
    BY <1>1, <1>2 DEF Recorded, Said
  <2> QED
    BY <1>1, <1>2, <2>1 DEF LedgerIsAnswered
<1>9. CommandExecutedOnce'
  BY <1>1, <1>2, <1>3 DEF Promised, CommandExecutedOnce, SameIdentity
<1>10. ReplaysTellTheTruth' /\ MismatchMeansReuse'
  BY <1>1, <1>2 DEF Promised, ReplaysTellTheTruth, MismatchMeansReuse, SameCommand,
     SameIdentity, Said
<1> QED
  BY <1>5, <1>6, <1>7, <1>8, <1>9, <1>10 DEF Promised

\* The purge takes rows whose answers have expired, time only makes more of them.
LEMMA WorldNext ==
    ASSUME CommandInv, PurgeExpiredPlacementCommandLedger \/ Tick \/ UNCHANGED vars
    PROVE  Kept' /\ Promised'
<1> USE DEF CommandInv, Kept, tables, locals
<1>1. /\ UNCHANGED <<pc, job, now, answer>>
      /\ clock' \in Nat /\ clock' >= clock
      /\ \A k \in Identities : \/ ledger'[k] = ledger[k]
                               \/ /\ ledger'[k] = NoRow /\ ledger[k] # NoRow
                                  /\ ledger[k].expires <= clock
  BY DEF PurgeExpiredPlacementCommandLedger, Tick, vars, Steady, TypeOK
<1>2. \A p \in Requests : /\ Identity(p)' = Identity(p)
                          /\ RequestHash(p)' = RequestHash(p)
                          /\ Said(p, "placed")' <=> Said(p, "placed")
                          /\ HoldsIdentity(p)' <=> HoldsIdentity(p)
  BY <1>1 DEF Identity, RequestHash, Said, HoldsIdentity
<1>3. \A p \in Requests : Over(p) => Over(p)'
  <2> SUFFICES ASSUME NEW p \in Requests, Over(p) PROVE Over(p)'
    OBVIOUS
  <2>1. now[p] + ReplayWindow \in Nat /\ clock \in Nat
    BY ParameterAssumption DEF Steady, TypeOK
  <2> QED
    BY <1>1, <2>1 DEF Over
<1>4. AnsweredIsDone' /\ IdentityLock' /\ HolderComesAfter'
  BY <1>1, <1>2, <1>3 DEF AnsweredIsDone, IdentityLock, HolderComesAfter, SameIdentity
<1>5. AnswerIsKept'
  <2> SUFFICES ASSUME NEW p \in Requests, Said(p, "placed"), ~ Over(p)'
               PROVE  /\ ledger'[Identity(p)] # NoRow
                      /\ ledger'[Identity(p)].expires >= now[p] + ReplayWindow
    BY <1>1, <1>2 DEF AnswerIsKept
  <2> DEFINE kept == ledger[Identity(p)]
  <2>1. kept # NoRow /\ kept.expires >= now[p] + ReplayWindow /\ ~ Over(p)
    BY <1>3 DEF AnswerIsKept
  <2>2. Identity(p) \in Identities /\ kept \in Row
    BY <2>1, JobFacts DEF Steady, TypeOK
  <2>3. kept.expires \in Int /\ now[p] + ReplayWindow \in Nat /\ clock \in Nat
    BY <2>2, ParameterAssumption DEF Row, Steady, TypeOK
  <2>4. ~ (kept.expires <= clock)
    BY <2>1, <2>3 DEF Over
  <2> QED
    BY <1>1, <2>1, <2>2, <2>4
<1>6. LedgerIsAnswered'
  <2> SUFFICES ASSUME NEW k \in Identities, ledger'[k] # NoRow
               PROVE  \E p \in Requests : Identity(p)' = k /\ Recorded(p, ledger[k])'
    BY DEF LedgerIsAnswered
  <2>1. ledger'[k] = ledger[k]
    BY <1>1
  <2>2. PICK p \in Requests : Identity(p) = k /\ Recorded(p, ledger[k])
    BY <2>1 DEF LedgerIsAnswered
  <2>3. Recorded(p, ledger[k])'
    BY <1>1, <1>2, <2>1, <2>2 DEF Recorded, Said
  <2> QED
    BY <1>2, <2>2, <2>3
<1>7. Promised'
  BY <1>1, <1>2 DEF Promised, CommandExecutedOnce, ReplaysTellTheTruth, MismatchMeansReuse,
     SameCommand, SameIdentity, Said
<1> QED
  BY <1>4, <1>5, <1>6, <1>7

\* Every step keeps what the ledger's induction takes for granted of a transaction.
LEMMA SteadyNext == Steady /\ [Next]_vars => Steady'
<1> SUFFICES ASSUME Steady, [Next]_vars PROVE Steady'
  OBVIOUS
<1> USE DEF tables, locals
<1>1. TypeOK /\ TypeOK' /\ StagesByKind'
  BY TypeNext, StagesNext DEF Steady
<1>2. ASSUME NEW r \in Requests, Begin(r)
      PROVE  NowIsPast' /\ RowIsAnswer'
  <2>1. /\ pc'[r] \in {"lookup", "touch"} /\ now'[r] <= clock
        /\ \A o \in Requests \ {r} : pc'[o] = pc[o] /\ now'[o] = now[o]
        /\ UNCHANGED <<clock, job, tile, row>>
    BY <1>1, <1>2, ParameterAssumption DEF Begin, GoTo, TypeOK
  <2>2. NowIsPast'
    BY <2>1 DEF Steady, NowIsPast
  <2>3. RowIsAnswer'
    BY <2>1 DEF Steady, RowIsAnswer, LedgerRow, RequestHash
  <2> QED
    BY <2>2, <2>3
<1>3. ASSUME NEW r \in Requests, Statement(r) \/ Abort(r)
      PROVE  NowIsPast' /\ RowIsAnswer'
  <2>1. Frame(r)
    BY <1>3, CommandStep DEF Steady
  <2>2. \/ pc'[r] # "commit"
        \/ pc'[r] = "commit" /\ job[r].kind # "place"
        \/ /\ pc'[r] = "commit" /\ tile' = tile
           /\ row'[r] = LedgerRow(r, "applied", tile[r].id)
    <3> USE <1>1
    <3>1. CASE SelectCommandForUpdate(r) \/ UpdatePending(r) \/ InsertPending(r)
      BY <3>1 DEF SelectCommandForUpdate, MapLedgerReplay, UpdatePending, InsertPending,
         WritePending, Reply, GoTo, TypeOK
    <3>2. CASE InsertTile(r)
      BY <3>2 DEF InsertTile, Reply, GoTo, TypeOK
    <3>3. CASE SelectVersionForUpdate(r) \/ UpsertVersion(r) \/ InsertDelta(r) \/ TouchTile(r)
      BY <3>3 DEF SelectVersionForUpdate, UpsertVersion, InsertDelta, TouchTile, GoTo, TypeOK
    <3>4. CASE SettleApplied(r)
      BY <3>4 DEF SettleApplied, GoTo, TypeOK
    <3>5. CASE Commit(r) \/ Explain(r) \/ Abort(r)
      BY <3>5 DEF Commit, Explain, Abort, Reply, TypeOK
    <3> QED
      BY <1>3, <3>1, <3>2, <3>3, <3>4, <3>5 DEF Statement
  <2>3. NowIsPast'
    BY <2>1 DEF Frame, Steady, NowIsPast
  <2>4. RowIsAnswer'
    BY <2>1, <2>2 DEF Frame, Steady, RowIsAnswer, LedgerRow, RequestHash
  <2> QED
    BY <2>3, <2>4
<1>4. CASE PurgeExpiredPlacementCommandLedger \/ Tick \/ UNCHANGED vars
  <2>1. UNCHANGED <<pc, job, now, tile, row>> /\ clock' >= clock
    BY <1>1, <1>4 DEF PurgeExpiredPlacementCommandLedger, Tick, vars, TypeOK
  <2>2. NowIsPast'
    BY <1>1, <2>1 DEF Steady, NowIsPast, TypeOK
  <2>3. RowIsAnswer'
    BY <2>1 DEF Steady, RowIsAnswer, LedgerRow, RequestHash
  <2> QED
    BY <1>1, <2>2, <2>3 DEF Steady
<1> QED
  BY <1>1, <1>2, <1>3, <1>4 DEF Next, Finished, Steady

\* Every step keeps the promises of the ledger.
LEMMA CommandNext == CommandInv /\ [Next]_vars => CommandInv'
<1> SUFFICES ASSUME CommandInv, [Next]_vars PROVE CommandInv'
  OBVIOUS
<1>1. Steady'
  BY SteadyNext DEF CommandInv
<1>2. CASE \E r \in Requests : Begin(r)
  BY <1>1, <1>2, BeginNext DEF CommandInv
<1>3. ASSUME NEW r \in Requests, Statement(r) \/ Abort(r) PROVE CommandInv'
  <2>1. /\ Frame(r)
        /\ Executes(r) \/ Takes(r) \/ Replays(r) \/ SaysElse(r) \/ GoesOn(r)
    BY <1>3, CommandStep DEF CommandInv, Steady
  <2> QED
    BY <1>1, <2>1, ExecutesNext, TakesNext, ReplaysNext, OthersNext DEF CommandInv
<1>4. CASE PurgeExpiredPlacementCommandLedger \/ Tick \/ UNCHANGED vars
  BY <1>1, <1>4, WorldNext DEF CommandInv
<1> QED
  BY <1>2, <1>3, <1>4 DEF Next, Finished

\* However many requests carry a command identity, at once or one after another, in a
\* region with or without tiles, it is executed once per replay window.
THEOREM CommandsOnce == EmptySpec \/ FoundedSpec => []CommandExecutedOnce
<1>1. CommandInv => CommandExecutedOnce
  BY DEF CommandInv, Promised
<1> QED
  BY <1>1, CommandInit, CommandNext, PTL DEF EmptySpec, FoundedSpec

\* What a replay answers was answered to the very same command.
THEOREM TruthfulReplays == EmptySpec \/ FoundedSpec => []ReplaysTellTheTruth
<1>1. CommandInv => ReplaysTellTheTruth
  BY DEF CommandInv, Promised
<1> QED
  BY <1>1, CommandInit, CommandNext, PTL DEF EmptySpec, FoundedSpec

\* No race of a request with its own duplicate is taken for another payload.
THEOREM MismatchesAreReuse == EmptySpec \/ FoundedSpec => []MismatchMeansReuse
<1>1. CommandInv => MismatchMeansReuse
  BY DEF CommandInv, Promised
<1> QED
  BY <1>1, CommandInit, CommandNext, PTL DEF EmptySpec, FoundedSpec

-----------------------------------------------------------------------------
(* What the callers were told adds up to what is stored *)

\* Only a call that has ended was answered.
AnswerIsFinal == \A r \in Requests : answer[r].says # "none" => pc[r] = "done"

StoreInv == Steady /\ LocksHold /\ VersionsDense
AddUpInv == AnswerIsFinal /\ CellsAddUp

\* The requests can be counted.
LEMMA CountType ==
    ASSUME NEW S \in SUBSET Requests
    PROVE  IsFiniteSet(S) /\ Cardinality(S) \in Nat
  BY ParameterAssumption, FS_Subset, FS_CardinalityType

\* A step of one request counts this one where it is answered, and no other.
LEMMA CountStep ==
    ASSUME NEW r \in Requests, NEW c \in Cells, NEW what, ~ Said(r, what), job' = job,
           \A o \in Requests \ {r} : answer'[o] = answer[o]
    PROVE  Cardinality(Told(c, what))' =
             Cardinality(Told(c, what))
               + (IF Said(r, what)' /\ job[r].cell = c THEN 1 ELSE 0)
<1> DEFINE old == Told(c, what)
           new == {o \in Requests : answer'[o].says = what /\ job[o].cell = c}
<1>1. Told(c, what)' = new
  BY DEF Told, Said
<1>2. old \in SUBSET Requests /\ r \notin old
  BY DEF Told
<1>3. IsFiniteSet(old) /\ Cardinality(old) \in Nat
  BY <1>2, CountType
<1>4. CASE Said(r, what)' /\ job[r].cell = c
  <2>1. new = old \cup {r}
    BY <1>4 DEF Told, Said
  <2> HIDE DEF old, new
  <2>2. Cardinality(old \cup {r}) = Cardinality(old) + 1
    BY <1>2, <1>3, FS_AddElement
  <2>3. Cardinality(new) = Cardinality(old) + 1
    BY <2>1, <2>2
  <2> QED
    BY <1>1, <1>4, <2>3 DEF old
<1>5. CASE ~ (Said(r, what)' /\ job[r].cell = c)
  <2>1. new = old
    BY <1>5 DEF Told, Said
  <2> HIDE DEF new
  <2>2. Cardinality(new) = Cardinality(old) + 0
    BY <1>3, <2>1
  <2> QED
    BY <1>1, <1>5, <2>2
<1> QED
  BY <1>4, <1>5

\* A step after which the callers know what they knew before.
LEMMA AddUpStays ==
    ASSUME AddUpInv, AnswerIsFinal', UNCHANGED <<tiles, deltas, job, answer>>
    PROVE  AddUpInv'
  BY DEF AddUpInv, CellsAddUp, Told, Said, Founding, Standing

\* A request that commits no tile tells nobody that one was placed or deleted, and a
\* violation only where a tile stands.
LEMMA OthersSay ==
    ASSUME TypeOK, NEW r \in Requests, Statement(r) \/ Abort(r), ~ Commit(r)
    PROVE  \/ answer' = answer
           \/ /\ pc'[r] = "done"
              /\ answer'[r].says \notin {"placed", "deleted"}
              /\ answer'[r].says = "uniqueViolation" => tiles[job[r].cell] # NoTile
<1>1. CASE SelectCommandForUpdate(r) \/ UpdatePending(r) \/ InsertPending(r)
  BY <1>1 DEF SelectCommandForUpdate, MapLedgerReplay, UpdatePending, InsertPending, Reply,
     TypeOK
<1>2. CASE InsertTile(r)
  BY <1>2 DEF InsertTile, Reply, TypeOK
<1>3. CASE \/ SelectVersionForUpdate(r) \/ UpsertVersion(r) \/ InsertDelta(r)
           \/ SettleApplied(r) \/ TouchTile(r)
  BY <1>3 DEF SelectVersionForUpdate, UpsertVersion, InsertDelta, SettleApplied, TouchTile
<1>4. CASE Explain(r) \/ Abort(r)
  BY <1>4 DEF Explain, Abort, Reply, TypeOK
<1> QED
  BY <1>1, <1>2, <1>3, <1>4 DEF Statement

\* The first change of a founded region is kept.
LEMMA FoundingStays ==
    ASSUME StoreInv, [Next]_vars
    PROVE  deltas'[1] = deltas[1]
<1>1. Len(deltas) \in Nat /\ Len(deltas) # 0 /\ deltas \in Seq(Delta)
  BY DEF StoreInv, Steady, TypeOK, VersionsDense, LocksHold, VersionLock
<1>2. ASSUME NEW r \in Requests, Commit(r) PROVE deltas'[1] = deltas[1]
  <2>1. CommittedDelta(r) \in Delta
    BY JobFacts DEF CommittedDelta, Delta, JobType, TypeOK, StoreInv, Steady
  <2> QED
    BY <1>1, <1>2, <2>1 DEF Commit
<1> QED
  BY <1>2, OnlyCommit

\* In a founded region the one tile is the first delta's, and nobody was told anything.
LEMMA AddUpInit == FoundedInit => AddUpInv
<1> SUFFICES ASSUME FoundedInit PROVE AddUpInv
  OBVIOUS
<1>1. \A r \in Requests : answer[r].says = "none"
  BY DEF FoundedInit, IdleInit, NoAnswer
<1>2. ASSUME NEW c \in Cells
      PROVE  Founding(c) = Standing(c)
  <2>1. PICK x \in Cells, a \in Actors, l \in Looks :
           /\ tiles = [y \in Cells |->
                         IF y = x THEN [id |-> 1, owner |-> a, look |-> l, at |-> 0]
                                  ELSE NoTile]
           /\ deltas = << [version |-> 1, cell |-> x, op |-> "upsert",
                           owner |-> a, look |-> l] >>
    BY DEF FoundedInit
  <2>2. deltas[1].cell = x
    BY <2>1
  <2>3. tiles[c] = NoTile <=> c # x
    BY <2>1 DEF NoTile
  <2> QED
    BY <2>2, <2>3 DEF Founding, Standing
<1>3. ASSUME NEW c \in Cells, NEW what \in {"placed", "deleted", "uniqueViolation"}
      PROVE  Told(c, what) = {} /\ Cardinality(Told(c, what)) = 0
  <2>1. Told(c, what) = {}
    BY <1>1 DEF Told, Said
  <2> QED
    BY <2>1, FS_EmptySet
<1>4. CellsAddUp
  <2> SUFFICES ASSUME NEW c \in Cells
               PROVE  /\ Founding(c) + Cardinality(Told(c, "placed"))
                           = Cardinality(Told(c, "deleted")) + Standing(c)
                      /\ Told(c, "uniqueViolation") = {}
    BY DEF CellsAddUp
  <2> QED
    BY <1>2, <1>3 DEF Founding
<1> QED
  BY <1>1, <1>4 DEF AddUpInv, AnswerIsFinal

\* A statement that commits no tile leaves the sums as they are.
LEMMA AddUpQuiet ==
    ASSUME StoreInv, AddUpInv, [Next]_vars, NEW r \in Requests,
           Statement(r) \/ Abort(r), \A o \in Requests : ~ Commit(o)
    PROVE  AddUpInv'
<1>1. Frame(r) /\ UNCHANGED <<tiles, deltas>>
  BY CommandStep, OnlyCommit DEF StoreInv, Steady
<1>2. AnswerIsFinal'
  BY <1>1, OthersSay DEF Frame, AddUpInv, AnswerIsFinal, StoreInv, Steady
<1>3. CASE answer' = answer
  BY <1>1, <1>2, <1>3, AddUpStays DEF Frame
<1>4. CASE answer' # answer
  <2>1. /\ answer'[r].says \notin {"placed", "deleted"}
        /\ answer'[r].says = "uniqueViolation" => tiles[job[r].cell] # NoTile
    BY <1>4, OthersSay DEF StoreInv, Steady
  <2>2. \A what \in {"placed", "deleted", "uniqueViolation"} : ~ Said(r, what)
    BY <1>1 DEF Frame, AddUpInv, AnswerIsFinal, Said
  <2>3. ASSUME NEW c \in Cells
        PROVE  /\ (Founding(c) + Cardinality(Told(c, "placed")))'
                    = (Cardinality(Told(c, "deleted")) + Standing(c))'
               /\ Told(c, "uniqueViolation")' # {}
                    => (Founding(c) + Cardinality(Told(c, "placed")))' > 0
    <3> DEFINE placed == Cardinality(Told(c, "placed"))
               deleted == Cardinality(Told(c, "deleted"))
    <3>1. placed \in Nat /\ deleted \in Nat
      BY CountType DEF Told
    <3>2. placed' = placed /\ deleted' = deleted
      <4>1. ~ Said(r, "placed")' /\ ~ Said(r, "deleted")'
        BY <2>1 DEF Said
      <4> QED
        BY <1>1, <2>2, <3>1, <4>1, CountStep DEF Frame
    <3>3. Founding(c)' = Founding(c) /\ Standing(c)' = Standing(c)
      BY <1>1 DEF Founding, Standing
    <3>4. Founding(c) \in Nat /\ Standing(c) \in Nat
      BY DEF Founding, Standing
    <3>5. Founding(c) + placed = deleted + Standing(c)
      BY DEF AddUpInv, CellsAddUp
    <3>6. ASSUME NEW q \in Requests, Said(q, "uniqueViolation")', job'[q].cell = c
          PROVE  Founding(c) + placed > 0
      <4>1. CASE q = r
        <5>1. Standing(c) = 1
          BY <1>1, <2>1, <3>6, <4>1 DEF Frame, Said, Standing
        <5> QED
          BY <3>1, <3>4, <3>5, <5>1
      <4>2. CASE q # r
        <5>1. q \in Told(c, "uniqueViolation")
          BY <1>1, <3>6, <4>2 DEF Frame, Said, Told
        <5> QED
          BY <5>1 DEF AddUpInv, CellsAddUp
      <4> QED
        BY <4>1, <4>2
    <3>7. Told(c, "uniqueViolation")' # {} => Founding(c) + placed > 0
      BY <3>6 DEF Told
    <3> HIDE DEF placed, deleted
    <3>8. /\ Founding(c)' + placed' = deleted' + Standing(c)'
          /\ Told(c, "uniqueViolation")' # {} => Founding(c)' + placed' > 0
      BY <3>2, <3>3, <3>5, <3>7
    <3> QED
      BY <3>8 DEF placed, deleted
  <2> QED
    BY <1>2, <2>3 DEF AddUpInv, CellsAddUp
<1> QED
  BY <1>3, <1>4

\* A commit changes what stands in the cell by what it tells its caller.
LEMMA AddUpCommit ==
    ASSUME StoreInv, AddUpInv, [Next]_vars, NEW r \in Requests, Commit(r)
    PROVE  AddUpInv'
<1>1. Frame(r) /\ TypeOK /\ job' = job
  BY CommandStep DEF StoreInv, Steady, Statement, Frame
<1>2. /\ pc[r] = "commit" /\ HoldsCell(r) /\ job[r].cell \in Cells
      /\ job[r].kind \in {"place", "edit", "delete"}
      /\ pc'[r] = "done" /\ answer'[r].says = Done[job[r].kind]
  BY <1>1, JobFacts DEF Commit, HoldsCell, JobType, Reply, TypeOK
<1>3. AnswerIsFinal'
  BY <1>1, <1>2 DEF Frame, AddUpInv, AnswerIsFinal
<1>4. \A what \in {"placed", "deleted", "uniqueViolation"} : ~ Said(r, what)
  BY <1>1 DEF Frame, AddUpInv, AnswerIsFinal, Said
<1>5. /\ Said(r, "placed")' <=> job[r].kind = "place"
      /\ Said(r, "deleted")' <=> job[r].kind = "delete"
      /\ ~ Said(r, "uniqueViolation")'
  BY <1>2 DEF Said, Done
<1>6. /\ job[r].kind = "place" <=> tiles[job[r].cell] = NoTile
      /\ job[r].kind # "delete" => tile[r] # NoTile
  BY <1>2 DEF StoreInv, LocksHold, CellAsFound
<1>7. ASSUME NEW c \in Cells
      PROVE  /\ (Founding(c) + Cardinality(Told(c, "placed")))'
                  = (Cardinality(Told(c, "deleted")) + Standing(c))'
             /\ Told(c, "uniqueViolation")' # {}
                  => (Founding(c) + Cardinality(Told(c, "placed")))' > 0
  <2> DEFINE placed == Cardinality(Told(c, "placed"))
             deleted == Cardinality(Told(c, "deleted"))
             here(kind) == IF job[r].kind = kind /\ job[r].cell = c THEN 1 ELSE 0
  <2>1. placed \in Nat /\ deleted \in Nat
    BY CountType DEF Told
  <2>2. placed' = placed + here("place") /\ deleted' = deleted + here("delete")
    BY <1>1, <1>4, <1>5, CountStep DEF Frame
  <2>3. Founding(c)' = Founding(c) /\ Founding(c) \in Nat /\ Standing(c) \in Nat
    BY FoundingStays DEF Founding, Standing
  <2>4. Founding(c) + placed = deleted + Standing(c)
    BY DEF AddUpInv, CellsAddUp
  <2>5. Standing(c)' + here("delete") = Standing(c) + here("place")
    <3>1. CASE job[r].cell = c
      <4>1. tiles'[c] = IF job[r].kind = "delete" THEN NoTile ELSE tile[r]
        BY <1>1, <3>1 DEF Commit, TypeOK
      <4> QED
        BY <1>2, <1>6, <3>1, <4>1 DEF Standing
    <3>2. CASE job[r].cell # c
      <4>1. tiles'[c] = tiles[c]
        BY <1>1, <3>2 DEF Commit, TypeOK
      <4> QED
        BY <2>3, <3>2, <4>1 DEF Standing
    <3> QED
      BY <3>1, <3>2
  <2>6. Told(c, "uniqueViolation")' # {} => Told(c, "uniqueViolation") # {}
    BY <1>1, <1>5 DEF Frame, Told, Said
  <2>7. Told(c, "uniqueViolation")' # {} => Founding(c) + placed > 0
    BY <2>6 DEF AddUpInv, CellsAddUp
  <2>8. here("place") \in Nat /\ here("delete") \in Nat /\ Standing(c)' \in Nat
    BY DEF Standing
  <2> HIDE DEF placed, deleted, here
  <2>9. /\ Founding(c)' + placed' = deleted' + Standing(c)'
        /\ Told(c, "uniqueViolation")' # {} => Founding(c)' + placed' > 0
    BY <2>1, <2>2, <2>3, <2>4, <2>5, <2>7, <2>8
  <2> QED
    BY <2>9 DEF placed, deleted
<1> QED
  BY <1>3, <1>7 DEF AddUpInv, CellsAddUp

\* Every step keeps the sums.
LEMMA AddUpNext == StoreInv /\ AddUpInv /\ [Next]_vars => AddUpInv'
<1> SUFFICES ASSUME StoreInv, AddUpInv, [Next]_vars PROVE AddUpInv'
  OBVIOUS
<1> USE DEF tables, locals
<1>1. ASSUME NEW r \in Requests, Commit(r) PROVE AddUpInv'
  BY <1>1, AddUpCommit
<1>2. ASSUME NEW r \in Requests, Statement(r) \/ Abort(r), \A o \in Requests : ~ Commit(o)
      PROVE  AddUpInv'
  BY <1>2, AddUpQuiet
<1>3. ASSUME NEW r \in Requests, Begin(r) PROVE AddUpInv'
  <2>1. AnswerIsFinal' /\ UNCHANGED <<tiles, deltas, job, answer>>
    BY <1>3 DEF Begin, GoTo, AddUpInv, AnswerIsFinal, StoreInv, Steady, TypeOK
  <2> QED
    BY <2>1, AddUpStays
<1>4. CASE PurgeExpiredPlacementCommandLedger \/ Tick \/ UNCHANGED vars
  <2>1. AnswerIsFinal' /\ UNCHANGED <<tiles, deltas, job, answer>>
    BY <1>4 DEF PurgeExpiredPlacementCommandLedger, Tick, vars, AddUpInv, AnswerIsFinal
  <2> QED
    BY <2>1, AddUpStays
<1> QED
  BY <1>1, <1>2, <1>3, <1>4 DEF Next, Finished

\* In every cell, of any number of calls made at once, what the callers were told was
\* placed and deleted adds up to the tile that stands there, and a placement is refused
\* by the unique key only in a cell where one was placed.
THEOREM AnswersAddUp == FoundedSpec => []CellsAddUp
<1>1. FoundedInit => StoreInv /\ AddUpInv
  <2>1. FoundedInit => VersionsDense
    <3> SUFFICES ASSUME FoundedInit PROVE VersionsDense
      OBVIOUS
    <3>1. PICK c \in Cells, a \in Actors, l \in Looks :
             deltas = << [version |-> 1, cell |-> c, op |-> "upsert",
                          owner |-> a, look |-> l] >>
      BY DEF FoundedInit
    <3> QED
      BY <3>1 DEF FoundedInit, VersionsDense
  <2> QED
    BY <2>1, CommandInit, LocksInit, AddUpInit DEF StoreInv, CommandInv
<1>2. StoreInv /\ [Next]_vars => StoreInv'
  BY SteadyNext, LocksNext, DenseNext DEF StoreInv, Steady
<1>3. StoreInv /\ AddUpInv /\ [Next]_vars => AddUpInv'
  BY AddUpNext
<1>4. AddUpInv => CellsAddUp
  BY DEF AddUpInv
<1> QED
  BY <1>1, <1>2, <1>3, <1>4, PTL DEF FoundedSpec

-----------------------------------------------------------------------------
(* No deadlock *)

\* The row of the region version is locked by one transaction at a time, also while
\* there is no row yet and several of them are about to insert it.
VersionRowLock ==
    \A r, o \in Requests : HoldsVersion(r) /\ HoldsVersion(o) => r = o

\* A step after which no request holds the version that did not hold it before.
LEMMA VersionKept ==
    ASSUME VersionRowLock, \A o \in Requests : HoldsVersion(o)' => HoldsVersion(o)
    PROVE  VersionRowLock'
  BY DEF VersionRowLock

\* A step of one request that takes the version, or does not, while nobody else has it.
LEMMA VersionTaken ==
    ASSUME NEW r \in Requests, VersionFree(r),
           \A o \in Requests \ {r} : HoldsVersion(o)' => HoldsVersion(o)
    PROVE  VersionRowLock'
  BY DEF VersionRowLock, VersionFree

\* Every step keeps the version with one holder.
LEMMA VersionRowNext == TypeOK /\ VersionRowLock /\ [Next]_vars => VersionRowLock'
<1> SUFFICES ASSUME TypeOK, VersionRowLock, [Next]_vars PROVE VersionRowLock'
  OBVIOUS
<1> USE DEF tables, locals
<1>1. ASSUME NEW r \in Requests, Begin(r) PROVE VersionRowLock'
  BY <1>1, VersionKept DEF Begin, GoTo, HoldsVersion, TypeOK
<1>2. ASSUME NEW r \in Requests,
             SelectCommandForUpdate(r) \/ UpdatePending(r) \/ InsertPending(r)
      PROVE  VersionRowLock'
  <2>1. \A o \in Requests : HoldsVersion(o)' => HoldsVersion(o)
    BY <1>2 DEF SelectCommandForUpdate, MapLedgerReplay, UpdatePending, InsertPending,
                WritePending, Reply, GoTo, HoldsVersion, TypeOK
  <2> QED
    BY <2>1, VersionKept
<1>3. ASSUME NEW r \in Requests,
             InsertTile(r) \/ TouchTile(r)
      PROVE  VersionRowLock'
  <2>1. \A o \in Requests : HoldsVersion(o)' => HoldsVersion(o)
    BY <1>3 DEF InsertTile, TouchTile, Reply, GoTo, HoldsVersion, TypeOK
  <2> QED
    BY <2>1, VersionKept
<1>4. ASSUME NEW r \in Requests, SelectVersionForUpdate(r) PROVE VersionRowLock'
  <2>1. \A o \in Requests \ {r} : HoldsVersion(o)' => HoldsVersion(o)
    BY <1>4 DEF SelectVersionForUpdate, GoTo, HoldsVersion, TypeOK
  <2>2. CASE version = 0
    <3>1. ~ HoldsVersion(r)'
      BY <1>4, <2>2 DEF SelectVersionForUpdate, GoTo, HoldsVersion, TypeOK
    <3> QED
      BY <2>1, <3>1, VersionKept
  <2>3. CASE version # 0
    <3>1. VersionFree(r)
      BY <1>4, <2>3, UnblockedIsFree DEF SelectVersionForUpdate, NeedsVersion
    <3> QED
      BY <2>1, <3>1, VersionTaken
  <2> QED
    BY <2>2, <2>3
<1>5. ASSUME NEW r \in Requests, UpsertVersion(r) PROVE VersionRowLock'
  <2>1. VersionFree(r)
    BY <1>5, UnblockedIsFree DEF UpsertVersion, NeedsVersion
  <2>2. \A o \in Requests \ {r} : HoldsVersion(o)' => HoldsVersion(o)
    BY <1>5 DEF UpsertVersion, GoTo, HoldsVersion, TypeOK
  <2> QED
    BY <2>1, <2>2, VersionTaken
<1>6. ASSUME NEW r \in Requests, InsertDelta(r) \/ SettleApplied(r) PROVE VersionRowLock'
  BY <1>6, VersionKept DEF InsertDelta, SettleApplied, GoTo, HoldsVersion, TypeOK
<1>7. ASSUME NEW r \in Requests,
             Commit(r) \/ Explain(r) \/ Abort(r)
      PROVE  VersionRowLock'
  <2>1. \A o \in Requests : HoldsVersion(o)' => HoldsVersion(o)
    BY <1>7 DEF Commit, Explain, Abort, Reply, HoldsVersion, TypeOK
  <2> QED
    BY <2>1, VersionKept
<1>8. CASE PurgeExpiredPlacementCommandLedger \/ Tick \/ UNCHANGED vars
  BY <1>8, VersionKept DEF PurgeExpiredPlacementCommandLedger, Tick, vars, HoldsVersion
<1> QED
  BY <1>1, <1>2, <1>3, <1>4, <1>5, <1>6, <1>7, <1>8 DEF Next, Finished, Statement

\* How far a transaction is in the order of its locks: command, cell, region version.
Rank(r) ==
    IF HoldsVersion(r) THEN 4
    ELSE IF pc[r] = "writeVersion" THEN 3
    ELSE IF pc[r] = "readVersion" THEN 2
    ELSE IF pc[r] \in {"lookup", "insertPending"} THEN 0
    ELSE 1

\* A request that makes another one wait is further.
LEMMA BlockersAreFurther ==
    ASSUME VersionRowLock, NEW r \in Requests, NEW o \in Requests \ {r}, Blocks(o, r)
    PROVE  Rank(o) > Rank(r)
<1>1. CASE NeedsIdentity(r) /\ HoldsIdentity(o)
  <2>1. Rank(r) = 0
    BY <1>1 DEF NeedsIdentity, Rank, HoldsVersion
  <2>2. Rank(o) \in 1..4
    BY <1>1 DEF HoldsIdentity, Rank
  <2> QED
    BY <2>1, <2>2
<1>2. CASE NeedsCell(r) /\ HoldsCell(o)
  <2>1. Rank(r) = 1
    BY <1>2 DEF NeedsCell, Rank, HoldsVersion
  <2>2. Rank(o) \in 2..4
    BY <1>2 DEF HoldsCell, HoldsVersion, Rank
  <2> QED
    BY <2>1, <2>2
<1>3. CASE NeedsVersion(r) /\ HoldsVersion(o)
  <2>1. ~ HoldsVersion(r)
    BY <1>3 DEF VersionRowLock
  <2>2. Rank(r) \in 2..3
    BY <1>3, <2>1 DEF NeedsVersion, Rank
  <2>3. Rank(o) = 4
    BY <1>3 DEF Rank
  <2> QED
    BY <2>2, <2>3
<1> QED
  BY <1>1, <1>2, <1>3 DEF Blocks

\* Of every nonempty set of requests one is as far as any other.
LEMMA FurthestExists ==
    ASSUME NEW S \in SUBSET Requests, S # {}
    PROVE  \E r \in S : \A o \in S : Rank(o) <= Rank(r)
<1>1. \A r \in S : Rank(r) \in 0..4
  BY DEF Rank
<1>2. CASE \E r \in S : Rank(r) = 4
  BY <1>1, <1>2
<1>3. CASE (\A r \in S : Rank(r) # 4) /\ \E r \in S : Rank(r) = 3
  BY <1>1, <1>3
<1>4. CASE (\A r \in S : Rank(r) \notin 3..4) /\ \E r \in S : Rank(r) = 2
  BY <1>1, <1>4
<1>5. CASE (\A r \in S : Rank(r) \notin 2..4) /\ \E r \in S : Rank(r) = 1
  BY <1>1, <1>5
<1>6. CASE \A r \in S : Rank(r) \notin 1..4
  BY <1>1, <1>6
<1> QED
  BY <1>1, <1>2, <1>3, <1>4, <1>5, <1>6

\* No transactions wait only for each other: the locks are taken in one order, so that
\* in any set of requests the one that is furthest waits for none of the set.
THEOREM DeadlockFree == EmptySpec \/ FoundedSpec => []NoDeadlock
<1>1. EmptyInit \/ FoundedInit => TypeOK /\ VersionRowLock
  BY EmptyTypeInit, TypeInit
     DEF EmptyInit, FoundedInit, IdleInit, VersionRowLock, HoldsVersion
<1>2. VersionRowLock => NoDeadlock
  <2> SUFFICES ASSUME VersionRowLock, NEW S \in (SUBSET Requests) \ {{}}
               PROVE  \E r \in S : \A o \in S \ {r} : ~ Blocks(o, r)
    BY DEF NoDeadlock
  <2>1. PICK r \in S : \A o \in S : Rank(o) <= Rank(r)
    BY FurthestExists
  <2>2. ASSUME NEW o \in S \ {r}, Blocks(o, r) PROVE FALSE
    <3>1. Rank(o) > Rank(r) /\ Rank(o) <= Rank(r)
      BY <2>1, <2>2, BlockersAreFurther
    <3>2. Rank(o) \in Int /\ Rank(r) \in Int
      BY DEF Rank
    <3> QED
      BY <3>1, <3>2
  <2> QED
    BY <2>2
<1> QED
  BY <1>1, <1>2, TypeNext, VersionRowNext, PTL DEF EmptySpec, FoundedSpec
=============================================================================
