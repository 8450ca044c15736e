--------------------------- MODULE PlacementStore ---------------------------
(****************************************************************************)
(* The tile store of one region: the transactions of TileRepository         *)
(* (insertTile, editTileWithinSelfEditWindow, deleteTile) on the PostgreSQL *)
(* tables tiles, placement_commands, region_versions and tile_deltas.       *)
(*                                                                          *)
(* A request is one call of the repository, and one action is one SQL       *)
(* statement it awaits, so that the statements of several requests          *)
(* interleave.  What a transaction has written stays in the request's own   *)
(* variables (tile, ver, row) until Commit publishes all of it; a row it    *)
(* has written or read FOR UPDATE is locked until then.  The isolation is   *)
(* READ COMMITTED, the default the repository runs with: a statement sees   *)
(* what was committed when it starts, and waits for the holder of a row it  *)
(* writes or locks.                                                         *)
(****************************************************************************)
EXTENDS Integers, Sequences, FiniteSets

CONSTANTS
    Requests,       \* calls of the repository, each made once
    Jobs,           \* the inputs a call can have
    Actors,         \* players (owner_id, actor_id)
    Cells,          \* coordinates of the region
    Commands,       \* command identities the clients choose
    Looks,          \* shape, colour and style of a tile
    ReplayWindow,   \* how long a placement command's answer is replayed
    EditWindow,     \* how long the owner may edit a tile (SELF_EDIT_WINDOW_MS)
    ServerLag,      \* how far the server's clock is behind the database's
    MaxClock        \* bound: the last instant of a behaviour

JobType == [kind : {"place", "edit", "delete"}, actor : Actors,
            cmd : Commands, cell : Cells, look : Looks]

ASSUME ParameterAssumption ==
    /\ Jobs \subseteq JobType
    /\ IsFiniteSet(Requests)
    /\ ReplayWindow \in Nat
    /\ EditWindow \in Nat
    /\ ServerLag \in Nat
    /\ MaxClock \in Nat

VARIABLES
    clock,      \* the database's clock
    tiles,      \* tiles: the committed tile of each cell, or NoTile
    ledger,     \* placement_commands: the committed row of each identity
    version,    \* region_versions: current_version, 0 while there is no row
    deltas,     \* tile_deltas, in the order of their commits
    nextId,     \* the sequence behind tiles.id
    pc,         \* where each request is
    job,        \* its input, the same from Init on
    now,        \* the server's clock when it began
    tile,       \* the tile it has written
    ver,        \* the region version it has read and increased
    row,        \* the ledger row it has written
    answer      \* what it returned, and when

tables == <<tiles, ledger, version, deltas, nextId>>
locals == <<job, now, tile, ver, row>>
vars == <<clock, tables, pc, locals, answer>>

-----------------------------------------------------------------------------
Identities == Actors \X Commands
Hashes == Cells \X Looks

Tile == [id : Nat \ {0}, owner : Actors, look : Looks, at : Nat]

NoTile == [id |-> 0, owner |-> "none", look |-> "none", at |-> 0]

\* No transaction that writes the outcome "occupied" commits (see InsertTile).
Row == [outcome : {"pending", "applied"}, hash : Hashes, id : Nat, expires : Int]
NoRow == [outcome |-> "none"]

Delta == [version : Nat, cell : Cells, op : {"upsert", "delete"},
          owner : Actors \cup {"none"}, look : Looks \cup {"none"}]

Stages == {"new", "lookup", "updatePending", "insertPending", "insertTile",
           "touch", "readVersion", "writeVersion", "logDelta", "settle",
           "commit", "explain", "done"}

\* "uniqueViolation" is the error of a cell that is taken, thrown to the caller.
Replies == {"none", "placed", "replayed", "uniqueViolation", "mismatch", "edited",
            "deleted", "forbidden", "editWindowExpired", "notFound"}

Answer == [says : Replies, id : Nat, at : Nat]
NoAnswer == [says |-> "none", id |-> 0, at |-> 0]

\* The identity of a placement command, and the hash of its payload: the hash
\* also covers the region, the actor and the command, which the identity fixes.
Identity(r) == <<job[r].actor, job[r].cmd>>
RequestHash(r) == <<job[r].cell, job[r].look>>

\* The locks a request's transaction holds, one definition per kind of row.
HoldsIdentity(r) ==
    /\ job[r].kind = "place"
    /\ pc[r] \in {"updatePending", "insertTile", "readVersion", "writeVersion",
                  "logDelta", "settle", "commit"}

HoldsCell(r) ==
    pc[r] \in {"readVersion", "writeVersion", "logDelta", "settle", "commit"}

\* SELECT ... FOR UPDATE locks nothing when there is no row: only a request that
\* found the row (its next version is then above 1) holds it before writing it.
HoldsVersion(r) ==
    \/ pc[r] = "writeVersion" /\ ver[r] > 1
    \/ pc[r] \in {"logDelta", "settle", "commit"}

\* Fault: the owner is not compared.
MatchesAnyOwner(r) ==
    /\ tiles[job[r].cell] # NoTile
    /\ job[r].kind = "edit" => tiles[job[r].cell].at >= now[r] - EditWindow

\* The WHERE clause of the UPDATE or DELETE.
Matches(r) ==
    LET found == tiles[job[r].cell]
    IN  /\ found # NoTile
        /\ found.owner = job[r].actor
        /\ job[r].kind = "edit" => found.at >= now[r] - EditWindow

\* What the next statement of a request has to lock: a row it finds, or a unique key.
NeedsIdentity(r) ==
    \/ pc[r] = "lookup" /\ ledger[Identity(r)] # NoRow
    \/ pc[r] = "insertPending"

\* Fault: only an INSERT waits, an UPDATE or DELETE takes the tile as it reads it.
NeedsCellToInsert(r) == pc[r] = "insertTile"
NeedsCell(r) ==
    \/ pc[r] = "insertTile"
    \/ pc[r] = "touch" /\ Matches(r)

\* Fault: the region's row is neither read FOR UPDATE nor waited for.
NeedsNoVersion(r) == FALSE
NeedsVersion(r) ==
    \/ pc[r] = "readVersion" /\ version # 0
    \/ pc[r] = "writeVersion"

\* Fault: the version is written under a lock on all tiles, taken out of order.
BlocksAnyCell(o, r) ==
    \/ NeedsIdentity(r) /\ HoldsIdentity(o) /\ Identity(o) = Identity(r)
    \/ NeedsCell(r) /\ HoldsCell(o) /\ job[o].cell = job[r].cell
    \/ NeedsVersion(r) /\ HoldsVersion(o)
    \/ pc[r] = "writeVersion" /\ HoldsCell(o)

\* Request o makes request r wait.
Blocks(o, r) ==
    \/ NeedsIdentity(r) /\ HoldsIdentity(o) /\ Identity(o) = Identity(r)
    \/ NeedsCell(r) /\ HoldsCell(o) /\ job[o].cell = job[r].cell
    \/ NeedsVersion(r) /\ HoldsVersion(o)

Unblocked(r) == \A o \in Requests \ {r} : ~ Blocks(o, r)

\* The call returns, and what its transaction kept for itself is gone.
Reply(r, says, id) ==
    /\ pc' = [pc EXCEPT ![r] = "done"]
    /\ answer' = [answer EXCEPT ![r] = [says |-> says, id |-> id, at |-> clock]]
    /\ tile' = [tile EXCEPT ![r] = NoTile]
    /\ ver' = [ver EXCEPT ![r] = 0]
    /\ row' = [row EXCEPT ![r] = NoRow]

GoTo(r, stage) == pc' = [pc EXCEPT ![r] = stage]

-----------------------------------------------------------------------------
(* The calls.  The time of the server is taken before the transaction begins. *)

Begin(r) ==
    /\ pc[r] = "new"
    /\ clock >= ServerLag
    /\ GoTo(r, IF job[r].kind = "place" THEN "lookup" ELSE "touch")
    /\ now' = [now EXCEPT ![r] = clock - ServerLag]
    /\ UNCHANGED <<clock, tables, job, tile, ver, row, answer>>

(* insertTile *)

\* Fault: the payload of the command is not compared.
ReplayAnyPayload(r) ==
    \/ ledger[Identity(r)].outcome = "pending"  /\ Reply(r, "mismatch", 0)
    \/ ledger[Identity(r)].outcome = "applied"
         /\ Reply(r, "replayed", ledger[Identity(r)].id)

\* An answer already given is replayed, unless the payload differs or the row is
\* not settled (no row is "occupied", so the branch that replays one is never
\* taken).  The transaction wrote nothing, so that its commit is this step.
MapLedgerReplay(r) ==
    LET found == ledger[Identity(r)]
    IN  \/ (found.hash # RequestHash(r) \/ found.outcome = "pending")
             /\ Reply(r, "mismatch", 0)
        \/ found.hash = RequestHash(r) /\ found.outcome = "applied"
             /\ Reply(r, "replayed", found.id)

SelectCommandForUpdate(r) ==
    LET found == ledger[Identity(r)]
    IN  /\ pc[r] = "lookup"
        /\ Unblocked(r)
        /\ \/ /\ found # NoRow
              /\ found.expires > now[r]
              /\ MapLedgerReplay(r)
           \/ /\ found # NoRow
              /\ found.expires <= now[r]
              /\ GoTo(r, "updatePending")
              /\ UNCHANGED <<tile, ver, row, answer>>
           \/ /\ found = NoRow
              /\ GoTo(r, "insertPending")
              /\ UNCHANGED <<tile, ver, row, answer>>
        /\ UNCHANGED <<clock, tables, job, now>>

\* Fault: the row expires at once, its window forgotten.
LedgerRowNoWindow(r, outcome, id) ==
    [outcome |-> outcome, hash |-> RequestHash(r), id |-> id, expires |-> now[r]]

LedgerRow(r, outcome, id) ==
    [outcome |-> outcome, hash |-> RequestHash(r), id |-> id,
     expires |-> now[r] + ReplayWindow]

WritePending(r) ==
    /\ row' = [row EXCEPT ![r] = LedgerRow(r, "pending", 0)]
    /\ GoTo(r, "insertTile")

UpdatePending(r) ==
    /\ pc[r] = "updatePending"
    /\ WritePending(r)
    /\ UNCHANGED <<clock, tables, job, now, tile, ver, answer>>

\* The identity is unique: the INSERT waits for a transaction that holds it.  If
\* that one committed, the violation is outside the try block and rolls back.
InsertPending(r) ==
    /\ pc[r] = "insertPending"
    /\ Unblocked(r)
    /\ IF ledger[Identity(r)] = NoRow
         THEN WritePending(r) /\ UNCHANGED <<tile, ver, answer>>
         ELSE Reply(r, "none", 0)
    /\ UNCHANGED <<clock, tables, job, now>>

\* created_at is the database's time at the start of the transaction.
NewTile(r) == [id |-> nextId, owner |-> job[r].actor, look |-> job[r].look,
               at |-> now[r] + ServerLag]

\* A cell that is taken violates tiles_region_coordinate_unique, and the call is
\* over.  The catch block asks isCoordinateConflict for "23505" in the error's
\* message, where the driver puts only the text of the error (the SQLSTATE is in
\* its code), and so throws it again: the transaction is rolled back, with the
\* pending row, and only the number taken from the sequence is gone.  The SELECT
\* of the winner and what follows it in that block are never reached; they would
\* fail too, in a transaction that the violation has aborted.
InsertTile(r) ==
    /\ pc[r] = "insertTile"
    /\ Unblocked(r)
    /\ nextId' = nextId + 1
    /\ IF tiles[job[r].cell] = NoTile
         THEN /\ tile' = [tile EXCEPT ![r] = NewTile(r)]
              /\ GoTo(r, "readVersion")
              /\ UNCHANGED <<ver, row, answer>>
         ELSE Reply(r, "uniqueViolation", 0)
    /\ UNCHANGED <<clock, tiles, ledger, version, deltas, job, now>>

\* Fault: the version is read without FOR UPDATE.
SelectVersion(r) ==
    /\ pc[r] = "readVersion"
    /\ ver' = [ver EXCEPT ![r] = version + 1]
    /\ GoTo(r, "writeVersion")
    /\ UNCHANGED <<clock, tables, job, now, tile, row, answer>>

\* bumpRegionVersion, shared by the three calls: read the row FOR UPDATE ...
SelectVersionForUpdate(r) ==
    /\ pc[r] = "readVersion"
    /\ Unblocked(r)
    /\ ver' = [ver EXCEPT ![r] = version + 1]
    /\ GoTo(r, "writeVersion")
    /\ UNCHANGED <<clock, tables, job, now, tile, row, answer>>

\* ... then INSERT ... ON CONFLICT DO UPDATE SET current_version = nextVersion,
\* which waits for a row another transaction holds and then overwrites it.
UpsertVersion(r) ==
    /\ pc[r] = "writeVersion"
    /\ Unblocked(r)
    /\ GoTo(r, "logDelta")
    /\ UNCHANGED <<clock, tables, locals, answer>>

InsertDelta(r) ==
    /\ pc[r] = "logDelta"
    /\ GoTo(r, IF job[r].kind = "place" THEN "settle" ELSE "commit")
    /\ UNCHANGED <<clock, tables, locals, answer>>

\* Fault: the row is left as it was written before the tile.
SettleNothing(r) ==
    /\ pc[r] = "settle"
    /\ GoTo(r, "commit")
    /\ UNCHANGED <<clock, tables, locals, answer>>

SettleApplied(r) ==
    /\ pc[r] = "settle"
    /\ row' = [row EXCEPT ![r] = LedgerRow(r, "applied", tile[r].id)]
    /\ GoTo(r, "commit")
    /\ UNCHANGED <<clock, tables, job, now, tile, ver, answer>>

(* editTileWithinSelfEditWindow and deleteTile *)

\* An edit changes neither the owner nor created_at.
Repainted(t, look) == [id |-> t.id, owner |-> t.owner, look |-> look, at |-> t.at]

TouchTile(r) ==
    /\ pc[r] = "touch"
    /\ \/ /\ Matches(r)
          /\ Unblocked(r)
          /\ tile' = [tile EXCEPT ![r] =
                        IF job[r].kind = "edit"
                          THEN Repainted(tiles[job[r].cell], job[r].look)
                          ELSE tiles[job[r].cell]]
          /\ GoTo(r, "readVersion")
       \/ /\ ~ Matches(r)
          /\ GoTo(r, "explain")
          /\ UNCHANGED tile
    /\ UNCHANGED <<clock, tables, job, now, ver, row, answer>>

\* After the transaction, a query of its own finds the reason to give.
Explain(r) ==
    LET found == tiles[job[r].cell]
        own == found # NoTile /\ found.owner = job[r].actor
    IN  /\ pc[r] = "explain"
        /\ \/ job[r].kind = "edit" /\ own    /\ Reply(r, "editWindowExpired", 0)
           \/ job[r].kind = "edit" /\ ~ own  /\ Reply(r, "forbidden", 0)
           \/ job[r].kind = "delete" /\ found = NoTile /\ Reply(r, "notFound", 0)
           \/ job[r].kind = "delete" /\ found # NoTile /\ Reply(r, "forbidden", 0)
        /\ UNCHANGED <<clock, tables, job, now>>

(* COMMIT of a transaction that wrote a tile, and the end of one that failed *)

\* Fault: the kind of the call is logged as the operation.
DeltaOfKind(r) ==
    [version |-> ver[r], cell |-> job[r].cell, op |-> job[r].kind,
     owner |-> job[r].actor, look |-> job[r].look]

CommittedDelta(r) ==
    LET gone == job[r].kind = "delete"
    IN  [version |-> ver[r], cell |-> job[r].cell,
         op |-> IF gone THEN "delete" ELSE "upsert",
         owner |-> IF gone THEN "none" ELSE job[r].actor,
         look |-> IF gone THEN "none" ELSE job[r].look]

Done == [place |-> "placed", edit |-> "edited", delete |-> "deleted"]

Commit(r) ==
    /\ pc[r] = "commit"
    /\ tiles' = [tiles EXCEPT ![job[r].cell] =
                   IF job[r].kind = "delete" THEN NoTile ELSE tile[r]]
    /\ version' = ver[r]
    /\ deltas' = Append(deltas, CommittedDelta(r))
    /\ ledger' = IF job[r].kind = "place"
                   THEN [ledger EXCEPT ![Identity(r)] = row[r]]
                   ELSE ledger
    /\ Reply(r, Done[job[r].kind], tile[r].id)
    /\ UNCHANGED <<clock, nextId, job, now>>

\* A statement, the telemetry sink or the process fails: nothing is kept.
Abort(r) ==
    /\ pc[r] \notin {"new", "done"}
    /\ Reply(r, "none", 0)
    /\ UNCHANGED <<clock, tables, job, now>>

Statement(r) ==
    \/ SelectCommandForUpdate(r) \/ UpdatePending(r) \/ InsertPending(r)
    \/ InsertTile(r) \/ SelectVersionForUpdate(r) \/ UpsertVersion(r)
    \/ InsertDelta(r) \/ SettleApplied(r) \/ Commit(r)
    \/ TouchTile(r) \/ Explain(r)

-----------------------------------------------------------------------------
(* The rest of the world *)

\* The maintenance hook of the migration script, by the database's clock; the
\* DELETE waits for the rows that a transaction holds.
PurgeExpiredPlacementCommandLedger ==
    LET expired == {k \in Identities : ledger[k] # NoRow /\ ledger[k].expires <= clock}
    IN  /\ expired # {}
        /\ \A o \in Requests : HoldsIdentity(o) => Identity(o) \notin expired
        /\ ledger' = [k \in Identities |-> IF k \in expired THEN NoRow ELSE ledger[k]]
        /\ UNCHANGED <<clock, tiles, version, deltas, nextId, pc, locals, answer>>

Tick ==
    /\ clock < MaxClock
    /\ clock' = clock + 1
    /\ UNCHANGED <<tables, pc, locals, answer>>

\* All calls are made and answered, and nothing is left to happen.
Finished ==
    /\ clock = MaxClock
    /\ \A r \in Requests : pc[r] = "done"
    /\ UNCHANGED vars

Next ==
    \/ \E r \in Requests : Begin(r) \/ Statement(r) \/ Abort(r)
    \/ PurgeExpiredPlacementCommandLedger
    \/ Tick
    \/ Finished

-----------------------------------------------------------------------------
(* A region nobody has placed in, and one that a first placement has founded *)

IdleInit ==
    /\ clock = 0
    /\ ledger = [k \in Identities |-> NoRow]
    /\ pc = [r \in Requests |-> "new"]
    /\ job \in [Requests -> Jobs]
    /\ now = [r \in Requests |-> 0]
    /\ tile = [r \in Requests |-> NoTile]
    /\ ver = [r \in Requests |-> 0]
    /\ row = [r \in Requests |-> NoRow]
    /\ answer = [r \in Requests |-> NoAnswer]

EmptyInit ==
    /\ IdleInit
    /\ tiles = [c \in Cells |-> NoTile]
    /\ version = 0
    /\ deltas = << >>
    /\ nextId = 1

FoundedInit ==
    /\ IdleInit
    /\ \E c \in Cells, a \in Actors, l \in Looks :
         /\ tiles = [x \in Cells |->
                       IF x = c THEN [id |-> 1, owner |-> a, look |-> l, at |-> 0]
                                ELSE NoTile]
         /\ deltas = << [version |-> 1, cell |-> c, op |-> "upsert",
                         owner |-> a, look |-> l] >>
    /\ version = 1
    /\ nextId = 2

\* A statement that can proceed does: the event loop serves every promise and
\* the database answers.  A request may still be aborted instead.
Fairness == \A r \in Requests : WF_vars(Statement(r))

EmptySpec   == EmptyInit /\ [][Next]_vars /\ Fairness
FoundedSpec == FoundedInit /\ [][Next]_vars /\ Fairness

-----------------------------------------------------------------------------
(* Properties *)

\* Every variable has its type; a tile at rest has a real id.
TypeOK ==
    /\ clock \in Nat
    /\ tiles \in [Cells -> Tile \cup {NoTile}]
    /\ ledger \in [Identities -> Row \cup {NoRow}]
    /\ version \in Nat
    /\ deltas \in Seq(Delta)
    /\ nextId \in Nat \ {0}
    /\ pc \in [Requests -> Stages]
    /\ job \in [Requests -> Jobs]
    /\ now \in [Requests -> Nat]
    /\ tile \in [Requests -> Tile \cup {NoTile}]
    /\ ver \in [Requests -> Nat]
    /\ row \in [Requests -> Row \cup {NoRow}]
    /\ answer \in [Requests -> Answer]

\* In a founded region the n-th change to be committed has number n and
\* current_version is the last number: no two transactions share a version, none
\* is skipped, and a reader that has seen version n has everything up to n.
VersionsDense ==
    /\ version = Len(deltas)
    /\ \A i \in 1..Len(deltas) : deltas[i].version = i

\* What the row locks achieve in a founded region, while transactions are under
\* way: at most one of them has taken a version, the next one; a cell is written by
\* at most one; and what that one found in the cell is still there.
Numbered(r) == pc[r] \in {"writeVersion", "logDelta", "settle", "commit"}

VersionLock ==
    /\ version # 0
    /\ \A r \in Requests : Numbered(r) => ver[r] = version + 1
    /\ \A r, o \in Requests : Numbered(r) /\ Numbered(o) => r = o

CellLock ==
    \A r, o \in Requests :
        HoldsCell(r) /\ HoldsCell(o) /\ job[r].cell = job[o].cell => r = o

CellAsFound ==
    \A r \in Requests : HoldsCell(r) =>
        LET found == tiles[job[r].cell]
        IN  /\ IF job[r].kind = "place"
                 THEN found = NoTile
                 ELSE found # NoTile /\ found.owner = job[r].actor
            /\ job[r].kind # "delete" =>
                 /\ tile[r] # NoTile
                 /\ tile[r].owner = job[r].actor
                 /\ tile[r].look = job[r].look

LocksHold == VersionLock /\ CellLock /\ CellAsFound

\* In a founded region the whole store implements the region log: the tiles are at
\* every moment what the numbered changes add up to.
Log == INSTANCE RegionLog WITH
         log  <- deltas,
         head <- version,
         grid <- [c \in Cells |-> IF tiles[c] = NoTile THEN NoTile
                                  ELSE [owner |-> tiles[c].owner,
                                        look  |-> tiles[c].look]],
         Empty <- NoTile
ImplementsRegionLog == Log!Spec

Said(r, what) == answer[r].says = what
SameIdentity(p, q) == Identity(p) = Identity(q)
SameCommand(p, q) == SameIdentity(p, q) /\ RequestHash(p) = RequestHash(q)

\* A command identity is executed once per replay window, however many requests
\* carry it at once: a later execution commits when the earlier answer is expired.
CommandExecutedOnce ==
    \A p, q \in Requests :
        (p # q /\ Said(p, "placed") /\ Said(q, "placed") /\ SameIdentity(p, q))
            => \/ answer[q].at >= now[p] + ReplayWindow
               \/ answer[p].at >= now[q] + ReplayWindow

\* A replayed answer is the answer of an execution of the very same command.
ReplaysTellTheTruth ==
    \A q \in Requests : Said(q, "replayed") =>
        \E p \in Requests : /\ Said(p, "placed")
                            /\ SameCommand(p, q)
                            /\ answer[p].id = answer[q].id

\* A request is told that its payload differs only if another request used its
\* identity for something else: never because it raced with its own duplicate.
MismatchMeansReuse ==
    \A q \in Requests : Said(q, "mismatch") =>
        \E p \in Requests : /\ Said(p, "placed")
                            /\ SameIdentity(p, q)
                            /\ RequestHash(p) # RequestHash(q)

\* What the callers were told adds up to what is stored, cell by cell: of all who
\* place in a cell, or delete from it, at once or one after the other, each tile has
\* one who placed it and at most one who deleted it; and a placement is refused by the
\* unique key only where somebody has placed, never by a change that was rolled back.
Told(c, what) == {r \in Requests : Said(r, what) /\ job[r].cell = c}
Founding(c) == IF deltas[1].cell = c THEN 1 ELSE 0
Standing(c) == IF tiles[c] = NoTile THEN 0 ELSE 1

CellsAddUp ==
    \A c \in Cells :
        LET placed == Founding(c) + Cardinality(Told(c, "placed"))
        IN  /\ placed = Cardinality(Told(c, "deleted")) + Standing(c)
            /\ Told(c, "uniqueViolation") # {} => placed > 0

\* No transactions wait only for each other, also while a region is being founded: in every
\* set of them there is one that no other of the set blocks.
NoDeadlock ==
    \A S \in (SUBSET Requests) \ {{}} : \E r \in S : \A o \in S \ {r} : ~ Blocks(o, r)

\* A call that began ends: the order in which the transactions take their locks
\* (command, cell, region version) leaves nobody waiting for ever.
EveryCallEnds == \A r \in Requests : (pc[r] # "new") ~> (pc[r] = "done")

\* The region version never goes back.  (It does, when the region's first
\* placements are concurrent.)
VersionNeverRegresses == [][version' >= version]_version
=============================================================================
