# Verification of tile-fighter

TLA+ models of the parts of tile-fighter in which several players, requests, timers or
processes meet: the tile store, the realtime fanout of what it commits, the diffs and replays by which
a client catches up with it, the sessions that survive a disconnect, the snapshots of a
region, join tokens and presence, the rate limits, and the client's sign-in and startup. They
are checked with TLC on small instances; all that is checked of them except liveness is also
proved with TLAPS for every number of players, cells, requests and clients.

## The system

Players place coloured tiles on the grid of a region. A browser client talks HTTP to an
Express application, and joins a Colyseus room over a WebSocket; the server keeps
everything durable in PostgreSQL.

| Component | State | Operations | Talks to | What is hard | What makes it correct |
|---|---|---|---|---|---|
| Tile store (`persistence/tile.repository.ts`, migrations) | tables `tiles`, `placement_commands`, `region_versions`, `tile_deltas` | insertTile, editTileWithinSelfEditWindow, deleteTile, purge of expired commands | called by the HTTP routes | statements of concurrent transactions, retries of a command, rollbacks, two clocks | one append-only numbered log per region; a command is executed once per window; true replies; no deadlock |
| HTTP application (`http/app.ts`) | throttle map | placeTile: store, telemetry, publication; throttle | store, telemetry, fanout registry | awaits between commit and publication | what is committed is published in order |
| Realtime fanout (`domain/delta-fanout.service.ts`) | pending acks with timers, outbound counters | publish, handleAck, handleAckTimeout, cleanup, register, unregister, destroy | room, client | timers against acks and leaves, state read before an await | entries end, retransmissions are bounded, the gone are forgotten |
| Arena room (`rooms/arena.room.ts`) | clients, coordinator | onCreate, onAuth, onJoin, onLeave, onDispose | fanout, session lifecycle | awaits in onJoin and onLeave | subscribers follow membership |
| Client delta handler (`client session/realtime-delta-handler.ts`) | lastAppliedSequenceId | handleDelta | room, application state | check before an await, failing callbacks | deltas once and in order; honest acks |
| Session checkpoints (`session/session-checkpoint.service.ts` and repository) | table `session_checkpoints` | noteJoin, noteLeave, resolveReconnect, archive with retention | region diff, tokens, store | get-then-create, late leaves, progress advanced before the answer arrives | a reconnect loses no delta; nothing a live checkpoint needs is deleted |
| Presence (`session/session-lifecycle.service.ts`) | presence map | join, leave, heartbeat, cleanup | checkpoints, routes that ask for membership | awaits in the cleanup loop while the map changes | who is alive is a member, who is silent is forgotten |
| Region diff (`domain/region-diff.service.ts` and repository) | none (reads) | getRegionDiff, getReplayDiff | store | two reads that are not one snapshot, paging over compacted deltas | a client that pages to the end sees the live tiles |
| Snapshots (`domain/region-snapshot.service.ts` and repository) | tables `region_snapshots`, `region_snapshot_tiles` | createSnapshot, restoreLatest | store | rows locked in two orders, placements between DELETE and INSERT, a verdict after the commit | a restored region is the one that was saved |
| Tokens (`auth/join-token.service.ts`, `auth/reconnect-token.service.ts`) | consumed ids | issue, verify, prune | room, session routes | memory lost at a restart, boundary of expiry | a token is used once |
| Rate limits (`http/app.ts`, `http/routes/session.routes.ts`) | maps of recent calls | shouldThrottleTilePlace, its sweep, isRateLimited | routes | boundaries of windows, the sweep | no more than the maximum in any stretch; the right retryAfterMs |
| Client sign-in and callers (`client auth/`, `client session/*-caller.ts`) | retry count, token state | acquire, reacquire after 401 | HTTP | the count is shared by four calls that may overlap | one retry between two sign-ins |
| Client reconnect and replay (`client session/reconnect-caller.ts`, `replay-checksum.ts`) | the tiles it draws on | reconnectSession, applyReplayAndValidateChecksum | reconnect route | reads that are not one snapshot, overlapping replays | the client's tiles are the region's at one version |
| Client browser shell (`client browser/`) | BrowserAppState | startBrowserApp, placement, rendering | sign-in, HTTP, room | every step of the startup may fail or navigate away | the player is told how it ended |
| Telemetry, configuration, startup, access tokens | none of interest | | | telemetry can be slow or reject | |

`PROJECT.json` lists the components with their files, and under `hazards` what can go
wrong in each of them at the line where it bites.

## Modules

| Module | Models |
|---|---|
| `RegionLog` | abstract: what the store promises its readers, an append-only log of changes numbered 1, 2, 3, ... and a grid that is what the log adds up to |
| `PlacementStore` | the transactions of `TileRepository` at the granularity of SQL statements, and the properties of the store |
| `MCPlacementStore` | the small instances TLC checks |
| `PlacementStoreProofs` | theorems about `PlacementStore` |
| `DeltaFanout` | the publication of a placement, the coordinator, the room, the handler of each client |
| `MCDeltaFanout`, `DeltaFanoutProofs` | its small instances, and theorems about it |
| `RegionDiff` | clients that page through the diffs of a region, over `RegionLog`, while deltas are written and expire |
| `MCRegionDiff` | its small instances |
| `RegionDiffProofs` | theorems about `RegionDiff` |
| `SessionCheckpoint` | joins, leaves, heartbeat tokens, reconnects, and the sweep that archives sessions and deletes old deltas |
| `MCSessionCheckpoint` | its small instances |
| `SessionCheckpointProofs` | theorems about `SessionCheckpoint` |
| `RegionSnapshots` | snapshots of a region and their restoration, against placements, deletions and other restores |
| `MCRegionSnapshots`, `RegionSnapshotsProofs` | its small instances, and theorems about it |
| `SessionPresence` | join tokens, connections, heartbeats, the presence map and its sweep |
| `MCSessionPresence`, `SessionPresenceProofs` | its small instances, and theorems about it |
| `RateLimits` | the sliding window of placements and the fixed windows of the session routes |
| `MCRateLimits`, `RateLimitsProofs` | its small instances, and theorems about it |
| `RegionReplay` | the replay of a reconnect, from the reads of the server to the tiles of the client, over `RegionLog` |
| `ClientSession` | the client's startup and the calls that share its retry count; its reconnect runs `RegionReplay`, which it extends |
| `MCClientSession`, `ClientSessionProofs` | its small instances, and theorems about it |

### PlacementStore

A *request* is one call of the repository. `pc[r]` is the statement it awaits next, `job[r]`
its input, `now[r]` the server's clock when it began. What its transaction has written and
not committed is in `tile[r]`, `ver[r]` and `row[r]`; `Commit` publishes it all at once to
`tiles`, `version`, `deltas` and `ledger`, and `Abort` (a failing statement, a rejecting
telemetry sink, the end of the process) drops it. Locks are not a variable: which rows a
transaction has locked follows from where it is (`HoldsIdentity`, `HoldsCell`,
`HoldsVersion`), because PostgreSQL keeps a row lock until the end of a transaction, and
what its next statement has to lock follows from that statement and the rows it finds
(`NeedsIdentity`, `NeedsCell`, `NeedsVersion`). `Blocks(o, r)` says that request `o` makes `r`
wait; a statement is taken when the request is `Unblocked`.

| Action | Code |
|---|---|
| `SelectCommandForUpdate`, `MapLedgerReplay` | the ledger lookup `FOR UPDATE`, and the replay of a settled answer |
| `UpdatePending`, `InsertPending` | the pending row of an expired or a new command; the second waits for a duplicate under way and fails if that commits |
| `InsertTile` | the insert that decides who has the cell; where it is taken, the violation is the caller's |
| `SelectVersionForUpdate`, `UpsertVersion` | `bumpRegionVersion`, used by all three calls; without a row the `SELECT` locks nothing |
| `InsertDelta`, `SettleApplied`, `Commit` | the delta, the settled answer, the commit |
| `TouchTile`, `Explain` | the `UPDATE` or `DELETE` of an edit or a deletion, and the query for the reason when it matched nothing |
| `PurgeExpiredPlacementCommandLedger` | the maintenance query of `persistence/migrate.ts` |

One region is modelled: no statement touches two. A tile's shape, colour and style
are one *look* (offsets are set by the placement, no statement changes or compares them, and
they are left out), and the request hash is the payload it covers.

The catch block for a cell that is taken is modelled by what it does, which is to throw the
error again. `isCoordinateConflict` looks for `23505` in the error's message, where the `pg`
driver has the text of the server; the SQLSTATE is in the error's `code`. What follows in that
block, the query of the winner and the outcome `occupied` in the ledger, is never reached, nor could it
run: the transaction is aborted, and PostgreSQL refuses every statement in it. So no call
is answered `occupied`, no row of the ledger says so, and that branch of `mapLedgerReplay` is left
out with the rest (see the findings). A duplicate of a *new* command that is under way makes the
second request fail with the unique violation of `InsertPending`, which is outside the `try`.

The behaviours start in a region nobody has placed in (`EmptySpec`) or in one that a first
placement has founded (`FoundedSpec`). The difference matters: see the findings.

### DeltaFanout

A session is one connection. `pending[s]` is the part of `pendingAckMap` that belongs to it,
`stats[s]` its outbound counter. Every handler that awaits is cut in two there:
`placeTile` (`CommitPlacement`, then `Publish` or `PublishFails`), `handleAckTimeout`
(`Retransmit`, then `Rearm` or `RearmFails`), `onJoin`, `onLeave`, and the client's
`handleDelta` when its callback waits (`HandleDelta`, then `ApplySucceeds` or `ApplyFails`).
`publish` awaits only sends that are complete at once, so it is one action. A connection
delivers in order and is lost with everything on it; a `Crash` ends the process and leaves
only what is committed. Time is not a variable: the ack timeout, the TTL and the window
of the cap are configured independently, so each may come at any moment.

The two modules are not composed: of the store the fanout sees only that placements commit
in the order of their versions, which `VersionsDense` establishes for a founded region.

### RegionDiff

`RegionDiff` reads what `PlacementStore` is shown to implement: its variables `log`, `head` and
`grid` are those of `RegionLog` (an `INSTANCE`), and `Write` is a step of it. `kept` is the set of
versions whose row is still in `tile_deltas`; `DeleteExpired` takes any of them, because a row
expires a day after its transaction began, and no reader here has a checkpoint that would
protect it. A reader has a viewport, which it does not change, and `since[r]`, the version it
continues from. `getRegionDiff` is two actions, because it reads the version (`ReadVersion`)
and the deltas (`ReadDeltas`) by two statements of no common transaction; `AnswerLost` is a
failed request. Between `TileDeltasSince`, `CompactLatest`, `Page` and `NextSince` the operators
follow the code. `known[r]` is what the reader was sent. The browser client does not call the
route yet: the reader is any client that does what the answer is made for, which is to
continue at `nextSinceVersion`.

A region here is one that has its first tile, as in `RegionLog`.

### SessionCheckpoint

None of the handlers here uses a transaction, so each SQL statement is an action and what a
handler keeps between two of them is a variable: `found[c]` and `until[c]` of a connection,
`since[r]`, `current[r]` and `replay[r]` of a reconnect, `expired[s]` and `protected[s]` of a sweep.
`row` is the table `session_checkpoints`, one row per session; `confirmed` is its
`last_confirmed_version`. `head` and `kept` are what the module sees of the region: its version,
and the versions whose delta is in `tile_deltas`.

| Action | Code |
|---|---|
| `JoinRead`, `JoinCreate`, `JoinArchive`, `JoinRestore` | `noteJoin`, as `onJoin` awaits it; the insert is refused where the player has any row, archived or not |
| `LeaveRead`, `LeaveMark` | `noteLeave` |
| `IssueReconnectToken` | the heartbeat route; the token names the session |
| `VerifyReconnectToken` | `verify`, which prunes and consumes, and the check of the subject |
| `ReadCheckpoint`, `ArchiveExpired` | the row of the token's session, its grace period |
| `ReadVersion`, `ReadDeltas`, `ReadTiles` | `getReplayDiff`, and the query of the tiles for a checksum that is left out |
| `Restore`, `Progress`, `Answer` | what a successful reconnect writes, and the answer's arrival |
| `SweepArchive`, `GetMinimumProtectedVersion`, `DeleteExpiredTileDeltas` | the timer's call of `archiveExpiredStaleCheckpoints`; calls may overlap |
| `ConnectionFails`, `RequestFails` | a rejecting statement or telemetry, the rate limit, a lost answer |
| `Crash` | a restart, after which no `onLeave` runs and consumed ids are forgotten; also what a rejecting statement of the sweep comes to, since the timer calls it with `void` and an unhandled rejection ends the process |

`born` and `began` are not in the code: they record versions the
properties speak about. One thing is assumed: `Age` lets no delta pass its 24 hours that was
committed while a reconnect now under way was running; a reconnect does not take a day.

**Region and room.** A row of `session_checkpoints` has the id of the room as its region
(`arena.room.ts:100` passes `this.roomId`, an id the framework draws). The sweep looks for rows and for
deltas of the region `"arena"` (`session-checkpoint.service.ts:180`, `:183`), and `"arena"` is where
the browser places tiles, too. In the program as it stands the two never meet: the minimum the sweep reads
is `NULL`, whatever sessions there are, so deltas of `"arena"` are deleted by age alone; and a reconnect
replays the region that has the room's id, in which nobody places and from which nobody deletes.
The constant `SweepsRoom` says whether the ids are the same, as in a room that is given the id
`"arena"`. The runs check `TRUE`, since with `FALSE` nothing is deleted in the region of the
module and `NeededIsKept` asks little; the theorems hold for both.

### RegionSnapshots

An action is one SQL statement, or one row of a statement that writes several. `grid` and `saved`
are what is committed. A restore keeps what its transaction has read and written in `copy`,
`deleted` and `inserted`; the row locks follow from them (`Holds`), as in `PlacementStore`. READ
COMMITTED is modelled by what a statement sees when it begins: `BeginDelete` fixes the rows the
`DELETE` will remove, in an order of the database's own (`DeleteRow`); a row that others
delete meanwhile is skipped, and one that they insert is not seen. The `INSERT` goes through
the snapshot's rows in their order, waits at a coordinate that somebody has written, and
fails as a whole where a row is that the `DELETE` did not see (`InsertConflict`). Restores that wait
for each other end by `DeadlockVictim`; a writer changes one row, so it waits for nobody while it
holds one. The version and the delta that a writer also writes are left out, restores do
neither. A hash stands for the tiles it covers, so that `computeRegionHash` compares tiles.

| Action | Code |
|---|---|
| `ReadRegion`, `InsertHeader`, `CommitSnapshot`, `RollbackSnapshot` | `createSnapshot`; the tiles are read before its transaction begins |
| `ReadLatest`, `CopyRows`, `BeginDelete`, `DeleteRow`, `EndDelete`, `InsertRow`, `ReadBack`, `CommitRestore` | `restoreLatest` |
| `InsertConflict`, `DeadlockVictim`, `RestoreFails` | its transaction fails |
| `WriteRow`, `CommitWrite`, `RollbackWrite` | a placement, an edit or a deletion |

`fresh[r]` is not in the code: it records in which cells others have committed a new row since
restore `r` began its `DELETE`.

### SessionPresence

`issued` is what the tokens say, `consumed` the map of the join token service, `presence` the map
of the session lifecycle, `sweep[s]` the time which a sweep under way has read when it began. The
clock is finer than the second in which tokens expire. `noteRoomJoin` changes the map before its
first await (`Join`) and then goes on or fails (`EndJoin`). The loop of `cleanupStaleMetadata`
awaits its telemetry after every entry it deletes, so `Advance` deletes one. A heartbeat names any
room; room instances have ids that the framework gives them, and `Claims` holds names of another
kind, such as the key `"arena"` which clients know. Telemetry that rejects in a sweep is
handled by nobody and ends the process: it is a `Crash`. `sign` is not in the code: it records a
player's last sign of life.

### RateLimits

Both limiters decide without an await, so a call is one action. A behaviour is about one key of one
limiter: `Place`, `PlaceThrottled` and `Sweep` are `shouldThrottleTilePlace` and the hourly sweep of
its map, `OpenWindow` and `CountInWindow` are `isRateLimited`. `passed` and `promise` are not in the
code: the calls that passed, and the instant the last 429 told the client to wait for.

### RegionReplay and ClientSession

`RegionReplay` reads the same `RegionLog` as `RegionDiff`. The server's part of a reconnect is three
steps with writes between them (`ReadVersion`, `ReadDeltas`, `Confirm`), the client's is `Apply`,
which draws the deltas over its tiles one after another (`Drawn`), or throws at the first one whose payload
`isUpsertDelta` refuses (`IsEdit`). What guards and archives the checkpoint is in `SessionCheckpoint`
and left out here; of it `RegionReplay` uses that the deltas after a confirmed version are kept
(`NeededIsKept`).

`ClientSession` extends it with the page: `step` and `status` are where `startBrowserApp` is and what
it shows, `pc[k]` is where the authorized call `k` is. `Unauthorized` is
`handleBootstrapUnauthorizedReacquire` up to its await, `Reacquired` the rest and the second
request. `bootstrap` and `join-token` are called by the browser app, one after the other; `heartbeat`
and `reconnect` are exported by the package and not called by it yet, so they are made by an
application around it, each one after the other but in any interleaving with the other.
A reconnect advances on the server between its request and its answer (`ServerStep`). An
interactive sign-in navigates the page away (`LeavePage`) and ends the behaviour, or fails.

## What is checked

| Run | Instance | Shows |
|---|---|---|
| `placement_founded` | 2 requests, any of placing in two cells by two players, editing, deleting; two ticks, a server one tick behind the database | `TypeOK`; `LocksHold`, what the row locks achieve in the middle of transactions; `VersionsDense`; what the callers are told adds up to what is stored (`CellsAddUp`); no transactions wait only for each other (`NoDeadlock`); the store implements `RegionLog` (`ImplementsRegionLog`); every call ends (`EveryCallEnds`) |
| `placement_commands` | 3 requests with one command identity for two cells, or a deletion that makes room; two ticks, a window of one | `CommandExecutedOnce`, `ReplaysTellTheTruth`, `MismatchMeansReuse` |
| `placement_first` | 3 requests in an empty region | a violation of `VersionNeverRegresses` |
| `fanout_room` | 2 sessions, 2 placements, one retransmission, a cap of one, callbacks that do not wait | `TypeOK`, `AppliedInOrder`, `BacklogBounded`, `GoneIsForgotten` |
| `fanout_timers` | 2 sessions, 1 placement, callbacks that wait, telemetry that rejects | `AckIsHonest`, `EntriesEnd` |
| `diff_paging` | 1 reader of two or three cells, a page of one, 4 changes, expiry | `TypeOK`, `PassedIsKnown`, `PagesAdvance` |
| `session_retention` | 1 player, 1 connection, 2 reconnects, 2 tokens that expire, 1 sweep, 2 changes that expire | `TypeOK`, `NeededIsKept`, `ReplayIsWhole`, `TokenUsedOnce` |
| `session_rows` | 2 players, 2 connections of one of them, 1 reconnect, 1 sweep, 2 sessions, 1 restart | `OneLiveSession`, `ArchivedIsFinal`, `OverdueEnds` |
| `region_restore` | 2 cells, 1 writer, 2 snapshots, 2 restores, any tiles to begin with, telemetry that rejects | `TypeOK`; `RestoreReplaces`, a restore leaves what was saved or nothing of its own; `MismatchMeansInterference`; `RestoreEnds`, through deadlocks too |
| `presence` | 2 players, 2 tokens, 2 connections, 1 room and a name that is none, 1 sweep, 3 ticks, 1 restart | `TokenAdmitsOnce`, `AliveIsMember`, `SilentIsForgotten` |
| `rate_limits` | 8 calls, 2 per window of 3, 9 ticks, entries that expire as early as they may | `SlidingWindowHolds`, `RetryAfterIsExact`, `FixedWindowHolds` |
| `client_session` | 1 page, 4 calls, a region of 2 cells with 3 changes | `TypeOK`, `RepeatedOnce`, `ReplayIsExact`, `StartupEnds` |

**Bounds.** `MaxClock` ends time and `MaxSeq` the placements; a request is made once.
Two requests are enough for every conflict of two transactions (a lock is held by one and
waited for by another) and for a deadlock of two; that the invariants hold for more is
proved. Three requests with a window of one and two ticks let an answer be given, replayed,
expire, be purged and be given again. Two placements are enough to be out of order, and two
sessions for a retransmission that reaches another. Longer transactions, windows or
attempts only repeat these. Readers do not touch what another reader sees, so one is enough; a page of one and
three cells make it ask again before, between and after changes to cells it has and has
not gone past, and four changes allow a tile to be deleted and placed again. For the sessions `MaxClock`, `MaxVersion`, `MaxTokens` and
`MaxCrashes` end time, changes, tokens and restarts. A grace period of one tick can begin, end and
be renewed within two to four; two changes are one that a session has confirmed and one it has
not; two reconnects are one that overtakes another; a token of one tick is used, expires and has its id pruned
within two. Two session ids are there for the second session a player must not get: the constraint
leaves one for good. `session_rows` has no changes and `session_retention` no second session because their
properties do not look at them. Two restores and two cells are the smallest instance with a deadlock
(each holds the cell the other wants), one writer is enough to bring a tile between a `DELETE` and
an `INSERT` or to take one away (the grids it starts with are all but for the names of the looks,
`FirstTileIsX`), and of two snapshots one is the latest while another is
being made. Two ticks a second and a token of one second put a token's end between
two ticks and on one; with a TTL of one tick, three ticks let an entry become stale, be swept and be renewed. Nine ticks
are three windows, eight calls fill them and are refused. Three changes let a reconnect
confirm one, another be drawn by two replays, and a third be an edit or a deletion of it.
Symmetry is used for requests and sessions in runs without
liveness. `CHECK_DEADLOCK FALSE` is set for the fanout, which does stop when everything is
published and everybody has left, and for the sessions, presence and rate limits, where time, connections or calls
are used up, for restores and the client, whose calls end; the store ends in `Finished` instead, so that a deadlock of
its transactions would be found. A reader can always ask again. In the `commands` and `first` runs the players and commands
are few because the properties are about one identity and one region.

**Fairness.** In the store a statement that can proceed does (`WF` of each request's
`Statement`): the event loop serves every settled promise and the database answers; nothing
is assumed of `Abort`, the purge or the arrival of requests. In the fanout an armed timer
fires and a telemetry call ends, by the event loop's timers and promises; the periodic
cleanup is counted on only for an entry that has no timer any more. Acks, clients, joins and
leaves are never counted on. For the sessions only the sweep is (`WF` of each `Sweep`): the
interval timer of `SessionLifecycleService` fires as long as the server runs. A sweep whose statement rejects ends the process (`Crash`), and the next
one, after the restart, begins afresh; restarts are bounded. `OverdueEnds` therefore holds without any client coming back.
The presence sweep is fair for the same reason, and so is the continuation of a sweep whose telemetry has
settled. A writer's transaction ends and a restore's statements are answered (`WF` of `EndWrite` and
`Restore`); that a restore fails for a reason of its own (`RestoreFails`) is never counted on. On the
client every request is answered or fails (`WF` of `Progress`), as `fetch` promises; the user, the
redirect, the room and the region's writes owe nothing. The rate limits have no liveness.

**Faults.** Operators whose comment begins with `Fault:` are mistakes a change of the code
could introduce; each property is violated when its fault takes the place of the definition
after it.

## Findings

* **The first version of a region** (`placement_first`). `SELECT ... FOR UPDATE` locks
  nothing while the region has no version row. Concurrent first placements all take version
  1, and a late `ON CONFLICT DO UPDATE` writes 1 over a version that has gone on: two deltas
  share a number and a later one repeats it. Everything proved below is therefore about
  founded regions.

Two more follow from one statement each, so that the model takes them as they are and no run is
spent on them:

* **A taken cell is answered with an error.** The comment of `insertTile` (`tile.repository.ts:238`)
  says "Maps SQLSTATE 23505 (unique violation) to coordinate_conflict result".
  `isCoordinateConflict` (`:658`) looks for the number in the error's message, where the driver
  does not put it, so the violation is thrown to the caller and the route answers 500 where it has a 409
  for the conflict. The unit tests make an error whose message has `(SQLSTATE 23505)` in it
  (`tests/unit/tile.repository.test.ts:52`), and use a database double without transactions, which the
  violation does not abort. In the model this is the answer `uniqueViolation` of `InsertTile`.
* **Nobody joins again after an archival.** Migration `1750000000000` (`:67`) gives `addConstraint` a
  `where: "archived_at IS NULL"`. PostgreSQL has no unique constraint with a condition, and the
  library ignores it: the constraint, `session_checkpoints_unique_active_per_player_region`, holds
  over all rows. A player whose session was archived finds no active checkpoint, and the
  insert of a new one is refused, at this join and every later one. In the model this is the
  refusal of `JoinCreate`.

Noted while modelling; what the code does in these cases is in the models unless the note says
otherwise, and no run checks a property about it:

* An ack that does not confirm: the telemetry between commit and publication (`app.ts:207`) lets deltas
  be published out of order; the client takes the earlier one for a duplicate, never applies
  it, and acks it (`realtime-delta-handler.ts:88`, `:105`).
* Deletions are in no diff (`region-diff.service.ts:88`, `:101`): in the answer to a client that has tiles
  already, an absent tile is as well one that has not changed; it keeps what was deleted.
* A late leave: the old connection's `onLeave` marks the session stale that the new connection has
  joined with (`session-checkpoint.service.ts:169`), which is then archived after the grace
  period, and removes the presence that the new connection has entered (`session-lifecycle.service.ts:87`).
* Confirmed but not received: a lost answer leaves the confirmed version advanced
  (`session-checkpoint.service.ts:317`), and the next replay starts after it. A replay with the
  delta of an edit is one of these: an edit logs null offsets (`tile.repository.ts:716`), and the
  client's replay throws at a delta without offsets (`replay-checksum.ts:73`).
* The client's checksum is FNV-1a and the server's SHA-256, over different texts, so `match` is never
  true; a replay without deltas reports that it has applied version 0. Neither is modelled.
* `getReplayDiff` asks for a viewport from `MIN_SAFE_INTEGER` to `MAX_SAFE_INTEGER`, while the
  coordinates are `int4` columns: whether the driver and the database take that is not modelled.
* `region-snapshot.service.ts:154` says that the hash is verified before the restore is
  complete; it is compared after the commit, and a 409 leaves the replaced region.
* A restore bumps no version, logs no delta and sets `created_at` anew: clients that hold tiles learn
  nothing of it, and old tiles can be edited again.
* The `created_at` of a snapshot is the beginning of the transaction that stores it, not the moment its
  tiles were read: of two snapshots, the latest can be the one with the older tiles.
* The presence entry of a heartbeat that names `"arena"` is not removed by the leave of a room whose id
  is another; it ends by the sweep.
* A rejecting telemetry sink in the presence sweep is an unhandled rejection, which ends the process.
* The maps of the fixed windows are never pruned. `config/env.ts` does not compare the TTL of the throttle
  map with its window; a shorter one forgets attempts that count (`LimitAssumption`).
* `completeBootstrap` is called once, so the retry is one for the life of the page, while
  `retryPolicy.maxBootstrap401Retry: 1` of the bootstrap answer reads as one for a call. The access token of
  the startup is used for every placement afterwards.
* The edit window is closed at its upper end in the code (`>=`) and half-open in its comment, which
  also says that an edit by a server whose clock is behind the database's is refused; the `WHERE`
  clause accepts it.
* A retransmission goes to every client of the room, once for each session whose ack is missing;
  `BacklogBounded` states how many that is.
* With an apply callback that waits, a delta can be applied twice or out of order (the browser's
  callback does not wait, which is `SlowApply = FALSE`).
* Retention deletes the deltas of tiles that still exist: a client that starts from version 0 is told
  that it is up to date without them (`PassedIsKnown` speaks of retained deltas only).
* `archiveCheckpoint` does not ask again whether the session is overdue: one that was restored
  between the read and the write is archived all the same.
* A join after the grace period archives the session and creates none: the player is in the room
  without a session, and is refused at the next join.
* The sweep names the region `"arena"`, the sessions name the room's id (see SessionCheckpoint above): it
  protects no delta for any session, and reconnects replay a region in which nobody places.
* A reconnect whose session is archived between its statements succeeds with what retention has left
  (the condition of `ReplayIsWhole`), and the tiles its checksum is of are read after its deltas.
* Sessions whose connections a restart has cut stay live for ever, because nobody marks them
  stale, and their deltas with them.

## What is proved

`PlacementStoreProofs` proves, for all sets of requests, jobs, players, cells, commands and
looks and all lengths of the windows, under `ParameterAssumption` only (jobs have the type of
a job, requests are finitely many, lengths are natural numbers):

* `TypeCorrect`: `FoundedSpec => []TypeOK`.
* `LocksCorrect`: `FoundedSpec => []LocksHold`. Beside the types the induction needs
  `StagesByKind` (a request is in a statement of `insertTile` only if it places). `LocksHold`
  is the heart of the argument: a transaction that has read the version has the next number
  and is the only one that has one (`VersionLock`, which is where `version # 0` is needed);
  two transactions never write one cell (`CellLock`); and what a transaction found in its
  cell is there until it commits (`CellAsFound`).
* `DenseVersions`: `FoundedSpec => []VersionsDense`. Only `Commit` changes log and version
  (`OnlyCommit`), and it takes the next number (`CommitTakesNext`).
* `RegionLogImplemented`: `FoundedSpec => ImplementsRegionLog`. A commit of a deletion maps
  to `Erase` (`LogErase`), of a placement or an edit to `Upsert` (`LogUpsert`), every other
  step to a stutter; `CellAsFound` gives the guards of the abstract actions.
* `CommandsOnce`, `TruthfulReplays`, `MismatchesAreReuse`: `EmptySpec \/ FoundedSpec => []P` for
  `CommandExecutedOnce`, `ReplaysTellTheTruth` and `MismatchMeansReuse`. `CommandStep` sorts the
  statements of all three calls by what they do to the ledger: commit an answer, take the identity, replay,
  or nothing. The invariant `CommandInv` says that one transaction at a time is under way for an
  identity (`IdentityLock`), that every answer given before had expired when it took the identity
  (`HolderComesAfter`), that an answer is in the ledger until it has (`AnswerIsKept`, through the purge as
  well), and that nothing is in the ledger that was not answered, never a pending row
  (`LedgerIsAnswered`).
* `AnswersAddUp`: `FoundedSpec => []CellsAddUp`. Who was told what of a cell is a finite set, because
  requests are (`ParameterAssumption`), and grows by one at a commit: of those who placed if the
  cell was free, of those who deleted if it had a tile. That it still is as the transaction found it is
  `CellAsFound`, the lock of the row or of the unique key.
* `DeadlockFree`: `EmptySpec \/ FoundedSpec => []NoDeadlock`, also while a region is being founded, when the
  `SELECT ... FOR UPDATE` locks no row. The three calls take their locks in one order: command, cell, region
  version (`Rank`); one transaction at a time holds the version (`VersionRowLock`, by the upsert where there was no row);
  so who makes another one wait is further (`BlockersAreFurther`), and of any set of requests the one
  that is furthest (`FurthestExists`) waits for none of the set. `NoDeadlock` is the part of
  `EveryCallEnds` that is not liveness.

`DeltaFanoutProofs` proves, for any number of sessions, placements and attempts and any cap, under
`ParameterAssumption` (they are finite, the cap is positive), whether telemetry rejects or not:

* `FanoutTypeCorrect`: `Spec => []TypeOK`, with `EntriesCommitted`: an entry waits for a committed
  placement, so what a timer sends again is one.
* `GoneTheorem`: `Spec => []GoneIsForgotten`. A publication makes entries for members only, and acks, timers
  and the cleanup change only an entry that is there (`CoordinatorChanges`).
* `AckTheorem`: `Spec => []AckIsHonest`, also when callbacks overlap and set `lastAppliedSequenceId` back:
  whatever it is, a delta with that number was applied (`LastIsApplied`).
* `OrderTheorem`: `Spec => []AppliedInOrder`, for callbacks that wait for nothing (`~SlowApply`): no callback
  is then open between two messages, and the last delta applied is the highest (`InOrder`).
* `BacklogTheorem`: `Spec => []BacklogBounded`. The invariant is a budget (`WithinBudget`): the copies of a delta
  that wait for a session, together with the attempts which the entries of that delta have left in all sessions
  (`Remaining`), are no more than the bound. A delta that is not published is nowhere yet and has no
  entries (`FreshIsUnseen`), so that its publication, which sends one copy to each, opens the whole budget; a
  retransmission sends one copy and uses up one attempt; every other step is calm (`Calm`).
  Places in a queue and attempts are finite sets, counted with `FiniteSetTheorems`.

`RegionDiffProofs` proves, for all sets of readers, viewports, players and cells and every page
size, with and without retention, under `ReaderAssumption` (viewports are sets of cells, a
page holds at least one tile):

* `TypeCorrect`: `Spec => [](TypeOK /\ Behind)`. `Behind`, that a request which is under way has
  something to read, is what makes the empty answer go forward too.
* `PagingLosesNoTile`: `Spec => []PassedIsKnown`. When `since` goes to `n`, a retained tile at
  `v <= n` that is its cell's latest change was known before, or is among the deltas found; then it
  survives the compaction, and the page is cut in the order of versions, so it is on the page. If
  the page is empty, nothing of the kind was found, whatever committed between the two reads.
* `PagingAdvances`: `Spec => PagesAdvance`.

`SessionCheckpointProofs` proves, for all sets of players, connections, requests, sweeps and
sessions, under `SessionAssumption` (a connection has a player, periods and bounds are natural
numbers):

* `TypeCorrect`: `Spec => []TypeOK`, with `ConnectionsHaveSessions` and `RequestsHaveTokens`: who goes
  on with a row or a token has one.
* `OneSession`: `Spec => []OneLiveSession`, and `ArchivedStays`: `Spec => ArchivedIsFinal`. `RowNext`
  is the lemma they share: a step leaves a row as it is, creates it where the player has
  none, or sets its confirmed version.
* `NeededDeltasStay`: `Spec => []NeededIsKept`. The sweep deletes with a minimum that is
  out of date, so the invariant (`RetentionInv`) says why that does no harm: only expired
  deltas go (`YoungIsKept`); nothing that was expired when the sweep began is needed by a session
  created since, nor by one whose confirmed version a slower reconnect sets back, for that
  version is not older than the reconnect (`RequestsAreShort`); and every other live session was
  counted (`SweepIsSafe`), or the sweep is of another region and deletes nothing here.
* `WholeReplays`: `Spec => []ReplayIsWhole`. When the deltas are read the session still needs them, so
  they are there; and should another reconnect bring its confirmed version back to where this one
  has read it, what this one lacks had expired and is not after that version (`MissingIsOld`).
* `TokensOnce`: `Spec => []TokenUsedOnce`. The id of a token that has admitted a reconnect is remembered
  for as long as the token is accepted (`UsedIsRemembered`).

`RegionSnapshotsProofs` proves, for any number of cells, looks, writers, creators and restores, under
`SnapshotAssumption` (names are apart, the number of cells is natural):

* `SnapshotTypeCorrect`: `Spec => []TypeOK`; `MismatchTheorem`: `Spec => []MismatchMeansInterference`;
  `RestoreTheorem`: `Spec => RestoreReplaces`. They share one invariant, `SnapInv`: a
  committed snapshot has the rows its creator has read (`SnapshotsAreWhole`); a restore has
  chosen a committed one and copied its rows (`HasChosen`, `HasCopied`); while it replaces the
  region, a cell with a row is one it will remove, has removed, or one that got a fresh row
  (`OldRowsGo`), which `DeleteIsOver` turns into removed or fresh; so without fresh
  rows what it reads back is the snapshot (`ReadsItsOwn`).

`RateLimitsProofs` proves, for every window, maximum and length of behaviour, under `LimitAssumption`
(all are positive, and `Ttl + 1 >= Window`: the sweep deletes entries that are older than the
TTL, and nothing of them may still count):

* `SlidingTheorem`, `FixedTheorem`, `RetryAfterTheorem`, and `LimitsTypeCorrect`. The invariant `LimitInv`
  says that what has passed in the window that ends now is in the entry, and, for the fixed
  windows, how much has passed since the entry's window began and in the stretch before it; a stretch
  touches two windows at most. The sets are finite, and the cardinality facts are those of
  `FiniteSetTheorems`.

`SessionPresenceProofs` proves, for any number of players, tokens, connections, rooms and sweeps, under
`PresenceAssumption` (lengths are positive):

* `PresenceTypeCorrect`: `Spec => []TypeOK`; `TokenTheorem`: `Spec => []TokenAdmitsOnce`, because an id that has admitted a
  connection is remembered as long as its token is accepted; `AliveTheorem`:
  `Spec => []AliveIsMember`. `PresenceInv` says that a player's last sign of life is the entry of the map
  unless it is older than the TTL, and that a sweep never is ahead of the clock, so what it finds
  stale is stale now.

`ClientSessionProofs` proves, for any region and any number of changes:

* `RepeatedOnceTheorem`: `Spec => []RepeatedOnce`. `RetryInv` counts the requests that were repeated together
  with those that wait for a token to be repeated: they are no more than the retries counted, which stop at one.
* `ReplayIsExactTheorem`: `Spec => []ReplayIsExact`, and `ClientTypeCorrect`: `Spec => []TypeOK`. The invariant `ReplayInv`
  says where the versions of a reconnect lie (`Chain`: the one the server starts from, the one it read, the one the
  deltas end at), that the client's tiles are the region at the version it was last brought to, which a
  replay under way does not start after (`Track`), and that the grid is what the log adds up to (`GridIsLog`).
  `OverlappingReplay` is the heart: a replay that starts before the version of the tiles draws
  some changes twice and still ends where its last delta does.
  `Drawn` is a recursive function, and what it computes is a fact of induction. The library's induction
  theorems cannot be instantiated here, as they take an operator; the proof uses what is first-order,
  that `<` on the natural numbers is well founded (`LeastNat`): `Replayed` gives a closed form, in which the
  last change of a cell counts, and a function which satisfies the recursion and differs from it
  would differ at a least version, where it does not (`DrawnIsReplayed`).

Only model-checked is liveness: `EveryCallEnds`, `EntriesEnd`, `OverdueEnds`, `RestoreEnds`,
`SilentIsForgotten` and `StartupEnds` are out of the prover's reach. The type invariants of `SessionPresence` and `RateLimits`
are proved and in no run.

## Plan

What would add most next, in this order:

1. `handleTilePlacement` of the browser, which places and then draws what the server answered,
   together with the deltas of the room.
2. A composition of `RegionReplay` with the checkpoint's archival, so that `NeededIsKept` is used
   by an instance and not in words.

No recursive operators in modules that are proved about.

## Not modelled

Telemetry output, configuration parsing, startup and shutdown wiring, the verification of
access tokens by a JWT library, the construction of the MSAL configuration and rendering keep
no state of interest; that a telemetry call takes time or rejects is in the models of its
callers, and that a request is refused with 401 is in `ClientSession`. The simulation tick of the
arena room counts up a tick and down two numbers that nothing else reads. The checksums of snapshots of sessions and of replays are left out, since
nothing acts on them. Validation of request bodies and the wording of answers are left out.
`insertTileLegacy` serves database doubles without the ledger tables, and nothing calls
`getRetainedTileDeltasSince`. Regions other than the one at hand do not meet it in any statement, so each
module has one.
