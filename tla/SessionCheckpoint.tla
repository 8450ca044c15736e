-------------------------- MODULE SessionCheckpoint --------------------------
(****************************************************************************)
(* The checkpoints of players' sessions (SessionCheckpointService and its   *)
(* repository), with the reconnect tokens, and with the retention of the    *)
(* deltas a reconnect replays.                                              *)
(*                                                                          *)
(* A connection joins the room and leaves it; a reconnect is an HTTP call   *)
(* with a token from a heartbeat; a sweep archives sessions and deletes old *)
(* deltas.  Every statement on the database is a step of its own, none of   *)
(* them is in a transaction, and what was read is used after others have    *)
(* written.  One region: the one that the rows of the room's players name.  *)
(****************************************************************************)
EXTENDS Naturals, FiniteSets

CONSTANTS
    Players,
    Connections,    \* to the room
    Owner,          \* the player of each connection
    Requests,       \* calls of the reconnect route
    Sweeps,         \* calls of archiveExpiredStaleCheckpoints that may overlap
    Sessions,       \* session ids (and checkpoint ids) that can be drawn
    Nobody,         \* no session, no player
    Grace,          \* gracePeriodSeconds
    TokenTtl,       \* ttlSeconds of a reconnect token
    SweepsRoom,     \* whether the room has the id the sweep names, "arena"
    MaxClock,       \* bound: how far the clock goes
    MaxVersion,     \* bound: changes of the region
    MaxTokens,      \* bound: tokens issued
    MaxCrashes      \* bound: restarts of the server

ASSUME SessionAssumption ==
    /\ Owner \in [Connections -> Players]
    /\ Nobody \notin Players \cup Sessions
    /\ Grace \in Nat /\ TokenTtl \in Nat /\ SweepsRoom \in BOOLEAN
    /\ MaxClock \in Nat /\ MaxVersion \in Nat /\ MaxTokens \in Nat /\ MaxCrashes \in Nat

VARIABLES
    clock,          \* the server's clock
    head,           \* current_version of the region
    kept,           \* versions whose delta is in tile_deltas
    aged,           \* deltas up to this version are past their ttl_expires_at
    row,            \* table session_checkpoints
    tokens,         \* reconnect tokens issued
    consumed,       \* consumedReconnectTokenIds, in the server's memory
    crashes,
    stage,          \* of each connection
    found,          \* the session whose row its handler has read
    until,          \* the grace_expires_at its handler is going to write
    pc,             \* statement of each reconnect
    token,          \* the token it was admitted with
    since, current, \* sinceVersion and currentVersion of its replay
    replay,         \* the deltas of its replay
    began,          \* head when it began
    sweep,          \* statement of each sweep
    expired,        \* deltas up to this version were past their time when it began
    protected       \* the confirmed versions it has read

tables == <<head, kept, row>>
tokenVars == <<tokens, consumed>>
connVars == <<stage, found, until>>
requestVars == <<pc, token, since, current, replay, began>>
sweepVars == <<sweep, expired, protected>>
vars == <<clock, aged, crashes, tables, tokenVars, connVars, requestVars, sweepVars>>

-----------------------------------------------------------------------------
(* Rows and tokens *)

\* A row of session_checkpoints; grace 0 is NULL.  (born, the version at its creation,
\* is not in the table.)
Row == [player : Players \cup {Nobody}, confirmed : Nat, stale : BOOLEAN, grace : Nat,
        state : {"none", "live", "archived"}, born : Nat]

NoRow == [player |-> Nobody, confirmed |-> 0, stale |-> FALSE, grace |-> 0,
          state |-> "none", born |-> 0]

NewRow(p) == [player |-> p, confirmed |-> 0, stale |-> FALSE, grace |-> 0,
              state |-> "live", born |-> head]

Token == [jti : Nat, session : Sessions, exp : Nat]

NoToken == [jti |-> 0, session |-> Nobody, exp |-> 0]

Live(k) == row[k].state = "live"

\* getActiveCheckpointByPlayerRegion: at most one, see the constraint in JoinCreate.
ActiveCheckpoint(p) == {k \in Sessions : Live(k) /\ row[k].player = p}

\* A time that is set, and over; the sweep waits for a time to be before now.
Past(t) == t # 0 /\ t <= clock
Before(t) == t # 0 /\ t < clock

\* Fault: the condition on archived_at is forgotten.
UpdateAnyRow(k, new) == row' = [row EXCEPT ![k] = new]

\* UPDATE session_checkpoints ... WHERE checkpoint_id = k AND archived_at IS NULL.
Update(k, new) == row' = IF Live(k) THEN [row EXCEPT ![k] = new] ELSE row

ArchiveCheckpoint(k) ==
    Update(k, [row[k] EXCEPT !.state = "archived", !.stale = FALSE, !.grace = 0])

RestoreCheckpoint(k) == Update(k, [row[k] EXCEPT !.stale = FALSE, !.grace = 0])

\* Fault: grace_expires_at is not set.
MarkWithoutGrace(k, t) == Update(k, [row[k] EXCEPT !.stale = TRUE])

MarkCheckpointStale(k, t) == Update(k, [row[k] EXCEPT !.stale = TRUE, !.grace = t])

\* Fault: the version to ask for next is stored.
ProgressToNext(k, v) == Update(k, [row[k] EXCEPT !.confirmed = v + 1])

UpdateCheckpointProgress(k, v) == Update(k, [row[k] EXCEPT !.confirmed = v])

-----------------------------------------------------------------------------
(* A connection: noteJoin and noteLeave *)

At(c, from, to) == stage[c] = from /\ stage' = [stage EXCEPT ![c] = to]

\* The first statement of noteJoin, and what follows from the row it returns.
JoinRead(c) ==
    LET active == ActiveCheckpoint(Owner[c])
    IN  /\ \/ active = {} /\ At(c, "new", "create") /\ UNCHANGED found
           \/ \E k \in active :
                /\ ~row[k].stale
                /\ At(c, "new", "joined")
                /\ UNCHANGED found
           \/ \E k \in active :
                /\ row[k].stale
                /\ At(c, "new", IF Past(row[k].grace) THEN "archive" ELSE "restore")
                /\ found' = [found EXCEPT ![c] = k]
        /\ UNCHANGED <<clock, aged, crashes, tables, tokenVars, until,
                       requestVars, sweepVars>>

\* Fault: no constraint says that a player has one live row.
CreateUnchecked(c) ==
    /\ At(c, "create", "joined")
    /\ \E k \in Sessions : row[k].state = "none" /\ row' = [row EXCEPT ![k] = NewRow(Owner[c])]
    /\ UNCHANGED <<clock, aged, crashes, head, kept, tokenVars, found, until,
                   requestVars, sweepVars>>

\* createCheckpoint: any row of the player violates the unique constraint, also an
\* archived one (the migration gives addConstraint a condition, but a constraint has
\* none), and the join is refused.
JoinCreate(c) ==
    /\ IF \A k \in Sessions : row[k].player # Owner[c]
         THEN /\ \E k \in Sessions : row[k].state = "none"
                                     /\ row' = [row EXCEPT ![k] = NewRow(Owner[c])]
              /\ At(c, "create", "joined")
         ELSE At(c, "create", "left") /\ UNCHANGED row
    /\ UNCHANGED <<clock, aged, crashes, head, kept, tokenVars, found, until,
                   requestVars, sweepVars>>

\* The player is in the room without a checkpoint.
JoinArchive(c) ==
    /\ At(c, "archive", "joined")
    /\ ArchiveCheckpoint(found[c])
    /\ UNCHANGED <<clock, aged, crashes, head, kept, tokenVars, found, until,
                   requestVars, sweepVars>>

JoinRestore(c) ==
    /\ At(c, "restore", "joined")
    /\ RestoreCheckpoint(found[c])
    /\ UNCHANGED <<clock, aged, crashes, head, kept, tokenVars, found, until,
                   requestVars, sweepVars>>

\* The connection is closed: noteLeave reads whatever row the player has ...
LeaveRead(c) ==
    LET active == ActiveCheckpoint(Owner[c])
    IN  /\ \/ active = {} /\ At(c, "joined", "left") /\ UNCHANGED <<found, until>>
           \/ \E k \in active :
                /\ At(c, "joined", "mark")
                /\ found' = [found EXCEPT ![c] = k]
                /\ until' = [until EXCEPT ![c] = clock + Grace]
        /\ UNCHANGED <<clock, aged, crashes, tables, tokenVars,
                       requestVars, sweepVars>>

\* ... and marks it.
LeaveMark(c) ==
    /\ At(c, "mark", "left")
    /\ MarkCheckpointStale(found[c], until[c])
    /\ UNCHANGED <<clock, aged, crashes, head, kept, tokenVars, found, until,
                   requestVars, sweepVars>>

\* A statement or a telemetry call rejects: a join is refused, a leave has no effect.
ConnectionFails(c) ==
    /\ stage[c] \in {"create", "archive", "restore", "mark"}
    /\ stage' = [stage EXCEPT ![c] = "left"]
    /\ UNCHANGED <<clock, aged, crashes, tables, tokenVars, found, until,
                   requestVars, sweepVars>>

-----------------------------------------------------------------------------
(* Reconnect tokens *)

\* Fault: ids are pruned in the last second in which their token is accepted.
PrunedEarly == {t \in consumed : t.exp > clock + 1}

\* pruneExpiredReplayEntries
Pruned == {t \in consumed : t.exp > clock}

\* The heartbeat route: a token for the player's active checkpoint, if there is one.
IssueReconnectToken(p) ==
    /\ Cardinality(tokens) < MaxTokens
    /\ \E k \in ActiveCheckpoint(p) :
          tokens' = tokens \cup
              {[jti |-> Cardinality(tokens) + 1, session |-> k, exp |-> clock + TokenTtl]}
    /\ consumed' = Pruned
    /\ UNCHANGED <<clock, aged, crashes, tables, connVars, requestVars, sweepVars>>

Go(r, from, to) == pc[r] = from /\ pc' = [pc EXCEPT ![r] = to]

\* The call is over, with whatever answer, and its variables are gone.
Return(r) ==
    /\ pc' = [pc EXCEPT ![r] = "end"]
    /\ since' = [since EXCEPT ![r] = 0]
    /\ current' = [current EXCEPT ![r] = 0]
    /\ replay' = [replay EXCEPT ![r] = {}]
    /\ began' = [began EXCEPT ![r] = 0]

\* verify, and the check of the subject: the token is consumed even if it is another's.
VerifyReconnectToken(r, p, t) ==
    /\ pc[r] = "new"
    /\ \/ /\ t.exp <= clock \/ t \in Pruned
          /\ consumed' = Pruned
          /\ Return(r)
          /\ UNCHANGED token
       \/ /\ t.exp > clock /\ t \notin Pruned
          /\ consumed' = Pruned \cup {t}
          /\ token' = [token EXCEPT ![r] = t]
          /\ \/ row[t.session].player # p /\ Return(r)
             \/ /\ row[t.session].player = p
                /\ pc' = [pc EXCEPT ![r] = "row"]
                /\ began' = [began EXCEPT ![r] = head]
                /\ UNCHANGED <<since, current, replay>>
    /\ UNCHANGED <<clock, aged, crashes, tables, tokens, connVars, sweepVars>>

-----------------------------------------------------------------------------
(* resolveReconnect after the token *)

\* getCheckpointBySessionId finds live rows only; the grace period is checked.
ReadCheckpoint(r) ==
    LET k == token[r].session
    IN  /\ pc[r] = "row"
        /\ \/ ~Live(k) /\ Return(r)
           \/ /\ Live(k) /\ Past(row[k].grace)
              /\ Go(r, "row", "archive")
              /\ UNCHANGED <<since, current, replay, began>>
           \/ /\ Live(k) /\ ~Past(row[k].grace)
              /\ Go(r, "row", "version")
              /\ since' = [since EXCEPT ![r] = row[k].confirmed]
              /\ UNCHANGED <<current, replay, began>>
        /\ UNCHANGED <<clock, aged, crashes, tables, tokenVars, connVars, sweepVars, token>>

ArchiveExpired(r) ==
    /\ pc[r] = "archive"
    /\ ArchiveCheckpoint(token[r].session)
    /\ Return(r)
    /\ UNCHANGED <<clock, aged, crashes, head, kept, tokenVars, connVars, sweepVars, token>>

\* getReplayDiff: the version, then the deltas.
ReadVersion(r) ==
    /\ Go(r, "version", "deltas")
    /\ current' = [current EXCEPT ![r] = head]
    /\ UNCHANGED <<clock, aged, crashes, tables, tokenVars, connVars, sweepVars,
                   token, since, replay, began>>

\* Fault: the replay begins one version late.
ReadDeltasAfterFirst(r) ==
    /\ Go(r, "deltas", "tiles")
    /\ replay' = [replay EXCEPT ![r] = {v \in kept : v > since[r] + 1}]
    /\ UNCHANGED <<clock, aged, crashes, tables, tokenVars, connVars, sweepVars,
                   token, since, current, began>>

ReadDeltas(r) ==
    /\ Go(r, "deltas", "tiles")
    /\ replay' = [replay EXCEPT ![r] = {v \in kept : v > since[r]}]
    /\ UNCHANGED <<clock, aged, crashes, tables, tokenVars, connVars, sweepVars,
                   token, since, current, began>>

\* selectTilesByRegion, for a checksum that is left out.
ReadTiles(r) ==
    /\ Go(r, "tiles", "restore")
    /\ UNCHANGED <<clock, aged, crashes, tables, tokenVars, connVars, sweepVars,
                   token, since, current, replay, began>>

\* Whether the row is still live is not looked at, here and in Progress.
Restore(r) ==
    /\ Go(r, "restore", "progress")
    /\ RestoreCheckpoint(token[r].session)
    /\ UNCHANGED <<clock, aged, crashes, head, kept, tokenVars, connVars, sweepVars,
                   token, since, current, replay, began>>

Progress(r) ==
    /\ Go(r, "progress", "answer")
    /\ UpdateCheckpointProgress(token[r].session, current[r])
    /\ UNCHANGED <<clock, aged, crashes, head, kept, tokenVars, connVars, sweepVars,
                   token, since, current, replay, began>>

\* The answer reaches the client.
Answer(r) ==
    /\ pc[r] = "answer"
    /\ Return(r)
    /\ UNCHANGED <<clock, aged, crashes, tables, tokenVars, connVars, sweepVars, token>>

Running(r) == pc[r] \notin {"new", "end"}

\* A statement or a telemetry call rejects, the rate limit answers 429, or the answer
\* is lost.
RequestFails(r) ==
    /\ Running(r)
    /\ Return(r)
    /\ UNCHANGED <<clock, aged, crashes, tables, tokenVars, connVars, sweepVars, token>>

-----------------------------------------------------------------------------
(* archiveExpiredStaleCheckpoints of the service, which the cleanup timer calls *)

SweepStep(s, from, to) == sweep[s] = from /\ sweep' = [sweep EXCEPT ![s] = to]

SweepReturns(s) ==
    /\ sweep' = [sweep EXCEPT ![s] = "idle"]
    /\ expired' = [expired EXCEPT ![s] = 0]
    /\ protected' = [protected EXCEPT ![s] = {}]

\* archiveExpiredStaleCheckpoints of the repository.
SweepArchive(s) ==
    /\ SweepStep(s, "idle", "minimum")
    /\ row' = [k \in Sessions |->
                 IF Live(k) /\ row[k].stale /\ Before(row[k].grace)
                   THEN [row[k] EXCEPT !.state = "archived", !.stale = FALSE]
                   ELSE row[k]]
    /\ expired' = [expired EXCEPT ![s] = aged]
    /\ UNCHANGED <<clock, aged, crashes, head, kept, tokenVars, connVars,
                   requestVars, protected>>

\* Fault: only sessions that are connected count.
MinimumOfConnected(s) ==
    /\ SweepStep(s, "minimum", "delete")
    /\ protected' = [protected EXCEPT ![s] =
          {row[k].confirmed : k \in {j \in Sessions : Live(j) /\ ~row[j].stale}}]
    /\ UNCHANGED <<clock, aged, crashes, tables, tokenVars, connVars,
                   requestVars, expired>>

\* getMinimumProtectedVersion: the smallest of these, NULL if there is none.  It looks
\* for rows of the region "arena", where a row has the id of the room.
GetMinimumProtectedVersion(s) ==
    /\ SweepStep(s, "minimum", "delete")
    /\ protected' = [protected EXCEPT ![s] =
          {row[k].confirmed : k \in {j \in Sessions : SweepsRoom /\ Live(j)}}]
    /\ UNCHANGED <<clock, aged, crashes, tables, tokenVars, connVars,
                   requestVars, expired>>

\* And it deletes deltas of that region only.
DeleteExpiredTileDeltas(s) ==
    /\ sweep[s] = "delete"
    /\ kept' = IF SweepsRoom
                 THEN {v \in kept : v > expired[s] \/ \E m \in protected[s] : v >= m}
                 ELSE kept
    /\ SweepReturns(s)
    /\ UNCHANGED <<clock, aged, crashes, head, row, tokenVars, connVars, requestVars>>

-----------------------------------------------------------------------------
(* The region, time, and restarts *)

\* A change of the region commits.
Write ==
    /\ head < MaxVersion
    /\ head' = head + 1
    /\ kept' = kept \cup {head + 1}
    /\ UNCHANGED <<clock, aged, crashes, row, tokenVars, connVars, requestVars, sweepVars>>

Tick ==
    /\ clock < MaxClock
    /\ clock' = clock + 1
    /\ UNCHANGED <<aged, crashes, tables, tokenVars, connVars, requestVars, sweepVars>>

\* A delta's ttl_expires_at passes, a day after its commit.  No reconnect takes a day.
Age ==
    /\ aged < head
    /\ \A r \in Requests : Running(r) => aged < began[r]
    /\ aged' = aged + 1
    /\ UNCHANGED <<clock, crashes, tables, tokenVars, connVars, requestVars, sweepVars>>

\* The server ends and starts again: nobody's onLeave is called, and consumed token ids
\* are forgotten.  So it ends, too, when a statement of a sweep rejects: the timer
\* catches nothing.  A token of another life of the server is no concern of token.
Crash ==
    /\ crashes < MaxCrashes
    /\ crashes' = crashes + 1
    /\ stage' = [c \in Connections |-> IF stage[c] = "new" THEN "new" ELSE "left"]
    /\ pc' = [r \in Requests |-> IF pc[r] = "new" THEN "new" ELSE "end"]
    /\ token' = [r \in Requests |-> NoToken]
    /\ since' = [r \in Requests |-> 0]
    /\ current' = [r \in Requests |-> 0]
    /\ replay' = [r \in Requests |-> {}]
    /\ began' = [r \in Requests |-> 0]
    /\ sweep' = [s \in Sweeps |-> "idle"]
    /\ expired' = [s \in Sweeps |-> 0]
    /\ protected' = [s \in Sweeps |-> {}]
    /\ consumed' = {}
    /\ UNCHANGED <<clock, aged, tables, tokens, found, until>>

-----------------------------------------------------------------------------
Init ==
    /\ clock = 1 /\ head = 0 /\ kept = {} /\ aged = 0 /\ crashes = 0
    /\ row = [k \in Sessions |-> NoRow]
    /\ tokens = {} /\ consumed = {}
    /\ stage = [c \in Connections |-> "new"]
    /\ found = [c \in Connections |-> Nobody]
    /\ until = [c \in Connections |-> 0]
    /\ pc = [r \in Requests |-> "new"]
    /\ token = [r \in Requests |-> NoToken]
    /\ since = [r \in Requests |-> 0]
    /\ current = [r \in Requests |-> 0]
    /\ replay = [r \in Requests |-> {}]
    /\ began = [r \in Requests |-> 0]
    /\ sweep = [s \in Sweeps |-> "idle"]
    /\ expired = [s \in Sweeps |-> 0]
    /\ protected = [s \in Sweeps |-> {}]

Connection(c) ==
    \/ JoinRead(c) \/ JoinCreate(c) \/ JoinArchive(c) \/ JoinRestore(c)
    \/ LeaveRead(c) \/ LeaveMark(c) \/ ConnectionFails(c)

Reconnect(r) ==
    \/ \E p \in Players, t \in tokens : VerifyReconnectToken(r, p, t)
    \/ ReadCheckpoint(r) \/ ArchiveExpired(r)
    \/ ReadVersion(r) \/ ReadDeltas(r) \/ ReadTiles(r) \/ Restore(r) \/ Progress(r)
    \/ Answer(r) \/ RequestFails(r)

Sweep(s) ==
    \/ SweepArchive(s) \/ GetMinimumProtectedVersion(s)
    \/ DeleteExpiredTileDeltas(s)

Next ==
    \/ \E c \in Connections : Connection(c)
    \/ \E p \in Players : IssueReconnectToken(p)
    \/ \E r \in Requests : Reconnect(r)
    \/ \E s \in Sweeps : Sweep(s)
    \/ Write \/ Tick \/ Age \/ Crash

\* The cleanup timer fires as long as the server runs, and its statements succeed but
\* for those that end the server.
Spec == Init /\ [][Next]_vars /\ \A s \in Sweeps : WF_vars(Sweep(s))

-----------------------------------------------------------------------------
(* Properties *)

RegionType ==
    /\ clock \in Nat /\ head \in Nat /\ aged \in 0..head /\ crashes \in 0..MaxCrashes
    /\ kept \subseteq 1..head

RowType ==
    /\ row \in [Sessions -> Row]
    /\ \A k \in Sessions : row[k].confirmed <= head /\ row[k].born <= head

TokenType == tokens \subseteq Token /\ IsFiniteSet(tokens) /\ consumed \subseteq tokens

ConnectionType ==
    /\ stage \in [Connections -> {"new", "create", "archive", "restore", "joined", "mark", "left"}]
    /\ found \in [Connections -> Sessions \cup {Nobody}]
    /\ until \in [Connections -> Nat]

RequestType ==
    /\ pc \in [Requests -> {"new", "row", "archive", "version", "deltas", "tiles",
                            "restore", "progress", "answer", "end"}]
    /\ token \in [Requests -> tokens \cup {NoToken}]
    /\ since \in [Requests -> 0..head] /\ current \in [Requests -> 0..head]
    /\ replay \in [Requests -> SUBSET (1..head)]
    /\ began \in [Requests -> 0..head]

SweepType ==
    /\ sweep \in [Sweeps -> {"idle", "minimum", "delete"}]
    /\ expired \in [Sweeps -> 0..aged]
    /\ protected \in [Sweeps -> SUBSET (0..head)]

\* Every variable has its type, and no version is one the region has not reached.
TypeOK == RegionType /\ RowType /\ TokenType /\ ConnectionType /\ RequestType /\ SweepType

\* The deltas a live session has not confirmed, from its beginning on, are retained:
\* a sweep that has read other versions than the table holds when it deletes does not
\* take them, nor does a reconnect that sets the confirmed version back.
NeededIsKept ==
    \A k \in Sessions, v \in 1..head :
        (Live(k) /\ v > row[k].confirmed /\ v > row[k].born) => v \in kept

\* A replay has every change the session has not confirmed, although its version, its
\* deltas and the row are read at different moments; as long as the session is live and
\* no other reconnect has moved it on, after which retention may have taken deltas.
ReplayIsWhole ==
    \A r \in Requests :
        LET k == token[r].session
        IN  (/\ pc[r] \in {"tiles", "restore", "progress"}
             /\ Live(k) /\ row[k].confirmed = since[r])
                => \A v \in 1..current[r] :
                     (v > since[r] /\ v > row[k].born) => v \in replay[r]

\* An archived session stays as it is, whatever handlers that found it alive do later.
ArchivedIsFinal ==
    [][\A k \in Sessions : row[k].state = "archived" => row'[k] = row[k]]_vars

\* A player has one live session, although noteJoin looks before it creates one.
OneLiveSession ==
    \A j, k \in Sessions :
        (Live(j) /\ Live(k) /\ row[j].player = row[k].player) => j = k

\* While the server runs, a token admits one reconnect, although ids of consumed tokens
\* are pruned.
TokenUsedOnce ==
    \A r, q \in Requests : (r # q /\ token[r] # NoToken) => token[r] # token[q]

\* A session whose grace period is over does not stay: it is archived (or has joined again).
Overdue(k) == Live(k) /\ row[k].stale /\ row[k].grace < clock
OverdueEnds == \A k \in Sessions : Overdue(k) ~> ~Overdue(k)
=============================================================================
