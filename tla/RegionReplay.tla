---------------------------- MODULE RegionReplay ----------------------------
(****************************************************************************)
(* What a reconnect brings the client: resolveReconnect reads the changes   *)
(* after the version its checkpoint has confirmed (getReplayDiff), and the  *)
(* client draws them over its tiles (applyReplayAndValidateChecksum).       *)
(*                                                                          *)
(* The region is the log that RegionLog promises.  Version, deltas and      *)
(* tiles are read by statements of their own, with writes between.  The     *)
(* tiles of the client start empty, as the checkpoint starts at version 0,  *)
(* and only replays change them: realtime deltas are DeltaFanout's.  The    *)
(* deltas after a confirmed version are kept, which SessionCheckpoint       *)
(* shows.  Checksums are left out: those of the client and of the server    *)
(* are made by different hash functions, and nobody acts on the result.     *)
(****************************************************************************)
EXTENDS Naturals, Sequences

CONSTANTS
    Actors, Cells, Looks, Empty,    \* of the region's log
    MaxVersion                      \* bound: changes committed in a behaviour

VARIABLES
    log, head, grid,    \* the store, see RegionLog
    confirmed,      \* last_confirmed_version of the checkpoint
    phase,          \* where the reconnect is on the server
    since, current, \* sinceVersion and currentVersion of its answer, 0 between reconnects
    upto,           \* version of the last delta of its answer, 0 between reconnects
    tiles,          \* the client's tiles by cell
    at,             \* the version they are at
    missed          \* history: an answer that the server counts as confirmed was not applied

replayVars == <<confirmed, phase, since, current, upto, tiles, at, missed>>
replayAll == <<log, head, grid, replayVars>>

Store == INSTANCE RegionLog

Held == Store!Held \cup {Empty}

-----------------------------------------------------------------------------
\* A transaction of the store commits.
Write ==
    /\ head < MaxVersion
    /\ Store!Next
    /\ UNCHANGED replayVars

\* The checkpoint and getCurrentRegionVersion
ReadVersion ==
    /\ phase = "idle"
    /\ phase' = "version"
    /\ since' = confirmed
    /\ current' = head
    /\ UNCHANGED <<log, head, grid, confirmed, upto, tiles, at, missed>>

\* getTileDeltasSince: all deltas after sinceVersion, also those that came after the version.
ReadDeltas ==
    /\ phase = "version"
    /\ phase' = "deltas"
    /\ upto' = head
    /\ UNCHANGED <<log, head, grid, confirmed, since, current, tiles, at, missed>>

\* Fault: what is confirmed is the version of the region by now.
ConfirmHead ==
    /\ phase = "deltas"
    /\ phase' = "answer"
    /\ confirmed' = head
    /\ UNCHANGED <<log, head, grid, since, current, upto, tiles, at, missed>>

\* restoreCheckpoint and updateCheckpointProgress
Confirm ==
    /\ phase = "deltas"
    /\ phase' = "answer"
    /\ confirmed' = current
    /\ UNCHANGED <<log, head, grid, since, current, upto, tiles, at, missed>>

Forget == phase' = "idle" /\ since' = 0 /\ current' = 0 /\ upto' = 0

\* A statement or telemetry fails, or the answer is lost.
Fail ==
    /\ phase # "idle"
    /\ Forget
    /\ missed' = (missed \/ phase = "answer")
    /\ UNCHANGED <<log, head, grid, confirmed, tiles, at>>

-----------------------------------------------------------------------------
(* The client *)

\* The tile store logs an edit without offsets, and isUpsertDelta asks for them.
IsEdit(v) ==
    /\ log[v].op = "upsert"
    /\ \E w \in 1..(v - 1) : /\ log[w].cell = log[v].cell
                             /\ log[w].op = "upsert"
                             /\ \A u \in (w + 1)..(v - 1) : log[u].cell # log[v].cell

DrawOne(t, d) ==
    [t EXCEPT ![d.cell] = IF d.op = "delete" THEN Empty ELSE [owner |-> d.owner, look |-> d.look]]

\* What tiles t look like after the changes after version "from" up to version "to", drawn
\* one after another.
Drawn(t, from, to) ==
    LET drawn[v \in from..to] == IF v = from THEN t ELSE DrawOne(drawn[v - 1], log[v])
    IN  drawn[to]

\* A delta without its payload makes the whole replay fail.
Apply ==
    /\ phase = "answer"
    /\ Forget
    /\ IF \E v \in (since + 1)..upto : IsEdit(v)
         THEN missed' = TRUE /\ UNCHANGED <<tiles, at>>
         ELSE /\ tiles' = Drawn(tiles, since, upto)
              /\ at' = upto
              /\ UNCHANGED missed
    /\ UNCHANGED <<log, head, grid, confirmed>>

-----------------------------------------------------------------------------
ReplayInit ==
    /\ Store!Init
    /\ confirmed = 0
    /\ phase = "idle"
    /\ since = 0
    /\ current = 0
    /\ upto = 0
    /\ tiles = [c \in Cells |-> Empty]
    /\ at = 0
    /\ missed = FALSE

-----------------------------------------------------------------------------
(* Properties *)

ReplayTypeOK ==
    /\ log \in Seq(Store!Change) /\ head = Len(log)
    /\ confirmed \in 0..head
    /\ phase \in {"idle", "version", "deltas", "answer"}
    /\ since \in 0..head /\ current \in 0..head /\ upto \in 0..head
    /\ tiles \in [Cells -> Held]
    /\ at \in 0..head
    /\ missed \in BOOLEAN

\* What a cell held when version n was the last.
HeldAt(n, c) ==
    LET changes == {v \in 1..n : log[v].cell = c}
    IN  IF changes = {} THEN Empty
        ELSE LET last == CHOOSE v \in changes : \A w \in changes : w <= v
             IN  IF log[last].op = "delete" THEN Empty
                 ELSE [owner |-> log[last].owner, look |-> log[last].look]

\* As long as no answer was missed after the server took it as received, the client shows
\* the region as it was at some version, not before the one the server has confirmed: also
\* when changes are committed between the statements of a reconnect, so that two replays
\* overlap and draw the same changes twice.  At the head of the log, that is the grid.
ReplayIsExact ==
    ~ missed =>
        /\ confirmed <= at \/ (phase = "answer" /\ confirmed <= upto)
        /\ \A c \in Cells : tiles[c] = HeldAt(at, c)
        /\ at = head => tiles = grid
=============================================================================
