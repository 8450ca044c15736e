----------------------------- MODULE DeltaFanout -----------------------------
(****************************************************************************)
(* Realtime fanout of placed tiles: placeTile of the HTTP application after  *)
(* its transaction has committed, the DeltaFanoutCoordinator, the ArenaRoom  *)
(* that owns it, and the RealtimeDeltaHandler of every connected client.     *)
(*                                                                           *)
(* A session is one connection of a player to the room; it joins and leaves  *)
(* once.  Its WebSocket delivers in order and is lost as a whole when the    *)
(* session ends.  A delta is identified by its sequenceId, the version its   *)
(* placement was given.  Time does not appear: a timer that is armed may     *)
(* fire, and the TTL of an entry or the window of the outbound cap may have  *)
(* passed, at any moment, since all of these lengths are configuration.      *)
(****************************************************************************)
EXTENDS Integers, Sequences, SequencesExt

CONSTANTS
    Sessions,        \* connections to the room
    MaxSeq,          \* bound: how many placements are committed
    MaxAttempts,     \* deltaRetransmitMaxAttempts
    OutboundCap,     \* deltaOutboundCapPerConnection
    SlowApply,       \* does the client's apply callback wait for anything?
    TelemetryFails   \* can the telemetry sink reject? (never when its mode is off)

ASSUME ParameterAssumption ==
    /\ IsFiniteSet(Sessions)
    /\ MaxSeq \in Nat
    /\ MaxAttempts \in Nat
    /\ OutboundCap \in Nat \ {0}
    /\ SlowApply \in BOOLEAN
    /\ TelemetryFails \in BOOLEAN

Seqs == 1..MaxSeq

VARIABLES
    committed,   \* version of the last placement committed
    waiting,     \* committed placements whose request has not published yet
    status,      \* where each session is in its life
    pending,     \* pendingAckMap: the entry of a session and a delta, or None
    stats,       \* subscriberStats: outboundCount, or NoStats
    toClient,    \* deltas on their way to each session
    toServer,    \* acks on their way back
    lastApplied, \* lastAppliedSequenceId of each client, 0 for null
    applying,    \* deltas whose apply callback has been called and not returned
    applied      \* history: the deltas each client has applied, in order

server == <<committed, waiting, pending, stats>>
client == <<lastApplied, applying, applied>>
vars == <<server, status, toClient, toServer, client>>

None == [timer |-> "none", attempts |-> 0]
NoStats == -1
Entry == [timer : {"armed", "sending", "stopped"}, attempts : 0..MaxAttempts]

\* room.clients: from before onJoin until just before onLeave.
Members == {s \in Sessions : status[s] \in {"joining", "joined"}}

-----------------------------------------------------------------------------
(* placeTile, after insertTile *)

\* Transactions commit in the order of their versions ...
CommitPlacement ==
    /\ committed < MaxSeq
    /\ committed' = committed + 1
    /\ waiting' = waiting \cup {committed + 1}
    /\ UNCHANGED <<pending, stats, status, toClient, toServer, client>>

\* ... but each request awaits its telemetry before it publishes.  A subscriber
\* over its cap is skipped, unless the window of the cap has passed.  publish
\* awaits only sends that are done at once, so nothing runs in between.
Publish(n) ==
    /\ n \in waiting
    /\ waiting' = waiting \ {n}
    /\ \E elapsed \in SUBSET {s \in Members : stats[s] # NoStats} :
         LET count(s) == IF s \in elapsed \/ stats[s] = NoStats THEN 0 ELSE stats[s]
             receivers == {s \in Members : count(s) < OutboundCap}
         IN  /\ stats' = [s \in Sessions |-> IF s \in receivers THEN count(s) + 1
                                                              ELSE stats[s]]
             /\ toClient' = [s \in Sessions |->
                               IF s \in receivers THEN Append(toClient[s], n)
                                                  ELSE toClient[s]]
             /\ pending' = [s \in Sessions |->
                              IF s \in receivers
                                THEN [pending[s] EXCEPT
                                        ![n] = [timer |-> "armed", attempts |-> 0]]
                                ELSE pending[s]]
    /\ UNCHANGED <<committed, status, toServer, client>>

\* The telemetry sink rejects: the placement stays committed and unpublished.  A
\* retry of the command is a replay, which has sequenceId 0 and publishes nothing.
PublishFails(n) ==
    /\ TelemetryFails
    /\ n \in waiting
    /\ waiting' = waiting \ {n}
    /\ UNCHANGED <<committed, pending, stats, status, toClient, toServer, client>>

-----------------------------------------------------------------------------
(* The coordinator *)

HandleAck(s, n) ==
    /\ s \in Members
    /\ n \in toServer[s]
    /\ toServer' = [toServer EXCEPT ![s] = @ \ {n}]
    /\ pending' = [pending EXCEPT ![s][n] = None]
    /\ UNCHANGED <<committed, waiting, stats, status, toClient, client>>

\* Fault: one attempt too many.
RetransmitOnceMore(s, n) ==
    /\ pending[s][n].timer = "armed"
    /\ pending[s][n].attempts <= MaxAttempts
    /\ pending' = [pending EXCEPT ![s][n] = [timer |-> "sending",
                                             attempts |-> @.attempts + 1]]
    /\ toClient' = [c \in Sessions |->
                      IF c \in Members THEN Append(toClient[c], n) ELSE toClient[c]]
    /\ UNCHANGED <<committed, waiting, stats, status, toServer, client>>

\* Fault: the attempts are not counted.
RetransmitUncounted(s, n) ==
    /\ pending[s][n].timer = "armed"
    /\ pending[s][n].attempts < MaxAttempts
    /\ pending' = [pending EXCEPT ![s][n].timer = "sending"]
    /\ toClient' = [c \in Sessions |->
                      IF c \in Members THEN Append(toClient[c], n) ELSE toClient[c]]
    /\ UNCHANGED <<committed, waiting, stats, status, toServer, client>>

\* handleAckTimeout up to its await: handleRetransmit of the room sends to every
\* client of the room, and then waits for the telemetry.
Retransmit(s, n) ==
    /\ pending[s][n].timer = "armed"
    /\ pending[s][n].attempts < MaxAttempts
    /\ pending' = [pending EXCEPT ![s][n] = [timer |-> "sending",
                                             attempts |-> @.attempts + 1]]
    /\ toClient' = [c \in Sessions |->
                      IF c \in Members THEN Append(toClient[c], n) ELSE toClient[c]]
    /\ UNCHANGED <<committed, waiting, stats, status, toServer, client>>

\* Fault: the entry is sent no more, but kept.
GiveUpKeeping(s, n) ==
    /\ pending[s][n].timer = "armed"
    /\ pending[s][n].attempts = MaxAttempts
    /\ pending' = [pending EXCEPT ![s][n].timer = "sending"]
    /\ UNCHANGED <<committed, waiting, stats, status, toClient, toServer, client>>

GiveUp(s, n) ==
    /\ pending[s][n].timer = "armed"
    /\ pending[s][n].attempts = MaxAttempts
    /\ pending' = [pending EXCEPT ![s][n] = None]
    /\ UNCHANGED <<committed, waiting, stats, status, toClient, toServer, client>>

\* After the await.  If the entry was removed meanwhile, the timer set here belongs
\* to no entry, and does nothing when it fires.
Rearm(s, n) ==
    /\ pending[s][n].timer = "sending"
    /\ pending' = [pending EXCEPT ![s][n].timer = "armed"]
    /\ UNCHANGED <<committed, waiting, stats, status, toClient, toServer, client>>

\* The telemetry rejects: no timer is set again.
RearmFails(s, n) ==
    /\ TelemetryFails
    /\ pending[s][n].timer = "sending"
    /\ pending' = [pending EXCEPT ![s][n].timer = "stopped"]
    /\ UNCHANGED <<committed, waiting, stats, status, toClient, toServer, client>>

\* The periodic cleanup, for one entry whose TTL has passed.
CleanupExpiredPendingAck(s, n) ==
    /\ pending[s][n] # None
    /\ pending' = [pending EXCEPT ![s][n] = None]
    /\ UNCHANGED <<committed, waiting, stats, status, toClient, toServer, client>>

NoEntries == [n \in Seqs |-> None]

\* Fault: the entries of the subscriber stay.
UnregisterStatsOnly(s) ==
    /\ stats' = [stats EXCEPT ![s] = NoStats]
    /\ UNCHANGED pending

UnregisterSubscriber(s) ==
    /\ pending' = [pending EXCEPT ![s] = NoEntries]
    /\ stats' = [stats EXCEPT ![s] = NoStats]

-----------------------------------------------------------------------------
(* The room.  onJoin and onLeave await the session lifecycle in the middle. *)

Join(s) ==
    /\ status[s] = "outside"
    /\ status' = [status EXCEPT ![s] = "joining"]
    /\ UNCHANGED <<server, toClient, toServer, client>>

JoinDone(s) ==
    /\ status[s] = "joining"
    /\ status' = [status EXCEPT ![s] = "joined"]
    /\ stats' = [stats EXCEPT ![s] = IF @ = NoStats THEN 0 ELSE @]
    /\ UNCHANGED <<committed, waiting, pending, toClient, toServer, client>>

\* The connection is lost or closed, with what was under way on it and with the
\* client's handler, which belongs to this one connection.
HangUp(S) ==
    LET Ended(f, over) == [s \in Sessions |-> IF s \in S THEN over ELSE f[s]]
    IN  /\ toClient' = Ended(toClient, << >>)
        /\ toServer' = Ended(toServer, {})
        /\ lastApplied' = Ended(lastApplied, 0)
        /\ applying' = Ended(applying, << >>)
        /\ applied' = Ended(applied, << >>)

Leave(s) ==
    /\ s \in Members
    /\ status' = [status EXCEPT ![s] = "leaving"]
    /\ HangUp({s})
    /\ UNCHANGED server

\* If noteRoomLeave rejects, this never comes and the subscriber stays registered.
LeaveDone(s) ==
    /\ status[s] = "leaving"
    /\ status' = [status EXCEPT ![s] = "gone"]
    /\ UnregisterSubscriber(s)
    /\ UNCHANGED <<committed, waiting, toClient, toServer, client>>

Destroy ==
    /\ pending' = [s \in Sessions |-> NoEntries]
    /\ stats' = [s \in Sessions |-> NoStats]

\* The room is disposed of when its last client has left.
Dispose ==
    /\ Members = {}
    /\ \E s \in Sessions : stats[s] # NoStats \/ pending[s] # NoEntries
    /\ Destroy
    /\ UNCHANGED <<committed, waiting, status, toClient, toServer, client>>

\* The process ends: what is only in its memory is gone, the placements are not.
Crash ==
    /\ Members # {} \/ waiting # {}
    /\ waiting' = {}
    /\ Destroy
    /\ status' = [s \in Sessions |-> IF status[s] = "outside" THEN "outside"
                                                             ELSE "gone"]
    /\ HangUp(Sessions)
    /\ UNCHANGED committed

-----------------------------------------------------------------------------
(* The client's handleDelta *)

EmitAck(s, n) == toServer' = [toServer EXCEPT ![s] = @ \cup {n}]

Apply(s, n) ==
    /\ lastApplied' = [lastApplied EXCEPT ![s] = n]
    /\ applied' = [applied EXCEPT ![s] = Append(@, n)]
    /\ EmitAck(s, n)

\* A duplicate is acked and nothing else.
HandleDuplicate(s) ==
    /\ status[s] = "joined"
    /\ toClient[s] # << >>
    /\ Head(toClient[s]) <= lastApplied[s]
    /\ toClient' = [toClient EXCEPT ![s] = Tail(@)]
    /\ EmitAck(s, Head(toClient[s]))
    /\ UNCHANGED <<server, status, client>>

\* Fault: only the delta just applied counts as a duplicate.
HandleUnequal(s) ==
    /\ status[s] = "joined"
    /\ toClient[s] # << >>
    /\ Head(toClient[s]) # lastApplied[s]
    /\ toClient' = [toClient EXCEPT ![s] = Tail(@)]
    /\ Apply(s, Head(toClient[s]))
    /\ UNCHANGED <<server, status, applying>>

\* Fault: the ack is sent before the callback is called.
AckFirst(s) ==
    /\ status[s] = "joined"
    /\ toClient[s] # << >>
    /\ Head(toClient[s]) > lastApplied[s]
    /\ toClient' = [toClient EXCEPT ![s] = Tail(@)]
    /\ EmitAck(s, Head(toClient[s]))
    /\ applying' = [applying EXCEPT ![s] = Append(@, Head(toClient[s]))]
    /\ UNCHANGED <<server, status, lastApplied, applied>>

\* The duplicate check comes before the await of the callback.  If the callback
\* waits for nothing, it is over before the next message is handled.
HandleDelta(s) ==
    LET n == Head(toClient[s])
    IN  /\ status[s] = "joined"
        /\ toClient[s] # << >>
        /\ n > lastApplied[s]
        /\ toClient' = [toClient EXCEPT ![s] = Tail(@)]
        /\ \/ SlowApply /\ applying' = [applying EXCEPT ![s] = Append(@, n)]
                        /\ UNCHANGED <<lastApplied, applied, toServer>>
           \/ ~ SlowApply /\ Apply(s, n) /\ UNCHANGED applying
           \/ ~ SlowApply /\ UNCHANGED <<client, toServer>>   \* it throws: no ack
        /\ UNCHANGED <<server, status>>

ApplySucceeds(s) ==
    /\ \E i \in DOMAIN applying[s] :
         /\ Apply(s, applying[s][i])
         /\ applying' = [applying EXCEPT ![s] = RemoveAt(@, i)]
    /\ UNCHANGED <<server, status, toClient>>

ApplyFails(s) ==
    /\ \E i \in DOMAIN applying[s] :
         applying' = [applying EXCEPT ![s] = RemoveAt(@, i)]
    /\ UNCHANGED <<server, status, toClient, toServer, lastApplied, applied>>

-----------------------------------------------------------------------------
Init ==
    /\ committed = 0
    /\ waiting = {}
    /\ status = [s \in Sessions |-> "outside"]
    /\ pending = [s \in Sessions |-> NoEntries]
    /\ stats = [s \in Sessions |-> NoStats]
    /\ toClient = [s \in Sessions |-> << >>]
    /\ toServer = [s \in Sessions |-> {}]
    /\ lastApplied = [s \in Sessions |-> 0]
    /\ applying = [s \in Sessions |-> << >>]
    /\ applied = [s \in Sessions |-> << >>]

Next ==
    \/ CommitPlacement
    \/ \E n \in Seqs : Publish(n) \/ PublishFails(n)
    \/ \E s \in Sessions, n \in Seqs :
         \/ HandleAck(s, n) \/ Retransmit(s, n) \/ GiveUp(s, n)
         \/ Rearm(s, n) \/ RearmFails(s, n) \/ CleanupExpiredPendingAck(s, n)
    \/ \E s \in Sessions :
         \/ Join(s) \/ JoinDone(s) \/ Leave(s) \/ LeaveDone(s)
         \/ HandleDuplicate(s) \/ HandleDelta(s) \/ ApplySucceeds(s) \/ ApplyFails(s)
    \/ Dispose
    \/ Crash

\* An armed timer fires and a telemetry call ends.  The cleanup is counted on only
\* for an entry without a timer: no other entry should need it.
Fairness ==
    \A s \in Sessions, n \in Seqs :
        /\ WF_vars(Retransmit(s, n) \/ GiveUp(s, n))
        /\ WF_vars(Rearm(s, n) \/ RearmFails(s, n))
        /\ WF_vars(pending[s][n].timer = "stopped" /\ CleanupExpiredPendingAck(s, n))

Spec == Init /\ [][Next]_vars /\ Fairness

-----------------------------------------------------------------------------
(* Properties *)

\* Every variable has its type.
TypeOK ==
    /\ committed \in 0..MaxSeq
    /\ waiting \subseteq 1..committed
    /\ status \in [Sessions -> {"outside", "joining", "joined", "leaving", "gone"}]
    /\ pending \in [Sessions -> [Seqs -> Entry \cup {None}]]
    /\ stats \in [Sessions -> Nat \cup {NoStats}]
    /\ toClient \in [Sessions -> Seq(1..committed)]
    /\ toServer \in [Sessions -> SUBSET (1..committed)]
    /\ lastApplied \in [Sessions -> 0..committed]
    /\ applying \in [Sessions -> Seq(1..committed)]
    /\ applied \in [Sessions -> Seq(1..committed)]

Increasing(log) == \A i, j \in DOMAIN log : i < j => log[i] < log[j]

\* Clients whose callback does not wait apply no delta twice, and any two of them
\* apply the deltas they share in the same order, whatever the publications,
\* retransmissions and joins.
AppliedInOrder == \A s \in Sessions : Increasing(applied[s])

\* An ack is never sent for a delta whose apply failed: the client has applied it,
\* or a later one that made it look like a duplicate.
AckIsHonest ==
    \A s \in Sessions : \A n \in toServer[s] :
        \E i \in DOMAIN applied[s] : applied[s][i] >= n

Backlog(s, n) == Cardinality({i \in DOMAIN toClient[s] : toClient[s][i] = n})

\* Retransmissions end, even to a client that reads and acks nothing: what waits
\* for it is each delta once, and once more for every attempt of every session.
BacklogBounded ==
    \A s \in Sessions, n \in Seqs :
        Backlog(s, n) <= 1 + MaxAttempts * Cardinality(Sessions)

\* Once a subscriber is unregistered no acknowledgement, timer or publication that
\* was under way brings anything of it back.
GoneIsForgotten ==
    \A s \in Sessions : status[s] = "gone" =>
        pending[s] = NoEntries /\ stats[s] = NoStats

\* Every entry leaves the map: acknowledged, given up, or cleaned up when its
\* telemetry failed in the middle of a retransmission.
EntriesEnd ==
    \A s \in Sessions, n \in Seqs : (pending[s][n] # None) ~> (pending[s][n] = None)
=============================================================================
