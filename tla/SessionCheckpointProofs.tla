---------------------- MODULE SessionCheckpointProofs ----------------------
(****************************************************************************)
(* Theorems about SessionCheckpoint for every number of players,            *)
(* connections, reconnects and overlapping sweeps.                          *)
(****************************************************************************)
EXTENDS SessionCheckpoint, FiniteSetTheorems, TLAPS

\* A handler that goes on with a row has one ...
ConnectionsHaveSessions ==
    \A c \in Connections :
        stage[c] \in {"archive", "restore", "mark"} => found[c] \in Sessions

\* ... and so has a reconnect with its token.
RequestsHaveTokens == \A r \in Requests : Running(r) => token[r] \in tokens

TypeInv == TypeOK /\ ConnectionsHaveSessions /\ RequestsHaveTokens

-----------------------------------------------------------------------------
(* Types *)

\* Initially every variable has its type.
LEMMA TypeInit == Init => TypeInv
<1> SUFFICES ASSUME Init PROVE TypeInv
  OBVIOUS
<1> USE SessionAssumption DEF Init
<1>1. RegionType
  BY DEF RegionType
<1>2. RowType
  BY DEF RowType, Row, NoRow
<1>3. TokenType
  BY FS_EmptySet DEF TokenType
<1>4. ConnectionType /\ ConnectionsHaveSessions
  BY DEF ConnectionType, ConnectionsHaveSessions
<1>5. RequestType /\ RequestsHaveTokens
  BY DEF RequestType, RequestsHaveTokens, Running
<1>6. SweepType
  BY DEF SweepType
<1> QED
  BY <1>1, <1>2, <1>3, <1>4, <1>5, <1>6 DEF TypeInv, TypeOK

\* A part of the state that a step leaves alone keeps its type.
LEMMA Frames ==
    ASSUME TypeInv
    PROVE  /\ (UNCHANGED <<clock, head, kept, aged, crashes>>) => RegionType'
           /\ (UNCHANGED <<row, head>>) => RowType'
           /\ (UNCHANGED <<tokens, consumed>>) => TokenType'
           /\ (UNCHANGED <<stage, found, until>>)
                 => (ConnectionType' /\ ConnectionsHaveSessions')
           /\ (UNCHANGED <<tokens, head, pc, token, since, current, replay, began>>)
                 => (RequestType' /\ RequestsHaveTokens')
           /\ (UNCHANGED <<sweep, expired, protected, head, aged>>) => SweepType'
<1> USE DEF TypeInv, TypeOK
<1>1. (UNCHANGED <<clock, head, kept, aged, crashes>>) => RegionType'
  BY DEF RegionType
<1>2. (UNCHANGED <<row, head>>) => RowType'
  BY DEF RowType
<1>3. (UNCHANGED <<tokens, consumed>>) => TokenType'
  BY DEF TokenType
<1>4. (UNCHANGED <<stage, found, until>>) => (ConnectionType' /\ ConnectionsHaveSessions')
  BY DEF ConnectionType, ConnectionsHaveSessions
<1>5. (UNCHANGED <<tokens, head, pc, token, since, current, replay, began>>)
        => (RequestType' /\ RequestsHaveTokens')
  BY DEF RequestType, RequestsHaveTokens, Running
<1>6. (UNCHANGED <<sweep, expired, protected, head, aged>>) => SweepType'
  BY DEF SweepType
<1> QED
  BY <1>1, <1>2, <1>3, <1>4, <1>5, <1>6

\* A write to a live row keeps the type of the table.
LEMMA UpdateType ==
    ASSUME TypeInv, NEW k \in Sessions, NEW new \in Row,
           new.confirmed <= head, new.born <= head, Update(k, new), UNCHANGED head
    PROVE  RowType'
BY DEF TypeInv, TypeOK, RowType, Update

\* The statements that write to a row leave it a row.
LEMMA WritesType ==
    ASSUME TypeInv, NEW k \in Sessions, UNCHANGED head
    PROVE  /\ ArchiveCheckpoint(k) => RowType'
           /\ RestoreCheckpoint(k) => RowType'
           /\ \A t \in Nat : MarkCheckpointStale(k, t) => RowType'
           /\ \A v \in 0..head : UpdateCheckpointProgress(k, v) => RowType'
<1>0. /\ row[k] \in Row
      /\ row[k].confirmed <= head /\ row[k].born <= head
      /\ head \in Nat
  BY DEF TypeInv, TypeOK, RowType, RegionType
<1>1. ArchiveCheckpoint(k) => RowType'
  BY <1>0, UpdateType DEF ArchiveCheckpoint, Row
<1>2. RestoreCheckpoint(k) => RowType'
  BY <1>0, UpdateType DEF RestoreCheckpoint, Row
<1>3. ASSUME NEW t \in Nat, MarkCheckpointStale(k, t) PROVE RowType'
  BY <1>0, <1>3, UpdateType DEF MarkCheckpointStale, Row
<1>4. ASSUME NEW v \in 0..head, UpdateCheckpointProgress(k, v) PROVE RowType'
  BY <1>0, <1>4, UpdateType DEF UpdateCheckpointProgress, Row
<1> QED
  BY <1>1, <1>2, <1>3, <1>4

\* Joins and leaves keep the types.
LEMMA TypeConnection ==
    ASSUME TypeInv, NEW c \in Connections, Connection(c)
    PROVE  TypeInv'
<1> USE DEF TypeInv, TypeOK, tables, tokenVars, requestVars, sweepVars
<1>0. /\ RegionType' /\ TokenType' /\ SweepType'
      /\ RequestType' /\ RequestsHaveTokens'
      /\ UNCHANGED <<head>>
  BY Frames DEF Connection, JoinRead, JoinCreate, JoinArchive, JoinRestore, LeaveRead,
                LeaveMark, ConnectionFails
<1>1. ConnectionType' /\ ConnectionsHaveSessions'
  <2> USE DEF ConnectionType, ConnectionsHaveSessions, At
  <2>1. CASE JoinRead(c)
    BY <2>1 DEF JoinRead, ActiveCheckpoint
  <2>2. CASE JoinCreate(c)
    BY <2>2 DEF JoinCreate
  <2>3. CASE JoinArchive(c) \/ JoinRestore(c) \/ LeaveMark(c) \/ ConnectionFails(c)
    BY <2>3 DEF JoinArchive, JoinRestore, LeaveMark, ConnectionFails
  <2>4. CASE LeaveRead(c)
    <3>1. clock + Grace \in Nat
      BY SessionAssumption DEF RegionType
    <3> QED
      BY <2>4, <3>1 DEF LeaveRead, ActiveCheckpoint
  <2> QED
    BY <2>1, <2>2, <2>3, <2>4 DEF Connection
<1>2. RowType'
  <2>1. CASE JoinRead(c) \/ LeaveRead(c) \/ ConnectionFails(c)
    BY <2>1, Frames DEF JoinRead, LeaveRead, ConnectionFails
  <2>2. CASE JoinCreate(c)
    <3>1. NewRow(Owner[c]) \in Row /\ NewRow(Owner[c]).confirmed <= head
          /\ NewRow(Owner[c]).born <= head
      BY SessionAssumption DEF NewRow, Row, RegionType
    <3>2. ASSUME NEW k \in Sessions, row' = [row EXCEPT ![k] = NewRow(Owner[c])]
          PROVE  RowType'
      BY <1>0, <3>1, <3>2 DEF RowType
    <3>3. CASE UNCHANGED row
      BY <1>0, <3>3, Frames
    <3> QED
      BY <2>2, <3>2, <3>3 DEF JoinCreate
  <2>3. CASE JoinArchive(c)
    BY <2>3, WritesType DEF JoinArchive, At, ConnectionsHaveSessions
  <2>4. CASE JoinRestore(c)
    BY <2>4, WritesType DEF JoinRestore, At, ConnectionsHaveSessions
  <2>5. CASE LeaveMark(c)
    BY <2>5, WritesType DEF LeaveMark, At, ConnectionsHaveSessions, ConnectionType
  <2> QED
    BY <2>1, <2>2, <2>3, <2>4, <2>5 DEF Connection
<1> QED
  BY <1>0, <1>1, <1>2

\* So do reconnects,
LEMMA TypeReconnect ==
    ASSUME TypeInv, NEW r \in Requests, Reconnect(r)
    PROVE  TypeInv'
<1> USE DEF TypeInv, TypeOK, tables, connVars, sweepVars
<1> DEFINE k == token[r].session
<1>0. Running(r) => k \in Sessions
  BY DEF RequestsHaveTokens, TokenType, Token
<1>1. UNCHANGED <<clock, head, kept, aged, crashes, tokens>>
  BY DEF Reconnect, VerifyReconnectToken, ReadCheckpoint, ArchiveExpired, ReadVersion,
         ReadDeltas, ReadTiles, Restore, Progress, Answer, RequestFails, tokenVars
<1>2. ConnectionType' /\ ConnectionsHaveSessions' /\ SweepType'
  BY Frames DEF Reconnect, VerifyReconnectToken, ReadCheckpoint, ArchiveExpired, ReadVersion,
         ReadDeltas, ReadTiles, Restore, Progress, Answer, RequestFails
<1>3. RegionType'
  BY <1>1, Frames
<1>4. TokenType'
  <2>1. CASE \E p \in Players, t \in tokens : VerifyReconnectToken(r, p, t)
    BY <2>1 DEF VerifyReconnectToken, Pruned, TokenType
  <2>2. CASE UNCHANGED consumed
    BY <1>1, <2>2, Frames
  <2> QED
    BY <2>1, <2>2 DEF Reconnect, ReadCheckpoint, ArchiveExpired, tokenVars,
         ReadVersion, ReadDeltas, ReadTiles, Restore, Progress, Answer, RequestFails
<1>5. RowType'
  <2>1. CASE ArchiveExpired(r)
    BY <1>0, <1>1, <2>1, WritesType DEF ArchiveExpired, Running
  <2>2. CASE Restore(r)
    BY <1>0, <1>1, <2>2, WritesType DEF Restore, Running, Go
  <2>3. CASE Progress(r)
    <3>1. current[r] \in 0..head
      BY DEF RequestType
    <3> QED
      BY <1>0, <1>1, <2>3, <3>1, WritesType DEF Progress, Running, Go
  <2>4. CASE UNCHANGED row
    BY <1>1, <2>4, Frames
  <2> QED
    BY <2>1, <2>2, <2>3, <2>4 DEF Reconnect, VerifyReconnectToken, ReadCheckpoint,
         ReadVersion, ReadDeltas, ReadTiles, Answer, RequestFails
<1>6. RequestType' /\ RequestsHaveTokens'
  <2> USE DEF RequestType, RequestsHaveTokens, Running
  <2>1. ASSUME Return(r), UNCHANGED token PROVE RequestType' /\ RequestsHaveTokens'
    BY <1>1, <2>1 DEF Return, RegionType
  <2>2. ASSUME NEW p \in Players, NEW t \in tokens, VerifyReconnectToken(r, p, t)
        PROVE  RequestType' /\ RequestsHaveTokens'
    <3>1. CASE Return(r) /\ UNCHANGED token
      BY <2>1, <3>1
    <3>2. CASE Return(r) /\ token' = [token EXCEPT ![r] = t]
      BY <1>1, <3>2 DEF Return, RegionType
    <3>3. CASE /\ pc' = [pc EXCEPT ![r] = "row"]
               /\ token' = [token EXCEPT ![r] = t]
               /\ began' = [began EXCEPT ![r] = head]
               /\ UNCHANGED <<since, current, replay>>
      BY <1>1, <3>3 DEF RegionType
    <3> QED
      BY <2>2, <3>1, <3>2, <3>3 DEF VerifyReconnectToken
  <2>3. CASE ReadCheckpoint(r)
    <3>1. CASE Return(r) /\ UNCHANGED token
      BY <2>1, <3>1
    <3>2. CASE Go(r, "row", "archive") /\ UNCHANGED <<token, since, current, replay, began>>
      BY <1>1, <3>2 DEF Go
    <3>3. CASE /\ Go(r, "row", "version")
               /\ since' = [since EXCEPT ![r] = row[k].confirmed]
               /\ UNCHANGED <<token, current, replay, began>>
      <4>1. row[k].confirmed \in 0..head
        BY <1>0, <3>3 DEF Go, RowType, Row, RegionType
      <4> QED
        BY <1>1, <3>3, <4>1 DEF Go
    <3> QED
      BY <2>3, <3>1, <3>2, <3>3 DEF ReadCheckpoint
  <2>4. CASE ArchiveExpired(r) \/ Answer(r) \/ RequestFails(r)
    BY <2>1, <2>4 DEF ArchiveExpired, Answer, RequestFails
  <2>5. CASE ReadVersion(r) \/ ReadTiles(r)
    BY <1>1, <2>5 DEF ReadVersion, ReadTiles, Go, RegionType
  <2>6. CASE ReadDeltas(r)
    <3>1. {v \in kept : v > since[r]} \in SUBSET (1..head)
      BY DEF RegionType
    <3> QED
      BY <1>1, <2>6, <3>1 DEF ReadDeltas, Go, RegionType
  <2>7. CASE Restore(r) \/ Progress(r)
    BY <1>1, <2>7 DEF Restore, Progress, Go
  <2> QED
    BY <2>2, <2>3, <2>4, <2>5, <2>6, <2>7 DEF Reconnect
<1> QED
  BY <1>2, <1>3, <1>4, <1>5, <1>6

\* the sweep,
LEMMA TypeSweep ==
    ASSUME TypeInv, NEW s \in Sweeps, Sweep(s)
    PROVE  TypeInv'
<1> USE DEF TypeInv, TypeOK, tables, tokenVars, connVars, requestVars
<1>1. /\ TokenType' /\ ConnectionType' /\ ConnectionsHaveSessions'
      /\ RequestType' /\ RequestsHaveTokens'
      /\ UNCHANGED <<clock, head, aged, crashes>>
  BY Frames DEF Sweep, SweepArchive, GetMinimumProtectedVersion, DeleteExpiredTileDeltas
<1>2. RegionType'
  <2>1. kept' \subseteq kept
    BY DEF Sweep, SweepArchive, GetMinimumProtectedVersion, DeleteExpiredTileDeltas
  <2> QED
    BY <1>1, <2>1 DEF RegionType
<1>3. RowType'
  <2>1. CASE SweepArchive(s)
    BY <1>1, <2>1 DEF SweepArchive, RowType, Row
  <2>2. CASE UNCHANGED row
    BY <1>1, <2>2, Frames
  <2> QED
    BY <2>1, <2>2 DEF Sweep, GetMinimumProtectedVersion, DeleteExpiredTileDeltas
<1>4. SweepType'
  <2> USE DEF SweepType
  <2>1. CASE SweepArchive(s)
    <3>1. aged \in 0..aged
      BY DEF RegionType
    <3>2. /\ sweep' = [sweep EXCEPT ![s] = "minimum"]
          /\ expired' = [expired EXCEPT ![s] = aged]
          /\ UNCHANGED <<aged, head, protected>>
      BY <2>1 DEF SweepArchive, SweepStep
    <3> QED
      BY <3>1, <3>2
  <2>2. CASE GetMinimumProtectedVersion(s)
    <3>1. {row[k].confirmed : k \in {j \in Sessions : Live(j)}} \in SUBSET (0..head)
      BY DEF RowType, Row, RegionType
    <3> QED
      BY <1>1, <2>2, <3>1 DEF GetMinimumProtectedVersion, SweepStep
  <2>3. CASE DeleteExpiredTileDeltas(s)
    BY <1>1, <2>3 DEF DeleteExpiredTileDeltas, SweepReturns, RegionType
  <2> QED
    BY <2>1, <2>2, <2>3 DEF Sweep
<1> QED
  BY <1>1, <1>2, <1>3, <1>4

\* the changes of the region,
LEMMA TypeWrite == TypeInv /\ Write => TypeInv'
<1> SUFFICES ASSUME TypeInv, Write PROVE TypeInv'
  OBVIOUS
<1> USE DEF TypeInv, TypeOK, Write, tokenVars, connVars, requestVars, sweepVars
<1>0. head \in Nat /\ head' = head + 1
  BY DEF RegionType
<1>1. TokenType' /\ ConnectionType' /\ ConnectionsHaveSessions'
  BY Frames
<1>2. RegionType'
  BY <1>0 DEF RegionType
<1>3. RowType'
  BY <1>0 DEF RowType, Row
<1>4. RequestType' /\ RequestsHaveTokens'
  <2>1. 0..head \subseteq 0..head' /\ SUBSET (1..head) \subseteq SUBSET (1..head')
    BY <1>0
  <2> QED
    BY <2>1 DEF RequestType, RequestsHaveTokens, Running
<1>5. SweepType'
  <2>1. SUBSET (0..head) \subseteq SUBSET (0..head')
    BY <1>0
  <2> QED
    BY <2>1 DEF SweepType
<1> QED
  BY <1>1, <1>2, <1>3, <1>4, <1>5

\* their expiry,
LEMMA TypeAge == TypeInv /\ Age => TypeInv'
<1> SUFFICES ASSUME TypeInv, Age PROVE TypeInv'
  OBVIOUS
<1> USE DEF TypeInv, TypeOK, Age, tables, tokenVars, connVars, requestVars, sweepVars
<1>1. RowType' /\ TokenType' /\ ConnectionType' /\ ConnectionsHaveSessions'
      /\ RequestType' /\ RequestsHaveTokens'
  BY Frames
<1>2. RegionType'
  BY DEF RegionType
<1>3. SweepType'
  <2>1. 0..aged \subseteq 0..aged'
    BY DEF RegionType
  <2> QED
    BY <2>1 DEF SweepType
<1> QED
  BY <1>1, <1>2, <1>3

\* a restart,
LEMMA TypeCrash == TypeInv /\ Crash => TypeInv'
<1> SUFFICES ASSUME TypeInv, Crash PROVE TypeInv'
  OBVIOUS
<1> USE DEF TypeInv, TypeOK, Crash, tables
<1>0. head \in Nat /\ aged \in Nat
  BY DEF RegionType
<1>1. RowType'
  BY Frames
<1>2. RegionType'
  BY SessionAssumption DEF RegionType
<1>3. TokenType'
  BY DEF TokenType
<1>4. ConnectionType' /\ ConnectionsHaveSessions'
  BY DEF ConnectionType, ConnectionsHaveSessions
<1>5. RequestType' /\ RequestsHaveTokens'
  BY <1>0 DEF RequestType, RequestsHaveTokens, Running
<1>6. SweepType'
  BY <1>0 DEF SweepType
<1> QED
  BY <1>1, <1>2, <1>3, <1>4, <1>5, <1>6

\* and new tokens.
LEMMA TypeIssue ==
    ASSUME TypeInv, NEW p \in Players, IssueReconnectToken(p)
    PROVE  TypeInv'
<1> USE DEF TypeInv, TypeOK, tables, connVars, requestVars, sweepVars
<1>1. /\ RegionType' /\ RowType' /\ ConnectionType' /\ ConnectionsHaveSessions' /\ SweepType'
      /\ UNCHANGED <<clock, head, pc, token, since, current, replay, began>>
  BY Frames DEF IssueReconnectToken
<1>2. PICK k \in Sessions :
         /\ tokens' = tokens \cup
                {[jti |-> Cardinality(tokens) + 1, session |-> k, exp |-> clock + TokenTtl]}
         /\ consumed' = Pruned
  BY DEF IssueReconnectToken, ActiveCheckpoint
<1>3. TokenType'
  <2>1. Cardinality(tokens) \in Nat
    BY FS_CardinalityType DEF TokenType
  <2>2. [jti |-> Cardinality(tokens) + 1, session |-> k, exp |-> clock + TokenTtl] \in Token
    BY <2>1, SessionAssumption DEF Token, RegionType
  <2>3. IsFiniteSet(tokens')
    BY <1>2, FS_AddElement DEF TokenType
  <2> QED
    BY <1>2, <2>2, <2>3 DEF TokenType, Pruned
<1>4. RequestType' /\ RequestsHaveTokens'
  BY <1>1, <1>2 DEF RequestType, RequestsHaveTokens, Running
<1> QED
  BY <1>1, <1>3, <1>4

\* Every step keeps the types.
LEMMA TypeNext == TypeInv /\ [Next]_vars => TypeInv'
<1> SUFFICES ASSUME TypeInv, [Next]_vars PROVE TypeInv'
  OBVIOUS
<1>1. CASE Tick
  <2>1. RegionType'
    BY <1>1 DEF Tick, tables, TypeInv, TypeOK, RegionType
  <2> QED
    BY <1>1, <2>1, Frames DEF Tick, tables, tokenVars, connVars, requestVars, sweepVars,
                              TypeInv, TypeOK
<1>2. CASE UNCHANGED vars
  BY <1>2, Frames DEF vars, tables, tokenVars, connVars, requestVars, sweepVars, TypeInv, TypeOK
<1> QED
  BY <1>1, <1>2, TypeConnection, TypeIssue, TypeReconnect, TypeSweep, TypeWrite, TypeAge,
     TypeCrash DEF Next

\* They hold of every reachable state.
LEMMA TypeInvariant == Spec => []TypeInv
BY TypeInit, TypeNext, PTL DEF Spec

\* Every variable keeps its type, and no version is one the region has not reached.
THEOREM TypeCorrect == Spec => []TypeOK
<1>1. TypeInv => TypeOK
  BY DEF TypeInv
<1> QED
  BY <1>1, TypeInvariant, PTL

-----------------------------------------------------------------------------
(* Rows *)

\* What the statements on a row leave as it is.
Kept(k) ==
    /\ (Live(k))' => Live(k)
    /\ (Live(k))' => row'[k].player = row[k].player /\ row'[k].born = row[k].born

\* A write to some row creates no session, and changes of a live one the confirmed version only.
LEMMA UpdateKeeps ==
    ASSUME TypeInv, NEW j \in Sessions, NEW k \in Sessions
    PROVE  /\ ArchiveCheckpoint(j) => Kept(k) /\ ((Live(k))' => row'[k].confirmed = row[k].confirmed)
           /\ RestoreCheckpoint(j) => Kept(k) /\ ((Live(k))' => row'[k].confirmed = row[k].confirmed)
           /\ \A t \in Nat : MarkCheckpointStale(j, t)
                 => Kept(k) /\ ((Live(k))' => row'[k].confirmed = row[k].confirmed)
           /\ \A v \in Nat : UpdateCheckpointProgress(j, v)
                 => Kept(k) /\ ((Live(k))' => row'[k].confirmed \in {row[k].confirmed, v})
<1> USE DEF TypeInv, TypeOK, RowType, Row, Kept, Live, Update
<1>1. ArchiveCheckpoint(j) => Kept(k) /\ ((Live(k))' => row'[k].confirmed = row[k].confirmed)
  BY DEF ArchiveCheckpoint
<1>2. RestoreCheckpoint(j) => Kept(k) /\ ((Live(k))' => row'[k].confirmed = row[k].confirmed)
  BY DEF RestoreCheckpoint
<1>3. ASSUME NEW t \in Nat, MarkCheckpointStale(j, t)
      PROVE  Kept(k) /\ ((Live(k))' => row'[k].confirmed = row[k].confirmed)
  BY <1>3 DEF MarkCheckpointStale
<1>4. ASSUME NEW v \in Nat, UpdateCheckpointProgress(j, v)
      PROVE  Kept(k) /\ ((Live(k))' => row'[k].confirmed \in {row[k].confirmed, v})
  BY <1>4 DEF UpdateCheckpointProgress
<1> QED
  BY <1>1, <1>2, <1>3, <1>4

\* A step leaves a row as it is, or creates it, or sets its confirmed version.
Untouched(k) == Kept(k) /\ ((Live(k))' => row'[k].confirmed = row[k].confirmed)

Created(k) ==
    \E c \in Connections :
        /\ ActiveCheckpoint(Owner[c]) = {}
        /\ row' = [row EXCEPT ![k] = NewRow(Owner[c])]
        /\ UNCHANGED <<head, kept, aged, expired, protected, sweep, pc, began, current>>

Progressed(k) ==
    \E r \in Requests :
        /\ Progress(r)
        /\ Kept(k)
        /\ (Live(k))' => row'[k].confirmed \in {row[k].confirmed, current[r]}

\* What a step does to a row is one of the three.
LEMMA RowNext ==
    ASSUME TypeInv, NEW k \in Sessions, [Next]_vars
    PROVE  Untouched(k) \/ Created(k) \/ Progressed(k)
<1>1. UNCHANGED row => Untouched(k)
  BY DEF Untouched, Kept, Live
<1>2. ASSUME NEW c \in Connections, JoinCreate(c)
      PROVE  Untouched(k) \/ Created(k)
  <2>1. CASE UNCHANGED row
    BY <2>1 DEF Untouched, Kept, Live
  <2>0. (\A j \in Sessions : row[j].player # Owner[c]) => ActiveCheckpoint(Owner[c]) = {}
    BY DEF ActiveCheckpoint
  <2>2. ASSUME NEW j \in Sessions, row[j].state = "none", ActiveCheckpoint(Owner[c]) = {},
               row' = [row EXCEPT ![j] = NewRow(Owner[c])]
        PROVE  Untouched(k) \/ Created(k)
    <3>1. CASE j = k
      BY <1>2, <2>2, <3>1 DEF Created, JoinCreate, requestVars, sweepVars
    <3>2. CASE j # k
      BY <2>2, <3>2 DEF Untouched, Kept, Live, TypeInv, TypeOK, RowType
    <3> QED
      BY <3>1, <3>2
  <2>3. CASE ~UNCHANGED row
    <3>1. PICK j \in Sessions : row[j].state = "none" /\ row' = [row EXCEPT ![j] = NewRow(Owner[c])]
      BY <1>2, <2>3 DEF JoinCreate
    <3>2. \A i \in Sessions : row[i].player # Owner[c]
      BY <1>2, <2>3 DEF JoinCreate
    <3> QED
      BY <2>0, <2>2, <3>1, <3>2
  <2> QED
    BY <2>1, <2>3
<1>3. ASSUME NEW c \in Connections, JoinArchive(c) \/ JoinRestore(c) \/ LeaveMark(c)
      PROVE  Untouched(k)
  <2>1. found[c] \in Sessions /\ until[c] \in Nat
    BY <1>3 DEF JoinArchive, JoinRestore, LeaveMark, At, TypeInv, ConnectionsHaveSessions,
                TypeOK, ConnectionType
  <2> QED
    BY <1>3, <2>1, UpdateKeeps DEF JoinArchive, JoinRestore, LeaveMark, Untouched
<1>4. ASSUME NEW r \in Requests, ArchiveExpired(r) \/ Restore(r) \/ Progress(r)
      PROVE  Untouched(k) \/ Progressed(k)
  <2>1. token[r].session \in Sessions /\ current[r] \in Nat
    BY <1>4 DEF ArchiveExpired, Restore, Progress, Go, Running, TypeInv, RequestsHaveTokens,
                TypeOK, TokenType, Token, RequestType
  <2>2. CASE ArchiveExpired(r) \/ Restore(r)
    BY <2>1, <2>2, UpdateKeeps DEF ArchiveExpired, Restore, Untouched
  <2>3. CASE Progress(r)
    BY <2>1, <2>3, UpdateKeeps DEF Progress, Progressed
  <2> QED
    BY <1>4, <2>2, <2>3
<1>5. ASSUME NEW s \in Sweeps, SweepArchive(s)
      PROVE  Untouched(k)
  BY <1>5 DEF SweepArchive, Untouched, Kept, Live, TypeInv, TypeOK, RowType, Row
<1>6. CASE UNCHANGED vars
  BY <1>1, <1>6 DEF vars, tables
<1>7. ASSUME NEW c \in Connections, Connection(c)
      PROVE  Untouched(k) \/ Created(k)
  BY <1>1, <1>2, <1>3, <1>7 DEF Connection, JoinRead, LeaveRead, ConnectionFails, tables
<1>8. ASSUME NEW r \in Requests, Reconnect(r)
      PROVE  Untouched(k) \/ Progressed(k)
  BY <1>1, <1>4, <1>8 DEF Reconnect, VerifyReconnectToken, ReadCheckpoint, ReadVersion,
                          ReadDeltas, ReadTiles, Answer, RequestFails, tables
<1>9. ASSUME NEW s \in Sweeps, Sweep(s)
      PROVE  Untouched(k)
  BY <1>1, <1>5, <1>9 DEF Sweep, GetMinimumProtectedVersion, DeleteExpiredTileDeltas,
                          tables
<1>10. CASE Write \/ Tick \/ Age \/ Crash \/ \E p \in Players : IssueReconnectToken(p)
  BY <1>1, <1>10 DEF Write, Tick, Age, Crash, IssueReconnectToken, tables
<1> QED
  BY <1>6, <1>7, <1>8, <1>9, <1>10 DEF Next

\* Initially no player has a session.
LEMMA OneLiveInit == Init => OneLiveSession
BY DEF Init, OneLiveSession, Live, NoRow

\* No step gives a player a second live session.
LEMMA OneLiveNext == TypeInv /\ OneLiveSession /\ [Next]_vars => OneLiveSession'
<1> SUFFICES ASSUME TypeInv, OneLiveSession, [Next]_vars,
                    NEW j \in Sessions, NEW k \in Sessions,
                    (Live(j))', (Live(k))', row'[j].player = row'[k].player
             PROVE  j = k
  BY DEF OneLiveSession
<1>1. CASE Created(j) \/ Created(k)
  <2>1. ASSUME NEW x \in Sessions, NEW y \in Sessions, Created(x), (Live(y))',
               row'[x].player = row'[y].player
        PROVE  x = y
    <3>1. PICK c \in Connections : /\ ActiveCheckpoint(Owner[c]) = {}
                                   /\ row' = [row EXCEPT ![x] = NewRow(Owner[c])]
      BY <2>1 DEF Created
    <3>2. row'[x].player = Owner[c]
      BY <3>1 DEF NewRow, TypeInv, TypeOK, RowType
    <3>3. CASE x # y
      BY <2>1, <3>1, <3>2, <3>3 DEF Live, ActiveCheckpoint, TypeInv, TypeOK, RowType
    <3> QED
      BY <3>3
  <2> QED
    BY <1>1, <2>1
<1>2. CASE Kept(j) /\ Kept(k)
  BY <1>2 DEF Kept, OneLiveSession
<1> QED
  BY <1>1, <1>2, RowNext DEF Untouched, Progressed

\* A player has at most one live session: noteJoin creates one only where the constraint
\* finds none, and nothing brings an archived one back.
THEOREM OneSession == Spec => []OneLiveSession
BY OneLiveInit, OneLiveNext, TypeInvariant, PTL DEF Spec

\* No step changes the row of an archived session.
LEMMA ArchivedNext ==
    ASSUME TypeInv, [Next]_vars, NEW k \in Sessions, row[k].state = "archived"
    PROVE  row'[k] = row[k]
<1> USE DEF Live, TypeInv, TypeOK, RowType
<1>1. ASSUME NEW j, NEW new, Update(j, new) PROVE row'[k] = row[k]
  BY <1>1 DEF Update
<1>2. ASSUME NEW c \in Connections, Connection(c) PROVE row'[k] = row[k]
  <2>1. CASE JoinCreate(c)
    BY <2>1 DEF JoinCreate
  <2>2. CASE JoinArchive(c)
    BY <1>1, <2>2 DEF JoinArchive, ArchiveCheckpoint
  <2>3. CASE JoinRestore(c)
    BY <1>1, <2>3 DEF JoinRestore, RestoreCheckpoint
  <2>4. CASE LeaveMark(c)
    BY <1>1, <2>4 DEF LeaveMark, MarkCheckpointStale
  <2>5. CASE UNCHANGED row
    BY <2>5
  <2> QED
    BY <1>2, <2>1, <2>2, <2>3, <2>4, <2>5
    DEF Connection, JoinRead, LeaveRead, ConnectionFails, tables
<1>3. ASSUME NEW r \in Requests, Reconnect(r) PROVE row'[k] = row[k]
  <2>1. CASE ArchiveExpired(r)
    BY <1>1, <2>1 DEF ArchiveExpired, ArchiveCheckpoint
  <2>2. CASE Restore(r)
    BY <1>1, <2>2 DEF Restore, RestoreCheckpoint
  <2>3. CASE Progress(r)
    BY <1>1, <2>3 DEF Progress, UpdateCheckpointProgress
  <2>4. CASE UNCHANGED row
    BY <2>4
  <2> QED
    BY <1>3, <2>1, <2>2, <2>3, <2>4
    DEF Reconnect, VerifyReconnectToken, ReadCheckpoint, ReadVersion, ReadDeltas, ReadTiles,
        Answer, RequestFails, tables
<1>4. ASSUME NEW s \in Sweeps, Sweep(s) PROVE row'[k] = row[k]
  BY <1>4 DEF Sweep, SweepArchive, GetMinimumProtectedVersion, DeleteExpiredTileDeltas,
              tables
<1>5. CASE Write \/ Tick \/ Age \/ Crash \/ UNCHANGED vars
           \/ \E p \in Players : IssueReconnectToken(p)
  BY <1>5 DEF Write, Tick, Age, Crash, IssueReconnectToken, vars, tables
<1> QED
  BY <1>2, <1>3, <1>4, <1>5 DEF Next

\* No statement changes a row that is archived, whoever found it alive before.
THEOREM ArchivedStays == Spec => ArchivedIsFinal
<1>1. TypeInv /\ [Next]_vars
        => [\A k \in Sessions : row[k].state = "archived" => row'[k] = row[k]]_vars
  BY ArchivedNext
<1> QED
  BY <1>1, TypeInvariant, PTL DEF Spec, ArchivedIsFinal

-----------------------------------------------------------------------------
(* Retention *)

\* Only deltas that have expired are ever deleted.
YoungIsKept == \A v \in 1..head : v > aged => v \in kept

\* No delta expires that was committed after a running reconnect began, and what such a
\* reconnect is going to confirm is not before that.
RequestsAreShort ==
    \A r \in Requests :
        /\ Running(r) => aged <= began[r]
        /\ pc[r] \in {"deltas", "tiles", "restore", "progress", "answer"}
              => began[r] <= current[r]

\* A sweep of the room that is about to delete has seen every live session there was when it read the
\* minimum; one that was created or set back since then needs only what is not expired.
SweepIsSafe ==
    \A s \in Sweeps, k \in Sessions :
        (SweepsRoom /\ sweep[s] = "delete" /\ Live(k)) =>
            \/ expired[s] <= row[k].born
            \/ expired[s] <= row[k].confirmed
            \/ \E m \in protected[s] : m <= row[k].confirmed

RetentionInv == YoungIsKept /\ RequestsAreShort /\ SweepIsSafe /\ NeededIsKept

\* Initially nothing has expired.
LEMMA RetentionInit == Init => RetentionInv
BY DEF Init, RetentionInv, YoungIsKept, RequestsAreShort, SweepIsSafe, NeededIsKept, Running,
       Live, NoRow

\* Only what has expired is deleted.
LEMMA YoungNext == TypeInv /\ YoungIsKept /\ [Next]_vars => YoungIsKept'
<1> SUFFICES ASSUME TypeInv, YoungIsKept, [Next]_vars PROVE YoungIsKept'
  OBVIOUS
<1> USE DEF YoungIsKept
<1>0. head \in Nat /\ aged \in 0..head
  BY DEF TypeInv, TypeOK, RegionType
<1>1. CASE Write
  BY <1>0, <1>1 DEF Write
<1>2. CASE Age
  BY <1>0, <1>2 DEF Age, tables
<1>3. ASSUME NEW s \in Sweeps, DeleteExpiredTileDeltas(s)
      PROVE  YoungIsKept'
  <2>1. expired[s] \in 0..aged
    BY DEF TypeInv, TypeOK, SweepType
  <2> QED
    BY <1>0, <1>3, <2>1 DEF DeleteExpiredTileDeltas
<1>4. CASE UNCHANGED <<head, aged, kept>>
  BY <1>4
<1> QED
  BY <1>1, <1>2, <1>3, <1>4
  DEF Next, vars, tables, Connection, JoinRead, JoinCreate, JoinArchive, JoinRestore, LeaveRead,
      LeaveMark, ConnectionFails, IssueReconnectToken, Reconnect, VerifyReconnectToken,
      ReadCheckpoint, ArchiveExpired, ReadVersion, ReadDeltas, ReadTiles, Restore, Progress,
      Answer, RequestFails, Sweep, SweepArchive, GetMinimumProtectedVersion, Tick,
      Crash

\* Nothing expires that was committed while a reconnect is under way.
LEMMA ShortNext == TypeInv /\ RequestsAreShort /\ [Next]_vars => RequestsAreShort'
<1> SUFFICES ASSUME TypeInv, RequestsAreShort, [Next]_vars PROVE RequestsAreShort'
  OBVIOUS
<1> USE DEF RequestsAreShort, Running
<1>0. /\ head \in Nat /\ aged \in 0..head
      /\ pc \in [Requests -> {"new", "row", "archive", "version", "deltas", "tiles",
                              "restore", "progress", "answer", "end"}]
      /\ began \in [Requests -> 0..head] /\ current \in [Requests -> 0..head]
  BY DEF TypeInv, TypeOK, RegionType, RequestType
<1>1. ASSUME NEW r \in Requests, Reconnect(r)
      PROVE  RequestsAreShort'
  <2>1. aged' = aged
    BY <1>1 DEF Reconnect, VerifyReconnectToken, ReadCheckpoint, ArchiveExpired, ReadVersion,
                ReadDeltas, ReadTiles, Restore, Progress, Answer, RequestFails
  <2>2. CASE Return(r)
    BY <1>0, <2>1, <2>2 DEF Return
  <2>3. ASSUME NEW p \in Players, NEW t \in tokens, VerifyReconnectToken(r, p, t), ~Return(r)
        PROVE  RequestsAreShort'
    <3>1. /\ pc' = [pc EXCEPT ![r] = "row"]
          /\ began' = [began EXCEPT ![r] = head]
          /\ current' = current
      BY <2>3 DEF VerifyReconnectToken
    <3> QED
      BY <1>0, <2>1, <3>1
  <2>4. CASE ReadCheckpoint(r) /\ ~Return(r)
    BY <1>0, <2>1, <2>4 DEF ReadCheckpoint, Go
  <2>5. CASE ReadVersion(r)
    BY <1>0, <2>1, <2>5 DEF ReadVersion, Go
  <2>6. CASE ReadDeltas(r) \/ ReadTiles(r) \/ Restore(r) \/ Progress(r)
    BY <1>0, <2>1, <2>6 DEF ReadDeltas, ReadTiles, Restore, Progress, Go
  <2> QED
    BY <1>1, <2>2, <2>3, <2>4, <2>5, <2>6 DEF Reconnect, ArchiveExpired, Answer, RequestFails
<1>2. CASE Age
  BY <1>0, <1>2 DEF Age, requestVars
<1>3. CASE Crash
  BY <1>0, <1>3 DEF Crash
<1>4. CASE UNCHANGED <<aged, pc, began, current>>
  BY <1>4
<1> QED
  BY <1>1, <1>2, <1>3, <1>4
  DEF Next, vars, requestVars, Connection, JoinRead, JoinCreate, JoinArchive, JoinRestore,
      LeaveRead, LeaveMark, ConnectionFails, IssueReconnectToken, Sweep, SweepArchive,
      GetMinimumProtectedVersion, DeleteExpiredTileDeltas, Tick, Write

\* What a sweep is about to delete is needed by no live session, whatever happened since it counted.
LEMMA SweepSafeNext ==
    TypeInv /\ RequestsAreShort /\ SweepIsSafe /\ [Next]_vars => SweepIsSafe'
<1> SUFFICES ASSUME TypeInv, RequestsAreShort, SweepIsSafe, [Next]_vars,
                    NEW s \in Sweeps, NEW k \in Sessions, SweepsRoom, sweep'[s] = "delete", (Live(k))'
             PROVE  \/ expired'[s] <= row'[k].born
                    \/ expired'[s] <= row'[k].confirmed
                    \/ \E m \in protected'[s] : m <= row'[k].confirmed
  BY DEF SweepIsSafe
<1>0. /\ aged \in Nat /\ head \in Nat /\ aged <= head
      /\ expired \in [Sweeps -> 0..aged]
      /\ row \in [Sessions -> Row]
      /\ current \in [Requests -> 0..head] /\ began \in [Requests -> 0..head]
      /\ sweep \in [Sweeps -> {"idle", "minimum", "delete"}]
      /\ protected \in [Sweeps -> SUBSET (0..head)]
  BY DEF TypeInv, TypeOK, RegionType, RowType, RequestType, SweepType
<1>1. ASSUME NEW q \in Sweeps, GetMinimumProtectedVersion(q), q = s
      PROVE  row[k].confirmed \in protected'[s] /\ row' = row
  BY <1>0, <1>1 DEF GetMinimumProtectedVersion, SweepStep, tables, Live
<1>2. \/ UNCHANGED <<row, sweep, expired, protected>>
      \/ sweep[s] = "delete" /\ expired'[s] = expired[s] /\ protected'[s] = protected[s]
      \/ row[k].confirmed \in protected'[s] /\ row' = row
  <2>1. ASSUME NEW q \in Sweeps, Sweep(q), q # s
        PROVE  /\ sweep'[s] = sweep[s] /\ expired'[s] = expired[s]
               /\ protected'[s] = protected[s]
    BY <1>0, <2>1 DEF Sweep, SweepArchive, GetMinimumProtectedVersion, DeleteExpiredTileDeltas,
                      SweepStep, SweepReturns
  <2>2. ASSUME Sweep(s)
        PROVE  row[k].confirmed \in protected'[s] /\ row' = row
    <3>1. ~SweepArchive(s) /\ ~DeleteExpiredTileDeltas(s)
      BY <1>0 DEF SweepArchive, DeleteExpiredTileDeltas, SweepStep, SweepReturns
    <3> QED
      BY <1>1, <2>2, <3>1 DEF Sweep
  <2>3. ~Crash
    BY DEF Crash
  <2>4. CASE UNCHANGED sweepVars
    BY <2>4 DEF sweepVars
  <2> QED
    BY <2>1, <2>2, <2>3, <2>4
    DEF Next, vars, Connection, JoinRead, JoinCreate, JoinArchive, JoinRestore, LeaveRead,
        LeaveMark, ConnectionFails, IssueReconnectToken, Reconnect, VerifyReconnectToken,
        ReadCheckpoint, ArchiveExpired, ReadVersion, ReadDeltas, ReadTiles, Restore, Progress,
        Answer, RequestFails, Write, Tick, Age
<1>3. CASE row[k].confirmed \in protected'[s] /\ row' = row
  BY <1>0, <1>3 DEF Row
<1>4. CASE sweep[s] = "delete" /\ expired'[s] = expired[s] /\ protected'[s] = protected[s]
  <2>1. CASE Untouched(k)
    BY <1>4, <2>1 DEF Untouched, Kept, SweepIsSafe
  <2>2. CASE Created(k)
    <3>1. row'[k].born = head
      BY <1>0, <2>2 DEF Created, NewRow
    <3> QED
      BY <1>0, <1>4, <3>1
  <2>3. CASE Progressed(k)
    <3>1. PICK r \in Requests : /\ Progress(r) /\ Kept(k)
                                /\ row'[k].confirmed \in {row[k].confirmed, current[r]}
      BY <2>3 DEF Progressed
    <3>2. aged <= current[r]
      BY <1>0, <3>1 DEF Progress, Go, RequestsAreShort, Running
    <3>3. CASE row'[k].confirmed = row[k].confirmed
      BY <1>4, <3>1, <3>3 DEF Kept, SweepIsSafe
    <3>4. CASE row'[k].confirmed = current[r]
      BY <1>0, <1>4, <3>2, <3>4
    <3> QED
      BY <3>1, <3>3, <3>4
  <2> QED
    BY <2>1, <2>2, <2>3, RowNext
<1> QED
  BY <1>2, <1>3, <1>4

\* No step deletes a delta that a live session has not confirmed.
LEMMA NeededNext == TypeInv /\ RetentionInv /\ [Next]_vars => NeededIsKept'
<1> SUFFICES ASSUME TypeInv, RetentionInv, [Next]_vars, NEW k \in Sessions, NEW v \in 1..head',
                    (Live(k))', v > row'[k].confirmed, v > row'[k].born
             PROVE  v \in kept'
  BY DEF NeededIsKept
<1>0. /\ aged \in Nat /\ head \in Nat /\ aged <= head
      /\ expired \in [Sweeps -> 0..aged]
      /\ row \in [Sessions -> Row]
      /\ current \in [Requests -> 0..head] /\ began \in [Requests -> 0..head]
      /\ protected \in [Sweeps -> SUBSET (0..head)]
  BY DEF TypeInv, TypeOK, RegionType, RowType, RequestType, SweepType
<1>1. \/ head' = head /\ kept' = kept
      \/ Write
      \/ \E s \in Sweeps : DeleteExpiredTileDeltas(s)
  BY DEF Next, vars, tables, Connection, JoinRead, JoinCreate, JoinArchive, JoinRestore,
         LeaveRead, LeaveMark, ConnectionFails, IssueReconnectToken, Reconnect,
         VerifyReconnectToken, ReadCheckpoint, ArchiveExpired, ReadVersion, ReadDeltas,
         ReadTiles, Restore, Progress, Answer, RequestFails, Sweep, SweepArchive,
         GetMinimumProtectedVersion, Tick, Age, Crash
<1>2. CASE Write
  BY <1>0, <1>2 DEF Write, RetentionInv, NeededIsKept, Live
<1>3. ASSUME NEW s \in Sweeps, DeleteExpiredTileDeltas(s) PROVE v \in kept'
  <2>0. CASE ~SweepsRoom
    <3>1. Live(k) /\ row' = row /\ head' = head /\ kept' = kept
      BY <1>3, <2>0 DEF DeleteExpiredTileDeltas, Live
    <3> QED
      BY <3>1 DEF RetentionInv, NeededIsKept
  <2>1. Live(k) /\ row' = row /\ head' = head /\ sweep[s] = "delete"
    BY <1>3 DEF DeleteExpiredTileDeltas, Live
  <2>2. v \in kept
    BY <2>1 DEF RetentionInv, NeededIsKept
  <2>3. row[k].born \in Nat /\ row[k].confirmed \in Nat
    BY <1>0 DEF Row
  <2>4. ASSUME SweepsRoom PROVE v > expired[s] \/ \E m \in protected[s] : v >= m
    BY <1>0, <2>1, <2>3, <2>4 DEF RetentionInv, SweepIsSafe
  <2> QED
    BY <1>3, <2>0, <2>2, <2>4 DEF DeleteExpiredTileDeltas
<1>4. CASE head' = head /\ kept' = kept
  <2>1. CASE Untouched(k)
    BY <1>4, <2>1 DEF Untouched, Kept, RetentionInv, NeededIsKept
  <2>2. CASE Created(k)
    <3>1. row'[k].born = head
      BY <1>0, <2>2 DEF Created, NewRow
    <3> QED
      BY <1>0, <1>4, <3>1
  <2>3. CASE Progressed(k)
    <3>1. PICK r \in Requests : /\ Progress(r) /\ Kept(k)
                                /\ row'[k].confirmed \in {row[k].confirmed, current[r]}
      BY <2>3 DEF Progressed
    <3>2. aged <= current[r]
      BY <1>0, <3>1 DEF Progress, Go, RetentionInv, RequestsAreShort, Running
    <3>3. CASE row'[k].confirmed = row[k].confirmed
      BY <1>4, <3>1, <3>3 DEF Kept, RetentionInv, NeededIsKept
    <3>4. CASE row'[k].confirmed = current[r]
      BY <1>0, <1>4, <3>2, <3>4 DEF RetentionInv, YoungIsKept
    <3> QED
      BY <3>1, <3>3, <3>4
  <2> QED
    BY <2>1, <2>2, <2>3, RowNext
<1> QED
  BY <1>1, <1>2, <1>3, <1>4

\* The deltas that a live session has not confirmed are there when it reconnects: no sweep
\* takes them, however its statements interleave with joins, reconnects and other sweeps.
THEOREM NeededDeltasStay == Spec => []NeededIsKept
<1>1. TypeInv /\ RetentionInv /\ [Next]_vars => RetentionInv'
  BY YoungNext, ShortNext, SweepSafeNext, NeededNext DEF RetentionInv
<1>2. RetentionInv => NeededIsKept
  BY DEF RetentionInv
<1> QED
  BY <1>1, <1>2, RetentionInit, TypeInvariant, PTL DEF Spec

-----------------------------------------------------------------------------
(* Replays *)

Replaying(r) == pc[r] \in {"tiles", "restore", "progress"}

\* What a replay lacks had expired.
MissingIsOld ==
    \A r \in Requests : Replaying(r) =>
        \A v \in 1..current[r] : (v > since[r] /\ v \notin replay[r]) => v <= aged

\* A request that has its replay has just read it, or has it still.
LEMMA ReplayStep ==
    ASSUME TypeInv, [Next]_vars, NEW r \in Requests, (Replaying(r))'
    PROVE  \/ ReadDeltas(r)
           \/ /\ Replaying(r)
              /\ since'[r] = since[r] /\ current'[r] = current[r]
              /\ replay'[r] = replay[r] /\ token'[r] = token[r]
<1> USE DEF Replaying
<1>0. /\ pc \in [Requests -> {"new", "row", "archive", "version", "deltas", "tiles",
                              "restore", "progress", "answer", "end"}]
      /\ since \in [Requests -> 0..head] /\ current \in [Requests -> 0..head]
      /\ replay \in [Requests -> SUBSET (1..head)]
      /\ token \in [Requests -> tokens \cup {NoToken}]
  BY DEF TypeInv, TypeOK, RequestType
<1>1. ASSUME NEW q \in Requests, Reconnect(q), q # r
      PROVE  /\ Replaying(r)
             /\ since'[r] = since[r] /\ current'[r] = current[r]
             /\ replay'[r] = replay[r] /\ token'[r] = token[r]
  BY <1>0, <1>1 DEF Reconnect, VerifyReconnectToken, ReadCheckpoint, ArchiveExpired, ReadVersion,
                    ReadDeltas, ReadTiles, Restore, Progress, Answer, RequestFails, Return, Go
<1>2. ASSUME Reconnect(r), ~ReadDeltas(r)
      PROVE  /\ Replaying(r)
             /\ since'[r] = since[r] /\ current'[r] = current[r]
             /\ replay'[r] = replay[r] /\ token'[r] = token[r]
  <2>1. ~Return(r)
    BY <1>0 DEF Return
  <2>2. \A p \in Players, t \in tokens : ~VerifyReconnectToken(r, p, t)
    BY <1>0, <2>1 DEF VerifyReconnectToken
  <2>3. ~ReadCheckpoint(r) /\ ~ReadVersion(r) /\ ~Progress(r)
    BY <1>0, <2>1 DEF ReadCheckpoint, ReadVersion, Progress, Go
  <2> QED
    BY <1>0, <1>2, <2>1, <2>2, <2>3 DEF Reconnect, ArchiveExpired, ReadTiles, Restore, Answer,
                                        RequestFails, Go
<1>3. ~Crash
  BY DEF Crash
<1>4. CASE UNCHANGED requestVars
  BY <1>4 DEF requestVars
<1> QED
  BY <1>1, <1>2, <1>3, <1>4
  DEF Next, vars, Connection, JoinRead, JoinCreate, JoinArchive, JoinRestore, LeaveRead,
      LeaveMark, ConnectionFails, IssueReconnectToken, Sweep, SweepArchive,
      GetMinimumProtectedVersion, DeleteExpiredTileDeltas, Write, Tick, Age

\* What a replay lacks had expired when it was read.
LEMMA MissingNext == TypeInv /\ YoungIsKept /\ MissingIsOld /\ [Next]_vars => MissingIsOld'
<1> SUFFICES ASSUME TypeInv, YoungIsKept, MissingIsOld, [Next]_vars,
                    NEW r \in Requests, (Replaying(r))',
                    NEW v \in 1..current'[r], v > since'[r], v \notin replay'[r]
             PROVE  v <= aged'
  BY DEF MissingIsOld
<1>0. /\ aged \in Nat /\ head \in Nat /\ aged' \in Nat
      /\ since \in [Requests -> 0..head] /\ current \in [Requests -> 0..head]
      /\ replay \in [Requests -> SUBSET (1..head)]
  <2>1. RegionType'
    BY TypeNext DEF TypeInv, TypeOK
  <2>2. aged' \in Nat
    BY <2>1 DEF RegionType
  <2> QED
    BY <2>2 DEF TypeInv, TypeOK, RegionType, RequestType
<1>1. aged <= aged'
  <2>1. CASE Age
    BY <1>0, <2>1 DEF Age
  <2>2. CASE UNCHANGED aged
    BY <1>0, <2>2
  <2> QED
    BY <2>1, <2>2
    DEF Next, vars, Connection, JoinRead, JoinCreate, JoinArchive, JoinRestore, LeaveRead,
        LeaveMark, ConnectionFails, IssueReconnectToken, Reconnect, VerifyReconnectToken,
        ReadCheckpoint, ArchiveExpired, ReadVersion, ReadDeltas, ReadTiles, Restore, Progress,
        Answer, RequestFails, Sweep, SweepArchive, GetMinimumProtectedVersion,
        DeleteExpiredTileDeltas, Write, Tick, Crash
<1>2. CASE ReadDeltas(r)
  BY <1>0, <1>1, <1>2 DEF ReadDeltas, YoungIsKept
<1>3. CASE Replaying(r) /\ since'[r] = since[r] /\ current'[r] = current[r]
           /\ replay'[r] = replay[r]
  BY <1>0, <1>1, <1>3 DEF MissingIsOld
<1> QED
  BY <1>2, <1>3, ReplayStep

\* No step makes the replay of a live session incomplete.
LEMMA WholeNext ==
    TypeInv /\ RetentionInv /\ MissingIsOld /\ ReplayIsWhole /\ [Next]_vars => ReplayIsWhole'
<1> SUFFICES ASSUME TypeInv, RetentionInv, MissingIsOld, ReplayIsWhole, [Next]_vars,
                    NEW r \in Requests, (Replaying(r))', NEW k, k = token'[r].session,
                    (Live(k))', row'[k].confirmed = since'[r],
                    NEW v \in 1..current'[r], v > since'[r], v > row'[k].born
             PROVE  v \in replay'[r]
  BY DEF ReplayIsWhole, Replaying
<1>0. /\ aged \in Nat /\ head \in Nat /\ aged <= head
      /\ row \in [Sessions -> Row]
      /\ since \in [Requests -> 0..head] /\ current \in [Requests -> 0..head]
      /\ began \in [Requests -> 0..head] /\ replay \in [Requests -> SUBSET (1..head)]
  BY DEF TypeInv, TypeOK, RegionType, RowType, RequestType
<1>1. CASE ReadDeltas(r)
  <2>1. /\ replay'[r] = {w \in kept : w > since[r]} /\ since'[r] = since[r]
        /\ current'[r] = current[r] /\ token'[r] = token[r] /\ row' = row
    BY <1>0, <1>1 DEF ReadDeltas, tables
  <2>2. token[r] \in tokens /\ k \in Sessions
    BY <1>1, <2>1 DEF ReadDeltas, Go, Running, TypeInv, RequestsHaveTokens, TypeOK, TokenType,
                      Token
  <2>3. v \in kept
    BY <1>0, <2>1, <2>2 DEF RetentionInv, NeededIsKept, Live
  <2> QED
    BY <2>1, <2>3
<1>2. CASE /\ Replaying(r) /\ since'[r] = since[r] /\ current'[r] = current[r]
           /\ replay'[r] = replay[r] /\ token'[r] = token[r]
  <2>1. k = token[r].session /\ k \in Sessions
    BY <1>2 DEF Replaying, Running, TypeInv, RequestsHaveTokens, TypeOK, TokenType, Token
  <2>2. CASE Kept(k) /\ row'[k].confirmed = row[k].confirmed
    BY <1>2, <2>1, <2>2 DEF Kept, ReplayIsWhole, Replaying
  <2>3. CASE Created(k)
    <3>1. row'[k].born = head
      BY <1>0, <2>1, <2>3 DEF Created, NewRow
    <3> QED
      BY <1>0, <1>2, <3>1
  <2>4. ASSUME NEW q \in Requests, Progress(q), row'[k].confirmed = current[q]
        PROVE  v \in replay'[r]
    <3>1. aged <= current[q]
      BY <1>0, <2>4 DEF Progress, Go, RetentionInv, RequestsAreShort, Running
    <3>2. ~(v <= aged)
      BY <1>0, <1>2, <2>4, <3>1
    <3> QED
      BY <1>2, <3>2 DEF MissingIsOld
  <2> QED
    BY <2>1, <2>2, <2>3, <2>4, RowNext DEF Untouched, Progressed
<1> QED
  BY <1>1, <1>2, ReplayStep

\* What a reconnect replays is complete for as long as its session is live and where it was
\* when the reconnect read it, whatever is written and deleted between its statements.
THEOREM WholeReplays == Spec => []ReplayIsWhole
<1>1. Init => RetentionInv /\ MissingIsOld /\ ReplayIsWhole
  BY RetentionInit DEF Init, MissingIsOld, ReplayIsWhole, Replaying
<1>2. TypeInv /\ RetentionInv /\ MissingIsOld /\ ReplayIsWhole /\ [Next]_vars
         => (RetentionInv /\ MissingIsOld /\ ReplayIsWhole)'
  BY YoungNext, ShortNext, SweepSafeNext, NeededNext, MissingNext, WholeNext DEF RetentionInv
<1> QED
  BY <1>1, <1>2, TypeInvariant, PTL DEF Spec

-----------------------------------------------------------------------------
(* Tokens *)

\* The server remembers a token that has admitted a reconnect for as long as it accepts it.
UsedIsRemembered ==
    \A r \in Requests :
        (token[r] # NoToken /\ token[r].exp > clock) => token[r] \in consumed

TokenInv == TokenUsedOnce /\ UsedIsRemembered

\* No step lets a token admit a second reconnect.
LEMMA TokenNext == TypeInv /\ TokenInv /\ [Next]_vars => TokenInv'
<1> SUFFICES ASSUME TypeInv, TokenInv, [Next]_vars PROVE TokenInv'
  OBVIOUS
<1> USE DEF TokenInv, TokenUsedOnce, UsedIsRemembered
<1>0. /\ clock \in Nat /\ tokens \subseteq Token
      /\ token \in [Requests -> tokens \cup {NoToken}]
  BY DEF TypeInv, TypeOK, RegionType, TokenType, RequestType
<1>1. ASSUME NEW r \in Requests, NEW p \in Players, NEW t \in tokens,
             VerifyReconnectToken(r, p, t)
      PROVE  TokenInv'
  <2>1. clock' = clock /\ consumed' \in {Pruned, Pruned \cup {t}}
    BY <1>1 DEF VerifyReconnectToken
  <2>2. \A q \in Requests :
           (token[q] # NoToken /\ token[q].exp > clock) => token[q] \in Pruned
    BY DEF Pruned
  <2>3. CASE token' = token
    BY <2>1, <2>2, <2>3
  <2>4. CASE /\ t.exp > clock /\ t \notin Pruned
             /\ consumed' = Pruned \cup {t} /\ token' = [token EXCEPT ![r] = t]
    <3>1. \A q \in Requests : token[q] # t \/ token[q] = NoToken
      BY <2>2, <2>4
    <3>2. TokenUsedOnce'
      BY <1>0, <2>4, <3>1
    <3>3. UsedIsRemembered'
      BY <1>0, <2>1, <2>2, <2>4
    <3> QED
      BY <3>2, <3>3
  <2> QED
    BY <1>1, <2>3, <2>4 DEF VerifyReconnectToken
<1>2. ASSUME NEW p \in Players, IssueReconnectToken(p)
      PROVE  TokenInv'
  BY <1>2 DEF IssueReconnectToken, Pruned, requestVars
<1>3. CASE Tick
  <2>1. clock' = clock + 1 /\ UNCHANGED <<token, consumed>>
    BY <1>3 DEF Tick, requestVars, tokenVars
  <2>2. \A q \in Requests : token[q] # NoToken => token[q].exp \in Nat
    BY <1>0 DEF Token
  <2> QED
    BY <1>0, <2>1, <2>2
<1>4. CASE Crash
  BY <1>4 DEF Crash
<1>5. CASE UNCHANGED <<clock, token, consumed>>
  BY <1>5
<1> QED
  BY <1>1, <1>2, <1>3, <1>4, <1>5
  DEF Next, vars, tokenVars, requestVars, Connection, JoinRead, JoinCreate, JoinArchive,
      JoinRestore, LeaveRead, LeaveMark, ConnectionFails, Reconnect, ReadCheckpoint,
      ArchiveExpired, ReadVersion, ReadDeltas, ReadTiles, Restore, Progress, Answer,
      RequestFails, Sweep, SweepArchive, GetMinimumProtectedVersion, DeleteExpiredTileDeltas,
      Write, Age

\* A token admits one reconnect while the server runs, however many present it: an id is
\* pruned only when its token is no longer accepted.
THEOREM TokensOnce == Spec => []TokenUsedOnce
<1>1. Init => TokenInv
  BY DEF Init, TokenInv, TokenUsedOnce, UsedIsRemembered
<1>2. TokenInv => TokenUsedOnce
  BY DEF TokenInv
<1> QED
  BY <1>1, <1>2, TokenNext, TypeInvariant, PTL DEF Spec
=============================================================================
