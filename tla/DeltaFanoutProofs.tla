------------------------- MODULE DeltaFanoutProofs -------------------------
(****************************************************************************)
(* Theorems about DeltaFanout for any number of sessions, placements,       *)
(* attempts, and any outbound cap.                                          *)
(****************************************************************************)
EXTENDS DeltaFanout, SequenceTheorems, FiniteSetTheorems, TLAPS

-----------------------------------------------------------------------------
(* Sequences *)

\* A queue of some deltas is one of more.
LEMMA SeqGrows ==
    ASSUME NEW A, NEW B, A \subseteq B, NEW q \in Seq(A)
    PROVE  q \in Seq(B)
OBVIOUS

\* A sequence that a delta is taken out of keeps its type.
LEMMA RemoveType ==
    ASSUME NEW A, NEW q \in Seq(A), NEW i \in DOMAIN q
    PROVE  RemoveAt(q, i) \in Seq(A) /\ q[i] \in A
<1>1. i \in 1..Len(q) /\ Len(q) \in Nat /\ \A j \in 1..Len(q) : q[j] \in A
  OBVIOUS
<1>2. SubSeq(q, 1, i - 1) \in Seq(A)
  BY <1>1, SubSeqProperties
<1>3. SubSeq(q, i + 1, Len(q)) \in Seq(A)
  BY <1>1, SubSeqProperties
<1> QED
  BY <1>1, <1>2, <1>3, ConcatProperties DEF RemoveAt

\* A delta that is appended is at the end, and the others are where they were.
LEMMA AppendEntries ==
    ASSUME NEW A, NEW q \in Seq(A), NEW n \in A
    PROVE  /\ Append(q, n) \in Seq(A)
           /\ Len(q) \in Nat /\ DOMAIN q = 1..Len(q)
           /\ DOMAIN Append(q, n) = 1..(Len(q) + 1)
           /\ Append(q, n)[Len(q) + 1] = n
           /\ \A i \in DOMAIN q : Append(q, n)[i] = q[i]
BY AppendProperties

\* None is no entry, and a session without entries has None for every delta.
LEMMA EntryTypes ==
    /\ None \notin Entry
    /\ NoEntries \in [Seqs -> Entry \cup {None}]
    /\ \A n \in Seqs : NoEntries[n] = None
    /\ MaxAttempts \in Nat
    /\ MaxSeq \in Nat
    /\ NoStats \notin Nat
BY ParameterAssumption DEF None, Entry, NoEntries, NoStats

-----------------------------------------------------------------------------
(* Types *)

\* Only what is committed is waited for.
EntriesCommitted ==
    \A s \in Sessions, n \in Seqs : pending[s][n] # None => n \in 1..committed

TypeInv == TypeOK /\ EntriesCommitted

\* Initially every variable has its type.
LEMMA TypeInit == Init => TypeInv
BY EntryTypes DEF Init, TypeInv, TypeOK, EntriesCommitted

\* Committing and publishing keep the types.
LEMMA PublicationType ==
    ASSUME TypeInv,
           CommitPlacement \/ \E n \in Seqs : Publish(n) \/ PublishFails(n)
    PROVE  TypeInv'
<1> USE DEF TypeInv, TypeOK, EntriesCommitted
<1>1. CASE CommitPlacement
  <2>1. committed' = committed + 1 /\ committed' \in 0..MaxSeq
    BY <1>1, EntryTypes DEF CommitPlacement
  <2>2. 1..committed \subseteq 1..committed' /\ 0..committed \subseteq 0..committed'
    BY <2>1
  <2>3. \A s \in Sessions : /\ toClient[s] \in Seq(1..committed')
                            /\ applying[s] \in Seq(1..committed')
                            /\ applied[s] \in Seq(1..committed')
    BY <2>2, SeqGrows
  <2> QED
    BY <1>1, <2>1, <2>2, <2>3 DEF CommitPlacement, client
<1>2. ASSUME NEW n \in Seqs, Publish(n) PROVE TypeInv'
  <2> USE <1>2
  <2>1. n \in 1..committed
    BY DEF Publish
  <2>2. PICK elapsed \in SUBSET {s \in Members : stats[s] # NoStats} :
         LET count(s) == IF s \in elapsed \/ stats[s] = NoStats THEN 0 ELSE stats[s]
             receivers == {s \in Members : count(s) < OutboundCap}
         IN  /\ stats' = [s \in Sessions |-> IF s \in receivers THEN count(s) + 1
                                                              ELSE stats[s]]
             /\ toClient' = [s \in Sessions |->
                               IF s \in receivers THEN Append(toClient[s], n)
                                                  ELSE toClient[s]]
             /\ pending' = [s \in Sessions |->
                              IF s \in receivers
                                THEN [pending[s] EXCEPT
                                        ![n] = [timer |-> "armed", attempts |-> 0]]
                                ELSE pending[s]]
    BY DEF Publish
  <2> DEFINE count(s) == IF s \in elapsed \/ stats[s] = NoStats THEN 0 ELSE stats[s]
             receivers == {s \in Members : count(s) < OutboundCap}
  <2>3. \A s \in Sessions : count(s) \in Nat
    OBVIOUS
  <2> HIDE DEF count
  <2>4. stats' \in [Sessions -> Nat \cup {NoStats}]
    BY <2>2, <2>3 DEF count
  <2>5. toClient' \in [Sessions -> Seq(1..committed)]
    <3>1. \A s \in Sessions : Append(toClient[s], n) \in Seq(1..committed)
      BY <2>1, AppendEntries
    <3> QED
      BY <2>2, <3>1 DEF count
  <2>6. [timer |-> "armed", attempts |-> 0] \in Entry
    BY EntryTypes DEF Entry
  <2>7. pending' \in [Sessions -> [Seqs -> Entry \cup {None}]]
    BY <2>2, <2>6
  <2>8. UNCHANGED <<committed, status, toServer, client>> /\ waiting' = waiting \ {n}
    BY DEF Publish
  <2>9. EntriesCommitted'
    BY <2>1, <2>2, <2>8
  <2> QED
    BY <2>4, <2>5, <2>7, <2>8, <2>9 DEF client
<1>3. CASE \E n \in Seqs : PublishFails(n)
  BY <1>3 DEF PublishFails, client
<1> QED
  BY <1>1, <1>2, <1>3

\* Timers, acks and the cleanup.
CoordinatorStep(s, n) ==
    \/ HandleAck(s, n) \/ Retransmit(s, n) \/ GiveUp(s, n)
    \/ Rearm(s, n) \/ RearmFails(s, n) \/ CleanupExpiredPendingAck(s, n)

\* What they may do: change one entry that is there, and send it to everybody.
LEMMA CoordinatorChanges ==
    ASSUME TypeInv, NEW s \in Sessions, NEW n \in Seqs, CoordinatorStep(s, n)
    PROVE  /\ UNCHANGED <<committed, waiting, stats, status, client>>
           /\ toServer' \in [Sessions -> SUBSET (1..committed)]
           /\ \A c \in Sessions : toServer'[c] \subseteq toServer[c]
           /\ toClient' \in [Sessions -> Seq(1..committed)]
           /\ \E e \in Entry \cup {None} :
                /\ pending' = [pending EXCEPT ![s][n] = e]
                /\ e # None => pending[s][n] # None
<1> USE DEF TypeInv, TypeOK
<1>1. CASE HandleAck(s, n)
  BY <1>1 DEF HandleAck
<1>2. CASE Retransmit(s, n)
  <2>1. pending[s][n] \in Entry
    BY <1>2 DEF Retransmit, None
  <2>2. pending[s][n].attempts \in 0..MaxAttempts /\ pending[s][n].attempts < MaxAttempts
    BY <1>2, <2>1 DEF Retransmit, Entry
  <2>3. [timer |-> "sending", attempts |-> pending[s][n].attempts + 1] \in Entry
    BY <2>2, EntryTypes DEF Entry
  <2>4. n \in 1..committed
    BY <1>2 DEF Retransmit, EntriesCommitted, None
  <2>5. \A c \in Sessions : Append(toClient[c], n) \in Seq(1..committed)
    BY <2>4, AppendEntries
  <2>6. toClient' \in [Sessions -> Seq(1..committed)]
    BY <1>2, <2>5 DEF Retransmit
  <2>7. pending' = [pending EXCEPT ![s][n] = [timer |-> "sending",
                                              attempts |-> pending[s][n].attempts + 1]]
    BY <1>2 DEF Retransmit
  <2>8. UNCHANGED <<committed, waiting, stats, status, toServer, client>>
    BY <1>2 DEF Retransmit
  <2> QED
    BY <2>1, <2>3, <2>6, <2>7, <2>8, EntryTypes
<1>3. CASE GiveUp(s, n) \/ CleanupExpiredPendingAck(s, n)
  BY <1>3 DEF GiveUp, CleanupExpiredPendingAck
<1>4. CASE Rearm(s, n) \/ RearmFails(s, n)
  <2>1. PICK t \in {"armed", "stopped"} :
          /\ pending[s][n].timer = "sending"
          /\ pending' = [pending EXCEPT ![s][n].timer = t]
          /\ UNCHANGED <<committed, waiting, stats, status, toClient, toServer, client>>
    BY <1>4 DEF Rearm, RearmFails
  <2>2. pending[s][n] \in Entry
    BY <2>1 DEF None
  <2>3. [pending[s][n] EXCEPT !.timer = t] \in Entry
    BY <2>2 DEF Entry
  <2>4. pending' = [pending EXCEPT ![s][n] = [pending[s][n] EXCEPT !.timer = t]]
    BY <2>1
  <2> QED
    BY <2>1, <2>2, <2>3, <2>4, EntryTypes
<1> QED
  BY <1>1, <1>2, <1>3, <1>4 DEF CoordinatorStep

\* Acks, timers and the cleanup keep them.
LEMMA CoordinatorType ==
    ASSUME TypeInv, NEW s \in Sessions, NEW n \in Seqs, CoordinatorStep(s, n)
    PROVE  TypeInv'
<1> USE DEF TypeInv, TypeOK
<1>1. PICK e \in Entry \cup {None} :
        /\ pending' = [pending EXCEPT ![s][n] = e]
        /\ e # None => pending[s][n] # None
  BY CoordinatorChanges
<1>2. /\ UNCHANGED <<committed, waiting, stats, status, client>>
      /\ toServer' \in [Sessions -> SUBSET (1..committed)]
      /\ toClient' \in [Sessions -> Seq(1..committed)]
  BY CoordinatorChanges
<1>3. EntriesCommitted'
  BY <1>1, <1>2 DEF EntriesCommitted
<1> QED
  BY <1>1, <1>2, <1>3 DEF client

\* What joins and leaves are.
RoomStep(s) == Join(s) \/ JoinDone(s) \/ Leave(s) \/ LeaveDone(s)

\* So do joins, leaves, the room's end and a crash.
LEMMA RoomType ==
    ASSUME TypeInv, (\E s \in Sessions : RoomStep(s)) \/ Dispose \/ Crash
    PROVE  TypeInv'
<1> USE DEF TypeInv, TypeOK, server, client
<1>1. << >> \in Seq(1..committed) /\ 0 \in 0..committed
  BY DEF TypeOK
<1>2. ASSUME NEW S \in SUBSET Sessions, HangUp(S), UNCHANGED committed
      PROVE  /\ toClient' \in [Sessions -> Seq(1..committed)]
             /\ toServer' \in [Sessions -> SUBSET (1..committed)]
             /\ lastApplied' \in [Sessions -> 0..committed]
             /\ applying' \in [Sessions -> Seq(1..committed)]
             /\ applied' \in [Sessions -> Seq(1..committed)]
  BY <1>1, <1>2 DEF HangUp
<1>3. ASSUME NEW s \in Sessions, Join(s) \/ JoinDone(s) PROVE TypeInv'
  <2>1. status' \in [Sessions -> {"outside", "joining", "joined", "leaving", "gone"}]
    BY <1>3 DEF Join, JoinDone
  <2>2. stats' \in [Sessions -> Nat \cup {NoStats}]
    <3>1. CASE Join(s)
      BY <3>1 DEF Join
    <3>2. CASE JoinDone(s)
      <4>1. (IF stats[s] = NoStats THEN 0 ELSE stats[s]) \in Nat \cup {NoStats}
        OBVIOUS
      <4>2. stats' = [stats EXCEPT ![s] = IF stats[s] = NoStats THEN 0 ELSE stats[s]]
        BY <3>2 DEF JoinDone
      <4> QED
        BY <4>1, <4>2
    <3> QED
      BY <1>3, <3>1, <3>2
  <2>3. UNCHANGED <<committed, waiting, pending, toClient, toServer, client>>
    BY <1>3 DEF Join, JoinDone
  <2> QED
    BY <2>1, <2>2, <2>3 DEF EntriesCommitted
<1>4. ASSUME NEW s \in Sessions, Leave(s) PROVE TypeInv'
  <2>1. HangUp({s}) /\ UNCHANGED server /\ status' = [status EXCEPT ![s] = "leaving"]
    BY <1>4 DEF Leave
  <2> QED
    BY <1>2, <2>1 DEF EntriesCommitted
<1>5. ASSUME NEW s \in Sessions, LeaveDone(s) PROVE TypeInv'
  BY <1>5, EntryTypes DEF LeaveDone, UnregisterSubscriber, EntriesCommitted
<1>6. CASE Dispose
  BY <1>6, EntryTypes DEF Dispose, Destroy, EntriesCommitted
<1>7. CASE Crash
  <2>1. /\ HangUp(Sessions) /\ UNCHANGED committed /\ waiting' = {} /\ Destroy
        /\ status' = [s \in Sessions |-> IF status[s] = "outside" THEN "outside" ELSE "gone"]
    BY <1>7 DEF Crash
  <2> QED
    BY <1>2, <2>1, EntryTypes DEF Destroy, EntriesCommitted
<1> QED
  BY <1>3, <1>4, <1>5, <1>6, <1>7 DEF RoomStep

ClientStep(s) == HandleDuplicate(s) \/ HandleDelta(s) \/ ApplySucceeds(s) \/ ApplyFails(s)

\* A delta is applied, acked as a duplicate, handed to the callback, or dropped.
LEMMA ClientChanges ==
    ASSUME TypeInv, NEW s \in Sessions, ClientStep(s)
    PROVE  /\ UNCHANGED <<server, status>>
           /\ toClient' \in [Sessions -> Seq(1..committed)]
           /\ applying' \in [Sessions -> Seq(1..committed)]
           /\ \/ \E n \in 1..committed :
                    /\ Apply(s, n)
                    /\ n > lastApplied[s] \/ applying[s] # << >>
              \/ \E n \in 1..committed :
                    EmitAck(s, n) /\ n <= lastApplied[s] /\ UNCHANGED <<lastApplied, applied>>
              \/ UNCHANGED <<lastApplied, applied, toServer>>
           /\ ~ SlowApply /\ applying[s] = << >> => UNCHANGED applying
<1> USE DEF TypeInv, TypeOK
<1>1. CASE HandleDuplicate(s)
  <2>1. Head(toClient[s]) \in 1..committed /\ Tail(toClient[s]) \in Seq(1..committed)
    BY <1>1, HeadTailProperties DEF HandleDuplicate
  <2> QED
    BY <1>1, <2>1 DEF HandleDuplicate, client
<1>2. CASE HandleDelta(s)
  <2> DEFINE n == Head(toClient[s])
  <2>1. n \in 1..committed /\ Tail(toClient[s]) \in Seq(1..committed)
    BY <1>2, HeadTailProperties DEF HandleDelta
  <2>2. Append(applying[s], n) \in Seq(1..committed)
    BY <2>1, AppendEntries
  <2>3. /\ UNCHANGED <<server, status>> /\ n > lastApplied[s]
        /\ toClient' = [toClient EXCEPT ![s] = Tail(@)]
        /\ \/ SlowApply /\ applying' = [applying EXCEPT ![s] = Append(@, n)]
                        /\ UNCHANGED <<lastApplied, applied, toServer>>
           \/ ~ SlowApply /\ Apply(s, n) /\ UNCHANGED applying
           \/ ~ SlowApply /\ UNCHANGED <<client, toServer>>
    BY <1>2 DEF HandleDelta
  <2> HIDE DEF n
  <2> QED
    BY <2>1, <2>2, <2>3 DEF client
<1>3. CASE ApplySucceeds(s)
  <2>1. PICK i \in DOMAIN applying[s] :
          /\ Apply(s, applying[s][i])
          /\ applying' = [applying EXCEPT ![s] = RemoveAt(@, i)]
    BY <1>3 DEF ApplySucceeds
  <2>2. RemoveAt(applying[s], i) \in Seq(1..committed) /\ applying[s][i] \in 1..committed
    BY RemoveType
  <2>3. applying[s] # << >> /\ UNCHANGED <<server, status, toClient>>
    BY <1>3 DEF ApplySucceeds
  <2> QED
    BY <2>1, <2>2, <2>3
<1>4. CASE ApplyFails(s)
  <2>1. PICK i \in DOMAIN applying[s] : applying' = [applying EXCEPT ![s] = RemoveAt(@, i)]
    BY <1>4 DEF ApplyFails
  <2>2. RemoveAt(applying[s], i) \in Seq(1..committed)
    BY RemoveType
  <2>3. applying[s] # << >>
        /\ UNCHANGED <<server, status, toClient, toServer, lastApplied, applied>>
    BY <1>4 DEF ApplyFails
  <2> QED
    BY <2>1, <2>2, <2>3
<1> QED
  BY <1>1, <1>2, <1>3, <1>4 DEF ClientStep

\* And so does the client's handler.
LEMMA ClientType ==
    ASSUME TypeInv, NEW s \in Sessions, ClientStep(s)
    PROVE  TypeInv'
<1> USE DEF TypeInv, TypeOK
<1>1. /\ UNCHANGED <<committed, waiting, pending, stats, status>>
      /\ toClient' \in [Sessions -> Seq(1..committed)]
      /\ applying' \in [Sessions -> Seq(1..committed)]
  BY ClientChanges DEF server
<1>2. ASSUME NEW n \in 1..committed, Apply(s, n)
      PROVE  /\ lastApplied' \in [Sessions -> 0..committed]
             /\ applied' \in [Sessions -> Seq(1..committed)]
             /\ toServer' \in [Sessions -> SUBSET (1..committed)]
  BY <1>2, AppendEntries DEF Apply, EmitAck
<1>3. ASSUME NEW n \in 1..committed, EmitAck(s, n)
      PROVE  toServer' \in [Sessions -> SUBSET (1..committed)]
  BY <1>3 DEF EmitAck
<1>4. /\ lastApplied' \in [Sessions -> 0..committed]
      /\ applied' \in [Sessions -> Seq(1..committed)]
      /\ toServer' \in [Sessions -> SUBSET (1..committed)]
  BY <1>2, <1>3, ClientChanges
<1> QED
  BY <1>1, <1>4 DEF EntriesCommitted

\* Every step keeps the types.
LEMMA TypeStep == TypeInv /\ [Next]_vars => TypeInv'
<1> SUFFICES ASSUME TypeInv, [Next]_vars PROVE TypeInv'
  OBVIOUS
<1>1. CASE CommitPlacement \/ \E n \in Seqs : Publish(n) \/ PublishFails(n)
  BY <1>1, PublicationType
<1>2. CASE \E s \in Sessions, n \in Seqs : CoordinatorStep(s, n)
  BY <1>2, CoordinatorType
<1>3. CASE (\E s \in Sessions : RoomStep(s)) \/ Dispose \/ Crash
  BY <1>3, RoomType
<1>4. CASE \E s \in Sessions : ClientStep(s)
  BY <1>4, ClientType
<1>5. CASE UNCHANGED vars
  BY <1>5 DEF vars, server, client, TypeInv, TypeOK, EntriesCommitted
<1> QED
  BY <1>1, <1>2, <1>3, <1>4, <1>5 DEF Next, CoordinatorStep, RoomStep, ClientStep

\* Every variable keeps its type, whatever is published, lost, or joined and left.
THEOREM FanoutTypeCorrect == Spec => []TypeOK
<1>1. TypeInv => TypeOK
  BY DEF TypeInv
<1> QED
  BY <1>1, TypeInit, TypeStep, PTL DEF Spec

\* The same, and an entry belongs to a committed placement.
THEOREM TypeInvariant == Spec => []TypeInv
BY TypeInit, TypeStep, PTL DEF Spec

-----------------------------------------------------------------------------
(* The subscribers that are gone *)

\* No step brings back anything of a subscriber that is gone.
LEMMA GoneStep == TypeInv /\ GoneIsForgotten /\ [Next]_vars => GoneIsForgotten'
<1> SUFFICES ASSUME TypeInv, GoneIsForgotten, [Next]_vars,
                    NEW s \in Sessions, status'[s] = "gone"
             PROVE  pending'[s] = NoEntries /\ stats'[s] = NoStats
  BY DEF GoneIsForgotten
<1> USE DEF TypeInv, TypeOK
<1>1. CASE CommitPlacement \/ UNCHANGED vars \/ \E n \in Seqs : PublishFails(n)
  BY <1>1 DEF GoneIsForgotten, CommitPlacement, PublishFails, vars, server
<1>2. ASSUME NEW n \in Seqs, Publish(n) PROVE pending'[s] = NoEntries /\ stats'[s] = NoStats
  <2>1. status[s] = "gone" /\ s \notin Members
    BY <1>2 DEF Publish, Members
  <2>2. pending'[s] = pending[s] /\ stats'[s] = stats[s]
    BY <1>2, <2>1 DEF Publish
  <2> QED
    BY <2>1, <2>2 DEF GoneIsForgotten
<1>3. ASSUME NEW c \in Sessions, NEW n \in Seqs, CoordinatorStep(c, n)
      PROVE  pending'[s] = NoEntries /\ stats'[s] = NoStats
  <2>1. PICK e \in Entry \cup {None} :
          /\ pending' = [pending EXCEPT ![c][n] = e]
          /\ e # None => pending[c][n] # None
    BY <1>3, CoordinatorChanges
  <2>2. status[s] = "gone" /\ stats'[s] = stats[s]
    BY <1>3, CoordinatorChanges
  <2>3. pending[s] = NoEntries /\ stats[s] = NoStats
    BY <2>2 DEF GoneIsForgotten
  <2>4. c = s => e = None
    BY <2>1, <2>3, EntryTypes
  <2>5. \A m \in Seqs : pending'[s][m] = None
    BY <2>1, <2>3, <2>4, EntryTypes
  <2>6. pending' \in [Sessions -> [Seqs -> Entry \cup {None}]]
    BY <2>1
  <2> QED
    BY <2>2, <2>3, <2>5, <2>6 DEF NoEntries
<1>4. ASSUME NEW c \in Sessions, RoomStep(c)
      PROVE  pending'[s] = NoEntries /\ stats'[s] = NoStats
  <2>1. CASE Join(c) \/ Leave(c)
    BY <1>4, <2>1 DEF Join, Leave, GoneIsForgotten, server
  <2>2. CASE JoinDone(c)
    BY <2>2 DEF JoinDone, GoneIsForgotten
  <2>3. CASE LeaveDone(c)
    BY <2>3 DEF LeaveDone, UnregisterSubscriber, GoneIsForgotten
  <2> QED
    BY <1>4, <2>1, <2>2, <2>3 DEF RoomStep
<1>5. CASE Dispose \/ Crash
  BY <1>5 DEF Dispose, Crash, Destroy
<1>6. ASSUME NEW c \in Sessions, ClientStep(c)
      PROVE  pending'[s] = NoEntries /\ stats'[s] = NoStats
  BY <1>6, ClientChanges DEF GoneIsForgotten, server
<1> QED
  BY <1>1, <1>2, <1>3, <1>4, <1>5, <1>6 DEF Next, CoordinatorStep, RoomStep, ClientStep

\* Nothing brings back a subscriber that is unregistered.
THEOREM GoneTheorem == Spec => []GoneIsForgotten
<1>1. Init => GoneIsForgotten
  BY DEF Init, GoneIsForgotten
<1> QED
  BY <1>1, GoneStep, TypeInvariant, PTL DEF Spec

-----------------------------------------------------------------------------
(* Acks and order *)

\* What a client says it has applied last, it has applied.
LastIsApplied ==
    \A s \in Sessions :
        lastApplied[s] # 0 => \E i \in DOMAIN applied[s] : applied[s][i] = lastApplied[s]

\* A step that is not of the client leaves what it has applied, or ends the connection;
\* it sends no ack.
Elsewhere ==
    \A s \in Sessions :
        /\ \/ lastApplied'[s] = lastApplied[s] /\ applied'[s] = applied[s]
           \/ lastApplied'[s] = 0 /\ applied'[s] = << >> /\ toServer'[s] = {}
        /\ toServer'[s] \subseteq toServer[s]
        /\ applying'[s] \in {applying[s], << >>}

\* A step that is none of a client's handler applies nothing and sends no ack.
LEMMA OthersStep ==
    ASSUME TypeInv, [Next]_vars
    PROVE  Elsewhere \/ \E s \in Sessions : ClientStep(s)
<1> USE DEF TypeInv, TypeOK
<1>1. CASE CommitPlacement \/ UNCHANGED vars \/ \E n \in Seqs : Publish(n) \/ PublishFails(n)
  BY <1>1 DEF Elsewhere, CommitPlacement, Publish, PublishFails, vars, client
<1>2. CASE \E s \in Sessions, n \in Seqs : CoordinatorStep(s, n)
  BY <1>2, CoordinatorChanges DEF Elsewhere, client
<1>3. ASSUME NEW S \in SUBSET Sessions, HangUp(S) PROVE Elsewhere
  BY <1>3 DEF HangUp, Elsewhere
<1>4. CASE (\E s \in Sessions : RoomStep(s)) \/ Dispose \/ Crash
  <2>1. ASSUME NEW s \in Sessions, Leave(s) PROVE Elsewhere
    BY <1>3, <2>1 DEF Leave
  <2>2. CASE Crash
    BY <1>3, <2>2 DEF Crash
  <2>3. CASE Dispose \/ \E s \in Sessions : Join(s) \/ JoinDone(s) \/ LeaveDone(s)
    BY <2>3 DEF Elsewhere, Dispose, Join, JoinDone, LeaveDone, client
  <2> QED
    BY <1>4, <2>1, <2>2, <2>3 DEF RoomStep
<1> QED
  BY <1>1, <1>2, <1>4 DEF Next, CoordinatorStep, RoomStep, ClientStep

\* Every step keeps the acks honest.
LEMMA AckStep ==
    TypeInv /\ LastIsApplied /\ AckIsHonest /\ [Next]_vars => (LastIsApplied /\ AckIsHonest)'
<1> SUFFICES ASSUME TypeInv, LastIsApplied, AckIsHonest, [Next]_vars
             PROVE  LastIsApplied' /\ AckIsHonest'
  OBVIOUS
<1>1. CASE Elsewhere
  BY <1>1 DEF Elsewhere, LastIsApplied, AckIsHonest
<1>2. ASSUME NEW s \in Sessions, ClientStep(s) PROVE LastIsApplied' /\ AckIsHonest'
  <2>0. \A c \in Sessions :
          /\ lastApplied[c] \in Nat /\ toServer[c] \subseteq Nat
          /\ \A i \in DOMAIN applied[c] : applied[c][i] \in Nat
    BY DEF TypeInv, TypeOK
  <2>1. ASSUME NEW n \in 1..committed, Apply(s, n) PROVE LastIsApplied' /\ AckIsHonest'
    <3>1. /\ \A c \in Sessions : c # s => /\ applied'[c] = applied[c]
                                         /\ lastApplied'[c] = lastApplied[c]
                                         /\ toServer'[c] = toServer[c]
          /\ applied'[s] = Append(applied[s], n)
          /\ lastApplied'[s] = n
          /\ toServer'[s] = toServer[s] \cup {n}
      BY <2>1 DEF Apply, EmitAck, TypeInv, TypeOK
    <3>2. /\ Len(applied[s]) \in Nat /\ DOMAIN applied[s] = 1..Len(applied[s])
          /\ DOMAIN applied'[s] = 1..(Len(applied[s]) + 1)
          /\ applied'[s][Len(applied[s]) + 1] = n
          /\ \A i \in DOMAIN applied[s] : applied'[s][i] = applied[s][i]
      BY <3>1, AppendEntries DEF TypeInv, TypeOK
    <3>3. LastIsApplied'
      <4> SUFFICES ASSUME NEW c \in Sessions, lastApplied'[c] # 0
                   PROVE  \E i \in DOMAIN applied'[c] : applied'[c][i] = lastApplied'[c]
        BY DEF LastIsApplied
      <4>1. CASE c # s
        BY <3>1, <4>1 DEF LastIsApplied
      <4>2. CASE c = s
        <5>1. Len(applied[s]) + 1 \in DOMAIN applied'[s]
          BY <3>2
        <5> QED
          BY <3>1, <3>2, <4>2, <5>1
      <4> QED
        BY <4>1, <4>2
    <3>4. AckIsHonest'
      <4> SUFFICES ASSUME NEW c \in Sessions, NEW m \in toServer'[c]
                   PROVE  \E i \in DOMAIN applied'[c] : applied'[c][i] >= m
        BY DEF AckIsHonest
      <4>1. CASE m \in toServer[c]
        <5>1. PICK i \in DOMAIN applied[c] : applied[c][i] >= m
          BY <4>1 DEF AckIsHonest
        <5>2. i \in DOMAIN applied'[c] /\ applied'[c][i] = applied[c][i]
          BY <3>1, <3>2
        <5> QED
          BY <5>1, <5>2
      <4>2. CASE c = s /\ m = n
        <5>1. Len(applied[s]) + 1 \in DOMAIN applied'[s] /\ n >= n
          BY <3>2
        <5> QED
          BY <3>2, <4>2, <5>1
      <4> QED
        BY <3>1, <4>1, <4>2
    <3> QED
      BY <3>3, <3>4
  <2>2. ASSUME NEW n \in 1..committed, EmitAck(s, n), n <= lastApplied[s],
               UNCHANGED <<lastApplied, applied>>
        PROVE  LastIsApplied' /\ AckIsHonest'
    <3>1. lastApplied[s] # 0
      BY <2>0, <2>2
    <3>2. PICK i \in DOMAIN applied[s] : applied[s][i] = lastApplied[s]
      BY <3>1 DEF LastIsApplied
    <3>3. applied[s][i] >= n
      BY <2>0, <2>2, <3>2
    <3>4. \A c \in Sessions : \A m \in toServer'[c] : m \in toServer[c] \/ (c = s /\ m = n)
      BY <2>2 DEF EmitAck, TypeInv, TypeOK
    <3>5. applied' = applied /\ lastApplied' = lastApplied
      BY <2>2
    <3>6. LastIsApplied'
      BY <3>5 DEF LastIsApplied
    <3>7. AckIsHonest'
      BY <3>2, <3>3, <3>4, <3>5 DEF AckIsHonest
    <3> QED
      BY <3>6, <3>7
  <2>3. CASE UNCHANGED <<lastApplied, applied, toServer>>
    BY <2>3 DEF LastIsApplied, AckIsHonest
  <2> QED
    BY <1>2, <2>1, <2>2, <2>3, ClientChanges
<1> QED
  BY <1>1, <1>2, OthersStep

\* No ack tells of a delta whose apply failed, also when the callbacks wait.
THEOREM AckTheorem == Spec => []AckIsHonest
<1>1. Init => LastIsApplied /\ AckIsHonest
  BY DEF Init, LastIsApplied, AckIsHonest
<1> QED
  BY <1>1, AckStep, TypeInvariant, PTL DEF Spec

\* The last one applied is the highest, and no callback is waited for.
InOrder ==
    \A s \in Sessions :
        /\ applying[s] = << >>
        /\ Increasing(applied[s])
        /\ \A i \in DOMAIN applied[s] : applied[s][i] <= lastApplied[s]

\* Every step keeps the order, when the callback waits for nothing.
LEMMA OrderStep ==
    ASSUME ~ SlowApply
    PROVE  TypeInv /\ InOrder /\ [Next]_vars => InOrder'
<1> SUFFICES ASSUME TypeInv, InOrder, [Next]_vars PROVE InOrder'
  OBVIOUS
<1>1. CASE Elsewhere
  BY <1>1 DEF Elsewhere, InOrder, Increasing
<1>2. ASSUME NEW s \in Sessions, ClientStep(s) PROVE InOrder'
  <2> USE DEF TypeInv, TypeOK
  <2>1. UNCHANGED applying
    BY <1>2, ClientChanges DEF InOrder
  <2>2. ASSUME NEW n \in 1..committed, Apply(s, n), n > lastApplied[s] PROVE InOrder'
    <3>1. /\ \A c \in Sessions : c # s => /\ applied'[c] = applied[c]
                                         /\ lastApplied'[c] = lastApplied[c]
          /\ applied'[s] = Append(applied[s], n)
          /\ lastApplied'[s] = n
      BY <2>2 DEF Apply
    <3>2. /\ Len(applied[s]) \in Nat /\ DOMAIN applied[s] = 1..Len(applied[s])
          /\ DOMAIN applied'[s] = 1..(Len(applied[s]) + 1)
          /\ applied'[s][Len(applied[s]) + 1] = n
          /\ \A i \in DOMAIN applied[s] : applied'[s][i] = applied[s][i]
      BY <3>1, AppendEntries
    <3>3. \A i \in DOMAIN applied[s] : applied[s][i] \in Nat /\ applied[s][i] < n
      BY <2>2 DEF InOrder
    <3> HIDE DEF TypeInv, TypeOK
    <3>4. \A i \in DOMAIN applied'[s] :
            \/ i \in DOMAIN applied[s]
            \/ i = Len(applied[s]) + 1
      BY <3>2
    <3>5. Increasing(applied'[s])
      <4> SUFFICES ASSUME NEW i \in DOMAIN applied'[s], NEW j \in DOMAIN applied'[s], i < j
                   PROVE  applied'[s][i] < applied'[s][j]
        BY DEF Increasing
      <4>1. i \in DOMAIN applied[s]
        BY <3>2, <3>4
      <4>2. CASE j \in DOMAIN applied[s]
        BY <3>2, <4>1, <4>2 DEF InOrder, Increasing
      <4>3. CASE j = Len(applied[s]) + 1
        BY <3>2, <3>3, <4>1, <4>3
      <4> QED
        BY <3>4, <4>2, <4>3
    <3>6. \A i \in DOMAIN applied'[s] : applied'[s][i] <= n
      <4> SUFFICES ASSUME NEW i \in DOMAIN applied'[s] PROVE applied'[s][i] <= n
        OBVIOUS
      <4>1. CASE i \in DOMAIN applied[s]
        BY <3>2, <3>3, <4>1
      <4>2. CASE i = Len(applied[s]) + 1
        BY <3>2, <4>2
      <4> QED
        BY <3>4, <4>1, <4>2
    <3> QED
      BY <2>1, <3>1, <3>5, <3>6 DEF InOrder
  <2>3. CASE UNCHANGED <<lastApplied, applied>>
    BY <2>1, <2>3 DEF InOrder, Increasing
  <2> QED
    BY <1>2, <2>2, <2>3, ClientChanges DEF InOrder
<1> QED
  BY <1>1, <1>2, OthersStep

\* Clients whose callback does not wait apply in order, whatever order deltas come in.
THEOREM OrderTheorem ==
    ASSUME ~ SlowApply
    PROVE  Spec => []AppliedInOrder
<1>1. Init => InOrder
  BY DEF Init, InOrder, Increasing
<1>2. InOrder => AppliedInOrder
  BY DEF InOrder, AppliedInOrder
<1>3. TypeInv /\ InOrder /\ [Next]_vars => InOrder'
  BY OrderStep
<1> QED
  BY <1>1, <1>2, <1>3, TypeInvariant, PTL DEF Spec

-----------------------------------------------------------------------------
(* The backlog *)

\* Where a delta is in a queue.
At(q, n) == {i \in DOMAIN q : q[i] = n}

\* The places of a delta in a queue are finitely many.
LEMMA AtIsFinite ==
    ASSUME NEW A, NEW q \in Seq(A), NEW n
    PROVE  IsFiniteSet(At(q, n)) /\ Cardinality(At(q, n)) \in Nat
<1>1. IsFiniteSet(1..Len(q)) /\ At(q, n) \in SUBSET (1..Len(q))
  BY FS_Interval DEF At
<1> QED
  BY <1>1, FS_Subset, FS_CardinalityType

\* Appending a delta adds one place for it and none for others.
LEMMA AtAppend ==
    ASSUME NEW A, NEW q \in Seq(A), NEW m \in A, NEW n
    PROVE  /\ Cardinality(At(Append(q, m), n)) <= Cardinality(At(q, n)) + 1
           /\ m # n => At(Append(q, m), n) = At(q, n)
<1>1. IsFiniteSet(At(q, n)) /\ Cardinality(At(q, n)) \in Nat
  BY AtIsFinite
<1>2. CASE m = n
  <2>1. At(Append(q, m), n) = At(q, n) \cup {Len(q) + 1}
    BY <1>2, AppendEntries DEF At
  <2>2. Cardinality(At(q, n) \cup {Len(q) + 1})
          \in {Cardinality(At(q, n)), Cardinality(At(q, n)) + 1}
    BY <1>1, FS_AddElement
  <2> QED
    BY <1>1, <1>2, <2>1, <2>2
<1>3. CASE m # n
  <2>1. At(Append(q, m), n) = At(q, n)
    BY <1>3, AppendEntries DEF At
  <2> QED
    BY <1>1, <2>1
<1> QED
  BY <1>2, <1>3

\* Taking the first delta away adds no place.
LEMMA AtTail ==
    ASSUME NEW A, NEW q \in Seq(A), q # << >>, NEW n
    PROVE  Cardinality(At(Tail(q), n)) <= Cardinality(At(q, n))
<1>1. Tail(q) \in Seq(A) /\ Len(Tail(q)) = Len(q) - 1
      /\ \A i \in 1..Len(Tail(q)) : Tail(q)[i] = q[i + 1]
  BY HeadTailProperties
<1> DEFINE f == [i \in At(Tail(q), n) |-> i + 1]
<1>2. ASSUME NEW i \in At(Tail(q), n) PROVE i \in Nat /\ i + 1 \in At(q, n)
  BY <1>1 DEF At
<1>3. f \in [At(Tail(q), n) -> At(q, n)]
  BY <1>2
<1>4. \A i, j \in At(Tail(q), n) : f[i] = f[j] => i = j
  BY <1>2
<1>5. f \in Injection(At(Tail(q), n), At(q, n))
  BY <1>3, <1>4 DEF Injection, IsInjective
<1> HIDE DEF f
<1> QED
  BY <1>5, AtIsFinite, FS_Injection

\* It is nowhere in the empty queue.
LEMMA AtNothing == \A n : At(<< >>, n) = {}
BY DEF At

\* The attempts that the entries of a delta have left.
Remaining(n) ==
    {a \in (1..MaxAttempts) \X Sessions :
        pending[a[2]][n] # None /\ a[1] > pending[a[2]][n].attempts}

\* A delta that is not published is nowhere, and what a session has of one, together with
\* what may still be sent of it, stays within the bound.
FreshIsUnseen ==
    \A n \in waiting : \A s \in Sessions : At(toClient[s], n) = {} /\ pending[s][n] = None
WithinBudget ==
    \A s \in Sessions, n \in Seqs :
        Cardinality(At(toClient[s], n)) + Cardinality(Remaining(n))
            <= 1 + MaxAttempts * Cardinality(Sessions)

BacklogInv == TypeInv /\ FreshIsUnseen /\ WithinBudget

\* Attempts of sessions are finitely many.
LEMMA AttemptsAreFinite ==
    ASSUME NEW R, R \subseteq (1..MaxAttempts) \X Sessions
    PROVE  /\ IsFiniteSet(R) /\ Cardinality(R) \in Nat
           /\ Cardinality(Sessions) \in Nat
           /\ MaxAttempts * Cardinality(Sessions) \in Nat
           /\ Cardinality(R) <= MaxAttempts * Cardinality(Sessions)
<1>1. IsFiniteSet(1..MaxAttempts) /\ Cardinality(1..MaxAttempts) = MaxAttempts
  BY ParameterAssumption, FS_Interval
<1>2. IsFiniteSet((1..MaxAttempts) \X Sessions)
      /\ Cardinality((1..MaxAttempts) \X Sessions) = MaxAttempts * Cardinality(Sessions)
  BY <1>1, ParameterAssumption, FS_Product
<1>3. Cardinality(Sessions) \in Nat /\ Cardinality((1..MaxAttempts) \X Sessions) \in Nat
  BY <1>2, ParameterAssumption, FS_CardinalityType
<1> QED
  BY <1>2, <1>3, FS_Subset, FS_CardinalityType

\* In particular those that the entries of a delta have left.
LEMMA RemainingIsFinite ==
    ASSUME NEW n
    PROVE  /\ IsFiniteSet(Remaining(n)) /\ Cardinality(Remaining(n)) \in Nat
           /\ Cardinality(Sessions) \in Nat
           /\ MaxAttempts * Cardinality(Sessions) \in Nat
           /\ Cardinality(Remaining(n)) <= MaxAttempts * Cardinality(Sessions)
<1>1. Remaining(n) \subseteq (1..MaxAttempts) \X Sessions
  BY DEF Remaining
<1> QED
  BY <1>1, AttemptsAreFinite

\* A step that adds nothing to what a delta may still cost: no queue has more of it, and no
\* entry of it is made, or given attempts back.
Calm(n) ==
    /\ \A s \in Sessions : Cardinality(At(toClient'[s], n)) <= Cardinality(At(toClient[s], n))
    /\ \A s \in Sessions : pending'[s][n] # None =>
         pending[s][n] # None /\ pending'[s][n].attempts >= pending[s][n].attempts

\* A calm step keeps the bound, and an unseen delta unseen.
LEMMA CalmKeeps ==
    ASSUME BacklogInv, TypeInv', NEW n \in Seqs, Calm(n), NEW s \in Sessions
    PROVE  /\ Cardinality(At(toClient[s], n)) + Cardinality(Remaining(n))
                <= 1 + MaxAttempts * Cardinality(Sessions)
                => Cardinality(At(toClient'[s], n)) + Cardinality(Remaining(n)')
                     <= 1 + MaxAttempts * Cardinality(Sessions)
           /\ At(toClient[s], n) = {} /\ pending[s][n] = None
                => At(toClient'[s], n) = {} /\ pending'[s][n] = None
<1>1. Remaining(n)' \subseteq Remaining(n)
  <2>1. ASSUME NEW a \in Remaining(n)' PROVE a \in Remaining(n)
    <3>1. a \in (1..MaxAttempts) \X Sessions /\ pending'[a[2]][n] # None
          /\ a[1] > pending'[a[2]][n].attempts
      BY DEF Remaining
    <3>2. a[2] \in Sessions /\ a[1] \in Nat
      BY <3>1
    <3>3. pending[a[2]][n] # None /\ pending'[a[2]][n].attempts >= pending[a[2]][n].attempts
      BY <3>1, <3>2 DEF Calm
    <3>4. pending'[a[2]][n].attempts \in Nat /\ pending[a[2]][n].attempts \in Nat
      <4>1. pending'[a[2]][n] \in Entry \cup {None} /\ pending[a[2]][n] \in Entry \cup {None}
        BY <3>2 DEF BacklogInv, TypeInv, TypeOK
      <4>2. \A e \in Entry : e.attempts \in Nat
        BY EntryTypes DEF Entry
      <4> QED
        BY <3>1, <3>3, <4>1, <4>2
    <3> QED
      BY <3>1, <3>2, <3>3, <3>4 DEF Remaining
  <2> QED
    BY <2>1
<1>2. /\ Cardinality(Remaining(n)') <= Cardinality(Remaining(n))
      /\ Cardinality(Remaining(n)') \in Nat /\ Cardinality(Remaining(n)) \in Nat
      /\ MaxAttempts * Cardinality(Sessions) \in Nat
  BY <1>1, RemainingIsFinite, FS_Subset, FS_CardinalityType
<1>3. /\ IsFiniteSet(At(toClient[s], n)) /\ Cardinality(At(toClient[s], n)) \in Nat
      /\ IsFiniteSet(At(toClient'[s], n)) /\ Cardinality(At(toClient'[s], n)) \in Nat
  <2>1. toClient[s] \in Seq(1..committed) /\ toClient'[s] \in Seq(1..committed')
    BY DEF BacklogInv, TypeInv, TypeOK
  <2> QED
    BY <2>1, AtIsFinite
<1>4. Cardinality(At(toClient'[s], n)) <= Cardinality(At(toClient[s], n))
  BY DEF Calm
<1>5. At(toClient[s], n) = {} => At(toClient'[s], n) = {}
  BY <1>3, <1>4, FS_EmptySet
<1> QED
  BY <1>2, <1>3, <1>4, <1>5 DEF Calm

\* What a step may do to one queue, and to one entry, without adding to the cost of n.
QueueCalm(s, n) ==
    \/ toClient'[s] \in {toClient[s], << >>}
    \/ toClient[s] # << >> /\ toClient'[s] = Tail(toClient[s])
    \/ \E m \in 1..committed : m # n /\ toClient'[s] = Append(toClient[s], m)
EntryCalm(s, n) ==
    \/ pending'[s][n] \in {pending[s][n], None}
    \/ pending[s][n] # None /\ pending'[s][n].attempts = pending[s][n].attempts

\* A step is calm when it is so for each queue and each entry.
LEMMA IsCalm ==
    ASSUME TypeInv, NEW n \in Seqs, \A s \in Sessions : QueueCalm(s, n) /\ EntryCalm(s, n)
    PROVE  Calm(n)
<1>1. ASSUME NEW s \in Sessions
      PROVE  Cardinality(At(toClient'[s], n)) <= Cardinality(At(toClient[s], n))
  <2>1. toClient[s] \in Seq(1..committed)
    BY DEF TypeInv, TypeOK
  <2>2. Cardinality(At(toClient[s], n)) \in Nat
    BY <2>1, AtIsFinite
  <2>3. CASE toClient'[s] = toClient[s]
    BY <2>2, <2>3
  <2>4. CASE toClient'[s] = << >>
    <3>1. At(toClient'[s], n) = {} /\ Cardinality({}) = 0
      BY <2>4, AtNothing, FS_EmptySet
    <3> QED
      BY <2>2, <3>1
  <2>5. CASE toClient[s] # << >> /\ toClient'[s] = Tail(toClient[s])
    BY <2>1, <2>5, AtTail
  <2>6. CASE \E m \in 1..committed : m # n /\ toClient'[s] = Append(toClient[s], m)
    <3>1. PICK m \in 1..committed : m # n /\ toClient'[s] = Append(toClient[s], m)
      BY <2>6
    <3>2. At(Append(toClient[s], m), n) = At(toClient[s], n)
      BY <2>1, <3>1, AtAppend
    <3> QED
      BY <2>2, <3>1, <3>2
  <2> QED
    BY <2>3, <2>4, <2>5, <2>6 DEF QueueCalm
<1>2. ASSUME NEW s \in Sessions, pending'[s][n] # None
      PROVE  pending[s][n] # None /\ pending'[s][n].attempts >= pending[s][n].attempts
  <2>1. pending[s][n] # None /\ pending'[s][n].attempts = pending[s][n].attempts
    BY <1>2 DEF EntryCalm
  <2>2. pending[s][n] \in Entry \cup {None} /\ \A e \in Entry : e.attempts \in Nat
    BY EntryTypes DEF TypeInv, TypeOK, Entry
  <2> QED
    BY <2>1, <2>2
<1> QED
  BY <1>1, <1>2 DEF Calm

\* The steps of sessions, and of the room: nothing is sent.
LEMMA SessionStepIsCalm ==
    ASSUME TypeInv, NEW n \in Seqs,
           (\E s \in Sessions : RoomStep(s) \/ ClientStep(s)) \/ Dispose \/ Crash
    PROVE  Calm(n)
<1> USE DEF TypeInv, TypeOK
<1>1. ASSUME NEW c \in Sessions PROVE QueueCalm(c, n)
  <2>1. ASSUME NEW s \in Sessions, RoomStep(s) PROVE QueueCalm(c, n)
    BY <2>1 DEF RoomStep, Join, JoinDone, Leave, LeaveDone, HangUp, QueueCalm
  <2>2. ASSUME NEW s \in Sessions, ClientStep(s) PROVE QueueCalm(c, n)
    BY <2>2 DEF ClientStep, HandleDuplicate, HandleDelta, ApplySucceeds, ApplyFails, QueueCalm
  <2>3. CASE Dispose \/ Crash
    BY <2>3 DEF Dispose, Crash, HangUp, QueueCalm
  <2> QED
    BY <2>1, <2>2, <2>3
<1>2. ASSUME NEW c \in Sessions PROVE EntryCalm(c, n)
  <2>1. ASSUME NEW s \in Sessions, RoomStep(s) PROVE EntryCalm(c, n)
    BY <2>1, EntryTypes
       DEF RoomStep, Join, JoinDone, Leave, LeaveDone, UnregisterSubscriber, server, EntryCalm
  <2>2. ASSUME NEW s \in Sessions, ClientStep(s) PROVE EntryCalm(c, n)
    BY <2>2, ClientChanges DEF server, EntryCalm
  <2>3. CASE Dispose \/ Crash
    BY <2>3, EntryTypes DEF Dispose, Crash, Destroy, EntryCalm
  <2> QED
    BY <2>1, <2>2, <2>3
<1> QED
  BY <1>1, <1>2, IsCalm

\* Timers, acks and the cleanup add nothing, but for a retransmission of the delta itself.
LEMMA CoordinatorIsCalm ==
    ASSUME TypeInv, NEW n \in Seqs, NEW s \in Sessions, NEW m \in Seqs, CoordinatorStep(s, m)
    PROVE  Calm(n) \/ (m = n /\ Retransmit(s, n))
<1> USE DEF TypeInv, TypeOK
<1>1. CASE HandleAck(s, m) \/ GiveUp(s, m) \/ CleanupExpiredPendingAck(s, m)
  <2>1. UNCHANGED toClient /\ pending' = [pending EXCEPT ![s][m] = None]
    BY <1>1 DEF HandleAck, GiveUp, CleanupExpiredPendingAck
  <2>2. ASSUME NEW c \in Sessions PROVE QueueCalm(c, n) /\ EntryCalm(c, n)
    BY <2>1 DEF QueueCalm, EntryCalm
  <2> QED
    BY <2>2, IsCalm
<1>2. CASE Rearm(s, m) \/ RearmFails(s, m)
  <2>1. PICK t \in {"armed", "stopped"} :
          /\ pending[s][m].timer = "sending"
          /\ pending' = [pending EXCEPT ![s][m].timer = t]
          /\ UNCHANGED <<committed, waiting, stats, status, toClient, toServer, client>>
    BY <1>2 DEF Rearm, RearmFails
  <2>2. pending[s][m] \in Entry
    BY <2>1 DEF None
  <2>3. ASSUME NEW c \in Sessions PROVE EntryCalm(c, n)
    <3>1. CASE c = s /\ n = m
      <4>1. pending'[c][n] = [pending[s][m] EXCEPT !.timer = t]
        BY <2>1, <3>1
      <4>2. pending'[c][n].attempts = pending[s][m].attempts
        BY <4>1, <2>2 DEF Entry
      <4> QED
        BY <2>2, <3>1, <4>2, EntryTypes DEF EntryCalm
    <3>2. CASE c # s \/ n # m
      BY <2>1, <3>2 DEF EntryCalm
    <3> QED
      BY <3>1, <3>2
  <2> QED
    BY <2>1, <2>3, IsCalm DEF QueueCalm
<1>3. CASE Retransmit(s, m) /\ m # n
  <2>1. m \in 1..committed
    BY <1>3 DEF Retransmit, EntriesCommitted, None
  <2>2. \A c \in Sessions : QueueCalm(c, n)
    BY <1>3, <2>1 DEF Retransmit, QueueCalm
  <2>3. \A c \in Sessions : EntryCalm(c, n)
    BY <1>3 DEF Retransmit, EntryCalm
  <2> QED
    BY <2>2, <2>3, IsCalm
<1> QED
  BY <1>1, <1>2, <1>3 DEF CoordinatorStep

\* A placement is committed, or another one is published.
LEMMA PublicationIsCalm ==
    ASSUME TypeInv, NEW n \in Seqs,
           \/ CommitPlacement
           \/ \E m \in Seqs : PublishFails(m)
           \/ \E m \in Seqs : m # n /\ Publish(m)
    PROVE  Calm(n)
<1> USE DEF TypeInv, TypeOK
<1>1. CASE CommitPlacement \/ \E m \in Seqs : PublishFails(m)
  BY <1>1, IsCalm DEF CommitPlacement, PublishFails, QueueCalm, EntryCalm
<1>2. ASSUME NEW m \in Seqs, m # n, Publish(m) PROVE Calm(n)
  <2>1. m \in 1..committed
    BY <1>2 DEF Publish
  <2>2. \A c \in Sessions : toClient'[c] \in {toClient[c], Append(toClient[c], m)}
    BY <1>2 DEF Publish
  <2>3. \A c \in Sessions : pending'[c][n] = pending[c][n]
    BY <1>2 DEF Publish
  <2> QED
    BY <1>2, <2>1, <2>2, <2>3, IsCalm DEF QueueCalm, EntryCalm
<1> QED
  BY <1>1, <1>2

\* A retransmission costs one attempt, and sends the delta to everybody once.
LEMMA RetransmitPays ==
    ASSUME BacklogInv, NEW c \in Sessions, NEW n \in Seqs, Retransmit(c, n), NEW s \in Sessions
    PROVE  Cardinality(At(toClient'[s], n)) + Cardinality(Remaining(n)')
             <= 1 + MaxAttempts * Cardinality(Sessions)
<1> DEFINE k == pending[c][n].attempts + 1
<1>1. pending[c][n] \in Entry /\ pending \in [Sessions -> [Seqs -> Entry \cup {None}]]
  BY DEF BacklogInv, TypeInv, TypeOK, Retransmit, None
<1>2. pending[c][n].attempts \in Nat /\ k \in 1..MaxAttempts /\ pending[c][n] # None
  BY <1>1, EntryTypes DEF Entry, Retransmit, None
<1>3. pending' = [pending EXCEPT ![c][n] = [timer |-> "sending", attempts |-> k]]
  BY DEF Retransmit
<1>4. [timer |-> "sending", attempts |-> k] # None
  BY DEF None
<1> HIDE DEF k
<1>5. <<k, c>> \in Remaining(n) /\ <<k, c>> \notin Remaining(n)'
  <2>1. pending'[c][n].attempts = k
    BY <1>1, <1>3
  <2>2. k > pending[c][n].attempts /\ ~ (k > k)
    BY <1>2 DEF k
  <2> QED
    BY <1>2, <2>1, <2>2 DEF Remaining
<1>6. Remaining(n)' \subseteq Remaining(n) \ {<<k, c>>}
  <2>1. ASSUME NEW a \in Remaining(n)' PROVE a \in Remaining(n)
    <3>1. a \in (1..MaxAttempts) \X Sessions /\ pending'[a[2]][n] # None
          /\ a[1] > pending'[a[2]][n].attempts
      BY DEF Remaining
    <3>2. CASE a[2] = c
      <4>1. a[1] > k /\ a[1] \in Nat
        BY <1>1, <1>3, <3>1, <3>2
      <4>2. a[1] > pending[c][n].attempts
        BY <1>2, <4>1 DEF k
      <4> QED
        BY <1>2, <3>1, <3>2, <4>2 DEF Remaining
    <3>3. CASE a[2] # c
      <4>1. pending'[a[2]][n] = pending[a[2]][n]
        BY <1>1, <1>3, <3>1, <3>3
      <4> QED
        BY <3>1, <4>1 DEF Remaining
    <3> QED
      BY <3>2, <3>3
  <2> QED
    BY <1>5, <2>1
<1>7. Cardinality(Remaining(n)') <= Cardinality(Remaining(n)) - 1
      /\ Cardinality(Remaining(n)') \in Nat /\ Cardinality(Remaining(n)) \in Nat
  <2>1. IsFiniteSet(Remaining(n)) /\ Cardinality(Remaining(n)) \in Nat
    BY RemainingIsFinite
  <2>2. IsFiniteSet(Remaining(n) \ {<<k, c>>})
        /\ Cardinality(Remaining(n) \ {<<k, c>>}) = Cardinality(Remaining(n)) - 1
    BY <1>5, <2>1, FS_RemoveElement
  <2>3. Cardinality(Remaining(n)') <= Cardinality(Remaining(n) \ {<<k, c>>})
        /\ IsFiniteSet(Remaining(n)')
    BY <1>6, <2>2, FS_Subset
  <2> QED
    BY <2>1, <2>2, <2>3, FS_CardinalityType
<1>8. /\ Cardinality(At(toClient'[s], n)) <= Cardinality(At(toClient[s], n)) + 1
      /\ Cardinality(At(toClient[s], n)) \in Nat /\ Cardinality(At(toClient'[s], n)) \in Nat
  <2>1. toClient[s] \in Seq(1..committed) /\ n \in 1..committed
    BY <1>2 DEF BacklogInv, TypeInv, TypeOK, EntriesCommitted
  <2>2. toClient'[s] \in {toClient[s], Append(toClient[s], n)}
    BY DEF Retransmit
  <2>3. Append(toClient[s], n) \in Seq(1..committed)
    BY <2>1, AppendEntries
  <2>4. Cardinality(At(toClient[s], n)) \in Nat /\ Cardinality(At(Append(toClient[s], n), n)) \in Nat
    BY <2>1, <2>3, AtIsFinite
  <2>5. Cardinality(At(Append(toClient[s], n), n)) <= Cardinality(At(toClient[s], n)) + 1
    BY <2>1, AtAppend
  <2>6. CASE toClient'[s] = toClient[s]
    BY <2>4, <2>6
  <2>7. CASE toClient'[s] = Append(toClient[s], n)
    BY <2>4, <2>5, <2>7
  <2> QED
    BY <2>2, <2>6, <2>7
<1>9. Cardinality(At(toClient[s], n)) + Cardinality(Remaining(n))
        <= 1 + MaxAttempts * Cardinality(Sessions)
  BY DEF BacklogInv, WithinBudget
<1>10. MaxAttempts * Cardinality(Sessions) \in Nat
  BY RemainingIsFinite
<1> QED
  BY <1>7, <1>8, <1>9, <1>10

\* A publication sends a delta that nobody has seen once, and grants it all its attempts.
LEMMA PublishGrants ==
    ASSUME BacklogInv, NEW n \in Seqs, Publish(n), NEW s \in Sessions
    PROVE  Cardinality(At(toClient'[s], n)) + Cardinality(Remaining(n)')
             <= 1 + MaxAttempts * Cardinality(Sessions)
<1>1. n \in waiting /\ n \in 1..committed /\ toClient[s] \in Seq(1..committed)
  BY DEF Publish, BacklogInv, TypeInv, TypeOK
<1>2. At(toClient[s], n) = {}
  BY <1>1 DEF BacklogInv, FreshIsUnseen
<1>3. toClient'[s] \in {toClient[s], Append(toClient[s], n)}
  BY DEF Publish, BacklogInv, TypeInv, TypeOK
<1>4. Cardinality({}) = 0
  BY FS_EmptySet
<1>5. Cardinality(At(Append(toClient[s], n), n)) <= 1
  <2>1. Cardinality(At(Append(toClient[s], n), n)) <= Cardinality(At(toClient[s], n)) + 1
    BY <1>1, AtAppend
  <2>2. Cardinality(At(toClient[s], n)) = 0
    BY <1>2, <1>4
  <2> QED
    BY <2>1, <2>2
<1>6. Append(toClient[s], n) \in Seq(1..committed)
  BY <1>1, AppendEntries
<1>7. Cardinality(At(Append(toClient[s], n), n)) \in Nat
  BY <1>6, AtIsFinite
<1>8. Cardinality(At(toClient'[s], n)) \in {0, 1}
  <2>1. CASE toClient'[s] = toClient[s]
    BY <1>2, <1>4, <2>1
  <2>2. CASE toClient'[s] = Append(toClient[s], n)
    BY <1>5, <1>7, <2>2
  <2> QED
    BY <1>3, <2>1, <2>2
<1>9. /\ Cardinality(Remaining(n)') <= MaxAttempts * Cardinality(Sessions)
      /\ Cardinality(Remaining(n)') \in Nat
      /\ MaxAttempts * Cardinality(Sessions) \in Nat
  <2>1. Remaining(n)' \subseteq (1..MaxAttempts) \X Sessions
    BY DEF Remaining
  <2> QED
    BY <2>1, AttemptsAreFinite
<1> QED
  BY <1>8, <1>9

\* Only a commit adds to what waits to be published.
LEMMA WaitingGrows ==
    ASSUME [Next]_vars, NEW n \in waiting', n \notin waiting
    PROVE  n = committed + 1
<1>1. CASE CommitPlacement
  BY <1>1 DEF CommitPlacement
<1>2. ASSUME NEW m \in Seqs, Publish(m) \/ PublishFails(m) PROVE FALSE
  BY <1>2 DEF Publish, PublishFails
<1>3. ASSUME NEW s \in Sessions, NEW m \in Seqs, CoordinatorStep(s, m) PROVE FALSE
  BY <1>3 DEF CoordinatorStep, HandleAck, Retransmit, GiveUp, Rearm, RearmFails,
              CleanupExpiredPendingAck
<1>4. ASSUME NEW s \in Sessions, RoomStep(s) \/ ClientStep(s) PROVE FALSE
  BY <1>4 DEF RoomStep, ClientStep, Join, JoinDone, Leave, LeaveDone, HandleDuplicate,
              HandleDelta, ApplySucceeds, ApplyFails, server
<1>5. CASE Dispose \/ Crash \/ UNCHANGED vars
  BY <1>5 DEF Dispose, Crash, vars, server
<1> QED
  BY <1>1, <1>2, <1>3, <1>4, <1>5 DEF Next, CoordinatorStep, RoomStep, ClientStep

\* Every step keeps the backlog within its budget.
LEMMA BacklogStep == BacklogInv /\ [Next]_vars => BacklogInv'
<1> SUFFICES ASSUME BacklogInv, [Next]_vars PROVE BacklogInv'
  OBVIOUS
<1>1. TypeInv /\ TypeInv'
  BY TypeStep DEF BacklogInv
<1>2. ASSUME NEW n \in Seqs
      PROVE  Calm(n) \/ Publish(n) \/ \E s \in Sessions : Retransmit(s, n)
  <2>1. CASE UNCHANGED vars
    <3>1. \A s \in Sessions : QueueCalm(s, n) /\ EntryCalm(s, n)
      BY <2>1 DEF vars, server, QueueCalm, EntryCalm
    <3> QED
      BY <1>1, <3>1, IsCalm
  <2>2. CASE CommitPlacement \/ \E m \in Seqs : Publish(m) \/ PublishFails(m)
    BY <1>1, <2>2, PublicationIsCalm
  <2>3. CASE \E s \in Sessions, m \in Seqs : CoordinatorStep(s, m)
    BY <1>1, <2>3, CoordinatorIsCalm
  <2>4. CASE (\E s \in Sessions : RoomStep(s) \/ ClientStep(s)) \/ Dispose \/ Crash
    BY <1>1, <2>4, SessionStepIsCalm
  <2> QED
    BY <2>1, <2>2, <2>3, <2>4 DEF Next, CoordinatorStep, RoomStep, ClientStep
<1>3. WithinBudget'
  <2>1. ASSUME NEW s \in Sessions, NEW n \in Seqs
        PROVE  Cardinality(At(toClient'[s], n)) + Cardinality(Remaining(n)')
                 <= 1 + MaxAttempts * Cardinality(Sessions)
    <3>1. CASE Calm(n)
      BY <1>1, <3>1, CalmKeeps DEF BacklogInv, WithinBudget
    <3> QED
      BY <1>2, <3>1, RetransmitPays, PublishGrants
  <2> QED
    BY <2>1 DEF WithinBudget
<1>4. FreshIsUnseen'
  <2>1. ASSUME NEW n \in waiting', NEW s \in Sessions
        PROVE  At(toClient'[s], n) = {} /\ pending'[s][n] = None
    <3>0. n \in Seqs
      <4>1. waiting' \subseteq 1..committed' /\ committed' \in 0..MaxSeq
        BY <1>1 DEF TypeInv, TypeOK
      <4> QED
        BY <4>1, EntryTypes DEF Seqs
    <3>1. At(toClient[s], n) = {} /\ pending[s][n] = None
      <4>1. CASE n \in waiting
        BY <4>1 DEF BacklogInv, FreshIsUnseen
      <4>2. CASE n \notin waiting
        <5>1. n = committed + 1
          BY <4>2, WaitingGrows
        <5>2. n \notin 1..committed
          BY <1>1, <5>1 DEF TypeInv, TypeOK
        <5>3. pending[s][n] = None
          BY <1>1, <3>0, <5>2 DEF TypeInv, EntriesCommitted
        <5>4. At(toClient[s], n) = {}
          BY <1>1, <5>2 DEF TypeInv, TypeOK, At
        <5> QED
          BY <5>3, <5>4
      <4> QED
        BY <4>1, <4>2
    <3>2. ~ Publish(n)
      BY DEF Publish
    <3>3. Calm(n)
      <4>1. ASSUME NEW c \in Sessions, Retransmit(c, n) PROVE FALSE
        <5>1. pending[c][n] # None /\ waiting' = waiting
          BY <4>1 DEF Retransmit, None
        <5> QED
          BY <5>1 DEF BacklogInv, FreshIsUnseen
      <4> QED
        BY <1>2, <3>0, <3>2, <4>1
    <3> QED
      BY <1>1, <3>0, <3>1, <3>3, CalmKeeps
  <2> QED
    BY <2>1 DEF FreshIsUnseen
<1> QED
  BY <1>1, <1>3, <1>4 DEF BacklogInv

\* Initially nothing is sent or waits.
LEMMA BacklogInit == Init => BacklogInv
<1> SUFFICES ASSUME Init PROVE BacklogInv
  OBVIOUS
<1>1. TypeInv
  BY TypeInit
<1>2. FreshIsUnseen
  BY DEF Init, FreshIsUnseen
<1>3. ASSUME NEW s \in Sessions, NEW n \in Seqs
      PROVE  Cardinality(At(toClient[s], n)) + Cardinality(Remaining(n))
                 <= 1 + MaxAttempts * Cardinality(Sessions)
  <2>1. At(toClient[s], n) = {}
    BY AtNothing DEF Init
  <2>2. Cardinality({}) = 0
    BY FS_EmptySet
  <2> QED
    BY <2>1, <2>2, RemainingIsFinite
<1> QED
  BY <1>1, <1>2, <1>3 DEF BacklogInv, WithinBudget

\* Retransmissions end for any number of sessions, deltas and attempts: what waits for a
\* session of one delta is bounded, even if the session reads and acknowledges nothing.
THEOREM BacklogTheorem == Spec => []BacklogBounded
<1>1. BacklogInv => BacklogBounded
  <2> SUFFICES ASSUME BacklogInv, NEW s \in Sessions, NEW n \in Seqs
               PROVE  Backlog(s, n) <= 1 + MaxAttempts * Cardinality(Sessions)
    BY DEF BacklogBounded
  <2>1. Backlog(s, n) = Cardinality(At(toClient[s], n))
    BY DEF Backlog, At
  <2>2. Cardinality(At(toClient[s], n)) \in Nat
    BY AtIsFinite DEF BacklogInv, TypeInv, TypeOK
  <2>3. Cardinality(At(toClient[s], n)) + Cardinality(Remaining(n))
          <= 1 + MaxAttempts * Cardinality(Sessions)
    BY DEF BacklogInv, WithinBudget
  <2> QED
    BY <2>1, <2>2, <2>3, RemainingIsFinite
<1> QED
  BY BacklogInit, BacklogStep, <1>1, PTL DEF Spec
====
