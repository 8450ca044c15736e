----------------------- MODULE SessionPresenceProofs -----------------------
(****************************************************************************)
(* Theorems about SessionPresence for any players, tokens, connections,     *)
(* rooms, times to live, and any number of sweeps at once.                  *)
(****************************************************************************)
EXTENDS SessionPresence, TLAPS

\* A token that admitted a connection is in the map, or has expired by now.
UsedIsKnown ==
    \A c \in Connections : \A t \in used[c] : t \in consumed \/ issued[t].exp <= NowSeconds

\* A connection admits with one token, and none before it is let in.
UsedIsAdmitted ==
    \A c \in Connections :
        /\ stage[c] = "new" => used[c] = {}
        /\ \A t, u \in used[c] : t = u

\* The last sign of life is what the map says, or the map has lost it to a sweep.
SignIsKept ==
    \A p \in Players : \A h \in sign[p] :
        /\ h.beat <= clock
        /\ h \in presence[p] \/ clock - h.beat > HeartbeatTtl

\* The map holds one entry of a player, and it is the last sign of life.
OneEntry ==
    \A p \in Players : presence[p] \subseteq sign[p] /\ \A h, k \in sign[p] : h = k

\* No sweep began in the future.
SweepsBegan == \A s \in Sweeps : \A at \in sweep[s] : at <= clock

PresenceInv ==
    /\ TypeOK
    /\ UsedIsKnown /\ UsedIsAdmitted /\ TokenAdmitsOnce
    /\ SignIsKept /\ OneEntry /\ SweepsBegan

TokenInv == UsedIsKnown /\ UsedIsAdmitted /\ TokenAdmitsOnce
HereInv == SignIsKept /\ OneEntry

-----------------------------------------------------------------------------
\* The second of the clock is a number, and does not go back.
LEMMA SecondsRun ==
    ASSUME clock \in Nat
    PROVE  /\ NowSeconds \in Nat
           /\ clock' = clock => NowSeconds' = NowSeconds
           /\ clock' = clock + 1 => NowSeconds <= NowSeconds'
BY PresenceAssumption DEF NowSeconds

\* Initially no token is used and nobody is present.
LEMMA PresenceInit == Init => PresenceInv
<1> SUFFICES ASSUME Init PROVE PresenceInv
  OBVIOUS
<1> USE PresenceAssumption DEF Init
<1>1. TypeOK
  BY DEF TypeOK, Stages, Here
<1>2. TokenInv /\ HereInv /\ SweepsBegan
  BY DEF TokenInv, HereInv, UsedIsKnown, UsedIsAdmitted, TokenAdmitsOnce, SignIsKept, OneEntry,
         SweepsBegan
<1> QED
  BY <1>1, <1>2 DEF PresenceInv, TokenInv, HereInv

-----------------------------------------------------------------------------
(* Tokens *)

\* Pruning forgets no id of a token that is still valid.
LEMMA PruneKeeps ==
    ASSUME PresenceInv, clock' = clock, issued' = issued, used' = used,
           Pruned \subseteq consumed'
    PROVE  UsedIsKnown'
<1>1. NowSeconds' = NowSeconds /\ NowSeconds \in Nat
  BY SecondsRun DEF PresenceInv, TypeOK
<1>2. \A t \in Tokens : issued[t].exp \in Nat
  BY DEF PresenceInv, TypeOK
<1>3. ASSUME NEW c \in Connections, NEW t \in used[c]
      PROVE  t \in consumed' \/ issued[t].exp <= NowSeconds
  <2>1. t \in Tokens
    BY DEF PresenceInv, TypeOK
  <2>2. t \in consumed \/ issued[t].exp <= NowSeconds
    BY DEF PresenceInv, UsedIsKnown
  <2> QED
    BY <1>1, <1>2, <2>1, <2>2 DEF Pruned
<1> QED
  BY <1>1, <1>3 DEF UsedIsKnown

\* A new token was used by nobody.
LEMMA IssueStep ==
    ASSUME PresenceInv, NEW t \in Tokens, NEW p \in Players, IssueToken(t, p)
    PROVE  PresenceInv'
<1> USE PresenceAssumption DEF PresenceInv
<1>1. NowSeconds' = NowSeconds /\ NowSeconds \in Nat
  BY SecondsRun DEF TypeOK, IssueToken
<1>2. \A c \in Connections : t \notin used[c]
  BY DEF TypeOK, IssueToken
<1>3. TypeOK'
  BY <1>1 DEF TypeOK, IssueToken, Pruned
<1>4. UsedIsKnown'
  <2>1. ASSUME NEW c \in Connections, NEW u \in used[c]
        PROVE  u \in consumed' \/ issued'[u].exp <= NowSeconds
    <3>1. u \in Tokens /\ u # t /\ issued[u].exp \in Nat /\ issued'[u] = issued[u]
      BY <1>2 DEF TypeOK, IssueToken
    <3>2. u \in consumed \/ issued[u].exp <= NowSeconds
      BY DEF UsedIsKnown
    <3> QED
      BY <1>1, <3>1, <3>2 DEF IssueToken, Pruned
  <2> QED
    BY <1>1, <2>1 DEF UsedIsKnown, IssueToken
<1>5. UsedIsAdmitted' /\ TokenAdmitsOnce' /\ HereInv' /\ SweepsBegan'
  BY DEF IssueToken, UsedIsAdmitted, TokenAdmitsOnce, HereInv, SignIsKept, OneEntry, SweepsBegan
<1> QED
  BY <1>3, <1>4, <1>5 DEF HereInv

\* A token that admits a connection was not used, and is remembered.
LEMMA AuthenticateStep ==
    ASSUME PresenceInv, NEW c \in Connections, NEW t \in Tokens, NEW r \in Instances,
           Authenticate(c, t, r)
    PROVE  PresenceInv'
<1> USE PresenceAssumption DEF PresenceInv
<1>1. NowSeconds' = NowSeconds /\ NowSeconds \in Nat
  BY SecondsRun DEF TypeOK, Authenticate
<1>2. TypeOK'
  BY DEF TypeOK, Authenticate, Valid, Pruned, Stages
<1>3. used' = [used EXCEPT ![c] = {t}] /\ used[c] = {}
  BY DEF Authenticate, UsedIsAdmitted
\* A valid token has admitted nobody: were it used, it would be in the map or expired.
<1>4. \A d \in Connections : t \notin used[d]
  BY <1>1 DEF TypeOK, Authenticate, Valid, Pruned, UsedIsKnown
<1>5. UsedIsKnown'
  <2>1. ASSUME NEW d \in Connections, NEW u \in used'[d]
        PROVE  u \in consumed' \/ issued[u].exp <= NowSeconds
    <3>1. CASE d = c
      BY <1>3, <3>1 DEF TypeOK, Authenticate
    <3>2. CASE d # c
      <4>1. u \in used[d] /\ u \in Tokens /\ issued[u].exp \in Nat
        BY <1>3, <3>2 DEF TypeOK
      <4>2. u \in consumed \/ issued[u].exp <= NowSeconds
        BY <4>1 DEF UsedIsKnown
      <4> QED
        BY <1>1, <4>1, <4>2 DEF Authenticate, Pruned
    <3> QED
      BY <3>1, <3>2
  <2> QED
    BY <1>1, <2>1 DEF UsedIsKnown, Authenticate
<1>6. UsedIsAdmitted'
  BY <1>3 DEF UsedIsAdmitted, Authenticate, TypeOK
<1>7. TokenAdmitsOnce'
  BY <1>3, <1>4 DEF TokenAdmitsOnce, TypeOK
<1>8. HereInv' /\ SweepsBegan'
  BY DEF Authenticate, HereInv, SignIsKept, OneEntry, SweepsBegan
<1> QED
  BY <1>2, <1>5, <1>6, <1>7, <1>8 DEF HereInv

\* A refusal only forgets ids of tokens that are expired.
LEMMA RefuseStep ==
    ASSUME PresenceInv, NEW c \in Connections, NEW t \in Tokens, Refuse(c, t)
    PROVE  PresenceInv'
<1>1. TypeOK'
  BY DEF PresenceInv, TypeOK, Refuse, Pruned
<1>2. UsedIsKnown'
  BY PruneKeeps DEF Refuse
<1>3. UsedIsAdmitted' /\ TokenAdmitsOnce' /\ HereInv' /\ SweepsBegan'
  BY DEF PresenceInv, Refuse, UsedIsAdmitted, TokenAdmitsOnce, HereInv, SignIsKept, OneEntry,
         SweepsBegan
<1> QED
  BY <1>1, <1>2, <1>3 DEF PresenceInv, HereInv

\* Steps that leave the tokens, and let no connection be new again, keep their part.
LEMMA TokensAlone ==
    ASSUME PresenceInv, UNCHANGED <<clock, issued, consumed, used>>,
           \A c \in Connections : stage'[c] = "new" => stage[c] = "new"
    PROVE  TokenInv'
BY DEF PresenceInv, TokenInv, UsedIsKnown, UsedIsAdmitted, TokenAdmitsOnce, NowSeconds

-----------------------------------------------------------------------------
(* Presence *)

\* A sign of life is entered when it is given.
LEMMA NoteHereKeeps ==
    ASSUME PresenceInv, NEW p \in Players, NEW r, NoteHere(p, r), clock' = clock
    PROVE  HereInv'
<1> USE DEF PresenceInv, NoteHere
<1>1. presence \in [Players -> SUBSET Here] /\ sign \in [Players -> SUBSET Here] /\ clock \in Nat
  BY DEF TypeOK
<1>2. SignIsKept'
  BY <1>1 DEF SignIsKept
<1>3. OneEntry'
  BY <1>1 DEF OneEntry
<1> QED
  BY <1>2, <1>3 DEF HereInv

\* A join is such a sign,
LEMMA JoinStep ==
    ASSUME PresenceInv, NEW c \in Connections, Join(c)
    PROVE  PresenceInv'
<1>1. PICK p \in Subject(c) : NoteHere(p, room[c])
  BY DEF Join
<1>2. p \in Players
  BY DEF PresenceInv, TypeOK, Subject
<1>3. TypeOK'
  <2>1. room[c] \in Instances /\ clock \in Nat
    BY DEF PresenceInv, TypeOK
  <2>2. [room |-> room[c], beat |-> clock] \in Here
    BY <2>1 DEF Here
  <2>3. presence' \in [Players -> SUBSET Here] /\ sign' \in [Players -> SUBSET Here]
    BY <1>1, <1>2, <2>2 DEF PresenceInv, TypeOK, NoteHere
  <2>4. stage' \in [Connections -> Stages]
    BY DEF PresenceInv, TypeOK, Join, Stages
  <2> QED
    BY <2>3, <2>4 DEF PresenceInv, TypeOK, Join
<1>4. HereInv'
  BY <1>1, <1>2, NoteHereKeeps DEF Join
<1>5. TokenInv'
  BY TokensAlone DEF PresenceInv, TypeOK, Join
<1>6. SweepsBegan'
  BY DEF PresenceInv, SweepsBegan, Join
<1> QED
  BY <1>3, <1>4, <1>5, <1>6 DEF PresenceInv, TokenInv, HereInv

\* its end changes nothing of it,
LEMMA EndJoinStep ==
    ASSUME PresenceInv, NEW c \in Connections, EndJoin(c)
    PROVE  PresenceInv'
<1>1. TypeOK'
  BY DEF PresenceInv, TypeOK, EndJoin, Stages
<1>2. TokenInv'
  BY TokensAlone DEF PresenceInv, TypeOK, EndJoin
<1>3. HereInv' /\ SweepsBegan'
  BY DEF PresenceInv, EndJoin, HereInv, SignIsKept, OneEntry, SweepsBegan
<1> QED
  BY <1>1, <1>2, <1>3 DEF PresenceInv, TokenInv, HereInv

\* a leave takes it back,
LEMMA LeaveStep ==
    ASSUME PresenceInv, NEW c \in Connections, Leave(c)
    PROVE  PresenceInv'
<1>1. PICK p \in Subject(c) :
         /\ presence' = [presence EXCEPT ![p] = {h \in @ : h.room # room[c]}]
         /\ sign' = [sign EXCEPT ![p] = {h \in @ : h.room # room[c]}]
  BY DEF Leave
<1>2. p \in Players
  BY DEF PresenceInv, TypeOK, Subject
<1>3. TypeOK'
  BY <1>1, <1>2 DEF PresenceInv, TypeOK, Leave, Stages
<1>4. HereInv'
  BY <1>1, <1>2 DEF PresenceInv, TypeOK, Leave, HereInv, SignIsKept, OneEntry
<1>5. TokenInv'
  BY TokensAlone DEF PresenceInv, TypeOK, Leave
<1>6. SweepsBegan'
  BY DEF PresenceInv, SweepsBegan, Leave
<1> QED
  BY <1>3, <1>4, <1>5, <1>6 DEF PresenceInv, TokenInv, HereInv

\* and a heartbeat renews it.
LEMMA HeartbeatStep ==
    ASSUME PresenceInv, NEW p \in Players, NEW r \in Claims, Heartbeat(p, r)
    PROVE  PresenceInv'
<1>1. TypeOK'
  BY DEF PresenceInv, TypeOK, Heartbeat, NoteHere, Here
<1>2. HereInv'
  BY NoteHereKeeps DEF Heartbeat
<1>3. TokenInv'
  BY TokensAlone DEF Heartbeat
<1>4. SweepsBegan'
  BY DEF PresenceInv, SweepsBegan, Heartbeat
<1> QED
  BY <1>1, <1>2, <1>3, <1>4 DEF PresenceInv, TokenInv, HereInv

-----------------------------------------------------------------------------
(* Sweeps *)

\* A sweep that began at an instant that has been removes only what is overdue by now.
LEMMA AdvanceStep ==
    ASSUME PresenceInv, NEW s \in Sweeps, NEW at \in Nat, at <= clock, Advance(s, at)
    PROVE  PresenceInv'
<1> USE PresenceAssumption DEF PresenceInv, Advance
<1>1. clock \in Nat /\ presence \in [Players -> SUBSET Here] /\ sign \in [Players -> SUBSET Here]
  BY DEF TypeOK
<1>2. CASE Stale(at) = {} /\ sweep' = [sweep EXCEPT ![s] = {}] /\ UNCHANGED presence
  <2>1. TypeOK' /\ SweepsBegan'
    BY <1>2 DEF TypeOK, SweepsBegan
  <2>2. HereInv'
    BY <1>2 DEF HereInv, SignIsKept, OneEntry
  <2> QED
    BY <2>1, <2>2, TokensAlone DEF TokenInv, HereInv
<1>3. ASSUME NEW p \in Stale(at), presence' = [presence EXCEPT ![p] = {}],
             sweep' = [sweep EXCEPT ![s] = {at}]
      PROVE  PresenceInv'
  <2>1. p \in Players
    BY DEF Stale
  <2>2. TypeOK' /\ SweepsBegan'
    BY <1>3, <2>1 DEF TypeOK, SweepsBegan
  <2>3. \A h \in sign[p] : clock - h.beat > HeartbeatTtl
    BY <1>1, <2>1 DEF Stale, OneEntry, Here
  <2>4. SignIsKept'
    BY <1>1, <1>3, <2>1, <2>3 DEF SignIsKept
  <2>5. OneEntry'
    BY <1>1, <1>3, <2>1 DEF OneEntry
  <2> QED
    BY <2>2, <2>4, <2>5, TokensAlone DEF TokenInv
<1> QED
  BY <1>2, <1>3

\* A sweep removes only entries that are stale now.
LEMMA SweepStep ==
    ASSUME PresenceInv, NEW s \in Sweeps, BeginSweep(s) \/ ResumeSweep(s)
    PROVE  PresenceInv'
<1>1. CASE BeginSweep(s)
  BY <1>1, AdvanceStep DEF PresenceInv, TypeOK, BeginSweep
<1>2. CASE ResumeSweep(s)
  BY <1>2, AdvanceStep DEF PresenceInv, TypeOK, ResumeSweep, SweepsBegan
<1> QED
  BY <1>1, <1>2

-----------------------------------------------------------------------------
\* Time passes.
LEMMA TickStep ==
    ASSUME PresenceInv, Tick
    PROVE  PresenceInv'
<1> USE PresenceAssumption DEF PresenceInv, Tick
<1>1. clock \in Nat /\ clock' = clock + 1
  BY DEF TypeOK
<1>2. NowSeconds <= NowSeconds' /\ NowSeconds \in Nat /\ NowSeconds' \in Nat
  BY <1>1, SecondsRun DEF NowSeconds
<1>3. TypeOK'
  BY <1>1 DEF TypeOK
<1>4. UsedIsKnown'
  BY <1>2 DEF UsedIsKnown, TypeOK
<1>5. UsedIsAdmitted' /\ TokenAdmitsOnce' /\ OneEntry'
  BY DEF UsedIsAdmitted, TokenAdmitsOnce, OneEntry
<1>6. SignIsKept' /\ SweepsBegan'
  BY <1>1 DEF SignIsKept, SweepsBegan, TypeOK, Here
<1> QED
  BY <1>3, <1>4, <1>5, <1>6

\* A restart forgets everybody, and every sign of life.
LEMMA CrashStep ==
    ASSUME PresenceInv, Crash
    PROVE  PresenceInv'
<1> USE DEF PresenceInv, Crash
<1>1. TypeOK'
  BY DEF TypeOK, Stages
<1>2. TokenInv' /\ HereInv' /\ SweepsBegan'
  BY DEF TokenInv, HereInv, UsedIsKnown, UsedIsAdmitted, TokenAdmitsOnce, SignIsKept, OneEntry,
         SweepsBegan
<1> QED
  BY <1>1, <1>2 DEF TokenInv, HereInv

\* A step that changes nothing keeps all of it.
LEMMA StutterStep == PresenceInv /\ UNCHANGED vars => PresenceInv'
BY DEF PresenceInv, vars, TypeOK, UsedIsKnown, UsedIsAdmitted, TokenAdmitsOnce, SignIsKept,
       OneEntry, SweepsBegan, NowSeconds

-----------------------------------------------------------------------------
(* Theorems *)

\* PresenceInv holds in every reachable state.
THEOREM PresenceInvariant == Spec => []PresenceInv
<1>1. PresenceInv /\ [Next]_vars => PresenceInv'
  BY IssueStep, AuthenticateStep, RefuseStep, JoinStep, EndJoinStep, LeaveStep, HeartbeatStep,
     SweepStep, TickStep, CrashStep, StutterStep DEF Next
<1> QED
  BY PresenceInit, <1>1, PTL DEF Spec

\* Every variable has its type, and only issued tokens are known.
THEOREM PresenceTypeCorrect == Spec => []TypeOK
<1>1. PresenceInv => TypeOK
  BY DEF PresenceInv
<1> QED
  BY PresenceInvariant, <1>1, PTL

\* A join token admits no second connection while the server runs.
THEOREM TokenTheorem == Spec => []TokenAdmitsOnce
<1>1. PresenceInv => TokenAdmitsOnce
  BY DEF PresenceInv
<1> QED
  BY PresenceInvariant, <1>1, PTL

\* No sweep removes a player who gave a sign of life within the TTL.
THEOREM AliveTheorem == Spec => []AliveIsMember
<1>1. PresenceInv => AliveIsMember
  BY PresenceAssumption DEF PresenceInv, TypeOK, Here, SignIsKept, AliveIsMember, IsRegionMember
<1> QED
  BY PresenceInvariant, <1>1, PTL
=============================================================================
