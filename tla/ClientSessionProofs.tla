------------------------ MODULE ClientSessionProofs ------------------------
(****************************************************************************)
(* Theorems about ClientSession and RegionReplay, for any region and any    *)
(* number of changes: what its calls may cost, that every variable has its  *)
(* type, and that the replays of its reconnects add up to the region.       *)
(*                                                                          *)
(* What a replay draws is computed by a recursive function over the log.    *)
(* The proof gives a closed form of it (Replayed: the last change of a cell *)
(* counts), shows that the closed form satisfies the recursion, and that    *)
(* nothing else does: the least version at which another function differs   *)
(* would be one too late.                                                   *)
(****************************************************************************)
EXTENDS ClientSession, WellFoundedInduction, TLAPS

-----------------------------------------------------------------------------
(* The retries *)

\* A counted retry waits for its token with one call, or has been sent, or was given up.
RetryInv ==
    /\ pc \in [Calls -> CallStates]
    /\ retries \in {0, 1}
    /\ repeats \in {0, 1}
    /\ step = "acquire" => \A k \in Calls : pc[k] = "idle"
    /\ retries = 0 => repeats = 0
    /\ \A k \in Calls : pc[k] = "reacquiring" => retries = 1 /\ repeats = 0
    /\ \A j, k \in Calls : pc[j] = "reacquiring" /\ pc[k] = "reacquiring" => j = k

\* Initially nothing is counted.
LEMMA RetryInit == Init => RetryInv
BY DEF Init, RetryInv, CallStates

\* A step that counts no retry, and moves call k alone, which is then not waiting for one.
LEMMA Moves ==
    ASSUME RetryInv, NEW k \in Calls, NEW s \in CallStates \ {"reacquiring"},
           Set(k, s), UNCHANGED <<retries, repeats, step>>, step # "acquire"
    PROVE  RetryInv'
BY DEF RetryInv, Set

\* A call that is under way was made after the startup had its token.
LEMMA UnderWay ==
    ASSUME RetryInv, NEW k \in Calls, pc[k] # "idle"
    PROVE  step # "acquire"
BY DEF RetryInv

\* Beginning a call counts nothing.
LEMMA BeginStep ==
    ASSUME RetryInv, NEW k \in Calls, Begin(k), UNCHANGED <<retries, repeats, step>>,
           step # "acquire"
    PROVE  RetryInv'
BY Moves DEF Begin, Interactive, CallStates

\* A 401 counts a retry and waits with it, or ends the call.
LEMMA UnauthorizedStep ==
    ASSUME RetryInv, NEW k \in Calls, Unauthorized(k)
    PROVE  RetryInv'
<1>1. pc[k] = "requested" /\ step # "acquire" /\ UNCHANGED <<step, repeats>>
  BY UnderWay DEF Unauthorized
<1>2. CASE retries < MaxUnauthorizedRetry /\ retries' = retries + 1 /\ Set(k, "reacquiring")
  BY <1>1, <1>2 DEF RetryInv, Set, MaxUnauthorizedRetry, CallStates
<1>3. CASE retries < MaxUnauthorizedRetry /\ retries' = retries + 1 /\ Set(k, "failed")
  BY <1>1, <1>3 DEF RetryInv, Set, MaxUnauthorizedRetry, CallStates
<1>4. CASE UNCHANGED retries /\ Set(k, "failed")
  BY <1>1, <1>4, Moves DEF CallStates
<1> QED
  BY <1>2, <1>3, <1>4 DEF Unauthorized, Interactive

\* The one call that waits for a token repeats its request, or ends.
LEMMA ReacquiredStep ==
    ASSUME RetryInv, NEW k \in Calls, Reacquired(k)
    PROVE  RetryInv'
<1>1. pc[k] = "reacquiring" /\ step # "acquire" /\ UNCHANGED <<step, retries>>
  BY UnderWay DEF Reacquired
<1>2. CASE Set(k, "repeated") /\ repeats' = repeats + 1
  BY <1>1, <1>2 DEF RetryInv, Set, CallStates
<1>3. CASE Set(k, "failed") /\ UNCHANGED repeats
  BY <1>1, <1>3, Moves DEF CallStates
<1> QED
  BY <1>2, <1>3 DEF Reacquired, Interactive

\* Whatever a call does keeps the count.
LEMMA CallStepKeeps ==
    ASSUME RetryInv, NEW k \in Calls, CallStep(k)
    PROVE  RetryInv'
<1>1. CASE Acquired(k)
  BY <1>1, UnderWay, Moves DEF Acquired, Interactive, CallStates
<1>2. CASE Answered(k)
  <2>1. pc[k] # "idle" /\ UNCHANGED <<retries, repeats, step>>
    BY <1>2 DEF Answered
  <2>2. Set(k, "done") \/ Set(k, "failed")
    BY <1>2 DEF Answered
  <2> QED
    BY <2>1, <2>2, UnderWay, Moves DEF CallStates
<1> QED
  BY <1>1, <1>2, UnauthorizedStep, ReacquiredStep DEF CallStep

\* So does every step of the page.
LEMMA ProgressStep ==
    ASSUME RetryInv, Progress
    PROVE  RetryInv'
<1>1. CASE \E k \in Calls : CallStep(k)
  BY <1>1, CallStepKeeps
<1>2. ASSUME NEW k \in StartupCalls, StartCall(k) PROVE RetryInv'
  BY <1>2, BeginStep DEF StartCall, StartupCalls, Calls
<1>3. ASSUME NEW k \in StartupCalls, EndCall(k) PROVE RetryInv'
  BY <1>3 DEF EndCall, Stop, RetryInv
<1>4. CASE Start
  BY <1>4 DEF Start, Stop, RetryInv
<1>5. CASE Fetch
  BY <1>5 DEF Fetch, Stop, RetryInv
<1>6. CASE JoinRoom
  BY <1>6 DEF JoinRoom, Stop, RetryInv
<1> QED
  BY <1>1, <1>2, <1>3, <1>4, <1>5, <1>6 DEF Progress

\* RetryInv holds in every reachable state.
THEOREM RetryInvariant == Spec => []RetryInv
<1>1. ASSUME RetryInv, [Next]_vars PROVE RetryInv'
  <2>1. CASE Progress
    BY <1>1, <2>1, ProgressStep
  <2>2. ASSUME NEW k \in LibraryCalls, LibraryCall(k) PROVE RetryInv'
    BY <1>1, <2>2, BeginStep DEF LibraryCall, LibraryCalls, Calls
  <2>3. CASE UNCHANGED <<retries, pc, step, repeats>>
    BY <1>1, <2>3 DEF RetryInv
  <2> QED
    BY <1>1, <2>1, <2>2, <2>3
       DEF Next, RoomLeave, LeavePage, ServerStep, RegionWrite, vars, sessionVars
<1> QED
  BY RetryInit, <1>1, PTL DEF Spec

\* However calls overlap, one request is repeated after a 401, until somebody signs in.
THEOREM RepeatedOnceTheorem == Spec => []RepeatedOnce
<1>1. RetryInv => RepeatedOnce
  BY DEF RetryInv, RepeatedOnce, MaxUnauthorizedRetry
<1> QED
  BY RetryInvariant, <1>1, PTL

-----------------------------------------------------------------------------
(* The replay *)

\* A set of natural numbers that is not empty has a least element.
LEMMA LeastNat ==
    ASSUME NEW T, T \subseteq Nat, T # {}
    PROVE  \E n \in T : \A m \in T : n <= m
<1> DEFINE R == {ss \in Nat \X Nat : ss[1] < ss[2]}
<1>1. IsWellFoundedOn(R, Nat)
  BY NatLessThanWellFounded DEF OpToRel
<1> HIDE DEF R
<1>2. PICK n \in T : \A m \in T : <<m, n>> \notin R
  BY <1>1, WFMin, Zenon
<1>3. \A m \in T : ~ (m < n)
  BY <1>2 DEF R
<1> QED
  BY <1>2, <1>3

\* One that is bounded has a greatest.
LEMMA GreatestNat ==
    ASSUME NEW n \in Nat, NEW T, T \subseteq 0..n, T # {}
    PROVE  \E v \in T : \A w \in T : w <= v
<1> DEFINE D == {d \in 0..n : n - d \in T}
<1>0. PICK t \in T : TRUE
  OBVIOUS
<1>1. n - t \in D
  BY <1>0
<1>2. PICK d \in D : \A e \in D : d <= e
  <2> D \subseteq Nat /\ D # {}
    BY <1>1
  <2> HIDE DEF D
  <2> QED
    BY LeastNat
<1>3. \A w \in T : w <= n - d
  <2> TAKE w \in T
  <2>1. n - w \in D
    OBVIOUS
  <2>2. d \in 0..n /\ w \in 0..n
    OBVIOUS
  <2>3. d <= n - w
    BY <2>1, <1>2
  <2> HIDE DEF D
  <2> QED
    BY <2>2, <2>3
<1> QED
  BY <1>2, <1>3

\* The changes of a cell after one version up to another; the last of a set of versions;
\* what a change leaves in its cell; and what a replay leaves in a cell that held something.
Changes(from, to, c) == {v \in (from + 1)..to : log[v].cell = c}
Latest(S) == CHOOSE v \in S : \A w \in S : w <= v
Shown(v) == IF log[v].op = "delete" THEN Empty ELSE [owner |-> log[v].owner, look |-> log[v].look]
Replayed(held, from, to, c) ==
    IF Changes(from, to, c) = {} THEN held ELSE Shown(Latest(Changes(from, to, c)))

\* The last of a set of versions is what no other of them exceeds.
LEMMA LatestIs ==
    ASSUME NEW S, S \subseteq Nat, NEW v \in S, \A w \in S : w <= v
    PROVE  Latest(S) = v
<1>1. ASSUME NEW u \in S, \A w \in S : w <= u PROVE u = v
  <2>1. u <= v /\ v <= u /\ u \in Nat /\ v \in Nat
    BY <1>1
  <2> QED
    BY <2>1
<1>2. \A w \in S : w <= v
  OBVIOUS
<1> QED
  BY <1>1, <1>2 DEF Latest

\* What a cell held at a version is all of the log replayed on an empty cell.
LEMMA HeldIsReplayed ==
    ASSUME NEW n \in Nat, NEW c
    PROVE  HeldAt(n, c) = Replayed(Empty, 0, n, c)
<1>1. Changes(0, n, c) = {v \in 1..n : log[v].cell = c}
  BY DEF Changes
<1> QED
  BY <1>1 DEF HeldAt, Replayed, Latest, Shown

\* Drawing one more change is the replay up to that change.
LEMMA ReplayOne ==
    ASSUME NEW from \in Nat, NEW v \in Nat, from < v, NEW t, NEW c \in Cells,
           NEW before, before = [x \in Cells |-> Replayed(t[x], from, v - 1, x)]
    PROVE  DrawOne(before, log[v])[c] = Replayed(t[c], from, v, c)
<1>1. CASE log[v].cell = c
  <2>1. v \in Changes(from, v, c)
    BY <1>1 DEF Changes
  <2>2. Latest(Changes(from, v, c)) = v
    <3>1. Changes(from, v, c) \subseteq Nat /\ \A w \in Changes(from, v, c) : w <= v
      BY DEF Changes
    <3> QED
      BY <2>1, <3>1, LatestIs
  <2> QED
    BY <1>1, <2>1, <2>2 DEF DrawOne, Replayed, Shown
<1>2. CASE log[v].cell # c
  <2>1. Changes(from, v, c) = Changes(from, v - 1, c)
    <3>1. ASSUME NEW w \in Changes(from, v, c) PROVE w \in Changes(from, v - 1, c)
      BY <1>2 DEF Changes
    <3>2. ASSUME NEW w \in Changes(from, v - 1, c) PROVE w \in Changes(from, v, c)
      BY DEF Changes
    <3> QED
      BY <3>1, <3>2
  <2> QED
    BY <1>2, <2>1 DEF DrawOne, Replayed
<1> QED
  BY <1>1, <1>2

\* The recursion of Drawn computes Replayed, cell by cell.
LEMMA DrawnIsReplayed ==
    ASSUME NEW from \in Nat, NEW to \in Nat, from <= to,
           NEW V, NEW t \in [Cells -> V]
    PROVE  Drawn(t, from, to) = [c \in Cells |-> Replayed(t[c], from, to, c)]
<1> DEFINE F(f) == [v \in from..to |-> IF v = from THEN t ELSE DrawOne(f[v - 1], log[v])]
           g == [v \in from..to |-> [c \in Cells |-> Replayed(t[c], from, v, c)]]
<1>1. g[from] = t
  <2>1. \A c \in Cells : Changes(from, from, c) = {}
    BY DEF Changes
  <2> QED
    BY <2>1 DEF Replayed
<1>2. ASSUME NEW v \in from..to, v # from PROVE g[v] = DrawOne(g[v - 1], log[v])
  <2>1. g[v - 1] = [c \in Cells |-> Replayed(t[c], from, v - 1, c)]
    BY <1>2
  <2>2. \A c \in Cells : DrawOne(g[v - 1], log[v])[c] = Replayed(t[c], from, v, c)
    <3> HIDE DEF g
    <3> TAKE c \in Cells
    <3> QED
      BY <1>2, <2>1, ReplayOne
  <2>3. DrawOne(g[v - 1], log[v]) = [c \in Cells |-> DrawOne(g[v - 1], log[v])[c]]
    BY <2>1 DEF DrawOne
  <2>4. g[v] = [c \in Cells |-> Replayed(t[c], from, v, c)]
    OBVIOUS
  <2> HIDE DEF g
  <2>5. [c \in Cells |-> DrawOne(g[v - 1], log[v])[c]]
          = [c \in Cells |-> Replayed(t[c], from, v, c)]
    BY <2>2
  <2> QED
    BY <2>3, <2>4, <2>5
<1>3. g = F(g)
  <2>1. g = [v \in from..to |-> g[v]]
    OBVIOUS
  <2> HIDE DEF g
  <2>2. \A v \in from..to : g[v] = IF v = from THEN t ELSE DrawOne(g[v - 1], log[v])
    BY <1>1, <1>2
  <2> QED
    BY <2>1, <2>2
<1>4. ASSUME NEW f, f = F(f) PROVE f = g
  <2> DEFINE T == {v \in from..to : f[v] # g[v]}
  <2>1. T = {}
    <3> SUFFICES ASSUME T # {} PROVE FALSE
      OBVIOUS
    <3>1. T \subseteq Nat
      OBVIOUS
    <3>2. PICK v \in T : \A w \in T : v <= w
      <4> HIDE DEF T
      <4> QED
        BY <3>1, LeastNat
    <3>3. v \in from..to /\ f[v] # g[v]
      BY <3>2
    <3> HIDE DEF g
    <3>4. f[v] = IF v = from THEN t ELSE DrawOne(f[v - 1], log[v])
      BY <1>4, <3>3
    <3>5. v # from
      BY <1>1, <3>3, <3>4
    <3>6. v - 1 \in from..to /\ v - 1 \notin T
      BY <3>2, <3>3, <3>5
    <3>7. f[v - 1] = g[v - 1]
      BY <3>6
    <3> QED
      BY <1>2, <3>3, <3>4, <3>5, <3>7
  <2>2. f = [v \in from..to |-> f[v]] /\ g = [v \in from..to |-> g[v]]
    BY <1>4
  <2> HIDE DEF g, F
  <2>3. \A v \in from..to : f[v] = g[v]
    BY <2>1
  <2> QED
    BY <2>2, <2>3
<1>5. (CHOOSE f : f = F(f)) = g
  <2> HIDE DEF g, F
  <2> QED
    BY <1>3, <1>4
<1>6. Drawn(t, from, to) = g[to]
  BY <1>5, Zenon DEF Drawn
<1> QED
  BY <1>6

\* A cell that has changed has a last change.
LEMMA LatestInChanges ==
    ASSUME NEW from \in Nat, NEW to \in Nat, NEW c, Changes(from, to, c) # {}
    PROVE  /\ Latest(Changes(from, to, c)) \in Changes(from, to, c)
           /\ \A w \in Changes(from, to, c) : w <= Latest(Changes(from, to, c))
<1>1. Changes(from, to, c) \subseteq 0..to
  BY DEF Changes
<1>2. PICK v \in Changes(from, to, c) : \A w \in Changes(from, to, c) : w <= v
  BY <1>1, GreatestNat
<1>3. Changes(from, to, c) \subseteq Nat
  BY <1>1
<1>4. Latest(Changes(from, to, c)) = v
  BY <1>2, <1>3, LatestIs
<1> QED
  BY <1>2, <1>4

\* A replay from a version that the client is already past draws some changes twice, and
\* still ends where the region was at its last delta.
LEMMA OverlappingReplay ==
    ASSUME NEW from \in Nat, NEW mid \in Nat, NEW to \in Nat, from <= mid, mid <= to, NEW c
    PROVE  Replayed(HeldAt(mid, c), from, to, c) = HeldAt(to, c)
<1>1. CASE Changes(from, to, c) = {}
  <2>1. Changes(0, mid, c) = Changes(0, to, c)
    <3>1. ASSUME NEW w \in Changes(0, to, c) PROVE w \in Changes(0, mid, c)
      BY <1>1 DEF Changes
    <3>2. ASSUME NEW w \in Changes(0, mid, c) PROVE w \in Changes(0, to, c)
      BY DEF Changes
    <3> QED
      BY <3>1, <3>2
  <2> QED
    BY <1>1, <2>1, HeldIsReplayed DEF Replayed
<1>2. CASE Changes(from, to, c) # {}
  <2> DEFINE last == Latest(Changes(from, to, c))
  <2>1. last \in Changes(from, to, c) /\ \A w \in Changes(from, to, c) : w <= last
    BY <1>2, LatestInChanges
  <2> HIDE DEF last
  <2>2. last \in Changes(0, to, c)
    BY <2>1 DEF Changes
  <2>3. ASSUME NEW w \in Changes(0, to, c) PROVE w <= last
    <3>1. CASE w > from
      BY <2>1, <3>1 DEF Changes
    <3>2. CASE w <= from
      BY <2>1, <3>2 DEF Changes
    <3> QED
      BY <3>1, <3>2 DEF Changes
  <2>4. Changes(0, to, c) \subseteq Nat
    BY DEF Changes
  <2>5. Latest(Changes(0, to, c)) = last
    BY <2>2, <2>3, <2>4, LatestIs
  <2> QED
    BY <1>2, <2>2, <2>5, HeldIsReplayed DEF Replayed, last
<1> QED
  BY <1>1, <1>2

\* Appending to the log does not change what a cell held before.
LEMMA HeldStays ==
    ASSUME NEW S, log \in Seq(S), NEW e, log' = Append(log, e), NEW n \in 0..Len(log), NEW c
    PROVE  HeldAt(n, c)' = HeldAt(n, c)
<1>1. \A v \in 1..n : log'[v] = log[v]
  OBVIOUS
<1>2. Changes(0, n, c)' = Changes(0, n, c)
  BY <1>1 DEF Changes
<1>3. ASSUME Changes(0, n, c) # {}
      PROVE  Shown(Latest(Changes(0, n, c)))' = Shown(Latest(Changes(0, n, c)))
  <2>1. Latest(Changes(0, n, c)) \in Changes(0, n, c)
    BY <1>3, LatestInChanges
  <2>2. Latest(Changes(0, n, c)) \in 1..n
    BY <2>1 DEF Changes
  <2>3. Latest(Changes(0, n, c))' = Latest(Changes(0, n, c))
    BY <1>2 DEF Latest
  <2> QED
    BY <1>1, <2>2, <2>3 DEF Shown
<1>4. HeldAt(n, c) = IF Changes(0, n, c) = {} THEN Empty ELSE Shown(Latest(Changes(0, n, c)))
  BY HeldIsReplayed DEF Replayed
<1>5. HeldAt(n, c)' = IF Changes(0, n, c)' = {} THEN Empty ELSE Shown(Latest(Changes(0, n, c)))'
  <2>1. Changes(0, n, c)' = {v \in 1..n : log'[v].cell = c}
    BY DEF Changes
  <2> QED
    BY <2>1 DEF HeldAt, Latest, Shown
<1> QED
  BY <1>2, <1>3, <1>4, <1>5

\* What a cell holds after one more change.
LEMMA HeldNext ==
    ASSUME NEW S, log \in Seq(S), NEW e, log' = Append(log, e), NEW n \in Nat, n = Len(log) + 1,
           NEW c
    PROVE  HeldAt(n, c)' =
             IF e.cell = c
               THEN IF e.op = "delete" THEN Empty ELSE [owner |-> e.owner, look |-> e.look]
               ELSE HeldAt(n - 1, c)
<1>1. Changes(0, n, c)' = {v \in 1..n : log'[v].cell = c} /\ log'[n] = e
  BY DEF Changes
<1>2. CASE e.cell = c
  <2>1. n \in Changes(0, n, c)'
    BY <1>1, <1>2
  <2>2. Latest(Changes(0, n, c)') = n
    <3>1. Changes(0, n, c)' \subseteq Nat /\ \A w \in Changes(0, n, c)' : w <= n
      BY <1>1
    <3> QED
      BY <2>1, <3>1, LatestIs
  <2>3. HeldAt(n, c)' = IF log'[n].op = "delete" THEN Empty
                          ELSE [owner |-> log'[n].owner, look |-> log'[n].look]
    BY <1>1, <2>1, <2>2 DEF HeldAt, Latest
  <2> QED
    BY <1>1, <1>2, <2>3
<1>3. CASE e.cell # c
  <2>1. n - 1 \in 0..Len(log)
    OBVIOUS
  <2>2. HeldAt(n - 1, c)' = HeldAt(n - 1, c)
    BY <2>1, HeldStays
  <2>3.. HeldAt(n, c)' = HeldAt(n - 1, c)'
    <3>1. {v \in 1..n : log'[v].cell = c} = {v \in 1..(n - 1) : log'[v].cell = c}
      BY <1>1, <1>3
    <3> QED
      BY <3>1 DEF HeldAt
  <2> QED
    BY <1>3, <2>2, <2>3
<1> QED
  BY <1>2, <1>3

\* What a placement or edit writes has an owner and a look.
LogTyped ==
    \A v \in 1..head : log[v].op = "upsert" => log[v].owner \in Actors /\ log[v].look \in Looks

\* The statements of a reconnect read versions one after the other, none of which is
\* behind the one before it, and the client is never ahead of the answer it waits for.
Chain ==
    /\ phase = "idle" => since = 0 /\ current = 0 /\ upto = 0
    /\ phase \in {"version", "deltas"} => since = confirmed /\ confirmed <= current
    /\ phase \in {"deltas", "answer"} => since <= current /\ current <= upto /\ at <= upto
    /\ phase = "answer" => confirmed = current

\* As long as no answer was missed the client is at a version, not before the confirmed
\* one; while an answer is under way, not before the version its deltas start from.
Track ==
    ~ missed =>
        /\ phase = "answer" => since <= at
        /\ phase # "answer" => confirmed <= at
        /\ \A c \in Cells : tiles[c] = HeldAt(at, c)

\* The grid is what the log adds up to.
GridIsLog == grid \in [Cells -> Held] /\ \A c \in Cells : grid[c] = HeldAt(head, c)

ReplayInv == ReplayTypeOK /\ LogTyped /\ Chain /\ Track /\ GridIsLog

\* What the steps of a client do to the replay.
ReplayNext == Write \/ ReadVersion \/ ReadDeltas \/ Confirm \/ Fail \/ Apply

\* It holds for a region that one placement has founded.
LEMMA ReplayInitInv == ReplayInit => ReplayInv
<1> SUFFICES ASSUME ReplayInit PROVE ReplayInv
  OBVIOUS
<1>1. PICK c \in Cells, a \in Actors, l \in Looks :
        /\ log = << [version |-> 1, cell |-> c, op |-> "upsert", owner |-> a, look |-> l] >>
        /\ head = 1
        /\ grid = [x \in Cells |-> IF x = c THEN [owner |-> a, look |-> l] ELSE Empty]
  BY DEF ReplayInit, Store!Init
<1>2. log \in Seq(Store!Change)
  BY <1>1 DEF Store!Change
<1>3. ReplayTypeOK
  <2>1. head = Len(log) /\ head = 1
    BY <1>1
  <2>2. tiles \in [Cells -> Held]
    BY DEF ReplayInit, Held
  <2> QED
    <3>1. confirmed = 0 /\ phase = "idle" /\ since = 0 /\ current = 0 /\ upto = 0 /\ at = 0
      BY DEF ReplayInit
    <3>2. missed \in BOOLEAN
      BY DEF ReplayInit
    <3> QED
      BY <1>2, <2>1, <2>2, <3>1, <3>2 DEF ReplayTypeOK
<1>4. LogTyped
  BY <1>1 DEF LogTyped
<1>5. Chain
  BY DEF ReplayInit, Chain
<1>6. Track
  <2>1. ASSUME NEW x \in Cells PROVE HeldAt(0, x) = Empty
    BY DEF HeldAt
  <2> QED
    BY <2>1 DEF ReplayInit, Track
<1>7. GridIsLog
  <2>1. grid \in [Cells -> Held]
    BY <1>1 DEF Held, Store!Held
  <2>2. ASSUME NEW x \in Cells PROVE grid[x] = HeldAt(1, x)
    <3>1. CASE x = c
      <4>1. {v \in 1..1 : log[v].cell = x} = {1}
        BY <1>1, <3>1
      <4>2. (CHOOSE v \in {1} : \A w \in {1} : w <= v) = 1
        OBVIOUS
      <4> QED
        BY <1>1, <3>1, <4>1, <4>2 DEF HeldAt
    <3>2. CASE x # c
      <4>1. {v \in 1..1 : log[v].cell = x} = {}
        BY <1>1, <3>2
      <4> QED
        BY <1>1, <3>2, <4>1 DEF HeldAt
    <3> QED
      BY <3>1, <3>2
  <2> QED
    BY <1>1, <2>1, <2>2 DEF GridIsLog
<1> QED
  BY <1>3, <1>4, <1>5, <1>6, <1>7 DEF ReplayInv

\* A transaction commits one change, of the log and of the grid.
Logs(e) ==
    /\ log' = Append(log, e) /\ head' = head + 1
    /\ e.op = "upsert" => e.owner \in Actors /\ e.look \in Looks
    /\ grid' = [grid EXCEPT ![e.cell] =
                  IF e.op = "delete" THEN Empty ELSE [owner |-> e.owner, look |-> e.look]]

\* A transaction of the region leaves what the client has drawn as exact as it was.
LEMMA WriteStep ==
    ASSUME ReplayInv, Write
    PROVE  ReplayInv'
<1>1. PICK e \in Store!Change : Logs(e)
  <2>1. head \in Nat
    BY DEF ReplayInv, ReplayTypeOK
  <2>2. ASSUME NEW c \in Cells, Store!Erase(c) PROVE \E e \in Store!Change : Logs(e)
    <3> DEFINE e == [version |-> head + 1, cell |-> c, op |-> "delete",
                     owner |-> "none", look |-> "none"]
    <3>1. log' = Append(log, e) /\ head' = head + 1 /\ grid' = [grid EXCEPT ![c] = Empty]
      BY <2>2 DEF Store!Erase
    <3>2. e \in Store!Change /\ e.cell = c /\ e.op = "delete"
      BY <2>1 DEF Store!Change
    <3> HIDE DEF e
    <3>3. Logs(e)
      BY <3>1, <3>2 DEF Logs
    <3> QED
      BY <3>2, <3>3
  <2>3. ASSUME NEW c \in Cells, NEW a \in Actors, NEW l \in Looks, Store!Upsert(c, a, l)
        PROVE  \E e \in Store!Change : Logs(e)
    <3> DEFINE e == [version |-> head + 1, cell |-> c, op |-> "upsert", owner |-> a, look |-> l]
    <3>1. log' = Append(log, e) /\ head' = head + 1
          /\ grid' = [grid EXCEPT ![c] = [owner |-> a, look |-> l]]
      BY <2>3 DEF Store!Upsert
    <3>2. e \in Store!Change /\ e.cell = c /\ e.op = "upsert" /\ e.owner = a /\ e.look = l
      BY <2>1 DEF Store!Change
    <3> HIDE DEF e
    <3>3. Logs(e)
      BY <3>1, <3>2 DEF Logs
    <3> QED
      BY <3>2, <3>3
  <2> QED
    BY <2>2, <2>3 DEF Write, Store!Next
<1>2. log \in Seq(Store!Change) /\ head = Len(log)
  BY DEF ReplayInv, ReplayTypeOK
<1>3. log' \in Seq(Store!Change) /\ head' = Len(log')
  BY <1>1, <1>2 DEF Logs
<1>4. ReplayTypeOK'
  BY <1>1, <1>2, <1>3 DEF ReplayInv, ReplayTypeOK, Write, Logs, replayVars
<1>5. LogTyped'
  BY <1>1, <1>2 DEF ReplayInv, LogTyped, Logs
<1>6. Chain'
  BY DEF ReplayInv, Chain, Write, replayVars
<1>7. Track'
  <2>1. PICK n \in 0..Len(log) : n = at
    BY <1>2 DEF ReplayInv, ReplayTypeOK
  <2>2. ASSUME NEW c \in Cells PROVE HeldAt(n, c)' = HeldAt(n, c)
    BY <1>1, <1>2, HeldStays DEF Logs
  <2>3. n = at'
    BY <2>1 DEF Write, replayVars
  <2> QED
    BY <2>1, <2>2, <2>3 DEF ReplayInv, Track, Write, replayVars
<1>8. GridIsLog'
  <2>1. e.cell \in Cells /\ grid \in [Cells -> Held] /\ e.op \in {"upsert", "delete"}
    BY DEF Store!Change, ReplayInv, GridIsLog
  <2>2. grid' \in [Cells -> Held]
    BY <1>1, <2>1 DEF Held, Store!Held, Logs, Store!Change
  <2>3. PICK n \in Nat : n = head' /\ n = Len(log) + 1
    BY <1>1, <1>2 DEF Logs
  <2>4. ASSUME NEW c \in Cells PROVE grid'[c] = HeldAt(n, c)'
    <3>1. HeldAt(n, c)' =
            IF e.cell = c
              THEN IF e.op = "delete" THEN Empty ELSE [owner |-> e.owner, look |-> e.look]
              ELSE HeldAt(n - 1, c)
      BY <1>1, <1>2, <2>3, HeldNext DEF Logs
    <3>2. n - 1 = head
      BY <1>2, <2>3
    <3>3. grid[c] = HeldAt(head, c)
      BY DEF ReplayInv, GridIsLog
    <3>4. grid'[c] = IF e.cell = c
                       THEN IF e.op = "delete" THEN Empty ELSE [owner |-> e.owner, look |-> e.look]
                       ELSE grid[c]
      BY <1>1, <2>1 DEF Logs
    <3> QED
      BY <3>1, <3>2, <3>3, <3>4
  <2> QED
    BY <2>2, <2>3, <2>4 DEF GridIsLog
<1> QED
  BY <1>4, <1>5, <1>6, <1>7, <1>8 DEF ReplayInv

\* A step that leaves the log alone leaves what its cells held alone.
LEMMA HeldSame ==
    ASSUME log' = log, NEW n, NEW c
    PROVE  HeldAt(n, c)' = HeldAt(n, c)
BY DEF HeldAt

\* ... and with the grid, what it adds up to.
LEMMA GridSame ==
    ASSUME ReplayInv, UNCHANGED <<log, head, grid>>
    PROVE  GridIsLog'
<1>1. PICK n \in Nat : n = head /\ n = head'
  BY DEF ReplayInv, ReplayTypeOK
<1>2. ASSUME NEW c \in Cells PROVE HeldAt(n, c)' = HeldAt(n, c)
  BY HeldSame
<1> QED
  BY <1>1, <1>2 DEF ReplayInv, GridIsLog

\* A statement of the reconnect on the server.
LEMMA ServerReplayStep ==
    ASSUME ReplayInv, ReadVersion \/ ReadDeltas \/ Confirm
    PROVE  ReplayInv'
<1>1. UNCHANGED <<log, head, tiles, at, missed>>
  BY DEF ReadVersion, ReadDeltas, Confirm
<1>2. ReplayTypeOK'
  BY DEF ReplayInv, ReplayTypeOK, ReadVersion, ReadDeltas, Confirm
<1>3. LogTyped'
  BY <1>1 DEF ReplayInv, LogTyped
<1>4. Chain'
  BY DEF ReplayInv, ReplayTypeOK, Chain, ReadVersion, ReadDeltas, Confirm
<1>5. Track'
  <2>1. PICK n \in Nat : n = at /\ n = at'
    BY <1>1 DEF ReplayInv, ReplayTypeOK
  <2>2. ASSUME NEW c \in Cells PROVE HeldAt(n, c)' = HeldAt(n, c)
    BY <1>1, HeldSame
  <2>3. ~ missed => \A c \in Cells : tiles'[c] = HeldAt(n, c)'
    BY <1>1, <2>1, <2>2 DEF ReplayInv, Track
  <2>4. ~ missed' => /\ phase' = "answer" => since' <= at'
                     /\ phase' # "answer" => confirmed' <= at'
    BY DEF ReplayInv, Track, Chain, ReadVersion, ReadDeltas, Confirm
  <2> QED
    BY <1>1, <2>1, <2>3, <2>4 DEF Track
<1>6. GridIsLog'
  BY GridSame DEF ReadVersion, ReadDeltas, Confirm, Fail
<1> QED
  BY <1>2, <1>3, <1>4, <1>5, <1>6 DEF ReplayInv

\* A reconnect that fails, or whose answer is lost.
LEMMA FailStep ==
    ASSUME ReplayInv, Fail
    PROVE  ReplayInv'
<1>1. UNCHANGED <<log, head, tiles, at, confirmed>>
  BY DEF Fail
<1>2. ReplayTypeOK'
  BY DEF ReplayInv, ReplayTypeOK, Fail, Forget
<1>3. LogTyped'
  BY <1>1 DEF ReplayInv, LogTyped
<1>4. Chain'
  BY DEF Chain, Fail, Forget
<1>5. Track'
  <2>1. PICK n \in Nat : n = at /\ n = at'
    BY <1>1 DEF ReplayInv, ReplayTypeOK
  <2>2. ASSUME NEW c \in Cells PROVE HeldAt(n, c)' = HeldAt(n, c)
    BY <1>1, HeldSame
  <2> QED
    BY <1>1, <2>1, <2>2 DEF ReplayInv, Track, Fail, Forget
<1>6. GridIsLog'
  BY GridSame DEF ReadVersion, ReadDeltas, Confirm, Fail
<1> QED
  BY <1>2, <1>3, <1>4, <1>5, <1>6 DEF ReplayInv

\* The client draws the answer, or throws at an edit.
LEMMA ApplyStep ==
    ASSUME ReplayInv, Apply
    PROVE  ReplayInv'
<1>1. UNCHANGED <<log, head, confirmed>> /\ phase = "answer" /\ Forget
  BY DEF Apply
<1>2. since \in Nat /\ current \in Nat /\ upto \in 0..head /\ at \in Nat /\ head \in Nat
  BY DEF ReplayInv, ReplayTypeOK
<1>3. since <= current /\ current <= upto /\ at <= upto /\ confirmed = current
  BY <1>1 DEF ReplayInv, Chain
<1>4. LogTyped'
  BY <1>1 DEF ReplayInv, LogTyped
<1>5. Chain'
  BY <1>1 DEF Chain, Forget
<1>8. GridIsLog'
  BY GridSame DEF Apply
<1>6. CASE missed' = TRUE /\ UNCHANGED <<tiles, at>>
  <2>1. ReplayTypeOK'
    BY <1>1, <1>6 DEF ReplayInv, ReplayTypeOK, Forget
  <2>2. Track'
    BY <1>6 DEF Track
  <2> QED
    BY <2>1, <2>2, <1>4, <1>5, <1>8 DEF ReplayInv
<1>7. CASE tiles' = Drawn(tiles, since, upto) /\ at' = upto /\ missed' = missed
  <2>1. tiles' = [c \in Cells |-> Replayed(tiles[c], since, upto, c)]
    <3>1. tiles \in [Cells -> Held] /\ upto \in Nat /\ since <= upto
      BY <1>2, <1>3 DEF ReplayInv, ReplayTypeOK
    <3>2. Drawn(tiles, since, upto) = [c \in Cells |-> Replayed(tiles[c], since, upto, c)]
      BY <1>2, <3>1, DrawnIsReplayed
    <3> QED
      BY <1>7, <3>2
  <2>2. ASSUME NEW c \in Cells PROVE Replayed(tiles[c], since, upto, c) \in Held
    <3>1. CASE Changes(since, upto, c) = {}
      BY <3>1 DEF Replayed, ReplayInv, ReplayTypeOK
    <3>2. CASE Changes(since, upto, c) # {}
      <4>1. PICK v \in Changes(since, upto, c) : v = Latest(Changes(since, upto, c))
        BY <1>2, <3>2, LatestInChanges
      <4>2. v \in 1..head
        BY <1>2 DEF Changes
      <4>3. log[v] \in Store!Change
        BY <4>2 DEF ReplayInv, ReplayTypeOK
      <4>4. Shown(v) \in Held
        BY <4>2, <4>3 DEF ReplayInv, LogTyped, Shown, Held, Store!Held, Store!Change
      <4> QED
        BY <3>2, <4>1, <4>4 DEF Replayed
    <3> QED
      BY <3>1, <3>2
  <2>3. tiles' \in [Cells -> Held]
    BY <2>1, <2>2
  <2>4. ReplayTypeOK'
    BY <1>1, <1>2, <1>7, <2>3 DEF ReplayInv, ReplayTypeOK, Forget
  <2>5. ASSUME ~ missed', NEW c \in Cells PROVE tiles'[c] = HeldAt(upto, c)
    <3>1. since <= at /\ tiles[c] = HeldAt(at, c)
      BY <1>1, <1>7, <2>5 DEF ReplayInv, Track
    <3>2. Replayed(HeldAt(at, c), since, upto, c) = HeldAt(upto, c)
      BY <1>2, <1>3, <3>1, OverlappingReplay
    <3> QED
      BY <2>1, <3>1, <3>2
  <2>6. Track'
    <3>1. PICK n \in Nat : n = upto
      BY <1>2
    <3>2. ASSUME NEW c \in Cells PROVE HeldAt(n, c)' = HeldAt(n, c)
      BY <1>1, HeldSame
    <3>3. n = at' /\ phase' = "idle" /\ confirmed' <= at'
      BY <1>1, <1>3, <1>7, <3>1 DEF Forget
    <3> QED
      BY <2>5, <3>1, <3>2, <3>3 DEF Track
  <2> QED
    BY <2>4, <2>6, <1>4, <1>5, <1>8 DEF ReplayInv
<1> QED
  BY <1>6, <1>7 DEF Apply

\* A step that is not about the replay.
LEMMA ReplaySame == ASSUME ReplayInv, UNCHANGED replayAll PROVE ReplayInv'
<1>1. PICK n \in Nat : n = at /\ n = at'
  BY DEF ReplayInv, ReplayTypeOK, replayAll, replayVars
<1>2. ASSUME NEW c \in Cells PROVE HeldAt(n, c)' = HeldAt(n, c)
  BY HeldSame DEF replayAll
<1>3. GridIsLog'
  BY GridSame DEF replayAll
<1> QED
  BY <1>1, <1>2, <1>3
     DEF ReplayInv, ReplayTypeOK, LogTyped, Chain, Track, replayAll, replayVars

\* Every step of the replay keeps the invariant.
LEMMA ReplayStep == ASSUME ReplayInv, [ReplayNext]_replayAll PROVE ReplayInv'
BY WriteStep, ServerReplayStep, FailStep, ApplyStep, ReplaySame DEF ReplayNext

\* Every step of the client is a step of the replay or leaves it alone.
LEMMA NextReplays == Next => [ReplayNext]_replayAll
<1> SUFFICES ASSUME Next PROVE [ReplayNext]_replayAll
  OBVIOUS
<1>1. ASSUME NEW k \in Calls, CallStep(k) PROVE [ReplayNext]_replayAll
  BY <1>1 DEF CallStep, Acquired, Answered, Unauthorized, Reacquired, ReplayNext
<1>2. CASE Progress
  BY <1>1, <1>2 DEF Progress, StartCall, EndCall, Start, Fetch, JoinRoom
<1>3. CASE \E k \in LibraryCalls : LibraryCall(k)
  BY <1>3 DEF LibraryCall
<1>4. CASE RoomLeave \/ LeavePage
  BY <1>4 DEF RoomLeave, LeavePage
<1>5. CASE ServerStep \/ RegionWrite
  BY <1>5 DEF ServerStep, RegionWrite, ReplayNext
<1> QED
  BY <1>2, <1>3, <1>4, <1>5 DEF Next

\* ReplayInv holds in every reachable state.
THEOREM ReplayInvariant == Spec => []ReplayInv
<1>1. Init => ReplayInv
  BY ReplayInitInv DEF Init
<1>2. ReplayInv /\ [Next]_vars => ReplayInv'
  BY NextReplays, ReplayStep, ReplaySame DEF vars
<1> QED
  BY <1>1, <1>2, PTL DEF Spec

\* As long as no answer is missed the client shows the region as it was at some version, not
\* before the confirmed one, whatever is written between the statements of a reconnect.
THEOREM ReplayIsExactTheorem == Spec => []ReplayIsExact
<1>1. ReplayInv => ReplayIsExact
  <2> SUFFICES ASSUME ReplayInv, ~ missed PROVE ReplayIsExact
    BY DEF ReplayIsExact
  <2>1. \A c \in Cells : tiles[c] = HeldAt(at, c)
    BY DEF ReplayInv, Track
  <2>2. ASSUME at = head PROVE tiles = grid
    <3>1. tiles \in [Cells -> Held] /\ grid \in [Cells -> Held]
      BY DEF ReplayInv, ReplayTypeOK, GridIsLog
    <3>2. \A c \in Cells : tiles[c] = grid[c]
      BY <2>1, <2>2 DEF ReplayInv, GridIsLog
    <3> QED
      BY <3>1, <3>2
  <2> QED
    BY <2>1, <2>2 DEF ReplayInv, ReplayIsExact, Track, Chain, ReplayTypeOK
<1> QED
  BY ReplayInvariant, <1>1, PTL

-----------------------------------------------------------------------------
(* The types *)

\* The types of the client's own variables.
SessionTyped ==
    /\ retries \in 0..MaxUnauthorizedRetry
    /\ pc \in [Calls -> CallStates]
    /\ step \in {"acquire", "probe", "fetch", "bootstrap", "join-token", "join", "running",
                 "stopped"}
    /\ status \in {"auth-preflight", "bootstrapping", "joining-room", "ready", "error"}
    /\ roomJoined = (room = "open")
    /\ room \in {"none", "open", "closed"}
    /\ page \in {"open", "redirecting", "left"}
    /\ repeats \in Nat

\* A call begins.
LEMMA BeginTyped ==
    ASSUME SessionTyped, NEW k \in Calls, Begin(k),
           UNCHANGED <<retries, step, status, roomJoined, room, repeats>>
    PROVE  SessionTyped'
BY DEF SessionTyped, Begin, Interactive, Set, CallStates

\* A call that is under way goes on.
LEMMA CallStepTyped ==
    ASSUME SessionTyped, NEW k \in Calls, CallStep(k)
    PROVE  SessionTyped'
<1>1. CASE Acquired(k)
  BY <1>1 DEF SessionTyped, Acquired, Interactive, Set, CallStates
<1>2. CASE Answered(k)
  BY <1>2 DEF SessionTyped, Answered, Set, CallStates
<1>3. CASE Unauthorized(k)
  BY <1>3 DEF SessionTyped, Unauthorized, Interactive, Set, CallStates, MaxUnauthorizedRetry
<1>4. CASE Reacquired(k)
  BY <1>4 DEF SessionTyped, Reacquired, Interactive, Set, CallStates
<1> QED
  BY <1>1, <1>2, <1>3, <1>4 DEF CallStep

\* Every step keeps the types.
LEMMA NextTyped == SessionTyped /\ [Next]_vars => SessionTyped'
<1> SUFFICES ASSUME SessionTyped, [Next]_vars PROVE SessionTyped'
  OBVIOUS
<1>1. CASE \E k \in Calls : CallStep(k)
  BY <1>1, CallStepTyped
<1>2. ASSUME NEW k \in StartupCalls, StartCall(k) PROVE SessionTyped'
  BY <1>2, BeginTyped DEF StartCall, Calls
<1>3. ASSUME NEW k \in StartupCalls, EndCall(k) PROVE SessionTyped'
  BY <1>3 DEF SessionTyped, EndCall, Stop
<1>4. CASE Start
  BY <1>4 DEF SessionTyped, Start, Stop, MaxUnauthorizedRetry
<1>5. CASE Fetch
  BY <1>5 DEF SessionTyped, Fetch, Stop
<1>6. CASE JoinRoom
  BY <1>6 DEF SessionTyped, JoinRoom, Stop
<1>7. ASSUME NEW k \in LibraryCalls, LibraryCall(k) PROVE SessionTyped'
  BY <1>7, BeginTyped DEF LibraryCall, Calls
<1>8. CASE RoomLeave
  BY <1>8 DEF SessionTyped, RoomLeave
<1>9. CASE LeavePage
  BY <1>9 DEF SessionTyped, LeavePage
<1>10. CASE UNCHANGED sessionVars
  BY <1>10 DEF SessionTyped, sessionVars
<1> QED
  BY <1>1, <1>2, <1>3, <1>4, <1>5, <1>6, <1>7, <1>8, <1>9, <1>10
     DEF Next, Progress, ServerStep, RegionWrite, vars

\* The page has just been opened.
LEMMA InitTyped == Init => SessionTyped
<1> SUFFICES ASSUME Init PROVE SessionTyped
  OBVIOUS
<1>1. retries \in 0..MaxUnauthorizedRetry /\ repeats \in Nat
  BY DEF Init, MaxUnauthorizedRetry
<1>2. pc \in [Calls -> CallStates]
  BY DEF Init, CallStates
<1>3. roomJoined = (room = "open")
  BY DEF Init
<1> QED
  BY <1>1, <1>2, <1>3 DEF Init, SessionTyped

\* Every variable of the client, its calls and its replays keeps its type.
THEOREM ClientTypeCorrect == Spec => []TypeOK
<1>1. Spec => []SessionTyped
  BY InitTyped, NextTyped, PTL DEF Spec
<1>2. ReplayInv /\ SessionTyped => TypeOK
  BY DEF ReplayInv, SessionTyped, TypeOK
<1> QED
  BY <1>1, <1>2, ReplayInvariant, PTL
=============================================================================
