-------------------------- MODULE RateLimitsProofs --------------------------
(****************************************************************************)
(* Theorems about RateLimits for every window, number and admissible TTL.   *)
(****************************************************************************)
EXTENDS RateLimits, FiniteSetTheorems, TLAPS

\* The passes since t, that instant included.
Since(t) == {a \in passed : t <= a.at}

\* The entry knows every pass that still counts, and lastActivity is not before any.
EntryIsWhole == limiter = "sliding" =>
    /\ \A a \in passed : a.at > clock - Window => a \in attempts
    /\ \A a \in attempts : a.at <= lastActivity

\* A promise ends the window that began with the oldest of the attempts that filled it.
PromiseIsFounded == promise # NoPromise =>
    /\ limiter = "sliding"
    /\ Cardinality(Since(promise - Window)) = MaxInWindow
    /\ \E a \in passed : a.at = promise - Window

\* The passes in the length of a window before the open one.
Earlier == {a \in passed : started - Window < a.at /\ a.at < started}

\* No more pass in the fixed window than it has counted, nor in the time before it.
FixedIsCounted == limiter = "fixed" =>
    /\ count = 0 => passed = {}
    /\ \A a \in passed : a.at < started + Window
    /\ Cardinality(Since(started)) <= count
    /\ Cardinality(Since(started)) <= MaxInWindow
    /\ Cardinality(Earlier) <= MaxInWindow

LimitInv ==
    /\ TypeOK /\ IsFiniteSet(passed)
    /\ EntryIsWhole /\ PromiseIsFounded /\ FixedIsCounted
    /\ SlidingWindowHolds /\ FixedWindowHolds

-----------------------------------------------------------------------------
\* What has passed is a call that was made, at an instant that was.
LEMMA PassType ==
    ASSUME TypeOK
    PROVE  \A a \in passed : a.n \in 1..calls /\ a.at \in 0..clock /\ calls \in Nat /\ clock \in Nat
BY DEF TypeOK

\* A part of the passes is finite, and no larger than what it is part of.
LEMMA PartSize ==
    ASSUME IsFiniteSet(passed), NEW S \in SUBSET passed, NEW T \in SUBSET S
    PROVE  /\ IsFiniteSet(S) /\ IsFiniteSet(T)
           /\ Cardinality(S) \in Nat /\ Cardinality(T) \in Nat
           /\ Cardinality(T) <= Cardinality(S)
<1>1. IsFiniteSet(S)
  BY FS_Subset
<1>2. IsFiniteSet(T) /\ Cardinality(T) <= Cardinality(S)
  BY <1>1, FS_Subset
<1> QED
  BY <1>1, <1>2, FS_CardinalityType

\* Initially nothing has passed.
LEMMA LimitInit == Init => LimitInv
<1> SUFFICES ASSUME Init PROVE LimitInv
  OBVIOUS
<1> USE LimitAssumption DEF Init
<1>0. IsFiniteSet({}) /\ Cardinality({}) = 0
  BY FS_EmptySet
<1>1. TypeOK
  BY DEF TypeOK, NoPromise
<1>2. EntryIsWhole /\ PromiseIsFounded
  BY DEF EntryIsWhole, PromiseIsFounded
<1>3. /\ Since(started) = {}
      /\ Earlier = {}
      /\ \A t : Within(passed, t) = {}
  BY DEF Since, Within, Earlier
<1>4. FixedIsCounted /\ SlidingWindowHolds /\ FixedWindowHolds
  BY <1>0, <1>3 DEF FixedIsCounted, SlidingWindowHolds, FixedWindowHolds
<1> QED
  BY <1>0, <1>1, <1>2, <1>4 DEF LimitInv

-----------------------------------------------------------------------------
(* Steps *)

\* What the entry counts is what has passed in the window that ends now.
LEMMA RecentIsWithin ==
    ASSUME LimitInv, limiter = "sliding"
    PROVE  Recent = Within(passed, clock)
BY PassType DEF LimitInv, EntryIsWhole, TypeOK, Recent, Within

\* A call that passes changes the count of the windows that end now, and of no others.
LEMMA NewPass ==
    ASSUME LimitInv, passed' = passed \cup {ThisCall}, UNCHANGED clock, calls' = calls + 1
    PROVE  /\ IsFiniteSet(passed')
           /\ ThisCall \notin passed
           /\ \A t \in 0..clock : t # clock => Within(passed', t) = Within(passed, t)
           /\ Within(passed', clock) = Within(passed, clock) \cup {ThisCall}
           /\ Cardinality(Within(passed', clock)) = Cardinality(Within(passed, clock)) + 1
<1> USE LimitAssumption, PassType DEF LimitInv
<1>0. clock \in Nat /\ calls \in Nat
  BY DEF TypeOK
<1>1. ThisCall \notin passed
  BY <1>0 DEF ThisCall
<1>2. IsFiniteSet(passed')
  BY FS_AddElement
<1>3. \A t \in 0..clock : t # clock => Within(passed', t) = Within(passed, t)
  BY <1>0 DEF Within, ThisCall
<1>4. Within(passed', clock) = Within(passed, clock) \cup {ThisCall}
  BY <1>0 DEF Within, ThisCall
<1>5. IsFiniteSet(Within(passed, clock)) /\ ThisCall \notin Within(passed, clock)
  BY <1>1, FS_Subset DEF Within
<1> QED
  BY <1>1, <1>2, <1>3, <1>4, <1>5, FS_AddElement

\* A placement that passes had room in the window that ends now.
LEMMA PlaceStep ==
    ASSUME LimitInv, Place
    PROVE  LimitInv'
<1> USE LimitAssumption, PassType DEF LimitInv
<1>1. /\ limiter = "sliding" /\ limiter' = "sliding"
      /\ Cardinality(Recent) < MaxInWindow
      /\ calls' = calls + 1 /\ clock' = clock /\ lastActivity' = clock
      /\ attempts' = Recent \cup {ThisCall}
      /\ passed' = passed \cup {ThisCall}
      /\ promise' = NoPromise
      /\ UNCHANGED <<started, count>>
  BY DEF Place
<1>2. TypeOK'
  BY <1>1 DEF TypeOK, ThisCall, Recent
<1>3. EntryIsWhole'
  BY <1>1, <1>2 DEF EntryIsWhole, Recent, ThisCall, TypeOK
<1>4. PromiseIsFounded' /\ FixedIsCounted' /\ FixedWindowHolds'
  BY <1>1 DEF PromiseIsFounded, FixedIsCounted, FixedWindowHolds
<1>5. Cardinality(Within(passed', clock)) <= MaxInWindow
  <2>1. IsFiniteSet(Recent)
    BY FS_Subset DEF Recent, TypeOK
  <2>2. Cardinality(Recent) \in Nat
    BY <2>1, FS_CardinalityType
  <2> QED
    BY <1>1, <2>2, NewPass, RecentIsWithin
<1>6. SlidingWindowHolds'
  BY <1>1, <1>5, NewPass DEF SlidingWindowHolds
<1> QED
  BY <1>1, <1>2, <1>3, <1>4, <1>6, NewPass

\* One that is refused is told when the oldest of its window leaves it.
LEMMA ThrottledStep ==
    ASSUME LimitInv, PlaceThrottled
    PROVE  LimitInv'
<1> USE LimitAssumption, PassType DEF LimitInv
<1>1. PICK ms \in 1..Window : RetryAfter(ms) /\ promise' = clock + ms
  BY DEF PlaceThrottled
<1>2. PICK a \in Recent :
         /\ \A b \in Recent : a.at <= b.at
         /\ ms = IF Window - (clock - a.at) > 1 THEN Window - (clock - a.at) ELSE 1
  BY <1>1 DEF RetryAfter
<1>3. /\ limiter = "sliding" /\ limiter' = "sliding"
      /\ Cardinality(Recent) >= MaxInWindow
      /\ calls' = calls + 1
      /\ UNCHANGED <<clock, attempts, lastActivity, started, count, passed>>
  BY DEF PlaceThrottled
<1>4. clock \in Nat /\ calls \in Nat
  BY DEF TypeOK
<1>5. a \in passed /\ a.at \in 0..clock /\ a.at > clock - Window
  BY <1>2 DEF Recent, TypeOK
<1>6. promise' = a.at + Window
  BY <1>1, <1>2, <1>4, <1>5
<1>7. TypeOK'
  BY <1>1, <1>3, <1>4 DEF TypeOK
<1>8. Recent = Since(a.at)
  BY <1>2, <1>3, <1>4, <1>5, RecentIsWithin DEF Since, Within
<1>9. Cardinality(Recent) = MaxInWindow
  <2>1. Cardinality(Recent) <= MaxInWindow
    BY <1>3, <1>4, RecentIsWithin DEF SlidingWindowHolds
  <2>2. Cardinality(Recent) \in Nat
    BY <1>8, FS_Subset, FS_CardinalityType DEF Since
  <2> QED
    BY <1>3, <2>1, <2>2
<1>10. PromiseIsFounded'
  <2>1. promise' - Window = a.at
    BY <1>5, <1>6
  <2>2. Since(a.at)' = Since(a.at)
    BY <1>2, <1>3 DEF Since
  <2> QED
    BY <1>3, <1>5, <1>8, <1>9, <2>1, <2>2 DEF PromiseIsFounded, Since
<1>11. EntryIsWhole' /\ FixedIsCounted' /\ SlidingWindowHolds' /\ FixedWindowHolds'
  BY <1>3 DEF EntryIsWhole, FixedIsCounted, SlidingWindowHolds, FixedWindowHolds, Within, Since, Earlier
<1> QED
  BY <1>3, <1>7, <1>10, <1>11

\* Where the assumption on the TTL is used: nothing that still counts is swept.
LEMMA SweepStep ==
    ASSUME LimitInv, Sweep
    PROVE  LimitInv'
<1> USE LimitAssumption, PassType DEF LimitInv
<1>1. /\ limiter = "sliding" /\ clock - lastActivity > Ttl /\ attempts' = {}
      /\ UNCHANGED <<clock, calls, limiter, lastActivity, started, count, passed, promise>>
  BY DEF Sweep
<1>2. TypeOK'
  BY <1>1 DEF TypeOK
<1>3. EntryIsWhole'
  <2>1. \A a \in passed : a.at <= clock - Window
    BY <1>1 DEF EntryIsWhole, TypeOK
  <2> QED
    BY <1>1, <2>1 DEF EntryIsWhole, TypeOK
<1>4. PromiseIsFounded' /\ FixedIsCounted' /\ SlidingWindowHolds' /\ FixedWindowHolds'
  BY <1>1 DEF PromiseIsFounded, FixedIsCounted, SlidingWindowHolds, FixedWindowHolds, Within, Since, Earlier
<1> QED
  BY <1>1, <1>2, <1>3, <1>4

\* Opening a fixed window starts its count afresh.
LEMMA OpenStep ==
    ASSUME LimitInv, OpenWindow
    PROVE  LimitInv'
<1> USE LimitAssumption, PassType DEF LimitInv
<1>1. /\ limiter = "fixed" /\ limiter' = "fixed" /\ WindowOver
      /\ calls' = calls + 1 /\ clock' = clock /\ started' = clock /\ count' = 1
      /\ passed' = passed \cup {ThisCall}
      /\ UNCHANGED <<attempts, lastActivity, promise>>
  BY DEF OpenWindow
<1>2. clock \in Nat /\ calls \in Nat /\ started \in 0..clock /\ count \in Nat
  BY DEF TypeOK
<1>3. TypeOK'
  BY <1>1, <1>2 DEF TypeOK, ThisCall

\* What passed in the window that ends now, passed since the last one was opened.
<1>4. \A a \in passed : a.at < clock /\ (a.at > clock - Window => a.at >= started)
  BY <1>1, <1>2 DEF WindowOver, FixedIsCounted
<1>5. Within(passed, clock) \in SUBSET Since(started) /\ Since(started) \in SUBSET passed
  BY <1>4 DEF Within, Since
<1>6. /\ Cardinality(Within(passed, clock)) \in Nat
      /\ Cardinality(Within(passed, clock)) <= MaxInWindow
  <2>1. Cardinality(Within(passed, clock)) <= Cardinality(Since(started))
    BY <1>5, PartSize
  <2>2. Cardinality(Within(passed, clock)) \in Nat /\ Cardinality(Since(started)) \in Nat
    BY <1>5, PartSize
  <2> QED
    BY <1>1, <2>1, <2>2 DEF FixedIsCounted
<1>7. FixedIsCounted'
  <2>1. Since(started)' = {ThisCall}
    BY <1>1, <1>2, <1>4 DEF Since, ThisCall
  <2>2. Cardinality(Since(started)') = 1
    BY <2>1, FS_Singleton
  <2>3. Earlier' = Within(passed, clock)
    BY <1>1, <1>2, <1>4 DEF Within, ThisCall, Earlier
  <2>4. \A a \in passed' : a.at < started' + Window
    BY <1>1, <1>2 DEF ThisCall
  <2> QED
    BY <1>1, <1>6, <2>2, <2>3, <2>4 DEF FixedIsCounted
<1>8. FixedWindowHolds'
  <2>1. Cardinality(Within(passed', clock)) <= 2 * MaxInWindow
    BY <1>1, <1>6, NewPass
  <2> QED
    BY <1>1, <1>2, <2>1, NewPass DEF FixedWindowHolds
<1>9. EntryIsWhole' /\ PromiseIsFounded' /\ SlidingWindowHolds'
  BY <1>1 DEF EntryIsWhole, PromiseIsFounded, SlidingWindowHolds
<1> QED
  BY <1>1, <1>3, <1>7, <1>8, <1>9, NewPass

\* A call in an open fixed window is one of its count.
LEMMA CountStep ==
    ASSUME LimitInv, CountInWindow
    PROVE  LimitInv'
<1> USE LimitAssumption, PassType DEF LimitInv
<1>1. /\ limiter = "fixed" /\ limiter' = "fixed" /\ ~ WindowOver
      /\ calls' = calls + 1 /\ count' = count + 1
      /\ passed' = IF count + 1 > MaxInWindow THEN passed ELSE passed \cup {ThisCall}
      /\ UNCHANGED <<clock, attempts, lastActivity, started, promise>>
  BY DEF CountInWindow
<1>2. clock \in Nat /\ calls \in Nat /\ started \in 0..clock /\ count \in Nat
  BY DEF TypeOK
<1>3. TypeOK'
  BY <1>1, <1>2 DEF TypeOK, ThisCall
<1>4. EntryIsWhole' /\ PromiseIsFounded' /\ SlidingWindowHolds'
  BY <1>1 DEF EntryIsWhole, PromiseIsFounded, SlidingWindowHolds
<1>5. CASE count + 1 > MaxInWindow
  <2>1. passed' = passed
    BY <1>1, <1>5
  <2>2. Since(started)' = Since(started) /\ Earlier' = Earlier
    BY <1>1, <2>1 DEF Since, Earlier
  <2>3. Cardinality(Since(started)) \in Nat
    BY PartSize DEF Since
  <2>4. FixedIsCounted'
    BY <1>1, <1>2, <2>1, <2>2, <2>3 DEF FixedIsCounted, WindowOver
  <2>5. FixedWindowHolds'
    BY <1>1, <2>1 DEF FixedWindowHolds, Within
  <2> QED
    BY <1>3, <1>4, <2>1, <2>4, <2>5
<1>6. CASE ~ (count + 1 > MaxInWindow)
  <2>1. passed' = passed \cup {ThisCall}
    BY <1>1, <1>6
  <2>2. Since(started)' = Since(started) \cup {ThisCall} /\ Earlier' = Earlier
    BY <1>1, <1>2, <2>1 DEF Since, ThisCall, Earlier
  <2>3. IsFiniteSet(Since(started)) /\ Cardinality(Since(started)) \in Nat
    BY PartSize DEF Since
  <2>4. ThisCall \notin Since(started)
    BY <1>1, <2>1, NewPass DEF Since
  <2>5. Cardinality(Since(started)') = Cardinality(Since(started)) + 1
    BY <2>2, <2>3, <2>4, FS_AddElement
  <2>6. \A a \in passed' : a.at < started' + Window
    BY <1>1, <1>2, <2>1 DEF ThisCall, WindowOver, FixedIsCounted
  <2>7. FixedIsCounted'
    BY <1>1, <1>2, <1>6, <2>2, <2>3, <2>5, <2>6 DEF FixedIsCounted, WindowOver
  <2>8. Cardinality(Within(passed', clock)) <= 2 * MaxInWindow
    <3>1. Within(passed', clock) \in SUBSET (Since(started)' \cup Earlier')
      BY <1>1, <1>2, <1>3, <2>6 DEF TypeOK, Within, Since, Earlier
    <3>2. IsFiniteSet(Earlier) /\ Cardinality(Earlier) \in Nat
      BY PartSize DEF Earlier
    <3>3. IsFiniteSet(Since(started)') /\ Cardinality(Since(started)') \in Nat
      BY <2>2, <2>3, <2>5, FS_AddElement
    <3>4. Since(started)' \cap Earlier' = {}
      BY <1>1, <1>2, <2>1, <2>2 DEF Since, ThisCall, Earlier
    <3>5. /\ IsFiniteSet(Since(started)' \cup Earlier')
          /\ Cardinality(Since(started)' \cup Earlier')
                = Cardinality(Since(started)') + Cardinality(Earlier') - Cardinality({})
      BY <2>2, <3>2, <3>3, <3>4, FS_Union
    <3>6. Cardinality({}) = 0
      BY FS_EmptySet
    <3>7. Cardinality(Since(started)' \cup Earlier') <= 2 * MaxInWindow
      BY <1>1, <2>2, <2>7, <3>2, <3>3, <3>5, <3>6 DEF FixedIsCounted
    <3> QED
      BY <3>1, <3>5, <3>7, FS_Subset, FS_CardinalityType
  <2>9. FixedWindowHolds'
    BY <1>1, <1>2, <2>1, <2>8, NewPass DEF FixedWindowHolds
  <2> QED
    BY <1>1, <1>3, <1>4, <2>1, <2>7, <2>9, NewPass
<1> QED
  BY <1>5, <1>6

\* Time passes, and the window that ends now loses what is older.
LEMMA TickStep ==
    ASSUME LimitInv, Tick
    PROVE  LimitInv'
<1> USE LimitAssumption, PassType DEF LimitInv
<1>1. /\ clock' = clock + 1
      /\ UNCHANGED <<calls, limiter, attempts, lastActivity, started, count, passed, promise>>
  BY DEF Tick
<1>2. clock \in Nat
  BY DEF TypeOK
<1>3. TypeOK'
  BY <1>1, <1>2 DEF TypeOK
<1>4. EntryIsWhole' /\ PromiseIsFounded' /\ FixedIsCounted'
  BY <1>1, <1>2 DEF EntryIsWhole, PromiseIsFounded, FixedIsCounted, Since, Earlier
<1>5. /\ Within(passed, clock + 1) \in SUBSET Within(passed, clock)
      /\ Within(passed, clock) \in SUBSET passed
  BY <1>2 DEF Within
<1>6. /\ Cardinality(Within(passed, clock + 1)) \in Nat
      /\ Cardinality(Within(passed, clock)) \in Nat
      /\ Cardinality(Within(passed, clock + 1)) <= Cardinality(Within(passed, clock))
  BY <1>5, PartSize
<1>7. \A t \in 0..clock' : t \in 0..clock \/ t = clock + 1
  BY <1>1, <1>2
<1>8. SlidingWindowHolds'
  BY <1>1, <1>2, <1>6, <1>7 DEF SlidingWindowHolds
<1>9. FixedWindowHolds'
  BY <1>1, <1>2, <1>6, <1>7 DEF FixedWindowHolds
<1> QED
  BY <1>1, <1>3, <1>4, <1>8, <1>9

\* A step that changes nothing keeps all of it.
LEMMA LimitStutter == LimitInv /\ UNCHANGED vars => LimitInv'
BY DEF LimitInv, vars, TypeOK, EntryIsWhole, PromiseIsFounded, FixedIsCounted,
       SlidingWindowHolds, FixedWindowHolds, Since, Within, Earlier

-----------------------------------------------------------------------------
(* Theorems *)

\* LimitInv holds in every reachable state.
THEOREM LimitInvariant == Spec => []LimitInv
<1>1. LimitInv /\ [Next]_vars => LimitInv'
  BY PlaceStep, ThrottledStep, SweepStep, OpenStep, CountStep, TickStep, LimitStutter DEF Next
<1> QED
  BY LimitInit, <1>1, PTL DEF Spec

\* Every variable has its type; what the entry holds has passed.
THEOREM LimitsTypeCorrect == Spec => []TypeOK
<1>1. LimitInv => TypeOK
  BY DEF LimitInv
<1> QED
  BY LimitInvariant, <1>1, PTL

\* No stretch of a window's length sees more placements than the limit, for any sweep
\* that keeps an entry as long as its attempts count.
THEOREM SlidingTheorem == Spec => []SlidingWindowHolds
<1>1. LimitInv => SlidingWindowHolds
  BY DEF LimitInv
<1> QED
  BY LimitInvariant, <1>1, PTL

\* No stretch of a window's length sees more than twice the limit of a fixed window.
THEOREM FixedTheorem == Spec => []FixedWindowHolds
<1>1. LimitInv => FixedWindowHolds
  BY DEF LimitInv
<1> QED
  BY LimitInvariant, <1>1, PTL

\* The promise of a 429 is the instant the next call would pass.
LEMMA PromiseIsExact == LimitInv => RetryAfterIsExact
<1> SUFFICES ASSUME LimitInv, promise # NoPromise
             PROVE  promise <= clock <=> Cardinality(Recent) < MaxInWindow
  BY DEF RetryAfterIsExact
<1> USE LimitAssumption, PassType
<1>1. TypeOK /\ IsFiniteSet(passed) /\ limiter = "sliding"
  BY DEF LimitInv, PromiseIsFounded
<1>2. Recent = {a \in passed : a.at > clock - Window}
  BY <1>1, RecentIsWithin DEF Within
<1>3. Cardinality(Since(promise - Window)) = MaxInWindow
  BY DEF LimitInv, PromiseIsFounded
<1>4. PICK a \in passed : a.at = promise - Window
  BY DEF LimitInv, PromiseIsFounded
<1>5. clock \in Nat /\ promise \in Nat
  BY <1>1 DEF TypeOK
<1>6. Since(promise - Window) \in SUBSET passed
  BY DEF Since
<1>7. CASE promise <= clock
  <2>1. Recent \in SUBSET Since(promise - Window)
    BY <1>1, <1>2, <1>5, <1>7 DEF Since
  <2>2. a \in Since(promise - Window) /\ a \notin Recent
    BY <1>1, <1>2, <1>4, <1>5, <1>7 DEF Since
  <2>3. IsFiniteSet(Since(promise - Window))
    BY <1>1, <1>6, FS_Subset
  <2>4. Cardinality(Recent) < Cardinality(Since(promise - Window))
    BY <2>1, <2>2, <2>3, FS_Subset, FS_CardinalityType
  <2> QED
    BY <1>3, <1>7, <2>4
<1>8. CASE clock < promise
  <2>1. Since(promise - Window) \in SUBSET Recent /\ Recent \in SUBSET passed
    BY <1>1, <1>2, <1>5, <1>8 DEF Since
  <2>2. Cardinality(Since(promise - Window)) <= Cardinality(Recent)
        /\ Cardinality(Recent) \in Nat
    BY <1>1, <2>1, PartSize
  <2> QED
    BY <1>3, <1>5, <1>8, <2>2
<1> QED
  BY <1>5, <1>7, <1>8

\* The wait a 429 names is neither too short nor too long.
THEOREM RetryAfterTheorem == Spec => []RetryAfterIsExact
BY LimitInvariant, PromiseIsExact, PTL
=============================================================================
