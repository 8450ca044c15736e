----------------------------- MODULE RateLimits -----------------------------
(****************************************************************************)
(* The two limiters of the HTTP routes, for one key: the sliding window of  *)
(* placements (shouldThrottleTilePlace, with the hourly sweep of its map)   *)
(* and the fixed windows of bootstrap, heartbeat and reconnect              *)
(* (isRateLimited).                                                         *)
(*                                                                          *)
(* A limiter decides without an await, so that a call is one step.  Keys    *)
(* and limiters share nothing: a behaviour is about one key of one limiter. *)
(* The maps are in memory, and a behaviour is one run of the server.  A     *)
(* call that passes is named by its number, since several may pass at once. *)
(****************************************************************************)
EXTENDS Integers, FiniteSets

CONSTANTS
    Window,         \* windowMs
    MaxInWindow,    \* maxRequests, maxInWindow
    Ttl,            \* tilePlaceThrottleTtlMs
    MaxClock,       \* bound: the last instant of a behaviour
    MaxCalls        \* bound: calls of a behaviour

\* The configuration admits any positive Ttl; a shorter one forgets attempts that count.
ASSUME LimitAssumption ==
    /\ Window \in Nat \ {0}
    /\ MaxInWindow \in Nat \ {0}
    /\ Ttl \in Nat /\ Ttl + 1 >= Window
    /\ MaxClock \in Nat
    /\ MaxCalls \in Nat

VARIABLES
    clock,          \* Date.now()
    calls,          \* calls made so far
    limiter,        \* the one this behaviour is about
    attempts,       \* sliding: attempts of the key's entry; {} when there is no entry
    lastActivity,   \* sliding: lastActivityMs of the entry
    started, count, \* fixed: windowStartedAtMs and count; count 0 when there is no entry
    passed,         \* history: the calls that were let through
    promise         \* history: instant the last 429 told to wait for, until a call passes

vars == <<clock, calls, limiter, attempts, lastActivity, started, count, passed, promise>>

Pass == [n : Nat, at : Nat]
ThisCall == [n |-> calls + 1, at |-> clock]
NoPromise == -1

\* The passes of set s in the Window that ends with t.
Within(s, t) == {a \in s : t - Window < a.at /\ a.at <= t}

-----------------------------------------------------------------------------
(* Placements *)

\* recentAttempts
Recent == {a \in attempts : a.at > clock - Window}

\* The attempt is recorded, the old ones are forgotten.
Place ==
    /\ limiter = "sliding"
    /\ calls < MaxCalls
    /\ Cardinality(Recent) < MaxInWindow
    /\ calls' = calls + 1
    /\ attempts' = Recent \cup {ThisCall}
    /\ lastActivity' = clock
    /\ passed' = passed \cup {ThisCall}
    /\ promise' = NoPromise
    /\ UNCHANGED <<clock, limiter, started, count>>

\* Fault: the wait is counted from the latest attempt.
RetryAfterLatest(ms) ==
    \E a \in Recent :
        /\ \A b \in Recent : b.at <= a.at
        /\ ms = IF Window - (clock - a.at) > 1 THEN Window - (clock - a.at) ELSE 1

\* retryAfterMs, from the oldest attempt in the window.
RetryAfter(ms) ==
    \E a \in Recent :
        /\ \A b \in Recent : a.at <= b.at
        /\ ms = IF Window - (clock - a.at) > 1 THEN Window - (clock - a.at) ELSE 1

\* A refused attempt changes nothing.
PlaceThrottled ==
    /\ limiter = "sliding"
    /\ calls < MaxCalls
    /\ Cardinality(Recent) >= MaxInWindow
    /\ calls' = calls + 1
    /\ \E ms \in 1..Window : RetryAfter(ms) /\ promise' = clock + ms
    /\ UNCHANGED <<clock, limiter, attempts, lastActivity, started, count, passed>>

\* Fault: the sweep compares with half of the time.
SweepEarly ==
    /\ limiter = "sliding"
    /\ attempts # {}
    /\ 2 * (clock - lastActivity) > Ttl
    /\ attempts' = {}
    /\ UNCHANGED <<clock, calls, limiter, lastActivity, started, count, passed, promise>>

\* The hourly sweep deletes the entry; its timer may fire at any time.
Sweep ==
    /\ limiter = "sliding"
    /\ attempts # {}
    /\ clock - lastActivity > Ttl
    /\ attempts' = {}
    /\ UNCHANGED <<clock, calls, limiter, lastActivity, started, count, passed, promise>>

-----------------------------------------------------------------------------
(* Bootstrap, heartbeat, reconnect *)

WindowOver == count = 0 \/ clock - started >= Window

OpenWindow ==
    /\ limiter = "fixed"
    /\ calls < MaxCalls
    /\ WindowOver
    /\ calls' = calls + 1
    /\ started' = clock
    /\ count' = 1
    /\ passed' = passed \cup {ThisCall}
    /\ UNCHANGED <<clock, limiter, attempts, lastActivity, promise>>

\* Fault: the limit is compared with the count before this call.
CountBefore ==
    /\ limiter = "fixed"
    /\ calls < MaxCalls
    /\ ~ WindowOver
    /\ calls' = calls + 1
    /\ count' = count + 1
    /\ passed' = IF count > MaxInWindow THEN passed ELSE passed \cup {ThisCall}
    /\ UNCHANGED <<clock, limiter, attempts, lastActivity, started, promise>>

\* Calls that are refused are counted, too.
CountInWindow ==
    /\ limiter = "fixed"
    /\ calls < MaxCalls
    /\ ~ WindowOver
    /\ calls' = calls + 1
    /\ count' = count + 1
    /\ passed' = IF count + 1 > MaxInWindow THEN passed ELSE passed \cup {ThisCall}
    /\ UNCHANGED <<clock, limiter, attempts, lastActivity, started, promise>>

-----------------------------------------------------------------------------
Tick ==
    /\ clock < MaxClock
    /\ clock' = clock + 1
    /\ UNCHANGED <<calls, limiter, attempts, lastActivity, started, count, passed, promise>>

Init ==
    /\ clock = 0
    /\ calls = 0
    /\ limiter \in {"sliding", "fixed"}
    /\ attempts = {}
    /\ lastActivity = 0
    /\ started = 0
    /\ count = 0
    /\ passed = {}
    /\ promise = NoPromise

Next ==
    \/ Place \/ PlaceThrottled \/ Sweep
    \/ OpenWindow \/ CountInWindow
    \/ Tick

Spec == Init /\ [][Next]_vars

-----------------------------------------------------------------------------
(* Properties *)

\* Every variable has its type; what is recorded has passed.
TypeOK ==
    /\ clock \in Nat
    /\ calls \in Nat
    /\ limiter \in {"sliding", "fixed"}
    /\ attempts \subseteq passed
    /\ lastActivity \in 0..clock
    /\ started \in 0..clock
    /\ count \in Nat
    /\ passed \subseteq [n : 1..calls, at : 0..clock]
    /\ promise \in Nat \cup {NoPromise}

\* However calls, the clock and the sweep are interleaved, never more than MaxInWindow
\* placements pass in any stretch of time as long as the window.
SlidingWindowHolds ==
    limiter = "sliding" =>
        \A t \in 0..clock : Cardinality(Within(passed, t)) <= MaxInWindow

\* The retryAfterMs of a 429 is exact: a client that waits so long passes, unless another
\* call of the key did before it, and one that does not is refused again.
RetryAfterIsExact ==
    promise # NoPromise => (promise <= clock <=> Cardinality(Recent) < MaxInWindow)

\* A fixed window lets no more than twice its number pass in a stretch of its length,
\* whichever way the stretch lies across the windows.
FixedWindowHolds ==
    limiter = "fixed" =>
        \A t \in 0..clock : Cardinality(Within(passed, t)) <= 2 * MaxInWindow
=============================================================================
