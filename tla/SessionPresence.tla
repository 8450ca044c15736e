-------------------------- MODULE SessionPresence --------------------------
(****************************************************************************)
(* Who is in which region: join tokens (JoinTokenService), the connections  *)
(* they admit (ArenaRoom.onAuth, onJoin, onLeave), the heartbeats of the    *)
(* HTTP route, and the presence map with its sweep                          *)
(* (SessionLifecycleService).  What the map says decides whether a player   *)
(* may read a region's diff.                                                *)
(*                                                                          *)
(* Everything here is in the memory of one process.  A step is what the     *)
(* code does between two awaits.  A room instance has an id of its own,     *)
(* while a heartbeat names any room it likes.  The sweep's telemetry may    *)
(* reject; nobody handles that and the process ends, so it is a Crash.      *)
(****************************************************************************)
EXTENDS Integers, FiniteSets

CONSTANTS
    Players,        \* tenant-scoped subjects
    Tokens,         \* join tokens (jti)
    Connections,    \* clients of a room
    Instances,      \* ids of room instances
    Claims,         \* room ids a heartbeat may name
    Sweeps,         \* sweeps under way at once
    Second,         \* clock ticks of a second: tokens expire by the second
    TokenTtl,       \* ttlSeconds of a token
    HeartbeatTtl,   \* heartbeatTtlMs
    Nobody,         \* not a player
    MaxClock,       \* bound: the last instant of a behaviour
    MaxCrashes      \* bound: crashes of a behaviour

ASSUME PresenceAssumption ==
    /\ Second \in Nat \ {0}
    /\ TokenTtl \in Nat \ {0}
    /\ HeartbeatTtl \in Nat \ {0}
    /\ Nobody \notin Players
    /\ MaxClock \in Nat
    /\ MaxCrashes \in Nat

VARIABLES
    clock, crashes,
    issued,     \* Tokens -> [sub, exp], the payload; sub Nobody before it is issued
    consumed,   \* keys of consumedJoinTokenIds; their values are the tokens' exp
    stage,      \* Connections -> new, auth, joining, in or gone
    used,       \* Connections -> {} or {token it was admitted with in this run of the server}
    room,       \* Connections -> the instance it connects to
    presence,   \* presenceBySubject: Players -> {} or {[room, beat]}
    sweep,      \* Sweeps -> {} or {nowMs of the sweep under way}
    sign        \* history: Players -> {} or {last sign of life; the room not left since}

vars == <<clock, crashes, issued, consumed, stage, used, room, presence, sweep, sign>>

Here == [room : Instances \cup Claims, beat : Nat]
Stages == {"new", "auth", "joining", "in", "gone"}
NowSeconds == clock \div Second

-----------------------------------------------------------------------------
(* Join tokens *)

\* Fault: an id is forgotten as soon as its last second begins.
PrunedRounded == {t \in consumed : issued[t].exp > NowSeconds + 1}

\* pruneExpiredReplayEntries
Pruned == {t \in consumed : issued[t].exp > NowSeconds}

\* issueJoinToken of the route
IssueToken(t, p) ==
    /\ issued[t].sub = Nobody
    /\ issued' = [issued EXCEPT ![t] = [sub |-> p, exp |-> NowSeconds + TokenTtl]]
    /\ consumed' = Pruned
    /\ UNCHANGED <<clock, crashes, stage, used, room, presence, sweep, sign>>

Valid(t) == issued[t].sub # Nobody /\ issued[t].exp > NowSeconds /\ t \notin Pruned

\* onAuth in instance r
Authenticate(c, t, r) ==
    /\ stage[c] = "new"
    /\ Valid(t)
    /\ consumed' = Pruned \cup {t}
    /\ stage' = [stage EXCEPT ![c] = "auth"]
    /\ used' = [used EXCEPT ![c] = {t}]
    /\ room' = [room EXCEPT ![c] = r]
    /\ UNCHANGED <<clock, crashes, issued, presence, sweep, sign>>

\* verify throws: the connection is refused, and may try again with another token.
Refuse(c, t) ==
    /\ stage[c] = "new"
    /\ ~ Valid(t)
    /\ consumed' = Pruned
    /\ UNCHANGED <<clock, crashes, issued, stage, used, room, presence, sweep, sign>>

-----------------------------------------------------------------------------
(* Presence *)

Subject(c) == {issued[t].sub : t \in used[c]}

\* p is in room r as of now.
NoteHere(p, r) ==
    /\ presence' = [presence EXCEPT ![p] = {[room |-> r, beat |-> clock]}]
    /\ sign' = [sign EXCEPT ![p] = {[room |-> r, beat |-> clock]}]

\* onJoin up to the first await of noteRoomJoin
Join(c) ==
    /\ stage[c] = "auth"
    /\ stage' = [stage EXCEPT ![c] = "joining"]
    /\ \E p \in Subject(c) : NoteHere(p, room[c])
    /\ UNCHANGED <<clock, crashes, issued, consumed, used, room, sweep>>

\* The checkpoint is written and "joined" is sent; or that fails, and the connection is
\* closed without an onLeave.
EndJoin(c) ==
    /\ stage[c] = "joining"
    /\ \E s \in {"in", "gone"} : stage' = [stage EXCEPT ![c] = s]
    /\ UNCHANGED <<clock, crashes, issued, consumed, used, room, presence, sweep, sign>>

\* onLeave; a leave from another room than the player is known to be in removes nothing.
Leave(c) ==
    /\ stage[c] \in {"joining", "in"}
    /\ stage' = [stage EXCEPT ![c] = "gone"]
    /\ \E p \in Subject(c) :
        /\ presence' = [presence EXCEPT ![p] = {h \in @ : h.room # room[c]}]
        /\ sign' = [sign EXCEPT ![p] = {h \in @ : h.room # room[c]}]
    /\ UNCHANGED <<clock, crashes, issued, consumed, used, room, sweep>>

\* Fault: the two times of the entry are mixed up, and only the first heartbeat counts.
HeartbeatOfOld(p, r) ==
    /\ presence' = [presence EXCEPT ![p] =
           {[room |-> r, beat |-> b] : b \in IF @ = {} THEN {clock} ELSE {h.beat : h \in @}}]
    /\ sign' = [sign EXCEPT ![p] = {[room |-> r, beat |-> clock]}]
    /\ UNCHANGED <<clock, crashes, issued, consumed, stage, used, room, sweep>>

\* POST /api/session/heartbeat, with or without a connection
Heartbeat(p, r) ==
    /\ NoteHere(p, r)
    /\ UNCHANGED <<clock, crashes, issued, consumed, stage, used, room, sweep>>

IsRegionMember(p, region) == \E h \in presence[p] : h.room = region

-----------------------------------------------------------------------------
(* The sweep *)

Stale(at) == {p \in Players : \E h \in presence[p] : at - h.beat > HeartbeatTtl}

\* Fault: the loop ends at an entry that is not stale.
AdvanceToFresh(s, at) ==
    /\ \/ /\ Stale(at) = {} \/ \E p \in Players \ Stale(at) : presence[p] # {}
          /\ sweep' = [sweep EXCEPT ![s] = {}]
          /\ UNCHANGED presence
       \/ /\ \A p \in Players \ Stale(at) : presence[p] = {}
          /\ sweep' = [sweep EXCEPT ![s] = {at}]
          /\ \E p \in Stale(at) : presence' = [presence EXCEPT ![p] = {}]
    /\ UNCHANGED <<clock, crashes, issued, consumed, stage, used, room, sign>>

\* The loop goes on to the next stale entry, deletes it and awaits its telemetry, or ends.
\* An entry it has passed is not stale later, so that where it stands makes no difference.
Advance(s, at) ==
    /\ \/ /\ Stale(at) = {}
          /\ sweep' = [sweep EXCEPT ![s] = {}]
          /\ UNCHANGED presence
       \/ /\ sweep' = [sweep EXCEPT ![s] = {at}]
          /\ \E p \in Stale(at) : presence' = [presence EXCEPT ![p] = {}]
    /\ UNCHANGED <<clock, crashes, issued, consumed, stage, used, room, sign>>

\* The interval timer does not wait for the sweep it started before.
BeginSweep(s) == sweep[s] = {} /\ Advance(s, clock)

ResumeSweep(s) == \E at \in sweep[s] : Advance(s, at)

-----------------------------------------------------------------------------
Tick ==
    /\ clock < MaxClock
    /\ clock' = clock + 1
    /\ UNCHANGED <<crashes, issued, consumed, stage, used, room, presence, sweep, sign>>

\* The process ends and starts again: its connections are closed, tokens stay valid.
Crash ==
    /\ crashes < MaxCrashes
    /\ crashes' = crashes + 1
    /\ consumed' = {}
    /\ stage' = [c \in Connections |-> IF stage[c] = "new" THEN "new" ELSE "gone"]
    /\ used' = [c \in Connections |-> {}]
    /\ presence' = [p \in Players |-> {}]
    /\ sweep' = [s \in Sweeps |-> {}]
    /\ sign' = [p \in Players |-> {}]
    /\ UNCHANGED <<clock, issued, room>>

Init ==
    /\ clock = 0
    /\ crashes = 0
    /\ issued = [t \in Tokens |-> [sub |-> Nobody, exp |-> 0]]
    /\ consumed = {}
    /\ stage = [c \in Connections |-> "new"]
    /\ used = [c \in Connections |-> {}]
    /\ room \in [Connections -> Instances]
    /\ presence = [p \in Players |-> {}]
    /\ sweep = [s \in Sweeps |-> {}]
    /\ sign = [p \in Players |-> {}]

Next ==
    \/ \E t \in Tokens, p \in Players : IssueToken(t, p)
    \/ \E c \in Connections, t \in Tokens, r \in Instances : Authenticate(c, t, r)
    \/ \E c \in Connections, t \in Tokens : Refuse(c, t)
    \/ \E c \in Connections : Join(c) \/ EndJoin(c) \/ Leave(c)
    \/ \E p \in Players, r \in Claims : Heartbeat(p, r)
    \/ \E s \in Sweeps : BeginSweep(s) \/ ResumeSweep(s)
    \/ Tick
    \/ Crash

\* The timer goes on firing and telemetry settles; nothing else is promised.
Fairness == \A s \in Sweeps : WF_vars(BeginSweep(s)) /\ WF_vars(ResumeSweep(s))

Spec == Init /\ [][Next]_vars /\ Fairness

-----------------------------------------------------------------------------
(* Properties *)

\* Every variable has its type, and only issued tokens are known.
TypeOK ==
    /\ clock \in Nat
    /\ crashes \in Nat
    /\ issued \in [Tokens -> [sub : Players \cup {Nobody}, exp : Nat]]
    /\ consumed \subseteq {t \in Tokens : issued[t].sub # Nobody}
    /\ stage \in [Connections -> Stages]
    /\ used \in [Connections -> SUBSET {t \in Tokens : issued[t].sub # Nobody}]
    /\ room \in [Connections -> Instances]
    /\ presence \in [Players -> SUBSET Here]
    /\ sweep \in [Sweeps -> SUBSET Nat]
    /\ sign \in [Players -> SUBSET Here]

\* A join token admits one connection, whenever its id is pruned from the replay map; by
\* the second, while the clock runs in between.
TokenAdmitsOnce ==
    \A c, d \in Connections : c # d => used[c] \cap used[d] = {}

\* A player whose last sign of life is not older than the TTL is a member of the region it
\* named, unless a connection of the player left that room since: no sweep, however long it has
\* been under way and however many there are, throws out a player who is alive.
AliveIsMember ==
    \A p \in Players : \A h \in sign[p] :
        clock - h.beat <= HeartbeatTtl => IsRegionMember(p, h.room)

\* The entry of a player who is silent goes away, whoever else keeps beating.
SilentIsForgotten ==
    \A p \in Players : p \in Stale(clock) ~> p \notin Stale(clock)
=============================================================================
