--------------------------- MODULE ClientSession ---------------------------
(****************************************************************************)
(* The client: startBrowserApp from the first token to the room, and the    *)
(* authorized calls of the library (bootstrap, join token, heartbeat,       *)
(* reconnect), which share one ExternalIdSessionStateMachine and with it    *)
(* one count of unauthorized retries.  A reconnect that is answered brings  *)
(* a replay, see RegionReplay.                                              *)
(*                                                                          *)
(* A step is what happens between two awaits.  The browser app makes the    *)
(* first two calls itself; the other two are for the application around     *)
(* the library, and may overlap.  An interactive sign-in navigates the page *)
(* away, sooner or later, or fails.                                         *)
(****************************************************************************)
EXTENDS RegionReplay

VARIABLES
    retries,    \* unauthorizedRetryCount
    pc,         \* Calls -> where the call is
    step,       \* where startBrowserApp is
    status,     \* BrowserAppState.status
    roomJoined, \* BrowserAppState.roomJoined
    room,       \* the room connection: none, open or closed
    page,       \* open, redirecting or left
    repeats     \* history: requests sent again after a 401

sessionVars == <<retries, pc, step, status, roomJoined, room, page, repeats>>
vars == <<replayAll, sessionVars>>

StartupCalls == {"bootstrap", "join-token"}
LibraryCalls == {"heartbeat", "reconnect"}
Calls == StartupCalls \cup LibraryCalls
MaxUnauthorizedRetry == 1

\* What a call waits for, and how it ends.
CallStates == {"idle", "acquiring", "requested", "reacquiring", "repeated", "done", "failed"}

-----------------------------------------------------------------------------
(* An authorized call *)

Set(k, s) == pc' = [pc EXCEPT ![k] = s]

\* beginInteractiveAuth, and the call throws
Interactive(k) == Set(k, "failed") /\ page' = "redirecting"

\* acquireTokenReadyState: without an account it does not even ask.
Begin(k) ==
    \/ Set(k, "acquiring") /\ UNCHANGED page
    \/ Interactive(k)

\* acquireTokenSilent of the first attempt settles.
Acquired(k) ==
    /\ pc[k] = "acquiring"
    /\ \/ Set(k, "requested") /\ UNCHANGED page
       \/ Set(k, "failed") /\ UNCHANGED page
       \/ Interactive(k)
    /\ UNCHANGED <<replayAll, retries, step, status, roomJoined, room, repeats>>

\* An answer other than 401; that of a reconnect ends the server's part.
Answered(k) ==
    /\ pc[k] \in {"requested", "repeated"}
    /\ \/ /\ Set(k, "done")
          /\ IF k = "reconnect" THEN Apply ELSE UNCHANGED replayAll
       \/ /\ Set(k, "failed")
          /\ IF k = "reconnect" /\ phase # "idle" THEN Fail ELSE UNCHANGED replayAll
    /\ UNCHANGED <<retries, step, status, roomJoined, room, page, repeats>>

\* The server refuses the access token, or the reconnect token: it has read nothing yet.
Untouched(k) == k = "reconnect" => phase = "idle"

\* Fault: a retry is counted only when it is refused.
UnauthorizedUncounted(k) ==
    /\ pc[k] = "requested" /\ Untouched(k)
    /\ \/ /\ retries < MaxUnauthorizedRetry
          /\ Set(k, "reacquiring") /\ UNCHANGED <<retries, page>>
       \/ /\ retries >= MaxUnauthorizedRetry
          /\ retries' = retries + 1 /\ Interactive(k)
    /\ UNCHANGED <<replayAll, step, status, roomJoined, room, repeats>>

\* A 401, and handleBootstrapUnauthorizedReacquire up to its await: one retry is counted
\* and asks for a token, for a second one there is only the interactive sign-in.
Unauthorized(k) ==
    /\ pc[k] = "requested" /\ Untouched(k)
    /\ \/ /\ retries < MaxUnauthorizedRetry
          /\ retries' = retries + 1
          /\ (Set(k, "reacquiring") /\ UNCHANGED page) \/ Interactive(k)
       \/ /\ retries >= MaxUnauthorizedRetry
          /\ Interactive(k) /\ UNCHANGED retries
    /\ UNCHANGED <<replayAll, step, status, roomJoined, room, repeats>>

\* The second token settles, and the request is sent again.
Reacquired(k) ==
    /\ pc[k] = "reacquiring"
    /\ \/ Set(k, "repeated") /\ repeats' = repeats + 1 /\ UNCHANGED page
       \/ Interactive(k) /\ UNCHANGED repeats
    /\ UNCHANGED <<replayAll, retries, step, status, roomJoined, room>>

CallStep(k) == Acquired(k) \/ Answered(k) \/ Unauthorized(k) \/ Reacquired(k)

\* resolveReconnect works on a request that has passed the token check.
ServerStep ==
    /\ pc["reconnect"] \in {"requested", "repeated"}
    /\ ReadVersion \/ ReadDeltas \/ Confirm
    /\ UNCHANGED sessionVars

-----------------------------------------------------------------------------
(* startBrowserApp *)

Stop == step' = "stopped" /\ status' = "error"

\* Configuration, redirect result and first token; completeBootstrap when it is there.
Start ==
    /\ step = "acquire"
    /\ \/ /\ step' = "probe" /\ status' = "bootstrapping"
          /\ retries' = 0 /\ repeats' = 0
          /\ UNCHANGED page
       \/ Stop /\ UNCHANGED <<retries, repeats, page>>
       \/ Stop /\ page' = "redirecting" /\ UNCHANGED <<retries, repeats>>
    /\ UNCHANGED <<replayAll, pc, roomJoined, room>>

\* probeApi and fetchSessionBootstrap, which does not retry
Fetch ==
    /\ \/ /\ step = "probe"
          /\ (step' = "fetch" /\ UNCHANGED status) \/ Stop
       \/ /\ step = "fetch"
          /\ (step' = "bootstrap" /\ UNCHANGED status) \/ Stop
    /\ UNCHANGED <<replayAll, retries, pc, roomJoined, room, page, repeats>>

\* The two calls of the startup are made one after the other.
StartCall(k) ==
    /\ step = k /\ pc[k] = "idle"
    /\ Begin(k)
    /\ UNCHANGED <<replayAll, retries, step, status, roomJoined, room, repeats>>

\* Fault: the error of a call is not caught.
EndCallUncaught(k) ==
    /\ step = k
    /\ \/ /\ pc[k] = "done" /\ k = "bootstrap"
          /\ step' = "join-token" /\ UNCHANGED status
       \/ /\ pc[k] = "done" /\ k = "join-token"
          /\ step' = "join" /\ status' = "joining-room"
       \/ /\ pc[k] = "failed"
          /\ step' = "stopped" /\ UNCHANGED status
    /\ UNCHANGED <<replayAll, retries, pc, roomJoined, room, page, repeats>>

EndCall(k) ==
    /\ step = k
    /\ \/ /\ pc[k] = "done" /\ k = "bootstrap"
          /\ step' = "join-token" /\ UNCHANGED status
       \/ /\ pc[k] = "done" /\ k = "join-token"
          /\ step' = "join" /\ status' = "joining-room"
       \/ pc[k] = "failed" /\ Stop
    /\ UNCHANGED <<replayAll, retries, pc, roomJoined, room, page, repeats>>

\* joinArenaRoom; the "joined" message that follows says the same again.
JoinRoom ==
    /\ step = "join"
    /\ \/ step' = "running" /\ status' = "ready" /\ roomJoined' = TRUE /\ room' = "open"
       \/ Stop /\ UNCHANGED <<roomJoined, room>>
    /\ UNCHANGED <<replayAll, retries, pc, page, repeats>>

\* Fault: the room that was left is still shown as joined.
RoomLeaveStays ==
    /\ room = "open"
    /\ room' = "closed"
    /\ status' = "error"
    /\ UNCHANGED <<replayAll, retries, pc, step, roomJoined, page, repeats>>

\* onRoomLeave
RoomLeave ==
    /\ room = "open"
    /\ room' = "closed"
    /\ roomJoined' = FALSE
    /\ status' = "error"
    /\ UNCHANGED <<replayAll, retries, pc, step, page, repeats>>

-----------------------------------------------------------------------------
\* The application around it makes a call; it awaits one of a kind before the next.
LibraryCall(k) ==
    /\ step = "running"
    /\ pc[k] \in {"idle", "done", "failed"}
    /\ Begin(k)
    /\ UNCHANGED <<replayAll, retries, step, status, roomJoined, room, repeats>>

\* The redirect takes the page away.
LeavePage ==
    /\ page = "redirecting"
    /\ page' = "left"
    /\ UNCHANGED <<replayAll, retries, pc, step, status, roomJoined, room, repeats>>

RegionWrite == Write /\ UNCHANGED sessionVars

Init ==
    /\ ReplayInit
    /\ retries = 0
    /\ pc = [k \in Calls |-> "idle"]
    /\ step = "acquire"
    /\ status = "auth-preflight"
    /\ roomJoined = FALSE
    /\ room = "none"
    /\ page = "open"
    /\ repeats = 0

\* What goes on by itself: answers arrive, and what awaits them continues.
Progress ==
    \/ \E k \in Calls : CallStep(k)
    \/ \E k \in StartupCalls : StartCall(k) \/ EndCall(k)
    \/ Start \/ Fetch \/ JoinRoom

Next ==
    \/ page # "left" /\ Progress
    \/ \E k \in LibraryCalls : page # "left" /\ LibraryCall(k)
    \/ page # "left" /\ RoomLeave
    \/ LeavePage
    \/ ServerStep
    \/ RegionWrite

\* Every request is answered or fails in the end; a page that redirects may stay or go.
Spec == Init /\ [][Next]_vars /\ WF_vars(page # "left" /\ Progress)

-----------------------------------------------------------------------------
(* Properties *)

\* Every variable has its type; the room is shown as joined while it is connected.
TypeOK ==
    /\ ReplayTypeOK
    /\ retries \in 0..MaxUnauthorizedRetry
    /\ pc \in [Calls -> CallStates]
    /\ step \in {"acquire", "probe", "fetch", "bootstrap", "join-token", "join", "running",
                 "stopped"}
    /\ status \in {"auth-preflight", "bootstrapping", "joining-room", "ready", "error"}
    /\ roomJoined = (room = "open")
    /\ room \in {"none", "open", "closed"}
    /\ page \in {"open", "redirecting", "left"}
    /\ repeats \in Nat

\* From one sign-in to the next a request is repeated once, over all calls, also when calls
\* that overlap are refused together: an expired session asks for interaction.
RepeatedOnce == repeats <= MaxUnauthorizedRetry

\* The startup comes to an end that the player is told of, or the page is left.
StartupEnds == <>(status \in {"ready", "error"} \/ page = "left")
=============================================================================
