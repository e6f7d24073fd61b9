-------------------------- MODULE SessionLifecycle --------------------------
(***************************************************************************)
(* One Session object of the proxy (packages/proxy/src/session.ts), its    *)
(* entry in the session store, and the socket of the protocol handler it   *)
(* owns (tn5250/connection.ts; the TN3270, VT and HP6530 connections have  *)
(* the same connect / disconnect / cleanup).  Sessions share nothing but   *)
(* the store and a session id is never reused, so one session, from its    *)
(* creation to its removal and beyond, is the whole life of any session.   *)
(*                                                                         *)
(* A step is one callback of the event loop: everything the code does      *)
(* between two awaits happens at once.  Durations are abstracted: a timer  *)
(* that is armed may fire, and fairness says that it eventually does.      *)
(***************************************************************************)
EXTENDS Naturals

CONSTANTS
    MaxAttempts,  \* length of Session.RECONNECT_BACKOFF_MS
    MaxExits,     \* bound: graceful teardowns that wait for the host at once
    Endpoints     \* which of POST /reconnect and POST /session/authenticated
                  \* the clients call while the session is in the store

ASSUME AttemptsAssumption == MaxAttempts \in Nat \ {0}
ASSUME ExitsAssumption == MaxExits \in Nat \ {0}
ASSUME EndpointsAssumption == Endpoints \subseteq {"reconnect", "mark"}

VARIABLES
    entry,        \* "new", "stored" (the id resolves), "removed" (store.delete)
    status,       \* _status: connected flag, status word, whether an error is kept
    auto,         \* _autoReconnect
    intentional,  \* _intentionalClose
    destroyed,    \* _destroyed
    timers,       \* which of _idleTimer, _connectWatchdog, _lostReap are armed
    loop,         \* the auto-reconnect loop; _reconnecting is loop # "idle"
    attempt,      \* attempts that loop has begun
    socket,       \* the connection: none, connect() pending, or connected
    exits,        \* gracefulDestroy() calls awaiting attemptGracefulExit()
    signing,      \* a sign-on started on a connected session is in flight
    announced     \* the last event emitted on sessionLifecycle for this session

vars == <<entry, status, auto, intentional, destroyed, timers, loop, attempt,
          socket, exits, signing, announced>>

StatusWords == {"disconnected", "connecting", "connected", "authenticated", "error"}
Timers == {"idle", "watchdog", "lostReap"}
\* "hung": the loop awaits a connect promise that nothing will ever settle
LoopStates == {"idle", "sleeping", "connecting", "hung"}
Announcements == {"none", "reconnecting", "reconnected", "lost"}

ConnectionStatus == [connected: BOOLEAN, status: StatusWords, error: BOOLEAN]
Status(c, s, e) == [connected |-> c, status |-> s, error |-> e]

(* Types of all the variables. *)
TypeOK ==
    /\ entry \in {"new", "stored", "removed"}
    /\ status \in ConnectionStatus
    /\ auto \in BOOLEAN /\ intentional \in BOOLEAN /\ destroyed \in BOOLEAN
    /\ timers \in SUBSET Timers
    /\ loop \in LoopStates
    /\ attempt \in 0..MaxAttempts
    /\ socket \in {"none", "dialing", "open"}
    /\ exits \in 0..MaxExits
    /\ signing \in BOOLEAN
    /\ announced \in Announcements

Init ==
    /\ entry = "new"
    /\ status = Status(FALSE, "disconnected", FALSE)
    /\ auto = FALSE /\ intentional = FALSE /\ destroyed = FALSE
    /\ timers = {}
    /\ loop = "idle" /\ attempt = 0
    /\ socket = "none" /\ exits = 0 /\ signing = FALSE
    /\ announced = "none"

-----------------------------------------------------------------------------
(* Pieces of several handlers. *)

\* connection.disconnect() and cleanup() drop every listener of the socket: a
\* connect() that was pending neither resolves nor rejects, and 'disconnected'
\* is not emitted.  Whoever awaited that promise stays suspended.
LoopAfterHangUp == IF loop = "connecting" THEN "hung" ELSE loop

\* Session.connect() up to its await
StartConnect(wantsAuto) ==
    /\ auto' = wantsAuto
    /\ intentional' = FALSE
    /\ status' = Status(FALSE, "connecting", FALSE)
    /\ socket' = "dialing"
    /\ loop' = LoopAfterHangUp

\* Faulty variants of the definition that follows each of them are named
\* Faulty...: they are what the mutation checks put in its place.

FaultyTimersNoReaper(ts) == ts
FaultyTimersAlways(ts) == ts \cup {"lostReap"}

\* The timers reportLost() leaves: a torn-down session arms no reaper
TimersAfterLost(ts) == IF destroyed THEN ts ELSE ts \cup {"lostReap"}

FaultyBeginSilently == loop' = "sleeping" /\ attempt' = 0 /\ UNCHANGED announced

\* _attemptAutoReconnect() up to its first backoff
BeginRecovery == loop' = "sleeping" /\ attempt' = 0 /\ announced' = "reconnecting"

\* handler.destroy(), removeAllListeners() and store.delete()
Remove ==
    /\ entry' = "removed"
    /\ socket' = "none"
    /\ loop' = LoopAfterHangUp

\* destroySession()
DestroyStored ==
    /\ entry = "stored"
    /\ intentional' = TRUE /\ destroyed' = TRUE
    /\ timers' = {}
    /\ Remove
    /\ UNCHANGED <<status, auto, attempt, exits, signing, announced>>

\* gracefullyDestroySession(): the SIGNOFF is typed, and its answer awaited,
\* only on an authenticated session whose connection is up and whose screen
\* is a command line; otherwise everything happens at once.
GracefullyDestroyStored ==
    /\ entry = "stored"
    /\ intentional' = TRUE /\ destroyed' = TRUE
    /\ timers' = {}
    /\ \/ /\ status.status = "authenticated" /\ socket = "open"
          /\ exits < MaxExits
          /\ exits' = exits + 1
          /\ UNCHANGED <<entry, socket, loop>>
       \/ Remove /\ UNCHANGED exits
    /\ UNCHANGED <<status, auto, attempt, signing, announced>>

-----------------------------------------------------------------------------
(* The callers: REST and WebSocket handlers. *)

FaultyCreateUnwatched(wantsAuto) ==
    /\ entry = "new"
    /\ entry' = "stored"
    /\ StartConnect(wantsAuto)
    /\ UNCHANGED <<timers, destroyed, attempt, exits, signing, announced>>

\* freshConnectSession(): createSession() and the synchronous part of connect()
CreateAndConnect(wantsAuto) ==
    /\ entry = "new"
    /\ entry' = "stored"
    /\ StartConnect(wantsAuto)
    /\ timers' = {"watchdog"}
    /\ UNCHANGED <<destroyed, attempt, exits, signing, announced>>

\* POST /reconnect: disconnect(), then connect() with the same options
Reconnect ==
    /\ "reconnect" \in Endpoints
    /\ entry = "stored"
    /\ StartConnect(auto)
    /\ timers' = {"watchdog"}
    /\ UNCHANGED <<entry, destroyed, attempt, exits, signing, announced>>

\* POST /disconnect {signOff: false} and the replaced session of a WS client
Destroy == DestroyStored

\* POST /disconnect, /disconnect-all, /disconnect-beacon, a replaced session
GracefulDestroy == GracefullyDestroyStored

\* attemptGracefulExit() returned: the host answered the SIGNOFF, or 1.5 s passed
GracefulExitEnds ==
    /\ exits > 0
    /\ exits' = exits - 1
    /\ Remove
    /\ UNCHANGED <<status, auto, intentional, destroyed, timers, attempt, signing, announced>>

\* ensureSignedOn() on a connected session, or an integrator's own cascade
SignOnStarts ==
    /\ entry = "stored"
    /\ status.connected /\ status.status # "authenticated"
    /\ signing' = TRUE
    /\ UNCHANGED <<entry, status, auto, intentional, destroyed, timers, loop,
                   attempt, socket, exits, announced>>

\* The sign-on answers; markAuthenticated() looks at nothing but the verdict
SignOnEnds(authenticated) ==
    /\ signing
    /\ signing' = FALSE
    /\ status' = IF authenticated THEN [status EXCEPT !.status = "authenticated"] ELSE status
    /\ UNCHANGED <<entry, auto, intentional, destroyed, timers, loop, attempt,
                   socket, exits, announced>>

\* POST /session/authenticated, at any moment
MarkAuthenticated ==
    /\ "mark" \in Endpoints
    /\ entry = "stored"
    /\ status' = [status EXCEPT !.status = "authenticated"]
    /\ UNCHANGED <<entry, auto, intentional, destroyed, timers, loop, attempt,
                   socket, exits, signing, announced>>

-----------------------------------------------------------------------------
(* The host connection. *)

\* The pending connect() resolves and its awaiter goes on: the loop
LoopDialSucceeds ==
    /\ socket = "dialing" /\ loop = "connecting"
    /\ loop' = "idle"
    /\ IF intentional
       THEN /\ socket' = "none"
            /\ UNCHANGED <<status, timers, announced>>
       ELSE /\ socket' = "open"
            /\ status' = Status(TRUE, "connected", FALSE)
            /\ timers' = (timers \ {"lostReap"}) \cup {"idle"}
            /\ announced' = "reconnected"
    /\ UNCHANGED <<entry, auto, intentional, destroyed, attempt, exits, signing>>

\* ... or the caller of Session.connect()
CallerDialSucceeds ==
    /\ socket = "dialing" /\ loop # "connecting"
    /\ socket' = "open"
    /\ status' = Status(TRUE, "connected", FALSE)
    /\ timers' = (timers \ {"watchdog"}) \cup {"idle"}
    /\ UNCHANGED <<entry, auto, intentional, destroyed, loop, attempt, exits,
                   signing, announced>>

FaultyDialFailsForEver ==
    /\ socket = "dialing"
    /\ socket' = "none"
    /\ loop' = IF loop = "connecting" THEN "sleeping" ELSE loop
    /\ UNCHANGED <<entry, status, auto, intentional, destroyed, timers, attempt,
                   exits, signing, announced>>

FaultyDialFailsAndStops ==
    /\ socket = "dialing"
    /\ socket' = "none"
    /\ loop' = IF loop = "connecting" THEN "idle" ELSE loop
    /\ UNCHANGED <<entry, status, auto, intentional, destroyed, timers, attempt,
                   exits, signing, announced>>

\* The connect() is refused or times out: the caller's rejects and leaves the
\* session to the watchdog; the loop's goes on to the next attempt
DialFails ==
    /\ socket = "dialing"
    /\ loop = "connecting" => attempt < MaxAttempts
    /\ socket' = "none"
    /\ loop' = IF loop = "connecting" THEN "sleeping" ELSE loop
    /\ UNCHANGED <<entry, status, auto, intentional, destroyed, timers, attempt,
                   exits, signing, announced>>

\* The last attempt fails: give up and report lost
LoopGivesUp ==
    /\ socket = "dialing" /\ loop = "connecting" /\ attempt = MaxAttempts
    /\ socket' = "none"
    /\ loop' = "idle"
    /\ status' = Status(FALSE, "disconnected", TRUE)
    /\ timers' = TimersAfterLost(timers)
    /\ announced' = "lost"
    /\ UNCHANGED <<entry, auto, intentional, destroyed, attempt, exits, signing>>

\* The socket closes without an error: 'disconnected' reaches the session
HostDrops ==
    /\ entry = "stored" /\ socket = "open"
    /\ socket' = "none"
    /\ status' = Status(FALSE, "disconnected", status.status = "error" /\ status.error)
    /\ IF auto /\ ~intentional
       THEN /\ timers' = timers \ {"idle"}
            /\ IF loop = "idle"
               THEN BeginRecovery
               ELSE UNCHANGED <<loop, attempt, announced>>
       ELSE /\ timers' = TimersAfterLost(timers \ {"idle"})
            /\ announced' = "lost"
            /\ UNCHANGED <<loop, attempt>>
    /\ UNCHANGED <<entry, auto, intentional, destroyed, exits, signing>>

FaultyErrorKeepsSocket(fatal) ==
    /\ entry = "stored" /\ socket = "open"
    /\ intentional' = (intentional \/ fatal)
    /\ status' = Status(FALSE, "error", TRUE)
    /\ IF auto /\ ~intentional'
       THEN UNCHANGED <<timers, announced>>
       ELSE timers' = TimersAfterLost(timers) /\ announced' = "lost"
    /\ UNCHANGED <<entry, auto, destroyed, loop, attempt, socket, exits, signing>>

\* The socket fails, times out, or a record cannot be parsed: 'error' reaches
\* the session, which closes the socket itself (no 'disconnected' follows).
\* fatal: the host refused the device name
HostErrors(fatal) ==
    /\ entry = "stored" /\ socket = "open"
    /\ socket' = "none"
    /\ intentional' = (intentional \/ fatal)
    /\ status' = Status(FALSE, "error", TRUE)
    /\ IF auto /\ ~intentional'
       THEN UNCHANGED <<timers, announced>>
       ELSE timers' = TimersAfterLost(timers) /\ announced' = "lost"
    /\ UNCHANGED <<entry, auto, destroyed, loop, attempt, exits, signing>>

\* A socket that outlived its session: nobody listens any more
UnwatchedSocketCloses ==
    /\ entry = "removed" /\ socket = "open"
    /\ socket' = "none"
    /\ UNCHANGED <<entry, status, auto, intentional, destroyed, timers, loop,
                   attempt, exits, signing, announced>>

-----------------------------------------------------------------------------
(* The timers. *)

\* The auto-reconnect loop's backoff ends
LoopStandsDown ==
    /\ loop = "sleeping" /\ intentional
    /\ loop' = "idle"
    /\ UNCHANGED <<entry, status, auto, intentional, destroyed, timers, attempt,
                   socket, exits, signing, announced>>

FaultyLoopWakesAnyway ==
    /\ loop = "sleeping"
    /\ loop' = "connecting"
    /\ attempt' = attempt + 1
    /\ status' = Status(FALSE, "connecting", FALSE)
    /\ socket' = "dialing"
    /\ UNCHANGED <<entry, auto, intentional, destroyed, timers, exits, signing, announced>>

LoopWakes ==
    /\ loop = "sleeping" /\ ~intentional
    /\ loop' = "connecting"
    /\ attempt' = attempt + 1
    /\ status' = Status(FALSE, "connecting", FALSE)
    /\ socket' = "dialing"
    /\ UNCHANGED <<entry, auto, intentional, destroyed, timers, exits, signing, announced>>

WatchdogFires ==
    /\ "watchdog" \in timers
    /\ IF status.status = "connecting" /\ entry = "stored"
       THEN DestroyStored
       ELSE /\ timers' = timers \ {"watchdog"}
            /\ UNCHANGED <<entry, status, auto, intentional, destroyed, loop,
                           attempt, socket, exits, signing, announced>>

LostReapFires ==
    /\ "lostReap" \in timers
    /\ IF ~status.connected /\ entry = "stored"
       THEN DestroyStored
       ELSE /\ timers' = timers \ {"lostReap"}
            /\ UNCHANGED <<entry, status, auto, intentional, destroyed, loop,
                           attempt, socket, exits, signing, announced>>

\* 30 minutes without activity
IdleFires ==
    /\ "idle" \in timers
    /\ GracefullyDestroyStored

DialSettles == LoopDialSucceeds \/ CallerDialSucceeds \/ DialFails \/ LoopGivesUp
BackoffEnds == LoopStandsDown \/ LoopWakes

Next ==
    \/ \E wantsAuto \in BOOLEAN : CreateAndConnect(wantsAuto)
    \/ Reconnect
    \/ Destroy
    \/ GracefulDestroy
    \/ GracefulExitEnds
    \/ SignOnStarts
    \/ \E authenticated \in BOOLEAN : SignOnEnds(authenticated)
    \/ MarkAuthenticated
    \/ LoopDialSucceeds \/ CallerDialSucceeds \/ DialFails \/ LoopGivesUp
    \/ HostDrops
    \/ \E fatal \in BOOLEAN : HostErrors(fatal)
    \/ UnwatchedSocketCloses
    \/ LoopStandsDown \/ LoopWakes
    \/ WatchdogFires \/ LostReapFires \/ IdleFires

Spec == Init /\ [][Next]_vars

(***************************************************************************)
(* Fairness: a pending connect settles (socket.setTimeout bounds it), an   *)
(* armed one-shot timer fires, a graceful exit ends (its own timeout).     *)
(* None for the host's drops and errors, the callers' requests, or the     *)
(* idle timer: any request touches the session and puts it off for ever.   *)
(***************************************************************************)
Fairness ==
    /\ WF_vars(DialSettles)
    /\ WF_vars(BackoffEnds)
    /\ WF_vars(WatchdogFires)
    /\ WF_vars(LostReapFires)
    /\ WF_vars(GracefulExitEnds)

FairSpec == Spec /\ Fairness

-----------------------------------------------------------------------------
(* Safety. *)

(* What the session tells its callers about its connection is the truth:   *)
(* the loop, a caller's reconnect, the host and the teardown all write     *)
(* _status, and none may leave "connected" on a dead socket, or a live     *)
(* socket under any other status (which /screen would then refuse).        *)
StatusMatchesSocket == entry = "stored" => (status.connected <=> socket = "open")

\* Something will still act on a session that is in the store
Supervised ==
    \/ "idle" \in timers
    \/ "watchdog" \in timers /\ status.status = "connecting"
    \/ "lostReap" \in timers /\ ~status.connected
    \/ loop \in {"sleeping", "connecting"} /\ ~intentional
    \/ exits > 0

(* No session is forgotten: as long as it is in the store, an idle timer,  *)
(* the connect watchdog, the lost reaper, the reconnect loop or a graceful *)
(* exit is responsible for it, and in a state in which it will act.  (What *)
(* session.ts calls sitting in the store as 'connecting' for six days.)    *)
NothingForgotten == entry = "stored" => Supervised

(* With the endpoints that take part, the only sessions ever forgotten are *)
(* those whose recovery loop was left waiting for a connect that a caller  *)
(* replaced, and those marked authenticated while nothing is connected.    *)
ForgottenOnlyIfHungOrMismarked ==
    entry = "stored" /\ ~Supervised =>
        loop = "hung" \/ (status.status = "authenticated" /\ ~status.connected)

(* The lost reaper runs only over a session that is really given up: no    *)
(* socket, no connect pending, no recovery that would still act, and no    *)
(* teardown that is removing it already.                                   *)
LostIsGivenUp ==
    "lostReap" \in timers =>
        /\ ~status.connected /\ socket = "none" /\ ~destroyed
        /\ loop \notin {"sleeping", "connecting"} \/ intentional

(* A removed session is inert: it holds no socket to the host, arms no     *)
(* timer, and its recovery loop will not open another.                     *)
RemovedIsInert ==
    entry = "removed" =>
        /\ socket = "none" /\ timers = {}
        /\ loop = "sleeping" => intentional

(* A watcher is told session.reconnected only when it was told before that *)
(* the proxy is reconnecting and not, since then, that the session is lost *)
ReconnectedFollowsReconnecting ==
    [][announced' = "reconnected" => announced \in {"reconnecting", "reconnected"}]_announced

-----------------------------------------------------------------------------
(* Liveness. *)

(* A recovery that was announced concludes: session.reconnected or         *)
(* session.lost follows, or the session is removed.                        *)
RecoveryConcludes ==
    announced = "reconnecting" ~> (announced # "reconnecting" \/ entry = "removed")

\* An auto-reconnect session that is in error and was not closed on purpose
InterruptedByError == auto /\ ~intentional /\ status.error /\ announced # "lost"

(* A session that is not connected does not stay so: it connects or leaves *)
(* the store, without any client doing anything.  (Except one in error     *)
(* that is to reconnect by itself: see ErrorLeadsToRecovery.)              *)
UnconnectedResolves ==
    (entry = "stored" /\ ~status.connected /\ ~InterruptedByError)
        ~> (status.connected \/ entry = "removed")

(* The error of an auto-reconnect session leads to its recovery, or to its *)
(* end: session.ts lets "the ensuing disconnect drive recovery".           *)
ErrorLeadsToRecovery ==
    (entry = "stored" /\ InterruptedByError)
        ~> (status.connected \/ loop # "idle" \/ announced = "lost" \/ entry = "removed")

(* Whatever takes the connection away, the session is not left hanging:    *)
(* what was announced concludes, and what was not announced resolves.      *)
EveryLossResolves == RecoveryConcludes /\ UnconnectedResolves
=============================================================================
