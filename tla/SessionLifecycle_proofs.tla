----------------------- MODULE SessionLifecycle_proofs -----------------------
(***************************************************************************)
(* Theorems about SessionLifecycle for every number of reconnect attempts  *)
(* and of concurrent graceful exits.  The first part holds whatever the    *)
(* clients call; the second when they never call POST /reconnect nor       *)
(* POST /session/authenticated (Endpoints = {}): with those endpoints a    *)
(* session can be forgotten, or revived during its own teardown.           *)
(***************************************************************************)
EXTENDS SessionLifecycle, TLAPS

(* What the handlers rely on without checking it. *)
StructureInv ==
    \* nothing has happened before createSession()
    /\ entry = "new" => /\ socket = "none" /\ timers = {} /\ loop = "idle"
                        /\ exits = 0 /\ ~signing /\ ~status.connected /\ ~destroyed
    \* an awaited attempt of the loop is the pending connect()
    /\ loop = "connecting" => socket = "dialing"
    \* an attempt remains for a loop that waits for its next one
    /\ loop = "sleeping" => attempt < MaxAttempts
    \* only an auto-reconnect session ever has a loop
    /\ loop # "idle" => auto
    \* every teardown, finished or under way, has set _destroyed
    /\ (exits > 0 \/ entry = "removed") => destroyed

SafetyInv == TypeOK /\ StructureInv /\ StatusMatchesSocket /\ LostIsGivenUp

LEMMA InitSafety == Init => SafetyInv
<1> SUFFICES ASSUME Init PROVE SafetyInv
  OBVIOUS
<1> USE DEF Init
<1>1. TypeOK
  <2>1. status \in ConnectionStatus
    BY DEF ConnectionStatus, Status, StatusWords
  <2>2. auto \in BOOLEAN /\ intentional \in BOOLEAN /\ destroyed \in BOOLEAN /\ signing \in BOOLEAN
    OBVIOUS
  <2>3. attempt \in 0..MaxAttempts /\ exits \in 0..MaxExits
    BY AttemptsAssumption, ExitsAssumption DEF AttemptsAssumption, ExitsAssumption
  <2>4. timers \in SUBSET Timers
    OBVIOUS
  <2>5. entry \in {"new", "stored", "removed"} /\ socket \in {"none", "dialing", "open"}
        /\ loop \in LoopStates /\ announced \in Announcements
    BY DEF LoopStates, Announcements
  <2> QED
    BY <2>1, <2>2, <2>3, <2>4, <2>5 DEF TypeOK
<1>2. ~status.connected
  BY DEF Status
<1>3. StructureInv
  <2>1. ~signing /\ ~(exits > 0) /\ entry # "removed" /\ loop = "idle"
    OBVIOUS
  <2> QED
    BY <1>2, <2>1 DEF StructureInv
<1>4. StatusMatchesSocket
  BY DEF StatusMatchesSocket
<1>5. LostIsGivenUp
  BY DEF LostIsGivenUp
<1> QED
  BY <1>1, <1>3, <1>4, <1>5 DEF SafetyInv

LEMMA NextSafety == SafetyInv /\ [Next]_vars => SafetyInv'
<1> SUFFICES ASSUME SafetyInv, [Next]_vars PROVE SafetyInv'
  OBVIOUS
<1> USE AttemptsAssumption, ExitsAssumption
    DEF AttemptsAssumption, ExitsAssumption, SafetyInv, TypeOK, StructureInv,
        StatusMatchesSocket, LostIsGivenUp,
        ConnectionStatus, Status, StatusWords, Timers, LoopStates, Announcements
<1>1. ASSUME NEW wantsAuto \in BOOLEAN, CreateAndConnect(wantsAuto) PROVE SafetyInv'
  BY <1>1 DEF CreateAndConnect, StartConnect, LoopAfterHangUp
<1>2. CASE Reconnect
  BY <1>2 DEF Reconnect, StartConnect, LoopAfterHangUp
<1>3. ASSUME DestroyStored PROVE SafetyInv'
  BY <1>3 DEF DestroyStored, Remove, LoopAfterHangUp
<1>4. ASSUME GracefullyDestroyStored PROVE SafetyInv'
  BY <1>4 DEF GracefullyDestroyStored, Remove, LoopAfterHangUp
<1>5. CASE GracefulExitEnds
  BY <1>5 DEF GracefulExitEnds, Remove, LoopAfterHangUp
<1>6. CASE SignOnStarts
  BY <1>6 DEF SignOnStarts
<1>7. ASSUME NEW authenticated \in BOOLEAN, SignOnEnds(authenticated) PROVE SafetyInv'
  BY <1>7 DEF SignOnEnds
<1>8. CASE MarkAuthenticated
  BY <1>8 DEF MarkAuthenticated
<1>9. CASE LoopDialSucceeds
  <2>1. CASE intentional
    BY <1>9, <2>1 DEF LoopDialSucceeds
  <2>2. CASE ~intentional
    <3>1. TypeOK'
      <4>a. status' = [connected |-> TRUE, status |-> "connected", error |-> FALSE]
        BY <1>9, <2>2 DEF LoopDialSucceeds
      <4>1. status' \in ConnectionStatus
        BY <4>a
      <4>2. timers' \in SUBSET Timers
        BY <1>9, <2>2 DEF LoopDialSucceeds
      <4> QED
        BY <1>9, <2>2, <4>1, <4>2 DEF LoopDialSucceeds
    <3>2. StructureInv'
      BY <1>9, <2>2 DEF LoopDialSucceeds
    <3>3. StatusMatchesSocket' /\ LostIsGivenUp'
      BY <1>9, <2>2 DEF LoopDialSucceeds
    <3> QED
      BY <3>1, <3>2, <3>3
  <2> QED
    BY <2>1, <2>2
<1>10. CASE CallerDialSucceeds
  BY <1>10 DEF CallerDialSucceeds
<1>11. CASE DialFails
  BY <1>11 DEF DialFails
<1>12. CASE LoopGivesUp
  BY <1>12 DEF LoopGivesUp, TimersAfterLost
<1>13. CASE HostDrops
  <2>1. CASE auto /\ ~intentional /\ loop = "idle"
    <3>1. TypeOK'
      <4>1. status' \in ConnectionStatus
        BY <1>13 DEF HostDrops
      <4>2. timers' \in SUBSET Timers
        BY <1>13, <2>1 DEF HostDrops
      <4>3. attempt' \in 0..MaxAttempts /\ loop' \in LoopStates /\ announced' \in Announcements
        BY <1>13, <2>1 DEF HostDrops, BeginRecovery
      <4> QED
        BY <1>13, <4>1, <4>2, <4>3 DEF HostDrops
    <3>2. StructureInv'
      BY <1>13, <2>1 DEF HostDrops, BeginRecovery
    <3>3. StatusMatchesSocket' /\ LostIsGivenUp'
      BY <1>13, <2>1 DEF HostDrops, BeginRecovery
    <3> QED
      BY <3>1, <3>2, <3>3
  <2>2. CASE auto /\ ~intentional /\ loop # "idle"
    BY <1>13, <2>2 DEF HostDrops
  <2>3. CASE ~(auto /\ ~intentional)
    BY <1>13, <2>3 DEF HostDrops, TimersAfterLost
  <2> QED
    BY <2>1, <2>2, <2>3
<1>14. ASSUME NEW fatal \in BOOLEAN, HostErrors(fatal) PROVE SafetyInv'
  BY <1>14 DEF HostErrors, TimersAfterLost
<1>15. CASE UnwatchedSocketCloses
  BY <1>15 DEF UnwatchedSocketCloses
<1>16. CASE LoopStandsDown
  BY <1>16 DEF LoopStandsDown
<1>17. CASE LoopWakes
  BY <1>17 DEF LoopWakes
<1>18. CASE WatchdogFires
  <2>1. CASE status.status = "connecting" /\ entry = "stored"
    BY <1>3, <1>18, <2>1 DEF WatchdogFires
  <2>2. CASE ~(status.status = "connecting" /\ entry = "stored")
    BY <1>18, <2>2 DEF WatchdogFires
  <2> QED
    BY <2>1, <2>2
<1>19. CASE LostReapFires
  BY <1>3, <1>19 DEF LostReapFires
<1>20. CASE IdleFires
  BY <1>4, <1>20 DEF IdleFires
<1>21. CASE UNCHANGED vars
  BY <1>21 DEF vars
<1> QED
  BY <1>1, <1>2, <1>3, <1>4, <1>5, <1>6, <1>7, <1>8, <1>9, <1>10, <1>11, <1>12,
     <1>13, <1>14, <1>15, <1>16, <1>17, <1>18, <1>19, <1>20, <1>21
     DEF Next, Destroy, GracefulDestroy

LEMMA Safety == Spec => []SafetyInv
BY InitSafety, NextSafety, PTL DEF Spec

(* Every variable keeps its type; in particular the recovery loop never    *)
(* makes more attempts than its schedule has.                              *)
THEOREM TypeCorrect == Spec => []TypeOK
BY Safety, PTL DEF SafetyInv

(* The status a session reports agrees with its socket, whatever callers,  *)
(* host, loop and timers do, and in whatever order.                        *)
THEOREM StatusCorrect == Spec => []StatusMatchesSocket
BY Safety, PTL DEF SafetyInv

(* The lost reaper only ever runs over a session that was given up.        *)
THEOREM LostCorrect == Spec => []LostIsGivenUp
BY Safety, PTL DEF SafetyInv

-----------------------------------------------------------------------------
(* Whatever endpoints take part: who still watches a stored session that   *)
(* nobody is tearing down.                                                 *)
WatchInv ==
    /\ entry = "stored" /\ exits = 0 =>
          \* only a teardown sets _destroyed, so reportLost() arms its reaper
          /\ ~destroyed
          \* every connect() that succeeds arms the idle timer
          /\ socket = "open" => "idle" \in timers
          \* outside a teardown, only a refused device name closes on purpose
          /\ intentional => "lostReap" \in timers
    /\ ForgottenOnlyIfHungOrMismarked

WatchedInv == SafetyInv /\ WatchInv

LEMMA NextWatched == WatchedInv /\ [Next]_vars => WatchedInv'
<1> SUFFICES ASSUME WatchedInv, [Next]_vars PROVE WatchedInv'
  OBVIOUS
<1>1. SafetyInv /\ SafetyInv'
  BY NextSafety DEF WatchedInv
<1> SUFFICES WatchInv'
  BY <1>1 DEF WatchedInv
<1> USE <1>1, ExitsAssumption
    DEF ExitsAssumption, WatchedInv, SafetyInv, TypeOK, StructureInv, StatusMatchesSocket,
        LostIsGivenUp, WatchInv, ForgottenOnlyIfHungOrMismarked, Supervised,
        ConnectionStatus, Status, StatusWords, Timers, LoopStates
<1>2. ASSUME NEW wantsAuto \in BOOLEAN, CreateAndConnect(wantsAuto) PROVE WatchInv'
  BY <1>2 DEF CreateAndConnect, StartConnect, LoopAfterHangUp
<1>3. CASE Reconnect
  BY <1>3 DEF Reconnect, StartConnect, LoopAfterHangUp
<1>4. ASSUME DestroyStored PROVE WatchInv'
  BY <1>4 DEF DestroyStored, Remove, LoopAfterHangUp
<1>5. ASSUME GracefullyDestroyStored PROVE WatchInv'
  BY <1>5 DEF GracefullyDestroyStored, Remove, LoopAfterHangUp
<1>6. CASE GracefulExitEnds
  BY <1>6 DEF GracefulExitEnds, Remove, LoopAfterHangUp
<1>7. CASE SignOnStarts
  BY <1>7 DEF SignOnStarts
<1>8. ASSUME NEW authenticated \in BOOLEAN, SignOnEnds(authenticated) PROVE WatchInv'
  BY <1>8 DEF SignOnEnds
<1>9. CASE MarkAuthenticated
  BY <1>9 DEF MarkAuthenticated
<1>10. CASE LoopDialSucceeds
  BY <1>10 DEF LoopDialSucceeds
<1>11. CASE CallerDialSucceeds
  BY <1>11 DEF CallerDialSucceeds
<1>12. CASE DialFails
  BY <1>12 DEF DialFails
<1>13. CASE LoopGivesUp
  BY <1>13 DEF LoopGivesUp, TimersAfterLost
<1>14. CASE HostDrops
  BY <1>14 DEF HostDrops, TimersAfterLost, BeginRecovery
<1>15. ASSUME NEW fatal \in BOOLEAN, HostErrors(fatal) PROVE WatchInv'
  BY <1>15 DEF HostErrors, TimersAfterLost
<1>16. CASE UnwatchedSocketCloses
  BY <1>16 DEF UnwatchedSocketCloses
<1>17. CASE LoopStandsDown
  BY <1>17 DEF LoopStandsDown
<1>18. CASE LoopWakes
  BY <1>18 DEF LoopWakes
<1>19. CASE WatchdogFires
  BY <1>4, <1>19 DEF WatchdogFires
<1>20. CASE LostReapFires
  BY <1>4, <1>20 DEF LostReapFires
<1>21. CASE IdleFires
  BY <1>5, <1>21 DEF IdleFires
<1>22. CASE UNCHANGED vars
  BY <1>22 DEF vars
<1> QED
  BY <1>2, <1>3, <1>4, <1>5, <1>6, <1>7, <1>8, <1>9, <1>10, <1>11, <1>12,
     <1>13, <1>14, <1>15, <1>16, <1>17, <1>18, <1>19, <1>20, <1>21, <1>22
     DEF Next, Destroy, GracefulDestroy

(* Whatever the clients call, and in whatever order: a stored session that *)
(* nothing will act on any more has a recovery loop that a caller's        *)
(* reconnect left waiting for ever, or was marked authenticated while      *)
(* nothing was connected.                                                  *)
THEOREM ForgottenWhy == Spec => []ForgottenOnlyIfHungOrMismarked
<1>1. Init => WatchedInv
  <2> SUFFICES ASSUME Init PROVE WatchedInv
    OBVIOUS
  <2>1. SafetyInv
    BY InitSafety
  <2>2. entry # "stored"
    BY DEF Init
  <2> QED
    BY <2>1, <2>2 DEF WatchedInv, WatchInv, ForgottenOnlyIfHungOrMismarked
<1>2. WatchedInv => ForgottenOnlyIfHungOrMismarked
  BY DEF WatchedInv, WatchInv
<1> QED
  BY <1>1, NextWatched, <1>2, PTL DEF Spec

-----------------------------------------------------------------------------
(* Without POST /reconnect and POST /session/authenticated: who supervises *)
(* a stored session in each of its states.                                 *)
SupervisionInv ==
    \* the watchdog belongs to the first connect(), before anything else
    /\ "watchdog" \in timers =>
          /\ entry = "stored" /\ exits = 0 /\ socket # "open" /\ loop = "idle"
          /\ status.status = "connecting" /\ ~status.connected /\ ~signing
    \* a stored session that nobody is tearing down
    /\ entry = "stored" /\ exits = 0 =>
          /\ socket = "open" => "idle" \in timers /\ loop = "idle"
          /\ socket = "dialing" => loop = "connecting" \/ "watchdog" \in timers
          /\ loop # "idle" => ~intentional /\ loop \in {"sleeping", "connecting"}
          /\ ~destroyed
    \* a teardown under way, or done
    /\ exits > 0 => entry = "removed" \/ socket # "dialing"
    /\ (exits > 0 \/ entry = "removed") => intentional /\ timers = {}
    /\ entry = "removed" => socket = "none"

AloneInv == SafetyInv /\ SupervisionInv /\ NothingForgotten

LEMMA InitAlone == Init => AloneInv
<1> SUFFICES ASSUME Init PROVE AloneInv
  OBVIOUS
<1>1. SafetyInv
  BY InitSafety
<1>2. entry = "new" /\ timers = {} /\ ~(exits > 0)
  BY DEF Init
<1>3. SupervisionInv /\ NothingForgotten
  BY <1>2 DEF SupervisionInv, NothingForgotten
<1> QED
  BY <1>1, <1>3 DEF AloneInv

LEMMA NextAlone ==
    ASSUME Endpoints = {}, AloneInv, [Next]_vars
    PROVE  AloneInv'
<1>1. SafetyInv /\ SafetyInv'
  BY NextSafety DEF AloneInv
<1> SUFFICES SupervisionInv' /\ NothingForgotten'
  BY <1>1 DEF AloneInv
<1> USE <1>1, ExitsAssumption
    DEF ExitsAssumption, AloneInv, SafetyInv, TypeOK, StructureInv, StatusMatchesSocket,
        LostIsGivenUp, SupervisionInv, NothingForgotten, Supervised,
        ConnectionStatus, Status, StatusWords, Timers, LoopStates
<1> DEFINE Goal == SupervisionInv' /\ NothingForgotten'
<1>2. ASSUME NEW wantsAuto \in BOOLEAN, CreateAndConnect(wantsAuto) PROVE Goal
  <2>1. /\ entry = "new" /\ entry' = "stored" /\ timers' = {"watchdog"}
        /\ intentional' = FALSE /\ socket' = "dialing"
        /\ destroyed' = destroyed /\ exits' = exits /\ signing' = signing
    BY <1>2 DEF CreateAndConnect, StartConnect
  <2>2. status' = [connected |-> FALSE, status |-> "connecting", error |-> FALSE]
    BY <1>2 DEF CreateAndConnect, StartConnect
  <2>3. status'.status = "connecting" /\ ~status'.connected
    BY <2>2
  <2>4. loop' = "idle" /\ exits = 0 /\ ~signing /\ ~destroyed
    <3>1. entry = "new"
      BY <2>1
    <3>2. loop = "idle" /\ exits = 0 /\ ~signing /\ ~destroyed
      BY <3>1
    <3>3. loop' = LoopAfterHangUp
      BY <1>2 DEF CreateAndConnect, StartConnect
    <3> QED
      BY <3>2, <3>3 DEF LoopAfterHangUp
  <2>5. SupervisionInv'
    BY <2>1, <2>3, <2>4
  <2>6. NothingForgotten'
    BY <2>1, <2>3
  <2> QED
    BY <2>5, <2>6
<1>3. CASE Reconnect
  BY <1>3 DEF Reconnect
<1>4. ASSUME DestroyStored PROVE Goal
  BY <1>4 DEF DestroyStored, Remove, LoopAfterHangUp
<1>5. ASSUME GracefullyDestroyStored PROVE Goal
  BY <1>5 DEF GracefullyDestroyStored, Remove, LoopAfterHangUp
<1>6. CASE GracefulExitEnds
  BY <1>6 DEF GracefulExitEnds, Remove, LoopAfterHangUp
<1>7. CASE SignOnStarts
  BY <1>7 DEF SignOnStarts
<1>8. ASSUME NEW authenticated \in BOOLEAN, SignOnEnds(authenticated) PROVE Goal
  BY <1>8 DEF SignOnEnds
<1>9. CASE MarkAuthenticated
  BY <1>9 DEF MarkAuthenticated
<1>10. CASE LoopDialSucceeds
  BY <1>10 DEF LoopDialSucceeds
<1>11. CASE CallerDialSucceeds
  BY <1>11 DEF CallerDialSucceeds
<1>12. CASE DialFails
  BY <1>12 DEF DialFails
<1>13. CASE LoopGivesUp
  BY <1>13 DEF LoopGivesUp, TimersAfterLost
<1>14. CASE HostDrops
  BY <1>14 DEF HostDrops, TimersAfterLost, BeginRecovery
<1>15. ASSUME NEW fatal \in BOOLEAN, HostErrors(fatal) PROVE Goal
  BY <1>15 DEF HostErrors, TimersAfterLost
<1>16. CASE UnwatchedSocketCloses
  BY <1>16 DEF UnwatchedSocketCloses
<1>17. CASE LoopStandsDown
  BY <1>17 DEF LoopStandsDown
<1>18. CASE LoopWakes
  BY <1>18 DEF LoopWakes
<1>19. CASE WatchdogFires
  BY <1>4, <1>19 DEF WatchdogFires
<1>20. CASE LostReapFires
  BY <1>4, <1>20 DEF LostReapFires
<1>21. CASE IdleFires
  BY <1>5, <1>21 DEF IdleFires
<1>22. CASE UNCHANGED vars
  BY <1>22 DEF vars
<1> QED
  BY <1>2, <1>3, <1>4, <1>5, <1>6, <1>7, <1>8, <1>9, <1>10, <1>11, <1>12,
     <1>13, <1>14, <1>15, <1>16, <1>17, <1>18, <1>19, <1>20, <1>21, <1>22
     DEF Next, Destroy, GracefulDestroy

LEMMA AloneIsInvariant == ASSUME Endpoints = {} PROVE Spec => []AloneInv
<1>1. AloneInv /\ [Next]_vars => AloneInv'
  BY NextAlone
<1> QED
  BY InitAlone, <1>1, PTL DEF Spec

(* No stored session is ever forgotten when its clients only open, drive   *)
(* and close it: a timer, the recovery loop or a teardown will act on it.  *)
THEOREM NeverForgotten == ASSUME Endpoints = {} PROVE Spec => []NothingForgotten
<1>1. AloneInv => NothingForgotten
  BY DEF AloneInv
<1> QED
  BY AloneIsInvariant, <1>1, PTL

(* ... and a session that was removed holds no socket and arms no timer.   *)
THEOREM RemovedInert == ASSUME Endpoints = {} PROVE Spec => []RemovedIsInert
<1>1. AloneInv => RemovedIsInert
  BY DEF AloneInv, SupervisionInv, RemovedIsInert
<1> QED
  BY AloneIsInvariant, <1>1, PTL
-----------------------------------------------------------------------------
(* What the watchers of a session are told, without those endpoints.       *)

\* A recovery that may still succeed was announced, and is not reported lost
RecoveryIsAnnounced ==
    loop \in {"sleeping", "connecting"} /\ ~intentional => announced = "reconnecting"

AnnouncedInv == AloneInv /\ RecoveryIsAnnounced

LEMMA NextAnnounced ==
    ASSUME Endpoints = {}, AnnouncedInv, [Next]_vars
    PROVE  AnnouncedInv' /\ (announced' = "reconnected" => announced \in {"reconnecting", "reconnected"})
<1>1. AloneInv'
  BY NextAlone DEF AnnouncedInv
<1> DEFINE Goal == /\ RecoveryIsAnnounced'
                   /\ announced' = "reconnected" => announced \in {"reconnecting", "reconnected"}
<1> SUFFICES Goal
  BY <1>1 DEF AnnouncedInv
<1>a. /\ entry = "new" => loop = "idle" /\ announced \in Announcements
      /\ entry = "stored" /\ exits = 0 /\ socket = "open" => loop = "idle"
      /\ exits > 0 \/ entry = "removed" => intentional
      /\ exits \in Nat
      /\ RecoveryIsAnnounced
  BY ExitsAssumption DEF AnnouncedInv, AloneInv, SafetyInv, TypeOK, StructureInv, SupervisionInv,
                         ExitsAssumption
<1> USE <1>a DEF RecoveryIsAnnounced
<1>2. ASSUME NEW wantsAuto \in BOOLEAN, CreateAndConnect(wantsAuto) PROVE Goal
  BY <1>2 DEF CreateAndConnect, StartConnect, LoopAfterHangUp
<1>3. CASE Reconnect
  BY <1>3 DEF Reconnect
<1>4. ASSUME DestroyStored PROVE Goal
  BY <1>4 DEF DestroyStored, Remove, LoopAfterHangUp
<1>5. ASSUME GracefullyDestroyStored PROVE Goal
  BY <1>5 DEF GracefullyDestroyStored, Remove, LoopAfterHangUp
<1>6. CASE GracefulExitEnds
  BY <1>6 DEF GracefulExitEnds, Remove, LoopAfterHangUp
<1>7. CASE SignOnStarts
  BY <1>7 DEF SignOnStarts
<1>8. ASSUME NEW authenticated \in BOOLEAN, SignOnEnds(authenticated) PROVE Goal
  BY <1>8 DEF SignOnEnds
<1>9. CASE MarkAuthenticated
  BY <1>9 DEF MarkAuthenticated
<1>10. CASE LoopDialSucceeds
  BY <1>10 DEF LoopDialSucceeds
<1>11. CASE CallerDialSucceeds
  BY <1>11 DEF CallerDialSucceeds
<1>12. CASE DialFails
  BY <1>12 DEF DialFails
<1>13. CASE LoopGivesUp
  BY <1>13 DEF LoopGivesUp
<1>14. CASE HostDrops
  BY <1>14 DEF HostDrops, BeginRecovery
<1>15. ASSUME NEW fatal \in BOOLEAN, HostErrors(fatal) PROVE Goal
  <2>1. loop = "idle" \/ intentional
    BY <1>15 DEF HostErrors
  <2>2. announced' # "reconnected" \/ announced' = announced
    BY <1>15 DEF HostErrors
  <2>3. loop' = loop /\ (intentional => intentional')
    BY <1>15 DEF HostErrors
  <2> QED
    BY <2>1, <2>2, <2>3
<1>16. CASE UnwatchedSocketCloses
  BY <1>16 DEF UnwatchedSocketCloses
<1>17. CASE LoopStandsDown
  BY <1>17 DEF LoopStandsDown
<1>18. CASE LoopWakes
  BY <1>18 DEF LoopWakes
<1>19. CASE WatchdogFires
  BY <1>4, <1>19 DEF WatchdogFires
<1>20. CASE LostReapFires
  BY <1>4, <1>20 DEF LostReapFires
<1>21. CASE IdleFires
  BY <1>5, <1>21 DEF IdleFires
<1>22. CASE UNCHANGED vars
  BY <1>22 DEF vars
<1> QED
  BY <1>2, <1>3, <1>4, <1>5, <1>6, <1>7, <1>8, <1>9, <1>10, <1>11, <1>12,
     <1>13, <1>14, <1>15, <1>16, <1>17, <1>18, <1>19, <1>20, <1>21, <1>22
     DEF Next, Destroy, GracefulDestroy

(* session.reconnected is never news to a watcher: it was told before that *)
(* the proxy is reconnecting, and not since then that the session is lost. *)
THEOREM ReconnectedExpected == ASSUME Endpoints = {} PROVE Spec => ReconnectedFollowsReconnecting
<1>1. Init => AnnouncedInv
  <2>1. Init => RecoveryIsAnnounced
    BY DEF Init, RecoveryIsAnnounced
  <2> QED
    BY InitAlone, <2>1 DEF AnnouncedInv
<1>2. AnnouncedInv /\ [Next]_vars => AnnouncedInv'
  BY NextAnnounced
<1>3. AnnouncedInv /\ [Next]_vars =>
          [announced' = "reconnected" => announced \in {"reconnecting", "reconnected"}]_announced
  BY NextAnnounced
<1> QED
  BY <1>1, <1>2, <1>3, PTL DEF Spec, ReconnectedFollowsReconnecting
=============================================================================
