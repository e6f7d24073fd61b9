---------------------------- MODULE KeyedConnect ----------------------------
(***************************************************************************)
(* Connect-by-key: POST /connect with a key (packages/proxy/src/routes.ts) *)
(* over the registry of session-keys.ts.  A call holds the key's lock      *)
(* (KeyLock) from its turn until it answers: it reuses the session bound   *)
(* to the key, or tears that one down, opens its own and binds it; then it *)
(* signs on.  One key is modelled: keys share neither lock nor session.    *)
(* A call opens at most one session, which bears the call's name here.     *)
(*                                                                         *)
(* Of a session only what /connect looks at is kept (SessionLifecycle is   *)
(* the session in full), as its phase:                                     *)
(*    "unborn"      not created                                            *)
(*    "dialing"     status connecting, its opener awaits connect()         *)
(*    "redialing"   the same, and POST /reconnect awaits it                *)
(*    "up"          status connected, socket open                          *)
(*    "signedOn"    the same, status authenticated                         *)
(*    "recovering"  dropped, the reconnect loop works on it                *)
(*    "failed"      without a connection and not reported lost: connect()  *)
(*                  was rejected, an auto-reconnect session is in error,   *)
(*                  or it was dropped and its loop hangs                   *)
(*    "lost"        reported lost; stored until the lost reaper fires      *)
(*    "gone"        not in the store                                       *)
(* POST /reconnect (Session.reconnect()) may meet a session in any of them *)
(* that is stored, and leave behind a loop that is still to wake.          *)
(***************************************************************************)
EXTENDS Naturals, FiniteSets

CONSTANTS
    Callers,   \* the calls of /connect that name the key
    None,      \* nobody, no session, the all-access scope
    Scopes,    \* what callers' tokens resolve to; may contain None
    Others,    \* what other clients do to the sessions: "disconnect" closes one,
               \* "reconnect" is POST /reconnect; with "early" also one that its
               \* opener still dials, with "late" also one being torn down
    MaxMoved   \* bound: sessions at a time with a trace of POST /reconnect, see Moved

ASSUME NoneIsNobody == None \notin Callers
ASSUME MovedAssumption == MaxMoved \in Nat
ASSUME OthersAssumption == Others \subseteq {"disconnect", "reconnect", "early", "late"}

VARIABLES
    stage, prev, tail, ticket, issued,  \* the key's lock: see KeyLock
    scope,     \* gsScope of a call's request, once its turn has come
    step,      \* where fn is: "none", "opening", "signing", "answered", "failed"
    handed,    \* the session the call works on and answers with
    bound,     \* keyToSessionId.get(key)
    phase,     \* of each session
    leaving,   \* sessions whose SIGNOFF is in flight, still stored and connected
    loop,      \* a reconnect loop that a reconnect() left behind: see Loops
    owner,     \* Session.scope
    revived    \* history: stored, and reconnected by POST /reconnect when not bound to the key

lockVars == <<stage, prev, tail, ticket, issued>>
callVars == <<scope, step, handed>>
sessionVars == <<phase, leaving, loop, owner, revived>>
vars == <<lockVars, callVars, bound, sessionVars>>

Lock == INSTANCE KeyLock

Steps == {"none", "opening", "signing", "answered", "failed"}
Phases == {"unborn", "dialing", "redialing", "up", "signedOn", "recovering",
           "failed", "lost", "gone"}

\* "asleep" wakes and dials; "doomed" wakes and stands down, for _intentionalClose
\* is set; "hung" awaits a connect that reconnect() replaced
Loops == {"none", "asleep", "doomed", "hung"}

(* Types of all the variables. *)
TypeOK ==
    /\ Lock!TypeOK
    /\ scope \in [Callers -> Scopes \cup {None}]
    /\ step \in [Callers -> Steps]
    /\ handed \in [Callers -> Callers \cup {None}]
    /\ bound \in Callers \cup {None}
    /\ phase \in [Callers -> Phases]
    /\ leaving \subseteq Callers /\ revived \subseteq Callers
    /\ loop \in [Callers -> Loops]
    /\ owner \in [Callers -> Scopes \cup {None}]

Init ==
    /\ Lock!Init
    /\ scope = [c \in Callers |-> None]
    /\ step = [c \in Callers |-> "none"]
    /\ handed = [c \in Callers |-> None]
    /\ bound = None
    /\ phase = [s \in Callers |-> "unborn"]
    /\ leaving = {} /\ revived = {}
    /\ loop = [s \in Callers |-> "none"]
    /\ owner = [s \in Callers |-> None]

-----------------------------------------------------------------------------
(* What the handler reads of the session bound to the key. *)

Stored(s) == phase[s] \notin {"unborn", "gone"}

\* status.connected: teardown leaves the status alone
Connected(s) == phase[s] \in {"up", "signedOn"}

\* Faulty variants, for the mutation checks, precede what they replace.

FaultyInScopeAny(s, sc) == TRUE

\* sessionInScope(), after the claim of an unscoped session by a scoped caller
InScopeOnceClaimed(s, sc) == sc = None \/ owner[s] \in {sc, None}

FaultyKeyedUnclaimed(sc) == bound # None /\ Stored(bound)

\* claimKeyedSession(getSession(getKeyedSessionId(key))) is a session
Keyed(sc) == bound # None /\ Stored(bound) /\ InScopeOnceClaimed(bound, sc)

FaultyOwnerClaimed(sc) == sc

\* session.scope after claimKeyedSession
OwnerClaimed(sc) == IF sc # None /\ owner[bound] = None THEN sc ELSE owner[bound]

Reusable(sc) == Keyed(sc) /\ Connected(bound)

FaultyUnbindNothing(s) == UNCHANGED bound

\* session.lost: unbindSession()
Unbind(s) == bound' = IF bound = s THEN None ELSE bound

\* gracefullyDestroySession() without its await, of the sessions in S: a SIGNOFF
\* only for those authenticated, which stay stored until it is over
PhaseTornDown(s) == IF phase[s] = "signedOn" THEN "signedOn" ELSE "gone"
LeavingWith(S) == (leaving \ S) \cup {s \in S : phase[s] = "signedOn"}

\* _intentionalClose is set
Doomed(s) == IF loop[s] = "asleep" THEN "doomed" ELSE loop[s]

\* ... and what becomes of the loop of a session torn down: one removed stands down
LoopTornDown(s) == IF phase[s] = "signedOn" THEN Doomed(s) ELSE "none"

-----------------------------------------------------------------------------
(* A call. *)

Arrive(c) ==
    /\ Lock!Arrive(c)
    /\ UNCHANGED <<callVars, bound, sessionVars>>

\* Its turn comes, and the bound session is live: reuse it
Reuse(c, sc) ==
    /\ Lock!Enter(c)
    /\ Reusable(sc)
    /\ scope' = [scope EXCEPT ![c] = sc]
    /\ owner' = [owner EXCEPT ![bound] = OwnerClaimed(sc)]
    /\ step' = [step EXCEPT ![c] = "signing"]
    /\ handed' = [handed EXCEPT ![c] = bound]
    /\ UNCHANGED <<bound, phase, leaving, loop, revived>>

FaultyOpenBesides(c, sc, forceNew) ==
    /\ Lock!Enter(c)
    /\ forceNew \/ ~Reusable(sc)
    /\ scope' = [scope EXCEPT ![c] = sc]
    /\ step' = [step EXCEPT ![c] = "opening"]
    /\ handed' = [handed EXCEPT ![c] = c]
    /\ phase' = [phase EXCEPT ![c] = "dialing"]
    /\ owner' = [owner EXCEPT ![c] = sc]
    /\ UNCHANGED <<bound, leaving, loop, revived>>

\* Its turn comes, and it cannot or must not: tear the prior session down
\* without waiting for that, create the call's own and start to connect it
Open(c, sc, forceNew) ==
    /\ Lock!Enter(c)
    /\ forceNew \/ ~Reusable(sc)
    /\ scope' = [scope EXCEPT ![c] = sc]
    /\ step' = [step EXCEPT ![c] = "opening"]
    /\ handed' = [handed EXCEPT ![c] = c]
    /\ IF Keyed(sc)
       THEN /\ phase' = [phase EXCEPT ![bound] = PhaseTornDown(bound), ![c] = "dialing"]
            /\ leaving' = LeavingWith({bound})
            /\ loop' = [loop EXCEPT ![bound] = LoopTornDown(bound)]
            /\ owner' = [owner EXCEPT ![bound] = OwnerClaimed(sc), ![c] = sc]
       ELSE /\ phase' = [phase EXCEPT ![c] = "dialing"]
            /\ owner' = [owner EXCEPT ![c] = sc]
            /\ UNCHANGED <<leaving, loop>>
    /\ UNCHANGED <<bound, revived>>

FaultyConnectsUnbound(c) ==
    /\ step[c] = "opening" /\ phase[c] = "dialing"
    /\ phase' = [phase EXCEPT ![c] = "up"]
    /\ step' = [step EXCEPT ![c] = "signing"]
    /\ UNCHANGED <<lockVars, scope, handed, bound, leaving, loop, owner, revived>>

\* connect() resolves: bind the key, go on to sign on
Connects(c) ==
    /\ step[c] = "opening" /\ phase[c] = "dialing"
    /\ phase' = [phase EXCEPT ![c] = "up"]
    /\ bound' = c
    /\ step' = [step EXCEPT ![c] = "signing"]
    /\ UNCHANGED <<lockVars, scope, handed, leaving, loop, owner, revived>>

FaultyRefusedHoldsLock(c) ==
    /\ step[c] = "opening" /\ phase[c] = "dialing"
    /\ phase' = [phase EXCEPT ![c] = "failed"]
    /\ step' = [step EXCEPT ![c] = "failed"]
    /\ UNCHANGED <<lockVars, scope, handed, bound, leaving, loop, owner, revived>>

\* connect() rejects: fn rejects, the lock is released, 500
Refused(c) ==
    /\ step[c] = "opening" /\ phase[c] = "dialing"
    /\ Lock!Release(c)
    /\ phase' = [phase EXCEPT ![c] = "failed"]
    /\ step' = [step EXCEPT ![c] = "failed"]
    /\ UNCHANGED <<scope, handed, bound, leaving, loop, owner, revived>>

\* ensureSignedOn() is over, with or without a sign-on, and the call answers.
\* (markAuthenticated() asks nothing of the session; on one that is not
\* connected its mark changes nothing that /connect looks at.)
Answer(c, authenticated) ==
    /\ step[c] = "signing"
    /\ Lock!Release(c)
    /\ step' = [step EXCEPT ![c] = "answered"]
    /\ phase' = [phase EXCEPT ![handed[c]] =
                    IF @ = "up" /\ authenticated THEN "signedOn" ELSE @]
    /\ UNCHANGED <<scope, handed, bound, leaving, loop, owner, revived>>

-----------------------------------------------------------------------------
(* The sessions' own events, and other clients. *)

\* The connection of a session is gone.  What that makes of it depends on
\* autoReconnect, on how it was lost (a refused device name is final), and on a
\* loop left behind: one that sleeps does the recovery, for one that hangs nobody
\* does, and an error of an auto-reconnect session is followed by nothing.  One
\* that is leaving reports lost (but for a reconnect in between), and is not
\* recovered.
Drops(s, to) ==
    /\ Connected(s)
    /\ to = "recovering" => loop[s] # "hung" /\ s \notin leaving
    /\ phase' = [phase EXCEPT ![s] = to]
    /\ loop' = [loop EXCEPT ![s] = CASE to = "recovering" -> "none"
                                     [] to = "lost" -> Doomed(s)
                                     [] OTHER -> @]
    /\ IF to = "lost" THEN Unbind(s) ELSE UNCHANGED bound
    /\ UNCHANGED <<lockVars, callVars, leaving, owner, revived>>

\* The graceful exit of a session that is leaving is over: the host answered or
\* closed the connection, in which case the session reports lost, or 1.5 s passed
LeaverGone(s, dropped) ==
    /\ s \in leaving
    /\ dropped => Connected(s)
    /\ phase' = [phase EXCEPT ![s] = "gone"]
    /\ leaving' = leaving \ {s}
    /\ loop' = [loop EXCEPT ![s] = "none"]
    /\ revived' = revived \ {s}
    /\ IF dropped THEN Unbind(s) ELSE UNCHANGED bound
    /\ UNCHANGED <<lockVars, callVars, owner>>

\* The reconnect loop succeeds, or gives up and reports lost
Recovers(s) ==
    /\ phase[s] = "recovering"
    /\ phase' = [phase EXCEPT ![s] = "up"]
    /\ UNCHANGED <<lockVars, callVars, bound, leaving, loop, owner, revived>>

GivesUp(s) ==
    /\ phase[s] = "recovering"
    /\ phase' = [phase EXCEPT ![s] = "lost"]
    /\ Unbind(s)
    /\ UNCHANGED <<lockVars, callVars, leaving, loop, owner, revived>>

\* A loop left behind wakes, whatever became of the session meanwhile: it hangs
\* up and dials, or stands down
LoopWakes(s) ==
    /\ loop[s] \in {"asleep", "doomed"} /\ Stored(s)
    /\ loop' = [loop EXCEPT ![s] = "none"]
    /\ phase' = IF loop[s] = "asleep" THEN [phase EXCEPT ![s] = "recovering"] ELSE phase
    /\ UNCHANGED <<lockVars, callVars, bound, leaving, owner, revived>>

\* The connect watchdog, the lost reaper and the idle timer remove a session that
\* is not connected; nothing tells the registry.  (A watchdog that POST /reconnect
\* armed may meet a loop that woke since: the same as a Disconnect.)
Removed(s) ==
    /\ phase[s] \in {"redialing", "failed", "lost"}
    /\ phase' = [phase EXCEPT ![s] = "gone"]
    /\ leaving' = leaving \ {s}
    /\ loop' = [loop EXCEPT ![s] = "none"]
    /\ revived' = revived \ {s}
    /\ UNCHANGED <<lockVars, callVars, bound, owner>>

\* gracefullyDestroySession() or destroySession()
TornDown(s, signOff) ==
    /\ phase' = [phase EXCEPT ![s] = IF signOff THEN PhaseTornDown(s) ELSE "gone"]
    /\ leaving' = IF signOff THEN LeavingWith({s}) ELSE leaving \ {s}
    /\ loop' = [loop EXCEPT ![s] = IF signOff THEN LoopTornDown(s) ELSE "none"]
    /\ revived' = IF phase'[s] = "gone" THEN revived \ {s} ELSE revived

\* POST /disconnect of the session, with or without a SIGNOFF, /disconnect-all,
\* the idle timer
Disconnect(s, signOff) ==
    /\ "disconnect" \in Others /\ Stored(s)
    /\ phase[s] = "dialing" => "early" \in Others
    /\ TornDown(s, signOff)
    /\ UNCHANGED <<lockVars, callVars, bound, owner>>

\* POST /session/authenticated, of a session that is connected
MarkAuthenticated(s) ==
    /\ phase[s] = "up"
    /\ phase' = [phase EXCEPT ![s] = "signedOn"]
    /\ UNCHANGED <<lockVars, callVars, bound, leaving, loop, owner, revived>>

\* POST /reconnect is not over, or has left a loop, or the session out of the key's reach
Moved(s) == phase[s] = "redialing" \/ loop[s] # "none" \/ s \in revived

\* POST /reconnect: hang up, without a word to anybody, and connect() again; what
\* else waited for a connection of the session waits for ever.  A session that
\* was lost is not bound to the key again.
Reconnect(s) ==
    /\ "reconnect" \in Others /\ Stored(s)
    /\ phase[s] = "dialing" => "early" \in Others
    /\ s \in leaving => "late" \in Others
    /\ phase' = [phase EXCEPT ![s] = "redialing"]
    /\ \E left \in IF phase[s] = "recovering" THEN {"asleep", "hung"}
                   ELSE IF loop[s] = "doomed" THEN {"asleep"} ELSE {loop[s]} :
          loop' = [loop EXCEPT ![s] = left]
    /\ revived' = IF bound = s THEN revived ELSE revived \cup {s}
    /\ Cardinality({t \in Callers : t = s \/ Moved(t)}) <= MaxMoved
    /\ UNCHANGED <<lockVars, callVars, bound, leaving, owner>>

\* Its connect() resolves or rejects
Redialed(s, connected) ==
    /\ phase[s] = "redialing"
    /\ phase' = [phase EXCEPT ![s] = IF connected THEN "up" ELSE "failed"]
    /\ UNCHANGED <<lockVars, callVars, bound, leaving, loop, owner, revived>>

TakeTurn(c) == \E sc \in Scopes : Reuse(c, sc) \/ \E forceNew \in BOOLEAN : Open(c, sc, forceNew)

\* What a call does by itself once it has its turn
Proceed(c) == Connects(c) \/ Refused(c) \/ \E authenticated \in BOOLEAN : Answer(c, authenticated)

Next ==
    \/ \E c \in Callers : Arrive(c)
    \/ \E c \in Callers, sc \in Scopes : Reuse(c, sc)
    \/ \E c \in Callers, sc \in Scopes, forceNew \in BOOLEAN : Open(c, sc, forceNew)
    \/ \E c \in Callers : Connects(c) \/ Refused(c)
    \/ \E c \in Callers, authenticated \in BOOLEAN : Answer(c, authenticated)
    \/ \E s \in Callers, to \in {"recovering", "failed", "lost"} : Drops(s, to)
    \/ \E s \in Callers, dropped \in BOOLEAN : LeaverGone(s, dropped)
    \/ \E s \in Callers : Recovers(s) \/ GivesUp(s) \/ LoopWakes(s) \/ Removed(s)
    \/ \E s \in Callers : MarkAuthenticated(s)
    \/ \E s \in Callers, signOff \in BOOLEAN : Disconnect(s, signOff)
    \/ \E s \in Callers : Reconnect(s) \/ \E connected \in BOOLEAN : Redialed(s, connected)

Spec == Init /\ [][Next]_vars

\* A connect() left alone settles (the socket's own timeout) and a sign-on
\* ends (its own timeouts); awaits resume
FairSpec ==
    Spec /\ \A c \in Callers : WF_vars(TakeTurn(c)) /\ WF_vars(Proceed(c))

-----------------------------------------------------------------------------
(* Safety. *)

\* The proxy has a connection to the host for the key, or works on one, and no
\* teardown of it has begun
Live(s) ==
    /\ phase[s] \in {"dialing", "redialing", "up", "signedOn", "recovering"}
    /\ s \notin leaving

(* session-keys.ts: "AT MOST ONE live session per key".  For one scope that *)
(* is so, not counting a session whose SIGNOFF is still in flight, nor one *)
(* that POST /reconnect took back after the key had ceased to resolve to   *)
(* it: nothing but that endpoint ever makes a second one.                  *)
AtMostOneLive ==
    \A s, t \in Callers \ revived : Live(s) /\ Live(t) => s = t

(* "A lost session must not stay reachable by key". *)
BoundIsNotLost == bound # None => phase[bound] # "lost"

(* A live session is the one the key resolves to, or is being opened by    *)
(* the call that has the lock: none is left to itself, unreachable by key, *)
(* but those that POST /reconnect revived.                                 *)
LiveIsReachable ==
    \A s \in Callers \ revived :
        Live(s) => bound = s \/ (step[s] = "opening" /\ stage[s] = "running")

(* A scoped caller is never handed a session of another scope. *)
HandedInScope ==
    \A c \in Callers : handed[c] # None /\ scope[c] # None => owner[handed[c]] = scope[c]

(* A session's scope is claimed once and then never changes. *)
ClaimedOnce == [][\A s \in Callers : owner[s] # None => owner'[s] = owner[s]]_owner

(* A call with the lock tears down no session that is not of its scope. *)
OnlyOwnTornDown ==
    [][\A c, s \in Callers :
         step[c] = "none" /\ step'[c] = "opening" /\ Stored(s) /\
         (phase'[s] # phase[s] \/ s \in leaving' \ leaving) =>
             scope'[c] = None \/ owner'[s] = scope'[c]]_vars

-----------------------------------------------------------------------------
(* Liveness. *)

\* The session a call opens was torn down, or reconnected, under it: its
\* connect() never settles
Abandoned(c) == step[c] = "opening" /\ phase[c] # "dialing"

(* Every call gets its turn and an answer, whatever became of the calls    *)
(* before it: time and again no call waits for the lock or has it.  Unless *)
(* the session that a call dials is taken from it, which keeps the key     *)
(* locked: nothing else does.                                              *)
EveryCallEnds ==
    []<>(\/ \A c \in Callers : stage[c] \notin {"waiting", "running"}
         \/ \E c \in Callers : Abandoned(c))

(* Scopes do not mix: a session stays in the scope that claimed it, and no *)
(* call with the lock tears down a session of another scope.               *)
ScopesStayApart == ClaimedOnce /\ OnlyOwnTornDown
=============================================================================
