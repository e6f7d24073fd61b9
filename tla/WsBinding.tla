------------------------------ MODULE WsBinding ------------------------------
(***************************************************************************)
(* The WebSocket relay (packages/proxy/src/websocket.ts and controller.ts):*)
(* which WebSocket client is bound to which session, through which         *)
(* SessionController, and what becomes of the connection to the host when  *)
(* the client's socket closes.                                             *)
(*                                                                         *)
(* A session id names either a connection that a WS client opened with     *)
(* "connect" (its controller owns the handler, no store knows it) or a     *)
(* session opened over REST (in the store; a client that reattaches to it  *)
(* gets a controller that adopts its handler).  A client is one WebSocket: *)
(* a page that reloads is a new client.  Of the host connection only its   *)
(* state is kept; SessionLifecycle is the REST session in full.            *)
(***************************************************************************)
CONSTANTS
    Clients,   \* WebSocket connections
    Own,       \* ids of the sessions opened by "connect" over WS
    Rest,      \* ids of the sessions opened over REST
    None,      \* no session, no controller
    Moves      \* what clients may also do: "moveAway" reattaches while bound
               \* to another session, "dropDial" closes during a connect,
               \* "bystander" disconnects a WS session it never reattached to

ASSUME IdsAssumption == Own \cap Rest = {} /\ None \notin Own \cup Rest
ASSUME MovesAssumption == Moves \subseteq {"moveAway", "dropDial", "bystander"}

Ids == Own \cup Rest

\* A controller: the session its handler belongs to, and the client whose
\* socket its send closure writes to
Controllers == [id: Ids, by: Clients]

\* What a "disconnect" that awaits its SIGNOFF will hang up
Teardowns == [ctrl: Controllers \cup {None}, id: Ids]

ASSUME ControllersAssumption == None \notin Controllers \cup Teardowns

\* SessionController.adopted
Adopted(k) == k.id \in Rest

VARIABLES
    sock,       \* of each client: "new", "open", "erred" (closing), "closed"
    sid,        \* client.sessionId
    ctrl,       \* client.controller
    watchers,   \* sessionClients
    live,       \* controllers whose connected flag is set
    holding,    \* controllers whose handler is not null
    orphans,    \* orphanedControllers
    reapers,    \* ids with a timer in orphanReapTimers
    stored,     \* ids of the session store
    link,       \* of each id: its handler's connection to the host
    leaving,    \* of each client: the teardown its "disconnect" awaits
    grip        \* of each id: the controller destroyWsSession() awaits

bindings == <<sid, ctrl, watchers>>
orphanage == <<orphans, reapers>>
hosts == <<live, holding, stored, link>>
vars == <<sock, bindings, orphanage, hosts, leaving, grip>>

(* Types of all the variables. *)
TypeOK ==
    /\ sock \in [Clients -> {"new", "open", "erred", "closed"}]
    /\ sid \in [Clients -> Ids \cup {None}]
    /\ ctrl \in [Clients -> Controllers \cup {None}]
    /\ watchers \in [Ids -> SUBSET Clients]
    /\ live \subseteq Controllers /\ holding \subseteq Controllers
    /\ orphans \subseteq Controllers
    /\ reapers \subseteq Ids
    /\ stored \subseteq Rest
    /\ link \in [Ids -> {"none", "dialing", "open", "dropped", "gone"}]
    /\ leaving \in [Clients -> Teardowns \cup {None}]
    /\ grip \in [Ids -> Controllers \cup {None}]

Init ==
    /\ sock = [c \in Clients |-> "new"]
    /\ sid = [c \in Clients |-> None] /\ ctrl = [c \in Clients |-> None]
    /\ watchers = [s \in Ids |-> {}]
    /\ live = {} /\ holding = {} /\ orphans = {} /\ reapers = {} /\ stored = {}
    /\ link = [s \in Ids |-> "none"]
    /\ leaving = [c \in Clients |-> None]
    /\ grip = [s \in Ids |-> None]

-----------------------------------------------------------------------------
(* Pieces of several handlers. *)

\* Ids are random: nobody names one before its session exists
KnownIds == {s \in Ids : link[s] # "none"}

\* indexClient() of c under s, after its entry under any other id is dropped
Indexed(c, s) ==
    [i \in Ids |-> IF i = s THEN watchers[i] \cup {c} ELSE watchers[i] \ {c}]

\* handleDisconnect() of the controllers ks, and destroySession() of the
\* sessions ss: every handler involved is destroyed, its connection closed
HangUp(ks, ss) ==
    /\ live' = live \ ks
    /\ holding' = holding \ ks
    /\ stored' = stored \ ss
    /\ link' = [i \in Ids |->
                  IF i \in ss \cap stored \/ \E k \in ks \cap holding : k.id = i
                  THEN "gone" ELSE link[i]]

\* Faulty variants, for the mutation checks, precede what they replace.

FaultyOrphanedBy(c) ==
    IF ctrl[c] # None /\ ctrl[c] \in live THEN {ctrl[c]} ELSE {}

FaultyOrphanedNever(c) == {}

\* What removeClient() leaves for a later reattach: a controller that owns a
\* live handler
OrphanedBy(c) ==
    IF ctrl[c] # None /\ ctrl[c] \in live /\ ~Adopted(ctrl[c]) THEN {ctrl[c]} ELSE {}

FaultyUnorphan(s) ==
    /\ orphans' = {k \in orphans : k.id # s}
    /\ UNCHANGED reapers

\* orphanedControllers.delete(s) and cancelOrphanReap(s)
Unorphan(s) ==
    /\ orphans' = {k \in orphans : k.id # s}
    /\ reapers' = reapers \ {s}

-----------------------------------------------------------------------------
(* The clients. *)

FaultyAccept(c, s) ==
    /\ sock[c] = "new"
    /\ s \in KnownIds \cup {None}
    /\ sock' = [sock EXCEPT ![c] = "open"]
    /\ sid' = [sid EXCEPT ![c] = s]
    /\ watchers' = [i \in Ids \cup {s} |->
                      (IF i \in Ids THEN watchers[i] ELSE {}) \cup (IF i = s THEN {c} ELSE {})]
    /\ UNCHANGED <<ctrl, orphanage, hosts, leaving, grip>>

\* wss.on('connection'), with or without a sessionId in its URL
Accept(c, s) ==
    /\ sock[c] = "new"
    /\ s \in KnownIds \cup {None}
    /\ sock' = [sock EXCEPT ![c] = "open"]
    /\ sid' = [sid EXCEPT ![c] = s]
    /\ watchers' = IF s = None THEN watchers ELSE Indexed(c, s)
    /\ UNCHANGED <<ctrl, orphanage, hosts, leaving, grip>>

FaultyConnect(c, o) ==
    /\ sock[c] = "open" /\ link[o] = "none"
    /\ sid' = [sid EXCEPT ![c] = o]
    /\ ctrl' = [ctrl EXCEPT ![c] = [id |-> o, by |-> c]]
    /\ watchers' = [watchers EXCEPT ![o] = @ \cup {c}]
    /\ holding' = holding \cup {[id |-> o, by |-> c]}
    /\ link' = [link EXCEPT ![o] = "dialing"]
    /\ UNCHANGED <<sock, orphanage, live, stored, leaving, grip>>

\* "connect", up to the await of handleConnect(): ends whatever session the
\* client had, in the store, orphaned or its own
Connect(c, o) ==
    LET new == [id |-> o, by |-> c]
        ended == {k \in orphans : k.id = sid[c]}
                   \cup (IF sid[c] = None THEN {} ELSE {ctrl[c]} \ {None})
    IN  /\ sock[c] = "open" /\ link[o] = "none"
        /\ sid' = [sid EXCEPT ![c] = o]
        /\ ctrl' = [ctrl EXCEPT ![c] = new]
        /\ watchers' = Indexed(c, o)
        /\ live' = live \ ended
        /\ holding' = (holding \ ended) \cup {new}
        /\ stored' = stored \ {sid[c]}
        /\ link' = [i \in Ids |->
                      IF i = o THEN "dialing"
                      ELSE IF i \in stored \cap {sid[c]} \/ \E k \in ended \cap holding : k.id = i
                      THEN "gone" ELSE link[i]]
        /\ Unorphan(sid[c])
        /\ UNCHANGED <<sock, leaving, grip>>

\* The controllers "reattach" to s may reuse: an orphan's, else the one of a
\* client that is bound to s
Reusable(s) ==
    LET orphaned == {k \in orphans : k.id = s} \cap live
    IN  IF orphaned # {} THEN orphaned
        ELSE {ctrl[d] : d \in watchers[s]} \cap live

\* "reattach" to s while bound elsewhere (or anew): the session left behind
\* is destroyed if it is in the store, and no longer kept as an orphan
Rebind(c, s, k) ==
    LET left == IF sid[c] \in {None, s} THEN {} ELSE {sid[c]}
        taken == left \cup (IF \E o \in orphans \cap live : o.id = s THEN {s} ELSE {})
    IN  /\ sock[c] = "open"
        /\ left # {} => "moveAway" \in Moves
        /\ sid' = [sid EXCEPT ![c] = s]
        /\ ctrl' = [ctrl EXCEPT ![c] = k]
        /\ watchers' = Indexed(c, s)
        /\ orphans' = {o \in orphans : o.id \notin taken}
        /\ reapers' = reapers \ taken
        /\ stored' = stored \ left
        /\ link' = [i \in Ids |-> IF i \in left \cap stored THEN "gone" ELSE link[i]]
        /\ UNCHANGED <<sock, leaving, grip>>

Reattach(c, s) ==
    /\ \E k \in Reusable(s) : Rebind(c, s, k)
    /\ UNCHANGED <<live, holding>>

\* The same for a REST session that no connected controller wraps
Adopt(c, s) ==
    LET new == [id |-> s, by |-> c]
    IN  /\ Reusable(s) = {} /\ s \in stored /\ link[s] = "open"
        /\ Rebind(c, s, new)
        /\ live' = live \cup {new} /\ holding' = holding \cup {new}

\* "disconnect": the client lets go of its session
LetsGo(c) ==
    /\ sock[c] = "open" /\ sid[c] # None
    /\ ctrl[c] = None /\ sid[c] \in Own => "bystander" \in Moves
    /\ sid' = [sid EXCEPT ![c] = None]
    /\ ctrl' = [ctrl EXCEPT ![c] = None]
    /\ watchers' = [watchers EXCEPT ![sid[c]] = @ \ {c}]
    /\ Unorphan(sid[c])

FaultyDisconnectNow(c) ==
    /\ LetsGo(c)
    /\ HangUp({}, {sid[c]})
    /\ UNCHANGED <<sock, leaving, grip>>

\* handleGracefulDisconnect() and gracefullyDestroySession() with no SIGNOFF
\* to wait for
DisconnectNow(c) ==
    /\ LetsGo(c)
    /\ HangUp({ctrl[c]} \ {None}, {sid[c]})
    /\ UNCHANGED <<sock, leaving, grip>>

\* The same on a connection that is up and signed on: SIGNOFF is typed and
\* awaited.  Bound: a client has one such teardown in flight at a time.
DisconnectBegins(c) ==
    /\ LetsGo(c)
    /\ link[sid[c]] = "open" /\ leaving[c] = None
    /\ leaving' = [leaving EXCEPT ![c] = [ctrl |-> ctrl[c], id |-> sid[c]]]
    /\ UNCHANGED <<sock, hosts, grip>>

DisconnectEnds(c) ==
    /\ leaving[c] # None
    /\ HangUp({leaving[c].ctrl} \ {None}, {leaving[c].id})
    /\ leaving' = [leaving EXCEPT ![c] = None]
    /\ UNCHANGED <<sock, bindings, orphanage, grip>>

\* ws.on('close'), ws.on('error'): removeClient().  An error is followed by
\* a close of the same socket, which runs removeClient() a second time.
Gone(c, how) ==
    /\ sock[c] \in (IF how = "erred" THEN {"open"} ELSE {"open", "erred"})
    /\ (sid[c] # None /\ link[sid[c]] = "dialing") => "dropDial" \in Moves
    /\ sock' = [sock EXCEPT ![c] = how]
    /\ orphans' = orphans \cup OrphanedBy(c)
    /\ reapers' = reapers \cup {k.id : k \in OrphanedBy(c)}
    /\ watchers' = [s \in Ids |-> IF s = sid[c] THEN watchers[s] \ {c} ELSE watchers[s]]
    /\ UNCHANGED <<sid, ctrl, hosts, leaving, grip>>

-----------------------------------------------------------------------------
(* Timers, other callers, the host. *)

\* The orphan's time is up: a bare close of its connection
Reap(s) ==
    /\ s \in reapers
    /\ HangUp({k \in orphans : k.id = s}, {})
    /\ Unorphan(s)
    /\ UNCHANGED <<sock, bindings, leaving, grip>>

\* The controllers of the clients bound to s
Bound(s) == {ctrl[c] : c \in watchers[s]} \ {None}

\* destroyWsSession() once nothing is left to wait for: every controller of s
\* is disconnected, and with it goes the REST session
Destroyed(s, ks) ==
    /\ HangUp(ks \cup Bound(s), {s})
    /\ ctrl' = [c \in Clients |-> IF c \in watchers[s] THEN None ELSE ctrl[c]]
    /\ watchers' = [watchers EXCEPT ![s] = {}]

\* POST /disconnect-beacon, no SIGNOFF to wait for.  Bound: one at a time.
BeaconNow(s) ==
    /\ s \in KnownIds /\ \A i \in Ids : grip[i] = None
    /\ Destroyed(s, {k \in orphans : k.id = s})
    /\ Unorphan(s)
    /\ UNCHANGED <<sock, sid, leaving, grip>>

\* The same up to the await of the first controller's SIGNOFF: an orphan's
\* if there is one, else a bound client's, which lets go of it
BeaconBegins(s) ==
    /\ link[s] = "open" /\ \A i \in Ids : grip[i] = None
    /\ LET orphaned == {k \in orphans : k.id = s}
       IN  \/ \E k \in orphaned : grip' = [grip EXCEPT ![s] = k] /\ UNCHANGED ctrl
           \/ \E c \in watchers[s] :
                /\ orphaned = {} /\ ctrl[c] # None
                /\ grip' = [grip EXCEPT ![s] = ctrl[c]]
                /\ ctrl' = [ctrl EXCEPT ![c] = None]
    /\ Unorphan(s)
    /\ UNCHANGED <<sock, sid, watchers, hosts, leaving>>

BeaconEnds(s) ==
    /\ grip[s] # None
    /\ Destroyed(s, {grip[s]})
    /\ grip' = [grip EXCEPT ![s] = None]
    /\ UNCHANGED <<sock, sid, orphanage, leaving>>

\* handler.connect() of a controller settles
DialEnds(o, up) ==
    /\ link[o] = "dialing"
    /\ link' = [link EXCEPT ![o] = IF up THEN "open" ELSE "dropped"]
    /\ live' = IF up THEN live \cup {k \in holding : k.id = o} ELSE live
    /\ UNCHANGED <<sock, bindings, orphanage, holding, stored, leaving, grip>>

\* 'disconnected': an owning controller clears its connected flag; an
\* adopting one has no listener
HostDrops(s) ==
    /\ link[s] = "open"
    /\ link' = [link EXCEPT ![s] = "dropped"]
    /\ live' = {k \in live : k.id # s \/ Adopted(k)}
    /\ UNCHANGED <<sock, bindings, orphanage, holding, stored, leaving, grip>>

\* A REST session connects, or its recovery does
RestConnects(r) ==
    /\ link[r] = "none" \/ (link[r] = "dropped" /\ r \in stored)
    /\ link' = [link EXCEPT ![r] = "open"]
    /\ stored' = stored \cup {r}
    /\ UNCHANGED <<sock, bindings, orphanage, live, holding, leaving, grip>>

\* A REST session leaves the store by itself: lost reaper, idle timer
RestRemoved(r) ==
    /\ r \in stored
    /\ HangUp({}, {r})
    /\ UNCHANGED <<sock, bindings, orphanage, leaving, grip>>

-----------------------------------------------------------------------------
Next ==
    \/ \E c \in Clients, s \in Ids \cup {None} : Accept(c, s)
    \/ \E c \in Clients, o \in Own : Connect(c, o)
    \/ \E c \in Clients, s \in Ids : Reattach(c, s) \/ Adopt(c, s)
    \/ \E c \in Clients : DisconnectNow(c) \/ DisconnectBegins(c) \/ DisconnectEnds(c)
    \/ \E c \in Clients, how \in {"erred", "closed"} : Gone(c, how)
    \/ \E s \in Ids : Reap(s) \/ HostDrops(s) \/ BeaconNow(s) \/ BeaconBegins(s) \/ BeaconEnds(s)
    \/ \E o \in Own, up \in BOOLEAN : DialEnds(o, up)
    \/ \E r \in Rest : RestConnects(r) \/ RestRemoved(r)

Spec == Init /\ [][Next]_vars

-----------------------------------------------------------------------------
(* Safety. *)

\* An open client holds the controller of s
InUse(s) == \E c \in Clients : sock[c] = "open" /\ ctrl[c] # None /\ ctrl[c].id = s

\* A "disconnect" or a beacon that will hang up s awaits its SIGNOFF
InTeardown(s) ==
    \/ \E c \in Clients : leaving[c] # None /\ leaving[c].ctrl # None /\ leaving[c].ctrl.id = s
    \/ grip[s] # None

(* A client that is bound to a session whose connection is alive, and not  *)
(* being torn down, is among those that hear of it (screens, session.lost, *)
(* session.reconnecting), and only such clients are.                       *)
WatchersAreBound ==
    \A s \in Ids, c \in Clients :
        /\ c \in watchers[s] => sock[c] = "open" /\ sid[c] = s
        /\ sock[c] = "open" /\ sid[c] = s /\ link[s] \in {"dialing", "open"} =>
             c \in watchers[s] \/ InTeardown(s)

\* Somebody answers for the connection of s that a WS client opened
InHands(s) == InUse(s) \/ InTeardown(s) \/ \E k \in orphans : k.id = s /\ s \in reapers

(* No connection to the host is left to itself: while one that a WS client *)
(* opened is up, an open client holds it, or it is an orphan whose reaper  *)
(* is armed, or a teardown of it is under way.  ("it would linger ... and  *)
(* count against host session quotas")                                     *)
NoneLeaks == \A s \in Own : link[s] = "open" => InHands(s)

(* The reap timers are those of the orphans: none outlives its orphan to   *)
(* fire early on a later one, and no orphan is kept without one.  And only *)
(* a connection that no store governs is ever an orphan.                   *)
ReaperPerOrphan ==
    /\ reapers = {k.id : k \in orphans}
    /\ \A k \in orphans : ~Adopted(k)

(* The connection of a REST session is destroyed only together with the    *)
(* session: whatever its WebSocket clients do (close, err, come back, open *)
(* another), no stored session has a handler that was destroyed under it.  *)
StoredIsNotGutted == \A r \in stored : link[r] # "gone"

\* The clients that get the screens of controller k: the one its closure
\* writes to, and those that watch what that one is bound to
Audience(k) ==
    {c \in Clients : /\ sock[c] = "open"
                     /\ c = k.by \/ (sid[k.by] # None /\ c \in watchers[sid[k.by]])}

(* The screens of a live connection go to clients of its session (or of    *)
(* none yet), never to clients of another session.  (Those that the host   *)
(* sends during a SIGNOFF still go to the client that asked for it, though *)
(* it may be bound to another session by then.)                            *)
ScreensStayInSession ==
    \A k \in live : link[k.id] = "open" /\ ~InTeardown(k.id) =>
        \A c \in Audience(k) : sid[c] \in {k.id, None}

(* A client hears of its session, of all of it and of no other: events as  *)
(* a watcher, screens through the controllers that send to it.             *)
EachHearsItsOwn == WatchersAreBound /\ ScreensStayInSession
=============================================================================
