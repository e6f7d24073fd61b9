# A TLA+ model of the green-screen proxy

green-screen-react gives browsers and back-end integrators a terminal on a
legacy host (TN5250, TN3270, VT, HP6530). The proxy (`packages/proxy`) holds
the TCP connections to the hosts and offers them over REST and a WebSocket;
React components, a Python client and a Cloudflare worker are built on it.
What is hard about the program is in the proxy. One half of it is who owns
what: connections that outlive the clients that opened them, recovery after a
host drop, graceful exits that take seconds while other requests arrive, and
clients that reload, share a session, or race each other for the same key. The
other half is what the bytes mean: streams that TCP cuts anywhere, negotiations
that the host leads, and screens with fields, flags, windows and margins that
the host and the operator change in turn. Both halves are modelled here, checked
with TLC and, where it matters most, proved with TLAPS.

Paths below are relative to `src/packages/proxy/src` unless they start with
`packages/` or `apps/`.

## The system

The proxy is one Node.js process: a handler runs without interruption up to
its next `await`. So the interleavings are those of the pieces between awaits,
of timers, and of events from sockets. An action of a module is one such piece.

| Component | State it keeps | Operations | What makes it correct |
|---|---|---|---|
| Session (`session.ts`), with its connection (`tn5250/connection.ts`) | status, `_autoReconnect`, `_intentionalClose`, `_destroyed`, `_reconnecting`; three timers; the socket | connect, disconnect, reconnect, destroy, gracefulDestroy, markAuthenticated, the recovery loop | the status tells the truth about the socket; no session is forgotten in the store or leaves anything behind; recovery concludes |
| Session store (`session-store.ts`) | id → Session; the lifecycle event bus | set, get, delete; `session.lost`, `.reconnecting`, `.reconnected`, `.resumed` | events come in an order a watcher can act on |
| Session keys (`session-keys.ts`) | key → session id; key → tail of a promise chain | `withKeyLock`, `bindKey`, `unbindSession` | one call at a time, in order of arrival; a lost session is not reachable by key |
| REST routes (`routes.ts`) | none of its own | connect (by key), disconnect, reconnect, typing, waits, beacon | at most one live session per key; scopes do not mix |
| WebSocket relay (`websocket.ts`, `controller.ts`) | clients with their session id and controller; who watches what; orphans and their reap timers | connect, reattach, disconnect, input, close | no connection leaks or is closed under its user; everybody hears of their own session and of no other |
| Shutdown (`shutdown.ts`) | the draining flag | drain | nothing starts during the drain, everything is signed off |
| Protocol handlers (`protocols/*`) | screen, encoder and parser of a protocol; emission gate | sendText, sendKey, auto-sign-in, SIGNOFF | one screen per host transaction; credentials only on a sign-on screen |
| Data streams (`tn5250/*`, `tn3270/*`, `vt/*`, `hp6530/*`, `net/telnet.ts`) | cell buffer, fields, cursor; partial frames | parse a record, encode an AID, edit a field | independent of how TCP cuts the stream; no write outside a field or the buffer |
| React transport and hooks (`packages/react/src`) | the socket, pending promises, backoff | connect, send, reconnect | an answer settles the call that asked for it |
| Python client (`packages/client-py`) | buffer, pending requests | send, wait | a request applies its own frame |
| Worker (`apps/worker`) | a Durable Object per session; rate limiter | connect, input, alarm | limits hold; an orphan ends |

How they interact: routes and the relay call the session and share its handler
(a WebSocket client that reattaches to a REST session *adopts* its handler);
the session reports to both over the event bus; the key map unbinds a session
when it hears `session.lost`; the drain tears down sessions, then controllers.

## The modules

### Sessions and their clients

| Module | Models | State and actions |
|---|---|---|
| `SessionLifecycle` | one Session, its store entry and its socket | a variable per field of the class that the control depends on; `loop`/`attempt` are the recovery loop's program counter, `exits` the graceful teardowns that wait for the host, `signing` an auto-sign-on in flight, `announced` the last lifecycle event. An action per handler piece: `CreateAndConnect`, `Reconnect`, `Destroy`, `HostDrops`, `HostErrors`, `LoopWakes`, `WatchdogFires`, ... |
| `FifoLock` | what the mutex promises: first come, first served | tickets and `serving` |
| `KeyLock` | `withKeyLock` for one key | `prev` is the segment a call awaits, `tail` the map entry; `Arrive` is the synchronous part, `Enter` the resumption, `Release` the `finally`. `ticket` and `issued` are history variables for the refinement |
| `KeyedConnect` | `POST /connect` with a key, over `KeyLock` (instantiated) and the key map | `bound` is the map; `phase` of each session is SessionLifecycle seen from a route, with `loop` for a recovery loop that `POST /reconnect` left behind; `step` is where `fn` stands between its awaits. Tokens' scopes, claims, `forceNew`, and `/disconnect`, `/reconnect` and `/session/authenticated` of other clients included. `revived` is history: stored sessions that `/reconnect` took while the key did not resolve to them |
| `WsBinding` | the relay | `sid` and `ctrl` are a client's fields, `watchers` is `sessionClients`, `orphans`/`reapers` the two maps; a controller is a record of the session it belongs to and the client its `send` closure writes to, `live`/`holding` its `connected` and `handler`; `leaving` and `grip` are the graceful exits awaited by "disconnect" and by the beacon |

### The 5250 terminal

| Module | Models | State and actions |
|---|---|---|
| `ScreenBuffer` | class `ScreenBuffer` (`tn5250/screen.ts`) | no state of its own: a screen is a record (cells, fields, cursor, save stack, windows, message line) and the methods are operators on it. The cells are a function whose domain *grows* where the code writes past the end of its array |
| `DataStream` | `TN5250Parser` (`tn5250/parser.ts`) | operators again: every command and every order, CC1/CC2, SOH, fields and their format words, CREATE_WINDOW and the bookkeeping around it, save and restore, roll, error lines, a record cut inside an order; folded over the record with `FoldLeft` |
| `Keyboard` | `TN5250Encoder` (`tn5250/encoder.ts`) and the local keys of `TN5250Handler.sendKey()` | typing, insert, Delete, Erase EOF, Field Exit and its adjusting, Tab order with resequencing, groups of continued fields, Reset, and the answer an AID key sends |
| `Tn5250` | a terminal in use: the three above between a host and an operator | `parser` is the screen with the parser, `park` is `filledParkAt`; `answer` is what the last step sent. History: `painted` (the cells as the host or a Reset left them), `deleted` (fields that lost something to an unflagged deletion), `under` (what the popups cover), `overrun` (a field ran past the end of the screen). `HostSends`, `TypeText`, `Press`, `PressReset`, `PlaceCursor`, `PressAid`, `Reconnect` |
| `SignOn` | `performAutoSignIn()`, `ensureSignedOn()` and the emission gate of `protocols/tn5250-handler.ts` | `h` is the handler (buffer, lock, typed and saved credentials, held frame, flush timer, where the sign-on stands), `job` what the host runs, `inbox` the answer on its way. What follows an await runs in the turn that resolves it, by operators that say what each method makes of `h` |

### The other displays

| Module | Models | State and actions |
|---|---|---|
| `Tn3270` | `tn3270/screen.ts`, `parser.ts`, `encoder.ts` and the keys of the handler | `s` is the screen with cell attributes and the list of fields derived from them; commands, orders (SBA, SF, SFE, SA, MF, RA, EUA, PT, IC, GE as text), reads, keys, AIDs, address arithmetic around the end of the buffer |
| `Vt` | `vt/parser.ts`, `screen.ts`, `encoder.ts` and the handler | `term` is the screen and the parser's state, left where a chunk ends; `viewed` is what the last screenChange carried. Margins, origin mode, deferred wrap, alternate screen, saved cursor, insert/delete, line drawing, reports, field detection, local echo |
| `Hp6530` | `hp6530/parser.ts`, `screen.ts`, `encoder.ts` and the handler | `screen` as above with protection per cell; `typed`, the cells typed since the host last wrote, is history |
| `Displays` | `protocols/index.ts`: a session has the display of its protocol, one of three in use | extends `Hp6530`, so that its theorems hold of a session as they stand, with INSTANCEs of `Tn3270` and `Vt` |

### The connections

| Module | Models | State and actions |
|---|---|---|
| `Channel` | what a connection promises: what the host says is heard once, whole and in order, and none of it in the next connection | `said`, `heard` |
| `Connection` | `TN5250Connection`, `TN3270Connection`, `VTConnection`, `HP6530Connection` and the scanner of `net/telnet.ts` | `c` is the connection object (socket, `buf`, what negotiation set, the 6530's send queue), `promise` that of the last `connect()`, `wire` the bytes under way; `said`, `asked` and the fields `data`, `commands`, `out` of `c` are what was said, sent, heard and written. `connect`, `onConnected`, `onConnectTimeout`, `onError`, `onClose`, `disconnect`, `onData` (any number of bytes), `HostSays`, `Send`, `Probe` |

`MC*` modules hold what a host may say and what is typed in the instances, and
the symmetry of `WsBinding`; `*_proofs` hold theorems about the module of the
same name, `Displays_proofs` those of the `Hp6530` it extends, too.

Abstract specifications: `FifoLock`, which `KeyLock` implements (`ImplementsFifo`, checked
and proved), and `Channel`, which `Connection` implements twice (checked and proved), for the data
of the host and for its commands (`DataIsHeard`, `CommandsAreHeard`, together
`IsChannel`: two refinement mappings of one module). Compositions: `KeyedConnect` over
`KeyLock`; `Tn5250` over `ScreenBuffer`, `DataStream` and `Keyboard`;
`Displays` over the other three displays.

**What is abstracted.** Time: an armed timer may fire at any moment; fairness
says it does. Wording, colours and layout. A 5250 or 3270 record is given to
the display decoded into its orders; a byte of a telnet or escape stream is a
named value ("IAC", "ESC", one letter for text). Sessions share only the store,
keys share nothing, and connections and terminals nothing, so one of each
stands for all. Where the relay sees a REST session it keeps only whether its
connection is up and whether it is stored. `SignOn` reduces a screen to its
kind, as the tests of the code do (inputs visible, hidden, wide).

Definitions named `Faulty...` are variants of the definition that follows them,
with a plausible mistake; each property has one that it catches, and a property
that is a conjunction has one for each of its parts. A property of a run that
answers one question in several respects (`FormatIsSound`, `EditsAreAnswered`,
`TerminalIsKept`, ...) is a conjunction of named parts, each of which says what
it is about. No operator
is RECURSIVE: what the code loops over is a fold, a recursive function or a
choice of the least element.

## The runs

| Run | Shows |
|---|---|
| `SessionAlone` | One session whose clients open, drive and close it, with every interleaving of drops, errors, timers, recovery and teardown: never forgotten, truthful status, nothing left behind, recovery concludes, a session that is not connected connects or goes |
| `SessionEndpoints` | The same with `POST /reconnect` and `/session/authenticated` at any moment: the only two ways to be forgotten (that the status stays truthful is proved for this case, too) |
| `SessionErrorStuck` | (violation) A comment promises recovery after every loss of the connection; an 'error' of the socket brings none. TLC gives the steps |
| `KeyLock` | Four calls: mutual exclusion, no stale map entry, the FIFO refinement, no starvation |
| `KeyedOneScope` | Three keyed calls of one scope, `forceNew`, refusals, drops, recoveries, and disconnects and `POST /reconnect` by others, of sessions being dialed, too: one live session, reachable by key, but for one that `/reconnect` took back after the key had lost it; every call answered unless the session it dials is taken from it |
| `KeyedScopes` | The all-access scope and two tenants on one key, with disconnects by others: nothing crosses scopes |
| `WsBinding` | Two pages, two sessions they open and a REST session: no leak, no REST session gutted by its clients, everybody hears of their own session only |
| `Tn5250Forms` | Forms with entry fields of every kind, repainted, erased, redefined and reset by the host while an operator types, deletes, tabs and answers: no edit leaves its field; what was edited is flagged and in the answer, in every part of a continued field, but for deletions in later parts and groups without a first part (see the notes); text reported placed is there, if it is not longer than its room; Tab and Backtab undo each other (`FormatIsSound`, `EditsAreAnswered`, `TypingIsConfined`) |
| `Tn5250Popups` | Popups saved, nested, overlaid, windows, rolls, error messages: the last restore gives back the covered screen, an error holds the keyboard until it is reset, addresses are relative to a window only while there is one, the cursor stays on the screen as long as no field ran past its end (`PlacesAreSound`, `PopupLeavesNoTrace`, `ErrorHoldsKeyboard`) |
| `SignOn` | Auto-sign-on against hosts that paint whole screens or parts, resume jobs, never unlock, drop the connection, and a viewer who presses Enter at any moment: credentials only on a sign-on screen and sent once, every record shown, the sign-on ends (`CredentialsAreSafe`, `HandlerIsTruthful`, `NobodyWaitsForEver`) |
| `Displays` | 3270, VT and 6530: what the fields, the flags, the margins, the alternate screen, the reports and the viewers' copy must agree on after every short sequence (`FormIsKept`, `TerminalIsKept`, `TypingIsKept`) |
| `Connections` | Four protocols, TCP cutting at every byte, escapes in records and subnegotiations, negotiation, refused names, XON/XOFF, redials, drops: each is a `Channel` for data and for commands, and both ends agree on the 3270's headers (`IsChannel`, `EndsAgree`, `ConnectSettles`) |

**Bounds.**

- `SessionLifecycle`: `MaxAttempts = 5` is the length of the real backoff
  schedule. `MaxExits = 2` lets one graceful teardown meet another.
- `KeyLock`, `KeyedConnect`: three callers of a key are a holder, a waiter and
  a later arrival, and allow the scopes A, B, A in turn; four callers of the
  lock make a chain of three segments. `MaxMoved = 1`: one session at a time
  bears a trace of `POST /reconnect` (it dials, left a loop behind, or is
  revived), which is what it takes to bring a second live session about.
  `"late"`, `/reconnect` of a session whose SIGNOFF is in flight, is in no run
  (the states are too many); the theorems have it.
- `WsBinding`: two pages are a page and its reload or two that share; two own
  sessions let one replace another; one beacon teardown at a time, and one
  "disconnect" per client, are in flight. The constant `Moves` adds behaviours
  of clients that the properties do not survive (see below); the run has none.
- `Tn5250*`: a screen of 4 rows by 5 columns holds two fields side by side, a
  field that wraps, a group in three parts and a window of two columns, and its
  edges are near. `MaxScreenStack = 2` and `MaxWindows = 2` (16 and 10 in the
  code) make their limits happen. `MaxRecords` and `MaxEvents` bound a
  connection: two records are a format and what disturbs it, four a popup in a
  popup taken off, six events are enough to nest windows until a field runs past
  the screen and to go to its end; a reconnect starts anew with what is left over of the
  handler. Hosts keep to what the code relies on without checking it
  (`KeptByHost`): a screen is sized before it is saved, and windows fit on it.
- `SignOn`: `Attempts = 4` is the code's; screens repeat for ever.
- `Displays`: 3270 screens of 2 by 4 and 3 by 4 with four events (a format, a
  disturbance, an edit, an answer), a VT of 3 by 4 with three chunks of up to
  ten bytes, many of them cut inside of a sequence, a 6530 of 2 by 3 with five
  events (a format, text, an answer, more text, another answer). `TabWidth` and `MinRun` are the code's or fit the width.
- `Connections`: two units of what a host says per connection (one for 3270,
  besides its answers to RFC 2355) are enough for a unit to be cut, to start in
  the rest of another, and to be repeated; the run redials once while a dial is
  pending. A host says whole units and answers each TN3270E message once, what
  it was told last.

`CHECK_DEADLOCK FALSE` except in `SignOn`: sessions end, calls are answered,
sockets close, bounds are reached, and then nothing more happens.

**Fairness.** `SessionLifecycle`: a pending connect settles (the socket has its
own timeout), a timer that stays armed fires, a graceful exit ends (it has a
timeout), a sign-on ends (likewise). None for drops, errors, clients, and the
idle timer, which any activity re-arms. `KeyLock`: an await resumes once its
promise is resolved, and `fn` ends. `KeyedConnect`: the same for a call's own
steps; none for the host, the sessions' recovery or others. A connect whose
session is closed or reconnected under it never settles, and is not made to. `SignOn`: the
handler's own timers fire; none for the host or the viewers, so a host that
paints for ever or never unlocks does not excuse the gate. `Connection`: the
timeout that the 5250 sets on its socket fires; none for the host and the
network.

## What is proved

| Module | Theorems | Argument |
|---|---|---|
| `SessionLifecycle_proofs` | `TypeCorrect`, `StatusCorrect`, `LostCorrect`, `ForgottenWhy` for any schedule and any endpoints; `NeverForgotten`, `RemovedInert`, `ReconnectedExpected` when `Endpoints = {}` | `StructureInv` says what the handlers rely on without checking it (an attempt awaited by the loop is the pending connect; every teardown set `_destroyed`; ...); with it the three invariants are inductive together. The second part adds `AloneInv`: without reconnect no attempt is left hung, hence a stored session always has its supervisor, and a loop that may still succeed had its start announced last. For `ForgottenWhy`, `WatchInv` adds what the endpoints leave true of a stored session: the two ways to be forgotten are in it as alternatives, and no step makes a third |
| `KeyLock_proofs` | `LockTypes`, `LockExclusive`, `EntryCorrect`, `ChainImplementsFifo` | the chain invariant: tickets grow along `prev`, the tail is the last ticket, whoever has no unreleased predecessor has the next ticket |
| `KeyedConnect_proofs` | `KeyedTypes`, `TurnsAreExclusive`, `ScopesIsolated`, `ScopesKeptApart`, `NoCorpseBound` for any callers and scopes; `OneLiveSession`, `NoneLeftToItself` for one scope, with every endpoint at any moment, `"late"` included (both except sessions in `revived`) | each step of a call is a step of its lock, so `LockExclusive` carries over (an INSTANCE of the lock's proofs); then who may be bound and who may be live follow from exclusion. `POST /reconnect` of a bound session leaves it the one live session; of any other it makes one that is `revived` |
| `WsBinding_proofs` | `RelayTypes`, `OrphansAreReaped`, `StoredKeepHandlers` for any clients, sessions and moves; `NoConnectionLeaks`, `ClientsHearTheirOwn` when `Moves = {}` | `BindingInv`: a controller that somebody refers to belongs to the session it is referred to for, so hanging it up hits no other session. For the leak: every controller still referred to is *firm* (while its connection is up it has the handler, so its hang-up closes the connection, and its connected flag is set, so that a client that goes orphans it), the client that dials stays, and an open client with a controller is in `sessionClients`, so the beacon finds it. For what is heard: `HearInv` ties the three places that say who watches (`sid`, the watchers of a session, the `send` of its controllers) to each other |
| `SignOn_proofs` | `TruthfulHandler`, `SafeCredentials` for any number of dismissals and any `Styles` | A method of the handler is a function on its fields, so a lemma per method says what it keeps: the types, no password in what it sends, a frame held whenever a record is unseen and a timer whenever a frame is held, and, for a host that paints whole screens, that a screen of the application or a verdict of success comes from a job that let the user in. `IInv` joins them, and adds that nothing sent is pending between two turns, or the next turn would send the password again |
| `Displays_proofs` | `SessionTypingKept`, for any size of the 6530, any chunks and any texts within the `Parameters` of `Hp6530`, in a session of any protocol, as the run checks it; `TypingKept`, the same of a 6530 by itself | a lemma per method of screen, parser and encoder says what it keeps: a terminal, whose fields, if there are any, are the runs of the screen (`Cover`). A chunk is folded byte by byte: the fold is followed up to its least prefix that fails. The invariant `TypingInv` adds that the flagged fields are just those with cells typed since the host last wrote; an answer has the texts of the flagged fields in their order, so the i-th text is compared with the i-th such field |
| `Connection_proofs` | `EndsAlwaysAgree`, `ImplementsChannel` for any options, any number of units and any units that `UnitsAssumption` allows, cut anywhere; `Invariance`, the inductive invariant of both | see below |
| `Tn5250_proofs` | for any size of the screen, any records of the `Orders` and `Commands` of `DataStream` and any texts: `ParserSettles`, `ErrorKeepsKeyboard`, `BacktabGoesBack`, `WindowsAreKept`; `AnswersHaveEdits` and `EditsStayInside` as long as the format is sound; `FormatStaysSound`, `PlacesStaySound` and `EditsAreSafe` as long as the host's own records leave it sound | `Settled`, with a lemma per order, command and method of the screen: between two events what places the cursor and the fields, on the screen and in every frame saved, has its type, the frames and the windows are within their bounds, a screen without windows has no offset, and every field has a length (while a record is parsed it may not). The lemmas carry along `HoldsOn`, that a keyboard held by an error stays held, which is `ErrorKeepsKeyboard`. Folds over orders, commands and characters are followed step by step: `StepByStep` shows, by a least counterexample, that a fold is the end of a walk. Tab order is a linear order (`TabRank`), so its last member before a place and its first behind it are each other's neighbour. For the edits, each key and each character typed is an `Edits`: it changes no cell but those of the input fields, and leaves the fields as they are but for their flags; and it is `Marked`: whose cell it changes is flagged. The host paints what it writes, so what differs from what is painted was edited and is flagged, and the answer has every flagged field. What a deletion takes from a part that is not flagged on its first part is in `deleted`, and nothing else gets there. For `FormatStaysSound`, an `Edits` leaves the layout of the fields as it is, and a lemma per key says that the cursor it leaves is on the screen. `PlacesStaySound` adds that no key touches the windows, and what each leaves of the park |

Assumptions are those of the modules' ASSUMEs: the bounds are positive, None is
nobody, the ids of the two kinds of sessions differ, records are made of the
5250's orders and commands, and a host says what `Sayable` lets it say.

**The connection.** `EndsAgree` is not inductive: it speaks of what arrived when
the wire is empty, and nothing in it says that the bytes still to come make
sense. The invariant `IInv` names the *pieces* that are still to be heard: a
sequence `ts` of records, commands, single bytes of text, flow control and what
is passed over, for which

- what is buffered and what is on the wire are together the bytes of `ts`
  (`Stream`: every piece has the form its scanner looks for);
- what was heard and what `ts` will bring are together what was said, once for
  the data and once for the commands;
- every record in `ts` was given a header just if the connection will look for
  one when it comes to it (`Headed`): the headers of the connection, and those
  of the host, follow from the commands heard, so they are compared at any
  place of the stream and not only at its end;
- a connection that was asked for its device name knows it, and, when it
  has one, no later question asked for it by name (`Named`);
- what was sent, and what waits for XON, are together what was asked (`Flow`);
- and the first of `ts` is not yet complete in the buffer (`Settled`).

A lemma per branch of `Take` shows that one turn of the scanner takes the first
piece when it is whole and nothing when it is not: that a record ends at its own
IAC EOR and not at an escaped 0xFF in front of an 0xEF is a lemma about the
parity of runs of IAC (`Ends`, `IsEscaped`). `Feed` folds as many turns as there
are bytes; a turn takes a piece or changes nothing, so the fold comes to rest
before it is over, and then `Settled` holds. The refinement follows: a step of
the host appends to what was said, `onData` to what was heard, and every step
that ends a connection, or starts one, empties both.

`UnitsAssumption` is what those theorems ask of a host: it says whole units,
and within them no end of a subnegotiation, doubled IACs aside; the text of a
6530 has no DC1 and no DC3 but for flow control; of TN3270E it says what
RFC 2355 has, on a 3270. The code counts on each of them without checking. When
the host says what of TN3270E is in `HostMaySay`, which is part of the model.

`AnswersHaveEdits` and `EditsStayInside` have the hypothesis `[]FormatIsSound`. The
code does not check what the host lays out: fields that overlap or run past the
screen are accepted (`setFieldValue()` and the keys write wherever their field
says), a cell of two fields is then edited in one and flagged in the other, and
what is to be typed "in a field" has no meaning. `FormatStaysSound` says whose
business that hypothesis is: under `HostKeepsFormat`, which is about the records
of the host alone, every state has a sound format, so nothing that the terminal
does by itself (a key, a text, a place for the cursor, Reset with its
resequencing, a new connection) makes one unsound; `EditsAreSafe` has the
two properties from that, and `PlacesStaySound` everything that `PlacesAreSound`
says of the terminal's places, of the cursor without regard to `overrun`. `HostKeepsFormat` also asks, of a terminal that has an End key,
that no field of the host wraps: `handleEnd()` puts the cursor at the end of a
field by its column alone, in a field that wraps that is past the screen, and
the format is then unsound by no fault of the host (see the notes below). The
run `Tn5250Forms` checks that its host's formats are sound, its error message
included, together with both properties. `BacktabGoesBack` is the part of
`FormatIsSound` that the terminal owes whatever the host does, and is proved
from the other part.

Only model-checked:

- liveness (`EveryCallEnds`, `EveryLossResolves`, `EachIsServed`,
  `NobodyWaitsForEver`, `ConnectSettles`), since liveness under fairness and
  ENABLED are out of the prover's reach;
- what the run `Tn5250Popups` adds to `PlacesStaySound`: its host nests windows
  until a field runs past the screen, which `HostKeepsFormat` excludes. The
  types and the windows hold all the same (`WindowsAreKept` is proved for such
  hosts, too); the cursor stays on the screen only until then (`overrun`). `PopupLeavesNoTrace` relies on `KeptByHost` and on records that do
  not paint outside of their popup;
- `PlacedTextIsThere`, the third part of `TypingIsConfined` (the others are
  `EditsStayInside`). That no cell is written twice is a statement about the
  whole path of the cursor through fields of several lengths and groups, for
  which no step-wise invariant was found that the provers carry. It is stated
  for texts no longer than the room they run through: `insertText()`
  (`tn5250/encoder.ts`) goes on in the first field behind the last one, so a
  text that is longer comes round and overwrites its own beginning, and is
  reported placed;
- the 3270 and the VT. Their operators fold over records and streams cut at any
  byte, and what a fold yields for every input is shown by induction over data,
  which the prover's library can state but its backends cannot instantiate; for
  the 6530, the 5250 and the connections, `Displays_proofs`, `Tn5250_proofs` and
  `Connection_proofs` carry the induction out by hand, with a least
  counterexample.

## Seen while modelling, without a run of their own

Sessions and clients:

- A session marked authenticated while it connects escapes its watchdog when
  the connect is refused (`session.ts:184`); that is the second disjunct of
  `ForgottenOnlyIfHungOrMismarked`. A sign-on that answers after a drop marks a
  dead session authenticated (`session.ts:252`).
- `POST /reconnect` while the loop's connect is pending leaves `_reconnecting`
  set, so that later drops start no loop (`session.ts:320`, against `:111-112`);
  that is the first disjunct.
- `POST /reconnect` during the SIGNOFF wait of a teardown arms timers on a
  session that is then removed: `RemovedIsInert` needs `Endpoints = {}`.
- `destroy()` and the idle timer remove a session without `session.lost`,
  which `packages/proxy/README.md:123` announces for them.
- A session that is destroyed while a keyed connect awaits it never settles
  that connect (`routes.ts:281`), and the key stays locked; `session-keys.ts:46-47`
  counts on `fn` ending. This is the disjunct `Abandoned` of `EveryCallEnds`;
  `POST /reconnect` of such a session does the same.
- `POST /reconnect` takes a stored session back that was reported lost, whose
  key was unbound then (`routes.ts:427-434`, `session.ts:302-308`), and does not
  bind it again; likewise one that was replaced on the key, or whose first connect
  was refused, and that is not removed yet. A keyed connect finds the key free and opens another: two live sessions
  for one key, against "AT MOST ONE live session per key" and "structurally
  impossible" (`session-keys.ts:6-18`), and the first one is reachable by its id
  only. Those sessions are in `revived`: `AtMostOneLive` and `LiveIsReachable`
  are stated without them, so they say that nothing else brings this about.
- `forceNew` opens the new session while the SIGNOFF of the prior one is in
  flight; a keyed call may be handed a session whose SIGNOFF is in flight; two
  scopes taking turns on a key leave a scope with two live sessions. So
  `AtMostOneLive` is stated for one scope and does not count a leaver.
- A page that reattaches elsewhere while it is bound drops the controller of
  the session it leaves (`websocket.ts:402`, against `:399-401`); one that
  closes while its connect is pending, and a "disconnect" of a WS-opened
  session by a bystander, leak likewise. These are `moveAway`, `dropDial` and
  `bystander` of `Moves`, and each breaks `NoneLeaks`.
- A late close of a page's old socket orphans a controller that the new socket
  uses (`websocket.ts:114`, against `:31-32`), and its reaper then hangs it up.
- After a reattach the replies of the controller go to the client that opened
  it (`websocket.ts:394`, against `:392`).
- After "disconnect" the screens of the SIGNOFF still go to the client, who
  may be bound elsewhere by then (`websocket.ts:496`); `ScreensStayInSession`
  excludes a connection in teardown.
- REST activity cannot cancel an orphan's reaper (`websocket.ts:79`): REST
  resolves stored sessions only, and `ReaperPerOrphan` says no orphan is one.
- An adopting controller never learns of a drop, so that a reattach through it
  answers "connected" for a session that is not (`websocket.ts:384`).
- Keyed connects that wait for their lock asked `isShuttingDown()` when they
  came only: they may create sessions after the drain took its snapshot
  (`shutdown.ts:42`).

5250 (the first two are what `EditsAreAnswered` excepts by name):

- Erase EOF, Delete and Backspace set the flag of the part they are in, not of
  its group (`protocols/tn5250-handler.ts:390`, `:405`), and the answer goes by the
  flag of the first part (`tn5250/encoder.ts:133-139`): what they take from a
  later part of a continued field is not sent unless the group is edited
  otherwise, although `tn5250/screen.ts:496-500` and `tn5250/encoder.ts:135-138`
  say the flag propagates to the first part. The history `deleted` holds those
  parts, and no other.
- A later part whose group has no first part flags itself and is never sent
  (`tn5250/screen.ts:503-514`, `tn5250/encoder.ts:139`).
- In a field that runs past the end of the screen (the host can lay one out,
  by a length of its own or by nesting windows) End and typing put the cursor
  off the screen (`protocols/tn5250-handler.ts:299-307`, `tn5250/encoder.ts:584`).
  `PlacesAreSound` says that the cursor leaves the screen in no other way.
- The engine does not look at the keyboard lock; it only tells the viewers.
- End in a field that wraps sets a cursor column past the screen; Backspace on
  a later row of such a field compares columns only.
- Two WRITE_ERROR_CODEs in a row save the first message as the line to put
  back; the cursor saved for an error outlives an unlock by CC2, after which
  reads do not unlock until Reset; Reset without a message blanks the last row.
- `sendKey()` clears `filledPark` before Field Exit reads it.
- CREATE_WINDOW opens at the cursor, not at the SBA address (`tn5250/parser.ts:1317`);
  cursor orders are relative to the window, so nested windows walk.
- A start of field in the last cell makes a field in a row that does not exist.
  Fields that overlap stay if a WTD without a reset writes over one.
- `restoreFields` of the sign-on types asterisks into the password field and
  flags it. The sign-on is reported authenticated on a screen that is half
  painted when settling ends, and by a reconnect in the dismiss loop
  (`protocols/tn5250-handler.ts:623-657`); that is why `WholeScreensDecide` is
  about hosts that paint whole screens. The dismiss loop presses Enter up to
  four times on any screen without a wide field.

The other displays:

- 3270: a record that changes nothing visible but gives the keyboard back, an
  erase without orders and a record that only moves the cursor cause no
  screenChange. Data written over an attribute leaves the attribute in force.
  `sendText` returns true although the text was cut.
- VT: ESC ends an OSC or DCS, so the "\" of its terminator is printed
  (`vt/parser.ts:684-688` calls it consumed). DECSTBM with top below bottom is
  accepted, hence the hypothesis of `ScrollStaysInMargins`. CUF, CUB and CNL add
  the top margin a second time in origin mode; DCH past the end of a row blanks
  cells before the cursor. LF and NEL keep a pending wrap. A second 1049h
  changes the cursor that 1049l restores. Cursor moves alone emit nothing. RIS
  and a reconnect keep the character set and the parser's state, so a reconnect
  within an OSC swallows the new screen (`protocols/vt-handler.ts:50` means to
  drop it).
- 6530: every chunk of the host that changes the screen rebuilds the fields with
  `modified: false` (`hp6530/parser.ts:37-39`, `hp6530/screen.ts:201`): what was
  typed before is not sent, so `TypedIsSent` is about what was typed since. An
  answer has of each field the trimmed text and an HT, no position
  (`hp6530/encoder.ts:47-58`), although the comment at `:26-30` promises one: a
  host that is sent some of the fields cannot tell which. `connect()` resets neither screen nor parser. ESC [ 1 J
  leaves protection.

Connections:

- Only the 5250 has a timeout while it dials. The others' `connectTimeout`
  stays on the socket as an idle timeout: 30 s of silence drops the connection,
  and VT and 6530 send no keep-alive. So `ConnectSettles` is about the 5250.
- `disconnect()`, and a second `connect()`, leave the promise of a pending one
  unsettled for ever ("left" in the model).
- After a device name was refused the scanner still hands on the rest of the
  segment.
- TN3270E: a FUNCTIONS answer is accepted without a WILL before it and with
  `tn3270e: false`; FUNCTIONS may be requested and answered in a circle; an AID
  sent while FUNCTIONS IS is on its way has no header.
- VT and 6530 look for the end of a subnegotiation without regard to escapes.
- 6530: the answer to TTYPE waits for XON, while a comment says negotiation
  does not; what waits when the connection ends is dropped.

## Not modelled

- The shutdown drain (`shutdown.ts`): one pass over the store. What could go
  wrong in it is a keyed call, a relay client and a session in one state, more
  than TLC can search; its parts are in `SessionLifecycle` and `WsBinding`.
- Batches and waits of the routes, and input through the relay: one call of the
  handler after another, with no state between. The drive lock is one check of
  a field on input of WebSocket clients.
- 5250: selection fields and scroll bars beyond the window they open in,
  double-byte cells, colours, query replies, the names that
  `tn5250/screen-id.ts` and `command-keys.ts` read off the text beyond what
  answers depend on, structured fields that write data. 3270: colours and
  highlighting, structured fields other than the query, the fall-back for a
  record without a command. VT: attributes other than reverse video,
  multi-byte characters, resizing. 6530: display attributes.
- Character tables (`encoding/*`): tables, which their tests enumerate.
- Access decisions (`security.ts`, `auth-gate.ts`): pure functions of one
  request; the scope they yield is in `KeyedConnect`.
- The command line, deployment and the server's start-up (`cli.ts`,
  `deploy.ts`, `server.ts`), type declarations, the demo and the standalone apps.
- The clients: `packages/react` (rendering, view state driven by React's
  scheduler; adapters with a pending promise per kind of reply),
  `packages/client-py` (one request at a time on one socket) and `apps/worker`
  (the proxy's handlers on another platform). The proxy's side of the protocol
  they speak is in `WsBinding`.
