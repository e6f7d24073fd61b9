----------------------------- MODULE Connection -----------------------------
(***************************************************************************)
(* The telnet connections of the four protocols: TN5250Connection,         *)
(* TN3270Connection, VTConnection and HP6530Connection, with the scanner   *)
(* that the first two share (net/telnet.ts).  One connection is modelled,  *)
(* of the protocol that Init chooses: it is dialled, takes what the host   *)
(* says apart however TCP cuts it, answers what is negotiated, hands data  *)
(* on, and ends.                                                           *)
(*                                                                         *)
(* A byte is named: "IAC", the verbs, the options and the marks are what   *)
(* the constants of net/telnet.ts say, any other string is data.  A record *)
(* may hold the bytes 0xFF ("IAC") and 0xEF ("EOR") as data.               *)
(***************************************************************************)
EXTENDS Integers, FiniteSets, FiniteSetsExt, SequencesExt

CONSTANTS
    Units,        \* by protocol: what a host may say
    Options,      \* by protocol: is a device named (5250), is TN3270E allowed (3270)
    MaxUnits,     \* bounds, by protocol, on what is said in one connection ...
    MaxSends      \* ... and on what is sent

VARIABLES
    kind,         \* the protocol
    promise,      \* of the last connect(): "none", "pending", "resolved", "rejected", "left"
    again,        \* connect() was called while another one was pending
    c,            \* the connection: see New
    said,         \* all that the host said since connect()
    wire,         \* the bytes of it that did not arrive yet
    asked         \* what the handler sent since connect()

vars == <<kind, promise, again, c, said, wire, asked>>

Kinds == {"tn5250", "tn3270", "vt", "hp6530"}
RecordKinds == {"tn5250", "tn3270"}
InRecords == kind \in RecordKinds
Verbs == {"DO", "DONT", "WILL", "WONT"}

\* the fields that connect() sets; what is heard and written is history
New(option) == [
    sock |-> "dialing", option |-> option, buf |-> <<>>,
    data |-> <<>>, commands |-> <<>>, out |-> <<>>,
    envReplies |-> 0,                                \* 5250
    device |-> "", headers |-> FALSE, sendSeq |-> 0,  \* 3270: TN3270E
    echoes |-> FALSE,                                \* VT
    xoff |-> FALSE, sendQueue |-> <<>>]              \* 6530

CleanedUp(d) == [d EXCEPT !.sock = "none", !.xoff = FALSE, !.sendQueue = <<>>]

-----------------------------------------------------------------------------
(* Writing.  A 6530 host that said XOFF is not written to, but for answers *)
(* to its commands.                                                        *)

Write(d, message) ==
    IF d.sock = "up" THEN [d EXCEPT !.out = Append(@, message)] ELSE d

sendRaw(d, message) ==
    IF d.sock = "up" /\ d.xoff
    THEN [d EXCEPT !.sendQueue = Append(@, message)]
    ELSE Write(d, message)

\* mutant: XON lets one message through
FaultyFlushSendQueue(d) ==
    IF d.sendQueue = <<>> THEN [d EXCEPT !.xoff = FALSE]
    ELSE [d EXCEPT !.xoff = FALSE, !.out = Append(@, Head(d.sendQueue)),
                   !.sendQueue = Tail(@)]

flushSendQueue(d) ==
    [d EXCEPT !.xoff = FALSE, !.out = @ \o d.sendQueue, !.sendQueue = <<>>]

\* a 3270 record is sent with a header if TN3270E is in force
sendRecord(d, message) ==
    IF d.headers
    THEN [Write(d, <<"HEADER">> \o message) EXCEPT !.sendSeq = @ + 1]
    ELSE Write(d, message)

-----------------------------------------------------------------------------
(* handleNegotiation(): an option is agreed to or refused.                 *)

OptionsOfOurs(d) ==
    CASE kind = "tn5250" -> {"TTYPE", "END_OF_RECORD", "BINARY", "NEW_ENVIRON"}
      [] kind = "tn3270" -> {"TTYPE", "END_OF_RECORD", "BINARY"}
                            \cup (IF d.option THEN {"TN3270E"} ELSE {})
      [] kind = "vt" -> {"TTYPE", "NAWS", "BINARY", "SGA"}
      [] OTHER -> {"TTYPE", "BINARY", "SGA", "ECHO"}

OptionsOfTheirs(d) ==
    CASE kind = "tn5250" -> {"END_OF_RECORD", "BINARY"}
      [] kind = "tn3270" -> {"END_OF_RECORD", "BINARY"}
                            \cup (IF d.option THEN {"TN3270E"} ELSE {})
      [] OTHER -> {"ECHO", "SGA", "BINARY"}

\* a reply to the probe (a timing mark) is not answered
Answer(d, verb, option) ==
    IF verb \in {"WILL", "WONT"} /\ option = "TIMING_MARK" /\ InRecords THEN d ELSE
    CASE verb = "DO" ->
            Write(d, <<IF option \in OptionsOfOurs(d) THEN "WILL" ELSE "WONT", option>>)
      [] verb = "WILL" ->
            Write(d, <<IF option \in OptionsOfTheirs(d) THEN "DO" ELSE "DONT", option>>)
      [] verb = "DONT" -> Write(d, <<"WONT", option>>)
      [] verb = "WONT" -> Write(d, <<"DONT", option>>)

\* mutant: headers outlive the host's DONT
FaultyHandleNegotiation(d, verb, option) ==
    LET e == Answer(d, verb, option) IN
    CASE kind = "vt" /\ verb = "DO" /\ option = "NAWS" -> Write(e, <<"SB", "NAWS", "SIZE">>)
      [] kind = "vt" /\ verb \in {"WILL", "WONT"} /\ option = "ECHO" ->
            [e EXCEPT !.echoes = verb = "WILL"]
      [] OTHER -> e

handleNegotiation(d, verb, option) ==
    LET e == Answer(d, verb, option) IN
    CASE kind = "tn3270" /\ verb = "DONT" /\ option = "TN3270E" -> [e EXCEPT !.headers = FALSE]
      [] kind = "vt" /\ verb = "DO" /\ option = "NAWS" -> Write(e, <<"SB", "NAWS", "SIZE">>)
      [] kind = "vt" /\ verb \in {"WILL", "WONT"} /\ option = "ECHO" ->
            [e EXCEPT !.echoes = verb = "WILL"]
      [] OTHER -> e

-----------------------------------------------------------------------------
(* handleSubnegotiation().                                                 *)

\* mutant: the name is offered twice
FaultyHandleEnviron(d, sub) ==
    IF d.envReplies > 1 /\ d.option /\ Contains(sub, "DEVNAME") /\ sub[2] = "SEND"
    THEN CleanedUp(d)
    ELSE [sendRaw(d, <<"SB", "NEW_ENVIRON", "IS">>) EXCEPT !.envReplies = @ + 1]

\* a host that asks for DEVNAME once more refuses the name it was told
handleEnviron(d, sub) ==
    IF d.envReplies > 0 /\ d.option /\ Contains(sub, "DEVNAME") /\ sub[2] = "SEND"
    THEN CleanedUp(d)
    ELSE [sendRaw(d, <<"SB", "NEW_ENVIRON", "IS">>) EXCEPT !.envReplies = @ + 1]

\* RFC 2355: a device type, then functions, then headers
handleTN3270ESubneg(d, sub) ==
    LET is(what, op) == sub[2] = what /\ sub[3] = op
        requestDevice(type) ==
            sendRaw([d EXCEPT !.device = type], <<"SB", "TN3270E", "DEVICE_TYPE", "REQUEST", type>>)
        functions(op) == sendRaw(d, <<"SB", "TN3270E", "FUNCTIONS", op>>)
    IN  CASE is("SEND", "DEVICE_TYPE") -> requestDevice("extended")
          [] is("DEVICE_TYPE", "IS") -> functions("REQUEST")
          [] is("DEVICE_TYPE", "REJECT") ->
                IF d.device = "extended" THEN requestDevice("plain") ELSE d   \* else 'error'
          [] is("FUNCTIONS", "IS") -> [d EXCEPT !.headers = TRUE]
          [] is("FUNCTIONS", "REQUEST") ->
                IF Len(sub) = 3
                THEN [functions("IS") EXCEPT !.headers = TRUE]
                ELSE functions("REQUEST")
          [] OTHER -> d

handleSubnegotiation(d, sub) ==
    IF sub = <<>> THEN d ELSE
    CASE sub[1] = "TTYPE" /\ Len(sub) >= 2 /\ sub[2] = "SEND" ->
            sendRaw(d, <<"SB", "TTYPE", "IS">>)
      [] sub[1] = "NEW_ENVIRON" /\ kind = "tn5250" -> handleEnviron(d, sub)
      [] sub[1] = "TN3270E" /\ kind = "tn3270" /\ Len(sub) >= 3 -> handleTN3270ESubneg(d, sub)
      [] OTHER -> d

-----------------------------------------------------------------------------
(* The scanners.  An IAC that follows an IAC is its escape.                *)

\* the byte at i is the second one of an escaped pair, reading from `from` on
IsEscaped(b, from, i) ==
    Cardinality({j \in from..i-1 : \A m \in j..i-1 : b[m] = "IAC"}) % 2 = 1

\* mutant: 0xFF 0xEF within a record ends it
FaultyEnds(b, from, mark) == {i \in from..Len(b)-1 : b[i] = "IAC" /\ b[i + 1] = mark}

\* where IAC and the mark follow each other, escapes apart: findRecordEnd() and,
\* for records, findSubnegEnd()
Ends(b, from, mark) ==
    {i \in from..Len(b)-1 : b[i] = "IAC" /\ b[i + 1] = mark
                            /\ (InRecords => ~IsEscaped(b, from, i))}

From(d, i) == [d EXCEPT !.buf = SubSeq(@, i, Len(@))]

Unescaped(b) ==
    FlattenSeq([i \in 1..Len(b) |->
        IF b[i] = "IAC" /\ IsEscaped(b, 1, i) THEN <<>> ELSE <<b[i]>>])

\* a command at the head of the buffer, if it is all there
TakeCommand(d) ==
    LET b == d.buf
        ends == Ends(b, 3, "SE")
    IN  IF Len(b) < 2 THEN d ELSE
        CASE b[2] = "SB" /\ ends = {} -> d
          [] b[2] = "SB" /\ ends # {} ->
                LET end == Min(ends)
                    sub == SubSeq(b, 3, end - 1)
                IN  handleSubnegotiation(
                        [From(d, end + 2) EXCEPT !.commands = Append(@, <<"SB">> \o sub)], sub)
          [] b[2] \in Verbs /\ Len(b) < 3 -> d
          [] b[2] \in Verbs /\ Len(b) >= 3 ->
                handleNegotiation(
                    [From(d, 4) EXCEPT !.commands = Append(@, <<b[2], b[3]>>)], b[2], b[3])
          [] OTHER -> From(d, 3)

\* a 3270 record has a header of five bytes that says what it is
onRecord(d, r) ==
    CASE r = <<>> -> d
      [] r # <<>> /\ ~d.headers -> [d EXCEPT !.data = Append(@, r)]
      [] d.headers /\ Len(r) > 5 /\ r[1] \in {"DATA", "SSCP_LU"} ->
            [d EXCEPT !.data = Append(@, SubSeq(r, 6, Len(r)))]
      [] OTHER -> d

TakeRecord(d) ==
    LET ends == Ends(d.buf, 1, "EOR") IN
    IF ends = {} THEN d
    ELSE onRecord(From(d, Min(ends) + 2), Unescaped(SubSeq(d.buf, 1, Min(ends) - 1)))

\* the 6530 is told to pause and to go on within its text
TakeText(d) ==
    LET byte == Head(d.buf)
        rest == From(d, 2)
    IN  CASE kind = "hp6530" /\ byte = "DC3" -> [rest EXCEPT !.xoff = TRUE]
          [] kind = "hp6530" /\ byte = "DC1" -> flushSendQueue(rest)
          [] OTHER -> [rest EXCEPT !.data = Append(@, byte)]

\* mutant: a record that starts with an escape is never taken
FaultyTake(d) ==
    LET b == d.buf IN
    CASE b = <<>> -> d
      [] b # <<>> /\ b[1] = "IAC" -> IF Len(b) >= 2 /\ b[2] = "IAC" THEN d ELSE TakeCommand(d)
      [] OTHER -> IF InRecords THEN TakeRecord(d) ELSE TakeText(d)

\* scan(), processBuffer(): one turn
Take(d) ==
    LET b == d.buf
        doubled == Len(b) >= 2 /\ b[2] = "IAC"
    IN  CASE b = <<>> -> d
          [] b # <<>> /\ b[1] = "IAC" /\ ~doubled -> TakeCommand(d)
          [] OTHER ->
                IF InRecords THEN TakeRecord(d)
                ELSE IF doubled /\ b[1] = "IAC" THEN TakeText(From(d, 2)) ELSE TakeText(d)

\* feed(), onData(): as many turns as the bytes give, then nothing changes
Feed(d, bytes) ==
    LET e == [d EXCEPT !.buf = @ \o bytes]
    IN  FoldLeft(LAMBDA f, byte : Take(f), e, e.buf)

-----------------------------------------------------------------------------
(* The host (external): it speaks whole units, escaped as RFC 854 has it.  *)

Escaped(b) == FlattenSeq([i \in 1..Len(b) |-> IF b[i] = "IAC" THEN <<"IAC", "IAC">> ELSE <<b[i]>>])

\* of TN3270E, the host and the connection
Says(item) == \E i \in 1..Len(said) : said[i].as = "TN3270E" /\ said[i].item = item
WasTold(message) == \E i \in 1..Len(c.out) : c.out[i] = message

\* TN3270E is in force for the host: with FUNCTIONS IS, its own or ours, until it says DONT
HostHasHeaders ==
    /\ Says(<<"SB", "TN3270E", "FUNCTIONS", "IS">>) \/ WasTold(<<"SB", "TN3270E", "FUNCTIONS", "IS">>)
    /\ ~Says(<<"DONT", "TN3270E">>)

\* it says nothing else while TN3270E is neither in force nor refused
HostNegotiates ==
    /\ Says(<<"DO", "TN3270E">>) /\ ~Says(<<"DONT", "TN3270E">>)
    /\ ~HostHasHeaders /\ ~WasTold(<<"WONT", "TN3270E">>)

\* what RFC 2355 lets it say next: it answers what it was told last
HostMaySay(item) ==
    LET lastTold(m) == c.out # <<>> /\ Last(c.out) = m
        answers(m) == HostNegotiates /\ wire = <<>> /\ lastTold(m)
    IN  IF item = <<"DO", "TN3270E">> THEN TRUE
        ELSE IF item = <<"DONT", "TN3270E">> THEN Says(<<"DO", "TN3270E">>) ELSE
        CASE item[3] = "SEND" -> answers(<<"WILL", "TN3270E">>)
          [] item[3] = "DEVICE_TYPE" ->
                \E type \in {"extended", "plain"} :
                    answers(<<"SB", "TN3270E", "DEVICE_TYPE", "REQUEST", type>>)
          [] item[3] = "FUNCTIONS" -> answers(<<"SB", "TN3270E", "FUNCTIONS", "REQUEST">>)

\* What a host of kind k may say: whole units, with no end of a subnegotiation and no
\* XOFF within, and of TN3270E what RFC 2355 has, on a 3270 only
ClosesOnce(k, w) ==
    \A i \in 3..Len(w) - 1 :
        w[i] = "IAC" /\ w[i + 1] = "SE" /\ (k \in RecordKinds => ~IsEscaped(w, 3, i))
            <=> i = Len(w) - 1

IsCommand(k, item) ==
    /\ Len(item) >= 2
    /\ \/ item[1] \in Verbs /\ Len(item) = 2
       \/ item[1] = "SB" /\ ClosesOnce(k, <<"IAC">> \o item \o <<"IAC", "SE">>)

InRfc2355(item) ==
    \/ item[1] \in {"DO", "DONT"} /\ item[2] = "TN3270E"
    \/ item \in {<<"SB", "TN3270E", "SEND", "DEVICE_TYPE">>,
                 <<"SB", "TN3270E", "DEVICE_TYPE", "REJECT">>,
                 <<"SB", "TN3270E", "DEVICE_TYPE", "IS">>,
                 <<"SB", "TN3270E", "FUNCTIONS", "IS">>}
    \/ Len(item) >= 4 /\ SubSeq(item, 1, 4) = <<"SB", "TN3270E", "FUNCTIONS", "REQUEST">>

\* a record of another type than those with data, escaped as it is
IsOtherRecord(u) ==
    LET n == Len(u.item) IN
    /\ n >= 3
    /\ u.item[1] = u.type /\ u.type \notin {"DATA", "SSCP_LU"}
    /\ u.item[n - 1] = "IAC" /\ u.item[n] = "EOR"
    /\ \A i \in 1..n - 2 : u.item[i] # "IAC"

Sayable(k, u) ==
    /\ u.item \in Seq(STRING)
    /\ u.type # "DATA" => k = "tn3270" /\ u.as \in {"data", "skipped"}
    /\ CASE u.as = "data" ->
              /\ u.type \in {"DATA", "SSCP_LU"}
              /\ k = "hp6530" => \A i \in 1..Len(u.item) : u.item[i] \notin {"DC1", "DC3"}
         [] u.as = "command" -> IsCommand(k, u.item) /\ u.item[2] # "TN3270E"
         [] u.as = "TN3270E" -> k = "tn3270" /\ IsCommand(k, u.item) /\ InRfc2355(u.item)
         [] u.as = "flow" -> k = "hp6530" /\ u.item \in {<<"DC1">>, <<"DC3">>}
         [] u.as = "skipped" /\ u.type = "DATA" ->
              Len(u.item) = 2 /\ u.item[1] = "IAC" /\ u.item[2] \notin Verbs \cup {"SB", "IAC"}
         [] u.as = "skipped" /\ u.type # "DATA" -> IsOtherRecord(u)
         [] OTHER -> FALSE

ASSUME UnitsAssumption == \A k \in Kinds : \A u \in Units[k] : Sayable(k, u)
ASSUME OptionsAssumption == \A k \in Kinds : Options[k] \subseteq BOOLEAN

OnWire(u, headers) ==
    LET header == IF headers THEN <<u.type, "0", "0", "0", "IAC">> ELSE <<>> IN
    CASE u.as = "data" /\ InRecords -> Escaped(header \o u.item) \o <<"IAC", "EOR">>
      [] u.as = "data" /\ ~InRecords -> Escaped(u.item)
      [] u.as \in {"command", "TN3270E"} /\ u.item[1] \in Verbs -> <<"IAC">> \o u.item
      [] u.as \in {"command", "TN3270E"} /\ u.item[1] = "SB" ->
            <<"IAC">> \o u.item \o <<"IAC", "SE">>
      [] OTHER -> u.item

Talk(ss) == {i \in 1..Len(ss) : ss[i].as # "TN3270E"}

HostSays(u) ==
    /\ c.sock = "up"
    /\ IF u.as = "TN3270E"
       THEN ~Says(u.item) /\ ~Says(<<"DONT", "TN3270E">>) /\ HostMaySay(u.item)
       ELSE Cardinality(Talk(said)) < MaxUnits[kind] /\ ~(u.as = "data" /\ HostNegotiates)
    /\ u.type # "DATA" => HostHasHeaders
    /\ said' = Append(said, u)
    /\ wire' = wire \o OnWire(u, HostHasHeaders)
    /\ UNCHANGED <<kind, promise, again, c, asked>>

-----------------------------------------------------------------------------
(* The connection.                                                         *)

\* TCP delivers some of the bytes
onData(n) ==
    /\ c.sock = "up"
    /\ c' = Feed(c, SubSeq(wire, 1, n))
    /\ wire' = IF c'.sock = "up" THEN SubSeq(wire, n + 1, Len(wire)) ELSE <<>>
    /\ UNCHANGED <<kind, promise, again, said, asked>>

\* mutant: what the last connection left over is kept
FaultyConnect(option) ==
    /\ promise = "pending" => ~again
    /\ again' = (promise = "pending")
    /\ promise' = "pending"
    /\ c' = [New(option) EXCEPT !.buf = c.buf]
    /\ said' = <<>> /\ wire' = <<>> /\ asked' = <<>>
    /\ UNCHANGED kind

\* a socket that is there is dropped, and the promise of its connect() with it
connect(option) ==
    /\ promise = "pending" => ~again
    /\ again' = (promise = "pending")
    /\ promise' = "pending"
    /\ c' = New(option)
    /\ said' = <<>> /\ wire' = <<>> /\ asked' = <<>>
    /\ UNCHANGED kind

onConnected ==
    /\ c.sock = "dialing"
    /\ c' = [c EXCEPT !.sock = "up"]
    /\ promise' = "resolved"
    /\ UNCHANGED <<kind, again, said, wire, asked>>

\* mutant: the failure is not passed on
FaultyOnError ==
    /\ c.sock = "dialing"
    /\ c' = CleanedUp(c)
    /\ UNCHANGED <<kind, promise, again, said, wire, asked>>

\* 'error' before the connection is there
onError ==
    /\ c.sock = "dialing"
    /\ c' = CleanedUp(c)
    /\ promise' = "rejected"
    /\ UNCHANGED <<kind, again, said, wire, asked>>

\* mutant: the socket is destroyed and nobody told
FaultyOnConnectTimeout ==
    /\ kind = "tn5250" /\ c.sock = "dialing"
    /\ c' = CleanedUp(c)
    /\ UNCHANGED <<kind, promise, again, said, wire, asked>>

\* only the 5250 listens to the socket's timeout while it dials
onConnectTimeout == kind = "tn5250" /\ onError

\* 'close', 'error' or 'timeout' of a connection that is there
onClose ==
    /\ c.sock = "up"
    /\ c' = CleanedUp(c)
    /\ wire' = <<>>
    /\ UNCHANGED <<kind, promise, again, said, asked>>

\* nobody hears any more of a connect() that is pending
disconnect ==
    /\ c.sock # "none"
    /\ c' = CleanedUp(c)
    /\ wire' = <<>>
    /\ promise' = IF promise = "pending" THEN "left" ELSE promise
    /\ UNCHANGED <<kind, again, said, asked>>

\* the handler sends something, numbered to tell it apart
Send ==
    LET message == <<"SENT", Len(asked) + 1>> IN
    /\ c.sock = "up"
    /\ Len(asked) < MaxSends[kind]
    /\ asked' = Append(asked, message)
    /\ c' = IF kind = "tn3270" THEN sendRecord(c, message) ELSE sendRaw(c, message)
    /\ UNCHANGED <<kind, promise, again, said, wire>>

\* the keep-alive of the 5250 and the heartbeat of the 3270
Probe ==
    /\ c.sock = "up" /\ InRecords
    /\ Len(asked) < MaxSends[kind]
    /\ asked' = Append(asked, <<"DO", "TIMING_MARK">>)
    /\ c' = sendRaw(c, <<"DO", "TIMING_MARK">>)
    /\ UNCHANGED <<kind, promise, again, said, wire>>

Init ==
    /\ kind \in Kinds
    /\ promise = "none" /\ again = FALSE
    /\ c = CleanedUp(New(FALSE))
    /\ said = <<>> /\ wire = <<>> /\ asked = <<>>

Next ==
    \/ \E option \in Options[kind] : connect(option)
    \/ onConnected \/ onError \/ onConnectTimeout \/ onClose \/ disconnect
    \/ \E n \in 1..Len(wire) : onData(n)
    \/ \E u \in Units[kind] : HostSays(u)
    \/ Send \/ Probe

\* the socket's timer is Node's: it fires
Spec == Init /\ [][Next]_vars /\ WF_vars(onConnectTimeout)

-----------------------------------------------------------------------------
(* Properties.                                                             *)

(* Every variable has its type, and a connect() is pending just while the  *)
(* socket dials: none of the ways that a dial ends leaves it behind.       *)
TypeOK ==
    /\ kind \in Kinds /\ again \in BOOLEAN
    /\ promise \in {"none", "pending", "resolved", "rejected", "left"}
    /\ c.sock \in {"none", "dialing", "up"}
    /\ c.option \in BOOLEAN /\ c.xoff \in BOOLEAN /\ c.headers \in BOOLEAN /\ c.echoes \in BOOLEAN
    /\ c.device \in {"", "extended", "plain"}
    /\ c.sendSeq \in 0..Len(asked) /\ c.envReplies \in Nat
    /\ c.sock = "dialing" <=> promise = "pending"

\* the data of a unit: a record that is not empty, or bytes
DataIn(u) ==
    IF u.as # "data" THEN <<>>
    ELSE IF ~InRecords THEN u.item
    ELSE IF u.item = <<>> THEN <<>> ELSE <<u.item>>

CommandIn(u) == IF u.as \in {"command", "TN3270E"} THEN <<u.item>> ELSE <<>>

DataOf(ss) == FlattenSeq([i \in 1..Len(ss) |-> DataIn(ss[i])])
CommandsOf(ss) == FlattenSeq([i \in 1..Len(ss) |-> CommandIn(ss[i])])

DataChannel == INSTANCE Channel WITH said <- DataOf(said), heard <- c.data
CommandChannel == INSTANCE Channel WITH said <- CommandsOf(said), heard <- c.commands

(* The connection is a channel for the host's data (scan(),                *)
(* processBuffer()): records and text are heard once, whole and in order,  *)
(* without escapes and headers, wherever TCP cuts what the host says, and  *)
(* nothing of one connection is heard in the next.                         *)
DataIsHeard == DataChannel!Spec

(* It is one for the host's commands, too: no option or subnegotiation is  *)
(* lost, made up or heard twice between the records.                       *)
CommandsAreHeard == CommandChannel!Spec

(* The scanner does not stall: when all that the host said has arrived     *)
(* nothing of it is kept back (the test `does not stall when a record      *)
(* STARTS with an escaped IAC IAC`).                                       *)
QuietIsDelivered ==
    c.sock = "up" /\ wire = <<>> =>
        c.buf = <<>> /\ c.data = DataOf(said) /\ c.commands = CommandsOf(said)

\* what the handler sent, of all that was written
SentOf(ss) == FlattenSeq([i \in 1..Len(ss) |-> IF ss[i][1] = "SENT" THEN <<ss[i]>> ELSE <<>>])

(* 6530: XOFF delays what is sent, it neither drops nor reorders it, and   *)
(* nothing is left waiting once the host said XON (sendRaw(),              *)
(* flushSendQueue()).                                                      *)
FlowKeepsOrder ==
    kind = "hp6530" /\ c.sock = "up" =>
        /\ SentOf(c.out) \o SentOf(c.sendQueue) = asked
        /\ c.sendQueue # <<>> => c.xoff

(* 5250: a device name that the host asks for again is not said again: the *)
(* connection is given up (handleSubnegotiation()).                        *)
DeviceNameIsSaidOnce ==
    LET Asks(m) == m[1] = "SB" /\ Len(m) >= 3 /\ m[2] = "NEW_ENVIRON" /\ m[3] = "SEND"
        heard == c.commands
    IN  kind = "tn5250" /\ c.sock = "up" /\ c.option =>
            \A i, j \in 1..Len(heard) :
                i < j /\ Asks(heard[i]) /\ Asks(heard[j]) => ~Contains(heard[j], "DEVNAME")

(* 3270: whenever nothing is on its way from the host, both ends agree on  *)
(* whether records have headers, by whichever of RFC 2355's ways they came *)
(* to it (handleFunctionsReply(), handleNegotiation()).                    *)
HeadersAreAgreed ==
    kind = "tn3270" /\ c.sock = "up" /\ wire = <<>> => c.headers = HostHasHeaders

(* 5250: a connect() comes to an end even if the host never answers, or    *)
(* its handshake hangs (onConnectTimeout()).                               *)
ConnectSettles == kind = "tn5250" /\ promise = "pending" ~> promise # "pending"

(* The connection is a channel for both, the data and the commands, at     *)
(* once: neither is taken for the other or lost between the other's.       *)
IsChannel == DataIsHeard /\ CommandsAreHeard

(* Both ends agree: on all that has arrived, on the headers of records, on *)
(* the device's name, and on the order of what was sent.                   *)
EndsAgree ==
    /\ TypeOK
    /\ QuietIsDelivered /\ HeadersAreAgreed /\ DeviceNameIsSaidOnce /\ FlowKeepsOrder
=============================================================================
