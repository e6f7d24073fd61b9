---------------------------- MODULE MCConnection ----------------------------
(***************************************************************************)
(* What the hosts say: text and records with escapes in them, commands of  *)
(* every kind, and RFC 2355 with its refusals.                             *)
(***************************************************************************)
EXTENDS Connection, TLC

Data(item) == [as |-> "data", type |-> "DATA", item |-> item]
Command(item) == [as |-> "command", type |-> "DATA", item |-> item]
Skipped(item) == [as |-> "skipped", type |-> "DATA", item |-> item]
Tn3270e(item) == [as |-> "TN3270E", type |-> "DATA", item |-> item]

CommonCommands == {
    Command(<<"SB", "TTYPE", "SEND">>), Command(<<"DO", "TTYPE">>),
    Command(<<"WILL", "BINARY">>), Command(<<"DONT", "BINARY">>), Skipped(<<"IAC", "NOP">>)}

RecordUnits == CommonCommands \cup {
    Data(<<"IAC", "EOR">>), Data(<<>>),
    Command(<<"WONT", "TIMING_MARK">>),
    Command(<<"SB", "x", "IAC", "IAC", "SE">>)}

StreamUnits == CommonCommands \cup {Data(<<"x", "IAC">>), Command(<<"WONT", "ECHO">>)}

MCUnits ==
    "tn5250" :> (RecordUnits \cup {
        Command(<<"SB", "NEW_ENVIRON", "SEND">>),
        Command(<<"SB", "NEW_ENVIRON", "SEND", "DEVNAME">>)}) @@
    "tn3270" :> ({
        Data(<<"IAC", "EOR">>),
        [as |-> "data", type |-> "SSCP_LU", item |-> <<"x">>],
        [as |-> "skipped", type |-> "UNBIND",
         item |-> <<"UNBIND", "0", "0", "0", "0", "IAC", "EOR">>]}
        \cup {Tn3270e(item) : item \in {
            <<"DO", "TN3270E">>, <<"DONT", "TN3270E">>,
            <<"SB", "TN3270E", "SEND", "DEVICE_TYPE">>,
            <<"SB", "TN3270E", "DEVICE_TYPE", "REJECT">>,
            <<"SB", "TN3270E", "DEVICE_TYPE", "IS">>,
            <<"SB", "TN3270E", "FUNCTIONS", "IS">>,
            <<"SB", "TN3270E", "FUNCTIONS", "REQUEST">>,
            <<"SB", "TN3270E", "FUNCTIONS", "REQUEST", "RESPONSES">>}}) @@
    "vt" :> (StreamUnits \cup {
        Command(<<"DO", "NAWS">>), Command(<<"WILL", "ECHO">>)}) @@
    "hp6530" :> (StreamUnits \cup {
        [as |-> "flow", type |-> "DATA", item |-> <<"DC3">>],
        [as |-> "flow", type |-> "DATA", item |-> <<"DC1">>]})

MCOptions == "tn5250" :> BOOLEAN @@ "tn3270" :> BOOLEAN @@ "vt" :> {FALSE} @@ "hp6530" :> {FALSE}
MCMax == "tn5250" :> 2 @@ "tn3270" :> 1 @@ "vt" :> 2 @@ "hp6530" :> 2
MCSends == "tn5250" :> 1 @@ "tn3270" :> 1 @@ "vt" :> 1 @@ "hp6530" :> 2
=============================================================================
