------------------------------ MODULE Displays ------------------------------
(***************************************************************************)
(* protocols/index.ts: createProtocolHandler() gives a session the display *)
(* of its protocol, for as long as it lives.  The displays of Hp6530,      *)
(* Tn3270 and Vt stand side by side here, one of them is in use; that of   *)
(* the 5250 is in Tn5250.  Hp6530 is extended, not instantiated: so what   *)
(* is proved of it is proved of a session, too.                            *)
(***************************************************************************)
EXTENDS Hp6530

CONSTANTS
    None,
    Default3270, Alternate3270, Records3270, Texts3270, Keys3270, Attentions3270, Events3270,
    RowsVt, ColsVt, MinRun, Labels, Graphics, NumbersVt, ChunksVt, TextsVt, EventsVt

ASSUME SizesAssumption == {RowsVt, ColsVt, MinRun} \subseteq Nat \ {0}

\* What the theorems about the 6530 assume
ASSUME TerminalsAssumption == Parameters

VARIABLES
    protocol,
    page, painted,             \* the 3270
    term, viewed               \* the VT

sessionVars == <<protocol, page, painted, term, viewed, screen, typed, answer, events>>

T3270 == INSTANCE Tn3270 WITH
        s <- page, Default <- Default3270, Alternate <- Alternate3270, Records <- Records3270,
        Texts <- Texts3270, Keys <- Keys3270, Attentions <- Attentions3270,
        MaxEvents <- Events3270

TVt == INSTANCE Vt WITH
        Rows <- RowsVt, Cols <- ColsVt, Numbers <- NumbersVt, Chunks <- ChunksVt,
        Texts <- TextsVt, MaxEvents <- EventsVt

Protocols == {"tn3270", "vt", "hp6530"}

SessionInit ==
    /\ protocol \in Protocols
    /\ T3270!Init /\ TVt!Init /\ Init

SessionNext ==
    \/ protocol = "tn3270" /\ T3270!Next /\ UNCHANGED <<protocol, term, viewed, screen, typed>>
    \/ protocol = "vt" /\ TVt!Next /\ UNCHANGED <<protocol, page, painted, screen, typed>>
    \/ protocol = "hp6530" /\ Next /\ UNCHANGED <<protocol, page, painted, term, viewed>>

SessionSpec == SessionInit /\ [][SessionNext]_sessionVars

-----------------------------------------------------------------------------
(* The properties of the displays, whose parts are in their modules; that  *)
(* of the 6530 is Hp6530's TypingIsKept.                                   *)

(* 3270: the fields are what the attributes say, edits stay in them, are   *)
(* flagged, and are sent.                                                  *)
FormIsKept == T3270!FormIsKept

(* VT: text, margins, the primary screen, reports, detected fields and     *)
(* what the viewers see are what the host drew.                            *)
TerminalIsKept == TVt!TerminalIsKept
=============================================================================
